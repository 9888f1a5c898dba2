------------------------------ MODULE MCAgentJobs ------------------------------
(* A small instance of AgentJobs: a module entry, a source file, a new one,   *)
(* and test paths; plans that differ in what they get right.                  *)
EXTENDS AgentJobs, TLC
CONSTANTS main, other, kinds, gone, lib, core, fresh, tests, specs, a, b, c, note, sketch

Kind == lib :> "entry" @@ core :> "source" @@ fresh :> "source" @@ tests :> "tests"
          @@ specs :> "specs"
Files0 == lib :> <<a>> @@ core :> <<a, b, a>> @@ fresh :> Absent @@ tests :> Absent
            @@ specs :> Absent
Step(action, target, goal, patch) ==
  [step |-> 1, agent |-> IF action = "sync_types" THEN "TranspilerAgent" ELSE "BuilderAgent",
   action |-> action, target |-> target, goal |-> goal, patch |-> patch]
Change(from, to) == [search |-> from, replace |-> to]
Patch(p, hunks) == Step("patch_file", p, <<p>>, Hunks(hunks))
Plan(pipeline) == [task_id |-> "kebab-case", summary |-> "x", pipeline |-> pipeline]
Test(p) == Step("generate_tests", tests, <<tests, p>>, NoPatch)

Fix == Plan(<<Patch(core, <<Change(<<b>>, <<c>>)>>), Test(core)>>)
Ambiguous == Plan(<<Patch(core, <<Change(<<a>>, <<a, c>>)>>), Test(core)>>)
Scattered == Plan(<<Patch(core, <<Change(<<b, b>>, <<b, c>>)>>), Test(core)>>)
NewModule == Plan(<<Step("create_file", fresh, <<lib>>, Text(<<c>>)),
                    Patch(lib, <<Change(<<a>>, <<a, b>>)>>), Test(fresh)>>)
AsToldToCite == Plan(<<Patch(core, <<Change(<<a, b>>, <<a, c>>)>>),
                       Step("generate_tests", tests, <<tests>>, NoPatch)>>)
Sketched == Plan(<<Patch(core, <<Change(<<b>>, <<note>>)>>), Test(core)>>)
Sync == Plan(<<Step("sync_types", core, <<core>>, NoPatch)>>)
AllPlans == {Fix, Ambiguous, Scattered, NewModule, AsToldToCite, Sketched, Sync}

Asks(k, e) == [kind |-> k, expectation |-> e]
FewAsked == {Asks("none", "none"), Asks("bugfix", "none"), Asks("sync_types", "none"),
             Asks("feature", "surgical")}
FewPasted == {Fix, NewModule}
FewBodies == {<<a>>, <<a, b, a>>}
AllServers == ServerKinds

(* Repositories: sites that share lines, nest, have their meta inline; one    *)
(* outside the scope; a log type.                                             *)
Repo(lang, sites, logs, scope) ==
  [order |-> <<kinds, main, other>>,
   lang |-> main :> lang @@ other :> lang @@ kinds :> lang,
   body |-> main :> sites @@ other :> <<<<"name", "open">>, <<"headline">>, <<"close">>>>
              @@ kinds :> (IF logs = {} THEN <<<<"definition">>, <<"name">>>>
                           ELSE <<<<"a headline">>, <<"a subject">>, <<"a tags">>>>),
   production |-> {main, other, kinds}, placed |-> {main, other, kinds},
   scope |-> scope, logs |-> logs]
TwoSites ==
  <<<<"name", "open">>, <<"headline">>, <<"tags">>, <<"corr">>, <<"close", "name", "open">>,
    <<"message">>, <<"tags">>, <<"corr">>, <<"close">>>>
Separate ==
  <<<<"name", "open", "headline">>, <<"tags">>, <<"corr">>, <<"close">>,
    <<"name", "open">>, <<"message">>, <<"tags">>, <<"corr">>, <<"close">>>>
Shifting == <<<<"name", "open">>, <<"tags">>, <<"close">>, <<"name", "open">>, <<"headline">>, <<"close">>>>
Nested ==
  <<<<"name", "open">>, <<"headline", "open">>, <<"message">>, <<"close">>,
    <<"meta", "open">>, <<"tags">>, <<"close">>,
    <<"name", "open">>, <<"message">>, <<"close">>, <<"close">>>>
Inline(tag) ==
  <<<<"name", "open">>, <<"headline", "open", "message", "close">>,
    <<"meta", "open">> \o tag \o <<"corr", "close">>, <<"close">>>>
Uncommaed ==
  <<<<"name", "open">>, <<"headline", "open", "message", "close">>,
    <<"meta", "open", "corr", "tags", "close">>, <<"close">>>>
AllRepos ==
  {Repo(r[1], r[2], r[3], {main, kinds}) :
     r \in {<<"rs", TwoSites, {}>>, <<"rs", Shifting, {}>>, <<"cpp", Separate, {}>>, <<"py", Nested, {}>>,
            <<"ts", Nested, {}>>, <<"ts", Inline(<<"source">>), {}>>,
            <<"java", TwoSites, {kinds}>>, <<"cpp", Inline(<<"tags">>), {}>>, <<"cpp", Uncommaed, {}>>,
            <<"zig", Nested, {}>>}}
  \cup {Repo("py", Nested, {}, {kinds})}
FewRules == {{}, {"subject", "source", "tags"}}
At(file, ranges, lines) == [file |-> file, ranges |-> ranges, lines |-> lines]
FewTargets ==
  {<<At(main, <<<<4, 6>>, <<1, 5>>>>, <<>>), At(other, <<<<1, 3>>>>, <<>>)>>,
   <<At(main, <<>>, <<2, 9>>), At(gone, <<>>, <<1>>)>>}
\* A meta line that a source field is put amid, and ranges that meet there.
InlineRepos == AllRepos \cup {Repo("cpp", Inline(<<>>), {}, {main, kinds})}
MeetingTargets == FewTargets \cup {<<At(main, <<<<1, 4>>, <<2, 4>>>>, <<>>)>>}
FewRewrites == {<<<<"code">>, <<"name">>>>}

(* A sync of main: it may be preserved by mistake, or lie outside.            *)
FewPreserved == {{}, {other}, {main}}
FewWorkspaces == {{main, other}, {other, kinds}}
===============================================================================

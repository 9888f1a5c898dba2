----------------------------- MODULE BuilderJob -----------------------------
(***************************************************************************)
(* The jobs that build: generate_tests_and_scaffolding, execute_blueprint  *)
(* and verify_and_triage (src/src/mcp/handlers), around the test builder   *)
(* (agent/builder.rs) and the triage agent.  What the builder achieved is  *)
(* read back from the text of its log, which this module reduces to the    *)
(* few facts the code looks for in it.                                     *)
(***************************************************************************)
EXTENDS TriageAgent

CONSTANTS
  Guarded,       \* files write_test_suite refuses: tests/cache_manager_tests.rs
  NoPath,        \* no green launch in the log
  Elsewhere,     \* one quoted for a path of a kind no check knows
  BuilderTurns,  \* BUILDER_MAX_ITERATIONS
  BlankLimit,    \* EMPTY_TOOL_TURN_LIMIT
  MaxCalls,      \* bound: tool calls in one model turn
  MaxSuites,     \* bound: generate_tests steps of a blueprint
  Echoes         \* what enters the log may quote the lines it is read by

ASSUME BuilderAssumption ==
  /\ Guarded \subseteq Infra
  /\ NoPath \notin Files /\ Elsewhere \notin Files /\ NoPath # Elsewhere
  /\ Sources # {}
  /\ BuilderTurns \in Nat \ {0} /\ BlankLimit \in Nat \ {0}
  /\ MaxCalls \in Nat /\ MaxSuites \in Nat
  /\ Echoes \in BOOLEAN

VARIABLES
  tool,     \* the job
  stage,    \* how far the handler has come
  left,     \* generate_tests steps still to run
  builder   \* the builder loop and what its log says

vars == <<stack, content, tri, tool, stage, left, builder>>
jobVars == <<stack, tool, left>>

Ends == {"ok", "failed"}

Builders ==
  [source : Sources,  \* the file under test
   turn : 0 .. BuilderTurns, blanks : 0 .. BlankLimit, calls : 0 .. MaxCalls,
   finished : BOOLEAN,
   marker : BOOLEAN,  \* the log contains "[BUILDER GREEN OK]"
   capped : BOOLEAN,  \* the log contains "iteration limit after"
   path : Files \cup {NoPath, Elsewhere}]  \* of the last "Launching Triage (green)"

NewBuilder(source) ==
  [source |-> source, turn |-> 0, blanks |-> 0, calls |-> 0, finished |-> FALSE,
   marker |-> FALSE, capped |-> FALSE, path |-> NoPath]

Init ==
  /\ TriageInit
  /\ \/ tool = "generate_tests_and_scaffolding" /\ stage = "next" /\ left = 1
     \/ tool = "execute_blueprint" /\ stage = "apply" /\ left \in 0 .. MaxSuites
     \/ tool = "verify_and_triage" /\ stage = "open" /\ left = 0
  /\ \E source \in Sources : builder = NewBuilder(source)

-----------------------------------------------------------------------------
(* The handlers.                                                           *)

\* handle_verify_and_triage starts the agent over the requested paths.
OpenTriage ==
  /\ stage = "open"
  /\ \E targets \in SUBSET Files : tri' = Started("verify", targets, {})
  /\ stage' = "verify"
  /\ UNCHANGED <<jobVars, content, builder>>

\* execute_blueprint applies the file steps; with none it skips the triage.
ApplyFileSteps ==
  /\ stage = "apply"
  /\ \E touched \in SUBSET Sources :
       /\ content' \in {c \in [Files -> Contents] :
                          \A f \in Files : IF f \in touched THEN c[f] \in ContentsOf(f)
                                                            ELSE c[f] = content[f]}
       /\ IF touched = {} THEN stage' = "next" /\ tri' = tri
          ELSE stage' = "verify" /\ tri' = Started("verify", touched, {})
  /\ UNCHANGED <<jobVars, builder>>

\* verify_and_triage reports whatever came out; a blueprint needs a pass.
TriageReported ==
  /\ stage = "verify" /\ TriageOver
  /\ stage' = IF tool = "verify_and_triage" THEN "ok"
              ELSE IF tri.ends = "passed" THEN "next" ELSE "failed"
  /\ tri' = Idle
  /\ UNCHANGED <<jobVars, content, builder>>

\* The next generate_tests step gets a builder, and a log, of its own.
StartBuilder ==
  /\ stage = "next" /\ left > 0
  /\ stage' = "build" /\ left' = left - 1
  /\ \E source \in Sources : builder' = NewBuilder(source)
  /\ UNCHANGED <<stack, content, tri, tool>>

PipelineDone ==
  /\ stage = "next" /\ left = 0
  /\ stage' = "ok"
  /\ UNCHANGED <<jobVars, content, tri, builder>>

\* The cancel flag, the wall clock, a provider or a tool error: Err anywhere.
Abort ==
  /\ stage \notin Ends
  /\ stage' = "failed" /\ tri' = Idle
  /\ UNCHANGED <<jobVars, content, builder>>

-----------------------------------------------------------------------------
(* The builder loop.                                                       *)

Building == stage = "build" /\ tri.mode = "idle"
LoopHead == Building /\ builder.calls = 0 /\ ~builder.finished

\* The log is one text: the model's words, a scout's report and a build's
\* output are in it beside the host's own lines, and may hold what the host
\* will look for - the marker, a limit, a launch line.
Quotable ==
  [marker : {FALSE, Echoes}, capped : {FALSE, Echoes},
   path : {NoPath} \cup (IF Echoes THEN Files \cup {Elsewhere} ELSE {})]

Quote(b, q) ==
  [b EXCEPT !.marker = @ \/ q.marker, !.capped = @ \/ q.capped,
            !.path = IF q.path = NoPath THEN @ ELSE q.path]

Quoting(b) == {Quote(b, q) : q \in Quotable}

\* A turn without tool calls; the third in a row gives the job up.
BlankTurn ==
  /\ LoopHead /\ builder.turn < BuilderTurns
  /\ builder' \in Quoting([builder EXCEPT !.turn = @ + 1, !.blanks = @ + 1,
                             !.finished = builder.blanks + 1 >= BlankLimit])
  /\ UNCHANGED <<jobVars, content, tri, stage>>

\* Mutant: turns with tool calls are not counted.
ToolTurnUncounted ==
  /\ LoopHead /\ builder.turn < BuilderTurns
  /\ \E n \in 1 .. MaxCalls : builder' = [builder EXCEPT !.blanks = 0, !.calls = n]
  /\ UNCHANGED <<jobVars, content, tri, stage>>

\* A turn with tool calls: all of them run, in order.
ToolTurn ==
  /\ LoopHead /\ builder.turn < BuilderTurns
  /\ \E n \in 1 .. MaxCalls :
       builder' \in Quoting([builder EXCEPT !.turn = @ + 1, !.blanks = 0, !.calls = n])
  /\ UNCHANGED <<jobVars, content, tri, stage>>

CallPending == Building /\ builder.calls > 0

\* A rejected call (wrong extension, no code, a scout for a Rust unit test)
\* returns from the turn: the calls behind it are dropped.
CallRejected ==
  /\ CallPending
  /\ builder' = [builder EXCEPT !.calls = 0]
  /\ UNCHANGED <<jobVars, content, tri, stage>>

\* gather_integration_context, generate_test_factory: a nested scout loop
\* reads; if it runs out of turns its report quotes the limit.
CallScout ==
  /\ CallPending
  /\ \E hitLimit \in BOOLEAN :
       builder' \in Quoting([builder EXCEPT !.calls = @ - 1, !.capped = @ \/ hitLimit])
  /\ UNCHANGED <<jobVars, content, tri, stage>>

\* write_test_suite: write the file, aim the triage agent at it, run it.  Only
\* the extension of the path is looked at, so it may be any file of the
\* language but the guarded ones; the source under test takes Rust unit tests
\* alone, as the test block appended to it (merge_rust_unit_test_content).
CallWrite(f, phase) ==
  /\ CallPending /\ f \notin Guarded
  /\ f = builder.source => Inline
  /\ \E c \in ContentsOf(f) \ {"none"} : content' = [content EXCEPT ![f] = c]
  /\ builder' = [builder EXCEPT !.path = IF phase = "green" THEN f ELSE @]
  /\ tri' = Retarget(phase, f)
  /\ UNCHANGED <<jobVars, stage>>

TriageSuccess == tri.ends = (IF tri.mode = "red" THEN "red" ELSE "passed")

\* The nested triage is over: RED lets the loop go on, GREEN and REFACTOR
\* finish it (after the turn's remaining calls), a failure is an observation.
CallTriaged ==
  /\ stage = "build" /\ TriageOver
  /\ LET green == TriageSuccess /\ tri.mode # "red" IN
       builder' \in Quoting([builder EXCEPT !.calls = @ - 1, !.capped = @ \/ TriageCapped,
                               !.finished = @ \/ green, !.marker = @ \/ green])
  /\ tri' = Idle
  /\ UNCHANGED <<jobVars, content, stage>>

\* Mutant: the log is believed, nothing runs again.
TestPassesUnchecked(f) == TRUE

\* verify_test_passes: cargo test --test for a suite under tests/, cargo test
\* --lib for any other Rust file, npm test on the one file; other kinds of file
\* have no check.
TestPasses(f) ==
  f \in Files =>
    /\ stack.verify = "own" => f \in Tests /\ content[f] = "pass"
    /\ stack.verify = "crate" =>
         /\ \A s \in Sources : content[s] # "wrecked"
         /\ IF f \in Tests THEN content[f] = "pass" ELSE \A s \in Sources : content[s] = "pass"

BuilderOver ==
  Building /\ builder.calls = 0 /\ (builder.finished \/ builder.turn = BuilderTurns)

\* "hard_stopped": the last turn is used and the log speaks of a limit - the
\* builder's own (apply_iteration_cap) or one quoted from a nested loop.
HardStopped ==
  builder.turn >= BuilderTurns /\ (~builder.finished \/ builder.capped)

Accepted ==
  BuilderOver /\ builder.marker /\ ~HardStopped /\ builder.path # NoPath /\ TestPasses(builder.path)

FinishBuilder ==
  /\ BuilderOver
  /\ stage' = IF Accepted THEN "next" ELSE "failed"
  /\ UNCHANGED <<jobVars, content, tri, builder>>

-----------------------------------------------------------------------------
Step ==
  \/ OpenTriage \/ ApplyFileSteps \/ TriageReported
  \/ StartBuilder \/ PipelineDone \/ Abort
  \/ BlankTurn \/ ToolTurn
  \/ CallRejected \/ CallScout \/ CallTriaged
  \/ \E f \in Files, phase \in {"red", "green", "refactor"} : CallWrite(f, phase)
  \/ FinishBuilder
  \/ TriageStep /\ UNCHANGED <<tool, stage, left, builder>>

Next == Step

Spec == Init /\ [][Next]_vars

\* The job's task is run to its end: every await of it returns.
FairSpec == Spec /\ WF_vars(Next)

-----------------------------------------------------------------------------
(* Properties.                                                             *)

\* Type correctness: every definition of the module stays within the values
\* the handlers and the two agents can hold.
TypeOK ==
  /\ TriageTypeOK
  /\ tool \in {"generate_tests_and_scaffolding", "execute_blueprint", "verify_and_triage"}
  /\ stage \in {"open", "apply", "verify", "next", "build"} \cup Ends
  /\ left \in 0 .. (MaxSuites + 1)
  /\ builder \in Builders

\* What the host ran last is what a successful job leaves: whatever quoted
\* markers, limits and launch lines are in the log, and whatever later calls
\* of the turn did, the suite of the last green launch passes where its
\* language has a check, and a Rust crate compiles with it
\* (run_builder_green, verify_test_passes).
SuccessLeavesGreen ==
  stage = "ok" /\ builder.path \in Files /\ stack.verify # "none" =>
    /\ content[builder.path] = "pass"
    /\ stack.verify = "crate" => \A s \in Sources : content[s] # "wrecked"

\* Under the builder only the file of its last write is edited: what every
\* other suite and source holds changes by no nested triage - of a Rust unit
\* suite that file is the source itself, production code included
\* (TriageAgent::retarget, assert_edit_allowed).
NestedTriageStaysInScope ==
  [][stage = "build" /\ tri.mode # "idle" =>
       \A f \in Files \ tri.targets : content'[f] = content[f]]_vars

\* "[RED OK]" is said of code that builds and of a suite that fails: where the
\* test command is scoped it is the suite just written, whatever the state of
\* the others and whatever the failure's text is taken for
\* (try_finish_tdd_red, scope_test_command_for_paths).
ScopedRedFails ==
  tri.mode = "red" /\ tri.ends = "red" =>
    /\ BuildPasses(content)
    /\ Scoped => \A t \in tri.targets : content[t] \in {"broken", "red"}

\* Every job ends: no sequence of blank turns, rejected calls and nested
\* loops outlives the turn limits (AgentLoopOrchestrator::run_loop).
JobEnds == <>(stage \in Ends)

\* "Fail closed: do not leave intentional RED tests in the workspace."
\* (handle_generate_tests_and_scaffolding)
NoRedLeftBehind ==
  stage = "ok" /\ tool = "generate_tests_and_scaffolding" =>
    \A t \in Tests : content[t] # "red"

\* "[RED OK]: tests compile and fail assertions." (BuilderAgent)
RedMeansRed ==
  stack.test = "own" /\ tri.mode = "red" /\ tri.ends = "red" =>
    \A f \in tri.targets : content[f] = "red"

\* "The job is NOT done until GREEN triage passes (all tests pass)."
\* (BUILDER_SYSTEM_PROMPT)
GreenMeansTestsPass ==
  stage = "ok" /\ tool = "generate_tests_and_scaffolding" =>
    \E f \in Files : f = builder.path /\ content[f] = "pass"
==============================================================================

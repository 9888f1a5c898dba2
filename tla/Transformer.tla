------------------------------ MODULE Transformer ------------------------------
(***************************************************************************)
(* execute_global_refactor: the transformer (src/src/agent/transformer.rs) *)
(* gathers call sites or is given targets, edits them one after another    *)
(* with line numbers taken at the start, has the touched files triaged and *)
(* verified, up to its turn limit.                                         *)
(***************************************************************************)
EXTENDS Codemod

CONSTANTS
  Repos,       \* [order, lang, body, production, placed, scope, logs]
  Rules,       \* what an instruction or a rule may mention, {} is no migration
  TargetLists, \* what a model may send: sequences of [file, ranges, lines]
  Rewrites,    \* what the codemod model may answer
  RefactorTurns,  \* TRANSFORMER_MAX_ITERATIONS
  CallsOfJob   \* bound: tool calls of a job

LineRanges == {r \in (Nat \ {0}) \X (Nat \ {0}) : r[1] <= r[2]}

ASSUME TransformerAssumption ==
  /\ \A r \in Repos :
       /\ r.order \in Seq(ToSet(r.order))
       /\ \A m, n \in DOMAIN r.order : r.order[m] = r.order[n] => m = n
       /\ r.lang \in [ToSet(r.order) -> Languages]
       /\ r.body \in [ToSet(r.order) -> Seq(Seq(Tokens))]
       /\ r.production \cup r.placed \cup r.scope \cup r.logs \subseteq ToSet(r.order)
  /\ Rules \subseteq SUBSET Mentions
  /\ \A targets \in TargetLists :
       /\ targets \in Seq(ToSet(targets))
       /\ \A t \in ToSet(targets) : t.ranges \in Seq(LineRanges) /\ t.lines \in Seq(Nat \ {0})
  /\ Rewrites \subseteq Seq(Seq(Tokens)) \ {<<>>}
  /\ {RefactorTurns, CallsOfJob} \subseteq Nat \ {0}

VARIABLES
  repo, instruction,
  body,      \* of each file
  tf,        \* the job
  atApply,   \* bodies when the edits under way began
  atTriage   \* of each file when a triage with it among its targets last ended

transformer == <<repo, instruction, body, tf, atApply, atTriage>>

Job == [at : {"turn", "calls", "editing", "triage", "answered", "failed"},
        turn : 0 .. RefactorTurns, calls : 0 .. CallsOfJob, left : 0 .. CallsOfJob,
        rule : Rules, scanned : BOOLEAN, byModel : BOOLEAN, ok : BOOLEAN]

TransformerInit ==
  /\ repo \in Repos /\ instruction \in Rules
  /\ body = repo.body /\ atApply = repo.body /\ atTriage = repo.body
  /\ tf = [at |-> "turn", turn |-> 0, calls |-> 0, left |-> CallsOfJob,
           rule |-> instruction, todo |-> <<>>, touched |-> {}, scanned |-> FALSE, byModel |-> FALSE, ok |-> FALSE]

-----------------------------------------------------------------------------
(* The model calls tools, or thinks; the loop goes on until one call ended *)
(* well, but a turn makes all its calls.                                   *)
TakeTurn ==
  /\ tf.at = "turn" /\ ~tf.ok /\ tf.turn < RefactorTurns
  /\ \E n \in 0 .. tf.left :
       tf' = [tf EXCEPT !.turn = @ + 1, !.calls = n, !.left = @ - n,
                        !.at = IF n = 0 THEN "turn" ELSE "calls"]
  /\ UNCHANGED <<repo, instruction, body, atApply, atTriage>>

Answer ==
  /\ tf.at = "turn" /\ (tf.ok \/ tf.turn = RefactorTurns)
  /\ tf' = [tf EXCEPT !.at = "answered"]
  /\ UNCHANGED <<repo, instruction, body, atApply, atTriage>>

CallEnds(job) ==
  [job EXCEPT !.calls = @ - 1, !.at = IF job.calls = 1 THEN "turn" ELSE "calls"]

-----------------------------------------------------------------------------
(* Targets.                                                                *)
EditsOf(target) ==
  [n \in DOMAIN target.ranges |->
     [file |-> target.file, from |-> target.ranges[n][1], to |-> target.ranges[n][2], line |-> FALSE]]
  \o [n \in DOMAIN target.lines |->
     [file |-> target.file, from |-> target.lines[n], to |-> target.lines[n], line |-> TRUE]]

Existing(targets) == Picked(targets, {n \in DOMAIN targets : targets[n].file \in ToSet(repo.order)})

Begins(targets, rule, scanned) ==
  /\ tf' = [tf EXCEPT !.at = "editing", !.rule = rule, !.touched = {}, !.byModel = FALSE,
                      !.scanned = scanned,
                      !.todo = FlattenSeq([n \in DOMAIN Existing(targets) |->
                                             EditsOf(Existing(targets)[n])])]
  /\ atApply' = body /\ UNCHANGED <<repo, instruction, body, atTriage>>

FoundTargets ==
  LET ranges(p) == RefactorRanges(repo.lang[p], body[p])
      files == Picked(repo.order, {n \in DOMAIN repo.order :
                 repo.order[n] \in repo.production /\ ranges(repo.order[n]) # <<>>})
  IN [n \in DOMAIN files |-> [file |-> files[n], ranges |-> ranges(files[n]), lines |-> <<>>]]

InScope(targets) == Picked(targets, {n \in DOMAIN targets : targets[n].file \in repo.scope})

(* gather_refactor_targets edits what it finds, fails if that is all out   *)
(* of scope, and has a scout report if it finds nothing.                   *)
GatherAndApply ==
  /\ tf.at = "calls"
  /\ \E targets \in {InScope(FoundTargets)} :
       targets # <<>> /\ Begins(targets, instruction, TRUE)

GatherEnds ==
  /\ tf.at = "calls"
  /\ \E targets \in {FoundTargets} :
       /\ InScope(targets) = <<>>
       /\ tf' = IF targets = <<>> THEN CallEnds(tf) ELSE [tf EXCEPT !.at = "failed"]
  /\ UNCHANGED <<repo, instruction, body, atApply, atTriage>>

(* apply_structural_codemod takes the targets and the rule of the model.   *)
ApplyCodemod ==
  /\ tf.at = "calls"
  /\ \E targets \in TargetLists, rule \in Rules : Begins(targets, rule, FALSE)

-----------------------------------------------------------------------------
(* apply_codemod_to_targets, edit by edit.                                 *)
Snippet(e) == SubSeq(body[e.file], e.from, Min({e.to, Len(body[e.file])}))
InFile(e) == e.to <= Len(body[e.file])
Spliced(e, new) ==
  [body EXCEPT ![e.file] =
     SubSeq(@, 1, e.from - 1) \o new \o SubSeq(@, e.to + 1, Len(@))]

EditDone(new, model) ==
  LET e == Head(tf.todo)
  IN /\ body' = Spliced(e, new)
     /\ tf' = [tf EXCEPT !.todo = Tail(@), !.touched = @ \cup {e.file}, !.byModel = @ \/ model]
     /\ UNCHANGED <<repo, instruction, atApply, atTriage>>

EditSkipped ==
  /\ tf' = [tf EXCEPT !.todo = Tail(@)]
  /\ UNCHANGED <<repo, instruction, body, atApply, atTriage>>

(* A range of a migration is for the language's codemod alone; otherwise   *)
(* it is for the model.  An error is noted.                                *)
EditRange ==
  /\ tf.at = "editing" /\ tf.todo # <<>>
  /\ LET e == Head(tf.todo)
         texts == IF IsFieldMigration(tf.rule)
                  THEN Migrated(repo.lang[e.file], e.file \in repo.placed, Snippet(e))
                  ELSE Rewrites
     IN /\ ~e.line
        /\ \/ \E new \in texts : InFile(e) /\ EditDone(new, ~IsFieldMigration(tf.rule))
           \/ (texts = {} \/ ~IsFieldMigration(tf.rule) \/ ~InFile(e)) /\ EditSkipped

(* A line is for the model: one line.  One that is out of the file fails   *)
(* the job, one the model leaves unanswered is noted.                      *)
EditLine ==
  /\ tf.at = "editing" /\ tf.todo # <<>> /\ Head(tf.todo).line
  /\ \/ InFile(Head(tf.todo)) /\ \E new \in Rewrites : EditDone(<<Head(new)>>, TRUE)
     \/ ~InFile(Head(tf.todo)) /\ tf' = [tf EXCEPT !.at = "failed"]
        /\ UNCHANGED <<repo, instruction, body, atApply, atTriage>>
     \/ EditSkipped

(* Nothing applied fails the job.  A migration then renames the fields of  *)
(* the log types of the scope, which are touched files too.                *)
TypesToMigrate ==
  IF ~IsFieldMigration(tf.rule) THEN {}
  ELSE {p \in repo.logs \ tf.touched : TypeMigrated(body[p]) # body[p]}

\* Mutant: the log types are no touched files.
TouchesCallsOnly(types) == tf.touched

TouchedWith(types) == tf.touched \cup types

EditsEnd ==
  /\ tf.at = "editing" /\ tf.todo = <<>>
  /\ IF tf.touched = {}
     THEN tf' = [tf EXCEPT !.at = "failed"] /\ UNCHANGED body
     ELSE /\ tf' = [tf EXCEPT !.at = "triage", !.touched = TouchedWith(TypesToMigrate)]
          /\ body' = [p \in DOMAIN body |->
                        IF p \in TypesToMigrate THEN TypeMigrated(body[p]) ELSE body[p]]
  /\ UNCHANGED <<repo, instruction, atApply, atTriage>>

-----------------------------------------------------------------------------
(* The triage may edit a touched file; after one that passes a migration   *)
(* is verified.                                                            *)
VerificationPassed(now) ==
  VerifyFieldMigration(repo.lang, now, tf.rule, tf.touched)

Triage ==
  /\ tf.at = "triage"
  /\ \E now \in {body} \cup {[body EXCEPT ![p][1] = <<"code">>] :
                               p \in {q \in tf.touched : body[q] # <<>>}},
        passed \in BOOLEAN :
       /\ body' = now
       /\ atTriage' = [p \in DOMAIN body |-> IF p \in tf.touched THEN now[p] ELSE atTriage[p]]
       /\ tf' = [CallEnds(tf) EXCEPT !.ok = @ \/ (passed /\ VerificationPassed(now))]
  /\ UNCHANGED <<repo, instruction, atApply>>

(* A provider, a parser, a subagent or the journal fails.                  *)
TransformerFails ==
  /\ tf.at \in {"turn", "calls", "triage"} /\ tf' = [tf EXCEPT !.at = "failed"]
  /\ UNCHANGED <<repo, instruction, body, atApply, atTriage>>

TransformerNext ==
  \/ TakeTurn \/ Answer
  \/ GatherAndApply \/ GatherEnds \/ ApplyCodemod
  \/ EditRange \/ EditLine \/ EditsEnd
  \/ Triage \/ TransformerFails

-----------------------------------------------------------------------------
(* Type correctness of the job.                                            *)
TransformerTypeOK ==
  /\ [f \in DOMAIN tf \ {"todo", "touched"} |-> tf[f]] \in Job
  /\ tf.touched \subseteq ToSet(repo.order)
  /\ body \in [ToSet(repo.order) -> Seq(Seq(Tokens))]

(* A migration only renames, drops tags and adds source fields: whatever   *)
(* the ranges, in whatever order, overlapping or moved by the edits before *)
(* them, every other field and brace of a plain file stays, in its order   *)
(* (try_..._codemod, edit_file_range).                                     *)
MigrationKeepsFields ==
  tf.at = "triage" /\ IsFieldMigration(tf.rule) /\ ~tf.byModel =>
    \A p \in tf.touched :
      Plain(repo.lang[p], atApply[p]) => KeptFields(body[p]) = KeptFields(atApply[p])

(* The same of a file where a source field is put amid a line: it does not *)
(* hold if two ranges meet there, since the second one takes the line for  *)
(* that field (cpp_codemod.rs:41).  No run checks it.                      *)
FieldsSurviveAnyRanges ==
  tf.at = "triage" /\ IsFieldMigration(tf.rule) /\ ~tf.byModel =>
    \A p \in tf.touched :
      FieldsAlone(repo.lang[p], atApply[p]) => KeptFields(body[p]) = KeptFields(atApply[p])

(* What the scan finds is migrated as a whole: if the outermost calls have *)
(* lines of their own, and none grows or shrinks, no legacy field is left  *)
(* in a file, however calls nest in them and whichever line they start in  *)
(* (find_refactor_targets, drop_subset_ranges, edit_file_range).           *)
Outermost(found) == {r \in found : \A s \in found : Within(r, s) => s = r}
Apart(r, s) == r[2] < s[1] \/ s[2] < r[1]
Regular(p) ==
  LET lang == repo.lang[p]
      found == ToSet(FoundRanges(lang, atApply[p]))
      snippet(r) == SubSeq(atApply[p], r[1], r[2])
  IN /\ FieldsAlone(lang, atApply[p]) /\ ~SomeLine(atApply[p], "definition")
     /\ \A r, s \in Outermost(found) : r = s \/ Apart(r, s)
     /\ \A r \in Outermost(found) :
          /\ \A new \in Migrated(lang, TRUE, snippet(r)) : Len(new) = Len(snippet(r))
          /\ Legacy(snippet(r)) # {} => Migrated(lang, TRUE, snippet(r)) # {}
     /\ \A i \in DOMAIN atApply[p] :
          Legacy(<<atApply[p][i]>>) # {} =>
            /\ \E r \in found : Within(<<i, i>>, r)
            /\ Anywhere(lang) \/ Legacy(<<Tail(atApply[p][i])>>) = {}
MigrationReachesAll ==
  tf.at = "triage" /\ IsFieldMigration(tf.rule) /\ tf.scanned =>
    \A p \in tf.touched \cap repo.production \cap repo.placed \cap repo.scope :
      Regular(p) => Legacy(body[p]) = {}

(* Nothing a job answers with has escaped its triage: each file it changed *)
(* was among the targets of a triage after its last change, log types and  *)
(* later calls of the same turn included (apply_and_triage, retarget).     *)
NothingUntriaged == tf.at = "answered" => body = atTriage

(* "only files under this path are gathered, codemodded, verified, and     *)
(* triaged" (execute_global_refactor_schema, scope_path).                  *)
RefactorStaysInScope ==
  tf.at = "answered" => \A p \in DOMAIN body : body[p] # repo.body[p] => p \in repo.scope
===============================================================================

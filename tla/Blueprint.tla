------------------------------- MODULE Blueprint -------------------------------
(***************************************************************************)
(* The plans of plan_blueprint: what makes one valid                       *)
(* (src/src/agent/planner/tools/validate.rs), what a coordinator may ask   *)
(* of it (args.rs, constraints.rs) and how its file steps are applied      *)
(* (tools/apply.rs).  A file is a sequence of lines, and so is a SEARCH or *)
(* a REPLACE block: an anchor that starts or ends inside a line is left    *)
(* out.  A goal is the sequence of the paths it cites with a line.         *)
(***************************************************************************)
EXTENDS Integers, Sequences, FiniteSets, SequencesExt

CONSTANTS
  Paths,         \* workspace-relative
  KindOf,        \* KindOf[p]: what the name of a path says
  Lines,         \* of files and blocks
  CommentLines,  \* those that start with //, # or /*
  SketchLines,   \* those with a placeholder or an ellipsis
  Absent,        \* no such file
  MaxNewLines    \* SURGICAL_MAX_NEW_LINES

PathKinds == {"manifest", "entry", "tests", "specs", "source", "document"}

ASSUME BlueprintAssumption ==
  /\ KindOf \in [Paths -> PathKinds]
  /\ CommentLines \cup SketchLines \subseteq Lines
  /\ Absent \notin Seq(Lines)
  /\ MaxNewLines \in Nat

IsTestOutputPath(p) == KindOf[p] \in {"tests", "specs"}
IsTestish(p) == KindOf[p] = "tests"
IsModuleEntryFile(p) == KindOf[p] = "entry"
IsNewSourceModule(p) == KindOf[p] = "source"

TestTypeForTarget(p) == IF IsTestish(p) THEN "integration" ELSE "unit"

-----------------------------------------------------------------------------
(* Blocks.                                                                 *)
OccursAt(body, block, i) == SubSeq(body, i, i + Len(block) - 1) = block
Occurrences(body, block) ==
  {i \in 1 .. Len(body) - Len(block) + 1 : OccursAt(body, block, i)}

Grounded(body, block) == block # <<>> /\ Occurrences(body, block) # {}

(* REPLACE differs, adds few lines and keeps one of several.               *)
Minimal(hunk) ==
  /\ hunk.replace # hunk.search
  /\ Len(hunk.replace) <= Len(hunk.search) + MaxNewLines
  /\ (Len(hunk.search) >= 2 /\ Len(hunk.search) = Len(hunk.replace)) =>
       ToSet(hunk.search) \cap ToSet(hunk.replace) # {}

CommentSketch(block) ==
  block = <<>> \/ 2 * Len(SelectSeq(block, LAMBDA l : l \in CommentLines)) > Len(block)

(* No placeholder, no sketch in comments, no ellipsis.                     *)
BodyQuality(block) == ToSet(block) \cap SketchLines = {} /\ ~CommentSketch(block)

(* patch_content: nothing, a text, hunks, or hunks with text around them.  *)
NoPatch == [form |-> "empty", text |-> <<>>, hunks |-> <<>>]
Text(t) == [form |-> "text", text |-> t, hunks |-> <<>>]
Hunks(hs) == [form |-> "hunks", text |-> <<>>, hunks |-> hs]
ParsesAsHunks(patch) == patch.form = "hunks" /\ patch.hunks # <<>>

-----------------------------------------------------------------------------
(* A step; a plan is its task_id's form, its summary and its pipeline.     *)
Has(plan, action) == \E i \in DOMAIN plan.pipeline : plan.pipeline[i].action = action
StepsOf(plan) == ToSet(plan.pipeline)
IsCode(step) == step.action \in {"patch_file", "create_file"}
NeedsTarget(step) == step.action \notin {"create_file", "generate_tests"}

AgentOf == [patch_file |-> "BuilderAgent", create_file |-> "BuilderAgent",
            generate_tests |-> "BuilderAgent", sync_types |-> "TranspilerAgent"]

PatchBodyQuality(step) ==
  CASE step.action = "patch_file" ->
         /\ ParsesAsHunks(step.patch)
         /\ \A i \in DOMAIN step.patch.hunks : BodyQuality(step.patch.hunks[i].replace)
    [] step.action = "create_file" -> BodyQuality(step.patch.text)

ValidStep(step, disk) ==
  /\ step.step >= 1
  /\ step.action \in DOMAIN AgentOf /\ step.agent = AgentOf[step.action]
  /\ step.action = "generate_tests" => IsTestOutputPath(step.target)
  /\ NeedsTarget(step) => disk[step.target] # Absent
  /\ IF IsCode(step) THEN step.patch.form # "empty" /\ PatchBodyQuality(step)
                     ELSE step.patch.form = "empty"

(* Every goal cites a line, a change comes with tests, a new module with   *)
(* its declaration: anywhere in the pipeline.                              *)
Complete(plan) ==
  /\ \A step \in StepsOf(plan) : step.goal # <<>>
  /\ (\E step \in StepsOf(plan) : IsCode(step)) => Has(plan, "generate_tests")
  /\ (\E step \in StepsOf(plan) : step.action = "create_file" /\ IsNewSourceModule(step.target))
       => \E step \in StepsOf(plan) : step.action = "patch_file" /\ IsModuleEntryFile(step.target)

PatchHunks(plan, disk) ==
  \A step \in StepsOf(plan) : step.action = "patch_file" =>
    \A i \in DOMAIN step.patch.hunks :
      /\ Grounded(disk[step.target], step.patch.hunks[i].search)
      /\ Minimal(step.patch.hunks[i])

ValidBlueprint(plan, disk) ==
  /\ plan.task_id = "kebab-case" /\ plan.summary # "" /\ plan.pipeline # <<>>
  /\ \A step \in StepsOf(plan) : ValidStep(step, disk)
  /\ Complete(plan)
  /\ PatchHunks(plan, disk)

(* Every file changed was read; created files and test files are not.      *)
GroundedIn(plan, touched) ==
  /\ touched # {}
  /\ \A step \in StepsOf(plan) : NeedsTarget(step) => step.target \in touched

-----------------------------------------------------------------------------
(* What the coordinator asks for.                                          *)
Kinds == {"none", "feature", "bugfix", "refactor", "sync_types"}
Expectations == {"none", "surgical", "not surgical", "another"}
Coordinators == [kind : Kinds, expectation : Expectations]

SurgicalPatches(asked) ==
  asked.kind \in {"bugfix", "refactor"} \/ asked.expectation = "surgical"

PlanKindGates(plan, asked) ==
  CASE asked.kind = "none" -> TRUE
    [] asked.kind = "sync_types" ->
         \A step \in StepsOf(plan) :
           step.agent = "TranspilerAgent" /\ step.action = "sync_types"
    [] asked.kind = "bugfix" -> Len(plan.pipeline) <= 3 /\ ~Has(plan, "create_file")
    [] asked.kind = "refactor" ->
         \A step \in StepsOf(plan) :
           step.action = "create_file" => ~IsNewSourceModule(step.target)
    [] asked.kind = "feature" ->
         SurgicalPatches(asked) => Len(SelectSeq(plan.pipeline, IsCode)) >= 2

Fits(plan, asked) ==
  (asked.kind = "none" /\ asked.expectation = "none") \/ PlanKindGates(plan, asked)

-----------------------------------------------------------------------------
(* Application.  Occurrences that overlap count as one.                    *)
OccursOnce(body, block) ==
  /\ Occurrences(body, block) # {}
  /\ LET first == CHOOSE i \in Occurrences(body, block) :
                    \A j \in Occurrences(body, block) : i <= j
     IN \A j \in Occurrences(body, block) : j < first + Len(block)

ReplaceFirst(body, hunk) ==
  LET at == CHOOSE i \in Occurrences(body, hunk.search) :
              \A j \in Occurrences(body, hunk.search) : i <= j
  IN SubSeq(body, 1, at - 1) \o hunk.replace
       \o SubSeq(body, at + Len(hunk.search), Len(body))

Failed == <<"failed">>

(* apply_hunks_to_body: hunks left to right, each anchor in one place of   *)
(* what the hunks before it left.                                          *)
ApplyHunks(body, hunks) ==
  LET applied(b, h) == IF b # Failed /\ h.search # <<>> /\ OccursOnce(b, h.search)
                       THEN ReplaceFirst(b, h) ELSE Failed
      after[n \in 0 .. Len(hunks)] == IF n = 0 THEN body ELSE applied(after[n - 1], hunks[n])
  IN after[Len(hunks)]

\* Mutant: the steps the builder does are not skipped.
AppliesEveryStep(disk, step) ==
  IF step.action = "create_file" /\ disk[step.target] = Absent
  THEN [disk EXCEPT ![step.target] = step.patch.text]
  ELSE IF step.action = "patch_file" /\ disk[step.target] # Absent
          /\ ApplyHunks(disk[step.target], step.patch.hunks) # Failed
  THEN [disk EXCEPT ![step.target] = ApplyHunks(@, step.patch.hunks)]
  ELSE Failed

ApplyStep(disk, step) ==
  CASE step.action = "generate_tests" -> disk
    [] step.action = "create_file" ->
         IF disk[step.target] = Absent THEN [disk EXCEPT ![step.target] = step.patch.text]
         ELSE Failed
    [] step.action = "patch_file" ->
         LET body == IF disk[step.target] = Absent THEN Failed
                     ELSE ApplyHunks(disk[step.target], step.patch.hunks)
         IN IF body = Failed THEN Failed ELSE [disk EXCEPT ![step.target] = body]
    [] OTHER -> Failed

(* apply_blueprint_file_steps: the disk with every step applied, or Failed. *)
ApplyFileSteps(disk, plan) ==
  LET applied(d, step) == IF d = Failed THEN Failed ELSE ApplyStep(d, step)
      after[n \in 0 .. Len(plan.pipeline)] ==
        IF n = 0 THEN disk ELSE applied(after[n - 1], plan.pipeline[n])
  IN IF Has(plan, "sync_types") THEN Failed ELSE after[Len(plan.pipeline)]

(* The source a generate_tests goal names: the first path cited that does  *)
(* not look like a test.                                                   *)
SourceUnderTest(step) ==
  LET sources == SelectSeq(step.goal, LAMBDA p : ~IsTestish(p))
  IN IF sources = <<>> THEN Absent ELSE Head(sources)
===============================================================================

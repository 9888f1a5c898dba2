-------------------------------- MODULE Planner --------------------------------
(***************************************************************************)
(* plan_blueprint and execute_blueprint: the hybrid planner scouts, emits  *)
(* and repairs a plan (src/src/agent/planner/mod.rs), the handler gates it *)
(* (mcp/handlers/mod.rs), and a later job applies it                       *)
(* (handlers/execute_blueprint.rs).  Files change meanwhile.               *)
(***************************************************************************)
EXTENDS Blueprint, AgentLoop

CONSTANTS
  Plans,       \* the blueprints a model may write
  Pasted,      \* those it may put in its prose
  Shared,      \* the files others write
  Asked,       \* what coordinators ask for
  Bodies,      \* what files may be changed to
  InitialDisk,
  ScoutTurns, EmitTurns, FixTurns, FixRounds,  \* PLANNER_..._ITERATIONS, ROUNDS
  MaxChanges,  \* bound: changes by others
  NoPlan       \* a report was answered

ASSUME PlannerAssumption ==
  /\ InitialDisk \in [Paths -> Bodies \cup {Absent}]
  /\ Asked \subseteq Coordinators /\ Pasted \subseteq Plans /\ Shared \subseteq Paths
  /\ {ScoutTurns, EmitTurns, FixTurns, FixRounds, MaxChanges} \subseteq Nat
  /\ NoPlan \notin Plans
  /\ Bodies \subseteq Seq(Lines)
  /\ \A plan \in Plans :
       /\ plan.pipeline \in Seq(StepsOf(plan))
       /\ \A step \in StepsOf(plan) :
            /\ step.target \in Paths /\ step.patch.text \in Seq(Lines)
            /\ step.patch.hunks \in Seq([search : Seq(Lines), replace : Seq(Lines)])
  /\ Failed \notin Seq(Lines) /\ Paths # {1}  \* Failed is no text and no disk

VARIABLES
  disk, changes,
  planning,   \* where plan_blueprint is
  asked,      \* the coordinator's constraints
  ctx,        \* the context of the loop under way
  round,      \* fix rounds taken
  answer, answeredOn,  \* what was answered, and the disk at that moment
  execution,  \* what became of it
  reads, ran  \* bookkeeping: files read by the job, its last call that ran

planner == <<planning, asked, ctx, round, answer, answeredOn, reads, ran>>

ReadCall(p) == <<"read_file", p>>
EmitCall(plan) == <<"emit_blueprint", plan>>
SearchCall == <<"ripgrep", NoPlan>>

PlannerInit ==
  /\ disk = InitialDisk /\ changes = 0
  /\ planning = "scout" /\ asked \in Asked
  /\ ctx = Context(EmptyLog, ScoutTurns) /\ round = 0
  /\ answer = NoPlan /\ answeredOn = InitialDisk /\ execution = "none"
  /\ reads = {} /\ ran = [call |-> NoCall, flip |-> FALSE]

(* Somebody else writes a file; what comes after the execution is not seen.*)
DiskChanges ==
  /\ execution = "none"
  /\ changes < MaxChanges /\ changes' = changes + 1
  /\ \E p \in Shared, body \in Bodies : disk' = [disk EXCEPT ![p] = body]
  /\ UNCHANGED <<planner, execution>>

-----------------------------------------------------------------------------
(* Turns of the scout and of the emit agent.                               *)
Turning == planning \in {"scout", "emit"} /\ Loops(ctx)
Runs(call) == ran' = [call |-> call, flip |-> ~ran.flip]
Keeps == UNCHANGED <<disk, changes, planning, asked, round, answer, answeredOn, execution>>

(* Prose, with or without a plan in it; the emit agent is told to emit it. *)
TurnOfProse ==
  /\ Turning
  /\ \E c \in AsSent(ctx), x \in Pasted \cup {NoJson} : ctx' = Thinks(c, x)
  /\ Keeps /\ UNCHANGED <<reads, ran>>

TurnBlocked ==
  /\ Turning /\ ctx.last # NoCall
  /\ \E c \in AsSent(ctx) : Repeats(c, ctx.last) /\ ctx' = BlockedCall(c)
  /\ Keeps /\ UNCHANGED <<reads, ran>>

(* record_planner_touched_file.                                            *)
TurnOfRead(p) ==
  /\ Turning /\ disk[p] # Absent
  /\ \E c \in AsSent(ctx) :
       /\ ~Repeats(c, ReadCall(p))
       /\ ctx' = [ObservedCall(c, ReadCall(p)) EXCEPT !.touched = @ \cup {p}]
  /\ reads' = reads \cup {p} /\ Runs(ReadCall(p))
  /\ Keeps

(* detect_language, ripgrep, ast_calls.                                    *)
TurnOfSearch ==
  /\ Turning /\ planning = "scout"
  /\ \E c \in AsSent(ctx) :
       ~Repeats(c, SearchCall) /\ ctx' = ObservedCall(c, SearchCall)
  /\ Runs(SearchCall)
  /\ Keeps /\ UNCHANGED reads

(* EmitBlueprintTool::invoke.                                              *)
EmitAccepts(plan) == ValidBlueprint(plan, disk) /\ Fits(plan, asked)

(* A plan the tool accepts ends the loop, unless a file it changes was not *)
(* read; the log is then that plan.                                        *)
TurnOfEmit(plan) ==
  /\ Turning /\ planning = "emit"
  /\ \E c \in AsSent(ctx) :
       /\ ~Repeats(c, EmitCall(plan))
       /\ ctx' = IF ~EmitAccepts(plan) THEN ObservedCall(c, EmitCall(plan))
                 ELSE LET final == FinalCall(c, EmitCall(plan), plan)
                      IN IF GroundedIn(plan, c.touched) THEN final
                         ELSE [final EXCEPT !.finished = FALSE, !.completed = FALSE]
  /\ Runs(EmitCall(plan))
  /\ Keeps /\ UNCHANGED reads

(* A cancel, the wall clock, a provider or a tool that fails.              *)
PlanFails ==
  /\ planning \in {"scout", "emit"} /\ planning' = "failed"
  /\ UNCHANGED <<disk, changes, asked, ctx, round, answer, answeredOn, execution, reads, ran>>

-----------------------------------------------------------------------------
(* run_planner_hybrid: the emit loop starts with the scout's log and files.*)
ScoutEnds ==
  /\ planning = "scout" /\ ~Loops(ctx) /\ planning' = "emit"
  /\ \E c \in Capped(ctx) : ctx' = Context(c, EmitTurns)
  /\ Runs(NoCall)
  /\ UNCHANGED <<disk, changes, asked, round, answer, answeredOn, execution, reads>>

\* Mutant: a plan that the emit tool accepted once is answered as it is.
GateOnJson(c) == c.json \in Plans

(* final_blueprint_or_report.                                              *)
GatePasses(c) ==
  /\ c.json \in Plans
  /\ ValidBlueprint(c.json, disk) /\ Fits(c.json, asked) /\ GroundedIn(c.json, c.touched)

EmitEnds ==
  /\ planning = "emit" /\ ~Loops(ctx)
  /\ \E c \in Capped(ctx) :
       IF c.completed \/ round = FixRounds
       THEN /\ planning' = "answered" /\ ctx' = c
            /\ answer' = IF GatePasses(c) THEN c.json ELSE NoPlan
            /\ answeredOn' = disk
            /\ UNCHANGED round
       ELSE /\ round' = round + 1 /\ ctx' = Resumed(c, FixTurns)
            /\ UNCHANGED <<planning, answer, answeredOn>>
  /\ UNCHANGED <<disk, changes, asked, execution, reads, ran>>

PlanTurns ==
  \/ TurnOfProse \/ TurnBlocked \/ TurnOfSearch
  \/ \E p \in Paths : TurnOfRead(p)
  \/ \E plan \in Plans : TurnOfEmit(plan)
PlanNext == PlanTurns \/ PlanFails \/ ScoutEnds \/ EmitEnds

-----------------------------------------------------------------------------
(* execute_blueprint: the file steps, a triage, a builder for each         *)
(* generate_tests step (module BuilderJob).  A failure undoes the job's    *)
(* writes (module MutationJournal).                                        *)
TestSteps(plan) == {step \in StepsOf(plan) : step.action = "generate_tests"}
SourcesFound(plan, d) ==
  \A step \in TestSteps(plan) :
    SourceUnderTest(step) # Absent /\ d[SourceUnderTest(step)] # Absent

ExecutionEnds(plan, d) ==
  IF ~ValidBlueprint(plan, disk) THEN {"invalid"}
  ELSE IF d = Failed THEN {"unapplied"}
  ELSE {"unverified"} \cup {IF SourcesFound(plan, d) THEN "done" ELSE "uncited"}

ExecuteBlueprint ==
  /\ planning = "answered" /\ answer # NoPlan /\ execution = "none"
  /\ LET d == ApplyFileSteps(disk, answer) IN
       /\ execution' \in ExecutionEnds(answer, d)
       /\ disk' = IF execution' = "done" THEN d ELSE disk
  /\ UNCHANGED <<planner, changes>>

-----------------------------------------------------------------------------
(* Type correctness of the job, its context and what came of it.           *)
PlannerTypeOK ==
  /\ disk \in [Paths -> Bodies \cup {Absent}] \/ execution = "done"
  /\ planning \in {"scout", "emit", "answered", "failed"}
  /\ asked \in Asked /\ round \in 0 .. FixRounds /\ changes \in 0 .. MaxChanges
  /\ ctx.turns \in 0 .. ctx.max /\ ctx.touched \subseteq Paths
  /\ ctx.json \in Plans \cup {NoJson, MixedJson}
  /\ ctx.finished \in BOOLEAN /\ ctx.completed \in BOOLEAN
  /\ answer \in Plans \cup {NoPlan} /\ reads \subseteq Paths
  /\ execution \in {"none", "invalid", "unapplied", "unverified", "uncited", "done"}

(* What the execution of a plan changes, the job that planned it has read, *)
(* or it was not there: however the plan got into the log (emitted, pasted *)
(* in prose, kept through compactions, turn limits and fix rounds), and    *)
(* whatever others wrote since (record_planner_touched_file,               *)
(* validate_blueprint_grounding, apply_blueprint_file_steps).              *)
ExecutionChangesWhatWasRead ==
  [][execution' # execution =>
       \A p \in Paths : disk'[p] # disk[p] => p \in reads \/ disk[p] = Absent]_<<disk, execution>>

(* A plan the emit agent completed with is the answer, unless the files    *)
(* changed: the gates behind the tool ask no more than those before it     *)
(* (EmitBlueprintTool, process_and_evaluate, final_blueprint_or_report).   *)
CompletedPlanIsAnswered ==
  planning = "answered" /\ ctx.completed /\ changes = 0 => answer = ctx.json /\ answer # NoPlan

(* No tool runs twice in a row with the same arguments, whatever prose,    *)
(* compactions, caps and fix rounds come between (run_single_tool_turn).   *)
NoCallRunsTwice == [][ran'.call = ran.call /\ ran.call # NoCall => ran' = ran]_ran

(* Plans whose steps are within the reach of apply_blueprint_file_steps.   *)
PlainSteps(plan, d) ==
  /\ ~Has(plan, "sync_types")
  /\ \A i, j \in DOMAIN plan.pipeline :
       i # j /\ IsCode(plan.pipeline[i]) /\ IsCode(plan.pipeline[j]) =>
         plan.pipeline[i].target # plan.pipeline[j].target
  /\ \A step \in StepsOf(plan) :
       /\ step.action = "create_file" => d[step.target] = Absent
       /\ step.action = "patch_file" =>
            /\ Len(step.patch.hunks) = 1
            /\ Cardinality(Occurrences(d[step.target], step.patch.hunks[1].search)) = 1

(* What planning accepts, execution accepts: on files that did not change  *)
(* an answered plan is valid again, and its steps apply if each file is    *)
(* changed at one place, with an anchor that is found once                 *)
(* (validate_blueprint, apply_blueprint_file_steps).                       *)
AnsweredPlanApplies ==
  disk = answeredOn =>
    /\ execution # "invalid"
    /\ execution = "unapplied" => ~PlainSteps(answer, disk)

(* Every gate passes what one before it passed, from the emit tool to the  *)
(* execution of the answered plan.                                         *)
GatesAgree == CompletedPlanIsAnswered /\ AnsweredPlanApplies

(* "goal must cite tests/foo.rs:1" (PLANNER_EMIT_SYSTEM_PROMPT): such a    *)
(* goal is all that a generate_tests step needs.                           *)
TestGoalSuffices == execution # "uncited"
===============================================================================

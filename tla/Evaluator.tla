------------------------------ MODULE Evaluator ------------------------------
(***************************************************************************)
(* The evaluations: a job's result is judged when it ends and may be       *)
(* judged again when the coordinator pastes it; what is stored feeds the   *)
(* exemplars of later jobs and the pages of the config UI                  *)
(* (agent/evaluator.rs, metrics/evaluations.rs, mcp/handlers/mod.rs).      *)
(* A text is a sequence of pieces: "text", what triage says ("pass",       *)
(* "evidence"), the host's "appendix", its "legacy" form, and "alike", a   *)
(* legacy form with a score outside 1..10.                                 *)
(***************************************************************************)
EXTENDS Integers, Sequences, FiniteSets, FiniteSetsExt, SequencesExt

CONSTANTS
  Outputs,   \* what an agent may answer
  Responses, \* of the judge: [content, score, desired]
  MaxJobs, MaxRows, PageSize, ExemplarWindow,
  MinScore   \* of an exemplar

ASSUME EvaluatorAssumption ==
  /\ \A output \in Outputs : output \in Seq({"text", "pass", "evidence", "appendix", "legacy", "alike"})
  /\ \A r \in Responses : r.score \in Int
  /\ MaxJobs \in Nat /\ MaxRows \in Nat /\ PageSize \in Nat \ {0}

(* Which agent a tool's result is judged as.                               *)
EvalTarget ==
  [verify_and_triage |-> "Phase_5_Triage", generate_tests_and_scaffolding |-> "Phase_4_Builder",
   evaluate_agent_performance |-> "none"]
(* The names a coordinator may use for them.                               *)
Aliases == [triage |-> "Phase_5_Triage", Builder |-> "Phase_4_Builder"]
NormalizeAgentName(name) == IF name \in DOMAIN Aliases THEN Aliases[name] ELSE name

Before(text, cuts) == SubSeq(text, 1, Min({i \in DOMAIN text : text[i] \in cuts} \cup {Len(text) + 1}) - 1)
(* The handlers' strip knows the appendix, the agent's own the legacy too. *)
WithoutAppendix(text) == Before(text, {"appendix"})
\* Mutant: the legacy form is no longer known.
StripMarkerOnly(text) == Before(text, {"appendix"})
StripAutoEvalAppendix(text) == Before(text, {"appendix", "legacy"})

(* A triage PASS without a command or an exit code is a paraphrase.        *)
ThinInput(target, text) ==
  /\ NormalizeAgentName(target) = "Phase_5_Triage"
  /\ Contains(text, "pass") /\ ~Contains(text, "evidence")

\* Mutant: the score is stored unchecked.
ValidJson(response) == response.content = "json"

(* What a judge's answer is worth: a score of ten needs no exemplar.       *)
Valid(response) == response.content = "json" /\ response.score \in 1..10
DesiredOutput(response) == IF response.score = 10 THEN "" ELSE response.desired

VARIABLES
  evaluations,  \* the rows, in the order they were stored
  results,      \* job -> [tool, wrote, result]; wrote is what its agent answered
  second        \* the time

evaluating == <<evaluations, results, second>>

EvaluatorInit == evaluations = <<>> /\ results = <<>> /\ second = 0

(* evaluate_once, of a text that came from the n-th job.                   *)
Evaluated(target, n, text, response) ==
  [agent |-> NormalizeAgentName(target), job |-> n, output |-> StripAutoEvalAppendix(text),
   score |-> response.score, desired |-> DesiredOutput(response), at |-> second]

(* finish_agent_job_with_eval: the appendix is added when the result could *)
(* be judged; whatever fails, the job keeps its result.                    *)
JobEnds(tool, wrote, response) ==
  LET n == Len(results) + 1
      target == EvalTarget[tool]
      judged == target # "none" /\ WithoutAppendix(wrote) # <<>> /\ Valid(response)
  IN /\ Len(evaluations) < MaxRows /\ Len(results) < MaxJobs
     /\ results' = Append(results, [tool |-> tool, wrote |-> wrote,
                                    result |-> IF judged THEN Append(wrote, "appendix") ELSE wrote])
     /\ evaluations' = IF judged
                         THEN Append(evaluations, Evaluated(target, n, WithoutAppendix(wrote), response))
                         ELSE evaluations
     /\ UNCHANGED second

(* evaluate_agent_performance, of a result pasted as it was received.      *)
HandleEvaluateAgentPerformance(target, n, response) ==
  LET text == WithoutAppendix(results[n].result)
  IN /\ Len(evaluations) < MaxRows
     /\ results[n].result # <<>> /\ ~ThinInput(target, text)
     /\ Valid(response)
     /\ evaluations' = Append(evaluations, Evaluated(target, n, text, response))
     /\ UNCHANGED <<results, second>>

SecondPasses ==
  /\ second < 1
  /\ second' = second + 1
  /\ UNCHANGED <<evaluations, results>>

EvaluatorNext ==
  \/ SecondPasses
  \/ \E r \in Responses :
       \/ \E tool \in DOMAIN EvalTarget, wrote \in Outputs : JobEnds(tool, wrote, r)
       \/ \E n \in DOMAIN results, target \in DOMAIN Aliases :
            /\ Aliases[target] = EvalTarget[results[n].tool]
            /\ HandleEvaluateAgentPerformance(target, n, r)
-----------------------------------------------------------------------------
Rows == DOMAIN evaluations

\* Mutant: the newest first, whatever its score.
Later(i, j) ==
  evaluations[i].at > evaluations[j].at \/ (evaluations[i].at = evaluations[j].at /\ i > j)

(* ORDER BY score DESC, created_at DESC; rows that tie stay as stored.     *)
Better(i, j) ==
  LET a == evaluations[i]  b == evaluations[j]
  IN \/ a.score > b.score
     \/ a.score = b.score /\ a.at > b.at
     \/ a.score = b.score /\ a.at = b.at /\ i < j
Exemplars(agent) ==
  {i \in Rows : /\ evaluations[i].agent = agent /\ evaluations[i].desired # ""
                /\ evaluations[i].score >= MinScore}
First(rows) == IF rows = {} THEN 0 ELSE CHOOSE i \in rows : \A j \in rows \ {i} : Better(i, j)
BestDesiredOutput(agent) == First(Exemplars(agent))
(* The builder's must be dense, among the first few.                       *)
BestBuilderDense ==
  LET all == Exemplars("Phase_4_Builder")
      window == {i \in all : Cardinality({j \in all \ {i} : Better(j, i)}) < ExemplarWindow}
  IN First({i \in window : evaluations[i].desired = "dense"})

(* ORDER BY created_at DESC: the n-th row has n - 1 before it.             *)
Newer(i, j) ==
  evaluations[i].at > evaluations[j].at \/ (evaluations[i].at = evaluations[j].at /\ i < j)
Newest == [n \in Rows |-> CHOOSE i \in Rows : Cardinality({j \in Rows : Newer(j, i)}) = n - 1]
TotalPages == (Len(evaluations) + PageSize - 1) \div PageSize
ListPage(page) ==
  LET offset == (Max({page, 1}) - 1) * PageSize
  IN SubSeq(Newest, offset + 1, Min({offset + PageSize, Len(evaluations)}))

EvaluatorTypeOK ==
  /\ Len(evaluations) <= MaxRows /\ Len(results) <= MaxJobs
  /\ \A i \in Rows : evaluations[i].score \in 1..10

(* However often a job's result is judged, and whether by the host or from *)
(* the coordinator's paste, it is the same text that is judged: no verdict *)
(* of an earlier judge is in it (strip_auto_eval_appendix, evaluate_once). *)
JudgedAlike ==
  \A i, j \in Rows :
    /\ ToSet(evaluations[i].output) \cap {"appendix", "legacy"} = {}
    /\ evaluations[i].job = evaluations[j].job => evaluations[i].output = evaluations[j].output

(* An agent's exemplar never gets worse: a later evaluation takes its      *)
(* place only with at least its score (load_best_desired_output_exemplar). *)
ExemplarNeverWorse ==
  [][\A agent \in {EvalTarget[t] : t \in DOMAIN EvalTarget} :
       BestDesiredOutput(agent) # 0 =>
         evaluations'[BestDesiredOutput(agent)'].score >= evaluations[BestDesiredOutput(agent)].score]_evaluating

(* The pages show every evaluation once, at one place of one of them, and  *)
(* nothing else; page 0 is the first (list_evaluations_page).              *)
PagesShowEachOnce ==
  LET shown == [page \in 1..TotalPages |-> ListPage(page)]
  IN /\ \A page \in DOMAIN shown : ToSet(shown[page]) \subseteq Rows
     /\ \A i \in Rows : \E page \in DOMAIN shown : \E n \in DOMAIN shown[page] :
          \A q \in DOMAIN shown : \A k \in DOMAIN shown[q] :
            shown[q][k] = i <=> q = page /\ k = n
     /\ ListPage(0) = ListPage(1)
===============================================================================

------------------------------- MODULE AgentJobs -------------------------------
(***************************************************************************)
(* What an agent's job stands on, the client of its model, and three jobs: *)
(* a planner in the agent loop with the execution of its plan, a global    *)
(* refactoring and a sync of types.  They share no state: a turn sees of   *)
(* the client whether it answered.                                         *)
(***************************************************************************)
EXTENDS Planner, LlmClient, Transformer, Transpiler

VARIABLE part  \* the one that moves
vars == <<disk, changes, planner, execution, llm, transformer, transpiler, part>>

Init ==
  /\ part \in {"client", "planner", "refactor", "sync"}
  /\ part # "planner" => asked = CHOOSE a \in Asked : TRUE
  /\ part # "client" => server = CHOOSE s \in Servers : TRUE
  /\ part # "refactor" => (repo = CHOOSE r \in Repos : TRUE) /\ (instruction = CHOOSE i \in Rules : TRUE)
  /\ part # "sync" =>
       /\ preserved = CHOOSE l \in PreserveLists : TRUE
       /\ workspace = CHOOSE w \in Workspaces : TRUE
       /\ verifies = TRUE
  /\ PlannerInit /\ LlmInit /\ TransformerInit /\ TranspilerInit

ClientMoves ==
  /\ part = "client" /\ LlmNext
  /\ UNCHANGED <<disk, changes, planner, execution, transformer, transpiler, part>>
PlannerMoves ==
  /\ part = "planner"
  /\ PlanNext \/ ExecuteBlueprint \/ DiskChanges
  /\ UNCHANGED <<llm, transformer, transpiler, part>>
RefactorMoves ==
  /\ part = "refactor" /\ TransformerNext
  /\ UNCHANGED <<disk, changes, planner, execution, llm, transpiler, part>>
SyncMoves ==
  /\ part = "sync" /\ TranspilerNext
  /\ UNCHANGED <<disk, changes, planner, execution, llm, transformer, part>>
Next == ClientMoves \/ PlannerMoves \/ RefactorMoves \/ SyncMoves

Spec == Init /\ [][Next]_vars
(* Every call of a loop returns, and so does every request.                *)
FairSpec ==
  /\ Spec
  /\ WF_vars(part = "planner" /\ PlanNext /\ UNCHANGED <<llm, transformer, transpiler, part>>)
  /\ WF_vars(/\ part = "client" /\ Sends
             /\ UNCHANGED <<disk, changes, planner, execution, transformer, transpiler, part>>)
  /\ WF_vars(SyncMoves)

TypeOK == PlannerTypeOK /\ LlmTypeOK /\ TransformerTypeOK /\ TranspilerTypeOK

(* Whatever two jobs wrote before they answered, a triage has passed since *)
(* (NothingUntriaged of Transformer, SyncIsTriaged of Transpiler).         *)
AnswersAreTriaged == NothingUntriaged /\ SyncIsTriaged

(* A complete() returns, a plan is made or given up and a sync ends:       *)
(* relaxing a request is done once each way, every fix round has its turns *)
(* and so has a sync, whatever triage it asks for                          *)
(* (OpenAiCompatibleClient::complete, run_planner_hybrid,                  *)
(* handle_transpile_types).                                                *)
JobsReturn ==
  /\ sending # "idle" ~> sending = "idle"
  /\ part = "planner" ~> planning \in {"answered", "failed"}
  /\ part = "sync" ~> sync.at # "turn"
===============================================================================

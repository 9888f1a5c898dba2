------------------------------- MODULE LlmClient -------------------------------
(***************************************************************************)
(* The client of one phase's model (src/src/llm/openai_compatible.rs,      *)
(* factory.rs) and its preflight (preflight.rs).  A provider may take no   *)
(* tool_choice "required", or no temperature, and complain of either first *)
(* or of both; the client relaxes the request and sends it again.          *)
(***************************************************************************)
EXTENDS Naturals

CONSTANTS Servers, MaxCompletes  \* bound: complete() calls of the jobs' client

(* What a provider takes; a fickle one routes each request to a backend    *)
(* that may take it all, and may fail for another reason.                  *)
ServerKinds ==
  [required : BOOLEAN, temperature : {"takes", "rejects", "dislikes"},
   complains : {"tool_choice", "temperature", "both"},
   tools : {"calls", "talks", "garbles"}, listed : BOOLEAN, fickle : BOOLEAN]

ASSUME LlmAssumption == Servers \subseteq ServerKinds /\ MaxCompletes \in Nat

VARIABLES
  server,
  stageOf,   \* of the set-up: preflight's probes, then the jobs
  sending,   \* which attempt of a complete() is under way, or "idle"
  request,   \* what it sends
  omit,      \* omit_temperature of the client
  completes, \* complete() calls of this client
  outcome,   \* of the last one
  refused    \* this client was told that its temperature is rejected (bookkeeping)

llm == <<server, stageOf, sending, request, omit, completes, outcome, refused>>

Requests == [tools : BOOLEAN, choice : {"none", "required", "auto"}, temperature : BOOLEAN]
Outcomes == {"none", "calls", "talks", "failed", "mentions temperature"}
Stages == {"models", "probe", "plain", "omitting", "jobs", "refused"}

LlmInit ==
  /\ server \in Servers
  /\ stageOf = "models" /\ sending = "idle"
  /\ request = [tools |-> FALSE, choice |-> "none", temperature |-> FALSE]
  /\ omit = FALSE /\ completes = 0 /\ outcome = "none" /\ refused = FALSE

-----------------------------------------------------------------------------
(* The provider: what the error of a refused request speaks of; {} is an   *)
(* error of another kind.  An answer calls a tool, talks, or has arguments *)
(* that do not parse.                                                      *)
Objections(r) ==
  {"tool_choice" : x \in {y \in {1} : r.choice = "required" /\ ~server.required}}
  \cup {server.temperature : x \in {y \in {1} : r.temperature /\ server.temperature # "takes"}}
Complaints(r) ==
  LET first == IF server.complains = "temperature" THEN Objections(r) \ {"tool_choice"}
               ELSE IF server.complains = "tool_choice" THEN Objections(r) \cap {"tool_choice"}
               ELSE Objections(r)
  IN IF Objections(r) = {} THEN {}
     ELSE IF first = {} THEN {Objections(r)} ELSE {first}
Answers(r) == IF r.tools THEN server.tools ELSE "talks"
Refuses(r) == Complaints(r) \cup IF server.fickle THEN {{}} ELSE {}
Accepts(r) == Complaints(r) = {} \/ server.fickle

-----------------------------------------------------------------------------
(* complete().                                                             *)
Starts(tools) ==
  /\ sending = "idle" /\ sending' = "first"
  /\ request' = [tools |-> tools, choice |-> IF tools THEN "required" ELSE "none",
                 temperature |-> ~omit]
  /\ UNCHANGED <<server, omit, refused>>

Ends(result) ==
  /\ sending' = "idle" /\ outcome' = result
  /\ UNCHANGED <<server, stageOf, request, omit, completes>>

(* A provider that answers with no choice, or with arguments that are no   *)
(* JSON, fails the call; it is not sent again.                             *)
Answered ==
  /\ sending # "idle" /\ Accepts(request)
  /\ Ends(IF Answers(request) = "garbles" THEN "failed" ELSE Answers(request))
  /\ UNCHANGED refused

Relaxable(e) == request.tools /\ request.choice # "auto" /\ "tool_choice" \in e
Coolable(e) == request.temperature /\ "rejects" \in e

\* Mutant: tool_choice is relaxed at the first attempt only.
NoLateAttempt(e) ==
  IF sending = "first" /\ Relaxable(e) THEN "relaxed"
  ELSE IF sending \in {"first", "relaxed"} /\ Coolable(e) THEN "cooled" ELSE "idle"

(* tool_choice first, then the temperature, then tool_choice once more.    *)
NextAttempt(e) ==
  IF sending = "first" /\ Relaxable(e) THEN "relaxed"
  ELSE IF sending \in {"first", "relaxed"} /\ Coolable(e) THEN "cooled"
  ELSE IF sending = "cooled" /\ Relaxable(e) THEN "last" ELSE "idle"

KeepsOmission(attempt) == omit' = (omit \/ attempt = "cooled")

SendsAgain(attempt) ==
  /\ sending' = attempt
  /\ request' = IF attempt = "cooled" THEN [request EXCEPT !.temperature = FALSE]
                ELSE [request EXCEPT !.choice = "auto"]
  /\ KeepsOmission(attempt)
  /\ UNCHANGED <<server, stageOf, completes, outcome>>

Refused ==
  /\ sending # "idle"
  /\ \E e \in Refuses(request) :
       /\ IF NextAttempt(e) # "idle" THEN SendsAgain(NextAttempt(e))
          ELSE Ends(IF e \cap {"rejects", "dislikes"} # {} THEN "mentions temperature"
                    ELSE "failed")
       /\ refused' = (refused \/ e = {"rejects"})

-----------------------------------------------------------------------------
(* preflight_phase: the models list, a tool call, a plain question; a      *)
(* second client without temperature if the plain question complains of it.*)
Moves(to) ==
  /\ stageOf' = to /\ outcome' = "none"
  /\ UNCHANGED <<server, sending, request, completes>>

ListModels ==
  /\ stageOf = "models" /\ sending = "idle"
  /\ \/ server.listed /\ Moves("probe")
     \/ (~server.listed \/ server.fickle) /\ Moves("refused")
  /\ UNCHANGED <<omit, refused>>

Probes ==
  /\ stageOf = "probe" /\ outcome = "none" /\ Starts(TRUE)
  /\ UNCHANGED <<stageOf, completes, outcome>>
AsksPlainly ==
  /\ stageOf \in {"plain", "omitting"} /\ outcome = "none" /\ Starts(FALSE)
  /\ UNCHANGED <<stageOf, completes, outcome>>

ProbeAnswered ==
  /\ stageOf = "probe" /\ sending = "idle" /\ outcome # "none"
  \* An answer without a tool call is found out after the plain question.
  /\ Moves(IF outcome \in {"calls", "talks"} THEN "plain" ELSE "refused")
  /\ UNCHANGED <<omit, refused>>

(* The client of a job is a new one, which omits nothing.                  *)
PlainAnswered ==
  /\ stageOf \in {"plain", "omitting"} /\ sending = "idle" /\ outcome # "none"
  /\ IF outcome = "mentions temperature" /\ stageOf = "plain"
     THEN Moves("omitting") /\ omit' = TRUE /\ refused' = FALSE
     ELSE /\ Moves(IF outcome = "talks" /\ server.tools = "calls" THEN "jobs" ELSE "refused")
          /\ omit' = FALSE /\ refused' = FALSE

(* A job's turn asks with tools, the pruner and the evaluator without.     *)
JobCompletes ==
  /\ stageOf = "jobs" /\ completes < MaxCompletes
  /\ \E tools \in BOOLEAN : Starts(tools)
  /\ completes' = completes + 1
  /\ UNCHANGED <<stageOf, outcome>>

Sends == Answered \/ Refused
LlmNext == ListModels \/ Probes \/ AsksPlainly \/ ProbeAnswered \/ PlainAnswered \/ JobCompletes \/ Sends

-----------------------------------------------------------------------------
(* Type correctness of the client, its request and the set-up.             *)
LlmTypeOK ==
  /\ server \in Servers /\ stageOf \in Stages
  /\ sending \in {"idle", "first", "relaxed", "cooled", "last"}
  /\ request \in Requests /\ omit \in BOOLEAN /\ refused \in BOOLEAN
  /\ completes \in 0 .. MaxCompletes /\ outcome \in Outcomes

(* A client whose temperature was rejected once does not send it in a      *)
(* later call, whatever was relaxed in between (complete).                 *)
RejectedTemperatureStaysOff == sending = "first" /\ refused => ~request.temperature

(* A provider that takes tools with "auto" and no temperature, and says so *)
(* in words the client knows, is never given up: neither by the preflight  *)
(* nor by a job, in whatever order it complains (complete).                *)
WillingServerIsServed ==
  ~server.fickle /\ server.listed /\ server.tools = "calls" /\ server.temperature # "dislikes" =>
    stageOf # "refused" /\ outcome \notin {"failed", "mentions temperature"}

(* What the preflight let pass serves the jobs: a provider that does not   *)
(* change answers every call of the jobs' client, which starts anew        *)
(* (preflight_phase, create_llm_client).                                   *)
PreflightPredicts ==
  ~server.fickle /\ stageOf = "jobs" => outcome \notin {"failed", "mentions temperature"}

(* The three together: what the client learns of a provider it keeps, it   *)
(* gives up no provider that would answer, and the preflight says which    *)
(* those are (complete, preflight_phase).                                  *)
ClientServes == RejectedTemperatureStaysOff /\ WillingServerIsServed /\ PreflightPredicts
===============================================================================

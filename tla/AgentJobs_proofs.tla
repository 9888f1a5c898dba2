---------------------------- MODULE AgentJobs_proofs ----------------------------
(***************************************************************************)
(* What every agent's turn rests on, for every value of the constants: the *)
(* client of a model serves every provider that could be served            *)
(* (LlmClient), a compaction makes room (AgentLoop); and the planner's     *)
(* answers hold and apply, whatever its model writes (Planner), and a      *)
(* refactoring is triaged as a whole, loses no field and leaves no legacy  *)
(* one in what a scan finds (Transformer).                                 *)
(***************************************************************************)
EXTENDS AgentJobs, FiniteSetTheorems, WellFoundedInduction, SequenceTheorems, TLAPS

\* What each attempt sends: it follows from the ones before it.
RequestInv ==
  /\ request.choice = "required" => request.tools
  /\ sending = "first" => request.temperature = ~omit /\ request.choice # "auto"
  /\ sending = "relaxed" => request.choice = "auto" /\ request.temperature = ~omit
  /\ sending = "cooled" => ~request.temperature
  /\ sending = "last" => ~request.temperature /\ request.choice = "auto"

\* What the client was told it keeps.
OmitInv == refused => omit

\* The plain question has no tools, and only a listed model is asked.
StageInv ==
  /\ stageOf \in {"plain", "omitting"} /\ sending # "idle" => ~request.tools
  /\ stageOf \notin {"models", "refused"} => server.listed

Willing ==
  ~server.fickle /\ server.listed /\ server.tools = "calls" /\ server.temperature # "dislikes"

\* No attempt at a willing provider is the last one that fails.
ServedInv ==
  Willing =>
    /\ stageOf # "refused" /\ outcome \in {"none", "calls", "talks"}
    /\ stageOf \in {"plain", "omitting"} => outcome \in {"none", "talks"}

\* A provider that objects in unknown words is found out by the tool call.
DislikedInv ==
  ~server.fickle /\ server.temperature = "dislikes" =>
    /\ stageOf \in {"models", "probe", "refused"} /\ ~omit
    /\ sending # "idle" => request.temperature
    /\ outcome \in {"none", "failed", "mentions temperature"}

JobsInv == ~server.fickle /\ stageOf = "jobs" => Willing

ClientInv ==
  LlmTypeOK /\ RequestInv /\ OmitInv /\ StageInv /\ ServedInv /\ DislikedInv /\ JobsInv

-----------------------------------------------------------------------------
\* A complaint names an objection, and nothing else.
LEMMA ComplaintsNameObjections ==
  ASSUME NEW r, NEW e \in Complaints(r)
  PROVE  /\ e # {} /\ e \subseteq {"tool_choice", server.temperature}
         /\ "tool_choice" \in e => r.choice = "required" \/ server.temperature = "tool_choice"
         /\ e # {"tool_choice"} => r.temperature /\ server.temperature # "takes"
<1>1. e # {} /\ e \subseteq Objections(r)
  BY DEF Complaints
<1>2. \A x \in Objections(r) :
        \/ x = "tool_choice" /\ r.choice = "required"
        \/ x = server.temperature /\ r.temperature /\ server.temperature # "takes"
  BY DEF Objections
<1> QED
  BY <1>1, <1>2

LEMMA ClientInit == LlmInit => ClientInv
<1> SUFFICES ASSUME LlmInit PROVE ClientInv
  OBVIOUS
<1>1. request \in Requests
  BY DEF LlmInit, Requests
<1>2. completes \in 0 .. MaxCompletes
  BY LlmAssumption DEF LlmInit
<1>3. LlmTypeOK
  BY <1>1, <1>2 DEF LlmInit, LlmTypeOK, Stages, Outcomes
<1> QED
  BY <1>3 DEF LlmInit, ClientInv, RequestInv, OmitInv, StageInv, ServedInv, DislikedInv, JobsInv

\* What a call sends first.
LEMMA StartKeeps ==
  ASSUME ClientInv, NEW tools \in BOOLEAN, Starts(tools), UNCHANGED <<stageOf, outcome>>,
         completes' \in 0 .. MaxCompletes,
         stageOf \in {"plain", "omitting"} => ~tools,
         ~server.fickle /\ server.temperature = "dislikes" => stageOf = "probe"
  PROVE  ClientInv'
<1>1. request' \in Requests /\ sending' = "first" /\ request'.temperature = ~omit
      /\ request'.tools = tools /\ request'.choice = IF tools THEN "required" ELSE "none"
  BY DEF Starts, Requests, ClientInv, LlmTypeOK
<1>2. LlmTypeOK'
  BY <1>1 DEF Starts, ClientInv, LlmTypeOK
<1> QED
  BY <1>1, <1>2 DEF Starts, ClientInv, LlmTypeOK, RequestInv, OmitInv, StageInv, ServedInv,
     DislikedInv, JobsInv, Willing

LEMMA AnsweredKeeps == ClientInv /\ Answered => ClientInv'
<1> SUFFICES ASSUME ClientInv, Answered PROVE ClientInv'
  OBVIOUS
<1>1. server \in ServerKinds
  BY LlmAssumption DEF ClientInv, LlmTypeOK
<1>2. outcome' \in {"failed", "calls", "talks"}
  BY <1>1 DEF Answered, Ends, Answers, ServerKinds
<1>3. ~request.tools => outcome' = "talks"
  BY DEF Answered, Ends, Answers
<1>4. Willing => outcome' \in {"calls", "talks"}
  BY DEF Answered, Ends, Answers, Willing
<1>5. ~(~server.fickle /\ server.temperature = "dislikes")
  <2> SUFFICES ASSUME ~server.fickle, server.temperature = "dislikes" PROVE FALSE
    OBVIOUS
  <2>1. request.temperature /\ Complaints(request) = {}
    BY DEF Answered, Accepts, ClientInv, DislikedInv
  <2>2. "dislikes" \in Objections(request)
    BY <2>1 DEF Objections
  <2> QED
    BY <2>1, <2>2 DEF Complaints
<1>6. LlmTypeOK'
  BY <1>2 DEF Answered, Ends, ClientInv, LlmTypeOK, Outcomes
<1> QED
  BY <1>2, <1>3, <1>4, <1>5, <1>6 DEF Answered, Ends, ClientInv, LlmTypeOK, RequestInv, OmitInv,
     StageInv, ServedInv, DislikedInv, JobsInv, Willing

\* A refusal that is not the end of the call leads to one more attempt.
LEMMA SentAgainKeeps ==
  ASSUME ClientInv, NEW e \in Complaints(request), NextAttempt(e) # "idle",
         SendsAgain(NextAttempt(e)), refused' = (refused \/ e = {"rejects"})
  PROVE  ClientInv'
<1>1. /\ e # {} /\ e \subseteq {"tool_choice", server.temperature}
      /\ e # {"tool_choice"} => request.temperature /\ server.temperature # "takes"
  BY ComplaintsNameObjections
<1>2. server \in ServerKinds
  BY LlmAssumption DEF ClientInv, LlmTypeOK
<1>3. CASE NextAttempt(e) = "cooled"
  <2>1. request' = [request EXCEPT !.temperature = FALSE] /\ request' \in Requests
        /\ ~request'.temperature /\ request'.choice = request.choice
        /\ request'.tools = request.tools
    BY <1>3 DEF SendsAgain, Requests, ClientInv, LlmTypeOK
  <2>2. "rejects" \in e /\ server.temperature = "rejects" /\ sending # "idle"
    BY <1>1, <1>3 DEF NextAttempt, Coolable
  <2>3. omit' = TRUE /\ refused' \in BOOLEAN /\ sending' = "cooled"
        /\ UNCHANGED <<server, stageOf, completes, outcome>>
    BY <1>3 DEF SendsAgain, KeepsOmission, ClientInv, LlmTypeOK
  <2>4. LlmTypeOK'
    BY <2>1, <2>3 DEF ClientInv, LlmTypeOK
  <2>5. RequestInv' /\ OmitInv' /\ StageInv'
    BY <2>1, <2>2, <2>3 DEF ClientInv, RequestInv, OmitInv, StageInv
  <2>6. ServedInv' /\ DislikedInv' /\ JobsInv'
    BY <2>2, <2>3 DEF ClientInv, ServedInv, DislikedInv, JobsInv, Willing
  <2> QED
    BY <2>4, <2>5, <2>6 DEF ClientInv
<1>4. CASE NextAttempt(e) \in {"relaxed", "last"}
  <2>1. request' = [request EXCEPT !.choice = "auto"] /\ request' \in Requests
        /\ request'.choice = "auto" /\ request'.temperature = request.temperature
        /\ request'.tools = request.tools
    BY <1>4 DEF SendsAgain, Requests, ClientInv, LlmTypeOK
  <2>2. "tool_choice" \in e
    BY <1>4 DEF NextAttempt, Relaxable
  <2>3. omit' = omit /\ refused' = refused /\ sending' = NextAttempt(e)
        /\ UNCHANGED <<server, stageOf, completes, outcome>>
    BY <1>4, <2>2 DEF SendsAgain, KeepsOmission, ClientInv, LlmTypeOK
  <2>4. /\ NextAttempt(e) = "relaxed" => sending = "first"
        /\ NextAttempt(e) = "last" => sending = "cooled"
    BY DEF NextAttempt
  <2>5. LlmTypeOK'
    BY <1>4, <2>1, <2>3 DEF ClientInv, LlmTypeOK
  <2>6. RequestInv' /\ OmitInv' /\ StageInv'
    BY <1>4, <2>1, <2>3, <2>4 DEF ClientInv, RequestInv, OmitInv, StageInv
  <2>7. ServedInv' /\ DislikedInv' /\ JobsInv'
    BY <1>4, <2>1, <2>3, <2>4 DEF ClientInv, ServedInv, DislikedInv, JobsInv, Willing
  <2> QED
    BY <2>5, <2>6, <2>7 DEF ClientInv
<1> QED
  BY <1>3, <1>4 DEF NextAttempt

\* A willing provider's complaint is always one that the client can meet.
LEMMA WillingIsSentAgain ==
  ASSUME ClientInv, Willing, sending # "idle", NEW e \in Complaints(request)
  PROVE  NextAttempt(e) # "idle"
<1>1. /\ e # {} /\ e \subseteq {"tool_choice", server.temperature}
      /\ "tool_choice" \in e => request.choice = "required" \/ server.temperature = "tool_choice"
      /\ e # {"tool_choice"} => request.temperature /\ server.temperature # "takes"
  BY ComplaintsNameObjections
<1>2. server.temperature \in {"takes", "rejects"}
  BY LlmAssumption DEF ClientInv, LlmTypeOK, ServerKinds, Willing
<1>3. "tool_choice" \in e => Relaxable(e)
  BY <1>1, <1>2 DEF Relaxable, ClientInv, RequestInv
<1>4. "tool_choice" \notin e => Coolable(e)
  BY <1>1, <1>2 DEF Coolable
<1>5. sending \in {"first", "relaxed", "cooled", "last"}
  BY DEF ClientInv, LlmTypeOK
<1> QED
  BY <1>1, <1>2, <1>3, <1>4, <1>5 DEF NextAttempt, ClientInv, RequestInv, Relaxable

LEMMA RefusedKeeps == ClientInv /\ Refused => ClientInv'
<1> SUFFICES ASSUME ClientInv, Refused PROVE ClientInv'
  OBVIOUS
<1>1. PICK e \in Refuses(request) :
        /\ IF NextAttempt(e) # "idle" THEN SendsAgain(NextAttempt(e))
           ELSE Ends(IF e \cap {"rejects", "dislikes"} # {} THEN "mentions temperature"
                     ELSE "failed")
        /\ refused' = (refused \/ e = {"rejects"})
  BY DEF Refused
<1>2. e \in Complaints(request) \/ (e = {} /\ server.fickle)
  BY DEF Refuses
<1>3. CASE NextAttempt(e) # "idle"
  <2>1. e \in Complaints(request)
    BY <1>2, <1>3 DEF NextAttempt, Relaxable, Coolable
  <2> QED
    BY <1>1, <1>3, <2>1, SentAgainKeeps
<1>4. CASE NextAttempt(e) = "idle"
  <2>1. outcome' \in {"failed", "mentions temperature"}
    BY <1>1, <1>4 DEF Ends
  <2>2. ~Willing
    BY <1>2, <1>4, WillingIsSentAgain DEF Refused, Willing
  <2>3. e # {"rejects"}
    <3> SUFFICES ASSUME e = {"rejects"} PROVE FALSE
      OBVIOUS
    <3>1. request.temperature
      BY <1>2, ComplaintsNameObjections
    <3> QED
      BY <1>4, <3>1 DEF NextAttempt, Coolable, Refused, ClientInv, LlmTypeOK, RequestInv
  <2>4. refused' = refused
    BY <1>1, <2>3 DEF ClientInv, LlmTypeOK
  <2>5. sending' = "idle" /\ UNCHANGED <<server, stageOf, request, omit, completes>>
    BY <1>1, <1>4 DEF Ends
  <2> QED
    BY <2>1, <2>2, <2>4, <2>5 DEF ClientInv, LlmTypeOK, RequestInv, OmitInv, StageInv,
       ServedInv, DislikedInv, JobsInv, Willing, Outcomes
<1> QED
  BY <1>3, <1>4

-----------------------------------------------------------------------------
LEMMA ClientStep == ClientInv /\ [LlmNext]_llm => ClientInv'
<1> SUFFICES ASSUME ClientInv, [LlmNext]_llm PROVE ClientInv'
  OBVIOUS
<1> USE DEF ClientInv
<1>1. CASE ListModels
  BY <1>1 DEF ListModels, Moves, LlmTypeOK, Stages, Outcomes, RequestInv, OmitInv, StageInv,
     ServedInv, DislikedInv, JobsInv, Willing
<1>2. CASE Probes
  BY <1>2, StartKeeps DEF Probes, LlmTypeOK
<1>3. CASE AsksPlainly
  BY <1>3, StartKeeps DEF AsksPlainly, LlmTypeOK, DislikedInv
<1>4. CASE ProbeAnswered
  BY <1>4 DEF ProbeAnswered, Moves, LlmTypeOK, Stages, Outcomes, RequestInv, OmitInv, StageInv,
     ServedInv, DislikedInv, JobsInv, Willing
<1>5. CASE PlainAnswered
  <2>1. DislikedInv' /\ JobsInv'
    BY <1>5, LlmAssumption DEF PlainAnswered, Moves, LlmTypeOK, ServerKinds, StageInv,
       DislikedInv, JobsInv, Willing
  <2>2. LlmTypeOK'
    BY <1>5 DEF PlainAnswered, Moves, LlmTypeOK, Stages, Outcomes
  <2> QED
    BY <1>5, <2>1, <2>2 DEF PlainAnswered, Moves, LlmTypeOK, RequestInv, OmitInv, StageInv,
       ServedInv, Willing
<1>6. CASE JobCompletes
  <2>1. completes' \in 0 .. MaxCompletes
    BY <1>6, LlmAssumption DEF JobCompletes, LlmTypeOK
  <2> QED
    BY <1>6, <2>1, StartKeeps DEF JobCompletes, DislikedInv
<1>7. CASE Sends
  BY <1>7, AnsweredKeeps, RefusedKeeps DEF Sends
<1>8. CASE UNCHANGED llm
  <2>1. UNCHANGED <<server, stageOf, sending, request, omit, completes, outcome, refused>>
    BY <1>8 DEF llm
  <2>2. LlmTypeOK' /\ RequestInv' /\ OmitInv' /\ StageInv'
    BY <2>1 DEF LlmTypeOK, RequestInv, OmitInv, StageInv
  <2>3. ServedInv' /\ DislikedInv' /\ JobsInv'
    BY <2>1 DEF ServedInv, DislikedInv, JobsInv, Willing
  <2> QED
    BY <2>2, <2>3
<1> QED
  BY <1>1, <1>2, <1>3, <1>4, <1>5, <1>6, <1>7, <1>8 DEF LlmNext

(* The client learns what a provider rejects and keeps it, never gives up  *)
(* a provider that would answer, and the preflight says which those are    *)
(* (complete, preflight_phase).                                            *)
THEOREM TheClientServes == Spec => []ClientServes
<1>1. ClientInv => ClientServes
  BY DEF ClientInv, LlmTypeOK, RequestInv, OmitInv, ServedInv, JobsInv, Willing, ClientServes,
     RejectedTemperatureStaysOff, WillingServerIsServed, PreflightPredicts
<1>2. Init => LlmInit
  BY DEF Init
<1>3. [Next]_vars => [LlmNext]_llm
  BY DEF Next, ClientMoves, PlannerMoves, RefactorMoves, SyncMoves, vars
<1> QED
  BY ClientInit, ClientStep, <1>1, <1>2, <1>3, PTL DEF Spec

-----------------------------------------------------------------------------
(* A compaction leaves room, whatever the two windows and however long the *)
(* pruner's answer: it does not trigger the next one (AutoCompactGuard).   *)
THEOREM CompactionMakesRoom ==
  \A window, pruner, chars \in Nat : MakesRoom(window, pruner, chars)
<1> SUFFICES ASSUME NEW window \in Nat, NEW pruner \in Nat, NEW chars \in Nat, window >= 1280
             PROVE  MakesRoom(window, pruner, chars)
  BY DEF MakesRoom
<1> DEFINE target == DensifyTarget(window, pruner)
           left == EstimateTokens(Reduced(chars, target))
<1>1. target \in Nat /\ target >= 512 /\ (target <= (window * 50) \div 100 \/ target = 512)
  BY DEF DensifyTarget, LargerOf, SmallerOf, MinTarget
<1>2. left \in Nat /\ left <= target
  BY <1>1 DEF EstimateTokens, Reduced, SmallerOf
<1>3. left + window \div 4 < (window * 80) \div 100
  BY <1>1, <1>2
<1>4. EstimateTokens(PrunerInput(pruner)) <= LargerOf(pruner, MinTarget)
  BY DEF EstimateTokens, PrunerInput, LargerOf, MinTarget
<1>5. ~OverProactiveThreshold(window, left + window \div 4)
  BY <1>2, <1>3 DEF OverProactiveThreshold
<1> QED
  BY <1>4, <1>5 DEF MakesRoom

-----------------------------------------------------------------------------
\* The planner: the values its context takes.
Calls == {NoCall, SearchCall} \cup {ReadCall(p) : p \in Paths} \cup {EmitCall(q) : q \in Plans}
Logs == Plans \cup {NoJson, MixedJson}
Contexts ==
  [turns : Nat, max : Nat, finished : BOOLEAN, completed : BOOLEAN,
   touched : SUBSET Paths, last : Calls, json : Logs, tail : Logs]

\* The context has its types, and notes only files that this job has read.
CtxInv == ctx \in Contexts /\ ctx.turns <= ctx.max /\ ctx.touched \subseteq reads

\* The call of the last turn that made one is the last that ran, the start of
\* a loop apart.
CallInv == planning \in {"scout", "emit"} => ran.call = ctx.last

\* A loop is completed by a plan that the gate behind it lets pass too.
CompletedInv ==
  planning \in {"scout", "emit"} /\ ctx.completed =>
    planning = "emit" /\ ctx.finished /\ (changes = 0 => GatePasses(ctx))

\* A plan that is answered holds on the disk of that moment, fits the request
\* and changes only files this job has read.
AnsweredPlanHolds ==
  answer # NoPlan =>
    /\ ValidBlueprint(answer, answeredOn)
    /\ Fits(answer, asked)
    /\ \A step \in StepsOf(answer) : NeedsTarget(step) => step.target \in reads

AnswerInv ==
  /\ planning # "answered" => answer = NoPlan
  /\ AnsweredPlanHolds /\ CompletedPlanIsAnswered

PlanInv ==
  asked \in Asked /\ changes \in Nat /\ CtxInv /\ CallInv /\ CompletedInv /\ AnswerInv

LEMMA FreshContext ==
  ASSUME NEW log \in [touched : SUBSET Paths, json : Logs, tail : Logs], NEW max \in Nat
  PROVE  /\ Context(log, max) \in Contexts
         /\ Context(log, max).turns = 0 /\ Context(log, max).max = max
         /\ Context(log, max).touched = log.touched /\ Context(log, max).last = NoCall
         /\ ~Context(log, max).completed
  BY DEF Context, Contexts, Calls

\* A compaction changes the log only.
LEMMA SentContext ==
  ASSUME ctx \in Contexts, NEW c \in AsSent(ctx)
  PROVE  /\ c \in Contexts /\ c.touched = ctx.touched /\ c.last = ctx.last
         /\ c.turns = ctx.turns /\ c.max = ctx.max
         /\ c.finished = ctx.finished /\ c.completed = ctx.completed
  BY DEF AsSent, Compacted, Contexts, Logs

\* A turn appends to the log and is counted.
LEMMA AppendedContext ==
  ASSUME NEW c \in Contexts, NEW x \in Logs
  PROVE  LET d == Append1(TakesTurn(c), x)
         IN /\ d \in Contexts /\ d.touched = c.touched /\ d.last = c.last
            /\ d.turns = c.turns + 1 /\ d.max = c.max
            /\ d.finished = c.finished /\ d.completed = c.completed
<1> DEFINE t == TakesTurn(c)
<1>1. /\ t \in Contexts /\ t.touched = c.touched /\ t.last = c.last /\ t.turns = c.turns + 1
      /\ t.max = c.max /\ t.finished = c.finished /\ t.completed = c.completed
  BY DEF TakesTurn, Contexts
<1> HIDE DEF t
<1>2. CASE x = NoJson
  BY <1>1, <1>2 DEF Append1, Contexts, t
<1>3. CASE x # NoJson
  <2>1. PICK y \in Logs : Append1(t, x) = [t EXCEPT !.json = y, !.tail = x]
    BY <1>3 DEF Append1, Logs
  <2> QED
    BY <1>1, <2>1 DEF Contexts, t
<1> QED
  BY <1>2, <1>3

LEMMA ObservedContext ==
  ASSUME NEW c \in Contexts, NEW call \in Calls
  PROVE  LET d == ObservedCall(c, call)
         IN /\ d \in Contexts /\ d.touched = c.touched /\ d.last = call
            /\ d.turns = c.turns + 1 /\ d.max = c.max
            /\ d.finished = c.finished /\ d.completed = c.completed
<1>1. MixedJson \in Logs
  BY DEF Logs
<1> QED
  BY <1>1, AppendedContext DEF ObservedCall, Contexts

LEMMA FinalContext ==
  ASSUME NEW c \in Contexts, NEW call \in Calls, NEW plan \in Plans
  PROVE  LET d == FinalCall(c, call, plan)
         IN /\ d \in Contexts /\ d.touched = c.touched /\ d.last = call
            /\ d.turns = c.turns + 1 /\ d.max = c.max /\ d.json = plan
            /\ d.finished /\ d.completed
<1> DEFINE t == TakesTurn(c)
           e == [t EXCEPT !.last = call, !.json = plan, !.tail = plan]
<1>1. /\ t \in Contexts /\ t.touched = c.touched /\ t.turns = c.turns + 1 /\ t.max = c.max
  BY DEF TakesTurn, Contexts
<1> HIDE DEF t
<1>2. /\ e \in Contexts /\ e.touched = c.touched /\ e.turns = c.turns + 1 /\ e.max = c.max
      /\ e.last = call /\ e.json = plan
  BY <1>1 DEF Contexts, Logs
<1>3. FinalCall(c, call, plan) = [e EXCEPT !.finished = TRUE, !.completed = TRUE]
  BY DEF FinalCall, t
<1> HIDE DEF e
<1> QED
  BY <1>2, <1>3 DEF Contexts

\* A loop that ran out of turns is not completed by that.
LEMMA CappedContext ==
  ASSUME ctx \in Contexts, NEW c \in Capped(ctx)
  PROVE  /\ c \in Contexts /\ c.touched = ctx.touched /\ c.last = ctx.last
         /\ c.turns = ctx.turns /\ c.max = ctx.max /\ c.completed = ctx.completed
         /\ ctx.finished => c = ctx
<1>1. CASE ctx.finished
  BY <1>1 DEF Capped
<1>2. CASE ~ctx.finished
  <2>1. PICK x : x \in Logs /\ c = [ctx EXCEPT !.finished = TRUE, !.json = x, !.tail = x]
    BY <1>2 DEF Capped, Contexts, Logs
  <2>2. c = [turns |-> ctx.turns, max |-> ctx.max, finished |-> TRUE, completed |-> ctx.completed,
             touched |-> ctx.touched, last |-> ctx.last, json |-> x, tail |-> x]
    BY <2>1 DEF Contexts
  <2> QED
    BY <1>2, <2>1, <2>2 DEF Contexts
<1> QED
  BY <1>1, <1>2

-----------------------------------------------------------------------------
LEMMA PlanStarts == PlannerInit => PlanInv
<1> SUFFICES ASSUME PlannerInit PROVE PlanInv
  OBVIOUS
<1>1. EmptyLog \in [touched : SUBSET Paths, json : Logs, tail : Logs] /\ EmptyLog.touched = {}
  BY DEF EmptyLog, Logs
<1>2. ScoutTurns \in Nat
  BY PlannerAssumption
<1>3. ctx \in Contexts /\ ctx.turns = 0 /\ ctx.max = ScoutTurns /\ ctx.touched = {}
      /\ ctx.last = NoCall /\ ~ctx.completed
  BY <1>1, <1>2, FreshContext DEF PlannerInit
<1> QED
  BY <1>2, <1>3 DEF PlannerInit, PlanInv, CtxInv, CallInv, CompletedInv, AnswerInv,
     AnsweredPlanHolds, CompletedPlanIsAnswered

\* What a turn of either loop has to do.
LEMMA TurnKeeps ==
  ASSUME PlanInv, Turning, Keeps, ctx' \in Contexts,
         ctx'.turns = ctx.turns + 1, ctx'.max = ctx.max,
         reads \subseteq reads', ctx'.touched \subseteq reads', ran'.call = ctx'.last,
         ctx'.completed => planning = "emit" /\ ctx'.finished /\ GatePasses(ctx')
  PROVE  PlanInv'
<1>1. asked' \in Asked /\ changes' \in Nat
  BY DEF PlanInv, Keeps
<1>2. CtxInv' /\ CallInv'
  BY DEF PlanInv, CtxInv, CallInv, Turning, Loops, Contexts
<1>3. CompletedInv'
  BY DEF CompletedInv, GatePasses, Keeps
<1>4. AnswerInv'
  BY DEF PlanInv, AnswerInv, AnsweredPlanHolds, CompletedPlanIsAnswered, Keeps, Turning
<1> QED
  BY <1>1, <1>2, <1>3, <1>4 DEF PlanInv

\* A loop under way is not completed.
LEMMA NotYetCompleted ==
  ASSUME PlanInv, Turning
  PROVE  ctx \in Contexts /\ ~ctx.completed /\ ctx.touched \subseteq reads
         /\ ran.call = ctx.last /\ ctx.turns < ctx.max
  BY DEF PlanInv, Turning, Loops, CompletedInv, CtxInv, CallInv

LEMMA ThoughtKeeps == PlanInv /\ TurnOfProse => PlanInv'
<1> SUFFICES ASSUME PlanInv, TurnOfProse PROVE PlanInv'
  OBVIOUS
<1>1. PICK c \in AsSent(ctx), x \in Pasted \cup {NoJson} : ctx' = Thinks(c, x)
  BY DEF TurnOfProse
<1>2. x \in Logs
  BY PlannerAssumption DEF Logs
<1>3. Turning /\ Keeps /\ UNCHANGED <<reads, ran>>
  BY DEF TurnOfProse
<1> QED
  BY <1>1, <1>2, <1>3, NotYetCompleted, SentContext, AppendedContext, TurnKeeps DEF Thinks

LEMMA BlockKeeps == PlanInv /\ TurnBlocked => PlanInv'
<1> SUFFICES ASSUME PlanInv, TurnBlocked PROVE PlanInv'
  OBVIOUS
<1>1. PICK c \in AsSent(ctx) : ctx' = Append1(TakesTurn(c), MixedJson)
  BY DEF TurnBlocked, BlockedCall
<1>2. MixedJson \in Logs
  BY DEF Logs
<1>3. Turning /\ Keeps /\ UNCHANGED <<reads, ran>>
  BY DEF TurnBlocked
<1> QED
  BY <1>1, <1>2, <1>3, NotYetCompleted, SentContext, AppendedContext, TurnKeeps

LEMMA SearchKeeps == PlanInv /\ TurnOfSearch => PlanInv' /\ ran'.call # ran.call
<1> SUFFICES ASSUME PlanInv, TurnOfSearch PROVE PlanInv' /\ ran'.call # ran.call
  OBVIOUS
<1>1. PICK c \in AsSent(ctx) : ~Repeats(c, SearchCall) /\ ctx' = ObservedCall(c, SearchCall)
  BY DEF TurnOfSearch
<1>2. SearchCall \in Calls
  BY DEF Calls
<1>3. Turning /\ Keeps /\ UNCHANGED reads /\ ran'.call = SearchCall
  BY DEF TurnOfSearch, Runs
<1>4. ran'.call # ran.call
  BY <1>1, <1>3, NotYetCompleted, SentContext DEF Repeats
<1> QED
  BY <1>1, <1>2, <1>3, <1>4, NotYetCompleted, SentContext, ObservedContext, TurnKeeps

LEMMA ReadKeeps ==
  ASSUME PlanInv, NEW p \in Paths, TurnOfRead(p)
  PROVE  PlanInv' /\ ran'.call # ran.call
<1>1. PICK c \in AsSent(ctx) :
        /\ ~Repeats(c, ReadCall(p))
        /\ ctx' = [ObservedCall(c, ReadCall(p)) EXCEPT !.touched = @ \cup {p}]
  BY DEF TurnOfRead
<1>2. ReadCall(p) \in Calls
  BY DEF Calls
<1>3. Turning /\ Keeps /\ reads' = reads \cup {p} /\ ran'.call = ReadCall(p)
  BY DEF TurnOfRead, Runs
<1> DEFINE d == ObservedCall(c, ReadCall(p))
<1>4. /\ d \in Contexts /\ d.touched = ctx.touched /\ d.last = ReadCall(p)
      /\ d.turns = ctx.turns + 1 /\ d.max = ctx.max /\ d.completed = ctx.completed
  BY <1>1, <1>2, <1>3, NotYetCompleted, SentContext, ObservedContext
<1> HIDE DEF d
<1>5. /\ ctx' \in Contexts /\ ctx'.touched = ctx.touched \cup {p} /\ ctx'.last = ReadCall(p)
      /\ ctx'.turns = ctx.turns + 1 /\ ctx'.max = ctx.max /\ ctx'.completed = ctx.completed
  <2>1. ctx' = [d EXCEPT !.touched = @ \cup {p}]
    BY <1>1 DEF d
  <2> QED
    BY <1>4, <2>1 DEF Contexts
<1>6. ran'.call # ran.call
  BY <1>1, <1>3, NotYetCompleted, SentContext DEF Repeats
<1> QED
  BY <1>3, <1>5, <1>6, NotYetCompleted, TurnKeeps

LEMMA EmitKeeps ==
  ASSUME PlanInv, NEW plan \in Plans, TurnOfEmit(plan)
  PROVE  PlanInv' /\ ran'.call # ran.call
<1> DEFINE call == EmitCall(plan)
<1>1. PICK c \in AsSent(ctx) :
        /\ ~Repeats(c, call)
        /\ ctx' = IF ~EmitAccepts(plan) THEN ObservedCall(c, call)
                  ELSE LET final == FinalCall(c, call, plan)
                       IN IF GroundedIn(plan, c.touched) THEN final
                          ELSE [final EXCEPT !.finished = FALSE, !.completed = FALSE]
  BY DEF TurnOfEmit
<1>2. call \in Calls
  BY DEF Calls
<1>3. Turning /\ Keeps /\ UNCHANGED reads /\ ran'.call = call /\ planning = "emit"
  BY DEF TurnOfEmit, Runs
<1>4. ran'.call # ran.call
  BY <1>1, <1>3, NotYetCompleted, SentContext DEF Repeats
<1>5. /\ c \in Contexts /\ c.touched = ctx.touched /\ c.turns = ctx.turns /\ c.max = ctx.max
      /\ ~c.completed
  BY <1>3, NotYetCompleted, SentContext
<1> HIDE DEF call
<1>6. CASE ~EmitAccepts(plan)
  BY <1>1, <1>2, <1>3, <1>4, <1>5, <1>6, NotYetCompleted, ObservedContext, TurnKeeps
<1>7. CASE EmitAccepts(plan) /\ GroundedIn(plan, c.touched)
  <2>1. /\ ctx' \in Contexts /\ ctx'.touched = ctx.touched /\ ctx'.last = call
        /\ ctx'.turns = ctx.turns + 1 /\ ctx'.max = ctx.max /\ ctx'.json = plan
        /\ ctx'.finished /\ ctx'.completed
    BY <1>1, <1>2, <1>5, <1>7, FinalContext
  <2>2. GatePasses(ctx')
    BY <1>5, <1>7, <2>1 DEF GatePasses, EmitAccepts
  <2> QED
    BY <1>3, <1>4, <2>1, <2>2, NotYetCompleted, TurnKeeps
<1>8. CASE EmitAccepts(plan) /\ ~GroundedIn(plan, c.touched)
  <2> DEFINE d == FinalCall(c, call, plan)
  <2>1. /\ d \in Contexts /\ d.touched = ctx.touched /\ d.last = call
        /\ d.turns = ctx.turns + 1 /\ d.max = ctx.max
    BY <1>2, <1>5, FinalContext
  <2>2. ctx' = [d EXCEPT !.finished = FALSE, !.completed = FALSE]
    BY <1>1, <1>8
  <2> HIDE DEF d
  <2>3. /\ ctx' \in Contexts /\ ctx'.touched = ctx.touched /\ ctx'.last = call
        /\ ctx'.turns = ctx.turns + 1 /\ ctx'.max = ctx.max /\ ~ctx'.completed
    BY <2>1, <2>2 DEF Contexts
  <2> QED
    BY <1>3, <1>4, <2>3, NotYetCompleted, TurnKeeps
<1> QED
  BY <1>6, <1>7, <1>8

LEMMA ScoutEndKeeps == PlanInv /\ ScoutEnds => PlanInv' /\ ran'.call = NoCall
<1> SUFFICES ASSUME PlanInv, ScoutEnds PROVE PlanInv' /\ ran'.call = NoCall
  OBVIOUS
<1>1. PICK c \in Capped(ctx) : ctx' = Context(c, EmitTurns)
  BY DEF ScoutEnds
<1>2. c \in Contexts /\ c.touched = ctx.touched /\ ctx.touched \subseteq reads
  BY CappedContext DEF PlanInv, CtxInv
<1>3. /\ Context(c, EmitTurns) =
           Context([touched |-> c.touched, json |-> c.json, tail |-> c.tail], EmitTurns)
      /\ [touched |-> c.touched, json |-> c.json, tail |-> c.tail]
           \in [touched : SUBSET Paths, json : Logs, tail : Logs]
  BY <1>2 DEF Context, Contexts
<1>4. EmitTurns \in Nat
  BY PlannerAssumption
<1>5. /\ ctx' \in Contexts /\ ctx'.turns = 0 /\ ctx'.max = EmitTurns
      /\ ctx'.touched = ctx.touched /\ ctx'.last = NoCall /\ ~ctx'.completed
  BY <1>1, <1>2, <1>3, <1>4, FreshContext
<1>6. ran'.call = NoCall /\ planning = "scout" /\ planning' = "emit"
      /\ UNCHANGED <<disk, changes, asked, answer, answeredOn, reads>>
  BY DEF ScoutEnds, Runs
<1>7. CtxInv' /\ CallInv' /\ CompletedInv'
  BY <1>2, <1>4, <1>5, <1>6 DEF CtxInv, CallInv, CompletedInv
<1>8. AnswerInv'
  BY <1>6 DEF PlanInv, AnswerInv, AnsweredPlanHolds, CompletedPlanIsAnswered
<1> QED
  BY <1>6, <1>7, <1>8 DEF PlanInv

LEMMA EmitEndKeeps == PlanInv /\ EmitEnds => PlanInv'
<1> SUFFICES ASSUME PlanInv, EmitEnds PROVE PlanInv'
  OBVIOUS
<1>1. PICK c \in Capped(ctx) :
        IF c.completed \/ round = FixRounds
        THEN /\ planning' = "answered" /\ ctx' = c
             /\ answer' = IF GatePasses(c) THEN c.json ELSE NoPlan
             /\ answeredOn' = disk
             /\ UNCHANGED round
        ELSE /\ round' = round + 1 /\ ctx' = Resumed(c, FixTurns)
             /\ UNCHANGED <<planning, answer, answeredOn>>
  BY DEF EmitEnds
<1>2. /\ c \in Contexts /\ c.touched = ctx.touched /\ c.last = ctx.last
      /\ c.turns = ctx.turns /\ c.max = ctx.max /\ c.completed = ctx.completed
      /\ ctx.finished => c = ctx
  BY CappedContext DEF PlanInv, CtxInv
<1>3. planning = "emit" /\ UNCHANGED <<disk, changes, asked, reads, ran>>
  BY DEF EmitEnds
<1>4. ctx.completed => c = ctx /\ (changes = 0 => GatePasses(c))
  BY <1>2, <1>3 DEF PlanInv, CompletedInv
<1>5. ctx.turns \in Nat /\ ctx.turns <= ctx.max /\ ctx.touched \subseteq reads
      /\ ran.call = ctx.last
  BY <1>3 DEF PlanInv, CtxInv, CallInv, Contexts
<1>6. CASE c.completed \/ round = FixRounds
  <2>1. planning' = "answered" /\ ctx' = c /\ answeredOn' = disk
        /\ answer' = IF GatePasses(c) THEN c.json ELSE NoPlan
    BY <1>1, <1>6
  <2>2. CtxInv' /\ CallInv' /\ CompletedInv'
    BY <1>2, <1>3, <1>5, <2>1 DEF CtxInv, CallInv, CompletedInv
  <2>3. AnsweredPlanHolds'
    <3>1. CASE GatePasses(c)
      BY <1>2, <1>3, <1>5, <2>1, <3>1 DEF AnsweredPlanHolds, GatePasses, GroundedIn
    <3>2. CASE ~GatePasses(c)
      BY <2>1, <3>2 DEF AnsweredPlanHolds
    <3> QED
      BY <3>1, <3>2
  <2>4. CompletedPlanIsAnswered'
    <3>1. GatePasses(c) => c.json # NoPlan
      BY PlannerAssumption DEF GatePasses
    <3> QED
      BY <1>2, <1>3, <1>4, <2>1, <3>1 DEF CompletedPlanIsAnswered
  <2> QED
    BY <1>3, <2>1, <2>2, <2>3, <2>4 DEF PlanInv, AnswerInv
<1>7. CASE ~(c.completed \/ round = FixRounds)
  <2>1. FixTurns \in Nat
    BY PlannerAssumption
  <2>2. ctx' = [c EXCEPT !.finished = FALSE, !.max = c.turns + FixTurns]
        /\ UNCHANGED <<planning, answer, answeredOn>>
    BY <1>1, <1>7 DEF Resumed
  <2>3. /\ ctx' \in Contexts /\ ctx'.touched = ctx.touched /\ ctx'.last = ctx.last
        /\ ctx'.turns = ctx.turns /\ ctx'.max = ctx.turns + FixTurns /\ ~ctx'.completed
    <3> DEFINE max == c.turns + FixTurns
    <3>1. max \in Nat /\ max = ctx.turns + FixTurns
      BY <1>2, <1>5, <2>1
    <3>2. ctx' = [c EXCEPT !.finished = FALSE, !.max = max]
      BY <2>2
    <3> HIDE DEF max
    <3> QED
      BY <1>2, <1>7, <3>1, <3>2 DEF Contexts
  <2>4. CtxInv' /\ CallInv' /\ CompletedInv'
    BY <1>3, <1>5, <2>1, <2>3 DEF CtxInv, CallInv, CompletedInv
  <2>5. AnswerInv'
    BY <1>3, <2>2 DEF PlanInv, AnswerInv, AnsweredPlanHolds, CompletedPlanIsAnswered
  <2> QED
    BY <1>3, <2>4, <2>5 DEF PlanInv
<1> QED
  BY <1>6, <1>7

-----------------------------------------------------------------------------
PlanVars == <<disk, changes, planner, execution>>

\* A call that ran and runs again is the same one, or none.
NoRepeat == ran'.call = ran.call /\ ran.call # NoCall => ran' = ran

LEMMA PlanStep ==
  PlanInv /\ [PlanNext \/ ExecuteBlueprint \/ DiskChanges]_PlanVars => PlanInv' /\ NoRepeat
<1> SUFFICES ASSUME PlanInv, [PlanNext \/ ExecuteBlueprint \/ DiskChanges]_PlanVars
             PROVE  PlanInv' /\ NoRepeat
  OBVIOUS
<1>1. CASE TurnOfProse
  BY <1>1, ThoughtKeeps DEF TurnOfProse, NoRepeat
<1>2. CASE TurnBlocked
  BY <1>2, BlockKeeps DEF TurnBlocked, NoRepeat
<1>3. CASE TurnOfSearch
  BY <1>3, SearchKeeps DEF NoRepeat
<1>4. CASE \E p \in Paths : TurnOfRead(p)
  BY <1>4, ReadKeeps DEF NoRepeat
<1>5. CASE \E plan \in Plans : TurnOfEmit(plan)
  BY <1>5, EmitKeeps DEF NoRepeat
<1>6. CASE PlanFails
  BY <1>6 DEF PlanFails, PlanInv, CtxInv, CallInv, CompletedInv, AnswerInv, AnsweredPlanHolds,
     CompletedPlanIsAnswered, NoRepeat
<1>7. CASE ScoutEnds
  BY <1>7, ScoutEndKeeps DEF NoRepeat
<1>8. CASE EmitEnds
  BY <1>8, EmitEndKeeps DEF EmitEnds, NoRepeat
<1>9. CASE ExecuteBlueprint
  <2>1. planning = "answered" /\ UNCHANGED <<planner, changes>>
    BY <1>9 DEF ExecuteBlueprint
  <2> QED
    BY <2>1 DEF planner, PlanInv, CtxInv, CallInv, CompletedInv, AnswerInv, AnsweredPlanHolds,
       CompletedPlanIsAnswered, NoRepeat
<1>10. CASE DiskChanges
  <2>1. changes' = changes + 1 /\ UNCHANGED planner
    BY <1>10 DEF DiskChanges
  <2>2. changes' \in Nat /\ changes' # 0
    BY <2>1 DEF PlanInv
  <2> QED
    BY <2>1, <2>2 DEF planner, PlanInv, CtxInv, CallInv, CompletedInv, AnswerInv,
       AnsweredPlanHolds, CompletedPlanIsAnswered, NoRepeat
<1>11. CASE UNCHANGED PlanVars
  BY <1>11 DEF PlanVars, planner, PlanInv, CtxInv, CallInv, CompletedInv, AnswerInv,
     AnsweredPlanHolds, CompletedPlanIsAnswered, GatePasses, NoRepeat
<1> QED
  BY <1>1, <1>2, <1>3, <1>4, <1>5, <1>6, <1>7, <1>8, <1>9, <1>10, <1>11 DEF PlanNext, PlanTurns

LEMMA PlanAlways == Spec => []PlanInv /\ [][NoRepeat]_PlanVars
<1>1. Init => PlanInv
  BY PlanStarts DEF Init
<1>2. [Next]_vars => [PlanNext \/ ExecuteBlueprint \/ DiskChanges]_PlanVars
  BY DEF Next, ClientMoves, PlannerMoves, RefactorMoves, SyncMoves, vars, PlanVars
<1>3. PlanInv /\ [Next]_vars => PlanInv' /\ NoRepeat
  BY <1>2, PlanStep
<1> QED
  BY <1>1, <1>3, PTL DEF Spec

(* A plan the emit agent completed with is the answer if no file changed   *)
(* (process_and_evaluate, final_blueprint_or_report).                      *)
THEOREM CompletedPlansAreAnswered == Spec => []CompletedPlanIsAnswered
<1>1. PlanInv => CompletedPlanIsAnswered
  BY DEF PlanInv, AnswerInv
<1> QED
  BY <1>1, PlanAlways, PTL

(* No tool runs twice in a row with the same arguments                     *)
(* (run_single_tool_turn).                                                 *)
THEOREM CallsRunOnce == Spec => NoCallRunsTwice
<1>1. [NoRepeat]_PlanVars => [NoRepeat]_ran
  BY DEF PlanVars, planner
<1> QED
  BY <1>1, PlanAlways, PTL DEF NoCallRunsTwice, NoRepeat

-----------------------------------------------------------------------------
\* The transformer: between its calls every file is as a triage left it, and
\* during one only touched files are not.
TriagedInv ==
  /\ {"at", "touched"} \subseteq DOMAIN tf
  /\ body = [p \in DOMAIN body |-> body[p]]
  /\ atTriage = [p \in DOMAIN body |-> atTriage[p]]
  /\ tf.at \in {"turn", "calls", "answered"} => body = atTriage
  /\ tf.at \in {"editing", "triage"} =>
       \A p \in DOMAIN body \ tf.touched : body[p] = atTriage[p]

LEMMA RefactorStarts == TransformerInit => TriagedInv
<1> SUFFICES ASSUME TransformerInit PROVE TriagedInv
  OBVIOUS
<1>1. repo.body \in [ToSet(repo.order) -> Seq(Seq(Tokens))]
  BY TransformerAssumption DEF TransformerInit
<1>2. body = repo.body /\ atTriage = repo.body /\ tf.at = "turn"
      /\ {"at", "touched"} \subseteq DOMAIN tf
  BY DEF TransformerInit
<1> QED
  BY <1>1, <1>2 DEF TriagedInv

\* A call that ends goes back to its turn, or to the turn's next call.
LEMMA CallEndsShape ==
  ASSUME {"at", "touched"} \subseteq DOMAIN tf
  PROVE  /\ CallEnds(tf).at \in {"turn", "calls"}
         /\ DOMAIN CallEnds(tf) = DOMAIN tf
  BY DEF CallEnds

LEMMA BeginKeeps ==
  ASSUME TriagedInv, tf.at = "calls", NEW targets, NEW rule, NEW scanned,
         Begins(targets, rule, scanned)
  PROVE  TriagedInv'
<1>1. tf'.at = "editing" /\ DOMAIN tf' = DOMAIN tf /\ UNCHANGED <<body, atTriage>>
  BY DEF TriagedInv, Begins
<1> QED
  BY <1>1 DEF TriagedInv

LEMMA EditKeeps ==
  ASSUME TriagedInv, tf.at = "editing", NEW new, NEW model, EditDone(new, model)
  PROVE  TriagedInv'
<1> DEFINE file == Head(tf.todo).file
<1>1. /\ tf'.at = "editing" /\ DOMAIN tf' = DOMAIN tf
      /\ tf'.touched = tf.touched \cup {file} /\ atTriage' = atTriage
  BY DEF TriagedInv, EditDone
<1>2. PICK text : body' = [body EXCEPT ![file] = text]
  BY DEF EditDone, Spliced
<1> QED
  BY <1>1, <1>2 DEF TriagedInv

LEMMA SkipKeeps == TriagedInv /\ tf.at = "editing" /\ EditSkipped => TriagedInv'
<1> SUFFICES ASSUME TriagedInv, tf.at = "editing", EditSkipped PROVE TriagedInv'
  OBVIOUS
<1>1. /\ tf'.at = "editing" /\ DOMAIN tf' = DOMAIN tf /\ tf'.touched = tf.touched
      /\ UNCHANGED <<body, atTriage>>
  BY DEF TriagedInv, EditSkipped
<1> QED
  BY <1>1 DEF TriagedInv

\* A job that fails keeps its files: its journal is what undoes them.
LEMMA FailureKeeps ==
  ASSUME TriagedInv, tf' = [tf EXCEPT !.at = "failed"], UNCHANGED <<body, atTriage>>
  PROVE  TriagedInv'
  BY DEF TriagedInv

LEMMA EditsEndKeeps == TriagedInv /\ EditsEnd => TriagedInv'
<1> SUFFICES ASSUME TriagedInv, EditsEnd PROVE TriagedInv'
  OBVIOUS
<1>1. CASE tf.touched = {}
  BY <1>1, FailureKeeps DEF EditsEnd
<1>2. CASE tf.touched # {}
  <2>1. /\ tf'.at = "triage" /\ DOMAIN tf' = DOMAIN tf /\ atTriage' = atTriage
        /\ tf'.touched = tf.touched \cup TypesToMigrate /\ tf.at = "editing"
    BY <1>2 DEF TriagedInv, EditsEnd, TouchedWith
  <2>2. body' = [p \in DOMAIN body |->
                   IF p \in TypesToMigrate THEN TypeMigrated(body[p]) ELSE body[p]]
    BY <1>2 DEF EditsEnd
  <2> QED
    BY <2>1, <2>2 DEF TriagedInv
<1> QED
  BY <1>1, <1>2

LEMMA TriageKeeps == TriagedInv /\ Triage => TriagedInv'
<1> SUFFICES ASSUME TriagedInv, Triage PROVE TriagedInv'
  OBVIOUS
<1> DEFINE Edited == {[body EXCEPT ![p][1] = <<"code">>] :
                        p \in {q \in tf.touched : body[q] # <<>>}}
<1>0. PICK now \in {body} \cup Edited, passed \in BOOLEAN :
        /\ body' = now
        /\ atTriage' = [p \in DOMAIN body |-> IF p \in tf.touched THEN now[p] ELSE atTriage[p]]
        /\ tf' = [CallEnds(tf) EXCEPT !.ok = @ \/ (passed /\ VerificationPassed(now))]
  BY Zenon DEF Triage
<1>1. now = body \/ \E p \in tf.touched : now = [body EXCEPT ![p][1] = <<"code">>]
  BY Zenon
<1> HIDE DEF Edited
<1>2. /\ DOMAIN now = DOMAIN body /\ now = [p \in DOMAIN now |-> now[p]]
      /\ \A p \in DOMAIN body \ tf.touched : now[p] = body[p]
  <2>1. CASE now = body
    BY <2>1 DEF TriagedInv
  <2>2. ASSUME NEW p \in tf.touched, now = [body EXCEPT ![p][1] = <<"code">>]
        PROVE  /\ DOMAIN now = DOMAIN body /\ now = [q \in DOMAIN now |-> now[q]]
               /\ \A q \in DOMAIN body \ tf.touched : now[q] = body[q]
    <3>1. PICK text : now = [body EXCEPT ![p] = text]
      BY <2>2, Zenon
    <3> QED
      BY <3>1
  <2> QED
    BY <1>1, <2>1, <2>2
<1>3. tf'.at \in {"turn", "calls"} /\ DOMAIN tf' = DOMAIN tf
  BY <1>0, CallEndsShape DEF TriagedInv
<1>4. tf.at = "triage"
  BY DEF Triage
<1>5. body' = atTriage'
  <2>1. \A p \in DOMAIN body : now[p] = atTriage'[p]
    BY <1>0, <1>2, <1>4 DEF TriagedInv
  <2> QED
    BY <1>0, <1>2, <2>1
<1> QED
  BY <1>0, <1>2, <1>3, <1>5 DEF TriagedInv

LEMMA RefactorStep == TriagedInv /\ [TransformerNext]_transformer => TriagedInv'
<1> SUFFICES ASSUME TriagedInv, [TransformerNext]_transformer PROVE TriagedInv'
  OBVIOUS
<1>1. CASE TakeTurn
  <2>1. /\ tf.at = "turn" /\ tf'.at \in {"turn", "calls"} /\ DOMAIN tf' = DOMAIN tf
        /\ UNCHANGED <<body, atTriage>>
    BY <1>1 DEF TakeTurn, TriagedInv
  <2> QED
    BY <2>1 DEF TriagedInv
<1>2. CASE Answer
  <2>1. /\ tf.at = "turn" /\ tf'.at = "answered" /\ DOMAIN tf' = DOMAIN tf
        /\ UNCHANGED <<body, atTriage>>
    BY <1>2 DEF Answer, TriagedInv
  <2> QED
    BY <2>1 DEF TriagedInv
<1>3. CASE GatherAndApply
  BY <1>3, BeginKeeps DEF GatherAndApply
<1>4. CASE GatherEnds
  <2>1. CASE tf' = CallEnds(tf)
    <3>1. /\ tf.at = "calls" /\ tf'.at \in {"turn", "calls"} /\ DOMAIN tf' = DOMAIN tf
          /\ UNCHANGED <<body, atTriage>>
      BY <1>4, <2>1, CallEndsShape DEF GatherEnds, TriagedInv
    <3> QED
      BY <3>1 DEF TriagedInv
  <2>2. CASE tf' = [tf EXCEPT !.at = "failed"]
    BY <1>4, <2>2, FailureKeeps DEF GatherEnds
  <2> QED
    BY <1>4, <2>1, <2>2 DEF GatherEnds
<1>5. CASE ApplyCodemod
  BY <1>5, BeginKeeps DEF ApplyCodemod
<1>6. CASE EditRange
  BY <1>6, EditKeeps, SkipKeeps DEF EditRange
<1>7. CASE EditLine
  BY <1>7, EditKeeps, SkipKeeps, FailureKeeps DEF EditLine
<1>8. CASE EditsEnd
  BY <1>8, EditsEndKeeps
<1>9. CASE Triage
  BY <1>9, TriageKeeps
<1>10. CASE TransformerFails
  BY <1>10, FailureKeeps DEF TransformerFails
<1>11. CASE UNCHANGED transformer
  BY <1>11 DEF transformer, TriagedInv
<1> QED
  BY <1>1, <1>2, <1>3, <1>4, <1>5, <1>6, <1>7, <1>8, <1>9, <1>10, <1>11 DEF TransformerNext

-----------------------------------------------------------------------------
\* The sync: while its flag is set, and once it is answered, a triage has
\* passed its target as it is.
SyncInv ==
  /\ sync \in [at : {"turn", "answered", "reported", "failed"},
               turn : 0 .. SyncTurns, green : BOOLEAN]
  /\ sync.at \in {"turn", "answered"} /\ sync.green => SyncTarget \notin untriaged
  /\ sync.at = "answered" => sync.green

LEMMA SyncStarts == TranspilerInit => SyncInv
  BY TranspilerAssumption DEF TranspilerInit, SyncInv

\* A turn keeps the invariant if what it says of the target holds after it.
LEMMA SyncTurnKeeps ==
  ASSUME NEW at \in {"turn", "answered", "reported", "failed"}, NEW green \in BOOLEAN,
         SyncInv, SyncTurn(at, green),
         at \in {"turn", "answered"} /\ green => SyncTarget \notin untriaged',
         at = "answered" => green
  PROVE  SyncInv'
<1>1. /\ sync' = [at |-> at, turn |-> sync.turn + 1, green |-> green]
      /\ sync.turn + 1 \in 0 .. SyncTurns
  BY TranspilerAssumption DEF SyncTurn, SyncInv
<1> QED
  BY <1>1 DEF SyncInv

LEMMA SyncTriageKeeps ==
  ASSUME NEW paths \in SUBSET SyncFiles, SyncInv, InvokeSyncTriage(paths)
  PROVE  SyncInv'
<1>1. PICK edited \in SUBSET (paths \cup {SyncTarget}), passed \in BOOLEAN :
        /\ untriaged' = IF passed THEN untriaged \ (paths \cup {SyncTarget})
                        ELSE untriaged \cup edited
        /\ SyncTurn("turn", passed) \/ (~passed /\ SyncTurn("failed", sync.green))
  BY DEF InvokeSyncTriage
<1>2. CASE SyncTurn("turn", passed)
  BY <1>1, <1>2, SyncTurnKeeps
\* The flag may stay that of an earlier triage, but no turn follows.
<1>3. CASE ~passed /\ SyncTurn("failed", sync.green)
  BY <1>1, <1>3, SyncTurnKeeps DEF SyncInv
<1> QED
  BY <1>1, <1>2, <1>3

LEMMA SyncStep == SyncInv /\ [TranspilerNext]_transpiler => SyncInv'
<1> SUFFICES ASSUME SyncInv, [TranspilerNext]_transpiler PROVE SyncInv'
  OBVIOUS
<1>0. sync.green \in BOOLEAN
  BY DEF SyncInv
<1>1. ASSUME SyncTurn("turn", sync.green), TreeStays PROVE SyncInv'
  <2>1. sync.at = "turn" /\ untriaged' = untriaged
    BY <1>1 DEF SyncTurn, TreeStays
  <2> QED
    BY <1>0, <1>1, <2>1, SyncTurnKeeps DEF SyncInv
<1>2. ASSUME NEW at \in {"reported", "failed"}, SyncTurn(at, sync.green) PROVE SyncInv'
  BY <1>0, <1>2, SyncTurnKeeps
<1>3. CASE SyncNudged
  BY <1>1, <1>3 DEF SyncNudged
<1>4. CASE FinalizeSync
  <2>1. CASE sync.green
    <3>1. sync.at = "turn" /\ untriaged' = untriaged /\ SyncTurn("answered", sync.green)
      BY <1>4, <2>1 DEF FinalizeSync, SyncTurn, TreeStays
    <3> QED
      BY <1>0, <2>1, <3>1, SyncTurnKeeps DEF SyncInv
  <2>2. CASE ~sync.green
    BY <1>2, <1>4, <2>2 DEF FinalizeSync
  <2> QED
    BY <2>1, <2>2
<1>5. CASE ReportSyncError
  BY <1>2, <1>5 DEF ReportSyncError
<1>6. CASE SyncOutOfTurns
  BY <1>6 DEF SyncOutOfTurns, SyncInv
<1>7. CASE SyncFails
  BY <1>2, <1>7 DEF SyncFails
<1>8. ASSUME NEW p \in SyncFiles, WriteTargetFile(p) PROVE SyncInv'
  <2>1. CASE SyncTurn("turn", GreenOnceWritten)
    BY <2>1, SyncTurnKeeps DEF GreenOnceWritten
  <2>2. CASE SyncTurn("failed", sync.green)
    BY <1>2, <2>2
  <2> QED
    BY <1>8, <2>1, <2>2 DEF WriteTargetFile
<1>9. ASSUME NEW paths \in SUBSET SyncFiles, InvokeSyncTriage(paths) PROVE SyncInv'
  BY <1>9, SyncTriageKeeps
<1>10. CASE UNCHANGED transpiler
  BY <1>10 DEF transpiler, SyncInv
<1> QED
  BY <1>3, <1>4, <1>5, <1>6, <1>7, <1>8, <1>9, <1>10 DEF TranspilerNext

(* Whatever a refactoring or a sync wrote before it answered, a triage has *)
(* passed, or been told of, since: whatever the ranges, the rules and the  *)
(* calls of a turn (apply_and_triage, retarget; write_target_file,         *)
(* run_child_triage, finalize_sync).                                       *)
THEOREM AnsweredJobsAreTriaged == Spec => []AnswersAreTriaged
<1>1. TriagedInv /\ SyncInv => AnswersAreTriaged
  BY DEF TriagedInv, NothingUntriaged, SyncInv, SyncIsTriaged, AnswersAreTriaged
<1>2. Init => TransformerInit /\ TranspilerInit
  BY DEF Init
<1>3. [Next]_vars => [TransformerNext]_transformer /\ [TranspilerNext]_transpiler
  BY DEF Next, ClientMoves, PlannerMoves, RefactorMoves, SyncMoves, vars
<1> QED
  BY RefactorStarts, RefactorStep, SyncStarts, SyncStep, <1>1, <1>2, <1>3, PTL DEF Spec

-----------------------------------------------------------------------------
(* Sequences: least numbers, recursion over positions, flattening, joining. *)

\* Every set of numbers has a least one.
LEMMA LeastNat ==
  ASSUME NEW T, T \subseteq Nat, T # {}
  PROVE  \E m \in T : \A k \in T : m <= k
<1>1. PICK m \in T : \A k \in T : ~(<<k, m>> \in OpToRel(<, Nat))
  BY NatLessThanWellFounded, WFMin
<1>2. \A k \in T : ~(k < m)
  BY <1>1 DEF OpToRel
<1> QED
  BY <1>2

\* What holds of 0 and is passed on holds up to any number.
LEMMA UpToInduction ==
  ASSUME NEW N \in Nat, NEW G, 0 \in G, \A n \in 1 .. N : n - 1 \in G => n \in G
  PROVE  0 .. N \subseteq G
<1> DEFINE Bad == {n \in 0 .. N : n \notin G}
<1> SUFFICES ASSUME Bad # {} PROVE FALSE
  OBVIOUS
<1>1. PICK m \in Bad : \A k \in Bad : m <= k
  <2>1. Bad \subseteq Nat
    OBVIOUS
  <2> HIDE DEF Bad
  <2> QED
    BY <2>1, LeastNat
<1>2. m \in 1 .. N /\ m \notin G
  BY <1>1
<1>3. m - 1 \in 0 .. N /\ m - 1 \notin Bad
  BY <1>1, <1>2
<1> QED
  BY <1>2, <1>3

\* A recursion over 0 .. N has a solution.
Solves(f, N, base, step) == f[0] = base /\ \A n \in 1 .. N : f[n] = step[n][f[n - 1]]
LEMMA Recursion ==
  ASSUME NEW N \in Nat, NEW V, NEW base \in V, NEW step \in [1 .. N -> [V -> V]]
  PROVE  \E f \in [0 .. N -> V] : Solves(f, N, base, step)
<1> DEFINE P(n) == \E f \in [0 .. n -> V] : Solves(f, n, base, step)
           G == {n \in 0 .. N : P(n)}
<1>1. 0 \in G
  <2> DEFINE f == [n \in 0 .. 0 |-> base]
  <2>1. f \in [0 .. 0 -> V] /\ f[0] = base /\ 1 .. 0 = {}
    OBVIOUS
  <2> HIDE DEF f
  <2> QED
    BY <2>1 DEF Solves
<1>2. ASSUME NEW n \in 1 .. N, n - 1 \in G PROVE n \in G
  <2>1. PICK f \in [0 .. n - 1 -> V] : Solves(f, n - 1, base, step)
    BY <1>2
  <2> DEFINE g == [k \in 0 .. n |-> IF k = n THEN step[n][f[n - 1]] ELSE f[k]]
  <2>2. g \in [0 .. n -> V]
    <3>1. \A k \in 0 .. n : k # n => k \in 0 .. n - 1
      OBVIOUS
    <3>2. step[n] \in [V -> V] /\ f[n - 1] \in V
      OBVIOUS
    <3> QED
      BY <3>1, <3>2
  <2>3. g[0] = base
    BY <2>1 DEF Solves
  <2>4. ASSUME NEW k \in 1 .. n PROVE g[k] = step[k][g[k - 1]]
    <3>1. g[k - 1] = f[k - 1]
      BY <2>4
    <3>2. CASE k = n
      BY <3>1, <3>2
    <3>3. CASE k # n
      <4>1. k \in 1 .. n - 1 /\ g[k] = f[k]
        BY <3>3
      <4> QED
        BY <2>1, <3>1, <4>1 DEF Solves
    <3> QED
      BY <3>2, <3>3
  <2> HIDE DEF g
  <2>5. Solves(g, n, base, step)
    BY <2>3, <2>4 DEF Solves
  <2> QED
    BY <1>2, <2>2, <2>5
<1>3. 0 .. N \subseteq G
  <2> HIDE DEF G
  <2> QED
    BY <1>1, <1>2, UpToInduction
<1> QED
  BY <1>3

\* What holds of the empty sequence and is kept by Append holds of all.
Appends(S, G) == \A t \in Seq(S), x \in S : t \in G => Append(t, x) \in G
LEMMA SeqInduction ==
  ASSUME NEW S, NEW G, <<>> \in G, Appends(S, G)
  PROVE  Seq(S) \subseteq G
<1> SUFFICES ASSUME NEW s \in Seq(S) PROVE s \in G
  OBVIOUS
<1> DEFINE H == {n \in 0 .. Len(s) : SubSeq(s, 1, n) \in G}
<1>0. Len(s) \in Nat
  OBVIOUS
<1>1. 0 \in H
  <2>1. SubSeq(s, 1, 0) = <<>>
    BY SubSeqEmpty
  <2>2. SubSeq(s, 1, 0) \in G
    BY <2>1
  <2>3. 0 \in 0 .. Len(s)
    BY <1>0
  <2> QED
    BY <2>2, <2>3
<1>2. ASSUME NEW n \in 1 .. Len(s), n - 1 \in H PROVE n \in H
  <2>1. SubSeq(s, 1, n - 1) \in Seq(S) /\ s[n] \in S
    BY <1>0, SubSeqProperties, ElementOfSeq
  <2>2. SubSeq(s, 1, n) = Append(SubSeq(s, 1, n - 1), s[n])
    BY <1>0, <2>1, SubSeqRecursiveSecond, AppendIsConcat
  <2>3. SubSeq(s, 1, n - 1) \in G
    BY <1>2
  <2>4. SubSeq(s, 1, n) \in G
    BY <2>1, <2>2, <2>3 DEF Appends
  <2> QED
    BY <1>0, <2>4
<1>3. 0 .. Len(s) \subseteq H
  <2> HIDE DEF H
  <2> QED
    BY <1>0, <1>1, <1>2, UpToInduction
<1>4. SubSeq(s, 1, Len(s)) = s
  BY SubSeqFull
<1>5. Len(s) \in H
  <2> HIDE DEF H
  <2> QED
    BY <1>0, <1>3
<1> QED
  BY <1>4, <1>5

\* FlattenSeq puts one sequence behind the other.
Flattens(F, seqs) ==
  /\ F[0] = <<>> /\ \A n \in 1 .. Len(seqs) : F[n] = F[n - 1] \o seqs[n]
  /\ FlattenSeq(seqs) = F[Len(seqs)]
LEMMA FlattenIs ==
  ASSUME NEW S, NEW seqs \in Seq(Seq(S))
  PROVE  \E F \in [0 .. Len(seqs) -> Seq(S)] : Flattens(F, seqs)
<1> DEFINE N == Len(seqs)
           step == [n \in 1 .. N |-> [v \in Seq(S) |-> v \o seqs[n]]]
<1>0. N \in Nat /\ <<>> \in Seq(S) /\ \A n \in 1 .. N : seqs[n] \in Seq(S)
  OBVIOUS
<1>1. step \in [1 .. N -> [Seq(S) -> Seq(S)]]
  <2>1. ASSUME NEW n \in 1 .. N PROVE [v \in Seq(S) |-> v \o seqs[n]] \in [Seq(S) -> Seq(S)]
    <3>1. \A v \in Seq(S) : v \o seqs[n] \in Seq(S)
      BY <1>0, ConcatProperties
    <3> QED
      BY <3>1
  <2> QED
    BY <2>1
<1>2. PICK F \in [0 .. N -> Seq(S)] : Solves(F, N, <<>>, step)
  <2> HIDE DEF step, N
  <2> QED
    BY <1>0, <1>1, Recursion
<1>3. F[0] = <<>> /\ \A n \in 1 .. N : F[n] = F[n - 1] \o seqs[n]
  <2>1. F[0] = <<>> /\ \A n \in 1 .. N : F[n] = step[n][F[n - 1]]
    BY <1>2 DEF Solves
  <2>2. ASSUME NEW n \in 1 .. N PROVE F[n] = F[n - 1] \o seqs[n]
    <3>1. n - 1 \in 0 .. N
      BY <1>0
    <3>2. F[n - 1] \in Seq(S)
      BY <3>1
    <3>3. F[n] = step[n][F[n - 1]]
      BY <2>1
    <3> QED
      BY <3>2, <3>3
  <2> QED
    BY <2>1, <2>2
<1>4. FlattenSeq(seqs) = F[N]
  <2>1. CASE N = 0
    <3>1. seqs = <<>>
      BY <2>1, EmptySeq
    <3> QED
      BY <1>3, <2>1, <3>1 DEF FlattenSeq
  <2>2. CASE N # 0
    <3> DEFINE Is(f) == f = [i \in 1 .. N |-> IF i = 1 THEN seqs[i] ELSE f[i - 1] \o seqs[i]]
               it == CHOOSE f : Is(f)
               w == [i \in 1 .. N |-> F[i]]
    <3>1. FlattenSeq(seqs) = it[N]
      BY <2>2 DEF FlattenSeq
    <3>2. ASSUME NEW i \in 1 .. N PROVE w[i] = IF i = 1 THEN seqs[i] ELSE w[i - 1] \o seqs[i]
      <4>1. F[i] = F[i - 1] \o seqs[i]
        BY <1>3
      <4>2. CASE i = 1
        <5>1. 1 \in 1 .. N /\ 1 - 1 = 0
          BY <1>0, <2>2
        <5>2. F[1] = F[1 - 1] \o seqs[1] /\ seqs[1] \in Seq(S)
          BY <1>0, <1>3, <5>1
        <5>3. F[1] = <<>> \o seqs[1]
          BY <1>3, <5>1, <5>2
        <5>4. F[1] = seqs[1]
          BY <5>2, <5>3, ConcatEmptySeq
        <5> QED
          BY <4>2, <5>4
      <4>3. CASE i # 1
        <5>1. i - 1 \in 1 .. N
          BY <1>0, <4>3
        <5> QED
          BY <4>1, <4>3, <5>1
      <4> QED
        BY <4>2, <4>3
    <3>3. Is(w)
      <4> DEFINE v == [i \in 1 .. N |-> IF i = 1 THEN seqs[i] ELSE w[i - 1] \o seqs[i]]
      <4>1. \A i \in 1 .. N : w[i] = v[i]
        <5> HIDE DEF w
        <5> QED
          BY <3>2
      <4>2. w = v
        BY <4>1
      <4> QED
        BY <4>2
    <3>4. Is(it)
      <4> HIDE DEF Is, w
      <4> QED
        BY <3>3
    <3>5. \A i \in 1 .. N : it[i] = IF i = 1 THEN seqs[i] ELSE it[i - 1] \o seqs[i]
      <4> HIDE DEF it
      <4> QED
        BY <3>4
    <3> DEFINE G == {i \in 0 .. N : i = 0 \/ it[i] = w[i]}
    <3>6. 0 \in G
      BY <1>0
    <3>7. ASSUME NEW i \in 1 .. N, i - 1 \in G PROVE i \in G
      <4> HIDE DEF it, w
      <4>1. i = 1 \/ it[i - 1] = w[i - 1]
        BY <3>7
      <4>2. it[i] = w[i]
        BY <3>2, <3>5, <4>1
      <4> QED
        BY <4>2
    <3>8. 0 .. N \subseteq G
      <4> HIDE DEF G
      <4> QED
        BY <1>0, <3>6, <3>7, UpToInduction
    <3>9. it[N] = w[N]
      <4>1. N \in G
        <5> HIDE DEF G
        <5> QED
          BY <1>0, <3>8
      <4> HIDE DEF it, w
      <4> QED
        BY <2>2, <4>1
    <3> QED
      BY <1>0, <2>2, <3>1, <3>9
  <2> QED
    BY <2>1, <2>2
<1> QED
  BY <1>3, <1>4 DEF Flattens

LEMMA FlattenType ==
  ASSUME NEW S, NEW seqs \in Seq(Seq(S))
  PROVE  FlattenSeq(seqs) \in Seq(S)
<1>1. PICK F \in [0 .. Len(seqs) -> Seq(S)] : Flattens(F, seqs)
  BY FlattenIs
<1>2. Len(seqs) \in Nat
  OBVIOUS
<1>3. FlattenSeq(seqs) = F[Len(seqs)]
  BY <1>1 DEF Flattens
<1> QED
  BY <1>2, <1>3

LEMMA FlattenEmpty == FlattenSeq(<<>>) = <<>>
  BY DEF FlattenSeq

LEMMA FlattenAppend ==
  ASSUME NEW S, NEW seqs \in Seq(Seq(S)), NEW x \in Seq(S)
  PROVE  FlattenSeq(Append(seqs, x)) = FlattenSeq(seqs) \o x
<1> DEFINE N == Len(seqs)
           more == Append(seqs, x)
<1>1. more \in Seq(Seq(S)) /\ Len(more) = N + 1 /\ N \in Nat /\ more[N + 1] = x
      /\ \A n \in 1 .. N : more[n] = seqs[n]
  BY AppendProperties
<1> HIDE DEF more
<1>2. PICK F \in [0 .. N -> Seq(S)] : Flattens(F, seqs)
  BY FlattenIs
<1>3. PICK H \in [0 .. N + 1 -> Seq(S)] : Flattens(H, more)
  BY <1>1, FlattenIs
<1> HIDE DEF N
<1>4. /\ F[0] = <<>> /\ \A n \in 1 .. N : F[n] = F[n - 1] \o seqs[n]
      /\ FlattenSeq(seqs) = F[N]
  BY <1>2 DEF Flattens, N
<1>5. /\ H[0] = <<>> /\ \A n \in 1 .. N + 1 : H[n] = H[n - 1] \o more[n]
      /\ FlattenSeq(more) = H[N + 1]
  BY <1>1, <1>3 DEF Flattens
<1> DEFINE G == {n \in 0 .. N : H[n] = F[n]}
<1>6. 0 \in G
  BY <1>1, <1>4, <1>5
<1>7. ASSUME NEW n \in 1 .. N, n - 1 \in G PROVE n \in G
  <2>0. n \in 1 .. N + 1
    BY <1>1
  <2>1. H[n] = H[n - 1] \o more[n]
    BY <1>5, <2>0
  <2>2. F[n] = F[n - 1] \o seqs[n] /\ more[n] = seqs[n]
    BY <1>1, <1>4
  <2>3. H[n - 1] = F[n - 1]
    BY <1>7
  <2>4. H[n] = F[n]
    BY <2>1, <2>2, <2>3
  <2> QED
    BY <2>4
<1>8. 0 .. N \subseteq G
  <2> HIDE DEF G
  <2> QED
    BY <1>1, <1>6, <1>7, UpToInduction
<1>9. H[N] = F[N]
  BY <1>1, <1>8
<1>10. H[N + 1] = H[N] \o x
  <2>1. N + 1 \in 1 .. N + 1 /\ N + 1 - 1 = N
    BY <1>1
  <2> PICK m : m = N + 1
    OBVIOUS
  <2>2. m \in 1 .. N + 1 /\ m - 1 = N
    BY <1>1
  <2>3. H[m] = H[m - 1] \o more[m]
    BY <1>5, <2>2
  <2> QED
    BY <1>1, <2>2, <2>3
<1> QED
  BY <1>4, <1>5, <1>9, <1>10 DEF more

Associates(T) == \A s, t, u \in T : (s \o t) \o u = s \o (t \o u)

LEMMA JoiningAssociates ==
  ASSUME NEW S
  PROVE  Associates(Seq(S))
BY ConcatAssociative DEF Associates

\* The sequence of two parts is that of the first, and then of the second.
LEMMA FlattenConcat ==
  ASSUME NEW S, NEW a \in Seq(Seq(S)), NEW b \in Seq(Seq(S))
  PROVE  FlattenSeq(a \o b) = FlattenSeq(a) \o FlattenSeq(b)
<1> DEFINE G == {t \in Seq(Seq(S)) : FlattenSeq(a \o t) = FlattenSeq(a) \o FlattenSeq(t)}
<1>0. FlattenSeq(a) \in Seq(S)
  BY FlattenType
<1>1. <<>> \in G
  <2>1. a \o <<>> = a /\ FlattenSeq(a) \o <<>> = FlattenSeq(a)
    BY <1>0, ConcatEmptySeq
  <2>2. FlattenSeq(a \o <<>>) = FlattenSeq(a) \o FlattenSeq(<<>>)
    BY <2>1, FlattenEmpty
  <2> QED
    BY <2>2
<1>2. Appends(Seq(S), G)
  <2> SUFFICES ASSUME NEW t \in Seq(Seq(S)), NEW x \in Seq(S), t \in G
               PROVE  Append(t, x) \in G
    BY DEF Appends
  <2>1. a \o t \in Seq(Seq(S)) /\ Append(t, x) \in Seq(Seq(S))
    BY ConcatProperties, AppendProperties
  <2>2. a \o Append(t, x) = Append(a \o t, x)
    <3>1. <<x>> \in Seq(Seq(S)) /\ Append(t, x) = t \o <<x>> /\ Append(a \o t, x) = (a \o t) \o <<x>>
      BY <2>1, AppendIsConcat
    <3> QED
      BY <3>1, ConcatAssociative
  <2>3. FlattenSeq(Append(a \o t, x)) = FlattenSeq(a \o t) \o x
    BY <2>1, FlattenAppend
  <2>4. FlattenSeq(Append(t, x)) = FlattenSeq(t) \o x /\ FlattenSeq(t) \in Seq(S)
    BY FlattenAppend, FlattenType
  <2>5. FlattenSeq(a \o t) = FlattenSeq(a) \o FlattenSeq(t)
    OBVIOUS
  <2>6. (FlattenSeq(a) \o FlattenSeq(t)) \o x = FlattenSeq(a) \o (FlattenSeq(t) \o x)
    <3>1. FlattenSeq(a) \in Seq(S) /\ FlattenSeq(t) \in Seq(S)
      BY <1>0, <2>4
    <3>2. Associates(Seq(S))
      BY JoiningAssociates
    <3> QED
      BY <3>1, <3>2 DEF Associates
  <2>7. FlattenSeq(a \o Append(t, x)) = FlattenSeq(a) \o FlattenSeq(Append(t, x))
    BY <2>2, <2>3, <2>4, <2>5, <2>6
  <2> QED
    BY <2>1, <2>7
<1>3. Seq(Seq(S)) \subseteq G
  <2> HIDE DEF G
  <2> QED
    BY <1>1, <1>2, SeqInduction
<1> QED
  BY <1>3

LEMMA FlattenOne ==
  ASSUME NEW S, NEW x \in Seq(S)
  PROVE  FlattenSeq(<<x>>) = x
<1>1. <<>> \in Seq(Seq(S)) /\ <<x>> = Append(<<>>, x)
  OBVIOUS
<1>2. FlattenSeq(Append(<<>>, x)) = FlattenSeq(<<>>) \o x
  BY <1>1, FlattenAppend
<1>3. <<>> \o x = x
  BY ConcatEmptySeq
<1> QED
  BY <1>1, <1>2, <1>3, FlattenEmpty

-----------------------------------------------------------------------------
\* What an operator makes of the elements, one behind the other.
Maps(k, S, T) == k \in [S -> Seq(T)]
Images(k, s) == [i \in DOMAIN s |-> k[s[i]]]
Joined(k, s) == FlattenSeq(Images(k, s))

LEMMA ImagesType ==
  ASSUME NEW S, NEW T, NEW k, Maps(k, S, T), NEW s \in Seq(S)
  PROVE  /\ Images(k, s) \in Seq(Seq(T)) /\ Len(Images(k, s)) = Len(s)
         /\ \A i \in 1 .. Len(s) : Images(k, s)[i] = k[s[i]]
<1>1. DOMAIN s = 1 .. Len(s) /\ Len(s) \in Nat /\ \A i \in 1 .. Len(s) : s[i] \in S
  OBVIOUS
<1>2. \A i \in 1 .. Len(s) : k[s[i]] \in Seq(T)
  BY <1>1 DEF Maps
<1> PICK a : a = Images(k, s)
  OBVIOUS
<1>3. a \in [1 .. Len(s) -> Seq(T)]
  BY <1>1, <1>2 DEF Images
<1>4. a \in Seq(Seq(T)) /\ Len(a) = Len(s)
  BY <1>1, <1>3
<1> QED
  BY <1>1, <1>4 DEF Images

LEMMA JoinedType ==
  ASSUME NEW S, NEW T, NEW k, Maps(k, S, T), NEW s \in Seq(S)
  PROVE  Joined(k, s) \in Seq(T)
  BY ImagesType, FlattenType DEF Joined

LEMMA JoinedEmpty ==
  ASSUME NEW k
  PROVE  Joined(k, <<>>) = <<>>
<1>1. Images(k, <<>>) = <<>>
  BY DEF Images
<1> QED
  BY <1>1, FlattenEmpty DEF Joined

LEMMA JoinedOne ==
  ASSUME NEW S, NEW T, NEW k, Maps(k, S, T), NEW x \in S
  PROVE  Joined(k, <<x>>) = k[x]
<1>0. k[x] \in Seq(T)
  BY DEF Maps
<1>1. <<x>> \in Seq(S) /\ k[x] \in Seq(T) /\ <<k[x]>> \in Seq(Seq(T)) /\ Len(<<x>>) = 1
  BY <1>0
<1>3. Images(k, <<x>>) = <<k[x]>>
  BY DEF Images
<1> QED
  BY <1>1, <1>3, FlattenOne DEF Joined

LEMMA JoinedConcat ==
  ASSUME NEW S, NEW T, NEW k, Maps(k, S, T), NEW s \in Seq(S), NEW t \in Seq(S)
  PROVE  Joined(k, s \o t) = Joined(k, s) \o Joined(k, t)
<1>0. PICK u, a, b, c : u = s \o t /\ a = Images(k, s) /\ b = Images(k, t) /\ c = Images(k, u)
  OBVIOUS
<1>1. u \in Seq(S) /\ Len(u) = Len(s) + Len(t) /\ Len(s) \in Nat /\ Len(t) \in Nat
      /\ \A i \in 1 .. Len(s) + Len(t) : u[i] = IF i <= Len(s) THEN s[i] ELSE t[i - Len(s)]
  BY <1>0, ConcatProperties
<1>2. a \in Seq(Seq(T)) /\ Len(a) = Len(s) /\ \A i \in 1 .. Len(s) : a[i] = k[s[i]]
  BY <1>0, ImagesType
<1>3. b \in Seq(Seq(T)) /\ Len(b) = Len(t) /\ \A i \in 1 .. Len(t) : b[i] = k[t[i]]
  BY <1>0, ImagesType
<1>4. c \in Seq(Seq(T)) /\ Len(c) = Len(u) /\ \A i \in 1 .. Len(u) : c[i] = k[u[i]]
  <2>1. u \in Seq(S)
    BY <1>1
  <2>2. c = Images(k, u)
    BY <1>0
  <2> QED
    <3>1. /\ Images(k, u) \in Seq(Seq(T)) /\ Len(Images(k, u)) = Len(u)
          /\ \A i \in 1 .. Len(u) : Images(k, u)[i] = k[u[i]]
      BY <2>1, ImagesType
    <3> QED
      BY <2>2, <3>1
<1>5. a \o b \in Seq(Seq(T)) /\ Len(a \o b) = Len(s) + Len(t)
      /\ \A i \in 1 .. Len(s) + Len(t) : (a \o b)[i] = IF i <= Len(s) THEN a[i] ELSE b[i - Len(s)]
  <2>1. a \in Seq(Seq(T)) /\ b \in Seq(Seq(T)) /\ Len(a) = Len(s) /\ Len(b) = Len(t)
    BY <1>2, <1>3
  <2>2. /\ a \o b \in Seq(Seq(T)) /\ Len(a \o b) = Len(a) + Len(b)
        /\ \A i \in 1 .. Len(a) + Len(b) : (a \o b)[i] = IF i <= Len(a) THEN a[i] ELSE b[i - Len(a)]
    BY <2>1, ConcatProperties, Zenon
  <2> QED
    BY <2>1, <2>2
<1>6. ASSUME NEW i \in 1 .. Len(s) + Len(t) PROVE c[i] = (a \o b)[i]
  <2>1. c[i] = k[u[i]]
    BY <1>1, <1>4
  <2>2. CASE i <= Len(s)
    <3>1. i \in 1 .. Len(s)
      BY <1>1, <2>2
    <3>2. u[i] = s[i] /\ a[i] = k[s[i]] /\ (a \o b)[i] = a[i]
      BY <1>1, <1>2, <1>5, <2>2, <3>1
    <3> QED
      BY <2>1, <3>2
  <2>3. CASE ~(i <= Len(s))
    <3>1. i - Len(s) \in 1 .. Len(t)
      BY <1>1, <2>3
    <3>2. u[i] = t[i - Len(s)] /\ (a \o b)[i] = b[i - Len(s)]
      BY <1>1, <1>5, <2>3
    <3>3. b[i - Len(s)] = k[t[i - Len(s)]]
      BY <1>3, <3>1
    <3> QED
      BY <2>1, <3>2, <3>3
  <2> QED
    BY <2>2, <2>3
<1>7. c = a \o b
  <2>1. c \in Seq(Seq(T)) /\ a \o b \in Seq(Seq(T)) /\ Len(c) = Len(a \o b)
        /\ \A i \in 1 .. Len(c) : c[i] = (a \o b)[i]
    BY <1>1, <1>4, <1>5, <1>6
  <2> QED
    BY <2>1, SeqEqual
<1>8. FlattenSeq(a \o b) = FlattenSeq(a) \o FlattenSeq(b)
  BY <1>2, <1>3, FlattenConcat
<1> QED
  BY <1>0, <1>7, <1>8 DEF Joined

\* The parts may be joined one by one.
LEMMA JoinedFlatten ==
  ASSUME NEW S, NEW T, NEW k, Maps(k, S, T), NEW parts \in Seq(Seq(S))
  PROVE  Joined(k, FlattenSeq(parts)) = FlattenSeq([i \in DOMAIN parts |-> Joined(k, parts[i])])
<1> DEFINE j == [s \in Seq(S) |-> Joined(k, s)]
           G == {t \in Seq(Seq(S)) : Joined(k, FlattenSeq(t)) = Joined(j, t)}
<1>0. Maps(j, Seq(S), T)
  BY JoinedType DEF Maps
<1>1. <<>> \in G
  BY JoinedEmpty, FlattenEmpty
<1>2. Appends(Seq(S), G)
  <2> SUFFICES ASSUME NEW t \in Seq(Seq(S)), NEW x \in Seq(S), t \in G
               PROVE  Append(t, x) \in G
    BY DEF Appends
  <2>0. Joined(k, FlattenSeq(t)) = Joined(j, t) /\ j[x] = Joined(k, x)
    OBVIOUS
  <2> HIDE DEF j
  <2>1. FlattenSeq(Append(t, x)) = FlattenSeq(t) \o x /\ FlattenSeq(t) \in Seq(S)
    BY FlattenAppend, FlattenType
  <2>2. Joined(k, FlattenSeq(t) \o x) = Joined(k, FlattenSeq(t)) \o Joined(k, x)
    <3>0. PICK f : f = FlattenSeq(t)
      OBVIOUS
    <3>1. f \in Seq(S)
      BY <2>1, <3>0
    <3>2. Joined(k, f \o x) = Joined(k, f) \o Joined(k, x)
      BY <3>1, JoinedConcat
    <3> QED
      BY <3>0, <3>2
  <2>3. Append(t, x) = t \o <<x>> /\ <<x>> \in Seq(Seq(S)) /\ Append(t, x) \in Seq(Seq(S))
    BY AppendIsConcat, AppendProperties
  <2>4. Joined(j, t \o <<x>>) = Joined(j, t) \o Joined(j, <<x>>)
    <3>0. PICK one : one = <<x>>
      OBVIOUS
    <3>1. one \in Seq(Seq(S))
      BY <2>3, <3>0
    <3>2. Joined(j, t \o one) = Joined(j, t) \o Joined(j, one)
      BY <1>0, <3>1, JoinedConcat
    <3> QED
      BY <3>0, <3>2
  <2>5. Joined(j, <<x>>) = j[x]
    BY <1>0, JoinedOne
  <2>6. Joined(k, FlattenSeq(Append(t, x))) = Joined(j, Append(t, x))
    BY <2>0, <2>1, <2>2, <2>3, <2>4, <2>5
  <2> QED
    BY <2>3, <2>6
<1>3. parts \in G
  <2> HIDE DEF G
  <2> QED
    BY <1>1, <1>2, SeqInduction
<1>4. Joined(k, FlattenSeq(parts)) = Joined(j, parts)
  BY <1>3
<1>5. Images(j, parts) = [i \in DOMAIN parts |-> Joined(k, parts[i])]
  BY DEF Images
<1> QED
  BY <1>4, <1>5 DEF Joined

-----------------------------------------------------------------------------
(* A plan of edits: each change applies to what the changes before it left. *)

Disks == [Paths -> Seq(Lines) \cup {Absent}]

\* An anchor that is found once is replaced.
LEMMA HunkApplies ==
  ASSUME NEW text \in Seq(Lines), NEW hunks \in Seq([search : Seq(Lines), replace : Seq(Lines)]),
         Len(hunks) = 1, hunks[1].search # <<>>, Cardinality(Occurrences(text, hunks[1].search)) = 1
  PROVE  ApplyHunks(text, hunks) \in Seq(Lines)
<1> DEFINE h == hunks[1]
           places == Occurrences(text, h.search)
<1>1. h.search \in Seq(Lines) /\ h.replace \in Seq(Lines) /\ Len(h.search) \in Nat \ {0} /\ Len(text) \in Nat
  <2>1. h \in [search : Seq(Lines), replace : Seq(Lines)]
    <3>1. 1 \in 1 .. Len(hunks)
      OBVIOUS
    <3> QED
      BY <3>1, ElementOfSeq
  <2> HIDE DEF h
  <2>2. h.search \in Seq(Lines) /\ h.replace \in Seq(Lines)
    BY <2>1
  <2>3. h.search # <<>>
    BY DEF h
  <2> QED
    BY <2>2, <2>3
<1>2. places \subseteq 1 .. Len(text)
  <2>1. 1 .. Len(text) - Len(h.search) + 1 \subseteq 1 .. Len(text)
    <3>1. PICK m \in Nat \ {0} : m = Len(h.search)
      BY <1>1
    <3>2. \A k \in Nat : 1 .. k - m + 1 \subseteq 1 .. k
      OBVIOUS
    <3> QED
      BY <1>1, <3>1, <3>2
  <2>2. places \subseteq 1 .. Len(text) - Len(h.search) + 1
    BY DEF Occurrences
  <2> HIDE DEF places
  <2> QED
    BY <2>1, <2>2
<1>3. PICK x : places = {x}
  <2>1. IsFiniteSet(places)
    <3>1. IsFiniteSet(1 .. Len(text))
      BY <1>1, 1 \in Int, Len(text) \in Int, FS_Interval
    <3> QED
      BY <1>2, <3>1, FS_Subset
  <2>2. Cardinality(places) = 1
    OBVIOUS
  <2> HIDE DEF places
  <2> QED
    BY <2>1, <2>2, FS_Singleton
<1> HIDE DEF places
<1>4. x \in 1 .. Len(text)
  BY <1>2, <1>3
<1>5. (CHOOSE i \in places : \A j \in places : i <= j) = x
  BY <1>3, <1>4
<1>6. OccursOnce(text, h.search)
  <2> HIDE DEF h
  <2>1. places = Occurrences(text, h.search)
    BY DEF places
  <2>2. OccursOnce(text, h.search) <=> places # {} /\ \A j \in places : j < (CHOOSE i \in places : \A k \in places : i <= k) + Len(h.search)
    BY <2>1 DEF OccursOnce
  <2>3. \A j \in places : j < x + Len(h.search)
    BY <1>1, <1>3, <1>4
  <2> QED
    BY <1>3, <1>5, <2>2, <2>3
<1>7. ReplaceFirst(text, h) = SubSeq(text, 1, x - 1) \o h.replace \o SubSeq(text, x + Len(h.search), Len(text))
  <2> HIDE DEF h
  <2>1. places = Occurrences(text, h.search)
    BY DEF places
  <2> QED
    BY <1>5, <2>1 DEF ReplaceFirst
<1>8. ReplaceFirst(text, h) \in Seq(Lines)
  <2> HIDE DEF h
  <2>1. SubSeq(text, 1, x - 1) \in Seq(Lines)
    <3>1. (\A i \in 1 .. x - 1 : text[i] \in Lines) /\ 1 \in Int /\ x - 1 \in Int
      BY <1>4
    <3> QED
      BY <3>1, SubSeqProperties
  <2>2. SubSeq(text, x + Len(h.search), Len(text)) \in Seq(Lines)
    <3>1. (\A i \in x + Len(h.search) .. Len(text) : text[i] \in Lines)
          /\ x + Len(h.search) \in Int /\ Len(text) \in Int
      BY <1>1, <1>4
    <3> QED
      BY <3>1, SubSeqProperties
  <2> QED
    BY <1>1, <1>7, <2>1, <2>2
<1> DEFINE once == IF text # Failed /\ h.search # <<>> /\ OccursOnce(text, h.search) THEN ReplaceFirst(text, h) ELSE Failed
           Is(f) == f = [n \in 0 .. Len(hunks) |->
                           IF n = 0 THEN text
                           ELSE IF f[n - 1] # Failed /\ hunks[n].search # <<>> /\ OccursOnce(f[n - 1], hunks[n].search)
                                THEN ReplaceFirst(f[n - 1], hunks[n]) ELSE Failed]
           it == CHOOSE f : Is(f)
           w == [n \in 0 .. Len(hunks) |-> IF n = 0 THEN text ELSE once]
<1>9. Is(w)
  <2> DEFINE v == [n \in 0 .. Len(hunks) |->
                     IF n = 0 THEN text
                     ELSE IF w[n - 1] # Failed /\ hunks[n].search # <<>> /\ OccursOnce(w[n - 1], hunks[n].search)
                          THEN ReplaceFirst(w[n - 1], hunks[n]) ELSE Failed]
  <2>1. \A n \in 0 .. Len(hunks) : n = 0 \/ n = 1
    OBVIOUS
  <2>2. w[0] = v[0] /\ w[0] = text
    OBVIOUS
  <2>3. w[1] = v[1]
    <3>1. v[1] = IF w[1 - 1] # Failed /\ hunks[1].search # <<>> /\ OccursOnce(w[1 - 1], hunks[1].search)
                 THEN ReplaceFirst(w[1 - 1], hunks[1]) ELSE Failed
      <4> HIDE DEF w
      <4> QED
        OBVIOUS
    <3>2. w[1] = once /\ 1 - 1 = 0
      <4> HIDE DEF once
      <4> QED
        OBVIOUS
    <3> QED
      BY <2>2, <3>1, <3>2
  <2>4. \A n \in 0 .. Len(hunks) : w[n] = v[n]
    <3> HIDE DEF w, v
    <3> QED
      BY <2>1, <2>2, <2>3
  <2>5. w = v
    <3> HIDE DEF once
    <3> QED
      BY <2>4
  <2> QED
    BY <2>5
<1>10. Is(it)
  <2> HIDE DEF Is, w
  <2> QED
    BY <1>9
<1>11. \A n \in 0 .. 1 : it[n] = IF n = 0 THEN text
                           ELSE IF it[n - 1] # Failed /\ hunks[n].search # <<>> /\ OccursOnce(it[n - 1], hunks[n].search)
                                THEN ReplaceFirst(it[n - 1], hunks[n]) ELSE Failed
  <2> HIDE DEF it
  <2> QED
    BY <1>10
<1>12. it[0] = text
  <2> HIDE DEF it
  <2> QED
    BY <1>11
<1>13. it[1] = once
  <2> HIDE DEF it
  <2>1. it[1] = IF it[1 - 1] # Failed /\ hunks[1].search # <<>> /\ OccursOnce(it[1 - 1], hunks[1].search)
                THEN ReplaceFirst(it[1 - 1], hunks[1]) ELSE Failed
    BY <1>11
  <2>2. 1 - 1 = 0
    OBVIOUS
  <2> QED
    BY <1>12, <2>1, <2>2
<1>14. ApplyHunks(text, hunks) = it[Len(hunks)]
  BY DEF ApplyHunks
<1>15. ApplyHunks(text, hunks) = it[1]
  BY <1>14
<1>16. text # Failed
  BY PlannerAssumption
<1> HIDE DEF it
<1> QED
  BY <1>6, <1>8, <1>13, <1>15, <1>16

-----------------------------------------------------------------------------
\* A step that validation lets pass applies while its file is as it was.
LEMMA StepApplies ==
  ASSUME NEW d \in Disks, NEW plan \in Plans, ValidBlueprint(plan, d), PlainSteps(plan, d),
         NEW step \in StepsOf(plan), NEW v \in Disks, IsCode(step) => v[step.target] = d[step.target]
  PROVE  /\ ApplyStep(v, step) \in Disks
         /\ \A p \in Paths : ~(IsCode(step) /\ p = step.target) => ApplyStep(v, step)[p] = v[p]
<1>1. /\ step.target \in Paths /\ step.patch.text \in Seq(Lines)
      /\ step.patch.hunks \in Seq([search : Seq(Lines), replace : Seq(Lines)])
  BY PlannerAssumption
<1>2. step.action \in {"patch_file", "create_file", "generate_tests", "sync_types"} /\ ValidStep(step, d)
  BY DEF ValidBlueprint, ValidStep, AgentOf
<1>3. step.action # "sync_types"
  <2>1. ~Has(plan, "sync_types")
    BY DEF PlainSteps
  <2> QED
    BY <2>1 DEF Has, StepsOf, ToSet
<1>4. CASE step.action = "generate_tests"
  BY <1>4 DEF ApplyStep
<1>5. CASE step.action = "create_file"
  <2>1. v[step.target] = Absent
    BY <1>5 DEF PlainSteps, IsCode
  <2>2. ApplyStep(v, step) = [v EXCEPT ![step.target] = step.patch.text]
    BY <1>5, <2>1 DEF ApplyStep
  <2> QED
    BY <1>1, <1>5, <2>2 DEF Disks, IsCode
<1>6. CASE step.action = "patch_file"
  <2> DEFINE hunks == step.patch.hunks
             text == v[step.target]
  <2>1. text = d[step.target] /\ text # Absent
    BY <1>2, <1>6 DEF IsCode, ValidStep, NeedsTarget
  <2>2. text \in Seq(Lines)
    BY <1>1, <2>1 DEF Disks
  <2>3. Len(hunks) = 1 /\ Cardinality(Occurrences(text, hunks[1].search)) = 1
    BY <1>6, <2>1 DEF PlainSteps
  <2>4. hunks[1].search # <<>>
    <3>1. 1 \in DOMAIN hunks
      BY <1>1, <2>3
    <3> QED
      BY <1>6, <3>1 DEF ValidBlueprint, PatchHunks, Grounded
  <2>5. ApplyHunks(text, hunks) \in Seq(Lines)
    <3> HIDE DEF text, hunks
    <3>1. hunks \in Seq([search : Seq(Lines), replace : Seq(Lines)])
      BY <1>1 DEF hunks
    <3> QED
      BY <2>2, <2>3, <2>4, <3>1, HunkApplies
  <2>6. ApplyHunks(text, hunks) # Failed
    BY <2>5, PlannerAssumption
  <2>7. ApplyStep(v, step) = [v EXCEPT ![step.target] = ApplyHunks(text, hunks)]
    BY <1>6, <2>1, <2>6 DEF ApplyStep
  <2> HIDE DEF text, hunks
  <2> QED
    BY <1>1, <1>6, <2>5, <2>7 DEF Disks, IsCode
<1> QED
  BY <1>2, <1>3, <1>4, <1>5, <1>6

\* Such steps, each of another file, apply one after another.
LEMMA StepsApply ==
  ASSUME NEW d \in Disks, NEW plan \in Plans, ValidBlueprint(plan, d), PlainSteps(plan, d)
  PROVE  ApplyFileSteps(d, plan) # Failed
<1> DEFINE steps == plan.pipeline
           N == Len(steps)
           applied(v, s) == IF v = Failed THEN Failed ELSE ApplyStep(v, s)
           step == [n \in 1 .. N |-> [v \in Disks |-> IF applied(v, steps[n]) \in Disks THEN applied(v, steps[n]) ELSE v]]
           Is(f) == f = [n \in 0 .. N |-> IF n = 0 THEN d ELSE applied(f[n - 1], steps[n])]
           it == CHOOSE f : Is(f)
<1>0. N \in Nat /\ \A n \in 1 .. N : steps[n] \in StepsOf(plan)
  <2>1. steps \in Seq(StepsOf(plan))
    BY PlannerAssumption
  <2> QED
    BY <2>1
<1>1. Failed \notin Disks
  <2>1. Failed = <<"failed">> /\ DOMAIN <<"failed">> = {1}
    BY DEF Failed
  <2>2. DOMAIN Failed = {1} /\ Paths # {1}
    BY <2>1, PlannerAssumption
  <2> QED
    BY <2>2 DEF Disks
<1>2. PICK w \in [0 .. N -> Disks] : Solves(w, N, d, step)
  <2>1. step \in [1 .. N -> [Disks -> Disks]]
    <3> HIDE DEF applied, N
    <3> QED
      OBVIOUS
  <2> HIDE DEF step, N
  <2> QED
    BY <1>0, <2>1, Recursion
<1> DEFINE G == {n \in 0 .. N : \A m \in n + 1 .. N : IsCode(steps[m]) => w[n][steps[m].target] = d[steps[m].target]}
<1>3. ASSUME NEW n \in 1 .. N, n - 1 \in G
      PROVE  w[n] = applied(w[n - 1], steps[n]) /\ n \in G
  <2> DEFINE v == w[n - 1]
  <2>1. n - 1 \in 0 .. N /\ n \in (n - 1) + 1 .. N /\ \A m \in n + 1 .. N : m \in (n - 1) + 1 .. N /\ m # n /\ m \in 1 .. N
    BY <1>0
  <2>2. v \in Disks
    BY <2>1
  <2>3. steps[n] \in StepsOf(plan) /\ (IsCode(steps[n]) => v[steps[n].target] = d[steps[n].target])
    BY <1>0, <1>3, <2>1
  <2>4. w[n] = step[n][v]
    BY <1>2 DEF Solves
  <2> HIDE DEF v, N, G
  <2>5. /\ ApplyStep(v, steps[n]) \in Disks
        /\ \A p \in Paths : ~(IsCode(steps[n]) /\ p = steps[n].target) => ApplyStep(v, steps[n])[p] = v[p]
    <3> HIDE DEF steps, step
    <3> QED
      BY <2>2, <2>3, StepApplies
  <2>6. applied(v, steps[n]) = ApplyStep(v, steps[n])
    BY <1>1, <2>2
  <2>7. w[n] = ApplyStep(v, steps[n])
    <3>1. w[n] = IF applied(v, steps[n]) \in Disks THEN applied(v, steps[n]) ELSE v
      <4> HIDE DEF applied, steps
      <4> QED
        BY <2>2, <2>4
    <3> QED
      BY <2>5, <2>6, <3>1
  <2>8. ASSUME NEW m \in n + 1 .. N, IsCode(steps[m]) PROVE w[n][steps[m].target] = d[steps[m].target]
    <3>1. m \in (n - 1) + 1 .. N /\ m # n /\ m \in 1 .. N
      BY <2>1
    <3>2. v[steps[m].target] = d[steps[m].target]
      BY <1>3, <2>8, <3>1 DEF G, v
    <3>3. ~(IsCode(steps[n]) /\ steps[m].target = steps[n].target)
      <4>1. n \in DOMAIN steps /\ m \in DOMAIN steps
        <5>1. DOMAIN steps = 1 .. N
          <6>1. steps \in Seq(StepsOf(plan))
            BY PlannerAssumption
          <6> QED
            BY <6>1 DEF N
        <5> QED
          BY <3>1, <5>1
      <4> QED
        BY <2>8, <3>1, <4>1 DEF PlainSteps
    <3>4. steps[m].target \in Paths
      BY <1>0, <3>1, PlannerAssumption
    <3> QED
      BY <2>5, <2>7, <3>2, <3>3, <3>4
  <2>9. n \in G
    <3>1. n \in 0 .. N
      BY <1>0
    <3> QED
      BY <2>8, <3>1 DEF G
  <2> QED
    BY <2>6, <2>7, <2>9 DEF v
<1>4. 0 \in G
  <2>1. w[0] = d
    BY <1>2 DEF Solves
  <2> QED
    BY <1>0, <2>1
<1>5. 0 .. N \subseteq G
  <2> HIDE DEF G, N
  <2> QED
    BY <1>0, <1>3, <1>4, UpToInduction
<1>6. w[0] = d /\ \A n \in 1 .. N : w[n] = applied(w[n - 1], steps[n])
  <2>1. w[0] = d
    BY <1>2 DEF Solves
  <2>2. \A n \in 1 .. N : n - 1 \in 0 .. N
    BY <1>0
  <2> HIDE DEF G, N, applied
  <2> QED
    BY <1>3, <1>5, <2>1, <2>2
<1>7. Is(w)
  <2> DEFINE u == [n \in 0 .. N |-> IF n = 0 THEN d ELSE applied(w[n - 1], steps[n])]
  <2>1. \A n \in 0 .. N : n = 0 \/ n \in 1 .. N
    BY <1>0
  <2>2. \A n \in 0 .. N : w[n] = u[n]
    <3> HIDE DEF N, applied
    <3> QED
      BY <1>6, <2>1
  <2>3. w = u
    <3> HIDE DEF N, applied
    <3> QED
      BY <2>2
  <2> QED
    BY <2>3
<1>8. Is(it)
  <2> HIDE DEF Is
  <2> QED
    BY <1>7
<1>9. \A n \in 0 .. N : it[n] = IF n = 0 THEN d ELSE applied(it[n - 1], steps[n])
  <2> HIDE DEF it, N, applied
  <2> QED
    BY <1>8
<1> DEFINE H == {n \in 0 .. N : it[n] = w[n]}
<1>10. 0 .. N \subseteq H
  <2> HIDE DEF it, applied, G
  <2>1. 0 \in H
    BY <1>0, <1>6, <1>9
  <2>2. ASSUME NEW n \in 1 .. N, n - 1 \in H PROVE n \in H
    <3>1. n \in 0 .. N /\ n # 0
      BY <1>0
    <3> HIDE DEF N
    <3> QED
      BY <1>6, <1>9, <2>2, <3>1
  <2> HIDE DEF H, N
  <2> QED
    BY <1>0, <2>1, <2>2, UpToInduction
<1>11. it[N] \in Disks
  <2>1. N \in 0 .. N
    BY <1>0
  <2> HIDE DEF it, N
  <2> QED
    BY <1>10, <2>1
<1>12. ApplyFileSteps(d, plan) = it[N]
  BY DEF ApplyFileSteps, PlainSteps
<1> QED
  BY <1>1, <1>11, <1>12

\* The recursion over the steps of a plan has a solution, whatever they are.
Applied(v, s) == IF v = Failed THEN Failed ELSE ApplyStep(v, s)
AppliesUpTo(f, n, d, steps) ==
  f = [k \in 0 .. n |-> IF k = 0 THEN d ELSE Applied(f[k - 1], steps[k])]

LEMMA StepsRecursion ==
  ASSUME NEW N \in Nat, NEW d, NEW steps
  PROVE  \E f : AppliesUpTo(f, N, d, steps)
<1> DEFINE G == {n \in 0 .. N : \E f : AppliesUpTo(f, n, d, steps)}
<1>1. 0 \in G
  <2> DEFINE f == [k \in 0 .. 0 |-> d]
  <2>1. f = [k \in 0 .. 0 |-> IF k = 0 THEN d ELSE Applied(f[k - 1], steps[k])]
    <3>1. \A k \in 0 .. 0 : k = 0
      OBVIOUS
    <3> QED
      BY <3>1
  <2> HIDE DEF f
  <2>2. \E g : AppliesUpTo(g, 0, d, steps)
    BY <2>1 DEF AppliesUpTo
  <2> QED
    BY <2>2
<1>2. ASSUME NEW n \in 1 .. N, n - 1 \in G PROVE n \in G
  <2>1. PICK f : f = [k \in 0 .. n - 1 |-> IF k = 0 THEN d ELSE Applied(f[k - 1], steps[k])]
    BY <1>2 DEF AppliesUpTo
  <2> DEFINE g == [k \in 0 .. n |-> IF k = n THEN Applied(f[n - 1], steps[n]) ELSE f[k]]
             h == [k \in 0 .. n |-> IF k = 0 THEN d ELSE Applied(g[k - 1], steps[k])]
  <2>2. ASSUME NEW k \in 0 .. n PROVE g[k] = h[k]
    <3>1. CASE k = n
      <4>1. n - 1 \in 0 .. n /\ n - 1 # n /\ n # 0
        OBVIOUS
      <4>2. g[n - 1] = f[n - 1]
        BY <4>1
      <4>3. h[n] = Applied(g[n - 1], steps[n]) /\ g[n] = Applied(f[n - 1], steps[n])
        <5> HIDE DEF g
        <5>1. h[n] = Applied(g[n - 1], steps[n])
          BY <4>1
        <5>2. g[n] = Applied(f[n - 1], steps[n])
          BY DEF g
        <5> QED
          BY <5>1, <5>2
      <4> QED
        BY <3>1, <4>2, <4>3
    <3>2. CASE k # n /\ k = 0
      <4>1. 0 \in 0 .. n - 1
        OBVIOUS
      <4>2. f[0] = d
        BY <2>1, <4>1
      <4> QED
        BY <3>2, <4>2
    <3>3. CASE k # n /\ k # 0
      <4>1. k \in 0 .. n - 1 /\ k - 1 \in 0 .. n /\ k - 1 # n
        BY <3>3
      <4>2. f[k] = Applied(f[k - 1], steps[k])
        BY <2>1, <3>3, <4>1
      <4>3. g[k] = f[k] /\ g[k - 1] = f[k - 1]
        BY <3>3, <4>1
      <4>4. h[k] = Applied(g[k - 1], steps[k])
        <5> HIDE DEF g
        <5> QED
          BY <3>3
      <4> HIDE DEF g, h
      <4> QED
        BY <4>2, <4>3, <4>4
    <3> QED
      BY <3>1, <3>2, <3>3
  <2>3. g = h
    <3> DEFINE x(k) == IF k = n THEN Applied(f[n - 1], steps[n]) ELSE f[k]
               y(k) == IF k = 0 THEN d ELSE Applied(g[k - 1], steps[k])
    <3>1. \A k \in 0 .. n : g[k] = h[k]
      BY <2>2
    <3>2. g = [k \in 0 .. n |-> g[k]] /\ h = [k \in 0 .. n |-> h[k]]
      OBVIOUS
    <3> HIDE DEF g, h
    <3> QED
      BY <3>1, <3>2
  <2>4. \E e : AppliesUpTo(e, n, d, steps)
    <3> HIDE DEF g
    <3> QED
      BY <2>3 DEF AppliesUpTo
  <2>5. n \in 0 .. N
    OBVIOUS
  <2> QED
    BY <2>4, <2>5
<1>3. 0 .. N \subseteq G
  <2> HIDE DEF G
  <2> QED
    BY <1>1, <1>2, UpToInduction
<1> QED
  BY <1>3

\* Steps that apply change the files they patch, and create those they create.
MayChange(plan, d, p) ==
  d[p] = Absent \/ \E step \in StepsOf(plan) : step.action = "patch_file" /\ step.target = p
LEMMA StepsChange ==
  ASSUME NEW d \in Disks, NEW plan \in Plans, ApplyFileSteps(d, plan) # Failed, NEW q \in Paths,
         ApplyFileSteps(d, plan)[q] # d[q]
  PROVE  MayChange(plan, d, q)
<1> DEFINE steps == plan.pipeline
           N == Len(steps)
           it == CHOOSE f : f = [n \in 0 .. N |-> IF n = 0 THEN d ELSE Applied(f[n - 1], steps[n])]
           Good(v) == v = Failed \/ (DOMAIN v = Paths /\ \A p \in Paths : v[p] = d[p] \/ MayChange(plan, d, p))
           G == {n \in 0 .. N : Good(it[n])}
<1>0. N \in Nat /\ \A n \in 1 .. N : steps[n] \in StepsOf(plan)
  <2>1. steps \in Seq(StepsOf(plan))
    BY PlannerAssumption
  <2> QED
    BY <2>1
<1>1. it = [n \in 0 .. N |-> IF n = 0 THEN d ELSE Applied(it[n - 1], steps[n])]
  <2> HIDE DEF N, steps
  <2>1. \E f : f = [n \in 0 .. N |-> IF n = 0 THEN d ELSE Applied(f[n - 1], steps[n])]
    BY <1>0, StepsRecursion DEF AppliesUpTo
  <2> QED
    BY <2>1
<1>2. \A n \in 0 .. N : it[n] = IF n = 0 THEN d ELSE Applied(it[n - 1], steps[n])
  <2> HIDE DEF it, N, steps
  <2> QED
    BY <1>1
<1> HIDE DEF it
<1>3. ASSUME NEW v, Good(v), NEW step \in StepsOf(plan) PROVE Good(Applied(v, step))
  <2> HIDE DEF steps, N, G
  <2>1. SUFFICES ASSUME v # Failed, ApplyStep(v, step) # Failed PROVE Good(ApplyStep(v, step))
    BY DEF Applied
  <2>2. DOMAIN v = Paths /\ \A p \in Paths : v[p] = d[p] \/ MayChange(plan, d, p)
    BY <1>3, <2>1
  <2>3. CASE step.action = "generate_tests"
    BY <1>3, <2>3 DEF ApplyStep
  <2>4. ASSUME NEW x, ApplyStep(v, step) = [v EXCEPT ![step.target] = x],
               step.action = "patch_file" \/ v[step.target] = Absent
        PROVE  Good(ApplyStep(v, step))
    <3>1. PICK w : w = [v EXCEPT ![step.target] = x]
      OBVIOUS
    <3>2. DOMAIN w = Paths /\ \A p \in Paths : p # step.target => w[p] = v[p]
      BY <2>2, <3>1
    <3>3. step.target \in Paths => MayChange(plan, d, step.target)
      BY <2>2, <2>4 DEF MayChange
    <3> QED
      BY <2>2, <2>4, <3>1, <3>2, <3>3
  <2>5. CASE step.action = "create_file"
    <3>1. v[step.target] = Absent /\ ApplyStep(v, step) = [v EXCEPT ![step.target] = step.patch.text]
      BY <2>1, <2>5 DEF ApplyStep
    <3> QED
      BY <2>4, <3>1
  <2>6. CASE step.action = "patch_file"
    <3>1. \E x : ApplyStep(v, step) = [v EXCEPT ![step.target] = x]
      BY <2>1, <2>6 DEF ApplyStep
    <3> QED
      BY <2>4, <2>6, <3>1
  <2>7. step.action \in {"generate_tests", "create_file", "patch_file"}
    BY <2>1 DEF ApplyStep
  <2> QED
    BY <2>3, <2>5, <2>6, <2>7
<1>4. 0 \in G
  <2>1. it[0] = d /\ 0 \in 0 .. N
    BY <1>0, <1>2
  <2>2. Good(d)
    BY DEF Disks
  <2> HIDE DEF Good
  <2> QED
    BY <2>1, <2>2
<1>5. ASSUME NEW n \in 1 .. N, n - 1 \in G PROVE n \in G
  <2>1. n \in 0 .. N /\ n # 0 /\ steps[n] \in StepsOf(plan)
    BY <1>0
  <2>2. it[n] = Applied(it[n - 1], steps[n]) /\ Good(it[n - 1])
    BY <1>2, <1>5, <2>1
  <2> HIDE DEF Good, steps, N
  <2> QED
    BY <1>3, <2>1, <2>2
<1>6. Good(it[N])
  <2>1. 0 .. N \subseteq G
    <3> HIDE DEF G, N
    <3> QED
      BY <1>0, <1>4, <1>5, UpToInduction
  <2> HIDE DEF Good, N
  <2> QED
    BY <1>0, <2>1
<1>7. ApplyFileSteps(d, plan) = it[N]
  <2>1. ~Has(plan, "sync_types")
    BY DEF ApplyFileSteps
  <2> QED
    BY <2>1 DEF ApplyFileSteps, Applied, it
<1> HIDE DEF N
<1> QED
  BY <1>6, <1>7

-----------------------------------------------------------------------------
(* Renaming the fields of one line keeps every one of them. *)

TokenKeeper == [f \in Tokens |-> KeptToken(f)]
LineKeeper == [l \in Seq(Tokens) |-> KeptOf(l)]

LEMMA NewNameType ==
  ASSUME NEW f \in Tokens
  PROVE  NewName(f) \in Tokens /\ KeptToken(NewName(f)) = KeptToken(f)
BY DEF NewName, Tokens, CallFields, TypeFields, KeptToken

LEMMA TokenKept == Maps(TokenKeeper, Tokens, Tokens)
<1>1. ASSUME NEW f \in Tokens PROVE KeptToken(f) \in Seq(Tokens)
  <2>1. NewName(f) \in Tokens
    BY NewNameType
  <2>2. <<>> \in Seq(Tokens) /\ <<NewName(f)>> \in Seq(Tokens)
    BY <2>1
  <2> QED
    BY <2>2 DEF KeptToken
<1> QED
  BY <1>1 DEF Maps, TokenKeeper

LEMMA KeptOfIs ==
  ASSUME NEW line \in Seq(Tokens)
  PROVE  KeptOf(line) = Joined(TokenKeeper, line) /\ KeptOf(line) \in Seq(Tokens)
<1>1. \A i \in DOMAIN line : line[i] \in Tokens
  OBVIOUS
<1>2. [i \in DOMAIN line |-> KeptToken(line[i])] = [i \in DOMAIN line |-> TokenKeeper[line[i]]]
  BY <1>1 DEF TokenKeeper
<1>3. KeptOf(line) = Joined(TokenKeeper, line)
  BY <1>2 DEF KeptOf, Joined, Images
<1>4. Joined(TokenKeeper, line) \in Seq(Tokens)
  BY TokenKept, JoinedType
<1> QED
  BY <1>3, <1>4

LEMMA LineKept == Maps(LineKeeper, Seq(Tokens), Tokens)
  BY KeptOfIs DEF Maps, LineKeeper

LEMMA KeptFieldsIs ==
  ASSUME NEW lines \in Seq(Seq(Tokens))
  PROVE  KeptFields(lines) = Joined(LineKeeper, lines)
<1>1. \A i \in DOMAIN lines : lines[i] \in Seq(Tokens)
  OBVIOUS
<1>2. [i \in DOMAIN lines |-> KeptOf(lines[i])] = [i \in DOMAIN lines |-> LineKeeper[lines[i]]]
  BY <1>1 DEF LineKeeper
<1> QED
  BY <1>2 DEF KeptFields, Joined, Images

\* What is kept of a text is kept of its parts, one behind the other.
LEMMA KeptConcat ==
  ASSUME NEW l1 \in Seq(Seq(Tokens)), NEW l2 \in Seq(Seq(Tokens))
  PROVE  /\ KeptFields(l1 \o l2) = KeptFields(l1) \o KeptFields(l2)
         /\ l1 \o l2 \in Seq(Seq(Tokens)) /\ KeptFields(l1) \in Seq(Tokens)
<1>1. l1 \o l2 \in Seq(Seq(Tokens))
  OBVIOUS
<1>2. Joined(LineKeeper, l1 \o l2) = Joined(LineKeeper, l1) \o Joined(LineKeeper, l2)
  BY LineKept, JoinedConcat
<1>3. Joined(LineKeeper, l1) \in Seq(Tokens)
  BY LineKept, JoinedType
<1> QED
  BY <1>1, <1>2, <1>3, KeptFieldsIs

LEMMA KeptOne ==
  ASSUME NEW line \in Seq(Tokens)
  PROVE  KeptFields(<<line>>) = KeptOf(line) /\ KeptFields(<<>>) = <<>>
<1>1. <<line>> \in Seq(Seq(Tokens)) /\ <<>> \in Seq(Seq(Tokens))
  OBVIOUS
<1>2. Joined(LineKeeper, <<line>>) = LineKeeper[line]
  BY LineKept, JoinedOne
<1>3. Joined(LineKeeper, <<>>) = <<>>
  BY JoinedEmpty
<1> QED
  BY <1>1, <1>2, <1>3, KeptFieldsIs DEF LineKeeper

\* Nothing is kept of a line of tags, or of a source field.
LEMMA NothingKept ==
  ASSUME NEW f \in {"tags", "source"} \cup TypeFields
  PROVE  <<f>> \in Seq(Tokens) /\ KeptOf(<<f>>) = <<>>
<1>1. f \in Tokens /\ KeptToken(f) = <<>>
  BY DEF Tokens, CallFields, TypeFields, KeptToken
<1>2. <<f>> \in Seq(Tokens)
  BY <1>1
<1>3. Joined(TokenKeeper, <<f>>) = TokenKeeper[f]
  BY <1>1, TokenKept, JoinedOne
<1> QED
  BY <1>1, <1>2, <1>3, KeptOfIs DEF TokenKeeper

-----------------------------------------------------------------------------
\* A line is rewritten by renaming fields of it.
Renames(line, new) ==
  /\ new \in Seq(Tokens) /\ Len(new) = Len(line)
  /\ \A i \in 1 .. Len(line) : new[i] = line[i] \/ new[i] = NewName(line[i])

FixedFields == Tokens \ {"headline", "message", "subject", "summary"}

LEMMA RenamesFix ==
  ASSUME NEW line \in Seq(Tokens), NEW new, Renames(line, new), NEW f \in FixedFields
  PROVE  /\ StartsWith(new, f) <=> StartsWith(line, f)
         /\ HasField(new, f) <=> HasField(line, f)
         /\ new = <<f>> <=> line = <<f>>
<1>1. \A i \in 1 .. Len(line) : new[i] = f <=> line[i] = f
  BY DEF Renames, FixedFields, NewName
<1>2. Len(line) \in Nat /\ Len(new) = Len(line) /\ new \in Seq(Tokens)
  BY DEF Renames
<1>3. HasField(new, f) <=> HasField(line, f)
  BY <1>1, <1>2 DEF HasField, Contains
<1>4. StartsWith(new, f) <=> StartsWith(line, f)
  <2>1. (line = <<>> <=> Len(line) = 0) /\ (new = <<>> <=> Len(new) = 0)
    BY <1>2
  <2>2. line # <<>> => Head(line) = line[1]
    OBVIOUS
  <2>3. new # <<>> => Head(new) = new[1]
    BY <1>2
  <2> QED
    BY <1>1, <1>2, <2>1, <2>2, <2>3 DEF StartsWith
<1>5. new = <<f>> <=> line = <<f>>
  <2>1. ASSUME NEW l \in Seq(Tokens) PROVE l = <<f>> <=> Len(l) = 1 /\ l[1] = f
    <3>1. f \in Tokens /\ <<f>> \in Seq(Tokens) /\ Len(<<f>>) = 1
      BY DEF FixedFields
    <3>2. ASSUME Len(l) = 1, l[1] = f PROVE l = <<f>>
      BY <3>1, <3>2, SeqEqual
    <3> QED
      BY <3>2
  <2>2. line = <<f>> <=> Len(line) = 1 /\ line[1] = f
    BY <2>1
  <2>3. new = <<f>> <=> Len(new) = 1 /\ new[1] = f
    BY <2>1, <1>2
  <2>4. Len(line) = 1 => (new[1] = f <=> line[1] = f)
    <3>1. Len(line) = 1 => 1 \in 1 .. Len(line)
      BY <1>2
    <3> QED
      BY <3>1, <1>1
  <2> QED
    BY <1>2, <2>2, <2>3, <2>4
<1> QED
  BY <1>3, <1>4, <1>5

LEMMA RenamesKeep ==
  ASSUME NEW line \in Seq(Tokens), NEW new, Renames(line, new)
  PROVE  KeptOf(new) = KeptOf(line)
<1>1. DOMAIN new = DOMAIN line /\ DOMAIN line = 1 .. Len(line)
  BY DEF Renames
<1>2. \A i \in DOMAIN line : KeptToken(new[i]) = KeptToken(line[i])
  BY <1>1, NewNameType DEF Renames
<1>3. [i \in DOMAIN new |-> KeptToken(new[i])] = [i \in DOMAIN line |-> KeptToken(line[i])]
  BY <1>1, <1>2
<1> QED
  BY <1>3 DEF KeptOf

LEMMA RenamesPlain ==
  ASSUME NEW lang, NEW line \in Seq(Tokens), NEW new, Renames(line, new), PlainLine(lang, line)
  PROVE  PlainLine(lang, new)
<1>1. {"tags", "source", "meta", "corr"} \cup TypeFields \subseteq FixedFields
  BY DEF FixedFields, TypeFields, Tokens, CallFields
<1>2. FieldAlone(lang, new)
  <2>1. \A f \in {"tags", "source"} :
          /\ StartsWith(new, f) <=> StartsWith(line, f)
          /\ HasField(new, f) <=> HasField(line, f)
          /\ new = <<f>> <=> line = <<f>>
    BY <1>1, RenamesFix
  <2> QED
    BY <2>1 DEF PlainLine, FieldAlone
<1>3. ~InsertsAmid(lang, new)
  <2>1. (StartsWith(new, "meta") <=> StartsWith(line, "meta")) /\ (HasField(new, "corr") <=> HasField(line, "corr"))
    BY <1>1, RenamesFix
  <2> QED
    BY <2>1 DEF PlainLine, InsertsAmid
<1>4. \A f \in TypeFields : HasField(new, f) => new = <<f>>
  <2>1. \A f \in TypeFields : (HasField(new, f) <=> HasField(line, f)) /\ (new = <<f>> <=> line = <<f>>)
    BY <1>1, RenamesFix
  <2> QED
    BY <2>1 DEF PlainLine
<1> QED
  BY <1>2, <1>3, <1>4 DEF PlainLine

\* A plain line that is not dropped is renamed, or is the source field.
LEMMA RewrittenRenames ==
  ASSUME NEW lang, NEW line \in Seq(Tokens), PlainLine(lang, line), ~StartsWith(line, "tags")
  PROVE  Renames(line, Rewritten(lang, line))
<1>0. Len(line) \in Nat /\ \A i \in 1 .. Len(line) : line[i] \in Tokens /\ NewName(line[i]) \in Tokens
  BY NewNameType
<1>1. CASE HasSource(lang, line)
  <2>1. line = <<"source">>
    BY <1>1 DEF HasSource, PlainLine, FieldAlone
  <2>2. Rewritten(lang, line) = line
    BY <1>1, <2>1 DEF Rewritten
  <2> QED
    BY <2>2 DEF Renames
<1>2. CASE ~HasSource(lang, line) /\ Anywhere(lang)
  <2>1. ~HasField(line, "tags")
    <3>1. <<"tags">> # <<>> /\ Head(<<"tags">>) = "tags"
      OBVIOUS
    <3> QED
      BY <1>2, <3>1 DEF PlainLine, FieldAlone, StartsWith
  <2>2. TagsStripped(line) = line
    BY <2>1 DEF TagsStripped
  <2>3. Rewritten(lang, line) = [i \in DOMAIN line |-> NewName(line[i])]
    BY <1>2, <2>2 DEF Rewritten
  <2>4. Rewritten(lang, line) \in Seq(Tokens) /\ Len(Rewritten(lang, line)) = Len(line)
    <3>1. [i \in 1 .. Len(line) |-> NewName(line[i])] \in [1 .. Len(line) -> Tokens]
      BY <1>0
    <3> QED
      BY <1>0, <2>3, <3>1
  <2> QED
    BY <1>0, <2>3, <2>4 DEF Renames
<1>3. CASE ~HasSource(lang, line) /\ ~Anywhere(lang)
  <2>1. CASE line = <<>>
    BY <1>3, <2>1 DEF Rewritten, Renames
  <2>2. CASE line # <<>>
    <3>1. Rewritten(lang, line) = [line EXCEPT ![1] = NewName(line[1])]
      BY <1>3, <2>2 DEF Rewritten
    <3>2. 1 \in 1 .. Len(line) /\ NewName(line[1]) \in Tokens
      BY <1>0, <2>2
    <3>3. Rewritten(lang, line) \in Seq(Tokens) /\ Len(Rewritten(lang, line)) = Len(line)
          /\ \A i \in 1 .. Len(line) : Rewritten(lang, line)[i] = IF i = 1 THEN NewName(line[1]) ELSE line[i]
      BY <3>1, <3>2, ExceptSeq
    <3> QED
      BY <1>0, <3>3 DEF Renames
  <2> QED
    BY <2>1, <2>2
<1> QED
  BY <1>1, <1>2, <1>3

-----------------------------------------------------------------------------
(* One line migrated to another: what is picked out, inserted and kept. *)

\* What is picked has the type of what stands at those positions.
LEMMA PickedType ==
  ASSUME NEW S, NEW T, NEW s \in Seq(S), NEW positions,
         \A i \in DOMAIN s : i \in positions => s[i] \in T
  PROVE  Picked(s, positions) \in Seq(T)
<1> DEFINE parts == [i \in DOMAIN s |-> IF i \in positions THEN <<s[i]>> ELSE <<>>]
<1>1. \A i \in DOMAIN s : parts[i] \in Seq(T)
  <2>1. \A i \in DOMAIN s : i \in positions => <<s[i]>> \in Seq(T)
    OBVIOUS
  <2>2. <<>> \in Seq(T)
    OBVIOUS
  <2> QED
    BY <2>1, <2>2
<1>2. parts \in Seq(Seq(T))
  <2>1. DOMAIN s = 1 .. Len(s) /\ Len(s) \in Nat
    OBVIOUS
  <2>2. parts \in [1 .. Len(s) -> Seq(T)]
    BY <1>1, <2>1
  <2> HIDE DEF parts
  <2> QED
    BY <2>1, <2>2
<1>3. FlattenSeq(parts) \in Seq(T)
  BY <1>2, FlattenType
<1> QED
  BY <1>3 DEF Picked

\* What is joined of the elements picked.
LEMMA PickedJoined ==
  ASSUME NEW S, NEW T, NEW k, Maps(k, S, T), NEW s \in Seq(S), NEW positions
  PROVE  Joined(k, Picked(s, positions))
           = FlattenSeq([i \in DOMAIN s |-> IF i \in positions THEN k[s[i]] ELSE <<>>])
<1> DEFINE parts == [i \in DOMAIN s |-> IF i \in positions THEN <<s[i]>> ELSE <<>>]
<1>1. \A i \in DOMAIN s : parts[i] \in Seq(S)
  <2>1. \A i \in DOMAIN s : <<s[i]>> \in Seq(S)
    OBVIOUS
  <2>2. <<>> \in Seq(S)
    OBVIOUS
  <2> QED
    BY <2>1, <2>2
<1>2. parts \in Seq(Seq(S)) /\ DOMAIN parts = DOMAIN s
  <2>1. DOMAIN s = 1 .. Len(s) /\ Len(s) \in Nat
    OBVIOUS
  <2>2. parts \in [1 .. Len(s) -> Seq(S)]
    BY <1>1, <2>1
  <2>3. DOMAIN parts = DOMAIN s
    OBVIOUS
  <2> HIDE DEF parts
  <2> QED
    BY <2>1, <2>2, <2>3
<1>3. ASSUME NEW i \in DOMAIN s
      PROVE  Joined(k, parts[i]) = IF i \in positions THEN k[s[i]] ELSE <<>>
  <2>1. s[i] \in S
    OBVIOUS
  <2>2. Joined(k, <<s[i]>>) = k[s[i]]
    BY <2>1, JoinedOne
  <2>3. Joined(k, <<>>) = <<>>
    BY JoinedEmpty
  <2> QED
    BY <2>2, <2>3
<1>4. [i \in DOMAIN parts |-> Joined(k, parts[i])]
        = [i \in DOMAIN s |-> IF i \in positions THEN k[s[i]] ELSE <<>>]
  BY <1>2, <1>3
<1>5. Joined(k, FlattenSeq(parts)) = FlattenSeq([i \in DOMAIN parts |-> Joined(k, parts[i])])
  <2> HIDE DEF parts
  <2> QED
    BY <1>2, JoinedFlatten
<1> QED
  BY <1>4, <1>5 DEF Picked

LEMMA MinOf ==
  ASSUME NEW I, I \subseteq Nat, I # {}
  PROVE  Min(I) \in I /\ \A i \in I : Min(I) <= i
<1>1. \E m \in I : \A i \in I : m <= i
  BY LeastNat
<1> QED
  BY <1>1 DEF Min

LEMMA RewrittenType ==
  ASSUME NEW lang, NEW line \in Seq(Tokens)
  PROVE  Rewritten(lang, line) \in Seq(Tokens)
<1>0. \A f \in Tokens : NewName(f) \in Tokens
  BY NewNameType
<1>1. TagsStripped(line) \in Seq(Tokens)
  <2>1. \A positions : Picked(line, positions) \in Seq(Tokens)
    BY PickedType
  <2> QED
    BY <2>1 DEF TagsStripped
<1>2. <<"source">> \in Seq(Tokens)
  BY NothingKept
<1>3. \A t \in Seq(Tokens) : [i \in DOMAIN t |-> NewName(t[i])] \in Seq(Tokens)
  BY <1>0
<1>4. line # <<>> => [line EXCEPT ![1] = NewName(line[1])] \in Seq(Tokens)
  <2>1. ASSUME line # <<>> PROVE 1 \in 1 .. Len(line) /\ NewName(line[1]) \in Tokens
    BY <1>0, <2>1
  <2> QED
    BY <2>1, ExceptSeq
<1> QED
  BY <1>1, <1>2, <1>3, <1>4 DEF Rewritten

Migrating == [out : Seq(Seq(Tokens)), has : BOOLEAN, changed : BOOLEAN]


LEMMA InsertAmidType ==
  ASSUME NEW new \in Seq(Tokens), HasField(new, "corr")
  PROVE  InsertAt(new, SelectInSeq(new, LAMBDA f : f = "corr"), "source") \in Seq(Tokens)
<1> DEFINE I == {i \in 1 .. Len(new) : new[i] = "corr"}
<1>1. I \subseteq Nat /\ I # {}
  BY DEF HasField, Contains
<1>2. Min(I) \in 1 .. Len(new)
  BY <1>1, MinOf
<1>3. SelectInSeq(new, LAMBDA f : f = "corr") = Min(I)
  BY <1>1 DEF SelectInSeq
<1>4. "source" \in Tokens
  BY DEF Tokens, CallFields
<1>5. ASSUME NEW m \in 1 .. Len(new) PROVE InsertAt(new, m, "source") \in Seq(Tokens)
  <2>1. SubSeq(new, 1, m - 1) \in Seq(Tokens)
    BY SubSeqProperties
  <2>2. SubSeq(new, m, Len(new)) \in Seq(Tokens)
    BY SubSeqProperties
  <2>3. <<"source">> \in Seq(Tokens)
    BY <1>4
  <2> QED
    BY <2>1, <2>2, <2>3 DEF InsertAt
<1> QED
  BY <1>2, <1>3, <1>5

LEMMA MigrateLineType ==
  ASSUME NEW lang, NEW s \in Migrating, NEW line \in Seq(Tokens)
  PROVE  MigrateLine(lang, s, line) \in Migrating
<1> DEFINE new == Rewritten(lang, line)
           amid == InsertAt(new, SelectInSeq(new, LAMBDA f : f = "corr"), "source")
<1>1. new \in Seq(Tokens) /\ <<"source">> \in Seq(Tokens)
  BY RewrittenType, NothingKept
<1>2. InsertsAmid(lang, new) => amid \in Seq(Tokens)
  BY <1>1, InsertAmidType DEF InsertsAmid
<1>3. <<line, <<"source">>>> \in Seq(Seq(Tokens)) /\ <<<<"source">>, new>> \in Seq(Seq(Tokens))
      /\ <<new>> \in Seq(Seq(Tokens)) /\ (InsertsAmid(lang, new) => <<amid>> \in Seq(Seq(Tokens)))
  BY <1>1, <1>2
<1> HIDE DEF new, amid
<1> DEFINE has == s.has \/ (lang # "rs" /\ HasSource(lang, line))
           adds == ~has /\ (InsertsBelow(lang, line) \/ InsertsAmid(lang, new) \/ InsertsAbove(line))
           with == IF InsertsBelow(lang, line) THEN <<line, <<"source">>>>
                   ELSE IF InsertsAbove(line) THEN <<<<"source">>, new>> ELSE <<amid>>
           lines == IF adds THEN with ELSE <<new>>
<1>4. lines \in Seq(Seq(Tokens))
  BY <1>3
<1>5. s.out \in Seq(Seq(Tokens)) /\ s.has \in BOOLEAN /\ s.changed \in BOOLEAN
  BY DEF Migrating
<1>6. s.out \o lines \in Seq(Seq(Tokens))
  BY <1>4, <1>5
<1>7. [s EXCEPT !.changed = TRUE] \in Migrating
  BY DEF Migrating
<1>8. has \in BOOLEAN /\ adds \in BOOLEAN
  BY <1>5 DEF HasSource, HasField, StartsWith, Contains, InsertsBelow, InsertsAmid, InsertsAbove
<1>9. ~StartsWith(line, "tags") => MigrateLine(lang, s, line)
        = [out |-> s.out \o lines, has |-> has \/ (adds /\ lang # "rs"),
           changed |-> s.changed \/ adds \/ new # line \/ HasSource(lang, line)
                        \/ (Anywhere(lang) /\ HasField(line, "tags"))]
  BY DEF MigrateLine, new, amid
<1>10. HasSource(lang, line) \in BOOLEAN /\ (Anywhere(lang) /\ HasField(line, "tags")) \in BOOLEAN
  BY DEF HasSource, HasField, StartsWith, Contains
<1>11. StartsWith(line, "tags") => MigrateLine(lang, s, line) = [s EXCEPT !.changed = TRUE]
  BY DEF MigrateLine
<1> HIDE DEF lines, has, adds, with
<1>12. CASE StartsWith(line, "tags")
  BY <1>7, <1>11, <1>12
<1>13. CASE ~StartsWith(line, "tags")
  <2> DEFINE b == has \/ (adds /\ lang # "rs")
             c == s.changed \/ adds \/ new # line \/ HasSource(lang, line)
                    \/ (Anywhere(lang) /\ HasField(line, "tags"))
  <2>1. b \in BOOLEAN /\ c \in BOOLEAN
    OBVIOUS
  <2>2. MigrateLine(lang, s, line) = [out |-> s.out \o lines, has |-> b, changed |-> c]
    BY <1>9, <1>13
  <2> HIDE DEF b, c
  <2> QED
    BY <1>6, <2>1, <2>2 DEF Migrating
<1> QED
  BY <1>12, <1>13

LEMMA PlainSource == ASSUME NEW lang PROVE PlainLine(lang, <<"source">>)
<1>1. <<"source">> \in Seq(Tokens) /\ <<"source">> # <<>> /\ Head(<<"source">>) = "source"
  <2>1. <<"source">> \in Seq(Tokens)
    BY NothingKept
  <2> QED
    BY <2>1
<1>2. \A f : HasField(<<"source">>, f) <=> f = "source"
  BY DEF HasField, Contains
<1> QED
  BY <1>1, <1>2 DEF PlainLine, FieldAlone, StartsWith, InsertsAmid, TypeFields

LEMMA PlainParts ==
  ASSUME NEW lang, NEW a \in Seq(Seq(Tokens)), NEW b \in Seq(Seq(Tokens)), Plain(lang, a), Plain(lang, b)
  PROVE  Plain(lang, a \o b)
<1>1. \A i \in DOMAIN (a \o b) :
        (i \in DOMAIN a /\ (a \o b)[i] = a[i]) \/ (i - Len(a) \in DOMAIN b /\ (a \o b)[i] = b[i - Len(a)])
  OBVIOUS
<1> QED
  BY <1>1 DEF Plain

LEMMA PlainOne ==
  ASSUME NEW lang, NEW line \in Seq(Tokens), PlainLine(lang, line)
  PROVE  Plain(lang, <<line>>) /\ <<line>> \in Seq(Seq(Tokens))
BY DEF Plain

\* The lines that a plain line becomes keep its fields, and are plain.
LEMMA MigrateLineKeeps ==
  ASSUME NEW lang, NEW s \in Migrating, NEW line \in Seq(Tokens), PlainLine(lang, line)
  PROVE  \E lines \in Seq(Seq(Tokens)) :
           /\ MigrateLine(lang, s, line).out = s.out \o lines
           /\ Plain(lang, lines) /\ KeptFields(lines) = KeptOf(line)
<1>0. s.out \in Seq(Seq(Tokens))
  BY DEF Migrating
<1>1. CASE StartsWith(line, "tags")
  <2>1. line = <<"tags">>
    BY <1>1 DEF PlainLine, FieldAlone
  <2>2. KeptOf(line) = <<>> /\ KeptFields(<<>>) = <<>>
    BY <2>1, NothingKept, KeptOne
  <2>3. MigrateLine(lang, s, line).out = s.out
    BY <1>1 DEF MigrateLine, Migrating
  <2>4. <<>> \in Seq(Seq(Tokens)) /\ s.out \o <<>> = s.out /\ Plain(lang, <<>>)
    BY <1>0 DEF Plain
  <2> QED
    BY <2>2, <2>3, <2>4
<1>2. CASE ~StartsWith(line, "tags")
  <2> DEFINE new == Rewritten(lang, line)
             source == <<"source">>
  <2>1. Renames(line, new)
    BY <1>2, RewrittenRenames
  <2>2. PlainLine(lang, new) /\ KeptOf(new) = KeptOf(line) /\ new \in Seq(Tokens)
    BY <2>1, RenamesPlain, RenamesKeep DEF Renames
  <2>3. ~InsertsAmid(lang, new)
    BY <2>2 DEF PlainLine
  <2>4. MigrateLine(lang, s, line).out \in {s.out \o <<new>>, s.out \o <<line, source>>, s.out \o <<source, new>>}
    <3> HIDE DEF new
    <3>1. ~StartsWith(line, "tags") => MigrateLine(lang, s, line).out
            = s.out \o IF ~(s.has \/ (lang # "rs" /\ HasSource(lang, line)))
                          /\ (InsertsBelow(lang, line) \/ InsertsAmid(lang, new) \/ InsertsAbove(line))
                       THEN (IF InsertsBelow(lang, line) THEN <<line, source>>
                             ELSE IF InsertsAbove(line) THEN <<source, new>>
                             ELSE <<InsertAt(new, SelectInSeq(new, LAMBDA f : f = "corr"), "source")>>)
                       ELSE <<new>>
      BY DEF MigrateLine, new
    <3> QED
      BY <1>2, <2>3, <3>1
  <2>5. source \in Seq(Tokens) /\ KeptOf(source) = <<>> /\ PlainLine(lang, source)
    BY NothingKept, PlainSource
  <2> HIDE DEF new, source
  <2>6. /\ <<new>> \in Seq(Seq(Tokens)) /\ <<line>> \in Seq(Seq(Tokens)) /\ <<source>> \in Seq(Seq(Tokens))
        /\ KeptFields(<<new>>) = KeptOf(line) /\ KeptFields(<<line>>) = KeptOf(line) /\ KeptFields(<<source>>) = <<>>
        /\ Plain(lang, <<new>>) /\ Plain(lang, <<line>>) /\ Plain(lang, <<source>>)
    BY <2>2, <2>5, KeptOne, PlainOne
  <2>7. <<line, source>> = <<line>> \o <<source>> /\ <<source, new>> = <<source>> \o <<new>>
    OBVIOUS
  <2>8. KeptOf(line) \o <<>> = KeptOf(line) /\ <<>> \o KeptOf(line) = KeptOf(line)
    <3>1. KeptOf(line) \in Seq(Tokens)
      BY KeptOfIs
    <3> QED
      BY <3>1
  <2>9. /\ <<line, source>> \in Seq(Seq(Tokens)) /\ KeptFields(<<line, source>>) = KeptOf(line)
        /\ Plain(lang, <<line, source>>)
    <3>1. KeptFields(<<line>> \o <<source>>) = KeptFields(<<line>>) \o KeptFields(<<source>>)
          /\ <<line>> \o <<source>> \in Seq(Seq(Tokens))
      BY <2>6, KeptConcat
    <3>2. Plain(lang, <<line>> \o <<source>>)
      BY <2>6, PlainParts
    <3> QED
      BY <2>6, <2>7, <2>8, <3>1, <3>2
  <2>10. /\ <<source, new>> \in Seq(Seq(Tokens)) /\ KeptFields(<<source, new>>) = KeptOf(line)
         /\ Plain(lang, <<source, new>>)
    <3>1. KeptFields(<<source>> \o <<new>>) = KeptFields(<<source>>) \o KeptFields(<<new>>)
          /\ <<source>> \o <<new>> \in Seq(Seq(Tokens))
      BY <2>6, KeptConcat
    <3>2. Plain(lang, <<source>> \o <<new>>)
      BY <2>6, PlainParts
    <3> QED
      BY <2>6, <2>7, <2>8, <3>1, <3>2
  <2> QED
    BY <2>4, <2>6, <2>9, <2>10
<1> QED
  BY <1>1, <1>2

-----------------------------------------------------------------------------
(* A snippet migrated line by line. *)

\* The lines of a snippet are migrated one after another.
MigratesTo(F, lang, snippet) ==
  /\ F[0].out = <<>>
  /\ \A n \in 1 .. Len(snippet) : F[n] = MigrateLine(lang, F[n - 1], snippet[n])

LEMMA MigratedIs ==
  ASSUME NEW lang, NEW inTree, NEW snippet \in Seq(Seq(Tokens))
  PROVE  \E F \in [0 .. Len(snippet) -> Migrating] :
           /\ MigratesTo(F, lang, snippet)
           /\ Migrated(lang, inTree, snippet) \subseteq {F[Len(snippet)].out}
<1> DEFINE N == Len(snippet)
           base == [out |-> <<>>, has |-> SomeLine(snippet, "source"), changed |-> FALSE]
           step == [n \in 1 .. N |-> [s \in Migrating |-> MigrateLine(lang, s, snippet[n])]]
           Is(f) == f = [n \in 0 .. N |-> IF n = 0 THEN base ELSE MigrateLine(lang, f[n - 1], snippet[n])]
           it == CHOOSE f : Is(f)
<1>0. N \in Nat /\ \A n \in 1 .. N : snippet[n] \in Seq(Tokens)
  OBVIOUS
<1>1. base \in Migrating /\ base.out = <<>>
  BY DEF Migrating, SomeLine
<1>2. step \in [1 .. N -> [Migrating -> Migrating]]
  BY <1>0, MigrateLineType
<1>3. PICK w \in [0 .. N -> Migrating] : Solves(w, N, base, step)
  <2> HIDE DEF step, N, base
  <2> QED
    BY <1>0, <1>1, <1>2, Recursion
<1>4. w[0] = base /\ \A n \in 1 .. N : w[n] = MigrateLine(lang, w[n - 1], snippet[n])
  <2>1. w[0] = base /\ \A n \in 1 .. N : w[n] = step[n][w[n - 1]]
    BY <1>3 DEF Solves
  <2>2. ASSUME NEW n \in 1 .. N PROVE w[n - 1] \in Migrating
    <3>1. n - 1 \in 0 .. N
      BY <1>0
    <3> HIDE DEF N
    <3> QED
      BY <3>1
  <2> QED
    BY <2>1, <2>2
<1>5. Is(w)
  <2> DEFINE v == [n \in 0 .. N |-> IF n = 0 THEN base ELSE MigrateLine(lang, w[n - 1], snippet[n])]
  <2>1. \A n \in 0 .. N : w[n] = v[n]
    <3>1. \A n \in 0 .. N : n = 0 \/ n \in 1 .. N
      BY <1>0
    <3> HIDE DEF base, N
    <3> QED
      BY <1>4, <3>1
  <2>2. w = v
    <3> HIDE DEF base, N
    <3> QED
      BY <2>1
  <2> QED
    BY <2>2
<1>6. Is(it)
  <2> HIDE DEF Is
  <2> QED
    BY <1>5
<1>7. it[0] = base /\ \A n \in 1 .. N : it[n] = MigrateLine(lang, it[n - 1], snippet[n])
  <2>1. \A n \in 0 .. N : it[n] = IF n = 0 THEN base ELSE MigrateLine(lang, it[n - 1], snippet[n])
    <3> HIDE DEF it, base, N
    <3> QED
      BY <1>6
  <2> HIDE DEF it, base, N
  <2>2. 0 \in 0 .. N /\ \A n \in 1 .. N : n \in 0 .. N /\ n # 0
    BY <1>0
  <2> QED
    BY <2>1, <2>2
<1>8. it \in [0 .. N -> Migrating]
  <2> DEFINE G == {n \in 0 .. N : it[n] \in Migrating}
  <2>1. 0 \in G
    <3> HIDE DEF it, base, N
    <3> QED
      BY <1>0, <1>1, <1>7
  <2>2. ASSUME NEW n \in 1 .. N, n - 1 \in G PROVE n \in G
    <3> HIDE DEF it, base
    <3>1. it[n - 1] \in Migrating /\ snippet[n] \in Seq(Tokens)
      BY <1>0, <2>2
    <3>2. it[n] \in Migrating
      BY <1>7, <3>1, MigrateLineType
    <3> QED
      BY <1>0, <3>2
  <2>3. 0 .. N \subseteq G
    <3> HIDE DEF G, N
    <3> QED
      BY <1>0, <2>1, <2>2, UpToInduction
  <2>4. it = [n \in 0 .. N |-> it[n]]
    <3>1. it = [n \in 0 .. N |-> IF n = 0 THEN base ELSE MigrateLine(lang, it[n - 1], snippet[n])]
      <4> HIDE DEF it, base, N
      <4> QED
        BY <1>6
    <3> HIDE DEF it, base, N
    <3> QED
      BY <3>1
  <2> HIDE DEF it, base, N
  <2> QED
    BY <2>3, <2>4
<1>9. Migrated(lang, inTree, snippet) \subseteq {it[N].out}
  BY DEF Migrated
<1> HIDE DEF it, N, base
<1> QED
  BY <1>1, <1>7, <1>8, <1>9 DEF MigratesTo, N

LEMMA MigratedType ==
  ASSUME NEW lang, NEW inTree, NEW snippet \in Seq(Seq(Tokens)), NEW new \in Migrated(lang, inTree, snippet)
  PROVE  new \in Seq(Seq(Tokens))
<1>1. PICK F \in [0 .. Len(snippet) -> Migrating] : Migrated(lang, inTree, snippet) \subseteq {F[Len(snippet)].out}
  BY MigratedIs
<1>2. Len(snippet) \in Nat
  OBVIOUS
<1> QED
  BY <1>1, <1>2 DEF Migrating

\* The codemod of a plain snippet keeps its fields, and it plain.
LEMMA MigratedKeeps ==
  ASSUME NEW lang, NEW inTree, NEW snippet \in Seq(Seq(Tokens)), Plain(lang, snippet),
         NEW new \in Migrated(lang, inTree, snippet)
  PROVE  Plain(lang, new) /\ KeptFields(new) = KeptFields(snippet)
<1>1. PICK F \in [0 .. Len(snippet) -> Migrating] :
        /\ MigratesTo(F, lang, snippet)
        /\ Migrated(lang, inTree, snippet) \subseteq {F[Len(snippet)].out}
  BY MigratedIs
<1> DEFINE N == Len(snippet)
           until(n) == SubSeq(snippet, 1, n)
           G == {n \in 0 .. N : Plain(lang, F[n].out) /\ KeptFields(F[n].out) = KeptFields(until(n))}
<1>2. N \in Nat /\ \A n \in 1 .. N : snippet[n] \in Seq(Tokens) /\ PlainLine(lang, snippet[n])
  BY DEF Plain
<1>3. 0 \in G
  <2>1. until(0) = <<>> /\ F[0].out = <<>>
    BY <1>1, SubSeqEmpty DEF MigratesTo
  <2>2. Plain(lang, <<>>)
    BY DEF Plain
  <2> QED
    BY <1>2, <2>1, <2>2
<1>4. ASSUME NEW n \in 1 .. N, n - 1 \in G PROVE n \in G
  <2>1. F[n - 1] \in Migrating /\ F[n - 1].out \in Seq(Seq(Tokens))
    <3>1. n - 1 \in 0 .. N
      BY <1>2
    <3> QED
      BY <3>1 DEF Migrating
  <2>2. snippet[n] \in Seq(Tokens) /\ PlainLine(lang, snippet[n])
    BY <1>2
  <2>3. PICK lines \in Seq(Seq(Tokens)) :
          /\ MigrateLine(lang, F[n - 1], snippet[n]).out = F[n - 1].out \o lines
          /\ Plain(lang, lines) /\ KeptFields(lines) = KeptOf(snippet[n])
    BY <2>1, <2>2, MigrateLineKeeps
  <2>4. F[n].out = F[n - 1].out \o lines
    BY <1>1, <2>3 DEF MigratesTo
  <2>5. Plain(lang, F[n - 1].out) /\ KeptFields(F[n - 1].out) = KeptFields(until(n - 1))
    BY <1>4
  <2>6. Plain(lang, F[n].out)
    BY <2>1, <2>3, <2>4, <2>5, PlainParts
  <2>7. until(n) = until(n - 1) \o <<snippet[n]>>
    BY <1>2, SubSeqRecursiveSecond
  <2>8. until(n - 1) \in Seq(Seq(Tokens)) /\ <<snippet[n]>> \in Seq(Seq(Tokens))
    <3>1. \A i \in 1 .. n - 1 : snippet[i] \in Seq(Tokens)
      BY <1>2
    <3>2. 1 \in Int /\ n - 1 \in Int
      BY <1>2
    <3>3. SubSeq(snippet, 1, n - 1) \in Seq(Seq(Tokens))
      BY <3>1, <3>2, SubSeqProperties
    <3> QED
      BY <2>2, <3>3
  <2>9. KeptFields(until(n)) = KeptFields(until(n - 1)) \o KeptOf(snippet[n])
    <3> HIDE DEF until
    <3>1. KeptFields(until(n - 1) \o <<snippet[n]>>) = KeptFields(until(n - 1)) \o KeptFields(<<snippet[n]>>)
      BY <2>8, KeptConcat
    <3>2. KeptFields(<<snippet[n]>>) = KeptOf(snippet[n])
      BY <2>2, KeptOne
    <3> QED
      BY <2>7, <3>1, <3>2
  <2>10. KeptFields(F[n].out) = KeptFields(F[n - 1].out) \o KeptOf(snippet[n])
    <3>1. PICK done \in Seq(Seq(Tokens)) : done = F[n - 1].out
      BY <2>1
    <3>2. KeptFields(done \o lines) = KeptFields(done) \o KeptFields(lines)
      BY KeptConcat
    <3> QED
      BY <2>3, <2>4, <3>1, <3>2
  <2>11. n \in 0 .. N /\ KeptFields(F[n].out) = KeptFields(until(n))
    <3> HIDE DEF until, N
    <3> QED
      BY <1>2, <2>5, <2>9, <2>10
  <2> HIDE DEF until, N
  <2> QED
    BY <2>6, <2>11
<1>5. N \in G
  <2> HIDE DEF G, N
  <2>1. 0 .. N \subseteq G
    BY <1>2, <1>3, <1>4, UpToInduction
  <2> QED
    BY <1>2, <2>1
<1>6. new = F[N].out /\ until(N) = snippet
  BY <1>1, SubSeqFull
<1> HIDE DEF until
<1> QED
  BY <1>5, <1>6

LEMMA SeqOfMap ==
  ASSUME NEW S, NEW n \in Nat, NEW f \in [1 .. n -> S]
  PROVE  f \in Seq(S) /\ DOMAIN f = 1 .. n
OBVIOUS

\* What every snippet keeps.
SnippetsKeepFields ==
  \A lang, inTree : \A snippet \in Seq(Seq(Tokens)) :
    Plain(lang, snippet) =>
      \A new \in Migrated(lang, inTree, snippet) : Plain(lang, new) /\ KeptFields(new) = KeptFields(snippet)

\* A plain log type keeps its fields too.
LEMMA NewDeclarationKept ==
  ASSUME NEW f \in Tokens
  PROVE  /\ NewDeclaration(f) \in Tokens /\ KeptToken(NewDeclaration(f)) = KeptToken(f)
         /\ NewDeclaration(f) # f => f \in TypeFields
BY DEF NewDeclaration, Tokens, CallFields, TypeFields, KeptToken, NewName

LEMMA TypeMigratedType ==
  ASSUME NEW lines \in Seq(Seq(Tokens))
  PROVE  TypeMigrated(lines) \in Seq(Seq(Tokens))
<1> DEFINE renamed == [i \in DOMAIN lines |-> [j \in DOMAIN lines[i] |-> NewDeclaration(lines[i][j])]]
<1>1. DOMAIN lines = 1 .. Len(lines) /\ Len(lines) \in Nat
  OBVIOUS
<1>2. ASSUME NEW i \in DOMAIN lines PROVE renamed[i] \in Seq(Tokens)
  <2>1. lines[i] \in Seq(Tokens)
    OBVIOUS
  <2>2. [j \in 1 .. Len(lines[i]) |-> NewDeclaration(lines[i][j])] \in [1 .. Len(lines[i]) -> Tokens]
    BY <2>1, NewDeclarationKept
  <2>3. renamed[i] = [j \in 1 .. Len(lines[i]) |-> NewDeclaration(lines[i][j])] /\ Len(lines[i]) \in Nat
    BY <2>1
  <2> QED
    BY <2>2, <2>3
<1>3. renamed \in Seq(Seq(Tokens))
  <2>1. renamed \in [1 .. Len(lines) -> Seq(Tokens)]
    BY <1>1, <1>2
  <2> HIDE DEF renamed
  <2> QED
    BY <1>1, <2>1, SeqOfMap
<1> HIDE DEF renamed
<1>4. \A positions : Picked(renamed, positions) \in Seq(Seq(Tokens))
  <2>1. \A i \in DOMAIN renamed : renamed[i] \in Seq(Tokens)
    BY <1>3
  <2> QED
    BY <1>3, <2>1, PickedType
<1> QED
  BY <1>4 DEF TypeMigrated, renamed

LEMMA TypeMigratedKeeps ==
  ASSUME NEW lang, NEW lines \in Seq(Seq(Tokens)), Plain(lang, lines)
  PROVE  KeptFields(TypeMigrated(lines)) = KeptFields(lines)
<1> DEFINE renamed == [i \in DOMAIN lines |-> [j \in DOMAIN lines[i] |-> NewDeclaration(lines[i][j])]]
           stays == {i \in DOMAIN lines : ~Superseded(lines, lines[i])}
<1>1. DOMAIN lines = 1 .. Len(lines) /\ Len(lines) \in Nat
  OBVIOUS
<1>2. ASSUME NEW i \in DOMAIN lines
      PROVE  renamed[i] \in Seq(Tokens) /\ KeptOf(renamed[i]) = KeptOf(lines[i])
  <2>1. lines[i] \in Seq(Tokens)
    OBVIOUS
  <2>2. [j \in 1 .. Len(lines[i]) |-> NewDeclaration(lines[i][j])] \in [1 .. Len(lines[i]) -> Tokens]
    BY <2>1, NewDeclarationKept
  <2>3. renamed[i] = [j \in 1 .. Len(lines[i]) |-> NewDeclaration(lines[i][j])] /\ Len(lines[i]) \in Nat
    BY <2>1
  <2>4. \A j \in DOMAIN lines[i] : KeptToken(NewDeclaration(lines[i][j])) = KeptToken(lines[i][j])
    BY <2>1, NewDeclarationKept
  <2>5. DOMAIN renamed[i] = DOMAIN lines[i] /\ \A j \in DOMAIN lines[i] : renamed[i][j] = NewDeclaration(lines[i][j])
    OBVIOUS
  <2>6. [j \in DOMAIN renamed[i] |-> KeptToken(renamed[i][j])] = [j \in DOMAIN lines[i] |-> KeptToken(lines[i][j])]
    <3> HIDE DEF renamed
    <3> QED
      BY <2>4, <2>5
  <2>7. [j \in 1 .. Len(lines[i]) |-> NewDeclaration(lines[i][j])] \in Seq(Tokens)
    BY <2>2, <2>3, SeqOfMap
  <2>8. KeptOf(renamed[i]) = KeptOf(lines[i])
    <3> HIDE DEF renamed
    <3> QED
      BY <2>6 DEF KeptOf
  <2> QED
    BY <2>3, <2>7, <2>8
<1>3. renamed \in Seq(Seq(Tokens)) /\ DOMAIN renamed = DOMAIN lines
  <2>1. renamed \in [1 .. Len(lines) -> Seq(Tokens)]
    BY <1>1, <1>2
  <2>2. DOMAIN renamed = DOMAIN lines
    OBVIOUS
  <2> HIDE DEF renamed
  <2> QED
    BY <1>1, <2>1, <2>2, SeqOfMap
<1>4. TypeMigrated(lines) = Picked(renamed, stays)
  BY DEF TypeMigrated
<1>5. ASSUME NEW i \in DOMAIN lines, i \notin stays PROVE KeptOf(lines[i]) = <<>>
  <2>1. lines[i] \in Seq(Tokens) /\ PlainLine(lang, lines[i])
    BY DEF Plain
  <2>2. PICK j \in DOMAIN lines[i] : NewDeclaration(lines[i][j]) # lines[i][j]
    BY <1>5 DEF Superseded
  <2>3. lines[i][j] \in TypeFields /\ HasField(lines[i], lines[i][j])
    BY <2>1, <2>2, NewDeclarationKept DEF HasField, Contains
  <2>4. lines[i] = <<lines[i][j]>>
    BY <2>1, <2>3 DEF PlainLine
  <2>5. KeptOf(<<lines[i][j]>>) = <<>>
    BY <2>3, NothingKept
  <2> QED
    BY <2>4, <2>5
<1>6. ASSUME NEW i \in DOMAIN renamed
      PROVE  (IF i \in stays THEN LineKeeper[renamed[i]] ELSE <<>>) = KeptOf(lines[i])
  <2>1. i \in DOMAIN lines
    BY <1>3
  <2>2. LineKeeper[renamed[i]] = KeptOf(lines[i])
    BY <1>2, <2>1 DEF LineKeeper
  <2> HIDE DEF renamed, stays
  <2> QED
    BY <1>5, <2>1, <2>2
<1> HIDE DEF renamed, stays
<1>7. [i \in DOMAIN renamed |-> IF i \in stays THEN LineKeeper[renamed[i]] ELSE <<>>]
        = [i \in DOMAIN lines |-> KeptOf(lines[i])]
  BY <1>3, <1>6
<1>8. Joined(LineKeeper, Picked(renamed, stays)) = KeptFields(lines)
  <2>1. Joined(LineKeeper, Picked(renamed, stays))
          = FlattenSeq([i \in DOMAIN renamed |-> IF i \in stays THEN LineKeeper[renamed[i]] ELSE <<>>])
    BY <1>3, LineKept, PickedJoined
  <2> QED
    BY <1>7, <2>1 DEF KeptFields
<1>9. KeptFields(TypeMigrated(lines)) = Joined(LineKeeper, TypeMigrated(lines))
  BY TypeMigratedType, KeptFieldsIs
<1> QED
  BY <1>4, <1>8, <1>9

-----------------------------------------------------------------------------
(* The elements of a sequence, and its pairs in their order. *)

\* The elements of a sequence, and which of them stand before which.
Pairs(s, R) == \A m, n \in DOMAIN s : m < n => <<s[m], s[n]>> \in R

LEMMA ConcatElements ==
  ASSUME NEW S, NEW s \in Seq(S), NEW t \in Seq(S)
  PROVE  ToSet(s \o t) = ToSet(s) \cup ToSet(t)
<1> DEFINE u == s \o t
<1>1. /\ u \in Seq(S) /\ Len(u) = Len(s) + Len(t) /\ Len(s) \in Nat /\ Len(t) \in Nat
      /\ \A i \in 1 .. Len(s) + Len(t) : u[i] = IF i <= Len(s) THEN s[i] ELSE t[i - Len(s)]
  BY ConcatProperties
<1> HIDE DEF u
<1>2. DOMAIN u = 1 .. Len(s) + Len(t) /\ DOMAIN s = 1 .. Len(s) /\ DOMAIN t = 1 .. Len(t)
  BY <1>1
<1>3. ASSUME NEW i \in DOMAIN u PROVE u[i] \in ToSet(s) \cup ToSet(t)
  <2>1. CASE i <= Len(s)
    <3>1. i \in DOMAIN s /\ u[i] = s[i]
      BY <1>1, <1>2, <2>1
    <3> QED
      BY <3>1 DEF ToSet
  <2>2. CASE ~(i <= Len(s))
    <3>1. i - Len(s) \in DOMAIN t /\ u[i] = t[i - Len(s)]
      BY <1>1, <1>2, <2>2
    <3> QED
      BY <3>1 DEF ToSet
  <2> QED
    BY <2>1, <2>2
<1>4. ASSUME NEW i \in DOMAIN s PROVE s[i] \in ToSet(u)
  <2>1. i \in DOMAIN u /\ u[i] = s[i]
    BY <1>1, <1>2
  <2> QED
    BY <2>1 DEF ToSet
<1>5. ASSUME NEW i \in DOMAIN t PROVE t[i] \in ToSet(u)
  <2>1. i + Len(s) \in DOMAIN u /\ u[i + Len(s)] = t[(i + Len(s)) - Len(s)] /\ (i + Len(s)) - Len(s) = i
    BY <1>1, <1>2
  <2>2. i + Len(s) \in DOMAIN u /\ u[i + Len(s)] = t[i]
    BY <2>1
  <2> QED
    BY <2>2 DEF ToSet
<1>6. ToSet(u) = ToSet(s) \cup ToSet(t)
  <2>1. ToSet(u) \subseteq ToSet(s) \cup ToSet(t)
    <3> SUFFICES ASSUME NEW x \in ToSet(u) PROVE x \in ToSet(s) \cup ToSet(t)
      OBVIOUS
    <3>1. PICK i \in DOMAIN u : x = u[i]
      BY DEF ToSet
    <3> QED
      BY <1>3, <3>1
  <2>2. ToSet(s) \subseteq ToSet(u)
    BY <1>4 DEF ToSet
  <2>3. ToSet(t) \subseteq ToSet(u)
    BY <1>5 DEF ToSet
  <2> QED
    BY <2>1, <2>2, <2>3
<1> QED
  BY <1>6 DEF u

LEMMA ConcatPairs ==
  ASSUME NEW S, NEW R, NEW s \in Seq(S), NEW t \in Seq(S), Pairs(s, R), Pairs(t, R),
         \A x \in ToSet(s), y \in ToSet(t) : <<x, y>> \in R
  PROVE  Pairs(s \o t, R)
<1> DEFINE u == s \o t
<1>1. /\ u \in Seq(S) /\ Len(u) = Len(s) + Len(t) /\ Len(s) \in Nat /\ Len(t) \in Nat
      /\ \A i \in 1 .. Len(s) + Len(t) : u[i] = IF i <= Len(s) THEN s[i] ELSE t[i - Len(s)]
  BY ConcatProperties
<1> HIDE DEF u
<1>2. DOMAIN u = 1 .. Len(s) + Len(t) /\ DOMAIN s = 1 .. Len(s) /\ DOMAIN t = 1 .. Len(t)
  BY <1>1
<1>3. ASSUME NEW m \in DOMAIN u, NEW n \in DOMAIN u, m < n PROVE <<u[m], u[n]>> \in R
  <2>1. CASE n <= Len(s)
    <3>1. m \in DOMAIN s /\ n \in DOMAIN s /\ u[m] = s[m] /\ u[n] = s[n]
      BY <1>1, <1>2, <1>3, <2>1
    <3> QED
      BY <1>3, <3>1 DEF Pairs
  <2>2. CASE m <= Len(s) /\ ~(n <= Len(s))
    <3>1. m \in DOMAIN s /\ n - Len(s) \in DOMAIN t /\ u[m] = s[m] /\ u[n] = t[n - Len(s)]
      BY <1>1, <1>2, <1>3, <2>2
    <3>2. u[m] \in ToSet(s) /\ u[n] \in ToSet(t)
      BY <3>1 DEF ToSet
    <3> QED
      BY <3>2
  <2>3. CASE ~(m <= Len(s))
    <3>1. PICK i \in DOMAIN t, j \in DOMAIN t : i < j /\ u[m] = t[i] /\ u[n] = t[j]
      <4>1. /\ m - Len(s) \in DOMAIN t /\ n - Len(s) \in DOMAIN t /\ m - Len(s) < n - Len(s)
            /\ u[m] = t[m - Len(s)] /\ u[n] = t[n - Len(s)]
        BY <1>1, <1>2, <1>3, <2>3
      <4> QED
        BY <4>1
    <3> QED
      BY <3>1 DEF Pairs
  <2> QED
    BY <1>1, <1>2, <1>3, <2>1, <2>2, <2>3
<1>4. Pairs(u, R)
  BY <1>3 DEF Pairs
<1> QED
  BY <1>4 DEF u

LEMMA FlattenElements ==
  ASSUME NEW S, NEW seqs \in Seq(Seq(S))
  PROVE  \A x : x \in ToSet(FlattenSeq(seqs)) <=> \E i \in DOMAIN seqs : x \in ToSet(seqs[i])
<1> DEFINE N == Len(seqs)
<1>0. N \in Nat /\ DOMAIN seqs = 1 .. N
  OBVIOUS
<1>1. PICK F \in [0 .. N -> Seq(S)] : Flattens(F, seqs)
  BY FlattenIs
<1> HIDE DEF N
<1>2. F[0] = <<>> /\ FlattenSeq(seqs) = F[N] /\ \A n \in 1 .. N : F[n] = F[n - 1] \o seqs[n]
  BY <1>1 DEF Flattens, N
<1> DEFINE G == {n \in 0 .. N : \A x : x \in ToSet(F[n]) <=> \E i \in 1 .. n : x \in ToSet(seqs[i])}
<1>3. 0 \in G
  <2>1. ToSet(<<>>) = {}
    BY DEF ToSet
  <2> QED
    BY <1>0, <1>2, <2>1
<1>4. ASSUME NEW n \in 1 .. N, n - 1 \in G PROVE n \in G
  <2>1. n - 1 \in 0 .. N /\ F[n - 1] \in Seq(S) /\ seqs[n] \in Seq(S) /\ F[n] = F[n - 1] \o seqs[n]
    <3>1. n - 1 \in 0 .. N /\ n \in DOMAIN seqs
      BY <1>0
    <3>2. F[n - 1] \in Seq(S)
      BY <3>1
    <3>3. seqs[n] \in Seq(S)
      BY <3>1
    <3> QED
      BY <1>2, <3>1, <3>2, <3>3
  <2>2. ToSet(F[n]) = ToSet(F[n - 1]) \cup ToSet(seqs[n])
    BY <2>1, ConcatElements
  <2>3. 1 .. n = 1 .. n - 1 \cup {n}
    BY <1>0
  <2>4. \A x : x \in ToSet(F[n - 1]) <=> \E i \in 1 .. n - 1 : x \in ToSet(seqs[i])
    BY <1>4
  <2>5. ASSUME NEW x PROVE x \in ToSet(F[n]) <=> \E i \in 1 .. n : x \in ToSet(seqs[i])
    BY <2>2, <2>3, <2>4
  <2>6. n \in 0 .. N
    BY <1>0
  <2> QED
    BY <2>5, <2>6
<1>5. N \in G
  <2> HIDE DEF G
  <2>1. 0 .. N \subseteq G
    BY <1>0, <1>3, <1>4, UpToInduction
  <2> QED
    BY <1>0, <2>1
<1> QED
  BY <1>0, <1>2, <1>5

LEMMA FlattenPairs ==
  ASSUME NEW S, NEW R, NEW seqs \in Seq(Seq(S)), \A i \in DOMAIN seqs : Pairs(seqs[i], R),
         \A i, j \in DOMAIN seqs : i < j => \A x \in ToSet(seqs[i]), y \in ToSet(seqs[j]) : <<x, y>> \in R
  PROVE  Pairs(FlattenSeq(seqs), R)
<1> DEFINE N == Len(seqs)
<1>0. N \in Nat /\ DOMAIN seqs = 1 .. N
  OBVIOUS
<1>1. PICK F \in [0 .. N -> Seq(S)] : Flattens(F, seqs)
  BY FlattenIs
<1> HIDE DEF N
<1>2. F[0] = <<>> /\ FlattenSeq(seqs) = F[N] /\ \A n \in 1 .. N : F[n] = F[n - 1] \o seqs[n]
  BY <1>1 DEF Flattens, N
<1> DEFINE G == {n \in 0 .. N : Pairs(F[n], R) /\ \A x \in ToSet(F[n]) : \E i \in 1 .. n : x \in ToSet(seqs[i])}
<1>3. 0 \in G
  <2>1. ToSet(<<>>) = {} /\ Pairs(<<>>, R)
    BY DEF ToSet, Pairs
  <2> QED
    BY <1>0, <1>2, <2>1
<1>4. ASSUME NEW n \in 1 .. N, n - 1 \in G PROVE n \in G
  <2>1. n - 1 \in 0 .. N /\ F[n - 1] \in Seq(S) /\ seqs[n] \in Seq(S) /\ F[n] = F[n - 1] \o seqs[n]
    <3>1. n - 1 \in 0 .. N /\ n \in DOMAIN seqs
      BY <1>0
    <3>2. F[n - 1] \in Seq(S)
      BY <3>1
    <3>3. seqs[n] \in Seq(S)
      BY <3>1
    <3> QED
      BY <1>2, <3>1, <3>2, <3>3
  <2>2. ToSet(F[n]) = ToSet(F[n - 1]) \cup ToSet(seqs[n])
    BY <2>1, ConcatElements
  <2>3. 1 .. n = 1 .. n - 1 \cup {n} /\ n \in 0 .. N /\ n \in DOMAIN seqs
    BY <1>0
  <2>4. Pairs(F[n - 1], R) /\ \A x \in ToSet(F[n - 1]) : \E i \in 1 .. n - 1 : x \in ToSet(seqs[i])
    BY <1>4
  <2>5. ASSUME NEW x \in ToSet(F[n]) PROVE \E i \in 1 .. n : x \in ToSet(seqs[i])
    BY <2>2, <2>3, <2>4
  <2>6. ASSUME NEW x \in ToSet(F[n - 1]), NEW y \in ToSet(seqs[n]) PROVE <<x, y>> \in R
    <3>1. PICK i \in 1 .. n - 1 : x \in ToSet(seqs[i])
      BY <2>4
    <3>2. i \in DOMAIN seqs /\ i < n
      BY <1>0
    <3> QED
      BY <2>3, <3>1, <3>2
  <2>7. Pairs(seqs[n], R)
    BY <2>3
  <2>8. Pairs(F[n], R)
    BY <2>1, <2>4, <2>6, <2>7, ConcatPairs
  <2> QED
    BY <2>3, <2>5, <2>8
<1>5. N \in G
  <2> HIDE DEF G
  <2>1. 0 .. N \subseteq G
    BY <1>0, <1>3, <1>4, UpToInduction
  <2> QED
    BY <1>0, <2>1
<1> QED
  BY <1>2, <1>5

\* What is picked: the elements at those positions, in their order.
LEMMA PickedElements ==
  ASSUME NEW S, NEW s \in Seq(S), NEW positions
  PROVE  \A x : x \in ToSet(Picked(s, positions)) <=> \E i \in DOMAIN s : i \in positions /\ x = s[i]
<1> DEFINE parts == [i \in DOMAIN s |-> IF i \in positions THEN <<s[i]>> ELSE <<>>]
<1>1. parts \in Seq(Seq(S)) /\ DOMAIN parts = DOMAIN s
  <2>1. DOMAIN s = 1 .. Len(s) /\ Len(s) \in Nat
    OBVIOUS
  <2>2. \A i \in DOMAIN s : <<s[i]>> \in Seq(S) /\ <<>> \in Seq(S)
    OBVIOUS
  <2>3. parts \in [1 .. Len(s) -> Seq(S)] /\ DOMAIN parts = DOMAIN s
    BY <2>1, <2>2
  <2> HIDE DEF parts
  <2> QED
    BY <2>1, <2>3, SeqOfMap
<1>2. ASSUME NEW i \in DOMAIN s, NEW x PROVE x \in ToSet(parts[i]) <=> i \in positions /\ x = s[i]
  <2>1. ToSet(<<s[i]>>) = {s[i]} /\ ToSet(<<>>) = {}
    BY DEF ToSet
  <2> QED
    BY <2>1
<1>3. Picked(s, positions) = FlattenSeq(parts)
  BY DEF Picked
<1> HIDE DEF parts
<1>4. \A x : x \in ToSet(FlattenSeq(parts)) <=> \E i \in DOMAIN parts : x \in ToSet(parts[i])
  BY <1>1, FlattenElements
<1> QED
  BY <1>1, <1>2, <1>3, <1>4

LEMMA PickedPairs ==
  ASSUME NEW S, NEW R, NEW s \in Seq(S), NEW positions, Pairs(s, R)
  PROVE  Pairs(Picked(s, positions), R)
<1> DEFINE parts == [i \in DOMAIN s |-> IF i \in positions THEN <<s[i]>> ELSE <<>>]
<1>1. parts \in Seq(Seq(S)) /\ DOMAIN parts = DOMAIN s
  <2>1. DOMAIN s = 1 .. Len(s) /\ Len(s) \in Nat
    OBVIOUS
  <2>2. \A i \in DOMAIN s : <<s[i]>> \in Seq(S) /\ <<>> \in Seq(S)
    OBVIOUS
  <2>3. parts \in [1 .. Len(s) -> Seq(S)] /\ DOMAIN parts = DOMAIN s
    BY <2>1, <2>2
  <2> HIDE DEF parts
  <2> QED
    BY <2>1, <2>3, SeqOfMap
<1>2. ASSUME NEW i \in DOMAIN s PROVE Pairs(parts[i], R) /\ \A x \in ToSet(parts[i]) : x = s[i]
  <2>1. ToSet(<<s[i]>>) = {s[i]} /\ ToSet(<<>>) = {}
    BY DEF ToSet
  <2>2. Pairs(<<s[i]>>, R) /\ Pairs(<<>>, R)
    BY DEF Pairs
  <2> QED
    BY <2>1, <2>2
<1>3. Picked(s, positions) = FlattenSeq(parts)
  BY DEF Picked
<1> HIDE DEF parts
<1>4. ASSUME NEW i \in DOMAIN parts, NEW j \in DOMAIN parts, i < j, NEW x \in ToSet(parts[i]), NEW y \in ToSet(parts[j])
      PROVE  <<x, y>> \in R
  BY <1>1, <1>2, <1>4 DEF Pairs
<1>5. Pairs(FlattenSeq(parts), R)
  <2>1. \A i \in DOMAIN parts : Pairs(parts[i], R)
    BY <1>1, <1>2
  <2>2. \A i, j \in DOMAIN parts : i < j => \A x \in ToSet(parts[i]), y \in ToSet(parts[j]) : <<x, y>> \in R
    BY <1>4
  <2> QED
    BY <1>1, <2>1, <2>2, FlattenPairs
<1> QED
  BY <1>3, <1>5

-----------------------------------------------------------------------------
(* Lines without a legacy field, and what a migration makes of others. *)

\* A line without legacy fields.
Old == {"headline", "message", "tags"}
Clean(line) == \A j \in DOMAIN line : line[j] \notin Old

LEMMA LegacyIs ==
  ASSUME NEW lines \in Seq(Seq(Tokens))
  PROVE  Legacy(lines) = {} <=> \A i \in DOMAIN lines : Clean(lines[i])
<1>1. \A i \in DOMAIN lines : lines[i] \in Seq(Tokens)
  OBVIOUS
<1>2. ASSUME NEW i \in DOMAIN lines, NEW f PROVE HasField(lines[i], f) <=> \E j \in DOMAIN lines[i] : lines[i][j] = f
  <2>1. lines[i] \in Seq(Tokens)
    BY <1>1
  <2>2. DOMAIN lines[i] = 1 .. Len(lines[i])
    BY <2>1
  <2> QED
    BY <2>2 DEF HasField, Contains
<1>3. Legacy(lines) = {} <=> \A f \in Old : \A i \in DOMAIN lines : ~HasField(lines[i], f)
  BY DEF Legacy, SomeLine, Old
<1>4. ASSUME NEW i \in DOMAIN lines PROVE Clean(lines[i]) <=> \A f \in Old : ~HasField(lines[i], f)
  BY <1>2 DEF Clean
<1> QED
  BY <1>3, <1>4

LEMMA LegacyOfOne ==
  ASSUME NEW line \in Seq(Tokens)
  PROVE  Legacy(<<line>>) = {} <=> Clean(line)
<1>1. <<line>> \in Seq(Seq(Tokens)) /\ DOMAIN <<line>> = {1} /\ <<line>>[1] = line
  OBVIOUS
<1> QED
  BY <1>1, LegacyIs

\* A line whose legacy fields the codemod can see.
Reachable(lang, line) ==
  /\ FieldAlone(lang, line)
  /\ Clean(line) \/ Anywhere(lang) \/ Clean(Tail(line))

LEMMA RewrittenClean ==
  ASSUME NEW lang, NEW line \in Seq(Tokens), Reachable(lang, line), ~StartsWith(line, "tags")
  PROVE  Clean(Rewritten(lang, line)) /\ (InsertsBelow(lang, line) => Clean(line))
<1>0. Len(line) \in Nat /\ DOMAIN line = 1 .. Len(line) /\ \A i \in 1 .. Len(line) : line[i] \in Tokens
  OBVIOUS
<1>1. ASSUME NEW f, f # "tags" PROVE NewName(f) \notin Old
  BY <1>1 DEF NewName, Old
<1>2. ASSUME line # <<>> PROVE 1 \in 1 .. Len(line) /\ Head(line) = line[1] /\ line[1] # "tags"
  BY <1>2 DEF StartsWith
<1>3. ASSUME ~Anywhere(lang), NEW j \in 2 .. Len(line) PROVE line[j] \notin Old
  <2>1. CASE Clean(line)
    BY <1>0, <2>1 DEF Clean
  <2>2. CASE Clean(Tail(line))
    <3>1. line # <<>> /\ j - 1 \in 1 .. Len(line) - 1
      BY <1>0, <1>3
    <3>2. Tail(line)[j - 1] = line[j] /\ j - 1 \in DOMAIN Tail(line)
      BY <3>1, <1>0
    <3> QED
      BY <2>2, <3>2 DEF Clean
  <2> QED
    BY <1>3, <2>1, <2>2 DEF Reachable
<1>4. Clean(Rewritten(lang, line))
  <2>1. CASE HasSource(lang, line)
    <3>1. Rewritten(lang, line) = <<"source">>
      BY <2>1 DEF Rewritten
    <3> QED
      BY <3>1 DEF Clean, Old
  <2>2. CASE ~HasSource(lang, line) /\ Anywhere(lang)
    <3>1. ~HasField(line, "tags")
      <4>1. <<"tags">> # <<>> /\ Head(<<"tags">>) = "tags"
        OBVIOUS
      <4> QED
        BY <2>2, <4>1 DEF Reachable, FieldAlone, StartsWith
    <3>2. Rewritten(lang, line) = [i \in DOMAIN line |-> NewName(line[i])]
      BY <2>2, <3>1 DEF Rewritten, TagsStripped
    <3>3. \A i \in DOMAIN line : line[i] # "tags"
      BY <3>1 DEF HasField, Contains
    <3> QED
      BY <1>1, <3>2, <3>3 DEF Clean
  <2>3. CASE ~HasSource(lang, line) /\ ~Anywhere(lang) /\ line = <<>>
    BY <2>3 DEF Rewritten, Clean
  <2>4. CASE ~HasSource(lang, line) /\ ~Anywhere(lang) /\ line # <<>>
    <3>1. Rewritten(lang, line) = [line EXCEPT ![1] = NewName(line[1])]
      BY <2>4 DEF Rewritten
    <3>2. NewName(line[1]) \notin Old
      BY <1>1, <1>2, <2>4
    <3> HIDE DEF Old
    <3>3. \A j \in 1 .. Len(line) : j = 1 \/ j \in 2 .. Len(line)
      BY <1>0
    <3>4. \A j \in 1 .. Len(line) : Rewritten(lang, line)[j] \notin Old
      BY <1>0, <1>3, <2>4, <3>1, <3>2, <3>3
    <3> QED
      BY <1>0, <3>1, <3>4 DEF Clean
  <2> QED
    BY <2>1, <2>2, <2>3, <2>4
<1>5. ASSUME InsertsBelow(lang, line) PROVE Clean(line)
  <2>1. ~Anywhere(lang) /\ line # <<>> /\ line[1] = "meta"
    BY <1>2, <1>5 DEF InsertsBelow, Anywhere, StartsWith
  <2>2. "meta" \notin Old
    BY DEF Old
  <2>3. \A j \in 1 .. Len(line) : j = 1 \/ j \in 2 .. Len(line)
    BY <1>0
  <2> QED
    BY <1>0, <1>3, <2>1, <2>2, <2>3 DEF Clean
<1> QED
  BY <1>4, <1>5

LEMMA InsertClean ==
  ASSUME NEW new \in Seq(Tokens), Clean(new), HasField(new, "corr")
  PROVE  Clean(InsertAt(new, SelectInSeq(new, LAMBDA f : f = "corr"), "source"))
<1> DEFINE I == {i \in 1 .. Len(new) : new[i] = "corr"}
<1>1. I \subseteq Nat /\ I # {}
  BY DEF HasField, Contains
<1>2. Min(I) \in 1 .. Len(new)
  BY <1>1, MinOf
<1>3. SelectInSeq(new, LAMBDA f : f = "corr") = Min(I)
  BY <1>1 DEF SelectInSeq
<1>4. ASSUME NEW m \in 1 .. Len(new) PROVE Clean(InsertAt(new, m, "source"))
  <2> DEFINE Rest == Tokens \ Old
  <2>1. \A i \in 1 .. Len(new) : new[i] \in Rest
    BY DEF Clean
  <2>2. SubSeq(new, 1, m - 1) \in Seq(Rest)
    <3>1. (\A i \in 1 .. m - 1 : new[i] \in Rest) /\ 1 \in Int /\ m - 1 \in Int
      BY <2>1
    <3> HIDE DEF Rest
    <3> QED
      BY <3>1, SubSeqProperties
  <2>3. SubSeq(new, m, Len(new)) \in Seq(Rest)
    <3>1. (\A i \in m .. Len(new) : new[i] \in Rest) /\ m \in Int /\ Len(new) \in Int
      BY <2>1
    <3> HIDE DEF Rest
    <3> QED
      BY <3>1, SubSeqProperties
  <2>4. "source" \in Rest
    BY DEF Tokens, CallFields, Old
  <2>5. InsertAt(new, m, "source") \in Seq(Rest)
    <3>1. <<"source">> \in Seq(Rest)
      BY <2>4
    <3> HIDE DEF Rest
    <3> QED
      BY <2>2, <2>3, <3>1 DEF InsertAt
  <2>6. \A i \in DOMAIN InsertAt(new, m, "source") : InsertAt(new, m, "source")[i] \in Rest
    <3> HIDE DEF Rest
    <3> QED
      BY <2>5
  <2> QED
    BY <2>6 DEF Clean
<1> QED
  BY <1>2, <1>3, <1>4

AllClean(lines) == \A i \in DOMAIN lines : Clean(lines[i])

LEMMA MigrateLineCleans ==
  ASSUME NEW lang, NEW s \in Migrating, NEW line \in Seq(Tokens), Reachable(lang, line)
  PROVE  \E lines \in Seq(Seq(Tokens)) :
           MigrateLine(lang, s, line).out = s.out \o lines /\ AllClean(lines)
<1>0. s.out \in Seq(Seq(Tokens))
  BY DEF Migrating
<1>1. CASE StartsWith(line, "tags")
  <2>1. MigrateLine(lang, s, line).out = s.out
    BY <1>1 DEF MigrateLine, Migrating
  <2>2. <<>> \in Seq(Seq(Tokens)) /\ s.out \o <<>> = s.out /\ AllClean(<<>>)
    BY <1>0 DEF AllClean
  <2> QED
    BY <2>1, <2>2
<1>2. CASE ~StartsWith(line, "tags")
  <2> DEFINE new == Rewritten(lang, line)
             source == <<"source">>
             amid == InsertAt(new, SelectInSeq(new, LAMBDA f : f = "corr"), "source")
  <2>1. new \in Seq(Tokens) /\ Clean(new) /\ (InsertsBelow(lang, line) => Clean(line))
    BY <1>2, RewrittenType, RewrittenClean
  <2>2. source \in Seq(Tokens) /\ Clean(source)
    BY NothingKept DEF Clean, Old
  <2>3. InsertsAmid(lang, new) => amid \in Seq(Tokens) /\ Clean(amid)
    <3> HIDE DEF new
    <3> QED
      BY <2>1, InsertAmidType, InsertClean DEF InsertsAmid
  <2>4. \/ MigrateLine(lang, s, line).out = s.out \o <<new>>
        \/ InsertsBelow(lang, line) /\ MigrateLine(lang, s, line).out = s.out \o <<line, source>>
        \/ MigrateLine(lang, s, line).out = s.out \o <<source, new>>
        \/ InsertsAmid(lang, new) /\ MigrateLine(lang, s, line).out = s.out \o <<amid>>
    <3> HIDE DEF new, amid
    <3>1. ~StartsWith(line, "tags") => MigrateLine(lang, s, line).out
            = s.out \o IF ~(s.has \/ (lang # "rs" /\ HasSource(lang, line)))
                          /\ (InsertsBelow(lang, line) \/ InsertsAmid(lang, new) \/ InsertsAbove(line))
                       THEN (IF InsertsBelow(lang, line) THEN <<line, source>>
                             ELSE IF InsertsAbove(line) THEN <<source, new>> ELSE <<amid>>)
                       ELSE <<new>>
      BY DEF MigrateLine, new, amid
    <3> QED
      BY <1>2, <3>1
  <2> HIDE DEF new, source, amid
  <2>5. ASSUME NEW x \in Seq(Tokens), Clean(x)
        PROVE  <<x>> \in Seq(Seq(Tokens)) /\ AllClean(<<x>>)
    BY <2>5 DEF AllClean
  <2>6. ASSUME NEW x \in Seq(Tokens), NEW y \in Seq(Tokens), Clean(x), Clean(y)
        PROVE  <<x, y>> \in Seq(Seq(Tokens)) /\ AllClean(<<x, y>>)
    BY <2>6 DEF AllClean
  <2> QED
    BY <2>1, <2>2, <2>3, <2>4, <2>5, <2>6
<1> QED
  BY <1>1, <1>2

\* The codemod leaves no legacy field in a snippet.
\* So of any line of a text.
LinesCleaned(lang) ==
  \A s \in Migrating, line \in Seq(Tokens) :
    Reachable(lang, line) =>
      \E lines \in Seq(Seq(Tokens)) :
        MigrateLine(lang, s, line).out = s.out \o lines /\ AllClean(lines)

LEMMA MigratedCleans ==
  ASSUME NEW lang, NEW inTree, NEW snippet \in Seq(Seq(Tokens)),
         \A i \in DOMAIN snippet : Reachable(lang, snippet[i]),
         NEW new \in Migrated(lang, inTree, snippet)
  PROVE  AllClean(new)
<1>1. PICK F \in [0 .. Len(snippet) -> Migrating] :
        /\ MigratesTo(F, lang, snippet)
        /\ Migrated(lang, inTree, snippet) \subseteq {F[Len(snippet)].out}
  BY MigratedIs
<1>1a. LinesCleaned(lang)
  BY MigrateLineCleans DEF LinesCleaned
<1> DEFINE N == Len(snippet)
           G == {n \in 0 .. N : AllClean(F[n].out)}
<1>2. N \in Nat /\ \A n \in 1 .. N : snippet[n] \in Seq(Tokens) /\ Reachable(lang, snippet[n])
  OBVIOUS
<1>3. 0 \in G
  BY <1>1, <1>2 DEF MigratesTo, AllClean
<1>4. ASSUME NEW n \in 1 .. N, n - 1 \in G PROVE n \in G
  <2>1. F[n - 1] \in Migrating /\ F[n - 1].out \in Seq(Seq(Tokens)) /\ AllClean(F[n - 1].out)
    <3>1. n - 1 \in 0 .. N
      BY <1>2
    <3> QED
      BY <1>4, <3>1 DEF Migrating
  <2>2. PICK lines \in Seq(Seq(Tokens)) :
          MigrateLine(lang, F[n - 1], snippet[n]).out = F[n - 1].out \o lines /\ AllClean(lines)
    <3>1. PICK t \in Migrating, line \in Seq(Tokens) : t = F[n - 1] /\ line = snippet[n] /\ Reachable(lang, line)
      BY <1>2, <2>1
    <3>2. \E lines \in Seq(Seq(Tokens)) : MigrateLine(lang, t, line).out = t.out \o lines /\ AllClean(lines)
      BY <1>1a, <3>1 DEF LinesCleaned
    <3> QED
      BY <3>1, <3>2, <2>1
  <2>3. F[n].out = F[n - 1].out \o lines
    BY <1>1, <2>2 DEF MigratesTo
  <2>4. ASSUME NEW a \in Seq(Seq(Tokens)), NEW b \in Seq(Seq(Tokens)), AllClean(a), AllClean(b)
        PROVE  AllClean(a \o b)
    <3>1. \A i \in DOMAIN (a \o b) :
            (i \in DOMAIN a /\ (a \o b)[i] = a[i]) \/ (i - Len(a) \in DOMAIN b /\ (a \o b)[i] = b[i - Len(a)])
      <4>1. /\ Len(a \o b) = Len(a) + Len(b) /\ a \o b \in Seq(Seq(Tokens)) /\ Len(a) \in Nat /\ Len(b) \in Nat
            /\ \A i \in 1 .. Len(a) + Len(b) : (a \o b)[i] = IF i <= Len(a) THEN a[i] ELSE b[i - Len(a)]
        BY ConcatProperties
      <4> PICK u : u = a \o b
        OBVIOUS
      <4>2. DOMAIN u = 1 .. Len(a) + Len(b) /\ DOMAIN a = 1 .. Len(a) /\ DOMAIN b = 1 .. Len(b)
        BY <4>1
      <4>3. \A i \in DOMAIN u : (i \in DOMAIN a /\ u[i] = a[i]) \/ (i - Len(a) \in DOMAIN b /\ u[i] = b[i - Len(a)])
        BY <4>1, <4>2
      <4> QED
        BY <4>3
    <3> QED
      BY <2>4, <3>1 DEF AllClean
  <2>5. AllClean(F[n].out)
    BY <2>1, <2>2, <2>3, <2>4
  <2>6. n \in 0 .. N
    BY <1>2
  <2> QED
    BY <2>5, <2>6
<1>5. N \in G
  <2> HIDE DEF G, N
  <2>1. 0 .. N \subseteq G
    BY <1>2, <1>3, <1>4, UpToInduction
  <2> QED
    BY <1>2, <2>1
<1> QED
  BY <1>1, <1>5

-----------------------------------------------------------------------------
(* The ranges a codemod finds in a file, and a range of it replaced. *)

\* The lines of a file, those of a range replaced.
Splice(b, from, to, new) == SubSeq(b, 1, from - 1) \o new \o SubSeq(b, to + 1, Len(b))

LEMMA SpliceKeeps ==
  ASSUME NEW lang, NEW b \in Seq(Seq(Tokens)), NEW from \in Nat \ {0}, NEW to \in Nat,
         from <= to, to <= Len(b), NEW new \in Seq(Seq(Tokens)),
         Plain(lang, b), Plain(lang, new), KeptFields(new) = KeptFields(SubSeq(b, from, to))
  PROVE  Plain(lang, Splice(b, from, to, new)) /\ KeptFields(Splice(b, from, to, new)) = KeptFields(b)
<1> DEFINE pre == SubSeq(b, 1, from - 1)
           mid == SubSeq(b, from, to)
           post == SubSeq(b, to + 1, Len(b))
           N == Len(b)
<1>0. N \in Nat /\ \A i \in 1 .. N : b[i] \in Seq(Tokens) /\ PlainLine(lang, b[i])
  BY DEF Plain
<1>1. ASSUME NEW m \in Int, NEW n \in Int, 1 <= m, n <= N
      PROVE  SubSeq(b, m, n) \in Seq(Seq(Tokens)) /\ Plain(lang, SubSeq(b, m, n))
  <2>1. \A i \in m .. n : b[i] \in Seq(Tokens) /\ PlainLine(lang, b[i])
    BY <1>0, <1>1
  <2>2. /\ SubSeq(b, m, n) \in Seq(Seq(Tokens))
        /\ Len(SubSeq(b, m, n)) = IF m <= n THEN n - m + 1 ELSE 0
        /\ \A i \in 1 .. n - m + 1 : SubSeq(b, m, n)[i] = b[m + i - 1]
    BY <2>1, SubSeqProperties
  <2>3. ASSUME NEW i \in DOMAIN SubSeq(b, m, n) PROVE PlainLine(lang, SubSeq(b, m, n)[i])
    <3>1. i \in 1 .. n - m + 1 /\ m + i - 1 \in m .. n
      BY <2>2
    <3> QED
      BY <2>1, <2>2, <3>1
  <2> QED
    BY <2>2, <2>3 DEF Plain
<1>2. pre \in Seq(Seq(Tokens)) /\ Plain(lang, pre)
  <2>1. 1 \in Int /\ from - 1 \in Int /\ 1 <= 1 /\ from - 1 <= N
    BY <1>0
  <2> HIDE DEF N
  <2> QED
    BY <1>1, <2>1
<1>3. mid \in Seq(Seq(Tokens)) /\ Plain(lang, mid)
  <2>1. from \in Int /\ to \in Int /\ 1 <= from /\ to <= N
    BY <1>0
  <2> HIDE DEF N
  <2> QED
    BY <1>1, <2>1
<1>4. post \in Seq(Seq(Tokens)) /\ Plain(lang, post)
  <2>1. to + 1 \in Int /\ N \in Int /\ 1 <= to + 1 /\ N <= N
    BY <1>0
  <2> HIDE DEF N
  <2>2. SubSeq(b, to + 1, N) \in Seq(Seq(Tokens)) /\ Plain(lang, SubSeq(b, to + 1, N))
    BY <1>1, <2>1
  <2> QED
    BY <2>2 DEF N
<1>5. b = (pre \o mid) \o post
  <2>1. pre \o mid = SubSeq(b, 1, to)
    <3>1. 1 \in 1 .. N + 1 /\ from - 1 \in 1 - 1 .. N /\ to \in from - 1 .. N
      BY <1>0
    <3>2. SubSeq(b, 1, from - 1) \o SubSeq(b, (from - 1) + 1, to) = SubSeq(b, 1, to)
      BY <3>1, ConcatAdjacentSubSeq
    <3>3. (from - 1) + 1 = from
      OBVIOUS
    <3> QED
      BY <3>2, <3>3
  <2>2. SubSeq(b, 1, to) \o post = SubSeq(b, 1, N)
    <3>1. 1 \in 1 .. N + 1 /\ to \in 1 - 1 .. N /\ N \in to .. N
      BY <1>0
    <3> QED
      BY <3>1, ConcatAdjacentSubSeq
  <2>3. SubSeq(b, 1, N) = b
    BY SubSeqFull
  <2> QED
    BY <2>1, <2>2, <2>3
<1> HIDE DEF pre, mid, post
<1>6. KeptFields(b) = (KeptFields(pre) \o KeptFields(mid)) \o KeptFields(post)
  <2>1. pre \o mid \in Seq(Seq(Tokens)) /\ KeptFields(pre \o mid) = KeptFields(pre) \o KeptFields(mid)
    BY <1>2, <1>3, KeptConcat
  <2>2. KeptFields((pre \o mid) \o post) = KeptFields(pre \o mid) \o KeptFields(post)
    BY <1>4, <2>1, KeptConcat
  <2> QED
    BY <1>5, <2>1, <2>2
<1>7. /\ pre \o new \in Seq(Seq(Tokens)) /\ KeptFields(pre \o new) = KeptFields(pre) \o KeptFields(new)
      /\ Plain(lang, pre \o new)
  BY <1>2, KeptConcat, PlainParts
<1>8. KeptFields((pre \o new) \o post) = KeptFields(pre \o new) \o KeptFields(post)
  BY <1>4, <1>7, KeptConcat
<1>9. Plain(lang, (pre \o new) \o post)
  BY <1>4, <1>7, PlainParts
<1>10. KeptFields((pre \o new) \o post) = KeptFields(b)
  <2>1. KeptFields(new) = KeptFields(mid)
    BY DEF mid
  <2> QED
    BY <1>6, <1>7, <1>8, <2>1
<1> QED
  BY <1>9, <1>10 DEF pre, post, Splice

-----------------------------------------------------------------------------
\* The ranges of lines of a file.
RangesOf(lines) == {r \in LineRanges : r[2] <= Len(lines)}
Distinct(T) == {pair \in T \X T : pair[1] # pair[2]}

LEMMA RangeFrom ==
  ASSUME NEW lines \in Seq(Seq(Tokens)), NEW i \in DOMAIN lines, NEW to \in i .. Len(lines)
  PROVE  <<i, to>> \in RangesOf(lines)
<1>1. i \in Nat \ {0} /\ Len(lines) \in Nat
  OBVIOUS
<1>2. to \in Nat \ {0} /\ i <= to /\ to <= Len(lines)
  BY <1>1
<1> QED
  BY <1>1, <1>2 DEF RangesOf, LineRanges

LEMMA AstRangeType ==
  ASSUME NEW lines \in Seq(Seq(Tokens)), NEW i \in DOMAIN lines
  PROVE  AstRange(lines, i) \in RangesOf(lines) /\ AstRange(lines, i)[1] = i
<1> DEFINE k == SelectInSeq(lines[i], LAMBDA t : t = "name")
           ends == {j \in i .. Len(lines) :
                      \E l \in DOMAIN lines[j] :
                        lines[j][l] = "close" /\ Balance(Span(lines, i, k, j, l)) = 0}
<1>1. i \in Nat \ {0} /\ Len(lines) \in Nat /\ i \in i .. Len(lines)
  OBVIOUS
<1>2. ends \subseteq i .. Len(lines)
  OBVIOUS
<1>3. AstRange(lines, i) \in {<<i, i>>} \cup {<<i, Min(e)>> : e \in {ends} \ {{}}}
  BY DEF AstRange
<1> HIDE DEF ends
<1>4. ends # {} => Min(ends) \in i .. Len(lines)
  <2>1. ends \subseteq Nat
    BY <1>1, <1>2
  <2> QED
    BY <1>2, <2>1, MinOf
<1>5. PICK to \in i .. Len(lines) : AstRange(lines, i) = <<i, to>>
  BY <1>1, <1>3, <1>4
<1> QED
  BY <1>5, RangeFrom

LEMMA ExpandBraceRangeType ==
  ASSUME NEW lines \in Seq(Seq(Tokens)), NEW i \in DOMAIN lines
  PROVE  ExpandBraceRange(lines, i) \in RangesOf(lines) /\ ExpandBraceRange(lines, i)[1] = i
<1> DEFINE ends == {j \in i .. Len(lines) : Balance(Span(lines, i, 1, j, Len(lines[j]))) <= 0}
<1>1. i \in Nat \ {0} /\ Len(lines) \in Nat /\ {i, Len(lines)} \subseteq i .. Len(lines)
  OBVIOUS
<1>2. ends \subseteq i .. Len(lines)
  OBVIOUS
<1>3. ExpandBraceRange(lines, i) \in {<<i, i>>, <<i, Len(lines)>>} \cup {<<i, Min(e)>> : e \in {ends} \ {{}}}
  BY DEF ExpandBraceRange
<1> HIDE DEF ends
<1>4. ends # {} => Min(ends) \in i .. Len(lines)
  <2>1. ends \subseteq Nat
    BY <1>1, <1>2
  <2> QED
    BY <1>2, <2>1, MinOf
<1>5. PICK to \in i .. Len(lines) : ExpandBraceRange(lines, i) = <<i, to>>
  BY <1>1, <1>3, <1>4
<1> QED
  BY <1>5, RangeFrom

\* What starts in the lines of a sequence of different ones.
LEMMA StartsDistinct ==
  ASSUME NEW T, NEW T2, NEW named \in Seq(T2), Pairs(named, Distinct(T2)), NEW ranges,
         DOMAIN ranges = DOMAIN named,
         \A n \in DOMAIN named : ranges[n] \in T /\ ranges[n][1] = named[n]
  PROVE  Pairs(ranges, Distinct(T))
<1> SUFFICES ASSUME NEW m \in DOMAIN ranges, NEW n \in DOMAIN ranges, m < n
             PROVE  <<ranges[m], ranges[n]>> \in Distinct(T)
  BY DEF Pairs
<1>1. <<named[m], named[n]>> \in Distinct(T2)
  BY DEF Pairs
<1>2. named[m] # named[n]
  BY <1>1 DEF Distinct
<1>3. ranges[m] # ranges[n]
  BY <1>2
<1> QED
  BY <1>3 DEF Distinct

\* The ranges found are of lines of the file, and no one is found twice.
LEMMA FoundRangesType ==
  ASSUME NEW lang, NEW lines \in Seq(Seq(Tokens))
  PROVE  /\ FoundRanges(lang, lines) \in Seq(RangesOf(lines))
         /\ Pairs(FoundRanges(lang, lines), Distinct(RangesOf(lines)))
<1> DEFINE all == [i \in DOMAIN lines |-> i]
           at == {i \in DOMAIN lines : HasField(lines[i], "name")}
           named == Picked(all, at)
           R == RangesOf(lines)
           D == Distinct(RangesOf(lines))
<1>0. DOMAIN lines = 1 .. Len(lines) /\ Len(lines) \in Nat
  OBVIOUS
<1>1. named \in Seq(DOMAIN lines) /\ Pairs(named, Distinct(DOMAIN lines))
  <2>1. all \in Seq(DOMAIN lines)
    <3>1. all \in [1 .. Len(lines) -> DOMAIN lines]
      BY <1>0
    <3> HIDE DEF all
    <3> QED
      BY <1>0, <3>1, SeqOfMap
  <2>2. \A i \in DOMAIN all : all[i] \in DOMAIN lines
    OBVIOUS
  <2>3. Pairs(all, Distinct(DOMAIN lines))
    <3> SUFFICES ASSUME NEW m \in DOMAIN all, NEW n \in DOMAIN all, m < n
                 PROVE  <<all[m], all[n]>> \in Distinct(DOMAIN lines)
      BY DEF Pairs
    <3>1. all[m] = m /\ all[n] = n /\ m # n /\ m \in DOMAIN lines /\ n \in DOMAIN lines
      BY <1>0
    <3> QED
      BY <3>1 DEF Distinct
  <2> HIDE DEF all, at
  <2> QED
    BY <2>1, <2>2, <2>3, PickedType, PickedPairs
<1> HIDE DEF named
<1>2. DOMAIN named = 1 .. Len(named) /\ Len(named) \in Nat /\ \A n \in DOMAIN named : named[n] \in DOMAIN lines
  BY <1>1
<1> DEFINE single == [n \in DOMAIN named |-> <<named[n], named[n]>>]
           calls == [n \in DOMAIN named |-> AstRange(lines, named[n])]
           braces == [n \in DOMAIN named |-> ExpandBraceRange(lines, named[n])]
<1>2a. ASSUME NEW ranges, ranges \in [DOMAIN named -> R], \A n \in DOMAIN named : ranges[n][1] = named[n]
       PROVE  ranges \in Seq(R) /\ Pairs(ranges, D)
  <2>1. ranges \in Seq(R)
    <3>1. ranges \in [1 .. Len(named) -> R]
      BY <1>2, <1>2a
    <3> HIDE DEF R
    <3> QED
      BY <1>2, <3>1, SeqOfMap
  <2>2. DOMAIN ranges = DOMAIN named /\ \A n \in DOMAIN named : ranges[n] \in R /\ ranges[n][1] = named[n]
    BY <1>2a
  <2>3. Pairs(ranges, Distinct(R))
    <3> HIDE DEF R
    <3> QED
      BY <1>1, <2>2, StartsDistinct
  <2> QED
    BY <2>1, <2>3
<1>3. single \in Seq(R) /\ Pairs(single, D)
  <2>1. ASSUME NEW n \in DOMAIN named PROVE <<named[n], named[n]>> \in R
    <3>1. PICK i \in DOMAIN lines : i = named[n]
      BY <1>2
    <3>2. i \in i .. Len(lines)
      BY <1>0
    <3> QED
      BY <3>1, <3>2, RangeFrom
  <2>2. single \in [DOMAIN named -> R] /\ \A n \in DOMAIN named : single[n][1] = named[n]
    BY <2>1
  <2> HIDE DEF single, R, D
  <2> QED
    BY <1>2a, <2>2
<1>4. calls \in Seq(R) /\ Pairs(calls, D)
  <2>1. \A n \in DOMAIN named : AstRange(lines, named[n]) \in R /\ AstRange(lines, named[n])[1] = named[n]
    BY <1>2, AstRangeType
  <2>2. calls \in [DOMAIN named -> R] /\ \A n \in DOMAIN named : calls[n][1] = named[n]
    BY <2>1
  <2> HIDE DEF calls, R, D
  <2> QED
    BY <1>2a, <2>2
<1>5. braces \in Seq(R) /\ Pairs(braces, D)
  <2>1. \A n \in DOMAIN named : ExpandBraceRange(lines, named[n]) \in R /\ ExpandBraceRange(lines, named[n])[1] = named[n]
    BY <1>2, ExpandBraceRangeType
  <2>2. braces \in [DOMAIN named -> R] /\ \A n \in DOMAIN named : braces[n][1] = named[n]
    BY <2>1
  <2> HIDE DEF braces, R, D
  <2> QED
    BY <1>2a, <2>2
<1> DEFINE others == {n \in DOMAIN calls : ~Contains(single, calls[n])}
           more == Picked(calls, others)
<1>6. more \in Seq(R) /\ Pairs(more, D)
  <2>1. \A n \in DOMAIN calls : calls[n] \in R
    <3> HIDE DEF calls, R
    <3> QED
      BY <1>4
  <2> HIDE DEF calls, others, R, D
  <2> QED
    BY <1>4, <2>1, PickedType, PickedPairs
<1>7. single \o more \in Seq(R) /\ Pairs(single \o more, D)
  <2>1. ASSUME NEW x \in ToSet(single), NEW y \in ToSet(more) PROVE <<x, y>> \in D
    <3>1. PICK n \in DOMAIN calls : n \in others /\ y = calls[n]
      <4> HIDE DEF others, calls, R
      <4> QED
        BY <1>4, PickedElements
    <3>2. ~Contains(single, y)
      BY <3>1
    <3>3. DOMAIN single = 1 .. Len(single)
      <4> HIDE DEF single, R
      <4> QED
        BY <1>3
    <3>4. x # y
      <4> HIDE DEF single
      <4> QED
        BY <3>2, <3>3 DEF Contains, ToSet
    <3>5. x \in R /\ y \in R
      <4> HIDE DEF single, more, R
      <4> QED
        BY <1>3, <1>6 DEF ToSet
    <3> QED
      BY <3>4, <3>5 DEF Distinct
  <2> HIDE DEF single, more, R, D
  <2> QED
    BY <1>3, <1>6, <2>1, ConcatPairs
<1>8. FoundRanges(lang, lines) \in {braces, single \o more, calls}
  BY DEF FoundRanges, named
<1> HIDE DEF braces, single, more, calls, R, D
<1>9. FoundRanges(lang, lines) \in Seq(R) /\ Pairs(FoundRanges(lang, lines), D)
  BY <1>4, <1>5, <1>7, <1>8
<1> QED
  BY <1>9 DEF R, D

\* The ranges left of those found are the outermost ones.
LEMMA OutermostLeft ==
  ASSUME NEW T, NEW ranges \in Seq(T)
  PROVE  /\ DropSubsetRanges(ranges) \in Seq(T)
         /\ \A R : Pairs(ranges, R) => Pairs(DropSubsetRanges(ranges), R)
         /\ ToSet(DropSubsetRanges(ranges)) = Outermost(ToSet(ranges))
<1> DEFINE left == {n \in DOMAIN ranges :
             ~\E big \in ToSet(ranges) : big # ranges[n] /\ Within(ranges[n], big)}
<1>1. DropSubsetRanges(ranges) = Picked(ranges, left)
  BY DEF DropSubsetRanges
<1>2. ASSUME NEW x PROVE x \in ToSet(DropSubsetRanges(ranges)) <=> x \in Outermost(ToSet(ranges))
  <2>1. x \in ToSet(Picked(ranges, left)) <=> \E n \in DOMAIN ranges : n \in left /\ x = ranges[n]
    <3> HIDE DEF left
    <3> QED
      BY PickedElements
  <2>2. (\E n \in DOMAIN ranges : n \in left /\ x = ranges[n])
          <=> x \in ToSet(ranges) /\ ~\E big \in ToSet(ranges) : big # x /\ Within(x, big)
    BY DEF ToSet
  <2>3. x \in Outermost(ToSet(ranges))
          <=> x \in ToSet(ranges) /\ ~\E big \in ToSet(ranges) : big # x /\ Within(x, big)
    BY DEF Outermost
  <2> QED
    BY <1>1, <2>1, <2>2, <2>3
<1>3. DropSubsetRanges(ranges) \in Seq(T)
  <2>1. \A n \in DOMAIN ranges : ranges[n] \in T
    OBVIOUS
  <2> HIDE DEF left
  <2> QED
    BY <1>1, <2>1, PickedType
<1>4. ASSUME NEW R, Pairs(ranges, R) PROVE Pairs(DropSubsetRanges(ranges), R)
  <2> HIDE DEF left
  <2> QED
    BY <1>1, <1>4, PickedPairs
<1> QED
  BY <1>2, <1>3, <1>4

LEMMA RefactorRangesType ==
  ASSUME NEW lang, NEW lines \in Seq(Seq(Tokens))
  PROVE  RefactorRanges(lang, lines) \in Seq(LineRanges)
<1>1. FoundRanges(lang, lines) \in Seq(LineRanges)
  <2>1. FoundRanges(lang, lines) \in Seq(RangesOf(lines)) /\ RangesOf(lines) \subseteq LineRanges
    BY FoundRangesType DEF RangesOf
  <2> QED
    BY <2>1
<1>2. DropSubsetRanges(FoundRanges(lang, lines)) \in Seq(LineRanges) /\ <<>> \in Seq(LineRanges)
  BY <1>1, OutermostLeft
<1> QED
  BY <1>2 DEF RefactorRanges

\* Each range lies within an outermost one: the widest that it lies within.
LEMMA OutermostCovers ==
  ASSUME NEW N \in Nat, NEW found, \A s \in found : s \in LineRanges /\ s[2] <= N, NEW r \in found
  PROVE  \E s \in Outermost(found) : Within(r, s)
<1> DEFINE around == {s \in found : Within(r, s)}
           gap(s) == (N - s[2]) + s[1]
           gaps == {gap(s) : s \in around}
<1>1. \A s \in found : /\ s[1] \in Nat /\ s[2] \in Nat /\ s[2] <= N /\ s = <<s[1], s[2]>>
                       /\ gap(s) \in Nat
  BY DEF LineRanges
<1>2. r \in around
  BY <1>1 DEF Within
<1>3. gaps \subseteq Nat /\ gaps # {}
  BY <1>1, <1>2
<1>4. PICK least \in gaps : \A k \in gaps : least <= k
  <2> HIDE DEF gaps
  <2> QED
    BY <1>3, LeastNat
<1>5. PICK s \in around : least = gap(s)
  OBVIOUS
<1>6. ASSUME NEW t \in found, Within(s, t) PROVE t = s
  <2>1. /\ t[1] <= s[1] /\ s[2] <= t[2] /\ s[1] <= r[1] /\ r[2] <= s[2]
        /\ s \in found
    BY <1>1, <1>6 DEF Within
  <2>2. t \in around
    BY <1>1, <2>1 DEF Within
  <2>3. gap(s) <= gap(t)
    BY <1>4, <1>5, <2>2
  <2>4. t[1] = s[1] /\ t[2] = s[2]
    BY <1>1, <2>1, <2>3
  <2> QED
    BY <1>1, <2>1, <2>4
<1>7. s \in Outermost(found) /\ Within(r, s)
  BY <1>6 DEF Outermost
<1> QED
  BY <1>7

-----------------------------------------------------------------------------
(* The invariants of a refactoring: its types, and the fields kept so far. *)

\* The job is typed: its edits are of files there are, from a line to one not
\* before it, and a call is under way while it edits or is triaged.
Files == ToSet(repo.order)
Edits(files) ==
  {e \in [file : files, from : Nat \ {0}, to : Nat \ {0}, line : BOOLEAN] : e.from <= e.to}
JobsOf(files) ==
  [at : {"turn", "calls", "editing", "triage", "answered", "failed"},
   turn : 0 .. RefactorTurns, calls : 0 .. CallsOfJob, left : 0 .. CallsOfJob, rule : Rules,
   todo : Seq(Edits(files)), touched : SUBSET files,
   scanned : BOOLEAN, byModel : BOOLEAN, ok : BOOLEAN]
Texts(files) == [files -> Seq(Seq(Tokens))]
RefactorInv ==
  /\ repo \in Repos /\ instruction \in Rules
  /\ tf \in JobsOf(Files)
  /\ tf.at \in {"calls", "editing", "triage"} => tf.calls # 0
  /\ body \in Texts(Files) /\ atApply \in Texts(Files)

\* While a migration edits, a file that was plain is plain still, and its
\* fields are kept: also under ranges that the edits before them have moved.
KeptSoFar(p) ==
  Plain(repo.lang[p], atApply[p]) =>
    Plain(repo.lang[p], body[p]) /\ KeptFields(body[p]) = KeptFields(atApply[p])
KeepInv ==
  /\ tf.at = "editing" /\ IsFieldMigration(tf.rule) /\ ~tf.byModel => \A p \in Files : KeptSoFar(p)
  /\ MigrationKeepsFields

LEMMA RefactorTyped == RefactorInv => TransformerTypeOK
<1> SUFFICES ASSUME RefactorInv PROVE TransformerTypeOK
  OBVIOUS
<1>1. [f \in DOMAIN tf \ {"todo", "touched"} |-> tf[f]]
        = [at |-> tf.at, turn |-> tf.turn, calls |-> tf.calls, left |-> tf.left, rule |-> tf.rule,
           scanned |-> tf.scanned, byModel |-> tf.byModel, ok |-> tf.ok]
  BY DEF RefactorInv, JobsOf
<1> QED
  BY <1>1 DEF RefactorInv, JobsOf, Files, Texts, Job, TransformerTypeOK

LEMMA TransformerStarts == TransformerInit => RefactorInv /\ KeepInv
<1> SUFFICES ASSUME TransformerInit PROVE RefactorInv /\ KeepInv
  OBVIOUS
<1>1. body \in Texts(Files) /\ atApply \in Texts(Files)
  BY TransformerAssumption DEF TransformerInit, Texts, Files
<1>2. <<>> \in Seq(Edits(Files)) /\ 0 \in 0 .. RefactorTurns /\ {0, CallsOfJob} \subseteq 0 .. CallsOfJob
  BY TransformerAssumption
<1> QED
  BY <1>1, <1>2 DEF TransformerInit, RefactorInv, JobsOf, KeepInv, MigrationKeepsFields

\* A step that leaves the texts alone and edits nothing.
LEMMA IdleStep ==
  ASSUME RefactorInv, tf' \in JobsOf(Files), tf'.at \in {"turn", "calls", "answered", "failed"},
         tf'.at = "calls" => tf'.calls # 0, UNCHANGED <<repo, instruction, body, atApply>>
  PROVE  RefactorInv' /\ KeepInv'
BY DEF RefactorInv, KeepInv, MigrationKeepsFields, Files

LEMMA CallEndsTyped ==
  ASSUME RefactorInv, tf.at \in {"calls", "triage"}
  PROVE  /\ CallEnds(tf) \in JobsOf(Files) /\ CallEnds(tf).at \in {"turn", "calls"}
         /\ CallEnds(tf).at = "calls" => CallEnds(tf).calls # 0
<1>1. tf \in JobsOf(Files) /\ tf.calls \in 0 .. CallsOfJob /\ tf.calls # 0
  BY DEF RefactorInv, JobsOf
<1>2. tf.calls - 1 \in 0 .. CallsOfJob
  BY <1>1, TransformerAssumption
<1>3. CallEnds(tf) = [tf EXCEPT !.calls = tf.calls - 1, !.at = IF tf.calls = 1 THEN "turn" ELSE "calls"]
  BY DEF CallEnds
<1>5. tf.calls # 1 => tf.calls - 1 # 0
  BY <1>1, TransformerAssumption
<1> DEFINE at == IF tf.calls = 1 THEN "turn" ELSE "calls"
<1>6. at \in {"turn", "calls"} /\ (at = "calls" => tf.calls # 1)
  OBVIOUS
<1> HIDE DEF at
<1>7. CallEnds(tf) = [tf EXCEPT !.calls = tf.calls - 1, !.at = at]
  BY <1>3 DEF at
<1>8. CallEnds(tf) \in JobsOf(Files) /\ CallEnds(tf).at = at /\ CallEnds(tf).calls = tf.calls - 1
  <2>1. PICK c \in 0 .. CallsOfJob : c = tf.calls - 1
    BY <1>2
  <2>2. CallEnds(tf) = [tf EXCEPT !.calls = c, !.at = at]
    BY <1>7, <2>1
  <2>3. /\ [tf EXCEPT !.calls = c, !.at = at] \in JobsOf(Files)
        /\ [tf EXCEPT !.calls = c, !.at = at].at = at /\ [tf EXCEPT !.calls = c, !.at = at].calls = c
    BY <1>1, <1>6 DEF JobsOf
  <2> QED
    BY <2>1, <2>2, <2>3
<1> QED
  BY <1>5, <1>6, <1>8

-----------------------------------------------------------------------------
Target(t) == t.file \in Files /\ t.ranges \in Seq(LineRanges) /\ t.lines \in Seq(Nat \ {0})

LEMMA EditsOfType ==
  ASSUME NEW t, Target(t)
  PROVE  EditsOf(t) \in Seq(Edits(Files))
<1> DEFINE ranges == [n \in DOMAIN t.ranges |->
             [file |-> t.file, from |-> t.ranges[n][1], to |-> t.ranges[n][2], line |-> FALSE]]
           lines == [n \in DOMAIN t.lines |->
             [file |-> t.file, from |-> t.lines[n], to |-> t.lines[n], line |-> TRUE]]
<1>1. ranges \in Seq(Edits(Files))
  <2>1. DOMAIN t.ranges = 1 .. Len(t.ranges) /\ Len(t.ranges) \in Nat
    BY DEF Target
  <2>2. ASSUME NEW n \in DOMAIN t.ranges
        PROVE  [file |-> t.file, from |-> t.ranges[n][1], to |-> t.ranges[n][2], line |-> FALSE] \in Edits(Files)
    <3>1. t.ranges[n] \in LineRanges
      BY DEF Target
    <3>2. t.ranges[n][1] \in Nat \ {0} /\ t.ranges[n][2] \in Nat \ {0} /\ t.ranges[n][1] <= t.ranges[n][2]
      BY <3>1 DEF LineRanges
    <3> QED
      BY <3>2 DEF Target, Edits
  <2>3. ranges \in [1 .. Len(t.ranges) -> Edits(Files)]
    BY <2>1, <2>2
  <2> HIDE DEF ranges
  <2> QED
    BY <2>1, <2>3, SeqOfMap
<1>2. lines \in Seq(Edits(Files))
  <2>1. DOMAIN t.lines = 1 .. Len(t.lines) /\ Len(t.lines) \in Nat
    BY DEF Target
  <2>2. ASSUME NEW n \in DOMAIN t.lines
        PROVE  [file |-> t.file, from |-> t.lines[n], to |-> t.lines[n], line |-> TRUE] \in Edits(Files)
    <3>1. t.lines[n] \in Nat \ {0}
      BY DEF Target
    <3> QED
      BY <3>1 DEF Target, Edits
  <2>3. lines \in [1 .. Len(t.lines) -> Edits(Files)]
    BY <2>1, <2>2
  <2> HIDE DEF lines
  <2> QED
    BY <2>1, <2>3, SeqOfMap
<1>3. EditsOf(t) = ranges \o lines
  BY DEF EditsOf
<1> HIDE DEF ranges, lines
<1> QED
  BY <1>1, <1>2, <1>3

\* Targets of which those in files there are have their shape.
Targets(targets) ==
  targets \in Seq(ToSet(targets)) /\ \A t \in ToSet(targets) : t.file \in Files => Target(t)

LEMMA BeginTyped ==
  ASSUME RefactorInv, tf.at = "calls", NEW targets, Targets(targets), NEW rule \in Rules,
         NEW scanned \in BOOLEAN, Begins(targets, rule, scanned)
  PROVE  RefactorInv' /\ KeepInv'
<1> DEFINE there == Existing(targets)
           parts == [n \in DOMAIN there |-> EditsOf(there[n])]
           Shaped == {t \in ToSet(targets) : Target(t)}
<1>1. there \in Seq(Shaped)
  <2>1. \A n \in DOMAIN targets : n \in {m \in DOMAIN targets : targets[m].file \in ToSet(repo.order)} => targets[n] \in Shaped
    BY DEF Targets, Files, ToSet
  <2>2. Picked(targets, {m \in DOMAIN targets : targets[m].file \in ToSet(repo.order)}) \in Seq(Shaped)
    <3> HIDE DEF Shaped
    <3>1. targets \in Seq(ToSet(targets))
      BY DEF Targets
    <3> QED
      BY <2>1, <3>1, PickedType
  <2> QED
    BY <2>2 DEF Existing
<1> HIDE DEF there
<1>2. parts \in Seq(Seq(Edits(Files)))
  <2>1. DOMAIN there = 1 .. Len(there) /\ Len(there) \in Nat /\ \A n \in DOMAIN there : Target(there[n])
    BY <1>1
  <2>2. \A n \in DOMAIN there : EditsOf(there[n]) \in Seq(Edits(Files))
    BY <2>1, EditsOfType
  <2>3. parts \in [1 .. Len(there) -> Seq(Edits(Files))]
    BY <2>1, <2>2
  <2> HIDE DEF parts
  <2> QED
    BY <2>1, <2>3, SeqOfMap
<1>3. FlattenSeq(parts) \in Seq(Edits(Files))
  <2> HIDE DEF parts
  <2> QED
    BY <1>2, FlattenType
<1>4. tf' = [tf EXCEPT !.at = "editing", !.rule = rule, !.touched = {}, !.byModel = FALSE,
                       !.scanned = scanned, !.todo = FlattenSeq(parts)]
  BY DEF Begins, there
<1>5. atApply' = body /\ UNCHANGED <<repo, instruction, body>>
  BY DEF Begins
<1> HIDE DEF parts
<1>6. tf' \in JobsOf(Files) /\ tf'.at = "editing" /\ tf'.calls # 0
  BY <1>3, <1>4 DEF RefactorInv, JobsOf
<1>7. RefactorInv'
  BY <1>5, <1>6 DEF RefactorInv, Files
<1>8. \A p \in Files' : KeptSoFar(p)'
  BY <1>5 DEF KeptSoFar
<1> QED
  BY <1>6, <1>7, <1>8 DEF KeepInv, MigrationKeepsFields

LEMMA FoundTargetsType ==
  ASSUME RefactorInv
  PROVE  FoundTargets \in Seq([file : Files, ranges : Seq(LineRanges), lines : {<<>>}])
<1> DEFINE ranges(p) == RefactorRanges(repo.lang[p], body[p])
           at == {n \in DOMAIN repo.order : repo.order[n] \in repo.production /\ ranges(repo.order[n]) # <<>>}
           files == Picked(repo.order, at)
           found == [n \in DOMAIN files |-> [file |-> files[n], ranges |-> ranges(files[n]), lines |-> <<>>]]
           Found == [file : Files, ranges : Seq(LineRanges), lines : {<<>>}]
<1>1. \A p \in Files : ranges(p) \in Seq(LineRanges)
  BY RefactorRangesType DEF RefactorInv, Texts
<1>2. files \in Seq(Files)
  <2>1. repo.order \in Seq(Files) /\ \A n \in DOMAIN repo.order : repo.order[n] \in Files
    BY TransformerAssumption DEF RefactorInv, Files
  <2> HIDE DEF at
  <2> QED
    BY <2>1, PickedType
<1> HIDE DEF files, ranges
<1>3. found \in Seq(Found)
  <2>1. DOMAIN files = 1 .. Len(files) /\ Len(files) \in Nat /\ \A n \in DOMAIN files : files[n] \in Files
    BY <1>2
  <2>2. \A n \in DOMAIN files : [file |-> files[n], ranges |-> ranges(files[n]), lines |-> <<>>] \in Found
    BY <1>1, <2>1
  <2>3. found \in [1 .. Len(files) -> Found]
    BY <2>1, <2>2
  <2> HIDE DEF found, Found
  <2> QED
    BY <2>1, <2>3, SeqOfMap
<1>4. FoundTargets = found
  BY DEF FoundTargets, files, ranges
<1> QED
  BY <1>3, <1>4

LEMMA GatherTyped == RefactorInv /\ GatherAndApply => RefactorInv' /\ KeepInv'
<1> SUFFICES ASSUME RefactorInv, GatherAndApply PROVE RefactorInv' /\ KeepInv'
  OBVIOUS
<1> DEFINE Found == [file : Files, ranges : Seq(LineRanges), lines : {<<>>}]
           targets == InScope(FoundTargets)
<1>1. targets \in Seq(Found)
  <2>1. FoundTargets \in Seq(Found)
    BY FoundTargetsType
  <2> HIDE DEF Found
  <2>2. \A positions : Picked(FoundTargets, positions) \in Seq(Found)
    <3>1. \A n \in DOMAIN FoundTargets : FoundTargets[n] \in Found
      BY <2>1
    <3> QED
      BY <2>1, <3>1, PickedType
  <2> QED
    BY <2>2 DEF InScope
<1>2. tf.at = "calls" /\ Begins(targets, instruction, TRUE)
  BY DEF GatherAndApply
<1> HIDE DEF targets
<1>3. \A t \in ToSet(targets) : Target(t)
  <2>1. \A n \in DOMAIN targets : targets[n] \in Found
    <3> HIDE DEF Found
    <3> QED
      BY <1>1
  <2>2. \A t \in ToSet(targets) : t \in Found
    <3> HIDE DEF Found
    <3> QED
      BY <2>1 DEF ToSet
  <2>3. <<>> \in Seq(Nat \ {0})
    OBVIOUS
  <2> QED
    BY <2>2, <2>3 DEF Target
<1>4. targets \in Seq(ToSet(targets))
  <2>1. DOMAIN targets = 1 .. Len(targets) /\ Len(targets) \in Nat
    BY <1>1
  <2>2. targets \in [1 .. Len(targets) -> ToSet(targets)]
    BY <1>1 DEF ToSet
  <2> QED
    BY <2>1, <2>2, SeqOfMap
<1> HIDE DEF Found
<1>5. Targets(targets)
  BY <1>3, <1>4 DEF Targets
<1> QED
  BY <1>2, <1>5, BeginTyped DEF RefactorInv

-----------------------------------------------------------------------------
(* A refactoring, step by step. *)

LEMMA ApplyTyped == RefactorInv /\ ApplyCodemod => RefactorInv' /\ KeepInv'
<1> SUFFICES ASSUME RefactorInv, ApplyCodemod PROVE RefactorInv' /\ KeepInv'
  OBVIOUS
<1>1. PICK targets \in TargetLists, rule \in Rules : Begins(targets, rule, FALSE)
  BY DEF ApplyCodemod
<1>2. Targets(targets)
  BY TransformerAssumption DEF Targets, Target
<1> QED
  BY <1>1, <1>2, BeginTyped DEF ApplyCodemod

\* The head of what is to be edited.
LEMMA HeadIsEdit ==
  ASSUME RefactorInv, tf.todo # <<>>
  PROVE  /\ Head(tf.todo) \in Edits(Files) /\ Tail(tf.todo) \in Seq(Edits(Files))
         /\ Head(tf.todo).file \in Files /\ Head(tf.todo).from \in Nat \ {0}
         /\ Head(tf.todo).to \in Nat \ {0} /\ Head(tf.todo).from <= Head(tf.todo).to
<1>1. tf.todo \in Seq(Edits(Files))
  BY DEF RefactorInv, JobsOf
<1>2. Head(tf.todo) \in Edits(Files) /\ Tail(tf.todo) \in Seq(Edits(Files))
  BY <1>1, HeadTailProperties
<1> QED
  BY <1>2 DEF Edits

LEMMA SkipTyped ==
  ASSUME RefactorInv, KeepInv, tf.at = "editing", tf.todo # <<>>, EditSkipped
  PROVE  RefactorInv' /\ KeepInv'
<1>1. Tail(tf.todo) \in Seq(Edits(Files))
  BY HeadIsEdit
<1>2. tf' = [tf EXCEPT !.todo = Tail(tf.todo)] /\ UNCHANGED <<repo, instruction, body, atApply>>
  BY DEF EditSkipped
<1>3. tf' \in JobsOf(Files) /\ tf'.at = tf.at /\ tf'.calls = tf.calls /\ tf'.rule = tf.rule /\ tf'.byModel = tf.byModel
  BY <1>1, <1>2 DEF RefactorInv, JobsOf
<1>4. RefactorInv'
  BY <1>2, <1>3 DEF RefactorInv, Files
<1> QED
  BY <1>2, <1>3, <1>4 DEF KeepInv, KeptSoFar, MigrationKeepsFields, Files

LEMMA SplicedTyped ==
  ASSUME RefactorInv, NEW e \in Edits(Files), InFile(e), NEW new \in Seq(Seq(Tokens))
  PROVE  /\ Spliced(e, new) \in Texts(Files)
         /\ \A p \in Files \ {e.file} : Spliced(e, new)[p] = body[p]
         /\ Spliced(e, new)[e.file]
              = SubSeq(body[e.file], 1, e.from - 1) \o new \o SubSeq(body[e.file], e.to + 1, Len(body[e.file]))
<1> DEFINE b == body[e.file]
           spliced == SubSeq(b, 1, e.from - 1) \o new \o SubSeq(b, e.to + 1, Len(b))
<1>1. e.file \in Files /\ body \in Texts(Files) /\ e.from \in Nat \ {0} /\ e.to \in Nat /\ e.from <= e.to
  BY DEF Edits, RefactorInv
<1>2. b \in Seq(Seq(Tokens)) /\ Len(b) \in Nat /\ e.to <= Len(b)
  BY <1>1 DEF Texts, InFile
<1> HIDE DEF b
<1>3. SubSeq(b, 1, e.from - 1) \in Seq(Seq(Tokens))
  <2>1. \A i \in 1 .. e.from - 1 : b[i] \in Seq(Tokens)
    BY <1>1, <1>2
  <2>2. 1 \in Int /\ e.from - 1 \in Int
    BY <1>1
  <2> QED
    BY <2>1, <2>2, SubSeqProperties
<1>4. SubSeq(b, e.to + 1, Len(b)) \in Seq(Seq(Tokens))
  <2>1. \A i \in e.to + 1 .. Len(b) : b[i] \in Seq(Tokens)
    BY <1>1, <1>2
  <2>2. e.to + 1 \in Int /\ Len(b) \in Int
    BY <1>1, <1>2
  <2> QED
    BY <2>1, <2>2, SubSeqProperties
<1>5. spliced \in Seq(Seq(Tokens))
  BY <1>3, <1>4
<1>6. Spliced(e, new) = [body EXCEPT ![e.file] = spliced]
  BY DEF Spliced, b
<1> HIDE DEF spliced
<1> QED
  BY <1>1, <1>5, <1>6 DEF Texts, spliced, b

LEMMA EditTyped ==
  ASSUME RefactorInv, KeepInv, tf.at = "editing", tf.todo # <<>>, InFile(Head(tf.todo)),
         NEW new \in Seq(Seq(Tokens)), NEW model \in BOOLEAN, EditDone(new, model),
         IsFieldMigration(tf.rule) /\ ~model =>
           LET e == Head(tf.todo)
           IN \E inTree : new \in Migrated(repo.lang[e.file], inTree, Snippet(e))
  PROVE  RefactorInv' /\ KeepInv'
<1> DEFINE e == Head(tf.todo)
<1>1. e \in Edits(Files) /\ Tail(tf.todo) \in Seq(Edits(Files)) /\ e.file \in Files
      /\ e.from \in Nat \ {0} /\ e.to \in Nat \ {0} /\ e.from <= e.to
  BY HeadIsEdit
<1>2. body' = Spliced(e, new) /\ UNCHANGED <<repo, instruction, atApply>>
      /\ tf' = [tf EXCEPT !.todo = Tail(tf.todo), !.touched = tf.touched \cup {e.file}, !.byModel = tf.byModel \/ model]
  BY DEF EditDone
<1> HIDE DEF e
<1>3. InFile(e)
  BY DEF e
<1>4. body' \in Texts(Files)
  BY <1>1, <1>2, <1>3, SplicedTyped
<1>5. tf \in JobsOf(Files) /\ (tf.byModel \/ model) \in BOOLEAN
  BY DEF RefactorInv, JobsOf
<1>6. /\ tf' \in JobsOf(Files) /\ tf'.at = "editing" /\ tf'.calls = tf.calls /\ tf'.rule = tf.rule
      /\ tf'.byModel = (tf.byModel \/ model)
  <2> DEFINE by == tf.byModel \/ model
  <2>1. by \in BOOLEAN
    BY <1>5
  <2>2. tf' = [tf EXCEPT !.todo = Tail(tf.todo), !.touched = tf.touched \cup {e.file}, !.byModel = by]
    BY <1>2
  <2> HIDE DEF by
  <2>3. tf' \in JobsOf(Files) /\ tf'.at = "editing" /\ tf'.calls = tf.calls /\ tf'.rule = tf.rule
        /\ tf'.byModel = by
    BY <1>1, <1>5, <2>1, <2>2 DEF JobsOf
  <2> QED
    BY <2>3 DEF by
<1>7. RefactorInv'
  BY <1>2, <1>4, <1>6 DEF RefactorInv, Files
<1>8. ASSUME IsFieldMigration(tf.rule), ~tf.byModel, ~model, NEW p \in Files PROVE KeptSoFar(p)'
  <2>1. KeptSoFar(p) /\ KeptSoFar(e.file)
    BY <1>1, <1>8 DEF KeepInv
  <2>2. CASE p # e.file
    <3>1. body'[p] = body[p]
      BY <1>1, <1>2, <1>3, <2>2, SplicedTyped
    <3> QED
      BY <1>2, <2>1, <3>1 DEF KeptSoFar
  <2>3. CASE p = e.file
    <3> DEFINE b == body[p]
               lang == repo.lang[p]
    <3>1. SUFFICES ASSUME Plain(lang, atApply[p])
                   PROVE  Plain(lang, body'[p]) /\ KeptFields(body'[p]) = KeptFields(atApply[p])
      BY <1>2 DEF KeptSoFar
    <3>2. Plain(lang, b) /\ KeptFields(b) = KeptFields(atApply[p])
      BY <2>1, <3>1 DEF KeptSoFar
    <3>3. b \in Seq(Seq(Tokens)) /\ Len(b) \in Nat /\ e.to <= Len(b)
      BY <1>3, <2>3 DEF RefactorInv, Texts, InFile
    <3>4. PICK inTree : new \in Migrated(lang, inTree, Snippet(e))
      BY <1>8, <2>3 DEF e
    <3>5. Snippet(e) = SubSeq(b, e.from, e.to)
      <4>1. Min({e.to, Len(b)}) = e.to
        <5>1. {e.to, Len(b)} \subseteq Nat /\ {e.to, Len(b)} # {}
          BY <1>1, <3>3
        <5>2. Min({e.to, Len(b)}) \in {e.to, Len(b)} /\ \A i \in {e.to, Len(b)} : Min({e.to, Len(b)}) <= i
          BY <5>1, MinOf
        <5> QED
          BY <1>1, <3>3, <5>2
      <4> QED
        BY <2>3, <4>1 DEF Snippet
    <3> HIDE DEF b, lang
    <3>6. SubSeq(b, e.from, e.to) \in Seq(Seq(Tokens)) /\ Plain(lang, SubSeq(b, e.from, e.to))
      <4>1. \A i \in e.from .. e.to : b[i] \in Seq(Tokens) /\ PlainLine(lang, b[i])
        BY <1>1, <3>2, <3>3 DEF Plain
      <4>2. e.from \in Int /\ e.to \in Int
        BY <1>1
      <4>3. /\ SubSeq(b, e.from, e.to) \in Seq(Seq(Tokens))
            /\ Len(SubSeq(b, e.from, e.to)) = IF e.from <= e.to THEN e.to - e.from + 1 ELSE 0
            /\ \A i \in 1 .. e.to - e.from + 1 : SubSeq(b, e.from, e.to)[i] = b[e.from + i - 1]
        BY <4>1, <4>2, SubSeqProperties
      <4>4. ASSUME NEW i \in DOMAIN SubSeq(b, e.from, e.to) PROVE PlainLine(lang, SubSeq(b, e.from, e.to)[i])
        <5>1. i \in 1 .. e.to - e.from + 1 /\ e.from + i - 1 \in e.from .. e.to
          BY <1>1, <4>3
        <5> QED
          BY <4>1, <4>3, <5>1
      <4> QED
        BY <4>3, <4>4 DEF Plain
    <3>7. Plain(lang, new) /\ KeptFields(new) = KeptFields(SubSeq(b, e.from, e.to))
      <4>1. new \in Migrated(lang, inTree, SubSeq(b, e.from, e.to))
        BY <3>4, <3>5
      <4>2. PICK snippet \in Seq(Seq(Tokens)) : snippet = SubSeq(b, e.from, e.to)
        BY <3>6
      <4>3. Plain(lang, new) /\ KeptFields(new) = KeptFields(snippet)
        <5>1. Plain(lang, snippet) /\ new \in Migrated(lang, inTree, snippet)
          BY <3>6, <4>1, <4>2
        <5>2. SnippetsKeepFields
          BY MigratedKeeps DEF SnippetsKeepFields
        <5> QED
          BY <5>1, <5>2 DEF SnippetsKeepFields
      <4> QED
        BY <4>2, <4>3
    <3> DEFINE spliced == Splice(b, e.from, e.to, new)
    <3>8. Plain(lang, spliced) /\ KeptFields(spliced) = KeptFields(b)
      <4>1. PICK from \in Nat \ {0}, to \in Nat : from = e.from /\ to = e.to
        BY <1>1
      <4>2. from <= to /\ to <= Len(b) /\ KeptFields(new) = KeptFields(SubSeq(b, from, to))
        BY <1>1, <3>3, <3>7, <4>1
      <4>3. Plain(lang, Splice(b, from, to, new)) /\ KeptFields(Splice(b, from, to, new)) = KeptFields(b)
        BY <3>2, <3>3, <3>7, <4>2, SpliceKeeps
      <4> QED
        BY <4>1, <4>3
    <3>9. body'[p] = spliced
      BY <1>1, <1>2, <1>3, <2>3, SplicedTyped DEF b, Splice
    <3> QED
      BY <3>2, <3>8, <3>9
  <2> QED
    BY <2>2, <2>3
<1> QED
  BY <1>2, <1>6, <1>7, <1>8 DEF KeepInv, MigrationKeepsFields, Files

LEMMA RangeTyped == RefactorInv /\ KeepInv /\ EditRange => RefactorInv' /\ KeepInv'
<1> SUFFICES ASSUME RefactorInv, KeepInv, EditRange PROVE RefactorInv' /\ KeepInv'
  OBVIOUS
<1> DEFINE e == Head(tf.todo)
           texts == IF IsFieldMigration(tf.rule)
                    THEN Migrated(repo.lang[e.file], e.file \in repo.placed, Snippet(e)) ELSE Rewrites
<1>1. tf.at = "editing" /\ tf.todo # <<>>
      /\ (EditSkipped \/ \E new \in texts : InFile(e) /\ EditDone(new, ~IsFieldMigration(tf.rule)))
  BY DEF EditRange
<1>2. ASSUME NEW new \in texts, InFile(e), EditDone(new, ~IsFieldMigration(tf.rule))
      PROVE  RefactorInv' /\ KeepInv'
  <2> DEFINE model == ~IsFieldMigration(tf.rule)
  <2>1. model \in BOOLEAN /\ EditDone(new, model)
    BY <1>2
  <2>2. Snippet(e) \in Seq(Seq(Tokens))
    <3>1. e.file \in Files /\ e.from \in Nat \ {0} /\ e.to \in Nat \ {0}
      BY <1>1, HeadIsEdit
    <3> DEFINE b == body[e.file]
               last == Min({e.to, Len(b)})
    <3>2. b \in Seq(Seq(Tokens)) /\ Len(b) \in Nat /\ e.to <= Len(b)
      BY <1>2, <3>1 DEF RefactorInv, Texts, InFile
    <3> HIDE DEF b, e
    <3>3. last \in Nat /\ last <= Len(b)
      <4>1. {e.to, Len(b)} \subseteq Nat /\ {e.to, Len(b)} # {}
        BY <3>1, <3>2
      <4>2. last \in {e.to, Len(b)} /\ \A i \in {e.to, Len(b)} : last <= i
        BY <4>1, MinOf
      <4> QED
        BY <3>1, <3>2, <4>2
    <3> HIDE DEF last
    <3>4. \A i \in e.from .. last : b[i] \in Seq(Tokens)
      BY <3>1, <3>2, <3>3
    <3>5. SubSeq(b, e.from, last) \in Seq(Seq(Tokens))
      <4>1. e.from \in Int /\ last \in Int
        BY <3>1, <3>3
      <4> QED
        BY <3>4, <4>1, SubSeqProperties
    <3> QED
      BY <3>5 DEF Snippet, last, b
  <2>3. new \in Seq(Seq(Tokens))
    <3>1. CASE IsFieldMigration(tf.rule)
      BY <1>2, <2>2, <3>1, MigratedType
    <3>2. CASE ~IsFieldMigration(tf.rule)
      <4>1. new \in Rewrites
        BY <1>2, <3>2
      <4> QED
        BY <4>1, TransformerAssumption
    <3> QED
      BY <3>1, <3>2
  <2>4. ~model => new \in Migrated(repo.lang[e.file], e.file \in repo.placed, Snippet(e))
    BY <1>2
  <2>5. InFile(Head(tf.todo)) /\ (~model => \E inTree : new \in Migrated(repo.lang[Head(tf.todo).file], inTree, Snippet(Head(tf.todo))))
    BY <1>2, <2>4
  <2> HIDE DEF model, texts, e
  <2> QED
    BY <1>1, <2>1, <2>3, <2>5, EditTyped
<1> QED
  BY <1>1, <1>2, SkipTyped

LEMMA FailTyped ==
  ASSUME RefactorInv, tf' = [tf EXCEPT !.at = "failed"], UNCHANGED <<repo, instruction, body, atApply>>
  PROVE  RefactorInv' /\ KeepInv'
<1>1. tf' \in JobsOf(Files) /\ tf'.at = "failed"
  BY DEF RefactorInv, JobsOf
<1> QED
  BY <1>1, IdleStep

LEMMA LineTyped == RefactorInv /\ KeepInv /\ EditLine => RefactorInv' /\ KeepInv'
<1> SUFFICES ASSUME RefactorInv, KeepInv, EditLine PROVE RefactorInv' /\ KeepInv'
  OBVIOUS
<1>1. tf.at = "editing" /\ tf.todo # <<>>
  BY DEF EditLine
<1>2. ASSUME InFile(Head(tf.todo)), NEW new \in Rewrites, EditDone(<<Head(new)>>, TRUE)
      PROVE  RefactorInv' /\ KeepInv'
  <2>1. new \in Seq(Seq(Tokens)) /\ new # <<>>
    BY TransformerAssumption
  <2>2. <<Head(new)>> \in Seq(Seq(Tokens))
    <3>1. Head(new) \in Seq(Tokens)
      BY <2>1, HeadTailProperties
    <3> QED
      BY <3>1
  <2> QED
    BY <1>1, <1>2, <2>2, EditTyped
<1> QED
  BY <1>1, <1>2, SkipTyped, FailTyped DEF EditLine

LEMMA EndTyped == RefactorInv /\ KeepInv /\ EditsEnd => RefactorInv' /\ KeepInv'
<1> SUFFICES ASSUME RefactorInv, KeepInv, EditsEnd PROVE RefactorInv' /\ KeepInv'
  OBVIOUS
<1>1. CASE tf.touched = {}
  BY <1>1, FailTyped DEF EditsEnd
<1>2. CASE tf.touched # {}
  <2>1. /\ tf' = [tf EXCEPT !.at = "triage", !.touched = tf.touched \cup TypesToMigrate]
        /\ tf.at = "editing" /\ UNCHANGED <<repo, instruction, atApply>>
        /\ body' = [p \in DOMAIN body |-> IF p \in TypesToMigrate THEN TypeMigrated(body[p]) ELSE body[p]]
    BY <1>2 DEF EditsEnd, TouchedWith
  <2>2. DOMAIN body = Files /\ \A p \in Files : body[p] \in Seq(Seq(Tokens))
    BY DEF RefactorInv, Texts
  <2>3. \A p \in Files : TypeMigrated(body[p]) \in Seq(Seq(Tokens))
    BY <2>2, TypeMigratedType
  <2>4. body' \in Texts(Files)
    BY <2>1, <2>2, <2>3 DEF Texts
  <2>5. TypesToMigrate \subseteq Files
    BY TransformerAssumption DEF TypesToMigrate, RefactorInv, Files
  <2>6. /\ tf' \in JobsOf(Files) /\ tf'.at = "triage" /\ tf'.calls = tf.calls /\ tf'.rule = tf.rule
        /\ tf'.byModel = tf.byModel
    BY <2>1, <2>5 DEF RefactorInv, JobsOf
  <2>7. RefactorInv'
    BY <2>1, <2>4, <2>6 DEF RefactorInv, Files
  <2>8. ASSUME IsFieldMigration(tf.rule), ~tf.byModel, NEW p \in Files, Plain(repo.lang[p], atApply[p])
        PROVE  KeptFields(body'[p]) = KeptFields(atApply[p])
    <3>1. Plain(repo.lang[p], body[p]) /\ KeptFields(body[p]) = KeptFields(atApply[p])
      BY <2>1, <2>8 DEF KeepInv, KeptSoFar
    <3>2. KeptFields(TypeMigrated(body[p])) = KeptFields(body[p])
      BY <2>2, <3>1, TypeMigratedKeeps
    <3>3. body'[p] \in {body[p], TypeMigrated(body[p])}
      BY <2>1, <2>2
    <3> QED
      BY <3>1, <3>2, <3>3
  <2>9. tf'.touched \subseteq Files
    BY <2>6 DEF JobsOf
  <2> QED
    BY <2>1, <2>6, <2>7, <2>8, <2>9 DEF KeepInv, MigrationKeepsFields
<1> QED
  BY <1>1, <1>2

LEMMA TriageTyped == RefactorInv /\ Triage => RefactorInv' /\ KeepInv'
<1> SUFFICES ASSUME RefactorInv, Triage PROVE RefactorInv' /\ KeepInv'
  OBVIOUS
<1> DEFINE Edited == {[body EXCEPT ![p][1] = <<"code">>] : p \in {q \in tf.touched : body[q] # <<>>}}
<1>1. PICK now \in {body} \cup Edited, passed \in BOOLEAN :
        body' = now /\ tf' = [CallEnds(tf) EXCEPT !.ok = @ \/ (passed /\ VerificationPassed(now))]
  BY Zenon DEF Triage
<1>2. tf.at = "triage" /\ UNCHANGED <<repo, instruction, atApply>>
  BY DEF Triage
<1>3. now = body \/ \E p \in tf.touched : body[p] # <<>> /\ now = [body EXCEPT ![p][1] = <<"code">>]
  BY Zenon
<1> HIDE DEF Edited
<1>4. now \in Texts(Files)
  <2>1. ASSUME NEW p \in tf.touched, body[p] # <<>>, now = [body EXCEPT ![p][1] = <<"code">>]
        PROVE  now \in Texts(Files)
    <3>1. p \in Files /\ body \in Texts(Files)
      BY DEF RefactorInv, JobsOf
    <3>2. body[p] \in Seq(Seq(Tokens)) /\ 1 \in 1 .. Len(body[p])
      BY <2>1, <3>1 DEF Texts
    <3>3. <<"code">> \in Seq(Tokens)
      BY DEF Tokens
    <3> DEFINE text == [body[p] EXCEPT ![1] = <<"code">>]
    <3>4. text \in Seq(Seq(Tokens))
      BY <3>2, <3>3, ExceptSeq
    <3>5. now = [body EXCEPT ![p] = text]
      BY <2>1
    <3> HIDE DEF text
    <3> QED
      BY <3>1, <3>4, <3>5 DEF Texts
  <2> QED
    BY <1>3, <2>1 DEF RefactorInv
<1> DEFINE ended == CallEnds(tf)
           ok == ended.ok \/ (passed /\ VerificationPassed(now))
<1>5. /\ ended \in JobsOf(Files) /\ ended.at \in {"turn", "calls"}
      /\ ended.at = "calls" => ended.calls # 0
  BY <1>2, CallEndsTyped
<1>6. tf' = [ended EXCEPT !.ok = ok]
  BY <1>1
<1> HIDE DEF ended
<1>7. ok \in BOOLEAN
  <2>1. ended.ok \in BOOLEAN
    BY <1>5 DEF JobsOf
  <2> QED
    BY <2>1
<1> HIDE DEF ok
<1>8. tf' \in JobsOf(Files) /\ tf'.at = ended.at /\ tf'.calls = ended.calls
  BY <1>5, <1>6, <1>7 DEF JobsOf
<1> QED
  BY <1>1, <1>2, <1>4, <1>5, <1>8 DEF RefactorInv, Files, KeepInv, MigrationKeepsFields

LEMMA TransformerStep ==
  RefactorInv /\ KeepInv /\ [TransformerNext]_transformer => RefactorInv' /\ KeepInv'
<1> SUFFICES ASSUME RefactorInv, KeepInv, [TransformerNext]_transformer PROVE RefactorInv' /\ KeepInv'
  OBVIOUS
<1>1. CASE TakeTurn
  <2>1. PICK n \in 0 .. tf.left :
          tf' = [tf EXCEPT !.turn = tf.turn + 1, !.calls = n, !.left = tf.left - n,
                           !.at = IF n = 0 THEN "turn" ELSE "calls"]
    BY <1>1 DEF TakeTurn
  <2>2. tf.turn \in 0 .. RefactorTurns /\ tf.turn < RefactorTurns /\ tf.left \in 0 .. CallsOfJob
        /\ UNCHANGED <<repo, instruction, body, atApply>>
    BY <1>1 DEF TakeTurn, RefactorInv, JobsOf
  <2> DEFINE at == IF n = 0 THEN "turn" ELSE "calls"
  <2>3. at \in {"turn", "calls"} /\ (at = "calls" => n # 0)
    OBVIOUS
  <2>4. tf' = [tf EXCEPT !.turn = tf.turn + 1, !.calls = n, !.left = tf.left - n, !.at = at]
    BY <2>1
  <2> HIDE DEF at
  <2>5. tf.turn + 1 \in 0 .. RefactorTurns /\ n \in 0 .. CallsOfJob /\ tf.left - n \in 0 .. CallsOfJob
    BY <2>2, TransformerAssumption
  <2>6. tf' \in JobsOf(Files) /\ tf'.at = at /\ tf'.calls = n
    BY <2>3, <2>4, <2>5 DEF RefactorInv, JobsOf
  <2> QED
    BY <2>2, <2>3, <2>6, IdleStep
<1>2. CASE Answer
  <2>1. tf' \in JobsOf(Files) /\ tf'.at = "answered" /\ UNCHANGED <<repo, instruction, body, atApply>>
    BY <1>2 DEF Answer, RefactorInv, JobsOf
  <2> QED
    BY <2>1, IdleStep
<1>3. CASE GatherAndApply
  BY <1>3, GatherTyped
<1>4. CASE GatherEnds
  <2>1. tf.at = "calls" /\ UNCHANGED <<repo, instruction, body, atApply>>
        /\ (tf' = CallEnds(tf) \/ tf' = [tf EXCEPT !.at = "failed"])
    BY <1>4 DEF GatherEnds
  <2>2. CASE tf' = CallEnds(tf)
    BY <2>1, <2>2, CallEndsTyped, IdleStep
  <2> QED
    BY <2>1, <2>2, FailTyped
<1>5. CASE ApplyCodemod
  BY <1>5, ApplyTyped
<1>6. CASE EditRange
  BY <1>6, RangeTyped
<1>7. CASE EditLine
  BY <1>7, LineTyped
<1>8. CASE EditsEnd
  BY <1>8, EndTyped
<1>9. CASE Triage
  BY <1>9, TriageTyped
<1>10. CASE TransformerFails
  BY <1>10, FailTyped DEF TransformerFails
<1>11. CASE UNCHANGED transformer
  BY <1>11 DEF transformer, RefactorInv, KeepInv, KeptSoFar, MigrationKeepsFields, Files
<1> QED
  BY <1>1, <1>2, <1>3, <1>4, <1>5, <1>6, <1>7, <1>8, <1>9, <1>10, <1>11 DEF TransformerNext

-----------------------------------------------------------------------------
(* What a migration makes of the outermost ranges of a regular file. *)

\* What the premise of MigrationReachesAll says of a text.
RegularText(lang, text) ==
  LET found == ToSet(FoundRanges(lang, text))
      snippet(r) == SubSeq(text, r[1], r[2])
  IN /\ FieldsAlone(lang, text) /\ ~SomeLine(text, "definition")
     /\ \A r, s \in Outermost(found) : r = s \/ Apart(r, s)
     /\ \A r \in Outermost(found) :
          /\ \A new \in Migrated(lang, TRUE, snippet(r)) : Len(new) = Len(snippet(r))
          /\ Legacy(snippet(r)) # {} => Migrated(lang, TRUE, snippet(r)) # {}
     /\ \A i \in DOMAIN text :
          Legacy(<<text[i]>>) # {} =>
            /\ \E r \in found : Within(<<i, i>>, r)
            /\ Anywhere(lang) \/ Legacy(<<Tail(text[i])>>) = {}

LEMMA RegularIs ==
  ASSUME NEW p
  PROVE  Regular(p) <=> RegularText(repo.lang[p], atApply[p])
BY DEF Regular, RegularText

RangesTo(lang, text) == Outermost(ToSet(FoundRanges(lang, text)))

\* The outermost ranges are of lines, and no legacy field is outside of them.
LEMMA RegularRanges ==
  ASSUME NEW lang, NEW text \in Seq(Seq(Tokens)), RegularText(lang, text)
  PROVE  /\ RangesTo(lang, text) \subseteq RangesOf(text)
         /\ \A i \in DOMAIN text : Reachable(lang, text[i])
         /\ \A i \in DOMAIN text : Clean(text[i]) \/ \E r \in RangesTo(lang, text) : r[1] <= i /\ i <= r[2]
<1> DEFINE found == ToSet(FoundRanges(lang, text))
<1>1. found \subseteq RangesOf(text)
  <2>1. FoundRanges(lang, text) \in Seq(RangesOf(text))
    BY FoundRangesType
  <2> QED
    BY <2>1 DEF ToSet
<1>2. Outermost(found) \subseteq found
  BY DEF Outermost
<1>3. RangesTo(lang, text) = Outermost(found)
  BY DEF RangesTo
<1>4. ASSUME NEW i \in DOMAIN text
      PROVE  /\ FieldAlone(lang, text[i])
             /\ \/ Clean(text[i])
                \/ (\E r \in found : Within(<<i, i>>, r)) /\ (Anywhere(lang) \/ Clean(Tail(text[i])))
  <2>1. text[i] \in Seq(Tokens)
    OBVIOUS
  <2>2. FieldAlone(lang, text[i])
    BY DEF RegularText, FieldsAlone
  <2>3. CASE Legacy(<<text[i]>>) = {}
    <3>1. Clean(text[i])
      BY <2>1, <2>3, LegacyOfOne
    <3> QED
      BY <2>2, <3>1
  <2>4. CASE Legacy(<<text[i]>>) # {}
    <3>1. (\E r \in found : Within(<<i, i>>, r)) /\ (Anywhere(lang) \/ Legacy(<<Tail(text[i])>>) = {})
      BY <2>4 DEF RegularText
    <3>2. ASSUME Legacy(<<Tail(text[i])>>) = {} PROVE Clean(text[i]) \/ Clean(Tail(text[i]))
      <4>1. CASE text[i] = <<>>
        BY <4>1 DEF Clean
      <4>2. CASE text[i] # <<>>
        <5>1. Tail(text[i]) \in Seq(Tokens)
          BY <2>1, <4>2, HeadTailProperties
        <5> QED
          BY <3>2, <5>1, LegacyOfOne
      <4> QED
        BY <4>1, <4>2
    <3> QED
      BY <2>2, <3>1, <3>2
  <2> QED
    BY <2>3, <2>4
<1>5. \A i \in DOMAIN text : Reachable(lang, text[i])
  BY <1>4 DEF Reachable
<1>6. ASSUME NEW i \in DOMAIN text, NEW r \in found, Within(<<i, i>>, r)
      PROVE  \E s \in RangesTo(lang, text) : s[1] <= i /\ i <= s[2]
  <2>1. PICK N \in Nat : N = Len(text)
    OBVIOUS
  <2>2. \A s \in found : s \in LineRanges /\ s[2] <= N
    BY <1>1, <2>1 DEF RangesOf
  <2> HIDE DEF found
  <2>3. PICK s \in Outermost(found) : Within(r, s)
    BY <2>2, OutermostCovers
  <2>4. s \in LineRanges /\ r \in LineRanges /\ i \in Nat
    BY <1>2, <2>2, <2>3
  <2>5. s[1] <= r[1] /\ r[1] <= i /\ i <= r[2] /\ r[2] <= s[2]
    BY <1>6, <2>3 DEF Within
  <2>6. s[1] <= i /\ i <= s[2]
    BY <2>4, <2>5 DEF LineRanges
  <2> QED
    BY <1>3, <2>3, <2>6
<1> QED
  BY <1>1, <1>2, <1>3, <1>4, <1>5, <1>6

\* The lines of a part.
LEMMA PartLines ==
  ASSUME NEW text \in Seq(Seq(Tokens)), NEW from \in Nat \ {0}, NEW to \in Nat, from <= to, to <= Len(text)
  PROVE  /\ SubSeq(text, from, to) \in Seq(Seq(Tokens)) /\ Len(SubSeq(text, from, to)) = to - from + 1
         /\ \A i \in 1 .. to - from + 1 : i + from - 1 \in DOMAIN text /\ SubSeq(text, from, to)[i] = text[i + from - 1]
<1>1. \A i \in from .. to : text[i] \in Seq(Tokens)
  OBVIOUS
<1>2. /\ SubSeq(text, from, to) \in Seq(Seq(Tokens))
      /\ Len(SubSeq(text, from, to)) = IF from <= to THEN to - from + 1 ELSE 0
      /\ \A i \in 1 .. to - from + 1 : SubSeq(text, from, to)[i] = text[from + i - 1]
  <2>1. from \in Int /\ to \in Int
    OBVIOUS
  <2> QED
    BY <1>1, <2>1, SubSeqProperties
<1>3. ASSUME NEW i \in 1 .. to - from + 1 PROVE i + from - 1 \in DOMAIN text /\ from + i - 1 = i + from - 1
  OBVIOUS
<1> QED
  BY <1>2, <1>3

\* What the migration makes of an outermost range: as many lines, all clean.
LEMMA RangeMigrates ==
  ASSUME NEW lang, NEW text \in Seq(Seq(Tokens)), RegularText(lang, text),
         NEW from \in Nat \ {0}, NEW to \in Nat, <<from, to>> \in RangesTo(lang, text),
         NEW snippet, snippet = SubSeq(text, from, to)
  PROVE  /\ \A new \in Migrated(lang, TRUE, snippet) :
              new \in Seq(Seq(Tokens)) /\ Len(new) = to - from + 1 /\ AllClean(new)
         /\ Migrated(lang, TRUE, snippet) = {} => AllClean(snippet)
<1>1. <<from, to>> \in RangesOf(text)
  BY RegularRanges
<1>2. from <= to /\ to <= Len(text)
  BY <1>1 DEF RangesOf, LineRanges
<1>3. /\ snippet \in Seq(Seq(Tokens)) /\ Len(snippet) = to - from + 1
      /\ \A i \in 1 .. to - from + 1 : i + from - 1 \in DOMAIN text /\ snippet[i] = text[i + from - 1]
  BY <1>2, PartLines
<1>4. \A i \in DOMAIN snippet : Reachable(lang, snippet[i])
  <2>1. \A i \in DOMAIN text : Reachable(lang, text[i])
    BY RegularRanges
  <2>2. DOMAIN snippet = 1 .. to - from + 1
    BY <1>3
  <2> QED
    BY <1>3, <2>1, <2>2
<1>5. /\ \A new \in Migrated(lang, TRUE, snippet) : Len(new) = Len(snippet)
      /\ Legacy(snippet) # {} => Migrated(lang, TRUE, snippet) # {}
  <2>1. PICK r : r = <<from, to>>
    OBVIOUS
  <2>2. r \in Outermost(ToSet(FoundRanges(lang, text))) /\ SubSeq(text, r[1], r[2]) = snippet
    BY <2>1 DEF RangesTo
  <2> QED
    BY <2>2 DEF RegularText
<1>6. ASSUME NEW new \in Migrated(lang, TRUE, snippet) PROVE new \in Seq(Seq(Tokens)) /\ AllClean(new)
  <2>1. new \in Seq(Seq(Tokens))
    BY <1>3, MigratedType
  <2>2. AllClean(new)
    BY <1>3, <1>4, MigratedCleans
  <2> QED
    BY <2>1, <2>2
<1>7. Legacy(snippet) = {} => AllClean(snippet)
  BY <1>3, LegacyIs DEF AllClean
<1> QED
  BY <1>3, <1>5, <1>6, <1>7

-----------------------------------------------------------------------------
(* The edits left reach every line with a legacy field. *)

\* While a migration edits file p, which had this text: the edits left of it are
\* of outermost ranges, apart from one another and not yet touched, and a line
\* with a legacy field lies in one of them.
EditOf(e, p, i) == e.file = p /\ e.from <= i /\ i <= e.to
Untouched(e, lang, text, now) ==
  /\ ~e.line /\ <<e.from, e.to>> \in RangesTo(lang, text)
  /\ \A i \in DOMAIN text : e.from <= i /\ i <= e.to => now[i] = text[i]
ApartIn(p) ==
  {pair \in Edits(Files) \X Edits(Files) :
     pair[1].file = p /\ pair[2].file = p =>
       Apart(<<pair[1].from, pair[1].to>>, <<pair[2].from, pair[2].to>>)}
Reaching(p, lang, text, now, todo) ==
  /\ now \in Seq(Seq(Tokens)) /\ Len(now) = Len(text)
  /\ Pairs(todo, ApartIn(p))
  /\ \A n \in DOMAIN todo : todo[n].file = p => Untouched(todo[n], lang, text, now)
  /\ \A i \in DOMAIN text : Clean(now[i]) \/ \E n \in DOMAIN todo : EditOf(todo[n], p, i)

LEMMA TailIs ==
  ASSUME NEW S, NEW s \in Seq(S), s # <<>>
  PROVE  /\ 1 \in DOMAIN s /\ s[1] = Head(s) /\ Tail(s) \in Seq(S)
         /\ \A n \in DOMAIN Tail(s) : n + 1 \in DOMAIN s /\ Tail(s)[n] = s[n + 1]
         /\ \A n \in DOMAIN s : n = 1 \/ (n - 1 \in DOMAIN Tail(s) /\ Tail(s)[n - 1] = s[n])
<1>1. Len(s) \in Nat \ {0} /\ DOMAIN s = 1 .. Len(s)
  OBVIOUS
<1>2. Tail(s) \in Seq(S) /\ Len(Tail(s)) = Len(s) - 1 /\ \A n \in 1 .. Len(s) - 1 : Tail(s)[n] = s[n + 1]
  OBVIOUS
<1>3. DOMAIN Tail(s) = 1 .. Len(s) - 1
  BY <1>2
<1>4. ASSUME NEW n \in DOMAIN s, n # 1 PROVE n - 1 \in DOMAIN Tail(s) /\ Tail(s)[n - 1] = s[n]
  <2>1. PICK m : m = n - 1
    OBVIOUS
  <2>2. m \in 1 .. Len(s) - 1 /\ m + 1 = n
    BY <1>1, <1>4, <2>1
  <2> QED
    BY <1>2, <1>3, <2>1, <2>2
<1> QED
  BY <1>1, <1>2, <1>3, <1>4

\* One edit less: of another file, or one that leaves its lines clean and the
\* others as they are.
LEMMA EditReaches ==
  ASSUME NEW p, NEW lang, NEW text \in Seq(Seq(Tokens)), NEW now, NEW now2 \in Seq(Seq(Tokens)),
         NEW todo \in Seq(Edits(Files)), todo # <<>>, Reaching(p, lang, text, now, todo),
         Len(now2) = Len(now),
         \A i \in DOMAIN text : IF EditOf(Head(todo), p, i) THEN Clean(now2[i]) ELSE now2[i] = now[i]
  PROVE  Reaching(p, lang, text, now2, Tail(todo))
<1> DEFINE e == Head(todo)
           rest == Tail(todo)
<1>1. /\ 1 \in DOMAIN todo /\ todo[1] = e /\ rest \in Seq(Edits(Files))
      /\ \A n \in DOMAIN rest : n + 1 \in DOMAIN todo /\ rest[n] = todo[n + 1]
      /\ \A n \in DOMAIN todo : n = 1 \/ (n - 1 \in DOMAIN rest /\ rest[n - 1] = todo[n])
  BY TailIs
<1>2. DOMAIN rest = 1 .. Len(rest) /\ Len(rest) \in Nat /\ DOMAIN text = 1 .. Len(text) /\ Len(text) \in Nat
  BY <1>1
<1> HIDE DEF e, rest
<1>3. \A i \in DOMAIN text : IF EditOf(e, p, i) THEN Clean(now2[i]) ELSE now2[i] = now[i]
  BY DEF e
<1>4. Pairs(rest, ApartIn(p))
  <2> SUFFICES ASSUME NEW m \in DOMAIN rest, NEW n \in DOMAIN rest, m < n
               PROVE  <<rest[m], rest[n]>> \in ApartIn(p)
    BY DEF Pairs
  <2>1. PICK k \in DOMAIN todo, l \in DOMAIN todo : k = m + 1 /\ l = n + 1 /\ rest[m] = todo[k] /\ rest[n] = todo[l]
    BY <1>1
  <2>2. k < l
    BY <1>2, <2>1
  <2> QED
    BY <2>1, <2>2 DEF Reaching, Pairs
<1>5. ASSUME NEW n \in DOMAIN rest, rest[n].file = p
      PROVE  Untouched(rest[n], lang, text, now2)
  <2>1. PICK k \in DOMAIN todo : k = n + 1 /\ rest[n] = todo[k]
    BY <1>1
  <2>2. 1 < k
    BY <1>2, <2>1
  <2>3. Untouched(rest[n], lang, text, now)
    BY <1>5, <2>1 DEF Reaching
  <2>4. <<e, rest[n]>> \in ApartIn(p)
    BY <1>1, <2>1, <2>2 DEF Reaching, Pairs
  <2>5. ASSUME e.file = p PROVE e.to < rest[n].from \/ rest[n].to < e.from
    <3>1. PICK x, y : x = <<e.from, e.to>> /\ y = <<rest[n].from, rest[n].to>>
      OBVIOUS
    <3>2. Apart(x, y)
      BY <1>5, <2>4, <2>5, <3>1 DEF ApartIn
    <3> QED
      BY <3>1, <3>2 DEF Apart
  <2>6. ASSUME NEW i \in DOMAIN text, rest[n].from <= i, i <= rest[n].to PROVE now2[i] = text[i]
    <3>1. now[i] = text[i]
      BY <2>3, <2>6 DEF Untouched
    <3>2. ~EditOf(e, p, i)
      <4> SUFFICES ASSUME e.file = p, e.from <= i, i <= e.to PROVE FALSE
        BY DEF EditOf
      <4>1. e \in Edits(Files) /\ rest[n] \in Edits(Files)
        BY <1>1
      <4>2. PICK a, b, c, d : a = e.from /\ b = e.to /\ c = rest[n].from /\ d = rest[n].to
        OBVIOUS
      <4>3. a \in Nat /\ b \in Nat /\ c \in Nat /\ d \in Nat
        BY <4>1, <4>2 DEF Edits
      <4>4. a <= i /\ i <= b /\ c <= i /\ i <= d /\ (b < c \/ d < a)
        BY <2>5, <2>6, <4>2
      <4>5. i \in Nat
        BY <1>2
      <4> QED
        BY <4>3, <4>4, <4>5
    <3> QED
      BY <1>3, <3>1, <3>2
  <2> QED
    BY <2>3, <2>6 DEF Untouched
<1>6. ASSUME NEW i \in DOMAIN text, ~Clean(now2[i]) PROVE \E n \in DOMAIN rest : EditOf(rest[n], p, i)
  <2>1. ~EditOf(e, p, i) /\ now2[i] = now[i]
    BY <1>3, <1>6
  <2>2. PICK n \in DOMAIN todo : EditOf(todo[n], p, i)
    BY <1>6, <2>1 DEF Reaching
  <2>3. n # 1
    BY <1>1, <2>1, <2>2
  <2> QED
    BY <1>1, <2>2, <2>3
<1>7. Len(now2) = Len(text)
  BY DEF Reaching
<1>8. Reaching(p, lang, text, now2, rest)
  BY <1>4, <1>5, <1>6, <1>7 DEF Reaching
<1> QED
  BY <1>8 DEF rest

\* A range replaced by as many lines.
ConcatIs(s, t) ==
  /\ s \o t \in Seq(Seq(Tokens)) /\ Len(s \o t) = Len(s) + Len(t)
  /\ \A i \in 1 .. Len(s) + Len(t) : (s \o t)[i] = IF i <= Len(s) THEN s[i] ELSE t[i - Len(s)]

LEMMA ConcatLines ==
  ASSUME NEW s \in Seq(Seq(Tokens)), NEW t \in Seq(Seq(Tokens)) PROVE ConcatIs(s, t)
BY ConcatProperties DEF ConcatIs

SplicedIn(b, from, to, new, out) ==
  /\ out \in Seq(Seq(Tokens)) /\ Len(out) = Len(b)
  /\ \A i \in DOMAIN b :
       IF from <= i /\ i <= to THEN i - from + 1 \in DOMAIN new /\ out[i] = new[i - from + 1]
       ELSE out[i] = b[i]

LEMMA SpliceLines ==
  ASSUME NEW b \in Seq(Seq(Tokens)), NEW from \in Nat \ {0}, NEW to \in Nat, from <= to, to <= Len(b),
         NEW new \in Seq(Seq(Tokens)), Len(new) = to - from + 1
  PROVE  SplicedIn(b, from, to, new, Splice(b, from, to, new))
<1> DEFINE pre == SubSeq(b, 1, from - 1)
           post == SubSeq(b, to + 1, Len(b))
           N == Len(b)
<1>0. N \in Nat /\ DOMAIN b = 1 .. N /\ DOMAIN new = 1 .. to - from + 1 /\ to <= N
  OBVIOUS
<1>1. pre \in Seq(Seq(Tokens)) /\ Len(pre) = from - 1 /\ \A i \in 1 .. from - 1 : pre[i] = b[i]
  <2>1. \A i \in 1 .. from - 1 : b[i] \in Seq(Tokens)
    BY <1>0
  <2>2. 1 \in Int /\ from - 1 \in Int
    OBVIOUS
  <2>3. /\ SubSeq(b, 1, from - 1) \in Seq(Seq(Tokens))
        /\ Len(SubSeq(b, 1, from - 1)) = IF 1 <= from - 1 THEN from - 1 - 1 + 1 ELSE 0
        /\ \A i \in 1 .. from - 1 - 1 + 1 : SubSeq(b, 1, from - 1)[i] = b[1 + i - 1]
    BY <2>1, <2>2, SubSeqProperties
  <2>4. /\ from - 1 - 1 + 1 = from - 1 /\ \A i \in 1 .. from - 1 : 1 + i - 1 = i
        /\ (IF 1 <= from - 1 THEN from - 1 - 1 + 1 ELSE 0) = from - 1
    OBVIOUS
  <2>5. Len(pre) = from - 1
    BY <2>3, <2>4
  <2>6. \A i \in 1 .. from - 1 : pre[i] = b[i]
    BY <2>3, <2>4
  <2> QED
    BY <2>3, <2>5, <2>6
<1>2. /\ post \in Seq(Seq(Tokens)) /\ Len(post) = N - to
      /\ \A i \in 1 .. N - to : post[i] = b[to + i]
  <2>1. \A i \in to + 1 .. N : b[i] \in Seq(Tokens)
    BY <1>0
  <2>2. to + 1 \in Int /\ N \in Int
    BY <1>0
  <2> HIDE DEF N
  <2>3. /\ SubSeq(b, to + 1, N) \in Seq(Seq(Tokens))
        /\ Len(SubSeq(b, to + 1, N)) = IF to + 1 <= N THEN N - (to + 1) + 1 ELSE 0
        /\ \A i \in 1 .. N - (to + 1) + 1 : SubSeq(b, to + 1, N)[i] = b[(to + 1) + i - 1]
    BY <2>1, <2>2, SubSeqProperties
  <2>4. N - (to + 1) + 1 = N - to /\ (\A i \in 1 .. N - to : (to + 1) + i - 1 = to + i) /\ (N - to = 0 \/ to + 1 <= N)
    BY <1>0
  <2>5. post = SubSeq(b, to + 1, N)
    BY DEF N
  <2> QED
    BY <2>3, <2>4, <2>5
<1> HIDE DEF pre, post, N
<1> PICK front, all : front = pre \o new /\ all = front \o post
  OBVIOUS
<1>3. /\ front \in Seq(Seq(Tokens)) /\ Len(front) = to
      /\ \A i \in 1 .. to : front[i] = IF i <= from - 1 THEN pre[i] ELSE new[i - (from - 1)]
  <2>1. /\ front \in Seq(Seq(Tokens)) /\ Len(front) = Len(pre) + Len(new)
        /\ \A i \in 1 .. Len(pre) + Len(new) : front[i] = IF i <= Len(pre) THEN pre[i] ELSE new[i - Len(pre)]
    <3>1. ConcatIs(pre, new)
      BY <1>1, ConcatLines
    <3> QED
      BY <3>1 DEF ConcatIs
  <2>2. Len(pre) + Len(new) = to /\ Len(pre) = from - 1
    BY <1>1
  <2> QED
    BY <2>1, <2>2
<1>4. /\ all \in Seq(Seq(Tokens)) /\ Len(all) = N
      /\ \A i \in 1 .. N : all[i] = IF i <= to THEN front[i] ELSE post[i - to]
  <2>1. /\ all \in Seq(Seq(Tokens)) /\ Len(all) = Len(front) + Len(post)
        /\ \A i \in 1 .. Len(front) + Len(post) : all[i] = IF i <= Len(front) THEN front[i] ELSE post[i - Len(front)]
    <3>1. front \in Seq(Seq(Tokens)) /\ post \in Seq(Seq(Tokens))
      BY <1>2, <1>3
    <3>2. ConcatIs(front, post)
      BY <3>1, ConcatLines
    <3> QED
      BY <3>2 DEF ConcatIs
  <2>2. Len(front) + Len(post) = N /\ Len(front) = to
    BY <1>0, <1>2, <1>3
  <2> QED
    BY <2>1, <2>2
<1>5. ASSUME NEW i \in 1 .. N
      PROVE  IF from <= i /\ i <= to THEN i - from + 1 \in DOMAIN new /\ all[i] = new[i - from + 1]
             ELSE all[i] = b[i]
  <2>1. CASE i < from
    <3>0. i \in 1 .. to /\ i \in 1 .. from - 1 /\ i <= to /\ i <= from - 1
      BY <1>0, <2>1
    <3>1. all[i] = front[i] /\ front[i] = pre[i] /\ pre[i] = b[i]
      BY <1>1, <1>3, <1>4, <3>0
    <3> QED
      BY <2>1, <3>1
  <2>2. CASE from <= i /\ i <= to
    <3>0. i \in 1 .. to /\ i <= to /\ ~(i <= from - 1) /\ i - (from - 1) = i - from + 1
      BY <1>0, <2>2
    <3>1. all[i] = front[i] /\ front[i] = new[i - (from - 1)] /\ i - (from - 1) = i - from + 1
      BY <1>3, <1>4, <3>0
    <3>2. i - from + 1 \in DOMAIN new
      BY <1>0, <2>2
    <3> QED
      BY <2>2, <3>1, <3>2
  <2>3. CASE to < i
    <3>1. i - to \in 1 .. N - to /\ to + (i - to) = i /\ ~(i <= to)
      BY <1>0, <2>3
    <3>2. all[i] = post[i - to] /\ post[i - to] = b[to + (i - to)]
      BY <1>2, <1>4, <3>1
    <3> QED
      BY <2>3, <3>1, <3>2
  <2>4. i < from \/ (from <= i /\ i <= to) \/ to < i
    BY <1>0
  <2> QED
    BY <2>1, <2>2, <2>3, <2>4
<1>6. all = Splice(b, from, to, new)
  BY DEF Splice, pre, post
<1> QED
  <2>1. SplicedIn(b, from, to, new, all)
    BY <1>0, <1>4, <1>5 DEF N, SplicedIn
  <2> QED
    BY <1>6, <2>1

-----------------------------------------------------------------------------
(* An edit done or skipped. *)

\* While a migration edits what a scan found: its files in production, source
\* tree and scope are reached by the edits left.
Aimed == repo.production \cap repo.placed \cap repo.scope
ReachedSoFar(p) ==
  Regular(p) => Reaching(p, repo.lang[p], atApply[p], body[p], tf.todo)
ReachInv ==
  /\ tf.at = "editing" /\ IsFieldMigration(tf.rule) /\ tf.scanned => \A p \in Aimed : ReachedSoFar(p)
  /\ MigrationReachesAll

LEMMA PlaceOfPart ==
  ASSUME NEW from \in Nat, NEW to \in Nat, NEW i \in 1 .. to - from + 1, NEW j, j = i + from - 1
  PROVE  from <= j /\ j <= to
OBVIOUS

LEMMA SamePart ==
  ASSUME NEW text \in Seq(Seq(Tokens)), NEW now \in Seq(Seq(Tokens)), Len(now) = Len(text),
         NEW from \in Nat \ {0}, NEW to \in Nat, from <= to, to <= Len(text),
         \A i \in DOMAIN text : from <= i /\ i <= to => now[i] = text[i]
  PROVE  SubSeq(now, from, to) = SubSeq(text, from, to)
<1> DEFINE a == SubSeq(now, from, to)
           b == SubSeq(text, from, to)
           n == to - from + 1
<1>1. /\ b \in Seq(Seq(Tokens)) /\ Len(b) = n
      /\ \A i \in 1 .. n : i + from - 1 \in DOMAIN text /\ b[i] = text[i + from - 1]
  BY PartLines
<1>2. /\ a \in Seq(Seq(Tokens)) /\ Len(a) = n
      /\ \A i \in 1 .. n : i + from - 1 \in DOMAIN now /\ a[i] = now[i + from - 1]
  BY PartLines
<1> HIDE DEF a, b
<1>3. ASSUME NEW i \in 1 .. n PROVE a[i] = b[i]
  <2>1. PICK j \in DOMAIN text : j = i + from - 1
    BY <1>1
  <2>2. from <= j /\ j <= to
    BY <2>1, PlaceOfPart
  <2> QED
    BY <1>1, <1>2, <2>1, <2>2
<1>4. a = b
  <2>1. Len(a) = Len(b) /\ \A i \in 1 .. Len(a) : a[i] = b[i]
    BY <1>1, <1>2, <1>3
  <2> QED
    BY <1>1, <1>2, <2>1, SeqEqual
<1> QED
  BY <1>4 DEF a, b

LEMMA SnippetIs ==
  ASSUME NEW e, e.to \in Nat, body[e.file] \in Seq(Seq(Tokens)), InFile(e)
  PROVE  Snippet(e) = SubSeq(body[e.file], e.from, e.to)
<1> PICK b \in Seq(Seq(Tokens)), to \in Nat : b = body[e.file] /\ to = e.to
  OBVIOUS
<1>1. Len(b) \in Nat /\ to <= Len(b)
  BY DEF InFile
<1>2. {to, Len(b)} \subseteq Nat /\ {to, Len(b)} # {}
  BY <1>1
<1>3. Min({to, Len(b)}) \in {to, Len(b)} /\ \A i \in {to, Len(b)} : Min({to, Len(b)}) <= i
  BY <1>2, MinOf
<1>4. Min({to, Len(b)}) = to
  BY <1>1, <1>3
<1> QED
  BY <1>4 DEF Snippet

\* An outermost range migrated, or left for it has no legacy field: lines of the
\* text up to it that are not clean are outside of it.
LEMMA PlaceInPart ==
  ASSUME NEW from \in Nat, NEW to \in Nat, NEW i \in Nat, from <= i, i <= to
  PROVE  \E k \in 1 .. to - from + 1 : k + from - 1 = i
<1>1. i - from + 1 \in 1 .. to - from + 1 /\ (i - from + 1) + from - 1 = i
  OBVIOUS
<1> QED
  BY <1>1

SameOn(now, text, from, to) == \A i \in DOMAIN text : from <= i /\ i <= to => now[i] = text[i]
Cleans(lang, text, now, from, to) ==
  /\ from <= to /\ to <= Len(now)
  /\ \A new \in Migrated(lang, TRUE, SubSeq(now, from, to)) :
       new \in Seq(Seq(Tokens)) /\ Len(new) = to - from + 1 /\ AllClean(new)
  /\ Migrated(lang, TRUE, SubSeq(now, from, to)) = {} =>
       \A i \in DOMAIN text : from <= i /\ i <= to => Clean(now[i])

LEMMA RangeCleaned ==
  ASSUME NEW lang, NEW text \in Seq(Seq(Tokens)), RegularText(lang, text),
         NEW now \in Seq(Seq(Tokens)), Len(now) = Len(text),
         NEW from \in Nat \ {0}, NEW to \in Nat, <<from, to>> \in RangesTo(lang, text),
         SameOn(now, text, from, to)
  PROVE  Cleans(lang, text, now, from, to)
<1>1. from <= to /\ to <= Len(text)
  <2>1. <<from, to>> \in RangesOf(text)
    BY RegularRanges
  <2> QED
    BY <2>1 DEF RangesOf, LineRanges
<1> PICK snippet : snippet = SubSeq(text, from, to)
  OBVIOUS
<1>2. SubSeq(now, from, to) = snippet
  BY <1>1, SamePart DEF SameOn
<1>3. /\ \A new \in Migrated(lang, TRUE, snippet) :
           new \in Seq(Seq(Tokens)) /\ Len(new) = to - from + 1 /\ AllClean(new)
      /\ Migrated(lang, TRUE, snippet) = {} => AllClean(snippet)
  BY RangeMigrates
<1>4. /\ snippet \in Seq(Seq(Tokens)) /\ Len(snippet) = to - from + 1
      /\ \A i \in 1 .. to - from + 1 : i + from - 1 \in DOMAIN text /\ snippet[i] = text[i + from - 1]
  BY <1>1, PartLines
<1>5. ASSUME AllClean(snippet), NEW i \in DOMAIN text, from <= i, i <= to PROVE Clean(now[i])
  <2>1. i \in Nat
    OBVIOUS
  <2>2. PICK k \in 1 .. to - from + 1 : k + from - 1 = i
    BY <1>5, <2>1, PlaceInPart
  <2>3. DOMAIN snippet = 1 .. to - from + 1
    BY <1>4
  <2>4. snippet[k] = text[i] /\ k \in DOMAIN snippet
    BY <1>4, <2>2, <2>3
  <2>5. now[i] = text[i]
    BY <1>5 DEF SameOn
  <2> QED
    BY <1>5, <2>4, <2>5 DEF AllClean
<1>6. to <= Len(now)
  BY <1>1
<1> QED
  BY <1>1, <1>2, <1>3, <1>5, <1>6 DEF Cleans

Todos == Seq(Edits(Files))
EditIs(e, p, from, to) == e.file = p /\ e.from = from /\ e.to = to

\* So an edit of the file leaves it within reach, done or skipped.
Leaves(p, lang, text, now, todo, from, to) ==
  /\ ~Head(todo).line /\ from <= to /\ to <= Len(now)
  /\ \A new \in Migrated(lang, TRUE, SubSeq(now, from, to)) :
       new \in Seq(Seq(Tokens)) /\ Reaching(p, lang, text, Splice(now, from, to, new), Tail(todo))
  /\ Migrated(lang, TRUE, SubSeq(now, from, to)) = {} => Reaching(p, lang, text, now, Tail(todo))

LEMMA EditCleans ==
  ASSUME NEW p, NEW lang, NEW text \in Seq(Seq(Tokens)), RegularText(lang, text),
         NEW now \in Seq(Seq(Tokens)), NEW todo \in Todos, todo # <<>>,
         Reaching(p, lang, text, now, todo),
         NEW from \in Nat \ {0}, NEW to \in Nat, EditIs(Head(todo), p, from, to)
  PROVE  Leaves(p, lang, text, now, todo, from, to)
<1>1. Untouched(Head(todo), lang, text, now) /\ Len(now) = Len(text)
  <2>1. 1 \in DOMAIN todo /\ todo[1] = Head(todo)
    BY TailIs DEF Todos
  <2> QED
    BY <2>1 DEF Reaching, EditIs
<1>2. /\ <<from, to>> \in RangesTo(lang, text) /\ ~Head(todo).line
      /\ SameOn(now, text, from, to)
  BY <1>1 DEF Untouched, EditIs, SameOn
<1> PICK texts : texts = Migrated(lang, TRUE, SubSeq(now, from, to))
  OBVIOUS
<1>3. /\ from <= to /\ to <= Len(now)
      /\ \A new \in texts : new \in Seq(Seq(Tokens)) /\ Len(new) = to - from + 1 /\ AllClean(new)
      /\ texts = {} => \A i \in DOMAIN text : from <= i /\ i <= to => Clean(now[i])
  <2>1. Cleans(lang, text, now, from, to)
    BY <1>1, <1>2, RangeCleaned
  <2> QED
    BY <2>1 DEF Cleans
<1>4. \A i \in DOMAIN text : EditOf(Head(todo), p, i) <=> from <= i /\ i <= to
  BY DEF EditOf, EditIs
<1>5. DOMAIN text = DOMAIN now
  <2>1. DOMAIN text = 1 .. Len(text) /\ DOMAIN now = 1 .. Len(now)
    OBVIOUS
  <2> QED
    BY <1>1, <2>1
<1>6. ASSUME NEW new \in texts
      PROVE  Reaching(p, lang, text, Splice(now, from, to, new), Tail(todo))
  <2>1. PICK now2 : now2 = Splice(now, from, to, new)
    OBVIOUS
  <2>2. /\ now2 \in Seq(Seq(Tokens)) /\ Len(now2) = Len(now)
        /\ \A i \in DOMAIN now :
             IF from <= i /\ i <= to THEN i - from + 1 \in DOMAIN new /\ now2[i] = new[i - from + 1]
             ELSE now2[i] = now[i]
    <3>1. new \in Seq(Seq(Tokens)) /\ Len(new) = to - from + 1
      BY <1>3
    <3>2. SplicedIn(now, from, to, new, Splice(now, from, to, new))
      BY <1>3, <3>1, SpliceLines
    <3> QED
      BY <2>1, <3>2 DEF SplicedIn
  <2>3. AllClean(new)
    BY <1>3
  <2>4. \A i \in DOMAIN text : IF EditOf(Head(todo), p, i) THEN Clean(now2[i]) ELSE now2[i] = now[i]
    BY <1>4, <1>5, <2>2, <2>3 DEF AllClean
  <2>5. Reaching(p, lang, text, now2, Tail(todo))
    BY <2>2, <2>4, EditReaches DEF Todos
  <2> QED
    BY <2>1, <2>5
<1>7. ASSUME texts = {} PROVE Reaching(p, lang, text, now, Tail(todo))
  <2>1. \A i \in DOMAIN text : IF EditOf(Head(todo), p, i) THEN Clean(now[i]) ELSE now[i] = now[i]
    BY <1>3, <1>4, <1>7
  <2> QED
    BY <2>1, EditReaches DEF Todos
<1> QED
  BY <1>2, <1>3, <1>6, <1>7 DEF Leaves

\* An edit of a migration leaves the files aimed at within reach.
LEMMA RangeReaches ==
  ASSUME RefactorInv, ReachInv, tf.at = "editing", IsFieldMigration(tf.rule), tf.scanned,
         EditRange, NEW p \in Aimed, Regular(p)
  PROVE  Reaching(p, repo.lang[p], atApply[p], body'[p], Tail(tf.todo))
<1> DEFINE e == Head(tf.todo)
           todo == tf.todo
           texts == Migrated(repo.lang[e.file], e.file \in repo.placed, Snippet(e))
<1> PICK lang, text, now : lang = repo.lang[p] /\ text = atApply[p] /\ now = body[p]
  OBVIOUS
<1>1. p \in Files /\ p \in repo.placed /\ text \in Seq(Seq(Tokens)) /\ now \in Seq(Seq(Tokens))
  BY TransformerAssumption DEF RefactorInv, Texts, Files, Aimed
<1>2. Reaching(p, lang, text, now, todo)
  BY DEF ReachInv, ReachedSoFar
<1>3. /\ todo # <<>> /\ ~e.line
      /\ \/ (texts = {} \/ ~InFile(e)) /\ EditSkipped
         \/ \E new \in texts : InFile(e) /\ EditDone(new, FALSE)
  BY DEF EditRange
<1>4. /\ e \in Edits(Files) /\ todo \in Seq(Edits(Files)) /\ e.file \in Files
      /\ e.from \in Nat \ {0} /\ e.to \in Nat /\ e.from <= e.to
  BY <1>3, HeadIsEdit DEF RefactorInv, JobsOf
<1>5. ASSUME NEW new \in texts, InFile(e), EditDone(new, FALSE) PROVE body' = Spliced(e, new)
  BY <1>5 DEF EditDone
<1>6. EditSkipped => body' = body
  BY DEF EditSkipped
<1> HIDE DEF e, todo
<1>7. CASE e.file # p
  <2>1. body'[p] = now
    <3>1. ASSUME NEW new \in texts, InFile(e), EditDone(new, FALSE) PROVE body'[p] = now
      <4>1. body[e.file] \in Seq(Seq(Tokens))
        BY <1>4 DEF RefactorInv, Texts
      <4>2. Snippet(e) = SubSeq(body[e.file], e.from, e.to)
        BY <1>4, <3>1, <4>1, SnippetIs
      <4>3. Snippet(e) \in Seq(Seq(Tokens))
        BY <1>4, <3>1, <4>1, <4>2, PartLines DEF InFile
      <4>4. new \in Seq(Seq(Tokens))
        BY <3>1, <4>3, MigratedType
      <4>5. Spliced(e, new)[p] = body[p]
        BY <1>1, <1>4, <1>7, <3>1, <4>4, SplicedTyped
      <4> QED
        BY <1>5, <3>1, <4>5
    <3> QED
      BY <1>3, <1>6, <3>1
  <2>2. \A i \in DOMAIN text : ~EditOf(e, p, i)
    BY <1>7 DEF EditOf
  <2>3. Reaching(p, lang, text, now, Tail(todo))
    BY <1>1, <1>2, <1>3, <1>4, <2>2, EditReaches DEF e, todo
  <2> QED
    BY <2>1, <2>3 DEF todo
<1>8. CASE e.file = p
  <2>1. RegularText(lang, text)
    BY RegularIs
  <2> PICK from \in Nat \ {0}, to \in Nat : from = e.from /\ to = e.to
    BY <1>4
  <2>2. /\ to <= Len(now)
        /\ \A new \in Migrated(lang, TRUE, SubSeq(now, from, to)) :
             new \in Seq(Seq(Tokens)) /\ Reaching(p, lang, text, Splice(now, from, to, new), Tail(todo))
        /\ Migrated(lang, TRUE, SubSeq(now, from, to)) = {} => Reaching(p, lang, text, now, Tail(todo))
    <3>1. todo \in Todos /\ todo # <<>> /\ e = Head(todo) /\ Head(todo).file = p
      BY <1>3, <1>4, <1>8 DEF Todos, e, todo
    <3>2. EditIs(Head(todo), p, from, to)
      BY <3>1 DEF EditIs
    <3>3. text \in Seq(Seq(Tokens)) /\ now \in Seq(Seq(Tokens))
      BY <1>1
    <3>4. Leaves(p, lang, text, now, todo, from, to)
      BY <1>2, <2>1, <3>1, <3>2, <3>3, EditCleans
    <3> QED
      BY <3>4 DEF Leaves
  <2>3. InFile(e) /\ Snippet(e) = SubSeq(now, from, to)
    <3>1. InFile(e)
      BY <1>8, <2>2 DEF InFile
    <3>2. body[e.file] \in Seq(Seq(Tokens)) /\ e.to \in Nat
      BY <1>1, <1>4, <1>8
    <3>3. Snippet(e) = SubSeq(body[e.file], e.from, e.to)
      BY <3>1, <3>2, SnippetIs
    <3> QED
      BY <1>8, <3>1, <3>3
  <2>4. texts = Migrated(lang, TRUE, SubSeq(now, from, to))
    <3>1. e.file \in repo.placed <=> TRUE
      BY <1>1, <1>8
    <3> QED
      BY <1>8, <2>3, <3>1
  <2> HIDE DEF texts
  <2>9. ASSUME NEW new \in texts, EditDone(new, FALSE)
        PROVE  Reaching(p, lang, text, body'[p], Tail(todo))
    <3>1. new \in Seq(Seq(Tokens)) /\ Reaching(p, lang, text, Splice(now, from, to, new), Tail(todo))
      BY <2>2, <2>4
    <3>2. body'[p] = Splice(now, from, to, new)
      <4>1. Spliced(e, new)[e.file]
              = SubSeq(body[e.file], 1, e.from - 1) \o new \o SubSeq(body[e.file], e.to + 1, Len(body[e.file]))
        BY <1>4, <2>3, <3>1, SplicedTyped
      <4>2. body' = Spliced(e, new)
        BY <1>5, <2>3, <2>9
      <4> QED
        BY <1>8, <4>1, <4>2 DEF Splice
    <3> QED
      BY <3>1, <3>2
  <2>10. ASSUME texts = {}, EditSkipped PROVE Reaching(p, lang, text, body'[p], Tail(todo))
    BY <1>6, <2>2, <2>4, <2>10
  <2>11. Reaching(p, lang, text, body'[p], Tail(todo))
    BY <1>3, <2>3, <2>9, <2>10
  <2> QED
    BY <2>11 DEF todo
<1> QED
  BY <1>7, <1>8

-----------------------------------------------------------------------------
(* What a scan finds. *)

\* What a scan makes of a file, and when it does.
TargetsFound == [file : Files, ranges : Seq(LineRanges), lines : {<<>>}]
TargetOf(q) == [file |-> q, ranges |-> RefactorRanges(repo.lang[q], body[q]), lines |-> <<>>]
IsFound(q) == q \in repo.production /\ RefactorRanges(repo.lang[q], body[q]) # <<>>
OtherFiles == {pair \in TargetsFound \X TargetsFound : pair[1].file # pair[2].file}

LEMMA FoundElements ==
  ASSUME RefactorInv
  PROVE  /\ \A t : t \in ToSet(FoundTargets) <=> \E q \in Files : IsFound(q) /\ t = TargetOf(q)
         /\ Pairs(FoundTargets, OtherFiles)
<1> DEFINE at == {n \in DOMAIN repo.order : IsFound(repo.order[n])}
           files == Picked(repo.order, at)
<1>0. FoundTargets \in Seq(TargetsFound)
  BY FoundTargetsType DEF TargetsFound
<1>1. FoundTargets = [n \in DOMAIN files |-> TargetOf(files[n])]
  BY DEF FoundTargets, IsFound, TargetOf
<1>2. /\ repo.order \in Seq(Files) /\ \A n \in DOMAIN repo.order : repo.order[n] \in Files
      /\ \A m, n \in DOMAIN repo.order : repo.order[m] = repo.order[n] => m = n
  BY TransformerAssumption DEF RefactorInv, Files
<1>3. /\ files \in Seq(Files)
      /\ \A x : x \in ToSet(files) <=> \E n \in DOMAIN repo.order : n \in at /\ x = repo.order[n]
  <2> HIDE DEF at
  <2> QED
    BY <1>2, PickedType, PickedElements
<1>4. Pairs(files, Distinct(Files))
  <2>1. Pairs(repo.order, Distinct(Files))
    <3> SUFFICES ASSUME NEW m \in DOMAIN repo.order, NEW n \in DOMAIN repo.order, m < n
                 PROVE  <<repo.order[m], repo.order[n]>> \in Distinct(Files)
      BY DEF Pairs
    <3>1. m # n
      BY <1>2
    <3>2. repo.order[m] # repo.order[n] /\ repo.order[m] \in Files /\ repo.order[n] \in Files
      BY <1>2, <3>1
    <3> QED
      BY <3>2 DEF Distinct
  <2> HIDE DEF at
  <2> QED
    BY <1>2, <2>1, PickedPairs
<1>5. \A x : x \in ToSet(files) <=> x \in Files /\ IsFound(x)
  <2>1. \A x \in Files : \E n \in DOMAIN repo.order : x = repo.order[n]
    BY DEF Files, ToSet
  <2> QED
    BY <1>2, <1>3, <2>1
<1> HIDE DEF files, at
<1>6. DOMAIN FoundTargets = DOMAIN files /\ \A n \in DOMAIN files : FoundTargets[n] = TargetOf(files[n])
  BY <1>1
<1>7. ASSUME NEW t
      PROVE  t \in ToSet(FoundTargets) <=> \E q \in Files : IsFound(q) /\ t = TargetOf(q)
  <2>1. t \in ToSet(FoundTargets) <=> \E n \in DOMAIN files : t = TargetOf(files[n])
    BY <1>6 DEF ToSet
  <2>2. \A x : x \in ToSet(files) <=> \E n \in DOMAIN files : x = files[n]
    BY DEF ToSet
  <2> QED
    BY <1>5, <2>1, <2>2
<1>8. ASSUME NEW m \in DOMAIN FoundTargets, NEW n \in DOMAIN FoundTargets, m < n
      PROVE  <<FoundTargets[m], FoundTargets[n]>> \in OtherFiles
  <2>1. <<files[m], files[n]>> \in Distinct(Files)
    BY <1>4, <1>6, <1>8 DEF Pairs
  <2>2. files[m] # files[n]
    BY <2>1 DEF Distinct
  <2>3. FoundTargets[m].file # FoundTargets[n].file
    BY <1>6, <2>2 DEF TargetOf
  <2>4. FoundTargets[m] \in TargetsFound /\ FoundTargets[n] \in TargetsFound
    BY <1>0
  <2> QED
    BY <2>3, <2>4 DEF OtherFiles
<1> QED
  BY <1>7, <1>8 DEF Pairs

LEMMA ScopeElements ==
  ASSUME RefactorInv, NEW there, there = Existing(InScope(FoundTargets))
  PROVE  /\ there \in Seq(TargetsFound)
         /\ \A t : t \in ToSet(there) <=> \E q \in Files : IsFound(q) /\ q \in repo.scope /\ t = TargetOf(q)
         /\ Pairs(there, OtherFiles)
<1> PICK all, near : all = FoundTargets /\ near = InScope(FoundTargets)
  OBVIOUS
<1>1. /\ all \in Seq(TargetsFound) /\ Pairs(all, OtherFiles)
      /\ \A t : t \in ToSet(all) <=> \E q \in Files : IsFound(q) /\ t = TargetOf(q)
  BY FoundTargetsType, FoundElements DEF TargetsFound
<1>2. \A s : (\A n \in DOMAIN s : s[n] \in ToSet(s)) /\ \A t \in ToSet(s) : \E n \in DOMAIN s : t = s[n]
  BY DEF ToSet
<1>3. /\ near \in Seq(TargetsFound) /\ Pairs(near, OtherFiles)
      /\ \A t : t \in ToSet(near) <=> t \in ToSet(all) /\ t.file \in repo.scope
  <2> DEFINE at == {n \in DOMAIN all : all[n].file \in repo.scope}
  <2>1. near = Picked(all, at)
    BY DEF InScope
  <2>2. \A n \in DOMAIN all : n \in at <=> all[n].file \in repo.scope
    OBVIOUS
  <2> HIDE DEF at
  <2>3. \A n \in DOMAIN all : all[n] \in TargetsFound
    BY <1>1
  <2>4. near \in Seq(TargetsFound) /\ Pairs(near, OtherFiles)
    BY <1>1, <2>1, <2>3, PickedType, PickedPairs
  <2>5. \A t : t \in ToSet(near) <=> \E n \in DOMAIN all : n \in at /\ t = all[n]
    BY <1>1, <2>1, PickedElements
  <2> QED
    BY <1>2, <2>2, <2>4, <2>5
<1>4. /\ there \in Seq(TargetsFound) /\ Pairs(there, OtherFiles)
      /\ \A t : t \in ToSet(there) <=> t \in ToSet(near) /\ t.file \in Files
  <2> DEFINE at == {n \in DOMAIN near : near[n].file \in ToSet(repo.order)}
  <2>1. there = Picked(near, at)
    BY DEF Existing
  <2>2. \A n \in DOMAIN near : n \in at <=> near[n].file \in Files
    BY DEF Files
  <2> HIDE DEF at
  <2>3. \A n \in DOMAIN near : near[n] \in TargetsFound
    BY <1>3
  <2>4. there \in Seq(TargetsFound) /\ Pairs(there, OtherFiles)
    BY <1>3, <2>1, <2>3, PickedType, PickedPairs
  <2>5. \A t : t \in ToSet(there) <=> \E n \in DOMAIN near : n \in at /\ t = near[n]
    BY <1>3, <2>1, PickedElements
  <2> QED
    BY <1>2, <2>2, <2>4, <2>5
<1>5. ASSUME NEW t
      PROVE  t \in ToSet(there) <=> \E q \in Files : IsFound(q) /\ q \in repo.scope /\ t = TargetOf(q)
  <2>1. t \in ToSet(there) <=> t \in ToSet(all) /\ t.file \in repo.scope /\ t.file \in Files
    BY <1>3, <1>4
  <2>2. \A q : TargetOf(q).file = q
    BY DEF TargetOf
  <2> QED
    BY <1>1, <2>1, <2>2
<1> QED
  BY <1>4, <1>5

\* The edits of a target that a scan found: one of each of its ranges.
RangeEdit(q, r) == [file |-> q, from |-> r[1], to |-> r[2], line |-> FALSE]

LEMMA FoundEdits ==
  ASSUME RefactorInv, NEW q \in Files, NEW ranges, ranges = RefactorRanges(repo.lang[q], body[q])
  PROVE  /\ EditsOf(TargetOf(q)) \in Seq(Edits(Files)) /\ DOMAIN EditsOf(TargetOf(q)) = DOMAIN ranges
         /\ \A n \in DOMAIN ranges : EditsOf(TargetOf(q))[n] = RangeEdit(q, ranges[n])
<1> DEFINE edits == [n \in DOMAIN ranges |-> RangeEdit(q, ranges[n])]
           none == [n \in DOMAIN <<>> |-> [file |-> q, from |-> <<>>[n], to |-> <<>>[n], line |-> TRUE]]
<1>1. ranges \in Seq(LineRanges)
  BY RefactorRangesType DEF RefactorInv, Texts
<1>2. EditsOf(TargetOf(q)) = edits \o none
  BY DEF EditsOf, TargetOf, RangeEdit
<1>3. none = <<>>
  OBVIOUS
<1>4. Target(TargetOf(q))
  <2>1. <<>> \in Seq(Nat \ {0})
    OBVIOUS
  <2> QED
    BY <1>1, <2>1 DEF Target, TargetOf
<1>5. EditsOf(TargetOf(q)) \in Seq(Edits(Files))
  BY <1>4, EditsOfType
<1>6. edits \in Seq({RangeEdit(q, r) : r \in LineRanges}) /\ DOMAIN edits = DOMAIN ranges
  <2> DEFINE T == {RangeEdit(q, r) : r \in LineRanges}
  <2>1. DOMAIN ranges = 1 .. Len(ranges) /\ Len(ranges) \in Nat /\ \A n \in DOMAIN ranges : ranges[n] \in LineRanges
    BY <1>1
  <2>2. \A n \in DOMAIN ranges : RangeEdit(q, ranges[n]) \in T
    BY <2>1
  <2> HIDE DEF T
  <2>3. edits \in [1 .. Len(ranges) -> T] /\ DOMAIN edits = DOMAIN ranges
    BY <2>1, <2>2
  <2> HIDE DEF edits
  <2>4. edits \in Seq(T)
    BY <2>1, <2>3, SeqOfMap
  <2> QED
    BY <2>3, <2>4 DEF T
<1>7. \A n \in DOMAIN ranges : edits[n] = RangeEdit(q, ranges[n])
  OBVIOUS
<1> HIDE DEF edits, none
<1>8. edits \o <<>> = edits
  BY <1>6
<1> QED
  BY <1>2, <1>3, <1>5, <1>6, <1>7, <1>8

-----------------------------------------------------------------------------
(* The edits of what a scan finds. *)

LEMMA FoundEditsOf ==
  ASSUME RefactorInv
  PROVE  \A q \in Files :
           /\ EditsOf(TargetOf(q)) \in Seq(Edits(Files))
           /\ \A e \in ToSet(EditsOf(TargetOf(q))) : e \in Edits(Files) /\ e.file = q
<1> SUFFICES ASSUME NEW q \in Files
             PROVE  /\ EditsOf(TargetOf(q)) \in Seq(Edits(Files))
                    /\ \A e \in ToSet(EditsOf(TargetOf(q))) : e \in Edits(Files) /\ e.file = q
  OBVIOUS
<1> PICK ranges, edits : ranges = RefactorRanges(repo.lang[q], body[q]) /\ edits = EditsOf(TargetOf(q))
  OBVIOUS
<1>1. /\ edits \in Seq(Edits(Files)) /\ DOMAIN edits = DOMAIN ranges
      /\ \A i \in DOMAIN ranges : edits[i] = RangeEdit(q, ranges[i])
  BY FoundEdits
<1>2. \A i \in DOMAIN edits : edits[i] \in Edits(Files) /\ edits[i].file = q
  BY <1>1 DEF RangeEdit
<1> QED
  BY <1>1, <1>2 DEF ToSet

\* In a file that is regular the edits are of its outermost ranges, each once,
\* and so apart.
Regularly(p, lang, text, edits) ==
  /\ edits \in Seq(Edits(Files)) /\ Pairs(edits, ApartIn(p))
  /\ \A e \in ToSet(edits) : e.file = p /\ Untouched(e, lang, text, text)
  /\ \A r \in RangesTo(lang, text) :
       (p \in repo.production => IsFound(p)) /\ RangeEdit(p, r) \in ToSet(edits)

LEMMA RegularEdits ==
  ASSUME RefactorInv, NEW p \in Files, NEW lang, lang = repo.lang[p], NEW text, text = body[p],
         RegularText(lang, text), NEW edits, edits = EditsOf(TargetOf(p))
  PROVE  Regularly(p, lang, text, edits)
<1> PICK ranges : ranges = RefactorRanges(lang, text)
  OBVIOUS
<1>1. text \in Seq(Seq(Tokens))
  BY DEF RefactorInv, Texts
<1>2. /\ ranges \in Seq(RangesOf(text)) /\ Pairs(ranges, Distinct(RangesOf(text)))
      /\ ToSet(ranges) = RangesTo(lang, text)
  <2>1. ranges = DropSubsetRanges(FoundRanges(lang, text))
    BY DEF RefactorRanges, RegularText
  <2>2. FoundRanges(lang, text) \in Seq(RangesOf(text)) /\ Pairs(FoundRanges(lang, text), Distinct(RangesOf(text)))
    BY <1>1, FoundRangesType
  <2> QED
    BY <2>1, <2>2, OutermostLeft DEF RangesTo
<1>3. /\ edits \in Seq(Edits(Files)) /\ DOMAIN edits = DOMAIN ranges
      /\ \A n \in DOMAIN ranges : edits[n] = RangeEdit(p, ranges[n])
  BY FoundEdits
<1>4. \A n \in DOMAIN ranges : ranges[n] \in RangesTo(lang, text) /\ ranges[n] \in RangesOf(text)
  BY <1>2 DEF ToSet
<1>5. \A r \in RangesOf(text) : r = <<r[1], r[2]>>
  BY DEF RangesOf, LineRanges
<1>6. ASSUME NEW m \in DOMAIN edits, NEW n \in DOMAIN edits, m < n PROVE <<edits[m], edits[n]>> \in ApartIn(p)
  <2>1. ranges[m] # ranges[n]
    <3>1. <<ranges[m], ranges[n]>> \in Distinct(RangesOf(text))
      BY <1>2, <1>3, <1>6 DEF Pairs
    <3> QED
      BY <3>1 DEF Distinct
  <2>2. Apart(ranges[m], ranges[n])
    <3>1. \A r, s \in RangesTo(lang, text) : r = s \/ Apart(r, s)
      BY DEF RegularText, RangesTo
    <3> QED
      BY <1>3, <1>4, <2>1, <3>1
  <2>3. Apart(<<edits[m].from, edits[m].to>>, <<edits[n].from, edits[n].to>>)
    <3>1. PICK r, s : r = ranges[m] /\ s = ranges[n]
      OBVIOUS
    <3>2. r = <<r[1], r[2]>> /\ s = <<s[1], s[2]>>
      BY <1>3, <1>4, <1>5, <3>1
    <3>3. edits[m].from = r[1] /\ edits[m].to = r[2] /\ edits[n].from = s[1] /\ edits[n].to = s[2]
      BY <1>3, <3>1 DEF RangeEdit
    <3> QED
      BY <2>2, <3>1, <3>2, <3>3
  <2>4. edits[m] \in Edits(Files) /\ edits[n] \in Edits(Files)
    BY <1>3
  <2> QED
    BY <2>3, <2>4 DEF ApartIn
<1>7. ASSUME NEW n \in DOMAIN edits PROVE edits[n].file = p /\ Untouched(edits[n], lang, text, text)
  <2>1. ranges[n] \in RangesTo(lang, text) /\ ranges[n] = <<ranges[n][1], ranges[n][2]>>
    BY <1>3, <1>4, <1>5
  <2> QED
    BY <1>3, <2>1 DEF RangeEdit, Untouched
<1>8. ASSUME NEW r \in RangesTo(lang, text)
      PROVE  (p \in repo.production => IsFound(p)) /\ RangeEdit(p, r) \in ToSet(edits)
  <2>1. PICK n \in DOMAIN ranges : ranges[n] = r
    BY <1>2 DEF ToSet
  <2>2. ranges # <<>>
    BY <2>1
  <2>3. edits[n] = RangeEdit(p, r) /\ n \in DOMAIN edits
    BY <1>3, <2>1
  <2> QED
    BY <2>2, <2>3 DEF IsFound, ToSet
<1> QED
  <2>1. Pairs(edits, ApartIn(p))
    BY <1>6 DEF Pairs
  <2>2. \A e \in ToSet(edits) : e.file = p /\ Untouched(e, lang, text, text)
    BY <1>7 DEF ToSet
  <2> QED
    BY <1>3, <1>8, <2>1, <2>2 DEF Regularly

\* The edits of what a scan finds reach the files aimed at.
LEMMA ScanReaches ==
  ASSUME RefactorInv, NEW there, there = Existing(InScope(FoundTargets)),
         NEW todo, todo = FlattenSeq([n \in DOMAIN there |-> EditsOf(there[n])]),
         NEW p \in Aimed, NEW lang, lang = repo.lang[p], NEW text, text = body[p], RegularText(lang, text)
  PROVE  Reaching(p, lang, text, text, todo)
<1> DEFINE parts == [n \in DOMAIN there |-> EditsOf(there[n])]
           S == Edits(Files)
<1>0. /\ p \in Files /\ p \in repo.production /\ p \in repo.scope /\ text \in Seq(Seq(Tokens))
  BY TransformerAssumption DEF RefactorInv, Texts, Files, Aimed
<1>1. /\ there \in Seq(TargetsFound) /\ Pairs(there, OtherFiles)
      /\ \A t : t \in ToSet(there) <=> \E q \in Files : IsFound(q) /\ q \in repo.scope /\ t = TargetOf(q)
  BY ScopeElements
<1>2. DOMAIN there = 1 .. Len(there) /\ Len(there) \in Nat
  BY <1>1
<1>3. ASSUME NEW n \in DOMAIN there
      PROVE  there[n].file \in Files /\ there[n] = TargetOf(there[n].file) /\ IsFound(there[n].file)
  <2>1. PICK q \in Files : IsFound(q) /\ there[n] = TargetOf(q)
    BY <1>1 DEF ToSet
  <2>2. there[n].file = q
    BY <2>1 DEF TargetOf
  <2> QED
    BY <2>1, <2>2
<1>4. ASSUME NEW n \in DOMAIN there
      PROVE  /\ parts[n] \in Seq(S)
             /\ \A e \in ToSet(parts[n]) : e \in S /\ e.file = there[n].file
  <2> PICK q \in Files : q = there[n].file /\ there[n] = TargetOf(q)
    BY <1>3
  <2>1. EditsOf(TargetOf(q)) \in Seq(S) /\ \A e \in ToSet(EditsOf(TargetOf(q))) : e \in S /\ e.file = q
    BY FoundEditsOf
  <2>2. parts[n] = EditsOf(TargetOf(q))
    OBVIOUS
  <2> QED
    BY <2>1, <2>2
<1>5. parts \in Seq(Seq(S)) /\ DOMAIN parts = DOMAIN there
  <2>1. DOMAIN parts = DOMAIN there /\ parts \in [1 .. Len(there) -> Seq(S)]
    BY <1>2, <1>4
  <2> HIDE DEF parts, S
  <2> QED
    BY <1>2, <2>1, SeqOfMap
<1>6. ASSUME NEW n \in DOMAIN there, there[n].file = p
      PROVE  parts[n] = EditsOf(TargetOf(p))
  BY <1>3, <1>6
<1>7. todo = FlattenSeq(parts)
  OBVIOUS
<1> HIDE DEF parts
<1>8. \A e : e \in ToSet(todo) <=> \E n \in DOMAIN there : e \in ToSet(parts[n])
  <2> HIDE DEF S
  <2>1. \A e : e \in ToSet(FlattenSeq(parts)) <=> \E n \in DOMAIN parts : e \in ToSet(parts[n])
    BY <1>5, FlattenElements
  <2> QED
    BY <1>5, <1>7, <2>1
<1> PICK edits : edits = EditsOf(TargetOf(p))
  OBVIOUS
<1>9. /\ edits \in Seq(S) /\ Pairs(edits, ApartIn(p))
      /\ \A e \in ToSet(edits) : e.file = p /\ Untouched(e, lang, text, text)
      /\ \A r \in RangesTo(lang, text) : IsFound(p) /\ RangeEdit(p, r) \in ToSet(edits)
  <2>1. Regularly(p, lang, text, edits)
    BY <1>0, RegularEdits
  <2> QED
    BY <1>0, <2>1 DEF Regularly
<1>10. Pairs(todo, ApartIn(p))
  <2>1. ASSUME NEW n \in DOMAIN parts PROVE Pairs(parts[n], ApartIn(p))
    <3>1. CASE there[n].file = p
      BY <1>5, <1>6, <1>9, <2>1, <3>1
    <3>2. CASE there[n].file # p
      <4>1. \A i \in DOMAIN parts[n] : parts[n][i] \in S /\ parts[n][i].file # p
        BY <1>4, <1>5, <3>2 DEF ToSet
      <4> QED
        BY <4>1 DEF Pairs, ApartIn
    <3> QED
      BY <3>1, <3>2
  <2>2. ASSUME NEW i \in DOMAIN parts, NEW j \in DOMAIN parts, i < j, NEW x \in ToSet(parts[i]), NEW y \in ToSet(parts[j])
        PROVE  <<x, y>> \in ApartIn(p)
    <3>1. there[i].file # there[j].file
      <4>1. <<there[i], there[j]>> \in OtherFiles
        BY <1>1, <1>5, <2>2 DEF Pairs
      <4> QED
        BY <4>1 DEF OtherFiles
    <3>2. x \in S /\ x.file = there[i].file /\ y \in S /\ y.file = there[j].file
      BY <1>4, <1>5
    <3> QED
      BY <3>1, <3>2 DEF ApartIn
  <2> HIDE DEF S
  <2> QED
    BY <1>5, <1>7, <2>1, <2>2, FlattenPairs
<1>11. ASSUME NEW n \in DOMAIN todo, todo[n].file = p PROVE Untouched(todo[n], lang, text, text)
  <2>1. todo[n] \in ToSet(todo)
    BY DEF ToSet
  <2>2. PICK k \in DOMAIN there : todo[n] \in ToSet(parts[k])
    BY <1>8, <2>1
  <2>3. there[k].file = p
    BY <1>4, <1>11, <2>2
  <2> QED
    BY <1>6, <1>9, <2>2, <2>3
<1>12. ASSUME NEW i \in DOMAIN text, ~Clean(text[i]) PROVE \E n \in DOMAIN todo : EditOf(todo[n], p, i)
  <2>1. PICK r \in RangesTo(lang, text) : r[1] <= i /\ i <= r[2]
    BY <1>0, <1>12, RegularRanges
  <2>2. IsFound(p) /\ RangeEdit(p, r) \in ToSet(edits)
    BY <1>9
  <2>3. PICK k \in DOMAIN there : there[k] = TargetOf(p)
    <3>1. TargetOf(p) \in ToSet(there)
      BY <1>0, <1>1, <2>2
    <3> QED
      BY <3>1 DEF ToSet
  <2>4. there[k].file = p
    BY <2>3 DEF TargetOf
  <2>5. RangeEdit(p, r) \in ToSet(todo)
    BY <1>6, <1>8, <2>2, <2>4
  <2>6. PICK n \in DOMAIN todo : todo[n] = RangeEdit(p, r)
    BY <2>5 DEF ToSet
  <2>7. EditOf(RangeEdit(p, r), p, i)
    BY <2>1 DEF EditOf, RangeEdit
  <2> QED
    BY <2>6, <2>7
<1> QED
  BY <1>0, <1>10, <1>11, <1>12 DEF Reaching

-----------------------------------------------------------------------------
(* A scan and its edits, step by step. *)

LEMMA IdleReaches ==
  ASSUME tf'.at \notin {"editing", "triage"} PROVE ReachInv'
BY DEF ReachInv, MigrationReachesAll

\* Files stay where they are, and so does what is within reach.
LEMMA ReachingStays ==
  ASSUME UNCHANGED repo, NEW CONSTANT p, NEW CONSTANT lang, NEW CONSTANT text, NEW CONSTANT now, NEW CONSTANT todo,
         Reaching(p, lang, text, now, todo)
  PROVE  Reaching(p, lang, text, now, todo)'
<1>1. ApartIn(p)' = ApartIn(p)
  BY DEF ApartIn, Files
<1> QED
  BY <1>1 DEF Reaching

LEMMA GatherReaches == RefactorInv /\ GatherAndApply => ReachInv'
<1> SUFFICES ASSUME RefactorInv, GatherAndApply PROVE ReachInv'
  OBVIOUS
<1> PICK there : there = Existing(InScope(FoundTargets))
  OBVIOUS
<1> PICK todo : todo = FlattenSeq([n \in DOMAIN there |-> EditsOf(there[n])])
  OBVIOUS
<1>1. Begins(InScope(FoundTargets), instruction, TRUE)
  BY DEF GatherAndApply
<1>2. /\ tf' = [tf EXCEPT !.at = "editing", !.rule = instruction, !.touched = {}, !.byModel = FALSE,
                         !.scanned = TRUE, !.todo = todo]
      /\ atApply' = body /\ UNCHANGED <<repo, body>>
  BY <1>1 DEF Begins
<1>3. tf'.at = "editing" /\ tf'.todo = todo
  BY <1>2 DEF RefactorInv, JobsOf
<1>4. ASSUME NEW p \in Aimed, Regular(p)' PROVE Reaching(p, repo.lang[p], body[p], body[p], todo)
  <2>1. RegularText(repo.lang[p], body[p])
    BY <1>2, <1>4 DEF Regular, RegularText
  <2>2. PICK lang, text : lang = repo.lang[p] /\ text = body[p]
    OBVIOUS
  <2> QED
    BY <2>1, <2>2, ScanReaches
<1>5. \A p \in Aimed' : ReachedSoFar(p)'
  <2> SUFFICES ASSUME NEW p \in Aimed, Regular(p)'
               PROVE  Reaching(p, repo.lang[p], body[p], body[p], todo)'
    BY <1>2, <1>3 DEF ReachedSoFar, Aimed
  <2>1. Reaching(p, repo.lang[p], body[p], body[p], todo)
    BY <1>4
  <2> PICK lang, text : lang = repo.lang[p] /\ text = body[p]
    OBVIOUS
  <2>2. Reaching(p, lang, text, text, todo)'
    BY <1>2, <2>1, ReachingStays
  <2>3. lang = repo'.lang[p] /\ text = body'[p]
    BY <1>2
  <2> QED
    BY <2>2, <2>3
<1> QED
  BY <1>3, <1>5 DEF ReachInv, MigrationReachesAll

LEMMA EditsReach ==
  ASSUME RefactorInv, ReachInv, EditRange \/ EditLine
  PROVE  ReachInv'
<1>1. CASE tf'.at \notin {"editing", "triage"}
  BY <1>1, IdleReaches
<1>2. CASE tf'.at \in {"editing", "triage"}
  <2>1. /\ tf.at = "editing" /\ tf.todo # <<>> /\ UNCHANGED <<repo, instruction, atApply>>
        /\ tf'.at = tf.at /\ tf'.rule = tf.rule /\ tf'.scanned = tf.scanned /\ tf'.todo = Tail(tf.todo)
    <3>1. EditRange => tf.at = "editing" /\ tf.todo # <<>> /\ (EditSkipped \/ \E new, model : EditDone(new, model))
      BY DEF EditRange
    <3>2. EditLine => /\ tf.at = "editing" /\ tf.todo # <<>>
                      /\ EditSkipped \/ tf'.at = "failed" \/ \E new, model : EditDone(new, model)
      BY DEF EditLine, RefactorInv, JobsOf
    <3>3. EditSkipped => /\ UNCHANGED <<repo, instruction, atApply>> /\ tf'.at = tf.at
                         /\ tf'.rule = tf.rule /\ tf'.scanned = tf.scanned /\ tf'.todo = Tail(tf.todo)
      BY DEF EditSkipped, RefactorInv, JobsOf
    <3>4. ASSUME NEW new, NEW model, EditDone(new, model)
          PROVE  /\ UNCHANGED <<repo, instruction, atApply>> /\ tf'.at = tf.at
                 /\ tf'.rule = tf.rule /\ tf'.scanned = tf.scanned /\ tf'.todo = Tail(tf.todo)
      BY <3>4 DEF EditDone, RefactorInv, JobsOf
    <3> QED
      BY <1>2, <3>1, <3>2, <3>3, <3>4
  <2>2. ASSUME IsFieldMigration(tf.rule), tf.scanned, NEW p \in Aimed, Regular(p)
        PROVE  Reaching(p, repo.lang[p], atApply[p], body'[p], Tail(tf.todo))
    <3>1. CASE EditRange
      BY <2>1, <2>2, <3>1, RangeReaches
    <3>2. CASE EditLine
      <4>1. PICK lang, text, now : lang = repo.lang[p] /\ text = atApply[p] /\ now = body[p]
        OBVIOUS
      <4>2. p \in Files /\ text \in Seq(Seq(Tokens)) /\ now \in Seq(Seq(Tokens))
        BY <4>1, TransformerAssumption DEF RefactorInv, Texts, Files, Aimed
      <4>3. Reaching(p, lang, text, now, tf.todo)
        BY <2>1, <2>2, <4>1 DEF ReachInv, ReachedSoFar
      <4>4. PICK todo, e : todo \in Todos /\ todo = tf.todo /\ e = Head(todo) /\ todo # <<>>
        BY <2>1 DEF RefactorInv, JobsOf, Todos
      <4>5. e.file # p
        <5>1. 1 \in DOMAIN todo /\ todo[1] = e
          BY <4>4, TailIs DEF Todos
        <5>2. e.line
          BY <3>2, <4>4 DEF EditLine
        <5> QED
          BY <4>3, <4>4, <5>1, <5>2 DEF Reaching, Untouched
      <4>6. body'[p] = now
        <5>1. e \in Edits(Files)
          BY <2>1, <4>4, HeadIsEdit
        <5>2. CASE EditSkipped
          BY <4>1, <5>2 DEF EditSkipped
        <5>3. ASSUME NEW new \in Rewrites, InFile(e), EditDone(<<Head(new)>>, TRUE) PROVE body'[p] = now
          <6>1. <<Head(new)>> \in Seq(Seq(Tokens))
            <7>1. new \in Seq(Seq(Tokens)) /\ new # <<>>
              BY TransformerAssumption
            <7>2. Head(new) \in Seq(Tokens)
              BY <7>1, HeadTailProperties
            <7> QED
              BY <7>2
          <6>2. body' = Spliced(e, <<Head(new)>>)
            BY <4>4, <5>3 DEF EditDone
          <6> QED
            BY <4>1, <4>2, <4>5, <5>1, <5>3, <6>1, <6>2, SplicedTyped
        <5>4. tf'.at # "failed"
          BY <1>2
        <5>5. tf' = [tf EXCEPT !.at = "failed"] => tf'.at = "failed"
          BY DEF RefactorInv, JobsOf
        <5> QED
          BY <3>2, <4>4, <5>2, <5>3, <5>4, <5>5 DEF EditLine
      <4>7. \A i \in DOMAIN text : ~EditOf(Head(todo), p, i)
        BY <4>4, <4>5 DEF EditOf
      <4>8. Reaching(p, lang, text, now, Tail(todo))
        BY <4>2, <4>3, <4>4, <4>7, EditReaches DEF Todos
      <4> QED
        BY <4>1, <4>4, <4>6, <4>8
    <3> QED
      BY <3>1, <3>2
  <2>3. ASSUME IsFieldMigration(tf.rule), tf.scanned, NEW p \in Aimed PROVE ReachedSoFar(p)'
    <3>1. Regular(p)' <=> Regular(p)
      BY <2>1 DEF Regular
    <3> SUFFICES ASSUME Regular(p)
                 PROVE  Reaching(p, repo.lang[p], atApply[p], body[p], tf.todo)'
      BY <3>1 DEF ReachedSoFar
    <3> PICK lang, text, now, todo :
          lang = repo.lang[p] /\ text = atApply[p] /\ now = body'[p] /\ todo = Tail(tf.todo)
      OBVIOUS
    <3>2. Reaching(p, lang, text, now, todo)
      BY <2>2, <2>3
    <3>3. Reaching(p, lang, text, now, todo)'
      BY <2>1, <3>2, ReachingStays
    <3>4. lang = repo'.lang[p] /\ text = atApply'[p] /\ now = body'[p] /\ todo = tf'.todo
      BY <2>1
    <3> QED
      BY <3>3, <3>4
  <2> QED
    BY <2>1, <2>3 DEF ReachInv, MigrationReachesAll, Aimed
<1> QED
  BY <1>1, <1>2

\* What the log types become has no legacy field if they had none.
LEMMA TypeMigratedClean ==
  ASSUME NEW lines \in Seq(Seq(Tokens)), AllClean(lines)
  PROVE  AllClean(TypeMigrated(lines))
<1> DEFINE renamed == [i \in DOMAIN lines |-> [j \in DOMAIN lines[i] |-> NewDeclaration(lines[i][j])]]
           at == {i \in DOMAIN lines : ~Superseded(lines, lines[i])}
           S == {line \in Seq(Tokens) : Clean(line)}
<1>1. ASSUME NEW f \in Tokens \ Old PROVE NewDeclaration(f) \in Tokens \ Old
  BY DEF NewDeclaration, Tokens, CallFields, TypeFields, Old
<1>2. ASSUME NEW i \in DOMAIN lines
      PROVE  [j \in DOMAIN lines[i] |-> NewDeclaration(lines[i][j])] \in S
  <2>1. PICK line \in Seq(Tokens) : line = lines[i]
    OBVIOUS
  <2> DEFINE new == [j \in DOMAIN line |-> NewDeclaration(line[j])]
  <2>2. DOMAIN line = 1 .. Len(line) /\ Len(line) \in Nat /\ \A j \in DOMAIN line : line[j] \in Tokens \ Old
    BY <2>1 DEF AllClean, Clean
  <2>3. new \in [1 .. Len(line) -> Tokens \ Old]
    BY <1>1, <2>2
  <2>4. new \in Seq(Tokens) /\ Clean(new)
    <3> HIDE DEF new
    <3>1. new \in [1 .. Len(line) -> Tokens]
      BY <2>3
    <3>2. new \in Seq(Tokens)
      BY <2>2, <3>1, SeqOfMap
    <3> QED
      BY <2>3, <3>2 DEF Clean
  <2> QED
    BY <2>1, <2>4
<1>3. renamed \in Seq(S)
  <2>1. DOMAIN lines = 1 .. Len(lines) /\ Len(lines) \in Nat
    OBVIOUS
  <2> HIDE DEF S
  <2>2. renamed \in [1 .. Len(lines) -> S]
    BY <1>2, <2>1
  <2> HIDE DEF renamed
  <2> QED
    BY <2>1, <2>2, SeqOfMap
<1>4. TypeMigrated(lines) = Picked(renamed, at)
  BY DEF TypeMigrated
<1>5. Picked(renamed, at) \in Seq(S)
  <2> HIDE DEF at, S
  <2>1. \A i \in DOMAIN renamed : renamed[i] \in S
    <3> HIDE DEF renamed
    <3> QED
      BY <1>3
  <2> HIDE DEF renamed
  <2> QED
    BY <1>3, <2>1, PickedType
<1> QED
  BY <1>4, <1>5 DEF AllClean

LEMMA EndReaches == RefactorInv /\ ReachInv /\ EditsEnd => ReachInv'
<1> SUFFICES ASSUME RefactorInv, ReachInv, EditsEnd PROVE ReachInv'
  OBVIOUS
<1>1. CASE tf.touched = {}
  <2>1. tf'.at = "failed"
    BY <1>1 DEF EditsEnd, RefactorInv, JobsOf
  <2> QED
    BY <2>1, IdleReaches
<1>2. CASE tf.touched # {}
  <2>1. /\ tf.at = "editing" /\ tf.todo = <<>> /\ UNCHANGED <<repo, instruction, atApply>>
        /\ body' = [p \in DOMAIN body |-> IF p \in TypesToMigrate THEN TypeMigrated(body[p]) ELSE body[p]]
    BY <1>2 DEF EditsEnd
  <2>2. tf'.at = "triage" /\ tf'.rule = tf.rule /\ tf'.scanned = tf.scanned
    BY <1>2 DEF EditsEnd, RefactorInv, JobsOf
  <2>3. DOMAIN body = Files /\ \A p \in Files : body[p] \in Seq(Seq(Tokens))
    BY DEF RefactorInv, Texts
  <2>4. ASSUME IsFieldMigration(tf.rule), tf.scanned, NEW p \in Aimed, Regular(p)
        PROVE  Legacy(body'[p]) = {}
    <3>1. p \in Files /\ atApply[p] \in Seq(Seq(Tokens))
      BY TransformerAssumption DEF RefactorInv, Texts, Files, Aimed
    <3>2. Reaching(p, repo.lang[p], atApply[p], body[p], tf.todo)
      BY <2>1, <2>4 DEF ReachInv, ReachedSoFar
    <3>3. Len(body[p]) = Len(atApply[p]) /\ DOMAIN body[p] = DOMAIN atApply[p]
      <4>1. Len(body[p]) = Len(atApply[p])
        BY <3>2 DEF Reaching
      <4>2. DOMAIN body[p] = 1 .. Len(body[p]) /\ DOMAIN atApply[p] = 1 .. Len(atApply[p])
        BY <2>3, <3>1
      <4> QED
        BY <4>1, <4>2
    <3>4. AllClean(body[p])
      <4>1. DOMAIN tf.todo = {}
        BY <2>1
      <4> QED
        BY <3>2, <3>3, <4>1 DEF Reaching, AllClean
    <3>5. body'[p] \in Seq(Seq(Tokens)) /\ AllClean(body'[p])
      BY <2>1, <2>3, <3>1, <3>4, TypeMigratedClean, TypeMigratedType
    <3> QED
      BY <3>5, LegacyIs DEF AllClean
  <2>5. ASSUME IsFieldMigration(tf.rule), tf.scanned, NEW p \in Aimed, Regular(p)'
        PROVE  Legacy(body'[p]) = {}
    <3>1. Regular(p)
      BY <2>1, <2>5 DEF Regular
    <3> QED
      BY <2>4, <2>5, <3>1
  <2>6. MigrationReachesAll'
    BY <2>1, <2>2, <2>5 DEF MigrationReachesAll, Aimed
  <2> QED
    BY <2>2, <2>6 DEF ReachInv
<1> QED
  BY <1>1, <1>2

LEMMA ReachStep ==
  RefactorInv /\ ReachInv /\ [TransformerNext]_transformer => ReachInv'
<1> SUFFICES ASSUME RefactorInv, ReachInv, [TransformerNext]_transformer PROVE ReachInv'
  OBVIOUS
<1>1. CASE TakeTurn
  <2>1. PICK n : tf' = [tf EXCEPT !.turn = tf.turn + 1, !.calls = n, !.left = tf.left - n,
                                  !.at = IF n = 0 THEN "turn" ELSE "calls"]
    BY <1>1 DEF TakeTurn
  <2>2. tf'.at \in {"turn", "calls"}
    BY <2>1 DEF RefactorInv, JobsOf
  <2> QED
    BY <2>2, IdleReaches
<1>2. CASE Answer
  <2>1. tf'.at = "answered"
    BY <1>2 DEF Answer, RefactorInv, JobsOf
  <2> QED
    BY <2>1, IdleReaches
<1>3. CASE GatherAndApply
  BY <1>3, GatherReaches
<1>4. CASE GatherEnds
  <2>1. tf.at = "calls" /\ (tf' = CallEnds(tf) \/ tf' = [tf EXCEPT !.at = "failed"])
    BY <1>4 DEF GatherEnds
  <2>2. CallEnds(tf).at \in {"turn", "calls"}
    BY <2>1, CallEndsTyped
  <2>3. [tf EXCEPT !.at = "failed"].at = "failed"
    BY DEF RefactorInv, JobsOf
  <2>4. tf'.at \in {"turn", "calls", "failed"}
    BY <2>1, <2>2, <2>3
  <2> QED
    BY <2>4, IdleReaches
<1>5. CASE ApplyCodemod
  <2>1. tf'.at = "editing" /\ ~tf'.scanned
    BY <1>5 DEF ApplyCodemod, Begins, RefactorInv, JobsOf
  <2> QED
    BY <2>1 DEF ReachInv, MigrationReachesAll
<1>6. CASE EditRange \/ EditLine
  BY <1>6, EditsReach
<1>7. CASE EditsEnd
  BY <1>7, EndReaches
<1>8. CASE Triage
  <2>1. PICK ok : tf' = [CallEnds(tf) EXCEPT !.ok = ok]
    BY <1>8 DEF Triage
  <2>2. CallEnds(tf) \in JobsOf(Files) /\ CallEnds(tf).at \in {"turn", "calls"}
    BY <1>8, CallEndsTyped DEF Triage
  <2>3. tf'.at \in {"turn", "calls"}
    BY <2>1, <2>2 DEF JobsOf
  <2> QED
    BY <2>3, IdleReaches
<1>9. CASE TransformerFails
  <2>1. tf'.at = "failed"
    BY <1>9 DEF TransformerFails, RefactorInv, JobsOf
  <2> QED
    BY <2>1, IdleReaches
<1>10. CASE UNCHANGED transformer
  <2>1. UNCHANGED <<repo, body, tf, atApply>>
    BY <1>10 DEF transformer
  <2>2. \A p : Reaching(p, repo.lang[p], atApply[p], body[p], tf.todo)'
             <=> Reaching(p, repo.lang[p], atApply[p], body[p], tf.todo)
    BY <2>1 DEF Reaching, ApartIn, Files
  <2>3. \A p : Regular(p)' <=> Regular(p)
    BY <2>1 DEF Regular
  <2> QED
    BY <2>1, <2>2, <2>3 DEF ReachInv, ReachedSoFar, MigrationReachesAll, Aimed
<1> QED
  BY <1>1, <1>2, <1>3, <1>4, <1>5, <1>6, <1>7, <1>8, <1>9, <1>10 DEF TransformerNext

LEMMA ReachStarts == TransformerInit => ReachInv
  BY DEF TransformerInit, ReachInv, MigrationReachesAll

-----------------------------------------------------------------------------
(* The jobs together, and what every behaviour of them keeps. *)

\* What became of an answer follows from the answer and the disk it met.
ExecInv ==
  /\ disk \in [Paths -> Bodies \cup {Absent}] \/ execution = "done"
  /\ planning \in {"scout", "emit", "answered", "failed"}
  /\ round \in 0 .. FixRounds /\ changes \in 0 .. MaxChanges
  /\ answer \in Plans \cup {NoPlan} /\ reads \subseteq Paths
  /\ execution \in {"none", "invalid", "unapplied", "unverified", "uncited", "done"}
  /\ execution # "none" => planning = "answered" /\ answer # NoPlan
  /\ execution = "invalid" => ~ValidBlueprint(answer, disk)
  /\ execution = "unapplied" => ApplyFileSteps(disk, answer) = Failed

LEMMA ExecStarts == PlannerInit => ExecInv
<1> SUFFICES ASSUME PlannerInit PROVE ExecInv
  OBVIOUS
<1>1. disk \in [Paths -> Bodies \cup {Absent}]
  BY PlannerAssumption DEF PlannerInit
<1>2. 0 \in 0 .. FixRounds /\ 0 \in 0 .. MaxChanges
  BY PlannerAssumption
<1> QED
  BY <1>1, <1>2 DEF PlannerInit, ExecInv

LEMMA KeepsExec ==
  ASSUME ExecInv, Keeps, reads' \subseteq Paths
  PROVE  ExecInv'
BY DEF ExecInv, Keeps

LEMMA ExecStep ==
  ExecInv /\ [PlanNext \/ ExecuteBlueprint \/ DiskChanges]_PlanVars => ExecInv'
<1> SUFFICES ASSUME ExecInv, [PlanNext \/ ExecuteBlueprint \/ DiskChanges]_PlanVars PROVE ExecInv'
  OBVIOUS
<1>0. reads \subseteq Paths
  BY DEF ExecInv
<1>1. CASE TurnOfProse
  BY <1>0, <1>1, KeepsExec DEF TurnOfProse
<1>2. CASE TurnBlocked
  BY <1>0, <1>2, KeepsExec DEF TurnBlocked
<1>3. CASE TurnOfSearch
  BY <1>0, <1>3, KeepsExec DEF TurnOfSearch
<1>4. CASE \E p \in Paths : TurnOfRead(p)
  BY <1>0, <1>4, KeepsExec DEF TurnOfRead
<1>5. CASE \E plan \in Plans : TurnOfEmit(plan)
  BY <1>0, <1>5, KeepsExec DEF TurnOfEmit
<1>6. CASE PlanFails
  BY <1>6 DEF PlanFails, ExecInv
<1>7. CASE ScoutEnds
  BY <1>7 DEF ScoutEnds, ExecInv
<1>8. CASE EmitEnds
  <2>1. planning = "emit" /\ UNCHANGED <<disk, changes, execution, reads>> /\ execution = "none"
    BY <1>8 DEF EmitEnds, ExecInv
  <2>2. \/ planning' = "answered" /\ answer' \in Plans \cup {NoPlan} /\ round' = round
        \/ round # FixRounds /\ round' = round + 1 /\ UNCHANGED <<planning, answer>>
    <3>1. PICK c \in Capped(ctx) :
            IF c.completed \/ round = FixRounds
            THEN /\ planning' = "answered" /\ answer' = IF GatePasses(c) THEN c.json ELSE NoPlan
                 /\ UNCHANGED round
            ELSE round' = round + 1 /\ UNCHANGED <<planning, answer>>
      BY <1>8 DEF EmitEnds
    <3> QED
      BY <3>1 DEF GatePasses
  <2>3. round' \in 0 .. FixRounds
    BY <2>2, PlannerAssumption DEF ExecInv
  <2> QED
    BY <2>1, <2>2, <2>3 DEF ExecInv
<1>9. CASE ExecuteBlueprint
  <2> DEFINE d == ApplyFileSteps(disk, answer)
  <2>1. /\ planning = "answered" /\ answer # NoPlan /\ execution = "none"
        /\ execution' \in ExecutionEnds(answer, d)
        /\ disk' = IF execution' = "done" THEN d ELSE disk
        /\ UNCHANGED <<planning, round, changes, answer, reads>>
    BY <1>9 DEF ExecuteBlueprint, planner
  <2> HIDE DEF d
  <2>2. /\ execution' \in {"invalid", "unapplied", "unverified", "uncited", "done"}
        /\ execution' = "invalid" => ~ValidBlueprint(answer, disk)
        /\ execution' = "unapplied" => d = Failed
    BY <2>1 DEF ExecutionEnds
  <2> QED
    BY <2>1, <2>2 DEF ExecInv, d
<1>10. CASE DiskChanges
  <2>1. PICK p \in Shared, text \in Bodies : disk' = [disk EXCEPT ![p] = text]
    BY <1>10 DEF DiskChanges
  <2>2. execution = "none" /\ changes < MaxChanges /\ changes' = changes + 1
        /\ UNCHANGED <<planning, round, answer, reads, execution>>
    BY <1>10 DEF DiskChanges, planner
  <2>3. disk' \in [Paths -> Bodies \cup {Absent}]
    BY <2>1, <2>2 DEF ExecInv
  <2>4. changes' \in 0 .. MaxChanges
    BY <2>2, PlannerAssumption DEF ExecInv
  <2> QED
    BY <2>2, <2>3, <2>4 DEF ExecInv
<1>11. CASE UNCHANGED PlanVars
  BY <1>11 DEF PlanVars, planner, ExecInv
<1> QED
  BY <1>1, <1>2, <1>3, <1>4, <1>5, <1>6, <1>7, <1>8, <1>9, <1>10, <1>11 DEF PlanNext, PlanTurns

LEMMA AnswersApply == ExecInv /\ AnsweredPlanHolds => AnsweredPlanApplies
<1> SUFFICES ASSUME ExecInv, AnsweredPlanHolds, disk = answeredOn, execution \in {"invalid", "unapplied"}
             PROVE  execution = "unapplied" /\ ~PlainSteps(answer, disk)
  BY DEF AnsweredPlanApplies
<1>1. answer \in Plans /\ ValidBlueprint(answer, disk)
  BY DEF ExecInv, AnsweredPlanHolds
<1>2. execution = "unapplied" /\ ApplyFileSteps(disk, answer) = Failed
  BY <1>1 DEF ExecInv
<1>3. disk \in Disks
  BY <1>2, PlannerAssumption DEF ExecInv, Disks
<1> QED
  BY <1>1, <1>2, <1>3, StepsApply

LEMMA PlannerTyped == PlanInv /\ ExecInv => PlannerTypeOK
  BY DEF PlanInv, CtxInv, Contexts, Logs, ExecInv, PlannerTypeOK

LEMMA ExecAlways == Spec => []ExecInv
<1>1. Init => ExecInv
  BY ExecStarts DEF Init
<1>2. [Next]_vars => [PlanNext \/ ExecuteBlueprint \/ DiskChanges]_PlanVars
  BY DEF Next, ClientMoves, PlannerMoves, RefactorMoves, SyncMoves, vars, PlanVars
<1> QED
  BY <1>1, <1>2, ExecStep, PTL DEF Spec

\* The answer of a planner is valid and cited when its gates say so (emit_plan,
\* validate_blueprint), and a valid answer whose disk has not changed since is
\* applied to its last file, but for one hunk that meets a text twice
\* (apply_file_steps): for every plan, disk and number of rounds.
THEOREM GatesOfAPlanAgree == Spec => []GatesAgree
<1>1. PlanInv /\ ExecInv => GatesAgree
  BY AnswersApply DEF PlanInv, AnswerInv, GatesAgree
<1> QED
  BY <1>1, PlanAlways, ExecAlways, PTL

\* An executed plan changes no file that its planning had not read, unless it
\* creates it, whatever the model wrote, however the loops were cut and resumed
\* and whatever others wrote in between (validate_blueprint_grounding,
\* apply_blueprint_file_steps).
THEOREM ExecutionsChangeWhatWasRead == Spec => ExecutionChangesWhatWasRead
<1> DEFINE Reads == execution' # execution =>
                      \A p \in Paths : disk'[p] # disk[p] => p \in reads \/ disk[p] = Absent
<1>1. PlanInv /\ ExecInv /\ [Next]_vars => [Reads]_<<disk, execution>>
  <2> SUFFICES ASSUME PlanInv, ExecInv, [Next]_vars, execution' # execution, NEW p \in Paths,
                      disk'[p] # disk[p], disk[p] # Absent
               PROVE  p \in reads
    OBVIOUS
  <2>1. [PlanNext \/ ExecuteBlueprint \/ DiskChanges]_PlanVars
    BY DEF Next, ClientMoves, PlannerMoves, RefactorMoves, SyncMoves, vars, PlanVars
  <2>2. ~(PlanNext \/ DiskChanges \/ UNCHANGED PlanVars)
    BY DEF PlanNext, PlanTurns, TurnOfProse, TurnBlocked, TurnOfRead, TurnOfSearch, TurnOfEmit, Keeps,
       PlanFails, ScoutEnds, EmitEnds, DiskChanges, PlanVars
  <2>3. /\ planning = "answered" /\ answer # NoPlan /\ execution = "none"
        /\ execution' \in ExecutionEnds(answer, ApplyFileSteps(disk, answer))
        /\ disk' = IF execution' = "done" THEN ApplyFileSteps(disk, answer) ELSE disk
    BY <2>1, <2>2 DEF ExecuteBlueprint
  <2>4. execution' = "done" /\ disk' = ApplyFileSteps(disk, answer)
    BY <2>3
  <2>5. ApplyFileSteps(disk, answer) # Failed
    BY <2>3, <2>4 DEF ExecutionEnds
  <2>6. answer \in Plans /\ disk \in Disks
    BY <2>3, PlannerAssumption DEF ExecInv, Disks
  <2>7. MayChange(answer, disk, p)
    BY <2>4, <2>5, <2>6, StepsChange
  <2>8. PICK step \in StepsOf(answer) : step.action = "patch_file" /\ step.target = p
    BY <2>7 DEF MayChange
  <2>9. AnsweredPlanHolds
    BY DEF PlanInv, AnswerInv
  <2> QED
    BY <2>3, <2>8, <2>9 DEF AnsweredPlanHolds, NeedsTarget
<1> QED
  BY <1>1, PlanAlways, ExecAlways, PTL DEF Spec, ExecutionChangesWhatWasRead

LEMMA RefactorAlways == Spec => [](RefactorInv /\ KeepInv)
<1>1. Init => TransformerInit
  BY DEF Init
<1>2. [Next]_vars => [TransformerNext]_transformer
  BY DEF Next, ClientMoves, PlannerMoves, RefactorMoves, SyncMoves, vars
<1> QED
  BY <1>1, <1>2, TransformerStarts, TransformerStep, PTL DEF Spec

\* A migration loses no field of a plain file, whatever ranges the model sends
\* and in whichever order they are edited (try_..._codemod, edit_file_range,
\* migrate_log_types_in_scope).
THEOREM MigrationsKeepFields == Spec => []MigrationKeepsFields
<1>1. KeepInv => MigrationKeepsFields
  BY DEF KeepInv
<1> QED
  BY <1>1, RefactorAlways, PTL

\* What a scan finds is migrated as a whole: in a regular file of the production
\* code, source tree and scope the edits leave no legacy field, however calls
\* nest and whatever other files the scan edits between (find_refactor_targets,
\* drop_subset_ranges, apply_codemod_to_targets, edit_file_range).
THEOREM MigrationsReachAll == Spec => []MigrationReachesAll
<1>1. Init => TransformerInit
  BY DEF Init
<1>2. [Next]_vars => [TransformerNext]_transformer
  BY DEF Next, ClientMoves, PlannerMoves, RefactorMoves, SyncMoves, vars
<1>3. ReachInv => MigrationReachesAll
  BY DEF ReachInv
<1> QED
  BY <1>1, <1>2, <1>3, RefactorAlways, ReachStarts, ReachStep, PTL DEF Spec

\* The files a sync preserves, changes and leaves to its triage.
LEMMA SyncFilesTyped == TranspilerInit => TranspilerTypeOK
  BY TranspilerAssumption DEF TranspilerInit, TranspilerTypeOK

LEMMA SyncTyped == TranspilerTypeOK /\ SyncInv' /\ [TranspilerNext]_transpiler => TranspilerTypeOK'
<1> SUFFICES ASSUME TranspilerTypeOK, SyncInv', [TranspilerNext]_transpiler PROVE TranspilerTypeOK'
  OBVIOUS
<1>0. sync' \in [at : {"turn", "answered", "reported", "failed"}, turn : 0 .. SyncTurns, green : BOOLEAN]
  BY DEF SyncInv
<1>1. CASE TreeStays /\ UNCHANGED <<preserved, workspace>>
  BY <1>0, <1>1 DEF TreeStays, TranspilerTypeOK
<1>2. ASSUME NEW p \in SyncFiles, WriteTargetFile(p) PROVE TranspilerTypeOK'
  <2>1. UNCHANGED <<preserved, workspace>>
    BY <1>2 DEF WriteTargetFile, SyncTurn
  <2>2. CASE TreeStays
    BY <1>1, <2>1, <2>2
  <2>3. CASE Writes({p}) /\ untriaged' = untriaged \cup {p}
    BY <1>0, <2>1, <2>3 DEF Writes, TranspilerTypeOK
  <2> QED
    BY <1>2, <2>2, <2>3 DEF WriteTargetFile
<1>3. ASSUME NEW paths \in SUBSET SyncFiles, InvokeSyncTriage(paths) PROVE TranspilerTypeOK'
  <2>1. PICK edited \in SUBSET (paths \cup {SyncTarget}), passed \in BOOLEAN :
          /\ Writes(edited)
          /\ untriaged' = IF passed THEN untriaged \ (paths \cup {SyncTarget}) ELSE untriaged \cup edited
    BY <1>3 DEF InvokeSyncTriage
  <2>2. UNCHANGED <<preserved, workspace>>
    BY <1>3 DEF InvokeSyncTriage, SyncTurn
  <2>3. edited \subseteq SyncFiles
    BY TranspilerAssumption
  <2>4. changed' = changed \cup edited /\ verifies' \in BOOLEAN
    BY <2>1 DEF Writes
  <2>5. untriaged' \subseteq changed'
    BY <2>1, <2>4 DEF TranspilerTypeOK
  <2> QED
    BY <1>0, <2>2, <2>3, <2>4, <2>5 DEF TranspilerTypeOK
<1>4. CASE SyncNudged \/ FinalizeSync \/ ReportSyncError \/ SyncOutOfTurns \/ SyncFails
  BY <1>1, <1>4 DEF SyncNudged, FinalizeSync, ReportSyncError, SyncOutOfTurns, SyncFails, SyncTurn
<1>5. CASE UNCHANGED transpiler
  BY <1>5 DEF transpiler, TranspilerTypeOK
<1> QED
  BY <1>2, <1>3, <1>4, <1>5 DEF TranspilerNext

LEMMA SyncAlways == Spec => []TranspilerTypeOK
<1>1. Init => TranspilerInit
  BY DEF Init
<1>2. [Next]_vars => [TranspilerNext]_transpiler
  BY DEF Next, ClientMoves, PlannerMoves, RefactorMoves, SyncMoves, vars
<1> QED
  BY <1>1, <1>2, SyncStarts, SyncStep, SyncFilesTyped, SyncTyped, PTL DEF Spec

LEMMA ClientAlways == Spec => []ClientInv
<1>1. Init => LlmInit
  BY DEF Init
<1>2. [Next]_vars => [LlmNext]_llm
  BY DEF Next, ClientMoves, PlannerMoves, RefactorMoves, SyncMoves, vars
<1> QED
  BY <1>1, <1>2, ClientInit, ClientStep, PTL DEF Spec

\* The state of the client, of the planner, of the refactoring and of the sync
\* is of its type.
THEOREM AgentJobsTypeCorrect == Spec => []TypeOK
<1>1. PlanInv /\ ExecInv /\ RefactorInv /\ ClientInv /\ TranspilerTypeOK => TypeOK
  BY PlannerTyped, RefactorTyped DEF ClientInv, TypeOK
<1> QED
  BY <1>1, PlanAlways, ExecAlways, RefactorAlways, ClientAlways, SyncAlways, PTL
===============================================================================

------------------------------ MODULE JobRunner ------------------------------
(***************************************************************************)
(* The life of a job: the stdio loop that takes a tools/call and waits for *)
(* it inline (src/src/mcp_server.rs, dispatch_async_job), the runner task  *)
(* that tracks it (run_tracked_job), the heartbeat thread beside it, the   *)
(* work itself, seen as what it does to the rest (agent turns with their   *)
(* cooperative checks, provider calls, journaled writes), and the end of   *)
(* the process.  It composes JobRegistry and MutationJournal.              *)
(***************************************************************************)
EXTENDS JobRegistry, FiniteSets

CONSTANTS
  Paths,          \* the files jobs may touch
  FragilePaths,   \* those a rollback may fail to restore
  Unseen, Nobody, \* no journal entry; no awaited job
  MaxLives,       \* bound: how often a uuid is registered
  MaxSteps,       \* bound: loop heads, provider calls and writes of one job,
                  \* which the iteration caps of the agents make finite
  MaxSessions,    \* bound: how often the process is started
  Isolated,       \* jobs open at the same time write different paths
  Workers,        \* the worker threads of the stdio runtime, one per core
  SpawnMayFail,   \* the OS may refuse the heartbeat thread
  ClientCancels,  \* FALSE: an instance whose client never cancels a job
  TimePasses      \* FALSE: an instance in which everything is quick

\* What a path holds: nothing, what the user had there, or bytes (all or
\* part of them) that the n-th life of a uuid wrote.
Contents == {<<"absent", 0>>, <<"user", 0>>} \cup (Uuids \X (1 .. MaxLives))

ASSUME RunnerAssumption ==
  /\ FragilePaths \subseteq Paths
  /\ Unseen \notin Contents
  /\ Nobody \notin Uuids
  /\ Workers \in Nat \ {0}
  /\ MaxLives \in Nat /\ MaxSteps \in Nat /\ MaxSessions \in Nat
  /\ Isolated \in BOOLEAN /\ SpawnMayFail \in BOOLEAN /\ ClientCancels \in BOOLEAN
  /\ TimePasses \in BOOLEAN

VARIABLES
  disk, armed, prior,  \* MutationJournal
  runner,    \* runner[u]: how far run_tracked_job has come
  work,      \* work[u]: where the spawned work is
  steps,     \* steps[u]: what is left of MaxSteps
  verdict,   \* verdict[u]: what the work returned
  thread,    \* thread[u]: the heartbeat thread
  stopped,   \* the threads whose stop flag is set
  awaited,   \* the job the stdio loop waits for, or Nobody
  answer,    \* answer[u]: what the client was told of its last call
  life,      \* life[u]: how often u has been registered (bookkeeping)
  hungUp,    \* stdin is at its end: the loop is left
  session    \* which start of the process this is

INSTANCE MutationJournal WITH Owners <- Uuids

journalVars == <<disk, armed, prior>>
taskVars == <<runner, work, steps, verdict, life>>
threadVars == <<thread, stopped>>
loopVars == <<awaited, answer, hungUp, session>>
vars == <<jobs, journalVars, taskVars, threadVars, loopVars>>

\* tool_starts_mutation_journal.
JournaledTools ==
  {"generate_tests_and_scaffolding", "verify_and_triage",
   "execute_global_refactor", "transpile_types", "execute_blueprint"}

\* The callers of journaled_write; babysit_pr writes through its child
\* triage, without a journal.
WritingTools == JournaledTools \cup {"babysit_pr"}

Journaled(u) == jobs[u].tool \in JournaledTools

\* A job that was polled keeps its worker to its end: its work makes blocking
\* calls (ureq, child processes) between awaits that never suspend, and the
\* runner is polled on where the work was.
HasWorker(u) == runner[u] \in {"started", "working", "settled"}

WorkerFree == Cardinality({u \in Uuids : HasWorker(u)}) < Workers

Init ==
  /\ RegistryInit
  /\ JournalInit
  /\ disk \in [Paths -> {<<"absent", 0>>, <<"user", 0>>}]
  /\ runner = [u \in Uuids |-> "none"]
  /\ work = [u \in Uuids |-> "none"]
  /\ steps = [u \in Uuids |-> 0]
  /\ verdict = [u \in Uuids |-> "none"]
  /\ thread = [u \in Uuids |-> "off"]
  /\ stopped = {}
  /\ awaited = Nobody
  /\ answer = [u \in Uuids |-> "none"]
  /\ life = [u \in Uuids |-> 0]
  /\ hungUp = FALSE
  /\ session = 1

-----------------------------------------------------------------------------
(***************************************************************************)
(* The stdio loop: one request at a time.  query_job_status without cancel *)
(* only reads the registry and is not an action.                           *)
(***************************************************************************)
Listening == awaited = Nobody /\ ~hungUp

\* A tools/call that starts a job: register, then spawn the runner.
Call(u, tool) ==
  /\ Listening
  /\ life[u] < MaxLives
  /\ RegisterAccepts(u)
  /\ Register(u, tool)
  /\ awaited' = u
  /\ answer' = [answer EXCEPT ![u] = "pending"]
  /\ runner' = [runner EXCEPT ![u] = "spawned"]
  /\ steps' = [steps EXCEPT ![u] = MaxSteps]
  /\ life' = [life EXCEPT ![u] = @ + 1]
  /\ UNCHANGED <<journalVars, work, verdict, threadVars, hungUp, session>>

\* The uuid is in use: an error, after the eviction register starts with.
CallRefused(u, tool) ==
  /\ Listening
  /\ ~RegisterAccepts(u)
  /\ Register(u, tool)
  /\ UNCHANGED <<journalVars, taskVars, threadVars, loopVars>>

\* Mutant: whatever the registry says, a task that was joined is a success.
AnswerJoinedIsResult(u) ==
  /\ awaited = u
  /\ runner[u] \in {"finished", "dead"}
  /\ IF runner[u] = "dead" THEN Fail(u, "task lost") ELSE UNCHANGED jobs
  /\ answer' = [answer EXCEPT ![u] = IF runner[u] = "dead" THEN "error" ELSE "result"]
  /\ awaited' = Nobody
  /\ UNCHANGED <<journalVars, taskVars, threadVars, hungUp, session>>

\* The runner task ended in time.  If it died, the loop fails the job; then
\* terminal_result is the answer.
AnswerJoined(u) ==
  /\ awaited = u
  /\ runner[u] \in {"finished", "dead"}
  /\ IF runner[u] = "dead" THEN Fail(u, "task lost") ELSE UNCHANGED jobs
  /\ answer' = [answer EXCEPT ![u] =
                  CASE jobs'[u].status = "completed" -> "result"
                    [] jobs'[u].status = "failed"    -> "error"
                    [] OTHER                         -> "accepted"]
  /\ awaited' = Nobody
  /\ UNCHANGED <<journalVars, taskVars, threadVars, hungUp, session>>

\* job_await_timeout_secs ran out; the runner goes on detached.  The loop's
\* thread does not drive the timers: an idle worker does.
AnswerTimeout(u) ==
  /\ awaited = u
  /\ WorkerFree
  /\ answer' = [answer EXCEPT ![u] = "accepted"]
  /\ awaited' = Nobody
  /\ UNCHANGED <<jobs, journalVars, taskVars, threadVars, hungUp, session>>

\* query_job_status with cancel = true, accepted.
Cancel(u) ==
  /\ ClientCancels
  /\ Listening
  /\ RequestCancel(u)
  /\ UNCHANGED <<journalVars, taskVars, threadVars, loopVars>>

\* End of stdin (or a broken pipe): the loop is left, the runtime dropped.
HangUp ==
  /\ Listening
  /\ hungUp' = TRUE
  /\ UNCHANGED <<jobs, journalVars, taskVars, threadVars, awaited, answer, session>>

\* The process ends wherever its tasks are and the host starts it again:
\* only the files survive.
Restart ==
  /\ hungUp
  /\ session < MaxSessions
  /\ session' = session + 1
  /\ hungUp' = FALSE
  /\ jobs' = [u \in Uuids |-> NoJob]
  /\ LoseJournals
  /\ runner' = [u \in Uuids |-> "none"]
  /\ work' = [u \in Uuids |-> "none"]
  /\ steps' = [u \in Uuids |-> 0]
  /\ verdict' = [u \in Uuids |-> "none"]
  /\ thread' = [u \in Uuids |-> "off"]
  /\ stopped' = {}
  /\ answer' = [u \in Uuids |-> "none"]
  /\ UNCHANGED <<awaited, life>>

-----------------------------------------------------------------------------
(***************************************************************************)
(* run_tracked_job.                                                        *)
(***************************************************************************)
RunnerStarts(u) ==
  /\ runner[u] = "spawned"
  /\ WorkerFree
  /\ SetRunning(u)
  /\ runner' = [runner EXCEPT ![u] = "started"]
  /\ UNCHANGED <<journalVars, work, steps, verdict, life, threadVars, loopVars>>

\* First heartbeat, heartbeat thread, journal, work.
RunnerSpawnsWork(u) ==
  /\ runner[u] = "started"
  /\ Heartbeat(u)
  /\ thread' = [thread EXCEPT ![u] = "asleep"]
  /\ IF Journaled(u) THEN BeginJournal(u) ELSE UNCHANGED journalVars
  /\ runner' = [runner EXCEPT ![u] = "working"]
  /\ work' = [work EXCEPT ![u] = "busy"]
  /\ UNCHANGED <<steps, verdict, life, stopped, loopVars>>

\* thread::spawn panics when the OS has no thread to give.
RunnerDies(u) ==
  /\ SpawnMayFail
  /\ runner[u] = "started"
  /\ Heartbeat(u)
  /\ runner' = [runner EXCEPT ![u] = "dead"]
  /\ UNCHANGED <<journalVars, work, steps, verdict, life, threadVars, loopVars>>

\* The work is joined; its journal is ended before the outcome is published.
\* A rollback that fails is only logged.
RunnerEndsJournal(u) ==
  /\ runner[u] = "working"
  /\ work[u] = "none"
  /\ \/ Journaled(u) /\ verdict[u] = "result" /\ KeepEdits(u)
     \/ /\ Journaled(u) /\ verdict[u] # "result"
        /\ \E stuck \in SUBSET (Touched(u) \cap FragilePaths) : RollBack(u, stuck)
     \/ ~Journaled(u) /\ UNCHANGED journalVars
  /\ runner' = [runner EXCEPT ![u] = "settled"]
  /\ UNCHANGED <<jobs, work, steps, verdict, life, threadVars, loopVars>>

\* Mutant: the outcome is reported before the journal is dealt with.
RunnerReportsFirst(u) ==
  /\ runner[u] = "working" /\ work[u] = "none" /\ Active(jobs[u])
  /\ IF verdict[u] = "result" THEN Complete(u, "result") ELSE Fail(u, "error")
  /\ UNCHANGED <<journalVars, taskVars, threadVars, loopVars>>

\* Mutant: a panic of the work is not reported.
RunnerReportsNoPanic(u) ==
  /\ runner[u] = "settled"
  /\ CASE verdict[u] = "result"   -> Complete(u, "result")
       [] verdict[u] = "panicked" -> UNCHANGED jobs
       [] OTHER                   -> Fail(u, verdict[u])
  /\ stopped' = stopped \cup {u}
  /\ runner' = [runner EXCEPT ![u] = "finished"]
  /\ steps' = [steps EXCEPT ![u] = 0]
  /\ verdict' = [verdict EXCEPT ![u] = "none"]
  /\ UNCHANGED <<journalVars, work, life, thread, loopVars>>

\* complete or fail; then the task's locals are dropped, among them the
\* handle, whose drop sets the thread's stop flag.
RunnerReports(u) ==
  /\ runner[u] = "settled"
  /\ IF verdict[u] = "result" THEN Complete(u, "result") ELSE Fail(u, verdict[u])
  /\ stopped' = stopped \cup {u}
  /\ runner' = [runner EXCEPT ![u] = "finished"]
  /\ steps' = [steps EXCEPT ![u] = 0]
  /\ verdict' = [verdict EXCEPT ![u] = "none"]
  /\ UNCHANGED <<journalVars, work, life, thread, loopVars>>

Runner(u) ==
  \/ RunnerStarts(u)
  \/ RunnerSpawnsWork(u)
  \/ RunnerDies(u)
  \/ RunnerEndsJournal(u)
  \/ RunnerReports(u)

-----------------------------------------------------------------------------
(***************************************************************************)
(* The work of a job.  It is "busy" (running the code of a handler or of a *)
(* tool), at the "head" of an agent loop, or in a "call" of a provider or  *)
(* of a command, which has no timeout and blocks the worker it is made on. *)
(***************************************************************************)
WorkMoves(u, from, to) ==
  /\ runner[u] = "working"
  /\ work[u] = from
  /\ work' = [work EXCEPT ![u] = to]
  /\ UNCHANGED <<runner, life, threadVars, loopVars>>

SpendStep(u) ==
  /\ steps[u] > 0
  /\ steps' = [steps EXCEPT ![u] = @ - 1]

WorkEndsWith(u, from, outcome) ==
  /\ WorkMoves(u, from, "none")
  /\ verdict' = [verdict EXCEPT ![u] = outcome]
  /\ UNCHANGED <<jobs, journalVars, steps>>

OpenJournal(u) == Journaled(u) /\ runner[u] = "working"

\* A tool edits a file of the workspace.
WorkWrites(u, p) ==
  /\ jobs[u].tool \in WritingTools
  /\ Isolated => \A v \in Uuids \ {u} : OpenJournal(v) => prior[v][p] = Unseen
  /\ WorkMoves(u, "busy", "busy")
  /\ SpendStep(u)
  /\ \E landed \in BOOLEAN : JournaledWrite(u, p, <<u, life[u]>>, landed)
  /\ UNCHANGED <<jobs, verdict>>

\* An agent loop begins, or one of its turns is over.
WorkReachesLoopHead(u) ==
  /\ WorkMoves(u, "busy", "head")
  /\ SpendStep(u)
  /\ UNCHANGED <<jobs, journalVars, verdict>>

\* The while condition comes before the checks: a finished or capped loop
\* is left without looking at the cancel flag.
LoopEnds(u) ==
  /\ WorkMoves(u, "head", "busy")
  /\ UNCHANGED <<jobs, journalVars, steps, verdict>>

LoopCancelled(u) ==
  /\ IsCancelRequested(u)
  /\ WorkEndsWith(u, "head", "cancelled")

LoopOutOfTime(u) ==
  /\ ~IsCancelRequested(u)
  /\ WallClockExceeded(u)
  /\ WorkEndsWith(u, "head", "wall clock")

\* The next turn: publish_job_action, then the provider.
LoopTurns(u) ==
  /\ ~IsCancelRequested(u)
  /\ ~WallClockExceeded(u)
  /\ WorkMoves(u, "head", "call")
  /\ SetAction(u)
  /\ UNCHANGED <<journalVars, steps, verdict>>

\* A provider call outside of the loop's turn: evaluation, compaction.
WorkCallsProvider(u) ==
  /\ WorkMoves(u, "busy", "call")
  /\ SpendStep(u)
  /\ UNCHANGED <<jobs, journalVars, verdict>>

CallReturns(u) ==
  /\ WorkMoves(u, "call", "busy")
  /\ UNCHANGED <<jobs, journalVars, steps, verdict>>

WorkEnds(u) ==
  \E outcome \in {"result", "error", "panicked"} : WorkEndsWith(u, "busy", outcome)

\* The runtime drops the task while the process ends.
WorkDropped(u) ==
  /\ hungUp
  /\ \E from \in {"busy", "head", "call"} : WorkEndsWith(u, from, "task lost")

\* The steps the code takes by itself, provider willing.
WorkStep(u) ==
  \/ \E p \in Paths : WorkWrites(u, p)
  \/ WorkReachesLoopHead(u)
  \/ LoopEnds(u)
  \/ LoopCancelled(u)
  \/ LoopOutOfTime(u)
  \/ LoopTurns(u)
  \/ WorkCallsProvider(u)
  \/ WorkEnds(u)

-----------------------------------------------------------------------------
(***************************************************************************)
(* The heartbeat thread.  It looks at its stop flag, then heartbeats: the  *)
(* flag may be set in between, and the job may be terminal by then.        *)
(***************************************************************************)
ThreadExits(u) ==
  /\ thread[u] \in {"asleep", "due"}
  /\ u \in stopped
  /\ thread' = [thread EXCEPT ![u] = "off"]
  /\ stopped' = stopped \ {u}
  /\ UNCHANGED <<jobs, journalVars, taskVars, loopVars>>

ThreadWakes(u) ==
  /\ thread[u] = "due"
  /\ u \notin stopped
  /\ thread' = [thread EXCEPT ![u] = "beating"]
  /\ UNCHANGED <<jobs, journalVars, taskVars, stopped, loopVars>>

ThreadBeats(u) ==
  /\ thread[u] = "beating"
  /\ Heartbeat(u)
  /\ thread' = [thread EXCEPT ![u] = "asleep"]
  /\ UNCHANGED <<journalVars, taskVars, stopped, loopVars>>

\* One HEARTBEAT_INTERVAL passes.  A thread that is due, or told to stop,
\* acts within the second, so time waits for it.
Tick ==
  /\ TimePasses
  /\ \A u \in Uuids : thread[u] = "off" \/ (thread[u] = "asleep" /\ u \notin stopped)
  /\ Elapse
  /\ thread' = [u \in Uuids |-> IF thread[u] = "asleep" THEN "due" ELSE "off"]
  /\ UNCHANGED <<journalVars, taskVars, stopped, loopVars>>

-----------------------------------------------------------------------------
Next ==
  \/ \E u \in Uuids :
       \/ \E tool \in Tools : Call(u, tool) \/ CallRefused(u, tool)
       \/ AnswerJoined(u)
       \/ AnswerTimeout(u)
       \/ Cancel(u)
       \/ Runner(u)
       \/ WorkStep(u)
       \/ CallReturns(u)
       \/ WorkDropped(u)
       \/ ThreadExits(u)
       \/ ThreadWakes(u)
       \/ ThreadBeats(u)
  \/ HangUp
  \/ Restart
  \/ Tick

Spec == Init /\ [][Next]_vars

\* What the runtime gives a job.  A job that has its worker goes on for as
\* long as its calls return; a spawned one waits in a first-in first-out queue
\* for a worker, so one that is free again and again is its own in the end.
\* Calls may never return, and the client does as it likes.
Fairness ==
  \A u \in Uuids :
    /\ SF_vars(RunnerStarts(u))
    /\ WF_vars(Runner(u))
    /\ WF_vars(WorkStep(u))
    /\ WF_vars(AnswerJoined(u))
    /\ WF_vars(AnswerTimeout(u))

FairSpec == Spec /\ Fairness

-----------------------------------------------------------------------------
(***************************************************************************)
(* Safety.                                                                 *)
(***************************************************************************)
TypeOK ==
  /\ RegistryTypeOK
  /\ JournalTypeOK
  /\ runner \in [Uuids -> {"none", "spawned", "started", "working", "settled",
                           "finished", "dead"}]
  /\ work \in [Uuids -> {"none", "busy", "head", "call"}]
  /\ steps \in [Uuids -> 0 .. MaxSteps]
  /\ verdict \in [Uuids -> Outcomes \cup {"none"}]
  /\ thread \in [Uuids -> {"off", "asleep", "due", "beating"}]
  /\ stopped \subseteq Uuids
  /\ awaited \in Uuids \cup {Nobody}
  /\ answer \in [Uuids -> {"none", "pending", "accepted", "result", "error"}]
  /\ life \in [Uuids -> 0 .. MaxLives]
  /\ hungUp \in BOOLEAN
  /\ session \in Nat

\* A job a poll shows as terminal is over: its work has ended, and its journal
\* is closed, unless a rollback could not restore a fragile path
\* (run_tracked_job ends the journal before complete or fail).
TerminalIsSettled ==
  \A u \in Uuids : Terminal(jobs[u]) =>
    /\ work[u] = "none"
    /\ runner[u] \in {"finished", "dead"}
    /\ Journaled(u) /\ runner[u] = "finished" /\ u \in armed =>
         Touched(u) # {} /\ Touched(u) \subseteq FragilePaths

\* A failed job has left nothing of itself in the workspace, outside of the
\* fragile paths: not the bytes of its edits and not the files it created
\* (end_job_journal with ok = false).  Jobs without a journal promise nothing.
FailedLeavesNoTrace ==
  \A u \in Uuids : jobs[u].status = "failed" /\ Journaled(u) =>
    \A p \in Paths \ FragilePaths : disk[p] # <<u, life[u]>>

\* The uuid a live runner or a live heartbeat works under keeps its record:
\* no eviction and no second register comes between (register,
\* evict_stale_terminal_jobs, HeartbeatHandle).
TaskKeepsRecord ==
  \A u \in Uuids :
    /\ runner[u] \in {"spawned", "started", "working", "settled"} => Active(jobs[u])
    /\ thread[u] # "off" => Known(u)

\* What the client was told inline is what the registry says for as long as
\* it keeps the record (dispatch_async_job, terminal_result).
AnswerAgrees ==
  \A u \in Uuids :
    /\ answer[u] = "result" => jobs[u].status \in {"completed", "unknown"}
    /\ answer[u] = "error"  => jobs[u].status \in {"failed", "unknown"}

\* The first outcome a job gets is the one every later poll of this process
\* reads: nothing that comes after it (a second complete or fail, a late
\* heartbeat of the detached thread, a cancel) changes the record or restarts
\* its retention, and it goes only by an eviction once the retention is over
\* (mutate_if_active, request_cancel, evict_stale_terminal_jobs).
OutcomeIsFinal ==
  [][session' = session => \A u \in Uuids : KeepsOutcome(u)]_vars

\* The stall hint of query never shows for a job whose heartbeat thread runs,
\* however long its work hangs: it can only mean that the runner is gone or
\* has not come to its first heartbeat yet (HeartbeatHandle, query).
HintMeansNoHeartbeat ==
  \A u \in Uuids : PossiblyStalled(u) => runner[u] \in {"started", "dead"}

\* The workspace only moves under a job that has not ended: once every poll
\* is terminal, no leftover of a job writes or restores a file
\* (journaled_write, end_job_journal, run_tracked_job).
FilesRestAfterOutcome ==
  [][\A p \in Paths : disk'[p] # disk[p] =>
       \E u \in Uuids :
         /\ Active(jobs[u])
         /\ disk'[p] = <<u, life[u]>> \/ disk'[p] = prior[u][p]]_vars

\* A rollback is scoped to its job: it takes no bytes from a path that some
\* other job has written since (mutation_journal.rs: "Job-scoped path
\* snapshot / rollback", "keyed by request_uuid (concurrent jobs)").
RollbackIsJobScoped ==
  [][\A u \in Uuids, p \in Paths :
       RunnerEndsJournal(u) /\ disk'[p] # disk[p] => disk[p][1] = u]_vars

\* A mutating job whose cancel was accepted has rolled back when it ends
\* (query_job_status: "mutating jobs roll back").
CancelRollsBack ==
  \A u \in Uuids :
    Journaled(u) /\ Terminal(jobs[u]) /\ jobs[u].cancel => jobs[u].status = "failed"

-----------------------------------------------------------------------------
(***************************************************************************)
(* The journaled jobs implement FileTransactions when jobs open together   *)
(* write different paths.  What is committed of a path is the entry of the *)
(* open journal that has one, else the disk.                               *)
(***************************************************************************)
HasEntry(u, p) == OpenJournal(u) /\ prior[u][p] # Unseen

committedFiles ==
  [p \in Paths |-> IF \E u \in Uuids : HasEntry(u, p)
                     THEN prior[CHOOSE u \in Uuids : HasEntry(u, p)][p]
                     ELSE disk[p]]

openEdits ==
  [u \in Uuids |-> [p \in Paths |-> IF HasEntry(u, p) THEN disk[p] ELSE Unseen]]

Fate(u) ==
  IF ~Journaled(u) THEN "none"
  ELSE CASE runner[u] = "working" -> "open"
         [] runner[u] = "settled" -> IF verdict[u] = "result" THEN "committed" ELSE "aborted"
         [] OTHER -> CASE jobs[u].status = "completed" -> "committed"
                       [] jobs[u].status = "failed"    -> "aborted"
                       [] OTHER                        -> "none"

Transactions ==
  INSTANCE FileTransactions
    WITH Owners <- Uuids, Unset <- Unseen, Fragile <- FragilePaths,
         committed <- committedFiles, overlay <- openEdits,
         fate <- [u \in Uuids |-> Fate(u)]

\* A job's edits reach the workspace as a whole when the registry says
\* completed and not at all when it says failed, in every interleaving of
\* isolated jobs (run_tracked_job with end_job_journal).
JobsAreTransactions == Transactions!Spec

-----------------------------------------------------------------------------
(***************************************************************************)
(* Liveness.                                                               *)
(***************************************************************************)
\* A registered job ends, unless the process does or its runner died, if its
\* own calls return and hung ones do not hold every worker for good: with one
\* worker to spare, the jobs whose provider never answers hold up no other job,
\* and the code itself gets stuck nowhere (run_stdio's runtime, run_tracked_job,
\* run_loop).
JobsEnd ==
  \A u \in Uuids :
    /\ []<>(work[u] # "call")
    /\ []<>(Cardinality({v \in Uuids : work[v] = "call"}) < Workers)
    => (Active(jobs[u]) ~> (~Active(jobs[u]) \/ hungUp \/ runner[u] = "dead"))

\* The inline wait of a tools/call is bounded (jobs.rs: "If the job exceeds the
\* await timeout, it falls back to async mode").
LoopComesBack == (awaited # Nobody) ~> (awaited = Nobody)
==============================================================================

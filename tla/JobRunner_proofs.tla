--------------------------- MODULE JobRunner_proofs ---------------------------
(***************************************************************************)
(* Theorems about JobRunner, for every set of jobs, tools and paths and    *)
(* every value of the bounds.                                              *)
(*                                                                         *)
(* The inductive invariant has two layers: the types, and the structure of *)
(* a job: how the registry record, the runner, the work, the heartbeat     *)
(* thread and the journal of one uuid go together.  For isolated jobs,     *)
(* JobTransactions_proofs adds a third.                                    *)
(***************************************************************************)
EXTENDS JobRunner, TLAPS

-----------------------------------------------------------------------------
(* The structure of one job. *)

\* A record lives from register to its eviction, and a runner that has not
\* reported has an active record.
RecordInv(u) ==
  /\ runner[u] = "none" => jobs[u].status = "unknown"
  /\ runner[u] \in {"spawned", "started", "working", "settled"} => Active(jobs[u])
  /\ runner[u] = "finished" => ~Active(jobs[u])

WorkInv(u) ==
  /\ work[u] # "none" => runner[u] = "working"
  /\ runner[u] = "settled" => verdict[u] # "none"
  /\ runner[u] = "working" /\ work[u] = "none" => verdict[u] # "none"

\* A thread outlives the report of its runner by less than a tick, hence its
\* job's record too.
ThreadInv(u) ==
  /\ thread[u] # "off" => runner[u] \in {"working", "settled", "finished"}
  /\ thread[u] # "off" /\ runner[u] = "finished" =>
       u \in stopped /\ Terminal(jobs[u]) /\ jobs[u].quiet = 0
  /\ runner[u] \in {"working", "settled"} => thread[u] # "off" /\ u \notin stopped
  /\ u \in stopped => thread[u] # "off"

\* A journal is armed while a journaled job works; one that is still there
\* afterwards holds fragile paths only.  A job that keeps no journal may find
\* one that an earlier life of its uuid left.
JournalInv(u) ==
  /\ OpenJournal(u) => u \in armed
  /\ u \notin armed => \A p \in Paths : prior[u][p] = Unseen
  /\ Journaled(u) /\ runner[u] \in {"settled", "finished"} /\ u \in armed =>
       /\ Touched(u) # {}
       /\ Touched(u) \subseteq FragilePaths

\* A runner works for a life of its uuid; the files know no later one.
LifeInv(u) == runner[u] # "none" => life[u] > 0

JobInv(u) == RecordInv(u) /\ WorkInv(u) /\ ThreadInv(u) /\ JournalInv(u) /\ LifeInv(u)

StructInv == \A u \in Uuids : JobInv(u)

-----------------------------------------------------------------------------
(* What the operations of the registry do to it. *)

\* v's record is the same job in the same state, and untouched if terminal.
SameJob(v) ==
  /\ jobs'[v].status = jobs[v].status
  /\ jobs'[v].tool = jobs[v].tool
  /\ Terminal(jobs[v]) => jobs'[v] = jobs[v]

\* mutate_if_active writes a record of the right type, for a live job only.
LEMMA MutateEffect ==
  ASSUME RegistryTypeOK, NEW u \in Uuids, NEW updated \in JobRecord,
         MutateIfActive(u, updated)
  PROVE  /\ RegistryTypeOK'
         /\ \A v \in Uuids : v # u \/ ~Active(jobs[u]) => jobs'[v] = jobs[v]
         /\ Active(jobs[u]) => /\ jobs'[u].status = updated.status
                               /\ jobs'[u].tool = updated.tool
                               /\ jobs'[u].quiet = 0
<1>1. [updated EXCEPT !.quiet = 0] \in JobRecord
  BY RegistryAssumption DEF JobRecord
<1>2. CASE Active(jobs[u])
  <2>1. jobs' = [jobs EXCEPT ![u] = [updated EXCEPT !.quiet = 0]]
    BY <1>2 DEF MutateIfActive
  <2>2. /\ RegistryTypeOK'
        /\ \A v \in Uuids : v # u => jobs'[v] = jobs[v]
        /\ jobs'[u] = [updated EXCEPT !.quiet = 0]
    BY <1>1, <2>1 DEF RegistryTypeOK
  <2>3. QED
    BY <1>2, <2>2 DEF JobRecord
<1>3. CASE ~Active(jobs[u])
  BY <1>3 DEF RegistryTypeOK, MutateIfActive
<1>4. QED
  BY <1>2, <1>3

\* A heartbeat changes no status, and nothing of a terminal job.
LEMMA HeartbeatEffect ==
  ASSUME RegistryTypeOK, NEW u \in Uuids, Heartbeat(u)
  PROVE  RegistryTypeOK' /\ \A v \in Uuids : SameJob(v)
<1>1. [jobs[u] EXCEPT !.silent = 0] \in JobRecord
  BY RegistryAssumption DEF RegistryTypeOK, JobRecord
<1>2. MutateIfActive(u, [jobs[u] EXCEPT !.silent = 0])
  BY DEF Heartbeat
<1>3. /\ [jobs[u] EXCEPT !.silent = 0].status = jobs[u].status
      /\ [jobs[u] EXCEPT !.silent = 0].tool = jobs[u].tool
  BY DEF RegistryTypeOK, JobRecord
<1>4. QED
  BY <1>1, <1>2, <1>3, MutateEffect DEF SameJob, Active, Terminal

\* Nor does the action an agent turn publishes.
LEMMA SetActionEffect ==
  ASSUME RegistryTypeOK, NEW u \in Uuids, SetAction(u)
  PROVE  RegistryTypeOK' /\ \A v \in Uuids : SameJob(v)
  BY HeartbeatEffect DEF SetAction, Heartbeat

\* set_running on a live job.
LEMMA SetRunningEffect ==
  ASSUME RegistryTypeOK, NEW u \in Uuids, SetRunning(u)
  PROVE  /\ RegistryTypeOK'
         /\ \A v \in Uuids \ {u} : SameJob(v)
         /\ jobs'[u].tool = jobs[u].tool
         /\ Active(jobs[u]) => Active(jobs'[u])
<1>1. [jobs[u] EXCEPT !.status = "running"] \in JobRecord
  BY DEF RegistryTypeOK, JobRecord, Statuses
<1>2. MutateIfActive(u, [jobs[u] EXCEPT !.status = "running"])
  BY DEF SetRunning
<1>3. /\ [jobs[u] EXCEPT !.status = "running"].status = "running"
      /\ [jobs[u] EXCEPT !.status = "running"].tool = jobs[u].tool
  BY DEF RegistryTypeOK, JobRecord
<1>4. QED
  BY <1>1, <1>2, <1>3, MutateEffect DEF SameJob, Active, Terminal

\* complete on a live job is terminal and starts the retention.
LEMMA CompleteEffect ==
  ASSUME RegistryTypeOK, NEW u \in Uuids, NEW result \in Outcomes, Complete(u, result)
  PROVE  /\ RegistryTypeOK'
         /\ \A v \in Uuids : v # u \/ ~Active(jobs[u]) => jobs'[v] = jobs[v]
         /\ jobs'[u].tool = jobs[u].tool
         /\ Active(jobs[u]) => jobs'[u].status = "completed" /\ jobs'[u].quiet = 0
<1>1. [jobs[u] EXCEPT !.status = "completed", !.outcome = result] \in JobRecord
  BY DEF RegistryTypeOK, JobRecord, Statuses
<1>2. MutateIfActive(u, [jobs[u] EXCEPT !.status = "completed", !.outcome = result])
  BY DEF Complete
<1>3. LET updated == [jobs[u] EXCEPT !.status = "completed", !.outcome = result]
      IN  updated.status = "completed" /\ updated.tool = jobs[u].tool
  BY DEF RegistryTypeOK, JobRecord
<1>4. QED
  BY <1>1, <1>2, <1>3, MutateEffect DEF Active

\* fail likewise.
LEMMA FailEffect ==
  ASSUME RegistryTypeOK, NEW u \in Uuids, NEW error \in Outcomes, Fail(u, error)
  PROVE  /\ RegistryTypeOK'
         /\ \A v \in Uuids : v # u \/ ~Active(jobs[u]) => jobs'[v] = jobs[v]
         /\ jobs'[u].tool = jobs[u].tool
         /\ Active(jobs[u]) => jobs'[u].status = "failed" /\ jobs'[u].quiet = 0
<1>1. [jobs[u] EXCEPT !.status = "failed", !.outcome = error] \in JobRecord
  BY DEF RegistryTypeOK, JobRecord, Statuses
<1>2. MutateIfActive(u, [jobs[u] EXCEPT !.status = "failed", !.outcome = error])
  BY DEF Fail
<1>3. LET updated == [jobs[u] EXCEPT !.status = "failed", !.outcome = error]
      IN  updated.status = "failed" /\ updated.tool = jobs[u].tool
  BY DEF RegistryTypeOK, JobRecord
<1>4. QED
  BY <1>1, <1>2, <1>3, MutateEffect DEF Active

\* An accepted cancel changes no status; the job is not terminal.
LEMMA CancelEffect ==
  ASSUME RegistryTypeOK, NEW u \in Uuids, RequestCancel(u)
  PROVE  RegistryTypeOK' /\ \A v \in Uuids : SameJob(v)
<1>1. [jobs[u] EXCEPT !.cancel = TRUE, !.quiet = 0] \in JobRecord
  <2>1. jobs[u] \in JobRecord /\ 0 \in 0 .. TerminalRetention + 1
    BY RegistryAssumption DEF RegistryTypeOK
  <2>2. QED
    BY <2>1 DEF JobRecord
<1>2. jobs' = [jobs EXCEPT ![u] = [jobs[u] EXCEPT !.cancel = TRUE, !.quiet = 0]]
  BY DEF RequestCancel, RegistryTypeOK, JobRecord
<1>3. ~Terminal(jobs[u])
  BY DEF RequestCancel, CancelAllowed
<1>4. /\ RegistryTypeOK'
      /\ \A v \in Uuids \ {u} : jobs'[v] = jobs[v]
      /\ jobs'[u] = [jobs[u] EXCEPT !.cancel = TRUE, !.quiet = 0]
  BY <1>1, <1>2 DEF RegistryTypeOK
<1>5. jobs'[u].status = jobs[u].status /\ jobs'[u].tool = jobs[u].tool
  BY <1>4 DEF RegistryTypeOK, JobRecord
<1>6. QED
  BY <1>3, <1>4, <1>5 DEF SameJob

\* A new record is a record.
LEMMA RecordType ==
  ASSUME NEW tool \in Tools \cup {"none"}, NEW status \in Statuses
  PROVE  Record(tool, status) \in JobRecord
  BY RegistryAssumption DEF Record, JobRecord

\* register evicts stale records, and adds u's when it accepts.
LEMMA RegisterEffect ==
  ASSUME RegistryTypeOK, NEW u \in Uuids, NEW tool \in Tools, Register(u, tool)
  PROVE  /\ RegistryTypeOK'
         /\ \A v \in Uuids : v # u \/ ~RegisterAccepts(u) =>
              \/ jobs'[v] = jobs[v]
              \/ Stale(jobs[v]) /\ jobs'[v] = NoJob
         /\ RegisterAccepts(u) =>
              /\ jobs'[u] = Record(tool, "queued")
              /\ jobs[u].status = "unknown" \/ Stale(jobs[u])
<1>1. Record(tool, "queued") \in JobRecord /\ NoJob \in JobRecord
  BY RecordType DEF NoJob, Statuses
<1>2. Evicted \in [Uuids -> JobRecord]
  BY <1>1 DEF Evicted, RegistryTypeOK
<1>3. \A v \in Uuids : Evicted[v] = jobs[v] \/ (Stale(jobs[v]) /\ Evicted[v] = NoJob)
  BY DEF Evicted
<1>4. QED
  BY <1>1, <1>2, <1>3 DEF Register, RegisterAccepts, RegistryTypeOK

\* Time changes no status, and of a terminal record only its age.
LEMMA ElapseEffect ==
  ASSUME RegistryTypeOK, Elapse
  PROVE  /\ RegistryTypeOK'
         /\ \A v \in Uuids : jobs'[v].status = jobs[v].status
                              /\ jobs'[v].tool = jobs[v].tool
                              /\ jobs'[v].outcome = jobs[v].outcome
                              /\ jobs'[v].cancel = jobs[v].cancel
                              /\ jobs'[v].quiet >= jobs[v].quiet
<1>1. ASSUME NEW v \in Uuids
      PROVE  /\ Aged(jobs[v]) \in JobRecord
             /\ Aged(jobs[v]).status = jobs[v].status
             /\ Aged(jobs[v]).tool = jobs[v].tool
             /\ Aged(jobs[v]).outcome = jobs[v].outcome
             /\ Aged(jobs[v]).cancel = jobs[v].cancel
             /\ Aged(jobs[v]).quiet >= jobs[v].quiet
  <2>1. jobs[v] \in JobRecord
    BY DEF RegistryTypeOK
  <2>2. /\ Older(jobs[v].age, JobWallClock) \in 0 .. JobWallClock + 1
        /\ Older(jobs[v].silent, StallHintAfter) \in 0 .. StallHintAfter + 1
        /\ Older(jobs[v].quiet, TerminalRetention) \in 0 .. TerminalRetention + 1
        /\ Older(jobs[v].quiet, TerminalRetention) >= jobs[v].quiet
    BY <2>1, RegistryAssumption DEF JobRecord, Older
  <2>3. CASE Active(jobs[v])
    <3>1. Aged(jobs[v]) = [jobs[v] EXCEPT !.age = Older(jobs[v].age, JobWallClock),
                                          !.silent = Older(jobs[v].silent, StallHintAfter)]
      <4>1. ~Terminal(jobs[v])
        BY <2>3 DEF Active, Terminal
      <4>2. QED
        BY <2>3, <4>1, Zenon DEF Aged
    <3>2. Aged(jobs[v]) \in JobRecord
      BY <2>1, <2>2, <3>1 DEF JobRecord
    <3>3. /\ Aged(jobs[v]).status = jobs[v].status
          /\ Aged(jobs[v]).tool = jobs[v].tool
          /\ Aged(jobs[v]).outcome = jobs[v].outcome
          /\ Aged(jobs[v]).cancel = jobs[v].cancel
          /\ Aged(jobs[v]).quiet = jobs[v].quiet
      BY <2>1, <3>1 DEF JobRecord
    <3>4. jobs[v].quiet \in Nat
      BY <2>1, RegistryAssumption DEF JobRecord
    <3>5. QED
      BY <3>2, <3>3, <3>4
  <2>4. CASE Terminal(jobs[v])
    BY <2>1, <2>2, <2>4 DEF Aged, JobRecord, Active, Terminal
  <2>5. CASE ~Active(jobs[v]) /\ ~Terminal(jobs[v])
    BY <2>1, <2>5 DEF Aged, JobRecord
  <2>6. QED
    BY <2>3, <2>4, <2>5
<1>2. QED
  BY <1>1 DEF Elapse, RegistryTypeOK

-----------------------------------------------------------------------------
(* The operations of the journal keep its types. *)

LEMMA BeginType ==
  ASSUME JournalTypeOK, NEW u \in Uuids, BeginJournal(u)
  PROVE  JournalTypeOK'
  BY DEF JournalTypeOK, BeginJournal, NoEntries

LEMMA WriteType ==
  ASSUME JournalTypeOK, NEW u \in Uuids, NEW p \in Paths, NEW content \in Contents,
         NEW landed \in BOOLEAN, JournaledWrite(u, p, content, landed)
  PROVE  JournalTypeOK'
  BY DEF JournalTypeOK, JournaledWrite

LEMMA KeepType ==
  ASSUME JournalTypeOK, NEW u \in Uuids, KeepEdits(u)
  PROVE  JournalTypeOK'
  BY DEF JournalTypeOK, KeepEdits, NoEntries

LEMMA RollBackType ==
  ASSUME JournalTypeOK, NEW u \in Uuids, NEW stuck \in SUBSET Paths, RollBack(u, stuck)
  PROVE  JournalTypeOK'
  BY DEF JournalTypeOK, RollBack, Touched

LEMMA LoseType ==
  ASSUME JournalTypeOK, LoseJournals
  PROVE  JournalTypeOK'
  BY DEF JournalTypeOK, LoseJournals, NoEntries

-----------------------------------------------------------------------------
(* The types are inductive, given that a runner works for a life. *)

LEMMA InitType == Init => TypeOK
<1> SUFFICES ASSUME Init PROVE TypeOK
  OBVIOUS
<1>1. NoJob \in JobRecord
  BY RecordType DEF NoJob, Statuses
<1>2. RegistryTypeOK
  BY <1>1 DEF Init, RegistryInit, RegistryTypeOK
<1>3. JournalTypeOK
  BY DEF Init, JournalInit, JournalTypeOK, NoEntries, Contents
<1>4. 0 \in 0 .. MaxSteps /\ 0 \in 0 .. MaxLives
  BY RunnerAssumption
<1>5. QED
  BY <1>2, <1>3, <1>4 DEF Init, TypeOK

LEMMA TypeStep == TypeOK /\ StructInv /\ [Next]_vars => TypeOK'
<1> SUFFICES ASSUME TypeOK, StructInv, [Next]_vars PROVE TypeOK'
  OBVIOUS
<1> USE RunnerAssumption
<1>1. ASSUME NEW u \in Uuids, NEW tool \in Tools, Call(u, tool) PROVE TypeOK'
  BY <1>1, RegisterEffect
  DEF Call, TypeOK, JournalTypeOK, journalVars, threadVars
<1>2. ASSUME NEW u \in Uuids, NEW tool \in Tools, CallRefused(u, tool) PROVE TypeOK'
  BY <1>2, RegisterEffect
  DEF CallRefused, TypeOK, JournalTypeOK, journalVars, taskVars, threadVars, loopVars
<1>3. ASSUME NEW u \in Uuids, AnswerJoined(u) PROVE TypeOK'
  <2>1. RegistryTypeOK'
    BY <1>3, FailEffect DEF AnswerJoined, TypeOK, Outcomes, RegistryTypeOK
  <2>2. answer' \in [Uuids -> {"none", "pending", "accepted", "result", "error"}]
    BY <1>3 DEF AnswerJoined, TypeOK
  <2>3. QED
    BY <1>3, <2>1, <2>2
    DEF AnswerJoined, TypeOK, JournalTypeOK, journalVars, taskVars, threadVars
<1>4. ASSUME NEW u \in Uuids, AnswerTimeout(u) PROVE TypeOK'
  BY <1>4
  DEF AnswerTimeout, TypeOK, RegistryTypeOK, JournalTypeOK, journalVars, taskVars, threadVars
<1>5. ASSUME NEW u \in Uuids, Cancel(u) PROVE TypeOK'
  BY <1>5, CancelEffect
  DEF Cancel, TypeOK, JournalTypeOK, journalVars, taskVars, threadVars, loopVars
<1>6. ASSUME NEW u \in Uuids, RunnerStarts(u) PROVE TypeOK'
  BY <1>6, SetRunningEffect
  DEF RunnerStarts, TypeOK, JournalTypeOK, journalVars, threadVars, loopVars
<1>7. ASSUME NEW u \in Uuids, RunnerSpawnsWork(u) PROVE TypeOK'
  <2>1. RegistryTypeOK'
    BY <1>7, HeartbeatEffect DEF RunnerSpawnsWork, TypeOK
  <2>2. JournalTypeOK'
    BY <1>7, BeginType DEF RunnerSpawnsWork, TypeOK, JournalTypeOK, journalVars
  <2>3. QED
    BY <1>7, <2>1, <2>2 DEF RunnerSpawnsWork, TypeOK, loopVars
<1>8. ASSUME NEW u \in Uuids, RunnerDies(u) PROVE TypeOK'
  BY <1>8, HeartbeatEffect
  DEF RunnerDies, TypeOK, JournalTypeOK, journalVars, threadVars, loopVars
<1>9. ASSUME NEW u \in Uuids, RunnerEndsJournal(u) PROVE TypeOK'
  <2>1. JournalTypeOK'
    <3>1. CASE KeepEdits(u)
      BY <3>1, KeepType DEF TypeOK
    <3>2. ASSUME NEW stuck \in SUBSET (Touched(u) \cap FragilePaths), RollBack(u, stuck)
          PROVE  JournalTypeOK'
      BY <3>2, RollBackType DEF TypeOK, Touched
    <3>3. CASE UNCHANGED journalVars
      BY <3>3 DEF TypeOK, JournalTypeOK, journalVars
    <3>4. QED
      BY <1>9, <3>1, <3>2, <3>3 DEF RunnerEndsJournal
  <2>2. QED
    BY <1>9, <2>1 DEF RunnerEndsJournal, TypeOK, RegistryTypeOK, threadVars, loopVars
<1>10. ASSUME NEW u \in Uuids, RunnerReports(u) PROVE TypeOK'
  <2>1. verdict[u] \in Outcomes
    BY <1>10 DEF RunnerReports, TypeOK, StructInv, JobInv, WorkInv
  <2>2. RegistryTypeOK'
    BY <1>10, <2>1, CompleteEffect, FailEffect DEF RunnerReports, TypeOK
  <2>3. QED
    BY <1>10, <2>2 DEF RunnerReports, TypeOK, JournalTypeOK, journalVars, loopVars
<1>11. ASSUME NEW u \in Uuids, NEW p \in Paths, WorkWrites(u, p) PROVE TypeOK'
  <2>1. <<u, life[u]>> \in Contents
    <3>1. life[u] \in 1 .. MaxLives
      BY <1>11 DEF WorkWrites, WorkMoves, TypeOK, StructInv, JobInv, LifeInv
    <3>2. QED
      BY <3>1 DEF Contents
  <2>2. JournalTypeOK'
    BY <1>11, <2>1, WriteType DEF WorkWrites, TypeOK
  <2>3. QED
    BY <1>11, <2>2
    DEF WorkWrites, WorkMoves, SpendStep, TypeOK, RegistryTypeOK, threadVars, loopVars
<1>12. ASSUME NEW u \in Uuids,
              WorkReachesLoopHead(u) \/ WorkCallsProvider(u)
       PROVE  TypeOK'
  <2>1. steps' \in [Uuids -> 0 .. MaxSteps]
    BY <1>12 DEF WorkReachesLoopHead, WorkCallsProvider, SpendStep, TypeOK
  <2>2. QED
    BY <1>12, <2>1
    DEF WorkReachesLoopHead, WorkCallsProvider, WorkMoves, TypeOK,
        RegistryTypeOK, JournalTypeOK, journalVars, threadVars, loopVars
<1>13. ASSUME NEW u \in Uuids, LoopEnds(u) \/ CallReturns(u) PROVE TypeOK'
  BY <1>13
  DEF LoopEnds, CallReturns, WorkMoves, TypeOK, RegistryTypeOK, JournalTypeOK,
      journalVars, threadVars, loopVars
<1>14. ASSUME NEW u \in Uuids, LoopTurns(u) PROVE TypeOK'
  BY <1>14, SetActionEffect
  DEF LoopTurns, WorkMoves, TypeOK, JournalTypeOK, journalVars, threadVars, loopVars
<1>15. ASSUME NEW u \in Uuids, NEW from, NEW outcome \in Outcomes,
              WorkEndsWith(u, from, outcome)
       PROVE  TypeOK'
  BY <1>15
  DEF WorkEndsWith, WorkMoves, TypeOK, RegistryTypeOK, JournalTypeOK,
      journalVars, threadVars, loopVars
<1>16. ASSUME NEW u \in Uuids,
              LoopCancelled(u) \/ LoopOutOfTime(u) \/ WorkEnds(u) \/ WorkDropped(u)
       PROVE  TypeOK'
  BY <1>15, <1>16 DEF LoopCancelled, LoopOutOfTime, WorkEnds, WorkDropped, Outcomes
<1>17. ASSUME NEW u \in Uuids, ThreadExits(u) \/ ThreadWakes(u) PROVE TypeOK'
  BY <1>17
  DEF ThreadExits, ThreadWakes, TypeOK, RegistryTypeOK, JournalTypeOK, journalVars,
      taskVars, loopVars
<1>18. ASSUME NEW u \in Uuids, ThreadBeats(u) PROVE TypeOK'
  BY <1>18, HeartbeatEffect
  DEF ThreadBeats, TypeOK, JournalTypeOK, journalVars, taskVars, loopVars
<1>19. CASE HangUp
  BY <1>19
  DEF HangUp, TypeOK, RegistryTypeOK, JournalTypeOK, journalVars, taskVars, threadVars
<1>20. CASE Restart
  <2>1. NoJob \in JobRecord
    BY RecordType DEF NoJob, Statuses
  <2>2. RegistryTypeOK' /\ JournalTypeOK'
    BY <1>20, <2>1, LoseType DEF Restart, TypeOK, RegistryTypeOK
  <2>3. steps' \in [Uuids -> 0 .. MaxSteps] /\ session' \in Nat
    BY <1>20 DEF Restart, TypeOK
  <2>4. QED
    BY <1>20, <2>2, <2>3 DEF Restart, TypeOK
<1>21. CASE Tick
  BY <1>21, ElapseEffect
  DEF Tick, TypeOK, JournalTypeOK, journalVars, taskVars, loopVars
<1>22. CASE UNCHANGED vars
  BY <1>22
  DEF vars, TypeOK, RegistryTypeOK, JournalTypeOK, journalVars, taskVars, threadVars, loopVars
<1>23. QED
  BY <1>1, <1>2, <1>3, <1>4, <1>5, <1>6, <1>7, <1>8, <1>9, <1>10, <1>11, <1>12, <1>13,
     <1>14, <1>16, <1>17, <1>18, <1>19, <1>20, <1>21, <1>22
  DEF Next, Runner, WorkStep

-----------------------------------------------------------------------------
(* The structure is inductive.  A step moves one job, and mostly one part  *)
(* of it; Frame says what it leaves alone of a job.                        *)

TaskFrame(v) ==
  /\ runner'[v] = runner[v]
  /\ work'[v] = work[v]
  /\ verdict'[v] = verdict[v]
  /\ life'[v] = life[v]

ThreadFrame(v) ==
  /\ thread'[v] = thread[v]
  /\ v \in stopped' <=> v \in stopped

JournalFrame(v) ==
  /\ v \in armed' <=> v \in armed
  /\ prior'[v] = prior[v]

Frame(v) == TaskFrame(v) /\ ThreadFrame(v) /\ JournalFrame(v) /\ SameJob(v)

LEMMA JobFrame ==
  ASSUME NEW v \in Uuids, JobInv(v), Frame(v)
  PROVE  JobInv(v)'
<1> USE DEF Frame, TaskFrame, ThreadFrame, JournalFrame
<1>1. RecordInv(v)'
  BY DEF JobInv, RecordInv, SameJob, Active
<1>2. WorkInv(v)'
  BY DEF JobInv, WorkInv
<1>3. ThreadInv(v)'
  BY DEF JobInv, ThreadInv, SameJob, Terminal
<1>4. JournalInv(v)'
  BY DEF JobInv, JournalInv, OpenJournal, SameJob, Journaled, Touched
<1>5. LifeInv(v)'
  BY DEF JobInv, LifeInv
<1>6. QED
  BY <1>1, <1>2, <1>3, <1>4, <1>5 DEF JobInv

LEMMA InitStruct == Init => StructInv
<1> SUFFICES ASSUME Init, NEW u \in Uuids PROVE JobInv(u)
  BY DEF StructInv
<1>1. /\ jobs[u].status = "unknown"
      /\ runner[u] = "none" /\ work[u] = "none" /\ thread[u] = "off"
  BY DEF Init, RegistryInit, NoJob, Record
<1>2. stopped = {} /\ armed = {} /\ \A p \in Paths : prior[u][p] = Unseen
  BY DEF Init, JournalInit, NoEntries
<1>3. QED
  BY <1>1, <1>2 DEF JobInv, RecordInv, WorkInv, ThreadInv, JournalInv, OpenJournal, LifeInv, Active

\* An evicted record belongs to a job whose runner and thread are gone.
LEMMA EvictionFrame ==
  ASSUME TypeOK, NEW v \in Uuids, JobInv(v), Stale(jobs[v]), jobs'[v] = NoJob,
         TaskFrame(v), ThreadFrame(v), JournalFrame(v)
  PROVE  JobInv(v)'
<1>1. /\ Terminal(jobs[v])
      /\ jobs[v].quiet # 0
  <2>1. jobs[v].quiet > TerminalRetention
    BY DEF Stale
  <2>2. jobs[v].quiet \in Nat
    BY RegistryAssumption DEF TypeOK, RegistryTypeOK, JobRecord
  <2>3. QED
    BY <2>1, <2>2, RegistryAssumption DEF Stale
<1>2. runner[v] \notin {"none", "spawned", "started", "working", "settled"}
  BY <1>1 DEF JobInv, RecordInv, Terminal, Active
<1>3. thread[v] = "off"
  BY <1>1, <1>2 DEF JobInv, ThreadInv
<1>4. QED
  <2>1. jobs'[v].status = "unknown" /\ ~Journaled(v)'
    BY DEF NoJob, Record, Journaled, JournaledTools, WritingTools
  <2>2. RecordInv(v)' /\ WorkInv(v)' /\ ThreadInv(v)' /\ LifeInv(v)'
    BY <1>2, <1>3, <2>1
    DEF JobInv, RecordInv, WorkInv, ThreadInv, LifeInv, TaskFrame, ThreadFrame, Active
  <2>3. JournalInv(v)'
    BY <2>1 DEF JobInv, JournalInv, OpenJournal, JournalFrame
  <2>4. QED
    BY <2>2, <2>3 DEF JobInv

\* A job no step of which ends, whose work alone moves, keeps its structure.
LEMMA WorkFrame ==
  ASSUME TypeOK, StructInv, NEW u \in Uuids, NEW from, NEW to, to # "none",
         WorkMoves(u, from, to), UNCHANGED <<verdict, armed>>,
         \A v \in Uuids : SameJob(v),
         \A v \in Uuids : v # u => prior'[v] = prior[v],
         u \notin armed => prior'[u] = prior[u]
  PROVE  StructInv'
<1> SUFFICES ASSUME NEW v \in Uuids PROVE JobInv(v)'
  BY DEF StructInv
<1>1. JobInv(v)
  BY DEF StructInv
<1>2. CASE v # u
  <2>1. Frame(v)
    BY <1>2 DEF WorkMoves, TypeOK, Frame, TaskFrame, ThreadFrame, JournalFrame,
                threadVars, loopVars
  <2>2. QED
    BY <1>1, <2>1, JobFrame
<1>3. CASE v = u
  <2>1. /\ runner[u] = "working" /\ runner'[u] = "working"
        /\ work'[u] = to
        /\ thread'[u] = thread[u] /\ stopped' = stopped /\ life' = life
    BY DEF WorkMoves, TypeOK, threadVars
  <2>2. RecordInv(u)' /\ WorkInv(u)' /\ ThreadInv(u)' /\ LifeInv(u)'
    BY <1>1, <1>3, <2>1
    DEF JobInv, RecordInv, WorkInv, ThreadInv, LifeInv, SameJob, Active
  <2>3. JournalInv(u)'
    BY <1>1, <1>3, <2>1 DEF JobInv, JournalInv, OpenJournal, SameJob, Journaled
  <2>4. QED
    BY <1>3, <2>2, <2>3 DEF JobInv
<1>4. QED
  BY <1>2, <1>3

LEMMA StructStep == TypeOK /\ StructInv /\ [Next]_vars => StructInv'
<1> SUFFICES ASSUME TypeOK, StructInv, [Next]_vars PROVE StructInv'
  OBVIOUS
<1> USE DEF journalVars, taskVars, threadVars, loopVars
<1>1. ASSUME NEW u \in Uuids, NEW tool \in Tools, Call(u, tool) PROVE StructInv'
  <2> SUFFICES ASSUME NEW v \in Uuids PROVE JobInv(v)'
    BY DEF StructInv
  <2>1. JobInv(v)
    BY DEF StructInv
  <2>2. \/ jobs'[v] = jobs[v]
        \/ Stale(jobs[v]) /\ jobs'[v] = NoJob
        \/ /\ v = u
           /\ jobs'[u] = Record(tool, "queued")
           /\ jobs[u].status = "unknown" \/ Stale(jobs[u])
    BY <1>1, RegisterEffect DEF Call, TypeOK
  <2>3. CASE v # u
    <3>1. TaskFrame(v) /\ ThreadFrame(v) /\ JournalFrame(v)
      BY <1>1, <2>3 DEF Call, TypeOK, TaskFrame, ThreadFrame, JournalFrame
    <3>2. QED
      BY <2>1, <2>2, <2>3, <3>1, JobFrame, EvictionFrame DEF Frame, SameJob
  <2>4. CASE v = u
    <3>1. /\ jobs'[u] = Record(tool, "queued")
          /\ jobs[u].status = "unknown" \/ Stale(jobs[u])
      BY <1>1, RegisterEffect DEF Call, TypeOK
    <3>2. /\ runner[u] \notin {"spawned", "started", "working", "settled"}
          /\ thread[u] = "off" /\ work[u] = "none"
      <4>1. ~Active(jobs[u]) /\ (Terminal(jobs[u]) => jobs[u].quiet # 0)
        <5>1. jobs[u].quiet \in Nat
          BY RegistryAssumption DEF TypeOK, RegistryTypeOK, JobRecord
        <5>2. QED
          BY <3>1, <5>1, RegistryAssumption DEF Stale, Active, Terminal
      <4>2. QED
        BY <2>1, <2>4, <4>1 DEF JobInv, RecordInv, ThreadInv, WorkInv
    <3>3. /\ runner'[u] = "spawned" /\ work'[u] = "none" /\ thread'[u] = "off"
          /\ life'[u] = life[u] + 1
          /\ armed' = armed /\ prior' = prior
      BY <1>1, <3>2 DEF Call, TypeOK
    <3>4. life[u] \in Nat
      BY DEF TypeOK
    <3>5. Active(jobs'[u])
      BY <3>1 DEF Record, Active
    <3>6. RecordInv(u)' /\ WorkInv(u)' /\ LifeInv(u)'
      BY <3>3, <3>4, <3>5 DEF RecordInv, WorkInv, LifeInv
    <3>7. ThreadInv(u)'
      BY <1>1, <2>1, <2>4, <3>2, <3>3 DEF Call, JobInv, ThreadInv
    <3>8. JournalInv(u)'
      BY <2>1, <2>4, <3>3 DEF JobInv, JournalInv, OpenJournal
    <3>9. QED
      BY <2>4, <3>6, <3>7, <3>8 DEF JobInv
  <2>5. QED
    BY <2>3, <2>4
<1>2. ASSUME NEW u \in Uuids, NEW tool \in Tools, CallRefused(u, tool) PROVE StructInv'
  <2> SUFFICES ASSUME NEW v \in Uuids PROVE JobInv(v)'
    BY DEF StructInv
  <2>1. JobInv(v)
    BY DEF StructInv
  <2>2. \/ jobs'[v] = jobs[v]
        \/ Stale(jobs[v]) /\ jobs'[v] = NoJob
    BY <1>2, RegisterEffect DEF CallRefused, TypeOK
  <2>3. TaskFrame(v) /\ ThreadFrame(v) /\ JournalFrame(v)
    BY <1>2 DEF CallRefused, TaskFrame, ThreadFrame, JournalFrame
  <2>4. QED
    BY <2>1, <2>2, <2>3, JobFrame, EvictionFrame DEF Frame, SameJob
<1>3. ASSUME NEW u \in Uuids, AnswerJoined(u) PROVE StructInv'
  <2> SUFFICES ASSUME NEW v \in Uuids PROVE JobInv(v)'
    BY DEF StructInv
  <2>1. JobInv(v)
    BY DEF StructInv
  <2>2. TaskFrame(v) /\ ThreadFrame(v) /\ JournalFrame(v)
    BY <1>3 DEF AnswerJoined, TaskFrame, ThreadFrame, JournalFrame
  <2>3. CASE jobs'[v] = jobs[v]
    BY <2>1, <2>2, <2>3, JobFrame DEF Frame, SameJob
  <2>4. CASE jobs'[v] # jobs[v]
    <3>1. v = u /\ runner[u] = "dead" /\ jobs'[u].tool = jobs[u].tool
          /\ jobs'[u].status = "failed"
      BY <1>3, <2>4, FailEffect DEF AnswerJoined, TypeOK, Outcomes
    <3>2. QED
      BY <2>1, <2>2, <3>1
      DEF JobInv, RecordInv, WorkInv, ThreadInv, JournalInv, OpenJournal, LifeInv, Touched, Journaled,
          TaskFrame, ThreadFrame, JournalFrame
  <2>5. QED
    BY <2>3, <2>4
<1>4. ASSUME NEW u \in Uuids, AnswerTimeout(u) PROVE StructInv'
  BY <1>4, JobFrame
  DEF AnswerTimeout, StructInv, Frame, SameJob, TaskFrame, ThreadFrame, JournalFrame
<1>5. ASSUME NEW u \in Uuids, Cancel(u) PROVE StructInv'
  BY <1>5, CancelEffect, JobFrame
  DEF Cancel, TypeOK, StructInv, Frame, TaskFrame, ThreadFrame, JournalFrame
<1>6. ASSUME NEW u \in Uuids, RunnerStarts(u) PROVE StructInv'
  <2> SUFFICES ASSUME NEW v \in Uuids PROVE JobInv(v)'
    BY DEF StructInv
  <2>1. JobInv(v) /\ JobInv(u)
    BY DEF StructInv
  <2>2. CASE v # u
    <3>1. Frame(v)
      BY <1>6, <2>2, SetRunningEffect
      DEF RunnerStarts, TypeOK, Frame, TaskFrame, ThreadFrame, JournalFrame
    <3>2. QED
      BY <2>1, <3>1, JobFrame
  <2>3. CASE v = u
    <3>1. Active(jobs'[u])
      BY <1>6, <2>1, SetRunningEffect DEF RunnerStarts, TypeOK, JobInv, RecordInv
    <3>2. runner[u] = "spawned" /\ runner'[u] = "started"
      BY <1>6 DEF RunnerStarts, TypeOK
    <3>3. QED
      BY <1>6, <2>1, <2>3, <3>1, <3>2
      DEF RunnerStarts, JobInv, RecordInv, WorkInv, ThreadInv, JournalInv, OpenJournal, LifeInv, Touched
  <2>4. QED
    BY <2>2, <2>3
<1>7. ASSUME NEW u \in Uuids, RunnerSpawnsWork(u) PROVE StructInv'
  <2> SUFFICES ASSUME NEW v \in Uuids PROVE JobInv(v)'
    BY DEF StructInv
  <2>1. JobInv(v) /\ JobInv(u)
    BY DEF StructInv
  <2>2. SameJob(v) /\ SameJob(u)
    BY <1>7, HeartbeatEffect DEF RunnerSpawnsWork, TypeOK
  <2>3. CASE v # u
    <3>1. JournalFrame(v)
      BY <1>7, <2>3 DEF RunnerSpawnsWork, BeginJournal, JournalFrame, TypeOK, JournalTypeOK
    <3>2. Frame(v)
      BY <1>7, <2>2, <2>3, <3>1 DEF RunnerSpawnsWork, TypeOK, Frame, TaskFrame, ThreadFrame
    <3>3. QED
      BY <2>1, <3>2, JobFrame
  <2>4. CASE v = u
    <3>1. /\ runner[u] = "started" /\ runner'[u] = "working"
          /\ work'[u] = "busy" /\ thread'[u] = "asleep" /\ life' = life
      BY <1>7 DEF RunnerSpawnsWork, TypeOK
    <3>2. RecordInv(u)' /\ WorkInv(u)' /\ LifeInv(u)'
      BY <2>1, <2>2, <3>1 DEF JobInv, RecordInv, WorkInv, LifeInv, SameJob, Active
    <3>3. ThreadInv(u)'
      <4>1. u \notin stopped
        BY <2>1, <3>1 DEF JobInv, ThreadInv
      <4>2. QED
        BY <1>7, <3>1, <4>1 DEF RunnerSpawnsWork, ThreadInv
    <3>4. JournalInv(u)'
      <4>1. CASE Journaled(u)
        BY <1>7, <2>2, <3>1, <4>1
        DEF RunnerSpawnsWork, BeginJournal, JournalInv, OpenJournal, Journaled, SameJob
      <4>2. CASE ~Journaled(u)
        BY <1>7, <2>1, <2>2, <3>1, <4>2
        DEF RunnerSpawnsWork, JobInv, JournalInv, OpenJournal, Journaled, SameJob
      <4>3. QED
        BY <4>1, <4>2
    <3>5. QED
      BY <2>4, <3>2, <3>3, <3>4 DEF JobInv
  <2>5. QED
    BY <2>3, <2>4
<1>8. ASSUME NEW u \in Uuids, RunnerDies(u) PROVE StructInv'
  <2> SUFFICES ASSUME NEW v \in Uuids PROVE JobInv(v)'
    BY DEF StructInv
  <2>1. JobInv(v)
    BY DEF StructInv
  <2>2. SameJob(v)
    BY <1>8, HeartbeatEffect DEF RunnerDies, TypeOK
  <2>3. CASE v # u
    <3>1. Frame(v)
      BY <1>8, <2>2, <2>3
      DEF RunnerDies, TypeOK, Frame, TaskFrame, ThreadFrame, JournalFrame
    <3>2. QED
      BY <2>1, <3>1, JobFrame
  <2>4. CASE v = u
    <3>1. runner[u] = "started" /\ runner'[u] = "dead"
      BY <1>8 DEF RunnerDies, TypeOK
    <3>2. QED
      BY <1>8, <2>1, <2>2, <2>4, <3>1
      DEF RunnerDies, JobInv, RecordInv, WorkInv, ThreadInv, JournalInv, OpenJournal, LifeInv, Touched,
          SameJob
  <2>5. QED
    BY <2>3, <2>4
<1>9. ASSUME NEW u \in Uuids, RunnerEndsJournal(u) PROVE StructInv'
  <2> SUFFICES ASSUME NEW v \in Uuids PROVE JobInv(v)'
    BY DEF StructInv
  <2>1. JobInv(v) /\ JobInv(u)
    BY DEF StructInv
  <2>2. SameJob(v) /\ SameJob(u)
    BY <1>9 DEF RunnerEndsJournal, SameJob
  <2>3. CASE v # u
    <3>1. JournalFrame(v)
      BY <1>9, <2>3
      DEF RunnerEndsJournal, KeepEdits, RollBack, JournalFrame, TypeOK, JournalTypeOK
    <3>2. Frame(v)
      BY <1>9, <2>2, <2>3, <3>1 DEF RunnerEndsJournal, TypeOK, Frame, TaskFrame, ThreadFrame
    <3>3. QED
      BY <2>1, <3>2, JobFrame
  <2>4. CASE v = u
    <3>1. /\ runner[u] = "working" /\ runner'[u] = "settled"
          /\ work[u] = "none" /\ work' = work /\ verdict' = verdict
          /\ thread' = thread /\ stopped' = stopped /\ life' = life
      BY <1>9 DEF RunnerEndsJournal, TypeOK
    <3>2. RecordInv(u)' /\ WorkInv(u)' /\ ThreadInv(u)' /\ LifeInv(u)'
      BY <2>1, <2>2, <3>1
      DEF JobInv, RecordInv, WorkInv, ThreadInv, LifeInv, SameJob, Active
    <3>3. JournalInv(u)'
      <4>1. CASE KeepEdits(u)
        BY <3>1, <4>1 DEF KeepEdits, JournalInv, OpenJournal, NoEntries, TypeOK, JournalTypeOK
      <4>2. ASSUME NEW stuck \in SUBSET (Touched(u) \cap FragilePaths), RollBack(u, stuck)
            PROVE  JournalInv(u)'
        <5>1. prior'[u] = [p \in Paths |-> IF p \in stuck THEN prior[u][p] ELSE Unseen]
          BY <4>2 DEF RollBack, TypeOK, JournalTypeOK
        <5>2. Touched(u)' = stuck
          BY <5>1 DEF Touched
        <5>3. u \in armed' => stuck # {}
          BY <4>2 DEF RollBack
        <5>4. u \notin armed' => stuck = {}
          BY <2>1, <3>1, <4>2 DEF RollBack, JobInv, JournalInv, Touched
        <5>5. QED
          BY <3>1, <5>1, <5>2, <5>3, <5>4 DEF JournalInv, OpenJournal
      <4>3. CASE ~Journaled(u) /\ UNCHANGED journalVars
        BY <2>1, <2>2, <3>1, <4>3
        DEF JobInv, JournalInv, OpenJournal, Journaled, SameJob
      <4>4. QED
        BY <1>9, <4>1, <4>2, <4>3 DEF RunnerEndsJournal
    <3>4. QED
      BY <2>4, <3>2, <3>3 DEF JobInv
  <2>5. QED
    BY <2>3, <2>4
<1>10. ASSUME NEW u \in Uuids, RunnerReports(u) PROVE StructInv'
  <2> SUFFICES ASSUME NEW v \in Uuids PROVE JobInv(v)'
    BY DEF StructInv
  <2>1. JobInv(v) /\ JobInv(u)
    BY DEF StructInv
  <2>2. verdict[u] \in Outcomes
    BY <1>10, <2>1 DEF RunnerReports, TypeOK, JobInv, WorkInv
  <2>3. CASE v # u
    <3>1. SameJob(v)
      BY <1>10, <2>2, <2>3, CompleteEffect, FailEffect DEF RunnerReports, TypeOK, SameJob
    <3>2. Frame(v)
      BY <1>10, <2>3, <3>1
      DEF RunnerReports, TypeOK, Frame, TaskFrame, ThreadFrame, JournalFrame
    <3>3. QED
      BY <2>1, <3>2, JobFrame
  <2>4. CASE v = u
    <3>1. /\ runner[u] = "settled" /\ runner'[u] = "finished"
          /\ work' = work /\ thread' = thread /\ u \in stopped' /\ life' = life
          /\ armed' = armed /\ prior' = prior
      BY <1>10 DEF RunnerReports, TypeOK
    <3>2. Terminal(jobs'[u]) /\ jobs'[u].quiet = 0 /\ jobs'[u].tool = jobs[u].tool
      <4>1. Active(jobs[u])
        BY <2>1, <3>1 DEF JobInv, RecordInv
      <4>2. QED
        BY <1>10, <2>2, <4>1, CompleteEffect, FailEffect DEF RunnerReports, TypeOK, Terminal
    <3>3. RecordInv(u)' /\ WorkInv(u)' /\ ThreadInv(u)' /\ LifeInv(u)'
      BY <2>1, <3>1, <3>2
      DEF JobInv, RecordInv, WorkInv, ThreadInv, LifeInv, Terminal, Active
    <3>4. JournalInv(u)'
      BY <2>1, <3>1, <3>2 DEF JobInv, JournalInv, OpenJournal, Journaled, Touched
    <3>5. QED
      BY <2>4, <3>3, <3>4 DEF JobInv
  <2>5. QED
    BY <2>3, <2>4
<1>11. ASSUME NEW u \in Uuids, NEW p \in Paths, WorkWrites(u, p) PROVE StructInv'
  <2>1. \A v \in Uuids : SameJob(v)
    BY <1>11 DEF WorkWrites, SameJob
  <2>2. /\ \A v \in Uuids : v # u => prior'[v] = prior[v]
        /\ u \notin armed => prior'[u] = prior[u]
    BY <1>11 DEF WorkWrites, JournaledWrite, TypeOK, JournalTypeOK
  <2>3. WorkMoves(u, "busy", "busy") /\ UNCHANGED <<verdict, armed>>
    BY <1>11 DEF WorkWrites, JournaledWrite
  <2>4. QED
    BY <2>1, <2>2, <2>3, WorkFrame
<1>12. ASSUME NEW u \in Uuids,
              \/ WorkReachesLoopHead(u) \/ WorkCallsProvider(u)
              \/ LoopEnds(u) \/ CallReturns(u)
       PROVE  StructInv'
  <2>1. (\A v \in Uuids : SameJob(v)) /\ UNCHANGED <<verdict, armed, prior>>
    BY <1>12 DEF WorkReachesLoopHead, WorkCallsProvider, LoopEnds, CallReturns, SameJob
  <2>2. PICK from, to \in {"busy", "head", "call"} : WorkMoves(u, from, to)
    BY <1>12 DEF WorkReachesLoopHead, WorkCallsProvider, LoopEnds, CallReturns
  <2>3. QED
    BY <2>1, <2>2, WorkFrame
<1>13. ASSUME NEW u \in Uuids, LoopTurns(u) PROVE StructInv'
  <2>1. \A v \in Uuids : SameJob(v)
    BY <1>13, SetActionEffect DEF LoopTurns, TypeOK
  <2>2. WorkMoves(u, "head", "call") /\ UNCHANGED <<verdict, armed, prior>>
    BY <1>13 DEF LoopTurns
  <2>3. QED
    BY <2>1, <2>2, WorkFrame
<1>14. ASSUME NEW u \in Uuids, NEW from, NEW outcome \in Outcomes,
              WorkEndsWith(u, from, outcome)
       PROVE  StructInv'
  <2> SUFFICES ASSUME NEW v \in Uuids PROVE JobInv(v)'
    BY DEF StructInv
  <2>1. JobInv(v) /\ JobInv(u)
    BY DEF StructInv
  <2>2. CASE v # u
    <3>1. Frame(v)
      BY <1>14, <2>2
      DEF WorkEndsWith, WorkMoves, TypeOK, Frame, TaskFrame, ThreadFrame, JournalFrame, SameJob
    <3>2. QED
      BY <2>1, <3>1, JobFrame
  <2>3. CASE v = u
    <3>1. runner[u] = "working" /\ work'[u] = "none" /\ verdict'[u] = outcome
      BY <1>14 DEF WorkEndsWith, WorkMoves, TypeOK
    <3>2. "none" \notin Outcomes
      BY DEF Outcomes
    <3>3. QED
      BY <1>14, <2>1, <2>3, <3>1, <3>2
      DEF WorkEndsWith, WorkMoves, JobInv, RecordInv, WorkInv, ThreadInv, JournalInv,
          OpenJournal, LifeInv, Touched, Journaled
  <2>4. QED
    BY <2>2, <2>3
<1>15. ASSUME NEW u \in Uuids,
              LoopCancelled(u) \/ LoopOutOfTime(u) \/ WorkEnds(u) \/ WorkDropped(u)
       PROVE  StructInv'
  BY <1>14, <1>15 DEF LoopCancelled, LoopOutOfTime, WorkEnds, WorkDropped, Outcomes
<1>16. ASSUME NEW u \in Uuids, ThreadExits(u) \/ ThreadWakes(u) \/ ThreadBeats(u)
       PROVE  StructInv'
  <2> SUFFICES ASSUME NEW v \in Uuids PROVE JobInv(v)'
    BY DEF StructInv
  <2>1. JobInv(v) /\ JobInv(u)
    BY DEF StructInv
  <2>2. SameJob(v) /\ SameJob(u)
    BY <1>16, HeartbeatEffect DEF ThreadExits, ThreadWakes, ThreadBeats, SameJob, TypeOK
  <2>3. TaskFrame(v) /\ JournalFrame(v)
    BY <1>16 DEF ThreadExits, ThreadWakes, ThreadBeats, TaskFrame, JournalFrame
  <2>4. CASE v # u
    <3>1. ThreadFrame(v)
      BY <1>16, <2>4 DEF ThreadExits, ThreadWakes, ThreadBeats, ThreadFrame, TypeOK
    <3>2. QED
      BY <2>1, <2>2, <2>3, <3>1, JobFrame DEF Frame
  <2>5. CASE v = u
    <3>1. RecordInv(u)' /\ WorkInv(u)' /\ LifeInv(u)'
      BY <2>1, <2>2, <2>3, <2>5
      DEF JobInv, RecordInv, WorkInv, LifeInv, SameJob, Active, TaskFrame
    <3>2. JournalInv(u)'
      BY <2>1, <2>2, <2>3, <2>5
      DEF JobInv, JournalInv, OpenJournal, SameJob, Journaled, Touched, TaskFrame, JournalFrame
    <3>3. thread[u] # "off" /\ runner'[u] = runner[u]
      BY <1>16, <2>3, <2>5 DEF ThreadExits, ThreadWakes, ThreadBeats, TaskFrame
    <3>4. ThreadInv(u)'
      <4>1. CASE ThreadExits(u)
        <5>1. thread'[u] = "off" /\ u \notin stopped' /\ u \in stopped
          BY <4>1 DEF ThreadExits, TypeOK
        <5>2. QED
          BY <2>1, <3>3, <5>1 DEF JobInv, ThreadInv
      <4>2. CASE ThreadWakes(u) \/ ThreadBeats(u)
        <5>1. thread'[u] # "off" /\ stopped' = stopped
          BY <4>2 DEF ThreadWakes, ThreadBeats, TypeOK
        <5>2. QED
          BY <2>1, <2>2, <3>3, <5>1 DEF JobInv, ThreadInv, SameJob, Terminal
      <4>3. QED
        BY <1>16, <4>1, <4>2
    <3>5. QED
      BY <2>5, <3>1, <3>2, <3>4 DEF JobInv
  <2>6. QED
    BY <2>4, <2>5
<1>17. CASE HangUp \/ UNCHANGED vars
  BY <1>17, JobFrame
  DEF HangUp, vars, StructInv, Frame, SameJob, TaskFrame, ThreadFrame, JournalFrame
<1>18. CASE Restart
  <2> SUFFICES ASSUME NEW v \in Uuids PROVE JobInv(v)'
    BY DEF StructInv
  <2>1. /\ jobs'[v].status = "unknown"
        /\ runner'[v] = "none" /\ work'[v] = "none" /\ thread'[v] = "off"
    BY <1>18 DEF Restart, NoJob, Record
  <2>2. stopped' = {} /\ armed' = {} /\ \A p \in Paths : prior'[v][p] = Unseen
    BY <1>18 DEF Restart, LoseJournals, NoEntries
  <2>3. QED
    BY <2>1, <2>2 DEF JobInv, RecordInv, WorkInv, ThreadInv, JournalInv, OpenJournal, LifeInv, Active
<1>19. CASE Tick
  <2> SUFFICES ASSUME NEW v \in Uuids PROVE JobInv(v)'
    BY DEF StructInv
  <2>1. JobInv(v)
    BY DEF StructInv
  <2>2. jobs'[v].status = jobs[v].status /\ jobs'[v].tool = jobs[v].tool
    BY <1>19, ElapseEffect DEF Tick, TypeOK
  <2>3. TaskFrame(v) /\ JournalFrame(v)
    BY <1>19 DEF Tick, TaskFrame, JournalFrame
  <2>4. RecordInv(v)' /\ WorkInv(v)' /\ LifeInv(v)'
    BY <2>1, <2>2, <2>3 DEF JobInv, RecordInv, WorkInv, LifeInv, Active, TaskFrame
  <2>5. JournalInv(v)'
    BY <2>1, <2>2, <2>3
    DEF JobInv, JournalInv, OpenJournal, Journaled, Touched, TaskFrame, JournalFrame
  <2>6. ThreadInv(v)'
    <3>1. /\ thread[v] = "off" \/ v \notin stopped
          /\ thread'[v] = "off" <=> thread[v] = "off"
          /\ stopped' = stopped
      BY <1>19 DEF Tick, TypeOK
    <3>2. QED
      BY <2>1, <2>3, <3>1 DEF JobInv, ThreadInv, TaskFrame
  <2>7. QED
    BY <2>4, <2>5, <2>6 DEF JobInv
<1>20. QED
  BY <1>1, <1>2, <1>3, <1>4, <1>5, <1>6, <1>7, <1>8, <1>9, <1>10, <1>11, <1>12, <1>13,
     <1>15, <1>16, <1>17, <1>18, <1>19
  DEF Next, Runner, WorkStep

-----------------------------------------------------------------------------
(* Theorems. *)

LEMMA Structure == Spec => [](TypeOK /\ StructInv)
<1>1. Init => TypeOK /\ StructInv
  BY InitType, InitStruct
<1>2. TypeOK /\ StructInv /\ [Next]_vars => (TypeOK /\ StructInv)'
  BY TypeStep, StructStep
<1>3. QED
  BY <1>1, <1>2, PTL DEF Spec

\* The state of the registry, the journals, the runners and the stdio loop
\* has its types in every behaviour.
THEOREM TypeCorrect == Spec => []TypeOK
  BY Structure, PTL

\* A job that a poll shows as terminal has no work left, and no journal but
\* what a rollback could not restore.
THEOREM TerminalSettled == Spec => []TerminalIsSettled
<1>1. TypeOK /\ StructInv => TerminalIsSettled
  BY DEF StructInv, JobInv, RecordInv, WorkInv, JournalInv, TerminalIsSettled, Terminal,
         Active, TypeOK
<1>2. QED
  BY <1>1, Structure, PTL

\* The record of a uuid stays while a runner or a heartbeat thread works
\* under it: an eviction takes no record that is still in use.
THEOREM TasksKeepRecords == Spec => []TaskKeepsRecord
<1>1. StructInv => TaskKeepsRecord
  BY DEF StructInv, JobInv, RecordInv, ThreadInv, TaskKeepsRecord, Terminal, Active, Known
<1>2. QED
  BY <1>1, Structure, PTL

\* A record that stays as it is keeps its outcome.
LEMMA SameKeepsOutcome ==
  ASSUME TypeOK, NEW v \in Uuids, Terminal(jobs[v]) => jobs'[v] = jobs[v]
  PROVE  KeepsOutcome(v)
<1>1. jobs[v].quiet \in Int
  BY RegistryAssumption DEF TypeOK, RegistryTypeOK, JobRecord
<1>2. QED
  BY <1>1 DEF KeepsOutcome

\* The first outcome of a job is the one every later poll reads.
THEOREM FirstOutcomeIsFinal == Spec => OutcomeIsFinal
<1>1. TypeOK /\ StructInv /\ [Next]_vars =>
        [session' = session => \A u \in Uuids : KeepsOutcome(u)]_vars
  <2> SUFFICES ASSUME TypeOK, StructInv, [Next]_vars, session' = session, NEW v \in Uuids
               PROVE  KeepsOutcome(v)
    OBVIOUS
  <2>1. ASSUME NEW u \in Uuids, NEW tool \in Tools, Call(u, tool) \/ CallRefused(u, tool)
        PROVE  KeepsOutcome(v)
    <3>1. \/ jobs'[v] = jobs[v]
          \/ Stale(jobs[v])
          \/ ~Terminal(jobs[v])
      BY <2>1, RegisterEffect DEF Call, CallRefused, TypeOK, Terminal
    <3>2. QED
      BY <3>1, SameKeepsOutcome DEF KeepsOutcome
  <2>2. ASSUME NEW u \in Uuids, AnswerJoined(u) PROVE KeepsOutcome(v)
    BY <2>2, FailEffect, SameKeepsOutcome
    DEF AnswerJoined, TypeOK, Outcomes, Terminal, Active
  <2>3. ASSUME NEW u \in Uuids, Cancel(u) PROVE KeepsOutcome(v)
    BY <2>3, CancelEffect, SameKeepsOutcome DEF Cancel, TypeOK, SameJob
  <2>4. ASSUME NEW u \in Uuids, RunnerStarts(u) PROVE KeepsOutcome(v)
    <3>1. Active(jobs[u])
      BY <2>4 DEF RunnerStarts, StructInv, JobInv, RecordInv
    <3>2. QED
      BY <2>4, <3>1, SetRunningEffect, SameKeepsOutcome
      DEF RunnerStarts, TypeOK, SameJob, Active, Terminal
  <2>5. ASSUME NEW u \in Uuids,
               RunnerSpawnsWork(u) \/ RunnerDies(u) \/ LoopTurns(u) \/ ThreadBeats(u)
        PROVE  KeepsOutcome(v)
    BY <2>5, HeartbeatEffect, SetActionEffect, SameKeepsOutcome
    DEF RunnerSpawnsWork, RunnerDies, LoopTurns, ThreadBeats, TypeOK, SameJob
  <2>6. ASSUME NEW u \in Uuids, RunnerReports(u) PROVE KeepsOutcome(v)
    <3>1. verdict[u] \in Outcomes
      BY <2>6 DEF RunnerReports, TypeOK, StructInv, JobInv, WorkInv
    <3>2. QED
      BY <2>6, <3>1, CompleteEffect, FailEffect, SameKeepsOutcome
      DEF RunnerReports, TypeOK, Active, Terminal
  <2>7. CASE Tick
    BY <2>7, ElapseEffect DEF Tick, TypeOK, KeepsOutcome
  <2>8. CASE UNCHANGED jobs
    BY <2>8, SameKeepsOutcome
  <2>9. ASSUME NEW u \in Uuids,
               \/ AnswerTimeout(u) \/ RunnerEndsJournal(u) \/ WorkReachesLoopHead(u)
               \/ LoopEnds(u) \/ LoopCancelled(u) \/ LoopOutOfTime(u) \/ CallReturns(u)
               \/ WorkCallsProvider(u) \/ WorkEnds(u) \/ WorkDropped(u) \/ ThreadExits(u)
               \/ ThreadWakes(u) \/ \E p \in Paths : WorkWrites(u, p)
        PROVE  UNCHANGED jobs
    BY <2>9
    DEF AnswerTimeout, RunnerEndsJournal, WorkReachesLoopHead, LoopEnds, LoopCancelled,
        LoopOutOfTime, CallReturns, WorkCallsProvider, WorkEnds, WorkDropped, WorkEndsWith,
        ThreadExits, ThreadWakes, WorkWrites
  <2>10. CASE HangUp \/ UNCHANGED vars
    BY <2>8, <2>10 DEF HangUp, vars
  <2>11. ~Restart
    BY DEF Restart, TypeOK
  <2>12. QED
    BY <2>1, <2>2, <2>3, <2>4, <2>5, <2>6, <2>7, <2>8, <2>9, <2>10, <2>11
    DEF Next, Runner, WorkStep
<1>2. QED
  BY <1>1, Structure, PTL DEF Spec, OutcomeIsFinal
-----------------------------------------------------------------------------
(* What a poll shows of a live job, and what the client was told.          *)

\* A thread that sleeps has just beaten, one that is due is a tick late; an
\* answer was given when the runner was gone and the record settled.
PollInv(u) ==
  /\ runner[u] = "spawned" => jobs[u].status = "queued"
  /\ Active(jobs[u]) /\ thread[u] = "asleep" => jobs[u].silent = 0
  /\ Active(jobs[u]) /\ thread[u] # "off" => jobs[u].silent <= 1
  /\ answer[u] \in {"result", "error"} => runner[u] \in {"finished", "dead"}
  /\ answer[u] = "result" => jobs[u].status \in {"completed", "unknown"}
  /\ answer[u] = "error" => jobs[u].status \in {"failed", "unknown"}

\* Heartbeats, and the actions of agent turns, reset the age of the last one;
\* nothing else touches it.
LEMMA SilentEffect ==
  ASSUME RegistryTypeOK, NEW u \in Uuids, Heartbeat(u) \/ SetAction(u)
  PROVE  /\ \A v \in Uuids \ {u} : jobs'[v] = jobs[v]
         /\ Active(jobs[u]) => jobs'[u].silent = 0
<1>1. jobs[u] \in JobRecord
  BY DEF RegistryTypeOK
<1>2. [[jobs[u] EXCEPT !.silent = 0] EXCEPT !.quiet = 0].silent = 0
  BY <1>1 DEF JobRecord
<1>3. jobs' = IF Active(jobs[u])
                THEN [jobs EXCEPT ![u] = [[jobs[u] EXCEPT !.silent = 0] EXCEPT !.quiet = 0]]
                ELSE jobs
  BY DEF Heartbeat, SetAction, MutateIfActive
<1>4. QED
  BY <1>2, <1>3 DEF RegistryTypeOK

LEMMA NotSilentEffect ==
  ASSUME RegistryTypeOK, NEW u \in Uuids, SetRunning(u) \/ RequestCancel(u), NEW v \in Uuids
  PROVE  jobs'[v].silent = jobs[v].silent
<1>1. jobs[u] \in JobRecord
  BY DEF RegistryTypeOK
<1>2. /\ [[jobs[u] EXCEPT !.status = "running"] EXCEPT !.quiet = 0].silent = jobs[u].silent
      /\ [jobs[u] EXCEPT !.cancel = TRUE, !.quiet = 0].silent = jobs[u].silent
  BY <1>1 DEF JobRecord
<1>3. \/ jobs' = jobs
      \/ jobs' = [jobs EXCEPT ![u] = [[jobs[u] EXCEPT !.status = "running"] EXCEPT !.quiet = 0]]
      \/ jobs' = [jobs EXCEPT ![u] = [jobs[u] EXCEPT !.cancel = TRUE, !.quiet = 0]]
  <2>1. CASE SetRunning(u)
    BY <2>1 DEF SetRunning, MutateIfActive
  <2>2. CASE RequestCancel(u)
    BY <2>2, <1>1 DEF RequestCancel, RegistryTypeOK
  <2>3. QED
    BY <2>1, <2>2
<1>4. QED
  BY <1>2, <1>3 DEF RegistryTypeOK

LEMMA PollFrame ==
  ASSUME NEW v \in Uuids, PollInv(v), jobs'[v].status = jobs[v].status,
         runner'[v] = runner[v],
         \/ jobs'[v].silent = jobs[v].silent /\ thread'[v] = thread[v]
         \/ jobs'[v].silent = jobs[v].silent /\ thread'[v] = "off"
         \/ jobs'[v].silent = jobs[v].silent /\ thread'[v] = "beating" /\ thread[v] # "off"
         \/ Active(jobs[v]) => jobs'[v].silent = 0,
         answer'[v] = answer[v] \/ answer'[v] = "accepted"
  PROVE  PollInv(v)'
  BY DEF PollInv, Active

\* Who loses a record has nothing left that a poll could show.
LEMMA PollEviction ==
  ASSUME NEW v \in Uuids, RecordInv(v), PollInv(v), Stale(jobs[v]), jobs'[v] = NoJob,
         runner'[v] = runner[v], answer'[v] = answer[v]
  PROVE  PollInv(v)'
<1>1. jobs'[v].status = "unknown" /\ runner[v] # "spawned"
  BY DEF NoJob, Record, Stale, Terminal, RecordInv, Active
<1>2. QED
  BY <1>1 DEF PollInv, Active

LEMMA PollStep ==
  TypeOK /\ StructInv /\ (\A u \in Uuids : PollInv(u)) /\ [Next]_vars =>
    \A u \in Uuids : PollInv(u)'
<1> SUFFICES ASSUME TypeOK, StructInv, \A u \in Uuids : PollInv(u), [Next]_vars,
                    NEW v \in Uuids
             PROVE  PollInv(v)'
  OBVIOUS
<1> USE DEF journalVars, taskVars, threadVars, loopVars
<1>0. PollInv(v) /\ JobInv(v) /\ RegistryTypeOK
  BY DEF StructInv, TypeOK
<1>1. ASSUME NEW u \in Uuids, NEW tool \in Tools, Call(u, tool) PROVE PollInv(v)'
  <2>1. CASE v # u
    <3>1. /\ runner'[v] = runner[v] /\ answer'[v] = answer[v] /\ thread' = thread
          /\ jobs'[v] = jobs[v] \/ (Stale(jobs[v]) /\ jobs'[v] = NoJob)
      BY <1>1, <2>1, RegisterEffect DEF Call, TypeOK
    <3>2. QED
      BY <1>0, <3>1, PollFrame, PollEviction DEF JobInv
  <2>2. CASE v = u
    <3>1. /\ jobs'[u] = Record(tool, "queued")
          /\ answer'[u] = "pending" /\ runner'[u] = "spawned"
      BY <1>1, RegisterEffect DEF Call, TypeOK
    <3>2. QED
      BY <2>2, <3>1 DEF PollInv, Record
  <2>3. QED
    BY <2>1, <2>2
<1>2. ASSUME NEW u \in Uuids, NEW tool \in Tools, CallRefused(u, tool) PROVE PollInv(v)'
  <2>1. /\ runner' = runner /\ answer' = answer /\ thread' = thread
        /\ jobs'[v] = jobs[v] \/ (Stale(jobs[v]) /\ jobs'[v] = NoJob)
    BY <1>2, RegisterEffect DEF CallRefused, TypeOK
  <2>2. QED
    BY <1>0, <2>1, PollFrame, PollEviction DEF JobInv
<1>3. ASSUME NEW u \in Uuids, AnswerJoined(u) PROVE PollInv(v)'
  <2>1. runner' = runner /\ thread' = thread /\ runner[u] \in {"finished", "dead"}
    BY <1>3 DEF AnswerJoined
  <2>2. CASE v # u
    <3>1. jobs'[v] = jobs[v] /\ answer'[v] = answer[v]
      BY <1>3, <2>2, FailEffect DEF AnswerJoined, TypeOK, Outcomes
    <3>2. QED
      BY <1>0, <2>1, <3>1, PollFrame
  <2>3. CASE v = u
    <3>1. ~Active(jobs'[u])
      <4>1. CASE runner[u] = "dead"
        <5>1. Fail(u, "task lost")
          BY <1>3, <4>1 DEF AnswerJoined
        <5>2. QED
          BY <1>0, <5>1, FailEffect DEF Outcomes, Active
      <4>2. CASE runner[u] = "finished"
        BY <1>0, <1>3, <2>3, <4>2 DEF AnswerJoined, JobInv, RecordInv
      <4>3. QED
        BY <2>1, <4>1, <4>2
    <3>2. answer'[u] = CASE jobs'[u].status = "completed" -> "result"
                         [] jobs'[u].status = "failed"    -> "error"
                         [] OTHER                         -> "accepted"
      BY <1>3 DEF AnswerJoined, TypeOK
    <3>3. QED
      BY <2>1, <2>3, <3>1, <3>2 DEF PollInv
  <2>4. QED
    BY <2>2, <2>3
<1>4. ASSUME NEW u \in Uuids, AnswerTimeout(u) PROVE PollInv(v)'
  <2>1. answer'[v] = answer[v] \/ answer'[v] = "accepted"
    BY <1>4 DEF AnswerTimeout, TypeOK
  <2>2. QED
    BY <1>0, <1>4, <2>1, PollFrame DEF AnswerTimeout
<1>5. ASSUME NEW u \in Uuids, Cancel(u) PROVE PollInv(v)'
  <2>1. jobs'[v].status = jobs[v].status /\ jobs'[v].silent = jobs[v].silent
    BY <1>0, <1>5, CancelEffect, NotSilentEffect DEF Cancel, SameJob
  <2>2. QED
    BY <1>0, <1>5, <2>1, PollFrame DEF Cancel
<1>6. ASSUME NEW u \in Uuids, RunnerStarts(u) PROVE PollInv(v)'
  <2>1. jobs'[v].silent = jobs[v].silent /\ thread' = thread /\ answer' = answer
    BY <1>0, <1>6, NotSilentEffect DEF RunnerStarts
  <2>2. CASE v # u
    <3>1. jobs'[v].status = jobs[v].status /\ runner'[v] = runner[v]
      BY <1>0, <1>6, <2>2, SetRunningEffect DEF RunnerStarts, TypeOK, SameJob
    <3>2. QED
      BY <1>0, <2>1, <3>1, PollFrame
  <2>3. CASE v = u
    <3>1. runner[u] = "spawned" /\ runner'[u] = "started"
      BY <1>6 DEF RunnerStarts, TypeOK
    <3>2. thread[u] = "off" /\ answer[u] \notin {"result", "error"}
      BY <1>0, <2>3, <3>1 DEF JobInv, ThreadInv, PollInv
    <3>3. QED
      BY <2>1, <2>3, <3>1, <3>2 DEF PollInv
  <2>4. QED
    BY <2>2, <2>3
<1>7. ASSUME NEW u \in Uuids, RunnerSpawnsWork(u) \/ RunnerDies(u) PROVE PollInv(v)'
  <2>1. /\ jobs'[v].status = jobs[v].status /\ answer' = answer
        /\ v # u => jobs'[v] = jobs[v] /\ thread'[v] = thread[v] /\ runner'[v] = runner[v]
    BY <1>0, <1>7, HeartbeatEffect, SilentEffect DEF RunnerSpawnsWork, RunnerDies, SameJob, TypeOK
  <2>2. CASE v # u
    BY <1>0, <2>1, <2>2, PollFrame
  <2>3. CASE v = u
    <3>1. runner[u] = "started" /\ runner'[u] \in {"working", "dead"} /\ Active(jobs[u])
      BY <1>0, <1>7, <2>3 DEF RunnerSpawnsWork, RunnerDies, TypeOK, JobInv, RecordInv
    <3>2. jobs'[u].silent = 0
      BY <1>0, <1>7, <3>1, SilentEffect DEF RunnerSpawnsWork, RunnerDies
    <3>3. answer[u] \notin {"result", "error"}
      BY <1>0, <2>3, <3>1 DEF PollInv
    <3>4. QED
      BY <2>1, <2>3, <3>1, <3>2, <3>3 DEF PollInv
  <2>4. QED
    BY <2>2, <2>3
<1>8. ASSUME NEW u \in Uuids, RunnerEndsJournal(u) PROVE PollInv(v)'
  <2>1. /\ jobs' = jobs /\ thread' = thread /\ answer' = answer
        /\ v # u => runner'[v] = runner[v]
        /\ runner[u] = "working" /\ runner'[u] = "settled"
    BY <1>8 DEF RunnerEndsJournal, TypeOK
  <2>2. QED
    BY <1>0, <2>1 DEF PollInv
<1>9. ASSUME NEW u \in Uuids, RunnerReports(u) PROVE PollInv(v)'
  <2>1. verdict[u] \in Outcomes /\ Active(jobs[u])
    BY <1>9 DEF RunnerReports, TypeOK, StructInv, JobInv, WorkInv, RecordInv
  <2>2. /\ thread' = thread /\ answer' = answer
        /\ v # u => jobs'[v] = jobs[v] /\ runner'[v] = runner[v]
        /\ runner[u] = "settled" /\ runner'[u] = "finished" /\ ~Active(jobs'[u])
    BY <1>0, <1>9, <2>1, CompleteEffect, FailEffect DEF RunnerReports, TypeOK, Active
  <2>3. QED
    BY <1>0, <2>2 DEF PollInv
<1>10. ASSUME NEW u \in Uuids, LoopTurns(u) \/ ThreadBeats(u) PROVE PollInv(v)'
  <2>1. /\ jobs'[v].status = jobs[v].status
        /\ v # u => jobs'[v] = jobs[v]
        /\ Active(jobs[u]) => jobs'[u].silent = 0
    BY <1>0, <1>10, HeartbeatEffect, SetActionEffect, SilentEffect
    DEF LoopTurns, ThreadBeats, SameJob
  <2>2. runner' = runner /\ answer' = answer /\ (v # u => thread'[v] = thread[v])
    BY <1>10 DEF LoopTurns, ThreadBeats, WorkMoves, TypeOK
  <2>3. QED
    BY <1>0, <2>1, <2>2, PollFrame
<1>11. ASSUME NEW u \in Uuids, ThreadExits(u) \/ ThreadWakes(u) PROVE PollInv(v)'
  <2>1. /\ jobs' = jobs /\ runner' = runner /\ answer' = answer
        /\ \/ thread'[v] = thread[v] \/ thread'[v] = "off"
           \/ thread'[v] = "beating" /\ thread[v] # "off"
    BY <1>11 DEF ThreadExits, ThreadWakes, TypeOK
  <2>2. QED
    BY <1>0, <2>1, PollFrame
<1>12. CASE UNCHANGED <<jobs, runner, thread, answer>>
  BY <1>0, <1>12, PollFrame
<1>13. ASSUME NEW u \in Uuids,
              \/ WorkReachesLoopHead(u) \/ LoopEnds(u) \/ LoopCancelled(u) \/ LoopOutOfTime(u)
              \/ CallReturns(u) \/ WorkCallsProvider(u) \/ WorkEnds(u) \/ WorkDropped(u)
              \/ \E p \in Paths : WorkWrites(u, p)
       PROVE  PollInv(v)'
  BY <1>12, <1>13
  DEF WorkReachesLoopHead, LoopEnds, LoopCancelled, LoopOutOfTime, CallReturns,
      WorkCallsProvider, WorkEnds, WorkDropped, WorkWrites, WorkEndsWith, WorkMoves
<1>14. CASE HangUp \/ UNCHANGED vars
  BY <1>12, <1>14 DEF HangUp, vars
<1>15. CASE Restart
  BY <1>15 DEF Restart, PollInv, NoJob, Record, Active
<1>16. CASE Tick
  <2>1. /\ runner' = runner /\ answer' = answer
        /\ jobs'[v] = Aged(jobs[v]) /\ jobs[v] \in JobRecord
        /\ thread[v] \in {"off", "asleep"}
        /\ thread'[v] = IF thread[v] = "asleep" THEN "due" ELSE "off"
    BY <1>16 DEF Tick, Elapse, TypeOK, RegistryTypeOK
  <2>2. jobs'[v].status = jobs[v].status
    BY <1>16, ElapseEffect DEF Tick, TypeOK
  <2>3. ASSUME Active(jobs[v]), jobs[v].silent = 0 PROVE jobs'[v].silent = 1
    <3>1. jobs'[v] = [jobs[v] EXCEPT !.age = Older(@, JobWallClock),
                                     !.silent = Older(@, StallHintAfter)]
      <4>1. ~Terminal(jobs[v])
        BY <2>3 DEF Active, Terminal
      <4>2. QED
        BY <2>1, <2>3, <4>1 DEF Aged
    <3>2. jobs'[v].silent = Older(0, StallHintAfter)
      BY <2>1, <2>3, <3>1 DEF JobRecord
    <3>3. QED
      BY <3>2, RegistryAssumption DEF Older
  <2>4. QED
    BY <1>0, <2>1, <2>2, <2>3 DEF PollInv, Active
<1>17. QED
  BY <1>1, <1>2, <1>3, <1>4, <1>5, <1>6, <1>7, <1>8, <1>9, <1>10, <1>11, <1>13, <1>14,
     <1>15, <1>16
  DEF Next, Runner, WorkStep

LEMMA Polls == Spec => [](\A u \in Uuids : PollInv(u))
<1>1. Init => \A u \in Uuids : PollInv(u)
  BY DEF Init, RegistryInit, NoJob, Record, PollInv, Active
<1>2. (TypeOK /\ StructInv) /\ (\A u \in Uuids : PollInv(u)) /\ [Next]_vars =>
        (\A u \in Uuids : PollInv(u))'
  BY PollStep
<1>3. QED
  BY <1>1, <1>2, Structure, PTL DEF Spec

\* What the client was told inline is what every later poll says, until the
\* record is evicted (dispatch_async_job, terminal_result).
THEOREM AnswersAgree == Spec => []AnswerAgrees
<1>1. (\A u \in Uuids : PollInv(u)) => AnswerAgrees
  BY DEF PollInv, AnswerAgrees
<1>2. QED
  BY <1>1, Polls, PTL

\* The stall hint cannot show while the heartbeat thread of a job runs,
\* however long its work hangs (HeartbeatHandle, query).
THEOREM HintsMeanNoHeartbeat == Spec => []HintMeansNoHeartbeat
<1>1. TypeOK /\ StructInv /\ (\A u \in Uuids : PollInv(u)) => HintMeansNoHeartbeat
  <2> SUFFICES ASSUME TypeOK, StructInv, NEW u \in Uuids, PollInv(u), PossiblyStalled(u)
               PROVE  runner[u] \in {"started", "dead"}
    BY DEF HintMeansNoHeartbeat
  <2>1. JobInv(u) /\ Active(jobs[u]) /\ jobs[u].status = "running"
    BY DEF StructInv, PossiblyStalled, Active
  <2>2. thread[u] = "off"
    <3>1. jobs[u].silent \in Nat /\ jobs[u].silent > StallHintAfter
      BY RegistryAssumption DEF PossiblyStalled, TypeOK, RegistryTypeOK, JobRecord
    <3>2. jobs[u].silent > 1
      BY <3>1, RegistryAssumption
    <3>3. QED
      BY <2>1, <3>1, <3>2 DEF PollInv
  <2>3. runner[u] \notin {"none", "spawned", "working", "settled", "finished"}
    BY <2>1, <2>2 DEF JobInv, RecordInv, ThreadInv, PollInv
  <2>4. QED
    BY <2>3 DEF TypeOK
<1>2. QED
  BY <1>1, Structure, Polls, PTL

\* No step moves a file but the writes and the rollback of a job that has not
\* ended: a leftover of a finished job touches nothing (end_job_journal).
THEOREM FilesRest == Spec => FilesRestAfterOutcome
<1>1. TypeOK /\ StructInv /\ [Next]_vars =>
        [\A p \in Paths : disk'[p] # disk[p] =>
           \E u \in Uuids :
             /\ Active(jobs[u])
             /\ disk'[p] = <<u, life[u]>> \/ disk'[p] = prior[u][p]]_vars
  <2> DEFINE Owned(u, p) == disk'[p] = <<u, life[u]>> \/ disk'[p] = prior[u][p]
  <2> SUFFICES ASSUME TypeOK, StructInv, [Next]_vars, NEW p \in Paths, disk'[p] # disk[p]
               PROVE  \E u \in Uuids : Active(jobs[u]) /\ Owned(u, p)
    OBVIOUS
  <2>1. PICK u \in Uuids : RunnerEndsJournal(u) \/ \E q \in Paths : WorkWrites(u, q)
    BY DEF Next, Runner, WorkStep, vars, journalVars, Call, CallRefused, AnswerJoined,
           AnswerTimeout, Cancel, RunnerStarts, RunnerSpawnsWork, RunnerDies, RunnerReports,
           BeginJournal, WorkReachesLoopHead, LoopEnds, LoopCancelled, LoopOutOfTime,
           LoopTurns, CallReturns, WorkCallsProvider, WorkEnds, WorkDropped, WorkEndsWith,
           ThreadExits, ThreadWakes, ThreadBeats, HangUp, Restart, LoseJournals, Tick
  <2>2. Active(jobs[u])
    BY <2>1 DEF RunnerEndsJournal, WorkWrites, WorkMoves, StructInv, JobInv, RecordInv
  <2>3. Owned(u, p)
    BY <2>1 DEF RunnerEndsJournal, WorkWrites, JournaledWrite, KeepEdits, RollBack,
                journalVars, TypeOK, JournalTypeOK
  <2>4. QED
    BY <2>2, <2>3
<1>2. QED
  BY <1>1, Structure, PTL DEF Spec, FilesRestAfterOutcome
==============================================================================

----------------------------- MODULE JobRegistry -----------------------------
(***************************************************************************)
(* The table of jobs the server keeps in memory (src/src/jobs.rs,          *)
(* JobRegistry): one record per request_uuid, behind one mutex, so every   *)
(* operation below is one atomic step.  Its callers are the stdio loop     *)
(* (register, cancel, query, a fallback fail), the runner of each job      *)
(* (set_running, complete, fail), the job's own agent turns (set_action)   *)
(* and a heartbeat thread per job.                                         *)
(*                                                                         *)
(* Time is counted in ticks, one per HEARTBEAT_INTERVAL (30 s) of the      *)
(* code.  An age counts only while something compares it with a threshold, *)
(* and stops once it is past that threshold.  A record keeps what the code *)
(* decides on: the tool, the status, the outcome (result or error, told    *)
(* apart by the status), the three instants as ages and the cancel flag;   *)
(* the text of current_action and of the results is left out.              *)
(***************************************************************************)
EXTENDS Integers

CONSTANTS
  Uuids,              \* the request_uuids callers use
  Tools,              \* the tool names of register
  StallHintAfter,     \* STALL_HINT_AFTER, in ticks
  JobWallClock,       \* JOB_WALL_CLOCK_SECS, in ticks
  TerminalRetention   \* TERMINAL_RETENTION, in ticks

ASSUME RegistryAssumption ==
  /\ StallHintAfter \in Nat \ {0}
  /\ JobWallClock \in Nat \ {0}
  /\ TerminalRetention \in Nat \ {0}

VARIABLE jobs

Statuses == {"unknown", "queued", "running", "completed", "failed"}

\* Why a job ended: a result, or the error fail was given.
Outcomes ==
  {"result", "error", "cancelled", "wall clock", "panicked", "task lost"}

\* JobRecord; status "unknown" stands for a uuid that has no record.
JobRecord ==
  [ tool    : Tools \cup {"none"},
    status  : Statuses,
    outcome : Outcomes \cup {"none"},
    age     : 0 .. JobWallClock + 1,        \* since created_at
    quiet   : 0 .. TerminalRetention + 1,   \* since updated_at
    silent  : 0 .. StallHintAfter + 1,      \* since last_heartbeat
    cancel  : BOOLEAN ]

RegistryTypeOK == jobs \in [Uuids -> JobRecord]

Record(tool, status) ==
  [ tool |-> tool, status |-> status, outcome |-> "none",
    age |-> 0, quiet |-> 0, silent |-> 0, cancel |-> FALSE ]

NoJob == Record("none", "unknown")

RegistryInit == jobs = [u \in Uuids |-> NoJob]

Known(u) == jobs[u].status # "unknown"

Active(job) == job.status \in {"queued", "running"}

Terminal(job) == job.status \in {"completed", "failed"}

(***************************************************************************)
(* Reads: what query and the cooperative checks see.                       *)
(***************************************************************************)
IsCancelRequested(u) == jobs[u].cancel

WallClockExceeded(u) == Known(u) /\ jobs[u].age > JobWallClock

PossiblyStalled(u) ==
  jobs[u].status = "running" /\ jobs[u].silent > StallHintAfter

(***************************************************************************)
(* Writes.                                                                 *)
(***************************************************************************)
\* mutate_if_active: a terminal or unknown job is left as it is.
MutateIfActive(u, updated) ==
  jobs' = IF Active(jobs[u])
            THEN [jobs EXCEPT ![u] = [updated EXCEPT !.quiet = 0]]
            ELSE jobs

SetRunning(u) == MutateIfActive(u, [jobs[u] EXCEPT !.status = "running"])

\* Mutant: the heartbeat refreshes updated_at only.
HeartbeatWithoutStamp(u) == MutateIfActive(u, jobs[u])

Heartbeat(u) == MutateIfActive(u, [jobs[u] EXCEPT !.silent = 0])

SetAction(u) == MutateIfActive(u, [jobs[u] EXCEPT !.silent = 0])

Complete(u, result) ==
  MutateIfActive(u, [jobs[u] EXCEPT !.status = "completed", !.outcome = result])

Fail(u, error) ==
  MutateIfActive(u, [jobs[u] EXCEPT !.status = "failed", !.outcome = error])

\* Mutant: a finished job takes one too.
CancelAlwaysAllowed(u) == Known(u)

\* Only a live job takes a cancel; otherwise the caller gets an error.
CancelAllowed(u) == Known(u) /\ ~Terminal(jobs[u])

\* Mutant: a cancel ends the record at once, the work still running.
RequestCancelEnds(u) ==
  /\ CancelAllowed(u)
  /\ jobs' = [jobs EXCEPT ![u].cancel = TRUE, ![u].quiet = 0, ![u].status = "failed"]

RequestCancel(u) ==
  /\ CancelAllowed(u)
  /\ jobs' = [jobs EXCEPT ![u].cancel = TRUE, ![u].quiet = 0]

\* evict_stale_terminal_jobs: register is the only caller.
Stale(job) == Terminal(job) /\ job.quiet > TerminalRetention

Evicted == [u \in Uuids |-> IF Stale(jobs[u]) THEN NoJob ELSE jobs[u]]

\* register evicts first, even when it then refuses the uuid.
RegisterAccepts(u) == Evicted[u].status = "unknown"

Register(u, tool) ==
  jobs' = IF RegisterAccepts(u)
            THEN [Evicted EXCEPT ![u] = Record(tool, "queued")]
            ELSE Evicted

(***************************************************************************)
(* The passage of one HEARTBEAT_INTERVAL.                                  *)
(***************************************************************************)
Older(age, threshold) == IF age > threshold THEN age ELSE age + 1

Aged(job) ==
  CASE Active(job)   -> [job EXCEPT !.age    = Older(@, JobWallClock),
                                    !.silent = Older(@, StallHintAfter)]
    [] Terminal(job) -> [job EXCEPT !.quiet  = Older(@, TerminalRetention)]
    [] OTHER         -> job

Elapse == jobs' = [u \in Uuids |-> Aged(jobs[u])]

\* A terminal record stays as it is, its retention included, until it is
\* evicted for being stale.
KeepsOutcome(u) ==
  Terminal(jobs[u]) =>
    \/ /\ jobs'[u].status = jobs[u].status
       /\ jobs'[u].outcome = jobs[u].outcome
       /\ jobs'[u].cancel = jobs[u].cancel
       /\ jobs'[u].quiet >= jobs[u].quiet
    \/ Stale(jobs[u])
==============================================================================

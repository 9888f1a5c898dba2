------------------------ MODULE JobTransactions_proofs ------------------------
(***************************************************************************)
(* What a failed job leaves of itself in the workspace: nothing, as long   *)
(* as jobs that are open together write different files.  The invariant    *)
(* follows the bytes a job has written through the disk and through the    *)
(* snapshots other journals may have taken of them.                        *)
(* And why the journaled jobs then implement FileTransactions: every step  *)
(* of JobRunner is a step of a transaction or changes nothing that a       *)
(* transaction knows.                                                      *)
(***************************************************************************)
EXTENDS JobRunner_proofs

\* The bytes of the present life of u.
Mine(u) == <<u, life[u]>>

\* Two open journals have no path in common.
DisjointInv ==
  \A u, v \in Uuids : \A p \in Paths :
    HasEntry(u, p) /\ HasEntry(v, p) => u = v

\* No content comes from a life that is still to come.
PastInv ==
  \A u \in Uuids, p \in Paths : \A n \in (life[u] + 1) .. MaxLives :
    /\ disk[p] # <<u, n>>
    /\ \A v \in Uuids : prior[v][p] # <<u, n>>

\* The present life of u is in no journal that may still be rolled back and,
\* on the paths in ps, not on the disk.
NoTrace(u, ps) ==
  \A p \in ps :
    /\ disk[p] # Mine(u)
    /\ \A v \in Uuids : OpenJournal(v) => prior[v][p] # Mine(u)

\* Has not written yet, and will not before it begins its journal.
Fresh(u) == runner[u] \in {"spawned", "started", "dead"}

Failing(u) ==
  /\ Journaled(u)
  /\ \/ runner[u] = "settled" /\ verdict[u] # "result"
     \/ jobs[u].status = "failed"

\* What an open job has on the disk its own journal knows, and no open
\* journal would bring it back.
Accounted(u) ==
  \A p \in Paths :
    /\ disk[p] = Mine(u) => prior[u][p] # Unseen
    /\ \A v \in Uuids : OpenJournal(v) => prior[v][p] # Mine(u)

TraceInv(u) ==
  /\ Fresh(u) => NoTrace(u, Paths)
  /\ Failing(u) => NoTrace(u, Paths \ FragilePaths)
  /\ OpenJournal(u) => Accounted(u)

IsolationInv == DisjointInv /\ PastInv /\ \A u \in Uuids : TraceInv(u)

-----------------------------------------------------------------------------
LEMMA InitIsolation == Init => IsolationInv
<1> SUFFICES ASSUME Init PROVE IsolationInv
  OBVIOUS
<1>1. \A u \in Uuids : runner[u] = "none" /\ jobs[u].status = "unknown" /\ life[u] = 0
  BY DEF Init, RegistryInit, NoJob, Record
<1>2. PastInv
  <2> SUFFICES ASSUME NEW u \in Uuids, NEW p \in Paths, NEW n \in 1 .. MaxLives
               PROVE  disk[p] # <<u, n>> /\ \A v \in Uuids : prior[v][p] # <<u, n>>
    BY <1>1 DEF PastInv
  <2>1. <<u, n>> \in Contents
    BY DEF Contents
  <2>2. disk[p] \in {<<"absent", 0>>, <<"user", 0>>} /\ \A v \in Uuids : prior[v][p] = Unseen
    BY DEF Init, JournalInit, NoEntries
  <2>3. QED
    BY <2>1, <2>2, RunnerAssumption
<1>3. DisjointInv /\ \A u \in Uuids : TraceInv(u)
  BY <1>1 DEF DisjointInv, HasEntry, TraceInv, Fresh, Failing, OpenJournal
<1>4. QED
  BY <1>2, <1>3 DEF IsolationInv

\* A step that writes nothing, takes no snapshot and opens no journal.
LEMMA QuietStep ==
  ASSUME IsolationInv, UNCHANGED <<disk, prior, life>>,
         \A v \in Uuids :
           /\ OpenJournal(v)' => OpenJournal(v)
           /\ Fresh(v)' => Fresh(v)
           /\ Failing(v)' => Failing(v) \/ Fresh(v)
  PROVE  IsolationInv'
<1>1. DisjointInv' /\ PastInv'
  BY DEF IsolationInv, DisjointInv, PastInv, HasEntry
<1>2. ASSUME NEW u \in Uuids PROVE TraceInv(u)'
  <2>1. TraceInv(u)
    BY DEF IsolationInv
  <2>2. ASSUME NEW ps \in SUBSET Paths, NoTrace(u, ps) PROVE NoTrace(u, ps)'
    BY <2>2 DEF NoTrace, Mine
  <2>3. Fresh(u) => NoTrace(u, Paths \ FragilePaths)
    BY <2>1 DEF TraceInv, NoTrace
  <2>4. Accounted(u) => Accounted(u)'
    BY DEF Accounted, Mine
  <2>5. QED
    BY <2>1, <2>2, <2>3, <2>4 DEF TraceInv
<1>3. QED
  BY <1>1, <1>2 DEF IsolationInv

\* A journal entry that is not Unseen is a content; so is what a life writes.
LEMMA MineIsContent ==
  ASSUME TypeOK, StructInv, NEW u \in Uuids, runner[u] # "none"
  PROVE  Mine(u) \in Contents /\ Mine(u) # Unseen
<1>1. life[u] \in 1 .. MaxLives
  BY RunnerAssumption DEF TypeOK, StructInv, JobInv, LifeInv
<1>2. QED
  BY <1>1, RunnerAssumption DEF Mine, Contents

LEMMA LiveRunners ==
  ASSUME StructInv, NEW u \in Uuids, Fresh(u) \/ Failing(u) \/ OpenJournal(u)
  PROVE  runner[u] # "none"
  BY DEF Fresh, Failing, OpenJournal, StructInv, JobInv, RecordInv

-----------------------------------------------------------------------------
(* The steps that write, snapshot, open or begin something. *)

\* A new life has written nothing.
LEMMA CallIsolation ==
  ASSUME TypeOK, StructInv, IsolationInv, NEW u \in Uuids, NEW tool \in Tools, Call(u, tool)
  PROVE  IsolationInv'
<1>1. /\ disk' = disk /\ prior' = prior /\ verdict' = verdict
      /\ life[u] \in Nat /\ life[u] < MaxLives /\ life'[u] = life[u] + 1
      /\ runner'[u] = "spawned"
      /\ \A v \in Uuids \ {u} : life'[v] = life[v] /\ runner'[v] = runner[v]
  BY DEF Call, TypeOK, journalVars
<1>2. \A v \in Uuids \ {u} : jobs'[v] = jobs[v] \/ jobs'[v] = NoJob
  BY RegisterEffect DEF Call, TypeOK
<1>3. jobs'[u].status = "queued"
  <2>1. jobs'[u] = Record(tool, "queued")
    BY RegisterEffect DEF Call, TypeOK
  <2>2. QED
    BY <2>1 DEF Record
<1>4. \A v \in Uuids : OpenJournal(v)' => v # u /\ OpenJournal(v)
  BY <1>1, <1>2
  DEF OpenJournal, Journaled, JournaledTools, NoJob, Record
<1>5. \A v \in Uuids \ {u} : Failing(v)' => Failing(v)
  BY <1>1, <1>2 DEF Failing, Journaled, JournaledTools, NoJob, Record
<1>6. ~Failing(u)'
  BY <1>1, <1>3 DEF Failing
<1>7. PastInv'
  <2> SUFFICES ASSUME NEW v \in Uuids, NEW p \in Paths, NEW n \in (life'[v] + 1) .. MaxLives
               PROVE  disk[p] # <<v, n>> /\ \A w \in Uuids : prior[w][p] # <<v, n>>
    BY <1>1 DEF PastInv
  <2>1. n \in (life[v] + 1) .. MaxLives
    BY <1>1 DEF TypeOK
  <2>2. QED
    BY <2>1 DEF IsolationInv, PastInv
<1>8. DisjointInv'
  BY <1>1, <1>4 DEF IsolationInv, DisjointInv, HasEntry
<1>9. ASSUME NEW v \in Uuids, v # u PROVE TraceInv(v)'
  <2>1. TraceInv(v) /\ Mine(v)' = Mine(v)
    BY <1>1, <1>9 DEF IsolationInv, Mine
  <2>2. ASSUME NEW ps \in SUBSET Paths, NoTrace(v, ps) PROVE NoTrace(v, ps)'
    BY <1>1, <1>4, <2>1, <2>2 DEF NoTrace
  <2>3. Accounted(v) => Accounted(v)'
    BY <1>1, <1>4, <2>1 DEF Accounted
  <2>4. QED
    BY <1>1, <1>4, <1>5, <1>9, <2>1, <2>2, <2>3 DEF TraceInv, Fresh
<1>10. TraceInv(u)'
  <2>1. life'[u] \in (life[u] + 1) .. MaxLives
    BY <1>1, RunnerAssumption
  <2>2. NoTrace(u, Paths)'
    BY <1>1, <2>1 DEF NoTrace, Mine, IsolationInv, PastInv
  <2>3. QED
    BY <1>4, <1>6, <2>2 DEF TraceInv
<1>11. QED
  BY <1>7, <1>8, <1>9, <1>10 DEF IsolationInv

\* An empty journal changes nothing; a job that opens has left no trace.
LEMMA SpawnIsolation ==
  ASSUME TypeOK, StructInv, IsolationInv, NEW u \in Uuids, RunnerSpawnsWork(u)
  PROVE  IsolationInv'
<1>1. /\ disk' = disk /\ verdict' = verdict /\ life' = life
      /\ runner[u] = "started" /\ runner'[u] = "working"
      /\ \A v \in Uuids \ {u} : runner'[v] = runner[v]
  BY DEF RunnerSpawnsWork, BeginJournal, TypeOK, journalVars
<1>2. \A v \in Uuids : jobs'[v].status = jobs[v].status /\ jobs'[v].tool = jobs[v].tool
  BY HeartbeatEffect DEF RunnerSpawnsWork, TypeOK, SameJob
<1>3. Active(jobs[u])
  BY <1>1 DEF StructInv, JobInv, RecordInv
<1>4. \A v \in Uuids : (Fresh(v)' => Fresh(v)) /\ (Failing(v)' => Failing(v))
  BY <1>1, <1>2, <1>3 DEF Fresh, Failing, Journaled, Active
<1>5. CASE ~Journaled(u)
  <2>1. prior' = prior
    BY <1>5 DEF RunnerSpawnsWork, journalVars
  <2>2. \A v \in Uuids : OpenJournal(v)' => OpenJournal(v)
    BY <1>1, <1>2, <1>5 DEF OpenJournal, Journaled
  <2>3. QED
    BY <1>1, <1>4, <2>1, <2>2, QuietStep
<1>6. CASE Journaled(u)
  <2>1. /\ \A p \in Paths : prior'[u][p] = Unseen
        /\ \A v \in Uuids \ {u} : prior'[v] = prior[v]
    BY <1>6 DEF RunnerSpawnsWork, BeginJournal, NoEntries, TypeOK, JournalTypeOK
  <2>2. \A v \in Uuids \ {u} : OpenJournal(v)' => OpenJournal(v)
    BY <1>1, <1>2 DEF OpenJournal, Journaled
  <2>3. PastInv'
    <3> SUFFICES ASSUME NEW v \in Uuids, NEW p \in Paths, NEW n \in (life[v] + 1) .. MaxLives
                 PROVE  disk[p] # <<v, n>> /\ \A w \in Uuids : prior'[w][p] # <<v, n>>
      BY <1>1 DEF PastInv
    <3>1. n \in 1 .. MaxLives
      BY DEF TypeOK
    <3>2. <<v, n>> # Unseen
      BY <3>1, RunnerAssumption DEF Contents
    <3>3. QED
      BY <2>1, <3>2 DEF IsolationInv, PastInv
  <2>4. DisjointInv'
    BY <2>1, <2>2 DEF IsolationInv, DisjointInv, HasEntry
  <2>5. ASSUME NEW v \in Uuids PROVE TraceInv(v)'
    <3>1. TraceInv(v) /\ Mine(v)' = Mine(v)
      BY <1>1 DEF IsolationInv, Mine
    <3>2. runner[v] # "none" => Mine(v) # Unseen
      BY MineIsContent
    <3>3. ASSUME NEW ps \in SUBSET Paths, runner[v] # "none", NoTrace(v, ps)
          PROVE  NoTrace(v, ps)'
      <4> SUFFICES ASSUME NEW p \in ps
                   PROVE  /\ disk[p] # Mine(v)
                          /\ \A w \in Uuids : OpenJournal(w)' => prior'[w][p] # Mine(v)
        BY <1>1, <3>1 DEF NoTrace
      <4>1. QED
        BY <2>1, <2>2, <3>2, <3>3 DEF NoTrace
    <3>4. Fresh(v) => NoTrace(v, Paths)
      BY <3>1 DEF TraceInv
    <3>5. OpenJournal(v)' => Accounted(v)'
      <4> SUFFICES ASSUME OpenJournal(v)', NEW p \in Paths
                   PROVE  /\ disk[p] = Mine(v) => prior'[v][p] # Unseen
                          /\ \A w \in Uuids : OpenJournal(w)' => prior'[w][p] # Mine(v)
        BY <1>1, <3>1 DEF Accounted
      <4>1. CASE v = u
        <5>1. NoTrace(u, Paths) /\ Mine(u) # Unseen
          BY <1>1, <3>2, <3>4, <4>1 DEF Fresh
        <5>2. QED
          BY <2>1, <2>2, <4>1, <5>1 DEF NoTrace
      <4>2. CASE v # u
        <5>1. OpenJournal(v) /\ Accounted(v) /\ runner[v] # "none"
          BY <2>2, <3>1, <4>2 DEF TraceInv, OpenJournal
        <5>2. QED
          BY <2>1, <2>2, <3>2, <4>2, <5>1 DEF Accounted
      <4>3. QED
        BY <4>1, <4>2
    <3>6. Fresh(v)' => NoTrace(v, Paths)'
      BY <1>4, <3>3, <3>4, LiveRunners
    <3>7. Failing(v)' => NoTrace(v, Paths \ FragilePaths)'
      BY <1>4, <3>1, <3>3, LiveRunners DEF TraceInv
    <3>8. QED
      BY <3>5, <3>6, <3>7 DEF TraceInv
  <2>6. QED
    BY <2>3, <2>4, <2>5 DEF IsolationInv
<1>7. QED
  BY <1>5, <1>6
\* A write goes where no other open job has written, and the journal of its
\* job knows the path before the bytes are there.
LEMMA WriteIsolation ==
  ASSUME TypeOK, StructInv, IsolationInv, Isolated,
         NEW u \in Uuids, NEW p \in Paths, WorkWrites(u, p)
  PROVE  IsolationInv'
<1>1. /\ jobs' = jobs /\ runner' = runner /\ verdict' = verdict /\ life' = life
      /\ runner[u] = "working"
  BY DEF WorkWrites, WorkMoves
<1>2. /\ \A q \in Paths : disk'[q] = disk[q] \/ (q = p /\ disk'[q] = Mine(u))
      /\ \A v \in Uuids, q \in Paths :
           \/ prior'[v][q] = prior[v][q]
           \/ v = u /\ q = p /\ prior[u][p] = Unseen /\ prior'[u][p] = disk[p]
      /\ u \in armed => prior'[u][p] # Unseen
  <2>1. PICK landed \in BOOLEAN : JournaledWrite(u, p, Mine(u), landed)
    BY DEF WorkWrites, Mine
  <2>2. disk[p] # Unseen
    BY RunnerAssumption DEF TypeOK, JournalTypeOK
  <2>3. QED
    BY <2>1, <2>2 DEF JournaledWrite, TypeOK, JournalTypeOK
<1>3. \A v \in Uuids \ {u} : OpenJournal(v) => prior[v][p] = Unseen
  BY DEF WorkWrites
<1>4. OpenJournal(u) => u \in armed
  BY DEF StructInv, JobInv, JournalInv
<1>5. \A v \in Uuids : /\ OpenJournal(v)' <=> OpenJournal(v)
                       /\ Fresh(v)' <=> Fresh(v)
                       /\ Failing(v)' <=> Failing(v)
                       /\ Mine(v)' = Mine(v)
  BY <1>1 DEF OpenJournal, Journaled, Fresh, Failing, Mine
<1>6. PastInv'
  <2> SUFFICES ASSUME NEW v \in Uuids, NEW q \in Paths, NEW n \in (life[v] + 1) .. MaxLives
               PROVE  disk'[q] # <<v, n>> /\ \A w \in Uuids : prior'[w][q] # <<v, n>>
    BY <1>1 DEF PastInv
  <2>1. disk[q] # <<v, n>> /\ \A w \in Uuids : prior[w][q] # <<v, n>>
    BY DEF IsolationInv, PastInv
  <2>2. Mine(u) # <<v, n>>
    BY DEF Mine, TypeOK
  <2>3. QED
    BY <1>2, <2>1, <2>2
<1>7. DisjointInv'
  BY <1>2, <1>3, <1>5 DEF IsolationInv, DisjointInv, HasEntry
<1>8. ASSUME NEW v \in Uuids, v # u PROVE TraceInv(v)'
  <2>1. TraceInv(v) /\ Mine(u) # Mine(v)
    BY <1>8 DEF IsolationInv, Mine
  <2>2. ASSUME NEW ps \in SUBSET Paths, NoTrace(v, ps) PROVE NoTrace(v, ps)'
    BY <1>2, <1>5, <2>1, <2>2 DEF NoTrace
  <2>3. ASSUME OpenJournal(v) PROVE Accounted(v)'
    <3>1. Accounted(v) /\ disk[p] # Mine(v)
      BY <1>3, <1>8, <2>1, <2>3 DEF TraceInv, Accounted
    <3>2. \A q \in Paths : prior'[v][q] = prior[v][q]
      BY <1>2, <1>8
    <3>3. QED
      BY <1>2, <1>5, <2>1, <3>1, <3>2 DEF Accounted
  <2>4. QED
    BY <1>5, <2>1, <2>2, <2>3 DEF TraceInv
<1>9. TraceInv(u)'
  <2>1. ~Fresh(u) /\ ~Failing(u)
    BY <1>1 DEF Fresh, Failing, StructInv, JobInv, RecordInv, Active
  <2>2. ASSUME OpenJournal(u) PROVE Accounted(u)'
    <3>1. Accounted(u)
      BY <2>2 DEF IsolationInv, TraceInv
    <3>2. \A q \in Paths : disk'[q] = Mine(u) => prior'[u][q] # Unseen
      <4> SUFFICES ASSUME NEW q \in Paths, disk'[q] = Mine(u), q # p PROVE prior'[u][q] # Unseen
        BY <1>2, <1>4, <2>2
      <4>1. QED
        BY <1>2, <3>1 DEF Accounted
    <3>3. \A q \in Paths, w \in Uuids : OpenJournal(w) => prior'[w][q] # Mine(u)
      BY <1>2, <3>1 DEF Accounted
    <3>4. QED
      BY <1>5, <3>2, <3>3 DEF Accounted
  <2>3. QED
    BY <1>5, <2>1, <2>2 DEF TraceInv
<1>10. QED
  BY <1>6, <1>7, <1>8, <1>9 DEF IsolationInv

\* A rollback puts back what is nobody's present life; after it the job's
\* own bytes are on fragile paths only.
LEMMA EndIsolation ==
  ASSUME TypeOK, StructInv, IsolationInv, NEW u \in Uuids, RunnerEndsJournal(u)
  PROVE  IsolationInv'
<1>1. /\ jobs' = jobs /\ verdict' = verdict /\ life' = life
      /\ runner[u] = "working" /\ runner'[u] = "settled"
      /\ \A v \in Uuids \ {u} : runner'[v] = runner[v]
  BY DEF RunnerEndsJournal, TypeOK
<1>2. \A v \in Uuids : OpenJournal(v)' => v # u /\ OpenJournal(v)
  BY <1>1 DEF OpenJournal, Journaled
<1>3. \A v \in Uuids : Mine(v)' = Mine(v) /\ (Fresh(v)' => Fresh(v))
  BY <1>1 DEF Mine, Fresh
<1>4. \A v \in Uuids \ {u} : Failing(v)' => Failing(v)
  BY <1>1 DEF Failing, Journaled
<1>5. Failing(u)' => Journaled(u) /\ verdict[u] # "result"
  BY <1>1 DEF Failing, Journaled, StructInv, JobInv, RecordInv, Active
<1>6. CASE ~Journaled(u)
  <2>1. disk' = disk /\ prior' = prior
    BY <1>6 DEF RunnerEndsJournal, journalVars
  <2>2. QED
    BY <1>1, <1>2, <1>3, <1>4, <1>5, <1>6, <2>1, QuietStep
<1>7. CASE Journaled(u)
  <2>1. OpenJournal(u) /\ Accounted(u)
    BY <1>1, <1>7 DEF OpenJournal, IsolationInv, TraceInv
  <2>2. /\ \A v \in Uuids \ {u} : prior'[v] = prior[v]
        /\ \A q \in Paths : prior'[u][q] \in {prior[u][q], Unseen}
        /\ \A q \in Paths : \/ disk'[q] = disk[q]
                            \/ prior[u][q] # Unseen /\ disk'[q] = prior[u][q]
    BY <1>7 DEF RunnerEndsJournal, KeepEdits, RollBack, NoEntries, Touched, TypeOK, JournalTypeOK
  <2>3. verdict[u] # "result" =>
          \A q \in Paths \ FragilePaths : prior[u][q] # Unseen => disk'[q] = prior[u][q]
    BY <1>7 DEF RunnerEndsJournal, RollBack, Touched
  <2>4. PastInv'
    <3> SUFFICES ASSUME NEW v \in Uuids, NEW q \in Paths, NEW n \in (life[v] + 1) .. MaxLives
                 PROVE  disk'[q] # <<v, n>> /\ \A w \in Uuids : prior'[w][q] # <<v, n>>
      BY <1>1 DEF PastInv
    <3>1. disk[q] # <<v, n>> /\ \A w \in Uuids : prior[w][q] # <<v, n>>
      BY DEF IsolationInv, PastInv
    <3>2. n \in 1 .. MaxLives
      BY DEF TypeOK
    <3>3. <<v, n>> # Unseen
      BY <3>2, RunnerAssumption DEF Contents
    <3>4. disk'[q] # <<v, n>>
      BY <2>2, <3>1
    <3>5. ASSUME NEW w \in Uuids PROVE prior'[w][q] # <<v, n>>
      BY <2>2, <3>1, <3>3
    <3>6. QED
      BY <3>4, <3>5
  <2>5. DisjointInv'
    BY <1>2, <2>2 DEF IsolationInv, DisjointInv, HasEntry
  <2>6. ASSUME NEW v \in Uuids, v # u PROVE TraceInv(v)'
    <3>1. TraceInv(v)
      BY DEF IsolationInv
    <3>2. ASSUME NEW ps \in SUBSET Paths, NoTrace(v, ps) PROVE NoTrace(v, ps)'
      BY <1>2, <1>3, <2>1, <2>2, <3>2 DEF NoTrace
    <3>3. Accounted(v) => Accounted(v)'
      BY <1>2, <1>3, <2>1, <2>2, <2>6 DEF Accounted
    <3>4. QED
      BY <1>2, <1>3, <1>4, <2>6, <3>1, <3>2, <3>3 DEF TraceInv
  <2>7. TraceInv(u)'
    <3>1. ~Fresh(u)' /\ ~OpenJournal(u)'
      BY <1>1, <1>2 DEF Fresh
    <3>2. ASSUME Failing(u)' PROVE NoTrace(u, Paths \ FragilePaths)'
      <4>1. \A q \in Paths \ FragilePaths : disk'[q] # Mine(u)
        BY <1>5, <2>1, <2>2, <2>3, <3>2 DEF Accounted
      <4>2. \A q \in Paths, w \in Uuids : OpenJournal(w)' => prior'[w][q] # Mine(u)
        BY <1>2, <2>1, <2>2 DEF Accounted
      <4>3. QED
        BY <1>3, <4>1, <4>2 DEF NoTrace
    <3>3. QED
      BY <3>1, <3>2 DEF TraceInv
  <2>8. QED
    BY <2>4, <2>5, <2>6, <2>7 DEF IsolationInv
<1>8. QED
  BY <1>6, <1>7

LEMMA IsolationStep ==
  Isolated /\ TypeOK /\ StructInv /\ IsolationInv /\ [Next]_vars => IsolationInv'
<1> SUFFICES ASSUME Isolated, TypeOK, StructInv, IsolationInv, [Next]_vars PROVE IsolationInv'
  OBVIOUS
<1> USE DEF journalVars, taskVars, threadVars, loopVars
<1>1. ASSUME NEW u \in Uuids,
             \/ \E tool \in Tools : Call(u, tool)
             \/ RunnerSpawnsWork(u) \/ RunnerEndsJournal(u) \/ \E p \in Paths : WorkWrites(u, p)
      PROVE  IsolationInv'
  BY <1>1, CallIsolation, SpawnIsolation, EndIsolation, WriteIsolation
<1>2. ASSUME NEW u \in Uuids, NEW tool \in Tools, CallRefused(u, tool) PROVE IsolationInv'
  <2>1. /\ UNCHANGED <<disk, prior, life, runner, verdict>>
        /\ \A v \in Uuids : jobs'[v] = jobs[v] \/ jobs'[v] = NoJob
    BY <1>2, RegisterEffect DEF CallRefused, TypeOK
  <2>2. NoJob.tool \notin JournaledTools
    BY DEF NoJob, Record, JournaledTools
  <2>3. QED
    BY <2>1, <2>2, QuietStep DEF OpenJournal, Journaled, Fresh, Failing
<1>3. ASSUME NEW u \in Uuids, AnswerJoined(u) PROVE IsolationInv'
  <2>1. UNCHANGED <<disk, prior, life, runner, verdict>>
    BY <1>3 DEF AnswerJoined
  <2>2. \A v \in Uuids : \/ jobs'[v] = jobs[v]
                         \/ v = u /\ runner[u] = "dead" /\ jobs'[u].tool = jobs[u].tool
    BY <1>3, FailEffect DEF AnswerJoined, TypeOK, Outcomes
  <2>3. QED
    BY <2>1, <2>2, QuietStep DEF OpenJournal, Journaled, Fresh, Failing
<1>4. ASSUME NEW u \in Uuids, RunnerStarts(u) PROVE IsolationInv'
  <2>1. /\ UNCHANGED <<disk, prior, life, verdict>>
        /\ runner[u] = "spawned" /\ runner'[u] = "started"
        /\ \A v \in Uuids \ {u} : runner'[v] = runner[v]
    BY <1>4 DEF RunnerStarts, TypeOK
  <2>2. \A v \in Uuids : jobs'[v].tool = jobs[v].tool
    BY <1>4, SetRunningEffect DEF RunnerStarts, TypeOK, SameJob
  <2>3. \A v \in Uuids \ {u} : jobs'[v].status = jobs[v].status
    BY <1>4, SetRunningEffect DEF RunnerStarts, TypeOK, SameJob
  <2>4. QED
    BY <2>1, <2>2, <2>3, QuietStep DEF OpenJournal, Journaled, Fresh, Failing
<1>5. ASSUME NEW u \in Uuids, RunnerDies(u) PROVE IsolationInv'
  <2>1. /\ UNCHANGED <<disk, prior, life, verdict>>
        /\ runner[u] = "started" /\ runner'[u] = "dead"
        /\ \A v \in Uuids \ {u} : runner'[v] = runner[v]
    BY <1>5 DEF RunnerDies, TypeOK
  <2>2. \A v \in Uuids : jobs'[v].tool = jobs[v].tool /\ jobs'[v].status = jobs[v].status
    BY <1>5, HeartbeatEffect DEF RunnerDies, TypeOK, SameJob
  <2>3. QED
    BY <2>1, <2>2, QuietStep DEF OpenJournal, Journaled, Fresh, Failing
<1>6. ASSUME NEW u \in Uuids, RunnerReports(u) PROVE IsolationInv'
  <2>1. /\ UNCHANGED <<disk, prior, life>>
        /\ runner[u] = "settled" /\ runner'[u] = "finished"
        /\ \A v \in Uuids \ {u} : runner'[v] = runner[v] /\ verdict'[v] = verdict[v]
    BY <1>6 DEF RunnerReports, TypeOK
  <2>2. verdict[u] \in Outcomes /\ Active(jobs[u])
    BY <1>6 DEF RunnerReports, TypeOK, StructInv, JobInv, WorkInv, RecordInv
  <2>3. /\ \A v \in Uuids \ {u} : jobs'[v] = jobs[v]
        /\ jobs'[u].tool = jobs[u].tool
        /\ verdict[u] = "result" => jobs'[u].status = "completed"
    BY <1>6, <2>2, CompleteEffect, FailEffect DEF RunnerReports, TypeOK
  <2>4. QED
    BY <2>1, <2>3, QuietStep DEF OpenJournal, Journaled, Fresh, Failing
<1>7. ASSUME NEW u \in Uuids,
             \/ Cancel(u) \/ LoopTurns(u) \/ ThreadBeats(u)
      PROVE  IsolationInv'
  <2>1. \A v \in Uuids : SameJob(v)
    BY <1>7, CancelEffect, SetActionEffect, HeartbeatEffect
    DEF Cancel, LoopTurns, ThreadBeats, TypeOK
  <2>2. UNCHANGED <<disk, prior, life, runner, verdict>>
    BY <1>7 DEF Cancel, LoopTurns, WorkMoves, ThreadBeats
  <2>3. QED
    BY <2>1, <2>2, QuietStep DEF SameJob, OpenJournal, Journaled, Fresh, Failing
<1>8. ASSUME NEW u \in Uuids, NEW from, NEW outcome, WorkEndsWith(u, from, outcome)
      PROVE  IsolationInv'
  <2>1. /\ UNCHANGED <<disk, prior, life, runner, jobs>>
        /\ runner[u] = "working"
        /\ \A v \in Uuids \ {u} : verdict'[v] = verdict[v]
    BY <1>8 DEF WorkEndsWith, WorkMoves, TypeOK
  <2>2. QED
    BY <2>1, QuietStep DEF OpenJournal, Journaled, Fresh, Failing
<1>9. ASSUME UNCHANGED <<disk, prior, life, runner, jobs, verdict>> PROVE IsolationInv'
  BY <1>9, QuietStep DEF OpenJournal, Journaled, Fresh, Failing
<1>10. ASSUME NEW u \in Uuids,
              \/ AnswerTimeout(u) \/ WorkReachesLoopHead(u) \/ LoopEnds(u) \/ CallReturns(u)
              \/ WorkCallsProvider(u) \/ ThreadExits(u) \/ ThreadWakes(u)
       PROVE  IsolationInv'
  BY <1>9, <1>10
  DEF AnswerTimeout, WorkReachesLoopHead, LoopEnds, CallReturns, WorkCallsProvider, WorkMoves,
      ThreadExits, ThreadWakes
<1>11. ASSUME NEW u \in Uuids,
              LoopCancelled(u) \/ LoopOutOfTime(u) \/ WorkEnds(u) \/ WorkDropped(u)
       PROVE  IsolationInv'
  BY <1>8, <1>11 DEF LoopCancelled, LoopOutOfTime, WorkEnds, WorkDropped
<1>12. CASE HangUp \/ UNCHANGED vars
  BY <1>9, <1>12 DEF HangUp, vars
<1>13. CASE Tick
  <2>1. \A v \in Uuids : jobs'[v].status = jobs[v].status /\ jobs'[v].tool = jobs[v].tool
    BY <1>13, ElapseEffect DEF Tick, TypeOK
  <2>2. UNCHANGED <<disk, prior, life, runner, verdict>>
    BY <1>13 DEF Tick
  <2>3. QED
    BY <2>1, <2>2, QuietStep DEF OpenJournal, Journaled, Fresh, Failing
<1>14. CASE Restart
  <2>1. /\ disk' = disk /\ life' = life
        /\ \A v \in Uuids : runner'[v] = "none" /\ jobs'[v] = NoJob
        /\ \A v \in Uuids, p \in Paths : prior'[v][p] = Unseen
    BY <1>14 DEF Restart, LoseJournals, NoEntries
  <2>2. NoJob.status = "unknown"
    BY DEF NoJob, Record
  <2>3. PastInv'
    <3> SUFFICES ASSUME NEW v \in Uuids, NEW p \in Paths, NEW n \in (life[v] + 1) .. MaxLives
                 PROVE  disk[p] # <<v, n>> /\ \A w \in Uuids : prior'[w][p] # <<v, n>>
      BY <2>1 DEF PastInv
    <3>1. n \in 1 .. MaxLives
      BY DEF TypeOK
    <3>2. <<v, n>> # Unseen
      BY <3>1, RunnerAssumption DEF Contents
    <3>3. QED
      BY <2>1, <3>2 DEF IsolationInv, PastInv
  <2>4. DisjointInv' /\ \A v \in Uuids : TraceInv(v)'
    BY <2>1, <2>2 DEF DisjointInv, HasEntry, OpenJournal, TraceInv, Fresh, Failing
  <2>5. QED
    BY <2>3, <2>4 DEF IsolationInv
<1>15. QED
  BY <1>1, <1>2, <1>3, <1>4, <1>5, <1>6, <1>7, <1>10, <1>11, <1>12, <1>13, <1>14
  DEF Next, Runner, WorkStep

-----------------------------------------------------------------------------
LEMMA Isolation == ASSUME Isolated PROVE Spec => []IsolationInv
<1>1. Init => IsolationInv
  BY InitIsolation
<1>2. (TypeOK /\ StructInv) /\ IsolationInv /\ [Next]_vars => IsolationInv'
  BY IsolationStep
<1>3. QED
  BY <1>1, <1>2, Structure, PTL DEF Spec

\* A failed job has left nothing of itself in the workspace outside of the
\* fragile paths, whatever the other jobs, the client, the clock and the end
\* of the process did meanwhile (end_job_journal with ok = false).
THEOREM FailedJobsLeaveNoTrace == ASSUME Isolated PROVE Spec => []FailedLeavesNoTrace
<1>1. IsolationInv => FailedLeavesNoTrace
  BY DEF IsolationInv, TraceInv, Failing, NoTrace, Mine, FailedLeavesNoTrace
<1>2. QED
  BY <1>1, Isolation, PTL

-----------------------------------------------------------------------------
(* The refinement mapping, read off. *)

\* The committed content of a path is its entry in the one open journal that
\* has one, else what is on the disk.
CommittedInv ==
  \A p \in Paths :
    /\ \A u \in Uuids : HasEntry(u, p) => committedFiles[p] = prior[u][p]
    /\ (\A u \in Uuids : ~HasEntry(u, p)) => committedFiles[p] = disk[p]

\* Open journals being disjoint, the CHOOSE of committedFiles has one outcome.
LEMMA Committed == DisjointInv => CommittedInv
<1> SUFFICES ASSUME DisjointInv, NEW p \in Paths
             PROVE  /\ \A u \in Uuids : HasEntry(u, p) => committedFiles[p] = prior[u][p]
                    /\ (\A u \in Uuids : ~HasEntry(u, p)) => committedFiles[p] = disk[p]
  BY DEF CommittedInv
<1> DEFINE chosen == CHOOSE u \in Uuids : HasEntry(u, p)
<1>1. committedFiles[p] = IF \E u \in Uuids : HasEntry(u, p) THEN prior[chosen][p] ELSE disk[p]
  BY DEF committedFiles
<1>2. ASSUME NEW u \in Uuids, HasEntry(u, p) PROVE chosen = u
  <2>1. chosen \in Uuids /\ HasEntry(chosen, p)
    BY <1>2
  <2>2. QED
    BY <1>2, <2>1 DEF DisjointInv
<1> HIDE DEF chosen
<1>3. QED
  BY <1>1, <1>2

LEMMA CommittedNext == DisjointInv' => CommittedInv'
  BY Committed, PTL

\* While no entry comes or goes, the files of others are as they were.
LEMMA SameFiles ==
  ASSUME DisjointInv, DisjointInv', disk' = disk,
         \A u \in Uuids, p \in Paths :
           /\ HasEntry(u, p)' <=> HasEntry(u, p)
           /\ HasEntry(u, p) => prior'[u][p] = prior[u][p]
  PROVE  committedFiles' = committedFiles /\ openEdits' = openEdits
<1>1. ASSUME NEW p \in Paths PROVE committedFiles'[p] = committedFiles[p]
  <2>1. CASE \E u \in Uuids : HasEntry(u, p)
    BY <2>1, Committed, CommittedNext DEF CommittedInv
  <2>2. CASE \A u \in Uuids : ~HasEntry(u, p)
    BY <2>2, Committed, CommittedNext DEF CommittedInv
  <2>3. QED
    BY <2>1, <2>2
<1>2. committedFiles' = committedFiles
  BY <1>1 DEF committedFiles
<1>3. QED
  BY <1>2 DEF openEdits

-----------------------------------------------------------------------------
(* Initial states. *)
LEMMA InitMaps == Init => Transactions!Init
<1> SUFFICES ASSUME Init PROVE Transactions!Init
  OBVIOUS
<1>1. \A u \in Uuids : runner[u] = "none" /\ jobs[u].tool = "none"
  BY DEF Init, RegistryInit, NoJob, Record
<1>2. \A u \in Uuids : ~Journaled(u) /\ Fate(u) = "none" /\ \A p \in Paths : ~HasEntry(u, p)
  BY <1>1 DEF Fate, Journaled, JournaledTools, HasEntry, OpenJournal
<1>3. committedFiles \in [Paths -> Contents]
  BY <1>2 DEF committedFiles, Init, Contents
<1>4. QED
  BY <1>2, <1>3 DEF openEdits, Transactions!Init, Transactions!Empty

-----------------------------------------------------------------------------
(* Steps. *)

\* A step that touches no file and no open journal at most forgets outcomes.
LEMMA ForgetsAtMost ==
  ASSUME DisjointInv, DisjointInv', disk' = disk, prior' = prior,
         \A u \in Uuids :
           /\ OpenJournal(u)' <=> OpenJournal(u)
           /\ \/ Fate(u)' = Fate(u)
              \/ Fate(u) \in {"committed", "aborted"} /\ Fate(u)' = "none"
  PROVE  Transactions!Next
<1> DEFINE forgotten == {u \in Uuids : Fate(u)' # Fate(u)}
<1>1. committedFiles' = committedFiles /\ openEdits' = openEdits
  BY SameFiles DEF HasEntry
<1>2. \A u \in forgotten : Fate(u) \in {"committed", "aborted"} /\ Fate(u)' = "none"
  OBVIOUS
<1>3. Transactions!Forget(forgotten)
  BY <1>1, <1>2 DEF Transactions!Forget
<1>4. QED
  BY <1>3 DEF Transactions!Next

\* A record that goes belongs to a job whose outcome was out.
LEMMA EvictionForgets ==
  ASSUME StructInv, NEW u \in Uuids, Stale(jobs[u]), jobs'[u] = NoJob
  PROVE  /\ ~OpenJournal(u) /\ ~OpenJournal(u)'
         /\ Fate(u)' = "none" /\ Fate(u) \in {"none", "committed", "aborted"}
<1>1. /\ Terminal(jobs[u])
      /\ runner[u] \notin {"spawned", "started", "working", "settled"}
  BY DEF StructInv, JobInv, RecordInv, Stale, Terminal, Active
<1>2. ~Journaled(u)'
  BY DEF Journaled, JournaledTools, NoJob, Record
<1>3. ~OpenJournal(u) /\ ~OpenJournal(u)'
  BY <1>1, <1>2 DEF OpenJournal
<1>4. Fate(u)' = "none"
  BY <1>2 DEF Fate
<1>5. Fate(u) \in {"none", "committed", "aborted"}
  BY <1>1 DEF Fate, Terminal
<1>6. QED
  BY <1>3, <1>4, <1>5

LEMMA CallMaps ==
  ASSUME TypeOK, StructInv, DisjointInv, DisjointInv',
         NEW u \in Uuids, NEW tool \in Tools, Call(u, tool)
  PROVE  Transactions!Next
<1>1. /\ disk' = disk /\ prior' = prior /\ verdict' = verdict /\ runner'[u] = "spawned"
      /\ \A v \in Uuids \ {u} : runner'[v] = runner[v]
  BY DEF Call, TypeOK, journalVars
<1>2. /\ \A v \in Uuids \ {u} : jobs'[v] = jobs[v] \/ (Stale(jobs[v]) /\ jobs'[v] = NoJob)
      /\ jobs'[u] = Record(tool, "queued")
      /\ jobs[u].status = "unknown" \/ Stale(jobs[u])
  BY RegisterEffect DEF Call, TypeOK
<1>3. runner[u] \notin {"spawned", "started", "working", "settled"}
  BY <1>2 DEF StructInv, JobInv, RecordInv, Stale, Terminal, Active
<1>4. ~OpenJournal(u) /\ ~OpenJournal(u)' /\ Fate(u)' = "none"
  BY <1>1, <1>2, <1>3 DEF OpenJournal, Fate, Record
<1>5. Fate(u) \in {"none", "committed", "aborted"}
  BY <1>3 DEF Fate
<1>6. ASSUME NEW v \in Uuids \ {u}
      PROVE  /\ OpenJournal(v)' <=> OpenJournal(v)
             /\ \/ Fate(v)' = Fate(v)
                \/ Fate(v) \in {"committed", "aborted"} /\ Fate(v)' = "none"
  BY <1>1, <1>2, EvictionForgets DEF OpenJournal, Fate, Journaled
<1>7. QED
  BY <1>1, <1>4, <1>5, <1>6, ForgetsAtMost

LEMMA RefusalMaps ==
  ASSUME TypeOK, StructInv, DisjointInv, DisjointInv',
         NEW u \in Uuids, NEW tool \in Tools, CallRefused(u, tool)
  PROVE  Transactions!Next
<1>1. UNCHANGED <<disk, prior, runner, verdict>>
  BY DEF CallRefused, journalVars, taskVars
<1>2. \A v \in Uuids : jobs'[v] = jobs[v] \/ (Stale(jobs[v]) /\ jobs'[v] = NoJob)
  BY RegisterEffect DEF CallRefused, TypeOK
<1>3. ASSUME NEW v \in Uuids
      PROVE  /\ OpenJournal(v)' <=> OpenJournal(v)
             /\ \/ Fate(v)' = Fate(v)
                \/ Fate(v) \in {"committed", "aborted"} /\ Fate(v)' = "none"
  BY <1>1, <1>2, EvictionForgets DEF OpenJournal, Fate, Journaled
<1>4. QED
  BY <1>1, <1>3, ForgetsAtMost

\* begin_job_journal opens the transaction.
LEMMA SpawnMaps ==
  ASSUME TypeOK, StructInv, DisjointInv, DisjointInv', NEW u \in Uuids, RunnerSpawnsWork(u)
  PROVE  Transactions!Next
<1>1. /\ disk' = disk /\ verdict' = verdict
      /\ runner[u] = "started" /\ runner'[u] = "working"
      /\ \A v \in Uuids \ {u} : runner'[v] = runner[v]
  BY DEF RunnerSpawnsWork, BeginJournal, TypeOK, journalVars
<1>2. \A v \in Uuids : jobs'[v].status = jobs[v].status /\ jobs'[v].tool = jobs[v].tool
  BY HeartbeatEffect DEF RunnerSpawnsWork, TypeOK, SameJob
<1>3. Active(jobs[u])
  BY <1>1 DEF StructInv, JobInv, RecordInv
<1>4. Fate(u) = "none" /\ ~OpenJournal(u)
  BY <1>1, <1>3 DEF Fate, Active, OpenJournal
<1>5. \A v \in Uuids \ {u} : Fate(v)' = Fate(v) /\ (OpenJournal(v)' <=> OpenJournal(v))
  BY <1>1, <1>2 DEF Fate, OpenJournal, Journaled
<1>6. CASE ~Journaled(u)
  <2>1. ~Journaled(u)'
    BY <1>2, <1>6 DEF Journaled
  <2>2. Fate(u)' = "none" /\ ~OpenJournal(u)'
    BY <2>1 DEF Fate, OpenJournal
  <2>3. prior' = prior
    BY <1>6 DEF RunnerSpawnsWork, journalVars
  <2>4. QED
    BY <1>1, <1>4, <1>5, <2>2, <2>3, ForgetsAtMost
<1>7. CASE Journaled(u)
  <2>1. /\ \A p \in Paths : prior'[u][p] = Unseen
        /\ \A v \in Uuids \ {u} : prior'[v] = prior[v]
        /\ Fate(u)' = "open"
    BY <1>1, <1>2, <1>7
    DEF RunnerSpawnsWork, BeginJournal, NoEntries, TypeOK, JournalTypeOK, Fate, Journaled
  <2>2. \A v \in Uuids, p \in Paths : /\ HasEntry(v, p)' <=> HasEntry(v, p)
                                      /\ HasEntry(v, p) => prior'[v][p] = prior[v][p]
    BY <1>4, <1>5, <2>1 DEF HasEntry
  <2>3. committedFiles' = committedFiles /\ openEdits' = openEdits
    BY <1>1, <2>2, SameFiles
  <2>4. [v \in Uuids |-> Fate(v)]' = [[v \in Uuids |-> Fate(v)] EXCEPT ![u] = "open"]
    BY <1>5, <2>1
  <2>5. Transactions!Open(u)
    BY <1>4, <2>3, <2>4 DEF Transactions!Open
  <2>6. QED
    BY <2>5 DEF Transactions!Next
<1>8. QED
  BY <1>6, <1>7

\* A write is an edit of its job's overlay, or of the files when the job
\* keeps no journal; one of which no byte landed may still put the path into
\* the overlay, as it was.
LEMMA WriteMaps ==
  ASSUME TypeOK, StructInv, DisjointInv, DisjointInv', Isolated,
         NEW u \in Uuids, NEW p \in Paths, WorkWrites(u, p)
  PROVE  Transactions!Next
<1>1. /\ jobs' = jobs /\ runner' = runner /\ verdict' = verdict
      /\ runner[u] = "working"
      /\ life[u] \in 1 .. MaxLives
  <2>1. jobs' = jobs /\ runner' = runner /\ verdict' = verdict /\ runner[u] = "working"
    BY DEF WorkWrites, WorkMoves
  <2>2. QED
    BY <2>1, RunnerAssumption DEF TypeOK, StructInv, JobInv, LifeInv
<1>2. PICK landed \in BOOLEAN : JournaledWrite(u, p, <<u, life[u]>>, landed)
  BY DEF WorkWrites
<1>3. \A v \in Uuids : Fate(v)' = Fate(v) /\ (OpenJournal(v)' <=> OpenJournal(v))
  BY <1>1 DEF Fate, OpenJournal, Journaled
<1>4. \A v \in Uuids \ {u} : /\ prior'[v] = prior[v]
                             /\ ~HasEntry(v, p)
  BY <1>2 DEF WorkWrites, HasEntry, JournaledWrite, TypeOK, JournalTypeOK
<1>5. /\ <<u, life[u]>> \in Contents
      /\ \A q \in Paths : disk[q] \in Contents /\ disk[q] # Unseen
  BY <1>1, RunnerAssumption DEF Contents, TypeOK, JournalTypeOK
<1>6. /\ \A q \in Paths \ {p} : disk'[q] = disk[q] /\ prior'[u][q] = prior[u][q]
      /\ disk'[p] = IF landed THEN <<u, life[u]>> ELSE disk[p]
      /\ prior'[u][p] = IF u \in armed /\ prior[u][p] = Unseen THEN disk[p] ELSE prior[u][p]
  BY <1>2 DEF JournaledWrite, TypeOK, JournalTypeOK
<1>7. disk'[p] \in Contents /\ disk'[p] # Unseen
  BY <1>5, <1>6, RunnerAssumption
<1>8. \A v \in Uuids, q \in Paths :
        v # u \/ q # p => /\ HasEntry(v, q)' <=> HasEntry(v, q)
                          /\ prior'[v][q] = prior[v][q]
  BY <1>3, <1>4, <1>6 DEF HasEntry
<1>9. [v \in Uuids |-> Fate(v)]' = [v \in Uuids |-> Fate(v)]
  BY <1>3
<1>10. \A q \in Paths \ {p} : committedFiles'[q] = committedFiles[q]
  <2> SUFFICES ASSUME NEW q \in Paths \ {p} PROVE committedFiles'[q] = committedFiles[q]
    OBVIOUS
  <2>1. CASE \E v \in Uuids : HasEntry(v, q)
    BY <1>8, <2>1, Committed, CommittedNext DEF CommittedInv
  <2>2. CASE \A v \in Uuids : ~HasEntry(v, q)
    BY <1>6, <1>8, <2>2, Committed, CommittedNext DEF CommittedInv
  <2>3. QED
    BY <2>1, <2>2
<1>11. CASE ~Journaled(u)
  <2>1. \A v \in Uuids : ~HasEntry(v, p) /\ ~HasEntry(v, p)'
    BY <1>3, <1>4, <1>8, <1>11 DEF HasEntry, OpenJournal
  <2>2. committedFiles'[p] = disk'[p]
    BY <2>1, CommittedNext DEF CommittedInv
  <2>3. committedFiles' = [committedFiles EXCEPT ![p] = disk'[p]]
    BY <1>10, <2>2 DEF committedFiles
  <2>4. openEdits' = openEdits
    <3>1. \A v \in Uuids, q \in Paths :
            /\ HasEntry(v, q)' <=> HasEntry(v, q)
            /\ HasEntry(v, q) => disk'[q] = disk[q]
      BY <1>6, <1>8, <2>1
    <3>2. QED
      BY <3>1 DEF openEdits
  <2>5. Transactions!DirectEdit(p, disk'[p])
    BY <1>9, <2>1, <2>3, <2>4 DEF Transactions!DirectEdit, openEdits
  <2>6. QED
    BY <1>7, <2>5 DEF Transactions!Next
<1>12. CASE Journaled(u)
  <2>1. OpenJournal(u) /\ u \in armed /\ Fate(u) = "open"
    BY <1>1, <1>12 DEF OpenJournal, Fate, StructInv, JobInv, JournalInv
  <2>2. HasEntry(u, p)'
    BY <1>3, <1>5, <1>6, <2>1 DEF HasEntry
  <2>3. committedFiles'[p] = committedFiles[p]
    <3>1. committedFiles'[p] = prior'[u][p]
      BY <2>2, CommittedNext DEF CommittedInv
    <3>2. CASE HasEntry(u, p)
      BY <1>6, <3>1, <3>2, Committed DEF CommittedInv, HasEntry
    <3>3. CASE ~HasEntry(u, p)
      <4>1. prior'[u][p] = disk[p]
        BY <1>6, <2>1, <3>3 DEF HasEntry
      <4>2. committedFiles[p] = disk[p]
        BY <1>4, <3>3, Committed DEF CommittedInv
      <4>3. QED
        BY <3>1, <4>1, <4>2
    <3>4. QED
      BY <3>2, <3>3
  <2>4. committedFiles' = committedFiles
    BY <1>10, <2>3 DEF committedFiles
  <2>5. openEdits' = [openEdits EXCEPT ![u][p] = disk'[p]]
    <3>1. /\ \A v \in Uuids \ {u} : openEdits'[v] = openEdits[v]
          /\ \A q \in Paths \ {p} : openEdits'[u][q] = openEdits[u][q]
      <4>1. \A v \in Uuids \ {u}, q \in Paths :
              /\ HasEntry(v, q)' <=> HasEntry(v, q)
              /\ HasEntry(v, q) => disk'[q] = disk[q]
        BY <1>4, <1>6, <1>8
      <4>2. QED
        BY <1>6, <1>8, <4>1 DEF openEdits
    <3>2. openEdits'[u][p] = disk'[p]
      BY <2>2 DEF openEdits
    <3>3. /\ openEdits \in [Uuids -> [Paths -> Contents \cup {Unseen}]]
          /\ openEdits' \in [Uuids -> [Paths -> Contents \cup {Unseen}]]
      <4>1. \A q \in Paths : disk'[q] \in Contents
        BY <1>5, <1>6, <1>7
      <4>2. QED
        BY <1>5, <4>1 DEF openEdits
    <3> DEFINE edited == [openEdits EXCEPT ![u][p] = disk'[p]]
    <3>4. \A v \in Uuids, q \in Paths : openEdits'[v][q] = edited[v][q]
      BY <3>1, <3>2, <3>3
    <3>5. edited \in [Uuids -> [Paths -> Contents \cup {Unseen}]]
      BY <1>7, <3>3
    <3> HIDE DEF edited
    <3>6. openEdits' = edited
      BY <3>3, <3>4, <3>5
    <3>7. QED
      BY <3>6 DEF edited
  <2>6. \A v \in Uuids \ {u} : openEdits[v][p] = Unseen
    BY <1>4 DEF openEdits
  <2>7. Transactions!Edit(u, p, disk'[p])
    BY <1>9, <2>1, <2>4, <2>5, <2>6 DEF Transactions!Edit
  <2>8. QED
    BY <1>7, <2>7 DEF Transactions!Next
<1>13. QED
  BY <1>11, <1>12

\* What reaches the files when the overlay of u goes: the paths it leaves as
\* they are on the disk; the others get their entry back.
LEMMA ClosesAs ==
  ASSUME DisjointInv, DisjointInv', NEW u \in Uuids, NEW kept \in SUBSET Paths,
         OpenJournal(u), ~OpenJournal(u)', kept \subseteq Touched(u),
         \A v \in Uuids \ {u} : (OpenJournal(v)' <=> OpenJournal(v)) /\ prior'[v] = prior[v],
         \A p \in Paths : disk'[p] = IF HasEntry(u, p) /\ p \notin kept THEN prior[u][p]
                                                                      ELSE disk[p]
  PROVE  Transactions!Close(u, kept)
<1>1. /\ \A v \in Uuids \ {u}, p \in Paths : HasEntry(v, p)' <=> HasEntry(v, p)
      /\ \A p \in Paths : ~HasEntry(u, p)'
      /\ \A p \in kept : HasEntry(u, p)
  BY DEF HasEntry, Touched
<1>2. ASSUME NEW p \in Paths
      PROVE  committedFiles'[p] = IF p \in kept THEN openEdits[u][p] ELSE committedFiles[p]
  <2>1. CASE HasEntry(u, p)
    <3>1. \A v \in Uuids : ~HasEntry(v, p)'
      BY <1>1, <2>1 DEF DisjointInv
    <3>2. committedFiles'[p] = disk'[p] /\ committedFiles[p] = prior[u][p]
      BY <2>1, <3>1, Committed, CommittedNext DEF CommittedInv
    <3>3. openEdits[u][p] = disk[p]
      BY <2>1 DEF openEdits
    <3>4. QED
      BY <2>1, <3>2, <3>3
  <2>2. CASE ~HasEntry(u, p)
    <3>1. p \notin kept /\ disk'[p] = disk[p]
      BY <1>1, <2>2
    <3>2. committedFiles'[p] = committedFiles[p]
      <4>1. CASE \E v \in Uuids \ {u} : HasEntry(v, p)
        BY <1>1, <4>1, Committed, CommittedNext DEF CommittedInv
      <4>2. CASE \A v \in Uuids : ~HasEntry(v, p)
        BY <1>1, <3>1, <4>2, Committed, CommittedNext DEF CommittedInv
      <4>3. QED
        BY <2>2, <4>1, <4>2
    <3>3. QED
      BY <3>1, <3>2
  <2>3. QED
    BY <2>1, <2>2
<1>3. committedFiles' = [p \in Paths |-> IF p \in kept THEN openEdits[u][p] ELSE committedFiles[p]]
  BY <1>2 DEF committedFiles
<1>4. openEdits' = [openEdits EXCEPT ![u] = [p \in Paths |-> Unseen]]
  <2>1. openEdits'[u] = [p \in Paths |-> Unseen]
    BY <1>1 DEF openEdits
  <2>2. ASSUME NEW v \in Uuids \ {u} PROVE openEdits'[v] = openEdits[v]
    <3>1. \A p \in Paths : HasEntry(v, p) => disk'[p] = disk[p]
      BY DEF DisjointInv
    <3>2. QED
      BY <1>1, <3>1 DEF openEdits
  <2>3. QED
    BY <2>1, <2>2 DEF openEdits
<1>5. QED
  BY <1>3, <1>4 DEF Transactions!Close, Transactions!Empty

\* end_job_journal commits or aborts.
LEMMA EndMaps ==
  ASSUME TypeOK, StructInv, DisjointInv, DisjointInv', NEW u \in Uuids, RunnerEndsJournal(u)
  PROVE  Transactions!Next
<1>1. /\ jobs' = jobs /\ verdict' = verdict
      /\ runner[u] = "working" /\ runner'[u] = "settled"
      /\ \A v \in Uuids \ {u} : runner'[v] = runner[v]
  BY DEF RunnerEndsJournal, TypeOK
<1>2. \A v \in Uuids \ {u} : Fate(v)' = Fate(v) /\ (OpenJournal(v)' <=> OpenJournal(v))
  BY <1>1 DEF Fate, OpenJournal, Journaled
<1>3. ~OpenJournal(u)' /\ (Journaled(u)' <=> Journaled(u))
  BY <1>1 DEF OpenJournal, Journaled
<1>4. CASE ~Journaled(u)
  <2>1. disk' = disk /\ prior' = prior
    BY <1>4 DEF RunnerEndsJournal, journalVars
  <2>2. Fate(u)' = Fate(u) /\ ~OpenJournal(u)
    BY <1>3, <1>4 DEF Fate, OpenJournal
  <2>3. QED
    BY <1>2, <1>3, <2>1, <2>2, ForgetsAtMost
<1>5. CASE Journaled(u)
  <2>1. OpenJournal(u) /\ Fate(u) = "open"
    BY <1>1, <1>5 DEF OpenJournal, Fate
  <2>2. /\ \A p \in Paths : (p \in Touched(u)) <=> HasEntry(u, p)
        /\ Transactions!Edited(u) = Touched(u)
    <3>1. \A p \in Paths : (p \in Touched(u)) <=> HasEntry(u, p)
      BY <2>1 DEF Touched, HasEntry
    <3>2. \A p \in Paths : disk[p] # Unseen
      BY RunnerAssumption DEF TypeOK, JournalTypeOK
    <3>3. \A p \in Paths : openEdits[u][p] # Unseen <=> HasEntry(u, p)
      BY <3>2 DEF openEdits
    <3>4. QED
      BY <3>1, <3>3 DEF Transactions!Edited, Touched
  <2>3. CASE verdict[u] = "result"
    <3>1. KeepEdits(u)
      BY <1>5, <2>3 DEF RunnerEndsJournal
    <3>2. disk' = disk /\ \A v \in Uuids \ {u} : prior'[v] = prior[v]
      BY <3>1 DEF KeepEdits, TypeOK, JournalTypeOK
    <3>3. Transactions!Close(u, Touched(u))
      <4>1. Touched(u) \in SUBSET Paths
        BY DEF Touched
      <4>2. QED
        BY <1>2, <1>3, <2>1, <2>2, <3>2, <4>1, ClosesAs
    <3>4. Fate(u)' = "committed"
      BY <1>1, <1>3, <1>5, <2>3 DEF Fate
    <3>5. [v \in Uuids |-> Fate(v)]' = [[v \in Uuids |-> Fate(v)] EXCEPT ![u] = "committed"]
      BY <1>2, <3>4
    <3>6. Transactions!Commit(u)
      BY <2>1, <2>2, <3>3, <3>5 DEF Transactions!Commit
    <3>7. QED
      BY <3>6 DEF Transactions!Next
  <2>4. CASE verdict[u] # "result"
    <3>1. PICK stuck \in SUBSET (Touched(u) \cap FragilePaths) : RollBack(u, stuck)
      BY <1>5, <2>4 DEF RunnerEndsJournal
    <3>2. /\ \A v \in Uuids \ {u} : prior'[v] = prior[v]
          /\ \A p \in Paths : disk'[p] = IF HasEntry(u, p) /\ p \notin stuck
                                           THEN prior[u][p] ELSE disk[p]
      BY <2>2, <3>1 DEF RollBack, TypeOK, JournalTypeOK
    <3>3. Transactions!Close(u, stuck)
      <4>1. stuck \in SUBSET Paths /\ stuck \subseteq Touched(u)
        BY DEF Touched
      <4>2. QED
        BY <1>2, <1>3, <2>1, <3>2, <4>1, ClosesAs
    <3>4. Fate(u)' = "aborted"
      BY <1>1, <1>3, <1>5, <2>4 DEF Fate
    <3>5. [v \in Uuids |-> Fate(v)]' = [[v \in Uuids |-> Fate(v)] EXCEPT ![u] = "aborted"]
      BY <1>2, <3>4
    <3>6. Transactions!Abort(u)
      BY <2>1, <2>2, <3>3, <3>5 DEF Transactions!Abort
    <3>7. QED
      BY <3>6 DEF Transactions!Next
  <2>5. QED
    BY <2>3, <2>4
<1>6. QED
  BY <1>4, <1>5

\* complete and fail publish what the journal has done already.
LEMMA ReportMaps ==
  ASSUME TypeOK, StructInv, DisjointInv, DisjointInv', NEW u \in Uuids, RunnerReports(u)
  PROVE  Transactions!Next
<1>1. /\ disk' = disk /\ prior' = prior
      /\ runner[u] = "settled" /\ runner'[u] = "finished"
      /\ \A v \in Uuids \ {u} : runner'[v] = runner[v] /\ verdict'[v] = verdict[v]
  BY DEF RunnerReports, TypeOK, journalVars
<1>2. verdict[u] \in Outcomes /\ Active(jobs[u])
  BY DEF RunnerReports, TypeOK, StructInv, JobInv, WorkInv, RecordInv
<1>3. /\ \A v \in Uuids \ {u} : jobs'[v] = jobs[v]
      /\ jobs'[u].tool = jobs[u].tool
      /\ jobs'[u].status = IF verdict[u] = "result" THEN "completed" ELSE "failed"
  BY <1>2, CompleteEffect, FailEffect DEF RunnerReports, TypeOK
<1>4. Journaled(u)' <=> Journaled(u)
  BY <1>3 DEF Journaled
<1>5. Fate(u)' = Fate(u) /\ ~OpenJournal(u) /\ ~OpenJournal(u)'
  BY <1>1, <1>3, <1>4 DEF Fate, OpenJournal
<1>6. \A v \in Uuids \ {u} : Fate(v)' = Fate(v) /\ (OpenJournal(v)' <=> OpenJournal(v))
  BY <1>1, <1>3 DEF Fate, OpenJournal, Journaled
<1>7. QED
  BY <1>1, <1>5, <1>6, ForgetsAtMost

\* The loop aborts a job whose runner died before it began a journal.
LEMMA JoinMaps ==
  ASSUME TypeOK, StructInv, DisjointInv, DisjointInv', NEW u \in Uuids, AnswerJoined(u)
  PROVE  Transactions!Next
<1>1. /\ UNCHANGED <<disk, prior, runner, verdict>>
      /\ runner[u] \in {"finished", "dead"}
  BY DEF AnswerJoined, journalVars, taskVars
<1>2. CASE jobs' = jobs
  <2>1. \A v \in Uuids : Fate(v)' = Fate(v) /\ (OpenJournal(v)' <=> OpenJournal(v))
    BY <1>1, <1>2 DEF Fate, OpenJournal, Journaled
  <2>2. QED
    BY <1>1, <2>1, ForgetsAtMost
<1>3. CASE jobs' # jobs
  <2>1. runner[u] = "dead" /\ Fail(u, "task lost")
    BY <1>3 DEF AnswerJoined
  <2>2. Active(jobs[u])
    BY <1>3, <2>1 DEF Fail, MutateIfActive
  <2>3. /\ \A v \in Uuids \ {u} : jobs'[v] = jobs[v]
        /\ jobs'[u].tool = jobs[u].tool
        /\ jobs'[u].status = "failed"
    BY <2>1, <2>2, FailEffect DEF TypeOK, Outcomes
  <2>4. /\ Journaled(u)' <=> Journaled(u)
        /\ Fate(u) = "none"
        /\ ~OpenJournal(u) /\ ~OpenJournal(u)'
    <3>1. Journaled(u)' <=> Journaled(u)
      BY <2>3 DEF Journaled
    <3>2. QED
      BY <1>1, <2>1, <2>2, <3>1 DEF Fate, OpenJournal, Active
  <2>5. \A v \in Uuids \ {u} : Fate(v)' = Fate(v) /\ (OpenJournal(v)' <=> OpenJournal(v))
    BY <1>1, <2>3 DEF Fate, OpenJournal, Journaled
  <2>6. CASE ~Journaled(u)
    <3>1. Fate(u)' = "none"
      BY <2>4, <2>6 DEF Fate
    <3>2. QED
      BY <1>1, <2>4, <2>5, <3>1, ForgetsAtMost
  <2>7. CASE Journaled(u)
    <3>1. Fate(u)' = "aborted"
      BY <1>1, <2>1, <2>3, <2>4, <2>7 DEF Fate
    <3>2. [v \in Uuids |-> Fate(v)]' = [[v \in Uuids |-> Fate(v)] EXCEPT ![u] = "aborted"]
      BY <2>5, <3>1
    <3>3. committedFiles' = committedFiles /\ openEdits' = openEdits
      BY <1>1, <2>4, <2>5, SameFiles DEF HasEntry
    <3>4. openEdits[u] = [p \in Paths |-> Unseen]
      BY <2>4 DEF openEdits, HasEntry
    <3>5. Transactions!Close(u, {})
      <4>1. committedFiles = [p \in Paths |-> committedFiles[p]]
        BY DEF committedFiles
      <4>2. openEdits = [openEdits EXCEPT ![u] = [p \in Paths |-> Unseen]]
        BY <3>4 DEF openEdits
      <4>3. QED
        BY <3>3, <4>1, <4>2 DEF Transactions!Close, Transactions!Empty
    <3>6. Transactions!Abort(u)
      BY <2>4, <3>2, <3>5 DEF Transactions!Abort
    <3>7. QED
      BY <3>6 DEF Transactions!Next
  <2>8. QED
    BY <2>6, <2>7
<1>4. QED
  BY <1>2, <1>3

\* The process takes the journals with it.
LEMMA RestartMaps ==
  ASSUME TypeOK, DisjointInv, DisjointInv', Restart
  PROVE  Transactions!Next
<1>1. /\ disk' = disk
      /\ \A v \in Uuids : runner'[v] = "none" /\ jobs'[v] = NoJob
  BY DEF Restart, LoseJournals
<1>2. \A v \in Uuids : ~Journaled(v)'
  BY <1>1 DEF Journaled, JournaledTools, NoJob, Record
<1>3. \A v \in Uuids : Fate(v)' = "none" /\ \A p \in Paths : ~HasEntry(v, p)'
  BY <1>2 DEF Fate, HasEntry, OpenJournal
<1>4. \A p \in Paths : disk[p] # Unseen
  BY RunnerAssumption DEF TypeOK, JournalTypeOK
<1>5. /\ \A v \in Uuids, p \in Paths : openEdits[v][p] # Unseen <=> HasEntry(v, p)
      /\ \A v \in Uuids, p \in Paths : HasEntry(v, p) => openEdits[v][p] = disk[p]
  BY <1>4 DEF openEdits
<1>6. ASSUME NEW p \in Paths
      PROVE  committedFiles'[p] =
               IF \E v \in Uuids : openEdits[v][p] # Unseen
                 THEN openEdits[CHOOSE v \in Uuids : openEdits[v][p] # Unseen][p]
                 ELSE committedFiles[p]
  <2> DEFINE chosen == CHOOSE v \in Uuids : openEdits[v][p] # Unseen
  <2>1. committedFiles'[p] = disk[p]
    BY <1>1, <1>3, CommittedNext DEF CommittedInv
  <2>2. (\E v \in Uuids : openEdits[v][p] # Unseen) =>
          chosen \in Uuids /\ openEdits[chosen][p] # Unseen
    OBVIOUS
  <2> HIDE DEF chosen
  <2>3. CASE \E v \in Uuids : openEdits[v][p] # Unseen
    <3>1. openEdits[chosen][p] = disk[p]
      BY <1>5, <2>2, <2>3
    <3>2. QED
      BY <2>1, <2>3, <3>1 DEF chosen
  <2>4. CASE ~\E v \in Uuids : openEdits[v][p] # Unseen
    <3>1. committedFiles[p] = disk[p]
      BY <1>5, <2>4, Committed DEF CommittedInv
    <3>2. QED
      BY <2>1, <2>4, <3>1
  <2>5. QED
    BY <2>3, <2>4
<1>7. committedFiles' =
        [p \in Paths |-> IF \E v \in Uuids : openEdits[v][p] # Unseen
                           THEN openEdits[CHOOSE v \in Uuids : openEdits[v][p] # Unseen][p]
                           ELSE committedFiles[p]]
  BY <1>6 DEF committedFiles
<1>8. openEdits' = [v \in Uuids |-> [p \in Paths |-> Unseen]]
  BY <1>3 DEF openEdits
<1>9. [v \in Uuids |-> Fate(v)]' = [v \in Uuids |-> "none"]
  BY <1>3
<1>10. Transactions!Crash
  BY <1>7, <1>8, <1>9 DEF Transactions!Crash, Transactions!Empty
<1>11. QED
  BY <1>10 DEF Transactions!Next

LEMMA StepMaps ==
  /\ Isolated
  /\ TypeOK /\ StructInv /\ DisjointInv /\ DisjointInv'
  /\ [Next]_vars
  => [Transactions!Next]_(Transactions!vars)
<1> SUFFICES ASSUME Isolated, TypeOK, StructInv, DisjointInv, DisjointInv', [Next]_vars
             PROVE  Transactions!Next
  OBVIOUS
<1> USE DEF journalVars, taskVars, threadVars, loopVars
<1>1. ASSUME NEW u \in Uuids,
             \/ \E tool \in Tools : Call(u, tool) \/ CallRefused(u, tool)
             \/ AnswerJoined(u) \/ RunnerSpawnsWork(u) \/ RunnerEndsJournal(u)
             \/ RunnerReports(u) \/ \E p \in Paths : WorkWrites(u, p)
      PROVE  Transactions!Next
  BY <1>1, CallMaps, RefusalMaps, JoinMaps, SpawnMaps, EndMaps, ReportMaps, WriteMaps
<1>2. CASE Restart
  BY <1>2, RestartMaps
<1>3. ASSUME NEW u \in Uuids, RunnerStarts(u) PROVE Transactions!Next
  <2>1. /\ UNCHANGED <<disk, prior, verdict>>
        /\ runner[u] = "spawned" /\ runner'[u] = "started"
        /\ \A v \in Uuids \ {u} : runner'[v] = runner[v]
    BY <1>3 DEF RunnerStarts, TypeOK
  <2>2. Active(jobs[u])
    BY <2>1 DEF StructInv, JobInv, RecordInv
  <2>3. /\ \A v \in Uuids : jobs'[v].tool = jobs[v].tool
        /\ \A v \in Uuids \ {u} : jobs'[v].status = jobs[v].status
        /\ Active(jobs'[u])
    BY <1>3, <2>2, SetRunningEffect DEF RunnerStarts, TypeOK, SameJob
  <2>4. Fate(u) = "none" /\ Fate(u)' = "none" /\ ~OpenJournal(u) /\ ~OpenJournal(u)'
    BY <2>1, <2>2, <2>3 DEF Fate, Active, OpenJournal
  <2>5. \A v \in Uuids \ {u} : Fate(v)' = Fate(v) /\ (OpenJournal(v)' <=> OpenJournal(v))
    BY <2>1, <2>3 DEF Fate, OpenJournal, Journaled
  <2>6. QED
    BY <2>1, <2>4, <2>5, ForgetsAtMost
<1>4. ASSUME NEW u \in Uuids, RunnerDies(u) PROVE Transactions!Next
  <2>1. /\ UNCHANGED <<disk, prior, verdict>>
        /\ runner[u] = "started" /\ runner'[u] = "dead"
        /\ \A v \in Uuids \ {u} : runner'[v] = runner[v]
    BY <1>4 DEF RunnerDies, TypeOK
  <2>2. \A v \in Uuids : jobs'[v].tool = jobs[v].tool /\ jobs'[v].status = jobs[v].status
    BY <1>4, HeartbeatEffect DEF RunnerDies, TypeOK, SameJob
  <2>3. \A v \in Uuids : Fate(v)' = Fate(v) /\ (OpenJournal(v)' <=> OpenJournal(v))
    BY <2>1, <2>2 DEF Fate, OpenJournal, Journaled
  <2>4. QED
    BY <2>1, <2>3, ForgetsAtMost
\* What a step may change without moving an outcome.
<1>5. ASSUME UNCHANGED <<disk, prior, runner>>,
             \A v \in Uuids : /\ jobs'[v].tool = jobs[v].tool
                              /\ jobs'[v].status = jobs[v].status
                              /\ runner[v] = "settled" => verdict'[v] = verdict[v]
      PROVE  Transactions!Next
  <2>1. \A v \in Uuids : Fate(v)' = Fate(v) /\ (OpenJournal(v)' <=> OpenJournal(v))
    BY <1>5 DEF Fate, OpenJournal, Journaled
  <2>2. QED
    BY <1>5, <2>1, ForgetsAtMost
<1>6. ASSUME NEW u \in Uuids, Cancel(u) \/ LoopTurns(u) \/ ThreadBeats(u)
      PROVE  Transactions!Next
  <2>1. \A v \in Uuids : SameJob(v)
    BY <1>6, CancelEffect, SetActionEffect, HeartbeatEffect
    DEF Cancel, LoopTurns, ThreadBeats, TypeOK
  <2>2. UNCHANGED <<disk, prior, runner, verdict>>
    BY <1>6 DEF Cancel, LoopTurns, WorkMoves, ThreadBeats
  <2>3. QED
    BY <1>5, <2>1, <2>2 DEF SameJob
<1>7. CASE Tick
  <2>1. \A v \in Uuids : jobs'[v].status = jobs[v].status /\ jobs'[v].tool = jobs[v].tool
    BY <1>7, ElapseEffect DEF Tick, TypeOK
  <2>2. UNCHANGED <<disk, prior, runner, verdict>>
    BY <1>7 DEF Tick
  <2>3. QED
    BY <1>5, <2>1, <2>2
<1>8. ASSUME NEW u \in Uuids, NEW from, NEW outcome, WorkEndsWith(u, from, outcome)
      PROVE  Transactions!Next
  <2>1. /\ UNCHANGED <<disk, prior, runner, jobs>>
        /\ \A v \in Uuids : runner[v] = "settled" => verdict'[v] = verdict[v]
    BY <1>8 DEF WorkEndsWith, WorkMoves, TypeOK
  <2>2. QED
    BY <1>5, <2>1
<1>9. ASSUME NEW u \in Uuids,
             LoopCancelled(u) \/ LoopOutOfTime(u) \/ WorkEnds(u) \/ WorkDropped(u)
      PROVE  Transactions!Next
  BY <1>8, <1>9 DEF LoopCancelled, LoopOutOfTime, WorkEnds, WorkDropped
<1>10. ASSUME NEW u \in Uuids,
              \/ AnswerTimeout(u) \/ WorkReachesLoopHead(u) \/ LoopEnds(u) \/ CallReturns(u)
              \/ WorkCallsProvider(u) \/ ThreadExits(u) \/ ThreadWakes(u)
       PROVE  Transactions!Next
  BY <1>5, <1>10
  DEF AnswerTimeout, WorkReachesLoopHead, LoopEnds, CallReturns, WorkCallsProvider, WorkMoves,
      ThreadExits, ThreadWakes
<1>11. CASE HangUp \/ UNCHANGED vars
  BY <1>5, <1>11 DEF HangUp, vars
<1>12. QED
  BY <1>1, <1>2, <1>3, <1>4, <1>6, <1>7, <1>9, <1>10, <1>11 DEF Next, Runner, WorkStep

\* Journaled jobs are transactions on the workspace: all edits of a job when
\* the registry says completed, none but fragile ones when it says failed, in
\* every interleaving of jobs that write different files (run_tracked_job,
\* journaled_write, end_job_journal).
THEOREM JobsImplementTransactions == ASSUME Isolated PROVE Spec => JobsAreTransactions
<1>1. Isolated
  OBVIOUS
<1>2. Init => Transactions!Init
  BY InitMaps
<1>3. (TypeOK /\ StructInv) /\ IsolationInv /\ IsolationInv' /\ [Next]_vars =>
        [Transactions!Next]_(Transactions!vars)
  BY <1>1, StepMaps DEF IsolationInv
<1>4. Spec => []IsolationInv
  BY <1>1, Isolation
<1>5. QED
  BY <1>2, <1>3, <1>4, Structure, PTL DEF Spec, JobsAreTransactions, Transactions!Spec
=============================================================================

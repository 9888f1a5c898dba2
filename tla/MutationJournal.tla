--------------------------- MODULE MutationJournal ---------------------------
(***************************************************************************)
(* The journal that lets a job's file edits be undone                      *)
(* (src/src/mutation_journal.rs): per job a map from path to what the path *)
(* held before the job's first write to it.  All journals sit in one       *)
(* process-wide map behind one mutex, which journaled_write and            *)
(* end_job_journal hold while they touch the disk, so each is one step.    *)
(*                                                                         *)
(* The disk is part of the state and outlives the process; the journals    *)
(* are memory and do not.  Directories made for a new file are left out    *)
(* (a rollback never removes them).                                        *)
(***************************************************************************)
CONSTANTS
  Owners,    \* the job ids journals are kept under
  Paths,     \* the files jobs may touch
  Contents,  \* what a path may hold; that it is absent is one of them
  Unseen     \* no entry: the job has not written the path

VARIABLES
  disk,      \* what each path holds
  armed,     \* the owners that have a journal in the map
  prior      \* prior[o][p]: the entry of p in o's journal

NoEntries == [p \in Paths |-> Unseen]

JournalTypeOK ==
  /\ disk \in [Paths -> Contents]
  /\ armed \subseteq Owners
  /\ prior \in [Owners -> [Paths -> Contents \cup {Unseen}]]

JournalInit ==
  /\ armed = {}
  /\ prior = [o \in Owners |-> NoEntries]

Touched(o) == {p \in Paths : prior[o][p] # Unseen}

\* begin_job_journal replaces whatever journal the id still had.
BeginJournal(o) ==
  /\ armed' = armed \cup {o}
  /\ prior' = [prior EXCEPT ![o] = NoEntries]
  /\ UNCHANGED disk

\* Mutant: the snapshot is taken at every write, not only at the first.
JournaledWriteResnapshots(o, p, content, landed) ==
  /\ prior' = IF o \in armed THEN [prior EXCEPT ![o][p] = disk[p]] ELSE prior
  /\ disk' = IF landed THEN [disk EXCEPT ![p] = content] ELSE disk
  /\ UNCHANGED armed

\* journaled_write: with a journal, snapshot on the first write of a path,
\* then write; without one, just write.  The entry is in the journal before
\* the write, so it is there too when the write fails; "landed" says whether
\* bytes of this write reached the file (a failed write may leave some).
JournaledWrite(o, p, content, landed) ==
  /\ prior' = IF o \in armed /\ prior[o][p] = Unseen
                THEN [prior EXCEPT ![o][p] = disk[p]]
                ELSE prior
  /\ disk' = IF landed THEN [disk EXCEPT ![p] = content] ELSE disk
  /\ UNCHANGED armed

\* end_job_journal(ok = true): forget the entries, keep the files.
KeepEdits(o) ==
  /\ armed' = armed \ {o}
  /\ prior' = [prior EXCEPT ![o] = NoEntries]
  /\ UNCHANGED disk

\* end_job_journal(ok = false): put every entry back; the paths in "stuck"
\* are those whose restore failed.  They keep their entry, and the journal
\* then stays in the map, where nothing tries again.
RollBack(o, stuck) ==
  /\ stuck \subseteq Touched(o)
  /\ disk' = [p \in Paths |->
                IF p \in Touched(o) \ stuck THEN prior[o][p] ELSE disk[p]]
  /\ prior' = [prior EXCEPT ![o] = [p \in Paths |->
                IF p \in stuck THEN prior[o][p] ELSE Unseen]]
  /\ armed' = IF stuck = {} THEN armed \ {o} ELSE armed

\* The process is gone and its journals with it.
LoseJournals ==
  /\ armed' = {}
  /\ prior' = [o \in Owners |-> NoEntries]
  /\ UNCHANGED disk
==============================================================================

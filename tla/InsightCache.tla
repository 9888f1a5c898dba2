---------------------------- MODULE InsightCache ----------------------------
(***************************************************************************)
(* The cache of scout reports (src/src/cache/manager.rs, file_state.rs)    *)
(* and the flow of scout_context around it (agent/scout/cache_flow.rs).    *)
(* Every job opens a connection of its own to the project's cache.db, so   *)
(* the mutex of the flow orders nothing between jobs: each statement       *)
(* outside a transaction is a step of its own here, while other jobs run   *)
(* and the working tree changes.                                           *)
(***************************************************************************)
EXTENDS Naturals

CONSTANTS
  Jobs,        \* scout_context jobs of one project
  Phrases,     \* query texts
  Files,       \* files of the project
  Scope,       \* Scope[q]: what a scout may open to answer q
  Similarity,  \* Similarity[q, p]: of the embeddings of two phrases
  Threshold,   \* SEMANTIC_SIMILARITY_THRESHOLD
  MaxVersion,  \* bound: changes of a file
  MaxRequests, \* bound: calls of scout_context
  Overlap,     \* a job may start while another one runs
  EditsWhileScouting \* files may change while a scout reads them

Versions == 0 .. MaxVersion
Insights == [basis : [Files -> Versions], files : SUBSET Files, cites : BOOLEAN]
NoInsight == [basis |-> [f \in Files |-> 0], files |-> {}, cites |-> FALSE]

ASSUME CacheAssumption ==
  /\ Scope \in [Phrases -> SUBSET Files]
  /\ Similarity \in [Phrases \X Phrases -> Nat]
  /\ Threshold \in Nat /\ MaxVersion \in Nat /\ MaxRequests \in Nat
  /\ Overlap \in BOOLEAN /\ EditsWhileScouting \in BOOLEAN

VARIABLES
  version,  \* how often each file changed: its mtime and blob sha
  there,    \* the files that exist
  queries,  \* table queries: the ids (phrases) with an embedding
  stored,   \* table insights: the ids
  insight,  \* their rows: which versions the report was written from
  links,    \* table insight_dependencies
  node,     \* table code_nodes: the last snapshot of each file
  pc, asked, found, content, linked, unchecked, snap, touched, read,  \* of each job
  began,    \* the versions when the lookup of a job began (bookkeeping)
  requests  \* jobs started (bookkeeping)

tree == <<version, there>>
db == <<queries, stored, insight, links, node>>
ghosts == <<began, requests>>
lookup == <<found, content, linked, unchecked, snap>>
scout == <<touched, read>>
vars == <<tree, db, pc, asked, lookup, scout, ghosts>>

Resting == {"idle", "hit", "done"}
LookupSteps == {"match", "content", "deps", "check", "drop_insight", "drop_query"}

Init ==
  /\ version = [f \in Files |-> 0] /\ there \in SUBSET Files
  /\ queries = {} /\ stored = {} /\ links = {}
  /\ insight = [p \in Phrases |-> NoInsight]
  /\ node = [f \in Files |-> 0]
  /\ pc = [j \in Jobs |-> "idle"]
  /\ asked \in [Jobs -> Phrases] /\ found = asked
  /\ content = [j \in Jobs |-> NoInsight]
  /\ linked = [j \in Jobs |-> {}] /\ unchecked = linked /\ touched = linked
  /\ snap = [j \in Jobs |-> node] /\ read = [j \in Jobs |-> node]
  /\ began = [j \in Jobs |-> version]
  /\ requests = 0

-----------------------------------------------------------------------------
(* The working tree: a file is edited, removed or put back.                *)
Change(f) ==
  /\ EditsWhileScouting \/ \A j \in Jobs : pc[j] # "scouting"
  /\ version[f] < MaxVersion
  /\ version' = [version EXCEPT ![f] = @ + 1]
  /\ there' \in {there \cup {f}, there \ {f}}
  /\ UNCHANGED <<db, pc, asked, lookup, scout, ghosts>>

\* Mutant: only a missing file counts.
DirtyIfGone(f, seen) == f \notin there

(* is_code_node_dirty: gone, or mtime or sha differ from the snapshot.     *)
Dirty(f, seen) == f \notin there \/ version[f] # seen

(* best_embedding_match: the most similar query of the table, if any is    *)
(* similar enough; the order of the rows decides between equals.           *)
BestMatches(q) ==
  {p \in queries : /\ Similarity[q, p] >= Threshold
                   /\ \A o \in queries : Similarity[q, o] <= Similarity[q, p]}

Goto(j, step) == pc' = [pc EXCEPT ![j] = step]
Scouts(j) ==
  /\ Goto(j, "scouting")
  /\ touched' = [touched EXCEPT ![j] = {}]
  /\ read' = [read EXCEPT ![j] = [f \in Files |-> 0]]

-----------------------------------------------------------------------------
(* scout_context: force_refresh skips the lookup, never the store.         *)
StartJob(j, q) ==
  /\ pc[j] \in Resting
  /\ Overlap \/ \A k \in Jobs : pc[k] \in Resting
  /\ requests < MaxRequests
  /\ requests' = requests + 1
  /\ asked' = [asked EXCEPT ![j] = q]
  /\ began' = [began EXCEPT ![j] = version]
  /\ \/ Scouts(j)
     \/ Goto(j, "match") /\ UNCHANGED scout
  /\ UNCHANGED <<tree, db, lookup>>

(* try_get_valid_insight, statement by statement.                          *)
Match(j) ==
  /\ pc[j] = "match"
  /\ \/ /\ BestMatches(asked[j]) = {}
        /\ Scouts(j) /\ UNCHANGED found
     \/ /\ \E p \in BestMatches(asked[j]) : found' = [found EXCEPT ![j] = p]
        /\ Goto(j, "content") /\ UNCHANGED scout
  /\ UNCHANGED <<tree, db, asked, content, linked, unchecked, snap, ghosts>>

LoadContent(j) ==
  /\ pc[j] = "content"
  /\ \/ /\ found[j] \in stored
        /\ content' = [content EXCEPT ![j] = insight[found[j]]]
        /\ Goto(j, "deps") /\ UNCHANGED scout
     \/ /\ found[j] \notin stored
        /\ Scouts(j) /\ UNCHANGED content
  /\ UNCHANGED <<tree, db, asked, found, linked, unchecked, snap, ghosts>>

\* Mutant: the WHERE clause is missing.
LinkedToAny(p) == {f \in Files : \E q \in Phrases : <<q, f>> \in links}

LinkedFiles(p) == {f \in Files : <<p, f>> \in links}

LoadDependencies(j) ==
  /\ pc[j] = "deps"
  /\ linked' = [linked EXCEPT ![j] = LinkedFiles(found[j])]
  /\ unchecked' = [unchecked EXCEPT ![j] = LinkedFiles(found[j])]
  /\ snap' = [snap EXCEPT ![j] = node]
  /\ Goto(j, "check")
  /\ UNCHANGED <<tree, db, asked, found, content, scout, ghosts>>

CheckFile(j, f) ==
  /\ pc[j] = "check" /\ f \in unchecked[j]
  /\ \/ /\ Dirty(f, snap[j][f])
        /\ Goto(j, "drop_insight") /\ UNCHANGED unchecked
     \/ /\ ~Dirty(f, snap[j][f])
        /\ unchecked' = [unchecked EXCEPT ![j] = @ \ {f}]
        /\ UNCHANGED pc
  /\ UNCHANGED <<tree, db, asked, found, content, linked, snap, scout, ghosts>>

(* The report must cite a file:line.                                       *)
CheckCitation(j) ==
  /\ pc[j] = "check" /\ unchecked[j] = {}
  /\ Goto(j, IF content[j].cites THEN "hit" ELSE "drop_insight")
  /\ UNCHANGED <<tree, db, asked, lookup, scout, ghosts>>

(* invalidate_insight: two statements; the links go with the insight.      *)
DropInsight(j) ==
  /\ pc[j] = "drop_insight"
  /\ stored' = stored \ {found[j]}
  /\ links' = links \ ({found[j]} \X Files)
  /\ Goto(j, "drop_query")
  /\ UNCHANGED <<tree, queries, insight, node, asked, lookup, scout, ghosts>>

DropQuery(j) ==
  /\ pc[j] = "drop_query"
  /\ queries' = queries \ {found[j]}
  /\ Scouts(j)
  /\ UNCHANGED <<tree, stored, insight, links, node, asked, lookup, ghosts>>

-----------------------------------------------------------------------------
(* The scout opens a file; what it read first is what the report rests on. *)
Touch(j, f) ==
  /\ pc[j] = "scouting"
  /\ f \in Scope[asked[j]] \ touched[j]
  /\ touched' = [touched EXCEPT ![j] = @ \cup {f}]
  /\ read' = [read EXCEPT ![j][f] = version[f]]
  /\ UNCHANGED <<tree, db, pc, asked, lookup, ghosts>>

(* store_insight: one transaction, which a touched file that is gone (or   *)
(* lies outside the project) undoes.  The snapshots are taken now.         *)
StoreInsight(j, cites) ==
  /\ pc[j] = "scouting" /\ touched[j] # {}
  /\ touched[j] \subseteq there
  /\ queries' = queries \cup {asked[j]}
  /\ stored' = stored \cup {asked[j]}
  /\ insight' = [insight EXCEPT ![asked[j]] =
                   [basis |-> read[j], files |-> touched[j], cites |-> cites]]
  /\ links' = (links \ ({asked[j]} \X Files)) \cup ({asked[j]} \X touched[j])
  /\ node' = [f \in Files |-> IF f \in touched[j] THEN version[f] ELSE node[f]]
  /\ Goto(j, "done")
  /\ UNCHANGED <<tree, asked, lookup, scout, ghosts>>

(* Nothing is stored: no file touched, one of them gone, the turn limit    *)
(* instead of finalize, SQLite refuses (the report is answered all the     *)
(* same), or the scout fails.                                              *)
AnswerUnstored(j) ==
  /\ pc[j] = "scouting"
  /\ Goto(j, "done")
  /\ UNCHANGED <<tree, db, asked, lookup, scout, ghosts>>

(* Any statement may fail, and the process may die between two of them.    *)
JobFails(j) ==
  /\ pc[j] \in LookupSteps
  /\ Goto(j, "done")
  /\ UNCHANGED <<tree, db, asked, lookup, scout, ghosts>>

Lookup(j) ==
  \/ Match(j) \/ LoadContent(j) \/ LoadDependencies(j) \/ CheckCitation(j)
  \/ \E f \in Files : CheckFile(j, f)
  \/ DropInsight(j) \/ DropQuery(j)
Scouting(j) ==
  \/ \E f \in Files : Touch(j, f)
  \/ \E cites \in BOOLEAN : StoreInsight(j, cites)
  \/ AnswerUnstored(j)

Next ==
  \/ \E f \in Files : Change(f)
  \/ \E j \in Jobs :
       \/ \E q \in Phrases : StartJob(j, q)
       \/ Lookup(j) \/ Scouting(j) \/ JobFails(j)

Spec == Init /\ [][Next]_vars

-----------------------------------------------------------------------------
(* Types: the rows of the cache and the state of every job.                *)
TypeOK ==
  /\ version \in [Files -> Versions] /\ there \subseteq Files
  /\ queries \subseteq Phrases /\ stored \subseteq Phrases
  /\ insight \in [Phrases -> Insights]
  /\ links \subseteq Phrases \X Files
  /\ node \in [Files -> Versions]
  /\ pc \in [Jobs -> Resting \cup LookupSteps \cup {"scouting"}]
  /\ asked \in [Jobs -> Phrases] /\ found \in [Jobs -> Phrases]
  /\ content \in [Jobs -> Insights]
  /\ linked \in [Jobs -> SUBSET Files]
  /\ unchecked \in [Jobs -> SUBSET Files] /\ touched \in [Jobs -> SUBSET Files]
  /\ snap \in [Jobs -> [Files -> Versions]] /\ read \in [Jobs -> [Files -> Versions]]
  /\ began \in [Jobs -> [Files -> Versions]]
  /\ requests \in 0 .. MaxRequests

(* A cached report is answered only if none of the files it was written    *)
(* from had changed when the lookup began ("every linked source file is up *)
(* to date", manager.rs).  Holds while jobs follow each other, the tree    *)
(* rests during a scout, and no two phrases share a file.                  *)
HitIsCurrent ==
  \A j \in Jobs : pc[j] = "hit" =>
    \A f \in content[j].files : content[j].basis[f] >= began[j][f]

(* An insight leaves the cache only for a reason: it cites nothing, or one *)
(* of its files is not as it was when the insight was stored.              *)
Obsolete(p) == ~ insight[p].cites
               \/ \E f \in insight[p].files : Dirty(f, insight[p].basis[f])
UsefulInsightsStay ==
  [][\A p \in stored \ stored' : Obsolete(p)]_vars

(* However jobs overlap, whatever files they share and whoever edits them: *)
(* a report is answered only if it cites a line and every file linked to   *)
(* it is as in the snapshot that the lookup read, at a moment after the    *)
(* lookup began.  The snapshot may be of a later store than the report     *)
(* ("mtime/git-blob match snapshots", ProjectCacheManager).                *)
HitMatchesSnapshots ==
  \A j \in Jobs : pc[j] = "hit" =>
    content[j].cites /\ \A f \in linked[j] : snap[j][f] >= began[j][f]

(* Nor does a lookup drop a report for nothing, under the same: what it    *)
(* has read cites nothing, or a file is not as in the snapshot it read.    *)
DropReason(j) == ~content[j].cites \/ \E f \in linked[j] : Dirty(f, snap[j][f])
DroppedForAReason ==
  [][\A p \in stored \ stored' : \E j \in Jobs : found[j] = p /\ DropReason(j)]_vars
=============================================================================

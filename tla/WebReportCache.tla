--------------------------- MODULE WebReportCache ---------------------------
(***************************************************************************)
(* The cache of web reports (src/src/cache/manager.rs) and the flow of     *)
(* web_fetch around it (agent/web_fetcher/cache_flow.rs): a report is      *)
(* answered as it is while it is young, and checked against its pages      *)
(* afterwards.  As in InsightCache every job has its own connection, and   *)
(* each statement outside a transaction, and each page fetched, is a step. *)
(***************************************************************************)
EXTENDS Naturals

CONSTANTS
  Jobs,        \* web_fetch jobs of one project
  Phrases,     \* search phrases
  Urls,        \* pages
  Local,       \* those whose address contains 127.0.0.1 or localhost
  Found,       \* Found[q]: the pages a search for q may bring up
  Similarity,  \* Similarity[q, p]: of the embeddings of two phrases
  Threshold,   \* web_cache_threshold
  Ttl,         \* cache_ttl_seconds
  MaxVersion,  \* bound: changes of a page
  MaxTime,     \* bound: the clock
  MaxRequests, \* bound: calls of web_fetch
  Overlap      \* a job may start while another one runs

Versions == 0 .. MaxVersion
Times == 0 .. MaxTime
Reports == [basis : [Urls -> Versions], urls : SUBSET Urls, created : Times]
NoReport == [basis |-> [u \in Urls |-> 0], urls |-> {}, created |-> 0]

ASSUME WebCacheAssumption ==
  /\ Local \subseteq Urls
  /\ Found \in [Phrases -> SUBSET Urls]
  /\ Similarity \in [Phrases \X Phrases -> Nat]
  /\ Threshold \in Nat /\ Ttl \in Nat /\ MaxVersion \in Nat /\ MaxTime \in Nat
  /\ MaxRequests \in Nat /\ Overlap \in BOOLEAN

VARIABLES
  version, up,  \* what the pages say, and which of them answer
  now,
  queries,  \* table web_queries: the ids (phrases) with an embedding
  stored,   \* table web_reports: the ids
  report,   \* their rows: which versions the report was written from
  links,    \* table web_fetch_dependencies
  sources,  \* table web_sources: the ids
  hash,     \* and their content_sha256
  pc, asked, found, content, linked, unchecked, seen, pages, fetched,  \* of each job
  began, beganAt,  \* the pages and the clock when its lookup began (bookkeeping)
  requests         \* jobs started (bookkeeping)

web == <<version, up, now>>
db == <<queries, stored, report, links, sources, hash>>
lookup == <<found, content, linked, unchecked, seen>>
research == <<pages, fetched>>
ghosts == <<began, beganAt, requests>>
vars == <<web, db, pc, asked, lookup, research, ghosts>>

Resting == {"idle", "hit", "done"}
LookupSteps == {"match", "report", "sources", "revalidate",
                "drop_report", "drop_query", "drop_orphans"}

Init ==
  /\ version = [u \in Urls |-> 0] /\ up \in SUBSET Urls /\ now = 0
  /\ queries = {} /\ stored = {} /\ links = {} /\ sources = {}
  /\ report = [p \in Phrases |-> NoReport]
  /\ hash = [u \in Urls |-> 0]
  /\ pc = [j \in Jobs |-> "idle"]
  /\ asked \in [Jobs -> Phrases] /\ found = asked
  /\ content = [j \in Jobs |-> NoReport]
  /\ linked = [j \in Jobs |-> {}] /\ unchecked = linked /\ fetched = linked
  /\ seen = [j \in Jobs |-> hash] /\ pages = [j \in Jobs |-> hash]
  /\ began = [j \in Jobs |-> version] /\ beganAt = [j \in Jobs |-> 0]
  /\ requests = 0

-----------------------------------------------------------------------------
(* The web: a page changes, comes up or goes down; time passes.            *)
PageChanges(u) ==
  /\ version[u] < MaxVersion
  /\ version' = [version EXCEPT ![u] = @ + 1]
  /\ UNCHANGED <<up, now, db, pc, asked, lookup, research, ghosts>>

PageFlips(u) ==
  /\ up' = (up \ {u}) \cup ({u} \ up)
  /\ UNCHANGED <<version, now, db, pc, asked, lookup, research, ghosts>>

Tick ==
  /\ now < MaxTime /\ now' = now + 1
  /\ UNCHANGED <<version, up, db, pc, asked, lookup, research, ghosts>>

(* best_embedding_match.                                                   *)
BestMatches(q) ==
  {p \in queries : /\ Similarity[q, p] >= Threshold
                   /\ \A o \in queries : Similarity[q, o] <= Similarity[q, p]}

Goto(j, step) == pc' = [pc EXCEPT ![j] = step]
Researches(j) ==
  /\ Goto(j, "research")
  /\ fetched' = [fetched EXCEPT ![j] = {}]
  /\ pages' = [pages EXCEPT ![j] = [u \in Urls |-> 0]]

-----------------------------------------------------------------------------
(* web_fetch: force_refresh skips the lookup, never the store.             *)
StartJob(j, q) ==
  /\ pc[j] \in Resting
  /\ Overlap \/ \A k \in Jobs : pc[k] \in Resting
  /\ requests < MaxRequests
  /\ requests' = requests + 1
  /\ asked' = [asked EXCEPT ![j] = q]
  /\ began' = [began EXCEPT ![j] = version]
  /\ beganAt' = [beganAt EXCEPT ![j] = now]
  /\ \/ Researches(j)
     \/ Goto(j, "match") /\ UNCHANGED research
  /\ UNCHANGED <<web, db, lookup>>

(* lookup_web_report_cache, statement by statement.                        *)
Match(j) ==
  /\ pc[j] = "match"
  /\ \/ /\ BestMatches(asked[j]) = {}
        /\ Researches(j) /\ UNCHANGED found
     \/ /\ \E p \in BestMatches(asked[j]) : found' = [found EXCEPT ![j] = p]
        /\ Goto(j, "report") /\ UNCHANGED research
  /\ UNCHANGED <<web, db, asked, content, linked, unchecked, seen, ghosts>>

LoadReport(j) ==
  /\ pc[j] = "report"
  /\ \/ /\ found[j] \in stored
        /\ content' = [content EXCEPT ![j] = report[found[j]]]
        /\ Goto(j, "sources") /\ UNCHANGED research
     \/ /\ found[j] \notin stored
        /\ Researches(j) /\ UNCHANGED content
  /\ UNCHANGED <<web, db, asked, found, linked, unchecked, seen, ghosts>>

LinkedUrls(p) == {u \in sources : <<p, u>> \in links}

\* Mutant: the comparison is the wrong way round.
YoungLater(r) == now - r.created >= Ttl

Young(r) == now < r.created + Ttl

(* No source, or a local one: the report is dropped.  Young: it is the     *)
(* answer.  Otherwise its pages are fetched again, the connection unlocked.*)
LoadSources(j) ==
  /\ pc[j] = "sources"
  /\ linked' = [linked EXCEPT ![j] = LinkedUrls(found[j])]
  /\ unchecked' = [unchecked EXCEPT ![j] = LinkedUrls(found[j])]
  /\ seen' = [seen EXCEPT ![j] = hash]
  /\ LET urls == LinkedUrls(found[j])
         bad == urls = {} \/ urls \cap Local # {}
     IN  \/ bad /\ Goto(j, "drop_report")
         \/ ~bad /\ Young(content[j]) /\ Goto(j, "hit")
         \/ ~bad /\ ~Young(content[j]) /\ Goto(j, "revalidate")
  /\ UNCHANGED <<web, db, asked, found, content, research, ghosts>>

\* Mutant: a page that answers is good enough.
UnchangedIfUp(u, stored_hash) == u \in up

Unchanged(u, stored_hash) == u \in up /\ version[u] = stored_hash

(* web_sources_still_valid: all of them, one fetch each.                   *)
CheckSource(j, u) ==
  /\ pc[j] = "revalidate" /\ u \in unchecked[j]
  /\ \/ /\ Unchanged(u, seen[j][u])
        /\ unchecked' = [unchecked EXCEPT ![j] = @ \ {u}]
        /\ UNCHANGED pc
     \/ /\ ~Unchanged(u, seen[j][u])
        /\ Goto(j, "drop_report") /\ UNCHANGED unchecked
  /\ UNCHANGED <<web, db, asked, found, content, linked, seen, research, ghosts>>

(* Still valid: a hit.  created_at stays as it was.                        *)
Revalidated(j) ==
  /\ pc[j] = "revalidate" /\ unchecked[j] = {}
  /\ Goto(j, "hit")
  /\ UNCHANGED <<web, db, asked, lookup, research, ghosts>>

(* invalidate_web_report: three statements; the links go with the report.  *)
DropReport(j) ==
  /\ pc[j] = "drop_report"
  /\ stored' = stored \ {found[j]}
  /\ links' = links \ ({found[j]} \X Urls)
  /\ Goto(j, "drop_query")
  /\ UNCHANGED <<web, queries, report, sources, hash, asked, lookup, research, ghosts>>

DropQuery(j) ==
  /\ pc[j] = "drop_query"
  /\ queries' = queries \ {found[j]}
  /\ Goto(j, "drop_orphans")
  /\ UNCHANGED <<web, stored, report, links, sources, hash, asked, lookup, research, ghosts>>

DropOrphans(j) ==
  /\ pc[j] = "drop_orphans"
  /\ sources' = {u \in sources : \E p \in Phrases : <<p, u>> \in links}
  /\ Researches(j)
  /\ UNCHANGED <<web, queries, stored, report, links, hash, asked, lookup, ghosts>>

-----------------------------------------------------------------------------
(* search_web fetches a page of the results that answers.                  *)
Fetch(j, u) ==
  /\ pc[j] = "research" /\ u \in Found[asked[j]] \cap up
  /\ fetched' = [fetched EXCEPT ![j] = @ \cup {u}]
  /\ pages' = [pages EXCEPT ![j][u] = version[u]]
  /\ UNCHANGED <<web, db, pc, asked, lookup, ghosts>>

(* store_web_report: one transaction, with the hashes of the pages read.   *)
StoreReport(j) ==
  /\ pc[j] = "research" /\ fetched[j] # {}
  /\ queries' = queries \cup {asked[j]}
  /\ stored' = stored \cup {asked[j]}
  /\ report' = [report EXCEPT ![asked[j]] =
                  [basis |-> pages[j], urls |-> fetched[j], created |-> now]]
  /\ links' = (links \ ({asked[j]} \X Urls)) \cup ({asked[j]} \X fetched[j])
  /\ sources' = sources \cup fetched[j]
  /\ hash' = [u \in Urls |-> IF u \in fetched[j] THEN pages[j][u] ELSE hash[u]]
  /\ Goto(j, "done")
  /\ UNCHANGED <<web, asked, lookup, research, ghosts>>

(* Nothing is stored: no page read, the hop limit instead of finalize,     *)
(* SQLite refuses (the report is answered all the same), or the agent      *)
(* fails.                                                                  *)
AnswerUnstored(j) ==
  /\ pc[j] = "research"
  /\ Goto(j, "done")
  /\ UNCHANGED <<web, db, asked, lookup, research, ghosts>>

(* Any statement may fail, and the process may die between two of them.    *)
JobFails(j) ==
  /\ pc[j] \in LookupSteps
  /\ Goto(j, "done")
  /\ UNCHANGED <<web, db, asked, lookup, research, ghosts>>

Web == \/ \E u \in Urls : PageChanges(u) \/ PageFlips(u)
       \/ Tick
Lookup(j) ==
  \/ Match(j) \/ LoadReport(j) \/ LoadSources(j) \/ Revalidated(j)
  \/ \E u \in Urls : CheckSource(j, u)
  \/ DropReport(j) \/ DropQuery(j) \/ DropOrphans(j)
Research(j) ==
  \/ \E u \in Urls : Fetch(j, u)
  \/ StoreReport(j) \/ AnswerUnstored(j)

Next ==
  \/ Web
  \/ \E j \in Jobs : \/ \E q \in Phrases : StartJob(j, q)
                     \/ Lookup(j) \/ Research(j) \/ JobFails(j)

Spec == Init /\ [][Next]_vars

-----------------------------------------------------------------------------
(* Types: the rows of the cache and the state of every job.                *)
TypeOK ==
  /\ version \in [Urls -> Versions] /\ up \subseteq Urls /\ now \in Times
  /\ queries \subseteq Phrases /\ stored \subseteq Phrases
  /\ report \in [Phrases -> Reports]
  /\ links \subseteq Phrases \X Urls /\ sources \subseteq Urls
  /\ hash \in [Urls -> Versions]
  /\ pc \in [Jobs -> Resting \cup LookupSteps \cup {"research"}]
  /\ asked \in [Jobs -> Phrases] /\ found \in [Jobs -> Phrases]
  /\ content \in [Jobs -> Reports]
  /\ linked \in [Jobs -> SUBSET Urls]
  /\ unchecked \in [Jobs -> SUBSET Urls] /\ fetched \in [Jobs -> SUBSET Urls]
  /\ seen \in [Jobs -> [Urls -> Versions]] /\ pages \in [Jobs -> [Urls -> Versions]]
  /\ began \in [Jobs -> [Urls -> Versions]] /\ beganAt \in [Jobs -> Times]
  /\ requests \in 0 .. MaxRequests

(* A cached report is answered only while it is young, or if none of its   *)
(* pages had changed when the lookup began ("Past TTL, changed source      *)
(* content invalidates the cache").  Holds while jobs follow each other    *)
(* and no two phrases have a page in common.                               *)
HitIsYoungOrUnchanged ==
  \A j \in Jobs : pc[j] = "hit" =>
    \/ beganAt[j] < content[j].created + Ttl
    \/ \A u \in content[j].urls : content[j].basis[u] >= began[j][u]

(* A young report stays ("Repeat of a semantically similar phrase (within  *)
(* TTL) returns the cached report"): only one with a local page goes.      *)
Droppable(p) == now >= report[p].created + Ttl \/ report[p].urls \cap Local # {}
YoungReportsStay ==
  [][\A p \in stored \ stored' : Droppable(p)]_vars

(* However jobs overlap and whatever pages they share: a report is answered *)
(* only if pages are linked to it, none of them local, and it was young     *)
(* when the lookup began or each of them was, at a moment after that, as    *)
(* the table web_sources had it.  The table may be ahead of the report.     *)
Unusable(j) == linked[j] = {} \/ linked[j] \cap Local # {}
HitMatchesSources ==
  \A j \in Jobs : pc[j] = "hit" =>
    /\ ~Unusable(j)
    /\ \/ beganAt[j] < content[j].created + Ttl
       \/ \A u \in linked[j] : seen[j][u] >= began[j][u]

(* Nor does a lookup drop a report for nothing, under the same: what it has *)
(* read has no page or a local one, or is past its time to live.            *)
DropReason(j) == Unusable(j) \/ ~Young(content[j])
DroppedForAReason ==
  [][\A p \in stored \ stored' : \E j \in Jobs : found[j] = p /\ DropReason(j)]_vars
=============================================================================

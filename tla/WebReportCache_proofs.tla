------------------------ MODULE WebReportCache_proofs ------------------------
(***************************************************************************)
(* What the cache of web reports guarantees for every set of jobs, phrases *)
(* and pages, every time to live, similarity and threshold, however the    *)
(* jobs overlap and share pages, whatever the pages do and whenever.       *)
(***************************************************************************)
EXTENDS WebReportCache, TLAPS

-----------------------------------------------------------------------------
LEMMA InitTypeOK == Init => TypeOK
  BY WebCacheAssumption DEF Init, TypeOK, Versions, Times, Reports, NoReport, Resting

Steps == Resting \cup LookupSteps \cup {"research"}

MoveTypeOK ==
  /\ pc \in [Jobs -> Steps]
  /\ fetched \in [Jobs -> SUBSET Urls]
  /\ pages \in [Jobs -> [Urls -> Versions]]

\* A job that turns to research, or to any step of its lookup.
LEMMA ResearchesType ==
  ASSUME MoveTypeOK, NEW j \in Jobs, Researches(j)
  PROVE  MoveTypeOK'
<1>1. [u \in Urls |-> 0] \in [Urls -> Versions]
  BY WebCacheAssumption DEF Versions
<1>2. "research" \in Steps
  BY DEF Steps
<1> QED
  BY <1>1, <1>2 DEF Researches, Goto, MoveTypeOK

LEMMA GotoType ==
  ASSUME MoveTypeOK, NEW j \in Jobs, NEW step \in Steps, Goto(j, step), UNCHANGED research
  PROVE  MoveTypeOK'
  BY DEF Goto, MoveTypeOK, research

LEMMA StepTypeOK == TypeOK /\ [Next]_vars => TypeOK'
<1> SUFFICES ASSUME TypeOK, [Next]_vars PROVE TypeOK'
  OBVIOUS
<1> DEFINE Moves(j) == Researches(j) \/ \E step \in Steps : Goto(j, step) /\ UNCHANGED research
<1>a. ASSUME NEW j \in Jobs, Moves(j) PROVE MoveTypeOK'
  <2>1. MoveTypeOK
    BY DEF TypeOK, MoveTypeOK, Steps
  <2> QED
    BY <1>a, <2>1, ResearchesType, GotoType
<1>b. \A s \in {"idle", "hit", "done", "match", "report", "sources", "revalidate",
               "drop_report", "drop_query", "drop_orphans", "research"} : s \in Steps
  BY DEF Steps, Resting, LookupSteps
<1>c. TypeOK' <=> /\ MoveTypeOK'
                  /\ version' \in [Urls -> Versions] /\ up' \subseteq Urls /\ now' \in Times
                  /\ queries' \subseteq Phrases /\ stored' \subseteq Phrases
                  /\ report' \in [Phrases -> Reports]
                  /\ links' \subseteq Phrases \X Urls /\ sources' \subseteq Urls
                  /\ hash' \in [Urls -> Versions]
                  /\ asked' \in [Jobs -> Phrases] /\ found' \in [Jobs -> Phrases]
                  /\ content' \in [Jobs -> Reports]
                  /\ linked' \in [Jobs -> SUBSET Urls]
                  /\ unchecked' \in [Jobs -> SUBSET Urls]
                  /\ seen' \in [Jobs -> [Urls -> Versions]]
                  /\ began' \in [Jobs -> [Urls -> Versions]] /\ beganAt' \in [Jobs -> Times]
                  /\ requests' \in 0 .. MaxRequests
  BY DEF TypeOK, MoveTypeOK, Steps
<1>d. MoveTypeOK
  BY DEF TypeOK, MoveTypeOK, Steps
<1> USE DEF TypeOK, web, db, ghosts, lookup
<1>1. ASSUME NEW u \in Urls, PageChanges(u) PROVE TypeOK'
  BY <1>1, <1>d, WebCacheAssumption DEF PageChanges, Versions, research
<1>2. ASSUME NEW u \in Urls, PageFlips(u) PROVE TypeOK'
  BY <1>2, <1>d DEF PageFlips, research
<1>3. CASE Tick
  BY <1>3, <1>d, WebCacheAssumption DEF Tick, Times, research
<1>4. ASSUME NEW j \in Jobs, NEW q \in Phrases, StartJob(j, q)
      PROVE  TypeOK'
  <2>1. Moves(j)
    BY <1>4, <1>b DEF StartJob
  <2>2. requests' \in 0 .. MaxRequests
    BY <1>4, WebCacheAssumption DEF StartJob
  <2>3. /\ asked' \in [Jobs -> Phrases]
        /\ began' \in [Jobs -> [Urls -> Versions]] /\ beganAt' \in [Jobs -> Times]
    BY <1>4 DEF StartJob
  <2>4. UNCHANGED <<web, db, lookup>>
    BY <1>4 DEF StartJob
  <2> QED
    BY <1>a, <1>c, <2>1, <2>2, <2>3, <2>4
<1>5. ASSUME NEW j \in Jobs, Match(j) PROVE TypeOK'
  <2>1. Moves(j)
    BY <1>5, <1>b DEF Match
  <2>2. found' \in [Jobs -> Phrases]
    BY <1>5 DEF Match, BestMatches
  <2>3. UNCHANGED <<web, db, asked, content, linked, unchecked, seen, ghosts>>
    BY <1>5 DEF Match
  <2> QED
    BY <1>a, <1>c, <2>1, <2>2, <2>3
<1>6. ASSUME NEW j \in Jobs, LoadReport(j) PROVE TypeOK'
  <2>1. Moves(j)
    BY <1>6, <1>b DEF LoadReport
  <2>2. content' \in [Jobs -> Reports]
    BY <1>6 DEF LoadReport
  <2>3. UNCHANGED <<web, db, asked, found, linked, unchecked, seen, ghosts>>
    BY <1>6 DEF LoadReport
  <2> QED
    BY <1>a, <1>c, <2>1, <2>2, <2>3
<1>7. ASSUME NEW j \in Jobs, LoadSources(j) PROVE TypeOK'
  <2>1. Moves(j)
    BY <1>7, <1>b, Zenon DEF LoadSources
  <2>2. /\ linked' \in [Jobs -> SUBSET Urls]
        /\ unchecked' \in [Jobs -> SUBSET Urls] /\ seen' \in [Jobs -> [Urls -> Versions]]
    BY <1>7 DEF LoadSources, LinkedUrls
  <2>3. UNCHANGED <<web, db, asked, found, content, ghosts>>
    BY <1>7 DEF LoadSources
  <2> QED
    BY <1>a, <1>c, <2>1, <2>2, <2>3
<1>8. ASSUME NEW j \in Jobs, NEW u \in Urls, CheckSource(j, u) PROVE TypeOK'
  <2>1. MoveTypeOK'
    <3>1. CASE ~Unchanged(u, seen[j][u])
      BY <1>8, <3>1, <1>a, <1>b DEF CheckSource
    <3>2. CASE Unchanged(u, seen[j][u])
      BY <1>8, <3>2, <1>d DEF CheckSource, MoveTypeOK, research
    <3> QED
      BY <3>1, <3>2
  <2>2. unchecked' \in [Jobs -> SUBSET Urls]
    <3>1. \/ unchecked' = unchecked
          \/ unchecked' = [unchecked EXCEPT ![j] = unchecked[j] \ {u}]
      BY <1>8, Zenon DEF CheckSource
    <3> HIDE DEF TypeOK
    <3>2. unchecked \in [Jobs -> SUBSET Urls]
      BY DEF TypeOK
    <3>3. unchecked[j] \ {u} \in SUBSET Urls
      BY <3>2
    <3>4. CASE unchecked' = [unchecked EXCEPT ![j] = unchecked[j] \ {u}]
      BY <3>2, <3>3, <3>4, Zenon
    <3> QED
      BY <3>1, <3>2, <3>4
  <2>3. UNCHANGED <<web, db, asked, found, content, linked, seen, ghosts>>
    BY <1>8 DEF CheckSource
  <2> QED
    BY <1>c, <2>1, <2>2, <2>3
<1>9. ASSUME NEW j \in Jobs, Revalidated(j) \/ AnswerUnstored(j) \/ JobFails(j) PROVE TypeOK'
  BY <1>9, <1>a, <1>b, <1>c DEF Revalidated, AnswerUnstored, JobFails
<1>10. ASSUME NEW j \in Jobs, DropReport(j) PROVE TypeOK'
  BY <1>10, <1>a, <1>b, <1>c DEF DropReport
<1>11. ASSUME NEW j \in Jobs, DropQuery(j) PROVE TypeOK'
  BY <1>11, <1>a, <1>b, <1>c DEF DropQuery
<1>12. ASSUME NEW j \in Jobs, DropOrphans(j) PROVE TypeOK'
  BY <1>12, <1>a, <1>c DEF DropOrphans
<1>13. ASSUME NEW j \in Jobs, NEW u \in Urls, Fetch(j, u) PROVE TypeOK'
  BY <1>13, <1>c, <1>d DEF Fetch, MoveTypeOK
<1>14. ASSUME NEW j \in Jobs, StoreReport(j) PROVE TypeOK'
  <2>1. [basis |-> pages[j], urls |-> fetched[j], created |-> now] \in Reports
    BY DEF Reports
  <2>2. Moves(j)
    BY <1>14, <1>b DEF StoreReport
  <2>3. /\ queries' \subseteq Phrases /\ stored' \subseteq Phrases /\ sources' \subseteq Urls
        /\ report' \in [Phrases -> Reports]
    BY <1>14, <2>1 DEF StoreReport
  <2>4. links' \subseteq Phrases \X Urls
    BY <1>14 DEF StoreReport
  <2>5. hash' \in [Urls -> Versions]
    BY <1>14 DEF StoreReport
  <2>6. UNCHANGED <<web, asked, lookup, ghosts>>
    BY <1>14 DEF StoreReport
  <2> QED
    BY <1>a, <1>c, <2>2, <2>3, <2>4, <2>5, <2>6
<1>15. CASE UNCHANGED vars
  BY <1>15 DEF vars, research
<1>16. ASSUME NEW j \in Jobs, Lookup(j) PROVE TypeOK'
  BY <1>16, <1>5, <1>6, <1>7, <1>8, <1>9, <1>10, <1>11, <1>12 DEF Lookup
<1>17. ASSUME NEW j \in Jobs, Research(j) PROVE TypeOK'
  BY <1>17, <1>9, <1>13, <1>14 DEF Research
<1> QED
  BY <1>1, <1>2, <1>3, <1>4, <1>9, <1>15, <1>16, <1>17 DEF Next, Web

-----------------------------------------------------------------------------
\* No lookup is ahead of the pages or of the clock.
PastInv ==
  \A j \in Jobs : beganAt[j] <= now /\ \A u \in Urls : began[j][u] <= version[u]

\* The pages a lookup has checked are no older than the lookup; what it checks
\* is past its time, and so is what it drops, or it has no page or a local one.
JobInv(j) ==
  /\ pc[j] = "revalidate" =>
       /\ ~Young(content[j]) /\ ~Unusable(j)
       /\ unchecked[j] \subseteq linked[j]
       /\ \A u \in linked[j] \ unchecked[j] : seen[j][u] >= began[j][u]
  /\ pc[j] = "hit" =>
       /\ ~Unusable(j)
       /\ \/ beganAt[j] < content[j].created + Ttl
          \/ \A u \in linked[j] : seen[j][u] >= began[j][u]
  /\ pc[j] = "drop_report" => DropReason(j)

IInv == TypeOK /\ PastInv /\ \A j \in Jobs : JobInv(j)

LEMMA InitIInv == Init => IInv
<1> SUFFICES ASSUME Init PROVE IInv
  OBVIOUS
<1>1. TypeOK
  BY InitTypeOK
<1>2. PastInv
  <2>1. 0 <= 0
    OBVIOUS
  <2>2. \A j \in Jobs : beganAt[j] = 0 /\ began[j] = version
    BY DEF Init
  <2>3. now = 0 /\ \A u \in Urls : version[u] = 0
    BY DEF Init
  <2> QED
    BY <2>1, <2>2, <2>3 DEF PastInv
<1>3. \A j \in Jobs : JobInv(j)
  BY DEF Init, JobInv
<1> QED
  BY <1>1, <1>2, <1>3 DEF IInv

\* The clock only runs forward: a report past its time stays so.
LEMMA Forward ==
  ASSUME TypeOK, TypeOK', [Next]_vars
  PROVE  /\ now <= now' /\ \A u \in Urls : version[u] <= version'[u]
         /\ \A r \in Reports : ~Young(r) => ~Young(r)'
<1>1. now \in Nat /\ \A u \in Urls : version[u] \in Nat
  BY DEF TypeOK, Times, Versions
<1>2. now' \in Nat
  BY DEF TypeOK, Times
<1>3. ASSUME NEW u \in Urls, PageChanges(u)
      PROVE  now' = now /\ \A v \in Urls : version[v] <= version'[v]
  BY <1>1, <1>3 DEF PageChanges, TypeOK
<1>4. Tick => now' = now + 1 /\ UNCHANGED version
  BY DEF Tick
<1>6. ASSUME NEW j \in Jobs,
             Lookup(j) \/ Research(j) \/ JobFails(j) \/ \E q \in Phrases : StartJob(j, q)
      PROVE  UNCHANGED <<now, version>>
  BY <1>6 DEF Lookup, Research, StartJob, Match, LoadReport, LoadSources, CheckSource,
     Revalidated, DropReport, DropQuery, DropOrphans, Fetch, StoreReport, AnswerUnstored,
     JobFails, web
<1>7. now <= now' /\ \A u \in Urls : version[u] <= version'[u]
  <2>1. now <= now /\ \A u \in Urls : version[u] <= version[u]
    BY <1>1
  <2>2. CASE UNCHANGED <<now, version>>
    BY <2>1, <2>2
  <2>3. CASE \E u \in Urls : PageChanges(u)
    BY <1>3, <2>1, <2>3
  <2>4. CASE Tick
    BY <1>1, <1>4, <2>1, <2>4 DEF Tick
  <2>5. \/ UNCHANGED <<now, version>>
        \/ \E u \in Urls : PageChanges(u)
        \/ Tick
    <3>1. CASE UNCHANGED vars
      BY <3>1 DEF vars, web
    <3>2. CASE Next
      BY <1>6, <3>2 DEF Next, Web, PageFlips
    <3> QED
      BY <3>1, <3>2
  <2> QED
    BY <2>2, <2>3, <2>4, <2>5
<1>8. ASSUME NEW r \in Reports, ~Young(r) PROVE ~Young(r)'
  <2>1. r.created \in Nat /\ Ttl \in Nat
    BY WebCacheAssumption DEF Reports, Times
  <2> QED
    BY <1>1, <1>2, <1>7, <1>8, <2>1 DEF Young
<1> QED
  BY <1>7, <1>8

\* A job that does not move keeps its invariant.
LEMMA KeptJob ==
  ASSUME NEW j \in Jobs, JobInv(j), ~Young(content[j]) => ~Young(content[j])',
         pc'[j] = pc[j], content'[j] = content[j], linked'[j] = linked[j],
         unchecked'[j] = unchecked[j], seen'[j] = seen[j],
         began'[j] = began[j], beganAt'[j] = beganAt[j]
  PROVE  JobInv(j)'
  BY DEF JobInv, DropReason, Unusable, Young

\* A step of job j leaves what the other jobs know alone.
LEMMA OthersKept ==
  ASSUME TypeOK, NEW j \in Jobs,
         Lookup(j) \/ Research(j) \/ JobFails(j) \/ \E q \in Phrases : StartJob(j, q)
  PROVE  /\ UNCHANGED web
         /\ \A k \in Jobs \ {j} :
              /\ pc'[k] = pc[k] /\ content'[k] = content[k]
              /\ linked'[k] = linked[k] /\ unchecked'[k] = unchecked[k]
              /\ seen'[k] = seen[k]
              /\ began'[k] = began[k] /\ beganAt'[k] = beganAt[k]
<1> USE DEF TypeOK
<1>1. CASE Match(j) \/ LoadReport(j) \/ Revalidated(j) \/ DropReport(j) \/ DropQuery(j)
           \/ DropOrphans(j)
  BY <1>1 DEF Match, LoadReport, Revalidated, DropReport, DropQuery, DropOrphans, Researches,
     Goto, lookup, ghosts
<1>2. CASE LoadSources(j)
  BY <1>2 DEF LoadSources, Goto, ghosts
<1>3. ASSUME NEW u \in Urls, CheckSource(j, u)
      PROVE  /\ UNCHANGED web
             /\ \A k \in Jobs \ {j} :
                  /\ pc'[k] = pc[k] /\ content'[k] = content[k]
                  /\ linked'[k] = linked[k] /\ unchecked'[k] = unchecked[k]
                  /\ seen'[k] = seen[k]
                  /\ began'[k] = began[k] /\ beganAt'[k] = beganAt[k]
  BY <1>3 DEF CheckSource, Goto, ghosts
<1>4. CASE Research(j) \/ JobFails(j)
  BY <1>4 DEF Research, Fetch, StoreReport, AnswerUnstored, JobFails, Goto, lookup, ghosts
<1>5. CASE \E q \in Phrases : StartJob(j, q)
  BY <1>5 DEF StartJob, Researches, Goto, lookup
<1> QED
  BY <1>1, <1>2, <1>3, <1>4, <1>5 DEF Lookup

LEMMA StepPast == TypeOK /\ TypeOK' /\ PastInv /\ [Next]_vars => PastInv'
<1> SUFFICES ASSUME TypeOK, TypeOK', PastInv, [Next]_vars PROVE PastInv'
  OBVIOUS
<1>1. /\ now \in Nat /\ now' \in Nat /\ now <= now'
      /\ \A u \in Urls : /\ version[u] \in Nat /\ version'[u] \in Nat
                         /\ version[u] <= version'[u]
  BY Forward DEF TypeOK, Times, Versions
<1>2. \A j \in Jobs : beganAt[j] \in Nat /\ \A u \in Urls : began[j][u] \in Nat
  <2>1. beganAt \in [Jobs -> Nat] /\ began \in [Jobs -> [Urls -> Nat]]
    BY DEF TypeOK, Times, Versions
  <2> QED
    BY <2>1
<1>3. ASSUME NEW j \in Jobs, NEW q \in Phrases, StartJob(j, q) PROVE PastInv'
  <2>1. /\ began' = [began EXCEPT ![j] = version] /\ beganAt' = [beganAt EXCEPT ![j] = now]
        /\ UNCHANGED <<version, now>>
    BY <1>3 DEF StartJob, web
  <2>2. \A k \in Jobs : /\ began'[k] = IF k = j THEN version ELSE began[k]
                        /\ beganAt'[k] = IF k = j THEN now ELSE beganAt[k]
    BY <2>1 DEF TypeOK
  <2> QED
    BY <1>1, <2>1, <2>2 DEF PastInv
<1>4. ASSUME UNCHANGED <<began, beganAt>> PROVE PastInv'
  BY <1>1, <1>2, <1>4 DEF PastInv
<1> QED
  BY <1>3, <1>4 DEF Next, Web, PageChanges, PageFlips, Tick, Lookup, Research, Match,
     LoadReport, LoadSources, CheckSource, Revalidated, DropReport, DropQuery, DropOrphans,
     Fetch, StoreReport, AnswerUnstored, JobFails, vars, ghosts

LEMMA StepIInv == IInv /\ [Next]_vars => IInv'
<1> SUFFICES ASSUME IInv, [Next]_vars PROVE IInv'
  OBVIOUS
<1>a. TypeOK /\ TypeOK' /\ PastInv /\ PastInv' /\ \A j \in Jobs : JobInv(j)
  BY StepTypeOK, StepPast DEF IInv
<1>b. \A j \in Jobs : content'[j] = content[j]
        => (~Young(content[j]) => ~Young(content[j])')
  <2> SUFFICES ASSUME NEW j \in Jobs, ~Young(content[j]), content'[j] = content[j]
               PROVE  ~Young(content[j])'
    OBVIOUS
  <2>1. content[j] \in Reports
    BY <1>a DEF TypeOK
  <2>2. \A r \in Reports : ~Young(r) => ~Young(r)'
    BY <1>a, Forward
  <2> QED
    BY <2>1, <2>2 DEF Young
<1> SUFFICES \A j \in Jobs : JobInv(j)'
  BY <1>a DEF IInv
<1>1. ASSUME Web, NEW j \in Jobs PROVE JobInv(j)'
  <2>1. UNCHANGED <<pc, content, linked, unchecked, seen, began, beganAt>>
    BY <1>1 DEF Web, PageChanges, PageFlips, Tick, lookup, ghosts
  <2> QED
    BY <1>a, <1>b, <2>1, KeptJob
<1>2. ASSUME NEW j \in Jobs,
             Lookup(j) \/ Research(j) \/ JobFails(j) \/ \E q \in Phrases : StartJob(j, q),
             NEW k \in Jobs
      PROVE  JobInv(k)'
  <2>1. UNCHANGED web
    BY <1>a, <1>2, OthersKept
  <2>2. CASE k # j
    BY <1>a, <1>b, <1>2, <2>2, OthersKept, KeptJob
  <2> SUFFICES JobInv(j)'
    BY <2>2
  <2>3. JobInv(j)
    BY <1>a
  <2>4. ASSUME pc'[j] \notin {"revalidate", "hit", "drop_report"} PROVE JobInv(j)'
    BY <2>4 DEF JobInv
  <2>5. CASE LoadSources(j)
    <3>1. /\ UNCHANGED <<content, began, beganAt, now>>
          /\ linked'[j] = LinkedUrls(found[j]) /\ unchecked'[j] = linked'[j]
      BY <1>a, <2>5 DEF LoadSources, web, ghosts, TypeOK
    <3>2. \/ pc'[j] = "drop_report" /\ Unusable(j)'
          \/ pc'[j] = "hit" /\ ~Unusable(j)' /\ Young(content[j])
          \/ pc'[j] = "revalidate" /\ ~Unusable(j)' /\ ~Young(content[j])
      BY <1>a, <2>5, <3>1 DEF LoadSources, Goto, Unusable, TypeOK
    <3>3. Young(content[j]) => beganAt[j] < content[j].created + Ttl
      <4>1. content[j] \in Reports /\ beganAt[j] \in Nat /\ now \in Nat /\ Ttl \in Nat
        BY <1>a, WebCacheAssumption DEF TypeOK, Times
      <4>2. content[j].created \in Nat
        BY <4>1 DEF Reports, Times
      <4> QED
        BY <1>a, <4>1, <4>2 DEF Young, PastInv
    <3>4. Young(content[j])' <=> Young(content[j])
      BY <3>1 DEF Young
    <3> QED
      BY <3>1, <3>2, <3>3, <3>4 DEF JobInv, DropReason
  <2>6. ASSUME NEW u \in Urls, CheckSource(j, u) PROVE JobInv(j)'
    <3>1. /\ UNCHANGED <<content, linked, seen, began, beganAt, now>>
          /\ pc[j] = "revalidate" /\ u \in unchecked[j] /\ u \in linked[j]
          /\ ~Young(content[j])
      BY <2>3, <2>6 DEF CheckSource, web, ghosts, JobInv
    <3>2. ~Young(content[j])' /\ (Unusable(j)' <=> Unusable(j))
      BY <3>1 DEF Young, Unusable
    <3>3. CASE ~Unchanged(u, seen[j][u])
      <4>1. pc'[j] = "drop_report"
        BY <1>a, <2>6, <3>3 DEF CheckSource, Goto, TypeOK
      <4> QED
        BY <3>1, <3>2, <4>1 DEF JobInv, DropReason
    <3>4. CASE Unchanged(u, seen[j][u])
      <4>1. pc'[j] = "revalidate" /\ unchecked'[j] = unchecked[j] \ {u}
        BY <1>a, <2>6, <3>1, <3>4 DEF CheckSource, TypeOK
      <4>2. seen[j][u] >= began[j][u]
        <5>1. version[u] = seen[j][u] /\ began[j][u] <= version[u]
          BY <1>a, <3>4 DEF Unchanged, PastInv
        <5>2. began[j][u] \in Nat /\ version[u] \in Nat
          BY <1>a DEF TypeOK, Versions
        <5> QED
          BY <5>1, <5>2
      <4> QED
        BY <2>3, <3>1, <3>2, <4>1, <4>2 DEF JobInv
    <3> QED
      BY <3>3, <3>4
  <2>7. CASE Revalidated(j)
    <3>1. /\ UNCHANGED <<content, linked, seen, began, beganAt>>
          /\ pc[j] = "revalidate" /\ unchecked[j] = {} /\ pc'[j] = "hit"
      BY <1>a, <2>7 DEF Revalidated, Goto, lookup, ghosts, TypeOK
    <3> QED
      BY <2>3, <3>1 DEF JobInv, Unusable
  <2>8. CASE Match(j) \/ LoadReport(j) \/ DropReport(j) \/ DropQuery(j) \/ DropOrphans(j)
    <3>1. pc'[j] \in {"report", "sources", "drop_query", "drop_orphans", "research"}
      BY <1>a, <2>8 DEF Match, LoadReport, DropReport, DropQuery, DropOrphans, Researches,
         Goto, TypeOK
    <3> QED
      BY <2>4, <3>1
  <2>9. CASE Research(j) \/ JobFails(j)
    <3>1. pc'[j] \in {"research", "done"}
      BY <1>a, <2>9 DEF Research, Fetch, StoreReport, AnswerUnstored, JobFails, Goto, TypeOK
    <3> QED
      BY <2>4, <3>1
  <2>10. CASE \E q \in Phrases : StartJob(j, q)
    <3>1. pc'[j] \in {"research", "match"}
      BY <1>a, <2>10 DEF StartJob, Researches, Goto, TypeOK
    <3> QED
      BY <2>4, <3>1
  <2> QED
    BY <1>2, <2>5, <2>6, <2>7, <2>8, <2>9, <2>10 DEF Lookup
<1>3. ASSUME UNCHANGED vars, NEW j \in Jobs PROVE JobInv(j)'
  BY <1>a, <1>b, <1>3, KeptJob DEF vars, lookup, ghosts
<1> QED
  BY <1>1, <1>2, <1>3 DEF Next

LEMMA Invariance == Spec => []IInv
  BY InitIInv, StepIInv, PTL DEF Spec

-----------------------------------------------------------------------------
\* The rows of the cache and the jobs keep their types, however many jobs run
\* at once and whatever they share.
THEOREM TypeCorrect == Spec => []TypeOK
  BY InitTypeOK, StepTypeOK, PTL DEF Spec

\* With overlapping jobs and shared pages that change, go and come at any
\* moment, a cached report is answered only if it has pages, none local, and
\* it was young when the lookup began or each page was, no earlier than that,
\* as the lookup read it from web_sources.
THEOREM HitsMatchSources == Spec => []HitMatchesSources
<1>1. IInv => HitMatchesSources
  BY DEF IInv, JobInv, HitMatchesSources
<1> QED
  BY <1>1, Invariance, PTL

\* Under the same conditions a report leaves the cache only by a lookup that
\* found it past its time, without a page or with a local one.
THEOREM DropsHaveAReason == Spec => DroppedForAReason
<1>1. IInv /\ [Next]_vars
      => [\A p \in stored \ stored' : \E j \in Jobs : found[j] = p /\ DropReason(j)]_vars
  <2> SUFFICES ASSUME IInv, [Next]_vars, NEW p \in stored \ stored'
               PROVE  \E j \in Jobs : found[j] = p /\ DropReason(j)
    OBVIOUS
  <2>1. PICK j \in Jobs : DropReport(j)
    BY DEF Next, Web, Lookup, Research, PageChanges, PageFlips, Tick, StartJob, Match,
       LoadReport, LoadSources, CheckSource, Revalidated, DropQuery, DropOrphans, Fetch,
       StoreReport, AnswerUnstored, JobFails, vars, db
  <2>2. p = found[j] /\ pc[j] = "drop_report"
    BY <2>1 DEF DropReport
  <2>3. DropReason(j)
    BY <2>2 DEF IInv, JobInv
  <2> QED
    BY <2>2, <2>3
<1> QED
  BY <1>1, Invariance, PTL DEF Spec, DroppedForAReason
==============================================================================

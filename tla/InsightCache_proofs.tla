------------------------- MODULE InsightCache_proofs -------------------------
(***************************************************************************)
(* What the cache of scout reports guarantees for every set of jobs,       *)
(* phrases and files, however they overlap and share files, whoever edits  *)
(* them and whenever.                                                      *)
(***************************************************************************)
EXTENDS InsightCache, TLAPS

-----------------------------------------------------------------------------
Steps == Resting \cup LookupSteps \cup {"scouting"}

ScoutTypeOK ==
  /\ pc \in [Jobs -> Steps]
  /\ touched \in [Jobs -> SUBSET Files]
  /\ read \in [Jobs -> [Files -> Versions]]

\* A job that turns to scouting, or to any step of its lookup.
LEMMA ScoutsType ==
  ASSUME ScoutTypeOK, NEW j \in Jobs, Scouts(j)
  PROVE  ScoutTypeOK'
<1>1. [f \in Files |-> 0] \in [Files -> Versions]
  BY CacheAssumption DEF Versions
<1>2. "scouting" \in Steps
  BY DEF Steps
<1> QED
  BY <1>1, <1>2 DEF Scouts, Goto, ScoutTypeOK

LEMMA GotoType ==
  ASSUME ScoutTypeOK, NEW j \in Jobs, NEW step \in Steps, Goto(j, step), UNCHANGED scout
  PROVE  ScoutTypeOK'
  BY DEF Goto, ScoutTypeOK, scout

LEMMA InitTypeOK == Init => TypeOK
  BY CacheAssumption DEF Init, TypeOK, Versions, Insights, NoInsight, Resting

LEMMA StepTypeOK == TypeOK /\ [Next]_vars => TypeOK'
<1> SUFFICES ASSUME TypeOK, [Next]_vars PROVE TypeOK'
  OBVIOUS
<1> DEFINE Moves(j) == Scouts(j) \/ \E step \in Steps : Goto(j, step) /\ UNCHANGED scout
<1>a. ASSUME NEW j \in Jobs, Moves(j) PROVE ScoutTypeOK'
  <2>1. ScoutTypeOK
    BY DEF TypeOK, ScoutTypeOK, Steps
  <2> QED
    BY <1>a, <2>1, ScoutsType, GotoType
<1>b. \A s \in {"idle", "hit", "done", "match", "content", "deps", "check",
               "drop_insight", "drop_query", "scouting"} : s \in Steps
  BY DEF Steps, Resting, LookupSteps
<1>c. TypeOK' <=> /\ ScoutTypeOK'
                  /\ version' \in [Files -> Versions] /\ there' \subseteq Files
                  /\ queries' \subseteq Phrases /\ stored' \subseteq Phrases
                  /\ insight' \in [Phrases -> Insights]
                  /\ links' \subseteq Phrases \X Files
                  /\ node' \in [Files -> Versions]
                  /\ asked' \in [Jobs -> Phrases] /\ found' \in [Jobs -> Phrases]
                  /\ content' \in [Jobs -> Insights]
                  /\ linked' \in [Jobs -> SUBSET Files]
                  /\ unchecked' \in [Jobs -> SUBSET Files]
                  /\ snap' \in [Jobs -> [Files -> Versions]]
                  /\ began' \in [Jobs -> [Files -> Versions]]
                  /\ requests' \in 0 .. MaxRequests
  BY DEF TypeOK, ScoutTypeOK, Steps
<1>d. ScoutTypeOK
  BY DEF TypeOK, ScoutTypeOK, Steps
<1> USE DEF TypeOK, tree, db, ghosts, lookup
<1>1. ASSUME NEW f \in Files, Change(f) PROVE TypeOK'
  BY <1>1, <1>d, CacheAssumption DEF Change, Versions, scout
<1>2. ASSUME NEW j \in Jobs, NEW q \in Phrases, StartJob(j, q)
      PROVE  TypeOK'
  <2>1. Moves(j)
    BY <1>2, <1>b DEF StartJob
  <2>2. requests' \in 0 .. MaxRequests
    BY <1>2, CacheAssumption DEF StartJob
  <2>3. asked' \in [Jobs -> Phrases] /\ began' \in [Jobs -> [Files -> Versions]]
    BY <1>2 DEF StartJob
  <2>4. UNCHANGED <<tree, db, lookup>>
    BY <1>2 DEF StartJob
  <2> QED
    BY <1>a, <1>c, <2>1, <2>2, <2>3, <2>4
<1>3. ASSUME NEW j \in Jobs, Match(j) PROVE TypeOK'
  <2>1. Moves(j)
    BY <1>3, <1>b DEF Match
  <2>2. found' \in [Jobs -> Phrases]
    BY <1>3 DEF Match, BestMatches
  <2>3. UNCHANGED <<tree, db, asked, content, linked, unchecked, snap, ghosts>>
    BY <1>3 DEF Match
  <2> QED
    BY <1>a, <1>c, <2>1, <2>2, <2>3
<1>4. ASSUME NEW j \in Jobs, LoadContent(j) PROVE TypeOK'
  <2>1. Moves(j)
    BY <1>4, <1>b DEF LoadContent
  <2>2. content' \in [Jobs -> Insights]
    BY <1>4 DEF LoadContent
  <2>3. UNCHANGED <<tree, db, asked, found, linked, unchecked, snap, ghosts>>
    BY <1>4 DEF LoadContent
  <2> QED
    BY <1>a, <1>c, <2>1, <2>2, <2>3
<1>5. ASSUME NEW j \in Jobs, LoadDependencies(j) PROVE TypeOK'
  BY <1>5, <1>a, <1>b, <1>c DEF LoadDependencies, LinkedFiles
<1>6. ASSUME NEW j \in Jobs, CheckCitation(j) PROVE TypeOK'
  BY <1>6, <1>a, <1>b, <1>c DEF CheckCitation
<1>7. ASSUME NEW j \in Jobs, NEW f \in Files, CheckFile(j, f) PROVE TypeOK'
  <2>1. ScoutTypeOK'
    <3>1. CASE Dirty(f, snap[j][f])
      BY <1>7, <3>1, <1>a, <1>b DEF CheckFile
    <3>2. CASE ~Dirty(f, snap[j][f])
      BY <1>7, <3>2, <1>d DEF CheckFile, ScoutTypeOK, scout
    <3> QED
      BY <3>1, <3>2
  <2>2. unchecked' \in [Jobs -> SUBSET Files]
    <3>1. \/ unchecked' = unchecked
          \/ unchecked' = [unchecked EXCEPT ![j] = unchecked[j] \ {f}]
      BY <1>7, Zenon DEF CheckFile
    <3> HIDE DEF TypeOK
    <3>2. unchecked \in [Jobs -> SUBSET Files]
      BY DEF TypeOK
    <3>3. unchecked[j] \ {f} \in SUBSET Files
      BY <3>2
    <3>4. CASE unchecked' = [unchecked EXCEPT ![j] = unchecked[j] \ {f}]
      BY <3>2, <3>3, <3>4, Zenon
    <3> QED
      BY <3>1, <3>2, <3>4
  <2>3. UNCHANGED <<tree, db, asked, found, content, linked, snap, ghosts>>
    BY <1>7 DEF CheckFile
  <2> QED
    BY <1>c, <2>1, <2>2, <2>3
<1>8. ASSUME NEW j \in Jobs, DropInsight(j) PROVE TypeOK'
  BY <1>8, <1>a, <1>b, <1>c DEF DropInsight
<1>9. ASSUME NEW j \in Jobs, DropQuery(j) PROVE TypeOK'
  BY <1>9, <1>a, <1>c DEF DropQuery
<1>10. ASSUME NEW j \in Jobs, NEW f \in Files, Touch(j, f) PROVE TypeOK'
  BY <1>10, <1>c, <1>d DEF Touch, ScoutTypeOK
<1>11. ASSUME NEW j \in Jobs, NEW cites \in BOOLEAN, StoreInsight(j, cites) PROVE TypeOK'
  <2>1. [basis |-> read[j], files |-> touched[j], cites |-> cites] \in Insights
    BY DEF Insights
  <2>2. Moves(j)
    BY <1>11, <1>b DEF StoreInsight
  <2>3. /\ queries' \subseteq Phrases /\ stored' \subseteq Phrases
        /\ insight' \in [Phrases -> Insights]
    BY <1>11, <2>1 DEF StoreInsight
  <2>4. links' \subseteq Phrases \X Files
    BY <1>11 DEF StoreInsight
  <2>5. node' \in [Files -> Versions]
    BY <1>11 DEF StoreInsight
  <2>6. UNCHANGED <<tree, asked, lookup, ghosts>>
    BY <1>11 DEF StoreInsight
  <2> QED
    BY <1>a, <1>c, <2>2, <2>3, <2>4, <2>5, <2>6
<1>12. ASSUME NEW j \in Jobs, AnswerUnstored(j) \/ JobFails(j) PROVE TypeOK'
  BY <1>12, <1>a, <1>b, <1>c DEF AnswerUnstored, JobFails
<1>13. CASE UNCHANGED vars
  BY <1>13 DEF vars, scout
<1>14. ASSUME NEW j \in Jobs, Lookup(j) PROVE TypeOK'
  BY <1>14, <1>3, <1>4, <1>5, <1>6, <1>7, <1>8, <1>9 DEF Lookup
<1>15. ASSUME NEW j \in Jobs, Scouting(j) PROVE TypeOK'
  BY <1>15, <1>10, <1>11, <1>12 DEF Scouting
<1> QED
  BY <1>1, <1>2, <1>12, <1>13, <1>14, <1>15 DEF Next

-----------------------------------------------------------------------------
\* No snapshot and no lookup is ahead of the working tree.
PastInv ==
  /\ \A f \in Files : node[f] <= version[f]
  /\ \A j \in Jobs, f \in Files : began[j][f] <= version[f] /\ snap[j][f] <= version[f]

\* What a lookup has checked is no older than the lookup, and what it is
\* about to drop it drops for a reason, which lasts: a file that has left its
\* snapshot never returns to it.
JobInv(j) ==
  /\ pc[j] = "check" =>
       /\ unchecked[j] \subseteq linked[j]
       /\ \A f \in linked[j] \ unchecked[j] : snap[j][f] >= began[j][f]
  /\ pc[j] = "hit" =>
       content[j].cites /\ \A f \in linked[j] : snap[j][f] >= began[j][f]
  /\ pc[j] = "drop_insight" => DropReason(j)

IInv == TypeOK /\ PastInv /\ \A j \in Jobs : JobInv(j)

LEMMA InitIInv == Init => IInv
<1> SUFFICES ASSUME Init PROVE IInv
  OBVIOUS
<1>1. TypeOK
  BY InitTypeOK
<1>2. PastInv
  BY DEF Init, PastInv
<1>3. \A j \in Jobs : JobInv(j)
  BY DEF Init, JobInv
<1> QED
  BY <1>1, <1>2, <1>3 DEF IInv

\* A job that does not move keeps its invariant while the tree rests.
LEMMA KeptJob ==
  ASSUME NEW j \in Jobs, JobInv(j), UNCHANGED tree,
         pc'[j] = pc[j], content'[j] = content[j], linked'[j] = linked[j],
         unchecked'[j] = unchecked[j], snap'[j] = snap[j], began'[j] = began[j]
  PROVE  JobInv(j)'
  BY DEF JobInv, DropReason, Dirty, tree

\* A step of job j leaves what the other jobs know alone.
LEMMA OthersKept ==
  ASSUME TypeOK, NEW j \in Jobs,
         Lookup(j) \/ Scouting(j) \/ JobFails(j) \/ \E q \in Phrases : StartJob(j, q)
  PROVE  /\ UNCHANGED tree
         /\ \A k \in Jobs \ {j} :
              /\ pc'[k] = pc[k] /\ content'[k] = content[k]
              /\ linked'[k] = linked[k] /\ unchecked'[k] = unchecked[k]
              /\ snap'[k] = snap[k] /\ began'[k] = began[k]
<1> USE DEF TypeOK
<1>1. CASE Match(j) \/ LoadContent(j) \/ CheckCitation(j) \/ DropInsight(j) \/ DropQuery(j)
  BY <1>1 DEF Match, LoadContent, CheckCitation, DropInsight, DropQuery, Scouts, Goto,
     lookup, ghosts
<1>2. CASE LoadDependencies(j)
  BY <1>2 DEF LoadDependencies, Goto, ghosts
<1>3. ASSUME NEW f \in Files, CheckFile(j, f)
      PROVE  /\ UNCHANGED tree
             /\ \A k \in Jobs \ {j} :
                  /\ pc'[k] = pc[k] /\ content'[k] = content[k]
                  /\ linked'[k] = linked[k] /\ unchecked'[k] = unchecked[k]
                  /\ snap'[k] = snap[k] /\ began'[k] = began[k]
  BY <1>3 DEF CheckFile, Goto, ghosts
<1>4. CASE Scouting(j) \/ JobFails(j)
  BY <1>4 DEF Scouting, Touch, StoreInsight, AnswerUnstored, JobFails, Goto, lookup, ghosts
<1>5. CASE \E q \in Phrases : StartJob(j, q)
  BY <1>5 DEF StartJob, Scouts, Goto, lookup
<1> QED
  BY <1>1, <1>2, <1>3, <1>4, <1>5 DEF Lookup

\* The clocks of the files only grow.
LEMMA StepPast == TypeOK /\ PastInv /\ [Next]_vars => PastInv'
<1> SUFFICES ASSUME TypeOK, PastInv, [Next]_vars PROVE PastInv'
  OBVIOUS
<1>1. \A f \in Files : version[f] \in Nat /\ node[f] \in Nat
  BY DEF TypeOK, Versions
<1>2. \A j \in Jobs, f \in Files : began[j][f] \in Nat /\ snap[j][f] \in Nat
  BY DEF TypeOK, Versions
<1>3. ASSUME NEW f \in Files, Change(f) PROVE PastInv'
  <2>1. version' = [version EXCEPT ![f] = version[f] + 1] /\ UNCHANGED <<node, began, snap>>
    BY <1>3 DEF Change, db, lookup, ghosts
  <2>2. \A g \in Files : version[g] <= version'[g] /\ version'[g] \in Nat
    BY <1>1, <2>1 DEF TypeOK
  <2> QED
    BY <1>1, <1>2, <2>1, <2>2 DEF PastInv
<1>4. ASSUME NEW j \in Jobs, LoadDependencies(j) PROVE PastInv'
  <2>1. snap' = [snap EXCEPT ![j] = node] /\ UNCHANGED <<version, node, began>>
    BY <1>4 DEF LoadDependencies, tree, db, ghosts
  <2>2. \A k \in Jobs : snap'[k] = IF k = j THEN node ELSE snap[k]
    BY <2>1 DEF TypeOK
  <2> QED
    BY <2>1, <2>2 DEF PastInv
<1>5. ASSUME NEW j \in Jobs, NEW q \in Phrases, StartJob(j, q) PROVE PastInv'
  <2>1. began' = [began EXCEPT ![j] = version] /\ UNCHANGED <<version, node, snap>>
    BY <1>5 DEF StartJob, tree, db, lookup
  <2>2. \A k \in Jobs : began'[k] = IF k = j THEN version ELSE began[k]
    BY <2>1 DEF TypeOK
  <2> QED
    BY <1>1, <2>1, <2>2 DEF PastInv
<1>6. ASSUME NEW j \in Jobs, NEW cites \in BOOLEAN, StoreInsight(j, cites) PROVE PastInv'
  <2>1. /\ node' = [f \in Files |-> IF f \in touched[j] THEN version[f] ELSE node[f]]
        /\ UNCHANGED <<version, began, snap>>
    BY <1>6 DEF StoreInsight, tree, lookup, ghosts
  <2> QED
    BY <1>1, <2>1 DEF PastInv
<1>7. ASSUME UNCHANGED <<version, node, began, snap>> PROVE PastInv'
  BY <1>7 DEF PastInv
<1>8. ASSUME NEW j \in Jobs, Lookup(j) \/ Scouting(j) \/ JobFails(j) PROVE PastInv'
  BY <1>4, <1>6, <1>7, <1>8 DEF Lookup, Scouting, Match, LoadContent, CheckCitation,
     CheckFile, DropInsight, DropQuery, Touch, AnswerUnstored, JobFails,
     tree, db, lookup, ghosts
<1>9. CASE UNCHANGED vars
  BY <1>7, <1>9 DEF vars, tree, db, lookup, ghosts
<1> QED
  BY <1>3, <1>5, <1>8, <1>9 DEF Next

LEMMA StepIInv == IInv /\ [Next]_vars => IInv'
<1> SUFFICES ASSUME IInv, [Next]_vars PROVE IInv'
  OBVIOUS
<1>a. TypeOK /\ TypeOK' /\ PastInv /\ PastInv' /\ \A j \in Jobs : JobInv(j)
  BY StepTypeOK, StepPast DEF IInv
<1> SUFFICES \A j \in Jobs : JobInv(j)'
  BY <1>a DEF IInv
<1>1. ASSUME NEW f \in Files, Change(f), NEW j \in Jobs PROVE JobInv(j)'
  <2>1. /\ version' = [version EXCEPT ![f] = version[f] + 1]
        /\ \A g \in Files \ {f} : g \in there' <=> g \in there
        /\ UNCHANGED <<pc, content, linked, unchecked, snap, began>>
    BY <1>1 DEF Change, lookup, ghosts
  <2>2. ASSUME NEW g \in linked[j], Dirty(g, snap[j][g]) PROVE Dirty(g, snap[j][g])'
    <3>1. g \in Files /\ snap[j][g] <= version[g]
      BY <1>a DEF TypeOK, PastInv
    <3>2. version[g] \in Nat /\ snap[j][g] \in Nat
      BY <1>a, <3>1 DEF TypeOK, Versions
    <3>3. CASE g = f
      <4>1. version'[g] = version[g] + 1
        BY <1>a, <2>1, <3>1, <3>3 DEF TypeOK
      <4> QED
        BY <2>1, <3>1, <3>2, <4>1 DEF Dirty
    <3>4. CASE g # f
      <4>1. version'[g] = version[g]
        BY <1>a, <2>1, <3>1, <3>4 DEF TypeOK
      <4> QED
        BY <2>1, <2>2, <3>1, <3>4, <4>1 DEF Dirty
    <3> QED
      BY <3>3, <3>4
  <2>3. DropReason(j) => DropReason(j)'
    BY <2>1, <2>2 DEF DropReason
  <2> QED
    BY <1>a, <2>1, <2>3 DEF JobInv
<1>2. ASSUME NEW j \in Jobs,
             Lookup(j) \/ Scouting(j) \/ JobFails(j) \/ \E q \in Phrases : StartJob(j, q),
             NEW k \in Jobs
      PROVE  JobInv(k)'
  <2>1. UNCHANGED tree
    BY <1>a, <1>2, OthersKept
  <2>2. CASE k # j
    BY <1>a, <1>2, <2>1, <2>2, OthersKept, KeptJob
  <2> SUFFICES JobInv(j)'
    BY <2>2
  <2>3. JobInv(j)
    BY <1>a
  <2>4. ASSUME pc'[j] \notin {"check", "hit", "drop_insight"} PROVE JobInv(j)'
    BY <2>4 DEF JobInv
  <2>5. CASE LoadDependencies(j)
    BY <1>a, <2>5 DEF LoadDependencies, Goto, JobInv, TypeOK
  <2>6. ASSUME NEW f \in Files, CheckFile(j, f) PROVE JobInv(j)'
    <3>1. /\ UNCHANGED <<content, linked, snap, began>>
          /\ pc[j] = "check" /\ f \in unchecked[j] /\ f \in linked[j]
      BY <2>3, <2>6 DEF CheckFile, ghosts, JobInv
    <3>2. CASE Dirty(f, snap[j][f])
      <4>1. pc'[j] = "drop_insight"
        BY <1>a, <2>6, <3>2 DEF CheckFile, Goto, TypeOK
      <4>2. DropReason(j)'
        BY <2>1, <3>1, <3>2 DEF DropReason, Dirty, tree
      <4> QED
        BY <4>1, <4>2 DEF JobInv
    <3>3. CASE ~Dirty(f, snap[j][f])
      <4>1. pc'[j] = "check" /\ unchecked'[j] = unchecked[j] \ {f}
        BY <1>a, <2>6, <3>1, <3>3 DEF CheckFile, TypeOK
      <4>2. snap[j][f] >= began[j][f]
        <5>1. version[f] = snap[j][f] /\ began[j][f] <= version[f]
          BY <1>a, <3>3 DEF Dirty, PastInv
        <5>2. began[j][f] \in Nat /\ version[f] \in Nat
          BY <1>a DEF TypeOK, Versions
        <5> QED
          BY <5>1, <5>2
      <4> QED
        BY <2>3, <3>1, <4>1, <4>2 DEF JobInv
    <3> QED
      BY <3>2, <3>3
  <2>7. CASE CheckCitation(j)
    <3>1. /\ UNCHANGED <<content, linked, snap, began>>
          /\ pc[j] = "check" /\ unchecked[j] = {}
          /\ pc'[j] = IF content[j].cites THEN "hit" ELSE "drop_insight"
      BY <1>a, <2>7 DEF CheckCitation, Goto, lookup, ghosts, TypeOK
    <3>2. ~content[j].cites => DropReason(j)'
      BY <3>1 DEF DropReason
    <3> QED
      BY <2>3, <3>1, <3>2 DEF JobInv
  <2>8. CASE Match(j) \/ LoadContent(j) \/ DropInsight(j) \/ DropQuery(j)
    <3>1. pc'[j] \in {"content", "deps", "drop_query", "scouting"}
      BY <1>a, <2>8 DEF Match, LoadContent, DropInsight, DropQuery, Scouts, Goto, TypeOK
    <3> QED
      BY <2>4, <3>1
  <2>9. CASE Scouting(j) \/ JobFails(j)
    <3>1. pc'[j] \in {"scouting", "done"}
      BY <1>a, <2>9 DEF Scouting, Touch, StoreInsight, AnswerUnstored, JobFails, Goto, TypeOK
    <3> QED
      BY <2>4, <3>1
  <2>10. CASE \E q \in Phrases : StartJob(j, q)
    <3>1. pc'[j] \in {"scouting", "match"}
      BY <1>a, <2>10 DEF StartJob, Scouts, Goto, TypeOK
    <3> QED
      BY <2>4, <3>1
  <2> QED
    BY <1>2, <2>5, <2>6, <2>7, <2>8, <2>9, <2>10 DEF Lookup
<1>3. ASSUME UNCHANGED vars, NEW j \in Jobs PROVE JobInv(j)'
  BY <1>a, <1>3, KeptJob DEF vars, lookup, ghosts
<1> QED
  BY <1>1, <1>2, <1>3 DEF Next

LEMMA Invariance == Spec => []IInv
  BY InitIInv, StepIInv, PTL DEF Spec

-----------------------------------------------------------------------------
\* The rows of the cache and the jobs keep their types, however many jobs run
\* at once and whatever they share.
THEOREM TypeCorrect == Spec => []TypeOK
  BY InitTypeOK, StepTypeOK, PTL DEF Spec

\* With overlapping jobs, shared files and edits at any moment, a cached
\* report is answered only if it cites a line and each file linked to it was,
\* no earlier than the start of the lookup, as in the snapshot it read.
THEOREM HitsMatchSnapshots == Spec => []HitMatchesSnapshots
<1>1. IInv => HitMatchesSnapshots
  BY DEF IInv, JobInv, HitMatchesSnapshots
<1> QED
  BY <1>1, Invariance, PTL

\* Under the same conditions a report leaves the cache only by a lookup that
\* found it without a citation or one of its files off its snapshot, which is
\* still so when the row goes.
THEOREM DropsHaveAReason == Spec => DroppedForAReason
<1>1. IInv /\ [Next]_vars
      => [\A p \in stored \ stored' : \E j \in Jobs : found[j] = p /\ DropReason(j)]_vars
  <2> SUFFICES ASSUME IInv, [Next]_vars, NEW p \in stored \ stored'
               PROVE  \E j \in Jobs : found[j] = p /\ DropReason(j)
    OBVIOUS
  <2>1. PICK j \in Jobs : DropInsight(j)
    BY DEF Next, Lookup, Scouting, Change, StartJob, Match, LoadContent, LoadDependencies,
       CheckCitation, CheckFile, DropQuery, Touch, StoreInsight, AnswerUnstored, JobFails,
       vars, db
  <2>2. p = found[j] /\ pc[j] = "drop_insight"
    BY <2>1 DEF DropInsight
  <2>3. DropReason(j)
    BY <2>2 DEF IInv, JobInv
  <2> QED
    BY <2>2, <2>3
<1> QED
  BY <1>1, Invariance, PTL DEF Spec, DroppedForAReason
==============================================================================

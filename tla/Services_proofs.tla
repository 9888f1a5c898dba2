--------------------------- MODULE Services_proofs ---------------------------
(***************************************************************************)
(* Why the services keep their promises, for every value of the constants: *)
(* each has an invariant of its own, and no step of one disturbs another.  *)
(***************************************************************************)
EXTENDS Services, FiniteSetTheorems, WellFoundedInduction, SequenceTheorems, TLAPS

-----------------------------------------------------------------------------
(* 1. Numbers, finite sets and folds.  The library's induction theorems    *)
(* take an operator; these take a set, and go by the smallest              *)
(* counterexample.                                                         *)

(* Every set of numbers has a least one.                                   *)
LEMMA LeastNat ==
  ASSUME NEW T, T \subseteq Nat, T # {}
  PROVE  \E m \in T : \A k \in T : m <= k
<1>1. PICK m \in T : \A k \in T : ~(<<k, m>> \in OpToRel(<, Nat))
  BY NatLessThanWellFounded, WFMin
<1>2. \A k \in T : ~(k < m)
  BY <1>1 DEF OpToRel
<1> QED
  BY <1>2

(* A set of numbers under a bound has a greatest one.                      *)
LEMMA GreatestNat ==
  ASSUME NEW T, T \subseteq Nat, T # {}, NEW b \in Nat, \A k \in T : k <= b
  PROVE  \E m \in T : \A k \in T : m >= k
<1> DEFINE U == {b - k : k \in T}
<1>1. U \subseteq Nat /\ U # {}
  <2>1. \A k \in T : k \in Nat /\ b - k \in Nat
    OBVIOUS
  <2>2. \E k \in T : b - k \in U
    OBVIOUS
  <2> QED
    BY <2>1, <2>2
<1>2. PICK u \in U : \A v \in U : u <= v
  <2> HIDE DEF U
  <2> QED
    BY <1>1, LeastNat
<1>3. PICK m \in T : u = b - m
  OBVIOUS
<1>4. ASSUME NEW k \in T PROVE m >= k
  <2>1. u <= b - k
    BY <1>2
  <2> QED
    BY <2>1, <1>3
<1> QED
  BY <1>4

(* A fold over a finite set D takes out one element after another: ch[s]   *)
(* is the next one of s.                                                   *)
Picks(D, ch) == \A s \in SUBSET D : s # {} => ch[s] \in s
Folds(D, base, ch, step, f) ==
  \A s \in SUBSET D : f[s] = IF s = {} THEN base ELSE step[<<ch[s], f[s \ {ch[s]}]>>]

(* There is such a fold (MapThenFoldSet only chooses one).                 *)
LEMMA FoldExists ==
  ASSUME NEW D, IsFiniteSet(D), NEW V, NEW base \in V, NEW ch, Picks(D, ch),
         NEW step \in [D \X V -> V]
  PROVE  \E f \in [SUBSET D -> V] : Folds(D, base, ch, step, f)
<1> USE DEF Picks
<1> DEFINE Small(n) == {s \in SUBSET D : Cardinality(s) <= n}
           FoldsUpTo(f, n) == \A s \in Small(n) : f[s] = IF s = {} THEN base ELSE step[<<ch[s], f[s \ {ch[s]}]>>]
           P(n) == \E f \in [Small(n) -> V] : FoldsUpTo(f, n)
           Bad == {n \in Nat : ~P(n)}
<1>1. ASSUME NEW s \in SUBSET D, s # {}
      PROVE  /\ IsFiniteSet(s) /\ Cardinality(s) \in Nat
             /\ s \ {ch[s]} \in SUBSET D
             /\ Cardinality(s \ {ch[s]}) = Cardinality(s) - 1
  BY <1>1, FS_Subset, FS_RemoveElement, FS_CardinalityType
<1>2. {} \in SUBSET D /\ Cardinality({}) = 0
  BY FS_EmptySet
<1>3. P(0)
  <2> DEFINE f == [s \in Small(0) |-> base]
  <2>1. f \in [Small(0) -> V]
    OBVIOUS
  <2>2. ASSUME NEW s \in Small(0) PROVE s = {}
    BY <2>2, FS_EmptySet, FS_Subset, FS_CardinalityType
  <2> QED
    BY <2>1, <2>2
<1>4. ASSUME NEW n \in Nat, P(n) PROVE P(n + 1)
  <2>1. PICK f \in [Small(n) -> V] : FoldsUpTo(f, n)
    BY <1>4
  <2> DEFINE g == [s \in Small(n + 1) |-> IF s = {} THEN base ELSE step[<<ch[s], f[s \ {ch[s]}]>>]]
  <2>2. \A s \in Small(n + 1) : s # {} => s \ {ch[s]} \in Small(n)
    <3> SUFFICES ASSUME NEW s \in Small(n + 1), s # {} PROVE s \ {ch[s]} \in Small(n)
      OBVIOUS
    <3>1. s \in SUBSET D /\ Cardinality(s) <= n + 1
      OBVIOUS
    <3>2. /\ s \ {ch[s]} \in SUBSET D
          /\ Cardinality(s) \in Nat /\ Cardinality(s \ {ch[s]}) = Cardinality(s) - 1
      BY <3>1, <1>1
    <3>3. Cardinality(s \ {ch[s]}) <= n
      BY <3>1, <3>2
    <3> QED
      BY <3>2, <3>3
  <2>3. g \in [Small(n + 1) -> V]
    BY <2>2
  <2>4. \A s \in Small(n) : s \in Small(n + 1) /\ g[s] = f[s]
    <3> SUFFICES ASSUME NEW s \in Small(n) PROVE s \in Small(n + 1) /\ g[s] = f[s]
      OBVIOUS
    <3>1. Cardinality(s) \in Nat
      BY FS_Subset, FS_CardinalityType
    <3>2. s \in Small(n + 1)
      BY <3>1
    <3> QED
      BY <3>2, <2>1
  <2>5. FoldsUpTo(g, n + 1)
    <3> SUFFICES ASSUME NEW s \in Small(n + 1), s # {}
                 PROVE  g[s] = step[<<ch[s], g[s \ {ch[s]}]>>]
      BY <2>3
    <3>1. g[s \ {ch[s]}] = f[s \ {ch[s]}]
      BY <2>2, <2>4
    <3> QED
      BY <3>1
  <2> QED
    BY <2>3, <2>5
<1>5. \A n \in Nat : P(n)
  <2> SUFFICES ASSUME Bad # {} PROVE FALSE
    OBVIOUS
  <2> HIDE DEF P
  <2>1. PICK m \in Bad : \A k \in Bad : m <= k
    <3>1. Bad \subseteq Nat
      OBVIOUS
    <3> HIDE DEF Bad
    <3> QED
      BY <3>1, LeastNat
  <2>2. m \in Nat /\ m # 0
    BY <2>1, <1>3
  <2>3. m - 1 \in Nat /\ m - 1 \notin Bad
    <3>1. m - 1 \in Nat /\ ~(m <= m - 1)
      BY <2>2
    <3> QED
      BY <3>1, <2>1
  <2>4. P(m - 1)
    BY <2>3
  <2>5. P((m - 1) + 1)
    <3> HIDE DEF P
    <3> QED
      BY <2>3, <2>4, <1>4
  <2>6. (m - 1) + 1 = m
    BY <2>3
  <2>7. P(m)
    <3> HIDE DEF P
    <3> QED
      BY <2>5, <2>6
  <2> QED
    BY <2>1, <2>7
<1>6. Cardinality(D) \in Nat /\ Small(Cardinality(D)) = SUBSET D
  BY FS_Subset, FS_CardinalityType
<1>7. PICK f \in [Small(Cardinality(D)) -> V] : FoldsUpTo(f, Cardinality(D))
  BY <1>5, <1>6
<1> QED
  BY <1>6, <1>7 DEF Folds

(* What holds of the empty set, and of a set when it does of the set less  *)
(* its next element, holds of every subset.                                *)
Inductive(D, ch, G) ==
  {} \in G /\ \A s \in SUBSET D : s # {} => ch[s] \in s /\ (s \ {ch[s]} \in G => s \in G)
LEMMA SubsetInduction ==
  ASSUME NEW D, IsFiniteSet(D), NEW G, NEW ch, Inductive(D, ch, G)
  PROVE  SUBSET D \subseteq G
<1> USE DEF Inductive
<1> DEFINE Sizes == {Cardinality(s) : s \in (SUBSET D) \ G}
<1>1. ASSUME NEW s \in SUBSET D
      PROVE  IsFiniteSet(s) /\ Cardinality(s) \in Nat
  BY FS_Subset, FS_CardinalityType
<1> SUFFICES ASSUME NEW bad \in SUBSET D, bad \notin G PROVE FALSE
  OBVIOUS
<1>2. Sizes \subseteq Nat /\ Sizes # {}
  BY <1>1
<1>3. PICK m \in Sizes : \A k \in Sizes : m <= k
  <2> HIDE DEF Sizes
  <2> QED
    BY <1>2, LeastNat
<1>4. PICK s \in SUBSET D : s \notin G /\ m = Cardinality(s)
  OBVIOUS
<1>5. s # {} /\ ch[s] \in s
  <2>1. s # {}
    BY <1>4
  <2> QED
    BY <2>1
<1>6. s \ {ch[s]} \in SUBSET D /\ Cardinality(s \ {ch[s]}) = m - 1 /\ m \in Nat
  BY <1>1, <1>4, <1>5, FS_RemoveElement
<1>7. s \ {ch[s]} \in G
  <2> SUFFICES ASSUME s \ {ch[s]} \notin G PROVE FALSE
    OBVIOUS
  <2>1. Cardinality(s \ {ch[s]}) \in Sizes
    BY <1>6
  <2>2. m <= m - 1
    BY <2>1, <1>3, <1>6
  <2> QED
    BY <2>2, <1>6
<1> QED
  BY <1>4, <1>5, <1>7

(* The place of an element among those of a finite set of numbers tells    *)
(* which it is.                                                            *)
LEMMA RanksDiffer ==
  ASSUME NEW S, S \subseteq Nat, IsFiniteSet(S), NEW i \in S, NEW j \in S,
         Cardinality({k \in S : k <= i}) = Cardinality({k \in S : k <= j})
  PROVE  i = j
<1>1. ASSUME NEW a \in S, NEW b \in S, a < b
      PROVE  Cardinality({k \in S : k <= a}) # Cardinality({k \in S : k <= b})
  <2> DEFINE A == {k \in S : k <= a}
             B == {k \in S : k <= b}
  <2>1. IsFiniteSet(B)
    BY FS_Subset
  <2>2. A \subseteq B /\ b \in B /\ b \notin A
    <3>1. a \in Nat /\ b \in Nat /\ b <= b /\ ~(b <= a) /\ \A k \in S : k \in Nat /\ (k <= a => k <= b)
      BY <1>1
    <3> QED
      BY <3>1
  <2> QED
    BY <2>1, <2>2, FS_Subset
<1>2. i < j \/ j < i \/ i = j
  OBVIOUS
<1> QED
  BY <1>1, <1>2

(* The sets of places of a sequence are finite sets of numbers.            *)
LEMMA IndexSets ==
  ASSUME NEW n \in Nat, NEW S \in SUBSET (1..n)
  PROVE  /\ S \subseteq Nat /\ IsFiniteSet(S) /\ Cardinality(S) \in Nat
         /\ {j \in S : j <= n} = S
<1>1. IsFiniteSet(1..n)
  BY FS_Interval
<1>2. \A j \in S : j \in Nat /\ j <= n
  OBVIOUS
<1> QED
  BY <1>1, <1>2, FS_Subset, FS_CardinalityType

(* An element's place among those of a set is one of its places.           *)
LEMMA RankBounds ==
  ASSUME NEW S, S \subseteq Nat, IsFiniteSet(S), NEW i \in S
  PROVE  Cardinality({j \in S : j <= i}) \in 1..Cardinality(S)
<1> DEFINE upto == {j \in S : j <= i}
<1>1. upto \in SUBSET S /\ i \in upto
  OBVIOUS
<1>2. IsFiniteSet(upto) /\ Cardinality(upto) \in Nat /\ Cardinality(S) \in Nat /\ Cardinality(upto) <= Cardinality(S)
  BY <1>1, FS_Subset, FS_CardinalityType
<1>3. Cardinality(upto) # 0
  BY <1>1, <1>2, FS_EmptySet
<1> QED
  BY <1>2, <1>3

-----------------------------------------------------------------------------
(* 2. The loop on stdin.                                                   *)

AnswerRecords == [id : {IdOf(m) : m \in Messages}, kind : {"result", "failed", "error"}, frame : {"line", "headers"}]
LoopInv ==
  /\ stdin \in Seq(Messages) /\ received \in Seq(Messages)
  /\ answers \in Seq(AnswerRecords)
  /\ loop \in {"reading", "calling", "ended"}
  /\ framing = IF received = <<>> THEN "none" ELSE received[1].form
  /\ \A i \in DOMAIN received : received[i].form \in {"line", "headers"}
  /\ loop = "calling" =>
       /\ received # <<>> /\ Last(received).id \notin {"none", "garbled"}

(* A message that is received wants an answer behind the earlier ones.     *)
LEMMA WantedGrows ==
  ASSUME received \in Seq(Messages), NEW m \in Messages, received' = Append(received, m),
         NEW n, n = Len(received)
  PROVE  /\ IsFiniteSet(Wanted) /\ Wanted \subseteq 1..n /\ Cardinality(Wanted) \in Nat
         /\ \A i \in Wanted : received'[i] = received[i] /\ Place(i)' = Place(i) /\ Place(i) \in 1..Cardinality(Wanted)
         /\ m.id = "none" => Wanted' = Wanted /\ Cardinality(Wanted)' = Cardinality(Wanted)
         /\ m.id # "none" =>
              /\ Wanted' = Wanted \cup {n + 1}
              /\ Cardinality(Wanted)' = Cardinality(Wanted) + 1
              /\ Place(n + 1)' = Cardinality(Wanted)'
<1>1. /\ n \in Nat /\ DOMAIN received = 1..n /\ DOMAIN received' = 1..(n + 1)
      /\ \A i \in 1..n : received'[i] = received[i]
      /\ received'[n + 1] = m
  OBVIOUS
<1>2. Wanted \in SUBSET (1..n) /\ Wanted \subseteq Nat /\ IsFiniteSet(Wanted) /\ Cardinality(Wanted) \in Nat
  <2>1. Wanted \in SUBSET (1..n)
    BY <1>1 DEF Wanted
  <2> QED
    BY <2>1, <1>1, IndexSets
<1>3. Wanted' = IF m.id = "none" THEN Wanted ELSE Wanted \cup {n + 1}
  BY <1>1 DEF Wanted
<1>4. n + 1 \in Nat /\ Wanted' \in SUBSET (1..(n + 1)) /\ n + 1 \notin Wanted
  <2>1. n + 1 \in 1..(n + 1) /\ n + 1 \notin 1..n /\ n + 1 \in Nat
    BY <1>1
  <2>2. \A i \in 1..n : i \in 1..(n + 1)
    BY <1>1
  <2> QED
    BY <2>1, <2>2, <1>2, <1>3
<1>5. Cardinality(Wanted)' = IF m.id = "none" THEN Cardinality(Wanted) ELSE Cardinality(Wanted) + 1
  BY <1>2, <1>3, <1>4, FS_AddElement
<1>6. ASSUME NEW i \in Wanted
      PROVE  Place(i)' = Place(i) /\ Place(i) \in 1..Cardinality(Wanted)
  <2>1. {j \in Wanted' : j <= i} = {j \in Wanted : j <= i}
    <3>1. ~(n + 1 <= i)
      BY <1>1, <1>2
    <3> QED
      BY <3>1, <1>3
  <2>2. Place(i)' = Place(i)
    BY <2>1 DEF Place
  <2>3. Place(i) \in 1..Cardinality(Wanted)
    BY <1>2, RankBounds DEF Place
  <2> QED
    BY <2>2, <2>3
<1>7. Place(n + 1)' = Cardinality(Wanted)'
  <2> DEFINE W == Wanted'
  <2>1. {j \in W : j <= n + 1} = W
    <3> HIDE DEF W
    <3>1. W \in SUBSET (1..(n + 1))
      BY <1>4 DEF W
    <3> QED
      BY <3>1, <1>4, IndexSets
  <2> QED
    BY <2>1 DEF Place
<1> QED
  BY <1>1, <1>2, <1>3, <1>5, <1>6, <1>7

(* The loop starts with nothing received and nothing owed.                 *)
LEMMA LoopInit == StdioInit => LoopInv /\ AnswersInOrder
<1> SUFFICES ASSUME StdioInit PROVE LoopInv /\ AnswersInOrder
  OBVIOUS
<1>1. LoopInv
  BY ServerLoopAssumption DEF StdioInit, LoopInv
<1>2. Wanted = {}
  BY DEF StdioInit, Wanted
<1> QED
  BY <1>1, <1>2, FS_EmptySet DEF StdioInit, AnswersInOrder

(* What the loop reads off stdin is a message, and so is the rest.         *)
LEMMA MessageRead ==
  ASSUME stdin \in Seq(Messages), stdin # <<>>, Reads(Head(stdin)) = "message"
  PROVE  Head(stdin) \in Messages /\ Tail(stdin) \in Seq(Messages)
         /\ Head(stdin).form \in {"line", "headers"} /\ Head(stdin).id \in STRING
<1>1. Head(stdin) \in Messages /\ Tail(stdin) \in Seq(Messages)
  OBVIOUS
<1> QED
  BY <1>1 DEF Reads, Messages

(* A turn of the loop and the end of a tool call keep the order of the     *)
(* answers.                                                                *)
LEMMA LoopStep == LoopInv /\ AnswersInOrder /\ [StdioNext]_stdio => LoopInv' /\ AnswersInOrder'
<1> SUFFICES ASSUME LoopInv, AnswersInOrder, [StdioNext]_stdio
             PROVE  LoopInv' /\ AnswersInOrder'
  OBVIOUS
<1>u. ASSUME UNCHANGED stdio PROVE LoopInv' /\ AnswersInOrder'
  BY <1>u DEF stdio, LoopInv, AnswersInOrder, Wanted, Place, IdOf
<1>r. ASSUME RunStdio PROVE LoopInv' /\ AnswersInOrder'
  <2>e. CASE stdin = <<>> \/ Reads(Head(stdin)) # "message"
    <3>1. loop' = "ended" /\ UNCHANGED <<stdin, framing, answers, received>> /\ loop = "reading"
      BY <1>r, <2>e DEF RunStdio
    <3> QED
      BY <3>1 DEF LoopInv, AnswersInOrder, Wanted, Place, IdOf
  <2>m. CASE ~(stdin = <<>> \/ Reads(Head(stdin)) # "message")
    <3> DEFINE m == Head(stdin)
    <3>n. PICK n : n = Len(received)
      OBVIOUS
    <3>1. /\ loop = "reading" /\ stdin' = Tail(stdin) /\ received' = Append(received, m)
          /\ framing' = IF framing = "none" THEN m.form ELSE framing
          /\ CASE m.id = "garbled" -> Answer("null", "error") /\ loop' = loop
               [] m.id = "none" -> UNCHANGED <<answers, loop>>
               [] OTHER -> IF m.method = "call" THEN loop' = "calling" /\ UNCHANGED answers
                           ELSE /\ Answer(m.id, IF m.method = "other" THEN "error" ELSE "result")
                                /\ loop' = loop
      BY <1>r, <2>m DEF RunStdio
    <3>2. /\ m \in Messages /\ Tail(stdin) \in Seq(Messages)
          /\ m.form \in {"line", "headers"} /\ m.id \in STRING
      BY <2>m, MessageRead DEF LoopInv
    <3>3. /\ n \in Nat /\ DOMAIN received = 1..n /\ DOMAIN received' = 1..(n + 1)
          /\ \A i \in 1..n : received'[i] = received[i]
          /\ received'[n + 1] = m /\ received' \in Seq(Messages) /\ received' # <<>>
          /\ Last(received') = m
      BY <3>1, <3>2, <3>n DEF LoopInv, Last
    <3>a. /\ answers \in Seq(AnswerRecords) /\ received \in Seq(Messages)
          /\ framing = IF received = <<>> THEN "none" ELSE received[1].form
          /\ \A i \in DOMAIN received : received[i].form \in {"line", "headers"}
      BY DEF LoopInv
    <3>b. received = <<>> <=> n = 0
      BY <3>a, <3>n
    <3> HIDE DEF m
    <3>4. framing' = received'[1].form /\ framing' \in {"line", "headers"}
      <4>1. CASE n = 0
        BY <4>1, <3>1, <3>2, <3>3, <3>a, <3>b
      <4>2. CASE n # 0
        <5>1. 1 \in 1..n /\ received # <<>>
          BY <4>2, <3>3, <3>b
        <5>2. framing = received[1].form /\ framing \in {"line", "headers"} /\ received'[1] = received[1]
          BY <5>1, <3>3, <3>a
        <5> QED
          BY <5>2, <3>1
      <4> QED
        BY <4>1, <4>2
    <3>5. \A i \in DOMAIN received' : received'[i].form \in {"line", "headers"}
      BY <3>2, <3>3, <3>a
    <3>6. /\ Len(answers) \in Nat /\ DOMAIN answers = 1..Len(answers)
      BY <3>a
    <3>7. \/ m.id = "none" /\ answers' = answers /\ loop' = "reading"
          \/ m.id \notin {"none", "garbled"} /\ answers' = answers /\ loop' = "calling"
          \/ /\ m.id # "none" /\ loop' = "reading"
             /\ \E kind \in {"result", "failed", "error"} :
                  answers' = Append(answers, [id |-> IdOf(m), kind |-> kind, frame |-> framing'])
      <4>1. CASE m.id = "garbled"
        BY <4>1, <3>1 DEF Answer, IdOf
      <4>2. CASE m.id = "none"
        BY <4>2, <3>1
      <4>3. CASE m.id \notin {"none", "garbled"}
        <5>1. IF m.method = "call" THEN loop' = "calling" /\ UNCHANGED answers
              ELSE /\ Answer(m.id, IF m.method = "other" THEN "error" ELSE "result")
                   /\ loop' = loop
          BY <4>3, <3>1
        <5>2. IdOf(m) = m.id
          BY <4>3 DEF IdOf
        <5> QED
          BY <4>3, <5>1, <5>2, <3>1 DEF Answer
      <4> QED
        BY <4>1, <4>2, <4>3
    <3>8. ASSUME NEW kind \in {"result", "failed", "error"},
                 answers' = Append(answers, [id |-> IdOf(m), kind |-> kind, frame |-> framing'])
          PROVE  /\ answers' \in Seq(AnswerRecords) /\ Len(answers') = Len(answers) + 1
                 /\ DOMAIN answers' = 1..(Len(answers) + 1)
                 /\ \A i \in DOMAIN answers : answers'[i] = answers[i]
                 /\ answers'[Len(answers) + 1].id = IdOf(m)
                 /\ answers'[Len(answers) + 1].frame = framing'
      <4> DEFINE e == [id |-> IdOf(m), kind |-> kind, frame |-> framing']
      <4>1. e \in AnswerRecords /\ e.id = IdOf(m) /\ e.frame = framing'
        BY <3>2, <3>4 DEF AnswerRecords
      <4> HIDE DEF e
      <4>2. answers' = Append(answers, e)
        BY <3>8 DEF e
      <4> QED
        BY <4>1, <4>2, <3>a
    <3>9. LoopInv'
      <4>1. answers' \in Seq(AnswerRecords)
        BY <3>a, <3>7, <3>8
      <4>2. loop' = "calling" => m.id \notin {"none", "garbled"}
        BY <3>7
      <4>3. loop' \in {"reading", "calling", "ended"}
        BY <3>7
      <4> QED
        BY <4>1, <4>2, <4>3, <3>1, <3>2, <3>3, <3>4, <3>5 DEF LoopInv
    <3>10. /\ IsFiniteSet(Wanted) /\ Wanted \subseteq 1..n /\ Cardinality(Wanted) \in Nat
           /\ \A i \in Wanted : received'[i] = received[i] /\ Place(i)' = Place(i) /\ Place(i) \in 1..Cardinality(Wanted)
           /\ m.id = "none" => Wanted' = Wanted /\ Cardinality(Wanted)' = Cardinality(Wanted)
           /\ m.id # "none" =>
                /\ Wanted' = Wanted \cup {n + 1}
                /\ Cardinality(Wanted)' = Cardinality(Wanted) + 1
                /\ Place(n + 1)' = Cardinality(Wanted)'
      BY <3>1, <3>2, <3>a, <3>n, WantedGrows
    <3>11. Cardinality(Wanted) = Len(answers)
      BY <3>1, <3>6 DEF AnswersInOrder
    <3>12. ASSUME NEW i \in Wanted
           PROVE  /\ Place(i)' = Place(i) /\ Place(i) \in DOMAIN answers
                  /\ answers[Place(i)].id = IdOf(received'[i]) /\ answers[Place(i)].frame = received'[1].form
      <4>1. Place(i)' = Place(i) /\ Place(i) \in DOMAIN answers /\ received'[i] = received[i]
        BY <3>6, <3>10, <3>11
      <4>2. 1 \in 1..n
        BY <3>3, <3>10
      <4>3. received'[1] = received[1]
        BY <4>2, <3>3
      <4> QED
        BY <4>1, <4>3 DEF AnswersInOrder
    <3>13. ASSUME NEW i \in Wanted
           PROVE  /\ answers'[Place(i)'].id = IdOf(received'[i]) /\ answers'[Place(i)'].frame = received'[1].form
      <4>1. answers'[Place(i)] = answers[Place(i)]
        BY <3>7, <3>8, <3>12
      <4> QED
        BY <4>1, <3>12
    <3>14. Cardinality(Wanted)' = Len(answers') + (IF loop' = "calling" THEN 1 ELSE 0)
      BY <3>6, <3>7, <3>8, <3>10, <3>11
    <3>15. ASSUME m.id # "none", Place(n + 1)' \in DOMAIN answers'
           PROVE  /\ answers'[Place(n + 1)'].id = IdOf(received'[n + 1])
                  /\ answers'[Place(n + 1)'].frame = received'[1].form
      <4>1. Place(n + 1)' = Len(answers) + 1
        BY <3>10, <3>11, <3>15
      <4>2. PICK kind \in {"result", "failed", "error"} :
              answers' = Append(answers, [id |-> IdOf(m), kind |-> kind, frame |-> framing'])
        BY <4>1, <3>6, <3>7, <3>15
      <4> QED
        BY <4>1, <4>2, <3>3, <3>4, <3>8
    <3>16. \A i \in Wanted' : i \in Wanted \/ (i = n + 1 /\ m.id # "none")
      BY <3>10
    <3>17. AnswersInOrder'
      <4> SUFFICES ASSUME NEW i \in Wanted', Place(i)' \in DOMAIN answers'
                   PROVE  answers'[Place(i)'].id = IdOf(received'[i]) /\ answers'[Place(i)'].frame = received'[1].form
        BY <3>14 DEF AnswersInOrder, IdOf
      <4>1. CASE i \in Wanted
        BY <4>1, <3>13
      <4>2. CASE i = n + 1 /\ m.id # "none"
        BY <4>2, <3>15
      <4> QED
        BY <4>1, <4>2, <3>16
    <3> QED
      BY <3>9, <3>17
  <2> QED
    BY <2>e, <2>m
<1>h. ASSUME HandleToolCall PROVE LoopInv' /\ AnswersInOrder'
  <2> DEFINE n == Len(received)
  <2>1. PICK kind \in {"result", "failed"} :
          /\ loop = "calling" /\ framing' = framing /\ loop' = "reading" /\ UNCHANGED <<stdin, received>>
          /\ answers' = Append(answers, [id |-> Last(received).id, kind |-> kind, frame |-> framing'])
    BY <1>h DEF HandleToolCall, Answer
  <2>a. /\ received \in Seq(Messages) /\ received # <<>> /\ answers \in Seq(AnswerRecords)
        /\ Last(received).id \notin {"none", "garbled"}
        /\ \A i \in DOMAIN received : received[i].form \in {"line", "headers"}
        /\ framing = received[1].form
    BY <2>1 DEF LoopInv
  <2>2. /\ n \in Nat /\ n > 0 /\ DOMAIN received = 1..n /\ Last(received) = received[n]
        /\ received[n] \in Messages
    BY <2>a DEF Last
  <2> HIDE DEF n
  <2>3. framing \in {"line", "headers"} /\ IdOf(received[n]) = received[n].id
    BY <2>2, <2>a DEF IdOf
  <2>4. /\ answers' \in Seq(AnswerRecords) /\ Len(answers) \in Nat
        /\ DOMAIN answers = 1..Len(answers) /\ DOMAIN answers' = 1..(Len(answers) + 1)
        /\ Len(answers') = Len(answers) + 1
        /\ \A i \in DOMAIN answers : answers'[i] = answers[i]
        /\ answers'[Len(answers) + 1].id = IdOf(received[n]) /\ answers'[Len(answers) + 1].frame = received[1].form
    <3> DEFINE e == [id |-> Last(received).id, kind |-> kind, frame |-> framing']
    <3>1. e \in AnswerRecords /\ e.id = IdOf(received[n]) /\ e.frame = received[1].form
      BY <2>1, <2>2, <2>3, <2>a DEF AnswerRecords
    <3> HIDE DEF e
    <3>2. answers' = Append(answers, e)
      BY <2>1 DEF e
    <3> QED
      BY <3>1, <3>2, <2>a
  <2>5. LoopInv'
    BY <2>1, <2>4 DEF LoopInv
  <2>6. Wanted' = Wanted /\ \A i \in Wanted : Place(i)' = Place(i)
    BY <2>1 DEF Wanted, Place
  <2>7. /\ n \in Wanted /\ Wanted \subseteq Nat /\ IsFiniteSet(Wanted) /\ Cardinality(Wanted) \in Nat
        /\ {j \in Wanted : j <= n} = Wanted
    <3>1. n \in 1..n
      BY <2>2
    <3>2. n \in Wanted /\ Wanted \in SUBSET (1..n)
      BY <3>1, <2>2, <2>a DEF Wanted
    <3> QED
      BY <3>2, <2>2, IndexSets
  <2>8. Place(n) = Cardinality(Wanted) /\ Cardinality(Wanted) = Len(answers) + 1
    BY <2>1, <2>7 DEF Place, AnswersInOrder
  <2>9. ASSUME NEW i \in Wanted, Place(i) \in DOMAIN answers'
        PROVE  answers'[Place(i)].id = IdOf(received[i]) /\ answers'[Place(i)].frame = received[1].form
    <3>1. CASE i = n
      BY <3>1, <2>4, <2>8
    <3>2. CASE i # n
      <4>1. Place(i) # Place(n)
        BY <3>2, <2>7, RanksDiffer DEF Place
      <4>2. Place(i) \in DOMAIN answers
        BY <4>1, <2>4, <2>8, <2>9
      <4> QED
        BY <4>2, <2>4 DEF AnswersInOrder
    <3> QED
      BY <3>1, <3>2
  <2>10. AnswersInOrder'
    BY <2>1, <2>4, <2>6, <2>8, <2>9 DEF AnswersInOrder, IdOf
  <2> QED
    BY <2>5, <2>10
<1> QED
  BY <1>u, <1>r, <1>h DEF StdioNext

(* A set of numbers under a bound has its Max in it.                       *)
LEMMA MaxOf ==
  ASSUME NEW n \in Nat, NEW s \in SUBSET (0..n), s # {}
  PROVE  Max(s) \in s /\ \A k \in s : Max(s) >= k
<1>1. s \subseteq Nat /\ \A k \in s : k <= n
  OBVIOUS
<1>2. \E m \in s : \A k \in s : m >= k
  BY <1>1, GreatestNat
<1> QED
  BY <1>2 DEF Max

(* The bytes of characters add up to a number.                             *)
LEMMA BytesAreNat ==
  ASSUME NEW chars \in Seq(Nat)
  PROVE  Bytes(chars) \in Nat
<1> DEFINE D == DOMAIN chars
           body(f) == [s \in SUBSET D |-> IF s = {} THEN 0 ELSE LET x == Max(s) IN f[s \ {x}] + chars[x]]
           F == CHOOSE f : f = body(f)
           ch == [s \in SUBSET D |-> Max(s)]
           step == [p \in D \X Nat |-> p[2] + chars[p[1]]]
<1>1. Len(chars) \in Nat /\ D = 1..Len(chars) /\ \A i \in D : chars[i] \in Nat
  OBVIOUS
<1>2. IsFiniteSet(D)
  BY <1>1, FS_Interval
<1>3. ASSUME NEW s \in SUBSET D, s # {} PROVE ch[s] \in s /\ ch[s] \in D /\ s \ {ch[s]} \in SUBSET D
  <2>1. s \in SUBSET (0..Len(chars))
    BY <1>1
  <2>2. Max(s) \in s
    BY <2>1, <1>1, <1>3, MaxOf
  <2> QED
    BY <2>2
<1>4. step \in [D \X Nat -> Nat]
  BY <1>1
<1>5. PICK f \in [SUBSET D -> Nat] : Folds(D, 0, ch, step, f)
  <2>1. Picks(D, ch)
    BY <1>3 DEF Picks
  <2>2. 0 \in Nat
    OBVIOUS
  <2> HIDE DEF D, ch, step
  <2> QED
    BY <2>1, <2>2, <1>2, <1>4, FoldExists
<1>6. f = body(f)
  <2> SUFFICES ASSUME NEW s \in SUBSET D PROVE f[s] = body(f)[s]
    OBVIOUS
  <2>1. CASE s = {}
    BY <2>1, <1>5 DEF Folds
  <2>2. CASE s # {}
    <3>1. f[s] = step[<<ch[s], f[s \ {ch[s]}]>>]
      BY <2>2, <1>5 DEF Folds
    <3>2. f[s \ {ch[s]}] \in Nat /\ ch[s] \in D /\ ch[s] = Max(s)
      BY <2>2, <1>3
    <3>3. f[s] = f[s \ {Max(s)}] + chars[Max(s)]
      BY <3>1, <3>2
    <3> QED
      BY <3>3, <2>2
  <2> QED
    BY <2>1, <2>2
<1>7. F = body(F)
  <2> HIDE DEF body
  <2> QED
    BY <1>6
<1>8. Bytes(chars) = F[D]
  BY DEF Bytes, FoldLeft, MapThenFoldSet
<1>9. \A s \in SUBSET D : F[s] \in Nat
  <2> HIDE DEF F
  <2> DEFINE G == {s \in SUBSET D : F[s] \in Nat}
  <2>1. {} \in G
    BY <1>7
  <2>2. ASSUME NEW s \in SUBSET D, s # {}
        PROVE  ch[s] \in s /\ (s \ {ch[s]} \in G => s \in G)
    <3>1. F[s] = F[s \ {Max(s)}] + chars[Max(s)]
      BY <1>7, <2>2
    <3>2. ch[s] = Max(s) /\ Max(s) \in D /\ Max(s) \in s
      BY <1>3, <2>2
    <3> QED
      BY <3>1, <3>2, <1>1
  <2>3. SUBSET D \subseteq G
    <3>1. Inductive(D, ch, G)
      BY <2>1, <2>2 DEF Inductive
    <3> HIDE DEF G, D, ch
    <3> QED
      BY <3>1, <1>2, SubsetInduction
  <2> QED
    BY <2>3
<1> QED
  BY <1>8, <1>9

Messaged == [kept : Nat, len : Nat]

(* A message is cut at a boundary of its characters, within the bound.     *)
LEMMA TruncatedFits ==
  ASSUME NEW chars \in Seq(Nat)
  PROVE  /\ TruncateMessage(chars) \in Messaged
         /\ WholeOrCut(TruncateMessage(chars), chars)
<1>0. MaxBytes \in Nat /\ SuffixBytes \in Nat /\ Bytes(chars) \in Nat
  BY ServerLoopAssumption, BytesAreNat
<1>1. Boundaries(chars) \subseteq Nat
  <2>1. ASSUME NEW n \in 0..Len(chars) PROVE Bytes(SubSeq(chars, 1, n)) \in Nat
    <3>1. n \in Nat /\ 1 \in 1..Len(chars) + 1
      OBVIOUS
    <3>2. SubSeq(chars, 1, n) \in Seq(Nat)
      BY <3>1, SubSeqProperties
    <3> QED
      BY <3>2, BytesAreNat
  <2> QED
    BY <2>1 DEF Boundaries
<1>2. CASE Bytes(chars) <= MaxBytes
  <2>1. SubSeq(chars, 1, Len(chars)) = chars /\ Len(chars) \in 0..Len(chars)
    OBVIOUS
  <2>2. Bytes(chars) \in Boundaries(chars)
    BY <2>1 DEF Boundaries
  <2>3. TruncateMessage(chars) = [kept |-> Bytes(chars), len |-> Bytes(chars)]
    BY <1>2 DEF TruncateMessage
  <2> QED
    BY <2>2, <2>3, <1>0, <1>2 DEF WholeOrCut, Messaged
<1>3. CASE ~(Bytes(chars) <= MaxBytes)
  <2> DEFINE T == {b \in Boundaries(chars) : b <= MaxBytes}
  <2>1. 0 \in T
    <3>1. SubSeq(chars, 1, 0) = <<>> /\ 0 \in 0..Len(chars)
      OBVIOUS
    <3>2. Bytes(<<>>) = 0
      <4> DEFINE body(f) == [s \in SUBSET {} |-> IF s = {} THEN 0 ELSE LET x == Max(s) IN f[s \ {x}] + <<>>[x]]
                 F == CHOOSE f : f = body(f)
                 f0 == [s \in SUBSET {} |-> 0]
      <4>1. f0 = body(f0)
        OBVIOUS
      <4>2. F = body(F)
        <5> HIDE DEF body, f0
        <5> QED
          BY <4>1
      <4>3. F[{}] = 0
        <5> HIDE DEF F
        <5> QED
          BY <4>2
      <4>4. DOMAIN <<>> = {}
        OBVIOUS
      <4> QED
        BY <4>3, <4>4 DEF Bytes, FoldLeft, MapThenFoldSet
    <3>3. 0 \in Boundaries(chars)
      BY <3>1, <3>2 DEF Boundaries
    <3> QED
      BY <3>3, <1>0
  <2>2. T \in SUBSET (0..MaxBytes) /\ T # {}
    BY <2>1, <1>0, <1>1
  <2>3. Max(T) \in T
    <3> HIDE DEF T
    <3> QED
      BY <2>2, <1>0, MaxOf
  <2> PICK at : at = Max(T)
    OBVIOUS
  <2>4. at \in Boundaries(chars) /\ at \in Nat /\ at <= MaxBytes
    BY <2>3, <1>1
  <2>5. TruncateMessage(chars) = [kept |-> at, len |-> at + SuffixBytes]
    BY <1>3 DEF TruncateMessage, TruncatedAt
  <2>6. at # Bytes(chars)
    BY <2>4, <1>0, <1>3
  <2> QED
    BY <2>4, <2>5, <2>6, <1>0 DEF WholeOrCut, Messaged
<1> QED
  BY <1>2, <1>3

-----------------------------------------------------------------------------
(* 3. The log's ring: an entry's place counts the newer events.            *)

Events == [level : Levels, chars : Seq(Nat)]
LogEntries == [n : Nat, level : Levels, message : Messaged]
RecordedOnes == {i \in DOMAIN logged : Recorded(logged[i].level)}
Above(S, i) == {j \in S : j > i}
LogInv ==
  /\ logged \in Seq(Events) /\ ring \in Seq(LogEntries)
  /\ Len(ring) = IF Cardinality(RecordedOnes) < Capacity THEN Cardinality(RecordedOnes) ELSE Capacity
  /\ \A k \in DOMAIN ring :
       /\ ring[k].n \in RecordedOnes /\ Cardinality(Above(RecordedOnes, ring[k].n)) = k - 1
       /\ WholeOrCut(ring[k].message, logged[ring[k].n].chars)

(* How many are above a number tells it from the others.                   *)
LEMMA AboveProperties ==
  ASSUME NEW S, S \subseteq Nat, IsFiniteSet(S), NEW i \in S
  PROVE  /\ Cardinality(Above(S, i)) \in Nat
         /\ Cardinality(Above(S, i)) < Cardinality(S)
         /\ \A j \in S : i < j => Cardinality(Above(S, i)) > Cardinality(Above(S, j))
<1>1. ASSUME NEW j \in S
      PROVE  /\ Above(S, j) \in SUBSET S /\ j \notin Above(S, j)
             /\ IsFiniteSet(Above(S, j)) /\ Cardinality(Above(S, j)) \in Nat
  <2>1. Above(S, j) \in SUBSET S /\ j \notin Above(S, j)
    BY DEF Above
  <2> QED
    BY <2>1, FS_Subset, FS_CardinalityType
<1>2. Cardinality(S) \in Nat
  BY FS_CardinalityType
<1>3. Cardinality(Above(S, i)) < Cardinality(S)
  <2>1. Above(S, i) \in SUBSET S /\ Above(S, i) # S
    BY <1>1
  <2>2. /\ Cardinality(Above(S, i)) <= Cardinality(S)
        /\ Cardinality(S) # Cardinality(Above(S, i))
    BY <2>1, FS_Subset
  <2> QED
    BY <2>2, <1>1, <1>2
<1>4. ASSUME NEW j \in S, i < j
      PROVE  Cardinality(Above(S, i)) > Cardinality(Above(S, j))
  <2>1. j \in Above(S, i) /\ Above(S, j) \subseteq Above(S, i)
    <3>1. j > i /\ \A k \in S : k > j => k > i
      BY <1>4
    <3> QED
      BY <3>1 DEF Above
  <2>2. Above(S, j) \in SUBSET Above(S, i) /\ Above(S, j) # Above(S, i)
    BY <2>1, <1>1
  <2>3. /\ Cardinality(Above(S, j)) <= Cardinality(Above(S, i))
        /\ Cardinality(Above(S, i)) # Cardinality(Above(S, j))
    BY <2>2, <1>1, FS_Subset
  <2> QED
    BY <2>3, <1>1
<1> QED
  BY <1>1, <1>3, <1>4

(* The recorded events are among the places of the log.                    *)
LEMMA RecordedFinite ==
  ASSUME logged \in Seq(Events)
  PROVE  /\ RecordedOnes \in SUBSET (1..Len(logged)) /\ RecordedOnes \subseteq Nat
         /\ IsFiniteSet(RecordedOnes) /\ Cardinality(RecordedOnes) \in Nat
<1>1. Len(logged) \in Nat /\ DOMAIN logged = 1..Len(logged)
  OBVIOUS
<1>2. RecordedOnes \in SUBSET (1..Len(logged))
  BY <1>1 DEF RecordedOnes
<1> QED
  BY <1>1, <1>2, IndexSets

(* A ring whose places count the newer events holds the newest ones.       *)
LEMMA LogInvNewest == LogInv => LogKeepsNewest
<1> SUFFICES ASSUME LogInv PROVE LogKeepsNewest
  OBVIOUS
<1> DEFINE S == RecordedOnes
           newest == {i \in S : Cardinality(Above(S, i)) < Capacity}
<1>1. /\ S \subseteq Nat /\ IsFiniteSet(S) /\ Cardinality(S) \in Nat
  BY RecordedFinite DEF LogInv
<1>2. /\ Len(ring) = IF Cardinality(S) < Capacity THEN Cardinality(S) ELSE Capacity
      /\ Len(ring) \in Nat /\ DOMAIN ring = 1..Len(ring)
      /\ \A k \in DOMAIN ring : ring[k].n \in S /\ Cardinality(Above(S, ring[k].n)) = k - 1
  BY DEF LogInv
<1>c. Capacity \in Nat
  BY ServerLoopAssumption
<1> HIDE DEF S
<1>3. ASSUME NEW i \in newest PROVE \E k \in DOMAIN ring : ring[k].n = i
  <2> DEFINE r == Cardinality(Above(S, i)) + 1
  <2>1. i \in S /\ r \in Nat /\ r >= 1 /\ r <= Cardinality(S) /\ r <= Capacity
    <3>1. Cardinality(Above(S, i)) \in Nat /\ Cardinality(Above(S, i)) < Cardinality(S)
      BY <1>1, AboveProperties
    <3>2. Cardinality(Above(S, i)) < Capacity
      OBVIOUS
    <3> QED
      BY <3>1, <3>2, <1>1, <1>c
  <2> HIDE DEF newest
  <2>2. r \in DOMAIN ring
    BY <2>1, <1>1, <1>2, <1>c
  <2>3. ring[r].n \in S /\ Cardinality(Above(S, ring[r].n)) = Cardinality(Above(S, i))
    <3>1. ring[r].n \in S /\ Cardinality(Above(S, ring[r].n)) = r - 1
      BY <2>2, <1>2
    <3>2. Cardinality(Above(S, i)) \in Nat
      BY <2>1, <1>1, AboveProperties
    <3> QED
      BY <3>1, <3>2
  <2>4. ~(i < ring[r].n) /\ ~(ring[r].n < i)
    <3>1. \A a, b \in S : Cardinality(Above(S, a)) \in Nat /\ (a < b => Cardinality(Above(S, a)) > Cardinality(Above(S, b)))
      BY <1>1, AboveProperties
    <3> QED
      BY <3>1, <2>1, <2>3
  <2>5. ring[r].n = i
    <3>1. ring[r].n \in Nat /\ i \in Nat
      BY <2>1, <2>3, <1>1
    <3> QED
      BY <3>1, <2>4
  <2> QED
    BY <2>2, <2>5
<1>4. {ring[k].n : k \in DOMAIN ring} = newest
  <2>1. ASSUME NEW k \in DOMAIN ring PROVE ring[k].n \in newest
    BY <1>2, <1>c, <1>1
  <2> QED
    BY <2>1, <1>3
<1>5. ASSUME NEW k \in DOMAIN ring, k > 1 PROVE ring[k].n < ring[k - 1].n
  <2>1. k - 1 \in DOMAIN ring /\ k \in Nat
    BY <1>5, <1>2
  <2>2. /\ ring[k].n \in S /\ ring[k - 1].n \in S
        /\ Cardinality(Above(S, ring[k].n)) = k - 1 /\ Cardinality(Above(S, ring[k - 1].n)) = k - 2
    BY <2>1, <1>2
  <2>3. \A a, b \in S : a < b => Cardinality(Above(S, a)) > Cardinality(Above(S, b))
    BY <1>1, AboveProperties
  <2>4. ring[k].n # ring[k - 1].n /\ ~(ring[k - 1].n < ring[k].n)
    BY <2>1, <2>2, <2>3
  <2>5. ring[k].n \in Nat /\ ring[k - 1].n \in Nat
    BY <2>2, <1>1
  <2> QED
    BY <2>4, <2>5
<1> QED
  BY <1>4, <1>5 DEF LogInv, LogKeepsNewest, S, RecordedOnes, Above

(* The log starts empty.                                                   *)
LEMMA LogStart == LogInit => LogInv
<1> SUFFICES ASSUME LogInit PROVE LogInv
  OBVIOUS
<1>1. RecordedOnes = {} /\ Cardinality({}) = 0
  BY FS_EmptySet DEF LogInit, RecordedOnes
<1> QED
  BY <1>1, ServerLoopAssumption DEF LogInit, LogInv

(* An event pushed in front moves each entry one place back, the last one  *)
(* out.                                                                    *)
LEMMA LogStep == LogInv /\ [LogNext]_runtimeLog => LogInv'
<1> SUFFICES ASSUME LogInv, [LogNext]_runtimeLog PROVE LogInv'
  OBVIOUS
<1>u. ASSUME UNCHANGED runtimeLog PROVE LogInv'
  BY <1>u DEF runtimeLog, LogInv, RecordedOnes
<1>n. ASSUME LogNext PROVE LogInv'
  <2> PICK level \in Levels, chars \in {<<1>>, <<2, 3>>, <<3, 2, 1>>} : OnEvent(level, chars)
    BY <1>n DEF LogNext
  <2> DEFINE entry == [n |-> Len(logged) + 1, level |-> level, message |-> TruncateMessage(chars)]
             event == [level |-> level, chars |-> chars]
  <2>1. /\ ring' = IF Recorded(level) THEN Pushed(ring, entry) ELSE ring
        /\ logged' = Append(logged, event)
    BY DEF OnEvent
  <2>2. chars \in Seq(Nat)
    <3>1. <<1>> \in Seq(Nat) /\ <<2, 3>> \in Seq(Nat) /\ <<3, 2, 1>> \in Seq(Nat)
      OBVIOUS
    <3> QED
      BY <3>1
  <2>3. logged \in Seq(Events) /\ ring \in Seq(LogEntries) /\ event \in Events
    BY <2>2 DEF LogInv, Events
  <2>n. PICK n : n = Len(logged) + 1
    OBVIOUS
  <2>4. entry \in LogEntries /\ entry.n = n /\ WholeOrCut(entry.message, chars)
    BY <2>2, <2>3, <2>n, TruncatedFits DEF LogEntries
  <2>5. event.chars = chars /\ event.level = level
    OBVIOUS
  <2> HIDE DEF entry, event
  <2>6. /\ n \in Nat /\ n >= 1 /\ DOMAIN logged = 1..(n - 1) /\ DOMAIN logged' = 1..n
        /\ \A i \in 1..(n - 1) : logged'[i] = logged[i]
        /\ logged'[n] = event /\ logged' \in Seq(Events)
    BY <2>1, <2>3, <2>n
  <2> DEFINE S == RecordedOnes
             T == RecordedOnes'
  <2>7. S \in SUBSET (1..(n - 1)) /\ S \subseteq Nat /\ IsFiniteSet(S) /\ Cardinality(S) \in Nat
    BY <2>3, <2>6, RecordedFinite
  <2>8. T = IF Recorded(level) THEN S \cup {n} ELSE S
    <3>1. n \in 1..n /\ \A i \in 1..n : i \in 1..(n - 1) \/ i = n
      BY <2>6
    <3>2. \A i \in 1..(n - 1) : i \in 1..n
      BY <2>6
    <3>3. logged'[n].level = level
      BY <2>5, <2>6
    <3> QED
      BY <3>1, <3>2, <3>3, <2>6 DEF RecordedOnes
  <2>c. Capacity \in Nat /\ Capacity > 0
    BY ServerLoopAssumption
  <2>9. /\ Len(ring) = IF Cardinality(S) < Capacity THEN Cardinality(S) ELSE Capacity
        /\ \A k \in DOMAIN ring :
             /\ ring[k].n \in S /\ Cardinality(Above(S, ring[k].n)) = k - 1
             /\ WholeOrCut(ring[k].message, logged[ring[k].n].chars)
    BY DEF LogInv
  <2> HIDE DEF S, T
  <2>a. /\ Len(ring) \in Nat /\ DOMAIN ring = 1..Len(ring) /\ Len(ring) <= Capacity
    BY <2>3, <2>7, <2>9, <2>c
  <2>10. \A k \in DOMAIN ring : logged'[ring[k].n] = logged[ring[k].n]
    BY <2>6, <2>7, <2>9
  <2>r. CASE Recorded(level)
    <3>1. n \notin S /\ T = S \cup {n} /\ Cardinality(T) = Cardinality(S) + 1
      <4>1. n \notin S
        BY <2>6, <2>7
      <4> QED
        BY <4>1, <2>r, <2>7, <2>8, FS_AddElement
    <3>2. Above(T, n) = {} /\ Cardinality({}) = 0
      <4>1. \A j \in T : ~(j > n)
        BY <3>1, <2>6, <2>7
      <4>2. Above(T, n) = {}
        BY <4>1 DEF Above
      <4> QED
        BY <4>2, FS_EmptySet
    <3>3. ASSUME NEW i \in S PROVE Cardinality(Above(T, i)) = Cardinality(Above(S, i)) + 1
      <4>1. n > i
        BY <2>6, <2>7
      <4>2. Above(T, i) = Above(S, i) \cup {n} /\ n \notin Above(S, i) /\ Above(S, i) \in SUBSET S
        BY <4>1, <3>1 DEF Above
      <4> QED
        BY <4>2, <2>7, FS_Subset, FS_AddElement
    <3> DEFINE kept == IF Len(ring) >= Capacity THEN Len(ring) - 1 ELSE Len(ring)
    <3>4. kept \in Nat /\ kept <= Len(ring)
      BY <2>a, <2>c
    <3>5. /\ ring' \in Seq(LogEntries) /\ Len(ring') = kept + 1 /\ DOMAIN ring' = 1..(kept + 1)
          /\ ring'[1] = entry
          /\ \A k \in 2..(kept + 1) : ring'[k] = ring[k - 1]
      <4>1. ring' = <<entry>> \o (IF Len(ring) >= Capacity THEN SubSeq(ring, 1, Len(ring) - 1) ELSE ring)
        BY <2>1, <2>r DEF Pushed
      <4>2. CASE Len(ring) >= Capacity
        <5>1. Len(ring) - 1 \in 0..Len(ring) /\ 1 \in 1..Len(ring) + 1
          BY <4>2, <2>a, <2>c
        <5>2. /\ SubSeq(ring, 1, Len(ring) - 1) \in Seq(LogEntries)
              /\ Len(SubSeq(ring, 1, Len(ring) - 1)) = Len(ring) - 1
              /\ \A k \in 1..(Len(ring) - 1) : SubSeq(ring, 1, Len(ring) - 1)[k] = ring[k]
          BY <5>1, <2>3, <2>a
        <5> QED
          BY <4>1, <4>2, <5>2, <2>4, <2>a
      <4>3. CASE ~(Len(ring) >= Capacity)
        BY <4>1, <4>3, <2>3, <2>4, <2>a
      <4> QED
        BY <4>2, <4>3
    <3>6. Len(ring') = IF Cardinality(T) < Capacity THEN Cardinality(T) ELSE Capacity
      BY <3>1, <3>5, <2>7, <2>9, <2>a, <2>c
    <3>7. ASSUME NEW k \in DOMAIN ring'
          PROVE  /\ ring'[k].n \in T /\ Cardinality(Above(T, ring'[k].n)) = k - 1
                 /\ WholeOrCut(ring'[k].message, logged'[ring'[k].n].chars)
      <4>1. CASE k = 1
        <5>1. ring'[k].n = n /\ ring'[k] = entry /\ logged'[n].chars = chars
          BY <4>1, <3>5, <2>4, <2>5, <2>6
        <5>2. n \in T /\ Cardinality(Above(T, n)) = k - 1
          BY <4>1, <3>1, <3>2
        <5> QED
          BY <5>1, <5>2, <2>4
      <4>2. CASE k # 1
        <5>1. k \in 2..(kept + 1) /\ k - 1 \in DOMAIN ring /\ ring'[k] = ring[k - 1]
          BY <4>2, <3>4, <3>5, <3>7, <2>a
        <5>2. Cardinality(Above(T, ring[k - 1].n)) = (k - 1 - 1) + 1 /\ ring[k - 1].n \in T
          BY <5>1, <3>1, <3>3, <2>9
        <5>3. (k - 1 - 1) + 1 = k - 1
          BY <5>1, <3>4
        <5> QED
          BY <5>1, <5>2, <5>3, <2>9, <2>10
      <4> QED
        BY <4>1, <4>2
    <3> QED
      BY <3>5, <3>6, <3>7, <2>6 DEF LogInv, T
  <2>i. CASE ~Recorded(level)
    <3>1. ring' = ring /\ T = S
      BY <2>i, <2>1, <2>8
    <3> QED
      BY <3>1, <2>3, <2>6, <2>9, <2>10 DEF LogInv, T
  <2> QED
    BY <2>r, <2>i
<1> QED
  BY <1>u, <1>n

-----------------------------------------------------------------------------
(* 4. The judge: what is stored of a result, and the best of what is       *)
(* stored.                                                                 *)

Pieces == {"text", "pass", "evidence", "appendix", "legacy", "alike"}
Results == [tool : DOMAIN EvalTarget, wrote : Seq(Pieces), result : Seq(Pieces)]
Judged == {"Phase_5_Triage", "Phase_4_Builder"}
Evaluations ==
  [agent : Judged, job : Nat, output : Seq(Pieces), score : 1..10,
   desired : {DesiredOutput(r) : r \in Responses}, at : Nat]
EvalInv ==
  /\ second \in Nat
  /\ results \in Seq(Results)
  /\ \A n \in DOMAIN results : results[n].result \in {results[n].wrote, Append(results[n].wrote, "appendix")}
  /\ evaluations \in Seq(Evaluations)
  /\ Len(evaluations) <= MaxRows /\ Len(results) <= MaxJobs
  /\ \A i \in Rows :
       /\ evaluations[i].at <= second
       /\ evaluations[i].job \in DOMAIN results
       /\ evaluations[i].output = StripAutoEvalAppendix(WithoutAppendix(results[evaluations[i].job].wrote))

(* The cut is before the first of the pieces, or behind the last.          *)
Cut(text, cuts) == Min({i \in DOMAIN text : text[i] \in cuts} \cup {Len(text) + 1})

(* The cut is a place of the text or the one behind it, and nothing before *)
(* it is cut at.                                                           *)
LEMMA CutProperties ==
  ASSUME NEW text \in Seq(Pieces), NEW cuts
  PROVE  /\ Cut(text, cuts) \in 1..(Len(text) + 1)
         /\ Cut(text, cuts) <= Len(text) => text[Cut(text, cuts)] \in cuts
         /\ \A k \in 1..(Cut(text, cuts) - 1) : text[k] \notin cuts
         /\ Before(text, cuts) = SubSeq(text, 1, Cut(text, cuts) - 1)
<1> DEFINE T == {i \in DOMAIN text : text[i] \in cuts} \cup {Len(text) + 1}
<1>1. Len(text) \in Nat /\ DOMAIN text = 1..Len(text)
  OBVIOUS
<1>2. T \subseteq Nat /\ T # {} /\ \A i \in T : i \in 1..(Len(text) + 1) /\ (i <= Len(text) => text[i] \in cuts)
  BY <1>1
<1>3. Min(T) \in T /\ \A k \in T : Min(T) <= k
  <2> HIDE DEF T
  <2> QED
    BY <1>2, LeastNat DEF Min
<1>4. ASSUME NEW k \in 1..(Min(T) - 1) PROVE text[k] \notin cuts
  <2>1. Min(T) \in 1..(Len(text) + 1) /\ \A j \in T : Min(T) <= j
    BY <1>2, <1>3
  <2> DEFINE m == Min(T)
  <2> HIDE DEF m
  <2>2. m \in 1..(Len(text) + 1) /\ k \in 1..(m - 1)
    BY <2>1 DEF m
  <2>3. k \in DOMAIN text /\ ~(m <= k)
    BY <2>2, <1>1
  <2>4. text[k] \in cuts => k \in T
    BY <2>3
  <2> QED
    BY <2>1, <2>3, <2>4 DEF m
<1>5. Cut(text, cuts) = Min(T) /\ Before(text, cuts) = SubSeq(text, 1, Min(T) - 1)
  BY DEF Cut, Before
<1> QED
  BY <1>2, <1>3, <1>4, <1>5

(* What is before the cut has no piece to cut at.                          *)
LEMMA BeforeHasNone ==
  ASSUME NEW text \in Seq(Pieces), NEW cuts
  PROVE  Before(text, cuts) \in Seq(Pieces) /\ ToSet(Before(text, cuts)) \cap cuts = {}
<1> DEFINE m == Cut(text, cuts)
<1>1. m \in 1..(Len(text) + 1) /\ (\A k \in 1..(m - 1) : text[k] \notin cuts)
      /\ Before(text, cuts) = SubSeq(text, 1, m - 1)
  BY CutProperties
<1> HIDE DEF m
<1>2. 1 \in 1..(Len(text) + 1) /\ m - 1 \in 0..Len(text) /\ m - 1 \in Nat
  BY <1>1
<1>3. /\ SubSeq(text, 1, m - 1) \in Seq(Pieces) /\ DOMAIN SubSeq(text, 1, m - 1) = 1..(m - 1)
      /\ \A k \in 1..(m - 1) : SubSeq(text, 1, m - 1)[k] = text[k]
  BY <1>2, SubSeqProperties
<1> QED
  BY <1>1, <1>3 DEF ToSet

(* An appendix at the end does not change what is before it.               *)
LEMMA BeforeAppend ==
  ASSUME NEW text \in Seq(Pieces), NEW cuts, NEW c \in Pieces, c \in cuts
  PROVE  Before(Append(text, c), cuts) = Before(text, cuts)
<1> DEFINE more == Append(text, c)
           m == Cut(text, cuts)
           n == Cut(more, cuts)
<1>1. /\ more \in Seq(Pieces) /\ Len(more) = Len(text) + 1 /\ Len(text) \in Nat
      /\ \A k \in 1..Len(text) : more[k] = text[k]
      /\ more[Len(text) + 1] = c
  OBVIOUS
<1>2. /\ m \in 1..(Len(text) + 1) /\ (m <= Len(text) => text[m] \in cuts)
      /\ \A k \in 1..(m - 1) : text[k] \notin cuts
      /\ Before(text, cuts) = SubSeq(text, 1, m - 1)
  BY CutProperties
<1> HIDE DEF more
<1>3. /\ n \in 1..(Len(text) + 2) /\ (n <= Len(text) + 1 => more[n] \in cuts)
      /\ \A k \in 1..(n - 1) : more[k] \notin cuts
      /\ Before(more, cuts) = SubSeq(more, 1, n - 1)
  BY <1>1, CutProperties
<1> HIDE DEF m, n
<1>4. m = n
  <2>1. ~(m < n)
    <3> SUFFICES ASSUME m < n PROVE FALSE
      OBVIOUS
    <3>1. m \in 1..(n - 1) /\ more[m] \notin cuts
      BY <1>2, <1>3
    <3>2. CASE m <= Len(text)
      BY <3>1, <3>2, <1>1, <1>2
    <3>3. CASE ~(m <= Len(text))
      <4>1. m = Len(text) + 1
        BY <3>3, <1>1, <1>2
      <4> QED
        BY <4>1, <3>1, <1>1
    <3> QED
      BY <3>2, <3>3
  <2>2. ~(n < m)
    <3> SUFFICES ASSUME n < m PROVE FALSE
      OBVIOUS
    <3>1. n \in 1..(m - 1) /\ n <= Len(text) /\ n \in 1..Len(text)
      BY <1>1, <1>2, <1>3
    <3> QED
      BY <3>1, <1>1, <1>2, <1>3
  <2> QED
    BY <2>1, <2>2, <1>2, <1>3
<1>5. SubSeq(more, 1, m - 1) = SubSeq(text, 1, m - 1)
  <2>1. m - 1 \in Nat /\ m - 1 <= Len(text) /\ m - 1 <= Len(more) /\ 1 \in Nat
    BY <1>1, <1>2
  <2>2. \A k \in 1..(m - 1) : more[k] = text[k]
    BY <1>1, <1>2
  <2>3. \A k \in 1..(m - 1) : SubSeq(more, 1, m - 1)[k] = more[k] /\ SubSeq(text, 1, m - 1)[k] = text[k]
    BY <2>1, <1>1
  <2> QED
    BY <2>1, <2>2, <2>3, <1>1, SubSeqProperties, SeqEqual
<1> QED
  BY <1>2, <1>3, <1>4, <1>5 DEF more

(* There is nothing to judge at the start.                                 *)
LEMMA EvalInit == EvaluatorInit => EvalInv
  BY EvaluatorAssumption DEF EvaluatorInit, EvalInv, Rows

(* A result is judged the same with its own appendix and without.          *)
LEMMA JudgedResult ==
  ASSUME NEW wrote \in Seq(Pieces), NEW result \in {wrote, Append(wrote, "appendix")}
  PROVE  WithoutAppendix(result) = WithoutAppendix(wrote)
  BY BeforeAppend DEF WithoutAppendix, Pieces

(* What was stripped of every appendix holds none, and is the same for each*)
(* judge.                                                                  *)
LEMMA EvalInvJudged == EvalInv => JudgedAlike
<1> SUFFICES ASSUME EvalInv, NEW i \in Rows
             PROVE  ToSet(evaluations[i].output) \cap {"appendix", "legacy"} = {}
  BY DEF EvalInv, JudgedAlike
<1>1. evaluations[i].job \in DOMAIN results
  BY DEF EvalInv
<1> DEFINE wrote == results[evaluations[i].job].wrote
<1>2. wrote \in Seq(Pieces)
  <2>1. results[evaluations[i].job] \in Results
    BY <1>1 DEF EvalInv
  <2> QED
    BY <2>1 DEF Results
<1>3. evaluations[i].output = Before(WithoutAppendix(wrote), {"appendix", "legacy"})
  BY DEF EvalInv, StripAutoEvalAppendix
<1> HIDE DEF wrote
<1>4. WithoutAppendix(wrote) \in Seq(Pieces)
  BY <1>2, BeforeHasNone DEF WithoutAppendix
<1> QED
  BY <1>3, <1>4, BeforeHasNone

(* A row more, of a job among the results.                                 *)
LEMMA RowStored ==
  ASSUME EvalInv, NEW target, NormalizeAgentName(target) \in Judged, NEW n \in DOMAIN results', NEW text, NEW response \in Responses, Valid(response),
         results' \in Seq(Results),
         \A k \in DOMAIN results' : results'[k].result \in {results'[k].wrote, Append(results'[k].wrote, "appendix")},
         \A k \in DOMAIN results : k \in DOMAIN results' /\ results'[k] = results[k],
         Len(results') <= MaxJobs, Len(evaluations) < MaxRows, second' = second,
         text = WithoutAppendix(results'[n].wrote),
         evaluations' = Append(evaluations, Evaluated(target, n, text, response))
  PROVE  EvalInv'
<1> DEFINE row == Evaluated(target, n, text, response)
<1>0. Len(evaluations) \in Nat /\ evaluations \in Seq(Evaluations) /\ second \in Nat
  BY DEF EvalInv
<1>t. text \in Seq(Pieces) /\ StripAutoEvalAppendix(text) \in Seq(Pieces) /\ n \in Nat
  <2>0. results'[n] \in Results /\ n \in Nat
    OBVIOUS
  <2>1. results'[n].wrote \in Seq(Pieces) /\ n \in Nat
    BY <2>0 DEF Results
  <2>2. text \in Seq(Pieces)
    BY <2>1, BeforeHasNone DEF WithoutAppendix
  <2> QED
    BY <2>1, <2>2, BeforeHasNone DEF StripAutoEvalAppendix
<1>1. /\ row \in Evaluations /\ row.job = n /\ row.at = second
      /\ row.output = StripAutoEvalAppendix(WithoutAppendix(results'[n].wrote))
  BY <1>0, <1>t DEF Evaluated, Valid, Evaluations
<1> HIDE DEF row
<1>n. PICK N : N = Len(evaluations)
  OBVIOUS
<1>2. /\ N \in Nat /\ DOMAIN evaluations = 1..N /\ DOMAIN evaluations' = 1..(N + 1)
      /\ \A i \in 1..N : evaluations'[i] = evaluations[i]
      /\ evaluations'[N + 1] = row /\ Len(evaluations') = N + 1
      /\ evaluations' \in Seq(Evaluations)
  <2>2. evaluations' = Append(evaluations, row)
    BY DEF row
  <2> QED
    BY <2>2, <1>0, <1>1, <1>n
<1>3. \A i \in 1..(N + 1) : i \in 1..N \/ i = N + 1
  BY <1>2
<1>4. ASSUME NEW i \in 1..(N + 1)
      PROVE  /\ evaluations'[i].at <= second' /\ evaluations'[i].job \in DOMAIN results'
             /\ evaluations'[i].output = StripAutoEvalAppendix(WithoutAppendix(results'[evaluations'[i].job].wrote))
  <2>1. CASE i \in 1..N
    <3>1. /\ evaluations'[i] = evaluations[i] /\ evaluations[i].at <= second /\ evaluations[i].job \in DOMAIN results
          /\ evaluations[i].output = StripAutoEvalAppendix(WithoutAppendix(results[evaluations[i].job].wrote))
      BY <2>1, <1>2 DEF EvalInv, Rows
    <3> QED
      BY <3>1
  <2>2. CASE i = N + 1
    BY <2>2, <1>0, <1>1, <1>2
  <2> QED
    BY <2>1, <2>2, <1>3
<1>5. MaxRows \in Nat /\ N < MaxRows
  BY <1>n, EvaluatorAssumption
<1> QED
  BY <1>0, <1>2, <1>4, <1>5 DEF EvalInv, Rows

(* Every job that ends and every verdict keep what the rows say of the     *)
(* results.                                                                *)
LEMMA EvalStep == EvalInv /\ [EvaluatorNext]_evaluating => EvalInv'
<1> SUFFICES ASSUME EvalInv, [EvaluatorNext]_evaluating PROVE EvalInv'
  OBVIOUS
<1>0. /\ results \in Seq(Results) /\ Len(results) \in Nat /\ DOMAIN results = 1..Len(results)
      /\ \A n \in DOMAIN results : results[n] \in Results
      /\ \A n \in DOMAIN results : results[n].result \in {results[n].wrote, Append(results[n].wrote, "appendix")}
  BY DEF EvalInv
<1>u. ASSUME UNCHANGED evaluating PROVE EvalInv'
  BY <1>u DEF evaluating, EvalInv, Rows
<1>s. ASSUME SecondPasses PROVE EvalInv'
  <2>1. second \in Nat /\ second' = second + 1 /\ UNCHANGED <<evaluations, results>>
    BY <1>s DEF SecondPasses, EvalInv
  <2>2. \A i \in Rows : evaluations[i].at \in Nat /\ evaluations[i].at <= second
    <3>1. \A i \in Rows : evaluations[i] \in Evaluations /\ evaluations[i].at <= second
      BY DEF EvalInv, Rows
    <3> QED
      BY <3>1 DEF Evaluations
  <2>3. \A i \in Rows : evaluations[i].at <= second'
    BY <2>1, <2>2
  <2> QED
    BY <2>1, <2>3 DEF EvalInv, Rows
<1>j. ASSUME NEW r \in Responses, NEW tool \in DOMAIN EvalTarget, NEW wrote \in Outputs, JobEnds(tool, wrote, r)
      PROVE  EvalInv'
  <2> DEFINE judged == EvalTarget[tool] # "none" /\ WithoutAppendix(wrote) # <<>> /\ Valid(r)
             result == [tool |-> tool, wrote |-> wrote,
                        result |-> IF judged THEN Append(wrote, "appendix") ELSE wrote]
  <2>1. /\ Len(evaluations) < MaxRows /\ Len(results) < MaxJobs /\ second' = second
        /\ results' = Append(results, result)
        /\ evaluations' = IF judged
                            THEN Append(evaluations, Evaluated(EvalTarget[tool], Len(results) + 1, WithoutAppendix(wrote), r))
                            ELSE evaluations
    BY <1>j DEF JobEnds
  <2>2. wrote \in Seq(Pieces)
    BY EvaluatorAssumption DEF Pieces
  <2>3. result \in Results /\ result.wrote = wrote /\ result.result \in {result.wrote, Append(result.wrote, "appendix")}
    BY <2>2 DEF Results, Pieces
  <2> HIDE DEF result
  <2>n. PICK n : n = Len(results)
    OBVIOUS
  <2>4. /\ n \in Nat /\ DOMAIN results = 1..n /\ DOMAIN results' = 1..(n + 1) /\ Len(results') = n + 1
        /\ results' \in Seq(Results)
        /\ \A k \in 1..n : results'[k] = results[k]
        /\ results'[n + 1] = result
    BY <2>1, <2>3, <2>n, <1>0
  <2>5. /\ \A k \in 1..(n + 1) : k \in 1..n \/ k = n + 1
        /\ n + 1 \in DOMAIN results'
        /\ \A k \in DOMAIN results : k \in DOMAIN results' /\ results'[k] = results[k]
    BY <2>4
  <2>6. \A k \in DOMAIN results' : results'[k].result \in {results'[k].wrote, Append(results'[k].wrote, "appendix")}
    BY <2>3, <2>4, <2>5, <1>0
  <2>7. Len(results') <= MaxJobs
    BY <2>1, <2>4, <2>n, EvaluatorAssumption
  <2>8. CASE judged
    <3>1. NormalizeAgentName(EvalTarget[tool]) \in Judged
      BY <2>8 DEF EvalTarget, NormalizeAgentName, Aliases, Judged
    <3>2. results'[n + 1].wrote = wrote
      BY <2>3, <2>4
    <3>3. evaluations' = Append(evaluations, Evaluated(EvalTarget[tool], n + 1, WithoutAppendix(wrote), r))
      BY <2>1, <2>8, <2>n
    <3> DEFINE text == WithoutAppendix(wrote)
    <3>4. text = WithoutAppendix(results'[n + 1].wrote)
      BY <3>2
    <3>5. Valid(r)
      BY <2>8
    <3> HIDE DEF text
    <3>6. evaluations' = Append(evaluations, Evaluated(EvalTarget[tool], n + 1, text, r))
      BY <3>3 DEF text
    <3> QED
      BY <3>1, <3>4, <3>5, <3>6, <2>1, <2>4, <2>5, <2>6, <2>7, RowStored
  <2>9. CASE ~judged
    <3>1. evaluations' = evaluations
      BY <2>1, <2>9
    <3> QED
      BY <3>1, <2>1, <2>4, <2>5, <2>6, <2>7 DEF EvalInv, Rows
  <2> QED
    BY <2>8, <2>9
<1>h. ASSUME NEW r \in Responses, NEW n \in DOMAIN results, NEW target \in DOMAIN Aliases,
             HandleEvaluateAgentPerformance(target, n, r)
      PROVE  EvalInv'
  <2>1. /\ Len(evaluations) < MaxRows /\ Valid(r) /\ UNCHANGED <<results, second>>
        /\ evaluations' = Append(evaluations, Evaluated(target, n, WithoutAppendix(results[n].result), r))
    BY <1>h DEF HandleEvaluateAgentPerformance
  <2>2. NormalizeAgentName(target) \in Judged
    BY DEF NormalizeAgentName, Aliases, Judged
  <2>3. WithoutAppendix(results[n].result) = WithoutAppendix(results[n].wrote)
    <3>1. results[n].wrote \in Seq(Pieces) /\ results[n].result \in {results[n].wrote, Append(results[n].wrote, "appendix")}
      BY <1>0 DEF Results
    <3> QED
      BY <3>1, JudgedResult
  <2> DEFINE text == WithoutAppendix(results[n].result)
  <2>4. text = WithoutAppendix(results'[n].wrote)
    BY <2>1, <2>3
  <2>5. evaluations' = Append(evaluations, Evaluated(target, n, text, r))
    BY <2>1
  <2> HIDE DEF text
  <2>6. Len(results') <= MaxJobs
    BY <2>1 DEF EvalInv
  <2>7. \A k \in DOMAIN results : k \in DOMAIN results' /\ results'[k] = results[k]
    BY <2>1
  <2> QED
    BY <2>1, <2>2, <2>4, <2>5, <2>6, <2>7, <1>0, RowStored
<1> QED
  BY <1>u, <1>s, <1>j, <1>h DEF EvaluatorNext

(* Of any rows with scores and times there is one that no other is better  *)
(* than.                                                                   *)
Scored(R, score, at, latest) ==
  \A i \in R : i \in Nat /\ score[i] \in 1..10 /\ at[i] \in Nat /\ at[i] <= latest
Beats(R, score, at, i) ==
  \A j \in R \ {i} :
    \/ score[i] > score[j]
    \/ score[i] = score[j] /\ at[i] > at[j]
    \/ score[i] = score[j] /\ at[i] = at[j] /\ i < j
LEMMA BestExists ==
  ASSUME NEW R, R # {}, NEW score, NEW at, NEW latest \in Nat, Scored(R, score, at, latest)
  PROVE  \E i \in R : Beats(R, score, at, i)
<1> USE DEF Scored
<1> DEFINE Scores == {score[i] : i \in R}
<1>1. PICK s \in Scores : \A k \in Scores : s >= k
  <2>1. Scores \subseteq Nat /\ Scores # {} /\ \A k \in Scores : k <= 10
    <3>1. \A i \in R : score[i] \in Nat /\ score[i] <= 10
      OBVIOUS
    <3>2. \E i \in R : score[i] \in Scores
      OBVIOUS
    <3> QED
      BY <3>1, <3>2
  <2> HIDE DEF Scores
  <2> QED
    BY <2>1, GreatestNat
<1> DEFINE Top == {i \in R : score[i] = s}
           Times == {at[i] : i \in Top}
<1>2. PICK t \in Times : \A k \in Times : t >= k
  <2>1. Times \subseteq Nat /\ Times # {} /\ \A k \in Times : k <= latest
    OBVIOUS
  <2> HIDE DEF Times
  <2> QED
    BY <2>1, GreatestNat
<1> DEFINE Oldest == {i \in Top : at[i] = t}
<1>3. PICK i \in Oldest : \A k \in Oldest : i <= k
  <2>1. Oldest \subseteq Nat /\ Oldest # {}
    <3>1. \A i \in R : i \in Nat
      OBVIOUS
    <3>2. \E i \in Top : at[i] = t
      BY <1>2
    <3> QED
      BY <3>1, <3>2
  <2> HIDE DEF Oldest
  <2> QED
    BY <2>1, LeastNat
<1>4. ASSUME NEW j \in R, j # i
      PROVE  \/ score[i] > score[j]
             \/ score[i] = score[j] /\ at[i] > at[j]
             \/ score[i] = score[j] /\ at[i] = at[j] /\ i < j
  <2>1. i \in R /\ score[i] = s /\ at[i] = t /\ i \in Nat /\ j \in Nat
    <3>1. i \in Oldest
      BY <1>3
    <3> QED
      BY <3>1
  <2>2. score[j] <= s /\ score[j] \in Nat /\ s \in Nat
    BY <1>1, <2>1
  <2>3. CASE score[j] = s
    <3>1. at[j] <= t /\ at[j] \in Nat /\ t \in Nat
      BY <2>1, <2>3, <1>2
    <3>2. at[j] = t => i <= j
      BY <2>3, <1>3
    <3> QED
      BY <3>1, <3>2, <2>1, <2>3, <1>4
  <2> QED
    BY <2>1, <2>2, <2>3
<1> QED
  BY <1>4 DEF Beats

(* The row a query puts first is one no other is better than.              *)
LEMMA FirstIsBest ==
  EvalInv => \A rows \in SUBSET Rows : rows # {} =>
               First(rows) \in rows /\ \A j \in rows \ {First(rows)} : Better(First(rows), j)
<1> SUFFICES ASSUME EvalInv, NEW rows \in SUBSET Rows, rows # {}
             PROVE  First(rows) \in rows /\ \A j \in rows \ {First(rows)} : Better(First(rows), j)
  OBVIOUS
<1> DEFINE N == Len(evaluations)
           score == [i \in Rows |-> evaluations[i].score]
           at == [i \in Rows |-> evaluations[i].at]
<1>1. N \in Nat /\ Rows = 1..N /\ second \in Nat
  BY DEF EvalInv, Rows
<1>2. ASSUME NEW i \in Rows
      PROVE  evaluations[i].score \in 1..10 /\ evaluations[i].at \in Nat /\ evaluations[i].at <= second
  <2>1. evaluations[i] \in Evaluations
    BY DEF EvalInv, Rows
  <2> QED
    BY <2>1 DEF EvalInv, Evaluations
<1>3. Scored(rows, score, at, second)
  BY <1>1, <1>2 DEF Scored
<1>4. \E i \in rows : Beats(rows, score, at, i)
  <2> HIDE DEF N, score, at
  <2> QED
    BY <1>1, <1>3, BestExists
<1>5. \E i \in rows : \A j \in rows \ {i} : Better(i, j)
  BY <1>4 DEF Better, Beats
<1> QED
  BY <1>5 DEF First

(* A stored row is never changed or removed.                               *)
LEMMA RowsStay ==
  EvalInv /\ [EvaluatorNext]_evaluating =>
    Rows \subseteq Rows' /\ \A i \in Rows : evaluations'[i] = evaluations[i]
<1> SUFFICES ASSUME EvalInv, [EvaluatorNext]_evaluating
             PROVE  Rows \subseteq Rows' /\ \A i \in Rows : evaluations'[i] = evaluations[i]
  OBVIOUS
<1>1. evaluations' = evaluations \/ \E row : evaluations' = Append(evaluations, row)
  BY DEF EvaluatorNext, SecondPasses, JobEnds, HandleEvaluateAgentPerformance, evaluating
<1>2. evaluations \in Seq(Evaluations)
  BY DEF EvalInv
<1>3. ASSUME NEW row, evaluations' = Append(evaluations, row)
      PROVE  Rows \subseteq Rows' /\ \A i \in Rows : evaluations'[i] = evaluations[i]
  BY <1>2, <1>3 DEF Rows
<1> QED
  BY <1>1, <1>3 DEF Rows

(* With more rows to choose from the best is no worse.                     *)
LEMMA ExemplarStep ==
  ASSUME EvalInv, EvalInv', [EvaluatorNext]_evaluating, NEW agent, BestDesiredOutput(agent) # 0
  PROVE  evaluations'[BestDesiredOutput(agent)'].score >= evaluations[BestDesiredOutput(agent)].score
<1> DEFINE E == Exemplars(agent)
<1>b. PICK b : b = First(E)
  OBVIOUS
<1>c. PICK c : c = First(E)'
  OBVIOUS
<1>1. E # {} /\ E \in SUBSET Rows
  BY DEF BestDesiredOutput, First, Exemplars
<1>2. b \in E
  BY <1>1, <1>b, FirstIsBest
<1>3. E \subseteq E'
  BY RowsStay DEF Exemplars
<1>4. E' # {} /\ E' \in SUBSET Rows'
  BY <1>1, <1>3 DEF Exemplars
<1>5. EvalInv' => (\A rows \in SUBSET Rows : rows # {} =>
                     First(rows) \in rows /\ \A j \in rows \ {First(rows)} : Better(First(rows), j))'
  BY FirstIsBest, PTL
<1>6. c \in E' /\ \A j \in E' \ {c} :
        LET x == evaluations'[c]  y == evaluations'[j]
        IN \/ x.score > y.score
           \/ x.score = y.score /\ x.at > y.at
           \/ x.score = y.score /\ x.at = y.at /\ c < j
  <2>1. c \in E' /\ \A j \in E' \ {c} : Better(First(E), j)'
    BY <1>4, <1>5, <1>c
  <2> QED
    BY <2>1, <1>c DEF Better
<1>7. b \in Rows' /\ evaluations'[b] = evaluations[b]
  BY <1>1, <1>2, RowsStay
<1>8. evaluations'[c].score >= evaluations'[b].score
  <2>1. evaluations'[c] \in Evaluations /\ evaluations'[b] \in Evaluations
    BY <1>4, <1>6, <1>7 DEF EvalInv, Rows
  <2>2. evaluations'[c].score \in Nat /\ evaluations'[b].score \in Nat
    <3>1. \A e \in Evaluations : e.score \in Nat
      BY DEF Evaluations
    <3> QED
      BY <2>1, <3>1
  <2>3. CASE b = c
    BY <2>2, <2>3
  <2>4. CASE b # c
    BY <2>2, <2>4, <1>2, <1>3, <1>6
  <2> QED
    BY <2>3, <2>4
<1> QED
  BY <1>7, <1>8, <1>b, <1>c DEF BestDesiredOutput

-----------------------------------------------------------------------------
(* 5. The pages of the evaluations.                                        *)

(* What integer division leaves over is less than the divisor.             *)
LEMMA Division ==
  ASSUME NEW a \in Nat, NEW d \in Nat \ {0}
  PROVE  a \div d \in Nat /\ (a \div d) * d <= a /\ a < (a \div d) * d + d
OBVIOUS

(* Products with the page size keep the order of the pages.                *)
LEMMA Multiples ==
  ASSUME NEW a \in Nat, NEW b \in Nat, NEW d \in Nat
  PROVE  /\ a * d \in Nat
         /\ a <= b => a * d <= b * d
         /\ a < b => a * d + d <= b * d
OBVIOUS

(* The elements of a total order have the places 0 .. n - 1, each its own. *)
Orders(R, before) ==
  /\ before \in [R -> SUBSET R]
  /\ \A i \in R : i \notin before[i]
  /\ \A i, j \in R : i # j => i \in before[j] \/ j \in before[i]
  /\ \A i, j \in R : j \in before[i] => before[j] \subseteq before[i]
HasPlaces(R, n, before) ==
  /\ \A i \in R : Cardinality(before[i]) \in 0..(n - 1)
  /\ \A i, j \in R : Cardinality(before[i]) = Cardinality(before[j]) => i = j
  /\ \A k \in 0..(n - 1) : \E i \in R : Cardinality(before[i]) = k
LEMMA PlacesInOrder ==
  ASSUME NEW n \in Nat, NEW R, IsFiniteSet(R), Cardinality(R) = n, NEW before, Orders(R, before)
  PROVE  HasPlaces(R, n, before)
<1> DEFINE rank == [i \in R |-> Cardinality(before[i])]
<1>1. ASSUME NEW i \in R
      PROVE  IsFiniteSet(before[i]) /\ Cardinality(before[i]) \in 0..(n - 1)
  <2>1. before[i] \in SUBSET R /\ before[i] # R
    BY DEF Orders
  <2>2. IsFiniteSet(before[i]) /\ Cardinality(before[i]) \in Nat
        /\ Cardinality(before[i]) <= n /\ Cardinality(before[i]) # n
    BY <2>1, FS_Subset, FS_CardinalityType
  <2> QED
    BY <2>2
<1>2. ASSUME NEW i \in R, NEW j \in R, j \in before[i]
      PROVE  Cardinality(before[i]) # Cardinality(before[j])
  <2>1. before[j] \in SUBSET before[i] /\ before[j] # before[i]
    BY <1>2 DEF Orders
  <2> QED
    BY <2>1, <1>1, FS_Subset
<1>3. \A i, j \in R : Cardinality(before[i]) = Cardinality(before[j]) => i = j
  BY <1>2 DEF Orders
<1>4. rank \in Injection(R, 0..(n - 1))
  <2>1. rank \in [R -> 0..(n - 1)]
    BY <1>1
  <2>2. IsInjective(rank)
    BY <1>3 DEF IsInjective
  <2> QED
    BY <2>1, <2>2 DEF Injection
<1>5. IsFiniteSet(0..(n - 1)) /\ Cardinality(0..(n - 1)) = n
  BY FS_Interval
<1>6. rank \in Surjection(R, 0..(n - 1))
  <2> HIDE DEF rank
  <2> QED
    BY <1>4, <1>5, FS_Injection
<1>7. \A k \in 0..(n - 1) : \E i \in R : rank[i] = k
  <2> HIDE DEF rank
  <2> QED
    BY <1>6 DEF Surjection
<1> QED
  BY <1>1, <1>3, <1>7 DEF HasPlaces

(* The rows, newest first, each have one place.                            *)
LEMMA NewestOrders ==
  ASSUME EvalInv
  PROVE  /\ Len(evaluations) \in Nat /\ Rows = 1..Len(evaluations)
         /\ \A m \in Rows : Newest[m] \in Rows
         /\ \A i \in Rows : \E m \in Rows : Newest[m] = i
         /\ \A m, k \in Rows : Newest[m] = Newest[k] => m = k
<1> DEFINE N == Len(evaluations)
           before == [i \in Rows |-> {j \in Rows : Newer(j, i)}]
<1>1. N \in Nat /\ Rows = 1..N /\ \A i \in Rows : evaluations[i].at \in Nat
  <2>1. evaluations \in Seq(Evaluations)
    BY DEF EvalInv
  <2>2. \A e \in Evaluations : e.at \in Nat
    BY DEF Evaluations
  <2> QED
    BY <2>1, <2>2 DEF Rows
<1> HIDE DEF N
<1>2. IsFiniteSet(Rows) /\ Cardinality(Rows) = N
  BY <1>1, FS_Interval
<1>3. Orders(Rows, before)
  <2>1. \A i \in Rows : ~Newer(i, i)
    BY <1>1 DEF Newer
  <2>2. \A i, j \in Rows : i # j => Newer(i, j) \/ Newer(j, i)
    BY <1>1 DEF Newer
  <2>3. \A i, j, k \in Rows : Newer(j, i) /\ Newer(k, j) => Newer(k, i)
    BY <1>1 DEF Newer
  <2> QED
    BY <2>1, <2>2, <2>3 DEF Orders
<1>4. HasPlaces(Rows, N, before)
  <2> HIDE DEF before
  <2> QED
    BY <1>1, <1>2, <1>3, PlacesInOrder
<1>5. /\ \A i \in Rows : Cardinality({j \in Rows : Newer(j, i)}) \in 0..(N - 1)
      /\ \A i, k \in Rows : Cardinality({j \in Rows : Newer(j, i)}) = Cardinality({j \in Rows : Newer(j, k)}) => i = k
      /\ \A k \in 0..(N - 1) : \E i \in Rows : Cardinality({j \in Rows : Newer(j, i)}) = k
  BY <1>4 DEF HasPlaces
<1>6. ASSUME NEW m \in Rows
      PROVE  Newest[m] \in Rows /\ Cardinality({j \in Rows : Newer(j, Newest[m])}) = m - 1
  <2>1. m - 1 \in 0..(N - 1)
    BY <1>1
  <2>2. \E i \in Rows : Cardinality({j \in Rows : Newer(j, i)}) = m - 1
    BY <1>5, <2>1
  <2>3. Newest[m] = CHOOSE i \in Rows : Cardinality({j \in Rows : Newer(j, i)}) = m - 1
    BY DEF Newest
  <2> QED
    BY <2>2, <2>3
<1>7. ASSUME NEW i \in Rows PROVE \E m \in Rows : Newest[m] = i
  <2> DEFINE c == Cardinality({j \in Rows : Newer(j, i)})
  <2>1. c \in 0..(N - 1)
    BY <1>5
  <2>2. c + 1 \in Rows /\ (c + 1) - 1 = c
    <3> HIDE DEF c
    <3> QED
      BY <2>1, <1>1
  <2>3. Newest[c + 1] = i
    BY <2>2, <1>5, <1>6
  <2> QED
    BY <2>2, <2>3
<1>8. ASSUME NEW m \in Rows, NEW k \in Rows, Newest[m] = Newest[k] PROVE m = k
  <2>1. m - 1 = k - 1
    BY <1>6, <1>8
  <2> QED
    BY <2>1, <1>1
<1> QED
  BY <1>1, <1>6, <1>7, <1>8 DEF N

(* A page shows the rows at its places, no other.                          *)
LEMMA PageShows ==
  ASSUME EvalInv, NEW page \in 1..TotalPages
  PROVE  LET offset == (page - 1) * PageSize
         IN /\ offset \in Nat
            /\ \A k \in Nat : k \in DOMAIN ListPage(page) <=> 1 <= k /\ k <= PageSize /\ offset + k <= Len(evaluations)
            /\ \A k \in DOMAIN ListPage(page) : k \in Nat /\ offset + k \in Rows /\ ListPage(page)[k] = Newest[offset + k]
<1> DEFINE N == Len(evaluations)
           offset == (page - 1) * PageSize
<1>1. /\ N \in Nat /\ Rows = 1..N /\ \A m \in 1..N : Newest[m] \in Rows
      /\ PageSize \in Nat /\ PageSize > 0
  BY NewestOrders, EvaluatorAssumption
<1>2. TotalPages \in Nat /\ TotalPages * PageSize <= N + PageSize - 1
  BY <1>1, Division DEF TotalPages
<1>3. /\ page \in Nat /\ page - 1 \in Nat /\ page - 1 < TotalPages
  BY <1>2
<1>4. /\ offset \in Nat /\ offset + PageSize <= TotalPages * PageSize
  BY <1>1, <1>2, <1>3, Multiples
<1> HIDE DEF N, offset
<1>5. offset < N
  BY <1>1, <1>2, <1>4
<1>6. Max({page, 1}) = page
  BY <1>3 DEF Max
<1> DEFINE upto == IF offset + PageSize <= N THEN offset + PageSize ELSE N
<1>7. Min({offset + PageSize, N}) = upto
  BY <1>1, <1>4 DEF Min
<1>8. ListPage(page) = SubSeq(Newest, offset + 1, upto)
  BY <1>6, <1>7 DEF ListPage, N, offset
<1>9. upto \in 1..N /\ upto > offset /\ upto \in Nat
  BY <1>1, <1>4, <1>5
<1> HIDE DEF upto
<1>10. \A k \in (offset + 1)..upto : Newest[k] \in Rows
  BY <1>1, <1>4, <1>9
<1>11. /\ SubSeq(Newest, offset + 1, upto) \in Seq(Rows)
       /\ Len(SubSeq(Newest, offset + 1, upto)) = upto - offset
       /\ \A k \in 1..(upto - offset) : SubSeq(Newest, offset + 1, upto)[k] = Newest[offset + k]
  <2>1. offset + 1 \in Int /\ upto \in Int
    BY <1>4, <1>9
  <2>2. /\ SubSeq(Newest, offset + 1, upto) \in Seq(Rows)
        /\ Len(SubSeq(Newest, offset + 1, upto)) = IF offset + 1 <= upto THEN upto - (offset + 1) + 1 ELSE 0
        /\ \A k \in 1..(upto - (offset + 1) + 1) : SubSeq(Newest, offset + 1, upto)[k] = Newest[offset + 1 + k - 1]
    BY <2>1, <1>10, SubSeqProperties
  <2>3. upto - (offset + 1) + 1 = upto - offset /\ offset + 1 <= upto
    BY <1>4, <1>9
  <2>4. \A k \in 1..(upto - offset) : offset + 1 + k - 1 = offset + k
    BY <1>4, <1>9
  <2> QED
    BY <2>2, <2>3, <2>4
<1>12. DOMAIN ListPage(page) = 1..(upto - offset)
  BY <1>8, <1>11
<1>13. \A k \in Nat : k \in 1..(upto - offset) <=> 1 <= k /\ k <= PageSize /\ offset + k <= N
  BY <1>1, <1>4, <1>9 DEF upto
<1>14. \A k \in 1..(upto - offset) : k \in Nat /\ offset + k \in Rows /\ ListPage(page)[k] = Newest[offset + k]
  BY <1>1, <1>4, <1>8, <1>9, <1>11
<1> QED
  BY <1>4, <1>12, <1>13, <1>14 DEF N, offset

(* So the pages show every row once.                                       *)
LEMMA EvalInvPages == EvalInv => PagesShowEachOnce
<1> SUFFICES ASSUME EvalInv PROVE PagesShowEachOnce
  OBVIOUS
<1> DEFINE N == Len(evaluations)
           shown == [page \in 1..TotalPages |-> ListPage(page)]
<1>1. /\ N \in Nat /\ Rows = 1..N /\ PageSize \in Nat /\ PageSize > 0
      /\ \A m \in Rows : Newest[m] \in Rows
      /\ \A i \in Rows : \E m \in Rows : Newest[m] = i
      /\ \A m, k \in Rows : Newest[m] = Newest[k] => m = k
  BY NewestOrders, EvaluatorAssumption
<1>d. PageSize \in Nat \ {0}
  BY EvaluatorAssumption
<1> HIDE DEF N
<1>2. \A page \in DOMAIN shown : ToSet(shown[page]) \subseteq Rows
  <2> SUFFICES ASSUME NEW page \in 1..TotalPages, NEW k \in DOMAIN ListPage(page)
               PROVE  ListPage(page)[k] \in Rows
    BY DEF ToSet
  <2>1. (page - 1) * PageSize + k \in Rows /\ ListPage(page)[k] = Newest[(page - 1) * PageSize + k]
    BY PageShows
  <2> QED
    BY <2>1, <1>1
<1>3. ASSUME NEW i \in Rows
      PROVE  \E page \in DOMAIN shown : \E n \in DOMAIN shown[page] :
               \A q \in DOMAIN shown : \A k \in DOMAIN shown[q] :
                 shown[q][k] = i <=> q = page /\ k = n
  <2>1. PICK m \in Rows : Newest[m] = i
    BY <1>1
  <2> DEFINE before == (m - 1) \div PageSize
             page == before + 1
             n == m - before * PageSize
  <2>2. m \in Nat /\ m >= 1 /\ m <= N /\ m - 1 \in Nat
    BY <1>1
  <2>3. before \in Nat /\ before * PageSize <= m - 1 /\ m - 1 < before * PageSize + PageSize
    BY <2>2, <1>d, Division
  <2>p. before * PageSize \in Nat
    BY <2>3, <1>1, Multiples
  <2>4. TotalPages \in Nat /\ N + PageSize - 1 < TotalPages * PageSize + PageSize
    <3>1. N + PageSize - 1 \in Nat
      BY <1>1
    <3> QED
      BY <3>1, <1>d, Division DEF TotalPages, N
  <2> HIDE DEF before
  <2>5. page \in 1..TotalPages
    <3> SUFFICES ASSUME TotalPages <= before PROVE FALSE
      BY <2>3, <2>4
    <3> DEFINE T == TotalPages * PageSize
               P == before * PageSize
    <3>1. T <= P /\ T \in Nat
      BY <2>3, <2>4, <1>1, Multiples
    <3>2. P \in Nat /\ P <= m - 1 /\ N + PageSize - 1 < T + PageSize
      BY <2>3, <2>4, <2>p
    <3> HIDE DEF T, P
    <3> QED
      BY <3>1, <3>2, <2>2, <1>1
  <2>6. n \in Nat /\ 1 <= n /\ n <= PageSize /\ before * PageSize + n = m /\ page - 1 = before
    BY <2>2, <2>3, <2>p, <1>1
  <2> HIDE DEF n, page
  <2>7. n \in DOMAIN ListPage(page)
    BY <2>2, <2>5, <2>6, PageShows DEF N
  <2>8. ListPage(page)[n] = i
    BY <2>1, <2>5, <2>6, <2>7, PageShows
  <2>9. ASSUME NEW q \in 1..TotalPages, NEW k \in DOMAIN ListPage(q), ListPage(q)[k] = i
        PROVE  q = page /\ k = n
    <3>1. /\ k \in Nat /\ (q - 1) * PageSize + k \in Rows /\ Newest[(q - 1) * PageSize + k] = i
          /\ 1 <= k /\ k <= PageSize /\ (q - 1) * PageSize \in Nat
      BY <2>9, PageShows
    <3>2. (q - 1) * PageSize + k = m
      BY <3>1, <2>1, <1>1
    <3>3. q \in Nat /\ q - 1 \in Nat
      BY <2>4
    <3> DEFINE P == before * PageSize
               Q == (q - 1) * PageSize
    <3>a. /\ q - 1 < before => Q + PageSize <= P
          /\ before < q - 1 => P + PageSize <= Q
      BY <3>3, <2>3, <1>1, Multiples
    <3>b. Q + k = m /\ P + n = m /\ P \in Nat /\ Q \in Nat
      BY <3>1, <3>2, <2>6, <2>p
    <3>c. k \in Nat /\ k >= 1 /\ k <= PageSize /\ n \in Nat /\ n >= 1 /\ n <= PageSize /\ PageSize \in Nat
      BY <3>1, <2>6, <1>1
    <3> HIDE DEF P, Q
    <3>4. ~(q - 1 < before) /\ ~(before < q - 1)
      <4>1. ~(Q + PageSize <= P) /\ ~(P + PageSize <= Q)
        BY <3>b, <3>c
      <4> QED
        BY <4>1, <3>a
    <3>6. q - 1 = before
      BY <3>3, <3>4, <2>3
    <3> QED
      <4>1. q = page
        BY <3>3, <3>6, <2>3 DEF page
      <4>2. k = n
        BY <3>b, <3>6, <3>1, <2>6 DEF P, Q
      <4> QED
        BY <4>1, <4>2
  <2> QED
    BY <2>5, <2>7, <2>8, <2>9
<1>4. ListPage(0) = ListPage(1)
  <2>1. Max({0, 1}) = 1 /\ Max({1, 1}) = 1
    BY DEF Max
  <2> QED
    BY <2>1 DEF ListPage
<1> QED
  BY <1>2, <1>3, <1>4 DEF PagesShowEachOnce

-----------------------------------------------------------------------------
(* 6. Sums over finite sets, whatever the order of the fold.               *)

(* What holds of a set when it does of its proper subsets holds of every   *)
(* subset.                                                                 *)
BySize(D, G) == \A s \in SUBSET D : (\A t \in SUBSET s : t # s => t \in G) => s \in G
LEMMA SizeInduction ==
  ASSUME NEW D, IsFiniteSet(D), NEW G, BySize(D, G)
  PROVE  SUBSET D \subseteq G
<1> DEFINE Sizes == {Cardinality(s) : s \in (SUBSET D) \ G}
<1>1. ASSUME NEW s \in SUBSET D
      PROVE  IsFiniteSet(s) /\ Cardinality(s) \in Nat
  BY FS_Subset, FS_CardinalityType
<1> SUFFICES ASSUME NEW bad \in SUBSET D, bad \notin G PROVE FALSE
  OBVIOUS
<1>2. Sizes \subseteq Nat /\ Sizes # {}
  BY <1>1
<1>3. PICK m \in Sizes : \A k \in Sizes : m <= k
  <2> HIDE DEF Sizes
  <2> QED
    BY <1>2, LeastNat
<1>4. PICK s \in SUBSET D : s \notin G /\ m = Cardinality(s)
  OBVIOUS
<1>5. ASSUME NEW t \in SUBSET s, t # s PROVE t \in G
  <2>1. /\ IsFiniteSet(s) /\ t \in SUBSET D
        /\ m \in Nat /\ Cardinality(t) \in Nat
    BY <1>1, <1>4
  <2>2. Cardinality(t) <= m /\ Cardinality(t) # m
    BY <1>4, <1>5, <2>1, FS_Subset
  <2> SUFFICES ASSUME t \notin G PROVE FALSE
    OBVIOUS
  <2>3. Cardinality(t) \in Sizes
    BY <2>1
  <2>4. m <= Cardinality(t)
    BY <2>3, <1>3
  <2> QED
    BY <2>1, <2>2, <2>4
<1> QED
  BY <1>4, <1>5 DEF BySize

(* F[s] is the sum of the weights of the elements of s: in whatever order  *)
(* the fold takes them.                                                    *)
SomeOf(D) == [s \in SUBSET D |-> CHOOSE x \in s : TRUE]
Sums(D, w, F) ==
  /\ w \in [D -> Nat]
  /\ F \in [SUBSET D -> Nat]
  /\ \A s \in SUBSET D : F[s] = IF s = {} THEN 0 ELSE w[SomeOf(D)[s]] + F[s \ {SomeOf(D)[s]}]

(* There is such a sum over every finite set.                              *)
LEMMA SumsExist ==
  ASSUME NEW D, IsFiniteSet(D), NEW w \in [D -> Nat]
  PROVE  \E F : Sums(D, w, F)
<1> DEFINE step == [p \in D \X Nat |-> w[p[1]] + p[2]]
<1>1. step \in [D \X Nat -> Nat]
  OBVIOUS
<1>2. Picks(D, SomeOf(D))
  BY DEF Picks, SomeOf
<1>3. PICK F \in [SUBSET D -> Nat] : Folds(D, 0, SomeOf(D), step, F)
  <2> HIDE DEF step
  <2> QED
    BY <1>1, <1>2, FoldExists
<1>4. ASSUME NEW s \in SUBSET D, s # {}
      PROVE  F[s] = w[SomeOf(D)[s]] + F[s \ {SomeOf(D)[s]}]
  <2>1. SomeOf(D)[s] \in D /\ F[s \ {SomeOf(D)[s]}] \in Nat
    BY <1>2, <1>4 DEF Picks
  <2>2. F[s] = step[<<SomeOf(D)[s], F[s \ {SomeOf(D)[s]}]>>]
    BY <1>3, <1>4 DEF Folds
  <2> QED
    BY <2>1, <2>2
<1>5. F[{}] = 0
  BY <1>3 DEF Folds
<1> QED
  BY <1>4, <1>5 DEF Sums

(* SumFunction is that sum.                                                *)
LEMMA SumIs ==
  ASSUME NEW D, IsFiniteSet(D), NEW w \in [D -> Nat]
  PROVE  \E F : Sums(D, w, F) /\ SumFunction(w) = F[D]
<1> DEFINE Is(F) == F = [s \in SUBSET D |-> IF s = {} THEN 0 ELSE w[CHOOSE x \in s : TRUE] + F[s \ {CHOOSE x \in s : TRUE}]]
           it == CHOOSE F : Is(F)
<1>1. PICK F : Sums(D, w, F)
  BY SumsExist
<1>2. F = [s \in SUBSET D |-> F[s]]
  BY <1>1 DEF Sums
<1>3. \A s \in SUBSET D : F[s] = IF s = {} THEN 0 ELSE w[CHOOSE x \in s : TRUE] + F[s \ {CHOOSE x \in s : TRUE}]
  BY <1>1 DEF Sums, SomeOf
<1>4. Is(F)
  BY <1>2, <1>3
<1>5. Is(it)
  <2> HIDE DEF Is
  <2> QED
    BY <1>4
<1>6. \A s \in SUBSET D : it[s] = IF s = {} THEN 0 ELSE w[SomeOf(D)[s]] + it[s \ {SomeOf(D)[s]}]
  <2> HIDE DEF it
  <2>1. \A s \in SUBSET D : it[s] = IF s = {} THEN 0 ELSE w[CHOOSE x \in s : TRUE] + it[s \ {CHOOSE x \in s : TRUE}]
    BY <1>5
  <2> QED
    BY <2>1 DEF SomeOf
<1>7. SumFunction(w) = it[D]
  BY DEF SumFunction, SumFunctionOnSet, FoldFunctionOnSet, MapThenFoldSet
<1> DEFINE G == {s \in SUBSET D : it[s] = F[s]}
<1>8. Inductive(D, SomeOf(D), G)
  <2> HIDE DEF it
  <2>1. {} \in G
    BY <1>1, <1>6 DEF Sums
  <2>2. ASSUME NEW s \in SUBSET D, s # {}
        PROVE  SomeOf(D)[s] \in s /\ (s \ {SomeOf(D)[s]} \in G => s \in G)
    <3>1. SomeOf(D)[s] \in s
      BY <2>2 DEF SomeOf
    <3> QED
      BY <3>1, <2>2, <1>1, <1>6 DEF Sums
  <2> QED
    BY <2>1, <2>2 DEF Inductive
<1>9. D \in G
  <2> HIDE DEF G
  <2> QED
    BY <1>8, SubsetInduction
<1> QED
  BY <1>1, <1>7, <1>9

Takes(D, w, F) == \A s \in SUBSET D : \A x \in s : F[s] = w[x] + F[s \ {x}]

(* Any element can be taken out first.                                     *)
LEMMA SumTakes ==
  ASSUME NEW D, NEW w, NEW F, IsFiniteSet(D), Sums(D, w, F)
  PROVE  Takes(D, w, F)
<1> SUFFICES \A s \in SUBSET D : \A x \in s : F[s] = w[x] + F[s \ {x}]
  BY DEF Takes
<1> DEFINE ok(s) == \A x \in s : F[s] = w[x] + F[s \ {x}]
           G == {s \in SUBSET D : ok(s)}
<1>1. ASSUME NEW s \in SUBSET D, \A t \in SUBSET s : t # s => t \in G
      PROVE  s \in G
  <2> SUFFICES ASSUME NEW x \in s PROVE F[s] = w[x] + F[s \ {x}]
    OBVIOUS
  <2> DEFINE c == SomeOf(D)[s]
  <2>1. c \in s /\ F[s] = w[c] + F[s \ {c}]
    BY DEF Sums, SomeOf
  <2>2. CASE x = c
    BY <2>1, <2>2
  <2>3. CASE x # c
    <3> HIDE DEF c
    <3>1. x \in s \ {c} /\ c \in s \ {x} /\ s \ {c} # s /\ s \ {x} # s /\ (s \ {c}) \ {x} = (s \ {x}) \ {c}
      BY <2>1, <2>3
    <3>2. s \ {c} \in G /\ s \ {x} \in G
      BY <3>1, <1>1
    <3>3. F[s \ {c}] = w[x] + F[(s \ {c}) \ {x}] /\ F[s \ {x}] = w[c] + F[(s \ {x}) \ {c}]
      BY <3>1, <3>2
    <3>4. w[x] \in Nat /\ w[c] \in Nat /\ F[(s \ {c}) \ {x}] \in Nat
      BY <2>1 DEF Sums
    <3> PICK a, b, r : a = w[x] /\ b = w[c] /\ r = F[(s \ {c}) \ {x}]
      OBVIOUS
    <3>5. F[s \ {c}] = a + r /\ F[s \ {x}] = b + r /\ F[s] = b + (a + r)
      BY <2>1, <3>1, <3>3
    <3> QED
      BY <3>4, <3>5
  <2> QED
    BY <2>2, <2>3
<1>2. BySize(D, G)
  <2> HIDE DEF G
  <2> QED
    BY <1>1 DEF BySize
<1>3. SUBSET D \subseteq G
  <2> HIDE DEF G
  <2> QED
    BY <1>2, SizeInduction
<1> QED
  BY <1>3

(* The sum of two disjoint parts is the sum of theirs.                     *)
LEMMA SumOfParts ==
  ASSUME NEW D, IsFiniteSet(D), NEW w \in [D -> Nat], NEW F, Sums(D, w, F),
         NEW A \in SUBSET D, NEW B \in SUBSET D, A \cap B = {}
  PROVE  F[A \cup B] = F[A] + F[B]
<1>0. Takes(D, w, F)
  BY SumTakes
<1> DEFINE G == {s \in SUBSET A : F[s \cup B] = F[s] + F[B]}
<1>1. IsFiniteSet(A)
  BY FS_Subset
<1>2. {} \in G
  <2>1. F[{}] = 0 /\ F[B] \in Nat /\ {} \cup B = B
    BY DEF Sums
  <2> QED
    BY <2>1
<1>3. ASSUME NEW s \in SUBSET A, s # {}, s \ {SomeOf(A)[s]} \in G
      PROVE  s \in G
  <2> PICK x : x = SomeOf(A)[s]
    OBVIOUS
  <2>1. x \in s /\ x \notin B
    BY <1>3 DEF SomeOf
  <2>2. s \in SUBSET D /\ s \cup B \in SUBSET D /\ x \in s \cup B /\ (s \cup B) \ {x} = (s \ {x}) \cup B
    BY <2>1
  <2>3. F[s \cup B] = w[x] + F[(s \cup B) \ {x}] /\ F[s] = w[x] + F[s \ {x}]
    BY <1>0, <2>1, <2>2 DEF Takes
  <2>4. F[(s \ {x}) \cup B] = F[s \ {x}] + F[B]
    BY <1>3
  <2>5. w[x] \in Nat /\ F[s \ {x}] \in Nat /\ F[B] \in Nat
    <3>1. s \ {x} \in SUBSET D /\ x \in D
      BY <2>1
    <3> QED
      BY <3>1 DEF Sums
  <2> PICK a, b, r : a = w[x] /\ b = F[B] /\ r = F[s \ {x}]
    OBVIOUS
  <2>6. F[s \cup B] = a + (r + b) /\ F[s] = a + r
    BY <2>2, <2>3, <2>4
  <2>7. F[s \cup B] = F[s] + F[B]
    BY <2>5, <2>6
  <2> QED
    BY <2>7
<1>4. Inductive(A, SomeOf(A), G)
  <2>1. ASSUME NEW s \in SUBSET A, s # {} PROVE SomeOf(A)[s] \in s
    BY <2>1 DEF SomeOf
  <2> HIDE DEF G
  <2> QED
    BY <1>2, <1>3, <2>1 DEF Inductive
<1>5. A \in G
  <2> HIDE DEF G
  <2> QED
    BY <1>1, <1>4, SubsetInduction
<1> QED
  BY <1>5

(* The sum over a part is what the fold over the whole says of that part.  *)
LEMMA SumOfPart ==
  ASSUME NEW D, IsFiniteSet(D), NEW w \in [D -> Nat], NEW F, Sums(D, w, F), NEW S \in SUBSET D
  PROVE  SumFunction([x \in S |-> w[x]]) = F[S]
<1> DEFINE v == [x \in S |-> w[x]]
<1>1. IsFiniteSet(S) /\ v \in [S -> Nat]
  BY FS_Subset
<1>2. PICK E : Sums(S, v, E) /\ SumFunction(v) = E[S]
  <2> HIDE DEF v
  <2> QED
    BY <1>1, SumIs
<1> DEFINE G == {s \in SUBSET S : E[s] = F[s]}
<1>3. {} \in G
  BY <1>2 DEF Sums
<1>4. ASSUME NEW s \in SUBSET S, s # {}
      PROVE  SomeOf(S)[s] \in s /\ (s \ {SomeOf(S)[s]} \in G => s \in G)
  <2>1. s \in SUBSET D
    OBVIOUS
  <2> PICK x : x = SomeOf(S)[s] /\ x = SomeOf(D)[s] /\ x \in s
    BY <1>4, <2>1 DEF SomeOf
  <2>2. E[s] = v[x] + E[s \ {x}]
    BY <1>2, <1>4 DEF Sums
  <2>3. F[s] = w[x] + F[s \ {x}]
    BY <2>1, <1>4 DEF Sums
  <2>4. v[x] = w[x]
    OBVIOUS
  <2>5. s \ {x} \in G => E[s] = F[s]
    <3> HIDE DEF v
    <3> QED
      BY <2>2, <2>3, <2>4
  <2> QED
    BY <2>5
<1>5. Inductive(S, SomeOf(S), G)
  <2> HIDE DEF G
  <2> QED
    BY <1>3, <1>4 DEF Inductive
<1>6. S \in G
  <2> HIDE DEF G
  <2> QED
    BY <1>1, <1>5, SubsetInduction
<1> QED
  BY <1>2, <1>6

(* The sums of the groups of a set add up to its sum.                      *)
Grouped(D, P, g, F, v) == \A p \in P : v[p] = F[{r \in D : g[r] = p}]
LEMMA SumOfGroups ==
  ASSUME NEW D, IsFiniteSet(D), NEW w \in [D -> Nat], NEW F, Sums(D, w, F),
         NEW P, IsFiniteSet(P), NEW g \in [D -> P], NEW v \in [P -> Nat], Grouped(D, P, g, F, v)
  PROVE  SumFunction(v) = F[D]
<1> DEFINE within(s) == {r \in D : g[r] \in s}
           group(p) == {r \in D : g[r] = p}
<1>1. PICK E : Sums(P, v, E) /\ SumFunction(v) = E[P]
  BY SumIs
<1> DEFINE G == {s \in SUBSET P : E[s] = F[within(s)]}
<1>2. {} \in G
  <2>1. within({}) = {}
    OBVIOUS
  <2> QED
    BY <2>1, <1>1 DEF Sums
<1>3. ASSUME NEW s \in SUBSET P, s # {}
      PROVE  SomeOf(P)[s] \in s /\ (s \ {SomeOf(P)[s]} \in G => s \in G)
  <2> PICK x : x = SomeOf(P)[s] /\ x \in s
    BY <1>3 DEF SomeOf
  <2>1. E[s] = v[x] + E[s \ {x}]
    BY <1>1, <1>3 DEF Sums
  <2>2. /\ within(s) = group(x) \cup within(s \ {x})
        /\ group(x) \cap within(s \ {x}) = {}
        /\ group(x) \in SUBSET D /\ within(s \ {x}) \in SUBSET D
    OBVIOUS
  <2>3. v[x] = F[group(x)]
    BY DEF Grouped
  <2>4. F[within(s)] = F[group(x)] + F[within(s \ {x})]
    <3> PICK A, B : A = group(x) /\ B = within(s \ {x})
      OBVIOUS
    <3>1. A \in SUBSET D /\ B \in SUBSET D /\ A \cap B = {}
      BY <2>2
    <3>2. F[A \cup B] = F[A] + F[B]
      BY <3>1, SumOfParts
    <3> QED
      BY <2>2, <3>2
  <2>5. s \ {x} \in G => E[s] = F[within(s)]
    <3> HIDE DEF within, group
    <3> QED
      BY <2>1, <2>3, <2>4
  <2> QED
    BY <2>5
<1>4. Inductive(P, SomeOf(P), G)
  <2> HIDE DEF G
  <2> QED
    BY <1>2, <1>3 DEF Inductive
<1>5. P \in G
  <2> HIDE DEF G
  <2> QED
    BY <1>4, SubsetInduction
<1>6. within(P) = D
  OBVIOUS
<1> QED
  BY <1>1, <1>5, <1>6

(* Where only one element weighs anything, the sum is its weight.          *)
OnlyOne(P, v, q) == \A p \in P : p # q => v[p] = 0
LEMMA SumOfOne ==
  ASSUME NEW P, IsFiniteSet(P), NEW v \in [P -> Nat], NEW q, OnlyOne(P, v, q)
  PROVE  SumFunction(v) = IF q \in P THEN v[q] ELSE 0
<1>1. PICK E : Sums(P, v, E) /\ SumFunction(v) = E[P]
  BY SumIs
<1> DEFINE G == {s \in SUBSET P : q \notin s => E[s] = 0}
<1>2. {} \in G
  BY <1>1 DEF Sums
<1>3. ASSUME NEW s \in SUBSET P, s # {}
      PROVE  SomeOf(P)[s] \in s /\ (s \ {SomeOf(P)[s]} \in G => s \in G)
  <2> PICK x : x = SomeOf(P)[s] /\ x \in s
    BY <1>3 DEF SomeOf
  <2>1. E[s] = v[x] + E[s \ {x}]
    BY <1>1, <1>3 DEF Sums
  <2>2. q \notin s => v[x] = 0
    BY DEF OnlyOne
  <2> QED
    BY <2>1, <2>2
<1>4. Inductive(P, SomeOf(P), G)
  <2> HIDE DEF G
  <2> QED
    BY <1>2, <1>3 DEF Inductive
<1>5. SUBSET P \subseteq G
  <2> HIDE DEF G
  <2> QED
    BY <1>4, SubsetInduction
<1>6. CASE q \in P
  <2>1. E[P] = v[q] + E[P \ {q}]
    BY <1>1, <1>6, SumTakes DEF Takes
  <2>2. P \ {q} \in G /\ q \notin P \ {q}
    BY <1>5
  <2>3. E[P \ {q}] = 0
    BY <2>2
  <2> QED
    BY <1>1, <1>6, <2>1, <2>3
<1>7. CASE q \notin P
  BY <1>1, <1>5, <1>7
<1> QED
  BY <1>6, <1>7

-----------------------------------------------------------------------------
(* 7. The metrics: rows are never changed, a job charges the bridge once.  *)

MetricsRows == [id : Nat \X Nat, uuid : Jobs, phase : Phases, tokens : Nat, hour : Nat, date : Nat]
Table(table) == IsFiniteSet(table) /\ table \subseteq MetricsRows

MetricsInv ==
  /\ now \in 0..LastTick /\ counter \in [Servers -> Nat] /\ lost \subseteq Jobs
  /\ Table(llmCalls) /\ Table(cacheHits) /\ Table(premiumBridge) /\ Table(agentRuns)
  /\ \A r \in cacheHits : r.phase = "scout"
  /\ DOMAIN jobs = Jobs /\ \A j \in Jobs : jobs[j].tool \in JobTools /\ jobs[j].calls \in Nat
  /\ \A r \in premiumBridge : jobs[r.uuid].end # "running"
  /\ \A r, s \in premiumBridge : r.uuid = s.uuid => r = s
  /\ \A j \in Jobs : jobs[j].end = "recorded" /\ PhasesOf(jobs[j].tool) # <<>> /\ j \notin lost
       => \E r \in premiumBridge : r.uuid = j

(* The tokens of the rows of a table.                                      *)
LEMMA TokensOfPart ==
  ASSUME NEW T, Table(T)
  PROVE  \E F : /\ Sums(T, [r \in T |-> r.tokens], F)
                /\ \A S \in SUBSET T : Tokens(S) = F[S]
<1> DEFINE w == [r \in T |-> r.tokens]
<1>1. w \in [T -> Nat] /\ IsFiniteSet(T)
  BY DEF Table, MetricsRows
<1>2. PICK F : Sums(T, w, F)
  <2> HIDE DEF w
  <2> QED
    BY <1>1, SumsExist
<1>3. ASSUME NEW S \in SUBSET T PROVE Tokens(S) = F[S]
  <2>1. SumFunction([r \in S |-> w[r]]) = F[S]
    <3> HIDE DEF w
    <3> QED
      BY <1>1, <1>2, SumOfPart
  <2>2. [r \in S |-> w[r]] = [r \in S |-> r.tokens]
    OBVIOUS
  <2> QED
    BY <2>1, <2>2 DEF Tokens
<1> QED
  BY <1>2, <1>3

Covers(P, T, date) == \A r \in T : r.date = date => r.phase \in P
(* The tokens of a day's phases add up to the day's.                       *)
LEMMA TokensByPhase ==
  ASSUME NEW T, Table(T), NEW date, NEW P, IsFiniteSet(P), Covers(P, T, date)
  PROVE  SumFunction([p \in P |-> Tokens(Of(T, date, p))]) = Tokens({r \in T : r.date = date})
<1> DEFINE D == {r \in T : r.date = date}
           w == [r \in D |-> r.tokens]
           g == [r \in D |-> r.phase]
           v == [p \in P |-> Tokens(Of(T, date, p))]
<1>1. Table(D) /\ IsFiniteSet(D)
  BY FS_Subset DEF Table
<1>2. w \in [D -> Nat] /\ g \in [D -> P]
  BY DEF Table, MetricsRows, Covers
<1>3. PICK F : Sums(D, w, F) /\ \A S \in SUBSET D : Tokens(S) = F[S]
  <2> HIDE DEF D
  <2> QED
    BY <1>1, TokensOfPart
<1>4. ASSUME NEW p \in P
      PROVE  Of(T, date, p) = {r \in D : g[r] = p} /\ Of(T, date, p) \in SUBSET D
  BY DEF Of
<1>5. v \in [P -> Nat] /\ Grouped(D, P, g, F, v)
  <2>1. ASSUME NEW p \in P PROVE v[p] \in Nat /\ v[p] = F[{r \in D : g[r] = p}]
    <3>1. Of(T, date, p) = {r \in D : g[r] = p} /\ Of(T, date, p) \in SUBSET D
      BY <1>4
    <3>2. Tokens(Of(T, date, p)) = F[Of(T, date, p)]
      BY <3>1, <1>3
    <3>3. F[Of(T, date, p)] \in Nat
      BY <3>1, <1>3 DEF Sums
    <3> QED
      BY <3>1, <3>2, <3>3
  <2> QED
    BY <2>1 DEF Grouped
<1>6. SumFunction(v) = F[D]
  <2> HIDE DEF v, g, w, D
  <2> QED
    BY <1>1, <1>2, <1>3, <1>5, SumOfGroups
<1>7. Tokens(D) = F[D]
  BY <1>3
<1> QED
  BY <1>6, <1>7

(* A day's active phases cover the rows of each table.                     *)
LEMMA ActiveOnes ==
  ASSUME MetricsInv, NEW date
  PROVE  /\ ActivePhases(date) \subseteq Phases /\ IsFiniteSet(ActivePhases(date))
         /\ Covers(ActivePhases(date), llmCalls, date) /\ Covers(ActivePhases(date), cacheHits, date)
         /\ Covers(ActivePhases(date), premiumBridge, date)
<1>1. ActivePhases(date) \subseteq Phases
  BY DEF ActivePhases, MetricsInv, Table, MetricsRows
<1>2. IsFiniteSet(Phases)
  <2>1. IsFiniteSet({"builder"})
    BY FS_Singleton
  <2>2. IsFiniteSet({"builder"} \cup {"scout"})
    BY <2>1, FS_AddElement
  <2>3. IsFiniteSet(({"builder"} \cup {"scout"}) \cup {"triage"})
    BY <2>2, FS_AddElement
  <2>4. Phases = ({"builder"} \cup {"scout"}) \cup {"triage"}
    BY DEF Phases
  <2> QED
    BY <2>3, <2>4
<1> QED
  BY <1>1, <1>2, FS_Subset DEF ActivePhases, Covers

(* The parts of the summary add up to its totals.                          *)
LEMMA MetricsInvSummary ==
  ASSUME MetricsInv PROVE SummaryAddsUp
<1> DEFINE day == UtcDate
           P == ActivePhases(day)
<1>1. /\ IsFiniteSet(P)
      /\ Covers(P, llmCalls, day) /\ Covers(P, cacheHits, day) /\ Covers(P, premiumBridge, day)
  BY ActiveOnes
<1>2. SumFunction([p \in P |-> Tokens(Of(llmCalls, day, p))]) = Tokens({r \in llmCalls : r.date = day})
  <2> HIDE DEF P, day
  <2> QED
    BY <1>1, TokensByPhase DEF MetricsInv
<1>3. SumFunction([p \in P |-> Tokens(Of(premiumBridge, day, p))]) = Tokens({r \in premiumBridge : r.date = day})
  <2> HIDE DEF P, day
  <2> QED
    BY <1>1, TokensByPhase DEF MetricsInv
<1> DEFINE v == [p \in P |-> Cardinality(Of(cacheHits, day, p))]
<1>4. ASSUME NEW p PROVE /\ Cardinality(Of(cacheHits, day, p)) \in Nat
                         /\ p # "scout" \/ p \notin P => Cardinality(Of(cacheHits, day, p)) = 0
  <2>1. IsFiniteSet(Of(cacheHits, day, p))
    BY FS_Subset DEF MetricsInv, Table, Of
  <2>2. p # "scout" \/ p \notin P => Of(cacheHits, day, p) = {}
    BY <1>1 DEF Of, MetricsInv, Covers
  <2> QED
    BY <2>1, <2>2, FS_CardinalityType, FS_EmptySet
<1>5. SumFunction(v) = Cardinality(Of(cacheHits, day, "scout"))
  <2>1. v \in [P -> Nat] /\ OnlyOne(P, v, "scout")
    BY <1>4 DEF OnlyOne
  <2>2. SumFunction(v) = IF "scout" \in P THEN v["scout"] ELSE 0
    <3> HIDE DEF v, P
    <3> QED
      BY <1>1, <2>1, SumOfOne
  <2> QED
    BY <2>2, <1>4
<1> DEFINE byPhase == QuerySummary.byPhase
<1>6. byPhase = [p \in P |-> DailyRow(day, p)] /\ DOMAIN byPhase = P
  BY DEF QuerySummary, QueryDaily
<1>7. /\ [p \in DOMAIN byPhase |-> byPhase[p]["tokens"]] = [p \in P |-> Tokens(Of(llmCalls, day, p))]
      /\ [p \in DOMAIN byPhase |-> byPhase[p]["premium"]] = [p \in P |-> Tokens(Of(premiumBridge, day, p))]
      /\ [p \in DOMAIN byPhase |-> byPhase[p]["hits"]] = v
  <2> HIDE DEF byPhase, P
  <2> QED
    BY <1>6 DEF DailyRow
<1>8. /\ QuerySummary.tokens = Tokens({r \in llmCalls : r.date = day})
      /\ QuerySummary.premium = Tokens({r \in premiumBridge : r.date = day})
      /\ QuerySummary.scoutHits = Cardinality(Of(cacheHits, day, "scout"))
  BY DEF QuerySummary
<1> HIDE DEF v, P, day
<1> QED
  BY <1>2, <1>3, <1>5, <1>7, <1>8 DEF SummaryAddsUp

(* The running sum over the hours of a set of rows.                        *)
Hours(rows) == {r.hour : r \in rows}
Spent(rows) == [h \in Hours(rows) |-> Tokens({r \in rows : r.hour = h})]
Earlier(rows, h) == {k \in Hours(rows) : k < h}
UpTo(rows, h) == {r \in rows : r.hour <= h}
Running(rows, c) ==
  c = [h \in Hours(rows) |->
        Spent(rows)[h] + (IF Earlier(rows, h) = {} THEN 0 ELSE c[Max(Earlier(rows, h))])]

(* A finite set of numbers has its Max in it.                              *)
LEMMA MaxOfFinite ==
  ASSUME NEW S, S \subseteq Nat, IsFiniteSet(S), S # {}
  PROVE  Max(S) \in S /\ \A k \in S : k <= Max(S)
<1> DEFINE G == {s \in SUBSET S : s # {} => \E m \in s : \A k \in s : k <= m}
<1>1. ASSUME NEW s \in SUBSET S, s # {}, s \ {SomeOf(S)[s]} \in G
      PROVE  s \in G
  <2> PICK x : x = SomeOf(S)[s] /\ x \in s
    BY <1>1 DEF SomeOf
  <2>1. x \in Nat
    OBVIOUS
  <2>2. CASE s \ {x} = {}
    BY <2>1, <2>2
  <2>3. CASE s \ {x} # {}
    <3>1. PICK m \in s \ {x} : \A k \in s \ {x} : k <= m
      BY <1>1, <2>3
    <3>2. \A k \in s : k <= (IF x <= m THEN m ELSE x)
      BY <3>1, <2>1
    <3> QED
      BY <3>1, <3>2
  <2> QED
    BY <2>2, <2>3
<1>2. \A s \in SUBSET S : s # {} => SomeOf(S)[s] \in s
  BY DEF SomeOf
<1>3. Inductive(S, SomeOf(S), G)
  <2>1. {} \in G
    OBVIOUS
  <2> HIDE DEF G
  <2> QED
    BY <1>1, <1>2, <2>1 DEF Inductive
<1>4. S \in G
  <2> HIDE DEF G
  <2> QED
    BY <1>3, SubsetInduction
<1>5. \E m \in S : \A k \in S : m >= k
  BY <1>4
<1> QED
  BY <1>5 DEF Max

(* The hours of some rows, and the latest of any of them.                  *)
LEMMA HoursAre ==
  ASSUME NEW rows, Table(rows)
  PROVE  /\ Hours(rows) \subseteq Nat /\ IsFiniteSet(Hours(rows))
         /\ \A S \in SUBSET Hours(rows) : S # {} => Max(S) \in S /\ \A k \in S : k <= Max(S)
<1>1. Hours(rows) \subseteq Nat
  BY DEF Hours, Table, MetricsRows
<1>2. IsFiniteSet(Hours(rows))
  <2> DEFINE hour == [r \in rows |-> r.hour]
  <2>1. hour \in Surjection(rows, Hours(rows))
    BY DEF Surjection, Hours
  <2>2. IsFiniteSet(rows)
    BY DEF Table
  <2> HIDE DEF hour
  <2> QED
    BY <2>1, <2>2, FS_Surjection
<1>3. ASSUME NEW S \in SUBSET Hours(rows), S # {}
      PROVE  Max(S) \in S /\ \A k \in S : k <= Max(S)
  <2>1. S \subseteq Nat /\ IsFiniteSet(S)
    BY <1>1, <1>2, FS_Subset
  <2> QED
    BY <2>1, <1>3, MaxOfFinite
<1> QED
  BY <1>1, <1>2, <1>3

(* The tokens up to an hour are its own and those up to the hour before it.*)
LEMMA UpToHour ==
  ASSUME NEW rows, Table(rows), NEW F, Sums(rows, [r \in rows |-> r.tokens], F),
         NEW h \in Hours(rows)
  PROVE  F[UpTo(rows, h)] =
           F[{r \in rows : r.hour = h}] +
             (IF Earlier(rows, h) = {} THEN 0 ELSE F[UpTo(rows, Max(Earlier(rows, h)))])
<1> DEFINE w == [r \in rows |-> r.tokens]
<1>1. w \in [rows -> Nat] /\ IsFiniteSet(rows) /\ Hours(rows) \subseteq Nat /\ \A r \in rows : r.hour \in Hours(rows)
  BY HoursAre DEF Table, MetricsRows, Hours
<1> PICK A : A = {r \in rows : r.hour = h}
  OBVIOUS
<1> PICK B : B = {r \in rows : r.hour < h}
  OBVIOUS
<1>2. A \in SUBSET rows /\ B \in SUBSET rows /\ A \cap B = {} /\ A \cup B = UpTo(rows, h)
  BY <1>1 DEF UpTo
<1>3. F[A \cup B] = F[A] + F[B]
  <2>1. Sums(rows, w, F)
    OBVIOUS
  <2> HIDE DEF w
  <2> QED
    BY <1>1, <1>2, <2>1, SumOfParts
<1>4. CASE Earlier(rows, h) = {}
  <2>1. B = {}
    BY <1>1, <1>4 DEF Earlier
  <2>2. F[B] = 0
    BY <2>1 DEF Sums
  <2> QED
    BY <1>2, <1>3, <1>4, <2>2
<1>5. CASE Earlier(rows, h) # {}
  <2> PICK m : m = Max(Earlier(rows, h))
    OBVIOUS
  <2>1. m \in Earlier(rows, h) /\ \A k \in Earlier(rows, h) : k <= m
    BY <1>5, HoursAre DEF Earlier
  <2>2. m \in Nat /\ h \in Nat /\ m < h
    BY <1>1, <2>1 DEF Earlier
  <2>3. \A r \in rows : r.hour \in Nat /\ (r.hour < h <=> r.hour <= m)
    BY <1>1, <2>1, <2>2 DEF Earlier
  <2>4. B = UpTo(rows, m)
    BY <2>3 DEF UpTo
  <2> QED
    BY <1>2, <1>3, <1>5, <2>4
<1> QED
  BY <1>4, <1>5

(* The running sum at an hour is the tokens up to it.                      *)
LEMMA RunningSum ==
  ASSUME NEW rows, Table(rows), NEW F, Sums(rows, [r \in rows |-> r.tokens], F), NEW c, Running(rows, c),
         \A S \in SUBSET rows : Tokens(S) = F[S]
  PROVE  \A h \in Hours(rows) : c[h] = F[UpTo(rows, h)]
<1> DEFINE Bad == {h \in Hours(rows) : c[h] # F[UpTo(rows, h)]}
<1> SUFFICES ASSUME Bad # {} PROVE FALSE
  OBVIOUS
<1>1. PICK h \in Bad : \A k \in Bad : h <= k
  <2>1. Bad \subseteq Nat
    BY HoursAre
  <2> HIDE DEF Bad
  <2> QED
    BY <2>1, LeastNat
<1>2. F[UpTo(rows, h)] =
           F[{r \in rows : r.hour = h}] +
             (IF Earlier(rows, h) = {} THEN 0 ELSE F[UpTo(rows, Max(Earlier(rows, h)))])
  BY UpToHour
<1>3. c[h] = Spent(rows)[h] + (IF Earlier(rows, h) = {} THEN 0 ELSE c[Max(Earlier(rows, h))])
  BY DEF Running
<1>4. Spent(rows)[h] = F[{r \in rows : r.hour = h}]
  BY DEF Spent
<1>5. CASE Earlier(rows, h) = {}
  BY <1>2, <1>3, <1>4, <1>5
<1>6. CASE Earlier(rows, h) # {}
  <2> PICK m : m = Max(Earlier(rows, h))
    OBVIOUS
  <2>1. m \in Earlier(rows, h)
    BY <1>6, HoursAre DEF Earlier
  <2>2. m \in Hours(rows) /\ ~(h <= m)
    BY <2>1, HoursAre DEF Earlier
  <2>3. c[m] = F[UpTo(rows, m)]
    BY <1>1, <2>2
  <2> QED
    BY <1>2, <1>3, <1>4, <1>6, <2>3
<1> QED
  BY <1>5, <1>6

(* There is a running sum.                                                 *)
LEMMA RunningExists ==
  ASSUME NEW rows, Table(rows)
  PROVE  \E c : Running(rows, c)
<1>1. PICK F : /\ Sums(rows, [r \in rows |-> r.tokens], F)
               /\ \A S \in SUBSET rows : Tokens(S) = F[S]
  BY TokensOfPart
<1> DEFINE c == [h \in Hours(rows) |-> F[UpTo(rows, h)]]
<1>2. ASSUME NEW h \in Hours(rows)
      PROVE  F[UpTo(rows, h)] = Spent(rows)[h] + (IF Earlier(rows, h) = {} THEN 0 ELSE c[Max(Earlier(rows, h))])
  <2>1. F[UpTo(rows, h)] =
           F[{r \in rows : r.hour = h}] +
             (IF Earlier(rows, h) = {} THEN 0 ELSE F[UpTo(rows, Max(Earlier(rows, h)))])
    BY <1>1, UpToHour
  <2>2. Spent(rows)[h] = F[{r \in rows : r.hour = h}]
    BY <1>1 DEF Spent
  <2>3. Earlier(rows, h) # {} => Max(Earlier(rows, h)) \in Hours(rows)
    BY HoursAre DEF Earlier
  <2> QED
    BY <2>1, <2>2, <2>3
<1>3. c = [h \in Hours(rows) |-> Spent(rows)[h] + (IF Earlier(rows, h) = {} THEN 0 ELSE c[Max(Earlier(rows, h))])]
  BY <1>2
<1>4. Running(rows, c)
  <2> HIDE DEF c
  <2> QED
    BY <1>3 DEF Running
<1> QED
  BY <1>4

(* At the last hour it is what the day's row says.                         *)
LEMMA MetricsInvTimeline ==
  ASSUME MetricsInv PROVE TimelineEndsAtDaily
<1> SUFFICES ASSUME NEW date \in 0..UtcDate, NEW p \in ActivePhases(date)
             PROVE  LET buckets == QueryTimeline(date, p)
                    IN QueryDaily(date)[p].tokens = IF DOMAIN buckets = {} THEN 0 ELSE buckets[Max(DOMAIN buckets)].cumulative
  BY DEF TimelineEndsAtDaily
<1> PICK rows : rows = Of(llmCalls, date, p)
  OBVIOUS
<1>1. Table(rows)
  BY FS_Subset DEF Of, MetricsInv, Table
<1> DEFINE it == CHOOSE c : Running(rows, c)
<1>2. Running(rows, it)
  BY <1>1, RunningExists
<1>3. QueryTimeline(date, p) = [h \in Hours(rows) |-> [tokens |-> Spent(rows)[h], cumulative |-> it[h]]]
  BY DEF QueryTimeline, Hours, Spent, Earlier, Running
<1>4. QueryDaily(date)[p].tokens = Tokens(rows)
  BY DEF QueryDaily, DailyRow
<1>5. PICK F : /\ Sums(rows, [r \in rows |-> r.tokens], F)
               /\ \A S \in SUBSET rows : Tokens(S) = F[S]
  BY <1>1, TokensOfPart
<1>6. \A h \in Hours(rows) : it[h] = F[UpTo(rows, h)]
  <2> HIDE DEF it
  <2> QED
    BY <1>1, <1>2, <1>5, RunningSum
<1>7. CASE rows = {}
  BY <1>3, <1>4, <1>5, <1>7 DEF Hours, Sums
<1>8. CASE rows # {}
  <2> PICK m : m = Max(Hours(rows))
    OBVIOUS
  <2>1. Hours(rows) # {} /\ m \in Hours(rows) /\ \A k \in Hours(rows) : k <= m
    <3>1. Hours(rows) # {}
      BY <1>8 DEF Hours
    <3> QED
      BY <1>1, <3>1, HoursAre
  <2>2. UpTo(rows, m) = rows
    BY <2>1 DEF Hours, UpTo
  <2> HIDE DEF it
  <2> QED
    BY <1>3, <1>4, <1>5, <1>6, <2>1, <2>2
<1> QED
  BY <1>7, <1>8

(* A tool counts under at most two phases.                                 *)
LEMMA PhasesAre ==
  ASSUME NEW tool
  PROVE  /\ DOMAIN PhasesOf(tool) \subseteq Nat /\ IsFiniteSet(DOMAIN PhasesOf(tool))
         /\ \A i \in DOMAIN PhasesOf(tool) : PhasesOf(tool)[i] \in Phases
         /\ PhasesOf(tool) # <<>> => PhasesOf(tool)[1] \in Phases
<1>1. PhasesOf(tool) \in {<<"scout">>, <<"triage">>, <<"triage", "builder">>, <<>>}
  BY DEF PhasesOf
<1>2. DOMAIN PhasesOf(tool) \in {1..1, 1..2, 1..0}
  BY <1>1
<1>3. IsFiniteSet(1..1) /\ IsFiniteSet(1..2) /\ IsFiniteSet(1..0)
  <2>1. 0 \in Int /\ 1 \in Int /\ 2 \in Int
    OBVIOUS
  <2>2. \A k \in {0, 1, 2} : IsFiniteSet(1..k)
    BY <2>1, FS_Interval
  <2> QED
    BY <2>2
<1>4. DOMAIN PhasesOf(tool) \subseteq Nat
  BY <1>2
<1>5. IsFiniteSet(DOMAIN PhasesOf(tool))
  BY <1>2, <1>3
<1>6. \A i \in DOMAIN PhasesOf(tool) : PhasesOf(tool)[i] \in Phases
  BY <1>1 DEF Phases
<1>7. PhasesOf(tool) # <<>> => PhasesOf(tool)[1] \in Phases
  BY <1>1 DEF Phases
<1> QED
  BY <1>4, <1>5, <1>6, <1>7

(* A row of an event is one of a table's rows.                             *)
LEMMA RowIs ==
  ASSUME MetricsInv, NEW job \in Jobs, NEW n \in Nat, NEW phase \in Phases, NEW tokens \in Nat
  PROVE  Row(job, n, phase, tokens) \in MetricsRows
<1>1. now \in Nat /\ now \div HourTicks \in Nat /\ now \div DayTicks \in Nat
  BY Division, MetricsAssumption DEF MetricsInv
<1>2. counter[ServerOf[job]] + n \in Nat
  BY DEF MetricsInv, Servers
<1> QED
  BY <1>1, <1>2 DEF Row, MetricsRows, EventId, UtcDate

(* An insert adds its row or nothing.                                      *)
LEMMA InsertedIs ==
  ASSUME NEW table, Table(table), NEW row \in MetricsRows, NEW fate
  PROVE  Table(Inserted(table, row, fate)) /\ Inserted(table, row, fate) \subseteq table \cup {row}
BY FS_AddElement DEF Table, Inserted

(* The rows of a job's runs are finitely many.                             *)
LEMMA RunRowsAre ==
  ASSUME MetricsInv, NEW job \in Jobs, NEW from \in Nat, NEW fails, NEW used \in 0..1
  PROVE  Table(RunRows(job, from, fails, used).rows) /\ RunRows(job, from, fails, used).numbered \in Nat
<1> DEFINE phases == PhasesOf(jobs[job].tool)
           metered == {i \in DOMAIN phases : Metered(job, phases[i])}
           row(i) == Row(job, from + Cardinality({j \in metered : j < i}), phases[i], 0)
           clashes(i) == i < fails /\ Taken(agentRuns, row(i))
           free == {i \in metered : i < fails /\ \A j \in metered : j <= i => ~clashes(j)}
           extra == IF free = metered THEN 0 ELSE IF \E i \in metered : clashes(i) THEN 1 ELSE used
<1>1. RunRows(job, from, fails, used).rows = {row(i) : i \in free}
      /\ RunRows(job, from, fails, used).numbered = Cardinality(free) + extra
  BY DEF RunRows
<1>2. metered \in SUBSET DOMAIN phases /\ free \in SUBSET DOMAIN phases
  OBVIOUS
<1>3. /\ IsFiniteSet(metered) /\ IsFiniteSet(free)
      /\ Cardinality(metered) \in Nat /\ Cardinality(free) \in Nat
  BY <1>2, PhasesAre, FS_Subset, FS_CardinalityType
<1>4. ASSUME NEW i \in free PROVE row(i) \in MetricsRows
  <2>1. Cardinality({j \in metered : j < i}) \in Nat
    BY <1>3, FS_Subset, FS_CardinalityType
  <2>2. phases[i] \in Phases
    BY PhasesAre
  <2>3. from + Cardinality({j \in metered : j < i}) \in Nat
    BY <2>1
  <2> QED
    BY <2>2, <2>3, RowIs
<1>5. IsFiniteSet({row(i) : i \in free})
  <2> DEFINE f == [i \in free |-> row(i)]
  <2>1. f \in Surjection(free, {row(i) : i \in free})
    BY DEF Surjection
  <2> HIDE DEF f, row, free, metered
  <2> QED
    BY <1>3, <2>1, FS_Surjection
<1>6. Cardinality(free) + extra \in Nat
  <2>1. extra \in Nat
    OBVIOUS
  <2> QED
    BY <1>3, <2>1
<1> QED
  BY <1>1, <1>4, <1>5, <1>6 DEF Table

(* The tables start empty, every job running.                              *)
LEMMA MetricsStart ==
  ASSUME MetricsInit PROVE MetricsInv
BY MetricsAssumption, FS_EmptySet DEF MetricsInit, MetricsInv, Table

(* What a job's calls leave as it was.                                     *)
LEMMA CallCounted ==
  ASSUME MetricsInv, NEW job \in Jobs, NEW fate, Counts(job, fate)
  PROVE  /\ counter' \in [Servers -> Nat] /\ now' = now
         /\ agentRuns' = agentRuns /\ premiumBridge' = premiumBridge
         /\ DOMAIN jobs' = Jobs
         /\ \A j \in Jobs : jobs'[j].tool = jobs[j].tool /\ jobs'[j].end = jobs[j].end /\ jobs'[j].calls \in Nat
         /\ \A r \in premiumBridge : r.uuid \in Jobs
BY DEF MetricsInv, Counts, Numbered, Servers, Table, MetricsRows

(* A call or a cache hit disturbs no other table.                          *)
LEMMA CallKeeps ==
  ASSUME MetricsInv, NEW job \in Jobs, NEW fate, Counts(job, fate), lost' \in {lost, lost \cup {job}},
         Table(llmCalls'), Table(cacheHits'), \A r \in cacheHits' : r.phase = "scout"
  PROVE  MetricsInv'
<1>1. \A j \in Jobs : j \notin lost' => j \notin lost
  OBVIOUS
<1>2. now' \in 0..LastTick /\ counter' \in [Servers -> Nat] /\ lost' \subseteq Jobs
  BY CallCounted DEF MetricsInv
<1>3. /\ \A r \in premiumBridge' : jobs'[r.uuid].end # "running"
      /\ \A r, s \in premiumBridge' : r.uuid = s.uuid => r = s
      /\ \A j \in Jobs : jobs'[j].end = "recorded" /\ PhasesOf(jobs'[j].tool) # <<>> /\ j \notin lost'
           => \E r \in premiumBridge' : r.uuid = j
  BY <1>1, CallCounted DEF MetricsInv
<1>4. DOMAIN jobs' = Jobs /\ \A j \in Jobs : jobs'[j].tool \in JobTools /\ jobs'[j].calls \in Nat
  BY CallCounted DEF MetricsInv
<1>5. Table(premiumBridge') /\ Table(agentRuns')
  BY CallCounted DEF MetricsInv, Table, MetricsRows
<1> QED
  BY <1>2, <1>3, <1>4, <1>5 DEF MetricsInv, Table, MetricsRows

(* A job charges the bridge when it ends, and it ends once.                *)
LEMMA MetricsStep ==
  ASSUME MetricsInv, [MetricsNext]_metrics
  PROVE  MetricsInv'
<1>1. ASSUME NEW job \in Jobs, NEW p \in Phases, NEW tokens \in {3}, NEW fate, RecordLlmCall(job, p, tokens, fate)
      PROVE  MetricsInv'
  <2> PICK row : row = Row(job, 0, p, tokens)
    OBVIOUS
  <2>1. row \in MetricsRows
    BY RowIs
  <2>2. /\ Counts(job, fate) /\ llmCalls' = Inserted(llmCalls, row, fate) /\ cacheHits' = cacheHits
        /\ lost' \in {lost, lost \cup {job}}
    BY <1>1 DEF RecordLlmCall
  <2>3. Table(llmCalls') /\ Table(cacheHits') /\ \A r \in cacheHits' : r.phase = "scout"
    BY <2>1, <2>2, InsertedIs DEF MetricsInv, Table, MetricsRows
  <2> QED
    BY <2>2, <2>3, CallKeeps
<1>2. ASSUME NEW job \in Jobs, NEW fate, RecordCacheHit(job, fate)
      PROVE  MetricsInv'
  <2> PICK row : row = Row(job, 0, "scout", 0)
    OBVIOUS
  <2>1. row \in MetricsRows /\ row.phase = "scout"
    BY RowIs DEF Phases, Row
  <2>2. /\ Counts(job, fate) /\ cacheHits' = Inserted(cacheHits, row, fate) /\ llmCalls' = llmCalls
        /\ lost' \in {lost, lost \cup {job}}
    BY <1>2 DEF RecordCacheHit
  <2>3. Table(llmCalls') /\ Table(cacheHits') /\ \A r \in cacheHits' : r.phase = "scout"
    BY <2>1, <2>2, InsertedIs DEF MetricsInv, Table, MetricsRows
  <2> QED
    BY <2>2, <2>3, CallKeeps
<1>3. ASSUME NEW job \in Jobs, JobBreaks(job) PROVE MetricsInv'
  <2>1. /\ DOMAIN jobs' = Jobs
        /\ \A j \in Jobs : jobs'[j].tool = jobs[j].tool /\ jobs'[j].calls = jobs[j].calls
        /\ \A j \in Jobs : j # job => jobs'[j].end = jobs[j].end
        /\ jobs'[job].end = "broken"
    BY <1>3 DEF JobBreaks, MetricsInv
  <2>2. UNCHANGED <<now, counter, llmCalls, cacheHits, agentRuns, premiumBridge, lost>>
    BY <1>3 DEF JobBreaks
  <2> QED
    BY <2>1, <2>2 DEF MetricsInv, Table, MetricsRows
<1>4. ASSUME NEW job \in Jobs, NEW chars \in {5}, NEW fate, NEW fails, NEW used \in 0..1,
             RecordJobEnd(job, chars, fate, fails, used) PROVE MetricsInv'
  <2> PICK premium : premium = PremiumRows(job, EstimateTokens(chars))
    OBVIOUS
  <2> PICK tried : tried = IF fate = "skipped" THEN 0 ELSE Cardinality(premium)
    OBVIOUS
  <2> PICK runs : runs = RunRows(job, tried, fails, used)
    OBVIOUS
  <2> PICK missed : missed = {r \in premium : Misses(premiumBridge, r, fate)}
    OBVIOUS
  <2>1. EstimateTokens(chars) = 2
    BY DEF EstimateTokens
  <2>2. PICK row \in MetricsRows :
          /\ row.uuid = job
          /\ premium = IF PhasesOf(jobs[job].tool) = <<>> THEN {} ELSE {row}
    <3>1. CASE PhasesOf(jobs[job].tool) = <<>>
      <4>1. Row(job, 0, "scout", 0) \in MetricsRows /\ Row(job, 0, "scout", 0).uuid = job
        BY RowIs DEF Phases, Row
      <4> QED
        BY <3>1, <4>1 DEF PremiumRows
    <3>2. CASE PhasesOf(jobs[job].tool) # <<>>
      <4>1. PhasesOf(jobs[job].tool)[1] \in Phases
        BY <3>2, PhasesAre
      <4> PICK first : first = PhasesOf(jobs[job].tool)[1]
        OBVIOUS
      <4>2. Row(job, 0, first, 2) \in MetricsRows /\ Row(job, 0, first, 2).uuid = job
        BY <4>1, RowIs DEF Row
      <4> QED
        BY <2>1, <3>2, <4>2 DEF PremiumRows
    <3> QED
      BY <3>1, <3>2
  <2>3. Table(premium) /\ Cardinality(premium) \in Nat /\ tried \in Nat
    <3>1. premium = {} \/ premium = {row}
      BY <2>2
    <3>2. IsFiniteSet({}) /\ IsFiniteSet({row})
      BY FS_EmptySet, FS_Singleton
    <3>3. IsFiniteSet(premium)
      BY <3>1, <3>2
    <3> QED
      BY <2>2, <3>3, FS_CardinalityType DEF Table
  <2>4. Table(runs.rows) /\ runs.numbered \in Nat
    BY <2>3, RunRowsAre
  <2>5. /\ jobs[job].end = "running"
        /\ jobs' = [jobs EXCEPT ![job].end = "recorded"]
        /\ premiumBridge' = premiumBridge \cup (premium \ missed)
        /\ agentRuns' = agentRuns \cup runs.rows
        /\ Numbered(job, tried + runs.numbered)
        /\ lost' = IF runs.lost \/ missed # {} THEN lost \cup {job} ELSE lost
        /\ UNCHANGED <<now, llmCalls, cacheHits>>
    BY <1>4 DEF RecordJobEnd
  <2>6. Table(premiumBridge') /\ Table(agentRuns')
    BY <2>3, <2>4, <2>5, FS_Union, FS_Difference DEF MetricsInv, Table
  <2>7. counter' \in [Servers -> Nat]
    BY <2>3, <2>4, <2>5 DEF Numbered, MetricsInv, Servers
  <2>8. /\ DOMAIN jobs' = Jobs
        /\ \A j \in Jobs : jobs'[j].tool = jobs[j].tool /\ jobs'[j].calls = jobs[j].calls
        /\ \A j \in Jobs : j # job => jobs'[j].end = jobs[j].end
        /\ jobs'[job].end = "recorded"
    BY <2>5 DEF MetricsInv
  <2>9. \A r \in premiumBridge : r.uuid \in Jobs /\ r.uuid # job
    BY <2>5 DEF MetricsInv, Table, MetricsRows
  <2>10. \A r \in premiumBridge' : r \in premiumBridge \/ (r = row /\ r \in premium)
    BY <2>2, <2>5
  <2>11. \A r \in premiumBridge' : jobs'[r.uuid].end # "running"
    BY <2>2, <2>8, <2>9, <2>10 DEF MetricsInv
  <2>12. \A r, s \in premiumBridge' : r.uuid = s.uuid => r = s
    BY <2>2, <2>9, <2>10 DEF MetricsInv
  <2>13. ASSUME NEW j \in Jobs, jobs'[j].end = "recorded", PhasesOf(jobs'[j].tool) # <<>>, j \notin lost'
         PROVE  \E r \in premiumBridge' : r.uuid = j
    <3>1. CASE j = job
      <4>1. missed = {} /\ premium = {row}
        BY <2>2, <2>5, <2>8, <2>13, <3>1
      <4> QED
        BY <2>2, <2>5, <3>1, <4>1
    <3>2. CASE j # job
      <4>1. j \notin lost
        BY <2>5, <2>13
      <4> QED
        BY <2>5, <2>8, <2>13, <3>2, <4>1 DEF MetricsInv
    <3> QED
      BY <3>1, <3>2
  <2>14. lost' \subseteq Jobs /\ now' = now /\ llmCalls' = llmCalls /\ cacheHits' = cacheHits
    BY <2>5 DEF MetricsInv
  <2> QED
    BY <2>6, <2>7, <2>8, <2>11, <2>12, <2>13, <2>14 DEF MetricsInv, Table, MetricsRows
<1>5. CASE Tick
  <2>1. now' \in 0..LastTick
    BY <1>5, MetricsAssumption DEF Tick, MetricsInv
  <2> QED
    BY <1>5, <2>1 DEF Tick, MetricsInv, Table, MetricsRows
<1>6. CASE UNCHANGED metrics
  BY <1>6 DEF metrics, MetricsInv, Table, MetricsRows
<1> QED
  BY <1>1, <1>2, <1>3, <1>4, <1>5, <1>6 DEF MetricsNext

(* What the tables hold is what the Usage page adds up.                    *)
LEMMA MetricsInvAdds ==
  ASSUME MetricsInv PROVE MetricsTypeOK /\ MetricsAddUp
<1>1. MetricsTypeOK
  BY DEF MetricsTypeOK, MetricsInv, Table, MetricsRows
<1>2. PremiumChargedOnce
  <2> SUFFICES ASSUME NEW j \in Jobs
               PROVE  LET rows == {r \in premiumBridge : r.uuid = j}
                      IN /\ Cardinality(rows) <= 1
                         /\ jobs[j].end = "recorded" /\ PhasesOf(jobs[j].tool) # <<>> /\ j \notin lost => rows # {}
    BY DEF PremiumChargedOnce
  <2> PICK rows : rows = {r \in premiumBridge : r.uuid = j}
    OBVIOUS
  <2>1. Cardinality(rows) <= 1
    <3>1. CASE rows = {}
      BY <3>1, FS_EmptySet
    <3>2. CASE rows # {}
      <4>1. PICK r : r \in rows
        BY <3>2
      <4>2. rows = {r}
        BY <4>1 DEF MetricsInv
      <4>3. Cardinality(rows) = 1
        BY <4>2, FS_Singleton
      <4> QED
        BY <4>3
    <3> QED
      BY <3>1, <3>2
  <2>2. jobs[j].end = "recorded" /\ PhasesOf(jobs[j].tool) # <<>> /\ j \notin lost => rows # {}
    BY DEF MetricsInv
  <2> QED
    BY <2>1, <2>2
<1> QED
  BY <1>1, <1>2, MetricsInvSummary, MetricsInvTimeline DEF MetricsAddUp

-----------------------------------------------------------------------------
(* 8. The configuration: what is good stays good over edits, saves and the *)
(* migration.                                                              *)

(* A configuration without legacy phases, each of its phases bound to a    *)
(* profile there is; a based one has the built-in profile, and providers   *)
(* that are read as they are written.                                      *)
Account(a) == a = [provider |-> a.provider, key |-> a.key]
Known(profiles) == \A id \in DOMAIN profiles : profiles[id].provider \in Providers
Shape(c) ==
  /\ c = [profiles |-> c.profiles, default |-> c.default, phases |-> c.phases, brave |-> c.brave]
  /\ c.profiles = [id \in DOMAIN c.profiles |-> c.profiles[id]]
  /\ c.phases = [p \in DOMAIN c.phases |-> c.phases[p]]
  /\ Null \notin DOMAIN c.profiles
  /\ \A id \in DOMAIN c.profiles : Account(c.profiles[id])
Binding(entry, ids) ==
  entry = [profile |-> entry.profile, model |-> entry.model, window |-> entry.window] /\ entry.profile \in ids
Good(c) ==
  /\ Shape(c)
  /\ DOMAIN c.phases = AgentPhases
  /\ \A p \in AgentPhases : Binding(c.phases[p], DOMAIN c.profiles)
  /\ c.default # Null
Based(c) == Good(c) /\ Known(c.profiles) /\ "default" \in DOMAIN c.profiles

(* What is bound to a profile is not of the legacy form.                   *)
LEMMA BindingIsNotFlat ==
  ASSUME NEW entry, NEW ids, Binding(entry, ids) PROVE ~IsFlat(entry)
BY DEF Binding, IsFlat

(* The migration leaves today's form alone.                                *)
LEMMA MigratedGood ==
  ASSUME NEW v, Good(v) PROVE Migrated(v) = v
<1>1. DOMAIN v.phases = AgentPhases /\ v.phases = [p \in DOMAIN v.phases |-> v.phases[p]]
      /\ \A p \in AgentPhases : ~IsFlat(v.phases[p])
  BY BindingIsNotFlat DEF Good, Shape
<1>2. Renamed(v.phases) = v.phases
  BY <1>1 DEF Renamed, RenamesTransformer, AgentPhases
<1> PICK phases : phases = v.phases
  OBVIOUS
<1>3. \A phase, first, nextBest : phase \in AgentPhases /\ first \in AgentPhases => Filled(phases, phase, first, nextBest) = phases
  <2> SUFFICES ASSUME NEW phase \in AgentPhases, NEW first \in AgentPhases, NEW nextBest
               PROVE  Filled(phases, phase, first, nextBest) = phases
    OBVIOUS
  <2>1. \A value : Over(phases, Only(phase, value)) = phases
    BY <1>1 DEF Over, Only
  <2> QED
    BY <2>1 DEF Filled
<1>4. Filled(phases, "planner", "scout", "builder") = phases /\ Filled(phases, "planner_emit", "builder", "planner") = phases
  BY <1>3 DEF AgentPhases
<1>5. KnownPhases(phases) = phases
  BY <1>1 DEF KnownPhases, Restrict
<1>6. [v EXCEPT !.phases = phases] = v
  BY DEF Good, Shape
<1>7. Profiled(v) = v
  BY <1>1 DEF Profiled
<1> QED
  BY <1>2, <1>4, <1>5, <1>6, <1>7 DEF Migrated

(* A name that serde knows is read as it is.                               *)
LEMMA ProvidersStay == \A p \in Providers : NormalizedProvider(p) = p
BY DEF Providers, NormalizedProvider

(* What is read of a value whose form is right: its providers by the names *)
(* serde gives them.                                                       *)
Accepted(c) == \A id \in DOMAIN c.profiles : NormalizedProvider(c.profiles[id].provider) \in Providers
Read(c) ==
  [profiles |-> [id \in DOMAIN c.profiles |->
                  [provider |-> NormalizedProvider(c.profiles[id].provider), key |-> c.profiles[id].key]],
   default |-> c.default, phases |-> c.phases, brave |-> c.brave]
LEMMA DeserializedIs ==
  ASSUME NEW v, Shape(Migrated(v)) PROVE Deserialized(v) = Read(Migrated(v))
<1> PICK c : c = Migrated(v)
  OBVIOUS
<1> PICK read : read = [id \in DOMAIN c.profiles |->
                         [provider |-> NormalizedProvider(c.profiles[id].provider), key |-> c.profiles[id].key]]
  OBVIOUS
<1>1. Deserialized(v) = [c EXCEPT !.profiles = read]
  BY DEF Deserialized
<1>2. c = [profiles |-> c.profiles, default |-> c.default, phases |-> c.phases, brave |-> c.brave]
  BY DEF Shape
<1>3. [c EXCEPT !.profiles = read] = [profiles |-> read, default |-> c.default, phases |-> c.phases, brave |-> c.brave]
  BY <1>2
<1> QED
  BY <1>1, <1>3 DEF Read
LEMMA ReadKeeps ==
  ASSUME NEW c, Shape(c), Accepted(c)
  PROVE  /\ Shape(Read(c)) /\ Known(Read(c).profiles) /\ DOMAIN Read(c).profiles = DOMAIN c.profiles
         /\ Read(c).phases = c.phases /\ Read(c).default = c.default /\ Read(c).brave = c.brave
         /\ \A id \in DOMAIN c.profiles : c.profiles[id].provider \in Providers => Read(c).profiles[id] = c.profiles[id]
         /\ Known(c.profiles) => Read(c) = c
<1> PICK read : read = [id \in DOMAIN c.profiles |->
                         [provider |-> NormalizedProvider(c.profiles[id].provider), key |-> c.profiles[id].key]]
  OBVIOUS
<1>1. Read(c) = [profiles |-> read, default |-> c.default, phases |-> c.phases, brave |-> c.brave]
  BY DEF Read
<1>2. DOMAIN read = DOMAIN c.profiles /\ read = [id \in DOMAIN read |-> read[id]]
  OBVIOUS
<1>3. ASSUME NEW id \in DOMAIN c.profiles
      PROVE  /\ Account(read[id]) /\ read[id].provider \in Providers
             /\ c.profiles[id].provider \in Providers => read[id] = c.profiles[id]
  <2>1. read[id] = [provider |-> NormalizedProvider(c.profiles[id].provider), key |-> c.profiles[id].key]
    OBVIOUS
  <2>2. c.profiles[id] = [provider |-> c.profiles[id].provider, key |-> c.profiles[id].key]
    BY DEF Shape, Account
  <2> QED
    BY <2>1, <2>2, ProvidersStay DEF Account, Accepted
<1>4. Shape(Read(c)) /\ Known(read)
  BY <1>1, <1>2, <1>3 DEF Shape, Known
<1>5. ASSUME Known(c.profiles) PROVE Read(c) = c
  <2>1. read = c.profiles
    BY <1>2, <1>3, <1>5 DEF Known, Shape
  <2> QED
    BY <1>1, <2>1 DEF Shape
<1>6. \A id \in DOMAIN c.profiles : c.profiles[id].provider \in Providers => read[id] = c.profiles[id]
  BY <1>3
<1>7. /\ Read(c).profiles = read /\ Read(c).phases = c.phases
      /\ Read(c).default = c.default /\ Read(c).brave = c.brave
  BY <1>1
<1> HIDE DEF Read
<1> QED
  BY <1>2, <1>4, <1>5, <1>6, <1>7

(* Of a good configuration that is accepted a good one is read.            *)
LEMMA ReadGood ==
  ASSUME NEW v, Good(v), Parses(v)
  PROVE  /\ Good(Deserialized(v)) /\ Known(Deserialized(v).profiles)
         /\ Known(v.profiles) => Deserialized(v) = v
<1>1. Migrated(v) = v
  BY MigratedGood
<1>2. Shape(v) /\ Accepted(v) /\ Deserialized(v) = Read(v)
  BY <1>1, DeserializedIs DEF Good, Parses, Accepted
<1>3. /\ Shape(Read(v)) /\ Known(Read(v).profiles) /\ DOMAIN Read(v).profiles = DOMAIN v.profiles
      /\ Read(v).phases = v.phases /\ Read(v).default = v.default
      /\ Known(v.profiles) => Read(v) = v
  BY <1>2, ReadKeeps
<1> HIDE DEF Read
<1> QED
  BY <1>2, <1>3 DEF Good

(* The built-in profile is an account at a provider like the others.       *)
LEMMA OverDefault ==
  ASSUME NEW profiles, Known(profiles), \A id \in DOMAIN profiles : Account(profiles[id])
  PROVE  /\ \A id \in DOMAIN Over(profiles, DefaultProfiles) : Account(Over(profiles, DefaultProfiles)[id])
         /\ Known(Over(profiles, DefaultProfiles))
<1> PICK all : all = Over(profiles, DefaultProfiles)
  OBVIOUS
<1> PICK one : one = [provider |-> "deep_seek", key |-> Null]
  OBVIOUS
<1>1. Account(one) /\ one.provider \in Providers
  BY DEF Account, Providers
<1>2. \A id \in DOMAIN all : (id \in DOMAIN profiles /\ all[id] = profiles[id]) \/ all[id] = one
  BY DEF Over, DefaultProfiles, Only
<1> QED
  BY <1>1, <1>2 DEF Known

(* All a good configuration can lack is the built-in profile.              *)
LEMMA MergedGood ==
  ASSUME NEW c, Good(c), Known(c.profiles)
  PROVE  /\ Merged(c) = [profiles |-> Over(c.profiles, DefaultProfiles), default |-> c.default,
                         phases |-> c.phases, brave |-> c.brave]
         /\ Based(Merged(c))
         /\ Based(c) => Merged(c) = c
<1>1. DOMAIN c.phases = AgentPhases /\ c.phases = [p \in DOMAIN c.phases |-> c.phases[p]] /\ c.default # Null
  BY DEF Good, Shape
<1> PICK phases : phases = c.phases
  OBVIOUS
<1>2. \A value : Over(phases, Only("planner", value)) = phases /\ Over(phases, Only("planner_emit", value)) = phases
  BY <1>1 DEF Over, Only, AgentPhases
<1>3. Filled(phases, "planner", "scout", "scout") = phases
  BY <1>2 DEF Filled
<1>4. DOMAIN DefaultBindings = AgentPhases
  BY DEF DefaultBindings
<1>5. Over(phases, DefaultBindings) = phases
  BY <1>1, <1>4 DEF Over
<1>6. Merged(c) = [profiles |-> Over(c.profiles, DefaultProfiles), default |-> c.default,
                   phases |-> c.phases, brave |-> c.brave]
  <2>1. c.default # Null /\ c.phases = phases
    BY <1>1
  <2>2. Filled(c.phases, "planner", "scout", "scout") = phases
    BY <1>3
  <2>3. Over(phases, Only("planner_emit", EmitFromBuilder(c))) = phases
    BY <1>2
  <2>4. (IF "builder" \in DOMAIN phases THEN Over(phases, Only("planner_emit", EmitFromBuilder(c))) ELSE phases) = phases
    BY <2>3
  <2>5. Merged(c) = [c EXCEPT !.profiles = Over(@, DefaultProfiles),
                              !.default = IF @ = Null THEN "default" ELSE @,
                              !.phases = Over(phases, DefaultBindings)]
    BY <2>2, <2>4 DEF Merged
  <2> HIDE DEF AgentPhases
  <2> QED
    BY <2>1, <2>5, <1>5 DEF Good, Shape
<1>7. DOMAIN Over(c.profiles, DefaultProfiles) = DOMAIN c.profiles \cup {"default"}
  BY DEF Over, DefaultProfiles, Only
<1>10. /\ \A id \in DOMAIN Over(c.profiles, DefaultProfiles) : Account(Over(c.profiles, DefaultProfiles)[id])
       /\ Known(Over(c.profiles, DefaultProfiles))
  BY OverDefault DEF Good, Shape
<1>8. Based(Merged(c))
  <2>1. Shape(Merged(c))
    <3>1. Over(c.profiles, DefaultProfiles) = [id \in DOMAIN Over(c.profiles, DefaultProfiles) |-> Over(c.profiles, DefaultProfiles)[id]]
      BY DEF Over
    <3>2. Null \notin DOMAIN Over(c.profiles, DefaultProfiles)
      BY <1>7 DEF Good, Shape, Null
    <3> QED
      BY <1>1, <1>6, <1>10, <3>1, <3>2 DEF Shape
  <2>2. \A p \in AgentPhases : Binding(c.phases[p], DOMAIN c.profiles \cup {"default"})
    BY DEF Good, Binding
  <2> QED
    BY <1>1, <1>6, <1>7, <1>10, <2>1, <2>2 DEF Based, Good
<1>9. ASSUME Based(c) PROVE Merged(c) = c
  <2>1. Over(c.profiles, DefaultProfiles) = c.profiles
    BY <1>9 DEF Over, Based, Good, Shape, DefaultProfiles, Only
  <2> QED
    BY <1>6, <2>1 DEF Good, Shape
<1> QED
  BY <1>6, <1>8, <1>9

(* Serialized it lacks the Brave key and nothing else.                     *)
LEMMA JsonGood ==
  ASSUME NEW c, Good(c)
  PROVE  /\ Json(c) = [profiles |-> c.profiles, default |-> c.default, phases |-> c.phases, brave |-> Null]
         /\ Good(Json(c)) /\ (Based(c) => Based(Json(c)))
<1>1. Json(c) = [profiles |-> c.profiles, default |-> c.default, phases |-> c.phases, brave |-> Null]
  BY DEF Json, Good, Shape
<1> QED
  BY <1>1 DEF Based, Good, Shape

(* A page put over the memory's configuration gives a based one.           *)
LEMMA PutGood ==
  ASSUME NEW c, Based(c), NEW body, Good(body), Known(body.profiles)
  PROVE  Based(Put(c, body))
<1>1. DOMAIN body.profiles # {}
  BY DEF Good, Binding, AgentPhases
<1>2. Over(body.phases, c.phases) = body.phases
  BY DEF Over, Good, Shape, Based
<1> PICK brave : brave = IF body.brave = Null THEN c.brave ELSE body.brave
  OBVIOUS
<1> PICK new : new = [profiles |-> body.profiles, default |-> body.default, phases |-> body.phases, brave |-> brave]
  OBVIOUS
<1>3. Put(c, body) = Merged(new)
  BY <1>1, <1>2 DEF Put, Good
<1>4. Good(new) /\ Known(new.profiles)
  BY DEF Good, Shape
<1> QED
  BY <1>3, <1>4, MergedGood

(* The built-in configuration is one.                                      *)
LEMMA DefaultIsBased == Based(DefaultConfig)
<1>1. Shape(DefaultConfig)
  BY DEF Shape, DefaultConfig, DefaultProfiles, Only, DefaultBindings, Null, Account
<1>2. \A p \in AgentPhases : Binding(DefaultBindings[p], {"default"})
  BY DEF Binding, DefaultBindings
<1>3. DOMAIN DefaultProfiles = {"default"} /\ DOMAIN DefaultBindings = AgentPhases /\ Known(DefaultProfiles)
  BY DEF DefaultProfiles, Only, DefaultBindings, Known, Providers
<1> QED
  BY <1>1, <1>2, <1>3 DEF Based, Good, DefaultConfig, Null

(* No edit of a page unbinds a phase.                                      *)
LEMMA EditedIsGood ==
  ASSUME NEW page, Good(page), NEW new \in PageEdits(page)
  PROVE  Good(new)
<1>1. ASSUME new = [page EXCEPT !.profiles = Over(@, Only("own", [provider |-> "open_router", key |-> Null]))]
      PROVE  Good(new)
  <2> PICK profiles : profiles = Over(page.profiles, Only("own", [provider |-> "open_router", key |-> Null]))
    OBVIOUS
  <2>1. /\ DOMAIN profiles = DOMAIN page.profiles \cup {"own"} /\ profiles = [id \in DOMAIN profiles |-> profiles[id]]
        /\ \A id \in DOMAIN profiles : Account(profiles[id])
    BY DEF Over, Only, Good, Shape, Account
  <2>2. new = [profiles |-> profiles, default |-> page.default, phases |-> page.phases, brave |-> page.brave]
    BY <1>1 DEF Good, Shape
  <2> QED
    BY <2>1, <2>2 DEF Good, Shape, Binding, Null
<1>2. ASSUME NEW id \in DOMAIN page.profiles, NEW k \in Keys, new = [page EXCEPT !.profiles[id].key = k]
      PROVE  Good(new)
  <2> PICK profiles : profiles = [page.profiles EXCEPT ![id].key = k]
    OBVIOUS
  <2>1. DOMAIN profiles = DOMAIN page.profiles /\ profiles = [i \in DOMAIN profiles |-> profiles[i]]
        /\ \A i \in DOMAIN profiles : i # id => profiles[i] = page.profiles[i]
    OBVIOUS
  <2>2. new = [profiles |-> profiles, default |-> page.default, phases |-> page.phases, brave |-> page.brave]
    BY <1>2 DEF Good, Shape
  <2>3. \A i \in DOMAIN profiles : Account(profiles[i])
    BY <2>1 DEF Good, Shape, Account
  <2> QED
    BY <2>1, <2>2, <2>3 DEF Good, Shape, Binding
<1>8. ASSUME NEW id \in DOMAIN page.profiles, NEW c \in Offered, new = [page EXCEPT !.profiles[id].provider = c]
      PROVE  Good(new)
  <2> PICK profiles : profiles = [page.profiles EXCEPT ![id].provider = c]
    OBVIOUS
  <2>1. DOMAIN profiles = DOMAIN page.profiles /\ profiles = [i \in DOMAIN profiles |-> profiles[i]]
        /\ \A i \in DOMAIN profiles : i # id => profiles[i] = page.profiles[i]
    OBVIOUS
  <2>2. new = [profiles |-> profiles, default |-> page.default, phases |-> page.phases, brave |-> page.brave]
    BY <1>8 DEF Good, Shape
  <2>3. \A i \in DOMAIN profiles : Account(profiles[i])
    BY <2>1 DEF Good, Shape, Account
  <2> QED
    BY <2>1, <2>2, <2>3 DEF Good, Shape, Binding
<1>3. ASSUME NEW p \in {"builder", "scout"}, NEW id \in DOMAIN page.profiles, new = [page EXCEPT !.phases[p].profile = id]
      PROVE  Good(new)
  <2> PICK phases : phases = [page.phases EXCEPT ![p].profile = id]
    OBVIOUS
  <2>1. DOMAIN phases = DOMAIN page.phases /\ phases = [i \in DOMAIN phases |-> phases[i]]
        /\ \A i \in DOMAIN phases : i # p => phases[i] = page.phases[i]
    OBVIOUS
  <2>2. new = [profiles |-> page.profiles, default |-> page.default, phases |-> phases, brave |-> page.brave]
    BY <1>3 DEF Good, Shape
  <2>3. Binding(phases[p], DOMAIN page.profiles)
    BY DEF Good, Binding, AgentPhases
  <2> QED
    BY <2>1, <2>2, <2>3 DEF Good, Shape
<1>4. ASSUME NEW id \in DOMAIN page.profiles, new = [page EXCEPT !.default = id]
      PROVE  Good(new)
  BY <1>4 DEF Good, Shape
<1>5. ASSUME NEW k \in Keys, new = [page EXCEPT !.brave = k]
      PROVE  Good(new)
  BY <1>5 DEF Good, Shape
<1>6. ASSUME NEW id \in DOMAIN page.profiles, ~InUse(page, id),
             new = [page EXCEPT !.profiles = Restrict(@, DOMAIN @ \ {id})]
      PROVE  Good(new)
  <2> PICK profiles : profiles = Restrict(page.profiles, DOMAIN page.profiles \ {id})
    OBVIOUS
  <2>1. DOMAIN profiles = DOMAIN page.profiles \ {id} /\ profiles = [i \in DOMAIN profiles |-> profiles[i]]
        /\ \A i \in DOMAIN profiles : profiles[i] = page.profiles[i]
    BY DEF Restrict
  <2>2. new = [profiles |-> profiles, default |-> page.default, phases |-> page.phases, brave |-> page.brave]
    BY <1>6 DEF Good, Shape
  <2>3. \A p \in AgentPhases : Binding(page.phases[p], DOMAIN profiles)
    BY <1>6, <2>1 DEF Good, Binding, InUse
  <2>4. (\A i \in DOMAIN profiles : Account(profiles[i])) /\ Null \notin DOMAIN profiles
    BY <2>1 DEF Good, Shape
  <2>5. Shape(new)
    BY <2>1, <2>2, <2>4 DEF Good, Shape
  <2> QED
    BY <2>2, <2>3, <2>5 DEF Good
<1>7. \/ new = [page EXCEPT !.profiles = Over(@, Only("own", [provider |-> "open_router", key |-> Null]))]
      \/ \E id \in DOMAIN page.profiles, k \in Keys : new = [page EXCEPT !.profiles[id].key = k]
      \/ \E id \in DOMAIN page.profiles, c \in Offered : new = [page EXCEPT !.profiles[id].provider = c]
      \/ \E p \in {"builder", "scout"}, id \in DOMAIN page.profiles : new = [page EXCEPT !.phases[p].profile = id]
      \/ \E id \in DOMAIN page.profiles : new = [page EXCEPT !.default = id]
      \/ \E k \in Keys : new = [page EXCEPT !.brave = k]
      \/ \E id \in DOMAIN page.profiles : ~InUse(page, id)
           /\ new = [page EXCEPT !.profiles = Restrict(@, DOMAIN @ \ {id})]
  BY DEF PageEdits
<1> QED
  BY <1>1, <1>2, <1>3, <1>4, <1>5, <1>6, <1>7, <1>8

(* A value from disk before its migration: some of its phases are legacy.  *)
Entry(entry, ids) ==
  IF IsFlat(entry)
    THEN entry = [provider |-> entry.provider, key |-> entry.key, model |-> entry.model, window |-> entry.window]
    ELSE Binding(entry, ids)
PhaseEntries(phases, ids) ==
  phases = [p \in DOMAIN phases |-> phases[p]] /\ \A p \in DOMAIN phases : Entry(phases[p], ids)
StartValue(v) == Shape(v) /\ PhaseEntries(v.phases, DOMAIN v.profiles \cup {"default"})
Now(phases, p) == IF p = "transformer" /\ RenamesTransformer(phases) THEN "pruner" ELSE p

(* The renamed phase keeps its entry, the others their names too.          *)
LEMMA RenamedKeeps ==
  ASSUME NEW ids, NEW phases, PhaseEntries(phases, ids)
  PROVE  /\ PhaseEntries(Renamed(phases), ids)
         /\ \A p \in DOMAIN phases : IsFlat(phases[p]) =>
              Now(phases, p) \in DOMAIN Renamed(phases) /\ Renamed(phases)[Now(phases, p)] = phases[p]
<1>1. CASE ~RenamesTransformer(phases)
  BY <1>1 DEF Renamed, Now
<1>2. CASE RenamesTransformer(phases)
  <2> PICK rest : rest = Restrict(phases, DOMAIN phases \ {"transformer"})
    OBVIOUS
  <2> PICK one : one = Only("pruner", phases["transformer"])
    OBVIOUS
  <2>1. /\ DOMAIN rest = DOMAIN phases \ {"transformer"} /\ \A p \in DOMAIN rest : rest[p] = phases[p]
        /\ DOMAIN one = {"pruner"} /\ one["pruner"] = phases["transformer"]
        /\ "transformer" \in DOMAIN phases /\ "pruner" \notin DOMAIN phases
    BY <1>2 DEF Restrict, Only, RenamesTransformer
  <2>2. Renamed(phases) = Over(rest, one)
    BY <1>2 DEF Renamed
  <2> PICK new : new = Renamed(phases)
    OBVIOUS
  <2>3. /\ DOMAIN new = DOMAIN rest \cup {"pruner"} /\ new = [p \in DOMAIN new |-> new[p]]
        /\ \A p \in DOMAIN rest : new[p] = phases[p]
        /\ new["pruner"] = phases["transformer"]
    BY <2>1, <2>2 DEF Over
  <2>4. PhaseEntries(new, ids)
    BY <2>1, <2>3 DEF PhaseEntries
  <2>5. \A p \in DOMAIN phases : Now(phases, p) \in DOMAIN new /\ new[Now(phases, p)] = phases[p]
    BY <1>2, <2>1, <2>3 DEF Now
  <2> QED
    BY <2>4, <2>5
<1> QED
  BY <1>1, <1>2

(* A phase that is filled in changes no other.                             *)
LEMMA FilledKeeps ==
  ASSUME NEW ids, NEW phases, PhaseEntries(phases, ids), NEW phase, NEW first, NEW nextBest
  PROVE  /\ PhaseEntries(Filled(phases, phase, first, nextBest), ids)
         /\ \A p \in DOMAIN phases : /\ p \in DOMAIN Filled(phases, phase, first, nextBest)
                                     /\ Filled(phases, phase, first, nextBest)[p] = phases[p]
<1>1. CASE {first, nextBest} \cap DOMAIN phases = {}
  BY <1>1 DEF Filled
<1>2. CASE {first, nextBest} \cap DOMAIN phases # {}
  <2> PICK from \in DOMAIN phases : from = IF first \in DOMAIN phases THEN first ELSE nextBest
    BY <1>2
  <2> PICK one : one = Only(phase, phases[from])
    OBVIOUS
  <2>1. DOMAIN one = {phase} /\ one[phase] = phases[from]
    BY DEF Only
  <2> PICK new : new = Over(phases, one)
    OBVIOUS
  <2>2. Filled(phases, phase, first, nextBest) = new
    BY <1>2 DEF Filled
  <2>3. /\ DOMAIN new = DOMAIN phases \cup {phase} /\ new = [p \in DOMAIN new |-> new[p]]
        /\ \A p \in DOMAIN phases : new[p] = phases[p]
        /\ \A p \in DOMAIN new : (new[p] = phases[p] /\ p \in DOMAIN phases) \/ new[p] = phases[from]
    BY <2>1 DEF Over
  <2> QED
    BY <2>2, <2>3 DEF PhaseEntries
<1> QED
  BY <1>1, <1>2

MigratedPhases(phases) ==
  KnownPhases(Filled(Filled(Renamed(phases), "planner", "scout", "builder"),
                     "planner_emit", "builder", "planner"))

(* No legacy phase is lost before the accounts are made profiles.          *)
LEMMA PhasesMigrate ==
  ASSUME NEW ids, NEW phases, PhaseEntries(phases, ids)
  PROVE  /\ PhaseEntries(MigratedPhases(phases), ids)
         /\ DOMAIN MigratedPhases(phases) \subseteq AgentPhases
         /\ \A p \in DOMAIN phases \cap AgentPhases : IsFlat(phases[p]) =>
              /\ Now(phases, p) \in DOMAIN MigratedPhases(phases)
              /\ MigratedPhases(phases)[Now(phases, p)] = phases[p]
<1> PICK renamed : renamed = Renamed(phases)
  OBVIOUS
<1> PICK planner : planner = Filled(renamed, "planner", "scout", "builder")
  OBVIOUS
<1> PICK emit : emit = Filled(planner, "planner_emit", "builder", "planner")
  OBVIOUS
<1>1. PhaseEntries(renamed, ids)
  BY RenamedKeeps
<1>2. PhaseEntries(planner, ids) /\ \A p \in DOMAIN renamed : p \in DOMAIN planner /\ planner[p] = renamed[p]
  BY <1>1, FilledKeeps
<1>3. PhaseEntries(emit, ids) /\ \A p \in DOMAIN planner : p \in DOMAIN emit /\ emit[p] = planner[p]
  BY <1>2, FilledKeeps
<1>4. MigratedPhases(phases) = Restrict(emit, AgentPhases \cap DOMAIN emit)
  BY DEF MigratedPhases, KnownPhases
<1>5. /\ DOMAIN MigratedPhases(phases) = AgentPhases \cap DOMAIN emit
      /\ \A p \in AgentPhases \cap DOMAIN emit : MigratedPhases(phases)[p] = emit[p]
      /\ MigratedPhases(phases) = [p \in DOMAIN MigratedPhases(phases) |-> MigratedPhases(phases)[p]]
  BY <1>4 DEF Restrict
<1>6. ASSUME NEW p \in DOMAIN phases \cap AgentPhases, IsFlat(phases[p])
      PROVE  /\ Now(phases, p) \in DOMAIN MigratedPhases(phases)
             /\ MigratedPhases(phases)[Now(phases, p)] = phases[p]
  <2>1. Now(phases, p) \in DOMAIN renamed /\ renamed[Now(phases, p)] = phases[p]
    BY <1>6, RenamedKeeps
  <2>2. Now(phases, p) \in AgentPhases
    BY DEF Now, AgentPhases
  <2> QED
    BY <1>2, <1>3, <1>5, <2>1, <2>2
<1> QED
  BY <1>3, <1>5, <1>6 DEF PhaseEntries

(* Nor does the migration make up an entry: it copies and drops.           *)
EntriesIn(phases, E) == \A p \in DOMAIN phases \cap AgentPhases : phases[p] \in E
LEMMA FilledIn ==
  ASSUME NEW phases, NEW E, EntriesIn(phases, E), NEW phase, NEW first \in AgentPhases, NEW nextBest \in AgentPhases
  PROVE  EntriesIn(Filled(phases, phase, first, nextBest), E)
<1>1. CASE {first, nextBest} \cap DOMAIN phases = {}
  BY <1>1 DEF Filled
<1>2. CASE {first, nextBest} \cap DOMAIN phases # {}
  <2> PICK from \in DOMAIN phases : from = IF first \in DOMAIN phases THEN first ELSE nextBest
    BY <1>2
  <2> PICK one : one = Only(phase, phases[from])
    OBVIOUS
  <2>1. DOMAIN one = {phase} /\ one[phase] = phases[from] /\ phases[from] \in E
    BY DEF Only, EntriesIn
  <2> PICK new : new = Over(phases, one)
    OBVIOUS
  <2>2. \A p \in DOMAIN new : (p \in DOMAIN phases /\ new[p] = phases[p]) \/ new[p] = phases[from]
    BY <2>1 DEF Over
  <2>3. Filled(phases, phase, first, nextBest) = new
    BY <1>2 DEF Filled
  <2> QED
    BY <2>1, <2>2, <2>3 DEF EntriesIn
<1> QED
  BY <1>1, <1>2
LEMMA MigratedIn ==
  ASSUME NEW phases, NEW E, EntriesIn(phases, E)
  PROVE  \A p \in DOMAIN MigratedPhases(phases) : MigratedPhases(phases)[p] \in E
<1> PICK renamed : renamed = Renamed(phases)
  OBVIOUS
<1> PICK planner : planner = Filled(renamed, "planner", "scout", "builder")
  OBVIOUS
<1> PICK emit : emit = Filled(planner, "planner_emit", "builder", "planner")
  OBVIOUS
<1>0. {"scout", "builder", "planner", "transformer"} \subseteq AgentPhases
  BY DEF AgentPhases
<1>1. EntriesIn(renamed, E)
  <2>1. CASE ~RenamesTransformer(phases)
    BY <2>1 DEF Renamed
  <2>2. CASE RenamesTransformer(phases)
    <3> PICK rest : rest = Restrict(phases, DOMAIN phases \ {"transformer"})
      OBVIOUS
    <3> PICK one : one = Only("pruner", phases["transformer"])
      OBVIOUS
    <3>1. /\ \A p \in DOMAIN rest : p \in DOMAIN phases /\ rest[p] = phases[p]
          /\ DOMAIN one = {"pruner"} /\ one["pruner"] = phases["transformer"]
          /\ "transformer" \in DOMAIN phases
      BY <2>2 DEF Restrict, Only, RenamesTransformer
    <3>2. renamed = Over(rest, one)
      BY <2>2 DEF Renamed
    <3>3. \A p \in DOMAIN renamed : (p \in DOMAIN rest /\ renamed[p] = rest[p]) \/ renamed[p] = phases["transformer"]
      BY <3>1, <3>2 DEF Over
    <3>4. phases["transformer"] \in E
      BY <1>0, <3>1 DEF EntriesIn
    <3> QED
      BY <3>1, <3>3, <3>4 DEF EntriesIn
  <2> QED
    BY <2>1, <2>2
<1>2. EntriesIn(planner, E)
  BY <1>0, <1>1, FilledIn
<1>3. EntriesIn(emit, E)
  BY <1>0, <1>2, FilledIn
<1>4. MigratedPhases(phases) = Restrict(emit, AgentPhases \cap DOMAIN emit)
  BY DEF MigratedPhases, KnownPhases
<1> QED
  BY <1>3, <1>4 DEF Restrict, EntriesIn

(* The migration is the phases' and then the profiles'.                    *)
LEMMA MigratedIs ==
  ASSUME NEW v, Shape(v)
  PROVE  Migrated(v) = Profiled([profiles |-> v.profiles, default |-> v.default,
                                 phases |-> MigratedPhases(v.phases), brave |-> v.brave])
<1> PICK phases : phases = MigratedPhases(v.phases)
  OBVIOUS
<1>1. Migrated(v) = Profiled([v EXCEPT !.phases = phases])
  BY DEF Migrated, MigratedPhases
<1>2. [v EXCEPT !.phases = phases] = [profiles |-> v.profiles, default |-> v.default, phases |-> phases, brave |-> v.brave]
  BY DEF Shape
<1> QED
  BY <1>1, <1>2

(* Accounts and the profiles they become.                                  *)
Places == 1..6
LEMMA PlacesFinite == IsFiniteSet(Places) /\ Cardinality(Places) = 6
<1>1. 1 \in Int /\ 6 \in Int
  OBVIOUS
<1>2. IsFiniteSet(1..6) /\ Cardinality(1..6) = IF 1 > 6 THEN 0 ELSE 6 - 1 + 1
  BY <1>1, FS_Interval
<1> QED
  BY <1>2 DEF Places

(* Each account is first used at a place, no two at the same.              *)
LEMMA FirstUses ==
  ASSUME NEW phases, DOMAIN phases \subseteq AgentPhases
  PROVE  /\ \A a \in Accounts(phases) :
              /\ Uses(phases, a) \subseteq Places /\ FirstUse(phases, a) \in Uses(phases, a)
         /\ \A a, b \in Accounts(phases) : FirstUse(phases, a) = FirstUse(phases, b) => a = b
<1>1. DOMAIN PhaseOrder = Places /\ \A p \in AgentPhases : \E i \in Places : PhaseOrder[i] = p
  BY DEF PhaseOrder, AgentPhases, Places
<1>2. ASSUME NEW a \in Accounts(phases)
      PROVE  Uses(phases, a) \subseteq Places /\ FirstUse(phases, a) \in Uses(phases, a)
  <2>1. Uses(phases, a) \subseteq Places
    BY <1>1 DEF Uses
  <2>2. PICK p \in DOMAIN phases : a = AccountOf(phases[p])
    BY DEF Accounts
  <2>3. PICK i \in Places : PhaseOrder[i] = p
    BY <1>1
  <2>4. i \in Uses(phases, a)
    BY <1>1, <2>2, <2>3 DEF Uses
  <2>5. Uses(phases, a) \subseteq Nat
    BY <2>1 DEF Places
  <2>6. \E m \in Uses(phases, a) : \A k \in Uses(phases, a) : m <= k
    BY <2>4, <2>5, LeastNat
  <2> QED
    BY <2>1, <2>6 DEF FirstUse, Min
<1> QED
  BY <1>2 DEF Uses

(* So no two accounts become one profile.                                  *)
LEMMA ProfilesDiffer ==
  ASSUME NEW phases, DOMAIN phases \subseteq AgentPhases
  PROVE  /\ \A a \in Accounts(phases) : ProfileOf(phases, a) # Null
         /\ \A a, b \in Accounts(phases) : ProfileOf(phases, a) = ProfileOf(phases, b) => a = b
<1> PICK firsts : firsts = {FirstUse(phases, a) : a \in Accounts(phases)}
  OBVIOUS
<1>1. firsts \subseteq Places
  BY FirstUses
<1>2. firsts \subseteq Nat /\ IsFiniteSet(firsts) /\ Cardinality(firsts) \in Nat /\ Cardinality(firsts) <= 6
  <2>1. IsFiniteSet(Places) /\ Cardinality(Places) = 6
    BY PlacesFinite
  <2> QED
    BY <1>1, <2>1, FS_Subset, FS_CardinalityType DEF Places
<1>3. ASSUME NEW a \in Accounts(phases)
      PROVE  /\ FirstUse(phases, a) \in firsts
             /\ Cardinality({i \in firsts : i <= FirstUse(phases, a)}) \in Places
             /\ ProfileOf(phases, a) = ProfileIds[Cardinality({i \in firsts : i <= FirstUse(phases, a)})]
  <2>1. FirstUse(phases, a) \in firsts
    OBVIOUS
  <2>2. Cardinality({i \in firsts : i <= FirstUse(phases, a)}) \in 1..Cardinality(firsts)
    BY <1>2, <2>1, RankBounds
  <2>3. Cardinality({i \in firsts : i <= FirstUse(phases, a)}) \in Places
    BY <1>2, <2>2 DEF Places
  <2> QED
    BY <2>1, <2>3 DEF ProfileOf
<1>4. \A i, j \in Places : ProfileIds[i] # Null /\ (ProfileIds[i] = ProfileIds[j] => i = j)
  BY DEF ProfileIds, Places, Null
<1>5. ASSUME NEW a \in Accounts(phases), NEW b \in Accounts(phases), ProfileOf(phases, a) = ProfileOf(phases, b)
      PROVE  a = b
  <2>1. Cardinality({i \in firsts : i <= FirstUse(phases, a)}) = Cardinality({i \in firsts : i <= FirstUse(phases, b)})
    BY <1>3, <1>4, <1>5
  <2>2. FirstUse(phases, a) = FirstUse(phases, b)
    BY <1>2, <1>3, <2>1, RanksDiffer
  <2> QED
    BY <2>2, FirstUses
<1> QED
  BY <1>3, <1>4, <1>5

(* One of the accounts is the most used one.                               *)
LEMMA MostUsedIs ==
  ASSUME NEW phases, DOMAIN phases \subseteq AgentPhases, Accounts(phases) # {}
  PROVE  MostUsed(phases) \in Accounts(phases)
<1> DEFINE uses(a) == Cardinality(Uses(phases, a))
           Numbers == {uses(a) : a \in Accounts(phases)}
<1>1. ASSUME NEW a \in Accounts(phases) PROVE uses(a) \in Nat /\ uses(a) <= 6 /\ FirstUse(phases, a) \in Nat
  <2>1. IsFiniteSet(Places) /\ Cardinality(Places) = 6
    BY PlacesFinite
  <2>2. Uses(phases, a) \in SUBSET Places /\ FirstUse(phases, a) \in Places
    BY FirstUses
  <2> QED
    BY <2>1, <2>2, FS_Subset, FS_CardinalityType DEF Places
<1>2. PICK m \in Numbers : \A k \in Numbers : m >= k
  <2>1. Numbers \subseteq Nat /\ Numbers # {} /\ \A k \in Numbers : k <= 6
    BY <1>1
  <2> HIDE DEF Numbers
  <2> QED
    BY <2>1, GreatestNat
<1> DEFINE Top == {a \in Accounts(phases) : uses(a) = m}
           Firsts == {FirstUse(phases, a) : a \in Top}
<1>3. PICK f \in Firsts : \A k \in Firsts : f <= k
  <2>1. Firsts \subseteq Nat /\ Firsts # {}
    BY <1>1, <1>2
  <2> HIDE DEF Firsts
  <2> QED
    BY <2>1, LeastNat
<1>4. PICK a \in Top : f = FirstUse(phases, a)
  OBVIOUS
<1>5. ASSUME NEW b \in Accounts(phases)
      PROVE  uses(a) > uses(b) \/ (uses(a) = uses(b) /\ FirstUse(phases, a) <= FirstUse(phases, b))
  <2>1. uses(b) <= m /\ uses(b) \in Nat /\ m \in Nat
    BY <1>1, <1>2
  <2>2. CASE uses(b) = m
    <3>1. FirstUse(phases, b) \in Firsts
      BY <2>2
    <3> QED
      BY <1>3, <1>4, <2>2, <3>1
  <2>3. CASE uses(b) # m
    BY <1>4, <2>1, <2>3
  <2> QED
    BY <2>2, <2>3
<1> QED
  BY <1>4, <1>5 DEF MostUsed

(* A migrated value: its phases are bound, some may lack.                  *)
Bound(c) ==
  /\ Shape(c) /\ DOMAIN c.phases \subseteq AgentPhases
  /\ \A p \in DOMAIN c.phases : Binding(c.phases[p], DOMAIN c.profiles \cup {"default"})

(* A phase that is converted is bound to its own account.                  *)
LEMMA FlatPhasesConverted ==
  ASSUME NEW v, Shape(v), NEW ids, PhaseEntries(v.phases, ids), DOMAIN v.phases \subseteq AgentPhases,
         DOMAIN v.profiles = {}, NEW q \in DOMAIN v.phases, IsFlat(v.phases[q])
  PROVE  /\ Bound(Profiled(v)) /\ DOMAIN Profiled(v).phases = DOMAIN v.phases
         /\ \A p \in DOMAIN v.phases :
              LET new == Profiled(v).phases[p]
              IN /\ new.profile \in DOMAIN Profiled(v).profiles
                 /\ Profiled(v).profiles[new.profile] = AccountOf(v.phases[p])
                 /\ new.model = v.phases[p].model /\ new.window = DefaultWindow
         /\ \A id \in DOMAIN Profiled(v).profiles :
              \E p \in DOMAIN v.phases : Profiled(v).profiles[id] = AccountOf(v.phases[p])
<1> PICK phases : phases = v.phases
  OBVIOUS
<1> PICK accounts : accounts = Accounts(phases)
  OBVIOUS
<1> PICK profiles : profiles = [id \in {ProfileOf(phases, a) : a \in accounts} |->
                                 CHOOSE a \in accounts : ProfileOf(phases, a) = id]
  OBVIOUS
<1> PICK bound : bound = [p \in DOMAIN phases |->
                           [profile |-> ProfileOf(phases, AccountOf(phases[p])),
                            model |-> phases[p].model, window |-> DefaultWindow]]
  OBVIOUS
<1>1. Profiled(v) = [v EXCEPT !.profiles = profiles, !.default = ProfileOf(phases, MostUsed(phases)), !.phases = bound]
  BY DEF Profiled
<1>2. Profiled(v) = [profiles |-> profiles, default |-> ProfileOf(phases, MostUsed(phases)), phases |-> bound, brave |-> v.brave]
  BY <1>1 DEF Shape
<1>3. DOMAIN profiles = {ProfileOf(phases, a) : a \in accounts} /\ Null \notin DOMAIN profiles
  BY ProfilesDiffer
<1>4. \A p \in DOMAIN phases : AccountOf(phases[p]) \in accounts
  BY DEF Accounts
<1>5. \A a \in accounts : profiles[ProfileOf(phases, a)] = a
  <2> SUFFICES ASSUME NEW a \in accounts PROVE profiles[ProfileOf(phases, a)] = a
    OBVIOUS
  <2>1. \A b \in accounts : ProfileOf(phases, b) = ProfileOf(phases, a) => b = a
    BY ProfilesDiffer
  <2>2. (CHOOSE b \in accounts : ProfileOf(phases, b) = ProfileOf(phases, a)) = a
    BY <2>1
  <2> QED
    BY <2>2
<1>6. \A a \in accounts : ProfileOf(phases, a) \in DOMAIN profiles
  BY <1>3
<1>7. ASSUME NEW p \in DOMAIN phases
      PROVE  /\ Binding(bound[p], DOMAIN profiles)
             /\ profiles[bound[p].profile] = AccountOf(phases[p])
             /\ bound[p].model = phases[p].model /\ bound[p].window = DefaultWindow
  <2> PICK id : id = ProfileOf(phases, AccountOf(phases[p]))
    OBVIOUS
  <2>1. bound[p] = [profile |-> id, model |-> phases[p].model, window |-> DefaultWindow]
    OBVIOUS
  <2>2. bound[p].profile = id /\ bound[p].model = phases[p].model /\ bound[p].window = DefaultWindow
    BY <2>1
  <2> PICK a : a = AccountOf(phases[p])
    OBVIOUS
  <2>3. id \in DOMAIN profiles /\ profiles[id] = a
    <3>1. a \in accounts
      BY <1>4
    <3>2. id = ProfileOf(phases, a)
      OBVIOUS
    <3>3. ProfileOf(phases, a) \in DOMAIN profiles /\ profiles[ProfileOf(phases, a)] = a
      BY <1>5, <1>6, <3>1
    <3> QED
      BY <3>2, <3>3
  <2> QED
    BY <2>1, <2>2, <2>3 DEF Binding
<1>10. ASSUME NEW id \in DOMAIN profiles
       PROVE  \E p \in DOMAIN phases : profiles[id] = AccountOf(phases[p])
  <2>1. PICK a \in accounts : id = ProfileOf(phases, a)
    BY <1>3
  <2>2. profiles[id] = a
    BY <2>1, <1>5
  <2> QED
    BY <2>2 DEF Accounts
<1>11. ASSUME NEW id \in DOMAIN profiles PROVE Account(profiles[id])
  <2>1. PICK p \in DOMAIN phases : profiles[id] = AccountOf(phases[p])
    BY <1>10
  <2> QED
    BY <2>1 DEF AccountOf, Account
<1> PICK c : c = Profiled(v)
  OBVIOUS
<1>9. /\ c = [profiles |-> c.profiles, default |-> c.default, phases |-> c.phases, brave |-> c.brave]
      /\ c.profiles = profiles /\ c.phases = bound /\ DOMAIN bound = DOMAIN phases
      /\ bound = [p \in DOMAIN bound |-> bound[p]] /\ profiles = [id \in DOMAIN profiles |-> profiles[id]]
  BY <1>2
<1>8. Bound(c)
  <2>1. \A id \in DOMAIN profiles : Account(profiles[id])
    BY <1>11
  <2>2. Shape(c)
    <3>1. /\ c.phases = [p \in DOMAIN c.phases |-> c.phases[p]]
          /\ c.profiles = [id \in DOMAIN c.profiles |-> c.profiles[id]]
      BY <1>9
    <3>2. Null \notin DOMAIN c.profiles
      BY <1>3, <1>9
    <3>3. \A id \in DOMAIN c.profiles : Account(c.profiles[id])
      BY <1>9, <2>1
    <3>4. c = [profiles |-> c.profiles, default |-> c.default, phases |-> c.phases, brave |-> c.brave]
      BY <1>9
    <3> QED
      BY <3>1, <3>2, <3>3, <3>4 DEF Shape
  <2>3. \A p \in DOMAIN bound : Binding(bound[p], DOMAIN profiles \cup {"default"})
    BY <1>7, <1>9 DEF Binding
  <2> QED
    BY <1>9, <2>2, <2>3 DEF Bound
<1>12. \A p \in DOMAIN phases : /\ bound[p].profile \in DOMAIN profiles
                                /\ profiles[bound[p].profile] = AccountOf(phases[p])
                                /\ bound[p].model = phases[p].model /\ bound[p].window = DefaultWindow
  BY <1>7 DEF Binding
<1>13. \A id \in DOMAIN profiles : \E p \in DOMAIN phases : profiles[id] = AccountOf(phases[p])
  BY <1>10
<1>14. phases = v.phases
  OBVIOUS
<1>15. /\ DOMAIN c.phases = DOMAIN v.phases
       /\ \A p \in DOMAIN v.phases :
            LET new == c.phases[p]
            IN /\ new.profile \in DOMAIN c.profiles
               /\ c.profiles[new.profile] = AccountOf(v.phases[p])
               /\ new.model = v.phases[p].model /\ new.window = DefaultWindow
  BY <1>9, <1>12, <1>14
<1>16. \A id \in DOMAIN c.profiles : \E p \in DOMAIN v.phases : c.profiles[id] = AccountOf(v.phases[p])
  <2> SUFFICES ASSUME NEW id \in DOMAIN c.profiles
               PROVE  \E p \in DOMAIN v.phases : c.profiles[id] = AccountOf(v.phases[p])
    OBVIOUS
  <2>1. id \in DOMAIN profiles /\ c.profiles[id] = profiles[id]
    BY <1>9
  <2>2. PICK p \in DOMAIN phases : profiles[id] = AccountOf(phases[p])
    BY <1>13, <2>1
  <2>3. p \in DOMAIN v.phases /\ c.profiles[id] = AccountOf(v.phases[p])
    BY <1>14, <2>1, <2>2
  <2> QED
    BY <2>3
<1> HIDE DEF Bound
<1> QED
  BY <1>8, <1>15, <1>16

(* The default of what is converted is there; of the rest it may lack.     *)
LEMMA MergedBound ==
  ASSUME NEW c, Bound(c), Known(c.profiles)
  PROVE  /\ Based(Merged(c))
         /\ \A id \in DOMAIN c.profiles : id \in DOMAIN Merged(c).profiles /\ Merged(c).profiles[id] = c.profiles[id]
         /\ \A p \in DOMAIN c.phases : Merged(c).phases[p] = c.phases[p]
<1> DEFINE ids == DOMAIN c.profiles \cup {"default"}
<1> PICK profiles : profiles = Over(c.profiles, DefaultProfiles)
  OBVIOUS
<1>1. /\ DOMAIN profiles = ids /\ profiles = [id \in DOMAIN profiles |-> profiles[id]]
      /\ \A id \in DOMAIN c.profiles : profiles[id] = c.profiles[id]
  BY DEF Over, DefaultProfiles, Only
<1>9. (\A id \in DOMAIN profiles : Account(profiles[id])) /\ Known(profiles)
  BY OverDefault DEF Bound, Shape
<1> PICK planner : planner = Filled(c.phases, "planner", "scout", "scout")
  OBVIOUS
<1>2. PhaseEntries(c.phases, ids) /\ \A p \in DOMAIN c.phases : Binding(c.phases[p], ids)
  BY BindingIsNotFlat DEF Bound, PhaseEntries, Entry, Shape
<1>3. /\ \A p \in DOMAIN c.phases : p \in DOMAIN planner /\ planner[p] = c.phases[p]
      /\ DOMAIN planner \subseteq AgentPhases
      /\ \A p \in DOMAIN planner : Binding(planner[p], ids)
  <2>1. CASE {"scout"} \cap DOMAIN c.phases = {}
    BY <1>2, <2>1 DEF Filled, Bound
  <2>2. CASE {"scout"} \cap DOMAIN c.phases # {}
    <3> PICK one : one = Only("planner", c.phases["scout"])
      OBVIOUS
    <3>1. DOMAIN one = {"planner"} /\ one["planner"] = c.phases["scout"]
      BY DEF Only
    <3>2. planner = Over(c.phases, one)
      BY <2>2 DEF Filled
    <3>3. /\ DOMAIN planner = DOMAIN c.phases \cup {"planner"}
          /\ \A p \in DOMAIN c.phases : planner[p] = c.phases[p]
          /\ \A p \in DOMAIN planner : planner[p] = c.phases["scout"] \/ (p \in DOMAIN c.phases /\ planner[p] = c.phases[p])
      BY <3>1, <3>2 DEF Over
    <3>4. \A p \in DOMAIN planner : Binding(planner[p], ids)
      BY <1>2, <2>2, <3>3
    <3> QED
      BY <3>3, <3>4 DEF Bound, AgentPhases
  <2> QED
    BY <2>1, <2>2
<1> PICK emit : emit = IF "builder" \in DOMAIN planner
                         THEN Over(planner, Only("planner_emit", EmitFromBuilder(c)))
                         ELSE planner
  OBVIOUS
<1>4. /\ \A p \in DOMAIN planner : p \in DOMAIN emit /\ emit[p] = planner[p]
      /\ DOMAIN emit \subseteq AgentPhases
      /\ \A p \in DOMAIN emit : Binding(emit[p], ids)
  <2>1. CASE "builder" \notin DOMAIN planner
    BY <1>3, <2>1
  <2>2. CASE "builder" \in DOMAIN planner
    <3> PICK one : one = Only("planner_emit", EmitFromBuilder(c))
      OBVIOUS
    <3>1. DOMAIN one = {"planner_emit"} /\ one["planner_emit"] = EmitFromBuilder(c)
      BY DEF Only
    <3>2. "builder" \in DOMAIN c.phases
      <4>1. c.phases = [p \in DOMAIN c.phases |-> c.phases[p]]
        BY DEF Bound, Shape
      <4>2. DOMAIN planner = DOMAIN c.phases \/ DOMAIN planner = DOMAIN c.phases \cup {"planner"}
        BY DEF Filled, Over, Only
      <4> QED
        BY <2>2, <4>2
    <3>3. Binding(EmitFromBuilder(c), ids)
      BY <1>2, <3>2 DEF EmitFromBuilder, Binding
    <3>4. /\ DOMAIN emit = DOMAIN planner \cup {"planner_emit"}
          /\ \A p \in DOMAIN planner : emit[p] = planner[p]
          /\ \A p \in DOMAIN emit : emit[p] = EmitFromBuilder(c) \/ (p \in DOMAIN planner /\ emit[p] = planner[p])
      BY <2>2, <3>1 DEF Over
    <3>5. \A p \in DOMAIN emit : Binding(emit[p], ids)
      BY <1>3, <3>3, <3>4
    <3> QED
      BY <1>3, <3>4, <3>5 DEF AgentPhases
  <2> QED
    BY <2>1, <2>2
<1> PICK phases : phases = Over(emit, DefaultBindings)
  OBVIOUS
<1>5. /\ DOMAIN phases = AgentPhases /\ phases = [p \in DOMAIN phases |-> phases[p]]
      /\ \A p \in DOMAIN emit : phases[p] = emit[p]
      /\ \A p \in AgentPhases : Binding(phases[p], ids)
  <2>1. DOMAIN DefaultBindings = AgentPhases /\ \A p \in AgentPhases : Binding(DefaultBindings[p], ids)
    BY DEF DefaultBindings, Binding
  <2>2. DOMAIN phases = AgentPhases /\ phases = [p \in DOMAIN phases |-> phases[p]]
        /\ \A p \in AgentPhases : phases[p] = IF p \in DOMAIN emit THEN emit[p] ELSE DefaultBindings[p]
    BY <1>4, <2>1 DEF Over
  <2> QED
    BY <1>4, <2>1, <2>2
<1> PICK default : default = IF c.default = Null THEN "default" ELSE c.default
  OBVIOUS
<1>6. Merged(c) = [profiles |-> profiles, default |-> default, phases |-> phases, brave |-> c.brave]
  <2>1. Merged(c) = [c EXCEPT !.profiles = profiles, !.default = default, !.phases = phases]
    BY DEF Merged, Bound, Shape
  <2> QED
    BY <2>1 DEF Bound, Shape
<1>7. default # Null /\ Null \notin ids
  BY DEF Null, Bound, Shape
<1> HIDE DEF ids
<1>8. Based(Merged(c))
  <2>1. "default" \in ids
    BY DEF ids
  <2> QED
    BY <1>1, <1>5, <1>6, <1>7, <1>9, <2>1 DEF Based, Good, Shape
<1> QED
  BY <1>1, <1>3, <1>4, <1>5, <1>6, <1>8 DEF ids

(* The files on disk before the first start are of the two forms.          *)
LEMMA StartFilesAre ==
  \A v \in StartFiles \ {Missing, Torn} : StartValue(v)
BY ConfigAssumption DEF StartValue, Shape, PhaseEntries, Entry, Binding, Account

(* A file that loads gives a based configuration.                          *)
LEMMA LoadedIsBased ==
  ASSUME NEW v, StartValue(v), Parses(v)
  PROVE  Based(Loaded(v))
<1> DEFINE ids == DOMAIN v.profiles \cup {"default"}
<1> PICK phases : phases = MigratedPhases(v.phases)
  OBVIOUS
<1> PICK w : w = [profiles |-> v.profiles, default |-> v.default, phases |-> phases, brave |-> v.brave]
  OBVIOUS
<1>1. PhaseEntries(phases, ids) /\ DOMAIN phases \subseteq AgentPhases
  BY PhasesMigrate DEF StartValue
<1>2. Migrated(v) = Profiled(w)
  BY MigratedIs DEF StartValue
<1>3. Shape(w) /\ w.phases = phases /\ w.profiles = v.profiles
  BY <1>1 DEF Shape, PhaseEntries, StartValue
<1>4. Bound(Profiled(w))
  <2>1. CASE DOMAIN w.profiles # {} \/ \A p \in DOMAIN phases : ~IsFlat(phases[p])
    <3>1. Profiled(w) = w
      BY <1>3, <2>1 DEF Profiled
    <3>2. \A p \in DOMAIN phases : ~IsFlat(phases[p])
      BY <1>2, <1>3, <3>1 DEF Parses
    <3> QED
      BY <1>1, <1>3, <3>1, <3>2 DEF Bound, PhaseEntries, Entry
  <2>2. CASE DOMAIN w.profiles = {} /\ \E p \in DOMAIN phases : IsFlat(phases[p])
    <3> HIDE DEF ids
    <3> QED
      BY <1>1, <1>3, <2>2, FlatPhasesConverted
  <2> QED
    BY <2>1, <2>2
<1> PICK c : c = Profiled(w)
  OBVIOUS
<1>5. Shape(c) /\ Accepted(c) /\ Deserialized(v) = Read(c)
  BY <1>2, <1>4, DeserializedIs DEF Bound, Parses, Accepted
<1>6. /\ Shape(Read(c)) /\ Known(Read(c).profiles) /\ DOMAIN Read(c).profiles = DOMAIN c.profiles
      /\ Read(c).phases = c.phases
  BY <1>5, ReadKeeps
<1> HIDE DEF Read
<1>7. Bound(Read(c))
  BY <1>4, <1>6 DEF Bound
<1> QED
  BY <1>5, <1>6, <1>7, MergedBound DEF Loaded

(* A legacy file whose providers are known loads, and its phases keep their*)
(* accounts and models.                                                    *)
LEMMA LegacyKept ==
  ASSUME NEW v, StartValue(v), DOMAIN v.profiles = {},
         \A p \in DOMAIN v.phases \cap AgentPhases : AccountOf(v.phases[p]).provider \in Providers
  PROVE  /\ Parses(v)
         /\ \A p \in DOMAIN v.phases \cap AgentPhases : IsFlat(v.phases[p]) =>
              Resolved(Loaded(v), Now(v.phases, p)) =
                [account |-> AccountOf(v.phases[p]), model |-> v.phases[p].model, window |-> DefaultWindow]
<1> DEFINE ids == DOMAIN v.profiles \cup {"default"}
           E == {v.phases[p] : p \in DOMAIN v.phases \cap AgentPhases}
<1> PICK phases : phases = MigratedPhases(v.phases)
  OBVIOUS
<1> PICK w : w = [profiles |-> v.profiles, default |-> v.default, phases |-> phases, brave |-> v.brave]
  OBVIOUS
<1>1. PhaseEntries(phases, ids) /\ DOMAIN phases \subseteq AgentPhases
  BY PhasesMigrate DEF StartValue
<1>2. Migrated(v) = Profiled(w)
  BY MigratedIs DEF StartValue
<1>3. Shape(w) /\ w.phases = phases /\ w.profiles = v.profiles
  BY <1>1 DEF Shape, PhaseEntries, StartValue
<1>4. \A p \in DOMAIN phases : AccountOf(phases[p]).provider \in Providers
  <2>1. EntriesIn(v.phases, E)
    BY DEF EntriesIn
  <2>2. \A entry \in E : AccountOf(entry).provider \in Providers
    OBVIOUS
  <2> HIDE DEF E
  <2>3. \A p \in DOMAIN phases : phases[p] \in E
    BY <2>1, MigratedIn
  <2> QED
    BY <2>2, <2>3
<1> PICK c : c = Profiled(w)
  OBVIOUS
<1>5. ASSUME NEW q \in DOMAIN phases, IsFlat(phases[q])
      PROVE  /\ Bound(c) /\ DOMAIN c.phases = DOMAIN phases
             /\ \A p \in DOMAIN phases :
                  LET new == c.phases[p]
                  IN /\ new.profile \in DOMAIN c.profiles
                     /\ c.profiles[new.profile] = AccountOf(phases[p])
                     /\ new.model = phases[p].model /\ new.window = DefaultWindow
             /\ \A id \in DOMAIN c.profiles : c.profiles[id].provider \in Providers
  <2> HIDE DEF ids
  <2>1. /\ Bound(c) /\ DOMAIN c.phases = DOMAIN phases
        /\ \A p \in DOMAIN phases :
             LET new == c.phases[p]
             IN /\ new.profile \in DOMAIN c.profiles
                /\ c.profiles[new.profile] = AccountOf(phases[p])
                /\ new.model = phases[p].model /\ new.window = DefaultWindow
        /\ \A id \in DOMAIN c.profiles : \E p \in DOMAIN phases : c.profiles[id] = AccountOf(phases[p])
    BY <1>1, <1>3, <1>5, FlatPhasesConverted
  <2>2. \A id \in DOMAIN c.profiles : c.profiles[id].provider \in Providers
    BY <1>4, <2>1
  <2> QED
    BY <2>1, <2>2
<1>6. Shape(c) /\ Parses(v) /\ Accepted(c)
  <2>1. CASE \A p \in DOMAIN phases : ~IsFlat(phases[p])
    <3>1. c = w
      BY <1>3, <2>1 DEF Profiled
    <3>2. DOMAIN c.profiles = {} /\ \A p \in DOMAIN c.phases : ~IsFlat(c.phases[p])
      BY <1>3, <2>1, <3>1
    <3> QED
      BY <1>2, <1>3, <3>1, <3>2 DEF Parses, Accepted
  <2>2. CASE \E p \in DOMAIN phases : IsFlat(phases[p])
    <3>1. Bound(c) /\ \A id \in DOMAIN c.profiles : c.profiles[id].provider \in Providers
      BY <1>5, <2>2
    <3>2. \A p \in DOMAIN c.phases : ~IsFlat(c.phases[p])
      BY <3>1, BindingIsNotFlat DEF Bound
    <3>3. \A id \in DOMAIN c.profiles : NormalizedProvider(c.profiles[id].provider) \in Providers
      BY <3>1, ProvidersStay
    <3> QED
      BY <1>2, <3>1, <3>2, <3>3 DEF Parses, Accepted, Bound
  <2> QED
    BY <2>1, <2>2
<1> PICK read : read = Read(c)
  OBVIOUS
<1>7. /\ Deserialized(v) = read /\ Shape(read) /\ Known(read.profiles)
      /\ DOMAIN read.profiles = DOMAIN c.profiles /\ read.phases = c.phases
      /\ \A id \in DOMAIN c.profiles : c.profiles[id].provider \in Providers => read.profiles[id] = c.profiles[id]
  BY <1>2, <1>6, DeserializedIs, ReadKeeps
<1>8. ASSUME NEW p \in DOMAIN v.phases \cap AgentPhases, IsFlat(v.phases[p])
      PROVE  Resolved(Loaded(v), Now(v.phases, p)) =
                [account |-> AccountOf(v.phases[p]), model |-> v.phases[p].model, window |-> DefaultWindow]
  <2> PICK home : home = Now(v.phases, p)
    OBVIOUS
  <2> PICK entry : entry = v.phases[p]
    OBVIOUS
  <2>1. home \in DOMAIN phases /\ phases[home] = entry /\ IsFlat(entry)
    BY <1>8, PhasesMigrate DEF StartValue
  <2> PICK new : new = c.phases[home]
    OBVIOUS
  <2>2. /\ Bound(c) /\ DOMAIN c.phases = DOMAIN phases
        /\ new.profile \in DOMAIN c.profiles
        /\ c.profiles[new.profile] = AccountOf(entry)
        /\ new.model = entry.model /\ new.window = DefaultWindow
        /\ \A id \in DOMAIN c.profiles : c.profiles[id].provider \in Providers
    BY <1>5, <2>1
  <2>3. Bound(read) /\ read.phases[home] = new /\ read.profiles[new.profile] = AccountOf(entry)
        /\ new.profile \in DOMAIN read.profiles /\ home \in DOMAIN read.phases
    BY <1>7, <2>1, <2>2 DEF Bound
  <2>4. Merged(read).phases[home] = new /\ Merged(read).profiles[new.profile] = AccountOf(entry)
    BY <1>7, <2>3, MergedBound
  <2>5. Loaded(v) = Merged(read)
    BY <1>7 DEF Loaded
  <2> QED
    BY <2>2, <2>4, <2>5 DEF Resolved
<1> QED
  BY <1>6, <1>8

(* A file that a server wrote is loaded as it is.                          *)
LEMMA LoadedFile ==
  ASSUME NEW v, v \in StartFiles \cup {Missing, Torn} \/ Based(v)
  PROVE  /\ Loads(v) => Based(Loaded(v))
         /\ Based(v) => Loads(v) /\ Loaded(v) = v
<1>1. ASSUME Based(v) PROVE Loads(v) /\ Loaded(v) = v
  <2>1. Migrated(v) = v /\ Merged(v) = v
    BY <1>1, MigratedGood, MergedGood DEF Based
  <2>2. Parses(v)
    <3>1. \A p \in DOMAIN v.phases : ~IsFlat(v.phases[p])
      BY <1>1, BindingIsNotFlat DEF Based, Good
    <3>2. \A id \in DOMAIN v.profiles : NormalizedProvider(v.profiles[id].provider) \in Providers
      BY <1>1, ProvidersStay DEF Based, Known
    <3> QED
      BY <2>1, <3>1, <3>2 DEF Parses
  <2>3. v # Missing /\ v # Torn
    BY <1>1 DEF Based, Good, Shape, Missing, Torn
  <2>4. Deserialized(v) = v
    BY <1>1, <2>2, ReadGood DEF Based
  <2> QED
    BY <2>1, <2>2, <2>3, <2>4 DEF Loads, Loaded
<1>2. ASSUME v \in StartFiles, Loads(v) PROVE Based(Loaded(v))
  BY <1>2, StartFilesAre, LoadedIsBased DEF Loads
<1> QED
  BY <1>1, <1>2 DEF Loads

ConfigInv ==
  /\ memory = Down \/ Based(memory)
  /\ DOMAIN pages = Tabs /\ \A t \in Tabs : pages[t] = Closed \/ Good(pages[t])
  /\ file \in StartFiles \cup {Missing, Torn} \/ Based(file)
  /\ agreed \in BOOLEAN /\ edits \in 0..MaxEdits
  /\ SavedIsLoaded

(* At the first start no server runs and no page is open.                  *)
LEMMA ConfigStart == ASSUME ConfigInit PROVE ConfigInv
<1>1. /\ memory = Down /\ file \in StartFiles /\ agreed = FALSE /\ edits = 0
      /\ pages = [t \in Tabs |-> Closed]
  BY DEF ConfigInit
<1>2. edits \in 0..MaxEdits
  BY <1>1, ConfigAssumption
<1>3. SavedIsLoaded
  BY <1>1 DEF SavedIsLoaded
<1> QED
  BY <1>1, <1>2, <1>3 DEF ConfigInv

(* No load, save, crash or edit leaves a bad configuration behind.         *)
LEMMA ConfigStep ==
  ASSUME ConfigInv, [ConfigNext]_config
  PROVE  ConfigInv'
<1>1. CASE Load
  <2>1. PICK new : new = file' /\ (new = file \/ (file = Missing /\ new \in {Missing, Torn, Json(DefaultConfig)}))
    BY <1>1 DEF Load
  <2>2. Based(Json(DefaultConfig)) /\ Json(DefaultConfig) = [DefaultConfig EXCEPT !.brave = Null]
    BY DefaultIsBased, JsonGood DEF Json, Based
  <2>3. memory' = IF Loads(file) THEN Loaded(file) ELSE DefaultConfig
    BY <1>1 DEF Load
  <2>4. Based(memory')
    BY <2>3, DefaultIsBased, LoadedFile DEF ConfigInv
  <2>5. file' \in StartFiles \cup {Missing, Torn} \/ Based(file')
    BY <2>1, <2>2 DEF ConfigInv
  <2>6. agreed' = Loads(new) /\ pages' = pages /\ edits' = edits
    BY <1>1, <2>1 DEF Load
  <2>7. agreed' \in BOOLEAN
    BY <2>6 DEF Loads, Parses
  <2>8. ASSUME agreed' PROVE Loads(new) /\ Loaded(new) = [memory' EXCEPT !.brave = Loaded(new).brave]
    <3>1. Loads(new)
      BY <2>6, <2>8
    <3>2. CASE new = file
      <4>1. memory' = Loaded(new) /\ Based(Loaded(new))
        BY <2>3, <2>4, <3>1, <3>2
      <4> QED
        BY <3>1, <4>1 DEF Based, Good, Shape
    <3>3. CASE new # file
      <4>1. new = Json(DefaultConfig) /\ file = Missing /\ memory' = DefaultConfig
        BY <2>1, <2>3, <3>1, <3>3 DEF Loads
      <4>2. Loaded(new) = Json(DefaultConfig)
        BY <2>2, <4>1, LoadedFile
      <4>3. Json(DefaultConfig) = [DefaultConfig EXCEPT !.brave = Json(DefaultConfig).brave]
        BY DefaultIsBased, JsonGood DEF Json, Based
      <4> QED
        BY <3>1, <4>1, <4>2, <4>3
    <3> QED
      BY <3>2, <3>3
  <2>9. SavedIsLoaded'
    BY <2>1, <2>8 DEF SavedIsLoaded
  <2> QED
    BY <2>4, <2>5, <2>6, <2>7, <2>9 DEF ConfigInv
<1>2. CASE StopServer
  <2>1. memory' = Down /\ agreed' = FALSE /\ UNCHANGED <<file, pages, edits>>
    BY <1>2 DEF StopServer
  <2> QED
    BY <2>1 DEF ConfigInv, SavedIsLoaded
<1>3. ASSUME NEW t \in Tabs, GetConfig(t) PROVE ConfigInv'
  <2>1. memory # Down /\ UNCHANGED <<file, memory, agreed, edits>>
        /\ pages' = [pages EXCEPT ![t] = Json(Merged(memory))]
    BY <1>3 DEF GetConfig
  <2>2. Good(Json(Merged(memory)))
    BY <2>1, MergedGood, JsonGood DEF ConfigInv, Based
  <2>3. DOMAIN pages' = Tabs /\ \A u \in Tabs : pages'[u] = Closed \/ Good(pages'[u])
    BY <2>1, <2>2 DEF ConfigInv
  <2>4. SavedIsLoaded'
    BY <2>1 DEF ConfigInv, SavedIsLoaded
  <2> QED
    BY <2>1, <2>3, <2>4 DEF ConfigInv
<1>4. ASSUME NEW t \in Tabs, EditPage(t) PROVE ConfigInv'
  <2>1. PICK page \in PageEdits(pages[t]) : pages' = [pages EXCEPT ![t] = page]
    BY <1>4 DEF EditPage
  <2>2. pages[t] # Closed /\ edits < MaxEdits /\ edits' = edits + 1 /\ UNCHANGED <<file, memory, agreed>>
    BY <1>4 DEF EditPage
  <2>3. Good(page)
    BY <2>2, EditedIsGood DEF ConfigInv
  <2>4. DOMAIN pages' = Tabs /\ \A u \in Tabs : pages'[u] = Closed \/ Good(pages'[u])
    BY <2>1, <2>3 DEF ConfigInv
  <2>5. edits' \in 0..MaxEdits
    BY <2>2, ConfigAssumption DEF ConfigInv
  <2>6. SavedIsLoaded'
    BY <2>2 DEF ConfigInv, SavedIsLoaded
  <2> QED
    BY <2>2, <2>4, <2>5, <2>6 DEF ConfigInv
<1>5. ASSUME NEW t \in Tabs, PutConfig(t) PROVE ConfigInv'
  <2> PICK new : new = Put(memory, Deserialized(pages[t]))
    OBVIOUS
  <2>1. pages[t] # Closed /\ memory # Down /\ Parses(pages[t]) /\ edits' = edits
    BY <1>5 DEF PutConfig
  <2>2. Good(pages[t]) /\ Based(memory)
    BY <2>1 DEF ConfigInv
  <2>3. Based(new)
    BY <2>1, <2>2, ReadGood, PutGood
  <2>4. Based(Json(new)) /\ Good(Json(new)) /\ Json(new) = [new EXCEPT !.brave = Json(new).brave]
    BY <2>3, JsonGood DEF Based, Json, Good, Shape
  <2>5. Loads(Json(new)) /\ Loaded(Json(new)) = Json(new)
    BY <2>4, LoadedFile
  <2>6. CASE /\ memory' = new /\ file' = Json(new) /\ agreed' = TRUE
             /\ pages' = [pages EXCEPT ![t] = Json(new)]
    <3>1. DOMAIN pages' = Tabs /\ \A u \in Tabs : pages'[u] = Closed \/ Good(pages'[u])
      BY <2>4, <2>6 DEF ConfigInv
    <3>2. SavedIsLoaded'
      BY <2>4, <2>5, <2>6 DEF SavedIsLoaded
    <3> QED
      BY <2>1, <2>3, <2>4, <2>6, <3>1, <3>2 DEF ConfigInv
  <2>7. CASE memory' = new /\ file' \in {file, Torn} /\ agreed' = FALSE /\ UNCHANGED pages
    <3>1. file' \in StartFiles \cup {Missing, Torn} \/ Based(file')
      BY <2>7 DEF ConfigInv
    <3> QED
      BY <2>1, <2>3, <2>7, <3>1 DEF ConfigInv, SavedIsLoaded
  <2>8. CASE memory' = Down /\ file' \in {file, Torn, Json(new)} /\ agreed' = FALSE /\ UNCHANGED pages
    <3>1. file' \in StartFiles \cup {Missing, Torn} \/ Based(file')
      BY <2>4, <2>8 DEF ConfigInv
    <3> QED
      BY <2>1, <2>8, <3>1 DEF ConfigInv, SavedIsLoaded
  <2> QED
    BY <1>5, <2>6, <2>7, <2>8 DEF PutConfig
<1>6. CASE UNCHANGED config
  BY <1>6 DEF config, ConfigInv, SavedIsLoaded
<1> QED
  BY <1>1, <1>2, <1>3, <1>4, <1>5, <1>6 DEF ConfigNext

(* Such configurations resolve and survive.                                *)
LEMMA ConfigInvMeans ==
  ASSUME ConfigInv
  PROVE  ConfigTypeOK /\ EveryPhaseResolves /\ ConfigSurvives
<1>1. ConfigTypeOK /\ EveryPhaseResolves
  BY DEF ConfigInv, ConfigTypeOK, EveryPhaseResolves, Resolves, Based, Good, Binding
<1>2. LegacyMeansTheSame
  <2> SUFFICES ASSUME file \notin {Missing, Torn}, DOMAIN file.profiles = {},
                      \A p \in DOMAIN file.phases \cap AgentPhases : AccountOf(file.phases[p]).provider \in Providers
               PROVE  LegacyMeansTheSame
    BY DEF LegacyMeansTheSame
  <2>1. ~Based(file)
    BY DEF Based
  <2>2. StartValue(file)
    BY <2>1, StartFilesAre DEF ConfigInv
  <2> QED
    BY <2>2, LegacyKept DEF LegacyMeansTheSame, Now
<1> QED
  BY <1>1, <1>2 DEF ConfigSurvives, ConfigInv

-----------------------------------------------------------------------------
(* 9. The services together: each step is one service's.                   *)

(* Each service's steps are steps of its own; the others' leave it alone.  *)
LEMMA OneServiceMoves ==
  [Next]_vars => /\ [ConfigNext]_config /\ [MetricsNext]_metrics /\ [EvaluatorNext]_evaluating
                 /\ [StdioNext]_stdio /\ [LogNext]_runtimeLog
BY DEF Next, vars, ConfigMoves, MetricsMoves, EvaluatorMoves, StdioMoves, LogMoves

ServicesInv == ConfigInv /\ MetricsInv /\ EvalInv /\ LoopInv /\ AnswersInOrder /\ LogInv

(* The invariants hold at the start.                                       *)
LEMMA ServicesStart == Init => ServicesInv
BY ConfigStart, MetricsStart, EvalInit, LoopInit, LogStart DEF Init, ServicesInv

(* Every step keeps them.                                                  *)
LEMMA ServicesStep == ServicesInv /\ [Next]_vars => ServicesInv'
<1> SUFFICES ASSUME ServicesInv, [Next]_vars PROVE ServicesInv'
  OBVIOUS
<1>1. /\ [ConfigNext]_config /\ [MetricsNext]_metrics /\ [EvaluatorNext]_evaluating
      /\ [StdioNext]_stdio /\ [LogNext]_runtimeLog
  BY OneServiceMoves
<1>2. ConfigInv'
  BY <1>1, ConfigStep DEF ServicesInv
<1>3. MetricsInv'
  BY <1>1, MetricsStep DEF ServicesInv
<1>4. EvalInv' /\ LoopInv' /\ AnswersInOrder' /\ LogInv'
  BY <1>1, EvalStep, LoopStep, LogStep DEF ServicesInv
<1> QED
  BY <1>2, <1>3, <1>4 DEF ServicesInv

(* They hold of every behaviour.                                           *)
LEMMA ServicesAlways == Spec => []ServicesInv
<1>1. Init => ServicesInv
  BY ServicesStart
<1>2. ServicesInv /\ [Next]_vars => ServicesInv'
  BY ServicesStep
<1> QED
  BY <1>1, <1>2, PTL DEF Spec

(* The services' variables are what the code declares, and their bounds    *)
(* hold.                                                                   *)
THEOREM ServicesTypeCorrect == Spec => []TypeOK
<1>1. ServicesInv => TypeOK
  <2> SUFFICES ASSUME ServicesInv PROVE TypeOK
    OBVIOUS
  <2>1. ConfigTypeOK /\ MetricsTypeOK
    BY ConfigInvMeans, MetricsInvAdds DEF ServicesInv
  <2>2. EvaluatorTypeOK
    <3>1. evaluations \in Seq(Evaluations) /\ Len(evaluations) <= MaxRows /\ Len(results) <= MaxJobs
      BY DEF ServicesInv, EvalInv
    <3>2. \A i \in Rows : evaluations[i] \in Evaluations
      BY <3>1 DEF Rows
    <3> QED
      BY <3>1, <3>2 DEF EvaluatorTypeOK, Evaluations
  <2>3. LoopTypeOK
    <3>1. Len(ring) <= Capacity
      <4>1. Cardinality(RecordedOnes) \in Nat /\ Capacity \in Nat
        BY RecordedFinite, ServerLoopAssumption DEF ServicesInv, LogInv
      <4> QED
        BY <4>1 DEF ServicesInv, LogInv
    <3>2. loop \in {"reading", "calling", "ended"} /\ framing \in {"none", "line", "headers"}
      BY DEF ServicesInv, LoopInv
    <3> QED
      BY <3>1, <3>2 DEF LoopTypeOK
  <2> QED
    BY <2>1, <2>2, <2>3 DEF TypeOK
<1> QED
  BY <1>1, ServicesAlways, PTL

(* Whichever pages save over each other and however stale they are,        *)
(* whatever the file holds at a start and wherever a save fails, every     *)
(* phase of the running server resolves to a profile there is              *)
(* (resolve_phase, put_config, load_or_default).                           *)
THEOREM EveryPhaseHasAnAccount == Spec => []EveryPhaseResolves
<1>1. ServicesInv => EveryPhaseResolves
  BY ConfigInvMeans DEF ServicesInv
<1> QED
  BY <1>1, ServicesAlways, PTL

(* For every file on disk at the first start and every sequence of edits,  *)
(* saves, failed saves and crashes, what a save wrote is what the next     *)
(* start reads, and a legacy file that names known providers loads with    *)
(* each phase at its own account and model (save_to_file, load_from_file,  *)
(* migrate_flat_phases_to_profiles).                                       *)
THEOREM ConfigurationSurvives == Spec => []ConfigSurvives
<1>1. ServicesInv => ConfigSurvives
  BY ConfigInvMeans DEF ServicesInv
<1> QED
  BY <1>1, ServicesAlways, PTL

(* However many servers and jobs write the tables, the day's summary adds  *)
(* up over the phases, each phase's timeline ends at its daily row, and a  *)
(* job is charged for the bridge once (query_summary, query_timeline,      *)
(* record_premium_bridge).                                                 *)
THEOREM UsageAddsUp == Spec => []MetricsAddUp
<1>1. ServicesInv => MetricsAddUp
  BY MetricsInvAdds DEF ServicesInv
<1> QED
  BY <1>1, ServicesAlways, PTL

(* For results of every length, judged any number of times, the judge reads*)
(* the same text, without any earlier verdict (strip_auto_eval_appendix,   *)
(* evaluate_once).                                                         *)
THEOREM SameTextIsJudged == Spec => []JudgedAlike
<1>1. ServicesInv => JudgedAlike
  BY EvalInvJudged DEF ServicesInv
<1> QED
  BY <1>1, ServicesAlways, PTL

(* For every page size and number of rows the pages show each evaluation at*)
(* one place, and for every capacity the log's ring holds exactly the      *)
(* newest recorded events (list_evaluations_page, RuntimeLog::push).       *)
THEOREM PagesAreComplete == Spec => []PagesShowAll
<1>1. ServicesInv => PagesShowAll
  BY EvalInvPages, LogInvNewest DEF ServicesInv, PagesShowAll
<1> QED
  BY <1>1, ServicesAlways, PTL

(* For every input on stdin each message that wants an answer gets its own,*)
(* in the order they came and in the framing of the first (run_stdio).     *)
THEOREM AnswersComeInOrder == Spec => []AnswersInOrder
<1>1. ServicesInv => AnswersInOrder
  BY DEF ServicesInv
<1> QED
  BY <1>1, ServicesAlways, PTL

(* A later exemplar never has a lower score than an earlier one, however   *)
(* many rows are stored in between (load_best_desired_output_exemplar).    *)
THEOREM ExemplarsNeverGetWorse == Spec => ExemplarNeverWorse
<1>1. ServicesInv /\ ServicesInv' /\ [Next]_vars =>
        [\A agent \in {EvalTarget[t] : t \in DOMAIN EvalTarget} :
           BestDesiredOutput(agent) # 0 =>
             evaluations'[BestDesiredOutput(agent)'].score >= evaluations[BestDesiredOutput(agent)].score]_evaluating
  <2> SUFFICES ASSUME ServicesInv, ServicesInv', [Next]_vars, NEW agent \in {EvalTarget[t] : t \in DOMAIN EvalTarget},
                      BestDesiredOutput(agent) # 0
               PROVE  evaluations'[BestDesiredOutput(agent)'].score >= evaluations[BestDesiredOutput(agent)].score
    OBVIOUS
  <2>1. [EvaluatorNext]_evaluating
    BY OneServiceMoves
  <2>2. EvalInv /\ EvalInv'
    BY DEF ServicesInv
  <2> QED
    BY <2>1, <2>2, ExemplarStep
<1> QED
  BY <1>1, ServicesAlways, PTL DEF Spec, ExemplarNeverWorse
==============================================================================

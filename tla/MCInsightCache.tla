---------------------------- MODULE MCInsightCache ----------------------------
(* Small instances of InsightCache: two phrases, alike or not, with files of *)
(* their own or one in common.                                               *)
EXTENDS InsightCache, FiniteSets, TLC
CONSTANTS p1, p2, f1, f2, f3

OwnFiles == p1 :> {f1, f2} @@ p2 :> {f3}
OneFile == [p \in Phrases |-> {f1}]
Same == 3
Alike == 2
Apart == [e \in Phrases \X Phrases |-> IF e[1] = e[2] THEN Same ELSE 0]
Near == [e \in Phrases \X Phrases |-> IF e[1] = e[2] THEN Same ELSE Alike]
==============================================================================

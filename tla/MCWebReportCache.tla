--------------------------- MODULE MCWebReportCache ---------------------------
(* Small instances of WebReportCache: two phrases that match each other, one *)
(* of them with a page on localhost, or on one page.                          *)
EXTENDS WebReportCache, TLC
CONSTANTS p1, p2, u1, u2, u3

OwnPages == p1 :> {u1, u2} @@ p2 :> {u3}
AnyPage == [p \in Phrases |-> Urls]
Near == [e \in Phrases \X Phrases |-> IF e[1] = e[2] THEN 3 ELSE 2]
==============================================================================

----------------------------- MODULE MCJobRunner -----------------------------
(* Small instances of JobRunner for TLC. *)
EXTENDS JobRunner, TLC

\* Job ids and paths are interchangeable in the safety runs.
JobSymmetry == Permutations(Uuids)
JobAndPathSymmetry == JobSymmetry \cup Permutations(Paths)
==============================================================================

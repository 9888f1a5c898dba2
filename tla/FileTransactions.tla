-------------------------- MODULE FileTransactions --------------------------
(***************************************************************************)
(* What a journaled job promises about the workspace, with no journal in   *)
(* sight: the edits of a job are an overlay on the committed files; a job  *)
(* that succeeds commits its overlay as a whole, one that fails drops it   *)
(* as a whole.  Jobs that are open together do not write the same path.    *)
(*                                                                         *)
(* Two weaknesses of the real thing are part of the promise, because no    *)
(* caller may rely on more: a path in Fragile may not get its old content  *)
(* back, and the end of the process turns every overlay into committed     *)
(* files.                                                                  *)
(***************************************************************************)
CONSTANTS Owners, Paths, Contents, Unset, Fragile

VARIABLES
  committed,  \* what the files hold as far as finished jobs are concerned
  overlay,    \* overlay[o][p]: what open job o has made of p
  fate        \* fate[o]: "none", "open", "committed" or "aborted"

vars == <<committed, overlay, fate>>

Empty == [p \in Paths |-> Unset]

Init ==
  /\ committed \in [Paths -> Contents]
  /\ overlay = [o \in Owners |-> Empty]
  /\ fate = [o \in Owners |-> "none"]

Edited(o) == {p \in Paths : overlay[o][p] # Unset}

Open(o) ==
  /\ fate[o] = "none"
  /\ fate' = [fate EXCEPT ![o] = "open"]
  /\ UNCHANGED <<committed, overlay>>

\* An edit of an open job shows in its own overlay and nowhere else.
Edit(o, p, content) ==
  /\ fate[o] = "open"
  /\ \A other \in Owners \ {o} : overlay[other][p] = Unset
  /\ overlay' = [overlay EXCEPT ![o][p] = content]
  /\ UNCHANGED <<committed, fate>>

\* An edit of a job that keeps no journal is committed at once.
DirectEdit(p, content) ==
  /\ \A o \in Owners : overlay[o][p] = Unset
  /\ committed' = [committed EXCEPT ![p] = content]
  /\ UNCHANGED <<overlay, fate>>

\* The overlay of o goes; only its paths in "kept" reach the files.
Close(o, kept) ==
  /\ committed' = [p \in Paths |->
                     IF p \in kept THEN overlay[o][p] ELSE committed[p]]
  /\ overlay' = [overlay EXCEPT ![o] = Empty]

Commit(o) ==
  /\ fate[o] = "open"
  /\ Close(o, Edited(o))
  /\ fate' = [fate EXCEPT ![o] = "committed"]

\* A job may also fail before it has opened.
Abort(o) ==
  /\ fate[o] \in {"none", "open"}
  /\ \E unrestored \in SUBSET (Edited(o) \cap Fragile) : Close(o, unrestored)
  /\ fate' = [fate EXCEPT ![o] = "aborted"]

\* The outcome of a finished job is forgotten.
Forget(forgotten) ==
  /\ \A o \in forgotten : fate[o] \in {"committed", "aborted"}
  /\ fate' = [o \in Owners |-> IF o \in forgotten THEN "none" ELSE fate[o]]
  /\ UNCHANGED <<committed, overlay>>

\* Every overlay becomes part of the files, and every outcome is forgotten.
Crash ==
  /\ committed' = [p \in Paths |->
                     IF \E o \in Owners : overlay[o][p] # Unset
                       THEN overlay[CHOOSE o \in Owners : overlay[o][p] # Unset][p]
                       ELSE committed[p]]
  /\ overlay' = [o \in Owners |-> Empty]
  /\ fate' = [o \in Owners |-> "none"]

Next ==
  \/ \E o \in Owners :
       \/ Open(o)
       \/ \E p \in Paths, content \in Contents : Edit(o, p, content)
       \/ Commit(o)
       \/ Abort(o)
  \/ \E p \in Paths, content \in Contents : DirectEdit(p, content)
  \/ \E forgotten \in SUBSET Owners : Forget(forgotten)
  \/ Crash

Spec == Init /\ [][Next]_vars
=============================================================================

---------------------------- MODULE ConfigRegister ----------------------------
(***************************************************************************)
(* What the configuration subsystem promises its users, seen from outside: *)
(* one stored configuration that every writer extends, and one live copy   *)
(* that the scroll filter obeys.  A configuration is the set of edits it   *)
(* contains.  A commit adds one edit and drops none; the live copy only    *)
(* ever moves forward, and only to something that was really committed.    *)
(* ConfigSync is the detailed system that implements it.                   *)
(***************************************************************************)
CONSTANT Edits

VARIABLES
    stored,    \* the committed configuration
    live       \* the configuration the running filter obeys

Init ==
    /\ stored \in SUBSET Edits
    /\ live \in SUBSET stored

(* A writer commits one edit on top of everything committed before it. *)
Commit(e) ==
    /\ e \notin stored
    /\ stored' = stored \cup {e}
    /\ UNCHANGED live

(* The filter picks up some newer committed version. *)
PickUp ==
    /\ live' \in SUBSET stored
    /\ live \subseteq live'
    /\ UNCHANGED stored

Next == PickUp \/ \E e \in Edits : Commit(e)

Spec == Init /\ [][Next]_<<stored, live>>
===============================================================================

------------------------------- MODULE Mutex -------------------------------
(***************************************************************************)
(* What a lock that lives in several processes promises: at most one lock  *)
(* object holds it, it is taken only when free, and it passes from one     *)
(* object to another only inside a process.                                *)
(***************************************************************************)
CONSTANTS
    Objects,     \* lock objects
    OwnerOf,     \* the process each object lives in
    Nobody

VARIABLE holder

Init == holder = Nobody

Acquire(l) == holder = Nobody /\ holder' = l

Release == holder # Nobody /\ holder' = Nobody

Transfer(l, m) ==
    /\ holder = l /\ OwnerOf[l] = OwnerOf[m]
    /\ holder' = m

Next ==
    \/ \E l \in Objects : Acquire(l)
    \/ Release
    \/ \E l, m \in Objects : Transfer(l, m)

Spec == Init /\ [][Next]_holder
=============================================================================

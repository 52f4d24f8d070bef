--------------------------- MODULE EventProjection ---------------------------
(***************************************************************************)
(* What the ingest path promises of every raw event: it moves from absent  *)
(* to stored to counted to fully projected, never back, and the inventory  *)
(* changes for it in one step only, the one that makes it counted.         *)
(***************************************************************************)
EXTENDS Integers

CONSTANT Event

VARIABLES status, inventory

Init ==
    /\ status = [e \in Event |-> "absent"]
    /\ inventory = [e \in Event |-> 0]

Advance(from, to, S) ==
    /\ \A e \in S : status[e] = from
    /\ status' = [e \in Event |-> IF e \in S THEN to ELSE status[e]]

Store(S) == Advance("absent", "stored", S) /\ UNCHANGED inventory

Count(S) ==
    /\ Advance("stored", "counted", S)
    /\ inventory' = [e \in Event |-> inventory[e] + IF e \in S THEN 1 ELSE 0]

Complete(S) == Advance("counted", "projected", S) /\ UNCHANGED inventory

Next == \E S \in SUBSET Event : Store(S) \/ Count(S) \/ Complete(S)

Spec == Init /\ [][Next]_<<status, inventory>>
=============================================================================

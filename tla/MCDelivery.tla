---------------------------- MODULE MCDelivery -----------------------------
(* Small instances of Delivery for TLC. *)
EXTENDS Delivery, TLC

CONSTANTS f1, f2, e1, e2, d1, boss, peer, k

\* The boss freezes and exports, each twice under one key; a peer downloads.
Callers == [c \in Calls |-> IF c = d1 THEN peer ELSE boss]
OneKey == [c \in Calls |-> k]

\* Calls of one user under one key are interchangeable.
CallSymmetry == Permutations(Freezes) \cup Permutations(Exports)
=============================================================================

--------------------------- MODULE MCPoolRotation ---------------------------
(* Instances of PoolRotation for TLC. *)
EXTENDS PoolRotation, TLC

CONSTANTS p1, p2, p3, p4

Pools3 == {p1, p2, p3}
Pools4 == {p1, p2, p3, p4}

(* The pools this node signs for are interchangeable. *)
Symmetry == Permutations(Pools3)
=============================================================================

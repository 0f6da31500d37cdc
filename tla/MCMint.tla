------------------------------- MODULE MCMint -------------------------------
(***************************************************************************)
(* Three nodes of one pool, two of which sign; the queries of one of them  *)
(* may fail.  The vault does not refuse: the nodes are on their own.       *)
(***************************************************************************)
EXTENDS Mint, FiniteSets, TLC

CONSTANTS n1, n2, n3, p1, r1, r2

Nodes == {n1, n2, n3}
Requests == {r1, r2}
OnePool == {p1}
TwoOfThree == [p \in OnePool |-> {Q \in SUBSET Nodes : Cardinality(Q) = 2}]
OneFlaky == {n3}

SameNodesAndRequests == Permutations({n1, n2}) \cup Permutations(Requests)
=============================================================================

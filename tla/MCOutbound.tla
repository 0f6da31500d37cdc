----------------------------- MODULE MCOutbound -----------------------------
(***************************************************************************)
(* Instances of Outbound for TLC.                                          *)
(***************************************************************************)
EXTENDS Outbound, TLC

CONSTANTS n1, n2, n3, p1, p2

(* No further rotation; the first answer of the vault makes p1 the newest,  *)
(* the next one p2.                                                         *)
FirstPools == {p1, p2}
TwoPools == <<p1, p2>>

Send(x, p) == [tx |-> x, code |-> 0, to |-> p, shape |-> "pair", fee |-> 1]

(* Three nodes of every pool, two of which sign. *)
Nodes == {n1, n2, n3}
TwoOfThree == [p \in Pool |-> {Q \in SUBSET Nodes : Cardinality(Q) = 2}]
SameNodes == Permutations(Nodes)

(* One deposit, and one without the fee in the same transaction. *)
OneDeposit == {Send(1, p2), [Send(1, p2) EXCEPT !.fee = 0]}

(* One node, which signs alone for the second pool and not for the first. *)
OneNode == {n1}
Alone == [p \in FirstPools |-> IF p = p1 THEN {} ELSE {OneNode}]
TwoDeposits == {Send(1, p2), Send(2, p1)}
=============================================================================

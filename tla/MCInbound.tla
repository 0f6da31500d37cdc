----------------------------- MODULE MCInbound -----------------------------
(***************************************************************************)
(* Instances of Inbound for TLC: two deposits and the payments of their    *)
(* fees, and a network without failures.                                   *)
(***************************************************************************)
EXTENDS Inbound

CONSTANTS p1, p2, p3

Tx(k, t, p, v) == [kind |-> k, hash |-> t, to |-> p, value |-> v, status |-> 1, own |-> 0]
Token(t, p)  == Tx("erc20", t, p, 0)
Fee(t, p, v) == Tx("native", t, p, v)

(* Deposit 1 is paid in two equal instalments, deposit 2 in one; an attempt *)
(* at deposit 2 was reverted by the token contract.                         *)
TwoDeposits ==
    { Token(1, p1), Fee(1, p1, 1), [Fee(1, p1, 1) EXCEPT !.own = 1],
      Token(2, p2), Fee(2, p2, 2), [Token(2, p2) EXCEPT !.status = 0] }

(* Blocks of at most one transaction: every order, over several blocks. *)
SmallBlocks == {<<>>} \cup {<<tx>> : tx \in PubTx}

(* Blocks of two deposits, paid before and after, in both orders. *)
Before(t) == <<Fee(t, p1, 2), Token(t, p1)>>
After(t)  == <<Token(t, p1), Fee(t, p1, 2)>>
FullBlocks == { Before(1) \o Before(2), After(2) \o After(1), After(1) \o Before(2) }

Deposits(ids) == {Token(t, p1) : t \in ids} \cup {Fee(t, p1, 2) : t \in ids}
TwoPaid == Deposits({1, 2})
ThreePaid == Deposits({1, 2, 3})
LateDeposit == { Before(2) \o Before(3), After(1) }

Pools == {p1, p2}
FirstPool == {p1}
Ids3 == {1, 2, 3}
Ids2 == {1, 2}

-----------------------------------------------------------------------------
(* A network without failures: every query, signing and broadcast succeeds, *)
(* no mint is dropped, so a check gives up only on a record that is not     *)
(* there.                                                                   *)
HealthyLoop ==
    \/ NewHead \/ TokenTransfer \/ FeePayment \/ OtherTx \/ FinishBlock
    \/ NewJoltifyBlock
    \/ \E t \in TxId : AlreadySubmitted(t) \/ (t \notin issued /\ MintSubmitted(t))
HealthyGoroutine ==
    \E j \in Job : \/ CheckSucceeds(j)
                   \/ ~(j.index = "own" /\ j.id \in issued) /\ CheckTimesOut(j)
HealthyEnvironment ==
    \/ \E b \in Block : Mine(b)
    \/ \E p \in Pool : CreatePool(p)
    \/ \E t \in TxId : OthersSubmit(t) \/ Execute(t)
HealthyFairSpec ==
    /\ Init /\ [][HealthyLoop \/ HealthyGoroutine \/ HealthyEnvironment]_vars
    /\ SF_vars(NewHead) /\ WF_vars(TokenTransfer \/ FeePayment \/ OtherTx)
    /\ WF_vars(FinishBlock) /\ SF_vars(NewJoltifyBlock)
    /\ \A t \in TxId : /\ SF_vars(AlreadySubmitted(t))
                        /\ SF_vars(t \notin issued /\ MintSubmitted(t))
                        /\ SF_vars(Execute(t))
    /\ \A j \in Job : WF_vars(CheckSucceeds(j)) /\ WF_vars(CheckTimesOut(j))
=============================================================================

------------------------------ MODULE Outbound ------------------------------
(***************************************************************************)
(* Outbound transfers by several nodes.  A user sends coins and the fee to *)
(* a pool on the joltify chain; every node that sees the transaction keeps *)
(* a request of its own and, when it signs for the newest pool, transfers  *)
(* the tokens on the public chain: it asks for the next nonce, signs with  *)
(* a quorum of the pool, broadcasts, and watches the receipt.  A failure   *)
(* on the way puts the request back, to be tried again with the nonce of   *)
(* that day.  Each signer has its own answer from the ceremony, and its own*)
(* from the broadcast: one may fail while another succeeds.                *)
(*                                                                         *)
(* A request is a pointer, so it is in one place of its node: waiting for  *)
(* a block of the public chain ("retry"), in OutboundReqChan ("chan"), in  *)
(* the hands of the event loop ("sign" until a quorum has met, "party"     *)
(* while it signs, "send" with the signature, or "stuck" in front of a full*)
(* channel), or with the goroutine that watches the receipt ("check").  The*)
(* loop serves one event at a time.                                        *)
(*                                                                         *)
(* The public chain is one chain with one mempool, which keeps one         *)
(* transaction for a nonce.  Two signatures of one transaction are not     *)
(* told apart: they share the nonce, so at most one of them is executed.   *)
(***************************************************************************)
EXTENDS PoolCache, FiniteSets

CONSTANTS
    Node,
    Deposit,         \* the MsgSends: [tx, code, to, shape, fee]
    Quorum,          \* for each pool the sets of nodes that can sign for it
    Created,         \* the pools the vault creates, in order
    FeeMin,          \* OUTBoundFeeOut
    Cap,             \* capacity of OutboundReqChan (reqCacheSize)
    Faults,          \* which of the faults below happen
    MaxNonce,        \* bound: transactions of a pool's account
    Spare            \* bound: the nonces that failures leave to transfers

(* A signer whose ceremony fails, a broadcast that reports an error although*)
(* the chain has the transaction, a transaction that the mempool forgets, a *)
(* receipt that does not come within the minute of CheckTxStatus, a node    *)
(* that restarts.                                                           *)
FaultKinds == {"sign", "lost", "drop", "late", "restart"}

ASSUME OutboundAssumption ==
    /\ Quorum \in [Pool -> SUBSET SUBSET Node]
    /\ Created \in Seq(Pool)
    /\ Faults \subseteq FaultKinds
    /\ MaxNonce \in Nat /\ Spare \in Nat

(* Two quorums have a node in common, also when their pools differ: keys    *)
(* are shared by more than half of the nodes.                               *)
ASSUME QuorumAssumption ==
    \A p, q \in Pool : \A Q \in Quorum[p], R \in Quorum[q] : Q \cap R # {}

VARIABLES
    vault,          \* the pools of the vault, oldest first
    lastTwoPools,   \* the cache of each node
    item,           \* the request of each node for each deposit
    nonce,          \* of each pool's account on the public chain
    mempool,        \* transactions the public chain was given
    paid, failed,   \* those it executed
    doubted         \* history: transfers that a signer put back on an error
                    \* although they were executed, or could still be

chainVars == <<nonce, mempool, paid, failed>>
vars == <<vault, lastTwoPools, item, chainVars, doubted>>

Transfer == [dep : Deposit, key : Pool, nonce : Nat]

Unseen == [at |-> "unseen"]
Gone == [at |-> "gone"]
Lost == [at |-> "lost"]       \* forgotten by a check that gave up, or a restart
Waiting == [at : {"retry", "chan", "stuck"}, from : Pool]
Working == [at : {"sign", "party", "send", "check"}, from : Pool, tx : Transfer]
Item == {Unseen, Gone, Lost} \cup Waiting \cup Working

Init ==
    /\ vault = <<>>
    /\ lastTwoPools = [n \in Node |-> EmptyCache]
    /\ item = [n \in Node |-> [d \in Deposit |-> Unseen]]
    /\ nonce = [p \in Pool |-> 0]
    /\ mempool = {} /\ paid = {} /\ failed = {} /\ doubted = {}

(* The event loop of n is at its select. *)
Free(n) == \A d \in Deposit : item[n][d].at \notin {"stuck", "sign", "party", "send"}

SetItem(n, d, i) == item' = [item EXCEPT ![n][d] = i]
(* Fault: a request that is put back is built anew, without its pool. *)
AddItem_NoPool(n, d) == SetItem(n, d, [at |-> "retry", from |-> None])

(* A request that is put back keeps what it was made of. *)
AddItem(n, d) == SetItem(n, d, [at |-> "retry", from |-> item[n][d].from])
Forget(n, d) == SetItem(n, d, Gone)
Lose(n, d) == SetItem(n, d, Lost)
WorkOn(n, d, place, tx) ==
    SetItem(n, d, [at |-> place, from |-> item[n][d].from, tx |-> tx])

(* The nonce of tx is used up, by tx itself or by another transaction. *)
Used(tx) == tx.nonce < nonce[tx.key]

(* Transfers in the hands of a signer that has or may get the signature.    *)
Signed ==
    {item[s[1]][s[2]].tx : s \in {r \in Node \X Deposit : item[r[1]][r[2]].at \in {"party", "send"}}}

(* Transfers that were executed with success, or may still be. *)
Live == mempool \cup paid \cup {tx \in Signed : ~Used(tx)}

(* A signer is told of an error about tx: if that is live, it is in doubt.  *)
Doubt(tx) == doubted' = doubted \cup ({tx} \cap Live')

-----------------------------------------------------------------------------
(* A NewBlock event of the joltify chain: the cache follows the vault. *)
Poll(n) ==
    /\ Free(n) /\ Len(vault) >= 2
    /\ lastTwoPools' = [lastTwoPools EXCEPT ![n] = NextCache(@, QueryLastPoolAddress(vault))]
    /\ UNCHANGED <<vault, item, chainVars, doubted>>

Verify(d) == d.fee >= FeeMin

(* Whether a message is a deposit: coins and fee, in either order, of a     *)
(* successful transaction to a cached pool.                                 *)
processMsg(n, d) ==
    /\ d.code = 0
    /\ lastTwoPools[n][1] # None /\ lastTwoPools[n][2] # None
    /\ checkToBridge(lastTwoPools[n], d.to)
    /\ d.shape = "pair" /\ Verify(d)

(* A Tx event: every message that is a deposit becomes a request, with the  *)
(* address of the newest pool.  The query of a sender may fail, and so does *)
(* its message; no event comes twice.                                       *)
CheckOutBoundTx(n, x) ==
    /\ Free(n)
    /\ \A d \in Deposit : d.tx = x => item[n][d] = Unseen
    /\ \E answered \in SUBSET {d \in Deposit : d.tx = x} :
         item' = [item EXCEPT ![n] = [d \in Deposit |->
             IF d.tx # x THEN @[d]
             ELSE IF d \in answered /\ processMsg(n, d)
                  THEN [at |-> "retry", from |-> lastTwoPools[n][2]]
                  ELSE Gone]]
    /\ UNCHANGED <<vault, lastTwoPools, chainVars, doubted>>

(* A block of the public chain puts one request, the greatest by a hash     *)
(* that changes with every try, into the channel the loop itself empties.   *)
PopItem(n, d) ==
    /\ Free(n) /\ item[n][d].at = "retry"
    /\ LET queued == {e \in Deposit : item[n][e].at = "chan"}
       IN  SetItem(n, d, [at |-> IF Cardinality(queued) < Cap THEN "chan" ELSE "stuck",
                          from |-> item[n][d].from])
    /\ UNCHANGED <<vault, lastTwoPools, chainVars, doubted>>

-----------------------------------------------------------------------------
(* The transactions of pool p's account, with nonce k, in the mempool. *)
Held(p, k) == {tx \in mempool : tx.key = p /\ tx.nonce = k}

(* k is the pending nonce of p's account. *)
PendingNonce(p, k) ==
    /\ k >= nonce[p] /\ Held(p, k) = {}
    /\ \A j \in nonce[p]..(k - 1) : Held(p, j) # {}

CheckWhetherSigner(n) == \E Q \in Quorum[lastTwoPools[n][2]] : n \in Q

Receive(n, d) == Free(n) /\ item[n][d].at = "chan"

(* A node that does not sign for the newest pool drops the request.         *)
NotSigner(n, d) ==
    /\ Receive(n, d) /\ ~CheckWhetherSigner(n)
    /\ Forget(n, d)
    /\ UNCHANGED <<vault, lastTwoPools, chainVars, doubted>>

(* ProcessOutBound up to the signature: the nonce is that of the pool of    *)
(* the request's arrival, the key that of the newest pool.                  *)
composeTx(n, d, k) ==
    /\ Receive(n, d) /\ CheckWhetherSigner(n)
    /\ PendingNonce(item[n][d].from, k)
    /\ WorkOn(n, d, "sign", [dep |-> d, key |-> lastTwoPools[n][2], nonce |-> k])
    /\ UNCHANGED <<vault, lastTwoPools, chainVars, doubted>>

(* A query of the chain fails, or the estimation of the gas. *)
TransferFails(n, d) ==
    /\ Receive(n, d) /\ CheckWhetherSigner(n)
    /\ AddItem(n, d)
    /\ UNCHANGED <<vault, lastTwoPools, chainVars, doubted>>

(* Node n waits for the others to sign tx. *)
Signing(n, tx) == item[n][tx.dep].at = "sign" /\ item[n][tx.dep].tx = tx

(* tssSign: a quorum whose members ask for the same bytes starts to sign.   *)
tssSign(Q, tx) ==
    /\ \A n \in Q : Signing(n, tx)
    /\ item' = [n \in Node |-> IF n \in Q
                    THEN [item[n] EXCEPT ![tx.dep] = [at |-> "party", from |-> @.from, tx |-> tx]]
                    ELSE item[n]]
    /\ UNCHANGED <<vault, lastTwoPools, chainVars, doubted>>

(* The others do not come, or sign something else. *)
SignFails(n, d) ==
    /\ item[n][d].at = "sign"
    /\ AddItem(n, d)
    /\ UNCHANGED <<vault, lastTwoPools, chainVars, doubted>>

(* KeySign returns the signature to n, whatever the other signers get ...   *)
KeySign(n, d) ==
    /\ item[n][d].at = "party"
    /\ WorkOn(n, d, "send", item[n][d].tx)
    /\ UNCHANGED <<vault, lastTwoPools, chainVars, doubted>>

(* ... or an error.                                                         *)
KeySignFails(n, d) ==
    /\ item[n][d].at = "party" /\ "sign" \in Faults
    /\ AddItem(n, d)
    /\ UNCHANGED <<vault, lastTwoPools, chainVars>>
    /\ Doubt(item[n][d].tx)

-----------------------------------------------------------------------------
Occupied(tx) == \E o \in Held(tx.key, tx.nonce) : o # tx

(* The mempool takes the transaction. *)
SendAccepted(n, d) ==
    /\ item[n][d].at = "send"
    /\ LET tx == item[n][d].tx
       IN  /\ tx \notin mempool /\ ~Used(tx) /\ ~Occupied(tx)
           /\ mempool' = mempool \cup {tx}
           /\ WorkOn(n, d, "check", tx)
    /\ UNCHANGED <<vault, lastTwoPools, nonce, paid, failed, doubted>>

(* "already known": the transaction has been submitted by others. *)
AlreadyKnown(n, d) ==
    /\ item[n][d].at = "send" /\ item[n][d].tx \in mempool
    /\ WorkOn(n, d, "check", item[n][d].tx)
    /\ UNCHANGED <<vault, lastTwoPools, chainVars, doubted>>

(* "nonce too low", also for a transaction that was executed meanwhile, or  *)
(* another transaction has the nonce.                                       *)
SendRefused(n, d) ==
    /\ item[n][d].at = "send"
    /\ LET tx == item[n][d].tx IN tx \notin mempool /\ (Used(tx) \/ Occupied(tx))
    /\ AddItem(n, d)
    /\ UNCHANGED <<vault, lastTwoPools, chainVars>>
    /\ Doubt(item[n][d].tx)

(* The answer is an error, whether or not the mempool took the transaction. *)
AnswerLost(n, d) ==
    /\ item[n][d].at = "send" /\ "lost" \in Faults
    /\ LET tx == item[n][d].tx
       IN  \/ UNCHANGED mempool
          \/ /\ tx.nonce < Spare /\ ~Used(tx) /\ ~Occupied(tx)
             /\ mempool' = mempool \cup {tx}
    /\ AddItem(n, d)
    /\ UNCHANGED <<vault, lastTwoPools, nonce, paid, failed>>
    /\ Doubt(item[n][d].tx)

(* Fault: a transfer that was executed is tried again.                      *)
CheckSucceeds_Retry(n, d) ==
    /\ item[n][d].at = "check" /\ item[n][d].tx \in paid
    /\ AddItem(n, d)
    /\ UNCHANGED <<vault, lastTwoPools, chainVars, doubted>>

(* CheckTxStatus, outside the event loop: the transfer was executed ...     *)
CheckSucceeds(n, d) ==
    /\ item[n][d].at = "check" /\ item[n][d].tx \in paid
    /\ Forget(n, d)
    /\ UNCHANGED <<vault, lastTwoPools, chainVars, doubted>>

(* Fault: a failed transfer is not tried again.                             *)
CheckFailed_Forget(n, d) ==
    /\ item[n][d].at = "check" /\ item[n][d].tx \in failed
    /\ Forget(n, d)
    /\ UNCHANGED <<vault, lastTwoPools, chainVars, doubted>>

(* ... or failed, and is tried again ...                                    *)
CheckFailed(n, d) ==
    /\ item[n][d].at = "check" /\ item[n][d].tx \in failed
    /\ AddItem(n, d)
    /\ UNCHANGED <<vault, lastTwoPools, chainVars, doubted>>

(* Fault: a transfer whose receipt is not found is tried again.             *)
CheckTimesOut_Retry(n, d) ==
    /\ item[n][d].at = "check" /\ "late" \in Faults
    /\ AddItem(n, d)
    /\ UNCHANGED <<vault, lastTwoPools, chainVars, doubted>>

(* ... or has no receipt that a query finds within the minute, executed or  *)
(* not, and is forgotten.                                                   *)
CheckTimesOut(n, d) ==
    /\ item[n][d].at = "check" /\ "late" \in Faults
    /\ Lose(n, d)
    /\ UNCHANGED <<vault, lastTwoPools, chainVars, doubted>>

(* Requests and cache live in memory. *)
Restart(n) ==
    /\ "restart" \in Faults
    /\ lastTwoPools' = [lastTwoPools EXCEPT ![n] = EmptyCache]
    /\ item' = [item EXCEPT ![n] = [d \in Deposit |-> IF @[d] \in {Unseen, Gone} THEN @[d] ELSE Lost]]
    /\ UNCHANGED <<vault, chainVars, doubted>>

-----------------------------------------------------------------------------
(* The two chains. *)
CreatePool ==
    /\ Len(vault) < Len(Created)
    /\ vault' = Append(vault, Created[Len(vault) + 1])
    /\ UNCHANGED <<lastTwoPools, item, chainVars, doubted>>

UseNonce(p) ==
    /\ nonce[p] < MaxNonce
    /\ nonce' = [nonce EXCEPT ![p] = @ + 1]
    /\ mempool' = mempool \ Held(p, nonce[p])
    /\ UNCHANGED <<vault, lastTwoPools, item, doubted>>

Mine(tx) ==
    /\ tx \in Held(tx.key, nonce[tx.key]) /\ UseNonce(tx.key)
    /\ paid' = paid \cup {tx} /\ UNCHANGED failed

(* Out of gas, or the pool does not have the tokens. *)
MineFails(tx) ==
    /\ tx \in Held(tx.key, nonce[tx.key]) /\ tx.nonce < Spare /\ UseNonce(tx.key)
    /\ failed' = failed \cup {tx} /\ UNCHANGED paid

(* Another transaction of the pool: MoveFunds signs with the same account.  *)
(* It takes the place of one in the mempool only when that is dropped.      *)
OtherTransfer(p) ==
    /\ nonce[p] < Spare /\ UseNonce(p)
    /\ Held(p, nonce[p]) = {} \/ "drop" \in Faults
    /\ UNCHANGED <<paid, failed>>

Drop(tx) ==
    /\ "drop" \in Faults /\ tx \in mempool
    /\ mempool' = mempool \ {tx}
    /\ UNCHANGED <<vault, lastTwoPools, item, nonce, paid, failed, doubted>>

-----------------------------------------------------------------------------
OfLoop(n) ==
    \/ Poll(n)
    \/ \E x \in {d.tx : d \in Deposit} : CheckOutBoundTx(n, x)
    \/ \E d \in Deposit :
        \/ PopItem(n, d) \/ NotSigner(n, d) \/ TransferFails(n, d)
        \/ SignFails(n, d) \/ KeySign(n, d) \/ KeySignFails(n, d)
        \/ \E k \in 0..(MaxNonce - 1) : composeTx(n, d, k)
        \/ SendAccepted(n, d) \/ AlreadyKnown(n, d) \/ SendRefused(n, d) \/ AnswerLost(n, d)

OfCheck(n) ==
    \E d \in Deposit : CheckSucceeds(n, d) \/ CheckFailed(n, d) \/ CheckTimesOut(n, d)

OfChains ==
    \/ CreatePool
    \/ \E tx \in mempool : Mine(tx) \/ MineFails(tx) \/ Drop(tx)
    \/ \E p \in Pool : OtherTransfer(p)

Next ==
    \/ \E n \in Node : OfLoop(n) \/ OfCheck(n) \/ Restart(n)
    \/ \E p \in Pool : \E Q \in Quorum[p] : \E n \in Q, d \in Deposit :
        item[n][d].at = "sign" /\ item[n][d].tx.key = p /\ tssSign(Q, item[n][d].tx)
    \/ OfChains

Spec == Init /\ [][Next]_vars

(* A call that is tried again and again succeeds now and then, the hash that*)
(* PopItem orders by changes with every try, CheckTxStatus ends in one way  *)
(* or another, and the public chain executes what it can.                   *)
SignedBy(n, d) ==
    item[n][d].at = "sign" /\ \E Q \in Quorum[item[n][d].tx.key] :
        n \in Q /\ tssSign(Q, item[n][d].tx)

Fairness ==
    /\ \A n \in Node, d \in Deposit :
        /\ SF_vars(PopItem(n, d))
        /\ SF_vars(\E k \in 0..(MaxNonce - 1) : composeTx(n, d, k))
        /\ SF_vars(SignedBy(n, d))
        /\ SF_vars(KeySign(n, d))
        /\ SF_vars(SendAccepted(n, d) \/ AlreadyKnown(n, d) \/ SendRefused(n, d))
        /\ WF_vars(CheckSucceeds(n, d) \/ CheckFailed(n, d) \/ CheckTimesOut(n, d))
    /\ \A p \in Pool : WF_vars(\E tx \in mempool : tx.key = p /\ Mine(tx))

FairSpec == Spec /\ Fairness

-----------------------------------------------------------------------------
(* Every variable keeps its type. *)
TypeOK ==
    /\ vault \in Seq(Pool)
    /\ lastTwoPools \in [Node -> Cache]
    /\ item \in [Node -> [Deposit -> Item]]
    /\ nonce \in [Pool -> Nat]
    /\ mempool \subseteq Transfer /\ paid \subseteq Transfer /\ failed \subseteq Transfer
    /\ doubted \subseteq Transfer

(* At no time may two transfers of one deposit both be executed, on         *)
(* whichever nodes, with whichever nonces and keys, unless a signer of one  *)
(* of them was told of an error (by KeySign or by the broadcast) though that*)
(* transfer was executed, or still could be.  Late receipts, restarts,      *)
(* dropped and failed transfers, and the race for nonces never bring it     *)
(* about.                                                                   *)
OneLiveUndoubted ==
    \A tx, other \in Live :
        tx.dep = other.dep => tx = other \/ tx \in doubted \/ other \in doubted

Receipts == {[req |-> t.dep, by |-> <<t.key, t.nonce>>] : t \in paid}
InDoubt == {t.dep : t \in doubted}

(* Outbound transfers implement Payout: the step that pays a deposit finds  *)
(* it unpaid, unless a signer was told such an error before.                *)
Promise == INSTANCE Payout WITH
    Req <- Deposit, Receipt <- Pool \X (0..(MaxNonce - 1)),
    paidOut <- Receipts, inDoubt <- InDoubt
PaidUnlessDoubted == Promise!Spec

(* A deposit is paid out once: what ProcessOutBound means by taking "already*)
(* known" for a transfer that was submitted by others.  The code breaks it. *)
Ideal == INSTANCE Issue WITH
    Req <- Deposit, Receipt <- Pool \X (0..(MaxNonce - 1)), minted <- Receipts
PaidOnce == Ideal!Spec

(* A node that signs alone pays out every request it accepted, whatever     *)
(* fails on the way and in whatever order requests are tried, except for    *)
(* what the code forgets by design: a request whose receipt the check did   *)
(* not find, one that a restart lost, and one whose pool is replaced, so    *)
(* that its nonces are not those of the key that signs.                     *)
EventuallyPaid ==
    \A n \in Node, d \in Deposit, p \in Pool : {n} \in Quorum[p] =>
        (item[n][d].at = "retry" /\ item[n][d].from = p)
            ~> \/ \E tx \in paid : tx.dep = d
               \/ item[n][d] = Lost
               \/ lastTwoPools[n][2] # p
=============================================================================

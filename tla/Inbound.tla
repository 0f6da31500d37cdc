------------------------------ MODULE Inbound ------------------------------
(***************************************************************************)
(* The inbound path of one bridge node: a user moves tokens to a TSS pool  *)
(* on the public chain (an ERC20 transfer), pays the bridge fee with a     *)
(* second, native transfer whose calldata names the first, and the node    *)
(* asks the joltify chain to issue the same amount of tokens.              *)
(*                                                                         *)
(* One goroutine, the event loop of bridge/joltifyBridge.go, does all the  *)
(* work: it selects among the heads of the public chain, the blocks of the *)
(* joltify chain and InboundReqChan, the queue of requests it feeds        *)
(* itself.  The other processes are the goroutines that wait for the       *)
(* outcome of a submitted mint, and the environment: the public chain      *)
(* (which may reorganise), the vault (which rotates pools), and the other  *)
(* nodes of the pool.                                                      *)
(*                                                                         *)
(* An inbound request is identified with the hash of the ERC20 transfer it *)
(* comes from: sender, amount and InboundReq.Hash are functions of it.     *)
(***************************************************************************)
EXTENDS PoolCache, FiniteSets, FiniteSetsExt

CONSTANTS
    TxId,           \* hashes of ERC20 transfers, positive so that they order
    PubTx,          \* the transactions the public chain may include
    Block,          \* bound: the blocks, sequences of them, it may mine
    SignerPool,     \* the pools this node holds a share of
    FeeMin,         \* config.InBoundFeeMin
    TxTimeout,      \* config.TxTimeout
    Word,           \* 2^w for the w-bit unsigned heights of the code
    ReqCacheSize,   \* capacity of InboundReqChan
    CheckBlocks,    \* joltify blocks that pass while CheckTxStatus gives up
    MaxHeight,      \* bound: blocks of the public chain
    MaxHeads,       \* bound: heads waiting in the subscription channel
    MaxReorg        \* bound: reorganisations of the public chain

ASSUME TxIdAssumption  == TxId \subseteq Nat \ {0}
ASSUME NoneNotTxId     == None \notin TxId
ASSUME NoneNotEntry    == None \notin [height : Nat, fee : Nat]
ASSUME BoundAssumption ==
    /\ FeeMin \in Nat /\ TxTimeout \in Nat /\ Word \in Nat \ {0}
    /\ ReqCacheSize \in Nat \ {0} /\ CheckBlocks \in Nat
    /\ MaxHeight \in Nat /\ MaxHeads \in Nat /\ MaxReorg \in Nat

(* What the node can tell apart about a transaction of the public chain:    *)
(* "erc20": calldata decodes as a transfer, sent to the bridged token;      *)
(* "foreign": decodes as a transfer, sent to another contract; "native":    *)
(* calldata does not decode, it names a transaction; "create": no receiver. *)
(* Its own identity tells two equal payments of one deposit apart.          *)
Kinds == {"erc20", "foreign", "native", "create"}

ASSUME PubTxAssumption ==
    PubTx \subseteq [ kind : Kinds, hash : TxId, to : Pool \cup {None},
                      value : Nat, status : {0, 1}, own : Nat ]
ASSUME BlockAssumption == Block \subseteq Seq(PubTx)

(* A transaction is in a block once, and a hash is the hash of one token    *)
(* transfer: it may fail in one block and succeed in another, but once it   *)
(* has succeeded there is no other.                                         *)
ASSUME TxAssumption ==
    /\ \A b \in Block : \A i, k \in 1..Len(b) : b[i] = b[k] => i = k
    /\ \A tx, ux \in PubTx :
            /\ tx.kind = "erc20" /\ ux.kind = "erc20" /\ tx.hash = ux.hash
            /\ tx.status = 1 /\ ux.status = 1
            => tx = ux

VARIABLES
    canon,              \* canonical public chain: a sequence of blocks
    heads,              \* pubNewBlockChan: numbers of announced heads
    reorgs,             \* reorganisations left
    vault,              \* pools created on the joltify chain, oldest first
    pc,                 \* "idle" at the select, "block" inside ProcessNewBlock
    number,             \* head.Number of the block being processed, else 0
    todo,               \* its transactions not yet looked at
    blocked,            \* the request a full InboundReqChan refuses, or None
    lastTwoPools,       \* cached pools, newest last
    pendingInbounds,    \* token transfers waiting for their fee
    pendingInboundsBnB, \* fees waiting for their token transfer
    InboundReqChan,     \* requests to be minted
    RetryInboundReq,    \* bag of requests waiting for a joltify block
    checking,           \* bag of goroutines inside CheckTxStatus
    submitted,          \* mint transactions in the joltify mempool
    issued              \* issue-token records on the joltify chain

chainVars == <<canon, heads, reorgs, vault>>
loopVars  == <<pc, number, todo, blocked, lastTwoPools>>
pendVars  == <<pendingInbounds, pendingInboundsBnB>>
reqVars   == <<InboundReqChan, RetryInboundReq, checking>>
mintVars  == <<submitted, issued>>
vars == <<chainVars, loopVars, pendVars, reqVars, mintVars>>

(* inboundTx and inboundTxBnb: the height of arrival and the fee so far. *)
Entry == [height : Nat, fee : Nat]

(* A goroutine in CheckTxStatus: it looks for the record of its request, or *)
(* for the empty index when ProcessInBound returned none.                   *)
Job == [id : TxId, index : {"own", "empty"}, left : 0..CheckBlocks]

Mined(tx) == \E h \in 1..Len(canon) : \E i \in 1..Len(canon[h]) : canon[h][i] = tx

-----------------------------------------------------------------------------
Init ==
    /\ canon = <<>> /\ heads = <<>> /\ reorgs = MaxReorg /\ vault = <<>>
    /\ pc = "idle" /\ number = 0 /\ todo = <<>> /\ blocked = None
    /\ lastTwoPools = EmptyCache
    /\ pendingInbounds    = [t \in TxId |-> None]
    /\ pendingInboundsBnB = [t \in TxId |-> None]
    /\ InboundReqChan = <<>>
    /\ RetryInboundReq = [t \in TxId |-> 0]
    /\ checking = [j \in Job |-> 0]
    /\ submitted = {} /\ issued = {}

-----------------------------------------------------------------------------
(* The environment. *)

(* The chain grows by a block of transactions it does not contain yet, and *)
(* the subscription announces its number.                                  *)
Mine(b) ==
    /\ Len(canon) < MaxHeight /\ Len(heads) < MaxHeads
    /\ \A i \in 1..Len(b) : ~Mined(b[i])
    /\ canon' = Append(canon, b)
    /\ heads' = Append(heads, Len(canon) + 1)
    /\ UNCHANGED <<reorgs, vault, loopVars, pendVars, reqVars, mintVars>>

(* A reorganisation drops every block from height h on, and announces the  *)
(* block that replaces the first of them.                                  *)
Reorg(h, b) ==
    /\ reorgs > 0 /\ h \in 1..Len(canon) /\ Len(heads) < MaxHeads
    /\ \A i \in 1..Len(b), k \in 1..(h-1) :
            \A m \in 1..Len(canon[k]) : canon[k][m] # b[i]
    /\ reorgs' = reorgs - 1
    /\ canon' = Append(SubSeq(canon, 1, h - 1), b)
    /\ heads' = Append(heads, h)
    /\ UNCHANGED <<vault, loopVars, pendVars, reqVars, mintVars>>

CreatePool(p) ==
    /\ \A i \in 1..Len(vault) : vault[i] # p
    /\ vault' = Append(vault, p)
    /\ UNCHANGED <<canon, heads, reorgs, loopVars, pendVars, reqVars, mintVars>>

TokenSent(t) ==
    \E tx \in PubTx : tx.kind = "erc20" /\ tx.hash = t /\ tx.status = 1 /\ Mined(tx)

(* The other nodes of the pool sign a mint without this one. *)
OthersSubmit(t) ==
    /\ TokenSent(t) /\ t \notin issued
    /\ submitted' = submitted \cup {t}
    /\ UNCHANGED <<chainVars, loopVars, pendVars, reqVars, issued>>

(* The joltify chain executes a mint, or drops it (a stale sequence). *)
Execute(t) ==
    /\ t \in submitted
    /\ submitted' = submitted \ {t}
    /\ issued' = issued \cup {t}
    /\ UNCHANGED <<chainVars, loopVars, pendVars, reqVars>>

Drop(t) ==
    /\ t \in submitted
    /\ submitted' = submitted \ {t}
    /\ UNCHANGED <<chainVars, loopVars, pendVars, reqVars, issued>>

-----------------------------------------------------------------------------
(* The event loop.  A send to a full channel never returns: the only       *)
(* receiver of InboundReqChan is the loop itself.                          *)

(* RetryInboundReq is a map keyed by a pointer to the hash, so that every   *)
(* Store adds an entry, also for a request that is there already.           *)
AddItem(t) == RetryInboundReq' = [RetryInboundReq EXCEPT ![t] = @ + 1]

SendInbound(t) ==
    IF Len(InboundReqChan) < ReqCacheSize
    THEN InboundReqChan' = Append(InboundReqChan, t) /\ UNCHANGED blocked
    ELSE blocked' = t /\ UNCHANGED InboundReqChan

Idle == pc = "idle" /\ blocked = None

(* case head := <-pubNewBlockChan: the block is fetched by its number, from *)
(* the chain as it is now.                                                  *)
TakeHead(txs) ==
    /\ Idle /\ heads # <<>>
    /\ pc' = "block"
    /\ number' = Head(heads)
    /\ heads' = Tail(heads)
    /\ todo' = txs
    /\ UNCHANGED <<canon, reorgs, vault, blocked, lastTwoPools>>
    /\ UNCHANGED <<pendVars, reqVars, mintVars>>

NewHead == Idle /\ heads # <<>> /\ Head(heads) <= Len(canon) /\ TakeHead(canon[Head(heads)])

(* The fetch fails: the block is never asked for again. *)
NewHeadFails == TakeHead(<<>>)

(* Fault: a fee that is short by one passes. *)
Verify_Short(fee) == fee + 1 >= FeeMin

Verify(fee) == fee >= FeeMin

(* Fault: the fee on hold is loaded and not deleted. *)
processInboundTx_KeepsFee(t) ==
    IF pendingInbounds[t] # None
    THEN UNCHANGED <<pendVars, reqVars, blocked>>
    ELSE LET bnb == pendingInboundsBnB[t]
             fee == IF bnb = None THEN 0 ELSE bnb.fee
         IN /\ IF bnb # None /\ Verify(fee)
               THEN SendInbound(t) /\ UNCHANGED pendingInbounds
               ELSE /\ pendingInbounds' = [pendingInbounds EXCEPT
                            ![t] = [height |-> number, fee |-> fee]]
                    /\ UNCHANGED <<InboundReqChan, blocked>>
            /\ UNCHANGED <<pendingInboundsBnB, RetryInboundReq, checking>>

(* A token transfer: refused while an earlier copy is pending, completed by *)
(* a fee that came first, parked otherwise.                                 *)
processInboundTx(t) ==
    IF pendingInbounds[t] # None
    THEN UNCHANGED <<pendVars, reqVars, blocked>>
    ELSE LET bnb == pendingInboundsBnB[t]
             fee == IF bnb = None THEN 0 ELSE bnb.fee
         IN /\ pendingInboundsBnB' = [pendingInboundsBnB EXCEPT ![t] = None]
            /\ IF bnb # None /\ Verify(fee)
               THEN SendInbound(t) /\ UNCHANGED pendingInbounds
               ELSE /\ pendingInbounds' = [pendingInbounds EXCEPT
                            ![t] = [height |-> number, fee |-> fee]]
                    /\ UNCHANGED <<InboundReqChan, blocked>>
            /\ UNCHANGED <<RetryInboundReq, checking>>

(* Fault: a transfer that is released stays pending. *)
updateInboundTx_KeepsTx(t, amount) ==
    /\ LET in == pendingInbounds[t]
       IN IF in = None
          THEN /\ pendingInboundsBnB' = [pendingInboundsBnB EXCEPT
                        ![t] = [height |-> number, fee |-> amount]]
               /\ UNCHANGED <<pendingInbounds, RetryInboundReq>>
          ELSE /\ pendingInbounds' = [pendingInbounds EXCEPT
                        ![t] = [height |-> in.height, fee |-> in.fee + amount]]
               /\ IF Verify(in.fee + amount) THEN AddItem(t) ELSE UNCHANGED RetryInboundReq
               /\ UNCHANGED pendingInboundsBnB
    /\ UNCHANGED <<InboundReqChan, checking, blocked>>

(* A fee: replaces the fee on hold when the token transfer is unknown, else *)
(* adds to the transfer's fee and releases it when there is enough.         *)
updateInboundTx(t, amount) ==
    /\ LET in == pendingInbounds[t]
       IN IF in = None
          THEN /\ pendingInboundsBnB' = [pendingInboundsBnB EXCEPT
                        ![t] = [height |-> number, fee |-> amount]]
               /\ UNCHANGED <<pendingInbounds, RetryInboundReq>>
          ELSE /\ IF Verify(in.fee + amount)
                  THEN /\ pendingInbounds' = [pendingInbounds EXCEPT ![t] = None]
                       /\ AddItem(t)
                  ELSE /\ pendingInbounds' = [pendingInbounds EXCEPT
                                ![t] = [height |-> in.height, fee |-> in.fee + amount]]
                       /\ UNCHANGED RetryInboundReq
               /\ UNCHANGED pendingInboundsBnB
    /\ UNCHANGED <<InboundReqChan, checking, blocked>>

(* The transactions that processEachBlock acts on. *)
IsTokenTransfer(tx) ==
    tx.kind = "erc20" /\ tx.status = 1 /\ checkToBridge(lastTwoPools, tx.to)
IsFeePayment(tx) ==
    tx.kind = "native" /\ tx.status = 1 /\ checkToBridge(lastTwoPools, tx.to)

(* One turn of the loop of processEachBlock. *)
NextTx ==
    /\ pc = "block" /\ blocked = None /\ todo # <<>>
    /\ todo' = Tail(todo)
    /\ UNCHANGED <<chainVars, pc, number, lastTwoPools, mintVars>>

TokenTransfer ==
    NextTx /\ IsTokenTransfer(Head(todo)) /\ processInboundTx(Head(todo).hash)

FeePayment ==
    /\ NextTx /\ IsFeePayment(Head(todo))
    /\ updateInboundTx(Head(todo).hash, Head(todo).value)

OtherTx ==
    /\ NextTx /\ ~IsTokenTransfer(Head(todo)) /\ ~IsFeePayment(Head(todo))
    /\ UNCHANGED <<pendVars, reqVars, blocked>>

(* The receipt query fails: the transaction is passed over for good. *)
ReceiptFails == NextTx /\ UNCHANGED <<pendVars, reqVars, blocked>>

ProcessTx == TokenTransfer \/ FeePayment \/ OtherTx \/ ReceiptFails

(* Fault: an entry expires one block early. *)
Expired_Early(e) == e # None /\ (number - e.height) % Word >= TxTimeout

(* currentHeight - height > TxTimeout, in unsigned arithmetic. *)
Expired(e) == e # None /\ (number - e.height) % Word > TxTimeout

DeleteExpired(pending) ==
    [t \in TxId |-> IF Expired(pending[t]) THEN None ELSE pending[t]]

(* The block is done; the rest of the case serves the outbound direction. *)
FinishBlock ==
    /\ pc = "block" /\ blocked = None /\ todo = <<>>
    /\ pc' = "idle" /\ number' = 0
    /\ pendingInbounds' = DeleteExpired(pendingInbounds)
    /\ pendingInboundsBnB' = DeleteExpired(pendingInboundsBnB)
    /\ UNCHANGED <<chainVars, todo, blocked, lastTwoPools>>
    /\ UNCHANGED <<reqVars, mintVars>>

(* Fault: an empty bag is popped. *)
PopItem_Unguarded(t) ==
    /\ \A u \in TxId : RetryInboundReq[u] > 0 => u <= t
    /\ RetryInboundReq' = [RetryInboundReq EXCEPT ![t] = @ - 1]

(* PopItem takes the request with the greatest hash. *)
PopItem(t) ==
    /\ RetryInboundReq[t] > 0
    /\ \A u \in TxId : RetryInboundReq[u] > 0 => u <= t
    /\ RetryInboundReq' = [RetryInboundReq EXCEPT ![t] = @ - 1]

(* A joltify block brings every waiting goroutine closer to its timeout. *)
Age(jobs) ==
    [j \in Job |->
        (IF j.left < CheckBlocks THEN jobs[[j EXCEPT !.left = @ + 1]] ELSE 0)
      + (IF j.left = 0 THEN jobs[j] ELSE 0)]

(* case block := <-newBlockChan, once the vault has two pools: one request  *)
(* goes from the retry bag to the channel, then the pools are refreshed.    *)
NewJoltifyBlock ==
    /\ Idle
    /\ checking' = Age(checking)
    /\ Len(QueryLastPoolAddress(vault)) = 2
    /\ \/ /\ \E t \in TxId : PopItem(t) /\ SendInbound(t)
       \/ /\ \A t \in TxId : RetryInboundReq[t] = 0
          /\ UNCHANGED <<RetryInboundReq, InboundReqChan, blocked>>
    /\ lastTwoPools' = IF blocked' = None
                       THEN NextCache(lastTwoPools, QueryLastPoolAddress(vault))
                       ELSE lastTwoPools
    /\ UNCHANGED <<chainVars, pc, number, todo, pendVars, mintVars>>

(* The same case when the query fails or answers fewer than two pools. *)
NewJoltifyBlockNoPools ==
    /\ Idle
    /\ checking' = Age(checking)
    /\ UNCHANGED <<chainVars, loopVars, pendVars, mintVars>>
    /\ UNCHANGED <<InboundReqChan, RetryInboundReq>>

StartCheck(t, index) ==
    LET j == [id |-> t, index |-> index, left |-> CheckBlocks]
    IN  checking' = [checking EXCEPT ![j] = @ + 1]

(* case item := <-pi.InboundReqChan *)
ReceiveInbound(t) ==
    /\ Idle /\ InboundReqChan # <<>> /\ t = Head(InboundReqChan)
    /\ InboundReqChan' = Tail(InboundReqChan)
    /\ UNCHANGED <<chainVars, loopVars, pendVars, issued>>

CheckWhetherSigner == lastTwoPools[2] \in SignerPool

(* A node that is not in the newest pool leaves the request to the others. *)
NotSigner(t) ==
    /\ ReceiveInbound(t) /\ ~CheckWhetherSigner
    /\ UNCHANGED <<RetryInboundReq, checking, submitted>>

(* Fault: a request whose mint failed is not put back. *)
MintFails_Forgets(t) ==
    /\ ReceiveInbound(t) /\ CheckWhetherSigner
    /\ submitted' \in {submitted, submitted \cup {t}}
    /\ UNCHANGED <<RetryInboundReq, checking>>

(* ProcessInBound fails: a query, the signing or the broadcast; the mint    *)
(* may have reached the mempool all the same.                               *)
MintFails(t) ==
    /\ ReceiveInbound(t) /\ CheckWhetherSigner
    /\ submitted' \in {submitted, submitted \cup {t}}
    /\ AddItem(t)
    /\ UNCHANGED checking

(* ProcessInBound finds the record and returns no index to look for. *)
AlreadySubmitted(t) ==
    /\ ReceiveInbound(t) /\ CheckWhetherSigner
    /\ t \in issued
    /\ StartCheck(t, "empty")
    /\ UNCHANGED <<RetryInboundReq, submitted>>

(* ProcessInBound succeeds: no record, or the query for it failed. *)
MintSubmitted(t) ==
    /\ ReceiveInbound(t) /\ CheckWhetherSigner
    /\ submitted' = submitted \cup {t}
    /\ StartCheck(t, "own")
    /\ UNCHANGED RetryInboundReq

-----------------------------------------------------------------------------
(* The goroutines: the record shows up, or a minute passes without it; a    *)
(* failing query counts as a missing record, the empty index never exists.  *)

CheckSucceeds(j) ==
    /\ checking[j] > 0 /\ j.index = "own" /\ j.id \in issued
    /\ checking' = [checking EXCEPT ![j] = @ - 1]
    /\ UNCHANGED <<chainVars, loopVars, pendVars, mintVars>>
    /\ UNCHANGED <<InboundReqChan, RetryInboundReq>>

(* Fault: a check that gives up does not put its request back. *)
CheckTimesOut_Forgets(j) ==
    /\ checking[j] > 0 /\ j.left = 0
    /\ checking' = [checking EXCEPT ![j] = @ - 1]
    /\ UNCHANGED <<chainVars, loopVars, pendVars, mintVars>>
    /\ UNCHANGED <<InboundReqChan, RetryInboundReq>>

CheckTimesOut(j) ==
    /\ checking[j] > 0 /\ j.left = 0
    /\ checking' = [checking EXCEPT ![j] = @ - 1]
    /\ AddItem(j.id)
    /\ UNCHANGED <<chainVars, loopVars, pendVars, mintVars, InboundReqChan>>

-----------------------------------------------------------------------------
HandleInbound(t) ==
    NotSigner(t) \/ MintFails(t) \/ AlreadySubmitted(t) \/ MintSubmitted(t)

Loop ==
    \/ NewHead \/ NewHeadFails \/ ProcessTx \/ FinishBlock
    \/ NewJoltifyBlock \/ NewJoltifyBlockNoPools
    \/ \E t \in TxId : HandleInbound(t)

Goroutine == \E j \in Job : CheckSucceeds(j) \/ CheckTimesOut(j)

Environment ==
    \/ \E b \in Block : Mine(b) \/ \E h \in 1..MaxHeight : Reorg(h, b)
    \/ \E p \in Pool : CreatePool(p)
    \/ \E t \in TxId : OthersSubmit(t) \/ Execute(t) \/ Drop(t)

Next == Loop \/ Goroutine \/ Environment

Spec == Init /\ [][Next]_vars

(* Go's select picks at random among the ready cases, so each one that is   *)
(* ready again and again is taken again and again; the joltify chain keeps  *)
(* producing blocks.  Signing and execution are assumed to succeed for a    *)
(* request that is tried again and again.                                   *)
Fairness ==
    /\ SF_vars(NewHead \/ NewHeadFails) /\ WF_vars(ProcessTx) /\ WF_vars(FinishBlock)
    /\ SF_vars(NewJoltifyBlock)
    /\ \A t \in TxId : /\ SF_vars(HandleInbound(t))
                        /\ SF_vars(MintSubmitted(t))
                        /\ SF_vars(Execute(t))
    /\ \A j \in Job : WF_vars(CheckSucceeds(j)) /\ WF_vars(CheckTimesOut(j))

FairSpec == Spec /\ Fairness

-----------------------------------------------------------------------------
(* A request the node has taken on: in the channel, in the send that fills  *)
(* it, in the retry bag, or with a goroutine that waits for its record.     *)
Accepted(t) ==
    \/ \E i \in 1..Len(InboundReqChan) : InboundReqChan[i] = t
    \/ blocked = t
    \/ RetryInboundReq[t] > 0
    \/ \E j \in Job : j.id = t /\ checking[j] > 0

(* Every variable keeps its type: the maps hold entries or nothing, the     *)
(* bags count, and the loop works on transactions only inside a block.      *)
TypeOK ==
    /\ canon \in Seq(Block) /\ heads \in Seq(Nat \ {0}) /\ reorgs \in Nat
    /\ vault \in Seq(Pool)
    /\ pc \in {"idle", "block"} /\ number \in Nat /\ todo \in Seq(PubTx)
    /\ blocked \in TxId \cup {None}
    /\ lastTwoPools \in Cache
    /\ pendingInbounds \in [TxId -> Entry \cup {None}]
    /\ pendingInboundsBnB \in [TxId -> Entry \cup {None}]
    /\ InboundReqChan \in Seq(TxId)
    /\ RetryInboundReq \in [TxId -> Nat]
    /\ checking \in [Job -> Nat]
    /\ submitted \subseteq TxId /\ issued \subseteq TxId

(* A fee and the token transfer it pays for never wait for each other:      *)
(* whichever of updateInboundTx and processInboundTx comes second joins     *)
(* them, whatever the order of blocks, replays and expiries.                *)
NeverBothPending ==
    \A t \in TxId : ~(pendingInbounds[t] # None /\ pendingInboundsBnB[t] # None)

(* No request reaches the InboundReqChan case, which dereferences the newest *)
(* pool before anything else, nor ProcessInBound, which needs both, while    *)
(* a slot of the pool cache is still nil.                                    *)
PoolsKnown ==
    (\E t \in TxId : Accepted(t)) => lastTwoPools[1] # None /\ lastTwoPools[2] # None

NoReorgYet == reorgs = MaxReorg

(* A payment of the fee of a deposit: a native transfer that names it.      *)
IsFeeOf(t, tx) == tx.kind = "native" /\ tx.hash = t /\ tx.status = 1
TotalValue(txs) == MapThenSumSet(LAMBDA tx : tx.value, txs)
FeesMined(t) == TotalValue({tx \in PubTx : IsFeeOf(t, tx) /\ Mined(tx)})

(* As long as the public chain has not reorganised, a request stands for a  *)
(* token transfer of the chain whose payments on the chain reach the        *)
(* minimal fee: no payment is counted twice, whatever the order of the      *)
(* transactions.                                                            *)
OnlyPaidDeposits ==
    NoReorgYet => \A t \in TxId : Accepted(t) => TokenSent(t) /\ FeesMined(t) >= FeeMin

(* The stages of a deposit: waiting for its fee, in InboundReqChan, in the  *)
(* send that fills it, in the retry bag, with a goroutine.                  *)
Stage == {"pending", "queued", "sending", "retry", "checked"}
InStage(t, s) ==
    \/ s = "pending" /\ pendingInbounds[t] # None
    \/ s = "queued"  /\ \E i \in 1..Len(InboundReqChan) : InboundReqChan[i] = t
    \/ s = "sending" /\ blocked = t
    \/ s = "retry"   /\ RetryInboundReq[t] > 0
    \/ s = "checked" /\ \E j \in Job : j.id = t /\ checking[j] > 0

(* It is in one stage at most, and there once. *)
Single(t) ==
    /\ \A r, s \in Stage : InStage(t, r) /\ InStage(t, s) => r = s
    /\ \A i, k \in 1..Len(InboundReqChan) :
            InboundReqChan[i] = t /\ InboundReqChan[k] = t => i = k
    /\ RetryInboundReq[t] <= 1
    /\ \A j, k \in Job :
            /\ j.id = t /\ checking[j] > 0
            /\ k.id = t /\ checking[k] > 0
            => j = k /\ checking[j] = 1

(* As long as the public chain has not reorganised, a deposit is in one     *)
(* place at a time, pending, queued, waiting for a retry or being checked,  *)
(* so that no two requests of this node race to mint it.                    *)
SingleCopy == NoReorgYet => \A t \in TxId : Single(t)

(* The node lets go of a request only when the joltify chain has its record *)
(* or the node is no signer of the newest pool: no failure of a query, of   *)
(* the signing, of the broadcast or of the check loses it.                  *)
LetsGo(t) == Accepted(t) /\ ~Accepted(t)'
NeverLost ==
    [][\A t \in TxId : LetsGo(t) => t \in issued \/ ~CheckWhetherSigner]_vars

(* A token transfer leaves the pending map only as a request, or when it is *)
(* older than the timeout, as long as heads come with growing numbers.      *)
GivenUp(t) == pendingInbounds[t] # None /\ pendingInbounds'[t] = None /\ ~Accepted(t)'
PendingKept ==
    [][\A t \in TxId : GivenUp(t) /\ number >= pendingInbounds[t].height =>
          number - pendingInbounds[t].height > TxTimeout]_vars

IssuedInTheEnd(t) == Accepted(t) ~> (t \in issued \/ ~CheckWhetherSigner)

(* The request with the greatest hash, which PopItem prefers, is minted in  *)
(* the end as long as the node stays a signer of the newest pool: no failing *)
(* query, signing, broadcast or check stops it for good.                    *)
GreatestEventuallyIssued ==
    \A t \in TxId : (\A u \in TxId : u <= t) => IssuedInTheEnd(t)

(* "For each new joltify block we process one failure": the request with    *)
(* the least hash is minted in the end as well.                             *)
LeastEventuallyIssued ==
    \A t \in TxId : (\A u \in TxId : t <= u) => IssuedInTheEnd(t)
=============================================================================

--------------------------- MODULE InboundProofs ---------------------------
(***************************************************************************)
(* Proofs about the inbound path, for every set of deposits, every queue   *)
(* capacity and every timeout: type correctness, the exclusion of the two  *)
(* pending maps, the readiness of the pool cache for every request, that   *)
(* no accepted request is lost, and that no pending one is dropped early.  *)
(***************************************************************************)
EXTENDS Inbound, TLAPS

(* Adding to a bag and taking from it. *)
LEMMA BagAdd ==
    ASSUME NEW S, NEW f \in [S -> Nat], NEW x \in S
    PROVE  [f EXCEPT ![x] = @ + 1] \in [S -> Nat]
OBVIOUS

LEMMA BagRemove ==
    ASSUME NEW S, NEW f \in [S -> Nat], NEW x \in S, f[x] > 0
    PROVE  [f EXCEPT ![x] = @ - 1] \in [S -> Nat]
OBVIOUS

LEMMA AddItemType ==
    ASSUME RetryInboundReq \in [TxId -> Nat], NEW t \in TxId,
           AddItem(t) \/ UNCHANGED RetryInboundReq
    PROVE  RetryInboundReq' \in [TxId -> Nat]
BY BagAdd DEF AddItem

LEMMA SendInboundType ==
    ASSUME InboundReqChan \in Seq(TxId), blocked \in TxId \cup {None}, NEW t \in TxId,
           SendInbound(t) \/ UNCHANGED <<InboundReqChan, blocked>>
    PROVE  InboundReqChan' \in Seq(TxId) /\ blocked' \in TxId \cup {None}
BY DEF SendInbound

LEMMA StartCheckType ==
    ASSUME checking \in [Job -> Nat], NEW t \in TxId,
           \/ StartCheck(t, "own") \/ StartCheck(t, "empty") \/ UNCHANGED checking
    PROVE  checking' \in [Job -> Nat]
<1>1. ASSUME NEW i \in {"own", "empty"}
      PROVE  [id |-> t, index |-> i, left |-> CheckBlocks] \in Job
  BY BoundAssumption DEF Job
<1> QED BY <1>1, BagAdd DEF StartCheck

(* The answer of the vault, when it has two pools, consists of pools. *)
LEMMA QueryType ==
    ASSUME NEW v \in Seq(Pool), Len(QueryLastPoolAddress(v)) = 2
    PROVE  /\ QueryLastPoolAddress(v)[1] \in Pool
           /\ QueryLastPoolAddress(v)[2] \in Pool
BY DEF QueryLastPoolAddress

(* Refreshing the cache from such an answer leaves no slot empty. *)
LEMMA NextCacheFull ==
    ASSUME NEW c \in Cache, NEW q, q[1] \in Pool, q[2] \in Pool,
           c[1] # None => c[2] # None
    PROVE  /\ NextCache(c, q) \in Pool \X Pool
           /\ NextCache(c, q)[1] # None
           /\ NextCache(c, q)[2] # None
BY NoneNotPool DEF NextCache, FillPools, UpdatePool, NeedUpdate, Cache, Slot

(* A job of the check with its clock set back is a job. *)
LEMMA AgeType ==
    ASSUME NEW c \in [Job -> Nat]
    PROVE  Age(c) \in [Job -> Nat]
<1>1. ASSUME NEW j \in Job, j.left < CheckBlocks
      PROVE  c[[j EXCEPT !.left = @ + 1]] \in Nat
  <2>1. [j EXCEPT !.left = @ + 1] \in Job
    BY <1>1, BoundAssumption DEF Job
  <2> QED BY <2>1
<1>2. ASSUME NEW j \in Job PROVE c[j] \in Nat
  OBVIOUS
<1> QED BY <1>1, <1>2 DEF Age

LEMMA BlockType ==
    ASSUME canon \in Seq(Block), NEW h \in 1..Len(canon)
    PROVE  canon[h] \in Seq(PubTx)
BY BlockAssumption

-----------------------------------------------------------------------------
(* Every variable keeps its type. *)
THEOREM InboundType == Spec => []TypeOK
<1>1. Init => TypeOK
  BY BoundAssumption DEF Init, TypeOK, EmptyCache, Cache, Slot
<1>2. TypeOK /\ [Next]_vars => TypeOK'
  <2> SUFFICES ASSUME TypeOK, [Next]_vars PROVE TypeOK'
      OBVIOUS
  <2> USE DEF TypeOK, chainVars, loopVars, pendVars, reqVars, mintVars
  <2>1. CASE NewHead
    BY <2>1, BlockType DEF NewHead, TakeHead
  <2>2. CASE NewHeadFails
    BY <2>2 DEF NewHeadFails, TakeHead
  <2>3. CASE TokenTransfer
    <3> DEFINE t == Head(todo).hash
    <3>1. t \in TxId /\ todo' \in Seq(PubTx)
      BY <2>3, PubTxAssumption DEF TokenTransfer, NextTx
    <3>2. /\ pendingInboundsBnB' \in [TxId -> Entry \cup {None}]
          /\ pendingInbounds' \in [TxId -> Entry \cup {None}]
      <4> DEFINE fee == IF pendingInboundsBnB[t] = None THEN 0 ELSE pendingInboundsBnB[t].fee
      <4>1. [height |-> number, fee |-> fee] \in Entry
        BY <3>1 DEF Entry
      <4>2. \/ pendingInbounds' = pendingInbounds
            \/ pendingInbounds' = [pendingInbounds EXCEPT ![t] = [height |-> number, fee |-> fee]]
        BY <2>3 DEF TokenTransfer, processInboundTx
      <4>3. \/ pendingInboundsBnB' = pendingInboundsBnB
            \/ pendingInboundsBnB' = [pendingInboundsBnB EXCEPT ![t] = None]
        BY <2>3 DEF TokenTransfer, processInboundTx
      <4> HIDE DEF fee
      <4> QED BY <3>1, <4>1, <4>2, <4>3
    <3>3. InboundReqChan' \in Seq(TxId) /\ blocked' \in TxId \cup {None}
      <4>1. SendInbound(t) \/ UNCHANGED <<InboundReqChan, blocked>>
        BY <2>3 DEF TokenTransfer, processInboundTx
      <4> QED BY <3>1, <4>1, SendInboundType
    <3>4. UNCHANGED <<RetryInboundReq, checking>>
      BY <2>3 DEF TokenTransfer, processInboundTx
    <3> QED BY <2>3, <3>1, <3>2, <3>3, <3>4 DEF TokenTransfer, NextTx
  <2>4. CASE FeePayment
    <3> DEFINE t == Head(todo).hash
    <3>1. t \in TxId /\ Head(todo).value \in Nat /\ todo' \in Seq(PubTx)
      BY <2>4, PubTxAssumption DEF FeePayment, NextTx
    <3>2. /\ pendingInboundsBnB' \in [TxId -> Entry \cup {None}]
          /\ pendingInbounds' \in [TxId -> Entry \cup {None}]
      <4>1. CASE pendingInbounds[t] = None
        <5>1. [height |-> number, fee |-> Head(todo).value] \in Entry
          BY <3>1 DEF Entry
        <5> QED BY <2>4, <3>1, <4>1, <5>1 DEF FeePayment, updateInboundTx
      <4>2. CASE pendingInbounds[t] # None
        <5>1. pendingInbounds[t] \in Entry
          BY <3>1, <4>2
        <5>2. [height |-> pendingInbounds[t].height,
               fee |-> pendingInbounds[t].fee + Head(todo).value] \in Entry
          BY <3>1, <5>1 DEF Entry
        <5> QED BY <2>4, <3>1, <4>2, <5>2 DEF FeePayment, updateInboundTx
      <4> QED BY <4>1, <4>2
    <3>3. RetryInboundReq' \in [TxId -> Nat]
      <4>1. AddItem(t) \/ UNCHANGED RetryInboundReq
        BY <2>4 DEF FeePayment, updateInboundTx
      <4> QED BY <3>1, <4>1, AddItemType
    <3>4. UNCHANGED <<InboundReqChan, checking, blocked>>
      BY <2>4 DEF FeePayment, updateInboundTx
    <3> QED BY <2>4, <3>1, <3>2, <3>3, <3>4 DEF FeePayment, NextTx
  <2>5. CASE OtherTx \/ ReceiptFails
    <3>1. NextTx /\ UNCHANGED <<pendVars, reqVars, blocked>>
      BY <2>5 DEF OtherTx, ReceiptFails
    <3> QED BY <3>1 DEF NextTx
  <2>6. CASE FinishBlock
    BY <2>6 DEF FinishBlock, DeleteExpired
  <2>7. CASE NewJoltifyBlock
    <3>1. checking' \in [Job -> Nat]
      BY <2>7, AgeType DEF NewJoltifyBlock
    <3>2. /\ RetryInboundReq' \in [TxId -> Nat]
          /\ InboundReqChan' \in Seq(TxId)
          /\ blocked' \in TxId \cup {None}
      <4>1. CASE \E t \in TxId : PopItem(t) /\ SendInbound(t)
        <5> PICK t \in TxId : PopItem(t) /\ SendInbound(t)
            BY <4>1
        <5>1. RetryInboundReq' \in [TxId -> Nat]
          BY BagRemove DEF PopItem
        <5>2. InboundReqChan' \in Seq(TxId) /\ blocked' \in TxId \cup {None}
          BY SendInboundType
        <5> QED BY <5>1, <5>2
      <4> QED BY <2>7, <4>1 DEF NewJoltifyBlock
    <3>3. lastTwoPools' \in Cache
      <4>1. NextCache(lastTwoPools, QueryLastPoolAddress(vault)) \in Cache
        BY <2>7, QueryType
           DEF NewJoltifyBlock, NextCache, FillPools, UpdatePool, Cache, Slot
      <4> QED BY <2>7, <4>1 DEF NewJoltifyBlock
    <3> QED BY <2>7, <3>1, <3>2, <3>3 DEF NewJoltifyBlock
  <2>8. CASE NewJoltifyBlockNoPools
    BY <2>8, AgeType DEF NewJoltifyBlockNoPools
  <2>9. ASSUME NEW t \in TxId, HandleInbound(t)
        PROVE  TypeOK'
    <3>1. checking' \in [Job -> Nat]
      <4>1. StartCheck(t, "own") \/ StartCheck(t, "empty") \/ UNCHANGED checking
        BY <2>9 DEF HandleInbound, NotSigner, MintFails, AlreadySubmitted, MintSubmitted
      <4> QED BY <4>1, StartCheckType
    <3>2. RetryInboundReq' \in [TxId -> Nat] /\ submitted' \subseteq TxId
      <4>1. AddItem(t) \/ UNCHANGED RetryInboundReq
        BY <2>9 DEF HandleInbound, NotSigner, MintFails, AlreadySubmitted, MintSubmitted
      <4>2. submitted' = submitted \/ submitted' = submitted \cup {t}
        BY <2>9 DEF HandleInbound, NotSigner, MintFails, AlreadySubmitted, MintSubmitted
      <4> QED BY <4>1, <4>2, AddItemType
    <3>3. ReceiveInbound(t)
      BY <2>9 DEF HandleInbound, NotSigner, MintFails, AlreadySubmitted, MintSubmitted
    <3> QED BY <3>1, <3>2, <3>3 DEF ReceiveInbound
  <2>10. ASSUME NEW j \in Job, CheckSucceeds(j) \/ CheckTimesOut(j)
         PROVE  TypeOK'
    <3>1. checking' \in [Job -> Nat]
      <4>1. checking[j] > 0 /\ checking' = [checking EXCEPT ![j] = @ - 1]
        BY <2>10 DEF CheckSucceeds, CheckTimesOut
      <4> QED BY <4>1, BagRemove
    <3>2. RetryInboundReq' \in [TxId -> Nat]
      <4>1. j.id \in TxId
        BY DEF Job
      <4>2. AddItem(j.id) \/ UNCHANGED RetryInboundReq
        BY <2>10 DEF CheckSucceeds, CheckTimesOut
      <4> QED BY <4>1, <4>2, AddItemType
    <3> QED BY <2>10, <3>1, <3>2 DEF CheckSucceeds, CheckTimesOut
  <2>11. ASSUME NEW b \in Block, Mine(b) PROVE TypeOK'
    BY <2>11 DEF Mine
  <2>12. ASSUME NEW b \in Block, NEW h \in 1..MaxHeight, Reorg(h, b) PROVE TypeOK'
    BY <2>12 DEF Reorg
  <2>13. ASSUME NEW p \in Pool, CreatePool(p) PROVE TypeOK'
    BY <2>13 DEF CreatePool
  <2>14. ASSUME NEW t \in TxId, OthersSubmit(t) \/ Execute(t) \/ Drop(t) PROVE TypeOK'
    BY <2>14 DEF OthersSubmit, Execute, Drop
  <2>15. CASE UNCHANGED vars
    BY <2>15 DEF vars
  <2> QED
    BY <2>1, <2>2, <2>3, <2>4, <2>5, <2>6, <2>7, <2>8, <2>9, <2>10, <2>11, <2>12,
       <2>13, <2>14, <2>15 DEF Next, Loop, ProcessTx, Goroutine, Environment
<1> QED BY <1>1, <1>2, PTL DEF Spec

-----------------------------------------------------------------------------
(* The two pending maps exclude each other: processInboundTx always takes   *)
(* the fee out of its map, updateInboundTx stores a fee only when the       *)
(* transfer is not pending.                                                 *)
THEOREM InboundPendingExclusive == Spec => []NeverBothPending
<1>1. Init => NeverBothPending
  BY DEF Init, NeverBothPending
<1>2. TypeOK /\ NeverBothPending /\ [Next]_vars => NeverBothPending'
  <2> SUFFICES ASSUME TypeOK, NeverBothPending, [Next]_vars, NEW u \in TxId
               PROVE  pendingInbounds'[u] = None \/ pendingInboundsBnB'[u] = None
      BY DEF NeverBothPending
  <2>0. pendingInbounds[u] = None \/ pendingInboundsBnB[u] = None
    BY DEF NeverBothPending
  <2>1. CASE TokenTransfer
    <3> DEFINE t == Head(todo).hash
    <3>1. t \in TxId
      BY <2>1, PubTxAssumption DEF TypeOK, TokenTransfer, NextTx
    <3>2. CASE pendingInbounds[t] # None
      BY <2>0, <2>1, <3>2 DEF TokenTransfer, processInboundTx, pendVars
    <3>3. CASE pendingInbounds[t] = None
      <4>1. pendingInboundsBnB' = [pendingInboundsBnB EXCEPT ![t] = None]
        BY <2>1, <3>3 DEF TokenTransfer, processInboundTx
      <4>2. u # t => pendingInbounds'[u] = pendingInbounds[u]
        BY <2>1, <3>3, <3>1 DEF TokenTransfer, processInboundTx, TypeOK
      <4> QED BY <2>0, <3>1, <4>1, <4>2 DEF TypeOK
    <3> QED BY <3>2, <3>3
  <2>2. CASE FeePayment
    <3> DEFINE t == Head(todo).hash
    <3>1. t \in TxId
      BY <2>2, PubTxAssumption DEF TypeOK, FeePayment, NextTx
    <3>2. CASE pendingInbounds[t] = None
      <4>1. pendingInbounds' = pendingInbounds
        BY <2>2, <3>2 DEF FeePayment, updateInboundTx
      <4>2. u # t => pendingInboundsBnB'[u] = pendingInboundsBnB[u]
        BY <2>2, <3>1, <3>2 DEF FeePayment, updateInboundTx, TypeOK
      <4> QED BY <2>0, <3>2, <4>1, <4>2
    <3>3. CASE pendingInbounds[t] # None
      <4>1. pendingInboundsBnB' = pendingInboundsBnB
        BY <2>2, <3>3 DEF FeePayment, updateInboundTx
      <4>2. u # t => pendingInbounds'[u] = pendingInbounds[u]
        BY <2>2, <3>1, <3>3 DEF FeePayment, updateInboundTx, TypeOK
      <4>3. pendingInboundsBnB[t] = None
        BY <3>1, <3>3 DEF NeverBothPending
      <4> QED BY <2>0, <4>1, <4>2, <4>3
    <3> QED BY <3>2, <3>3
  <2>3. CASE FinishBlock
    BY <2>0, <2>3 DEF FinishBlock, DeleteExpired
  <2>4. CASE UNCHANGED pendVars
    BY <2>0, <2>4 DEF pendVars
  <2>5. \/ TokenTransfer \/ FeePayment \/ FinishBlock \/ UNCHANGED pendVars
    BY DEF Next, Loop, ProcessTx, Goroutine, Environment, vars, NewHead, NewHeadFails,
           TakeHead, OtherTx, ReceiptFails, NewJoltifyBlock, NewJoltifyBlockNoPools,
           HandleInbound, NotSigner, MintFails, AlreadySubmitted, MintSubmitted,
           ReceiveInbound, CheckSucceeds, CheckTimesOut, Mine, Reorg, CreatePool,
           OthersSubmit, Execute, Drop
  <2> QED BY <2>1, <2>2, <2>3, <2>4, <2>5
<1> QED BY <1>1, <1>2, InboundType, PTL DEF Spec

-----------------------------------------------------------------------------
(* The invariant behind PoolsKnown: the cache is filled in one turn of the  *)
(* loop, and before that turn there is nothing to be minted anywhere.       *)
QuietUntilFilled ==
    \/ lastTwoPools[1] # None /\ lastTwoPools[2] # None
    \/ /\ lastTwoPools = EmptyCache
       /\ InboundReqChan = <<>> /\ blocked = None
       /\ \A t \in TxId : RetryInboundReq[t] = 0
       /\ \A j \in Job : checking[j] = 0

LEMMA AgeQuiet ==
    ASSUME checking \in [Job -> Nat], \A j \in Job : checking[j] = 0
    PROVE  \A j \in Job : Age(checking)[j] = 0
<1>1. ASSUME NEW j \in Job, j.left < CheckBlocks
      PROVE  checking[[j EXCEPT !.left = @ + 1]] = 0
  <2>1. [j EXCEPT !.left = @ + 1] \in Job
    BY <1>1, BoundAssumption DEF Job
  <2> QED BY <2>1
<1>2. ASSUME NEW j \in Job PROVE Age(checking)[j] = 0
  <2>1. CASE j.left < CheckBlocks
    BY <1>1, <2>1 DEF Age
  <2>2. CASE ~(j.left < CheckBlocks)
    BY <2>2 DEF Age
  <2> QED BY <2>1, <2>2
<1> QED BY <1>2

LEMMA QuietStep ==
    ASSUME TypeOK, QuietUntilFilled, [Next]_vars
    PROVE  QuietUntilFilled'
<1>1. CASE lastTwoPools[1] # None /\ lastTwoPools[2] # None
  <2>1. CASE UNCHANGED lastTwoPools
    BY <1>1, <2>1 DEF QuietUntilFilled
  <2>2. CASE NewJoltifyBlock
    BY <1>1, <2>2, QueryType, NextCacheFull DEF NewJoltifyBlock, QuietUntilFilled, TypeOK
  <2>3. NewJoltifyBlock \/ UNCHANGED lastTwoPools
    BY DEF Next, Loop, ProcessTx, Goroutine, Environment, vars, loopVars, NewHead,
           NewHeadFails, TakeHead, TokenTransfer, FeePayment, NextTx, FinishBlock,
           OtherTx, ReceiptFails, NewJoltifyBlockNoPools,
           HandleInbound, NotSigner, MintFails, AlreadySubmitted, MintSubmitted,
           ReceiveInbound, CheckSucceeds, CheckTimesOut, Mine, Reorg, CreatePool,
           OthersSubmit, Execute, Drop
  <2> QED BY <2>1, <2>2, <2>3
<1>2. CASE ~(lastTwoPools[1] # None /\ lastTwoPools[2] # None)
  <2> DEFINE Quiet == /\ lastTwoPools = EmptyCache
                      /\ InboundReqChan = <<>> /\ blocked = None
                      /\ \A t \in TxId : RetryInboundReq[t] = 0
                      /\ \A j \in Job : checking[j] = 0
  <2>0. Quiet
    BY <1>2 DEF QuietUntilFilled
  <2>1. CASE NewJoltifyBlock
    <3>1. blocked' = None
      BY <2>0, <2>1 DEF NewJoltifyBlock, PopItem
    <3>2. lastTwoPools' = NextCache(lastTwoPools, QueryLastPoolAddress(vault))
      BY <2>1, <3>1 DEF NewJoltifyBlock
    <3>3. Len(QueryLastPoolAddress(vault)) = 2
      BY <2>1 DEF NewJoltifyBlock
    <3> QED BY <2>0, <3>2, <3>3, QueryType, NextCacheFull
            DEF QuietUntilFilled, TypeOK, EmptyCache
  <2>2. CASE NewJoltifyBlockNoPools
    <3>1. \A j \in Job : checking'[j] = 0
      BY <2>0, <2>2, AgeQuiet DEF NewJoltifyBlockNoPools, TypeOK
    <3> QED BY <2>0, <2>2, <3>1 DEF NewJoltifyBlockNoPools, loopVars, QuietUntilFilled
  <2>3. ~TokenTransfer /\ ~FeePayment
    BY <2>0 DEF TokenTransfer, FeePayment, IsTokenTransfer, IsFeePayment,
                checkToBridge, EmptyCache
  <2>4. ~\E t \in TxId : HandleInbound(t)
    BY <2>0 DEF HandleInbound, NotSigner, MintFails, AlreadySubmitted, MintSubmitted,
                ReceiveInbound
  <2>5. ~Goroutine
    BY <2>0 DEF Goroutine, CheckSucceeds, CheckTimesOut
  <2>6. CASE UNCHANGED <<lastTwoPools, reqVars, blocked>>
    BY <2>0, <2>6 DEF QuietUntilFilled, reqVars
  <2>7. \/ NewJoltifyBlock \/ NewJoltifyBlockNoPools
        \/ UNCHANGED <<lastTwoPools, reqVars, blocked>>
    BY <2>3, <2>4, <2>5
       DEF Next, Loop, ProcessTx, Environment, vars, loopVars, NewHead, NewHeadFails,
           TakeHead, NextTx, FinishBlock, OtherTx, ReceiptFails, Mine, Reorg, CreatePool,
           OthersSubmit, Execute, Drop
  <2> QED BY <2>1, <2>2, <2>6, <2>7
<1> QED BY <1>1, <1>2

(* No request meets a nil pool. *)
THEOREM InboundPoolsKnown == Spec => []PoolsKnown
<1>1. Init => QuietUntilFilled
  BY DEF Init, QuietUntilFilled
<1>2. TypeOK /\ QuietUntilFilled => PoolsKnown
  BY NoneNotTxId DEF TypeOK, QuietUntilFilled, PoolsKnown, Accepted
<1> QED BY <1>1, <1>2, QuietStep, InboundType, PTL DEF Spec

-----------------------------------------------------------------------------
(* Where an accepted request can be, and what keeps it there. *)

LEMMA SendKeeps ==
    ASSUME TypeOK, NEW u \in TxId, SendInbound(u), blocked = None
    PROVE  /\ \/ InboundReqChan'[Len(InboundReqChan')] = u /\ Len(InboundReqChan') > 0
              \/ blocked' = u
           /\ \A i \in 1..Len(InboundReqChan) :
                 i \in 1..Len(InboundReqChan') /\ InboundReqChan'[i] = InboundReqChan[i]
<1>0. InboundReqChan \in Seq(TxId)
  BY DEF TypeOK
<1>1. CASE InboundReqChan' = Append(InboundReqChan, u)
  BY <1>0, <1>1
<1>2. CASE blocked' = u /\ UNCHANGED InboundReqChan
  BY <1>2
<1> QED BY <1>1, <1>2 DEF SendInbound

LEMMA AgeKeeps ==
    ASSUME checking \in [Job -> Nat], NEW j \in Job, checking[j] > 0
    PROVE  \E k \in Job : k.id = j.id /\ Age(checking)[k] > 0
<1>0. j.left \in 0..CheckBlocks /\ CheckBlocks \in Nat
  BY BoundAssumption DEF Job
<1>1. CASE j.left = 0
  <2>1. ASSUME j.left < CheckBlocks PROVE checking[[j EXCEPT !.left = @ + 1]] \in Nat
    <3>1. [j EXCEPT !.left = @ + 1] \in Job
      BY <2>1, BoundAssumption DEF Job
    <3> QED BY <3>1
  <2>2. checking[j] \in Nat
    OBVIOUS
  <2>3. CASE j.left < CheckBlocks
    <3>1. Age(checking)[j] = checking[[j EXCEPT !.left = @ + 1]] + checking[j]
      BY <1>1, <2>3 DEF Age
    <3>2. Age(checking)[j] > 0
      BY <2>1, <2>2, <2>3, <3>1
    <3> QED BY <3>2
  <2>4. CASE ~(j.left < CheckBlocks)
    <3>1. Age(checking)[j] = 0 + checking[j]
      BY <1>1, <2>4 DEF Age
    <3>2. Age(checking)[j] > 0
      BY <2>2, <3>1
    <3> QED BY <3>2
  <2> QED BY <2>3, <2>4
<1>2. CASE j.left # 0
  <2> DEFINE k == [j EXCEPT !.left = @ - 1]
  <2>1. k \in Job /\ k.id = j.id /\ k.left = j.left - 1 /\ k.left < CheckBlocks
    BY <1>0, <1>2 DEF Job
  <2>2. [k EXCEPT !.left = @ + 1] = j
    <3>1. j = [id |-> j.id, index |-> j.index, left |-> j.left]
      BY DEF Job
    <3>2. k = [id |-> j.id, index |-> j.index, left |-> j.left - 1]
      BY <3>1
    <3> HIDE DEF k
    <3>3. [k EXCEPT !.left = @ + 1] = [id |-> j.id, index |-> j.index, left |-> (j.left - 1) + 1]
      BY <3>2
    <3>4. (j.left - 1) + 1 = j.left
      BY <1>0
    <3> QED BY <3>1, <3>3, <3>4
  <2>3. checking[k] \in Nat /\ checking[j] \in Nat
    BY <2>1
  <2> HIDE DEF k
  <2>4. Age(checking)[k] = checking[j] + (IF k.left = 0 THEN checking[k] ELSE 0)
    BY <2>1, <2>2 DEF Age
  <2>5. Age(checking)[k] > 0
    BY <2>3, <2>4
  <2> QED BY <2>1, <2>5
<1> QED BY <1>1, <1>2

(* The part of an accepted request that no turn of the loop touches. *)
LEMMA SameKeeps ==
    ASSUME NEW t \in TxId, Accepted(t), UNCHANGED <<reqVars, blocked>>
    PROVE  Accepted(t)'
BY DEF Accepted, reqVars

LEMMA AddItemKeeps ==
    ASSUME TypeOK, NEW u \in TxId, AddItem(u), NEW t \in TxId,
           RetryInboundReq[t] > 0 \/ t = u
    PROVE  RetryInboundReq'[t] > 0
BY DEF TypeOK, AddItem

LEMMA StartCheckKeeps ==
    ASSUME TypeOK, NEW u \in TxId, NEW i \in {"own", "empty"}, StartCheck(u, i)
    PROVE  /\ \E j \in Job : j.id = u /\ checking'[j] > 0
           /\ \A j \in Job : checking[j] > 0 => checking'[j] > 0
<1> DEFINE n == [id |-> u, index |-> i, left |-> CheckBlocks]
<1>1. n \in Job /\ n.id = u
  BY BoundAssumption DEF Job
<1>2. checking' = [checking EXCEPT ![n] = @ + 1]
  BY DEF StartCheck
<1>3. checking \in [Job -> Nat]
  BY DEF TypeOK
<1> HIDE DEF n
<1>4. checking'[n] = checking[n] + 1 /\ checking[n] \in Nat
  BY <1>1, <1>2, <1>3
<1>5. \A j \in Job : j # n => checking'[j] = checking[j]
  BY <1>1, <1>2, <1>3
<1>6. checking'[n] > 0
  BY <1>4
<1> QED BY <1>1, <1>5, <1>6

-----------------------------------------------------------------------------
(* No accepted request is lost: it leaves the node only with its record on  *)
(* the joltify chain, or because the node does not sign for the newest pool. *)
LEMMA NeverLostStep ==
    ASSUME TypeOK, Next, NEW t \in TxId, Accepted(t)
    PROVE  Accepted(t)' \/ t \in issued \/ ~CheckWhetherSigner
<1> DEFINE InChan == \E i \in 1..Len(InboundReqChan) : InboundReqChan[i] = t
           InCheck == \E j \in Job : j.id = t /\ checking[j] > 0
<1>1. CASE UNCHANGED <<reqVars, blocked>>
  BY <1>1, SameKeeps
<1>2. CASE TokenTransfer
  <2> DEFINE u == Head(todo).hash
  <2>1. u \in TxId /\ blocked = None
    BY <1>2, PubTxAssumption DEF TypeOK, TokenTransfer, NextTx
  <2>2. /\ UNCHANGED <<RetryInboundReq, checking>>
        /\ SendInbound(u) \/ UNCHANGED <<InboundReqChan, blocked>>
    BY <1>2 DEF TokenTransfer, processInboundTx, reqVars
  <2>3. CASE SendInbound(u)
    BY <2>1, <2>2, <2>3, SendKeeps, NoneNotTxId DEF Accepted
  <2> QED BY <2>2, <2>3, SameKeeps DEF reqVars
<1>3. CASE FeePayment
  <2> DEFINE u == Head(todo).hash
  <2>1. u \in TxId
    BY <1>3, PubTxAssumption DEF TypeOK, FeePayment, NextTx
  <2>2. /\ UNCHANGED <<InboundReqChan, checking, blocked>>
        /\ AddItem(u) \/ UNCHANGED RetryInboundReq
    BY <1>3 DEF FeePayment, updateInboundTx
  <2>3. RetryInboundReq[t] > 0 => RetryInboundReq'[t] > 0
    BY <2>1, <2>2, AddItemKeeps
  <2> QED BY <2>2, <2>3 DEF Accepted
<1>4. CASE NewJoltifyBlock \/ NewJoltifyBlockNoPools
  <2>1. InCheck => Accepted(t)'
    <3>1. checking' = Age(checking)
      BY <1>4 DEF NewJoltifyBlock, NewJoltifyBlockNoPools
    <3> QED BY <3>1, AgeKeeps DEF Accepted, TypeOK
  <2>2. CASE UNCHANGED <<RetryInboundReq, InboundReqChan, blocked>>
    BY <2>1, <2>2 DEF Accepted
  <2>3. ASSUME NEW u \in TxId, PopItem(u), SendInbound(u), blocked = None
        PROVE  Accepted(t)'
    <3>1. InChan => Accepted(t)'
      BY <2>3, SendKeeps DEF Accepted
    <3>2. t = u => Accepted(t)'
      BY <2>3, SendKeeps DEF Accepted
    <3>3. t # u /\ RetryInboundReq[t] > 0 => Accepted(t)'
      BY <2>3 DEF PopItem, TypeOK, Accepted
    <3> QED BY <2>1, <2>3, <3>1, <3>2, <3>3, NoneNotTxId DEF Accepted, PopItem
  <2> QED BY <1>4, <2>2, <2>3 DEF NewJoltifyBlock, NewJoltifyBlockNoPools, Idle, loopVars
<1>5. ASSUME NEW u \in TxId, HandleInbound(u), CheckWhetherSigner
      PROVE  Accepted(t)'
  <2>1. ReceiveInbound(u)
    BY <1>5 DEF HandleInbound, NotSigner, MintFails, AlreadySubmitted, MintSubmitted
  <2>2. InChan => t = u \/ \E i \in 1..Len(InboundReqChan') : InboundReqChan'[i] = t
    <3>1. InboundReqChan \in Seq(TxId) /\ InboundReqChan # <<>>
      BY <2>1 DEF TypeOK, ReceiveInbound
    <3>2. InboundReqChan' = Tail(InboundReqChan) /\ u = InboundReqChan[1]
      BY <2>1, <3>1 DEF ReceiveInbound
    <3>3. ASSUME NEW i \in 1..Len(InboundReqChan), i # 1
          PROVE  i - 1 \in 1..Len(InboundReqChan') /\ InboundReqChan'[i - 1] = InboundReqChan[i]
      BY <3>1, <3>2, <3>3
    <3> QED BY <3>2, <3>3
  <2>3. UNCHANGED blocked
    BY <2>1 DEF ReceiveInbound, loopVars
  <2>4. \/ AddItem(u) /\ UNCHANGED checking
        \/ UNCHANGED RetryInboundReq /\ StartCheck(u, "own")
        \/ UNCHANGED RetryInboundReq /\ StartCheck(u, "empty")
    BY <1>5 DEF HandleInbound, NotSigner, MintFails, AlreadySubmitted, MintSubmitted
  <2>5. CASE AddItem(u) /\ UNCHANGED checking
    BY <2>2, <2>3, <2>5, AddItemKeeps DEF Accepted
  <2>6. CASE /\ UNCHANGED RetryInboundReq
             /\ StartCheck(u, "own") \/ StartCheck(u, "empty")
    <3>1. /\ \E j \in Job : j.id = u /\ checking'[j] > 0
          /\ \A j \in Job : checking[j] > 0 => checking'[j] > 0
      BY <2>6, StartCheckKeeps
    <3> QED BY <2>2, <2>3, <2>6, <3>1 DEF Accepted
  <2> QED BY <2>4, <2>5, <2>6
<1>6. ASSUME NEW j \in Job, CheckSucceeds(j) PROVE Accepted(t)' \/ t \in issued
  <2>1. \A k \in Job : k # j => checking'[k] = checking[k]
    BY <1>6 DEF CheckSucceeds, TypeOK
  <2>2. UNCHANGED <<InboundReqChan, RetryInboundReq, blocked>> /\ j.id \in issued
    BY <1>6 DEF CheckSucceeds, loopVars
  <2> QED BY <2>1, <2>2 DEF Accepted
<1>7. ASSUME NEW j \in Job, CheckTimesOut(j) PROVE Accepted(t)'
  <2>1. \A k \in Job : k # j => checking'[k] = checking[k]
    BY <1>7 DEF CheckTimesOut, TypeOK
  <2>2. UNCHANGED <<InboundReqChan, blocked>> /\ AddItem(j.id) /\ j.id \in TxId
    BY <1>7 DEF CheckTimesOut, loopVars, Job
  <2>3. RetryInboundReq[t] > 0 \/ t = j.id => RetryInboundReq'[t] > 0
    BY <2>2, AddItemKeeps
  <2> QED BY <2>1, <2>2, <2>3 DEF Accepted
<1>8. \/ UNCHANGED <<reqVars, blocked>> \/ TokenTransfer \/ FeePayment
      \/ NewJoltifyBlock \/ NewJoltifyBlockNoPools
      \/ \E u \in TxId : HandleInbound(u)
      \/ \E j \in Job : CheckSucceeds(j) \/ CheckTimesOut(j)
  BY DEF Next, Loop, ProcessTx, Goroutine, Environment, loopVars, NewHead, NewHeadFails,
         TakeHead, FinishBlock, OtherTx, ReceiptFails, Mine, Reorg, CreatePool,
         OthersSubmit, Execute, Drop
<1> QED BY <1>1, <1>2, <1>3, <1>4, <1>5, <1>6, <1>7, <1>8

THEOREM InboundNeverLost == Spec => NeverLost
<1>1. TypeOK /\ [Next]_vars =>
        [\A t \in TxId : LetsGo(t) => t \in issued \/ ~CheckWhetherSigner]_vars
  BY NeverLostStep DEF LetsGo
<1> QED BY <1>1, InboundType, PTL DEF Spec, NeverLost

-----------------------------------------------------------------------------
(* Without a wrap the unsigned age is the age, and with one it is smaller. *)
LEMMA UnsignedAge ==
    ASSUME NEW a \in Nat, NEW w \in Nat \ {0}
    PROVE  a % w <= a
OBVIOUS

(* A deposit is given up only after its time, while heads do not step back. *)
LEMMA PendingKeptStep ==
    ASSUME TypeOK, Next, NEW t \in TxId, GivenUp(t), number >= pendingInbounds[t].height
    PROVE  number - pendingInbounds[t].height > TxTimeout
<1>1. CASE UNCHANGED pendingInbounds
  BY <1>1 DEF GivenUp
<1>2. CASE TokenTransfer
  <2> DEFINE u == Head(todo).hash
             fee == IF pendingInboundsBnB[u] = None THEN 0 ELSE pendingInboundsBnB[u].fee
  <2>1. u \in TxId
    BY <1>2, PubTxAssumption DEF TypeOK, TokenTransfer, NextTx
  <2>2. \/ UNCHANGED pendingInbounds
        \/ pendingInbounds' = [pendingInbounds EXCEPT ![u] = [height |-> number, fee |-> fee]]
    BY <1>2 DEF TokenTransfer, processInboundTx, pendVars
  <2>3. [height |-> number, fee |-> fee] \in Entry
    BY <2>1 DEF TypeOK, Entry
  <2> HIDE DEF fee
  <2> QED BY <2>1, <2>2, <2>3, NoneNotEntry DEF GivenUp, TypeOK, Entry
<1>3. CASE FeePayment
  <2> DEFINE u == Head(todo).hash
             sum == pendingInbounds[u].fee + Head(todo).value
  <2>1. u \in TxId /\ Head(todo).value \in Nat
    BY <1>3, PubTxAssumption DEF TypeOK, FeePayment, NextTx
  <2>2. CASE u = t /\ Verify(sum)
    <3>1. AddItem(u)
      BY <1>3, <2>2 DEF FeePayment, updateInboundTx, GivenUp
    <3> QED BY <2>1, <2>2, <3>1 DEF AddItem, TypeOK, Accepted, GivenUp
  <2>3. CASE u = t /\ ~Verify(sum)
    <3>1. pendingInbounds' = [pendingInbounds EXCEPT
             ![u] = [height |-> pendingInbounds[u].height, fee |-> sum]]
      BY <1>3, <2>3 DEF FeePayment, updateInboundTx, GivenUp
    <3>2. pendingInbounds[u] \in Entry
      BY <2>1, <2>3 DEF TypeOK, GivenUp
    <3>3. [height |-> pendingInbounds[u].height, fee |-> sum] \in Entry
      BY <2>1, <3>2 DEF Entry
    <3> HIDE DEF sum
    <3> QED BY <2>1, <2>3, <3>1, <3>3, NoneNotEntry DEF GivenUp, TypeOK, Entry
  <2>4. CASE u # t
    BY <1>3, <2>1, <2>4 DEF FeePayment, updateInboundTx, GivenUp, TypeOK
  <2> QED BY <2>2, <2>3, <2>4
<1>4. CASE FinishBlock
  <2> DEFINE e == pendingInbounds[t]
  <2>1. e \in Entry
    BY DEF TypeOK, GivenUp
  <2>2. (number - e.height) % Word > TxTimeout
    BY <1>4 DEF FinishBlock, DeleteExpired, Expired, GivenUp
  <2>3. number - e.height \in Nat
    BY <2>1 DEF TypeOK, Entry
  <2>4. (number - e.height) % Word <= number - e.height
    BY <2>3, UnsignedAge, BoundAssumption
  <2>5. (number - e.height) % Word \in Int /\ TxTimeout \in Int
    BY <2>3, BoundAssumption
  <2> HIDE DEF e
  <2>6. number - e.height > TxTimeout
    BY <2>2, <2>3, <2>4, <2>5
  <2> QED BY <2>6 DEF e
<1>5. UNCHANGED pendingInbounds \/ TokenTransfer \/ FeePayment \/ FinishBlock
  BY DEF Next, Loop, ProcessTx, Goroutine, Environment, pendVars, NewHead, NewHeadFails,
         TakeHead, OtherTx, ReceiptFails, Mine, Reorg, CreatePool, OthersSubmit, Execute, Drop,
         NewJoltifyBlock, NewJoltifyBlockNoPools, HandleInbound, NotSigner, MintFails,
         AlreadySubmitted, MintSubmitted, ReceiveInbound, loopVars, CheckSucceeds, CheckTimesOut
<1> QED BY <1>1, <1>2, <1>3, <1>4, <1>5

(* A token transfer that waits for its fee is dropped only when it is older *)
(* than the timeout, for every width of the heights, as long as the head    *)
(* is not below the block of its arrival.                                   *)
THEOREM InboundPendingKept == Spec => PendingKept
<1>1. TypeOK /\ [Next]_vars =>
        [\A t \in TxId : GivenUp(t) /\ number >= pendingInbounds[t].height =>
            number - pendingInbounds[t].height > TxTimeout]_vars
  BY PendingKeptStep
<1> QED BY <1>1, InboundType, PTL DEF Spec, PendingKept
=============================================================================

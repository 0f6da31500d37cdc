--------------------------- MODULE OutboundProofs ---------------------------
(***************************************************************************)
(* Proofs about outbound transfers by any number of nodes, for every       *)
(* choice of pools, quorums that intersect, and faults: every variable     *)
(* keeps its type, two transfers of a deposit can only both be executed    *)
(* when a signer was told of an error about one that could, and so Payout  *)
(* is implemented.                                                         *)
(***************************************************************************)
EXTENDS Outbound, TLAPS

(* What is known of a request by its place. *)
LEMMA ItemType ==
    ASSUME TypeOK, NEW n \in Node, NEW d \in Deposit
    PROVE  /\ item[n][d] \in Item
           /\ item[n][d].at \in {"sign", "party", "send", "check"} => item[n][d] \in Working
           /\ item[n][d].at \in {"retry", "chan", "stuck"} => item[n][d] \in Waiting
<1>1. item[n][d] \in Item
  BY DEF TypeOK
<1> QED BY <1>1 DEF Item, Unseen, Gone, Lost, Waiting, Working

LEMMA WorkingType ==
    ASSUME NEW i \in Working
    PROVE  /\ i = [at |-> i.at, from |-> i.from, tx |-> i.tx]
           /\ i.from \in Pool /\ i.tx \in Transfer
           /\ i.tx.dep \in Deposit /\ i.tx.key \in Pool /\ i.tx.nonce \in Nat
BY DEF Working, Transfer

LEMMA SetItemType ==
    ASSUME TypeOK, NEW n \in Node, NEW d \in Deposit, NEW i \in Item, SetItem(n, d, i)
    PROVE  item' \in [Node -> [Deposit -> Item]]
BY DEF SetItem, TypeOK

(* A request that is put back, forgotten, or worked on. *)
LEMMA AddItemType ==
    ASSUME TypeOK, NEW n \in Node, NEW d \in Deposit, AddItem(n, d),
           item[n][d].at \in {"sign", "party", "send", "check", "retry", "chan", "stuck"}
    PROVE  item' \in [Node -> [Deposit -> Item]]
<1>1. item[n][d].from \in Pool
  BY ItemType DEF Waiting, Working
<1>2. [at |-> "retry", from |-> item[n][d].from] \in Item
  BY <1>1 DEF Item, Waiting
<1> QED BY <1>2, SetItemType DEF AddItem

LEMMA ForgetType ==
    ASSUME TypeOK, NEW n \in Node, NEW d \in Deposit, Forget(n, d) \/ Lose(n, d)
    PROVE  item' \in [Node -> [Deposit -> Item]]
BY SetItemType DEF Forget, Lose, Item

LEMMA WorkOnType ==
    ASSUME TypeOK, NEW n \in Node, NEW d \in Deposit, NEW tx \in Transfer,
           NEW a \in {"sign", "party", "send", "check"}, WorkOn(n, d, a, tx),
           item[n][d].at \in {"sign", "party", "send", "check", "retry", "chan", "stuck"}
    PROVE  item' \in [Node -> [Deposit -> Item]]
<1>1. item[n][d].from \in Pool
  BY ItemType DEF Waiting, Working
<1>2. [at |-> a, from |-> item[n][d].from, tx |-> tx] \in Item
  BY <1>1 DEF Item, Working
<1> QED BY <1>2, SetItemType DEF WorkOn

(* The cache after a joltify block. *)
LEMMA PollType ==
    ASSUME NEW c \in Cache, NEW v \in Seq(Pool), Len(v) >= 2
    PROVE  /\ NextCache(c, QueryLastPoolAddress(v)) \in Cache
           /\ NextCache(c, QueryLastPoolAddress(v))[2] \in Pool
<1>1. QueryLastPoolAddress(v)[1] \in Pool /\ QueryLastPoolAddress(v)[2] \in Pool
  BY DEF QueryLastPoolAddress
<1> QED BY <1>1 DEF NextCache, FillPools, UpdatePool, NeedUpdate, Cache, Slot

LEMMA UseNonceType ==
    ASSUME TypeOK, NEW p \in Pool, UseNonce(p)
    PROVE  /\ nonce' = [nonce EXCEPT ![p] = nonce[p] + 1]
           /\ nonce' \in [Pool -> Nat] /\ mempool' \subseteq mempool
           /\ UNCHANGED <<vault, lastTwoPools, item, doubted>>
BY DEF UseNonce, TypeOK

(* A doubt is about a transfer in hand. *)
LEMMA DoubtType ==
    ASSUME TypeOK, NEW tx \in Transfer, Doubt(tx)
    PROVE  doubted' \subseteq Transfer /\ doubted \subseteq doubted'
BY DEF Doubt, TypeOK

(* A node with requests has pools in its cache, also after a restart. *)
CacheKnown ==
    \A n \in Node :
        lastTwoPools[n][2] \in Pool \/ \A d \in Deposit : item[n][d] \in {Unseen, Gone, Lost}

-----------------------------------------------------------------------------
LEMMA TypeNext == TypeOK /\ CacheKnown /\ [Next]_vars => TypeOK'
<1> SUFFICES ASSUME TypeOK, CacheKnown, [Next]_vars PROVE TypeOK'
  OBVIOUS
<1>1. CASE UNCHANGED vars
  BY <1>1 DEF vars, chainVars, TypeOK
<1>2. ASSUME NEW n \in Node, Poll(n) PROVE TypeOK'
  <2>1. NextCache(lastTwoPools[n], QueryLastPoolAddress(vault)) \in Cache
    BY <1>2, PollType DEF Poll, TypeOK
  <2> QED BY <1>2, <2>1 DEF Poll, chainVars, TypeOK
<1>3. ASSUME NEW n \in Node, NEW x, CheckOutBoundTx(n, x) PROVE TypeOK'
  <2>1. lastTwoPools[n] \in Slot \X Slot
    BY DEF TypeOK, Cache
  <2>2. ASSUME NEW d \in Deposit, processMsg(n, d)
        PROVE  [at |-> "retry", from |-> lastTwoPools[n][2]] \in Item
    BY <2>1, <2>2 DEF processMsg, Slot, Item, Waiting
  <2>3. Gone \in Item
    BY DEF Item
  <2> QED BY <1>3, <2>2, <2>3 DEF CheckOutBoundTx, chainVars, TypeOK
<1>4. ASSUME NEW n \in Node, NEW d \in Deposit, PopItem(n, d) PROVE TypeOK'
  <2>1. item[n][d].from \in Pool
    BY <1>4, ItemType DEF PopItem, Waiting
  <2>2. ASSUME NEW a \in {"chan", "stuck"} PROVE [at |-> a, from |-> item[n][d].from] \in Item
    BY <2>1 DEF Item, Waiting
  <2>3. item' \in [Node -> [Deposit -> Item]]
    BY <1>4, <2>2, SetItemType DEF PopItem
  <2> QED BY <1>4, <2>3 DEF PopItem, chainVars, TypeOK
<1>5. ASSUME NEW n \in Node, NEW d \in Deposit,
             NotSigner(n, d) \/ CheckSucceeds(n, d) \/ CheckTimesOut(n, d)
      PROVE  TypeOK'
  BY <1>5, ForgetType DEF NotSigner, CheckSucceeds, CheckTimesOut, chainVars, TypeOK
<1>6. ASSUME NEW n \in Node, NEW d \in Deposit,
             TransferFails(n, d) \/ SignFails(n, d) \/ CheckFailed(n, d)
      PROVE  TypeOK'
  BY <1>6, AddItemType
     DEF TransferFails, Receive, SignFails, CheckFailed, chainVars, TypeOK
<1>7. ASSUME NEW n \in Node, NEW d \in Deposit, NEW k \in 0..(MaxNonce - 1), composeTx(n, d, k)
      PROVE  TypeOK'
  <2>1. item[n][d].at = "chan" /\ item[n][d].from \in Pool
    BY <1>7, ItemType DEF composeTx, Receive, Waiting
  <2>2. lastTwoPools[n][2] \in Pool
    BY <2>1 DEF CacheKnown, Unseen, Gone, Lost
  <2>3. [dep |-> d, key |-> lastTwoPools[n][2], nonce |-> k] \in Transfer
    BY <2>2 DEF Transfer
  <2>4. item' \in [Node -> [Deposit -> Item]]
    BY <1>7, <2>1, <2>3, WorkOnType DEF composeTx
  <2> QED BY <1>7, <2>4 DEF composeTx, chainVars, TypeOK
<1>8. ASSUME NEW n \in Node, NEW d \in Deposit,
             \/ KeySign(n, d) \/ KeySignFails(n, d)
             \/ SendAccepted(n, d) \/ AlreadyKnown(n, d) \/ SendRefused(n, d) \/ AnswerLost(n, d)
      PROVE  TypeOK'
  <2>1. item[n][d].at \in {"party", "send"} /\ item[n][d].tx \in Transfer
    BY <1>8, ItemType, WorkingType
       DEF KeySign, KeySignFails, SendAccepted, AlreadyKnown, SendRefused, AnswerLost
  <2>2. \A a \in {"send", "check"} :
            WorkOn(n, d, a, item[n][d].tx) => item' \in [Node -> [Deposit -> Item]]
    BY <2>1, WorkOnType
  <2>3. AddItem(n, d) => item' \in [Node -> [Deposit -> Item]]
    BY <2>1, AddItemType
  <2>4. Doubt(item[n][d].tx) => doubted' \subseteq Transfer
    BY <2>1, DoubtType
  <2>5. item' \in [Node -> [Deposit -> Item]]
    BY <1>8, <2>2, <2>3
       DEF KeySign, KeySignFails, SendAccepted, AlreadyKnown, SendRefused, AnswerLost
  <2>6. doubted' \subseteq Transfer
    BY <1>8, <2>4
       DEF KeySign, KeySignFails, SendAccepted, AlreadyKnown, SendRefused, AnswerLost, TypeOK
  <2>7. mempool' \subseteq Transfer
    BY <1>8, <2>1
       DEF KeySign, KeySignFails, SendAccepted, AlreadyKnown, SendRefused, AnswerLost, chainVars,
           TypeOK
  <2> QED BY <1>8, <2>5, <2>6, <2>7
      DEF KeySign, KeySignFails, SendAccepted, AlreadyKnown, SendRefused, AnswerLost, chainVars,
          TypeOK
<1>9. ASSUME NEW n \in Node, Restart(n) PROVE TypeOK'
  <2>1. EmptyCache \in Cache /\ Unseen \in Item /\ Gone \in Item /\ Lost \in Item
    BY DEF EmptyCache, Cache, Slot, Item
  <2> QED BY <1>9, <2>1 DEF Restart, chainVars, TypeOK
<1>10. ASSUME NEW p \in Pool, NEW Q \in Quorum[p], NEW n \in Q, NEW d \in Deposit,
              item[n][d].at = "sign", tssSign(Q, item[n][d].tx)
       PROVE  TypeOK'
  <2> DEFINE tx == item[n][d].tx
  <2>0. n \in Node /\ Q \subseteq Node
    BY OutboundAssumption
  <2>1. tx \in Transfer /\ tx.dep \in Deposit
    BY <1>10, <2>0, ItemType, WorkingType
  <2>2. ASSUME NEW m \in Q
        PROVE  [at |-> "party", from |-> item[m][tx.dep].from, tx |-> tx] \in Item
    <3>1. item[m][tx.dep].at = "sign"
      BY <1>10 DEF tssSign, Signing
    <3>2. item[m][tx.dep].from \in Pool
      BY <2>0, <2>1, <3>1, ItemType, WorkingType
    <3> QED BY <2>1, <3>2 DEF Item, Working
  <2> HIDE DEF tx
  <2>3. item' \in [Node -> [Deposit -> Item]]
    BY <1>10, <2>0, <2>1, <2>2 DEF tssSign, TypeOK, tx
  <2> QED BY <1>10, <2>3 DEF tssSign, chainVars, TypeOK
<1>11. CASE CreatePool
  BY <1>11, OutboundAssumption DEF CreatePool, chainVars, TypeOK
<1>12. ASSUME NEW tx \in mempool, Mine(tx) \/ MineFails(tx) \/ Drop(tx) PROVE TypeOK'
  <2>1. tx \in Transfer /\ tx.key \in Pool
    BY DEF TypeOK, Transfer
  <2> QED BY <1>12, <2>1, UseNonceType DEF Mine, MineFails, Drop, TypeOK
<1>13. ASSUME NEW p \in Pool, OtherTransfer(p) PROVE TypeOK'
  BY <1>13, UseNonceType DEF OtherTransfer, TypeOK
<1> QED BY <1>1, <1>2, <1>3, <1>4, <1>5, <1>6, <1>7, <1>8, <1>9, <1>10, <1>11, <1>12, <1>13
        DEF Next, OfLoop, OfCheck, OfChains

(* One request of one node changes: the steps of the loop about a request,  *)
(* and those of the check.                                                  *)
OfRequest(n, d) ==
    \/ PopItem(n, d) \/ NotSigner(n, d) \/ TransferFails(n, d) \/ SignFails(n, d)
    \/ KeySign(n, d) \/ KeySignFails(n, d)
    \/ (\E k \in 0..(MaxNonce - 1) : composeTx(n, d, k))
    \/ SendAccepted(n, d) \/ AlreadyKnown(n, d) \/ SendRefused(n, d) \/ AnswerLost(n, d)
    \/ CheckSucceeds(n, d) \/ CheckFailed(n, d) \/ CheckTimesOut(n, d)

(* Only a joltify block and a restart change a cache; a request appears only*)
(* where pools are known.                                                   *)
LEMMA CacheKnownNext == TypeOK /\ CacheKnown /\ [Next]_vars => CacheKnown'
<1> SUFFICES ASSUME TypeOK, CacheKnown, [Next]_vars, NEW m \in Node
    PROVE  lastTwoPools'[m][2] \in Pool \/ \A d \in Deposit : item'[m][d] \in {Unseen, Gone, Lost}
  BY DEF CacheKnown
<1>1. CASE UNCHANGED <<item, lastTwoPools>>
  BY <1>1 DEF CacheKnown
<1>2. ASSUME NEW n \in Node, Poll(n)
      PROVE  lastTwoPools'[m][2] \in Pool \/ \A d \in Deposit : item'[m][d] \in {Unseen, Gone, Lost}
  <2>1. lastTwoPools'[n][2] \in Pool /\ (m # n => lastTwoPools'[m] = lastTwoPools[m])
    BY <1>2, PollType DEF Poll, TypeOK
  <2> QED BY <1>2, <2>1 DEF Poll, CacheKnown
<1>3. ASSUME NEW n \in Node, Restart(n)
      PROVE  lastTwoPools'[m][2] \in Pool \/ \A d \in Deposit : item'[m][d] \in {Unseen, Gone, Lost}
  BY <1>3 DEF Restart, CacheKnown, TypeOK
<1>4. ASSUME NEW n \in Node, NEW x, CheckOutBoundTx(n, x)
      PROVE  lastTwoPools'[m][2] \in Pool \/ \A d \in Deposit : item'[m][d] \in {Unseen, Gone, Lost}
  <2>1. lastTwoPools[n][2] \in Slot
    BY DEF TypeOK, Cache
  <2>2. (\E d \in Deposit : processMsg(n, d)) => lastTwoPools[n][2] \in Pool
    BY <2>1 DEF processMsg, Slot
  <2> QED BY <1>4, <2>2 DEF CheckOutBoundTx, CacheKnown, TypeOK
<1>5. ASSUME NEW n \in Node, NEW d \in Deposit, NEW i, SetItem(n, d, i), UNCHANGED lastTwoPools,
             item[n][d] \notin {Unseen, Gone, Lost}
      PROVE  lastTwoPools'[m][2] \in Pool \/ \A e \in Deposit : item'[m][e] \in {Unseen, Gone, Lost}
  <2>1. lastTwoPools[n][2] \in Pool
    BY <1>5 DEF CacheKnown
  <2> QED BY <1>5, <2>1 DEF SetItem, CacheKnown, TypeOK
<1>6. ASSUME NEW n \in Node, NEW d \in Deposit, OfRequest(n, d)
      PROVE  lastTwoPools'[m][2] \in Pool \/ \A e \in Deposit : item'[m][e] \in {Unseen, Gone, Lost}
  <2>1. item[n][d] \notin {Unseen, Gone, Lost}
    <3>1. item[n][d].at \in {"retry", "chan", "sign"} \/ item[n][d].at \in {"party", "send", "check"}
      <4>1. PopItem(n, d) \/ NotSigner(n, d) \/ TransferFails(n, d) \/ SignFails(n, d)
              \/ (\E k \in 0..(MaxNonce - 1) : composeTx(n, d, k))
              => item[n][d].at \in {"retry", "chan", "sign"}
        BY DEF PopItem, NotSigner, TransferFails, Receive, SignFails, composeTx
      <4>2. KeySign(n, d) \/ KeySignFails(n, d)
              \/ SendAccepted(n, d) \/ AlreadyKnown(n, d) \/ SendRefused(n, d) \/ AnswerLost(n, d)
              => item[n][d].at \in {"party", "send"}
        BY DEF KeySign, KeySignFails, SendAccepted, AlreadyKnown, SendRefused, AnswerLost
      <4>3. CheckSucceeds(n, d) \/ CheckFailed(n, d) \/ CheckTimesOut(n, d)
              => item[n][d].at = "check"
        BY DEF CheckSucceeds, CheckFailed, CheckTimesOut
      <4> QED BY <1>6, <4>1, <4>2, <4>3 DEF OfRequest
    <3> QED BY <3>1 DEF Unseen, Gone, Lost
  <2>2. /\ \A a, tx : WorkOn(n, d, a, tx) => \E i : SetItem(n, d, i)
        /\ AddItem(n, d) \/ Forget(n, d) \/ Lose(n, d) => \E i : SetItem(n, d, i)
    <3>1. /\ \A a, tx : WorkOn(n, d, a, tx) => SetItem(n, d, [at |-> a, from |-> item[n][d].from, tx |-> tx])
          /\ AddItem(n, d) => SetItem(n, d, [at |-> "retry", from |-> item[n][d].from])
          /\ Forget(n, d) => SetItem(n, d, Gone)
          /\ Lose(n, d) => SetItem(n, d, Lost)
      BY DEF WorkOn, AddItem, Forget, Lose
    <3> QED BY <3>1
  <2>3. PopItem(n, d) => \E i : SetItem(n, d, i)
    BY DEF PopItem
  <2>4. \E i : SetItem(n, d, i)
    BY <1>6, <2>2, <2>3 DEF OfRequest, NotSigner, TransferFails, SignFails, KeySign, KeySignFails,
       SendAccepted, AlreadyKnown, SendRefused, AnswerLost, CheckSucceeds, CheckFailed,
       CheckTimesOut, composeTx
  <2>5. UNCHANGED lastTwoPools
    BY <1>6 DEF OfRequest, PopItem, NotSigner, TransferFails, SignFails, KeySign, KeySignFails,
       SendAccepted, AlreadyKnown, SendRefused, AnswerLost, CheckSucceeds, CheckFailed,
       CheckTimesOut, composeTx
  <2> QED BY <1>5, <2>1, <2>4, <2>5
<1>7. ASSUME NEW p \in Pool, NEW Q \in Quorum[p], NEW n \in Q, NEW d \in Deposit,
             item[n][d].at = "sign", tssSign(Q, item[n][d].tx)
      PROVE  lastTwoPools'[m][2] \in Pool \/ \A e \in Deposit : item'[m][e] \in {Unseen, Gone, Lost}
  <2> DEFINE tx == item[n][d].tx
  <2>0. n \in Node /\ Q \subseteq Node
    BY OutboundAssumption
  <2>1. tx.dep \in Deposit
    BY <1>7, <2>0, ItemType, WorkingType
  <2>2. CASE m \in Q
    <3>1. item[m][tx.dep].at = "sign"
      BY <1>7, <2>2 DEF tssSign, Signing
    <3>2. lastTwoPools[m][2] \in Pool
      BY <2>0, <2>1, <2>2, <3>1 DEF CacheKnown, Unseen, Gone, Lost
    <3> QED BY <1>7, <3>2 DEF tssSign
  <2>3. CASE m \notin Q
    BY <1>7, <2>3 DEF tssSign, CacheKnown
  <2> QED BY <2>2, <2>3
<1>8. (\E tx \in mempool : Mine(tx) \/ MineFails(tx) \/ Drop(tx)) \/ (\E p \in Pool : OtherTransfer(p))
        \/ CreatePool => UNCHANGED <<item, lastTwoPools>>
  BY DEF Mine, MineFails, Drop, OtherTransfer, CreatePool, UseNonce
<1> QED BY <1>1, <1>2, <1>3, <1>4, <1>6, <1>7, <1>8 DEF Next, OfLoop, OfCheck, OfChains, OfRequest, vars

-----------------------------------------------------------------------------
(* The inductive invariant.  A transfer that is live and not in doubt is    *)
(* backed by a quorum: each member has signed it or is signing it, and will *)
(* not ask for another signature unless it dies or comes into doubt.  So no *)
(* other quorum can sign for the deposit.                                   *)
OwnDeposit ==
    \A n \in Node, d \in Deposit :
        item[n][d].at \in {"sign", "party", "send", "check"} => item[n][d].tx.dep = d
Nonces ==
    /\ \A tx \in mempool : nonce[tx.key] <= tx.nonce
    /\ \A tx \in paid \cup failed : Used(tx)
    /\ paid \cap failed = {}

Committed(n, tx) ==
    \/ item[n][tx.dep] \in {Gone, Lost}
    \/ item[n][tx.dep].at \in {"party", "send", "check"} /\ item[n][tx.dep].tx = tx
Backed == \A tx \in Live \ doubted : \E Q \in Quorum[tx.key] : \A n \in Q : Committed(n, tx)

IInv == TypeOK /\ CacheKnown /\ OwnDeposit /\ Nonces /\ Backed /\ OneLiveUndoubted

LEMMA SignedByNode ==
    ASSUME NEW tx
    PROVE  tx \in Signed <=>
             \E n \in Node, d \in Deposit : item[n][d].at \in {"party", "send"} /\ item[n][d].tx = tx
<1>1. ASSUME tx \in Signed
      PROVE  \E n \in Node, d \in Deposit : item[n][d].at \in {"party", "send"} /\ item[n][d].tx = tx
  <2>1. PICK s \in Node \X Deposit :
            item[s[1]][s[2]].at \in {"party", "send"} /\ item[s[1]][s[2]].tx = tx
    BY <1>1 DEF Signed
  <2>2. s[1] \in Node /\ s[2] \in Deposit
    OBVIOUS
  <2> QED BY <2>1, <2>2
<1>2. ASSUME NEW n \in Node, NEW d \in Deposit,
             item[n][d].at \in {"party", "send"}, item[n][d].tx = tx
      PROVE  tx \in Signed
  <2>1. <<n, d>> \in Node \X Deposit /\ <<n, d>>[1] = n /\ <<n, d>>[2] = d
    OBVIOUS
  <2>2. <<n, d>> \in {r \in Node \X Deposit : item[r[1]][r[2]].at \in {"party", "send"}}
    BY <1>2, <2>1
  <2> QED BY <1>2, <2>1, <2>2 DEF Signed
<1> QED BY <1>1, <1>2

(* The same of the state after a step. *)
LEMMA SignedNext ==
    ASSUME NEW tx \in Signed'
    PROVE  \E n \in Node, d \in Deposit : item'[n][d].at \in {"party", "send"} /\ item'[n][d].tx = tx
<1>1. PICK s \in Node \X Deposit :
          item'[s[1]][s[2]].at \in {"party", "send"} /\ item'[s[1]][s[2]].tx = tx
  BY DEF Signed
<1>2. s[1] \in Node /\ s[2] \in Deposit
  OBVIOUS
<1> QED BY <1>1, <1>2

LEMMA TxFields ==
    ASSUME NEW tx \in Transfer
    PROVE  tx.dep \in Deposit /\ tx.key \in Pool /\ tx.nonce \in Nat
BY DEF Transfer

LEMMA LiveType == TypeOK => Live \subseteq Transfer
<1> SUFFICES ASSUME TypeOK, NEW tx \in Signed PROVE tx \in Transfer
  BY DEF Live, TypeOK
<1>1. PICK n \in Node, d \in Deposit : item[n][d].at \in {"party", "send"} /\ item[n][d].tx = tx
  BY SignedByNode
<1> QED BY <1>1, ItemType, WorkingType

(* Once dead, a transfer stays dead: nothing becomes live that no signer    *)
(* has, and a nonce that is used up stays so.                               *)
LEMMA LiveShrinks ==
    ASSUME TypeOK, NEW S, Signed' \subseteq Signed \cup S,
           mempool' \subseteq Live, paid' \subseteq mempool \cup paid,
           \A p \in Pool : nonce[p] <= nonce'[p] /\ nonce'[p] \in Nat
    PROVE  Live' \subseteq Live \cup S
<1> SUFFICES ASSUME NEW tx \in Signed, ~Used(tx)' PROVE tx \in Live
  BY DEF Live
<1>1. PICK n \in Node, d \in Deposit : item[n][d].at \in {"party", "send"} /\ item[n][d].tx = tx
  BY SignedByNode
<1>2. tx.key \in Pool /\ tx.nonce \in Nat
  BY <1>1, ItemType, WorkingType
<1>3. ~Used(tx)
  BY <1>2 DEF Used, TypeOK
<1> QED BY <1>3 DEF Live

LEMMA InitIInv == Init => IInv
<1> SUFFICES ASSUME Init PROVE IInv
  OBVIOUS
<1>1. TypeOK
  BY DEF Init, TypeOK, EmptyCache, Cache, Slot, Item
<1>2. CacheKnown /\ Nonces
  BY DEF Init, CacheKnown, Nonces
<1>3. \A n \in Node, d \in Deposit : item[n][d].at = "unseen"
  BY DEF Init, Unseen
<1>4. OwnDeposit
  BY <1>3 DEF OwnDeposit
<1>5. \A tx : tx \notin Signed
  BY <1>3, SignedByNode
<1>6. \A tx : tx \notin Live
  BY <1>5 DEF Init, Live
<1> QED BY <1>1, <1>2, <1>4, <1>6 DEF IInv, Backed, OneLiveUndoubted

(* What a step about one request makes of it, of the mempool, and of the    *)
(* doubts.                                                                  *)
Becomes(n, d, i) ==
    /\ SetItem(n, d, i)
    /\ i.at \in {"sign", "party", "send", "check"} => i.tx.dep = d
    /\ item[n][d].at \in {"retry", "chan", "sign", "party", "send", "check"}
    /\ i.at \in {"party", "send"} => item[n][d].at = "party" /\ i.tx = item[n][d].tx
    /\ item[n][d].at \in {"party", "send", "check"} =>
          \/ i \in {Gone, Lost}
          \/ i.at \in {"send", "check"} /\ i.tx = item[n][d].tx
          \/ item[n][d].tx \in failed
          \/ Doubt(item[n][d].tx)
    /\ \/ mempool' = mempool
       \/ /\ item[n][d].at = "send" /\ ~Used(item[n][d].tx)
          /\ mempool' = mempool \cup {item[n][d].tx}
    /\ \/ doubted' = doubted
       \/ item[n][d].at \in {"party", "send"} /\ Doubt(item[n][d].tx)
    /\ UNCHANGED <<vault, lastTwoPools, nonce, paid, failed>>

LEMMA RequestStep ==
    ASSUME IInv, NEW n \in Node, NEW d \in Deposit, OfRequest(n, d)
    PROVE  \E i : Becomes(n, d, i)
<1> DEFINE back == [at |-> "retry", from |-> item[n][d].from]
           on(a, tx) == [at |-> a, from |-> item[n][d].from, tx |-> tx]
<1>1. CASE PopItem(n, d)
  <2>1. PICK a \in {"chan", "stuck"} : SetItem(n, d, [at |-> a, from |-> item[n][d].from])
    BY <1>1 DEF PopItem
  <2> QED BY <1>1, <2>1 DEF PopItem, chainVars, Becomes
<1>2. CASE NotSigner(n, d) \/ CheckSucceeds(n, d)
  <2>1. Becomes(n, d, Gone)
    BY <1>2 DEF NotSigner, Receive, CheckSucceeds, Forget, Gone, chainVars, Becomes
  <2> QED BY <2>1
<1>3. CASE CheckTimesOut(n, d)
  <2>1. Becomes(n, d, Lost)
    BY <1>3 DEF CheckTimesOut, Lose, Lost, chainVars, Becomes
  <2> QED BY <2>1
<1>4. CASE TransferFails(n, d) \/ SignFails(n, d) \/ CheckFailed(n, d)
  <2>1. Becomes(n, d, back)
    BY <1>4 DEF TransferFails, Receive, SignFails, CheckFailed, AddItem, chainVars, Becomes
  <2> QED BY <2>1
<1>5. CASE KeySignFails(n, d) \/ SendRefused(n, d) \/ AnswerLost(n, d)
  <2>1. /\ SetItem(n, d, back)
        /\ item[n][d].at \in {"party", "send"}
        /\ Doubt(item[n][d].tx)
        /\ UNCHANGED <<vault, lastTwoPools, nonce, paid, failed>>
        /\ \/ mempool' = mempool
           \/ /\ item[n][d].at = "send" /\ ~Used(item[n][d].tx)
              /\ mempool' = mempool \cup {item[n][d].tx}
    BY <1>5 DEF KeySignFails, SendRefused, AnswerLost, AddItem, chainVars
  <2>2. Becomes(n, d, back)
    BY <2>1 DEF Becomes
  <2> QED BY <2>2
<1>6. ASSUME NEW k \in 0..(MaxNonce - 1), composeTx(n, d, k) PROVE \E i : Becomes(n, d, i)
  <2> DEFINE tx == [dep |-> d, key |-> lastTwoPools[n][2], nonce |-> k]
  <2>1. Becomes(n, d, on("sign", tx))
    BY <1>6 DEF composeTx, Receive, WorkOn, chainVars, Becomes
  <2> QED BY <2>1
<1>7. CASE KeySign(n, d) \/ SendAccepted(n, d) \/ AlreadyKnown(n, d)
  <2>1. /\ item[n][d].at \in {"party", "send"}
        /\ \E a \in {"send", "check"} : SetItem(n, d, on(a, item[n][d].tx))
               /\ (a = "send" => item[n][d].at = "party")
    BY <1>7 DEF KeySign, SendAccepted, AlreadyKnown, WorkOn
  <2>2. item[n][d].tx.dep = d
    BY <2>1 DEF IInv, OwnDeposit
  <2>3. PICK a \in {"send", "check"} : SetItem(n, d, on(a, item[n][d].tx))
               /\ (a = "send" => item[n][d].at = "party")
    BY <2>1
  <2>4. /\ UNCHANGED <<vault, lastTwoPools, nonce, paid, failed, doubted>>
        /\ \/ mempool' = mempool
           \/ /\ item[n][d].at = "send" /\ ~Used(item[n][d].tx)
              /\ mempool' = mempool \cup {item[n][d].tx}
    BY <1>7 DEF KeySign, SendAccepted, AlreadyKnown, chainVars
  <2>5. Becomes(n, d, on(a, item[n][d].tx))
    BY <2>1, <2>2, <2>3, <2>4 DEF Becomes
  <2> QED BY <2>5
<1> QED BY <1>1, <1>2, <1>3, <1>4, <1>5, <1>6, <1>7 DEF OfRequest

(* The steps that leave the requests alone. *)
OfChain ==
    \/ \E n \in Node : Poll(n)
    \/ CreatePool
    \/ \E tx \in mempool : Mine(tx) \/ MineFails(tx) \/ Drop(tx)
    \/ \E p \in Pool : OtherTransfer(p)

(* All kinds of steps. *)
LEMMA Steps ==
    ASSUME [Next]_vars
    PROVE  \/ UNCHANGED vars
           \/ OfChain
           \/ \E n \in Node, d \in Deposit : OfRequest(n, d)
           \/ \E n \in Node : Restart(n) \/ \E x \in {d.tx : d \in Deposit} : CheckOutBoundTx(n, x)
           \/ \E p \in Pool : \E Q \in Quorum[p] : \E n \in Q, d \in Deposit :
                item[n][d].at = "sign" /\ item[n][d].tx.key = p /\ tssSign(Q, item[n][d].tx)
BY DEF Next, OfLoop, OfCheck, OfChains, OfRequest, OfChain

LEMMA Signature ==
    ASSUME IInv, NEW p \in Pool, NEW Q \in Quorum[p], NEW n \in Q, NEW d \in Deposit,
           item[n][d].at = "sign", item[n][d].tx.key = p, tssSign(Q, item[n][d].tx)
    PROVE  \E tx \in Transfer : Q \in Quorum[tx.key] /\ tx.dep \in Deposit /\ tssSign(Q, tx)
<1>1. n \in Node
  BY OutboundAssumption
<1>2. item[n][d].tx \in Transfer /\ item[n][d].tx.dep \in Deposit
  BY <1>1, ItemType, WorkingType DEF IInv
<1> QED BY <1>2

(* When a quorum meets, the request of each member moves on.                *)
LEMMA SignatureStep ==
    ASSUME TypeOK, NEW tx \in Transfer, NEW Q \in Quorum[tx.key], tx.dep \in Deposit, tx.key \in Pool,
           tssSign(Q, tx), NEW m \in Node, NEW e \in Deposit
    PROVE  \/ item'[m][e] = item[m][e] /\ (m \notin Q \/ e # tx.dep)
           \/ /\ m \in Q /\ e = tx.dep /\ Signing(m, tx)
              /\ item'[m][e].at = "party" /\ item'[m][e].tx = tx
<1>1. CASE m \in Q
  <2>1. Signing(m, tx) /\ item'[m] =
          [item[m] EXCEPT ![tx.dep] = [at |-> "party", from |-> item[m][tx.dep].from, tx |-> tx]]
    BY <1>1 DEF tssSign
  <2> QED BY <1>1, <2>1 DEF TypeOK
<1>2. CASE m \notin Q
  BY <1>2 DEF tssSign
<1> QED BY <1>1, <1>2

LEMMA OwnDepositNext == IInv /\ [Next]_vars => OwnDeposit'
<1> SUFFICES ASSUME IInv, [Next]_vars, NEW m \in Node, NEW e \in Deposit,
                    item'[m][e].at \in {"sign", "party", "send", "check"}
    PROVE  item'[m][e].tx.dep = e
  BY DEF OwnDeposit
<1>0. TypeOK /\ (item'[m][e] = item[m][e] => item'[m][e].tx.dep = e)
  BY DEF IInv, OwnDeposit
<1>1. CASE UNCHANGED vars \/ OfChain
  BY <1>0, <1>1 DEF vars, OfChain, Poll, CreatePool, Mine, MineFails, Drop, OtherTransfer, UseNonce
<1>2. ASSUME NEW n \in Node, NEW d \in Deposit, OfRequest(n, d) PROVE item'[m][e].tx.dep = e
  <2>1. PICK i : Becomes(n, d, i)
    BY <1>2, RequestStep
  <2>2. item'[m][e] = IF m = n /\ e = d THEN i ELSE item[m][e]
    BY <1>0, <2>1 DEF Becomes, SetItem, TypeOK
  <2> QED BY <1>0, <2>1, <2>2 DEF Becomes
<1>3. ASSUME NEW n \in Node, Restart(n) \/ \E x \in {d.tx : d \in Deposit} : CheckOutBoundTx(n, x)
      PROVE  item'[m][e].tx.dep = e
  <2>1. Restart(n) => item'[m][e] = item[m][e] \/ item'[m][e] = Lost
    BY <1>0 DEF Restart, TypeOK
  <2>2. ASSUME NEW x, CheckOutBoundTx(n, x)
        PROVE  item'[m][e] = item[m][e] \/ item'[m][e] = Gone \/ item'[m][e].at = "retry"
    BY <1>0, <2>2 DEF CheckOutBoundTx, TypeOK
  <2> QED BY <1>0, <1>3, <2>1, <2>2 DEF Gone, Lost
<1>4. ASSUME NEW p \in Pool, NEW Q \in Quorum[p], NEW n \in Q, NEW d \in Deposit,
             item[n][d].at = "sign", item[n][d].tx.key = p, tssSign(Q, item[n][d].tx)
      PROVE  item'[m][e].tx.dep = e
  <2>1. PICK tx \in Transfer : Q \in Quorum[tx.key] /\ tx.dep \in Deposit /\ tssSign(Q, tx)
    BY <1>4, Signature
  <2> QED BY <1>0, <2>1, SignatureStep, TxFields
<1> QED BY <1>1, <1>2, <1>3, <1>4, Steps

(* What becomes of the nonces and the mempool. *)
LEMMA UseNonceStep ==
    ASSUME TypeOK, NEW p \in Pool, UseNonce(p)
    PROVE  /\ nonce'[p] = nonce[p] + 1 /\ \A q \in Pool : q # p => nonce'[q] = nonce[q]
           /\ mempool' = mempool \ Held(p, nonce[p])
           /\ UNCHANGED <<vault, lastTwoPools, item, doubted>>
           /\ \A q \in Pool : nonce[q] \in Nat /\ nonce'[q] \in Nat
BY DEF UseNonce, TypeOK

LEMMA NoncesNext == IInv /\ [Next]_vars => Nonces'
<1> SUFFICES ASSUME IInv, [Next]_vars PROVE Nonces'
  OBVIOUS
<1>0. TypeOK /\ Nonces /\ mempool \subseteq Transfer /\ paid \subseteq Transfer /\ failed \subseteq Transfer
  BY DEF IInv, TypeOK
<1>1. CASE UNCHANGED chainVars
  BY <1>0, <1>1 DEF chainVars, Nonces, Used
<1>2. ASSUME NEW p \in Pool, UseNonce(p), NEW tx, tx \in Held(p, nonce[p]),
             \/ paid' = paid \cup {tx} /\ failed' = failed
             \/ paid' = paid /\ failed' = failed \cup {tx}
             \/ paid' = paid /\ failed' = failed
      PROVE  Nonces'
  <2>1. tx \in mempool /\ tx.key = p /\ tx.nonce = nonce[p]
    BY <1>2 DEF Held
  <2>2. ASSUME NEW o \in mempool' PROVE nonce'[o.key] <= o.nonce
    <3>1. o \in mempool /\ o.key \in Pool /\ o.nonce \in Nat /\ nonce[o.key] <= o.nonce
      BY <1>0, <1>2, UseNonceStep, TxFields DEF Nonces
    <3>2. o.key = p => o.nonce # nonce[p]
      BY <1>0, <1>2, <3>1, UseNonceStep DEF Held
    <3> QED BY <1>0, <1>2, <3>1, <3>2, UseNonceStep
  <2>3. ASSUME NEW o \in paid \cup failed PROVE o.nonce < nonce'[o.key]
    <3>1. o.key \in Pool /\ o.nonce \in Nat /\ o.nonce < nonce[o.key]
      BY <1>0, TxFields DEF Nonces, Used
    <3> QED BY <1>0, <1>2, <3>1, UseNonceStep
  <2>4. tx.nonce < nonce'[tx.key]
    BY <1>0, <1>2, <2>1, UseNonceStep
  <2>5. tx \notin paid \cup failed
    BY <1>0, <2>1, <1>2, UseNonceStep DEF Nonces, Used
  <2> QED BY <1>0, <1>2, <2>2, <2>3, <2>4, <2>5 DEF Nonces, Used
<1>3. ASSUME NEW p \in Pool, OtherTransfer(p) PROVE Nonces'
  <2>1. ASSUME NEW o \in mempool' PROVE nonce'[o.key] <= o.nonce
    <3>0. UseNonce(p)
      BY <1>3 DEF OtherTransfer
    <3>1. o \in mempool /\ o.key \in Pool /\ o.nonce \in Nat /\ nonce[o.key] <= o.nonce
      BY <1>0, <3>0, UseNonceStep, TxFields DEF Nonces
    <3>2. o.key = p => o.nonce # nonce[p]
      BY <1>0, <3>0, <3>1, UseNonceStep DEF Held
    <3> QED BY <1>0, <3>0, <3>1, <3>2, UseNonceStep
  <2>2. ASSUME NEW o \in paid \cup failed PROVE o.nonce < nonce'[o.key]
    <3>1. o.key \in Pool /\ o.nonce \in Nat /\ o.nonce < nonce[o.key]
      BY <1>0, TxFields DEF Nonces, Used
    <3> QED BY <1>0, <1>3, <3>1, UseNonceStep DEF OtherTransfer
  <2> QED BY <1>0, <1>3, <2>1, <2>2 DEF OtherTransfer, Nonces, Used
<1>4. ASSUME NEW tx \in mempool, Mine(tx) \/ MineFails(tx) \/ Drop(tx) PROVE Nonces'
  <2>1. tx.key \in Pool
    BY <1>0, TxFields
  <2>2. CASE Mine(tx) \/ MineFails(tx)
    BY <1>2, <2>1, <2>2 DEF Mine, MineFails
  <2>3. CASE Drop(tx)
    BY <1>0, <2>3 DEF Drop, Nonces, Used
  <2> QED BY <1>4, <2>2, <2>3
<1>5. ASSUME NEW n \in Node, NEW d \in Deposit, OfRequest(n, d) PROVE Nonces'
  <2>1. PICK i : Becomes(n, d, i)
    BY <1>5, RequestStep
  <2>2. UNCHANGED <<nonce, paid, failed>>
    BY <2>1 DEF Becomes
  <2>3. ASSUME NEW o \in mempool', o \notin mempool
        PROVE  nonce[o.key] <= o.nonce
    <3>1. o = item[n][d].tx /\ item[n][d].at = "send" /\ ~Used(o)
      BY <2>1, <2>3 DEF Becomes
    <3>2. o.key \in Pool /\ o.nonce \in Nat
      BY <1>0, <3>1, ItemType, WorkingType
    <3> QED BY <1>0, <3>1, <3>2 DEF Used, TypeOK
  <2>4. \A o \in mempool' : nonce[o.key] <= o.nonce
    BY <1>0, <2>3 DEF Nonces
  <2> QED BY <1>0, <2>2, <2>4 DEF Nonces, Used
<1>6. (\E n \in Node : Poll(n) \/ Restart(n) \/ \E x \in {d.tx : d \in Deposit} : CheckOutBoundTx(n, x))
        \/ CreatePool \/ (\E p \in Pool : \E Q \in Quorum[p] : \E n \in Q, d \in Deposit :
                             tssSign(Q, item[n][d].tx))
      => UNCHANGED chainVars
  BY DEF Poll, Restart, CheckOutBoundTx, CreatePool, tssSign
<1> QED BY <1>1, <1>3, <1>4, <1>5, <1>6, Steps DEF OfChain, vars

-----------------------------------------------------------------------------
(* A step of the chains kills transfers and brings none to life: what they  *)
(* execute was in the mempool.                                              *)
LEMMA ChainKeeps ==
    ASSUME IInv, OfChain
    PROVE  Live' \subseteq Live /\ UNCHANGED <<item, doubted>>
<1>0. TypeOK
  BY DEF IInv
<1>1. item' = item /\ doubted' = doubted
  BY DEF OfChain, Poll, CreatePool, Mine, MineFails, Drop, OtherTransfer, UseNonce
<1>2. Signed' \subseteq Signed \cup {}
  BY <1>1 DEF Signed
<1>3. ASSUME NEW p \in Pool, UseNonce(p), paid' \subseteq paid \cup Held(p, nonce[p])
      PROVE  Live' \subseteq Live
  <2>1. mempool' \subseteq Live /\ paid' \subseteq mempool \cup paid
    BY <1>0, <1>3, UseNonceStep DEF Held, Live
  <2>2. \A q \in Pool : nonce[q] <= nonce'[q] /\ nonce'[q] \in Nat
    BY <1>0, <1>3, UseNonceStep
  <2> QED BY <1>0, <1>2, <2>1, <2>2, LiveShrinks
<1>4. ASSUME mempool' \subseteq mempool, UNCHANGED <<nonce, paid>>
      PROVE  Live' \subseteq Live
  <2>1. mempool' \subseteq Live /\ paid' \subseteq mempool \cup paid
    BY <1>4 DEF Live
  <2>2. \A q \in Pool : nonce[q] <= nonce'[q] /\ nonce'[q] \in Nat
    BY <1>0, <1>4 DEF TypeOK
  <2> QED BY <1>0, <1>2, <2>1, <2>2, LiveShrinks
<1>5. ASSUME NEW tx \in mempool, Mine(tx) \/ MineFails(tx) PROVE Live' \subseteq Live
  <2>1. tx.key \in Pool
    BY <1>0, TxFields DEF TypeOK
  <2> QED BY <1>3, <1>5, <2>1 DEF Mine, MineFails
<1>6. ASSUME NEW p \in Pool, OtherTransfer(p) PROVE Live' \subseteq Live
  BY <1>3, <1>6 DEF OtherTransfer
<1>7. ASSUME NEW tx \in mempool, Drop(tx) PROVE Live' \subseteq Live
  BY <1>4, <1>7 DEF Drop
<1>8. (\E n \in Node : Poll(n)) \/ CreatePool => Live' \subseteq Live
  BY <1>4 DEF Poll, CreatePool, chainVars
<1> QED BY <1>1, <1>5, <1>6, <1>7, <1>8 DEF OfChain

(* A request leaves its transfer only when that is dead, or in doubt.       *)
LEMMA RequestKeeps ==
    ASSUME IInv, NEW n \in Node, NEW d \in Deposit, OfRequest(n, d)
    PROVE  /\ Live' \subseteq Live /\ doubted \subseteq doubted'
           /\ \A tx \in Live' \ doubted', m \in Node : Committed(m, tx) => Committed(m, tx)'
<1>0. TypeOK
  BY DEF IInv
<1>1. PICK i : Becomes(n, d, i)
  BY RequestStep
<1>2. \A m \in Node, e \in Deposit : item'[m][e] = IF m = n /\ e = d THEN i ELSE item[m][e]
  BY <1>0, <1>1 DEF Becomes, SetItem, TypeOK
<1>3. Signed' \subseteq Signed \cup {}
  <2> SUFFICES ASSUME NEW tx \in Signed' PROVE tx \in Signed
    OBVIOUS
  <2>1. PICK m \in Node, e \in Deposit : item'[m][e].at \in {"party", "send"} /\ item'[m][e].tx = tx
    BY SignedNext
  <2>2. item[m][e].at \in {"party", "send"} /\ item[m][e].tx = tx
    BY <1>1, <1>2, <2>1 DEF Becomes
  <2> QED BY <2>2, SignedByNode
<1>4. mempool' \subseteq Live
  <2>1. item[n][d].at = "send" /\ ~Used(item[n][d].tx) => item[n][d].tx \in Live
    BY SignedByNode DEF Live
  <2> QED BY <1>1, <2>1 DEF Becomes, Live
<1>5. Live' \subseteq Live
  <2>1. paid' \subseteq mempool \cup paid /\ \A p \in Pool : nonce[p] <= nonce'[p] /\ nonce'[p] \in Nat
    BY <1>0, <1>1 DEF Becomes, TypeOK
  <2> QED BY <1>0, <1>3, <1>4, <2>1, LiveShrinks
<1>6. doubted \subseteq doubted'
  BY <1>1 DEF Becomes, Doubt
<1>7. ASSUME NEW tx \in Live' \ doubted', NEW m \in Node, Committed(m, tx)
      PROVE  Committed(m, tx)'
  <2>0. tx \in Live /\ tx.dep \in Deposit /\ tx.key \in Pool /\ tx.nonce \in Nat
    BY <1>0, <1>5, LiveType, TxFields
  <2>1. CASE m = n /\ tx.dep = d
    <3>1. item[n][d] \notin {Gone, Lost}
      BY <1>1 DEF Becomes, Gone, Lost
    <3>2. item[n][d].at \in {"party", "send", "check"} /\ item[n][d].tx = tx
      BY <1>7, <2>1, <3>1 DEF Committed
    <3>3. tx \notin failed
      <4> SUFFICES ASSUME tx \in failed PROVE FALSE
        OBVIOUS
      <4>1. Used(tx) /\ tx \notin paid
        BY DEF IInv, Nonces
      <4>2. tx \in mempool
        BY <2>0, <4>1 DEF Live
      <4> QED BY <1>0, <2>0, <4>1, <4>2 DEF IInv, Nonces, Used, TypeOK
    <3>4. ~Doubt(tx)
      BY <1>7 DEF Doubt
    <3>5. i \in {Gone, Lost} \/ (i.at \in {"send", "check"} /\ i.tx = tx)
      BY <1>1, <3>2, <3>3, <3>4 DEF Becomes
    <3> QED BY <1>2, <2>0, <2>1, <3>5 DEF Committed
  <2>2. CASE ~(m = n /\ tx.dep = d)
    BY <1>2, <1>7, <2>0, <2>2 DEF Committed
  <2> QED BY <2>1, <2>2
<1> QED BY <1>5, <1>6, <1>7

(* A restart loses requests, and a Tx event brings new ones.                *)
LEMMA NodeKeeps ==
    ASSUME IInv, NEW n \in Node,
           Restart(n) \/ \E x \in {d.tx : d \in Deposit} : CheckOutBoundTx(n, x)
    PROVE  /\ Live' \subseteq Live /\ UNCHANGED doubted
           /\ \A tx \in Live, m \in Node : Committed(m, tx) => Committed(m, tx)'
<1>0. TypeOK /\ UNCHANGED chainVars /\ UNCHANGED doubted
  BY DEF IInv, Restart, CheckOutBoundTx
<1>1. ASSUME NEW m \in Node, NEW e \in Deposit
      PROVE  \/ item'[m][e] = item[m][e]
             \/ item'[m][e] = Lost
             \/ item[m][e] = Unseen /\ (item'[m][e] = Gone \/ item'[m][e].at = "retry")
  <2>1. Restart(n) => item'[m][e] = item[m][e] \/ item'[m][e] = Lost
    BY <1>0 DEF Restart, TypeOK
  <2>2. ASSUME NEW x, CheckOutBoundTx(n, x)
        PROVE  \/ item'[m][e] = item[m][e]
               \/ item[m][e] = Unseen /\ (item'[m][e] = Gone \/ item'[m][e].at = "retry")
    BY <1>0, <2>2 DEF CheckOutBoundTx, TypeOK
  <2> QED BY <2>1, <2>2
<1>2. Signed' \subseteq Signed \cup {}
  <2> SUFFICES ASSUME NEW tx \in Signed' PROVE tx \in Signed
    OBVIOUS
  <2>1. PICK m \in Node, e \in Deposit : item'[m][e].at \in {"party", "send"} /\ item'[m][e].tx = tx
    BY SignedNext
  <2>2. item[m][e].at \in {"party", "send"} /\ item[m][e].tx = tx
    BY <1>1, <2>1 DEF Gone, Lost
  <2> QED BY <2>2, SignedByNode
<1>3. Live' \subseteq Live
  <2>1. mempool' \subseteq Live /\ paid' \subseteq mempool \cup paid
    BY <1>0 DEF Live, chainVars
  <2>2. \A p \in Pool : nonce[p] <= nonce'[p] /\ nonce'[p] \in Nat
    BY <1>0 DEF TypeOK, chainVars
  <2> QED BY <1>0, <1>2, <2>1, <2>2, LiveShrinks
<1>4. ASSUME NEW tx \in Live, NEW m \in Node, Committed(m, tx) PROVE Committed(m, tx)'
  <2>0. tx.dep \in Deposit
    BY <1>0, LiveType, TxFields
  <2>1. item[m][tx.dep] # Unseen
    BY <1>4 DEF Committed, Unseen, Gone, Lost
  <2> QED BY <1>1, <1>4, <2>0, <2>1 DEF Committed
<1> QED BY <1>0, <1>3, <1>4

(* A quorum that meets holds the deposit's request: every live transfer of  *)
(* it is in doubt.                                                          *)
LEMMA SignatureAlone ==
    ASSUME IInv, NEW tx \in Transfer, NEW Q \in Quorum[tx.key], tssSign(Q, tx),
           NEW other \in Live \ doubted
    PROVE  other.dep # tx.dep
<1> SUFFICES ASSUME other.dep = tx.dep PROVE FALSE
  OBVIOUS
<1>1. other.key \in Pool /\ tx.key \in Pool
  BY LiveType, TxFields DEF IInv
<1>2. PICK R \in Quorum[other.key] : \A m \in R : Committed(m, other)
  BY DEF IInv, Backed
<1>3. PICK m \in Q : m \in R
  BY <1>1, QuorumAssumption
<1>4. item[m][tx.dep].at = "sign"
  BY DEF tssSign, Signing
<1> QED BY <1>2, <1>3, <1>4 DEF Committed, Gone, Lost

LEMMA SignatureKeeps ==
    ASSUME IInv, NEW tx \in Transfer, NEW Q \in Quorum[tx.key], tssSign(Q, tx)
    PROVE  /\ Live' \subseteq Live \cup {tx} /\ UNCHANGED doubted
           /\ \A t \in Live \ doubted, m \in Node : Committed(m, t) => Committed(m, t)'
           /\ \A m \in Q : Committed(m, tx)'
<1>0. TypeOK /\ UNCHANGED chainVars /\ UNCHANGED doubted /\ tx.dep \in Deposit /\ tx.key \in Pool
  BY TxFields DEF IInv, tssSign
<1>1. Signed' \subseteq Signed \cup {tx}
  <2> SUFFICES ASSUME NEW t \in Signed', t # tx PROVE t \in Signed
    OBVIOUS
  <2>1. PICK n \in Node, d \in Deposit : item'[n][d].at \in {"party", "send"} /\ item'[n][d].tx = t
    BY SignedNext
  <2>2. item'[n][d] = item[n][d]
    BY <1>0, <2>1, SignatureStep
  <2> QED BY <2>1, <2>2, SignedByNode
<1>2. Live' \subseteq Live \cup {tx}
  <2>1. mempool' \subseteq Live /\ paid' \subseteq mempool \cup paid
    BY <1>0 DEF Live, chainVars
  <2>2. \A p \in Pool : nonce[p] <= nonce'[p] /\ nonce'[p] \in Nat
    BY <1>0 DEF TypeOK, chainVars
  <2> QED BY <1>0, <1>1, <2>1, <2>2, LiveShrinks
<1>3. ASSUME NEW t \in Live \ doubted, NEW m \in Node, Committed(m, t) PROVE Committed(m, t)'
  <2>1. t.dep \in Deposit /\ t.dep # tx.dep
    BY <1>0, LiveType, TxFields, SignatureAlone
  <2>2. item'[m][t.dep] = item[m][t.dep]
    BY <1>0, <2>1, SignatureStep
  <2> QED BY <1>3, <2>2 DEF Committed
<1>4. ASSUME NEW m \in Q PROVE Committed(m, tx)'
  <2>1. m \in Node
    BY <1>0, OutboundAssumption
  <2>2. item'[m][tx.dep].at = "party" /\ item'[m][tx.dep].tx = tx
    BY <1>0, <2>1, SignatureStep
  <2> QED BY <2>2 DEF Committed
<1> QED BY <1>0, <1>2, <1>3, <1>4

(* From what a step keeps to what it preserves.                             *)
LEMMA BackedKept ==
    ASSUME IInv, Live' \subseteq Live, doubted \subseteq doubted',
           \A tx \in Live' \ doubted', m \in Node : Committed(m, tx) => Committed(m, tx)'
    PROVE  Backed' /\ OneLiveUndoubted'
<1>1. ASSUME NEW tx \in Live' \ doubted'
      PROVE  \E Q \in Quorum[tx.key] : \A n \in Q : Committed(n, tx)'
  <2>1. tx \in Live \ doubted /\ tx.key \in Pool
    BY LiveType, TxFields DEF IInv
  <2>2. PICK Q \in Quorum[tx.key] : \A n \in Q : Committed(n, tx)
    BY <2>1 DEF IInv, Backed
  <2>3. Q \subseteq Node
    BY <2>1, OutboundAssumption
  <2> QED BY <2>2, <2>3
<1>2. Backed'
  BY <1>1 DEF Backed
<1>3. OneLiveUndoubted'
  BY DEF IInv, OneLiveUndoubted
<1> QED BY <1>2, <1>3

LEMMA AloneNext ==
    ASSUME IInv, [Next]_vars
    PROVE  Backed' /\ OneLiveUndoubted'
<1>1. CASE UNCHANGED vars
  <2>1. Live' = Live /\ doubted' = doubted
    BY <1>1 DEF vars, chainVars, Live, Signed, Used
  <2>2. \A tx \in Live, m \in Node : Committed(m, tx) => Committed(m, tx)'
    BY <1>1 DEF vars, Committed
  <2> QED BY <2>1, <2>2, BackedKept
<1>2. CASE OfChain
  <2>1. Live' \subseteq Live /\ UNCHANGED <<item, doubted>>
    BY <1>2, ChainKeeps
  <2>2. \A tx \in Live, m \in Node : Committed(m, tx) => Committed(m, tx)'
    BY <2>1 DEF Committed
  <2> QED BY <2>1, <2>2, BackedKept
<1>3. ASSUME NEW n \in Node, NEW d \in Deposit, OfRequest(n, d)
      PROVE  Backed' /\ OneLiveUndoubted'
  BY <1>3, RequestKeeps, BackedKept
<1>4. ASSUME NEW n \in Node,
             Restart(n) \/ \E x \in {d.tx : d \in Deposit} : CheckOutBoundTx(n, x)
      PROVE  Backed' /\ OneLiveUndoubted'
  BY <1>4, NodeKeeps, BackedKept
<1>5. ASSUME NEW p \in Pool, NEW Q \in Quorum[p], NEW n \in Q, NEW d \in Deposit,
             item[n][d].at = "sign", item[n][d].tx.key = p, tssSign(Q, item[n][d].tx)
      PROVE  Backed' /\ OneLiveUndoubted'
  <2>1. PICK tx \in Transfer : Q \in Quorum[tx.key] /\ tssSign(Q, tx)
    BY <1>5, Signature
  <2>2. /\ Live' \subseteq Live \cup {tx} /\ doubted' = doubted
        /\ \A t \in Live \ doubted, m \in Node : Committed(m, t) => Committed(m, t)'
        /\ \A m \in Q : Committed(m, tx)'
    BY <2>1, SignatureKeeps
  <2>3. Backed'
    <3> SUFFICES ASSUME NEW t \in Live' \ doubted
                 PROVE  \E R \in Quorum[t.key] : \A m \in R : Committed(m, t)'
      BY <2>2 DEF Backed
    <3>1. CASE t = tx
      BY <2>1, <2>2, <3>1
    <3>2. CASE t \in Live
      <4>1. PICK R \in Quorum[t.key] : \A m \in R : Committed(m, t)
        BY <3>2 DEF IInv, Backed
      <4>2. R \subseteq Node
        BY <3>2, LiveType, TxFields, OutboundAssumption DEF IInv
      <4> QED BY <2>2, <3>2, <4>1, <4>2
    <3> QED BY <2>2, <3>1, <3>2
  <2>4. \A t \in Live \ doubted : t.dep # tx.dep
    BY <2>1, SignatureAlone
  <2>5. OneLiveUndoubted'
    BY <2>2, <2>4 DEF IInv, OneLiveUndoubted
  <2> QED BY <2>3, <2>5
<1> QED BY <1>1, <1>2, <1>3, <1>4, <1>5, Steps

LEMMA IInvNext == IInv /\ [Next]_vars => IInv'
<1> SUFFICES ASSUME IInv, [Next]_vars PROVE IInv'
  OBVIOUS
<1>1. TypeOK' /\ CacheKnown'
  BY TypeNext, CacheKnownNext DEF IInv
<1>2. OwnDeposit' /\ Nonces'
  BY OwnDepositNext, NoncesNext
<1>3. Backed' /\ OneLiveUndoubted'
  BY AloneNext
<1> QED BY <1>1, <1>2, <1>3 DEF IInv

LEMMA Invariant == Spec => []IInv
BY InitIInv, IInvNext, PTL DEF Spec

-----------------------------------------------------------------------------
(* The caches, requests and transfers of all nodes keep their types, also   *)
(* through restarts and every fault of the public chain.                    *)
THEOREM OutboundType == Spec => []TypeOK
<1>1. IInv => TypeOK
  BY DEF IInv
<1> QED BY <1>1, Invariant, PTL

(* Whatever fails, a request is signed for again only when its earlier      *)
(* transfers are dead, or one of them is in doubt: that KeySign or the      *)
(* broadcast answers a signer with an error is the only way to two live     *)
(* transfers.                                                               *)
THEOREM OutboundOneLive == Spec => []OneLiveUndoubted
<1>1. IInv => OneLiveUndoubted
  BY DEF IInv
<1> QED BY <1>1, Invariant, PTL

(* A step is a payment, a doubt, or nothing, to Payout.                     *)
LEMMA MinePays ==
    ASSUME IInv, NEW tx \in mempool, Mine(tx)
    PROVE  \E r \in Deposit, by \in Pool \X (0..(MaxNonce - 1)) : Promise!Pay(r, by)
<1> DEFINE by == <<tx.key, tx.nonce>>
<1>1. tx \in Transfer /\ tx.dep \in Deposit /\ tx.key \in Pool
  BY TxFields DEF IInv, TypeOK
<1>2. tx.nonce \in 0..(MaxNonce - 1) /\ paid' = paid \cup {tx} /\ doubted' = doubted
  BY <1>1, OutboundAssumption DEF Mine, UseNonce, Held, IInv, TypeOK
<1>3. tx \notin paid
  BY <1>1, TxFields DEF Mine, Held, IInv, TypeOK, Nonces, Used
<1>4. tx.dep \in InDoubt \/ \A t \in paid : t.dep # tx.dep
  <2> SUFFICES ASSUME NEW t \in paid, t.dep = tx.dep PROVE tx.dep \in InDoubt
    OBVIOUS
  <2>1. tx \in doubted \/ t \in doubted
    BY <1>3 DEF IInv, OneLiveUndoubted, Live
  <2> QED BY <2>1 DEF InDoubt
<1>5. tx.dep \in InDoubt \/ \A m \in Receipts : m.req # tx.dep
  BY <1>4 DEF Receipts
<1>6. Receipts' = Receipts \cup {[req |-> tx.dep, by |-> by]}
  BY <1>2 DEF Receipts
<1>7. InDoubt' = InDoubt
  BY <1>2 DEF InDoubt
<1>8. Promise!Pay(tx.dep, by)
  BY <1>5, <1>6, <1>7 DEF Promise!Pay
<1> QED BY <1>1, <1>2, <1>8

LEMMA RequestDoubts ==
    ASSUME IInv, NEW n \in Node, NEW d \in Deposit, OfRequest(n, d)
    PROVE  UNCHANGED <<Receipts, InDoubt>> \/ \E r \in Deposit : Promise!Doubt(r)
<1>1. PICK i : Becomes(n, d, i)
  BY RequestStep
<1>2. Receipts' = Receipts
  BY <1>1 DEF Becomes, Receipts
<1>3. CASE doubted' = doubted
  BY <1>2, <1>3 DEF InDoubt
<1>4. CASE item[n][d].at \in {"party", "send"} /\ Doubt(item[n][d].tx)
  <2> DEFINE tx == item[n][d].tx
  <2>1. tx.dep \in Deposit
    BY <1>4, ItemType, WorkingType DEF IInv
  <2>2. doubted' = doubted \/ doubted' = doubted \cup {tx}
    BY <1>4 DEF Doubt
  <2>3. InDoubt' = InDoubt \/ InDoubt' = InDoubt \cup {tx.dep}
    BY <2>2 DEF InDoubt
  <2> QED BY <1>2, <2>1, <2>3 DEF Promise!Doubt
<1> QED BY <1>1, <1>3, <1>4 DEF Becomes

(* Outbound transfers implement Payout: the step that pays a deposit finds  *)
(* it unpaid, unless a signer was told of an error about a transfer of it   *)
(* that was executed, or could still be.                                    *)
THEOREM OutboundPayout == Spec => PaidUnlessDoubted
<1>1. Init => Promise!Init
  BY DEF Init, Promise!Init, Receipts, InDoubt
<1>2. ASSUME IInv, [Next]_vars PROVE [Promise!Next]_<<Receipts, InDoubt>>
  <2>1. (\E tx \in mempool : Mine(tx)) => Promise!Next
    BY <1>2, MinePays DEF Promise!Next
  <2>2. (\E n \in Node, d \in Deposit : OfRequest(n, d))
          => UNCHANGED <<Receipts, InDoubt>> \/ Promise!Next
    BY <1>2, RequestDoubts DEF Promise!Next
  <2>3. OfChain /\ (\A tx \in mempool : ~Mine(tx)) => UNCHANGED <<paid, doubted>>
    BY DEF OfChain, Poll, CreatePool, MineFails, Drop, OtherTransfer, UseNonce, chainVars
  <2>4. (\E n \in Node : Restart(n) \/ \E x \in {d.tx : d \in Deposit} : CheckOutBoundTx(n, x))
          \/ (\E p \in Pool : \E Q \in Quorum[p] : \E n \in Q, d \in Deposit :
                tssSign(Q, item[n][d].tx))
        => UNCHANGED <<paid, doubted>>
    BY DEF Restart, CheckOutBoundTx, tssSign, chainVars
  <2>5. UNCHANGED <<paid, doubted>> => UNCHANGED <<Receipts, InDoubt>>
    BY DEF Receipts, InDoubt
  <2> QED BY <1>2, <2>1, <2>2, <2>3, <2>4, <2>5, Steps DEF vars, chainVars
<1> QED BY <1>1, <1>2, Invariant, PTL DEF Spec, PaidUnlessDoubted, Promise!Spec
=============================================================================

--------------------------- MODULE TssPoolProofs ---------------------------
(***************************************************************************)
(* Proofs about the announcement of pools, for every set of validators,    *)
(* every fault and any number of blocks and updates: types, the order of   *)
(* the scheduled messages, that a message is scheduled for a block to      *)
(* come, and, for a node that misses no update, that it follows the        *)
(* validators of the chain.                                                *)
(***************************************************************************)
EXTENDS TssPool, TLAPS

LEMMA TailType ==
    ASSUME NEW S, NEW s \in Seq(S), s # <<>>
    PROVE  /\ Tail(s) \in Seq(S) /\ Head(s) \in S
           /\ Len(s) \in Nat /\ Len(s) > 0 /\ Len(Tail(s)) = Len(s) - 1
           /\ \A i \in 1..Len(Tail(s)) : Tail(s)[i] = s[i + 1]
           /\ Head(s) = s[1]
OBVIOUS

LEMMA AppendType ==
    ASSUME NEW S, NEW s \in Seq(S), NEW e \in S
    PROVE  /\ Append(s, e) \in Seq(S) /\ Len(Append(s, e)) = Len(s) + 1
           /\ Len(s) \in Nat
           /\ \A i \in 1..Len(s) : Append(s, e)[i] = s[i]
           /\ Append(s, e)[Len(s) + 1] = e
OBVIOUS

-----------------------------------------------------------------------------
(* The inductive invariant.  The heights order what the loop knows: blocks  *)
(* handled, the block of the set and the messages are not ahead of the      *)
(* chain, and while a key is being generated no block is handled.           *)
Heights ==
    /\ handled <= height /\ setHeight <= height
    /\ pc = "keygen" => phase = "running" /\ handled <= setHeight
    /\ \A i \in 1..Len(msgSendCache) : msgSendCache[i].height <= setHeight + 1

IInv == TypeOK /\ Heights /\ CacheSorted

LEMMA MsgHeights ==
    ASSUME TypeOK
    PROVE  \A i \in 1..Len(msgSendCache) : msgSendCache[i].height \in Nat
<1>1. \A i \in 1..Len(msgSendCache) : msgSendCache[i] \in Msg
  BY DEF TypeOK
<1> QED BY <1>1 DEF Msg

LEMMA InitIInv == Init => IInv
<1> SUFFICES ASSUME Init PROVE IInv
  OBVIOUS
<1>1. TypeOK
  <2>1. missed \in BOOLEAN
    BY DEF Init
  <2>2. valChan \in Seq(Update) /\ msgSendCache \in Seq(Msg)
    BY DEF Init
  <2> QED BY <2>1, <2>2 DEF Init, TypeOK
<1>2. Heights /\ CacheSorted
  BY DEF Init, Heights, CacheSorted
<1> QED BY <1>1, <1>2 DEF IInv

(* Taking the oldest message away keeps what is said of the others. *)
LEMMA TailKeeps ==
    ASSUME IInv, msgSendCache # <<>>, msgSendCache' = Tail(msgSendCache),
           setHeight' = setHeight
    PROVE  /\ msgSendCache' \in Seq(Msg)
           /\ CacheSorted'
           /\ \A i \in 1..Len(msgSendCache') : msgSendCache'[i].height <= setHeight' + 1
<1>1. msgSendCache \in Seq(Msg)
  BY DEF IInv, TypeOK
<1>2. /\ msgSendCache' \in Seq(Msg) /\ Len(msgSendCache) \in Nat
      /\ Len(msgSendCache') = Len(msgSendCache) - 1
      /\ \A i \in 1..Len(msgSendCache') : msgSendCache'[i] = msgSendCache[i + 1]
  BY <1>1, TailType
<1>3. \A i \in 1..Len(msgSendCache') : i + 1 \in 1..Len(msgSendCache)
  BY <1>2
<1>4. CacheSorted'
  BY <1>2, <1>3 DEF IInv, CacheSorted
<1>5. \A i \in 1..Len(msgSendCache') : msgSendCache'[i].height <= setHeight' + 1
  BY <1>2, <1>3 DEF IInv, Heights
<1> QED BY <1>2, <1>4, <1>5

(* The scheduled message comes last, and not before the ones there. *)
LEMMA KeyGenDoneKeeps ==
    ASSUME IInv, KeyGenDone
    PROVE  /\ msgSendCache' \in Seq(Msg)
           /\ Len(msgSendCache) \in Nat
           /\ Len(msgSendCache') = Len(msgSendCache) + 1
           /\ msgSendCache'[Len(msgSendCache')].height = setHeight + 1
           /\ CacheSorted'
           /\ \A i \in 1..Len(msgSendCache') : msgSendCache'[i].height <= setHeight' + 1
<1> DEFINE m == [pool |-> keys + 1, seq |-> accSeq, height |-> setHeight + 1]
<1>1. /\ msgSendCache \in Seq(Msg) /\ m \in Msg
      /\ msgSendCache' = Append(msgSendCache, m) /\ setHeight' = setHeight
      /\ setHeight \in Nat
  BY DEF IInv, TypeOK, KeyGenDone, prepareTssPool, Msg
<1>2. /\ msgSendCache' \in Seq(Msg) /\ Len(msgSendCache) \in Nat
      /\ Len(msgSendCache') = Len(msgSendCache) + 1
      /\ \A i \in 1..Len(msgSendCache) : msgSendCache'[i] = msgSendCache[i]
      /\ msgSendCache'[Len(msgSendCache) + 1] = m
  BY <1>1, AppendType
<1>3. m.height = setHeight + 1
  OBVIOUS
<1> HIDE DEF m
<1>4. \A i \in 1..Len(msgSendCache') : msgSendCache'[i].height <= setHeight' + 1
  BY <1>1, <1>2, <1>3 DEF IInv, Heights
<1>5. CacheSorted'
  BY <1>1, <1>2, <1>3, <1>4 DEF IInv, CacheSorted
<1> QED BY <1>2, <1>3, <1>4, <1>5

LEMMA NextIInv == IInv /\ [Next]_vars => IInv'
<1> SUFFICES ASSUME IInv, [Next]_vars PROVE IInv'
  OBVIOUS
<1> USE DEF IInv
<1>1. CASE CommitBlock
  <2>1. TypeOK'
    BY <1>1 DEF CommitBlock, TypeOK, loopVars
  <2>2. Heights' /\ CacheSorted'
    BY <1>1 DEF CommitBlock, TypeOK, Heights, CacheSorted, loopVars
  <2> QED BY <2>1, <2>2
<1>2. ASSUME NEW u \in Update, CommitUpdate(u) PROVE IInv'
  <2>1. u.join \subseteq Validator /\ u.leave \subseteq Validator
    BY DEF Update
  <2>2. valChan' \in Seq(Update)
    BY <1>2, AppendType DEF CommitUpdate, TypeOK
  <2>3. TypeOK'
    BY <1>2, <2>1, <2>2 DEF CommitUpdate, TypeOK
  <2>4. Heights' /\ CacheSorted'
    BY <1>2 DEF CommitUpdate, TypeOK, Heights, CacheSorted
  <2> QED BY <2>3, <2>4
<1>3. CASE InitValidators
  <2>1. TypeOK'
    BY <1>3 DEF InitValidators, TypeOK, chainVars
  <2>2. Heights' /\ CacheSorted'
    BY <1>3, MsgHeights DEF InitValidators, TypeOK, Heights, CacheSorted, chainVars
  <2> QED BY <2>1, <2>2
<1>4. CASE AddSubscribe
  <2>1. TypeOK'
    BY <1>4 DEF AddSubscribe, TypeOK, chainVars
  <2>2. Heights' /\ CacheSorted'
    BY <1>4 DEF AddSubscribe, TypeOK, Heights, CacheSorted, chainVars
  <2> QED BY <2>1, <2>2
<1>5. CASE UpdateDropped
  <2>1. TypeOK'
    BY <1>5, TailType DEF UpdateDropped, TypeOK, chainVars
  <2>2. Heights' /\ CacheSorted'
    BY <1>5 DEF UpdateDropped, Heights, CacheSorted, chainVars
  <2> QED BY <2>1, <2>2
<1>6. CASE HandleUpdateValidators
  <2>1. Tail(valChan) \in Seq(Update) /\ Head(valChan) \in Update
    BY <1>6, TailType DEF HandleUpdateValidators, TypeOK
  <2>2. active' \subseteq Validator
    BY <1>6, <2>1 DEF HandleUpdateValidators, UpdateValidatorSet, Update, TypeOK
  <2>3. TypeOK'
    BY <1>6, <2>1, <2>2 DEF HandleUpdateValidators, TypeOK, chainVars
  <2>4. Heights'
    <3>1. /\ height' = height /\ setHeight' = height /\ handled' = handled
          /\ phase' = "running" /\ msgSendCache' = msgSendCache
      BY <1>6 DEF HandleUpdateValidators, Idle, chainVars
    <3> QED BY <3>1, MsgHeights DEF TypeOK, Heights
  <2>5. CacheSorted'
    BY <1>6 DEF HandleUpdateValidators, CacheSorted
  <2> QED BY <2>3, <2>4, <2>5
<1>7. CASE KeyGenFails
  <2>1. TypeOK'
    BY <1>7 DEF KeyGenFails, TypeOK, chainVars
  <2>2. Heights' /\ CacheSorted'
    BY <1>7 DEF KeyGenFails, Heights, CacheSorted, chainVars
  <2> QED BY <2>1, <2>2
<1>8. CASE KeyGenDone
  <2>1. TypeOK'
    BY <1>8, KeyGenDoneKeeps DEF KeyGenDone, TypeOK, chainVars
  <2>2. Heights'
    BY <1>8, KeyGenDoneKeeps DEF KeyGenDone, Heights, chainVars
  <2>3. CacheSorted'
    BY <1>8, KeyGenDoneKeeps
  <2> QED BY <2>1, <2>2, <2>3
<1>9. CASE BlockNoMessage \/ GasEstimationFails
  <2>1. TypeOK'
    <3>1. NextBlock /\ UNCHANGED <<accSeq, registered, msgSendCache>>
      BY <1>9 DEF BlockNoMessage, GasEstimationFails
    <3> QED BY <3>1 DEF NextBlock, TypeOK, chainVars
  <2>2. Heights' /\ CacheSorted'
    BY <1>9 DEF BlockNoMessage, GasEstimationFails, NextBlock, Idle, TypeOK, Heights,
        CacheSorted, chainVars
  <2> QED BY <2>1, <2>2
<1>10. CASE BroadcastFails \/ BroadcastDone
  <2>1. msgSendCache # <<>> /\ msgSendCache' = Tail(msgSendCache) /\ setHeight' = setHeight
    BY <1>10 DEF BroadcastFails, BroadcastDone, NextBlock, HeadMatches
  <2>2. Head(msgSendCache).pool \in Nat
    <3>1. Head(msgSendCache) \in Msg
      BY <2>1, TailType DEF TypeOK
    <3> QED BY <3>1 DEF Msg
  <2>3. accSeq' \in Nat /\ registered' \subseteq Nat
    <3>1. \/ accSeq' = accSeq /\ registered' = registered
          \/ accSeq' = accSeq + 1 /\ registered' = registered \cup {Head(msgSendCache).pool}
      BY <1>10 DEF BroadcastFails, BroadcastDone
    <3>2. accSeq \in Nat /\ registered \subseteq Nat
      BY DEF TypeOK
    <3>3. accSeq' \in Nat
      BY <3>1, <3>2
    <3>4. registered' \subseteq Nat
      BY <2>2, <3>1, <3>2
    <3> QED BY <3>3, <3>4
  <2>4. msgSendCache' \in Seq(Msg) /\ CacheSorted'
    BY <2>1, TailKeeps
  <2>5. TypeOK'
    BY <1>10, <2>3, <2>4 DEF BroadcastFails, BroadcastDone, NextBlock, TypeOK, chainVars
  <2>6. Heights'
    BY <1>10, <2>1, TailKeeps DEF BroadcastFails, BroadcastDone, NextBlock, Idle, TypeOK,
        Heights, chainVars
  <2> QED BY <2>4, <2>5, <2>6
<1>11. CASE UNCHANGED vars
  BY <1>11 DEF vars, chainVars, loopVars, TypeOK, Heights, CacheSorted
<1> QED BY <1>1, <1>2, <1>3, <1>4, <1>5, <1>6, <1>7, <1>8, <1>9, <1>10, <1>11 DEF Next

LEMMA Invariance == Spec => []IInv
BY InitIInv, NextIInv, PTL DEF Spec

(* Every variable of the announcement of pools keeps its type, whatever     *)
(* fails.                                                                   *)
THEOREM TssPoolType == Spec => []TypeOK
<1>1. IInv => TypeOK
  BY DEF IInv
<1> QED BY <1>1, Invariance, PTL

(* The messages of msgSendCache are always in the order of their blocks, as *)
(* CheckAndUpdatePool, which looks at the first one only, relies on.        *)
THEOREM TssPoolCacheSorted == Spec => []CacheSorted
<1>1. IInv => CacheSorted
  BY DEF IInv
<1> QED BY <1>1, Invariance, PTL

(* A message is scheduled for a block the loop has not handled yet, however *)
(* many blocks were committed before the update was handled and while the   *)
(* key was generated.                                                       *)
THEOREM TssPoolScheduledAhead == Spec => ScheduledAhead
<1> DEFINE A == Len(msgSendCache') > Len(msgSendCache) =>
                    msgSendCache'[Len(msgSendCache')].height > handled'
<1>1. IInv /\ [Next]_vars => [A]_vars
  <2> SUFFICES ASSUME IInv, [Next]_vars PROVE A
    OBVIOUS
  <2>1. CASE KeyGenDone
    <3>1. msgSendCache'[Len(msgSendCache')].height = setHeight + 1
      BY <2>1, KeyGenDoneKeeps
    <3>2. handled' = handled /\ handled <= setHeight
      BY <2>1 DEF KeyGenDone, IInv, Heights
    <3>3. handled \in Nat /\ setHeight \in Nat
      BY DEF IInv, TypeOK
    <3> QED BY <3>1, <3>2, <3>3
  <2>2. CASE BroadcastFails \/ BroadcastDone
    <3>1. msgSendCache \in Seq(Msg) /\ msgSendCache # <<>> /\ msgSendCache' = Tail(msgSendCache)
      BY <2>2 DEF BroadcastFails, BroadcastDone, HeadMatches, IInv, TypeOK
    <3> QED BY <3>1, TailType
  <2>3. CASE ~KeyGenDone /\ ~(BroadcastFails \/ BroadcastDone)
    <3>1. msgSendCache' = msgSendCache
      BY <2>3 DEF Next, vars, CommitBlock, CommitUpdate, InitValidators, AddSubscribe,
          UpdateDropped, HandleUpdateValidators, KeyGenFails, BlockNoMessage,
          GasEstimationFails
    <3>2. Len(msgSendCache) \in Nat
      BY DEF IInv, TypeOK
    <3> QED BY <3>1, <3>2
  <2> QED BY <2>1, <2>2, <2>3
<1> QED BY <1>1, Invariance, PTL DEF Spec, ScheduledAhead

-----------------------------------------------------------------------------
(* As long as no update was missed: of the updates still in the channel, the  *)
(* last one that names a validator says whether it is in the set of the     *)
(* chain; the node's own set is right about the validators none names.      *)
Named(i, v) == v \in valChan[i].join \cup valChan[i].leave
LastNamed(i, v) ==
    Named(i, v) /\ \A k \in 1..Len(valChan) : i < k => ~Named(k, v)
ChannelTellsSet ==
    \A v \in Validator :
        /\ \A i \in 1..Len(valChan) :
                LastNamed(i, v) => (v \in chainVals <=> v \in valChan[i].join)
        /\ (\A i \in 1..Len(valChan) : ~Named(i, v)) =>
                (v \in chainVals <=> v \in active)
Tracking ==
    /\ phase # "running" => valChan = <<>>
    /\ phase # "start" /\ ~missed => ChannelTellsSet
    /\ phase = "start" => ~missed

(* The chain appends an update: what the older ones say of the validators   *)
(* it names is superseded.                                                  *)
LEMMA AppendTells ==
    ASSUME TypeOK, ChannelTellsSet, NEW u \in Update, u.join \cap u.leave = {},
           valChan' = Append(valChan, u), active' = active,
           chainVals' = (chainVals \ u.leave) \cup u.join
    PROVE  ChannelTellsSet'
<1>n. PICK n \in Nat : n = Len(valChan)
  BY DEF TypeOK
<1>1. /\ n \in Nat /\ Len(valChan') = n + 1 /\ valChan'[n + 1] = u
      /\ \A i \in 1..n : valChan'[i] = valChan[i]
  BY <1>n, AppendType DEF TypeOK
<1> SUFFICES ASSUME NEW v \in Validator
             PROVE  /\ \A i \in 1..Len(valChan') :
                            LastNamed(i, v)' => (v \in chainVals' <=> v \in valChan'[i].join)
                    /\ (\A i \in 1..Len(valChan') : ~Named(i, v)') =>
                            (v \in chainVals' <=> v \in active')
  BY DEF ChannelTellsSet
<1>2. CASE v \in u.join \cup u.leave
  <2>1. Named(n + 1, v)'
    BY <1>1, <1>2 DEF Named
  <2>2. \A i \in 1..Len(valChan') : LastNamed(i, v)' => i = n + 1
    BY <1>1, <2>1 DEF LastNamed
  <2>3. v \in chainVals' <=> v \in u.join
    BY <1>2
  <2> QED BY <1>1, <2>1, <2>2, <2>3
<1>3. CASE v \notin u.join \cup u.leave
  <2>1. ~Named(n + 1, v)' /\ \A i \in 1..n : Named(i, v)' <=> Named(i, v)
    BY <1>1, <1>3 DEF Named
  <2>2. v \in chainVals' <=> v \in chainVals
    BY <1>3
  <2>3. ASSUME NEW i \in 1..Len(valChan'), LastNamed(i, v)'
        PROVE  v \in chainVals' <=> v \in valChan'[i].join
    <3>1. i \in 1..n
      BY <1>1, <2>1, <2>3 DEF LastNamed
    <3>2. LastNamed(i, v)
      BY <1>n, <1>1, <2>1, <2>3, <3>1 DEF LastNamed
    <3> QED BY <1>n, <1>1, <2>2, <3>1, <3>2 DEF ChannelTellsSet
  <2>4. ASSUME \A i \in 1..Len(valChan') : ~Named(i, v)'
        PROVE  v \in chainVals' <=> v \in active'
    BY <1>n, <1>1, <2>1, <2>2, <2>4 DEF ChannelTellsSet
  <2> QED BY <2>3, <2>4
<1> QED BY <1>2, <1>3

(* The node applies the oldest update: its set is right about the           *)
(* validators that update names, unless a later one names them too.         *)
LEMMA TailTells ==
    ASSUME TypeOK, ChannelTellsSet, valChan # <<>>, valChan' = Tail(valChan),
           active' = UpdateValidatorSet(active, Head(valChan)), chainVals' = chainVals
    PROVE  ChannelTellsSet'
<1>n. PICK n \in Nat : n = Len(valChan)
  BY DEF TypeOK
<1>1. /\ n \in Nat /\ n > 0 /\ Len(valChan') = n - 1 /\ Head(valChan) = valChan[1]
      /\ \A i \in 1..Len(valChan') : valChan'[i] = valChan[i + 1]
  BY <1>n, TailType DEF TypeOK
<1> SUFFICES ASSUME NEW v \in Validator
             PROVE  /\ \A i \in 1..Len(valChan') :
                            LastNamed(i, v)' => (v \in chainVals' <=> v \in valChan'[i].join)
                    /\ (\A i \in 1..Len(valChan') : ~Named(i, v)') =>
                            (v \in chainVals' <=> v \in active')
  BY DEF ChannelTellsSet
<1>2. \A i \in 1..Len(valChan') : i + 1 \in 1..n /\ (Named(i, v)' <=> Named(i + 1, v))
  BY <1>1 DEF Named
<1>3. ASSUME NEW i \in 1..Len(valChan'), LastNamed(i, v)'
      PROVE  v \in chainVals' <=> v \in valChan'[i].join
  <2>1. \A k \in 1..n : i + 1 < k => k - 1 \in 1..Len(valChan') /\ i < k - 1 /\ k - 1 + 1 = k
    BY <1>1
  <2>2. LastNamed(i + 1, v)
    <3>1. Named(i + 1, v)
      BY <1>2, <1>3 DEF LastNamed
    <3>2. \A m \in 1..Len(valChan') : i < m => ~Named(m, v)'
      BY <1>3 DEF LastNamed
    <3>3. \A k \in 1..n : i + 1 < k => ~Named(k, v)
      BY <1>2, <2>1, <3>2
    <3> QED BY <1>n, <3>1, <3>3 DEF LastNamed
  <2> QED BY <1>n, <1>1, <1>2, <2>2 DEF ChannelTellsSet
<1>4. ASSUME \A i \in 1..Len(valChan') : ~Named(i, v)'
      PROVE  v \in chainVals' <=> v \in active'
  <2>1. \A k \in 1..n : k # 1 => k - 1 \in 1..Len(valChan') /\ k - 1 + 1 = k
    BY <1>1
  <2>2. \A k \in 1..n : k # 1 => ~Named(k, v)
    BY <1>2, <1>4, <2>1
  <2>3. 1 \in 1..n
    BY <1>1
  <2>4. CASE Named(1, v)
    <3>1. LastNamed(1, v)
      BY <1>n, <2>2, <2>4, <1>1 DEF LastNamed
    <3>2. v \in chainVals <=> v \in valChan[1].join
      BY <1>n, <2>3, <3>1 DEF ChannelTellsSet
    <3> QED BY <1>1, <2>4, <3>2 DEF UpdateValidatorSet, Named
  <2>5. CASE ~Named(1, v)
    <3>1. v \in chainVals <=> v \in active
      BY <1>n, <2>2, <2>3, <2>5 DEF ChannelTellsSet
    <3> QED BY <1>1, <2>5, <3>1 DEF UpdateValidatorSet, Named
  <2> QED BY <2>4, <2>5
<1> QED BY <1>3, <1>4

LEMMA TrackingStep ==
    ASSUME IInv, Tracking, [Next]_vars
    PROVE  Tracking'
<1> USE DEF IInv
<1>1. ASSUME NEW u \in Update, CommitUpdate(u) PROVE Tracking'
  <2>1. CASE phase = "running"
    <3>1. phase' = "running" /\ valChan' = Append(valChan, u)
      BY <1>1, <2>1 DEF CommitUpdate
    <3>2. ~missed' => ~missed
      BY <1>1 DEF CommitUpdate, TypeOK
    <3>3. ~missed => ChannelTellsSet'
      BY <1>1, <2>1, <3>1, AppendTells DEF CommitUpdate, Tracking
    <3> QED BY <3>1, <3>2, <3>3 DEF Tracking
  <2>2. CASE phase = "ready"
    <3>1. phase' = phase /\ valChan' = valChan /\ missed'
      BY <1>1, <2>2 DEF CommitUpdate, TypeOK
    <3> QED BY <2>2, <3>1 DEF Tracking
  <2>3. CASE phase = "start"
    <3>1. phase' = phase /\ valChan' = valChan /\ (missed' <=> missed)
      BY <1>1, <2>3 DEF CommitUpdate, TypeOK
    <3> QED BY <2>3, <3>1 DEF Tracking
  <2> QED BY <2>1, <2>2, <2>3 DEF TypeOK
<1>2. CASE InitValidators
  BY <1>2 DEF InitValidators, Tracking, ChannelTellsSet, Named, LastNamed, chainVars
<1>3. CASE AddSubscribe
  BY <1>3 DEF AddSubscribe, Tracking, ChannelTellsSet, Named, LastNamed, chainVars
<1>4. CASE HandleUpdateValidators
  <2>1. phase = "running" /\ phase' = phase
    BY <1>4 DEF HandleUpdateValidators, Idle
  <2>2. ~missed => ChannelTellsSet'
    BY <1>4, <2>1, TailTells DEF HandleUpdateValidators, Tracking, chainVars
  <2>3. missed' = missed
    BY <1>4 DEF HandleUpdateValidators
  <2> QED BY <2>1, <2>2, <2>3 DEF Tracking
<1>5. CASE UpdateDropped
  <2>1. phase = "running" /\ phase' = phase /\ missed'
    BY <1>5 DEF UpdateDropped, Idle
  <2> QED BY <2>1 DEF Tracking
<1>6. CASE ~(\E u \in Update : CommitUpdate(u)) /\ ~InitValidators /\ ~AddSubscribe
           /\ ~HandleUpdateValidators /\ ~UpdateDropped
  <2>1. UNCHANGED <<phase, valChan, chainVals, active, missed>>
    BY <1>6 DEF Next, vars, CommitBlock, KeyGenFails, KeyGenDone,
        BlockNoMessage, GasEstimationFails, BroadcastFails, BroadcastDone, NextBlock,
        chainVars, loopVars
  <2> QED BY <2>1 DEF Tracking, ChannelTellsSet, Named, LastNamed
<1> QED BY <1>1, <1>2, <1>3, <1>4, <1>5, <1>6

(* A node that missed no update, before its subscription or by a failing    *)
(* height query, knows the validators of the chain whenever it has handled  *)
(* the updates it was sent, whatever key generations and broadcasts fail.   *)
THEOREM TssPoolValidatorsTracked == Spec => []ValidatorsTracked
<1>1. Init => Tracking
  BY DEF Init, Tracking
<1>2. IInv /\ Tracking /\ [Next]_vars => Tracking'
  BY TrackingStep
<1>3. Tracking /\ IInv => ValidatorsTracked
  <2> SUFFICES ASSUME Tracking, IInv, phase = "running", valChan = <<>>, ~missed
               PROVE  active = chainVals
    BY DEF ValidatorsTracked
  <2>1. \A v \in Validator : v \in chainVals <=> v \in active
    BY DEF Tracking, ChannelTellsSet
  <2> QED BY <2>1 DEF IInv, TypeOK
<1> QED BY <1>1, <1>2, <1>3, Invariance, PTL DEF Spec
=============================================================================

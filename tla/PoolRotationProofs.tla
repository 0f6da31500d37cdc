------------------------- MODULE PoolRotationProofs -------------------------
(***************************************************************************)
(* Proofs about pool rotation, for every number of pools and every balance *)
(* of them.  For every pace of the rotations (also the paces at which one  *)
(* is missed): type correctness, that the newest pool is never scheduled   *)
(* to be emptied, and that funds only move to newer pools.  When the node  *)
(* sees each rotation: that the cache settles in one poll.  When each      *)
(* rotation is over before the next: that no pool with a balance is        *)
(* forgotten on either chain.                                              *)
(***************************************************************************)
EXTENDS PoolRotation, TLAPS

LEMMA AddMoveFundItemType ==
    ASSUME NEW m, m \subseteq MoveReq, NEW p \in Pool, NEW h \in Int
    PROVE  AddMoveFundItem(m, p, h) \subseteq MoveReq
BY DEF AddMoveFundItem, MoveReq

(* What the map holds after a Store was there, or is what was stored. *)
LEMMA AddMoveFundItemPools ==
    ASSUME NEW m, NEW p, NEW h, NEW q \in Queued(AddMoveFundItem(m, p, h))
    PROVE  q \in Queued(m) \/ q = p
BY DEF AddMoveFundItem, Queued

LEMMA DueInMap ==
    ASSUME NEW m, NEW h, NEW e \in Due(m, h)
    PROVE  e \in m /\ e.pool \in Queued(m)
BY DEF Due, Queued

(* With two pools created, the vault answers with its newest two. *)
LEMMA QueryAnswer ==
    ASSUME vault \in Seq(Pool), Len(vault) >= 2
    PROVE  /\ QueryLastPoolAddress(vault) = <<Newest, vault[Len(vault) - 1]>>
           /\ Newest \in Pool /\ vault[Len(vault) - 1] \in Pool
BY DEF QueryLastPoolAddress, Newest

-----------------------------------------------------------------------------
(* The inductive invariant.  Pools are created once; the cache holds        *)
(* created pools and is filled in one turn; and every pool scheduled to be  *)
(* emptied is older than the pool in the newest slot, which is what makes   *)
(* the newest slot a safe destination on the public chain.                  *)
VaultDistinct == \A i, k \in 1..Len(vault) : vault[i] = vault[k] => i = k
CacheCreated ==
    \/ lastTwoPools = EmptyCache
    \/ lastTwoPools[1] \in Created /\ lastTwoPools[2] \in Created
QueuedOlder ==
    \A p \in Queued(jcMove) \cup Queued(piMove) : Older(p, lastTwoPools[2])

IInv == TypeOK /\ VaultDistinct /\ CacheCreated /\ QueuedOlder

LEMMA CreatedPools ==
    ASSUME vault \in Seq(Pool)
    PROVE  Created \subseteq Pool
BY DEF Created

(* A created pool that is not the newest is older than the newest. *)
LEMMA OlderThanNewest ==
    ASSUME vault \in Seq(Pool), NEW p \in Created, p # Newest
    PROVE  Older(p, Newest)
BY DEF Created, Newest, Older

LEMMA OlderTransitive ==
    ASSUME vault \in Seq(Pool), NEW p, NEW q, Older(p, q)
    PROVE  Older(p, Newest) /\ vault # <<>> /\ p \in Created /\ q \in Created
BY DEF Older, Newest, Created

LEMMA OlderIrreflexive ==
    ASSUME VaultDistinct, NEW p
    PROVE  ~Older(p, p)
BY DEF VaultDistinct, Older

-----------------------------------------------------------------------------
(* What a poll does to the cache and to the two maps. *)
LEMMA PollCache ==
    ASSUME IInv, PollPools
    PROVE  /\ lastTwoPools' \in Pool \X Pool
           /\ lastTwoPools'[1] \in Created /\ lastTwoPools'[2] \in Created
           /\ vault' = vault
           /\ \A p : Older(p, lastTwoPools[2]) => Older(p, lastTwoPools'[2])
           /\ Retires(lastTwoPools[1]) =>
                Older(lastTwoPools[1], Newest) /\ lastTwoPools'[2] = Newest
<1> DEFINE q == QueryLastPoolAddress(vault)
<1>1. /\ q = <<Newest, vault[Len(vault) - 1]>> /\ Newest \in Pool
      /\ vault[Len(vault) - 1] \in Pool
  BY QueryAnswer DEF IInv, TypeOK, PollPools
<1>2. /\ lastTwoPools[1] \in Created /\ lastTwoPools[2] \in Created
      /\ lastTwoPools[1] # None /\ lastTwoPools[2] # None
      /\ lastTwoPools[1] \in Pool /\ lastTwoPools[2] \in Pool
  BY CreatedPools, NoneNotPool DEF IInv, TypeOK, CacheCreated, PollPools, EmptyCache
<1>3. Newest \in Created /\ vault' = vault
  BY DEF IInv, TypeOK, PollPools, Created, Newest
<1>4. lastTwoPools' = IF NeedUpdate(q, lastTwoPools)
                      THEN <<lastTwoPools[2], Newest>> ELSE lastTwoPools
  BY <1>1, <1>2 DEF PollPools, NextCache, UpdatePool
<1>5. lastTwoPools \in Pool \X Pool
  BY <1>2 DEF IInv, TypeOK, Cache
<1>6. \A p : Older(p, lastTwoPools[2]) => Older(p, Newest)
  BY OlderTransitive DEF IInv, TypeOK
<1>7. Retires(lastTwoPools[1]) => Older(lastTwoPools[1], Newest)
  BY <1>2, OlderThanNewest DEF Retires, IInv, TypeOK
<1>8. Retires(lastTwoPools[1]) => NeedUpdate(q, lastTwoPools)
  BY DEF Retires
<1> HIDE DEF q
<1> QED BY <1>1, <1>2, <1>3, <1>4, <1>5, <1>6, <1>7, <1>8

LEMMA PollMaps ==
    ASSUME IInv, PollPools
    PROVE  /\ RetireJolt(joltHeight') \subseteq MoveReq
           /\ RetirePub \subseteq MoveReq
           /\ \A p \in Queued(RetireJolt(joltHeight')) \cup Queued(RetirePub) :
                    Older(p, lastTwoPools'[2])
<1>1. lastTwoPools[1] \in Pool
  BY CreatedPools DEF IInv, TypeOK, CacheCreated, PollPools, EmptyCache
<1>2. joltHeight' \in Int /\ pubHeight \in Int /\ Gap \in Int /\ Ahead \in Int
  BY RotationAssumption DEF IInv, TypeOK, PollPools, NextJoltBlock
<1>3. /\ RetireJolt(joltHeight') \subseteq MoveReq
      /\ RetirePub \subseteq MoveReq
  <2>1. joltHeight' - Gap + Ahead \in Int /\ pubHeight - Gap + Ahead \in Int
    BY <1>2
  <2> QED BY <1>1, <2>1, AddMoveFundItemType DEF RetireJolt, RetirePub, IInv, TypeOK
<1>4. ASSUME NEW p \in Queued(RetireJolt(joltHeight')) \cup Queued(RetirePub)
      PROVE  Older(p, lastTwoPools'[2])
  <2>1. \/ p \in Queued(jcMove) \cup Queued(piMove)
        \/ p = lastTwoPools[1] /\ Retires(lastTwoPools[1])
    BY <1>4, AddMoveFundItemPools DEF RetireJolt, RetirePub
  <2> QED BY <2>1, PollCache DEF IInv, QueuedOlder
<1> QED BY <1>3, <1>4

(* A step of the joltify side keeps a part of the retired map, adding back  *)
(* at most an entry for a pool it took out.                                 *)
LEMMA JoltStep ==
    ASSUME IInv, \/ JoltBlockNothingDue \/ JoltBlockNotSigner
                 \/ JoltBlockEmpty \/ JoltBlockRetry
    PROVE  /\ PollPools
           /\ jcMove' \subseteq MoveReq
           /\ Queued(jcMove') \subseteq Queued(RetireJolt(joltHeight'))
           /\ coins' \in [Pool -> Nat]
           /\ \/ transfer' = <<>>
              \/ \E p \in Queued(RetireJolt(joltHeight')) :
                    p \in Pool /\ transfer' = <<p, Newest>>
<1> DEFINE m == RetireJolt(joltHeight')
<1>1. PollPools
  BY DEF JoltBlockNothingDue, JoltBlockNotSigner, JoltBlockEmpty, JoltBlockRetry
<1>2. m \subseteq MoveReq
  BY <1>1, PollMaps
<1>3. joltHeight' \in Int
  BY <1>1 DEF PollPools, NextJoltBlock, IInv, TypeOK
<1>4. coins \in [Pool -> Nat] /\ Newest \in Pool
  BY <1>1, QueryAnswer DEF IInv, TypeOK, PollPools
<1>5. CASE JoltBlockNothingDue
  BY <1>1, <1>2, <1>4, <1>5 DEF JoltBlockNothingDue
<1>6. CASE JoltBlockNotSigner \/ JoltBlockEmpty
  <2>1. PICK e \in Due(m, joltHeight') : jcMove' = m \ {e}
    BY <1>6 DEF JoltBlockNotSigner, JoltBlockEmpty
  <2>2. transfer' = <<>> /\ UNCHANGED coins
    BY <1>6 DEF JoltBlockNotSigner, JoltBlockEmpty
  <2> HIDE DEF m
  <2>3. Queued(jcMove') \subseteq Queued(m) /\ jcMove' \subseteq MoveReq
    BY <1>2, <2>1 DEF Queued
  <2> QED BY <1>1, <1>4, <2>2, <2>3 DEF m
<1>7. CASE JoltBlockRetry
  <2>1. PICK e \in Due(m, joltHeight') :
            /\ jcMove' = AddMoveFundItem(m \ {e}, e.pool, joltHeight')
            /\ \/ transfer' = <<>> /\ UNCHANGED coins
               \/ /\ coins[e.pool] > 0
                  /\ transfer' = <<e.pool, Newest>>
                  /\ \/ UNCHANGED coins
                     \/ coins' = [coins EXCEPT ![e.pool] = 0, ![Newest] = @ + coins[e.pool]]
    BY <1>7 DEF JoltBlockRetry
  <2> HIDE DEF m
  <2>2. e \in m /\ e.pool \in Queued(m) /\ e.pool \in Pool
    BY <1>2, DueInMap DEF MoveReq
  <2>3. jcMove' \subseteq MoveReq
    BY <1>2, <1>3, <2>1, <2>2, AddMoveFundItemType
  <2>4. Queued(jcMove') \subseteq Queued(m)
    <3>1. ASSUME NEW q \in Queued(jcMove') PROVE q \in Queued(m)
      <4>1. q \in Queued(m \ {e}) \/ q = e.pool
        BY <2>1, AddMoveFundItemPools
      <4> QED BY <2>2, <4>1 DEF Queued
    <3> QED BY <3>1
  <2>5. coins' \in [Pool -> Nat]
    <3>1. coins[e.pool] \in Nat /\ coins[Newest] \in Nat
      BY <1>4, <2>2
    <3>2. [coins EXCEPT ![e.pool] = 0, ![Newest] = @ + coins[e.pool]] \in [Pool -> Nat]
      BY <1>4, <2>2, <3>1
    <3> QED BY <1>4, <2>1, <3>2
  <2> QED BY <1>1, <2>1, <2>2, <2>3, <2>4, <2>5 DEF m
<1> QED BY <1>5, <1>6, <1>7

(* The same of the public side. *)
LEMMA PubStep ==
    ASSUME IInv, PubBlock
    PROVE  /\ NextPubBlock
           /\ piMove' \subseteq MoveReq
           /\ Queued(piMove') \subseteq Queued(piMove)
           /\ token' \in [Pool -> Nat] /\ bnb' \in [Pool -> Nat]
           /\ \/ transfer' = <<>>
              \/ \E p \in Queued(piMove) :
                    p \in Pool /\ lastTwoPools[2] \in Pool
                    /\ transfer' = <<p, lastTwoPools[2]>>
<1>1. NextPubBlock
  BY DEF PubBlock, PubBlockNothingDue, PubBlockNotSigner, PubBlockEmpty, PubBlockFails,
         PubBlockMoves
<1>2. /\ piMove \subseteq MoveReq /\ token \in [Pool -> Nat] /\ bnb \in [Pool -> Nat]
      /\ pubHeight' \in Int
  BY <1>1 DEF IInv, TypeOK, NextPubBlock
<1>3. CASE PubBlockNothingDue
  BY <1>1, <1>2, <1>3 DEF PubBlockNothingDue
<1>4. CASE PubBlockNotSigner \/ PubBlockEmpty
  <2>1. PICK e \in Due(piMove, pubHeight') : piMove' = piMove \ {e}
    BY <1>4 DEF PubBlockNotSigner, PubBlockEmpty
  <2>2. transfer' = <<>> /\ UNCHANGED <<token, bnb>>
    BY <1>4 DEF PubBlockNotSigner, PubBlockEmpty
  <2> QED BY <1>1, <1>2, <2>1, <2>2 DEF Queued
<1>5. ASSUME NEW e \in Due(piMove, pubHeight'), PutBack(e)
      PROVE  /\ piMove' \subseteq MoveReq
             /\ Queued(piMove') \subseteq Queued(piMove)
             /\ e.pool \in Queued(piMove) /\ e.pool \in Pool
             /\ lastTwoPools[2] \in Pool
  <2>1. e \in piMove /\ e.pool \in Queued(piMove) /\ e.pool \in Pool
    BY <1>2, DueInMap DEF MoveReq
  <2>2. piMove' \subseteq MoveReq
    BY <1>2, <1>5, <2>1, AddMoveFundItemType DEF PutBack
  <2>3. ASSUME NEW q \in Queued(piMove') PROVE q \in Queued(piMove)
    <3>1. q \in Queued(piMove \ {e}) \/ q = e.pool
      BY <1>5, AddMoveFundItemPools DEF PutBack
    <3> QED BY <2>1, <3>1 DEF Queued
  <2>4. lastTwoPools[2] \in Pool
    <3>1. Older(e.pool, lastTwoPools[2])
      BY <2>1 DEF IInv, QueuedOlder
    <3> QED BY <3>1, OlderTransitive, CreatedPools DEF IInv, TypeOK
  <2> QED BY <2>1, <2>2, <2>3, <2>4
<1>6. CASE PubBlockFails
  BY <1>1, <1>2, <1>5, <1>6 DEF PubBlockFails
<1>7. CASE PubBlockMoves
  <2>1. PICK e \in Due(piMove, pubHeight') :
            /\ PutBack(e)
            /\ MoveTokens(e.pool, lastTwoPools[2]) \/ MoveBnb(e.pool, lastTwoPools[2])
    BY <1>7 DEF PubBlockMoves
  <2> DEFINE p == e.pool
             to == lastTwoPools[2]
  <2>2. p \in Pool /\ to \in Pool /\ p \in Queued(piMove)
    BY <1>5, <2>1
  <2>3. token[p] \in Nat /\ token[to] \in Nat /\ bnb[p] \in Nat /\ bnb[to] \in Nat
        /\ GasFee \in Nat /\ Dust \in Nat
    BY <1>2, <2>2, RotationAssumption
  <2>4. CASE MoveTokens(p, to)
    <3>1. bnb[p] >= GasFee /\ transfer' = <<p, to>>
      BY <2>4 DEF MoveTokens
    <3>2. [token EXCEPT ![p] = 0, ![to] = @ + token[p]] \in [Pool -> Nat]
      BY <1>2, <2>2, <2>3
    <3>3. [bnb EXCEPT ![p] = @ - GasFee] \in [Pool -> Nat]
      BY <1>2, <2>2, <2>3, <3>1
    <3>4. token' \in [Pool -> Nat] /\ bnb' \in [Pool -> Nat]
      BY <1>2, <2>4, <3>2, <3>3 DEF MoveTokens
    <3> QED BY <1>1, <1>5, <2>1, <2>2, <3>1, <3>4
  <2>5. CASE MoveBnb(p, to)
    <3>1. transfer' = <<>> \/ transfer' = <<p, to>>
      BY <2>5 DEF MoveBnb
    <3>2. token' = token
      BY <2>5 DEF MoveBnb
    <3>3. bnb' \in [Pool -> Nat]
      <4>1. CASE UNCHANGED bnb
        BY <1>2, <4>1
      <4>2. CASE ~UNCHANGED bnb
        <5>1. /\ MoveFund(p) > Dust
              /\ bnb' = [bnb EXCEPT ![p] = @ - MoveFund(p) - GasFee,
                                    ![to] = @ + MoveFund(p)]
          BY <2>5, <4>2 DEF MoveBnb
        <5>2. MoveFund(p) \in Nat /\ bnb[p] - MoveFund(p) - GasFee \in Nat
          BY <2>3, <5>1 DEF MoveFund
        <5>3. p # to
          BY <2>2, OlderIrreflexive DEF IInv, QueuedOlder
        <5> HIDE DEF p, to
        <5>4. bnb[to] + MoveFund(p) \in Nat
          BY <2>3, <5>2
        <5> QED BY <1>2, <2>2, <5>1, <5>2, <5>3, <5>4
      <4> QED BY <4>1, <4>2
    <3> QED BY <1>1, <1>2, <1>5, <2>1, <2>2, <3>1, <3>2, <3>3
  <2> QED BY <2>1, <2>4, <2>5
<1> QED BY <1>3, <1>4, <1>6, <1>7 DEF PubBlock

-----------------------------------------------------------------------------
LEMMA InitInv == Init => IInv
BY DEF Init, IInv, TypeOK, VaultDistinct, CacheCreated, QueuedOlder, Queued, EmptyCache,
       Cache, Slot

LEMMA InvStep ==
    ASSUME IInv, [Next]_vars
    PROVE  IInv'
<1> USE DEF poolVars, joltVars, pubVars
<1>1. ASSUME NEW p \in Pool, NEW c \in Coins, NEW t \in Tokens, NEW b \in Bnbs,
             CreatePool(p, c, t, b)
      PROVE  IInv'
  <2>1. vault' = Append(vault, p) /\ vault \in Seq(Pool)
    BY <1>1 DEF CreatePool, IInv, TypeOK
  <2>2. TypeOK'
    BY <1>1, RotationAssumption DEF CreatePool, IInv, TypeOK
  <2>3. VaultDistinct'
    BY <1>1, <2>1 DEF CreatePool, VaultDistinct, IInv
  <2>4. CacheCreated'
    BY <1>1, <2>1 DEF CreatePool, CacheCreated, Created, IInv
  <2>5. \A q, r : Older(q, r) => Older(q, r)'
    BY <2>1 DEF Older
  <2>6. QueuedOlder'
    BY <1>1, <2>5 DEF CreatePool, QueuedOlder, IInv
  <2> QED BY <2>2, <2>3, <2>4, <2>6 DEF IInv
<1>2. CASE JoltBlockNoPools
  <2>1. TypeOK'
    BY <1>2 DEF JoltBlockNoPools, NextJoltBlock, IInv, TypeOK
  <2>2. (VaultDistinct /\ CacheCreated /\ QueuedOlder)'
    BY <1>2 DEF JoltBlockNoPools, IInv, VaultDistinct, CacheCreated, Created,
                QueuedOlder, Older
  <2> QED BY <2>1, <2>2 DEF IInv
<1>3. CASE JoltBlockFill
  <2>1. lastTwoPools = EmptyCache
    BY <1>3, CreatedPools, NoneNotPool DEF JoltBlockFill, IInv, TypeOK, CacheCreated
  <2>2. /\ lastTwoPools' = <<Newest, vault[Len(vault) - 1]>>
        /\ Newest \in Pool /\ vault[Len(vault) - 1] \in Pool
    BY <1>3, <2>1, QueryAnswer, NoneNotPool
       DEF JoltBlockFill, IInv, TypeOK, FillPools, UpdatePool, EmptyCache
  <2>3. TypeOK'
    <3>1. lastTwoPools' \in Cache
      BY <2>2 DEF Cache, Slot
    <3> QED BY <1>3, <3>1 DEF JoltBlockFill, NextJoltBlock, IInv, TypeOK
  <2>4. CacheCreated'
    <3>1. vault' = vault /\ vault \in Seq(Pool) /\ Len(vault) >= 2
      BY <1>3 DEF JoltBlockFill, IInv, TypeOK
    <3>2. Newest \in Created /\ vault[Len(vault) - 1] \in Created
      BY <3>1 DEF Created, Newest
    <3> QED BY <2>2, <3>1, <3>2 DEF CacheCreated, Created
  <2>5. Queued(jcMove) \cup Queued(piMove) = {}
    <3>1. ASSUME NEW p, Older(p, None) PROVE FALSE
      BY <3>1, OlderTransitive, CreatedPools, NoneNotPool DEF IInv, TypeOK
    <3> QED BY <2>1, <3>1 DEF IInv, QueuedOlder, EmptyCache
  <2>6. QueuedOlder' /\ VaultDistinct'
    BY <1>3, <2>5 DEF JoltBlockFill, QueuedOlder, VaultDistinct, IInv
  <2> QED BY <2>3, <2>4, <2>6 DEF IInv
<1>4. CASE \/ JoltBlockNothingDue \/ JoltBlockNotSigner \/ JoltBlockEmpty \/ JoltBlockRetry
  <2>1. PollPools
    BY <1>4, JoltStep
  <2>2. /\ piMove' = RetirePub /\ UNCHANGED <<vault, pubHeight, token, bnb>>
        /\ joltHeight' \in Nat
    BY <2>1 DEF PollPools, NextJoltBlock, IInv, TypeOK
  <2>3. TypeOK'
    <3>1. lastTwoPools' \in Cache
      BY <2>1, PollCache DEF Cache, Slot
    <3>2. transfer' \in {<<>>} \cup (Pool \X Pool)
      <4>1. Newest \in Pool
        BY <2>1, QueryAnswer DEF PollPools, IInv, TypeOK
      <4> QED BY <1>4, <4>1, JoltStep
    <3>3. jcMove' \subseteq MoveReq /\ piMove' \subseteq MoveReq /\ coins' \in [Pool -> Nat]
      BY <1>4, <2>1, <2>2, JoltStep, PollMaps
    <3> QED BY <2>2, <3>1, <3>2, <3>3 DEF IInv, TypeOK
  <2>4. CacheCreated' /\ VaultDistinct'
    BY <2>1, <2>2, PollCache DEF CacheCreated, Created, VaultDistinct, IInv
  <2>5. QueuedOlder'
    <3>1. ASSUME NEW p \in Queued(jcMove') \cup Queued(piMove')
          PROVE  Older(p, lastTwoPools'[2])
      BY <1>4, <2>1, <2>2, JoltStep, PollMaps
    <3> QED BY <2>2, <3>1 DEF QueuedOlder, Older
  <2> QED BY <2>3, <2>4, <2>5 DEF IInv
<1>5. CASE PubBlock
  <2>1. NextPubBlock
    BY <1>5, PubStep
  <2>2. TypeOK'
    BY <1>5, <2>1, PubStep DEF NextPubBlock, IInv, TypeOK
  <2>3. CacheCreated' /\ VaultDistinct'
    BY <2>1 DEF NextPubBlock, IInv, CacheCreated, Created, VaultDistinct
  <2>4. QueuedOlder'
    BY <1>5, <2>1, PubStep DEF NextPubBlock, IInv, QueuedOlder, Older
  <2> QED BY <2>2, <2>3, <2>4 DEF IInv
<1>6. CASE UNCHANGED vars
  BY <1>6 DEF vars, IInv, TypeOK, VaultDistinct, CacheCreated, Created, QueuedOlder, Older
<1> QED BY <1>1, <1>2, <1>3, <1>4, <1>5, <1>6 DEF Next, JoltBlock

-----------------------------------------------------------------------------
(* Every variable keeps its type. *)
THEOREM RotationType == Spec => []TypeOK
<1>1. IInv => TypeOK
  BY DEF IInv
<1> QED BY <1>1, InitInv, InvStep, PTL DEF Spec

(* The newest pool is never scheduled to be emptied. *)
THEOREM RotationNewestNotQueued == Spec => []NewestNotQueued
<1>1. IInv => NewestNotQueued
  <2> SUFFICES ASSUME IInv, vault # <<>>, Newest \in Queued(jcMove) \cup Queued(piMove)
               PROVE  FALSE
      BY DEF NewestNotQueued
  <2>1. Older(Newest, Newest)
    BY OlderTransitive DEF IInv, TypeOK, QueuedOlder
  <2> QED BY <2>1, OlderIrreflexive DEF IInv
<1> QED BY <1>1, InitInv, InvStep, PTL DEF Spec

(* Every transfer goes from an older pool to a newer one. *)
THEOREM RotationMovesForward == Spec => []MovesForward
<1>1. Init => MovesForward
  BY DEF Init, MovesForward
<1>2. IInv /\ MovesForward /\ [Next]_vars => MovesForward'
  <2> SUFFICES ASSUME IInv, MovesForward, [Next]_vars, transfer' # <<>>
               PROVE  Older(transfer[1], transfer[2])'
      BY DEF MovesForward
  <2>1. CASE \/ JoltBlockNothingDue \/ JoltBlockNotSigner \/ JoltBlockEmpty
             \/ JoltBlockRetry
    <3>1. PollPools /\ vault' = vault
      BY <2>1, JoltStep DEF PollPools
    <3>2. PICK p \in Queued(RetireJolt(joltHeight')) : transfer' = <<p, Newest>>
      BY <2>1, JoltStep
    <3>3. Older(p, lastTwoPools'[2])
      BY <3>1, PollMaps
    <3>4. Older(p, Newest)
      BY <3>3, OlderTransitive DEF IInv, TypeOK
    <3> QED BY <3>1, <3>2, <3>4 DEF Older
  <2>2. CASE PubBlock
    <3>1. NextPubBlock /\ vault' = vault
      BY <2>2, PubStep DEF NextPubBlock, poolVars
    <3>2. PICK p \in Queued(piMove) : transfer' = <<p, lastTwoPools[2]>>
      BY <2>2, PubStep
    <3>3. Older(p, lastTwoPools[2])
      BY DEF IInv, QueuedOlder
    <3> QED BY <3>1, <3>2, <3>3 DEF Older
  <2>3. CASE UNCHANGED vars
    BY <2>3 DEF vars, poolVars, MovesForward, Older
  <2>4. \/ JoltBlockNothingDue \/ JoltBlockNotSigner \/ JoltBlockEmpty \/ JoltBlockRetry
        \/ PubBlock \/ UNCHANGED vars
    BY DEF Next, CreatePool, JoltBlock, JoltBlockNoPools, JoltBlockFill
  <2> QED BY <2>1, <2>2, <2>3, <2>4
<1> QED BY <1>1, <1>2, InitInv, InvStep, PTL DEF Spec

-----------------------------------------------------------------------------
(* Where the cache can be when no rotation is created before the node has   *)
(* seen the one before: empty; settled; as the first fill leaves it, newest *)
(* pool first; or one pool behind.                                          *)
CacheNear ==
    \/ lastTwoPools = EmptyCache
    \/ /\ Len(vault) >= 2
       /\ \/ lastTwoPools = InService
          \/ lastTwoPools = <<Newest, vault[Len(vault) - 1]>>
    \/ Len(vault) >= 3 /\ lastTwoPools = <<vault[Len(vault) - 2], vault[Len(vault) - 1]>>

(* One poll settles the cache from each of these places. *)
LEMMA PollSettles ==
    ASSUME IInv, CacheNear, PollPools
    PROVE  lastTwoPools' = InService
<1> DEFINE n == Len(vault)
           q == QueryLastPoolAddress(vault)
<1>1. /\ vault \in Seq(Pool) /\ n >= 2 /\ n \in Nat
      /\ q = <<vault[n], vault[n - 1]>> /\ vault[n] \in Pool /\ vault[n - 1] \in Pool
  BY QueryAnswer DEF IInv, TypeOK, PollPools, Newest
<1>2. /\ lastTwoPools[1] # None /\ lastTwoPools' = NextCache(lastTwoPools, q)
      /\ None # vault[n] /\ None # vault[n - 1]
  BY <1>1, NoneNotPool DEF PollPools
<1>3. vault[n] # vault[n - 1]
  BY <1>1 DEF IInv, VaultDistinct
<1>4. CASE lastTwoPools = <<vault[n - 1], vault[n]>>
  BY <1>1, <1>2, <1>4 DEF NextCache, NeedUpdate, InService, Newest
<1>5. CASE lastTwoPools = <<vault[n], vault[n - 1]>>
  BY <1>1, <1>2, <1>3, <1>5 DEF NextCache, NeedUpdate, UpdatePool, InService, Newest
<1>6. CASE n >= 3 /\ lastTwoPools = <<vault[n - 2], vault[n - 1]>>
  BY <1>1, <1>2, <1>3, <1>6 DEF NextCache, NeedUpdate, UpdatePool, InService, Newest
<1>7. lastTwoPools # EmptyCache
  BY <1>2 DEF EmptyCache
<1> QED BY <1>4, <1>5, <1>6, <1>7 DEF CacheNear, InService, Newest

LEMMA NearStep ==
    ASSUME Rotation # "any", IInv, CacheNear, [Next]_vars
    PROVE  CacheNear'
<1> DEFINE n == Len(vault)
<1>1. vault \in Seq(Pool) /\ n \in Nat
  BY DEF IInv, TypeOK
<1>2. ASSUME NEW p \in Pool, NEW c \in Coins, NEW t \in Tokens, NEW b \in Bnbs,
             CreatePool(p, c, t, b)
      PROVE  CacheNear'
  <2>1. vault' = Append(vault, p) /\ lastTwoPools' = lastTwoPools
    BY <1>2 DEF CreatePool
  <2>2. CASE n < 2
    <3>1. lastTwoPools = EmptyCache
      BY <1>1, <2>2 DEF CacheNear
    <3> QED BY <2>1, <3>1 DEF CacheNear
  <2>3. CASE n >= 2
    <3>1. lastTwoPools = <<vault[n - 1], vault[n]>>
      BY <1>1, <1>2, <2>3, RotationAssumption
         DEF CreatePool, MayRotate, Settled, InService, Newest
    <3>2. /\ Len(vault') = n + 1
          /\ vault'[n] = vault[n] /\ vault'[n - 1] = vault[n - 1]
      BY <1>1, <2>1, <2>3
    <3>3. /\ Len(vault') >= 3
          /\ lastTwoPools' = <<vault'[Len(vault') - 2], vault'[Len(vault') - 1]>>
      BY <1>1, <2>1, <2>3, <3>1, <3>2
    <3> QED BY <3>3 DEF CacheNear
  <2> QED BY <1>1, <2>2, <2>3
<1>3. CASE UNCHANGED poolVars
  BY <1>3 DEF poolVars, CacheNear, InService, Newest
<1>4. CASE JoltBlockFill
  <2>1. lastTwoPools = EmptyCache
    BY <1>4, CreatedPools, NoneNotPool DEF JoltBlockFill, IInv, TypeOK, CacheCreated
  <2>2. lastTwoPools' = <<Newest, vault[n - 1]>> /\ vault' = vault /\ n >= 2
    BY <1>4, <2>1, QueryAnswer, NoneNotPool
       DEF JoltBlockFill, IInv, TypeOK, FillPools, UpdatePool, EmptyCache
  <2> QED BY <2>2 DEF CacheNear, Newest
<1>5. CASE PollPools
  <2>1. lastTwoPools' = InService /\ vault' = vault /\ n >= 2
    BY <1>5, PollSettles DEF PollPools
  <2> QED BY <2>1 DEF CacheNear, InService, Newest
<1>6. CASE \/ JoltBlockNothingDue \/ JoltBlockNotSigner \/ JoltBlockEmpty \/ JoltBlockRetry
  BY <1>5, <1>6, JoltStep
<1>7. CASE JoltBlockNoPools \/ PubBlock \/ UNCHANGED vars
  <2>1. UNCHANGED poolVars
    BY <1>7, PubStep DEF JoltBlockNoPools, NextPubBlock, vars
  <2> QED BY <1>3, <2>1
<1> QED BY <1>2, <1>4, <1>6, <1>7 DEF Next, JoltBlock

(* A block that updates a filled cache leaves the newest two pools in it,   *)
(* unless two pools are created between two polls.                          *)
THEOREM RotationCacheSettles ==
    ASSUME Rotation # "any"
    PROVE  Spec => CacheSettles
<1>1. Init => CacheNear
  BY DEF Init, CacheNear
<1>2. IInv /\ CacheNear /\ [Next]_vars => CacheNear'
  BY NearStep
<1>3. IInv /\ CacheNear /\ [Next]_vars => [PollPools => lastTwoPools' = InService]_vars
  BY PollSettles
<1> QED BY <1>1, <1>2, <1>3, InitInv, InvStep, PTL DEF Spec, CacheSettles

-----------------------------------------------------------------------------
(* With calm rotations a map has one entry at most, so no Store replaces    *)
(* another pool's; the maps are empty until the node has seen the rotation; *)
(* and the first fill finds just two pools.                                 *)
Single(m) == \A e, f \in m : e = f
Calm ==
    /\ CacheNear
    /\ ~Settled => jcMove = {} /\ piMove = {}
    /\ lastTwoPools = EmptyCache \/ lastTwoPools[1] = Newest => Len(vault) <= 2
    /\ Single(jcMove) /\ Single(piMove)
    /\ NoCoinsForgotten /\ NoTokensForgotten

(* A retry keeps the only entry, under another key. *)
LEMMA RetrySingle ==
    ASSUME NEW m, Single(m), NEW e \in m, NEW h
    PROVE  /\ Single(AddMoveFundItem(m \ {e}, e.pool, h))
           /\ Queued(AddMoveFundItem(m \ {e}, e.pool, h)) = Queued(m)
<1>1. m = {e}
  BY DEF Single
<1>2. AddMoveFundItem(m \ {e}, e.pool, h) = {[key |-> h, pool |-> e.pool]}
  BY <1>1 DEF AddMoveFundItem
<1>3. Queued(m) = {e.pool} /\ Queued({[key |-> h, pool |-> e.pool]}) = {e.pool}
  BY <1>1 DEF Queued
<1>4. Single({[key |-> h, pool |-> e.pool]})
  BY DEF Single
<1> QED BY <1>2, <1>3, <1>4

(* An entry that is taken out was the only one of its pool. *)
LEMMA TakenOut ==
    ASSUME NEW m, NEW e \in m, NEW q \in Queued(m), q # e.pool
    PROVE  q \in Queued(m \ {e})
BY DEF Queued

LEMMA TakenSingle ==
    ASSUME NEW m, Single(m), NEW e
    PROVE  Single(m \ {e})
BY DEF Single

(* The pools in the cache, and a pool without an older one, are not retired. *)
LEMMA NotRetired ==
    ASSUME VaultDistinct
    PROVE  lastTwoPools[1] \notin Retired /\ lastTwoPools[2] \notin Retired
BY OlderIrreflexive DEF Retired

(* A poll schedules the pool it retires, which is the only one. *)
LEMMA PollRetired ==
    ASSUME IInv, Calm, PollPools
    PROVE  /\ Single(RetireJolt(joltHeight')) /\ Single(RetirePub)
           /\ \A p \in Retired' : coins[p] > 0 => p \in Queued(RetireJolt(joltHeight'))
           /\ \A p \in Retired' : ~IsClear(p) => p \in Queued(RetirePub)
<1> DEFINE n == Len(vault)
           q == QueryLastPoolAddress(vault)
<1>1. /\ vault \in Seq(Pool) /\ n >= 2 /\ n \in Nat /\ vault' = vault
      /\ q = <<vault[n], vault[n - 1]>> /\ vault[n] \in Pool /\ vault[n - 1] \in Pool
      /\ lastTwoPools' = <<vault[n - 1], vault[n]>> /\ lastTwoPools[1] # None
  BY QueryAnswer, PollSettles DEF IInv, TypeOK, Calm, PollPools, Newest, InService
<1>2. None # vault[n] /\ None # vault[n - 1]
  BY <1>1, NoneNotPool
<1>3. Retired' = {p \in Created \cap SignerPool : Older(p, vault[n - 1]) /\ Older(p, vault[n])}
  <2>1. Created' = Created
    BY <1>1 DEF Created
  <2>2. \A p : /\ Older(p, lastTwoPools[1])' <=> Older(p, vault[n - 1])
               /\ Older(p, lastTwoPools[2])' <=> Older(p, vault[n])
    BY <1>1 DEF Older
  <2> QED BY <2>1, <2>2 DEF Retired
<1>4. CASE lastTwoPools = <<vault[n - 1], vault[n]>>
  <2>1. RetireJolt(joltHeight') = jcMove /\ RetirePub = piMove
    BY <1>1, <1>2, <1>4 DEF RetireJolt, RetirePub, Retires, NeedUpdate
  <2>2. Retired' = Retired
    BY <1>3, <1>4 DEF Retired
  <2> QED BY <2>1, <2>2 DEF Calm, NoCoinsForgotten, NoTokensForgotten
<1>5. CASE lastTwoPools = <<vault[n], vault[n - 1]>>
  <2>1. RetireJolt(joltHeight') = jcMove /\ RetirePub = piMove
    BY <1>5 DEF RetireJolt, RetirePub, Retires, Newest
  <2>2. n = 2
    BY <1>1, <1>5 DEF Calm, Newest
  <2>3. Retired' = {}
    <3>1. ASSUME NEW p, Older(p, vault[1]) PROVE FALSE
      BY <1>1, <2>2, <3>1 DEF Older, IInv, VaultDistinct
    <3> QED BY <1>3, <2>2, <3>1
  <2> QED BY <2>1, <2>3 DEF Calm
<1>6. CASE n >= 3 /\ lastTwoPools = <<vault[n - 2], vault[n - 1]>>
  <2>1. /\ vault[n - 2] # vault[n] /\ vault[n - 1] # vault[n] /\ vault[n - 2] # vault[n - 1]
    BY <1>1, <1>6 DEF IInv, VaultDistinct
  <2>2. jcMove = {} /\ piMove = {}
    BY <1>1, <1>6, <2>1 DEF Calm, Settled, InService, Newest
  <2>3. Retires(lastTwoPools[1])
    BY <1>1, <1>6, <2>1 DEF Retires, NeedUpdate, Newest
  <2>4. /\ RetireJolt(joltHeight') =
             {[key |-> joltHeight' - Gap + Ahead, pool |-> vault[n - 2]]}
        /\ RetirePub = {[key |-> pubHeight - Gap + Ahead, pool |-> vault[n - 2]]}
    BY <1>6, <2>2, <2>3 DEF RetireJolt, RetirePub, AddMoveFundItem
  <2>5. ASSUME NEW p \in Retired'
        PROVE  p = vault[n - 2] \/ p \in Retired
    <3>1. p \in Created \cap SignerPool /\ Older(p, vault[n - 1])
      BY <1>3, <2>5
    <3>2. PICK i, k \in 1..n : i < k /\ vault[i] = p /\ vault[k] = vault[n - 1]
      BY <3>1 DEF Older
    <3>3. k = n - 1
      BY <1>1, <3>2 DEF IInv, VaultDistinct
    <3>4. CASE i = n - 2
      BY <3>2, <3>4
    <3>5. CASE i < n - 2
      BY <1>1, <1>6, <3>1, <3>2, <3>5 DEF Retired, Older
    <3> QED BY <1>1, <3>2, <3>3, <3>4, <3>5
  <2>6. ASSUME NEW p \in Retired PROVE ~(coins[p] > 0) /\ IsClear(p)
    BY <2>2 DEF Calm, NoCoinsForgotten, NoTokensForgotten, Queued
  <2> QED BY <2>4, <2>5, <2>6 DEF Single, Queued
<1>7. lastTwoPools # EmptyCache
  BY <1>1 DEF EmptyCache
<1> QED BY <1>4, <1>5, <1>6, <1>7 DEF Calm, CacheNear, InService, Newest

(* A joltify block keeps what is calm. *)
LEMMA CalmJolt ==
    ASSUME IInv, Calm, CacheNear',
           \/ JoltBlockNothingDue \/ JoltBlockNotSigner \/ JoltBlockEmpty \/ JoltBlockRetry
    PROVE  Calm'
<1> DEFINE m == RetireJolt(joltHeight')
<1>1. PollPools /\ IInv'
  BY JoltStep, InvStep DEF Next, JoltBlock
<1>2. /\ lastTwoPools' = InService /\ Len(vault) >= 2 /\ UNCHANGED <<vault, token, bnb>>
      /\ piMove' = RetirePub
  BY <1>1, PollSettles DEF PollPools, Calm
<1>3. /\ Single(m) /\ Single(RetirePub)
      /\ \A p \in Retired' : coins[p] > 0 => p \in Queued(m)
      /\ \A p \in Retired' : ~IsClear(p) => p \in Queued(RetirePub)
  BY <1>1, PollRetired
<1>4. Settled'
  BY <1>2 DEF Settled, InService, Newest
<1>5. /\ lastTwoPools' # EmptyCache /\ (lastTwoPools[1] # Newest)' /\ Newest \notin Retired'
  <2>1. /\ vault \in Seq(Pool) /\ Newest \in Pool /\ vault[Len(vault) - 1] \in Pool
        /\ Len(vault) \in Nat
    BY <1>2, QueryAnswer DEF IInv, TypeOK
  <2>2. vault[Len(vault) - 1] # vault[Len(vault)]
    BY <1>2, <2>1 DEF IInv, VaultDistinct
  <2>3. Newest \notin Retired'
    BY <1>1, <1>2, NotRetired DEF IInv, InService, Newest, VaultDistinct, Retired, Older
  <2> QED BY <1>2, <2>1, <2>2, <2>3, NoneNotPool DEF InService, Newest, EmptyCache
<1>6. Single(piMove') /\ NoTokensForgotten'
  BY <1>2, <1>3 DEF NoTokensForgotten, IsClear
<1>7. Single(jcMove') /\ NoCoinsForgotten'
  <2> HIDE DEF m
  <2>1. CASE JoltBlockNothingDue
    <3>1. jcMove' = m /\ coins' = coins
      BY <2>1 DEF JoltBlockNothingDue, m
    <3> QED BY <1>3, <3>1 DEF NoCoinsForgotten
  <2>2. CASE JoltBlockNotSigner \/ JoltBlockEmpty
    <3>1. PICK e \in Due(m, joltHeight') :
              /\ e.pool \notin SignerPool \/ coins[e.pool] = 0
              /\ jcMove' = m \ {e} /\ coins' = coins
      BY <2>2 DEF JoltBlockNotSigner, JoltBlockEmpty, m
    <3>2. e \in m /\ Single(jcMove')
      BY <1>3, <3>1, DueInMap, TakenSingle
    <3>3. ASSUME NEW p \in Retired', coins[p] > 0 PROVE p \in Queued(jcMove')
      <4>1. p # e.pool
        BY <3>1, <3>3 DEF Retired
      <4> QED BY <1>3, <3>1, <3>2, <3>3, <4>1, TakenOut
    <3> QED BY <3>1, <3>2, <3>3 DEF NoCoinsForgotten
  <2>3. CASE JoltBlockRetry
    <3>1. PICK e \in Due(m, joltHeight') :
            /\ jcMove' = AddMoveFundItem(m \ {e}, e.pool, joltHeight')
            /\ \/ UNCHANGED coins
               \/ coins' = [coins EXCEPT ![e.pool] = 0, ![Newest] = @ + coins[e.pool]]
      BY <2>3 DEF JoltBlockRetry, m
    <3>2. e \in m /\ Single(jcMove') /\ Queued(jcMove') = Queued(m)
      BY <1>3, <3>1, DueInMap, RetrySingle
    <3>3. ASSUME NEW p \in Retired', coins'[p] > 0 PROVE p \in Queued(jcMove')
      <4>1. p # Newest
        BY <1>5
      <4>2. CASE p = e.pool
        BY <3>2, <4>2 DEF Queued
      <4>3. CASE p # e.pool
        <5>1. coins \in [Pool -> Nat]
          BY DEF IInv, TypeOK
        <5>2. p \in Pool
          BY SignerPoolAssumption DEF Retired
        <5>3. coins'[p] = coins[p]
          BY <3>1, <4>1, <4>3, <5>1, <5>2
        <5> QED BY <1>3, <3>2, <3>3, <5>3
      <4> QED BY <4>2, <4>3
    <3> QED BY <3>2, <3>3 DEF NoCoinsForgotten
  <2> QED BY <2>1, <2>2, <2>3
<1> QED BY <1>4, <1>5, <1>6, <1>7 DEF Calm

(* So does a block of the public chain. *)
LEMMA CalmPub ==
    ASSUME IInv, Calm, CacheNear', PubBlock
    PROVE  Calm'
<1>1. NextPubBlock /\ UNCHANGED <<vault, lastTwoPools, jcMove, coins>>
  BY PubStep DEF NextPubBlock, poolVars, joltVars
<1>2. Retired' = Retired /\ Settled' = Settled /\ Newest' = Newest
  <2>1. Created' = Created
    BY <1>1 DEF Created
  <2>2. \A p : /\ Older(p, lastTwoPools[1])' <=> Older(p, lastTwoPools[1])
               /\ Older(p, lastTwoPools[2])' <=> Older(p, lastTwoPools[2])
    BY <1>1 DEF Older
  <2> QED BY <1>1, <2>1, <2>2 DEF Retired, Settled, InService, Newest
<1>3. NoCoinsForgotten'
  BY <1>1, <1>2 DEF Calm, NoCoinsForgotten
<1>4. piMove = {} => piMove' = {}
  BY DEF PubBlock, PubBlockNothingDue, PubBlockNotSigner, PubBlockEmpty, PubBlockFails,
         PubBlockMoves, Due
<1>5. /\ Single(piMove) /\ \A p \in Retired : ~IsClear(p) => p \in Queued(piMove)
      /\ token \in [Pool -> Nat] /\ bnb \in [Pool -> Nat] /\ Retired \subseteq Pool
  BY SignerPoolAssumption DEF Calm, NoTokensForgotten, IInv, TypeOK, Retired
<1>6. ASSUME NEW e \in Due(piMove, pubHeight'), PutBack(e)
      PROVE  Single(piMove') /\ Queued(piMove') = Queued(piMove) /\ e.pool \in Queued(piMove)
  BY <1>5, <1>6, DueInMap, RetrySingle DEF PutBack
<1>7. Single(piMove') /\ NoTokensForgotten'
  <2>1. CASE PubBlockNothingDue
    BY <1>2, <1>5, <2>1 DEF PubBlockNothingDue, NoTokensForgotten, IsClear
  <2>2. CASE PubBlockNotSigner \/ PubBlockEmpty
    <3>1. PICK e \in Due(piMove, pubHeight') :
              /\ e.pool \notin SignerPool \/ IsClear(e.pool)
              /\ piMove' = piMove \ {e} /\ token' = token /\ bnb' = bnb
      BY <2>2 DEF PubBlockNotSigner, PubBlockEmpty
    <3>2. e \in piMove /\ Single(piMove')
      BY <1>5, <3>1, DueInMap, TakenSingle
    <3>3. ASSUME NEW p \in Retired, ~IsClear(p) PROVE p \in Queued(piMove')
      <4>1. p # e.pool
        BY <3>1, <3>3 DEF Retired
      <4> QED BY <1>5, <3>1, <3>2, <3>3, <4>1, TakenOut
    <3> QED BY <1>2, <3>1, <3>2, <3>3 DEF NoTokensForgotten, IsClear
  <2>3. CASE PubBlockFails
    <3>1. PICK e \in Due(piMove, pubHeight') : PutBack(e) /\ token' = token /\ bnb' = bnb
      BY <2>3 DEF PubBlockFails
    <3> QED BY <1>2, <1>5, <1>6, <3>1 DEF NoTokensForgotten, IsClear
  <2>4. CASE PubBlockMoves
    <3>1. PICK e \in Due(piMove, pubHeight') :
            /\ PutBack(e)
            /\ MoveTokens(e.pool, lastTwoPools[2]) \/ MoveBnb(e.pool, lastTwoPools[2])
      BY <2>4 DEF PubBlockMoves
    <3> DEFINE to == lastTwoPools[2]
    <3>2. ASSUME NEW p \in Retired, p # e.pool
          PROVE  token'[p] = token[p] /\ bnb'[p] = bnb[p]
      <4>1. p # to /\ p \in Pool
        BY <1>5, NotRetired DEF IInv
      <4> HIDE DEF to
      <4>2. CASE MoveTokens(e.pool, to)
        BY <1>5, <3>2, <4>1, <4>2 DEF MoveTokens
      <4>3. CASE MoveBnb(e.pool, to)
        BY <1>5, <3>2, <4>1, <4>3 DEF MoveBnb
      <4> QED BY <3>1, <4>2, <4>3 DEF to
    <3>3. ASSUME NEW p \in Retired, ~IsClear(p)' PROVE p \in Queued(piMove')
      BY <1>5, <1>6, <3>1, <3>2, <3>3 DEF IsClear
    <3> QED BY <1>2, <1>6, <3>1, <3>3 DEF NoTokensForgotten
  <2> QED BY <2>1, <2>2, <2>3, <2>4 DEF PubBlock
<1> QED BY <1>1, <1>2, <1>3, <1>4, <1>7 DEF Calm

(* And a rotation, which finds both maps empty. *)
LEMMA CalmCreate ==
    ASSUME Rotation = "calm", IInv, Calm, CacheNear',
           NEW p \in Pool, NEW c \in Coins, NEW t \in Tokens, NEW b \in Bnbs,
           CreatePool(p, c, t, b)
    PROVE  Calm'
<1> DEFINE n == Len(vault)
<1>1. /\ vault \in Seq(Pool) /\ n \in Nat /\ vault' = Append(vault, p)
      /\ UNCHANGED <<lastTwoPools, jcMove, piMove>>
      /\ \A i \in 1..n : vault[i] # p
      /\ coins' = [coins EXCEPT ![p] = c] /\ token' = [token EXCEPT ![p] = t]
      /\ bnb' = [bnb EXCEPT ![p] = b]
      /\ coins \in [Pool -> Nat] /\ token \in [Pool -> Nat] /\ bnb \in [Pool -> Nat]
  BY DEF CreatePool, IInv, TypeOK
<1>2. /\ jcMove = {} /\ piMove = {}
      /\ (n < 2 /\ lastTwoPools = EmptyCache) \/ Settled
  <2>1. CASE n < 2
    BY <1>1, <2>1, NoneNotPool DEF Calm, CacheNear, Settled
  <2>2. CASE n >= 2
    BY <1>1, <2>2 DEF CreatePool, MayRotate
  <2> QED BY <1>1, <2>1, <2>2
<1>3. \A q \in Retired' : q \in Retired /\ q # p /\ q \in Pool
  <2>1. ASSUME NEW q \in Retired' PROVE q \in Retired /\ q # p
    <3>1. /\ Len(vault') = n + 1 /\ \A i \in 1..n : vault'[i] = vault[i]
          /\ vault'[n + 1] = p
      BY <1>1
    <3>2. /\ q \in SignerPool
          /\ Older(q, lastTwoPools[1])' /\ Older(q, lastTwoPools[2])'
      BY <2>1 DEF Retired
    <3>3. lastTwoPools[1] \in Created /\ lastTwoPools[2] \in Created
      <4>1. lastTwoPools # EmptyCache
        <5>1. ASSUME lastTwoPools = EmptyCache PROVE FALSE
          <6>1. Older(q, None)'
            BY <1>1, <3>2, <5>1 DEF EmptyCache
          <6> QED BY <1>1, <3>1, <6>1, NoneNotPool DEF Older
        <5> QED BY <5>1
      <4> QED BY <4>1 DEF IInv, CacheCreated
    <3>4. ASSUME NEW r \in Created, Older(q, r)' PROVE Older(q, r) /\ q # p
      <4>1. PICK i, k \in 1..(n + 1) : i < k /\ vault'[i] = q /\ vault'[k] = r
        BY <3>1, <3>4 DEF Older
      <4>2. k # n + 1
        BY <1>1, <3>1, <3>4, <4>1 DEF Created
      <4>3. i \in 1..n /\ k \in 1..n
        <5>1. n \in Nat
          BY <1>1
        <5> QED BY <4>1, <4>2, <5>1
      <4> QED BY <1>1, <3>1, <4>1, <4>3 DEF Older
    <3>5. Older(q, lastTwoPools[1]) /\ Older(q, lastTwoPools[2]) /\ q # p
      BY <1>1, <3>2, <3>3, <3>4
    <3> QED BY <1>1, <3>2, <3>5, OlderTransitive DEF Retired
  <2> QED BY <2>1, SignerPoolAssumption DEF Retired
<1>4. NoCoinsForgotten' /\ NoTokensForgotten'
  <2>1. ASSUME NEW q \in Retired'
        PROVE  coins'[q] = coins[q] /\ token'[q] = token[q] /\ bnb'[q] = bnb[q]
    BY <1>1, <1>3, <2>1
  <2> QED BY <1>1, <1>3, <2>1 DEF Calm, NoCoinsForgotten, NoTokensForgotten, IsClear
<1>5. (lastTwoPools = EmptyCache \/ lastTwoPools[1] = Newest => Len(vault) <= 2)'
  <2>1. CASE n < 2
    BY <1>1, <2>1
  <2>2. CASE n >= 2
    <3>1. lastTwoPools = <<vault[n - 1], vault[n]>> /\ vault[n - 1] \in Pool
      BY <1>1, <1>2, <2>2 DEF Settled, InService, Newest
    <3>2. Newest' = p
      BY <1>1 DEF Newest
    <3> QED BY <1>1, <2>2, <3>1, <3>2, NoneNotPool DEF EmptyCache
  <2> QED BY <1>1, <2>1, <2>2
<1>6. (~Settled => jcMove = {} /\ piMove = {})' /\ Single(jcMove') /\ Single(piMove')
  BY <1>1, <1>2 DEF Single
<1> QED BY <1>4, <1>5, <1>6 DEF Calm

LEMMA CalmStep ==
    ASSUME Rotation = "calm", IInv, Calm, [Next]_vars
    PROVE  Calm'
<1>1. CacheNear'
  BY NearStep DEF Calm
<1>2. ASSUME UNCHANGED <<vault, lastTwoPools, jcMove, piMove, coins, token, bnb>>
      PROVE  Calm'
  <2>1. Settled' = Settled /\ Newest' = Newest
    BY <1>2 DEF Settled, InService, Newest
  <2>2. Retired' = Retired
    <3>1. Created' = Created
      BY <1>2 DEF Created
    <3>2. \A p : /\ Older(p, lastTwoPools[1])' <=> Older(p, lastTwoPools[1])
                 /\ Older(p, lastTwoPools[2])' <=> Older(p, lastTwoPools[2])
      BY <1>2 DEF Older
    <3> QED BY <3>1, <3>2 DEF Retired
  <2>3. NoCoinsForgotten' /\ NoTokensForgotten'
    BY <1>2, <2>2 DEF Calm, NoCoinsForgotten, NoTokensForgotten, IsClear
  <2> QED BY <1>1, <1>2, <2>1, <2>3 DEF Calm
<1>3. CASE JoltBlockNoPools \/ UNCHANGED vars
  BY <1>2, <1>3 DEF JoltBlockNoPools, poolVars, joltVars, pubVars, vars
<1>4. CASE JoltBlockFill
  <2>1. lastTwoPools = EmptyCache
    BY <1>4, CreatedPools, NoneNotPool DEF JoltBlockFill, IInv, TypeOK, CacheCreated
  <2>2. lastTwoPools' = <<Newest, vault[Len(vault) - 1]>> /\ vault' = vault
    BY <1>4, <2>1, QueryAnswer, NoneNotPool
       DEF JoltBlockFill, IInv, TypeOK, FillPools, UpdatePool, EmptyCache
  <2>3. Len(vault) = 2 /\ vault \in Seq(Pool)
    <3>1. vault \in Seq(Pool)
      BY DEF IInv, TypeOK
    <3> DEFINE n == Len(vault)
    <3>2. n <= 2 /\ n >= 2 /\ n \in Nat
      BY <1>4, <2>1, <3>1 DEF Calm, JoltBlockFill
    <3> HIDE DEF n
    <3>3. n = 2
      BY <3>2
    <3> QED BY <3>1, <3>3 DEF n
  <2>4. jcMove' = {} /\ piMove' = {}
    <3>1. lastTwoPools[1] # InService[1]
      BY <2>1, <2>3, NoneNotPool DEF EmptyCache, InService
    <3> QED BY <1>4, <3>1 DEF Calm, Settled, JoltBlockFill, pubVars
  <2>5. Retired' = {}
    <3>1. lastTwoPools'[2] = vault[1]
      BY <2>2, <2>3
    <3>2. ASSUME NEW p \in Retired' PROVE FALSE
      <4>1. Older(p, vault[1])'
        BY <2>2, <3>1, <3>2 DEF Retired, Older
      <4> QED BY <2>2, <2>3, <4>1 DEF Older, IInv, VaultDistinct
    <3> QED BY <3>2
  <2> QED BY <1>1, <2>2, <2>3, <2>4, <2>5
          DEF Calm, Single, NoCoinsForgotten, NoTokensForgotten
<1>5. CASE \/ JoltBlockNothingDue \/ JoltBlockNotSigner \/ JoltBlockEmpty \/ JoltBlockRetry
  BY <1>1, <1>5, CalmJolt
<1>6. CASE PubBlock
  BY <1>1, <1>6, CalmPub
<1> QED BY <1>1, <1>3, <1>4, <1>5, <1>6, CalmCreate DEF Next, JoltBlock

LEMMA CalmInit == Init => Calm
<1> SUFFICES ASSUME Init PROVE Calm
    OBVIOUS
<1>1. Retired = {}
  BY DEF Init, Retired, Created
<1> QED BY <1>1 DEF Init, Calm, CacheNear, Single, NoCoinsForgotten, NoTokensForgotten

(* With calm rotations no retired pool that holds coins is forgotten on the *)
(* joltify chain, whatever attempts and transfers fail.                     *)
THEOREM RotationNoCoinsForgotten ==
    ASSUME Rotation = "calm"
    PROVE  Spec => []NoCoinsForgotten
<1>1. IInv /\ Calm /\ [Next]_vars => Calm'
  BY CalmStep
<1>2. Calm => NoCoinsForgotten
  BY DEF Calm
<1> QED BY <1>1, <1>2, CalmInit, InitInv, InvStep, PTL DEF Spec

(* The same on the public chain, for the tokens and the native coins.       *)
THEOREM RotationNoTokensForgotten ==
    ASSUME Rotation = "calm"
    PROVE  Spec => []NoTokensForgotten
<1>1. IInv /\ Calm /\ [Next]_vars => Calm'
  BY CalmStep
<1>2. Calm => NoTokensForgotten
  BY DEF Calm
<1> QED BY <1>1, <1>2, CalmInit, InitInv, InvStep, PTL DEF Spec

=============================================================================

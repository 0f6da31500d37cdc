---------------------------- MODULE PoolRotation ----------------------------
(***************************************************************************)
(* Rotation of the TSS pools and the emptying of the retired ones.         *)
(*                                                                         *)
(* On every joltify block the event loop compares the two newest pools of  *)
(* the vault with its cache.  When they differ, the pool that leaves the   *)
(* cache is put in the moveFundReq map of each chain, keyed by a height;   *)
(* every block of a chain takes the entry with the least key, once it is   *)
(* old enough, and tries to send the pool's balance to the newest pool.    *)
(* An entry is put back after every attempt and leaves the map for good    *)
(* only when its account is found empty.                                   *)
(*                                                                         *)
(* The two halves of the bridge keep a cache each; the loop updates both   *)
(* with the same pool in the same turn, so one variable stands for both.   *)
(***************************************************************************)
EXTENDS PoolCache, FiniteSets

CONSTANTS
    SignerPool,      \* the pools this node holds a share of
    Gap,             \* config.MINCHECKBLOCKGAP
    Ahead,           \* the 5 added to the key of a first try
    Dust,            \* config.DUSTBNB
    GasFee,          \* gas price times gas limit of a transfer
    Coins,           \* joltify balances a pool may receive
    Tokens,          \* ERC20 balances a pool may receive
    Bnbs,            \* native balances a pool may receive
    Rotation,        \* how close rotations may come: "calm", "polled" or "any"
    MaxJolt, MaxPub  \* bounds: blocks of the two chains

ASSUME SignerPoolAssumption == SignerPool \subseteq Pool
ASSUME RotationAssumption ==
    /\ Gap \in Nat /\ Ahead \in Nat /\ Dust \in Nat /\ GasFee \in Nat
    /\ Coins \subseteq Nat /\ Tokens \subseteq Nat /\ Bnbs \subseteq Nat
    /\ Rotation \in {"calm", "polled", "any"}
    /\ MaxJolt \in Nat /\ MaxPub \in Nat

VARIABLES
    vault,           \* pools created, oldest first
    lastTwoPools,    \* the cache of both halves
    joltHeight,      \* height of the last joltify block handled
    pubHeight,       \* pi.CurrentHeight
    jcMove,          \* moveFundReq of JoltifyChainInstance
    piMove,          \* moveFundReq of PubChainInstance
    coins,           \* joltify balance of each pool
    token, bnb,      \* ERC20 and native balance of each pool
    transfer         \* the transfer of the last step: <<from, to>> or <<>>

poolVars == <<vault, lastTwoPools>>
joltVars == <<joltHeight, jcMove, coins>>
pubVars  == <<pubHeight, piMove, token, bnb>>
vars == <<poolVars, joltVars, pubVars, transfer>>

Newest == vault[Len(vault)]

(* The two newest pools, in the order of the cache; the cache agrees. *)
InService == <<vault[Len(vault) - 1], Newest>>
Settled == Len(vault) >= 2 /\ lastTwoPools = InService

Init ==
    /\ vault = <<>> /\ lastTwoPools = EmptyCache
    /\ joltHeight = 0 /\ pubHeight = 0 /\ jcMove = {} /\ piMove = {}
    /\ coins = [p \in Pool |-> 0]
    /\ token = [p \in Pool |-> 0] /\ bnb = [p \in Pool |-> 0]
    /\ transfer = <<>>

-----------------------------------------------------------------------------
(* The map moveFundReq: Store replaces the entry that has the same key. *)

AddMoveFundItem(m, p, h) == {e \in m : e.key # h} \cup {[key |-> h, pool |-> p]}

(* The entry PopMoveFundItemAfterBlock takes at height h, if any. *)
Due(m, h) == {e \in m : (\A f \in m : e.key <= f.key) /\ h - e.key > Gap}

Queued(m) == {e.pool : e \in m}

-----------------------------------------------------------------------------
(* The vault creates a pool, and users and the bridge fund it.  "calm": the *)
(* previous rotation is over; "polled": the node has seen it.               *)
MayRotate ==
    \/ Rotation = "any"
    \/ Len(vault) < 2
    \/ Rotation = "polled" /\ Settled
    \/ Rotation = "calm" /\ Settled /\ jcMove = {} /\ piMove = {}

CreatePool(p, c, t, b) ==
    /\ MayRotate
    /\ \A i \in 1..Len(vault) : vault[i] # p
    /\ vault' = Append(vault, p)
    /\ coins' = [coins EXCEPT ![p] = c]
    /\ token' = [token EXCEPT ![p] = t]
    /\ bnb' = [bnb EXCEPT ![p] = b]
    /\ transfer' = <<>>
    /\ UNCHANGED <<lastTwoPools, joltHeight, jcMove, pubHeight, piMove>>

-----------------------------------------------------------------------------
(* case block := <-newBlockChan *)
NextJoltBlock == joltHeight < MaxJolt /\ joltHeight' = joltHeight + 1

(* The query fails, or answers fewer than two pools. *)
JoltBlockNoPools ==
    /\ NextJoltBlock
    /\ transfer' = <<>>
    /\ UNCHANGED <<poolVars, jcMove, coins, pubVars>>

JoltBlockFill ==
    /\ NextJoltBlock /\ Len(vault) >= 2 /\ lastTwoPools[1] = None
    /\ lastTwoPools' = FillPools(lastTwoPools, QueryLastPoolAddress(vault))
    /\ transfer' = <<>>
    /\ UNCHANGED <<vault, jcMove, coins, pubVars>>

(* Fault: the pool that leaves the cache is not compared with the newest. *)
Retires_Unchecked(prev) == NeedUpdate(QueryLastPoolAddress(vault), lastTwoPools)

(* The two maps after a change of pools, handled at joltify height h. *)
Retires(prev) == NeedUpdate(QueryLastPoolAddress(vault), lastTwoPools) /\ prev # Newest
RetireJolt(h) ==
    IF Retires(lastTwoPools[1])
    THEN AddMoveFundItem(jcMove, lastTwoPools[1], h - Gap + Ahead) ELSE jcMove
RetirePub ==
    IF Retires(lastTwoPools[1])
    THEN AddMoveFundItem(piMove, lastTwoPools[1], pubHeight - Gap + Ahead) ELSE piMove

PollPools ==
    /\ NextJoltBlock /\ Len(vault) >= 2 /\ lastTwoPools[1] # None
    /\ lastTwoPools' = NextCache(lastTwoPools, QueryLastPoolAddress(vault))
    /\ piMove' = RetirePub
    /\ UNCHANGED <<vault, pubHeight, token, bnb>>

JoltBlockNothingDue ==
    /\ PollPools
    /\ jcMove' = RetireJolt(joltHeight')
    /\ Due(jcMove', joltHeight') = {}
    /\ transfer' = <<>>
    /\ UNCHANGED coins

(* An entry of a pool this node does not sign for is dropped. *)
JoltBlockNotSigner ==
    /\ PollPools
    /\ LET m == RetireJolt(joltHeight')
       IN \E e \in Due(m, joltHeight') : e.pool \notin SignerPool /\ jcMove' = m \ {e}
    /\ transfer' = <<>>
    /\ UNCHANGED coins

(* MoveFunds finds no balance, and the entry is gone. *)
JoltBlockEmpty ==
    /\ PollPools
    /\ LET m == RetireJolt(joltHeight')
       IN \E e \in Due(m, joltHeight') :
            e.pool \in SignerPool /\ coins[e.pool] = 0 /\ jcMove' = m \ {e}
    /\ transfer' = <<>>
    /\ UNCHANGED coins

(* Fault: the entry is dropped after an attempt. *)
JoltBlockRetry_Once ==
    /\ PollPools
    /\ LET m == RetireJolt(joltHeight')
       IN \E e \in Due(m, joltHeight') :
            /\ e.pool \in SignerPool
            /\ jcMove' = m \ {e}
            /\ \/ transfer' = <<>> /\ UNCHANGED coins
               \/ /\ coins[e.pool] > 0
                  /\ transfer' = <<e.pool, Newest>>
                  /\ \/ UNCHANGED coins
                     \/ coins' = [coins EXCEPT ![e.pool] = 0, ![Newest] = @ + coins[e.pool]]

(* MoveFunds fails, or broadcasts a transfer the chain may still refuse.    *)
JoltBlockRetry ==
    /\ PollPools
    /\ LET m == RetireJolt(joltHeight')
       IN \E e \in Due(m, joltHeight') :
            /\ e.pool \in SignerPool
            /\ jcMove' = AddMoveFundItem(m \ {e}, e.pool, joltHeight')
            /\ \/ transfer' = <<>> /\ UNCHANGED coins
               \/ /\ coins[e.pool] > 0
                  /\ transfer' = <<e.pool, Newest>>
                  /\ \/ UNCHANGED coins
                     \/ coins' = [coins EXCEPT ![e.pool] = 0, ![Newest] = @ + coins[e.pool]]

-----------------------------------------------------------------------------
(* case head := <-pubNewBlockChan *)
NextPubBlock ==
    /\ pubHeight < MaxPub /\ pubHeight' = pubHeight + 1
    /\ UNCHANGED <<poolVars, joltVars>>

PubBlockNothingDue ==
    /\ NextPubBlock /\ Due(piMove, pubHeight') = {}
    /\ transfer' = <<>>
    /\ UNCHANGED <<piMove, token, bnb>>

PubBlockNotSigner ==
    /\ NextPubBlock
    /\ \E e \in Due(piMove, pubHeight') :
            e.pool \notin SignerPool /\ piMove' = piMove \ {e}
    /\ transfer' = <<>>
    /\ UNCHANGED <<token, bnb>>

(* MoveFunds on the public chain calls an account empty up to some dust. *)
IsClear(p) == token[p] = 0 /\ bnb[p] <= Dust

(* Fault: an account without tokens counts as empty. *)
PubBlockEmpty_TokensOnly ==
    /\ NextPubBlock
    /\ \E e \in Due(piMove, pubHeight') :
            e.pool \in SignerPool /\ token[e.pool] = 0 /\ piMove' = piMove \ {e}
    /\ transfer' = <<>>
    /\ UNCHANGED <<token, bnb>>

PubBlockEmpty ==
    /\ NextPubBlock
    /\ \E e \in Due(piMove, pubHeight') :
            e.pool \in SignerPool /\ IsClear(e.pool) /\ piMove' = piMove \ {e}
    /\ transfer' = <<>>
    /\ UNCHANGED <<token, bnb>>

(* Every other attempt puts the entry back under the current height. *)
PutBack(e) ==
    /\ e.pool \in SignerPool
    /\ piMove' = AddMoveFundItem(piMove \ {e}, e.pool, pubHeight')

PubBlockFails ==
    /\ NextPubBlock
    /\ \E e \in Due(piMove, pubHeight') : PutBack(e)
    /\ transfer' = <<>>
    /\ UNCHANGED <<token, bnb>>

(* The tokens go first, since the native coins pay for their transfer. *)
MoveTokens(p, to) ==
    /\ token[p] > 0 /\ bnb[p] >= GasFee
    /\ transfer' = <<p, to>>
    /\ \/ UNCHANGED <<token, bnb>>
       \/ /\ token' = [token EXCEPT ![p] = 0, ![to] = @ + token[p]]
          /\ bnb' = [bnb EXCEPT ![p] = @ - GasFee]

(* Fault: the whole balance is moved, with nothing left for the gas. *)
MoveFund_NoFee(p) == bnb[p]

(* moveBnb keeps one and a half times the fee and moves more than dust. *)
MoveFund(p) == bnb[p] - (3 * GasFee) \div 2

MoveBnb(p, to) ==
    /\ token[p] = 0 /\ bnb[p] > Dust
    /\ UNCHANGED token
    /\ IF MoveFund(p) > Dust
       THEN /\ transfer' = <<p, to>>
            /\ \/ UNCHANGED bnb
               \/ bnb' = [bnb EXCEPT ![p] = @ - MoveFund(p) - GasFee,
                                     ![to] = @ + MoveFund(p)]
       ELSE transfer' = <<>> /\ UNCHANGED bnb

(* Fault: the receiver is the older slot of the cache. *)
PubBlockMoves_OtherSlot ==
    /\ NextPubBlock
    /\ \E e \in Due(piMove, pubHeight') :
        /\ PutBack(e)
        /\ MoveTokens(e.pool, lastTwoPools[1]) \/ MoveBnb(e.pool, lastTwoPools[1])

(* MoveFunds returns without an error and without calling the account empty. *)
PubBlockMoves ==
    /\ NextPubBlock
    /\ \E e \in Due(piMove, pubHeight') :
        /\ PutBack(e)
        /\ MoveTokens(e.pool, lastTwoPools[2]) \/ MoveBnb(e.pool, lastTwoPools[2])

-----------------------------------------------------------------------------
JoltBlock ==
    \/ JoltBlockNoPools \/ JoltBlockFill \/ JoltBlockNothingDue
    \/ JoltBlockNotSigner \/ JoltBlockEmpty \/ JoltBlockRetry

PubBlock ==
    \/ PubBlockNothingDue \/ PubBlockNotSigner \/ PubBlockEmpty
    \/ PubBlockFails \/ PubBlockMoves

Next ==
    \/ \E p \in Pool, c \in Coins, t \in Tokens, b \in Bnbs : CreatePool(p, c, t, b)
    \/ JoltBlock \/ PubBlock

Spec == Init /\ [][Next]_vars

-----------------------------------------------------------------------------
Created == {vault[i] : i \in 1..Len(vault)}
MoveReq == [key : Int, pool : Pool]

(* Every variable keeps its type: in particular no balance of a pool is     *)
(* overdrawn by moveBnb, and no nil pool is scheduled to be emptied.        *)
TypeOK ==
    /\ vault \in Seq(Pool)
    /\ lastTwoPools \in Cache
    /\ joltHeight \in Nat /\ pubHeight \in Nat
    /\ jcMove \subseteq MoveReq /\ piMove \subseteq MoveReq
    /\ coins \in [Pool -> Nat] /\ token \in [Pool -> Nat] /\ bnb \in [Pool -> Nat]
    /\ transfer \in {<<>>} \cup (Pool \X Pool)

Older(p, q) ==
    \E i, k \in 1..Len(vault) : i < k /\ vault[i] = p /\ vault[k] = q

(* Funds move forward only: every transfer the bridge makes between pools   *)
(* goes from an older pool to a newer one, even when the rotations outrun   *)
(* the polling, so no pool in service is emptied into a retired one.        *)
MovesForward == transfer # <<>> => Older(transfer[1], transfer[2])

(* The newest pool of the vault is never scheduled to be emptied, although  *)
(* the first fill of the cache takes it for the older one.                  *)
NewestNotQueued ==
    vault # <<>> => Newest \notin Queued(jcMove) \cup Queued(piMove)

(* The pools this node must empty: it signs for them, it has seen them in   *)
(* service, and they are in service no longer.                              *)
Retired == {p \in Created \cap SignerPool :
                Older(p, lastTwoPools[1]) /\ Older(p, lastTwoPools[2])}

(* A retired pool that still holds coins is scheduled to be emptied on the  *)
(* joltify chain: neither a failing attempt nor a transfer that the chain   *)
(* refused makes the bridge forget it.                                      *)
NoCoinsForgotten ==
    \A p \in Retired : coins[p] > 0 => p \in Queued(jcMove)

(* The same on the public chain, where the tokens and the native coins go   *)
(* in two transfers that may fail independently.                            *)
NoTokensForgotten ==
    \A p \in Retired : ~IsClear(p) => p \in Queued(piMove)

(* A joltify block that updates a filled cache leaves the newest two pools  *)
(* in it, newest last, also right after the first fill, which takes them in *)
(* the wrong order.                                                         *)
CacheSettles == [][PollPools => lastTwoPools' = InService]_vars
=============================================================================

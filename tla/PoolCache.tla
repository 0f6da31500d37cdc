----------------------------- MODULE PoolCache -----------------------------
(***************************************************************************)
(* The two-slot cache of TSS pools that both halves of the bridge keep     *)
(* (lastTwoPools of PubChainInstance and of JoltifyChainInstance), and the *)
(* decision the event loop takes about it on every joltify block.          *)
(*                                                                         *)
(* The vault module of the joltify chain is the source of truth.  It is    *)
(* represented by the sequence of pools it has created, oldest first;      *)
(* QueryLastPoolAddress answers with the newest two, newest FIRST, while   *)
(* the cache keeps the newest LAST.  A pool stands for its public key: the *)
(* joltify address and the eth address are functions of it.                *)
(***************************************************************************)
EXTENDS Integers, Sequences

CONSTANTS
    Pool,        \* the TSS pools the vault may create
    None         \* Go's nil

ASSUME NoneNotPool == None \notin Pool

(* A slot of the cache, and the cache: <<lastTwoPools[0], lastTwoPools[1]>>. *)
Slot == Pool \cup {None}
Cache == Slot \X Slot

EmptyCache == <<None, None>>

(* The pools the vault has created, as QueryLastPoolAddress reports them. *)
QueryLastPoolAddress(vault) ==
    LET n == Len(vault)
    IN  IF n < 2 THEN SubSeq(vault, 1, n) ELSE <<vault[n], vault[n-1]>>

(* The newest slot moves down when it is occupied, the pool takes its place. *)
UpdatePool(cache, p) ==
    << IF cache[2] # None THEN cache[2] ELSE cache[1], p >>

(* Fault: the first fill stores the newest pool only. *)
FillPools_NewestOnly(cache, poolInfo) == UpdatePool(cache, poolInfo[1])

(* The first fill walks the answer of the vault from the newest pool on. *)
FillPools(cache, poolInfo) ==
    UpdatePool(UpdatePool(cache, poolInfo[1]), poolInfo[2])

(* Fault: the answer and the cache are compared in the same order. *)
NeedUpdate_SameOrder(poolInfo, cache) ==
    \/ cache[1] = None
    \/ cache[2] = None
    \/ poolInfo[1] # cache[1]
    \/ poolInfo[2] # cache[2]

(* The cache has the newest pool last, the answer of the vault first. *)
NeedUpdate(poolInfo, cache) ==
    \/ cache[1] = None
    \/ cache[2] = None
    \/ poolInfo[1] # cache[2]
    \/ poolInfo[2] # cache[1]

(* The cache after one joltify block whose query answered poolInfo. *)
NextCache(cache, poolInfo) ==
    IF cache[1] = None           THEN FillPools(cache, poolInfo)
    ELSE IF NeedUpdate(poolInfo, cache) THEN UpdatePool(cache, poolInfo[1])
    ELSE cache

(* An address belongs to the bridge when it is one of the cached pools. *)
checkToBridge(cache, dest) ==
    \E i \in 1..2 : cache[i] # None /\ dest = cache[i]
=============================================================================

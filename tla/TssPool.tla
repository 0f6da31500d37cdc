------------------------------ MODULE TssPool ------------------------------
(***************************************************************************)
(* How one node follows the validator set of the joltify chain and         *)
(* announces the TSS pool generated for each new set.                      *)
(*                                                                         *)
(* The node reads the whole set once (InitValidators), subscribes, and     *)
(* from then on applies the differences that the chain announces.  Every   *)
(* difference makes the members of the new set generate a key together;    *)
(* the node then appends to msgSendCache a message to be broadcast when    *)
(* the block after the one it last knew of arrives.  CheckAndUpdatePool,   *)
(* run for each block, looks at the oldest message only.                   *)
(*                                                                         *)
(* Events of one subscription come in order, but the loop picks among the  *)
(* subscriptions, and blocks go on while a key is being generated.         *)
(***************************************************************************)
EXTENDS Integers, Sequences, FiniteSets

CONSTANTS
    Validator,      \* validator keys
    Me,             \* the key of this node
    Faults,         \* what may go wrong: see Fault
    MaxHeight,      \* bound: blocks of the joltify chain
    MaxUpdates      \* bound: changes of the validator set

(* "gap": the set changes between InitValidators and the subscription;      *)
(* "height": GetLastBlockHeight fails; "keygen": the key generation or the  *)
(* query after it fails; "gas": the gas estimation fails; "broadcast": the  *)
(* broadcast fails.                                                         *)
Fault == {"gap", "height", "keygen", "gas", "broadcast"}

ASSUME TssPoolAssumption ==
    /\ Me \in Validator /\ Faults \subseteq Fault
    /\ MaxHeight \in Nat /\ MaxUpdates \in Nat

VARIABLES
    height,         \* height of the joltify chain
    chainVals,      \* its validators
    changes,        \* changes of the set so far
    accSeq,         \* sequence number of the operator's account
    registered,     \* pools announced on the chain
    phase,          \* "start", "ready" (initialised), "running" (subscribed)
    pc,             \* "idle" at the select, "keygen" inside KeyGen
    valChan,        \* validatorUpdateChan
    handled,        \* the last block taken from newBlockChan
    active,         \* activeValidators
    setHeight,      \* blockHeight of the validator set
    keys,           \* keys generated so far; the n-th one is pool n
    msgSendCache,   \* messages that announce pools
    missed          \* history: an update of the set never reached the node

chainVars == <<height, chainVals, changes>>
loopVars == <<phase, pc, valChan, handled, active, setHeight>>
vars == <<chainVars, accSeq, registered, loopVars, keys, msgSendCache, missed>>

(* What a block says of the set: the validators that have some voting power *)
(* now (new ones, or members whose power changed) and those that have none. *)
Update == [join : SUBSET Validator, leave : SUBSET Validator]
Msg == [pool : Nat, seq : Nat, height : Nat]

Init ==
    /\ height = 0 /\ chainVals \in SUBSET Validator /\ changes = 0
    /\ accSeq = 0 /\ registered = {}
    /\ phase = "start" /\ pc = "idle" /\ valChan = <<>> /\ handled = 0
    /\ active = {} /\ setHeight = 0 /\ keys = 0 /\ msgSendCache = <<>>
    /\ missed = FALSE

-----------------------------------------------------------------------------
(* The chain commits a block; a block may change the validator set. *)
CommitBlock ==
    /\ height < MaxHeight
    /\ height' = height + 1
    /\ UNCHANGED <<chainVals, changes, accSeq, registered, loopVars, keys, msgSendCache, missed>>

CommitUpdate(u) ==
    /\ height < MaxHeight /\ changes < MaxUpdates
    /\ phase = "running" \/ "gap" \in Faults
    /\ u.leave \subseteq chainVals /\ u.join \cap u.leave = {}
    /\ u.join \cup u.leave # {}
    /\ height' = height + 1 /\ changes' = changes + 1
    /\ chainVals' = (chainVals \ u.leave) \cup u.join
    /\ valChan' = IF phase = "running" THEN Append(valChan, u) ELSE valChan
    /\ missed' = (missed \/ phase = "ready")
    /\ UNCHANGED <<accSeq, registered, phase, pc, handled, active, setHeight>>
    /\ UNCHANGED <<keys, msgSendCache>>

-----------------------------------------------------------------------------
InitValidators ==
    /\ phase = "start"
    /\ phase' = "ready"
    /\ active' = chainVals /\ setHeight' = height
    /\ UNCHANGED <<chainVars, accSeq, registered, pc, valChan, handled, keys, msgSendCache, missed>>

(* Blocks and updates before the subscription are not delivered. *)
AddSubscribe ==
    /\ phase = "ready"
    /\ phase' = "running"
    /\ handled' = height
    /\ UNCHANGED <<chainVars, accSeq, registered, pc, valChan, active, setHeight>>
    /\ UNCHANGED <<keys, msgSendCache, missed>>

Idle == phase = "running" /\ pc = "idle"

(* case vals := <-validatorUpdateChan: GetLastBlockHeight fails, and the    *)
(* update is gone.                                                          *)
UpdateDropped ==
    /\ Idle /\ valChan # <<>> /\ "height" \in Faults
    /\ valChan' = Tail(valChan)
    /\ missed' = TRUE
    /\ UNCHANGED <<chainVars, accSeq, registered, phase, pc, handled, active, setHeight>>
    /\ UNCHANGED <<keys, msgSendCache>>

(* Fault: a validator without voting power stays. *)
UpdateValidatorSet_NoLeave(vals, u) == vals \cup u.join

UpdateValidatorSet(vals, u) == (vals \ u.leave) \cup u.join

(* HandleUpdateValidators up to the key generation, which the members join. *)
HandleUpdateValidators ==
    /\ Idle /\ valChan # <<>>
    /\ valChan' = Tail(valChan)
    /\ active' = UpdateValidatorSet(active, Head(valChan))
    /\ setHeight' = height
    /\ pc' = IF Me \in active' THEN "keygen" ELSE "idle"
    /\ UNCHANGED <<chainVars, accSeq, registered, phase, handled, keys, msgSendCache, missed>>

KeyGenFails ==
    /\ pc = "keygen" /\ "keygen" \in Faults
    /\ pc' = "idle"
    /\ UNCHANGED <<chainVars, accSeq, registered, phase, valChan, handled, active>>
    /\ UNCHANGED <<setHeight, keys, msgSendCache, missed>>

(* Faults: the message carries the last sequence used; goes to the front. *)
prepareTssPool_LastSeq(h) ==
    msgSendCache' = Append(msgSendCache, [pool |-> keys + 1, seq |-> accSeq - 1, height |-> h])
prepareTssPool_Front(h) ==
    msgSendCache' = <<[pool |-> keys + 1, seq |-> accSeq, height |-> h]>> \o msgSendCache

(* prepareTssPool: the message carries the sequence the account has now. *)
prepareTssPool(h) ==
    msgSendCache' = Append(msgSendCache, [pool |-> keys + 1, seq |-> accSeq, height |-> h])

(* Fault: the message is scheduled for the block of the update itself. *)
KeyGenDone_SameBlock ==
    /\ pc = "keygen"
    /\ pc' = "idle"
    /\ keys' = keys + 1
    /\ prepareTssPool(setHeight)
    /\ UNCHANGED <<chainVars, accSeq, registered, phase, valChan, handled, active, setHeight, missed>>

KeyGenDone ==
    /\ pc = "keygen"
    /\ pc' = "idle"
    /\ keys' = keys + 1
    /\ prepareTssPool(setHeight + 1)
    /\ UNCHANGED <<chainVars, accSeq, registered, phase, valChan, handled, active, setHeight, missed>>

-----------------------------------------------------------------------------
(* case block := <-newBlockChan: CheckAndUpdatePool of the next block. *)
NextBlock ==
    /\ Idle /\ handled < height
    /\ handled' = handled + 1
    /\ UNCHANGED <<chainVars, phase, pc, valChan, active, setHeight, keys, missed>>

HeadMatches == msgSendCache # <<>> /\ Head(msgSendCache).height = handled + 1

BlockNoMessage ==
    /\ NextBlock /\ ~HeadMatches
    /\ UNCHANGED <<accSeq, registered, msgSendCache>>

(* GasEstimation simulates the message: it fails for an outdated sequence.  *)
(* The message stays where it is.                                           *)
GasEstimationFails ==
    /\ NextBlock /\ HeadMatches
    /\ Head(msgSendCache).seq # accSeq \/ "gas" \in Faults
    /\ UNCHANGED <<accSeq, registered, msgSendCache>>

(* A broadcast that fails or times out takes the message with it, whether   *)
(* or not the chain got it.                                                 *)
BroadcastFails ==
    /\ NextBlock /\ HeadMatches /\ Head(msgSendCache).seq = accSeq
    /\ "broadcast" \in Faults
    /\ msgSendCache' = Tail(msgSendCache)
    /\ \/ UNCHANGED <<accSeq, registered>>
       \/ /\ accSeq' = accSeq + 1
          /\ registered' = registered \cup {Head(msgSendCache).pool}

BroadcastDone ==
    /\ NextBlock /\ HeadMatches /\ Head(msgSendCache).seq = accSeq
    /\ msgSendCache' = Tail(msgSendCache)
    /\ accSeq' = accSeq + 1
    /\ registered' = registered \cup {Head(msgSendCache).pool}

-----------------------------------------------------------------------------
Next ==
    \/ CommitBlock \/ \E u \in Update : CommitUpdate(u)
    \/ InitValidators \/ AddSubscribe
    \/ UpdateDropped \/ HandleUpdateValidators \/ KeyGenFails \/ KeyGenDone
    \/ BlockNoMessage \/ GasEstimationFails \/ BroadcastFails \/ BroadcastDone

Spec == Init /\ [][Next]_vars

-----------------------------------------------------------------------------
(* Every variable keeps its type. *)
TypeOK ==
    /\ height \in Nat /\ chainVals \subseteq Validator /\ changes \in Nat
    /\ accSeq \in Nat /\ registered \subseteq Nat
    /\ phase \in {"start", "ready", "running"} /\ pc \in {"idle", "keygen"}
    /\ valChan \in Seq(Update) /\ handled \in Nat
    /\ active \subseteq Validator /\ setHeight \in Nat /\ keys \in Nat
    /\ msgSendCache \in Seq(Msg) /\ missed \in BOOLEAN

(* A message is scheduled for a block that the loop has not handled yet,    *)
(* however many blocks were committed before the update was handled and     *)
(* while the key was being generated.                                       *)
ScheduledAhead ==
    [][Len(msgSendCache') > Len(msgSendCache) =>
          msgSendCache'[Len(msgSendCache')].height > handled']_vars

(* The messages are in the order of their blocks, which CheckAndUpdatePool  *)
(* relies on when it looks at the first one only.                           *)
CacheSorted ==
    \A i, k \in 1..Len(msgSendCache) :
        i < k => msgSendCache[i].height <= msgSendCache[k].height

(* When the node has handled every update it was sent, it knows the         *)
(* validators of the chain, unless an update got lost: between the first    *)
(* query and the subscription, or by a failing query of the height.         *)
ValidatorsTracked ==
    phase = "running" /\ valChan = <<>> /\ ~missed => active = chainVals
=============================================================================

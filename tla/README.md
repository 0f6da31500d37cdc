# oppy-bridge: a TLA+ model of the bridge node

The repository is a bridge between a public, Ethereum-like chain (BSC) and the
joltify chain. A set of nodes, the validators of the joltify chain, hold shares
of a threshold (TSS) key, the *pool*. Users send tokens to the pool on one chain
and get them issued (joltify) or paid out (public chain) on the other. Every
time the validator set changes a new pool is generated, and the funds of the
old ones are moved to it.

This directory holds TLA+ modules of a node, of several nodes that sign together,
and of the chains around them, TLC configurations that check them on small instances, and TLAPS proofs for all
values of the constants. `PROJECT.json` maps every definition to the code.

    tlc -workers 2 -config Inbound_safety.cfg MCInbound
    tlapm InboundProofs.tla

## 1. Inventory

| part | code | state | operations |
|---|---|---|---|
| event loop | `bridge/joltifyBridge.go` `addEventLoop` | none of its own | one goroutine, a `select` over six channels |
| inbound path | `pubchain/tx_inbound.go`, `pubchain/types.go` | `pendingInbounds`, `pendingInboundsBnB`, `InboundReqChan`, `RetryInboundReq` | `ProcessNewBlock`, `processInboundTx`, `updateInboundTx`, `DeleteExpired`, `AddItem`, `PopItem` |
| process life cycle | `bridge/joltifyBridge.go` `NewBridgeService`, `bridge/http.go` | the `WaitGroup`, the context, the signal | the steps of the start, `Start`, `StartSubscription`, `TerminateBridge` |
| minting | `joltifybridge/mint.go`, `validator.go`, `helper.go`, `bridge.go` | records and account sequence on the joltify chain | `ProcessInBound`, `GasEstimation`, `genSendTx`, `BroadcastTx`, `CheckTxStatus` |
| pool cache | `bridge/helper.go`, `UpdatePool`/`GetPool` of both halves | `lastTwoPools` (twice) | `NeedUpdate`, `UpdatePool`, `checkToBridge` |
| fund moving | `joltifybridge/types.go`, `tx_outbound.go`, `pubchain/tx_inbound.go` | `moveFundReq` (one per chain) | `AddMoveFundItem`, `PopMoveFundItemAfterBlock`, `MoveFunds`, `moveBnb`, `moveERC20Token` |
| validators and announcement of pools | `joltifybridge/validator.go`, `event.go`, `bridge.go`, `validators/` | `activeValidators`, `blockHeight`, `msgSendCache` | `InitValidators`, `HandleUpdateValidators`, `prepareTssPool`, `CheckAndUpdatePool` |
| outbound path | `joltifybridge/tx_outbound.go`, `pubchain/tx_send.go` | `RetryOutboundReq`, `OutboundReqChan` | `CheckOutBoundTx`, `processMsg`, `ProcessOutBound`, `CheckTxStatus` |
| transaction building, TSS client | `joltifybridge/bridge.go`, `pubchain/tx_send.go`, `tssclient/` | none that the loop reads | `genSendTx`, `signTx`, `composeTx`, `tssSign` |
| conversions, metrics, config, encoding, generated bindings | `misc/`, `monitor/`, `config/`, `cmd/`, `generated/` | none that the loop reads | |

**How the parts interact.** Everything runs in the event loop except the
goroutines that wait for the outcome of a submitted transaction; these share
the retry maps with the loop. The loop is both the only producer and the only
consumer of `InboundReqChan` and of `OutboundReqChan`. The cache of pools decides which deposits are
recognised, who signs and where funds go. Nodes meet in the TSS library, where a
quorum has to sign the same bytes, and on the chains, where the sequence or
nonce of the pool's account decides between two transactions. Nothing is
persisted: a restart forgets every map.

**What is hard.** The order in which a fee and its deposit arrive, over blocks,
instalments and reorganisations; requests that fail, time out or were minted by
somebody else; the loop waiting on itself; rotations faster than the polling;
maps keyed by heights; unsigned arithmetic on heights; updates and blocks that
queue up while a key is generated; several nodes that mint or pay for one
request, each with its own retries, and must do so once. `PROJECT.json` lists each hazard at its
line, with the properties aimed at it or the reason why there is none yet.

## 2. Modules

| module | models | composed with |
|---|---|---|
| `PoolCache` | the two-slot cache as pure operators: `QueryLastPoolAddress`, `UpdatePool`, `FillPools`, `NeedUpdate`, `NextCache`, `checkToBridge` | extended by `Inbound`, `PoolRotation`, `Outbound` |
| `Inbound` | deposits, fees, requests, minting and its check, for one node, with the two chains and the other nodes as environment | |
| `PoolRotation` | polling, the two `moveFundReq` maps, `MoveFunds` on both chains with the balances of the pools | |
| `TssPool` | the validator set, key generation, `msgSendCache` | |
| `Issue` | the abstract promise of a bridge: at most one mint, or payment, for a request | implemented by `Mint`; the ideal that `Outbound` is compared with |
| `Payout` | what outbound transfers do promise: at most one payment for a deposit, unless a signer was told of an error about a transfer that was executed or could still be | implemented by `Outbound` |
| `Mint` | `ProcessInBound` of several nodes in its steps, their lagging full nodes, the account sequence | implements `Issue` |
| `Outbound` | outbound requests of several nodes: recognition, retries, signing, broadcast, the check of the receipt, restarts; mempool and nonces of the public chain | extends `PoolCache`, implements `Payout` |
| `Service` | the process from start to end | |
| `MCInbound`, `MCPoolRotation`, `MCTssPool`, `MCMint`, `MCOutbound` | instances for TLC; `MCInbound` also has the failure-free specification | |
| `InboundProofs`, `InboundPaymentProofs`, `PoolRotationProofs`, `TssPoolProofs`, `MintProofs`, `OutboundProofs`, `ServiceProofs` | the theorems | `InboundPaymentProofs` extends `InboundProofs` |

Definitions with a suffix such as `Verify_Short` are deliberately wrong versions
of the definition they follow (a dropped guard, an off-by-one, a missing reset).
No specification uses them; putting one in place of the original makes a
property fail, which is how each property is known to say something.

### Inbound

A request is identified with the hash of the token transfer it comes from.
A public transaction is reduced to what the node tells apart: whether the
calldata decodes as a transfer and to which contract (`erc20`, `foreign`),
a plain transfer whose calldata names another transaction (`native`), or a
contract creation; its receiver, value and receipt status; `own` keeps two equal
payments apart. As in `checkErc20`, the method selector is not looked at.
`TxAssumption` is what a hash means: a transaction is in a block once, and of the
token transfers with one hash at most one succeeded (a reverted attempt may be
followed, after a reorganisation, by a successful one).

The `pubNewBlockChan` case is several steps (`NewHead` or `NewHeadFails`, one
`ProcessTx` per transaction, `FinishBlock`), because goroutines and chains go on
meanwhile: `TransactionReceipt` is a call per transaction. The other cases are
one step each. `RetryInboundReq` is a bag: the code's map is keyed by a
`*big.Int`, that is by a pointer, so a second `Store` of the same hash adds an
entry. A send to a full `InboundReqChan` sets `blocked`, after which the loop
takes no step. A goroutine in `CheckTxStatus` is a `Job`; it may give up once
`CheckBlocks` joltify blocks have passed since it started. Its `index` is
`"empty"` when `ProcessInBound` returned no index. `CheckWhetherSigner`'s error
(an unreadable in-memory keyring) is not modelled.

### PoolRotation

`lastTwoPools` stands for both copies, which the loop updates with the same pool
in the same turn. `transfer` is a history variable: the transfer of the last
step. Balances are numbers; `MoveFund` keeps one and a half times the gas fee,
as the code does with `GASFEERATIO`. `Rotation` says how fast the environment
creates pools: `"calm"`, only when the last rotation is completely over;
`"polled"`, only when the node has seen it; `"any"`. Pools get their funds when
they are created.

### TssPool

`Faults` lists what may go wrong in an instance. `missed` is a history variable:
an update of the validator set was lost, in the gap between `InitValidators`
and the subscription or by a failing `GetLastBlockHeight`; the code does nothing
about either, and from then on the node's set is wrong. Updates that only change
the voting power of a member are included: they start a key generation too.

### Mint and Issue

`Inbound` has one node and leaves the others to the environment; `Mint` turns it
around: any node may process any request at any time, and a node's call is the
sequence of its steps, `job[n]`. What two mints may differ in is the request, the
pool and the sequence, so that is a transaction. A full node answers from the
state of an earlier block (`view`); `queryAccount` and the query of the record
go to the same full node, in that order, and the simulation of `GasEstimation`
refuses a sequence that is not the reported one. A quorum signs when all its
members wait with the same transaction. `Flaky` are nodes whose query of the
record may fail, which `CheckWhetherAlreadyExist` takes for a missing record.
`Refuses` says whether the vault, which is not in this repository, rejects a
second record of a request: the run and the interesting half of the proof are
about a vault that does not.

### Outbound

`item[n][d]` is where node `n` has its request for message `d`: the request is a
pointer which is in one place. `MsgSend`s are reduced to what `processMsg` looks
at: the code of their transaction, the receiver, whether the amounts are the
right pair of denominations, the fee. As in the code, the nonce belongs to the
pool of the request's arrival (`fromPoolAddr`) and the key to the newest pool.
`PopItem` may take any request: the hash it orders by contains the block of the
last try. The loop is busy from `composeTx` to the answer of the broadcast, and
for ever in front of a full channel (`stuck`); the goroutine that watches the
receipt is not part of it.

`KeySign` is a call of every signer for itself. A ceremony starts when a quorum
waits with the same bytes (`tssSign`: from `sign` to `party`); from then on each
member gets the signature (`KeySign`) or an error (`KeySignFails`), whatever the
others get, so that one may put its request back (`joltifyBridge.go:351`) while
another broadcasts. That the TSS library also wants the same height only removes
behaviours. A transfer that some signer has or may get the signature of, or that is
in the mempool, or paid, is `Live`: it was executed or may still be. `doubted` is a
history variable: the live transfers of which a signer was told an error, by
`KeySign` or by the broadcast. `Lost` requests are those the code forgets without
an outcome: the check found no receipt within the minute (also one of a transfer
that was executed, or failed), or the node restarted. `CheckWhetherSigner`'s error
drops the request too; as in `Inbound` it is not modelled.

The public chain has one mempool with one transaction for a nonce, and a block may
come between any two broadcasts. `Faults` names what an instance allows: a signer
whose ceremony fails (`sign`), an answer that is lost (`lost`), a mempool that
forgets (`drop`), a receipt that does not come within the minute (`late`), a
restart (`restart`). `Spare` and `MaxNonce` bound the nonces: those below `Spare`
may be used up by failures and other transactions of the pool.

`signTx` and `tssSign` return a nil error when the library answers with a status
other than success. The empty signature is refused by their callers or by the
chain, so this is a failing signature.

### Service

One action per step of `NewBridgeService`, `Failing` are the steps that may fail:
before the deferred `TerminateBridge` is in place by `return` or `log.Fatalln`
(which skips deferred calls), after it through `TerminateBridge`. That function
leaves the TSS server running when the connection cannot be stopped. The error of
`ListenAndServe` is returned by `Start` only if its goroutine was fast enough, so
`ListenAndServe` is an action of its own. `Shutdown` is called with the context
that has just been cancelled (`http.go:84`): the listener is closed, but active
connections are not waited for (`draining`). The signal is trapped before the
passcode is read from stdin, so an interrupt at the prompt stays in its channel.
The event loop is reduced to whether it is at its `select`.

## 3. Runs

| run | expects | shows |
|---|---|---|
| `Inbound_safety` | pass | `TypeOK`; `NeverBothPending`: fee and deposit are joined by whichever comes second; `PoolsKnown`: no request before the cache is filled; `OnlyPaidDeposits`, `SingleCopy`: on a chain that has not reorganised a request is a paid deposit, and a deposit is in one place of the node, once; `NeverLost`: no failure loses a request; `PendingKept`: pending deposits are given up only after the timeout, while heads grow |
| `Inbound_live` | pass | `GreatestEventuallyIssued`: the request `PopItem` prefers is minted in the end |
| `Inbound_starve` | violation of `LeastEventuallyIssued` | `ProcessInBound` returns `"", "", nil` for a request that is minted already; its check waits a minute for the empty index and puts the request back, for ever. Those with greater hashes starve another, without any failure: two are enough here, where a check takes one block; as many as there are blocks in its minute, about a dozen at five seconds a block, in the code |
| `Rotation_safety` | pass | rotations at any pace: `TypeOK` (no balance overdrawn, no nil pool queued), `MovesForward`, `NewestNotQueued` |
| `Rotation_calm` | pass | calm rotations, all failures: `NoCoinsForgotten`, `NoTokensForgotten`, `CacheSettles` |
| `Rotation_collision` | violation of `NoCoinsForgotten` | with the code's constants, the retry of one pool and the first try of the next share a key of `moveFundReq`, and one is forgotten |
| `TssPool_safety` | pass | all faults: `TypeOK`, `CacheSorted`, `ScheduledAhead`, `ValidatorsTracked` |
| `Mint_safety` | pass | three nodes, two of which sign: `LateMintsDead`: a signed mint of an issued request has a sequence that is used up, whenever it is broadcast; `IssuesOnce`: `Issue` is implemented |
| `Outbound_safety` | pass | three nodes, every fault: `OneLiveUndoubted`: two transfers of a deposit may both still be executed only if a signer was told of an error about one of them; `PaidUnlessDoubted`: `Payout` is implemented |
| `Outbound_live` | pass | every fault: `EventuallyPaid`: a node that signs alone pays every accepted request, unless the check forgot it, a restart lost it, or the pool of its arrival is replaced |
| `Outbound_twice` | violation of `PaidOnce` | the chain executes a transfer between the broadcasts of two signers. The second is told "nonce too low", which `ProcessOutBound` does not take for "submitted by others", and pays again together with the third node. No fault is needed |
| `Service_quit` | pass | `TypeOK` (the counter of the `WaitGroup` is never negative); `GracefulMeansClosed`: after a graceful end nothing listens and both closers have run; `InterruptQuits`: an interrupt ends the process, also during the start or with a stuck loop, except at the passcode prompt, and after the public chain's subscription failed: its `wg.Add` has no `Done` |

Met while modelling, without a run of its own:

* The loop blocks on a send to a channel it alone drains (`SendInbound` with
  `blocked`, `PopItem` with `stuck`): with 512 requests in `InboundReqChan` or
  `OutboundReqChan` nothing is ever processed again. `Inbound_safety` reaches
  this state, and so does not check deadlock. No outbound run reaches it:
  `Outbound_safety` has one valid deposit, `Outbound_live` a channel for both. The
  theorems about `Outbound` hold for every capacity, with hanging loops too.
* A signer that fails alone pays twice like the late one of `Outbound_twice`: it
  puts its request back while another has the signature and broadcasts, and signs
  the next transfer with a third node. The same goes for a broadcast whose answer
  is lost. `OneLiveUndoubted` says that there is no other way.
* A transfer that failed is tried again only if a receipt is found within the
  minute: when the node's queries fail for so long, the request is forgotten,
  though the user was not paid (`CheckTimesOut`).
* `DeleteExpired` subtracts unsigned heights: after a reorganisation a lower head
  makes the age wrap, and a young deposit is dropped with the instalments counted
  so far. `PendingKept` is therefore about heads with growing numbers.
* Two pools created between two polls: `UpdatePool` shifts and stores the newest
  pool only, the older of them never enters the cache, and the next poll puts the
  newest in both slots (`NextCache`).
* The comment "we force the first try of the tx to be run without blocking by the
  block wait" does not hold: `h - MINCHECKBLOCKGAP + 5` is `h - 1`, and the entry
  waits for the gap like a retry.
* Two validator updates at one height leave two messages in `msgSendCache` for
  one block; the second stays in front for ever and hides all later ones
  (`CheckAndUpdatePool`).
* A public balance between the dust limit and dust plus one and a half fees is
  neither moved nor called empty, and its entry is retried for ever (`MoveBnb`).
* A changed validator set is lost in the start-up gap or by a failing height
  query (`missed`).
* Every pool has an account sequence of its own: if the pool rotates between two
  mints of a request, only the vault can refuse the second. `OnceAssumption`
  says so.
* After a rotation an outbound request asks for the nonce of the old pool and
  signs with the key of the new one. Where the nonces agree the transfer is valid;
  where they do not it is refused and tried again, or waits in the mempool, is not
  found within a minute and is forgotten.
* `InitValidators` says "please wait" to a chain that is not synced, but its
  context ends after ten seconds, and the start with it.
* A failing subscription leaves a process that serves nothing until it is
  interrupted: `addEventLoop` returns no error.

**Bounds.** `Inbound_safety`: three blocks of at most one transaction let a
deposit and both its instalments arrive in every order with and without a
reorganisation, and with `TxTimeout = 1` an entry expire; capacity 1 reaches the
full channel; `CheckBlocks = 0` lets a check give up at any time; `Word = 16`
is far above every height, so that a wrap shows as on 64 bits. `Inbound_live`
and `_starve` use blocks with complete deposits, so that the loop is what is
explored. `Rotation_*`: four pools are two rotations after the first fill; one
pool is foreign. Except where the code's `6` and `5` matter, `Gap = 1` and
`Ahead = 0` keep their difference (a first key one block old) and shorten the
wait. Pools the node signs for are interchangeable, so runs of invariants and
step properties use that symmetry. `TssPool_safety`: two validators, one of them this
node, and three updates: a join, a leave and a change can queue up during one
key generation. `Mint_safety`: with `MaxSeq = 2` a second sequence is there for a
second mint, and two of three signers leave a node that may sign it with either
of them. `Outbound_safety`: three nodes are the least for which two different
quorums share a node; two nonces are the least for two payments, and one of them
may be spent on a failure; of the two pools the first fill makes the older one the
newest and the next poll the other, so that the pool of a request's arrival, which
gives the nonces, and the one that signs can differ. `Outbound_live`: three nonces, one of
which failures may use. `Service_quit` has no bound.

**Deadlock** is not checked where a chain reaches its bound and nothing is left
to do, where the loop may be stuck, and where the process ends. `Inbound_live`,
`Inbound_starve` and `Mint_safety` check it.

**Fairness.** Go's `select` picks at random among the ready cases, so a case that
is ready again and again is taken again and again: strong fairness on each case;
weak fairness on the steps inside a block and on the goroutines. That a mint
which is tried again and again succeeds, and is executed, is an assumption on
the chain and the other nodes (strong fairness of `MintSubmitted`, `Execute`);
without it nothing can be promised. Failures stay possible at every step in
`Inbound_live`; `HealthyFairSpec`, for the liveness violation, has none.
`Outbound_live` likewise assumes that a request which is in the retry map again
and again is popped (its key changes with every try), that a call which is tried
again and again succeeds (strong fairness, for each request, of `composeTx`, `SignedBy`,
`KeySign`, the answers of the broadcast), that a check ends in one way or another,
and that the public chain executes what it can (weak fairness). `Service_quit`
assumes that the calls of the start return and that goroutines run, and nothing
of the event loop or the user: the read of the passcode may never return.

## 4. Proofs

For every number of pools, transactions, blocks, validators and faults, from the
named `ASSUME`s on the constants (types, `None` outside the sets it is added to, what a transaction hash and a quorum are):

* `InboundProofs`: `TypeOK`; `NeverBothPending`, which is inductive given the
  types; `PoolsKnown`, from the strengthening `QuietUntilFilled` (as long as a
  slot is nil nothing is pending or accepted and the cache is empty, since
  `checkToBridge` recognises nothing and the fill sets both slots in one turn);
  `NeverLost`, an action property: each action that takes a request away puts it
  somewhere else, or the request is minted, or the node is no signer;
  `PendingKept`, from the arithmetic of the age: the unsigned difference is never
  more than the true age unless the head is below the block of arrival.
* `InboundPaymentProofs`: `OnlyPaidDeposits` and `SingleCopy`, for every set of
  blocks and every value, from one invariant `PayInv` about the time before the
  first reorganisation. Neither property is inductive: both need to know that no
  transaction is looked at twice, which is a fact about the loop and the chain
  together. So the first part, `Following`, says how the loop follows the chain:
  the heads in the channel are those of the last blocks, in order; a transaction is
  on the chain once; what is left of the block at hand comes from a block whose
  head was taken. It divides the transactions of the chain into those *ahead* of
  the loop and those *past* it, and a turn of `processEachBlock` moves one across
  (`FollowNext`). The second part, `Covered`, compares the node with what is past:
  a deposit is pending or a request only if its token transfer is, so that
  `processInboundTx` meets a deposit that is nowhere yet; and a fee that is counted,
  in either map, is at most the sum of the payments past, of which the one at hand
  is not yet one. The third part is `SingleCopy` itself, unfolded into the places a
  deposit can be in (`Alone`), with a lemma for what each operation does to each
  place: the queue, the blocked send, the bag, the goroutines (`Age` maps a lone
  job to a lone job).
  The sum over a finite set of payments is the library's fold, about which only an
  induction could say anything; instead `LeastSubset` gives a least counterexample
  among the subsets of the set (their strict inclusion is well-founded), which is
  enough to prove that the fold is well defined, that any member can be taken out
  (`TotalValueRemove`), and that more payments are worth no less
  (`TotalValueMonotonic`).
* `PoolRotationProofs`: `TypeOK`, `NewestNotQueued`, `MovesForward`. The
  invariant says that created pools are distinct, that the cache holds created
  pools, and that every queued pool is older than the pool in the *newest slot*;
  "older than the newest pool" would not be enough, because the public chain's
  destination is the slot and the slot may lag behind the vault. `CacheSettles`,
  unless `Rotation = "any"`: the cache is empty, settled, as the first fill leaves it
  (newest first), or one pool behind, and a poll settles each of these.
  `NoCoinsForgotten` and `NoTokensForgotten` for `Rotation = "calm"`: each map has
  one entry at most, so that no key can collide, both are empty until the node has
  seen the rotation, and the first fill finds just two pools.
* `TssPoolProofs`: `TypeOK`, `CacheSorted`, `ScheduledAhead`, from the order of
  the heights (handled blocks and the set's height are not ahead of the chain;
  no block is handled during a key generation; no message is more than one block
  ahead of the set's height); `ValidatorsTracked`, from an invariant that says
  what a channel of *any* length tells: the last queued update that names a
  validator decides whether the chain has it, and the node's own set is right
  about those that none names.

* `MintProofs`: `TypeOK`, `LateMintsDead`, and `IssuesOnce`, the refinement: initial
  states of `Mint` map to those of `Issue`, and every step to an `Issue` step or a
  stutter. The invariant follows the order of the calls: a member of the quorum
  with working queries had seen, at the sequence it signed with, no record of the
  request; so a record that exists was made with that sequence or a later one, and
  the signed one is used up. It rests on `OnceAssumption`.
* `OutboundProofs`: `TypeOK`, `OneLiveUndoubted`, and `PaidUnlessDoubted`, the
  refinement of `Payout`, under every fault and for any pools whose quorums share a
  node (`QuorumAssumption`, the only assumption besides types). The invariant says
  that every live transfer that is not in doubt is *backed* by a quorum each member
  of which is committed to it: it signs it, has it in hand, watches it, or has let
  go of the request for good. A quorum that meets for another transfer of the
  deposit would have a member in common with that one, which a node cannot be, for
  its one request is in one place. A node gives up its commitment only when the
  transfer is dead (it failed, or its nonce is used by another) or by an error, and
  then the transfer is dead or in doubt. A transfer that is dead stays dead,
  because nonces only grow (`LiveShrinks`, `Nonces`). A payment that `Payout` does
  not allow would be the second of two live transfers neither of which is in doubt.
* `ServiceProofs`: `TypeOK` and `GracefulMeansClosed`, from the invariant that the
  counter is the number of `Done`s owed, plus one for the goroutine that a failed
  subscription did not start; so at zero both closers have run. What `Shutdown`
  does not wait for is not in it.

Every invariant and every step property of the passing runs, and both
refinements, are proved. Only model-checked: the liveness properties
`GreatestEventuallyIssued`, `EventuallyPaid` and `InterruptQuits` (fairness is out
of the prover's reach), and the runs that expect a violation.
After a reorganisation nothing like `OnlyPaidDeposits` or `SingleCopy` holds of the
code: a replayed deposit is taken on again, and one that is gone stays accepted.

## 5. Not modelled

* The TSS protocol: an external library. Signing is a quorum with the same bytes.
* The bytes of transactions and signatures, address conversions (`misc/helper.go`):
  pure functions; pools and senders are identified with their keys.
* Metrics, configuration, codec registration, generated bindings: nothing that the
  loop reads.
* Restarts in `Inbound` and `PoolRotation`: nothing is persisted, a node that comes
  back starts from `Init`, so the behaviour after a restart is in the model and
  what it forgets is lost by design. `Outbound` has them because the *other* nodes
  go on.

What is left: late deposits to retired pools and lasting failures of one pool in
`PoolRotation`; several nodes and their heights in `TssPool`; one composition of
`Inbound` and `Mint`, with the retries of every node.

-------------------------------- MODULE Mint --------------------------------
(***************************************************************************)
(* Minting by several nodes.  Each node that signs for the pool processes  *)
(* a request by itself (ProcessInBound): it reads the sequence of the      *)
(* pool's account, then asks whether the request was issued, estimates the *)
(* gas, signs together with a quorum of the pool, and broadcasts.  All of  *)
(* these are separate calls, and every node asks its own full node, which  *)
(* may lag behind the chain.                                               *)
(*                                                                         *)
(* How a request reaches a node, and how often it is retried, is the       *)
(* subject of Inbound; here any node may process any request at any time.  *)
(* A full node that lags answers with the state of an earlier block:       *)
(* view[n][p] is the sequence it reports, and it knows the mints that were *)
(* executed with a smaller one.                                            *)
(***************************************************************************)
EXTENDS Integers

CONSTANTS
    Node, Req,
    Pool, None,      \* the pools, and Go's nil
    Quorum,          \* for each pool the sets of nodes that can sign for it
    Flaky,           \* nodes whose query of a record may fail
    Refuses,         \* whether the vault refuses a second mint of a request
    MaxSeq           \* bound: transactions of a pool's account

ASSUME MintAssumption ==
    /\ None \notin Pool
    /\ Quorum \in [Pool -> SUBSET SUBSET Node]
    /\ Flaky \subseteq Node
    /\ Refuses \in BOOLEAN
    /\ MaxSeq \in Nat

(* One mint per request needs more than the order of the queries: a node   *)
(* with working queries in every quorum, and, if the pool may change, a     *)
(* vault that refuses, since every pool's account has a sequence of its own.*)
ASSUME OnceAssumption ==
    \/ Refuses
    \/ /\ \A p \in Pool : \A Q \in Quorum[p] : Q \ Flaky # {}
       /\ \A p, q \in Pool : p = q

VARIABLES
    lastPool,    \* lastTwoPools[1] of each node
    view,        \* the sequences each node's full node reports
    job,         \* what ProcessInBound of each node is about
    accSeq,      \* sequence of each pool's account
    mempool,     \* transactions the chain was given
    ledger       \* the mints that issued coins

chainVars == <<accSeq, mempool, ledger>>
vars == <<lastPool, view, job, chainVars>>

Tx == [req : Req, pool : Pool, seq : Nat]
Idle == [st |-> "idle"]
Steps == {"exist", "gas", "sign", "send", "wait"}
Busy == [st : Steps, tx : Tx]

Init ==
    /\ lastPool = [n \in Node |-> None]
    /\ view = [n \in Node |-> [p \in Pool |-> 0]]
    /\ job = [n \in Node |-> Idle]
    /\ accSeq = [p \in Pool |-> 0] /\ mempool = {} /\ ledger = {}

-----------------------------------------------------------------------------
(* The newest slot of a node's cache is filled or replaced. *)
UpdatePool(n, p) ==
    /\ job[n] = Idle /\ lastPool[n] # p
    /\ lastPool' = [lastPool EXCEPT ![n] = p]
    /\ UNCHANGED <<view, job, chainVars>>

(* The full node of n catches up with the chain. *)
Sync(n) ==
    /\ view[n] # accSeq
    /\ view' = [view EXCEPT ![n] = accSeq]
    /\ UNCHANGED <<lastPool, job, chainVars>>

CheckWhetherSigner(n, p) == \E Q \in Quorum[p] : n \in Q

(* Fault: the sequence before the account's own. *)
queryAccount_Previous(n, p) == view[n][p] - 1

(* queryAccount: the sequence of the pool's account. *)
queryAccount(n, p) == view[n][p]

(* ProcessInBound up to the sequence it will sign with. *)
Start(n, r) ==
    /\ job[n] = Idle /\ lastPool[n] # None
    /\ CheckWhetherSigner(n, lastPool[n])
    /\ job' = [job EXCEPT ![n] =
            [st |-> "exist",
             tx |-> [req |-> r, pool |-> lastPool[n], seq |-> queryAccount(n, lastPool[n])]]]
    /\ UNCHANGED <<lastPool, view, chainVars>>

(* The record of the request, as the full node of n knows it. *)
Recorded(n, r) == \E t \in ledger : t.req = r /\ t.seq < view[n][t.pool]

To(n, st) == job' = [job EXCEPT ![n] = [st |-> st, tx |-> job[n].tx]]
Leave(n) == job' = [job EXCEPT ![n] = Idle]

(* CheckWhetherAlreadyExist finds the record. *)
AlreadySubmitted(n) ==
    /\ job[n].st = "exist" /\ Recorded(n, job[n].tx.req)
    /\ Leave(n)
    /\ UNCHANGED <<lastPool, view, chainVars>>

(* Fault: the sequence is read after the record was looked for. *)
NotSubmitted_SeqAfter(n) ==
    /\ job[n].st = "exist"
    /\ n \in Flaky \/ ~Recorded(n, job[n].tx.req)
    /\ \E q \in {view[n], accSeq} :
         job' = [job EXCEPT ![n] = [st |-> "gas",
                    tx |-> [job[n].tx EXCEPT !.seq = q[job[n].tx.pool]]]]
    /\ UNCHANGED <<lastPool, view, chainVars>>

(* It finds none, or fails, which it does not tell apart. *)
NotSubmitted(n) ==
    /\ job[n].st = "exist"
    /\ n \in Flaky \/ ~Recorded(n, job[n].tx.req)
    /\ To(n, "gas")
    /\ UNCHANGED <<lastPool, view, chainVars>>

(* The full node simulates the transaction, sequence included. *)
GasEstimation(n) ==
    /\ job[n].st = "gas" /\ job[n].tx.seq = view[n][job[n].tx.pool]
    /\ To(n, "sign")
    /\ UNCHANGED <<lastPool, view, chainVars>>

(* Fault: one member of the quorum is enough. *)
KeySign_Alone(Q, tx) ==
    /\ \E n \in Q : job[n] = [st |-> "sign", tx |-> tx]
    /\ job' = [n \in Node |-> IF n \in Q /\ job[n] = [st |-> "sign", tx |-> tx]
                              THEN [st |-> "send", tx |-> tx] ELSE job[n]]
    /\ UNCHANGED <<lastPool, view, chainVars>>

(* genSendTx and signTx of a quorum that signs the same bytes. *)
KeySign(Q, tx) ==
    /\ \A n \in Q : job[n] = [st |-> "sign", tx |-> tx]
    /\ job' = [n \in Node |-> IF n \in Q THEN [st |-> "send", tx |-> tx] ELSE job[n]]
    /\ UNCHANGED <<lastPool, view, chainVars>>

(* BroadcastTx in block mode: the chain gets it, the answer comes later. *)
BroadcastTx(n) ==
    /\ job[n].st = "send"
    /\ mempool' = mempool \cup {job[n].tx}
    /\ To(n, "wait")
    /\ UNCHANGED <<lastPool, view, accSeq, ledger>>

(* The answer, or the failure of any call on the way: an error of the       *)
(* estimation, the signature or the broadcast, a refusal, a timeout.        *)
Finish(n) ==
    /\ job[n].st \in Steps \ {"exist"}
    /\ Leave(n)
    /\ UNCHANGED <<lastPool, view, chainVars>>

-----------------------------------------------------------------------------
(* The joltify chain.  A transaction uses its sequence up, also one that    *)
(* fails or is refused by the vault; one with a used sequence is nothing.   *)
Issued(r) == \E t \in ledger : t.req = r
Use(p) == accSeq[p] < MaxSeq /\ accSeq' = [accSeq EXCEPT ![p] = @ + 1]

Execute(tx) ==
    /\ tx \in mempool /\ tx.seq = accSeq[tx.pool] /\ Use(tx.pool)
    /\ ~(Refuses /\ Issued(tx.req))
    /\ ledger' = ledger \cup {tx}
    /\ mempool' = mempool \ {tx}
    /\ UNCHANGED <<lastPool, view, job>>

ExecuteFails(tx) ==
    /\ tx \in mempool /\ tx.seq = accSeq[tx.pool] /\ Use(tx.pool)
    /\ mempool' = mempool \ {tx}
    /\ UNCHANGED <<lastPool, view, job, ledger>>

Drop(tx) ==
    /\ tx \in mempool
    /\ mempool' = mempool \ {tx}
    /\ UNCHANGED <<lastPool, view, job, accSeq, ledger>>

(* Another transaction of the pool: MoveFunds signs with the same account. *)
OtherTx(p) ==
    /\ Use(p)
    /\ UNCHANGED <<lastPool, view, job, mempool, ledger>>

-----------------------------------------------------------------------------
Next ==
    \/ \E n \in Node :
        \/ \E p \in Pool : UpdatePool(n, p)
        \/ \E r \in Req : Start(n, r)
        \/ Sync(n) \/ AlreadySubmitted(n) \/ NotSubmitted(n) \/ GasEstimation(n)
        \/ BroadcastTx(n) \/ Finish(n)
    \/ \E p \in Pool : OtherTx(p)
    \/ \E p \in Pool : \E Q \in Quorum[p] : \E n \in Q :
        job[n].st = "sign" /\ job[n].tx.pool = p /\ KeySign(Q, job[n].tx)
    \/ \E tx \in mempool : Execute(tx) \/ ExecuteFails(tx) \/ Drop(tx)

Spec == Init /\ [][Next]_vars

-----------------------------------------------------------------------------
(* Every variable keeps its type. *)
TypeOK ==
    /\ lastPool \in [Node -> Pool \cup {None}]
    /\ view \in [Node -> [Pool -> Nat]]
    /\ job \in [Node -> Busy \cup {Idle}]
    /\ accSeq \in [Pool -> Nat]
    /\ mempool \subseteq Tx /\ ledger \subseteq Tx

(* Signed transactions that the chain may still be given or execute. *)
Outstanding == mempool \cup {job[n].tx : n \in {m \in Node : job[m].st \in {"send", "wait"}}}

(* A signed mint of a request that was issued by the same pool is dead: its *)
(* sequence is used up, however late it is broadcast, because the sequence  *)
(* was read before the record was looked for.                               *)
LateMintsDead ==
    ~Refuses => \A tx \in Outstanding : Issued(tx.req) => tx.seq < accSeq[tx.pool]

(* Minting implements Issue: no interleaving of the nodes, their lagging    *)
(* full nodes, their retries and the chain issues a request twice.          *)
Promise == INSTANCE Issue WITH
    minted <- {[req |-> t.req, by |-> <<t.pool, t.seq>>] : t \in ledger},
    Receipt <- Pool \X (0..MaxSeq)
IssuesOnce == Promise!Spec
=============================================================================

----------------------------- MODULE MintProofs -----------------------------
(***************************************************************************)
(* Proofs about minting by any number of nodes, for every choice of pools, *)
(* quorums and bounds: a request is issued once, by the order in which     *)
(* ProcessInBound reads the sequence and looks for the record.             *)
(***************************************************************************)
EXTENDS Mint, TLAPS

(* What the full nodes report is not ahead of the chain. *)
ViewsBehind == \A n \in Node, p \in Pool : view[n][p] <= accSeq[p]

(* A mint was executed with a sequence that is used up. *)
LedgerUsed == \A t \in ledger : t.seq < accSeq[t.pool]

(* A node signs with a sequence it was told. *)
SeqRead == \A n \in Node : job[n] # Idle => job[n].tx.seq <= view[n][job[n].tx.pool]

(* No mint of the same request and pool was executed before tx can be. *)
Unissued(tx) == \A t \in ledger : t.req = tx.req /\ t.pool = tx.pool => tx.seq <= t.seq

(* What a node with working queries is about to sign, and what is signed. *)
Checked == \A n \in Node \ Flaky : job[n] # Idle /\ job[n].st # "exist" => Unissued(job[n].tx)
SignedChecked == \A tx \in Outstanding : Unissued(tx)

(* Nothing was signed or given to the chain for a sequence yet to come. *)
MempoolRead == \A tx \in mempool : tx.seq <= accSeq[tx.pool]

Working == \A p \in Pool : \A Q \in Quorum[p] : Q \ Flaky # {}

IInv ==
    /\ TypeOK /\ ViewsBehind /\ LedgerUsed /\ SeqRead /\ MempoolRead /\ Checked
    /\ ~Refuses => SignedChecked

-----------------------------------------------------------------------------
LEMMA InitIInv == Init => IInv
<1> SUFFICES ASSUME Init PROVE IInv
  OBVIOUS
<1>1. TypeOK
  BY DEF Init, TypeOK
<1>2. ViewsBehind /\ LedgerUsed /\ SeqRead /\ MempoolRead /\ Checked
  BY DEF Init, ViewsBehind, LedgerUsed, SeqRead, MempoolRead, Checked
<1>3. Outstanding = {}
  <2>1. \A n \in Node : job[n].st = "idle"
    BY DEF Init, Idle
  <2> QED BY <2>1 DEF Init, Outstanding
<1> QED BY <1>1, <1>2, <1>3 DEF IInv, SignedChecked

(* The job of a busy node. *)
LEMMA JobType ==
    ASSUME TypeOK, NEW n \in Node, job[n] # Idle
    PROVE  /\ job[n] = [st |-> job[n].st, tx |-> job[n].tx]
           /\ job[n].st \in Steps /\ job[n].tx \in Tx
           /\ job[n].tx.req \in Req /\ job[n].tx.pool \in Pool /\ job[n].tx.seq \in Nat
<1>1. job[n] \in Busy
  BY DEF TypeOK
<1> QED BY <1>1 DEF Busy, Tx

LEMMA Statuses ==
    ASSUME TypeOK, NEW n \in Node, job[n].st \in Steps
    PROVE  job[n] # Idle
BY DEF Steps, Idle

LEMMA OutstandingType == TypeOK => Outstanding \subseteq Tx
<1> SUFFICES ASSUME TypeOK, NEW n \in Node, job[n].st \in {"send", "wait"} PROVE job[n].tx \in Tx
  BY DEF Outstanding, TypeOK
<1>1. job[n] # Idle
  BY Statuses DEF Steps
<1> QED BY <1>1, JobType

-----------------------------------------------------------------------------
(* The steps that leave the chain and the sequences alone and move one node *)
(* on: only the record check and the signature have something to show.      *)
LEMMA TypeNext == TypeOK /\ [Next]_vars => TypeOK'
<1> SUFFICES ASSUME TypeOK, [Next]_vars PROVE TypeOK'
  OBVIOUS
<1>1. CASE UNCHANGED vars
  BY <1>1 DEF vars, chainVars, TypeOK
<1>2. ASSUME NEW n \in Node, NEW p \in Pool, UpdatePool(n, p) PROVE TypeOK'
  BY <1>2 DEF UpdatePool, chainVars, TypeOK
<1>3. ASSUME NEW n \in Node, NEW r \in Req, Start(n, r) PROVE TypeOK'
  <2>1. lastPool[n] \in Pool /\ view[n][lastPool[n]] \in Nat
    BY <1>3 DEF Start, TypeOK
  <2>2. [st |-> "exist", tx |-> [req |-> r, pool |-> lastPool[n],
             seq |-> queryAccount(n, lastPool[n])]] \in Busy
    BY <2>1 DEF Busy, Steps, Tx, queryAccount
  <2> QED BY <1>3, <2>2 DEF Start, chainVars, TypeOK
<1>4. ASSUME NEW n \in Node, Sync(n) PROVE TypeOK'
  BY <1>4 DEF Sync, chainVars, TypeOK
<1>5. ASSUME NEW n \in Node, AlreadySubmitted(n) \/ Finish(n) PROVE TypeOK'
  BY <1>5 DEF AlreadySubmitted, Finish, Leave, chainVars, TypeOK
<1>6. ASSUME NEW n \in Node, NEW s \in Steps, job[n].st \in Steps, To(n, s),
             UNCHANGED <<lastPool, view>>
      PROVE  job' \in [Node -> Busy \cup {Idle}]
  <2>1. [st |-> s, tx |-> job[n].tx] \in Busy
    BY <1>6, JobType, Statuses DEF Busy
  <2> QED BY <1>6, <2>1 DEF To, TypeOK
<1>7. ASSUME NEW n \in Node, NotSubmitted(n) \/ GasEstimation(n) PROVE TypeOK'
  BY <1>6, <1>7 DEF NotSubmitted, GasEstimation, Steps, chainVars, TypeOK
<1>8. ASSUME NEW n \in Node, BroadcastTx(n) PROVE TypeOK'
  <2>1. job[n].tx \in Tx
    BY <1>8, JobType, Statuses DEF BroadcastTx, Steps
  <2> QED BY <1>6, <1>8, <2>1 DEF BroadcastTx, Steps, TypeOK
<1>9. ASSUME NEW p \in Pool, NEW Q \in Quorum[p], NEW n \in Q,
             job[n].st = "sign", KeySign(Q, job[n].tx)
      PROVE  TypeOK'
  <2>1. n \in Node
    BY MintAssumption
  <2>2. [st |-> "send", tx |-> job[n].tx] \in Busy
    BY <1>9, <2>1, JobType, Statuses DEF Busy, Steps
  <2> QED BY <1>9, <2>2 DEF KeySign, chainVars, TypeOK
<1>10. ASSUME NEW tx \in mempool, Execute(tx) \/ ExecuteFails(tx) \/ Drop(tx) PROVE TypeOK'
  BY <1>10 DEF Execute, ExecuteFails, Drop, Use, TypeOK, Tx
<1>11. ASSUME NEW p \in Pool, OtherTx(p) PROVE TypeOK'
  BY <1>11 DEF OtherTx, Use, TypeOK
<1> QED BY <1>1, <1>2, <1>3, <1>4, <1>5, <1>7, <1>8, <1>9, <1>10, <1>11 DEF Next

(* The sequences only grow. *)
LEMMA SeqGrows ==
    ASSUME TypeOK, [Next]_vars
    PROVE  \A p \in Pool : accSeq[p] <= accSeq'[p] /\ accSeq'[p] \in Nat
<1>1. CASE UNCHANGED accSeq
  BY <1>1 DEF TypeOK
<1>2. ASSUME NEW tx \in mempool, Execute(tx) \/ ExecuteFails(tx)
      PROVE \A p \in Pool : accSeq[p] <= accSeq'[p] /\ accSeq'[p] \in Nat
  BY <1>2 DEF Execute, ExecuteFails, Use, TypeOK, Tx
<1>3. ASSUME NEW q \in Pool, OtherTx(q)
      PROVE \A p \in Pool : accSeq[p] <= accSeq'[p] /\ accSeq'[p] \in Nat
  BY <1>3 DEF OtherTx, Use, TypeOK
<1> QED BY <1>1, <1>2, <1>3 DEF Next, vars, chainVars, UpdatePool, Start, Sync,
       AlreadySubmitted, NotSubmitted, GasEstimation, BroadcastTx, Finish, KeySign, Drop

(* How a job may change: it ends, it begins, or it goes on with the same    *)
(* transaction, and then the views and the ledger stay as they are.         *)
Begins(n) ==
    /\ job'[n].st = "exist"
    /\ job'[n].tx.pool \in Pool /\ job'[n].tx.seq = view[n][job'[n].tx.pool]
    /\ UNCHANGED <<view, chainVars>>
GoesOn(n) ==
    /\ job[n] # Idle /\ job'[n].tx = job[n].tx
    /\ job[n].st # "exist" \/ NotSubmitted(n)
    /\ UNCHANGED <<view, accSeq, ledger>>

LEMMA JobChanges ==
    ASSUME TypeOK, [Next]_vars, NEW n \in Node
    PROVE  job'[n] = job[n] \/ job'[n] = Idle \/ Begins(n) \/ GoesOn(n)
<1>1. CASE UNCHANGED job
  BY <1>1
<1>2. ASSUME NEW m \in Node, NEW r \in Req, Start(m, r)
      PROVE  job'[n] = job[n] \/ Begins(n)
  BY <1>2 DEF Start, Begins, TypeOK, queryAccount
<1>3. ASSUME NEW m \in Node, AlreadySubmitted(m) \/ Finish(m)
      PROVE  job'[n] = job[n] \/ job'[n] = Idle
  BY <1>3 DEF AlreadySubmitted, Finish, Leave, TypeOK
<1>4. ASSUME NEW m \in Node, NotSubmitted(m) \/ GasEstimation(m) \/ BroadcastTx(m)
      PROVE  job'[n] = job[n] \/ GoesOn(n)
  <2>1. job[m] # Idle
    BY <1>4, Statuses DEF NotSubmitted, GasEstimation, BroadcastTx, Steps
  <2> QED BY <1>4, <2>1 DEF NotSubmitted, GasEstimation, BroadcastTx, To, GoesOn, chainVars, TypeOK
<1>5. ASSUME NEW p \in Pool, NEW Q \in Quorum[p], NEW m \in Q,
             job[m].st = "sign", KeySign(Q, job[m].tx)
      PROVE  job'[n] = job[n] \/ GoesOn(n)
  <2>1. CASE n \in Q
    <3>1. job[n] = [st |-> "sign", tx |-> job[m].tx]
      BY <1>5, <2>1 DEF KeySign
    <3>2. job[n] # Idle
      BY <3>1, Statuses DEF Steps
    <3> QED BY <1>5, <2>1, <3>1, <3>2 DEF KeySign, GoesOn, chainVars
  <2>2. CASE n \notin Q
    BY <1>5, <2>2 DEF KeySign
  <2> QED BY <2>1, <2>2
<1> QED BY <1>1, <1>2, <1>3, <1>4, <1>5 DEF Next, vars, chainVars, UpdatePool, Sync,
       Execute, ExecuteFails, Drop, OtherTx

(* A mint enters the ledger with the account's sequence, which it uses up.  *)
LEMMA LedgerChanges ==
    ASSUME TypeOK, [Next]_vars
    PROVE  \/ UNCHANGED ledger
           \/ \E tx \in mempool : /\ ledger' = ledger \cup {tx} /\ tx.seq = accSeq[tx.pool]
                                  /\ accSeq'[tx.pool] = tx.seq + 1 /\ tx \in Tx
                                  /\ ~(Refuses /\ Issued(tx.req))
<1>1. ASSUME NEW tx \in mempool, Execute(tx)
      PROVE  /\ ledger' = ledger \cup {tx} /\ tx.seq = accSeq[tx.pool]
             /\ accSeq'[tx.pool] = tx.seq + 1 /\ tx \in Tx
             /\ ~(Refuses /\ Issued(tx.req))
  <2>1. tx \in Tx /\ tx.pool \in Pool
    BY DEF TypeOK, Tx
  <2> QED BY <1>1, <2>1 DEF Execute, Use, TypeOK
<1>2. (\A tx \in mempool : ~Execute(tx)) => UNCHANGED ledger
  BY DEF Next, vars, chainVars, UpdatePool, Start, Sync, AlreadySubmitted, NotSubmitted,
         GasEstimation, BroadcastTx, Finish, KeySign, ExecuteFails, Drop, OtherTx
<1> QED BY <1>1, <1>2

LEMMA ViewChanges ==
    ASSUME TypeOK, [Next]_vars, NEW n \in Node
    PROVE  view'[n] = view[n] \/ (view'[n] = accSeq /\ UNCHANGED <<job, chainVars>>)
<1>1. ASSUME NEW m \in Node, Sync(m)
      PROVE  view'[n] = view[n] \/ (view'[n] = accSeq /\ UNCHANGED <<job, chainVars>>)
  BY <1>1 DEF Sync, TypeOK
<1> QED BY <1>1 DEF Next, vars, chainVars, UpdatePool, Start, AlreadySubmitted, NotSubmitted,
        GasEstimation, BroadcastTx, Finish, KeySign, Execute, ExecuteFails, Drop, OtherTx

LEMMA SequencesNext ==
    ASSUME TypeOK, ViewsBehind, LedgerUsed, SeqRead, [Next]_vars
    PROVE  ViewsBehind' /\ LedgerUsed' /\ SeqRead'
<1> USE TypeNext, SeqGrows
<1>1. ASSUME NEW n \in Node, NEW p \in Pool PROVE view'[n][p] <= accSeq'[p]
  BY ViewChanges DEF ViewsBehind, TypeOK, chainVars
<1>2. ASSUME NEW t \in ledger' PROVE t.seq < accSeq'[t.pool]
  <2>1. CASE t \in ledger
    <3>1. t.seq < accSeq[t.pool] /\ t.seq \in Nat /\ t.pool \in Pool
      BY <2>1 DEF LedgerUsed, TypeOK, Tx
    <3>2. accSeq[t.pool] \in Nat /\ accSeq[t.pool] <= accSeq'[t.pool] /\ accSeq'[t.pool] \in Nat
      BY <3>1 DEF TypeOK
    <3> QED BY <3>1, <3>2
  <2>2. CASE t \notin ledger
    BY <2>2, LedgerChanges DEF Tx
  <2> QED BY <2>1, <2>2
<1>3. ASSUME NEW n \in Node, job'[n] # Idle
      PROVE  job'[n].tx.seq <= view'[n][job'[n].tx.pool]
  <2> DEFINE p == job[n].tx.pool
  <2>1. CASE job'[n] = job[n] \/ GoesOn(n)
    <3>1. job[n] # Idle /\ job'[n].tx = job[n].tx
      BY <1>3, <2>1 DEF GoesOn
    <3>2. p \in Pool /\ job[n].tx.seq \in Nat
      BY <3>1, JobType
    <3>3. job[n].tx.seq <= view[n][p] /\ view[n][p] <= accSeq[p]
      BY <3>1, <3>2 DEF SeqRead, ViewsBehind
    <3>4. view[n][p] \in Nat /\ accSeq[p] \in Nat
      BY <3>2 DEF TypeOK
    <3>5. view'[n][p] = view[n][p] \/ view'[n][p] = accSeq[p]
      BY ViewChanges
    <3> QED BY <3>1, <3>2, <3>3, <3>4, <3>5
  <2>2. CASE Begins(n)
    BY <2>2 DEF Begins, TypeOK
  <2> QED BY <1>3, <2>1, <2>2, JobChanges
<1> QED BY <1>1, <1>2, <1>3 DEF ViewsBehind, LedgerUsed, SeqRead

-----------------------------------------------------------------------------
(* A mint that is executed later does not come before what was read.        *)
LEMMA UnissuedKept ==
    ASSUME TypeOK, [Next]_vars, NEW tx \in Tx, Unissued(tx), tx.seq <= accSeq[tx.pool]
    PROVE  Unissued(tx)'
<1> SUFFICES ASSUME NEW t \in ledger', t.req = tx.req, t.pool = tx.pool
             PROVE  tx.seq <= t.seq
  BY DEF Unissued
<1>1. CASE t \in ledger
  BY <1>1 DEF Unissued
<1>2. CASE t \notin ledger
  BY <1>2, LedgerChanges
<1> QED BY <1>1, <1>2

(* A busy node's sequence is not ahead of the chain. *)
LEMMA JobRead ==
    ASSUME TypeOK, ViewsBehind, SeqRead, NEW n \in Node, job[n] # Idle
    PROVE  job[n].tx.seq <= accSeq[job[n].tx.pool]
<1> DEFINE p == job[n].tx.pool
<1>1. p \in Pool /\ job[n].tx.seq \in Nat
  BY JobType
<1>2. job[n].tx.seq <= view[n][p] /\ view[n][p] <= accSeq[p]
  BY <1>1 DEF SeqRead, ViewsBehind
<1>3. view[n][p] \in Nat /\ accSeq[p] \in Nat
  BY <1>1 DEF TypeOK
<1> QED BY <1>1, <1>2, <1>3

LEMMA MempoolChanges ==
    ASSUME TypeOK, [Next]_vars, NEW tx \in mempool'
    PROVE  \/ tx \in mempool
           \/ \E n \in Node : job[n].st = "send" /\ tx = job[n].tx
BY DEF Next, vars, chainVars, UpdatePool, Start, Sync, AlreadySubmitted, NotSubmitted,
       GasEstimation, BroadcastTx, Finish, KeySign, Execute, ExecuteFails, Drop, OtherTx

LEMMA MempoolReadNext ==
    ASSUME TypeOK, ViewsBehind, SeqRead, MempoolRead, [Next]_vars
    PROVE  MempoolRead'
<1> SUFFICES ASSUME NEW tx \in mempool' PROVE tx.seq <= accSeq'[tx.pool]
  BY DEF MempoolRead
<1>1. tx \in Tx /\ tx.pool \in Pool /\ tx.seq \in Nat
  BY TypeNext DEF TypeOK, Tx
<1>2. tx.seq <= accSeq[tx.pool]
  <2>1. ASSUME NEW n \in Node, job[n].st = "send", tx = job[n].tx
        PROVE  tx.seq <= accSeq[tx.pool]
    BY <2>1, JobRead, Statuses DEF Steps
  <2> QED BY <2>1, MempoolChanges DEF MempoolRead
<1>3. accSeq[tx.pool] \in Nat /\ accSeq[tx.pool] <= accSeq'[tx.pool] /\ accSeq'[tx.pool] \in Nat
  BY <1>1, SeqGrows DEF TypeOK
<1> QED BY <1>1, <1>2, <1>3

(* A node whose query works, and finds no record, has read a sequence that  *)
(* no mint of the request has used.                                         *)
LEMMA CheckedNext ==
    ASSUME TypeOK, ViewsBehind, LedgerUsed, SeqRead, Checked, [Next]_vars
    PROVE  Checked'
<1> SUFFICES ASSUME NEW n \in Node \ Flaky, job'[n] # Idle, job'[n].st # "exist"
             PROVE  Unissued(job[n].tx)' /\ job'[n].tx = job[n].tx
  BY DEF Checked, Unissued
<1>1. CASE job'[n] = job[n]
  <2>1. Unissued(job[n].tx)
    BY <1>1 DEF Checked
  <2>2. job[n].tx \in Tx /\ job[n].tx.seq <= accSeq[job[n].tx.pool]
    BY <1>1, JobType, JobRead
  <2>3. \A t \in ledger' : t.req = job[n].tx.req /\ t.pool = job[n].tx.pool
                             => job[n].tx.seq <= t.seq
    BY <2>1, <2>2, LedgerChanges DEF Unissued
  <2> QED BY <1>1, <2>3 DEF Unissued
<1>2. CASE GoesOn(n)
  <2>1. CASE job[n].st # "exist"
    BY <1>2, <2>1 DEF GoesOn, Checked, Unissued
  <2>2. CASE NotSubmitted(n)
    <3> DEFINE tx == job[n].tx
    <3>1. job[n] # Idle /\ tx.seq <= view[n][tx.pool] /\ tx.seq \in Nat /\ tx.pool \in Pool
      BY <1>2, JobType DEF GoesOn, SeqRead
    <3>2. \A t \in ledger : t.req = tx.req => ~(t.seq < view[n][t.pool])
      BY <2>2 DEF NotSubmitted, Recorded
    <3>3. \A t \in ledger : t.seq \in Nat
      BY DEF TypeOK, Tx
    <3>4. view[n][tx.pool] \in Nat
      BY <3>1 DEF TypeOK
    <3>5. \A t \in ledger : t.req = tx.req /\ t.pool = tx.pool => tx.seq <= t.seq
      BY <3>1, <3>2, <3>3, <3>4
    <3> QED BY <1>2, <3>5 DEF GoesOn, Unissued
  <2> QED BY <1>2, <2>1, <2>2 DEF GoesOn
<1>3. ~Begins(n)
  BY DEF Begins
<1> QED BY <1>1, <1>2, <1>3, JobChanges

(* A quorum signs only what a node with working queries has checked. *)
LEMMA OutstandingChanges ==
    ASSUME IInv, Working, [Next]_vars, NEW tx \in Outstanding'
    PROVE  \/ tx \in Outstanding
           \/ tx \in Tx /\ Unissued(tx) /\ tx.seq <= accSeq[tx.pool]
<1> USE DEF IInv
<1>1. CASE tx \in mempool'
  BY <1>1, MempoolChanges DEF Outstanding
<1>2. ASSUME NEW n \in Node, job'[n].st \in {"send", "wait"}, tx = job'[n].tx
      PROVE  \/ tx \in Outstanding
             \/ tx \in Tx /\ Unissued(tx) /\ tx.seq <= accSeq[tx.pool]
  <2>1. CASE job[n].st \in {"send", "wait"}
    <3>1. tx = job[n].tx
      BY <1>2, <2>1, JobChanges DEF Begins, GoesOn, Idle
    <3> QED BY <2>1, <3>1 DEF Outstanding
  <2>2. CASE job[n].st \notin {"send", "wait"}
    <3>1. \E p \in Pool : \E Q \in Quorum[p] : \E m \in Q :
             job[m].st = "sign" /\ KeySign(Q, job[m].tx) /\ n \in Q
      <4>1. ~(job'[n] = job[n]) /\ job'[n] # Idle
        BY <1>2, <2>2 DEF Idle
      <4>2. \A m \in Node, r \in Req : ~Start(m, r)
        BY <1>2, <2>2 DEF Start, TypeOK
      <4>3. \A m \in Node : ~AlreadySubmitted(m) /\ ~Finish(m) /\ ~NotSubmitted(m)
                               /\ ~GasEstimation(m) /\ ~BroadcastTx(m)
        BY <1>2, <2>2, <4>1 DEF AlreadySubmitted, Finish, NotSubmitted, GasEstimation,
              BroadcastTx, To, Leave, TypeOK
      <4>4. ~UNCHANGED job
        BY <4>1
      <4>5. \E p \in Pool : \E Q \in Quorum[p] : \E m \in Q :
               job[m].st = "sign" /\ job[m].tx.pool = p /\ KeySign(Q, job[m].tx)
        BY <4>2, <4>3, <4>4 DEF Next, vars, UpdatePool, Sync, Execute, ExecuteFails, Drop, OtherTx
      <4> QED BY <4>1, <4>5 DEF KeySign
    <3>p. PICK p \in Pool : \E Q \in Quorum[p] : \E m \in Q :
             job[m].st = "sign" /\ KeySign(Q, job[m].tx) /\ n \in Q
      BY <3>1
    <3>s. PICK Q \in Quorum[p] : \E m \in Q :
             job[m].st = "sign" /\ KeySign(Q, job[m].tx) /\ n \in Q
      BY <3>p
    <3>m. PICK m \in Q : job[m].st = "sign" /\ KeySign(Q, job[m].tx) /\ n \in Q
      BY <3>s
    <3>2. PICK q \in Q : q \notin Flaky
      BY DEF Working
    <3>3. q \in Node
      BY MintAssumption
    <3>4. job[q] = [st |-> "sign", tx |-> job[m].tx]
      BY <3>m DEF KeySign
    <3>5. tx = job[m].tx /\ job[q].st = "sign" /\ job[q].tx = tx /\ job[q] # Idle
      BY <1>2, <3>m, <3>4 DEF KeySign, Idle
    <3> QED BY <3>2, <3>3, <3>5, JobType, JobRead DEF Checked
  <2> QED BY <2>1, <2>2
<1> QED BY <1>1, <1>2 DEF Outstanding

LEMMA SignedCheckedNext ==
    ASSUME IInv, ~Refuses, [Next]_vars
    PROVE  SignedChecked'
<1> SUFFICES ASSUME NEW tx \in Outstanding' PROVE Unissued(tx)'
  BY DEF SignedChecked, Unissued
<1>1. Working
  BY OnceAssumption DEF Working
<1>2. tx \in Tx /\ Unissued(tx) /\ tx.seq <= accSeq[tx.pool]
  <2>1. CASE tx \in Outstanding
    <3>1. tx.seq <= accSeq[tx.pool]
      BY <2>1, JobRead, Statuses DEF Outstanding, IInv, MempoolRead, Steps
    <3> QED BY <2>1, <3>1, OutstandingType DEF IInv, SignedChecked
  <2> QED BY <1>1, <2>1, OutstandingChanges
<1> QED BY <1>2, UnissuedKept DEF IInv

LEMMA IInvNext == IInv /\ [Next]_vars => IInv'
<1> SUFFICES ASSUME IInv, [Next]_vars PROVE IInv'
  OBVIOUS
<1>1. TypeOK' /\ ViewsBehind' /\ LedgerUsed' /\ SeqRead'
  BY TypeNext, SequencesNext DEF IInv
<1>2. MempoolRead' /\ Checked'
  BY MempoolReadNext, CheckedNext DEF IInv
<1>3. (~Refuses => SignedChecked)'
  BY SignedCheckedNext
<1> QED BY <1>1, <1>2, <1>3 DEF IInv

(* The invariant, for every reachable state. *)
LEMMA Invariant == Spec => []IInv
BY InitIInv, IInvNext, PTL DEF Spec

-----------------------------------------------------------------------------
(* ProcessInBound, the views and the chain keep their types. *)
THEOREM MintType == Spec => []TypeOK
<1>1. IInv => TypeOK
  BY DEF IInv
<1> QED BY <1>1, Invariant, PTL

(* A signed mint of a request that the pool has issued is dead, although    *)
(* BroadcastTx may still deliver it.                                        *)
THEOREM MintLateMintsDead == Spec => []LateMintsDead
<1>1. IInv => LateMintsDead
  <2> SUFFICES ASSUME IInv, ~Refuses, NEW tx \in Outstanding, NEW t \in ledger, t.req = tx.req
               PROVE  tx.seq < accSeq[tx.pool]
    BY DEF LateMintsDead, Issued
  <2>1. tx \in Tx /\ t \in Tx
    BY OutstandingType DEF IInv, TypeOK
  <2>2. tx.pool = t.pool
    BY <2>1, OnceAssumption DEF Tx
  <2>3. tx.seq <= t.seq /\ t.seq < accSeq[t.pool]
    BY <2>2 DEF IInv, SignedChecked, Unissued, LedgerUsed
  <2>4. accSeq[tx.pool] \in Nat /\ tx.seq \in Nat /\ t.seq \in Nat
    BY <2>1 DEF IInv, TypeOK, Tx
  <2> QED BY <2>2, <2>3, <2>4
<1> QED BY <1>1, Invariant, PTL

(* Minting implements Issue: the only step that changes the ledger is the   *)
(* execution of a mint, and the request was not issued before.              *)
THEOREM MintIssuesOnce == Spec => IssuesOnce
<1> DEFINE receipts == {[req |-> t.req, by |-> <<t.pool, t.seq>>] : t \in ledger}
<1>1. Init => Promise!Init
  BY DEF Init, Promise!Init
<1>2. ASSUME IInv, [Next]_vars PROVE [Promise!Next]_receipts
  <2>1. CASE UNCHANGED ledger
    BY <2>1
  <2>2. ASSUME NEW tx \in mempool, Execute(tx) PROVE Promise!Next
    <3>1. tx \in Tx /\ tx.req \in Req /\ tx.pool \in Pool /\ tx.seq \in Nat
      BY <1>2 DEF IInv, TypeOK, Tx
    <3>2. tx.seq = accSeq[tx.pool] /\ accSeq[tx.pool] < MaxSeq /\ ledger' = ledger \cup {tx}
      BY <2>2 DEF Execute, Use
    <3>3. \A t \in ledger : t.req # tx.req
      <4>1. CASE Refuses
        BY <2>2, <4>1 DEF Execute, Issued
      <4>2. CASE ~Refuses
        <5> SUFFICES ASSUME NEW t \in ledger, t.req = tx.req PROVE FALSE
          OBVIOUS
        <5>1. t \in Tx /\ t.pool = tx.pool
          BY <1>2, <3>1, <4>2, OnceAssumption DEF IInv, TypeOK, Tx
        <5>2. tx.seq <= t.seq
          BY <1>2, <4>2, <5>1 DEF IInv, SignedChecked, Unissued, Outstanding
        <5>3. t.seq < accSeq[tx.pool] /\ t.seq \in Nat
          BY <1>2, <5>1 DEF IInv, LedgerUsed, Tx
        <5> QED BY <3>1, <3>2, <5>2, <5>3
      <4> QED BY <4>1, <4>2
    <3>4. \A m \in receipts : m.req # tx.req
      BY <3>3
    <3>5. receipts' = receipts \cup {[req |-> tx.req, by |-> <<tx.pool, tx.seq>>]}
      BY <3>2
    <3>6. <<tx.pool, tx.seq>> \in Pool \X (0..MaxSeq)
      BY <3>1, <3>2, MintAssumption
    <3>7. Promise!Issue(tx.req, <<tx.pool, tx.seq>>)
      BY <3>4, <3>5 DEF Promise!Issue
    <3> QED BY <3>1, <3>6, <3>7 DEF Promise!Next
  <2>3. (\A tx \in mempool : ~Execute(tx)) => UNCHANGED ledger
    BY <1>2 DEF Next, vars, chainVars, UpdatePool, Start, Sync, AlreadySubmitted,
         NotSubmitted, GasEstimation, BroadcastTx, Finish, KeySign, ExecuteFails, Drop, OtherTx
  <2> QED BY <2>1, <2>2, <2>3
<1> QED BY <1>1, <1>2, Invariant, PTL DEF Spec, IssuesOnce, Promise!Spec
=============================================================================

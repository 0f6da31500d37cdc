---------------------------- MODULE ServiceProofs ----------------------------
(***************************************************************************)
(* Proofs about Service.  The counter of the WaitGroup is at all times the *)
(* number of Dones still owed: by addEventLoop while it runs, by the two   *)
(* goroutines while they wait, and, after a subscription of the public     *)
(* chain failed, by a goroutine that was never started.  So it does not go *)
(* below zero, and at zero no goroutine is waiting.                        *)
(***************************************************************************)
EXTENDS Service, TLAPS

(* The start up to the http server, and after it. *)
Early == main \in {"passcode", "tss", "bridge", "keyring", "import", "validators", "http"}
Late == main \in {"started", "pubchain", "subscribe", "pubsub"}

Unpaid(owes) == IF owes THEN 1 ELSE 0

(* The Dones that will come. *)
Owed ==
    Unpaid(main \in {"subscribe", "pubsub"}) + Unpaid(main = "pubsub")
      + Unpaid(httpCloser = "waiting") + Unpaid(subCloser = "waiting")

Counted ==
    \/ wg = Owed
    \/ ~Early /\ ~Late /\ wg = Owed + 1

(* What has been started at each point. *)
Staged ==
    /\ Early => http = "off" /\ httpCloser = "none"
    /\ Early \/ Late => subCloser = "none"
    /\ Late \/ main \in {"serve", "wait"} => httpCloser # "none"
    /\ httpCloser = "done" => http \in {"closed", "draining", "failed"}
    /\ how = "graceful" => main \in {"terminate", "exited"}

IInv == TypeOK /\ Counted /\ Staged /\ GracefulMeansClosed

-----------------------------------------------------------------------------
(* An early failure ends the process and touches nothing else. *)
LEMMA StartFailsInv == IInv /\ StartFails => IInv'
  <1> SUFFICES ASSUME IInv, StartFails PROVE IInv'
    OBVIOUS
  <1>1. /\ main' = "exited" /\ how' \in {"returned", "fatal"}
        /\ UNCHANGED <<interrupted, cancelled, wg, http, httpCloser, subCloser, loop, ws, tss>>
        /\ Early
    BY DEF StartFails, Exit, Fails, At, Early, servers, clients
  <1>2. TypeOK'
    BY <1>1 DEF IInv, TypeOK
  <1>3. Counted'
    BY <1>1 DEF IInv, Counted, Owed, Unpaid, Early, Late
  <1>4. Staged' /\ GracefulMeansClosed'
    BY <1>1 DEF IInv, Staged, GracefulMeansClosed, Early, Late
  <1> QED BY <1>2, <1>3, <1>4 DEF IInv

(* A step of the start that adds nothing to the WaitGroup. *)
LEMMA SetUpInv ==
    IInv /\ (ReadPasscode \/ StartTssServer \/ NewJoltifyBridge \/ ReadKeyring \/ InitValidators)
      => IInv'
  <1> SUFFICES ASSUME IInv,
                      ReadPasscode \/ StartTssServer \/ NewJoltifyBridge \/ ReadKeyring
                        \/ InitValidators
               PROVE  IInv'
    OBVIOUS
  <1>1. /\ Early /\ Early' /\ main' \in {"tss", "bridge", "keyring", "import", "validators", "http"}
        /\ UNCHANGED <<how, interrupted, cancelled, wg, http, httpCloser, subCloser, loop>>
        /\ ws' \in {ws, "up"} /\ tss' \in {tss, "up"}
    BY DEF ReadPasscode, StartTssServer, NewJoltifyBridge, ReadKeyring, InitValidators, At, Early,
           servers, clients
  <1>2. TypeOK'
    BY <1>1 DEF IInv, TypeOK, StartSteps
  <1>3. Counted'
    BY <1>1 DEF IInv, Counted, Owed, Unpaid, Early, Late
  <1>4. Staged' /\ GracefulMeansClosed'
    BY <1>1 DEF IInv, Staged, GracefulMeansClosed, Early, Late
  <1> QED BY <1>2, <1>3, <1>4 DEF IInv

(* A failure that returns through TerminateBridge. *)
LEMMA AbortInv ==
    ASSUME IInv, Abort, UNCHANGED interrupted, main \in {"validators", "started", "pubchain"}
    PROVE  IInv'
  <1>1. /\ main' = "terminate" /\ how' = "failed" /\ cancelled' = TRUE
        /\ UNCHANGED <<interrupted, wg, http, httpCloser, subCloser, loop, ws, tss>>
    BY DEF Abort, servers, clients
  <1>2. TypeOK'
    BY <1>1 DEF IInv, TypeOK
  <1>3. Counted'
    BY <1>1 DEF IInv, Counted, Owed, Unpaid, Early, Late
  <1>4. Staged' /\ GracefulMeansClosed'
    BY <1>1 DEF IInv, Staged, GracefulMeansClosed, Early, Late
  <1> QED BY <1>2, <1>3, <1>4 DEF IInv

LEMMA StartHttpInv == IInv /\ StartHttp => IInv'
  <1> SUFFICES ASSUME IInv, StartHttp PROVE IInv'
    OBVIOUS
  <1> USE DEF IInv, StartHttp, At, servers, clients
  <1>1. TypeOK'
    BY DEF TypeOK, StartSteps, Goroutine
  <1>2. Counted'
    BY DEF Counted, Staged, Owed, Unpaid, Early, Late, TypeOK
  <1>3. Staged' /\ GracefulMeansClosed'
    BY DEF Staged, GracefulMeansClosed, Early, Late
  <1> QED BY <1>1, <1>2, <1>3

LEMMA HttpStartedInv == IInv /\ HttpStarted => IInv'
  <1> SUFFICES ASSUME IInv, HttpStarted PROVE IInv'
    OBVIOUS
  <1>1. CASE http = "failed"
    BY <1>1, AbortInv DEF HttpStarted, At
  <1>2. CASE http # "failed"
    <2>1. /\ main = "started" /\ main' = "pubchain"
          /\ UNCHANGED <<how, interrupted, cancelled, wg, http, httpCloser, subCloser, loop, ws, tss>>
      BY <1>2 DEF HttpStarted, At, servers, clients
    <2>2. TypeOK'
      BY <2>1 DEF IInv, TypeOK, StartSteps
    <2>3. Counted'
      BY <2>1 DEF IInv, Counted, Owed, Unpaid, Early, Late
    <2>4. Staged' /\ GracefulMeansClosed'
      BY <2>1 DEF IInv, Staged, GracefulMeansClosed, Early, Late
    <2> QED BY <2>2, <2>3, <2>4 DEF IInv
  <1> QED BY <1>1, <1>2

(* The two steps that add to the WaitGroup for addEventLoop and for the     *)
(* goroutine of the subscription.                                           *)
LEMMA AddsInv == IInv /\ (NewChainInstance \/ AddSubscribe) => IInv'
  <1> SUFFICES ASSUME IInv, NewChainInstance \/ AddSubscribe PROVE IInv'
    OBVIOUS
  <1> USE DEF IInv, NewChainInstance, AddSubscribe, At, servers, clients
  <1>1. TypeOK'
    BY DEF TypeOK, StartSteps
  <1>2. Counted'
    BY DEF Counted, Owed, Unpaid, Early, Late, TypeOK
  <1>3. Staged' /\ GracefulMeansClosed'
    BY DEF Staged, GracefulMeansClosed, Early, Late
  <1> QED BY <1>1, <1>2, <1>3

(* addEventLoop returns; the goroutine it added for may never start. *)
LEMMA LoopStartInv == IInv /\ (SubscribeFails \/ StartSubscription) => IInv'
  <1> SUFFICES ASSUME IInv, SubscribeFails \/ StartSubscription PROVE IInv'
    OBVIOUS
  <1> USE DEF IInv, SubscribeFails, StartSubscription, Fails, At, servers, clients
  <1>1. Counted'
    BY DEF Counted, Staged, Owed, Unpaid, Early, Late, TypeOK
  <1>2. Owed' \in Nat
    BY DEF Owed, Unpaid
  <1>3. wg' \in Nat
    BY <1>1, <1>2 DEF Counted
  <1>4. TypeOK'
    BY <1>3 DEF TypeOK, StartSteps, Goroutine
  <1>5. Staged' /\ GracefulMeansClosed'
    BY DEF Staged, GracefulMeansClosed, Early, Late
  <1> QED BY <1>1, <1>4, <1>5

-----------------------------------------------------------------------------
LEMMA InterruptInv == IInv /\ Interrupt => IInv'
  BY DEF IInv, Interrupt, TypeOK, Counted, Owed, Staged, GracefulMeansClosed, Early, Late,
         servers, clients

LEMMA ServeInv == IInv /\ Serve => IInv'
  <1> SUFFICES ASSUME IInv, Serve PROVE IInv'
    OBVIOUS
  <1> USE DEF IInv, Serve, At, servers, clients
  <1>1. TypeOK'
    BY DEF TypeOK
  <1>2. Counted'
    BY DEF Counted, Owed, Unpaid, Early, Late
  <1>3. Staged' /\ GracefulMeansClosed'
    BY DEF Staged, GracefulMeansClosed, Early, Late
  <1> QED BY <1>1, <1>2, <1>3

(* At zero no Done is owed, so both goroutines are through. *)
LEMMA WaitInv == IInv /\ Wait => IInv'
  <1> SUFFICES ASSUME IInv, Wait PROVE IInv'
    OBVIOUS
  <1> USE DEF IInv, Wait, At, servers, clients
  <1>1. httpCloser # "waiting" /\ subCloser # "waiting"
    BY DEF Counted, Owed, Unpaid, TypeOK
  <1>2. httpCloser = "done" /\ http \in {"closed", "draining", "failed"}
    BY <1>1 DEF Staged, TypeOK, Goroutine
  <1>3. TypeOK'
    BY DEF TypeOK
  <1>4. Counted'
    BY DEF Counted, Owed, Unpaid, Early, Late
  <1>5. Staged' /\ GracefulMeansClosed'
    BY <1>1, <1>2 DEF Staged, GracefulMeansClosed, Early, Late
  <1> QED BY <1>3, <1>4, <1>5

LEMMA TerminateInv == IInv /\ TerminateBridge => IInv'
  <1> SUFFICES ASSUME IInv, TerminateBridge PROVE IInv'
    OBVIOUS
  <1> USE DEF IInv, TerminateBridge, At, servers, clients
  <1>1. TypeOK'
    BY DEF TypeOK
  <1>2. Counted'
    BY DEF Counted, Owed, Unpaid, Early, Late
  <1>3. Staged' /\ GracefulMeansClosed'
    BY DEF Staged, GracefulMeansClosed, Early, Late
  <1> QED BY <1>1, <1>2, <1>3

LEMMA ListenInv == IInv /\ ListenAndServe => IInv'
  <1> SUFFICES ASSUME IInv, ListenAndServe PROVE IInv'
    OBVIOUS
  <1> USE DEF IInv, ListenAndServe, clients
  <1>1. TypeOK'
    BY DEF TypeOK
  <1>2. Counted'
    BY DEF Counted, Owed, Unpaid, Early, Late
  <1>3. Staged' /\ GracefulMeansClosed'
    BY DEF Staged, GracefulMeansClosed, Early, Late
  <1> QED BY <1>1, <1>2, <1>3

(* A goroutine pays the Done it owes. *)
LEMMA ClosersInv == IInv /\ (CloseHttp \/ CloseSubscription) => IInv'
  <1> SUFFICES ASSUME IInv, CloseHttp \/ CloseSubscription PROVE IInv'
    OBVIOUS
  <1> USE DEF IInv, CloseHttp, Shutdown, CloseSubscription, clients
  <1>1. Counted'
    BY DEF Counted, Owed, Unpaid, Early, Late, TypeOK
  <1>2. Owed' \in Nat
    BY DEF Owed, Unpaid
  <1>3. wg' \in Nat
    BY <1>1, <1>2 DEF Counted
  <1>4. TypeOK'
    BY <1>3 DEF TypeOK, Goroutine
  <1>5. Staged' /\ GracefulMeansClosed'
    BY DEF Staged, GracefulMeansClosed, Early, Late
  <1> QED BY <1>1, <1>4, <1>5

LEMMA HandleEventInv == IInv /\ HandleEvent => IInv'
  <1> SUFFICES ASSUME IInv, HandleEvent PROVE IInv'
    OBVIOUS
  <1> USE DEF IInv, HandleEvent, clients
  <1>1. TypeOK'
    BY DEF TypeOK
  <1>2. Counted'
    BY DEF Counted, Owed, Unpaid, Early, Late
  <1>3. Staged' /\ GracefulMeansClosed'
    BY DEF Staged, GracefulMeansClosed, Early, Late
  <1> QED BY <1>1, <1>2, <1>3

-----------------------------------------------------------------------------
LEMMA InitInv == Init => IInv
  <1> SUFFICES ASSUME Init PROVE IInv
    OBVIOUS
  <1> USE DEF Init
  <1>1. TypeOK
    BY DEF TypeOK, StartSteps, Goroutine
  <1>2. Counted
    BY DEF Counted, Owed, Unpaid
  <1>3. Staged /\ GracefulMeansClosed
    BY DEF Staged, GracefulMeansClosed, Early, Late
  <1> QED BY <1>1, <1>2, <1>3 DEF IInv

LEMMA NextInv == IInv /\ [Next]_vars => IInv'
  <1> SUFFICES ASSUME IInv, [Next]_vars PROVE IInv'
    OBVIOUS
  <1>1. CASE Main
    <2>1. CASE SetUpFails
      BY <2>1, AbortInv DEF SetUpFails, Fails, At
    <2> QED
      BY <1>1, <2>1, StartFailsInv, SetUpInv, StartHttpInv, HttpStartedInv, AddsInv, LoopStartInv,
         ServeInv, WaitInv, TerminateInv
         DEF Main
  <1>2. CASE Interrupt \/ ListenAndServe \/ CloseHttp \/ CloseSubscription \/ HandleEvent
    BY <1>2, InterruptInv, ListenInv, ClosersInv, HandleEventInv
  <1>3. CASE UNCHANGED vars
    BY <1>3 DEF vars, servers, clients, IInv, TypeOK, Counted, Owed, Unpaid, Staged, Early, Late,
                GracefulMeansClosed
  <1> QED BY <1>1, <1>2, <1>3 DEF Next

(* The counter of the WaitGroup never goes below zero (wg.Done would panic),*)
(* whichever step of the start fails and in whatever order the goroutines   *)
(* run.                                                                     *)
THEOREM ServiceType == Spec => []TypeOK
  <1>1. IInv => TypeOK
    BY DEF IInv
  <1> QED BY <1>1, InitInv, NextInv, PTL DEF Spec

(* When wg.Wait returns, the http server no longer listens and both         *)
(* goroutines have run to their end.                                        *)
THEOREM ServiceGraceful == Spec => []GracefulMeansClosed
  <1>1. IInv => GracefulMeansClosed
    BY DEF IInv
  <1> QED BY <1>1, InitInv, NextInv, PTL DEF Spec
=============================================================================

------------------------------ MODULE Service ------------------------------
(***************************************************************************)
(* The life of the process: NewBridgeService starts the parts of the       *)
(* bridge one after the other, waits for an interrupt, and takes them down.*)
(* Next to it run the http server and the goroutine that closes it, the    *)
(* goroutine that ends the subscription of the public chain, and the event *)
(* loop.  A WaitGroup counts what the shutdown waits for, a context tells  *)
(* everyone to stop.                                                       *)
(***************************************************************************)
EXTENDS Integers, FiniteSets

CONSTANT Failing     \* the steps of the start that may fail

StartSteps == {"passcode", "tss", "bridge", "keyring", "import", "validators", "pubchain",
               "subscribe", "pubsub"}

ASSUME ServiceAssumption == Failing \subseteq StartSteps

VARIABLES
    main,            \* where NewBridgeService is
    how,             \* how the process ends
    interrupted,     \* the signal is in the channel c
    cancelled,       \* the context is done
    wg,              \* counter of the WaitGroup
    http,            \* the http server
    httpCloser,      \* the goroutine that shuts it down
    subCloser,       \* the goroutine that ends the subscription
    loop,            \* the event loop
    ws, tss          \* the connection to the joltify chain, the TSS server

servers == <<http, httpCloser, subCloser, loop>>
clients == <<ws, tss>>
vars == <<main, how, interrupted, cancelled, wg, servers, clients>>

Goroutine == {"none", "waiting", "done"}

Init ==
    /\ main = "passcode" /\ how = "running"
    /\ interrupted = FALSE /\ cancelled = FALSE /\ wg = 0
    /\ http = "off" /\ httpCloser = "none" /\ subCloser = "none" /\ loop = "none"
    /\ ws = "off" /\ tss = "off"

Running == main # "exited"
At(step) == main = step
Fails(step) == At(step) /\ step \in Failing

(* The three ways a start ends: a return before the deferred call is in     *)
(* place, log.Fatalln, and a return through TerminateBridge.                *)
Exit(reason) == main' = "exited" /\ how' = reason /\ UNCHANGED <<cancelled, wg, servers, clients>>
Abort ==
    /\ main' = "terminate" /\ how' = "failed" /\ cancelled' = TRUE
    /\ UNCHANGED <<wg, servers, clients>>

-----------------------------------------------------------------------------
(* NewBridgeService up to the deferred call of TerminateBridge. *)
StartFails ==
    /\ \/ \E step \in {"passcode", "import"} : Fails(step) /\ Exit("returned")
       \/ \E step \in {"tss", "bridge", "keyring"} : Fails(step) /\ Exit("fatal")
    /\ UNCHANGED interrupted

(* The user types the passcode, or never does.  The signal is caught since  *)
(* the line before: an interrupt waits in its channel meanwhile.            *)
ReadPasscode ==
    /\ At("passcode") /\ main' = "tss"
    /\ UNCHANGED <<how, interrupted, cancelled, wg, servers, clients>>

StartTssServer ==
    /\ At("tss") /\ main' = "bridge" /\ tss' = "up"
    /\ UNCHANGED <<how, interrupted, cancelled, wg, servers, ws>>

NewJoltifyBridge ==
    /\ At("bridge") /\ main' = "keyring" /\ ws' = "up"
    /\ UNCHANGED <<how, interrupted, cancelled, wg, servers, tss>>

ReadKeyring ==
    /\ \/ At("keyring") /\ main' = "import"
       \/ At("import") /\ main' = "validators"
    /\ UNCHANGED <<how, interrupted, cancelled, wg, servers, clients>>

(* From here on a failure returns through TerminateBridge. *)
InitValidators ==
    /\ At("validators") /\ main' = "http"
    /\ UNCHANGED <<how, interrupted, cancelled, wg, servers, clients>>

SetUpFails ==
    /\ \E step \in {"validators", "pubchain"} : Fails(step)
    /\ Abort
    /\ UNCHANGED interrupted

(* Start of the http server: two goroutines, and the error of the first if  *)
(* it is there already.                                                     *)
StartHttp ==
    /\ At("http") /\ main' = "started"
    /\ wg' = wg + 1 /\ http' = "starting" /\ httpCloser' = "waiting"
    /\ UNCHANGED <<how, interrupted, cancelled, subCloser, loop, clients>>

HttpStarted ==
    /\ At("started")
    /\ IF http = "failed" THEN Abort
       ELSE main' = "pubchain" /\ UNCHANGED <<how, cancelled, wg, servers, clients>>
    /\ UNCHANGED interrupted

NewChainInstance ==
    /\ At("pubchain") /\ main' = "subscribe" /\ wg' = wg + 1
    /\ UNCHANGED <<how, interrupted, cancelled, servers, clients>>

(* addEventLoop subscribes three times on the joltify chain, then once on   *)
(* the public chain.  It returns nothing: a failure leaves a process that   *)
(* serves no event and waits for the interrupt.                             *)
AddSubscribe ==
    /\ At("subscribe") /\ main' = "pubsub" /\ wg' = wg + 1
    /\ UNCHANGED <<how, interrupted, cancelled, servers, clients>>

SubscribeFails ==
    /\ \E step \in {"subscribe", "pubsub"} : Fails(step)
    /\ main' = "serve" /\ wg' = wg - 1
    /\ UNCHANGED <<how, interrupted, cancelled, servers, clients>>

(* Fault: the Done of addEventLoop is left to the event loop. *)
StartSubscription_LoopDone ==
    /\ At("pubsub") /\ main' = "serve"
    /\ subCloser' = "waiting" /\ loop' = "select"
    /\ UNCHANGED <<how, interrupted, cancelled, wg, http, httpCloser, clients>>

StartSubscription ==
    /\ At("pubsub") /\ main' = "serve" /\ wg' = wg - 1
    /\ subCloser' = "waiting" /\ loop' = "select"
    /\ UNCHANGED <<how, interrupted, cancelled, http, httpCloser, clients>>

-----------------------------------------------------------------------------
(* The signal may come at any time; it is read when the start is over. *)
Interrupt ==
    /\ Running /\ ~interrupted
    /\ interrupted' = TRUE
    /\ UNCHANGED <<main, how, cancelled, wg, servers, clients>>

Serve ==
    /\ At("serve") /\ interrupted
    /\ main' = "wait" /\ cancelled' = TRUE
    /\ UNCHANGED <<how, interrupted, wg, servers, clients>>

(* Fault: the shutdown does not wait. *)
Wait_Unwaited ==
    /\ At("wait")
    /\ main' = "terminate" /\ how' = "graceful"
    /\ UNCHANGED <<interrupted, cancelled, wg, servers, clients>>

Wait ==
    /\ At("wait") /\ wg = 0
    /\ main' = "terminate" /\ how' = "graceful"
    /\ UNCHANGED <<interrupted, cancelled, wg, servers, clients>>

(* The TSS server is left running when the connection cannot be stopped;    *)
(* either way the process ends, and every goroutine with it.                *)
TerminateBridge ==
    /\ At("terminate") /\ main' = "exited"
    /\ \/ ws' = "stopped" /\ tss' = "stopped"
       \/ UNCHANGED clients
    /\ UNCHANGED <<how, interrupted, cancelled, wg, servers>>

-----------------------------------------------------------------------------
(* The goroutines. *)
ListenAndServe ==
    /\ Running /\ http = "starting"
    /\ http' \in {"listening", "failed"}
    /\ UNCHANGED <<main, how, interrupted, cancelled, wg, httpCloser, subCloser, loop, clients>>

(* The server no longer listens.  The context it is given to wait for active*)
(* connections is the one that is done already: when there are any, Shutdown*)
(* returns its error and they go on.                                        *)
Shutdown ==
    \/ http = "failed" /\ UNCHANGED http
    \/ http \in {"starting", "listening"} /\ http' = "closed"
    \/ http = "listening" /\ http' = "draining"

(* Fault: Done is also deferred by the server that ended. *)
CloseHttp_Twice ==
    /\ Running /\ cancelled /\ httpCloser = "waiting"
    /\ httpCloser' = "done" /\ wg' = wg - 2 /\ Shutdown
    /\ UNCHANGED <<main, how, interrupted, cancelled, subCloser, loop, clients>>

CloseHttp ==
    /\ Running /\ cancelled /\ httpCloser = "waiting"
    /\ httpCloser' = "done" /\ wg' = wg - 1 /\ Shutdown
    /\ UNCHANGED <<main, how, interrupted, cancelled, subCloser, loop, clients>>

CloseSubscription ==
    /\ Running /\ cancelled /\ subCloser = "waiting"
    /\ subCloser' = "done" /\ wg' = wg - 1
    /\ UNCHANGED <<main, how, interrupted, cancelled, http, httpCloser, loop, clients>>

(* An event takes as long as it takes, for ever in front of a full channel. *)
HandleEvent ==
    /\ Running
    /\ \/ loop = "select" /\ loop' = "busy"
       \/ loop = "busy" /\ loop' = "select"
       \/ loop = "select" /\ cancelled /\ loop' = "done"
    /\ UNCHANGED <<main, how, interrupted, cancelled, wg, http, httpCloser, subCloser, clients>>

-----------------------------------------------------------------------------
Main ==
    \/ StartFails \/ ReadPasscode \/ StartTssServer \/ NewJoltifyBridge \/ ReadKeyring
    \/ InitValidators \/ SetUpFails \/ StartHttp \/ HttpStarted \/ NewChainInstance
    \/ AddSubscribe \/ SubscribeFails \/ StartSubscription
    \/ Serve \/ Wait \/ TerminateBridge

Next ==
    \/ Main \/ Interrupt
    \/ ListenAndServe \/ CloseHttp \/ CloseSubscription \/ HandleEvent

Spec == Init /\ [][Next]_vars

(* The calls of the start return, except for the read of the passcode, and  *)
(* the closers run; nothing is assumed of the event loop or of the user.    *)
FairSpec ==
    /\ Spec
    /\ WF_vars(~At("passcode") /\ Main) /\ WF_vars(CloseHttp) /\ WF_vars(CloseSubscription)

-----------------------------------------------------------------------------
(* The counter of the WaitGroup never goes below zero, which would panic. *)
TypeOK ==
    /\ main \in StartSteps \cup {"http", "started", "serve", "wait", "terminate", "exited"}
    /\ how \in {"running", "returned", "fatal", "failed", "graceful"}
    /\ interrupted \in BOOLEAN /\ cancelled \in BOOLEAN
    /\ wg \in Nat
    /\ http \in {"off", "starting", "listening", "failed", "closed", "draining"}
    /\ httpCloser \in Goroutine /\ subCloser \in Goroutine
    /\ loop \in {"none", "select", "busy", "done"}
    /\ ws \in {"off", "up", "stopped"} /\ tss \in {"off", "up", "stopped"}

(* What "we quit gracefully" is true of: when main has waited, the http     *)
(* server takes no connection any more and both closers have run, in        *)
(* whatever order.  Active connections and the event loop are not waited    *)
(* for.                                                                     *)
GracefulMeansClosed ==
    how = "graceful" =>
        /\ http \in {"closed", "draining", "failed"}
        /\ httpCloser = "done" /\ subCloser # "waiting"

(* The subscription of the public chain failed: the Add for the goroutine   *)
(* that would have ended it has no Done.                                    *)
Leaked == main \in {"serve", "wait"} /\ loop = "none" /\ wg > (IF httpCloser = "waiting" THEN 1 ELSE 0)

(* An interrupt ends the process, also one that comes during the start and  *)
(* also when the event loop is stuck in a handler, with two exceptions: at  *)
(* the prompt it has no effect until the passcode is there, and after the   *)
(* failed subscription the shutdown waits for ever.                         *)
InterruptQuits == (interrupted /\ ~At("passcode")) ~> (~Running \/ Leaked)
=============================================================================

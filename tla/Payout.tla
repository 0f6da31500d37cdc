------------------------------- MODULE Payout -------------------------------
(***************************************************************************)
(* What outbound transfers promise: a deposit is paid out once, unless a   *)
(* signer was told of an error about a transfer of it that was executed,   *)
(* or could still be.  From then on it may be paid again.                  *)
(***************************************************************************)
CONSTANTS
    Req,         \* the deposits
    Receipt      \* what identifies one execution of a transfer

VARIABLES
    paidOut,     \* the payments that were made
    inDoubt      \* deposits of which a signer was told such an error

Init == paidOut = {} /\ inDoubt = {}

Pay(r, by) ==
    /\ r \in inDoubt \/ \A m \in paidOut : m.req # r
    /\ paidOut' = paidOut \cup {[req |-> r, by |-> by]}
    /\ UNCHANGED inDoubt

Doubt(r) == inDoubt' = inDoubt \cup {r} /\ UNCHANGED paidOut

Next ==
    \/ \E r \in Req, by \in Receipt : Pay(r, by)
    \/ \E r \in Req : Doubt(r)

Spec == Init /\ [][Next]_<<paidOut, inDoubt>>
=============================================================================

------------------------------- MODULE Issue -------------------------------
(***************************************************************************)
(* What minting promises: coins are issued for a request once.  A mint is  *)
(* a request together with whatever tells two mints of it apart.           *)
(***************************************************************************)
CONSTANTS
    Req,         \* the requests
    Receipt      \* what identifies one execution of a mint

VARIABLE minted  \* the mints that issued coins

Init == minted = {}

Issue(r, by) ==
    /\ \A m \in minted : m.req # r
    /\ minted' = minted \cup {[req |-> r, by |-> by]}

Next == \E r \in Req, by \in Receipt : Issue(r, by)

Spec == Init /\ [][Next]_minted
=============================================================================

----------------------------- MODULE MCTssPool -----------------------------
(* Instances of TssPool for TLC. *)
EXTENDS TssPool

CONSTANTS v1, v2

Validators == {v1, v2}
=============================================================================

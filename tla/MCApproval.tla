------------------------------ MODULE MCApproval ------------------------------
(***************************************************************************)
(* Approval for TLC: the bounds are the constants of the specification.    *)
(***************************************************************************)
EXTENDS Approval
=============================================================================

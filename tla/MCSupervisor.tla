---------------------------- MODULE MCSupervisor ----------------------------
(***************************************************************************)
(* Supervisor for TLC.  The callers are interchangeable, but the run has   *)
(* liveness properties, so no symmetry is declared.                        *)
(***************************************************************************)
EXTENDS Supervisor, TLC
=============================================================================

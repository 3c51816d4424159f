---------------------------- MODULE MCReActSession ----------------------------
(***************************************************************************)
(* ReActSession for TLC: the bounds are the constants of the               *)
(* specification; the runs are not interchangeable (one of them thinks).   *)
(***************************************************************************)
EXTENDS ReActSession
=============================================================================

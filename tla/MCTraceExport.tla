----------------------------- MODULE MCTraceExport -----------------------------
(***************************************************************************)
(* TraceExport for TLC: a run, two turns, and two tools of the second turn. *)
(***************************************************************************)
EXTENDS TraceExport, TLC

CONSTANTS run, turn1, turn2, tool1, tool2

MCSpans == {run, turn1, turn2, tool1, tool2}
MCParent == (run :> Root) @@ (turn1 :> run) @@ (turn2 :> run) @@ (tool1 :> turn2) @@ (tool2 :> turn2)
=============================================================================

----------------------------- MODULE ExportChannel -----------------------------
(***************************************************************************)
(* What the trace of a run promises about the spans that end, without      *)
(* guards, threads, the queue and the two loops of its worker: a record is *)
(* taken or counted as lost, the exporter is given the records that were   *)
(* taken, in order, once and in batches, and only a channel that has       *)
(* rested may end with records in hand or let one go uncounted.            *)
(***************************************************************************)
EXTENDS Naturals, Sequences

CONSTANTS Records, Capacity, BatchSize

VARIABLES
  offered,  \* the records that were offered
  taken,    \* the records taken and not yet exported
  out,      \* what the exporter was given
  lost,     \* the counter of the records that were turned down
  rested,   \* the channel has seen a time without records
  ended     \* nothing is taken or exported any more

vars == << offered, taken, out, lost, rested, ended >>

Init ==
  /\ offered = {}
  /\ taken = << >>
  /\ out = << >>
  /\ lost = 0
  /\ rested = FALSE
  /\ ended = FALSE

Offer(r) == r \in Records \ offered /\ offered' = offered \cup {r}

Take(r) ==
  /\ Offer(r)
  /\ ~ended
  /\ Len(taken) < Capacity + BatchSize
  /\ taken' = Append(taken, r)
  /\ UNCHANGED << out, lost, rested, ended >>

\* Nobody waits for room: the record is lost, and counted.
TurnDown(r) ==
  /\ Offer(r)
  /\ ~ended
  /\ Len(taken) >= Capacity
  /\ lost' = lost + 1
  /\ UNCHANGED << taken, out, rested, ended >>

\* The gap in the promise: a record that comes too late to be counted.
LetGo(r) ==
  /\ Offer(r)
  /\ ended /\ rested
  /\ UNCHANGED << taken, out, lost, rested, ended >>

Export(n) ==
  /\ ~ended
  /\ n <= Len(taken)
  /\ out' = out \o SubSeq(taken, 1, n)
  /\ taken' = SubSeq(taken, n + 1, Len(taken))
  /\ UNCHANGED << offered, lost, rested, ended >>

Rest ==
  /\ taken = << >>
  /\ ~ended
  /\ rested' = TRUE
  /\ UNCHANGED << offered, taken, out, lost, ended >>

End ==
  /\ ~ended
  /\ rested \/ taken = << >>
  /\ ended' = TRUE
  /\ taken' = << >>
  /\ UNCHANGED << offered, out, lost, rested >>

Next ==
  \/ \E r \in Records : Take(r) \/ TurnDown(r) \/ LetGo(r)
  \/ \E n \in 1 .. BatchSize : Export(n)
  \/ Rest \/ End

Spec == Init /\ [][Next]_vars
=============================================================================

----------------------------- MODULE Conversation -----------------------------
(***************************************************************************)
(* What the session of a chat promises to the engines that share it,       *)
(* without locks, threads, reports and tools: the runs speak one after the *)
(* other, nothing that was said is taken back, and every run speaks the    *)
(* language of a ReAct loop.  A run may fall silent after any message.     *)
(***************************************************************************)
EXTENDS Naturals, Sequences

CONSTANTS Runs, Nobody, MaxTurns, MaxCalls

VARIABLES
  log,      \* everything that was said
  waiting,  \* the runs that have not spoken yet
  speaker,  \* the run whose turn it is, or Nobody
  owed,     \* the observations the speaker still owes to its last response
  broken    \* the session turns every further run away

vars == << log, waiting, speaker, owed, broken >>

Init ==
  /\ log = << >>
  /\ waiting = Runs
  /\ speaker = Nobody
  /\ owed = 0
  /\ broken = FALSE

Last == log[Len(log)]

Say(k, r, t, n, c) ==
  log' = Append(log, [kind |-> k, run |-> r, turn |-> t, calls |-> n, call |-> c])

Open(r) ==
  /\ r \in waiting
  /\ speaker = Nobody
  /\ ~broken
  /\ Say("user", r, 0, 0, 0)
  /\ waiting' = waiting \ {r}
  /\ speaker' = r
  /\ UNCHANGED << owed, broken >>

TurnAway(r) ==
  /\ r \in waiting
  /\ speaker = Nobody
  /\ broken
  /\ waiting' = waiting \ {r}
  /\ UNCHANGED << log, speaker, owed, broken >>

\* A turn starts behind a user message, the last observation or a reminder.
AtTurnStart == owed = 0 /\ Last.kind \in {"user", "result", "reminder"} /\ Last.turn < MaxTurns

Reflect ==
  /\ speaker # Nobody
  /\ AtTurnStart
  /\ Say("thinking", speaker, Last.turn + 1, 0, 0)
  /\ UNCHANGED << waiting, speaker, owed, broken >>

\* One response to a turn, with or without a thought before it.
Respond(n) ==
  /\ speaker # Nobody
  /\ \/ AtTurnStart /\ Say("assistant", speaker, Last.turn + 1, n, 0)
     \/ Last.kind = "thinking" /\ Say("assistant", speaker, Last.turn, n, 0)
  /\ owed' = n
  /\ UNCHANGED << waiting, speaker, broken >>

\* The observations of a response, directly behind it and in the order of its calls.
Observe ==
  /\ speaker # Nobody
  /\ owed > 0
  /\ \/ Last.kind = "assistant" /\ Say("result", speaker, Last.turn, 0, 1)
     \/ Last.kind = "result" /\ Say("result", speaker, Last.turn, 0, Last.call + 1)
  /\ owed' = owed - 1
  /\ UNCHANGED << waiting, speaker, broken >>

\* At most one reminder, behind a complete batch.
Remind ==
  /\ speaker # Nobody
  /\ owed = 0
  /\ Last.kind = "result"
  /\ Say("reminder", speaker, Last.turn, 0, 0)
  /\ UNCHANGED << waiting, speaker, owed, broken >>

\* The speaker returns, fails or panics, and may break the session.
Close ==
  /\ speaker # Nobody
  /\ speaker' = Nobody
  /\ owed' = 0
  /\ broken' \in {broken, TRUE}
  /\ UNCHANGED << log, waiting >>

Next ==
  \/ \E r \in Runs : Open(r) \/ TurnAway(r)
  \/ Reflect \/ \E n \in 0 .. MaxCalls : Respond(n)
  \/ Observe \/ Remind \/ Close

Spec == Init /\ [][Next]_vars
=============================================================================

------------------------------- MODULE Approval -------------------------------
(***************************************************************************)
(* The approval manager of the Feishu gateway                              *)
(* (src/integrations/feishu/approval.rs) with the middleware that calls it *)
(* (src/app.rs) and the card callbacks that resolve it                     *)
(* (src/integrations/feishu/server.rs).                                    *)
(*                                                                         *)
(* A dangerous tool call blocks the thread of its run: it registers a      *)
(* one-message channel under a fresh approval id, sends a card and waits   *)
(* for a click or for the timeout.  Clicks arrive in other threads, in any *)
(* order, any number of times, on any card ever delivered: also on a card  *)
(* whose sending was reported as failed, and on a card that an earlier     *)
(* process sent.  A step is one critical section, one network call or one  *)
(* channel operation.  Reasons and toasts are left out: a click is         *)
(* recorded (Resolved) exactly when it sets winner.                        *)
(***************************************************************************)
EXTENDS Naturals

CONSTANTS
  MaxApprovals,  \* bound: approvals one process asks for
  MaxRestarts    \* bound: times the gateway is started again

ASSUME ApprovalAssumption == MaxApprovals \in Nat /\ MaxRestarts \in Nat

VARIABLES
  epoch,      \* which process is running
  nextId,     \* ApprovalManager::next_id
  pending,    \* keys of ApprovalState::pending
  completed,  \* keys of ApprovalState::completed
  expired,    \* those of them older than completed_ttl
  channel,    \* the message in the wait's channel
  inFlight,   \* the decision a callback took the sender for and has not sent yet
  stage,      \* where the tool call of each approval id is
  winner,     \* the decision recorded for each approval id
  cards,      \* the cards delivered to the chat: they outlive the process
  yes,        \* the cards on which Allow was clicked and recorded
  executed    \* the tool calls that were executed

vars == << epoch, nextId, pending, completed, expired, channel, inFlight, stage,
           winner, cards, yes, executed >>

Ids == 1 .. MaxApprovals
Decisions == {"approve", "reject"}
Cards == [epoch : 0 .. MaxRestarts, id : Ids]
Asking == {"card", "send_failed", "waiting", "timed_out"}
Stages == {"new", "allowed", "rejected", "failed", "executed"} \cup Asking

Init ==
  /\ epoch = 0
  /\ nextId = 1
  /\ pending = {}
  /\ completed = {}
  /\ expired = {}
  /\ channel = [i \in Ids |-> "none"]
  /\ inFlight = [i \in Ids |-> "none"]
  /\ stage = [i \in Ids |-> "new"]
  /\ winner = [i \in Ids |-> "none"]
  /\ cards = {}
  /\ yes = {}
  /\ executed = {}

Goto(i, s) == stage' = [stage EXCEPT ![i] = s]

\* The card that shows the call of approval id i of this process.
Card(i) == [epoch |-> epoch, id |-> i]

-----------------------------------------------------------------------------
(***************************************************************************)
(* The waiting side: wait_for_tool_approval, in the thread of the run.     *)
(***************************************************************************)

Register ==
  /\ nextId \in Ids
  /\ nextId' = nextId + 1
  /\ completed' = completed \ expired
  /\ expired' = {}
  /\ pending' = pending \cup {nextId}
  /\ Goto(nextId, "card")
  /\ UNCHANGED << epoch, channel, inFlight, winner, cards, yes, executed >>

\* The request may reach Feishu although its answer never comes back.
SendCard(i) ==
  /\ stage[i] = "card"
  /\ \/ cards' = cards \cup {Card(i)} /\ Goto(i, "waiting")
     \/ cards' \in {cards, cards \cup {Card(i)}} /\ Goto(i, "send_failed")
  /\ UNCHANGED << epoch, nextId, pending, completed, expired, channel, inFlight, winner,
                  yes, executed >>

SendFailed(i) ==
  /\ stage[i] = "send_failed"
  /\ pending' = pending \ {i}
  /\ Goto(i, "failed")
  /\ UNCHANGED << epoch, nextId, completed, expired, channel, inFlight, winner, cards, yes,
                  executed >>

\* Mutant: any answer on the channel lets the tool run.
ReceiveAnything(i) ==
  /\ stage[i] = "waiting"
  /\ channel[i] # "none"
  /\ Goto(i, "allowed")
  /\ channel' = [channel EXCEPT ![i] = "none"]
  /\ UNCHANGED << epoch, nextId, pending, completed, expired, inFlight, winner, cards, yes,
                  executed >>

Receive(i) ==
  /\ stage[i] = "waiting"
  /\ channel[i] # "none"
  /\ Goto(i, IF channel[i] = "approve" THEN "allowed" ELSE "rejected")
  /\ channel' = [channel EXCEPT ![i] = "none"]
  /\ UNCHANGED << epoch, nextId, pending, completed, expired, inFlight, winner, cards, yes,
                  executed >>

\* Mutant: after a timeout the run waits again.
TimeoutRetries(i) ==
  /\ stage[i] = "waiting"
  /\ channel[i] = "none"
  /\ UNCHANGED vars

\* recv_timeout gives up on an empty channel; the state lock is taken later.
TimeoutFires(i) ==
  /\ stage[i] = "waiting"
  /\ channel[i] = "none"
  /\ Goto(i, "timed_out")
  /\ UNCHANGED << epoch, nextId, pending, completed, expired, channel, inFlight, winner,
                  cards, yes, executed >>

TimedOut(i) ==
  /\ stage[i] = "timed_out"
  /\ pending' = pending \ {i}
  /\ completed' = completed \cup {i}
  /\ expired' = expired \ {i}
  /\ Goto(i, "rejected")
  /\ UNCHANGED << epoch, nextId, channel, inFlight, winner, cards, yes, executed >>

\* The middleware returns None and the registry executes the tool.
Execute(i) ==
  /\ stage[i] = "allowed"
  /\ executed' = executed \cup {Card(i)}
  /\ Goto(i, "executed")
  /\ UNCHANGED << epoch, nextId, pending, completed, expired, channel, inFlight, winner,
                  cards, yes >>

-----------------------------------------------------------------------------
(***************************************************************************)
(* The callback side: resolve, called for a click on a delivered card.     *)
(***************************************************************************)

Record(card, d) ==
  LET i == card.id IN
  /\ inFlight' = [inFlight EXCEPT ![i] = d]
  /\ winner' = [winner EXCEPT ![i] = d]
  /\ yes' = IF d = "approve" THEN yes \cup {card} ELSE yes

\* Mutant: the sender is dropped together with its pending entry.
ClickDropsSender(card, d) ==
  LET i == card.id IN
  /\ i \in pending
  /\ pending' = pending \ {i}
  /\ completed' = (completed \ expired) \cup {i}
  /\ expired' = {}
  /\ UNCHANGED << epoch, nextId, channel, inFlight, stage, winner, cards, yes, executed >>

Click(card, d) ==
  LET i == card.id IN
  /\ i \in pending
  /\ pending' = pending \ {i}
  /\ completed' = (completed \ expired) \cup {i}
  /\ expired' = {}
  /\ Record(card, d)
  /\ UNCHANGED << epoch, nextId, channel, stage, cards, executed >>

\* AlreadyHandled, or Unknown when the id was never registered or is forgotten.
ClickTooLate(card) ==
  /\ card.id \notin pending
  /\ completed' = completed \ expired
  /\ expired' = {}
  /\ UNCHANGED << epoch, nextId, pending, channel, inFlight, stage, winner, cards, yes,
                  executed >>

\* sender.send, after the lock is released; nobody may be receiving any more.
Send(i) ==
  /\ inFlight[i] # "none"
  /\ channel' = [channel EXCEPT ![i] = inFlight[i]]
  /\ inFlight' = [inFlight EXCEPT ![i] = "none"]
  /\ UNCHANGED << epoch, nextId, pending, completed, expired, stage, winner, cards, yes,
                  executed >>

\* COMPLETED_APPROVAL_TTL passes for one entry; it is pruned at the next call.
Expire(i) ==
  /\ i \in completed \ expired
  /\ expired' = expired \cup {i}
  /\ UNCHANGED << epoch, nextId, pending, completed, channel, inFlight, stage, winner,
                  cards, yes, executed >>

\* The gateway stops and starts again: ids restart at approval_1, the cards of
\* the old process stay in the chat.
Restart ==
  /\ epoch < MaxRestarts
  /\ epoch' = epoch + 1
  /\ nextId' = 1
  /\ pending' = {}
  /\ completed' = {}
  /\ expired' = {}
  /\ channel' = [i \in Ids |-> "none"]
  /\ inFlight' = [i \in Ids |-> "none"]
  /\ stage' = [i \in Ids |-> "new"]
  /\ winner' = [i \in Ids |-> "none"]
  /\ UNCHANGED << cards, yes, executed >>

Proceed(i) ==
  \/ SendCard(i) \/ SendFailed(i) \/ Receive(i) \/ TimeoutFires(i) \/ TimedOut(i)
  \/ Execute(i)

Next ==
  \/ Register
  \/ \E i \in Ids : Proceed(i) \/ Send(i) \/ Expire(i)
  \/ \E card \in cards : ClickTooLate(card) \/ \E d \in Decisions : Click(card, d)
  \/ Restart

\* A network call ends, recv_timeout fires after ten minutes and threads are
\* scheduled.  Nobody is obliged to click.
Fairness == \A i \in Ids : WF_vars(Proceed(i)) /\ WF_vars(Send(i))

Spec == Init /\ [][Next]_vars
FairSpec == Spec /\ Fairness

-----------------------------------------------------------------------------
TypeOK ==
  /\ epoch \in 0 .. MaxRestarts
  /\ nextId \in 1 .. MaxApprovals + 1
  /\ pending \subseteq Ids
  /\ completed \subseteq Ids
  /\ expired \subseteq completed
  /\ channel \in [Ids -> Decisions \cup {"none"}]
  /\ inFlight \in [Ids -> Decisions \cup {"none"}]
  /\ stage \in [Ids -> Stages]
  /\ winner \in [Ids -> Decisions \cup {"none"}]
  /\ cards \subseteq Cards
  /\ yes \subseteq cards
  /\ executed \subseteq Cards

\* A waiting run can always still be answered: its sender is registered, or a
\* callback holds it, or the answer is in the channel.  So the branch
\* RecvTimeoutError::Disconnected of wait_for_tool_approval is never taken.
NoWaitIsOrphaned ==
  \A i \in Ids :
    stage[i] = "waiting" =>
      i \in pending \/ inFlight[i] # "none" \/ channel[i] # "none"

\* A pending entry belongs to a call that is still being asked for: none leaks.
PendingIsAskedFor == \A i \in pending : stage[i] \in Asking

\* A tool that needs approval runs in this process only after Allow was recorded
\* for its approval id (the middleware of build_feishu_engine).
RunsOnlyWhenAllowed ==
  \A i \in Ids : stage[i] \in {"allowed", "executed"} => winner[i] = "approve"

\* The first recorded decision stands as long as the process lives.
FirstResultWins ==
  [][\A i \in Ids : winner[i] # "none" /\ epoch' = epoch => winner'[i] = winner[i]]_vars

\* A tool that was executed was allowed on the card that shows this very call,
\* as long as the gateway has not been restarted.
FirstProcessRunsWhatWasShown == epoch = 0 => executed \subseteq yes

\* Every wait ends, by a click or by the timeout.
EveryWaitEnds == \A i \in Ids : stage[i] \in Asking ~> stage[i] \notin Asking

\* The manager and the middleware implement the abstract gate: a call is asked
\* for from its registration until its wait ends, and the verdict is the decision
\* that resolve recorded.
PhaseOf(s) ==
  CASE s = "new" -> "idle"
    [] s \in Asking -> "asked"
    [] s = "allowed" -> "granted"
    [] s = "executed" -> "ran"
    [] OTHER -> "refused"

phase == [i \in Ids |-> PhaseOf(stage[i])]

Gate == INSTANCE ToolGate WITH Calls <- Ids, verdict <- winner

GateSpec == Gate!Spec

-----------------------------------------------------------------------------
(***************************************************************************)
(* What the documents say and the code does not do.                        *)
(***************************************************************************)

\* A click on the card of a former process allows nothing: what was executed
\* was allowed on its own card, restarts or not.
ExecutedWasApprovedOnItsCard == executed \subseteq yes
=============================================================================

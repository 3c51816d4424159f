---------------------------- MODULE ApprovalProofs ----------------------------
(***************************************************************************)
(* Proofs about Approval, for every number of approvals and restarts.      *)
(***************************************************************************)
EXTENDS Approval, TLAPS

\* Where the one answer of a wait is: nowhere yet (pending), in a callback's
\* hands, or in the channel; and it is always the recorded decision.
AnswerInv ==
  \A i \in Ids :
    /\ i \in pending => /\ stage[i] \in Asking
                        /\ winner[i] = "none" /\ inFlight[i] = "none" /\ channel[i] = "none"
    /\ inFlight[i] # "none" => inFlight[i] = winner[i] /\ channel[i] = "none"
    /\ channel[i] # "none" => channel[i] = winner[i]
    /\ stage[i] \in {"allowed", "executed"} => winner[i] = "approve"
    /\ stage[i] \in {"card", "waiting"} =>
         i \in pending \/ inFlight[i] # "none" \/ channel[i] # "none"

\* Approval ids are handed out in order and an id not handed out is untouched.
FreshInv ==
  \A i \in Ids :
    /\ i >= nextId => stage[i] = "new"
    /\ stage[i] = "new" => /\ i \notin pending
                           /\ winner[i] = "none" /\ inFlight[i] = "none" /\ channel[i] = "none"

IInv == TypeOK /\ AnswerInv /\ FreshInv

\* The initial states satisfy the inductive invariant.
LEMMA Initially == Init => IInv
  BY ApprovalAssumption
  DEF Init, IInv, TypeOK, AnswerInv, FreshInv, Ids, Cards, Stages, Asking, Decisions

\* Every step keeps the types (one case per action).
LEMMA TypeStep == IInv /\ [Next]_vars => TypeOK'
  <1> SUFFICES ASSUME IInv, [Next]_vars PROVE TypeOK'
    OBVIOUS
  <1> USE ApprovalAssumption DEF IInv, TypeOK, Ids, Cards, Card, Stages, Asking, Goto
  <1>1. ASSUME Register PROVE TypeOK'
    BY <1>1 DEF Register
  <1>2. ASSUME NEW i \in Ids, SendCard(i) PROVE TypeOK'
    BY <1>2 DEF SendCard
  <1>3. ASSUME NEW i \in Ids, SendFailed(i) PROVE TypeOK'
    BY <1>3 DEF SendFailed
  <1>4. ASSUME NEW i \in Ids, Receive(i) PROVE TypeOK'
    BY <1>4 DEF Receive
  <1>5. ASSUME NEW i \in Ids, TimeoutFires(i) PROVE TypeOK'
    BY <1>5 DEF TimeoutFires
  <1>6. ASSUME NEW i \in Ids, TimedOut(i) PROVE TypeOK'
    BY <1>6 DEF TimedOut
  <1>7. ASSUME NEW i \in Ids, Execute(i) PROVE TypeOK'
    BY <1>7 DEF Execute
  <1>8. ASSUME NEW i \in Ids, Send(i) PROVE TypeOK'
    BY <1>8 DEF Send
  <1>9. ASSUME NEW i \in Ids, Expire(i) PROVE TypeOK'
    BY <1>9 DEF Expire
  <1>10. ASSUME NEW card \in cards, ClickTooLate(card) PROVE TypeOK'
    BY <1>10 DEF ClickTooLate
  <1>11. ASSUME NEW card \in cards, NEW d \in Decisions, Click(card, d) PROVE TypeOK'
    BY <1>11 DEF Click, Record
  <1>12. ASSUME Restart PROVE TypeOK'
    BY <1>12 DEF Restart
  <1>13. CASE UNCHANGED vars
    BY <1>13 DEF vars
  <1> QED
    BY <1>1, <1>2, <1>3, <1>4, <1>5, <1>6, <1>7, <1>8, <1>9, <1>10, <1>11, <1>12, <1>13
    DEF Next, Proceed

\* Every step keeps track of the one answer of each wait.
LEMMA AnswerStep == IInv /\ [Next]_vars => AnswerInv' /\ FreshInv'
  <1> SUFFICES ASSUME IInv, [Next]_vars PROVE AnswerInv' /\ FreshInv'
    OBVIOUS
  <1> USE DEF IInv, TypeOK, AnswerInv, FreshInv, Ids, Stages, Asking, Goto, Decisions
  <1>1. ASSUME Register PROVE AnswerInv' /\ FreshInv'
    BY <1>1 DEF Register
  <1>2. ASSUME NEW i \in Ids, SendCard(i) PROVE AnswerInv' /\ FreshInv'
    BY <1>2 DEF SendCard
  <1>3. ASSUME NEW i \in Ids, SendFailed(i) PROVE AnswerInv' /\ FreshInv'
    BY <1>3 DEF SendFailed
  <1>4. ASSUME NEW i \in Ids, Receive(i) PROVE AnswerInv' /\ FreshInv'
    BY <1>4 DEF Receive
  <1>5. ASSUME NEW i \in Ids, TimeoutFires(i) PROVE AnswerInv' /\ FreshInv'
    BY <1>5 DEF TimeoutFires
  <1>6. ASSUME NEW i \in Ids, TimedOut(i) PROVE AnswerInv' /\ FreshInv'
    BY <1>6 DEF TimedOut
  <1>7. ASSUME NEW i \in Ids, Execute(i) PROVE AnswerInv' /\ FreshInv'
    BY <1>7 DEF Execute
  <1>8. ASSUME NEW i \in Ids, Send(i) PROVE AnswerInv' /\ FreshInv'
    BY <1>8 DEF Send
  <1>9. ASSUME NEW i \in Ids, Expire(i) PROVE AnswerInv' /\ FreshInv'
    BY <1>9 DEF Expire
  <1>10. ASSUME NEW card \in cards, ClickTooLate(card) PROVE AnswerInv' /\ FreshInv'
    BY <1>10 DEF ClickTooLate
  <1>11. ASSUME NEW card \in cards, NEW d \in Decisions, Click(card, d)
         PROVE  AnswerInv' /\ FreshInv'
    BY <1>11 DEF Click, Record, Cards
  <1>12. ASSUME Restart PROVE AnswerInv' /\ FreshInv'
    BY <1>12 DEF Restart
  <1>13. CASE UNCHANGED vars
    BY <1>13 DEF vars
  <1> QED
    BY <1>1, <1>2, <1>3, <1>4, <1>5, <1>6, <1>7, <1>8, <1>9, <1>10, <1>11, <1>12, <1>13
    DEF Next, Proceed

\* The inductive invariant holds in every behaviour.
LEMMA Invariance == Spec => []IInv
  <1>1. IInv /\ [Next]_vars => IInv'
    BY TypeStep, AnswerStep DEF IInv
  <1> QED
    BY Initially, <1>1, PTL DEF Spec

\* Every variable keeps its type in every behaviour of the approval manager.
THEOREM TypeCorrect == Spec => []TypeOK
  BY Invariance, PTL DEF IInv

\* The wait channel is never disconnected while a run waits on it.
THEOREM NoOrphans == Spec => []NoWaitIsOrphaned
  <1>1. IInv => NoWaitIsOrphaned
    BY DEF IInv, AnswerInv, NoWaitIsOrphaned
  <1> QED
    BY Invariance, <1>1, PTL

\* No pending entry outlives the wait it was registered for.
THEOREM NoLeak == Spec => []PendingIsAskedFor
  <1>1. IInv => PendingIsAskedFor
    BY DEF IInv, TypeOK, AnswerInv, PendingIsAskedFor
  <1> QED
    BY Invariance, <1>1, PTL

\* A gated tool runs only after Allow was recorded for its approval id.
THEOREM OnlyWhenAllowed == Spec => []RunsOnlyWhenAllowed
  <1>1. IInv => RunsOnlyWhenAllowed
    BY DEF IInv, AnswerInv, RunsOnlyWhenAllowed
  <1> QED
    BY Invariance, <1>1, PTL

\* The first recorded decision is never replaced (resolve).
THEOREM FirstDecisionStands == Spec => FirstResultWins
  <1> DEFINE Stands == \A i \in Ids : winner[i] # "none" /\ epoch' = epoch => winner'[i] = winner[i]
  <1>1. IInv /\ [Next]_vars => [Stands]_vars
    <2> SUFFICES ASSUME IInv, Next PROVE Stands
      OBVIOUS
    <2> USE DEF IInv, TypeOK, AnswerInv, FreshInv
    <2>1. ASSUME NEW card \in cards, NEW d \in Decisions, Click(card, d) PROVE Stands
      BY <2>1 DEF Click, Record, Cards
    <2>2. ASSUME NEW card \in cards, ClickTooLate(card) PROVE Stands
      BY <2>2 DEF ClickTooLate
    <2>3. ASSUME NEW j \in Ids, Proceed(j) \/ Send(j) \/ Expire(j) PROVE Stands
      BY <2>3 DEF Proceed, SendCard, SendFailed, Receive, TimeoutFires, TimedOut, Execute,
         Send, Expire
    <2>4. CASE Register
      BY <2>4 DEF Register
    <2>5. CASE Restart
      BY <2>5, ApprovalAssumption DEF Restart
    <2> QED
      BY <2>1, <2>2, <2>3, <2>4, <2>5 DEF Next
  <1> QED
    BY Invariance, <1>1, PTL DEF FirstResultWins, Spec

-----------------------------------------------------------------------------
\* In the first process an approval id names one card: the decision recorded for
\* the id was made on the card of the very call.
OneProcessInv ==
  epoch = 0 =>
    /\ \A card \in cards : card = Card(card.id)
    /\ \A i \in Ids : winner[i] = "approve" => Card(i) \in yes
    /\ executed \subseteq yes

\* Until the gateway is restarted it executes a gated tool only if Allow was
\* clicked on the card that shows this call.
THEOREM ApprovedOnItsCard == Spec => []FirstProcessRunsWhatWasShown
  <1>1. Init => OneProcessInv
    BY DEF Init, OneProcessInv
  <1>2. IInv /\ OneProcessInv /\ [Next]_vars => OneProcessInv'
    <2> SUFFICES ASSUME IInv, OneProcessInv, [Next]_vars PROVE OneProcessInv'
      OBVIOUS
    <2> USE DEF IInv, TypeOK, AnswerInv, OneProcessInv, Card
    <2>1. ASSUME NEW card \in cards, NEW d \in Decisions, Click(card, d) PROVE OneProcessInv'
      BY <2>1 DEF Click, Record, Cards
    <2>2. ASSUME NEW card \in cards, ClickTooLate(card) PROVE OneProcessInv'
      BY <2>2 DEF ClickTooLate
    <2>3. ASSUME NEW j \in Ids, SendCard(j) PROVE OneProcessInv'
      BY <2>3 DEF SendCard
    <2>4. ASSUME NEW j \in Ids, Execute(j) PROVE OneProcessInv'
      BY <2>4 DEF Execute
    <2>5. ASSUME NEW j \in Ids,
                 \/ SendFailed(j) \/ Receive(j) \/ TimeoutFires(j) \/ TimedOut(j)
                 \/ Send(j) \/ Expire(j)
          PROVE  OneProcessInv'
      BY <2>5 DEF SendFailed, Receive, TimeoutFires, TimedOut, Send, Expire
    <2>6. CASE Register
      BY <2>6 DEF Register
    <2>7. CASE Restart
      BY <2>7 DEF Restart
    <2>8. CASE UNCHANGED vars
      BY <2>8 DEF vars
    <2> QED
      BY <2>1, <2>2, <2>3, <2>4, <2>5, <2>6, <2>7, <2>8 DEF Next, Proceed
  <1>3. OneProcessInv => FirstProcessRunsWhatWasShown
    BY DEF OneProcessInv, FirstProcessRunsWhatWasShown
  <1> QED
    BY Invariance, <1>1, <1>2, <1>3, PTL DEF Spec

-----------------------------------------------------------------------------
(***************************************************************************)
(* The refinement: every step of the manager is a step of the gate.        *)
(***************************************************************************)
\* Moving one call to another stage moves its phase.
LEMMA MoveOfStage ==
  ASSUME TypeOK, NEW i \in Ids, NEW s \in Stages, Goto(i, s)
  PROVE  phase' = [phase EXCEPT ![i] = PhaseOf(s)]
  BY DEF Goto, phase, TypeOK

\* The phase of each stage.
LEMMA Phases ==
  /\ PhaseOf("new") = "idle"
  /\ \A s \in Asking : PhaseOf(s) = "asked"
  /\ PhaseOf("allowed") = "granted"
  /\ PhaseOf("executed") = "ran"
  /\ PhaseOf("rejected") = "refused"
  /\ PhaseOf("failed") = "refused"
  BY DEF PhaseOf, Asking

\* Every step of the manager is a step of the gate or leaves it alone.
LEMMA GateStep == IInv /\ [Next]_vars => [Gate!Next]_(Gate!vars)
  <1> SUFFICES ASSUME IInv, [Next]_vars PROVE Gate!Next \/ UNCHANGED << phase, winner >>
    BY DEF Gate!vars
  <1> USE Phases DEF IInv
  <1>1. ASSUME Register PROVE Gate!Ask(nextId)
    <2>1. nextId \in Ids /\ stage[nextId] = "new"
      BY <1>1 DEF Register, FreshInv, TypeOK
    <2>2. phase' = [phase EXCEPT ![nextId] = PhaseOf("card")]
      BY <1>1, <2>1, MoveOfStage DEF Register, Stages, Asking
    <2> QED
      BY <1>1, <2>1, <2>2 DEF Register, Gate!Ask, phase, Asking
  <1>2. ASSUME NEW i \in Ids, SendCard(i) \/ TimeoutFires(i) PROVE UNCHANGED << phase, winner >>
    <2>1. PICK s \in {"waiting", "send_failed", "timed_out"} : Goto(i, s)
      BY <1>2 DEF SendCard, TimeoutFires
    <2>2. phase' = [phase EXCEPT ![i] = "asked"]
      BY <2>1, MoveOfStage DEF Stages, Asking
    <2>3. phase[i] = "asked"
      BY <1>2 DEF SendCard, TimeoutFires, phase, Asking
    <2>4. winner' = winner
      BY <1>2 DEF SendCard, TimeoutFires
    <2> QED
      BY <2>2, <2>3, <2>4 DEF phase
  <1>3. ASSUME NEW i \in Ids, SendFailed(i) \/ TimedOut(i) PROVE Gate!Refuse(i)
    <2>1. PICK s \in {"failed", "rejected"} : Goto(i, s)
      BY <1>3 DEF SendFailed, TimedOut
    <2>2. phase' = [phase EXCEPT ![i] = "refused"]
      BY <2>1, MoveOfStage DEF Stages
    <2>3. phase[i] = "asked"
      BY <1>3 DEF SendFailed, TimedOut, phase, Asking
    <2>4. winner' = winner
      BY <1>3 DEF SendFailed, TimedOut
    <2> QED
      BY <2>2, <2>3, <2>4 DEF Gate!Refuse
  <1>4. ASSUME NEW i \in Ids, Receive(i) PROVE Gate!Grant(i) \/ Gate!Refuse(i)
    <2>1. phase[i] = "asked" /\ winner' = winner
      BY <1>4 DEF Receive, phase, Asking
    <2>2. CASE channel[i] = "approve"
      <3>1. phase' = [phase EXCEPT ![i] = "granted"]
        BY <1>4, <2>2, MoveOfStage DEF Receive, Stages
      <3>2. winner[i] = "approve"
        BY <2>2 DEF AnswerInv
      <3> QED
        BY <2>1, <3>1, <3>2 DEF Gate!Grant
    <2>3. CASE channel[i] # "approve"
      <3>1. phase' = [phase EXCEPT ![i] = "refused"]
        BY <1>4, <2>3, MoveOfStage DEF Receive, Stages
      <3> QED
        BY <2>1, <3>1 DEF Gate!Refuse
    <2> QED
      BY <2>2, <2>3
  <1>5. ASSUME NEW i \in Ids, Execute(i) PROVE Gate!Run(i)
    <2>1. phase' = [phase EXCEPT ![i] = "ran"]
      BY <1>5, MoveOfStage DEF Execute, Stages
    <2> QED
      BY <1>5, <2>1 DEF Execute, Gate!Run, phase
  <1>6. ASSUME NEW card \in cards, NEW d \in Decisions, Click(card, d) PROVE Gate!Say(card.id, d)
    <2>1. card.id \in pending /\ card.id \in Ids
      BY <1>6 DEF Click, TypeOK
    <2>2. winner[card.id] = "none" /\ phase[card.id] = "asked"
      BY <2>1 DEF AnswerInv, phase
    <2>3. UNCHANGED phase /\ winner' = [winner EXCEPT ![card.id] = d]
      BY <1>6 DEF Click, Record, phase
    <2> QED
      BY <2>2, <2>3 DEF Gate!Say
  <1>7. ASSUME NEW card \in cards, ClickTooLate(card) PROVE UNCHANGED << phase, winner >>
    BY <1>7 DEF ClickTooLate, phase
  <1>8. ASSUME NEW i \in Ids, Send(i) \/ Expire(i) PROVE UNCHANGED << phase, winner >>
    BY <1>8 DEF Send, Expire, phase
  <1>9. ASSUME Restart PROVE Gate!Abandon
    BY <1>9 DEF Restart, Gate!Abandon, phase
  <1>10. CASE UNCHANGED vars
    BY <1>10 DEF vars, phase
  <1>11. nextId \in Ids \/ ~Register
    BY DEF Register
  <1>12. \A card \in cards : card.id \in Ids
    BY DEF TypeOK, Cards
  <1> QED
    BY <1>1, <1>2, <1>3, <1>4, <1>5, <1>6, <1>7, <1>8, <1>9, <1>10, <1>11, <1>12
    DEF Next, Proceed, Decisions, Gate!Next

\* The manager with its middleware implements the gate: a call that needs
\* approval goes from asked to granted only on the recorded, first verdict.
THEOREM ImplementsGate == Spec => GateSpec
  <1>1. Init => Gate!Init
    BY Phases DEF Init, Gate!Init, phase
  <1> QED
    BY Invariance, GateStep, <1>1, PTL DEF Spec, GateSpec, Gate!Spec
=============================================================================

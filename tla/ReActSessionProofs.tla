--------------------------- MODULE ReActSessionProofs ---------------------------
(***************************************************************************)
(* Proofs about the runs of a session: for any number of runs, turns and   *)
(* calls, with and without thinking, failing reports and panics.           *)
(***************************************************************************)
EXTENDS ReActSession, SequenceTheorems, TLAPS

Batching == {"announce", "sequential", "parallel", "observe"}
Busy == {"turn", "think", "act", "complete", "remind"} \cup Batching
Places == {"queued"} \cup Busy \cup Ended

\* A run is between its first message and its end exactly while it has the lock.
HoldInv == \A r \in Runs : pc[r] \in Busy <=> lock = r

\* The limit is looked at before anything of a turn is done.
TurnInv == \A r \in Runs : pc[r] \in Busy \ {"turn"} => turn[r] <= MaxTurns

\* Where a batch stands in its calls.
BatchInv ==
  \A r \in Runs :
    /\ pc[r] \in Batching => next[r] <= Len(calls[r])
    /\ pc[r] \in {"announce", "parallel"} => next[r] = 1

RunInv ==
  /\ TypeOK /\ calls \in [Runs -> Seq(Modes)]
  /\ HoldInv /\ TurnInv /\ BatchInv

-----------------------------------------------------------------------------
LEMMA PlacesTyped ==
  TypeOK => /\ pc \in [Runs -> Places]
            /\ turn \in [Runs -> 0 .. MaxTurns + 1]
            /\ next \in [Runs -> 1 .. MaxCalls + 1]
            /\ started \in [Runs -> SUBSET (1 .. MaxCalls)]
            /\ results \in [Runs -> SUBSET (1 .. MaxCalls)]
            /\ history \in Seq(Messages)
            /\ lock \in Runs \cup {NoRun} /\ poisoned \in BOOLEAN
            /\ \A r \in Runs : calls[r] \in Seq(Modes) /\ Len(calls[r]) <= MaxCalls
  BY DEF TypeOK, Places, Busy, Batching

LEMMA TypedPlaces ==
  ASSUME pc \in [Runs -> Places],
         turn \in [Runs -> 0 .. MaxTurns + 1],
         next \in [Runs -> 1 .. MaxCalls + 1],
         started \in [Runs -> SUBSET (1 .. MaxCalls)],
         results \in [Runs -> SUBSET (1 .. MaxCalls)],
         history \in Seq(Messages),
         lock \in Runs \cup {NoRun}, poisoned \in BOOLEAN,
         \A r \in Runs : calls[r] \in Seq(Modes) /\ Len(calls[r]) <= MaxCalls
  PROVE  TypeOK
  BY DEF TypeOK, Places, Busy, Batching

\* The messages a run may write.
LEMMA MessagesTyped ==
  ASSUME NEW r \in Runs, NEW t \in Nat, NEW n \in 0 .. MaxCalls
  PROVE  /\ User(r) \in Messages /\ Thought(r, t) \in Messages /\ Reminder(r, t) \in Messages
         /\ Action(r, t, n) \in Messages /\ Result(r, t, n) \in Messages
  BY SessionAssumption DEF User, Thought, Reminder, Action, Result, Messages

\* The lock goes with the place of the run that moves.
LEMMA HoldKeeps ==
  ASSUME HoldInv, pc \in [Runs -> Places], NEW r \in Runs, NEW x \in Places, Goto(r, x),
         \/ lock = r /\ lock' = r /\ x \in Busy
         \/ lock = r /\ lock' = NoRun /\ x \in Ended
         \/ lock = NoRun /\ lock' = r /\ x \in Busy
         \/ lock = NoRun /\ lock' = NoRun /\ x \in Ended
  PROVE  pc' \in [Runs -> Places] /\ HoldInv'
  <1>1. pc' \in [Runs -> Places] /\ pc'[r] = x /\ \A q \in Runs \ {r} : pc'[q] = pc[q]
    BY DEF Goto
  <1>2. \A y \in Ended : y \notin Busy
    BY DEF Ended, Busy, Batching
  <1>3. NoRun \notin Runs
    BY SessionAssumption
  <1> QED
    BY <1>1, <1>2, <1>3 DEF HoldInv

\* A run's step that is no step of its batch: the place, the turn, the history.
LEMMA MoveKeeps ==
  ASSUME RunInv, NEW r \in Runs, NEW x \in Places, Goto(r, x),
         \/ lock = r /\ lock' = r /\ x \in Busy
         \/ lock = r /\ lock' = NoRun /\ x \in Ended
         \/ lock = NoRun /\ lock' = r /\ x \in Busy
         \/ lock = NoRun /\ lock' = NoRun /\ x \in Ended,
         UNCHANGED batchVars,
         x \in Batching => pc[r] \in Batching /\ (x \in {"announce", "parallel"} => next[r] = 1),
         turn' \in [Runs -> 0 .. MaxTurns + 1], \A q \in Runs \ {r} : turn'[q] = turn[q],
         x \in Busy \ {"turn"} => turn'[r] <= MaxTurns,
         poisoned' \in BOOLEAN, history' \in Seq(Messages)
  PROVE  RunInv'
  <1>0. TypeOK /\ calls \in [Runs -> Seq(Modes)] /\ HoldInv /\ TurnInv /\ BatchInv
    BY DEF RunInv
  <1>1. pc \in [Runs -> Places]
    BY <1>0, PlacesTyped
  <1>2. pc' \in [Runs -> Places] /\ HoldInv'
    BY <1>0, <1>1, HoldKeeps
  <1>3. UNCHANGED << calls, started, results, next >>
    BY DEF batchVars
  <1>4. pc'[r] = x /\ \A q \in Runs \ {r} : pc'[q] = pc[q]
    BY <1>1 DEF Goto
  <1>5. TurnInv'
    BY <1>0, <1>4 DEF TurnInv
  <1>6. BatchInv'
    <2> SUFFICES ASSUME NEW q \in Runs
                 PROVE  /\ pc'[q] \in Batching => next[q] <= Len(calls[q])
                        /\ pc'[q] \in {"announce", "parallel"} => next[q] = 1
      BY <1>3 DEF BatchInv
    <2>1. CASE q = r
      <3>1. pc[r] \in Batching => next[r] <= Len(calls[r])
        BY <1>0 DEF BatchInv
      <3>2. x \in {"announce", "parallel"} => x \in Batching
        BY DEF Batching
      <3> QED
        BY <1>4, <2>1, <3>1, <3>2
    <2>2. CASE q # r
      BY <1>0, <1>4, <2>2 DEF BatchInv
    <2> QED
      BY <2>1, <2>2
  <1>7. TypeOK'
    <2>1. lock' \in Runs \cup {NoRun}
      OBVIOUS
    <2>2. /\ next' \in [Runs -> 1 .. MaxCalls + 1]
          /\ started' \in [Runs -> SUBSET (1 .. MaxCalls)]
          /\ results' \in [Runs -> SUBSET (1 .. MaxCalls)]
          /\ \A q \in Runs : calls'[q] \in Seq(Modes) /\ Len(calls'[q]) <= MaxCalls
      BY <1>0, <1>3, PlacesTyped
    <2> QED
      BY <1>2, <2>1, <2>2 DEF TypeOK, Places, Busy, Batching
  <1> QED
    BY <1>0, <1>2, <1>3, <1>5, <1>6, <1>7 DEF RunInv

\* A step inside a batch that moves nothing but the batch.
LEMMA BatchKeeps ==
  ASSUME RunInv, NEW r \in Runs, NEW x \in Batching \cup {"remind"}, Goto(r, x), pc[r] \in Batching,
         UNCHANGED << lock, poisoned, turn, calls >>, history' \in Seq(Messages),
         started' \in [Runs -> SUBSET (1 .. MaxCalls)],
         results' \in [Runs -> SUBSET (1 .. MaxCalls)],
         next' \in [Runs -> 1 .. MaxCalls + 1], \A q \in Runs \ {r} : next'[q] = next[q],
         x \in Batching => next'[r] <= Len(calls[r]),
         x \in {"announce", "parallel"} => next'[r] = 1
  PROVE  RunInv'
  <1>0. TypeOK /\ calls \in [Runs -> Seq(Modes)] /\ HoldInv /\ TurnInv /\ BatchInv
    BY DEF RunInv
  <1>1. pc \in [Runs -> Places] /\ pc[r] \in Busy /\ x \in Places /\ x \in Busy
    <2>1. pc \in [Runs -> Places]
      BY <1>0, PlacesTyped
    <2>2. \A y \in Batching \cup {"remind"} : y \in Busy /\ y \in Places
      BY DEF Busy, Places
    <2> QED
      BY <2>1, <2>2
  <1>2. lock = r /\ lock' = r
    BY <1>0, <1>1 DEF HoldInv
  <1>3. pc' \in [Runs -> Places] /\ HoldInv'
    BY <1>0, <1>1, <1>2, HoldKeeps
  <1>4. pc'[r] = x /\ \A q \in Runs \ {r} : pc'[q] = pc[q]
    BY <1>1 DEF Goto
  <1>5. TurnInv'
    <2>1. pc[r] # "turn"
      BY DEF Batching
    <2> QED
      BY <1>0, <1>1, <1>4, <2>1 DEF TurnInv
  <1>6. BatchInv'
    BY <1>0, <1>4 DEF BatchInv
  <1>7. TypeOK'
    BY <1>0, <1>3 DEF TypeOK, Places, Busy, Batching
  <1> QED
    BY <1>0, <1>3, <1>5, <1>6, <1>7 DEF RunInv

-----------------------------------------------------------------------------
LEMMA InitialRuns == Init => RunInv
  <1> SUFFICES ASSUME Init PROVE RunInv
    OBVIOUS
  <1>1. << >> \in Seq(Messages) /\ << >> \in Seq(Modes) /\ Len(<< >>) = 0
    BY EmptySeq
  <1>2. MaxTurns \in Nat /\ MaxCalls \in Nat /\ NoRun \notin Runs
    BY SessionAssumption
  <1>3. calls \in [Runs -> Seq(Modes)]
    BY <1>1 DEF Init
  <1>4. TypeOK
    <2>1. \A r \in Runs : calls[r] \in Seq(Modes) /\ Len(calls[r]) <= MaxCalls
      BY <1>1, <1>2 DEF Init
    <2>2. history \in Seq(Messages)
      BY <1>1 DEF Init
    <2>3. /\ turn \in [Runs -> 0 .. MaxTurns + 1] /\ next \in [Runs -> 1 .. MaxCalls + 1]
          /\ started \in [Runs -> SUBSET (1 .. MaxCalls)]
          /\ results \in [Runs -> SUBSET (1 .. MaxCalls)]
      BY <1>2 DEF Init
    <2> QED
      BY <2>1, <2>2, <2>3 DEF Init, TypeOK
  <1>5. HoldInv /\ TurnInv /\ BatchInv
    BY <1>2 DEF Init, HoldInv, TurnInv, BatchInv, Busy, Batching
  <1> QED
    BY <1>3, <1>4, <1>5 DEF RunInv
\* Whose lock it is, and what a run that moves may rely on.
LEMMA RunFacts ==
  ASSUME RunInv, NEW r \in Runs
  PROVE  /\ history \in Seq(Messages) /\ poisoned \in BOOLEAN
         /\ turn \in [Runs -> 0 .. MaxTurns + 1] /\ turn[r] \in Nat
         /\ pc[r] \in Busy => lock = r
         /\ pc[r] \in Busy \ {"turn"} => turn[r] <= MaxTurns
         /\ pc[r] \in Batching => /\ next[r] \in 1 .. Len(calls[r]) /\ next[r] \in 1 .. MaxCalls
                                  /\ Len(calls[r]) \in 0 .. MaxCalls
         /\ pc[r] \in {"announce", "parallel"} => next[r] = 1
  <1>1. TypeOK /\ calls \in [Runs -> Seq(Modes)] /\ HoldInv /\ TurnInv /\ BatchInv
    BY DEF RunInv
  <1>2. /\ history \in Seq(Messages) /\ poisoned \in BOOLEAN
        /\ turn \in [Runs -> 0 .. MaxTurns + 1]
    BY <1>1, PlacesTyped
  <1>3. turn[r] \in Nat
    BY <1>2, SessionAssumption
  <1>4. calls[r] \in Seq(Modes) /\ Len(calls[r]) <= MaxCalls /\ next[r] \in 1 .. MaxCalls + 1
    BY <1>1, PlacesTyped
  <1>5. Len(calls[r]) \in Nat /\ MaxCalls \in Nat
    BY <1>4, LenProperties, SessionAssumption
  <1>6. pc[r] \in Busy => lock = r
    BY <1>1 DEF HoldInv
  <1>7. pc[r] \in Busy \ {"turn"} => turn[r] <= MaxTurns
    BY <1>1 DEF TurnInv
  <1>8. pc[r] \in Batching => next[r] <= Len(calls[r])
    BY <1>1 DEF BatchInv
  <1>9. pc[r] \in {"announce", "parallel"} => next[r] = 1
    BY <1>1 DEF BatchInv
  <1>10. next[r] <= Len(calls[r]) => next[r] \in 1 .. Len(calls[r]) /\ next[r] \in 1 .. MaxCalls
    BY <1>4, <1>5
  <1>11. Len(calls[r]) \in 0 .. MaxCalls
    BY <1>4, <1>5
  <1> QED
    BY <1>2, <1>3, <1>6, <1>7, <1>8, <1>9, <1>10, <1>11

LEMMA HistoryTyped ==
  ASSUME RunInv, NEW m \in Messages
  PROVE  Append(history, m) \in Seq(Messages)
  BY AppendProperties, PlacesTyped DEF RunInv

LEMMA EnterKeeps ==
  ASSUME RunInv, NEW r \in Runs, Enter(r) \/ EnterPoisoned(r)
  PROVE  RunInv'
  <1>1. /\ history \in Seq(Messages) /\ poisoned \in BOOLEAN
        /\ turn \in [Runs -> 0 .. MaxTurns + 1]
    BY RunFacts
  <1>2. User(r) \in Messages
    BY SessionAssumption, MessagesTyped
  <1>3. CASE Enter(r)
    <2>1. Append(history, User(r)) \in Seq(Messages)
      BY <1>2, HistoryTyped
    <2>2. turn' \in [Runs -> 0 .. MaxTurns + 1] /\ \A q \in Runs \ {r} : turn'[q] = turn[q]
      BY <1>1, <1>3, SessionAssumption DEF Enter
    <2>3. "turn" \in Places /\ "turn" \in Busy /\ "turn" \notin Batching
      BY DEF Places, Busy, Batching
    <2> QED
      BY <1>1, <1>3, <2>1, <2>2, <2>3, MoveKeeps DEF Enter
  <1>4. CASE EnterPoisoned(r)
    <2>1. /\ "panicked" \in Places /\ "panicked" \in Ended
          /\ "panicked" \notin Batching /\ "panicked" \notin Busy
      BY DEF Places, Ended, Busy, Batching
    <2> QED
      BY <1>1, <1>4, <2>1, MoveKeeps DEF EnterPoisoned
  <1> QED
    BY <1>3, <1>4

\* A run that returns or panics where it is.
LEMMA LeaveKeeps ==
  ASSUME RunInv, NEW r \in Runs, NEW x \in Ended, Goto(r, x), pc[r] \in Busy, lock' = NoRun,
         poisoned' \in BOOLEAN, UNCHANGED << history, turn, batchVars >>
  PROVE  RunInv'
  <1>1. x \in Places /\ x \notin Busy /\ x \notin Batching
    BY DEF Places, Ended, Busy, Batching
  <1>2. lock = r /\ history \in Seq(Messages) /\ turn \in [Runs -> 0 .. MaxTurns + 1]
    BY RunFacts
  <1> QED
    BY <1>1, <1>2, MoveKeeps

\* A run that goes on in its turn, perhaps with a message.
LEMMA GoOnKeeps ==
  ASSUME RunInv, NEW r \in Runs, NEW x \in Busy, Goto(r, x), pc[r] \in Busy, turn[r] <= MaxTurns,
         x \in Batching => pc[r] \in Batching /\ (x \in {"announce", "parallel"} => next[r] = 1),
         UNCHANGED << lock, poisoned, turn, batchVars >>, history' \in Seq(Messages)
  PROVE  RunInv'
  <1>1. x \in Places
    BY DEF Places
  <1>2. /\ lock = r /\ poisoned \in BOOLEAN /\ turn \in [Runs -> 0 .. MaxTurns + 1]
        /\ history \in Seq(Messages)
    BY RunFacts
  <1> QED
    BY <1>1, <1>2, MoveKeeps

LEMMA TurnKeeps ==
  ASSUME RunInv, NEW r \in Runs, StartTurn(r) \/ Think(r) \/ Complete(r) \/ Announce(r)
  PROVE  RunInv'
  <1>1. /\ history \in Seq(Messages) /\ poisoned \in BOOLEAN /\ turn[r] \in Nat
        /\ pc[r] \in Busy \ {"turn"} => turn[r] <= MaxTurns
        /\ pc[r] \in {"announce", "parallel"} => next[r] = 1
    BY RunFacts
  <1>2. {"think", "act", "parallel", "sequential", "complete", "turn", "announce"} \subseteq Busy
        /\ {"done", "failed"} \subseteq Ended
        /\ {"parallel", "sequential", "announce"} \subseteq Batching
        /\ {"think", "act"} \cap Batching = {}
    BY DEF Busy, Batching, Ended
  <1>3. Thought(r, turn[r]) \in Messages
    BY <1>1, SessionAssumption, MessagesTyped
  <1>4. Append(history, Thought(r, turn[r])) \in Seq(Messages)
    BY <1>3, HistoryTyped
  <1>5. ASSUME NEW x \in {"failed", "done"}, Leave(r, x), pc[r] \in Busy,
               UNCHANGED << history, turn, batchVars >>
        PROVE  RunInv'
    BY <1>1, <1>2, <1>5, LeaveKeeps DEF Leave
  <1>6. CASE StartTurn(r)
    BY <1>1, <1>2, <1>5, <1>6, GoOnKeeps DEF StartTurn, Reported
  <1>7. CASE Think(r)
    BY <1>1, <1>2, <1>4, <1>5, <1>7, GoOnKeeps DEF Think, Reported
  <1>8. CASE Complete(r)
    BY <1>2, <1>5, <1>8 DEF Complete
  <1>9. CASE Announce(r)
    BY <1>1, <1>2, <1>5, <1>9, GoOnKeeps DEF Announce, Reported
  <1> QED
    BY <1>6, <1>7, <1>8, <1>9
LEMMA ActKeeps ==
  ASSUME RunInv, NEW r \in Runs, Act(r)
  PROVE  RunInv'
  <1>0. TypeOK /\ calls \in [Runs -> Seq(Modes)] /\ HoldInv /\ TurnInv /\ BatchInv
    BY DEF RunInv
  <1>1. /\ pc \in [Runs -> Places] /\ history \in Seq(Messages)
        /\ started \in [Runs -> SUBSET (1 .. MaxCalls)]
        /\ results \in [Runs -> SUBSET (1 .. MaxCalls)]
        /\ next \in [Runs -> 1 .. MaxCalls + 1]
        /\ \A q \in Runs : Len(calls[q]) <= MaxCalls
    BY <1>0, PlacesTyped
  <1>2. MaxCalls \in Nat /\ NoRun \notin Runs
    BY SessionAssumption
  <1>3. pc[r] = "act" /\ lock = r /\ turn[r] \in Nat /\ turn[r] <= MaxTurns
    BY RunFacts DEF Act, Busy
  <1>4. /\ started' \in [Runs -> SUBSET (1 .. MaxCalls)]
        /\ results' \in [Runs -> SUBSET (1 .. MaxCalls)]
        /\ next' \in [Runs -> 1 .. MaxCalls + 1] /\ next'[r] = 1
        /\ \A q \in Runs \ {r} : next'[q] = next[q]
        /\ turn' = turn
    BY <1>1, <1>2 DEF Act
  <1>5. CASE UNCHANGED << history, calls >> /\ Leave(r, "failed")
    <2>1. "failed" \in Places /\ "failed" \in Ended /\ "failed" \notin Busy /\ "failed" \notin Batching
      BY DEF Places, Ended, Busy, Batching
    <2>2. Goto(r, "failed") /\ lock' = NoRun /\ poisoned' = poisoned
      BY <1>5 DEF Leave
    <2>3. pc' \in [Runs -> Places] /\ HoldInv'
      BY <1>0, <1>1, <1>3, <2>1, <2>2, HoldKeeps
    <2>4. pc'[r] = "failed" /\ \A q \in Runs \ {r} : pc'[q] = pc[q]
      BY <1>1, <2>2 DEF Goto
    <2>5. TurnInv'
      BY <1>0, <1>4, <2>1, <2>4 DEF TurnInv
    <2>6. BatchInv'
      BY <1>0, <1>4, <1>5, <2>1, <2>4 DEF BatchInv
    <2>7. TypeOK'
      <3>1. lock' \in Runs \cup {NoRun} /\ poisoned' \in BOOLEAN /\ history' \in Seq(Messages)
        BY <1>0, <1>1, <1>5, <2>2, PlacesTyped
      <3>2. turn' \in [Runs -> 0 .. MaxTurns + 1]
        BY <1>0, <1>4, PlacesTyped
      <3> QED
        BY <1>0, <1>4, <1>5, <2>3, <3>1, <3>2 DEF TypeOK, Places, Busy, Batching
    <2> QED
      BY <1>0, <1>5, <2>3, <2>5, <2>6, <2>7 DEF RunInv
  <1>6. ASSUME NEW n \in 0 .. MaxCalls, NEW c \in [1 .. n -> Modes],
               history' = Append(history, Action(r, turn[r], n)),
               calls' = [calls EXCEPT ![r] = c],
               Goto(r, IF n = 0 THEN "complete" ELSE "announce"),
               UNCHANGED << lock, poisoned >>
        PROVE  RunInv'
    <2> DEFINE x == IF n = 0 THEN "complete" ELSE "announce"
    <2>1. x \in Places /\ x \in Busy /\ (x \in Batching => n # 0)
      BY DEF Places, Busy, Batching
    <2>2. Goto(r, x)
      BY <1>6
    <2> HIDE DEF x
    <2>3. pc' \in [Runs -> Places] /\ HoldInv'
      BY <1>0, <1>1, <1>3, <1>6, <2>1, <2>2, HoldKeeps
    <2>4. pc'[r] = x /\ \A q \in Runs \ {r} : pc'[q] = pc[q]
      BY <1>1, <2>2 DEF Goto
    <2>5. TurnInv'
      BY <1>0, <1>3, <1>4, <2>4 DEF TurnInv
    <2>6. n \in Nat /\ n <= MaxCalls /\ c \in Seq(Modes) /\ Len(c) = n
      BY <1>2, SeqDef
    <2>7. /\ calls' \in [Runs -> Seq(Modes)] /\ calls'[r] = c
          /\ \A q \in Runs \ {r} : calls'[q] = calls[q]
      BY <1>0, <1>6, <2>6
    <2>8. BatchInv'
      <3> SUFFICES ASSUME NEW q \in Runs
                   PROVE  /\ pc'[q] \in Batching => next'[q] <= Len(calls'[q])
                          /\ pc'[q] \in {"announce", "parallel"} => next'[q] = 1
        BY DEF BatchInv
      <3>1. CASE q = r
        BY <1>4, <2>1, <2>4, <2>6, <2>7, <3>1
      <3>2. CASE q # r
        BY <1>0, <1>4, <2>4, <2>7, <3>2 DEF BatchInv
      <3> QED
        BY <3>1, <3>2
    <2>9. TypeOK'
      <3>1. Action(r, turn[r], n) \in Messages
        BY <1>3, MessagesTyped
      <3>2. history' \in Seq(Messages)
        BY <1>6, <3>1, HistoryTyped
      <3>3. \A q \in Runs : calls'[q] \in Seq(Modes) /\ Len(calls'[q]) <= MaxCalls
        BY <1>1, <2>6, <2>7
      <3>4. turn' \in [Runs -> 0 .. MaxTurns + 1]
        BY <1>0, <1>4, PlacesTyped
      <3>5. lock' \in Runs \cup {NoRun} /\ poisoned' \in BOOLEAN
        BY <1>0, <1>6, PlacesTyped
      <3> QED
        BY <1>4, <2>3, <3>2, <3>3, <3>4, <3>5 DEF TypeOK, Places, Busy, Batching
    <2> QED
      BY <2>3, <2>5, <2>7, <2>8, <2>9 DEF RunInv
  <1> QED
    BY <1>5, <1>6 DEF Act

LEMMA ToolsKeep ==
  ASSUME RunInv, NEW r \in Runs,
         \/ BeginNext(r) \/ EndNext(r) \/ JoinAll(r)
         \/ \E k \in 1 .. MaxCalls : BeginThread(r, k) \/ EndThread(r, k)
  PROVE  RunInv'
  <1>1. /\ pc \in [Runs -> Places] /\ history \in Seq(Messages)
        /\ started \in [Runs -> SUBSET (1 .. MaxCalls)]
        /\ results \in [Runs -> SUBSET (1 .. MaxCalls)]
        /\ next \in [Runs -> 1 .. MaxCalls + 1]
    BY PlacesTyped DEF RunInv
  <1>2. pc[r] \in {"sequential", "parallel"} /\ pc[r] \in Batching
    BY DEF BeginNext, EndNext, JoinAll, BeginThread, EndThread, Batching
  <1>3. /\ next[r] \in 1 .. Len(calls[r]) /\ next[r] \in 1 .. MaxCalls
        /\ Len(calls[r]) \in 0 .. MaxCalls
        /\ pc[r] \in {"announce", "parallel"} => next[r] = 1
    BY <1>2, RunFacts
  <1>4. MaxCalls \in Nat
    BY SessionAssumption
  <1>5. ASSUME NEW k \in 1 .. MaxCalls, Begin(r, k) PROVE RunInv'
    <2>1. started' \in [Runs -> SUBSET (1 .. MaxCalls)]
      BY <1>1, <1>5 DEF Begin
    <2>2. Goto(r, pc[r]) /\ UNCHANGED << lock, poisoned, turn, calls, history, results, next >>
      BY <1>1, <1>5 DEF Begin, Goto
    <2> QED
      BY <1>1, <1>2, <1>3, <2>1, <2>2, BatchKeeps
  <1>6. CASE BeginNext(r)
    BY <1>3, <1>5, <1>6 DEF BeginNext
  <1>7. ASSUME NEW k \in 1 .. MaxCalls, BeginThread(r, k) PROVE RunInv'
    BY <1>5, <1>7 DEF BeginThread
  <1>8. ASSUME NEW k \in 1 .. MaxCalls, EndThread(r, k) PROVE RunInv'
    <2>1. results' \in [Runs -> SUBSET (1 .. MaxCalls)]
      BY <1>1, <1>8 DEF EndThread
    <2>2. Goto(r, pc[r]) /\ UNCHANGED << lock, poisoned, turn, calls, history, started, next >>
      BY <1>1, <1>8 DEF EndThread, Goto
    <2> QED
      BY <1>1, <1>2, <1>3, <2>1, <2>2, BatchKeeps
  <1>9. CASE JoinAll(r)
    <2>1. /\ Goto(r, "observe")
          /\ UNCHANGED << lock, poisoned, turn, calls, history, started, results, next >>
      BY <1>9 DEF JoinAll, batchVars
    <2>2. "observe" \in Batching /\ "observe" \notin {"announce", "parallel"}
      BY DEF Batching
    <2> QED
      BY <1>1, <1>2, <1>3, <2>1, <2>2, BatchKeeps
  <1>10. CASE EndNext(r)
    <2>1. /\ results' = [results EXCEPT ![r] = @ \cup {next[r]}]
          /\ UNCHANGED << history, lock, poisoned, turn, calls, started >>
          /\ pc[r] = "sequential"
      BY <1>10 DEF EndNext
    <2>2. results' \in [Runs -> SUBSET (1 .. MaxCalls)]
      BY <1>1, <1>3, <2>1
    <2>3. {"observe", "sequential"} \subseteq Batching
      BY DEF Batching
    <2>4. CASE next[r] = Len(calls[r])
      <3>1. Goto(r, "observe") /\ next' = [next EXCEPT ![r] = 1]
        BY <1>10, <2>4 DEF EndNext
      <3>2. /\ next' \in [Runs -> 1 .. MaxCalls + 1] /\ next'[r] = 1
            /\ \A q \in Runs \ {r} : next'[q] = next[q]
        BY <1>1, <1>4, <3>1
      <3>3. next'[r] <= Len(calls[r])
        BY <1>3, <3>2
      <3> QED
        BY <1>1, <1>2, <2>1, <2>2, <2>3, <3>1, <3>2, <3>3, BatchKeeps
    <2>5. CASE next[r] # Len(calls[r])
      <3>1. pc' = pc /\ next' = [next EXCEPT ![r] = next[r] + 1]
        BY <1>10, <2>5 DEF EndNext
      <3>2. Goto(r, "sequential")
        BY <1>1, <2>1, <3>1 DEF Goto
      <3>3. next[r] + 1 \in 1 .. MaxCalls + 1 /\ next[r] + 1 <= Len(calls[r])
        BY <1>3, <1>4, <2>5
      <3>4. /\ next' \in [Runs -> 1 .. MaxCalls + 1] /\ next'[r] = next[r] + 1
            /\ \A q \in Runs \ {r} : next'[q] = next[q]
        BY <1>1, <3>1, <3>3
      <3> QED
        BY <1>1, <1>2, <2>1, <2>2, <2>3, <3>2, <3>3, <3>4, BatchKeeps
    <2> QED
      BY <2>4, <2>5
  <1> QED
    BY <1>6, <1>7, <1>8, <1>9, <1>10

LEMMA ObserveKeeps ==
  ASSUME RunInv, NEW r \in Runs, Observe(r)
  PROVE  RunInv'
  <1>1. /\ pc \in [Runs -> Places] /\ history \in Seq(Messages)
        /\ started \in [Runs -> SUBSET (1 .. MaxCalls)]
        /\ results \in [Runs -> SUBSET (1 .. MaxCalls)]
        /\ next \in [Runs -> 1 .. MaxCalls + 1]
    BY PlacesTyped DEF RunInv
  <1>2. pc[r] = "observe" /\ pc[r] \in Batching /\ pc[r] \in Busy
    BY DEF Observe, Batching, Busy
  <1>3. /\ next[r] \in 1 .. Len(calls[r]) /\ next[r] \in 1 .. MaxCalls
        /\ Len(calls[r]) \in 0 .. MaxCalls /\ turn[r] \in Nat /\ poisoned \in BOOLEAN
    BY <1>2, RunFacts
  <1>4. MaxCalls \in Nat
    BY SessionAssumption
  <1>5. CASE Leave(r, "failed") /\ UNCHANGED << history, next >>
    <2>1. UNCHANGED << turn, batchVars >>
      BY <1>5 DEF Observe, batchVars
    <2>2. "failed" \in Ended
      BY DEF Ended
    <2> QED
      BY <1>2, <1>3, <1>5, <2>1, <2>2, LeaveKeeps DEF Leave
  <1>6. CASE /\ history' = Append(history, Result(r, turn[r], next[r]))
             /\ next' = [next EXCEPT ![r] = next[r] + 1]
             /\ IF next[r] = Len(calls[r]) THEN Goto(r, "remind") ELSE UNCHANGED pc
             /\ UNCHANGED << lock, poisoned >>
    <2>1. next[r] \in 0 .. MaxCalls /\ next[r] + 1 \in 1 .. MaxCalls + 1
      BY <1>3, <1>4
    <2>2. history' \in Seq(Messages)
      BY <1>3, <1>6, <2>1, MessagesTyped, HistoryTyped
    <2>3. /\ next' \in [Runs -> 1 .. MaxCalls + 1] /\ next'[r] = next[r] + 1
          /\ \A q \in Runs \ {r} : next'[q] = next[q]
      BY <1>1, <1>6, <2>1
    <2>4. UNCHANGED << turn, calls, started, results, lock, poisoned >>
      BY <1>6 DEF Observe
    <2>5. CASE next[r] = Len(calls[r])
      <3>1. Goto(r, "remind") /\ "remind" \notin Batching
        BY <1>6, <2>5 DEF Batching
      <3> QED
        BY <1>1, <1>2, <2>2, <2>3, <2>4, <3>1, BatchKeeps
    <2>6. CASE next[r] # Len(calls[r])
      <3>1. Goto(r, "observe") /\ "observe" \in Batching
        BY <1>1, <1>2, <1>6, <2>6 DEF Goto, Batching
      <3>2. next'[r] <= Len(calls[r])
        BY <1>3, <2>3, <2>6
      <3> QED
        BY <1>1, <1>2, <2>2, <2>3, <2>4, <3>1, <3>2, BatchKeeps
    <2> QED
      BY <2>5, <2>6
  <1> QED
    BY <1>5, <1>6 DEF Observe

LEMMA RemindKeeps ==
  ASSUME RunInv, NEW r \in Runs, Remind(r)
  PROVE  RunInv'
  <1>1. /\ "turn" \in Places /\ "turn" \in Busy /\ "turn" \notin Batching
        /\ pc[r] = "remind" /\ pc[r] \in Busy \ {"turn"}
    BY DEF Places, Busy, Batching, Remind
  <1>2. /\ history \in Seq(Messages) /\ poisoned \in BOOLEAN
        /\ turn \in [Runs -> 0 .. MaxTurns + 1] /\ turn[r] \in Nat
        /\ lock = r /\ turn[r] <= MaxTurns
    BY <1>1, RunFacts
  <1>3. turn' \in [Runs -> 0 .. MaxTurns + 1] /\ \A q \in Runs \ {r} : turn'[q] = turn[q]
    BY <1>2, SessionAssumption DEF Remind
  <1>4. history' \in Seq(Messages)
    <2>1. Reminder(r, turn[r]) \in Messages
      BY <1>2, SessionAssumption, MessagesTyped
    <2> QED
      BY <1>2, <2>1, HistoryTyped DEF Remind
  <1> QED
    BY <1>1, <1>2, <1>3, <1>4, MoveKeeps DEF Remind

LEMMA PanicKeeps ==
  ASSUME RunInv, NEW r \in Runs, Panic(r)
  PROVE  RunInv'
  <1>1. pc[r] \in Busy
    BY DEF RunInv, HoldInv, Panic
  <1>2. "panicked" \in Ended
    BY DEF Ended
  <1> QED
    BY <1>1, <1>2, LeaveKeeps DEF Panic

LEMMA RunStep == RunInv /\ [Next]_vars => RunInv'
  <1> SUFFICES ASSUME RunInv, [Next]_vars PROVE RunInv'
    OBVIOUS
  <1>1. ASSUME NEW r \in Runs, Step(r) PROVE RunInv'
    BY <1>1, EnterKeeps, TurnKeeps, ActKeeps, ToolsKeep, ObserveKeeps, RemindKeeps DEF Step
  <1>2. ASSUME NEW r \in Runs, Thread(r) PROVE RunInv'
    BY <1>2, ToolsKeep DEF Thread
  <1>3. ASSUME NEW r \in Runs, Panic(r) PROVE RunInv'
    BY <1>3, PanicKeeps
  <1>4. CASE UNCHANGED vars
    <2>1. UNCHANGED << history, lock, poisoned, pc, turn, calls, started, results, next >>
      BY <1>4 DEF vars, batchVars
    <2> QED
      BY <2>1 DEF RunInv, TypeOK, HoldInv, TurnInv, BatchInv
  <1> QED
    BY <1>1, <1>2, <1>3, <1>4 DEF Next

LEMMA RunInvariant == Spec => []RunInv
  BY InitialRuns, RunStep, PTL DEF Spec

\* Every reachable state of the runs and their session is well typed.
THEOREM SessionTypeCorrect == Spec => []TypeOK
  <1>1. RunInv => TypeOK
    BY DEF RunInv
  <1> QED
    BY <1>1, RunInvariant, PTL

-----------------------------------------------------------------------------
(***************************************************************************)
(* What a step may do to the history, seen from the blocks and batches in  *)
(* it: nothing, or one more message of the run that holds the lock.        *)
(***************************************************************************)
\* How many observations of the open batch of a run are in the history.
Done(r) == IF pc[r] = "observe" THEN next[r] - 1 ELSE 0

NoBatch == \A q \in Runs : pc[q] \notin Batching
NoBatchBut(r) == \A q \in Runs \ {r} : pc[q] \notin Batching

Gone == {"failed", "panicked"}

Sticky ==
  \A q \in Runs : /\ pc'[q] = "queued" => pc[q] = "queued"
                  /\ pc[q] \in Gone => pc'[q] \in Gone

Quiet ==
  /\ history' = history
  /\ lock' = lock \/ lock' = NoRun
  /\ \A q \in Runs : pc'[q] \in Batching =>
       pc[q] \in Batching /\ Done(q)' = Done(q) /\ turn'[q] = turn[q] /\ calls'[q] = calls[q]
  /\ \A q \in Runs : pc[q] \in Batching => pc'[q] \in Batching \cup Gone

Says(r, m) ==
  /\ history' = Append(history, m) /\ m \in Messages /\ m.run = r
  /\ lock' = r /\ (lock = r \/ pc[r] = "queued") /\ pc'[r] # "queued"

Remarks(r) ==
  \E m \in Messages : Says(r, m) /\ m.kind \notin {"assistant", "result"} /\ NoBatch /\ NoBatch'

Acts(r) ==
  \E n \in 0 .. MaxCalls :
    /\ Says(r, Action(r, turn[r], n)) /\ turn' = turn /\ NoBatch /\ NoBatchBut(r)'
    /\ n = 0 => NoBatch'
    /\ n # 0 => pc'[r] = "announce" /\ Len(calls'[r]) = n

Observes(r) ==
  /\ Says(r, Result(r, turn[r], next[r]))
  /\ pc[r] = "observe" /\ next[r] \in 1 .. Len(calls[r]) /\ UNCHANGED << turn, calls >>
  /\ NoBatchBut(r)'
  /\ next[r] = Len(calls[r]) => NoBatch'
  /\ next[r] # Len(calls[r]) => pc'[r] = "observe" /\ next'[r] = next[r] + 1

HistoryStep == Quiet \/ \E r \in Runs : Remarks(r) \/ Acts(r) \/ Observes(r)

\* While a run holds the lock, no other run is between its first message and its end.
LEMMA OneHolder ==
  ASSUME RunInv, NEW r \in Runs, lock = r
  PROVE  NoBatchBut(r) /\ (pc[r] \notin Batching => NoBatch)
  <1>1. \A q \in Runs \ {r} : pc[q] \notin Busy
    BY DEF RunInv, HoldInv
  <1> QED
    BY <1>1 DEF NoBatchBut, NoBatch, Busy

LEMMA FreeLock ==
  ASSUME RunInv, lock = NoRun
  PROVE  NoBatch
  BY SessionAssumption DEF RunInv, HoldInv, NoBatch, Busy

\* One run moves, the others stay where they are.
LEMMA MoveIsSticky ==
  ASSUME RunInv, NEW r \in Runs, NEW x, Goto(r, x), pc[r] \notin Gone, x # "queued"
  PROVE  /\ Sticky /\ pc'[r] = x /\ \A q \in Runs \ {r} : pc'[q] = pc[q]
  <1>1. pc \in [Runs -> Places]
    BY PlacesTyped DEF RunInv
  <1>2. pc'[r] = x /\ \A q \in Runs \ {r} : pc'[q] = pc[q]
    BY <1>1 DEF Goto
  <1> QED
    BY <1>2 DEF Sticky

\* A run moves without a word, and not from one batch to another.
LEMMA MoveIsQuiet ==
  ASSUME RunInv, NEW r \in Runs, NEW x, Goto(r, x), pc[r] \notin Gone, x # "queued",
         history' = history, lock' = lock \/ lock' = NoRun,
         \A q \in Runs \ {r} : turn'[q] = turn[q] /\ calls'[q] = calls[q] /\ next'[q] = next[q],
         x \in Batching => /\ pc[r] \in Batching /\ turn'[r] = turn[r] /\ calls'[r] = calls[r]
                           /\ Done(r)' = Done(r),
         pc[r] \in Batching => x \in Batching \cup Gone
  PROVE  Sticky /\ Quiet
  <1>1. Sticky /\ pc'[r] = x /\ \A q \in Runs \ {r} : pc'[q] = pc[q]
    BY MoveIsSticky
  <1>2. \A q \in Runs \ {r} : Done(q)' = Done(q)
    BY <1>1 DEF Done
  <1> QED
    BY <1>1, <1>2 DEF Quiet

\* A run that leaves before its end, from anywhere.
LEMMA LeaveIsQuiet ==
  ASSUME RunInv, NEW r \in Runs, NEW x \in Gone, Goto(r, x), pc[r] \notin Gone,
         lock' = NoRun \/ lock' = lock, history' = history,
         \A q \in Runs \ {r} : turn'[q] = turn[q] /\ calls'[q] = calls[q] /\ next'[q] = next[q]
  PROVE  Sticky /\ Quiet
  <1>1. x # "queued" /\ x \notin Batching /\ x \in Batching \cup Gone
    BY DEF Gone, Batching
  <1> QED
    BY <1>1, MoveIsQuiet

LEMMA EnterInHistory ==
  ASSUME RunInv, NEW r \in Runs, Enter(r) \/ EnterPoisoned(r)
  PROVE  Sticky /\ HistoryStep
  <1>1. pc[r] = "queued" /\ lock = NoRun /\ pc[r] \notin Gone
    BY DEF Enter, EnterPoisoned, Gone
  <1>2. CASE Enter(r)
    <2>1. Sticky /\ pc'[r] = "turn" /\ \A q \in Runs \ {r} : pc'[q] = pc[q]
      BY <1>1, <1>2, MoveIsSticky DEF Enter
    <2>2. User(r) \in Messages
      BY SessionAssumption, MessagesTyped
    <2>3. Says(r, User(r)) /\ User(r).kind \notin {"assistant", "result"}
      BY <1>1, <1>2, <2>1, <2>2 DEF Enter, Says, User
    <2>4. NoBatch
      BY <1>1, FreeLock
    <2>5. NoBatch'
      BY <2>1, <2>4 DEF NoBatch, Batching
    <2> QED
      BY <2>1, <2>2, <2>3, <2>4, <2>5 DEF HistoryStep, Remarks
  <1>3. CASE EnterPoisoned(r)
    <2>1. "panicked" \in Gone
      BY DEF Gone
    <2>2. /\ Goto(r, "panicked") /\ lock' = lock /\ history' = history
          /\ UNCHANGED << turn, calls, next >>
      BY <1>3 DEF EnterPoisoned, batchVars
    <2> QED
      BY <1>1, <2>1, <2>2, LeaveIsQuiet DEF HistoryStep
  <1> QED
    BY <1>2, <1>3

LEMMA TurnInHistory ==
  ASSUME RunInv, NEW r \in Runs, StartTurn(r) \/ Think(r) \/ Complete(r) \/ Announce(r)
  PROVE  Sticky /\ HistoryStep
  <1>1. /\ pc[r] \in {"turn", "think", "complete", "announce"} /\ pc[r] \notin Gone /\ pc[r] \in Busy
        /\ pc[r] \in Batching => pc[r] = "announce"
        /\ UNCHANGED << turn, calls, next >>
    BY DEF StartTurn, Think, Complete, Announce, Gone, Busy, Batching, batchVars
  <1>2. lock = r /\ turn[r] \in Nat
    BY <1>1, RunFacts
  <1>3. ASSUME Leave(r, "failed"), history' = history PROVE Sticky /\ HistoryStep
    <2>1. "failed" \in Gone
      BY DEF Gone
    <2> QED
      BY <1>1, <1>3, <2>1, LeaveIsQuiet DEF Leave, HistoryStep
  <1>4. ASSUME NEW x \in {"think", "act", "done"}, pc[r] # "announce", Goto(r, x),
               lock' = lock \/ lock' = NoRun, history' = history
        PROVE  Sticky /\ HistoryStep
    <2>1. x # "queued" /\ x \notin Batching
      BY DEF Batching
    <2> QED
      BY <1>1, <1>4, <2>1, MoveIsQuiet DEF HistoryStep
  <1>5. CASE StartTurn(r)
    BY <1>3, <1>4, <1>5 DEF StartTurn, Reported, Leave
  <1>6. CASE Complete(r)
    BY <1>3, <1>4, <1>6 DEF Complete, Leave
  <1>7. CASE Announce(r)
    <2> DEFINE x == IF InParallel(calls[r]) THEN "parallel" ELSE "sequential"
    <2>1. x \in Batching /\ x # "queued" /\ x # "observe" /\ "announce" \in Batching
      BY DEF Batching
    <2>2. pc[r] = "announce" /\ history' = history /\ (Reported(r, x))
      BY <1>7 DEF Announce
    <2> HIDE DEF x
    <2>3. CASE Goto(r, x) /\ UNCHANGED << lock, poisoned >>
      <3>1. pc'[r] = x
        BY <1>1, <2>1, <2>3, MoveIsSticky
      <3>2. Done(r)' = Done(r)
        BY <2>1, <2>2, <3>1 DEF Done
      <3> QED
        BY <1>1, <2>1, <2>2, <2>3, <3>2, MoveIsQuiet DEF HistoryStep
    <2> QED
      BY <1>3, <2>2, <2>3 DEF Reported
  <1>8. CASE Think(r)
    <2>1. CASE history' = Append(history, Thought(r, turn[r])) /\ Goto(r, "act") /\ lock' = lock
      <3>1. Sticky /\ pc'[r] = "act" /\ \A q \in Runs \ {r} : pc'[q] = pc[q]
        BY <1>1, <2>1, MoveIsSticky
      <3>2. Thought(r, turn[r]) \in Messages
        BY <1>2, SessionAssumption, MessagesTyped
      <3>3. Says(r, Thought(r, turn[r])) /\ Thought(r, turn[r]).kind \notin {"assistant", "result"}
        BY <1>2, <2>1, <3>1, <3>2 DEF Says, Thought
      <3>4. NoBatch
        BY <1>2, <1>8, OneHolder DEF Think, Batching
      <3>5. NoBatch'
        BY <3>1, <3>4 DEF NoBatch, Batching
      <3> QED
        BY <3>1, <3>2, <3>3, <3>4, <3>5 DEF HistoryStep, Remarks
    <2> QED
      BY <1>3, <1>4, <1>8, <2>1 DEF Think, Reported
  <1> QED
    BY <1>5, <1>6, <1>7, <1>8

LEMMA ActInHistory ==
  ASSUME RunInv, NEW r \in Runs, Act(r)
  PROVE  Sticky /\ HistoryStep
  <1>1. pc[r] = "act" /\ pc[r] \notin Gone /\ pc[r] \in Busy /\ pc[r] \notin Batching
    BY DEF Act, Gone, Busy, Batching
  <1>2. /\ lock = r /\ turn[r] \in Nat /\ calls \in [Runs -> Seq(Modes)]
        /\ next \in [Runs -> 1 .. MaxCalls + 1]
    BY <1>1, RunFacts, PlacesTyped DEF RunInv
  <1>3. NoBatch
    BY <1>1, <1>2, OneHolder
  <1>4. next' = [next EXCEPT ![r] = 1] /\ turn' = turn
    BY DEF Act
  <1>5. CASE UNCHANGED << history, calls >> /\ Leave(r, "failed")
    <2>1. "failed" \in Gone
      BY DEF Gone
    <2>2. \A q \in Runs \ {r} : turn'[q] = turn[q] /\ calls'[q] = calls[q] /\ next'[q] = next[q]
      BY <1>2, <1>4, <1>5
    <2> QED
      BY <1>1, <1>5, <2>1, <2>2, LeaveIsQuiet DEF Leave, HistoryStep
  <1>6. ASSUME NEW n \in 0 .. MaxCalls, NEW c \in [1 .. n -> Modes],
               history' = Append(history, Action(r, turn[r], n)),
               calls' = [calls EXCEPT ![r] = c],
               Goto(r, IF n = 0 THEN "complete" ELSE "announce"), lock' = lock
        PROVE  Sticky /\ HistoryStep
    <2> DEFINE x == IF n = 0 THEN "complete" ELSE "announce"
    <2>1. /\ x # "queued" /\ (n = 0 => x \notin Batching) /\ (n # 0 => x = "announce")
          /\ Goto(r, x)
      BY <1>6 DEF Batching
    <2> HIDE DEF x
    <2>2. Sticky /\ pc'[r] = x /\ \A q \in Runs \ {r} : pc'[q] = pc[q]
      BY <1>1, <2>1, MoveIsSticky
    <2>3. Action(r, turn[r], n) \in Messages
      BY <1>2, MessagesTyped
    <2>4. Says(r, Action(r, turn[r], n))
      BY <1>2, <1>6, <2>1, <2>2, <2>3 DEF Says, Action
    <2>5. NoBatchBut(r)' /\ (n = 0 => NoBatch')
      BY <1>3, <2>1, <2>2 DEF NoBatchBut, NoBatch
    <2>6. n # 0 => pc'[r] = "announce" /\ Len(calls'[r]) = n
      <3>1. n \in Nat /\ c \in Seq(Modes) /\ Len(c) = n
        BY SessionAssumption, SeqDef
      <3>2. calls'[r] = c
        BY <1>2, <1>6
      <3> QED
        BY <2>1, <2>2, <3>1, <3>2
    <2> QED
      BY <1>3, <1>4, <2>2, <2>4, <2>5, <2>6 DEF HistoryStep, Acts
  <1> QED
    BY <1>5, <1>6 DEF Act

LEMMA ToolsInHistory ==
  ASSUME RunInv, NEW r \in Runs,
         \/ BeginNext(r) \/ EndNext(r) \/ JoinAll(r)
         \/ \E k \in 1 .. MaxCalls : BeginThread(r, k) \/ EndThread(r, k)
  PROVE  Sticky /\ HistoryStep
  <1>1. /\ pc[r] \in {"sequential", "parallel"} /\ pc[r] \notin Gone /\ pc[r] \in Batching
        /\ pc[r] # "observe"
    BY DEF BeginNext, EndNext, JoinAll, BeginThread, EndThread, Batching, Gone
  <1>2. /\ pc \in [Runs -> Places] /\ next \in [Runs -> 1 .. MaxCalls + 1] /\ MaxCalls \in Nat
        /\ pc[r] = "parallel" => next[r] = 1
    BY PlacesTyped, RunFacts, SessionAssumption DEF RunInv
  <1>3. {"observe", "sequential", "parallel"} \subseteq Batching
    BY DEF Batching
  <1>4. ASSUME NEW x \in {"observe", "sequential", "parallel"}, Goto(r, x),
               UNCHANGED << history, lock, turn, calls >>, x = "observe" => next'[r] = 1,
               \A q \in Runs \ {r} : next'[q] = next[q]
        PROVE  Sticky /\ HistoryStep
    <2>1. x # "queued" /\ x \in Batching
      BY <1>3
    <2>2. pc'[r] = x
      BY <1>1, <1>4, <2>1, MoveIsSticky
    <2>3. Done(r)' = Done(r)
      BY <1>1, <1>4, <2>2 DEF Done
    <2> QED
      BY <1>1, <1>4, <2>1, <2>3, MoveIsQuiet DEF HistoryStep
  <1>5. ASSUME UNCHANGED << history, lock, pc, turn, calls, next >>
        PROVE  Sticky /\ HistoryStep
    <2>1. Goto(r, pc[r])
      BY <1>2, <1>5 DEF Goto
    <2> QED
      BY <1>1, <1>4, <1>5, <2>1
  <1>6. CASE BeginNext(r)
    BY <1>5, <1>6 DEF BeginNext, Begin
  <1>7. ASSUME NEW k \in 1 .. MaxCalls, BeginThread(r, k) \/ EndThread(r, k)
        PROVE  Sticky /\ HistoryStep
    BY <1>5, <1>7 DEF BeginThread, EndThread, Begin
  <1>8. CASE JoinAll(r)
    BY <1>2, <1>4, <1>8 DEF JoinAll, batchVars
  <1>9. CASE EndNext(r)
    <2>1. UNCHANGED << history, lock, turn, calls >> /\ pc[r] = "sequential"
      BY <1>9 DEF EndNext
    <2>2. CASE next[r] = Len(calls[r])
      <3>1. Goto(r, "observe") /\ next' = [next EXCEPT ![r] = 1]
        BY <1>9, <2>2 DEF EndNext
      <3>2. next'[r] = 1 /\ \A q \in Runs \ {r} : next'[q] = next[q]
        BY <1>2, <3>1
      <3> QED
        BY <1>4, <2>1, <3>1, <3>2
    <2>3. CASE next[r] # Len(calls[r])
      <3>1. pc' = pc /\ next' = [next EXCEPT ![r] = next[r] + 1]
        BY <1>9, <2>3 DEF EndNext
      <3>2. Goto(r, "sequential") /\ \A q \in Runs \ {r} : next'[q] = next[q]
        BY <1>2, <2>1, <3>1 DEF Goto
      <3> QED
        BY <1>4, <2>1, <3>2
    <2> QED
      BY <2>2, <2>3
  <1> QED
    BY <1>6, <1>7, <1>8, <1>9

LEMMA ObserveInHistory ==
  ASSUME RunInv, NEW r \in Runs, Observe(r)
  PROVE  Sticky /\ HistoryStep
  <1>1. pc[r] = "observe" /\ pc[r] \in Batching /\ pc[r] \in Busy /\ pc[r] \notin Gone
    BY DEF Observe, Batching, Busy, Gone
  <1>2. /\ lock = r /\ turn[r] \in Nat /\ pc \in [Runs -> Places]
        /\ next[r] \in 1 .. Len(calls[r]) /\ next[r] \in 0 .. MaxCalls
        /\ next \in [Runs -> 1 .. MaxCalls + 1] /\ UNCHANGED << turn, calls >>
    BY <1>1, RunFacts, PlacesTyped, SessionAssumption DEF RunInv, Observe
  <1>3. CASE Leave(r, "failed") /\ UNCHANGED << history, next >>
    <2>1. "failed" \in Gone
      BY DEF Gone
    <2> QED
      BY <1>1, <1>2, <1>3, <2>1, LeaveIsQuiet DEF Leave, HistoryStep
  <1>4. CASE /\ history' = Append(history, Result(r, turn[r], next[r]))
             /\ next' = [next EXCEPT ![r] = next[r] + 1]
             /\ IF next[r] = Len(calls[r]) THEN Goto(r, "remind") ELSE UNCHANGED pc
             /\ UNCHANGED << lock, poisoned >>
    <2> DEFINE x == IF next[r] = Len(calls[r]) THEN "remind" ELSE "observe"
    <2>1. Goto(r, x) /\ x # "queued"
      BY <1>1, <1>2, <1>4 DEF Goto
    <2>2. /\ next[r] = Len(calls[r]) => x \notin Batching
          /\ next[r] # Len(calls[r]) => x = "observe"
      BY DEF Batching
    <2> HIDE DEF x
    <2>3. Sticky /\ pc'[r] = x /\ \A q \in Runs \ {r} : pc'[q] = pc[q]
      BY <1>1, <2>1, MoveIsSticky
    <2>4. Result(r, turn[r], next[r]) \in Messages
      BY <1>2, MessagesTyped
    <2>5. Says(r, Result(r, turn[r], next[r]))
      BY <1>2, <1>4, <2>1, <2>3, <2>4 DEF Says, Result
    <2>6. NoBatchBut(r)
      BY <1>2, OneHolder
    <2>7. NoBatchBut(r)' /\ (next[r] = Len(calls[r]) => NoBatch')
      BY <2>2, <2>3, <2>6 DEF NoBatchBut, NoBatch
    <2>8. next[r] # Len(calls[r]) => pc'[r] = "observe" /\ next'[r] = next[r] + 1
      BY <1>2, <1>4, <2>2, <2>3
    <2> QED
      BY <1>1, <1>2, <2>3, <2>5, <2>7, <2>8 DEF HistoryStep, Observes
  <1> QED
    BY <1>3, <1>4 DEF Observe

LEMMA RemindInHistory ==
  ASSUME RunInv, NEW r \in Runs, Remind(r)
  PROVE  Sticky /\ HistoryStep
  <1>1. /\ pc[r] = "remind" /\ pc[r] \in Busy /\ pc[r] \notin Gone /\ pc[r] \notin Batching
        /\ "turn" \notin Batching
    BY DEF Remind, Busy, Gone, Batching
  <1>2. /\ lock = r /\ turn[r] \in Nat /\ turn \in [Runs -> 0 .. MaxTurns + 1]
        /\ Goto(r, "turn") /\ lock' = lock
        /\ turn' = [turn EXCEPT ![r] = @ + 1] /\ UNCHANGED << calls, next >>
    BY <1>1, RunFacts DEF Remind, batchVars
  <1>3. CASE history' = history
    <2>1. \A q \in Runs \ {r} : turn'[q] = turn[q]
      BY <1>2
    <2> QED
      BY <1>1, <1>2, <1>3, <2>1, MoveIsQuiet DEF HistoryStep
  <1>4. CASE history' = Append(history, Reminder(r, turn[r]))
    <2>1. Sticky /\ pc'[r] = "turn" /\ \A q \in Runs \ {r} : pc'[q] = pc[q]
      BY <1>1, <1>2, MoveIsSticky
    <2>2. Reminder(r, turn[r]) \in Messages
      BY <1>2, SessionAssumption, MessagesTyped
    <2>3. Says(r, Reminder(r, turn[r])) /\ Reminder(r, turn[r]).kind \notin {"assistant", "result"}
      BY <1>2, <1>4, <2>1, <2>2 DEF Says, Reminder
    <2>4. NoBatch
      BY <1>1, <1>2, OneHolder
    <2>5. NoBatch'
      BY <1>1, <2>1, <2>4 DEF NoBatch
    <2> QED
      BY <2>1, <2>2, <2>3, <2>4, <2>5 DEF HistoryStep, Remarks
  <1> QED
    BY <1>3, <1>4 DEF Remind

LEMMA PanicInHistory ==
  ASSUME RunInv, NEW r \in Runs, Panic(r)
  PROVE  Sticky /\ HistoryStep
  <1>1. pc[r] \in Busy
    BY DEF RunInv, HoldInv, Panic
  <1>2. pc[r] \notin Gone /\ "panicked" \in Gone
    BY <1>1 DEF Busy, Batching, Gone
  <1>3. /\ Goto(r, "panicked") /\ lock' = NoRun /\ history' = history
        /\ UNCHANGED << turn, calls, next >>
    BY DEF Panic, batchVars
  <1> QED
    BY <1>2, <1>3, LeaveIsQuiet DEF HistoryStep

LEMMA StepInHistory == RunInv /\ [Next]_vars => Sticky /\ HistoryStep
  <1> SUFFICES ASSUME RunInv, [Next]_vars PROVE Sticky /\ HistoryStep
    OBVIOUS
  <1>1. ASSUME NEW r \in Runs, Step(r) PROVE Sticky /\ HistoryStep
    BY <1>1, EnterInHistory, TurnInHistory, ActInHistory, ToolsInHistory, ObserveInHistory,
       RemindInHistory DEF Step
  <1>2. ASSUME NEW r \in Runs, Thread(r) PROVE Sticky /\ HistoryStep
    BY <1>2, ToolsInHistory DEF Thread
  <1>3. ASSUME NEW r \in Runs, Panic(r) PROVE Sticky /\ HistoryStep
    BY <1>3, PanicInHistory
  <1>4. CASE UNCHANGED vars
    <2>1. UNCHANGED << history, lock, pc, turn, calls, next >>
      BY <1>4 DEF vars, batchVars
    <2> QED
      BY <2>1 DEF Sticky, HistoryStep, Quiet, Done
  <1> QED
    BY <1>1, <1>2, <1>3, <1>4 DEF Next

-----------------------------------------------------------------------------
(***************************************************************************)
(* The blocks of the runs.                                                 *)
(***************************************************************************)
\* The messages of a run that waits are not there yet, and the messages of the
\* run that holds the lock end the history.
BlockInv ==
  /\ \A i \in DOMAIN history : pc[history[i].run] # "queued"
  /\ lock \in Runs => Len(history) > 0 /\ history[Len(history)].run = lock
  /\ RunsDoNotInterleave

\* One message more at the end, and the others where they were.
LEMMA OneMore ==
  ASSUME NEW h \in Seq(Messages), NEW m \in Messages
  PROVE  /\ Len(h) \in Nat /\ DOMAIN h = 1 .. Len(h)
         /\ Append(h, m) \in Seq(Messages)
         /\ Len(Append(h, m)) = Len(h) + 1
         /\ DOMAIN Append(h, m) = 1 .. Len(h) + 1
         /\ Append(h, m)[Len(h) + 1] = m
         /\ \A i \in 1 .. Len(h) : Append(h, m)[i] = h[i] /\ h[i] \in Messages
  BY AppendProperties, LenProperties, ElementOfSeq

LEMMA BlockStep ==
  ASSUME RunInv, BlockInv, Sticky, HistoryStep
  PROVE  BlockInv'
  <1>1. history \in Seq(Messages) /\ NoRun \notin Runs
    BY SessionAssumption, PlacesTyped DEF RunInv
  <1>2. \A i \in DOMAIN history : history[i].run \in Runs
    <2>1. DOMAIN history = 1 .. Len(history)
      BY <1>1, LenProperties
    <2>2. \A i \in DOMAIN history : history[i] \in Messages
      BY <1>1, <2>1, ElementOfSeq
    <2>3. \A m \in Messages : m.run \in Runs
      BY DEF Messages
    <2> QED
      BY <2>2, <2>3
  <1>3. CASE Quiet
    <2>1. history' = history /\ (lock' = lock \/ lock' = NoRun)
      BY <1>3 DEF Quiet
    <2>2. \A i \in DOMAIN history' : pc'[history'[i].run] # "queued"
      BY <1>2, <2>1 DEF BlockInv, Sticky
    <2>3. lock' \in Runs => Len(history') > 0 /\ history'[Len(history')].run = lock'
      BY <1>1, <2>1 DEF BlockInv
    <2>4. RunsDoNotInterleave'
      BY <2>1 DEF BlockInv, RunsDoNotInterleave
    <2> QED
      BY <2>2, <2>3, <2>4 DEF BlockInv
  <1>4. ASSUME NEW r \in Runs, NEW m, Says(r, m) PROVE BlockInv'
    <2>1. /\ history' = Append(history, m) /\ m \in Messages /\ m.run = r /\ lock' = r
          /\ lock = r \/ pc[r] = "queued"
          /\ pc'[r] # "queued"
      BY <1>4 DEF Says
    <2> DEFINE n == Len(history)
               h == Append(history, m)
    <2>2. /\ n \in Nat /\ DOMAIN history = 1 .. n
          /\ Len(h) = n + 1 /\ DOMAIN h = 1 .. n + 1 /\ h[n + 1] = m
          /\ \A i \in 1 .. n : h[i] = history[i] /\ h[i] \in Messages
      BY <1>1, <2>1, OneMore
    <2>3. history' = h
      BY <2>1
    <2>4. \A i \in 1 .. n : pc[history[i].run] # "queued"
      BY <2>2 DEF BlockInv
    <2>5. \A i, k \in 1 .. n : i < k /\ history[i].run = history[k].run =>
            \A j \in i .. k : history[j].run = history[i].run
      BY <2>2 DEF BlockInv, RunsDoNotInterleave
    <2>6. lock = r => n > 0 /\ history[n].run = r
      BY DEF BlockInv
    <2> HIDE DEF h, n
    <2>7. \A i \in 1 .. n + 1 : pc'[h[i].run] # "queued"
      <3> SUFFICES ASSUME NEW i \in 1 .. n + 1 PROVE pc'[h[i].run] # "queued"
        OBVIOUS
      <3>1. CASE i = n + 1
        BY <2>1, <2>2, <3>1
      <3>2. CASE i # n + 1
        <4>1. i \in 1 .. n
          BY <2>2, <3>2
        <4>2. pc[h[i].run] # "queued" /\ h[i].run \in Runs
          BY <1>2, <2>2, <2>4, <4>1
        <4> QED
          BY <4>2 DEF Sticky
      <3> QED
        BY <3>1, <3>2
    <2>8. \A i, k \in 1 .. n + 1 : i < k /\ h[i].run = h[k].run =>
            \A j \in i .. k : h[j].run = h[i].run
      <3> SUFFICES ASSUME NEW i \in 1 .. n + 1, NEW k \in 1 .. n + 1, i < k, h[i].run = h[k].run,
                          NEW j \in i .. k
                   PROVE  h[j].run = h[i].run
        OBVIOUS
      <3>1. i \in 1 .. n /\ h[i] = history[i]
        BY <2>2
      <3>2. CASE k # n + 1
        <4>1. k \in 1 .. n /\ j \in 1 .. n /\ h[k] = history[k] /\ h[j] = history[j]
          BY <2>2, <3>2
        <4> QED
          BY <2>5, <3>1, <4>1
      <3>3. CASE k = n + 1
        <4>1. history[i].run = r
          BY <2>1, <2>2, <3>1, <3>3
        <4>2. lock = r /\ n > 0 /\ history[n].run = r
          BY <2>1, <2>4, <2>6, <3>1, <4>1
        <4>3. CASE j = n + 1
          BY <2>1, <2>2, <3>1, <4>1, <4>3
        <4>4. CASE j # n + 1
          <5>1. j \in 1 .. n /\ j \in i .. n /\ n \in 1 .. n /\ h[j] = history[j]
            BY <2>2, <3>3, <4>4
          <5>2. CASE i = n
            BY <2>2, <3>1, <5>1, <5>2
          <5>3. CASE i < n
            BY <2>5, <3>1, <4>1, <4>2, <5>1, <5>3
          <5> QED
            BY <2>2, <3>1, <5>2, <5>3
        <4> QED
          BY <4>3, <4>4
      <3> QED
        BY <3>2, <3>3
    <2>9. lock' \in Runs => Len(h) > 0 /\ h[Len(h)].run = lock'
      BY <2>1, <2>2
    <2> QED
      BY <2>2, <2>3, <2>7, <2>8, <2>9 DEF BlockInv, RunsDoNotInterleave
  <1> QED
    BY <1>3, <1>4 DEF HistoryStep, Remarks, Acts, Observes

LEMMA BlockInvariant == Spec => []BlockInv
  <1>1. Init => BlockInv
    <2> SUFFICES ASSUME Init PROVE BlockInv
      OBVIOUS
    <2>1. history = << >> /\ lock \notin Runs
      BY SessionAssumption DEF Init
    <2>2. DOMAIN history = {}
      BY <2>1, EmptySeq
    <2> QED
      BY <2>1, <2>2 DEF BlockInv, RunsDoNotInterleave
  <1>2. RunInv /\ BlockInv /\ [Next]_vars => BlockInv'
    BY StepInHistory, BlockStep
  <1> QED
    BY <1>1, <1>2, RunInvariant, PTL DEF Spec

\* What a run wrote is one block of the history, although every message of a
\* chat starts a run in a thread of its own.
THEOREM RunsStayApart == Spec => []RunsDoNotInterleave
  <1>1. BlockInv => RunsDoNotInterleave
    BY DEF BlockInv
  <1> QED
    BY <1>1, BlockInvariant, PTL

-----------------------------------------------------------------------------
(***************************************************************************)
(* The batch of the run that holds the lock.                               *)
(***************************************************************************)
\* The history ends with a response of n calls and its first k results.
EndsWith(h, r, t, n, k) ==
  /\ k < Len(h)
  /\ h[Len(h) - k] = Action(r, t, n)
  /\ \A j \in 1 .. k : h[Len(h) - k + j] = Result(r, t, j)

OpenInv ==
  \A r \in Runs : pc[r] \in Batching => EndsWith(history, r, turn[r], Len(calls[r]), Done(r))

LEMMA EndsWithMore ==
  ASSUME NEW h \in Seq(Messages), NEW r, NEW t, NEW n, NEW k \in Nat, EndsWith(h, r, t, n, k),
         Result(r, t, k + 1) \in Messages
  PROVE  EndsWith(Append(h, Result(r, t, k + 1)), r, t, n, k + 1)
  <1> DEFINE l == Len(h)
             m == Result(r, t, k + 1)
             g == Append(h, m)
  <1>1. /\ l \in Nat /\ Len(g) = l + 1 /\ g[l + 1] = m /\ \A i \in 1 .. l : g[i] = h[i]
    BY OneMore
  <1>2. /\ k < l /\ h[l - k] = Action(r, t, n) /\ \A j \in 1 .. k : h[l - k + j] = Result(r, t, j)
    BY DEF EndsWith
  <1>3. m = Result(r, t, k + 1)
    OBVIOUS
  <1> HIDE DEF g, l, m
  <1>4. k + 1 < Len(g) /\ Len(g) - (k + 1) = l - k /\ g[l - k] = Action(r, t, n)
    BY <1>1, <1>2
  <1>5. ASSUME NEW j \in 1 .. k + 1 PROVE g[l - k + j] = Result(r, t, j)
    <2>1. CASE j = k + 1
      <3>1. l - k + j = l + 1
        BY <1>1, <2>1
      <3> QED
        BY <1>1, <1>3, <2>1, <3>1
    <2>2. CASE j # k + 1
      <3>1. j \in 1 .. k /\ l - k + j \in 1 .. l
        BY <1>1, <1>2, <2>2
      <3> QED
        BY <1>1, <1>2, <3>1
    <2> QED
      BY <2>1, <2>2
  <1>6. EndsWith(g, r, t, n, k + 1)
    BY <1>4, <1>5 DEF EndsWith
  <1> QED
    BY <1>6 DEF g, m

LEMMA OpenStep ==
  ASSUME RunInv, OpenInv, HistoryStep
  PROVE  OpenInv'
  <1>1. history \in Seq(Messages)
    BY PlacesTyped DEF RunInv
  <1>2. CASE Quiet
    BY <1>2 DEF Quiet, OpenInv
  <1>3. ASSUME NoBatch' PROVE OpenInv'
    BY <1>3 DEF NoBatch, OpenInv
  <1>4. ASSUME NEW r \in Runs, NoBatchBut(r)', pc'[r] \in Batching,
               EndsWith(history', r, turn'[r], Len(calls'[r]), Done(r)')
        PROVE  OpenInv'
    BY <1>4 DEF NoBatchBut, OpenInv
  <1>5. ASSUME NEW r \in Runs, Acts(r) PROVE OpenInv'
    <2>1. PICK n \in 0 .. MaxCalls :
            /\ Says(r, Action(r, turn[r], n)) /\ turn' = turn /\ NoBatchBut(r)'
            /\ n = 0 => NoBatch'
            /\ n # 0 => pc'[r] = "announce" /\ Len(calls'[r]) = n
      BY <1>5 DEF Acts
    <2>2. CASE n # 0
      <3>1. pc'[r] \in Batching /\ Done(r)' = 0
        BY <2>1, <2>2 DEF Batching, Done
      <3>2. history' = Append(history, Action(r, turn[r], n)) /\ Action(r, turn[r], n) \in Messages
        BY <2>1 DEF Says
      <3>3. EndsWith(Append(history, Action(r, turn[r], n)), r, turn[r], n, 0)
        BY <1>1, <3>2, OneMore DEF EndsWith
      <3> QED
        BY <1>4, <2>1, <2>2, <3>1, <3>2, <3>3
    <2> QED
      BY <1>3, <2>1, <2>2
  <1>6. ASSUME NEW r \in Runs, Observes(r) PROVE OpenInv'
    <2>1. CASE next[r] # Len(calls[r])
      <3> DEFINE k == next[r] - 1
      <3>1. /\ pc[r] = "observe" /\ next[r] \in 1 .. Len(calls[r]) /\ turn' = turn /\ calls' = calls
            /\ pc'[r] = "observe" /\ next'[r] = next[r] + 1 /\ NoBatchBut(r)'
            /\ Says(r, Result(r, turn[r], next[r]))
        BY <1>6, <2>1 DEF Observes
      <3>2. pc'[r] \in Batching /\ pc[r] \in Batching /\ Done(r)' = next'[r] - 1 /\ Done(r) = k
        BY <3>1 DEF Batching, Done
      <3>3. EndsWith(history, r, turn[r], Len(calls[r]), k)
        BY <3>2 DEF OpenInv
      <3>4. k \in Nat /\ k + 1 = next[r] /\ Done(r)' = k + 1
        BY <3>1, <3>2
      <3>5. /\ history' = Append(history, Result(r, turn[r], k + 1))
            /\ Result(r, turn[r], k + 1) \in Messages
        BY <3>1, <3>4 DEF Says
      <3> HIDE DEF k
      <3>6. EndsWith(history', r, turn[r], Len(calls[r]), k + 1)
        BY <1>1, <3>3, <3>4, <3>5, EndsWithMore
      <3> QED
        BY <1>4, <3>1, <3>2, <3>4, <3>6
    <2> QED
      BY <1>3, <1>6, <2>1 DEF Observes
  <1> QED
    BY <1>2, <1>3, <1>5, <1>6 DEF HistoryStep, Remarks

LEMMA OpenInvariant == Spec => []OpenInv
  <1>1. Init => OpenInv
    BY DEF Init, OpenInv, Batching
  <1>2. RunInv /\ OpenInv /\ [Next]_vars => OpenInv'
    BY StepInHistory, OpenStep
  <1> QED
    BY <1>1, <1>2, RunInvariant, PTL DEF Spec

\* What a new result says of itself.
LEMMA ResultsStep ==
  ASSUME RunInv, OpenInv, ResultsFollowTheirCalls, HistoryStep
  PROVE  ResultsFollowTheirCalls'
  <1>1. history \in Seq(Messages)
    BY PlacesTyped DEF RunInv
  <1>2. CASE Quiet
    BY <1>2 DEF Quiet, ResultsFollowTheirCalls
  <1> DEFINE Follows(h, i) ==
               /\ h[i].call < i
               /\ h[i - h[i].call].kind = "assistant"
               /\ h[i - h[i].call].run = h[i].run
               /\ h[i - h[i].call].turn = h[i].turn
               /\ h[i - h[i].call].calls >= h[i].call
  <1>3. ASSUME NEW m \in Messages, history' = Append(history, m),
               m.kind = "result" => Follows(Append(history, m), Len(history) + 1)
        PROVE  ResultsFollowTheirCalls'
    <2> DEFINE n == Len(history)
               h == Append(history, m)
    <2>1. /\ n \in Nat /\ DOMAIN history = 1 .. n /\ DOMAIN h = 1 .. n + 1 /\ h[n + 1] = m
          /\ \A i \in 1 .. n : h[i] = history[i] /\ h[i] \in Messages
      BY <1>1, OneMore
    <2>2. history' = h /\ (m.kind = "result" => Follows(h, n + 1))
      BY <1>3
    <2> HIDE DEF h, n
    <2>3. ASSUME NEW i \in 1 .. n + 1, h[i].kind = "result" PROVE Follows(h, i)
      <3>1. CASE i = n + 1
        BY <2>1, <2>2, <2>3, <3>1
      <3>2. CASE i # n + 1
        <4>1. i \in 1 .. n /\ h[i] = history[i] /\ h[i] \in Messages
          BY <2>1, <3>2
        <4>2. Follows(history, i)
          BY <2>1, <2>3, <4>1 DEF ResultsFollowTheirCalls
        <4>3. h[i].call \in Nat
          BY <4>1, SessionAssumption DEF Messages
        <4>4. i - h[i].call \in 1 .. n
          BY <2>1, <4>1, <4>2, <4>3
        <4> QED
          BY <2>1, <4>1, <4>2, <4>4
      <3> QED
        BY <3>1, <3>2
    <2> QED
      BY <2>1, <2>2, <2>3 DEF ResultsFollowTheirCalls
  <1>4. ASSUME NEW r \in Runs, Remarks(r) PROVE ResultsFollowTheirCalls'
    BY <1>3, <1>4 DEF Remarks, Says
  <1>5. ASSUME NEW r \in Runs, Acts(r) PROVE ResultsFollowTheirCalls'
    <2>1. PICK n \in 0 .. MaxCalls : Says(r, Action(r, turn[r], n))
      BY <1>5 DEF Acts
    <2>2. Action(r, turn[r], n).kind # "result"
      BY DEF Action
    <2> QED
      BY <1>3, <2>1, <2>2 DEF Says
  <1>6. ASSUME NEW r \in Runs, Observes(r) PROVE ResultsFollowTheirCalls'
    <2> DEFINE n == Len(history)
               k == next[r] - 1
               m == Result(r, turn[r], next[r])
               h == Append(history, m)
    <2>1. pc[r] = "observe" /\ next[r] \in 1 .. Len(calls[r]) /\ Says(r, m)
      BY <1>6 DEF Observes
    <2>2. pc[r] \in Batching /\ Done(r) = k /\ k \in Nat /\ next[r] = k + 1
      BY <2>1 DEF Batching, Done
    <2>3. k < n /\ history[n - k] = Action(r, turn[r], Len(calls[r]))
      BY <2>2 DEF OpenInv, EndsWith
    <2>4. m \in Messages /\ history' = h
      BY <2>1 DEF Says
    <2>5. /\ n \in Nat /\ h[n + 1] = m
          /\ \A i \in 1 .. n : h[i] = history[i]
      BY <1>1, <2>4, OneMore
    <2>6. m.run = r /\ m.turn = turn[r] /\ m.call = next[r]
      BY DEF Result
    <2> HIDE DEF h, m, n, k
    <2>7. n + 1 - next[r] = n - k /\ n - k \in 1 .. n
      BY <2>2, <2>3, <2>5
    <2>8. h[n - k] = Action(r, turn[r], Len(calls[r]))
      BY <2>3, <2>5, <2>7
    <2>9. Follows(h, n + 1)
      <3>1. next[r] < n + 1
        BY <2>2, <2>3, <2>5
      <3>2. /\ h[n - k].kind = "assistant" /\ h[n - k].run = r /\ h[n - k].turn = turn[r]
            /\ h[n - k].calls = Len(calls[r])
        BY <2>8 DEF Action
      <3> QED
        BY <2>1, <2>5, <2>6, <2>7, <3>1, <3>2
    <2> QED
      BY <1>3, <2>4, <2>9 DEF h, n
  <1> QED
    BY <1>2, <1>4, <1>5, <1>6 DEF HistoryStep

\* Every observation stands where its call put it, however the threads of its
\* batch finish and whatever the other runs do.
THEOREM ResultsStandInOrder == Spec => []ResultsFollowTheirCalls
  <1>1. Init => ResultsFollowTheirCalls
    <2> SUFFICES ASSUME Init PROVE ResultsFollowTheirCalls
      OBVIOUS
    <2>1. DOMAIN history = {}
      BY EmptySeq DEF Init
    <2> QED
      BY <2>1 DEF ResultsFollowTheirCalls
  <1>2. RunInv /\ OpenInv /\ ResultsFollowTheirCalls /\ [Next]_vars => ResultsFollowTheirCalls'
    BY StepInHistory, ResultsStep
  <1> QED
    BY <1>1, <1>2, RunInvariant, OpenInvariant, PTL DEF Spec

-----------------------------------------------------------------------------
(***************************************************************************)
(* The requests of a session in which no run has failed or panicked.       *)
(***************************************************************************)
Calm == \A q \in Runs : pc[q] \notin Gone

AnsweredAt(h, i) ==
  \A k \in 1 .. h[i].calls :
    i + k \in DOMAIN h /\ h[i + k] = Result(h[i].run, h[i].turn, k)

\* Only the response of the open batch waits for its results.
CalmInv ==
  Calm => \A i \in DOMAIN history : history[i].kind = "assistant" =>
    \/ AnsweredAt(history, i)
    \/ \E r \in Runs : pc[r] \in Batching /\ i = Len(history) - Done(r)

LEMMA StaysAnswered ==
  ASSUME NEW h \in Seq(Messages), NEW m \in Messages, NEW i \in 1 .. Len(h), AnsweredAt(h, i)
  PROVE  AnsweredAt(Append(h, m), i)
  <1> DEFINE g == Append(h, m)
  <1>1. /\ Len(h) \in Nat /\ DOMAIN h = 1 .. Len(h) /\ DOMAIN g = 1 .. Len(h) + 1
        /\ \A j \in 1 .. Len(h) : g[j] = h[j]
    BY OneMore
  <1> HIDE DEF g
  <1>2. AnsweredAt(g, i)
    <2> SUFFICES ASSUME NEW k \in 1 .. h[i].calls
                 PROVE  i + k \in DOMAIN g /\ g[i + k] = Result(h[i].run, h[i].turn, k)
      BY <1>1 DEF AnsweredAt
    <2>1. i + k \in 1 .. Len(h) /\ h[i + k] = Result(h[i].run, h[i].turn, k)
      BY <1>1 DEF AnsweredAt
    <2> QED
      BY <1>1, <2>1
  <1> QED
    BY <1>2 DEF g

\* A full batch answers its response.
LEMMA FullBatchAnswers ==
  ASSUME NEW h \in Seq(Messages), NEW r, NEW t, NEW n \in Nat, EndsWith(h, r, t, n, n)
  PROVE  AnsweredAt(h, Len(h) - n)
  <1>1. Len(h) \in Nat /\ DOMAIN h = 1 .. Len(h)
    BY LenProperties
  <1>2. /\ n < Len(h) /\ h[Len(h) - n] = Action(r, t, n)
        /\ \A j \in 1 .. n : h[Len(h) - n + j] = Result(r, t, j)
    BY DEF EndsWith
  <1>3. Action(r, t, n).calls = n /\ Action(r, t, n).run = r /\ Action(r, t, n).turn = t
    BY DEF Action
  <1>4. \A j \in 1 .. n : Len(h) - n + j \in DOMAIN h
    BY <1>1, <1>2
  <1> QED
    BY <1>2, <1>3, <1>4 DEF AnsweredAt

LEMMA CalmStep ==
  ASSUME RunInv, OpenInv, CalmInv, Sticky, HistoryStep
  PROVE  CalmInv'
  <1> SUFFICES ASSUME Calm',
                      NEW i \in DOMAIN history', history'[i].kind = "assistant"
               PROVE  \/ AnsweredAt(history', i)
                      \/ \E q \in Runs : pc'[q] \in Batching /\ i = Len(history') - Done(q)'
    BY DEF CalmInv, AnsweredAt
  <1>1. history \in Seq(Messages)
    BY PlacesTyped DEF RunInv
  <1>2. Calm
    BY DEF Calm, Sticky
  <1>3. ASSUME NEW j \in DOMAIN history, history[j].kind = "assistant"
        PROVE  \/ AnsweredAt(history, j)
               \/ \E q \in Runs : pc[q] \in Batching /\ j = Len(history) - Done(q)
    BY <1>2, <1>3 DEF CalmInv
  <1>4. CASE Quiet
    <2>1. /\ history' = history
          /\ \A q \in Runs : pc'[q] \in Batching => Done(q)' = Done(q)
          /\ \A q \in Runs : pc[q] \in Batching => pc'[q] \in Batching
      BY <1>4 DEF Quiet, Calm
    <2> QED
      BY <1>3, <2>1
  <1>5. ASSUME NEW r \in Runs, NEW m, Says(r, m)
        PROVE  /\ m \in Messages /\ history' = Append(history, m) /\ lock' = r
               /\ Len(history) \in Nat /\ Len(history') = Len(history) + 1
               /\ i \in 1 .. Len(history) \/ i = Len(history) + 1
               /\ i = Len(history) + 1 => history'[i] = m
               /\ i \in 1 .. Len(history) => /\ i \in DOMAIN history /\ history'[i] = history[i]
                                             /\ AnsweredAt(history, i) => AnsweredAt(history', i)
    <2>1. m \in Messages /\ history' = Append(history, m) /\ lock' = r
      BY <1>5 DEF Says
    <2>2. /\ Len(history) \in Nat /\ DOMAIN history = 1 .. Len(history)
          /\ Len(history') = Len(history) + 1 /\ DOMAIN history' = 1 .. Len(history) + 1
          /\ history'[Len(history) + 1] = m
          /\ \A j \in 1 .. Len(history) : history'[j] = history[j]
      BY <1>1, <2>1, OneMore
    <2>3. i \in 1 .. Len(history) \/ i = Len(history) + 1
      BY <2>2
    <2>4. i \in 1 .. Len(history) => (AnsweredAt(history, i) => AnsweredAt(history', i))
      BY <1>1, <2>1, StaysAnswered
    <2> QED
      BY <2>1, <2>2, <2>3, <2>4
  <1>6. ASSUME NEW r \in Runs, Remarks(r)
        PROVE  AnsweredAt(history', i)
    <2>1. PICK m \in Messages : Says(r, m) /\ m.kind \notin {"assistant", "result"} /\ NoBatch
      BY <1>6 DEF Remarks
    <2>2. i \in 1 .. Len(history)
      BY <1>5, <2>1
    <2> QED
      BY <1>3, <1>5, <2>1, <2>2 DEF NoBatch
  <1>7. ASSUME NEW r \in Runs, Acts(r)
        PROVE  \/ AnsweredAt(history', i)
               \/ \E q \in Runs : pc'[q] \in Batching /\ i = Len(history') - Done(q)'
    <2>1. PICK n \in 0 .. MaxCalls :
            /\ Says(r, Action(r, turn[r], n)) /\ NoBatch
            /\ n # 0 => pc'[r] = "announce"
      BY <1>7 DEF Acts
    <2>2. CASE i \in 1 .. Len(history)
      BY <1>3, <1>5, <2>1, <2>2 DEF NoBatch
    <2>3. CASE i = Len(history) + 1
      <3>1. CASE n = 0
        <4>1. history'[i].calls = 0
          BY <1>5, <2>1, <2>3, <3>1 DEF Action
        <4> QED
          BY <4>1 DEF AnsweredAt
      <3>2. CASE n # 0
        <4>1. pc'[r] \in Batching /\ Done(r)' = 0
          BY <2>1, <3>2 DEF Batching, Done
        <4>2. i = Len(history') - 0
          BY <1>5, <2>1, <2>3
        <4> QED
          BY <4>1, <4>2
      <3> QED
        BY <3>1, <3>2
    <2> QED
      BY <1>5, <2>1, <2>2, <2>3
  <1>8. ASSUME NEW r \in Runs, Observes(r)
        PROVE  \/ AnsweredAt(history', i)
               \/ \E q \in Runs : pc'[q] \in Batching /\ i = Len(history') - Done(q)'
    <2> DEFINE k == next[r] - 1
               n == Len(calls[r])
    <2>1. /\ Says(r, Result(r, turn[r], next[r])) /\ pc[r] = "observe" /\ next[r] \in 1 .. n
          /\ next[r] # n => pc'[r] = "observe" /\ next'[r] = next[r] + 1
      BY <1>8 DEF Observes
    <2>2. pc[r] \in Batching /\ pc[r] \in Busy /\ Done(r) = k /\ k \in Nat /\ next[r] = k + 1
      BY <2>1 DEF Batching, Busy, Done
    <2>3. lock = r /\ n \in Nat
      BY <2>2, RunFacts, SessionAssumption
    <2>4. EndsWith(history, r, turn[r], n, k)
      BY <2>2 DEF OpenInv
    <2>5. /\ history' = Append(history, Result(r, turn[r], k + 1))
          /\ Result(r, turn[r], k + 1) \in Messages /\ history' \in Seq(Messages)
      BY <1>1, <1>5, <2>1, <2>2, OneMore
    <2> HIDE DEF k, n
    <2>6. EndsWith(history', r, turn[r], n, k + 1)
      BY <1>1, <2>2, <2>4, <2>5, EndsWithMore
    <2>7. i # Len(history) + 1
      BY <1>5, <2>1 DEF Result
    <2>8. i \in 1 .. Len(history) /\ i \in DOMAIN history /\ history[i].kind = "assistant"
      BY <1>5, <2>1, <2>7
    <2>9. CASE AnsweredAt(history, i)
      BY <1>5, <2>1, <2>8, <2>9
    <2>10. CASE ~AnsweredAt(history, i)
      <3>1. PICK q \in Runs : pc[q] \in Batching /\ i = Len(history) - Done(q)
        BY <1>3, <2>8, <2>10
      <3>2. q = r
        BY <2>3, <3>1, OneHolder DEF NoBatchBut
      <3>3. i = Len(history') - (k + 1)
        BY <1>5, <2>1, <2>2, <3>1, <3>2
      <3>4. CASE next[r] = n
        BY <2>2, <2>3, <2>5, <2>6, <3>3, <3>4, FullBatchAnswers
      <3>5. CASE next[r] # n
        <4>1. pc'[r] \in Batching /\ Done(r)' = k + 1
          BY <2>1, <2>2, <3>5 DEF Batching, Done
        <4> QED
          BY <3>3, <4>1
      <3> QED
        BY <3>4, <3>5
    <2> QED
      BY <2>9, <2>10
  <1> QED
    BY <1>4, <1>6, <1>7, <1>8 DEF HistoryStep

\* As long as no run of the session has failed or panicked, no request shows a
\* tool call without its observation.
THEOREM CalmSessionsAreAnswered == Spec => []CalmRequestsAreAnswered
  <1>1. Init => CalmInv
    <2> SUFFICES ASSUME Init PROVE CalmInv
      OBVIOUS
    <2>1. DOMAIN history = {}
      BY EmptySeq DEF Init
    <2> QED
      BY <2>1 DEF CalmInv
  <1>2. RunInv /\ OpenInv /\ CalmInv /\ [Next]_vars => CalmInv'
    BY StepInHistory, CalmStep
  <1>3. RunInv /\ CalmInv => CalmRequestsAreAnswered
    <2> SUFFICES ASSUME RunInv, CalmInv, \A q \in Runs : pc[q] \notin {"failed", "panicked"},
                        NEW r \in Runs, pc[r] \in {"think", "act"}
                 PROVE  Answered(history)
      BY DEF CalmRequestsAreAnswered
    <2>1. lock = r /\ pc[r] \notin Batching
      BY RunFacts DEF Busy, Batching
    <2>2. NoBatch
      BY <2>1, OneHolder
    <2> QED
      BY <2>2 DEF CalmInv, Calm, Gone, NoBatch, AnsweredAt, Answered
  <1> QED
    BY <1>1, <1>2, <1>3, RunInvariant, OpenInvariant, PTL DEF Spec

-----------------------------------------------------------------------------
(***************************************************************************)
(* The runs of a session are one conversation: ReActSession implements     *)
(* Conversation.                                                           *)
(***************************************************************************)
Newest == history[Len(history)]

Waiting == {q \in Runs : pc[q] = "queued"}

\* The last message is the one the turn starts from.
StartsAt(t) == Newest.kind \in {"user", "result", "reminder"} /\ Newest.turn + 1 = t

\* What the run with the lock has said last; a batch is the matter of OpenInv.
TailInv ==
  \A r \in Runs : lock = r =>
    /\ pc[r] \in {"turn", "think"} => StartsAt(turn[r])
    /\ pc[r] = "act" => StartsAt(turn[r]) \/ (Newest.kind = "thinking" /\ Newest.turn = turn[r])
    /\ pc[r] = "remind" => Newest.kind = "result" /\ Newest.turn = turn[r]

\* One message more is the last one.
LEMMA SaidLast ==
  ASSUME NEW m \in Messages, history \in Seq(Messages), history' = Append(history, m)
  PROVE  Newest' = m
  BY OneMore DEF Newest

\* A run with the lock has said something.
LEMMA NewestTyped ==
  ASSUME RunInv, BlockInv, lock \in Runs
  PROVE  Newest \in Messages
  <1>1. history \in Seq(Messages) /\ Len(history) > 0
    BY PlacesTyped DEF RunInv, BlockInv
  <1>2. Len(history) \in 1 .. Len(history)
    BY <1>1, LenProperties
  <1> QED
    BY <1>1, <1>2, ElementOfSeq DEF Newest

LEMMA OwedByHolder ==
  ASSUME RunInv, NEW r \in Runs, lock = r
  PROVE  Owed = IF pc[r] \in Batching THEN Len(calls[r]) - Done(r) ELSE 0
  BY DEF Owed, Batching, Done

LEMMA OwedByNobody ==
  lock = NoRun => Owed = 0
  BY SessionAssumption DEF Owed

\* A run moves and is not the next to wait.
LEMMA WaitingStays ==
  ASSUME RunInv, NEW r \in Runs, NEW x, Goto(r, x), pc[r] # "queued", x # "queued"
  PROVE  Waiting' = Waiting
  <1>1. pc' = [pc EXCEPT ![r] = x] /\ pc \in [Runs -> Places]
    BY PlacesTyped DEF RunInv, Goto
  <1> QED
    BY <1>1 DEF Waiting

LEMMA WaitingLoses ==
  ASSUME RunInv, NEW r \in Runs, NEW x, Goto(r, x), x # "queued"
  PROVE  Waiting' = Waiting \ {r}
  <1>1. pc' = [pc EXCEPT ![r] = x] /\ pc \in [Runs -> Places]
    BY PlacesTyped DEF RunInv, Goto
  <1> QED
    BY <1>1 DEF Waiting

\* The state of the conversation as the run with the lock sees it.
LEMMA HolderTail ==
  ASSUME RunInv, OpenInv, TailInv, NEW r \in Runs, pc[r] \in Busy
  PROVE  /\ lock = r /\ history \in Seq(Messages) /\ turn[r] \in Nat
         /\ turn \in [Runs -> 0 .. MaxTurns + 1] /\ pc \in [Runs -> Places]
         /\ pc[r] # "turn" => turn[r] <= MaxTurns
         /\ pc[r] \in {"turn", "think"} => StartsAt(turn[r])
         /\ pc[r] = "act" => StartsAt(turn[r]) \/ (Newest.kind = "thinking" /\ Newest.turn = turn[r])
         /\ pc[r] = "remind" => Newest.kind = "result" /\ Newest.turn = turn[r]
         /\ pc[r] \notin Batching => Owed = 0
         /\ pc[r] \in Batching => Owed = Len(calls[r]) - Done(r)
  <1>1. lock = r
    BY DEF RunInv, HoldInv
  <1>2. /\ history \in Seq(Messages) /\ turn[r] \in Nat /\ (pc[r] # "turn" => turn[r] <= MaxTurns)
    BY RunFacts
  <1>3. pc \in [Runs -> Places] /\ turn \in [Runs -> 0 .. MaxTurns + 1]
    BY PlacesTyped DEF RunInv
  <1>4. Owed = IF pc[r] \in Batching THEN Len(calls[r]) - Done(r) ELSE 0
    BY <1>1, OwedByHolder
  <1>5. /\ pc[r] \in {"turn", "think"} => StartsAt(turn[r])
        /\ pc[r] = "act" => StartsAt(turn[r]) \/ (Newest.kind = "thinking" /\ Newest.turn = turn[r])
        /\ pc[r] = "remind" => Newest.kind = "result" /\ Newest.turn = turn[r]
    BY <1>1 DEF TailInv
  <1> QED
    BY <1>1, <1>2, <1>3, <1>4, <1>5

\* Nothing is said and nobody leaves.
LEMMA Silence ==
  ASSUME RunInv, NEW r \in Runs, NEW x, Goto(r, x), pc[r] # "queued", x # "queued",
         UNCHANGED << history, lock, poisoned, Owed >>
  PROVE  UNCHANGED Session!vars
  BY WaitingStays DEF Session!vars, Waiting

LEMMA Departure ==
  ASSUME RunInv, NEW r \in Runs, lock = r, NEW x, Goto(r, x), pc[r] # "queued", x # "queued",
         history' = history, lock' = NoRun, poisoned' \in {poisoned, TRUE}
  PROVE  Session!Close
  <1>1. Waiting' = Waiting
    BY WaitingStays
  <1>2. Owed' = 0
    BY SessionAssumption DEF Owed
  <1> QED
    BY <1>1, <1>2, SessionAssumption DEF Session!Close, Waiting

LEMMA EnterSpeaks ==
  ASSUME RunInv, NEW r \in Runs, Enter(r)
  PROVE  Session!Open(r) /\ TailInv'
  <1>1. /\ pc[r] = "queued" /\ lock = NoRun /\ lock' = r /\ ~poisoned /\ poisoned' = poisoned
        /\ Goto(r, "turn") /\ history' = Append(history, User(r)) /\ turn' = [turn EXCEPT ![r] = 1]
    BY DEF Enter
  <1>2. /\ Waiting' = Waiting \ {r} /\ r \in Waiting
    BY <1>1, WaitingLoses DEF Waiting
  <1>3. /\ turn'[r] = 1 /\ pc'[r] = "turn"
    BY <1>1, PlacesTyped DEF RunInv, Goto
  <1>4. Owed = 0
    BY <1>1, OwedByNobody
  <1>5. Owed' = 0
    BY <1>1, <1>3 DEF Owed
  <1>6. history \in Seq(Messages) /\ User(r) \in Messages
    BY SessionAssumption, MessagesTyped, PlacesTyped DEF RunInv
  <1>7. Newest' = User(r)
    BY <1>1, <1>6, SaidLast
  <1>8. TailInv'
    BY <1>1, <1>3, <1>7 DEF TailInv, StartsAt, User
  <1>9. Session!Open(r)
    BY <1>1, <1>2, <1>4, <1>5 DEF Session!Open, Session!Say, Waiting, User
  <1> QED
    BY <1>8, <1>9

LEMMA EnterIsTurnedAway ==
  ASSUME RunInv, NEW r \in Runs, EnterPoisoned(r)
  PROVE  Session!TurnAway(r) /\ TailInv'
  <1>1. /\ pc[r] = "queued" /\ lock = NoRun /\ lock' = NoRun /\ poisoned /\ poisoned' = poisoned
        /\ Goto(r, "panicked") /\ history' = history
    BY DEF EnterPoisoned
  <1>2. Waiting' = Waiting \ {r} /\ r \in Waiting
    BY <1>1, WaitingLoses DEF Waiting
  <1>3. Owed = 0 /\ Owed' = 0
    BY <1>1, SessionAssumption DEF Owed
  <1>4. TailInv'
    BY <1>1, SessionAssumption DEF TailInv
  <1> QED
    BY <1>1, <1>2, <1>3, <1>4 DEF Session!TurnAway, Waiting

\* A run that leaves ends its part of the conversation.
LEMMA LeaveCloses ==
  ASSUME RunInv, NEW r \in Runs, lock = r, pc[r] \in Busy, NEW x \in Ended, Goto(r, x),
         lock' = NoRun, poisoned' \in {poisoned, TRUE}, history' = history
  PROVE  Session!Close /\ TailInv'
  <1>1. pc[r] # "queued" /\ x # "queued"
    BY DEF Busy, Batching, Ended
  <1>2. TailInv'
    BY SessionAssumption DEF TailInv
  <1> QED
    BY <1>1, <1>2, Departure

LEMMA TurnSpeaks ==
  ASSUME RunInv, OpenInv, TailInv, NEW r \in Runs, StartTurn(r) \/ Complete(r) \/ Announce(r)
  PROVE  (Session!Close \/ UNCHANGED Session!vars) /\ TailInv'
  <1>1. /\ pc[r] \in {"turn", "complete", "announce"} /\ pc[r] \in Busy /\ pc[r] # "queued"
        /\ history' = history /\ turn' = turn /\ calls' = calls /\ next' = next
    BY DEF StartTurn, Complete, Announce, Busy, Batching, batchVars
  <1>2. lock = r /\ pc \in [Runs -> Places]
    BY <1>1, HolderTail
  <1>3. CASE Leave(r, "failed") \/ Leave(r, "done")
    <2>1. /\ lock' = NoRun /\ poisoned' = poisoned
          /\ \E x \in Ended : Goto(r, x)
      BY <1>3 DEF Leave, Ended
    <2> QED
      BY <1>1, <1>2, <2>1, LeaveCloses
  <1>4. CASE ~(Leave(r, "failed") \/ Leave(r, "done"))
    <2>1. PICK x \in {"think", "act", "parallel", "sequential"} :
            /\ Goto(r, x) /\ UNCHANGED << lock, poisoned >>
            /\ x \in {"think", "act"} => pc[r] = "turn"
            /\ x \in {"parallel", "sequential"} => pc[r] = "announce"
      BY <1>1, <1>4 DEF StartTurn, Complete, Announce, Reported
    <2>2. pc'[r] = x
      BY <1>2, <2>1 DEF Goto
    <2>3. Owed' = Owed
      BY <1>1, <1>2, <2>1, <2>2 DEF Owed
    <2>4. UNCHANGED Session!vars
      BY <1>1, <2>1, <2>3, Silence
    <2>5. Newest' = Newest
      BY <1>1 DEF Newest
    <2>6. pc[r] = "turn" => StartsAt(turn[r])
      BY <1>1, HolderTail
    <2>7. StartsAt(turn[r])' <=> StartsAt(turn[r])
      BY <1>1, <2>5 DEF StartsAt
    <2>8. x \in {"think", "act"} => StartsAt(turn[r])'
      BY <2>1, <2>6, <2>7
    <2>9. TailInv'
      BY <1>2, <2>1, <2>2, <2>8, SessionAssumption DEF TailInv
    <2> QED
      BY <2>4, <2>9
  <1> QED
    BY <1>3, <1>4

LEMMA ThinkSpeaks ==
  ASSUME RunInv, OpenInv, BlockInv, TailInv, NEW r \in Runs, Think(r)
  PROVE  (Session!Reflect \/ Session!Close \/ UNCHANGED Session!vars) /\ TailInv'
  <1>1. /\ pc[r] = "think" /\ pc[r] \in Busy /\ pc[r] \notin Batching /\ pc[r] # "queued"
        /\ turn' = turn
    BY DEF Think, Busy, Batching
  <1>2. /\ lock = r /\ history \in Seq(Messages) /\ turn[r] \in Nat /\ turn[r] <= MaxTurns
        /\ StartsAt(turn[r]) /\ Owed = 0 /\ pc \in [Runs -> Places]
    BY <1>1, HolderTail
  <1>3. CASE history' = history /\ Leave(r, "failed")
    <2>1. lock' = NoRun /\ poisoned' = poisoned /\ Goto(r, "failed") /\ "failed" \in Ended
      BY <1>3 DEF Leave, Ended
    <2> QED
      BY <1>1, <1>2, <1>3, <2>1, LeaveCloses
  <1>4. ASSUME Goto(r, "act"), UNCHANGED << lock, poisoned >>
        PROVE  /\ pc'[r] = "act" /\ Owed' = 0 /\ Waiting' = Waiting
    <2>1. pc'[r] = "act"
      BY <1>2, <1>4 DEF Goto
    <2>2. Owed' = 0
      BY <1>2, <1>4, <2>1 DEF Owed
    <2> QED
      BY <1>1, <1>4, <2>1, <2>2, WaitingStays
  <1>5. CASE history' = history /\ Goto(r, "act") /\ UNCHANGED << lock, poisoned >>
    <2>1. UNCHANGED Session!vars
      BY <1>2, <1>4, <1>5 DEF Session!vars, Waiting
    <2>2. StartsAt(turn[r])'
      BY <1>1, <1>2, <1>5 DEF StartsAt, Newest
    <2>3. TailInv'
      BY <1>2, <1>4, <1>5, <2>2 DEF TailInv
    <2> QED
      BY <2>1, <2>3
  <1>6. CASE history' = Append(history, Thought(r, turn[r])) /\ Goto(r, "act") /\ UNCHANGED << lock, poisoned >>
    <2>1. Thought(r, turn[r]) \in Messages
      BY <1>2, MessagesTyped, SessionAssumption
    <2>2. Newest' = Thought(r, turn[r])
      BY <1>2, <1>6, <2>1, SaidLast
    <2>3. Newest'.kind = "thinking" /\ Newest'.turn = turn'[r]
      BY <1>1, <2>2 DEF Thought
    <2>4. TailInv'
      BY <1>2, <1>4, <1>6, <2>3 DEF TailInv
    <2>5. Newest.kind \in {"user", "result", "reminder"} /\ Newest.turn + 1 = turn[r]
      BY <1>2 DEF StartsAt
    <2>6. Session!AtTurnStart
      <3>1. Newest \in Messages
        BY <1>2, NewestTyped
      <3>2. Newest.turn < MaxTurns
        BY <1>2, <2>5, <3>1, SessionAssumption DEF Messages
      <3> QED
        BY <1>2, <2>5, <3>2 DEF Session!AtTurnStart, Session!Last, Newest
    <2>7. Session!Reflect
      BY <1>2, <1>4, <1>6, <2>5, <2>6, SessionAssumption
      DEF Session!Reflect, Session!Say, Session!Last, Newest, Waiting, Thought
    <2> QED
      BY <2>4, <2>7
  <1> QED
    BY <1>3, <1>5, <1>6 DEF Think, Reported, Leave

LEMMA ActSpeaks ==
  ASSUME RunInv, OpenInv, BlockInv, TailInv, NEW r \in Runs, Act(r)
  PROVE  ((\E n \in 0 .. MaxCalls : Session!Respond(n)) \/ Session!Close) /\ TailInv'
  <1>1. /\ pc[r] = "act" /\ pc[r] \in Busy /\ pc[r] \notin Batching /\ pc[r] # "queued"
        /\ turn' = turn /\ next' = [next EXCEPT ![r] = 1]
    BY DEF Act, Busy, Batching
  <1>2. /\ lock = r /\ history \in Seq(Messages) /\ turn[r] \in Nat /\ turn[r] <= MaxTurns
        /\ StartsAt(turn[r]) \/ (Newest.kind = "thinking" /\ Newest.turn = turn[r])
        /\ Owed = 0 /\ pc \in [Runs -> Places]
    BY <1>1, HolderTail
  <1>3. CASE history' = history /\ Leave(r, "failed")
    <2>1. lock' = NoRun /\ poisoned' = poisoned /\ Goto(r, "failed") /\ "failed" \in Ended
      BY <1>3 DEF Leave, Ended
    <2> QED
      BY <1>1, <1>2, <1>3, <2>1, LeaveCloses
  <1>4. ASSUME NEW n \in 0 .. MaxCalls, NEW c \in [1 .. n -> Modes],
               history' = Append(history, Action(r, turn[r], n)),
               calls' = [calls EXCEPT ![r] = c],
               Goto(r, IF n = 0 THEN "complete" ELSE "announce"), UNCHANGED << lock, poisoned >>
        PROVE  Session!Respond(n) /\ TailInv'
    <2> DEFINE x == IF n = 0 THEN "complete" ELSE "announce"
    <2>1. pc'[r] = x /\ x # "queued"
      BY <1>2, <1>4 DEF Goto
    <2>2. Waiting' = Waiting
      BY <1>1, <1>4, <2>1, WaitingStays
    <2>3. calls'[r] = c /\ Len(c) = n /\ next'[r] = 1
      <3>1. calls \in [Runs -> Seq(Modes)] /\ next \in [Runs -> 1 .. MaxCalls + 1]
        BY PlacesTyped DEF RunInv
      <3>2. n \in Nat
        BY SessionAssumption
      <3> QED
        BY <1>1, <1>4, <3>1, <3>2
    <2>4. Owed' = n
      BY <1>2, <1>4, <2>1, <2>3 DEF Owed
    <2>5. TailInv'
      BY <1>2, <1>4, <2>1 DEF TailInv
    <2>6. \/ Session!AtTurnStart /\ Newest.turn + 1 = turn[r]
          \/ Newest.kind = "thinking" /\ Newest.turn = turn[r]
      <3>1. CASE StartsAt(turn[r])
        <4>1. Newest.kind \in {"user", "result", "reminder"} /\ Newest.turn + 1 = turn[r]
          BY <3>1 DEF StartsAt
        <4>2. Newest.turn < MaxTurns
          <5>1. Newest \in Messages
            BY <1>2, <4>1, NewestTyped
          <5> QED
            BY <1>2, <4>1, <5>1, SessionAssumption DEF Messages
        <4> QED
          BY <1>2, <4>1, <4>2 DEF Session!AtTurnStart, Session!Last, Newest
      <3> QED
        BY <1>2, <3>1
    <2>7. Session!Respond(n)
      <3>1. \/ Session!AtTurnStart /\ Session!Say("assistant", lock, Session!Last.turn + 1, n, 0)
            \/ Session!Last.kind = "thinking" /\ Session!Say("assistant", lock, Session!Last.turn, n, 0)
        BY <1>2, <1>4, <2>6 DEF Session!Say, Session!Last, Newest, Action
      <3> QED
        BY <1>2, <1>4, <2>2, <2>4, <3>1, SessionAssumption DEF Session!Respond, Waiting
    <2> QED
      BY <2>5, <2>7
  <1> QED
    BY <1>3, <1>4 DEF Act

\* The batch runs: nothing is said until its results are appended.
LEMMA ToolsAreSilent ==
  ASSUME RunInv, OpenInv, TailInv, NEW r \in Runs,
         \/ BeginNext(r) \/ EndNext(r) \/ JoinAll(r)
         \/ \E k \in 1 .. MaxCalls : BeginThread(r, k) \/ EndThread(r, k)
  PROVE  UNCHANGED Session!vars /\ TailInv'
  <1>1. /\ pc[r] \in {"sequential", "parallel"} /\ pc[r] \in Batching /\ pc[r] \in Busy
        /\ pc[r] # "queued"
        /\ UNCHANGED << history, lock, poisoned, turn, calls >>
    BY DEF BeginNext, EndNext, JoinAll, BeginThread, EndThread, Begin, Batching, Busy, batchVars
  <1>2. lock = r /\ pc \in [Runs -> Places] /\ next \in [Runs -> 1 .. MaxCalls + 1]
    BY <1>1, HolderTail, PlacesTyped DEF RunInv
  <1>3. \/ pc' = pc
        \/ Goto(r, "observe") /\ next'[r] = 1
    <2>1. CASE EndNext(r)
      BY <1>2, <2>1 DEF EndNext
    <2>2. CASE JoinAll(r)
      <3>1. next[r] = 1
        BY <2>2 DEF JoinAll, RunInv, BatchInv
      <3> QED
        BY <2>2, <3>1 DEF JoinAll, batchVars
    <2> QED
      BY <2>1, <2>2 DEF BeginNext, BeginThread, EndThread, Begin
  <1>4. Waiting' = Waiting
    BY <1>1, <1>3, WaitingStays DEF Waiting
  <1>5. Len(calls[r]) \in Nat
    BY <1>1, RunFacts, SessionAssumption
  <1>6. Owed' = Owed
    BY <1>1, <1>2, <1>3, <1>5 DEF Owed, Goto
  <1>7. TailInv'
    BY <1>1, <1>2, <1>3 DEF TailInv, Goto
  <1> QED
    BY <1>1, <1>4, <1>6, <1>7 DEF Session!vars, Waiting

\* In an open batch the last message is the response or the result before the next.
LEMMA BatchTail ==
  ASSUME RunInv, OpenInv, NEW r \in Runs, pc[r] = "observe"
  PROVE  \/ next[r] = 1 /\ Newest.kind = "assistant" /\ Newest.turn = turn[r]
         \/ Newest.kind = "result" /\ Newest.turn = turn[r] /\ Newest.call + 1 = next[r]
  <1>1. next[r] \in Nat \ {0}
    BY RunFacts DEF Batching
  <1>2. history \in Seq(Messages) /\ Len(history) \in Nat
    BY LenProperties, PlacesTyped DEF RunInv
  <1> DEFINE k == next[r] - 1
             l == Len(history)
  <1>3. /\ history[l - k] = Action(r, turn[r], Len(calls[r]))
        /\ \A j \in 1 .. k : history[l - k + j] = Result(r, turn[r], j)
    BY DEF OpenInv, EndsWith, Batching, Done
  <1>4. CASE k = 0
    <2>1. l - k = l
      BY <1>2, <1>4
    <2> QED
      BY <1>1, <1>3, <1>4, <2>1 DEF Newest, Action
  <1>5. CASE k # 0
    <2>1. k \in 1 .. k /\ l - k + k = l
      BY <1>1, <1>2, <1>5
    <2>2. Newest = Result(r, turn[r], k)
      BY <1>3, <2>1 DEF Newest
    <2> QED
      BY <1>1, <2>2 DEF Result
  <1> QED
    BY <1>4, <1>5

LEMMA ObserveSpeaks ==
  ASSUME RunInv, OpenInv, TailInv, NEW r \in Runs, Observe(r)
  PROVE  (Session!Observe \/ Session!Close) /\ TailInv'
  <1>1. /\ pc[r] = "observe" /\ pc[r] \in Busy /\ pc[r] \in Batching /\ pc[r] # "queued"
        /\ turn' = turn /\ calls' = calls
    BY DEF Observe, Busy, Batching
  <1>2. /\ lock = r /\ history \in Seq(Messages) /\ turn[r] \in Nat
        /\ Owed = Len(calls[r]) - (next[r] - 1) /\ pc \in [Runs -> Places]
    BY <1>1, HolderTail DEF Done
  <1>3. /\ next[r] \in 1 .. Len(calls[r]) /\ Len(calls[r]) \in Nat /\ next[r] \in 0 .. MaxCalls
        /\ next \in [Runs -> 1 .. MaxCalls + 1]
    BY <1>1, RunFacts, PlacesTyped, SessionAssumption DEF RunInv
  <1>4. CASE Leave(r, "failed") /\ history' = history
    <2>1. lock' = NoRun /\ poisoned' = poisoned /\ Goto(r, "failed") /\ "failed" \in Ended
      BY <1>4 DEF Leave, Ended
    <2> QED
      BY <1>1, <1>2, <1>4, <2>1, LeaveCloses
  <1>5. CASE /\ history' = Append(history, Result(r, turn[r], next[r]))
             /\ next' = [next EXCEPT ![r] = next[r] + 1]
             /\ IF next[r] = Len(calls[r]) THEN Goto(r, "remind") ELSE UNCHANGED pc
             /\ UNCHANGED << lock, poisoned >>
    <2> DEFINE x == IF next[r] = Len(calls[r]) THEN "remind" ELSE "observe"
    <2>1. Goto(r, x) /\ x # "queued" /\ pc'[r] = x
      BY <1>1, <1>2, <1>5 DEF Goto
    <2>2. Waiting' = Waiting
      BY <1>1, <2>1, WaitingStays
    <2>3. next'[r] = next[r] + 1
      BY <1>3, <1>5
    <2>4. Owed' = Len(calls[r]) - next[r]
      BY <1>1, <1>2, <1>3, <1>5, <2>1, <2>3 DEF Owed
    <2>5. Result(r, turn[r], next[r]) \in Messages
      BY <1>2, <1>3, MessagesTyped
    <2>6. Newest' = Result(r, turn[r], next[r])
      BY <1>2, <1>5, <2>5, SaidLast
    <2>7. TailInv'
      BY <1>1, <1>2, <1>5, <2>1, <2>6 DEF TailInv, Result
    <2>8. \/ next[r] = 1 /\ Newest.kind = "assistant" /\ Newest.turn = turn[r]
          \/ Newest.kind = "result" /\ Newest.turn = turn[r] /\ Newest.call + 1 = next[r]
      BY <1>1, BatchTail
    <2>9. Owed > 0 /\ Owed' = Owed - 1
      BY <1>2, <1>3, <2>4
    <2>10. \/ Session!Last.kind = "assistant" /\ Session!Say("result", lock, Session!Last.turn, 0, 1)
           \/ /\ Session!Last.kind = "result"
              /\ Session!Say("result", lock, Session!Last.turn, 0, Session!Last.call + 1)
      BY <1>2, <1>5, <2>8 DEF Session!Say, Session!Last, Newest, Result
    <2>11. Session!Observe
      BY <1>2, <1>5, <2>2, <2>9, <2>10, SessionAssumption DEF Session!Observe, Waiting
    <2> QED
      BY <2>7, <2>11
  <1> QED
    BY <1>4, <1>5 DEF Observe

LEMMA RemindSpeaks ==
  ASSUME RunInv, OpenInv, TailInv, NEW r \in Runs, Remind(r)
  PROVE  (Session!Remind \/ UNCHANGED Session!vars) /\ TailInv'
  <1>1. /\ pc[r] = "remind" /\ pc[r] \in Busy /\ pc[r] \notin Batching /\ pc[r] # "queued"
        /\ Goto(r, "turn") /\ turn' = [turn EXCEPT ![r] = @ + 1] /\ UNCHANGED << lock, poisoned >>
    BY DEF Remind, Busy, Batching
  <1>2. /\ lock = r /\ history \in Seq(Messages) /\ turn[r] \in Nat
        /\ turn \in [Runs -> 0 .. MaxTurns + 1] /\ pc \in [Runs -> Places]
        /\ Newest.kind = "result" /\ Newest.turn = turn[r] /\ Owed = 0
    BY <1>1, HolderTail
  <1>3. pc'[r] = "turn" /\ turn'[r] = turn[r] + 1
    BY <1>1, <1>2 DEF Goto
  <1>4. Owed' = 0 /\ Waiting' = Waiting
    BY <1>1, <1>2, <1>3, WaitingStays DEF Owed
  <1>5. CASE history' = history
    <2>1. Newest' = Newest
      BY <1>5 DEF Newest
    <2>2. TailInv'
      BY <1>1, <1>2, <1>3, <2>1 DEF TailInv, StartsAt
    <2> QED
      BY <1>1, <1>2, <1>4, <1>5, <2>2 DEF Session!vars, Waiting
  <1>6. CASE history' = Append(history, Reminder(r, turn[r]))
    <2>1. Reminder(r, turn[r]) \in Messages
      BY <1>2, MessagesTyped, SessionAssumption
    <2>2. Newest' = Reminder(r, turn[r])
      BY <1>2, <1>6, <2>1, SaidLast
    <2>3. TailInv'
      BY <1>1, <1>2, <1>3, <2>2 DEF TailInv, StartsAt, Reminder
    <2>4. Session!Remind
      BY <1>1, <1>2, <1>4, <1>6, SessionAssumption
      DEF Session!Remind, Session!Say, Session!Last, Newest, Waiting, Reminder
    <2> QED
      BY <2>3, <2>4
  <1> QED
    BY <1>5, <1>6 DEF Remind

LEMMA PanicCloses ==
  ASSUME RunInv, NEW r \in Runs, Panic(r)
  PROVE  Session!Close /\ TailInv'
  <1>1. pc[r] \in Busy
    BY DEF RunInv, HoldInv, Panic
  <1>2. /\ lock = r /\ Goto(r, "panicked") /\ "panicked" \in Ended /\ lock' = NoRun
        /\ poisoned' \in {poisoned, TRUE} /\ history' = history
    BY DEF Panic, Ended
  <1> QED
    BY <1>1, <1>2, LeaveCloses

\* Every step of a run is a step of the conversation, or silence.
LEMMA StepSpeaks ==
  RunInv /\ OpenInv /\ BlockInv /\ TailInv /\ [Next]_vars => [Session!Next]_(Session!vars) /\ TailInv'
  <1> SUFFICES ASSUME RunInv, OpenInv, BlockInv, TailInv, [Next]_vars
               PROVE  (Session!Next \/ UNCHANGED Session!vars) /\ TailInv'
    OBVIOUS
  <1>1. ASSUME NEW r \in Runs, Step(r)
        PROVE  (Session!Next \/ UNCHANGED Session!vars) /\ TailInv'
    <2>1. CASE Enter(r) \/ EnterPoisoned(r)
      BY <2>1, EnterSpeaks, EnterIsTurnedAway DEF Session!Next
    <2>2. CASE StartTurn(r) \/ Complete(r) \/ Announce(r)
      BY <2>2, TurnSpeaks DEF Session!Next
    <2>3. CASE Think(r)
      BY <2>3, ThinkSpeaks DEF Session!Next
    <2>4. CASE Act(r)
      BY <2>4, ActSpeaks DEF Session!Next
    <2>5. CASE BeginNext(r) \/ EndNext(r) \/ JoinAll(r)
      BY <2>5, ToolsAreSilent
    <2>6. CASE Observe(r)
      BY <2>6, ObserveSpeaks DEF Session!Next
    <2>7. CASE Remind(r)
      BY <2>7, RemindSpeaks DEF Session!Next
    <2> QED
      BY <1>1, <2>1, <2>2, <2>3, <2>4, <2>5, <2>6, <2>7 DEF Step
  <1>2. ASSUME NEW r \in Runs, Thread(r)
        PROVE  (Session!Next \/ UNCHANGED Session!vars) /\ TailInv'
    BY <1>2, ToolsAreSilent DEF Thread
  <1>3. ASSUME NEW r \in Runs, Panic(r)
        PROVE  (Session!Next \/ UNCHANGED Session!vars) /\ TailInv'
    BY <1>3, PanicCloses DEF Session!Next
  <1>4. CASE UNCHANGED vars
    BY <1>4 DEF vars, batchVars, Session!vars, Owed, TailInv, StartsAt, Newest
  <1> QED
    BY <1>1, <1>2, <1>3, <1>4 DEF Next

\* ReActSession implements Conversation: whatever runs share a session, however
\* they fail, their history is one conversation.
THEOREM ImplementsConversation == Spec => SessionSpec
  <1>1. Init => Session!Init /\ TailInv
    BY SessionAssumption DEF Init, Session!Init, TailInv, Owed
  <1>2. RunInv /\ OpenInv /\ BlockInv /\ TailInv /\ [Next]_vars
          => [Session!Next]_(Session!vars) /\ TailInv'
    BY StepSpeaks
  <1> QED
    BY <1>1, <1>2, RunInvariant, OpenInvariant, BlockInvariant, PTL
    DEF Spec, SessionSpec, Session!Spec
=============================================================================

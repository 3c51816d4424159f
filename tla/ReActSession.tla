----------------------------- MODULE ReActSession -----------------------------
(***************************************************************************)
(* The runs of one session: AgentEngine::run_session_with_reporter and its *)
(* tool batches (src/engine/mod.rs) on a shared Session                    *)
(* (src/memory/session.rs).                                                *)
(*                                                                         *)
(* Every message of a chat starts a run in a thread of its own, with an    *)
(* engine of its own; the runs share the session's history and take its    *)
(* run lock.  A step is one provider call, one reporter call that can fail *)
(* (with the assignments up to the next one), one start or end of a tool.  *)
(*                                                                         *)
(* A message is its place in the ReAct loop: which run and turn wrote it,  *)
(* for a result which call it answers.  Contents, the system prompt,       *)
(* compaction (it keeps one message per message) and tracing are left out. *)
(***************************************************************************)
EXTENDS Naturals, Sequences, FiniteSets

CONSTANTS
  Runs,           \* the runs of the session
  NoRun,          \* the owner of a free run lock
  MaxTurns,       \* RunOptions::max_turns
  MaxCalls,       \* bound: tool calls of one response
  Thinkers,       \* the runs whose RunOptions::enable_thinking is set
  ReporterFails,  \* TRUE: a report (a network call for Feishu) or the system prompt may fail
  Panics          \* TRUE: a tool or the reporter may panic in the run's thread

ASSUME SessionAssumption ==
  /\ NoRun \notin Runs
  /\ Thinkers \subseteq Runs
  /\ MaxTurns \in Nat
  /\ MaxCalls \in Nat
  /\ {ReporterFails, Panics} \subseteq BOOLEAN

VARIABLES
  history,   \* Session::history
  lock,      \* Session::run_lock: its holder
  poisoned,  \* a thread panicked while it held run_lock
  pc,        \* where each run is
  turn,      \* the loop variable of each run
  calls,     \* the access modes of the tool calls of the current response
  started,   \* the calls of the batch whose execution has begun
  results,   \* the calls of the batch whose execution has ended
  next       \* the next call to execute, or the next result to append

batchVars == << calls, started, results, next >>
vars == << history, lock, poisoned, pc, turn, batchVars >>

Modes == {"read", "write"}   \* ToolAccessMode; runtime commands count as write
Ended == {"done", "failed", "panicked"}

User(r) == [kind |-> "user", run |-> r, turn |-> 0, calls |-> 0, call |-> 0]
Thought(r, t) == [kind |-> "thinking", run |-> r, turn |-> t, calls |-> 0, call |-> 0]
Action(r, t, n) == [kind |-> "assistant", run |-> r, turn |-> t, calls |-> n, call |-> 0]
Result(r, t, k) == [kind |-> "result", run |-> r, turn |-> t, calls |-> 0, call |-> k]
Reminder(r, t) == [kind |-> "reminder", run |-> r, turn |-> t, calls |-> 0, call |-> 0]

Init ==
  /\ history = << >>
  /\ lock = NoRun
  /\ poisoned = FALSE
  /\ pc = [r \in Runs |-> "queued"]
  /\ turn = [r \in Runs |-> 0]
  /\ calls = [r \in Runs |-> << >>]
  /\ started = [r \in Runs |-> {}]
  /\ results = [r \in Runs |-> {}]
  /\ next = [r \in Runs |-> 1]

Goto(r, at) == pc' = [pc EXCEPT ![r] = at]

\* Mutant: the guard outlives the run.
LeaveLocked(r, at) == Goto(r, at) /\ UNCHANGED << lock, poisoned >>

\* The run returns: its guard is dropped.
Leave(r, at) == Goto(r, at) /\ lock' = NoRun /\ UNCHANGED poisoned

\* A report that can fail: the run goes on, or returns the error at once.
Reported(r, at) ==
  \/ Goto(r, at) /\ UNCHANGED << lock, poisoned >>
  \/ ReporterFails /\ Leave(r, "failed")

-----------------------------------------------------------------------------
\* Mutant: the user message is appended before the run lock is taken.
EnterUnlocked(r) ==
  /\ pc[r] = "queued"
  /\ history' = Append(history, User(r))
  /\ IF lock = NoRun THEN lock' = r /\ Goto(r, "turn") ELSE UNCHANGED << lock, pc >>
  /\ ~\E i \in DOMAIN history : history[i].run = r
  /\ turn' = [turn EXCEPT ![r] = 1]
  /\ UNCHANGED << poisoned, batchVars >>

\* Session::lock_run and the user message.
Enter(r) ==
  /\ pc[r] = "queued"
  /\ lock = NoRun
  /\ ~poisoned
  /\ lock' = r
  /\ history' = Append(history, User(r))
  /\ turn' = [turn EXCEPT ![r] = 1]
  /\ Goto(r, "turn")
  /\ UNCHANGED << poisoned, batchVars >>

\* lock_run expects an unpoisoned mutex: the run panics before it does anything.
EnterPoisoned(r) ==
  /\ pc[r] = "queued"
  /\ lock = NoRun
  /\ poisoned
  /\ Goto(r, "panicked")
  /\ UNCHANGED << history, lock, poisoned, turn, batchVars >>

\* Mutant: the turn limit is noticed one turn too late.
StartTurnLate(r) ==
  /\ pc[r] = "turn"
  /\ \/ turn[r] > MaxTurns + 1 /\ Leave(r, "failed")
     \/ turn[r] <= MaxTurns + 1 /\ Reported(r, IF r \in Thinkers THEN "think" ELSE "act")
  /\ UNCHANGED << history, turn, batchVars >>

\* The head of the loop: the turn limit, on_turn_start, the system prompt.
StartTurn(r) ==
  /\ pc[r] = "turn"
  /\ \/ turn[r] > MaxTurns /\ Leave(r, "failed")
     \/ turn[r] <= MaxTurns /\ Reported(r, IF r \in Thinkers THEN "think" ELSE "act")
  /\ UNCHANGED << history, turn, batchVars >>

\* Phase 1, without tools: an empty thought is not kept.
Think(r) ==
  /\ pc[r] = "think"
  /\ \/ UNCHANGED history /\ Reported(r, "act")
     \/ /\ history' = Append(history, Thought(r, turn[r]))
        /\ Goto(r, "act") /\ UNCHANGED << lock, poisoned >>
     \/ UNCHANGED history /\ Leave(r, "failed")      \* the provider fails
  /\ UNCHANGED << turn, batchVars >>

\* Phase 2: the response is kept before anything is done about its tool calls;
\* a failed call or a failed on_assistant_message keeps nothing.
Act(r) ==
  /\ pc[r] = "act"
  /\ \/ \E n \in 0 .. MaxCalls : \E c \in [1 .. n -> Modes] :
          /\ history' = Append(history, Action(r, turn[r], n))
          /\ calls' = [calls EXCEPT ![r] = c]
          /\ Goto(r, IF n = 0 THEN "complete" ELSE "announce")
          /\ UNCHANGED << lock, poisoned >>
     \/ UNCHANGED << history, calls >> /\ Leave(r, "failed")
  /\ started' = [started EXCEPT ![r] = {}]
  /\ results' = [results EXCEPT ![r] = {}]
  /\ next' = [next EXCEPT ![r] = 1]
  /\ UNCHANGED turn

Complete(r) ==
  /\ pc[r] = "complete"
  /\ \/ Leave(r, "done")
     \/ ReporterFails /\ Leave(r, "failed")
  /\ UNCHANGED << history, turn, batchVars >>

-----------------------------------------------------------------------------
(***************************************************************************)
(* The tool batch.                                                         *)
(***************************************************************************)

InParallel(c) == Len(c) > 1 /\ \A k \in DOMAIN c : c[k] = "read"

\* on_tool_calls, then on_parallel_tool_batch when the batch is parallel.
Announce(r) ==
  /\ pc[r] = "announce"
  /\ Reported(r, IF InParallel(calls[r]) THEN "parallel" ELSE "sequential")
  /\ UNCHANGED << history, turn, batchVars >>

Begin(r, k) ==
  /\ started' = [started EXCEPT ![r] = @ \cup {k}]
  /\ UNCHANGED << history, lock, poisoned, pc, turn, calls, results, next >>

BeginNext(r) == pc[r] = "sequential" /\ next[r] \notin started[r] /\ Begin(r, next[r])

\* One call after the other; a tool error is a result like any other.
EndNext(r) ==
  LET k == next[r] IN
  /\ pc[r] = "sequential"
  /\ k \in started[r]
  /\ results' = [results EXCEPT ![r] = @ \cup {k}]
  /\ IF k = Len(calls[r])
       THEN next' = [next EXCEPT ![r] = 1] /\ Goto(r, "observe")
       ELSE next' = [next EXCEPT ![r] = k + 1] /\ UNCHANGED pc
  /\ UNCHANGED << history, lock, poisoned, turn, calls, started >>

\* A scoped thread per call: they begin and end in any order, and one that
\* panics ends with an error result.
BeginThread(r, k) ==
  /\ pc[r] = "parallel"
  /\ k \in DOMAIN calls[r] \ started[r]
  /\ Begin(r, k)

EndThread(r, k) ==
  /\ pc[r] = "parallel"
  /\ k \in started[r] \ results[r]
  /\ results' = [results EXCEPT ![r] = @ \cup {k}]
  /\ UNCHANGED << history, lock, poisoned, pc, turn, calls, started, next >>

JoinAll(r) ==
  /\ pc[r] = "parallel"
  /\ results[r] = DOMAIN calls[r]
  /\ Goto(r, "observe")
  /\ UNCHANGED << history, lock, poisoned, turn, batchVars >>

\* Mutant: a result is appended as soon as it is there, in completion order.
ObserveAny(r) ==
  /\ pc[r] = "observe"
  /\ \E k \in results[r] :
       /\ ~\E i \in DOMAIN history : history[i] = Result(r, turn[r], k)
       /\ history' = Append(history, Result(r, turn[r], k))
  /\ next' = [next EXCEPT ![r] = @ + 1]
  /\ IF next[r] = Len(calls[r]) THEN Goto(r, "remind") ELSE UNCHANGED pc
  /\ UNCHANGED << lock, poisoned, turn, calls, started, results >>

\* Mutant: the last observation of a batch is left out.
ObserveShort(r) ==
  LET k == next[r] IN
  /\ pc[r] = "observe"
  /\ history' = IF k = Len(calls[r]) THEN history ELSE Append(history, Result(r, turn[r], k))
  /\ next' = [next EXCEPT ![r] = k + 1]
  /\ IF k = Len(calls[r]) THEN Goto(r, "remind") ELSE UNCHANGED pc
  /\ UNCHANGED << lock, poisoned, turn, calls, started, results >>

\* on_tool_result for one result, in call order, then its observation.
Observe(r) ==
  LET k == next[r] IN
  /\ pc[r] = "observe"
  /\ \/ /\ history' = Append(history, Result(r, turn[r], k))
        /\ next' = [next EXCEPT ![r] = k + 1]
        /\ IF k = Len(calls[r]) THEN Goto(r, "remind") ELSE UNCHANGED pc
        /\ UNCHANGED << lock, poisoned >>
     \/ ReporterFails /\ Leave(r, "failed") /\ UNCHANGED << history, next >>
  /\ UNCHANGED << turn, calls, started, results >>

\* ReminderManager::observe_tool_batch may add one message after the results.
Remind(r) ==
  /\ pc[r] = "remind"
  /\ history' \in {history, Append(history, Reminder(r, turn[r]))}
  /\ turn' = [turn EXCEPT ![r] = @ + 1]
  /\ Goto(r, "turn")
  /\ UNCHANGED << lock, poisoned, batchVars >>

\* A panic in the run's own thread (the reporter, the provider, a tool of a
\* sequential batch) unwinds through the guard, which poisons the lock.
Panic(r) ==
  /\ Panics
  /\ lock = r
  /\ pc[r] # "parallel"
  /\ Goto(r, "panicked")
  /\ lock' = NoRun
  /\ poisoned' = TRUE
  /\ UNCHANGED << history, turn, batchVars >>

-----------------------------------------------------------------------------
Step(r) ==
  \/ Enter(r) \/ EnterPoisoned(r) \/ StartTurn(r) \/ Think(r) \/ Act(r) \/ Complete(r)
  \/ Announce(r) \/ BeginNext(r) \/ EndNext(r) \/ JoinAll(r) \/ Observe(r) \/ Remind(r)

Thread(r) == \E k \in 1 .. MaxCalls : BeginThread(r, k) \/ EndThread(r, k)

Next == \E r \in Runs : Step(r) \/ Thread(r) \/ Panic(r)

\* Provider, tools and reporter return (they have timeouts) and threads are
\* scheduled.  The lock is free again and again while a run waits for it only
\* until the finitely many other runs have had it, so weak fairness is enough.
Fairness == \A r \in Runs : WF_vars(Step(r)) /\ WF_vars(Thread(r))

Spec == Init /\ [][Next]_vars
FairSpec == Spec /\ Fairness

-----------------------------------------------------------------------------
Messages ==
  [kind : {"user", "thinking", "assistant", "result", "reminder"}, run : Runs,
   turn : Nat, calls : 0 .. MaxCalls, call : 0 .. MaxCalls]

TypeOK ==
  /\ history \in Seq(Messages)
  /\ lock \in Runs \cup {NoRun}
  /\ poisoned \in BOOLEAN
  /\ pc \in [Runs -> {"queued", "turn", "think", "act", "complete", "announce", "sequential",
                      "parallel", "observe", "remind"} \cup Ended]
  /\ turn \in [Runs -> 0 .. MaxTurns + 1]
  /\ \A r \in Runs : calls[r] \in Seq(Modes) /\ Len(calls[r]) <= MaxCalls
  /\ started \in [Runs -> SUBSET (1 .. MaxCalls)]
  /\ results \in [Runs -> SUBSET (1 .. MaxCalls)]
  /\ next \in [Runs -> 1 .. MaxCalls + 1]

\* Two runs of a session never interleave their messages: what a run wrote is
\* one block of the history (the comment on Session::run_lock).
RunsDoNotInterleave ==
  \A i, k \in DOMAIN history : i < k /\ history[i].run = history[k].run =>
    \A j \in i .. k : history[j].run = history[i].run

\* Every observation stands where its call put it: results follow their response
\* without gaps and in call order, however the threads of the batch finish.
ResultsFollowTheirCalls ==
  \A i \in DOMAIN history : history[i].kind = "result" =>
    /\ history[i].call < i
    /\ LET a == history[i - history[i].call] IN
         /\ a.kind = "assistant"
         /\ a.run = history[i].run
         /\ a.turn = history[i].turn
         /\ a.calls >= history[i].call

Answered(h) ==
  \A i \in DOMAIN h : h[i].kind = "assistant" =>
    \A k \in 1 .. h[i].calls :
      i + k \in DOMAIN h /\ h[i + k] = Result(h[i].run, h[i].turn, k)

\* As long as no run of the session has failed or panicked, a request to the
\* provider never shows a tool call without its observation.
CalmRequestsAreAnswered ==
  (\A q \in Runs : pc[q] \notin {"failed", "panicked"}) =>
    \A r \in Runs : pc[r] \in {"think", "act"} => Answered(history)

\* The observations the run with the lock still owes to the response it has kept.
Owed ==
  IF \E r \in Runs : lock = r /\ pc[r] \in {"announce", "sequential", "parallel", "observe"}
    THEN Len(calls[lock]) - (IF pc[lock] = "observe" THEN next[lock] - 1 ELSE 0)
    ELSE 0

Session == INSTANCE Conversation WITH
  Nobody <- NoRun, log <- history, waiting <- {r \in Runs : pc[r] = "queued"},
  speaker <- lock, owed <- Owed, broken <- poisoned

\* The runs that share the history are one conversation: no run speaks into the
\* block of another, observations follow their response without a gap and in call
\* order however the threads of a batch finish, a turn has one response, no turn is
\* taken beyond the limit, and nothing is said after a run has left.
SessionSpec == Session!Spec

\* Every run returns: it waits for the lock, for tools and for nothing else.
EveryRunEnds == \A r \in Runs : pc[r] = "queued" ~> pc[r] \in Ended
-----------------------------------------------------------------------------
\* What a comment says and the code does not do (run_session_with_reporter:
\* "assistant action, then result"): no request at all shows a tool call without
\* its observation, whatever happened to the runs before.
RequestsAreAnswered == \A r \in Runs : pc[r] \in {"think", "act"} => Answered(history)
=============================================================================

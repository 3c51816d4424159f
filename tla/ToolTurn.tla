------------------------------- MODULE ToolTurn -------------------------------
(***************************************************************************)
(* The tool batches of one run, call by call: the dispatch of the engine   *)
(* (execute_one_action and execute_one_tool, src/engine/mod.rs), the tool   *)
(* registry with its middlewares (src/tools/registry.rs, app.rs), the rules *)
(* of the policy (src/tools/permission.rs), the counters of the telemetry  *)
(* middleware, the error codes of the recovery manager and the reminder    *)
(* manager (src/context_engine/).  A bash call runs through Bash; how a    *)
(* human answers is Approval; how the calls of a parallel batch interleave *)
(* is ReActSession: here each call is one step, in the order of the batch. *)
(***************************************************************************)
EXTENDS Bash, Sequences, FiniteSets, SequencesExt

CONSTANTS
  Calls,        \* what a model may ask for: tool and normalized arguments
  Tool,         \* the tool of each call
  Words,        \* the patterns that the checked argument of each call contains
  Registered,   \* the tools of the registry
  Commands,     \* the runtime commands
  ReadOnly,     \* the registered tools that only read (access_mode): not bash
  Rules,        \* the rules of the policy, in order; << >> outside Feishu
  RawErrors,    \* what the execution of each tool can fail with
  Batches,      \* bound: the batches a model may answer with
  MaxTurns,     \* bound: batches of the run
  BashTurns     \* bound: batches in which a command may start

Decisions == {"Allow", "Ask", "Deny"}

ASSUME ToolTurnAssumption ==
  /\ Batches \subseteq Seq(Calls) \ {<< >>}
  /\ MaxTurns \in Nat /\ BashTurns \in Nat
  /\ ReadOnly \subseteq Registered
  /\ Registered \cap Commands = {}
  /\ "bash" \notin ReadOnly

SAME_FINGERPRINT_THRESHOLD == 3
SAME_ERROR_CODE_THRESHOLD == 3
CONSECUTIVE_ERROR_CALL_THRESHOLD == 4
CONSECUTIVE_ERROR_TURN_THRESHOLD == 3
REMINDER_COOLDOWN_TURNS == 2

NoStreak == [value |-> << >>, count |-> 0]

Fresh == [calls |-> 0, turns |-> 0, fingerprint |-> NoStreak, code |-> NoStreak, cooldown |-> 0]

VARIABLES
  turn,       \* batches so far
  todo,       \* the calls of the batch not yet executed
  results,    \* the results of the batch
  waiting,    \* a human is asked about the first call of todo
  telemetry,  \* what the batch has added to the tool counters of Telemetry
  reminders,  \* ReminderManager
  said,       \* the reminder of the last batch
  executed,   \* history: executions of a tool that the batch has begun
  panics,     \* history: those of them that panicked
  failures,   \* history: the failing batches since the last progress
  silence     \* history: failing batches since the last reminder; 1 without one

turnVars == << turn, todo, results, waiting, telemetry, reminders, said,
               executed, panics, failures, silence >>
vars == << bashVars, turnVars >>

NoReminder == [reason |-> "none", count |-> 0]

Init ==
  /\ BashIdle
  /\ turn = 0
  /\ todo = << >>
  /\ results = << >>
  /\ waiting = FALSE
  /\ telemetry = [calls |-> 0, failed |-> 0]
  /\ reminders = Fresh
  /\ said = NoReminder
  /\ executed = 0
  /\ panics = 0
  /\ failures = << >>
  /\ silence = 1

-----------------------------------------------------------------------------
(***************************************************************************)
(* Pure parts: the policy, the error codes, the reminders.                 *)
(***************************************************************************)

\* TextPattern::matches; the argument is known by the patterns it contains.
Matches(rule, c) ==
  /\ rule.tool = Tool[c]
  /\ IF rule.how = "All" THEN rule.words \subseteq Words[c] ELSE rule.words \cap Words[c] # {}

\* RuleBasedToolPolicy::decide: the first rule that matches.
Decide(c) ==
  LET hits == {i \in DOMAIN Rules : Matches(Rules[i], c)} IN
  IF hits = {} THEN "Allow" ELSE Rules[CHOOSE i \in hits : \A k \in hits : i <= k].decision

\* RecoveryManager::analyze.  The code depends on the tool as well as on the text.
Analyze(tool, raw) ==
  CASE raw = "missing argument" -> "MISSING_ARGUMENT"
    [] raw = "not registered" -> "UNKNOWN_TOOL"
    [] tool = "edit_file" /\ raw = "text not found" -> "EDIT_TEXT_NOT_FOUND"
    [] tool = "edit_file" /\ raw = "text ambiguous" -> "EDIT_TEXT_AMBIGUOUS"
    [] tool \in {"edit_file", "read_file", "write_file"} /\ raw = "no such file" -> "FILE_NOT_FOUND"
    [] tool \in {"edit_file", "read_file", "write_file"} /\ raw = "no permission" -> "PERMISSION_DENIED"
    [] OTHER -> "UNKNOWN_TOOL_ERROR"

Ok(c) == [call |-> c, ok |-> TRUE, code |-> "none"]

\* execute_one_tool renders an error of the registry; extract_error_code reads it back.
Error(c, raw) == [call |-> c, ok |-> FALSE, code |-> Analyze(Tool[c], raw)]

\* Errors of the supervisor and of a panicked thread are not rendered.
BareError(c) == [call |-> c, ok |-> FALSE, code |-> "UNKNOWN_TOOL_ERROR"]

\* Mutant: another value continues the streak.
ObserveLoosely(streak, v) == [value |-> v, count |-> streak.count + 1]

\* Streak::observe.
Observe(streak, v) ==
  [value |-> v, count |-> IF streak.value = v /\ streak.count > 0 THEN streak.count + 1 ELSE 1]

\* One call of a failing batch: both streaks, and the reason they give, if any.
\* normalized_fingerprint: Calls are tools with normalized arguments.
Fingerprint(r) == << r.call, r.code >>

ObserveCall(s, r) ==
  LET fingerprint == Observe(s.fingerprint, Fingerprint(r))
      code == Observe(s.code, << r.code >>)
  IN [fingerprint |-> fingerprint,
      code |-> code,
      reason |->
        CASE fingerprint.count >= SAME_FINGERPRINT_THRESHOLD ->
               [reason |-> "RepeatedSimilarCall", count |-> fingerprint.count]
          [] fingerprint.count < SAME_FINGERPRINT_THRESHOLD
             /\ code.count >= SAME_ERROR_CODE_THRESHOLD ->
               [reason |-> "RepeatedErrorCode", count |-> code.count]
          [] OTHER -> s.reason]

\* The reason of a failing batch, when the calls give none: turns before calls.
Strongest(reason, turns, calls) ==
  CASE reason # NoReminder -> reason
    [] reason = NoReminder /\ turns >= CONSECUTIVE_ERROR_TURN_THRESHOLD ->
         [reason |-> "ConsecutiveErrorTurns", count |-> turns]
    [] reason = NoReminder /\ turns < CONSECUTIVE_ERROR_TURN_THRESHOLD
       /\ calls >= CONSECUTIVE_ERROR_CALL_THRESHOLD ->
         [reason |-> "ConsecutiveErrorCalls", count |-> calls]
    [] OTHER -> NoReminder

\* Mutant: the cooldown is counted below zero.
CooledBelow(n) == n - 1

Cooled(n) == IF n > 0 THEN n - 1 ELSE 0

\* Mutant: the cooldown is looked at before it is counted down.
MaySpeakLate(m) == m.cooldown = 0

MaySpeak(m) == Cooled(m.cooldown) = 0

\* observe_tool_batch, when every result is an error.
AfterFailures(m, batch) ==
  LET s == FoldLeft(ObserveCall,
             [fingerprint |-> m.fingerprint, code |-> m.code, reason |-> NoReminder], batch)
      turns == m.turns + 1
      calls == m.calls + Len(batch)
      reason == Strongest(s.reason, turns, calls)
      speak == MaySpeak(m) /\ reason # NoReminder
  IN [manager |-> [calls |-> calls, turns |-> turns, fingerprint |-> s.fingerprint, code |-> s.code,
                   cooldown |-> IF speak THEN REMINDER_COOLDOWN_TURNS ELSE Cooled(m.cooldown)],
      said |-> IF speak THEN reason ELSE NoReminder]

-----------------------------------------------------------------------------
(***************************************************************************)
(* The batches.                                                            *)
(***************************************************************************)

\* The response of the model.
StartBatch ==
  /\ todo = << >> /\ results = << >>
  /\ turn < MaxTurns
  /\ turn' = turn + 1
  /\ todo' \in Batches
  /\ said' = NoReminder
  /\ telemetry' = [calls |-> 0, failed |-> 0]
  /\ executed' = 0
  /\ panics' = 0
  /\ UNCHANGED << bashVars, results, waiting, reminders, failures, silence >>

First == Head(todo)
FirstTool == Tool[First]
InBatch == {results[i].call : i \in DOMAIN results} \cup {todo[i] : i \in DOMAIN todo}

\* The result of the first call of todo.
Give(r) ==
  /\ results' = Append(results, r)
  /\ todo' = Tail(todo)
  /\ waiting' = FALSE
  /\ UNCHANGED << turn, reminders, said, failures, silence >>

\* TelemetryToolMiddleware::after_execute.
Counted(ok) == [calls |-> telemetry.calls + 1,
                failed |-> telemetry.failed + (IF ok THEN 0 ELSE 1)]

Record(r) == telemetry' = Counted(r.ok)

\* A runtime command goes to the supervisor, before the registry.
RuntimeCommand ==
  /\ todo # << >>
  /\ FirstTool \in Commands
  /\ \E r \in {Ok(First), BareError(First)} : Give(r)
  /\ UNCHANGED << bashVars, telemetry, executed, panics >>

UnknownTool ==
  /\ todo # << >>
  /\ FirstTool \notin Commands \cup Registered
  /\ Give(Error(First, "not registered"))
  /\ UNCHANGED << bashVars, telemetry, executed, panics >>

\* Mutant: after_execute is called for a refused call too.
DenyRecorded ==
  /\ todo # << >> /\ ~waiting
  /\ FirstTool \in Registered /\ Decide(First) = "Deny"
  /\ Give(Error(First, "denied"))
  /\ Record(Error(First, "denied"))
  /\ UNCHANGED << bashVars, executed, panics >>

\* before_execute of the policy middleware gives a result: nothing is executed.
Deny ==
  /\ todo # << >> /\ ~waiting
  /\ FirstTool \in Registered /\ Decide(First) = "Deny"
  /\ Give(Error(First, "denied"))
  /\ UNCHANGED << bashVars, telemetry, executed, panics >>

Ask ==
  /\ todo # << >> /\ ~waiting /\ poller = "idle"
  /\ FirstTool \in Registered /\ Decide(First) = "Ask"
  /\ waiting' = TRUE
  /\ UNCHANGED << bashVars, turn, todo, results, telemetry, reminders, said, executed, panics,
                  failures, silence >>

\* wait_for_tool_approval returns a rejection, a timeout or an error.
Refused ==
  /\ todo # << >> /\ waiting /\ poller = "idle"
  /\ Give(Error(First, "rejected"))
  /\ UNCHANGED << bashVars, telemetry, executed, panics >>

\* Every middleware has let the call through.
Cleared == FirstTool \in Registered /\ (Decide(First) = "Allow" \/ waiting)

\* A tool other than bash: one step, as its file or search.
ExecuteTool ==
  /\ todo # << >>
  /\ Cleared /\ FirstTool # "bash"
  /\ \E r \in {Ok(First)} \cup {Error(First, raw) : raw \in RawErrors[FirstTool]} :
       Give(r) /\ Record(r)
  /\ executed' = executed + 1
  /\ UNCHANGED << bashVars, panics >>

\* A tool panics in a thread of a parallel batch: no after_execute, a bare error.
\* (In a sequential batch it takes the run along: see ReActSession.)
ToolPanics ==
  /\ todo # << >>
  /\ Cleared /\ Len(todo) + Len(results) > 1
  /\ \A c \in InBatch : Tool[c] \in ReadOnly
  /\ Give(BareError(First))
  /\ executed' = executed + 1
  /\ panics' = panics + 1
  /\ UNCHANGED << bashVars, telemetry >>

StartBash ==
  /\ todo # << >>
  /\ Cleared /\ FirstTool = "bash"
  /\ turn <= BashTurns
  /\ Spawn
  /\ executed' = executed + 1
  /\ UNCHANGED << turn, todo, results, waiting, telemetry, reminders, said, panics,
                  failures, silence >>

\* The argument is missing or spawn fails.
StartBashFails ==
  /\ todo # << >>
  /\ Cleared /\ FirstTool = "bash" /\ poller = "idle"
  /\ \E raw \in RawErrors["bash"] : Give(Error(First, raw)) /\ Record(Error(First, raw))
  /\ executed' = executed + 1
  /\ UNCHANGED << bashVars, panics >>

\* A command that exits with any status or is terminated is not a tool error.
EndBash ==
  /\ poller \in {"done", "done_late", "done_unread", "failed"}
  /\ LET r == IF poller = "failed" THEN Error(First, "wait failed") ELSE Ok(First)
     IN Give(r) /\ Record(r)
  /\ BashReset
  /\ UNCHANGED << executed, panics >>

\* observe_tool_batch: one result that is not an error resets everything.
ObserveBatch ==
  /\ todo = << >> /\ results # << >>
  /\ results' = << >>
  /\ IF \E i \in DOMAIN results : results[i].ok
       THEN /\ reminders' = Fresh
            /\ said' = NoReminder
            /\ failures' = << >>
            /\ silence' = 1
       ELSE LET after == AfterFailures(reminders, results) IN
            /\ reminders' = after.manager
            /\ said' = after.said
            /\ failures' = Append(failures, results)
            /\ silence' = IF after.said # NoReminder THEN 0 ELSE silence + 1
  /\ UNCHANGED << bashVars, turn, todo, waiting, telemetry, executed, panics >>

Running == poller # "idle"

Dispatch ==
  \/ RuntimeCommand \/ UnknownTool \/ Deny \/ Ask \/ Refused
  \/ ExecuteTool \/ ToolPanics \/ StartBash \/ StartBashFails

Next ==
  \/ StartBatch \/ Dispatch \/ EndBash \/ ObserveBatch
  \/ (Processes \/ Execute) /\ UNCHANGED turnVars

Spec == Init /\ [][Next]_vars

\* Processes are scheduled and time passes; the tool polls and reads.
Fairness ==
  /\ WF_vars((ShellWrites \/ ShellExits) /\ UNCHANGED turnVars)
  /\ WF_vars(BackgroundEnds /\ UNCHANGED turnVars)
  /\ WF_vars(TimeoutPasses /\ UNCHANGED turnVars)
  /\ WF_vars((Poll \/ Kill \/ ReadOutput \/ ReadEnd) /\ UNCHANGED turnVars)
  /\ WF_vars(EndBash)

FairSpec == Spec /\ Fairness

-----------------------------------------------------------------------------
TypeOK ==
  /\ BashTypeOK
  /\ turn \in 0 .. MaxTurns
  /\ [i \in DOMAIN results |-> results[i].call] \o todo \in Batches \cup {<< >>}
  /\ waiting \in BOOLEAN
  /\ reminders.cooldown \in 0 .. REMINDER_COOLDOWN_TURNS
  /\ reminders.turns <= turn
  /\ telemetry.failed <= telemetry.calls

\* The counters hold exactly the executions that came back: not the refused, the
\* unknown and the runtime calls, whatever the path that refused them
\* (execute_with_trace, TelemetryToolMiddleware).
CountsAreExecutions ==
  telemetry.calls + panics + (IF Running THEN 1 ELSE 0) = executed

Code(r) == r.code

\* The last batch has a call at which n failing results in a row are alike.
AlikeInARow(n, View(_)) ==
  LET flat == FlattenSeq(failures) IN
  \E k \in DOMAIN flat :
    /\ k > Len(flat) - Len(Last(failures))
    /\ n <= k
    /\ \A i \in (k - n + 1) .. k : View(flat[i]) = View(flat[k])

\* What a reminder tells the model is so: a streak of that length ends in this
\* batch, or that many calls or turns have failed since the last progress
\* (ReminderManager::observe_tool_batch).
ReminderTellsTheTruth ==
  /\ said.reason = "RepeatedSimilarCall" => AlikeInARow(said.count, Fingerprint)
  /\ said.reason = "RepeatedErrorCode" => AlikeInARow(said.count, Code)
  /\ said.reason = "ConsecutiveErrorTurns" => said.count = Len(failures)
  /\ said.reason = "ConsecutiveErrorCalls" => said.count = Len(FlattenSeq(failures))

\* A model that fails three turns in a row is reminded, and again at every second
\* failing turn, for as long as nothing succeeds.
StormIsNoticed == Len(failures) >= CONSECUTIVE_ERROR_TURN_THRESHOLD => silence <= 1

\* A command ends, also one that would run for ever, unless it leaves behind a
\* process that holds its output open and never ends.
BashEnds == poller = "poll" /\ background # "stays" ~> poller = "idle"
=============================================================================

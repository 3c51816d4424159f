------------------------------ MODULE Supervisor ------------------------------
(***************************************************************************)
(* The subagent supervisor, src/agent_runtime/supervisor.rs.               *)
(*                                                                         *)
(* Callers (the parent run; any holder of a clone of the supervisor)       *)
(* delegate, query, join and cancel subagents.  Every subagent runs in a   *)
(* std::thread of its own, writes its record under                         *)
(* .tiny-claw/agents/<agent_id>/ and publishes a status.  A step is one    *)
(* critical section, one disk write or one blocking call.                  *)
(*                                                                         *)
(* The text of reports and errors is left out: a report is either present  *)
(* (and not blank) or absent.  The process may exit at any moment and be   *)
(* started again on the same workspace, MaxRestarts times.                 *)
(***************************************************************************)
EXTENDS Naturals, Sequences

CONSTANTS
  Callers,      \* threads that hold a clone of the supervisor
  MaxAgents,    \* bound: delegations accepted by one process
  MaxTurns,     \* RunOptions::max_turns of the subagent's engine
  MaxRestarts,  \* bound: times the process is started again
  Panics,       \* TRUE: the subagent's run may panic
  DiskFaults    \* the files of a record whose writes may fail (the code ignores it)

ASSUME SupervisorAssumption ==
  /\ MaxAgents \in Nat
  /\ MaxTurns \in Nat
  /\ MaxRestarts \in Nat
  /\ Panics \in BOOLEAN

ASSUME DiskAssumption == DiskFaults \subseteq {"events", "history", "report"}

VARIABLES
  epoch,      \* which process of this workspace is running
  nextId,     \* SupervisorInner::next_id
  table,      \* keys of SupervisorInner::agents
  status,     \* AgentRunStatus::status
  report,     \* AgentRunStatus::report is Some
  cancelled,  \* AgentRecord::cancel_requested
  handle,     \* AgentRecord::join: "none", "held" (Some) or "taken" (None)
  thread,     \* where the subagent's thread is
  verdict,    \* the status the thread is about to publish
  turns,      \* turns the subagent's engine has started
  caller,     \* what each caller is doing
  answer,     \* the last result each caller received
  dir,        \* the files under .tiny-claw/agents/<agent_id>/
  ackedAt     \* history: where the thread was when cancel first answered Cancelled

vars == << epoch, nextId, table, status, report, cancelled, handle, thread, verdict,
           turns, caller, answer, ackedAt, dir >>

Ids == 1 .. MaxAgents
Epochs == 0 .. MaxRestarts
Terminal == {"Completed", "Failed", "Cancelled"}
Events == {"spawned", "Completed", "Failed", "Cancelled"}

\* The program points of run_agent_thread between two shared accesses.
Points == {"start", "check_start", "provider", "running", "persist", "check_end",
           "write_report", "record", "publish"}
Ended == {"done", "panicked"}

Values == Terminal \cup {"Running", "handle", "rejected", "unknown", "report",
                         "agent failed", "agent panicked", "agent was cancelled",
                         "agent is still running", "empty report"}

Operations == {"none", "delegate", "status", "join", "cancel"}
CallerStates == [at : {"idle", "insert", "wait", "read", "cancel"},
                 agent : Ids \cup {0}, owned : BOOLEAN]
Answers == [op : Operations, agent : Ids \cup {0}, value : Values, owned : BOOLEAN]
Records == [events : Seq(Events), history : SUBSET Epochs, report : SUBSET Epochs]

NoAnswer == [op |-> "none", agent |-> 0, value |-> "rejected", owned |-> FALSE]
Idle == [at |-> "idle", agent |-> 0, owned |-> FALSE]

Init ==
  /\ epoch = 0
  /\ dir = [a \in Ids |-> [events |-> << >>, history |-> {}, report |-> {}]]
  /\ nextId = 1
  /\ table = {}
  /\ status = [a \in Ids |-> "absent"]
  /\ report = [a \in Ids |-> FALSE]
  /\ cancelled = [a \in Ids |-> FALSE]
  /\ handle = [a \in Ids |-> "none"]
  /\ thread = [a \in Ids |-> "absent"]
  /\ verdict = [a \in Ids |-> "Running"]
  /\ turns = [a \in Ids |-> 0]
  /\ caller = [c \in Callers |-> Idle]
  /\ answer = [c \in Callers |-> NoAnswer]
  /\ ackedAt = [a \in Ids |-> "never"]

-----------------------------------------------------------------------------
(***************************************************************************)
(* The subagent's thread.                                                  *)
(***************************************************************************)

callerVars == << nextId, table, cancelled, handle, caller, answer, ackedAt >>

Goto(a, at) == thread' = [thread EXCEPT ![a] = at]

Conclude(a, v, at) ==
  /\ Goto(a, at)
  /\ verdict' = [verdict EXCEPT ![a] = v]

\* A write whose error the code drops (let _ = ...).
Write(a, file, files) ==
  \/ dir' = [dir EXCEPT ![a] = files]
  \/ file \in DiskFaults /\ dir' = dir

Event(a, e) == Write(a, "events", [dir[a] EXCEPT !.events = Append(@, e)])

Start(a) ==
  /\ thread[a] = "start"
  /\ Event(a, "spawned")
  /\ Goto(a, "check_start")
  /\ UNCHANGED << epoch, status, report, verdict, turns, callerVars >>

CheckStart(a) ==
  /\ thread[a] = "check_start"
  /\ \/ cancelled[a] /\ Conclude(a, "Cancelled", "record")
     \/ ~cancelled[a] /\ Goto(a, "provider") /\ UNCHANGED verdict
  /\ UNCHANGED << epoch, status, report, turns, dir, callerVars >>

\* Mutant: a provider that cannot be created ends the thread without a status.
CreateProviderSilently(a) ==
  /\ thread[a] = "provider"
  /\ Goto(a, "running") \/ Goto(a, "done")
  /\ UNCHANGED << epoch, status, report, verdict, turns, dir, callerVars >>

CreateProvider(a) ==
  /\ thread[a] = "provider"
  /\ \/ Goto(a, "running") /\ UNCHANGED verdict
     \/ Conclude(a, "Failed", "record")
  /\ UNCHANGED << epoch, status, report, turns, dir, callerVars >>

\* Mutant: the loop of the engine runs one turn too many.
TurnPastTheLimit(a) ==
  /\ thread[a] = "running"
  /\ turns[a] <= MaxTurns
  /\ turns' = [turns EXCEPT ![a] = @ + 1]
  /\ UNCHANGED << epoch, thread, verdict, status, report, dir, callerVars >>

\* One turn of engine.run_session: the model asks for tools, answers with a
\* report, answers with nothing, or the turn fails.  No turn reads cancelled.
Turn(a) ==
  /\ thread[a] = "running"
  /\ turns[a] < MaxTurns
  /\ turns' = [turns EXCEPT ![a] = @ + 1]
  /\ \/ UNCHANGED << thread, verdict >>
     \/ \E v \in {"Completed", "Failed"} : Conclude(a, v, "persist")
  /\ UNCHANGED << epoch, status, report, dir, callerVars >>

TurnLimit(a) ==
  /\ thread[a] = "running"
  /\ turns[a] = MaxTurns
  /\ Conclude(a, "Failed", "persist")
  /\ UNCHANGED << epoch, status, report, turns, dir, callerVars >>

PersistHistory(a) ==
  /\ thread[a] = "persist"
  /\ Write(a, "history", [dir[a] EXCEPT !.history = @ \cup {epoch}])
  /\ Goto(a, "check_end")
  /\ UNCHANGED << epoch, status, report, verdict, turns, callerVars >>

\* Mutant: the second look at the flag is forgotten.
CheckEndForgotten(a) ==
  /\ thread[a] = "check_end"
  /\ Goto(a, IF verdict[a] = "Completed" THEN "write_report" ELSE "record")
  /\ UNCHANGED << epoch, status, report, verdict, turns, dir, callerVars >>

CheckEnd(a) ==
  /\ thread[a] = "check_end"
  /\ \/ /\ cancelled[a]
        /\ Conclude(a, "Cancelled", "record")
     \/ /\ ~cancelled[a]
        /\ Goto(a, IF verdict[a] = "Completed" THEN "write_report" ELSE "record")
        /\ UNCHANGED verdict
  /\ UNCHANGED << epoch, status, report, turns, dir, callerVars >>

\* Mutant: the status is set as soon as report.md is written, before the event.
PublishWithReport(a) ==
  /\ thread[a] = "write_report"
  /\ Write(a, "report", [dir[a] EXCEPT !.report = {epoch}])
  /\ Goto(a, "record")
  /\ status' = [status EXCEPT ![a] = verdict[a]]
  /\ report' = [report EXCEPT ![a] = TRUE]
  /\ UNCHANGED << epoch, verdict, turns, callerVars >>

WriteReport(a) ==
  /\ thread[a] = "write_report"
  /\ Write(a, "report", [dir[a] EXCEPT !.report = {epoch}])
  /\ Goto(a, "record")
  /\ UNCHANGED << epoch, status, report, verdict, turns, callerVars >>

RecordEnd(a) ==
  /\ thread[a] = "record"
  /\ Event(a, verdict[a])
  /\ Goto(a, "publish")
  /\ UNCHANGED << epoch, status, report, verdict, turns, callerVars >>

Publish(a) ==
  /\ thread[a] = "publish"
  /\ status' = [status EXCEPT ![a] = verdict[a]]
  /\ report' = [report EXCEPT ![a] = @ \/ verdict[a] = "Completed"]
  /\ Goto(a, "done")
  /\ UNCHANGED << epoch, verdict, turns, dir, callerVars >>

\* A panic of the engine, a tool or the reporter unwinds the whole thread: the
\* status is never written.
Panic(a) ==
  /\ Panics
  /\ thread[a] = "running"
  /\ Goto(a, "panicked")
  /\ UNCHANGED << epoch, status, report, verdict, turns, dir, callerVars >>

Work(a) ==
  \/ Start(a) \/ CheckStart(a) \/ CreateProvider(a) \/ Turn(a) \/ TurnLimit(a)
  \/ PersistHistory(a) \/ CheckEnd(a) \/ WriteReport(a) \/ RecordEnd(a) \/ Publish(a)

-----------------------------------------------------------------------------
(***************************************************************************)
(* The callers.  The agents mutex is held across two steps only by cancel, *)
(* so a caller at "cancel" is its holder.                                  *)
(***************************************************************************)

threadVars == << epoch, turns, verdict, dir >>

LockFree == \A c \in Callers : caller[c].at # "cancel"

Reply(c, op, a, value, owned) ==
  answer' = [answer EXCEPT ![c] = [op |-> op, agent |-> a, value |-> value, owned |-> owned]]

Wait(c, at, a, owned) ==
  caller' = [caller EXCEPT ![c] = [at |-> at, agent |-> a, owned |-> owned]]

\* A request whose template, override or tool profile is refused: no id is
\* taken, no thread is started, no record is created.
DelegateRefused(c) ==
  /\ caller[c] = Idle
  /\ Reply(c, "delegate", 0, "rejected", FALSE)
  /\ UNCHANGED << threadVars, nextId, table, status, report, cancelled, handle, thread,
                  caller, ackedAt >>

\* The thread is started before the record is in the table.
DelegateSpawn(c) ==
  /\ caller[c] = Idle
  /\ nextId \in Ids
  /\ nextId' = nextId + 1
  /\ status' = [status EXCEPT ![nextId] = "Running"]
  /\ Goto(nextId, "start")
  /\ Wait(c, "insert", nextId, FALSE)
  /\ UNCHANGED << threadVars, table, report, cancelled, handle, answer, ackedAt >>

DelegateInsert(c) ==
  LET a == caller[c].agent IN
  /\ caller[c].at = "insert"
  /\ LockFree
  /\ table' = table \cup {a}
  /\ handle' = [handle EXCEPT ![a] = "held"]
  /\ caller' = [caller EXCEPT ![c] = Idle]
  /\ Reply(c, "delegate", a, "handle", FALSE)
  /\ UNCHANGED << threadVars, nextId, status, report, cancelled, thread, ackedAt >>

UnknownAgent(c, a) ==
  /\ caller[c] = Idle
  /\ LockFree
  /\ a \notin table
  /\ \E op \in {"status", "join", "cancel"} : Reply(c, op, a, "unknown", FALSE)
  /\ UNCHANGED << threadVars, nextId, table, status, report, cancelled, handle, thread,
                  caller, ackedAt >>

Status(c, a) ==
  /\ caller[c] = Idle
  /\ LockFree
  /\ a \in table
  /\ Reply(c, "status", a, status[a], FALSE)
  /\ UNCHANGED << threadVars, nextId, table, status, report, cancelled, handle, thread,
                  caller, ackedAt >>

\* Mutant: the handle stays in the record and the join does not wait for it.
JoinTakeNothing(c, a) ==
  /\ caller[c] = Idle
  /\ LockFree
  /\ a \in table
  /\ Wait(c, "read", a, handle[a] = "held")
  /\ UNCHANGED << threadVars, nextId, table, status, report, cancelled, handle, thread,
                  answer, ackedAt >>

JoinTake(c, a) ==
  /\ caller[c] = Idle
  /\ LockFree
  /\ a \in table
  /\ handle' = [handle EXCEPT ![a] = "taken"]
  /\ IF handle[a] = "held" THEN Wait(c, "wait", a, TRUE) ELSE Wait(c, "read", a, FALSE)
  /\ UNCHANGED << threadVars, nextId, table, status, report, cancelled, thread,
                  answer, ackedAt >>

\* Mutant: a join that waits for the published status and not for the thread.
JoinWaitForStatus(c) ==
  LET a == caller[c].agent IN
  /\ caller[c].at = "wait"
  /\ thread[a] = "done"
  /\ Wait(c, "read", a, TRUE)
  /\ UNCHANGED << threadVars, nextId, table, status, report, cancelled, handle, thread,
                  answer, ackedAt >>

\* JoinHandle::join returns when the thread has ended, with Err after a panic.
JoinWait(c) ==
  LET a == caller[c].agent IN
  /\ caller[c].at = "wait"
  /\ \/ /\ thread[a] = "done"
        /\ Wait(c, "read", a, TRUE)
        /\ UNCHANGED answer
     \/ /\ thread[a] = "panicked"
        /\ caller' = [caller EXCEPT ![c] = Idle]
        /\ Reply(c, "join", a, "agent panicked", TRUE)
  /\ UNCHANGED << threadVars, nextId, table, status, report, cancelled, handle, thread,
                  ackedAt >>

JoinValue(a) ==
  CASE status[a] = "Completed" -> IF report[a] THEN "report" ELSE "empty report"
    [] status[a] = "Failed" -> "agent failed"
    [] status[a] = "Cancelled" -> "agent was cancelled"
    [] OTHER -> "agent is still running"

JoinRead(c) ==
  LET a == caller[c].agent IN
  /\ caller[c].at = "read"
  /\ LockFree
  /\ Reply(c, "join", a, JoinValue(a), caller[c].owned)
  /\ caller' = [caller EXCEPT ![c] = Idle]
  /\ UNCHANGED << threadVars, nextId, table, status, report, cancelled, handle, thread,
                  ackedAt >>

CancelFlag(c, a) ==
  /\ caller[c] = Idle
  /\ LockFree
  /\ a \in table
  /\ cancelled' = [cancelled EXCEPT ![a] = TRUE]
  /\ Wait(c, "cancel", a, FALSE)
  /\ UNCHANGED << threadVars, nextId, table, status, report, handle, thread, answer,
                  ackedAt >>

\* Mutant: cancel overwrites whatever the thread has published.
CancelAnything(c) ==
  LET a == caller[c].agent IN
  /\ caller[c].at = "cancel"
  /\ status' = [status EXCEPT ![a] = "Cancelled"]
  /\ Reply(c, "cancel", a, "Cancelled", FALSE)
  /\ caller' = [caller EXCEPT ![c] = Idle]
  /\ ackedAt' = [ackedAt EXCEPT ![a] = IF @ = "never" THEN thread[a] ELSE @]
  /\ UNCHANGED << threadVars, nextId, table, report, cancelled, handle, thread >>

CancelStatus(c) ==
  LET a == caller[c].agent
      s == IF status[a] = "Running" THEN "Cancelled" ELSE status[a]
  IN
  /\ caller[c].at = "cancel"
  /\ status' = [status EXCEPT ![a] = s]
  /\ Reply(c, "cancel", a, s, FALSE)
  /\ caller' = [caller EXCEPT ![c] = Idle]
  /\ ackedAt' = [ackedAt EXCEPT ![a] =
                   IF s = "Cancelled" /\ @ = "never" THEN thread[a] ELSE @]
  /\ UNCHANGED << threadVars, nextId, table, report, cancelled, handle, thread >>

\* The process ends (the parent run is over, or it is killed) and a new one
\* starts on the same workspace: memory is gone, the records stay.
Restart ==
  /\ epoch < MaxRestarts
  /\ epoch' = epoch + 1
  /\ nextId' = 1
  /\ table' = {}
  /\ status' = [a \in Ids |-> "absent"]
  /\ report' = [a \in Ids |-> FALSE]
  /\ cancelled' = [a \in Ids |-> FALSE]
  /\ handle' = [a \in Ids |-> "none"]
  /\ thread' = [a \in Ids |-> "absent"]
  /\ verdict' = [a \in Ids |-> "Running"]
  /\ turns' = [a \in Ids |-> 0]
  /\ caller' = [c \in Callers |-> Idle]
  /\ answer' = [c \in Callers |-> NoAnswer]
  /\ ackedAt' = [a \in Ids |-> "never"]
  /\ UNCHANGED dir

Proceed(c) == DelegateInsert(c) \/ JoinWait(c) \/ JoinRead(c) \/ CancelStatus(c)

Next ==
  \/ \E a \in Ids : Work(a) \/ Panic(a)
  \/ \E c \in Callers : DelegateRefused(c) \/ DelegateSpawn(c) \/ Proceed(c)
  \/ \E c \in Callers, a \in Ids :
       UnknownAgent(c, a) \/ Status(c, a) \/ JoinTake(c, a) \/ CancelFlag(c, a)
  \/ Restart

\* The operating system schedules every runnable thread; a mutex here is held
\* for finitely many instructions.  Nothing obliges a caller to call, a run to
\* panic or the process to exit.
Fairness ==
  /\ \A a \in Ids : WF_vars(Work(a))
  /\ \A c \in Callers : WF_vars(Proceed(c))

Spec == Init /\ [][Next]_vars
FairSpec == Spec /\ Fairness
-----------------------------------------------------------------------------
TypeOK ==
  /\ epoch \in Epochs
  /\ nextId \in 1 .. MaxAgents + 1
  /\ table \subseteq Ids
  /\ status \in [Ids -> Terminal \cup {"absent", "Running"}]
  /\ report \in [Ids -> BOOLEAN]
  /\ cancelled \in [Ids -> BOOLEAN]
  /\ handle \in [Ids -> {"none", "held", "taken"}]
  /\ thread \in [Ids -> Points \cup Ended \cup {"absent"}]
  /\ verdict \in [Ids -> Terminal \cup {"Running"}]
  /\ turns \in [Ids -> 0 .. MaxTurns]
  /\ caller \in [Callers -> CallerStates]
  /\ answer \in [Callers -> Answers]
  /\ dir \in [Ids -> Records]
  /\ ackedAt \in [Ids -> Points \cup Ended \cup {"never"}]

\* A join that took the thread's handle is never told that the agent is still
\* running: it returns after the thread has ended, and the thread publishes a
\* terminal status before it ends (AgentSupervisor::join, run_agent_thread).
OwnerOfHandleSeesTheEnd ==
  \A c \in Callers :
    answer[c].op = "join" /\ answer[c].owned => answer[c].value # "agent is still running"

\* What is on disk of agent a, each file unless its own write may fail.
HistoryKept(a) == "history" \in DiskFaults \/ epoch \in dir[a].history
ReportKept(a) == "report" \in DiskFaults \/ dir[a].report = {epoch}
EndKept(a) == "events" \in DiskFaults \/ dir[a].events[Len(dir[a].events)] = "Completed"

\* Whoever sees Completed finds the record of this run on disk: the
\* transcript, report.md and the terminal event are written before the status
\* (run_agent_thread, its last lines), each unless its own write has failed.
CompletedIsAuditable ==
  \A a \in Ids :
    status[a] = "Completed" => report[a] /\ HistoryKept(a) /\ ReportKept(a) /\ EndKept(a)

\* A cancel that answered Cancelled before the thread's last look at the flag,
\* and not while the provider was being created, decides the outcome.
EarlyCancelWins ==
  \A a \in Ids :
    /\ ackedAt[a] \in {"start", "check_start", "running", "persist", "check_end"}
    /\ thread[a] = "done"
    => status[a] = "Cancelled"

\* Completed and Failed are final: neither a late cancel nor the thread itself
\* changes them while the process lives.
FinishedIsFinal ==
  [][\A a \in Ids : status[a] \in {"Completed", "Failed"} /\ epoch' = epoch =>
       status'[a] = status[a]]_vars

\* A join returns, even when the subagent's thread has panicked, unless the
\* other callers take the mutex again and again: std's Mutex is not fair.
JoinReturns ==
  \A c \in Callers :
    \/ caller[c].at = "wait" ~> caller[c].at = "idle"
    \/ []<>(caller[c].at = "read" /\ ~LockFree)

\* Every agent leaves Running, unless its run panics: each early return of
\* run_agent_thread marks the agent first.
AgentSettles ==
  \A a \in Ids : status[a] = "Running" ~> status[a] # "Running" \/ thread[a] = "panicked"

-----------------------------------------------------------------------------
(***************************************************************************)
(* What the documents and the tests say and the code does not do.          *)
(***************************************************************************)

\* An agent whose cancellation was acknowledged joins as cancelled
\* (supervisor/tests.rs, cancel_running_agent_reports_cancelled_on_join).
CancelledAgentNeverReports ==
  \A c \in Callers :
    answer[c].op = "join" /\ answer[c].value = "report" => ackedAt[answer[c].agent] = "never"
=============================================================================

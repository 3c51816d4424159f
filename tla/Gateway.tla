-------------------------------- MODULE Gateway --------------------------------
(***************************************************************************)
(* The Feishu gateway from the callback to the end of a run:               *)
(* handle_event and its deduper (src/integrations/feishu/server.rs),       *)
(* parse_callback (event.rs), the session manager (src/memory/manager.rs)  *)
(* and a run as far as it holds the run lock of its chat's session.        *)
(*                                                                         *)
(* Feishu delivers a callback at least once, in any order, and anybody can *)
(* post to the endpoint.  A message that is not a duplicate becomes a job  *)
(* of the blocking thread pool; the answer 200 is sent before the job      *)
(* runs.  What a run does inside is ReActSession, what it asks a human is  *)
(* Approval.  A step is one critical section or one blocking call.         *)
(***************************************************************************)
EXTENDS Naturals, FiniteSets

CONSTANTS
  Messages,     \* Feishu message ids
  Chats,        \* Feishu chat ids
  ChatOf,       \* the chat of each message
  Texts,        \* the messages whose message_type is text
  PoolSize,     \* threads of the blocking pool
  Verifies,     \* TRUE: FeishuConfig::verify_token is set
  MaxRuns,      \* bound: jobs each message may start in one process
  MaxRestarts,  \* bound: times the gateway is started again
  NoJob

Jobs == UNION {{m} \X (1 .. MaxRuns[m]) : m \in Messages}

ASSUME GatewayAssumption ==
  /\ ChatOf \in [Messages -> Chats]
  /\ Texts \subseteq Messages
  /\ PoolSize \in Nat \ {0}
  /\ Verifies \in BOOLEAN
  /\ MaxRuns \in [Messages -> Nat]
  /\ MaxRestarts \in Nat
  /\ NoJob \notin Jobs

VARIABLES
  epoch,     \* which process is running
  seen,      \* keys of MessageDeduper::seen_at
  stale,     \* those of them older than the ttl
  accepted,  \* the jobs each message has started in this process
  lapsed,    \* how often the entry of each message has grown older than the ttl
  job,       \* where each job is
  session,   \* SessionManager::sessions: the job whose call created the session
  mine,      \* the session a job works on
  holder,    \* the job that holds the run lock of a session
  poisoned,  \* the sessions whose run lock is poisoned
  acted      \* history: the tokens of the callbacks that had an effect

vars == << epoch, seen, stale, accepted, lapsed, job, session, mine, holder, poisoned, acted >>
runVars == << epoch, seen, stale, accepted, lapsed, acted >>

Chat(j) == ChatOf[j[1]]

Tokens == {"right", "wrong"}

\* What parse_callback tells apart: the field it dispatches on, the token, whether
\* the fields it needs are there.
Callbacks == [kind : {"verification", "card", "message", "other"},
              token : Tokens, complete : BOOLEAN]

OnThread == {"prepare", "open", "lock", "running", "reply"}
Ended == {"done", "failed", "panicked", "refused"}

Fresh ==
  /\ seen' = {}
  /\ stale' = {}
  /\ accepted' = [m \in Messages |-> 0]
  /\ lapsed' = [m \in Messages |-> 0]
  /\ job' = [j \in Jobs |-> "none"]
  /\ session' = [c \in Chats |-> NoJob]
  /\ mine' = [j \in Jobs |-> NoJob]
  /\ holder' = [s \in Jobs |-> NoJob]
  /\ poisoned' = {}

Init ==
  /\ epoch = 0
  /\ seen = {}
  /\ stale = {}
  /\ accepted = [m \in Messages |-> 0]
  /\ lapsed = [m \in Messages |-> 0]
  /\ job = [j \in Jobs |-> "none"]
  /\ session = [c \in Chats |-> NoJob]
  /\ mine = [j \in Jobs |-> NoJob]
  /\ holder = [s \in Jobs |-> NoJob]
  /\ poisoned = {}
  /\ acted = {}

Goto(j, at) == job' = [job EXCEPT ![j] = at]

-----------------------------------------------------------------------------
(***************************************************************************)
(* The handler of a callback.                                              *)
(***************************************************************************)

Parse(b) ==
  CASE Verifies /\ b.token = "wrong" -> "rejected"
    [] b.kind = "other" -> "ignored"
    [] ~b.complete -> "rejected"
    [] OTHER -> b.kind

\* Mutant: every sweep of the deduper keeps the old entries and drops the others.
SweepTheWrongOnes == stale

\* The entries that the sweep at the head of already_seen_or_insert keeps.
Swept == seen \ stale

\* The first delivery of a message, or the first after its entry has lapsed.
\* The job is spawned in the same step: there is no await in between.
Message(m, b) ==
  /\ Parse(b) = "message"
  /\ m \notin Swept
  /\ accepted[m] < MaxRuns[m]
  /\ seen' = Swept \cup {m}
  /\ stale' = {}
  /\ accepted' = [accepted EXCEPT ![m] = @ + 1]
  /\ Goto(<< m, accepted[m] + 1 >>, "queued")
  /\ acted' = acted \cup {b.token}
  /\ UNCHANGED << epoch, lapsed, session, mine, holder, poisoned >>

Duplicate(m, b) ==
  /\ Parse(b) = "message"
  /\ m \in Swept
  /\ seen' = Swept
  /\ stale' = {}
  /\ UNCHANGED << epoch, accepted, lapsed, job, session, mine, holder, poisoned, acted >>

\* A click goes to ApprovalManager::resolve in the handler itself, without the
\* pool; the other callbacks are answered and change nothing.
Answer(b) ==
  /\ Parse(b) # "message"
  /\ acted' = IF Parse(b) = "card" THEN acted \cup {b.token} ELSE acted
  /\ UNCHANGED << epoch, seen, stale, accepted, lapsed, job, session, mine, holder, poisoned >>

\* MESSAGE_DEDUP_TTL passes for one entry.
Lapse(m) ==
  /\ m \in Swept
  /\ stale' = stale \cup {m}
  /\ lapsed' = [lapsed EXCEPT ![m] = @ + 1]
  /\ UNCHANGED << epoch, seen, accepted, job, session, mine, holder, poisoned, acted >>

-----------------------------------------------------------------------------
(***************************************************************************)
(* The jobs of the blocking pool.                                          *)
(***************************************************************************)

Begin(j) ==
  /\ job[j] = "queued"
  /\ Cardinality({k \in Jobs : job[k] \in OnThread}) < PoolSize
  /\ Goto(j, IF j[1] \in Texts THEN "prepare" ELSE "reply")
  /\ UNCHANGED << runVars, session, mine, holder, poisoned >>

\* The reply to an unsupported message: one request, whose failure is logged.
Reply(j) ==
  /\ job[j] = "reply"
  /\ \E at \in {"done", "failed"} : Goto(j, at)
  /\ UNCHANGED << runVars, session, mine, holder, poisoned >>

\* The workspace of the chat and an engine of its own.
Prepare(j) ==
  /\ job[j] = "prepare"
  /\ \E at \in {"open", "failed"} : Goto(j, at)
  /\ UNCHANGED << runVars, session, mine, holder, poisoned >>

\* Mutant: insert in place of entry().or_insert_with(): a new session each time.
OpenAnew(j) ==
  /\ job[j] = "open"
  /\ session' = [session EXCEPT ![Chat(j)] = j]
  /\ mine' = [mine EXCEPT ![j] = j]
  /\ Goto(j, "lock")
  /\ UNCHANGED << runVars, holder, poisoned >>

\* Mutant: the chat is forgotten in the session's id.
OpenShared(j) ==
  LET open == {session[c] : c \in Chats} \ {NoJob}
      s == IF open = {} THEN j ELSE CHOOSE k \in open : TRUE
  IN
  /\ job[j] = "open"
  /\ session' = [session EXCEPT ![Chat(j)] = s]
  /\ mine' = [mine EXCEPT ![j] = s]
  /\ Goto(j, "lock")
  /\ UNCHANGED << runVars, holder, poisoned >>

\* SessionManager::get_or_create.
Open(j) ==
  LET s == IF session[Chat(j)] = NoJob THEN j ELSE session[Chat(j)] IN
  /\ job[j] = "open"
  /\ session' = [session EXCEPT ![Chat(j)] = s]
  /\ mine' = [mine EXCEPT ![j] = s]
  /\ Goto(j, "lock")
  /\ UNCHANGED << runVars, holder, poisoned >>

\* Session::lock_run; a poisoned lock panics the run, and catch_unwind ends the job.
Lock(j) ==
  /\ job[j] = "lock"
  /\ holder[mine[j]] = NoJob
  /\ \/ /\ mine[j] \notin poisoned
        /\ holder' = [holder EXCEPT ![mine[j]] = j]
        /\ Goto(j, "running")
     \/ /\ mine[j] \in poisoned
        /\ Goto(j, "refused")
        /\ UNCHANGED holder
  /\ UNCHANGED << runVars, session, mine, poisoned >>

Finish(j) ==
  /\ job[j] = "running"
  /\ \E at \in {"done", "failed"} : Goto(j, at)
  /\ holder' = [holder EXCEPT ![mine[j]] = NoJob]
  /\ UNCHANGED << runVars, session, mine, poisoned >>

\* Mutant: a run that panics leaves the lock held.
PanicLocked(j) ==
  /\ job[j] = "running"
  /\ Goto(j, "panicked")
  /\ UNCHANGED << runVars, session, mine, holder, poisoned >>

\* The run panics; the guard poisons the lock on the way out.
Panic(j) ==
  /\ job[j] = "running"
  /\ Goto(j, "panicked")
  /\ holder' = [holder EXCEPT ![mine[j]] = NoJob]
  /\ poisoned' = poisoned \cup {mine[j]}
  /\ UNCHANGED << runVars, session, mine >>

\* The process stops and a new one starts: everything above is in memory.
Restart ==
  /\ epoch < MaxRestarts
  /\ epoch' = epoch + 1
  /\ Fresh
  /\ UNCHANGED acted

Advance(j) == Reply(j) \/ Prepare(j) \/ Open(j) \/ Lock(j) \/ Finish(j) \/ Panic(j)

Next ==
  \/ \E b \in Callbacks : Answer(b) \/ \E m \in Messages : Message(m, b) \/ Duplicate(m, b)
  \/ \E m \in Messages : Lapse(m)
  \/ \E j \in Jobs : Begin(j) \/ Advance(j)
  \/ Restart

\* Runs end (their calls have timeouts) and pool threads are scheduled.
Fairness == \A j \in Jobs : WF_vars(Begin(j)) /\ WF_vars(Advance(j))

Spec == Init /\ [][Next]_vars
FairSpec == Spec /\ Fairness

-----------------------------------------------------------------------------
TypeOK ==
  /\ epoch \in 0 .. MaxRestarts
  /\ seen \subseteq Messages
  /\ stale \subseteq seen
  /\ accepted \in [Messages -> Nat]
  /\ \A m \in Messages : accepted[m] <= MaxRuns[m]
  /\ lapsed \in [Messages -> Nat]
  /\ job \in [Jobs -> {"none", "queued"} \cup OnThread \cup Ended]
  /\ session \in [Chats -> Jobs \cup {NoJob}]
  /\ mine \in [Jobs -> Jobs \cup {NoJob}]
  /\ holder \in [Jobs -> Jobs \cup {NoJob}]
  /\ poisoned \subseteq Jobs
  /\ acted \subseteq Tokens

\* However often a message is delivered, it starts one job, and one more only
\* after its entry has lapsed: runs are not repeated by redelivery
\* (MessageDeduper::already_seen_or_insert).
OneJobPerLapse == \A m \in Messages : accepted[m] <= lapsed[m] + 1

\* Two runs of one chat are never inside the session at once: there is one
\* Session per chat however many jobs open it at the same time
\* (SessionManager::get_or_create, Session::lock_run).
OneRunPerChat ==
  \A j, k \in Jobs : job[j] = "running" /\ job[k] = "running" /\ Chat(j) = Chat(k) => j = k

\* A chat is refused only after a run of that very chat has panicked: the poison
\* of one chat never reaches another one.
PanicStaysInItsChat ==
  \A j \in Jobs : job[j] = "refused" =>
    \E k \in Jobs : job[k] = "panicked" /\ Chat(k) = Chat(j)

\* Where a job stands for the people of its chat.
Stage(j) ==
  CASE job[j] = "none" -> "none"
    [] job[j] \in {"queued", "prepare", "open", "lock", "reply"} -> "waiting"
    [] job[j] = "running" -> "running"
    [] job[j] = "refused" -> "refused"
    [] OTHER -> "over"

Service == INSTANCE ChatService WITH
  MessageOf <- [j \in Jobs |-> j[1]], ChatOf <- [j \in Jobs |-> Chat(j)],
  known <- Swept, stage <- [j \in Jobs |-> Stage(j)],
  broken <- {c \in Chats : session[c] \in poisoned}

\* Deduper, pool, session table and run locks are one service: a message it knows
\* starts no job, the jobs of a chat run one at a time, and a panic closes the chat
\* it happened in and no other (handle_event, SessionManager::get_or_create,
\* Session::lock_run).
ServiceSpec == Service!Spec

\* With a verify token only callbacks that carry it have an effect (parse_callback
\* verifies before it looks at anything else).
OnlyVerifiedCallbacksAct == Verifies => acted \subseteq {"right"}

\* Every accepted message is worked on to its end, also when it waits for a pool
\* thread or for its chat, unless the process stops.
EveryJobEnds == \A j \in Jobs : job[j] = "queued" ~> job[j] \in Ended \cup {"none"}
=============================================================================

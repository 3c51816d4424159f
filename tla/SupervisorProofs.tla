--------------------------- MODULE SupervisorProofs ---------------------------
(***************************************************************************)
(* Proofs about Supervisor, for every number of callers, agents, turns and *)
(* restarts, with and without panics and disk faults.                      *)
(***************************************************************************)
EXTENDS Supervisor, TLAPS

\* The stage of the thread fixes what is published and what is about to be.
StageInv ==
  \A a \in Ids :
    /\ thread[a] \in {"persist", "check_end", "write_report", "record", "publish", "done"}
         => verdict[a] \in Terminal
    /\ thread[a] = "write_report" => verdict[a] = "Completed"
    /\ a >= nextId => thread[a] = "absent"
    /\ thread[a] = "absent" => status[a] = "absent" /\ a \notin table
    /\ thread[a] \notin {"absent", "done"} => status[a] \in {"Running", "Cancelled"}
    /\ thread[a] = "done" => status[a] = verdict[a]
    /\ status[a] = "Completed" => report[a]

\* What a caller in the middle of an operation knows about its agent.
CallerInv ==
  \A c \in Callers :
    /\ caller[c].at # "idle" => caller[c].agent \in Ids /\ thread[caller[c].agent] # "absent"
    /\ caller[c].at = "read" /\ caller[c].owned => thread[caller[c].agent] = "done"
    /\ caller[c].at = "cancel" => cancelled[caller[c].agent]

\* A cancel acknowledged before the last look at the flag pins the verdict.
CancelInv ==
  \A a \in Ids :
    /\ ackedAt[a] # "never" => cancelled[a]
    /\ ackedAt[a] \in {"start", "check_start"}
         => thread[a] \in {"start", "check_start", "record", "publish", "done"}
    /\ ackedAt[a] \in {"running", "persist", "check_end"}
         => thread[a] \in {"running", "persist", "check_end", "panicked",
                           "record", "publish", "done"}
    /\ /\ ackedAt[a] \in {"start", "check_start", "running", "persist", "check_end"}
       /\ thread[a] \in {"record", "publish", "done"}
       => verdict[a] = "Cancelled"

IInv == TypeOK /\ StageInv /\ CallerInv /\ CancelInv /\ OwnerOfHandleSeesTheEnd

(***************************************************************************)
(* Typing of the helpers the actions are built from.                       *)
(***************************************************************************)
\* A disk write, done or dropped, keeps the type of the records.
LEMMA WriteType ==
  ASSUME dir \in [Ids -> Records], NEW a \in Ids, NEW file, NEW files \in Records,
         Write(a, file, files)
  PROVE  dir' \in [Ids -> Records]
  BY DEF Write

\* Appending an event keeps the type of the records.
LEMMA EventType ==
  ASSUME dir \in [Ids -> Records], NEW a \in Ids, NEW e \in Events, Event(a, e)
  PROVE  dir' \in [Ids -> Records]
  <1>1. Append(dir[a].events, e) \in Seq(Events)
    BY DEF Records
  <1>2. [dir[a] EXCEPT !.events = Append(@, e)] \in Records
    BY <1>1 DEF Records
  <1> QED BY <1>2, WriteType DEF Event

\* A reply keeps the type of the answers.
LEMMA ReplyType ==
  ASSUME answer \in [Callers -> Answers], NEW c \in Callers, NEW op \in Operations,
         NEW a \in Ids \cup {0}, NEW value \in Values, NEW owned \in BOOLEAN,
         Reply(c, op, a, value, owned)
  PROVE  answer' \in [Callers -> Answers]
  BY DEF Reply, Answers

\* A caller that moves on keeps its type.
LEMMA WaitType ==
  ASSUME caller \in [Callers -> CallerStates], NEW c \in Callers,
         NEW at \in {"idle", "insert", "wait", "read", "cancel"},
         NEW a \in Ids \cup {0}, NEW owned \in BOOLEAN, Wait(c, at, a, owned)
  PROVE  caller' \in [Callers -> CallerStates]
  BY DEF Wait, CallerStates

\* An idle caller and no answer are well typed.
LEMMA IdleType == Idle \in CallerStates /\ NoAnswer \in Answers
  BY DEF Idle, NoAnswer, CallerStates, Answers, Values, Operations

\* A thread that moves on keeps its type.
LEMMA GotoType ==
  ASSUME TypeOK, NEW a \in Ids, NEW at \in Points \cup Ended, Goto(a, at)
  PROVE  thread' \in [Ids -> Points \cup Ended \cup {"absent"}]
  BY DEF Goto, TypeOK

\* A thread that concludes keeps the types of its place and verdict.
LEMMA ConcludeType ==
  ASSUME TypeOK, NEW a \in Ids, NEW v \in Terminal, NEW at \in Points, Conclude(a, v, at)
  PROVE  /\ thread' \in [Ids -> Points \cup Ended \cup {"absent"}]
         /\ verdict' \in [Ids -> Terminal \cup {"Running"}]
  BY DEF Conclude, Goto, TypeOK

\* Every step keeps the types (one case per action).
LEMMA TypeStep == TypeOK /\ StageInv /\ CallerInv /\ [Next]_vars => TypeOK'
  <1> SUFFICES ASSUME TypeOK, StageInv, CallerInv, [Next]_vars PROVE TypeOK'
    OBVIOUS
  <1>1. ASSUME NEW a \in Ids, Start(a) PROVE TypeOK'
    <2>1. dir' \in [Ids -> Records]
      BY <1>1, EventType DEF Start, TypeOK, Events
    <2>2. thread' \in [Ids -> Points \cup Ended \cup {"absent"}]
      BY <1>1, GotoType DEF Start, Points
    <2> QED
      BY <1>1, <2>1, <2>2 DEF Start, callerVars, TypeOK
  <1>2. ASSUME NEW a \in Ids, CheckStart(a) PROVE TypeOK'
    <2>1. thread' \in [Ids -> Points \cup Ended \cup {"absent"}] /\ verdict' \in [Ids -> Terminal \cup {"Running"}]
      BY <1>2, GotoType, ConcludeType DEF CheckStart, TypeOK, Points, Terminal
    <2> QED
      BY <1>2, <2>1 DEF CheckStart, callerVars, TypeOK
  <1>3. ASSUME NEW a \in Ids, CreateProvider(a) PROVE TypeOK'
    <2>1. thread' \in [Ids -> Points \cup Ended \cup {"absent"}] /\ verdict' \in [Ids -> Terminal \cup {"Running"}]
      BY <1>3, GotoType, ConcludeType DEF CreateProvider, TypeOK, Points, Terminal
    <2> QED
      BY <1>3, <2>1 DEF CreateProvider, callerVars, TypeOK
  <1>4. ASSUME NEW a \in Ids, Turn(a) PROVE TypeOK'
    <2>1. thread' \in [Ids -> Points \cup Ended \cup {"absent"}] /\ verdict' \in [Ids -> Terminal \cup {"Running"}]
      BY <1>4, ConcludeType DEF Turn, TypeOK, Points, Terminal
    <2>2. turns' \in [Ids -> 0 .. MaxTurns]
      BY <1>4, SupervisorAssumption DEF Turn, TypeOK
    <2> QED
      BY <1>4, <2>1, <2>2 DEF Turn, callerVars, TypeOK
  <1>5. ASSUME NEW a \in Ids, TurnLimit(a) PROVE TypeOK'
    <2>1. thread' \in [Ids -> Points \cup Ended \cup {"absent"}] /\ verdict' \in [Ids -> Terminal \cup {"Running"}]
      BY <1>5, ConcludeType DEF TurnLimit, Points, Terminal
    <2> QED
      BY <1>5, <2>1 DEF TurnLimit, callerVars, TypeOK
  <1>6. ASSUME NEW a \in Ids, PersistHistory(a) PROVE TypeOK'
    <2>1. [dir[a] EXCEPT !.history = @ \cup {epoch}] \in Records
      BY <1>6 DEF PersistHistory, TypeOK, Records
    <2>2. dir' \in [Ids -> Records]
      BY <1>6, <2>1, WriteType DEF PersistHistory, TypeOK
    <2>3. thread' \in [Ids -> Points \cup Ended \cup {"absent"}]
      BY <1>6, GotoType DEF PersistHistory, Points
    <2> QED
      BY <1>6, <2>1, <2>2, <2>3 DEF PersistHistory, callerVars, TypeOK
  <1>7. ASSUME NEW a \in Ids, CheckEnd(a) PROVE TypeOK'
    <2>1. thread' \in [Ids -> Points \cup Ended \cup {"absent"}] /\ verdict' \in [Ids -> Terminal \cup {"Running"}]
      BY <1>7, GotoType, ConcludeType DEF CheckEnd, TypeOK, Points, Terminal
    <2> QED
      BY <1>7, <2>1 DEF CheckEnd, callerVars, TypeOK
  <1>8. ASSUME NEW a \in Ids, WriteReport(a) PROVE TypeOK'
    <2>1. [dir[a] EXCEPT !.report = {epoch}] \in Records
      BY <1>8 DEF WriteReport, TypeOK, Records
    <2>2. dir' \in [Ids -> Records]
      BY <1>8, <2>1, WriteType DEF WriteReport, TypeOK
    <2>3. thread' \in [Ids -> Points \cup Ended \cup {"absent"}]
      BY <1>8, GotoType DEF WriteReport, Points
    <2> QED
      BY <1>8, <2>1, <2>2, <2>3 DEF WriteReport, callerVars, TypeOK
  <1>9. ASSUME NEW a \in Ids, RecordEnd(a) PROVE TypeOK'
    <2>1. verdict[a] \in Events
      BY <1>9 DEF RecordEnd, StageInv, Terminal, Events
    <2>2. dir' \in [Ids -> Records]
      BY <1>9, <2>1, EventType DEF RecordEnd, TypeOK
    <2>3. thread' \in [Ids -> Points \cup Ended \cup {"absent"}]
      BY <1>9, GotoType DEF RecordEnd, Points
    <2> QED
      BY <1>9, <2>1, <2>2, <2>3 DEF RecordEnd, callerVars, TypeOK
  <1>10. ASSUME NEW a \in Ids, Publish(a) PROVE TypeOK'
    <2>1. thread' \in [Ids -> Points \cup Ended \cup {"absent"}]
      BY <1>10, GotoType DEF Publish, Ended
    <2>2. verdict[a] \in Terminal
      BY <1>10 DEF Publish, StageInv
    <2> QED
      BY <1>10, <2>1, <2>2 DEF Publish, callerVars, TypeOK
  <1>11. ASSUME NEW a \in Ids, Panic(a) PROVE TypeOK'
    <2>1. thread' \in [Ids -> Points \cup Ended \cup {"absent"}]
      BY <1>11, GotoType DEF Panic, Ended
    <2> QED
      BY <1>11, <2>1 DEF Panic, callerVars, TypeOK
  <1>12. ASSUME NEW c \in Callers, DelegateRefused(c) PROVE TypeOK'
    <2>1. answer' \in [Callers -> Answers]
      BY <1>12, ReplyType DEF DelegateRefused, TypeOK, Operations, Values
    <2> QED
      BY <1>12, <2>1 DEF DelegateRefused, threadVars, TypeOK
  <1>13. ASSUME NEW c \in Callers, DelegateSpawn(c) PROVE TypeOK'
    <2>1. thread' \in [Ids -> Points \cup Ended \cup {"absent"}]
      BY <1>13, GotoType DEF DelegateSpawn, Points
    <2>2. caller' \in [Callers -> CallerStates]
      BY <1>13, WaitType DEF DelegateSpawn, TypeOK
    <2>3. nextId' \in 1 .. MaxAgents + 1
      BY <1>13, SupervisorAssumption DEF DelegateSpawn, TypeOK, Ids
    <2> QED
      BY <1>13, <2>1, <2>2, <2>3 DEF DelegateSpawn, threadVars, TypeOK, Terminal
  <1>14. ASSUME NEW c \in Callers, DelegateInsert(c) PROVE TypeOK'
    <2>1. caller[c].agent \in Ids
      BY <1>14 DEF DelegateInsert, CallerInv
    <2>2. answer' \in [Callers -> Answers]
      BY <1>14, <2>1, ReplyType DEF DelegateInsert, TypeOK, Operations, Values
    <2>3. caller' \in [Callers -> CallerStates]
      BY <1>14, IdleType DEF DelegateInsert, TypeOK
    <2> QED
      BY <1>14, <2>1, <2>2, <2>3 DEF DelegateInsert, threadVars, TypeOK
  <1>15. ASSUME NEW c \in Callers, JoinWait(c) PROVE TypeOK'
    <2>1. caller[c].agent \in Ids
      BY <1>15 DEF JoinWait, CallerInv
    <2>2. answer' \in [Callers -> Answers] /\ caller' \in [Callers -> CallerStates]
      BY <1>15, <2>1, ReplyType, WaitType, IdleType DEF JoinWait, TypeOK, Operations, Values
    <2> QED
      BY <1>15, <2>1, <2>2 DEF JoinWait, threadVars, TypeOK
  <1>16. ASSUME NEW c \in Callers, JoinRead(c) PROVE TypeOK'
    <2>1. caller[c].agent \in Ids
      BY <1>16 DEF JoinRead, CallerInv
    <2>2. caller[c].owned \in BOOLEAN
      BY <1>16 DEF JoinRead, TypeOK, CallerStates
    <2>3. JoinValue(caller[c].agent) \in Values
      BY <1>16 DEF JoinRead, JoinValue, Values
    <2>4. answer' \in [Callers -> Answers] /\ caller' \in [Callers -> CallerStates]
      BY <1>16, <2>1, <2>2, <2>3, ReplyType, IdleType DEF JoinRead, TypeOK, Operations
    <2> QED
      BY <1>16, <2>1, <2>2, <2>3, <2>4 DEF JoinRead, threadVars, TypeOK
  <1>17. ASSUME NEW c \in Callers, CancelStatus(c) PROVE TypeOK'
    <2>1. caller[c].agent \in Ids
      BY <1>17 DEF CancelStatus, CallerInv
    <2>2. thread[caller[c].agent] \in Points \cup Ended
      BY <1>17, <2>1 DEF CancelStatus, CallerInv, TypeOK
    <2>3. (IF status[caller[c].agent] = "Running" THEN "Cancelled" ELSE status[caller[c].agent]) \in Terminal
      BY <1>17, <2>1, <2>2 DEF CancelStatus, StageInv, TypeOK, Terminal, Points, Ended
    <2>4. answer' \in [Callers -> Answers] /\ caller' \in [Callers -> CallerStates]
      BY <1>17, <2>1, <2>3, ReplyType, IdleType DEF CancelStatus, TypeOK, Operations, Values
    <2> QED
      BY <1>17, <2>1, <2>2, <2>3, <2>4 DEF CancelStatus, threadVars, TypeOK
  <1>18. ASSUME NEW c \in Callers, NEW a \in Ids, UnknownAgent(c, a) PROVE TypeOK'
    <2>1. answer' \in [Callers -> Answers]
      <3>1. PICK op \in {"status", "join", "cancel"} : Reply(c, op, a, "unknown", FALSE)
        BY <1>18 DEF UnknownAgent
      <3>2. op \in Operations /\ "unknown" \in Values
        BY DEF Operations, Values
      <3> QED
        BY <3>1, <3>2, ReplyType DEF TypeOK
    <2> QED
      BY <1>18, <2>1 DEF UnknownAgent, threadVars, TypeOK
  <1>19. ASSUME NEW c \in Callers, NEW a \in Ids, Status(c, a) PROVE TypeOK'
    <2>1. status[a] \in Values
      BY <1>19 DEF Status, StageInv, TypeOK, Terminal, Values, Points, Ended
    <2>2. answer' \in [Callers -> Answers]
      BY <1>19, <2>1, ReplyType DEF Status, TypeOK, Operations
    <2> QED
      BY <1>19, <2>1, <2>2 DEF Status, threadVars, TypeOK
  <1>20. ASSUME NEW c \in Callers, NEW a \in Ids, JoinTake(c, a) PROVE TypeOK'
    <2>1. caller' \in [Callers -> CallerStates]
      BY <1>20, WaitType DEF JoinTake, TypeOK
    <2> QED
      BY <1>20, <2>1 DEF JoinTake, threadVars, TypeOK
  <1>21. ASSUME NEW c \in Callers, NEW a \in Ids, CancelFlag(c, a) PROVE TypeOK'
    <2>1. caller' \in [Callers -> CallerStates]
      BY <1>21, WaitType DEF CancelFlag, TypeOK
    <2> QED
      BY <1>21, <2>1 DEF CancelFlag, threadVars, TypeOK
  <1>22. ASSUME Restart PROVE TypeOK'
    BY <1>22, SupervisorAssumption, IdleType DEF Restart, TypeOK, Ids, Epochs
  <1>23. CASE UNCHANGED vars
    BY <1>23 DEF vars, TypeOK
  <1>24. QED
    BY <1>1, <1>2, <1>3, <1>4, <1>5, <1>6, <1>7, <1>8, <1>9, <1>10, <1>11, <1>12, <1>13, <1>14, <1>15, <1>16, <1>17, <1>18, <1>19, <1>20, <1>21, <1>22, <1>23 DEF Next, Work, Proceed

\* Every step keeps what the place of a thread says about its agent.
LEMMA StageStep == TypeOK /\ StageInv /\ CallerInv /\ [Next]_vars => StageInv'
  <1> SUFFICES ASSUME TypeOK, StageInv, CallerInv, [Next]_vars PROVE StageInv'
    OBVIOUS
  <1> USE SupervisorAssumption DEF TypeOK, StageInv, CallerInv, Ids, Terminal, Points, Ended, Idle
  <1>1. ASSUME NEW a \in Ids, Start(a) PROVE StageInv'
    BY <1>1 DEF Start, Goto, Event, Write, callerVars
  <1>2. ASSUME NEW a \in Ids, CheckStart(a) PROVE StageInv'
    BY <1>2 DEF CheckStart, Goto, Conclude, callerVars
  <1>3. ASSUME NEW a \in Ids, CreateProvider(a) PROVE StageInv'
    BY <1>3 DEF CreateProvider, Goto, Conclude, callerVars
  <1>4. ASSUME NEW a \in Ids, Turn(a) PROVE StageInv'
    BY <1>4 DEF Turn, Conclude, Goto, callerVars
  <1>5. ASSUME NEW a \in Ids, TurnLimit(a) PROVE StageInv'
    BY <1>5 DEF TurnLimit, Conclude, Goto, callerVars
  <1>6. ASSUME NEW a \in Ids, PersistHistory(a) PROVE StageInv'
    BY <1>6 DEF PersistHistory, Goto, Write, callerVars
  <1>7. ASSUME NEW a \in Ids, CheckEnd(a) PROVE StageInv'
    <2>1. CASE cancelled[a]
      BY <1>7, <2>1 DEF CheckEnd, Goto, Conclude, callerVars
    <2>2. CASE ~cancelled[a]
      BY <1>7, <2>2 DEF CheckEnd, Goto, callerVars
    <2> QED
      BY <2>1, <2>2
  <1>8. ASSUME NEW a \in Ids, WriteReport(a) PROVE StageInv'
    BY <1>8 DEF WriteReport, Goto, Write, callerVars
  <1>9. ASSUME NEW a \in Ids, RecordEnd(a) PROVE StageInv'
    BY <1>9 DEF RecordEnd, Goto, Event, Write, callerVars
  <1>10. ASSUME NEW a \in Ids, Publish(a) PROVE StageInv'
    <2>1. verdict[a] \in Terminal
      BY <1>10 DEF Publish
    <2>2. /\ thread' = [thread EXCEPT ![a] = "done"]
          /\ status' = [status EXCEPT ![a] = verdict[a]]
          /\ report' = [report EXCEPT ![a] = report[a] \/ verdict[a] = "Completed"]
          /\ verdict' = verdict /\ nextId' = nextId /\ table' = table
      BY <1>10 DEF Publish, Goto, callerVars
    <2>3. \A b \in Ids \ {a} : /\ thread'[b] = thread[b] /\ status'[b] = status[b]
                               /\ report'[b] = report[b]
      BY <2>2
    <2>4. thread'[a] = "done" /\ status'[a] = verdict[a]
      BY <2>2
    <2>5. verdict[a] = "Completed" => report'[a]
      BY <2>2
    <2>6. a < nextId /\ thread[a] = "publish"
      BY <1>10 DEF Publish
    <2> QED
      BY <2>1, <2>2, <2>3, <2>4, <2>5, <2>6
  <1>11. ASSUME NEW a \in Ids, Panic(a) PROVE StageInv'
    BY <1>11 DEF Panic, Goto, callerVars
  <1>12. ASSUME NEW c \in Callers, DelegateRefused(c) PROVE StageInv'
    BY <1>12 DEF DelegateRefused, Reply, threadVars
  <1>13. ASSUME NEW c \in Callers, DelegateSpawn(c) PROVE StageInv'
    BY <1>13 DEF DelegateSpawn, Goto, Wait, threadVars
  <1>14. ASSUME NEW c \in Callers, DelegateInsert(c) PROVE StageInv'
    BY <1>14 DEF DelegateInsert, Reply, threadVars
  <1>15. ASSUME NEW c \in Callers, JoinWait(c) PROVE StageInv'
    BY <1>15 DEF JoinWait, Wait, Reply, threadVars
  <1>16. ASSUME NEW c \in Callers, JoinRead(c) PROVE StageInv'
    BY <1>16 DEF JoinRead, Reply, JoinValue, threadVars
  <1>17. ASSUME NEW c \in Callers, CancelStatus(c) PROVE StageInv'
    BY <1>17 DEF CancelStatus, Reply, threadVars
  <1>18. ASSUME NEW c \in Callers, NEW a \in Ids, UnknownAgent(c, a) PROVE StageInv'
    BY <1>18 DEF UnknownAgent, Reply, threadVars
  <1>19. ASSUME NEW c \in Callers, NEW a \in Ids, Status(c, a) PROVE StageInv'
    BY <1>19 DEF Status, Reply, threadVars
  <1>20. ASSUME NEW c \in Callers, NEW a \in Ids, JoinTake(c, a) PROVE StageInv'
    BY <1>20 DEF JoinTake, Wait, threadVars
  <1>21. ASSUME NEW c \in Callers, NEW a \in Ids, CancelFlag(c, a) PROVE StageInv'
    BY <1>21 DEF CancelFlag, Wait, threadVars
  <1>22. ASSUME Restart PROVE StageInv'
    BY <1>22 DEF Restart
  <1>23. CASE UNCHANGED vars
    BY <1>23 DEF vars
  <1>24. QED
    BY <1>1, <1>2, <1>3, <1>4, <1>5, <1>6, <1>7, <1>8, <1>9, <1>10, <1>11, <1>12, <1>13, <1>14, <1>15, <1>16, <1>17, <1>18, <1>19, <1>20, <1>21, <1>22, <1>23 DEF Next, Work, Proceed

\* Every step keeps what the place of a caller says about its agent.
LEMMA CallerStep == TypeOK /\ StageInv /\ CallerInv /\ [Next]_vars => CallerInv'
  <1> SUFFICES ASSUME TypeOK, StageInv, CallerInv, [Next]_vars PROVE CallerInv'
    OBVIOUS
  <1> USE SupervisorAssumption DEF TypeOK, StageInv, CallerInv, Ids, Points, Ended, Idle, CallerStates
  <1>1. ASSUME NEW a \in Ids, Start(a) PROVE CallerInv'
    BY <1>1 DEF Start, Goto, Event, Write, callerVars
  <1>2. ASSUME NEW a \in Ids, CheckStart(a) PROVE CallerInv'
    BY <1>2 DEF CheckStart, Goto, Conclude, callerVars
  <1>3. ASSUME NEW a \in Ids, CreateProvider(a) PROVE CallerInv'
    BY <1>3 DEF CreateProvider, Goto, Conclude, callerVars
  <1>4. ASSUME NEW a \in Ids, Turn(a) PROVE CallerInv'
    BY <1>4 DEF Turn, Conclude, Goto, callerVars
  <1>5. ASSUME NEW a \in Ids, TurnLimit(a) PROVE CallerInv'
    BY <1>5 DEF TurnLimit, Conclude, Goto, callerVars
  <1>6. ASSUME NEW a \in Ids, PersistHistory(a) PROVE CallerInv'
    BY <1>6 DEF PersistHistory, Goto, Write, callerVars
  <1>7. ASSUME NEW a \in Ids, CheckEnd(a) PROVE CallerInv'
    BY <1>7 DEF CheckEnd, Goto, Conclude, callerVars
  <1>8. ASSUME NEW a \in Ids, WriteReport(a) PROVE CallerInv'
    BY <1>8 DEF WriteReport, Goto, Write, callerVars
  <1>9. ASSUME NEW a \in Ids, RecordEnd(a) PROVE CallerInv'
    BY <1>9 DEF RecordEnd, Goto, Event, Write, callerVars
  <1>10. ASSUME NEW a \in Ids, Publish(a) PROVE CallerInv'
    BY <1>10 DEF Publish, Goto, callerVars
  <1>11. ASSUME NEW a \in Ids, Panic(a) PROVE CallerInv'
    BY <1>11 DEF Panic, Goto, callerVars
  <1>12. ASSUME NEW c \in Callers, DelegateRefused(c) PROVE CallerInv'
    BY <1>12 DEF DelegateRefused, Reply, threadVars
  <1>13. ASSUME NEW c \in Callers, DelegateSpawn(c) PROVE CallerInv'
    BY <1>13 DEF DelegateSpawn, Goto, Wait, threadVars
  <1>14. ASSUME NEW c \in Callers, DelegateInsert(c) PROVE CallerInv'
    BY <1>14 DEF DelegateInsert, Reply, threadVars
  <1>15. ASSUME NEW c \in Callers, JoinWait(c) PROVE CallerInv'
    <2>1. CASE Wait(c, "read", caller[c].agent, TRUE) /\ thread[caller[c].agent] = "done"
      BY <1>15, <2>1 DEF JoinWait, Wait, threadVars
    <2>2. CASE caller' = [caller EXCEPT ![c] = Idle]
      BY <1>15, <2>2 DEF JoinWait, threadVars
    <2> QED
      BY <1>15, <2>1, <2>2 DEF JoinWait
  <1>16. ASSUME NEW c \in Callers, JoinRead(c) PROVE CallerInv'
    BY <1>16 DEF JoinRead, Reply, JoinValue, threadVars
  <1>17. ASSUME NEW c \in Callers, CancelStatus(c) PROVE CallerInv'
    BY <1>17 DEF CancelStatus, Reply, threadVars
  <1>18. ASSUME NEW c \in Callers, NEW a \in Ids, UnknownAgent(c, a) PROVE CallerInv'
    BY <1>18 DEF UnknownAgent, Reply, threadVars
  <1>19. ASSUME NEW c \in Callers, NEW a \in Ids, Status(c, a) PROVE CallerInv'
    BY <1>19 DEF Status, Reply, threadVars
  <1>20. ASSUME NEW c \in Callers, NEW a \in Ids, JoinTake(c, a) PROVE CallerInv'
    <2>1. thread[a] # "absent"
      BY <1>20 DEF JoinTake
    <2>2. CASE Wait(c, "wait", a, TRUE)
      BY <1>20, <2>1, <2>2 DEF JoinTake, Wait, threadVars
    <2>3. CASE Wait(c, "read", a, FALSE)
      BY <1>20, <2>1, <2>3 DEF JoinTake, Wait, threadVars
    <2> QED
      BY <1>20, <2>2, <2>3 DEF JoinTake
  <1>21. ASSUME NEW c \in Callers, NEW a \in Ids, CancelFlag(c, a) PROVE CallerInv'
    BY <1>21 DEF CancelFlag, Wait, threadVars
  <1>22. ASSUME Restart PROVE CallerInv'
    BY <1>22 DEF Restart
  <1>23. CASE UNCHANGED vars
    BY <1>23 DEF vars
  <1>24. QED
    BY <1>1, <1>2, <1>3, <1>4, <1>5, <1>6, <1>7, <1>8, <1>9, <1>10, <1>11, <1>12, <1>13, <1>14, <1>15, <1>16, <1>17, <1>18, <1>19, <1>20, <1>21, <1>22, <1>23 DEF Next, Work, Proceed

\* Every step keeps what an acknowledged cancel says about the flag and the verdict.
LEMMA CancelStep == TypeOK /\ StageInv /\ CallerInv /\ CancelInv /\ [Next]_vars => CancelInv'
  <1> SUFFICES ASSUME TypeOK, StageInv, CallerInv, CancelInv, [Next]_vars PROVE CancelInv'
    OBVIOUS
  <1> USE SupervisorAssumption DEF TypeOK, StageInv, CallerInv, CancelInv, Ids, Points, Ended, Idle, Terminal
  <1>1. ASSUME NEW a \in Ids, Start(a) PROVE CancelInv'
    BY <1>1 DEF Start, Goto, Event, Write, callerVars
  <1>2. ASSUME NEW a \in Ids, CheckStart(a) PROVE CancelInv'
    BY <1>2 DEF CheckStart, Goto, Conclude, callerVars
  <1>3. ASSUME NEW a \in Ids, CreateProvider(a) PROVE CancelInv'
    <2>1. CASE Goto(a, "running") /\ UNCHANGED verdict
      BY <1>3, <2>1 DEF CreateProvider, Conclude, Goto, callerVars
    <2>2. CASE Conclude(a, "Failed", "record")
      BY <1>3, <2>2 DEF CreateProvider, Conclude, Goto, callerVars
    <2> QED
      BY <1>3, <2>1, <2>2 DEF CreateProvider
  <1>4. ASSUME NEW a \in Ids, Turn(a) PROVE CancelInv'
    <2>1. CASE UNCHANGED << thread, verdict >>
      BY <1>4, <2>1 DEF Turn, Conclude, Goto, callerVars
    <2>2. CASE \E v \in {"Completed", "Failed"} : Conclude(a, v, "persist")
      <3>1. PICK v \in {"Completed", "Failed"} : Conclude(a, v, "persist")
        BY <2>2
      <3>2. thread' = [thread EXCEPT ![a] = "persist"]
        BY <3>1 DEF Conclude, Goto
      <3>3. \A b \in Ids \ {a} : verdict'[b] = verdict[b] /\ thread'[b] = thread[b]
        BY <3>1, <3>2 DEF Conclude
      <3>4. ackedAt' = ackedAt /\ cancelled' = cancelled /\ thread[a] = "running"
        BY <1>4 DEF Turn, callerVars
      <3>5. thread'[a] = "persist"
        BY <3>2
      <3>6. ackedAt[a] \notin {"start", "check_start"}
        BY <3>4
      <3> QED
        BY <3>3, <3>4, <3>5, <3>6
    <2> QED
      BY <1>4, <2>1, <2>2 DEF Turn
  <1>5. ASSUME NEW a \in Ids, TurnLimit(a) PROVE CancelInv'
    BY <1>5 DEF TurnLimit, Conclude, Goto, callerVars
  <1>6. ASSUME NEW a \in Ids, PersistHistory(a) PROVE CancelInv'
    BY <1>6 DEF PersistHistory, Goto, Write, callerVars
  <1>7. ASSUME NEW a \in Ids, CheckEnd(a) PROVE CancelInv'
    <2>1. CASE cancelled[a] /\ Conclude(a, "Cancelled", "record")
      BY <1>7, <2>1 DEF CheckEnd, Conclude, Goto, callerVars
    <2>2. CASE ~cancelled[a] /\ UNCHANGED verdict
      BY <1>7, <2>2 DEF CheckEnd, Conclude, Goto, callerVars
    <2> QED
      BY <1>7, <2>1, <2>2 DEF CheckEnd
  <1>8. ASSUME NEW a \in Ids, WriteReport(a) PROVE CancelInv'
    BY <1>8 DEF WriteReport, Goto, Write, callerVars
  <1>9. ASSUME NEW a \in Ids, RecordEnd(a) PROVE CancelInv'
    BY <1>9 DEF RecordEnd, Goto, Event, Write, callerVars
  <1>10. ASSUME NEW a \in Ids, Publish(a) PROVE CancelInv'
    BY <1>10 DEF Publish, Goto, callerVars
  <1>11. ASSUME NEW a \in Ids, Panic(a) PROVE CancelInv'
    BY <1>11 DEF Panic, Goto, callerVars
  <1>12. ASSUME NEW c \in Callers, DelegateRefused(c) PROVE CancelInv'
    BY <1>12 DEF DelegateRefused, Reply, threadVars
  <1>13. ASSUME NEW c \in Callers, DelegateSpawn(c) PROVE CancelInv'
    <2>1. nextId \in Ids /\ thread[nextId] = "absent"
      BY <1>13 DEF DelegateSpawn
    <2>2. thread' = [thread EXCEPT ![nextId] = "start"]
      BY <1>13 DEF DelegateSpawn, Goto
    <2>3. ackedAt' = ackedAt /\ cancelled' = cancelled /\ verdict' = verdict
      BY <1>13 DEF DelegateSpawn, threadVars
    <2>4. \A b \in Ids \ {nextId} : thread'[b] = thread[b]
      BY <2>2
    <2>5. thread'[nextId] = "start"
      BY <2>1, <2>2
    <2> QED
      BY <2>1, <2>3, <2>4, <2>5
  <1>14. ASSUME NEW c \in Callers, DelegateInsert(c) PROVE CancelInv'
    BY <1>14 DEF DelegateInsert, Reply, threadVars
  <1>15. ASSUME NEW c \in Callers, JoinWait(c) PROVE CancelInv'
    BY <1>15 DEF JoinWait, Wait, Reply, threadVars
  <1>16. ASSUME NEW c \in Callers, JoinRead(c) PROVE CancelInv'
    BY <1>16 DEF JoinRead, Reply, JoinValue, threadVars
  <1>17. ASSUME NEW c \in Callers, CancelStatus(c) PROVE CancelInv'
    BY <1>17 DEF CancelStatus, Reply, threadVars
  <1>18. ASSUME NEW c \in Callers, NEW a \in Ids, UnknownAgent(c, a) PROVE CancelInv'
    BY <1>18 DEF UnknownAgent, Reply, threadVars
  <1>19. ASSUME NEW c \in Callers, NEW a \in Ids, Status(c, a) PROVE CancelInv'
    BY <1>19 DEF Status, Reply, threadVars
  <1>20. ASSUME NEW c \in Callers, NEW a \in Ids, JoinTake(c, a) PROVE CancelInv'
    BY <1>20 DEF JoinTake, Wait, threadVars
  <1>21. ASSUME NEW c \in Callers, NEW a \in Ids, CancelFlag(c, a) PROVE CancelInv'
    BY <1>21 DEF CancelFlag, Wait, threadVars
  <1>22. ASSUME Restart PROVE CancelInv'
    BY <1>22 DEF Restart
  <1>23. CASE UNCHANGED vars
    BY <1>23 DEF vars
  <1>24. QED
    BY <1>1, <1>2, <1>3, <1>4, <1>5, <1>6, <1>7, <1>8, <1>9, <1>10, <1>11, <1>12, <1>13, <1>14, <1>15, <1>16, <1>17, <1>18, <1>19, <1>20, <1>21, <1>22, <1>23 DEF Next, Work, Proceed

\* The only answer that would break the property is never given.
LEMMA OwnerReply ==
  ASSUME TypeOK, OwnerOfHandleSeesTheEnd, NEW c \in Callers, NEW op, NEW a, NEW value, NEW owned,
         Reply(c, op, a, value, owned),
         op = "join" /\ owned => value # "agent is still running"
  PROVE  OwnerOfHandleSeesTheEnd'
  BY DEF Reply, OwnerOfHandleSeesTheEnd, TypeOK

\* No step answers still running to a join that took the handle.
LEMMA OwnerStep == TypeOK /\ StageInv /\ CallerInv /\ OwnerOfHandleSeesTheEnd /\ [Next]_vars => OwnerOfHandleSeesTheEnd'
  <1> SUFFICES ASSUME TypeOK, StageInv, CallerInv, OwnerOfHandleSeesTheEnd, [Next]_vars PROVE OwnerOfHandleSeesTheEnd'
    OBVIOUS
  <1> USE SupervisorAssumption DEF StageInv, CallerInv, Terminal
  <1>1. ASSUME NEW a \in Ids, Start(a) PROVE OwnerOfHandleSeesTheEnd'
    BY <1>1 DEF Start, Goto, Event, Write, callerVars, OwnerOfHandleSeesTheEnd
  <1>2. ASSUME NEW a \in Ids, CheckStart(a) PROVE OwnerOfHandleSeesTheEnd'
    BY <1>2 DEF CheckStart, Goto, Conclude, callerVars, OwnerOfHandleSeesTheEnd
  <1>3. ASSUME NEW a \in Ids, CreateProvider(a) PROVE OwnerOfHandleSeesTheEnd'
    BY <1>3 DEF CreateProvider, Goto, Conclude, callerVars, OwnerOfHandleSeesTheEnd
  <1>4. ASSUME NEW a \in Ids, Turn(a) PROVE OwnerOfHandleSeesTheEnd'
    BY <1>4 DEF Turn, Conclude, Goto, callerVars, OwnerOfHandleSeesTheEnd
  <1>5. ASSUME NEW a \in Ids, TurnLimit(a) PROVE OwnerOfHandleSeesTheEnd'
    BY <1>5 DEF TurnLimit, Conclude, Goto, callerVars, OwnerOfHandleSeesTheEnd
  <1>6. ASSUME NEW a \in Ids, PersistHistory(a) PROVE OwnerOfHandleSeesTheEnd'
    BY <1>6 DEF PersistHistory, Goto, Write, callerVars, OwnerOfHandleSeesTheEnd
  <1>7. ASSUME NEW a \in Ids, CheckEnd(a) PROVE OwnerOfHandleSeesTheEnd'
    BY <1>7 DEF CheckEnd, Goto, Conclude, callerVars, OwnerOfHandleSeesTheEnd
  <1>8. ASSUME NEW a \in Ids, WriteReport(a) PROVE OwnerOfHandleSeesTheEnd'
    BY <1>8 DEF WriteReport, Goto, Write, callerVars, OwnerOfHandleSeesTheEnd
  <1>9. ASSUME NEW a \in Ids, RecordEnd(a) PROVE OwnerOfHandleSeesTheEnd'
    BY <1>9 DEF RecordEnd, Goto, Event, Write, callerVars, OwnerOfHandleSeesTheEnd
  <1>10. ASSUME NEW a \in Ids, Publish(a) PROVE OwnerOfHandleSeesTheEnd'
    BY <1>10 DEF Publish, Goto, callerVars, OwnerOfHandleSeesTheEnd
  <1>11. ASSUME NEW a \in Ids, Panic(a) PROVE OwnerOfHandleSeesTheEnd'
    BY <1>11 DEF Panic, Goto, callerVars, OwnerOfHandleSeesTheEnd
  <1>12. ASSUME NEW c \in Callers, DelegateRefused(c) PROVE OwnerOfHandleSeesTheEnd'
    BY <1>12, OwnerReply DEF DelegateRefused
  <1>13. ASSUME NEW c \in Callers, DelegateSpawn(c) PROVE OwnerOfHandleSeesTheEnd'
    BY <1>13 DEF DelegateSpawn, Goto, Wait, threadVars, OwnerOfHandleSeesTheEnd
  <1>14. ASSUME NEW c \in Callers, DelegateInsert(c) PROVE OwnerOfHandleSeesTheEnd'
    BY <1>14, OwnerReply DEF DelegateInsert
  <1>15. ASSUME NEW c \in Callers, JoinWait(c) PROVE OwnerOfHandleSeesTheEnd'
    <2>1. CASE UNCHANGED answer
      BY <2>1 DEF OwnerOfHandleSeesTheEnd
    <2>2. CASE Reply(c, "join", caller[c].agent, "agent panicked", TRUE)
      BY <2>2, OwnerReply
    <2> QED
      BY <1>15, <2>1, <2>2 DEF JoinWait
  <1>16. ASSUME NEW c \in Callers, JoinRead(c) PROVE OwnerOfHandleSeesTheEnd'
    <2>1. Reply(c, "join", caller[c].agent, JoinValue(caller[c].agent), caller[c].owned)
      BY <1>16 DEF JoinRead
    <2>2. ASSUME caller[c].owned PROVE JoinValue(caller[c].agent) # "agent is still running"
      <3>1. caller[c].agent \in Ids /\ thread[caller[c].agent] = "done"
        BY <1>16, <2>2 DEF JoinRead
      <3>2. status[caller[c].agent] \in {"Completed", "Failed", "Cancelled"}
        BY <3>1
      <3> QED
        BY <3>2 DEF JoinValue
    <2> QED
      BY <2>1, <2>2, OwnerReply
  <1>17. ASSUME NEW c \in Callers, CancelStatus(c) PROVE OwnerOfHandleSeesTheEnd'
    BY <1>17, OwnerReply DEF CancelStatus
  <1>18. ASSUME NEW c \in Callers, NEW a \in Ids, UnknownAgent(c, a) PROVE OwnerOfHandleSeesTheEnd'
    BY <1>18, OwnerReply DEF UnknownAgent
  <1>19. ASSUME NEW c \in Callers, NEW a \in Ids, Status(c, a) PROVE OwnerOfHandleSeesTheEnd'
    BY <1>19, OwnerReply DEF Status
  <1>20. ASSUME NEW c \in Callers, NEW a \in Ids, JoinTake(c, a) PROVE OwnerOfHandleSeesTheEnd'
    BY <1>20 DEF JoinTake, Wait, threadVars, OwnerOfHandleSeesTheEnd
  <1>21. ASSUME NEW c \in Callers, NEW a \in Ids, CancelFlag(c, a) PROVE OwnerOfHandleSeesTheEnd'
    BY <1>21 DEF CancelFlag, Wait, threadVars, OwnerOfHandleSeesTheEnd
  <1>22. ASSUME Restart PROVE OwnerOfHandleSeesTheEnd'
    BY <1>22 DEF Restart, OwnerOfHandleSeesTheEnd, NoAnswer
  <1>23. CASE UNCHANGED vars
    BY <1>23 DEF vars, OwnerOfHandleSeesTheEnd
  <1>24. QED
    BY <1>1, <1>2, <1>3, <1>4, <1>5, <1>6, <1>7, <1>8, <1>9, <1>10, <1>11, <1>12, <1>13, <1>14, <1>15, <1>16, <1>17, <1>18, <1>19, <1>20, <1>21, <1>22, <1>23 DEF Next, Work, Proceed

-----------------------------------------------------------------------------
\* The initial states satisfy the inductive invariant.
LEMMA Initially == Init => IInv
  <1> SUFFICES ASSUME Init PROVE IInv
    OBVIOUS
  <1>1. TypeOK
    <2>1. [events |-> << >>, history |-> {}, report |-> {}] \in Records
      BY DEF Records
    <2> QED
      BY <2>1, SupervisorAssumption, IdleType DEF Init, TypeOK, Ids, Epochs
  <1>2. StageInv /\ CallerInv /\ CancelInv
    BY DEF Init, StageInv, CallerInv, CancelInv, Idle
  <1>3. OwnerOfHandleSeesTheEnd
    BY DEF Init, OwnerOfHandleSeesTheEnd, NoAnswer
  <1> QED
    BY <1>1, <1>2, <1>3 DEF IInv

\* The inductive invariant holds in every behaviour.
LEMMA Invariance == Spec => []IInv
  <1>1. IInv /\ [Next]_vars => IInv'
    BY TypeStep, StageStep, CallerStep, CancelStep, OwnerStep DEF IInv
  <1> QED
    BY Initially, <1>1, PTL DEF Spec

\* Every variable keeps its type in every behaviour of the supervisor.
THEOREM TypeCorrect == Spec => []TypeOK
  BY Invariance, PTL DEF IInv

\* The join that consumed the thread's handle is never told that the agent is
\* still running, whatever the other callers, panics and disk faults do
\* (AgentSupervisor::join).
THEOREM JoinOwnerSeesTheEnd == Spec => []OwnerOfHandleSeesTheEnd
  BY Invariance, PTL DEF IInv

\* A cancel acknowledged before the thread's last look at the flag decides the
\* outcome of the run (run_agent_thread, AgentSupervisor::cancel).
THEOREM EarlyCancelDecides == Spec => []EarlyCancelWins
  <1>1. IInv => EarlyCancelWins
    BY DEF IInv, TypeOK, StageInv, CancelInv, EarlyCancelWins
  <1> QED
    BY Invariance, <1>1, PTL

\* Completed and Failed are final while the process lives.
THEOREM FinalStatus == Spec => FinishedIsFinal
  <1> DEFINE Keeps == \A a \in Ids : status[a] \in {"Completed", "Failed"} /\ epoch' = epoch =>
                        status'[a] = status[a]
  <1>1. IInv /\ [Next]_vars => [Keeps]_vars
    <2> SUFFICES ASSUME IInv, Next PROVE Keeps
      OBVIOUS
    <2> USE DEF IInv, StageInv, TypeOK
    <2>1. ASSUME NEW b \in Ids, Work(b) \/ Panic(b) PROVE Keeps
      BY <2>1 DEF Work, Start, CheckStart, CreateProvider, Turn, TurnLimit, PersistHistory,
         CheckEnd, WriteReport, RecordEnd, Publish, Panic
    <2>2. ASSUME NEW c \in Callers, DelegateSpawn(c) PROVE Keeps
      BY <2>2 DEF DelegateSpawn
    <2>3. ASSUME NEW c \in Callers, CancelStatus(c) PROVE Keeps
      BY <2>3 DEF CancelStatus, CallerInv
    <2>4. ASSUME NEW c \in Callers,
                 DelegateRefused(c) \/ DelegateInsert(c) \/ JoinWait(c) \/ JoinRead(c)
          PROVE  Keeps
      BY <2>4 DEF DelegateRefused, DelegateInsert, JoinWait, JoinRead
    <2>5. ASSUME NEW c \in Callers, NEW b \in Ids,
                 UnknownAgent(c, b) \/ Status(c, b) \/ JoinTake(c, b) \/ CancelFlag(c, b)
          PROVE  Keeps
      BY <2>5 DEF UnknownAgent, Status, JoinTake, CancelFlag
    <2>6. ASSUME Restart PROVE Keeps
      BY <2>6 DEF Restart, Epochs
    <2> QED
      BY <2>1, <2>2, <2>3, <2>4, <2>5, <2>6 DEF Next, Proceed
  <1> QED
    BY Invariance, <1>1, PTL DEF FinishedIsFinal, Spec
-----------------------------------------------------------------------------
\* A file whose writes do not fail is ahead of the thread, and the thread is
\* ahead of the status.
DiskInv ==
  \A a \in Ids :
    verdict[a] = "Completed" =>
      /\ thread[a] \in {"check_end", "write_report", "record", "publish", "done"} => HistoryKept(a)
      /\ thread[a] \in {"record", "publish", "done"} => ReportKept(a)
      /\ thread[a] \in {"publish", "done"} => EndKept(a)

\* The moves of a thread between two writes, and no move at all.
Quiet(a) ==
  verdict'[a] = "Completed" =>
    \/ thread'[a] \in {"absent", "start", "check_start", "provider", "running", "persist", "panicked"}
    \/ /\ verdict[a] = "Completed"
       /\ \/ thread'[a] = thread[a]
          \/ thread[a] = "check_end" /\ thread'[a] = "write_report"
          \/ thread[a] = "publish" /\ thread'[a] = "done"

\* Between two writes nothing on disk changes.
LEMMA QuietStep ==
  ASSUME DiskInv, UNCHANGED << dir, epoch >>, \A a \in Ids : Quiet(a)
  PROVE  DiskInv'
  <1> SUFFICES ASSUME NEW a \in Ids, verdict'[a] = "Completed"
               PROVE  /\ thread'[a] \in {"check_end", "write_report", "record", "publish", "done"}
                           => HistoryKept(a)'
                      /\ thread'[a] \in {"record", "publish", "done"} => ReportKept(a)'
                      /\ thread'[a] \in {"publish", "done"} => EndKept(a)'
    BY DEF DiskInv, Ids
  <1>1. CASE thread'[a] \in {"absent", "start", "check_start", "provider", "running", "persist",
                            "panicked"}
    BY <1>1
  <1>2. CASE /\ verdict[a] = "Completed"
             /\ \/ thread'[a] = thread[a]
                \/ thread[a] = "check_end" /\ thread'[a] = "write_report"
                \/ thread[a] = "publish" /\ thread'[a] = "done"
    BY <1>2 DEF DiskInv, HistoryKept, ReportKept, EndKept
  <1> QED
    BY <1>1, <1>2 DEF Quiet

\* Every step keeps the record complete, up to the files whose writes fail.
LEMMA DiskStep == TypeOK /\ StageInv /\ CallerInv /\ DiskInv /\ [Next]_vars => DiskInv'
  <1> SUFFICES ASSUME TypeOK, StageInv, CallerInv, DiskInv, [Next]_vars PROVE DiskInv'
    OBVIOUS
  <1> USE DEF TypeOK
  <1>1. ASSUME NEW a \in Ids,
               CheckStart(a) \/ CreateProvider(a) \/ Turn(a) \/ TurnLimit(a) \/ CheckEnd(a)
                 \/ Publish(a) \/ Panic(a)
        PROVE  DiskInv'
    <2>1. UNCHANGED << dir, epoch >>
      BY <1>1 DEF CheckStart, CreateProvider, Turn, TurnLimit, CheckEnd, Publish, Panic
    <2>2. /\ \A b \in Ids \ {a} : thread'[b] = thread[b] /\ verdict'[b] = verdict[b]
          /\ Quiet(a)
      <3>1. CASE CheckStart(a)
        BY <3>1 DEF CheckStart, Goto, Conclude, Quiet
      <3>2. CASE CreateProvider(a)
        BY <3>2 DEF CreateProvider, Goto, Conclude, Quiet
      <3>3. CASE Turn(a)
        BY <3>3 DEF Turn, Goto, Conclude, Quiet
      <3>4. CASE TurnLimit(a)
        BY <3>4 DEF TurnLimit, Goto, Conclude, Quiet
      <3>5. CASE CheckEnd(a)
        <4>1. CASE cancelled[a]
          BY <3>5, <4>1 DEF CheckEnd, Goto, Conclude, Quiet
        <4>2. CASE ~cancelled[a] /\ verdict[a] = "Completed"
          BY <3>5, <4>2 DEF CheckEnd, Goto, Quiet
        <4>3. CASE ~cancelled[a] /\ verdict[a] # "Completed"
          BY <3>5, <4>3 DEF CheckEnd, Goto, Quiet
        <4> QED
          BY <4>1, <4>2, <4>3
      <3>6. CASE Publish(a) \/ Panic(a)
        BY <3>6 DEF Publish, Panic, Goto, Quiet
      <3> QED
        BY <1>1, <3>1, <3>2, <3>3, <3>4, <3>5, <3>6
    <2> QED
      BY <2>1, <2>2, QuietStep DEF Quiet
  <1>2. ASSUME NEW a \in Ids, Start(a) PROVE DiskInv'
    <2>1. /\ thread' = [thread EXCEPT ![a] = "check_start"]
          /\ epoch' = epoch /\ verdict' = verdict
          /\ \A b \in Ids \ {a} : dir'[b] = dir[b]
      BY <1>2 DEF Start, Goto, Event, Write
    <2> QED
      BY <2>1 DEF DiskInv, HistoryKept, ReportKept, EndKept
  <1>3. ASSUME NEW a \in Ids, PersistHistory(a) PROVE DiskInv'
    <2>1. /\ \/ dir' = [dir EXCEPT ![a] = [dir[a] EXCEPT !.history = @ \cup {epoch}]]
             \/ "history" \in DiskFaults /\ dir' = dir
          /\ thread' = [thread EXCEPT ![a] = "check_end"]
          /\ epoch' = epoch /\ verdict' = verdict
      BY <1>3 DEF PersistHistory, Write, Goto
    <2>2. "history" \in DiskFaults \/ epoch \in dir'[a].history
      BY <2>1 DEF Records
    <2>3. \A b \in Ids \ {a} : dir'[b] = dir[b] /\ thread'[b] = thread[b]
      BY <2>1
    <2> QED
      BY <2>1, <2>2, <2>3 DEF DiskInv, HistoryKept, ReportKept, EndKept
  <1>4. ASSUME NEW a \in Ids, WriteReport(a) PROVE DiskInv'
    <2>1. /\ \/ dir' = [dir EXCEPT ![a] = [dir[a] EXCEPT !.report = {epoch}]]
             \/ "report" \in DiskFaults /\ dir' = dir
          /\ thread' = [thread EXCEPT ![a] = "record"]
          /\ epoch' = epoch /\ verdict' = verdict /\ thread[a] = "write_report"
      BY <1>4 DEF WriteReport, Write, Goto
    <2>2. /\ "report" \in DiskFaults \/ dir'[a].report = {epoch}
          /\ dir'[a].history = dir[a].history
          /\ thread'[a] = "record"
      BY <2>1 DEF Records
    <2>3. \A b \in Ids \ {a} : dir'[b] = dir[b] /\ thread'[b] = thread[b]
      BY <2>1
    <2> QED
      BY <2>1, <2>2, <2>3 DEF DiskInv, HistoryKept, ReportKept, EndKept
  <1>5. ASSUME NEW a \in Ids, RecordEnd(a) PROVE DiskInv'
    <2>1. /\ \/ dir' = [dir EXCEPT ![a] = [dir[a] EXCEPT !.events = Append(dir[a].events, verdict[a])]]
             \/ "events" \in DiskFaults /\ dir' = dir
          /\ thread' = [thread EXCEPT ![a] = "publish"]
          /\ epoch' = epoch /\ verdict' = verdict /\ thread[a] = "record"
      BY <1>5 DEF RecordEnd, Event, Write, Goto
    <2>2. /\ "events" \in DiskFaults \/ dir'[a].events = Append(dir[a].events, verdict[a])
          /\ dir'[a].report = dir[a].report /\ dir'[a].history = dir[a].history
          /\ thread'[a] = "publish"
      BY <2>1 DEF Records
    <2>3. "events" \in DiskFaults \/ dir'[a].events[Len(dir'[a].events)] = verdict[a]
      <3>1. dir[a].events \in Seq(Events)
        BY DEF Records
      <3> QED
        BY <2>2, <3>1
    <2>4. \A b \in Ids \ {a} : dir'[b] = dir[b] /\ thread'[b] = thread[b]
      BY <2>1
    <2> QED
      BY <2>1, <2>2, <2>3, <2>4 DEF DiskInv, HistoryKept, ReportKept, EndKept
  <1>6. ASSUME NEW c \in Callers, DelegateSpawn(c) PROVE DiskInv'
    <2>1. UNCHANGED << dir, epoch, verdict >> /\ thread' = [thread EXCEPT ![nextId] = "start"]
      BY <1>6 DEF DelegateSpawn, Goto, threadVars
    <2>2. \A a \in Ids : Quiet(a)
      BY <2>1 DEF Quiet
    <2> QED
      BY <2>1, <2>2, QuietStep
  <1>7. ASSUME UNCHANGED << dir, epoch, verdict, thread >> PROVE DiskInv'
    BY <1>7, QuietStep DEF Quiet
  <1>8. ASSUME NEW c \in Callers,
               DelegateRefused(c) \/ DelegateInsert(c) \/ JoinWait(c) \/ JoinRead(c) \/ CancelStatus(c)
        PROVE  DiskInv'
    BY <1>7, <1>8 DEF DelegateRefused, DelegateInsert, JoinWait, JoinRead, CancelStatus, threadVars
  <1>9. ASSUME NEW c \in Callers, NEW a \in Ids,
               UnknownAgent(c, a) \/ Status(c, a) \/ JoinTake(c, a) \/ CancelFlag(c, a)
        PROVE  DiskInv'
    BY <1>7, <1>9 DEF UnknownAgent, Status, JoinTake, CancelFlag, threadVars
  <1>10. ASSUME Restart PROVE DiskInv'
    BY <1>10 DEF Restart, DiskInv
  <1>11. CASE UNCHANGED vars
    BY <1>7, <1>11 DEF vars
  <1> QED
    BY <1>1, <1>2, <1>3, <1>4, <1>5, <1>6, <1>8, <1>9, <1>10, <1>11 DEF Next, Work, Proceed

\* Whoever sees Completed finds the transcript, report.md and the terminal
\* event of this very run on disk, each unless its own write has failed.
THEOREM CompletedHasItsRecord == Spec => []CompletedIsAuditable
  <1>1. Init => DiskInv
    BY DEF Init, DiskInv
  <1>2. IInv /\ DiskInv /\ [Next]_vars => DiskInv'
    BY DiskStep DEF IInv
  <1>3. IInv /\ DiskInv => CompletedIsAuditable
    BY DEF IInv, TypeOK, StageInv, DiskInv, CompletedIsAuditable
  <1> QED
    BY Invariance, <1>1, <1>2, <1>3, PTL DEF Spec
=============================================================================

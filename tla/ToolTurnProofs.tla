---------------------------- MODULE ToolTurnProofs ----------------------------
(***************************************************************************)
(* Proofs about the tool batches of a run: for any tools, rules and        *)
(* batches, any pipe and any output of a command.                          *)
(***************************************************************************)
EXTENDS ToolTurn, SequenceTheorems, TLAPS

(***************************************************************************)
(* The command.                                                            *)
(***************************************************************************)
\* What is written is in the pipe or read, and what a place of execute says of the
\* shell stays true: a shell that has ended never runs again.  A result is what was
\* read, or was cut.
Told ==
  poller \in {"done", "done_late"} =>
    \/ cut = FALSE /\ kept = read
    \/ cut = TRUE /\ read > MaxOutputBytes /\ kept \in Cutoffs

BashInv ==
  /\ BashTypeOK
  /\ read + pipe = written
  /\ written + toWrite <= MaxOutput
  /\ poller = "idle" => shell = "none" /\ written = 0
  /\ shell = "exited" => toWrite = 0
  /\ poller = "collect" => shell = "exited"
  /\ poller \in {"done", "done_late"} => pipe = 0 /\ shell \in {"exited", "killed"}
  /\ poller = "done" => shell = "exited"
  /\ Told

\* BashInv without the Boolean variables.
Flow ==
  /\ poller \in Pollers
  /\ shell \in {"none", "running", "exited", "killed"}
  /\ background \in {"none", "ends", "stays"}
  /\ toWrite \in 0 .. MaxOutput
  /\ pipe \in 0 .. PipeSize
  /\ written \in 0 .. MaxOutput
  /\ read \in 0 .. MaxOutput
  /\ kept \in 0 .. MaxOutput
  /\ read + pipe = written
  /\ written + toWrite <= MaxOutput
  /\ poller = "idle" => shell = "none" /\ written = 0
  /\ shell = "exited" => toWrite = 0
  /\ poller = "collect" => shell = "exited"
  /\ poller \in {"done", "done_late"} => pipe = 0 /\ shell \in {"exited", "killed"}
  /\ poller = "done" => shell = "exited"
  /\ Told

LEMMA FlowIsBash ==
  BashInv <=> endless \in BOOLEAN /\ late \in BOOLEAN /\ cut \in BOOLEAN /\ Flow
  BY DEF BashInv, BashTypeOK, Flow

LEMMA InitialBash == BashIdle => BashInv
  <1> SUFFICES ASSUME BashIdle PROVE BashInv
    OBVIOUS
  <1>1. endless \in BOOLEAN /\ late \in BOOLEAN /\ cut \in BOOLEAN
    BY DEF BashIdle
  <1>2. Flow
    BY BashAssumption DEF BashIdle, Flow, Pollers, Told
  <1> QED
    BY <1>1, <1>2, FlowIsBash

LEMMA SpawnKeeps ==
  ASSUME BashInv, Spawn
  PROVE  BashInv'
  <1>1. endless' \in BOOLEAN /\ late' \in BOOLEAN /\ cut' \in BOOLEAN
    <2>1. endless' \in BOOLEAN
      BY Zenon DEF Spawn
    <2>2. late' = late /\ cut' = cut
      BY DEF Spawn
    <2>3. late \in BOOLEAN /\ cut \in BOOLEAN
      BY FlowIsBash
    <2> QED
      BY <2>1, <2>2, <2>3
  <1>2. Flow
    BY FlowIsBash
  <1>3. /\ poller = "idle" /\ poller' = "poll" /\ shell' = "running"
        /\ background' \in {"none", "ends", "stays"} /\ toWrite' \in 0 .. MaxOutput
        /\ UNCHANGED << pipe, written, read, kept >>
    BY DEF Spawn
  <1>4. Flow'
    <2>1. written = 0 /\ poller' \in Pollers /\ poller' \notin {"idle", "collect", "done", "done_late"}
      BY <1>2, <1>3 DEF Flow, Pollers
    <2>2. written' + toWrite' <= MaxOutput
      <3>1. \A n \in 0 .. MaxOutput : written + n <= MaxOutput
        BY <2>1, BashAssumption
      <3> QED
        BY <1>3, <3>1
    <2>3. /\ pipe' \in 0 .. PipeSize /\ written' \in 0 .. MaxOutput /\ read' \in 0 .. MaxOutput
          /\ kept' \in 0 .. MaxOutput /\ read' + pipe' = written'
      BY <1>2, <1>3 DEF Flow
    <2> QED
      BY <1>3, <2>1, <2>2, <2>3 DEF Flow, Told
  <1> QED
    BY <1>1, <1>4 DEF BashInv, BashTypeOK, Flow

LEMMA BashResetKeeps == BashReset => BashInv'
  <1> SUFFICES ASSUME BashReset PROVE BashInv'
    OBVIOUS
  <1>1. endless' \in BOOLEAN /\ late' \in BOOLEAN /\ cut' \in BOOLEAN
    BY DEF BashReset
  <1>2. Flow'
    BY BashAssumption DEF BashReset, Flow, Pollers, Told
  <1> QED
    BY <1>1, <1>2 DEF BashInv, BashTypeOK, Flow

LEMMA ProcessesKeep ==
  ASSUME BashInv, Processes
  PROVE  BashInv' /\ poller' = poller
  <1>1. CASE ShellWrites
    BY <1>1, BashAssumption DEF ShellWrites, BashInv, BashTypeOK, Pollers, Told
  <1>2. CASE ShellExits
    BY <1>2, BashAssumption DEF ShellExits, BashInv, BashTypeOK, Pollers, Told
  <1>3. CASE BackgroundEnds
    BY <1>3, BashAssumption DEF BackgroundEnds, BashInv, BashTypeOK, Pollers, Told
  <1>4. CASE TimeoutPasses
    BY <1>4, BashAssumption DEF TimeoutPasses, BashInv, BashTypeOK, Pollers, Told
  <1> QED
    BY <1>1, <1>2, <1>3, <1>4 DEF Processes

LEMMA ExecuteKeeps ==
  ASSUME BashInv, Execute
  PROVE  BashInv' /\ poller # "idle" /\ poller' # "idle"
  <1>1. CASE Poll
    BY <1>1, BashAssumption DEF Poll, BashInv, BashTypeOK, Pollers, Told
  <1>2. CASE Kill
    BY <1>2, BashAssumption DEF Kill, BashInv, BashTypeOK, Pollers, Told
  <1>3. CASE PollFails \/ LateReadFails
    BY <1>3, BashAssumption DEF PollFails, LateReadFails, BashInv, BashTypeOK, Pollers, Told
  <1>4. CASE ReadOutput
    BY <1>4, BashAssumption DEF ReadOutput, BashInv, BashTypeOK, Pollers, Told
  <1>5. CASE ReadEnd
    <2>1. Flow
      BY FlowIsBash
    <2>2. /\ poller \in {"collect", "collect_late"} /\ poller' \in {"done", "done_late"}
          /\ poller' = "done" => poller = "collect"
          /\ pipe = 0 /\ PipeClosed
          /\ UNCHANGED << shell, background, toWrite, pipe, written, read >>
      BY <1>5 DEF ReadEnd
    <2>3. Told' /\ kept' \in 0 .. MaxOutput /\ cut' \in BOOLEAN
      <3>1. read \in 0 .. MaxOutput /\ read' = read
        BY <2>1, <2>2 DEF Flow
      <3>2. CASE read <= MaxOutputBytes /\ kept' = read /\ cut' = FALSE
        BY <3>1, <3>2 DEF Told
      <3>3. CASE read > MaxOutputBytes /\ kept' \in Cutoffs /\ cut' = TRUE
        <4>1. Told'
          BY <3>1, <3>3 DEF Told, Cutoffs
        <4>2. kept' \in 0 .. MaxOutputBytes
          BY <3>3 DEF Cutoffs
        <4>3. kept' \in 0 .. MaxOutput
          BY <3>1, <3>3, <4>2, BashAssumption
        <4> QED
          BY <3>3, <4>1, <4>3
      <3> QED
        BY <1>5, <3>2, <3>3 DEF ReadEnd, TruncateOutput
    <2>4. Flow'
      BY <2>1, <2>2, <2>3 DEF Flow, Pollers, PipeClosed
    <2>5. endless' \in BOOLEAN /\ late' \in BOOLEAN
      BY <1>5 DEF ReadEnd, BashInv, BashTypeOK
    <2> QED
      BY <2>2, <2>3, <2>4, <2>5 DEF BashInv, BashTypeOK, Flow
  <1> QED
    BY <1>1, <1>2, <1>3, <1>4, <1>5 DEF Execute

LEMMA BashRests ==
  ASSUME BashInv, UNCHANGED bashVars
  PROVE  BashInv' /\ poller' = poller
  BY DEF bashVars, BashInv, BashTypeOK, Pollers, Told, Cutoffs

LEMMA BashStep == BashInv /\ [Next]_vars => BashInv'
  <1> SUFFICES ASSUME BashInv, [Next]_vars PROVE BashInv'
    OBVIOUS
  <1>1. CASE StartBash
    BY <1>1, SpawnKeeps DEF StartBash
  <1>2. CASE EndBash
    BY <1>2, BashResetKeeps DEF EndBash
  <1>3. CASE (Processes \/ Execute) /\ UNCHANGED turnVars
    BY <1>3, ProcessesKeep, ExecuteKeeps
  <1>4. ASSUME UNCHANGED bashVars PROVE BashInv'
    BY <1>4, BashRests
  <1>5. CASE StartBatch \/ ObserveBatch \/ UNCHANGED vars
    BY <1>4, <1>5 DEF StartBatch, ObserveBatch, vars
  <1>6. CASE RuntimeCommand \/ UnknownTool \/ Deny \/ Ask \/ Refused \/ ExecuteTool \/ ToolPanics
             \/ StartBashFails
    BY <1>4, <1>6 DEF RuntimeCommand, UnknownTool, Deny, Ask, Refused, ExecuteTool, ToolPanics,
       StartBashFails
  <1> QED
    BY <1>1, <1>2, <1>3, <1>5, <1>6 DEF Next, Dispatch

LEMMA BashInvariant == Spec => []BashInv
  <1>1. Init => BashInv
    BY InitialBash DEF Init
  <1> QED
    BY <1>1, BashStep, PTL DEF Spec

\* The result of a command tells its output, whatever the command writes, however
\* small the pipe and the limit and whether or not it was killed: without the note
\* of the cut it holds everything, with it the first bytes up to the limit.
THEOREM ResultsTellTheirOutput == Spec => []ResultTellsItsOutput
  <1>1. BashInv => ResultTellsItsOutput
    BY DEF BashInv, BashTypeOK, Told, ResultTellsItsOutput
  <1> QED
    BY <1>1, BashInvariant, PTL

-----------------------------------------------------------------------------
(***************************************************************************)
(* The calls of a batch and their results.                                 *)
(***************************************************************************)
Codes == {"none", "MISSING_ARGUMENT", "UNKNOWN_TOOL", "EDIT_TEXT_NOT_FOUND", "EDIT_TEXT_AMBIGUOUS",
          "FILE_NOT_FOUND", "PERMISSION_DENIED", "UNKNOWN_TOOL_ERROR"}

Answers == [call : Calls, ok : BOOLEAN, code : Codes]

\* The calls whose results are there.
Given(s) == [i \in DOMAIN s |-> s[i].call]

\* Results and remaining calls together are always the batch of the response.
CallsInv ==
  /\ todo \in Seq(Calls)
  /\ results \in Seq(Answers)
  /\ Given(results) \o todo \in Batches \cup {<< >>}

LEMMA GivenProperties ==
  ASSUME NEW s \in Seq(Answers)
  PROVE  /\ Given(s) \in Seq(Calls) /\ Len(Given(s)) = Len(s)
         /\ \A i \in 1 .. Len(s) : Given(s)[i] = s[i].call
  <1>1. Len(s) \in Nat /\ DOMAIN s = 1 .. Len(s) /\ \A i \in 1 .. Len(s) : s[i] \in Answers
    BY LenProperties, ElementOfSeq
  <1>2. \A a \in Answers : a.call \in Calls
    BY DEF Answers
  <1>3. Given(s) \in [1 .. Len(s) -> Calls]
    BY <1>1, <1>2 DEF Given
  <1>4. Given(s) \in Seq(Calls) /\ Len(Given(s)) = Len(s)
    BY <1>1, <1>3, SeqDef
  <1> QED
    BY <1>1, <1>4 DEF Given

\* The result of the first call takes its place.
LEMMA GivenGrows ==
  ASSUME NEW s \in Seq(Answers), NEW t \in Seq(Calls), t # << >>, NEW r \in Answers, r.call = Head(t)
  PROVE  Given(Append(s, r)) \o Tail(t) = Given(s) \o t
  <1> DEFINE g == Given(s)
             h == Given(Append(s, r))
             u == Tail(t)
             n == Len(s)
             m == Len(t)
  <1>1. /\ Append(s, r) \in Seq(Answers) /\ Len(Append(s, r)) = n + 1
        /\ \A i \in 1 .. n : Append(s, r)[i] = s[i]
        /\ Append(s, r)[n + 1] = r
    BY AppendProperties
  <1>2. n \in Nat /\ m \in Nat \ {0}
    BY LenProperties, EmptySeq
  <1>3. /\ g \in Seq(Calls) /\ Len(g) = n
        /\ \A i \in 1 .. n : g[i] = s[i].call
    BY GivenProperties
  <1>4. /\ h \in Seq(Calls) /\ Len(h) = n + 1
        /\ \A i \in 1 .. n + 1 : h[i] = Append(s, r)[i].call
    BY <1>1, GivenProperties
  <1>5. /\ u \in Seq(Calls) /\ Len(u) = m - 1
        /\ \A i \in 1 .. m - 1 : u[i] = t[i + 1]
    BY HeadTailProperties
  <1>6. Head(t) = t[1]
    OBVIOUS
  <1>7. /\ \A i \in 1 .. n : h[i] = g[i]
        /\ h[n + 1] = t[1]
    BY <1>1, <1>2, <1>3, <1>4, <1>6
  <1> HIDE DEF g, h, u, n, m
  <1> DEFINE x == h \o u
             y == g \o t
  <1>8. /\ x \in Seq(Calls) /\ Len(x) = n + m
        /\ \A i \in 1 .. n + m : x[i] = IF i <= n + 1 THEN h[i] ELSE u[i - (n + 1)]
    <2>1. (n + 1) + (m - 1) = n + m
      BY <1>2
    <2>2. /\ x \in Seq(Calls) /\ Len(x) = Len(h) + Len(u)
          /\ \A i \in 1 .. Len(h) + Len(u) : x[i] = IF i <= Len(h) THEN h[i] ELSE u[i - Len(h)]
      BY <1>4, <1>5, ConcatProperties
    <2>3. Len(h) = n + 1 /\ Len(u) = m - 1
      BY <1>4, <1>5
    <2> QED
      BY <2>1, <2>2, <2>3
  <1>9. /\ y \in Seq(Calls) /\ Len(y) = n + m
        /\ \A i \in 1 .. n + m : y[i] = IF i <= n THEN g[i] ELSE t[i - n]
    BY <1>3, ConcatProperties DEF m
  <1> HIDE DEF x, y
  <1>10. ASSUME NEW i \in 1 .. n + m PROVE x[i] = y[i]
    <2>1. CASE i <= n
      <3>1. i \in 1 .. n /\ i <= n + 1
        BY <1>2, <2>1
      <3>2. x[i] = h[i] /\ y[i] = g[i]
        BY <1>8, <1>9, <2>1, <3>1
      <3> QED
        BY <1>7, <3>1, <3>2
    <2>2. CASE i = n + 1
      <3>1. i - n = 1
        BY <1>2, <2>2
      <3> QED
        BY <1>2, <1>7, <1>8, <1>9, <2>2, <3>1
    <2>3. CASE i > n + 1
      <3>1. i - (n + 1) \in 1 .. m - 1 /\ i - (n + 1) + 1 = i - n
        BY <1>2, <2>3
      <3>2. x[i] = u[i - (n + 1)] /\ y[i] = t[i - n]
        BY <1>2, <1>8, <1>9, <2>3
      <3> QED
        BY <1>5, <3>1, <3>2
    <2> QED
      BY <1>2, <2>1, <2>2, <2>3
  <1>11. x = y
    BY <1>8, <1>9, <1>10, SeqEqual
  <1> QED
    BY <1>11 DEF x, y, g, h, u

LEMMA NothingGiven == Given(<< >>) = << >>
  <1>1. << >> \in Seq(Answers) /\ Len(<< >>) = 0
    BY EmptySeq
  <1>2. Given(<< >>) \in Seq(Calls) /\ Len(Given(<< >>)) = 0
    BY <1>1, GivenProperties
  <1> QED
    BY <1>2, EmptySeq

LEMMA AnswersTyped ==
  ASSUME NEW c \in Calls, NEW raw
  PROVE  /\ Ok(c) \in Answers /\ Error(c, raw) \in Answers /\ BareError(c) \in Answers
         /\ Ok(c).call = c /\ Error(c, raw).call = c /\ BareError(c).call = c
  <1> DEFINE code == Analyze(Tool[c], raw)
  <1>1. code \in Codes
    BY Zenon DEF Analyze, Codes
  <1>2. Error(c, raw) = [call |-> c, ok |-> FALSE, code |-> code]
    BY DEF Error
  <1> HIDE DEF code
  <1>3. Error(c, raw) \in Answers /\ Error(c, raw).call = c
    BY <1>1, <1>2 DEF Answers
  <1>4. "none" \in Codes /\ "UNKNOWN_TOOL_ERROR" \in Codes
    BY DEF Codes
  <1>5. Ok(c) \in Answers /\ BareError(c) \in Answers
    BY <1>4 DEF Ok, BareError, Answers
  <1> QED
    BY <1>3, <1>5 DEF Ok, BareError

LEMMA GiveKeeps ==
  ASSUME CallsInv, todo # << >>, NEW r \in Answers, r.call = First, Give(r)
  PROVE  CallsInv'
  <1>1. results' = Append(results, r) /\ todo' = Tail(todo) /\ r.call = Head(todo)
    BY DEF Give, First
  <1>2. results' \in Seq(Answers) /\ todo' \in Seq(Calls)
    BY <1>1, AppendProperties, HeadTailProperties DEF CallsInv
  <1>3. Given(results') \o todo' = Given(results) \o todo
    BY <1>1, GivenGrows DEF CallsInv
  <1> QED
    BY <1>2, <1>3 DEF CallsInv

LEMMA FirstIsCall == CallsInv /\ todo # << >> => First \in Calls
  BY HeadTailProperties DEF CallsInv, First

\* The command that runs is the first call of the batch, and every middleware let
\* it through; so no other path gives its result.
RunningInv == Running => todo # << >> /\ Cleared /\ FirstTool = "bash"

LEMMA GivesAnswer ==
  ASSUME CallsInv, RunningInv, Dispatch \/ EndBash
  PROVE  \/ UNCHANGED << todo, results >>
         \/ todo # << >> /\ \E r \in Answers : r.call = First /\ Give(r)
  <1>1. todo # << >>
    BY DEF Dispatch, EndBash, RunningInv, Running, RuntimeCommand, UnknownTool, Deny, Ask, Refused,
       ExecuteTool, ToolPanics, StartBash, StartBashFails
  <1>2. First \in Calls
    BY <1>1, FirstIsCall
  <1>3. /\ Ok(First) \in Answers /\ Ok(First).call = First
        /\ BareError(First) \in Answers /\ BareError(First).call = First
        /\ \A raw : Error(First, raw) \in Answers /\ Error(First, raw).call = First
    BY <1>2, AnswersTyped
  <1>4. CASE RuntimeCommand \/ ToolPanics
    BY <1>1, <1>3, <1>4 DEF RuntimeCommand, ToolPanics
  <1>5. CASE UnknownTool \/ Deny \/ Refused
    BY <1>1, <1>3, <1>5 DEF UnknownTool, Deny, Refused
  <1>6. CASE Ask \/ StartBash
    BY <1>6 DEF Ask, StartBash
  <1>7. CASE ExecuteTool
    BY <1>1, <1>3, <1>7 DEF ExecuteTool
  <1>8. CASE StartBashFails
    BY <1>1, <1>3, <1>8 DEF StartBashFails
  <1>9. CASE EndBash
    <2>1. PICK r \in {Ok(First), Error(First, "wait failed")} : Give(r)
      BY <1>9 DEF EndBash
    <2> QED
      BY <1>1, <1>3, <2>1
  <1> QED
    BY <1>4, <1>5, <1>6, <1>7, <1>8, <1>9 DEF Dispatch

LEMMA EmptyCalls == todo = << >> /\ results = << >> => CallsInv
  <1> SUFFICES ASSUME todo = << >>, results = << >> PROVE CallsInv
    OBVIOUS
  <1>1. << >> \in Seq(Calls) /\ << >> \in Seq(Answers) /\ << >> \o << >> = << >>
    BY EmptySeq, ConcatEmptySeq
  <1> QED
    BY <1>1, NothingGiven DEF CallsInv

LEMMA CallsStep == CallsInv /\ RunningInv /\ [Next]_vars => CallsInv'
  <1> SUFFICES ASSUME CallsInv, RunningInv, [Next]_vars PROVE CallsInv'
    OBVIOUS
  <1>1. ASSUME UNCHANGED << todo, results >> PROVE CallsInv'
    BY <1>1 DEF CallsInv
  <1>2. CASE StartBatch
    <2>1. todo' \in Batches /\ results' = << >>
      BY <1>2 DEF StartBatch
    <2>2. todo' \in Seq(Calls) /\ << >> \in Seq(Answers)
      BY <2>1, ToolTurnAssumption, EmptySeq
    <2>3. << >> \o todo' = todo'
      BY <2>2, ConcatEmptySeq
    <2> QED
      BY NothingGiven, <2>1, <2>2, <2>3 DEF CallsInv
  <1>3. CASE ObserveBatch
    <2>1. todo' = << >> /\ results' = << >>
      BY <1>3 DEF ObserveBatch
    <2>2. << >> \in Seq(Calls) /\ << >> \in Seq(Answers) /\ << >> \o << >> = << >>
      BY EmptySeq, ConcatEmptySeq
    <2> QED
      BY NothingGiven, <2>1, <2>2 DEF CallsInv
  <1>4. CASE Dispatch \/ EndBash
    BY <1>1, <1>4, GivesAnswer, GiveKeeps
  <1>5. CASE (Processes \/ Execute) /\ UNCHANGED turnVars
    BY <1>1, <1>5 DEF turnVars
  <1>6. CASE UNCHANGED vars
    BY <1>1, <1>6 DEF vars, turnVars
  <1> QED
    BY <1>2, <1>3, <1>4, <1>5, <1>6 DEF Next

-----------------------------------------------------------------------------
(***************************************************************************)
(* The counters of the telemetry.                                          *)
(***************************************************************************)
CountInv ==
  /\ telemetry \in [calls : Nat, failed : Nat] /\ telemetry.failed <= telemetry.calls
  /\ executed \in Nat /\ panics \in Nat
  /\ RunningInv
  /\ CountsAreExecutions

LEMMA CountStep == CountInv /\ BashInv /\ CallsInv /\ [Next]_vars => CountInv'
  <1> SUFFICES ASSUME CountInv, BashInv, CallsInv, [Next]_vars PROVE CountInv'
    OBVIOUS
  <1>0. /\ telemetry \in [calls : Nat, failed : Nat] /\ telemetry.failed <= telemetry.calls
        /\ telemetry.calls \in Nat /\ telemetry.failed \in Nat
        /\ executed \in Nat /\ panics \in Nat
        /\ Running => todo # << >> /\ Cleared /\ FirstTool = "bash"
        /\ telemetry.calls + panics + (IF Running THEN 1 ELSE 0) = executed
    BY DEF CountInv, RunningInv, CountsAreExecutions
  \* Nothing is executed and nothing is counted.
  <1>1. ASSUME ~Running, UNCHANGED << bashVars, telemetry, executed, panics >>
        PROVE  CountInv'
    <2>1. poller' = poller
      BY <1>1 DEF bashVars
    <2> QED
      BY <1>0, <1>1, <2>1 DEF CountInv, RunningInv, CountsAreExecutions, Running
  \* A call that is executed in this step, and counted unless it panics.
  <1>2. ASSUME NEW b \in BOOLEAN, telemetry' = Counted(b), executed' = executed + 1,
               ~Running, UNCHANGED << bashVars, panics >>
        PROVE  CountInv'
    <2>1. poller' = poller
      BY <1>2 DEF bashVars
    <2>2. /\ telemetry' \in [calls : Nat, failed : Nat]
          /\ telemetry'.calls = telemetry.calls + 1 /\ telemetry'.failed <= telemetry'.calls
      BY <1>0, <1>2 DEF Counted
    <2> QED
      BY <1>0, <1>2, <2>1, <2>2 DEF CountInv, RunningInv, CountsAreExecutions, Running
  <1>3. todo = << >> => ~Running
    BY <1>0
  <1>4. CASE StartBatch
    <2>1. /\ telemetry' = [calls |-> 0, failed |-> 0] /\ executed' = 0 /\ panics' = 0
          /\ poller' = poller /\ ~Running
      BY <1>3, <1>4 DEF StartBatch, bashVars
    <2>2. \A t, p, e : t = [calls |-> 0, failed |-> 0] /\ p = 0 /\ e = 0 =>
            /\ t \in [calls : Nat, failed : Nat] /\ t.failed <= t.calls
            /\ e \in Nat /\ p \in Nat /\ t.calls + p + 0 = e
      OBVIOUS
    <2>3. /\ telemetry' \in [calls : Nat, failed : Nat] /\ telemetry'.failed <= telemetry'.calls
          /\ executed' \in Nat /\ panics' \in Nat /\ telemetry'.calls + panics' + 0 = executed'
      BY Zenon, <2>1, <2>2
    <2>4. ~Running'
      BY <2>1 DEF Running
    <2> QED
      BY <2>3, <2>4 DEF CountInv, RunningInv, CountsAreExecutions
  <1>5. CASE ObserveBatch
    BY <1>1, <1>3, <1>5 DEF ObserveBatch
  <1>6. CASE RuntimeCommand \/ UnknownTool
    <2>1. FirstTool \notin Registered
      BY <1>6, ToolTurnAssumption DEF RuntimeCommand, UnknownTool
    <2>2. ~Running
      BY <1>0, <2>1 DEF Cleared
    <2> QED
      BY <1>1, <1>6, <2>2 DEF RuntimeCommand, UnknownTool
  <1>7. CASE Deny
    <2>1. ~waiting /\ Decide(First) # "Allow"
      BY <1>7 DEF Deny
    <2>2. ~Running
      BY <1>0, <2>1 DEF Cleared
    <2> QED
      BY <1>1, <1>7, <2>2 DEF Deny
  <1>8. CASE Ask \/ Refused
    BY <1>1, <1>8 DEF Ask, Refused, Running
  <1>9. CASE ExecuteTool
    <2>1. ~Running
      BY <1>0, <1>9 DEF ExecuteTool
    <2>2. PICK r \in {Ok(First)} \cup {Error(First, raw) : raw \in RawErrors[FirstTool]} :
            Record(r)
      BY <1>9 DEF ExecuteTool
    <2>3. r.ok \in BOOLEAN
      <3>1. \A raw : Ok(First).ok = TRUE /\ Error(First, raw).ok = FALSE
        BY DEF Ok, Error
      <3>2. r = Ok(First) \/ \E raw \in RawErrors[FirstTool] : r = Error(First, raw)
        BY <2>2
      <3> QED
        BY <3>1, <3>2
    <2>4. /\ telemetry' = Counted(r.ok) /\ executed' = executed + 1
          /\ UNCHANGED << bashVars, panics >>
      BY <1>9, <2>2 DEF ExecuteTool, Record
    <2> QED
      BY <1>2, <2>1, <2>3, <2>4
  <1>10. CASE ToolPanics
    <2>1. todo # << >> /\ \A c \in InBatch : Tool[c] \in ReadOnly
      BY <1>10 DEF ToolPanics
    <2>2. First = todo[1] /\ 1 \in DOMAIN todo
      BY <2>1, EmptySeq, LenProperties DEF CallsInv, First
    <2>3. FirstTool \in ReadOnly
      BY <2>1, <2>2 DEF InBatch, FirstTool
    <2>4. ~Running
      BY <1>0, <2>3, ToolTurnAssumption
    <2>5. /\ executed' = executed + 1 /\ panics' = panics + 1 /\ telemetry' = telemetry
          /\ poller' = poller
      BY <1>10 DEF ToolPanics, bashVars
    <2> QED
      BY <1>0, <2>4, <2>5 DEF CountInv, RunningInv, CountsAreExecutions, Running
  <1>11. CASE StartBash
    <2>1. /\ poller = "idle" /\ poller' = "poll" /\ executed' = executed + 1
          /\ UNCHANGED << telemetry, panics, todo, waiting >>
          /\ todo # << >> /\ Cleared /\ FirstTool = "bash"
      BY <1>11 DEF StartBash, Spawn
    <2>2. Cleared' /\ FirstTool' = "bash"
      BY <2>1 DEF Cleared, FirstTool, First, Decide, Matches
    <2> QED
      BY <1>0, <2>1, <2>2 DEF CountInv, RunningInv, CountsAreExecutions, Running
  <1>12. CASE StartBashFails
    <2>1. PICK raw \in RawErrors["bash"] : Record(Error(First, raw))
      BY <1>12 DEF StartBashFails
    <2>2. Error(First, raw).ok = FALSE
      BY DEF Error
    <2> QED
      BY <1>2, <1>12, <2>1, <2>2 DEF StartBashFails, Record, Running
  <1>13. CASE EndBash
    <2>1. Running /\ poller' = "idle" /\ UNCHANGED << executed, panics >>
      BY <1>13 DEF EndBash, BashReset, Running
    <2>2. \E b \in BOOLEAN : telemetry' = Counted(b)
      BY <1>13 DEF EndBash, Record, Error, Ok
    <2>3. /\ telemetry' \in [calls : Nat, failed : Nat]
          /\ telemetry'.calls = telemetry.calls + 1 /\ telemetry'.failed <= telemetry'.calls
      BY <1>0, <2>2 DEF Counted
    <2> QED
      BY <1>0, <2>1, <2>3 DEF CountInv, RunningInv, CountsAreExecutions, Running
  <1>14. CASE (Processes \/ Execute) /\ UNCHANGED turnVars
    <2>1. Running' = Running
      BY <1>14, ProcessesKeep, ExecuteKeeps DEF Running
    <2>2. UNCHANGED << todo, waiting, telemetry, executed, panics >>
      BY <1>14 DEF turnVars
    <2> QED
      BY <1>0, <2>1, <2>2 DEF CountInv, RunningInv, CountsAreExecutions, Cleared, FirstTool, First, Decide, Matches
  <1>15. CASE UNCHANGED vars
    <2>1. UNCHANGED << poller, todo, waiting, telemetry, executed, panics >>
      BY <1>15 DEF vars, turnVars, bashVars
    <2> QED
      BY <1>0, <2>1 DEF CountInv, RunningInv, CountsAreExecutions, Running, Cleared, FirstTool, First, Decide, Matches
  <1> QED
    BY <1>4, <1>5, <1>6, <1>7, <1>8, <1>9, <1>10, <1>11, <1>12, <1>13, <1>14, <1>15 DEF Next, Dispatch

LEMMA CountInvariant == Spec => [](CallsInv /\ CountInv)
  <1>1. Init => CallsInv /\ CountInv
    <2> SUFFICES ASSUME Init PROVE CallsInv /\ CountInv
      OBVIOUS
    <2>1. CountInv
      BY DEF Init, BashIdle, CountInv, RunningInv, CountsAreExecutions, Running
    <2>2. todo = << >> /\ results = << >>
      BY DEF Init
    <2> QED
      BY <2>1, <2>2, EmptyCalls
  <1>2. CountInv => RunningInv
    BY DEF CountInv
  <1> QED
    BY <1>1, <1>2, CallsStep, CountStep, BashInvariant, PTL DEF Spec

\* The counters of the telemetry hold exactly the executions that came back, for
\* any rules, tools and batches.
THEOREM ExecutionsAreCounted == Spec => []CountsAreExecutions
  <1>1. CountInv => CountsAreExecutions
    BY DEF CountInv
  <1> QED
    BY <1>1, CountInvariant, PTL

-----------------------------------------------------------------------------
(***************************************************************************)
(* The reminders.                                                          *)
(***************************************************************************)
\* The cooldown says how long ago the last reminder was, and a manager that has
\* cooled down has not yet seen the turns that make it speak.
StormInv ==
  /\ failures \in Seq(Seq(Answers))
  /\ silence \in Nat
  /\ reminders.turns = Len(failures)
  /\ reminders.cooldown \in 0 .. REMINDER_COOLDOWN_TURNS
  /\ reminders.cooldown = 2 => silence = 0
  /\ reminders.cooldown = 1 => silence = 1
  /\ reminders.cooldown = 0 => Len(failures) < CONSECUTIVE_ERROR_TURN_THRESHOLD

\* The failing turns are batches of this run, the open one not among them.
TurnsInv ==
  /\ turn \in 0 .. MaxTurns
  /\ Len(failures) <= turn
  /\ todo # << >> \/ results # << >> => Len(failures) < turn

\* After a failing batch: enough turns give a reason, and one that may be told is.
LEMMA EnoughTurnsSpeak ==
  ASSUME NEW m, NEW batch, m.turns \in Nat, m.cooldown \in 0 .. 2
  PROVE  /\ AfterFailures(m, batch).manager.turns = m.turns + 1
         /\ \/ /\ AfterFailures(m, batch).said # NoReminder
               /\ AfterFailures(m, batch).manager.cooldown = 2
            \/ /\ AfterFailures(m, batch).said = NoReminder
               /\ AfterFailures(m, batch).manager.cooldown = Cooled(m.cooldown)
               /\ Cooled(m.cooldown) # 0 \/ m.turns + 1 < CONSECUTIVE_ERROR_TURN_THRESHOLD
  <1> DEFINE s == FoldLeft(ObserveCall,
                    [fingerprint |-> m.fingerprint, code |-> m.code, reason |-> NoReminder], batch)
             turns == m.turns + 1
             count == m.calls + Len(batch)
             reason == Strongest(s.reason, turns, count)
             speak == MaySpeak(m) /\ reason # NoReminder
             after == [manager |-> [calls |-> count, turns |-> turns, fingerprint |-> s.fingerprint,
                                    code |-> s.code,
                                    cooldown |-> IF speak THEN REMINDER_COOLDOWN_TURNS
                                                          ELSE Cooled(m.cooldown)],
                       said |-> IF speak THEN reason ELSE NoReminder]
  <1>1. AfterFailures(m, batch) = after
    BY Zenon DEF AfterFailures
  <1>2. turns >= CONSECUTIVE_ERROR_TURN_THRESHOLD => reason # NoReminder
    <2> SUFFICES ASSUME turns >= CONSECUTIVE_ERROR_TURN_THRESHOLD, s.reason = NoReminder
                 PROVE  reason # NoReminder
      <3>1. ASSUME NEW x, x # NoReminder PROVE Strongest(x, turns, count) = x
        BY Zenon, <3>1 DEF Strongest
      <3> QED
        BY <3>1
    <2>1. reason = [reason |-> "ConsecutiveErrorTurns", count |-> turns]
      <3>1. ~(turns < CONSECUTIVE_ERROR_TURN_THRESHOLD)
        BY DEF CONSECUTIVE_ERROR_TURN_THRESHOLD
      <3>2. Strongest(NoReminder, turns, count) = [reason |-> "ConsecutiveErrorTurns", count |-> turns]
        <4> HIDE DEF turns, count
        <4> QED
          BY Zenon, <3>1 DEF Strongest
      <3> QED
        BY <3>2
    <2> HIDE DEF reason, turns
    <2>2. reason.reason = "ConsecutiveErrorTurns" /\ NoReminder.reason = "none"
      BY <2>1 DEF NoReminder
    <2> QED
      BY <2>2
  <1>3. /\ after.manager.turns = turns
        /\ after.said = IF speak THEN reason ELSE NoReminder
        /\ after.manager.cooldown = IF speak THEN REMINDER_COOLDOWN_TURNS ELSE Cooled(m.cooldown)
    <2> HIDE DEF s, turns, count, reason, speak
    <2> QED
      OBVIOUS
  <1>4. turns \in Nat /\ ~(turns < CONSECUTIVE_ERROR_TURN_THRESHOLD) =>
          turns >= CONSECUTIVE_ERROR_TURN_THRESHOLD
    BY DEF CONSECUTIVE_ERROR_TURN_THRESHOLD
  <1> HIDE DEF s, count, reason, after
  <1>5. CASE speak
    BY <1>1, <1>3, <1>5 DEF REMINDER_COOLDOWN_TURNS
  <1>6. CASE ~speak
    <2>1. after.said = NoReminder /\ after.manager.cooldown = Cooled(m.cooldown)
      BY <1>3, <1>6
    <2>2. Cooled(m.cooldown) # 0 \/ turns < CONSECUTIVE_ERROR_TURN_THRESHOLD
      BY <1>2, <1>4, <1>6 DEF MaySpeak
    <2> QED
      BY <1>1, <1>3, <2>1, <2>2
  <1> QED
    BY <1>5, <1>6

LEMMA ObserveKeepsStorm ==
  ASSUME StormInv, results \in Seq(Answers), ObserveBatch
  PROVE  StormInv'
  <1>1. /\ failures \in Seq(Seq(Answers)) /\ silence \in Nat /\ Len(failures) \in Nat
        /\ reminders.turns = Len(failures) /\ reminders.cooldown \in 0 .. 2
        /\ reminders.cooldown = 2 => silence = 0
        /\ reminders.cooldown = 1 => silence = 1
        /\ reminders.cooldown = 0 => Len(failures) < 3
    BY LenProperties DEF StormInv, REMINDER_COOLDOWN_TURNS, CONSECUTIVE_ERROR_TURN_THRESHOLD
  <1>2. CASE \E i \in DOMAIN results : results[i].ok
    <2>1. reminders' = Fresh /\ failures' = << >> /\ silence' = 1
      BY <1>2 DEF ObserveBatch
    <2>2. reminders'.turns = 0 /\ reminders'.cooldown = 0
      BY <2>1 DEF Fresh
    <2>3. failures' \in Seq(Seq(Answers)) /\ Len(failures') = 0
      BY <2>1, EmptySeq
    <2> QED
      BY <2>1, <2>2, <2>3
      DEF StormInv, REMINDER_COOLDOWN_TURNS, CONSECUTIVE_ERROR_TURN_THRESHOLD
  <1>3. CASE ~\E i \in DOMAIN results : results[i].ok
    <2> DEFINE after == AfterFailures(reminders, results)
    <2>1. /\ reminders' = after.manager /\ failures' = Append(failures, results)
          /\ silence' = IF after.said # NoReminder THEN 0 ELSE silence + 1
      BY <1>3 DEF ObserveBatch
    <2>2. /\ after.manager.turns = reminders.turns + 1
          /\ \/ after.said # NoReminder /\ after.manager.cooldown = 2
             \/ /\ after.said = NoReminder
                /\ after.manager.cooldown = Cooled(reminders.cooldown)
                /\ Cooled(reminders.cooldown) # 0 \/ reminders.turns + 1 < 3
      BY <1>1, EnoughTurnsSpeak DEF CONSECUTIVE_ERROR_TURN_THRESHOLD
    <2> HIDE DEF after
    <2>3. failures' \in Seq(Seq(Answers)) /\ Len(failures') = Len(failures) + 1
      BY <1>1, <2>1, AppendProperties
    <2>4. CASE after.said # NoReminder /\ after.manager.cooldown = 2
      <3>1. silence' = 0 /\ reminders'.cooldown = 2 /\ reminders'.turns = Len(failures')
        BY <1>1, <2>1, <2>2, <2>3, <2>4
      <3> QED
        BY <2>3, <3>1 DEF StormInv, REMINDER_COOLDOWN_TURNS, CONSECUTIVE_ERROR_TURN_THRESHOLD
    <2>5. CASE /\ after.said = NoReminder
               /\ after.manager.cooldown = Cooled(reminders.cooldown)
               /\ Cooled(reminders.cooldown) # 0 \/ reminders.turns + 1 < 3
      <3>1. /\ silence' = silence + 1 /\ reminders'.turns = Len(failures')
            /\ reminders'.cooldown = Cooled(reminders.cooldown)
        BY <1>1, <2>1, <2>2, <2>3, <2>5
      <3>2. \/ reminders.cooldown = 2 /\ Cooled(reminders.cooldown) = 1
            \/ reminders.cooldown \in {0, 1} /\ Cooled(reminders.cooldown) = 0
        BY <1>1 DEF Cooled
      <3>3. CASE reminders.cooldown = 2 /\ Cooled(reminders.cooldown) = 1
        <4>1. silence' = 1 /\ reminders'.cooldown = 1
          BY <1>1, <3>1, <3>3
        <4> QED
          BY <2>3, <3>1, <4>1 DEF StormInv, REMINDER_COOLDOWN_TURNS, CONSECUTIVE_ERROR_TURN_THRESHOLD
      <3>4. CASE reminders.cooldown \in {0, 1} /\ Cooled(reminders.cooldown) = 0
        <4>1. silence' \in Nat /\ reminders'.cooldown = 0 /\ Len(failures') < 3
          BY <1>1, <2>3, <2>5, <3>1, <3>4
        <4> QED
          BY <2>3, <3>1, <4>1 DEF StormInv, REMINDER_COOLDOWN_TURNS, CONSECUTIVE_ERROR_TURN_THRESHOLD
      <3> QED
        BY <3>2, <3>3, <3>4
    <2> QED
      BY <2>2, <2>4, <2>5
  <1> QED
    BY <1>2, <1>3

\* Only observe_tool_batch touches the manager and its counters.
LEMMA OthersLeaveReminders ==
  ASSUME [Next]_vars, ~ObserveBatch
  PROVE  UNCHANGED << failures, silence, reminders >>
  BY DEF Next, Dispatch, StartBatch, EndBash, Give, RuntimeCommand, UnknownTool, Deny, Ask, Refused,
     ExecuteTool, ToolPanics, StartBash, StartBashFails, vars, turnVars

LEMMA StormStep == StormInv /\ CallsInv /\ [Next]_vars => StormInv'
  <1> SUFFICES ASSUME StormInv, CallsInv, [Next]_vars PROVE StormInv'
    OBVIOUS
  <1>1. CASE ObserveBatch
    BY <1>1, ObserveKeepsStorm DEF CallsInv
  <1>2. CASE ~ObserveBatch
    BY <1>2, OthersLeaveReminders DEF StormInv
  <1> QED
    BY <1>1, <1>2

LEMMA StormInvariant == Spec => []StormInv
  <1>1. Init => StormInv
    <2> SUFFICES ASSUME Init PROVE StormInv
      OBVIOUS
    <2>1. failures = << >> /\ silence = 1 /\ reminders = Fresh
      BY DEF Init
    <2>2. failures \in Seq(Seq(Answers)) /\ Len(failures) = 0
      BY <2>1, EmptySeq
    <2> QED
      BY <2>1, <2>2 DEF Fresh, StormInv, REMINDER_COOLDOWN_TURNS, CONSECUTIVE_ERROR_TURN_THRESHOLD
  <1> QED
    BY <1>1, StormStep, CountInvariant, PTL DEF Spec

\* A model that fails three turns in a row is reminded, and again at every second
\* failing turn, for any calls, tools and errors.
THEOREM StormsAreNoticed == Spec => []StormIsNoticed
  <1>1. StormInv => StormIsNoticed
    BY LenProperties DEF StormInv, StormIsNoticed, REMINDER_COOLDOWN_TURNS,
       CONSECUTIVE_ERROR_TURN_THRESHOLD
  <1> QED
    BY <1>1, StormInvariant, PTL

-----------------------------------------------------------------------------
LEMMA TurnsStep == TurnsInv /\ StormInv /\ CallsInv /\ RunningInv /\ [Next]_vars => TurnsInv'
  <1> SUFFICES ASSUME TurnsInv, StormInv, CallsInv, RunningInv, [Next]_vars PROVE TurnsInv'
    OBVIOUS
  <1>1. /\ turn \in 0 .. MaxTurns /\ Len(failures) <= turn /\ Len(failures) \in Nat
        /\ todo # << >> \/ results # << >> => Len(failures) < turn
        /\ MaxTurns \in Nat
    BY ToolTurnAssumption, LenProperties DEF TurnsInv, StormInv
  <1>2. CASE StartBatch
    <2>1. turn' = turn + 1 /\ turn < MaxTurns /\ failures' = failures
      BY <1>2 DEF StartBatch
    <2> QED
      BY <1>1, <2>1 DEF TurnsInv
  <1>3. CASE ObserveBatch
    <2>1. /\ turn' = turn /\ todo' = << >> /\ results' = << >> /\ results # << >>
          /\ failures' \in {<< >>, Append(failures, results)}
      BY <1>3 DEF ObserveBatch
    <2>2. Len(failures') = 0 \/ Len(failures') = Len(failures) + 1
      BY <2>1, EmptySeq, AppendProperties DEF StormInv, CallsInv
    <2>3. Len(failures') <= turn
      BY <1>1, <2>1, <2>2
    <2> QED
      BY <1>1, <2>1, <2>3 DEF TurnsInv
  <1>4. CASE Dispatch \/ EndBash
    <2>1. turn' = turn /\ failures' = failures
      BY <1>4 DEF Dispatch, EndBash, Give, RuntimeCommand, UnknownTool, Deny, Ask, Refused,
         ExecuteTool, ToolPanics, StartBash, StartBashFails
    <2>2. UNCHANGED << todo, results >> \/ todo # << >>
      BY <1>4, GivesAnswer
    <2> QED
      BY <1>1, <2>1, <2>2 DEF TurnsInv
  <1>5. CASE ((Processes \/ Execute) /\ UNCHANGED turnVars) \/ UNCHANGED vars
    <2>1. UNCHANGED << turn, failures, todo, results >>
      BY <1>5 DEF turnVars, vars
    <2> QED
      BY <1>1, <2>1 DEF TurnsInv
  <1> QED
    BY <1>2, <1>3, <1>4, <1>5 DEF Next

WaitInv == waiting \in BOOLEAN

LEMMA WaitInvariant == Spec => []WaitInv
  <1>1. Init => WaitInv
    BY DEF Init, WaitInv
  <1>2. WaitInv /\ [Next]_vars => WaitInv'
    BY DEF WaitInv, Next, Dispatch, StartBatch, EndBash, ObserveBatch, Give, RuntimeCommand, UnknownTool,
       Deny, Ask, Refused, ExecuteTool, ToolPanics, StartBash, StartBashFails, vars, turnVars
  <1> QED
    BY <1>1, <1>2, PTL DEF Spec

\* Every reachable state of a batch, its command and its reminders is well typed,
\* and results and remaining calls together are the batch of the response.
THEOREM BatchTypeCorrect == Spec => []TypeOK
  <1>1. Init => TurnsInv
    <2> SUFFICES ASSUME Init PROVE TurnsInv
      OBVIOUS
    <2>1. turn = 0 /\ todo = << >> /\ results = << >> /\ Len(failures) = 0
      BY EmptySeq DEF Init
    <2> QED
      BY <2>1, ToolTurnAssumption DEF TurnsInv
  <1>2. CountInv => RunningInv
    BY DEF CountInv
  <1>3. BashInv /\ CallsInv /\ CountInv /\ StormInv /\ TurnsInv /\ WaitInv => TypeOK
    <2> SUFFICES ASSUME BashInv, CallsInv, CountInv, StormInv, TurnsInv, WaitInv
                 PROVE  TypeOK
      OBVIOUS
    <2>1. BashTypeOK
      BY DEF BashInv
    <2>2. [i \in DOMAIN results |-> results[i].call] \o todo \in Batches \cup {<< >>}
      BY Zenon DEF CallsInv, Given
    <2>3. turn \in 0 .. MaxTurns /\ reminders.turns <= turn
      BY DEF StormInv, TurnsInv
    <2>4. reminders.cooldown \in 0 .. REMINDER_COOLDOWN_TURNS
      BY DEF StormInv
    <2>5. telemetry.failed <= telemetry.calls
      BY DEF CountInv
    <2> QED
      BY Zenon, <2>1, <2>2, <2>3, <2>4, <2>5 DEF TypeOK, WaitInv
  <1> QED
    BY <1>1, <1>2, <1>3, TurnsStep, BashInvariant, CountInvariant, StormInvariant, WaitInvariant, PTL
    DEF Spec

-----------------------------------------------------------------------------
(***************************************************************************)
(* What the reminders tell (ReminderManager).                              *)
(***************************************************************************)

\* The lemmas about folds, for the loop of observe_tool_batch.
Tell == INSTANCE FoldLemmas WITH Op <- ObserveCall

\* The function that FlattenSeq is defined by.
Flattens(f, s, n) == f = [i \in 1 .. n |-> IF i = 1 THEN s[i] ELSE f[i - 1] \o s[i]]

\* There is such a function.
LEMMA FlatteningExists ==
  ASSUME NEW s, NEW n \in Nat
  PROVE  \E f : Flattens(f, s, n)
  <1> DEFINE S == {k \in Nat : \E f : Flattens(f, s, k)}
  <1>1. 0 \in S
    <2> DEFINE f == [i \in 1 .. 0 |-> s[i]]
    <2>1. Flattens(f, s, 0)
      BY DEF Flattens
    <2> QED
      BY <2>1
  <1>2. ASSUME NEW k \in Nat, k \in S PROVE k + 1 \in S
    <2>1. PICK f : Flattens(f, s, k)
      BY <1>2
    <2> DEFINE g == [i \in 1 .. (k + 1) |-> IF i \in 1 .. k THEN f[i]
                                            ELSE IF i = 1 THEN s[i] ELSE f[i - 1] \o s[i]]
    <2>2. ASSUME NEW i \in 1 .. (k + 1) PROVE g[i] = IF i = 1 THEN s[i] ELSE g[i - 1] \o s[i]
      <3>1. i = 1 \/ (i - 1 \in 1 .. k /\ g[i - 1] = f[i - 1])
        OBVIOUS
      <3>2. CASE i \in 1 .. k
        <4>1. f[i] = IF i = 1 THEN s[i] ELSE f[i - 1] \o s[i]
          BY <2>1, <3>2 DEF Flattens
        <4>2. g[i] = f[i]
          BY <3>2
        <4> HIDE DEF g
        <4> QED
          BY <3>1, <4>1, <4>2
      <3>3. CASE i \notin 1 .. k
        <4>1. g[i] = IF i = 1 THEN s[i] ELSE f[i - 1] \o s[i]
          BY <3>3
        <4> HIDE DEF g
        <4> QED
          BY <3>1, <4>1
      <3> QED
        BY <3>2, <3>3
    <2>3. g = [i \in 1 .. (k + 1) |-> g[i]]
      OBVIOUS
    <2> HIDE DEF g
    <2>4. Flattens(g, s, k + 1)
      BY <2>2, <2>3 DEF Flattens
    <2> QED
      BY <2>4
  <1>3. Nat \subseteq S
    <2> HIDE DEF S
    <2> QED
      BY <1>1, <1>2, Tell!InductionOnNat
  <1> QED
    BY <1>3

\* A sequence more is flattened behind the others.
LEMMA FlattenAppend ==
  ASSUME NEW T, NEW s \in Seq(Seq(T)), NEW x \in Seq(T)
  PROVE  /\ FlattenSeq(s) \in Seq(T)
         /\ FlattenSeq(Append(s, x)) = FlattenSeq(s) \o x
  <1> DEFINE n == Len(s)
             u == Append(s, x)
             f == CHOOSE f : Flattens(f, s, n)
             g == CHOOSE g : Flattens(g, u, Len(u))
  <1>1. /\ n \in Nat /\ Len(u) = n + 1 /\ n + 1 \in Nat /\ u \in Seq(Seq(T))
        /\ u[n + 1] = x /\ \A k \in 1 .. n : u[k] = s[k] /\ s[k] \in Seq(T)
    OBVIOUS
  <1>2. Flattens(f, s, n) /\ Flattens(g, u, n + 1)
    BY <1>1, FlatteningExists
  <1>3. FlattenSeq(s) = IF n = 0 THEN << >> ELSE f[n]
    <2>1. n = 0 => s = << >>
      OBVIOUS
    <2> QED
      BY <2>1 DEF FlattenSeq, Flattens
  <1>4. FlattenSeq(u) = g[n + 1]
    <2>1. Len(u) # 0
      BY <1>1
    <2>2. FlattenSeq(u) = g[Len(u)]
      BY <2>1 DEF FlattenSeq, Flattens
    <2> QED
      BY <1>1, <2>2
  <1> HIDE DEF f, g, n, u
  <1> DEFINE S == {k \in 0 .. n : k # 0 => f[k] = g[k] /\ f[k] \in Seq(T)}
  <1>5. 0 \in S
    BY <1>1
  <1>6. ASSUME NEW k \in 0 .. (n - 1), k \in S PROVE k + 1 \in S
    <2>1. k + 1 \in 1 .. n /\ k + 1 \in 1 .. (n + 1) /\ (k + 1) - 1 = k /\ (k + 1 = 1 <=> k = 0)
      BY <1>1
    <2>2. /\ f[k + 1] = IF k = 0 THEN s[k + 1] ELSE f[k] \o s[k + 1]
          /\ g[k + 1] = IF k = 0 THEN u[k + 1] ELSE g[k] \o u[k + 1]
      BY <1>2, <2>1 DEF Flattens
    <2>3. u[k + 1] = s[k + 1] /\ s[k + 1] \in Seq(T)
      BY <1>1, <2>1
    <2>4. k # 0 => f[k] \o s[k + 1] \in Seq(T)
      BY <1>6, <2>3
    <2>5. f[k + 1] = g[k + 1] /\ f[k + 1] \in Seq(T)
      <3>1. CASE k = 0
        BY <2>2, <2>3, <3>1
      <3>2. CASE k # 0
        BY <1>6, <2>2, <2>3, <2>4, <3>2
      <3> QED
        BY <3>1, <3>2
    <2> QED
      BY <2>1, <2>5
  <1>7. n \in S
    <2> HIDE DEF S
    <2>1. 0 .. n \subseteq S
      BY <1>1, <1>5, <1>6, Tell!InductionUpTo
    <2> QED
      BY <1>1, <2>1
  <1>8. g[n + 1] = IF n = 0 THEN x ELSE g[n] \o x
    <2>1. n + 1 \in 1 .. (n + 1) /\ (n + 1) - 1 = n /\ (n + 1 = 1 <=> n = 0)
      BY <1>1
    <2> QED
      BY <1>1, <1>2, <2>1 DEF Flattens
  <1>9. CASE n = 0
    <2>1. << >> \in Seq(T) /\ << >> \o x = x
      OBVIOUS
    <2> QED
      BY <1>3, <1>4, <1>8, <1>9, <2>1 DEF u
  <1>10. CASE n # 0
    BY <1>1, <1>3, <1>4, <1>7, <1>8, <1>10 DEF u
  <1> QED
    BY <1>9, <1>10

-----------------------------------------------------------------------------
\* The streaks follow two views of the failing results: call and code, or code alone.
Calling(s) == [i \in DOMAIN s |-> Fingerprint(s[i])]
Coding(s) == [i \in DOMAIN s |-> << s[i].code >>]

\* A streak counts results that end at p and are all alike.
StreakTo(streak, v, p) ==
  /\ streak.count \in 0 .. p
  /\ p > 0 => streak.count > 0
  /\ \A i \in (p - streak.count + 1) .. p : v[i] = streak.value

AlikeAt(v, n, k) == n \in 0 .. k /\ \A i \in (k - n + 1) .. k : v[i] = v[k]

\* The reason that the calls of a batch behind the first lo results may give.
Founded(reason, s, lo, p) ==
  \/ reason = NoReminder
  \/ /\ reason.reason = "RepeatedSimilarCall"
     /\ \E k \in (lo + 1) .. p : AlikeAt(Calling(s), reason.count, k)
  \/ /\ reason.reason = "RepeatedErrorCode"
     /\ \E k \in (lo + 1) .. p : AlikeAt(Coding(s), reason.count, k)

TruthInv ==
  /\ failures \in Seq(Seq(Answers))
  /\ reminders.calls = Len(FlattenSeq(failures))
  /\ reminders.turns = Len(failures)
  /\ StreakTo(reminders.fingerprint, Calling(FlattenSeq(failures)), Len(FlattenSeq(failures)))
  /\ StreakTo(reminders.code, Coding(FlattenSeq(failures)), Len(FlattenSeq(failures)))
  /\ ReminderTellsTheTruth

\* One more value makes the streak longer when it is the same again, and a new one when not.
LEMMA ObserveStreak ==
  ASSUME NEW streak, NEW v, NEW p \in Nat, StreakTo(streak, v, p)
  PROVE  /\ StreakTo(Observe(streak, v[p + 1]), v, p + 1)
         /\ AlikeAt(v, Observe(streak, v[p + 1]).count, p + 1)
  <1> DEFINE o == Observe(streak, v[p + 1])
  <1>1. streak.count \in Nat /\ streak.count <= p
    BY DEF StreakTo
  <1>2. /\ o.value = v[p + 1]
        /\ o.count = IF streak.value = v[p + 1] /\ streak.count > 0 THEN streak.count + 1 ELSE 1
    BY DEF Observe
  <1> HIDE DEF o
  <1>3. CASE streak.value = v[p + 1] /\ streak.count > 0
    <2>1. o.count = streak.count + 1 /\ o.count \in 1 .. (p + 1)
      BY <1>1, <1>2, <1>3
    <2>2. ASSUME NEW i \in (p + 1 - o.count + 1) .. (p + 1) PROVE v[i] = v[p + 1]
      <3>1. i = p + 1 \/ i \in (p - streak.count + 1) .. p
        BY <1>1, <2>1
      <3> QED
        BY <1>3, <3>1 DEF StreakTo
    <2> QED
      BY <1>2, <2>1, <2>2 DEF StreakTo, AlikeAt, o
  <1>4. CASE ~(streak.value = v[p + 1] /\ streak.count > 0)
    <2>1. o.count = 1 /\ \A i \in (p + 1 - 1 + 1) .. (p + 1) : i = p + 1
      BY <1>2, <1>4
    <2>2. 1 \in 0 .. (p + 1) /\ p + 1 > 0 /\ 1 > 0
      OBVIOUS
    <2> QED
      BY <1>2, <2>1, <2>2 DEF StreakTo, AlikeAt, o
  <1> QED
    BY <1>3, <1>4

\* One more failing result: both streaks follow, and a reason has its streak.
LEMMA ObserveCallFacts ==
  ASSUME NEW g \in Seq(Answers), NEW lo \in Nat, NEW p \in Nat, lo <= p, p + 1 \in DOMAIN g,
         NEW s, StreakTo(s.fingerprint, Calling(g), p), StreakTo(s.code, Coding(g), p),
         Founded(s.reason, g, lo, p)
  PROVE  LET o == ObserveCall(s, g[p + 1]) IN
         /\ StreakTo(o.fingerprint, Calling(g), p + 1)
         /\ StreakTo(o.code, Coding(g), p + 1)
         /\ Founded(o.reason, g, lo, p + 1)
  <1> DEFINE r == g[p + 1]
             fingerprint == Observe(s.fingerprint, Fingerprint(r))
             code == Observe(s.code, << r.code >>)
             reason == CASE fingerprint.count >= SAME_FINGERPRINT_THRESHOLD ->
                              [reason |-> "RepeatedSimilarCall", count |-> fingerprint.count]
                         [] fingerprint.count < SAME_FINGERPRINT_THRESHOLD
                            /\ code.count >= SAME_ERROR_CODE_THRESHOLD ->
                              [reason |-> "RepeatedErrorCode", count |-> code.count]
                         [] OTHER -> s.reason
             o == ObserveCall(s, r)
  <1>1. o = [fingerprint |-> fingerprint, code |-> code, reason |-> reason]
    BY Zenon DEF ObserveCall
  <1>2. Calling(g)[p + 1] = Fingerprint(r) /\ Coding(g)[p + 1] = << r.code >>
    BY DEF Calling, Coding
  <1>3. StreakTo(fingerprint, Calling(g), p + 1) /\ AlikeAt(Calling(g), fingerprint.count, p + 1)
    BY <1>2, ObserveStreak
  <1>4. StreakTo(code, Coding(g), p + 1) /\ AlikeAt(Coding(g), code.count, p + 1)
    BY <1>2, ObserveStreak
  <1>5. p + 1 \in (lo + 1) .. (p + 1) /\ (lo + 1) .. p \subseteq (lo + 1) .. (p + 1)
    OBVIOUS
  <1> HIDE DEF fingerprint, code
  <1>6. Founded(reason, g, lo, p + 1)
    <2>1. CASE reason = [reason |-> "RepeatedSimilarCall", count |-> fingerprint.count]
      <3> HIDE DEF reason
      <3>1. reason.reason = "RepeatedSimilarCall" /\ reason.count = fingerprint.count
        BY <2>1
      <3> QED
        BY <1>3, <1>5, <3>1 DEF Founded
    <2>2. CASE reason = [reason |-> "RepeatedErrorCode", count |-> code.count]
      <3> HIDE DEF reason
      <3>1. reason.reason = "RepeatedErrorCode" /\ reason.count = code.count
        BY <2>2
      <3> QED
        BY <1>4, <1>5, <3>1 DEF Founded
    <2>3. CASE reason = s.reason
      <3> HIDE DEF reason
      <3> QED
        BY <1>5, <2>3 DEF Founded
    <2> QED
      BY <2>1, <2>2, <2>3
  <1> HIDE DEF reason
  <1>7. o.fingerprint = fingerprint /\ o.code = code /\ o.reason = reason
    BY <1>1
  <1> HIDE DEF o
  <1>8. StreakTo(o.fingerprint, Calling(g), p + 1) /\ StreakTo(o.code, Coding(g), p + 1)
        /\ Founded(o.reason, g, lo, p + 1)
    BY <1>3, <1>4, <1>6, <1>7
  <1> QED
    BY <1>8 DEF o

\* The streaks of the results before a batch are those of the results with the batch.
LEMMA StreakStays ==
  ASSUME NEW flat \in Seq(Answers), NEW batch \in Seq(Answers), NEW streak
  PROVE  /\ StreakTo(streak, Calling(flat), Len(flat)) => StreakTo(streak, Calling(flat \o batch), Len(flat))
         /\ StreakTo(streak, Coding(flat), Len(flat)) => StreakTo(streak, Coding(flat \o batch), Len(flat))
  <1> DEFINE g == flat \o batch
  <1>1. /\ Len(flat) \in Nat /\ DOMAIN flat = 1 .. Len(flat)
        /\ \A i \in 1 .. Len(flat) : i \in DOMAIN g /\ g[i] = flat[i]
    OBVIOUS
  <1> HIDE DEF g
  <1>2. \A i \in 1 .. Len(flat) : Calling(g)[i] = Calling(flat)[i] /\ Coding(g)[i] = Coding(flat)[i]
    BY <1>1 DEF Calling, Coding
  <1>3. streak.count \in 0 .. Len(flat) =>
          \A i \in (Len(flat) - streak.count + 1) .. Len(flat) : i \in 1 .. Len(flat)
    BY <1>1
  <1>4. StreakTo(streak, Calling(flat), Len(flat)) => StreakTo(streak, Calling(g), Len(flat))
    BY <1>2, <1>3 DEF StreakTo
  <1>5. StreakTo(streak, Coding(flat), Len(flat)) => StreakTo(streak, Coding(g), Len(flat))
    BY <1>2, <1>3 DEF StreakTo
  <1> QED
    BY <1>4, <1>5 DEF g

\* Fold is FoldLeft: ObserveCall.
LEMMA TellOf == \A b, s : Tell!Fold(b, s) = FoldLeft(ObserveCall, b, s)
  BY DEF Tell!Fold, FoldLeft, Tell!FoldLeft, MapThenFoldSet, Tell!MapThenFoldSet, Max, Tell!Max

\* The loop of observe_tool_batch over the results of a failing batch.
LEMMA BatchFacts ==
  ASSUME NEW flat \in Seq(Answers), NEW batch \in Seq(Answers), NEW s0,
         StreakTo(s0.fingerprint, Calling(flat), Len(flat)), StreakTo(s0.code, Coding(flat), Len(flat)),
         s0.reason = NoReminder
  PROVE  LET g == flat \o batch
             s == FoldLeft(ObserveCall, s0, batch)
         IN /\ StreakTo(s.fingerprint, Calling(g), Len(g)) /\ StreakTo(s.code, Coding(g), Len(g))
            /\ Founded(s.reason, g, Len(flat), Len(g))
  <1> DEFINE g == flat \o batch
             lo == Len(flat)
             n == Len(batch)
             s == FoldLeft(ObserveCall, s0, batch)
             Follows(x, p) == /\ StreakTo(x.fingerprint, Calling(g), p) /\ StreakTo(x.code, Coding(g), p)
                              /\ Founded(x.reason, g, lo, p)
  <1>1. /\ lo \in Nat /\ n \in Nat /\ DOMAIN batch = 1 .. n /\ g \in Seq(Answers) /\ Len(g) = lo + n
        /\ DOMAIN g = 1 .. (lo + n) /\ \A i \in 1 .. n : g[lo + i] = batch[i]
    OBVIOUS
  <1>2. Follows(s0, lo)
    BY StreakStays DEF Founded
  <1>3. PICK r : Tell!Steps(r, s0, batch, n)
    BY <1>1, Tell!FoldSteps
  <1>4. r[0] = s0 /\ (\A k \in 1 .. n : r[k] = ObserveCall(r[k - 1], batch[k])) /\ s = r[n]
    BY <1>3, TellOf DEF Tell!Steps
  <1> HIDE DEF g, lo, n, s
  <1> DEFINE R == {k \in 0 .. n : Follows(r[k], lo + k)}
  <1>5. 0 \in R
    BY <1>1, <1>2, <1>4
  <1>6. ASSUME NEW k \in 0 .. (n - 1), k \in R PROVE k + 1 \in R
    <2>1. /\ k + 1 \in 1 .. n /\ (k + 1) - 1 = k /\ lo + k \in Nat /\ lo <= lo + k
          /\ lo + (k + 1) = (lo + k) + 1 /\ (lo + k) + 1 \in DOMAIN g
      BY <1>1
    <2>2. r[k + 1] = ObserveCall(r[k], g[(lo + k) + 1])
      BY <1>1, <1>4, <2>1
    <2>3. Follows(r[k], lo + k)
      BY <1>6
    <2>4. Follows(r[k + 1], (lo + k) + 1)
      BY <1>1, <2>1, <2>2, <2>3, ObserveCallFacts
    <2> HIDE DEF Follows
    <2> QED
      BY <1>1, <2>1, <2>4
  <1>7. n \in R
    <2> HIDE DEF R
    <2>1. 0 .. n \subseteq R
      BY <1>1, <1>5, <1>6, Tell!InductionUpTo
    <2> QED
      BY <1>1, <2>1
  <1>8. Follows(s, Len(g))
    BY <1>1, <1>4, <1>7
  <1> QED
    BY <1>8 DEF g, lo, s

\* What the reminder of a failing batch says, and what the manager keeps.
LEMMA AfterFacts ==
  ASSUME NEW m, NEW batch
  PROVE  LET s == FoldLeft(ObserveCall,
                    [fingerprint |-> m.fingerprint, code |-> m.code, reason |-> NoReminder], batch)
             after == AfterFailures(m, batch)
         IN /\ after.manager.calls = m.calls + Len(batch)
            /\ after.manager.turns = m.turns + 1
            /\ after.manager.fingerprint = s.fingerprint /\ after.manager.code = s.code
            /\ \/ after.said = NoReminder
               \/ after.said = s.reason
               \/ after.said = [reason |-> "ConsecutiveErrorTurns", count |-> m.turns + 1]
               \/ after.said = [reason |-> "ConsecutiveErrorCalls", count |-> m.calls + Len(batch)]
  <1> DEFINE s == FoldLeft(ObserveCall,
                    [fingerprint |-> m.fingerprint, code |-> m.code, reason |-> NoReminder], batch)
             turns == m.turns + 1
             count == m.calls + Len(batch)
             reason == Strongest(s.reason, turns, count)
             speak == MaySpeak(m) /\ reason # NoReminder
             after == [manager |-> [calls |-> count, turns |-> turns, fingerprint |-> s.fingerprint,
                                    code |-> s.code,
                                    cooldown |-> IF speak THEN REMINDER_COOLDOWN_TURNS
                                                          ELSE Cooled(m.cooldown)],
                       said |-> IF speak THEN reason ELSE NoReminder]
  <1>1. AfterFailures(m, batch) = after
    BY Zenon DEF AfterFailures
  <1>2. \/ reason = s.reason \/ reason = NoReminder
        \/ reason = [reason |-> "ConsecutiveErrorTurns", count |-> turns]
        \/ reason = [reason |-> "ConsecutiveErrorCalls", count |-> count]
    <2> HIDE DEF s, turns, count
    <2> QED
      BY DEF Strongest
  <1> HIDE DEF reason
  <1>3. /\ after.manager.calls = count /\ after.manager.turns = turns
        /\ after.manager.fingerprint = s.fingerprint /\ after.manager.code = s.code
        /\ after.said = reason \/ after.said = NoReminder
    <2> HIDE DEF s, turns, count, speak
    <2> QED
      OBVIOUS
  <1> HIDE DEF s, after
  <1>4. /\ AfterFailures(m, batch).manager.calls = count /\ AfterFailures(m, batch).manager.turns = turns
        /\ AfterFailures(m, batch).manager.fingerprint = s.fingerprint
        /\ AfterFailures(m, batch).manager.code = s.code
        /\ AfterFailures(m, batch).said = reason \/ AfterFailures(m, batch).said = NoReminder
    BY <1>1, <1>3
  <1> QED
    BY <1>2, <1>4 DEF s

\* A batch keeps the streaks true to the failures, and so its reminder.
LEMMA ObserveKeepsTruth ==
  ASSUME TruthInv, results \in Seq(Answers), ObserveBatch
  PROVE  TruthInv'
  <1>1. CASE \E i \in DOMAIN results : results[i].ok
    <2>1. reminders' = Fresh /\ said' = NoReminder /\ failures' = << >>
      BY <1>1 DEF ObserveBatch
    <2>2. FlattenSeq(<< >>) = << >> /\ Len(<< >>) = 0 /\ << >> \in Seq(Seq(Answers))
      BY DEF FlattenSeq
    <2>3. /\ Fresh.calls = 0 /\ Fresh.turns = 0
          /\ Fresh.fingerprint.count = 0 /\ Fresh.code.count = 0
      BY DEF Fresh, NoStreak
    <2>4. \A streak, v : streak.count = 0 => StreakTo(streak, v, 0)
      BY DEF StreakTo
    <2>5. ReminderTellsTheTruth'
      BY <2>1 DEF ReminderTellsTheTruth, NoReminder
    <2> QED
      BY <2>1, <2>2, <2>3, <2>4, <2>5 DEF TruthInv
  <1>2. CASE ~\E i \in DOMAIN results : results[i].ok
    <2> DEFINE after == AfterFailures(reminders, results)
               flat == FlattenSeq(failures)
               g == flat \o results
               s0 == [fingerprint |-> reminders.fingerprint, code |-> reminders.code, reason |-> NoReminder]
               s == FoldLeft(ObserveCall, s0, results)
    <2>1. reminders' = after.manager /\ said' = after.said /\ failures' = Append(failures, results)
      BY <1>2 DEF ObserveBatch
    <2>2. /\ after.manager.calls = reminders.calls + Len(results)
          /\ after.manager.turns = reminders.turns + 1
          /\ after.manager.fingerprint = s.fingerprint /\ after.manager.code = s.code
          /\ \/ after.said = NoReminder
             \/ after.said = s.reason
             \/ after.said = [reason |-> "ConsecutiveErrorTurns", count |-> reminders.turns + 1]
             \/ after.said = [reason |-> "ConsecutiveErrorCalls", count |-> reminders.calls + Len(results)]
      BY AfterFacts
    <2>3. failures \in Seq(Seq(Answers))
      BY DEF TruthInv
    <2>4. flat \in Seq(Answers) /\ FlattenSeq(failures') = g
      BY <2>1, <2>3, FlattenAppend
    <2>5. /\ s0.fingerprint = reminders.fingerprint /\ s0.code = reminders.code
          /\ s0.reason = NoReminder
      OBVIOUS
    <2>6. StreakTo(s0.fingerprint, Calling(flat), Len(flat)) /\ StreakTo(s0.code, Coding(flat), Len(flat))
      BY <2>5 DEF TruthInv
    <2>7. /\ reminders.calls = Len(flat) /\ reminders.turns = Len(failures)
      BY DEF TruthInv
    <2> HIDE DEF after, flat, s0
    <2>8. /\ StreakTo(s.fingerprint, Calling(g), Len(g)) /\ StreakTo(s.code, Coding(g), Len(g))
          /\ Founded(s.reason, g, Len(flat), Len(g))
      BY <2>4, <2>5, <2>6, BatchFacts
    <2> HIDE DEF s
    <2>9. /\ failures' \in Seq(Seq(Answers)) /\ Len(failures') = Len(failures) + 1
          /\ Last(failures') = results
      BY <2>1, <2>3 DEF Last
    <2>10. g \in Seq(Answers) /\ Len(g) = Len(flat) + Len(results) /\ Len(flat) \in Nat /\ Len(results) \in Nat
      BY <2>4
    <2>11. reminders'.calls = Len(g) /\ reminders'.turns = Len(failures')
      BY <2>1, <2>2, <2>7, <2>9, <2>10
    <2> HIDE DEF g
    <2>12. ASSUME NEW k \in (Len(flat) + 1) .. Len(g), NEW n
           PROVE  /\ AlikeAt(Calling(g), n, k) => AlikeInARow(n, Fingerprint)'
                  /\ AlikeAt(Coding(g), n, k) => AlikeInARow(n, Code)'
      <3>1. k \in DOMAIN g /\ k > Len(g) - Len(results) /\ k \in Nat /\ DOMAIN g = 1 .. Len(g)
        BY <2>10
      <3>2. ASSUME n \in 0 .. k PROVE n <= k /\ \A i \in (k - n + 1) .. k : i \in DOMAIN g
        BY <2>10, <3>1, <3>2
      <3>3. ASSUME AlikeAt(Calling(g), n, k) PROVE AlikeInARow(n, Fingerprint)'
        <4>1. \A i \in (k - n + 1) .. k : Fingerprint(g[i]) = Fingerprint(g[k])
          BY <3>1, <3>2, <3>3 DEF AlikeAt, Calling
        <4> QED
          BY <2>4, <2>9, <3>1, <3>2, <3>3, <4>1 DEF AlikeInARow, AlikeAt
      <3>4. ASSUME AlikeAt(Coding(g), n, k) PROVE AlikeInARow(n, Code)'
        <4>1. \A i \in (k - n + 1) .. k : Code(g[i]) = Code(g[k])
          BY <3>1, <3>2, <3>4 DEF AlikeAt, Coding, Code
        <4> QED
          BY <2>4, <2>9, <3>1, <3>2, <3>4, <4>1 DEF AlikeInARow, AlikeAt
      <3> QED
        BY <3>3, <3>4
    <2>13. ReminderTellsTheTruth'
      <3>1. CASE said' = NoReminder
        BY <3>1 DEF ReminderTellsTheTruth, NoReminder
      <3>2. CASE said' = s.reason /\ said' # NoReminder
        <4>1. \/ /\ said'.reason = "RepeatedSimilarCall"
                 /\ \E k \in (Len(flat) + 1) .. Len(g) : AlikeAt(Calling(g), said'.count, k)
              \/ /\ said'.reason = "RepeatedErrorCode"
                 /\ \E k \in (Len(flat) + 1) .. Len(g) : AlikeAt(Coding(g), said'.count, k)
          BY <2>8, <3>2 DEF Founded
        <4> QED
          BY <2>12, <4>1 DEF ReminderTellsTheTruth
      <3>3. CASE said' = [reason |-> "ConsecutiveErrorTurns", count |-> reminders.turns + 1]
        <4>1. said'.reason = "ConsecutiveErrorTurns" /\ said'.count = Len(failures')
          BY <2>7, <2>9, <3>3
        <4> QED
          BY <4>1 DEF ReminderTellsTheTruth
      <3>4. CASE said' = [reason |-> "ConsecutiveErrorCalls", count |-> reminders.calls + Len(results)]
        <4>1. said'.reason = "ConsecutiveErrorCalls" /\ said'.count = Len(g)
          BY <2>7, <2>10, <3>4
        <4> QED
          BY <2>4, <4>1 DEF ReminderTellsTheTruth
      <3> QED
        BY <2>1, <2>2, <3>1, <3>2, <3>3, <3>4
    <2> QED
      BY <2>1, <2>2, <2>4, <2>8, <2>9, <2>11, <2>13 DEF TruthInv
  <1> QED
    BY <1>1, <1>2

\* Every step keeps the streaks true; only observe_tool_batch moves them.
LEMMA TruthStep == TruthInv /\ CallsInv /\ [Next]_vars => TruthInv'
  <1> SUFFICES ASSUME TruthInv, CallsInv, [Next]_vars PROVE TruthInv'
    OBVIOUS
  <1>1. CASE ObserveBatch
    BY <1>1, ObserveKeepsTruth DEF CallsInv
  <1>2. CASE ~ObserveBatch
    <2>1. UNCHANGED << failures, reminders >>
      BY <1>2, OthersLeaveReminders
    <2>2. said' = said \/ said' = NoReminder
      BY <1>2 DEF Next, Dispatch, StartBatch, EndBash, Give, RuntimeCommand, UnknownTool, Deny, Ask, Refused,
         ExecuteTool, ToolPanics, StartBash, StartBashFails, vars, turnVars
    <2>3. ReminderTellsTheTruth'
      <3>1. CASE said' = said
        BY <2>1, <3>1 DEF TruthInv, ReminderTellsTheTruth, AlikeInARow
      <3>2. CASE said' = NoReminder
        BY <3>2 DEF ReminderTellsTheTruth, NoReminder
      <3> QED
        BY <2>2, <3>1, <3>2
    <2> QED
      BY <2>1, <2>3 DEF TruthInv
  <1> QED
    BY <1>1, <1>2

\* What a reminder tells the model is so, for any calls, errors and batches: the streaks
\* of the manager count alike results at the end of all that has failed, the totals count
\* all of it, and only a streak that ends in this batch is told (observe_tool_batch).
THEOREM RemindersAreTrue == Spec => []ReminderTellsTheTruth
  <1>1. Init => TruthInv
    <2> SUFFICES ASSUME Init PROVE TruthInv
      OBVIOUS
    <2>1. reminders = Fresh /\ said = NoReminder /\ failures = << >>
      BY DEF Init
    <2>2. FlattenSeq(<< >>) = << >> /\ Len(<< >>) = 0 /\ << >> \in Seq(Seq(Answers))
      BY DEF FlattenSeq
    <2>3. /\ Fresh.calls = 0 /\ Fresh.turns = 0
          /\ Fresh.fingerprint.count = 0 /\ Fresh.code.count = 0
      BY DEF Fresh, NoStreak
    <2>4. \A streak, v : streak.count = 0 => StreakTo(streak, v, 0)
      BY DEF StreakTo
    <2>5. ReminderTellsTheTruth
      BY <2>1 DEF ReminderTellsTheTruth, NoReminder
    <2> QED
      BY <2>1, <2>2, <2>3, <2>4, <2>5 DEF TruthInv
  <1>2. TruthInv => ReminderTellsTheTruth
    BY DEF TruthInv
  <1> QED
    BY <1>1, <1>2, TruthStep, CountInvariant, PTL DEF Spec
=============================================================================

------------------------------- MODULE ModelCall -------------------------------
(***************************************************************************)
(* One call of a model (generate_with_trace, src/engine/mod.rs): the       *)
(* compaction of the history (src/context_engine/compaction.rs), the       *)
(* request of either provider (src/provider/), the answer, whole or as a   *)
(* stream of fragments, the message assembled from it, and the counters of *)
(* TelemetryProvider (src/telemetry/provider.rs).                          *)
(*                                                                         *)
(* A text is its length or the sequence of its pieces; the arguments of a  *)
(* tool call are valid JSON exactly when all their pieces are there.  The  *)
(* model's server is external: it sends the fragments of a response in any *)
(* order its protocol allows, and the stream may end or fail anywhere.     *)
(***************************************************************************)
EXTENDS Naturals, Sequences, FiniteSets, SequencesExt

CONSTANTS
  CallIds,      \* ids of tool calls
  Histories,    \* bound: the messages a call is made with
  Responses,    \* bound: what a model may say: [text, calls, usage]
  Budget,       \* ContextBudget
  MarkerChars,  \* length of a marker that compaction leaves
  CallChars,    \* length of a tool call
  None

Messages == [role : {"system", "user", "assistant"}, id : CallIds \cup {None},
             calls : Seq(CallIds), chars : Nat]

\* A history as the runs that end well write it (CalmRequestsAreAnswered, ReActSession):
\* behind an answer with calls stand their results, in order, and then no other result.
Answered(s) ==
  \A i \in DOMAIN s : s[i].calls # << >> =>
    /\ s[i].id = None
    /\ \A k \in DOMAIN s[i].calls : i + k <= Len(s) /\ s[i + k].id = s[i].calls[k]
    /\ LET next == i + Len(s[i].calls) + 1 IN next <= Len(s) => s[next].id = None

ASSUME ModelCallAssumption ==
  /\ None \notin CallIds \cup Nat \cup {"whole", "cut", "broken"} \cup Responses
  /\ MarkerChars \in Nat /\ CallChars \in Nat
  /\ Budget \in [max_chars : Nat, retain_recent_messages : Nat, max_recent_observation_chars : Nat,
                 far_observation_mask_chars : Nat, far_assistant_fold_chars : Nat,
                 head_chars : Nat, tail_chars : Nat]

\* What compaction leaves is within the limit it was shortened for (ContextBudget::default).
ASSUME BudgetAssumption ==
  /\ MarkerChars <= Budget.far_observation_mask_chars
  /\ MarkerChars <= Budget.far_assistant_fold_chars
  /\ Budget.head_chars + Budget.tail_chars + MarkerChars <= Budget.max_recent_observation_chars

ASSUME HistoriesAssumption ==
  \A s \in Histories :
    /\ s \in Seq(Messages) /\ Answered(s)
    /\ \A i \in DOMAIN s : s[i].role = "system" => s[i].id = None

ASSUME ResponsesAssumption ==
  \A r \in Responses :
    /\ r \in [text : Nat, calls : Seq([id : CallIds, pieces : Nat]),
              usage : [input : Nat \cup {None}, output : Nat \cup {None}]]
    /\ \A i, j \in DOMAIN r.calls : r.calls[i].id = r.calls[j].id => i = j

VARIABLES
  phase,     \* compact, send, stream, returned
  dialect,   \* which of the two providers
  messages,  \* system prompt and history; nothing reads them after the request
  request,   \* the messages of the request
  said,      \* what the model says
  sent,      \* pieces the server has sent: of the text, of the usage, of each call
  content,   \* OpenAiStreamState / ClaudeStreamState
  calls,
  usage,
  shown,     \* what the sink has printed
  ending,    \* history: how the stream ended: whole, cut short, broken, or None
  result,    \* the message, an error, or None
  telemetry  \* llm_call_count and llm_failed_call_count

streamVars == << sent, content, calls, usage, shown >>
vars == << phase, dialect, messages, request, said, streamVars, ending, result, telemetry >>

Failure == [ok |-> FALSE]

-----------------------------------------------------------------------------
(***************************************************************************)
(* Compaction.                                                             *)
(***************************************************************************)

AddChars(sum, m) == sum + m.chars + CallChars * Len(m.calls)
EstimateChars(s) == FoldLeft(AddChars, 0, s)

\* truncate_head_tail.
HeadTail(n) ==
  LET keep == Budget.head_chars + Budget.tail_chars
  IN IF n <= keep THEN n ELSE keep + MarkerChars

\* Mutant: the role is looked at before the tool_call_id; observations are users.
CompactMessageByRole(recent, m) ==
  IF m.role = "assistant" /\ ~recent /\ m.chars > Budget.far_assistant_fold_chars
    THEN [m EXCEPT !.chars = MarkerChars] ELSE m

\* compact_message: ids, roles and tool calls stay as they are.
CompactMessage(recent, m) ==
  CASE m.role = "system" -> m
    [] m.id # None /\ recent /\ m.chars > Budget.max_recent_observation_chars ->
         [m EXCEPT !.chars = HeadTail(m.chars)]
    [] m.id # None /\ ~recent /\ m.chars > Budget.far_observation_mask_chars ->
         [m EXCEPT !.chars = MarkerChars]
    [] m.role = "assistant" /\ ~recent /\ m.chars > Budget.far_assistant_fold_chars ->
         [m EXCEPT !.chars = MarkerChars]
    [] OTHER -> m

Recent(i, s) == i + Budget.retain_recent_messages > Len(s)

Compact(s) ==
  IF EstimateChars(s) <= Budget.max_chars THEN s
  ELSE [i \in DOMAIN s |-> CompactMessage(Recent(i, s), s[i])]

-----------------------------------------------------------------------------
(***************************************************************************)
(* The request.                                                            *)
(***************************************************************************)

\* to_openai_message, one message each.
OpenAiRequest(s) ==
  [i \in DOMAIN s |->
     IF s[i].id # None THEN [role |-> "tool", uses |-> << >>, results |-> << s[i].id >>]
     ELSE [role |-> s[i].role, uses |-> s[i].calls, results |-> << >>]]

\* flush_tool_results: the pending results become one user message.
FlushToolResults(b) ==
  IF b.pending = << >> THEN b
  ELSE [out |-> Append(b.out, [role |-> "user", uses |-> << >>, results |-> b.pending]),
        pending |-> << >>]

\* The loop of build_request: results wait, anything else flushes them first; the
\* system prompt leaves the list, an assistant message without blocks is left out.
AddToRequest(b, m) ==
  LET flushed == FlushToolResults(b) IN
  CASE m.id # None -> [b EXCEPT !.pending = Append(@, m.id)]
    [] m.id = None /\ (\/ m.role = "system"
                       \/ (m.role = "assistant" /\ m.chars = 0 /\ m.calls = << >>)) ->
         flushed
    [] OTHER ->
         [flushed EXCEPT !.out = Append(@, [role |-> m.role, uses |-> m.calls, results |-> << >>])]

\* Mutant: the results of the last batch are not flushed.
ClaudeRequestUnflushed(s) == FoldLeft(AddToRequest, [out |-> << >>, pending |-> << >>], s).out

ClaudeRequest(s) ==
  FlushToolResults(FoldLeft(AddToRequest, [out |-> << >>, pending |-> << >>], s)).out

-----------------------------------------------------------------------------
(***************************************************************************)
(* The answer.                                                             *)
(***************************************************************************)

\* A call without arguments is {} in one piece, or no piece at all in a Claude stream.
PiecesOf(c) == IF c.pieces = 0 /\ dialect = "openai" THEN 1 ELSE c.pieces
Pieces(n) == [i \in 1 .. n |-> i]

Message(text, made, used) == [ok |-> TRUE, content |-> text, calls |-> made, usage |-> used]

\* parse_response.
ParseResponse(r) ==
  Message(Pieces(r.text), [i \in DOMAIN r.calls |-> r.calls[i].id], r.usage)

NoUsage == [input |-> None, output |-> None]

\* The call that the accumulated entry e stands for.
Meant(e) == CHOOSE c \in ToSet(said.calls) : c.id = e.id

\* serde_json::from_str of the accumulated arguments.
Valid(e) == Meant(e).pieces + Len(e.args) > 0 /\ e.args = Pieces(PiecesOf(Meant(e)))

\* Entries that were only padding are left out.
AddNamed(made, e) == IF e.id = None THEN made ELSE Append(made, e)
NamedCalls == FoldLeft(AddNamed, << >>, calls)
AssembledMessage == Message(content, [i \in DOMAIN NamedCalls |-> NamedCalls[i].id], usage)

\* Mutant: arguments that do not parse are taken for an empty object.
IntoMessageLeniently == AssembledMessage

\* into_message.
IntoMessage == IF \E i \in DOMAIN NamedCalls : ~Valid(NamedCalls[i]) THEN Failure
               ELSE AssembledMessage

Init ==
  /\ phase = "compact"
  /\ dialect \in {"openai", "claude"}
  /\ messages \in Histories
  /\ request = << >>
  /\ said = None
  /\ sent = << >>
  /\ content = << >>
  /\ calls = << >>
  /\ usage = NoUsage
  /\ shown = << >>
  /\ ending = None
  /\ result = None
  /\ telemetry = [calls |-> 0, failed |-> 0]

\* The engine compacts, the provider builds its request.
BuildRequest ==
  /\ phase = "compact"
  /\ LET compacted == Compact(messages) IN
     /\ messages' = compacted
     /\ request' = IF dialect = "openai" THEN OpenAiRequest(compacted) ELSE ClaudeRequest(compacted)
  /\ phase' = "send"
  /\ UNCHANGED << dialect, said, streamVars, ending, result, telemetry >>

Counted(ok) == [calls |-> telemetry.calls + 1,
                failed |-> telemetry.failed + (IF ok THEN 0 ELSE 1)]

\* The provider returns and TelemetryProvider records the call.
Return(r) ==
  /\ result' = r
  /\ phase' = "returned"
  /\ telemetry' = Counted(r.ok)

\* The request fails, or the status is not a success.
RequestFails ==
  /\ phase = "send"
  /\ Return(Failure)
  /\ messages' = << >> /\ request' = << >>
  /\ UNCHANGED << dialect, said, streamVars, ending >>

\* OpenAI's usage has both counts or is missing.
Speakable ==
  {r \in Responses : dialect = "openai" => (r.usage.input = None <=> r.usage.output = None)}

\* generate: the whole response at once.
Generate ==
  /\ phase = "send"
  /\ said' \in Speakable
  /\ Return(ParseResponse(said'))
  /\ messages' = << >> /\ request' = << >>
  /\ UNCHANGED << dialect, streamVars, ending >>

\* generate_stream: the body begins.
BeginStream ==
  /\ phase = "send"
  /\ said' \in Speakable
  /\ phase' = "stream"
  /\ messages' = << >> /\ request' = << >>
  /\ sent' = [text |-> 0, input |-> FALSE, output |-> FALSE,
              started |-> [i \in DOMAIN said'.calls |-> FALSE],
              args |-> [i \in DOMAIN said'.calls |-> 0]]
  /\ UNCHANGED << dialect, content, calls, usage, shown, ending, result, telemetry >>

Streaming == phase = "stream"

CallDone(i) == sent.started[i] /\ sent.args[i] = PiecesOf(said.calls[i])

\* A Claude server finishes a block before the next one; OpenAI's deltas have an
\* index and may be mixed.
Orderly(i) ==
  dialect = "claude" => sent.text = said.text /\ \A k \in 1 .. (i - 1) : CallDone(k)

\* A fragment of the text is shown and kept.
TextFragment ==
  /\ Streaming /\ sent.text < said.text
  /\ sent' = [sent EXCEPT !.text = @ + 1]
  /\ shown' = Append(shown, sent.text + 1)
  /\ content' = Append(content, sent.text + 1)
  /\ UNCHANGED << phase, dialect, messages, request, said, calls, usage, ending, result, telemetry >>

Padding == [id |-> None, args |-> << >>]

\* Mutant: padding goes one entry too far.
PaddedPast(i) == calls \o [k \in 1 .. (IF i >= Len(calls) THEN i + 1 - Len(calls) ELSE 0) |-> Padding]

\* `while tool_calls.len() <= index`: indexes are the server's.
Padded(i) == calls \o [k \in 1 .. (IF i > Len(calls) THEN i - Len(calls) ELSE 0) |-> Padding]

\* The first delta of a call, or the start of its block.
CallStarts(i) ==
  /\ Streaming
  /\ i \in DOMAIN said.calls /\ ~sent.started[i]
  /\ Orderly(i)
  /\ sent' = [sent EXCEPT !.started[i] = TRUE]
  /\ calls' = IF dialect = "openai" THEN [Padded(i) EXCEPT ![i].id = said.calls[i].id]
              ELSE Append(calls, [id |-> said.calls[i].id, args |-> << >>])
  /\ UNCHANGED << phase, dialect, messages, request, said, content, usage, shown, ending, result,
                  telemetry >>

\* A Claude entry is found by the index of its block.
EntryOf(i) == IF dialect = "openai" THEN i
              ELSE CHOOSE k \in DOMAIN calls : calls[k].id = said.calls[i].id

\* Mutant: arguments go to the call that came last.
ArgumentsToLast(i) ==
  /\ Streaming
  /\ i \in DOMAIN said.calls /\ sent.started[i] /\ ~CallDone(i)
  /\ sent' = [sent EXCEPT !.args[i] = @ + 1]
  /\ calls' = [calls EXCEPT ![Len(calls)].args = Append(@, sent.args[i] + 1)]
  /\ UNCHANGED << phase, dialect, messages, request, said, content, usage, shown, ending, result,
                  telemetry >>

Arguments(i) ==
  /\ Streaming
  /\ i \in DOMAIN said.calls /\ sent.started[i] /\ ~CallDone(i)
  /\ sent' = [sent EXCEPT !.args[i] = @ + 1]
  /\ calls' = [calls EXCEPT ![EntryOf(i)].args = Append(@, sent.args[i] + 1)]
  /\ UNCHANGED << phase, dialect, messages, request, said, content, usage, shown, ending, result,
                  telemetry >>

AllCallsDone == sent.text = said.text /\ \A i \in DOMAIN said.calls : CallDone(i)

\* Claude reports input at the start and output at the end, OpenAI both in a chunk
\* without choices; apply_usage merges what is there.
UsageArrives ==
  /\ Streaming
  /\ \/ /\ dialect = "claude" /\ ~sent.input
        /\ said.usage.input # None
        /\ sent' = [sent EXCEPT !.input = TRUE]
        /\ usage' = [usage EXCEPT !.input = said.usage.input]
     \/ /\ dialect = "claude" /\ AllCallsDone /\ ~sent.output
        /\ said.usage.output # None
        /\ sent' = [sent EXCEPT !.output = TRUE]
        /\ usage' = [usage EXCEPT !.output = said.usage.output]
     \/ /\ dialect = "openai" /\ AllCallsDone /\ ~sent.output
        /\ said.usage # NoUsage
        /\ sent' = [sent EXCEPT !.input = TRUE, !.output = TRUE]
        /\ usage' = said.usage
  /\ UNCHANGED << phase, dialect, messages, request, said, content, calls, shown, ending, result,
                  telemetry >>

AllSent ==
  /\ AllCallsDone
  /\ said.usage.input # None => sent.input
  /\ said.usage.output # None => sent.output

\* `data: [DONE]`, or the end of the body: read_sse_data_lines does not tell the
\* end of the response from a connection that was closed early.
StreamEnds ==
  /\ Streaming
  /\ ending' = IF AllSent THEN "whole" ELSE "cut"
  /\ Return(IntoMessage)
  /\ UNCHANGED << dialect, messages, request, said, streamVars >>

\* A read error, a chunk that does not parse, a sink that fails.
StreamFails ==
  /\ Streaming
  /\ ending' = "broken"
  /\ Return(Failure)
  /\ UNCHANGED << dialect, messages, request, said, streamVars >>

Next ==
  \/ BuildRequest \/ RequestFails \/ Generate \/ BeginStream
  \/ TextFragment \/ UsageArrives \/ StreamEnds \/ StreamFails
  \/ \E r \in Responses : \E i \in DOMAIN r.calls :
       phase = "stream" /\ r = said /\ (CallStarts(i) \/ Arguments(i))

Spec == Init /\ [][Next]_vars

-----------------------------------------------------------------------------
TypeOK ==
  /\ phase \in {"compact", "send", "stream", "returned"}
  /\ dialect \in {"openai", "claude"}
  /\ said \in Responses \cup {None}
  /\ \A i \in DOMAIN calls : calls[i].id = None => dialect = "openai"
  /\ calls # << >> => Len(calls) <= Len(said.calls)
  /\ telemetry.failed <= telemetry.calls /\ telemetry.calls <= 1

\* A request answers every tool call of its history in the very next message or
\* messages, whatever compaction, thoughts and reminders surround them: both
\* endpoints refuse it otherwise (build_request, compact_message).
AnswersFollowCalls ==
  \A i \in DOMAIN request : request[i].uses # << >> =>
    IF dialect = "claude"
      THEN /\ i < Len(request)
           /\ ToSet(request[i].uses) = ToSet(request[i + 1].results)
      ELSE \A k \in DOMAIN request[i].uses :
             /\ i + k <= Len(request)
             /\ request[i + k].results = << request[i].uses[k] >>

\* A request over the budget holds nothing that compaction could still shorten:
\* outside the protected tail only short observations and assistant texts, inside
\* it no observation over its limit (ContextCompactor::compact).
OverBudgetOnlyWhenProtected ==
  phase = "send" /\ EstimateChars(messages) > Budget.max_chars =>
    \A i \in DOMAIN messages : LET m == messages[i] IN
      /\ m.id # None /\ Recent(i, messages) => m.chars <= Budget.max_recent_observation_chars
      /\ m.id # None /\ ~Recent(i, messages) => m.chars <= Budget.far_observation_mask_chars
      /\ m.role = "assistant" /\ ~Recent(i, messages) => m.chars <= Budget.far_assistant_fold_chars

\* Whatever the fragments and their order, a stream that ends whole has put the text
\* on the screen, which the engine does not report a second time, and gives exactly
\* the message that the unstreamed response would give.  Only a Claude call without
\* arguments, which streams no fragment, makes the call fail (both apply, into_message).
StreamIsResponse ==
  ending = "whole" =>
    /\ shown = Pieces(said.text)
    /\ result = IF dialect = "claude" /\ \E i \in DOMAIN said.calls : said.calls[i].pieces = 0
                THEN Failure ELSE ParseResponse(said)

\* A connection that closes early is taken for the end of the response.  The run
\* fails or goes on without calls that had not begun, but never runs a call whose
\* arguments are not all there (read_sse_data_lines, into_message).
CutCallsDoNotRun ==
  ending = "cut" /\ result.ok => \A i \in DOMAIN said.calls :
    said.calls[i].id \in ToSet(result.calls) => CallDone(i)
=============================================================================

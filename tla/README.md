# rust-tiny-claw in TLA+

A verification development kept beside `rust-tiny-claw`, a small agent harness:
a ReAct loop that calls a language model, runs the tools it asks for, delegates
to subagents, asks humans for approval through Feishu cards and exports traces.
Source paths below are relative to the repository's `src/`. The modules are
written from the code; where a document, a comment or a test says something
else, a run shows the difference (section 6).

## 1. The system

Three programs share one library: `tiny-claw` (one run on the command line),
`tiny-claw-feishu` (an HTTP gateway that turns chat messages into runs) and
`tiny-claw-bench` (a test harness). A run is synchronous Rust on one thread; it
meets others through mutexes, channels, files, HTTP and processes.

| Component | State it keeps | Operations | What makes it hard |
|---|---|---|---|
| subagent supervisor (`agent_runtime/supervisor.rs`) | table of agents, their status, join handle and cancel flag, id counter, a directory per agent | `delegate`, `status`, `join`, `cancel`, the agent's thread | status, flag and files are published in separate steps; panics; ids that restart |
| session and manager (`memory/`) | history, run lock; table of sessions | `lock_run`, `append`, `get_or_create` | several runs of a chat, a lock that is poisoned by a panic |
| ReAct loop (`engine/mod.rs`) | turn, batch, observations | `run_session_with_reporter`, tool batches | early returns in the middle of a turn, threads of a batch |
| tool registry and middlewares (`tools/registry.rs`, `telemetry/tool.rs`) | counters | `execute_with_trace` | five ways out |
| permission policy (`tools/permission.rs`) | none | `decide` | the order of the rules |
| bash tool (`tools/bash.rs`) | a child process and its pipe | `execute` | polling without reading, timeout, processes left behind |
| file tools (`tools/edit.rs`, `write_file.rs`, `read_file.rs`, `grep.rs`) | none: one file, which others write too | `execute` | path guards, pages, four levels of fuzzy matching, a read and a write with nothing between them |
| failure reminders (`context_engine/reminder.rs`) | streaks, counters, cooldown | `observe_tool_batch` | long sequences |
| error recovery (`context_engine/recovery.rs`) | none | `analyze` | codes that the reminders compare |
| context compaction (`context_engine/compaction.rs`) | none | `compact` | a budget, a protected tail |
| providers (`provider/`) | the state of a stream | `generate`, `generate_stream` | mixed fragments, early ends |
| telemetry (`telemetry/metrics.rs`, `provider.rs`) | counters | `record_*` | none |
| trace recorder and worker (`telemetry/trace.rs`) | active spans, bounded queue, worker | `start_span`, `finish_span`, `export_worker`, `drop` | a thread of its own, overflow, idle exit, join inside drop |
| trace exporters (`telemetry/*exporter.rs`) | a file or an HTTP client | `export` | none: the result is ignored |
| approval manager (`integrations/feishu/approval.rs`) | pending and completed approvals, id counter | `wait_for_tool_approval`, `resolve` | clicks, timeout and network in any order, cards older than the process |
| Feishu server (`integrations/feishu/server.rs`, `event.rs`) | deduper, sessions, blocking pool | `handle_event`, jobs | redelivery, panics, a bounded pool |
| Feishu client and tokens (`client.rs`, `token.rs`) | a cached token, shared by threads | requests, refresh | two refreshes at once, a token that ends while it is used |
| skills and help tool (`context_engine/skills.rs`, `tools/load_skill.rs`) | the set of loaded skills, shared by an agent and its subagents | catalog, `load_skill` | files that change between two reads, one lock through a whole call |
| subagent templates (`agent_runtime/templates.rs`, `ToolRegistry::subset`) | none | `resolve` | what parent and subagent share |
| prompt, schema, file memory, reporters, wiring, benchmarks | none of their own | text and start-up | none |

Interactions: the server starts a job per message; a job opens its chat's
session, takes its run lock and runs the loop; the loop compacts the history,
calls a provider, dispatches the calls of the answer to the registry or the
supervisor, and reports to the reporter. The registry asks the approval
middleware, which blocks the run's thread until another thread's callback
resolves the approval. The supervisor starts threads which run the same loop
with a subset of the parent's registry, whose tools (and so the set of loaded
skills) are the parent's own. Cards and replies go out through one Feishu
client and its one cached token. Spans are handed from every one of these threads to
the export worker.

What has to be right, component by component:

- supervisor: a finished status is final; whoever owns the join sees the end;
  Completed means that the record is on disk; an early cancel decides; every
  agent settles.
- session and loop: runs do not interleave; results follow their calls;
  requests are answered; the lock is given back on every path.
- approval: no tool runs without a recorded Allow for it; the first decision
  stands; every wait ends; nothing is left pending.
- gateway: a redelivered message starts no second run; chats are serial;
  trouble stays in its chat; nothing happens without the token.
- traces: what is accepted is handed on once, in order; what is not is
  counted; the drop returns.
- batches: counters, reminders and outputs say what happened.
- model calls: a request that both endpoints accept, and a stream that means
  the same as the whole response.
- tokens: a token from the cache is still valid when the platform looks at it.
- skills: a body is given once per registry; the body of a hidden skill never
  reaches a model; what the catalog offers can be loaded.
- file tools: an edit replaces one block that reads like its old text and leaves
  the rest alone; what a read has shown can be edited; pages cover the file.

## 2. Modules

| Module | Models | Variables and actions in the code |
|---|---|---|
| `Supervisor` | `agent_runtime/supervisor.rs` | `table`, `status`, `report`, `cancelled`, `handle` are the fields of `AgentRecord` and `AgentRunStatus`; `thread` is the program point of `run_agent_thread`; `dir` is `.tiny-claw/agents/<id>/`. One action per critical section, disk write or blocking call: `DelegateSpawn` and `DelegateInsert` are the two halves of `spawn`, `JoinTake`/`JoinWait`/`JoinRead` those of `join`, `CancelFlag`/`CancelStatus` those of `cancel`. `cancel` keeps the agents' lock through both (`LockFree`). |
| `ToolGate` | the promise of the approval middleware | abstract: idle, asked, granted, ran, refused, and a verdict that never changes |
| `Approval` | `approval.rs`, the middleware in `app.rs` | `pending`, `completed`, `channel` as in `ApprovalState`; `stage` is the point of `wait_for_tool_approval`; `cards` are in the chat and outlive the process. The phase of an approval refines `ToolGate`. |
| `Conversation` | the promise of a session to the engines that share it | abstract: the runs speak one after the other, each in the language of a ReAct loop, and nothing that was said is taken back |
| `ChatService` | the promise of the gateway to its chats | abstract: a known message starts no job, the jobs of a chat run one at a time, a broken chat refuses and breaks no other |
| `ExportChannel` | the promise of a trace about the spans that end | abstract: a record is taken or counted, what is taken goes out in order, once and in batches |
| `ReActSession` | `run_session_with_reporter`, the batches, `Session` | `history`, `lock`, `poisoned` are the session's; `pc`, `turn`, `calls`, `started`, `results`, `next` each run's. Messages are their place in the loop. Refines `Conversation` under `Session`. |
| `Gateway` | `server.rs`, `parse_callback`, `get_or_create` | `seen`/`stale` the deduper, `job` each accepted message on its way through the pool, `session` the table, `holder`/`poisoned` the run locks. Refines `ChatService` under `Service`. |
| `TraceExport` | `telemetry/trace.rs` | `span` the map of active spans and their guards, `queue` the sync channel, `worker`/`batch` the worker's loop, `recorder` the drop. Refines `ExportChannel` under `Channel`. |
| `Bash` | `tools/bash.rs` | actions only; `poller` is the point of `execute`, shell, pipe and background process are external; `kept` and `cut` are what `truncate_output` makes of the output, in bytes of the text |
| `ToolTurn` | `registry.rs`, `permission.rs`, `reminder.rs`, `recovery.rs`, the dispatch of the engine | composes `Bash` (EXTENDS); `todo`, `results` the batch, `reminders` the `ReminderManager`, `telemetry` the tool counters |
| `ModelCall` | `compaction.rs`, both providers, `sse.rs`, `telemetry/provider.rs` | `messages` becomes `request`, `said` (what the model means, external) arrives as fragments and is assembled in `content`, `calls`, `usage` |
| `FeishuToken` | `token.rs`, the requests of `client.rs` | `cached` is the cache; `sender` the point of each thread that sends; `clock` ticks. `Hit`, `Miss`, `Issue` (external: the platform), `Fetched`, `Store`, `Sent` |
| `Skills` | `skills.rs`, `load_skill.rs`, `templates.rs`, the catalog of `context_engine/mod.rs`, `subset` | `loaded` is `loaded_skills`; `loading` the point of each `load_skill`, which holds the lock from `Lookup` to its answer and reads the file in `ReadManifest` and again in `ReadBody`; `offered` the catalog in a prompt; `Delegate`, `ComposePrompt`, `NextMessage` |
| `FileTools` | `edit.rs`, `write_file.rs`, `read_file.rs`, `grep.rs` | `file` the text; `ReadFile`, `WriteFile`, `Grep`, `Refuse` (the path guards); `EditRead` and `EditWrite` are the two halves of `edit_file`, `writing` says that it is between them; `ForeignWrite` is anybody else |
| `MCLeaves` | `ModelCall`, `FeishuToken`, `Skills`, `FileTools` for TLC | these four share no state with the others; `part` says which one runs |
| other `MC...` | values of the constants for TLC | |
| `SupervisorProofs`, `ApprovalProofs`, `GatewayProofs`, `ReActSessionProofs`, `TraceExportProofs`, `ToolTurnProofs`, `LeavesProofs` | theorems, section 5; `LeavesProofs` holds those of the four components of `MCLeaves` | |
| `FoldLemmas` | lemmas about `FoldLeft`, for the operator that a proof module puts in its place | |

Texts are abstracted everywhere: a message is its place, a length, or a
sequence of pieces; a path, a wording and a layout are left out. Bounds that
the code does not have are constants marked `bound` and stand in the guards.
Histories (`ackedAt`, `winner`, `lapsed`, `ending` ...) are marked as such
where they are declared, and no guard reads them except to bound a counter.

## 3. Runs

| Run | Question | Bounds | States |
|---|---|---|---|
| `supervisor` | who may be told what, what is final, do agents settle and joins return, in every interleaving of callers and thread | 2 callers, 1 agent, 1 turn, 1 restart, panics, a report file whose write may fail | 1.05 million |
| `supervisor_late_cancel` | (violation) does an acknowledged cancel hold | 1 caller, 1 agent, no faults at all | |
| `approval` | does the manager keep the gate `ToolGate`, is no wait orphaned, does every wait end, by clicks, timeouts, failures and expiry in any order | 2 approvals, 1 restart | 0.24 million |
| `approval_stale_card` | (violation) does a card allow only what it shows | 1 approval, 1 restart | |
| `session` | is the history one `Conversation`, are runs serial, requests answered, does every run end | 2 runs (one thinks), 2 turns, 2 calls, failing reports, panics | 0.85 million |
| `session_report` | (violation) is a request answered after a failed run | 2 runs, 1 turn, 1 call | |
| `gateway` | does the gateway keep the service `ChatService`: one job per lapse, one run per chat, a panic that stays in its chat; jobs that end | 3 messages of 2 chats (one accepted twice, one not a text), 2 pool threads, 1 restart | 0.2 million |
| `export` | do recorder, queue and worker keep the channel `ExportChannel`: none lost, repeated or reordered; does the drop return | 5 spans, 2 of parallel tools, queue 2, batch 2 | 0.17 million |
| `export_idle` | (violation) is a span that ends after a quiet interval exported or counted | the same | |
| `tool_turn` | do outputs, counters and reminders tell the truth, does a bash call end | 4 batches from 10 kinds, 5 calls, rules of all three decisions; a command in the first batch, pipe 1, output up to 2, results of at most 1 (an output below, at and above the limit) | 0.19 million |
| `leaves` | model calls, token, skills and file tools, one at a time | below | 0.18 million |
| `skill_shared` | (violation) can a subagent load what its catalog offers | the skills of `leaves` | |

The bounds of `leaves`, part by part:

- model call: the system prompt and 1 to 3 steps, up to 2 calls each, sizes on
  both sides of each limit, both providers; responses of up to 2 calls and up to
  2 pieces each, broken or cut anywhere. Properties `AnswersFollowCalls`,
  `OverBudgetOnlyWhenProtected`, `StreamIsResponse`, `CutCallsDoNotRun`.
- token: 2 senders, lifetimes 1 and 3 with a margin of 2 (one shorter than the
  margin, one longer), a fetch of up to 1 tick and a request of up to 1, 6
  ticks. Property `CachedTokenIsValid`.
- skills: the built-in skill and one of the workspace, four kinds of `SKILL.md`
  (hidden, hidden by a frontmatter that is not recognised, invalid, not closed)
  or none, 2 calls of the parent and 1 of a subagent, files that change at any
  moment. Properties `LoadedIsGivenOnce`, `HiddenBodyOnlyInARace`.
- file tools: nine files (LF, CRLF, mixed and lone CR; indented; repeated and
  overlapping lines; empty), 6 old texts and 3 new ones besides what a read has
  shown, six paths (one a link that leads elsewhere), line counts 1 and 3 with
  pages of 2, a foreign writer at any moment. Properties `EditsOneBlock`, `ShownTextIsEditable`, `PagesCoverFile`.

Why the bounds are enough: two callers suffice for every race on one agent
(one takes the handle or cancels, the other observes), agents share only the
table, the counter and the lock, and one restart makes an id name two agents.
Two approvals distinguish "this id" from "another id", one restart gives an
old card. Two runs and two turns give a run behind a failed, a panicked and a
completed one and an observation before the next request; two calls give an
order and both kinds of batch. Two messages of a chat whose entry lapses give
three jobs for two threads. Five spans overflow a queue of two while the worker
holds a batch, and leave a partial batch for the drain. Four failing batches
pass every threshold (3 alike, 4 calls, 3 turns) and the cooldown of 2. Two
senders can miss the cache together and store in either order. Three calls of
`load_skill` give one that waits for the lock, one that finds the skill loaded
and one of another agent. The safety theorems of section 5 hold for all bounds.

`CHECK_DEADLOCK FALSE` stands where a system may stop: all approvals asked for
and ended, all runs returned, all messages handled, the recorder closed, the
last batch observed; in `leaves` the call has returned or the clock is at its
bound. The supervisor's callers never run out of operations, and skills can
always be asked for, so these runs check for deadlock.

What each property says, and what it would take to break it, stands in the
comment before its definition; the mutants in the modules (each marked
`Mutant:`) are the bugs that break them.

## 4. Fairness

- `Supervisor`: weak fairness of each agent's thread and of each caller inside
  an operation. The operating system schedules runnable threads; a mutex is
  held for finitely many instructions; provider and tools have timeouts.
  Nothing obliges a caller to call. `std::sync::Mutex` is not fair, so other
  callers may keep one from the agents' lock for ever; `JoinReturns`, checked
  with two callers, names that case and promises nothing in it.
- `Approval`: a network call ends, `recv_timeout` fires (ten minutes), a
  callback that has taken the sender sends. Nobody has to click.
- `ReActSession`: each run and its batch's threads proceed. A run that waits
  for the lock gets it when the finitely many other runs have had it.
- `Gateway`: each job on a thread proceeds, and a free thread takes a job.
- `TraceExport`: guards end on every path (`SpanGuard::drop`), the worker is
  scheduled, the exporter returns (it has a timeout of its own).
- `ToolTurn`: processes are scheduled, time passes, the tool polls. A process
  left in the background need not end, and `BashEnds` leaves it out by name.

## 5. Proofs

Seven modules hold theorems and one, `FoldLemmas`, lemmas that they share. The
theorems hold for every value of the constants allowed by the named assumption of
the module (`SupervisorAssumption`, `GatewayAssumption` and so on): numbers are
naturals, flags are Booleans, texts are texts, a job that does not exist is no job.
Some say more:

- `ToolTurnAssumption` has bash among the tools that may write (it keeps the
  default `access_mode`, `registry.rs:15`).
- `FeishuTokenAssumption` bounds the delays by the margin, see below.
- `DiskAssumption` names the files whose writes may fail.
- `BudgetAssumption` says that what compaction leaves of a message, marker
  included, is within the limit it was shortened for. `ContextBudget::default`
  (`compaction.rs:22`) leaves 2 x 1000 of 8000 characters of a recent
  observation, and masks one of more than 1000 with a line of text.
- `HistoriesAssumption`: each response of a history is followed by the
  observations of its calls, in order, as the runs of `ReActSession` leave it
  unless one failed before (`CalmRequestsAreAnswered`; `session_report` shows
  the other case). A system prompt answers no call.
- `ResponsesAssumption`: the calls of one response have ids that differ, as both
  endpoints promise.

Few of the invariants that the runs check are inductive as they stand; each
proof has its own strengthening.

**Supervisor.** `IInv` is `TypeOK`, `StageInv`, `CallerInv`, `CancelInv` and
`OwnerOfHandleSeesTheEnd`. `StageInv` ties the place of a thread to what its
agent shows: Running up to `publish`, the verdict afterwards, a handle only
with an entry in the table. `CallerInv` says what a caller inside a join or a
cancel may rely on: whoever is past `JoinWait` as the owner stands before a
thread that has ended. `CancelInv` says that a cancel acknowledged before the
last look has set the flag and that the verdict honours it. From it follow
`TypeCorrect`, `JoinOwnerSeesTheEnd`, `EarlyCancelDecides` and the action
property `FinalStatus`. `CompletedHasItsRecord` needs one more invariant,
`DiskInv`: how much of the record is on disk at each place of the thread. It
speaks of each file on its own, and leaves out those whose writes may fail: the
code ignores such failures.

**Approval.** `IInv` is `TypeOK`, `AnswerInv` (the answer of a wait is in
exactly one place: still pending, in a callback's hand, in the channel, or
taken, and it is the decision that was recorded) and `FreshInv` (ids not yet
given out are untouched). It gives `TypeCorrect`, `NoOrphans`, `NoLeak`,
`OnlyWhenAllowed` and `FirstDecisionStands`. `ApprovedOnItsCard` adds
`OneProcessInv`, which ties recorded decisions to the cards of the first
process. `ImplementsGate` shows that every step is a step of `ToolGate` or
leaves it alone, under the refinement mapping `PhaseOf`.

**Gateway.** `IInv` is `TypeOK`, `DedupInv` (jobs, lapses and the entry of a
message add up, and the jobs are numbered as they were accepted), `SessionInv`
(one session per chat, a running job holds its lock), `PoisonInv` (a poisoned
session has a panicked job of its chat) and `OnlyVerifiedCallbacksAct`. It
gives `TypeCorrect`, `RedeliveryIsAbsorbed`, `ChatsAreSerial`,
`PanicIsContained` and `VerifiedOnly`. `ImplementsService` shows that every step
of the gateway is a step of `ChatService` or changes nothing of it. The abstract
stage of a job is the place of the gateway's job with the way to the run lock
as one place (`Stage`), known are the messages whose entry has not lapsed
(`Swept`: what the next callback will find), and broken the chats whose session
has a poisoned lock. It needs one invariant more, `PlaceInv`: the session with a
poisoned lock is still the session of its chat, so that every later job of the
chat meets it.

**Session.** `RunInv` is `TypeOK`, `HoldInv` (the run between `Enter` and its
end holds the lock), `TurnInv` (the limit is looked at first) and `BatchInv`
(where a batch stands in its calls). The history has its own argument: every
step is a `HistoryStep`, which leaves the history alone or adds one message of
the run that holds the lock. On this rest `RunsStayApart` (`BlockInv`: the last
message is the holder's, and a queued run has none yet), `ResultsStandInOrder`
(`OpenInv`: during a batch the history ends with the response and the
observations it has so far) and `CalmSessionsAreAnswered` (`CalmInv`: the only
response without all its observations is the one of the open batch).
`ImplementsConversation` says all of it at once and more: the history is one
`Conversation`, whatever threads, reports, errors and panics made it. The speaker
is the run with the lock, and what it owes (`Owed`) are the observations that it
has not appended yet. The proof has one lemma for each action: it says the next
message (`EnterSpeaks`, `ActSpeaks`, `ObserveSpeaks` ...), ends the part of the run
(`LeaveCloses`, `PanicCloses`) or is silent (`ToolsAreSilent`: the threads of a
batch). `TailInv` ties the place of the run with the lock to the last message of
the history; without it a turn could not be placed behind what was said before.

**Traces.** `IInv` is `TypeOK`, `BatchInv` (what the worker holds at each place
of its loop), `SealInv` (the sender goes when no guard and no run is left),
`HandedInOrder`, `CalmInv` (a worker that has never idled leaves only behind the
sender, with nothing left) and `CountInv` (as long as somebody receives, each
span that ended was accepted or counted). It gives
`TraceTypeCorrect`, `RecordsKeepTheirOrder` and `BusyWorkerIsComplete`.
`ImplementsChannel` shows that recorder, queue and worker implement
`ExportChannel`: batch and queue together are what was taken, so that a record
which moves from one to the other is a stutter (`MoveIsSilent`) and the batches
of both loops are prefixes that are cut off (`CutFront`). `SealInv` and `CalmInv`
give the end of the channel: a worker leaves with nothing taken, or has idled.

**Batches.** `BashInv` (what is written, in the pipe and read add up, a process
that is gone writes no more, and a result is what was read or says that it was
cut) gives `ResultsTellTheirOutput`, for any limit; `CallsInv`
and `CountInv` (results and remaining calls are the batch; while bash runs, its
call is the first of those that remain and was let through) give
`ExecutionsAreCounted` and `BatchTypeCorrect`; `StormInv`, which ties the cooldown to the number of failing
turns since the last reminder, gives `StormsAreNoticed`. `TruthInv` is about the
reminders: the counters are the numbers of calls and of turns since the last
reset, and each streak is the longest tail of the failing calls that agree in
the tool and its arguments, or in the code. It gives `RemindersAreTrue`, whatever
the thresholds and the length of the storm.

**Folds.** The code's loops over messages, lines and fragments are folds
(`FoldLeft`). `FoldLemmas` proves once what the other proofs need of them: a
fold exists and goes on step by step (`FoldEmpty`, `FoldAppend`), and what holds
at first and is kept by each step holds at the end (`FoldInvariant`,
`FoldType`). The community modules define folds by recursive functions on sets
of indices, so this needs induction. The library's induction theorems take a predicate as
a parameter, which the provers cannot instantiate; here the set of the numbers that
have the property stands in its place, and that it holds all naturals follows from
the least number outside it (`NatLessThanWellFounded`, `WFMin`). A proof module
takes the lemmas with `INSTANCE FoldLemmas WITH Op <- ...`, once for each loop.

**Model call.** `Building` is the invariant of the loop that builds a Claude
request: all the blocks before the last are answered, and the last may wait for
results of which the first ones are pending. With `RequestInv` (what is sent
is the compacted copy of a history) it gives `RequestsAreAnswered`. `BudgetIsKept`
follows from what compaction leaves of each message and from the loop of
`estimate_chars`. `StreamInv` says, entry by entry, that the accumulator holds what has
arrived, including the padding of entries that came out of order; with it the
message made of a stream that came whole is the response, `StreamsAreFaithful`,
and no call of a stream that was cut is dispatched, `OnlyWholeCallsRun`. Its
type invariant is `CallTypeCorrect`.

**Token.** `TokenInv` says that the cached token, and one on its way to the
cache, is honest: what the cache believes of its end, plus the margin, is no
later than its real end. It gives `TokenTypeCorrect` and
`CachedTokensAreValid`. The assumption `FetchTime + SendTime <= SafetyMargin` is about
the world: the margin is 60 s (`token.rs`), while reqwest's blocking client
gives up after 30 s without an answer, but waits for the head and for the body
of an answer separately; so the theorem is about platforms that let the body
follow the head promptly.

**Skills.** `SkillsInv` is `SkillsTypeOK`, `CallInv`, `LockInv` (one call is between
its lookup and its answer, and its skill is not loaded yet) and `PolicyInv`
(between its two reads a call has seen a file that does not hide the skill,
unless it was changed since), with the two properties that follow:
`BodyIsGivenOnce` and `HiddenOnlyByRace`.

**Files.** `FilesInv` adds to the types that the page shown last by `read_file` is of
a text, made of lines of that text (`PageOf`), that its next line is one of it or 0, and
that an edit which is under way has been begun. It gives `PagesAreWhole` and
`FilesTypeCorrect`: each of the four levels of `fuzzy_replace` makes a text of texts.
Two of its conjuncts speak of the content of the file. They rest on lemmas about the
conversions of text, each by induction on texts (`InductionOnTexts`, which a fold
over characters needs as much as one over messages):

- *Lines.* `SplitLines` and `JoinLines` are inverse (`JoinSplit`, `SplitJoin`), and a
  joined block stands between what is joined above and below it (`JoinAround`).
- *Trimming.* A text has one tight core (`TrimUnique`); white around a text
  only adds blank lines around the trimmed ones (`PadLeft`, `PadRight`), so that what a
  text reads like does not depend on them (`CoreLines`, `CoreSides`).
- *Newlines.* `normalize_newlines` of a text in two parts is that of the parts, but for
  a newline that a `\r` at the seam absorbs (`NormOnto`, `NormBegin`); a text without `\r`
  is left alone (`NormPlain`), and the restored style is undone by it
  (`NormRestored`).

`OnlyOneBlockChanges` then says for each level that the edit swaps the middle
of three parts (`Swapped`): a match of the text itself whose normal form is found again
between the normal forms of its neighbours (`ExactSwaps`), a match in the normal form
(`NormalizedSwaps`), or a block of lines that `reindent_replacement` replaces by lines
which read like new_text (`ReindentKeepsLines`, `ByLineSwaps`). `ShownTextIsFound`
compares the two ways in which the code forgets a `\r`. `str::lines` strips one from each
line, and normalizing a text is normalizing each stripped line (`NormLinked`,
`NormJoined`, `NormLines`); so the normal form of a page stands in that of its file
(`PageIsFound`), and a needle that stands in a text is counted (`PartIsFound`). A line
that still ends in `\r` after it was stripped is the exception, and the file then
holds `\r\r\n` (`LineEndsInCr`).

**Leaves.** The four components of `MCLeaves` take turns and share nothing:
`LeavesRunAlone` shows that the run is a behaviour of each of the four
specifications, so that their theorems are about it too, and with them
`LeavesTypeCorrect`.

Proved and in no run: `NoLeak`, `OnlyWhenAllowed`, `FirstDecisionStands`,
`ApprovedOnItsCard`, `VerifiedOnly`, `LeavesRunAlone`, the lemmas about order
and panics that three of the refinements rest on or replace (`ResultsStandInOrder`,
`RecordsKeepTheirOrder`, `PanicIsContained`), and the type invariants of
`Approval`, `Gateway`, `ModelCall`, `FeishuToken` and `FileTools` (the last three
inside `TypesOK`).

Only model-checked: all liveness, which is beyond the prover (fairness and ENABLED):
`AgentSettles`, `JoinReturns`, `EveryWaitEnds`, `EveryRunEnds`, `EveryJobEnds`,
`CloseReturns` and `BashEnds`. Everything else that a passing run checks, the four
refinements among it, is a theorem.

## 6. Where code and documents differ

Shown by a run that finds the counterexample:

- `supervisor_late_cancel`: `supervisor.rs:396` reads the cancel flag without a
  lock and writes the status later; a cancel that answered Cancelled in between
  is overwritten, and the join delivers a report. A test
  (`supervisor/tests.rs:342`) and the design document expect "agent was
  cancelled".
- `approval_stale_card`: `approval.rs:122` numbers approvals from 1 in every
  process; a click on a card of a former process resolves the pending approval
  of the same number. The design document wants unknown ids to be refused.
- `session_report`: a reporter call that fails between the response
  (`engine/mod.rs:220`) and its observations leaves an unanswered tool call in
  the history, which the next run sends to the provider.
- `export_idle`: `trace.rs:423` ends the worker at the first flush interval
  without a span; what ends later is neither exported nor counted.
- `skill_shared`: `ToolRegistry::subset` shares the parent's `LoadSkillTool`, and
  its one set of loaded skills (`load_skill.rs:66`) tells a subagent "already
  loaded" of a body that only the parent has seen. The subagent's own prompt
  offers the skill (`context_engine/mod.rs:86`), and
  `docs/design/subagent-runtime-and-templates.md:185` wants progressive loading
  inside a subagent.

Seen while modelling, part of the models, without a run of their own:

- A subagent that panics keeps the status Running for ever (`supervisor.rs:213`);
  `AgentSettles` leaves it out by name, `JoinReturns` covers its first join.
- A click whose decision was recorded can lose against a timeout that has
  already fired (`approval.rs:65`); the tool then does not run.
- `wait_with_output` (`bash.rs:131`) waits for a background process that holds
  the pipe, without a bound. A command that writes more than the pipe holds is
  killed as timed out, because nobody reads while the tool polls.
- `truncate_output` (`bash.rs:55`) cuts a result at the limit or up to three bytes
  before it, between two characters, and says so: `ResultTellsItsOutput`.
- `write_file` looks at the canonical parent of a path only, as its comment says
  (`write_file.rs:42`): a link at the end of the path is followed, and the file
  that it names is written.
- A request can stay over the budget after compaction (`compaction.rs:46`):
  `OverBudgetOnlyWhenProtected` says what is left then.
- A stream that is cut after a fragment of text is accepted as complete
  (`sse.rs:18`). A streamed Claude call without arguments fails
  (`claude_compatible.rs:589`): `StreamIsResponse` names it.
- A new process reuses the agent ids and so appends to the records of the old
  one (`supervisor.rs:102`).
- A panic inside a run poisons the lock of its session: every later message of
  the chat fails until the process restarts (`session.rs:73`).
- A message is marked as seen before its run (`server.rs:313`): a run that
  fails is not repeated by a redelivery.
- A subagent can load every skill enabled for the parent, not only those of its
  template (`docs/design/subagent-runtime-and-templates.md:184`).
- The server builds a registry for each message, so a skill can be loaded again
  into the same history (`docs/design/progressive-skill-loading.md:86`).
- A frontmatter with an unknown key, or a line with a second colon, makes the
  whole file plain Markdown, and its `disable-model-invocation` is ignored
  (`skills.rs:142`).
- `edit_file` counts overlapping matches once (`edit.rs:271`), so "aa" in "aaa"
  is unique. A match of the first level puts LF text into a CRLF file; the other
  levels rewrite a file of mixed newlines to LF. The third level may match
  inside a line; the fourth, with a new text that ends in a newline, adds a blank
  line. `reindent_replacement` slices bytes (`edit.rs:257`) and can panic with
  wide blanks; the model's characters are one byte wide.
- What another process writes between the read and the write of `edit_file` is
  lost, and a write that breaks off leaves an empty file (`edit.rs:109`).
- `grep` answers a search that failed (exit status 2) as a success.
- The directory name of a chat (`server.rs:274`) is injective on the ids that
  Feishu gives out, which hold only letters, digits and underscores and so are kept
  as they are; the model has it as a step that succeeds or fails.

## 7. Not modelled

- The trace exporters: output whose result the worker ignores. That they are
  called, and with what, is in `TraceExport`.
- The benchmark harness (`eval/`, `bin/tiny-claw-bench.rs`): scenarios one after another, for
  tests.
- File memory: the path of a directory, no operation that changes state.
- Start-up and configuration: arguments, environment and registration happen once
  and are constants of the modules.
- Wordings: `request_user_help`, `AGENTS.md` and the plan mode in the prompt, the
  guidance of the error recovery, reports on the terminal and in the chat,
  durations and token sums.
- The directories that `write_file` makes on its way.

## 8. Plan

Written in this order, by importance: `Supervisor`, `Approval` on `ToolGate`,
`ReActSession`, `Gateway`, `TraceExport`, `ToolTurn` on `Bash`, `ModelCall`,
`FeishuToken`, `Skills`, `FileTools`; proofs of all of them. The abstract
specifications `Conversation`, `ChatService` and `ExportChannel` came last, when
the invariants they rest on were proved, and after them the proofs of
`EditsOneBlock` and `ShownTextIsEditable`. What the project could take up next are
texts with characters of several bytes, where `reindent_replacement` may cut inside one
(`edit.rs:257`), and the output of the trace exporters.

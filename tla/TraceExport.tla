----------------------------- MODULE TraceExport -----------------------------
(***************************************************************************)
(* The trace of one agent run (src/telemetry/trace.rs): the recorder, the  *)
(* guards of its spans, the bounded queue and the export worker.           *)
(*                                                                         *)
(* Spans end in any thread of the run (the threads of a parallel batch end *)
(* theirs themselves), the worker is a thread of its own, and the recorder *)
(* is dropped with its last owner: the run or a guard.  A step is one      *)
(* access to the map of active spans, to the queue or to the exporter.     *)
(***************************************************************************)
EXTENDS Naturals, Sequences, FiniteSets

CONSTANTS
  Spans,      \* span ids
  Parent,     \* the span in whose context each one is started, or Root
  Root,
  Capacity,   \* queue_capacity
  BatchSize   \* batch_size

ASSUME TraceAssumption ==
  /\ Root \notin Spans
  /\ Parent \in [Spans -> Spans \cup {Root}]
  /\ Capacity \in Nat \ {0}
  /\ BatchSize \in Nat \ {0}

VARIABLES
  span,      \* none, open (in the map of active spans), ending, ended
  owner,     \* the run holds its recorder
  recorder,  \* live, closing (its drop joins the worker), closed
  queue,     \* the sync_channel
  dropped,   \* dropped_spans
  worker,    \* where export_worker is
  batch,     \* its batch
  handed,    \* the records given to the exporter, in order
  accepted,  \* history: the records the queue took
  idled      \* history: the worker has seen a flush interval without a record

vars == << span, owner, recorder, queue, dropped, worker, batch, handed, accepted, idled >>
queueVars == << queue, dropped, accepted >>
workerVars == << worker, batch, handed, idled >>

Looping == {"wait", "collect", "export"}
Leaving == {"drain", "drain_export", "last", "leaving"}

Init ==
  /\ span = [s \in Spans |-> "none"]
  /\ owner = TRUE
  /\ recorder = "live"
  /\ queue = << >>
  /\ dropped = 0
  /\ worker = "wait"
  /\ batch = << >>
  /\ handed = << >>
  /\ accepted = << >>
  /\ idled = FALSE

\* The sender is taken out of the recorder before the worker is joined.
SenderGone == recorder # "live"

-----------------------------------------------------------------------------
(***************************************************************************)
(* The threads of the run.                                                 *)
(***************************************************************************)

\* start_root and start_child: the context that starts a child outlives the
\* guard of its span.
StartSpan(s) ==
  /\ span[s] = "none"
  /\ owner
  /\ Parent[s] # Root => span[Parent[s]] # "none"
  /\ span' = [span EXCEPT ![s] = "open"]
  /\ UNCHANGED << owner, recorder, queueVars, workerVars >>

\* finish_span takes the span out of the map ...
TakeActive(s) ==
  /\ span[s] = "open"
  /\ span' = [span EXCEPT ![s] = "ending"]
  /\ UNCHANGED << owner, recorder, queueVars, workerVars >>

\* Mutant: every refused record is taken for a disconnect.
TrySendUncounted(s) ==
  /\ span[s] = "ending"
  /\ span' = [span EXCEPT ![s] = "ended"]
  /\ IF worker # "gone" /\ Len(queue) < Capacity
       THEN queue' = Append(queue, s) /\ accepted' = Append(accepted, s)
       ELSE UNCHANGED << queue, accepted >>
  /\ UNCHANGED << owner, recorder, dropped, workerVars >>

\* ... and sends its record without waiting: a full queue is counted, a receiver
\* that is gone is not.
TrySend(s) ==
  /\ span[s] = "ending"
  /\ span' = [span EXCEPT ![s] = "ended"]
  /\ CASE worker = "gone" -> UNCHANGED queueVars
       [] worker # "gone" /\ Len(queue) < Capacity ->
            /\ queue' = Append(queue, s)
            /\ accepted' = Append(accepted, s)
            /\ UNCHANGED dropped
       [] OTHER -> dropped' = dropped + 1 /\ UNCHANGED << queue, accepted >>
  /\ UNCHANGED << owner, recorder, workerVars >>

\* The run returns; a context or guard may still hold the recorder.
ReleaseRecorder ==
  /\ owner
  /\ owner' = FALSE
  /\ UNCHANGED << span, recorder, queueVars, workerVars >>

\* The last owner drops the recorder: the sender goes first.
CloseRecorder ==
  /\ recorder = "live"
  /\ ~owner
  /\ \A s \in Spans : span[s] \in {"none", "ended"}
  /\ recorder' = "closing"
  /\ UNCHANGED << span, owner, queueVars, workerVars >>

JoinWorker ==
  /\ recorder = "closing"
  /\ worker = "gone"
  /\ recorder' = "closed"
  /\ UNCHANGED << span, owner, queueVars, workerVars >>

-----------------------------------------------------------------------------
(***************************************************************************)
(* export_worker.                                                          *)
(***************************************************************************)

\* recv_timeout gives the next record.
Receive ==
  /\ worker = "wait"
  /\ queue # << >>
  /\ batch' = << Head(queue) >>
  /\ queue' = Tail(queue)
  /\ worker' = "collect"
  /\ UNCHANGED << span, owner, recorder, dropped, accepted, handed, idled >>

\* recv_timeout fails: no record for flush_interval.  The worker leaves its loop.
Idle ==
  /\ worker = "wait"
  /\ queue = << >>
  /\ ~SenderGone
  /\ worker' = "drain"
  /\ idled' = TRUE
  /\ UNCHANGED << span, owner, recorder, queueVars, batch, handed >>

\* Mutant: an error of recv_timeout starts the loop again.
DisconnectedWaits ==
  /\ worker = "wait"
  /\ queue = << >>
  /\ SenderGone
  /\ UNCHANGED vars

\* recv_timeout fails: the sender is gone and everything it sent is received.
Disconnected ==
  /\ worker = "wait"
  /\ queue = << >>
  /\ SenderGone
  /\ worker' = "drain"
  /\ UNCHANGED << span, owner, recorder, queueVars, batch, handed, idled >>

\* Mutant: the batch is allowed one record too many.
CollectTooMany ==
  /\ worker = "collect"
  /\ IF Len(batch) <= BatchSize /\ queue # << >>
       THEN /\ batch' = Append(batch, Head(queue))
            /\ queue' = Tail(queue)
            /\ UNCHANGED worker
       ELSE worker' = "export" /\ UNCHANGED << batch, queue >>
  /\ UNCHANGED << span, owner, recorder, dropped, accepted, handed, idled >>

\* try_recv until the batch is full or nothing is there.
Collect ==
  /\ worker = "collect"
  /\ IF Len(batch) < BatchSize /\ queue # << >>
       THEN /\ batch' = Append(batch, Head(queue))
            /\ queue' = Tail(queue)
            /\ UNCHANGED worker
       ELSE worker' = "export" /\ UNCHANGED << batch, queue >>
  /\ UNCHANGED << span, owner, recorder, dropped, accepted, handed, idled >>

\* The result of the exporter is ignored.
Export ==
  /\ worker = "export"
  /\ handed' = handed \o batch
  /\ batch' = << >>
  /\ worker' = "wait"
  /\ UNCHANGED << span, owner, recorder, queueVars, idled >>

\* The loop behind the first one: one record, then a full batch is exported.
Drain ==
  /\ worker = "drain"
  /\ IF queue # << >>
       THEN /\ batch' = Append(batch, Head(queue))
            /\ queue' = Tail(queue)
            /\ worker' = IF Len(batch') >= BatchSize THEN "drain_export" ELSE "drain"
       ELSE worker' = "last" /\ UNCHANGED << batch, queue >>
  /\ UNCHANGED << span, owner, recorder, dropped, accepted, handed, idled >>

\* Mutant: a batch that the drain has exported is not cleared.
DrainExportKeeps ==
  /\ worker = "drain_export"
  /\ handed' = handed \o batch
  /\ worker' = "drain"
  /\ UNCHANGED << span, owner, recorder, queueVars, batch, idled >>

DrainExport ==
  /\ worker = "drain_export"
  /\ handed' = handed \o batch
  /\ batch' = << >>
  /\ worker' = "drain"
  /\ UNCHANGED << span, owner, recorder, queueVars, idled >>

ExportRest ==
  /\ worker = "last"
  /\ handed' = handed \o batch
  /\ batch' = << >>
  /\ worker' = "leaving"
  /\ UNCHANGED << span, owner, recorder, queueVars, idled >>

\* The function returns and drops the receiver with what it still holds.
DropReceiver ==
  /\ worker = "leaving"
  /\ worker' = "gone"
  /\ queue' = << >>
  /\ UNCHANGED << span, owner, recorder, dropped, accepted, batch, handed, idled >>

Work ==
  \/ Receive \/ Idle \/ Disconnected \/ Collect \/ Export
  \/ Drain \/ DrainExport \/ ExportRest \/ DropReceiver

Next ==
  \/ \E s \in Spans : StartSpan(s) \/ TakeActive(s) \/ TrySend(s)
  \/ ReleaseRecorder \/ CloseRecorder \/ JoinWorker
  \/ Work

Spec == Init /\ [][Next]_vars

\* Guards end on every path (SpanGuard::drop) and the exporter returns.
Fairness ==
  /\ \A s \in Spans : WF_vars(TakeActive(s) \/ TrySend(s))
  /\ WF_vars(CloseRecorder \/ JoinWorker)
  /\ WF_vars(Work)

FairSpec == Spec /\ Fairness

-----------------------------------------------------------------------------
TypeOK ==
  /\ span \in [Spans -> {"none", "open", "ending", "ended"}]
  /\ owner \in BOOLEAN
  /\ recorder \in {"live", "closing", "closed"}
  /\ queue \in Seq(Spans) /\ Len(queue) <= Capacity
  /\ dropped \in Nat
  /\ worker \in Looping \cup Leaving \cup {"gone"}
  /\ batch \in Seq(Spans) /\ Len(batch) <= BatchSize
  /\ handed \in Seq(Spans)
  /\ accepted \in Seq(Spans)
  /\ idled \in BOOLEAN

\* The worker hands every record on once and in the order of the queue, whatever
\* the way it cuts them into batches, also while it drains.
HandedInOrder == worker # "gone" => handed \o batch \o queue = accepted

Ended == {s \in Spans : span[s] = "ended"}

Channel == INSTANCE ExportChannel WITH
  Records <- Spans, offered <- Ended, taken <- batch \o queue, out <- handed,
  lost <- dropped, rested <- idled, ended <- worker = "gone"

\* Recorder, queue and worker are one channel: a span that ends is taken or counted,
\* the exporter is given what was taken in order and once, whatever the way the two
\* loops cut it into batches, a record is turned down only when the queue is full,
\* and nothing is lost in silence unless the worker has idled.
ChannelSpec == Channel!Spec

\* When the run gets past the drop of its recorder, every span that has ended is
\* with the exporter or counted in dropped_spans, if the worker has never idled.
BusyWorkerLosesNothing ==
  recorder = "closed" /\ ~idled => Cardinality(Ended) = Len(handed) + dropped

\* The drop of the recorder joins a worker that ends: the run, which still holds
\* its session, is not kept for ever.
CloseReturns == recorder = "closing" ~> recorder = "closed"

\* "collect up to N spans or wait up to T milliseconds", then export, and the
\* counter tells what is dropped: said of every run, idle or not.
EndedIsExportedOrCounted ==
  recorder = "closed" => Cardinality(Ended) = Len(handed) + dropped
=============================================================================

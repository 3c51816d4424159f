---------------------------- MODULE TraceExportProofs ----------------------------
(***************************************************************************)
(* Proofs about the trace recorder and its worker: for any spans, any      *)
(* parents, any capacity of the queue and any size of a batch.             *)
(***************************************************************************)
EXTENDS TraceExport, SequenceTheorems, FiniteSetTheorems, TLAPS

\* Where the worker stands says how much its batch holds.
BatchInv ==
  /\ worker \in {"wait", "leaving", "gone"} => batch = << >>
  /\ worker = "drain" => Len(batch) < BatchSize

\* The sender goes when no guard and no run is left to end a span.
SealInv ==
  /\ SenderGone => ~owner /\ \A s \in Spans : span[s] \in {"none", "ended"}
  /\ recorder = "closed" => worker = "gone"

\* A worker that has never idled leaves only behind the sender, with nothing left,
\* and hands everything on before it goes.
CalmInv ==
  ~idled /\ worker \notin Looping =>
    /\ SenderGone /\ queue = << >>
    /\ worker = "gone" => handed = accepted

\* As long as somebody receives, each span that has ended is accepted or counted.
CountInv ==
  /\ IsFiniteSet(Ended)
  /\ worker # "gone" \/ ~idled => Cardinality(Ended) = Len(accepted) + dropped

IInv == TypeOK /\ BatchInv /\ SealInv /\ HandedInOrder /\ CalmInv /\ CountInv

-----------------------------------------------------------------------------
(***************************************************************************)
(* Sequences.                                                              *)
(***************************************************************************)

LEMMA HeadFirst ==
  ASSUME NEW S, NEW q \in Seq(S), q # << >>
  PROVE  /\ Head(q) \in S /\ Tail(q) \in Seq(S)
         /\ Len(q) \in Nat \ {0} /\ Len(Tail(q)) = Len(q) - 1
         /\ << Head(q) >> \in Seq(S)
         /\ q = << Head(q) >> \o Tail(q)
  <1>1. /\ Head(q) \in S /\ Tail(q) \in Seq(S) /\ Len(Tail(q)) = Len(q) - 1
    BY HeadTailProperties
  <1>2. Len(q) \in Nat \ {0}
    BY EmptySeq
  <1>3. 1 \in 1 .. Len(q) /\ Len(q) \in 1 .. Len(q)
    BY <1>2
  <1>4. SubSeq(q, 1, Len(q)) = << q[1] >> \o SubSeq(q, 1 + 1, Len(q))
    BY <1>3, SubSeqRecursiveFirst, Zenon
  <1>5. SubSeq(q, 1, Len(q)) = q
    BY SubSeqFull
  <1>6. Tail(q) = SubSeq(q, 1 + 1, Len(q))
    BY TailIsSubSeq
  <1>7. q[1] = Head(q)
    BY <1>2
  <1>8. << Head(q) >> \in Seq(S)
    BY <1>1
  <1> QED
    BY <1>1, <1>2, <1>4, <1>5, <1>6, <1>7, <1>8, Zenon

\* A batch b and a queue q hold, behind h, what x and y hold.
SameOrder(h, b, q, x, y) == (h \o x) \o y = (h \o b) \o q

\* Moving the head of the queue to the end of the batch keeps the order.
LEMMA MoveHead ==
  ASSUME NEW S, NEW h \in Seq(S), NEW b \in Seq(S), NEW q \in Seq(S), q # << >>,
         NEW x, x = Append(b, Head(q)), NEW y, y = Tail(q)
  PROVE  SameOrder(h, b, q, x, y)
  <1>1. /\ Head(q) \in S /\ << Head(q) >> \in Seq(S) /\ Tail(q) \in Seq(S)
        /\ q = << Head(q) >> \o Tail(q)
    BY HeadFirst
  <1>2. Append(b, Head(q)) = b \o << Head(q) >>
    BY <1>1, AppendIsConcat
  <1>3. h \o (b \o << Head(q) >>) = (h \o b) \o << Head(q) >>
    BY <1>1, ConcatAssociative
  <1>4. h \o b \in Seq(S)
    BY ConcatProperties
  <1>5. ((h \o b) \o << Head(q) >>) \o Tail(q) = (h \o b) \o (<< Head(q) >> \o Tail(q))
    BY <1>1, <1>4, ConcatAssociative
  <1> QED
    BY <1>1, <1>2, <1>3, <1>5, Zenon DEF SameOrder

\* What the queue accepts is the last of all there is.
LEMMA AppendLast ==
  ASSUME NEW S, NEW a \in Seq(S), NEW q \in Seq(S), NEW s \in S
  PROVE  a \o Append(q, s) = Append(a \o q, s)
  <1>1. << s >> \in Seq(S) /\ a \o q \in Seq(S)
    BY ConcatProperties
  <1>2. Append(q, s) = q \o << s >> /\ Append(a \o q, s) = (a \o q) \o << s >>
    BY <1>1, AppendIsConcat
  <1>3. (a \o q) \o << s >> = a \o (q \o << s >>)
    BY <1>1, ConcatAssociative
  <1> QED
    BY <1>2, <1>3, Zenon
-----------------------------------------------------------------------------
LEMMA InitialTrace == Init => IInv
  <1> SUFFICES ASSUME Init PROVE IInv
    OBVIOUS
  <1>1. << >> \in Seq(Spans) /\ Len(<< >>) = 0
    BY EmptySeq
  <1>2. Capacity \in Nat /\ BatchSize \in Nat \ {0}
    BY TraceAssumption
  <1>3. TypeOK
    <2>1. queue = << >> /\ batch = << >> /\ handed = << >> /\ accepted = << >> /\ dropped = 0
      BY DEF Init
    <2>2. /\ queue \in Seq(Spans) /\ Len(queue) <= Capacity
          /\ batch \in Seq(Spans) /\ Len(batch) <= BatchSize
          /\ handed \in Seq(Spans) /\ accepted \in Seq(Spans) /\ dropped \in Nat
      BY <1>1, <1>2, <2>1
    <2>3. /\ span \in [Spans -> {"none", "open", "ending", "ended"}]
          /\ owner \in BOOLEAN /\ idled \in BOOLEAN
          /\ recorder \in {"live", "closing", "closed"}
          /\ worker \in Looping \cup Leaving \cup {"gone"}
      BY DEF Init, Looping, Leaving
    <2> QED
      BY <2>2, <2>3 DEF TypeOK
  <1>4. BatchInv /\ SealInv /\ CalmInv
    BY DEF Init, BatchInv, SealInv, CalmInv, SenderGone, Looping
  <1>5. HandedInOrder
    BY <1>1, ConcatEmptySeq DEF Init, HandedInOrder
  <1>6. Ended = {}
    BY DEF Init, Ended
  <1>7. CountInv
    BY <1>1, <1>6, FS_EmptySet DEF Init, CountInv
  <1> QED
    BY <1>3, <1>4, <1>5, <1>7 DEF IInv

\* Steps that change neither the queue nor the worker nor which spans have ended.
LEMMA RunKeeps ==
  ASSUME IInv, UNCHANGED << queueVars, workerVars >>, Ended' = Ended,
         span' \in [Spans -> {"none", "open", "ending", "ended"}], owner' \in BOOLEAN,
         recorder' \in {"live", "closing", "closed"}, SealInv', SenderGone => SenderGone'
  PROVE  IInv'
  <1>1. UNCHANGED << queue, dropped, accepted, worker, batch, handed, idled >>
    BY DEF queueVars, workerVars
  <1>2. TypeOK'
    BY <1>1 DEF IInv, TypeOK
  <1>3. BatchInv' /\ HandedInOrder' /\ CalmInv'
    BY <1>1 DEF IInv, BatchInv, HandedInOrder, CalmInv
  <1>4. CountInv'
    BY <1>1 DEF IInv, CountInv
  <1> QED
    BY <1>2, <1>3, <1>4 DEF IInv

LEMMA StartKeeps ==
  ASSUME IInv, NEW s \in Spans, StartSpan(s) \/ TakeActive(s)
  PROVE  IInv'
  <1>1. UNCHANGED << owner, recorder, queueVars, workerVars >>
    BY DEF StartSpan, TakeActive
  <1>2. PICK x \in {"open", "ending"} : span' = [span EXCEPT ![s] = x]
    BY DEF StartSpan, TakeActive
  <1>3. /\ span' \in [Spans -> {"none", "open", "ending", "ended"}]
        /\ Ended' = Ended
    <2>1. span \in [Spans -> {"none", "open", "ending", "ended"}]
      BY DEF IInv, TypeOK
    <2>2. span[s] # "ended"
      BY DEF StartSpan, TakeActive
    <2> QED
      BY <1>2, <2>1, <2>2 DEF Ended
  <1>4. ~SenderGone
    BY DEF IInv, SealInv, StartSpan, TakeActive
  <1>5. SealInv'
    BY <1>1, <1>4 DEF IInv, TypeOK, SealInv, SenderGone
  <1> QED
    BY <1>1, <1>3, <1>4, <1>5, RunKeeps DEF IInv, TypeOK

LEMMA RecorderKeeps ==
  ASSUME IInv, ReleaseRecorder \/ CloseRecorder \/ JoinWorker
  PROVE  IInv'
  <1>0. UNCHANGED << span, queueVars, workerVars >>
    BY DEF ReleaseRecorder, CloseRecorder, JoinWorker
  <1>1. /\ owner' \in BOOLEAN
        /\ recorder' \in {"live", "closing", "closed"}
        /\ SenderGone => SenderGone'
    BY DEF IInv, TypeOK, ReleaseRecorder, CloseRecorder, JoinWorker, SenderGone
  <1>2. worker' = worker
    BY <1>0 DEF workerVars
  <1>3. SealInv'
    BY <1>0, <1>2 DEF IInv, SealInv, ReleaseRecorder, CloseRecorder, JoinWorker, SenderGone
  <1>4. Ended' = Ended
    BY <1>0 DEF Ended
  <1> QED
    BY <1>0, <1>1, <1>3, <1>4, RunKeeps DEF IInv, TypeOK

\* A span that ends is accepted or counted while somebody receives.
LEMMA TrySendKeeps ==
  ASSUME IInv, NEW s \in Spans, TrySend(s)
  PROVE  IInv'
  <1>0. TypeOK /\ BatchInv /\ SealInv /\ HandedInOrder /\ CalmInv /\ CountInv
    BY DEF IInv
  <1>1. UNCHANGED << owner, recorder, worker, batch, handed, idled >>
    BY DEF TrySend, workerVars
  <1>2. span[s] = "ending" /\ span' = [span EXCEPT ![s] = "ended"]
    BY DEF TrySend
  <1>3. ~SenderGone
    BY <1>0, <1>2 DEF SealInv
  <1>4. idled \/ worker \in Looping
    BY <1>0, <1>3 DEF CalmInv
  <1>5. SealInv' /\ BatchInv' /\ CalmInv'
    BY <1>0, <1>1, <1>3, <1>4 DEF SealInv, BatchInv, CalmInv, SenderGone
  <1>6. /\ span' \in [Spans -> {"none", "open", "ending", "ended"}]
        /\ Ended' = Ended \cup {s} /\ s \notin Ended
    BY <1>0, <1>2 DEF TypeOK, Ended
  <1>7. IsFiniteSet(Ended') /\ Cardinality(Ended') = Cardinality(Ended) + 1
    BY <1>0, <1>6, FS_AddElement DEF CountInv
  <1>8. CASE worker = "gone" /\ UNCHANGED queueVars
    <2>1. UNCHANGED << queue, dropped, accepted >>
      BY <1>8 DEF queueVars
    <2>2. TypeOK' /\ HandedInOrder'
      BY <1>0, <1>1, <1>6, <2>1 DEF TypeOK, HandedInOrder
    <2>3. CountInv'
      BY <1>1, <1>4, <1>7, <1>8 DEF CountInv, Looping
    <2> QED
      BY <1>5, <2>2, <2>3 DEF IInv
  <1>9. CASE /\ worker # "gone" /\ Len(queue) < Capacity
             /\ queue' = Append(queue, s) /\ accepted' = Append(accepted, s) /\ UNCHANGED dropped
    <2>1. /\ queue' \in Seq(Spans) /\ Len(queue') = Len(queue) + 1 /\ Len(queue) \in Nat
          /\ accepted' \in Seq(Spans) /\ Len(accepted') = Len(accepted) + 1 /\ Len(accepted) \in Nat
      BY <1>0, <1>9, AppendProperties, LenProperties DEF TypeOK
    <2>2. TypeOK'
      BY <1>0, <1>1, <1>6, <1>9, <2>1, TraceAssumption DEF TypeOK
    <2>3. HandedInOrder'
      <3>1. handed \o batch \in Seq(Spans)
        BY <1>0, ConcatProperties DEF TypeOK
      <3>2. (handed \o batch) \o Append(queue, s) = Append((handed \o batch) \o queue, s)
        BY <1>0, <3>1, AppendLast DEF TypeOK
      <3>3. (handed \o batch) \o queue = accepted
        BY <1>0, <1>9 DEF HandedInOrder
      <3> QED
        BY <1>1, <1>9, <3>2, <3>3 DEF HandedInOrder
    <2>4. CountInv'
      <3>1. Cardinality(Ended) = Len(accepted) + dropped
        BY <1>0, <1>9 DEF CountInv
      <3>2. dropped \in Nat
        BY <1>0 DEF TypeOK
      <3> QED
        BY <1>7, <1>9, <2>1, <3>1, <3>2 DEF CountInv
    <2> QED
      BY <1>5, <2>2, <2>3, <2>4 DEF IInv
  <1>10. CASE worker # "gone" /\ dropped' = dropped + 1 /\ UNCHANGED << queue, accepted >>
    <2>1. TypeOK' /\ HandedInOrder'
      BY <1>0, <1>1, <1>6, <1>10 DEF TypeOK, HandedInOrder
    <2>2. CountInv'
      <3>1. Cardinality(Ended) = Len(accepted) + dropped
        BY <1>0, <1>10 DEF CountInv
      <3>2. dropped \in Nat /\ Len(accepted) \in Nat
        BY <1>0, LenProperties DEF TypeOK
      <3> QED
        BY <1>7, <1>10, <3>1, <3>2 DEF CountInv
    <2> QED
      BY <1>5, <2>1, <2>2 DEF IInv
  <1> QED
    BY <1>8, <1>9, <1>10 DEF TrySend

\* What a step of the worker leaves alone.
LEMMA WorkerFrame ==
  ASSUME IInv, UNCHANGED << span, owner, recorder, dropped, accepted >>,
         worker' # "gone", worker # "gone",
         queue' \in Seq(Spans) /\ Len(queue') <= Capacity,
         batch' \in Seq(Spans) /\ Len(batch') <= BatchSize,
         handed' \in Seq(Spans), idled' \in BOOLEAN,
         worker' \in Looping \cup Leaving, BatchInv', CalmInv', HandedInOrder'
  PROVE  IInv'
  <1>1. TypeOK'
    BY DEF IInv, TypeOK
  <1>2. SealInv'
    BY DEF IInv, SealInv, SenderGone
  <1>3. CountInv'
    BY DEF IInv, CountInv, Ended
  <1> QED
    BY <1>1, <1>2, <1>3 DEF IInv

\* The worker moves the head of the queue to its batch.
LEMMA MoveKeeps ==
  ASSUME IInv, UNCHANGED << span, owner, recorder, dropped, accepted, handed, idled >>,
         queue # << >>, batch' = Append(batch, Head(queue)), queue' = Tail(queue),
         Len(batch) < BatchSize, worker \in {"wait", "collect", "drain"},
         \/ worker \in Looping /\ worker' = "collect"
         \/ worker = "drain"
            /\ worker' = IF Len(batch') >= BatchSize THEN "drain_export" ELSE "drain"
  PROVE  IInv'
  <1>0. TypeOK /\ BatchInv /\ HandedInOrder /\ CalmInv
    BY DEF IInv
  <1>1. queue \in Seq(Spans) /\ batch \in Seq(Spans) /\ handed \in Seq(Spans)
    BY <1>0 DEF TypeOK
  <1> idled \in BOOLEAN
    BY <1>0 DEF TypeOK
  <1>2. /\ Head(queue) \in Spans /\ Tail(queue) \in Seq(Spans)
        /\ Len(queue) \in Nat \ {0} /\ Len(Tail(queue)) = Len(queue) - 1
    BY <1>1, HeadFirst
  <1>3. queue' \in Seq(Spans) /\ Len(queue') <= Capacity
    BY <1>0, <1>2, TraceAssumption DEF TypeOK
  <1>4. batch' \in Seq(Spans) /\ Len(batch') = Len(batch) + 1 /\ Len(batch) \in Nat
    BY <1>1, <1>2, AppendProperties, LenProperties
  <1>5. Len(batch') <= BatchSize
    BY <1>4, TraceAssumption
  <1>6. worker' \in {"collect", "drain", "drain_export"} /\ worker' \in Looping \cup Leaving
    BY DEF Looping, Leaving
  <1>7. BatchInv'
    <2>1. ~(Len(batch') >= BatchSize) <=> Len(batch') < BatchSize
      BY <1>4, TraceAssumption
    <2> DEFINE full == Len(batch') >= BatchSize
    <2>2. worker' = "drain" => ~full
      <3> HIDE DEF full
      <3>1. worker' = "collect" \/ worker' = IF full THEN "drain_export" ELSE "drain"
        BY DEF full
      <3> QED
        BY <3>1
    <2>3. worker' = "drain" => Len(batch') < BatchSize
      BY <2>1, <2>2
    <2> QED
      BY <1>6, <2>3 DEF BatchInv
  <1>8. CalmInv'
    BY <1>0 DEF CalmInv, Looping, SenderGone
  <1>9. HandedInOrder'
    <2>1. SameOrder(handed, batch, queue, batch', queue')
      BY <1>1, MoveHead
    <2> QED
      BY <1>0, <2>1 DEF HandedInOrder, SameOrder
  <1> QED
    BY <1>1, <1>3, <1>4, <1>5, <1>6, <1>7, <1>8, <1>9, WorkerFrame

\* The worker hands its batch on.
LEMMA ExportKeeps ==
  ASSUME IInv, Export \/ DrainExport \/ ExportRest
  PROVE  IInv'
  <1>0. TypeOK /\ BatchInv /\ HandedInOrder /\ CalmInv
    BY DEF IInv
  <1>1. /\ handed' = handed \o batch /\ batch' = << >>
        /\ worker # "gone"
        /\ \/ worker' = "wait"
           \/ worker \notin Looping /\ worker' \in {"drain", "leaving"}
        /\ UNCHANGED << span, owner, recorder, queueVars, idled >>
    BY DEF Export, DrainExport, ExportRest, Looping
  <1>2. UNCHANGED << queue, dropped, accepted >>
    BY <1>1 DEF queueVars
  <1>3. batch' \in Seq(Spans) /\ Len(batch') = 0 /\ BatchSize \in Nat \ {0}
    BY <1>1, EmptySeq, TraceAssumption
  <1>4. handed' \in Seq(Spans)
    BY <1>0, <1>1, ConcatProperties DEF TypeOK
  <1>5. BatchInv'
    BY <1>1, <1>3 DEF BatchInv
  <1>6. CalmInv'
    BY <1>0, <1>1, <1>2 DEF CalmInv, Looping, SenderGone
  <1>7. HandedInOrder'
    <2>1. (handed \o batch) \o << >> = handed \o batch
      BY <1>1, <1>4, ConcatEmptySeq
    <2> QED
      BY <1>0, <1>1, <1>2, <2>1 DEF HandedInOrder
  <1>8. worker' \in Looping \cup Leaving /\ worker' # "gone"
    BY <1>1 DEF Looping, Leaving
  <1>9. queue' \in Seq(Spans) /\ Len(queue') <= Capacity /\ idled' \in BOOLEAN
    BY <1>0, <1>1, <1>2 DEF TypeOK
  <1>10. Len(batch') <= BatchSize
    BY <1>3
  <1> QED
    BY <1>1, <1>2, <1>3, <1>4, <1>5, <1>6, <1>7, <1>8, <1>9, <1>10, WorkerFrame

\* The worker goes to another place of its loops and moves no record.
LEMMA TurnKeeps ==
  ASSUME IInv, UNCHANGED << span, owner, recorder, queue, dropped, accepted, batch, handed >>,
         \/ Idle \/ Disconnected
         \/ worker = "collect" /\ worker' = "export" /\ UNCHANGED idled
         \/ worker = "drain" /\ worker' = "last" /\ UNCHANGED idled
  PROVE  IInv'
  <1>0. TypeOK /\ BatchInv /\ HandedInOrder /\ CalmInv
    BY DEF IInv
  <1>1. worker # "gone" /\ worker' # "gone" /\ worker' \in Looping \cup Leaving
    BY DEF Idle, Disconnected, Looping, Leaving
  <1>2. idled' \in BOOLEAN
    BY <1>0 DEF TypeOK, Idle, Disconnected
  <1>3. BatchInv'
    <2>1. << >> = batch => Len(batch) = 0
      BY EmptySeq
    <2> QED
      BY <1>0, <2>1, TraceAssumption DEF BatchInv, Idle, Disconnected
  <1>4. CalmInv'
    BY <1>0 DEF CalmInv, Idle, Disconnected, Looping, SenderGone
  <1>5. HandedInOrder'
    BY <1>0, <1>1 DEF HandedInOrder
  <1>6. /\ queue' \in Seq(Spans) /\ Len(queue') <= Capacity
        /\ batch' \in Seq(Spans) /\ Len(batch') <= BatchSize
        /\ handed' \in Seq(Spans)
    BY <1>0 DEF TypeOK
  <1> QED
    BY <1>1, <1>2, <1>3, <1>4, <1>5, <1>6, WorkerFrame

LEMMA DropKeeps ==
  ASSUME IInv, DropReceiver
  PROVE  IInv'
  <1>0. TypeOK /\ BatchInv /\ SealInv /\ HandedInOrder /\ CalmInv /\ CountInv
    BY DEF IInv
  <1>1. /\ worker = "leaving" /\ worker' = "gone" /\ queue' = << >>
        /\ UNCHANGED << span, owner, recorder, dropped, accepted, batch, handed, idled >>
    BY DEF DropReceiver
  <1>2. << >> \in Seq(Spans) /\ Len(<< >>) = 0 /\ Capacity \in Nat
    BY EmptySeq, TraceAssumption
  <1>3. TypeOK'
    BY <1>0, <1>1, <1>2 DEF TypeOK
  <1>4. BatchInv' /\ SealInv' /\ HandedInOrder'
    BY <1>0, <1>1 DEF BatchInv, SealInv, HandedInOrder, SenderGone
  <1>5. CalmInv'
    <2> SUFFICES ASSUME ~idled' PROVE SenderGone' /\ queue' = << >> /\ handed' = accepted'
      BY DEF CalmInv
    <2>1. SenderGone /\ queue = << >> /\ batch = << >>
      BY <1>0, <1>1 DEF CalmInv, BatchInv, Looping
    <2>2. (handed \o << >>) \o << >> = handed
      BY <1>0, ConcatEmptySeq DEF TypeOK
    <2>3. handed = accepted
      BY <1>0, <1>1, <2>1, <2>2 DEF HandedInOrder
    <2> QED
      BY <1>1, <2>1, <2>3 DEF SenderGone
  <1>6. CountInv'
    BY <1>0, <1>1 DEF CountInv, Ended
  <1> QED
    BY <1>3, <1>4, <1>5, <1>6 DEF IInv

LEMMA WorkKeeps ==
  ASSUME IInv, Work
  PROVE  IInv'
  <1>0. TypeOK /\ BatchInv
    BY DEF IInv
  <1>1. CASE Receive
    <2>1. batch = << >> /\ Len(batch) = 0
      BY <1>0, <1>1, EmptySeq DEF BatchInv, Receive
    <2>2. Append(batch, Head(queue)) = << Head(queue) >>
      BY <2>1
    <2> QED
      BY <1>1, <2>1, <2>2, MoveKeeps, TraceAssumption DEF Receive, Looping
  <1>2. CASE Collect
    BY <1>2, MoveKeeps, TurnKeeps DEF Collect, Looping
  <1>3. CASE Drain
    BY <1>0, <1>3, MoveKeeps, TurnKeeps DEF Drain, BatchInv
  <1>4. CASE Idle \/ Disconnected
    BY <1>4, TurnKeeps DEF Idle, Disconnected, queueVars
  <1>5. CASE Export \/ DrainExport \/ ExportRest
    BY <1>5, ExportKeeps
  <1>6. CASE DropReceiver
    BY <1>6, DropKeeps
  <1> QED
    BY <1>1, <1>2, <1>3, <1>4, <1>5, <1>6 DEF Work

LEMMA TraceStep == IInv /\ [Next]_vars => IInv'
  <1> SUFFICES ASSUME IInv, [Next]_vars PROVE IInv'
    OBVIOUS
  <1>1. ASSUME NEW s \in Spans, StartSpan(s) \/ TakeActive(s) PROVE IInv'
    BY <1>1, StartKeeps
  <1>2. ASSUME NEW s \in Spans, TrySend(s) PROVE IInv'
    BY <1>2, TrySendKeeps
  <1>3. CASE ReleaseRecorder \/ CloseRecorder \/ JoinWorker
    BY <1>3, RecorderKeeps
  <1>4. CASE Work
    BY <1>4, WorkKeeps
  <1>5. CASE UNCHANGED vars
    <2>1. UNCHANGED << queueVars, workerVars, span, owner, recorder >>
      BY <1>5 DEF vars, queueVars, workerVars
    <2>2. Ended' = Ended /\ (SenderGone => SenderGone')
      BY <2>1 DEF Ended, SenderGone
    <2>3. SealInv'
      BY <2>1 DEF IInv, SealInv, SenderGone, workerVars
    <2> QED
      BY <2>1, <2>2, <2>3, RunKeeps DEF IInv, TypeOK
  <1> QED
    BY <1>1, <1>2, <1>3, <1>4, <1>5 DEF Next

LEMMA TraceInvariant == Spec => []IInv
  BY InitialTrace, TraceStep, PTL DEF Spec

-----------------------------------------------------------------------------
\* Every reachable state of recorder, queue and worker is well typed; the queue and
\* the batches keep to their sizes.
THEOREM TraceTypeCorrect == Spec => []TypeOK
  <1>1. IInv => TypeOK
    BY DEF IInv
  <1> QED
    BY <1>1, TraceInvariant, PTL

\* Every record the queue takes is handed on once and in its order, as long as the
\* worker is there (export_worker).
THEOREM RecordsKeepTheirOrder == Spec => []HandedInOrder
  <1>1. IInv => HandedInOrder
    BY DEF IInv
  <1> QED
    BY <1>1, TraceInvariant, PTL

\* Behind the drop of the recorder nothing is missing, unless the worker had idled
\* (TraceRecorder::drop, export_worker).
THEOREM BusyWorkerIsComplete == Spec => []BusyWorkerLosesNothing
  <1>1. IInv => BusyWorkerLosesNothing
    BY DEF IInv, SealInv, CalmInv, CountInv, BusyWorkerLosesNothing, Looping
  <1> QED
    BY <1>1, TraceInvariant, PTL

-----------------------------------------------------------------------------
(***************************************************************************)
(* Recorder, queue and worker are one channel: TraceExport implements      *)
(* ExportChannel.                                                          *)
(***************************************************************************)
\* A sequence in front of another is cut off it again.
LEMMA CutFront ==
  ASSUME NEW S, NEW b \in Seq(S), NEW q \in Seq(S)
  PROVE  /\ Len(b) \in Nat /\ Len(b) <= Len(b \o q)
         /\ SubSeq(b \o q, 1, Len(b)) = b
         /\ SubSeq(b \o q, Len(b) + 1, Len(b \o q)) = q
  <1> DEFINE c == b \o q
             m == Len(b)
             n == Len(q)
  <1>1. /\ c \in Seq(S) /\ m \in Nat /\ n \in Nat /\ Len(c) = m + n
        /\ \A i \in 1 .. m : c[i] = b[i]
        /\ \A i \in 1 .. n : c[m + i] = q[i]
    BY ConcatProperties, LenProperties
  <1>2. \A i \in 1 .. m : c[i] \in S
    BY <1>1, ElementOfSeq
  <1>3. \A i \in m + 1 .. m + n : c[i] \in S
    BY <1>1, ElementOfSeq
  <1> HIDE DEF c
  <1>4. SubSeq(c, 1, m) = b
    <2>1. /\ SubSeq(c, 1, m) \in Seq(S) /\ Len(SubSeq(c, 1, m)) = m
          /\ \A i \in 1 .. m : SubSeq(c, 1, m)[i] = c[i]
      BY <1>1, <1>2, SubSeqProperties
    <2> QED
      BY <1>1, <2>1, SeqEqual
  <1>5. SubSeq(c, m + 1, Len(c)) = q
    <2>1. /\ SubSeq(c, m + 1, m + n) \in Seq(S) /\ Len(SubSeq(c, m + 1, m + n)) = n
          /\ \A i \in 1 .. n : SubSeq(c, m + 1, m + n)[i] = c[m + i]
      BY <1>1, <1>3, SubSeqProperties
    <2>2. SubSeq(c, m + 1, m + n) = q
      BY <1>1, <2>1, SeqEqual
    <2> QED
      BY <1>1, <2>2
  <1> QED
    BY <1>1, <1>4, <1>5 DEF c

\* What the worker holds, and what is still in the queue.
Pending == batch \o queue

LEMMA PendingTyped ==
  ASSUME IInv
  PROVE  /\ batch \in Seq(Spans) /\ queue \in Seq(Spans) /\ Pending \in Seq(Spans)
         /\ Len(batch) \in Nat /\ Len(queue) \in Nat /\ Len(Pending) = Len(batch) + Len(queue)
         /\ Len(batch) <= BatchSize /\ Len(queue) <= Capacity
  BY ConcatProperties, LenProperties DEF IInv, TypeOK, Pending

\* A record changes from the queue to the batch.
LEMMA MoveIsSilent ==
  ASSUME IInv, queue # << >>, batch' = Append(batch, Head(queue)), queue' = Tail(queue)
  PROVE  Pending' = Pending
  <1>1. /\ batch \in Seq(Spans) /\ queue \in Seq(Spans)
    BY PendingTyped
  <1>2. /\ Head(queue) \in Spans /\ Tail(queue) \in Seq(Spans) /\ << Head(queue) >> \in Seq(Spans)
        /\ queue = << Head(queue) >> \o Tail(queue)
    BY <1>1, HeadFirst
  <1>3. Append(batch, Head(queue)) = batch \o << Head(queue) >>
    BY <1>1, <1>2, AppendIsConcat
  <1>4. (batch \o << Head(queue) >>) \o Tail(queue) = batch \o (<< Head(queue) >> \o Tail(queue))
    BY <1>1, <1>2, ConcatAssociative
  <1> QED
    BY <1>2, <1>3, <1>4, Zenon DEF Pending

LEMMA SendOffers ==
  ASSUME IInv, NEW s \in Spans, TrySend(s)
  PROVE  Channel!Take(s) \/ Channel!TurnDown(s) \/ Channel!LetGo(s)
  <1>0. TypeOK /\ SealInv /\ CalmInv
    BY DEF IInv
  <1>1. UNCHANGED << worker, batch, handed, idled >>
    BY DEF TrySend, workerVars
  <1>2. span[s] = "ending" /\ span' = [span EXCEPT ![s] = "ended"]
    BY DEF TrySend
  <1>3. Channel!Offer(s)
    BY <1>0, <1>2 DEF TypeOK, Ended, Channel!Offer
  <1>4. worker = "gone" => idled
    BY <1>0, <1>2 DEF SealInv, CalmInv, Looping
  <1>5. /\ batch \in Seq(Spans) /\ queue \in Seq(Spans)
        /\ Len(batch) \in Nat /\ Len(queue) \in Nat /\ Len(batch \o queue) = Len(batch) + Len(queue)
        /\ Len(batch) <= BatchSize /\ Capacity \in Nat /\ BatchSize \in Nat
    BY PendingTyped, TraceAssumption DEF Pending
  <1>6. CASE worker = "gone" /\ UNCHANGED queueVars
    <2>1. UNCHANGED << queue, dropped >>
      BY <1>6 DEF queueVars
    <2> QED
      BY <1>1, <1>3, <1>4, <1>6, <2>1 DEF Channel!LetGo
  <1>7. CASE /\ worker # "gone" /\ Len(queue) < Capacity
             /\ queue' = Append(queue, s) /\ UNCHANGED dropped
    <2>1. batch' \o queue' = Append(batch \o queue, s)
      BY <1>1, <1>5, <1>7, AppendLast
    <2>2. Len(batch \o queue) < Capacity + BatchSize
      BY <1>5, <1>7
    <2> QED
      BY <1>1, <1>3, <1>7, <2>1, <2>2 DEF Channel!Take
  <1>8. CASE /\ worker # "gone" /\ ~(Len(queue) < Capacity) /\ dropped' = dropped + 1
             /\ UNCHANGED queue
    <2>1. Len(batch \o queue) >= Capacity
      BY <1>5, <1>8
    <2> QED
      BY <1>1, <1>3, <1>8, <2>1 DEF Channel!TurnDown
  <1> QED
    BY <1>6, <1>7, <1>8 DEF TrySend

LEMMA HandingOnExports ==
  ASSUME IInv, Export \/ DrainExport \/ ExportRest
  PROVE  (\E n \in 1 .. BatchSize : Channel!Export(n)) \/ UNCHANGED Channel!vars
  <1>1. /\ handed' = handed \o batch /\ batch' = << >>
        /\ worker # "gone" /\ worker' # "gone"
        /\ UNCHANGED << span, queue, dropped, idled >>
    BY DEF Export, DrainExport, ExportRest, queueVars
  <1>2. /\ batch \in Seq(Spans) /\ queue \in Seq(Spans) /\ Len(batch) \in Nat
        /\ Len(batch) <= BatchSize /\ BatchSize \in Nat /\ handed \in Seq(Spans)
    BY PendingTyped, TraceAssumption DEF IInv, TypeOK
  <1>3. batch' \o queue' = queue /\ Ended' = Ended
    BY <1>1, <1>2, ConcatEmptySeq DEF Ended
  <1>4. CASE batch = << >>
    <2>1. handed' = handed
      BY <1>1, <1>2, <1>4, ConcatEmptySeq
    <2>2. batch' \o queue' = batch \o queue
      BY <1>1, <1>4
    <2> QED
      BY <1>1, <1>3, <2>1, <2>2 DEF Channel!vars
  <1>5. CASE batch # << >>
    <2> DEFINE n == Len(batch)
    <2>1. n \in 1 .. BatchSize
      BY <1>2, <1>5, EmptySeq
    <2>2. /\ n <= Len(batch \o queue) /\ SubSeq(batch \o queue, 1, n) = batch
          /\ SubSeq(batch \o queue, n + 1, Len(batch \o queue)) = queue
      BY <1>2, CutFront
    <2>3. Channel!Export(n)
      BY <1>1, <1>3, <2>2 DEF Channel!Export
    <2> QED
      BY <2>1, <2>3
  <1> QED
    BY <1>4, <1>5

LEMMA WorkIsOfTheChannel ==
  ASSUME IInv, Work
  PROVE  \/ \E n \in 1 .. BatchSize : Channel!Export(n)
         \/ Channel!Rest \/ Channel!End \/ UNCHANGED Channel!vars
  <1>0. TypeOK /\ BatchInv /\ CalmInv
    BY DEF IInv
  <1>1. ASSUME batch' = Append(batch, Head(queue)), queue' = Tail(queue), queue # << >>,
               UNCHANGED << span, handed, dropped, idled >>, worker # "gone", worker' # "gone"
        PROVE  UNCHANGED Channel!vars
    BY <1>1, MoveIsSilent DEF Channel!vars, Pending, Ended
  <1>2. CASE Receive
    <2>1. Append(batch, Head(queue)) = << Head(queue) >>
      BY <1>0, <1>2 DEF BatchInv, Receive
    <2> QED
      BY <1>1, <1>2, <2>1 DEF Receive
  <1>3. CASE Collect \/ Drain
    <2>1. CASE UNCHANGED << batch, queue >>
      BY <1>3, <2>1 DEF Collect, Drain, Channel!vars, Ended
    <2>2. CASE ~UNCHANGED << batch, queue >>
      BY <1>1, <1>3, <2>2 DEF Collect, Drain
    <2> QED
      BY <2>1, <2>2
  <1>4. CASE Idle
    <2>1. /\ batch = << >> /\ queue = << >> /\ worker # "gone" /\ worker' # "gone" /\ idled' = TRUE
          /\ UNCHANGED << span, dropped, queue, batch, handed >>
      BY <1>0, <1>4 DEF BatchInv, Idle, queueVars
    <2>2. batch \o queue = << >>
      BY <2>1
    <2> QED
      BY <2>1, <2>2 DEF Channel!Rest, Ended
  <1>5. CASE Disconnected
    BY <1>5 DEF Disconnected, queueVars, Channel!vars, Ended
  <1>6. CASE Export \/ DrainExport \/ ExportRest
    BY <1>6, HandingOnExports
  <1>7. CASE DropReceiver
    <2>1. /\ worker # "gone" /\ worker' = "gone" /\ queue' = << >> /\ batch = << >> /\ batch' = << >>
          /\ UNCHANGED << span, dropped, handed, idled >>
      BY <1>0, <1>7 DEF DropReceiver, BatchInv
    <2>2. idled \/ queue = << >>
      BY <1>0, <1>7 DEF DropReceiver, CalmInv, Looping, TypeOK
    <2>3. batch' \o queue' = << >> /\ (idled \/ batch \o queue = << >>)
      BY <2>1, <2>2
    <2> QED
      BY <2>1, <2>3 DEF Channel!End, Ended
  <1> QED
    BY <1>2, <1>3, <1>4, <1>5, <1>6, <1>7 DEF Work

LEMMA StepOfTheChannel == IInv /\ [Next]_vars => [Channel!Next]_(Channel!vars)
  <1> SUFFICES ASSUME IInv, [Next]_vars
               PROVE  Channel!Next \/ UNCHANGED Channel!vars
    OBVIOUS
  <1>1. ASSUME NEW s \in Spans, StartSpan(s) \/ TakeActive(s) PROVE UNCHANGED Channel!vars
    <2>1. UNCHANGED << queue, dropped, worker, batch, handed, idled >>
      BY <1>1 DEF StartSpan, TakeActive, queueVars, workerVars
    <2>2. Ended' = Ended
      BY <1>1 DEF StartSpan, TakeActive, Ended, IInv, TypeOK
    <2> QED
      BY <2>1, <2>2 DEF Channel!vars
  <1>2. ASSUME NEW s \in Spans, TrySend(s) PROVE Channel!Next
    BY <1>2, SendOffers DEF Channel!Next
  <1>3. CASE ReleaseRecorder \/ CloseRecorder \/ JoinWorker \/ UNCHANGED vars
    <2>1. UNCHANGED << span, queue, dropped, worker, batch, handed, idled >>
      BY <1>3 DEF ReleaseRecorder, CloseRecorder, JoinWorker, queueVars, workerVars, vars
    <2> QED
      BY <2>1 DEF Channel!vars, Ended
  <1>4. CASE Work
    BY <1>4, WorkIsOfTheChannel DEF Channel!Next
  <1> QED
    BY <1>1, <1>2, <1>3, <1>4 DEF Next

\* TraceExport implements ExportChannel, with any spans, capacity and batch size.
THEOREM ImplementsChannel == Spec => ChannelSpec
  <1>1. Init => Channel!Init
    <2> SUFFICES ASSUME Init PROVE Channel!Init
      OBVIOUS
    <2>1. Ended = {} /\ batch \o queue = << >>
      BY DEF Init, Ended
    <2> QED
      BY <2>1 DEF Init, Channel!Init
  <1> QED
    BY <1>1, StepOfTheChannel, TraceInvariant, PTL DEF Spec, ChannelSpec, Channel!Spec
=============================================================================

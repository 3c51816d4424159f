---------------------------- MODULE GatewayProofs ----------------------------
(***************************************************************************)
(* Proofs about Gateway, for all messages, chats, pool sizes and bounds.   *)
(***************************************************************************)
EXTENDS Gateway, TLAPS

\* A message has started at most as many jobs as its entry has lapsed, and one
\* more while the entry is there; the jobs not yet started are untouched.
DedupInv ==
  \A m \in Messages :
    /\ accepted[m] <= IF m \in Swept THEN lapsed[m] + 1 ELSE lapsed[m]
    /\ \A k \in 1 .. MaxRuns[m] : k > accepted[m] => job[<< m, k >>] = "none"

\* A job at or behind the lock works on the one session of its chat, and the job
\* inside is the holder of that session's lock.
SessionInv ==
  /\ \A c \in Chats : session[c] # NoJob => Chat(session[c]) = c
  /\ \A j \in Jobs : job[j] \in {"lock", "running"} => mine[j] \in Jobs /\ mine[j] = session[Chat(j)]
  /\ \A j \in Jobs : job[j] = "running" => holder[mine[j]] = j

\* Poison comes from a panicked run of the same chat.
PoisonInv ==
  /\ \A s \in poisoned : \E k \in Jobs : job[k] = "panicked" /\ Chat(k) = Chat(s)
  /\ PanicStaysInItsChat

IInv == TypeOK /\ DedupInv /\ SessionInv /\ PoisonInv /\ OnlyVerifiedCallbacksAct

\* A job is a message and a number.
LEMMA JobParts ==
  /\ \A m \in Messages, k \in Nat : k \in 1 .. MaxRuns[m] => << m, k >> \in Jobs
  /\ \A j \in Jobs : j[1] \in Messages /\ Chat(j) \in Chats /\ j # NoJob
  /\ \A j \in Jobs : j[2] \in 1 .. MaxRuns[j[1]] /\ j = << j[1], j[2] >>
  BY GatewayAssumption DEF Jobs, Chat

\* The initial states satisfy the inductive invariant.
LEMMA Initially == Init => IInv
  BY GatewayAssumption, JobParts
  DEF Init, IInv, TypeOK, DedupInv, SessionInv, PoisonInv, PanicStaysInItsChat,
      OnlyVerifiedCallbacksAct, Swept, OnThread, Ended

\* Every step keeps the types (one case per action).
LEMMA TypeStep == IInv /\ [Next]_vars => TypeOK'
  <1> SUFFICES ASSUME IInv, [Next]_vars PROVE TypeOK'
    OBVIOUS
  <1> USE GatewayAssumption, JobParts DEF IInv, TypeOK, OnThread, Ended, Goto, runVars
  <1>1. ASSUME NEW b \in Callbacks, Answer(b) PROVE TypeOK'
    BY <1>1 DEF Answer, Callbacks
  <1>2. ASSUME NEW b \in Callbacks, NEW m \in Messages, Message(m, b) PROVE TypeOK'
    <2>1. << m, accepted[m] + 1 >> \in Jobs
      BY <1>2 DEF Message
    <2>2. job' \in [Jobs -> {"none", "queued"} \cup OnThread \cup Ended]
      BY <1>2, <2>1 DEF Message
    <2>3. accepted' \in [Messages -> Nat] /\ \A n \in Messages : accepted'[n] <= MaxRuns[n]
      BY <1>2 DEF Message
    <2> QED
      BY <1>2, <2>2, <2>3 DEF Message, Callbacks, Swept
  <1>3. ASSUME NEW b \in Callbacks, NEW m \in Messages, Duplicate(m, b) PROVE TypeOK'
    BY <1>3 DEF Duplicate, Swept
  <1>4. ASSUME NEW m \in Messages, Lapse(m) PROVE TypeOK'
    BY <1>4 DEF Lapse, Swept
  <1>5. ASSUME NEW j \in Jobs, Begin(j) PROVE TypeOK'
    BY <1>5 DEF Begin
  <1>6. ASSUME NEW j \in Jobs, Reply(j) PROVE TypeOK'
    BY <1>6 DEF Reply
  <1>7. ASSUME NEW j \in Jobs, Prepare(j) PROVE TypeOK'
    BY <1>7 DEF Prepare
  <1>8. ASSUME NEW j \in Jobs, Open(j) PROVE TypeOK'
    BY <1>8 DEF Open
  <1>9. ASSUME NEW j \in Jobs, Lock(j) PROVE TypeOK'
    <2>1. job' \in [Jobs -> {"none", "queued"} \cup OnThread \cup Ended]
      BY <1>9 DEF Lock
    <2>2. holder' \in [Jobs -> Jobs \cup {NoJob}]
      BY <1>9 DEF Lock
    <2>3. UNCHANGED << epoch, seen, stale, accepted, lapsed, session, mine, poisoned, acted >>
      BY <1>9 DEF Lock
    <2> QED
      BY <2>1, <2>2, <2>3
  <1>10. ASSUME NEW j \in Jobs, Finish(j) PROVE TypeOK'
    BY <1>10 DEF Finish
  <1>11. ASSUME NEW j \in Jobs, Panic(j) PROVE TypeOK'
    BY <1>11 DEF Panic, SessionInv
  <1>12. CASE Restart
    BY <1>12 DEF Restart, Fresh
  <1>13. CASE UNCHANGED vars
    BY <1>13 DEF vars
  <1> QED
    BY <1>1, <1>2, <1>3, <1>4, <1>5, <1>6, <1>7, <1>8, <1>9, <1>10, <1>11, <1>12, <1>13
    DEF Next, Advance

\* Every step keeps the count of the jobs in step with the deduper.
LEMMA DedupStep == IInv /\ [Next]_vars => DedupInv'
  <1> SUFFICES ASSUME IInv, [Next]_vars PROVE DedupInv'
    OBVIOUS
  <1> USE GatewayAssumption, JobParts DEF IInv, TypeOK, DedupInv, Goto, runVars
  <1>1. ASSUME NEW b \in Callbacks, Answer(b) PROVE DedupInv'
    BY <1>1 DEF Answer, Swept
  <1>2. ASSUME NEW b \in Callbacks, NEW m \in Messages, Message(m, b) PROVE DedupInv'
    <2>1. Swept' = Swept \cup {m} /\ m \notin Swept
      BY <1>2 DEF Message, Swept
    <2>2. \A n \in Messages : accepted'[n] = IF n = m THEN accepted[n] + 1 ELSE accepted[n]
      BY <1>2 DEF Message
    <2>3. \A n \in Messages : accepted'[n] <= IF n \in Swept' THEN lapsed'[n] + 1 ELSE lapsed'[n]
      BY <1>2, <2>1, <2>2 DEF Message
    <2>4. \A n \in Messages : \A k \in 1 .. MaxRuns[n] :
            k > accepted'[n] => job'[<< n, k >>] = "none"
      BY <1>2, <2>2 DEF Message
    <2> QED
      BY <2>3, <2>4
  <1>3. ASSUME NEW b \in Callbacks, NEW m \in Messages, Duplicate(m, b) PROVE DedupInv'
    <2>1. Swept' = Swept
      BY <1>3 DEF Duplicate, Swept
    <2> QED
      BY <1>3, <2>1 DEF Duplicate
  <1>4. ASSUME NEW m \in Messages, Lapse(m) PROVE DedupInv'
    <2>1. Swept' = Swept \ {m}
      BY <1>4 DEF Lapse, Swept
    <2>2. \A n \in Messages : lapsed'[n] = IF n = m THEN lapsed[n] + 1 ELSE lapsed[n]
      BY <1>4 DEF Lapse
    <2> QED
      BY <1>4, <2>1, <2>2 DEF Lapse
  <1>5. ASSUME NEW j \in Jobs, job[j] # "none", NEW at, job' = [job EXCEPT ![j] = at],
               UNCHANGED << seen, stale, accepted, lapsed >>
        PROVE  DedupInv'
    <2>1. ~(j[2] > accepted[j[1]])
      BY <1>5
    <2>2. \A n \in Messages : \A k \in 1 .. MaxRuns[n] :
            k > accepted[n] => << n, k >> # j /\ << n, k >> \in Jobs
      BY <2>1
    <2> QED
      BY <1>5, <2>2 DEF Swept
  <1>6. ASSUME NEW j \in Jobs, Begin(j) \/ Advance(j) PROVE DedupInv'
    BY <1>5, <1>6
    DEF Begin, Advance, Reply, Prepare, Open, Lock, Finish, Panic
  <1>7. CASE Restart
    BY <1>7 DEF Restart, Fresh, Swept
  <1>8. CASE UNCHANGED vars
    BY <1>8 DEF vars, Swept
  <1> QED
    BY <1>1, <1>2, <1>3, <1>4, <1>6, <1>7, <1>8 DEF Next

\* A new job has not been anywhere before.
LEMMA NewJob ==
  ASSUME IInv, NEW b \in Callbacks, NEW m \in Messages, Message(m, b)
  PROVE  /\ << m, accepted[m] + 1 >> \in Jobs
         /\ job[<< m, accepted[m] + 1 >>] = "none"
         /\ job' = [job EXCEPT ![<< m, accepted[m] + 1 >>] = "queued"]
         /\ UNCHANGED << session, mine, holder, poisoned >>
  <1>0. accepted[m] \in Nat /\ MaxRuns[m] \in Nat /\ accepted[m] < MaxRuns[m]
    BY GatewayAssumption DEF Message, IInv, TypeOK
  <1>1. accepted[m] + 1 \in 1 .. MaxRuns[m] /\ accepted[m] + 1 > accepted[m]
    BY <1>0
  <1>2. job[<< m, accepted[m] + 1 >>] = "none"
    BY <1>1 DEF IInv, DedupInv
  <1> QED
    BY <1>1, <1>2, JobParts DEF Message, Goto

\* What the steps outside the pool leave as it is.
LEMMA Outside ==
  ASSUME \/ \E b \in Callbacks : Answer(b) \/ \E m \in Messages : Duplicate(m, b)
         \/ \E m \in Messages : Lapse(m)
  PROVE  UNCHANGED << job, session, mine, holder, poisoned >>
  BY DEF Answer, Duplicate, Lapse

\* Every step keeps each session with its chat and each run with its lock.
LEMMA SessionStep == IInv /\ [Next]_vars => SessionInv'
  <1> SUFFICES ASSUME IInv, [Next]_vars PROVE SessionInv'
    OBVIOUS
  <1>0. ASSUME NEW b \in Callbacks, NEW m \in Messages, Message(m, b)
        PROVE  /\ << m, accepted[m] + 1 >> \in Jobs
               /\ job' = [job EXCEPT ![<< m, accepted[m] + 1 >>] = "queued"]
               /\ UNCHANGED << session, mine, holder >>
    BY <1>0, NewJob
  <1> USE GatewayAssumption, JobParts DEF IInv, TypeOK, SessionInv, Goto, runVars, Chat
  <1>2. ASSUME UNCHANGED << job, session, mine, holder >> PROVE SessionInv'
    BY <1>2
  <1>3. ASSUME NEW j \in Jobs, NEW at, at \notin {"lock", "running"},
               job' = [job EXCEPT ![j] = at], UNCHANGED << session, mine, holder >>
        PROVE  SessionInv'
    BY <1>3
  <1>1. ASSUME NEW b \in Callbacks, NEW m \in Messages, Message(m, b) PROVE SessionInv'
    <2>1. PICK j \in Jobs : /\ job' = [job EXCEPT ![j] = "queued"]
                            /\ UNCHANGED << session, mine, holder >>
      BY ONLY <1>0, <1>1
    <2> QED
      BY <2>1, <1>3
  <1>4. ASSUME NEW j \in Jobs, Begin(j) \/ Reply(j) \/ Prepare(j) PROVE SessionInv'
    BY <1>3, <1>4 DEF Begin, Reply, Prepare
  <1>5. ASSUME NEW j \in Jobs, Open(j) PROVE SessionInv'
    <2>1. \A c \in Chats : session'[c] # NoJob => Chat(session'[c]) = c
      BY <1>5 DEF Open
    <2>2. \A k \in Jobs : job'[k] \in {"lock", "running"} =>
            mine'[k] \in Jobs /\ mine'[k] = session'[Chat(k)]
      BY <1>5 DEF Open
    <2>3. \A k \in Jobs : job'[k] = "running" => holder'[mine'[k]] = k
      BY <1>5 DEF Open
    <2> QED
      BY <2>1, <2>2, <2>3
  <1>6. ASSUME NEW j \in Jobs, Lock(j) PROVE SessionInv'
    <2>1. CASE mine[j] \in poisoned
      BY <1>6, <2>1, <1>3 DEF Lock
    <2>2. CASE mine[j] \notin poisoned
      <3>1. \A k \in Jobs : job'[k] = "running" => holder'[mine'[k]] = k
        BY <1>6, <2>2 DEF Lock
      <3> QED
        BY <1>6, <2>2, <3>1 DEF Lock
    <2> QED
      BY <2>1, <2>2
  <1>7. ASSUME NEW j \in Jobs, Finish(j) \/ Panic(j) PROVE SessionInv'
    <2>1. \A k \in Jobs : job[k] = "running" /\ mine[k] = mine[j] => k = j
      BY <1>7 DEF Finish, Panic
    <2>2. \A k \in Jobs : job'[k] = "running" => holder'[mine'[k]] = k
      BY <1>7, <2>1 DEF Finish, Panic
    <2>3. \A k \in Jobs : job'[k] \in {"lock", "running"} => job'[k] = job[k]
      BY <1>7 DEF Finish, Panic
    <2> QED
      BY <1>7, <2>2, <2>3 DEF Finish, Panic
  <1>8. CASE Restart
    BY <1>8 DEF Restart, Fresh
  <1> QED
    BY <1>1, <1>2, <1>4, <1>5, <1>6, <1>7, <1>8, Outside DEF Next, Advance, vars

\* Every step keeps the poison with a panicked run of the chat.
LEMMA PoisonStep == IInv /\ [Next]_vars => PoisonInv'
  <1> SUFFICES ASSUME IInv, [Next]_vars PROVE PoisonInv'
    OBVIOUS
  <1> USE GatewayAssumption, JobParts
      DEF IInv, TypeOK, PoisonInv, PanicStaysInItsChat, Goto, runVars, Chat
  <1>1. ASSUME NEW j \in Jobs, NEW at, at # "refused", job[j] \notin Ended,
               job' = [job EXCEPT ![j] = at], UNCHANGED poisoned
        PROVE  PoisonInv'
    <2>1. \A k \in Jobs : job[k] = "panicked" => job'[k] = "panicked"
      BY <1>1 DEF Ended
    <2>2. \A k \in Jobs : job'[k] = "refused" => job[k] = "refused"
      BY <1>1
    <2> QED
      BY <1>1, <2>1, <2>2
  <1>2. ASSUME NEW b \in Callbacks, NEW m \in Messages, Message(m, b) PROVE PoisonInv'
    <2>1. << m, accepted[m] + 1 >> \in Jobs /\ job[<< m, accepted[m] + 1 >>] = "none"
      BY <1>2, NewJob
    <2>2. job' = [job EXCEPT ![<< m, accepted[m] + 1 >>] = "queued"] /\ UNCHANGED poisoned
      BY <1>2 DEF Message
    <2> QED
      BY <1>1, <2>1, <2>2 DEF Ended
  <1>3. ASSUME UNCHANGED << job, poisoned >> PROVE PoisonInv'
    BY <1>3
  <1>4. ASSUME NEW j \in Jobs, Begin(j) \/ Reply(j) \/ Prepare(j) \/ Open(j) \/ Finish(j)
        PROVE  PoisonInv'
    <2>1. CASE Begin(j)
      BY <1>1, <2>1 DEF Begin, Ended
    <2>2. CASE Reply(j)
      BY <1>1, <2>2 DEF Reply, Ended
    <2>3. CASE Prepare(j)
      BY <1>1, <2>3 DEF Prepare, Ended
    <2>4. CASE Open(j)
      BY <1>1, <2>4 DEF Open, Ended
    <2>5. CASE Finish(j)
      BY <1>1, <2>5 DEF Finish, Ended
    <2> QED
      BY <1>4, <2>1, <2>2, <2>3, <2>4, <2>5
  <1>5. ASSUME NEW j \in Jobs, Lock(j) PROVE PoisonInv'
    <2>1. CASE mine[j] \notin poisoned
      BY <1>1, <1>5, <2>1 DEF Lock, Ended
    <2>2. CASE mine[j] \in poisoned
      <3>1. mine[j] \in Jobs /\ Chat(mine[j]) = Chat(j)
        BY <1>5 DEF Lock, SessionInv
      <3>2. PICK k \in Jobs : job[k] = "panicked" /\ Chat(k) = Chat(j)
        BY <2>2, <3>1
      <3>3. \A i \in Jobs : job[i] = "panicked" => job'[i] = "panicked"
        BY <1>5, <2>2 DEF Lock
      <3>4. \A i \in Jobs : job'[i] = "refused" => i = j \/ job[i] = "refused"
        BY <1>5, <2>2 DEF Lock
      <3> QED
        BY <1>5, <3>2, <3>3, <3>4 DEF Lock
    <2> QED
      BY <2>1, <2>2
  <1>6. ASSUME NEW j \in Jobs, Panic(j) PROVE PoisonInv'
    <2>1. mine[j] \in Jobs /\ Chat(mine[j]) = Chat(j)
      BY <1>6 DEF Panic, SessionInv
    <2>2. \A k \in Jobs : job[k] = "panicked" \/ k = j => job'[k] = "panicked"
      BY <1>6 DEF Panic
    <2>3. \A k \in Jobs : job'[k] = "refused" => job[k] = "refused"
      BY <1>6 DEF Panic
    <2> QED
      BY <1>6, <2>1, <2>2, <2>3 DEF Panic
  <1>7. CASE Restart
    BY <1>7 DEF Restart, Fresh
  <1> QED
    BY <1>2, <1>3, <1>4, <1>5, <1>6, <1>7, Outside DEF Next, Advance, vars

\* Only what parse_callback lets through has an effect.
LEMMA VerifiedStep == IInv /\ [Next]_vars => OnlyVerifiedCallbacksAct'
  <1> SUFFICES ASSUME IInv, [Next]_vars, Verifies PROVE acted' \subseteq {"right"}
    BY DEF OnlyVerifiedCallbacksAct
  <1>0. acted \subseteq {"right"}
    BY DEF IInv, OnlyVerifiedCallbacksAct
  <1>1. ASSUME NEW b \in Callbacks, Parse(b) \in {"card", "message"} PROVE b.token = "right"
    BY <1>1 DEF Parse, Callbacks, Tokens
  <1>2. ASSUME NEW b \in Callbacks, NEW m \in Messages, Message(m, b)
        PROVE  acted' \subseteq {"right"}
    BY <1>0, <1>1, <1>2 DEF Message
  <1>3. ASSUME NEW b \in Callbacks, Answer(b) PROVE acted' \subseteq {"right"}
    BY <1>0, <1>1, <1>3 DEF Answer
  <1>4. ASSUME UNCHANGED acted PROVE acted' \subseteq {"right"}
    BY <1>0, <1>4
  <1>5. ASSUME NEW m \in Messages, Lapse(m) \/ \E b \in Callbacks : Duplicate(m, b)
        PROVE  UNCHANGED acted
    BY <1>5 DEF Duplicate, Lapse
  <1>6. ASSUME NEW j \in Jobs, Begin(j) \/ Advance(j) PROVE UNCHANGED acted
    BY <1>6 DEF Begin, Advance, Reply, Prepare, Open, Lock, Finish, Panic, runVars
  <1> QED
    BY <1>2, <1>3, <1>4, <1>5, <1>6 DEF Next, Restart, vars

\* The inductive invariant holds in every reachable state.
LEMMA Invariance == Spec => []IInv
  <1>1. IInv /\ [Next]_vars => IInv'
    BY TypeStep, DedupStep, SessionStep, PoisonStep, VerifiedStep DEF IInv
  <1> QED
    BY Initially, <1>1, PTL DEF Spec

\* Every reachable state of the gateway is well typed: the pool's jobs, the
\* deduper and the session table (server.rs, manager.rs).
THEOREM TypeCorrect == Spec => []TypeOK
  BY Invariance, PTL DEF IInv

\* A redelivered message starts no second job until its entry has lapsed
\* (MessageDeduper::already_seen_or_insert), for any messages and any ttl.
THEOREM RedeliveryIsAbsorbed == Spec => []OneJobPerLapse
  <1>1. IInv => OneJobPerLapse
    BY DEF IInv, TypeOK, DedupInv, OneJobPerLapse
  <1> QED
    BY Invariance, <1>1, PTL

\* However many jobs open a chat at the same time, one of them is inside
\* (SessionManager::get_or_create, Session::lock_run), for any pool.
THEOREM ChatsAreSerial == Spec => []OneRunPerChat
  <1>1. IInv => OneRunPerChat
    BY DEF IInv, SessionInv, OneRunPerChat
  <1> QED
    BY Invariance, <1>1, PTL

\* The panic of a run (handle_event's catch_unwind) spoils its own chat only.
THEOREM PanicIsContained == Spec => []PanicStaysInItsChat
  BY Invariance, PTL DEF IInv, PoisonInv

\* With a verify token no callback without it has an effect (parse_callback).
THEOREM VerifiedOnly == Spec => []OnlyVerifiedCallbacksAct
  BY Invariance, PTL DEF IInv

-----------------------------------------------------------------------------
(***************************************************************************)
(* Deduper, pool, session table and run locks are one service: Gateway     *)
(* implements ChatService.                                                 *)
(***************************************************************************)
\* The session whose lock is poisoned is still the session of its chat.
PlaceInv == \A s \in poisoned : session[Chat(s)] = s

Closed == {c \in Chats : session[c] \in poisoned}

Stages == [j \in Jobs |-> Stage(j)]

LEMMA PlaceStep == IInv /\ PlaceInv /\ [Next]_vars => PlaceInv'
  <1> SUFFICES ASSUME IInv, PlaceInv, [Next]_vars PROVE PlaceInv'
    OBVIOUS
  <1>0. /\ poisoned \subseteq Jobs /\ session \in [Chats -> Jobs \cup {NoJob}]
        /\ \A j \in Jobs : Chat(j) \in Chats /\ j # NoJob
    BY JobParts DEF IInv, TypeOK
  <1>1. ASSUME UNCHANGED << session, poisoned >> PROVE PlaceInv'
    BY <1>1 DEF PlaceInv, Chat
  <1>2. ASSUME NEW b \in Callbacks, NEW m \in Messages, Message(m, b) PROVE PlaceInv'
    BY <1>1, <1>2 DEF Message
  <1>3. ASSUME NEW j \in Jobs, Open(j) PROVE PlaceInv'
    <2>1. /\ poisoned' = poisoned
          /\ session' = [session EXCEPT ![Chat(j)] = IF session[Chat(j)] = NoJob THEN j ELSE session[Chat(j)]]
      BY <1>3 DEF Open
    <2>2. \A s \in poisoned : session'[Chat(s)] = session[Chat(s)]
      BY <1>0, <2>1 DEF PlaceInv
    <2> QED
      BY <2>1, <2>2 DEF PlaceInv, Chat
  <1>4. ASSUME NEW j \in Jobs, Panic(j) PROVE PlaceInv'
    <2>1. session' = session /\ poisoned' = poisoned \cup {mine[j]}
      BY <1>4 DEF Panic
    <2>2. mine[j] \in Jobs /\ mine[j] = session[Chat(j)]
      BY <1>4 DEF Panic, IInv, SessionInv
    <2>3. Chat(mine[j]) = Chat(j)
      BY <1>0, <2>2 DEF IInv, SessionInv
    <2> QED
      BY <2>1, <2>2, <2>3 DEF PlaceInv, Chat
  <1>5. ASSUME NEW j \in Jobs, Begin(j) \/ Reply(j) \/ Prepare(j) \/ Lock(j) \/ Finish(j)
        PROVE  PlaceInv'
    BY <1>1, <1>5 DEF Begin, Reply, Prepare, Lock, Finish
  <1>6. CASE Restart
    BY <1>6 DEF Restart, Fresh, PlaceInv
  <1> QED
    BY <1>1, <1>2, <1>3, <1>4, <1>5, <1>6, Outside DEF Next, Advance, vars

\* A job moves: its stage does, and those of the others stay.
LEMMA StageMoves ==
  ASSUME IInv, NEW j \in Jobs, NEW at, job' = [job EXCEPT ![j] = at]
  PROVE  Stages' = [Stages EXCEPT ![j] = Stage(j)'] /\ Stages[j] = Stage(j) /\ job'[j] = at
  <1>1. job' [j] = at /\ \A k \in Jobs \ {j} : job'[k] = job[k]
    BY DEF IInv, TypeOK
  <1>2. \A k \in Jobs \ {j} : Stage(k)' = Stage(k)
    BY <1>1 DEF Stage
  <1> QED
    BY <1>1, <1>2 DEF Stages

LEMMA StagesStay == UNCHANGED job => Stages' = Stages
  BY DEF Stages, Stage

\* The handler of a callback, and the time.
LEMMA CallbackServes ==
  ASSUME IInv,
         \/ \E b \in Callbacks : Answer(b) \/ \E m \in Messages : Message(m, b) \/ Duplicate(m, b)
         \/ \E m \in Messages : Lapse(m)
  PROVE  Service!Next \/ UNCHANGED Service!vars
  <1>1. ASSUME NEW b \in Callbacks, NEW m \in Messages, Message(m, b) PROVE Service!Next
    <2>1. PICK j \in Jobs :
            /\ j = << m, accepted[m] + 1 >> /\ job[j] = "none"
            /\ job' = [job EXCEPT ![j] = "queued"] /\ UNCHANGED << session, poisoned >>
      BY <1>1, NewJob
    <2>2. j[1] = m
      BY <2>1
    <2>3. /\ Stages' = [Stages EXCEPT ![j] = Stage(j)'] /\ Stages[j] = Stage(j)
          /\ job'[j] = "queued"
      BY <2>1, StageMoves
    <2>4. Stage(j) = "none" /\ Stage(j)' = "waiting"
      BY <2>1, <2>3 DEF Stage
    <2>5. Swept' = Swept \cup {m} /\ m \notin Swept
      BY <1>1 DEF Message, Swept
    <2>6. Closed' = Closed
      BY <2>1 DEF Closed
    <2>7. Service!Accept(j)
      BY <2>1, <2>2, <2>3, <2>4, <2>5, <2>6 DEF Service!Accept, Service!Move, Stages, Closed
    <2> QED
      BY <2>1, <2>7 DEF Service!Next
  <1>2. ASSUME NEW b \in Callbacks, Answer(b) \/ \E m \in Messages : Duplicate(m, b)
        PROVE  UNCHANGED Service!vars
    <2>1. UNCHANGED << job, session, poisoned >> /\ Swept' = Swept
      BY <1>2 DEF Answer, Duplicate, Swept
    <2> QED
      BY <2>1, StagesStay DEF Service!vars, Stages, Closed
  <1>3. ASSUME NEW m \in Messages, Lapse(m) PROVE Service!Next
    <2>1. /\ UNCHANGED << job, session, poisoned >>
          /\ Swept' = Swept \ {m} /\ m \in Swept
      BY <1>3 DEF Lapse, Swept
    <2>2. Service!Forget(m)
      BY <2>1, StagesStay DEF Service!Forget, Stages, Closed
    <2> QED
      BY <2>2 DEF Service!Next
  <1> QED
    BY <1>1, <1>2, <1>3

\* A job of the pool, up to the run lock and behind it.
LEMMA JobServes ==
  ASSUME IInv, PlaceInv, NEW j \in Jobs, Begin(j) \/ Advance(j)
  PROVE  Service!Next \/ UNCHANGED Service!vars
  <1> DEFINE c == Chat(j)
  <1>0. /\ session \in [Chats -> Jobs \cup {NoJob}] /\ poisoned \subseteq Jobs
        /\ \A k \in Jobs : Chat(k) \in Chats /\ k # NoJob
    BY JobParts DEF IInv, TypeOK
  <1>1. ASSUME NEW at, job' = [job EXCEPT ![j] = at]
        PROVE  /\ Stages' = [Stages EXCEPT ![j] = Stage(j)'] /\ Stages[j] = Stage(j)
               /\ job'[j] = at
    BY <1>1, StageMoves
  <1>2. ASSUME Swept' = Swept, Closed' = Closed, NEW at, job' = [job EXCEPT ![j] = at],
               Stage(j)' = Stage(j)
        PROVE  UNCHANGED Service!vars
    <2>1. Stages' = Stages
      BY <1>1, <1>2 DEF Stages
    <2> QED
      BY <1>2, <2>1 DEF Service!vars, Stages, Closed
  <1>3. CASE Begin(j) \/ Reply(j) \/ Prepare(j)
    <2>1. PICK at \in {"prepare", "reply", "open", "done", "failed"} :
            /\ job' = [job EXCEPT ![j] = at] /\ Stage(j) = "waiting"
            /\ UNCHANGED << session, poisoned, seen, stale >>
      BY <1>3 DEF Begin, Reply, Prepare, Goto, runVars, Stage
    <2>2. Swept' = Swept /\ Closed' = Closed
      BY <2>1 DEF Swept, Closed
    <2>3. /\ Stages' = [Stages EXCEPT ![j] = Stage(j)'] /\ Stages[j] = Stage(j)
          /\ job'[j] = at
      BY <1>1, <2>1
    <2>4. Stage(j)' \in {"waiting", "over"}
      BY <2>1, <2>3 DEF Stage
    <2>5. CASE Stage(j)' = "waiting"
      BY <1>2, <2>1, <2>2, <2>5
    <2>6. CASE Stage(j)' = "over"
      <3>1. Service!GiveUp(j)
        BY <2>1, <2>2, <2>3, <2>6 DEF Service!GiveUp, Service!Move, Stages, Closed
      <3> QED
        BY <3>1 DEF Service!Next
    <2> QED
      BY <2>4, <2>5, <2>6
  <1>4. CASE Open(j)
    <2>1. /\ job[j] = "open" /\ job' = [job EXCEPT ![j] = "lock"]
          /\ UNCHANGED << poisoned, seen, stale >>
          /\ session' = [session EXCEPT ![c] = IF session[c] = NoJob THEN j ELSE session[c]]
      BY <1>4 DEF Open, Goto, runVars
    <2>2. job'[j] = "lock"
      BY <1>1, <2>1
    <2>3. Stage(j)' = Stage(j)
      BY <2>1, <2>2 DEF Stage
    <2>4. session[c] = NoJob => j \notin poisoned
      BY <1>0 DEF PlaceInv
    <2>5. Closed' = Closed
      BY <1>0, <2>1, <2>4 DEF Closed
    <2> QED
      BY <1>2, <2>1, <2>3, <2>5 DEF Swept
  <1>5. CASE Lock(j)
    <2>1. /\ job[j] = "lock" /\ holder[mine[j]] = NoJob
          /\ UNCHANGED << session, poisoned, seen, stale >>
          /\ mine[j] \in Jobs /\ mine[j] = session[c]
      BY <1>5 DEF Lock, runVars, IInv, SessionInv
    <2>2. Swept' = Swept /\ Closed' = Closed /\ Stage(j) = "waiting"
      BY <2>1 DEF Swept, Closed, Stage
    <2>3. CASE mine[j] \notin poisoned /\ Goto(j, "running")
      <3>1. /\ Stages' = [Stages EXCEPT ![j] = Stage(j)'] /\ Stages[j] = Stage(j)
            /\ job'[j] = "running"
        BY <1>1, <2>3 DEF Goto
      <3>2. Stage(j)' = "running"
        BY <3>1 DEF Stage
      <3>3. c \notin Closed
        BY <2>1, <2>3 DEF Closed
      <3>4. ASSUME NEW k \in Jobs, Stages[k] = "running" PROVE Chat(k) # c
        <4>1. job[k] = "running"
          BY <3>4 DEF Stages, Stage
        <4>2. mine[k] = session[Chat(k)] /\ holder[mine[k]] = k
          BY <4>1 DEF IInv, SessionInv
        <4> QED
          BY <1>0, <2>1, <4>2
      <3>5. Service!Start(j)
        BY <2>2, <3>1, <3>2, <3>3, <3>4 DEF Service!Start, Service!Move, Stages, Closed
      <3> QED
        BY <3>5 DEF Service!Next
    <2>4. CASE mine[j] \in poisoned /\ Goto(j, "refused")
      <3>1. /\ Stages' = [Stages EXCEPT ![j] = Stage(j)'] /\ Stages[j] = Stage(j)
            /\ job'[j] = "refused"
        BY <1>1, <2>4 DEF Goto
      <3>2. Stage(j)' = "refused"
        BY <3>1 DEF Stage
      <3>3. c \in Closed
        BY <1>0, <2>1, <2>4 DEF Closed
      <3>4. Service!Refuse(j)
        BY <2>2, <3>1, <3>2, <3>3 DEF Service!Refuse, Service!Move, Stages, Closed
      <3> QED
        BY <3>4 DEF Service!Next
    <2> QED
      BY <1>5, <2>3, <2>4 DEF Lock
  <1>6. CASE Finish(j) \/ Panic(j)
    <2>1. /\ job[j] = "running" /\ UNCHANGED << session, seen, stale >>
          /\ mine[j] \in Jobs /\ mine[j] = session[c]
      BY <1>6 DEF Finish, Panic, runVars, IInv, SessionInv
    <2>2. PICK at \in {"done", "failed", "panicked"} : job' = [job EXCEPT ![j] = at]
      BY <1>6 DEF Finish, Panic, Goto
    <2>3. /\ Stages' = [Stages EXCEPT ![j] = Stage(j)'] /\ Stages[j] = Stage(j)
          /\ job'[j] = at
      BY <1>1, <2>2
    <2>4. Swept' = Swept /\ Stage(j) = "running" /\ Stage(j)' = "over"
      BY <2>1, <2>3 DEF Swept, Stage
    <2>5. CASE Finish(j)
      <3>1. Closed' = Closed
        BY <2>1, <2>5 DEF Finish, Closed
      <3>2. Service!Finish(j)
        BY <2>3, <2>4, <3>1 DEF Service!Finish, Service!Move, Stages, Closed
      <3> QED
        BY <3>2 DEF Service!Next
    <2>6. CASE Panic(j)
      <3>1. poisoned' = poisoned \cup {mine[j]}
        BY <2>6 DEF Panic
      <3>2. ASSUME NEW d \in Chats, session[d] = mine[j] PROVE d = c
        <4>1. session[d] # NoJob /\ session[c] # NoJob
          BY <1>0, <2>1, <3>2
        <4>2. Chat(session[d]) = d /\ Chat(session[c]) = c
          BY <1>0, <4>1 DEF IInv, SessionInv
        <4> QED
          BY <2>1, <3>2, <4>2
      <3>3. Closed' = Closed \cup {c}
        BY <1>0, <2>1, <3>1, <3>2 DEF Closed
      <3>4. Service!Break(j)
        BY <2>3, <2>4, <3>3 DEF Service!Break, Service!Move, Stages, Closed
      <3> QED
        BY <3>4 DEF Service!Next
    <2> QED
      BY <1>6, <2>5, <2>6
  <1> QED
    BY <1>3, <1>4, <1>5, <1>6 DEF Advance

LEMMA StepServes == IInv /\ PlaceInv /\ [Next]_vars => [Service!Next]_(Service!vars)
  <1> SUFFICES ASSUME IInv, PlaceInv, [Next]_vars
               PROVE  Service!Next \/ UNCHANGED Service!vars
    OBVIOUS
  <1>1. CASE Restart
    <2>1. seen' = {} /\ job' = [j \in Jobs |-> "none"] /\ poisoned' = {}
      BY <1>1 DEF Restart, Fresh
    <2>2. Swept' = {} /\ Closed' = {} /\ Stages' = [j \in Jobs |-> "none"]
      BY <2>1 DEF Swept, Closed, Stages, Stage
    <2> QED
      BY <2>2 DEF Service!Next, Service!Restart, Closed, Stages
  <1>2. CASE UNCHANGED vars
    BY <1>2, StagesStay DEF vars, Service!vars, Swept, Stages
  <1> QED
    BY <1>1, <1>2, CallbackServes, JobServes DEF Next

\* Gateway implements ChatService, for any messages, chats and pool.
THEOREM ImplementsService == Spec => ServiceSpec
  <1>1. Init => Service!Init /\ PlaceInv
    BY DEF Init, Service!Init, PlaceInv, Swept, Stage
  <1> QED
    BY <1>1, PlaceStep, StepServes, Invariance, PTL DEF Spec, ServiceSpec, Service!Spec
=============================================================================

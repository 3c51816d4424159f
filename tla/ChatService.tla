------------------------------ MODULE ChatService ------------------------------
(***************************************************************************)
(* What the gateway promises to the people who write to it, without        *)
(* callbacks, threads, sessions and locks: a message it knows starts no    *)
(* job, the jobs of a chat run one at a time, and a job that breaks its    *)
(* chat breaks no other chat.                                              *)
(***************************************************************************)
CONSTANTS
  Messages, Chats, Jobs,
  MessageOf,  \* the message of each job
  ChatOf      \* the chat of each job

VARIABLES
  known,   \* the messages that start no job when they come again
  stage,   \* none, waiting, running, over or refused
  broken   \* the chats in which nothing runs any more

vars == << known, stage, broken >>

Init ==
  /\ known = {}
  /\ stage = [j \in Jobs |-> "none"]
  /\ broken = {}

Move(j, from, to) == stage[j] = from /\ stage' = [stage EXCEPT ![j] = to]

Accept(j) ==
  /\ MessageOf[j] \notin known
  /\ known' = known \cup {MessageOf[j]}
  /\ Move(j, "none", "waiting")
  /\ UNCHANGED broken

\* The gateway remembers a message for a time.
Forget(m) ==
  /\ m \in known
  /\ known' = known \ {m}
  /\ UNCHANGED << stage, broken >>

Start(j) ==
  /\ ChatOf[j] \notin broken
  /\ \A k \in Jobs : stage[k] = "running" => ChatOf[k] # ChatOf[j]
  /\ Move(j, "waiting", "running")
  /\ UNCHANGED << known, broken >>

\* A job that cannot be prepared, or needs no run.
GiveUp(j) == Move(j, "waiting", "over") /\ UNCHANGED << known, broken >>

Refuse(j) ==
  /\ ChatOf[j] \in broken
  /\ Move(j, "waiting", "refused")
  /\ UNCHANGED << known, broken >>

Finish(j) == Move(j, "running", "over") /\ UNCHANGED << known, broken >>

Break(j) ==
  /\ Move(j, "running", "over")
  /\ broken' = broken \cup {ChatOf[j]}
  /\ UNCHANGED known

\* The gateway starts again and remembers nothing.
Restart == known' = {} /\ stage' = [j \in Jobs |-> "none"] /\ broken' = {}

Next ==
  \/ \E j \in Jobs : Accept(j) \/ Start(j) \/ GiveUp(j) \/ Refuse(j) \/ Finish(j) \/ Break(j)
  \/ \E m \in Messages : Forget(m)
  \/ Restart

Spec == Init /\ [][Next]_vars
=============================================================================

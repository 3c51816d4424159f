------------------------------- MODULE ToolGate -------------------------------
(***************************************************************************)
(* What the approval middleware of the Feishu gateway promises, without    *)
(* cards, callbacks, channels and locks: a tool call that must be approved *)
(* runs only after a human said yes, the first verdict stands, and a call  *)
(* may be refused at any time while it is asked for.                       *)
(***************************************************************************)
CONSTANT Calls

VARIABLES phase, verdict
vars == << phase, verdict >>

Init ==
  /\ phase = [c \in Calls |-> "idle"]
  /\ verdict = [c \in Calls |-> "none"]

Ask(c) ==
  /\ phase[c] = "idle"
  /\ phase' = [phase EXCEPT ![c] = "asked"]
  /\ UNCHANGED verdict

\* A human decides; only the first decision counts, and one that comes too late
\* to be used still counts as the first.
Say(c, d) ==
  /\ phase[c] # "idle"
  /\ verdict[c] = "none"
  /\ verdict' = [verdict EXCEPT ![c] = d]
  /\ UNCHANGED phase

Grant(c) ==
  /\ phase[c] = "asked"
  /\ verdict[c] = "approve"
  /\ phase' = [phase EXCEPT ![c] = "granted"]
  /\ UNCHANGED verdict

Refuse(c) ==
  /\ phase[c] = "asked"
  /\ phase' = [phase EXCEPT ![c] = "refused"]
  /\ UNCHANGED verdict

Run(c) ==
  /\ phase[c] = "granted"
  /\ phase' = [phase EXCEPT ![c] = "ran"]
  /\ UNCHANGED verdict

\* The process ends and takes every open question with it.
Abandon ==
  /\ phase' = [c \in Calls |-> "idle"]
  /\ verdict' = [c \in Calls |-> "none"]

Next ==
  \/ \E c \in Calls : Ask(c) \/ Grant(c) \/ Refuse(c) \/ Run(c)
  \/ \E c \in Calls, d \in {"approve", "reject"} : Say(c, d)
  \/ Abandon

Spec == Init /\ [][Next]_vars
=============================================================================

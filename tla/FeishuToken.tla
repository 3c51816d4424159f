------------------------------ MODULE FeishuToken ------------------------------
(***************************************************************************)
(* The tenant access token of the Feishu client: the cache of              *)
(* src/integrations/feishu/token.rs and the requests of client.rs that     *)
(* carry its tokens.  One cache is shared by every thread that sends a     *)
(* message or a card.  Nothing keeps two threads from missing it together: *)
(* both fetch, and the last to store wins, also with the older token.      *)
(*                                                                         *)
(* A token is the moment at which the platform stops taking it.  Instants  *)
(* are ticks of one clock; requests are answered within the bounds below,  *)
(* or the client gives them up.                                            *)
(***************************************************************************)
EXTENDS Naturals

CONSTANTS
  Senders,      \* threads that send through the client
  Lifetimes,    \* the lifetimes (expire) the platform may grant
  SafetyMargin, \* EXPIRY_SAFETY_MARGIN
  FetchTime,    \* a token is no older than this when its answer has been read
  SendTime,     \* the platform looks at the token of a message no later than this
  MaxClock      \* bound: ticks of the clock

ASSUME FeishuTokenAssumption ==
  /\ Lifetimes \subseteq Nat
  /\ SafetyMargin \in Nat \ {0}
  /\ FetchTime \in Nat
  /\ SendTime \in Nat
  /\ FetchTime + SendTime <= SafetyMargin
  /\ MaxClock \in Nat

VARIABLES
  clock,
  cached,   \* the cached token and when the cache stops giving it
  sender    \* what each thread is doing

tokenVars == << clock, cached, sender >>

\* A CachedToken: what the platform means, and expires_at.
Tokens == [validUntil : Nat, expiresAt : Nat]
NoToken == [validUntil |-> 0, expiresAt |-> 0]

SenderStates == [at : {"idle", "fetch", "issued", "store", "send"}, since : Nat,
                 lifetime : Nat, token : Tokens, hit : BOOLEAN]
Resting == [at |-> "idle", since |-> 0, lifetime |-> 0, token |-> NoToken, hit |-> FALSE]

TokenInit ==
  /\ clock = 0
  /\ cached = NoToken
  /\ sender = [s \in Senders |-> Resting]

\* Mutant: the lifetime is taken as it is.
ExpiresAtTheEnd(now, lifetime) == now + lifetime

\* `expire.max(1)`, then saturating_sub.
ExpiresAt(now, lifetime) ==
  LET ttl == IF lifetime > 0 THEN lifetime ELSE 1
  IN now + (IF ttl > SafetyMargin THEN ttl - SafetyMargin ELSE 0)

\* The request of a message begins.
BeginSend(s, token, hit) ==
  sender' = [sender EXCEPT ![s] = [at |-> "send", since |-> clock, lifetime |-> 0,
                                   token |-> token, hit |-> hit]]

Hit(s) ==
  /\ sender[s].at = "idle"
  /\ cached.expiresAt > clock
  /\ BeginSend(s, cached, TRUE)
  /\ UNCHANGED << clock, cached >>

\* The lock of the cache is given up before the request for a new token.
Miss(s) ==
  /\ sender[s].at = "idle"
  /\ cached.expiresAt <= clock
  /\ sender' = [sender EXCEPT ![s] = [Resting EXCEPT !.at = "fetch", !.since = clock]]
  /\ UNCHANGED << clock, cached >>

\* The platform answers: the lifetime counts from here.
Issue(s) ==
  /\ sender[s].at = "fetch"
  /\ \E l \in Lifetimes :
       sender' = [sender EXCEPT ![s] =
                    [Resting EXCEPT !.at = "issued", !.since = sender[s].since, !.lifetime = l,
                                    !.token = [validUntil |-> clock + l, expiresAt |-> 0]]]
  /\ UNCHANGED << clock, cached >>

\* The answer has arrived and is parsed.
Fetched(s) ==
  /\ sender[s].at = "issued"
  /\ LET token == [validUntil |-> sender[s].token.validUntil,
                    expiresAt |-> ExpiresAt(clock, sender[s].lifetime)]
     IN sender' = [sender EXCEPT ![s] = [Resting EXCEPT !.at = "store", !.token = token]]
  /\ UNCHANGED << clock, cached >>

\* A transport error, a timeout, a status, a body or a code that means failure.
FetchFails(s) ==
  /\ sender[s].at \in {"fetch", "issued"}
  /\ sender' = [sender EXCEPT ![s] = Resting]
  /\ UNCHANGED << clock, cached >>

\* The thread gets the lock of the cache, whenever that is.
Store(s) ==
  /\ sender[s].at = "store"
  /\ cached' = sender[s].token
  /\ BeginSend(s, sender[s].token, FALSE)
  /\ UNCHANGED clock

\* The message request is answered, or it fails.
Sent(s) ==
  /\ sender[s].at = "send"
  /\ sender' = [sender EXCEPT ![s] = Resting]
  /\ UNCHANGED << clock, cached >>

InTime(s) ==
  /\ sender[s].at \in {"fetch", "issued"} => clock < sender[s].since + FetchTime
  /\ sender[s].at = "send" => clock < sender[s].since + SendTime

Tick ==
  /\ clock < MaxClock
  /\ \A s \in Senders : InTime(s)
  /\ clock' = clock + 1
  /\ UNCHANGED << cached, sender >>

TokenNext ==
  \/ Tick
  \/ \E s \in Senders :
       Hit(s) \/ Miss(s) \/ Issue(s) \/ Fetched(s) \/ FetchFails(s) \/ Store(s) \/ Sent(s)

TokenSpec == TokenInit /\ [][TokenNext]_tokenVars

-----------------------------------------------------------------------------
TokenTypeOK ==
  /\ clock \in Nat
  /\ cached \in Tokens
  /\ sender \in [Senders -> SenderStates]

\* While a request with a cached token is under way the platform still takes
\* the token, whoever refreshed the cache meanwhile, in whatever order, and with
\* whatever lifetimes: the margin covers the age the token had when it was
\* stored and the time its request takes (tenant_access_token, send_message_to_chat).
CachedTokenIsValid ==
  \A s \in Senders :
    sender[s].at = "send" /\ sender[s].hit => clock < sender[s].token.validUntil
=============================================================================

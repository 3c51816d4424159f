------------------------------- MODULE MCGateway -------------------------------
(***************************************************************************)
(* Gateway for TLC: a text message in each of two chats, and in the second *)
(* chat one that is not text.                                              *)
(***************************************************************************)
EXTENDS Gateway

CONSTANTS m1, m2, m3, c1, c2

MCMessages == {m1, m2, m3}
MCChats == {c1, c2}
MCChatOf == [m \in MCMessages |-> IF m = m1 THEN c1 ELSE c2]
MCTexts == {m1, m2}
MCMaxRuns == [m \in MCMessages |-> IF m = m1 THEN 2 ELSE 1]
=============================================================================

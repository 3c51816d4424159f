------------------------------ MODULE MCModelCall ------------------------------
(***************************************************************************)
(* ModelCall for TLC: a system prompt and up to three steps of a run, each *)
(* with contents below or above the limits of compaction, and responses    *)
(* with up to two calls.                                                   *)
(***************************************************************************)
EXTENDS ModelCall

MCBudget == [max_chars |-> 8, retain_recent_messages |-> 2, max_recent_observation_chars |-> 4,
             far_observation_mask_chars |-> 2, far_assistant_fold_chars |-> 2,
             head_chars |-> 1, tail_chars |-> 1]

Msg(role, id, made, chars) == [role |-> role, id |-> id, calls |-> made, chars |-> chars]
Sizes == {1, 3, 6}

\* A step with the name of its calls: prompt, thought or empty answer, one call,
\* two calls with a reminder behind them.
StepsOf(a, b) ==
  {<< Msg("user", None, << >>, n) >> : n \in Sizes}
  \cup {<< Msg("assistant", None, << >>, n) >> : n \in {0, 3}}
  \cup {<< Msg("assistant", None, << a >>, 0), Msg("user", a, << >>, n) >> : n \in Sizes}
  \cup {<< Msg("assistant", None, << a, b >>, 3), Msg("user", a, << >>, n),
           Msg("user", b, << >>, 1), Msg("user", None, << >>, 1) >> : n \in Sizes}

MCHistories ==
  {<< Msg("system", None, << >>, 1) >> \o s \o t \o u :
     s \in StepsOf("a1", "b1"), t \in StepsOf("a2", "b2") \cup {<< >>}, u \in StepsOf("a3", "b3") \cup {<< >>}}

MCUsages == {[input |-> 1, output |-> 2], [input |-> None, output |-> 2],
             [input |-> None, output |-> None]}
MCCalls == {<< >>} \cup {<< [id |-> "x", pieces |-> n] >> : n \in 0 .. 2}
           \cup {<< [id |-> "x", pieces |-> n], [id |-> "y", pieces |-> k] >> : n \in {0, 2}, k \in {1, 2}}
MCResponses == [text : {0, 2}, calls : MCCalls, usage : MCUsages]
=============================================================================

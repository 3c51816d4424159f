------------------------------- MODULE MCSkills -------------------------------
(***************************************************************************)
(* Skills for TLC: the built-in skill and one of the workspace, two calls   *)
(* of the parent and one of a subagent.                                    *)
(***************************************************************************)
EXTENDS Skills, TLC

CONSTANTS parent, sub, p1, p2, s1

MCBuiltIn == "subagents" :> [closed |-> TRUE, fields |-> << "name", "description" >>]

\* Hidden, hidden but with a key that makes it ordinary Markdown, invalid,
\* and shown because it is not closed.
MCTexts == {
  [closed |-> TRUE, fields |-> << "disable-model-invocation: true", "description" >>],
  [closed |-> TRUE, fields |-> << "disable-model-invocation: true", "tags" >>],
  [closed |-> TRUE, fields |-> << "disable-model-invocation: yes" >>],
  [closed |-> FALSE, fields |-> << >>] }

MCCallerOf == (p1 :> parent) @@ (p2 :> parent) @@ (s1 :> sub)
=============================================================================

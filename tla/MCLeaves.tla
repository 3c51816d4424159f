------------------------------- MODULE MCLeaves -------------------------------
(***************************************************************************)
(* The components that share no state with the others, one at a time: a     *)
(* call of a model, the token of the Feishu client, the skills and the file *)
(* tools.  `part` is the one that runs; the others stay as they begin.      *)
(***************************************************************************)
EXTENDS MCModelCall, MCSkills, MCFileTools, FeishuToken

VARIABLE part

leafVars == << vars, tokenVars, skillVars, fileVars, part >>

LeavesInit ==
  /\ part \in {"model", "token", "skills", "files"}
  /\ TokenInit
  /\ FilesInit /\ (part # "files" => file = Missing)
  /\ SkillsInit /\ (part # "skills" => program = "cli" /\ \A s \in Written : skillFile[s] = NoFile)
  /\ Init /\ (part # "model" => dialect = "claude" /\ Len(messages) = 2 /\ messages[2].role = "user"
                                /\ messages[2].chars = 1)

LeavesNext ==
  \/ part = "model" /\ Next /\ UNCHANGED << tokenVars, skillVars, fileVars, part >>
  \/ part = "token" /\ TokenNext /\ UNCHANGED << vars, skillVars, fileVars, part >>
  \/ part = "skills" /\ SkillsNext /\ UNCHANGED << vars, tokenVars, fileVars, part >>
  \/ part = "files" /\ FilesNext /\ UNCHANGED << vars, tokenVars, skillVars, part >>

LeavesSpec == LeavesInit /\ [][LeavesNext]_leafVars

\* The types of the four components.
TypesOK == TypeOK /\ TokenTypeOK /\ SkillsTypeOK /\ FilesTypeOK
=============================================================================

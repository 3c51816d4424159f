------------------------------ MODULE MCFileTools ------------------------------
(***************************************************************************)
(* FileTools for TLC: files with each style of newlines, mixed ones,       *)
(* indented blocks, repeated lines and overlapping matches.                *)
(***************************************************************************)
EXTENDS FileTools

\* The file, the file by way of "..", its directory, paths that lead elsewhere, and
\* a link beside the file that leads elsewhere.
MCPaths == {
  [absolute |-> FALSE, up |-> FALSE, parent |-> TRUE, within |-> TRUE, directory |-> FALSE],
  [absolute |-> FALSE, up |-> TRUE, parent |-> TRUE, within |-> TRUE, directory |-> FALSE],
  [absolute |-> FALSE, up |-> FALSE, parent |-> TRUE, within |-> TRUE, directory |-> TRUE],
  [absolute |-> FALSE, up |-> TRUE, parent |-> FALSE, within |-> FALSE, directory |-> FALSE],
  [absolute |-> FALSE, up |-> FALSE, parent |-> TRUE, within |-> FALSE, directory |-> FALSE],
  [absolute |-> TRUE, up |-> FALSE, parent |-> TRUE, within |-> TRUE, directory |-> FALSE] }

MCFiles == {
  << >>,
  << "a", "cr", "nl", "sp", "b", "cr", "nl" >>,
  << "sp", "a", "nl", "nl", "sp", "b" >>,
  << "a", "nl", "sp", "a", "nl", "b" >>,
  << "a", "nl", "b", "cr", "a", "cr", "nl" >>,
  << "a", "cr", "cr", "nl", "b" >>,
  << "a", "cr", "b" >>,
  << "b", "cr", "a", "cr", "nl", "a" >>,
  << "a", "a", "a" >> }

MCOldTexts == {
  << >>, << "a" >>, << "a", "a" >>, << "sp", "b", "nl" >>,
  << "a", "nl", "b" >>, << "a", "cr", "nl", "b" >> }

MCNewTexts == { << >>, << "sp", "b", "nl", "sp", "sp", "a" >>, << "a", "cr", "nl", "b", "nl" >> }
=============================================================================

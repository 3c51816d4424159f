------------------------------- MODULE MCToolTurn -------------------------------
(***************************************************************************)
(* ToolTurn for TLC: a write that a rule denies, a read, a bash command     *)
(* that a rule asks about, a runtime command, and a tool that is not there.  *)
(***************************************************************************)
EXTENDS ToolTurn

CONSTANTS write, read_a, ask, delegate, typo

MCCalls == {write, read_a, ask, delegate, typo}
MCBatches ==
  { << write >>, << read_a >>, << ask >>, << typo >>, << delegate >>, << read_a, read_a >>,
    << write, delegate >>, << typo, write >>, << delegate, delegate, ask >>, << typo, typo, typo >> }
MCTool == (write :> "write_file") @@ (read_a :> "read_file") @@ (ask :> "bash")
          @@ (delegate :> "delegate_task") @@ (typo :> "typo")
MCWords == (write :> {"secret"}) @@ (read_a :> {}) @@ (ask :> {"rm", "-r", "sudo "}) @@ (delegate :> {})
           @@ (typo :> {})
MCRules == << [tool |-> "write_file", how |-> "Any", words |-> {"secret"}, decision |-> "Deny"],
              [tool |-> "bash", how |-> "All", words |-> {"rm", "-r"}, decision |-> "Ask"],
              [tool |-> "bash", how |-> "Any", words |-> {"sudo "}, decision |-> "Deny"] >>
MCRawErrors == [t \in {"write_file", "read_file", "bash"} |->
                 IF t = "read_file" THEN {"no such file"}
                 ELSE IF t = "bash" THEN {"failed to start"} ELSE {"no permission"}]
=============================================================================

--------------------------------- MODULE Bash ---------------------------------
(***************************************************************************)
(* BashTool::execute (src/tools/bash.rs): the shell it starts, the pipe the *)
(* shell writes to, the loop that polls for its end until the timeout, the *)
(* kill, the read to the end of the pipe, and the cut of what was read at  *)
(* the limit of the tool.                                                  *)
(*                                                                         *)
(* stdout and stderr are one pipe: nobody reads it while the tool polls.  A *)
(* background process the command leaves behind holds the pipe open.  A    *)
(* number of bytes counts those of the text that is made of the output.    *)
(* Actions only: the module that runs the tool composes them.              *)
(***************************************************************************)
EXTENDS Naturals

CONSTANTS
  PipeSize,         \* what a pipe holds before its writer waits
  MaxOutputBytes,   \* max_output_bytes of the tool: what a result holds
  MaxOutput         \* bound: what a command writes

ASSUME BashAssumption ==
  PipeSize \in Nat \ {0} /\ MaxOutputBytes \in Nat /\ MaxOutput \in Nat

VARIABLES
  poller,      \* where execute is
  shell,       \* none, running, exited, killed
  endless,     \* the command never ends by itself
  background,  \* what the command leaves behind: none, ends, stays
  toWrite,     \* what the shell has still to write
  pipe,        \* what is in the pipe
  late,        \* the timeout has passed
  written,     \* history: what was written
  read,        \* what execute has read
  kept,        \* what the result holds of it: its first bytes
  cut          \* the result says that it was truncated

bashVars == << poller, shell, endless, background, toWrite, pipe, late, written, read, kept, cut >>

Pollers == {"idle", "poll", "kill", "collect", "collect_late", "done", "done_late", "done_unread",
            "failed"}

\* No command runs.
BashIdle ==
  /\ poller = "idle"
  /\ shell = "none"
  /\ endless = FALSE
  /\ background = "none"
  /\ toWrite = 0
  /\ pipe = 0
  /\ late = FALSE
  /\ written = 0
  /\ read = 0
  /\ kept = 0
  /\ cut = FALSE

\* The result is taken.  What the command has left behind is its own affair.
BashReset ==
  /\ poller' = "idle"
  /\ shell' = "none"
  /\ endless' = FALSE
  /\ background' = "none"
  /\ toWrite' = 0
  /\ pipe' = 0
  /\ late' = FALSE
  /\ written' = 0
  /\ read' = 0
  /\ kept' = 0
  /\ cut' = FALSE

\* spawn, with any command.
Spawn ==
  /\ poller = "idle"
  /\ poller' = "poll"
  /\ shell' = "running"
  /\ endless' \in BOOLEAN
  /\ background' \in {"none", "ends", "stays"}
  /\ toWrite' \in 0 .. MaxOutput
  /\ UNCHANGED << pipe, late, written, read, kept, cut >>

-----------------------------------------------------------------------------
(***************************************************************************)
(* The processes and the clock.                                            *)
(***************************************************************************)

ShellWrites ==
  /\ shell = "running"
  /\ toWrite > 0
  /\ pipe < PipeSize
  /\ toWrite' = toWrite - 1
  /\ pipe' = pipe + 1
  /\ written' = written + 1
  /\ UNCHANGED << poller, shell, endless, background, late, read, kept, cut >>

ShellExits ==
  /\ shell = "running"
  /\ toWrite = 0
  /\ ~endless
  /\ shell' = "exited"
  /\ UNCHANGED << poller, endless, background, toWrite, pipe, late, written, read, kept, cut >>

BackgroundEnds ==
  /\ background = "ends"
  /\ background' = "none"
  /\ UNCHANGED << poller, shell, endless, toWrite, pipe, late, written, read, kept, cut >>

TimeoutPasses ==
  /\ poller = "poll"
  /\ ~late
  /\ late' = TRUE
  /\ UNCHANGED << poller, shell, endless, background, toWrite, pipe, written, read, kept, cut >>

-----------------------------------------------------------------------------
(***************************************************************************)
(* execute.                                                                *)
(***************************************************************************)

\* Mutant: the timeout is looked at only when the child has exited.
PollForEver ==
  /\ poller = "poll"
  /\ shell = "exited"
  /\ poller' = "collect"
  /\ UNCHANGED << shell, endless, background, toWrite, pipe, late, written, read, kept, cut >>

\* try_wait; as long as it gives nothing and there is time, the loop goes on.
Poll ==
  /\ poller = "poll"
  /\ \/ shell = "exited" /\ poller' = "collect"
     \/ shell # "exited" /\ late /\ poller' = "kill"
  /\ UNCHANGED << shell, endless, background, toWrite, pipe, late, written, read, kept, cut >>

\* Only the shell is killed, and it may have exited since try_wait.
Kill ==
  /\ poller = "kill"
  /\ poller' = "collect_late"
  /\ shell' = IF shell = "running" THEN "killed" ELSE shell
  /\ UNCHANGED << endless, background, toWrite, pipe, late, written, read, kept, cut >>

\* try_wait or wait_with_output fails.
PollFails ==
  /\ poller \in {"poll", "collect"}
  /\ poller' = "failed"
  /\ UNCHANGED << shell, endless, background, toWrite, pipe, late, written, read, kept, cut >>

\* wait_with_output fails after the kill: the result says so and is not an error.
LateReadFails ==
  /\ poller = "collect_late"
  /\ poller' = "done_unread"
  /\ UNCHANGED << shell, endless, background, toWrite, pipe, late, written, read, kept, cut >>

ReadOutput ==
  /\ poller \in {"collect", "collect_late"}
  /\ pipe > 0
  /\ pipe' = pipe - 1
  /\ read' = read + 1
  /\ UNCHANGED << poller, shell, endless, background, toWrite, late, written, kept, cut >>

\* The end of the pipe: nobody is left who could write.
PipeClosed == shell \in {"exited", "killed"} /\ background = "none"

\* is_char_boundary, going down from the limit: a character has at most four bytes.
Cutoffs == {c \in 0 .. MaxOutputBytes : MaxOutputBytes - c <= 3}

\* truncate_output.
TruncateOutput ==
  \/ read <= MaxOutputBytes /\ kept' = read /\ cut' = FALSE
  \/ read > MaxOutputBytes /\ kept' \in Cutoffs /\ cut' = TRUE

\* Mutant: what is left in the pipe of a killed command is not read.
ReadEndUnread ==
  /\ poller \in {"collect", "collect_late"}
  /\ poller = "collect" => pipe = 0
  /\ PipeClosed
  /\ poller' = IF poller = "collect" THEN "done" ELSE "done_late"
  /\ TruncateOutput
  /\ UNCHANGED << shell, endless, background, toWrite, pipe, late, written, read >>

\* wait_with_output returns, and the result is made of what was read.
ReadEnd ==
  /\ poller \in {"collect", "collect_late"}
  /\ pipe = 0
  /\ PipeClosed
  /\ poller' = IF poller = "collect" THEN "done" ELSE "done_late"
  /\ TruncateOutput
  /\ UNCHANGED << shell, endless, background, toWrite, pipe, late, written, read >>

Processes == ShellWrites \/ ShellExits \/ BackgroundEnds \/ TimeoutPasses
Execute == Poll \/ Kill \/ PollFails \/ LateReadFails \/ ReadOutput \/ ReadEnd

-----------------------------------------------------------------------------
BashTypeOK ==
  /\ poller \in Pollers
  /\ shell \in {"none", "running", "exited", "killed"}
  /\ endless \in BOOLEAN
  /\ background \in {"none", "ends", "stays"}
  /\ toWrite \in 0 .. MaxOutput
  /\ pipe \in 0 .. PipeSize
  /\ late \in BOOLEAN
  /\ written \in 0 .. MaxOutput
  /\ read \in 0 .. MaxOutput
  /\ kept \in 0 .. MaxOutput
  /\ cut \in BOOLEAN

\* The result of a command, also of one that was killed, tells its output: without
\* the note of the cut it holds everything the command has written, with it the
\* command has written more than the limit and the result holds the first bytes up
\* to the limit, less an incomplete character.  A command that is reported as ended
\* has ended by itself with nothing left to write (the two ends of
\* BashTool::execute, truncate_output).
ResultTellsItsOutput ==
  /\ poller \in {"done", "done_late"} =>
       \/ ~cut /\ kept = written
       \/ cut /\ written > MaxOutputBytes /\ kept \in Cutoffs
  /\ poller = "done" => shell = "exited" /\ toWrite = 0
=============================================================================

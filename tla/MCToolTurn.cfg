SPECIFICATION FairSpec

CONSTANTS
  write = write
  read_a = read_a
  ask = ask
  delegate = delegate
  typo = typo
  Calls <- MCCalls
  Tool <- MCTool
  Words <- MCWords
  Registered = {"write_file", "read_file", "bash"}
  Commands = {"delegate_task"}
  ReadOnly = {"read_file"}
  Rules <- MCRules
  RawErrors <- MCRawErrors
  Batches <- MCBatches
  MaxTurns = 4
  BashTurns = 1
  PipeSize = 1
  MaxOutputBytes = 1
  MaxOutput = 2

INVARIANTS
  TypeOK
  ResultTellsItsOutput
  CountsAreExecutions
  ReminderTellsTheTruth
  StormIsNoticed
PROPERTIES
  BashEnds

CHECK_DEADLOCK FALSE

SPECIFICATION FairSpec

CONSTANTS
  Runs = {r1, r2}
  NoRun = NoRun
  MaxTurns = 2
  MaxCalls = 2
  Thinkers = {r1}
  ReporterFails = TRUE
  Panics = TRUE

INVARIANTS
  TypeOK
  RunsDoNotInterleave
  CalmRequestsAreAnswered
PROPERTIES
  SessionSpec
  EveryRunEnds

CHECK_DEADLOCK FALSE

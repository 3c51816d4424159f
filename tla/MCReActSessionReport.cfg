SPECIFICATION Spec

CONSTANTS
  Runs = {r1, r2}
  NoRun = NoRun
  MaxTurns = 1
  MaxCalls = 1
  Thinkers = {}
  ReporterFails = TRUE
  Panics = FALSE

INVARIANTS
  RequestsAreAnswered

CHECK_DEADLOCK FALSE

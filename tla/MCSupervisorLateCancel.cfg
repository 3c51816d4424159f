SPECIFICATION Spec

CONSTANTS
  Callers = {parent}
  MaxAgents = 1
  MaxTurns = 1
  MaxRestarts = 0
  Panics = FALSE
  DiskFaults = {}

INVARIANTS
  CancelledAgentNeverReports

SPECIFICATION FairSpec

CONSTANTS
  Callers = {c1, c2}
  MaxAgents = 1
  MaxTurns = 1
  MaxRestarts = 1
  Panics = TRUE
  DiskFaults = {"report"}

INVARIANTS
  TypeOK
  OwnerOfHandleSeesTheEnd
  CompletedIsAuditable
  EarlyCancelWins
PROPERTIES
  FinishedIsFinal
  AgentSettles
  JoinReturns

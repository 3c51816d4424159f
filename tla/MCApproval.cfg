SPECIFICATION FairSpec

CONSTANTS
  MaxApprovals = 2
  MaxRestarts = 1

INVARIANTS
  NoWaitIsOrphaned
PROPERTIES
  GateSpec
  EveryWaitEnds

CHECK_DEADLOCK FALSE

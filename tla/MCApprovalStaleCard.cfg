SPECIFICATION Spec

CONSTANTS
  MaxApprovals = 1
  MaxRestarts = 1

INVARIANTS
  ExecutedWasApprovedOnItsCard

CHECK_DEADLOCK FALSE

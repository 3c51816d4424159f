SPECIFICATION Spec

CONSTANTS
  run = run
  turn1 = turn1
  turn2 = turn2
  tool1 = tool1
  tool2 = tool2
  Root = Root
  Spans <- MCSpans
  Parent <- MCParent
  Capacity = 2
  BatchSize = 2

INVARIANTS
  EndedIsExportedOrCounted

CHECK_DEADLOCK FALSE

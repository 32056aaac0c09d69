\* Every tear and two failed I/O calls.
SPECIFICATION Spec
CONSTANTS
  MaxFragments = 3
  Tears = {"stub", "torn"}
  MaxAppends = 3
  MaxCrashes = 2
  MaxFaults = 2
INVARIANTS
  ReplaysWholeRecordsInOrder
  WholeLogKeepsAcknowledged
PROPERTIES
  ImplementsDurableLog
CHECK_DEADLOCK FALSE

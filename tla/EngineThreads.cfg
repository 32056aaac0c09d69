\* Two clients and four calls next to both background threads.
SPECIFICATION Spec
CONSTANTS
  c1 = c1
  c2 = c2
  Clients = {c1, c2}
  Compactor = Compactor
  NoThread = NoThread
  MemTableLimit = 1
  L0CompactionTrigger = 1
  L0StopTrigger = 2
  MaxLevel = 3
  MaxCalls = 4
  MaxFaults = 1
  MaxSpurious = 1
INVARIANTS
  SleepersHaveWakers
PROPERTIES
  CallsReturn
  CloseReturns
  DueCompactionStarts
  RotatedIsFlushed
CHECK_DEADLOCK FALSE

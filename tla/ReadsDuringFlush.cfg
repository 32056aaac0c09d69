\* A query while the flush thread writes its SSTable.
SPECIFICATION Spec
CONSTANTS
  w1 = w1
  w2 = w2
  r1 = r1
  Measurements = {1}
  Timestamps = {1}
  EntryTypes = {"kValue"}
  MinTimestamp <- BelowAll
  SecondNanos = 1
  Writers = {w1}
  Readers = {r1}
  NoThread = NoThread
  MemTableLimit = 1
  L0CompactionTrigger = 2
  L0StopTrigger = 3
  MaxLevel = 2
  LevelSizeBase = 1
  TtlSeconds = {}
  MaxWrites = 2
  MaxBatch = 1
  MaxCalls = 0
  MaxFaults = 0
INVARIANTS
  ReadsSeeAcknowledgedWrites
CHECK_DEADLOCK FALSE

\* Puts and deletes on two keys against the abstract map.
SPECIFICATION Spec
CONSTANTS
  w1 = w1
  Measurements = {1}
  Timestamps = {1, 2}
  EntryTypes = {"kValue", "kDeletion"}
  MinTimestamp <- BelowAll
  SecondNanos = 1
  Writers = {w1}
  Readers = {}
  NoThread = NoThread
  MemTableLimit = 1
  L0CompactionTrigger = 2
  L0StopTrigger = 3
  MaxLevel = 3
  LevelSizeBase = 0
  TtlSeconds = {}
  MaxWrites = 3
  MaxBatch = 1
  MaxCalls = 1
  MaxFaults = 0
PROPERTIES
  ImplementsKVStore
CHECK_DEADLOCK FALSE

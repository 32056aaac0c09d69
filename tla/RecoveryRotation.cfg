\* A flush is published while the next memtable is written.
SPECIFICATION RecoverySpec
CONSTANTS
  w1 = w1
  Measurements = {1}
  Timestamps = {1, 2}
  EntryTypes = {"kValue"}
  MinTimestamp <- BelowAll
  SecondNanos = 1
  Writers = {w1}
  Readers = {}
  NoThread = NoThread
  MemTableLimit = 1
  L0CompactionTrigger = 2
  L0StopTrigger = 3
  MaxLevel = 2
  LevelSizeBase = 0
  TtlSeconds = {}
  MaxWrites = 2
  MaxBatch = 1
  MaxCalls = 0
  MaxFaults = 0
  CrashPoints = {}
  ManifestBuffer = 9
  MaxCrashes = 0
INVARIANTS
  AcknowledgedWritesSurvive
CHECK_DEADLOCK FALSE

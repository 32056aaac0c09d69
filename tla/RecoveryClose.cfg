\* The process dies while Close rewrites the manifest.
SPECIFICATION RecoverySpec
CONSTANTS
  w1 = w1
  Measurements = {1}
  Timestamps = {1}
  EntryTypes = {"kValue"}
  MinTimestamp <- BelowAll
  SecondNanos = 1
  Writers = {w1}
  Readers = {}
  NoThread = NoThread
  MemTableLimit = 1
  L0CompactionTrigger = 2
  L0StopTrigger = 3
  MaxLevel = 2
  LevelSizeBase = 0
  TtlSeconds = {}
  MaxWrites = 3
  MaxBatch = 1
  MaxCalls = 0
  MaxFaults = 0
  CrashPoints = {"close"}
  ManifestBuffer = 9
  MaxCrashes = 1
INVARIANTS
  SurviveUnlessRotated
CHECK_DEADLOCK FALSE

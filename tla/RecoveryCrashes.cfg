\* Two crashes or shutdowns, anywhere in a write, a flush, a compaction or the
\* shutdown.
SPECIFICATION RecoverySpec
CONSTANTS
  w1 = w1
  Measurements = {1}
  Timestamps = {1, 2}
  EntryTypes = {"kValue"}
  MinTimestamp <- BelowAll
  SecondNanos = 1
  Writers = {w1}
  Readers = {}
  NoThread = NoThread
  MemTableLimit = 1
  L0CompactionTrigger = 2
  L0StopTrigger = 3
  MaxLevel = 2
  LevelSizeBase = 0
  TtlSeconds = {}
  MaxWrites = 3
  MaxBatch = 1
  MaxCalls = 0
  MaxFaults = 0
  CrashPoints = {"step", "publish", "commit", "close"}
  ManifestBuffer = 1
  MaxCrashes = 2
INVARIANTS
  OnlyRotationLosesWrites
  RecoveredLayersOrdered
  ManifestMatchesVersion
  ListedFilesExist
CHECK_DEADLOCK FALSE

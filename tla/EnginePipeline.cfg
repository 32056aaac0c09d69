\* Writes to two keys through flush and compaction, with one failed I/O
\* call anywhere; no reader.
SPECIFICATION Spec
CONSTANTS
  w1 = w1
  w2 = w2
  r1 = r1
  Measurements = {1}
  Timestamps = {1, 2}
  EntryTypes = {"kValue"}
  MinTimestamp <- BelowAll
  SecondNanos = 1
  Writers = {w1}
  Readers = {}
  NoThread = NoThread
  MemTableLimit = 1
  L0CompactionTrigger = 2
  L0StopTrigger = 3
  MaxLevel = 3
  LevelSizeBase = 0
  TtlSeconds = {}
  MaxWrites = 3
  MaxBatch = 1
  MaxCalls = 2
  MaxFaults = 1
INVARIANTS
  TypeOK
  NoLostWrite
  NoOrphanFiles
  Level1Disjoint
  InputsStayLive
  DueCompactionPending
  FilesInUseKept
CHECK_DEADLOCK FALSE

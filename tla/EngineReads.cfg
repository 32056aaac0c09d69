\* A reader next to two writers with batches, TTL rules, flushes and
\* compactions down to level 2.
SPECIFICATION Spec
CONSTANTS
  w1 = w1
  w2 = w2
  r1 = r1
  Measurements = {1}
  Timestamps = {1, 3}
  EntryTypes = {"kValue"}
  MinTimestamp <- BelowAll
  SecondNanos = 1
  Writers = {w1, w2}
  Readers = {r1}
  NoThread = NoThread
  MemTableLimit = 1
  L0CompactionTrigger = 2
  L0StopTrigger = 3
  MaxLevel = 3
  LevelSizeBase = 0
  TtlSeconds = {0, 1}
  MaxWrites = 3
  MaxBatch = 2
  MaxCalls = 1
  MaxFaults = 0
SYMMETRY WriterSymmetry
INVARIANTS
  NewestFirst
  ReadsSeeOnePrefix
  FilesInUseKept
  NoLostWrite
  WriteBackpressure
CHECK_DEADLOCK FALSE

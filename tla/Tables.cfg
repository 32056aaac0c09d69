\* Values and tombstones on their way through a memtable into two tables, and
\* two readers; the cache has no room for two full blocks.
\* Integers of four bits, bytes of three, codes of one, two and four bits.
SPECIFICATION TablesSpec
CONSTANTS
  r1 = r1
  r2 = r2
  v1 = v1
  deleted = deleted
  NoEntry = NoEntry
  TsKeys = {0, 1, 2, 3}
  HeadNode <- Before
  Nil = 4
  DefaultKey = 1
  Entries = {v1, deleted}
  Tombstones = {deleted}
  MaxHeight = 2
  MaxWrites = 4
  Capacity = 2
  Tables = {1, 2}
  Keys = {1, 2, 3}
  BlockSize = 2
  Hash1 <- FirstHash
  Hash2 <- SecondHash
  NumProbes = 2
  BitsPerKey = 2
  InitialBits = 4
  Readers = {r1, r2}
  MaxFaults = 1
  WordBits = 4
  QueryTimes = {0, 1}
  Layers <- QueryLayers
  ViewRules <- Rules
  RankStride = 2
  SecondNanos = 2
  SampleTimes <- Samples
  ByteBits = 3
  SmallBits = 1
  LargeBits = 2
  MaxSamples = 4
SYMMETRY ReaderSymmetry
INVARIANTS
  MemTableFindsWhatWasWritten
  QueriesFindWhatWasWritten
  QueriesFindWhatWasAdded
  CacheAccountsForItsEntries
  TtlExpiresByAge
  RangeQueryAgreesWithGet
  DownsamplePartitionsRange
  DecodesWhatWasEncoded
CHECK_DEADLOCK FALSE

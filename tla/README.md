# A verification of mini-tsdb in TLA+

mini-tsdb is a single-process storage engine for time series: an LSM tree
keyed by `(measurement, timestamp)`, with a write-ahead log, background flush
and compaction, TTL rules and range queries.  This directory holds TLA+ models
of it, the TLC configurations that check them, and proofs checked by TLAPS.
Paths below are relative to the repository; `engine.cpp` stands for
`src/tsdb_engine.cpp`.

## 1. Inventory

### Components

| Component | State | Operations | Talks to |
|---|---|---|---|
| Engine (`engine.cpp`, `tsdb_engine.h`) | `mu_`, `mem_`, `imm_`, `flush_in_progress_`, four condition variables, `running_`, `closed_`, `sst_readers_`, `ttl_map_`, `compaction_in_progress_`, `compaction_pending_`, `compacting_files_`, `pending_delete_` | constructor, `Put`, `Delete`, `Write`, `Get`, `RangeQuery`, `Downsample`, `SetTTL`, `Flush`, `Compact`, `CleanupObsoleteFiles`, `Close` | calls every other component, under `mu_` or outside it |
| Flush thread | a local `to_flush`, its file number | takes `imm_`, builds an SSTable, publishes it, rotates the WAL | engine, version manager, WAL |
| Compaction thread | a `CompactionWork` | picks a level, merges, commits | engine, compaction, version manager |
| MemTable, skip list | keys to newest entry, a byte count | `Put`, `Delete`, `GetEntry`, `RangeQueryEntries`, `IterateEntries`, `Empty` | written under `mu_`, read outside it |
| WAL (`wal.cpp`) | file, stdio buffer, size | append (fragmented), `Sync`, `ReplayEntries`, `Rotate`, `Close` | called under `mu_` |
| Version manager (`version.cpp`) | current version, next file number, obsolete files, `MANIFEST`, `CURRENT` | `LogAndApply`, `RecoverFromManifest`, `WriteSnapshotManifest`, `NewFileNumber` | engine, compaction |
| Compaction (`compaction.cpp`) | none between calls | `Run` | reads inputs by file name, writes outputs |
| SSTable (`sstable.cpp`), Bloom filter, compression, CRC32, random access file | immutable once built | build, `Open`, `GetEntry`, `RangeScanEntries` | block cache |
| Block cache | LRU list, map, byte count | `Get`, `Put`, `Clear` | SSTable readers, under its own mutex |

### How they interact

One lock, `mu_`, orders writers, rotation, publication of files and the
capture of a query's `ReadView`.  Four stretches of code run without it, and
that is where the engine is hard: the flush thread's build of an SSTable, the
whole of `Compaction::Run`, a query after it captured its view, and the wait
for room in the middle of a `WriteBatch`.  Data moves
`mem_` -> `imm_` -> `to_flush` -> level 0 -> level 1 -> ... while queries search
in the same order and stop at the first hit.  Old files are deleted only when
no query holds their reader (`use_count()`).

### What is hard, and where it bites

| Behaviour | Where | Properties |
|---|---|---|
| A table is in no place a query looks while its SSTable is built | `engine.cpp:401` | `ReadsSeeAcknowledgedWrites` (fails), `ReadsSeeOnePrefix` |
| A query outlives the lock under which its view was captured | `:143`, `:911` | `ReadsSeeOnePrefix`, `FilesInUseKept`, `NewestFirst` |
| A batch gives `mu_` away between two of its operations | `:135` | `ReadsSeeOnePrefix`, `WriteBackpressure` |
| Files get their numbers outside `mu_`, levels later | `:405`, `compaction.cpp:81` | `NewestFirst`, `Level1Disjoint` |
| A compaction works on a picture of the version and of the TTL rules that is old by the time it commits | `:501`, `:513` | `InputsStayLive`, `NoLostWrite` |
| `compaction_pending_` is cleared by two threads | `:467` | `DueCompactionPending` |
| One of several steps fails | `:429`, `:433`, `compaction.cpp:92` | `NoLostWrite`, `NoOrphanFiles`, `FilesInUseKept` |
| A crash tears the end of the WAL | `wal.cpp:196`, `:279` | `ReplaysWholeRecordsInOrder`, `ImplementsDurableLog`, `AcknowledgedAreRecoverable` (fails for stubs) |
| Reads, writes and syncs of the WAL fail or come back short | `wal.cpp:113`, `:139`, `:173` | `WholeLogKeepsAcknowledged`, `WholeLogSurvives` (fails for a short read) |
| The whole WAL is rotated away after a flush | `:432` | `AcknowledgedWritesSurvive` (fails), `OnlyRotationLosesWrites` |
| The manifest is appended to without atomicity, truncated in place at shutdown, and trusted at start | `version.cpp:85`, `:185`, `engine.cpp:749`, `:840` | `ManifestMatchesVersion`, `ListedFilesExist`, `RecoveredLayersOrdered`, `OnlyRotationLosesWrites`, `SurviveUnlessRotated` (fails when `Close` is interrupted) |
| Readers share a cache of blocks and fill it without a common lock; a Bloom filter grows; an unreadable block counts as empty | `sstable.cpp:316`, `block_cache.cpp:22`, `bloomfilter.cpp:23` | `QueriesFindWhatWasAdded`, `CacheAccountsForItsEntries` |
| Four condition variables share `mu_`; `Close` stops the engine without it | `:63`, `:314`, `:537`, `:789` | `SleepersHaveWakers`, `CallsReturn`, `CloseReturns`, `DueCompactionStarts`, `RotatedIsFlushed` |
| A search enters the skip list on its upper lists, a scan runs along the lowest, heights are random | `skiplist.h:113`, `memtable.cpp:104` | `MemTableFindsWhatWasWritten`, `QueriesFindWhatWasWritten` |
| `Get` stops at the first hit, `RangeQuery` sorts everything by rank | `:196` | `RangeQueryAgreesWithGet` |
| Fixed-width arithmetic | `:735`, `:252`, `compression.cpp:65` | `TtlExpiresByAge`, `DownsamplePartitionsRange`, `DecodesWhatWasEncoded` |

`PROJECT.json` has the complete list under `hazards`.

### What makes each component correct

- **Engine**: a query returns the result of a prefix of the writes that
  contains every write acknowledged before it; nothing but TTL removes data;
  a due compaction runs; the memtable is bounded.
- **Compaction**: it changes neither what a query finds nor the order of the
  layers; its failure changes nothing.
- **Version manager**: a restart rebuilds exactly the version there was.
- **WAL**: a replay delivers whole records, in order, and every record whose
  call returned.
- **MemTable, SSTable, Bloom filter, compression, cache**: each is a faithful
  and complete representation of what was put into it.

## 2. Plan

| # | Module | Models | State |
|---|---|---|---|
| 1 | `TsdbEngine` | the pipeline in one life of the process | done |
| 2 | `KVStore`, `EngineStore` | what a client is promised, and the refinement to it | done |
| 3 | `EngineOrder`, `TsdbEngineProofs` | the inductive invariant and the theorems | done |
| 4 | `DurableLog`, `Wal` | the log promised to the engine, and `wal.cpp` | done |
| 5 | `Recovery` (extends `TsdbEngine`) | WAL, manifest, crashes, `Close`, constructor | done |
| 6 | `BlockCache`, `SSTable` (extends it) | the cache; tables from builder to reader, with the Bloom filter | done |
| 7 | `EngineThreads`, `EngineThreadsProofs` | `mu_`, the condition variables, `running_`, `Flush`, `Close`, thread ends; liveness under weak fairness of each thread | done |
| 8 | `MemTable`, `TableFlush` | the skip list; its way through a flush into an SSTable | done |
| 9 | `Int64`, `Queries`, `Compression` | TTL arithmetic, the merge of `RangeQuery`, `Downsample`, varints and delta-of-delta on integers of a fixed width | done |
| 10 | `EngineFilesProofs`, `EngineReadsProofs` | the remaining invariants of `TsdbEngine` and the refinement of `EngineStore` as theorems | done |
| 11 | `WalProofs` | the invariants of `Wal` and its refinement as theorems | done |
| 12 | `RecoveryProofs` | the manifest and the files across crashes and restarts | done |
| 13 | `RecoveryWritesProofs` | the writes and the order of the layers across crashes and restarts | done |
| 14 | `TablesProofs` | TTL arithmetic, `RangeQuery` against `Get`, `Downsample` and the block cache as theorems | done |
| 15 | `TablesProofs` | the skip list, SSTables and the flush between them as theorems | done |
| 16 | `TablesProofs` | the code of timestamps as a theorem | done |

## 3. The modules and the code

### TsdbEngine

A write is the position of its insert in `log`, a history variable.  A memtable
or an SSTable is a function from keys to such positions (0 for none), so
"newer" is a comparison of numbers, and values need not be modelled.

| Variable | Code |
|---|---|
| `heap`, `imm`, `flush.table` | every `MemTable` made; `mem_` is the last, `imm_` and `to_flush` are indices |
| `usage` | `ApproximateMemoryUsage()`, in operations; `MemTableLimit` is in the same unit |
| `sst`, `disk`, `readers` | contents by file number, the files that exist, `sst_readers_` |
| `live`, `obsolete`, `pendingDelete` | `current_.level_files`, `obsolete_files_`, `pending_delete_` |
| `job`, `compactionPending` | `CompactionWork` with what `Compaction::Run` has done so far; `compaction_pending_` |
| `lock`, `writer` | which writer keeps `mu_` from one action to the next, and what it still has to do |
| `view` | each query's `ReadView` |

An action is one stretch of code under `mu_`, or one stretch outside it that
others can observe only as a whole.  `Put` and `Delete` are batches of one
operation.  A call is `Begin`, `MakeRoom`, `AppendToWal`, then `Apply` and
`MakeRoom` for each operation; `WaitForRoom` is where the condition variable
releases `mu_`.  The flush thread is `FlushTake`, `FlushBuild` (outside the
lock), `FlushPublish` or `FlushAbandon`, `FlushSchedule`; a compaction is
`BackgroundCompact` or `UserCompact`, `CompactRead`, `CompactWrite` for each
output, `CompactCommit` or `CompactAbort`.  A query captures its view, and
`Lookup` is evaluated in every state until the view is released: it is what
the query would find if it ran now.

### EngineStore and KVStore

`KVStore` is a map on which each write takes effect at once.  `EngineStore`
maps the pipeline to it: the value of a key is the first hit over `mem_`,
`imm_`, the table being flushed and the levels.

### Wal and DurableLog

The file is a sequence of fragments; what a crash leaves that is no whole
fragment is a `stub` (fewer than the 9 bytes `ReplayEntries` wants for a
header) or `torn`.  `Fits`, `ReadLength`, `ValidOffset`, `CorruptTail` and
`Keep` are the loop of `ReplayEntries`, written without recursion.
A `Restart` reads all of the log and cuts a corrupt tail, or fails to open or
to cut the file, or (`ReadShort`) gets only part of it from `fread`.  Nobody
checks that, so when the part ends in the middle of a fragment or of a record
the file is cut there, however good the rest is; `misread` has the records
that are lost in that way.  `DurableLog` is the promise: a sequence of records,
of which a crash cuts some at the end but none whose call has returned, until
a `Misread` breaks the promise for the newest.

### Recovery

`Recovery` extends `TsdbEngine`; its steps are those of the pipeline
conjoined with what they do to the WAL and the manifest, and it adds `Crash`
(between two actions), `CrashInPublish`, `CrashInCommit`, `CrashInClose` (in
the middle of one), `Close` and `Restart`.  The manifest is a sequence of
lines; `Listed` is what `RecoverFromManifest` makes of it.  A partly written
.sst is not modelled: the constructor cannot open it, or deletes it.  Two
history variables record what a crash did to the manifest.  `mangled`: it hit
one of the two places where the manifest is not written in one piece, the
snapshot in `Close` and an edit longer than the stream's buffer.  `torn`: it
left part of a line.  Replay stops at such a line, so the edits appended behind
it by later engines are lost while the files they deleted are gone, and the
next clean shutdown writes the version without them down; `ListedFilesExist`
holds only before that.

### EngineThreads

Tables and files are only counted here; what matters is who holds `mu_`, who
sleeps on which condition variable and who is left to notify them.  `at` is
where a thread is, `asleep` the wait sets.  A thread that found its condition
false keeps `mu_` until `Block` puts it into the wait set, so that `Stop` and
`NotifyAll`, which `Close` runs without `mu_`, can come in between, as in the
code.  `MakeRoom` is the loop of `MakeRoomForWriteUnlocked`, one action per
branch; `FlushTurn` is one round of `Flush()`'s loop with its timed wait, and
`Closing` the stretches of `Close`.  The flush thread waits with a timeout and
needs no notification.  A `Write` waits for room exactly as `Put` does and has
no action of its own.

### MemTable and TableFlush

`MemTable` is the skip list: `next` for every node and list, `Prev` the search
path, `Insert` the splice with any height `RandomHeight` may return.
`Walk` runs along a list to the last node below a key; that it ends is what
keeps a search out of a loop, and is part of what is proved.
`TableFlush` composes it with `SSTable`: values and tombstones of any keys, those
no memtable has included, go to a memtable, `Take` hands
its iteration to a builder, `AddNext` and `FinishTable` are the callbacks of
the flush, and then queries read the tables.

### SSTable and BlockCache

A table under construction is the sequence of entries `added`, cut into
`blocks`; keys are integers, an entry has a size, and the offset of a block is
its number.  Keys' two hashes are constants of the module, so that any overlap
of their bits can be set up.  A query is a process: `Begin` is the Bloom
filter and the search of the index, then each block is a `ReadCached` or a
`Miss` followed, after the cache's mutex was free for others, by `Fetch` or
`FetchFails`.  `BlockCache` keeps list, index and byte count apart, as the code
does, and changes each in the way of the code: `Place` is the iterator in the
index, `BytesLeft` the count while `PruneUnlocked` (`Kept`) subtracts, and
`PutFront` the second half of `Put`.  `CacheSpec` is the cache under any calls.

### Int64, Queries and Compression

`Int64` is two's complement of `WordBits` bits.  `Queries` computes what a
query makes of a `ReadView`: `IsExpiredByRule`, `Get`, the ranks and the loop
of `RangeQuery`, and the buckets of `Downsample`.  `Compression` has encoder
and decoder down to the bits in the bytes.  Both are pure; each has one
variable, the call or the series, so that TLC enumerates the inputs as states.

## 4. What is checked

| Run | Bounds | Shows |
|---|---|---|
| `reads` | 2 writers, a reader, 3 operations in batches of up to 2, 2 keys, 3 levels, TTL rules of 0 and 1 s, 1 maintenance call | queries see one prefix, in layers ordered by age; files in use are kept; nothing is lost; the memtable is bounded |
| `pipeline` | 1 writer, 3 writes to 2 keys, 3 levels, 2 calls, 1 failed I/O call anywhere | types; nothing lost, nothing leaked, no due compaction forgotten, inputs of a job stay live, ranges in level 1 disjoint |
| `refinement` | 3 puts or deletes on 2 keys, 3 levels | the pipeline implements `KVStore` |
| `wal` | 3 records of up to 3 fragments, 2 crashes with every tear, 2 failed calls (short reads and writes, syncs, opens, truncations) | a replay delivers whole records in order; a record synced into a whole log is lost to a short read only, and then with all after it; for these records `Wal` implements `DurableLog` |
| `recovery_crashes` | 3 writes to 2 keys, 2 levels, 2 crashes or shutdowns, every crash point, an edit torn at every line | unless a crash mangled the manifest only a rotation loses acknowledged writes and layers stay ordered; unless a line is torn the manifest describes the version and lists only files that exist |
| `tables` | skip list: 4 keys, heights 1 and 2, 4 puts or deletes of any key; 2 readers, 2 tables, blocks of 2 entries, a cache of 2 entries, a filter that grows at the third key, 1 unreadable block. Integers of 4 bits, bytes of 3, codes of 1, 2 and 4 bits, 4 timestamps; views of `mem_`, two files of level 0 and one of level 1 | memtables and tables return what was written, tombstones of keys that only an older table has among it, and the cache's parts agree; TTL, range queries, `Downsample` and compression agree with their definitions |
| `threads` | 2 clients, 4 calls of any kind, both background threads, 1 failed job, 1 spurious wake-up | no sleeper is forgotten; calls and `Close` return, due compactions start, rotated memtables are flushed |
| `reads_during_flush` | finds a violation | a query during the build of an SSTable misses acknowledged writes |
| `wal_stub_tail` | finds a violation | 1 to 8 bytes at the end of the WAL are not cut, and the next synced record is lost |
| `wal_short_read` | finds a violation | a replay whose read is short cuts synced records off a log that is whole |
| `recovery_rotation` | finds a violation | acknowledged writes that are only in `mem_` lose their WAL records when a flush ends |
| `recovery_close` | finds a violation | a crash after `Close` truncated the manifest makes an older version win |

**Why the bounds are enough.**  A memtable limit of one operation makes every
write rotate, so three writes are two SSTables and a memtable, or a compaction
output in level 1 or 2 below a level-0 file below a memtable: each pair of
layers that must be ordered occurs.  Trigger 2 makes compactions of several
inputs, a stop trigger of 3 with a job in progress makes writers wait.
`LevelSizeBase` 0 lets level 1 overflow, so that jobs on levels above 0 occur.
Level ranges with gaps (three keys in a file) are beyond these runs; the
proofs of section 5 cover them.  Three fragments are a first, a middle and a
last one; two crashes allow a tear behind a repaired tear, two faults a failed
append behind a failed sync, or a short read behind one.

Three keys in a table are a full block and the buffer that `Finish` writes
out, and two hash alike until the filter grows; the fourth write makes the
other table, whose block competes for the cache.  A table does not look into
its entries, so where one is a tombstone the two queries do not run next to
each other (`OneByOne`).  Height 2 is a list above the
lowest one, so that a search turns down before, at and behind its key.
Queries run when all tables are built: they touch nothing that a writer or a
builder touches.  Four bits hold a `ttl * 10^9` that overflows and one that
does not, timestamps at both ends, and deltas that wrap around; the fourth
timestamp comes after a delta of deltas.  A rank stride of 2 is the smallest
that keeps two files of a level below the next level.

In `threads`, a limit of one operation and triggers of 1 and 2 make a put
rotate, wait for the flush, wait for the compaction and be stopped.  Four
calls are two puts that fill `mem_` and `imm_`, a third that waits, and a
`Flush`, `Compact` or `Close` next to it.

**Fairness.**  Only `EngineThreads` assumes any: weak fairness of the steps of
each client that is in a call, of the flush thread and of the compaction
thread, which is what a scheduler that runs every runnable thread gives.  A
thread that wants `mu_` while others take it in turn is not promised it by
weak fairness; the calls of a behaviour are finitely many, so in the end it is
free for good.  No client is forced to call, nobody is assumed to wake up
without a notification, and no I/O call is assumed to succeed.  The timed
waits of the flush thread (100 ms) and of `Flush()` are what makes their
conditions be tested again; a `wait()` without a timeout ends by notification
only.

Two hang-ups the code does have are named in the properties and excepted from
them, so that the properties say that there is no third: `MissedNotice`, where `Close` stops the engine between the compaction
thread's test of `running_` and its wait (`engine.cpp:63`), and `Spins`, where
a `Flush` called next to or after `Close` loops with `mu_` held because nobody
is left to empty `imm_` (`engine.cpp:314`).

**Deadlock** checking is off where a run's bounds stop the system: when all
calls, writes, appends or crashes are used up nothing is left to do.  That no
thread of the engine waits for ever is what `threads` checks.

## 5. What is proved

`TsdbEngineProofs` proves `TypeCorrect`, `Spec => []TypeOK`, for every set of
writers, readers, keys and TTL arguments and all limits.  Each action has a
lemma, split by the conjuncts of `TypeOK`.

It also proves that queries may stop at the first hit,
`QueriesMayStopEarly` (`Spec => []NewestFirst`), and that no compaction is
thrown away because its inputs vanished, `InputsNeverLost`.  `NewestFirst` is
not inductive: that a commit keeps the order depends on what happened since
the job was picked.  `OrderInv` adds

- `FlushInv`: the file about to be published is a copy of its table, with a
  number above all in level 0;
- `InputsInv`: a job's inputs are still in the version, a level-0 file that is
  no input has a higher number than each input, and a level-1 file that is
  none shares no key with them;
- `OutputsInv`: each version in an output comes from an input, outputs are
  disjoint and numbered above the files of their level;
- `LevelOneInv`: no key twice in level 1;
- `IndexInv`: at most one of `imm_` and `to_flush` holds a table.

`LayersOrdered` proves `Spec => []OrderInv`; the two theorems follow.  The
assumptions are those of `TsdbEngine` on its constants, which TLC evaluates in
every run; `L0CompactionTrigger >= 1` and `MaxLevel >= 2` are what the code's
constants 4 and 7 satisfy.

The other invariants of `TsdbEngine` are proved on top of it, so that all of
those the runs `reads` and `pipeline` check hold for all values of the
constants:

- `EngineFilesProofs` gives every file one owner: `LiveInv` (the version's
  files exist, are open, belong to one level and are not condemned),
  `PinnedInv` (what a view holds exists), `OutputInv` and `FlushFileInv` (what
  a job or a flush is about to publish is its own) and, while nothing failed,
  `OwnerInv`.  Together they are inductive; `NoFileVanishes` and `NoFileLeaks`
  follow.
- It also proves `MemTableWithinLimit`, from where a writer that holds `mu_`
  has room (`RoomInv`), and `DueCompactionNotForgotten`, whose point is that
  whoever clears `compaction_pending_` starts a job, does so while a job runs
  whose end tests again, or found nothing due: what is due can be picked
  (`DueCanBePicked`). It also proves `LevelOneRangesDisjoint`: the files of
  level 1 that a job on level 0 leaves out lie on one side of all it reads
  (`JobRanges`), and its outputs are cut off one after the other
  (`OutputRanges`).
- `EngineReadsProofs` proves `NoWriteLost`.  What makes it inductive is
  `MergedInv`, between the reading of the inputs and the commit: a version the
  job does not keep is recorded as lost, or is older than what it keeps of the
  key.  The winner of a merge is the newest version because the layers are
  ordered (`OrderInv`), and the inputs are all on disk because they are owned
  (`FilesInv`).
- It proves `QueriesSeeOnePrefix`, the property a client relies on most.  A
  view on `mem_` moves on with the writes, one on a rotated memtable stands
  still (`ViewSound`); when it is captured it sees everything because no write
  is lost, the first hit is the newest (`FirstHit`, `FileHitNewest`) and every
  live file has an open reader.
- And it proves the refinement: each step of the pipeline is a step of
  `KVStore` or leaves the map as it is.  `StoreImplementsMap` assumes that no
  step drops a write (`[]NothingLost`), which failed I/O calls and TTL rules do
  on purpose; `UndisturbedStoreImplementsMap` replaces that by its causes,
  `MaxFaults = 0` and rules of 0 seconds, which is what the run `refinement`
  checks.

`EngineThreadsProofs` proves `NobodySleepsUnnoticed`
(`Spec => []SleepersHaveWakers`) for any number of clients, calls, faults and
spurious wake-ups.  Its invariant `WakersInv` says for each wait set who is
left to notify it: `FlushWaiters`, `JobWaiters` and `WorkWaiters`, with
`EndedStopped` (threads end only after `Close`) and `JobHasThread` (a job in
progress is run by somebody).

`WalProofs` proves both invariants of `Wal` and that it implements
`DurableLog`, for any fragment size, any number of records, crashes and faults.
Its invariant describes the log by its image, what is in the file followed by
what is in the stdio buffer:

- `Shape`: each fragment of the image is junk that a tear left, or ends a run
  of fragments that begins with the first of its record; the records follow
  each other in the order of their appends;
- `PendingAreWritten`: what the abstract log calls pending is in the image;
- `DownIsIdle`: nothing is buffered while the process is down.

With `WholeLogKeepsAcknowledged` they are inductive, and each action is an
append, a sync, a crash that keeps a prefix, a misread, or a stutter of
`DurableLog`.  A short read keeps a prefix of the file and `misread` takes in the records
behind it (`Behind`): so what is still promised (`Owed`) is in the prefix, and
`Misread` gives up just the others. The
lemmas about `ValidOffset` and `Keep` say what one pass of `ReplayEntries`
finds in such an image: all its whole records, and where the first fragment is
that is not whole.

`RecoveryProofs` proves `ManifestMatchesVersion` and `ListedFilesExist` for any
number of crashes, shutdowns and restarts, with `RecoveryInv`:

- `ManifestMatchesVersion` itself, which `EditLines`, `Snapshot` and a flush's
  line keep because replaying lines is a function of the lines before
  (`ListedEdit`, `ListedFlush`, `SnapshotListed`);
- `DownInv`: an engine that is down has no memory;
- `WalInv`: the WAL's records are operations in the order of the log;
- `DiskInv`: as long as no line is torn, the files are owned as in
  `EngineFilesProofs` while the engine is up, and what the manifest lists exists
  and belongs to one level while it is down.

`RecoveryWritesProofs` proves `OnlyRotationLoses`
(`RecoverySpec => []OnlyRotationLosesWrites`) and `RecoveryKeepsOrder`
(`RecoverySpec => []RecoveredLayersOrdered`), for any number of writes, keys,
levels, crashes and restarts.  Both except what a mangled manifest does, so
the invariant `SurvivalInv` holds as long as it is not.  Its parts are those
of the running engine (`OrderInv`, `VersionsInv`, `MergedInv`; `Undisturbed`
and `NothingLost`, for there are neither faults nor TTL rules) and

- `Persisted`: every operation of the history `Hist` (those applied, then those
  the WAL holds and no memtable yet) is in the WAL, or the version has it or a
  later one of its key, or a rotation has dropped its record; the version is
  the engine's while it is up and the manifest's while it is down;
- `WalTail`: the WAL's records are the last operations of that history.  So
  the table that a replay makes has the last write of each key it holds, and
  hides no later one in a file (`ReplayedIs`); that is why the layers of a new
  engine are ordered although a file may hold the same writes as its memtable;
- `StartInv`: while the engine is down the version in the manifest is ordered
  by age and has no key twice in level 1.  It is the version as it was
  (`CrashSurvives`), or as a flush or a compaction would have left it
  (`CrashInPublishSurvives`, `CrashInCommitSurvives`), or the snapshot of
  `Close`;
- `NeverEmptied` and `FilledInv`: a version that had files has files.  Only an
  empty one is replaced by whatever is on disk, and then at most one file is
  there, of a flush that was not logged.  It takes that a job has inputs, that
  no file is empty, and so that a job has outputs (`CommitHasOutputs`);
- `LockInv` and `AckedInv`: a crash inside a flush or a commit does not meet an
  append to the WAL, for both hold `mu_`; and what was acknowledged was made.

`LiveSurvives` takes the parts over a step of the running engine and
`StopSurvives` over the end of a process, given what the manifest lists then;
`RestartSurvives` is the constructor.

`TablesProofs` is about what a query uses below the pipeline.

- `RulesExpireByAge` (`QueriesSpec => []TtlExpiresByAge`): as long as the
  rule's seconds fit in nanoseconds and the newest timestamp is not negative,
  nothing wraps around in `IsExpiredByRule` and its test is the one on ages,
  for every width and timestamp, those at the ends of `int64_t` included.
- `RangesAgreeWithGets` (`QueriesSpec => []RangeQueryAgreesWithGet`): the
  ranks of `RangeQuery` order the layers as `Get` searches them
  (`RanksOrderLayers`), so the first of the sorted versions of a timestamp is
  the first hit.  `LayersAssumption` says that no level has as many files as
  separate the ranks of two levels, 100000 in the code.
- `CacheAccounts` (`CacheSpec(K, V) => []CacheAccountsForItsEntries`, for any
  keys `K` and blocks `V`): `tables` checks the same with the calls that
  `SSTable` makes, which are `CacheGet` and `CachePut` with some charge.  The
  lemmas say what taking out an entry, adding one in front and cutting the
  list do to its keys and to the sum of its charges.  That the sum is defined
  at all, grows and is unique (`SumExists`, `SumGrows`, `SumUnique`) is
  induction, done by a least counterexample.
- `SharedCacheAccountsForIt` is the same of the cache the readers of all tables
  share.
- `MemTableFindsIt` (`FlushSpec => []MemTableFindsWhatWasWritten`), for any
  keys, any number of lists and any heights of the nodes.  `MemInv` says that
  each list is a chain (`Chain`): from each node the next one is the smallest
  above it, so that a search cannot run in a circle or past a key.  The keys of
  an upper list are in the one below (`Linked`), and the lowest has all of
  them.  `PrevIs` follows a search down, list by list, to the last node below
  the key; `Spliced` nodes leave chains.
- `TableQueriesFindIt` (`FlushSpec => []QueriesFindWhatWasAdded`) and
  `FlushedQueriesFindIt` (`FlushSpec => []QueriesFindWhatWasWritten`), for any
  entries, sizes, hashes, caches and readers.  `TablesInv` says that blocks and
  buffer have ascending keys, none out of order from one block to the next
  (`Built`), and that the filter knows all of them; so the index leads to the
  first block that can have the key, and the search ends at the first beyond
  the range.  `QueryInv` is what a query has found before block i: all that the
  blocks below i have in its range, or less when a block could not be read.
  `CachedInv` says that what the shared cache holds under a table and an offset
  is that block, and stays so while tables are only added.  `FlushInv` follows
  a memtable's entries through the builder: those added and those to come are
  what was written.
- `DownsampleCountsOnce` (`QueriesSpec => []DownsamplePartitionsRange`), for
  every interval for which `t_end + interval` fits into `int64_t`: each record
  of the range is in one bucket, that of its distance from `t_start`.  The
  loop's bucket starts are the multiples of the interval behind `t_start`
  (`AreMultiples`), each holds what lies between two of them (`HasBuckets`), and
  the records between two of them are those of one quotient (`Partitions`).
- `TimestampsSurvive` (`CompressionSpec => []DecodesWhatWasEncoded`), for any
  width of the integers, of a byte and of the codes, and for series as long as
  their count fits into a word.  A varint's bytes are its quotients by `More`
  (`IsVarint`, `DecodeVarintIs`), a byte's bits those written (`ByteIs`,
  `BitAtIs`), and the bits of each of the four codes give its delta of deltas
  back but for multiples of 2^`WordBits` (`DodAtIs`), which the conversions
  drop (`Same`).  `Written` says where in the bytes each code is; with it, the
  decoder's state before each step is that of the encoder (`NextStateIs`).

The decoders, encoders, walks and sums are recursive functions.  That such a
function exists and computes what its equation says is proved once, for any
function whose argument gets smaller in some measure (`RecursionExists`); what
it computes then follows by `Descent`, `Upward` or `Downward`.  All of them rest
on the least counterexample (`LeastExists`), where the library has only rules
with an operator as a parameter.

The proofs rest on the assumptions of the modules on their constants, and on
nothing else.  `PowersAssumption` of `TsdbEngine` (a power of two is a natural
number), `WordPowersAssumption` of `Int64` (so is half of one) and
`CodePowersAssumption` of `Compression` (the next power is the base times the
last) are arithmetic for which the provers have no rule; TLC evaluates them.
`NodesAssumption` places the skip list's head below and its end above all keys,
where the code compares pointers; `QueriesAssumption` says that queries ask for
the keys a flush writes out, those from timestamp 0 on (`memtable.cpp:104`).

**Only model-checked** is liveness, in `EngineThreads`: TLAPS proves neither
what fairness gives nor `ENABLED`.  The invariants and action properties of the
passing runs are all theorems, and so are both refinements, that of the
pipeline under the hypotheses named above.

No module declares a `RECURSIVE` operator.

## 6. What is not modelled

- **Power failure** beyond the WAL: neither SSTables nor the manifest are ever
  fsynced, so nothing is promised.  `Recovery` loses only the process.
- **`sync_wal = false`**: an acknowledged write may then be lost by design.
- **Legacy WAL records**, and checksums that collide.
- **A torn manifest line that still parses** (its last number cut short), and
  measurement names that the text format cannot hold (empty, or with blanks).
- **What a short read at replay does to the engine that reads**: `Wal` has what
  it does to the log.  When it ends between two records the log is kept, but
  the engine of that life gets no records from behind it.  Failures of `fseek`
  and `ftell` (`wal.cpp:167`) are not modelled.
- **I/O errors in `Recovery`**; in `TsdbEngine` a failed `LogAndApply` has no
  effect, although the code can fail after the edit is in the file (`CURRENT`).
- **The loss of TTL rules at a restart**: they live in memory only, by design.
- **A write whose sync failed**: it returned an error, and a replay may still
  deliver it.  `Wal` has these records (they count as not acknowledged);
  `Recovery` does not.
- **Values and aggregates**: a write is its position in the history; the
  floating-point reductions of `Downsample` are not modelled, its buckets are.
- **`Downsample` at the end of the range of `int64_t`**: when `t_end +
  interval` overflows, the loop over buckets wraps around
  (`engine.cpp:252`); `AskDownsample` excludes it.
- **`wal_.Close()` outside `mu_`** (`engine.cpp:80`) next to a writer that is
  appending: a data race on the `FILE*`, of which `EngineThreads` keeps only
  that the append succeeds or fails.
- **Keys a scan misses by its sentinels**: `MakeSSTReader` takes `"\xFF"` as
  the upper end of measurements (`engine.cpp:387`), and an empty measurement
  below timestamp 0 is not flushed (`memtable.cpp:104`; the model has it,
  `MemTableFindsWhatWasWritten` says so).
- CRC32, random access files, status values: pure functions or pure I/O.
- **In `SSTable`**: the bytes of the format, failures of `Finish` and `Open`,
  and `MinKey`/`MaxKey`, which an unreadable first block leaves at its default
  (`sstable.cpp:226`); in `BlockCache`, `Clear`, which the engine never calls.
- **In `Compression`**: decoding of bytes that no encoder wrote.

Weaknesses that the models have and no run is made for; the properties next to
them except them by name:

- An edit of the manifest longer than the stream's buffer goes out in several
  writes, the deletions first (`version.cpp:85`).  `RecoveryClose.cfg` with
  `CrashPoints = {"commit"}`, `ManifestBuffer = 1`, `Timestamps = {1, 2}` and
  two writes shows a write lost to it; `mangled` excludes it from
  `OnlyRotationLosesWrites`.
- A short `fwrite` leaves part of a record in the buffer of the WAL, behind
  which later records, synced or not, cannot be replayed (`wal.cpp:139`).
  `WalStubTail.cfg` with `MaxCrashes = 0` and `MaxFaults = 1` shows it; the
  records are not `trusted`.
- `Close` may come between the compaction thread's test of `running_` and its
  wait, and join it for ever (`engine.cpp:63`, `MissedNotice`); one client that
  opens and closes the engine is enough.
- A `Flush` called next to `Close` may loop for ever (`engine.cpp:314`, `Spins`).
- Keys below `TsKey{}` are in a memtable but not in its flush
  (`memtable.cpp:104`).

And two observations: an engine whose version is empty loads every .sst there
is into level 0 (`engine.cpp:749`), also those a compaction has replaced; and a
key whose newest version a compaction filtered out is read in an older version
once `SetTTL` relaxes the rule.

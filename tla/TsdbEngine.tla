----------------------------- MODULE TsdbEngine -----------------------------
(***************************************************************************)
(* The in-memory LSM pipeline of mini-tsdb during one life of the process: *)
(* writers filling the mutable memtable (Put, Delete, Write), its rotation *)
(* to the immutable memtable, the flush thread, leveled compaction (the    *)
(* compaction thread and the user's Compact), the current version, the     *)
(* deferred deletion of obsolete SSTables, TTL rules, and the read views   *)
(* of Get and RangeQuery, which are used after the engine lock mu_ is      *)
(* released.                                                               *)
(*                                                                         *)
(* A write is named by its position in `log', the history of the inserts   *)
(* into memtables; a memtable or an SSTable maps each key to the position  *)
(* of the write it holds (0: none).  One action is one stretch of code run *)
(* under mu_, or one stretch run outside it that others can observe only   *)
(* as a whole.  The WAL and the manifest on disk are not in this module.   *)
(***************************************************************************)
EXTENDS Integers, Sequences, FiniteSets

CONSTANTS
  Measurements,         \* measurement names, numbered in string order
  Timestamps,           \* a finite set of int64_t
  EntryTypes,           \* "kValue", "kDeletion"
  MinTimestamp,         \* INT64_MIN, "no write seen yet"
  SecondNanos,          \* 1000000000LL, in the unit of Timestamps
  Writers,              \* threads in Put, Delete or Write
  Readers,              \* threads in Get, RangeQuery or Downsample
  NoThread,             \* mu_ is free
  MemTableLimit,        \* memtable_limit_, counted in operations
  L0CompactionTrigger,  \* kL0CompactionTrigger
  L0StopTrigger,        \* kL0StopTrigger
  MaxLevel,             \* Version::kMaxLevel
  LevelSizeBase,        \* kLevelSizeBase, counted in entries
  TtlSeconds,           \* arguments of SetTTL
  MaxWrites,            \* bound: operations written in a behaviour
  MaxBatch,             \* bound: operations of one WriteBatch
  MaxCalls,             \* bound: calls of Flush, Compact,
                        \*   CleanupObsoleteFiles and SetTTL
  MaxFaults             \* bound: failed I/O calls

ASSUME KeysAssumption ==
  /\ Measurements \subseteq Int /\ Timestamps \subseteq Int
  /\ MinTimestamp \in Int /\ SecondNanos \in Int /\ TtlSeconds \subseteq Int
  /\ \A t \in Timestamps : MinTimestamp < t
ASSUME ThreadsAssumption == NoThread \notin Writers
ASSUME LimitsAssumption ==
  /\ {MemTableLimit, L0CompactionTrigger} \subseteq Nat \ {0}
  /\ {L0StopTrigger, LevelSizeBase} \subseteq Nat
  /\ MaxLevel \in Nat /\ MaxLevel > 1
\* Arithmetic that the provers have no rule for.
ASSUME PowersAssumption == \A l \in 0 .. MaxLevel : 2 ^ l \in Nat
ASSUME BoundsAssumption ==
  {MaxWrites, MaxBatch, MaxCalls, MaxFaults} \subseteq Nat

VARIABLES
  log,                \* history: the inserts into memtables, in order
  issued,             \* operations handed to writers so far (bound)
  calls,              \* maintenance calls so far (bound)
  faults,             \* I/O failures so far (bound)
  dropped,            \* history: writes removed by TTL or by failed I/O
  heap,               \* every memtable made so far; mem_ is the last one
  usage,              \* mem_->ApproximateMemoryUsage(), in operations
  imm,                \* imm_: index in heap, 0 for nullptr
  flush,              \* FlushThread: pc, to_flush (index in heap), file_num
  sst,                \* contents of SSTable n; NewFileNumber is Len + 1
  live,               \* current_.level_files: file numbers per level
  readers,            \* sst_readers_, by file number
  disk,               \* file numbers of the .sst files on disk
  obsolete,           \* VersionManager::obsolete_files_
  pendingDelete,      \* pending_delete_
  job,                \* the compaction in progress, if any
  compactionPending,  \* compaction_pending_
  ttl,                \* ttl_map_
  lock,               \* the writer that keeps mu_ from step to step
  writer,             \* each writer: pc and the operations still to apply
  view                \* each reader's ReadView

vars == <<log, issued, calls, faults, dropped, heap, usage, imm, flush, sst,
          live, readers, disk, obsolete, pendingDelete, job,
          compactionPending, ttl, lock, writer, view>>

memVars == <<log, issued, heap, usage, imm, lock, writer>>
versionVars == <<sst, live, readers, disk, obsolete, pendingDelete>>
jobVars == <<job, compactionPending>>
-----------------------------------------------------------------------------
Key == Measurements \X Timestamps
Op == [key : Key, type : EntryTypes]
Levels == 0 .. MaxLevel - 1
Files == 1 .. Len(sst)
Content == [Key -> 0 .. Len(log)]
Nothing == [k \in Key |-> 0]
NoTtl == [m \in Measurements |-> [ttl |-> 0, latest |-> MinTimestamp]]
NoFiles == [l \in Levels |-> {}]
NoReadView == [active |-> FALSE, mem |-> 0, imm |-> 0, files |-> NoFiles,
               ttl |-> NoTtl, since |-> 0, flushing |-> 0]
NoJob == [pc |-> "none", background |-> FALSE, cleanup |-> FALSE, level |-> 0,
          upper |-> {}, lower |-> {}, ttl |-> NoTtl, merged |-> Nothing,
          left |-> {}, out |-> {}, lost |-> {}]

\* TsKeyComparator: by measurement, then by timestamp.
KeyLess(a, b) == a[1] < b[1] \/ (a[1] = b[1] /\ a[2] < b[2])

Entries(c) == {c[k] : k \in Key} \ {0}
KeysHeld(c) == {k \in Key : c[k] # 0}
KeysIn(f) == KeysHeld(sst[f])
KeysOf(F) == UNION {KeysIn(f) : f \in F}

OverlapsStrictly(f, F) ==  \* mutant
  /\ \E a \in KeysIn(f), b \in KeysOf(F) : KeyLess(a, b)
  /\ \E a \in KeysIn(f), b \in KeysOf(F) : KeyLess(b, a)

\* [smallest, largest] of file f meets the range spanned by the files F.
Overlaps(f, F) ==
  /\ \E a \in KeysIn(f), b \in KeysOf(F) : ~KeyLess(a, b)
  /\ \E a \in KeysIn(f), b \in KeysOf(F) : ~KeyLess(b, a)

IsExpired(rule, t) ==
  /\ rule.ttl > 0
  /\ rule.latest # MinTimestamp
  /\ t < rule.latest - rule.ttl * SecondNanos

Init ==
  /\ log = <<>> /\ issued = 0 /\ calls = 0 /\ faults = 0 /\ dropped = {}
  /\ heap = <<Nothing>> /\ usage = 0 /\ imm = 0
  /\ flush = [pc |-> "idle", table |-> 0, file |-> 0]
  /\ sst = <<>> /\ live = NoFiles
  /\ readers = {} /\ disk = {} /\ obsolete = {} /\ pendingDelete = {}
  /\ job = NoJob /\ compactionPending = FALSE
  /\ ttl = NoTtl
  /\ lock = NoThread
  /\ writer = [w \in Writers |-> [pc |-> "idle", ops |-> <<>>]]
  /\ view = [r \in Readers |-> NoReadView]
-----------------------------------------------------------------------------
(* Writers.                                                                *)

Fail == faults < MaxFaults /\ faults' = faults + 1
Call == calls < MaxCalls /\ calls' = calls + 1

FlushInProgress == flush.pc \in {"build", "publish", "abandon"}

\* ShouldStopWritesUnlocked
ShouldStopWrites ==
  job.pc # "none" /\ Cardinality(live[0]) >= L0StopTrigger

MemTableFullLate == usage > MemTableLimit  \* mutant
MemTableFull == usage >= MemTableLimit

CanRotateOverImm == ~FlushInProgress  \* mutant
CanRotate == imm = 0 /\ ~FlushInProgress

RoomForWrite == ~ShouldStopWrites /\ (MemTableFull => CanRotate)

\* imm_ = std::move(mem_); mem_ = std::make_shared<MemTable>()
Rotate ==
  /\ imm' = Len(heap)
  /\ heap' = Append(heap, Nothing)
  /\ usage' = 0

\* A Put or Delete is called (a batch of one) or a Write.
Begin(w, ops) ==
  /\ writer[w].pc = "idle"
  /\ issued + Len(ops) <= MaxWrites
  /\ issued' = issued + Len(ops)
  /\ writer' = [writer EXCEPT ![w] = [pc |-> "begin", ops |-> ops]]
  /\ UNCHANGED <<log, heap, usage, imm, lock, faults, dropped, flush>>
  /\ UNCHANGED <<calls, view, versionVars, jobVars, ttl>>

\* MakeRoomForWriteUnlocked returns: before the append, then after each
\* operation; after the last one the call returns and releases mu_.
MakeRoom(w) ==
  /\ writer[w].pc \in {"begin", "applied"}
  /\ lock \in {NoThread, w}
  /\ RoomForWrite
  /\ IF MemTableFull THEN Rotate ELSE UNCHANGED <<heap, usage, imm>>
  /\ IF writer[w].ops = <<>>
       THEN /\ writer' = [writer EXCEPT ![w].pc = "idle"]
            /\ lock' = NoThread
       ELSE /\ writer' = [writer EXCEPT ![w].pc =
                            IF @ = "begin" THEN "append" ELSE "apply"]
            /\ lock' = w
  /\ UNCHANGED <<log, issued, faults, dropped, flush, calls, view>>
  /\ UNCHANGED <<versionVars, jobVars, ttl>>

\* It waits instead, on flush_done_cv_ or compaction_done_cv_: mu_ is
\* released, in the middle of a batch too.
WaitForRoom(w) ==
  /\ writer[w].pc = "applied" /\ lock = w
  /\ ~RoomForWrite
  /\ lock' = NoThread
  /\ UNCHANGED <<log, issued, heap, usage, imm, writer, faults, dropped>>
  /\ UNCHANGED <<flush, calls, view, versionVars, jobVars, ttl>>

\* The WAL append (and the sync) of the whole call, which may fail.
AppendToWal(w) ==
  /\ writer[w].pc = "append"
  /\ \/ /\ writer' = [writer EXCEPT ![w].pc = "apply"]
        /\ UNCHANGED <<faults, lock>>
     \/ /\ Fail
        /\ writer' = [writer EXCEPT ![w] = [pc |-> "idle", ops |-> <<>>]]
        /\ lock' = NoThread
  /\ UNCHANGED <<log, issued, heap, usage, imm, dropped, flush, calls, view>>
  /\ UNCHANGED <<versionVars, jobVars, ttl>>

\* MemTable::Put or ::Delete, then UpdateLatestTimestampUnlocked.
Apply(w) ==
  /\ writer[w].pc = "apply"
  /\ LET op == Head(writer[w].ops) IN
     /\ log' = Append(log, op)
     /\ heap' = [heap EXCEPT ![Len(heap)][op.key] = Len(log) + 1]
     /\ ttl' = [ttl EXCEPT ![op.key[1]].latest =
                  IF op.key[2] > @ THEN op.key[2] ELSE @]
  /\ usage' = usage + 1
  /\ writer' = [writer EXCEPT ![w] = [pc |-> "applied", ops |-> Tail(@.ops)]]
  /\ UNCHANGED <<issued, imm, lock, faults, dropped, flush, calls, view>>
  /\ UNCHANGED <<versionVars, jobVars>>

\* The body of Flush()'s loop; its waits are conditions of this guard.
UserFlush ==
  /\ Call /\ lock = NoThread
  /\ heap[Len(heap)] # Nothing /\ CanRotate
  /\ Rotate
  /\ UNCHANGED <<log, issued, lock, writer, faults, dropped, flush, view>>
  /\ UNCHANGED <<versionVars, jobVars, ttl>>
-----------------------------------------------------------------------------
(* The flush thread.                                                       *)

\* to_flush = std::move(imm_); flush_in_progress_ = true
FlushTake ==
  /\ flush.pc = "idle" /\ lock = NoThread /\ imm # 0
  /\ flush' = [pc |-> "build", table |-> imm, file |-> 0]
  /\ imm' = 0
  /\ UNCHANGED <<log, issued, heap, usage, lock, writer, faults, dropped>>
  /\ UNCHANGED <<calls, view, versionVars, jobVars, ttl>>

NewFileNumberSkipped == Len(sst) + 2  \* mutant
NewFileNumber == Len(sst) + 1

\* Outside mu_: NewFileNumber, SSTableBuilder, SSTableReader::Open.  When
\* the build or the Open fails a file may be left behind.
FlushBuild ==
  /\ flush.pc = "build"
  /\ sst' = Append(sst, heap[flush.table])
  /\ \/ /\ disk' = disk \cup {NewFileNumber}
        /\ flush' = [flush EXCEPT !.pc = "publish", !.file = NewFileNumber]
        /\ UNCHANGED faults
     \/ /\ Fail
        /\ disk' \in {disk, disk \cup {NewFileNumber}}
        /\ flush' = [flush EXCEPT !.pc = "abandon"]
  /\ UNCHANGED <<live, readers, obsolete, pendingDelete, dropped, calls, view>>
  /\ UNCHANGED <<memVars, jobVars, ttl>>

\* LogAndApply, whose result is ignored, then sst_readers_.push_back; the
\* flush is over and imm_ may be set again.
FlushPublish ==
  /\ flush.pc = "publish" /\ lock = NoThread
  /\ \/ /\ live' = [live EXCEPT ![0] = @ \cup {flush.file}]
        /\ UNCHANGED <<faults, dropped>>
     \/ /\ Fail
        /\ dropped' = dropped \cup Entries(sst[flush.file])
        /\ UNCHANGED live
  /\ readers' = readers \cup {flush.file}
  /\ flush' = [pc |-> "schedule", table |-> 0, file |-> 0]
  /\ UNCHANGED <<sst, disk, obsolete, pendingDelete, calls, view>>
  /\ UNCHANGED <<memVars, jobVars, ttl>>

\* The build failed: to_flush is forgotten all the same.
FlushAbandon ==
  /\ flush.pc = "abandon" /\ lock = NoThread
  /\ dropped' = dropped \cup Entries(heap[flush.table])
  /\ flush' = [pc |-> "schedule", table |-> 0, file |-> 0]
  /\ UNCHANGED <<faults, calls, view, memVars, versionVars, jobVars, ttl>>

LevelSize(lv, l) == Cardinality({e \in lv[l] \X Key : sst[e[1]][e[2]] # 0})

OverLimit(lv, l) == LevelSize(lv, l) > LevelSizeBase * 2^l

\* ShouldScheduleCompactionUnlocked, once compaction_in_progress_ is false.
ShouldSchedule(lv) ==
  \/ Cardinality(lv[0]) >= L0CompactionTrigger
  \/ \E l \in 1 .. MaxLevel - 2 : OverLimit(lv, l)

\* compacting_files_
Compacting == job.upper \cup job.lower

\* MaybeScheduleCompaction
FlushSchedule ==
  /\ flush.pc = "schedule" /\ lock = NoThread
  /\ flush' = [flush EXCEPT !.pc = "idle"]
  /\ compactionPending' =
       \/ compactionPending
       \/ job.pc = "none" /\ ShouldSchedule(live)
       \/ /\ job.pc # "none"
          /\ Cardinality(live[0] \ Compacting) >= L0CompactionTrigger
  /\ UNCHANGED <<job, faults, dropped, calls, view, memVars, versionVars, ttl>>
-----------------------------------------------------------------------------
(* Compaction.                                                             *)

CompactL0(force) ==
  live[0] # {} /\ (force \/ Cardinality(live[0]) >= L0CompactionTrigger)

\* The level PickCompactionWorkUnlocked compacts; the lowest one in need.
CompactLevel(force, l) ==
  /\ l \in 0 .. MaxLevel - 2
  /\ IF l = 0 THEN CompactL0(force)
     ELSE /\ ~CompactL0(force)
          /\ OverLimit(live, l)
          /\ \A i \in 1 .. l - 1 : ~OverLimit(live, i)

CanCompact(force) == \E l \in Levels : CompactLevel(force, l)

StartJobNewestOnly(l, background, cleanup) ==  \* mutant
  job' = [NoJob EXCEPT
            !.pc = "read", !.background = background, !.cleanup = cleanup,
            !.level = l, !.ttl = ttl,
            !.upper = {f \in live[l] : \A g \in live[l] : g <= f},
            !.lower = IF l = 0 THEN {f \in live[1] : Overlaps(f, live[0])}
                      ELSE {}]

StartJobLevelOff(l, background, cleanup) ==  \* mutant
  job' = [NoJob EXCEPT
            !.pc = "read", !.background = background, !.cleanup = cleanup,
            !.level = l, !.upper = live[l], !.ttl = ttl,
            !.lower = IF l = 0 THEN {f \in live[2] : Overlaps(f, live[0])}
                      ELSE {}]

\* MarkCompactionJobStartedUnlocked: all of level l, and below level 0 the
\* files of level 1 that meet its range.
StartJob(l, background, cleanup) ==
  job' = [NoJob EXCEPT
            !.pc = "read", !.background = background, !.cleanup = cleanup,
            !.level = l, !.upper = live[l], !.ttl = ttl,
            !.lower = IF l = 0 THEN {f \in live[1] : Overlaps(f, live[0])}
                      ELSE {}]

\* CompactionThread, idle, finds compaction_pending_ set; it clears it even
\* when a user's compaction is in progress.
BackgroundCompact ==
  /\ lock = NoThread /\ compactionPending /\ ~job.background
  /\ IF job.pc = "none" /\ CanCompact(FALSE)
       THEN \E l \in Levels : CompactLevel(FALSE, l) /\ StartJob(l, TRUE, TRUE)
       ELSE UNCHANGED job
  /\ compactionPending' = FALSE
  /\ UNCHANGED <<flush, faults, dropped, calls, view>>
  /\ UNCHANGED <<memVars, versionVars, ttl>>

\* The readers' shared_ptr, beside pending_delete_'s own.
Pinned ==
  {f \in Files : \E r \in Readers, l \in Levels : f \in view[r].files[l]}

TryDeletePendingAtOnce(P) ==  \* mutant
  /\ pendingDelete' = {}
  /\ disk' = disk \ P

\* TryDeletePendingFilesUnlocked, over the entries P.
TryDeletePending(P) ==
  /\ pendingDelete' = P \cap Pinned
  /\ disk' = disk \ (P \ Pinned)

CleanupForgets(old, open) ==  \* mutant
  /\ obsolete' = {}
  /\ readers' = open \ old
  /\ TryDeletePending(pendingDelete)

\* CleanupObsoleteFilesUnlocked, given obsolete_files_ and sst_readers_.
Cleanup(old, open) ==
  /\ obsolete' = {}
  /\ readers' = open \ old
  /\ TryDeletePending(pendingDelete \cup old)

\* Compact(cleanup_obsolete) past its wait for the job in progress.
UserCompact(cleanup) ==
  /\ Call /\ lock = NoThread /\ job.pc = "none"
  /\ IF CanCompact(TRUE)
       THEN /\ \E l \in Levels :
                 CompactLevel(TRUE, l) /\ StartJob(l, FALSE, cleanup)
            /\ compactionPending' = FALSE
            /\ UNCHANGED <<pendingDelete, disk>>
       ELSE /\ TryDeletePending(pendingDelete)
            /\ UNCHANGED jobVars
  /\ UNCHANGED <<sst, live, readers, obsolete, flush, faults, dropped, view>>
  /\ UNCHANGED <<memVars, ttl>>

CleanupObsoleteFiles ==
  /\ Call /\ lock = NoThread
  /\ Cleanup(obsolete, readers)
  /\ UNCHANGED <<sst, live, flush, faults, dropped, view>>
  /\ UNCHANGED <<memVars, jobVars, ttl>>

\* Input f has the winning rank for key k: upper-level inputs rank above
\* the lower ones, then by file number.
Wins(f, F, k) ==
  /\ sst[f][k] # 0
  /\ \A g \in F : \/ sst[g][k] = 0
                  \/ f \in job.upper /\ g \in job.lower
                  \/ (f \in job.upper <=> g \in job.upper) /\ g <= f

Winner(F, k) == CHOOSE f \in F : Wins(f, F, k)

MergeWithoutTtl(F) ==  \* mutant
  [k \in Key |->
     IF k \notin KeysOf(F) \/ k[2] < job.ttl[k[1]].latest THEN 0
     ELSE sst[Winner(F, k)][k]]

MergeDropsTombstones(F) ==  \* mutant
  [k \in Key |->
     IF k \notin KeysOf(F) THEN 0
     ELSE IF log[sst[Winner(F, k)][k]].type = "kDeletion" THEN 0
     ELSE sst[Winner(F, k)][k]]

\* One version per key survives, the expired ones are filtered out first.
Merge(F) ==
  [k \in Key |->
     IF k \notin KeysOf(F) \/ IsExpired(job.ttl[k[1]], k[2]) THEN 0
     ELSE sst[Winner(F, k)][k]]

\* The versions a compaction drops: those of the inputs it could not read,
\* and the expired ones.
Lost(F, unreadable) ==
  {sst[f][k] : f \in unreadable, k \in Key}
    \cup {sst[f][k] : f \in F,
                      k \in {x \in Key : IsExpired(job.ttl[x[1]], x[2])}}

\* Compaction::Run reads its inputs by file name; one that is missing or
\* that cannot be opened yields no record.
CompactRead ==
  /\ job.pc = "read"
  /\ \E unreadable \in SUBSET (Compacting \cap disk) :
       LET F == (Compacting \cap disk) \ unreadable
       IN /\ IF unreadable = {} THEN UNCHANGED faults ELSE Fail
          /\ job' = [job EXCEPT !.pc = "write", !.merged = Merge(F),
                                !.left = KeysHeld(Merge(F)),
                                !.lost = Lost(F, unreadable)]
  /\ UNCHANGED <<compactionPending, flush, dropped, calls, view>>
  /\ UNCHANGED <<memVars, versionVars, ttl>>

\* The next output file: a first stretch of the records left, of a length
\* that depends on target_file_size_ and the sizes of the values.
CompactWrite ==
  /\ job.pc = "write" /\ job.left # {}
  /\ \E P \in (SUBSET job.left) \ {{}} :
       /\ \A a \in P, b \in job.left \ P : KeyLess(a, b)
       /\ sst' = Append(sst, [k \in Key |->
                                IF k \in P THEN job.merged[k] ELSE 0])
       /\ job' = [job EXCEPT !.left = @ \ P, !.out = @ \cup {NewFileNumber}]
  /\ disk' = disk \cup {NewFileNumber}
  /\ UNCHANGED <<live, readers, obsolete, pendingDelete, compactionPending>>
  /\ UNCHANGED <<flush, faults, dropped, calls, view, memVars, ttl>>

\* Finish or Open of an output fails.  Only after an Open failure is the
\* file in new_files; the file a failed Finish left is deleted by nobody.
CompactWriteFails ==
  /\ job.pc = "write" /\ job.left # {}
  /\ Fail
  /\ sst' = Append(sst, Nothing)
  /\ disk' \in {disk, disk \cup {NewFileNumber}}
  /\ \E listed \in SUBSET {NewFileNumber} :
       job' = [job EXCEPT !.pc = "failed", !.out = @ \cup listed]
  /\ UNCHANGED <<live, readers, obsolete, pendingDelete, compactionPending>>
  /\ UNCHANGED <<flush, dropped, calls, view, memVars, ttl>>

\* IsCompactionInputValidUnlocked
InputsValid ==
  /\ job.upper \subseteq live[job.level]
  /\ job.lower \subseteq live[job.level + 1]

Finished ==
  job.pc = "failed" \/ (job.pc = "write" /\ job.left = {})

EndJobQuietly ==  \* mutant
  job' = NoJob /\ UNCHANGED compactionPending

\* MarkCompactionJobFinishedUnlocked, then the test for another round.
EndJob ==
  /\ job' = NoJob
  /\ compactionPending' = (compactionPending \/ ShouldSchedule(live'))

\* RunCompactionWork: LogAndApply succeeds.
CompactCommit ==
  /\ lock = NoThread /\ Finished /\ job.pc # "failed" /\ InputsValid
  /\ live' = [live EXCEPT ![job.level] = @ \ job.upper,
                          ![job.level + 1] = (@ \ job.lower) \cup job.out]
  /\ IF job.cleanup
       THEN Cleanup(obsolete \cup Compacting, readers \cup job.out)
       ELSE /\ obsolete' = obsolete \cup Compacting
            /\ readers' = readers \cup job.out
            /\ UNCHANGED <<pendingDelete, disk>>
  /\ dropped' = dropped \cup job.lost
  /\ EndJob
  /\ UNCHANGED <<sst, flush, faults, calls, view, memVars, ttl>>

FilesToDeleteAll == job.out \cup Compacting  \* mutant
FilesToDelete == job.out

\* The job failed, its inputs are gone or LogAndApply fails: the outputs
\* are deleted.
CompactAbort ==
  /\ lock = NoThread /\ Finished
  /\ IF job.pc = "failed" \/ ~InputsValid THEN UNCHANGED faults ELSE Fail
  /\ disk' = disk \ FilesToDelete
  /\ live' = live
  /\ EndJob
  /\ UNCHANGED <<sst, readers, obsolete, pendingDelete>>
  /\ UNCHANGED <<flush, dropped, calls, view, memVars, ttl>>
-----------------------------------------------------------------------------
(* TTL rules and read views.                                               *)

SetTTL(m, seconds) ==
  /\ Call /\ lock = NoThread
  /\ ttl' = [ttl EXCEPT ![m].ttl = seconds]
  /\ UNCHANGED <<flush, faults, dropped, view, memVars, versionVars, jobVars>>

\* CaptureReadView: files without an open reader are left out.  `since' and
\* `flushing' are history: the log, and the table the flush thread holds.
CaptureReadView(r) ==
  /\ ~view[r].active /\ lock = NoThread
  /\ view' = [view EXCEPT ![r] =
       [active |-> TRUE, mem |-> Len(heap), imm |-> imm,
        files |-> [l \in Levels |-> live[l] \cap readers], ttl |-> ttl,
        since |-> Len(log), flushing |-> flush.table]]
  /\ UNCHANGED <<calls, flush, faults, dropped, memVars, versionVars>>
  /\ UNCHANGED <<jobVars, ttl>>

\* The query returns and its ReadView is destroyed.
ReleaseReadView(r) ==
  /\ view[r].active
  /\ view' = [view EXCEPT ![r] = NoReadView]
  /\ UNCHANGED <<calls, flush, faults, dropped, memVars, versionVars>>
  /\ UNCHANGED <<jobVars, ttl>>
-----------------------------------------------------------------------------
Batches == UNION {[1 .. n -> Op] : n \in 1 .. MaxBatch}

Write(w) ==
  \/ \E ops \in Batches : Begin(w, ops)
  \/ MakeRoom(w) \/ WaitForRoom(w) \/ AppendToWal(w) \/ Apply(w)

FlushThread ==
  FlushTake \/ FlushBuild \/ FlushPublish \/ FlushAbandon \/ FlushSchedule

Compact ==
  \/ BackgroundCompact
  \/ \E cleanup \in BOOLEAN : UserCompact(cleanup)
  \/ CleanupObsoleteFiles
  \/ CompactRead \/ CompactWrite \/ CompactWriteFails
  \/ CompactCommit \/ CompactAbort

Read(r) == CaptureReadView(r) \/ ReleaseReadView(r)

Next ==
  \/ \E w \in Writers : Write(w)
  \/ UserFlush
  \/ FlushThread
  \/ Compact
  \/ \E m \in Measurements, s \in TtlSeconds : SetTTL(m, s)
  \/ \E r \in Readers : Read(r)

Spec == Init /\ [][Next]_vars
-----------------------------------------------------------------------------
(* Properties.                                                             *)

FileNumbers == SUBSET Files
TtlRule == [ttl : Int, latest : Timestamps \cup {MinTimestamp}]
TtlMap == [Measurements -> TtlRule]
LevelFiles == [Levels -> FileNumbers]

WriterState ==
  {s \in [pc : {"idle", "begin", "append", "apply", "applied"},
          ops : Seq(Op)] :
     s.pc \in {"append", "apply"} => s.ops # <<>>}

WritesTypeOK ==
  /\ log \in Seq(Op) /\ issued \in Nat /\ calls \in Nat /\ faults \in Nat
  /\ dropped \subseteq 0 .. Len(log)
  /\ ttl \in TtlMap
  /\ lock \in Writers \cup {NoThread}
  /\ writer \in [Writers -> WriterState]
FlushState ==
  {s \in [pc : {"idle", "build", "publish", "abandon", "schedule"},
          table : 0 .. Len(heap), file : 0 .. Len(sst)] :
     /\ s.pc \in {"build", "publish", "abandon"} <=> s.table # 0
     /\ s.pc = "publish" <=> s.file # 0}
JobState ==
  [pc : {"none", "read", "write", "failed"}, background : BOOLEAN,
   cleanup : BOOLEAN, level : 0 .. MaxLevel - 2, upper : FileNumbers,
   lower : FileNumbers, ttl : TtlMap, merged : Content, left : SUBSET Key,
   out : FileNumbers, lost : SUBSET (0 .. Len(log))]
ViewState ==
  [active : BOOLEAN, mem : 0 .. Len(heap), imm : 0 .. Len(heap),
   files : LevelFiles, ttl : TtlMap, since : 0 .. Len(log),
   flushing : 0 .. Len(heap)]

TablesTypeOK ==
  /\ heap \in Seq(Content) /\ heap # <<>> /\ usage \in Nat
  /\ imm \in 0 .. Len(heap)
  /\ sst \in Seq(Content)
  /\ flush \in FlushState
VersionTypeOK ==
  /\ live \in LevelFiles
  /\ {readers, disk, obsolete, pendingDelete} \subseteq FileNumbers
JobTypeOK == job \in JobState /\ compactionPending \in BOOLEAN
ViewTypeOK == view \in [Readers -> ViewState]

\* Every variable holds what the code can store in it.
TypeOK ==
  WritesTypeOK /\ TablesTypeOK /\ VersionTypeOK /\ JobTypeOK /\ ViewTypeOK

\* Of a key that both hold table b has no later write than table a.  (After
\* a restart, which replays what a flush may have written, both may have the
\* same one.)
NotOlder(a, b) == \A k \in Key : a[k] # 0 /\ b[k] # 0 => b[k] <= a[k]

\* Where the read path looks first: a lower level, then a higher number.
Before(l, f, i, g) == l < i \/ (l = i /\ g < f)

TablesNewestFirst(m, i, files) ==
  /\ i # 0 => NotOlder(heap[m], heap[i])
  /\ \A l \in Levels : \A f \in files[l] :
       /\ NotOlder(heap[m], sst[f])
       /\ i # 0 => NotOlder(heap[i], sst[f])
FilesNewestFirst(files) ==
  \A l, i \in Levels : \A f \in files[l], g \in files[i] :
    Before(l, f, i, g) => NotOlder(sst[f], sst[g])

\* Get and RangeQuery stop at the first layer that holds the key, so the
\* layers must be ordered by age: for the current version and for every
\* view a reader still uses, whatever flushes and compactions ran since.
NewestFirst ==
  /\ TablesNewestFirst(Len(heap), imm, live)
  /\ flush.table # 0 => TablesNewestFirst(Len(heap), flush.table, live)
  /\ FilesNewestFirst(live)
  /\ \A r \in Readers : view[r].active =>
       /\ TablesNewestFirst(view[r].mem, view[r].imm, view[r].files)
       /\ FilesNewestFirst(view[r].files)

\* The last of the first n writes to key k, 0 if there is none.
Latest(n, k) ==
  LET W == {i \in 1 .. n : log[i].key = k}
  IN IF W = {} THEN 0 ELSE CHOOSE i \in W : \A j \in W : j <= i

InFiles(lv, e, k) == \E l \in Levels : \E f \in lv[l] : sst[f][k] = e

\* The newest write of every key is in a memtable, in the table being
\* flushed or in a file of the version: rotation, flush and compaction lose
\* none, except those that expired or that a failed I/O call gave up.
NoLostWrite ==
  \A k \in Key : LET e == Latest(Len(log), k) IN
    \/ e = 0 \/ e \in dropped
    \/ \E t \in {Len(heap), imm, flush.table} \ {0} : heap[t][k] = e
    \/ InFiles(live, e, k)

FileHitOldestFirst(files, k) ==  \* mutant
  LET Hits == {h \in Levels \X Files :
                 h[2] \in files[h[1]] /\ sst[h[2]][k] # 0}
      First == CHOOSE h \in Hits : \A g \in Hits :
                 h[1] < g[1] \/ (h[1] = g[1] /\ h[2] <= g[2])
  IN IF Hits = {} THEN 0 ELSE sst[First[2]][k]

\* GetFromSSTables: the first hit, levels upwards, newest file first.
FileHit(files, k) ==
  LET Hits == {h \in Levels \X Files :
                 h[2] \in files[h[1]] /\ sst[h[2]][k] # 0}
      First == CHOOSE h \in Hits : \A g \in Hits :
                 h = g \/ Before(h[1], h[2], g[1], g[2])
  IN IF Hits = {} THEN 0 ELSE sst[First[2]][k]

\* What a Get of key k through view v finds now; RangeQuery finds the same.
Lookup(v, k) ==
  IF heap[v.mem][k] # 0 THEN heap[v.mem][k]
  ELSE IF v.imm # 0 /\ heap[v.imm][k] # 0 THEN heap[v.imm][k]
  ELSE FileHit(v.files, k)

\* The keys of view v in K read as after the first n writes, for an n no
\* older than the view; expired keys are not read.
SeesPrefix(v, K) ==
  \E n \in v.since .. Len(log) : \A k \in K :
    \/ IsExpired(v.ttl[k[1]], k[2])
    \/ Latest(n, k) \in dropped
    \/ Lookup(v, k) = Latest(n, k)

\* A query reads one prefix of the writes, with all those acknowledged
\* before it began, although it runs after mu_ is released, on a memtable
\* that is still written, next to flushes and compactions.  Excepted are
\* the keys of the table the flush thread held when the view was captured.
ReadsSeeOnePrefix ==
  \A r \in Readers : view[r].active =>
    SeesPrefix(view[r], {k \in Key : \/ view[r].flushing = 0
                                     \/ heap[view[r].flushing][k] = 0})

\* The same without the exception: the read path covers every place a write
\* can be (README.md: queries read the mutable and the immutable memtable
\* and the SSTables).
ReadsSeeAcknowledgedWrites ==
  \A r \in Readers : view[r].active => SeesPrefix(view[r], Key)

\* No file is deleted under a reader, under the compaction that reads it,
\* or while the version refers to it; every live file has an open reader.
FilesInUseKept ==
  /\ \A l \in Levels : live[l] \subseteq disk \cap readers
  /\ Pinned \subseteq disk
  /\ job.pc # "none" => Compacting \subseteq disk

\* As long as no I/O failed, a file on disk is in the version, awaits its
\* deletion, or is the output of a flush or compaction in progress; none
\* is both in the version and condemned.
NoOrphanFiles ==
  /\ (obsolete \cup pendingDelete) \cap UNION {live[l] : l \in Levels} = {}
  /\ faults = 0 =>
       disk \subseteq (UNION {live[l] : l \in Levels}) \cup obsolete
                        \cup pendingDelete \cup job.out \cup {flush.file}

\* The mutable memtable never outgrows its limit, although several writers
\* wait for room and a batch gives mu_ away between two of its operations.
WriteBackpressure == usage <= MemTableLimit

\* The ranges of two files of level 1 never meet: a job takes every file of
\* level 1 that its outputs could meet.
Level1Disjoint ==
  \A f, g \in live[1] : f # g =>
    \/ \A a \in KeysIn(f), b \in KeysIn(g) : KeyLess(a, b)
    \/ \A a \in KeysIn(f), b \in KeysIn(g) : KeyLess(b, a)

\* The inputs a job picked are still in the version when it ends, so its
\* work is never thrown away although flushes change the version meanwhile.
InputsStayLive == job.pc # "none" => InputsValid

\* A compaction that is due is never forgotten, although the compaction
\* thread clears compaction_pending_ while a user's compaction runs and
\* the user's compaction clears it when it starts.
DueCompactionPending ==
  job.pc = "none" /\ ShouldSchedule(live) =>
    compactionPending \/ flush.pc = "schedule"
=============================================================================

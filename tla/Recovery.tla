------------------------------ MODULE Recovery ------------------------------
(***************************************************************************)
(* The engine across crashes and restarts: the pipeline of TsdbEngine,     *)
(* which keeps its actions, together with what it leaves on disk, the WAL  *)
(* and the manifest, and the constructor that rebuilds an engine from it.  *)
(*                                                                         *)
(* A crash is the death of the process: what was handed to the system      *)
(* stays.  (Neither SSTables nor the manifest are ever fsynced, so after a *)
(* power failure the code promises nothing about them.)  The WAL is        *)
(* DurableLog with sync_wal on: a call syncs before it applies.  One       *)
(* thread writes, no I/O call fails; torn WAL tails are in Wal.            *)
(***************************************************************************)
EXTENDS TsdbEngine

CONSTANTS
  CrashPoints,     \* where the process may die: "step", between two actions;
                   \*   "publish", "commit", "close", in the middle of one
  ManifestBuffer,  \* lines of the manifest that go out in one write(2)
  MaxCrashes       \* bound: crashes and clean shutdowns

ASSUME RecoveryAssumption ==
  /\ (\E w \in Writers : Writers = {w}) /\ Readers = {} /\ MaxFaults = 0
  /\ CrashPoints \subseteq {"step", "publish", "commit", "close"}
  /\ ManifestBuffer \in Nat \ {0} /\ MaxCrashes \in Nat

VARIABLES
  wal,       \* the WAL: operations and the positions log has them at
  manifest,  \* the lines of the manifest
  up,        \* the engine is constructed and not closed
  called,    \* history: the position of the first write of the last call
  acked,     \* history: the writes whose call returned
  rotated,   \* history: writes whose record a rotation of the WAL dropped
             \*   and that no flush has put into an SSTable since
  mangled,   \* history: a crash cut short the rewriting of the manifest in
             \*   Close, or an edit that goes out in several writes
  torn,      \* history: a crash left part of a line in the manifest
  crashes    \* crashes and shutdowns so far (bound)

diskVars == <<wal, manifest, called, acked, rotated, mangled, torn>>
allVars == <<vars, diskVars, up, crashes>>
-----------------------------------------------------------------------------
(* The manifest.                                                           *)

Line(tag, level, f) == [tag |-> tag, level |-> level, file |-> f]
Torn == Line("torn", 0, 0)

\* A line for each file of F, by number.
Lines(tag, l, F) ==
  [i \in 1 .. Cardinality(F) |->
     Line(tag, l, CHOOSE f \in F : Cardinality({g \in F : g <= f}) = i)]

EditLinesForgetLower(upper, lower, level, out) ==  \* mutant
  Lines("del", level, upper) \o Lines("add", level + 1, out)

\* An edit is logged with its deleted files first.
EditLines(upper, lower, level, out) ==
  Lines("del", level + 1, lower) \o Lines("del", level, upper)
    \o Lines("add", level + 1, out)

\* WriteSnapshotManifest: level by level, and by number.
Snapshot(files) ==
  LET Added == {a \in Levels \X Files : a[2] \in files[a[1]]}
      Place(a) == Cardinality({b \in Added :
                    b[1] < a[1] \/ (b[1] = a[1] /\ b[2] <= a[2])})
  IN [i \in 1 .. Cardinality(Added) |->
        LET a == CHOOSE x \in Added : Place(x) = i IN Line("add", a[1], a[2])]

\* No line is torn; what follows one that is will never be read.
Readable == \A i \in 1 .. Len(manifest) : manifest[i] # Torn

\* What a crash can leave of lines that are being written.
Partial(lines) ==
  {SubSeq(lines, 1, n) \o t : n \in ManifestBuffer .. Len(lines) - 1,
                              t \in {<<>>, <<Torn>>}}

\* RecoverFromManifest: line by line up to the first that does not parse.
Listed(lines) ==
  LET parsed ==
        {i \in 1 .. Len(lines) : \A j \in 1 .. i : lines[j].tag # "torn"}
  IN [l \in Levels |->
        {f \in Files : \E i \in parsed :
           /\ lines[i] = Line("add", l, f)
           /\ \A j \in parsed : j > i => lines[j] # Line("del", l, f)}]

LoadedFilesFlat ==  \* mutant
  [NoFiles EXCEPT ![0] = disk]

\* LoadExistingSSTables: without a version every SSTable there is becomes
\* a file of level 0.
LoadedFiles ==
  IF Listed(manifest) = NoFiles THEN [NoFiles EXCEPT ![0] = disk]
  ELSE Listed(manifest)

InLevels(files) == UNION {files[l] : l \in Levels}

\* The memtable a replay of the WAL makes.
ReplayedTable ==
  [k \in Key |->
     LET W == {i \in 1 .. Len(wal) : wal[i].op.key = k}
     IN IF W = {} THEN 0 ELSE wal[CHOOSE i \in W : \A j \in W : j <= i].at]

WalRecords(ops) ==
  [i \in 1 .. Len(ops) |-> [op |-> ops[i], at |-> Len(log) + i]]

\* UpdateLatestTimestampUnlocked for every record replayed.
ReplayedTtl ==
  [m \in Measurements |->
     LET T == {k[2] : k \in {x \in KeysHeld(ReplayedTable) : x[1] = m}}
     IN [ttl |-> 0,
         latest |-> IF T = {} THEN MinTimestamp
                    ELSE CHOOSE t \in T : \A u \in T : u <= t]]
-----------------------------------------------------------------------------
(* The running engine: what its steps do to the disk.                      *)

Live == up /\ UNCHANGED <<up, crashes>>

LogCall(w) ==
  /\ Live /\ AppendToWal(w)
  /\ wal' = wal \o WalRecords(writer[w].ops)
  /\ called' = Len(log) + 1
  /\ UNCHANGED <<manifest, acked, rotated, mangled, torn>>

\* A call that has applied all its operations returns.
Return(w) ==
  /\ Live /\ MakeRoom(w)
  /\ acked' = IF writer[w].ops = <<>> THEN acked \cup (called .. Len(log))
              ELSE acked
  /\ UNCHANGED <<wal, manifest, called, rotated, mangled, torn>>

PublishForgetsManifest ==  \* mutant
  /\ Live /\ FlushPublish
  /\ wal' = <<>>
  /\ rotated' = rotated \ Entries(sst[flush.file])
  /\ UNCHANGED <<manifest, called, acked, mangled, torn>>

\* The flush is logged, then the whole WAL is rotated away.
Publish ==
  /\ Live /\ FlushPublish
  /\ manifest' = Append(manifest, Line("add", 0, flush.file))
  /\ wal' = <<>>
  /\ rotated' = (rotated \cup {wal[i].at : i \in 1 .. Len(wal)})
                  \ Entries(sst[flush.file])
  /\ UNCHANGED <<called, acked, mangled, torn>>

Commit ==
  /\ Live /\ CompactCommit
  /\ manifest' =
       manifest \o EditLines(job.upper, job.lower, job.level, job.out)
  /\ UNCHANGED <<wal, called, acked, rotated, mangled, torn>>

\* What touches neither the WAL nor the manifest.
InMemory ==
  /\ Live /\ UNCHANGED diskVars
  /\ \/ \E w \in Writers :
          (\E ops \in Batches : Begin(w, ops)) \/ WaitForRoom(w) \/ Apply(w)
     \/ UserFlush \/ FlushTake \/ FlushBuild \/ FlushSchedule
     \/ BackgroundCompact \/ (\E cleanup \in BOOLEAN : UserCompact(cleanup))
     \/ CleanupObsoleteFiles \/ CompactRead \/ CompactWrite
-----------------------------------------------------------------------------
(* The end of a process and the start of the next.                         *)

\* The operations of the call in progress that are not applied yet; their
\* positions in log are those the WAL has them under.
Unapplied ==
  LET w == CHOOSE x \in Writers : TRUE
  IN IF writer[w].pc \in {"append", "apply", "applied"} THEN writer[w].ops
     ELSE <<>>

\* All memory is gone; the disk is left to the action at hand.  `written' are
\* the operations in the WAL beyond those applied.
Stop(written) ==
  /\ up /\ crashes < MaxCrashes /\ crashes' = crashes + 1
  /\ up' = FALSE
  /\ log' = log \o written
  /\ heap' = <<Nothing>> /\ usage' = 0 /\ imm' = 0
  /\ flush' = [pc |-> "idle", table |-> 0, file |-> 0]
  /\ live' = NoFiles /\ readers' = {} /\ obsolete' = {} /\ pendingDelete' = {}
  /\ job' = NoJob /\ compactionPending' = FALSE /\ ttl' = NoTtl
  /\ lock' = NoThread
  /\ writer' = [w \in Writers |-> [pc |-> "idle", ops |-> <<>>]]
  /\ UNCHANGED <<issued, calls, faults, dropped, sst, view>>
  /\ UNCHANGED <<called, acked, rotated>>

\* Between two actions; or in the WAL append, of which any records may have
\* been written.
Crash ==
  /\ "step" \in CrashPoints
  /\ IF \E w \in Writers : writer[w].pc = "append"
       THEN \E n \in 0 .. Len(Unapplied) :
              LET written == SubSeq(Unapplied, 1, n)
              IN Stop(written) /\ wal' = wal \o WalRecords(written)
       ELSE Stop(Unapplied) /\ UNCHANGED wal
  /\ UNCHANGED <<manifest, disk, mangled, torn>>

\* In LogAndApply of a flush, or between it and the rotation of the WAL.
CrashInPublish ==
  /\ "publish" \in CrashPoints
  /\ flush.pc = "publish" /\ lock = NoThread
  /\ Stop(Unapplied)
  /\ LET lines == <<Line("add", 0, flush.file)>> IN
     \E written \in Partial(lines) \cup {lines} :
       manifest' = manifest \o written
  /\ torn' = (torn \/ ~Readable')
  /\ UNCHANGED <<wal, disk, mangled>>

CrashInCommitCleansUpFirst ==  \* mutant: the inputs go before the edit
  /\ "commit" \in CrashPoints
  /\ lock = NoThread /\ Finished /\ job.pc # "failed" /\ InputsValid
  /\ Stop(Unapplied)
  /\ \E deleted \in IF job.cleanup THEN SUBSET Compacting ELSE {{}} :
       disk' = disk \ deleted
  /\ UNCHANGED <<manifest, wal, mangled, torn>>

\* In LogAndApply of a compaction, or in the clean-up after it.
CrashInCommit ==
  /\ "commit" \in CrashPoints
  /\ lock = NoThread /\ Finished /\ job.pc # "failed" /\ InputsValid
  /\ Stop(Unapplied)
  /\ LET lines == EditLines(job.upper, job.lower, job.level, job.out) IN
     \/ /\ \E written \in Partial(lines) : manifest' = manifest \o written
        /\ mangled' = TRUE
        /\ UNCHANGED disk
     \/ /\ manifest' = manifest \o lines
        /\ UNCHANGED mangled
        /\ \E deleted \in
                IF job.cleanup
                  THEN SUBSET (obsolete \cup pendingDelete \cup Compacting)
                  ELSE {{}} :
             disk' = disk \ deleted
  /\ torn' = (torn \/ ~Readable')
  /\ UNCHANGED wal

\* Close has flushed and joined both threads.
Closing ==
  /\ heap[Len(heap)] = Nothing /\ imm = 0 /\ flush.pc = "idle"
  /\ job.pc = "none" /\ \A w \in Writers : writer[w].pc = "idle"

\* Clean-up, then the manifest is rewritten in place.
Close ==
  /\ Closing
  /\ Stop(Unapplied)
  /\ disk' = disk \ (obsolete \cup pendingDelete)
  /\ manifest' = Snapshot(live)
  /\ UNCHANGED <<wal, mangled, torn>>

\* The rewriting begins with the truncation of the old manifest.
CrashInClose ==
  /\ "close" \in CrashPoints
  /\ Closing
  /\ Stop(Unapplied)
  /\ disk' = disk \ (obsolete \cup pendingDelete)
  /\ manifest' \in {<<>>} \cup Partial(Snapshot(live))
  /\ mangled' = TRUE
  /\ torn' = (torn \/ ~Readable')
  /\ UNCHANGED wal

\* The constructor: the version, the garbage collection of SSTables that
\* are not in it, readers for those that are, the replay of the WAL.
Restart ==
  /\ ~up
  /\ up' = TRUE
  /\ live' = LoadedFiles
  /\ disk' = disk \cap InLevels(LoadedFiles)
  /\ readers' = disk'
  /\ manifest' = IF Listed(manifest) = NoFiles /\ disk # {}
                   THEN Snapshot(LoadedFiles) ELSE manifest
  /\ heap' = <<ReplayedTable>> /\ usage' = Len(wal) /\ ttl' = ReplayedTtl
  /\ UNCHANGED <<log, issued, calls, faults, dropped, imm, flush, sst>>
  /\ UNCHANGED <<obsolete, pendingDelete, jobVars, lock, writer, view>>
  /\ UNCHANGED <<wal, called, acked, rotated, mangled, torn, crashes>>

RecoveryInit ==
  /\ Init
  /\ wal = <<>> /\ manifest = <<>> /\ up = TRUE
  /\ called = 1 /\ acked = {} /\ rotated = {}
  /\ mangled = FALSE /\ torn = FALSE
  /\ crashes = 0

RecoveryNext ==
  \/ \E w \in Writers : LogCall(w) \/ Return(w)
  \/ Publish \/ Commit \/ InMemory
  \/ Crash \/ CrashInPublish \/ CrashInCommit \/ Close \/ CrashInClose
  \/ Restart

RecoverySpec == RecoveryInit /\ [][RecoveryNext]_allVars
-----------------------------------------------------------------------------
(* Properties.                                                             *)

\* The write of key k that an engine constructed now would read.
Recovered(k) ==
  IF ReplayedTable[k] # 0 THEN ReplayedTable[k]
  ELSE FileHit([l \in Levels |-> LoadedFiles[l] \cap disk], k)

LastAcked(k) ==
  LET A == {i \in acked : log[i].key = k}
  IN IF A = {} THEN 0 ELSE CHOOSE i \in A : \A j \in A : j <= i

\* After a crash anywhere, every key reads as its last acknowledged write,
\* or a later one that was in progress.
AcknowledgedWritesSurvive ==
  \A k \in Key : Recovered(k) >= LastAcked(k)

\* The same for every write but those whose WAL record a rotation dropped:
\* neither a flush nor a compaction, a clean-up, a shutdown or a restart
\* loses a write, wherever the process dies.
SurviveUnlessRotated ==
  \A k \in Key :
    \/ LastAcked(k) \in rotated
    \/ Recovered(k) >= LastAcked(k)

\* It holds as long as no crash mangles the manifest, be it in the middle of
\* a flush or of the commit of a compaction.
OnlyRotationLosesWrites == mangled \/ SurviveUnlessRotated

\* A restart rebuilds the very version the engine had: every change of the
\* version is in the manifest, and nothing else is.
ManifestMatchesVersion == up /\ Readable => Listed(manifest) = live

\* No crash or shutdown leaves the manifest with a file that is already
\* deleted, as long as no crash left a torn line.  (Behind one, the edits
\* of the engines to come are lost but the files they delete are gone, and
\* a shutdown then writes that version down.)
ListedFilesExist == torn \/ InLevels(Listed(manifest)) \subseteq disk

\* A replayed record never hides a later write that is in an SSTable, and
\* the levels stay ordered by age across restarts, as long as no crash
\* mangles the manifest.  (A record may be both in the memtable and in a
\* file, after a crash in the flush.)
RecoveredLayersOrdered == mangled \/ NewestFirst
=============================================================================

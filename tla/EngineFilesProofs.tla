--------------------------- MODULE EngineFilesProofs ---------------------------
(***************************************************************************)
(* The proof that no SSTable is deleted while the version, a query or a    *)
(* compaction still needs it, and that none is left behind, for every      *)
(* number of threads, keys, levels, writes and calls.  Then the proofs     *)
(* that the memtable taking writes stays within its limit, that a due      *)
(* compaction is not forgotten and that the key ranges of the files of     *)
(* level 1 never meet, for every limit too; level ranges with gaps and     *)
(* files with any number of keys included.                                 *)
(***************************************************************************)
EXTENDS TsdbEngineProofs

-----------------------------------------------------------------------------
(* The inductive invariant: who owns which file.                           *)

\* Files the version no longer has, on their way to deletion.
Condemned == obsolete \cup pendingDelete

\* The version's files exist, are open, belong to one level and are not
\* condemned.
LiveInv ==
  /\ \A l \in Levels : live[l] \subseteq disk \cap readers
  /\ \A l \in Levels : live[l] \cap Condemned = {}
  /\ \A l, i \in Levels : l # i => live[l] \cap live[i] = {}

\* What a view holds exists.
PinnedInv == Pinned \subseteq disk

\* The outputs of a job are its own until it commits.
OutputInv ==
  /\ \A l \in Levels : live[l] \cap job.out = {}
  /\ job.out \cap Condemned = {} /\ job.out \cap Pinned = {}
  /\ job.pc \in {"none", "read"} => job.out = {}
  /\ job.pc = "write" => job.out \subseteq disk

\* So is the file a flush is about to publish.
FlushFileInv ==
  flush.pc = "publish" =>
    /\ flush.file \in disk
    /\ flush.file \notin Condemned \cup job.out
    /\ \A l \in Levels : flush.file \notin live[l]

\* Without a failure every file has an owner.
OwnerInv ==
  faults = 0 =>
    \A f \in disk : \/ \E l \in Levels : f \in live[l]
                    \/ f \in Condemned \cup job.out \/ f = flush.file

FilesInv == LiveInv /\ PinnedInv /\ OutputInv /\ FlushFileInv /\ OwnerInv
-----------------------------------------------------------------------------
(* What all steps have in common.                                          *)

\* The files that anything names have been written; the next number is new.
LEMMA WrittenFiles ==
  ASSUME TypeOK
  PROVE  /\ \A l \in Levels : live[l] \subseteq Files
         /\ disk \subseteq Files /\ readers \subseteq Files
         /\ obsolete \subseteq Files /\ pendingDelete \subseteq Files
         /\ job.out \subseteq Files /\ Compacting \subseteq Files
         /\ Pinned \subseteq Files
         /\ NewFileNumber \notin Files /\ NewFileNumber # 0 /\ 0 \notin Files
<1>1. disk \subseteq Files /\ readers \subseteq Files
      /\ obsolete \subseteq Files /\ pendingDelete \subseteq Files
  BY DEF TypeOK, VersionTypeOK, FileNumbers
<1>2. Len(sst) \in Nat
  BY DEF TypeOK, TablesTypeOK
<1>3. NewFileNumber \notin Files /\ NewFileNumber # 0 /\ 0 \notin Files
  BY <1>2 DEF NewFileNumber, Files
<1> QED  BY <1>1, <1>3, NamedFiles DEF Pinned

\* A view holds on to the same files when others are written.
LEMMA PinnedKept ==
  ASSUME TypeOK, UNCHANGED view, Len(sst') \in Nat, Len(sst) <= Len(sst')
  PROVE  Pinned' = Pinned
<1>1. Files \subseteq Files'
  BY DEF Files, TypeOK, TablesTypeOK
<1>2. \A r \in Readers, l \in Levels : view[r].files[l] \subseteq Files
  BY NamedFiles
<1> QED  BY <1>1, <1>2 DEF Pinned

LEMMA FailCounts ==
  ASSUME TypeOK, Fail
  PROVE  faults' # 0
BY DEF Fail, TypeOK, WritesTypeOK

\* A step that moves no file.
LEMMA FilesStay ==
  ASSUME FilesInv, UNCHANGED <<live, readers, disk, obsolete, pendingDelete>>,
         Pinned' \subseteq Pinned, job'.out = job.out,
         job'.pc \in {"none", "read"} => job.out = {},
         job'.pc = "write" => job.out \subseteq disk,
         flush'.file = flush.file,
         flush'.pc = "publish" => flush.pc = "publish",
         faults' = 0 => faults = 0
  PROVE  FilesInv'
<1>1. LiveInv' /\ PinnedInv'
  BY DEF FilesInv, LiveInv, PinnedInv, Condemned
<1>2. OutputInv'
  BY DEF FilesInv, OutputInv, Condemned
<1>3. FlushFileInv' /\ OwnerInv'
  BY DEF FilesInv, FlushFileInv, OwnerInv, Condemned
<1> QED  BY <1>1, <1>2, <1>3 DEF FilesInv

LEMMA FilesStayWithJob ==
  ASSUME TypeOK, FilesInv, faults' = 0 => faults = 0,
         UNCHANGED <<live, readers, disk, obsolete, pendingDelete, sst, view,
                     job, flush>>
  PROVE  FilesInv'
<1>1. Pinned' = Pinned
  BY PinnedKept DEF TypeOK, TablesTypeOK
<1> QED  BY <1>1, FilesStay DEF FilesInv, OutputInv
-----------------------------------------------------------------------------
(* Writers, and the flush thread.                                          *)

LEMMA WriteFiles ==
  ASSUME TypeOK, FilesInv, NEW w \in Writers, Write(w)
  PROVE  FilesInv'
<1>1. UNCHANGED <<live, readers, disk, obsolete, pendingDelete, sst, view,
                  job, flush>>
  BY Zenon DEF Write, Begin, MakeRoom, WaitForRoom, AppendToWal, Apply,
         versionVars, jobVars
<1>2. faults' = faults \/ Fail
  BY Zenon DEF Write, Begin, MakeRoom, WaitForRoom, AppendToWal, Apply
<1> QED  BY <1>1, <1>2, FailCounts, FilesStayWithJob

\* The new file is no one else's.
LEMMA FlushBuildFiles ==
  ASSUME TypeOK, FilesInv, FlushBuild
  PROVE  FilesInv'
<1>1. /\ UNCHANGED <<live, readers, obsolete, pendingDelete, view, job>>
      /\ flush.file = 0
      /\ Len(sst') \in Nat /\ Len(sst) <= Len(sst')
  BY DEF FlushBuild, jobVars, TypeOK, TablesTypeOK, FlushState
<1>2. \/ /\ disk' = disk \cup {NewFileNumber} /\ faults' = faults
         /\ flush'.pc = "publish" /\ flush'.file = NewFileNumber
      \/ /\ disk \subseteq disk' /\ faults' # 0
         /\ flush'.pc = "abandon"
  BY FailCounts DEF FlushBuild, TypeOK, TablesTypeOK, FlushState
<1>3. disk \subseteq disk' /\ Pinned' = Pinned
  BY <1>1, <1>2, PinnedKept
<1>4. LiveInv' /\ PinnedInv' /\ OutputInv'
  BY <1>1, <1>3 DEF FilesInv, LiveInv, PinnedInv, OutputInv, Condemned
<1>5. FlushFileInv'
  BY <1>1, <1>2, WrittenFiles DEF FlushFileInv, Condemned
<1>6. OwnerInv'
  BY <1>1, <1>2, WrittenFiles DEF FilesInv, OwnerInv, Condemned
<1> QED  BY <1>4, <1>5, <1>6 DEF FilesInv

LEMMA FlushPublishFiles ==
  ASSUME TypeOK, FilesInv, FlushPublish
  PROVE  FilesInv'
<1>1. /\ UNCHANGED <<disk, obsolete, pendingDelete, sst, view, job>>
      /\ flush.pc = "publish" /\ flush'.pc = "schedule" /\ flush'.file = 0
      /\ readers' = readers \cup {flush.file}
      /\ \/ live' = [live EXCEPT ![0] = @ \cup {flush.file}]
            /\ faults' = faults
         \/ live' = live /\ faults' # 0
  BY FailCounts DEF FlushPublish, jobVars
<1>2. Pinned' = Pinned
  BY <1>1, PinnedKept DEF TypeOK, TablesTypeOK
<1>3. /\ flush.file \in disk /\ flush.file \notin Condemned \cup job.out
      /\ \A l \in Levels : flush.file \notin live[l]
  BY <1>1 DEF FilesInv, FlushFileInv
<1>4. /\ \A l \in Levels : live'[l] = live[l]
           \/ (l = 0 /\ live'[0] = live[0] \cup {flush.file})
      /\ \/ faults' # 0
         \/ faults' = faults /\ live'[0] = live[0] \cup {flush.file}
  BY <1>1, NamedFiles DEF TypeOK, VersionTypeOK, LevelFiles
<1>5. LiveInv'
  BY <1>1, <1>3, <1>4 DEF FilesInv, LiveInv, Condemned
<1>6. PinnedInv' /\ OutputInv'
  BY <1>1, <1>2, <1>3, <1>4 DEF FilesInv, PinnedInv, OutputInv, Condemned
<1>7. FlushFileInv'
  BY <1>1 DEF FlushFileInv
<1>8. OwnerInv'
  <2> SUFFICES ASSUME faults' = 0, NEW f \in disk
               PROVE  \/ \E l \in Levels : f \in live'[l]
                      \/ f \in Condemned \cup job.out
    BY <1>1 DEF OwnerInv, Condemned
  <2>1. \/ \E l \in Levels : f \in live[l]
        \/ f \in Condemned \cup job.out \/ f = flush.file
    BY <1>4 DEF FilesInv, OwnerInv
  <2> QED  BY <1>4, <2>1, NamedFiles
<1> QED  BY <1>5, <1>6, <1>7, <1>8 DEF FilesInv

LEMMA FlushThreadFiles ==
  ASSUME TypeOK, FilesInv, FlushThread
  PROVE  FilesInv'
<1>1. CASE FlushTake \/ FlushAbandon \/ FlushSchedule
  <2>1. /\ UNCHANGED <<live, readers, disk, obsolete, pendingDelete, sst, view,
                       faults>>
        /\ UNCHANGED job
    BY <1>1 DEF FlushTake, FlushAbandon, FlushSchedule, memVars, versionVars,
                jobVars
  <2>2. flush'.file = flush.file /\ flush'.pc # "publish"
    <3>1. flush \in FlushState
      BY DEF TypeOK, TablesTypeOK
    <3>2. flush.pc # "publish" => flush.file = 0
      BY <3>1 DEF FlushState
    <3>3. CASE FlushTake
      BY <3>2, <3>3 DEF FlushTake
    <3>4. CASE FlushAbandon
      BY <3>2, <3>4 DEF FlushAbandon
    <3>5. CASE FlushSchedule
      BY <3>1, <3>5 DEF FlushSchedule, FlushState
    <3> QED  BY <1>1, <3>3, <3>4, <3>5
  <2>3. Pinned' = Pinned
    BY <2>1, PinnedKept DEF TypeOK, TablesTypeOK
  <2> QED  BY <2>1, <2>2, <2>3, FilesStay DEF FilesInv, OutputInv
<1> QED  BY <1>1, FlushBuildFiles, FlushPublishFiles DEF FlushThread
-----------------------------------------------------------------------------
(* Compactions.                                                            *)

\* Condemned files P are deleted but those that a view holds, which wait.
LEMMA CleanupFiles ==
  ASSUME TypeOK, FilesInv, NEW P, P \subseteq Condemned,
         disk' = disk \ (P \ Pinned),
         Condemned' \subseteq Condemned,
         Condemned \ (P \ Pinned) \subseteq Condemned',
         readers \ Condemned \subseteq readers',
         UNCHANGED <<live, view, sst, job, flush, faults>>
  PROVE  FilesInv'
<1>1. Pinned' = Pinned
  BY PinnedKept DEF TypeOK, TablesTypeOK
<1>2. LiveInv' /\ PinnedInv'
  BY <1>1 DEF FilesInv, LiveInv, PinnedInv
<1>3. OutputInv'
  BY <1>1 DEF FilesInv, OutputInv
<1>4. FlushFileInv' /\ OwnerInv'
  BY <1>1 DEF FilesInv, FlushFileInv, OwnerInv
<1> QED  BY <1>2, <1>3, <1>4 DEF FilesInv

LEMMA CleanupObsoleteFilesFiles ==
  ASSUME TypeOK, FilesInv, CleanupObsoleteFiles
  PROVE  FilesInv'
<1>1. /\ UNCHANGED <<live, view, sst, job, flush, faults>>
      /\ obsolete' = {} /\ readers' = readers \ obsolete
      /\ pendingDelete' = (pendingDelete \cup obsolete) \cap Pinned
      /\ disk' = disk \ ((pendingDelete \cup obsolete) \ Pinned)
  BY DEF CleanupObsoleteFiles, Cleanup, TryDeletePending, jobVars
<1>2. /\ Condemned' \subseteq Condemned
      /\ Condemned \ (Condemned \ Pinned) \subseteq Condemned'
      /\ disk' = disk \ (Condemned \ Pinned)
      /\ readers \ Condemned \subseteq readers'
  BY <1>1 DEF Condemned
<1> QED  BY <1>1, <1>2, CleanupFiles

\* A job that starts owns no file yet.
LEMMA StartJobFiles ==
  ASSUME TypeOK, FilesInv, NEW l, NEW background, NEW cleanup,
         StartJob(l, background, cleanup), job.pc = "none",
         UNCHANGED <<live, readers, disk, obsolete, pendingDelete, sst, view,
                     flush, faults>>
  PROVE  FilesInv'
<1>1. job'.out = {} /\ job'.pc = "read"
  BY DEF StartJob, NoJob
<1>2. job.out = {}
  BY DEF FilesInv, OutputInv
<1>3. Pinned' = Pinned
  BY PinnedKept DEF TypeOK, TablesTypeOK
<1> QED  BY <1>1, <1>2, <1>3, FilesStay

LEMMA BackgroundCompactFiles ==
  ASSUME TypeOK, FilesInv, BackgroundCompact
  PROVE  FilesInv'
<1>1. UNCHANGED <<live, readers, disk, obsolete, pendingDelete, sst, view,
                  flush, faults>>
  BY DEF BackgroundCompact, versionVars
<1>2. CASE UNCHANGED job
  BY <1>1, <1>2, FilesStayWithJob
<1>3. CASE job.pc = "none" /\ \E l \in Levels : StartJob(l, TRUE, TRUE)
  BY <1>1, <1>3, StartJobFiles
<1> QED  BY <1>2, <1>3 DEF BackgroundCompact

LEMMA UserCompactFiles ==
  ASSUME TypeOK, FilesInv, NEW cleanup \in BOOLEAN, UserCompact(cleanup)
  PROVE  FilesInv'
<1>1. UNCHANGED <<live, readers, obsolete, sst, view, flush, faults>>
      /\ job.pc = "none"
  BY DEF UserCompact
<1>2. CASE /\ UNCHANGED <<pendingDelete, disk>>
           /\ \E l \in Levels : StartJob(l, FALSE, cleanup)
  BY <1>1, <1>2, StartJobFiles
<1>3. CASE TryDeletePending(pendingDelete) /\ UNCHANGED job
  <2>1. /\ disk' = disk \ (pendingDelete \ Pinned)
        /\ pendingDelete' = pendingDelete \cap Pinned
    BY <1>3 DEF TryDeletePending
  <2>2. /\ pendingDelete \subseteq Condemned /\ Condemned' \subseteq Condemned
        /\ Condemned \ (pendingDelete \ Pinned) \subseteq Condemned'
    BY <1>1, <2>1 DEF Condemned
  <2>3. readers \ Condemned \subseteq readers'
    BY <1>1
  <2> QED  BY <1>1, <1>3, <2>1, <2>2, <2>3, CleanupFiles
<1> QED  BY <1>2, <1>3 DEF UserCompact, jobVars

LEMMA CompactReadFiles ==
  ASSUME TypeOK, FilesInv, CompactRead
  PROVE  FilesInv'
<1>1. UNCHANGED <<live, readers, disk, obsolete, pendingDelete, sst, view,
                  flush>>
      /\ job.pc = "read" /\ (faults' = faults \/ Fail)
  BY DEF CompactRead, versionVars
<1>2. job'.out = job.out /\ job'.pc = "write"
  BY DEF CompactRead, TypeOK, JobTypeOK, JobState
<1>3. job.out = {}
  BY <1>1 DEF FilesInv, OutputInv
<1>4. Pinned' = Pinned
  BY <1>1, PinnedKept DEF TypeOK, TablesTypeOK
<1> QED  BY <1>1, <1>2, <1>3, <1>4, FailCounts, FilesStay

\* The next output is no one else's; one that failed may be nobody's.
LEMMA NewOutputFiles ==
  ASSUME TypeOK, FilesInv,
         UNCHANGED <<live, readers, obsolete, pendingDelete, view, flush>>,
         Len(sst') \in Nat, Len(sst) <= Len(sst'),
         job'.out \in {job.out, job.out \cup {NewFileNumber}},
         disk' \in {disk, disk \cup {NewFileNumber}},
         job.pc # "none", job'.pc \notin {"none", "read"},
         \/ faults' # 0 /\ job'.pc = "failed"
         \/ /\ faults' = faults /\ job.pc = "write"
            /\ job'.out = job.out \cup {NewFileNumber}
            /\ disk' = disk \cup {NewFileNumber}
  PROVE  FilesInv'
<1>1. Pinned' = Pinned
  BY PinnedKept
<1>2. LiveInv' /\ PinnedInv'
  BY <1>1 DEF FilesInv, LiveInv, PinnedInv, Condemned
<1>3. OutputInv'
  BY <1>1, WrittenFiles DEF FilesInv, OutputInv, Condemned
<1>4. FlushFileInv'
  BY WrittenFiles DEF FilesInv, FlushFileInv, Condemned
<1>5. OwnerInv'
  BY DEF FilesInv, OwnerInv, Condemned
<1> QED  BY <1>2, <1>3, <1>4, <1>5 DEF FilesInv

LEMMA CompactWriteFiles ==
  ASSUME TypeOK, FilesInv, CompactWrite \/ CompactWriteFails
  PROVE  FilesInv'
<1>1. UNCHANGED <<live, readers, obsolete, pendingDelete, view, flush>>
      /\ Len(sst') = Len(sst) + 1 /\ Len(sst) \in Nat /\ job.pc = "write"
  <2>1. sst \in Seq(Content) /\ \E c : sst' = Append(sst, c)
    BY DEF CompactWrite, CompactWriteFails, TypeOK, TablesTypeOK
  <2>2. Len(sst') = Len(sst) + 1 /\ Len(sst) \in Nat
    BY <2>1
  <2> QED  BY <2>2 DEF CompactWrite, CompactWriteFails
<1>2. CASE CompactWrite
  <2>1. /\ job'.out = job.out \cup {NewFileNumber} /\ job'.pc = "write"
        /\ disk' = disk \cup {NewFileNumber} /\ faults' = faults
    BY <1>2 DEF CompactWrite, TypeOK, JobTypeOK, JobState
  <2> QED  BY <1>1, <2>1, NewOutputFiles
<1>3. CASE CompactWriteFails
  <2>1. PICK listed \in SUBSET {NewFileNumber} :
          job' = [job EXCEPT !.pc = "failed", !.out = @ \cup listed]
    BY <1>3 DEF CompactWriteFails
  <2>2. job'.out = job.out \cup listed /\ job'.pc = "failed"
    BY <2>1 DEF TypeOK, JobTypeOK, JobState
  <2>3. disk' \in {disk, disk \cup {NewFileNumber}} /\ faults' # 0
    BY <1>3, FailCounts DEF CompactWriteFails
  <2>4. listed = {} \/ listed = {NewFileNumber}
    OBVIOUS
  <2> QED  BY <1>1, <2>2, <2>3, <2>4, NewOutputFiles
<1> QED  BY <1>2, <1>3

LEMMA CompactAbortFiles ==
  ASSUME TypeOK, FilesInv, CompactAbort
  PROVE  FilesInv'
<1>1. /\ UNCHANGED <<live, readers, obsolete, pendingDelete, sst, view, flush>>
      /\ job'.pc = "none" /\ job'.out = {} /\ disk' = disk \ job.out
      /\ faults' = faults \/ Fail
  BY DEF CompactAbort, EndJob, NoJob, FilesToDelete
<1>2. Pinned' = Pinned
  BY <1>1, PinnedKept DEF TypeOK, TablesTypeOK
<1>3. LiveInv' /\ PinnedInv'
  BY <1>1, <1>2 DEF FilesInv, LiveInv, PinnedInv, OutputInv, Condemned
<1>4. OutputInv'
  BY <1>1, <1>2 DEF OutputInv
<1>5. FlushFileInv' /\ OwnerInv'
  BY <1>1, FailCounts DEF FilesInv, FlushFileInv, OwnerInv, Condemned
<1> QED  BY <1>3, <1>4, <1>5 DEF FilesInv

\* The outputs become live and the inputs condemned.
LEMMA CompactCommitFiles ==
  ASSUME TypeOK, FilesInv, CompactCommit
  PROVE  FilesInv'
<1> DEFINE L == job.level
<1> DEFINE old == Condemned \cup Compacting
<1>1. /\ UNCHANGED <<sst, view, flush, faults>>
      /\ job'.pc = "none" /\ job'.out = {}
      /\ job.pc = "write" /\ InputsValid
      /\ live' = [live EXCEPT ![L] = @ \ job.upper,
                              ![L + 1] = (@ \ job.lower) \cup job.out]
  BY DEF CompactCommit, EndJob, NoJob, Finished
<1>2. /\ L \in Levels /\ L + 1 \in Levels /\ L # L + 1
      /\ job.upper \subseteq live[L] /\ job.lower \subseteq live[L + 1]
  BY <1>1, NamedFiles DEF InputsValid, Levels
<1>3. \A l \in Levels :
        live'[l] = (live[l] \ Compacting) \cup
                     IF l = L + 1 THEN job.out ELSE {}
  <2>1. \A l \in Levels :
          live'[l] = IF l = L THEN live[l] \ job.upper
                     ELSE IF l = L + 1 THEN (live[l] \ job.lower) \cup job.out
                     ELSE live[l]
    BY <1>1, <1>2 DEF TypeOK, VersionTypeOK, LevelFiles
  <2>2. \A l, i \in Levels : l # i => live[l] \cap live[i] = {}
    BY DEF FilesInv, LiveInv
  <2> HIDE DEF L
  <2> QED  BY <1>2, <2>1, <2>2 DEF Compacting
<1>4. Pinned' = Pinned
  BY <1>1, PinnedKept DEF TypeOK, TablesTypeOK
<1>5. /\ readers' = readers \cup job.out \/
           readers' = (readers \cup job.out) \ (obsolete \cup Compacting)
      /\ disk' = disk \/ disk' = disk \ (old \ Pinned)
      /\ Condemned' \subseteq old /\ disk' \cap old \subseteq Condemned'
      /\ disk \cap Pinned \subseteq disk'
  <2>1. CASE job.cleanup
    <3>1. /\ obsolete' = {}
          /\ readers' = (readers \cup job.out) \ (obsolete \cup Compacting)
          /\ pendingDelete' =
               (pendingDelete \cup (obsolete \cup Compacting)) \cap Pinned
          /\ disk' = disk \ ((pendingDelete \cup (obsolete \cup Compacting))
                                \ Pinned)
      BY <2>1 DEF CompactCommit, Cleanup, TryDeletePending
    <3> QED  BY <3>1 DEF Condemned
  <2>2. CASE ~job.cleanup
    <3>1. /\ obsolete' = obsolete \cup Compacting
          /\ readers' = readers \cup job.out
          /\ UNCHANGED <<pendingDelete, disk>>
      BY <2>2 DEF CompactCommit
    <3> QED  BY <3>1 DEF Condemned
  <2> QED  BY <2>1, <2>2
<1> HIDE DEF L
<1>6. /\ \A l \in Levels : live'[l] \cap old = {}
      /\ job.out \cap old = {} /\ Compacting \subseteq disk
      /\ \A f \in Compacting : \E l \in Levels : f \in live[l]
  <2>1. \A f \in Compacting : f \in live[L] \/ f \in live[L + 1]
    BY <1>2 DEF Compacting
  <2>2. /\ \A l \in Levels : /\ live[l] \subseteq disk
                              /\ live[l] \cap (Condemned \cup job.out) = {}
        /\ job.out \cap Condemned = {}
    BY DEF FilesInv, LiveInv, OutputInv
  <2> QED  BY <1>2, <1>3, <2>1, <2>2
<1>7. job.out \subseteq disk /\ \A l \in Levels : live'[l] \subseteq disk
  BY <1>1, <1>3 DEF FilesInv, LiveInv, OutputInv
<1>8. LiveInv'
  <2>1. \A l \in Levels : live'[l] \subseteq disk' \cap readers'
    <3>1. \A l \in Levels : live'[l] \subseteq readers \cup job.out
      BY <1>3 DEF FilesInv, LiveInv
    <3> QED  BY <1>5, <1>6, <1>7, <3>1 DEF Condemned
  <2>2. \A l \in Levels : live'[l] \cap Condemned' = {}
    BY <1>5, <1>6
  <2>3. \A l, i \in Levels : l # i => live'[l] \cap live'[i] = {}
    BY <1>3 DEF FilesInv, LiveInv, OutputInv
  <2> QED  BY <2>1, <2>2, <2>3 DEF LiveInv
<1>9. PinnedInv' /\ OutputInv'
  BY <1>1, <1>4, <1>5 DEF FilesInv, PinnedInv, OutputInv
<1>10. FlushFileInv'
  <2> SUFFICES ASSUME flush.pc = "publish"
               PROVE  /\ flush.file \in disk' /\ flush.file \notin Condemned'
                      /\ \A l \in Levels : flush.file \notin live'[l]
    BY <1>1 DEF FlushFileInv
  <2>1. /\ flush.file \in disk /\ flush.file \notin old \cup job.out
        /\ \A l \in Levels : flush.file \notin live[l]
    BY <1>6 DEF FilesInv, FlushFileInv
  <2> QED  BY <1>3, <1>5, <2>1
<1>11. OwnerInv'
  <2> SUFFICES ASSUME faults = 0, NEW f \in disk'
               PROVE  \/ \E l \in Levels : f \in live'[l]
                      \/ f \in Condemned' \/ f = flush.file
    BY <1>1 DEF OwnerInv
  <2>1. f \in old => f \in Condemned'
    BY <1>5
  <2>2. \/ \E l \in Levels : f \in live[l]
        \/ f \in Condemned \cup job.out \/ f = flush.file
    BY <1>5 DEF FilesInv, OwnerInv
  <2> QED  BY <1>2, <1>3, <2>1, <2>2
<1> QED  BY <1>8, <1>9, <1>10, <1>11 DEF FilesInv

LEMMA CompactFiles ==
  ASSUME TypeOK, FilesInv, Compact
  PROVE  FilesInv'
BY BackgroundCompactFiles, UserCompactFiles, CleanupObsoleteFilesFiles,
   CompactReadFiles, CompactWriteFiles, CompactCommitFiles, CompactAbortFiles
   DEF Compact
-----------------------------------------------------------------------------
(* Queries, and the theorems.                                              *)

\* A new view holds live files only.
LEMMA ReadFiles ==
  ASSUME TypeOK, FilesInv, NEW r \in Readers, Read(r)
  PROVE  FilesInv'
<1>1. UNCHANGED <<live, readers, disk, obsolete, pendingDelete, sst, job,
                  flush, faults>>
  BY DEF Read, CaptureReadView, ReleaseReadView, versionVars, jobVars
<1>2. \A q \in Readers, l \in Levels :
        view'[q].files[l] \subseteq view[q].files[l] \cup live[l]
  <2>1. CASE CaptureReadView(r)
    BY <2>1 DEF CaptureReadView, TypeOK, ViewTypeOK
  <2>2. CASE ReleaseReadView(r)
    BY <2>2 DEF ReleaseReadView, NoReadView, NoFiles, TypeOK, ViewTypeOK
  <2> QED  BY <2>1, <2>2 DEF Read
<1>3. Pinned' \subseteq Pinned \cup UNION {live[l] : l \in Levels}
  BY <1>1, <1>2 DEF Pinned, Files
<1>4. LiveInv' /\ PinnedInv'
  BY <1>1, <1>3 DEF FilesInv, LiveInv, PinnedInv, Condemned
<1>5. OutputInv' /\ FlushFileInv' /\ OwnerInv'
  BY <1>1, <1>3 DEF FilesInv, OutputInv, FlushFileInv, OwnerInv, Condemned
<1> QED  BY <1>4, <1>5 DEF FilesInv

LEMMA InitFiles == Init => FilesInv
<1> SUFFICES ASSUME Init PROVE FilesInv
  OBVIOUS
<1>1. /\ \A l \in Levels : live[l] = {}
      /\ disk = {} /\ readers = {} /\ obsolete = {} /\ pendingDelete = {}
      /\ flush.pc = "idle" /\ job.pc = "none" /\ job.out = {} /\ Files = {}
  BY DEF Init, NoFiles, NoJob, Files
<1> QED  BY <1>1 DEF FilesInv, LiveInv, PinnedInv, OutputInv, FlushFileInv,
              OwnerInv, Condemned, Pinned

LEMMA NextFiles == TypeOK /\ FilesInv /\ [Next]_vars => FilesInv'
<1> SUFFICES ASSUME TypeOK, FilesInv, [Next]_vars PROVE FilesInv'
  OBVIOUS
<1>1. CASE UserFlush
  BY <1>1, FilesStayWithJob DEF UserFlush, versionVars, jobVars
<1>2. ASSUME NEW m \in Measurements, NEW s \in TtlSeconds, SetTTL(m, s)
      PROVE  FilesInv'
  BY <1>2, FilesStayWithJob DEF SetTTL, versionVars, jobVars
<1>3. CASE UNCHANGED vars
  BY <1>3, FilesStayWithJob DEF vars
<1> QED  BY <1>1, <1>2, <1>3, WriteFiles, FlushThreadFiles, CompactFiles,
            ReadFiles DEF Next

\* Every file has one owner: the version, a list of files to be deleted, a
\* job or the flush thread.
THEOREM FilesOwned == Spec => [](TypeOK /\ OrderInv /\ FilesInv)
<1>1. Init => TypeOK /\ OrderInv /\ FilesInv
  BY InitType, InitOrder, InitFiles
<1>2. TypeOK /\ OrderInv /\ FilesInv /\ [Next]_vars
        => (TypeOK /\ OrderInv /\ FilesInv)'
  BY NextType, NextOrder, NextFiles
<1> QED  BY <1>1, <1>2, PTL DEF Spec

\* No file is deleted under a query, under the compaction that reads it or
\* while the version refers to it, and every live file has a reader.
THEOREM NoFileVanishes == Spec => []FilesInUseKept
<1>1. TypeOK /\ OrderInv /\ FilesInv => FilesInUseKept
  <2> SUFFICES ASSUME TypeOK, OrderInv, FilesInv PROVE FilesInUseKept
    OBVIOUS
  <2>1. job.pc # "none" => InputsValid
    BY DEF OrderInv, InputsInv
  <2>2. job.pc # "none" => Compacting \subseteq disk
    BY <2>1, NamedFiles DEF InputsValid, Compacting, FilesInv, LiveInv
  <2> QED  BY <2>2 DEF FilesInUseKept, FilesInv, LiveInv, PinnedInv
<1> QED  BY <1>1, FilesOwned, PTL

\* Unless I/O failed no file is left behind on disk, and none that is to be
\* deleted is still in the version.
THEOREM NoFileLeaks == Spec => []NoOrphanFiles
<1>1. FilesInv => NoOrphanFiles
  <2> SUFFICES ASSUME FilesInv PROVE NoOrphanFiles
    OBVIOUS
  <2>1. PICK Live : Live = UNION {live[l] : l \in Levels}
    OBVIOUS
  <2>2. \A f : f \in Live <=> \E l \in Levels : f \in live[l]
    BY <2>1
  <2>3. (obsolete \cup pendingDelete) \cap Live = {}
    BY <2>2 DEF FilesInv, LiveInv, Condemned
  <2>4. faults = 0 => disk \subseteq Live \cup obsolete \cup pendingDelete
                                      \cup job.out \cup {flush.file}
    BY <2>2 DEF FilesInv, OwnerInv, Condemned
  <2> QED  BY <2>1, <2>3, <2>4 DEF NoOrphanFiles
<1> QED  BY <1>1, FilesOwned, PTL
-----------------------------------------------------------------------------
USE LimitsAssumption

(* Backpressure.                                                           *)

\* A writer that found room keeps mu_ until it has applied its operation,
\* so nobody takes the room away from it.
RoomInv ==
  /\ usage <= MemTableLimit
  /\ \A w \in Writers : writer[w].pc \in {"append", "apply"} =>
       lock = w /\ usage < MemTableLimit

\* The steps that leave the writers and mu_ alone; a rotation makes room.
LEMMA RoomKept ==
  ASSUME RoomInv, UNCHANGED <<writer, lock>>, usage' \in {usage, 0}
  PROVE  RoomInv'
BY DEF RoomInv

LEMMA WriteRoom ==
  ASSUME TypeOK, RoomInv, NEW w \in Writers, Write(w)
  PROVE  RoomInv'
<1> DEFINE Holds(u) == writer[u].pc \in {"append", "apply"}
<1>1. /\ usage \in Nat /\ lock \in Writers \cup {NoThread}
      /\ writer \in [Writers -> WriterState] /\ NoThread \notin Writers
      /\ usage <= MemTableLimit
      /\ \A u \in Writers : Holds(u) => lock = u /\ usage < MemTableLimit
  BY ThreadsAssumption DEF TypeOK, WritesTypeOK, TablesTypeOK, RoomInv
<1>2. ASSUME NEW ops, Begin(w, ops)
      PROVE  RoomInv'
  BY <1>1, <1>2 DEF Begin, RoomInv
<1>3. CASE MakeRoom(w)
  <2>1. lock \in {NoThread, w} /\ \A u \in Writers \ {w} : ~Holds(u)
    BY <1>1, <1>3 DEF MakeRoom
  <2>2. usage' = 0 \/ (usage' = usage /\ usage < MemTableLimit)
    BY <1>1, <1>3 DEF MakeRoom, Rotate, MemTableFull
  <2>3. \A u \in Writers \ {w} : writer'[u] = writer[u]
    BY <1>1, <1>3 DEF MakeRoom
  <2>4. writer'[w].pc \in {"append", "apply"} => lock' = w
    <3>1. writer' = [writer EXCEPT ![w].pc = "idle"] \/ lock' = w
      BY <1>3 DEF MakeRoom
    <3> QED  BY <1>1, <3>1 DEF WriterState
  <2>5. usage' \in Nat /\ usage' < MemTableLimit
    BY <1>1, <2>2
  <2> QED  BY <2>1, <2>3, <2>4, <2>5, <1>1 DEF RoomInv
<1>4. CASE WaitForRoom(w)
  <2>1. writer[w].pc = "applied" /\ lock = w /\ UNCHANGED <<usage, writer>>
    BY <1>4 DEF WaitForRoom
  <2> QED  BY <1>1, <2>1 DEF RoomInv
<1>5. CASE AppendToWal(w)
  <2>1. Holds(w) /\ usage' = usage
        /\ \A u \in Writers \ {w} : writer'[u] = writer[u]
    BY <1>1, <1>5 DEF AppendToWal
  <2>2. lock' = lock \/ writer'[w].pc = "idle"
    BY <1>1, <1>5 DEF AppendToWal
  <2> QED  BY <1>1, <2>1, <2>2 DEF RoomInv
<1>6. CASE Apply(w)
  <2>1. /\ Holds(w) /\ usage' = usage + 1
        /\ \A u \in Writers \ {w} : writer'[u] = writer[u]
    BY <1>1, <1>6 DEF Apply
  <2>2. writer'[w].pc = "applied"
    BY <1>1, <1>6 DEF Apply
  <2> QED  BY <1>1, <2>1, <2>2 DEF RoomInv
<1> QED  BY <1>2, <1>3, <1>4, <1>5, <1>6 DEF Write

LEMMA NextRoom == TypeOK /\ RoomInv /\ [Next]_vars => RoomInv'
<1> SUFFICES ASSUME TypeOK, RoomInv, [Next]_vars PROVE RoomInv'
  OBVIOUS
<1>1. CASE UserFlush
  BY <1>1, RoomKept DEF UserFlush, Rotate
<1>2. CASE FlushThread
  BY <1>2, RoomKept DEF FlushThread, FlushTake, FlushBuild, FlushPublish,
                        FlushAbandon, FlushSchedule, memVars
<1>3. CASE Compact
  <2>1. UNCHANGED memVars
    BY <1>3 DEF Compact, BackgroundCompact, UserCompact, CleanupObsoleteFiles,
                CompactRead, CompactWrite, CompactWriteFails, CompactCommit,
                CompactAbort
  <2> QED  BY <2>1, RoomKept DEF memVars
<1>4. ASSUME NEW m \in Measurements, NEW s \in TtlSeconds, SetTTL(m, s)
      PROVE  RoomInv'
  BY <1>4, RoomKept DEF SetTTL, memVars
<1>5. ASSUME NEW r \in Readers, Read(r) PROVE RoomInv'
  BY <1>5, RoomKept DEF Read, CaptureReadView, ReleaseReadView, memVars
<1>6. CASE UNCHANGED vars
  BY <1>6, RoomKept DEF vars
<1> QED  BY <1>1, <1>2, <1>3, <1>4, <1>5, <1>6, WriteRoom DEF Next

\* Although several writers wait for room, and a batch gives mu_ away when
\* it has to wait in the middle, no write goes to a memtable that is full.
THEOREM MemTableWithinLimit == Spec => []WriteBackpressure
<1>1. Init => TypeOK /\ RoomInv
  BY InitType DEF Init, RoomInv
<1>2. TypeOK /\ RoomInv /\ [Next]_vars => (TypeOK /\ RoomInv)'
  BY NextType, NextRoom
<1>3. RoomInv => WriteBackpressure
  BY DEF RoomInv, WriteBackpressure
<1> QED  BY <1>1, <1>2, <1>3, PTL DEF Spec
-----------------------------------------------------------------------------
(* Due compactions.                                                        *)

LEMMA LeastExists ==
  ASSUME NEW S \in SUBSET Nat, S # {}
  PROVE  \E x \in S : \A y \in S : x <= y
<1>1. \E x \in S : \A y \in S : ~(<<y, x>> \in OpToRel(<, Nat))
  BY WFMin, NatLessThanWellFounded
<1>2. PICK x \in S : \A y \in S : ~(y < x)
  BY <1>1 DEF OpToRel
<1> QED  BY <1>2

\* When a compaction is due PickCompactionWorkUnlocked finds one: level 0,
\* or the lowest level that is over its limit.
LEMMA DueCanBePicked ==
  ASSUME ShouldSchedule(live)
  PROVE  CanCompact(FALSE)
<1>1. CASE CompactL0(FALSE)
  <2>1. 0 \in Levels /\ CompactLevel(FALSE, 0)
    <3>1. 0 \in Levels /\ 0 \in 0 .. MaxLevel - 2
      BY DEF Levels
    <3> QED  BY <1>1, <3>1, Zenon DEF CompactLevel
  <2> QED  BY <2>1 DEF CanCompact
<1>2. CASE ~CompactL0(FALSE)
  <2> DEFINE S == {l \in 1 .. MaxLevel - 2 : OverLimit(live, l)}
  <2>1. Cardinality({}) = 0
    BY FS_EmptySet
  <2>2. ~(Cardinality(live[0]) >= L0CompactionTrigger)
    BY <1>2, <2>1 DEF CompactL0
  <2>3. S # {} /\ S \in SUBSET Nat
    BY <2>2 DEF ShouldSchedule
  <2> HIDE DEF S
  <2>4. PICK l \in S : \A i \in S : l <= i
    BY <2>3, LeastExists
  <2> USE DEF S
  <2>5. l \in Levels /\ CompactLevel(FALSE, l)
    <3>1. l \in 1 .. MaxLevel - 2 /\ OverLimit(live, l)
      OBVIOUS
    <3>2. \A i \in 1 .. l - 1 : ~OverLimit(live, i)
      BY <2>4, <3>1
    <3>3. l \in Levels /\ l \in 0 .. MaxLevel - 2 /\ l # 0
      BY <3>1 DEF Levels
    <3> QED  BY <1>2, <3>1, <3>2, <3>3, Zenon DEF CompactLevel
  <2> QED  BY <2>5 DEF CanCompact
<1> QED  BY <1>1, <1>2

\* What is due depends on the version only.
LEMMA DueKept ==
  ASSUME TypeOK, \A f \in Files : sst'[f] = sst[f], UNCHANGED live,
         ShouldSchedule(live)'
  PROVE  ShouldSchedule(live)
<1>1. ASSUME NEW l \in Levels
      PROVE  OverLimit(live, l)' <=> OverLimit(live, l)
  <2>1. {e \in live[l] \X Key : sst'[e[1]][e[2]] # 0}
          = {e \in live[l] \X Key : sst[e[1]][e[2]] # 0}
    BY NamedFiles
  <2> QED  BY <2>1 DEF OverLimit, LevelSize
<1>2. \A l \in 1 .. MaxLevel - 2 : l \in Levels
  BY DEF Levels
<1> QED  BY <1>1, <1>2 DEF ShouldSchedule

\* A step that neither changes the version nor forgets a request.
LEMMA PendingKept ==
  ASSUME TypeOK, DueCompactionPending, \A f \in Files : sst'[f] = sst[f],
         UNCHANGED <<live, compactionPending>>,
         job'.pc = "none" => job.pc = "none",
         flush.pc = "schedule" => flush'.pc = "schedule"
  PROVE  DueCompactionPending'
BY DueKept DEF DueCompactionPending

LEMMA FlushThreadPending ==
  ASSUME TypeOK, DueCompactionPending, \A f \in Files : sst'[f] = sst[f],
         FlushThread
  PROVE  DueCompactionPending'
<1>1. CASE FlushTake
  BY <1>1, PendingKept DEF FlushTake, versionVars, jobVars
<1>2. CASE FlushBuild
  BY <1>2, PendingKept DEF FlushBuild, jobVars
<1>3. CASE FlushPublish \/ FlushAbandon
  BY <1>3 DEF FlushPublish, FlushAbandon, DueCompactionPending
<1>4. CASE FlushSchedule
  BY <1>4, DueKept DEF FlushSchedule, versionVars, DueCompactionPending
<1> QED  BY <1>1, <1>2, <1>3, <1>4 DEF FlushThread

LEMMA CompactPending ==
  ASSUME TypeOK, DueCompactionPending, \A f \in Files : sst'[f] = sst[f],
         Compact
  PROVE  DueCompactionPending'
<1>1. ASSUME NEW l, NEW background, NEW cleanup,
             StartJob(l, background, cleanup)
      PROVE  job'.pc # "none"
  BY <1>1 DEF StartJob, NoJob
<1>2. CASE BackgroundCompact
  <2>1. CASE \E l \in Levels : StartJob(l, TRUE, TRUE)
    BY <1>1, <2>1 DEF DueCompactionPending
  <2>2. CASE UNCHANGED job /\ ~(job.pc = "none" /\ CanCompact(FALSE))
    <3>1. UNCHANGED live
      BY <1>2 DEF BackgroundCompact, versionVars
    <3> QED  BY <2>2, <3>1, DueKept, DueCanBePicked DEF DueCompactionPending
  <2> QED  BY <1>2, <2>1, <2>2, Zenon DEF BackgroundCompact
<1>3. ASSUME NEW cleanup \in BOOLEAN, UserCompact(cleanup)
      PROVE  DueCompactionPending'
  <2>1. CASE \E l \in Levels : StartJob(l, FALSE, cleanup)
    BY <1>1, <2>1 DEF DueCompactionPending
  <2>2. CASE UNCHANGED jobVars
    BY <1>3, <2>2, PendingKept DEF UserCompact, jobVars
  <2> QED  BY <1>3, <2>1, <2>2, Zenon DEF UserCompact
<1>4. CASE CleanupObsoleteFiles
  BY <1>4, PendingKept DEF CleanupObsoleteFiles, jobVars
<1>5. CASE CompactRead \/ CompactWrite \/ CompactWriteFails
  <2>1. job.pc # "none" /\ job'.pc # "none"
    BY <1>5 DEF CompactRead, CompactWrite, CompactWriteFails, TypeOK,
                JobTypeOK, JobState
  <2> QED  BY <2>1 DEF DueCompactionPending
<1>6. CASE CompactCommit \/ CompactAbort
  <2>1. sst' = sst /\ compactionPending' =
                        (compactionPending \/ ShouldSchedule(live'))
    BY <1>6 DEF CompactCommit, CompactAbort, EndJob
  <2>2. ShouldSchedule(live)' <=> ShouldSchedule(live')
    BY <2>1 DEF ShouldSchedule, OverLimit, LevelSize
  <2> QED  BY <2>1, <2>2 DEF DueCompactionPending
<1> QED  BY <1>2, <1>3, <1>4, <1>5, <1>6 DEF Compact

LEMMA NextPending ==
  TypeOK /\ DueCompactionPending /\ [Next]_vars => DueCompactionPending'
<1> SUFFICES ASSUME TypeOK, DueCompactionPending, [Next]_vars
             PROVE  DueCompactionPending'
  OBVIOUS
<1>1. \A f \in Files : sst'[f] = sst[f]
  BY FilesKept
<1>2. ASSUME NEW w \in Writers, Write(w) PROVE DueCompactionPending'
  <2>1. UNCHANGED <<live, job, compactionPending, flush>>
    BY <1>2, Zenon DEF Write, Begin, MakeRoom, WaitForRoom, AppendToWal,
                       Apply, versionVars, jobVars
  <2> QED  BY <1>1, <2>1, PendingKept
<1>3. CASE UserFlush
  BY <1>1, <1>3, PendingKept DEF UserFlush, versionVars, jobVars
<1>4. ASSUME NEW m \in Measurements, NEW s \in TtlSeconds, SetTTL(m, s)
      PROVE  DueCompactionPending'
  BY <1>1, <1>4, PendingKept DEF SetTTL, versionVars, jobVars
<1>5. ASSUME NEW r \in Readers, Read(r) PROVE DueCompactionPending'
  BY <1>1, <1>5, PendingKept DEF Read, CaptureReadView, ReleaseReadView,
                                 versionVars, jobVars
<1>6. CASE UNCHANGED vars
  BY <1>1, <1>6, PendingKept DEF vars
<1> QED  BY <1>1, <1>2, <1>3, <1>4, <1>5, <1>6, FlushThreadPending,
            CompactPending DEF Next

\* Whoever clears compaction_pending_, a compaction that is due is under way
\* or will be asked for again.
THEOREM DueCompactionNotForgotten == Spec => []DueCompactionPending
<1>1. Init => TypeOK /\ DueCompactionPending
  <2> SUFFICES ASSUME Init PROVE ~ShouldSchedule(live)
    BY InitType DEF DueCompactionPending
  <2>1. \A l \in Levels : live[l] = {}
    BY DEF Init, NoFiles
  <2>2. \A l \in Levels : LevelSize(live, l) = 0
    <3>1. Cardinality({}) = 0
      BY FS_EmptySet
    <3>2. \A l \in Levels : {e \in live[l] \X Key : sst[e[1]][e[2]] # 0} = {}
      BY <2>1
    <3> QED  BY <3>1, <3>2 DEF LevelSize
  <2>3. ASSUME NEW l \in 1 .. MaxLevel - 2 PROVE ~OverLimit(live, l)
    <3>1. \A p \in Nat : LevelSizeBase * p \in Nat
      OBVIOUS
    <3>2. l \in Levels /\ LevelSizeBase * 2 ^ l \in Nat
      BY <3>1, PowersAssumption DEF Levels
    <3> QED  BY <2>2, <3>2 DEF OverLimit
  <2>4. Cardinality(live[0]) = 0
    BY <2>1, FS_EmptySet DEF Levels
  <2> QED  BY <2>3, <2>4 DEF ShouldSchedule
<1>2. TypeOK /\ DueCompactionPending /\ [Next]_vars
        => (TypeOK /\ DueCompactionPending)'
  BY NextType, NextPending
<1> QED  BY <1>1, <1>2, PTL DEF Spec

-----------------------------------------------------------------------------
(* The inductive invariant.                                                *)

Below(A, B) == \A a \in A, b \in B : KeyLess(a, b)
Apart(A, B) == Below(A, B) \/ Below(B, A)

\* What a job on level 0 leaves in level 1 lies on one side of everything
\* it reads: of the range of level 0, and of what that range meets.
JobRanges ==
  job.pc # "none" /\ job.level = 0 =>
    \A g \in live[1] \ job.lower : Apart(KeysIn(g), KeysOf(Compacting))

\* Outputs are cut off one after the other.
OutputRanges ==
  job.pc = "write" =>
    /\ \A f, g \in job.out : f # g => Apart(KeysIn(f), KeysIn(g))
    /\ \A f \in job.out : Below(KeysIn(f), job.left)

RangesInv == Level1Disjoint /\ JobRanges /\ OutputRanges
-----------------------------------------------------------------------------
LEMMA KeyOrder ==
  /\ \A a, b, c \in Key : KeyLess(a, b) /\ KeyLess(b, c) => KeyLess(a, c)
  /\ \A f : KeysIn(f) \subseteq Key
<1>1. \A a \in Key : a[1] \in Int /\ a[2] \in Int
  BY KeysAssumption DEF Key
<1> QED  BY <1>1 DEF KeyLess, KeysIn, KeysHeld

LEMMA ApartFiles ==
  Level1Disjoint <=>
    \A f, g \in live[1] : f # g => Apart(KeysIn(f), KeysIn(g))
BY DEF Level1Disjoint, Apart, Below

\* The steps that neither write an output nor change the version.
LEMMA RangesKept ==
  ASSUME TypeOK, RangesInv, \A f \in Files : sst'[f] = sst[f],
         UNCHANGED <<live, job>>
  PROVE  RangesInv'
<1>1. \A f \in Files : KeysIn(f)' = KeysIn(f)
  BY DEF KeysIn, KeysHeld
<1>2. /\ live[1] \subseteq Files /\ job.out \subseteq Files
      /\ Compacting \subseteq Files
  BY NamedFiles
<1>3. KeysOf(Compacting)' = KeysOf(Compacting)
  BY <1>1, <1>2 DEF KeysOf, Compacting
<1>4. Level1Disjoint'
  BY <1>1, <1>2 DEF RangesInv, Level1Disjoint
<1>5. JobRanges'
  BY <1>1, <1>2, <1>3 DEF RangesInv, JobRanges, Apart, Below
<1>6. OutputRanges'
  BY <1>1, <1>2 DEF RangesInv, OutputRanges, Apart, Below
<1> QED  BY <1>4, <1>5, <1>6 DEF RangesInv

\* A file of level 1 that a job on level 0 leaves out does not lie between
\* level 0 and an input of level 1, for these two meet.
LEMMA StartJobRanges ==
  ASSUME TypeOK, RangesInv, NEW l \in 0 .. MaxLevel - 2,
         NEW background, NEW cleanup, StartJob(l, background, cleanup),
         UNCHANGED <<live, sst>>
  PROVE  RangesInv'
<1>1. Level1Disjoint' /\ job'.pc = "read"
  BY DEF RangesInv, Level1Disjoint, KeysIn, StartJob, NoJob
<1>2. OutputRanges'
  BY <1>1 DEF OutputRanges
<1>3. JobRanges'
  <2> SUFFICES ASSUME l = 0, NEW g \in live[1] \ job'.lower
               PROVE  Apart(KeysIn(g), KeysOf(Compacting)')
    BY DEF JobRanges, StartJob, NoJob, KeysIn
  <2> DEFINE U == KeysOf(live[0])
  <2>1. /\ job'.upper = live[0]
        /\ job'.lower = {f \in live[1] : Overlaps(f, live[0])}
    BY DEF StartJob, NoJob
  <2>2. KeysOf(Compacting)' = U \cup KeysOf(job'.lower)
    BY <2>1 DEF KeysOf, Compacting, KeysIn
  <2>3. U \subseteq Key
    BY KeyOrder DEF KeysOf
  <2>4. Apart(KeysIn(g), U)
    BY <2>1 DEF Overlaps, Apart, Below
  <2>5. ASSUME NEW h \in job'.lower
        PROVE  /\ Apart(KeysIn(g), KeysIn(h)) /\ ~Apart(KeysIn(h), U)
    BY <2>1, <2>5, ApartFiles DEF RangesInv, Overlaps, Apart, Below
  <2> HIDE DEF U
  <2>6. CASE Below(KeysIn(g), U)
    <3>1. ASSUME NEW h \in job'.lower, KeysIn(g) # {}
          PROVE  Below(KeysIn(g), KeysIn(h))
      BY <2>3, <2>5, <2>6, <3>1, KeyOrder DEF Apart, Below
    <3> QED  BY <2>2, <2>6, <3>1 DEF Apart, Below, KeysOf
  <2>7. CASE Below(U, KeysIn(g))
    <3>1. ASSUME NEW h \in job'.lower, KeysIn(g) # {}
          PROVE  Below(KeysIn(h), KeysIn(g))
      BY <2>3, <2>5, <2>7, <3>1, KeyOrder DEF Apart, Below
    <3> QED  BY <2>2, <2>7, <3>1 DEF Apart, Below, KeysOf
  <2> QED  BY <2>4, <2>6, <2>7 DEF Apart
<1> QED  BY <1>1, <1>2, <1>3 DEF RangesInv

LEMMA StartRanges ==
  ASSUME TypeOK, RangesInv,
         BackgroundCompact \/ \E cleanup \in BOOLEAN : UserCompact(cleanup)
  PROVE  RangesInv'
<1>1. UNCHANGED <<live, sst>>
  BY DEF BackgroundCompact, UserCompact, versionVars
<1>2. CASE \E l \in 0 .. MaxLevel - 2, background, cleanup \in BOOLEAN :
             StartJob(l, background, cleanup)
  BY <1>1, <1>2, StartJobRanges
<1>3. CASE UNCHANGED job
  BY <1>1, <1>3, RangesKept
<1>4. CASE BackgroundCompact
  BY <1>2, <1>3, <1>4, Zenon DEF BackgroundCompact, CompactLevel
<1>5. ASSUME NEW cleanup \in BOOLEAN, UserCompact(cleanup)
      PROVE  RangesInv'
  BY <1>2, <1>3, <1>5, Zenon DEF UserCompact, CompactLevel, jobVars
<1> QED  BY <1>4, <1>5

LEMMA CompactReadRanges ==
  ASSUME TypeOK, OrderInv, RangesInv, CompactRead
  PROVE  RangesInv'
<1>1. UNCHANGED <<live, sst>> /\ job.pc = "read"
  BY DEF CompactRead, versionVars
<1>2. /\ job'.pc = "write" /\ job'.level = job.level /\ job'.out = {}
      /\ job'.upper = job.upper /\ job'.lower = job.lower
  BY <1>1 DEF CompactRead, TypeOK, JobTypeOK, JobState, OrderInv, OutputsInv
<1>3. Level1Disjoint' /\ JobRanges'
  BY <1>1, <1>2 DEF RangesInv, Level1Disjoint, JobRanges, KeysIn, KeysOf,
                    Compacting, Apart, Below
<1>4. OutputRanges'
  BY <1>2 DEF OutputRanges
<1> QED  BY <1>3, <1>4 DEF RangesInv

\* An output takes a first stretch of the keys that are left.
LEMMA CompactWriteRanges ==
  ASSUME TypeOK, OrderInv, RangesInv, CompactWrite,
         \A f \in Files : sst'[f] = sst[f]
  PROVE  RangesInv'
<1>0. PICK n : n = NewFileNumber
  OBVIOUS
<1>1. UNCHANGED live /\ job.pc = "write"
  BY DEF CompactWrite
<1>2. PICK P \in SUBSET job.left :
        /\ Below(P, job.left \ P)
        /\ sst' = Append(sst, [k \in Key |->
                                 IF k \in P THEN job.merged[k] ELSE 0])
        /\ job' = [job EXCEPT !.left = @ \ P, !.out = @ \cup {n}]
  BY <1>0 DEF CompactWrite, Below
<1>3. /\ job'.pc = "write" /\ job'.left = job.left \ P
      /\ job'.level = job.level /\ job'.upper = job.upper
      /\ job'.lower = job.lower /\ job'.out = job.out \cup {n}
  BY <1>1, <1>2 DEF TypeOK, JobTypeOK, JobState
<1>4. KeysIn(n)' = P /\ n \notin Files
  <2>1. /\ sst'[n] = [k \in Key |-> IF k \in P THEN job.merged[k] ELSE 0]
        /\ n \notin Files
    BY <1>0, <1>2 DEF NewFileNumber, Files, TypeOK, TablesTypeOK
  <2>2. job.left = KeysHeld(job.merged) \ KeysOf(job.out)
    BY <1>1 DEF OrderInv, OutputsInv
  <2> QED  BY <2>1, <2>2 DEF KeysIn, KeysHeld
<1>5. \A f \in Files : KeysIn(f)' = KeysIn(f)
  BY DEF KeysIn, KeysHeld
<1>6. /\ live[1] \subseteq Files /\ job.out \subseteq Files
      /\ Compacting \subseteq Files
  BY NamedFiles
<1>7. Level1Disjoint'
  BY <1>1, <1>5, <1>6 DEF RangesInv, Level1Disjoint
<1>8. JobRanges'
  <2>1. Compacting' = Compacting /\ KeysOf(Compacting)' = KeysOf(Compacting)
    BY <1>3, <1>5, <1>6 DEF Compacting, KeysOf
  <2> QED  BY <1>1, <1>3, <1>5, <1>6, <2>1 DEF RangesInv, JobRanges, Apart,
                                               Below
<1>9. OutputRanges'
  <2>1. \A f \in job.out : KeysIn(f)' = KeysIn(f) /\ f # n
                            /\ Below(KeysIn(f), job.left)
    BY <1>1, <1>4, <1>5, <1>6 DEF RangesInv, OutputRanges
  <2>2. \A f \in job.out : Below(KeysIn(f), P) /\ Below(KeysIn(f), job.left \ P)
    BY <2>1 DEF Below
  <2>3. \A f, g \in job.out : f # g => Apart(KeysIn(f), KeysIn(g))
    BY <1>1 DEF RangesInv, OutputRanges
  <2> QED  BY <1>2, <1>3, <1>4, <2>1, <2>2, <2>3 DEF OutputRanges, Apart, Below
<1> QED  BY <1>7, <1>8, <1>9 DEF RangesInv

LEMMA CompactWriteFailsRanges ==
  ASSUME TypeOK, RangesInv, CompactWriteFails,
         \A f \in Files : sst'[f] = sst[f]
  PROVE  RangesInv'
<1>1. /\ UNCHANGED live /\ job.pc = "write" /\ job'.pc = "failed"
      /\ job'.level = job.level /\ job'.upper = job.upper
      /\ job'.lower = job.lower
  BY DEF CompactWriteFails, TypeOK, JobTypeOK, JobState
<1>2. \A f \in Files : KeysIn(f)' = KeysIn(f)
  BY DEF KeysIn, KeysHeld
<1>3. live[1] \subseteq Files /\ Compacting \subseteq Files
  BY NamedFiles
<1>4. Level1Disjoint' /\ OutputRanges'
  BY <1>1, <1>2, <1>3 DEF RangesInv, Level1Disjoint, OutputRanges
<1>5. JobRanges'
  <2>1. KeysOf(Compacting)' = KeysOf(Compacting)
    BY <1>1, <1>2, <1>3 DEF Compacting, KeysOf
  <2> QED  BY <1>1, <1>2, <1>3, <2>1 DEF RangesInv, JobRanges, Apart, Below
<1> QED  BY <1>4, <1>5 DEF RangesInv

\* The outputs of a job on level 0 hold keys of its inputs only, so the
\* files it left out stay on one side of each.
LEMMA CompactCommitRanges ==
  ASSUME TypeOK, OrderInv, RangesInv, CompactCommit
  PROVE  RangesInv'
<1>1. /\ UNCHANGED sst /\ job'.pc = "none" /\ job.pc = "write"
      /\ live' = [live EXCEPT ![job.level] = @ \ job.upper,
                    ![job.level + 1] = (@ \ job.lower) \cup job.out]
  BY DEF CompactCommit, EndJob, NoJob, Finished
<1>2. /\ job.level \in Nat /\ job.level \in Levels /\ 1 \in Levels
      /\ job.level + 1 \in Levels
  BY NamedFiles DEF Levels
<1>3. JobRanges' /\ OutputRanges'
  BY <1>1 DEF JobRanges, OutputRanges
<1>0. \A f : KeysIn(f)' = KeysIn(f)
  BY <1>1 DEF KeysIn, KeysHeld
<1>4. CASE job.level # 0
  <2>1. live'[1] \subseteq live[1]
    BY <1>1, <1>2, <1>4 DEF TypeOK, VersionTypeOK, LevelFiles
  <2>2. Level1Disjoint'
    BY <1>0, <2>1 DEF RangesInv, Level1Disjoint
  <2> QED  BY <1>3, <2>2 DEF RangesInv
<1>5. CASE job.level = 0
  <2>1. live'[1] = (live[1] \ job.lower) \cup job.out
    BY <1>1, <1>2, <1>5 DEF TypeOK, VersionTypeOK, LevelFiles
  <2>2. \A f \in job.out : KeysIn(f) \subseteq KeysOf(Compacting)
    <3> SUFFICES ASSUME NEW f \in job.out, NEW k \in Key, sst[f][k] # 0
                 PROVE  k \in KeysOf(Compacting)
      BY DEF KeysIn, KeysHeld
    <3>1. \E h \in Compacting : sst[h][k] # 0
      BY <1>1 DEF OrderInv, OutputsInv, KeysHeld
    <3> QED  BY <3>1 DEF KeysOf, KeysIn, KeysHeld
  <2>3. \A g \in live[1] \ job.lower, f \in job.out :
          Apart(KeysIn(g), KeysIn(f))
    BY <1>1, <1>5, <2>2 DEF RangesInv, JobRanges, Apart, Below
  <2>4. \A f, g \in live'[1] : f # g => Apart(KeysIn(f), KeysIn(g))
    <3>1. \A f, g \in live[1] : f # g => Apart(KeysIn(f), KeysIn(g))
      BY ApartFiles DEF RangesInv
    <3>2. \A f, g \in job.out : f # g => Apart(KeysIn(f), KeysIn(g))
      BY <1>1 DEF RangesInv, OutputRanges
    <3>3. \A f, g : Apart(KeysIn(f), KeysIn(g)) => Apart(KeysIn(g), KeysIn(f))
      BY DEF Apart
    <3> QED  BY <2>1, <2>3, <3>1, <3>2, <3>3
  <2>5. Level1Disjoint'
    BY <1>0, <2>4 DEF Level1Disjoint, Apart, Below
  <2> QED  BY <1>3, <2>5 DEF RangesInv
<1> QED  BY <1>4, <1>5

LEMMA CompactRanges ==
  ASSUME TypeOK, OrderInv, RangesInv, Compact,
         \A f \in Files : sst'[f] = sst[f]
  PROVE  RangesInv'
<1>1. CASE CleanupObsoleteFiles
  BY <1>1, RangesKept DEF CleanupObsoleteFiles, jobVars
<1>2. CASE CompactAbort
  BY <1>2 DEF CompactAbort, EndJob, NoJob, RangesInv, Level1Disjoint, KeysIn,
              JobRanges, OutputRanges
<1> QED  BY <1>1, <1>2, StartRanges, CompactReadRanges, CompactWriteRanges,
            CompactWriteFailsRanges, CompactCommitRanges DEF Compact
-----------------------------------------------------------------------------
LEMMA NextRanges == TypeOK /\ OrderInv /\ RangesInv /\ [Next]_vars => RangesInv'
<1> SUFFICES ASSUME TypeOK, OrderInv, RangesInv, [Next]_vars PROVE RangesInv'
  OBVIOUS
<1>1. \A f \in Files : sst'[f] = sst[f]
  BY FilesKept
<1>2. ASSUME NEW w \in Writers, Write(w) PROVE RangesInv'
  <2>1. UNCHANGED <<live, job>>
    BY <1>2, Zenon DEF Write, Begin, MakeRoom, WaitForRoom, AppendToWal,
                       Apply, versionVars, jobVars
  <2> QED  BY <1>1, <2>1, RangesKept
<1>3. CASE UserFlush
  BY <1>1, <1>3, RangesKept DEF UserFlush, versionVars, jobVars
<1>4. CASE FlushThread
  <2>1. CASE ~FlushPublish
    <3>1. UNCHANGED <<live, job>>
      BY <1>4, <2>1 DEF FlushThread, FlushTake, FlushBuild, FlushAbandon,
                        FlushSchedule, versionVars, jobVars
    <3> QED  BY <1>1, <3>1, RangesKept
  <2>2. CASE FlushPublish
    <3>1. UNCHANGED <<sst, job>> /\ live'[1] = live[1]
      BY <2>2, NamedFiles DEF FlushPublish, jobVars, TypeOK, VersionTypeOK,
                              LevelFiles
    <3> QED  BY <3>1 DEF RangesInv, Level1Disjoint, JobRanges, OutputRanges,
                         KeysIn, KeysOf, Compacting, Apart, Below
  <2> QED  BY <2>1, <2>2
<1>5. ASSUME NEW m \in Measurements, NEW s \in TtlSeconds, SetTTL(m, s)
      PROVE  RangesInv'
  BY <1>1, <1>5, RangesKept DEF SetTTL, versionVars, jobVars
<1>6. ASSUME NEW r \in Readers, Read(r) PROVE RangesInv'
  BY <1>1, <1>6, RangesKept DEF Read, CaptureReadView, ReleaseReadView,
                                versionVars, jobVars
<1>7. CASE UNCHANGED vars
  BY <1>1, <1>7, RangesKept DEF vars
<1> QED  BY <1>1, <1>2, <1>3, <1>4, <1>5, <1>6, <1>7, CompactRanges DEF Next

\* A job takes every file of level 1 that its outputs could meet, so the
\* ranges of two files there never do.
THEOREM LevelOneRangesDisjoint == Spec => []Level1Disjoint
<1>1. Init => TypeOK /\ OrderInv /\ RangesInv
  <2>1. Init => RangesInv
    BY DEF Init, NoFiles, NoJob, Levels, RangesInv, Level1Disjoint, JobRanges,
           OutputRanges
  <2> QED  BY <2>1, InitType, InitOrder
<1>2. TypeOK /\ OrderInv /\ RangesInv /\ [Next]_vars
        => (TypeOK /\ OrderInv /\ RangesInv)'
  BY NextType, NextOrder, NextRanges
<1>3. RangesInv => Level1Disjoint
  BY DEF RangesInv
<1> QED  BY <1>1, <1>2, <1>3, PTL DEF Spec
=============================================================================

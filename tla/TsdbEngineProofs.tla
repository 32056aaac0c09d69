-------------------------- MODULE TsdbEngineProofs --------------------------
(***************************************************************************)
(* The proofs, for every number of threads, keys, levels and writes and    *)
(* every limit, of the type invariant of TsdbEngine and that the layers a  *)
(* query searches are ordered by age; and the lemmas on tables and files   *)
(* the other proofs use.                                                   *)
(***************************************************************************)
EXTENDS EngineOrder, TLAPS, FunctionTheorems, SequenceTheorems,
        FiniteSetTheorems, WellFoundedInduction

\* Appending to the history of the writes keeps every table a table, since
\* a position of the log stays one.
LEMMA ContentGrows ==
  ASSUME WritesTypeOK, NEW op \in Op, log' = Append(log, op)
  PROVE  /\ Len(log') = Len(log) + 1
         /\ Content \subseteq Content'
         /\ \A s \in Seq(Content) : s \in Seq(Content')
<1>1. Len(log') = Len(log) + 1
  BY DEF WritesTypeOK
<1>2. Content \subseteq Content'
  BY <1>1 DEF Content, WritesTypeOK
<1> QED  BY <1>1, <1>2

\* A new file number leaves the older ones valid.
LEMMA FilesGrow ==
  ASSUME TablesTypeOK, NEW c \in Content, sst' = Append(sst, c),
         UNCHANGED log
  PROVE  /\ Files' = Files \cup {NewFileNumber}
         /\ NewFileNumber \notin Files /\ NewFileNumber \in 0 .. Len(sst')
         /\ sst' \in Seq(Content)' /\ Content' = Content
         /\ Len(sst') = Len(sst) + 1
         /\ FileNumbers \subseteq FileNumbers'
         /\ LevelFiles \subseteq LevelFiles'
<1>1. Len(sst') = Len(sst) + 1 /\ Len(sst) \in Nat
  BY DEF TablesTypeOK
<1>2. Content' = Content
  BY DEF Content
<1>3. sst' \in Seq(Content)
  BY DEF TablesTypeOK
<1>4. Files' = Files \cup {NewFileNumber} /\ NewFileNumber \notin Files
  BY <1>1 DEF Files, NewFileNumber
<1>5. FileNumbers \subseteq FileNumbers'
  BY <1>4 DEF FileNumbers
<1>6. LevelFiles \subseteq LevelFiles'
  BY <1>5 DEF LevelFiles
<1> QED  BY <1>1, <1>2, <1>3, <1>4, <1>5, <1>6 DEF NewFileNumber

-----------------------------------------------------------------------------
(* Type correctness, one lemma per group of actions.                       *)

LEMMA DefaultsType ==
  ASSUME Len(log) \in Nat
  PROVE  Nothing \in Content /\ NoTtl \in TtlMap /\ NoFiles \in LevelFiles
<1> QED  BY DEF Nothing, Content, NoTtl, TtlMap, TtlRule, NoFiles, LevelFiles,
                FileNumbers

LEMMA InitType == Init => TypeOK
<1> SUFFICES ASSUME Init PROVE TypeOK
  OBVIOUS
<1>1. Len(log) = 0 /\ Len(heap) = 1 /\ Len(sst) = 0
  BY DEF Init
<1>2. Nothing \in Content
  BY <1>1, DefaultsType
<1>3. WritesTypeOK
  BY <1>1, DefaultsType DEF Init, WritesTypeOK, WriterState
<1>4. TablesTypeOK
  BY <1>1, <1>2 DEF Init, TablesTypeOK, FlushState
<1>5. VersionTypeOK
  BY DefaultsType DEF Init, VersionTypeOK, FileNumbers
<1>6. NoJob \in JobState
  BY <1>2, DefaultsType, LimitsAssumption DEF NoJob, JobState, FileNumbers
<1>7. JobTypeOK
  BY <1>6 DEF Init, JobTypeOK
<1>8. ViewTypeOK
  BY <1>1, DefaultsType DEF Init, ViewTypeOK, ViewState, NoReadView
<1> QED  BY <1>3, <1>4, <1>5, <1>7, <1>8 DEF TypeOK

\* What a step that leaves the log and the files alone keeps.
LEMMA VersionKept ==
  ASSUME VersionTypeOK, UNCHANGED versionVars PROVE VersionTypeOK'
BY DEF VersionTypeOK, versionVars, LevelFiles, FileNumbers, Files

LEMMA JobKept ==
  ASSUME JobTypeOK, UNCHANGED <<jobVars, log, sst>> PROVE JobTypeOK'
BY DEF JobTypeOK, JobState, jobVars, FileNumbers, Files, Content

LEMMA ViewKept ==
  ASSUME ViewTypeOK, UNCHANGED <<view, log, sst>>,
         Len(heap) \in Nat, Len(heap') \in Nat, Len(heap) <= Len(heap')
  PROVE  ViewTypeOK'
<1>1. 0 .. Len(heap) \subseteq 0 .. Len(heap')
  OBVIOUS
<1> QED  BY <1>1 DEF ViewTypeOK, ViewState, LevelFiles, FileNumbers, Files

\* Rotation adds an empty table.
LEMMA RotateType ==
  ASSUME TypeOK, Rotate, UNCHANGED log
  PROVE  /\ heap' \in Seq(Content)' /\ heap' # <<>> /\ usage' \in Nat
         /\ imm' \in 0 .. Len(heap') /\ Len(heap') = Len(heap) + 1
         /\ Len(heap) \in Nat
<1>1. Nothing \in Content
  BY DefaultsType DEF TypeOK, WritesTypeOK
<1>2. Content' = Content
  BY DEF Content
<1> QED  BY <1>1, <1>2 DEF TypeOK, TablesTypeOK, Rotate

LEMMA WriterStep ==
  ASSUME WritesTypeOK, NEW w \in Writers, NEW s \in Seq(Op),
         NEW p \in {"idle", "begin", "append", "apply", "applied"}
  PROVE  /\ writer[w].ops \in Seq(Op)
         /\ writer[w].ops # <<>> \/ p \notin {"append", "apply"}
              => [writer EXCEPT ![w].pc = p] \in [Writers -> WriterState]
         /\ s # <<>> \/ p \notin {"append", "apply"}
              => [writer EXCEPT ![w] = [pc |-> p, ops |-> s]]
                   \in [Writers -> WriterState]
<1>1. writer[w] \in WriterState /\ writer \in [Writers -> WriterState]
  BY DEF WritesTypeOK
<1>2. ASSUME s # <<>> \/ p \notin {"append", "apply"}
      PROVE  [pc |-> p, ops |-> s] \in WriterState
  BY <1>2 DEF WriterState
<1>3. ASSUME writer[w].ops # <<>> \/ p \notin {"append", "apply"}
      PROVE  [writer[w] EXCEPT !.pc = p] \in WriterState
  BY <1>1, <1>3 DEF WriterState
<1> QED  BY <1>1, <1>2, <1>3 DEF WriterState

LEMMA BeginType ==
  ASSUME TypeOK, NEW w \in Writers, NEW ops \in Batches, Begin(w, ops)
  PROVE  TypeOK'
<1>1. ops \in Seq(Op) /\ Len(ops) \in Nat
  BY DEF Batches
<1>2. WritesTypeOK'
  <2>1. writer' \in [Writers -> WriterState]
    BY <1>1, WriterStep DEF Begin, TypeOK
  <2> QED  BY <1>1, <2>1 DEF TypeOK, WritesTypeOK, Begin
<1>3. TablesTypeOK'
  BY DEF TypeOK, TablesTypeOK, FlushState, Begin, versionVars,
         Content
<1>4. VersionTypeOK'
  BY VersionKept DEF TypeOK, Begin
<1>5. JobTypeOK'
  BY JobKept DEF TypeOK, Begin, versionVars
<1>6. ViewTypeOK'
  BY ViewKept DEF TypeOK, TablesTypeOK, Begin, versionVars
<1> QED  BY <1>2, <1>3, <1>4, <1>5, <1>6 DEF TypeOK

LEMMA MakeRoomType ==
  ASSUME TypeOK, NEW w \in Writers, MakeRoom(w)
  PROVE  TypeOK'
<1>1. WritesTypeOK'
  <2>1. <<>> \in Seq(Op)
    OBVIOUS
  <2>2. \A p \in {"idle", "append", "apply"} :
          writer[w].ops # <<>> \/ p = "idle" =>
            [writer EXCEPT ![w].pc = p] \in [Writers -> WriterState]
    BY <2>1, WriterStep DEF TypeOK
  <2>3. writer' \in [Writers -> WriterState]
    <3>1. CASE writer[w].ops = <<>>
      BY <2>2, <3>1 DEF MakeRoom
    <3>2. CASE writer[w].ops # <<>>
      <4>1. \E p \in {"append", "apply"} :
              writer' = [writer EXCEPT ![w].pc = p]
        BY <3>2 DEF MakeRoom, TypeOK, WritesTypeOK
      <4> QED  BY <2>2, <3>2, <4>1
    <3> QED  BY <3>1, <3>2
  <2> QED  BY <2>3 DEF TypeOK, WritesTypeOK, MakeRoom
<1>2. TablesTypeOK' /\ Len(heap) \in Nat /\ Len(heap) <= Len(heap')
      /\ Len(heap') \in Nat
  <2>1. CASE MemTableFull
    <3>1. Rotate /\ UNCHANGED <<log, flush, sst>>
      BY <2>1 DEF MakeRoom, versionVars
    <3>2. flush' \in FlushState'
      BY <3>1, RotateType DEF TypeOK, TablesTypeOK, FlushState
    <3> QED  BY <3>1, <3>2, RotateType DEF TypeOK, TablesTypeOK, Content
  <2>2. CASE ~MemTableFull
    BY <2>2 DEF TypeOK, TablesTypeOK, FlushState, MakeRoom, versionVars,
            Content
  <2> QED  BY <2>1, <2>2
<1>3. VersionTypeOK'
  BY VersionKept DEF TypeOK, MakeRoom
<1>4. JobTypeOK'
  BY JobKept DEF TypeOK, MakeRoom, versionVars
<1>5. ViewTypeOK'
  BY <1>2, ViewKept DEF TypeOK, MakeRoom, versionVars
<1> QED  BY <1>1, <1>2, <1>3, <1>4, <1>5 DEF TypeOK

LEMMA WaitForRoomType ==
  ASSUME TypeOK, NEW w \in Writers, WaitForRoom(w)
  PROVE  TypeOK'
<1>1. WritesTypeOK'
  BY DEF TypeOK, WritesTypeOK, WaitForRoom
<1>2. TablesTypeOK'
  BY DEF TypeOK, TablesTypeOK, FlushState, WaitForRoom, versionVars,
         Content
<1>3. VersionTypeOK'
  BY VersionKept DEF TypeOK, WaitForRoom
<1>4. JobTypeOK'
  BY JobKept DEF TypeOK, WaitForRoom, versionVars
<1>5. ViewTypeOK'
  BY ViewKept DEF TypeOK, TablesTypeOK, WaitForRoom, versionVars
<1> QED  BY <1>1, <1>2, <1>3, <1>4, <1>5 DEF TypeOK

LEMMA AppendToWalType ==
  ASSUME TypeOK, NEW w \in Writers, AppendToWal(w)
  PROVE  TypeOK'
<1>1. WritesTypeOK'
  <2>1. <<>> \in Seq(Op)
    OBVIOUS
  <2>2. writer[w].pc = "append" => writer[w].ops # <<>>
    BY DEF TypeOK, WritesTypeOK, WriterState
  <2>3. /\ writer[w].pc = "append" =>
             [writer EXCEPT ![w].pc = "apply"] \in [Writers -> WriterState]
        /\ [writer EXCEPT ![w] = [pc |-> "idle", ops |-> <<>>]]
             \in [Writers -> WriterState]
    BY <2>1, <2>2, WriterStep DEF TypeOK
  <2>4. writer' \in [Writers -> WriterState]
    BY <2>3 DEF AppendToWal
  <2>5. faults' \in Nat
    BY DEF TypeOK, WritesTypeOK, AppendToWal, Fail
  <2> QED  BY <2>4, <2>5 DEF TypeOK, WritesTypeOK, AppendToWal
<1>2. TablesTypeOK'
  BY DEF TypeOK, TablesTypeOK, FlushState, AppendToWal, versionVars,
         Content
<1>3. VersionTypeOK'
  BY VersionKept DEF TypeOK, AppendToWal
<1>4. JobTypeOK'
  BY JobKept DEF TypeOK, AppendToWal, versionVars
<1>5. ViewTypeOK'
  BY ViewKept DEF TypeOK, TablesTypeOK, AppendToWal, versionVars
<1> QED  BY <1>1, <1>2, <1>3, <1>4, <1>5 DEF TypeOK

LEMMA UserFlushType ==
  ASSUME TypeOK, UserFlush
  PROVE  TypeOK'
<1>1. Rotate /\ UNCHANGED <<log, flush, sst>>
  BY DEF UserFlush, versionVars
<1>2. WritesTypeOK'
  BY DEF TypeOK, WritesTypeOK, UserFlush, Call
<1>3. TablesTypeOK' /\ Len(heap) \in Nat /\ Len(heap) <= Len(heap')
      /\ Len(heap') \in Nat
  <2>1. flush' \in FlushState'
    BY <1>1, RotateType DEF TypeOK, TablesTypeOK, FlushState
  <2> QED  BY <1>1, <2>1, RotateType DEF TypeOK, TablesTypeOK, Content
<1>4. VersionTypeOK'
  BY VersionKept DEF TypeOK, UserFlush
<1>5. JobTypeOK'
  BY <1>1, JobKept DEF TypeOK, UserFlush
<1>6. ViewTypeOK'
  BY <1>1, <1>3, ViewKept DEF TypeOK, UserFlush
<1> QED  BY <1>2, <1>3, <1>4, <1>5, <1>6 DEF TypeOK

LEMMA ApplyType ==
  ASSUME TypeOK, NEW w \in Writers, Apply(w)
  PROVE  /\ TypeOK'
         /\ Head(writer[w].ops) \in Op
         /\ Len(log') = Len(log) + 1 /\ Len(log) \in Nat
         /\ Len(heap') = Len(heap) /\ Len(heap) \in 1 .. Len(heap)
         /\ heap' \in Seq(Content')
<1> DEFINE op == Head(writer[w].ops)
<1>1. op \in Op /\ op.key \in Key /\ Tail(writer[w].ops) \in Seq(Op)
  <2>1. writer[w].ops \in Seq(Op) /\ writer[w].ops # <<>>
    <3>1. writer[w] \in WriterState /\ writer[w].pc = "apply"
      BY DEF TypeOK, WritesTypeOK, Apply
    <3> QED  BY <3>1, SMTT(20) DEF WriterState
  <2>2. op \in Op /\ Tail(writer[w].ops) \in Seq(Op)
    <3>1. \A s \in Seq(Op) : s # <<>> => Head(s) \in Op /\ Tail(s) \in Seq(Op)
      BY HeadTailProperties, Zenon
    <3> QED  BY <2>1, <3>1
  <2> QED  BY <2>2 DEF Op
<1>2. /\ log' = Append(log, op) /\ usage' = usage + 1
      /\ heap' = [heap EXCEPT ![Len(heap)][op.key] = Len(log) + 1]
      /\ UNCHANGED <<issued, imm, lock, faults, dropped, flush, calls, view,
                     sst>>
      /\ UNCHANGED <<versionVars, jobVars>>
  BY DEF Apply, versionVars
<1>3. /\ Len(log') = Len(log) + 1 /\ Len(log) \in Nat
      /\ Content \subseteq Content'
      /\ \A s \in Seq(Content) : s \in Seq(Content')
      /\ 0 .. Len(log) \subseteq 0 .. Len(log')
  <2> HIDE DEF op
  <2>1. /\ Len(log') = Len(log) + 1 /\ Content \subseteq Content'
        /\ \A s \in Seq(Content) : s \in Seq(Content')
    BY <1>1, <1>2, ContentGrows DEF TypeOK
  <2>2. Len(log) \in Nat
    BY DEF TypeOK, WritesTypeOK
  <2> QED  BY <2>1, <2>2
<1>4. WritesTypeOK'
  <2>1. writer' \in [Writers -> WriterState]
    <3>1. writer' = [writer EXCEPT ![w] =
                       [pc |-> "applied", ops |-> Tail(writer[w].ops)]]
      BY DEF Apply, TypeOK, WritesTypeOK
    <3>2. [pc |-> "applied", ops |-> Tail(writer[w].ops)] \in WriterState
      BY <1>1 DEF WriterState
    <3> QED  BY <3>1, <3>2 DEF TypeOK, WritesTypeOK
  <2>2. ttl' \in TtlMap
    <3>1. PICK m \in Measurements, t \in Timestamps :
            m = op.key[1] /\ t = op.key[2]
      <4>1. \A k \in Key : k[1] \in Measurements /\ k[2] \in Timestamps
        BY DEF Key
      <4> HIDE DEF op
      <4> QED  BY <1>1, <4>1
    <3>2. ttl \in TtlMap /\ ttl[m] \in TtlRule
      <4> HIDE DEF op
      <4>1. ttl \in TtlMap
        BY Zenon DEF TypeOK, WritesTypeOK
      <4> QED  BY <4>1 DEF TtlMap
    <3>3. ttl' = [ttl EXCEPT ![m].latest = IF t > @ THEN t ELSE @]
      BY <3>1 DEF Apply
    <3>4. [ttl[m] EXCEPT !.latest = IF t > @ THEN t ELSE @] \in TtlRule
      BY <3>2 DEF TtlRule
    <3>5. ttl' = [ttl EXCEPT ![m] =
                    [ttl[m] EXCEPT !.latest = IF t > @ THEN t ELSE @]]
      BY <3>2, <3>3 DEF TtlMap
    <3> QED  BY <3>2, <3>4, <3>5 DEF TtlMap
  <2>3. log' \in Seq(Op)
    BY <1>1, <1>2 DEF TypeOK, WritesTypeOK
  <2>4. TtlMap' = TtlMap
    BY DEF TtlMap, TtlRule
  <2>5. /\ issued' \in Nat /\ calls' \in Nat /\ faults' \in Nat
        /\ dropped' \subseteq 0 .. Len(log')
        /\ lock' \in Writers \cup {NoThread}
    BY <1>2, <1>3 DEF TypeOK, WritesTypeOK
  <2> QED  BY <2>1, <2>2, <2>3, <2>4, <2>5 DEF WritesTypeOK
<1>5. Len(heap) \in 1 .. Len(heap) /\ heap[Len(heap)] \in Content
  BY DEF TypeOK, TablesTypeOK
<1>6. [heap[Len(heap)] EXCEPT ![op.key] = Len(log) + 1] \in Content'
  BY <1>1, <1>3, <1>5 DEF Content
<1>7. heap' \in Seq(Content') /\ Len(heap') = Len(heap)
  <2>1. heap \in Seq(Content')
    BY <1>3 DEF TypeOK, TablesTypeOK
  <2>2. heap' = [heap EXCEPT ![Len(heap)] =
                   [heap[Len(heap)] EXCEPT ![op.key] = Len(log) + 1]]
    BY <1>2, <1>5
  <2> HIDE DEF op
  <2> QED  BY <1>5, <1>6, <2>1, <2>2, ExceptSeq
<1>8. TablesTypeOK'
  <2>1. sst' \in Seq(Content') /\ heap' # <<>>
    BY <1>2, <1>3, <1>5, <1>7 DEF TypeOK, TablesTypeOK
  <2>2. heap' \in Seq(Content)' /\ sst' \in Seq(Content)'
    BY <1>7, <2>1
  <2>3. usage' \in Nat
    BY <1>2 DEF TypeOK, TablesTypeOK
  <2>4. FlushState' = FlushState /\ imm' = imm /\ flush' = flush
    BY <1>2, <1>7 DEF FlushState
  <2> QED  BY <1>7, <2>1, <2>2, <2>3, <2>4 DEF TypeOK, TablesTypeOK
<1>9. VersionTypeOK'
  BY <1>2, VersionKept DEF TypeOK
<1>10. JobTypeOK'
  <2>1. UNCHANGED <<job, compactionPending, sst>>
    BY <1>2 DEF jobVars, versionVars
  <2>2. job.merged \in Content' /\ job.lost \in SUBSET (0 .. Len(log'))
    BY <1>3 DEF TypeOK, JobTypeOK, JobState
  <2>3. FileNumbers' = FileNumbers /\ TtlMap' = TtlMap /\ Key' = Key
    BY <2>1 DEF FileNumbers, Files, TtlMap, TtlRule, Key
  <2> QED  BY <2>1, <2>2, <2>3 DEF TypeOK, JobTypeOK, JobState
<1>11. ViewTypeOK'
  <2>1. LevelFiles' = LevelFiles /\ TtlMap' = TtlMap
    BY <1>2 DEF LevelFiles, FileNumbers, Files, TtlMap, TtlRule
  <2> QED  BY <1>2, <1>3, <1>7, <2>1 DEF TypeOK, ViewTypeOK, ViewState
<1> QED  BY <1>1, <1>3, <1>4, <1>5, <1>7, <1>8, <1>9, <1>10, <1>11 DEF TypeOK

LEMMA FlushTakeType ==
  ASSUME TypeOK, FlushTake
  PROVE  TypeOK'
<1>1. UNCHANGED <<log, heap, sst, usage>>
  BY DEF FlushTake, versionVars
<1>2. WritesTypeOK'
  BY DEF TypeOK, WritesTypeOK, FlushTake
<1>3. TablesTypeOK'
  <2>1. flush' \in FlushState'
    BY <1>1 DEF FlushTake, FlushState, TypeOK, TablesTypeOK
  <2> QED  BY <1>1, <2>1 DEF TypeOK, TablesTypeOK, FlushTake, Content
<1>4. VersionTypeOK'
  BY VersionKept DEF TypeOK, FlushTake
<1>5. JobTypeOK'
  BY <1>1, JobKept DEF TypeOK, FlushTake
<1>6. ViewTypeOK'
  BY <1>1, ViewKept DEF TypeOK, TablesTypeOK, FlushTake
<1> QED  BY <1>2, <1>3, <1>4, <1>5, <1>6 DEF TypeOK

\* What a step that adds a file keeps.
LEMMA NewFileKeeps ==
  ASSUME TypeOK, NEW c \in Content, sst' = Append(sst, c), UNCHANGED log
  PROVE  /\ {live} \subseteq LevelFiles'
         /\ {readers, disk, obsolete, pendingDelete} \subseteq FileNumbers'
         /\ job \in JobState' /\ Files \subseteq Files'
         /\ NewFileNumber \in Files' /\ Len(sst') = Len(sst) + 1
         /\ sst' \in Seq(Content)'
         /\ heap' = heap => /\ UNCHANGED view => ViewTypeOK'
                            /\ heap' \in Seq(Content)'
<1>1. /\ Files' = Files \cup {NewFileNumber} /\ sst' \in Seq(Content)'
      /\ FileNumbers \subseteq FileNumbers' /\ LevelFiles \subseteq LevelFiles'
      /\ Len(sst') = Len(sst) + 1 /\ Content' = Content
  BY FilesGrow DEF TypeOK
<1>2. job \in JobState'
  BY <1>1 DEF TypeOK, JobTypeOK, JobState
<1>3. ASSUME UNCHANGED <<heap, view>> PROVE ViewTypeOK'
  BY <1>1, <1>3 DEF TypeOK, ViewTypeOK, ViewState
<1> QED  BY <1>1, <1>2, <1>3 DEF TypeOK, VersionTypeOK, TablesTypeOK

LEMMA FlushBuildType ==
  ASSUME TypeOK, FlushBuild
  PROVE  /\ TypeOK'
         /\ heap[flush.table] \in Content
<1>1. flush.table \in 1 .. Len(heap) /\ heap[flush.table] \in Content
      /\ flush.file = 0
  <2>1. flush \in FlushState /\ flush.pc = "build" /\ Len(heap) \in Nat
    BY DEF TypeOK, TablesTypeOK, FlushBuild
  <2>2. flush.table \in 0 .. Len(heap) /\ flush.table # 0 /\ flush.file = 0
    BY <2>1 DEF FlushState
  <2>3. flush.table \in 1 .. Len(heap)
    BY <2>1, <2>2
  <2> QED  BY <2>2, <2>3 DEF TypeOK, TablesTypeOK
<1>2. /\ sst' = Append(sst, heap[flush.table])
      /\ UNCHANGED <<log, heap, usage, imm, view, job, compactionPending>>
      /\ UNCHANGED <<live, readers, obsolete, pendingDelete>>
  BY DEF FlushBuild, memVars, jobVars
<1>3. /\ {live} \subseteq LevelFiles'
      /\ {readers, disk, obsolete, pendingDelete} \subseteq FileNumbers'
      /\ job \in JobState' /\ Files \subseteq Files'
      /\ NewFileNumber \in Files' /\ Len(sst') = Len(sst) + 1
      /\ sst' \in Seq(Content)' /\ ViewTypeOK' /\ heap' \in Seq(Content)'
  BY <1>1, <1>2, NewFileKeeps
<1>4. WritesTypeOK'
  BY DEF TypeOK, WritesTypeOK, FlushBuild, memVars, Fail
<1>5. flush' \in FlushState'
  <2>1. NewFileNumber \in 1 .. Len(sst')
    BY <1>3 DEF Files
  <2>2. /\ NewFileNumber # 0 /\ NewFileNumber \in 0 .. Len(sst')
        /\ 0 \in 0 .. Len(sst')
    BY <2>1
  <2>3. flush = [pc |-> "build", table |-> flush.table, file |-> 0]
    BY <1>1 DEF TypeOK, TablesTypeOK, FlushState, FlushBuild
  <2>4. \/ flush' = [pc |-> "publish", table |-> flush.table,
                     file |-> NewFileNumber]
        \/ flush' = [pc |-> "abandon", table |-> flush.table, file |-> 0]
    <3>1. CASE flush' = [flush EXCEPT !.pc = "publish", !.file = NewFileNumber]
      BY <2>3, <3>1
    <3>2. CASE flush' = [flush EXCEPT !.pc = "abandon"]
      BY <2>3, <3>2
    <3> QED  BY <3>1, <3>2 DEF FlushBuild
  <2> HIDE DEF NewFileNumber
  <2> QED  BY <1>1, <1>2, <2>2, <2>4 DEF FlushState
<1>6. TablesTypeOK'
  BY <1>2, <1>3, <1>5 DEF TypeOK, TablesTypeOK
<1>7. VersionTypeOK'
  <2>1. disk' \in FileNumbers'
    <3>1. disk \cup {NewFileNumber} \in FileNumbers'
      BY <1>3 DEF FileNumbers
    <3> QED  BY <1>3, <3>1 DEF FlushBuild
  <2> QED  BY <1>2, <1>3, <2>1 DEF VersionTypeOK
<1>8. JobTypeOK'
  BY <1>2, <1>3 DEF TypeOK, JobTypeOK
<1> QED  BY <1>1, <1>3, <1>4, <1>6, <1>7, <1>8 DEF TypeOK

\* The positions a table holds are positions of the log.
LEMMA EntriesType ==
  ASSUME NEW c \in Content PROVE Entries(c) \subseteq 0 .. Len(log)
BY DEF Entries, Content

LEMMA FlushPublishType ==
  ASSUME TypeOK, FlushPublish
  PROVE  TypeOK'
<1>1. UNCHANGED <<log, heap, usage, imm, lock, writer, issued, sst, disk,
                  obsolete, pendingDelete, calls, view, jobVars, ttl>>
  BY DEF FlushPublish, memVars
<1>2. flush.file \in Files
  BY DEF TypeOK, TablesTypeOK, FlushState, FlushPublish, Files
<1>3. WritesTypeOK'
  <2>1. sst[flush.file] \in Content
    BY <1>2 DEF TypeOK, TablesTypeOK, Files
  <2>2. dropped' \subseteq 0 .. Len(log)
    BY <2>1, EntriesType DEF TypeOK, WritesTypeOK, FlushPublish
  <2>3. faults' \in Nat
    BY DEF TypeOK, WritesTypeOK, FlushPublish, Fail
  <2> QED  BY <1>1, <2>2, <2>3 DEF TypeOK, WritesTypeOK
<1>4. TablesTypeOK'
  <2>1. flush' \in FlushState'
    BY <1>1 DEF FlushPublish, FlushState, TypeOK, TablesTypeOK
  <2> QED  BY <1>1, <2>1 DEF TypeOK, TablesTypeOK, Content
<1>5. VersionTypeOK'
  <2>1. [live EXCEPT ![0] = @ \cup {flush.file}] \in LevelFiles
    BY <1>2 DEF TypeOK, VersionTypeOK, LevelFiles, FileNumbers, Levels
  <2>2. live' \in LevelFiles
    BY <2>1 DEF TypeOK, VersionTypeOK, FlushPublish
  <2>3. readers' \in FileNumbers
    BY <1>2 DEF TypeOK, VersionTypeOK, FlushPublish, FileNumbers
  <2>4. FileNumbers' = FileNumbers /\ LevelFiles' = LevelFiles
    BY <1>1 DEF FileNumbers, LevelFiles, Files
  <2> QED  BY <1>1, <2>2, <2>3, <2>4 DEF TypeOK, VersionTypeOK
<1>6. JobTypeOK'
  BY <1>1, JobKept DEF TypeOK
<1>7. ViewTypeOK'
  BY <1>1, ViewKept DEF TypeOK, TablesTypeOK
<1> QED  BY <1>3, <1>4, <1>5, <1>6, <1>7 DEF TypeOK

LEMMA FlushAbandonType ==
  ASSUME TypeOK, FlushAbandon
  PROVE  TypeOK'
<1>1. UNCHANGED <<log, heap, usage, imm, lock, writer, issued, sst, calls,
                  view, faults, versionVars, jobVars, ttl>>
  BY DEF FlushAbandon, memVars, versionVars
<1>2. WritesTypeOK'
  <2>1. heap[flush.table] \in Content
    BY DEF TypeOK, TablesTypeOK, FlushState, FlushAbandon
  <2>2. dropped' \subseteq 0 .. Len(log)
    BY <2>1, EntriesType DEF TypeOK, WritesTypeOK, FlushAbandon
  <2> QED  BY <1>1, <2>2 DEF TypeOK, WritesTypeOK
<1>3. TablesTypeOK'
  <2>1. flush' \in FlushState'
    BY <1>1 DEF FlushAbandon, FlushState, TypeOK, TablesTypeOK
  <2> QED  BY <1>1, <2>1 DEF TypeOK, TablesTypeOK, Content
<1>4. VersionTypeOK'
  BY <1>1, VersionKept DEF TypeOK
<1>5. JobTypeOK'
  BY <1>1, JobKept DEF TypeOK
<1>6. ViewTypeOK'
  BY <1>1, ViewKept DEF TypeOK, TablesTypeOK
<1> QED  BY <1>2, <1>3, <1>4, <1>5, <1>6 DEF TypeOK

LEMMA FlushScheduleType ==
  ASSUME TypeOK, FlushSchedule
  PROVE  TypeOK'
<1>1. UNCHANGED <<log, heap, usage, imm, lock, writer, issued, sst, calls,
                  dropped, view, faults, versionVars, job, ttl>>
  BY DEF FlushSchedule, memVars, versionVars
<1>2. WritesTypeOK'
  BY <1>1 DEF TypeOK, WritesTypeOK
<1>3. TablesTypeOK'
  <2>1. flush' \in FlushState'
    BY <1>1 DEF FlushSchedule, FlushState, TypeOK, TablesTypeOK
  <2> QED  BY <1>1, <2>1 DEF TypeOK, TablesTypeOK, Content
<1>4. VersionTypeOK'
  BY <1>1, VersionKept DEF TypeOK
<1>5. JobTypeOK'
  <2>1. compactionPending' \in BOOLEAN
    BY DEF FlushSchedule, TypeOK, JobTypeOK
  <2> QED  BY <1>1, <2>1 DEF TypeOK, JobTypeOK, JobState, FileNumbers, Files,
                Content
<1>6. ViewTypeOK'
  BY <1>1, ViewKept DEF TypeOK, TablesTypeOK
<1> QED  BY <1>2, <1>3, <1>4, <1>5, <1>6 DEF TypeOK

-----------------------------------------------------------------------------
(* The merge of a compaction: each key has a winner among the inputs.      *)

LEMMA MaxExists ==
  ASSUME NEW n \in Nat, NEW S \in SUBSET (1 .. n), S # {}
  PROVE  \E x \in S : \A y \in S : y <= x
<1> DEFINE T == {n - x : x \in S}
<1>1. \A x \in S : x \in Nat /\ n - x \in Nat
  OBVIOUS
<1>2. T \subseteq Nat /\ T # {}
  <2>1. PICK x \in S : TRUE
    OBVIOUS
  <2> QED  BY <1>1, <2>1
<1>3. \E m \in T : \A t \in T : ~(<<t, m>> \in OpToRel(<, Nat))
  <2> HIDE DEF T
  <2> QED  BY <1>2, WFMin, NatLessThanWellFounded
<1>4. PICK m \in T : \A t \in T : ~(t < m)
  BY <1>2, <1>3 DEF OpToRel
<1>5. PICK x \in S : m = n - x
  BY <1>4
<1>6. ASSUME NEW y \in S PROVE y <= x
  <2>1. n - y \in T
    OBVIOUS
  <2>2. ~(n - y < n - x)
    BY <1>4, <1>5, <2>1
  <2> QED  BY <1>1, <2>2
<1> QED  BY <1>6

\* The input that wins key k exists: the newest of the upper level's, or of
\* the lower level's when the upper level has no version of k.
LEMMA WinnerExists ==
  ASSUME TypeOK, NEW F \in SUBSET Compacting, NEW k \in KeysOf(F)
  PROVE  /\ Winner(F, k) \in F /\ sst[Winner(F, k)][k] # 0
         /\ Wins(Winner(F, k), F, k)
<1> DEFINE H == {f \in F : sst[f][k] # 0}
<1>1. H # {}
  <2>1. PICK f \in F : k \in KeysIn(f)
    BY DEF KeysOf
  <2> QED  BY <2>1 DEF KeysIn, KeysHeld
<1>2. Len(sst) \in Nat /\ H \subseteq 1 .. Len(sst)
  <2>1. Len(sst) \in Nat
    BY DEF TypeOK, TablesTypeOK
  <2>2. Compacting \subseteq Files
    BY DEF Compacting, TypeOK, JobTypeOK, JobState, FileNumbers
  <2> QED  BY <2>1, <2>2 DEF Files
<1>3. \A g \in F : g \in job.upper \/ g \in job.lower
  BY DEF Compacting
<1>4. \E f \in F : Wins(f, F, k)
  <2>1. CASE H \cap job.upper # {}
    <3>1. PICK f \in H \cap job.upper : \A g \in H \cap job.upper : g <= f
      <4> DEFINE U == H \cap job.upper
      <4>1. U \in SUBSET (1 .. Len(sst)) /\ U # {}
        BY <1>2, <2>1
      <4> HIDE DEF U
      <4>2. \E f \in U : \A g \in U : g <= f
        BY <1>2, <4>1, MaxExists
      <4> QED  BY <4>2 DEF U
    <3>2. f \in F /\ sst[f][k] # 0 /\ f \in job.upper
      BY <3>1
    <3>3. ASSUME NEW g \in F, sst[g][k] # 0, g \notin job.lower
          PROVE  g \in job.upper /\ g <= f
      BY <1>3, <3>1, <3>3
    <3>4. ASSUME NEW g \in F, sst[g][k] # 0, g \in job.lower
          PROVE  f \in job.upper /\ g \in job.lower
      BY <3>2, <3>4
    <3>5. Wins(f, F, k)
      BY <3>2, <3>3, <3>4 DEF Wins
    <3> QED  BY <3>2, <3>5
  <2>2. CASE H \cap job.upper = {}
    <3>1. PICK f \in H : \A g \in H : g <= f
      <4> HIDE DEF H
      <4> QED  BY <1>1, <1>2, MaxExists
    <3>2. f \in F /\ sst[f][k] # 0 /\ f \notin job.upper
      BY <2>2, <3>1
    <3>3. ASSUME NEW g \in F, sst[g][k] # 0
          PROVE  g \notin job.upper /\ g <= f
      BY <2>2, <3>1, <3>3
    <3>4. Wins(f, F, k)
      BY <3>2, <3>3 DEF Wins
    <3> QED  BY <3>2, <3>4
  <2> QED  BY <2>1, <2>2
<1> QED  BY <1>4 DEF Winner, Wins

\* What a compaction keeps of a key is the version one of its inputs holds.
LEMMA MergeTakesInputs ==
  ASSUME TypeOK, NEW F \in SUBSET Compacting
  PROVE  /\ Merge(F) \in Content
         /\ \A k \in Key : Merge(F)[k] # 0 =>
              \E f \in F : sst[f][k] = Merge(F)[k]
<1>1. F \subseteq Files /\ Len(log) \in Nat
  BY DEF Compacting, TypeOK, JobTypeOK, JobState, FileNumbers, WritesTypeOK
<1>2. ASSUME NEW k \in Key
      PROVE  \/ Merge(F)[k] = 0
             \/ \E f \in F : sst[f][k] = Merge(F)[k]
  BY WinnerExists DEF Merge
<1>3. \A f \in F, k \in Key : sst[f][k] \in 0 .. Len(log)
  BY <1>1 DEF TypeOK, TablesTypeOK, Files, Content
<1>4. \A k \in Key : Merge(F)[k] \in 0 .. Len(log)
  BY <1>1, <1>2, <1>3
<1> QED  BY <1>2, <1>4 DEF Merge, Content

-----------------------------------------------------------------------------
(* Type correctness of the compaction's steps.                             *)

\* A step that leaves writes, tables, files and readers alone.
LEMMA MemoryKept ==
  ASSUME TypeOK, UNCHANGED <<memVars, flush, sst>>
  PROVE  /\ TablesTypeOK' /\ (UNCHANGED view => ViewTypeOK')
         /\ LevelFiles' = LevelFiles /\ FileNumbers' = FileNumbers
         /\ JobState' = JobState
         /\ faults' \in Nat /\ calls' \in Nat
            /\ dropped' \subseteq 0 .. Len(log)
            /\ ttl' \in TtlMap => WritesTypeOK'
<1>1. UNCHANGED <<log, issued, heap, usage, imm, lock, writer, flush, sst>>
  BY DEF memVars
<1>2. TablesTypeOK'
  BY <1>1 DEF TypeOK, TablesTypeOK, FlushState, Content
<1>3. UNCHANGED view => ViewTypeOK'
  BY <1>1, ViewKept DEF TypeOK, TablesTypeOK
<1>4. LevelFiles' = LevelFiles /\ FileNumbers' = FileNumbers
  BY <1>1 DEF LevelFiles, FileNumbers, Files
<1>5. JobState' = JobState
  BY <1>1, <1>4 DEF JobState, Content
<1>6. faults' \in Nat /\ calls' \in Nat /\ dropped' \subseteq 0 .. Len(log)
      /\ ttl' \in TtlMap => WritesTypeOK'
  BY <1>1 DEF TypeOK, WritesTypeOK
<1> QED  BY <1>2, <1>3, <1>4, <1>5, <1>6

LEMMA StartJobType ==
  ASSUME TypeOK, NEW l \in 0 .. MaxLevel - 2, NEW background \in BOOLEAN,
         NEW cleanup \in BOOLEAN, StartJob(l, background, cleanup)
  PROVE  job' \in JobState
<1> DEFINE L == IF l = 0 THEN {f \in live[1] : Overlaps(f, live[0])} ELSE {}
<1>1. live[l] \in FileNumbers /\ L \in FileNumbers
  <2>1. l \in Levels /\ 1 \in Levels
    BY LimitsAssumption DEF Levels
  <2> QED  BY <2>1 DEF TypeOK, VersionTypeOK, LevelFiles, FileNumbers
<1>2. Nothing \in Content /\ ttl \in TtlMap
  BY DefaultsType DEF TypeOK, WritesTypeOK
<1>3. job' = [pc |-> "read", background |-> background, cleanup |-> cleanup,
              level |-> l, upper |-> live[l], lower |-> L, ttl |-> ttl,
              merged |-> Nothing, left |-> {}, out |-> {}, lost |-> {}]
  BY DEF StartJob, NoJob
<1> HIDE DEF L
<1>4. {} \in FileNumbers
  BY DEF FileNumbers
<1> QED  BY <1>1, <1>2, <1>3, <1>4 DEF JobState

LEMMA NoJobType ==
  ASSUME TypeOK PROVE NoJob \in JobState
<1>1. Nothing \in Content /\ NoTtl \in TtlMap /\ {} \in FileNumbers
  BY DefaultsType DEF TypeOK, WritesTypeOK, FileNumbers
<1> QED  BY <1>1, LimitsAssumption DEF NoJob, JobState

LEMMA BackgroundCompactType ==
  ASSUME TypeOK, BackgroundCompact
  PROVE  TypeOK'
<1>1. UNCHANGED <<memVars, flush, sst, view, calls, faults, dropped, ttl>>
      /\ UNCHANGED versionVars /\ compactionPending' = FALSE
  BY DEF BackgroundCompact, versionVars
<1>2. WritesTypeOK' /\ TablesTypeOK' /\ ViewTypeOK' /\ JobState' = JobState
  BY <1>1, MemoryKept DEF TypeOK, WritesTypeOK
<1>3. job' \in JobState
  <2>1. CASE \E l \in Levels :
               CompactLevel(FALSE, l) /\ StartJob(l, TRUE, TRUE)
    BY <2>1, StartJobType DEF CompactLevel
  <2>2. CASE UNCHANGED job
    BY <2>2 DEF TypeOK, JobTypeOK
  <2> QED  BY <2>1, <2>2 DEF BackgroundCompact
<1>4. JobTypeOK'
  BY <1>1, <1>2, <1>3 DEF JobTypeOK
<1>5. VersionTypeOK'
  BY <1>1, VersionKept DEF TypeOK
<1> QED  BY <1>2, <1>4, <1>5 DEF TypeOK

\* The two ways files are deleted.
LEMMA CleanupType ==
  ASSUME TypeOK, NEW P \in FileNumbers, NEW open \in FileNumbers
  PROVE  /\ TryDeletePending(P) =>
              pendingDelete' \in FileNumbers /\ disk' \in FileNumbers
         /\ Cleanup(P, open) =>
              {obsolete', readers', pendingDelete', disk'}
                 \subseteq FileNumbers
<1>1. \A Q \in FileNumbers : TryDeletePending(Q) =>
        pendingDelete' \in FileNumbers /\ disk' \in FileNumbers
  BY DEF TryDeletePending, TypeOK, VersionTypeOK, FileNumbers
<1>2. pendingDelete \cup P \in FileNumbers
  BY DEF TypeOK, VersionTypeOK, FileNumbers
<1> QED  BY <1>1, <1>2 DEF Cleanup, FileNumbers

LEMMA UserCompactType ==
  ASSUME TypeOK, NEW cleanup \in BOOLEAN, UserCompact(cleanup)
  PROVE  TypeOK'
<1>1. UNCHANGED <<memVars, flush, sst, view, faults, dropped, ttl>>
      /\ UNCHANGED <<live, readers, obsolete>>
  BY DEF UserCompact
<1>2. calls' \in Nat
  BY DEF UserCompact, Call, TypeOK, WritesTypeOK
<1>3. WritesTypeOK' /\ TablesTypeOK' /\ ViewTypeOK' /\ JobState' = JobState
      /\ LevelFiles' = LevelFiles /\ FileNumbers' = FileNumbers
  BY <1>1, <1>2, MemoryKept DEF TypeOK, WritesTypeOK
<1>4. JobTypeOK' /\ {pendingDelete', disk'} \subseteq FileNumbers
  <2>1. CASE CanCompact(TRUE)
    <3>1. PICK l \in Levels :
            CompactLevel(TRUE, l) /\ StartJob(l, FALSE, cleanup)
      BY <2>1 DEF UserCompact
    <3>2. job' \in JobState /\ compactionPending' = FALSE
      BY <2>1, <3>1, StartJobType DEF CompactLevel, UserCompact
    <3>3. UNCHANGED <<pendingDelete, disk>>
      BY <2>1 DEF UserCompact
    <3> QED  BY <1>3, <3>2, <3>3 DEF JobTypeOK, TypeOK, VersionTypeOK
  <2>2. CASE ~CanCompact(TRUE)
    <3>1. TryDeletePending(pendingDelete) /\ UNCHANGED jobVars
      BY <2>2 DEF UserCompact
    <3>2. {pendingDelete', disk'} \subseteq FileNumbers
      BY <3>1, CleanupType DEF TypeOK, VersionTypeOK
    <3> QED  BY <1>3, <3>1, <3>2 DEF TypeOK, JobTypeOK, jobVars
  <2> QED  BY <2>1, <2>2
<1>5. VersionTypeOK'
  BY <1>1, <1>3, <1>4 DEF TypeOK, VersionTypeOK
<1> QED  BY <1>3, <1>4, <1>5 DEF TypeOK

LEMMA CleanupObsoleteFilesType ==
  ASSUME TypeOK, CleanupObsoleteFiles
  PROVE  TypeOK'
<1>1. UNCHANGED <<memVars, flush, sst, view, faults, dropped, ttl, live>>
      /\ UNCHANGED jobVars
  BY DEF CleanupObsoleteFiles
<1>2. calls' \in Nat
  BY DEF CleanupObsoleteFiles, Call, TypeOK, WritesTypeOK
<1>3. WritesTypeOK' /\ TablesTypeOK' /\ ViewTypeOK' /\ JobState' = JobState
      /\ LevelFiles' = LevelFiles /\ FileNumbers' = FileNumbers
  BY <1>1, <1>2, MemoryKept DEF TypeOK, WritesTypeOK
<1>4. {obsolete', readers', pendingDelete', disk'} \subseteq FileNumbers
  BY CleanupType DEF CleanupObsoleteFiles, TypeOK, VersionTypeOK
<1>5. VersionTypeOK'
  BY <1>1, <1>3, <1>4 DEF TypeOK, VersionTypeOK
<1>6. JobTypeOK'
  BY <1>1, <1>3 DEF TypeOK, JobTypeOK, jobVars
<1> QED  BY <1>3, <1>5, <1>6 DEF TypeOK

LEMMA CompactReadType ==
  ASSUME TypeOK, CompactRead
  PROVE  TypeOK'
<1>1. UNCHANGED <<memVars, flush, sst, view, calls, dropped, ttl>>
      /\ UNCHANGED <<versionVars, compactionPending>>
  BY DEF CompactRead, versionVars
<1>2. faults' \in Nat
  BY DEF CompactRead, Fail, TypeOK, WritesTypeOK
<1>3. WritesTypeOK' /\ TablesTypeOK' /\ ViewTypeOK' /\ JobState' = JobState
  BY <1>1, <1>2, MemoryKept DEF TypeOK, WritesTypeOK
<1>4. job' \in JobState
  <2>1. PICK unreadable \in SUBSET (Compacting \cap disk) :
          LET F == (Compacting \cap disk) \ unreadable
          IN job' = [job EXCEPT !.pc = "write", !.merged = Merge(F),
                                !.left = KeysHeld(Merge(F)),
                                !.lost = Lost(F, unreadable)]
    BY DEF CompactRead
  <2> DEFINE F == (Compacting \cap disk) \ unreadable
  <2>2. Merge(F) \in Content
    BY MergeTakesInputs
  <2>3. KeysHeld(Merge(F)) \in SUBSET Key
    BY DEF KeysHeld
  <2>4. Lost(F, unreadable) \in SUBSET (0 .. Len(log))
    <3>1. Compacting \subseteq Files
      BY DEF Compacting, TypeOK, JobTypeOK, JobState, FileNumbers
    <3>2. \A f \in Files, k \in Key : sst[f][k] \in 0 .. Len(log)
      BY DEF TypeOK, TablesTypeOK, Files, Content
    <3>3. \A f \in Compacting, k \in Key : sst[f][k] \in 0 .. Len(log)
      BY <3>1, <3>2
    <3> QED  BY <3>3 DEF Lost
  <2> QED  BY <2>1, <2>2, <2>3, <2>4 DEF TypeOK, JobTypeOK, JobState
<1>5. JobTypeOK'
  BY <1>1, <1>3, <1>4 DEF TypeOK, JobTypeOK
<1>6. VersionTypeOK'
  BY <1>1, VersionKept DEF TypeOK
<1> QED  BY <1>3, <1>5, <1>6 DEF TypeOK

LEMMA CompactWriteType ==
  ASSUME TypeOK, CompactWrite
  PROVE  TypeOK'
<1>1. PICK P \in SUBSET job.left :
        /\ sst' = Append(sst, [k \in Key |->
                                 IF k \in P THEN job.merged[k] ELSE 0])
        /\ job' = [job EXCEPT !.left = @ \ P,
                              !.out = @ \cup {NewFileNumber}]
  BY DEF CompactWrite
<1> DEFINE c == [k \in Key |-> IF k \in P THEN job.merged[k] ELSE 0]
<1>2. c \in Content
  <2>1. job.merged \in Content /\ Len(log) \in Nat
    BY DEF TypeOK, JobTypeOK, JobState, WritesTypeOK
  <2> QED  BY <2>1 DEF Content
<1>3. sst' = Append(sst, c)
      /\ UNCHANGED <<live, readers, obsolete, pendingDelete, memVars, view>>
      /\ UNCHANGED <<calls, faults, dropped, ttl, flush, compactionPending>>
      /\ disk' = disk \cup {NewFileNumber}
  BY <1>1 DEF CompactWrite
<1> HIDE DEF c
<1>4. UNCHANGED <<log, issued, heap, usage, imm, lock, writer>>
  BY <1>3 DEF memVars
<1>5. /\ live \in LevelFiles'
      /\ {readers, disk, obsolete, pendingDelete} \subseteq FileNumbers'
      /\ job \in JobState' /\ NewFileNumber \in Files' /\ ViewTypeOK'
      /\ Len(sst') = Len(sst) + 1 /\ sst' \in Seq(Content)'
      /\ heap' \in Seq(Content)'
  BY <1>2, <1>3, <1>4, NewFileKeeps
<1>6. WritesTypeOK'
  BY <1>3, <1>4 DEF TypeOK, WritesTypeOK
<1>7. TablesTypeOK'
  <2>1. flush' \in FlushState'
    BY <1>3, <1>4, <1>5 DEF TypeOK, TablesTypeOK, FlushState
  <2> QED  BY <1>4, <1>5, <2>1 DEF TypeOK, TablesTypeOK
<1>8. VersionTypeOK'
  BY <1>3, <1>5 DEF VersionTypeOK, FileNumbers
<1>9. job' \in JobState'
  <2>1. job.left \ P \in SUBSET Key
           /\ job.out \cup {NewFileNumber} \in FileNumbers'
    BY <1>5 DEF JobState, FileNumbers
  <2> QED  BY <1>1, <1>5, <2>1 DEF JobState
<1>10. JobTypeOK'
  BY <1>3, <1>9 DEF TypeOK, JobTypeOK
<1> QED  BY <1>5, <1>6, <1>7, <1>8, <1>10 DEF TypeOK

LEMMA CompactWriteFailsType ==
  ASSUME TypeOK, CompactWriteFails
  PROVE  TypeOK'
<1>1. PICK listed \in SUBSET {NewFileNumber} :
        job' = [job EXCEPT !.pc = "failed", !.out = @ \cup listed]
  BY DEF CompactWriteFails
<1>2. /\ Nothing \in Content /\ sst' = Append(sst, Nothing)
      /\ UNCHANGED <<live, readers, obsolete, pendingDelete, memVars, view>>
      /\ UNCHANGED <<calls, dropped, ttl, flush, compactionPending>>
      /\ disk' \in {disk, disk \cup {NewFileNumber}} /\ faults' \in Nat
  BY DefaultsType DEF CompactWriteFails, TypeOK, WritesTypeOK, Fail
<1>3. UNCHANGED <<log, issued, heap, usage, imm, lock, writer>>
  BY <1>2 DEF memVars
<1>4. /\ live \in LevelFiles'
      /\ {readers, disk, obsolete, pendingDelete} \subseteq FileNumbers'
      /\ job \in JobState' /\ NewFileNumber \in Files' /\ ViewTypeOK'
      /\ Len(sst') = Len(sst) + 1 /\ sst' \in Seq(Content)'
      /\ heap' \in Seq(Content)'
  BY <1>2, <1>3, NewFileKeeps
<1>5. WritesTypeOK'
  BY <1>2, <1>3 DEF TypeOK, WritesTypeOK
<1>6. TablesTypeOK'
  <2>1. flush' \in FlushState'
    BY <1>2, <1>3, <1>4 DEF TypeOK, TablesTypeOK, FlushState
  <2> QED  BY <1>3, <1>4, <2>1 DEF TypeOK, TablesTypeOK
<1>7. VersionTypeOK'
  BY <1>2, <1>4 DEF VersionTypeOK, FileNumbers
<1>8. job' \in JobState'
  <2>1. job.out \cup listed \in FileNumbers'
    BY <1>4 DEF JobState, FileNumbers
  <2> QED  BY <1>1, <1>4, <2>1 DEF JobState
<1>9. JobTypeOK'
  BY <1>2, <1>8 DEF TypeOK, JobTypeOK
<1> QED  BY <1>4, <1>5, <1>6, <1>7, <1>9 DEF TypeOK

LEMMA CompactCommitType ==
  ASSUME TypeOK, CompactCommit
  PROVE  TypeOK'
<1>1. UNCHANGED <<memVars, flush, sst, view, faults, calls, ttl>>
  BY DEF CompactCommit
<1>2. job \in JobState
  BY DEF TypeOK, JobTypeOK
<1>3. {job.upper, job.lower, job.out, Compacting} \subseteq FileNumbers
      /\ job.level \in Levels /\ job.level + 1 \in Levels
      /\ job.lost \subseteq 0 .. Len(log)
  <2>1. {job.upper, job.lower, job.out} \subseteq FileNumbers
        /\ job.level \in 0 .. MaxLevel - 2 /\ job.lost \subseteq 0 .. Len(log)
    BY <1>2 DEF JobState
  <2>2. \A l \in 0 .. MaxLevel - 2 : l \in Levels /\ l + 1 \in Levels
    BY LimitsAssumption DEF Levels
  <2> QED  BY <2>1, <2>2 DEF Compacting, FileNumbers
<1>4. dropped' \subseteq 0 .. Len(log)
  BY <1>3 DEF CompactCommit, TypeOK, WritesTypeOK
<1>5. WritesTypeOK' /\ TablesTypeOK' /\ ViewTypeOK' /\ JobState' = JobState
      /\ LevelFiles' = LevelFiles /\ FileNumbers' = FileNumbers
  BY <1>1, <1>4, MemoryKept DEF TypeOK, WritesTypeOK
<1>6. live' \in LevelFiles
  BY <1>3 DEF CompactCommit, TypeOK, VersionTypeOK, LevelFiles, FileNumbers
<1>7. {readers', obsolete', pendingDelete', disk'} \subseteq FileNumbers
  <2>1. obsolete \cup Compacting \in FileNumbers
        /\ readers \cup job.out \in FileNumbers
    BY <1>3 DEF TypeOK, VersionTypeOK, FileNumbers
  <2>2. CASE job.cleanup
    BY <2>1, <2>2, CleanupType DEF CompactCommit
  <2>3. CASE ~job.cleanup
    BY <2>1, <2>3 DEF CompactCommit, TypeOK, VersionTypeOK
  <2> QED  BY <2>2, <2>3
<1>8. VersionTypeOK'
  BY <1>5, <1>6, <1>7 DEF VersionTypeOK
<1>9. JobTypeOK'
  <2>1. job' = NoJob /\ compactionPending' \in BOOLEAN
    BY DEF CompactCommit, EndJob, TypeOK, JobTypeOK
  <2> QED  BY <1>5, <2>1, NoJobType DEF JobTypeOK
<1> QED  BY <1>5, <1>8, <1>9 DEF TypeOK

LEMMA CompactAbortType ==
  ASSUME TypeOK, CompactAbort
  PROVE  TypeOK'
<1>1. UNCHANGED <<memVars, flush, sst, view, dropped, calls, ttl>>
      /\ UNCHANGED <<live, readers, obsolete, pendingDelete>>
  BY DEF CompactAbort
<1>2. faults' \in Nat
  BY DEF CompactAbort, Fail, TypeOK, WritesTypeOK
<1>3. WritesTypeOK' /\ TablesTypeOK' /\ ViewTypeOK' /\ JobState' = JobState
      /\ LevelFiles' = LevelFiles /\ FileNumbers' = FileNumbers
  BY <1>1, <1>2, MemoryKept DEF TypeOK, WritesTypeOK
<1>4. disk' \in FileNumbers
  BY DEF CompactAbort, TypeOK, VersionTypeOK, FileNumbers
<1>5. VersionTypeOK'
  BY <1>1, <1>3, <1>4 DEF TypeOK, VersionTypeOK
<1>6. JobTypeOK'
  <2>1. job' = NoJob /\ compactionPending' \in BOOLEAN
    BY DEF CompactAbort, EndJob, TypeOK, JobTypeOK
  <2> QED  BY <1>3, <2>1, NoJobType DEF JobTypeOK
<1> QED  BY <1>3, <1>5, <1>6 DEF TypeOK

LEMMA SetTTLType ==
  ASSUME TypeOK, NEW m \in Measurements, NEW s \in TtlSeconds, SetTTL(m, s)
  PROVE  TypeOK'
<1>1. UNCHANGED <<memVars, versionVars, jobVars, flush, faults, dropped,
                  view, sst>>
  BY DEF SetTTL, versionVars
<1>2. calls' \in Nat
  BY DEF SetTTL, Call, TypeOK, WritesTypeOK
<1>3. ttl' \in TtlMap
  <2>1. ttl \in TtlMap /\ s \in Int /\ ttl[m] \in TtlRule
    BY KeysAssumption DEF TypeOK, WritesTypeOK, TtlMap
  <2>2. [ttl[m] EXCEPT !.ttl = s] \in TtlRule
    BY <2>1 DEF TtlRule
  <2>3. ttl' = [ttl EXCEPT ![m] = [ttl[m] EXCEPT !.ttl = s]]
    BY <2>1 DEF SetTTL, TtlMap
  <2> QED  BY <2>1, <2>2, <2>3 DEF TtlMap
<1>4. WritesTypeOK' /\ TablesTypeOK' /\ ViewTypeOK' /\ JobState' = JobState
  BY <1>1, <1>2, <1>3, MemoryKept DEF TypeOK, WritesTypeOK
<1>5. VersionTypeOK' /\ JobTypeOK'
  BY <1>1, <1>4, VersionKept DEF TypeOK, JobTypeOK, jobVars
<1> QED  BY <1>4, <1>5 DEF TypeOK

LEMMA ReadType ==
  ASSUME TypeOK, NEW r \in Readers, Read(r)
  PROVE  TypeOK'
<1>1. UNCHANGED <<memVars, versionVars, jobVars, flush, faults, dropped,
                  calls, ttl, sst>>
  BY DEF Read, CaptureReadView, ReleaseReadView, versionVars
<1>2. WritesTypeOK' /\ TablesTypeOK' /\ JobState' = JobState
  BY <1>1, MemoryKept DEF TypeOK, WritesTypeOK
<1>3. ViewTypeOK'
  <2>1. /\ NoFiles \in LevelFiles /\ NoTtl \in TtlMap
        /\ [l \in Levels |-> live[l] \cap readers] \in LevelFiles
    BY DefaultsType DEF TypeOK, WritesTypeOK, VersionTypeOK, LevelFiles,
                        FileNumbers
  <2>2. /\ {Len(heap), imm, flush.table, 0} \subseteq 0 .. Len(heap)
        /\ {Len(log), 0} \subseteq 0 .. Len(log) /\ ttl \in TtlMap
    BY DEF TypeOK, WritesTypeOK, TablesTypeOK, FlushState
  <2>3. NoReadView \in ViewState
    BY <2>1, <2>2 DEF NoReadView, ViewState
  <2>4. [active |-> TRUE, mem |-> Len(heap), imm |-> imm,
         files |-> [l \in Levels |-> live[l] \cap readers], ttl |-> ttl,
         since |-> Len(log), flushing |-> flush.table] \in ViewState
    BY <2>1, <2>2 DEF ViewState
  <2>5. view' \in [Readers -> ViewState]
    BY <2>3, <2>4 DEF Read, CaptureReadView, ReleaseReadView, TypeOK,
                      ViewTypeOK
  <2>6. ViewState' = ViewState
    BY <1>1 DEF ViewState, LevelFiles, FileNumbers, Files, memVars
  <2> QED  BY <2>5, <2>6 DEF ViewTypeOK
<1>4. VersionTypeOK' /\ JobTypeOK'
  BY <1>1, <1>2, VersionKept DEF TypeOK, JobTypeOK, jobVars
<1> QED  BY <1>2, <1>3, <1>4 DEF TypeOK

LEMMA NextType == TypeOK /\ [Next]_vars => TypeOK'
<1> SUFFICES ASSUME TypeOK, [Next]_vars PROVE TypeOK'
  OBVIOUS
<1>1. ASSUME NEW w \in Writers, Write(w) PROVE TypeOK'
  BY <1>1, BeginType, MakeRoomType, WaitForRoomType, AppendToWalType,
     ApplyType DEF Write
<1>2. CASE UserFlush
  BY <1>2, UserFlushType
<1>3. CASE FlushThread
  BY <1>3, FlushTakeType, FlushBuildType, FlushPublishType, FlushAbandonType,
     FlushScheduleType DEF FlushThread
<1>4. CASE Compact
  BY <1>4, BackgroundCompactType, UserCompactType, CleanupObsoleteFilesType,
     CompactReadType, CompactWriteType, CompactWriteFailsType,
     CompactCommitType, CompactAbortType DEF Compact
<1>5. CASE \E m \in Measurements, s \in TtlSeconds : SetTTL(m, s)
  BY <1>5, SetTTLType
<1>6. CASE \E r \in Readers : Read(r)
  BY <1>6, ReadType
<1>7. CASE UNCHANGED vars
  <2>1. UNCHANGED <<memVars, versionVars, jobVars, flush, faults, dropped,
                    calls, ttl, sst, view>>
    BY <1>7 DEF vars, memVars, versionVars, jobVars
  <2>2. WritesTypeOK' /\ TablesTypeOK' /\ ViewTypeOK' /\ JobState' = JobState
    BY <2>1, MemoryKept DEF TypeOK, WritesTypeOK
  <2>3. VersionTypeOK' /\ JobTypeOK'
    BY <2>1, <2>2, VersionKept DEF TypeOK, JobTypeOK, jobVars
  <2> QED  BY <2>2, <2>3 DEF TypeOK
<1> QED  BY <1>1, <1>2, <1>3, <1>4, <1>5, <1>6, <1>7 DEF Next

\* Whatever the threads do and however their steps interleave, every table,
\* file number, read view, job and TTL rule of the engine keeps its type:
\* no reference ever dangles past the tables and files made so far.
THEOREM TypeCorrect == Spec => []TypeOK
<1>1. Init => TypeOK
  BY InitType
<1>2. TypeOK /\ [Next]_vars => TypeOK'
  BY NextType
<1> QED  BY <1>1, <1>2, PTL DEF Spec
-----------------------------------------------------------------------------
(* The order of the layers.                                                *)

USE LimitsAssumption

\* An SSTable is written once: no step changes the contents of a file.
LEMMA FilesKept ==
  ASSUME TypeOK, [Next]_vars
  PROVE  (\A f \in Files : sst'[f] = sst[f]) /\ Files \subseteq Files'
<1> DEFINE Kept == sst' = sst \/ \E c : sst' = Append(sst, c)
<1>1. Kept
  <2>1. ASSUME NEW w \in Writers, Write(w) PROVE sst' = sst
    BY <2>1, Zenon DEF Write, Begin, MakeRoom, WaitForRoom, AppendToWal, Apply,
                versionVars
  <2>2. CASE UserFlush
    BY <2>2 DEF UserFlush, versionVars
  <2>3. CASE FlushThread
    BY <2>3 DEF FlushThread, FlushTake, FlushBuild, FlushPublish,
                FlushAbandon, FlushSchedule, versionVars
  <2>4. CASE Compact
    BY <2>4 DEF Compact, BackgroundCompact, UserCompact,
                CleanupObsoleteFiles, CompactRead, CompactWrite,
                CompactWriteFails, CompactCommit, CompactAbort, versionVars
  <2>5. ASSUME NEW m \in Measurements, NEW s \in TtlSeconds, SetTTL(m, s)
        PROVE  sst' = sst
    BY <2>5 DEF SetTTL, versionVars
  <2>6. ASSUME NEW r \in Readers, Read(r) PROVE sst' = sst
    BY <2>6 DEF Read, CaptureReadView, ReleaseReadView, versionVars
  <2>7. CASE UNCHANGED vars
    BY <2>7 DEF vars
  <2>8. sst' = sst => Kept
    OBVIOUS
  <2> HIDE DEF Kept
  <2> QED  BY <2>1, <2>2, <2>3, <2>4, <2>5, <2>6, <2>7, <2>8 DEF Next
<1>2. sst \in Seq(Content)
  BY DEF TypeOK, TablesTypeOK
<1>3. ASSUME NEW c, sst' = Append(sst, c)
      PROVE  (\A f \in Files : sst'[f] = sst[f]) /\ Files \subseteq Files'
  BY <1>2, <1>3 DEF Files
<1>4. CASE sst' = sst
  BY <1>4 DEF Files
<1> QED  BY <1>1, <1>3, <1>4, Zenon

\* The files the version, a view and a job name have been written.
LEMMA NamedFiles ==
  ASSUME TypeOK
  PROVE  /\ \A l \in Levels : live[l] \subseteq Files
         /\ \A r \in Readers, l \in Levels : view[r].files[l] \subseteq Files
         /\ job.upper \subseteq Files /\ job.lower \subseteq Files
         /\ job.out \subseteq Files /\ Compacting \subseteq Files
         /\ job.level \in Levels /\ job.level + 1 \in Levels
         /\ 0 \in Levels /\ 1 \in Levels
<1>1. \A l \in Levels : live[l] \subseteq Files
  BY DEF TypeOK, VersionTypeOK, LevelFiles, FileNumbers
<1>2. \A r \in Readers, l \in Levels : view[r].files[l] \subseteq Files
  BY DEF TypeOK, ViewTypeOK, ViewState, LevelFiles, FileNumbers
<1>3. /\ job.upper \subseteq Files /\ job.lower \subseteq Files
      /\ job.out \subseteq Files /\ job.level \in 0 .. MaxLevel - 2
  BY DEF TypeOK, JobTypeOK, JobState, FileNumbers
<1>4. job.level \in Levels /\ job.level + 1 \in Levels
      /\ 0 \in Levels /\ 1 \in Levels
  <2>1. \A l \in 0 .. MaxLevel - 2 : l \in Levels /\ l + 1 \in Levels
    BY DEF Levels
  <2>2. 0 \in Levels /\ 1 \in Levels
    BY DEF Levels
  <2> QED  BY <1>3, <2>1, <2>2
<1> QED  BY <1>1, <1>2, <1>3, <1>4 DEF Compacting

-----------------------------------------------------------------------------
(* What the steps that concern something else keep.                        *)

LEMMA LayersKept ==
  ASSUME TypeOK, OrderInv, \A f \in Files : sst'[f] = sst[f],
         UNCHANGED <<heap, imm, live, view>>, flush'.table = flush.table
  PROVE  IndexInv' /\ LevelOneInv' /\ NewestFirst'
<1>1. IndexInv'
  BY DEF OrderInv, IndexInv
<1>2. LevelOneInv'
  BY NamedFiles DEF OrderInv, LevelOneInv, KeysIn, KeysHeld
<1>3. ASSUME NEW m, NEW i, NEW files, TablesNewestFirst(m, i, files),
             \A l \in Levels : files[l] \subseteq Files
      PROVE  TablesNewestFirst(m, i, files)'
  BY <1>3 DEF TablesNewestFirst
<1>4. ASSUME NEW files, FilesNewestFirst(files),
             \A l \in Levels : files[l] \subseteq Files
      PROVE  FilesNewestFirst(files)'
  BY <1>4 DEF FilesNewestFirst
<1>5. NewestFirst'
  BY <1>3, <1>4, NamedFiles DEF OrderInv, NewestFirst
<1> QED  BY <1>1, <1>2, <1>5

LEMMA JobOrderKept ==
  ASSUME TypeOK, OrderInv, \A f \in Files : sst'[f] = sst[f],
         UNCHANGED <<live, job>>
  PROVE  InputsInv' /\ OutputsInv'
<1>1. \A f \in Files : KeysIn(f)' = KeysIn(f)
  BY DEF KeysIn, KeysHeld
<1>2. InputsInv'
  BY <1>1, NamedFiles DEF OrderInv, InputsInv, InputsValid
<1>3. KeysOf(job.out)' = KeysOf(job.out) /\ Compacting' = Compacting
  BY <1>1, NamedFiles DEF KeysOf, Compacting
<1>4. OutputsInv'
  BY <1>1, <1>3, NamedFiles DEF OrderInv, OutputsInv
<1> QED  BY <1>2, <1>4

LEMMA FlushOrderKept ==
  ASSUME TypeOK, OrderInv, \A f \in Files : sst'[f] = sst[f],
         UNCHANGED <<heap, flush>>, live'[0] \subseteq live[0]
  PROVE  FlushInv'
<1>1. flush.pc = "publish" => flush.file \in Files
  BY DEF TypeOK, TablesTypeOK, FlushState, Files
<1> QED  BY <1>1 DEF OrderInv, FlushInv

-----------------------------------------------------------------------------
(* The steps of writers and of the flush thread.                           *)

\* The immutable memtable and the table being flushed never exist at once,
\* so a rotation puts an empty table above them all.
LEMMA RotateOrder ==
  ASSUME TypeOK, OrderInv, Rotate, CanRotate,
         UNCHANGED <<flush, sst, live, job, view>>
  PROVE  OrderInv'
<1>1. /\ heap' = Append(heap, Nothing) /\ imm' = Len(heap)
      /\ Len(heap') = Len(heap) + 1 /\ Len(heap) \in Nat \ {0}
      /\ heap'[Len(heap')] = Nothing
      /\ \A i \in 1 .. Len(heap) : heap'[i] = heap[i]
  BY DEF Rotate, TypeOK, TablesTypeOK
<1>2. imm = 0 /\ flush.table = 0 /\ flush.pc # "publish"
  BY DEF CanRotate, FlushInProgress, TypeOK, TablesTypeOK, FlushState
<1>3. \A f \in Files : sst'[f] = sst[f]
  OBVIOUS
<1>4. IndexInv'
  <2>1. \A r \in Readers :
          view[r].mem \in Nat /\ view[r].imm \in Nat /\ view[r].active =>
            view[r].mem # 0 /\ view[r].imm < view[r].mem
    BY DEF OrderInv, IndexInv
  <2> QED  BY <1>1, <1>2, <2>1 DEF OrderInv, IndexInv
<1>5. InputsInv' /\ OutputsInv'
  BY <1>3, JobOrderKept
<1>6. FlushInv' /\ LevelOneInv'
  BY <1>2, <1>3 DEF FlushInv, LevelOneInv, OrderInv, KeysIn
<1>7. NewestFirst'
  <2>1. ASSUME NEW m \in 0 .. Len(heap), NEW i \in 0 .. Len(heap), m # 0,
               NEW files, TablesNewestFirst(m, i, files)
        PROVE  TablesNewestFirst(m, i, files)'
    BY <1>1, <2>1 DEF TablesNewestFirst
  <2>2. TablesNewestFirst(Len(heap), imm, live)'
    <3>1. NotOlder(heap'[Len(heap')], heap'[imm'])
      BY <1>1 DEF NotOlder, Nothing
    <3>2. \A l \in Levels : \A f \in live'[l] :
            /\ NotOlder(heap'[Len(heap')], sst'[f])
            /\ NotOlder(heap'[imm'], sst'[f])
      BY <1>1 DEF NotOlder, Nothing, OrderInv, NewestFirst, TablesNewestFirst
    <3> QED  BY <3>1, <3>2 DEF TablesNewestFirst
  <2>3. FilesNewestFirst(live)'
    BY DEF OrderInv, NewestFirst, FilesNewestFirst
  <2>4. ASSUME NEW r \in Readers, view[r].active
        PROVE  /\ TablesNewestFirst(view[r].mem, view[r].imm, view[r].files)'
               /\ FilesNewestFirst(view[r].files)'
    <3>1. view[r].mem \in 0 .. Len(heap) /\ view[r].imm \in 0 .. Len(heap)
          /\ view[r].mem # 0
      BY <2>4 DEF OrderInv, IndexInv, TypeOK, ViewTypeOK, ViewState
    <3>2. /\ TablesNewestFirst(view[r].mem, view[r].imm, view[r].files)
          /\ FilesNewestFirst(view[r].files)
      BY <2>4 DEF OrderInv, NewestFirst
    <3>3. FilesNewestFirst(view[r].files)'
      BY <3>2 DEF FilesNewestFirst
    <3> QED  BY <2>1, <3>1, <3>2, <3>3
  <2> QED  BY <1>2, <2>2, <2>3, <2>4 DEF NewestFirst
<1> QED  BY <1>4, <1>5, <1>6, <1>7 DEF OrderInv

\* A write gets the highest position of the log, and goes to the memtable
\* that is searched first.
LEMMA ApplyOrder ==
  ASSUME TypeOK, OrderInv, NEW w \in Writers, Apply(w)
  PROVE  OrderInv'
<1> DEFINE op == Head(writer[w].ops)
<1>1. /\ op \in Op /\ op.key \in Key
      /\ Len(heap') = Len(heap) /\ Len(heap) \in 1 .. Len(heap)
      /\ heap' = [heap EXCEPT ![Len(heap)][op.key] = Len(log) + 1]
      /\ UNCHANGED <<imm, flush, view, sst, live, job>>
  <2>1. op \in Op /\ Len(heap') = Len(heap) /\ Len(heap) \in 1 .. Len(heap)
    BY ApplyType
  <2>2. \A o \in Op : o.key \in Key
    BY SMTT(20) DEF Op
  <2>3. /\ heap' = [heap EXCEPT ![Len(heap)][op.key] = Len(log) + 1]
        /\ UNCHANGED <<imm, flush, view, sst, live, job>>
    BY DEF Apply, versionVars, jobVars
  <2> HIDE DEF op
  <2> QED  BY <2>1, <2>2, <2>3
<1>2. /\ \A i \in 1 .. Len(heap) : i # Len(heap) => heap'[i] = heap[i]
      /\ \A k \in Key : heap'[Len(heap)][k] = heap[Len(heap)][k]
                          \/ heap'[Len(heap)][k] = Len(log) + 1
  BY <1>1 DEF TypeOK, TablesTypeOK, Content
<1>3. \A f \in Files : sst'[f] = sst[f]
  BY <1>1
<1>4. IndexInv'
  BY <1>1 DEF OrderInv, IndexInv
<1>5. InputsInv' /\ OutputsInv'
  BY <1>1, <1>3, JobOrderKept
<1>6. FlushInv'
  BY <1>1, <1>2 DEF OrderInv, FlushInv, IndexInv, TypeOK, TablesTypeOK,
                    FlushState
<1>7. LevelOneInv'
  BY <1>1 DEF OrderInv, LevelOneInv, KeysIn
<1>8. ASSUME NEW c \in Content, NotOlder(heap[Len(heap)], c)
      PROVE  NotOlder(heap'[Len(heap)], c)
  BY <1>2, <1>8 DEF NotOlder, Content, TypeOK, WritesTypeOK
<1>9. ASSUME NEW m \in 1 .. Len(heap), NEW i \in 0 .. Len(heap), i < m,
             NEW files \in LevelFiles, TablesNewestFirst(m, i, files)
      PROVE  TablesNewestFirst(m, i, files)'
  <2>1. i # 0 => heap[i] \in Content /\ heap'[i] = heap[i]
    BY <1>2, <1>9 DEF TypeOK, TablesTypeOK
  <2>2. \A l \in Levels : \A f \in files[l] : sst[f] \in Content
    BY DEF LevelFiles, FileNumbers, Files, TypeOK, TablesTypeOK
  <2>3. CASE m = Len(heap)
    BY <1>1, <1>8, <1>9, <2>1, <2>2, <2>3 DEF TablesNewestFirst
  <2>4. CASE m # Len(heap)
    BY <1>1, <1>2, <1>9, <2>1, <2>4 DEF TablesNewestFirst
  <2> QED  BY <2>3, <2>4
<1>10. NewestFirst'
  <2>1. TablesNewestFirst(Len(heap), imm, live)'
    BY <1>1, <1>9 DEF OrderInv, NewestFirst, IndexInv, TypeOK, TablesTypeOK,
                      VersionTypeOK
  <2>2. flush.table # 0 => TablesNewestFirst(Len(heap), flush.table, live)'
    BY <1>1, <1>9 DEF OrderInv, NewestFirst, IndexInv, TypeOK, TablesTypeOK,
                      VersionTypeOK, FlushState
  <2>3. FilesNewestFirst(live)'
    BY <1>1 DEF OrderInv, NewestFirst, FilesNewestFirst
  <2>4. ASSUME NEW r \in Readers, view[r].active
        PROVE  /\ TablesNewestFirst(view[r].mem, view[r].imm, view[r].files)'
               /\ FilesNewestFirst(view[r].files)'
    <3>1. view[r].mem \in 1 .. Len(heap) /\ view[r].imm \in 0 .. Len(heap)
          /\ view[r].imm < view[r].mem /\ view[r].files \in LevelFiles
      BY <2>4 DEF OrderInv, IndexInv, TypeOK, ViewTypeOK, ViewState
    <3>2. /\ TablesNewestFirst(view[r].mem, view[r].imm, view[r].files)
          /\ FilesNewestFirst(view[r].files)
      BY <2>4 DEF OrderInv, NewestFirst
    <3>3. FilesNewestFirst(view[r].files)'
      BY <1>1, <3>2 DEF FilesNewestFirst
    <3>4. TablesNewestFirst(view[r].mem, view[r].imm, view[r].files)'
      BY <1>1, <1>9, <3>1, <3>2
    <3> QED  BY <3>3, <3>4
  <2> HIDE DEF op
  <2> QED  BY <1>1, <2>1, <2>2, <2>3, <2>4 DEF NewestFirst
<1> HIDE DEF op
<1> QED  BY <1>4, <1>5, <1>6, <1>7, <1>10 DEF OrderInv

LEMMA FlushTakeOrder ==
  ASSUME TypeOK, OrderInv, FlushTake
  PROVE  OrderInv'
<1>1. /\ UNCHANGED <<heap, view, sst, live, job>> /\ imm # 0 /\ imm' = 0
      /\ flush' = [pc |-> "build", table |-> imm, file |-> 0]
  BY DEF FlushTake, versionVars, jobVars
<1>2. flush'.table = imm /\ flush'.pc = "build"
  BY <1>1
<1>3. IndexInv'
  BY <1>1, <1>2 DEF OrderInv, IndexInv, TypeOK, TablesTypeOK
<1>4. InputsInv' /\ OutputsInv'
  BY <1>1, JobOrderKept
<1>5. FlushInv' /\ LevelOneInv'
  BY <1>1, <1>2 DEF OrderInv, FlushInv, LevelOneInv, KeysIn
<1>6. NewestFirst'
  <2>1. TablesNewestFirst(Len(heap), 0, live)'
    BY <1>1 DEF OrderInv, NewestFirst, TablesNewestFirst
  <2>2. TablesNewestFirst(Len(heap), flush.table, live)'
    BY <1>1, <1>2 DEF OrderInv, NewestFirst, TablesNewestFirst
  <2>3. FilesNewestFirst(live)' /\ \A r \in Readers : view[r].active =>
          /\ TablesNewestFirst(view[r].mem, view[r].imm, view[r].files)'
          /\ FilesNewestFirst(view[r].files)'
    BY <1>1 DEF OrderInv, NewestFirst, TablesNewestFirst, FilesNewestFirst
  <2> QED  BY <1>1, <2>1, <2>2, <2>3 DEF NewestFirst, TablesNewestFirst
<1> QED  BY <1>3, <1>4, <1>5, <1>6 DEF OrderInv

LEMMA FlushBuildOrder ==
  ASSUME TypeOK, OrderInv, FlushBuild, \A f \in Files : sst'[f] = sst[f]
  PROVE  OrderInv'
<1>1. /\ UNCHANGED <<heap, imm, view, live, job>>
      /\ flush'.table = flush.table /\ flush.pc = "build"
      /\ sst' = Append(sst, heap[flush.table])
      /\ flush'.pc = "publish" => flush'.file = NewFileNumber
  BY DEF FlushBuild, memVars, jobVars, TypeOK, TablesTypeOK, FlushState
<1>2. IndexInv' /\ LevelOneInv' /\ NewestFirst'
  BY <1>1, LayersKept
<1>3. InputsInv' /\ OutputsInv'
  BY <1>1, JobOrderKept
<1>4. FlushInv'
  <2>1. sst'[NewFileNumber] = heap[flush.table]
    BY <1>1, FlushBuildType DEF NewFileNumber, TypeOK, TablesTypeOK
  <2>2. \A f \in live[0] : f < NewFileNumber
    BY NamedFiles DEF NewFileNumber, Files, TypeOK, TablesTypeOK
  <2> QED  BY <1>1, <2>1, <2>2 DEF FlushInv
<1> QED  BY <1>2, <1>3, <1>4 DEF OrderInv

\* The new file goes before every file of the version.
LEMMA PublishFiles ==
  ASSUME TypeOK, OrderInv, flush.pc = "publish",
         NEW F, F = [live EXCEPT ![0] = @ \cup {flush.file}]
  PROVE  /\ FilesNewestFirst(F)
         /\ F[1] = live[1] /\ flush.file \in F[0]
<1> DEFINE n == flush.file
<1>1. /\ sst[n] = heap[flush.table] /\ \A f \in live[0] : f < n
      /\ flush.table # 0 /\ n \in Nat
  BY DEF OrderInv, FlushInv, TypeOK, TablesTypeOK, FlushState
<1>2. live \in [Levels -> SUBSET Files] /\ 0 \in Levels /\ 1 \in Levels
  BY NamedFiles DEF TypeOK, VersionTypeOK, LevelFiles, FileNumbers
<1>3. /\ F[1] = live[1] /\ n \in F[0]
      /\ \A l \in Levels : \A f \in F[l] :
           f \in live[l] \/ (l = 0 /\ f = n)
  BY <1>2
<1> HIDE DEF n
<1>4. TablesNewestFirst(Len(heap), flush.table, live)
  BY <1>1 DEF OrderInv, NewestFirst
<1>5. FilesNewestFirst(F)
  <2> SUFFICES ASSUME NEW l \in Levels, NEW i \in Levels,
                      NEW f \in F[l], NEW g \in F[i],
                      Before(l, f, i, g)
               PROVE  NotOlder(sst[f], sst[g])
    BY DEF FilesNewestFirst
  <2>1. CASE f \in live[l] /\ g \in live[i]
    BY <2>1 DEF OrderInv, NewestFirst, FilesNewestFirst
  <2>2. CASE f = n /\ l = 0 /\ g \in live[i]
    BY <1>1, <1>4, <2>2 DEF TablesNewestFirst
  <2>3. CASE f \in live[l] /\ i = 0 /\ g = n
    <3>1. l \in Nat /\ f \in Nat
      BY <1>2, <2>3 DEF Levels, Files, TypeOK, TablesTypeOK
    <3>2. l = 0 /\ n < f
      BY <2>3, <3>1 DEF Before
    <3> QED  BY <1>1, <2>3, <3>1, <3>2
  <2>4. CASE f = n /\ l = 0 /\ i = 0 /\ g = n
    BY <1>1, <2>4 DEF Before
  <2> QED  BY <1>3, <2>1, <2>2, <2>3, <2>4
<1> QED  BY <1>3, <1>5 DEF n

\* The new file takes the place of the table it was built from, before
\* every file of the version.
LEMMA FlushPublishOrder ==
  ASSUME TypeOK, OrderInv, FlushPublish
  PROVE  OrderInv'
<1> DEFINE n == flush.file
<1>1. /\ UNCHANGED <<heap, imm, view, sst, job>>
      /\ flush'.table = 0 /\ flush'.pc = "schedule"
      /\ sst[n] = heap[flush.table] /\ \A f \in live[0] : f < n
      /\ flush.table # 0 /\ imm = 0 /\ n \in Nat
      /\ \/ live' = live
         \/ live' = [live EXCEPT ![0] = @ \cup {n}]
  BY DEF FlushPublish, memVars, jobVars, OrderInv, FlushInv, IndexInv,
         TypeOK, TablesTypeOK, FlushState
<1>2. live \in [Levels -> SUBSET Files] /\ 0 \in Levels /\ 1 \in Levels
      /\ job.level \in Levels /\ job.level + 1 \in Levels
  BY NamedFiles DEF TypeOK, VersionTypeOK, LevelFiles, FileNumbers
<1>3. /\ \A l \in Levels : l # 0 => live'[l] = live[l]
      /\ live'[0] = live[0] \/ live'[0] = live[0] \cup {n}
      /\ \A l \in Levels : \A f \in live'[l] :
           f \in live[l] \/ (l = 0 /\ f = n)
  BY <1>1, <1>2
<1> HIDE DEF n
<1>4. IndexInv' /\ FlushInv' /\ LevelOneInv'
  <2>1. IndexInv'
    BY <1>1 DEF OrderInv, IndexInv, TypeOK, TablesTypeOK
  <2>2. FlushInv'
    BY <1>1 DEF FlushInv
  <2>3. LevelOneInv'
    BY <1>1, <1>2, <1>3 DEF OrderInv, LevelOneInv, KeysIn
  <2> QED  BY <2>1, <2>2, <2>3
<1>5. InputsInv'
  <2> SUFFICES ASSUME job.pc # "none" PROVE InputsInv'
    BY <1>1 DEF InputsInv
  <2>1. InputsValid' /\ job.upper \subseteq live[job.level]
    BY <1>1, <1>2, <1>3 DEF OrderInv, InputsInv, InputsValid
  <2>2. CASE job.level = 0
    BY <1>1, <1>2, <1>3, <2>1, <2>2 DEF OrderInv, InputsInv, KeysIn
  <2>3. CASE job.level # 0
    BY <1>1, <1>2, <1>3, <2>1, <2>3 DEF OrderInv, InputsInv
  <2> QED  BY <2>2, <2>3
<1>6. OutputsInv'
  <2>1. live'[job.level + 1] = live[job.level + 1]
    <3>1. job.level + 1 # 0
      BY <1>2 DEF Levels
    <3> QED  BY <1>2, <1>3, <3>1
  <2>2. KeysOf(job.out)' = KeysOf(job.out) /\ Compacting' = Compacting
    BY <1>1 DEF KeysOf, KeysIn, Compacting
  <2> QED  BY <1>1, <2>1, <2>2 DEF OrderInv, OutputsInv, KeysIn
<1>7. NewestFirst'
  <2>1. TablesNewestFirst(Len(heap), flush.table, live)
    BY <1>1 DEF OrderInv, NewestFirst
  <2>2. TablesNewestFirst(Len(heap), imm, live)'
    BY <1>1, <1>3, <2>1 DEF TablesNewestFirst
  <2>3. FilesNewestFirst(live)'
    <3>1. flush.pc = "publish"
      BY DEF FlushPublish
    <3>2. CASE live' = live
      BY <1>1, <3>2 DEF OrderInv, NewestFirst, FilesNewestFirst
    <3>3. CASE live' = [live EXCEPT ![0] = @ \cup {n}]
      <4>1. FilesNewestFirst(live')
        BY <3>1, <3>3, PublishFiles DEF n
      <4> QED  BY <1>1, <4>1 DEF FilesNewestFirst
    <3> QED  BY <1>1, <3>2, <3>3
  <2>4. \A r \in Readers : view[r].active =>
          /\ TablesNewestFirst(view[r].mem, view[r].imm, view[r].files)'
          /\ FilesNewestFirst(view[r].files)'
    BY <1>1 DEF OrderInv, NewestFirst, TablesNewestFirst, FilesNewestFirst
  <2> QED  BY <1>1, <2>2, <2>3, <2>4 DEF NewestFirst
<1> QED  BY <1>4, <1>5, <1>6, <1>7 DEF OrderInv

LEMMA FlushAbandonOrder ==
  ASSUME TypeOK, OrderInv, FlushAbandon
  PROVE  OrderInv'
<1>1. /\ UNCHANGED <<heap, imm, view, sst, live, job>>
      /\ flush'.table = 0 /\ flush'.pc = "schedule"
  BY DEF FlushAbandon, memVars, versionVars, jobVars
<1>2. IndexInv' /\ FlushInv' /\ LevelOneInv'
  BY <1>1 DEF OrderInv, IndexInv, FlushInv, LevelOneInv, KeysIn, TypeOK,
              TablesTypeOK
<1>3. InputsInv' /\ OutputsInv'
  BY <1>1, JobOrderKept
<1>4. NewestFirst'
  BY <1>1 DEF OrderInv, NewestFirst, TablesNewestFirst, FilesNewestFirst
<1> QED  BY <1>2, <1>3, <1>4 DEF OrderInv

-----------------------------------------------------------------------------
(* The steps of compactions.                                               *)

\* A job takes all of its level, and below level 0 every file of level 1
\* whose range meets its own: the files left out share no key with it.
LEMMA StartJobOrder ==
  ASSUME TypeOK, OrderInv, NEW l \in 0 .. MaxLevel - 2,
         NEW background, NEW cleanup, StartJob(l, background, cleanup),
         UNCHANGED <<live, sst>>
  PROVE  InputsInv' /\ OutputsInv'
<1> DEFINE L == IF l = 0 THEN {f \in live[1] : Overlaps(f, live[0])} ELSE {}
<1>1. job' = [pc |-> "read", background |-> background, cleanup |-> cleanup,
              level |-> l, upper |-> live[l], lower |-> L, ttl |-> ttl,
              merged |-> Nothing, left |-> {}, out |-> {}, lost |-> {}]
  BY DEF StartJob, NoJob
<1>2. /\ job'.pc = "read" /\ job'.level = l /\ job'.upper = live[l]
      /\ job'.lower = L /\ job'.out = {}
  BY <1>1
<1>3. l = 0 => \A f \in live[1] \ L, h \in live[0] :
                 KeysIn(f) \cap KeysIn(h) = {}
  <2> SUFFICES ASSUME l = 0, NEW f \in live[1], NEW h \in live[0],
                      NEW k \in KeysIn(f), k \in KeysIn(h)
               PROVE  Overlaps(f, live[0])
    OBVIOUS
  <2>1. k \in KeysOf(live[0])
    BY DEF KeysOf
  <2>2. ~KeyLess(k, k)
    <3>1. k[1] \in Int /\ k[2] \in Int
      BY KeysAssumption DEF KeysIn, KeysHeld, Key
    <3> QED  BY <3>1 DEF KeyLess
  <2> QED  BY <2>1, <2>2 DEF Overlaps
<1>4. InputsInv'
  <2>1. InputsValid'
    BY <1>2 DEF InputsValid
  <2>2. CASE l = 0
    BY <1>2, <1>3, <2>1, <2>2 DEF InputsInv, KeysIn
  <2>3. CASE l # 0
    BY <1>2, <2>1, <2>3 DEF InputsInv
  <2> QED  BY <2>2, <2>3
<1>5. OutputsInv'
  BY <1>2 DEF OutputsInv
<1> QED  BY <1>4, <1>5

LEMMA BackgroundCompactOrder ==
  ASSUME TypeOK, OrderInv, BackgroundCompact
  PROVE  OrderInv'
<1>1. UNCHANGED <<heap, imm, view, live, sst, flush>>
  BY DEF BackgroundCompact, memVars, versionVars
<1>2. IndexInv' /\ LevelOneInv' /\ NewestFirst'
  BY <1>1, LayersKept
<1>3. FlushInv'
  BY <1>1, FlushOrderKept
<1>4. InputsInv' /\ OutputsInv'
  <2>1. CASE \E l \in Levels :
               CompactLevel(FALSE, l) /\ StartJob(l, TRUE, TRUE)
    BY <1>1, <2>1, StartJobOrder DEF CompactLevel
  <2>2. CASE UNCHANGED job
    BY <1>1, <2>2, JobOrderKept
  <2> QED  BY <2>1, <2>2 DEF BackgroundCompact
<1> QED  BY <1>2, <1>3, <1>4 DEF OrderInv

LEMMA UserCompactOrder ==
  ASSUME TypeOK, OrderInv, NEW cleanup \in BOOLEAN, UserCompact(cleanup)
  PROVE  OrderInv'
<1>1. UNCHANGED <<heap, imm, view, live, sst, flush>>
  BY DEF UserCompact, memVars
<1>2. IndexInv' /\ LevelOneInv' /\ NewestFirst'
  BY <1>1, LayersKept
<1>3. FlushInv'
  BY <1>1, FlushOrderKept
<1>4. InputsInv' /\ OutputsInv'
  <2>1. CASE \E l \in Levels :
               CompactLevel(TRUE, l) /\ StartJob(l, FALSE, cleanup)
    BY <1>1, <2>1, StartJobOrder DEF CompactLevel
  <2>2. CASE UNCHANGED job
    BY <1>1, <2>2, JobOrderKept
  <2> QED  BY <2>1, <2>2 DEF UserCompact, jobVars
<1> QED  BY <1>2, <1>3, <1>4 DEF OrderInv

LEMMA CompactReadOrder ==
  ASSUME TypeOK, OrderInv, CompactRead
  PROVE  OrderInv'
<1>1. UNCHANGED <<heap, imm, view, live, sst, flush>> /\ job.pc = "read"
  BY DEF CompactRead, memVars, versionVars
<1>2. IndexInv' /\ LevelOneInv' /\ NewestFirst'
  BY <1>1, LayersKept
<1>3. FlushInv'
  BY <1>1, FlushOrderKept
<1>4. PICK F \in SUBSET Compacting : \E lost :
        job' = [job EXCEPT !.pc = "write", !.merged = Merge(F),
                           !.left = KeysHeld(Merge(F)), !.lost = lost]
  BY DEF CompactRead
<1>5. /\ job'.pc = "write" /\ job'.merged = Merge(F)
      /\ job'.left = KeysHeld(Merge(F)) /\ job'.level = job.level
      /\ job'.upper = job.upper /\ job'.lower = job.lower
      /\ job'.out = job.out
  BY <1>4 DEF TypeOK, JobTypeOK, JobState
<1>6. InputsInv'
  BY <1>1, <1>5 DEF OrderInv, InputsInv, InputsValid, KeysIn
<1>7. OutputsInv'
  <2>1. job.out = {} /\ KeysOf({}) = {}
    BY <1>1 DEF OrderInv, OutputsInv, KeysOf
  <2>2. \A k \in KeysHeld(Merge(F)) : \E h \in Compacting :
          sst[h][k] = Merge(F)[k]
    BY MergeTakesInputs DEF KeysHeld
  <2>3. Compacting' = Compacting /\ KeysOf(job.out)' = {}
    BY <1>5, <2>1 DEF Compacting, KeysOf
  <2> QED  BY <1>1, <1>5, <2>1, <2>2, <2>3 DEF OutputsInv
<1> QED  BY <1>2, <1>3, <1>6, <1>7 DEF OrderInv

\* The next output holds keys no earlier output holds, under a new number.
LEMMA CompactWriteOrder ==
  ASSUME TypeOK, OrderInv, CompactWrite, \A f \in Files : sst'[f] = sst[f]
  PROVE  OrderInv'
<1>0. PICK n : n = NewFileNumber
  OBVIOUS
<1>1. UNCHANGED <<heap, imm, view, live, flush>> /\ job.pc = "write"
  BY DEF CompactWrite, memVars
<1>2. IndexInv' /\ LevelOneInv' /\ NewestFirst'
  BY <1>1, LayersKept
<1>3. FlushInv'
  BY <1>1, FlushOrderKept
<1>4. PICK P \in SUBSET job.left :
        /\ sst' = Append(sst, [k \in Key |->
                                 IF k \in P THEN job.merged[k] ELSE 0])
        /\ job' = [job EXCEPT !.left = @ \ P, !.out = @ \cup {n}]
  BY <1>0 DEF CompactWrite
<1>5. /\ job'.pc = "write" /\ job'.merged = job.merged
      /\ job'.left = job.left \ P /\ job'.level = job.level
      /\ job'.upper = job.upper /\ job'.lower = job.lower
      /\ job'.out = job.out \cup {n} /\ Compacting' = Compacting
  BY <1>1, <1>4 DEF TypeOK, JobTypeOK, JobState, Compacting
<1>6. /\ sst'[n] = [k \in Key |-> IF k \in P THEN job.merged[k] ELSE 0]
      /\ \A f \in Files : f < n /\ f # n
  BY <1>0, <1>4 DEF NewFileNumber, Files, TypeOK, TablesTypeOK
<1>7. /\ job.left = KeysHeld(job.merged) \ KeysOf(job.out)
      /\ \A k \in KeysHeld(job.merged) :
           \E h \in Compacting : sst[h][k] = job.merged[k]
      /\ \A f \in job.out, k \in Key :
           sst[f][k] # 0 => sst[f][k] = job.merged[k]
      /\ \A f, g \in job.out : f # g => KeysIn(f) \cap KeysIn(g) = {}
      /\ \A f \in job.out, g \in live[job.level + 1] : g < f
  BY <1>1 DEF OrderInv, OutputsInv
<1>8. KeysIn(n)' = P /\ \A f \in Files : KeysIn(f)' = KeysIn(f)
  <2>1. P \subseteq KeysHeld(job.merged)
    BY <1>7
  <2>2. KeysIn(n)' = P
    BY <1>6, <2>1 DEF KeysIn, KeysHeld
  <2>3. \A f \in Files : KeysIn(f)' = KeysIn(f)
    BY DEF KeysIn
  <2> QED  BY <2>2, <2>3
<1>9. InputsInv'
  BY <1>1, <1>5, <1>8, NamedFiles DEF OrderInv, InputsInv, InputsValid
<1>10. OutputsInv'
  <2>1. KeysOf(job.out)' = KeysOf(job.out) \cup P
    <3>1. \A f \in job.out : KeysIn(f)' = KeysIn(f)
      BY <1>8, NamedFiles
    <3> QED  BY <1>5, <1>8, <3>1 DEF KeysOf
  <2>2. job'.left = KeysHeld(job'.merged) \ KeysOf(job.out)'
    BY <1>5, <1>7, <2>1
  <2>3. \A k \in KeysHeld(job'.merged) :
          \E h \in Compacting' : sst'[h][k] = job'.merged[k]
    BY <1>5, <1>7, NamedFiles
  <2>4. \A f \in job'.out, k \in Key :
          sst'[f][k] # 0 => sst'[f][k] = job'.merged[k]
    BY <1>5, <1>6, <1>7, NamedFiles
  <2>5. \A f, g \in job'.out : f # g => KeysIn(f)' \cap KeysIn(g)' = {}
    <3>1. \A f \in job.out : KeysIn(f) \cap P = {}
      BY <1>7 DEF KeysOf
    <3>2. \A f \in job.out : KeysIn(f)' = KeysIn(f)
      BY <1>8, NamedFiles
    <3> QED  BY <1>5, <1>7, <1>8, <3>1, <3>2
  <2>6. \A f \in job'.out, g \in live'[job'.level + 1] : g < f
    BY <1>1, <1>5, <1>6, <1>7, NamedFiles
  <2> QED  BY <1>5, <2>2, <2>3, <2>4, <2>5, <2>6 DEF OutputsInv
<1> QED  BY <1>2, <1>3, <1>9, <1>10 DEF OrderInv

LEMMA CompactWriteFailsOrder ==
  ASSUME TypeOK, OrderInv, CompactWriteFails,
         \A f \in Files : sst'[f] = sst[f]
  PROVE  OrderInv'
<1>1. UNCHANGED <<heap, imm, view, live, flush>> /\ job.pc = "write"
  BY DEF CompactWriteFails, memVars
<1>2. IndexInv' /\ LevelOneInv' /\ NewestFirst'
  BY <1>1, LayersKept
<1>3. FlushInv'
  BY <1>1, FlushOrderKept
<1>4. /\ job'.pc = "failed" /\ job'.level = job.level
      /\ job'.upper = job.upper /\ job'.lower = job.lower
  BY DEF CompactWriteFails, TypeOK, JobTypeOK, JobState
<1>5. \A f \in Files : KeysIn(f)' = KeysIn(f)
  BY DEF KeysIn
<1>6. InputsInv' /\ OutputsInv'
  BY <1>1, <1>4, <1>5, NamedFiles DEF OrderInv, InputsInv, InputsValid,
                                      OutputsInv
<1> QED  BY <1>2, <1>3, <1>6 DEF OrderInv

LEMMA CompactAbortOrder ==
  ASSUME TypeOK, OrderInv, CompactAbort
  PROVE  OrderInv'
<1>1. UNCHANGED <<heap, imm, view, live, flush, sst>> /\ job' = NoJob
  BY DEF CompactAbort, memVars, EndJob
<1>2. IndexInv' /\ LevelOneInv' /\ NewestFirst'
  BY <1>1, LayersKept
<1>3. FlushInv'
  BY <1>1, FlushOrderKept
<1>4. InputsInv' /\ OutputsInv'
  BY <1>1 DEF InputsInv, OutputsInv, NoJob
<1> QED  BY <1>2, <1>3, <1>4 DEF OrderInv

\* What a table is newer than, or older than, when it is so for all the
\* inputs of a job: its outputs.
LEMMA OutputsAge ==
  ASSUME OrderInv, job.pc = "write", NEW c
  PROVE  /\ (\A h \in Compacting : NotOlder(c, sst[h]))
              => \A f \in job.out : NotOlder(c, sst[f])
         /\ (\A h \in Compacting : NotOlder(sst[h], c))
              => \A f \in job.out : NotOlder(sst[f], c)
<1>1. ASSUME NEW f \in job.out, NEW k \in Key, sst[f][k] # 0
      PROVE  \E h \in Compacting : sst[h][k] = sst[f][k]
  <2>1. sst[f][k] = job.merged[k]
    BY <1>1 DEF OrderInv, OutputsInv
  <2>2. k \in KeysHeld(job.merged)
    BY <1>1, <2>1 DEF KeysHeld
  <2> QED  BY <2>1, <2>2 DEF OrderInv, OutputsInv
<1>2. ASSUME \A h \in Compacting : NotOlder(c, sst[h]), NEW f \in job.out
      PROVE  NotOlder(c, sst[f])
  <2> SUFFICES ASSUME NEW k \in Key, c[k] # 0, sst[f][k] # 0
               PROVE  sst[f][k] <= c[k]
    BY DEF NotOlder
  <2>1. PICK h \in Compacting : sst[h][k] = sst[f][k]
    BY <1>1
  <2> QED  BY <1>2, <2>1 DEF NotOlder
<1>3. ASSUME \A h \in Compacting : NotOlder(sst[h], c), NEW f \in job.out
      PROVE  NotOlder(sst[f], c)
  <2> SUFFICES ASSUME NEW k \in Key, c[k] # 0, sst[f][k] # 0
               PROVE  c[k] <= sst[f][k]
    BY DEF NotOlder
  <2>1. PICK h \in Compacting : sst[h][k] = sst[f][k]
    BY <1>1
  <2> QED  BY <1>3, <2>1 DEF NotOlder
<1> QED  BY <1>2, <1>3

\* The files of the version once the outputs of a job are in the place of its
\* inputs.
Edited(files, upper, lower, level, out) ==
  [files EXCEPT ![level] = @ \ upper, ![level + 1] = (@ \ lower) \cup out]

\* No key has two versions in level 1.
KeysApart(files) ==
  \A f, g \in files[1] : f # g => KeysIn(f) \cap KeysIn(g) = {}

\* The outputs of a job take the place of its inputs: they are newer than
\* what lies below, older than what lies above and than what stays beside
\* the inputs at level 0, and share no key with the rest of level 1.
LEMMA CommitFiles ==
  ASSUME TypeOK, OrderInv, job.pc = "write",
         NEW F, F = Edited(live, job.upper, job.lower, job.level, job.out)
  PROVE  /\ FilesNewestFirst(F) /\ KeysApart(F) /\ F[0] \subseteq live[0]
         /\ \A m, i : TablesNewestFirst(m, i, live)
                        => TablesNewestFirst(m, i, F)
<1> DEFINE L == job.level
<1>1. F = [live EXCEPT ![L] = @ \ job.upper,
                       ![L + 1] = (@ \ job.lower) \cup job.out]
  BY DEF Edited
<1>2. /\ L \in Levels /\ L + 1 \in Levels /\ 0 \in Levels /\ 1 \in Levels
      /\ Levels \subseteq Nat /\ L + 1 # L /\ L + 1 # 0
  BY NamedFiles DEF Levels
<1>3. /\ F \in [Levels -> SUBSET Nat] /\ Files \subseteq Nat
      /\ F[L] = live[L] \ job.upper
      /\ F[L + 1] = (live[L + 1] \ job.lower) \cup job.out
      /\ \A l \in Levels : l # L /\ l # L + 1 => F[l] = live[l]
  <2>1. live \in [Levels -> SUBSET Nat] /\ Files \subseteq Nat
        /\ job.out \subseteq Nat
    BY NamedFiles DEF TypeOK, VersionTypeOK, LevelFiles, FileNumbers, Files,
                      TablesTypeOK
  <2> QED  BY <1>1, <1>2, <2>1
<1>4. /\ job.upper \subseteq live[L] /\ job.lower \subseteq live[L + 1]
      /\ L = 0 => /\ \A f \in live[0] \ job.upper, h \in job.upper : h < f
                  /\ \A f \in live[1] \ job.lower, h \in job.upper :
                       KeysIn(f) \cap KeysIn(h) = {}
      /\ L # 0 => job.upper = live[L] /\ job.lower = {}
  BY DEF OrderInv, InputsInv, InputsValid
<1>5. /\ \A f, g \in job.out : f # g => KeysIn(f) \cap KeysIn(g) = {}
      /\ \A f \in job.out, g \in live[L + 1] : g < f
  BY DEF OrderInv, OutputsInv
<1>6. \A h \in Compacting : h \in job.upper \/ h \in job.lower
  BY DEF Compacting
<1>7. FilesNewestFirst(live)
  BY DEF OrderInv, NewestFirst
<1> HIDE DEF L
<1>10. ASSUME NEW f, NEW g, KeysIn(f) \cap KeysIn(g) = {}
       PROVE  NotOlder(sst[f], sst[g])
  BY <1>10 DEF NotOlder, KeysIn, KeysHeld
<1>11. KeysApart(F)
  <2> SUFFICES ASSUME NEW f \in F[1], NEW g \in F[1], f # g
               PROVE  KeysIn(f) \cap KeysIn(g) = {}
    BY DEF KeysApart
  <2>1. f \in live[1] /\ g \in live[1] => KeysIn(f) \cap KeysIn(g) = {}
    BY DEF OrderInv, LevelOneInv
  <2>2. CASE L # 0
    <3>1. F[1] \subseteq live[1]
      BY <1>2, <1>3, <2>2
    <3> QED  BY <2>1, <3>1
  <2>3. CASE L = 0
    <3>1. ASSUME NEW a \in job.out, NEW b \in live[1] \ job.lower
          PROVE  KeysIn(a) \cap KeysIn(b) = {}
      <4> SUFFICES ASSUME NEW k \in Key, sst[a][k] # 0, sst[b][k] # 0
                   PROVE  FALSE
        BY DEF KeysIn, KeysHeld
      <4>1. PICK h \in Compacting : sst[h][k] # 0
        BY DEF OrderInv, OutputsInv, KeysHeld
      <4>2. CASE h \in job.upper
        BY <1>4, <2>3, <3>1, <4>1, <4>2 DEF KeysIn, KeysHeld
      <4>3. CASE h \in job.lower
        <5>1. h \in live[1] /\ h # b
          BY <1>2, <1>4, <2>3, <4>3
        <5> QED  BY <4>1, <5>1 DEF OrderInv, LevelOneInv, KeysIn, KeysHeld
      <4> QED  BY <1>6, <4>2, <4>3
    <3>2. F[1] = (live[1] \ job.lower) \cup job.out
      BY <1>3, <2>3
    <3> QED  BY <1>5, <2>1, <3>1, <3>2
  <2> QED  BY <2>2, <2>3
<1>12. ASSUME NEW l \in Levels, NEW f \in F[l]
       PROVE  \/ /\ f \in live[l]
                 /\ l = L => f \notin job.upper
                 /\ l = L + 1 => f \notin job.lower
              \/ l = L + 1 /\ f \in job.out
  BY <1>2, <1>3
<1>13. ASSUME NEW m, NEW i, TablesNewestFirst(m, i, live)
       PROVE  TablesNewestFirst(m, i, F)
  <2>1. \A h \in Compacting : NotOlder(heap[m], sst[h])
    BY <1>2, <1>4, <1>6, <1>13 DEF TablesNewestFirst
  <2>2. i # 0 => \A h \in Compacting : NotOlder(heap[i], sst[h])
    BY <1>2, <1>4, <1>6, <1>13 DEF TablesNewestFirst
  <2>3. \A f \in job.out : NotOlder(heap[m], sst[f])
                             /\ (i # 0 => NotOlder(heap[i], sst[f]))
    BY <2>1, <2>2, OutputsAge
  <2> QED  BY <1>12, <1>13, <2>3 DEF TablesNewestFirst
<1>14. FilesNewestFirst(F)
  <2> SUFFICES ASSUME NEW l \in Levels, NEW i \in Levels,
                      NEW f \in F[l], NEW g \in F[i],
                      Before(l, f, i, g)
               PROVE  NotOlder(sst[f], sst[g])
    BY DEF FilesNewestFirst
  <2>1. l \in Nat /\ i \in Nat /\ f \in Nat /\ g \in Nat /\ L \in Nat
    BY <1>2, <1>3
  <2>2. CASE f \in live[l] /\ g \in live[i]
    BY <1>7, <2>2 DEF FilesNewestFirst
  <2>3. CASE /\ f \in live[l] /\ (l = L => f \notin job.upper)
             /\ i = L + 1 /\ g \in job.out
    <3>1. l < L + 1
      BY <1>5, <2>1, <2>3 DEF Before
    <3>2. ASSUME NEW h \in job.upper PROVE NotOlder(sst[f], sst[h])
      <4>1. h \in live[L]
        BY <1>4
      <4>2. Before(l, f, L, h)
        <5>1. CASE l < L
          BY <5>1 DEF Before
        <5>2. CASE l = L
          <6>1. L = 0
            BY <1>4, <2>3, <5>2
          <6> QED  BY <1>4, <2>3, <5>2, <6>1 DEF Before
        <5> QED  BY <2>1, <3>1, <5>1, <5>2
      <4> QED  BY <1>2, <1>7, <2>3, <4>1, <4>2 DEF FilesNewestFirst
    <3>3. ASSUME NEW h \in job.lower PROVE NotOlder(sst[f], sst[h])
      <4>1. h \in live[L + 1] /\ Before(l, f, L + 1, h)
        BY <1>4, <3>1 DEF Before
      <4> QED  BY <1>2, <1>7, <2>3, <4>1 DEF FilesNewestFirst
    <3> QED  BY <1>6, <2>3, <3>2, <3>3, OutputsAge
  <2>4. CASE /\ l = L + 1 /\ f \in job.out
             /\ g \in live[i] /\ (i = L + 1 => g \notin job.lower)
    <3>1. L + 1 <= i
      BY <2>1, <2>4 DEF Before
    <3>2. ASSUME NEW h \in job.upper PROVE NotOlder(sst[h], sst[g])
      <4>1. h \in live[L] /\ Before(L, h, i, g)
        BY <1>4, <2>1, <3>1 DEF Before
      <4> QED  BY <1>2, <1>7, <2>4, <4>1 DEF FilesNewestFirst
    <3>3. ASSUME NEW h \in job.lower PROVE NotOlder(sst[h], sst[g])
      <4>1. h \in live[L + 1] /\ L = 0
        BY <1>4, <3>3
      <4>2. CASE L + 1 < i
        BY <1>2, <1>7, <2>4, <4>1, <4>2 DEF FilesNewestFirst, Before
      <4>3. CASE i = L + 1
        <5>1. h \in live[1] /\ g \in live[1] /\ h # g
          BY <2>4, <3>3, <4>1, <4>3
        <5> QED  BY <1>10, <5>1 DEF OrderInv, LevelOneInv
      <4> QED  BY <2>1, <3>1, <4>2, <4>3
    <3> QED  BY <1>6, <2>4, <3>2, <3>3, OutputsAge
  <2>5. CASE l = L + 1 /\ f \in job.out /\ i = L + 1 /\ g \in job.out
    <3>1. f # g
      BY <2>1, <2>5 DEF Before
    <3> QED  BY <1>5, <1>10, <2>5, <3>1
  <2> QED  BY <1>12, <2>2, <2>3, <2>4, <2>5
<1>15. F[0] \subseteq live[0]
  BY <1>2, <1>3
<1> QED  BY <1>11, <1>13, <1>14, <1>15

LEMMA CompactCommitOrder ==
  ASSUME TypeOK, OrderInv, CompactCommit
  PROVE  OrderInv'
<1>1. /\ UNCHANGED <<heap, imm, view, flush, sst>> /\ job' = NoJob
      /\ job.pc = "write"
  BY DEF CompactCommit, memVars, EndJob, Finished
<1>2. live' = Edited(live, job.upper, job.lower, job.level, job.out)
  BY DEF CompactCommit, Edited
<1>3. /\ FilesNewestFirst(live') /\ KeysApart(live')
      /\ live'[0] \subseteq live[0]
      /\ \A m, i : TablesNewestFirst(m, i, live)
                     => TablesNewestFirst(m, i, live')
  BY <1>1, <1>2, CommitFiles
<1>4. IndexInv' /\ FlushInv'
  BY <1>1, <1>3, FlushOrderKept DEF OrderInv, IndexInv
<1>5. InputsInv' /\ OutputsInv'
  BY <1>1 DEF InputsInv, OutputsInv, NoJob
<1>6. LevelOneInv'
  BY <1>1, <1>3 DEF LevelOneInv, KeysApart, KeysIn
<1>7. NewestFirst'
  <2>1. TablesNewestFirst(Len(heap), imm, live)'
    BY <1>1, <1>3 DEF OrderInv, NewestFirst, TablesNewestFirst
  <2>2. flush.table # 0 => TablesNewestFirst(Len(heap), flush.table, live)'
    BY <1>1, <1>3 DEF OrderInv, NewestFirst, TablesNewestFirst
  <2>3. FilesNewestFirst(live)'
    BY <1>1, <1>3 DEF FilesNewestFirst
  <2>4. \A r \in Readers : view[r].active =>
          /\ TablesNewestFirst(view[r].mem, view[r].imm, view[r].files)'
          /\ FilesNewestFirst(view[r].files)'
    BY <1>1 DEF OrderInv, NewestFirst, TablesNewestFirst, FilesNewestFirst
  <2> QED  BY <1>1, <2>1, <2>2, <2>3, <2>4 DEF NewestFirst
<1> QED  BY <1>4, <1>5, <1>6, <1>7 DEF OrderInv

-----------------------------------------------------------------------------
(* The remaining steps, and the theorem.                                   *)

\* Calls that write nothing and change no layer.
LEMMA OtherOrder ==
  ASSUME TypeOK, OrderInv,
         UNCHANGED <<heap, imm, view, live, sst, flush, job>>
  PROVE  OrderInv'
<1>1. IndexInv' /\ LevelOneInv' /\ NewestFirst'
  BY LayersKept
<1>2. FlushInv' /\ InputsInv' /\ OutputsInv'
  BY FlushOrderKept, JobOrderKept
<1> QED  BY <1>1, <1>2 DEF OrderInv

LEMMA WriteOrder ==
  ASSUME TypeOK, OrderInv, NEW w \in Writers, Write(w)
  PROVE  OrderInv'
<1>1. CASE \E ops \in Batches : Begin(w, ops)
  BY <1>1, OtherOrder DEF Begin, versionVars, jobVars
<1>2. CASE MakeRoom(w)
  <2>1. UNCHANGED <<flush, sst, live, job, view>>
    BY <1>2 DEF MakeRoom, versionVars, jobVars
  <2>2. CASE MemTableFull
    BY <1>2, <2>1, <2>2, RotateOrder DEF MakeRoom, RoomForWrite
  <2>3. CASE ~MemTableFull
    BY <1>2, <2>1, <2>3, OtherOrder DEF MakeRoom
  <2> QED  BY <2>2, <2>3
<1>3. CASE WaitForRoom(w)
  BY <1>3, OtherOrder DEF WaitForRoom, versionVars, jobVars
<1>4. CASE AppendToWal(w)
  BY <1>4, OtherOrder DEF AppendToWal, versionVars, jobVars
<1>5. CASE Apply(w)
  BY <1>5, ApplyOrder
<1> QED  BY <1>1, <1>2, <1>3, <1>4, <1>5 DEF Write

\* A view is captured under mu_: its layers are those of this moment.
LEMMA ReadOrder ==
  ASSUME TypeOK, OrderInv, NEW r \in Readers, Read(r)
  PROVE  OrderInv'
<1>1. UNCHANGED <<heap, imm, live, sst, flush, job>>
  BY DEF Read, CaptureReadView, ReleaseReadView, memVars, versionVars,
         jobVars
<1>2. FlushInv' /\ InputsInv' /\ OutputsInv'
  BY <1>1, FlushOrderKept, JobOrderKept
<1>3. LevelOneInv'
  BY <1>1 DEF OrderInv, LevelOneInv, KeysIn
<1>4. \/ /\ view' = [view EXCEPT ![r] =
              [active |-> TRUE, mem |-> Len(heap), imm |-> imm,
               files |-> [l \in Levels |-> live[l] \cap readers],
               ttl |-> ttl, since |-> Len(log), flushing |-> flush.table]]
      \/ view' = [view EXCEPT ![r] = NoReadView]
  BY DEF Read, CaptureReadView, ReleaseReadView
<1>5. \A q \in Readers : view'[q].active =>
        \/ view'[q] = view[q] /\ view[q].active
        \/ /\ view'[q].mem = Len(heap) /\ view'[q].imm = imm
           /\ view'[q].files = [l \in Levels |-> live[l] \cap readers]
  <2>1. DOMAIN view = Readers
    BY DEF TypeOK, ViewTypeOK
  <2>2. \A q \in Readers : q # r => view'[q] = view[q]
    BY <1>4, <2>1
  <2>3. CASE view' = [view EXCEPT ![r] = NoReadView]
    BY <2>1, <2>2, <2>3 DEF NoReadView
  <2>4. ASSUME NEW v, v.mem = Len(heap), v.imm = imm,
               v.files = [l \in Levels |-> live[l] \cap readers],
               view' = [view EXCEPT ![r] = v]
        PROVE  \A q \in Readers :
                 \/ view'[q] = view[q]
                 \/ /\ view'[q].mem = Len(heap) /\ view'[q].imm = imm
                    /\ view'[q].files =
                         [l \in Levels |-> live[l] \cap readers]
    BY <2>1, <2>2, <2>4
  <2> QED  BY <1>4, <2>3, <2>4
<1>6. IndexInv'
  <2>1. Len(heap) # 0 /\ imm < Len(heap)
    BY DEF OrderInv, IndexInv, TypeOK, TablesTypeOK
  <2> QED  BY <1>1, <1>5, <2>1 DEF OrderInv, IndexInv
<1>7. NewestFirst'
  <2> DEFINE open == [l \in Levels |-> live[l] \cap readers]
  <2>1. TablesNewestFirst(Len(heap), imm, open) /\ FilesNewestFirst(open)
    BY DEF OrderInv, NewestFirst, TablesNewestFirst, FilesNewestFirst
  <2>2. ASSUME NEW q \in Readers, view'[q].active
        PROVE  /\ TablesNewestFirst(view'[q].mem, view'[q].imm,
                                    view'[q].files)
               /\ FilesNewestFirst(view'[q].files)
    <3>1. CASE view'[q] = view[q] /\ view[q].active
      BY <3>1 DEF OrderInv, NewestFirst
    <3>2. CASE /\ view'[q].mem = Len(heap) /\ view'[q].imm = imm
               /\ view'[q].files = open
      BY <2>1, <3>2
    <3> QED  BY <1>5, <2>2, <3>1, <3>2
  <2>3. /\ TablesNewestFirst(Len(heap), imm, live)
        /\ flush.table # 0 => TablesNewestFirst(Len(heap), flush.table, live)
        /\ FilesNewestFirst(live)
    BY DEF OrderInv, NewestFirst
  <2> HIDE DEF open
  <2> QED  BY <1>1, <2>2, <2>3 DEF NewestFirst, TablesNewestFirst,
                                   FilesNewestFirst
<1> QED  BY <1>2, <1>3, <1>6, <1>7 DEF OrderInv

LEMMA InitOrder == Init => OrderInv
<1> SUFFICES ASSUME Init PROVE OrderInv
  OBVIOUS
<1>1. /\ Len(heap) = 1 /\ imm = 0 /\ flush.table = 0 /\ flush.pc = "idle"
      /\ \A l \in Levels : live[l] = {}
      /\ job.pc = "none" /\ \A r \in Readers : ~view[r].active
  BY DEF Init, NoFiles, NoJob, NoReadView
<1>2. live[1] = {}
  BY <1>1 DEF Levels
<1> QED  BY <1>1, <1>2 DEF OrderInv, IndexInv, FlushInv, InputsInv,
              OutputsInv, LevelOneInv, NewestFirst, TablesNewestFirst,
              FilesNewestFirst

LEMMA NextOrder == TypeOK /\ OrderInv /\ [Next]_vars => OrderInv'
<1> SUFFICES ASSUME TypeOK, OrderInv, [Next]_vars PROVE OrderInv'
  OBVIOUS
<1>1. \A f \in Files : sst'[f] = sst[f]
  BY FilesKept
<1>2. ASSUME NEW w \in Writers, Write(w) PROVE OrderInv'
  BY <1>2, WriteOrder
<1>3. CASE UserFlush
  BY <1>3, RotateOrder DEF UserFlush, versionVars, jobVars
<1>4. CASE FlushThread
  <2>1. CASE FlushSchedule
    <3>1. /\ UNCHANGED <<heap, imm, view, live, sst, job>>
          /\ flush'.table = flush.table /\ flush'.pc = "idle"
      BY <2>1 DEF FlushSchedule, memVars, versionVars, TypeOK, TablesTypeOK,
                  FlushState
    <3>2. IndexInv' /\ LevelOneInv' /\ NewestFirst'
      BY <1>1, <3>1, LayersKept
    <3>3. InputsInv' /\ OutputsInv'
      BY <1>1, <3>1, JobOrderKept
    <3>4. FlushInv'
      BY <3>1 DEF FlushInv
    <3> QED  BY <3>2, <3>3, <3>4 DEF OrderInv
  <2> QED  BY <1>1, <1>4, <2>1, FlushTakeOrder, FlushBuildOrder,
              FlushPublishOrder, FlushAbandonOrder DEF FlushThread
<1>5. CASE Compact
  <2>1. CASE CleanupObsoleteFiles
    BY <2>1, OtherOrder DEF CleanupObsoleteFiles, memVars, jobVars
  <2> QED  BY <1>1, <1>5, <2>1, BackgroundCompactOrder, UserCompactOrder,
              CompactReadOrder, CompactWriteOrder, CompactWriteFailsOrder,
              CompactCommitOrder, CompactAbortOrder DEF Compact
<1>6. ASSUME NEW m \in Measurements, NEW s \in TtlSeconds, SetTTL(m, s)
      PROVE  OrderInv'
  BY <1>6, OtherOrder DEF SetTTL, memVars, versionVars, jobVars
<1>7. ASSUME NEW r \in Readers, Read(r) PROVE OrderInv'
  BY <1>7, ReadOrder
<1>8. CASE UNCHANGED vars
  BY <1>8, OtherOrder DEF vars
<1> QED  BY <1>2, <1>3, <1>4, <1>5, <1>6, <1>7, <1>8 DEF Next

\* The inductive invariant of the engine's layers.
THEOREM LayersOrdered == Spec => []OrderInv
<1>1. Init => TypeOK /\ OrderInv
  BY InitType, InitOrder
<1>2. TypeOK /\ OrderInv /\ [Next]_vars => (TypeOK /\ OrderInv)'
  BY NextType, NextOrder
<1> QED  BY <1>1, <1>2, PTL DEF Spec

\* A query may stop at the first layer that holds its key: whatever flushes
\* and compactions ran since its view was captured, and although the view's
\* memtable is still written, no later layer holds a newer version.
THEOREM QueriesMayStopEarly == Spec => []NewestFirst
<1>1. OrderInv => NewestFirst
  BY DEF OrderInv
<1> QED  BY <1>1, LayersOrdered, PTL

\* No compaction is thrown away because its inputs left the version: what
\* IsCompactionInputValidUnlocked tests always holds.
THEOREM InputsNeverLost == Spec => []InputsStayLive
<1>1. OrderInv => InputsStayLive
  BY DEF OrderInv, InputsInv, InputsStayLive
<1> QED  BY <1>1, LayersOrdered, PTL
=============================================================================

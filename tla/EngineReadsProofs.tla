--------------------------- MODULE EngineReadsProofs ---------------------------
(***************************************************************************)
(* The proofs that no write is lost on its way from the memtable to the    *)
(* files of the deepest level, that a query sees one prefix of the writes, *)
(* with every write acknowledged before it began, while writers, flushes   *)
(* and compactions go on, and that the pipeline implements the map of      *)
(* KVStore, for every number of threads, keys, levels, writes and failures.*)
(***************************************************************************)
EXTENDS EngineStore, EngineFilesProofs

-----------------------------------------------------------------------------
(* Writes: the inductive invariant.                                        *)

\* A table maps a key to writes of that key only.
Versioned(c) == \A k \in Key : c[k] # 0 => log[c[k]].key = k

VersionsInv ==
  /\ \A i \in 1 .. Len(heap) : Versioned(heap[i])
  /\ \A f \in Files : Versioned(sst[f])

\* What a job does not keep of its inputs is recorded as lost, or is older
\* than what it keeps of the same key.
MergedInv ==
  job.pc = "write" =>
    \A f \in Compacting, k \in Key :
      \/ sst[f][k] \in job.lost
      \/ sst[f][k] <= job.merged[k]

\* Write e to key k is where a query can find it, or was given up.
Found(e, k) ==
  \/ e \in dropped
  \/ \E t \in {Len(heap), imm, flush.table} \ {0} : heap[t][k] = e
  \/ InFiles(live, e, k)

WritesInv == VersionsInv /\ MergedInv /\ NoLostWrite
-----------------------------------------------------------------------------
(* The latest of the first n writes.                                       *)

IsLatest(e, n, k) ==
  /\ e \in 0 .. n
  /\ e # 0 => log[e].key = k
  /\ \A j \in 1 .. n : e < j => log[j].key # k

LEMMA LatestIsLatest ==
  ASSUME NEW n \in Nat, NEW k
  PROVE  /\ IsLatest(Latest(n, k), n, k)
         /\ \A e : IsLatest(e, n, k) => e = Latest(n, k)
<1> DEFINE W == {i \in 1 .. n : log[i].key = k}
<1>1. Latest(n, k) = IF W = {} THEN 0 ELSE CHOOSE i \in W : \A j \in W : j <= i
  BY DEF Latest
<1>2. CASE W = {}
  BY <1>1, <1>2 DEF IsLatest
<1>3. CASE W # {}
  <2>1. \E i \in W : \A j \in W : j <= i
    <3>1. W \in SUBSET (1 .. n)
      OBVIOUS
    <3> HIDE DEF W
    <3> QED  BY <1>3, <3>1, MaxExists
  <2>2. /\ Latest(n, k) \in W
        /\ \A j \in W : j <= Latest(n, k)
    <3> HIDE DEF W
    <3> QED  BY <1>1, <1>3, <2>1
  <2>3. \A j \in 1 .. n : log[j].key = k <=> j \in W
    OBVIOUS
  <2>4. IsLatest(Latest(n, k), n, k)
    BY <2>2 DEF IsLatest
  <2>5. ASSUME NEW e, IsLatest(e, n, k) PROVE e = Latest(n, k)
    <3>1. e \in 0 .. n /\ Latest(n, k) \in 1 .. n
      BY <2>2, <2>5 DEF IsLatest
    <3>2. ~(e < Latest(n, k))
      BY <2>2, <2>5, <3>1 DEF IsLatest
    <3>3. e \in W
      BY <2>5, <3>1, <3>2 DEF IsLatest
    <3> QED  BY <2>2, <3>1, <3>2, <3>3
  <2> QED  BY <2>4, <2>5
<1> QED  BY <1>2, <1>3

\* Writes that come later do not change it.
LEMMA LatestKept ==
  ASSUME NEW n \in Nat, NEW k, \A i \in 1 .. n : log'[i] = log[i]
  PROVE  Latest(n, k)' = Latest(n, k)
<1> DEFINE L(W) == IF W = {} THEN 0 ELSE CHOOSE i \in W : \A j \in W : j <= i
<1>1. PICK W, V : /\ W = {i \in 1 .. n : log[i].key = k}
                  /\ V = {i \in 1 .. n : log'[i].key = k}
  OBVIOUS
<1>2. W = V
  BY <1>1
<1>3. Latest(n, k) = L(W) /\ Latest(n, k)' = L(V)
  BY <1>1 DEF Latest
<1> HIDE DEF L
<1> QED  BY <1>2, <1>3

\* A write becomes the latest of its key, and of no other key.
LEMMA LatestGrows ==
  ASSUME log \in Seq(Op), NEW op, log' = Append(log, op), NEW k,
         NEW n, n = Len(log')
  PROVE  /\ Latest(n, k)' = IF op.key = k THEN n ELSE Latest(Len(log), k)
         /\ Latest(Len(log), k)' = Latest(n, k)'
<1> DEFINE L(W) == IF W = {} THEN 0 ELSE CHOOSE i \in W : \A j \in W : j <= i
<1>1. PICK W, V : /\ W = {i \in 1 .. Len(log) : log[i].key = k}
                  /\ V = {i \in 1 .. n : log'[i].key = k}
  OBVIOUS
<1>2. /\ n \in Nat /\ n = Len(log) + 1 /\ log'[n] = op
      /\ \A i \in 1 .. Len(log) : log'[i] = log[i]
  OBVIOUS
<1>3. /\ Latest(Len(log), k) = L(W) /\ Latest(n, k)' = L(V)
      /\ Latest(Len(log), k)' = L(V)
  BY <1>1 DEF Latest
<1>4. CASE op.key = k
  <2>1. n \in V /\ V \subseteq 1 .. n
    BY <1>1, <1>2, <1>4
  <2>2. \A i \in V : (\A j \in V : j <= i) <=> i = n
    BY <1>2, <2>1
  <2>3. L(V) = n
    BY <2>1, <2>2
  <2> HIDE DEF L
  <2> QED  BY <1>3, <1>4, <2>3
<1>5. CASE op.key # k
  <2>1. W = V
    BY <1>1, <1>2, <1>5
  <2> HIDE DEF L
  <2> QED  BY <1>3, <1>5, <2>1
<1> QED  BY <1>4, <1>5

\* No table holds a later write of the key.
LEMMA NothingLater ==
  ASSUME TypeOK, NEW c \in Content, Versioned(c), NEW k \in Key
  PROVE  c[k] <= Latest(Len(log), k)
<1>1. Len(log) \in Nat /\ c[k] \in 0 .. Len(log)
  BY DEF TypeOK, WritesTypeOK, Content
<1>2. IsLatest(Latest(Len(log), k), Len(log), k)
  BY <1>1, LatestIsLatest
<1> QED  BY <1>1, <1>2 DEF IsLatest, Versioned
-----------------------------------------------------------------------------
(* Tables hold writes of their keys.                                       *)

LEMMA NextVersions ==
  ASSUME TypeOK, OrderInv, VersionsInv, [Next]_vars
  PROVE  VersionsInv'
<1>1. /\ heap \in Seq(Content) /\ Len(heap) \in Nat \ {0}
      /\ sst \in Seq(Content) /\ Len(sst) \in Nat
      /\ log \in Seq(Op) /\ Len(log) \in Nat
  BY DEF TypeOK, TablesTypeOK, WritesTypeOK
<1>2. ASSUME UNCHANGED <<log, heap, sst>> PROVE VersionsInv'
  BY <1>2 DEF VersionsInv, Versioned, Files
<1>3. ASSUME Rotate, UNCHANGED <<log, sst>> PROVE VersionsInv'
  BY <1>1, <1>3 DEF Rotate, VersionsInv, Versioned, Files, Nothing
<1>4. ASSUME NEW c, sst' = Append(sst, c), Versioned(c),
             UNCHANGED <<log, heap>>
      PROVE  VersionsInv'
  BY <1>1, <1>4 DEF VersionsInv, Versioned, Files
<1>5. ASSUME NEW w \in Writers, Apply(w) PROVE VersionsInv'
  <2> DEFINE op == Head(writer[w].ops)
  <2>1. /\ op \in Op /\ op.key \in Key
        /\ Len(heap') = Len(heap) /\ Len(log') = Len(log) + 1
    <3>1. \A o \in Op : o.key \in Key
      BY SMTT(20) DEF Op
    <3> QED  BY <1>5, <3>1, ApplyType
  <2>2. /\ heap' = [heap EXCEPT ![Len(heap)][op.key] = Len(log) + 1]
        /\ log' = Append(log, op) /\ UNCHANGED sst
    BY <1>5 DEF Apply, versionVars
  <2> HIDE DEF op
  <2>3. /\ \A i \in 1 .. Len(log) : log'[i] = log[i]
        /\ log'[Len(log) + 1] = op
    BY <1>1, <2>1, <2>2
  <2> DEFINE NowVersioned(c) == \A k \in Key : c[k] # 0 => log'[c[k]].key = k
  <2>4. \A c \in Content : Versioned(c) => NowVersioned(c)
    BY <1>1, <2>3 DEF Versioned, Content
  <2>5. \A f \in Files : NowVersioned(sst[f])
    BY <1>1, <2>4 DEF VersionsInv, Files
  <2>6. \A i \in 1 .. Len(heap) : NowVersioned(heap[i])
    BY <1>1, <2>4 DEF VersionsInv
  <2>7. NowVersioned(heap'[Len(heap)])
    <3>1. \A k \in Key : heap'[Len(heap)][k] =
                           IF k = op.key THEN Len(log) + 1
                           ELSE heap[Len(heap)][k]
      BY <1>1, <2>2 DEF Content
    <3> QED  BY <1>1, <2>3, <2>6, <3>1
  <2>8. \A i \in 1 .. Len(heap) : i # Len(heap) => heap'[i] = heap[i]
    BY <1>1, <2>2
  <2>9. \A i \in 1 .. Len(heap') : NowVersioned(heap'[i])
    BY <1>1, <2>1, <2>6, <2>7, <2>8
  <2>10. \A f \in Files' : NowVersioned(sst'[f])
    BY <2>2, <2>5 DEF Files
  <2> QED  BY <2>9, <2>10 DEF VersionsInv, Versioned
<1>6. ASSUME NEW w \in Writers, Write(w), ~Apply(w) PROVE VersionsInv'
  <2>1. UNCHANGED <<log, sst>> /\ (Rotate \/ UNCHANGED heap)
    BY <1>6, Zenon DEF Write, Begin, MakeRoom, WaitForRoom, AppendToWal,
                       versionVars
  <2> QED  BY <1>2, <1>3, <2>1
<1>7. CASE UserFlush
  BY <1>3, <1>7 DEF UserFlush, versionVars
<1>8. CASE FlushThread
  <2>1. CASE FlushBuild
    <3>1. flush.table \in 1 .. Len(heap)
      BY <1>1, <2>1 DEF FlushBuild, TypeOK, TablesTypeOK, FlushState
    <3> QED  BY <1>4, <2>1, <3>1 DEF FlushBuild, memVars, VersionsInv
  <2>2. CASE ~FlushBuild
    BY <1>2, <1>8, <2>2 DEF FlushThread, FlushTake, FlushPublish, FlushAbandon,
                            FlushSchedule, memVars, versionVars
  <2> QED  BY <2>1, <2>2
<1>9. CASE CompactWrite
  <2>1. PICK P \in SUBSET job.left :
          sst' = Append(sst, [k \in Key |->
                                IF k \in P THEN job.merged[k] ELSE 0])
    BY <1>9 DEF CompactWrite
  <2>2. /\ UNCHANGED <<log, heap>> /\ job.pc = "write"
    BY <1>9 DEF CompactWrite, memVars
  <2>3. Versioned([k \in Key |-> IF k \in P THEN job.merged[k] ELSE 0])
    <3> SUFFICES ASSUME NEW k \in Key, job.merged[k] # 0
                 PROVE  log[job.merged[k]].key = k
      BY DEF Versioned
    <3>1. PICK h \in Compacting : sst[h][k] = job.merged[k]
      BY <2>2 DEF OrderInv, OutputsInv, KeysHeld
    <3>2. h \in Files
      BY <3>1, NamedFiles
    <3> QED  BY <3>1, <3>2 DEF VersionsInv, Versioned
  <2> QED  BY <1>4, <2>1, <2>2, <2>3
<1>10. CASE CompactWriteFails
  <2>1. Versioned(Nothing)
    BY DEF Versioned, Nothing
  <2> QED  BY <1>4, <1>10, <2>1 DEF CompactWriteFails, memVars
<1>11. ASSUME Compact, ~CompactWrite, ~CompactWriteFails PROVE VersionsInv'
  <2>1. UNCHANGED <<log, heap, sst>>
    BY <1>11 DEF Compact, BackgroundCompact, UserCompact, CompactRead,
                 CleanupObsoleteFiles, CompactCommit, CompactAbort, memVars,
                 versionVars
  <2> QED  BY <1>2, <2>1
<1>12. ASSUME NEW m \in Measurements, NEW s \in TtlSeconds, SetTTL(m, s)
       PROVE  VersionsInv'
  BY <1>2, <1>12 DEF SetTTL, memVars, versionVars
<1>13. ASSUME NEW r \in Readers, Read(r) PROVE VersionsInv'
  BY <1>2, <1>13 DEF Read, CaptureReadView, ReleaseReadView, memVars,
                     versionVars
<1>14. CASE UNCHANGED vars
  BY <1>2, <1>14 DEF vars
<1> QED  BY <1>5, <1>6, <1>7, <1>8, <1>9, <1>10, <1>11, <1>12, <1>13, <1>14
         DEF Next
-----------------------------------------------------------------------------
(* A job keeps the newest version of each key, or records the loss.        *)

LEMMA CompactReadMerges ==
  ASSUME TypeOK, OrderInv, FilesInv, CompactRead
  PROVE  MergedInv'
<1>1. /\ UNCHANGED sst /\ job.pc = "read"
  BY DEF CompactRead, versionVars
<1>2. PICK unreadable \in SUBSET (Compacting \cap disk) :
        job' = [job EXCEPT
                  !.pc = "write",
                  !.merged = Merge((Compacting \cap disk) \ unreadable),
                  !.left = KeysHeld(Merge((Compacting \cap disk) \ unreadable)),
                  !.lost =
                    Lost((Compacting \cap disk) \ unreadable, unreadable)]
  BY DEF CompactRead
<1> DEFINE F == (Compacting \cap disk) \ unreadable
<1>3. Compacting' = Compacting /\ job'.merged = Merge(F)
      /\ job'.lost = Lost(F, unreadable)
  BY <1>2 DEF TypeOK, JobTypeOK, JobState, Compacting
<1>4. /\ job.upper \subseteq live[job.level]
      /\ job.lower \subseteq live[job.level + 1]
      /\ job.level \in Levels /\ job.level + 1 \in Levels /\ job.level \in Nat
  BY <1>1, NamedFiles DEF OrderInv, InputsInv, InputsValid, Levels
<1>5. Compacting \subseteq disk
  BY <1>4 DEF Compacting, FilesInv, LiveInv
<1> SUFFICES ASSUME NEW f \in Compacting, NEW k \in Key,
                    sst[f][k] \notin Lost(F, unreadable)
             PROVE  sst[f][k] <= Merge(F)[k]
  BY <1>1, <1>3 DEF MergedInv
<1>6. f \in F /\ ~IsExpired(job.ttl[k[1]], k[2])
  BY <1>5 DEF Lost
<1> HIDE DEF F
<1>7. F \subseteq Compacting /\ Compacting \subseteq Files
  BY NamedFiles DEF F
<1>8. \A g \in Files : sst[g][k] \in Nat
  BY DEF TypeOK, TablesTypeOK, Content, Files
<1>9. CASE sst[f][k] = 0
  <2>1. Merge(F)[k] \in Nat
    BY <1>7, MergeTakesInputs DEF Content
  <2> QED  BY <1>9, <2>1
<1>10. CASE sst[f][k] # 0
  <2>1. k \in KeysOf(F)
    BY <1>6, <1>10 DEF KeysOf, KeysIn, KeysHeld
  <2> DEFINE g == Winner(F, k)
  <2>2. g \in F /\ sst[g][k] # 0 /\ Wins(g, F, k)
    BY <1>7, <2>1, WinnerExists
  <2>3. Merge(F)[k] = sst[g][k]
    BY <1>6, <2>1 DEF Merge
  <2> HIDE DEF g
  <2>4. \/ f = g
        \/ g \in live[job.level] /\ f \in live[job.level + 1]
        \/ g \in live[job.level] /\ f \in live[job.level] /\ f < g
        \/ g \in live[job.level + 1] /\ f \in live[job.level + 1] /\ f < g
    <3>1. \/ g \in job.upper /\ f \in job.lower
          \/ (g \in job.upper <=> f \in job.upper) /\ f <= g
      BY <1>6, <1>10, <2>2 DEF Wins
    <3>2. f \in Int /\ g \in Int /\ {f, g} \subseteq job.upper \cup job.lower
      BY <1>6, <1>7, <2>2 DEF Files, Compacting
    <3> QED  BY <1>4, <3>1, <3>2
  <2>5. f = g \/ NotOlder(sst[g], sst[f])
    BY <1>4, <2>4 DEF OrderInv, NewestFirst, FilesNewestFirst, Before
  <2> QED  BY <1>6, <1>7, <1>8, <1>10, <2>2, <2>3, <2>5 DEF NotOlder
<1> QED  BY <1>9, <1>10

LEMMA NextMerged ==
  ASSUME TypeOK, OrderInv, FilesInv, MergedInv, [Next]_vars
  PROVE  MergedInv'
<1>1. \A f \in Files : sst'[f] = sst[f]
  BY FilesKept
<1>2. Compacting \subseteq Files
  BY NamedFiles
<1>3. ASSUME UNCHANGED job PROVE MergedInv'
  BY <1>1, <1>2, <1>3 DEF MergedInv, Compacting
<1>4. ASSUME NEW w \in Writers, Write(w) PROVE UNCHANGED job
  BY <1>4, Zenon DEF Write, Begin, MakeRoom, WaitForRoom, AppendToWal, Apply,
                     jobVars
<1>5. FlushThread => UNCHANGED job
  BY DEF FlushThread, FlushTake, FlushBuild, FlushPublish, FlushAbandon,
         FlushSchedule, jobVars
<1>6. ASSUME NEW l, NEW background, NEW cleanup,
             StartJob(l, background, cleanup)
      PROVE  MergedInv'
  BY <1>6 DEF StartJob, NoJob, MergedInv
<1>7. CASE BackgroundCompact
  BY <1>3, <1>6, <1>7, Zenon DEF BackgroundCompact
<1>8. ASSUME NEW cleanup \in BOOLEAN, UserCompact(cleanup) PROVE MergedInv'
  BY <1>3, <1>6, <1>8, Zenon DEF UserCompact, jobVars
<1>9. CASE CompactWrite
  <2>1. /\ job.pc = "write" /\ job'.pc = "write" /\ job'.lost = job.lost
        /\ job'.merged = job.merged /\ Compacting' = Compacting
    BY <1>9 DEF CompactWrite, TypeOK, JobTypeOK, JobState, Compacting
  <2> QED  BY <1>1, <1>2, <2>1 DEF MergedInv
<1>10. CASE CompactWriteFails
  <2>1. job'.pc = "failed"
    BY <1>10 DEF CompactWriteFails, TypeOK, JobTypeOK, JobState
  <2> QED  BY <2>1 DEF MergedInv
<1>11. CASE CompactCommit \/ CompactAbort
  BY <1>11 DEF CompactCommit, CompactAbort, EndJob, NoJob, MergedInv
<1>12. Compact => MergedInv'
  BY <1>3, <1>7, <1>8, <1>9, <1>10, <1>11, CompactReadMerges
     DEF Compact, CleanupObsoleteFiles, jobVars
<1>13. ASSUME NEW m \in Measurements, NEW s \in TtlSeconds, SetTTL(m, s)
       PROVE  UNCHANGED job
  BY <1>13 DEF SetTTL, jobVars
<1>14. ASSUME NEW r \in Readers, Read(r) PROVE UNCHANGED job
  BY <1>14 DEF Read, CaptureReadView, ReleaseReadView, jobVars
<1>15. UserFlush \/ UNCHANGED vars => UNCHANGED job
  BY DEF UserFlush, vars, jobVars
<1> QED  BY <1>3, <1>4, <1>5, <1>12, <1>13, <1>14, <1>15 DEF Next
-----------------------------------------------------------------------------
(* Every step leaves each write somewhere.                                 *)

\* The steps that move no table and no file.
LEMMA FoundKept ==
  ASSUME TypeOK, \A f \in Files : sst'[f] = sst[f],
         UNCHANGED <<heap, live>>, dropped \subseteq dropped',
         {imm, flush.table} \ {0} \subseteq {imm', flush'.table},
         NEW e, NEW k, Found(e, k)
  PROVE  Found(e, k)'
<1>1. \A l \in Levels : live[l] \subseteq Files
  BY NamedFiles
<1> QED  BY <1>1 DEF Found, InFiles

LEMMA RotateFound ==
  ASSUME TypeOK, Rotate, CanRotate,
         UNCHANGED <<flush, sst, live, dropped>>,
         NEW e, NEW k, Found(e, k)
  PROVE  Found(e, k)'
<1>1. /\ imm' = Len(heap) /\ imm = 0 /\ Len(heap) \in Nat \ {0}
      /\ \A i \in 1 .. Len(heap) : heap'[i] = heap[i]
      /\ flush.table \in 0 .. Len(heap)
  BY DEF Rotate, CanRotate, TypeOK, TablesTypeOK, FlushState
<1>2. ASSUME NEW t \in {Len(heap), imm, flush.table} \ {0}, heap[t][k] = e
      PROVE  Found(e, k)'
  <2>1. t \in {imm', flush.table} \ {0} /\ heap'[t][k] = e
    BY <1>1, <1>2
  <2> QED  BY <2>1 DEF Found
<1>3. ASSUME InFiles(live, e, k) \/ e \in dropped PROVE Found(e, k)'
  BY <1>3 DEF Found, InFiles
<1> QED  BY <1>2, <1>3 DEF Found

LEMMA FlushPublishFound ==
  ASSUME TypeOK, OrderInv, FlushPublish,
         NEW e, NEW k \in Key, e # 0, Found(e, k)
  PROVE  Found(e, k)'
<1>1. /\ flush.pc = "publish" /\ sst[flush.file] = heap[flush.table]
      /\ UNCHANGED <<heap, imm, sst>>
      /\ 0 \in Levels
  BY LimitsAssumption DEF FlushPublish, OrderInv, FlushInv, memVars, Levels
<1>2. live \in LevelFiles
  BY DEF TypeOK, VersionTypeOK
<1>3. dropped \subseteq dropped'
      /\ \A l \in Levels : live[l] \subseteq live'[l]
  BY <1>1, <1>2 DEF FlushPublish, LevelFiles
<1>4. CASE heap[flush.table][k] = e
  <2>1. CASE live' = [live EXCEPT ![0] = @ \cup {flush.file}]
    <3>1. flush.file \in live'[0]
      BY <1>1, <1>2, <2>1 DEF LevelFiles
    <3> QED  BY <1>1, <1>4, <3>1 DEF Found, InFiles
  <2>2. CASE dropped' = dropped \cup Entries(sst[flush.file])
    BY <1>1, <1>4, <2>2 DEF Found, Entries
  <2> QED  BY <2>1, <2>2 DEF FlushPublish
<1>5. CASE heap[flush.table][k] # e
  BY <1>1, <1>3, <1>5 DEF Found, InFiles
<1> QED  BY <1>4, <1>5

\* A file of the version that is no input stays; a version in an input is
\* recorded as lost, or is what the job keeps, for none is later.
LEMMA CompactCommitFound ==
  ASSUME TypeOK, OrderInv, VersionsInv, MergedInv, CompactCommit,
         NEW k \in Key, NEW e, e # 0, IsLatest(e, Len(log), k), Found(e, k)
  PROVE  Found(e, k)'
<1> DEFINE L == job.level
<1>1. /\ UNCHANGED <<heap, imm, flush, sst>> /\ dropped' = dropped \cup job.lost
      /\ job.pc = "write" /\ job.left = {}
      /\ live' = [live EXCEPT ![L] = @ \ job.upper,
                              ![L + 1] = (@ \ job.lower) \cup job.out]
  BY DEF CompactCommit, Finished, memVars
<1>2. L \in Levels /\ L + 1 \in Levels /\ L # L + 1
  BY NamedFiles DEF Levels
<1>3. /\ live'[L] = live[L] \ job.upper
      /\ live'[L + 1] = (live[L + 1] \ job.lower) \cup job.out
      /\ \A l \in Levels : l # L /\ l # L + 1 => live'[l] = live[l]
  BY <1>1, <1>2 DEF TypeOK, VersionTypeOK, LevelFiles
<1> HIDE DEF L
<1>4. CASE ~InFiles(live, e, k)
  BY <1>1, <1>4 DEF Found
<1>5. ASSUME NEW l \in Levels, NEW f \in live[l], sst[f][k] = e,
             f \notin Compacting
      PROVE  Found(e, k)'
  <2>1. f \in live'[l]
    BY <1>3, <1>5 DEF Compacting
  <2> QED  BY <1>1, <1>5, <2>1 DEF Found, InFiles
<1>6. ASSUME NEW f \in Compacting, sst[f][k] = e
      PROVE  Found(e, k)'
  <2>1. CASE e \in job.lost
    BY <1>1, <2>1 DEF Found
  <2>2. CASE e \notin job.lost
    <3>1. e <= job.merged[k] /\ e \in Nat /\ job.merged[k] \in 0 .. Len(log)
      BY <1>1, <1>6, <2>2 DEF MergedInv, IsLatest, TypeOK, WritesTypeOK,
                              JobTypeOK, JobState, Content
    <3>2. PICK h \in Compacting : sst[h][k] = job.merged[k]
      BY <1>1, <3>1 DEF OrderInv, OutputsInv, KeysHeld
    <3>3. h \in Files /\ log[job.merged[k]].key = k
      BY <3>1, <3>2, NamedFiles DEF VersionsInv, Versioned
    <3>4. job.merged[k] = e
      BY <3>1, <3>3 DEF IsLatest, TypeOK, WritesTypeOK
    <3>5. k \in KeysOf(job.out)
      BY <1>1, <3>1, <3>4 DEF OrderInv, OutputsInv, KeysHeld
    <3>6. PICK g \in job.out : sst[g][k] # 0
      BY <3>5 DEF KeysOf, KeysIn, KeysHeld
    <3>7. sst[g][k] = e
      BY <1>1, <3>4, <3>6 DEF OrderInv, OutputsInv
    <3>8. g \in live'[L + 1]
      BY <1>3, <3>6
    <3> QED  BY <1>1, <1>2, <3>7, <3>8 DEF Found, InFiles
  <2> QED  BY <2>1, <2>2
<1> QED  BY <1>4, <1>5, <1>6 DEF InFiles

LEMMA ApplyKeepsWrites ==
  ASSUME TypeOK, OrderInv, NoLostWrite, NEW w \in Writers, Apply(w)
  PROVE  NoLostWrite'
<1> DEFINE op == Head(writer[w].ops)
<1>1. /\ heap \in Seq(Content) /\ Len(heap) \in Nat \ {0}
      /\ log \in Seq(Op) /\ Len(log) \in Nat
      /\ Len(heap') = Len(heap) /\ op \in Op
  BY ApplyType DEF TypeOK, TablesTypeOK, WritesTypeOK
<1>2. /\ heap' = [heap EXCEPT ![Len(heap)][op.key] = Len(log) + 1]
      /\ log' = Append(log, op)
      /\ UNCHANGED <<imm, flush, sst, live, dropped>>
  BY DEF Apply, versionVars
<1>3. imm \in 0 .. Len(heap) /\ flush.table \in 0 .. Len(heap)
  BY DEF TypeOK, TablesTypeOK, FlushState
<1> HIDE DEF op
<1> SUFFICES ASSUME NEW k \in Key, NEW e, e = Latest(Len(log), k)', e # 0
             PROVE  Found(e, k)'
  BY DEF NoLostWrite, Found
<1>4. CASE k = op.key
  <2>1. e = Len(log) + 1
    BY <1>1, <1>2, <1>4, LatestGrows
  <2>2. heap'[Len(heap')][k] = e
    BY <1>1, <1>2, <1>4, <2>1 DEF Content
  <2> QED  BY <1>1, <2>2 DEF Found
<1>5. CASE k # op.key
  <2>1. e = Latest(Len(log), k)
    BY <1>1, <1>2, <1>5, LatestGrows
  <2>2. Found(e, k)
    BY <2>1 DEF NoLostWrite, Found
  <2>3. \A t \in 1 .. Len(heap) : heap'[t][k] = heap[t][k]
    BY <1>1, <1>2, <1>5 DEF Content
  <2> QED  BY <1>1, <1>2, <1>3, <2>2, <2>3 DEF Found, InFiles
<1> QED  BY <1>4, <1>5

\* A step that leaves the latest writes where a query can find them.
Keeps ==
  \A k \in Key, e \in 1 .. Len(log) :
    IsLatest(e, Len(log), k) /\ Found(e, k) => Found(e, k)'

LEMMA NextKeepsWrites ==
  ASSUME TypeOK, OrderInv, VersionsInv, MergedInv, NoLostWrite, [Next]_vars
  PROVE  NoLostWrite'
<1>1. ASSUME UNCHANGED log, Keeps PROVE NoLostWrite'
  <2> SUFFICES ASSUME NEW k \in Key, NEW e, e = Latest(Len(log), k)', e # 0
               PROVE  Found(e, k)'
    BY DEF NoLostWrite, Found
  <2>1. e = Latest(Len(log), k) /\ Len(log) \in Nat
    BY <1>1, LatestKept DEF TypeOK, WritesTypeOK
  <2>2. IsLatest(e, Len(log), k)
    BY <2>1, LatestIsLatest
  <2>3. Found(e, k)
    BY <2>1 DEF NoLostWrite, Found
  <2>4. e \in 1 .. Len(log)
    BY <2>1, <2>2 DEF IsLatest
  <2> QED  BY <1>1, <2>2, <2>3, <2>4 DEF Keeps
<1>2. \A f \in Files : sst'[f] = sst[f]
  BY FilesKept
<1>3. ASSUME UNCHANGED <<log, heap, live>>, dropped \subseteq dropped',
             {imm, flush.table} \ {0} \subseteq {imm', flush'.table}
      PROVE  NoLostWrite'
  <2>1. ASSUME NEW k \in Key, NEW e \in 1 .. Len(log), Found(e, k)
        PROVE  Found(e, k)'
    BY <1>2, <1>3, <2>1, FoundKept
  <2> QED  BY <1>1, <1>3, <2>1 DEF Keeps
<1>4. ASSUME UNCHANGED <<log, heap, live, dropped, imm, flush>>
      PROVE  NoLostWrite'
  BY <1>3, <1>4
<1>5. ASSUME Rotate, CanRotate, UNCHANGED <<log, flush, sst, live, dropped>>
      PROVE  NoLostWrite'
  <2>1. ASSUME NEW k \in Key, NEW e \in 1 .. Len(log), Found(e, k)
        PROVE  Found(e, k)'
    BY <1>5, <2>1, RotateFound
  <2> QED  BY <1>1, <1>5, <2>1 DEF Keeps
<1>6. ASSUME NEW w \in Writers, Write(w) PROVE NoLostWrite'
  <2>1. CASE Apply(w)
    BY <2>1, ApplyKeepsWrites
  <2>2. CASE MakeRoom(w)
    <3>1. UNCHANGED <<log, flush, sst, live, dropped>>
      BY <2>2 DEF MakeRoom, versionVars
    <3>2. (Rotate /\ CanRotate) \/ UNCHANGED <<heap, imm>>
      BY <2>2 DEF MakeRoom, RoomForWrite
    <3> QED  BY <1>4, <1>5, <3>1, <3>2
  <2>3. CASE ~Apply(w) /\ ~MakeRoom(w)
    BY <1>4, <1>6, <2>3, Zenon DEF Write, Begin, WaitForRoom, AppendToWal,
                                   versionVars
  <2> QED  BY <2>1, <2>2, <2>3
<1>7. CASE UserFlush
  BY <1>5, <1>7 DEF UserFlush, versionVars
<1>8. CASE FlushThread
  <2>1. CASE FlushTake
    BY <1>3, <2>1 DEF FlushTake, versionVars, TypeOK, TablesTypeOK, FlushState
  <2>2. CASE FlushBuild
    <3>1. flush'.table = flush.table
      BY <2>2 DEF FlushBuild, TypeOK, TablesTypeOK, FlushState
    <3> QED  BY <1>3, <2>2, <3>1 DEF FlushBuild, memVars
  <2>3. CASE FlushPublish
    <3>1. UNCHANGED log
      BY <2>3 DEF FlushPublish, memVars
    <3>2. ASSUME NEW k \in Key, NEW e \in 1 .. Len(log), Found(e, k)
          PROVE  Found(e, k)'
      BY <2>3, <3>2, FlushPublishFound
    <3> QED  BY <1>1, <3>1, <3>2 DEF Keeps
  <2>4. CASE FlushAbandon
    <3>1. /\ UNCHANGED <<log, heap, imm, sst, live>>
          /\ dropped' = dropped \cup Entries(heap[flush.table])
      BY <2>4 DEF FlushAbandon, memVars, versionVars
    <3>2. ASSUME NEW k \in Key, NEW e \in 1 .. Len(log), Found(e, k)
          PROVE  Found(e, k)'
      <4>1. CASE heap[flush.table][k] = e
        BY <3>1, <3>2, <4>1 DEF Found, Entries
      <4>2. CASE heap[flush.table][k] # e
        BY <3>1, <3>2, <4>2 DEF Found, InFiles
      <4> QED  BY <4>1, <4>2
    <3> QED  BY <1>1, <3>1, <3>2 DEF Keeps
  <2>5. CASE FlushSchedule
    <3>1. flush'.table = flush.table
      BY <2>5 DEF FlushSchedule, TypeOK, TablesTypeOK, FlushState
    <3> QED  BY <1>3, <2>5, <3>1 DEF FlushSchedule, memVars, versionVars
  <2> QED  BY <1>8, <2>1, <2>2, <2>3, <2>4, <2>5 DEF FlushThread
<1>9. CASE Compact
  <2>1. CASE CompactCommit
    <3>1. UNCHANGED log
      BY <2>1 DEF CompactCommit, memVars
    <3>2. ASSUME NEW k \in Key, NEW e \in 1 .. Len(log),
                 IsLatest(e, Len(log), k), Found(e, k)
          PROVE  Found(e, k)'
      BY <2>1, <3>2, CompactCommitFound
    <3> QED  BY <1>1, <3>1, <3>2 DEF Keeps
  <2>2. CASE ~CompactCommit
    BY <1>4, <1>9, <2>2 DEF Compact, BackgroundCompact, UserCompact,
       CleanupObsoleteFiles, CompactRead, CompactWrite, CompactWriteFails,
       CompactAbort, memVars, versionVars
  <2> QED  BY <2>1, <2>2
<1>10. ASSUME NEW m \in Measurements, NEW s \in TtlSeconds, SetTTL(m, s)
       PROVE  NoLostWrite'
  BY <1>4, <1>10 DEF SetTTL, memVars, versionVars
<1>11. ASSUME NEW r \in Readers, Read(r) PROVE NoLostWrite'
  BY <1>4, <1>11 DEF Read, CaptureReadView, ReleaseReadView, memVars,
                     versionVars
<1>12. CASE UNCHANGED vars
  BY <1>4, <1>12 DEF vars
<1> QED  BY <1>6, <1>7, <1>8, <1>9, <1>10, <1>11, <1>12 DEF Next
-----------------------------------------------------------------------------
LEMMA InitWrites == Init => WritesInv
<1> SUFFICES ASSUME Init PROVE WritesInv
  OBVIOUS
<1>1. /\ log = <<>> /\ heap = <<Nothing>> /\ Files = {} /\ job.pc = "none"
  BY DEF Init, NoJob, Files
<1>2. VersionsInv /\ MergedInv
  BY <1>1 DEF VersionsInv, Versioned, MergedInv, Nothing
<1>3. \A k \in Key : Latest(Len(log), k) = 0
  BY <1>1 DEF Latest
<1> QED  BY <1>2, <1>3 DEF WritesInv, NoLostWrite

LEMMA NextWrites ==
  TypeOK /\ OrderInv /\ FilesInv /\ WritesInv /\ [Next]_vars => WritesInv'
BY NextVersions, NextMerged, NextKeepsWrites DEF WritesInv

\* Where every write is, and what a job does with it.
THEOREM WritesTraced == Spec => [](TypeOK /\ OrderInv /\ FilesInv /\ WritesInv)
<1>1. Init => TypeOK /\ OrderInv /\ FilesInv /\ WritesInv
  BY InitType, InitOrder, InitFiles, InitWrites
<1>2. TypeOK /\ OrderInv /\ FilesInv /\ WritesInv /\ [Next]_vars
        => (TypeOK /\ OrderInv /\ FilesInv /\ WritesInv)'
  BY NextType, NextOrder, NextFiles, NextWrites
<1> QED  BY <1>1, <1>2, PTL DEF Spec

\* Rotation, flush and compaction lose no write, except those that expired
\* and those a failed I/O call gave up.
THEOREM NoWriteLost == Spec => []NoLostWrite
<1>1. WritesInv => NoLostWrite
  BY DEF WritesInv
<1> QED  BY <1>1, WritesTraced, PTL

USE LimitsAssumption

-----------------------------------------------------------------------------
(* Queries: the inductive invariant.                                       *)

\* The keys of view v that are not in the table being flushed read as after
\* the first n writes.
ViewAt(v, n) ==
  \A k \in Key :
    v.flushing = 0 \/ heap[v.flushing][k] = 0 =>
      \/ IsExpired(v.ttl[k[1]], k[2])
      \/ Latest(n, k) \in dropped
      \/ Lookup(v, k) = Latest(n, k)

\* A view moves on with the writes as long as its memtable takes them, and
\* stands still from the rotation on.
ViewSound(v) ==
  /\ v.flushing < v.mem
  /\ \E n \in v.since .. Len(log) :
       ViewAt(v, n) /\ (v.mem = Len(heap) => n = Len(log))

ReadsInv == \A r \in Readers : view[r].active => ViewSound(view[r])
-----------------------------------------------------------------------------
(* The files are searched level by level, the newest first.                *)

LEMMA FirstHit ==
  ASSUME TypeOK, NEW H \in SUBSET (Levels \X Files), H # {}
  PROVE  \E h \in H : \A g \in H : h = g \/ Before(h[1], h[2], g[1], g[2])
<1>1. Len(sst) \in Nat
  BY DEF TypeOK, TablesTypeOK
<1>2. \A h \in H : /\ h = <<h[1], h[2]>> /\ h[1] \in 0 .. MaxLevel - 1
                   /\ h[2] \in 1 .. Len(sst)
  BY DEF Levels, Files
<1>3. PICK l \in {h[1] : h \in H} : \A g \in H : l <= g[1]
  <2> DEFINE D == {MaxLevel - h[1] : h \in H}
  <2>1. D \in SUBSET (1 .. MaxLevel) /\ D # {}
    BY <1>2
  <2> HIDE DEF D
  <2>2. PICK d \in D : \A c \in D : c <= d
    BY <2>1, MaxExists
  <2>3. PICK h \in H : d = MaxLevel - h[1]
    BY <2>2 DEF D
  <2>4. \A g \in H : MaxLevel - g[1] <= MaxLevel - h[1]
    BY <2>2, <2>3 DEF D
  <2>5. \A g \in H : h[1] <= g[1]
    BY <1>2, <2>4
  <2> QED  BY <2>5
<1>4. PICK f \in {h[2] : h \in {g \in H : g[1] = l}} :
        \A g \in H : g[1] = l => g[2] <= f
  <2> DEFINE T == {h[2] : h \in {g \in H : g[1] = l}}
  <2>1. T \in SUBSET (1 .. Len(sst)) /\ T # {}
    BY <1>2, <1>3
  <2>2. \A g \in H : g[1] = l => g[2] \in T
    OBVIOUS
  <2> HIDE DEF T
  <2>3. PICK f \in T : \A g \in T : g <= f
    BY <1>1, <2>1, MaxExists
  <2> QED  BY <2>2, <2>3 DEF T
<1>5. <<l, f>> \in H
  BY <1>2, <1>4
<1>6. ASSUME NEW g \in H PROVE <<l, f>> = g \/ Before(l, f, g[1], g[2])
  <2>1. l <= g[1] /\ (g[1] = l => g[2] <= f)
    BY <1>3, <1>4
  <2> QED  BY <1>2, <1>5, <2>1 DEF Before
<1> QED  BY <1>5, <1>6

LEMMA FileHitNewest ==
  ASSUME TypeOK, NEW files \in LevelFiles, FilesNewestFirst(files),
         NEW k \in Key
  PROVE  /\ FileHit(files, k) # 0 => InFiles(files, FileHit(files, k), k)
         /\ \A l \in Levels : \A f \in files[l] :
              sst[f][k] <= FileHit(files, k)
<1> DEFINE H == {h \in Levels \X Files : h[2] \in files[h[1]]
                                           /\ sst[h[2]][k] # 0}
           First == CHOOSE h \in H : \A g \in H :
                      h = g \/ Before(h[1], h[2], g[1], g[2])
<1>1. FileHit(files, k) = IF H = {} THEN 0 ELSE sst[First[2]][k]
  BY DEF FileHit
<1>2. \A l \in Levels : files[l] \subseteq Files
  BY DEF LevelFiles, FileNumbers
<1>3. \A f \in Files : sst[f][k] \in Nat
  BY DEF TypeOK, TablesTypeOK, Content, Files
<1>4. \A l \in Levels : \A f \in files[l] : sst[f][k] # 0 => <<l, f>> \in H
  BY <1>2
<1>5. CASE H = {}
  <2>1. FileHit(files, k) = 0
    BY <1>1, <1>5
  <2>2. \A l \in Levels : \A f \in files[l] : sst[f][k] = 0
    BY <1>4, <1>5
  <2> HIDE DEF H, First
  <2> QED  BY <2>1, <2>2
<1>6. CASE H # {}
  <2>1. First \in H /\ \A g \in H : First = g
                                 \/ Before(First[1], First[2], g[1], g[2])
    <3>1. H \in SUBSET (Levels \X Files)
      OBVIOUS
    <3> HIDE DEF H
    <3> QED  BY <1>6, <3>1, FirstHit
  <2> DEFINE n == First[2]
  <2>2. /\ First[1] \in Levels /\ n \in files[First[1]] /\ n \in Files
        /\ sst[n][k] # 0
    <3> HIDE DEF First
    <3> QED  BY <2>1
  <2>3. FileHit(files, k) = sst[n][k]
    BY <1>1, <1>6
  <2> HIDE DEF First
  <2>4. ASSUME NEW l \in Levels, NEW f \in files[l]
        PROVE  sst[f][k] <= sst[n][k]
    <3> HIDE DEF n
    <3>1. CASE sst[f][k] = 0
      BY <1>3, <2>2, <3>1
    <3>2. CASE sst[f][k] # 0
      <4>1. <<l, f>> \in H
        BY <1>4, <2>4, <3>2
      <4>2. First = <<l, f>> \/ Before(First[1], n, l, f)
        <5> HIDE DEF H
        <5> QED  BY <2>1, <4>1 DEF n
      <4> HIDE DEF H
      <4>3. f = n \/ NotOlder(sst[n], sst[f])
        BY <2>2, <4>2 DEF FilesNewestFirst, n
      <4> QED  BY <1>2, <1>3, <2>2, <3>2, <4>3 DEF NotOlder
    <3> QED  BY <3>1, <3>2
  <2> HIDE DEF First, H
  <2> QED  BY <2>2, <2>3, <2>4 DEF InFiles
<1> QED  BY <1>5, <1>6

LEMMA FileHitKept ==
  ASSUME TypeOK, \A f \in Files : sst'[f] = sst[f], Files \subseteq Files',
         NEW files \in LevelFiles, NEW k
  PROVE  FileHit(files, k)' = FileHit(files, k)
<1> DEFINE First(H) == CHOOSE h \in H : \A g \in H :
                         h = g \/ Before(h[1], h[2], g[1], g[2])
<1>1. PICK H, G :
        /\ H = {h \in Levels \X Files : h[2] \in files[h[1]]
                                          /\ sst[h[2]][k] # 0}
        /\ G = {h \in Levels \X Files' : h[2] \in files[h[1]]
                                           /\ sst'[h[2]][k] # 0}
  OBVIOUS
<1>2. \A l \in Levels : files[l] \subseteq Files
  BY DEF LevelFiles, FileNumbers
<1>3. H = G
  BY <1>1, <1>2
<1>4. /\ FileHit(files, k) = IF H = {} THEN 0 ELSE sst[First(H)[2]][k]
      /\ FileHit(files, k)' = IF G = {} THEN 0 ELSE sst'[First(G)[2]][k]
  BY <1>1 DEF FileHit
<1>5. H # {} => First(H)[2] \in Files
  <2>1. H # {} => First(H) \in H
    <3>1. H \in SUBSET (Levels \X Files)
      BY <1>1
    <3> QED  BY <3>1, FirstHit
  <2> HIDE DEF First
  <2> QED  BY <1>1, <2>1
<1> HIDE DEF First
<1> QED  BY <1>3, <1>4, <1>5
-----------------------------------------------------------------------------
(* A view goes on seeing the prefix it saw.                                *)

LEMMA LookupKept ==
  ASSUME TypeOK, \A f \in Files : sst'[f] = sst[f], Files \subseteq Files',
         NEW v \in ViewState, NEW k \in Key,
         heap'[v.mem][k] = heap[v.mem][k],
         v.imm # 0 => heap'[v.imm] = heap[v.imm]
  PROVE  Lookup(v, k)' = Lookup(v, k)
<1>1. v.files \in LevelFiles
  BY DEF ViewState
<1>2. FileHit(v.files, k)' = FileHit(v.files, k)
  BY <1>1, FileHitKept
<1> QED  BY <1>2 DEF Lookup

LEMMA ViewAtKept ==
  ASSUME TypeOK, \A f \in Files : sst'[f] = sst[f], Files \subseteq Files',
         dropped \subseteq dropped',
         NEW v \in ViewState, NEW n \in 0 .. Len(log),
         \A i \in 1 .. Len(log) : log'[i] = log[i],
         v.mem # 0,
         \A t \in {v.mem, v.imm, v.flushing} \ {0} : heap'[t] = heap[t],
         ViewAt(v, n)
  PROVE  ViewAt(v, n)'
<1> SUFFICES ASSUME NEW k \in Key, v.flushing = 0 \/ heap[v.flushing][k] = 0
             PROVE  \/ IsExpired(v.ttl[k[1]], k[2])
                    \/ (Latest(n, k) \in dropped)'
                    \/ (Lookup(v, k) = Latest(n, k))'
  BY DEF ViewAt
<1>1. Latest(n, k)' = Latest(n, k)
  <2>1. Len(log) \in Nat
    BY DEF TypeOK, WritesTypeOK
  <2> QED  BY <2>1, LatestKept
<1>2. Lookup(v, k)' = Lookup(v, k)
  BY LookupKept
<1> QED  BY <1>1, <1>2 DEF ViewAt

\* The steps that write to no memtable.
LEMMA ViewSoundKept ==
  ASSUME TypeOK, [Next]_vars, UNCHANGED <<log, heap>>,
         dropped \subseteq dropped',
         NEW v \in ViewState, v.mem # 0, ViewSound(v)
  PROVE  ViewSound(v)'
<1>1. (\A f \in Files : sst'[f] = sst[f]) /\ Files \subseteq Files'
  BY FilesKept
<1>2. PICK n \in v.since .. Len(log) :
        ViewAt(v, n) /\ (v.mem = Len(heap) => n = Len(log))
  BY DEF ViewSound
<1>3. n \in 0 .. Len(log)
  BY DEF ViewState
<1>4. ViewAt(v, n)'
  BY <1>1, <1>2, <1>3, ViewAtKept
<1> QED  BY <1>2, <1>4 DEF ViewSound

LEMMA ReadsKept ==
  ASSUME TypeOK, OrderInv, ReadsInv, [Next]_vars,
         UNCHANGED <<log, heap, view>>, dropped \subseteq dropped'
  PROVE  ReadsInv'
<1> SUFFICES ASSUME NEW r \in Readers, NEW v, v = view[r], v.active
             PROVE  ViewSound(v)'
  BY DEF ReadsInv
<1>1. v \in ViewState /\ v.mem # 0 /\ ViewSound(v)
  BY DEF TypeOK, ViewTypeOK, ReadsInv, OrderInv, IndexInv
<1> QED  BY <1>1, ViewSoundKept

LEMMA RotateReads ==
  ASSUME TypeOK, OrderInv, ReadsInv, Rotate,
         UNCHANGED <<log, view, sst, dropped>>
  PROVE  ReadsInv'
<1> SUFFICES ASSUME NEW r \in Readers, NEW v, v = view[r], v.active
             PROVE  ViewSound(v)'
  BY DEF ReadsInv
<1>1. /\ Len(heap') = Len(heap) + 1 /\ Len(heap) \in Nat
      /\ \A i \in 1 .. Len(heap) : heap'[i] = heap[i]
  BY DEF Rotate, TypeOK, TablesTypeOK
<1>2. v \in ViewState /\ v.mem # 0 /\ ViewSound(v)
  BY DEF TypeOK, ViewTypeOK, ReadsInv, OrderInv, IndexInv
<1>3. PICK n \in v.since .. Len(log) : ViewAt(v, n)
  BY <1>2 DEF ViewSound
<1>4. n \in 0 .. Len(log) /\ v.mem \in 0 .. Len(heap)
      /\ v.imm \in 0 .. Len(heap) /\ v.flushing \in 0 .. Len(heap)
  BY <1>2 DEF ViewState
<1>5. \A t \in {v.mem, v.imm, v.flushing} \ {0} : heap'[t] = heap[t]
  BY <1>1, <1>4
<1>6. (\A f \in Files : sst'[f] = sst[f]) /\ Files \subseteq Files'
  BY DEF Files
<1>7. ViewAt(v, n)'
  BY <1>1, <1>2, <1>3, <1>4, <1>5, <1>6, ViewAtKept
<1> QED  BY <1>1, <1>2, <1>3, <1>4, <1>7 DEF ViewSound

\* A view on the memtable that takes the write sees it at once, and sees
\* every other key as before; the other views see nothing of it.
LEMMA ApplyReads ==
  ASSUME TypeOK, OrderInv, ReadsInv, NEW w \in Writers, Apply(w)
  PROVE  ReadsInv'
<1> DEFINE op == Head(writer[w].ops)
<1>1. /\ heap \in Seq(Content) /\ Len(heap) \in Nat \ {0}
      /\ log \in Seq(Op) /\ Len(log) \in Nat
      /\ Len(heap') = Len(heap) /\ op \in Op
  BY ApplyType DEF TypeOK, TablesTypeOK, WritesTypeOK
<1>2. /\ heap' = [heap EXCEPT ![Len(heap)][op.key] = Len(log) + 1]
      /\ log' = Append(log, op)
      /\ UNCHANGED <<view, sst, dropped>>
  BY DEF Apply, versionVars
<1> HIDE DEF op
<1>3. /\ \A i \in 1 .. Len(log) : log'[i] = log[i]
      /\ Len(log') = Len(log) + 1
      /\ \A i \in 1 .. Len(heap) : i # Len(heap) => heap'[i] = heap[i]
      /\ \A k \in Key : heap'[Len(heap)][k] =
           IF k = op.key THEN Len(log) + 1 ELSE heap[Len(heap)][k]
  BY <1>1, <1>2 DEF Content
<1>4. (\A f \in Files : sst'[f] = sst[f]) /\ Files \subseteq Files'
  BY <1>2 DEF Files
<1> SUFFICES ASSUME NEW r \in Readers, NEW v, v = view[r], v.active
             PROVE  ViewSound(v)'
  BY <1>2 DEF ReadsInv
<1>5. v \in ViewState /\ v.mem # 0 /\ v.imm < v.mem /\ ViewSound(v)
  BY DEF TypeOK, ViewTypeOK, ReadsInv, OrderInv, IndexInv
<1>6. PICK n \in v.since .. Len(log) :
        ViewAt(v, n) /\ (v.mem = Len(heap) => n = Len(log))
  BY <1>5 DEF ViewSound
<1>7. /\ n \in 0 .. Len(log) /\ v.mem \in 1 .. Len(heap)
      /\ v.imm \in 0 .. Len(heap) /\ v.flushing \in 0 .. Len(heap)
      /\ v.since \in Nat /\ v.flushing < v.mem
  BY <1>5 DEF ViewState, ViewSound
<1>8. CASE v.mem # Len(heap)
  <2>1. \A t \in {v.mem, v.imm, v.flushing} \ {0} : heap'[t] = heap[t]
    <3>1. \A t \in {v.mem, v.imm, v.flushing} \ {0} : t \in 1 .. Len(heap) - 1
      BY <1>1, <1>5, <1>7, <1>8
    <3>2. \A t \in 1 .. Len(heap) - 1 : heap'[t] = heap[t]
      BY <1>1, <1>3
    <3> QED  BY <3>1, <3>2
  <2>2. ViewAt(v, n)'
    BY <1>2, <1>3, <1>4, <1>5, <1>6, <1>7, <2>1, ViewAtKept
  <2> QED  BY <1>1, <1>3, <1>6, <1>7, <1>8, <2>2 DEF ViewSound
<1>9. CASE v.mem = Len(heap)
  <2>1. PICK m : m = Len(log')
    OBVIOUS
  <2>2. /\ v.imm # 0 => heap'[v.imm] = heap[v.imm]
        /\ v.flushing # 0 => heap'[v.flushing] = heap[v.flushing]
    BY <1>1, <1>3, <1>5, <1>7, <1>9
  <2>3. ASSUME NEW k \in Key, v.flushing = 0 \/ heap[v.flushing][k] = 0
        PROVE  \/ IsExpired(v.ttl[k[1]], k[2])
               \/ (Latest(m, k) \in dropped)'
               \/ (Lookup(v, k) = Latest(m, k))'
    <3>1. CASE k = op.key
      <4>1. Latest(m, k)' = m
        BY <1>1, <1>2, <2>1, <3>1, LatestGrows
      <4>2. Lookup(v, k)' = m
        BY <1>1, <1>3, <1>9, <2>1, <3>1 DEF Lookup
      <4> QED  BY <4>1, <4>2
    <3>2. CASE k # op.key
      <4>1. Latest(m, k)' = Latest(n, k)
        BY <1>1, <1>2, <1>6, <1>9, <2>1, <3>2, LatestGrows
      <4>2. heap'[v.mem][k] = heap[v.mem][k]
        BY <1>3, <1>9, <3>2
      <4>3. Lookup(v, k)' = Lookup(v, k)
        BY <1>4, <1>5, <2>2, <4>2, LookupKept
      <4> QED  BY <1>2, <1>6, <2>3, <4>1, <4>3 DEF ViewAt
    <3> QED  BY <3>1, <3>2
  <2>4. ViewAt(v, m)'
    BY <2>2, <2>3 DEF ViewAt
  <2> QED  BY <1>3, <1>7, <2>1, <2>4 DEF ViewSound
<1> QED  BY <1>8, <1>9
-----------------------------------------------------------------------------
(* A query begins.                                                         *)

\* What is found first is the latest write, for no table holds a later one
\* and the tables are searched in the order of their age.
LEMMA CaptureSees ==
  ASSUME TypeOK, OrderInv, WritesInv, NEW v, NEW k \in Key,
         NEW e, IsLatest(e, Len(log), k),
         v.mem = Len(heap), v.imm \in 0 .. Len(heap), v.files = live,
         TablesNewestFirst(v.mem, v.imm, live),
         \/ e = 0 \/ heap[v.mem][k] = e
         \/ v.imm # 0 /\ heap[v.imm][k] = e
         \/ InFiles(v.files, e, k)
  PROVE  Lookup(v, k) = e
<1>1. /\ heap \in Seq(Content) /\ v.mem \in 1 .. Len(heap)
      /\ v.imm \in 0 .. Len(heap) /\ v.files \in LevelFiles
      /\ Len(log) \in Nat /\ e \in Nat
  BY DEF TypeOK, TablesTypeOK, VersionTypeOK, WritesTypeOK, IsLatest
<1>2. e = Latest(Len(log), k)
  BY <1>1, LatestIsLatest
<1>3. \A i \in 1 .. Len(heap) : heap[i][k] \in Nat /\ heap[i][k] <= e
  <2> SUFFICES ASSUME NEW i \in 1 .. Len(heap)
               PROVE  heap[i][k] \in Nat /\ heap[i][k] <= e
    OBVIOUS
  <2>1. heap[i] \in Content /\ Versioned(heap[i])
    BY <1>1 DEF WritesInv, VersionsInv
  <2>2. heap[i][k] <= e
    BY <1>2, <2>1, NothingLater
  <2> QED  BY <2>1, <2>2 DEF Content
<1>4. \A l \in Levels : \A f \in live[l] :
        /\ sst[f] \in Content /\ sst[f][k] \in Nat /\ sst[f][k] <= e
  <2> SUFFICES ASSUME NEW l \in Levels, NEW f \in live[l]
               PROVE  /\ sst[f] \in Content /\ sst[f][k] \in Nat
                      /\ sst[f][k] <= e
    OBVIOUS
  <2>1. f \in Files
    BY NamedFiles
  <2>2. sst[f] \in Content /\ Versioned(sst[f])
    BY <2>1 DEF WritesInv, VersionsInv, Files, TypeOK, TablesTypeOK
  <2>3. sst[f][k] <= e
    BY <1>2, <2>2, NothingLater
  <2> QED  BY <2>2, <2>3 DEF Content
<1>5. /\ FileHit(live, k) # 0 => InFiles(live, FileHit(live, k), k)
      /\ \A l \in Levels : \A f \in live[l] : sst[f][k] <= FileHit(live, k)
  BY <1>1, FileHitNewest DEF OrderInv, NewestFirst
<1>6. FileHit(live, k) \in Nat /\ FileHit(live, k) <= e
  BY <1>1, <1>4, <1>5 DEF InFiles
<1>7. TablesNewestFirst(v.mem, v.imm, live)
  OBVIOUS
<1>8. CASE e = 0
  BY <1>1, <1>3, <1>6, <1>8 DEF Lookup
<1>9. CASE e # 0 /\ heap[v.mem][k] = e
  BY <1>9 DEF Lookup
<1>10. CASE e # 0 /\ v.imm # 0 /\ heap[v.imm][k] = e
  <2>1. heap[v.mem][k] = 0 \/ e <= heap[v.mem][k]
    BY <1>7, <1>10 DEF TablesNewestFirst, NotOlder
  <2>2. heap[v.mem][k] = 0 \/ heap[v.mem][k] = e
    BY <1>1, <1>3, <2>1
  <2> QED  BY <1>10, <2>2 DEF Lookup
<1>11. CASE e # 0 /\ InFiles(live, e, k)
  <2>0. PICK l \in Levels : \E f \in live[l] : sst[f][k] = e
    BY <1>11 DEF InFiles
  <2>1. PICK f \in live[l] : sst[f][k] = e
    BY <2>0
  <2>2. /\ heap[v.mem][k] = 0 \/ e <= heap[v.mem][k]
        /\ v.imm # 0 => heap[v.imm][k] = 0 \/ e <= heap[v.imm][k]
    BY <1>7, <1>11, <2>1 DEF TablesNewestFirst, NotOlder
  <2>3. /\ heap[v.mem][k] \in {0, e}
        /\ v.imm # 0 => heap[v.imm][k] \in {0, e}
    BY <1>1, <1>3, <2>2
  <2>4. FileHit(live, k) = e
    BY <1>1, <1>5, <1>6, <2>1
  <2> QED  BY <2>3, <2>4 DEF Lookup
<1> QED  BY <1>8, <1>9, <1>10, <1>11

LEMMA CaptureReads ==
  ASSUME TypeOK, OrderInv, FilesInv, WritesInv, ReadsInv, [Next]_vars,
         NEW r \in Readers, CaptureReadView(r)
  PROVE  ReadsInv'
<1>1. /\ UNCHANGED <<log, heap, sst, dropped>>
      /\ view' = [view EXCEPT ![r] =
           [active |-> TRUE, mem |-> Len(heap), imm |-> imm,
            files |-> [l \in Levels |-> live[l] \cap readers], ttl |-> ttl,
            since |-> Len(log), flushing |-> flush.table]]
  BY DEF CaptureReadView, memVars, versionVars
<1>2. PICK v : v = view'[r]
  OBVIOUS
<1>3. /\ v = [active |-> TRUE, mem |-> Len(heap), imm |-> imm,
              files |-> [l \in Levels |-> live[l] \cap readers], ttl |-> ttl,
              since |-> Len(log), flushing |-> flush.table]
      /\ \A q \in Readers : q # r => view'[q] = view[q]
  BY <1>1, <1>2 DEF TypeOK, ViewTypeOK
<1>4. v.files = live
  BY <1>3 DEF TypeOK, VersionTypeOK, LevelFiles, FilesInv, LiveInv
<1>5. /\ v.mem = Len(heap) /\ v.imm = imm /\ v.since = Len(log)
      /\ v.flushing = flush.table /\ v.flushing < v.mem
      /\ Len(log) \in Nat
  BY <1>3 DEF OrderInv, IndexInv, TypeOK, WritesTypeOK
<1>6. v \in ViewState
  <2>1. /\ live \in LevelFiles /\ ttl \in TtlMap /\ Len(heap) \in Nat
        /\ imm \in 0 .. Len(heap) /\ flush.table \in 0 .. Len(heap)
    BY DEF TypeOK, VersionTypeOK, WritesTypeOK, TablesTypeOK, FlushState
  <2>2. v = [active |-> TRUE, mem |-> Len(heap), imm |-> imm, files |-> live,
             ttl |-> ttl, since |-> Len(log), flushing |-> flush.table]
    <3>1. [l \in Levels |-> live[l] \cap readers] = live
      BY <1>3, <1>4
    <3> QED  BY <1>3, <3>1
  <2> QED  BY <1>5, <2>1, <2>2 DEF ViewState
<1>7. ViewAt(v, Len(log))
  <2> SUFFICES ASSUME NEW k \in Key, NEW e, e = Latest(Len(log), k),
                      v.flushing = 0 \/ heap[v.flushing][k] = 0,
                      e \notin dropped
               PROVE  Lookup(v, k) = e
    BY DEF ViewAt
  <2>1. IsLatest(e, Len(log), k)
    BY <1>5, LatestIsLatest
  <2>2. e = 0 \/ Found(e, k)
    BY DEF WritesInv, NoLostWrite, Found
  <2>3. \/ e = 0 \/ heap[v.mem][k] = e
        \/ v.imm # 0 /\ heap[v.imm][k] = e
        \/ InFiles(v.files, e, k)
    BY <1>4, <1>5, <2>2 DEF Found
  <2>4. TablesNewestFirst(v.mem, v.imm, live) /\ v.imm \in 0 .. Len(heap)
    BY <1>5, <1>6 DEF ViewState, OrderInv, NewestFirst
  <2> QED  BY <1>4, <1>5, <1>6, <2>1, <2>3, <2>4, CaptureSees
<1>8. ViewSound(v)
  BY <1>5, <1>7 DEF ViewSound
<1>9. ViewSound(v)'
  BY <1>1, <1>5, <1>6, <1>8, ViewSoundKept DEF OrderInv, IndexInv
<1> SUFFICES ASSUME NEW q \in Readers, NEW u, u = view'[q], u.active
             PROVE  ViewSound(u)'
  BY DEF ReadsInv
<1>10. CASE q = r
  BY <1>2, <1>9, <1>10
<1>11. CASE q # r
  <2>1. u \in ViewState /\ u.mem # 0 /\ ViewSound(u)
    BY <1>3, <1>11 DEF TypeOK, ViewTypeOK, ReadsInv, OrderInv, IndexInv
  <2> QED  BY <1>1, <2>1, ViewSoundKept
<1> QED  BY <1>10, <1>11

LEMMA ReleaseReads ==
  ASSUME TypeOK, OrderInv, ReadsInv, [Next]_vars,
         NEW r \in Readers, ReleaseReadView(r)
  PROVE  ReadsInv'
<1>1. /\ UNCHANGED <<log, heap, dropped>>
      /\ view' = [view EXCEPT ![r] = NoReadView]
  BY DEF ReleaseReadView, memVars
<1> SUFFICES ASSUME NEW q \in Readers, NEW u, u = view'[q], u.active
             PROVE  ViewSound(u)'
  BY DEF ReadsInv
<1>2. q # r /\ u = view[q]
  BY <1>1 DEF NoReadView, TypeOK, ViewTypeOK
<1>3. u \in ViewState /\ u.mem # 0 /\ ViewSound(u)
  BY <1>2 DEF TypeOK, ViewTypeOK, ReadsInv, OrderInv, IndexInv
<1> QED  BY <1>1, <1>3, ViewSoundKept
-----------------------------------------------------------------------------
LEMMA NextReads ==
  TypeOK /\ OrderInv /\ FilesInv /\ WritesInv /\ ReadsInv /\ [Next]_vars
    => ReadsInv'
<1> SUFFICES ASSUME TypeOK, OrderInv, FilesInv, WritesInv, ReadsInv,
                    [Next]_vars
             PROVE  ReadsInv'
  OBVIOUS
<1>1. ASSUME NEW w \in Writers, Write(w) PROVE ReadsInv'
  <2>1. CASE Apply(w)
    BY <2>1, ApplyReads
  <2>2. CASE MakeRoom(w)
    <3>1. UNCHANGED <<log, view, sst, dropped>>
      BY <2>2 DEF MakeRoom, versionVars
    <3>2. Rotate \/ UNCHANGED heap
      BY <2>2 DEF MakeRoom
    <3> QED  BY <3>1, <3>2, RotateReads, ReadsKept
  <2>3. CASE ~Apply(w) /\ ~MakeRoom(w)
    BY <1>1, <2>3, ReadsKept, Zenon DEF Write, Begin, WaitForRoom, AppendToWal
  <2> QED  BY <2>1, <2>2, <2>3
<1>2. CASE UserFlush
  BY <1>2, RotateReads DEF UserFlush, versionVars
<1>3. CASE FlushThread
  <2>1. UNCHANGED <<log, heap, view>> /\ dropped \subseteq dropped'
    BY <1>3 DEF FlushThread, FlushTake, FlushBuild, FlushPublish, FlushAbandon,
                FlushSchedule, memVars
  <2> QED  BY <2>1, ReadsKept
<1>4. CASE Compact
  <2>1. UNCHANGED <<log, heap, view>> /\ dropped \subseteq dropped'
    BY <1>4 DEF Compact, BackgroundCompact, UserCompact, CleanupObsoleteFiles,
                CompactRead, CompactWrite, CompactWriteFails, CompactCommit,
                CompactAbort, memVars
  <2> QED  BY <2>1, ReadsKept
<1>5. ASSUME NEW m \in Measurements, NEW s \in TtlSeconds, SetTTL(m, s)
      PROVE  ReadsInv'
  BY <1>5, ReadsKept DEF SetTTL, memVars
<1>6. ASSUME NEW r \in Readers, Read(r) PROVE ReadsInv'
  BY <1>6, CaptureReads, ReleaseReads DEF Read
<1>7. CASE UNCHANGED vars
  BY <1>7, ReadsKept DEF vars
<1> QED  BY <1>1, <1>2, <1>3, <1>4, <1>5, <1>6, <1>7 DEF Next

\* Every query reads one prefix of the writes, with all those acknowledged
\* before it began.
THEOREM QueriesSeeOnePrefix == Spec => []ReadsSeeOnePrefix
<1> DEFINE Inv == TypeOK /\ OrderInv /\ FilesInv /\ WritesInv /\ ReadsInv
<1>1. Init => Inv
  <2>1. Init => ReadsInv
    BY DEF Init, ReadsInv, NoReadView
  <2> QED  BY <2>1, InitType, InitOrder, InitFiles, InitWrites
<1>2. Inv /\ [Next]_vars => Inv'
  BY NextType, NextOrder, NextFiles, NextWrites, NextReads
<1>3. Inv => ReadsSeeOnePrefix
  <2> SUFFICES ASSUME ReadsInv, NEW r \in Readers, view[r].active
               PROVE  SeesPrefix(view[r], {k \in Key :
                        \/ view[r].flushing = 0
                        \/ heap[view[r].flushing][k] = 0})
    BY DEF ReadsSeeOnePrefix
  <2> QED  BY DEF ReadsInv, ViewSound, ViewAt, SeesPrefix
<1> QED  BY <1>1, <1>2, <1>3, PTL DEF Spec
-----------------------------------------------------------------------------
(* The pipeline is a map.                                                  *)

\* The layers hold the latest write of every key that was not given up.
LEMMA NewestIsLatest ==
  ASSUME TypeOK, OrderInv, WritesInv, NEW k \in Key,
         Latest(Len(log), k) \notin dropped \ {0}
  PROVE  Newest(k) = Latest(Len(log), k)
<1>1. /\ Len(heap) \in Nat /\ Len(heap) # 0 /\ imm \in 0 .. Len(heap)
      /\ flush.table \in 0 .. Len(heap) /\ Len(log) \in Nat
  BY DEF TypeOK, TablesTypeOK, FlushState, WritesTypeOK
<1>2. PICK e : e = Latest(Len(log), k) /\ IsLatest(e, Len(log), k)
  BY <1>1, LatestIsLatest
<1>3. \/ e = 0 \/ heap[Len(heap)][k] = e
      \/ imm # 0 /\ heap[imm][k] = e
      \/ flush.table # 0 /\ heap[flush.table][k] = e
      \/ InFiles(live, e, k)
  BY <1>2 DEF WritesInv, NoLostWrite
<1>4. flush.table # 0 => imm = 0
  BY DEF OrderInv, IndexInv
<1>5. PICK i : i = IF flush.table # 0 THEN flush.table ELSE imm
  OBVIOUS
<1>6. PICK v : v = [mem |-> Len(heap), imm |-> i, files |-> live]
  OBVIOUS
<1>7. v.mem = Len(heap) /\ v.imm = i /\ v.files = live
  BY <1>6
<1>8. TablesNewestFirst(v.mem, v.imm, live) /\ i \in 0 .. Len(heap)
  BY <1>1, <1>5, <1>7 DEF OrderInv, NewestFirst
<1>9. \/ e = 0 \/ heap[v.mem][k] = e
      \/ v.imm # 0 /\ heap[v.imm][k] = e
      \/ InFiles(v.files, e, k)
  BY <1>3, <1>4, <1>5, <1>7
<1>10. Lookup(v, k) = e
  BY <1>2, <1>7, <1>8, <1>9, CaptureSees
<1>11. Lookup(v, k) = Newest(k)
  BY <1>4, <1>5, <1>7 DEF Lookup, Newest
<1> QED  BY <1>2, <1>10, <1>11

\* So what is stored depends on the history of the writes only.
ValueIn(n, k) ==
  IF Latest(n, k) # 0 /\ log[Latest(n, k)].type = "kDeletion" THEN 0
  ELSE Latest(n, k)

LEMMA StoreIsHistory ==
  TypeOK /\ OrderInv /\ WritesInv /\ dropped \subseteq {0}
    => Store = [k \in Key |-> ValueIn(Len(log), k)]
<1> SUFFICES ASSUME TypeOK, OrderInv, WritesInv, dropped \subseteq {0}
             PROVE  Store = [k \in Key |-> ValueIn(Len(log), k)]
  OBVIOUS
<1>1. \A k \in Key : Newest(k) = Latest(Len(log), k)
  BY NewestIsLatest
<1> QED  BY <1>1 DEF Store, ValueIn

\* The same after a step.
LEMMA StoreIsHistoryNext ==
  (TypeOK /\ OrderInv /\ WritesInv /\ dropped \subseteq {0})'
    => (Store = [k \in Key |-> ValueIn(Len(log), k)])'
BY StoreIsHistory, PTL

\* The history grows by one operation of a writer, or not at all.
LEMMA HistoryGrows ==
  ASSUME TypeOK, [Next]_vars
  PROVE  UNCHANGED log \/ \E op \in Op : log' = Append(log, op)
<1>1. ASSUME NEW w \in Writers, Apply(w)
      PROVE  \E op \in Op : log' = Append(log, op)
  BY <1>1, ApplyType DEF Apply
<1>2. ASSUME NEW w \in Writers, Write(w), ~Apply(w) PROVE UNCHANGED log
  BY <1>2, Zenon DEF Write, Begin, MakeRoom, WaitForRoom, AppendToWal
<1>3. CASE UserFlush
  BY <1>3 DEF UserFlush
<1>4. CASE FlushThread
  BY <1>4 DEF FlushThread, FlushTake, FlushBuild, FlushPublish, FlushAbandon,
              FlushSchedule, memVars
<1>5. CASE Compact
  BY <1>5 DEF Compact, BackgroundCompact, UserCompact, CleanupObsoleteFiles,
              CompactRead, CompactWrite, CompactWriteFails, CompactCommit,
              CompactAbort, memVars
<1>6. ASSUME NEW m \in Measurements, NEW s \in TtlSeconds, SetTTL(m, s)
      PROVE  UNCHANGED log
  BY <1>6 DEF SetTTL, memVars
<1>7. ASSUME NEW r \in Readers, Read(r) PROVE UNCHANGED log
  BY <1>7 DEF Read, CaptureReadView, ReleaseReadView, memVars
<1>8. CASE UNCHANGED vars
  BY <1>8 DEF vars
<1> QED  BY <1>1, <1>2, <1>3, <1>4, <1>5, <1>6, <1>7, <1>8 DEF Next

\* A write to the history is a Put or a Delete of the map.
LEMMA HistoryIsAMap ==
  ASSUME TypeOK, NEW op \in Op, log' = Append(log, op), NEW n, n = Len(log'),
         NEW k \in Key
  PROVE  ValueIn(n, k)' = IF op.key # k THEN ValueIn(Len(log), k)
                          ELSE IF op.type = "kDeletion" THEN 0 ELSE n
<1>1. log \in Seq(Op) /\ Len(log) \in Nat
  BY DEF TypeOK, WritesTypeOK
<1>2. /\ n = Len(log) + 1 /\ log'[n] = op
      /\ \A i \in 1 .. Len(log) : log'[i] = log[i]
  BY <1>1
<1>3. Latest(n, k)' = IF op.key = k THEN n ELSE Latest(Len(log), k)
  BY <1>1, LatestGrows
<1>4. Latest(Len(log), k) \in 0 .. Len(log)
  BY <1>1, LatestIsLatest DEF IsLatest
<1>5. ValueIn(n, k)' = IF Latest(n, k)' # 0
                          /\ log'[Latest(n, k)'].type = "kDeletion"
                       THEN 0 ELSE Latest(n, k)'
  BY DEF ValueIn
<1> QED  BY <1>1, <1>2, <1>3, <1>4, <1>5 DEF ValueIn

LEMMA StoreStep ==
  ASSUME TypeOK, OrderInv, WritesInv, dropped \subseteq {0},
         (TypeOK /\ OrderInv /\ WritesInv /\ dropped \subseteq {0})',
         [Next]_vars
  PROVE  [KV!Next]_<<Store, Len(log)>>
<1>1. log \in Seq(Op) /\ Len(log) \in Nat
  BY DEF TypeOK, WritesTypeOK
<1>2. PICK n : n = Len(log')
  OBVIOUS
<1>3. Store = [k \in Key |-> ValueIn(Len(log), k)]
  BY StoreIsHistory
<1>4. Store' = [k \in Key |-> ValueIn(n, k)']
  BY <1>2, StoreIsHistoryNext DEF ValueIn
<1>5. CASE UNCHANGED log
  <2>1. ASSUME NEW k \in Key PROVE ValueIn(n, k)' = ValueIn(Len(log), k)
    <3>1. n = Len(log) /\ Latest(Len(log), k)' = Latest(Len(log), k)
      BY <1>1, <1>2, <1>5, LatestKept
    <3> QED  BY <1>5, <3>1 DEF ValueIn
  <2> QED  BY <1>3, <1>4, <1>5, <2>1
<1>6. ASSUME NEW op \in Op, log' = Append(log, op) PROVE KV!Next
  <2>1. op.key \in Key /\ n = Len(log) + 1
    BY <1>1, <1>2, <1>6 DEF Op
  <2>2. \A k \in Key :
          ValueIn(n, k)' = IF op.key # k THEN ValueIn(Len(log), k)
                           ELSE IF op.type = "kDeletion" THEN 0 ELSE n
    BY <1>2, <1>6, HistoryIsAMap
  <2>3. CASE op.type = "kDeletion"
    <3>1. Store' = [Store EXCEPT ![op.key] = 0]
      BY <1>3, <1>4, <2>1, <2>2, <2>3
    <3> QED  BY <1>2, <2>1, <3>1 DEF KV!Next, KV!Delete
  <2>4. CASE op.type # "kDeletion"
    <3>1. Store' = [Store EXCEPT ![op.key] = n]
      BY <1>3, <1>4, <2>1, <2>2, <2>4
    <3> QED  BY <1>2, <2>1, <3>1 DEF KV!Next, KV!Put
  <2> QED  BY <2>3, <2>4
<1> QED  BY <1>5, <1>6, HistoryGrows

\* As long as nothing is given up, the pipeline is the map of KVStore:
\* rotation, flush and compaction change nothing a client could see, however
\* they interleave, and a write takes effect at once.
THEOREM StoreImplementsMap ==
  Spec /\ [](dropped \subseteq {0}) => ImplementsKVStore
<1>1. Init => KV!Init
  <2> SUFFICES ASSUME Init PROVE KV!Init
    OBVIOUS
  <2>1. \A k \in Key : Latest(Len(log), k) = 0
    BY DEF Init, Latest
  <2>2. Store = [k \in Key |-> 0]
    BY <2>1, StoreIsHistory, InitType, InitOrder, InitWrites DEF Init, ValueIn
  <2> QED  BY <2>2 DEF Init, KV!Init
<1> DEFINE Inv == TypeOK /\ OrderInv /\ FilesInv /\ WritesInv
<1>2. Inv /\ dropped \subseteq {0} /\ (Inv /\ dropped \subseteq {0})'
        /\ [Next]_vars => [KV!Next]_<<Store, Len(log)>>
  BY StoreStep
<1>3. Spec => []Inv
  BY WritesTraced
<1> HIDE DEF Inv
<1> QED  BY <1>1, <1>2, <1>3, PTL DEF Spec, ImplementsKVStore, KV!Spec
-----------------------------------------------------------------------------
(* When nothing is given up.                                               *)

\* No I/O call has failed and no TTL rule is in force.
Undisturbed == faults = 0 /\ \A m \in Measurements : ttl[m].ttl <= 0

NothingLost ==
  /\ dropped \subseteq {0} /\ job.lost \subseteq {0}
  /\ flush.pc # "abandon"
  /\ \A m \in Measurements : job.ttl[m].ttl <= 0

\* The steps that leave the flush thread and the job alone.
LEMMA LostKept ==
  ASSUME NothingLost, UNCHANGED <<dropped, flush, job>>
  PROVE  NothingLost'
BY DEF NothingLost

LEMMA NoFail ==
  ASSUME TypeOK, Undisturbed' PROVE ~Fail
BY DEF Undisturbed, Fail, TypeOK, WritesTypeOK

LEMMA FlushLosesNothing ==
  ASSUME TypeOK, NothingLost, Undisturbed', FlushThread
  PROVE  NothingLost'
<1>1. ~Fail /\ flush \in FlushState
  BY NoFail DEF TypeOK, TablesTypeOK
<1>2. ASSUME UNCHANGED <<job, dropped>>, flush'.pc # "abandon"
      PROVE  NothingLost'
  BY <1>2 DEF NothingLost
<1>3. CASE FlushTake
  BY <1>2, <1>3 DEF FlushTake, jobVars
<1>4. CASE FlushBuild
  BY <1>1, <1>2, <1>4 DEF FlushBuild, jobVars, FlushState
<1>5. CASE FlushPublish
  BY <1>1, <1>2, <1>5 DEF FlushPublish, jobVars
<1>6. CASE FlushAbandon
  BY <1>6 DEF FlushAbandon, NothingLost
<1>7. CASE FlushSchedule
  BY <1>1, <1>2, <1>7 DEF FlushSchedule, FlushState
<1> QED  BY <1>3, <1>4, <1>5, <1>6, <1>7 DEF FlushThread

\* A job keeps the rules that were in force when it started.
LEMMA CompactLosesNothing ==
  ASSUME TypeOK, NothingLost, Undisturbed, Undisturbed', Compact
  PROVE  NothingLost'
<1>1. ~Fail /\ job \in JobState /\ ttl \in TtlMap
  BY NoFail DEF TypeOK, JobTypeOK, WritesTypeOK
<1>2. ASSUME UNCHANGED <<dropped, flush>>,
             \/ job' = NoJob
             \/ job'.lost \subseteq {0} /\ job'.ttl = job.ttl
      PROVE  NothingLost'
  <2>1. NoJob.lost = {} /\ \A m \in Measurements : NoJob.ttl[m].ttl = 0
    BY DEF NoJob, NoTtl
  <2> HIDE DEF NoJob
  <2> QED  BY <1>2, <2>1 DEF NothingLost
<1>3. ASSUME UNCHANGED <<dropped, flush>>, NEW l, NEW b, NEW c,
             StartJob(l, b, c)
      PROVE  NothingLost'
  <2>1. job'.lost = {} /\ job'.ttl = ttl
    BY <1>3 DEF StartJob, NoJob
  <2> QED  BY <1>3, <2>1 DEF NothingLost, Undisturbed
<1>4. CASE BackgroundCompact
  BY <1>3, <1>4, LostKept DEF BackgroundCompact
<1>5. ASSUME NEW cleanup \in BOOLEAN, UserCompact(cleanup)
      PROVE  NothingLost'
  BY <1>3, <1>5, LostKept DEF UserCompact, jobVars
<1>6. CASE CleanupObsoleteFiles
  BY <1>6, LostKept DEF CleanupObsoleteFiles, jobVars
<1>7. CASE CompactRead
  <2>1. PICK F, merged, left : job' = [job EXCEPT !.pc = "write",
                                 !.merged = merged, !.left = left,
                                 !.lost = Lost(F, {})]
    BY <1>1, <1>7 DEF CompactRead
  <2>2. \A x \in Key : ~IsExpired(job.ttl[x[1]], x[2])
    <3>1. \A x \in Key : job.ttl[x[1]].ttl \in Int /\ job.ttl[x[1]].ttl <= 0
      BY <1>1 DEF NothingLost, JobState, TtlMap, TtlRule, Key
    <3> QED  BY <3>1 DEF IsExpired
  <2>3. Lost(F, {}) = {}
    BY <2>2 DEF Lost
  <2>4. job'.lost = {} /\ job'.ttl = job.ttl
    BY <1>1, <2>1, <2>3 DEF JobState
  <2> QED  BY <1>2, <1>7, <2>4 DEF CompactRead
<1>8. CASE CompactWrite
  <2>1. job'.lost = job.lost /\ job'.ttl = job.ttl
    BY <1>1, <1>8 DEF CompactWrite, JobState
  <2> QED  BY <1>2, <1>8, <2>1 DEF CompactWrite, NothingLost
<1>9. CASE CompactCommit
  <2>1. job' = NoJob /\ UNCHANGED flush /\ dropped' = dropped \cup job.lost
    BY <1>9 DEF CompactCommit, EndJob
  <2>2. dropped' \subseteq {0}
    BY <2>1 DEF NothingLost
  <2>3. NoJob.lost = {} /\ \A m \in Measurements : NoJob.ttl[m].ttl = 0
    BY DEF NoJob, NoTtl
  <2> HIDE DEF NoJob
  <2> QED  BY <2>1, <2>2, <2>3 DEF NothingLost
<1>10. CASE CompactAbort
  BY <1>2, <1>10 DEF CompactAbort, EndJob
<1> QED  BY <1>1, <1>4, <1>5, <1>6, <1>7, <1>8, <1>9, <1>10
         DEF Compact, CompactWriteFails

LEMMA NothingIsLost ==
  TypeOK /\ NothingLost /\ Undisturbed /\ Undisturbed' /\ [Next]_vars
    => NothingLost'
<1> SUFFICES ASSUME TypeOK, NothingLost, Undisturbed, Undisturbed',
                    [Next]_vars
             PROVE  NothingLost'
  OBVIOUS
<1>1. ASSUME NEW w \in Writers, Write(w)
      PROVE  UNCHANGED <<dropped, flush, job>>
  BY <1>1, Zenon DEF Write, Begin, MakeRoom, WaitForRoom, AppendToWal, Apply,
                     jobVars
<1>2. CASE UserFlush
  BY <1>2, LostKept DEF UserFlush, jobVars
<1>3. ASSUME NEW m \in Measurements, NEW s \in TtlSeconds, SetTTL(m, s)
      PROVE  NothingLost'
  BY <1>3, LostKept DEF SetTTL, jobVars
<1>4. ASSUME NEW r \in Readers, Read(r) PROVE NothingLost'
  BY <1>4, LostKept DEF Read, CaptureReadView, ReleaseReadView, jobVars
<1>5. CASE UNCHANGED vars
  BY <1>5, LostKept DEF vars
<1> QED  BY <1>1, <1>2, <1>3, <1>4, <1>5, LostKept, FlushLosesNothing,
            CompactLosesNothing DEF Next

\* Without I/O failures and TTL rules nothing is given up, so the pipeline
\* is the map of KVStore.
THEOREM UndisturbedStoreImplementsMap ==
  Spec /\ []Undisturbed => ImplementsKVStore
<1>1. Init => TypeOK /\ NothingLost
  <2>1. Init => NothingLost
    BY DEF Init, NothingLost, NoJob, NoTtl
  <2> QED  BY <2>1, InitType
<1>2. TypeOK /\ NothingLost /\ Undisturbed /\ Undisturbed' /\ [Next]_vars
        => (TypeOK /\ NothingLost)'
  BY NextType, NothingIsLost
<1>3. NothingLost => dropped \subseteq {0}
  BY DEF NothingLost
<1> QED  BY <1>1, <1>2, <1>3, StoreImplementsMap, PTL DEF Spec
=============================================================================

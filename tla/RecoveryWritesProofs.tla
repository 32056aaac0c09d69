------------------------- MODULE RecoveryWritesProofs -------------------------
(***************************************************************************)
(* The proof that crashes, shutdowns and restarts lose no acknowledged     *)
(* write but those whose record a rotation of the WAL dropped, and keep    *)
(* the levels ordered by age, as long as none mangles the manifest; for    *)
(* every number of keys, levels, writes and crashes.                       *)
(***************************************************************************)
EXTENDS RecoveryProofs, EngineReadsProofs

-----------------------------------------------------------------------------
(* The inductive invariant.                                                *)

\* The operations ever made, those the WAL holds and no memtable yet last.
Hist == log \o Logged

\* The WAL holds the last ones.
RecordOf(h, i) == [op |-> h[i], at |-> i]
WalTail ==
  /\ Len(wal) <= Len(Hist)
  /\ \A i \in 1 .. Len(wal) :
       wal[i] = RecordOf(Hist, Len(Hist) - Len(wal) + i)

\* mu_ is kept from the test for room to the insert.
LockInv == \A w \in Writers : writer[w].pc \in {"append", "apply"} => lock = w

\* No table that is flushed and no file is empty.
Filled(c) == \E k \in Key : c[k] # 0
FilledInv ==
  /\ \A f \in Files : Filled(sst[f])
  /\ imm # 0 => Filled(heap[imm])
  /\ flush.table # 0 => Filled(heap[flush.table])
  /\ usage > 0 => Filled(heap[Len(heap)])

AckedInv == acked \subseteq 1 .. Len(log) /\ called \in Nat \ {0}

\* A version that had files has files: a job has inputs and so outputs, and
\* only a version without files is replaced by what is found on disk.
NeverEmptied ==
  /\ job.pc # "none" => job.upper # {}
  /\ live = NoFiles => Condemned = {}

\* What a restart will load is a version as good as the one that was lost.
StartInv ==
  ~up => /\ FilesNewestFirst(Listed(manifest)) /\ KeysApart(Listed(manifest))
         /\ \/ Listed(manifest) # NoFiles
            \/ \A f, g \in disk : f = g

\* The version, if the process died now.
Current == IF up THEN live ELSE Listed(manifest)

\* Operation e is in the WAL, or the version has it or a later one of the
\* same key, or else a rotation has dropped its record.
Persists(e) ==
  \/ e \in rotated
  \/ \E i \in 1 .. Len(wal) : wal[i].at = e
  \/ \E l \in Levels : \E f \in Current[l] : e <= sst[f][Hist[e].key]
Persisted == \A e \in 1 .. Len(Hist) : Persists(e)

SurvivalInv ==
  /\ ~torn
  /\ WalTail /\ LockInv /\ FilledInv /\ AckedInv /\ NeverEmptied
  /\ StartInv /\ Persisted
  /\ OrderInv /\ VersionsInv /\ MergedInv
  /\ Undisturbed /\ NothingLost

RecoveryWritesInv == RecoveryInv /\ (mangled \/ SurvivalInv)

-----------------------------------------------------------------------------
(* The history of the operations.                                          *)

LEMMA HistIs ==
  ASSUME TypeOK
  PROVE  /\ Hist \in Seq(Op) /\ Len(Hist) \in Nat /\ Len(log) \in Nat
         /\ Len(Hist) = Len(log) + Len(Logged)
         /\ \A i \in 1 .. Len(log) : Hist[i] = log[i]
         /\ \A i \in 1 .. Len(Hist) : Hist[i].key \in Key
<1>1. log \in Seq(Op) /\ Logged \in Seq(Op)
  BY UnappliedType DEF TypeOK, WritesTypeOK
<1>2. \A o \in Op : o.key \in Key
  BY SMTT(20) DEF Op
<1>3. PICK a \in Seq(Op), b \in Seq(Op) : a = log /\ b = Logged
  BY <1>1
<1>4. /\ a \o b \in Seq(Op) /\ Len(a \o b) \in Nat /\ Len(a) \in Nat
      /\ Len(a \o b) = Len(a) + Len(b)
      /\ \A i \in 1 .. Len(a) : (a \o b)[i] = a[i]
      /\ \A i \in 1 .. Len(a \o b) : (a \o b)[i] \in Op
  OBVIOUS
<1>5. Hist = a \o b
  BY <1>3 DEF Hist
<1> QED  BY <1>2, <1>3, <1>4, <1>5

LEMMA LoggedIs ==
  ASSUME NEW w \in Writers
  PROVE  /\ Logged = IF writer[w].pc \in {"apply", "applied"}
                       THEN writer[w].ops ELSE <<>>
         /\ Logged' = IF writer'[w].pc \in {"apply", "applied"}
                        THEN writer'[w].ops ELSE <<>>
<1>1. w = CHOOSE x \in Writers : TRUE
  BY TheWriter
<1>2. Logged = IF writer[w].pc \in {"apply", "applied"}
                 THEN writer[w].ops ELSE <<>>
  BY <1>1 DEF Logged
<1> QED  BY <1>1, <1>2 DEF Logged

\* An operation that goes from the WAL to the memtable stays where it is.
LEMMA HistMoves ==
  ASSUME NEW a \in Seq(Op), NEW b \in Seq(Op), b # <<>>
  PROVE  Append(a, Head(b)) \o Tail(b) = a \o b
<1> DEFINE s == Append(a, Head(b)) \o Tail(b)
<1>1. /\ Len(a) \in Nat /\ Len(b) \in Nat \ {0}
      /\ Append(a, Head(b)) \in Seq(Op) /\ Len(Append(a, Head(b))) = Len(a) + 1
      /\ Tail(b) \in Seq(Op) /\ Len(Tail(b)) = Len(b) - 1
  OBVIOUS
<1>2. /\ s \in Seq(Op) /\ a \o b \in Seq(Op)
      /\ Len(s) = Len(a) + Len(b) /\ Len(a \o b) = Len(a) + Len(b)
  BY <1>1
<1>3. ASSUME NEW i \in 1 .. Len(a) + Len(b) PROVE s[i] = (a \o b)[i]
  <2>1. CASE i <= Len(a)
    BY <1>1, <2>1
  <2>2. CASE i = Len(a) + 1
    BY <1>1, <2>2
  <2>3. CASE i > Len(a) + 1
    <3>1. i - (Len(a) + 1) \in 1 .. Len(Tail(b))
      BY <1>1, <2>3
    <3>2. s[i] = Tail(b)[i - (Len(a) + 1)]
      BY <1>1, <2>3, <3>1
    <3>3. Tail(b)[i - (Len(a) + 1)] = b[i - (Len(a) + 1) + 1]
      BY <1>1, <3>1
    <3>4. i - (Len(a) + 1) + 1 = i - Len(a)
      BY <1>1
    <3> QED  BY <1>1, <2>3, <3>2, <3>3, <3>4
  <2> QED  BY <1>1, <2>1, <2>2, <2>3
<1> HIDE DEF s
<1>4. s = a \o b
  BY <1>2, <1>3, SeqEqual
<1> QED  BY <1>4 DEF s

LEMMA HistKept ==
  ASSUME TypeOK, NEW w \in Writers,
         \/ \E ops \in Batches : Begin(w, ops)
         \/ MakeRoom(w) \/ WaitForRoom(w) \/ Apply(w)
  PROVE  Hist' = Hist
<1>1. writer[w] \in WriterState /\ log \in Seq(Op)
      /\ writer \in [Writers -> WriterState]
  BY DEF TypeOK, WritesTypeOK
<1>2. /\ Logged = IF writer[w].pc \in {"apply", "applied"}
                    THEN writer[w].ops ELSE <<>>
      /\ Logged' = IF writer'[w].pc \in {"apply", "applied"}
                     THEN writer'[w].ops ELSE <<>>
  BY LoggedIs
<1>3. ASSUME log' = log, Logged' = Logged PROVE Hist' = Hist
  BY <1>3 DEF Hist
<1>4. CASE \E ops \in Batches : Begin(w, ops)
  <2>1. writer[w].pc = "idle" /\ writer'[w].pc = "begin" /\ log' = log
    BY <1>1, <1>4 DEF Begin
  <2> QED  BY <1>2, <1>3, <2>1
<1>5. CASE MakeRoom(w)
  <2>1. log' = log
    BY <1>5 DEF MakeRoom
  <2>2. CASE writer[w].ops = <<>>
    <3>1. writer'[w].pc = "idle"
      BY <1>1, <1>5, <2>2 DEF MakeRoom, WriterState
    <3> QED  BY <1>2, <1>3, <2>1, <2>2, <3>1
  <2>3. CASE writer[w].ops # <<>>
    <3>1. /\ writer'[w].ops = writer[w].ops
          /\ writer[w].pc \in {"begin", "applied"}
          /\ writer'[w].pc = IF writer[w].pc = "begin" THEN "append"
                             ELSE "apply"
      BY <1>1, <1>5, <2>3 DEF MakeRoom, WriterState
    <3> QED  BY <1>2, <1>3, <2>1, <3>1
  <2> QED  BY <2>2, <2>3
<1>6. CASE WaitForRoom(w)
  BY <1>2, <1>3, <1>6 DEF WaitForRoom
<1>7. CASE Apply(w)
  <2>1. /\ writer[w].pc = "apply" /\ writer'[w].pc = "applied"
        /\ writer'[w].ops = Tail(writer[w].ops)
        /\ log' = Append(log, Head(writer[w].ops))
    BY <1>1, <1>7 DEF Apply, WriterState
  <2>2. writer[w].ops \in Seq(Op) /\ writer[w].ops # <<>>
    BY <1>1, <2>1 DEF WriterState
  <2>3. PICK a \in Seq(Op), b \in Seq(Op) :
          a = log /\ b = writer[w].ops /\ b # <<>>
    BY <1>1, <2>2
  <2>4. Hist = a \o b
    BY <1>2, <2>1, <2>3 DEF Hist
  <2>5. Hist' = Append(a, Head(b)) \o Tail(b)
    BY <1>2, <2>1, <2>3 DEF Hist
  <2> QED  BY <2>3, <2>4, <2>5, HistMoves
<1> QED  BY <1>4, <1>5, <1>6, <1>7

LEMMA HistUnmoved ==
  ASSUME UNCHANGED <<log, writer>>
  PROVE  Hist' = Hist
BY DEF Hist, Logged

\* The history h and the WAL t go on where those there were end.
GoesOn(h, t) ==
  /\ Len(t) <= Len(h)
  /\ \A i \in 1 .. Len(t) : t[i] = RecordOf(h, Len(h) - Len(t) + i)
  /\ \A i \in 1 .. Len(log) : h[i] = log[i]
  /\ \A i \in 1 .. Len(wal) : i \in 1 .. Len(t) /\ t[i] = wal[i]
  /\ \A e \in 1 .. Len(h) :
       e <= Len(log) \/ \E i \in 1 .. Len(t) : t[i] = RecordOf(h, e)

LEMMA TailGrows ==
  ASSUME TypeOK, DiskTypeOK, WalTail, Logged = <<>>, NEW ops \in Seq(Op)
  PROVE  GoesOn(log \o ops, wal \o WalRecords(ops))
<1> DEFINE r == WalRecords(ops)
<1>0. PICK h, t : h = log \o ops /\ t = wal \o WalRecords(ops)
  OBVIOUS
<1>1. /\ log \in Seq(Op) /\ Len(log) \in Nat /\ wal \in Seq(WalRecord)
      /\ Len(wal) \in Nat /\ Len(ops) \in Nat
  BY DEF TypeOK, WritesTypeOK, DiskTypeOK
<1>2. /\ Len(h) = Len(log) + Len(ops)
      /\ \A i \in 1 .. Len(log) : h[i] = log[i]
      /\ \A i \in 1 .. Len(ops) : h[Len(log) + i] = ops[i]
  BY <1>0, <1>1
<1>3. /\ r \in Seq(WalRecord) /\ Len(r) = Len(ops)
      /\ \A i \in 1 .. Len(ops) : r[i] = RecordOf(h, Len(log) + i)
  <2>1. ASSUME NEW i \in 1 .. Len(ops)
        PROVE  [op |-> ops[i], at |-> Len(log) + i] \in WalRecord
    <3>1. ops[i] \in Op /\ Len(log) + i \in Nat \ {0}
      BY <1>1
    <3> QED  BY <3>1 DEF WalRecord
  <2>2. r = [i \in 1 .. Len(ops) |-> [op |-> ops[i], at |-> Len(log) + i]]
    BY DEF WalRecords
  <2> HIDE DEF r
  <2>3. r \in Seq(WalRecord) /\ Len(r) = Len(ops)
    BY <1>1, <2>1, <2>2
  <2>4. ASSUME NEW i \in 1 .. Len(ops) PROVE r[i] = RecordOf(h, Len(log) + i)
    <3>1. r[i] = [op |-> ops[i], at |-> Len(log) + i]
      BY <2>2
    <3>2. ops[i] = h[Len(log) + i]
      BY <1>2
    <3> QED  BY <3>1, <3>2, Zenon DEF RecordOf
  <2> QED  BY <2>3, <2>4
<1> HIDE DEF r
<1>4. /\ Len(wal) <= Len(log)
      /\ \A i \in 1 .. Len(wal) :
           wal[i] = RecordOf(log, Len(log) - Len(wal) + i)
  <2>1. Hist = log
    BY <1>1 DEF Hist
  <2> QED  BY <2>1 DEF WalTail
<1>5. /\ Len(t) = Len(wal) + Len(ops)
      /\ \A i \in 1 .. Len(wal) + Len(ops) :
           t[i] = IF i <= Len(wal) THEN wal[i] ELSE r[i - Len(wal)]
  <2>1. t = wal \o r
    BY <1>0 DEF r
  <2>2. wal \in Seq(WalRecord) /\ r \in Seq(WalRecord)
    BY <1>1, <1>3
  <2>3. /\ Len(wal \o r) = Len(wal) + Len(r)
        /\ \A i \in 1 .. Len(wal) + Len(r) :
             (wal \o r)[i] = IF i <= Len(wal) THEN wal[i] ELSE r[i - Len(wal)]
    BY ONLY <2>2, ConcatProperties
  <2>4. Len(r) = Len(ops)
    BY <1>3
  <2> QED  BY ONLY <2>1, <2>3, <2>4
<1>6. PICK m \in Nat, n \in Nat, j \in Nat :
        m = Len(log) /\ n = Len(wal) /\ j = Len(ops) /\ n <= m
  BY <1>1, <1>4
<1>7. Len(h) = m + j /\ Len(t) = n + j
  BY <1>2, <1>5, <1>6
<1>8. ASSUME NEW i \in 1 .. n + j
      PROVE  t[i] = RecordOf(h, m - n + i)
  <2>1. CASE i <= n
    <3>1. i \in 1 .. n /\ m - n + i \in 1 .. m
      BY <1>6, <2>1
    <3>2. t[i] = wal[i] /\ wal[i] = RecordOf(log, m - n + i)
      BY <1>4, <1>5, <1>6, <2>1, <3>1
    <3>3. log[m - n + i] = h[m - n + i]
      BY <1>2, <1>6, <3>1
    <3> QED  BY <3>2, <3>3, Zenon DEF RecordOf
  <2>2. CASE i > n
    <3>1. i - n \in 1 .. j /\ m + (i - n) = m - n + i /\ ~(i <= n)
      BY <1>6, <2>2
    <3>2. t[i] = r[i - n]
      BY <1>5, <1>6, <3>1
    <3>3. r[i - n] = RecordOf(h, m + (i - n))
      BY <1>3, <1>6, <3>1
    <3> QED  BY <3>1, <3>2, <3>3
  <2>3. i <= n \/ i > n
    BY <1>6
  <2> QED  BY <2>1, <2>2, <2>3
<1>9. m + j - (n + j) = m - n
  BY <1>6
<1>10. ASSUME NEW e \in 1 .. m + j, ~(e <= m)
       PROVE  \E i \in 1 .. n + j : t[i] = RecordOf(h, e)
  <2>1. e - m + n \in 1 .. n + j /\ m - n + (e - m + n) = e
    BY <1>6, <1>10
  <2>2. t[e - m + n] = RecordOf(h, m - n + (e - m + n))
    BY <1>8, <2>1
  <2> QED  BY <2>1, <2>2
<1>11. \A i \in 1 .. n : i \in 1 .. n + j /\ i <= n
  BY <1>6
<1>12. \A i \in 1 .. Len(t) : t[i] = RecordOf(h, Len(h) - Len(t) + i)
  BY <1>7, <1>8, <1>9
<1>13. \A e \in 1 .. Len(h) :
         e <= Len(log) \/ \E i \in 1 .. Len(t) : t[i] = RecordOf(h, e)
  BY <1>6, <1>7, <1>10
<1>14. Len(t) <= Len(h)
  BY <1>6, <1>7
<1>15. \A i \in 1 .. Len(wal) : i \in 1 .. Len(t) /\ t[i] = wal[i]
  BY <1>5, <1>6, <1>7, <1>11
<1> QED  BY <1>0, <1>2, <1>12, <1>13, <1>14, <1>15 DEF GoesOn

LEMMA LoggedCall ==
  ASSUME TypeOK, DiskTypeOK, NEW w \in Writers, LogCall(w)
  PROVE  \E ops \in Seq(Op) :
           /\ Logged = <<>> /\ log' = log /\ Hist' = log \o ops
           /\ wal' = wal \o WalRecords(ops)
<1> DEFINE ops == writer[w].ops
<1>1. /\ wal' = wal \o WalRecords(ops) /\ log' = log
      /\ writer[w].pc = "append"
      /\ writer' = [writer EXCEPT ![w].pc = "apply"]
  BY NoFaults DEF LogCall, AppendToWal
<1>2. writer \in [Writers -> WriterState] /\ writer[w] \in WriterState
  BY DEF TypeOK, WritesTypeOK
<1>3. writer'[w].pc = "apply" /\ writer'[w].ops = ops /\ ops \in Seq(Op)
  BY <1>1, <1>2 DEF WriterState
<1>4. Logged = <<>> /\ Logged' = ops
  BY <1>1, <1>3, LoggedIs
<1> HIDE DEF ops
<1> QED  BY <1>1, <1>3, <1>4 DEF Hist

\* What a step of the running engine does to the history and to the WAL.
LEMMA LiveHist ==
  ASSUME TypeOK, DiskTypeOK,
         \/ \E w \in Writers : LogCall(w) \/ Return(w)
         \/ Publish \/ Commit \/ InMemory
  PROVE  \/ Hist' = Hist /\ wal' = wal
         \/ Hist' = Hist /\ wal' = <<>> /\ Publish
         \/ \E ops \in Seq(Op) :
              /\ Logged = <<>> /\ log' = log /\ Hist' = log \o ops
              /\ wal' = wal \o WalRecords(ops)
              /\ UNCHANGED <<rotated, live, sst>>
<1>1. ASSUME NEW w \in Writers, LogCall(w)
      PROVE  \E ops \in Seq(Op) :
              /\ Logged = <<>> /\ log' = log /\ Hist' = log \o ops
              /\ wal' = wal \o WalRecords(ops)
              /\ UNCHANGED <<rotated, live, sst>>
  <2>1. UNCHANGED <<rotated, live, sst>>
    BY <1>1 DEF LogCall, AppendToWal, versionVars
  <2> QED  BY <1>1, <2>1, LoggedCall
<1>2. ASSUME NEW w \in Writers, Return(w)
      PROVE  Hist' = Hist /\ wal' = wal
  BY <1>2, HistKept DEF Return
<1>3. CASE Publish
  BY <1>3, HistUnmoved DEF Publish, FlushPublish, memVars
<1>4. CASE Commit
  BY <1>4, HistUnmoved DEF Commit, CompactCommit, memVars
<1>5. CASE InMemory
  <2>1. wal' = wal
    BY <1>5 DEF InMemory, diskVars
  <2>2. CASE \E w \in Writers :
               \/ \E ops \in Batches : Begin(w, ops)
               \/ WaitForRoom(w) \/ Apply(w)
    BY <2>1, <2>2, HistKept
  <2>3. CASE \/ UserFlush \/ FlushTake \/ FlushBuild \/ FlushSchedule
             \/ BackgroundCompact
             \/ (\E cleanup \in BOOLEAN : UserCompact(cleanup))
             \/ CleanupObsoleteFiles \/ CompactRead \/ CompactWrite
    <3>1. UNCHANGED <<log, writer>>
      BY <2>3, Zenon DEF UserFlush, FlushTake, FlushBuild, FlushSchedule,
            BackgroundCompact, UserCompact, CleanupObsoleteFiles, CompactRead,
            CompactWrite, memVars
    <3> QED  BY <2>1, <3>1, HistUnmoved
  <2> QED  BY <1>5, <2>2, <2>3 DEF InMemory
<1> QED  BY <1>1, <1>2, <1>3, <1>4, <1>5

LEMMA TailKept ==
  ASSUME WalTail, Hist' = Hist, wal' = wal
  PROVE  WalTail'
BY DEF WalTail

LEMMA LiveTail ==
  ASSUME TypeOK, DiskTypeOK, WalTail,
         \/ \E w \in Writers : LogCall(w) \/ Return(w)
         \/ Publish \/ Commit \/ InMemory
  PROVE  WalTail'
<1>1. ASSUME NEW ops \in Seq(Op), Logged = <<>>, Hist' = log \o ops,
             wal' = wal \o WalRecords(ops)
      PROVE  WalTail'
  <2>1. GoesOn(Hist', wal')
    BY <1>1, TailGrows
  <2> QED  BY <2>1 DEF GoesOn, WalTail
<1>2. ASSUME Hist' = Hist, wal' = <<>> PROVE WalTail'
  BY <1>2, HistIs DEF WalTail
<1> QED  BY <1>1, <1>2, TailKept, LiveHist
-----------------------------------------------------------------------------
(* The running engine.                                                     *)

LiveStep ==
  \/ \E w \in Writers : LogCall(w) \/ Return(w)
  \/ Publish \/ Commit \/ InMemory

\* The steps of the pipeline it takes: no call fails, no rule is set.
LEMMA LiveActs ==
  ASSUME LiveStep
  PROVE  \/ \E w \in Writers : Write(w)
         \/ UserFlush
         \/ FlushTake \/ FlushBuild \/ FlushPublish \/ FlushSchedule
         \/ BackgroundCompact \/ (\E cleanup \in BOOLEAN : UserCompact(cleanup))
         \/ CleanupObsoleteFiles \/ CompactRead \/ CompactWrite
         \/ CompactCommit
BY Zenon DEF LiveStep, LogCall, Return, Publish, Commit, InMemory, Write

LEMMA LiveUndisturbed ==
  ASSUME TypeOK, Undisturbed, LiveStep
  PROVE  Undisturbed'
<1>1. ~Fail
  BY NoFaults
<1>2. ASSUME UNCHANGED ttl, faults' = faults PROVE Undisturbed'
  BY <1>2 DEF Undisturbed
<1>3. ASSUME NEW w \in Writers, Write(w) PROVE Undisturbed'
  <2>1. CASE Apply(w)
    <3>1. /\ writer[w] \in WriterState /\ writer[w].ops # <<>>
          /\ ttl \in [Measurements -> TtlRule]
      BY <2>1 DEF TypeOK, WritesTypeOK, TtlMap, WriterState, Apply
    <3>2. PICK op : op = Head(writer[w].ops)
      OBVIOUS
    <3>3. faults' = faults
          /\ ttl' = [ttl EXCEPT ![op.key[1]].latest =
                       IF op.key[2] > @ THEN op.key[2] ELSE @]
      BY <2>1, <3>2 DEF Apply
    <3>4. \A m \in Measurements : ttl'[m].ttl = ttl[m].ttl
      BY <3>1, <3>3 DEF TtlRule
    <3> QED  BY <3>3, <3>4 DEF Undisturbed
  <2>2. CASE \/ \E ops \in Batches : Begin(w, ops)
             \/ MakeRoom(w) \/ WaitForRoom(w) \/ AppendToWal(w)
    BY <1>1, <1>2, <2>2 DEF Begin, MakeRoom, WaitForRoom, AppendToWal
  <2> QED  BY <1>3, <2>1, <2>2 DEF Write
<1>4. CASE UserFlush \/ FlushTake \/ FlushBuild \/ FlushPublish \/ FlushSchedule
  BY <1>1, <1>2, <1>4 DEF UserFlush, FlushTake, FlushBuild, FlushPublish,
                          FlushSchedule
<1>5. CASE \/ BackgroundCompact
           \/ (\E cleanup \in BOOLEAN : UserCompact(cleanup))
           \/ CleanupObsoleteFiles \/ CompactRead \/ CompactWrite
           \/ CompactCommit
  BY <1>1, <1>2, <1>5 DEF BackgroundCompact, UserCompact, CompactRead,
                  CleanupObsoleteFiles, CompactWrite, CompactCommit
<1> QED  BY <1>3, <1>4, <1>5, LiveActs

\* mu_ is kept from the append to the last insert, but for the waits.
LEMMA LiveLock ==
  ASSUME TypeOK, LockInv, LiveStep
  PROVE  LockInv'
<1>1. ASSUME UNCHANGED <<writer, lock>> PROVE LockInv'
  BY <1>1 DEF LockInv
<1>2. ASSUME NEW w \in Writers, Write(w) PROVE LockInv'
  <2>1. /\ writer \in [Writers -> WriterState] /\ writer[w] \in WriterState
        /\ \A v \in Writers : v = w
    BY TheWriter DEF TypeOK, WritesTypeOK
  <2>2. ASSUME lock' = w \/ writer'[w].pc \notin {"append", "apply"}
        PROVE  LockInv'
    BY <2>1, <2>2 DEF LockInv
  <2>3. CASE \E ops \in Batches : Begin(w, ops)
    <3>1. writer'[w].pc = "begin"
      BY <2>1, <2>3 DEF Begin
    <3> QED  BY <2>2, <3>1
  <2>4. CASE MakeRoom(w)
    <3>1. CASE writer[w].ops = <<>>
      <4>1. writer'[w].pc = "idle"
        BY <2>1, <2>4, <3>1 DEF MakeRoom, WriterState
      <4> QED  BY <2>2, <4>1
    <3>2. CASE writer[w].ops # <<>>
      BY <2>2, <2>4, <3>2 DEF MakeRoom
    <3> QED  BY <3>1, <3>2
  <2>5. CASE WaitForRoom(w)
    <3>1. writer'[w].pc = "applied"
      BY <2>5 DEF WaitForRoom
    <3> QED  BY <2>2, <3>1
  <2>6. CASE AppendToWal(w)
    <3>1. lock' = lock /\ writer[w].pc = "append"
      BY <2>6, NoFaults DEF AppendToWal
    <3>2. lock = w
      BY <3>1 DEF LockInv
    <3> QED  BY <2>2, <3>1, <3>2
  <2>7. CASE Apply(w)
    <3>1. writer'[w].pc = "applied"
      BY <2>1, <2>7 DEF Apply
    <3> QED  BY <2>2, <3>1
  <2> QED  BY <1>2, <2>3, <2>4, <2>5, <2>6, <2>7 DEF Write
<1>3. CASE UserFlush \/ FlushTake \/ FlushBuild \/ FlushPublish \/ FlushSchedule
  BY <1>1, <1>3 DEF UserFlush, FlushTake, FlushBuild, FlushPublish,
                    FlushSchedule, memVars
<1>4. CASE \/ BackgroundCompact
           \/ (\E cleanup \in BOOLEAN : UserCompact(cleanup))
           \/ CleanupObsoleteFiles \/ CompactRead \/ CompactWrite
           \/ CompactCommit
  BY <1>1, <1>4, Zenon DEF BackgroundCompact, UserCompact, CompactRead,
                  CleanupObsoleteFiles, CompactWrite, CompactCommit, memVars
<1> QED  BY <1>2, <1>3, <1>4, LiveActs

\* A table that is as filled as it was.
LEMMA StillFilled ==
  ASSUME TypeOK, FilledInv, \A f \in Files : sst'[f] = sst[f],
         Files' = Files, UNCHANGED <<heap, usage>>,
         {imm', flush'.table} \subseteq {imm, flush.table, 0}
  PROVE  FilledInv'
<1>1. \A f \in Files' : Filled(sst'[f])
  BY DEF FilledInv
<1>2. ASSUME NEW t \in {imm', flush'.table}, t # 0 PROVE Filled(heap'[t])
  BY <1>2 DEF FilledInv
<1> QED  BY <1>1, <1>2 DEF FilledInv, Filled

LEMMA NewFileFilled ==
  ASSUME TypeOK, FilledInv, NEW c, Filled(c), sst' = Append(sst, c),
         UNCHANGED <<heap, usage, imm>>, flush'.table = flush.table
  PROVE  FilledInv'
<1>1. sst \in Seq(Content) /\ Len(sst) \in Nat
  BY DEF TypeOK, TablesTypeOK
<1>2. \A f \in Files' : f \in Files \/ f = Len(sst) + 1
  BY <1>1 DEF Files
<1>3. \A f \in Files : sst'[f] = sst[f]
  BY <1>1 DEF Files
<1>4. sst'[Len(sst) + 1] = c
  BY <1>1
<1>5. \A f \in Files' : Filled(sst'[f])
  BY <1>2, <1>3, <1>4 DEF FilledInv
<1> QED  BY <1>5 DEF FilledInv, Filled

LEMMA RotateFilled ==
  ASSUME TypeOK, OrderInv, FilledInv, Rotate, Filled(heap[Len(heap)]),
         UNCHANGED <<sst, flush>>
  PROVE  FilledInv'
<1>1. /\ heap \in Seq(Content) /\ Len(heap) \in Nat \ {0}
      /\ heap' = Append(heap, Nothing) /\ imm' = Len(heap) /\ usage' = 0
  BY DEF Rotate, TypeOK, TablesTypeOK
<1>2. \A t \in 1 .. Len(heap) : heap'[t] = heap[t]
  BY <1>1
<1>3. flush.table \in 0 .. Len(heap)
  BY DEF TypeOK, TablesTypeOK, FlushState
<1>4. Filled(heap'[imm'])
  BY <1>1, <1>2
<1>5. flush'.table # 0 => Filled(heap'[flush'.table])
  BY <1>1, <1>2, <1>3 DEF FilledInv
<1>6. \A f \in Files' : Filled(sst'[f])
  BY DEF FilledInv, Files
<1>7. ~(usage' > 0)
  BY <1>1
<1> QED  BY <1>4, <1>5, <1>6, <1>7 DEF FilledInv, Filled

LEMMA ApplyFilled ==
  ASSUME TypeOK, OrderInv, FilledInv, NEW w \in Writers, Apply(w)
  PROVE  FilledInv'
<1>1. /\ heap \in Seq(Content) /\ Len(heap) \in Nat \ {0}
      /\ Len(log) \in Nat /\ heap[Len(heap)] \in Content
  BY DEF TypeOK, TablesTypeOK, WritesTypeOK
<1>2. PICK op \in Op : op = Head(writer[w].ops)
  BY ApplyType
<1>3. op.key \in Key
  BY <1>2, SMTT(20) DEF Op
<1>4. /\ heap' = [heap EXCEPT ![Len(heap)][op.key] = Len(log) + 1]
      /\ UNCHANGED <<sst, imm, flush>>
  BY <1>2 DEF Apply, versionVars
<1>5. Len(heap') = Len(heap) /\ heap'[Len(heap)][op.key] # 0
      /\ \A t \in 1 .. Len(heap) : t # Len(heap) => heap'[t] = heap[t]
  BY <1>1, <1>3, <1>4 DEF Content
<1>6. imm < Len(heap) /\ flush.table < Len(heap) /\ imm \in Nat
      /\ flush.table \in Nat
  BY DEF OrderInv, IndexInv, TypeOK, TablesTypeOK, FlushState
<1>7. imm' # 0 => Filled(heap'[imm'])
  <2>1. ASSUME imm # 0 PROVE heap'[imm] = heap[imm]
    BY <1>1, <1>5, <1>6, <2>1
  <2> QED  BY <1>4, <2>1 DEF FilledInv
<1>8. flush'.table # 0 => Filled(heap'[flush'.table])
  <2>1. ASSUME flush.table # 0 PROVE heap'[flush.table] = heap[flush.table]
    BY <1>1, <1>5, <1>6, <2>1
  <2> QED  BY <1>4, <2>1 DEF FilledInv
<1>9. \A f \in Files' : Filled(sst'[f])
  BY <1>4 DEF FilledInv, Files
<1>10. Filled(heap'[Len(heap')])
  BY <1>3, <1>5 DEF Filled
<1> QED  BY <1>7, <1>8, <1>9, <1>10 DEF FilledInv, Filled

LEMMA LiveFilled ==
  ASSUME TypeOK, OrderInv, FilledInv, LiveStep
  PROVE  FilledInv'
<1>1. \A c \in Content : c # Nothing => Filled(c)
  <2> SUFFICES ASSUME NEW c \in Content, ~Filled(c) PROVE c = Nothing
    OBVIOUS
  <2> QED  BY DEF Content, Nothing, Filled
<1>2. heap[Len(heap)] \in Content /\ heap # <<>>
  BY DEF TypeOK, TablesTypeOK
<1>3. ASSUME UNCHANGED <<heap, usage, sst>>,
             {imm', flush'.table} \subseteq {imm, flush.table, 0}
      PROVE  FilledInv'
  BY <1>3, StillFilled DEF Files
<1>4. ASSUME NEW w \in Writers, Write(w) PROVE FilledInv'
  <2>1. CASE MakeRoom(w)
    <3>1. CASE MemTableFull
      <4>1. Rotate /\ UNCHANGED <<sst, flush>>
        BY <2>1, <3>1 DEF MakeRoom, versionVars
      <4>2. usage > 0
        BY <3>1, LimitsAssumption DEF MemTableFull, TypeOK, TablesTypeOK
      <4> QED  BY <4>1, <4>2, RotateFilled DEF FilledInv
    <3>2. CASE ~MemTableFull
      <4>1. UNCHANGED <<heap, usage, imm, sst, flush>>
        BY <2>1, <3>2 DEF MakeRoom, versionVars
      <4> QED  BY <1>3, <4>1
    <3> QED  BY <3>1, <3>2
  <2>2. CASE \/ \E ops \in Batches : Begin(w, ops)
             \/ WaitForRoom(w) \/ AppendToWal(w)
    <3>1. UNCHANGED <<heap, usage, imm, sst, flush>>
      BY <2>2 DEF Begin, WaitForRoom, AppendToWal, versionVars
    <3> QED  BY <1>3, <3>1
  <2> QED  BY <1>4, <2>1, <2>2, ApplyFilled DEF Write
<1>5. CASE UserFlush
  <2>1. Rotate /\ UNCHANGED <<sst, flush>> /\ heap[Len(heap)] # Nothing
    BY <1>5 DEF UserFlush, versionVars
  <2> QED  BY <1>1, <1>2, <2>1, RotateFilled
<1>6. CASE FlushTake
  <2>1. UNCHANGED <<heap, usage, sst>> /\ imm' = 0 /\ flush'.table = imm
    BY <1>6 DEF FlushTake, versionVars
  <2> QED  BY <1>3, <2>1
<1>7. CASE FlushBuild
  <2>1. /\ sst' = Append(sst, heap[flush.table])
        /\ UNCHANGED <<heap, usage, imm>>
        /\ flush.pc = "build"
    BY <1>7 DEF FlushBuild, memVars
  <2>2. flush'.table = flush.table
    BY <1>7, NoFaults DEF FlushBuild, TypeOK, TablesTypeOK, FlushState
  <2>3. flush.table # 0
    BY <2>1 DEF TypeOK, TablesTypeOK, FlushState
  <2>4. Filled(heap[flush.table])
    BY <2>3 DEF FilledInv
  <2>5. PICK c : c = heap[flush.table]
    OBVIOUS
  <2> QED  BY <2>1, <2>2, <2>4, <2>5, NewFileFilled
<1>8. CASE FlushPublish \/ FlushSchedule
  <2>1. UNCHANGED <<heap, usage, imm, sst>>
    BY <1>8 DEF FlushPublish, FlushSchedule, memVars, versionVars
  <2>2. CASE FlushPublish
    <3>1. flush'.table = 0
      BY <2>2 DEF FlushPublish
    <3> QED  BY <1>3, <2>1, <3>1
  <2>3. CASE FlushSchedule
    <3>1. flush'.table = flush.table
      BY <2>3 DEF FlushSchedule, TypeOK, TablesTypeOK, FlushState
    <3> QED  BY <1>3, <2>1, <3>1
  <2> QED  BY <1>8, <2>2, <2>3
<1>9. CASE CompactWrite
  <2>1. PICK P \in (SUBSET job.left) \ {{}} :
          sst' = Append(sst,
                        [k \in Key |-> IF k \in P THEN job.merged[k] ELSE 0])
    BY <1>9 DEF CompactWrite
  <2>2. UNCHANGED <<heap, usage, imm, flush>> /\ job.pc = "write"
    BY <1>9 DEF CompactWrite, memVars
  <2>3. job.left \subseteq KeysHeld(job.merged)
    BY <2>2 DEF OrderInv, OutputsInv
  <2>4. PICK c : c = [k \in Key |-> IF k \in P THEN job.merged[k] ELSE 0]
    OBVIOUS
  <2>5. PICK k \in P : TRUE
    <3>1. P # {}
      BY <2>1
    <3> QED  BY <3>1
  <2>6. k \in Key /\ job.merged[k] # 0
    BY <2>1, <2>3, <2>5 DEF KeysHeld
  <2>7. Filled(c)
    BY <2>4, <2>5, <2>6 DEF Filled
  <2>8. sst' = Append(sst, c)
    BY <2>1, <2>4
  <2> QED  BY <2>2, <2>7, <2>8, NewFileFilled
<1>10. CASE \/ BackgroundCompact
            \/ (\E cleanup \in BOOLEAN : UserCompact(cleanup))
            \/ CleanupObsoleteFiles \/ CompactRead \/ CompactCommit
  <2>1. UNCHANGED <<heap, usage, imm, sst, flush>>
    BY <1>10, Zenon DEF BackgroundCompact, UserCompact, CompactRead,
                    CleanupObsoleteFiles, CompactCommit, memVars, versionVars
  <2> QED  BY <1>3, <2>1
<1> QED  BY <1>4, <1>5, <1>6, <1>7, <1>8, <1>9, <1>10, LiveActs

LEMMA LiveAcked ==
  ASSUME TypeOK, AckedInv, LiveStep
  PROVE  AckedInv'
<1>1. Len(log) \in Nat
  BY DEF TypeOK, WritesTypeOK
<1>2. ASSUME UNCHANGED <<log, acked, called>> PROVE AckedInv'
  BY <1>2 DEF AckedInv
<1>3. ASSUME NEW w \in Writers, LogCall(w) PROVE AckedInv'
  <2>1. called' = Len(log) + 1 /\ acked' = acked /\ log' = log
    BY <1>3 DEF LogCall, AppendToWal
  <2>2. Len(log) + 1 \in Nat \ {0}
    BY <1>1
  <2> QED  BY <2>1, <2>2 DEF AckedInv
<1>4. ASSUME NEW w \in Writers, Return(w) PROVE AckedInv'
  <2>1. /\ acked' \in {acked, acked \cup (called .. Len(log))}
        /\ called' = called /\ log' = log
    BY <1>4 DEF Return, MakeRoom
  <2>2. called .. Len(log) \subseteq 1 .. Len(log)
    BY <1>1 DEF AckedInv
  <2> QED  BY <2>1, <2>2 DEF AckedInv
<1>5. CASE Publish \/ Commit
  BY <1>2, <1>5 DEF Publish, Commit, FlushPublish, CompactCommit, memVars
<1>6. CASE InMemory
  <2>1. acked' = acked /\ called' = called
    BY <1>6 DEF InMemory, diskVars
  <2>2. ASSUME NEW w \in Writers, Apply(w) PROVE AckedInv'
    <3>1. Len(log') = Len(log) + 1
      BY <2>2, ApplyType
    <3>2. 1 .. Len(log) \subseteq 1 .. Len(log')
      BY <1>1, <3>1
    <3> QED  BY <2>1, <3>2 DEF AckedInv
  <2>3. ASSUME NEW w \in Writers,
               (\E ops \in Batches : Begin(w, ops)) \/ WaitForRoom(w)
        PROVE  AckedInv'
    BY <1>2, <2>1, <2>3 DEF Begin, WaitForRoom
  <2>4. CASE \/ UserFlush \/ FlushTake \/ FlushBuild \/ FlushSchedule
             \/ BackgroundCompact
             \/ (\E cleanup \in BOOLEAN : UserCompact(cleanup))
             \/ CleanupObsoleteFiles \/ CompactRead \/ CompactWrite
    <3>1. log' = log
      BY <2>4, Zenon DEF UserFlush, FlushTake, FlushBuild, FlushSchedule,
            BackgroundCompact, UserCompact, CleanupObsoleteFiles, CompactRead,
            CompactWrite, memVars
    <3> QED  BY <1>2, <2>1, <3>1
  <2> QED  BY <1>6, <2>2, <2>3, <2>4 DEF InMemory
<1> QED  BY <1>3, <1>4, <1>5, <1>6 DEF LiveStep

\* A job has inputs: a level is picked because it has files.
LEMMA PickedHasFiles ==
  ASSUME TypeOK, NEW force, NEW l \in Levels, CompactLevel(force, l)
  PROVE  live[l] # {}
<1>1. CASE l = 0
  BY <1>1 DEF CompactLevel, CompactL0
<1>2. CASE l # 0
  <2> SUFFICES ASSUME live[l] = {} PROVE FALSE
    OBVIOUS
  <2>1. LevelSize(live, l) > LevelSizeBase * 2^l
    BY <1>2 DEF CompactLevel, OverLimit
  <2>2. LevelSize(live, l) = 0
    <3>1. {e \in live[l] \X Key : sst[e[1]][e[2]] # 0} = {}
      OBVIOUS
    <3> QED  BY <3>1, FS_EmptySet DEF LevelSize
  <2>3. l \in 0 .. MaxLevel
    BY LimitsAssumption DEF Levels
  <2>4. PICK n \in Nat : n = 2^l
    BY <2>3, PowersAssumption
  <2>5. LevelSizeBase \in Nat
    BY LimitsAssumption
  <2>6. LevelSizeBase * n \in Nat
    BY <2>4, <2>5
  <2> QED  BY <2>1, <2>2, <2>4, <2>6
<1> QED  BY <1>1, <1>2

LEMMA StartedHasInputs ==
  ASSUME TypeOK, NEW force, NEW l \in Levels, CompactLevel(force, l),
         NEW background, NEW cleanup, StartJob(l, background, cleanup)
  PROVE  job'.upper # {}
<1>1. job'.upper = live[l]
  BY DEF StartJob, NoJob
<1> QED  BY <1>1, PickedHasFiles

\* A commit puts files into the version.
LEMMA CommitHasOutputs ==
  ASSUME TypeOK, OrderInv, MergedInv, NothingLost, FilledInv,
         job.pc = "write", job.left = {}, job.upper # {}
  PROVE  job.out # {}
<1>1. PICK f \in Files : f \in job.upper
  BY NamedFiles
<1>2. PICK k \in Key : sst[f][k] # 0
  BY <1>1 DEF FilledInv, Filled
<1>3. sst \in Seq(Content) /\ job.merged \in Content /\ Len(log) \in Nat
  BY DEF TypeOK, TablesTypeOK, JobTypeOK, JobState, WritesTypeOK
<1>4. sst[f][k] \in Nat /\ job.merged[k] \in Nat
  BY <1>1, <1>3 DEF Content, Files
<1>5. sst[f][k] <= job.merged[k]
  <2>1. f \in Compacting /\ sst[f][k] \notin job.lost
    BY <1>1, <1>2 DEF Compacting, NothingLost
  <2> QED  BY <2>1 DEF MergedInv
<1>6. k \in KeysHeld(job.merged)
  BY <1>2, <1>4, <1>5 DEF KeysHeld
<1>7. job.left = KeysHeld(job.merged) \ KeysOf(job.out)
  BY DEF OrderInv, OutputsInv
<1>8. k \in KeysOf(job.out)
  BY <1>6, <1>7
<1> QED  BY <1>8 DEF KeysOf

\* The edit of a compaction: each version of the old files is in the new
\* ones, or a later version of the same key is.
LEMMA EditCovers ==
  ASSUME TypeOK, OrderInv, MergedInv, NothingLost,
         job.pc = "write", job.left = {},
         NEW F, F = Edited(live, job.upper, job.lower, job.level, job.out),
         NEW l \in Levels, NEW f \in live[l], NEW k \in Key, sst[f][k] # 0
  PROVE  \E i \in Levels : \E g \in F[i] : sst[f][k] <= sst[g][k]
<1> DEFINE L == job.level
<1>1. /\ L \in Levels /\ L + 1 \in Levels /\ L # L + 1
      /\ live \in [Levels -> SUBSET Files] /\ job.out \subseteq Files
  BY NamedFiles DEF Levels, TypeOK, VersionTypeOK, LevelFiles, FileNumbers
<1>2. /\ F[L] = live[L] \ job.upper
      /\ F[L + 1] = (live[L + 1] \ job.lower) \cup job.out
      /\ \A i \in Levels : i # L /\ i # L + 1 => F[i] = live[i]
  BY <1>1 DEF Edited
<1> HIDE DEF L
<1>3. /\ sst \in Seq(Content) /\ job.merged \in Content /\ Len(log) \in Nat
      /\ f \in Files
  BY <1>1 DEF TypeOK, TablesTypeOK, JobTypeOK, JobState, WritesTypeOK
<1>4. sst[f][k] \in Nat /\ job.merged[k] \in Nat
  BY <1>3 DEF Content, Files
<1>5. CASE f \in Compacting
  <2>1. sst[f][k] <= job.merged[k]
    <3>1. sst[f][k] \notin job.lost
      BY DEF NothingLost
    <3> QED  BY <1>5, <3>1 DEF MergedInv
  <2>2. k \in KeysHeld(job.merged)
    BY <1>4, <2>1 DEF KeysHeld
  <2>3. k \in KeysOf(job.out)
    BY <2>2 DEF OrderInv, OutputsInv
  <2>4. PICK g \in job.out : k \in KeysIn(g)
    BY <2>3 DEF KeysOf
  <2>5. sst[g][k] = job.merged[k]
    BY <2>4 DEF OrderInv, OutputsInv, KeysIn, KeysHeld
  <2>6. g \in F[L + 1]
    BY <1>2, <2>4
  <2> QED  BY <1>1, <2>1, <2>5, <2>6
<1>6. CASE f \notin Compacting
  <2>1. f \in F[l]
    BY <1>1, <1>2, <1>6 DEF Compacting
  <2>2. sst[f][k] <= sst[f][k]
    BY <1>4
  <2> QED  BY <2>1, <2>2
<1> QED  BY <1>5, <1>6

LEMMA LiveNonempty ==
  ASSUME TypeOK, OrderInv, MergedInv, NothingLost, FilledInv,
         NeverEmptied, LiveStep
  PROVE  NeverEmptied'
<1>0. /\ live \in [Levels -> SUBSET Files] /\ 0 \in Levels
      /\ job \in JobState
  BY NamedFiles DEF TypeOK, VersionTypeOK, LevelFiles, FileNumbers, JobTypeOK
<1>1. ASSUME job'.pc # "none" => job.pc # "none" /\ job'.upper = job.upper,
             live' = live, Condemned' \subseteq Condemned
      PROVE  NeverEmptied'
  BY <1>1 DEF NeverEmptied
<1>2. ASSUME NEW w \in Writers, Write(w) PROVE NeverEmptied'
  <2>1. UNCHANGED <<job, live, obsolete, pendingDelete>>
    BY <1>2, Zenon DEF Write, Begin, MakeRoom, WaitForRoom, AppendToWal, Apply,
                versionVars, jobVars
  <2> QED  BY <1>1, <2>1 DEF Condemned
<1>3. CASE UserFlush \/ FlushTake \/ FlushBuild \/ FlushSchedule
  <2>1. UNCHANGED <<job, live, obsolete, pendingDelete>>
    BY <1>3 DEF UserFlush, FlushTake, FlushBuild, FlushSchedule,
                versionVars, jobVars
  <2> QED  BY <1>1, <2>1 DEF Condemned
<1>4. CASE FlushPublish
  <2>1. job' = job /\ live' = [live EXCEPT ![0] = @ \cup {flush.file}]
    BY <1>4, NoFaults DEF FlushPublish, jobVars
  <2>2. flush.file \in live'[0]
    BY <1>0, <2>1
  <2>3. live' # NoFiles
    BY <1>0, <2>2 DEF NoFiles
  <2> QED  BY <2>1, <2>3 DEF NeverEmptied
<1>5. ASSUME live' = live, Condemned' \subseteq Condemned,
             NEW force, NEW l \in Levels, CompactLevel(force, l),
             NEW background, NEW cleanup, StartJob(l, background, cleanup)
      PROVE  NeverEmptied'
  <2>1. job'.upper # {}
    BY <1>5, StartedHasInputs
  <2> QED  BY <1>5, <2>1 DEF NeverEmptied
<1>6. CASE BackgroundCompact
  <2>1. live' = live /\ Condemned' \subseteq Condemned
    BY <1>6 DEF BackgroundCompact, versionVars, Condemned
  <2>2. CASE job' = job
    BY <1>1, <2>1, <2>2
  <2>3. CASE \E l \in Levels : CompactLevel(FALSE, l) /\ StartJob(l, TRUE, TRUE)
    BY <1>5, <2>1, <2>3
  <2> QED  BY <1>6, <2>2, <2>3 DEF BackgroundCompact
<1>7. ASSUME NEW cleanup \in BOOLEAN, UserCompact(cleanup) PROVE NeverEmptied'
  <2>1. live' = live /\ Condemned' \subseteq Condemned
    BY <1>7 DEF UserCompact, Condemned, TryDeletePending
  <2>2. CASE job' = job
    BY <1>1, <2>1, <2>2
  <2>3. CASE \E l \in Levels :
               CompactLevel(TRUE, l) /\ StartJob(l, FALSE, cleanup)
    BY <1>5, <2>1, <2>3
  <2> QED  BY <1>7, <2>2, <2>3 DEF UserCompact, jobVars
<1>8. CASE CleanupObsoleteFiles
  <2>1. live' = live /\ job' = job /\ Condemned' \subseteq Condemned
    BY <1>8 DEF CleanupObsoleteFiles, Cleanup, TryDeletePending, Condemned,
                jobVars
  <2> QED  BY <1>1, <2>1
<1>9. CASE CompactRead \/ CompactWrite
  <2>1. live' = live /\ Condemned' \subseteq Condemned
    BY <1>9 DEF CompactRead, CompactWrite, versionVars, Condemned
  <2>2. job.pc # "none" /\ job'.upper = job.upper
    BY <1>0, <1>9 DEF CompactRead, CompactWrite, JobState
  <2> QED  BY <1>1, <2>1, <2>2
<1>10. CASE CompactCommit
  <2>1. /\ job' = NoJob /\ job.pc = "write" /\ job.left = {}
        /\ live' = [live EXCEPT ![job.level] = @ \ job.upper,
                        ![job.level + 1] = (@ \ job.lower) \cup job.out]
    BY <1>10 DEF CompactCommit, EndJob, Finished
  <2>2. job.out # {}
    BY <2>1, CommitHasOutputs DEF NeverEmptied
  <2>3. job.level + 1 \in Levels /\ job.level # job.level + 1
    BY NamedFiles DEF Levels
  <2>4. live'[job.level + 1] # {}
    BY <1>0, <2>1, <2>2, <2>3
  <2>5. live' # NoFiles
    BY <2>3, <2>4 DEF NoFiles
  <2> QED  BY <2>1, <2>5 DEF NeverEmptied, NoJob
<1> QED  BY <1>2, <1>3, <1>4, <1>6, <1>7, <1>8, <1>9, <1>10, LiveActs

\* What a step of the running engine does to the version and to the records
\* that are rotated away, but for a flush and a compaction.
LEMMA LiveVersion ==
  ASSUME LiveStep
  PROVE  Publish \/ Commit \/ UNCHANGED <<live, rotated>>
<1>1. ASSUME NEW w \in Writers, LogCall(w) \/ Return(w)
      PROVE  UNCHANGED <<live, rotated>>
  BY <1>1, Zenon DEF LogCall, Return, AppendToWal, MakeRoom, versionVars
<1>2. CASE InMemory
  <2>1. rotated' = rotated
    BY <1>2 DEF InMemory, diskVars
  <2>2. live' = live
    <3>1. CASE \E w \in Writers : \/ \E ops \in Batches : Begin(w, ops)
                                  \/ WaitForRoom(w) \/ Apply(w)
      BY <3>1, Zenon DEF Begin, WaitForRoom, Apply, versionVars
    <3>2. CASE \/ UserFlush \/ FlushTake \/ FlushBuild \/ FlushSchedule
               \/ BackgroundCompact
               \/ (\E cleanup \in BOOLEAN : UserCompact(cleanup))
               \/ CleanupObsoleteFiles \/ CompactRead \/ CompactWrite
      BY <3>2, Zenon DEF UserFlush, FlushTake, FlushBuild, FlushSchedule,
            BackgroundCompact, UserCompact, CleanupObsoleteFiles, CompactRead,
            CompactWrite, versionVars
    <3> QED  BY <1>2, <3>1, <3>2 DEF InMemory
  <2> QED  BY <2>1, <2>2
<1> QED  BY <1>1, <1>2 DEF LiveStep

\* A flush: what its file holds need not be in the WAL any more, and what
\* else the WAL held is lost to it.
LEMMA PublishPersists ==
  ASSUME TypeOK, DiskTypeOK, OrderInv, VersionsInv, Persisted, up,
         Publish, Hist' = Hist, wal' = <<>>
  PROVE  Persisted'
<1>1. /\ live' = [live EXCEPT ![0] = @ \cup {flush.file}]
      /\ flush.pc = "publish" /\ UNCHANGED <<sst, up>>
      /\ rotated' = (rotated \cup {wal[i].at : i \in 1 .. Len(wal)})
                      \ Entries(sst[flush.file])
  BY NoFaults DEF Publish, Live, FlushPublish
<1>2. /\ live \in [Levels -> SUBSET Files] /\ 0 \in Levels
      /\ flush.file \in Files /\ Len(log) \in Nat
      /\ sst[flush.file] \in Content
  BY <1>1, NamedFiles DEF TypeOK, VersionTypeOK, LevelFiles, FileNumbers,
                          TablesTypeOK, FlushState, Files, WritesTypeOK
<1>3. /\ \A l \in Levels : live[l] \subseteq live'[l]
      /\ flush.file \in live'[0]
  BY <1>1, <1>2
<1>4. ASSUME NEW e \in 1 .. Len(Hist), e \in Entries(sst[flush.file])
      PROVE  Persists(e)'
  <2>1. PICK k \in Key : sst[flush.file][k] = e /\ e # 0
    BY <1>4 DEF Entries
  <2>2. Versioned(sst[flush.file])
    BY <1>2 DEF VersionsInv
  <2>3. log[e].key = k
    BY <2>1, <2>2 DEF Versioned
  <2>4. e \in 1 .. Len(log) /\ e <= e
    BY <1>2, <2>1 DEF Content
  <2>5. Hist[e].key = k
    BY <2>3, <2>4, HistIs
  <2>6. e <= sst'[flush.file][Hist'[e].key]
    <3>1. PICK h : h = Hist'
      OBVIOUS
    <3>2. h = Hist
      BY <3>1
    <3> QED  BY <1>1, <2>1, <2>4, <2>5, <3>1, <3>2
  <2>7. Current' = live'
    BY <1>1 DEF Current
  <2> QED  BY <1>2, <1>3, <2>6, <2>7 DEF Persists
<1>5. ASSUME NEW e \in 1 .. Len(Hist), e \notin Entries(sst[flush.file])
      PROVE  Persists(e)'
  <2>1. Persists(e)
    BY DEF Persisted
  <2>2. CASE e \in rotated \/ \E i \in 1 .. Len(wal) : wal[i].at = e
    <3>1. e \in rotated'
      BY <1>1, <1>5, <2>2
    <3> QED  BY <3>1 DEF Persists
  <2>3. CASE \E l \in Levels : \E f \in Current[l] : e <= sst[f][Hist[e].key]
    <3>1. Current = live /\ Current' = live'
      BY <1>1 DEF Current
    <3>2. PICK l \in Levels : \E f \in live[l] : e <= sst[f][Hist[e].key]
      BY <2>3, <3>1
    <3>3. PICK f \in live[l] : e <= sst[f][Hist[e].key]
      BY <3>2
    <3>4. f \in live'[l]
      BY <1>3
    <3>5. e <= sst'[f][Hist'[e].key]
      BY <1>1, <3>3
    <3> QED  BY <3>1, <3>4, <3>5 DEF Persists
  <2> QED  BY <2>1, <2>2, <2>3 DEF Persists
<1>6. \A e \in 1 .. Len(Hist) : Persists(e)'
  BY <1>4, <1>5
<1>7. Len(Hist)' = Len(Hist)
  OBVIOUS
<1> QED  BY <1>6, <1>7 DEF Persisted

\* A write stays persistent if each version in a file of the version stays in
\* one, or a later one of the same key does.
LEMMA PersistsByFiles ==
  ASSUME TypeOK, TypeOK', NEW e \in 1 .. Len(Hist), Persists(e),
         Hist'[e].key = Hist[e].key, rotated \subseteq rotated',
         \A i \in 1 .. Len(wal) : \E j \in 1 .. Len(wal') : wal'[j] = wal[i],
         Current \in LevelFiles, (Current \in LevelFiles)',
         \A l \in Levels : \A f \in Current[l] : \A k \in Key :
           sst[f][k] # 0 =>
             \E i \in Levels : \E g \in Current'[i] : sst[f][k] <= sst'[g][k]
  PROVE  Persists(e)'
<1>0. PICK k \in Key : k = Hist[e].key
  BY HistIs
<1>1. Hist'[e].key = k
  BY <1>0
<1>2. CASE e \in rotated
  BY <1>2 DEF Persists
<1>3. CASE \E i \in 1 .. Len(wal) : wal[i].at = e
  <2>1. \E j \in 1 .. Len(wal') : wal'[j].at = e
    BY <1>3
  <2> QED  BY <2>1 DEF Persists
<1>4. CASE \E l \in Levels : \E f \in Current[l] : e <= sst[f][k]
  <2>1. PICK l \in Levels : \E f \in Current[l] : e <= sst[f][k]
    BY <1>4
  <2>2. PICK f \in Current[l] : e <= sst[f][k]
    BY <2>1
  <2>3. e \in Nat /\ e # 0 /\ Len(log) \in Nat
    BY HistIs
  <2>4. f \in Files /\ sst \in Seq(Content)
    BY DEF LevelFiles, FileNumbers, TypeOK, TablesTypeOK
  <2>5. sst[f][k] \in Nat
    BY <2>3, <2>4 DEF Content, Files
  <2>6. sst[f][k] # 0
    BY <2>2, <2>3, <2>5
  <2>7. PICK i \in Levels : \E g \in Current'[i] : sst[f][k] <= sst'[g][k]
    BY <2>6
  <2>8. PICK g \in Current'[i] : sst[f][k] <= sst'[g][k]
    BY <2>7
  <2>9. PICK x : x = sst'[g][k]
    OBVIOUS
  <2>10. e <= x
    <3>1. sst[f][k] <= x
      BY <2>8, <2>9
    <3>2. x \in Nat
      <4>1. Len(log') \in Nat /\ sst' \in Seq([Key -> 0 .. Len(log')])
        BY DEF TypeOK, TablesTypeOK, WritesTypeOK, Content
      <4>2. g \in 1 .. Len(sst')
        BY DEF LevelFiles, FileNumbers, Files
      <4> QED  BY <2>9, <4>1, <4>2
    <3> QED  BY ONLY <2>2, <2>3, <2>5, <3>1, <3>2
  <2> QED  BY <1>1, <2>9, <2>10 DEF Persists
<1> QED  BY <1>0, <1>2, <1>3, <1>4 DEF Persists

LEMMA CommitPersists ==
  ASSUME TypeOK, TypeOK', OrderInv, MergedInv, NothingLost, Persisted, up,
         Commit, Hist' = Hist
  PROVE  Persisted'
<1>1. /\ live' = Edited(live, job.upper, job.lower, job.level, job.out)
      /\ job.pc = "write" /\ job.left = {} /\ sst' = sst
      /\ UNCHANGED <<up, wal, rotated>>
  BY DEF Commit, Live, CompactCommit, Finished, Edited
<1>2. /\ Current = live /\ Current' = live'
      /\ Current \in LevelFiles /\ (Current \in LevelFiles)'
  BY <1>1 DEF Current, TypeOK, VersionTypeOK
<1>3. PICK F : F = Edited(live, job.upper, job.lower, job.level, job.out)
  OBVIOUS
<1>4. ASSUME NEW l \in Levels, NEW f \in live[l], NEW k \in Key, sst[f][k] # 0
      PROVE  \E i \in Levels : \E g \in F[i] : sst[f][k] <= sst[g][k]
  BY <1>1, <1>3, <1>4, EditCovers
<1>5. \A l \in Levels : \A f \in Current[l] : \A k \in Key :
        sst[f][k] # 0 =>
          \E i \in Levels : \E g \in Current'[i] : sst[f][k] <= sst'[g][k]
  BY <1>1, <1>2, <1>3, <1>4
<1>6. ASSUME NEW e \in 1 .. Len(Hist) PROVE Persists(e)'
  <2>1. Persists(e)
    BY DEF Persisted
  <2> QED  BY <1>1, <1>2, <1>5, <2>1, PersistsByFiles
<1>7. Len(Hist)' = Len(Hist)
  OBVIOUS
<1> QED  BY <1>6, <1>7 DEF Persisted

\* The other steps leave the version alone.
LEMMA SameVersionPersists ==
  ASSUME TypeOK, TypeOK', Persisted, up, [Next]_vars,
         UNCHANGED <<live, rotated, up, wal>>, Hist' = Hist
  PROVE  Persisted'
<1>1. \A f \in Files : sst'[f] = sst[f]
  BY FilesKept
<1>2. /\ Current = live /\ Current' = live'
      /\ Current \in LevelFiles /\ (Current \in LevelFiles)'
  BY DEF Current, TypeOK, VersionTypeOK
<1>3. ASSUME NEW l \in Levels, NEW f \in Current[l], NEW k \in Key
      PROVE  \E i \in Levels : \E g \in Current'[i] : sst[f][k] <= sst'[g][k]
  <2>1. f \in Files /\ sst \in Seq(Content) /\ Len(log) \in Nat
    BY <1>2 DEF LevelFiles, FileNumbers, TypeOK, TablesTypeOK, WritesTypeOK
  <2>2. sst[f][k] \in Nat
    BY <2>1 DEF Content, Files
  <2>3. sst[f][k] <= sst'[f][k]
    BY <1>1, <2>1, <2>2
  <2>4. f \in Current'[l]
    BY <1>2
  <2> QED  BY <2>3, <2>4
<1>4. ASSUME NEW e \in 1 .. Len(Hist) PROVE Persists(e)'
  <2>1. Persists(e)
    BY DEF Persisted
  <2> QED  BY <1>2, <1>3, <2>1, PersistsByFiles
<1>5. Len(Hist)' = Len(Hist)
  OBVIOUS
<1> QED  BY <1>4, <1>5 DEF Persisted

\* A call whose operations are now in the WAL.
LEMMA GrownPersists ==
  ASSUME TypeOK, DiskTypeOK, Persisted, GoesOn(Hist', wal'), Logged = <<>>,
         rotated' = rotated,
         \A l \in Levels : \A f \in Current[l] :
           \A k \in Key : sst[f][k] # 0 =>
             \E i \in Levels : \E g \in Current'[i] : sst[f][k] <= sst'[g][k],
         Current \in LevelFiles, (Current \in LevelFiles)', TypeOK'
  PROVE  Persisted'
<1>1. PICK h, t : h = Hist' /\ t = wal' /\ GoesOn(h, t)
  OBVIOUS
<1>2. Hist = log /\ Len(log) \in Nat
  BY HistIs DEF Hist, TypeOK, WritesTypeOK
<1>3. ASSUME NEW e \in 1 .. Len(h), ~(e <= Len(log)) PROVE Persists(e)'
  <2>1. PICK i \in 1 .. Len(t) : t[i] = RecordOf(h, e)
    BY <1>1, <1>3 DEF GoesOn
  <2>2. t[i].at = e
    BY <2>1 DEF RecordOf
  <2> QED  BY <1>1, <2>2 DEF Persists
<1>4. ASSUME NEW e \in 1 .. Len(log) PROVE Persists(e)'
  <2>1. h[e].key = Hist[e].key /\ e \in 1 .. Len(Hist)
    BY <1>1, <1>2 DEF GoesOn
  <2>2. Persists(e)
    BY <2>1 DEF Persisted
  <2>3. \A i \in 1 .. Len(wal) : \E j \in 1 .. Len(wal') : wal'[j] = wal[i]
    BY <1>1 DEF GoesOn
  <2>4. Hist'[e].key = Hist[e].key
    BY <1>1, <2>1
  <2> QED  BY <2>1, <2>2, <2>3, <2>4, PersistsByFiles
<1>5. \A e \in 1 .. Len(h) : e \in 1 .. Len(log) \/ ~(e <= Len(log))
  BY <1>2
<1>6. \A e \in 1 .. Len(h) : Persists(e)'
  BY <1>3, <1>4, <1>5
<1> QED  BY <1>1, <1>6 DEF Persisted

LEMMA LivePersists ==
  ASSUME TypeOK, TypeOK', DiskTypeOK, OrderInv, VersionsInv, MergedInv,
         NothingLost, WalTail, Persisted, LiveStep
  PROVE  Persisted'
<1>1. Next /\ up /\ up' = up /\ [Next]_vars
  BY LiveSteps DEF LiveStep
<1>2. /\ Current = live /\ Current' = live'
      /\ Current \in LevelFiles /\ (Current \in LevelFiles)'
  BY <1>1 DEF Current, TypeOK, VersionTypeOK
<1>3. CASE \E ops \in Seq(Op) :
             /\ Logged = <<>> /\ log' = log /\ Hist' = log \o ops
             /\ wal' = wal \o WalRecords(ops)
             /\ UNCHANGED <<rotated, live, sst>>
  <2>1. PICK ops \in Seq(Op) :
          /\ Logged = <<>> /\ log' = log /\ Hist' = log \o ops
          /\ wal' = wal \o WalRecords(ops)
          /\ UNCHANGED <<rotated, live, sst>>
    BY <1>3
  <2>2. GoesOn(Hist', wal')
    BY <2>1, TailGrows
  <2>3. ASSUME NEW l \in Levels, NEW f \in Current[l], NEW k \in Key
        PROVE  \E i \in Levels : \E g \in Current'[i] : sst[f][k] <= sst'[g][k]
    <3>1. f \in Files /\ sst \in Seq(Content) /\ Len(log) \in Nat
      BY <1>2 DEF LevelFiles, FileNumbers, TypeOK, TablesTypeOK, WritesTypeOK
    <3>2. sst[f][k] \in Nat
      BY <3>1 DEF Content, Files
    <3>3. sst[f][k] <= sst'[f][k] /\ f \in Current'[l]
      BY <1>2, <2>1, <3>2
    <3> QED  BY <3>3
  <2> QED  BY <1>2, <2>1, <2>2, <2>3, GrownPersists
<1>4. CASE Hist' = Hist /\ wal' = <<>> /\ Publish
  BY <1>1, <1>4, PublishPersists
<1>5. CASE Hist' = Hist /\ wal' = wal
  <2>1. CASE Publish
    <3>1. wal' = <<>>
      BY <2>1 DEF Publish
    <3> QED  BY <1>1, <1>5, <2>1, <3>1, PublishPersists
  <2>2. CASE Commit
    BY <1>1, <1>5, <2>2, CommitPersists
  <2>3. CASE UNCHANGED <<live, rotated>>
    BY <1>1, <1>5, <2>3, SameVersionPersists
  <2> QED  BY <2>1, <2>2, <2>3, LiveVersion
<1> QED  BY <1>3, <1>4, <1>5, LiveHist DEF LiveStep

LEMMA LiveSurvives ==
  ASSUME RecoveryInv, RecoveryInv', SurvivalInv, LiveStep
  PROVE  SurvivalInv'
<1>1. Next /\ up /\ up' = up /\ torn' = torn /\ [Next]_vars
  BY LiveSteps DEF LiveStep
<1>2. TypeOK /\ TypeOK' /\ DiskTypeOK /\ FilesInv
  BY <1>1 DEF RecoveryInv, DiskInv, SurvivalInv
<1>3. ~torn' /\ StartInv'
  BY <1>1 DEF SurvivalInv, StartInv
<1>4. WalTail'
  BY <1>2, LiveTail DEF SurvivalInv, LiveStep
<1>5. LockInv' /\ FilledInv' /\ AckedInv'
  BY <1>2, LiveLock, LiveFilled, LiveAcked DEF SurvivalInv
<1>6. NeverEmptied'
  BY <1>2, LiveNonempty DEF SurvivalInv
<1>7. Persisted'
  BY <1>2, LivePersists DEF SurvivalInv
<1>8. OrderInv' /\ VersionsInv' /\ MergedInv'
  BY <1>1, <1>2, NextOrder, NextVersions, NextMerged DEF SurvivalInv
<1>9. Undisturbed'
  BY <1>2, LiveUndisturbed DEF SurvivalInv
<1>10. NothingLost'
  BY <1>1, <1>2, <1>9, NothingIsLost DEF SurvivalInv
<1> QED  BY <1>3, <1>4, <1>5, <1>6, <1>7, <1>8, <1>9, <1>10 DEF SurvivalInv
-----------------------------------------------------------------------------
(* The end of a process.                                                   *)

\* Without memory there is nothing to be ordered or merged.
LEMMA StopForgets ==
  ASSUME TypeOK, SurvivalInv, NEW written \in Seq(Op), Stop(written)
  PROVE  /\ LockInv' /\ FilledInv' /\ NeverEmptied'
         /\ OrderInv' /\ MergedInv' /\ Undisturbed' /\ NothingLost'
<1>1. /\ heap' = <<Nothing>> /\ usage' = 0 /\ imm' = 0
      /\ flush' = [pc |-> "idle", table |-> 0, file |-> 0]
      /\ live' = NoFiles /\ obsolete' = {} /\ pendingDelete' = {}
      /\ job' = NoJob /\ ttl' = NoTtl
      /\ writer' = [w \in Writers |-> [pc |-> "idle", ops |-> <<>>]]
      /\ UNCHANGED <<faults, dropped, sst>>
  BY DEF Stop
<1>2. Len(heap') = 1 /\ heap'[1] = Nothing
  BY <1>1
<1>3. LockInv'
  BY <1>1 DEF LockInv
<1>4. FilledInv'
  BY <1>1 DEF SurvivalInv, FilledInv, Files, Filled
<1>5. NeverEmptied'
  BY <1>1 DEF NeverEmptied, NoJob, Condemned
<1>6. \A l \in Levels : live'[l] = {}
  BY <1>1 DEF NoFiles
<1>7. OrderInv'
  <2>1. IndexInv' /\ FlushInv' /\ InputsInv' /\ OutputsInv'
    BY <1>1, <1>2, RecoveryAssumption DEF IndexInv, FlushInv, InputsInv,
                                          OutputsInv, NoJob
  <2>2. LevelOneInv'
    BY <1>6, NamedFiles DEF LevelOneInv
  <2>3. NewestFirst'
    BY <1>1, <1>2, <1>6, RecoveryAssumption DEF NewestFirst, TablesNewestFirst,
                                                FilesNewestFirst
  <2> QED  BY <2>1, <2>2, <2>3 DEF OrderInv
<1>8. MergedInv'
  BY <1>1 DEF MergedInv, NoJob
<1>9. Undisturbed' /\ NothingLost'
  BY <1>1 DEF SurvivalInv, Undisturbed, NothingLost, NoJob, NoTtl
<1> QED  BY <1>3, <1>4, <1>5, <1>7, <1>8, <1>9

LEMMA StopVersions ==
  ASSUME TypeOK, SurvivalInv, NEW written \in Seq(Op), Stop(written)
  PROVE  VersionsInv' /\ AckedInv'
<1>1. /\ heap' = <<Nothing>> /\ sst' = sst /\ log' = log \o written
      /\ acked' = acked /\ called' = called
  BY DEF Stop
<1>2. /\ log \in Seq(Op) /\ Len(log) \in Nat /\ sst \in Seq(Content)
  BY DEF TypeOK, WritesTypeOK, TablesTypeOK
<1>3. /\ Len(log') = Len(log) + Len(written) /\ Len(written) \in Nat
      /\ \A i \in 1 .. Len(log) : log'[i] = log[i]
  BY <1>1, <1>2
<1>4. AckedInv'
  <2>1. 1 .. Len(log) \subseteq 1 .. Len(log')
    BY <1>2, <1>3
  <2> QED  BY <1>1, <2>1 DEF AckedInv, SurvivalInv
<1>5. ASSUME NEW f \in Files PROVE Versioned(sst[f])'
  <2>1. sst[f] \in Content /\ Versioned(sst[f])
    BY <1>2 DEF Files, SurvivalInv, VersionsInv
  <2>2. \A k \in Key : sst[f][k] # 0 => sst[f][k] \in 1 .. Len(log)
    BY <1>2, <2>1 DEF Content
  <2> QED  BY <1>1, <1>3, <2>1, <2>2 DEF Versioned
<1>6. VersionsInv'
  <2>1. Files' = Files
    BY <1>1 DEF Files
  <2>2. Len(heap') = 1 /\ heap'[1] = Nothing
    BY <1>1
  <2>3. \A i \in 1 .. Len(heap') : Versioned(heap[i])'
    BY <2>2 DEF Versioned, Nothing
  <2> QED  BY <1>5, <2>1, <2>3 DEF VersionsInv
<1> QED  BY <1>4, <1>6

\* What the WAL holds when the process ends is what becomes of the history.
LEMMA StopHist ==
  ASSUME TypeOK, TypeOK', DiskTypeOK, WalTail,
         NEW written \in Seq(Op), Stop(written),
         \/ wal' = wal /\ log \o written = Hist
         \/ wal' = wal \o WalRecords(written) /\ Logged = <<>>
  PROVE  /\ WalTail'
         /\ \/ Hist' = Hist /\ wal' = wal
            \/ GoesOn(Hist', wal') /\ Logged = <<>>
<1>1. log' = log \o written
      /\ writer' = [w \in Writers |-> [pc |-> "idle", ops |-> <<>>]]
  BY DEF Stop
<1>2. Hist' = log \o written
  <2>1. PICK w \in Writers : TRUE
    BY TheWriter
  <2>2. Logged' = <<>>
    BY <1>1, <2>1, LoggedIs
  <2>3. log' \in Seq(Op)
    BY DEF TypeOK, WritesTypeOK
  <2>4. PICK h \in Seq(Op) : h = log'
    BY <2>3
  <2>5. h \o <<>> = h
    OBVIOUS
  <2> QED  BY <1>1, <2>2, <2>4, <2>5 DEF Hist
<1>3. CASE wal' = wal /\ log \o written = Hist
  BY <1>2, <1>3, TailKept
<1>4. CASE wal' = wal \o WalRecords(written) /\ Logged = <<>>
  <2>1. GoesOn(Hist', wal')
    BY <1>2, <1>4, TailGrows
  <2> QED  BY <1>4, <2>1 DEF GoesOn, WalTail
<1> QED  BY <1>3, <1>4

\* A process ends: the manifest m it leaves must list a version as good as
\* the one there was.
LEMMA StopSurvives ==
  ASSUME RecoveryInv, RecoveryInv', SurvivalInv, up,
         NEW written \in Seq(Op), Stop(written),
         \/ wal' = wal /\ log \o written = Hist
         \/ wal' = wal \o WalRecords(written) /\ Logged = <<>>,
         ~torn', NEW m \in Seq(ManifestLine), manifest' = m, Parsable(m),
         NEW F, F = Listed(m), FilesNewestFirst(F), KeysApart(F),
         F # NoFiles \/ \A f, g \in disk' : f = g,
         \A l \in Levels : \A f \in live[l] : \A k \in Key :
           sst[f][k] # 0 =>
             \E i \in Levels : \E g \in F[i] : sst[f][k] <= sst[g][k]
  PROVE  SurvivalInv'
<1>1. TypeOK /\ TypeOK' /\ DiskTypeOK
  BY DEF RecoveryInv
<1>2. up' = FALSE /\ UNCHANGED <<sst, rotated>>
  BY DEF Stop
<1>3. Listed(manifest)' = F
  <2>1. Files' = Files
    BY <1>2 DEF Files
  <2> QED  BY <2>1, ListedKept
<1>4. /\ Current = live /\ Current' = F
      /\ Current \in LevelFiles /\ (Current \in LevelFiles)'
  <2>1. F \in LevelFiles
    BY <1>1, ListedIs
  <2>2. LevelFiles' = LevelFiles
    BY <1>2 DEF LevelFiles, FileNumbers, Files
  <2>3. live \in LevelFiles
    BY <1>1 DEF TypeOK, VersionTypeOK
  <2> QED  BY <1>2, <1>3, <2>1, <2>2, <2>3 DEF Current
<1>5. StartInv'
  <2>1. FilesNewestFirst(Listed(manifest))'
    BY <1>2, <1>3 DEF FilesNewestFirst
  <2>2. KeysApart(Listed(manifest))'
    BY <1>2, <1>3 DEF KeysApart, KeysIn
  <2>3. Listed(manifest)' # NoFiles' \/ \A f, g \in disk' : f = g
    BY <1>3 DEF NoFiles
  <2> QED  BY <2>1, <2>2, <2>3 DEF StartInv
<1>6. /\ WalTail'
      /\ \/ Hist' = Hist /\ wal' = wal
         \/ GoesOn(Hist', wal') /\ Logged = <<>>
  BY <1>1, StopHist DEF SurvivalInv
<1>7. \A l \in Levels : \A f \in Current[l] : \A k \in Key :
        sst[f][k] # 0 =>
          \E i \in Levels : \E g \in Current'[i] : sst[f][k] <= sst'[g][k]
  BY <1>2, <1>4
<1>8. Persisted'
  <2>1. CASE GoesOn(Hist', wal') /\ Logged = <<>>
    BY <1>1, <1>2, <1>4, <1>7, <2>1, GrownPersists DEF SurvivalInv
  <2>2. CASE Hist' = Hist /\ wal' = wal
    <3>1. ASSUME NEW e \in 1 .. Len(Hist) PROVE Persists(e)'
      <4>1. Persists(e)
        BY DEF Persisted, SurvivalInv
      <4> QED  BY <1>1, <1>2, <1>4, <1>7, <2>2, <4>1, PersistsByFiles
    <3>2. Len(Hist)' = Len(Hist)
      BY <2>2
    <3> QED  BY <3>1, <3>2 DEF Persisted
  <2> QED  BY <1>6, <2>1, <2>2
<1> QED  BY <1>1, <1>5, <1>6, <1>8, StopForgets, StopVersions DEF SurvivalInv

\* Outside an append the WAL holds the whole call in progress.
LEMMA WholeCall ==
  ASSUME TypeOK, \A w \in Writers : writer[w].pc # "append"
  PROVE  Unapplied \in Seq(Op) /\ log \o Unapplied = Hist
<1>1. (CHOOSE x \in Writers : TRUE) \in Writers
  BY TheWriter
<1>2. Unapplied = Logged
  BY <1>1 DEF Unapplied, Logged
<1> QED  BY <1>2, UnappliedType DEF Hist

LEMMA UnlockedCall ==
  ASSUME TypeOK, LockInv, lock = NoThread
  PROVE  Unapplied \in Seq(Op) /\ log \o Unapplied = Hist
<1>1. \A w \in Writers : writer[w].pc # "append"
  BY ThreadsAssumption DEF LockInv
<1> QED  BY <1>1, WholeCall

\* Without a version the disk holds no file but the one being published.
LEMMA FewFiles ==
  ASSUME TypeOK, FilesInv, OrderInv, NeverEmptied, Undisturbed, live = NoFiles
  PROVE  \A f, g \in disk : f = g
<1>1. \A l \in Levels : live[l] = {}
  BY DEF NoFiles
<1>2. job.pc = "none"
  <2> SUFFICES ASSUME job.pc # "none" PROVE FALSE
    OBVIOUS
  <2>1. job.upper # {} /\ job.upper \subseteq live[job.level]
    BY DEF NeverEmptied, OrderInv, InputsInv, InputsValid
  <2>2. job.level \in Levels
    BY NamedFiles
  <2> QED  BY <1>1, <2>1, <2>2
<1>3. job.out = {} /\ Condemned = {} /\ faults = 0
  BY <1>2 DEF FilesInv, OutputInv, NeverEmptied, Undisturbed
<1> QED  BY <1>1, <1>3 DEF FilesInv, OwnerInv

\* What holds of the version while the engine is up, and of the manifest.
LEMMA LiveIsListed ==
  ASSUME RecoveryInv, SurvivalInv, up
  PROVE  /\ TypeOK /\ FilesInv /\ manifest \in Seq(ManifestLine)
         /\ Parsable(manifest) /\ Listed(manifest) = live
         /\ FilesNewestFirst(live) /\ KeysApart(live)
         /\ live # NoFiles \/ \A f, g \in disk : f = g
         /\ \A l \in Levels : \A f \in live[l] : \A k \in Key :
              \E i \in Levels : \E g \in live[i] : sst[f][k] <= sst[g][k]
<1>1. /\ TypeOK /\ FilesInv /\ manifest \in Seq(ManifestLine)
      /\ Parsable(manifest) /\ Listed(manifest) = live
  BY ListedLive DEF SurvivalInv
<1>2. FilesNewestFirst(live) /\ KeysApart(live)
  BY DEF SurvivalInv, OrderInv, NewestFirst, LevelOneInv, KeysApart
<1>3. live # NoFiles \/ \A f, g \in disk : f = g
  BY <1>1, FewFiles DEF SurvivalInv
<1>4. ASSUME NEW l \in Levels, NEW f \in live[l], NEW k \in Key
      PROVE  \E i \in Levels : \E g \in live[i] : sst[f][k] <= sst[g][k]
  <2>1. f \in Files /\ sst \in Seq(Content) /\ Len(log) \in Nat
    BY <1>1, NamedFiles DEF TypeOK, TablesTypeOK, WritesTypeOK
  <2>2. sst[f][k] \in Nat
    BY <2>1 DEF Content, Files
  <2>3. sst[f][k] <= sst[f][k]
    BY <2>2
  <2> QED  BY <2>3
<1> QED  BY <1>1, <1>2, <1>3, <1>4

LEMMA CrashSurvives ==
  ASSUME RecoveryInv, RecoveryInv', SurvivalInv, Crash
  PROVE  SurvivalInv'
<1>1. UNCHANGED <<manifest, disk, torn>>
  BY DEF Crash
<1>2. ASSUME NEW written \in Seq(Op), Stop(written),
             \/ wal' = wal /\ log \o written = Hist
             \/ wal' = wal \o WalRecords(written) /\ Logged = <<>>
      PROVE  SurvivalInv'
  <2>1. up /\ ~torn'
    BY <1>1, <1>2 DEF Stop, SurvivalInv
  <2>2. PICK m, F : m = manifest /\ F = live
    OBVIOUS
  <2> QED  BY <1>1, <1>2, <2>1, <2>2, LiveIsListed, StopSurvives
<1>3. CASE \E w \in Writers : writer[w].pc = "append"
  <2>1. PICK n \in 0 .. Len(Unapplied) :
          /\ Stop(SubSeq(Unapplied, 1, n))
          /\ wal' = wal \o WalRecords(SubSeq(Unapplied, 1, n))
    BY <1>3 DEF Crash
  <2>2. SubSeq(Unapplied, 1, n) \in Seq(Op)
    BY UnappliedType DEF RecoveryInv
  <2>3. Logged = <<>>
    BY <1>3, LoggedIs
  <2> QED  BY <1>2, <2>1, <2>2, <2>3
<1>4. CASE ~\E w \in Writers : writer[w].pc = "append"
  <2>1. Stop(Unapplied) /\ wal' = wal
    BY <1>4 DEF Crash
  <2>2. Unapplied \in Seq(Op) /\ log \o Unapplied = Hist
    BY <1>4, WholeCall DEF RecoveryInv
  <2> QED  BY <1>2, <2>1, <2>2
<1> QED  BY <1>3, <1>4

\* One line goes out in one piece.
LEMMA NoPartOfALine ==
  ASSUME NEW line PROVE Partial(<<line>>) = {}
<1>1. \A n \in ManifestBuffer .. Len(<<line>>) - 1 : FALSE
  <2>1. Len(<<line>>) = 1 /\ ManifestBuffer \in Nat \ {0}
    BY RecoveryAssumption
  <2> QED  BY <2>1
<1>2. PICK b, n : b = ManifestBuffer /\ n = Len(<<line>>) - 1
  OBVIOUS
<1>3. b .. n = {}
  BY <1>1, <1>2
<1> QED  BY <1>2, <1>3 DEF Partial

LEMMA CrashInPublishSurvives ==
  ASSUME RecoveryInv, RecoveryInv', SurvivalInv, CrashInPublish
  PROVE  SurvivalInv'
<1>1. /\ flush.pc = "publish" /\ lock = NoThread /\ up
      /\ Stop(Unapplied) /\ wal' = wal
  BY DEF CrashInPublish, Stop
<1>2. PICK line : line = Line("add", 0, flush.file)
  OBVIOUS
<1>3. /\ manifest' = manifest \o <<line>>
      /\ torn' = (torn \/ ~Readable')
  <2>1. \E written \in Partial(<<line>>) \cup {<<line>>} :
          manifest' = manifest \o written
    BY <1>2 DEF CrashInPublish
  <2> QED  BY <2>1, NoPartOfALine DEF CrashInPublish
<1>4. /\ TypeOK /\ manifest \in Seq(ManifestLine) /\ Parsable(manifest)
      /\ Listed(manifest) = live /\ OrderInv
  BY <1>1, LiveIsListed DEF SurvivalInv
<1>5. flush.file \in Files /\ 0 \in Levels
  BY <1>1, <1>4, NamedFiles DEF TypeOK, TablesTypeOK, FlushState, Files
<1>6. PICK m : m = Append(manifest, Line("add", 0, flush.file))
  OBVIOUS
<1>7. /\ m \in Seq(ManifestLine) /\ Parsable(m) /\ manifest' = m
      /\ Listed(m) = [live EXCEPT ![0] = @ \cup {flush.file}]
  <2>1. manifest \o <<line>> = Append(manifest, line)
    <3>1. line \in ManifestLine
      BY <1>2, <1>5 DEF ManifestLine, Line
    <3> QED  BY <1>4, <3>1, AppendIsConcat
  <2> QED  BY <1>2, <1>3, <1>4, <1>5, <1>6, <2>1, ListedFlush
<1>8. PICK F : F = [live EXCEPT ![0] = @ \cup {flush.file}]
  OBVIOUS
<1>9. /\ FilesNewestFirst(F) /\ F[1] = live[1] /\ flush.file \in F[0]
  BY <1>1, <1>4, <1>8, PublishFiles
<1>10. KeysApart(F) /\ F # NoFiles
  BY <1>1, <1>5, <1>9, LiveIsListed DEF KeysApart, NoFiles
<1>11. \A l \in Levels : live[l] \subseteq F[l]
  BY <1>4, <1>5, <1>8 DEF TypeOK, VersionTypeOK, LevelFiles
<1>12. \A l \in Levels : \A f \in live[l] : \A k \in Key :
         \E i \in Levels : \E g \in F[i] : sst[f][k] <= sst[g][k]
  BY <1>1, <1>11, LiveIsListed
<1>13. Unapplied \in Seq(Op) /\ log \o Unapplied = Hist
  BY <1>1, <1>4, UnlockedCall DEF SurvivalInv
<1>14. ~torn'
  <2>1. Readable'
    BY <1>7 DEF Readable, Parsable
  <2> QED  BY <1>3, <2>1 DEF SurvivalInv
<1> QED  BY <1>1, <1>7, <1>8, <1>9, <1>10, <1>12, <1>13, <1>14, StopSurvives

LEMMA CrashInCommitSurvives ==
  ASSUME RecoveryInv, RecoveryInv', SurvivalInv, CrashInCommit, ~mangled'
  PROVE  SurvivalInv'
<1>1. /\ job.pc = "write" /\ job.left = {} /\ lock = NoThread /\ up
      /\ Stop(Unapplied) /\ wal' = wal
  BY DEF CrashInCommit, Finished, Stop
<1>2. PICK m : m = manifest \o EditLines(job.upper, job.lower, job.level,
                                         job.out)
  OBVIOUS
<1>3. manifest' = m /\ torn' = (torn \/ ~Readable')
  BY <1>2 DEF CrashInCommit
<1>4. /\ TypeOK /\ manifest \in Seq(ManifestLine) /\ Parsable(manifest)
      /\ Listed(manifest) = live
      /\ OrderInv /\ MergedInv /\ NothingLost /\ FilledInv
  BY <1>1, LiveIsListed DEF SurvivalInv
<1>5. /\ job.upper \subseteq Files /\ job.lower \subseteq Files
      /\ job.out \subseteq Files
      /\ job.level \in Levels /\ job.level + 1 \in Levels
  BY <1>4, NamedFiles
<1>6. PICK F : F = Edited(live, job.upper, job.lower, job.level, job.out)
  OBVIOUS
<1>7. m \in Seq(ManifestLine) /\ Parsable(m) /\ Listed(m) = F
  BY <1>2, <1>4, <1>5, <1>6, ListedEdit
<1>8. FilesNewestFirst(F) /\ KeysApart(F)
  BY <1>1, <1>4, <1>6, CommitFiles
<1>9. F # NoFiles
  <2>1. job.out # {}
    BY <1>1, <1>4, CommitHasOutputs DEF SurvivalInv, NeverEmptied
  <2>2. live \in [Levels -> SUBSET Files] /\ job.level # job.level + 1
    BY <1>4, <1>5 DEF TypeOK, VersionTypeOK, LevelFiles, FileNumbers, Levels
  <2>3. job.out \subseteq F[job.level + 1]
    BY <1>5, <1>6, <2>2 DEF Edited
  <2> QED  BY <1>5, <2>1, <2>3 DEF NoFiles
<1>10. ASSUME NEW l \in Levels, NEW f \in live[l], NEW k \in Key,
              sst[f][k] # 0
       PROVE  \E i \in Levels : \E g \in F[i] : sst[f][k] <= sst[g][k]
  BY <1>1, <1>4, <1>6, <1>10, EditCovers
<1>11. Unapplied \in Seq(Op) /\ log \o Unapplied = Hist
  BY <1>1, <1>4, UnlockedCall DEF SurvivalInv
<1>12. ~torn'
  <2>1. Readable'
    BY <1>3, <1>7 DEF Readable, Parsable
  <2> QED  BY <1>3, <2>1 DEF SurvivalInv
<1> QED  BY <1>1, <1>3, <1>7, <1>8, <1>9, <1>10, <1>11, <1>12, StopSurvives

LEMMA CloseSurvives ==
  ASSUME RecoveryInv, RecoveryInv', SurvivalInv, Close
  PROVE  SurvivalInv'
<1>1. /\ Stop(Unapplied) /\ up /\ wal' = wal /\ torn' = torn
      /\ disk' \subseteq disk /\ manifest' = Snapshot(live)
      /\ \A w \in Writers : writer[w].pc = "idle"
  BY DEF Close, Closing, Stop
<1>2. PICK m, F : m = Snapshot(live) /\ F = live
  OBVIOUS
<1>3. /\ TypeOK /\ live \in LevelFiles /\ ~torn'
  BY <1>1, LiveIsListed DEF TypeOK, VersionTypeOK, SurvivalInv
<1>4. m \in Seq(ManifestLine) /\ Parsable(m) /\ F = Listed(m)
  BY <1>2, <1>3, SnapshotListed, LiveSnapshot
<1>5. Unapplied \in Seq(Op) /\ log \o Unapplied = Hist
  BY <1>1, <1>3, WholeCall
<1> QED  BY <1>1, <1>2, <1>3, <1>4, <1>5, LiveIsListed, StopSurvives
-----------------------------------------------------------------------------
(* A restart.                                                              *)

\* The memtable a replay makes has the last write of every key in the WAL,
\* and no later write of that key was ever made.
LEMMA ReplayedIs ==
  ASSUME TypeOK, DiskTypeOK, WalTail, NEW k \in Key
  PROVE  /\ ReplayedTable[k] # 0 =>
              /\ ReplayedTable[k] \in 1 .. Len(Hist)
              /\ Hist[ReplayedTable[k]].key = k
              /\ \A e \in 1 .. Len(Hist) :
                   Hist[e].key = k => e <= ReplayedTable[k]
         /\ \A i \in 1 .. Len(wal) :
              wal[i].op.key = k => ReplayedTable[k] # 0
<1> DEFINE W == {i \in 1 .. Len(wal) : wal[i].op.key = k}
           Last == CHOOSE i \in W : \A j \in W : j <= i
<1>1. PICK m \in Nat, n \in Nat : m = Len(Hist) /\ n = Len(wal) /\ n <= m
  <2>1. Len(Hist) \in Nat /\ Len(wal) \in Nat
    BY HistIs DEF DiskTypeOK
  <2> QED  BY <2>1 DEF WalTail
<1>2. ASSUME NEW i \in 1 .. n
      PROVE  wal[i].op = Hist[m - n + i] /\ wal[i].at = m - n + i
  <2>1. wal[i] = RecordOf(Hist, m - n + i)
    BY <1>1 DEF WalTail
  <2>2. \A h, j : RecordOf(h, j).op = h[j] /\ RecordOf(h, j).at = j
    BY DEF RecordOf
  <2> QED  BY <2>1, <2>2
<1>3. ReplayedTable[k] = IF W = {} THEN 0 ELSE wal[Last].at
  BY DEF ReplayedTable
<1>4. CASE W = {}
  BY <1>3, <1>4
<1>5. CASE W # {}
  <2>1. PICK x : x = Last
    OBVIOUS
  <2>2. x \in W /\ \A j \in W : j <= x
    <3>1. W \in SUBSET (1 .. n)
      BY <1>1
    <3> HIDE DEF W
    <3>2. \E i \in W : \A j \in W : j <= i
      BY <1>1, <1>5, <3>1, MaxExists
    <3> QED  BY <2>1, <3>2
  <2>3. x \in 1 .. n /\ wal[x].op.key = k
    BY <1>1, <2>2
  <2>4. ReplayedTable[k] = m - n + x
    BY <1>2, <1>3, <1>5, <2>1, <2>3
  <2>5. m - n + x \in 1 .. m /\ m - n + x # 0
    BY <1>1, <2>3
  <2>6. Hist[m - n + x].key = k
    BY <1>2, <2>3
  <2>7. ASSUME NEW e \in 1 .. m, Hist[e].key = k
        PROVE  e <= m - n + x
    <3>1. CASE e <= m - n
      BY <1>1, <2>3, <3>1
    <3>2. CASE e > m - n
      <4>1. e - (m - n) \in 1 .. n /\ m - n + (e - (m - n)) = e
        BY <1>1, <3>2
      <4>2. wal[e - (m - n)].op = Hist[e]
        BY <1>2, <4>1
      <4>3. e - (m - n) \in W
        BY <1>1, <2>7, <4>1, <4>2
      <4>4. e - (m - n) <= x
        BY <2>2, <4>3
      <4> QED  BY ONLY <1>1, <2>3, <4>4, e \in 1 .. m
    <3> QED  BY <1>1, <3>1, <3>2
  <2> HIDE DEF W, Last
  <2> QED  BY <1>1, <2>4, <2>5, <2>6, <2>7
<1> QED  BY <1>4, <1>5

LEMMA ReplayedFilled ==
  ASSUME TypeOK, DiskTypeOK, WalTail, Len(wal) > 0
  PROVE  Filled(ReplayedTable)
<1>1. 1 \in 1 .. Len(wal) /\ wal[1] \in WalRecord
  BY DEF DiskTypeOK
<1>2. wal[1].op.key \in Key
  <2>1. wal[1].op \in Op
    BY <1>1 DEF WalRecord
  <2>2. \A o \in Op : o.key \in Key
    BY SMTT(20) DEF Op
  <2> QED  BY <2>1, <2>2
<1>3. PICK k \in Key : wal[1].op.key = k
  BY <1>2
<1>4. ReplayedTable[k] # 0
  BY <1>1, <1>3, ReplayedIs
<1> QED  BY <1>4 DEF Filled

\* What a restart would load, from the manifest or from what is on disk.
LEMMA LoadedOrdered ==
  ASSUME RecoveryInv, SurvivalInv
  PROVE  /\ LoadedFiles \in LevelFiles
         /\ FilesNewestFirst(LoadedFiles) /\ KeysApart(LoadedFiles)
         /\ Current = Listed(manifest)
         /\ \A l \in Levels : /\ Current[l] \subseteq LoadedFiles[l]
                             /\ LoadedFiles[l] \subseteq disk
<1>0. TypeOK /\ Current = Listed(manifest)
  BY LiveIsListed DEF Current, RecoveryInv
<1>1. /\ FilesNewestFirst(Listed(manifest)) /\ KeysApart(Listed(manifest))
      /\ Listed(manifest) # NoFiles \/ \A f, g \in disk : f = g
  BY LiveIsListed DEF SurvivalInv, StartInv
<1>2. LoadedFiles \in LevelFiles
  BY <1>0, LoadedType
<1>3. CASE Listed(manifest) # NoFiles
  <2>1. LoadedFiles = Listed(manifest)
    BY <1>3 DEF LoadedFiles
  <2>2. \A l \in Levels : Listed(manifest)[l] \subseteq disk
    BY <1>0 DEF RecoveryInv, DiskInv, SurvivalInv, FilesInv, LiveInv, ListedInv,
                Current
  <2> QED  BY <1>0, <1>1, <1>2, <2>1, <2>2
<1>4. CASE Listed(manifest) = NoFiles
  <2>1. PICK F : F = [NoFiles EXCEPT ![0] = disk]
    OBVIOUS
  <2>2. LoadedFiles = F /\ \A l \in Levels : F[l] = IF l = 0 THEN disk ELSE {}
    BY <1>0, <1>4, <2>1, NamedFiles DEF LoadedFiles, NoFiles
  <2>3. 0 \in Levels /\ 1 # 0 /\ disk \subseteq Nat
    BY <1>0, NamedFiles DEF TypeOK, VersionTypeOK, FileNumbers, Files,
                            TablesTypeOK
  <2>4. FilesNewestFirst(F)
    <3>1. ASSUME NEW l \in Levels, NEW i \in Levels,
                 NEW f \in F[l], NEW g \in F[i], Before(l, f, i, g)
          PROVE  FALSE
      <4>1. f \in disk /\ g \in disk /\ l = 0 /\ i = 0
        BY <2>2
      <4>2. f = g /\ f \in Nat
        BY <1>1, <1>4, <2>3, <4>1
      <4> QED  BY <3>1, <4>1, <4>2 DEF Before
    <3> QED  BY <3>1 DEF FilesNewestFirst
  <2>5. KeysApart(F)
    BY <1>0, <1>1, <1>4, <2>2, NamedFiles DEF KeysApart
  <2>6. \A l \in Levels : Listed(manifest)[l] = {}
    BY <1>4 DEF NoFiles
  <2> QED  BY <1>0, <1>2, <2>2, <2>4, <2>5, <2>6
<1> QED  BY <1>3, <1>4

LEMMA RestartSurvives ==
  ASSUME RecoveryInv, RecoveryInv', SurvivalInv, Restart
  PROVE  SurvivalInv'
<1>1. /\ live' = LoadedFiles /\ heap' = <<ReplayedTable>>
      /\ usage' = Len(wal) /\ ttl' = ReplayedTtl /\ up' = TRUE /\ ~up
      /\ UNCHANGED <<log, faults, dropped, imm, flush, sst, obsolete,
                     pendingDelete, job, writer, wal, called, acked, rotated,
                     torn>>
  BY DEF Restart, jobVars
<1>2. /\ TypeOK /\ TypeOK' /\ DiskTypeOK /\ WalTail
      /\ Condemned = {} /\ job = NoJob /\ imm = 0
      /\ flush = [pc |-> "idle", table |-> 0, file |-> 0]
      /\ \A w \in Writers : writer[w] = [pc |-> "idle", ops |-> <<>>]
  BY <1>1 DEF RecoveryInv, DownInv, SurvivalInv
<1>3. Files' = Files /\ Hist = log /\ Hist' = Hist
  <2>1. PICK w \in Writers : TRUE
    BY TheWriter
  <2>2. Logged = <<>>
    BY <1>2, <2>1, LoggedIs
  <2>3. PICK h \in Seq(Op) : h = log
    BY <1>2 DEF TypeOK, WritesTypeOK
  <2>4. h \o <<>> = h
    OBVIOUS
  <2> QED  BY <1>1, <2>2, <2>3, <2>4, HistUnmoved DEF Hist, Files
<1>4. /\ LoadedFiles \in LevelFiles
      /\ FilesNewestFirst(LoadedFiles) /\ KeysApart(LoadedFiles)
      /\ \A l \in Levels : Current[l] \subseteq LoadedFiles[l]
  BY LoadedOrdered
<1>5. PICK c, F : c = ReplayedTable /\ F = LoadedFiles
  OBVIOUS
<1>6. heap' = <<c>> /\ Len(heap') = 1 /\ heap'[1] = c /\ live' = F
  BY <1>1, <1>5
<1>7. ASSUME NEW k \in Key, c[k] # 0
      PROVE  /\ c[k] \in 1 .. Len(log) /\ log[c[k]].key = k
             /\ \A e \in 1 .. Len(log) : log[e].key = k => e <= c[k]
  BY <1>2, <1>3, <1>5, <1>7, ReplayedIs
<1>8. WalTail' /\ LockInv' /\ AckedInv' /\ NeverEmptied'
  <2>1. WalTail'
    BY <1>1, <1>2, <1>3, TailKept
  <2>2. LockInv'
    BY <1>1, <1>2 DEF LockInv
  <2>3. AckedInv' /\ NeverEmptied'
    BY <1>1, <1>2 DEF AckedInv, SurvivalInv, NeverEmptied, NoJob, Condemned
  <2> QED  BY <2>1, <2>2, <2>3
<1>9. FilledInv'
  <2>1. usage' > 0 => Filled(heap[Len(heap)])'
    <3>1. Len(wal) > 0 => Filled(c)
      BY <1>2, <1>5, ReplayedFilled
    <3> QED  BY <1>1, <1>6, <3>1 DEF Filled
  <2>2. \A f \in Files' : Filled(sst[f])'
    BY <1>1, <1>3 DEF SurvivalInv, FilledInv, Filled
  <2>3. imm' = 0 /\ flush'.table = 0
    BY <1>1, <1>2
  <2> QED  BY <2>1, <2>2, <2>3 DEF FilledInv
<1>10. StartInv'
  BY <1>1 DEF StartInv
<1>11. Persisted'
  <2>1. Current = Listed(manifest) /\ Current' = F
    BY <1>1, <1>6 DEF Current
  <2>2. Current \in LevelFiles /\ (Current \in LevelFiles)'
    <3>1. LevelFiles' = LevelFiles
      BY <1>3 DEF LevelFiles, FileNumbers
    <3> QED  BY <1>2, <1>4, <1>5, <2>1, <3>1, LoadedType
  <2>3. \A l \in Levels : Current[l] \subseteq F[l]
    BY <1>4, <1>5
  <2>4. \A f \in Files, k \in Key : sst[f][k] \in Nat
    BY <1>2 DEF TypeOK, TablesTypeOK, Content, Files
  <2>5. \A l \in Levels : \A f \in Current[l] : \A k \in Key :
          sst[f][k] # 0 =>
            \E i \in Levels : \E g \in Current'[i] : sst[f][k] <= sst'[g][k]
    <3>1. ASSUME NEW l \in Levels, NEW f \in Current[l], NEW k \in Key
          PROVE  f \in F[l] /\ sst[f][k] <= sst[f][k]
      <4>1. f \in F[l] /\ f \in Files
        BY <2>2, <2>3 DEF LevelFiles, FileNumbers
      <4> QED  BY <2>4, <4>1
    <3> QED  BY <1>1, <2>1, <3>1
  <2>6. ASSUME NEW e \in 1 .. Len(Hist) PROVE Persists(e)'
    <3>1. Persists(e)
      BY DEF Persisted, SurvivalInv
    <3> QED  BY <1>1, <1>2, <1>3, <2>2, <2>5, <3>1, PersistsByFiles
  <2> QED  BY <1>3, <2>6 DEF Persisted
<1>12. VersionsInv'
  <2>1. Versioned(heap[1])'
    BY <1>1, <1>6, <1>7 DEF Versioned
  <2>2. \A f \in Files' : Versioned(sst[f])'
    BY <1>1, <1>3 DEF SurvivalInv, VersionsInv, Versioned
  <2> QED  BY <1>6, <2>1, <2>2 DEF VersionsInv
<1>13. OrderInv'
  <2>1. IndexInv' /\ FlushInv' /\ InputsInv' /\ OutputsInv'
    BY <1>1, <1>2, <1>6, RecoveryAssumption DEF IndexInv, FlushInv, InputsInv,
                                                OutputsInv, NoJob
  <2>2. LevelOneInv'
    BY <1>1, <1>4 DEF LevelOneInv, KeysApart, KeysIn
  <2>3. ASSUME NEW l \in Levels, NEW f \in F[l] PROVE NotOlder(c, sst[f])
    <3>1. f \in Files
      BY <1>4, <1>5 DEF LevelFiles, FileNumbers
    <3>2. sst[f] \in Content /\ Versioned(sst[f]) /\ Len(log) \in Nat
      BY <1>2, <3>1 DEF TypeOK, TablesTypeOK, WritesTypeOK, Files, SurvivalInv,
                        VersionsInv
    <3>3. ASSUME NEW k \in Key, c[k] # 0, sst[f][k] # 0
          PROVE  sst[f][k] <= c[k]
      <4>1. sst[f][k] \in 1 .. Len(log)
        BY <3>2, <3>3 DEF Content
      <4>2. log[sst[f][k]].key = k
        BY <3>2, <3>3 DEF Versioned
      <4> QED  BY <1>7, <3>3, <4>1, <4>2
    <3> QED  BY <3>3 DEF NotOlder
  <2>4. NewestFirst'
    <3>1. TablesNewestFirst(1, 0, F)'
      BY <1>1, <1>6, <2>3 DEF TablesNewestFirst, NotOlder
    <3>2. FilesNewestFirst(F)'
      BY <1>1, <1>4, <1>5 DEF FilesNewestFirst, NotOlder
    <3>3. imm' = 0 /\ flush'.table = 0
      BY <1>1, <1>2
    <3> QED  BY <1>6, <3>1, <3>2, <3>3, RecoveryAssumption DEF NewestFirst
  <2> QED  BY <2>1, <2>2, <2>4 DEF OrderInv
<1>14. MergedInv'
  BY <1>1, <1>2 DEF MergedInv, NoJob
<1>15. Undisturbed' /\ NothingLost'
  BY <1>1, <1>2 DEF SurvivalInv, Undisturbed, NothingLost, NoJob, ReplayedTtl
<1> QED  BY <1>1, <1>8, <1>9, <1>10, <1>11, <1>12, <1>13, <1>14, <1>15
         DEF SurvivalInv
-----------------------------------------------------------------------------
(* The theorems.                                                           *)

LEMMA RecoveryInitSurvives == RecoveryInit => SurvivalInv
<1> SUFFICES ASSUME RecoveryInit PROVE SurvivalInv
  OBVIOUS
<1>1. /\ Init /\ wal = <<>> /\ up = TRUE /\ called = 1 /\ acked = {}
      /\ torn = FALSE
  BY DEF RecoveryInit
<1>2. /\ heap = <<Nothing>> /\ usage = 0 /\ imm = 0 /\ sst = <<>>
      /\ flush = [pc |-> "idle", table |-> 0, file |-> 0]
      /\ obsolete = {} /\ pendingDelete = {} /\ job = NoJob /\ ttl = NoTtl
      /\ faults = 0 /\ dropped = {} /\ log = <<>>
      /\ writer = [w \in Writers |-> [pc |-> "idle", ops |-> <<>>]]
  BY <1>1 DEF Init
<1>3. TypeOK /\ OrderInv /\ VersionsInv /\ MergedInv
  BY <1>1, InitType, InitOrder, InitWrites DEF WritesInv
<1>4. Len(Hist) = 0
  <2>1. PICK w \in Writers : TRUE
    BY TheWriter
  <2>2. Logged = <<>>
    BY <1>2, <2>1, LoggedIs
  <2> QED  BY <1>2, <2>2 DEF Hist
<1>5. WalTail /\ Persisted
  BY <1>1, <1>4 DEF WalTail, Persisted
<1>6. LockInv /\ AckedInv /\ NeverEmptied /\ StartInv
  BY <1>1, <1>2 DEF LockInv, AckedInv, NeverEmptied, StartInv, NoJob, Condemned
<1>7. FilledInv
  BY <1>2 DEF FilledInv, Files
<1>8. Undisturbed /\ NothingLost
  BY <1>2 DEF Undisturbed, NothingLost, NoJob, NoTtl
<1> QED  BY <1>1, <1>3, <1>5, <1>6, <1>7, <1>8 DEF SurvivalInv

LEMMA RecoveryStuttersSurvives ==
  ASSUME RecoveryInv, SurvivalInv, UNCHANGED allVars
  PROVE  SurvivalInv'
<1>1. /\ UNCHANGED vars
      /\ UNCHANGED <<wal, manifest, up, called, acked, rotated, torn>>
  BY DEF allVars, diskVars
<1>2. UNCHANGED <<log, issued, calls, faults, dropped, heap, usage, imm, flush,
                  sst, live, readers, disk, obsolete, pendingDelete, job, ttl,
                  lock, writer>>
  BY <1>1 DEF vars, memVars, versionVars, jobVars
<1>3. OrderInv' /\ VersionsInv' /\ MergedInv'
  <2>1. TypeOK /\ OrderInv /\ VersionsInv /\ MergedInv /\ [Next]_vars
    BY <1>1 DEF RecoveryInv, SurvivalInv
  <2>2. OrderInv' /\ VersionsInv'
    BY <2>1, NextOrder, NextVersions
  <2>3. MergedInv'
    BY <1>2, <2>1 DEF MergedInv, Compacting
  <2> QED  BY <2>2, <2>3
<1>4. Files' = Files /\ Hist' = Hist /\ Listed(manifest)' = Listed(manifest)
  BY <1>1, <1>2, HistUnmoved DEF Files, Listed
<1>5. WalTail' /\ LockInv' /\ FilledInv' /\ AckedInv' /\ NeverEmptied'
  BY <1>1, <1>2, <1>4 DEF SurvivalInv, WalTail, LockInv, FilledInv, Filled,
                          AckedInv, NeverEmptied, Condemned
<1>6. Current' = Current /\ StartInv'
  BY <1>1, <1>2, <1>4 DEF SurvivalInv, Current, StartInv, FilesNewestFirst,
                          KeysApart, KeysIn
<1>7. Persisted'
  BY <1>1, <1>2, <1>4, <1>6 DEF SurvivalInv, Persisted, Persists
<1>8. Undisturbed' /\ NothingLost'
  BY <1>2 DEF SurvivalInv, Undisturbed, NothingLost
<1> QED  BY <1>1, <1>3, <1>5, <1>6, <1>7, <1>8 DEF SurvivalInv

\* A crash that mangles the manifest leaves it so.
LEMMA MangledKept ==
  ASSUME [RecoveryNext]_allVars, mangled
  PROVE  mangled'
<1>1. CASE LiveStep
  BY <1>1, Zenon DEF LiveStep, LogCall, Return, Publish, Commit, InMemory,
                     diskVars
<1>2. CASE Crash \/ CrashInPublish \/ Close \/ Restart \/ UNCHANGED allVars
  BY <1>2, Zenon DEF Crash, CrashInPublish, Close, Restart, allVars, diskVars
<1>3. CASE CrashInCommit \/ CrashInClose
  BY <1>3, Zenon DEF CrashInCommit, CrashInClose
<1> QED  BY <1>1, <1>2, <1>3 DEF RecoveryNext, LiveStep

\* The inductive invariant: unless a crash mangles the manifest every write
\* is in the WAL or in a file of the version, or a rotation has dropped its
\* record; and what a restart will load is ordered by age.
THEOREM SurvivalInvariant == RecoverySpec => []RecoveryWritesInv
<1>1. RecoveryInit => RecoveryWritesInv
  BY RecoveryInitKeeps, RecoveryInitSurvives DEF RecoveryWritesInv
<1>2. RecoveryWritesInv /\ [RecoveryNext]_allVars /\ RecoveryInv'
        => RecoveryWritesInv'
  <2> SUFFICES ASSUME RecoveryInv, RecoveryInv', [RecoveryNext]_allVars,
                      mangled \/ SurvivalInv, ~mangled'
               PROVE  SurvivalInv'
    BY DEF RecoveryWritesInv
  <2>1. SurvivalInv
    BY MangledKept
  <2>2. CASE LiveStep
    BY <2>1, <2>2, LiveSurvives
  <2>3. CASE Crash
    BY <2>1, <2>3, CrashSurvives
  <2>4. CASE CrashInPublish
    BY <2>1, <2>4, CrashInPublishSurvives
  <2>5. CASE CrashInCommit
    BY <2>1, <2>5, CrashInCommitSurvives
  <2>6. CASE Close
    BY <2>1, <2>6, CloseSurvives
  <2>7. CASE CrashInClose
    BY <2>7 DEF CrashInClose
  <2>8. CASE Restart
    BY <2>1, <2>8, RestartSurvives
  <2>9. CASE UNCHANGED allVars
    BY <2>1, <2>9, RecoveryStuttersSurvives
  <2> QED  BY <2>2, <2>3, <2>4, <2>5, <2>6, <2>7, <2>8, <2>9
           DEF RecoveryNext, LiveStep
<1>3. RecoverySpec => []RecoveryInv
  BY RecoveryInvariant
<1> QED  BY <1>1, <1>2, <1>3, PTL DEF RecoverySpec

\* A replayed record never hides a later write that is in an SSTable, and
\* the levels stay ordered by age across crashes and restarts, as long as no
\* crash mangles the manifest.
THEOREM RecoveryKeepsOrder == RecoverySpec => []RecoveredLayersOrdered
<1>1. RecoveryWritesInv => RecoveredLayersOrdered
  BY DEF RecoveryWritesInv, SurvivalInv, OrderInv, RecoveredLayersOrdered
<1> QED  BY <1>1, SurvivalInvariant, PTL

LEMMA LastAckedIs ==
  ASSUME TypeOK, AckedInv, NEW k \in Key
  PROVE  \/ LastAcked(k) = 0
         \/ LastAcked(k) \in 1 .. Len(log) /\ log[LastAcked(k)].key = k
<1> DEFINE A == {i \in acked : log[i].key = k}
           Last == CHOOSE i \in A : \A j \in A : j <= i
<1>1. LastAcked(k) = IF A = {} THEN 0 ELSE Last
  BY DEF LastAcked
<1>2. A # {} => Last \in A
  <2>1. A \subseteq acked /\ acked \subseteq 1 .. Len(log)
    BY DEF AckedInv
  <2>2. Len(log) \in Nat
    BY DEF TypeOK, WritesTypeOK
  <2> HIDE DEF A
  <2>3. A # {} => \E i \in A : \A j \in A : j <= i
    BY <2>1, <2>2, MaxExists
  <2> QED  BY <2>3
<1>3. A # {} => Last \in 1 .. Len(log) /\ log[Last].key = k
  <2> HIDE DEF Last
  <2> QED  BY <1>2 DEF AckedInv
<1> HIDE DEF A, Last
<1> QED  BY <1>1, <1>3

\* What a restart would read, from the replayed table or from the files.
LEMMA RecoveredIs ==
  ASSUME RecoveryInv, SurvivalInv, NEW k \in Key
  PROVE  /\ Recovered(k) = IF ReplayedTable[k] # 0 THEN ReplayedTable[k]
                          ELSE FileHit(LoadedFiles, k)
         /\ Recovered(k) \in Nat
         /\ \A l \in Levels : \A f \in LoadedFiles[l] :
              /\ sst[f][k] \in Nat
              /\ sst[f][k] <= FileHit(LoadedFiles, k)
<1>1. TypeOK /\ DiskTypeOK /\ WalTail
  BY DEF RecoveryInv, SurvivalInv
<1>2. PICK F : F = LoadedFiles
  OBVIOUS
<1>3. /\ F \in LevelFiles /\ FilesNewestFirst(F)
      /\ \A l \in Levels : F[l] \subseteq disk
  BY <1>2, LoadedOrdered
<1>4. Recovered(k) = IF ReplayedTable[k] # 0 THEN ReplayedTable[k]
                     ELSE FileHit(F, k)
  <2>1. [l \in Levels |-> F[l] \cap disk] = F
    BY <1>3 DEF LevelFiles
  <2> QED  BY <1>2, <2>1 DEF Recovered
<1>5. /\ FileHit(F, k) # 0 => InFiles(F, FileHit(F, k), k)
      /\ \A l \in Levels : \A f \in F[l] : sst[f][k] <= FileHit(F, k)
  BY <1>1, <1>3, FileHitNewest
<1>6. \A l \in Levels : \A f \in F[l] : sst[f][k] \in Nat
  <2>1. \A l \in Levels : F[l] \subseteq Files
    BY <1>3 DEF LevelFiles, FileNumbers
  <2> QED  BY <1>1, <2>1 DEF TypeOK, TablesTypeOK, Content, Files
<1>7. FileHit(F, k) \in Nat
  BY <1>5, <1>6 DEF InFiles
<1>8. ReplayedTable[k] # 0 => ReplayedTable[k] \in 1 .. Len(Hist)
  BY <1>1, ReplayedIs
<1> QED  BY <1>2, <1>4, <1>5, <1>6, <1>7, <1>8

\* A write that persists is read after a restart, or a later one is.
LEMMA PersistsMeansRead ==
  ASSUME RecoveryInv, SurvivalInv, NEW k \in Key,
         NEW e \in 1 .. Len(Hist), Hist[e].key = k, e \notin rotated
  PROVE  e <= Recovered(k)
<1>1. TypeOK /\ DiskTypeOK /\ WalTail /\ Persists(e)
  BY DEF RecoveryInv, SurvivalInv, Persisted
<1>2. CASE ReplayedTable[k] # 0
  <2>1. e <= ReplayedTable[k]
    BY <1>1, <1>2, ReplayedIs
  <2> QED  BY <1>2, <2>1, RecoveredIs
<1>3. CASE ReplayedTable[k] = 0
  <2>1. \A i \in 1 .. Len(wal) : wal[i].at # e
    <3> SUFFICES ASSUME NEW i \in 1 .. Len(wal), wal[i].at = e PROVE FALSE
      OBVIOUS
    <3>1. PICK j : wal[i] = RecordOf(Hist, j)
      BY <1>1 DEF WalTail
    <3>2. wal[i].op.key = k
      BY <3>1 DEF RecordOf
    <3> QED  BY <1>1, <1>3, <3>2, ReplayedIs
  <2>2. PICK l \in Levels : \E f \in Current[l] : e <= sst[f][k]
    BY <1>1, <2>1 DEF Persists
  <2>3. PICK f \in LoadedFiles[l] : e <= sst[f][k]
    BY <2>2, LoadedOrdered
  <2>4. /\ Recovered(k) = FileHit(LoadedFiles, k) /\ Recovered(k) \in Nat
        /\ sst[f][k] \in Nat /\ sst[f][k] <= FileHit(LoadedFiles, k)
    BY <1>3, RecoveredIs
  <2> QED  BY <2>3, <2>4
<1> QED  BY <1>2, <1>3

\* Every key reads after a restart as its last acknowledged write, or a later
\* one, unless a rotation dropped the record of that write: no flush, no
\* compaction, no clean-up, no shutdown and no restart loses one, wherever
\* the process dies, as long as no crash mangles the manifest.
THEOREM OnlyRotationLoses == RecoverySpec => []OnlyRotationLosesWrites
<1>1. RecoveryWritesInv => OnlyRotationLosesWrites
  <2> SUFFICES ASSUME RecoveryInv, SurvivalInv, NEW k \in Key,
                      LastAcked(k) \notin rotated
               PROVE  Recovered(k) >= LastAcked(k)
    BY DEF RecoveryWritesInv, OnlyRotationLosesWrites, SurviveUnlessRotated
  <2>1. PICK e : e = LastAcked(k)
    OBVIOUS
  <2>2. \/ e = 0
        \/ e \in 1 .. Len(log) /\ log[e].key = k
    BY <2>1, LastAckedIs DEF RecoveryInv, SurvivalInv
  <2>3. CASE e = 0
    <3>1. Recovered(k) \in Nat
      BY RecoveredIs
    <3> QED  BY <2>1, <2>3, <3>1
  <2>4. CASE e \in 1 .. Len(log) /\ log[e].key = k
    <3>1. e \in 1 .. Len(Hist) /\ Hist[e].key = k
      BY <2>4, HistIs, UnappliedType DEF RecoveryInv
    <3>2. e <= Recovered(k)
      BY <2>1, <3>1, PersistsMeansRead
    <3>3. Recovered(k) \in Nat /\ e \in Nat
      BY <2>4, RecoveredIs
    <3> QED  BY <2>1, <3>2, <3>3
  <2> QED  BY <2>2, <2>3, <2>4
<1> QED  BY <1>1, SurvivalInvariant, PTL
=============================================================================

--------------------------------- MODULE Wal --------------------------------
(***************************************************************************)
(* The write-ahead log of mini-tsdb: records cut into physical fragments,  *)
(* the stdio buffer and fsync, crashes that leave a torn fragment at the   *)
(* end of the file, replay with truncation of a corrupt tail, rotation,    *)
(* and I/O errors.  The engine calls all of it under mu_, so calls do not  *)
(* interleave; what is hard is what a crash or an error leaves behind for  *)
(* the calls after it.                                                     *)
(*                                                                         *)
(* The file is a sequence of fragments.  Bytes that are no whole fragment  *)
(* are a "stub", shorter than the header ReplayEntries insists on, or      *)
(* "torn", longer than that.  The checksum is taken to detect every        *)
(* fragment that is not one of those written.  Records in the format of    *)
(* older versions (the legacy branch of ReplayEntries) are left out.       *)
(***************************************************************************)
EXTENDS Naturals, Sequences, FiniteSets

CONSTANTS
  MaxFragments,  \* bound: fragments of a record, kMaxFragmentPayload each
  Tears,         \* how an unfinished write or a short read ends: "stub", "torn"
  MaxAppends,    \* bound: records appended in a behaviour
  MaxCrashes,    \* bound: crashes
  MaxFaults      \* bound: failed I/O calls

ASSUME TearsAssumption == Tears \subseteq {"stub", "torn"}
ASSUME BoundsAssumption ==
  {MaxFragments, MaxAppends, MaxCrashes, MaxFaults} \subseteq Nat

VARIABLES
  file,      \* the fragments in wal.log
  synced,    \* how many of them an fsync made durable
  buffer,    \* the fragments in the stdio buffer of file_
  isOpen,    \* file_ is not null
  up,        \* the process runs and has replayed the log
  fragments, \* history: the fragments of each record appended
  pending,   \* history: records of the call in progress
  acked,     \* history: records of the calls that succeeded since Rotate
  trusted,   \* history: those whose call returned while the log was whole
  misread,   \* history: those cut off by a replay whose read was short
  crashes, faults

vars == <<file, synced, buffer, isOpen, up, fragments, pending, acked,
          trusted, misread, crashes, faults>>
-----------------------------------------------------------------------------
FragmentTypes == {"full", "first", "middle", "last"}

\* The i-th of the n fragments of record r.
Fragment(r, i, n) ==
  [type |-> IF n = 1 THEN "full" ELSE IF i = 1 THEN "first"
            ELSE IF i = n THEN "last" ELSE "middle",
   rec |-> r, part |-> i]
Junk(tear) == [type |-> tear, rec |-> 0, part |-> 0]

Cut(r, n) == [i \in 1 .. n |-> Fragment(r, i, n)]

\* What may be in a file when the write of the fragments s ends early, or be
\* read of them when the read does.
Unfinished(s) ==
  {SubSeq(s, 1, n) : n \in 0 .. Len(s)}
    \cup {Append(SubSeq(s, 1, n), Junk(t)) :
            n \in {i \in 0 .. Len(s) - 1 : s[i + 1].type \in FragmentTypes},
            t \in Tears}

Init ==
  /\ file = <<>> /\ synced = 0 /\ buffer = <<>> /\ isOpen = TRUE /\ up = TRUE
  /\ fragments = <<>> /\ pending = {} /\ acked = {}
  /\ trusted = {} /\ misread = {}
  /\ crashes = 0 /\ faults = 0

Fail == faults < MaxFaults /\ faults' = faults + 1
-----------------------------------------------------------------------------
(* ReplayEntries.                                                          *)

\* assembling_fragmented_record once the first i fragments are read.
Assembling(log, i) == i > 0 /\ log[i].type \in {"first", "middle"}

\* The loop reads fragment i and goes on.
Fits(log, i) ==
  \/ log[i].type \in {"full", "first"} /\ ~Assembling(log, i - 1)
  \/ log[i].type \in {"middle", "last"} /\ Assembling(log, i - 1)

\* Where the loop ends: at the end, a stub or the first corrupt fragment.
ReadLength(log) ==
  CHOOSE n \in 0 .. Len(log) :
    /\ \A i \in 1 .. n : Fits(log, i)
    /\ n < Len(log) => ~Fits(log, n + 1)

Ends(log) ==
  {i \in 1 .. ReadLength(log) : log[i].type \in {"full", "last"}}

ValidOffsetOfWhole(log) ==  \* mutant
  LET full == {i \in Ends(log) : log[i].type = "full"}
  IN IF full = {} THEN 0 ELSE CHOOSE i \in full : full \subseteq 1 .. i

\* valid_offset: the end of the last record delivered.
ValidOffset(log) ==
  IF Ends(log) = {} THEN 0
  ELSE CHOOSE i \in Ends(log) : Ends(log) \subseteq 1 .. i

\* has_tail_corruption: a record lacks its last fragment, or the loop met
\* what is no fragment.  A stub at the very end is too short for a header,
\* so the loop ends before it without a complaint.
CorruptTail(log) ==
  LET n == ReadLength(log) IN
    \/ Assembling(log, n)
    \/ n < Len(log) /\ ~(n + 1 = Len(log) /\ log[n + 1].type = "stub")

\* What is left of the file after ftruncate.
Keep(log) ==
  IF CorruptTail(log) THEN SubSeq(log, 1, ValidOffset(log)) ELSE log

\* The n-th smallest member of S.
Nth(S, n) == CHOOSE e \in S : Cardinality(S \cap 1 .. e) = n

\* The appends whose records a replay of log delivers, in order.
Delivered(log) ==
  LET ends == Ends(log)
  IN [n \in 1 .. Cardinality(ends) |-> log[Nth(ends, n)].rec]

\* A replay of log reads all of it: what is appended can be read back.
Whole(log) ==
  ReadLength(log) = Len(log) /\ ~Assembling(log, Len(log))
-----------------------------------------------------------------------------
\* AppendRecord without a sync; NoSync, or before the sync of the call.
AppendRecord(n) ==
  /\ up /\ isOpen /\ Len(fragments) < MaxAppends
  /\ LET r == Len(fragments) + 1 IN
     /\ fragments' = Append(fragments, Cut(r, n))
     /\ buffer' = buffer \o Cut(r, n)
     /\ pending' = pending \cup {r}
  /\ UNCHANGED <<file, synced, isOpen, up, acked, trusted, misread>>
  /\ UNCHANGED <<crashes, faults>>

\* fwrite comes back short: the call fails and leaves part of the record.
AppendFails(n) ==
  /\ up /\ isOpen /\ Len(fragments) < MaxAppends
  /\ Fail
  /\ LET r == Len(fragments) + 1 IN
     /\ fragments' = Append(fragments, Cut(r, n))
     /\ \E s \in Unfinished(Cut(r, n)) \ {Cut(r, n)} : buffer' = buffer \o s
  /\ pending' = {}
  /\ UNCHANGED <<file, synced, isOpen, up, acked, trusted, misread, crashes>>

\* fflush and fsync; then the call returns OK.
Sync ==
  /\ up /\ isOpen
  /\ file' = file \o buffer /\ buffer' = <<>> /\ synced' = Len(file')
  /\ acked' = acked \cup pending /\ pending' = {}
  /\ trusted' = IF Whole(file') THEN trusted \cup pending ELSE trusted
  /\ UNCHANGED <<isOpen, up, fragments, misread, crashes, faults>>

SyncFailsKeepsBuffer ==  \* mutant
  /\ up /\ isOpen
  /\ Fail
  /\ \E n \in 0 .. Len(buffer) : file' = file \o SubSeq(buffer, 1, n)
  /\ pending' = {}
  /\ UNCHANGED <<buffer, synced, isOpen, up, fragments, acked, trusted>>
  /\ UNCHANGED <<misread, crashes>>

\* fflush, or the fsync after it, fails; so does the call.
SyncFails ==
  /\ up /\ isOpen
  /\ Fail
  /\ \E n \in 0 .. Len(buffer) :
       /\ file' = file \o SubSeq(buffer, 1, n)
       /\ buffer' = SubSeq(buffer, n + 1, Len(buffer))
  /\ pending' = {}
  /\ UNCHANGED <<synced, isOpen, up, fragments, acked, trusted, misread, crashes>>

\* The log is renamed away and started anew; the engine's flush thread calls
\* it between two calls of writers.
Rotate ==
  /\ up /\ pending = {}
  /\ file' = <<>> /\ buffer' = <<>> /\ synced' = 0
  /\ acked' = {} /\ trusted' = {} /\ misread' = {}
  /\ \/ isOpen' = TRUE /\ UNCHANGED faults
     \/ isOpen' = FALSE /\ Fail
  /\ UNCHANGED <<up, fragments, pending, crashes>>

\* The process dies, or the machine: of what no fsync covered any part may
\* be lost.  (Close, which flushes the buffer, is the case where none is.)
Crash ==
  /\ up /\ crashes < MaxCrashes /\ crashes' = crashes + 1
  /\ LET image == file \o buffer IN
     \E s \in Unfinished(SubSeq(image, synced + 1, Len(image))) :
       file' = SubSeq(file, 1, synced) \o s
  /\ buffer' = <<>> /\ isOpen' = FALSE /\ up' = FALSE /\ pending' = {}
  /\ UNCHANGED <<synced, fragments, acked, trusted, misread, faults>>

\* fread comes back short, which nobody checks: what was read is taken for
\* the whole log.  When it ends in a corrupt tail the file is cut where that
\* begins, with all the good records that were not read.
ReadShort ==
  /\ Fail
  /\ \E s \in Unfinished(file) :
       file' = IF CorruptTail(s) THEN SubSeq(file, 1, ValidOffset(s)) ELSE file
  /\ misread' = misread \cup
       {file[e].rec : e \in Ends(file) \ 1 .. Len(file')}
  /\ isOpen' = TRUE

\* The constructor and ReplayEntries.  When a file cannot be opened or cut
\* the engine, which ignores the result, goes on with what there is.
Restart ==
  /\ ~up
  /\ up' = TRUE
  /\ \/ file' = Keep(file) /\ isOpen' = TRUE /\ UNCHANGED <<misread, faults>>
     \/ file' = file /\ isOpen' \in BOOLEAN /\ Fail /\ UNCHANGED misread
     \/ ReadShort
  /\ synced' = IF synced < Len(file') THEN synced ELSE Len(file')
  /\ UNCHANGED <<buffer, fragments, pending, acked, trusted, crashes>>

Next ==
  \/ \E n \in 1 .. MaxFragments : AppendRecord(n) \/ AppendFails(n)
  \/ Sync \/ SyncFails \/ Rotate \/ Crash \/ Restart

Spec == Init /\ [][Next]_vars
-----------------------------------------------------------------------------
(* Properties.                                                             *)

\* A replay never makes a record out of fragments of two appends, never
\* delivers one twice or out of order, whatever crashes and failed appends
\* left between the fragments of good records.
ReplaysWholeRecordsInOrder ==
  /\ \A e \in Ends(file) :
       LET F == fragments[file[e].rec]
       IN Len(F) <= e /\ SubSeq(file, e - Len(F) + 1, e) = F
  /\ \A d, e \in Ends(file) : d < e => file[d].rec < file[e].rec

\* A record whose call returned OK after its sync is delivered by every
\* replay until the next rotation, however many crashes, torn tails and
\* restarts come between.
AcknowledgedAreRecoverable ==
  acked \subseteq {file[e].rec : e \in Ends(SubSeq(file, 1, synced))}

\* A record synced into a log that was whole is there after every restart,
\* whatever failed before: only the torn tail of a crash is cut off.
WholeLogSurvives ==
  trusted \subseteq {file[e].rec : e \in Ends(SubSeq(file, 1, synced))}

\* The same without the records that a short read cut off: once a record was
\* synced into a log that was whole no later crash, failed append, failed
\* sync or failed truncation takes it away, and a short read takes the
\* newest records only, never one before them.
WholeLogKeepsAcknowledged ==
  trusted \ misread \subseteq
    {file[e].rec : e \in Ends(SubSeq(file, 1, synced))}

DL == INSTANCE DurableLog WITH
        Record <- 1 .. MaxAppends,
        acked <- trusted \ misread,
        records <- Delivered(file \o buffer)

\* Fragmentation, buffering, crashes, replay and truncation together are a
\* log of whole records of which a crash only cuts those of calls that have
\* not returned, or returned when the log was no longer whole; only a replay
\* that reads too little cuts others, and these from the end.
ImplementsDurableLog == DL!Spec
=============================================================================

----------------------------- MODULE DurableLog -----------------------------
(***************************************************************************)
(* What the write-ahead log promises the engine: a sequence of records of  *)
(* which a crash may cut off the end, but never a record whose call has    *)
(* returned; a rotation empties it, and a replay that could not read all   *)
(* of it may cut off any number of the newest records.  Fragments,         *)
(* buffers and torn tails do not exist at this level.                      *)
(***************************************************************************)
EXTENDS Naturals, Sequences

CONSTANT Record

VARIABLES
  records,   \* what a replay would deliver
  acked      \* the records that must survive every crash

Held(s) == {s[i] : i \in 1 .. Len(s)}

Init == records = <<>> /\ acked = {}

Add(r) == records' = Append(records, r) /\ UNCHANGED acked

\* Calls return; only what the log holds may be promised.
Sync ==
  /\ acked \subseteq acked' /\ acked' \subseteq Held(records)
  /\ UNCHANGED records

Crash ==
  /\ \E n \in 0 .. Len(records) :
       /\ acked \subseteq Held(SubSeq(records, 1, n))
       /\ records' = SubSeq(records, 1, n)
  /\ UNCHANGED acked

\* What was promised is broken: the cut records are no longer there.
Misread ==
  \E n \in 0 .. Len(records) :
    /\ records' = SubSeq(records, 1, n)
    /\ acked' = acked \cap Held(records')

Rotate == records' = <<>> /\ acked' = {}

Next == Sync \/ (\E r \in Record : Add(r)) \/ Crash \/ Misread
  \/ Rotate

Spec == Init /\ [][Next]_<<records, acked>>
=============================================================================

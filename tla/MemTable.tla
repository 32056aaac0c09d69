------------------------------ MODULE MemTable -------------------------------
(***************************************************************************)
(* A memtable: a skip list of entries ordered by key, with the operations  *)
(* of MemTable on it.  Each runs under the memtable's own lock, so they do *)
(* not interleave; what is hard is that searches start on the upper lists  *)
(* and scans run on the lowest, and that heights are random.               *)
(*                                                                         *)
(* A node is its key, an integer in the order of TsKeyComparator.  The     *)
(* byte count mem_usage_ counts writes here.                               *)
(***************************************************************************)
EXTENDS Integers, Sequences

CONSTANTS
  TsKeys,      \* a finite set of keys
  HeadNode,    \* head_, below all keys
  Nil,         \* nullptr, above all keys
  DefaultKey,  \* TsKey{}: the empty measurement at timestamp 0
  Entries,     \* InternalEntry
  Tombstones,  \* those of type kDeletion
  NoEntry,     \* GetEntry finds nothing
  MaxHeight    \* SkipList::kMaxLevel

ASSUME NodesAssumption ==
  /\ TsKeys \cup {HeadNode, Nil, DefaultKey} \subseteq Int
  /\ HeadNode < Nil /\ \A k \in TsKeys : HeadNode < k /\ k < Nil
ASSUME EntriesAssumption ==
  Tombstones \subseteq Entries /\ NoEntry \notin Entries
ASSUME HeightAssumption == MaxHeight \in Nat \ {0}

VARIABLES
  next,      \* next_ of every node on every level
  entry,     \* the value of every node
  height,    \* max_height_
  memUsage,  \* mem_usage_, in writes
  written    \* history: the last entry written under each key

memVars == <<next, entry, height, memUsage, written>>
-----------------------------------------------------------------------------
Levels == 0 .. MaxHeight - 1
NoEntries == [k \in TsKeys |-> NoEntry]
EmptyList == [l \in Levels |-> [n \in TsKeys \cup {HeadNode} |-> Nil]]

MemInit ==
  /\ next = EmptyList /\ entry = NoEntries /\ height = 1 /\ memUsage = 0
  /\ written = NoEntries

IsAfterOrAt(k, n) == n # Nil /\ n <= k  \* mutant

\* KeyIsAfterNode
KeyIsAfterNode(k, n) == n # Nil /\ n < k

\* Where the search for key k gets to on level l from each node.
Walk(l, k) ==
  LET walk[n \in TsKeys \cup {HeadNode}] ==
        IF KeyIsAfterNode(k, next[l][n]) THEN walk[next[l][n]] ELSE n
  IN walk

\* The nodes where the search for key k turns down, one for each level.
Prev(k) ==
  LET turn[l \in 0 .. height - 1] ==
        Walk(l, k)[IF l = height - 1 THEN HeadNode ELSE turn[l + 1]]
  IN turn

FindGreaterOrEqual(k) == next[0][Prev(k)[0]]

\* SkipList::Insert, with the height that RandomHeight returns.
Insert(k, e, h) ==
  /\ entry' = [entry EXCEPT ![k] = e]
  /\ IF FindGreaterOrEqual(k) = k THEN UNCHANGED <<next, height>>
     ELSE LET before(l) == IF l < height THEN Prev(k)[l] ELSE HeadNode IN
       /\ next' = [l \in Levels |->
            IF l < h THEN [next[l] EXCEPT ![k] = next[l][before(l)],
                                          ![before(l)] = k]
            ELSE next[l]]
       /\ height' = IF h > height THEN h ELSE height

\* MemTable::Put, and Delete, which writes a tombstone.
MemWrite(k, e, h) ==
  /\ memUsage' = memUsage + 1
  /\ Insert(k, e, h)
  /\ written' = [written EXCEPT ![k] = e]

\* std::make_shared<MemTable>()
MemReset ==
  /\ next' = EmptyList /\ entry' = NoEntries /\ height' = 1 /\ memUsage' = 0
  /\ written' = NoEntries

\* The nodes on level 0 from n on that are not above key k.
ScanTo(k) ==
  LET scan[n \in TsKeys \cup {Nil}] ==
        IF n = Nil \/ n > k THEN <<>> ELSE <<n>> \o scan[next[0][n]]
  IN scan

GetEntry(k) == IF FindGreaterOrEqual(k) = k THEN entry[k] ELSE NoEntry

RangeQueryEntries(a, b) ==
  LET nodes == ScanTo(b)[FindGreaterOrEqual(a)]
  IN [i \in 1 .. Len(nodes) |-> [key |-> nodes[i], entry |-> entry[nodes[i]]]]

IterateLive ==  \* mutant
  SelectSeq(RangeQueryEntries(DefaultKey, Nil),
            LAMBDA r : r.entry \notin Tombstones)

\* IterateEntries, what a flush writes out, and Empty: both start at TsKey{}.
IterateEntries == RangeQueryEntries(DefaultKey, Nil)
Empty == FindGreaterOrEqual(DefaultKey) = Nil
-----------------------------------------------------------------------------
\* s has the entries of m with a key in K, in the order of the keys.
Lists(s, m, K) ==
  /\ \A i, j \in 1 .. Len(s) : i < j => s[i].key < s[j].key
  /\ {<<s[i].key, s[i].entry>> : i \in 1 .. Len(s)}
       = {<<k, m[k]>> : k \in {x \in K : m[x] # NoEntry}}

\* Whatever the heights of the nodes and the order of the writes, point
\* lookups that come down from the upper lists and scans along the lowest
\* find the same: the last entry written under each key, in order.  The
\* iteration of a flush finds all of them but those below TsKey{}: an empty
\* measurement's negative timestamps are lost.
MemTableFindsWhatWasWritten == memUsage > 0 =>
  /\ \A k \in TsKeys : GetEntry(k) = written[k]
  /\ \A a, b \in TsKeys :
       Lists(RangeQueryEntries(a, b), written, {k \in TsKeys : a <= k /\ k <= b})
  /\ Lists(IterateEntries, written, {k \in TsKeys : k >= DefaultKey})
=============================================================================

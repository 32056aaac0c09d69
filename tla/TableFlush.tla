------------------------------ MODULE TableFlush -----------------------------
(***************************************************************************)
(* From the memtable to the SSTable: the flush thread iterates over a full *)
(* memtable into an SSTableBuilder, while writers go on in the next one;   *)
(* queries read the finished tables.                                       *)
(***************************************************************************)
EXTENDS MemTable, SSTable

CONSTANT MaxWrites  \* bound: writes to all memtables

ASSUME WritesAssumption == MaxWrites \in Nat

\* Queries ask for the keys that a flush writes out.
ASSUME QueriesAssumption == Keys = {k \in TsKeys : k >= DefaultKey}

VARIABLES
  target,   \* the SSTable under construction, 0 for none
  source,   \* the entries still to be added to it
  handed,   \* history: what was written to the memtable of each SSTable,
            \*   as far as queries ask for it
  writes    \* writes so far (bound)

flushVars == <<target, source, handed, writes>>
allVars == <<memVars, vars, flushVars>>

FlushInit ==
  /\ MemInit /\ Init
  /\ target = 0 /\ source = <<>>
  /\ handed = [t \in Tables |-> [k \in Keys |-> NoEntry]] /\ writes = 0

\* Put, or a Delete, of any key: also of one that is in no memtable.
WriteMem ==
  /\ writes < MaxWrites /\ writes' = writes + 1
  /\ \E k \in TsKeys, e \in Entries, h \in 1 .. MaxHeight : MemWrite(k, e, h)
  /\ UNCHANGED <<vars, target, source, handed>>

\* The memtable is rotated and taken by the flush thread.
Take(t) ==
  /\ target = 0 /\ t \notin open /\ \A u \in Tables : u < t => u \in open
  /\ ~Empty
  /\ target' = t
  /\ source' = [i \in 1 .. Len(IterateEntries) |->
                  [key |-> IterateEntries[i].key,
                   entry |-> IterateEntries[i].entry, size |-> 1]]
  /\ handed' = [handed EXCEPT ![t] = [k \in Keys |-> written[k]]]
  /\ MemReset
  /\ UNCHANGED <<vars, writes>>

\* The callback of IterateEntries: SSTableBuilder::Add.
AddNext ==
  /\ target # 0 /\ source # <<>>
  /\ Add(target, Head(source)) /\ source' = Tail(source)
  /\ UNCHANGED <<memVars, target, handed, writes>>

FinishTable ==
  /\ target # 0 /\ source = <<>>
  /\ Finish(target) /\ target' = 0
  /\ UNCHANGED <<memVars, source, handed, writes>>

\* Bound: queries run next to each other once all tables are built.  A query
\* reads finished tables and the cache, a writer and a builder touch neither.
FlushNext ==
  \/ WriteMem \/ AddNext \/ FinishTable
  \/ \E t \in Tables : Take(t)
  \/ /\ writes = MaxWrites /\ memUsage = 0 /\ target = 0
     /\ \E r \in Readers : Query(r)
     /\ UNCHANGED <<memVars, flushVars>>

FlushSpec == FlushInit /\ [][FlushNext]_allVars
-----------------------------------------------------------------------------
\* A query of an SSTable returns what a client wrote to its memtable: the
\* last value or tombstone of each key in its range, through skip list,
\* blocks, index, Bloom filter and cache.
QueriesFindWhatWasWritten ==
  \A r \in Readers : LET q == query[r] IN q.pc = "done" /\ ~q.failed =>
    Lists(q.out, handed[q.table], {k \in Keys : q.begin <= k /\ k <= q.end})
=============================================================================

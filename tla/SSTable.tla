------------------------------- MODULE SSTable -------------------------------
(***************************************************************************)
(* SSTables from the builder to the reader: entries cut into blocks, the   *)
(* sparse index of last keys, the Bloom filter that grows with the keys,   *)
(* point lookups and range scans that read blocks through the shared       *)
(* BlockCache, next to each other.                                         *)
(*                                                                         *)
(* Keys are integers in the order of TsKeyComparator.  An entry has its    *)
(* key and its encoded size; the offset of a block is its number.          *)
(***************************************************************************)
EXTENDS BlockCache, FiniteSets

CONSTANTS
  Tables,       \* file names
  Keys,         \* a finite set of keys
  BlockSize,    \* block_size_
  Hash1, Hash2, \* the two hashes of every key
  NumProbes,    \* num_probes_
  BitsPerKey,   \* bits_per_key_
  InitialBits,  \* bits of an empty Bloom filter, 1024 * 8
  Readers,      \* threads in GetEntry or RangeScanEntries
  MaxFaults     \* bound: blocks that cannot be read

ASSUME TableAssumption ==
  /\ Keys \subseteq Int
  /\ InitialBits \in Nat \ {0}
  /\ {BlockSize, NumProbes, BitsPerKey, MaxFaults} \subseteq Nat
  /\ {Hash1, Hash2} \subseteq [Keys -> Nat]

VARIABLES
  added,   \* history: the entries added to each table
  open,    \* the tables finished and opened
  buffer,  \* block_buf_ of each table
  blocks,  \* the blocks of each table; the index is their last keys
  bloom,   \* each table's Bloom filter: its size and the bits that are set
  query,   \* what each reader is doing
  faults   \* blocks that could not be read so far (bound)

tableVars == <<added, open, buffer, blocks, bloom>>
vars == <<tableVars, query, faults, cacheVars>>
-----------------------------------------------------------------------------
NoQuery == [pc |-> "idle", table |-> 0, begin |-> 0, end |-> 0,
            point |-> FALSE, block |-> 0, out |-> <<>>, failed |-> FALSE]

Init ==
  /\ added = [t \in Tables |-> <<>>] /\ open = {}
  /\ buffer = [t \in Tables |-> <<>>] /\ blocks = [t \in Tables |-> <<>>]
  /\ bloom = [t \in Tables |-> [size |-> InitialBits, bits |-> {}]]
  /\ query = [r \in Readers |-> NoQuery] /\ faults = 0
  /\ CacheInit
-----------------------------------------------------------------------------
(* The builder, in a flush or a compaction.                                *)

\* The bits AddHashOnly sets for key k; 32-bit wrap-around does not matter,
\* for sizes are powers of two.
Probes(k, size) ==
  {(Hash1[k] + i * Hash2[k]) % size : i \in 0 .. NumProbes - 1}

\* EnsureCapacity: doubled until there is room for n keys.
BloomSize(size, n) ==
  CHOOSE s \in {size * 2^i : i \in 0 .. n * BitsPerKey} :
    /\ s >= n * BitsPerKey
    /\ s > size => s \div 2 < n * BitsPerKey

BloomAddForgets(b, old, k) ==  \* mutant
  LET size == BloomSize(b.size, Cardinality(old) + 1)
  IN [size |-> size,
      bits |-> Probes(k, size) \cup IF size = b.size THEN b.bits ELSE {}]

\* A larger filter is filled anew with the keys added before.
BloomAdd(b, old, k) ==
  LET size == BloomSize(b.size, Cardinality(old) + 1)
  IN [size |-> size,
      bits |-> Probes(k, size)
                 \cup IF size = b.size THEN b.bits
                      ELSE UNION {Probes(x, size) : x \in old}]

MayContain(b, k) == Probes(k, b.size) \subseteq b.bits

KeysOf(s) == {e.key : e \in ToSet(s)}
Size(s) == Charges([i \in 1 .. Len(s) |-> [charge |-> s[i].size]])

\* Add; a block that has reached block_size_ is written out (FlushBlock).
Add(t, e) ==
  /\ added' = [added EXCEPT ![t] = Append(@, e)]
  /\ bloom' = [bloom EXCEPT ![t] = BloomAdd(@, KeysOf(added[t]), e.key)]
  /\ LET block == Append(buffer[t], e) IN
     IF Size(block) >= BlockSize
       THEN /\ blocks' = [blocks EXCEPT ![t] = Append(@, block)]
            /\ buffer' = [buffer EXCEPT ![t] = <<>>]
       ELSE /\ buffer' = [buffer EXCEPT ![t] = block]
            /\ UNCHANGED blocks
  /\ UNCHANGED <<open, query, faults, cacheVars>>

\* Finish and SSTableReader::Open.
Finish(t) ==
  /\ blocks' = IF buffer[t] = <<>> THEN blocks
               ELSE [blocks EXCEPT ![t] = Append(@, buffer[t])]
  /\ buffer' = [buffer EXCEPT ![t] = <<>>]
  /\ open' = open \cup {t}
  /\ UNCHANGED <<added, bloom, query, faults, cacheVars>>
-----------------------------------------------------------------------------
(* The reader.                                                             *)

LastKey(block) == block[Len(block)].key

\* std::lower_bound over the index; a scan skips the same blocks.
LowerBound(t, k) ==
  CHOOSE i \in 1 .. Len(blocks[t]) + 1 :
    /\ \A j \in 1 .. i - 1 : LastKey(blocks[t][j]) < k
    /\ i <= Len(blocks[t]) => LastKey(blocks[t][i]) >= k

\* GetEntry of key a, or RangeScanEntries from a to b.
Begin(r, t, a, b, point) ==
  /\ query[r].pc = "idle" /\ t \in open
  /\ LET first == LowerBound(t, a)
         nothing == \/ first > Len(blocks[t])
                    \/ point /\ ~MayContain(bloom[t], a)
     IN query' = [query EXCEPT ![r] =
          [NoQuery EXCEPT !.pc = IF nothing THEN "done" ELSE "block",
             !.table = t, !.begin = a, !.end = b, !.point = point,
             !.block = first]]
  /\ UNCHANGED <<tableVars, faults, cacheVars>>

InRange(q, e) == q.begin <= e.key /\ e.key <= q.end

\* The entries of block s that query q asks for.
Matches(q, s) ==
  LET of[n \in 0 .. Len(s)] ==
        IF n = 0 THEN <<>>
        ELSE of[n - 1] \o IF InRange(q, s[n]) THEN <<s[n]>> ELSE <<>>
  IN of[Len(s)]

\* The loop body once it has the entries of its block, and the decision
\* whether there is a next one.
Scanned(q, block) ==
  [q EXCEPT
     !.out = @ \o Matches(q, block),
     !.pc = IF \/ q.point \/ q.block = Len(blocks[q.table])
               \/ \E e \in ToSet(block) : e.key > q.end
              THEN "done" ELSE "block",
     !.block = @ + 1]

\* fname_ # offset
CacheKey(q) == <<q.table, q.block>>

\* ReadBlock: the block is cached.
ReadCached(r) ==
  /\ query[r].pc = "block" /\ Hit(CacheKey(query[r]))
  /\ query' = [query EXCEPT ![r] = Scanned(@, Cached(CacheKey(@)).value)]
  /\ CacheGet(CacheKey(query[r]))
  /\ UNCHANGED <<tableVars, faults>>

\* It is not; the cache's mutex is released.
Miss(r) ==
  /\ query[r].pc = "block" /\ ~Hit(CacheKey(query[r]))
  /\ query' = [query EXCEPT ![r].pc = "fetch"]
  /\ UNCHANGED <<tableVars, faults, cacheVars>>

\* ReadAt and the checksum; then the block is cached.
Fetch(r) ==
  /\ query[r].pc = "fetch"
  /\ LET q == query[r]
         block == blocks[q.table][q.block]
     IN /\ query' = [query EXCEPT ![r] = Scanned(q, block)]
        /\ CachePut(CacheKey(q), block, Size(block))
  /\ UNCHANGED <<tableVars, faults>>

\* One of the two fails: the block counts as empty.
FetchFails(r) ==
  /\ query[r].pc = "fetch" /\ faults < MaxFaults
  /\ faults' = faults + 1
  /\ query' = [query EXCEPT ![r] = [Scanned(@, <<>>) EXCEPT !.failed = TRUE]]
  /\ UNCHANGED <<tableVars, cacheVars>>

Return(r) ==
  /\ query[r].pc = "done"
  /\ query' = [query EXCEPT ![r] = NoQuery]
  /\ UNCHANGED <<tableVars, faults, cacheVars>>

Query(r) ==
  \/ \E t \in Tables, a, b \in Keys :
       \/ a <= b /\ Begin(r, t, a, b, FALSE)
       \/ a = b /\ Begin(r, t, a, b, TRUE)
  \/ ReadCached(r) \/ Miss(r) \/ Fetch(r) \/ FetchFails(r) \/ Return(r)
-----------------------------------------------------------------------------
(* Properties.                                                             *)

Expected(q) == {e \in ToSet(added[q.table]) : InRange(q, e)}

\* A query returns exactly the entries that were added with a key in its
\* range, each once and in the order of their keys, wherever block boundaries
\* fall, whatever the Bloom filter's bits are shared with and whatever other
\* readers put into or evict from the cache; a block that cannot be read only
\* hides entries.
QueriesFindWhatWasAdded ==
  \A r \in Readers : LET q == query[r] IN q.pc = "done" =>
    /\ \A i, j \in 1 .. Len(q.out) : i < j => q.out[i].key < q.out[j].key
    /\ ToSet(q.out) \subseteq Expected(q)
    /\ ~q.failed => ToSet(q.out) = Expected(q)
=============================================================================

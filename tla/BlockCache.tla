----------------------------- MODULE BlockCache ------------------------------
(***************************************************************************)
(* The LRU cache of SSTable blocks: a list, newest first, an index into it *)
(* and a byte count, all under the cache's own mutex.  Hit counters are    *)
(* left out; Clear is called by no code but tests.                         *)
(***************************************************************************)
EXTENDS Integers, Sequences, SequencesExt

CONSTANT Capacity  \* capacity_bytes_

ASSUME CapacityAssumption == Capacity \in Nat

VARIABLES
  lru,    \* lru_: the entries, most recently used first
  map,    \* map_: the keys it has
  usage   \* usage_bytes_

cacheVars == <<lru, map, usage>>

\* The bytes of the entries of list s.
Charges(s) ==
  LET sum[n \in 0 .. Len(s)] ==
        IF n = 0 THEN 0 ELSE sum[n - 1] + s[n].charge
  IN sum[Len(s)]

CacheInit == lru = <<>> /\ map = {} /\ usage = 0

Hit(key) == key \in map

\* The place in the list that map_ points to, and the entry there.
Place(key) == CHOOSE i \in 1 .. Len(lru) : lru[i].key = key
Cached(key) == lru[Place(key)]

\* BlockCache::Get with a hit.
CacheGet(key) ==
  /\ Hit(key)
  /\ lru' = <<Cached(key)>> \o RemoveAt(lru, Place(key))
  /\ UNCHANGED <<map, usage>>

\* The bytes left when the count was b and list s is cut after n entries.
BytesLeft(s, b, n) == b - Charges(SubSeq(s, n + 1, Len(s)))

\* PruneUnlocked: how many entries of list s stay.
Kept(s, b) ==
  CHOOSE n \in 0 .. Len(s) :
    /\ n = 0 \/ BytesLeft(s, b, n) <= Capacity
    /\ n < Len(s) => BytesLeft(s, b, n + 1) > Capacity

\* The new list and byte count are list and b before the pruning.
PutFront(key, list, b) ==
  LET n == Kept(list, b)
      evicted == SubSeq(list, n + 1, Len(list))
  IN /\ lru' = SubSeq(list, 1, n)
     /\ map' = (map \cup {key}) \ {e.key : e \in ToSet(evicted)}
     /\ usage' = BytesLeft(list, b, n)

CachePutKeepsOld(key, value, charge) ==  \* mutant
  IF Capacity = 0 \/ charge > Capacity THEN UNCHANGED cacheVars
  ELSE LET new == [key |-> key, value |-> value, charge |-> charge]
       IN PutFront(key, <<new>> \o lru, usage + charge)

\* BlockCache::Put: an entry under the same key is replaced.
CachePut(key, value, charge) ==
  IF Capacity = 0 \/ charge > Capacity THEN UNCHANGED cacheVars
  ELSE LET new == [key |-> key, value |-> value, charge |-> charge]
       IN IF Hit(key)
            THEN PutFront(key, <<new>> \o RemoveAt(lru, Place(key)),
                          usage - Cached(key).charge + charge)
            ELSE PutFront(key, <<new>> \o lru, usage + charge)

\* Any readers of any tables: keys K, blocks V.
CacheNext(K, V) ==
  \E key \in K :
    \/ CacheGet(key)
    \/ \E value \in V, charge \in Nat : CachePut(key, value, charge)

CacheSpec(K, V) == CacheInit /\ [][CacheNext(K, V)]_cacheVars
-----------------------------------------------------------------------------
\* However two readers' misses of one block, replacements and evictions
\* follow each other, the byte count is that of the list and within the
\* capacity, and index and list hold the same keys, each once.
CacheAccountsForItsEntries ==
  /\ usage = Charges(lru) /\ usage <= Capacity
  /\ map = {e.key : e \in ToSet(lru)}
  /\ \A i, j \in 1 .. Len(lru) : lru[i].key = lru[j].key => i = j
=============================================================================

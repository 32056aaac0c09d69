----------------------------- MODULE EngineStore ----------------------------
(***************************************************************************)
(* The LSM pipeline implements the map of KVStore: the map is what a query *)
(* over every layer would find, the table in the hands of the flush thread *)
(* included.  Each position of the history names the value written there.  *)
(* TTL rules and I/O failures, which remove data, are outside this claim.  *)
(***************************************************************************)
EXTENDS TsdbEngine

\* The newest write of key k over all the layers, in the order of their age.
Newest(k) ==
  IF heap[Len(heap)][k] # 0 THEN heap[Len(heap)][k]
  ELSE IF imm # 0 /\ heap[imm][k] # 0 THEN heap[imm][k]
  ELSE IF flush.table # 0 /\ heap[flush.table][k] # 0
         THEN heap[flush.table][k]
  ELSE FileHit(live, k)

\* A tombstone reads as no value.
Store ==
  [k \in Key |-> IF Newest(k) # 0 /\ log[Newest(k)].type = "kDeletion" THEN 0
                 ELSE Newest(k)]

KV == INSTANCE KVStore WITH Keys <- Key, store <- Store, writes <- Len(log)

\* Every step of writers, flush and compaction is the next write of the map
\* or leaves the map alone: reordering, merging, splitting and dropping old
\* versions never changes what is stored, and no tombstone is lost above an
\* older version of its key.
ImplementsKVStore == KV!Spec
=============================================================================

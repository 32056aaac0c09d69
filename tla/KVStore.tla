------------------------------- MODULE KVStore ------------------------------
(***************************************************************************)
(* What the engine promises its client: a map from (measurement,           *)
(* timestamp) keys to writes.  The n-th write, counted over all clients,   *)
(* takes effect at once and on one key only.  Rotation, flush, compaction  *)
(* and clean-up do not exist at this level.                                *)
(***************************************************************************)
EXTENDS Naturals

CONSTANT Keys

VARIABLES
  store,   \* the write each key holds, 0 for none
  writes   \* the number of writes so far

Init == store = [k \in Keys |-> 0] /\ writes = 0

Put(k) ==
  /\ writes' = writes + 1
  /\ store' = [store EXCEPT ![k] = writes']

Delete(k) ==
  /\ writes' = writes + 1
  /\ store' = [store EXCEPT ![k] = 0]

Next == \E k \in Keys : Put(k) \/ Delete(k)

Spec == Init /\ [][Next]_<<store, writes>>
=============================================================================

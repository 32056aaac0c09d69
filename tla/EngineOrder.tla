----------------------------- MODULE EngineOrder -----------------------------
(***************************************************************************)
(* Why the layers a query searches stay ordered by age (NewestFirst): what *)
(* holds between a rotation and the end of its flush, and between the      *)
(* start of a compaction and its commit.  NewestFirst alone is not kept by *)
(* a commit; together with these parts it is, whatever the state.          *)
(***************************************************************************)
EXTENDS TsdbEngine

\* The memtable taking writes is neither the immutable one nor the one
\* being flushed, and of these two there is at most one.
IndexInv ==
  /\ imm < Len(heap) /\ flush.table < Len(heap)
  /\ flush.table # 0 => imm = 0
  /\ \A r \in Readers : view[r].active =>
       view[r].mem # 0 /\ view[r].imm < view[r].mem

\* The file a flush publishes is a copy of its table, with a number above
\* those of level 0: only the flush thread adds files there.
FlushInv ==
  flush.pc = "publish" =>
    /\ sst[flush.file] = heap[flush.table]
    /\ \A f \in live[0] : f < flush.file

\* The inputs of a job stay in the version; what is not an input is newer
\* (level 0, where flushes go on) or has no key in common (level 1).
InputsInv ==
  job.pc # "none" =>
    /\ InputsValid
    /\ IF job.level = 0
         THEN /\ \A f \in live[0] \ job.upper, h \in job.upper : h < f
              /\ \A f \in live[1] \ job.lower, h \in job.upper :
                   KeysIn(f) \cap KeysIn(h) = {}
         ELSE job.upper = live[job.level] /\ job.lower = {}

\* Every version a job writes comes from one of its inputs, into at most
\* one output, whose number is above those of the output's level.
OutputsInv ==
  /\ job.pc = "read" => job.out = {}
  /\ job.pc = "write" =>
       /\ job.left = KeysHeld(job.merged) \ KeysOf(job.out)
       /\ \A k \in KeysHeld(job.merged) :
            \E h \in Compacting : sst[h][k] = job.merged[k]
       /\ \A f \in job.out, k \in Key :
            sst[f][k] # 0 => sst[f][k] = job.merged[k]
       /\ \A f, g \in job.out : f # g => KeysIn(f) \cap KeysIn(g) = {}
       /\ \A f \in job.out, g \in live[job.level + 1] : g < f

\* No key has two versions in level 1.
LevelOneInv ==
  \A f, g \in live[1] : f # g => KeysIn(f) \cap KeysIn(g) = {}

\* The inductive invariant behind NewestFirst.
OrderInv ==
  /\ IndexInv /\ FlushInv /\ InputsInv /\ OutputsInv /\ LevelOneInv
  /\ NewestFirst
=============================================================================

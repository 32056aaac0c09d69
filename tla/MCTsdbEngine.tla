---------------------------- MODULE MCTsdbEngine ----------------------------
(* TsdbEngine on small instances: see the .cfg files of this module.       *)
EXTENDS EngineOrder, TLC

CONSTANTS w1, w2, r1

\* INT64_MIN lies below every timestamp.
BelowAll == -100

\* Writers are interchangeable: no operator chooses one.
WriterSymmetry == Permutations(Writers)
=============================================================================

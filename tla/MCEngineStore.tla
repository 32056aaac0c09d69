---------------------------- MODULE MCEngineStore ---------------------------
(* EngineStore on a small instance: see EngineRefinement.cfg.              *)
EXTENDS EngineStore

CONSTANTS w1

\* INT64_MIN lies below every timestamp.
BelowAll == -100
=============================================================================

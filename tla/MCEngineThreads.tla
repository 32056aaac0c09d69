--------------------------- MODULE MCEngineThreads ---------------------------
(* EngineThreads on a small instance: see EngineThreads.cfg.               *)
EXTENDS EngineThreads

CONSTANTS c1, c2
=============================================================================

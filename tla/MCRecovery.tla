------------------------------ MODULE MCRecovery ----------------------------
(* Recovery on small instances: see the .cfg files of this module.         *)
EXTENDS Recovery

CONSTANTS w1

\* INT64_MIN lies below every timestamp.
BelowAll == -100
=============================================================================

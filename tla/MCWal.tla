-------------------------------- MODULE MCWal -------------------------------
(* Wal on small instances: see the .cfg files of this module.              *)
EXTENDS Wal
=============================================================================

--------------------------- MODULE MCFecRecovery ---------------------------
(* Instances of FecRecovery for TLC.                                       *)
EXTENDS FecRecovery
=============================================================================

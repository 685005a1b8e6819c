--------------------------- MODULE MCJitterBuffer ---------------------------
(* Small instances of JitterBuffer; the .cfg files give the constants. *)
EXTENDS JitterBuffer
=============================================================================

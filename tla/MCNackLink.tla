----------------------------- MODULE MCNackLink -----------------------------
(* Small instances of NackLink; the .cfg files give the constants. *)
EXTENDS NackLink
=============================================================================

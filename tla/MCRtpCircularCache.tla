------------------------- MODULE MCRtpCircularCache -------------------------
(* RtpCircularCache on a ring of SeqMod numbers; the .cfg gives the rest.  *)
EXTENDS RtpCircularCache
=============================================================================

--------------------------- MODULE MCConnections ---------------------------
(* A small instance of Connections; the .cfg gives the constants.          *)
EXTENDS Connections
=============================================================================

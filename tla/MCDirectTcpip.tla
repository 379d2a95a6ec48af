--------------------------- MODULE MCDirectTcpip ----------------------------
(* DirectTcpip for TLC; the constants are in the .cfg. *)
EXTENDS DirectTcpip
=============================================================================

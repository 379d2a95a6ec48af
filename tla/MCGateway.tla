----------------------------- MODULE MCGateway ------------------------------
(* Gateway for TLC; the constants are in the .cfg. *)
EXTENDS Gateway
=============================================================================

---------------------------- MODULE MCLineEditor ----------------------------
(* LineEditor for TLC; the bound is in the .cfg. *)
EXTENDS LineEditor
=============================================================================

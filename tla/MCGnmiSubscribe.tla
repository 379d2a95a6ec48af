-------------------------- MODULE MCGnmiSubscribe --------------------------
(* The instance of GnmiSubscribe for TLC. The configuration gives the bounds:
   enough requests for the first one and one more on each side of the
   half-close, enough responses to fill the client's window and wait. *)
EXTENDS GnmiSubscribe
============================================================================

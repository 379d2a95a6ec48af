-------------------------- MODULE MCBastionServer --------------------------
(* BastionServer for TLC: a connection with two channels, the first a session,
   and one without. *)
EXTENDS BastionServer

CONSTANTS busy, plain

OneBusy ==
    [c \in {busy, plain} |->
        IF c = busy THEN <<{"session"}, ChannelTypes>> ELSE <<>>]
=============================================================================

---------------------------- MODULE MCGnmiUnary -----------------------------
(* GnmiUnary for TLC: two calls that share a device but not the credentials,
   and every way to name a device or to fail to. *)
EXTENDS GnmiUnary

Request(m, header, prefix) ==
    [method |-> m, header |-> header, prefix |-> prefix]

MCRequests ==
    {Request("Get", <<"srl1", "ann", "pw1">>, <<"srl2", "eve">>),
     Request("Set", NoTarget, <<"srl1", "bob">>),
     Request("Capabilities", <<"srl1">>, NoTarget),
     Request("Capabilities", NoTarget, NoTarget),
     Request("Get", <<"gone">>, <<"srl1">>),
     Request("Set", <<"">>, <<"srl1">>)}
=============================================================================

-------------------------- MODULE MCCommandService --------------------------
(* Instances of CommandService for TLC. *)
EXTENDS CommandService

Req(fqdn, cred, cmd, proto) ==
    [fqdn |-> fqdn, cred |-> cred, cmd |-> cmd, proto |-> proto]

Routers == {"r1", "r2"}

\* Every protocol, the default one, an unknown one, an unknown device, a
\* missing field, and a second device with other credentials.
AllRequests ==
    {Req(<<"r1", "net">>, "alice", "plain", p) : p \in {"ssh", "telnet"}}
    \cup {Req(<<"r1", "net">>, "alice", c, "netconf") :
             c \in {"plain", "unframed"}}
    \cup {Req(<<"r2", "net">>, "bob", "plain", ""),
          Req(<<"r1">>, "bob", "plain", "gnmi"),
          Req(<<"r9", "net">>, "alice", "plain", "telnet"),
          Req(<<"r1", "net">>, "alice", "", "ssh")}
============================================================================

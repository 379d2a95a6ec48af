------------------------------ MODULE Commands ------------------------------
(***************************************************************************)
(* Command requests and what they name: device, credentials, protocol      *)
(* (src/internal/grpc/server.go, src/internal/config/config.go).           *)
(***************************************************************************)
EXTENDS Naturals, Sequences

CONSTANTS
    Devices,    \* names under "devices" in the configuration
    Requests    \* the requests clients make

Protos == {"ssh", "telnet", "netconf"}
Missing == ""   \* an empty field

\* fqdn is the sequence of the labels of the name; "unframed" is a NETCONF
\* command that brings its own <rpc tag and no end-of-message mark.
ASSUME RequestsAssumption ==
    /\ \A r \in Requests :
          /\ r = [fqdn |-> r.fqdn, cred |-> r.cred, cmd |-> r.cmd,
                  proto |-> r.proto]
          /\ r.fqdn \in Seq(STRING) /\ Len(r.fqdn) > 0
          /\ r.cmd \in {"plain", "unframed", Missing}

\* GetDeviceByFQDN: the first label decides, the domain is not looked at.
Known(r) == r.fqdn[1] \in Devices

\* Where a request goes; ssh is the default protocol.
Target(r) == [device |-> r.fqdn[1], cred |-> r.cred,
              proto |-> IF r.proto = Missing THEN "ssh" ELSE r.proto]

\* What the validation of ExecuteCommand wants.
Complete(r) == Missing \notin {r.fqdn[1], r.cred, r.cmd}
============================================================================

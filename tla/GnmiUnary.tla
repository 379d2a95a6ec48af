----------------------------- MODULE GnmiUnary ------------------------------
(***************************************************************************)
(* Capabilities, Get and Set of the gNMI proxy (src/internal/gnmi/         *)
(* server.go:36-212). A call names its device and credentials in the       *)
(* x-gnmi-target header or in the target of the request's prefix, gets a   *)
(* client connection of its own, has 30 seconds for the device's answer,   *)
(* and closes the connection when it returns.                              *)
(* A target is the sequence of its parts, device:user:password, the device *)
(* being the first label of the name (config.GetDeviceByFQDN).             *)
(***************************************************************************)
EXTENDS Naturals, Sequences

CONSTANTS
    Calls,      \* the calls in progress
    Requests,   \* bound: what the clients ask for
    Devices,    \* names under "devices" in the configuration
    Texts       \* bound: the texts that the parts of a target can be

NoTarget == <<>>
Methods == {"Capabilities", "Get", "Set"}

ASSUME TextsAssumption == {"", "admin", "NokiaSrl1!"} \subseteq Texts
ASSUME RequestsAssumption ==
    \A r \in Requests :
        /\ r = [method |-> r.method, header |-> r.header, prefix |-> r.prefix]
        /\ r.method \in Methods
        /\ r.header \in Seq(Texts) /\ r.prefix \in Seq(Texts)
        /\ r.method = "Capabilities" => r.prefix = NoTarget

Errors == {"InvalidArgument", "Unavailable", "DeadlineExceeded", "Canceled",
           "deviceError"}
NoPeer == [device |-> "", username |-> "", password |-> ""]
Peers == [device : Texts, username : Texts, password : Texts]

VARIABLES
    h,          \* where each handler is
    req,        \* its request
    target,     \* the device and credentials it has parsed
    conn,       \* its connection: "none", "open", "closed"
    auth,       \* whom the connection leads to, with what credentials
    dev,        \* the device: "idle", "asked", "done", "failed"
    got,        \* ghost: the peer the request arrived at, and as whom
    result

vars == <<h, req, target, conn, auth, dev, got, result>>

TypeOK ==
    /\ h \in [Calls -> {"idle", "target", "client", "call", "wait",
                        "returned"}]
    /\ req \in [Calls -> Requests]
    /\ target \in [Calls -> Peers]
    /\ conn \in [Calls -> {"none", "open", "closed"}]
    /\ auth \in [Calls -> Peers]
    /\ dev \in [Calls -> {"idle", "asked", "done", "failed"}]
    /\ got \in [Calls -> Peers]
    /\ result \in [Calls -> {"none", "response"} \cup Errors]
    /\ \A c \in Calls : result[c] = "none" <=> h[c] /= "returned"

Init ==
    /\ h = [c \in Calls |-> "idle"]
    /\ req \in [Calls -> Requests]
    /\ target = [c \in Calls |-> NoPeer]
    /\ conn = [c \in Calls |-> "none"]
    /\ auth = [c \in Calls |-> NoPeer]
    /\ dev = [c \in Calls |-> "idle"]
    /\ got = [c \in Calls |-> NoPeer]
    /\ result = [c \in Calls |-> "none"]

----------------------------------------------------------------------------
\* The handlers.

Begin(c) ==
    /\ h[c] = "idle"
    /\ h' = [h EXCEPT ![c] = "target"]
    /\ UNCHANGED <<req, target, conn, auth, dev, got, result>>

\* A return that does not run the deferred conn.Close.
ReturnOpen(c, r) ==
    /\ h' = [h EXCEPT ![c] = "returned"]
    /\ result' = [result EXCEPT ![c] = r]
    /\ UNCHANGED conn

\* The deferred conn.Close runs on every return after getBackendClient.
Return(c, r) ==
    /\ h' = [h EXCEPT ![c] = "returned"]
    /\ result' = [result EXCEPT ![c] = r]
    /\ conn' = [conn EXCEPT ![c] = IF @ = "open" THEN "closed" ELSE @]

\* parseTarget: parts that are missing have a default, parts after the third
\* are not looked at.
parseTarget(t) ==
    [device   |-> t[1],
     username |-> IF Len(t) >= 2 THEN t[2] ELSE "admin",
     password |-> IF Len(t) >= 3 THEN t[3] ELSE "NokiaSrl1!"]

\* The prefix looked at before the header.
PrefixFirst(r) == IF r.prefix /= NoTarget THEN r.prefix ELSE r.header

\* A header that is there counts, an empty prefix target does not.
HeaderFirst(r) == IF r.header /= NoTarget THEN r.header ELSE r.prefix

getTargetFromContext(c) ==
    /\ h[c] = "target"
    /\ \/ /\ HeaderFirst(req[c]) = NoTarget
          /\ Return(c, "InvalidArgument")
          /\ UNCHANGED target
       \/ /\ HeaderFirst(req[c]) /= NoTarget
          /\ h' = [h EXCEPT ![c] = "client"]
          /\ target' = [target EXCEPT ![c] = parseTarget(HeaderFirst(req[c]))]
          /\ UNCHANGED <<conn, result>>
    /\ UNCHANGED <<req, auth, dev, got>>

\* The open connection to the same device used again.
Pooled(c) ==
    \/ \E d \in Calls :
          /\ conn[d] = "open" /\ auth[d].device = target[c].device
          /\ auth' = [auth EXCEPT ![c] = auth[d]]
    \/ /\ \A d \in Calls :
             conn[d] = "open" => auth[d].device /= target[c].device
       /\ auth' = [auth EXCEPT ![c] = target[c]]

\* A connection for this call alone, with basicAuth for its credentials.
NewClient(c) == auth' = [auth EXCEPT ![c] = target[c]]

\* NewClient does not connect; it fails for an address that it cannot parse,
\* and then so does the second attempt, without TLS.
getBackendClient(c) ==
    /\ h[c] = "client"
    /\ \/ Return(c, "Unavailable") /\ UNCHANGED auth
       \/ /\ target[c].device \in Devices
          /\ NewClient(c)
          /\ conn' = [conn EXCEPT ![c] = "open"]
          /\ h' = [h EXCEPT ![c] = "call"]
          /\ UNCHANGED result
    /\ UNCHANGED <<req, target, dev, got>>

\* client.Capabilities, Get or Set, which connects first.
Call(c) ==
    /\ h[c] = "call"
    /\ \/ /\ h' = [h EXCEPT ![c] = "wait"]
          /\ UNCHANGED <<conn, result>>
       \/ Return(c, "Unavailable")
    /\ UNCHANGED <<req, target, auth, dev, got>>

Answered(c) ==
    /\ h[c] = "wait"
    /\ \/ dev[c] = "done" /\ Return(c, "response")
       \/ dev[c] = "failed" /\ Return(c, "deviceError")
    /\ UNCHANGED <<req, target, auth, dev, got>>

\* The connection is lost before the answer.
Lost(c) ==
    /\ h[c] = "wait"
    /\ Return(c, "Unavailable")
    /\ UNCHANGED <<req, target, auth, dev, got>>

\* context.WithTimeout forgotten: only the client ends the wait.
NoTimeout(c) ==
    /\ h[c] = "wait" /\ dev[c] = "done"
    /\ Return(c, "DeadlineExceeded")
    /\ UNCHANGED <<req, target, auth, dev, got>>

\* 30 seconds after the call.
Timeout(c) ==
    /\ h[c] = "wait"
    /\ Return(c, "DeadlineExceeded")
    /\ UNCHANGED <<req, target, auth, dev, got>>

\* The client gives up: its context is the parent of the call's.
Cancel(c) ==
    /\ h[c] = "wait"
    /\ Return(c, "Canceled")
    /\ UNCHANGED <<req, target, auth, dev, got>>

----------------------------------------------------------------------------
\* The devices. A request that is on its way may arrive, and a device may do
\* what it asks for, after the call has been given up.

Arrive(c) ==
    /\ h[c] \in {"wait", "returned"} /\ conn[c] /= "none" /\ dev[c] = "idle"
    /\ h[c] = "returned" => result[c] \in {"DeadlineExceeded", "Canceled"}
    /\ dev' = [dev EXCEPT ![c] = "asked"]
    /\ got' = [got EXCEPT ![c] = auth[c]]
    /\ UNCHANGED <<h, req, target, conn, auth, result>>

Answer(c) ==
    /\ dev[c] = "asked"
    /\ \E a \in {"done", "failed"} : dev' = [dev EXCEPT ![c] = a]
    /\ UNCHANGED <<h, req, target, conn, auth, got, result>>

----------------------------------------------------------------------------
Handler(c) == getTargetFromContext(c) \/ getBackendClient(c) \/ Call(c)
Device(c) == Arrive(c) \/ Answer(c)

Next ==
    \E c \in Calls :
        \/ Begin(c) \/ Handler(c) \/ Answered(c) \/ Lost(c) \/ Timeout(c)
        \/ Cancel(c) \/ Device(c)

Spec == Init /\ [][Next]_vars

\* Handlers run and the timer goes off; devices may stay silent for ever.
FairSpec ==
    /\ Spec
    /\ \A c \in Calls :
          WF_vars(Handler(c)) /\ WF_vars(Answered(c)) /\ WF_vars(Timeout(c))

----------------------------------------------------------------------------
\* Properties.

\* The device and the credentials that the client has named: by the header if
\* there is one, in full and in its own right.
Names(r, p) ==
    LET t == IF r.header = NoTarget THEN r.prefix ELSE r.header IN
    /\ t /= NoTarget /\ p.device = t[1]
    /\ Len(t) > 1 => p.username = t[2]
    /\ Len(t) > 2 => p.password = t[3]
    /\ Len(t) < 2 => p.username = "admin"
    /\ Len(t) < 3 => p.password = "NokiaSrl1!"

\* A request arrives nowhere but at the configured device that its own call
\* names, with the credentials of its own call, whatever other calls do.
OwnDeviceOwnCredentials ==
    \A c \in Calls :
        got[c] /= NoPeer => got[c].device \in Devices /\ Names(req[c], got[c])

\* No call leaves a connection behind, however it ends.
ConnectionClosed ==
    \A c \in Calls : h[c] = "returned" => conn[c] /= "open"

\* Every call returns, from a silent device too.
CallsReturn == \A c \in Calls : (h[c] = "target") ~> (h[c] = "returned")
=============================================================================

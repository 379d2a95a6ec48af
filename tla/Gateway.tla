------------------------------ MODULE Gateway -------------------------------
(***************************************************************************)
(* The life of the process (src/cmd/gateway/main.go): configuration and    *)
(* logger, the three servers in goroutines of their own, the error channel *)
(* and the signal channel, and the exit, which takes everything with it.   *)
(* A call is whatever a server does for a client; what it does is the      *)
(* matter of the other modules.                                            *)
(***************************************************************************)
EXTENDS Naturals

CONSTANTS
    ErrCap,     \* capacity of errChan
    MaxCalls    \* bound: calls in progress at one server

\* One place for each server (main.go:53).
ASSUME ErrCapAssumption == ErrCap \in Nat /\ ErrCap >= 3
ASSUME MaxCallsAssumption == MaxCalls \in Nat

Servers == {"grpc", "gnmi", "ssh"}

VARIABLES
    main,       \* where main is
    srv,        \* the goroutine of each server
    errChan,    \* errors waiting in errChan
    shutdown,   \* signals waiting in shutdownChan
    code,       \* how the process ended
    calls,      \* calls in progress
    asked       \* ghost: a signal has been sent

vars == <<main, srv, errChan, shutdown, code, calls, asked>>

\* Until signal.Notify a signal finds the default handler.
Unnotified == {"config", "logger", "notify"}

TypeOK ==
    /\ main \in Unnotified \cup {"start", "wait", "exited"}
    /\ srv \in [Servers -> {"none", "starting", "serving", "failed", "ended"}]
    /\ errChan \in 0 .. ErrCap
    /\ shutdown \in 0 .. 1
    /\ code \in {"none", "zero", "one", "killed"}
    /\ code = "none" <=> main /= "exited"
    /\ calls \in [Servers -> 0 .. MaxCalls]
    /\ asked \in BOOLEAN

Init ==
    /\ main = "config"
    /\ srv = [s \in Servers |-> "none"]
    /\ errChan = 0 /\ shutdown = 0
    /\ code = "none"
    /\ calls = [s \in Servers |-> 0]
    /\ asked = FALSE

Running == main /= "exited"

\* The process ends, and with it every goroutine and every call.
Exit(how) ==
    /\ main' = "exited" /\ code' = how
    /\ calls' = [s \in Servers |-> 0]

----------------------------------------------------------------------------
\* main.

\* A step of the set-up that may fail.
SetUp(at, next) ==
    /\ main = at
    /\ \/ main' = next /\ UNCHANGED <<code, calls>>
       \/ Exit("one")
    /\ UNCHANGED <<srv, errChan, shutdown, asked>>

\* The file cannot be read or is no YAML; whatever else it says is taken.
LoadConfig == SetUp("config", "logger")

\* The directory or the file of the log cannot be created; an unknown level
\* is no error.
InitLogger == SetUp("logger", "notify")

\* signal.Notify takes the signals over from the default handler.
Notify ==
    /\ main = "notify"
    /\ main' = "start"
    /\ UNCHANGED <<srv, errChan, shutdown, code, calls, asked>>

\* Three go statements, then the log lines: nothing waits for the servers.
Start ==
    /\ main = "start"
    /\ main' = "wait"
    /\ srv' = [s \in Servers |-> "starting"]
    /\ UNCHANGED <<errChan, shutdown, code, calls, asked>>

\* select: either case when both are ready.
TakeError ==
    /\ main = "wait" /\ errChan > 0
    /\ errChan' = errChan - 1
    /\ Exit("one")
    /\ UNCHANGED <<srv, shutdown, asked>>

\* The same end for both cases of the select.
TakeSignalAsError ==
    /\ main = "wait" /\ shutdown > 0
    /\ shutdown' = shutdown - 1
    /\ Exit("one")
    /\ UNCHANGED <<srv, errChan, asked>>

TakeSignal ==
    /\ main = "wait" /\ shutdown > 0
    /\ shutdown' = shutdown - 1
    /\ Exit("zero")
    /\ UNCHANGED <<srv, errChan, asked>>

----------------------------------------------------------------------------
\* The servers.

\* net.Listen, for the bastion after NewBastionServer.
Listen(s) ==
    /\ Running /\ srv[s] = "starting"
    /\ srv' = [srv EXCEPT ![s] = "serving"]
    /\ UNCHANGED <<main, errChan, shutdown, code, calls, asked>>

\* A gRPC server returns when its listener fails; the bastion's accept loop
\* goes on after every error.
MayFail(s) == srv[s] = "starting" \/ (srv[s] = "serving" /\ s /= "ssh")

Fails(s) ==
    /\ Running /\ MayFail(s)
    /\ srv' = [srv EXCEPT ![s] = "failed"]
    /\ UNCHANGED <<main, errChan, shutdown, code, calls, asked>>

\* A server that is tried again and reports each failure.
ReportEach(s) ==
    /\ Running /\ srv[s] = "failed"
    /\ errChan < ErrCap
    /\ errChan' = errChan + 1
    /\ UNCHANGED <<main, srv, shutdown, code, calls, asked>>

Report(s) ==
    /\ Running /\ srv[s] = "failed"
    /\ errChan < ErrCap
    /\ errChan' = errChan + 1
    /\ srv' = [srv EXCEPT ![s] = "ended"]
    /\ UNCHANGED <<main, shutdown, code, calls, asked>>

----------------------------------------------------------------------------
\* The environment.

CallBegins(s) ==
    /\ Running /\ srv[s] = "serving" /\ calls[s] < MaxCalls
    /\ calls' = [calls EXCEPT ![s] = @ + 1]
    /\ UNCHANGED <<main, srv, errChan, shutdown, code, asked>>

CallEnds(s) ==
    /\ calls[s] > 0
    /\ calls' = [calls EXCEPT ![s] = @ - 1]
    /\ UNCHANGED <<main, srv, errChan, shutdown, code, asked>>

\* os.Interrupt or SIGTERM. The runtime drops a signal that finds the channel
\* full; without a buffer, one that finds nobody receiving.
BufferNone == IF main = "wait" THEN 1 ELSE 0
BufferOne == 1

Signal ==
    /\ Running
    /\ asked' = TRUE
    /\ IF main \in Unnotified
       THEN Exit("killed") /\ UNCHANGED shutdown
       ELSE /\ \/ shutdown < BufferOne /\ shutdown' = shutdown + 1
               \/ shutdown >= BufferOne /\ UNCHANGED shutdown
            /\ UNCHANGED <<main, code, calls>>
    /\ UNCHANGED <<srv, errChan>>

----------------------------------------------------------------------------
Main == LoadConfig \/ InitLogger \/ Notify \/ Start \/ TakeError \/ TakeSignal
Server(s) == Listen(s) \/ Fails(s) \/ Report(s)

Next ==
    \/ Main \/ Signal
    \/ \E s \in Servers : Server(s) \/ CallBegins(s) \/ CallEnds(s)

Spec == Init /\ [][Next]_vars

\* main and the server goroutines run when they can. A server that serves
\* need not fail, a call need not end, nobody has to send a signal.
FairSpec ==
    /\ Spec
    /\ WF_vars(Main)
    /\ \A s \in Servers :
          /\ WF_vars(Report(s))
          /\ WF_vars(Listen(s) \/ (srv[s] = "starting" /\ Fails(s)))

----------------------------------------------------------------------------
\* Properties.

\* The exit code tells the truth to whoever supervises the process: 1 only
\* when loading or a server has failed, 0 only when a signal had asked for the
\* end, and a signal that comes before signal.Notify is the only thing that
\* ends the process without main.
CodeHasCause ==
    LET started == \E s \in Servers : srv[s] /= "none" IN
    /\ code = "one" /\ started => \E s \in Servers : srv[s] = "ended"
    /\ code \in {"zero", "killed"} => asked
    /\ code = "zero" => started
    /\ code = "killed" => ~started

\* No server is down for good while the process runs on: a failure ends the
\* process, and so does a signal, whenever they come, in whatever order, and
\* whatever calls are in progress, which may never end.
CauseEndsProcess ==
    (asked \/ \E s \in Servers : srv[s] = "failed") ~> ~Running

\* Several servers may fail at once: none of them waits for main to take its
\* error, so that each has returned by the time it is reported.
NobodyWaits == \A s \in Servers : srv[s] = "failed" => errChan < ErrCap
=============================================================================

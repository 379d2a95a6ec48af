--------------------------- MODULE GnmiSubscribe ---------------------------
(***************************************************************************)
(* The gNMI Subscribe proxy (src/internal/gnmi/server.go:214-293): the     *)
(* handler sets up a stream to the device, starts one goroutine per        *)
(* direction and returns the first error either of them reports.           *)
(* Client, device and the two gRPC streams are the environment: messages   *)
(* arrive in order, each stream ends with a status, and returning from the *)
(* handler cancels both streams (the device's is derived from the          *)
(* client's, and conn.Close is deferred).  Either side may send a message  *)
(* that is larger than gRPC receives by default.                           *)
(* Messages are numbered: a counter stands for the messages 1 .. counter.  *)
(***************************************************************************)
EXTENDS Naturals, Sequences

CONSTANTS
    MaxReqs,    \* bound: subscribe requests the client sends
    MaxResps,   \* bound: responses the device sends
    Window      \* responses the transport takes ahead of the client

ASSUME MaxReqsAssumption == MaxReqs \in Nat
ASSUME MaxRespsAssumption == MaxResps \in Nat
ASSUME WindowAssumption == Window \in Nat \ {0}

ErrCap == 2     \* capacity of errChan: one slot per goroutine

VARIABLES
    \* the client
    reqs,       \* requests it has sent
    bigReq,     \* the one that is too large, or 0
    clientEnd,  \* "open", "closed" (half-closed) or "cancelled"
    seen,       \* responses it has read
    \* the device
    resps,      \* responses it has sent
    bigResp,    \* the one that is too large, or 0
    deviceEnd,  \* "open", "ok", "error" (status sent) or "lost" (connection)
    halfClosed, \* the gateway has called CloseSend
    \* the handler
    h,          \* where Subscribe is
    result,     \* what it returned
    up,         \* client-to-device goroutine
    down,       \* device-to-client goroutine
    recvd,      \* requests received from the client
    sent,       \* requests sent to the device
    got,        \* responses received from the device
    passed,     \* responses sent to the client
    errChan

vars == <<reqs, bigReq, clientEnd, seen, resps, bigResp, deviceEnd, halfClosed,
          h, result, up, down, recvd, sent, got, passed, errChan>>
clientVars == <<reqs, bigReq, clientEnd, seen>>
deviceVars == <<resps, bigResp, deviceEnd>>
upVars == <<up, recvd, sent, halfClosed>>
downVars == <<down, got, passed>>

Errors == {"nil", "clientErr", "deviceErr", "eof", "sendErr"}
Results == Errors \cup {"none", "InvalidArgument", "Unavailable", "Internal"}

TypeOK ==
    /\ reqs \in 0 .. MaxReqs /\ bigReq \in 0 .. reqs
    /\ clientEnd \in {"open", "closed", "cancelled"}
    /\ seen \in Nat
    /\ resps \in 0 .. MaxResps /\ bigResp \in 0 .. resps
    /\ deviceEnd \in {"open", "ok", "error", "lost"}
    /\ halfClosed \in BOOLEAN
    /\ h \in {"recv", "target", "subscribe", "initial", "wait", "returned"}
    /\ result \in Results
    /\ up \in {"none", "recv", "send", "ended"}
    /\ down \in {"none", "recv", "send", "ended"}
    /\ recvd \in Nat /\ sent \in Nat /\ got \in Nat /\ passed \in Nat
    /\ errChan \in Seq(Errors) /\ Len(errChan) <= ErrCap

Init ==
    /\ reqs = 0 /\ bigReq = 0 /\ clientEnd = "open" /\ seen = 0
    /\ resps = 0 /\ bigResp = 0 /\ deviceEnd = "open" /\ halfClosed = FALSE
    /\ h = "recv" /\ result = "none"
    /\ up = "none" /\ down = "none"
    /\ recvd = 0 /\ sent = 0 /\ got = 0 /\ passed = 0
    /\ errChan = <<>>

----------------------------------------------------------------------------
\* The environment.

\* Message n may be the one that is too large.
Sized(big, n) == IF big = 0 THEN {0, n} ELSE {big}

ClientSend ==
    /\ clientEnd = "open" /\ reqs < MaxReqs /\ h /= "returned"
    /\ reqs' = reqs + 1 /\ bigReq' \in Sized(bigReq, reqs')
    /\ UNCHANGED <<clientEnd, seen, deviceVars, h, result, upVars, downVars,
                   errChan>>

\* CloseSend, or the client cancels or disconnects.
ClientEnds ==
    /\ h /= "returned"
    /\ \/ clientEnd = "open" /\ clientEnd' = "closed"
       \/ clientEnd /= "cancelled" /\ clientEnd' = "cancelled"
    /\ UNCHANGED <<reqs, bigReq, seen, deviceVars, h, result, upVars, downVars,
                   errChan>>

ClientReads ==
    /\ seen < passed
    /\ seen' = seen + 1
    /\ UNCHANGED <<reqs, bigReq, clientEnd, deviceVars, h, result, upVars,
                   downVars, errChan>>

\* The device streams once it has the first request, and ends on its own.
DeviceSend ==
    /\ sent > 0 /\ deviceEnd = "open" /\ resps < MaxResps
    /\ resps' = resps + 1 /\ bigResp' \in Sized(bigResp, resps')
    /\ UNCHANGED <<clientVars, deviceEnd, h, result, upVars, downVars, errChan>>

DeviceEnds ==
    /\ sent > 0 /\ deviceEnd = "open"
    /\ deviceEnd' \in {"ok", "error", "lost"}
    /\ UNCHANGED <<clientVars, resps, bigResp, h, result, upVars, downVars,
                   errChan>>

----------------------------------------------------------------------------
\* The handler up to the start of the two goroutines.

Return(r) == h' = "returned" /\ result' = r

\* The server stream's Recv: the next request, io.EOF after a half-close, or
\* an error for a request that is too large or a stream whose context is
\* cancelled.
ReqTooLarge == recvd + 1 = bigReq
CanRecv == recvd < reqs /\ ~ReqTooLarge
RecvEOF == recvd = reqs /\ clientEnd = "closed"
RecvError == ReqTooLarge \/ clientEnd = "cancelled" \/ h = "returned"

\* The status of a stream that ends before its first request.
FirstError == "InvalidArgument"

RecvFirst ==
    /\ h = "recv"
    /\ \/ CanRecv /\ recvd' = 1 /\ h' = "target" /\ UNCHANGED result
       \/ (RecvEOF \/ RecvError) /\ Return(FirstError)
          /\ UNCHANGED recvd
    /\ UNCHANGED <<clientVars, deviceVars, up, sent, halfClosed, downVars,
                   errChan>>

\* getTargetFromContext and getBackendClient; the connection is only dialled
\* when the first call uses it.
Target ==
    /\ h = "target"
    /\ \/ h' = "subscribe" /\ UNCHANGED result
       \/ Return("InvalidArgument")     \* no target named
       \/ Return("Unavailable")         \* unknown device
    /\ UNCHANGED <<clientVars, deviceVars, upVars, downVars, errChan>>

SubscribeBackend ==
    /\ h = "subscribe"
    /\ \/ h' = "initial" /\ UNCHANGED result
       \/ Return("Internal")
    /\ UNCHANGED <<clientVars, deviceVars, upVars, downVars, errChan>>

SendInitial ==
    /\ h = "initial"
    /\ \/ /\ sent' = 1
          /\ h' = "wait" /\ up' = "recv" /\ down' = "recv"
          /\ UNCHANGED result
       \/ Return("Internal") /\ UNCHANGED <<sent, up, down>>
    /\ UNCHANGED <<clientVars, deviceVars, recvd, halfClosed, got, passed,
                   errChan>>

\* return <-errChan, with the deferred conn.Close.
Wait ==
    /\ h = "wait" /\ errChan /= <<>>
    /\ Return(Head(errChan))
    /\ errChan' = Tail(errChan)
    /\ UNCHANGED <<clientVars, deviceVars, upVars, downVars>>

----------------------------------------------------------------------------
\* Client to device. A goroutine ends by putting its error into errChan, for
\* which it waits while there is no room.

\* An unbuffered errChan: only the waiting handler takes an error.
ReportUnbuffered(e) ==
    h = "wait" /\ errChan = <<>> /\ errChan' = Append(errChan, e)

Report(e) == Len(errChan) < ErrCap /\ errChan' = Append(errChan, e)

UpRecv ==
    /\ up = "recv" /\ CanRecv
    /\ recvd' = recvd + 1 /\ up' = "send"
    /\ UNCHANGED <<sent, halfClosed, errChan>>

\* Only the half-close is not reported.
UpEOFReported ==
    /\ up = "recv" /\ RecvEOF
    /\ halfClosed' = TRUE /\ up' = "ended"
    /\ Report("eof")
    /\ UNCHANGED <<recvd, sent>>

UpEOF ==
    /\ up = "recv" /\ RecvEOF
    /\ halfClosed' = TRUE /\ up' = "ended"
    /\ UNCHANGED <<recvd, sent, errChan>>

UpErrorCloses ==
    /\ up = "recv" /\ RecvError
    /\ Report("clientErr") /\ up' = "ended"
    /\ halfClosed' = TRUE
    /\ UNCHANGED <<recvd, sent>>

UpError ==
    /\ up = "recv" /\ RecvError
    /\ Report("clientErr") /\ up' = "ended"
    /\ UNCHANGED <<recvd, sent, halfClosed>>

UpSend ==
    /\ up = "send" /\ h /= "returned"
    /\ sent' = sent + 1 /\ up' = "recv"
    /\ UNCHANGED <<recvd, halfClosed, errChan>>

\* A Recv that is refused a response too large finishes the device's stream.
RespTooLarge == down \in {"recv", "ended"} /\ got + 1 = bigResp
StreamOver == deviceEnd /= "open" \/ clientEnd = "cancelled" \/ RespTooLarge

\* Send reports io.EOF once the device's stream is known to have ended or is
\* cancelled.
UpSendFails ==
    /\ up = "send"
    /\ StreamOver \/ h = "returned"
    /\ Report("eof") /\ up' = "ended"
    /\ UNCHANGED <<recvd, sent, halfClosed>>

Up ==
    /\ UpRecv \/ UpEOF \/ UpError \/ UpSend \/ UpSendFails
    /\ UNCHANGED <<clientVars, deviceVars, h, result, downVars>>

----------------------------------------------------------------------------
\* Device to client.

DownRecv ==
    /\ down = "recv" /\ got < resps /\ ~RespTooLarge
    /\ got' = got + 1 /\ down' = "send"
    /\ UNCHANGED <<passed, errChan>>

DownEOFSilent ==
    /\ down = "recv" /\ got = resps /\ deviceEnd = "ok"
    /\ down' = "ended"
    /\ UNCHANGED <<got, passed, errChan>>

DownEOF ==
    /\ down = "recv" /\ got = resps /\ deviceEnd = "ok"
    /\ Report("nil") /\ down' = "ended"
    /\ UNCHANGED <<got, passed>>

\* The device's status follows its last response; a lost connection or a
\* cancelled context may overtake responses.
DeviceError ==
    \/ RespTooLarge
    \/ got = resps /\ deviceEnd = "error"
    \/ deviceEnd = "lost" \/ clientEnd = "cancelled" \/ h = "returned"

DownErrorAsEnd ==
    /\ down = "recv" /\ DeviceError
    /\ Report("nil") /\ down' = "ended"
    /\ UNCHANGED <<got, passed>>

DownError ==
    /\ down = "recv" /\ DeviceError
    /\ Report("deviceErr") /\ down' = "ended"
    /\ UNCHANGED <<got, passed>>

\* Send waits while the client does not read.
DownSendOrDrop ==
    /\ down = "send" /\ h /= "returned"
    /\ passed' = IF passed - seen < Window THEN passed + 1 ELSE passed
    /\ down' = "recv"
    /\ UNCHANGED <<got, errChan>>

DownSend ==
    /\ down = "send" /\ h /= "returned"
    /\ passed - seen < Window
    /\ passed' = passed + 1 /\ down' = "recv"
    /\ UNCHANGED <<got, errChan>>

DownSendFails ==
    /\ down = "send"
    /\ clientEnd = "cancelled" \/ h = "returned"
    /\ Report("sendErr") /\ down' = "ended"
    /\ UNCHANGED <<got, passed>>

Down ==
    /\ DownRecv \/ DownEOF \/ DownError \/ DownSend \/ DownSendFails
    /\ UNCHANGED <<clientVars, deviceVars, h, result, upVars>>

----------------------------------------------------------------------------
Environment ==
    ClientSend \/ ClientEnds \/ ClientReads \/ DeviceSend \/ DeviceEnds
Setup == RecvFirst \/ Target \/ SubscribeBackend \/ SendInitial

Next == Environment \/ Setup \/ Wait \/ Up \/ Down

Spec == Init /\ [][Next]_vars

\* The handler and its goroutines run when they can; a connected client reads
\* what has arrived.
FairSpec ==
    /\ Spec
    /\ WF_vars(Setup) /\ WF_vars(Wait) /\ WF_vars(Up) /\ WF_vars(Down)
    /\ WF_vars(ClientReads)

----------------------------------------------------------------------------
\* Properties.

\* A subscription that ends without error has delivered every response the
\* device sent, and the device itself had ended it.
NilMeansComplete ==
    result = "nil" => deviceEnd = "ok" /\ passed = resps

\* The device sees the end of the requests only after all of them.
HalfCloseIsLast == halfClosed => clientEnd /= "open" /\ sent = reqs

\* An error names the side that ended the subscription: the client's
\* cancellation or oversized request, the device's error, loss or oversized
\* response; a half-close or a normal end of the device's is none. The one
\* exception is io.EOF, which echoes how the device's stream ended, normal end
\* included: it is returned only for a request that was in hand at that end and
\* could not be forwarded.
ErrorHasCause ==
    /\ result = "clientErr" => clientEnd = "cancelled" \/ ReqTooLarge
    /\ result = "sendErr" => clientEnd = "cancelled"
    /\ result = "deviceErr" =>
          \/ deviceEnd \in {"error", "lost"} \/ RespTooLarge
          \/ clientEnd = "cancelled"
    /\ result = "eof" => StreamOver /\ up = "ended" /\ recvd = sent + 1

\* Each direction holds at most one message in hand, so what a return loses
\* is bounded, and nothing is forwarded that was not received.
OneInHand ==
    /\ sent <= recvd /\ recvd <= sent + 1 /\ recvd <= reqs
    /\ passed <= got /\ got <= passed + 1 /\ got <= resps
    /\ seen <= passed /\ passed <= seen + Window

\* When the device or the client has ended the subscription, or sent a message
\* too large for it, Subscribe returns.
Settles ==
    (h = "wait" /\ (StreamOver \/ ReqTooLarge)) ~> (h = "returned")

\* After Subscribe has returned both goroutines end: errChan has room for the
\* error nobody waits for any more.
GoroutinesEnd ==
    (h = "returned") ~> ({up, down} \subseteq {"none", "ended"})

\* Every response reaches the client unless the subscription fails.
EveryResponseSeen ==
    \A n \in 1 .. MaxResps :
        (resps >= n) ~> \/ seen >= n
                        \/ clientEnd = "cancelled"
                        \/ result \notin {"none", "nil"}
============================================================================

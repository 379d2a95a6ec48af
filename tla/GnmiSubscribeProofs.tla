------------------------ MODULE GnmiSubscribeProofs ------------------------
(***************************************************************************)
(* Proofs about GnmiSubscribe, for any number of requests and responses    *)
(* and any window.  The invariants about the two directions are stated     *)
(* separately, because the goroutines only meet in errChan.                *)
(***************************************************************************)
EXTENDS GnmiSubscribe, TLAPS

Running == {"recv", "send", "ended"}

\* The handler's position and what it has done so far: the goroutines exist
\* from SendInitial on, and there is no result before the return.
HandlerInv ==
    /\ h = "recv" => recvd = 0
    /\ h \in {"target", "subscribe", "initial"} => recvd = 1
    /\ h = "wait" => up \in Running /\ down \in Running
    /\ h /= "returned" => result = "none"
    /\ h \in {"recv", "target", "subscribe", "initial"} =>
          up = "none" /\ down = "none"

\* Client to device: the message in hand, by the goroutine's position, and
\* that it stops at the half-close.
UpInv ==
    /\ up = "none" => sent = 0 /\ recvd \in {0, 1}
    /\ up = "recv" => recvd = sent
    /\ up = "send" => recvd = sent + 1
    /\ up = "ended" => sent <= recvd /\ recvd <= sent + 1
    /\ recvd <= reqs
    /\ halfClosed => up = "ended" /\ clientEnd /= "open" /\ sent = reqs

\* Device to client, with the client's window.
DownInv ==
    /\ down = "none" => got = 0 /\ passed = 0
    /\ down = "recv" => got = passed
    /\ down = "send" => got = passed + 1
    /\ down = "ended" => passed <= got /\ got <= passed + 1
    /\ got <= resps
    /\ seen <= passed /\ passed <= seen + Window

\* What an error stands for, while it waits in errChan and as the result.
Complete == down = "ended" /\ deviceEnd = "ok" /\ passed = resps
Cause(e) ==
    /\ e = "nil" => Complete
    /\ e = "clientErr" =>
          clientEnd = "cancelled" \/ (up = "ended" /\ ReqTooLarge)
    /\ e = "sendErr" => clientEnd = "cancelled"
    /\ e = "deviceErr" =>
          \/ deviceEnd \in {"error", "lost"} \/ RespTooLarge
          \/ clientEnd = "cancelled"
    /\ e = "eof" => StreamOver /\ up = "ended" /\ recvd = sent + 1

\* A goroutine that ends after the handler's return reports its own
\* cancellation, which nobody reads.
Caused == \A i \in 1 .. Len(errChan) : Cause(errChan[i])
ReportInv == h /= "returned" => Caused

ResultInv == Cause(result)

IInv ==
    /\ TypeOK
    /\ HandlerInv /\ UpInv /\ DownInv
    /\ ReportInv /\ ResultInv

----------------------------------------------------------------------------
\* Type correctness.

LEMMA InitType == Init => TypeOK
<1> SUFFICES ASSUME Init PROVE TypeOK
  OBVIOUS
<1>1. halfClosed \in BOOLEAN
  BY DEF Init
<1>2. errChan \in Seq(Errors) /\ Len(errChan) <= ErrCap
  BY DEF Init, ErrCap
<1>3. QED
  BY <1>1, <1>2, MaxReqsAssumption, MaxRespsAssumption
     DEF Init, TypeOK, Results

\* What a goroutine reports has the type of an error and fits.
LEMMA ReportType ==
    ASSUME TypeOK, NEW e \in Errors, Report(e)
    PROVE  errChan' \in Seq(Errors) /\ Len(errChan') <= ErrCap
BY DEF TypeOK, Report, ErrCap

LEMMA SetupType == TypeOK /\ Setup => TypeOK'
<1> SUFFICES ASSUME TypeOK, Setup PROVE TypeOK'
  OBVIOUS
<1> USE DEF TypeOK, Return, Results, FirstError, clientVars, deviceVars,
            upVars, downVars
<1>1. CASE RecvFirst
  BY <1>1 DEF RecvFirst
<1>2. CASE Target
  BY <1>2 DEF Target
<1>3. CASE SubscribeBackend
  BY <1>3 DEF SubscribeBackend
<1>4. CASE SendInitial
  BY <1>4 DEF SendInitial
<1>5. QED
  BY <1>1, <1>2, <1>3, <1>4 DEF Setup

LEMMA EnvironmentType == TypeOK /\ Environment => TypeOK'
<1> SUFFICES ASSUME TypeOK, Environment PROVE TypeOK'
  OBVIOUS
<1> USE DEF TypeOK, clientVars, deviceVars, upVars, downVars
<1>1. CASE ClientSend
  BY <1>1, MaxReqsAssumption DEF ClientSend, Sized
<1>2. CASE ClientEnds
  BY <1>2 DEF ClientEnds
<1>3. CASE ClientReads
  BY <1>3 DEF ClientReads
<1>4. CASE DeviceSend
  BY <1>4, MaxRespsAssumption DEF DeviceSend, Sized
<1>5. CASE DeviceEnds
  BY <1>5 DEF DeviceEnds
<1>6. QED
  BY <1>1, <1>2, <1>3, <1>4, <1>5 DEF Environment

LEMMA UpType == TypeOK /\ Up => TypeOK'
<1> SUFFICES ASSUME TypeOK, Up PROVE TypeOK'
  OBVIOUS
<1>1. /\ up' \in {"none", "recv", "send", "ended"}
      /\ recvd' \in Nat /\ sent' \in Nat
  BY DEF Up, UpRecv, UpEOF, UpError, UpSend, UpSendFails, TypeOK
<1>2. errChan' \in Seq(Errors) /\ Len(errChan') <= ErrCap
  <2>1. CASE UNCHANGED errChan
    BY <2>1 DEF TypeOK
  <2>2. CASE UpError
    BY <2>2, ReportType DEF UpError, Errors
  <2>3. CASE UpSendFails
    BY <2>3, ReportType DEF UpSendFails, Errors
  <2>4. QED
    BY <2>1, <2>2, <2>3 DEF Up, UpRecv, UpEOF, UpSend
<1>3. halfClosed' \in BOOLEAN
  BY Zenon DEF Up, UpRecv, UpEOF, UpError, UpSend, UpSendFails, TypeOK
<1>4. QED
  BY <1>1, <1>2, <1>3 DEF Up, TypeOK, clientVars, deviceVars, downVars

LEMMA DownType == TypeOK /\ Down => TypeOK'
<1> SUFFICES ASSUME TypeOK, Down PROVE TypeOK'
  OBVIOUS
<1>1. /\ down' \in {"none", "recv", "send", "ended"}
      /\ got' \in Nat /\ passed' \in Nat
  BY DEF Down, DownRecv, DownEOF, DownError, DownSend, DownSendFails, TypeOK
<1>2. errChan' \in Seq(Errors) /\ Len(errChan') <= ErrCap
  <2>1. CASE UNCHANGED errChan
    BY <2>1 DEF TypeOK
  <2>2. CASE DownEOF
    BY <2>2, ReportType DEF DownEOF, Errors
  <2>3. CASE DownError
    BY <2>3, ReportType DEF DownError, Errors
  <2>4. CASE DownSendFails
    BY <2>4, ReportType DEF DownSendFails, Errors
  <2>5. QED
    BY <2>1, <2>2, <2>3, <2>4 DEF Down, DownRecv, DownSend
<1>3. QED
  BY <1>1, <1>2 DEF Down, TypeOK, clientVars, deviceVars, upVars

LEMMA WaitType == TypeOK /\ Wait => TypeOK'
BY DEF TypeOK, Wait, Return, Results, ErrCap, clientVars, deviceVars, upVars,
       downVars

LEMMA NextType == TypeOK /\ [Next]_vars => TypeOK'
<1>1. TypeOK /\ UNCHANGED vars => TypeOK'
  BY DEF TypeOK, vars
<1>2. QED
  BY <1>1, SetupType, EnvironmentType, UpType, DownType, WaitType DEF Next

\* Every variable keeps its type; errChan never needs more than its two slots.
THEOREM TypeCorrect == Spec => []TypeOK
BY InitType, NextType, PTL DEF Spec

----------------------------------------------------------------------------
\* One step of each kind preserves the invariant.

\* A goroutine that has ended does not move.
LEMMA EndedStays ==
    ASSUME TypeOK, HandlerInv, [Next]_vars
    PROVE  /\ up = "ended" => UNCHANGED <<up, recvd, sent>>
           /\ down = "ended" => UNCHANGED <<down, got, passed>>
<1> USE DEF Environment, ClientSend, ClientEnds, ClientReads, DeviceSend,
            DeviceEnds, Setup, RecvFirst, Target, SubscribeBackend,
            SendInitial, Wait, clientVars, deviceVars, upVars, downVars, vars
<1>1. up = "ended" => UNCHANGED <<up, recvd, sent>>
  BY DEF Next, HandlerInv, Up, UpRecv, UpEOF, UpError, UpSend, UpSendFails,
     Down
<1>2. down = "ended" => UNCHANGED <<down, got, passed>>
  BY DEF Next, HandlerInv, Up, Down, DownRecv, DownEOF, DownError, DownSend,
     DownSendFails
<1>3. QED
  BY <1>1, <1>2

\* A message that is too large stays the next one to receive.
LEMMA TooLargeStays ==
    ASSUME TypeOK, HandlerInv, [Next]_vars
    PROVE  /\ up = "ended" /\ ReqTooLarge => ReqTooLarge'
           /\ RespTooLarge => RespTooLarge'
<1>1. bigReq /= 0 => bigReq' = bigReq
  BY DEF Next, Environment, ClientSend, Sized, ClientEnds, ClientReads,
     DeviceSend, DeviceEnds, Setup, RecvFirst, Target, SubscribeBackend,
     SendInitial, Wait, Up, Down, clientVars, deviceVars, upVars, downVars,
     vars
<1>2. bigResp /= 0 => bigResp' = bigResp
  BY DEF Next, Environment, ClientSend, Sized, ClientEnds, ClientReads,
     DeviceSend, DeviceEnds, Setup, RecvFirst, Target, SubscribeBackend,
     SendInitial, Wait, Up, Down, clientVars, deviceVars, upVars, downVars,
     vars
<1>3. up = "ended" /\ ReqTooLarge => ReqTooLarge'
  BY <1>1, EndedStays DEF ReqTooLarge, TypeOK
<1>4. ASSUME RespTooLarge PROVE RespTooLarge'
  <2>1. bigResp' = bigResp
    BY <1>2, <1>4 DEF RespTooLarge, TypeOK
  <2>2. CASE down = "ended"
    BY <1>4, <2>1, <2>2, EndedStays DEF RespTooLarge
  <2>3. CASE down = "recv"
    <3>1. CASE Down
      <4>1. got /= resps
        BY <1>4, <2>3 DEF RespTooLarge, TypeOK
      <4>2. DownError
        BY <1>4, <2>3, <3>1, <4>1 DEF Down, DownRecv, DownEOF, DownSend,
           DownSendFails
      <4>3. QED
        BY <1>4, <2>1, <4>2 DEF DownError, RespTooLarge
    <3>2. CASE UNCHANGED downVars
      BY <1>4, <2>1, <3>2 DEF downVars, RespTooLarge
    <3>3. QED
      BY <2>3, <3>1, <3>2 DEF Next, HandlerInv, Environment, ClientSend,
         ClientEnds, ClientReads, DeviceSend, DeviceEnds, Setup, RecvFirst,
         Target, SubscribeBackend, SendInitial, Wait, Up, clientVars,
         deviceVars, upVars, downVars, vars
  <2>4. QED
    BY <1>4, <2>2, <2>3 DEF RespTooLarge
<1>5. QED
  BY <1>3, <1>4

\* What an error in errChan or the result stands for stays true: a stream that
\* has ended does not reopen, and a completed direction does not move.
LEMMA CauseStable ==
    ASSUME TypeOK, HandlerInv, [Next]_vars, NEW e, Cause(e)
    PROVE  Cause(e)'
<1>1. clientEnd = "cancelled" => clientEnd' = "cancelled"
  BY DEF Next, Environment, ClientSend, ClientEnds, ClientReads, DeviceSend,
     DeviceEnds, Setup, RecvFirst, Target, SubscribeBackend, SendInitial,
     Wait, Up, Down, clientVars, deviceVars, upVars, downVars, vars
<1>2. deviceEnd /= "open" => deviceEnd' = deviceEnd
  BY DEF Next, Environment, ClientSend, ClientEnds, ClientReads, DeviceSend,
     DeviceEnds, Setup, RecvFirst, Target, SubscribeBackend, SendInitial,
     Wait, Up, Down, clientVars, deviceVars, upVars, downVars, vars
<1>3. Complete => Complete'
  <2> SUFFICES ASSUME Complete PROVE Complete'
    OBVIOUS
  <2>1. CASE UNCHANGED <<down, deviceEnd, passed, resps>>
    BY <2>1 DEF Complete
  <2>2. ~Down
    BY DEF Complete, Down, DownRecv, DownEOF, DownError, DownSend,
       DownSendFails
  <2>3. ~DeviceSend /\ ~DeviceEnds
    BY DEF Complete, DeviceSend, DeviceEnds
  <2>4. CASE SendInitial
    BY <2>4 DEF SendInitial, Complete, HandlerInv
  <2>5. QED
    BY <2>1, <2>2, <2>3, <2>4 DEF Next, Environment, ClientSend, ClientEnds,
       ClientReads, Setup, RecvFirst, Target, SubscribeBackend, Wait, Up,
       clientVars, deviceVars, upVars, downVars, vars
<1>4. StreamOver => StreamOver'
  BY <1>1, <1>2, TooLargeStays DEF StreamOver
<1>5. up = "ended" => UNCHANGED <<up, recvd, sent>>
  BY EndedStays
<1>6. /\ up = "ended" /\ ReqTooLarge => ReqTooLarge'
      /\ RespTooLarge => RespTooLarge'
  BY TooLargeStays
<1>7. QED
  BY <1>1, <1>2, <1>3, <1>4, <1>5, <1>6 DEF Cause

LEMMA HandlerStep == TypeOK /\ HandlerInv /\ [Next]_vars => HandlerInv'
<1> SUFFICES ASSUME TypeOK, HandlerInv, [Next]_vars PROVE HandlerInv'
  OBVIOUS
<1> USE DEF TypeOK, HandlerInv, Running, Return, clientVars, deviceVars,
            upVars, downVars
<1>1. CASE Environment
  BY <1>1 DEF Environment, ClientSend, ClientEnds, ClientReads, DeviceSend,
     DeviceEnds
<1>2. CASE Setup
  BY <1>2 DEF Setup, RecvFirst, Target, SubscribeBackend, SendInitial
<1>3. CASE Wait
  BY <1>3 DEF Wait
<1>4. CASE Up
  BY <1>4 DEF Up, UpRecv, UpEOF, UpError, UpSend, UpSendFails
<1>5. CASE Down
  BY <1>5 DEF Down, DownRecv, DownEOF, DownError, DownSend, DownSendFails
<1>6. CASE UNCHANGED vars
  BY <1>6 DEF vars
<1>7. QED
  BY <1>1, <1>2, <1>3, <1>4, <1>5, <1>6 DEF Next

LEMMA UpStep == TypeOK /\ HandlerInv /\ UpInv /\ [Next]_vars => UpInv'
<1> SUFFICES ASSUME TypeOK, HandlerInv, UpInv, [Next]_vars PROVE UpInv'
  OBVIOUS
<1> USE DEF TypeOK, UpInv
<1>1. CASE ClientSend \/ ClientEnds
  BY <1>1 DEF ClientSend, ClientEnds, upVars
<1>2. CASE RecvFirst
  BY <1>2 DEF RecvFirst, CanRecv, HandlerInv, clientVars
<1>3. CASE SendInitial
  BY <1>3 DEF SendInitial, HandlerInv, clientVars
<1>4. CASE Up
  BY <1>4 DEF Up, UpRecv, UpEOF, UpError, UpSend, UpSendFails, CanRecv,
     RecvEOF, clientVars
<1>5. CASE UNCHANGED <<upVars, reqs, clientEnd>>
  BY <1>5 DEF upVars
<1>6. QED
  BY <1>1, <1>2, <1>3, <1>4, <1>5 DEF Next, Environment, ClientReads,
     DeviceSend, DeviceEnds, Setup, Target, SubscribeBackend, Wait, Down,
     clientVars, vars, upVars

LEMMA DownStep == TypeOK /\ HandlerInv /\ DownInv /\ [Next]_vars => DownInv'
<1> SUFFICES ASSUME TypeOK, HandlerInv, DownInv, [Next]_vars PROVE DownInv'
  OBVIOUS
<1> USE WindowAssumption DEF TypeOK, DownInv
<1>1. CASE DeviceSend \/ ClientReads
  <2>1. UNCHANGED downVars
    BY <1>1 DEF DeviceSend, ClientReads
  <2>2. CASE DeviceSend
    BY <2>1, <2>2 DEF DeviceSend, clientVars, downVars
  <2>3. CASE ClientReads
    BY <2>1, <2>3 DEF ClientReads, deviceVars, downVars
  <2>4. QED
    BY <1>1, <2>2, <2>3
<1>2. CASE SendInitial
  BY <1>2 DEF SendInitial, HandlerInv, clientVars, deviceVars
<1>3. CASE Down
  BY <1>3 DEF Down, DownRecv, DownEOF, DownError, DownSend, DownSendFails,
     clientVars, deviceVars
<1>4. CASE UNCHANGED <<downVars, resps, seen>>
  BY <1>4 DEF downVars
<1>5. QED
  BY <1>1, <1>2, <1>3, <1>4 DEF Next, Environment, ClientSend, ClientEnds,
     DeviceEnds, Setup, RecvFirst, Target, SubscribeBackend, Wait, Up,
     clientVars, deviceVars, vars, downVars

\* Reporting an error that has a cause.
LEMMA ReportCause ==
    ASSUME TypeOK, Caused, NEW e \in Errors, Report(e), Cause(e)',
           \A x \in Errors : Cause(x) => Cause(x)'
    PROVE  Caused'
<1>1. SUFFICES ASSUME NEW i \in 1 .. Len(errChan')
               PROVE  \E x \in Errors : x = errChan'[i] /\ Cause(x)'
  BY DEF Caused, Cause
<1>2. /\ Len(errChan') = Len(errChan) + 1
      /\ errChan'[Len(errChan')] = e
      /\ \A j \in 1 .. Len(errChan) :
            errChan'[j] = errChan[j] /\ errChan[j] \in Errors
  BY DEF Report, TypeOK
<1>3. CASE i = Len(errChan')
  BY <1>2, <1>3
<1>4. CASE i \in 1 .. Len(errChan)
  BY <1>2, <1>4 DEF Caused
<1>5. QED
  BY <1>2, <1>3, <1>4 DEF TypeOK

LEMMA ReportStep == IInv /\ [Next]_vars => ReportInv'
<1> SUFFICES ASSUME IInv, [Next]_vars, h' /= "returned" PROVE Caused'
  BY DEF ReportInv
<1> USE DEF IInv
<1>1. \A x \in Errors : Cause(x) => Cause(x)'
  BY CauseStable
<1>2. CASE UNCHANGED errChan
  <2>1. h /= "returned"
    BY DEF Next, Environment, ClientSend, ClientEnds, ClientReads,
       DeviceSend, DeviceEnds, Setup, RecvFirst, Target, SubscribeBackend,
       SendInitial, Wait, Up, Down, vars
  <2>2. \A i \in 1 .. Len(errChan) : errChan[i] \in Errors
    BY DEF TypeOK
  <2>3. \A i \in 1 .. Len(errChan) : Cause(errChan[i])
    BY <2>1 DEF ReportInv, Caused
  <2>4. QED
    BY <1>1, <1>2, <2>2, <2>3 DEF Caused, Cause
<1>3. CASE Up /\ (UpError \/ UpSendFails)
  <2>1. h' = h /\ UNCHANGED <<clientEnd, bigReq, deviceEnd, bigResp, down, got>>
    BY <1>3 DEF Up, clientVars, deviceVars, downVars
  <2>2. Caused
    BY <2>1 DEF ReportInv
  <2>3. CASE UpError
    <3>1. Cause("clientErr")'
      BY <2>1, <2>3 DEF UpError, RecvError, ReqTooLarge, Cause
    <3>2. QED
      BY <1>1, <2>2, <2>3, <3>1, ReportCause DEF UpError, Errors
  <2>4. CASE UpSendFails
    <3>1. Cause("eof")'
      BY <2>1, <2>4 DEF UpSendFails, StreamOver, RespTooLarge, UpInv, Cause
    <3>2. QED
      BY <1>1, <2>2, <2>4, <3>1, ReportCause DEF UpSendFails, Errors
  <2>5. QED
    BY <1>3, <2>3, <2>4
<1>4. CASE Down /\ (DownEOF \/ DownError \/ DownSendFails)
  <2>1. h' = h /\ UNCHANGED <<clientEnd, deviceEnd, resps, bigResp>>
    BY <1>4 DEF Down, clientVars, deviceVars
  <2>2. Caused
    BY <2>1 DEF ReportInv
  <2>3. CASE DownEOF
    <3>1. Cause("nil")'
      BY <2>1, <2>3 DEF DownEOF, DownInv, Cause, Complete
    <3>2. QED
      BY <1>1, <2>2, <2>3, <3>1, ReportCause DEF DownEOF, Errors
  <2>4. CASE DownError
    <3>1. Cause("deviceErr")'
      BY <2>1, <2>4 DEF DownError, DeviceError, RespTooLarge, Cause
    <3>2. QED
      BY <1>1, <2>2, <2>4, <3>1, ReportCause DEF DownError, Errors
  <2>5. CASE DownSendFails
    BY <1>1, <2>1, <2>2, <2>5, ReportCause DEF DownSendFails, Cause, Errors
  <2>6. QED
    BY <1>4, <2>3, <2>4, <2>5
<1>5. CASE Wait
  BY <1>5 DEF Wait, Return
<1>6. QED
  BY <1>2, <1>3, <1>4, <1>5 DEF Next, Environment, ClientSend, ClientEnds,
     ClientReads, DeviceSend, DeviceEnds, Setup, RecvFirst, Target,
     SubscribeBackend, SendInitial, Up, UpRecv, UpEOF, UpSend, Down, DownRecv,
     DownSend, vars

LEMMA ResultStep == IInv /\ [Next]_vars => ResultInv'
<1> SUFFICES ASSUME IInv, [Next]_vars PROVE ResultInv'
  OBVIOUS
<1> USE DEF IInv
<1>1. CASE UNCHANGED result
  <2>1. Cause(result)
    BY DEF ResultInv
  <2>2. PICK r : r = result
    OBVIOUS
  <2>3. Cause(r)'
    BY <2>1, <2>2, CauseStable
  <2>4. QED
    BY <1>1, <2>2, <2>3 DEF ResultInv, Cause
<1>2. CASE Setup /\ result' \in {"InvalidArgument", "Unavailable", "Internal"}
  BY <1>2 DEF ResultInv, Cause
<1>3. CASE Wait
  <2>1. /\ result' = errChan[1] /\ 1 \in 1 .. Len(errChan)
        /\ UNCHANGED <<clientVars, deviceVars, upVars, downVars>>
    BY <1>3 DEF Wait, Return, TypeOK
  <2>2. Cause(errChan[1])
    BY <1>3, <2>1 DEF Wait, ReportInv, Caused
  <2>3. QED
    BY <2>1, <2>2 DEF ResultInv, Cause, Complete, ReqTooLarge, RespTooLarge,
       StreamOver, clientVars, deviceVars, upVars, downVars
<1>4. QED
  BY <1>1, <1>2, <1>3 DEF Next, Environment, ClientSend, ClientEnds,
     ClientReads, DeviceSend, DeviceEnds, Setup, RecvFirst, Target,
     SubscribeBackend, SendInitial, Return, FirstError, Up, Down, vars

LEMMA Inductive == Spec => []IInv
<1>1. Init => IInv
  <2>1. Init => HandlerInv /\ UpInv /\ DownInv
    BY WindowAssumption DEF Init, HandlerInv, UpInv, DownInv
  <2>2. Init => ReportInv /\ ResultInv
    BY DEF Init, ReportInv, Caused, ResultInv, Cause
  <2>3. QED
    BY <2>1, <2>2, InitType DEF IInv
<1>2. IInv /\ [Next]_vars => IInv'
  BY NextType, HandlerStep, UpStep, DownStep, ReportStep, ResultStep DEF IInv
<1>3. QED
  BY <1>1, <1>2, PTL DEF Spec

----------------------------------------------------------------------------
\* The safety properties.

\* A subscription that ends without error was ended by the device and has
\* delivered everything.
THEOREM SuccessIsComplete == Spec => []NilMeansComplete
<1>1. IInv => NilMeansComplete
  BY DEF IInv, ResultInv, Cause, Complete, NilMeansComplete
<1>2. QED
  BY <1>1, Inductive, PTL

\* The device is told of the end of the requests only after all of them.
THEOREM HalfCloseComesLast == Spec => []HalfCloseIsLast
<1>1. IInv => HalfCloseIsLast
  BY DEF IInv, UpInv, HalfCloseIsLast
<1>2. QED
  BY <1>1, Inductive, PTL

\* An error names the side that ended the subscription; io.EOF, which may echo
\* even a normal end of the device's, stands for a request that was in hand at
\* that end.
THEOREM ErrorsHaveCauses == Spec => []ErrorHasCause
<1>1. IInv => ErrorHasCause
  BY DEF IInv, ResultInv, Cause, ErrorHasCause
<1>2. QED
  BY <1>1, Inductive, PTL

\* Each direction holds at most one message at a time.
THEOREM HoldsOne == Spec => []OneInHand
<1>1. IInv => OneInHand
  BY DEF IInv, TypeOK, UpInv, DownInv, OneInHand
<1>2. QED
  BY <1>1, Inductive, PTL
----------------------------------------------------------------------------
\* Nobody waits for ever: the parts of Settles and GoroutinesEnd that can be
\* proved.

\* An error in errChan is that of a goroutine that has ended.
Slot(g) == IF g = "ended" THEN 1 ELSE 0
RoomInv == Len(errChan) <= Slot(up) + Slot(down)

\* Only the half-close ends a goroutine without a report, so that the handler
\* finds the report of the other one.
ReportedInv == h = "wait" /\ down = "ended" => errChan /= <<>>

LEMMA ReportedStep ==
    TypeOK /\ HandlerInv /\ RoomInv /\ ReportedInv /\ [Next]_vars
        => RoomInv' /\ ReportedInv'
<1> SUFFICES ASSUME TypeOK, HandlerInv, RoomInv, ReportedInv, [Next]_vars
             PROVE  RoomInv' /\ ReportedInv'
  OBVIOUS
<1> USE DEF RoomInv, ReportedInv, Slot
<1>1. errChan \in Seq(Errors) /\ Len(errChan) \in Nat
  BY DEF TypeOK
<1>2. ASSUME NEW e \in Errors, Report(e)
      PROVE  Len(errChan') = Len(errChan) + 1 /\ errChan' /= <<>>
  BY <1>1, <1>2 DEF Report
<1>3. CASE Environment \/ UNCHANGED vars
  <2>1. UNCHANGED <<errChan, up, down, h>>
    BY <1>3 DEF Environment, ClientSend, ClientEnds, ClientReads, DeviceSend,
                DeviceEnds, upVars, downVars, vars
  <2>2. QED
    BY <2>1
<1>4. CASE Setup
  <2>1. /\ h \in {"recv", "target", "subscribe", "initial"}
        /\ errChan' = errChan
        /\ \/ UNCHANGED <<up, down>> /\ h' /= "wait"
           \/ up' = "recv" /\ down' = "recv"
    BY <1>4 DEF Setup, RecvFirst, Target, SubscribeBackend, SendInitial, Return,
                upVars, downVars
  <2>2. up = "none" /\ down = "none"
    BY <2>1 DEF HandlerInv
  <2>3. QED
    BY <1>1, <2>1, <2>2
<1>5. CASE Wait
  <2>1. /\ errChan /= <<>> /\ errChan' = Tail(errChan) /\ h' = "returned"
        /\ UNCHANGED <<up, down>>
    BY <1>5 DEF Wait, Return, upVars, downVars
  <2>2. Len(errChan') = Len(errChan) - 1
    BY <1>1, <2>1
  <2>3. QED
    BY <1>1, <2>1, <2>2
<1>6. CASE Up
  <2>1. UNCHANGED <<down, h>>
    BY <1>6 DEF Up, downVars
  <2>2. CASE UpError \/ UpSendFails
    <3>1. /\ up \in {"recv", "send"} /\ up' = "ended"
          /\ Report("clientErr") \/ Report("eof")
      BY <2>2 DEF UpError, UpSendFails
    <3>2. Len(errChan') = Len(errChan) + 1 /\ errChan' /= <<>>
      BY <1>2, <3>1 DEF Errors
    <3>3. QED
      BY <1>1, <2>1, <3>1, <3>2
  <2>3. CASE UpRecv \/ UpEOF \/ UpSend
    <3>1. up \in {"recv", "send"} /\ errChan' = errChan
      BY <2>3 DEF UpRecv, UpEOF, UpSend
    <3>2. QED
      BY <1>1, <2>1, <3>1
  <2>4. QED
    BY <1>6, <2>2, <2>3 DEF Up
<1>7. CASE Down
  <2>1. UNCHANGED <<up, h>>
    BY <1>7 DEF Down, upVars
  <2>2. CASE DownEOF \/ DownError \/ DownSendFails
    <3>1. /\ down \in {"recv", "send"} /\ down' = "ended"
          /\ Report("nil") \/ Report("deviceErr") \/ Report("sendErr")
      BY <2>2 DEF DownEOF, DownError, DownSendFails
    <3>2. Len(errChan') = Len(errChan) + 1 /\ errChan' /= <<>>
      BY <1>2, <3>1 DEF Errors
    <3>3. QED
      BY <1>1, <2>1, <3>1, <3>2
  <2>3. CASE DownRecv \/ DownSend
    <3>1. /\ down \in {"recv", "send"} /\ down' \in {"recv", "send"}
          /\ errChan' = errChan
      BY <2>3 DEF DownRecv, DownSend
    <3>2. QED
      BY <1>1, <2>1, <3>1
  <2>4. QED
    BY <1>7, <2>2, <2>3 DEF Down
<1>8. QED
  BY <1>3, <1>4, <1>5, <1>6, <1>7 DEF Next

LEMMA ReportedHolds == Spec => [](RoomInv /\ ReportedInv)
<1>1. Init => RoomInv /\ ReportedInv
  BY DEF Init, RoomInv, ReportedInv, Slot
<1>2. IInv => TypeOK /\ HandlerInv
  BY DEF IInv
<1>3. QED
  BY <1>1, <1>2, ReportedStep, Inductive, PTL DEF Spec

\* A goroutine of a subscription finds room for its error in errChan whether
\* or not the handler still waits for one, so that it can always end.
THEOREM ReportsNeverBlock ==
    Spec => [](up \in {"recv", "send"} \/ down \in {"recv", "send"}
                  => Len(errChan) < ErrCap)
<1>1. ASSUME TypeOK, RoomInv,
             up \in {"recv", "send"} \/ down \in {"recv", "send"}
      PROVE  Len(errChan) < ErrCap
  <2>1. Len(errChan) \in Nat
    BY <1>1 DEF TypeOK
  <2>2. QED
    BY <1>1, <2>1 DEF RoomInv, Slot, ErrCap
<1>2. QED
  BY <1>1, TypeCorrect, ReportedHolds, PTL

\* Once the device or the client has ended a subscription that waits, there is
\* an error to return, or the goroutine from the device can go on: it has a
\* response, an end or an error to receive, or room to send, now or when the
\* client has read.
DownGoesOn ==
    \/ down = "recv" /\ (got < resps \/ deviceEnd = "ok" \/ DeviceError)
    \/ /\ down = "send"
       /\ passed - seen < Window \/ seen < passed \/ clientEnd = "cancelled"

THEOREM SubscribeNeverWedged ==
    Spec => [](h = "wait" /\ StreamOver => errChan /= <<>> \/ DownGoesOn)
<1>1. IInv /\ ReportedInv =>
         (h = "wait" /\ StreamOver => errChan /= <<>> \/ DownGoesOn)
  <2> SUFFICES ASSUME IInv, ReportedInv, h = "wait", errChan = <<>>, StreamOver
               PROVE  DownGoesOn
    OBVIOUS
  <2>1. down \in {"recv", "send"}
    BY DEF IInv, HandlerInv, Running, ReportedInv
  <2>2. CASE down = "recv"
    BY <2>2 DEF IInv, TypeOK, DownInv, StreamOver, DeviceError, DownGoesOn
  <2>3. CASE down = "send"
    BY <2>3, WindowAssumption
       DEF IInv, TypeOK, DownInv, StreamOver, RespTooLarge, DownGoesOn
  <2>4. QED
    BY <2>1, <2>2, <2>3
<1>2. QED
  BY <1>1, Inductive, ReportedHolds, PTL
============================================================================

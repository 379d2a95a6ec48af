-------------------------- MODULE GnmiUnaryProofs ---------------------------
(***************************************************************************)
(* Theorems about GnmiUnary, for any calls, requests and devices.          *)
(***************************************************************************)
EXTENDS GnmiUnary, TLAPS

\* The target a request names, and what is made of it.
LEMMA ParsedTarget ==
    ASSUME NEW r \in Requests, HeaderFirst(r) /= NoTarget
    PROVE  /\ parseTarget(HeaderFirst(r)) \in Peers
           /\ Names(r, parseTarget(HeaderFirst(r)))
<1> DEFINE t == HeaderFirst(r)
<1>1. t \in Seq(Texts) /\ t /= <<>>
  BY RequestsAssumption DEF HeaderFirst, NoTarget
<1>2. Len(t) \in Nat /\ Len(t) > 0 /\ t[1] \in Texts
  BY <1>1
<1>3. /\ Len(t) >= 2 => t[2] \in Texts
      /\ Len(t) >= 3 => t[3] \in Texts
  BY <1>1
<1>4. t = IF r.header = NoTarget THEN r.prefix ELSE r.header
  BY DEF HeaderFirst
<1> HIDE DEF t
<1>5. parseTarget(t) \in Peers
  <2>0. "admin" \in Texts /\ "NokiaSrl1!" \in Texts
    BY TextsAssumption
  <2>1. /\ t[1] \in Texts
        /\ (IF Len(t) >= 2 THEN t[2] ELSE "admin") \in Texts
        /\ (IF Len(t) >= 3 THEN t[3] ELSE "NokiaSrl1!") \in Texts
    BY <1>2, <1>3, <2>0
  <2>2. \A d, u, p \in Texts :
           [device |-> d, username |-> u, password |-> p] \in Peers
    BY DEF Peers
  <2>3. QED
    BY <2>1, <2>2, Zenon DEF parseTarget
<1>6. /\ parseTarget(t).device = t[1]
      /\ Len(t) > 1 => parseTarget(t).username = t[2]
      /\ Len(t) > 2 => parseTarget(t).password = t[3]
      /\ Len(t) < 2 => parseTarget(t).username = "admin"
      /\ Len(t) < 3 => parseTarget(t).password = "NokiaSrl1!"
  BY <1>2 DEF parseTarget
<1>7. Names(r, parseTarget(t))
  BY <1>1, <1>4, <1>6 DEF Names, NoTarget
<1>8. QED
  BY <1>5, <1>7 DEF t

-----------------------------------------------------------------------------
\* The type invariant is inductive.
THEOREM TypeCorrect == Spec => []TypeOK
<1>1. Init => TypeOK
  <2> SUFFICES ASSUME Init PROVE TypeOK
    OBVIOUS
  <2>1. NoPeer \in Peers
    <3>1. "" \in Texts
      BY TextsAssumption
    <3>2. QED
      BY <3>1 DEF NoPeer, Peers
  <2>2. QED
    BY <2>1 DEF Init, TypeOK
<1>2. TypeOK /\ [Next]_vars => TypeOK'
  <2> SUFFICES ASSUME TypeOK, [Next]_vars PROVE TypeOK'
    OBVIOUS
  <2> USE DEF TypeOK
  <2>1. ASSUME NEW c \in Calls, Begin(c) PROVE TypeOK'
    BY <2>1 DEF Begin
  <2>2. ASSUME NEW c \in Calls, getTargetFromContext(c) PROVE TypeOK'
    <3>1. CASE HeaderFirst(req[c]) = NoTarget
      BY <2>2, <3>1 DEF getTargetFromContext, Return, Errors
    <3>2. CASE HeaderFirst(req[c]) /= NoTarget
      <4>1. parseTarget(HeaderFirst(req[c])) \in Peers
        BY <2>2, <3>2, ParsedTarget DEF getTargetFromContext
      <4>2. QED
        BY <2>2, <3>2, <4>1 DEF getTargetFromContext
    <3>3. QED
      BY <3>1, <3>2
  <2>3. ASSUME NEW c \in Calls, getBackendClient(c) PROVE TypeOK'
    BY <2>3 DEF getBackendClient, Return, NewClient, Errors
  <2>4. ASSUME NEW c \in Calls, Call(c) PROVE TypeOK'
    BY <2>4 DEF Call, Return, Errors
  <2>5. ASSUME NEW c \in Calls,
               Answered(c) \/ Lost(c) \/ Timeout(c) \/ Cancel(c)
        PROVE  TypeOK'
    BY <2>5 DEF Answered, Lost, Timeout, Cancel, Return, Errors
  <2>6. ASSUME NEW c \in Calls, Device(c) PROVE TypeOK'
    BY <2>6 DEF Device, Arrive, Answer
  <2>7. CASE UNCHANGED vars
    BY <2>7 DEF vars
  <2>8. QED
    BY <2>1, <2>2, <2>3, <2>4, <2>5, <2>6, <2>7 DEF Next, Handler
<1>3. QED
  BY <1>1, <1>2, PTL DEF Spec

-----------------------------------------------------------------------------
\* What a connection has to do with its call: it exists from getBackendClient
\* on, leads where the request says, as whom it says, and to a device of the
\* configuration; a request arrives at its end only.
CallInv(c) ==
    /\ h[c] \in {"idle", "target", "client"} => conn[c] = "none"
    /\ h[c] = "returned" => conn[c] /= "open"
    /\ h[c] = "client" \/ conn[c] /= "none" => Names(req[c], target[c])
    /\ conn[c] /= "none" =>
          auth[c] = target[c] /\ target[c].device \in Devices
    /\ got[c] /= NoPeer => conn[c] /= "none" /\ got[c] = auth[c]

ConnInv == \A c \in Calls : CallInv(c)

LEMMA ConnectionsAreOwn == Spec => []ConnInv
<1>1. Init => ConnInv
  BY DEF Init, ConnInv, CallInv
<1>2. TypeOK /\ ConnInv /\ [Next]_vars => ConnInv'
  <2> SUFFICES ASSUME TypeOK, ConnInv, [Next]_vars, NEW d \in Calls
      PROVE  CallInv(d)'
    BY DEF ConnInv
  <2>0. CallInv(d)
    BY DEF ConnInv
  <2> USE DEF CallInv
  <2>1. ASSUME NEW c \in Calls, Begin(c) PROVE CallInv(d)'
    BY <2>0, <2>1 DEF TypeOK, Begin
  <2>2. ASSUME NEW c \in Calls, getTargetFromContext(c) PROVE CallInv(d)'
    <3>1. CASE HeaderFirst(req[c]) = NoTarget
      BY <2>0, <2>2, <3>1 DEF TypeOK, getTargetFromContext, Return
    <3>2. CASE HeaderFirst(req[c]) /= NoTarget
      <4>1. Names(req[c], parseTarget(HeaderFirst(req[c])))
        BY <2>2, <3>2, ParsedTarget DEF TypeOK, getTargetFromContext
      <4>2. c = d => /\ req'[d] = req[c] /\ h'[d] = "client"
                     /\ target'[d] = parseTarget(HeaderFirst(req[c]))
        BY <2>2, <3>2 DEF TypeOK, getTargetFromContext
      <4>3. c = d => Names(req[d], target[d])'
        BY <4>1, <4>2 DEF Names
      <4>4. c /= d => h'[d] = h[d] /\ target'[d] = target[d]
        BY <2>2, <3>2 DEF TypeOK, getTargetFromContext
      <4>5. UNCHANGED <<conn, req, auth, got>>
        BY <2>2, <3>2 DEF getTargetFromContext
      <4>6. CASE c = d
        BY <2>0, <2>2, <4>2, <4>3, <4>5, <4>6 DEF getTargetFromContext
      <4>7. CASE c /= d
        BY <2>0, <4>4, <4>5, <4>7 DEF Names
      <4>8. QED
        BY <4>6, <4>7
    <3>3. QED
      BY <3>1, <3>2
  <2>3. ASSUME NEW c \in Calls, getBackendClient(c) PROVE CallInv(d)'
    BY <2>0, <2>3 DEF TypeOK, getBackendClient, Return, NewClient, Names
  <2>4. ASSUME NEW c \in Calls, Call(c) PROVE CallInv(d)'
    BY <2>0, <2>4 DEF TypeOK, Call, Return, Names
  <2>5. ASSUME NEW c \in Calls,
               Answered(c) \/ Lost(c) \/ Timeout(c) \/ Cancel(c)
        PROVE  CallInv(d)'
    BY <2>0, <2>5 DEF TypeOK, Answered, Lost, Timeout, Cancel, Return, Names
  <2>6. ASSUME NEW c \in Calls, Device(c) PROVE CallInv(d)'
    BY <2>0, <2>6 DEF TypeOK, Device, Arrive, Answer, Names
  <2>7. CASE UNCHANGED vars
    BY <2>0, <2>7 DEF vars, Names
  <2>8. QED
    BY <2>1, <2>2, <2>3, <2>4, <2>5, <2>6, <2>7 DEF Next, Handler
<1>3. QED
  BY <1>1, <1>2, TypeCorrect, PTL DEF Spec

\* A request arrives only where its own call sends it.
THEOREM EachOnItsOwn == Spec => []OwnDeviceOwnCredentials
<1>1. ConnInv => OwnDeviceOwnCredentials
  BY DEF ConnInv, CallInv, OwnDeviceOwnCredentials
<1>2. QED
  BY <1>1, ConnectionsAreOwn, PTL

\* No call leaves its connection open.
THEOREM ConnectionsAreClosed == Spec => []ConnectionClosed
<1>1. ConnInv => ConnectionClosed
  BY DEF ConnInv, CallInv, ConnectionClosed
<1>2. QED
  BY <1>1, ConnectionsAreOwn, PTL
=============================================================================

------------------------ MODULE BastionSessionProofs ------------------------
(***************************************************************************)
(* Theorems about BastionSession, for any queue capacity and any number of *)
(* packets of each kind.                                                   *)
(***************************************************************************)
EXTENDS BastionSession, SequenceTheorems, TLAPS

-----------------------------------------------------------------------------
\* Sequences.

\* The queues are only ever shortened at their head.
LEMMA HeadTailTypes ==
    ASSUME NEW S, NEW q \in Seq(S), q /= <<>>
    PROVE  Head(q) \in S /\ Tail(q) \in Seq(S)
BY HeadTailProperties

LEMMA LenNat == ASSUME NEW S, NEW q \in Seq(S) PROVE Len(q) \in Nat
BY LenProperties

-----------------------------------------------------------------------------
\* The type invariant, in the parts that its proof needs one at a time.

ClientTypes == sent \in [Kinds -> Nat] /\ size \in Nat /\ wire \in Seq(Packets)
ChannelTypes ==
    /\ requests \in Seq([k : Reqs, sz : Nat]) /\ pending \in Seq(Lines)
    /\ inEof \in BOOLEAN /\ inClosed \in BOOLEAN
HandlerTypes ==
    /\ pc \in Pcs /\ mode \in {"none", "shell", "exec"}
    /\ term \in Nat /\ cur \in {0} \cup Dials /\ execReplied \in BOOLEAN
DeviceTypes ==
    /\ dev \in [Dials -> Devices]
    /\ win \in [Dials -> {"none", "run", "ended"}]
    /\ cop \in [Dials -> {"none", "reading", "draining", "ended"}]
GhostTypes == winRefused \in BOOLEAN /\ lost \in Nat

LEMMA TypeParts ==
    TypeOK <=> /\ ClientTypes /\ ChannelTypes /\ HandlerTypes /\ DeviceTypes
               /\ GhostTypes
BY DEF TypeOK, ClientTypes, ChannelTypes, HandlerTypes, DeviceTypes, GhostTypes

LEMMA ClientTyped == TypeOK /\ [Next]_vars => ClientTypes'
<1> SUFFICES ASSUME TypeOK, [Next]_vars PROVE ClientTypes'
  OBVIOUS
<1>1. ClientTypes
  BY TypeParts
<1>2. ASSUME NEW k \in Kinds, Send(k) PROVE ClientTypes'
  <2>1. sent' \in [Kinds -> Nat] /\ size' \in Nat
    BY <1>1, <1>2 DEF Send, ClientTypes
  <2>2. [k |-> k, sz |-> size'] \in Packets
    BY <2>1 DEF Packets
  <2>3. wire' \in Seq(Packets)
    BY <1>1, <1>2, <2>2, AppendProperties DEF Send, ClientTypes
  <2>4. QED
    BY <2>1, <2>3 DEF ClientTypes
<1>3. CASE Mux
  <2>1. /\ wire /= <<>> /\ wire' = Tail(wire)
        /\ UNCHANGED <<sent, size>>
    BY <1>3 DEF Mux, MuxRequest, MuxLine, MuxEof, MuxClose, Deliver
  <2>2. QED
    BY <1>1, <2>1, HeadTailTypes DEF ClientTypes
<1>4. CASE Handler \/ (\E s \in Dials : DeviceEnds(s) \/ Window(s) \/ Copier(s))
  <2>1. UNCHANGED clientVars
    BY <1>4 DEF Handler, HandlePty, HandleShell, HandleExec, HandleOther,
                RequestsEnd, PromptCommand, PromptEnds, Credential, Dial,
                RequestPty, StartShell, WaitReturns, TakeRequest, ReadLine,
                ReadFails, DeviceEnds, Window, WinTake, WinEnds, Copier,
                CopierTake, CopierEof, clientVars
  <2>2. QED
    BY <1>1, <2>1 DEF ClientTypes, clientVars
<1>5. CASE UNCHANGED vars
  BY <1>1, <1>5 DEF ClientTypes, vars, clientVars
<1>6. QED
  BY <1>2, <1>3, <1>4, <1>5 DEF Next

LEMMA ChannelTyped == TypeOK /\ [Next]_vars => ChannelTypes'
<1> SUFFICES ASSUME TypeOK, [Next]_vars PROVE ChannelTypes'
  OBVIOUS
<1>1. ClientTypes /\ ChannelTypes
  BY TypeParts
<1> DEFINE Taken == /\ requests /= <<>> /\ requests' = Tail(requests)
                    /\ UNCHANGED <<pending, inEof, inClosed>>
           Read == /\ pending /= <<>> /\ pending' = Tail(pending)
                   /\ UNCHANGED <<requests, inEof, inClosed>>
           Copied == pending' = <<>> /\ UNCHANGED <<requests, inEof, inClosed>>
<1>2. CASE Mux
  <2>1. CASE MuxRequest
    <3>1. /\ wire /= <<>> /\ Head(wire).k \in Reqs
          /\ requests' = Append(requests, Head(wire))
          /\ UNCHANGED <<pending, inEof, inClosed>>
      BY <2>1 DEF MuxRequest
    <3>2. Head(wire) \in Packets
      BY <1>1, <3>1, HeadTailTypes DEF ClientTypes
    <3>3. Head(wire) \in [k : Reqs, sz : Nat]
      BY <3>1, <3>2 DEF Packets
    <3>4. QED
      BY <1>1, <3>1, <3>3, AppendProperties DEF ChannelTypes
  <2>2. CASE MuxLine
    BY <1>1, <2>2, AppendProperties DEF MuxLine, ChannelTypes
  <2>3. CASE MuxEof \/ MuxClose
    BY <1>1, <2>3 DEF MuxEof, MuxClose, ChannelTypes
  <2>4. QED
    BY <1>2, <2>1, <2>2, <2>3 DEF Mux
<1>3. CASE ~Mux
  <2>1. Taken \/ Read \/ Copied \/ UNCHANGED channelVars
    <3>1. CASE \E k \in Kinds : Send(k)
      BY <3>1 DEF Send
    <3>2. CASE Handler
      BY <3>2 DEF Handler, HandlePty, HandleShell, HandleExec, HandleOther,
                  RequestsEnd, PromptCommand, PromptEnds, Credential, Dial,
                  RequestPty, StartShell, WaitReturns, TakeRequest, ReadLine,
                  ReadFails, channelVars
    <3>3. CASE \E s \in Dials : DeviceEnds(s) \/ Window(s) \/ Copier(s)
      BY <3>3 DEF DeviceEnds, Window, WinTake, WinEnds, Copier, CopierTake,
                  CopierEof, TakeRequest, channelVars
    <3>4. CASE UNCHANGED vars
      BY <3>4 DEF vars
    <3>5. QED
      BY <1>3, <3>1, <3>2, <3>3, <3>4 DEF Next
  <2>2. CASE Taken
    BY <1>1, <2>2, HeadTailTypes DEF ChannelTypes
  <2>3. CASE Read
    BY <1>1, <2>3, HeadTailTypes DEF ChannelTypes
  <2>4. CASE Copied
    BY <1>1, <2>4, EmptySeq DEF ChannelTypes
  <2>5. CASE UNCHANGED channelVars
    BY <1>1, <2>5 DEF ChannelTypes, channelVars
  <2>6. QED
    BY <2>1, <2>2, <2>3, <2>4, <2>5
<1>4. QED
  BY <1>2, <1>3

LEMMA HandlerTyped == TypeOK /\ [Next]_vars => HandlerTypes'
<1> SUFFICES ASSUME TypeOK, [Next]_vars PROVE HandlerTypes'
  OBVIOUS
<1>1. HandlerTypes /\ ChannelTypes
  BY TypeParts
<1> USE DEF HandlerTypes, Pcs
<1>2. CASE HandlePty
  <2>1. Head(requests) \in [k : Reqs, sz : Nat]
    BY <1>1, <1>2, HeadTailTypes DEF HandlePty, TakeRequest, ChannelTypes
  <2>2. QED
    BY <1>1, <1>2, <2>1 DEF HandlePty, Announced
<1>3. CASE HandleShell \/ HandleExec \/ HandleOther \/ RequestsEnd
  BY <1>1, <1>3 DEF HandleShell, HandleExec, HandleOther, RequestsEnd,
                    handlerVars
<1>4. CASE PromptCommand \/ PromptEnds \/ Credential
  BY <1>1, <1>4 DEF PromptCommand, PromptEnds, Credential, ReadLine, ReadFails,
                    Back
<1>5. CASE Dial \/ RequestPty \/ StartShell \/ WaitReturns
  BY <1>1, <1>5 DEF Dial, RequestPty, StartShell, WaitReturns, Back
<1>6. CASE ~Handler
  <2>1. UNCHANGED handlerVars
    BY <1>6 DEF Next, Send, Mux, MuxRequest, MuxLine, MuxEof, MuxClose,
                Deliver, DeviceEnds, Window, WinTake, WinEnds, Copier,
                CopierTake, CopierEof, vars
  <2>2. QED
    BY <1>1, <2>1 DEF handlerVars
<1>7. QED
  BY <1>2, <1>3, <1>4, <1>5, <1>6 DEF Handler

LEMMA DeviceTyped == TypeOK /\ [Next]_vars => DeviceTypes'
<1> SUFFICES ASSUME TypeOK, [Next]_vars PROVE DeviceTypes'
  OBVIOUS
<1>1. DeviceTypes /\ HandlerTypes /\ ChannelTypes
  BY TypeParts
<1> USE DEF DeviceTypes, HandlerTypes, Devices
<1>2. CASE Dial
  BY <1>1, <1>2 DEF Dial
<1>3. CASE RequestPty
  BY <1>1, <1>3 DEF RequestPty, CloseDevice
<1>4. CASE StartShell
  BY <1>1, <1>4 DEF StartShell, CloseDevice
<1>5. CASE WaitReturns
  BY <1>1, <1>5 DEF WaitReturns, CloseDevice
<1>6. ASSUME NEW s \in Dials, DeviceEnds(s) PROVE DeviceTypes'
  BY <1>1, <1>6 DEF DeviceEnds
<1>7. ASSUME NEW s \in Dials, WinTake(s) PROVE DeviceTypes'
  <2>1. Head(requests) \in [k : Reqs, sz : Nat]
    BY <1>1, <1>7, HeadTailTypes DEF WinTake, TakeRequest, ChannelTypes
  <2>2. QED
    BY <1>1, <1>7, <2>1 DEF WinTake, Resize, Announced
<1>8. ASSUME NEW s \in Dials, WinEnds(s) PROVE DeviceTypes'
  BY <1>1, <1>8 DEF WinEnds
<1>9. ASSUME NEW s \in Dials, CopierTake(s) PROVE DeviceTypes'
  <2>1. Len(pending) \in Nat
    BY <1>1, LenNat DEF ChannelTypes
  <2>2. dev[s].got + Len(pending) \in Nat
    BY <1>1, <2>1
  <2>3. CASE dev[s].st = "open"
    <3>1. /\ dev' = [dev EXCEPT ![s].got = dev[s].got + Len(pending)]
          /\ UNCHANGED <<cop, win>>
      BY <1>9, <2>3 DEF CopierTake
    <3>2. QED
      BY <1>1, <2>2, <3>1
  <2>4. CASE dev[s].st /= "open"
    BY <1>1, <1>9, <2>4 DEF CopierTake
  <2>5. QED
    BY <2>3, <2>4
<1>10. ASSUME NEW s \in Dials, CopierEof(s) PROVE DeviceTypes'
  <2>1. /\ dev' = [dev EXCEPT ![s].eof = (dev[s].st = "open")]
        /\ cop' = [cop EXCEPT ![s] = "ended"] /\ win' = win
    BY <1>10 DEF CopierEof
  <2>2. [dev[s] EXCEPT !.eof = (dev[s].st = "open")] \in Devices
    <3>1. dev[s] \in Devices
      BY <1>1
    <3>2. (dev[s].st = "open") \in BOOLEAN
      BY Zenon
    <3>3. QED
      BY <3>1, <3>2
  <2>3. dev' = [dev EXCEPT ![s] = [dev[s] EXCEPT !.eof = (dev[s].st = "open")]]
    BY <2>1, Zenon
  <2>4. dev' \in [Dials -> Devices]
    BY <1>1, <2>2, <2>3
  <2>5. QED
    BY <1>1, <2>1, <2>4
<1>11. CASE UNCHANGED deviceVars
  BY <1>1, <1>11 DEF deviceVars
<1>12. QED
  <2>1. CASE (\E k \in Kinds : Send(k)) \/ Mux \/ UNCHANGED vars
    <3>1. UNCHANGED deviceVars
      BY <2>1 DEF Send, Mux, MuxRequest, MuxLine, MuxEof, MuxClose, Deliver,
                  vars
    <3>2. QED
      BY <1>11, <3>1
  <2>2. CASE \/ HandlePty \/ HandleShell \/ HandleExec \/ HandleOther
             \/ RequestsEnd \/ PromptCommand \/ PromptEnds \/ Credential
    <3>1. UNCHANGED deviceVars
      BY <2>2 DEF HandlePty, HandleShell, HandleExec, HandleOther, RequestsEnd,
                  PromptCommand, PromptEnds, Credential, ReadLine, ReadFails
    <3>2. QED
      BY <1>11, <3>1
  <2>3. QED
    BY <1>2, <1>3, <1>4, <1>5, <1>6, <1>7, <1>8, <1>9, <1>10, <2>1, <2>2
       DEF Next, Handler, Window, Copier

LEMMA GhostTyped == TypeOK /\ [Next]_vars => GhostTypes'
<1> SUFFICES ASSUME TypeOK, [Next]_vars PROVE GhostTypes'
  OBVIOUS
<1>1. GhostTypes /\ ChannelTypes
  BY TypeParts
<1>2. Len(pending) \in Nat
  BY <1>1, LenNat DEF ChannelTypes
<1>3. CASE HandleOther
  BY <1>1, <1>3, Zenon DEF HandleOther, GhostTypes
<1>4. ASSUME NEW s \in Dials, CopierTake(s) PROVE GhostTypes'
  BY <1>1, <1>2, <1>4 DEF CopierTake, GhostTypes, ghostVars
<1>5. CASE UNCHANGED ghostVars
  BY <1>1, <1>5 DEF GhostTypes, ghostVars
<1>6. QED
  <2>1. HandleOther \/ (\E s \in Dials : CopierTake(s)) \/ UNCHANGED ghostVars
    BY DEF Next, Send, Mux, MuxRequest, MuxLine, MuxEof, MuxClose, Deliver,
           Handler, HandlePty, HandleShell, HandleExec, RequestsEnd,
           PromptCommand, PromptEnds, Credential, Dial, RequestPty, StartShell,
           WaitReturns, ReadLine, ReadFails, DeviceEnds, Window, WinTake,
           WinEnds, Copier, CopierEof, vars
  <2>2. QED
    BY <1>3, <1>4, <1>5, <2>1

\* The type invariant is inductive.
THEOREM TypeCorrect == Spec => []TypeOK
<1>1. Init => TypeOK
  <2> SUFFICES ASSUME Init PROVE TypeOK
    OBVIOUS
  <2>1. ClientTypes /\ ChannelTypes
    BY EmptySeq DEF Init, ClientTypes, ChannelTypes
  <2>2. HandlerTypes /\ DeviceTypes /\ GhostTypes
    BY DEF Init, HandlerTypes, DeviceTypes, GhostTypes, Pcs, Devices
  <2>3. QED
    BY <2>1, <2>2, TypeParts
<1>2. TypeOK /\ [Next]_vars => TypeOK'
  <2> SUFFICES ASSUME TypeOK, [Next]_vars PROVE TypeOK'
    OBVIOUS
  <2>1. /\ ClientTypes' /\ ChannelTypes' /\ HandlerTypes' /\ DeviceTypes'
        /\ GhostTypes'
    BY ClientTyped, ChannelTyped, HandlerTyped, DeviceTyped, GhostTyped
  <2>2. QED
    BY <2>1 DEF TypeOK, ClientTypes, ChannelTypes, HandlerTypes, DeviceTypes,
                GhostTypes
<1>3. QED
  BY <1>1, <1>2, PTL DEF Spec

-----------------------------------------------------------------------------
\* Device sessions, their connections and their copiers.

LEMMA DialsNat == Dials \subseteq Nat \ {0}
BY MaxDialsAssumption DEF Dials

\* A copier belongs to a device session that has got its shell, and so to an
\* earlier one or to the one that is in progress and past its start.
CopierStarted ==
    \A s \in Dials :
        cop[s] /= "none" =>
            /\ s < cur \/ (s = cur /\ pc \notin {"pty", "start"})
            /\ dev[s].st /= "none"

\* Device sessions follow one another.
InTurn == \A s \in Dials : s > cur => dev[s].st = "none"

SessionInv == DeviceReleased /\ CopierStarted /\ InTurn /\ NoEarlyLoss

\* Steps that leave the device sessions alone.
LEMMA Elsewhere ==
    ASSUME SessionInv, UNCHANGED <<deviceVars, cur, lost>>,
           pc' = pc \/ (pc \notin {"pty", "start", "wait"}
                           /\ pc' \notin {"pty", "start", "wait"})
    PROVE  SessionInv'
BY DEF SessionInv, DeviceReleased, CopierStarted, InTurn, NoEarlyLoss, deviceVars

LEMMA SessionInvStep == TypeOK /\ SessionInv /\ [Next]_vars => SessionInv'
<1> SUFFICES ASSUME TypeOK, SessionInv, [Next]_vars PROVE SessionInv'
  OBVIOUS
<1>1. DeviceTypes /\ HandlerTypes /\ GhostTypes /\ ChannelTypes
  BY TypeParts
<1>2. cur \in Nat /\ Dials \subseteq Nat \ {0}
  BY <1>1, DialsNat DEF HandlerTypes
<1>3. CASE \/ \E k \in Kinds : Send(k)
           \/ Mux
           \/ HandlePty \/ HandleShell \/ HandleExec \/ HandleOther
           \/ RequestsEnd \/ PromptCommand \/ PromptEnds \/ Credential
           \/ UNCHANGED vars
  <2>1. UNCHANGED <<deviceVars, cur, lost>>
    BY <1>3 DEF Send, Mux, MuxRequest, MuxLine, MuxEof, MuxClose, Deliver,
                HandlePty, HandleShell, HandleExec, HandleOther, RequestsEnd,
                PromptCommand, PromptEnds, Credential, ReadLine, ReadFails,
                handlerVars, ghostVars, deviceVars, vars
  <2>2. \/ pc' = pc
        \/ /\ pc \notin {"pty", "start", "wait"}
           /\ pc' \notin {"pty", "start", "wait"}
    BY <1>3 DEF Send, Mux, MuxRequest, MuxLine, MuxEof, MuxClose, Deliver,
                HandlePty, HandleShell, HandleExec, HandleOther, RequestsEnd,
                PromptCommand, PromptEnds, Credential, ReadLine, ReadFails,
                Back, handlerVars, vars
  <2>3. QED
    BY <2>1, <2>2, Elsewhere
<1> USE DEF DeviceTypes, HandlerTypes, Devices, SessionInv, DeviceReleased,
            CopierStarted, InTurn, NoEarlyLoss
<1>4. CASE Dial
  <2>1. pc = "dial" /\ UNCHANGED <<cop, lost>>
    BY <1>4 DEF Dial, ghostVars
  <2>2. \A d \in Dials : dev[d].st \notin {"open", "exited"}
    BY <2>1
  <2>3. \A d \in Dials : cop[d] /= "none" => d <= cur
    BY <1>2
  <2>4. CASE Back /\ UNCHANGED <<cur, dev>>
    BY <2>1, <2>2, <2>4 DEF Back
  <2>5. CASE /\ cur' = cur + 1 /\ cur' \in Dials /\ pc' = "pty"
             /\ dev' = [dev EXCEPT ![cur'].st = "open"]
    <3>1. \A d \in Dials : d /= cur' => dev'[d] = dev[d]
      BY <1>1, <2>5
    <3>2. dev'[cur'].st = "open"
      BY <1>1, <2>5
    <3>3. DeviceReleased'
      BY <2>2, <2>5, <3>1
    <3>4. CopierStarted'
      BY <1>2, <2>1, <2>3, <2>5, <3>1, <3>2
    <3>5. dev[cur'].st = "none"
      BY <1>2, <2>5
    <3>6. NoEarlyLoss'
      BY <2>1, <3>1, <3>5
    <3>7. InTurn'
      BY <1>2, <2>5, <3>1
    <3>8. QED
      BY <3>3, <3>4, <3>6, <3>7
  <2>6. QED
    BY <1>4, <2>4, <2>5 DEF Dial
<1>5. CASE RequestPty
  BY <1>1, <1>2, <1>5 DEF RequestPty, CloseDevice, Back, ghostVars
<1>6. CASE StartShell
  BY <1>1, <1>2, <1>6 DEF StartShell, CloseDevice, Back, ghostVars
<1>7. CASE WaitReturns
  BY <1>1, <1>2, <1>7 DEF WaitReturns, CloseDevice, Back, ghostVars
<1>8. ASSUME NEW s \in Dials, DeviceEnds(s) PROVE SessionInv'
  BY <1>1, <1>2, <1>8 DEF DeviceEnds, handlerVars, ghostVars
<1>9. ASSUME NEW s \in Dials, Window(s) PROVE SessionInv'
  <2>1. /\ UNCHANGED <<cop, cur, pc, lost>>
        /\ dev' = dev \/ dev' = [dev EXCEPT ![s].sz = Announced(Head(requests))]
    BY <1>9 DEF Window, WinTake, WinEnds, Resize, handlerVars, ghostVars
  <2>2. \A d \in Dials : dev'[d].st = dev[d].st
    BY <1>1, <2>1
  <2>3. QED
    BY <2>1, <2>2
<1>10. ASSUME NEW s \in Dials, CopierTake(s) PROVE SessionInv'
  <2>1. /\ UNCHANGED <<cur, pc>> /\ cop[s] /= "none"
        /\ \/ /\ dev[s].st = "open" /\ UNCHANGED <<cop, lost>>
              /\ \E n : dev' = [dev EXCEPT ![s].got = n]
           \/ /\ dev[s].st /= "open" /\ UNCHANGED dev
              /\ \A d \in Dials : d /= s => cop'[d] = cop[d]
    BY <1>1, <1>10 DEF CopierTake, handlerVars
  <2>2. \A d \in Dials : dev'[d].st = dev[d].st
    BY <1>1, <2>1
  <2>3. \A d \in Dials : cop'[d] /= "none" => cop[d] /= "none"
    BY <2>1
  <2>4. dev[s].st /= "open" => dev[s].st \in {"exited", "closed"}
    BY <1>1, <2>1
  <2>5. lost' = lost \/ dev[s].st /= "open"
    BY <2>1
  <2>6. QED
    BY <2>1, <2>2, <2>3, <2>4, <2>5
<1>11. ASSUME NEW s \in Dials, CopierEof(s) PROVE SessionInv'
  BY <1>1, <1>2, <1>11 DEF CopierEof, handlerVars, ghostVars
<1>12. QED
  BY <1>3, <1>4, <1>5, <1>6, <1>7, <1>8, <1>9, <1>10, <1>11
     DEF Next, Handler, Copier

LEMMA SessionInvHolds == Spec => []SessionInv
<1>1. Init => SessionInv
  BY DEF Init, SessionInv, DeviceReleased, CopierStarted, InTurn, NoEarlyLoss
<1>2. QED
  BY <1>1, SessionInvStep, TypeCorrect, PTL DEF Spec

\* Every return of proxyToDeviceWithPty has closed the device's connection.
THEOREM DevicesAreReleased == Spec => []DeviceReleased
<1>1. SessionInv => DeviceReleased
  BY DEF SessionInv
<1>2. QED
  BY <1>1, SessionInvHolds, PTL

\* No input is swallowed before a first device session has ended.
THEOREM NothingLostEarly == Spec => []NoEarlyLoss
<1>1. SessionInv => NoEarlyLoss
  BY DEF SessionInv
<1>2. QED
  BY <1>1, SessionInvHolds, PTL

\* What is typed at a prompt, credentials included, reaches no device.
THEOREM InputIsConfined == Spec => InputConfined
<1>1. TypeOK /\ SessionInv /\ [Next]_vars =>
        [\A s \in Dials :
            dev'[s].got /= dev[s].got => s = cur /\ pc = "wait"]_vars
  <2> SUFFICES ASSUME TypeOK, SessionInv, Next,
                      NEW s \in Dials, dev'[s].got /= dev[s].got
               PROVE  s = cur /\ pc = "wait"
    BY DEF vars
  <2>1. DeviceTypes /\ HandlerTypes
    BY TypeParts
  <2>2. cur \in Nat /\ Dials \subseteq Nat \ {0}
    BY <2>1, DialsNat DEF HandlerTypes
  <2>3. CASE CopierTake(s)
    <3>1. cop[s] /= "none" /\ dev[s].st = "open"
      BY <2>3 DEF CopierTake
    <3>2. QED
      BY <2>2, <3>1 DEF SessionInv, DeviceReleased, CopierStarted
  <2>4. CASE ~CopierTake(s)
    <3>1. ASSUME NEW t \in Dials, t /= s, CopierTake(t) PROVE FALSE
      BY <2>1, <3>1 DEF CopierTake, DeviceTypes
    <3>2. ASSUME NEW t \in Dials, DeviceEnds(t) \/ Window(t) \/ CopierEof(t)
          PROVE FALSE
      BY <2>1, <3>2 DEF DeviceEnds, Window, WinTake, WinEnds, CopierEof,
                        Resize, DeviceTypes, Devices
    <3>3. CASE Handler
      <4>1. \/ UNCHANGED dev
            \/ \E d \in Dials : dev' = [dev EXCEPT ![d].st = "open"]
            \/ dev' = [dev EXCEPT ![cur].st = "closed"]
            \/ dev' = [dev EXCEPT ![cur].sz = term]
        BY <3>3 DEF Handler, HandlePty, HandleShell, HandleExec, HandleOther,
                    RequestsEnd, PromptCommand, PromptEnds, Credential, Dial,
                    RequestPty, StartShell, WaitReturns, ReadLine, ReadFails,
                    CloseDevice, deviceVars
      <4>2. dev'[s].got = dev[s].got
        BY <2>1, <4>1 DEF DeviceTypes, Devices
      <4>3. QED
        BY <4>2
    <3>4. CASE Mux \/ \E k \in Kinds : Send(k)
      BY <3>4 DEF Mux, MuxRequest, MuxLine, MuxEof, MuxClose, Deliver, Send,
                  deviceVars
    <3>5. QED
      BY <2>4, <3>1, <3>2, <3>3, <3>4 DEF Next, Copier
  <2>5. QED
    BY <2>3, <2>4
<1>2. QED
  BY <1>1, SessionInvHolds, TypeCorrect, PTL DEF Spec, InputConfined

-----------------------------------------------------------------------------
\* Sizes on their way. They leave the client in the order of their
\* announcement, through wire and requests; the newest of a queue is its last.

Sized == {"pty", "win"}
Starts == {"shell", "exec"}

NoSize(q) == \A i \in 1 .. Len(q) : q[i].k \notin Sized
Newest(q, x) ==
    \E i \in 1 .. Len(q) :
        /\ q[i].k \in Sized /\ q[i].sz = x
        /\ \A j \in 1 .. Len(q) : j > i => q[j].k \notin Sized

NoPty(q) == \A i \in 1 .. Len(q) : q[i].k /= "pty"
HasStart(q) == \E i \in 1 .. Len(q) : q[i].k \in Starts
PtyBeforeStart(q) ==
    \A i, j \in 1 .. Len(q) : i < j /\ q[i].k \in Starts => q[j].k /= "pty"

\* The two ways in which a queue changes.
LEMMA TailItems ==
    ASSUME NEW S, NEW q \in Seq(S), q /= <<>>
    PROVE  /\ Len(q) \in Nat \ {0} /\ Len(Tail(q)) = Len(q) - 1
           /\ Head(q) = q[1]
           /\ \A i \in 1 .. Len(Tail(q)) : Tail(q)[i] = q[i + 1]
BY HeadTailProperties, LenProperties, EmptySeq

LEMMA AppendItems ==
    ASSUME NEW S, NEW q \in Seq(S), NEW r \in S
    PROVE  /\ Len(q) \in Nat /\ Len(Append(q, r)) = Len(q) + 1
           /\ \A i \in 1 .. Len(q) : Append(q, r)[i] = q[i]
           /\ Append(q, r)[Len(q) + 1] = r
BY AppendProperties, LenProperties

LEMMA TailSizes ==
    ASSUME NEW S, NEW q \in Seq(S), q /= <<>>, NEW x
    PROVE  /\ NoSize(q) => NoSize(Tail(q)) /\ Head(q).k \notin Sized
           /\ Newest(q, x) =>
                 \/ Newest(Tail(q), x)
                 \/ /\ Head(q).k \in Sized /\ Head(q).sz = x
                    /\ NoSize(Tail(q))
<1> DEFINE t == Tail(q)
<1>1. PICK n \in Nat \ {0} : n = Len(q) /\ Len(t) = n - 1
  BY TailItems
<1>2. Head(q) = q[1] /\ \A i \in 1 .. n - 1 : t[i] = q[i + 1]
  BY <1>1, TailItems
<1> HIDE DEF t
<1>3. NoSize(q) => NoSize(t) /\ Head(q).k \notin Sized
  BY <1>1, <1>2 DEF NoSize
<1>4. ASSUME NEW i \in 1 .. n, q[i].k \in Sized, q[i].sz = x,
             \A j \in 1 .. n : j > i => q[j].k \notin Sized
      PROVE  \/ Newest(t, x)
             \/ Head(q).k \in Sized /\ Head(q).sz = x /\ NoSize(t)
  <2>1. CASE i = 1
    BY <1>1, <1>2, <1>4, <2>1 DEF NoSize
  <2>2. CASE i /= 1
    <3>1. /\ i - 1 \in 1 .. n - 1 /\ t[i - 1] = q[i]
      BY <1>2, <2>2
    <3>2. \A j \in 1 .. n - 1 : j > i - 1 => t[j].k \notin Sized
      BY <1>2, <1>4
    <3>3. QED
      BY <1>1, <1>4, <3>1, <3>2 DEF Newest
  <2>3. QED
    BY <2>1, <2>2
<1>5. QED
  BY <1>1, <1>3, <1>4 DEF Newest, t

LEMMA AppendSizes ==
    ASSUME NEW S, NEW q \in Seq(S), NEW r \in S, NEW x
    PROVE  /\ r.k \in Sized => Newest(Append(q, r), r.sz)
           /\ r.k \notin Sized /\ NoSize(q) => NoSize(Append(q, r))
           /\ r.k \notin Sized /\ Newest(q, x) => Newest(Append(q, r), x)
<1> DEFINE a == Append(q, r)
<1>1. PICK n \in Nat : n = Len(q) /\ Len(a) = n + 1
  BY AppendItems
<1>2. a[n + 1] = r /\ \A i \in 1 .. n : a[i] = q[i]
  BY <1>1, AppendItems
<1> HIDE DEF a
<1>3. r.k \in Sized => Newest(a, r.sz)
  BY <1>1, <1>2 DEF Newest
<1>4. r.k \notin Sized /\ NoSize(q) => NoSize(a)
  <2>1. \A i \in 1 .. n + 1 : i \in 1 .. n \/ i = n + 1
    OBVIOUS
  <2>2. QED
    BY <1>1, <1>2, <2>1 DEF NoSize
<1>5. ASSUME r.k \notin Sized, NEW i \in 1 .. n, q[i].k \in Sized, q[i].sz = x,
             \A j \in 1 .. n : j > i => q[j].k \notin Sized
      PROVE  Newest(a, x)
  <2>1. i \in 1 .. n + 1 /\ a[i] = q[i]
    BY <1>2
  <2>2. \A j \in 1 .. n + 1 : j > i => a[j].k \notin Sized
    BY <1>2, <1>5
  <2>3. QED
    BY <1>1, <1>5, <2>1, <2>2 DEF Newest
<1>6. QED
  BY <1>1, <1>3, <1>4, <1>5 DEF Newest, a

LEMMA TailStarts ==
    ASSUME NEW S, NEW q \in Seq(S), q /= <<>>
    PROVE  /\ PtyBeforeStart(q) => PtyBeforeStart(Tail(q))
           /\ HasStart(Tail(q)) => HasStart(q)
           /\ NoPty(q) => NoPty(Tail(q)) /\ Head(q).k /= "pty"
           /\ Head(q).k \in Starts =>
                 HasStart(q) /\ (PtyBeforeStart(q) => NoPty(Tail(q)))
<1> DEFINE t == Tail(q)
<1>1. PICK n \in Nat \ {0} : n = Len(q) /\ Len(t) = n - 1
  BY TailItems
<1>2. /\ Head(q) = q[1] /\ 1 \in 1 .. n
      /\ \A i \in 1 .. n - 1 : t[i] = q[i + 1] /\ i + 1 \in 1 .. n /\ 1 < i + 1
  BY <1>1, TailItems
<1> HIDE DEF t
<1>3. PtyBeforeStart(q) => PtyBeforeStart(t)
  BY <1>1, <1>2 DEF PtyBeforeStart
<1>4. HasStart(t) => HasStart(q)
  BY <1>1, <1>2 DEF HasStart
<1>5. NoPty(q) => NoPty(t) /\ Head(q).k /= "pty"
  BY <1>1, <1>2 DEF NoPty
<1>6. Head(q).k \in Starts =>
        HasStart(q) /\ (PtyBeforeStart(q) => NoPty(t))
  BY <1>1, <1>2 DEF HasStart, NoPty, PtyBeforeStart
<1>7. QED
  BY <1>3, <1>4, <1>5, <1>6 DEF t

LEMMA AppendStarts ==
    ASSUME NEW S, NEW q \in Seq(S), NEW r \in S
    PROVE  /\ PtyBeforeStart(q) /\ (r.k /= "pty" \/ ~HasStart(q)) =>
                 PtyBeforeStart(Append(q, r))
           /\ HasStart(Append(q, r)) => HasStart(q) \/ r.k \in Starts
           /\ NoPty(q) /\ r.k /= "pty" => NoPty(Append(q, r))
<1> DEFINE a == Append(q, r)
<1>1. PICK n \in Nat : n = Len(q) /\ Len(a) = n + 1
  BY AppendItems
<1>2. a[n + 1] = r /\ \A i \in 1 .. n : a[i] = q[i]
  BY <1>1, AppendItems
<1>3. \A i \in 1 .. n + 1 : i \in 1 .. n \/ i = n + 1
  OBVIOUS
<1> HIDE DEF a
<1>4. PtyBeforeStart(q) /\ (r.k /= "pty" \/ ~HasStart(q)) => PtyBeforeStart(a)
  BY <1>1, <1>2, <1>3 DEF PtyBeforeStart, HasStart
<1>5. HasStart(a) => HasStart(q) \/ r.k \in Starts
  BY <1>1, <1>2, <1>3 DEF HasStart
<1>6. NoPty(q) /\ r.k /= "pty" => NoPty(a)
  BY <1>1, <1>2, <1>3 DEF NoPty
<1>7. QED
  BY <1>4, <1>5, <1>6 DEF a

-----------------------------------------------------------------------------
\* The order of the requests: a terminal is asked for before shell or exec.

Started == sent["shell"] > 0 \/ sent["exec"] > 0

StartOrder ==
    /\ HasStart(wire) \/ HasStart(requests) \/ mode /= "none" => Started
    /\ PtyBeforeStart(wire) /\ PtyBeforeStart(requests)
    /\ HasStart(requests) => NoPty(wire)
    /\ mode /= "none" => NoPty(requests) /\ NoPty(wire)

\* What a step does with the two queues.
Sends(k) == /\ wire' = Append(wire, [k |-> k, sz |-> size'])
            /\ UNCHANGED <<requests, mode>>
Moves == /\ wire /= <<>> /\ Head(wire).k \in Reqs
         /\ wire' = Tail(wire) /\ requests' = Append(requests, Head(wire))
         /\ UNCHANGED <<sent, size, mode>>
Drops == /\ wire /= <<>> /\ Head(wire).k \notin Reqs
         /\ wire' = Tail(wire) /\ UNCHANGED <<sent, size, requests, mode>>
Takes == /\ requests /= <<>> /\ requests' = Tail(requests)
         /\ mode' = mode \/ Head(requests).k \in Starts
         /\ UNCHANGED <<sent, size, wire>>
Rests == UNCHANGED <<sent, size, wire, requests, mode>>

LEMMA QueueSteps ==
    ASSUME Next, ~\E k \in Kinds : Send(k) PROVE Moves \/ Drops \/ Takes \/ Rests
<1> USE DEF Moves, Drops, Takes, Rests
<1>1. CASE MuxRequest
  BY <1>1 DEF MuxRequest, Deliver, handlerVars
<1>2. CASE MuxLine \/ MuxEof \/ MuxClose
  BY <1>2 DEF MuxLine, MuxEof, MuxClose, Deliver, handlerVars, Reqs, Lines
<1>3. CASE HandlePty \/ HandleShell \/ HandleExec \/ HandleOther
  BY <1>3 DEF HandlePty, HandleShell, HandleExec, HandleOther, TakeRequest,
              clientVars, handlerVars, Starts
<1>4. CASE \/ RequestsEnd \/ PromptCommand \/ PromptEnds \/ Credential
           \/ Dial \/ RequestPty \/ StartShell \/ WaitReturns
  BY <1>4 DEF RequestsEnd, PromptCommand, PromptEnds, Credential, Dial,
              RequestPty, StartShell, WaitReturns, ReadLine, ReadFails,
              clientVars, channelVars
<1>5. ASSUME NEW s \in Dials, DeviceEnds(s) \/ Window(s) \/ Copier(s)
      PROVE  Takes \/ Rests
  BY <1>5 DEF DeviceEnds, Window, WinTake, WinEnds, Copier, CopierTake,
              CopierEof, TakeRequest, clientVars, channelVars, handlerVars
<1>6. QED
  BY <1>1, <1>2, <1>3, <1>4, <1>5 DEF Next, Mux, Handler

LEMMA SentPacket ==
    ASSUME TypeOK, NEW k \in Kinds, Send(k)
    PROVE  /\ [k |-> k, sz |-> size'] \in Packets
           /\ Sends(k)
           /\ Started => Started'
           /\ k \in Starts => Started'
           /\ k = "pty" => ~Started
<1>1. ClientTypes /\ ClientTypes'
  BY ClientTyped, TypeParts DEF Next
<1>2. \A x \in Kinds : sent[x] \in Nat
  BY <1>1 DEF ClientTypes
<1>3. sent["shell"] \in Nat /\ sent["exec"] \in Nat
  BY <1>2 DEF Kinds, Reqs
<1>4. sent' = [sent EXCEPT ![k] = sent[k] + 1]
  BY DEF Send
<1>5. Started => Started'
  BY <1>1, <1>2, <1>4 DEF Started, ClientTypes, Kinds, Reqs
<1>6. k \in Starts => Started'
  <2>1. sent'[k] = sent[k] + 1 /\ sent[k] \in Nat
    BY <1>1, <1>4 DEF ClientTypes
  <2>2. sent'[k] > 0
    BY <2>1
  <2>3. QED
    BY <2>2 DEF Started, Starts
<1>7. k = "pty" => ~Started
  BY <1>3 DEF Send, Started
<1>8. QED
  BY <1>1, <1>5, <1>6, <1>7
     DEF ClientTypes, Packets, Send, Sends, channelVars, handlerVars

LEMMA StartOrderStep == TypeOK /\ StartOrder /\ [Next]_vars => StartOrder'
<1> SUFFICES ASSUME TypeOK, StartOrder, [Next]_vars PROVE StartOrder'
  OBVIOUS
<1>1. ClientTypes /\ ChannelTypes
  BY TypeParts
<1>2. wire \in Seq(Packets) /\ requests \in Seq([k : Reqs, sz : Nat])
  BY <1>1 DEF ClientTypes, ChannelTypes
<1>3. ASSUME NEW k \in Kinds, Send(k) PROVE StartOrder'
  <2> DEFINE r == [k |-> k, sz |-> size']
  <2>1. /\ r \in Packets /\ r.k = k
        /\ wire' = Append(wire, r) /\ UNCHANGED <<requests, mode>>
        /\ Started => Started'
        /\ k \in Starts => Started'
        /\ k = "pty" => ~Started
    BY <1>3, SentPacket DEF Sends
  <2> HIDE DEF r
  <2>2. /\ PtyBeforeStart(wire) /\ (k /= "pty" \/ ~HasStart(wire)) =>
              PtyBeforeStart(wire')
        /\ HasStart(wire') => HasStart(wire) \/ k \in Starts
        /\ NoPty(wire) /\ k /= "pty" => NoPty(wire')
    BY <1>2, <2>1, AppendStarts
  <2>3. QED
    BY <2>1, <2>2, Zenon DEF StartOrder
<1>4. CASE Moves
  <2> DEFINE r == Head(wire)
  <2>1. r \in Packets /\ r \in [k : Reqs, sz : Nat]
    <3>1. r \in Packets
      BY <1>2, <1>4, HeadTailTypes DEF Moves
    <3>2. QED
      BY <1>4, <3>1 DEF Moves, Packets
  <2>2. /\ wire' = Tail(wire) /\ requests' = Append(requests, r)
        /\ UNCHANGED <<sent, mode>>
    BY <1>4 DEF Moves
  <2>3. /\ PtyBeforeStart(wire) => PtyBeforeStart(wire')
        /\ HasStart(wire') => HasStart(wire)
        /\ NoPty(wire) => NoPty(wire') /\ r.k /= "pty"
        /\ r.k \in Starts =>
              HasStart(wire) /\ (PtyBeforeStart(wire) => NoPty(wire'))
    BY <1>2, <1>4, <2>2, TailStarts DEF Moves
  <2> HIDE DEF r
  <2>4. /\ PtyBeforeStart(requests) /\ (r.k /= "pty" \/ ~HasStart(requests)) =>
              PtyBeforeStart(requests')
        /\ HasStart(requests') => HasStart(requests) \/ r.k \in Starts
        /\ NoPty(requests) /\ r.k /= "pty" => NoPty(requests')
    BY <1>2, <2>1, <2>2, AppendStarts
  <2>5. Started' <=> Started
    BY <2>2 DEF Started
  <2>6. QED
    BY <2>2, <2>3, <2>4, <2>5, Zenon DEF StartOrder
<1>5. CASE Drops
  <2>1. wire' = Tail(wire) /\ UNCHANGED <<sent, requests, mode>>
    BY <1>5 DEF Drops
  <2>2. /\ PtyBeforeStart(wire) => PtyBeforeStart(wire')
        /\ HasStart(wire') => HasStart(wire)
        /\ NoPty(wire) => NoPty(wire')
    BY <1>2, <1>5, <2>1, TailStarts DEF Drops
  <2>3. Started' <=> Started
    BY <2>1 DEF Started
  <2>4. QED
    BY <2>1, <2>2, <2>3, Zenon DEF StartOrder
<1>6. CASE Takes
  <2> DEFINE r == Head(requests)
  <2>1. /\ requests' = Tail(requests) /\ UNCHANGED <<sent, wire>>
        /\ mode' = mode \/ r.k \in Starts
    BY <1>6 DEF Takes
  <2>2. /\ PtyBeforeStart(requests) => PtyBeforeStart(requests')
        /\ HasStart(requests') => HasStart(requests)
        /\ NoPty(requests) => NoPty(requests')
        /\ r.k \in Starts =>
              /\ HasStart(requests)
              /\ PtyBeforeStart(requests) => NoPty(requests')
    BY <1>2, <1>6, <2>1, TailStarts DEF Takes
  <2> HIDE DEF r
  <2>3. Started' <=> Started
    BY <2>1 DEF Started
  <2>4. CASE mode' = mode
    BY <2>1, <2>2, <2>3, <2>4, Zenon DEF StartOrder
  <2>5. CASE r.k \in Starts
    BY <2>1, <2>2, <2>3, <2>5, Zenon DEF StartOrder
  <2>6. QED
    BY <2>1, <2>4, <2>5
<1>7. CASE Rests \/ UNCHANGED vars
  BY <1>7 DEF Rests, StartOrder, Started, vars, clientVars, channelVars,
              handlerVars
<1>8. QED
  BY <1>3, <1>4, <1>5, <1>6, <1>7, QueueSteps

-----------------------------------------------------------------------------
\* The newest size z is still in the wire w, or else in the queue q, or else
\* the size x that was applied last.
Latest(w, q, z, x) ==
    \/ Newest(w, z)
    \/ NoSize(w) /\ (Newest(q, z) \/ (NoSize(q) /\ x = z))

LEMMA LatestSends ==
    ASSUME TypeOK, NEW k \in Kinds, Send(k), NEW x,
           Latest(wire, requests, size, x)
    PROVE  Latest(wire', requests', size', x)
<1> DEFINE r == [k |-> k, sz |-> size']
<1>1. /\ wire \in Seq(Packets) /\ r \in Packets /\ r.k = k /\ r.sz = size'
      /\ wire' = Append(wire, r) /\ requests' = requests
  BY SentPacket, TypeParts DEF ClientTypes, Sends
<1>2. k \notin Sized => size' = size
  BY DEF Send, Sized
<1> HIDE DEF r
<1>3. /\ k \in Sized => Newest(wire', size')
      /\ k \notin Sized /\ NoSize(wire) => NoSize(wire')
      /\ k \notin Sized /\ Newest(wire, size) => Newest(wire', size)
  BY <1>1, AppendSizes
<1>4. QED
  BY <1>1, <1>2, <1>3 DEF Latest

LEMMA LatestMoves ==
    ASSUME TypeOK, Moves \/ Drops, NEW x, Latest(wire, requests, size, x)
    PROVE  Latest(wire', requests', size', x)
<1> DEFINE r == Head(wire)
<1>1. wire \in Seq(Packets) /\ requests \in Seq([k : Reqs, sz : Nat])
  BY TypeParts DEF ClientTypes, ChannelTypes
<1>2. wire /= <<>> /\ wire' = Tail(wire) /\ size' = size /\ r \in Packets
  BY <1>1, HeadTailTypes DEF Moves, Drops
<1>3. /\ NoSize(wire) => NoSize(wire') /\ r.k \notin Sized
      /\ Newest(wire, size) =>
            Newest(wire', size) \/ (r.k \in Sized /\ r.sz = size /\ NoSize(wire'))
  BY <1>1, <1>2, TailSizes
<1>4. CASE Drops
  <2>1. requests' = requests /\ r.k \notin Sized
    BY <1>4 DEF Drops, Reqs, Sized
  <2>2. QED
    BY <1>2, <1>3, <2>1, Zenon DEF Latest
<1>5. CASE Moves
  <2>1. requests' = Append(requests, r) /\ r \in [k : Reqs, sz : Nat]
    BY <1>2, <1>5 DEF Moves, Packets
  <2> HIDE DEF r
  <2>2. /\ r.k \in Sized => Newest(requests', r.sz)
        /\ r.k \notin Sized /\ NoSize(requests) => NoSize(requests')
        /\ r.k \notin Sized /\ Newest(requests, size) => Newest(requests', size)
    BY <1>1, <2>1, AppendSizes
  <2>3. QED
    BY <1>2, <1>3, <2>2 DEF Latest
<1>6. QED
  BY <1>4, <1>5

LEMMA LatestTakes ==
    ASSUME TypeOK, Takes, NEW x, Latest(wire, requests, size, x), NEW y,
           IF Head(requests).k \in Sized THEN y = Head(requests).sz ELSE y = x
    PROVE  Latest(wire', requests', size', y)
<1> DEFINE r == Head(requests)
<1>1. requests \in Seq([k : Reqs, sz : Nat])
  BY TypeParts DEF ChannelTypes
<1>2. /\ requests /= <<>> /\ requests' = Tail(requests)
      /\ UNCHANGED <<size, wire>>
  BY DEF Takes
<1>3. /\ NoSize(requests) => NoSize(requests') /\ r.k \notin Sized
      /\ Newest(requests, size) =>
            \/ Newest(requests', size)
            \/ r.k \in Sized /\ r.sz = size /\ NoSize(requests')
  BY <1>1, <1>2, TailSizes
<1>4. (r.k \in Sized => y = r.sz) /\ (r.k \notin Sized => y = x)
  OBVIOUS
<1> HIDE DEF r
<1>5. QED
  BY <1>2, <1>3, <1>4 DEF Latest

\* The first device session: the client's size is in term until the PTY is
\* asked for, and then on the device, once it is no longer on its way.
BeforePty == cur = 0 \/ (cur = 1 /\ pc = "pty")
Showing == cur = 1 /\ pc \in {"start", "wait"} /\ dev[1].st = "open"

Fresh ==
    ~winRefused =>
        /\ BeforePty => Latest(wire, requests, size, term)
        /\ Showing => Latest(wire, requests, size, dev[1].sz)

\* A window goroutine starts with its session's PTY.
WinStarted ==
    \A s \in Dials : win[s] = "run" => s < cur \/ (s = cur /\ pc /= "pty")

\* Past its request loop the handler has taken shell or exec.
PastRequests == pc \notin {"requests", "done"} => mode /= "none"

SizeInv == StartOrder /\ Fresh /\ WinStarted /\ PastRequests

LEMMA PlaceStep ==
    TypeOK /\ WinStarted /\ PastRequests /\ [Next]_vars
        => WinStarted' /\ PastRequests'
<1> SUFFICES ASSUME TypeOK, WinStarted, PastRequests, [Next]_vars
             PROVE  WinStarted' /\ PastRequests'
  OBVIOUS
<1>1. DeviceTypes /\ HandlerTypes
  BY TypeParts
<1>2. cur \in Nat /\ Dials \subseteq Nat \ {0}
  BY <1>1, DialsNat DEF HandlerTypes
<1> USE DEF WinStarted, PastRequests
<1>3. CASE ~Handler
  <2>1. /\ UNCHANGED handlerVars
        /\ win' = win \/ \E s \in Dials : win' = [win EXCEPT ![s] = "ended"]
    BY <1>3 DEF Next, Send, Mux, MuxRequest, MuxLine, MuxEof, MuxClose,
                Deliver, DeviceEnds, Window, WinTake, WinEnds, Copier,
                CopierTake, CopierEof, vars, deviceVars
  <2>2. QED
    BY <1>1, <2>1 DEF handlerVars, DeviceTypes
<1>4. CASE HandlePty \/ HandleShell \/ HandleExec \/ HandleOther \/ RequestsEnd
           \/ PromptCommand \/ PromptEnds \/ Credential
  BY <1>4 DEF HandlePty, HandleShell, HandleExec, HandleOther, RequestsEnd,
              PromptCommand, PromptEnds, Credential, ReadLine, ReadFails, Back,
              deviceVars, handlerVars
<1>5. CASE Dial
  BY <1>2, <1>5 DEF Dial, Back
<1>6. CASE RequestPty
  <2>1. PastRequests'
    BY <1>6 DEF RequestPty, Back
  <2>2. \A s \in Dials : win'[s] = "run" => win[s] = "run" \/ s = cur
    BY <1>1, <1>6 DEF RequestPty, DeviceTypes
  <2>3. cur' = cur /\ pc' /= "pty"
    BY <1>6 DEF RequestPty, Back
  <2>4. QED
    BY <2>1, <2>2, <2>3
<1>7. CASE StartShell \/ WaitReturns
  BY <1>7 DEF StartShell, WaitReturns, Back
<1>8. QED
  BY <1>3, <1>4, <1>5, <1>6, <1>7 DEF Handler

LEMMA FreshStep ==
    TypeOK /\ SessionInv /\ SizeInv /\ [Next]_vars => Fresh'
<1> SUFFICES ASSUME TypeOK, SessionInv, SizeInv, [Next]_vars, ~winRefused',
                    BeforePty' \/ Showing'
             PROVE  /\ BeforePty' => Latest(wire', requests', size', term')
                    /\ Showing' => Latest(wire', requests', size', dev'[1].sz)
  BY DEF Fresh
<1> DEFINE Goal == /\ BeforePty' => Latest(wire', requests', size', term')
                   /\ Showing' => Latest(wire', requests', size', dev'[1].sz)
           Still == UNCHANGED <<pc, cur, term, dev, winRefused>>
<1>1. DeviceTypes /\ HandlerTypes
  BY TypeParts
<1>2. cur \in Nat /\ Dials \subseteq Nat \ {0}
  BY <1>1, DialsNat DEF HandlerTypes
<1>3. ~winRefused =>
        /\ BeforePty => Latest(wire, requests, size, term)
        /\ Showing => Latest(wire, requests, size, dev[1].sz)
  BY DEF SizeInv, Fresh
<1>4. ASSUME Still PROVE /\ BeforePty' <=> BeforePty
                         /\ Showing' <=> Showing
                         /\ ~winRefused /\ term' = term /\ dev' = dev
  BY <1>4 DEF BeforePty, Showing
<1>5. ASSUME NEW k \in Kinds, Send(k) PROVE Goal
  <2>1. Still
    BY <1>5 DEF Send, handlerVars, deviceVars, ghostVars
  <2>2. QED
    BY <1>3, <1>4, <1>5, <2>1, LatestSends
<1>6. CASE Mux
  <2>1. Still
    BY <1>6 DEF Mux, MuxRequest, MuxLine, MuxEof, MuxClose, Deliver,
                handlerVars, deviceVars, ghostVars
  <2>2. Moves \/ Drops
    BY <1>6 DEF Mux, MuxRequest, MuxLine, MuxEof, MuxClose, Deliver,
                handlerVars, Moves, Drops, Reqs, Lines
  <2>3. QED
    BY <1>3, <1>4, <2>1, <2>2, LatestMoves
<1>7. CASE Still /\ UNCHANGED <<wire, requests, size>>
  BY <1>3, <1>4, <1>7
<1>8. CASE HandlePty
  <2>1. /\ UNCHANGED <<pc, cur, dev, winRefused>> /\ pc = "requests"
        /\ term' = Head(requests).sz /\ Head(requests).k = "pty"
    BY <1>8 DEF HandlePty, TakeRequest, deviceVars, ghostVars, Announced
  <2>2. Takes
    BY <1>8 DEF HandlePty, TakeRequest, clientVars, Takes
  <2>3. ~Showing' /\ (BeforePty' => BeforePty)
    BY <2>1 DEF Showing, BeforePty
  <2>4. QED
    BY <1>3, <2>1, <2>2, <2>3, LatestTakes DEF Sized
<1>9. CASE HandleShell \/ HandleExec \/ HandleOther
  <2>1. /\ UNCHANGED <<cur, term, dev>> /\ pc = "requests"
        /\ pc' \notin {"pty", "start", "wait"}
        /\ Head(requests).k \notin Sized /\ ~winRefused
    <3>1. CASE HandleShell \/ HandleExec
      BY <3>1 DEF HandleShell, HandleExec, TakeRequest, deviceVars, ghostVars,
                  Sized
    <3>2. CASE HandleOther
      <4>1. ~winRefused /\ Head(requests).k /= "win"
        BY <3>2, Zenon DEF HandleOther
      <4>2. QED
        BY <3>2, <4>1 DEF HandleOther, TakeRequest, deviceVars, handlerVars,
                          Sized
    <3>3. QED
      BY <1>9, <3>1, <3>2
  <2>2. Takes
    BY <1>9 DEF HandleShell, HandleExec, HandleOther, TakeRequest, clientVars,
                handlerVars, Takes, Starts
  <2>3. ~Showing' /\ (BeforePty' => BeforePty)
    BY <2>1 DEF Showing, BeforePty
  <2>4. QED
    BY <1>3, <2>1, <2>2, <2>3, LatestTakes
<1>10. CASE RequestsEnd \/ PromptCommand \/ PromptEnds \/ Credential
  <2>1. /\ UNCHANGED <<cur, term, dev, winRefused, wire, requests, size>>
        /\ pc' \notin {"pty", "start", "wait"}
    BY <1>10 DEF RequestsEnd, PromptCommand, PromptEnds, Credential, ReadLine,
                 ReadFails, Back, clientVars, channelVars, deviceVars, ghostVars
  <2>2. ~Showing' /\ (BeforePty' => BeforePty)
    BY <2>1 DEF Showing, BeforePty
  <2>3. QED
    BY <1>3, <2>1, <2>2
<1>11. CASE Dial
  <2>1. /\ UNCHANGED <<term, winRefused, wire, requests, size>>
        /\ \/ cur' = cur + 1 /\ pc' = "pty"
           \/ UNCHANGED cur /\ pc' \notin {"pty", "start", "wait"}
    BY <1>11 DEF Dial, Back, clientVars, channelVars, ghostVars
  <2>2. ~Showing' /\ (BeforePty' => BeforePty)
    BY <1>2, <2>1 DEF Showing, BeforePty
  <2>3. QED
    BY <1>3, <2>1, <2>2
<1>12. CASE RequestPty
  <2>1. /\ UNCHANGED <<cur, term, winRefused, wire, requests, size>>
        /\ pc = "pty" /\ pc' /= "pty"
        /\ \/ dev' = [dev EXCEPT ![cur].sz = term]
           \/ pc' \notin {"start", "wait"}
    BY <1>12 DEF RequestPty, Back, clientVars, channelVars, ghostVars
  <2>2. BeforePty' => BeforePty
    BY <2>1 DEF BeforePty
  <2>3. ASSUME Showing' PROVE BeforePty /\ dev'[1].sz = term
    <3>1. cur = 1 /\ dev' = [dev EXCEPT ![1].sz = term] /\ 1 \in Dials
      BY <1>1, <2>1, <2>3 DEF Showing, HandlerTypes
    <3>2. QED
      BY <1>1, <2>1, <3>1 DEF BeforePty, DeviceTypes, Devices
  <2>4. QED
    BY <1>3, <2>1, <2>2, <2>3
<1>13. CASE StartShell \/ WaitReturns
  <2>1. /\ UNCHANGED <<cur, term, winRefused, wire, requests, size>>
        /\ pc \in {"start", "wait"} /\ pc' /= "pty"
        /\ UNCHANGED dev \/ pc' \notin {"start", "wait"}
    BY <1>13 DEF StartShell, WaitReturns, Back, clientVars, channelVars,
                 ghostVars
  <2>2. /\ BeforePty' => BeforePty
        /\ Showing' => Showing /\ dev' = dev
    BY <2>1 DEF BeforePty, Showing
  <2>3. QED
    BY <1>3, <2>1, <2>2
<1>14. ASSUME NEW s \in Dials, DeviceEnds(s) PROVE Goal
  <2>1. /\ UNCHANGED <<cur, pc, term, winRefused, wire, requests, size>>
        /\ dev[s].st = "open" /\ dev' = [dev EXCEPT ![s].st = "exited"]
    BY <1>14 DEF DeviceEnds, clientVars, channelVars, handlerVars, ghostVars
  <2>2. BeforePty' => BeforePty
    BY <2>1 DEF BeforePty
  <2>3. ASSUME Showing' PROVE Showing /\ dev'[1].sz = dev[1].sz
    <3>1. cur = 1 /\ 1 \in Dials
      BY <1>1, <2>1, <2>3 DEF Showing, HandlerTypes
    <3>2. QED
      BY <1>1, <2>1, <2>3, <3>1 DEF Showing, DeviceTypes, Devices
  <2>4. QED
    BY <1>3, <2>1, <2>2, <2>3
<1>15. ASSUME NEW s \in Dials, WinTake(s) PROVE Goal
  <2>1. /\ UNCHANGED <<cur, pc, term, winRefused>>
        /\ win[s] = "run" /\ dev' = Resize(s, Head(requests))
    BY <1>15 DEF WinTake, handlerVars, ghostVars
  <2>2. Takes
    BY <1>15 DEF WinTake, TakeRequest, clientVars, handlerVars, Takes
  <2>3. s < cur \/ (s = cur /\ pc /= "pty")
    BY <2>1 DEF SizeInv, WinStarted
  <2>4. ~BeforePty'
    BY <1>2, <2>1, <2>3 DEF BeforePty
  <2>5. Showing' /\ s = 1
    <3>1. Showing'
      BY <2>4
    <3>2. QED
      BY <1>2, <2>1, <2>3, <3>1 DEF Showing
  <2>6. 1 \in Dials /\ dev'[1].st = dev[1].st
    BY <1>1, <2>1, <2>5 DEF Resize, DeviceTypes, Devices
  <2>7. Showing
    BY <2>1, <2>5, <2>6 DEF Showing
  <2>8. Head(requests).k /= "pty"
    <3>1. NoPty(requests) /\ requests \in Seq([k : Reqs, sz : Nat])
      BY <2>7, TypeParts
         DEF Showing, SizeInv, PastRequests, StartOrder, ChannelTypes
    <3>2. QED
      BY <2>2, <3>1, TailStarts DEF Takes
  <2>9. IF Head(requests).k \in Sized THEN dev'[1].sz = Head(requests).sz
                                      ELSE dev'[1].sz = dev[1].sz
    BY <1>1, <2>1, <2>5, <2>6, <2>7, <2>8
       DEF Resize, Showing, Announced, Sized, DeviceTypes, Devices
  <2>10. Latest(wire, requests, size, dev[1].sz)
    BY <1>3, <2>1, <2>7
  <2>11. Latest(wire', requests', size', dev'[1].sz)
    BY <2>2, <2>9, <2>10, LatestTakes
  <2>12. QED
    BY <2>4, <2>11
<1>16. ASSUME NEW s \in Dials, CopierTake(s) \/ CopierEof(s) PROVE Goal
  <2>1. UNCHANGED <<cur, pc, term, winRefused, wire, requests, size>>
    BY <1>16 DEF CopierTake, CopierEof, clientVars, channelVars, handlerVars,
                 ghostVars
  <2>2. /\ \A d \in Dials : dev'[d].st = dev[d].st /\ dev'[d].sz = dev[d].sz
    <3>1. \/ UNCHANGED dev
          \/ \E n : dev' = [dev EXCEPT ![s].got = n]
          \/ \E b : dev' = [dev EXCEPT ![s].eof = b]
      BY <1>16 DEF CopierTake, CopierEof
    <3>2. QED
      BY <1>1, <3>1 DEF DeviceTypes, Devices
  <2>3. BeforePty' => BeforePty
    BY <2>1 DEF BeforePty
  <2>4. ASSUME Showing' PROVE Showing /\ dev'[1].sz = dev[1].sz
    <3>1. cur = 1 /\ 1 \in Dials
      BY <1>1, <2>1, <2>4 DEF Showing, HandlerTypes
    <3>2. QED
      BY <2>1, <2>2, <2>4, <3>1 DEF Showing
  <2>5. QED
    BY <1>3, <2>1, <2>3, <2>4
<1>17. CASE \/ UNCHANGED vars
            \/ \E s \in Dials : WinEnds(s)
  BY <1>7, <1>17 DEF vars, WinEnds, clientVars, channelVars, handlerVars,
                     deviceVars, ghostVars
<1>18. QED
  BY <1>5, <1>6, <1>8, <1>9, <1>10, <1>11, <1>12, <1>13, <1>14, <1>15, <1>16,
     <1>17 DEF Next, Handler, Window, Copier

LEMMA SizeInvHolds == Spec => []SizeInv
<1>1. Init => SizeInv
  <2> SUFFICES ASSUME Init PROVE SizeInv
    OBVIOUS
  <2>1. wire = <<>> /\ requests = <<>> /\ Len(<<>>) = 0
    BY EmptySeq DEF Init
  <2>2. /\ NoSize(<<>>) /\ NoPty(<<>>) /\ ~HasStart(<<>>)
        /\ PtyBeforeStart(<<>>)
    BY <2>1 DEF NoSize, NoPty, HasStart, PtyBeforeStart
  <2>3. StartOrder
    BY <2>1, <2>2 DEF StartOrder, Init
  <2>4. Fresh
    BY <2>1, <2>2 DEF Fresh, BeforePty, Showing, Latest, Init
  <2>5. WinStarted /\ PastRequests
    BY DEF WinStarted, PastRequests, Init
  <2>6. QED
    BY <2>3, <2>4, <2>5 DEF SizeInv
<1>2. TypeOK /\ SessionInv /\ SizeInv /\ [Next]_vars => SizeInv'
  BY StartOrderStep, FreshStep, PlaceStep DEF SizeInv
<1>3. QED
  BY <1>1, <1>2, TypeCorrect, SessionInvHolds, PTL DEF Spec

\* The first device session of a channel shows the client's last size, however
\* the announcements fall between the prompts and the requests.
THEOREM FirstSizeIsShown == Spec => []FirstSizeShown
<1>1. TypeOK /\ SizeInv => FirstSizeShown
  <2> SUFFICES ASSUME TypeOK, SizeInv, 1 \in Dials, pc = "wait", cur = 1,
                      dev[1].st = "open", Drained, ~winRefused
               PROVE  dev[1].sz = size
    BY DEF FirstSizeShown, SizeShown
  <2>1. Latest(wire, requests, size, dev[1].sz)
    BY DEF SizeInv, Fresh, Showing
  <2>2. NoSize(wire) /\ ~Newest(wire, size)
    BY DEF Drained, NoSize, Newest, Sized, Reqs
  <2>3. ~Newest(requests, size)
    BY EmptySeq DEF Drained, Newest
  <2>4. QED
    BY <2>1, <2>2, <2>3 DEF Latest
<1>2. QED
  BY <1>1, TypeCorrect, SizeInvHolds, PTL
-----------------------------------------------------------------------------
\* A session in its connection: the refinement of a channel of BastionServer.

\* The client's close is its last packet.
CloseIsLast ==
    /\ \A i \in 1 .. Len(wire) :
          wire[i].k = "close" => i = Len(wire) /\ sent["close"] > 0
    /\ inClosed => wire = <<>> /\ sent["close"] > 0

\* No window goroutine runs before the handler has taken shell or exec.
NoWindowYet == pc = "requests" => \A s \in Dials : win[s] = "none"

ServedInv == CloseIsLast /\ NoWindowYet

LEMMA CloseStep == TypeOK /\ CloseIsLast /\ [Next]_vars => CloseIsLast'
<1> SUFFICES ASSUME TypeOK, CloseIsLast, [Next]_vars PROVE CloseIsLast'
  OBVIOUS
<1>1. ClientTypes
  BY TypeParts
<1>2. wire \in Seq(Packets) /\ Len(wire) \in Nat /\ sent["close"] \in Nat
  BY <1>1, LenNat DEF ClientTypes, Kinds
<1>3. ASSUME NEW k \in Kinds, Send(k) PROVE CloseIsLast'
  <2>1. sent["close"] = 0 /\ inClosed' = inClosed
    BY <1>3, <1>2 DEF Send, channelVars
  <2>2. ~inClosed /\ \A i \in 1 .. Len(wire) : wire[i].k /= "close"
    BY <1>2, <2>1 DEF CloseIsLast
  <2>3. [k |-> k, sz |-> size'] \in Packets
        /\ wire' = Append(wire, [k |-> k, sz |-> size'])
    BY <1>3, SentPacket DEF Sends
  <2>4. /\ Len(wire') = Len(wire) + 1
        /\ \A i \in 1 .. Len(wire) : wire'[i] = wire[i]
        /\ wire'[Len(wire) + 1] = [k |-> k, sz |-> size']
    BY <1>2, <2>3, AppendItems
  <2>5. k = "close" => sent'["close"] > 0
    BY <1>1, <1>2, <1>3 DEF Send, ClientTypes
  <2>6. ASSUME NEW i \in 1 .. Len(wire'), wire'[i].k = "close"
        PROVE  i = Len(wire') /\ sent'["close"] > 0
    BY <1>2, <2>2, <2>4, <2>5, <2>6
  <2>7. QED
    BY <2>1, <2>2, <2>6 DEF CloseIsLast
<1>4. CASE Mux
  <2>1. wire /= <<>> /\ wire' = Tail(wire) /\ sent' = sent
    BY <1>4 DEF Mux, MuxRequest, MuxLine, MuxEof, MuxClose, Deliver
  <2>2. /\ Len(wire) \in Nat \ {0} /\ Len(wire') = Len(wire) - 1
        /\ Head(wire) = wire[1]
        /\ \A i \in 1 .. Len(wire') : wire'[i] = wire[i + 1]
    BY <1>2, <2>1, TailItems
  <2>3. ASSUME NEW i \in 1 .. Len(wire'), wire'[i].k = "close"
        PROVE  i = Len(wire') /\ sent'["close"] > 0
    <3>1. i \in Nat /\ i + 1 \in 1 .. Len(wire) /\ wire[i + 1].k = "close"
      BY <2>2, <2>3
    <3>2. i + 1 = Len(wire) /\ sent["close"] > 0
      BY <3>1 DEF CloseIsLast
    <3>3. i = Len(wire')
      BY <2>2, <3>1, <3>2
    <3>4. sent'["close"] > 0
      BY <2>1, <3>2
    <3>5. QED
      BY <3>3, <3>4
  <2>4. ASSUME inClosed' PROVE wire' = <<>> /\ sent'["close"] > 0
    <3>1. Head(wire).k = "close"
      BY <1>4, <2>1, <2>4
         DEF Mux, MuxRequest, MuxLine, MuxEof, MuxClose, CloseIsLast
    <3>2. Len(wire') = 0 /\ sent["close"] > 0
      BY <2>2, <3>1 DEF CloseIsLast
    <3>3. wire' \in Seq(Packets)
      BY <1>2, <2>1, HeadTailTypes
    <3>4. QED
      BY <2>1, <3>2, <3>3, EmptySeq
  <2>5. QED
    BY <2>3, <2>4 DEF CloseIsLast
<1>5. CASE Handler \/ (\E s \in Dials : DeviceEnds(s) \/ Window(s) \/ Copier(s))
           \/ UNCHANGED vars
  <2>1. UNCHANGED <<wire, sent, inClosed>>
    BY <1>5 DEF Handler, HandlePty, HandleShell, HandleExec, HandleOther,
                RequestsEnd, PromptCommand, PromptEnds, Credential, Dial,
                RequestPty, StartShell, WaitReturns, TakeRequest, ReadLine,
                ReadFails, DeviceEnds, Window, WinTake, WinEnds, Copier,
                CopierTake, CopierEof, vars, clientVars, channelVars
  <2>2. QED
    BY <2>1 DEF CloseIsLast
<1>6. QED
  BY <1>3, <1>4, <1>5 DEF Next

LEMMA NoWindowStep == TypeOK /\ NoWindowYet /\ [Next]_vars => NoWindowYet'
<1> SUFFICES ASSUME TypeOK, NoWindowYet, [Next]_vars, pc' = "requests"
             PROVE  \A s \in Dials : win'[s] = "none"
  BY DEF NoWindowYet
<1>1. pc = "requests"
  BY DEF Next, Send, Mux, MuxRequest, MuxLine, MuxEof, MuxClose, Deliver,
         Handler, HandlePty, HandleShell, HandleExec, HandleOther, RequestsEnd,
         PromptCommand, PromptEnds, Credential, Dial, RequestPty, StartShell,
         WaitReturns, Back, DeviceEnds, Window, WinTake, WinEnds, Copier,
         CopierTake, CopierEof, handlerVars, vars
<1>2. \A s \in Dials : win[s] /= "run"
  BY <1>1 DEF NoWindowYet
<1>3. win' = win
  BY <1>1, <1>2
     DEF Next, Send, Mux, MuxRequest, MuxLine, MuxEof, MuxClose, Deliver,
         Handler, HandlePty, HandleShell, HandleExec, HandleOther, RequestsEnd,
         PromptCommand, PromptEnds, Credential, Dial, RequestPty, StartShell,
         WaitReturns, ReadLine, ReadFails, DeviceEnds, Window, WinTake, WinEnds,
         Copier, CopierTake, CopierEof, deviceVars, vars
<1>4. QED
  BY <1>1, <1>3 DEF NoWindowYet

\* A variable of BastionServer for the one channel there is.
LEMMA Cell ==
    ASSUME NEW x, NEW y
    PROVE  /\ [client |-> <<x>>]["client"][1] = x
           /\ [[client |-> <<x>>] EXCEPT !["client"][1] = y] = [client |-> <<y>>]
OBVIOUS

\* A request taken: by the handler in its loop or by a window goroutine.
LEMMA RequestTaken ==
    ASSUME TypeOK, requests /= <<>>, requests' = Tail(requests), wire' = wire,
           \/ Taker /= "nobody" /\ UNCHANGED <<pc, win>>
           \/ pc = "requests" /\ pc' = "prompt" /\ Taker' = "nobody"
           \/ pc = "requests" /\ pc' = "username" /\ Taker' = "nobody"
           \/ pc = "requests" /\ pc' = "done" /\ Taker' = "nobody"
    PROVE  Server!TakeRequest("client", 1)
<1>1. Len(requests) \in Nat \ {0} /\ Len(requests') = Len(requests) - 1
  <2>1. requests \in Seq([k : Reqs, sz : Nat])
    BY TypeParts DEF ChannelTypes
  <2>2. QED
    BY <2>1, TailItems
<1>2. Len(requests) > 0 /\ UNCHANGED MuxPacket
  BY <1>1 DEF MuxPacket
<1>3. pc = "requests" => Taker = "handler"
  BY DEF Taker
<1> DEFINE St == IF pc = "done" THEN "done" ELSE "open"
<1>4. /\ [client |-> <<Len(requests)>>]["client"][1] = Len(requests)
      /\ [[client |-> <<Len(requests)>>] EXCEPT
              !["client"][1] = Len(requests) - 1]
            = [client |-> <<Len(requests) - 1>>]
      /\ [client |-> <<Taker>>]["client"][1] = Taker
      /\ [[client |-> <<Taker>>] EXCEPT !["client"][1] = "nobody"]
            = [client |-> <<"nobody">>]
      /\ [[client |-> <<St>>] EXCEPT !["client"][1] = "done"]
            = [client |-> <<"done">>]
  <2> HIDE DEF St
  <2> QED
    BY Cell, Zenon
<1>5. CASE Taker /= "nobody" /\ UNCHANGED <<pc, win>>
  <2>1. UNCHANGED <<Taker, St>>
    BY <1>5 DEF Taker
  <2>2. QED
    BY <1>2, <1>4, <1>5, <2>1 DEF Server!TakeRequest, Server!listener
<1>6. CASE pc = "requests" /\ pc' \in {"prompt", "username"} /\ Taker' = "nobody"
  <2>1. UNCHANGED St
    BY <1>6
  <2>2. QED
    BY <1>2, <1>3, <1>4, <1>6, <2>1 DEF Server!TakeRequest, Server!listener
<1>7. CASE pc = "requests" /\ pc' = "done" /\ Taker' = "nobody"
  <2>1. St' = "done"
    BY <1>7
  <2>2. QED
    BY <1>2, <1>3, <1>4, <1>7, <2>1 DEF Server!TakeRequest, Server!listener
<1>8. QED
  BY <1>5, <1>6, <1>7

\* A step past the request loop that starts no window goroutine: the handler
\* returns, or nothing changes for the mux loop.
LEMMA HandlerMoves ==
    ASSUME pc \notin {"requests", "done"}, pc' /= "requests",
           UNCHANGED <<win, requests, wire>>
    PROVE  Server!ChannelEnds("client", 1) \/ UNCHANGED Server!channels
<1>1. UNCHANGED <<Taker, MuxPacket>> /\ Taker /= "handler"
  BY DEF Taker, MuxPacket
<1>2. CASE pc' = "done"
  BY <1>1, <1>2, Cell DEF Server!ChannelEnds, Server!listener
<1>3. CASE pc' /= "done"
  BY <1>1, <1>3 DEF Server!channels
<1>4. QED
  BY <1>2, <1>3

\* A step that the mux loop does not see.
LEMMA Unseen ==
    ASSUME UNCHANGED <<requests, pc, Taker>> PROVE UNCHANGED Server!channels
BY DEF Server!channels

ServedStep ==
    \/ /\ MuxPacket.type = "request" /\ Server!CanDeliver("client")
       /\ Server!Queued("client", 1)
    \/ Server!TakeRequest("client", 1)
    \/ Server!DeviceSession("client", 1)
    \/ Server!ChannelEnds("client", 1)
    \/ UNCHANGED Server!channels

LEMMA MuxServed ==
    ASSUME TypeOK, Mux PROVE ServedStep
<1>1. wire \in Seq(Packets) /\ requests \in Seq([k : Reqs, sz : Nat])
  BY TypeParts DEF ClientTypes, ChannelTypes
<1>2. UNCHANGED <<pc, win, Taker>>
  BY DEF Mux, MuxRequest, MuxLine, MuxEof, MuxClose, Deliver, handlerVars,
         deviceVars, Taker
<1>3. CASE MuxRequest
  <2>1. MuxPacket = [type |-> "request", chan |-> 1]
    BY <1>3 DEF MuxRequest, MuxPacket
  <2>2. Head(wire) \in [k : Reqs, sz : Nat]
    <3>1. Head(wire) \in Packets /\ Head(wire).k \in Reqs
      BY <1>1, <1>3, HeadTailTypes DEF MuxRequest
    <3>2. QED
      BY <3>1 DEF Packets
  <2>3. Len(requests') = Len(requests) + 1
    BY <1>1, <1>3, <2>2, AppendItems DEF MuxRequest
  <2>4. Server!Queued("client", 1)
    BY <1>2, <2>3, Cell DEF Server!Queued
  <2>5. Len(requests) < ReqCap
    BY <1>3 DEF MuxRequest
  <2>6. Server!CanDeliver("client")
    BY <2>1, <2>5, Cell DEF Server!CanDeliver
  <2>7. QED
    BY <2>1, <2>4, <2>6 DEF ServedStep
<1>4. CASE MuxLine \/ MuxEof \/ MuxClose
  <2>1. requests' = requests
    BY <1>4 DEF MuxLine, MuxEof, MuxClose
  <2>2. QED
    BY <1>2, <2>1, Unseen DEF ServedStep
<1>5. QED
  BY <1>3, <1>4 DEF Mux

LEMMA HandlerServed ==
    ASSUME TypeOK, ServedInv, Handler PROVE ServedStep
<1>1. HandlerTypes /\ DeviceTypes
  BY TypeParts
<1>2. pc = "requests" => \A s \in Dials : win[s] = "none"
  BY DEF ServedInv, NoWindowYet
<1>3. pc = "requests" => Taker = "handler"
  BY DEF Taker
<1>4. CASE HandlePty \/ HandleOther
  <2>1. /\ pc = "requests" /\ requests /= <<>> /\ requests' = Tail(requests)
        /\ UNCHANGED <<wire, pc, win>>
    BY <1>4 DEF HandlePty, HandleOther, TakeRequest, clientVars, handlerVars,
                deviceVars
  <2>2. QED
    BY <1>3, <2>1, RequestTaken DEF ServedStep
<1>5. CASE HandleShell \/ HandleExec
  <2>1. /\ pc = "requests" /\ requests /= <<>> /\ requests' = Tail(requests)
        /\ pc' \in {"prompt", "username", "done"} /\ UNCHANGED <<wire, win>>
    BY <1>5 DEF HandleShell, HandleExec, TakeRequest, clientVars, deviceVars
  <2>2. Taker' = "nobody"
    BY <1>2, <2>1 DEF Taker
  <2>3. QED
    BY <2>1, <2>2, RequestTaken DEF ServedStep
<1>6. CASE RequestsEnd
  <2>1. /\ pc = "requests" /\ pc' = "done" /\ requests = <<>> /\ inClosed
        /\ UNCHANGED <<requests, wire, win>>
    BY <1>6 DEF RequestsEnd, clientVars, channelVars, deviceVars
  <2>2. Taker' = "nobody"
    BY <1>2, <2>1 DEF Taker
  <2>3. wire = <<>> /\ MuxPacket = [type |-> "none"] /\ UNCHANGED MuxPacket
    BY <2>1 DEF ServedInv, CloseIsLast, MuxPacket
  <2>4. Len(requests) = 0
    BY <2>1
  <2>5. Server!ChannelEnds("client", 1)
    BY <1>3, <2>1, <2>2, <2>3, <2>4, Cell
       DEF Server!ChannelEnds, Server!listener
  <2>6. QED
    BY <2>5 DEF ServedStep
<1>7. CASE PromptCommand \/ PromptEnds \/ Credential \/ Dial \/ StartShell
           \/ WaitReturns
  <2>1. /\ pc \notin {"requests", "done"} /\ pc' /= "requests"
        /\ UNCHANGED <<win, requests, wire>>
    BY <1>7 DEF PromptCommand, PromptEnds, Credential, Dial, StartShell,
                WaitReturns, Back, ReadLine, ReadFails, clientVars, channelVars,
                deviceVars
  <2>2. QED
    BY <2>1, HandlerMoves DEF ServedStep
<1>8. CASE RequestPty
  <2>1. pc = "pty" /\ UNCHANGED <<requests, wire, cur>>
    BY <1>8 DEF RequestPty, clientVars, channelVars
  <2>2. CASE win' = win
    <3>1. pc' /= "requests"
      BY <1>8 DEF RequestPty, Back
    <3>2. QED
      BY <2>1, <2>2, <3>1, HandlerMoves DEF ServedStep
  <2>3. CASE win' = [win EXCEPT ![cur] = "run"] /\ pc' = "start" /\ cur \in Dials
    <3>1. Taker' = "drain"
      BY <1>1, <2>3 DEF DeviceTypes, Taker
    <3>2. UNCHANGED MuxPacket
      BY <2>1 DEF MuxPacket
    <3>3. CASE Taker = "nobody"
      <4>1. Server!DeviceSession("client", 1)
        BY <2>1, <2>3, <3>1, <3>2, <3>3, Cell
           DEF Server!DeviceSession, Server!listener
      <4>2. QED
        BY <4>1 DEF ServedStep
    <3>4. CASE Taker /= "nobody"
      <4>1. Taker = "drain"
        BY <2>1, <3>4 DEF Taker
      <4>2. QED
        BY <2>1, <2>3, <3>1, <4>1 DEF ServedStep, Server!channels
    <3>5. QED
      BY <3>3, <3>4
  <2>4. CASE win' = [win EXCEPT ![cur] = "run"] /\ cur \notin Dials
    BY <1>1, <2>2, <2>4 DEF DeviceTypes
  <2>5. QED
    BY <1>8, <2>2, <2>3, <2>4 DEF RequestPty
<1>9. QED
  BY <1>4, <1>5, <1>6, <1>7, <1>8 DEF Handler

LEMMA OthersServed ==
    ASSUME TypeOK, ServedInv,
           \/ \E k \in Kinds : Send(k)
           \/ \E s \in Dials : DeviceEnds(s) \/ Window(s) \/ Copier(s)
           \/ UNCHANGED vars
    PROVE  ServedStep
<1>1. DeviceTypes
  BY TypeParts
<1>2. ASSUME NEW s \in Dials, WinTake(s) PROVE ServedStep
  <2>1. /\ win[s] = "run" /\ requests /= <<>> /\ requests' = Tail(requests)
        /\ UNCHANGED <<wire, pc, win>>
    BY <1>2 DEF WinTake, TakeRequest, clientVars, handlerVars
  <2>2. Taker = "drain"
    BY <2>1 DEF ServedInv, NoWindowYet, Taker
  <2>3. QED
    BY <2>1, <2>2, RequestTaken DEF ServedStep
<1>3. ASSUME NEW s \in Dials, WinEnds(s) PROVE ServedStep
  <2>1. /\ win[s] = "run" /\ win' = [win EXCEPT ![s] = "ended"]
        /\ UNCHANGED <<requests, pc>>
    BY <1>3 DEF WinEnds, channelVars, handlerVars
  <2>2. Taker = "drain" /\ Taker' = "drain"
    BY <1>1, <2>1 DEF ServedInv, NoWindowYet, Taker, DeviceTypes
  <2>3. QED
    BY <2>1, <2>2, Unseen DEF ServedStep
<1>4. ASSUME \/ \E k \in Kinds : Send(k)
             \/ \E s \in Dials : DeviceEnds(s) \/ Copier(s)
             \/ UNCHANGED vars
      PROVE  ServedStep
  <2>1. UNCHANGED <<requests, pc, win>>
    BY <1>4 DEF Send, DeviceEnds, Copier, CopierTake, CopierEof, channelVars,
                handlerVars, deviceVars, vars
  <2>2. UNCHANGED Taker
    BY <2>1 DEF Taker
  <2>3. QED
    BY <2>1, <2>2, Unseen DEF ServedStep
<1>5. QED
  BY <1>2, <1>3, <1>4 DEF Window

\* handleSession and its window goroutines serve the mux loop of the connection
\* as BastionServer, the model of the connection, takes a channel to do, for
\* any queue capacity, any requests and any number of device sessions.
THEOREM ServesItsConnection == Spec => ServedInConnection
<1>1. Init => ServedInv
  <2> SUFFICES ASSUME Init PROVE ServedInv
    OBVIOUS
  <2>1. Len(wire) = 0
    BY DEF Init
  <2>2. QED
    BY <2>1 DEF Init, ServedInv, CloseIsLast, NoWindowYet
<1>2. TypeOK /\ ServedInv /\ [Next]_vars => ServedInv'
  BY CloseStep, NoWindowStep DEF ServedInv
<1>3. TypeOK /\ ServedInv /\ [Next]_vars => ServedStep
  BY MuxServed, HandlerServed, OthersServed DEF Next
<1>4. QED
  BY <1>1, <1>2, <1>3, TypeCorrect, PTL
     DEF Spec, ServedInConnection, ServedStep
-----------------------------------------------------------------------------
\* After the client's close a session is never wedged: the part of CleansUp
\* that can be proved.

\* The close is delivered, or it is the last packet on its way.
CloseOnItsWay ==
    sent["close"] > 0 /\ ~inClosed =>
        wire /= <<>> /\ wire[Len(wire)].k = "close"

\* Only the close ends a window goroutine.
WindowsStay == \A s \in Dials : win[s] = "ended" => inClosed

\* A session in progress has its device, its window goroutine and its copier.
DeviceAtHand ==
    /\ pc \in {"pty", "start", "wait"} =>
          cur \in Dials /\ dev[cur].st \in {"open", "exited"}
    /\ pc \in {"start", "wait"} => win[cur] /= "none"
    /\ pc = "wait" => cop[cur] /= "none"

\* A copier that has ended has closed the stdin of a device still there.
StdinClosed ==
    \A s \in Dials : cop[s] = "ended" /\ dev[s].st = "open" => dev[s].eof

\* The mux loop never overfills the channel's request queue.
QueueBounded == Len(requests) <= ReqCap

WedgeInv ==
    /\ CloseOnItsWay /\ QueueBounded
    /\ WindowsStay /\ DeviceAtHand /\ StdinClosed

LEMMA CloseOnItsWayStep ==
    TypeOK /\ CloseOnItsWay /\ [Next]_vars => CloseOnItsWay'
<1> SUFFICES ASSUME TypeOK, CloseOnItsWay, [Next]_vars
             PROVE  CloseOnItsWay'
  OBVIOUS
<1>1. ClientTypes
  BY TypeParts
<1>2. wire \in Seq(Packets) /\ Len(wire) \in Nat
  BY <1>1, LenNat DEF ClientTypes
<1>3. ASSUME NEW k \in Kinds, Send(k) PROVE CloseOnItsWay'
  <2>1. [k |-> k, sz |-> size'] \in Packets
        /\ wire' = Append(wire, [k |-> k, sz |-> size'])
    BY <1>3, SentPacket DEF Sends
  <2>2. /\ Len(wire') = Len(wire) + 1
        /\ wire'[Len(wire) + 1] = [k |-> k, sz |-> size']
    BY <1>2, <2>1, AppendItems
  <2>3. wire' /= <<>> /\ wire'[Len(wire')].k = k
    BY <1>2, <2>2
  <2>4. sent["close"] = 0 /\ sent' = [sent EXCEPT ![k] = @ + 1]
    BY <1>3 DEF Send
  <2>5. k /= "close" => sent'["close"] = 0
    BY <1>1, <2>4 DEF ClientTypes
  <2>6. QED
    BY <2>3, <2>5 DEF CloseOnItsWay
<1>4. CASE Mux
  <2>1. wire /= <<>> /\ wire' = Tail(wire) /\ sent' = sent
    BY <1>4 DEF Mux, MuxRequest, MuxLine, MuxEof, MuxClose, Deliver
  <2>2. /\ Len(wire) \in Nat \ {0} /\ Len(wire') = Len(wire) - 1
        /\ Head(wire) = wire[1]
        /\ \A i \in 1 .. Len(wire') : wire'[i] = wire[i + 1]
    BY <1>2, <2>1, TailItems
  <2>3. ASSUME sent'["close"] > 0, ~inClosed'
        PROVE  wire' /= <<>> /\ wire'[Len(wire')].k = "close"
    <3>1. ~inClosed /\ Head(wire).k /= "close"
      BY <1>4, <2>1, <2>3
         DEF Mux, MuxRequest, MuxLine, MuxEof, MuxClose, Reqs, Lines
    <3>2. wire[Len(wire)].k = "close"
      BY <2>1, <2>3, <3>1 DEF CloseOnItsWay
    <3>3. Len(wire) /= 1
      BY <2>2, <3>1, <3>2
    <3>4. wire'[Len(wire')] = wire[Len(wire)]
      BY <2>2, <3>3
    <3>5. Len(wire') > 0 /\ Len(<<>>) = 0
      BY <2>2, <3>3
    <3>6. QED
      BY <3>2, <3>4, <3>5
  <2>4. QED
    BY <2>3 DEF CloseOnItsWay
<1>5. CASE Handler \/ (\E s \in Dials : DeviceEnds(s) \/ Window(s) \/ Copier(s))
           \/ UNCHANGED vars
  <2>1. UNCHANGED <<wire, sent, inClosed>>
    BY <1>5 DEF Handler, HandlePty, HandleShell, HandleExec, HandleOther,
                RequestsEnd, PromptCommand, PromptEnds, Credential, Dial,
                RequestPty, StartShell, WaitReturns, TakeRequest, ReadLine,
                ReadFails, DeviceEnds, Window, WinTake, WinEnds, Copier,
                CopierTake, CopierEof, vars, clientVars, channelVars
  <2>2. QED
    BY <2>1 DEF CloseOnItsWay
<1>6. QED
  BY <1>3, <1>4, <1>5 DEF Next

LEMMA DevicesStep ==
    ASSUME TypeOK, SessionInv, WindowsStay, DeviceAtHand, StdinClosed,
           [Next]_vars
    PROVE  WindowsStay' /\ DeviceAtHand' /\ StdinClosed'
<1> USE DEF WindowsStay, DeviceAtHand, StdinClosed
<1>1. DeviceTypes /\ HandlerTypes /\ ChannelTypes
  BY TypeParts
<1>2. cur \in Nat /\ Dials \subseteq Nat \ {0}
  BY <1>1, DialsNat DEF HandlerTypes
<1>3. CASE \/ \E k \in Kinds : Send(k)
           \/ Mux \/ HandlePty \/ HandleShell \/ HandleExec \/ HandleOther
           \/ RequestsEnd \/ PromptCommand \/ PromptEnds \/ Credential
           \/ UNCHANGED vars
  <2>1. UNCHANGED <<dev, win, cop, cur>> /\ (inClosed' = inClosed \/ inClosed')
    BY <1>3 DEF Send, Mux, MuxRequest, MuxLine, MuxEof, MuxClose, Deliver,
                HandlePty, HandleShell, HandleExec, HandleOther, RequestsEnd,
                PromptCommand, PromptEnds, Credential, ReadLine, ReadFails,
                TakeRequest, handlerVars, channelVars, deviceVars, vars
  <2>2. pc' = pc \/ pc' \notin {"pty", "start", "wait"}
    BY <1>3 DEF Send, Mux, MuxRequest, MuxLine, MuxEof, MuxClose, Deliver,
                HandlePty, HandleShell, HandleExec, HandleOther, RequestsEnd,
                PromptCommand, PromptEnds, Credential, Back, handlerVars, vars
  <2>3. QED
    BY <2>1, <2>2
<1>4. CASE Dial
  <2>1. UNCHANGED <<win, cop, inClosed>>
    BY <1>4 DEF Dial, channelVars
  <2>2. CASE pc' = "pty" /\ cur' = cur + 1 /\ cur' \in Dials
             /\ dev' = [dev EXCEPT ![cur'].st = "open"]
    <3>1. cop[cur'] = "none"
      BY <1>2, <2>2, <1>1 DEF SessionInv, CopierStarted, DeviceTypes
    <3>2. /\ dev'[cur'].st = "open"
          /\ \A s \in Dials : s /= cur' => dev'[s] = dev[s]
      BY <1>1, <2>2 DEF DeviceTypes, Devices
    <3>3. QED
      BY <2>1, <2>2, <3>1, <3>2
  <2>3. CASE UNCHANGED <<cur, dev>> /\ pc' \notin {"pty", "start", "wait"}
    BY <2>1, <2>3
  <2>4. QED
    BY <1>4, <2>2, <2>3 DEF Dial, Back
<1>5. CASE RequestPty
  <2>1. /\ cur \in Dials /\ dev[cur].st \in {"open", "exited"}
        /\ UNCHANGED <<cop, inClosed, cur>>
    BY <1>5 DEF RequestPty, channelVars
  <2>2. CASE /\ dev[cur].st = "open" /\ dev' = [dev EXCEPT ![cur].sz = term]
             /\ win' = [win EXCEPT ![cur] = "run"] /\ pc' = "start"
    <3>1. /\ win'[cur] = "run" /\ \A s \in Dials : s /= cur => win'[s] = win[s]
          /\ \A s \in Dials : dev'[s].st = dev[s].st /\ dev'[s].eof = dev[s].eof
      BY <1>1, <2>1, <2>2 DEF DeviceTypes, Devices
    <3>2. QED
      BY <2>1, <2>2, <3>1
  <2>3. CASE CloseDevice /\ UNCHANGED win /\ pc' \notin {"pty", "start", "wait"}
    <3>1. /\ dev'[cur].st = "closed"
          /\ \A s \in Dials : s /= cur => dev'[s] = dev[s]
      BY <1>1, <2>1, <2>3 DEF CloseDevice, DeviceTypes, Devices
    <3>2. QED
      BY <2>1, <2>3, <3>1
  <2>4. QED
    BY <1>5, <2>2, <2>3 DEF RequestPty, Back
<1>6. CASE StartShell
  <2>1. /\ cur \in Dials /\ win[cur] /= "none"
        /\ UNCHANGED <<win, inClosed, cur>>
    BY <1>6 DEF StartShell, channelVars
  <2>2. CASE /\ cop' = [cop EXCEPT ![cur] = "reading"] /\ pc' = "wait"
             /\ dev[cur].st = "open" /\ UNCHANGED dev
    BY <1>1, <2>1, <2>2 DEF DeviceTypes
  <2>3. CASE CloseDevice /\ UNCHANGED cop /\ pc' \notin {"pty", "start", "wait"}
    <3>1. /\ dev'[cur].st = "closed"
          /\ \A s \in Dials : s /= cur => dev'[s] = dev[s]
      BY <1>1, <2>1, <2>3 DEF CloseDevice, DeviceTypes, Devices
    <3>2. QED
      BY <2>1, <2>3, <3>1
  <2>4. QED
    BY <1>6, <2>2, <2>3 DEF StartShell, Back
<1>7. CASE WaitReturns
  <2>1. /\ cur \in Dials /\ CloseDevice /\ UNCHANGED <<win, cop, inClosed, cur>>
        /\ pc' \notin {"pty", "start", "wait"}
    BY <1>7 DEF WaitReturns, Back, channelVars
  <2>2. /\ dev'[cur].st = "closed"
        /\ \A s \in Dials : s /= cur => dev'[s] = dev[s]
    BY <1>1, <2>1 DEF CloseDevice, DeviceTypes, Devices
  <2>3. QED
    BY <2>1, <2>2
<1>8. ASSUME NEW s \in Dials, DeviceEnds(s)
      PROVE  WindowsStay' /\ DeviceAtHand' /\ StdinClosed'
  <2>1. /\ dev'[s].st = "exited" /\ dev'[s].eof = dev[s].eof
        /\ \A d \in Dials : d /= s => dev'[d] = dev[d]
        /\ UNCHANGED <<win, cop, inClosed, cur, pc>>
    BY <1>1, <1>8 DEF DeviceEnds, DeviceTypes, Devices, channelVars, handlerVars
  <2>2. QED
    BY <2>1
<1>9. ASSUME NEW s \in Dials, WinTake(s)
      PROVE  WindowsStay' /\ DeviceAtHand' /\ StdinClosed'
  <2>1. /\ UNCHANGED <<win, cop, inClosed, cur, pc>>
        /\ dev' = Resize(s, Head(requests))
    BY <1>9 DEF WinTake, TakeRequest, handlerVars
  <2>2. \A d \in Dials : dev'[d].st = dev[d].st /\ dev'[d].eof = dev[d].eof
    BY <1>1, <2>1 DEF Resize, DeviceTypes, Devices
  <2>3. QED
    BY <2>1, <2>2
<1>10. ASSUME NEW s \in Dials, WinEnds(s)
       PROVE  WindowsStay' /\ DeviceAtHand' /\ StdinClosed'
  <2>1. /\ inClosed /\ win' = [win EXCEPT ![s] = "ended"]
        /\ UNCHANGED <<dev, cop, inClosed, cur, pc>>
    BY <1>10 DEF WinEnds, channelVars, handlerVars
  <2>2. QED
    BY <1>1, <2>1 DEF DeviceTypes
<1>11. ASSUME NEW s \in Dials, CopierTake(s)
       PROVE  WindowsStay' /\ DeviceAtHand' /\ StdinClosed'
  <2>1. UNCHANGED <<win, inClosed, cur, pc>>
    BY <1>11 DEF CopierTake, handlerVars
  <2>2. CASE dev[s].st = "open"
    <3>1. /\ cop' = cop
          /\ \A d \in Dials : dev'[d].st = dev[d].st /\ dev'[d].eof = dev[d].eof
      BY <1>1, <1>11, <2>2 DEF CopierTake, DeviceTypes, Devices
    <3>2. QED
      BY <2>1, <3>1
  <2>3. CASE dev[s].st /= "open"
    <3>1. /\ dev' = dev /\ cop'[s] \in {"draining", "ended"}
          /\ \A d \in Dials : d /= s => cop'[d] = cop[d]
      BY <1>1, <1>11, <2>3 DEF CopierTake, DeviceTypes
    <3>2. QED
      BY <2>1, <2>3, <3>1
  <2>4. QED
    BY <2>2, <2>3
<1>12. ASSUME NEW s \in Dials, CopierEof(s)
       PROVE  WindowsStay' /\ DeviceAtHand' /\ StdinClosed'
  <2>1. /\ cop' = [cop EXCEPT ![s] = "ended"]
        /\ dev' = [dev EXCEPT ![s].eof = (dev[s].st = "open")]
        /\ UNCHANGED <<win, inClosed, cur, pc>>
    BY <1>12 DEF CopierEof, channelVars, handlerVars
  <2>2. /\ cop'[s] = "ended" /\ \A d \in Dials : d /= s => cop'[d] = cop[d]
        /\ \A d \in Dials : d /= s => dev'[d] = dev[d]
        /\ dev'[s].st = dev[s].st
    BY <1>1, <2>1 DEF DeviceTypes, Devices
  <2>3. dev'[s].eof = (dev[s].st = "open")
    BY <1>1, <2>1, Zenon DEF DeviceTypes, Devices
  <2>4. QED
    BY <2>1, <2>2, <2>3
<1>13. QED
  BY <1>3, <1>4, <1>5, <1>6, <1>7, <1>8, <1>9, <1>10, <1>11, <1>12
     DEF Next, Handler, Window, Copier

LEMMA QueueBoundedStep == TypeOK /\ QueueBounded /\ [Next]_vars => QueueBounded'
<1> SUFFICES ASSUME TypeOK, QueueBounded, [Next]_vars PROVE QueueBounded'
  OBVIOUS
<1> USE DEF QueueBounded
<1>1. /\ wire \in Seq(Packets) /\ requests \in Seq([k : Reqs, sz : Nat])
      /\ Len(requests) \in Nat /\ ReqCap \in Nat
  BY TypeParts, LenNat, ReqCapAssumption DEF ClientTypes, ChannelTypes
<1>2. CASE MuxRequest
  <2>1. Head(wire) \in Packets /\ Head(wire).k \in Reqs
    BY <1>1, <1>2, HeadTailTypes DEF MuxRequest
  <2>2. Head(wire) \in [k : Reqs, sz : Nat]
    BY <2>1 DEF Packets
  <2>3. Len(requests) < ReqCap /\ Len(requests') = Len(requests) + 1
    BY <1>1, <1>2, <2>2, AppendItems DEF MuxRequest
  <2>4. QED
    BY <1>1, <2>3
<1>3. CASE requests /= <<>> /\ requests' = Tail(requests)
  <2>1. Len(requests') = Len(requests) - 1
    BY <1>1, <1>3, TailItems
  <2>2. QED
    BY <1>1, <2>1
<1>4. CASE requests' = requests
  BY <1>4
<1>5. QED
  <2>1. CASE \E k \in Kinds : Send(k)
    BY <1>4, <2>1 DEF Send, channelVars
  <2>2. CASE Mux
    BY <1>2, <1>4, <2>2 DEF Mux, MuxLine, MuxEof, MuxClose
  <2>3. CASE UNCHANGED vars
    BY <1>4, <2>3 DEF vars, channelVars
  <2>4. CASE Next /\ ~Mux /\ ~\E k \in Kinds : Send(k)
    <3>1. Moves \/ Drops \/ Takes \/ Rests
      BY <2>4, QueueSteps
    <3>2. CASE Takes \/ Rests \/ Drops
      BY <1>3, <1>4, <3>2 DEF Takes, Rests, Drops
    <3>3. CASE Moves
      <4>1. Len(wire') /= Len(wire)
        BY <1>1, <3>3, TailItems DEF Moves
      <4>2. wire' = wire
        BY <2>4
           DEF Next, Handler, HandlePty, HandleShell, HandleExec, HandleOther,
               RequestsEnd, PromptCommand, PromptEnds, Credential, Dial,
               RequestPty, StartShell, WaitReturns, TakeRequest, ReadLine,
               ReadFails, DeviceEnds, Window, WinTake, WinEnds, Copier,
               CopierTake, CopierEof, clientVars
      <4>3. QED
        BY <4>1, <4>2
    <3>4. QED
      BY <3>1, <3>2, <3>3
  <2>5. QED
    BY <2>1, <2>2, <2>3, <2>4

LEMMA WedgeInvHolds == Spec => []WedgeInv
<1>1. Init => WedgeInv
  <2> SUFFICES ASSUME Init PROVE WedgeInv
    OBVIOUS
  <2>1. Len(requests) = 0 /\ ReqCap \in Nat
    BY ReqCapAssumption DEF Init
  <2>2. CloseOnItsWay
    BY DEF Init, CloseOnItsWay, Kinds
  <2>3. QueueBounded
    BY <2>1 DEF QueueBounded
  <2>4. WindowsStay /\ DeviceAtHand /\ StdinClosed
    BY DEF Init, WindowsStay, DeviceAtHand, StdinClosed
  <2>5. QED
    BY <2>2, <2>3, <2>4 DEF WedgeInv
<1>2. TypeOK /\ SessionInv /\ WedgeInv /\ [Next]_vars => WedgeInv'
  BY CloseOnItsWayStep, QueueBoundedStep, DevicesStep DEF WedgeInv
<1>3. QED
  BY <1>1, <1>2, TypeCorrect, SessionInvHolds, PTL DEF Spec

\* A goroutine that GoroutinesRun or DeviceAnswers makes run can make a step:
\* the mux loop, the handler, which need not wait for input any more, a device
\* whose stdin is closed, a window goroutine or a copier.
SomebodyRuns ==
    \/ wire /= <<>> /\ (Head(wire).k \in Reqs => Len(requests) < ReqCap)
    \/ pc = "requests" /\ (requests /= <<>> \/ inClosed)
    \/ /\ pc \in {"prompt", "username", "password"}
       /\ pending /= <<>> \/ inEof \/ inClosed
    \/ pc \in {"dial", "pty", "start"}
    \/ pc = "wait" /\ (RemoteEnded \/ dev[cur].eof)
    \/ \E s \in Dials : win[s] = "run" /\ (requests /= <<>> \/ inClosed)
    \/ \E s \in Dials :
          /\ cop[s] \in {"reading", "draining"}
          /\ pending /= <<>> \/ inEof \/ inClosed

\* After the client's close there is always a goroutine that can go on, until
\* all of them have ended, except when the mux loop waits at a full request
\* queue for a handler that waits for input or has returned: the handler, the
\* device, the window goroutines and the copiers never wait for one another in
\* a circle, for any queue capacity and any number of device sessions.
THEOREM SessionNeverWedged ==
    Spec => [](sent["close"] > 0 => Clean \/ Stuck \/ SomebodyRuns)
<1>1. ASSUME TypeOK, WedgeInv, sent["close"] > 0, ~Clean, ~SomebodyRuns
      PROVE  Stuck
  <2>1. DeviceTypes /\ HandlerTypes /\ ChannelTypes
    BY <1>1, TypeParts
  <2>2. ~inClosed
    <3> SUFFICES ASSUME inClosed PROVE FALSE
      OBVIOUS
    <3>1. \A s \in Dials : win[s] /= "run" /\ cop[s] \in {"none", "ended"}
      BY <1>1, <2>1 DEF SomebodyRuns, DeviceTypes
    <3>2. pc = "wait"
      BY <1>1, <2>1, <3>1 DEF SomebodyRuns, Clean, HandlerTypes, Pcs
    <3>3. /\ cur \in Dials /\ dev[cur].st = "open" /\ cop[cur] = "ended"
      BY <1>1, <3>1, <3>2
         DEF WedgeInv, DeviceAtHand, SomebodyRuns, RemoteEnded
    <3>4. QED
      BY <1>1, <3>2, <3>3 DEF WedgeInv, StdinClosed, SomebodyRuns
  <2>3. /\ wire /= <<>> /\ Head(wire).k \in Reqs /\ ~(Len(requests) < ReqCap)
    BY <1>1, <2>2 DEF WedgeInv, CloseOnItsWay, SomebodyRuns
  <2>4. Len(requests) = ReqCap /\ requests /= <<>>
    <3>1. /\ Len(requests) \in Nat /\ Len(requests) <= ReqCap
          /\ ReqCap \in Nat \ {0}
      BY <1>1, <2>1, LenNat, ReqCapAssumption
         DEF ChannelTypes, WedgeInv, QueueBounded
    <3>2. Len(requests) = ReqCap
      BY <2>3, <3>1
    <3>3. Len(<<>>) = 0
      OBVIOUS
    <3>4. QED
      BY <3>1, <3>2, <3>3
  <2>5. \A s \in Dials : win[s] = "none"
    BY <1>1, <2>1, <2>2, <2>4
       DEF SomebodyRuns, WedgeInv, WindowsStay, DeviceTypes
  <2>6. pc \in {"prompt", "username", "password", "done"}
    BY <1>1, <2>1, <2>4, <2>5
       DEF SomebodyRuns, WedgeInv, DeviceAtHand, HandlerTypes, Pcs
  <2>7. QED
    BY <1>1, <2>3, <2>4, <2>5, <2>6 DEF Stuck, SomebodyRuns
<1>2. QED
  BY <1>1, TypeCorrect, WedgeInvHolds, PTL
=============================================================================

---------------------------- MODULE GatewayProofs ----------------------------
(***************************************************************************)
(* Theorems about Gateway for every capacity of errChan that main.go would *)
(* do with, and any number of calls; and about the server that is modelled *)
(* in full, BastionServer, which takes the place of one of Gateway's       *)
(* goroutines: for any number of connections and channels, and any queues. *)
(***************************************************************************)
EXTENDS Gateway, FiniteSetTheorems, TLAPS

USE DEF Servers

\* The type invariant is inductive.
THEOREM TypeCorrect == Spec => []TypeOK
<1>1. Init => TypeOK
  <2> SUFFICES ASSUME Init PROVE TypeOK
    OBVIOUS
  <2>1. asked \in BOOLEAN
    BY Zenon DEF Init
  <2>2. QED
    BY <2>1, ErrCapAssumption, MaxCallsAssumption DEF Init, TypeOK, Unnotified
<1>2. TypeOK /\ [Next]_vars => TypeOK'
  <2> SUFFICES ASSUME TypeOK, [Next]_vars PROVE TypeOK'
    OBVIOUS
  <2> USE ErrCapAssumption, MaxCallsAssumption DEF TypeOK
  <2>1. CASE Main
    BY <2>1 DEF Main, LoadConfig, InitLogger, SetUp, Notify, Start, TakeError,
                TakeSignal, Exit, Unnotified
  <2>2. CASE Signal
    BY <2>2 DEF Signal, Exit, BufferOne, Running, Unnotified
  <2>3. ASSUME NEW s \in Servers, Listen(s) \/ Fails(s) PROVE TypeOK'
    BY <2>3 DEF Listen, Fails
  <2>4. ASSUME NEW s \in Servers, Report(s) PROVE TypeOK'
    BY <2>4 DEF Report
  <2>5. ASSUME NEW s \in Servers, CallBegins(s) \/ CallEnds(s) PROVE TypeOK'
    BY <2>5 DEF CallBegins, CallEnds
  <2>6. CASE UNCHANGED vars
    BY <2>6 DEF vars
  <2>7. QED
    BY <2>1, <2>2, <2>3, <2>4, <2>5, <2>6 DEF Next, Server
<1>3. QED
  BY <1>1, <1>2, PTL DEF Spec

-----------------------------------------------------------------------------
\* How many servers have reported: 0 or 1 for each.
Reported(s) == IF srv[s] = "ended" THEN 1 ELSE 0

\* Each error that waits was put there by a server that has returned since;
\* before the go statements there is no server to do so.
ErrorsReported ==
    /\ errChan <= Reported("grpc") + Reported("gnmi") + Reported("ssh")
    /\ main \in Unnotified \cup {"start"} => \A s \in Servers : srv[s] = "none"

LEMMA ErrorsAlwaysReported == Spec => []ErrorsReported
<1>1. Init => ErrorsReported
  BY DEF Init, ErrorsReported, Reported, Unnotified
<1>2. TypeOK /\ ErrorsReported /\ [Next]_vars => ErrorsReported'
  <2> SUFFICES ASSUME TypeOK, ErrorsReported, [Next]_vars PROVE ErrorsReported'
    OBVIOUS
  <2> USE DEF ErrorsReported, Reported, Unnotified
  <2>1. CASE Main
    BY <2>1 DEF TypeOK, Main, LoadConfig, InitLogger, SetUp, Notify, Start,
                TakeError, TakeSignal, Exit
  <2>2. CASE Signal
    BY <2>2 DEF Signal
  <2>3. ASSUME NEW s \in Servers, Listen(s) \/ Fails(s) PROVE ErrorsReported'
    BY <2>3 DEF TypeOK, Listen, Fails, MayFail
  <2>4. ASSUME NEW s \in Servers, Report(s) PROVE ErrorsReported'
    BY <2>4 DEF TypeOK, Report
  <2>5. ASSUME NEW s \in Servers, CallBegins(s) \/ CallEnds(s)
        PROVE  ErrorsReported'
    BY <2>5 DEF CallBegins, CallEnds
  <2>6. CASE UNCHANGED vars
    BY <2>6 DEF vars
  <2>7. QED
    BY <2>1, <2>2, <2>3, <2>4, <2>5, <2>6 DEF Next, Server
<1>3. QED
  BY <1>1, <1>2, TypeCorrect, PTL DEF Spec

\* A server puts at most one error into errChan, so that there is room for the
\* error of the last one to fail.
THEOREM NobodyEverWaits == Spec => []NobodyWaits
<1>1. TypeOK /\ ErrorsReported => NobodyWaits
  BY ErrCapAssumption DEF TypeOK, ErrorsReported, Reported, NobodyWaits
<1>2. QED
  BY <1>1, TypeCorrect, ErrorsAlwaysReported, PTL

-----------------------------------------------------------------------------
\* A server that has failed exists, one that has not been started has sent no
\* error, and a signal waits only when one was sent.
CauseInv ==
    /\ CodeHasCause
    /\ main = "wait" => \A s \in Servers : srv[s] /= "none"
    /\ shutdown > 0 => asked

\* The exit code has the cause it claims.
THEOREM ExitCodeHasCause == Spec => []CodeHasCause
<1>1. Init => CauseInv
  BY DEF Init, CauseInv, CodeHasCause
<1>2. TypeOK /\ ErrorsReported /\ CauseInv /\ [Next]_vars => CauseInv'
  <2> SUFFICES ASSUME TypeOK, ErrorsReported, CauseInv, [Next]_vars
      PROVE  CauseInv'
    OBVIOUS
  <2> USE DEF CauseInv, CodeHasCause, TypeOK, Unnotified
  <2>1. CASE LoadConfig \/ InitLogger \/ Notify
    BY <2>1 DEF LoadConfig, InitLogger, SetUp, Notify, Exit, ErrorsReported
  <2>2. CASE Start
    BY <2>2 DEF Start
  <2>3. CASE TakeError
    BY <2>3 DEF TakeError, Exit, ErrorsReported, Reported
  <2>4. CASE TakeSignal
    BY <2>4 DEF TakeSignal, Exit
  <2>5. CASE Signal
    BY <2>5 DEF Signal, Exit, Running, BufferOne, ErrorsReported
  <2>6. ASSUME NEW s \in Servers, Server(s) PROVE CauseInv'
    BY <2>6 DEF Server, Listen, Fails, Report, MayFail, Running
  <2>7. ASSUME NEW s \in Servers, CallBegins(s) \/ CallEnds(s) PROVE CauseInv'
    BY <2>7 DEF CallBegins, CallEnds
  <2>8. CASE UNCHANGED vars
    BY <2>8 DEF vars
  <2>9. QED
    BY <2>1, <2>2, <2>3, <2>4, <2>5, <2>6, <2>7, <2>8 DEF Next, Main
<1>3. CauseInv => CodeHasCause
  BY DEF CauseInv
<1>4. QED
  BY <1>1, <1>2, <1>3, TypeCorrect, ErrorsAlwaysReported, PTL DEF Spec

-----------------------------------------------------------------------------
(***************************************************************************)
(* The bastion.                                                            *)
(***************************************************************************)
CONSTANTS Conns, MayOpen, Talkers, QueueCap
VARIABLES start, listening, conn, here, pkt, global, st, kind, taker, reqs

B == INSTANCE BastionServer

\* f is a function of the connections.
OfConns(f) == f = [c \in Conns |-> f[c]]

\* The parts of BastionServer's TypeOK.
PktOK(c) == pkt[c] \in B!Packet(c) \cup {B!NoPkt}
ChansOK(c) ==
    /\ st[c] \in [B!Chans(c) -> {"none", "sent", "offered", "handled",
                               "open", "done", "refused"}]
    /\ kind[c] \in [B!Chans(c) -> B!ChannelTypes]
    /\ taker[c] \in [B!Chans(c) -> {"handler", "drain", "nobody"}]
    /\ reqs[c] \in [B!Chans(c) -> 0 .. QueueCap]
ListenerOK ==
    /\ start \in {"listen", "accepting", "returned"}
    /\ listening \in BOOLEAN
ConnsOK ==
    conn \in [Conns -> {"away", "backlog", "handshake", "open", "ending",
                        "ended"}]
FlagsOK == here \in [Conns -> BOOLEAN]
GlobalOK == global \in [Conns -> 0 .. QueueCap]
Shapes ==
    /\ OfConns(pkt) /\ OfConns(st) /\ OfConns(kind)
    /\ OfConns(taker) /\ OfConns(reqs)

\* TypeOK is inductive once these are known to be functions of the connections.
TypeInv == B!TypeOK /\ Shapes

States ==
    {"none", "sent", "offered", "handled", "open", "done", "refused"}
Takers == {"handler", "drain", "nobody"}

\* A step that writes one channel's entries leaves the channels well typed.
LEMMA ChannelTypes ==
    ASSUME OfConns(st), OfConns(kind), OfConns(taker), OfConns(reqs),
           \A d \in Conns : ChansOK(d),
           NEW c \in Conns, NEW k \in B!Chans(c),
           NEW s \in States, NEW y \in B!ChannelTypes, NEW t \in Takers,
           NEW n \in 0 .. QueueCap,
           st' = st \/ st' = [st EXCEPT ![c][k] = s],
           kind' = kind \/ kind' = [kind EXCEPT ![c][k] = y],
           taker' = taker \/ taker' = [taker EXCEPT ![c][k] = t],
           reqs' = reqs \/ reqs' = [reqs EXCEPT ![c][k] = n]
    PROVE  /\ OfConns(st)' /\ OfConns(kind)'
           /\ OfConns(taker)' /\ OfConns(reqs)'
           /\ \A d \in Conns : ChansOK(d)'
<1>0. /\ st[c] \in [B!Chans(c) -> States]
      /\ kind[c] \in [B!Chans(c) -> B!ChannelTypes]
      /\ taker[c] \in [B!Chans(c) -> Takers]
      /\ reqs[c] \in [B!Chans(c) -> 0 .. QueueCap]
  BY DEF ChansOK, States, Takers
<1>1. /\ OfConns(st)' /\ st'[c] \in [B!Chans(c) -> States]
      /\ \A d \in Conns : d /= c => st'[d] = st[d]
  <2>1. CASE st' = st
    BY <2>1, <1>0 DEF OfConns
  <2>2. CASE st' = [st EXCEPT ![c][k] = s]
    <3> DEFINE w == [st[c] EXCEPT ![k] = s]
    <3>1. st' = [st EXCEPT ![c] = w]
      BY <2>2
    <3>2. w \in [B!Chans(c) -> States]
      BY <1>0
    <3> HIDE DEF w
    <3>3. /\ OfConns(st)' /\ st'[c] = w
          /\ \A d \in Conns : d /= c => st'[d] = st[d]
      BY <3>1 DEF OfConns
    <3>4. QED
      BY <3>2, <3>3
  <2>3. QED
    BY <2>1, <2>2
<1>2. /\ OfConns(kind)' /\ kind'[c] \in [B!Chans(c) -> B!ChannelTypes]
      /\ \A d \in Conns : d /= c => kind'[d] = kind[d]
  <2>1. CASE kind' = kind
    BY <2>1, <1>0 DEF OfConns
  <2>2. CASE kind' = [kind EXCEPT ![c][k] = y]
    <3> DEFINE w == [kind[c] EXCEPT ![k] = y]
    <3>1. kind' = [kind EXCEPT ![c] = w]
      BY <2>2
    <3>2. w \in [B!Chans(c) -> B!ChannelTypes]
      BY <1>0
    <3> HIDE DEF w
    <3>3. /\ OfConns(kind)' /\ kind'[c] = w
          /\ \A d \in Conns : d /= c => kind'[d] = kind[d]
      BY <3>1 DEF OfConns
    <3>4. QED
      BY <3>2, <3>3
  <2>3. QED
    BY <2>1, <2>2
<1>3. /\ OfConns(taker)' /\ taker'[c] \in [B!Chans(c) -> Takers]
      /\ \A d \in Conns : d /= c => taker'[d] = taker[d]
  <2>1. CASE taker' = taker
    BY <2>1, <1>0 DEF OfConns
  <2>2. CASE taker' = [taker EXCEPT ![c][k] = t]
    <3> DEFINE w == [taker[c] EXCEPT ![k] = t]
    <3>1. taker' = [taker EXCEPT ![c] = w]
      BY <2>2
    <3>2. w \in [B!Chans(c) -> Takers]
      BY <1>0
    <3> HIDE DEF w
    <3>3. /\ OfConns(taker)' /\ taker'[c] = w
          /\ \A d \in Conns : d /= c => taker'[d] = taker[d]
      BY <3>1 DEF OfConns
    <3>4. QED
      BY <3>2, <3>3
  <2>3. QED
    BY <2>1, <2>2
<1>4. /\ OfConns(reqs)' /\ reqs'[c] \in [B!Chans(c) -> 0 .. QueueCap]
      /\ \A d \in Conns : d /= c => reqs'[d] = reqs[d]
  <2>1. CASE reqs' = reqs
    BY <2>1, <1>0 DEF OfConns
  <2>2. CASE reqs' = [reqs EXCEPT ![c][k] = n]
    <3> DEFINE w == [reqs[c] EXCEPT ![k] = n]
    <3>1. reqs' = [reqs EXCEPT ![c] = w]
      BY <2>2
    <3>2. w \in [B!Chans(c) -> 0 .. QueueCap]
      BY <1>0
    <3> HIDE DEF w
    <3>3. /\ OfConns(reqs)' /\ reqs'[c] = w
          /\ \A d \in Conns : d /= c => reqs'[d] = reqs[d]
      BY <3>1 DEF OfConns
    <3>4. QED
      BY <3>2, <3>3
  <2>3. QED
    BY <2>1, <2>2
<1>5. ASSUME NEW d \in Conns PROVE ChansOK(d)'
  <2>1. CASE d = c
    BY <2>1, <1>1, <1>2, <1>3, <1>4 DEF ChansOK, States, Takers, B!Chans
  <2>2. CASE d /= c
    BY <2>2, <1>1, <1>2, <1>3, <1>4 DEF ChansOK, B!Chans
  <2>3. QED
    BY <2>1, <2>2
<1>6. QED
  BY <1>1, <1>2, <1>3, <1>4, <1>5

LEMMA TypeParts ==
    B!TypeOK <=> /\ ListenerOK /\ ConnsOK /\ FlagsOK /\ GlobalOK
                 /\ \A c \in Conns : PktOK(c) /\ ChansOK(c)
<1>1. B!TypeOK => /\ ListenerOK /\ ConnsOK /\ FlagsOK /\ GlobalOK
                 /\ \A c \in Conns : PktOK(c) /\ ChansOK(c)
  BY Zenon DEF B!TypeOK, ListenerOK, ConnsOK, FlagsOK, GlobalOK, PktOK, ChansOK
<1>2. ListenerOK /\ ConnsOK /\ FlagsOK /\ GlobalOK
                 /\ (\A c \in Conns : PktOK(c) /\ ChansOK(c)) => B!TypeOK
  BY Zenon DEF B!TypeOK, ListenerOK, ConnsOK, FlagsOK, GlobalOK, PktOK, ChansOK
<1>3. QED
  BY <1>1, <1>2

\* What BastionServer assumes of its constants.
ServerConstants ==
    /\ QueueCap \in Nat \ {0}
    /\ IsFiniteSet(Conns)
    /\ \A c \in Conns : \A k \in B!Chans(c) :
          MayOpen[c][k] \subseteq B!ChannelTypes

LEMMA TypeStep ==
    ASSUME ServerConstants, TypeInv, B!Next
    PROVE  TypeInv'
<1>0. /\ ListenerOK /\ ConnsOK /\ FlagsOK /\ GlobalOK /\ Shapes
      /\ \A c \in Conns : PktOK(c) /\ ChansOK(c)
  BY TypeParts DEF TypeInv
<1> SUFFICES /\ ListenerOK' /\ ConnsOK' /\ FlagsOK' /\ GlobalOK' /\ Shapes'
             /\ \A c \in Conns : PktOK(c)' /\ ChansOK(c)'
  BY Zenon
     DEF TypeInv, B!TypeOK, ListenerOK, ConnsOK, FlagsOK, GlobalOK, PktOK,
         ChansOK
<1>1. ASSUME UNCHANGED B!channels
      PROVE  /\ OfConns(st)' /\ OfConns(kind)'
           /\ OfConns(taker)' /\ OfConns(reqs)'
             /\ \A c \in Conns : ChansOK(c)'
  BY <1>0, <1>1 DEF Shapes, OfConns, ChansOK, B!channels, B!Chans
<1>2. ASSUME UNCHANGED pkt
      PROVE OfConns(pkt)' /\ \A c \in Conns : PktOK(c)'
  BY <1>0, <1>2 DEF Shapes, OfConns, PktOK, B!Packet, B!Chans, B!NoPkt
<1>3. ASSUME UNCHANGED B!listener PROVE ListenerOK'
  BY <1>0, <1>3 DEF ListenerOK, B!listener
<1>4. ASSUME UNCHANGED conn PROVE ConnsOK'
  BY <1>0, <1>4 DEF ConnsOK
<1>5. ASSUME UNCHANGED here PROVE FlagsOK'
  BY <1>0, <1>5 DEF FlagsOK
<1>6. ASSUME UNCHANGED global PROVE GlobalOK'
  BY <1>0, <1>6 DEF GlobalOK
<1>7. CASE B!Listen
  <2>1. ListenerOK'
    BY <1>7, <1>0 DEF B!Listen, ListenerOK
  <2>2. QED
    BY <1>7, <2>1, <1>1, <1>2, <1>4, <1>5, <1>6 DEF B!Listen, Shapes
<1>8. CASE B!AcceptFails
  BY <1>8, <1>1, <1>2, <1>3, <1>4, <1>5, <1>6
     DEF B!AcceptFails, B!vars, Shapes, B!listener, B!channels
<1>9. CASE B!Stop
  <2>1. ListenerOK' /\ ConnsOK'
    BY <1>9, <1>0 DEF B!Stop, ListenerOK, ConnsOK
  <2>2. FlagsOK'
    BY <1>9, <1>0 DEF B!Stop, FlagsOK
  <2>3. QED
    BY <1>9, <2>1, <2>2, <1>1, <1>2, <1>6 DEF B!Stop, Shapes
<1>10. ASSUME NEW c \in Conns,
              B!Accept(c) \/ B!Handshake(c) \/ B!Return(c) \/ B!MuxEnds(c)
                \/ B!Connect(c) \/ B!Disconnect(c)
       PROVE ListenerOK' /\ ConnsOK' /\ FlagsOK' /\ GlobalOK' /\ Shapes'
             /\ \A d \in Conns : PktOK(d)' /\ ChansOK(d)'
  <2>1. UNCHANGED <<B!listener, pkt, global, B!channels>>
    BY <1>10
       DEF B!Accept, B!Handshake, B!Return, B!MuxEnds, B!Connect, B!Disconnect
  <2>2. ConnsOK'
    BY <1>0, <1>10
       DEF ConnsOK, B!Accept, B!Handshake, B!Return, B!MuxEnds, B!Connect,
           B!Disconnect
  <2>3. FlagsOK'
    BY <1>0, <1>10, Zenon
       DEF FlagsOK, B!Accept, B!Handshake, B!Return, B!MuxEnds, B!Connect,
           B!Disconnect
  <2>4. QED
    BY <2>1, <2>2, <2>3, <1>1, <1>2, <1>3, <1>6 DEF Shapes
<1>11. ASSUME NEW c \in Conns, B!DiscardGlobal(c)
       PROVE ListenerOK' /\ ConnsOK' /\ FlagsOK' /\ GlobalOK' /\ Shapes'
             /\ \A d \in Conns : PktOK(d)' /\ ChansOK(d)'
  <2>1. GlobalOK'
    BY <1>11, <1>0 DEF B!DiscardGlobal, GlobalOK, ServerConstants
  <2>2. QED
    BY <1>11, <2>1, <1>1, <1>2, <1>3, <1>4, <1>5 DEF B!DiscardGlobal, Shapes
<1>12. ASSUME NEW c \in Conns, B!GlobalRequest(c)
       PROVE ListenerOK' /\ ConnsOK' /\ FlagsOK' /\ GlobalOK' /\ Shapes'
             /\ \A d \in Conns : PktOK(d)' /\ ChansOK(d)'
  <2>1. OfConns(pkt)' /\ \A d \in Conns : PktOK(d)'
    <3>1. pkt' = [pkt EXCEPT ![c] = [type |-> "global"]]
      BY <1>12 DEF B!GlobalRequest
    <3>2. /\ OfConns(pkt') /\ pkt'[c] = [type |-> "global"]
          /\ \A d \in Conns : d /= c => pkt'[d] = pkt[d]
      BY <3>1, <1>0, SMT DEF OfConns, Shapes
    <3>3. QED
      BY <3>2, <1>0 DEF OfConns, PktOK, B!Packet, B!Chans, B!NoPkt
  <2>2. QED
    BY <1>12, <2>1, <1>1, <1>3, <1>4, <1>5, <1>6 DEF B!GlobalRequest, Shapes
<1> DEFINE Kept == ListenerOK' /\ ConnsOK' /\ FlagsOK' /\ GlobalOK' /\ Shapes'
                   /\ \A d \in Conns : PktOK(d)' /\ ChansOK(d)'
<1> DEFINE KeptChans == /\ OfConns(st)' /\ OfConns(kind)'
                        /\ OfConns(taker)' /\ OfConns(reqs)'
                        /\ \A d \in Conns : ChansOK(d)'
<1>13. ASSUME NEW c \in Conns, NEW k \in B!Chans(c),
              NEW s \in States, NEW y \in B!ChannelTypes, NEW t \in Takers,
              NEW n \in 0 .. QueueCap,
              st' = st \/ st' = [st EXCEPT ![c][k] = s],
              kind' = kind \/ kind' = [kind EXCEPT ![c][k] = y],
              taker' = taker \/ taker' = [taker EXCEPT ![c][k] = t],
              reqs' = reqs \/ reqs' = [reqs EXCEPT ![c][k] = n]
       PROVE  KeptChans
  BY <1>0, <1>13, ChannelTypes DEF Shapes
<1>14. /\ "sent" \in States /\ "other" \in B!ChannelTypes
      /\ "drain" \in Takers /\ 0 \in 0 .. QueueCap
  BY DEF States, Takers, ServerConstants, B!ChannelTypes
<1>15. ASSUME NEW c \in Conns, B!Deliver(c)
       PROVE Kept
  <2>1. OfConns(pkt)' /\ \A d \in Conns : PktOK(d)'
    <3>1. pkt' = [pkt EXCEPT ![c] = B!NoPkt]
      BY <1>15 DEF B!Deliver, B!Queued, B!channels
    <3>2. /\ OfConns(pkt') /\ pkt'[c] = B!NoPkt
          /\ \A d \in Conns : d /= c => pkt'[d] = pkt[d]
      BY <3>1, <1>0, SMT DEF OfConns, Shapes
    <3>3. QED
      BY <3>2, <1>0 DEF OfConns, PktOK, B!Packet, B!Chans, B!NoPkt
  <2>2. PktOK(c) /\ ChansOK(c)
    BY <1>0
  <2>3. CASE pkt[c].type = "global"
    <3>1. GlobalOK'
      BY <2>3, <1>15, <1>0
         DEF B!Deliver, B!Queued, B!channels, B!CanDeliver, GlobalOK, ServerConstants
    <3>2. UNCHANGED B!channels
      BY <2>3, <1>15, SMT DEF B!Deliver, B!Queued, B!channels
    <3>3. QED
      BY <1>15, <2>1, <3>1, <3>2, <1>1, <1>3, <1>4, <1>5
         DEF B!Deliver, B!Queued, B!channels, Shapes
  <2>4. CASE pkt[c].type = "request"
    <3>1. PICK k \in B!Chans(c) : pkt[c] = [type |-> "request", chan |-> k]
      BY <2>2, <2>4 DEF PktOK, B!Packet, B!NoPkt
    <3> DEFINE n == reqs[c][k] + 1
    <3>2. n \in 0 .. QueueCap /\ reqs' = [reqs EXCEPT ![c][k] = n]
      BY <3>1, <2>2, <2>4, <1>15
         DEF B!Deliver, B!Queued, B!channels, B!CanDeliver, ChansOK, ServerConstants
    <3> HIDE DEF n
    <3>3. UNCHANGED <<st, kind, taker, global>>
      BY <2>4, <1>15, SMT DEF B!Deliver, B!Queued, B!channels
    <3>4. KeptChans
      BY <3>2, <3>3, <1>13, <1>14
    <3>5. QED
      BY <1>15, <2>1, <3>3, <3>4, <1>3, <1>4, <1>5, <1>6
         DEF B!Deliver, B!Queued, B!channels, Shapes
  <2>5. CASE pkt[c].type = "open"
    <3>1. PICK k \in B!Chans(c) : pkt[c] = [type |-> "open", chan |-> k]
      BY <2>2, <2>5 DEF PktOK, B!Packet, B!NoPkt
    <3>2. st' = [st EXCEPT ![c][k] = "offered"]
      BY <3>1, <2>5, <1>15 DEF B!Deliver, B!Queued, B!channels
    <3>3. UNCHANGED <<reqs, kind, taker, global>>
      BY <2>5, <1>15, SMT DEF B!Deliver, B!Queued, B!channels
    <3>4. KeptChans
      BY <3>2, <3>3, <1>13, <1>14 DEF States
    <3>5. QED
      BY <1>15, <2>1, <3>3, <3>4, <1>3, <1>4, <1>5, <1>6
         DEF B!Deliver, B!Queued, B!channels, Shapes
  <2>6. QED
    BY <2>3, <2>4, <2>5, <1>15 DEF B!Deliver, B!Queued, B!channels, B!CanDeliver
<1>16. ASSUME NEW c \in Conns, NEW k \in B!Chans(c),
              B!Handle(c, k) \/ B!HandleChannel(c, k) \/ B!DeviceSession(c, k)
                \/ B!ChannelEnds(c, k)
       PROVE  Kept
  <2>1. PICK s \in States :
          st' = st \/ st' = [st EXCEPT ![c][k] = s]
    BY <1>16 DEF B!Handle, B!HandleChannel, B!SessionStarts, B!ForwardStarts,
                 B!NotAccepted, B!DeviceSession, B!ChannelEnds, States
  <2>2. PICK t \in Takers :
          taker' = taker \/ taker' = [taker EXCEPT ![c][k] = t]
    BY <1>16 DEF B!Handle, B!HandleChannel, B!SessionStarts, B!ForwardStarts,
                 B!NotAccepted, B!DeviceSession, B!ChannelEnds, Takers
  <2>3. UNCHANGED <<B!listener, conn, here, pkt, global, kind, reqs>>
    BY <1>16 DEF B!Handle, B!HandleChannel, B!DeviceSession, B!ChannelEnds
  <2>4. KeptChans
    BY <2>1, <2>2, <2>3, <1>13, <1>14
  <2>5. QED
    BY <2>3, <2>4, <1>2, <1>3, <1>4, <1>5, <1>6 DEF Shapes
<1>17. ASSUME NEW c \in Conns, NEW k \in B!Chans(c), B!TakeRequest(c, k)
       PROVE  Kept
  <2> DEFINE n == reqs[c][k] - 1
  <2>1. n \in 0 .. QueueCap /\ reqs' = [reqs EXCEPT ![c][k] = n]
    BY <1>0, <1>17 DEF B!TakeRequest, ChansOK, ServerConstants
  <2> HIDE DEF n
  <2>2. PICK t \in Takers :
          taker' = taker \/ taker' = [taker EXCEPT ![c][k] = t]
    BY <1>17 DEF B!TakeRequest, Takers
  <2>3. PICK s \in States :
          st' = st \/ st' = [st EXCEPT ![c][k] = s]
    BY <1>17 DEF B!TakeRequest, States
  <2>4. UNCHANGED <<B!listener, conn, here, pkt, global, kind>>
    BY <1>17 DEF B!TakeRequest
  <2>5. KeptChans
    BY <2>1, <2>2, <2>3, <2>4, <1>13, <1>14
  <2>6. QED
    BY <2>4, <2>5, <1>2, <1>3, <1>4, <1>5, <1>6 DEF Shapes
<1>18. ASSUME NEW c \in Conns, NEW k \in B!Chans(c),
              B!Open(c, k) \/ B!Request(c, k)
       PROVE  Kept
  <2>1. PICK y \in {"open", "request"} :
          pkt' = [pkt EXCEPT ![c] = [type |-> y, chan |-> k]]
    BY <1>18 DEF B!Open, B!Request
  <2>2. /\ OfConns(pkt) /\ pkt' = [pkt EXCEPT ![c] = [type |-> y, chan |-> k]]
    BY <2>1, <1>0 DEF Shapes
  <2>3. /\ OfConns(pkt') /\ pkt'[c] = [type |-> y, chan |-> k]
        /\ \A d \in Conns : d /= c => pkt'[d] = pkt[d]
    BY <2>2, SMT DEF OfConns
  <2>4. \A d \in Conns : PktOK(d)'
    BY <2>3, <1>0 DEF PktOK, B!Packet, B!Chans, B!NoPkt
  <2>5. st' = st \/ st' = [st EXCEPT ![c][k] = "sent"]
    BY <1>18 DEF B!Open, B!Request, B!channels
  <2>6. PICK y2 \in B!ChannelTypes :
          kind' = kind \/ kind' = [kind EXCEPT ![c][k] = y2]
    <3>1. CASE B!Open(c, k)
      <4>1. PICK t \in MayOpen[c][k] : kind' = [kind EXCEPT ![c][k] = t]
        BY <3>1 DEF B!Open
      <4>2. t \in B!ChannelTypes
        BY <4>1 DEF ServerConstants
      <4>3. QED
        BY <4>1, <4>2
    <3>2. CASE B!Request(c, k)
      BY <3>2, <1>14 DEF B!Request, B!channels
    <3>3. QED
      BY <3>1, <3>2, <1>18
  <2>7. UNCHANGED <<B!listener, conn, here, global, taker, reqs>>
    BY <1>18 DEF B!Open, B!Request, B!channels
  <2>8. KeptChans
    BY <2>5, <2>6, <2>7, <1>13, <1>14 DEF States
  <2>9. QED
    BY <2>3, <2>4, <2>7, <2>8, <1>3, <1>4, <1>5, <1>6 DEF Shapes
<1>19. QED
  BY <1>7, <1>8, <1>9, <1>10, <1>11, <1>12, <1>15, <1>16, <1>17, <1>18
     DEF B!Next, B!ConnStep, B!ChannelStep, B!Client

LEMMA ServerTypeInv == ASSUME ServerConstants PROVE B!Spec => []TypeInv
<1>1. B!Init => TypeInv
  <2> SUFFICES ASSUME B!Init PROVE TypeInv
    OBVIOUS
  <2>1. FlagsOK
    BY Zenon DEF B!Init, FlagsOK
  <2>2. ListenerOK /\ ConnsOK /\ GlobalOK /\ Shapes
        /\ \A c \in Conns : PktOK(c) /\ ChansOK(c)
    <3>0. ListenerOK
      BY Zenon DEF B!Init, ListenerOK
    <3>1. ConnsOK /\ GlobalOK
      BY DEF B!Init, ConnsOK, GlobalOK, ServerConstants
    <3>2. Shapes
      BY DEF B!Init, Shapes, OfConns
    <3>3. ASSUME NEW c \in Conns PROVE PktOK(c)
      BY DEF B!Init, PktOK
    <3>4. ASSUME NEW c \in Conns PROVE ChansOK(c)
      <4>1. /\ st[c] = [k \in B!Chans(c) |-> "none"]
            /\ kind[c] = [k \in B!Chans(c) |-> "other"]
            /\ taker[c] = [k \in B!Chans(c) |-> "nobody"]
            /\ reqs[c] = [k \in B!Chans(c) |-> 0]
        BY DEF B!Init
      <4>2. QED
        BY <4>1 DEF ChansOK, ServerConstants, B!ChannelTypes
    <3>5. QED
      BY <3>0, <3>1, <3>2, <3>3, <3>4
  <2>3. QED
    BY <2>1, <2>2, TypeParts DEF TypeInv
<1>2. TypeInv /\ [B!Next]_(B!vars) => TypeInv'
  <2> SUFFICES ASSUME TypeInv, [B!Next]_(B!vars) PROVE TypeInv'
    OBVIOUS
  <2>1. CASE B!Next
    BY <2>1, TypeStep
  <2>2. CASE UNCHANGED B!vars
    <3>1. UNCHANGED <<start, listening, conn, here, pkt, global, st,
                    kind, taker, reqs>>
      BY <2>2 DEF B!vars
    <3>2. QED
      BY <3>1
         DEF TypeInv, B!TypeOK, Shapes, OfConns, B!Packet, B!Chans, B!NoPkt,
             B!ChannelTypes
  <2>3. QED
    BY <2>1, <2>2
<1>3. QED
  BY <1>1, <1>2, PTL DEF B!Spec

\* No queue of the bastion's mux ever holds more than its capacity, a packet is
\* for a channel of its own connection, and the rest of the type invariant.
THEOREM ServerTypeCorrect ==
    ASSUME ServerConstants PROVE B!Spec => []B!TypeOK
<1>1. TypeInv => B!TypeOK
  BY DEF TypeInv
<1>2. QED
  BY <1>1, ServerTypeInv, PTL

-----------------------------------------------------------------------------
\* Packets are in the hands of open connections only, a request is for a
\* channel that was accepted, and what was accepted is a session, whose handler
\* may have stopped to receive, or has a goroutine that drains it for good.
ConnInv(c) ==
    /\ conn[c] = "backlog" => listening
    /\ pkt[c] /= B!NoPkt => conn[c] = "open"
    /\ pkt[c].type = "open" => st[c][pkt[c].chan] = "sent"
    /\ pkt[c].type = "request" =>
          /\ st[c][pkt[c].chan] \in {"open", "done"}
          /\ \/ kind[c][pkt[c].chan] = "session"
             \/ taker[c][pkt[c].chan] = "drain"
ChanInv(c, k) ==
    /\ st[c][k] \notin {"open", "done"} => taker[c][k] = "nobody"
    /\ st[c][k] \in {"open", "done"} =>
          kind[c][k] = "session" \/ taker[c][k] = "drain"
    /\ taker[c][k] = "handler" => st[c][k] = "open"

ServerInv ==
    /\ listening => start = "accepting"
    /\ \A c \in Conns : ConnInv(c) /\ \A k \in B!Chans(c) : ChanInv(c, k)

LEMMA ServerInvStep ==
    ASSUME ServerConstants, TypeInv, ServerInv, B!Next
    PROVE  ServerInv'
<1>0. /\ ListenerOK /\ ConnsOK /\ FlagsOK /\ GlobalOK /\ Shapes
      /\ \A c \in Conns : PktOK(c) /\ ChansOK(c)
  BY TypeParts DEF TypeInv
<1>1. ASSUME UNCHANGED B!channels
      PROVE  \A c \in Conns : \A k \in B!Chans(c) : ChanInv(c, k)'
  BY <1>1 DEF ServerInv, ChanInv, B!channels
<1>2. CASE B!Listen
  BY <1>2, <1>1 DEF B!Listen, ServerInv, ConnInv, B!channels
<1>3. CASE B!AcceptFails
  BY <1>3, <1>1 DEF B!AcceptFails, ServerInv, ConnInv, B!channels, B!vars
<1>4. CASE B!Stop
  <2>1. listening' = FALSE
    BY <1>4 DEF B!Stop
  <2>2. UNCHANGED <<start, pkt, global, B!channels>>
    BY <1>4 DEF B!Stop
  <2>3. ASSUME NEW c \in Conns PROVE ConnInv(c)'
    <3>1. /\ conn'[c] /= "backlog"
          /\ conn[c] = "open" => conn'[c] = "open"
      BY <1>4 DEF B!Stop
    <3>2. QED
      BY <3>1, <2>2 DEF ServerInv, ConnInv, B!channels, B!NoPkt
  <2>4. QED
    BY <2>1, <2>2, <2>3, <1>1, Zenon DEF ServerInv
<1>5. ASSUME NEW c \in Conns,
             B!Accept(c) \/ B!Handshake(c) \/ B!Return(c) \/ B!MuxEnds(c)
                \/ B!Connect(c) \/ B!Disconnect(c) \/ B!DiscardGlobal(c)
      PROVE  ServerInv'
  <2>1. UNCHANGED <<start, listening, pkt, B!channels>>
    BY <1>5 DEF B!Accept, B!Handshake, B!Return, B!MuxEnds, B!Connect,
                B!Disconnect, B!DiscardGlobal, B!listener
  <2>2. ASSUME NEW d \in Conns PROVE ConnInv(d)'
    <3>1. /\ conn'[d] = "backlog" => listening
          /\ pkt[d] /= B!NoPkt => conn'[d] = "open"
      BY <1>0, <1>5 DEF B!Accept, B!Handshake, B!Return, B!MuxEnds, B!Connect,
                B!Disconnect, B!DiscardGlobal, ServerInv, ConnInv, ConnsOK
    <3>2. QED
      BY <3>1, <2>1 DEF ServerInv, ConnInv, B!channels, B!NoPkt
  <2>3. QED
    BY <2>1, <2>2, <1>1 DEF ServerInv
<1>6. ASSUME NEW c \in Conns, B!GlobalRequest(c)
      PROVE  ServerInv'
  <2>1. UNCHANGED <<start, listening, conn, B!channels>>
    BY <1>6 DEF B!GlobalRequest, B!listener
  <2>2. /\ conn[c] = "open"
        /\ pkt'[c] = [type |-> "global"]
        /\ \A d \in Conns : d /= c => pkt'[d] = pkt[d]
    BY <1>6, <1>0 DEF B!GlobalRequest, Shapes, OfConns
  <2>3. ASSUME NEW d \in Conns PROVE ConnInv(d)'
    BY <2>1, <2>2 DEF ServerInv, ConnInv, B!channels, B!NoPkt
  <2>4. QED
    BY <2>1, <2>3, <1>1 DEF ServerInv
<1>7. ASSUME NEW c \in Conns, NEW k \in B!Chans(c), B!Request(c, k)
      PROVE  ServerInv'
  <2>1. UNCHANGED <<start, listening, conn, B!channels>>
    BY <1>7 DEF B!Request, B!listener
  <2>2. /\ conn[c] = "open" /\ st[c][k] \in {"open", "done"}
        /\ pkt'[c] = [type |-> "request", chan |-> k]
        /\ \A d \in Conns : d /= c => pkt'[d] = pkt[d]
    BY <1>7, <1>0 DEF B!Request, Shapes, OfConns
  <2>3. ASSUME NEW d \in Conns PROVE ConnInv(d)'
    BY <2>1, <2>2 DEF ServerInv, ConnInv, ChanInv, B!channels, B!NoPkt
  <2>4. QED
    BY <2>1, <2>3, <1>1 DEF ServerInv
<1>8. ASSUME NEW c \in Conns, NEW k \in B!Chans(c), B!Open(c, k)
      PROVE  ServerInv'
  <2>1. UNCHANGED <<start, listening, conn, taker, reqs>>
    BY <1>8 DEF B!Open, B!listener
  <2>2. /\ conn[c] = "open" /\ st[c][k] = "none" /\ pkt[c] = B!NoPkt
        /\ pkt'[c] = [type |-> "open", chan |-> k]
        /\ \A d \in Conns : d /= c => pkt'[d] = pkt[d]
    BY <1>8, <1>0 DEF B!Open, Shapes, OfConns
  <2>3. /\ st'[c][k] = "sent"
        /\ \A j \in B!Chans(c) : j /= k => st'[c][j] = st[c][j]
        /\ \A d \in Conns : d /= c => st'[d] = st[d]
    BY <1>8, <1>0 DEF B!Open, Shapes, OfConns, ChansOK
  <2>4. /\ \A j \in B!Chans(c) : j /= k => kind'[c][j] = kind[c][j]
        /\ \A d \in Conns : d /= c => kind'[d] = kind[d]
    BY <1>8, <1>0 DEF B!Open, Shapes, OfConns, ChansOK
  <2>5. ASSUME NEW d \in Conns PROVE ConnInv(d)'
    BY <2>1, <2>2, <2>3, <2>4 DEF ServerInv, ConnInv, B!NoPkt
  <2>6. ASSUME NEW d \in Conns, NEW j \in B!Chans(d) PROVE ChanInv(d, j)'
    BY <2>1, <2>2, <2>3, <2>4 DEF ServerInv, ChanInv
  <2>7. QED
    BY <2>1, <2>5, <2>6 DEF ServerInv, B!Chans
<1>9. ASSUME NEW c \in Conns, B!Deliver(c)
      PROVE  ServerInv'
  <2>1. UNCHANGED <<start, listening, conn, taker, kind>>
    BY <1>9 DEF B!Deliver, B!Queued, B!channels, B!listener
  <2>2. /\ pkt[c] /= B!NoPkt /\ pkt'[c] = B!NoPkt
        /\ \A d \in Conns : d /= c => pkt'[d] = pkt[d]
    BY <1>9, <1>0, SMT DEF B!Deliver, B!NoPkt, Shapes, OfConns
  <2>3. CASE pkt[c].type = "open"
    <3>1. PICK k \in B!Chans(c) : pkt[c] = [type |-> "open", chan |-> k]
      BY <2>3, <1>0 DEF PktOK, B!Packet, B!NoPkt
    <3>2. st' = [st EXCEPT ![c][k] = "offered"]
      BY <3>1, <1>9, SMT DEF B!Deliver
    <3>3. st[c][k] = "sent"
      BY <3>1 DEF ServerInv, ConnInv
    <3>4. /\ st'[c][k] = "offered"
          /\ \A j \in B!Chans(c) : j /= k => st'[c][j] = st[c][j]
          /\ \A d \in Conns : d /= c => st'[d] = st[d]
      BY <3>2, <1>0 DEF Shapes, OfConns, ChansOK
    <3>5. ASSUME NEW d \in Conns PROVE ConnInv(d)'
      BY <2>1, <2>2, <3>3, <3>4 DEF ServerInv, ConnInv, B!NoPkt
    <3>6. ASSUME NEW d \in Conns, NEW j \in B!Chans(d) PROVE ChanInv(d, j)'
      BY <2>1, <3>3, <3>4 DEF ServerInv, ChanInv
    <3>7. QED
      BY <2>1, <3>5, <3>6 DEF ServerInv, B!Chans
  <2>4. CASE pkt[c].type /= "open"
    <3>1. UNCHANGED st
      BY <2>4, <1>9, SMT DEF B!Deliver, B!Queued, B!channels
    <3>2. ASSUME NEW d \in Conns PROVE ConnInv(d)'
      BY <2>1, <2>2, <3>1 DEF ServerInv, ConnInv, B!NoPkt
    <3>3. ASSUME NEW d \in Conns, NEW j \in B!Chans(d) PROVE ChanInv(d, j)'
      BY <2>1, <3>1 DEF ServerInv, ChanInv
    <3>4. QED
      BY <2>1, <3>2, <3>3 DEF ServerInv, B!Chans
  <2>5. QED
    BY <2>3, <2>4
<1>10. ASSUME NEW c \in Conns, NEW k \in B!Chans(c),
              B!Handle(c, k) \/ B!HandleChannel(c, k) \/ B!TakeRequest(c, k)
                \/ B!DeviceSession(c, k) \/ B!ChannelEnds(c, k)
       PROVE  ServerInv'
  <2>1. UNCHANGED <<start, listening, conn, pkt, kind>>
    BY <1>10 DEF B!Handle, B!HandleChannel, B!TakeRequest, B!DeviceSession,
                 B!ChannelEnds, B!listener
  <2> DEFINE s == st'[c][k]
             t == taker'[c][k]
  <2>2. /\ \A j \in B!Chans(c) : j /= k => st'[c][j] = st[c][j]
        /\ \A d \in Conns : d /= c => st'[d] = st[d]
    BY <1>10, <1>0 DEF B!Handle, B!HandleChannel, B!TakeRequest,
         B!DeviceSession, B!ChannelEnds, B!SessionStarts, B!ForwardStarts,
         B!NotAccepted, Shapes, OfConns, ChansOK
  <2>3. /\ \A j \in B!Chans(c) : j /= k => taker'[c][j] = taker[c][j]
        /\ \A d \in Conns : d /= c => taker'[d] = taker[d]
    BY <1>10, <1>0 DEF B!Handle, B!HandleChannel, B!TakeRequest,
         B!DeviceSession, B!ChannelEnds, B!SessionStarts, B!ForwardStarts,
         B!NotAccepted, Shapes, OfConns, ChansOK
  <2>4. \/ st[c][k] = "offered" /\ s = "handled" /\ t = taker[c][k]
        \/ st[c][k] = "handled" /\ s = "open" /\ kind[c][k] = "session"
        \/ st[c][k] = "handled" /\ s = "open" /\ t = "drain"
        \/ st[c][k] = "handled" /\ s = "refused" /\ t = taker[c][k]
        \/ s = st[c][k] /\ t = taker[c][k]
        \/ s = st[c][k] /\ taker[c][k] = "handler" /\ t = "nobody"
        \/ s = st[c][k] /\ s = "open" /\ t = "drain"
        \/ /\ st[c][k] = "open" /\ s = "done"
           /\ taker[c][k] /= "handler" /\ t = taker[c][k]
        \/ s = "done" /\ taker[c][k] = "handler" /\ t = "nobody"
    BY <1>10, <1>0 DEF B!Handle, B!HandleChannel, B!TakeRequest,
         B!DeviceSession, B!ChannelEnds, B!SessionStarts, B!ForwardStarts,
         B!NotAccepted, Shapes, OfConns, ChansOK
  <2>5. ASSUME NEW d \in Conns PROVE ConnInv(d)'
    <3>1. PktOK(d)
      BY <1>0
    <3>2. CASE d = c /\ pkt[d].type \in {"open", "request"}
      <4>1. PICK j \in B!Chans(d) : pkt[d].chan = j
        BY <3>1, <3>2 DEF PktOK, B!Packet, B!NoPkt
      <4>2. CASE j = k
        BY <3>2, <4>1, <4>2, <2>1, <2>4 DEF ServerInv, ConnInv, ChanInv
      <4>3. CASE j /= k
        BY <3>2, <4>1, <4>3, <2>1, <2>2, <2>3 DEF ServerInv, ConnInv
      <4>4. QED
        BY <4>2, <4>3
    <3>3. CASE d /= c
      BY <3>3, <2>1, <2>2, <2>3 DEF ServerInv, ConnInv
    <3>4. CASE pkt[d].type \notin {"open", "request"}
      BY <3>4, <2>1 DEF ServerInv, ConnInv
    <3>5. QED
      BY <3>2, <3>3, <3>4
  <2>6. ASSUME NEW d \in Conns, NEW j \in B!Chans(d) PROVE ChanInv(d, j)'
    BY <2>1, <2>2, <2>3, <2>4 DEF ServerInv, ChanInv
  <2>7. QED
    BY <2>1, <2>5, <2>6 DEF ServerInv, B!Chans
<1>11. QED
  BY <1>2, <1>3, <1>4, <1>5, <1>6, <1>7, <1>8, <1>9, <1>10
     DEF B!Next, B!ConnStep, B!ChannelStep, B!Client

-----------------------------------------------------------------------------
\* The refinement: calls in progress are the connections in hand, so that their
\* number must be seen to change by one.
LEMMA SameCardinality ==
    ASSUME NEW S PROVE B!Cardinality(S) = Cardinality(S)
BY DEF B!Cardinality, Cardinality

Calls(n) == [grpc |-> 0, gnmi |-> 0, ssh |-> n]

LEMMA ConnectedSteps ==
    ASSUME IsFiniteSet(Conns), NEW S \in SUBSET Conns, NEW c \in Conns
    PROVE  /\ Cardinality(S) \in Nat
           /\ c \in S => /\ Cardinality(S) > 0
                         /\ Cardinality(S \ {c}) = Cardinality(S) - 1
           /\ c \notin S => /\ Cardinality(S) < Cardinality(Conns)
                            /\ Cardinality(S \cup {c}) = Cardinality(S) + 1
<1>1. IsFiniteSet(S) /\ Cardinality(S) \in Nat
  BY FS_Subset, FS_CardinalityType
<1>2. CASE c \in S
  <2>1. Cardinality(S \ {c}) = Cardinality(S) - 1
    BY <1>1, <1>2, FS_RemoveElement
  <2>2. Cardinality(S \ {c}) \in Nat
    BY <1>1, FS_RemoveElement, FS_CardinalityType
  <2>3. QED
    BY <1>1, <1>2, <2>1, <2>2
<1>3. CASE c \notin S
  <2>1. Cardinality(S \cup {c}) = Cardinality(S) + 1
    BY <1>1, <1>3, FS_AddElement
  <2>2. Cardinality(S \cup {c}) <= Cardinality(Conns)
    BY FS_Subset
  <2>3. Cardinality(Conns) \in Nat
    BY FS_CardinalityType
  <2>4. QED
    BY <1>1, <1>3, <2>1, <2>2, <2>3
<1>4. QED
  BY <1>1, <1>2, <1>3

ServesStep ==
    \/ B!Life!Listen("ssh") \/ B!Life!Fails("ssh")
    \/ B!Life!CallBegins("ssh") \/ B!Life!CallEnds("ssh")

LEMMA ServesNext ==
    ASSUME ServerConstants, ConnsOK, ListenerOK, B!Next
    PROVE  ServesStep \/ UNCHANGED B!Life!vars
<1> DEFINE S == B!Connected
<1>1. ASSUME S' = S PROVE B!LifeCalls' = B!LifeCalls
  BY <1>1 DEF B!LifeCalls
<1>2. ASSUME start' = start PROVE B!LifeSrv' = B!LifeSrv
  BY <1>2 DEF B!LifeSrv, B!Goroutine
<1>3. ASSUME S' = S, start' = start PROVE UNCHANGED B!Life!vars
  BY <1>1, <1>2, <1>3 DEF B!Life!vars
<1>4. ASSUME UNCHANGED conn PROVE S' = S
  BY <1>4 DEF B!Connected
<1>5. CASE B!Listen
  <2>1. B!LifeCalls' = B!LifeCalls
    BY <1>1, <1>4, <1>5 DEF B!Listen
  <2>2. B!LifeSrv =
        [grpc |-> "starting", gnmi |-> "starting", ssh |-> "starting"]
    BY <1>5 DEF B!LifeSrv, B!Goroutine, B!Listen
  <2>3. CASE start' = "accepting"
    <3>1. B!LifeSrv' =
          [grpc |-> "starting", gnmi |-> "starting", ssh |-> "serving"]
      BY <2>3 DEF B!LifeSrv, B!Goroutine
    <3>2. B!Life!Listen("ssh")
      BY <2>1, <2>2, <3>1, SMT DEF B!Life!Listen, B!Life!Running
    <3>3. QED
      BY <3>2 DEF ServesStep
  <2>4. CASE start' = "returned"
    <3>1. B!LifeSrv' =
          [grpc |-> "starting", gnmi |-> "starting", ssh |-> "failed"]
      BY <2>4 DEF B!LifeSrv, B!Goroutine
    <3>2. B!Life!Fails("ssh")
      BY <2>1, <2>2, <3>1, SMT
         DEF B!Life!Fails, B!Life!Running, B!Life!MayFail
    <3>3. QED
      BY <3>2 DEF ServesStep
  <2>5. QED
    BY <2>3, <2>4, <1>5 DEF B!Listen
<1>6. CASE B!AcceptFails
  BY <1>3, <1>4, <1>6 DEF B!AcceptFails, B!vars
<1>7. CASE B!Stop
  <2>1. S' = S
    BY <1>7 DEF B!Stop, B!Connected
  <2>2. QED
    BY <1>3, <1>7, <2>1 DEF B!Stop
<1>8. ASSUME NEW c \in Conns,
             B!Handshake(c) \/ B!MuxEnds(c) \/ B!Return(c) \/ B!Connect(c)
                \/ B!Accept(c)
      PROVE  ServesStep \/ UNCHANGED B!Life!vars
  <2>0. /\ start' = start
        /\ S \in SUBSET Conns
    BY <1>8 DEF B!Handshake, B!MuxEnds, B!Return, B!Connect, B!Accept,
                B!listener, B!Connected
  <2>1. /\ B!LifeSrv' = B!LifeSrv
        /\ B!LifeCalls = Calls(Cardinality(S))
        /\ B!LifeCalls' = Calls(Cardinality(S'))
    BY <2>0, <1>2, SameCardinality DEF B!LifeCalls, Calls
  <2>2. CASE S' = S
    BY <2>2, <2>0, <1>3
  <2>3. CASE B!Accept(c)
    <3>1. c \notin S /\ S' = S \cup {c}
      BY <2>3 DEF ConnsOK, B!Accept, B!Connected
    <3>2. B!LifeSrv =
          [grpc |-> "starting", gnmi |-> "starting", ssh |-> "serving"]
      BY <2>3 DEF B!LifeSrv, B!Goroutine, B!Accept
    <3> DEFINE n == Cardinality(S)
    <3>3. n \in Nat /\ n < Cardinality(Conns) /\ Cardinality(S') = n + 1
      BY <3>1, <2>0, ConnectedSteps DEF ServerConstants
    <3>4. B!LifeCalls = Calls(n) /\ B!LifeCalls' = Calls(n + 1)
      BY <2>1, <3>3
    <3> HIDE DEF n, S
    <3>5. B!Life!CallBegins("ssh")
      BY <2>1, <3>2, <3>3, <3>4, SameCardinality, SMT
         DEF B!Life!CallBegins, B!Life!Running, Calls
    <3>6. QED
      BY <3>5 DEF ServesStep
  <2>4. CASE c \in S /\ S' = S \ {c}
    <3> DEFINE n == Cardinality(S)
    <3>3. n \in Nat /\ n > 0 /\ Cardinality(S') = n - 1
      BY <2>4, <2>0, ConnectedSteps DEF ServerConstants
    <3>4. B!LifeCalls = Calls(n) /\ B!LifeCalls' = Calls(n - 1)
      BY <2>1, <3>3
    <3> HIDE DEF n, S
    <3>5. B!Life!CallEnds("ssh")
      BY <2>1, <3>3, <3>4, SMT DEF B!Life!CallEnds, B!Life!Running, Calls
    <3>6. QED
      BY <3>5 DEF ServesStep
  <2>5. CASE B!Handshake(c)
    <3>1. S' = S \/ (c \in S /\ S' = S \ {c})
      BY <2>5 DEF ConnsOK, B!Handshake, B!Connected
    <3>2. QED
      BY <3>1, <2>2, <2>4
  <2>6. CASE B!Return(c)
    <3>1. c \in S /\ S' = S \ {c}
      BY <2>6 DEF ConnsOK, B!Return, B!Connected
    <3>2. QED
      BY <3>1, <2>4
  <2>7. CASE B!Connect(c) \/ B!MuxEnds(c)
    <3>1. S' = S
      BY <2>7 DEF ConnsOK, B!Connect, B!MuxEnds, B!Connected
    <3>2. QED
      BY <3>1, <2>2
  <2>8. QED
    BY <1>8, <2>3, <2>5, <2>6, <2>7
<1>9. ASSUME NEW c \in Conns,
             \/ B!DiscardGlobal(c) \/ B!Deliver(c) \/ B!GlobalRequest(c)
             \/ B!Disconnect(c)
             \/ \E k \in B!Chans(c) : \/ B!ChannelStep(c, k) \/ B!Open(c, k)
                                     \/ B!Request(c, k)
      PROVE  UNCHANGED B!Life!vars
  <2>1. start' = start /\ UNCHANGED conn
    BY <1>9 DEF B!DiscardGlobal, B!Deliver, B!Queued, B!channels, B!GlobalRequest,
         B!Disconnect, B!ChannelStep, B!Open, B!Request, B!Handle,
         B!HandleChannel, B!TakeRequest, B!DeviceSession, B!ChannelEnds,
         B!listener
  <2>2. QED
    BY <2>1, <1>3, <1>4
<1>10. QED
  BY <1>5, <1>6, <1>7, <1>8, <1>9 DEF B!Next, B!ConnStep, B!Client

LEMMA ServesStutters ==
    ASSUME UNCHANGED B!vars PROVE UNCHANGED B!Life!vars
<1>1. UNCHANGED <<start, conn>>
  BY DEF B!vars
<1>2. B!LifeCalls' = B!LifeCalls /\ B!LifeSrv' = B!LifeSrv
  BY <1>1 DEF B!LifeCalls, B!LifeSrv, B!Connected, B!Goroutine
<1>3. QED
  BY <1>2 DEF B!Life!vars

\* Start, Stop and handleConnection, with all that goes on in a connection, do
\* to the process what the actions of Gateway's bastion do, or nothing.
THEOREM BastionServesInGateway ==
    ASSUME ServerConstants PROVE B!Spec => B!ServesInGateway
<1>1. TypeInv /\ [B!Next]_(B!vars) => [ServesStep]_(B!Life!vars)
  <2> SUFFICES ASSUME TypeInv, [B!Next]_(B!vars)
               PROVE  ServesStep \/ UNCHANGED B!Life!vars
    OBVIOUS
  <2>1. ConnsOK /\ ListenerOK
    BY TypeParts DEF TypeInv
  <2>2. QED
    BY <2>1, ServesNext, ServesStutters
<1>2. QED
  BY <1>1, ServerTypeInv, PTL DEF B!Spec, B!ServesInGateway, ServesStep

-----------------------------------------------------------------------------
LEMMA ServerInvAlways == ASSUME ServerConstants PROVE B!Spec => []ServerInv
<1>1. B!Init => ServerInv
  BY SMT DEF B!Init, ServerInv, ConnInv, ChanInv, B!NoPkt
<1>2. TypeInv /\ ServerInv /\ [B!Next]_(B!vars) => ServerInv'
  <2> SUFFICES ASSUME TypeInv, ServerInv, [B!Next]_(B!vars)
               PROVE  ServerInv'
    OBVIOUS
  <2>1. CASE B!Next
    BY <2>1, ServerInvStep
  <2>2. CASE UNCHANGED B!vars
    BY <2>2 DEF ServerInv, ConnInv, ChanInv, B!vars, B!Chans, B!NoPkt
  <2>3. QED
    BY <2>1, <2>2
<1>3. QED
  BY <1>1, <1>2, ServerTypeInv, PTL DEF B!Spec

\* The queue that c's mux loop waits for has something in it, and a goroutine
\* that takes it out and waits for nothing else.
Drains(c) ==
    \/ pkt[c].type = "open" /\ B!Offered(c) /= {}
    \/ /\ pkt[c].type = "request"
       /\ reqs[c][pkt[c].chan] > 0 /\ taker[c][pkt[c].chan] /= "nobody"
    \/ pkt[c].type = "global" /\ global[c] > 0

Moves(c) == conn[c] = "open" /\ (B!CanDeliver(c) \/ Drains(c) \/ B!Stalled(c))

LEMMA PacketMoves ==
    ASSUME ServerConstants, TypeInv, ServerInv, NEW c \in Conns,
           pkt[c] /= B!NoPkt
    PROVE  Moves(c)
<1>1. PktOK(c) /\ ChansOK(c) /\ GlobalOK /\ ConnInv(c)
  BY TypeParts DEF TypeInv, ServerInv
<1>2. conn[c] = "open"
  BY <1>1 DEF ConnInv
<1>3. CASE pkt[c].type = "open"
  <2>1. CASE B!Offered(c) = {}
    <3>1. B!Cardinality(B!Offered(c)) = 0
      BY <2>1, SameCardinality, FS_EmptySet
    <3>2. QED
      BY <1>2, <1>3, <3>1 DEF Moves, B!CanDeliver, ServerConstants
  <2>2. CASE B!Offered(c) /= {}
    BY <1>2, <1>3, <2>2 DEF Moves, Drains
  <2>3. QED
    BY <2>1, <2>2
<1>4. CASE pkt[c].type = "request"
  <2>1. PICK k \in B!Chans(c) : pkt[c].chan = k
    BY <1>1, <1>4 DEF PktOK, B!Packet, B!NoPkt
  <2>2. CASE reqs[c][k] < QueueCap
    BY <1>2, <1>4, <2>1, <2>2 DEF Moves, B!CanDeliver
  <2>3. CASE reqs[c][k] = QueueCap
    <3>1. CASE taker[c][k] = "nobody"
      <4>1. kind[c][k] = "session"
        BY <1>1, <1>4, <2>1, <3>1 DEF ConnInv
      <4>2. QED
        BY <1>2, <1>4, <2>1, <2>3, <3>1, <4>1 DEF Moves, B!Stalled
    <3>2. CASE taker[c][k] /= "nobody"
      BY <1>2, <1>4, <2>1, <2>3, <3>2 DEF Moves, Drains, ServerConstants
    <3>3. QED
      BY <3>1, <3>2
  <2>4. reqs[c][k] \in 0 .. QueueCap
    BY <1>1, <2>1 DEF ChansOK
  <2>5. QED
    BY <2>2, <2>3, <2>4 DEF ServerConstants
<1>5. CASE pkt[c].type = "global"
  BY <1>1, <1>2, <1>5
     DEF GlobalOK, Moves, Drains, B!CanDeliver, ServerConstants
<1>6. QED
  BY <1>1, <1>3, <1>4, <1>5 DEF PktOK, B!Packet, B!NoPkt

\* A mux loop with a packet in hand is never wedged, except by a session that
\* has stopped to receive its requests: it can put the packet where it belongs,
\* or a goroutine that waits for nothing can make room for it. (The safety part
\* of PacketsDelivered.)
THEOREM MuxNeverWedged ==
    ASSUME ServerConstants
    PROVE  B!Spec => [](\A c \in Conns : pkt[c] /= B!NoPkt => Moves(c))
<1>1. TypeInv /\ ServerInv => \A c \in Conns : pkt[c] /= B!NoPkt => Moves(c)
  BY PacketMoves
<1>2. QED
  BY <1>1, ServerTypeInv, ServerInvAlways, PTL

\* No connection waits in the backlog of a listener that is closed, or that
\* nobody accepts from. (The safety part of Accepted.)
THEOREM BacklogAccepted ==
    ASSUME ServerConstants
    PROVE  B!Spec => [](\A c \in Conns : conn[c] = "backlog" =>
                            start = "accepting" /\ listening)
<1>1. ServerInv => \A c \in Conns : conn[c] = "backlog" =>
                        start = "accepting" /\ listening
  BY DEF ServerInv, ConnInv
<1>2. QED
  BY <1>1, ServerInvAlways, PTL
=============================================================================

--------------------------- MODULE BastionServer ---------------------------
(***************************************************************************)
(* The bastion below its channels (src/internal/ssh/bastion.go): Start's   *)
(* accept loop, handleConnection with the mux loop of x/crypto/ssh under   *)
(* it, and handleChannel, one goroutine for each channel a client opens.   *)
(* What a channel does is the matter of BastionSession and DirectTcpip; of *)
(* it this module keeps who receives the channel's requests, because the   *)
(* mux loop of the whole connection waits for that receiver.               *)
(***************************************************************************)
EXTENDS Integers, FiniteSetsExt

CONSTANTS
    Conns,      \* the clients' TCP connections
    MayOpen,    \* bound: MayOpen[c][k]: the types of channel k of client c
    Talkers,    \* bound: the clients that send global requests
    QueueCap    \* capacity of the mux's queues (16 in x/crypto/ssh)

ASSUME QueueCapAssumption == QueueCap \in Nat \ {0}
ASSUME ConnsAssumption == IsFiniteSet(Conns)

VARIABLES
    start,      \* Start: "listen", "accepting", "returned"
    listening,  \* the listener is open
    conn,       \* handleConnection and the mux loop of each connection
    here,       \* here[c]: client c is still connected
    pkt,        \* the packet in the hands of c's mux loop, or NoPkt
    global,     \* global requests waiting in reqs
    st,         \* st[c][k]: channel k
    kind,       \* its type
    taker,      \* who receives its requests: "handler", "drain", "nobody"
    reqs        \* requests waiting in its queue

vars == <<start, listening, conn, here, pkt, global, st, kind, taker, reqs>>
listener == <<start, listening>>
channels == <<st, kind, taker, reqs>>

ChannelTypes == {"session", "direct-tcpip", "other"}
Chans(c) == DOMAIN MayOpen[c]
NoPkt == [type |-> "none"]

ASSUME MayOpenAssumption ==
    \A c \in Conns : \A k \in Chans(c) : MayOpen[c][k] \subseteq ChannelTypes

Packet(c) ==
    [type : {"open", "request"}, chan : Chans(c)] \cup [type : {"global"}]

TypeOK ==
    /\ start \in {"listen", "accepting", "returned"}
    /\ listening \in BOOLEAN
    /\ conn \in [Conns -> {"away", "backlog", "handshake", "open", "ending",
                           "ended"}]
    /\ here \in [Conns -> BOOLEAN]
    /\ global \in [Conns -> 0 .. QueueCap]
    /\ \A c \in Conns :
          /\ pkt[c] \in Packet(c) \cup {NoPkt}
          /\ st[c] \in [Chans(c) -> {"none", "sent", "offered", "handled",
                                     "open", "done", "refused"}]
          /\ kind[c] \in [Chans(c) -> ChannelTypes]
          /\ taker[c] \in [Chans(c) -> {"handler", "drain", "nobody"}]
          /\ reqs[c] \in [Chans(c) -> 0 .. QueueCap]

Init ==
    /\ start = "listen" /\ listening = FALSE
    /\ conn = [c \in Conns |-> "away"]
    /\ here = [c \in Conns |-> FALSE]
    /\ pkt = [c \in Conns |-> NoPkt]
    /\ global = [c \in Conns |-> 0]
    /\ st = [c \in Conns |-> [k \in Chans(c) |-> "none"]]
    /\ kind = [c \in Conns |-> [k \in Chans(c) |-> "other"]]
    /\ taker = [c \in Conns |-> [k \in Chans(c) |-> "nobody"]]
    /\ reqs = [c \in Conns |-> [k \in Chans(c) |-> 0]]

----------------------------------------------------------------------------
\* Start and Stop.

Listen ==
    /\ start = "listen"
    /\ \/ start' = "accepting" /\ listening' = TRUE
       \/ start' = "returned" /\ UNCHANGED listening
    /\ UNCHANGED <<conn, here, pkt, global, channels>>

\* The connection handled by the accept loop itself, without a goroutine.
AcceptInTurn(c) ==
    /\ start = "accepting" /\ conn[c] = "backlog"
    /\ \A d \in Conns : conn[d] \in {"away", "backlog", "ended"}
    /\ conn' = [conn EXCEPT ![c] = "handshake"]
    /\ UNCHANGED <<listener, here, pkt, global, channels>>

Accept(c) ==
    /\ start = "accepting" /\ listening /\ conn[c] = "backlog"
    /\ conn' = [conn EXCEPT ![c] = "handshake"]
    /\ UNCHANGED <<listener, here, pkt, global, channels>>

\* The loop that a failed Accept ends.
AcceptFailsReturns ==
    /\ start = "accepting"
    /\ start' = "returned"
    /\ UNCHANGED <<listening, conn, here, pkt, global, channels>>

\* Accept fails for good once the listener is closed, and now and then before
\* (no file descriptor left, say): the loop logs the error and goes round again.
AcceptFails == start = "accepting" /\ UNCHANGED vars

\* Stop closes the listener, and with it the connections nobody has accepted.
Stop ==
    /\ listening
    /\ listening' = FALSE
    /\ conn' = [c \in Conns |->
                 IF conn[c] = "backlog" THEN "ended" ELSE conn[c]]
    /\ here' = [c \in Conns |-> here[c] /\ conn[c] /= "backlog"]
    /\ UNCHANGED <<start, pkt, global, channels>>

----------------------------------------------------------------------------
\* handleConnection.

\* NewServerConn waits for the client without a time-out; it fails when the
\* client gives up or is refused.
Handshake(c) ==
    /\ conn[c] = "handshake"
    /\ \/ /\ here[c]
          /\ conn' = [conn EXCEPT ![c] = "open"]
          /\ UNCHANGED here
       \/ /\ conn' = [conn EXCEPT ![c] = "ended"]
          /\ here' = [here EXCEPT ![c] = FALSE]
    /\ UNCHANGED <<listener, pkt, global, channels>>

\* go ssh.DiscardRequests(reqs).
DiscardGlobal(c) ==
    /\ global[c] > 0
    /\ global' = [global EXCEPT ![c] = @ - 1]
    /\ UNCHANGED <<listener, conn, here, pkt, channels>>

Offered(c) == {k \in Chans(c) : st[c][k] = "offered"}

\* The channel handled by the range loop itself, without a goroutine.
HandleInTurn(c, k) ==
    /\ st[c][k] = "offered" /\ conn[c] /= "ended"
    /\ \A j \in Chans(c) : st[c][j] \notin {"handled", "open"}
    /\ st' = [st EXCEPT ![c][k] = "handled"]
    /\ UNCHANGED <<listener, conn, here, pkt, global, kind, taker, reqs>>

\* for newChannel := range chans { go bs.handleChannel(...) }. The range loop
\* empties the queue as fast as it can, so that the order does not matter.
Handle(c, k) ==
    /\ st[c][k] = "offered" /\ conn[c] /= "ended"
    /\ st' = [st EXCEPT ![c][k] = "handled"]
    /\ UNCHANGED <<listener, conn, here, pkt, global, kind, taker, reqs>>

\* The handler that waits for its channels before it returns.
ReturnAfterAll(c) ==
    /\ conn[c] = "ending"
    /\ \A k \in Chans(c) : st[c][k] \in {"none", "sent", "done", "refused"}
    /\ conn' = [conn EXCEPT ![c] = "ended"]
    /\ UNCHANGED <<listener, here, pkt, global, channels>>

\* chans is closed and empty; the deferred Close.
Return(c) ==
    /\ conn[c] = "ending" /\ Offered(c) = {}
    /\ conn' = [conn EXCEPT ![c] = "ended"]
    /\ UNCHANGED <<listener, here, pkt, global, channels>>

----------------------------------------------------------------------------
\* The mux loop: one packet at a time, each into the queue it is for.

CanDeliver(c) ==
    \/ pkt[c].type = "open" /\ Cardinality(Offered(c)) < QueueCap
    \/ pkt[c].type = "request" /\ reqs[c][pkt[c].chan] < QueueCap
    \/ pkt[c].type = "global" /\ global[c] < QueueCap

\* What becomes of the channel a request is for.
Queued(c, k) ==
    /\ reqs' = [reqs EXCEPT ![c][k] = @ + 1]
    /\ UNCHANGED <<st, kind, taker>>

Deliver(c) ==
    /\ conn[c] = "open" /\ CanDeliver(c)
    /\ pkt' = [pkt EXCEPT ![c] = NoPkt]
    /\ \/ /\ pkt[c].type = "open"
          /\ st' = [st EXCEPT ![c][pkt[c].chan] = "offered"]
          /\ UNCHANGED <<global, kind, taker, reqs>>
       \/ /\ pkt[c].type = "request"
          /\ Queued(c, pkt[c].chan)
          /\ UNCHANGED global
       \/ /\ pkt[c].type = "global"
          /\ global' = [global EXCEPT ![c] = @ + 1]
          /\ UNCHANGED channels
    /\ UNCHANGED <<listener, conn, here>>

\* The end of the connection is noticed by the loop's next read.
MuxEnds(c) ==
    /\ conn[c] = "open" /\ ~here[c] /\ pkt[c] = NoPkt
    /\ conn' = [conn EXCEPT ![c] = "ending"]
    /\ UNCHANGED <<listener, here, pkt, global, channels>>

----------------------------------------------------------------------------
\* handleChannel.

\* Accept, after which the session's handler receives the requests.
SessionStarts(c, k) ==
    /\ kind[c][k] = "session"
    /\ st' = [st EXCEPT ![c][k] = "open"]
    /\ taker' = [taker EXCEPT ![c][k] = "handler"]

\* Accept without go ssh.DiscardRequests.
ForwardUndrained(c, k) ==
    /\ kind[c][k] = "direct-tcpip"
    /\ st' = [st EXCEPT ![c][k] = "open"]
    /\ UNCHANGED taker

\* Accept and go ssh.DiscardRequests.
ForwardStarts(c, k) ==
    /\ kind[c][k] = "direct-tcpip"
    /\ st' = [st EXCEPT ![c][k] = "open"]
    /\ taker' = [taker EXCEPT ![c][k] = "drain"]

\* Reject; or no Accept, of bad data or of a client that is gone.
NotAccepted(c, k) ==
    /\ kind[c][k] /= "session" \/ ~here[c]
    /\ st' = [st EXCEPT ![c][k] = "refused"]
    /\ UNCHANGED taker

HandleChannel(c, k) ==
    /\ st[c][k] = "handled"
    /\ SessionStarts(c, k) \/ ForwardStarts(c, k) \/ NotAccepted(c, k)
    /\ UNCHANGED <<listener, conn, here, pkt, global, kind, reqs>>

\* Requests that somebody receives. The session's handler receives no more of
\* them after shell or exec, and returns at once if exec names no device; a
\* goroutine that drains them stops for nothing but their end.
TakeRequest(c, k) ==
    /\ reqs[c][k] > 0 /\ taker[c][k] /= "nobody"
    /\ reqs' = [reqs EXCEPT ![c][k] = @ - 1]
    /\ \/ UNCHANGED <<st, taker>>
       \/ /\ taker[c][k] = "handler"
          /\ taker' = [taker EXCEPT ![c][k] = "nobody"]
          /\ UNCHANGED st \/ st' = [st EXCEPT ![c][k] = "done"]
    /\ UNCHANGED <<listener, conn, here, pkt, global, kind>>

\* The first device session brings the goroutine that passes window changes on.
DeviceSession(c, k) ==
    /\ st[c][k] = "open" /\ taker[c][k] = "nobody"
    /\ taker' = [taker EXCEPT ![c][k] = "drain"]
    /\ UNCHANGED <<listener, conn, here, pkt, global, st, kind, reqs>>

\* The channel's handler returns: a shell, a command or a forward has ended, or
\* the requests have, with the client's close of the channel or the mux loop.
ChannelEnds(c, k) ==
    /\ st[c][k] = "open"
    /\ taker[c][k] = "handler" =>
          reqs[c][k] = 0 /\ pkt[c] /= [type |-> "request", chan |-> k]
    /\ st' = [st EXCEPT ![c][k] = "done"]
    /\ taker' = IF taker[c][k] = "handler"
                THEN [taker EXCEPT ![c][k] = "nobody"] ELSE taker
    /\ UNCHANGED <<listener, conn, here, pkt, global, kind, reqs>>

----------------------------------------------------------------------------
\* The clients.

Connect(c) ==
    /\ listening /\ conn[c] = "away"
    /\ conn' = [conn EXCEPT ![c] = "backlog"]
    /\ here' = [here EXCEPT ![c] = TRUE]
    /\ UNCHANGED <<listener, pkt, global, channels>>

Open(c, k) ==
    /\ conn[c] = "open" /\ here[c] /\ pkt[c] = NoPkt /\ st[c][k] = "none"
    /\ pkt' = [pkt EXCEPT ![c] = [type |-> "open", chan |-> k]]
    /\ st' = [st EXCEPT ![c][k] = "sent"]
    /\ \E t \in MayOpen[c][k] : kind' = [kind EXCEPT ![c][k] = t]
    /\ UNCHANGED <<listener, conn, here, global, taker, reqs>>

\* A request for a channel that has been accepted, even when its handler has
\* returned since.
Request(c, k) ==
    /\ conn[c] = "open" /\ here[c] /\ pkt[c] = NoPkt
    /\ st[c][k] \in {"open", "done"}
    /\ pkt' = [pkt EXCEPT ![c] = [type |-> "request", chan |-> k]]
    /\ UNCHANGED <<listener, conn, here, global, channels>>

GlobalRequest(c) ==
    /\ conn[c] = "open" /\ here[c] /\ pkt[c] = NoPkt /\ c \in Talkers
    /\ pkt' = [pkt EXCEPT ![c] = [type |-> "global"]]
    /\ UNCHANGED <<listener, conn, here, global, channels>>

Disconnect(c) ==
    /\ here[c]
    /\ here' = [here EXCEPT ![c] = FALSE]
    /\ UNCHANGED <<listener, conn, pkt, global, channels>>

----------------------------------------------------------------------------
ConnStep(c) ==
    Accept(c) \/ Handshake(c) \/ DiscardGlobal(c) \/ Return(c) \/ Deliver(c)
        \/ MuxEnds(c)
ChannelStep(c, k) ==
    Handle(c, k) \/ HandleChannel(c, k) \/ TakeRequest(c, k)
        \/ DeviceSession(c, k) \/ ChannelEnds(c, k)
Client(c) ==
    \/ Connect(c) \/ GlobalRequest(c) \/ Disconnect(c)
    \/ \E k \in Chans(c) : Open(c, k) \/ Request(c, k)

Next ==
    \/ Listen \/ AcceptFails \/ Stop
    \/ \E c \in Conns :
          \/ ConnStep(c) \/ Client(c)
          \/ \E k \in Chans(c) : ChannelStep(c, k)

Spec == Init /\ [][Next]_vars

\* Goroutines run when they can, and Accept, which is tried again whenever it
\* fails, succeeds in the end. A client need not do anything, its handshake ends
\* only when it has left, and no session or forward has to end.
FairSpec ==
    /\ Spec
    /\ WF_vars(Listen)
    /\ \A c \in Conns :
          /\ WF_vars(Accept(c))
          /\ WF_vars(~here[c] /\ Handshake(c))
          /\ WF_vars(DiscardGlobal(c)) /\ WF_vars(Return(c))
          /\ WF_vars(Deliver(c)) /\ WF_vars(MuxEnds(c))
          /\ \A k \in Chans(c) :
                /\ WF_vars(Handle(c, k)) /\ WF_vars(HandleChannel(c, k))
                /\ WF_vars(TakeRequest(c, k))

----------------------------------------------------------------------------
\* Properties.

\* The mux loop is held up by a session whose requests nobody receives.
Stalled(c) ==
    /\ pkt[c].type = "request"
    /\ LET k == pkt[c].chan IN
       /\ kind[c][k] = "session" /\ taker[c][k] = "nobody"
       /\ reqs[c][k] = QueueCap

\* A connection is taken up however many others are in the middle of a
\* handshake, silent or stalled, unless the listener is closed.
Accepted == \A c \in Conns : (conn[c] = "backlog") ~> (conn[c] /= "backlog")

\* A channel is answered whatever the other channels of its connection do.
ChannelsServed ==
    \A c \in Conns : \A k \in Chans(c) :
        (st[c][k] = "offered") ~> (st[c][k] \in {"open", "done", "refused"})

\* Nothing but a session that has stopped to receive its requests, and whose
\* queue is full, holds up the packets of a connection.
PacketsDelivered ==
    \A c \in Conns : (pkt[c] /= NoPkt) ~> (pkt[c] = NoPkt \/ Stalled(c))

\* handleConnection returns after the client has left, whether or not its
\* channels' handlers have, unless a session stalls the mux loop.
DisconnectEnds ==
    \A c \in Conns :
        (conn[c] /= "away" /\ ~here[c]) ~> (conn[c] = "ended" \/ Stalled(c))

----------------------------------------------------------------------------
\* The place of the bastion in the process.

\* Of the process this module is the goroutine of one server, after the go
\* statements of main and before its exit; a call is a connection that
\* handleConnection has in hand.
Goroutine == [listen |-> "starting", accepting |-> "serving",
              returned |-> "failed"]
Connected == {c \in Conns : conn[c] \in {"handshake", "open", "ending"}}

LifeSrv ==
    [grpc |-> "starting", gnmi |-> "starting", ssh |-> Goroutine[start]]
LifeCalls == [grpc |-> 0, gnmi |-> 0, ssh |-> Cardinality(Connected)]

Life == INSTANCE Gateway WITH
    ErrCap <- 3, MaxCalls <- Cardinality(Conns), main <- "wait",
    srv <- LifeSrv, errChan <- 0, shutdown <- 0, code <- "none",
    calls <- LifeCalls, asked <- FALSE

\* The bastion does for the process what the model of the process takes it to
\* do: Start returns only while it starts, and a failed Accept is no reason to;
\* connections begin only when it serves, one at a time, and end, also after
\* Stop, one at a time.
ServesInGateway ==
    [][Life!Listen("ssh") \/ Life!Fails("ssh") \/ Life!CallBegins("ssh")
          \/ Life!CallEnds("ssh")]_(Life!vars)
=============================================================================

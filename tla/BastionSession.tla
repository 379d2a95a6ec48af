--------------------------- MODULE BastionSession ---------------------------
(***************************************************************************)
(* One session channel of the bastion (src/internal/ssh/bastion.go,        *)
(* handleSession and everything it calls), together with the three kinds   *)
(* of goroutine that share the channel with it:                            *)
(*   - the connection's mux loop (golang.org/x/crypto/ssh), which hands    *)
(*     the client's packets over in order and blocks when the channel's    *)
(*     request queue is full;                                              *)
(*   - per device session, the goroutine that forwards window-change       *)
(*     requests, which only ends when the client closes the channel;       *)
(*   - per device session, the copier from the channel to the device's     *)
(*     stdin that session.Stdin = clientChannel starts and that Wait does  *)
(*     not wait for.                                                       *)
(* A line of client input is the unit of data.  What is typed and what is  *)
(* shown is abstracted to what decides the control flow.                   *)
(***************************************************************************)
EXTENDS Naturals, Sequences

Reqs  == {"pty", "shell", "exec", "win", "other"}
Lines == {"ssh", "word", "exit", "intr"}    \* intr is a line cut by Ctrl-C
Kinds == Reqs \cup Lines \cup {"eof", "close"}

CONSTANTS
    ReqCap,     \* capacity of the channel's request queue (16 in x/crypto)
    WireCap,    \* bound: packets of the client on their way
    Budgets,    \* bound: a client keeps within one of these numbers of packets
                \* of each kind
    MaxDials    \* bound: device connections made

ASSUME ReqCapAssumption == ReqCap \in Nat \ {0}
ASSUME WireCapAssumption == WireCap \in Nat \ {0}
ASSUME BudgetsAssumption == Budgets \subseteq [Kinds -> Nat]
ASSUME MaxDialsAssumption == MaxDials \in Nat

\* Device sessions: each takes an exec request or an ssh line.
Dials == 1 .. MaxDials

VARIABLES
    \* the client
    sent,       \* packets sent so far, by kind
    size,       \* terminal size last announced; each announcement is new
    wire,       \* packets on their way to the mux loop
    \* the channel, filled by the mux loop
    requests,   \* channel requests not yet received
    pending,    \* lines not yet read
    inEof,      \* the client's EOF has been delivered
    inClosed,   \* the client's close has been delivered
    \* handleSession
    pc,         \* where it is
    mode,       \* "shell" or "exec" once one of them was requested
    term,       \* termInfo: size of the last pty-req, 0 for the defaults
    cur,        \* number of device connections made so far
    execReplied,
    \* per device session
    dev,        \* the device's side: connection, PTY size, input received
    win,        \* the window-change goroutine
    cop,        \* the stdin copier
    \* ghosts
    winRefused, \* a window-change was refused before shell or exec
    lost        \* lines a copier took after its device had gone

clientVars == <<sent, size, wire>>
channelVars == <<requests, pending, inEof, inClosed>>
handlerVars == <<pc, mode, term, cur, execReplied>>
deviceVars == <<dev, win, cop>>
ghostVars == <<winRefused, lost>>
vars == <<clientVars, channelVars, handlerVars, deviceVars, ghostVars>>

Packets == [k : Kinds, sz : Nat]

Devices ==
    [st : {"none", "open", "exited", "closed"}, sz : Nat, got : Nat,
     eof : BOOLEAN]

Pcs == {"requests", "prompt", "username", "password", "dial", "pty", "start",
        "wait", "done"}

TypeOK ==
    /\ sent \in [Kinds -> Nat]
    /\ size \in Nat
    /\ wire \in Seq(Packets)
    /\ requests \in Seq([k : Reqs, sz : Nat])
    /\ pending \in Seq(Lines)
    /\ inEof \in BOOLEAN /\ inClosed \in BOOLEAN
    /\ pc \in Pcs
    /\ mode \in {"none", "shell", "exec"}
    /\ term \in Nat
    /\ cur \in {0} \cup Dials
    /\ execReplied \in BOOLEAN
    /\ dev \in [Dials -> Devices]
    /\ win \in [Dials -> {"none", "run", "ended"}]
    /\ cop \in [Dials -> {"none", "reading", "draining", "ended"}]
    /\ winRefused \in BOOLEAN
    /\ lost \in Nat

Init ==
    /\ sent = [k \in Kinds |-> 0]
    /\ size = 0
    /\ wire = <<>>
    /\ requests = <<>> /\ pending = <<>>
    /\ inEof = FALSE /\ inClosed = FALSE
    /\ pc = "requests" /\ mode = "none"
    /\ term = 0 /\ cur = 0
    /\ execReplied = FALSE
    /\ dev = [s \in Dials |-> [st |-> "none", sz |-> 0, got |-> 0,
                               eof |-> FALSE]]
    /\ win = [s \in Dials |-> "none"]
    /\ cop = [s \in Dials |-> "none"]
    /\ winRefused = FALSE
    /\ lost = 0

----------------------------------------------------------------------------
\* The client. It asks for a terminal before it asks for shell or exec, and
\* for one of the two only (RFC 4254); after its EOF it sends no more lines,
\* after its close nothing.

Send(k) ==
    /\ sent["close"] = 0
    /\ k \in {"pty", "shell", "exec"} => sent["shell"] + sent["exec"] = 0
    /\ k \in Lines \cup {"eof"} => sent["eof"] = 0
    /\ k = "close" \/ Len(wire) < WireCap
    /\ sent' = [sent EXCEPT ![k] = @ + 1]
    /\ \/ \E budget \in Budgets : \A j \in Kinds : sent'[j] <= budget[j]
       \/ k = "close" /\ pc = "done"       \* the answer to the server's close
    /\ size' = IF k \in {"pty", "win"} THEN size + 1 ELSE size
    /\ wire' = Append(wire, [k |-> k, sz |-> size'])
    /\ UNCHANGED <<channelVars, handlerVars, deviceVars, ghostVars>>

----------------------------------------------------------------------------
\* The mux loop: one packet at a time, in order. A request waits for a free
\* slot of the queue, and everything behind it waits too.

Deliver ==
    /\ wire /= <<>>
    /\ wire' = Tail(wire)
    /\ UNCHANGED <<sent, size, handlerVars, deviceVars, ghostVars>>

MuxRequest ==
    /\ wire /= <<>> /\ Head(wire).k \in Reqs
    /\ Len(requests) < ReqCap
    /\ requests' = Append(requests, Head(wire))
    /\ Deliver
    /\ UNCHANGED <<pending, inEof, inClosed>>

MuxLine ==
    /\ wire /= <<>> /\ Head(wire).k \in Lines
    /\ pending' = Append(pending, Head(wire).k)
    /\ Deliver
    /\ UNCHANGED <<requests, inEof, inClosed>>

MuxEof ==
    /\ wire /= <<>> /\ Head(wire).k = "eof"
    /\ inEof' = TRUE
    /\ Deliver
    /\ UNCHANGED <<requests, pending, inClosed>>

MuxClose ==
    /\ wire /= <<>> /\ Head(wire).k = "close"
    /\ inClosed' = TRUE
    /\ Deliver
    /\ UNCHANGED <<requests, pending, inEof>>

Mux == MuxRequest \/ MuxLine \/ MuxEof \/ MuxClose

----------------------------------------------------------------------------
\* handleSession: the request loop before shell or exec.

\* Takes the next request, of one of the given kinds.
TakeRequest(kinds) ==
    /\ requests /= <<>> /\ Head(requests).k \in kinds
    /\ requests' = Tail(requests)
    /\ UNCHANGED <<clientVars, pending, inEof, inClosed>>

\* The size in a pty-req or window-change payload.
Announced(r) == r.sz

HandlePty ==
    /\ pc = "requests"
    /\ TakeRequest({"pty"})
    /\ term' = Announced(Head(requests))
    /\ UNCHANGED <<pc, mode, cur, execReplied, deviceVars, ghostVars>>

HandleShell ==
    /\ pc = "requests"
    /\ TakeRequest({"shell"})
    /\ mode' = "shell"
    /\ pc' = "prompt"
    /\ UNCHANGED <<term, cur, execReplied, deviceVars, ghostVars>>

\* The command is run before the request is answered. A command that is
\* malformed or names no device is answered at once.
HandleExec ==
    /\ pc = "requests"
    /\ TakeRequest({"exec"})
    /\ mode' = "exec"
    /\ \/ pc' = "username" /\ UNCHANGED execReplied
       \/ pc' = "done" /\ execReplied' = TRUE
    /\ UNCHANGED <<term, cur, deviceVars, ghostVars>>

\* Any other request is refused, window-change included.
HandleOther ==
    /\ pc = "requests"
    /\ TakeRequest({"win", "other"})
    /\ winRefused' = (winRefused \/ Head(requests).k = "win")
    /\ UNCHANGED <<handlerVars, deviceVars, lost>>

\* A loop that leaves at the client's close what is still in the queue.
RequestsEndAtClose ==
    /\ pc = "requests" /\ inClosed
    /\ pc' = "done"
    /\ UNCHANGED <<clientVars, channelVars, mode, term, cur, execReplied,
                   deviceVars, ghostVars>>

\* The client closed the channel and the queue is drained.
RequestsEnd ==
    /\ pc = "requests"
    /\ requests = <<>> /\ inClosed
    /\ pc' = "done"
    /\ UNCHANGED <<clientVars, channelVars, mode, term, cur, execReplied,
                   deviceVars, ghostVars>>

----------------------------------------------------------------------------
\* The interactive shell and the credential prompts.

\* The command is over: the shell prompts again, exec answers and returns.
Back ==
    IF mode = "shell"
    THEN pc' = "prompt" /\ UNCHANGED execReplied
    ELSE pc' = "done" /\ execReplied' = TRUE

ReadLine(lines) ==
    /\ pending /= <<>> /\ Head(pending) \in lines
    /\ pending' = Tail(pending)
    /\ UNCHANGED <<clientVars, requests, inEof, inClosed, mode, term, cur,
                   deviceVars, ghostVars>>

\* channel.Read returns io.EOF: nothing buffered and nothing more to come.
ReadFails ==
    /\ pending = <<>> /\ (inEof \/ inClosed)
    /\ UNCHANGED <<clientVars, channelVars, mode, term, cur, deviceVars,
                   ghostVars>>

\* A command for a device leads to the user name prompt; list, an empty line,
\* an unknown command or device leads to the next prompt.
PromptCommand ==
    /\ pc = "prompt"
    /\ \/ ReadLine({"ssh"}) /\ pc' = "username"
       \/ ReadLine({"ssh", "word"}) /\ pc' = "prompt"
    /\ UNCHANGED execReplied

\* exit, quit, Ctrl-D, Ctrl-C or the end of the input end the shell.
PromptEnds ==
    /\ pc = "prompt"
    /\ ReadLine({"exit", "intr"}) \/ ReadFails
    /\ pc' = "done"
    /\ UNCHANGED execReplied

Credential ==
    /\ pc \in {"username", "password"}
    /\ \/ /\ ReadLine(Lines \ {"intr"})
          /\ pc' = IF pc = "username" THEN "password" ELSE "dial"
          /\ UNCHANGED execReplied
       \/ (ReadLine({"intr"}) \/ ReadFails) /\ Back

----------------------------------------------------------------------------
\* proxyToDeviceWithPty.

\* The deferred Close calls, which run on every return after Dial, and what a
\* return without them would leave behind.
LeaveDevice == UNCHANGED dev
CloseDevice == dev' = [dev EXCEPT ![cur].st = "closed"]

\* ssh.Dial and NewSession.
Dial ==
    /\ pc = "dial"
    /\ \/ /\ cur' = cur + 1
          /\ cur' \in Dials
          /\ dev' = [dev EXCEPT ![cur'].st = "open"]
          /\ pc' = "pty"
          /\ UNCHANGED execReplied
       \/ Back /\ UNCHANGED <<cur, dev>>
    /\ UNCHANGED <<clientVars, channelVars, mode, term, win, cop, ghostVars>>

\* RequestPty with termInfo, then the go statement of the window goroutine.
RequestPty ==
    /\ pc = "pty"
    /\ \/ /\ dev[cur].st = "open"
          /\ dev' = [dev EXCEPT ![cur].sz = term]
          /\ win' = [win EXCEPT ![cur] = "run"]
          /\ pc' = "start"
          /\ UNCHANGED execReplied
       \/ /\ CloseDevice
          /\ Back
          /\ UNCHANGED win
    /\ UNCHANGED <<clientVars, channelVars, mode, term, cur, cop, ghostVars>>

\* Shell starts the copiers only when the device accepts. On failure the
\* window goroutine is left behind.
StartShell ==
    /\ pc = "start"
    /\ \/ /\ dev[cur].st = "open"
          /\ cop' = [cop EXCEPT ![cur] = "reading"]
          /\ pc' = "wait"
          /\ UNCHANGED <<dev, execReplied>>
       \/ /\ CloseDevice
          /\ Back
          /\ UNCHANGED cop
    /\ UNCHANGED <<clientVars, channelVars, mode, term, cur, win, ghostVars>>

\* Wait returns once the remote shell has ended, whatever the copier does.
RemoteEndedAndCopied == dev[cur].st = "exited" /\ cop[cur] = "ended"
RemoteEnded == dev[cur].st = "exited"

\* A session that also ends with the client's input and leaves the device open.
WaitReturnsOnEof ==
    /\ pc = "wait"
    /\ RemoteEnded \/ inEof
    /\ dev' = [dev EXCEPT ![cur].st = IF @ = "exited" THEN "closed" ELSE @]
    /\ Back
    /\ UNCHANGED <<clientVars, channelVars, mode, term, cur, win, cop,
                   ghostVars>>

WaitReturns ==
    /\ pc = "wait"
    /\ RemoteEnded
    /\ CloseDevice
    /\ Back
    /\ UNCHANGED <<clientVars, channelVars, mode, term, cur, win, cop,
                   ghostVars>>

\* The device ends the session or its connection is lost.
DeviceEnds(s) ==
    /\ dev[s].st = "open"
    /\ dev' = [dev EXCEPT ![s].st = "exited"]
    /\ UNCHANGED <<clientVars, channelVars, handlerVars, win, cop, ghostVars>>

----------------------------------------------------------------------------
\* The window-change goroutine of device session s. It also takes every other
\* request that arrives, and it outlives the session.

\* WindowChange on the session; one made before the shell runs counts too.
ResizeRunning(s, r) ==
    IF r.k = "win" /\ dev[s].st = "open" /\ pc = "wait"
    THEN [dev EXCEPT ![s].sz = Announced(r)] ELSE dev
Resize(s, r) ==
    IF r.k = "win" /\ dev[s].st = "open"
    THEN [dev EXCEPT ![s].sz = Announced(r)] ELSE dev

WinTake(s) ==
    /\ win[s] = "run"
    /\ TakeRequest(Reqs)
    /\ dev' = Resize(s, Head(requests))
    /\ UNCHANGED <<handlerVars, win, cop, ghostVars>>

\* A loop that does not notice that the request channel is closed.
WinNeverEnds(s) == FALSE

WinEnds(s) ==
    /\ win[s] = "run"
    /\ requests = <<>> /\ inClosed
    /\ win' = [win EXCEPT ![s] = "ended"]
    /\ UNCHANGED <<clientVars, channelVars, handlerVars, dev, cop, ghostVars>>

----------------------------------------------------------------------------
\* The stdin copier of device session s: takes all that is buffered. Once the
\* device has gone the lines are lost; before Wait returns that happens up to
\* twice (a failed write, then a write nobody receives), after it once.

CopierTake(s) ==
    /\ cop[s] \in {"reading", "draining"}
    /\ pending /= <<>>
    /\ pending' = <<>>
    /\ IF dev[s].st = "open"
       THEN /\ dev' = [dev EXCEPT ![s].got = @ + Len(pending)]
            /\ UNCHANGED <<cop, lost>>
       ELSE /\ lost' = lost + Len(pending)
            /\ cop' = [cop EXCEPT ![s] =
                          IF @ = "reading" /\ dev[s].st = "exited"
                          THEN "draining" ELSE "ended"]
            /\ UNCHANGED dev
    /\ UNCHANGED <<clientVars, requests, inEof, inClosed, handlerVars, win,
                   winRefused>>

\* End of input: the copier ends and the device's stdin is closed.
CopierEof(s) ==
    /\ cop[s] \in {"reading", "draining"}
    /\ pending = <<>> /\ (inEof \/ inClosed)
    /\ cop' = [cop EXCEPT ![s] = "ended"]
    /\ dev' = [dev EXCEPT ![s].eof = (dev[s].st = "open")]
    /\ UNCHANGED <<clientVars, channelVars, handlerVars, win, ghostVars>>

----------------------------------------------------------------------------
Handler ==
    \/ HandlePty \/ HandleShell \/ HandleExec \/ HandleOther \/ RequestsEnd
    \/ PromptCommand \/ PromptEnds \/ Credential
    \/ Dial \/ RequestPty \/ StartShell \/ WaitReturns
Window(s) == WinTake(s) \/ WinEnds(s)
Copier(s) == CopierTake(s) \/ CopierEof(s)

Next ==
    \/ \E k \in Kinds : Send(k)
    \/ Mux
    \/ Handler
    \/ \E s \in Dials : DeviceEnds(s) \/ Window(s) \/ Copier(s)

Spec == Init /\ [][Next]_vars

\* The handler waits for an answer of a device that has not gone.
Connecting ==
    \/ pc = "dial"
    \/ pc \in {"pty", "start"} /\ dev[cur].st = "open"

\* Every goroutine runs when it can. A device whose stdin is closed ends its
\* shell; an idle device need not.
GoroutinesRun ==
    /\ WF_vars(Mux)
    /\ WF_vars(~Connecting /\ Handler)
    /\ \A s \in Dials :
          /\ WF_vars(Window(s))
          /\ WF_vars(Copier(s))
          /\ WF_vars(dev[s].eof /\ DeviceEnds(s))

\* A device that is connected to answers, refuses or is lost.
DeviceAnswers == WF_vars(Connecting /\ Handler)

FairSpec == Spec /\ GoroutinesRun /\ DeviceAnswers

----------------------------------------------------------------------------
\* Properties.

\* A device connection is open only while its session is the one in progress:
\* every return of proxyToDeviceWithPty has closed it.
DeviceReleased ==
    \A s \in Dials :
        dev[s].st \in {"open", "exited"} =>
            s = cur /\ pc \in {"pty", "start", "wait"}

\* What the user types reaches a device only while that device's session is
\* the current one and running, although copiers outlive their session:
\* nothing typed at a prompt (credentials included) ever reaches a device.
InputConfined ==
    [][\A s \in Dials :
          dev'[s].got /= dev[s].got => s = cur /\ pc = "wait"]_vars

\* Nothing typed is swallowed before a first device session has ended.
NoEarlyLoss == lost > 0 => \E s \in Dials : dev[s].st \in {"exited", "closed"}

\* Every announcement has been handed on.
Drained == requests = <<>> /\ \A i \in 1 .. Len(wire) : wire[i].k \notin Reqs

\* The PTY of session s shows the client's last size once nothing is on its
\* way, provided no window-change was refused before shell or exec.
SizeShown(s) ==
    pc = "wait" /\ cur = s /\ dev[s].st = "open" /\ Drained /\ ~winRefused
        => dev[s].sz = size

\* For the first device session of a channel this holds: what is queued while
\* the user answers the prompts is applied after the PTY request, in order.
FirstSizeShown == 1 \in Dials => SizeShown(1)

\* bastion.go:776 and 808: the PTY is requested with the client's terminal
\* size and window changes are sent to the target session, in every session.
EverySizeShown == \A s \in Dials : SizeShown(s)

\* bastion.go:420: after the device session ends, the prompt comes back, also
\* when the client sends nothing more. (It reads what it is sent: the flow
\* control of output is abstracted.)
SessionEndsWithDevice ==
    \A s \in Dials :
        (cur = s /\ pc = "wait" /\ dev[s].st = "exited") ~> (pc /= "wait")

\* The mux loop waits for a request slot that nobody will ever free.
Stuck ==
    /\ wire /= <<>> /\ Head(wire).k \in Reqs
    /\ Len(requests) = ReqCap
    /\ \A s \in Dials : win[s] /= "run"
    /\ \/ pc = "done"
       \/ pc \in {"prompt", "username", "password"} /\ pending = <<>>
            /\ ~inEof

\* Every goroutine of the channel has ended.
Clean ==
    /\ pc = "done"
    /\ \A s \in Dials : win[s] /= "run" /\ cop[s] \in {"none", "ended"}

\* Once the client has closed the channel every goroutine ends, unless the
\* mux loop is stuck behind a full request queue.
CleansUp == (sent["close"] > 0) ~> (Clean \/ Stuck)

\* bastion.go:380: exit closes the connection. An exit that is the next line
\* for a waiting prompt is followed by the end of the session.
NextLineIsExit ==
    LET typed == SelectSeq(wire, LAMBDA p : p.k \in Lines)
    IN  \/ pending /= <<>> /\ Head(pending) = "exit"
        \/ pending = <<>> /\ typed /= <<>> /\ Head(typed).k = "exit"

ExitCloses == (pc = "prompt" /\ NextLineIsExit) ~> (pc = "done")

----------------------------------------------------------------------------
\* The place of a session in its connection.

\* To the model of the bastion this module is channel 1 of an open connection
\* that has no other, from the moment its handler receives requests. The
\* packet in the hands of the mux loop is the first on its way, and who
\* receives requests is the handler in its loop, or any window goroutine.
MuxPacket ==
    IF wire /= <<>> /\ Head(wire).k \in Reqs
    THEN [type |-> "request", chan |-> 1] ELSE [type |-> "none"]
Taker ==
    IF pc = "requests" THEN "handler"
    ELSE IF \E s \in Dials : win[s] /= "none" THEN "drain" ELSE "nobody"

Server == INSTANCE BastionServer WITH
    Conns <- {"client"}, MayOpen <- [client |-> <<{"session"}>>],
    Talkers <- {}, QueueCap <- ReqCap,
    start <- "accepting", listening <- TRUE, conn <- [client |-> "open"],
    here <- [client |-> TRUE], pkt <- [client |-> MuxPacket],
    global <- [client |-> 0],
    st <- [client |-> <<IF pc = "done" THEN "done" ELSE "open">>],
    kind <- [client |-> <<"session">>], taker <- [client |-> <<Taker>>],
    reqs <- [client |-> <<Len(requests)>>]

\* A session does for the mux loop of its connection what the model of the
\* bastion takes a channel to do: requests are queued while there is room and
\* taken one at a time, by the handler until it has shell, exec or the last of
\* them, by nobody until the first window goroutine runs, by those ever after.
ServedInConnection ==
    [][\/ /\ MuxPacket.type = "request" /\ Server!CanDeliver("client")
          /\ Server!Queued("client", 1)
       \/ Server!TakeRequest("client", 1)
       \/ Server!DeviceSession("client", 1)
       \/ Server!ChannelEnds("client", 1)]_(Server!channels)
============================================================================

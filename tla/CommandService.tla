--------------------------- MODULE CommandService ---------------------------
(***************************************************************************)
(* One call of the gRPC command service (src/internal/grpc/server.go),     *)
(* ExecuteCommand or StreamCommand, down to the conversation with the      *)
(* device over SSH, Telnet or NETCONF (src/internal/proxy).  Calls share   *)
(* nothing but the immutable configuration, so one call is enough.         *)
(* The client may cancel at any time and the device may refuse, split or   *)
(* hold back what it sends, fall silent, or lose the connection.           *)
(***************************************************************************)
EXTENDS Commands

CONSTANT MaxReqs    \* bound: requests in a stream

ASSUME MaxReqsAssumption == MaxReqs \in Nat \ {0}

VARIABLES
    \* the client
    kind,       \* "unary" (ExecuteCommand) or "stream" (StreamCommand)
    asked,      \* requests sent
    clientEnd,  \* "open", "closed" (half-closed) or "cancelled", as far as
                \* the gateway has heard
    replies,    \* responses received
    \* the handler
    pc,         \* where it is
    taken,      \* requests received so far
    bound,      \* <<target>> once a request has set it
    status,     \* status of the call, once it has returned
    \* the conversation with the device, for request number taken
    at,         \* the next step of proxy.Execute...Command
    output,     \* numbers of the requests it has collected output of
    failed,     \* whether it returned an error
    expired,    \* the connection's deadline has passed (telnet)
    \* the device, as far as this connection goes
    dev,        \* its state
    toDev,      \* lines on their way to it
    toGw,       \* segments on their way to the gateway
    \* ghosts
    ran,        \* executions on devices, in the order they happened
    orphans,    \* commands delivered but not run when the gateway hung up
    late        \* requests taken after the cancellation had arrived

clientVars == <<kind, asked, clientEnd>>
handlerVars == <<replies, pc, taken, bound, status>>
talkVars == <<at, output, failed, expired>>
deviceVars == <<dev, toDev, toGw>>
ghostVars == <<ran, orphans, late>>
vars == <<clientVars, handlerVars, talkVars, deviceVars, ghostVars>>

DialSteps == {"dial", "session", "exec", "subsystem", "start"}
ReadSteps == {"prompt", "ask", "welcome"}
WriteSteps == {"user", "pass", "cmd", "hello", "rpc"}
Steps == DialSteps \cup ReadSteps \cup WriteSteps
         \cup {"run", "out", "exit", "close", "wait"}

Lines == {"user", "pass", "cmd", "hello", "rpc", "raw", "close"}
DeviceStates == {"none", "connected", "login", "password", "shell", "ssh",
                 "exit0", "exitN", "netconf", "garbled", "gone"}
Targets == {Target(r) : r \in Requests}
Runs == [req : Nat, to : Targets]

ClientType ==
    /\ kind \in {"unary", "stream"}
    /\ asked \in Seq(Requests)
    /\ clientEnd \in {"open", "closed", "cancelled"}
HandlerType ==
    /\ replies \in Seq([code : {0, 1}, out : SUBSET Nat])
    /\ pc \in {"recv", "exec", "send", "returned"}
    /\ taken \in 0 .. Len(asked)
    /\ bound \in {<<>>} \cup {<<t>> : t \in Targets}
    /\ status \in {"none", "OK", "InvalidArgument", "NotFound", "Canceled"}
TalkType ==
    /\ at \in Steps \cup {"idle"}
    /\ output \in SUBSET Nat
    /\ failed \in BOOLEAN /\ expired \in BOOLEAN
DeviceType ==
    /\ dev \in DeviceStates
    /\ toDev \in Seq(Lines) /\ toGw \in Nat
GhostType ==
    /\ ran \in Seq(Runs) /\ orphans \in SUBSET Runs
    /\ late \in Nat
TypeOK == ClientType /\ HandlerType /\ TalkType /\ DeviceType /\ GhostType

Init ==
    /\ kind \in {"unary", "stream"}
    /\ asked = <<>> /\ clientEnd = "open" /\ replies = <<>>
    /\ pc = "recv" /\ taken = 0 /\ bound = <<>> /\ status = "none"
    /\ at = "idle" /\ output = {} /\ failed = FALSE /\ expired = FALSE
    /\ dev = "none" /\ toDev = <<>> /\ toGw = 0
    /\ ran = <<>> /\ orphans = {} /\ late = 0

----------------------------------------------------------------------------
\* The client.

Ask ==
    /\ clientEnd = "open" /\ pc /= "returned"
    /\ Len(asked) < IF kind = "unary" THEN 1 ELSE MaxReqs
    /\ \E r \in Requests : asked' = Append(asked, r)
    /\ UNCHANGED <<kind, clientEnd, handlerVars, talkVars, deviceVars,
                   ghostVars>>

ClientEnds ==
    /\ pc /= "returned"
    /\ \/ clientEnd = "open" /\ clientEnd' = "closed"
       \/ clientEnd /= "cancelled" /\ clientEnd' = "cancelled"
    /\ UNCHANGED <<kind, asked, handlerVars, talkVars, deviceVars, ghostVars>>

----------------------------------------------------------------------------
\* The handler: take a request, run it, answer.

Return(code) ==
    /\ pc' = "returned" /\ status' = code
    /\ UNCHANGED <<bound, talkVars, late>>

\* A stream that follows the device each request names.
BindAnew(r) == Target(r)

\* The first request decides for the whole call.
Bind(r) == IF bound = <<>> THEN Target(r) ELSE bound[1]

\* Output collected before this request.
CarriedOver == output
NoOutput == {}

\* The switch on the protocol. StreamCommand's has no default: an unknown
\* protocol runs nothing and is answered.
Begin(t) ==
    /\ bound' = <<t>>
    /\ output' = NoOutput /\ failed' = FALSE /\ expired' = FALSE
    /\ IF t.proto \in Protos
       THEN pc' = "exec" /\ at' = "dial"
       ELSE pc' = "send" /\ UNCHANGED at
    /\ late' = IF clientEnd = "cancelled" THEN late + 1 ELSE late
    /\ UNCHANGED status

\* ExecuteCommand up to the switch, in the order of its checks.
Execute(r) ==
    \/ ~Complete(r) /\ Return("InvalidArgument")
    \/ Complete(r) /\ ~Known(r) /\ Return("NotFound")
    \/ Complete(r) /\ Known(r) /\ Target(r).proto \notin Protos
         /\ Return("InvalidArgument")
    \/ Complete(r) /\ Known(r) /\ Target(r).proto \in Protos
         /\ Begin(Target(r))

\* One round of StreamCommand's loop up to the switch.
Round(r) ==
    \/ bound = <<>> /\ ~Known(r) /\ Return("NotFound")
    \/ (bound /= <<>> \/ Known(r)) /\ Begin(Bind(r))

Take ==
    /\ pc = "recv" /\ taken < Len(asked)
    /\ taken' = taken + 1
    /\ IF kind = "unary" THEN Execute(asked[taken']) ELSE Round(asked[taken'])
    /\ UNCHANGED <<clientVars, replies, deviceVars, ran, orphans>>

\* stream.Recv reports the end or the cancellation of the stream.
StreamEnds ==
    /\ pc = "recv" /\ kind = "stream"
    /\ \/ taken = Len(asked) /\ clientEnd = "closed" /\ Return("OK")
       \/ clientEnd = "cancelled" /\ Return("Canceled")
    /\ UNCHANGED <<clientVars, replies, taken, deviceVars, ran, orphans>>

\* The exit code.
Code == IF failed THEN 1 ELSE 0

Reply == replies' = Append(replies, [code |-> Code, out |-> output])

\* A send whose error is ignored.
SendOn ==
    /\ pc = "send"
    /\ Reply
    /\ IF kind = "stream" THEN pc' = "recv" /\ UNCHANGED status
       ELSE pc' = "returned" /\ status' = "OK"
    /\ UNCHANGED <<clientVars, taken, bound, talkVars, deviceVars, ghostVars>>

\* The response of a unary call goes out with its return.
Send ==
    /\ pc = "send"
    /\ \/ kind = "unary" /\ Reply /\ pc' = "returned" /\ status' = "OK"
       \/ kind = "stream" /\ clientEnd /= "cancelled"
            /\ Reply /\ pc' = "recv" /\ UNCHANGED status
       \/ kind = "stream" /\ clientEnd = "cancelled"
            /\ pc' = "returned" /\ status' = "Canceled" /\ UNCHANGED replies
    /\ UNCHANGED <<clientVars, taken, bound, talkVars, deviceVars, ghostVars>>

----------------------------------------------------------------------------
\* proxy.ExecuteSSHCommand, ExecuteTelnetCommand, ExecuteNetconfCommand.

Proto == bound[1].proto
Execution == [req |-> taken, to |-> bound[1]]

\* Returns output and error; the deferred Close calls hang up. The device may
\* still get to a command among the lines that are on their way to it.
HangUp(out, err, lines) ==
    /\ output' = out /\ failed' = err
    /\ pc' = "send" /\ at' = "idle"
    /\ dev' = "none" /\ toDev' = <<>> /\ toGw' = 0
    /\ orphans' = orphans \cup {e \in {Execution} :
                                   \E i \in 1 .. Len(lines) :
                                      lines[i] \in {"cmd", "rpc"}}
    /\ UNCHANGED <<clientVars, replies, taken, bound, status, expired, ran,
                   late>>

Finish(out, err) == HangUp(out, err, toDev)

Goto(step) ==
    /\ at' = step
    /\ UNCHANGED <<clientVars, handlerVars, failed, expired, ghostVars>>

\* The order of the steps of each conversation, and one that sends the
\* password without the user name.
NextStepNoUser ==
    [prompt |-> "ask", user |-> "ask", ask |-> "pass", pass |-> "welcome",
     welcome |-> "cmd", cmd |-> "out",
     exec |-> "run",
     subsystem |-> "start", start |-> "hello", hello |-> "rpc",
     rpc |-> "close", close |-> "wait"]
NextStep ==
    [prompt |-> "user", user |-> "ask", ask |-> "pass", pass |-> "welcome",
     welcome |-> "cmd", cmd |-> "out",
     exec |-> "run",
     subsystem |-> "start", start |-> "hello", hello |-> "rpc",
     rpc |-> "close", close |-> "wait"]

Dial ==
    /\ at = "dial"
    /\ \/ /\ dev' = "connected"
          /\ Goto(IF Proto = "telnet" THEN "prompt" ELSE "session")
          /\ UNCHANGED <<output, toDev, toGw>>
       \/ Finish({}, TRUE)

\* NewSession, RequestSubsystem and the exec request of Run and Start wait
\* for the device's answer. One that fails may have got to the device: the
\* command of an exec request can still run.
Session ==
    /\ at = "session"
    /\ \/ /\ dev = "connected"
          /\ dev' = Proto
          /\ Goto(IF Proto = "ssh" THEN "exec" ELSE "subsystem")
          /\ UNCHANGED <<output, toDev, toGw>>
       \/ Finish({}, TRUE)

Request ==
    /\ at \in {"exec", "subsystem", "start"}
    /\ \/ /\ dev /= "gone"
          /\ toDev' = IF at = "exec" THEN <<"cmd">> ELSE toDev
          /\ Goto(NextStep[at])
          /\ UNCHANGED <<output, dev, toGw>>
       \/ Finish({}, TRUE)
       \/ at = "exec" /\ HangUp({}, TRUE, <<"cmd">>)

\* What a write puts on the wire. A NETCONF command with its own <rpc tag is
\* sent as it is, without an end-of-message mark.
Line == IF at /= "rpc" THEN at
        ELSE IF asked[taken].cmd = "unframed" THEN "raw" ELSE "rpc"

\* A write can succeed although nobody is there any more. How long one takes
\* is a matter of fairness: see Waiting.
Written ==
    /\ toDev' = IF dev = "gone" THEN toDev ELSE Append(toDev, Line)
    /\ UNCHANGED <<output, dev, toGw>>

Write ==
    /\ at \in WriteSteps
    /\ \/ ~expired /\ Written /\ Goto(NextStep[at])
       \/ (expired \/ dev = "gone") /\ Finish({}, TRUE)

\* The last writes, whose errors are ignored. What exit does to a telnet device
\* makes no difference any more.
WriteClose ==
    /\ at = "close"
    /\ Written /\ Goto("wait")

WriteExit ==
    /\ at = "exit"
    /\ Finish(output, FALSE)

\* What has arrived on this connection; it can only answer this request.
Arrived == IF toGw > 0 THEN {taken} ELSE {}

\* One conn.Read: some of what has arrived, never more than that.
ReadSome ==
    /\ ~expired /\ toGw > 0
    /\ output' = output \cup Arrived
    /\ toGw' \in 0 .. (toGw - 1)
    /\ UNCHANGED <<dev, toDev>>

Read ==
    /\ at \in ReadSteps
    /\ \/ ReadSome /\ Goto(NextStep[at])
       \/ (expired \/ dev = "gone") /\ Finish({}, TRUE)

\* The read of the command's output: a time-out is no error.
ReadOutput ==
    /\ at = "out"
    /\ \/ ReadSome /\ Goto("exit")
       \/ expired /\ Goto("exit") /\ UNCHANGED <<output, deviceVars>>
       \/ ~expired /\ dev = "gone" /\ Finish(output, TRUE)

\* What makes session.Run fail: any end but exit status 0. The first form
\* takes every end for a success.
NeverFails == FALSE
RunFailed == dev /= "exit0"

RunReturns ==
    /\ at = "run"
    /\ dev \in {"exit0", "exitN", "gone"}
    /\ Finish(Arrived, RunFailed)

\* session.Wait, whose error is ignored.
WaitReturns ==
    /\ at = "wait"
    /\ dev = "gone"
    /\ Finish(Arrived, FALSE)

\* The deadline set after the telnet dial; without one nothing ever expires.
NoDeadline == FALSE
Expire ==
    /\ pc = "exec" /\ Proto = "telnet" /\ at /= "dial"
    /\ ~expired
    /\ expired' = TRUE
    /\ UNCHANGED <<clientVars, handlerVars, at, output, failed, deviceVars,
                   ghostVars>>

----------------------------------------------------------------------------
\* The device. A telnet device asks for user name and password, takes one
\* line at a time and asks again after a wrong password; a NETCONF device
\* takes what precedes an end-of-message mark for one message.

Reactions ==
    {<<"login", l, "password", "text">> : l \in Lines}
    \cup {<<"password", l, d, "text">> : l \in Lines, d \in {"shell", "login"}}
    \cup {<<"shell", "cmd", "shell", "runs">>,
          <<"ssh", "cmd", "exit0", "runs">>, <<"ssh", "cmd", "exitN", "runs">>,
          <<"netconf", "hello", "netconf", "text">>,
          <<"netconf", "rpc", "netconf", "runs">>,
          <<"netconf", "rpc", "netconf", "text">>,      \* an rpc-error
          <<"netconf", "close", "gone", "silence">>,
          <<"netconf", "raw", "garbled", "silence">>,
          <<"garbled", "close", "netconf", "text">>}

\* A text arrives in one segment or in two.
Emit == toGw' \in {toGw + 1, toGw + 2}

DeviceGreets ==
    /\ dev = "connected" /\ Proto = "telnet"
    /\ dev' = "login"
    /\ Emit
    /\ UNCHANGED <<clientVars, handlerVars, talkVars, toDev, ghostVars>>

DeviceReacts ==
    /\ toDev /= <<>>
    /\ \E r \in Reactions :
          /\ r[1] = dev /\ r[2] = Head(toDev)
          /\ dev' = r[3]
          /\ IF r[4] = "silence" THEN UNCHANGED toGw ELSE Emit
          /\ ran' = IF r[4] = "runs" THEN Append(ran, Execution) ELSE ran
    /\ toDev' = Tail(toDev)
    /\ UNCHANGED <<clientVars, handlerVars, talkVars, orphans, late>>

DeviceGone ==
    /\ dev \notin {"none", "gone"}
    /\ dev' = "gone"
    /\ UNCHANGED <<clientVars, handlerVars, talkVars, toDev, toGw, ghostVars>>

OrphanRuns ==
    /\ \E e \in orphans :
          /\ ran' = Append(ran, e)
          /\ orphans' = orphans \ {e}
    /\ UNCHANGED <<clientVars, handlerVars, talkVars, deviceVars, late>>

----------------------------------------------------------------------------
Environment ==
    Ask \/ ClientEnds \/ DeviceGreets \/ DeviceReacts \/ DeviceGone
    \/ OrphanRuns
Conversation ==
    Write \/ WriteClose \/ WriteExit \/ Read \/ ReadOutput \/ RunReturns
    \/ WaitReturns
Paced == Dial \/ Session \/ Request
Handler == Take \/ StreamEnds \/ Send

Next == Environment \/ Handler \/ Paced \/ Conversation \/ Expire

Spec == Init /\ [][Next]_vars

\* The steps of an SSH or NETCONF conversation that need something of a device
\* which is still there and that nothing bounds: the handshake and the answers
\* to requests, the window that a NETCONF write needs, the end of the session.
Waiting ==
    /\ pc = "exec" /\ Proto /= "telnet"
    /\ dev \notin {"gone", "exit0", "exitN"}
    /\ at \in DialSteps \cup {"hello", "rpc", "close", "run", "wait"}

\* The handler runs when it can, time passes, and a conversation goes on unless
\* it waits for the device. Over telnet the dial has a time-out and the
\* deadline bounds every read and write.
FairSpec ==
    /\ Spec
    /\ WF_vars(Handler)
    /\ WF_vars((Paced \/ Conversation) /\ ~Waiting)
    /\ WF_vars(Expire)

----------------------------------------------------------------------------
\* Properties.

\* The handler and the conversations implement CommandLog: in order, at most
\* once, all in one place, whatever the device and the network do.
Log == INSTANCE CommandLog WITH log <- SubSeq(asked, 1, taken)
ImplementsLog == Log!Spec

\* A response holds no output of another command of the stream.
OutputIsOwn ==
    \A i \in 1 .. Len(replies) : replies[i].out \subseteq {i}

Executed(i) == \E j \in 1 .. Len(ran) : ran[j].req = i

\* Over SSH exit code 0 means that the device has run the command.
ZeroBySshMeansRan ==
    bound /= <<>> /\ bound[1].proto = "ssh" =>
        \A i \in 1 .. Len(replies) : replies[i].code = 0 => Executed(i)

\* However its prompts are split and whenever it sends them, the device takes
\* the password for a password and not for a user name or a command.
PasswordAtPrompt ==
    toDev /= <<>> /\ Head(toDev) = "pass" => dev \in {"password", "gone"}

\* A stream takes at most one more command after its cancellation has reached
\* the gateway.
CancelStops == kind = "stream" => late <= 1

\* Every execution comes to an end, except where the gateway waits without a
\* time-out for something of an SSH or NETCONF device that neither gives it
\* nor goes away.
CallsEnd == []<>(pc /= "exec") \/ <>[]Waiting
============================================================================

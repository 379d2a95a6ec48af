------------------------ MODULE CommandServiceProofs ------------------------
(***************************************************************************)
(* Proofs about CommandService, for any devices, any set of requests and   *)
(* streams of any length: types, the safety properties of responses and    *)
(* that the service implements CommandLog.                                 *)
(***************************************************************************)
EXTENDS CommandService, TLAPS

Commanding == {"cmd", "rpc"}    \* lines that make a device run the command

\* Steps before the command has been sent, its sending included.
Before == DialSteps \cup ReadSteps \cup WriteSteps

\* No command on its way; one at the most.
Quiet == \A i \in 1 .. Len(toDev) : toDev[i] \notin Commanding
OneCommand ==
    \A i, j \in 1 .. Len(toDev) :
        toDev[i] \in Commanding /\ toDev[j] \in Commanding => i = j

\* The handler: which request is in hand, where it goes, and that there is a
\* conversation exactly while a command is executed.
CallInv ==
    /\ pc \in {"exec", "send"} => Len(replies) = taken - 1
    /\ pc = "recv" => Len(replies) = taken
    /\ Len(replies) <= taken
    /\ pc \in {"exec", "send"} => bound /= <<>>
    /\ bound = <<>> /\ pc = "recv" => taken = 0
    /\ bound /= <<>> => /\ taken >= 1
                        /\ Known(asked[1])
                        /\ bound[1] = Target(asked[1])
    /\ kind = "unary" /\ pc = "recv" => taken = 0
    /\ pc = "exec" => /\ at \in Steps /\ bound[1].proto \in Protos
                      /\ at = "session" => bound[1].proto /= "telnet"
    /\ pc /= "exec" => at = "idle" /\ dev = "none" /\ toDev = <<>>

\* What devices have run and may still run is what has been sent, once.
RanInv ==
    /\ \A j \in 1 .. Len(ran) : ran[j].req <= taken
    /\ \A o \in orphans :
          /\ o.req \in 1 .. taken /\ ~Executed(o.req)
          /\ bound /= <<>> /\ o.to = bound[1] /\ bound[1].proto \in Protos
    /\ pc = "exec" => \A o \in orphans : o.req /= taken
    /\ pc = "exec" /\ at \in Before => Quiet /\ ~Executed(taken)
    /\ pc = "exec" => OneCommand /\ (Quiet \/ ~Executed(taken))

\* An exit status comes from a command that ran, and so does a success.
SshInv ==
    /\ dev \in {"exit0", "exitN"} => Executed(taken)
    /\ pc = "exec" /\ bound[1].proto = "ssh" =>
          at \in {"dial", "session", "exec", "run"}
    /\ pc = "send" /\ bound[1].proto = "ssh" /\ ~failed => Executed(taken)
    /\ ZeroBySshMeansRan

OutInv ==
    /\ pc \in {"exec", "send"} => output \subseteq {taken}
    /\ OutputIsOwn

----------------------------------------------------------------------------
\* The device and the steps of a conversation, in brief.

LEMMA ReactionFacts ==
    \A r \in Reactions :
        /\ r[3] \in DeviceStates \ {"none", "connected", "ssh"}
        /\ r[4] = "runs" => r[2] \in Commanding
        /\ r[3] \in {"exit0", "exitN"} => r[4] = "runs"
BY DEF Reactions, DeviceStates, Commanding

LEMMA BoundType ==
    ASSUME TypeOK, bound /= <<>>
    PROVE  bound[1] \in Targets /\ bound = <<bound[1]>>
BY DEF TypeOK, HandlerType

\* A conversation goes on: at most a line more for the device, a command only
\* with the step that leaves Before.
Advance(s) ==
    /\ Goto(s) /\ pc = "exec" /\ s \in Steps
    /\ output' \subseteq output \cup {taken}
    /\ DeviceType'
    /\ dev' \in {"exit0", "exitN"} => dev' = dev
    /\ \/ toDev' = toDev
       \/ \E l \in Lines : /\ toDev' = Append(toDev, l)
                           /\ l \in Commanding => at \in Before /\ s \notin Before
       \/ toDev' = <<"cmd">> /\ at \in Before /\ s \notin Before
    /\ at \notin Before => s \notin Before
    /\ s = "session" => bound[1].proto /= "telnet"
    /\ bound[1].proto = "ssh" /\ at \in {"dial", "session", "exec", "run"}
          => s \in {"session", "exec", "run"}

\* Or it ends, with what it has read, and over SSH without an error only after
\* exit status 0.
Ends(out, err) ==
    /\ pc = "exec"
    /\ \/ Finish(out, err)
       \/ at = "exec" /\ HangUp(out, err, <<"cmd">>)
    /\ out \subseteq output \cup {taken}
    /\ err \in BOOLEAN
    /\ bound[1].proto = "ssh" /\ at \in {"dial", "session", "exec", "run"}
       /\ ~err => dev = "exit0"

LEMMA NextStepFacts ==
    \A s \in ReadSteps \cup WriteSteps \cup {"exec", "subsystem", "start"} :
        /\ NextStep[s] \in Steps \ {"session"}
        /\ s \notin {"cmd", "rpc", "exec"} => NextStep[s] \in Before
        /\ s \in {"cmd", "rpc", "exec"} => NextStep[s] \notin Before
        /\ s = "exec" => NextStep[s] = "run"
BY DEF NextStep, Steps, DialSteps, WriteSteps, ReadSteps, Before

LEMMA LineFacts ==
    ASSUME at \in WriteSteps \cup {"close"}
    PROVE  Line \in Lines /\ (Line \in Commanding => at \in {"cmd", "rpc"})
BY DEF Line, Lines, WriteSteps, Commanding

LEMMA ReadSomeFacts ==
    ASSUME TypeOK, ReadSome
    PROVE  /\ DeviceType' /\ dev' = dev /\ toDev' = toDev
           /\ output' \subseteq output \cup {taken}
<1>1. dev' = dev /\ toDev' = toDev
  BY DEF ReadSome
<1>2. toGw' \in Nat
  BY DEF ReadSome, TypeOK, DeviceType
<1>3. output' \subseteq output \cup {taken}
  BY DEF ReadSome, Arrived
<1>4. QED
  BY <1>1, <1>2, <1>3 DEF TypeOK, DeviceType

LEMMA WrittenFacts ==
    ASSUME TypeOK, Written, at \in WriteSteps \cup {"close"}
    PROVE  /\ DeviceType' /\ dev' = dev /\ output' = output
           /\ \/ toDev' = toDev
              \/ toDev' = Append(toDev, Line)
<1>1. dev' = dev /\ output' = output /\ toGw' = toGw
  BY DEF Written
<1>2. toDev' = toDev \/ toDev' = Append(toDev, Line)
  BY DEF Written
<1>3. toDev' \in Seq(Lines)
  BY <1>2, LineFacts DEF TypeOK, DeviceType
<1>4. QED
  BY <1>1, <1>2, <1>3 DEF TypeOK, DeviceType

LEMMA FailedEnd ==
    ASSUME pc = "exec", Finish({}, TRUE)
    PROVE  Ends({}, TRUE)
BY DEF Ends

LEMMA TalkFacts ==
    ASSUME TypeOK, CallInv, Paced \/ Conversation
    PROVE  (\E s : Advance(s)) \/ (\E out, err : Ends(out, err))
<1>1. /\ pc = "exec" /\ bound[1].proto \in Protos
      /\ at = "session" => bound[1].proto /= "telnet"
  BY DEF CallInv, Paced, Conversation, Dial, Session, Request, Write,
     WriteClose, WriteExit, Read, ReadOutput, RunReturns, WaitReturns,
     WriteSteps, ReadSteps
<1>2. CASE Dial
  <2>1. ASSUME dev' = "connected",
               Goto(IF Proto = "telnet" THEN "prompt" ELSE "session"),
               UNCHANGED <<output, toDev, toGw>>
        PROVE  Advance(IF Proto = "telnet" THEN "prompt" ELSE "session")
    <3>1. DeviceType'
      BY <2>1 DEF TypeOK, DeviceType, DeviceStates
    <3>2. QED
      BY <1>1, <1>2, <2>1, <3>1 DEF Advance, Dial, Proto, Steps, DialSteps,
         ReadSteps, Before
  <2>2. QED
    BY <1>1, <1>2, <2>1, FailedEnd DEF Dial
<1>3. CASE Session
  <2>1. ASSUME dev' = Proto,
               Goto(IF Proto = "ssh" THEN "exec" ELSE "subsystem"),
               UNCHANGED <<output, toDev, toGw>>
        PROVE  Advance(IF Proto = "ssh" THEN "exec" ELSE "subsystem")
    <3>1. DeviceType'
      BY <1>1, <1>3, <2>1
         DEF Session, TypeOK, DeviceType, DeviceStates, Proto, Protos
    <3>2. QED
      BY <1>1, <1>3, <2>1, <3>1 DEF Advance, Session, Proto, Protos, Steps,
         DialSteps, Before
  <2>2. QED
    BY <1>1, <1>3, <2>1, FailedEnd DEF Session
<1>4. CASE Request
  <2>1. ASSUME toDev' = IF at = "exec" THEN <<"cmd">> ELSE toDev,
               Goto(NextStep[at]), UNCHANGED <<output, dev, toGw>>
        PROVE  Advance(NextStep[at])
    <3>1. DeviceType'
      <4>1. "cmd" \in Lines
        BY DEF Lines
      <4>2. <<"cmd">> \in Seq(Lines)
        BY <4>1
      <4>3. toDev' \in Seq(Lines)
        BY <2>1, <4>2 DEF TypeOK, DeviceType
      <4>4. QED
        BY <2>1, <4>3 DEF TypeOK, DeviceType
    <3>2. at \in Before
      BY <1>4 DEF Request, Before, DialSteps
    <3>3. NextStep[at] \in Steps \ {"session"} /\ (at = "exec" => NextStep[at] = "run")
      BY <1>4, NextStepFacts DEF Request
    <3>4. at = "exec" => NextStep[at] \notin Before
      BY NextStepFacts
    <3>5. QED
      BY <1>1, <1>4, <2>1, <3>1, <3>2, <3>3, <3>4 DEF Advance, Request
  <2>2. ASSUME at = "exec", HangUp({}, TRUE, <<"cmd">>)
        PROVE  Ends({}, TRUE)
    BY <1>1, <2>2 DEF Ends
  <2>3. QED
    BY <1>1, <1>4, <2>1, <2>2, FailedEnd DEF Request
<1>5. CASE Write
  <2>1. at \in WriteSteps /\ at \in Before
    BY <1>5 DEF Write, Before
  <2>2. at \notin {"dial", "session", "exec", "run"}
    BY <2>1 DEF WriteSteps
  <2>3. ASSUME Written, Goto(NextStep[at])
        PROVE  Advance(NextStep[at])
    <3>1. /\ NextStep[at] \in Steps \ {"session"}
          /\ at \in {"cmd", "rpc"} => NextStep[at] \notin Before
      BY <2>1, NextStepFacts
    <3>2. QED
      BY <1>1, <2>1, <2>2, <2>3, <3>1, WrittenFacts, LineFacts DEF Advance
  <2>4. QED
    BY <1>1, <1>5, <2>3, FailedEnd DEF Write
<1>6. CASE WriteClose
  <2>1. at = "close" /\ Line \in Lines /\ Line \notin Commanding
    BY <1>6, LineFacts DEF WriteClose
  <2>2. Advance("wait")
    BY <1>1, <1>6, <2>1, WrittenFacts
       DEF Advance, WriteClose, Steps, Before, DialSteps, ReadSteps, WriteSteps
  <2>3. QED
    BY <2>2
<1>7. CASE WriteExit
  BY <1>1, <1>7 DEF WriteExit, Ends
<1>8. CASE Read
  <2>1. at \in ReadSteps /\ at \in Before
    BY <1>8 DEF Read, Before
  <2>2. at \notin {"dial", "session", "exec", "run"}
    BY <2>1 DEF ReadSteps
  <2>3. ASSUME ReadSome, Goto(NextStep[at])
        PROVE  Advance(NextStep[at])
    <3>1. NextStep[at] \in Steps \ {"session"}
      BY <2>1, NextStepFacts
    <3>2. QED
      BY <1>1, <2>1, <2>2, <2>3, <3>1, ReadSomeFacts DEF Advance
  <2>4. QED
    BY <1>1, <1>8, <2>3, FailedEnd DEF Read
<1>9. CASE ReadOutput
  <2>1. at = "out" /\ "exit" \in Steps /\ "exit" \notin Before
    BY <1>9 DEF ReadOutput, Steps, Before, DialSteps, ReadSteps, WriteSteps
  <2>2. ASSUME ReadSome, Goto("exit")
        PROVE  Advance("exit")
    BY <1>1, <2>1, <2>2, ReadSomeFacts DEF Advance
  <2>3. ASSUME Goto("exit"), UNCHANGED <<output, deviceVars>>
        PROVE  Advance("exit")
    BY <1>1, <2>1, <2>3 DEF Advance, deviceVars, TypeOK, DeviceType
  <2>4. ASSUME Finish(output, TRUE)
        PROVE  Ends(output, TRUE)
    BY <1>1, <2>4 DEF Ends
  <2>5. QED
    BY <1>9, <2>2, <2>3, <2>4 DEF ReadOutput
<1>10. CASE RunReturns
  <2>1. RunFailed \in BOOLEAN /\ (~RunFailed => dev = "exit0")
    BY Zenon DEF RunFailed
  <2>2. Ends(Arrived, RunFailed)
    BY <1>1, <1>10, <2>1 DEF RunReturns, Ends, Arrived
  <2>3. QED
    BY <2>2
<1>11. CASE WaitReturns
  <2>1. Ends(Arrived, FALSE)
    BY <1>1, <1>11 DEF WaitReturns, Ends, Arrived
  <2>2. QED
    BY <2>1
<1>12. QED
  BY <1>2, <1>3, <1>4, <1>5, <1>6, <1>7, <1>8, <1>9, <1>10, <1>11
     DEF Paced, Conversation

----------------------------------------------------------------------------
\* A request is taken: the call is refused, or the request starts.

Refused ==
    /\ pc' = "returned" /\ status' \in {"InvalidArgument", "NotFound"}
    /\ UNCHANGED <<bound, talkVars, late>>

Started(t) ==
    /\ bound' = <<t>>
    /\ bound = <<>> => Known(asked[1]) /\ t = Target(asked[1])
    /\ bound /= <<>> => t = bound[1]
    /\ output' = {} /\ failed' = FALSE /\ expired' = FALSE
    /\ \/ t.proto \in Protos /\ pc' = "exec" /\ at' = "dial"
       \/ t.proto \notin Protos /\ pc' = "send" /\ at' = at
    /\ late' \in Nat /\ status' = status

LEMMA BeginFacts ==
    ASSUME TypeOK, NEW t, Begin(t),
           bound = <<>> => Known(asked[1]) /\ t = Target(asked[1]),
           bound /= <<>> => t = bound[1]
    PROVE  Started(t)
BY DEF Begin, Started, NoOutput, TypeOK, GhostType

LEMMA TakeFacts ==
    ASSUME TypeOK, CallInv, Take
    PROVE  /\ taken' = taken + 1 /\ asked[taken'] \in Requests
           /\ Refused \/ \E t \in Targets : Started(t)
<1> DEFINE r == asked[taken']
<1>1. taken' = taken + 1 /\ taken < Len(asked) /\ taken \in Nat
  BY DEF Take, TypeOK, HandlerType, ClientType
<1>2. r \in Requests
  BY <1>1 DEF TypeOK, ClientType
<1>3. Target(r) \in Targets
  BY <1>2 DEF Targets
<1>4. bound = <<>> => r = asked[1]
  BY <1>1 DEF CallInv, Take
<1>5. Refused \/ \E t \in Targets : Started(t)
  <2>1. CASE kind = "unary"
    <3>1. Execute(r) /\ bound = <<>>
      BY <1>1, <2>1 DEF Take, CallInv
    <3>2. ASSUME Known(r), Begin(Target(r))
          PROVE  Started(Target(r))
      BY <1>4, <3>1, <3>2, BeginFacts
    <3>3. QED
      BY <1>3, <3>1, <3>2 DEF Execute, Return, Refused
  <2>2. CASE kind /= "unary"
    <3>1. Round(r)
      BY <2>2 DEF Take
    <3>2. Bind(r) \in Targets
      BY <1>3, BoundType DEF Bind
    <3>3. ASSUME bound /= <<>> \/ Known(r), Begin(Bind(r))
          PROVE  Started(Bind(r))
      BY <1>4, <3>3, BeginFacts DEF Bind
    <3>4. QED
      BY <3>1, <3>2, <3>3 DEF Round, Return, Refused
  <2>3. QED
    BY <2>1, <2>2
<1>6. QED
  BY <1>1, <1>2, <1>5

----------------------------------------------------------------------------
\* Type correctness.

LEMMA InitType == Init => TypeOK
<1> SUFFICES ASSUME Init PROVE TypeOK
  OBVIOUS
<1>1. ClientType /\ HandlerType
  BY DEF Init, ClientType, HandlerType
<1>2. failed \in BOOLEAN /\ expired \in BOOLEAN
  BY Zenon DEF Init
<1>3. TalkType
  BY <1>2 DEF Init, TalkType
<1>4. DeviceType /\ GhostType
  BY DEF Init, DeviceType, DeviceStates, GhostType
<1>5. QED
  BY <1>1, <1>3, <1>4 DEF TypeOK

LEMMA ExecutionType == TypeOK /\ bound /= <<>> => Execution \in Runs
BY BoundType DEF Execution, Runs, TypeOK, HandlerType, ClientType

LEMMA AdvanceType ==
    ASSUME TypeOK, NEW s, Advance(s)
    PROVE  TypeOK'
<1>1. ClientType' /\ HandlerType' /\ GhostType'
  BY DEF Advance, Goto, TypeOK, ClientType, HandlerType, GhostType,
     clientVars, handlerVars, ghostVars
<1>2. output' \in SUBSET Nat /\ at' \in Steps
  BY DEF Advance, Goto, TypeOK, TalkType, HandlerType, ClientType
<1>3. failed' = failed /\ expired' = expired
  BY DEF Advance, Goto
<1>4. failed' \in BOOLEAN /\ expired' \in BOOLEAN
  BY Zenon, <1>3 DEF TypeOK, TalkType
<1>5. TalkType'
  BY <1>2, <1>4 DEF TalkType
<1>6. QED
  BY <1>1, <1>5 DEF TypeOK, Advance

LEMMA EndsType ==
    ASSUME TypeOK, CallInv, NEW out, NEW err, Ends(out, err)
    PROVE  TypeOK'
<1>1. ClientType' /\ HandlerType'
  BY DEF Ends, Finish, HangUp, TypeOK, ClientType, HandlerType, clientVars
<1>2. output' \in SUBSET Nat /\ at' = "idle"
  <2>1. output' = out /\ at' = "idle"
    BY DEF Ends, Finish, HangUp
  <2>2. out \subseteq output \cup {taken}
    BY DEF Ends
  <2>3. QED
    BY <2>1, <2>2 DEF TypeOK, TalkType, HandlerType, ClientType
<1>3. failed' = err /\ expired' = expired
  BY DEF Ends, Finish, HangUp
<1>4. failed' \in BOOLEAN /\ expired' \in BOOLEAN
  BY Zenon, <1>3 DEF TypeOK, TalkType, Ends
<1>5. TalkType'
  BY <1>2, <1>4 DEF TalkType
<1>6. DeviceType'
  <2>1. dev' = "none" /\ toDev' = <<>> /\ toGw' = 0
    BY DEF Ends, Finish, HangUp
  <2>2. QED
    BY <2>1 DEF DeviceType, DeviceStates
<1>7. Execution \in Runs
  BY ExecutionType DEF CallInv, Ends
<1>8. orphans' \subseteq orphans \cup {Execution}
  BY DEF Ends, Finish, HangUp
<1>9. GhostType'
  BY <1>7, <1>8 DEF Ends, Finish, HangUp, TypeOK, GhostType
<1>10. QED
  BY <1>1, <1>5, <1>6, <1>9 DEF TypeOK

LEMMA TakeType ==
    ASSUME TypeOK, CallInv, Take
    PROVE  TypeOK'
<1>1. UNCHANGED <<clientVars, replies, deviceVars, ran, orphans>>
  BY DEF Take
<1>2. ClientType' /\ DeviceType'
  BY <1>1 DEF TypeOK, ClientType, DeviceType, clientVars, deviceVars
<1>3. taken' \in 0 .. Len(asked)
  BY DEF Take, TypeOK, HandlerType, ClientType
<1>4. CASE Refused
  <2>1. HandlerType'
    BY <1>1, <1>3, <1>4 DEF Refused, TypeOK, HandlerType, clientVars
  <2>2. TalkType' /\ GhostType'
    BY <1>1, <1>4 DEF Refused, TypeOK, TalkType, GhostType, talkVars
  <2>3. QED
    BY <1>2, <2>1, <2>2 DEF TypeOK
<1>5. ASSUME NEW t \in Targets, Started(t)
      PROVE  TypeOK'
  <2>1. HandlerType'
    BY <1>1, <1>3, <1>5 DEF Started, TypeOK, HandlerType, clientVars
  <2>2. failed' \in BOOLEAN /\ expired' \in BOOLEAN
    BY Zenon, <1>5 DEF Started
  <2>3. TalkType'
    BY <1>5, <2>2
       DEF Started, TypeOK, TalkType, Steps, DialSteps
  <2>4. GhostType'
    BY <1>1, <1>5 DEF Started, TypeOK, GhostType
  <2>5. QED
    BY <1>2, <2>1, <2>3, <2>4 DEF TypeOK
<1>6. QED
  BY <1>4, <1>5, TakeFacts

LEMMA SendType ==
    ASSUME TypeOK, CallInv, Send
    PROVE  TypeOK'
<1>1. UNCHANGED <<clientVars, taken, bound, talkVars, deviceVars, ghostVars>>
  BY DEF Send
<1>2. ClientType' /\ TalkType' /\ DeviceType' /\ GhostType'
  BY <1>1 DEF TypeOK, ClientType, TalkType, DeviceType, GhostType,
     clientVars, talkVars, deviceVars, ghostVars
<1> DEFINE Replies == [code : {0, 1}, out : SUBSET Nat]
           answer == [code |-> Code, out |-> output]
<1>3. answer \in Replies
  BY DEF Code, TypeOK, TalkType
<1>4. replies' \in Seq(Replies)
  <2>1. replies \in Seq(Replies)
    BY DEF TypeOK, HandlerType
  <2>2. replies' = replies \/ replies' = Append(replies, answer)
    BY DEF Send, Reply
  <2> HIDE DEF Replies, answer
  <2>3. QED
    BY <1>3, <2>1, <2>2
<1>5. HandlerType'
  BY <1>1, <1>4 DEF Send, TypeOK, HandlerType, clientVars
<1>6. QED
  BY <1>2, <1>5 DEF TypeOK

LEMMA ReactType ==
    ASSUME TypeOK, CallInv, DeviceReacts
    PROVE  TypeOK'
<1>1. PICK r \in Reactions :
          /\ dev' = r[3]
          /\ IF r[4] = "silence" THEN UNCHANGED toGw ELSE Emit
          /\ ran' = IF r[4] = "runs" THEN Append(ran, Execution) ELSE ran
  BY DEF DeviceReacts
<1>2. DeviceType'
  BY <1>1, ReactionFacts DEF DeviceReacts, Emit, TypeOK, DeviceType
<1>3. Execution \in Runs
  BY ExecutionType DEF CallInv, DeviceReacts
<1>4. GhostType'
  BY <1>1, <1>3 DEF DeviceReacts, TypeOK, GhostType
<1>5. ClientType' /\ HandlerType' /\ TalkType'
  BY DEF DeviceReacts, TypeOK, ClientType, HandlerType, TalkType,
     clientVars, handlerVars, talkVars
<1>6. QED
  BY <1>2, <1>4, <1>5 DEF TypeOK

\* Every step keeps the types.
LEMMA StepType ==
    ASSUME TypeOK, CallInv, [Next]_vars
    PROVE  TypeOK'
<1> USE DEF TypeOK, clientVars, handlerVars, talkVars, deviceVars, ghostVars
<1>1. CASE Ask
  BY <1>1 DEF Ask, ClientType, HandlerType, TalkType, DeviceType, GhostType
<1>2. CASE ClientEnds
  BY <1>2 DEF ClientEnds, ClientType, HandlerType, TalkType, DeviceType,
     GhostType
<1>3. CASE DeviceGreets \/ DeviceGone
  <2>1. /\ UNCHANGED <<clientVars, handlerVars, talkVars, ghostVars>>
        /\ toDev' = toDev /\ dev' \in {"login", "gone"}
    BY <1>3 DEF DeviceGreets, DeviceGone
  <2>2. toGw' \in Nat
    BY <1>3 DEF DeviceGreets, DeviceGone, Emit, DeviceType
  <2>3. DeviceType'
    BY <2>1, <2>2 DEF DeviceType, DeviceStates
  <2>4. QED
    BY <2>1, <2>3 DEF ClientType, HandlerType, TalkType, GhostType
<1>4. CASE OrphanRuns
  BY <1>4 DEF OrphanRuns, ClientType, HandlerType, TalkType, DeviceType,
     GhostType
<1>5. CASE StreamEnds
  BY <1>5 DEF StreamEnds, Return, ClientType, HandlerType, TalkType,
     DeviceType, GhostType
<1>6. CASE Expire
  <2>1. expired' = TRUE /\ failed' = failed
    BY <1>6 DEF Expire
  <2>2. failed' \in BOOLEAN /\ expired' \in BOOLEAN
    BY Zenon, <2>1 DEF TalkType
  <2>3. QED
    BY <1>6, <2>2 DEF Expire, ClientType, HandlerType, TalkType, DeviceType,
       GhostType
<1>7. CASE UNCHANGED vars
  BY <1>7 DEF vars, ClientType, HandlerType, TalkType, DeviceType, GhostType
<1>8. CASE Paced \/ Conversation
  BY <1>8, TalkFacts, AdvanceType, EndsType
<1>9. QED
  BY <1>1, <1>2, <1>3, <1>4, <1>5, <1>6, <1>7, <1>8, TakeType, SendType,
     ReactType DEF Next, Environment, Handler

----------------------------------------------------------------------------
\* The handler.

LEMMA AppendFacts ==
    ASSUME NEW S, NEW q \in Seq(S), NEW e
    PROVE  /\ Len(Append(q, e)) = Len(q) + 1
           /\ Append(q, e)[Len(q) + 1] = e
           /\ \A i \in 1 .. Len(q) : Append(q, e)[i] = q[i]
OBVIOUS

\* What a reply does to the replies.
LEMMA ReplyFacts ==
    ASSUME TypeOK, Reply
    PROVE  /\ Len(replies') = Len(replies) + 1 /\ Len(replies) \in Nat
           /\ replies'[Len(replies) + 1] = [code |-> Code, out |-> output]
           /\ \A i \in 1 .. Len(replies) : replies'[i] = replies[i]
<1> DEFINE Replies == [code : {0, 1}, out : SUBSET Nat]
           answer == [code |-> Code, out |-> output]
<1>1. replies \in Seq(Replies)
  BY DEF TypeOK, HandlerType
<1>2. replies' = Append(replies, answer)
  BY DEF Reply
<1> HIDE DEF Replies, answer
<1>3. /\ Len(replies') = Len(replies) + 1 /\ Len(replies) \in Nat
      /\ replies'[Len(replies) + 1] = answer
      /\ \A i \in 1 .. Len(replies) : replies'[i] = replies[i]
  BY <1>1, <1>2, AppendFacts
<1>4. QED
  BY <1>3 DEF answer

LEMMA StepCall ==
    ASSUME TypeOK, CallInv, [Next]_vars
    PROVE  CallInv'
<1> USE DEF clientVars, handlerVars, talkVars, deviceVars, ghostVars
<1>1. CASE Ask
  <2>1. PICK r \in Requests : asked' = Append(asked, r)
    BY <1>1 DEF Ask
  <2>2. taken >= 1 => asked'[1] = asked[1]
    BY <2>1 DEF TypeOK, ClientType, HandlerType
  <2>3. QED
    BY <1>1, <2>2 DEF Ask, CallInv, Known
<1>2. CASE ClientEnds \/ DeviceGreets \/ DeviceGone \/ OrphanRuns \/ Expire
           \/ UNCHANGED vars
  BY <1>2 DEF ClientEnds, DeviceGreets, DeviceGone, OrphanRuns, Expire, vars,
     CallInv, Known
<1>3. CASE DeviceReacts
  BY <1>3 DEF DeviceReacts, CallInv, Known
<1>4. CASE StreamEnds
  BY <1>4 DEF StreamEnds, Return, CallInv, Known
<1>5. CASE Take
  <2>1. /\ UNCHANGED <<clientVars, replies, deviceVars>>
        /\ pc = "recv" /\ taken' = taken + 1 /\ taken \in Nat
    BY <1>5 DEF Take, TypeOK, HandlerType, ClientType
  <2>2. CASE Refused
    BY <2>1, <2>2 DEF Refused, CallInv, Known
  <2>3. ASSUME NEW t \in Targets, Started(t)
        PROVE  CallInv'
    BY <2>1, <2>3 DEF Started, CallInv, Known, Steps, DialSteps
  <2>4. QED
    BY <1>5, <2>2, <2>3, TakeFacts
<1>6. CASE Send
  <2>1. \/ replies' = replies /\ pc' = "returned"
        \/ /\ Len(replies') = Len(replies) + 1
           /\ pc' = "recv" => kind = "stream"
           /\ pc' \in {"recv", "returned"}
    <3>1. Reply => Len(replies') = Len(replies) + 1
      BY ReplyFacts DEF Reply
    <3>2. QED
      BY <1>6, <3>1 DEF Send
  <2>2. QED
    BY <1>6, <2>1 DEF Send, CallInv, Known, TypeOK, HandlerType, ClientType
<1>7. ASSUME NEW s, Advance(s)
      PROVE  CallInv'
  BY <1>7 DEF Advance, Goto, CallInv, Known
<1>8. ASSUME NEW out, NEW err, Ends(out, err)
      PROVE  CallInv'
  BY <1>8 DEF Ends, Finish, HangUp, CallInv, Known
<1>9. QED
  BY <1>1, <1>2, <1>3, <1>4, <1>5, <1>6, <1>7, <1>8, TalkFacts
     DEF Next, Environment, Handler, Paced, Conversation

----------------------------------------------------------------------------
\* What runs, and how often.

LEMMA TailFacts ==
    ASSUME NEW S, NEW q \in Seq(S), q /= <<>>
    PROVE  \A i \in 1 .. Len(Tail(q)) :
               i + 1 \in 1 .. Len(q) /\ Tail(q)[i] = q[i + 1]
OBVIOUS

LEMMA AdvanceQuiet ==
    ASSUME TypeOK, NEW s, Advance(s)
    PROVE  /\ Quiet /\ s \in Before => Quiet'
           /\ Quiet => OneCommand'
           /\ at \notin Before => /\ Quiet => Quiet'
                                  /\ OneCommand => OneCommand'
<1>1. CASE toDev' = toDev
  BY <1>1 DEF Quiet, OneCommand
<1>2. ASSUME NEW l \in Lines, toDev' = Append(toDev, l),
             l \in Commanding => at \in Before /\ s \notin Before
      PROVE  /\ Quiet /\ s \in Before => Quiet'
             /\ Quiet => OneCommand'
             /\ at \notin Before => /\ Quiet => Quiet'
                                    /\ OneCommand => OneCommand'
  <2>1. /\ Len(toDev') = Len(toDev) + 1 /\ Len(toDev) \in Nat
        /\ toDev'[Len(toDev) + 1] = l
        /\ \A i \in 1 .. Len(toDev) : toDev'[i] = toDev[i]
    BY <1>2, AppendFacts DEF TypeOK, DeviceType
  <2>2. \A i \in 1 .. Len(toDev') : i \in 1 .. Len(toDev) \/ i = Len(toDev) + 1
    BY <2>1
  <2>3. QED
    BY <1>2, <2>1, <2>2 DEF Quiet, OneCommand
<1>3. CASE toDev' = <<"cmd">> /\ at \in Before /\ s \notin Before
  <2>1. \A i \in 1 .. Len(toDev') : i = 1
    BY <1>3
  <2>2. QED
    BY <1>3, <2>1 DEF OneCommand
<1>4. QED
  BY <1>1, <1>2, <1>3 DEF Advance

LEMMA ReactFacts ==
    ASSUME TypeOK, CallInv, RanInv, DeviceReacts
    PROVE  /\ pc = "exec"
           /\ \/ /\ ran' = ran
                 /\ dev' \notin {"exit0", "exitN"}
              \/ /\ ran' = Append(ran, Execution)
                 /\ ~Executed(taken) /\ at \notin Before /\ Quiet'
           /\ Quiet => Quiet'
           /\ OneCommand => OneCommand'
<1>1. toDev /= <<>> /\ toDev' = Tail(toDev) /\ toDev \in Seq(Lines)
  BY DEF DeviceReacts, TypeOK, DeviceType
<1>2. pc = "exec"
  BY <1>1 DEF CallInv
<1>3. PICK r \in Reactions :
          /\ r[2] = Head(toDev) /\ dev' = r[3]
          /\ ran' = IF r[4] = "runs" THEN Append(ran, Execution) ELSE ran
  BY DEF DeviceReacts
<1>4. \A i \in 1 .. Len(toDev') : i + 1 \in 1 .. Len(toDev)
                                  /\ toDev'[i] = toDev[i + 1]
  BY <1>1, TailFacts
<1>5. Quiet => Quiet'
  BY <1>4 DEF Quiet
<1>6. OneCommand => OneCommand'
  <2>1. \A i, j \in 1 .. Len(toDev') : i + 1 = j + 1 => i = j
    OBVIOUS
  <2>2. QED
    BY <1>4, <2>1 DEF OneCommand
<1>7. CASE r[4] = "runs"
  <2>1. 1 \in 1 .. Len(toDev) /\ toDev[1] = r[2] /\ r[2] \in Commanding
    BY <1>1, <1>3, <1>7, ReactionFacts
  <2>2. ~Quiet
    BY <2>1 DEF Quiet
  <2>3. ~Executed(taken) /\ at \notin Before /\ OneCommand
    BY <1>2, <2>2 DEF RanInv
  <2>4. \A i \in 1 .. Len(toDev') : i + 1 /= 1
    OBVIOUS
  <2>5. Quiet'
    BY <1>4, <2>1, <2>3, <2>4 DEF Quiet, OneCommand
  <2>6. QED
    BY <1>2, <1>3, <1>5, <1>6, <1>7, <2>3, <2>5
<1>8. CASE r[4] /= "runs"
  BY <1>2, <1>3, <1>5, <1>6, <1>8, ReactionFacts
<1>9. QED
  BY <1>7, <1>8

\* Executed, when one more execution is recorded.
LEMMA RunMore ==
    ASSUME TypeOK, NEW e \in Runs, ran' = Append(ran, e)
    PROVE  /\ \A i : Executed(i)' <=> Executed(i) \/ i = e.req
           /\ \A j \in 1 .. Len(ran') :
                 ran'[j] = e \/ (j \in 1 .. Len(ran) /\ ran'[j] = ran[j])
<1>1. /\ Len(ran') = Len(ran) + 1 /\ Len(ran) \in Nat
      /\ ran'[Len(ran) + 1] = e
      /\ \A j \in 1 .. Len(ran) : ran'[j] = ran[j]
  BY AppendFacts DEF TypeOK, GhostType
<1>2. \A j \in 1 .. Len(ran') : j \in 1 .. Len(ran) \/ j = Len(ran) + 1
  BY <1>1
<1>3. Len(ran) + 1 \in 1 .. Len(ran') /\ 1 .. Len(ran) \subseteq 1 .. Len(ran')
  BY <1>1
<1>4. ASSUME NEW i
      PROVE  Executed(i)' <=> Executed(i) \/ i = e.req
  <2>1. Executed(i)' => Executed(i) \/ i = e.req
    BY <1>1, <1>2 DEF Executed
  <2>2. Executed(i) => Executed(i)'
    BY <1>1, <1>3 DEF Executed
  <2>3. i = e.req => Executed(i)'
    BY <1>1, <1>3 DEF Executed
  <2>4. QED
    BY <2>1, <2>2, <2>3
<1>5. \A j \in 1 .. Len(ran') :
          ran'[j] = e \/ (j \in 1 .. Len(ran) /\ ran'[j] = ran[j])
  BY <1>1, <1>2
<1>6. QED
  BY Zenon, <1>4, <1>5

LEMMA StepRan ==
    ASSUME TypeOK, CallInv, RanInv, [Next]_vars
    PROVE  RanInv'
<1> USE DEF clientVars, handlerVars, talkVars, deviceVars, ghostVars
<1>1. CASE Ask \/ ClientEnds \/ DeviceGreets \/ DeviceGone \/ Expire
           \/ StreamEnds \/ UNCHANGED vars
  <2>1. /\ UNCHANGED <<taken, bound, toDev, ran, orphans, at>>
        /\ pc' = "exec" => pc = "exec"
    BY <1>1 DEF Ask, ClientEnds, DeviceGreets, DeviceGone, Expire, StreamEnds,
       Return, vars
  <2>2. QED
    BY <2>1 DEF RanInv, Executed, Quiet, OneCommand
<1>2. CASE Send
  BY <1>2 DEF Send, RanInv, Executed
<1>3. CASE Take
  <2>1. /\ UNCHANGED <<replies, dev, toDev, toGw, ran, orphans>>
        /\ pc = "recv" /\ toDev = <<>>
        /\ taken \in Nat /\ taken' = taken + 1
    BY <1>3, TakeFacts DEF Take, CallInv, TypeOK, HandlerType, ClientType
  <2>2. \A j \in 1 .. Len(ran) : ran[j].req \in Nat /\ ran[j].req <= taken
    <3>1. \A j \in 1 .. Len(ran) : ran[j] \in Runs
      BY DEF TypeOK, GhostType
    <3>2. \A e \in Runs : e.req \in Nat
      BY DEF Runs
    <3>3. QED
      BY <3>1, <3>2 DEF RanInv
  <2>3. \A i : Executed(i)' <=> Executed(i)
    BY <2>1 DEF Executed
  <2>4. ~Executed(taken + 1) /\ Quiet' /\ OneCommand'
    BY <2>1, <2>2 DEF Executed, Quiet, OneCommand
  <2>5. CASE Refused
    BY <2>1, <2>2, <2>3, <2>5 DEF Refused, RanInv
  <2>6. ASSUME NEW t \in Targets, Started(t)
        PROVE  RanInv'
    BY <2>1, <2>2, <2>3, <2>4, <2>6 DEF Started, RanInv
  <2>7. QED
    BY <1>3, <2>5, <2>6, TakeFacts
<1>4. ASSUME NEW s, Advance(s)
      PROVE  RanInv'
  <2>1. /\ UNCHANGED <<taken, bound, pc, ran, orphans>>
        /\ at' = s /\ pc = "exec"
        /\ at \notin Before => s \notin Before
    BY <1>4 DEF Advance, Goto
  <2>2. \A i : Executed(i)' <=> Executed(i)
    BY <2>1 DEF Executed
  <2>3. OneCommand' /\ (s \in Before => Quiet') /\ (Quiet' \/ ~Executed(taken))
    BY <1>4, <2>1, AdvanceQuiet DEF RanInv
  <2>4. QED
    BY <2>1, <2>2, <2>3 DEF RanInv
<1>5. ASSUME NEW out, NEW err, Ends(out, err)
      PROVE  RanInv'
  <2>1. /\ UNCHANGED <<taken, bound, ran>>
        /\ pc = "exec" /\ pc' = "send"
    BY <1>5 DEF Ends, Finish, HangUp
  <2>2. \A i : Executed(i)' <=> Executed(i)
    BY <2>1 DEF Executed
  <2>3. \A o \in orphans' :
           o \in orphans \/ (o = Execution /\ (~Quiet \/ at = "exec"))
    BY <1>5 DEF Ends, Finish, HangUp, Quiet, Commanding
  <2>4. ~Quiet \/ at = "exec" => ~Executed(taken)
    BY <2>1 DEF RanInv, Before, DialSteps
  <2>5. taken \in Nat /\ taken >= 1 /\ bound /= <<>>
        /\ bound[1].proto \in Protos
    BY <2>1 DEF CallInv, TypeOK, HandlerType, ClientType
  <2>6. \A o \in orphans' :
          /\ o.req \in 1 .. taken /\ ~Executed(o.req)
          /\ o.to = bound[1]
    BY <2>3, <2>4, <2>5 DEF RanInv, Execution
  <2>7. QED
    BY <2>1, <2>2, <2>5, <2>6 DEF RanInv
<1>6. CASE DeviceReacts
  <2>1. UNCHANGED <<pc, taken, bound, at, orphans>> /\ pc = "exec"
    BY <1>6, ReactFacts DEF DeviceReacts
  <2>2. /\ at \in Before => Quiet'
        /\ OneCommand'
    BY <1>6, <2>1, ReactFacts DEF RanInv
  <2>3. CASE ran' = ran
    <3>1. \A i : Executed(i)' <=> Executed(i)
      BY <2>3 DEF Executed
    <3>2. Quiet' \/ ~Executed(taken)
      BY <1>6, <2>1, ReactFacts DEF RanInv
    <3>3. QED
      BY <2>1, <2>2, <2>3, <3>1, <3>2 DEF RanInv
  <2>4. CASE ran' /= ran
    <3>1. /\ ran' = Append(ran, Execution)
          /\ at \notin Before /\ Quiet'
      BY <1>6, <2>4, ReactFacts
    <3>2. Execution \in Runs /\ Execution.req = taken
      BY <2>1, ExecutionType DEF CallInv, Execution
    <3>3. \A i : Executed(i)' <=> Executed(i) \/ i = taken
      BY <3>1, <3>2, RunMore
    <3>4. \A j \in 1 .. Len(ran') : ran'[j].req <= taken
      BY <3>1, <3>2, RunMore DEF RanInv, TypeOK, HandlerType, ClientType
    <3>5. QED
      BY <2>1, <2>2, <3>1, <3>3, <3>4 DEF RanInv
  <2>5. QED
    BY <2>3, <2>4
<1>7. CASE OrphanRuns
  <2>1. UNCHANGED <<pc, taken, bound, at, toDev>>
    BY <1>7 DEF OrphanRuns
  <2>2. PICK e \in orphans : ran' = Append(ran, e) /\ orphans' = orphans \ {e}
    BY <1>7 DEF OrphanRuns
  <2>3. e \in Runs /\ e.req <= taken
    BY <2>2 DEF RanInv, TypeOK, GhostType, HandlerType, ClientType
  <2>4. \A i : Executed(i)' <=> Executed(i) \/ i = e.req
    BY <2>2, <2>3, RunMore
  <2>5. \A j \in 1 .. Len(ran') : ran'[j].req <= taken
    BY <2>2, <2>3, RunMore DEF RanInv
  <2>6. \A o \in orphans' : o.req /= e.req
    BY <2>2 DEF RanInv, TypeOK, GhostType, Runs
  <2>7. (Quiet' <=> Quiet) /\ (OneCommand' <=> OneCommand)
    BY <2>1 DEF Quiet, OneCommand
  <2>8. QED
    BY <2>1, <2>2, <2>4, <2>5, <2>6, <2>7 DEF RanInv
<1>8. QED
  BY <1>1, <1>2, <1>3, <1>4, <1>5, <1>6, <1>7, TalkFacts
     DEF Next, Environment, Handler

----------------------------------------------------------------------------
\* Responses.

\* Nothing that was executed is forgotten.
LEMMA ExecutedStays ==
    ASSUME TypeOK, CallInv, [Next]_vars
    PROVE  \A i : Executed(i) => Executed(i)'
<1> USE DEF clientVars, handlerVars, talkVars, deviceVars, ghostVars
<1>1. CASE ran' = ran
  BY <1>1 DEF Executed
<1>2. ASSUME NEW e \in Runs, ran' = Append(ran, e)
      PROVE  \A i : Executed(i) => Executed(i)'
  BY <1>2, RunMore
<1>3. CASE DeviceReacts
  <2>1. Execution \in Runs
    BY <1>3, ExecutionType DEF DeviceReacts, CallInv
  <2>2. ran' = ran \/ ran' = Append(ran, Execution)
    BY <1>3 DEF DeviceReacts
  <2>3. QED
    BY <1>1, <1>2, <2>1, <2>2
<1>4. CASE OrphanRuns
  BY <1>2, <1>4 DEF OrphanRuns, TypeOK, GhostType
<1>5. CASE Ask \/ ClientEnds \/ DeviceGreets \/ DeviceGone \/ Expire
           \/ Handler \/ UNCHANGED vars
  BY <1>1, <1>5 DEF Ask, ClientEnds, DeviceGreets, DeviceGone, Expire,
     Handler, Take, StreamEnds, Send, vars
<1>6. CASE Paced \/ Conversation
  BY <1>1, <1>6, TalkFacts DEF Advance, Goto, Ends, Finish, HangUp
<1>7. QED
  BY <1>3, <1>4, <1>5, <1>6 DEF Next, Environment

LEMMA StepOut ==
    ASSUME TypeOK, CallInv, OutInv, [Next]_vars
    PROVE  OutInv'
<1> USE DEF clientVars, handlerVars, talkVars, deviceVars, ghostVars
<1>1. CASE Ask \/ ClientEnds \/ DeviceGreets \/ DeviceGone \/ DeviceReacts
           \/ OrphanRuns \/ Expire \/ StreamEnds \/ UNCHANGED vars
  <2>1. /\ UNCHANGED <<taken, replies, output>>
        /\ pc' \in {"exec", "send"} => pc' = pc
    BY <1>1 DEF Ask, ClientEnds, DeviceGreets, DeviceGone, DeviceReacts,
       OrphanRuns, Expire, StreamEnds, Return, vars
  <2>2. QED
    BY <2>1 DEF OutInv, OutputIsOwn
<1>2. CASE Take
  <2>1. replies' = replies
    BY <1>2 DEF Take
  <2>2. pc' \in {"exec", "send"} => output' = {}
    BY <1>2, TakeFacts DEF Started, Refused
  <2>3. QED
    BY <2>1, <2>2 DEF OutInv, OutputIsOwn
<1>3. CASE Send
  <2>1. pc = "send" /\ Len(replies) + 1 = taken /\ output \subseteq {taken}
    BY <1>3 DEF Send, OutInv, CallInv, TypeOK, HandlerType, ClientType
  <2>2. pc' \notin {"exec", "send"}
    BY <1>3 DEF Send, TypeOK, ClientType
  <2>3. CASE replies' = replies
    BY <2>2, <2>3 DEF OutInv, OutputIsOwn
  <2>4. CASE Reply
    <3>1. replies'[Len(replies) + 1].out = output
      BY <2>4, ReplyFacts
    <3>2. QED
      BY <2>1, <2>2, <2>4, <3>1, ReplyFacts DEF OutInv, OutputIsOwn
  <2>5. QED
    BY <1>3, <2>3, <2>4 DEF Send
<1>4. ASSUME NEW s, Advance(s)
      PROVE  OutInv'
  BY <1>4 DEF Advance, Goto, OutInv, OutputIsOwn
<1>5. ASSUME NEW out, NEW err, Ends(out, err)
      PROVE  OutInv'
  BY <1>5 DEF Ends, Finish, HangUp, OutInv, OutputIsOwn
<1>6. QED
  BY <1>1, <1>2, <1>3, <1>4, <1>5, TalkFacts DEF Next, Environment, Handler

LEMMA StepSsh ==
    ASSUME TypeOK, CallInv, RanInv, SshInv, [Next]_vars
    PROVE  SshInv'
<1> USE DEF clientVars, handlerVars, talkVars, deviceVars, ghostVars
<1>1. \A i : Executed(i) => Executed(i)'
  BY ExecutedStays
<1>2. CASE Ask \/ ClientEnds \/ DeviceGreets \/ DeviceGone \/ OrphanRuns
           \/ Expire \/ StreamEnds \/ UNCHANGED vars
  <2>1. /\ UNCHANGED <<taken, bound, replies, at, failed>>
        /\ pc' \in {"exec", "send"} => pc' = pc
        /\ dev' \in {"exit0", "exitN"} => dev' = dev
    BY <1>2 DEF Ask, ClientEnds, DeviceGreets, DeviceGone, OrphanRuns,
       Expire, StreamEnds, Return, vars
  <2>2. QED
    BY <1>1, <2>1 DEF SshInv, ZeroBySshMeansRan
<1>3. CASE DeviceReacts
  <2>1. UNCHANGED <<taken, bound, replies, at, failed, pc>> /\ pc = "exec"
    BY <1>3, ReactFacts DEF DeviceReacts
  <2>2. dev' \in {"exit0", "exitN"} => Executed(taken)'
    <3>1. Execution \in Runs /\ Execution.req = taken
      BY <2>1, ExecutionType DEF CallInv, Execution
    <3>2. dev' \in {"exit0", "exitN"} => ran' = Append(ran, Execution)
      BY <1>3, ReactFacts
    <3>3. QED
      BY <2>1, <3>1, <3>2, RunMore
  <2>3. QED
    BY <1>1, <2>1, <2>2 DEF SshInv, ZeroBySshMeansRan
<1>4. CASE Take
  <2>1. /\ replies' = replies /\ dev' = dev /\ dev = "none"
        /\ Len(replies) = taken
    BY <1>4 DEF Take, CallInv
  <2>2. ZeroBySshMeansRan'
    <3>1. CASE bound = <<>>
      BY <1>4, <2>1, <3>1 DEF Take, CallInv, ZeroBySshMeansRan
    <3>2. CASE bound /= <<>>
      <4>1. bound'[1] = bound[1]
        <5>1. CASE Refused
          BY <5>1 DEF Refused
        <5>2. ASSUME NEW t \in Targets, Started(t)
              PROVE  bound'[1] = bound[1]
          BY <3>2, <5>2 DEF Started
        <5>3. QED
          BY <1>4, <5>1, <5>2, TakeFacts
      <4>2. QED
        BY <1>1, <2>1, <3>2, <4>1 DEF SshInv, ZeroBySshMeansRan
    <3>3. QED
      BY <3>1, <3>2
  <2>3. CASE Refused
    BY <2>1, <2>2, <2>3 DEF Refused, SshInv
  <2>4. ASSUME NEW t \in Targets, Started(t)
        PROVE  SshInv'
    BY <2>1, <2>2, <2>4 DEF Started, SshInv, Protos
  <2>5. QED
    BY <1>4, <2>3, <2>4, TakeFacts
<1>5. CASE Send
  <2>1. /\ pc = "send" /\ Len(replies) + 1 = taken
        /\ UNCHANGED <<taken, bound, dev, ran>>
        /\ pc' \notin {"exec", "send"}
    BY <1>5 DEF Send, CallInv, TypeOK, HandlerType, ClientType
  <2>2. CASE replies' = replies
    BY <1>1, <2>1, <2>2 DEF SshInv, ZeroBySshMeansRan
  <2>3. CASE Reply
    <3>1. replies'[taken].code = 0 => ~failed
      BY <2>1, <2>3, ReplyFacts DEF Code
    <3>2. \A i \in 1 .. Len(replies') : i \in 1 .. Len(replies) \/ i = taken
      BY <2>1, <2>3, ReplyFacts
    <3>3. QED
      BY <1>1, <2>1, <2>3, <3>1, <3>2, ReplyFacts DEF SshInv, ZeroBySshMeansRan
  <2>4. QED
    BY <1>5, <2>2, <2>3 DEF Send
<1>6. ASSUME NEW s, Advance(s)
      PROVE  SshInv'
  BY <1>1, <1>6 DEF Advance, Goto, SshInv, ZeroBySshMeansRan
<1>7. ASSUME NEW out, NEW err, Ends(out, err)
      PROVE  SshInv'
  BY <1>1, <1>7 DEF Ends, Finish, HangUp, SshInv, ZeroBySshMeansRan
<1>8. QED
  BY <1>2, <1>3, <1>4, <1>5, <1>6, <1>7, TalkFacts
     DEF Next, Environment, Handler

----------------------------------------------------------------------------
\* The invariant.

IInv == TypeOK /\ CallInv /\ RanInv /\ SshInv /\ OutInv

LEMMA InitInv == Init => IInv
<1> SUFFICES ASSUME Init PROVE IInv
  OBVIOUS
<1>1. CallInv /\ RanInv /\ SshInv /\ OutInv
  BY DEF Init, CallInv, RanInv, SshInv, OutInv, ZeroBySshMeansRan,
     OutputIsOwn, Executed
<1>2. QED
  BY <1>1, InitType DEF IInv

LEMMA StepInv == IInv /\ [Next]_vars => IInv'
BY StepType, StepCall, StepRan, StepSsh, StepOut DEF IInv

THEOREM Invariance == Spec => []IInv
BY InitInv, StepInv, PTL DEF Spec

\* Every value has its type at every point of every call.
THEOREM TypeCorrect == Spec => []TypeOK
BY Invariance, PTL DEF IInv

\* StreamCommand and ExecuteCommand answer each command with its own output.
THEOREM OutputNeverMixed == Spec => []OutputIsOwn
BY Invariance, PTL DEF IInv, OutInv

\* Over SSH the exit code 0 of a response means that the device has run the
\* command: session.Run returns nil only after exit status 0.
THEOREM SuccessMeansRan == Spec => []ZeroBySshMeansRan
BY Invariance, PTL DEF IInv, SshInv

----------------------------------------------------------------------------
\* CommandService implements CommandLog.

LEMMA PrefixFacts ==
    ASSUME NEW S, NEW q \in Seq(S), NEW n \in 0 .. Len(q)
    PROVE  /\ Len(SubSeq(q, 1, n)) = n
           /\ n > 0 => SubSeq(q, 1, n)[1] = q[1]
           /\ \A e \in S : SubSeq(Append(q, e), 1, n) = SubSeq(q, 1, n)
           /\ n < Len(q) =>
                 SubSeq(q, 1, n + 1) = Append(SubSeq(q, 1, n), q[n + 1])
<1>1. Len(SubSeq(q, 1, n)) = n
  OBVIOUS
<1>2. \A i \in 1 .. n : SubSeq(q, 1, n)[i] = q[i]
  OBVIOUS
<1>3. ASSUME NEW e \in S
      PROVE  SubSeq(Append(q, e), 1, n) = SubSeq(q, 1, n)
  <2> DEFINE a == SubSeq(Append(q, e), 1, n)
             b == SubSeq(q, 1, n)
  <2>1. a \in Seq(S) /\ b \in Seq(S)
    OBVIOUS
  <2>2. Len(a) = n /\ Len(b) = n
    OBVIOUS
  <2>3. \A i \in 1 .. n : a[i] = b[i]
    OBVIOUS
  <2> HIDE DEF a, b
  <2>4. a = b
    BY <2>1, <2>2, <2>3
  <2>5. QED
    BY <2>4 DEF a, b
<1>4. ASSUME n < Len(q)
      PROVE  SubSeq(q, 1, n + 1) = Append(SubSeq(q, 1, n), q[n + 1])
  <2> DEFINE a == SubSeq(q, 1, n + 1)
             b == Append(SubSeq(q, 1, n), q[n + 1])
  <2>1. a \in Seq(S) /\ b \in Seq(S)
    BY <1>4
  <2>2. Len(a) = n + 1 /\ Len(b) = n + 1
    BY <1>4
  <2>3. \A i \in 1 .. n + 1 : a[i] = b[i]
    BY <1>4
  <2> HIDE DEF a, b
  <2>4. a = b
    BY <2>1, <2>2, <2>3
  <2>5. QED
    BY <2>4 DEF a, b
<1>5. QED
  BY <1>1, <1>2, <1>3, <1>4

LEMMA InitLog == Init => Log!Init
BY DEF Init, Log!Init

\* Where executions go: the target of the first request.
LEMMA RunLog ==
    ASSUME IInv, NEW e \in Runs, e.req \in 1 .. taken, ~Executed(e.req),
           bound /= <<>>, e.to = bound[1], bound[1].proto \in Protos,
           ran' = Append(ran, e), UNCHANGED <<asked, taken, replies>>
    PROVE  Log!Next
<1> DEFINE log == SubSeq(asked, 1, taken)
<1>1. Len(log) = taken /\ log[1] = asked[1] /\ taken \in Nat
  BY PrefixFacts DEF IInv, TypeOK, ClientType, HandlerType
<1>2. log' = log
  OBVIOUS
<1>3. Known(asked[1]) /\ bound[1] = Target(asked[1])
  BY DEF IInv, CallInv
<1>4. e = [req |-> e.req, to |-> Target(asked[1])]
  BY <1>3 DEF Runs
<1>5. \A i \in 1 .. Len(ran) : ran[i].req /= e.req
  BY DEF Executed
<1>6. Log!Run
  BY <1>1, <1>2, <1>3, <1>4, <1>5
     DEF Log!Run, Log!Known, Log!Target, Log!Protos, Log!Missing, Known,
         Target, Protos, Missing
<1>7. QED
  BY <1>6 DEF Log!Next

LEMMA StepLog == IInv /\ [Next]_vars => [Log!Next]_Log!vars
<1> SUFFICES ASSUME IInv, [Next]_vars
             PROVE  [Log!Next]_Log!vars
  OBVIOUS
<1> USE DEF clientVars, handlerVars, talkVars, deviceVars, ghostVars
<1>1. asked \in Seq(Requests) /\ taken \in 0 .. Len(asked) /\ taken \in Nat
  BY DEF IInv, TypeOK, ClientType, HandlerType
<1>2. CASE Ask
  <2>1. SubSeq(asked', 1, taken) = SubSeq(asked, 1, taken)
    BY <1>1, <1>2, PrefixFacts DEF Ask
  <2>2. QED
    BY <1>2, <2>1 DEF Ask, Log!vars
<1>3. CASE UNCHANGED <<asked, taken, replies, ran>>
  BY <1>3 DEF Log!vars
<1>4. CASE Take
  <2>1. taken' = taken + 1 /\ taken < Len(asked) /\ pc = "recv"
        /\ UNCHANGED <<asked, replies, ran>> /\ asked[taken + 1] \in Requests
    BY <1>1, <1>4 DEF Take
  <2>2. SubSeq(asked, 1, taken + 1)
           = Append(SubSeq(asked, 1, taken), asked[taken + 1])
    BY <1>1, <2>1, PrefixFacts
  <2>3. Len(replies) = Len(SubSeq(asked, 1, taken))
    BY <1>1, <2>1, PrefixFacts DEF IInv, CallInv
  <2>4. Log!Take
    BY <2>1, <2>2, <2>3 DEF Log!Take
  <2>5. QED
    BY <2>4 DEF Log!Next
<1>5. CASE Send
  <2>1. UNCHANGED <<asked, taken, ran>> /\ pc = "send"
    BY <1>5 DEF Send
  <2>2. CASE replies' = replies
    BY <1>3, <2>1, <2>2
  <2>3. CASE Reply
    <3>1. Len(SubSeq(asked, 1, taken)) = taken /\ Len(replies) = taken - 1
      BY <1>1, <2>1, PrefixFacts DEF IInv, CallInv
    <3>2. Log!Answer
      BY <1>1, <2>1, <2>3, <3>1, ReplyFacts DEF Log!Answer, IInv
    <3>3. QED
      BY <3>2 DEF Log!Next
  <2>4. QED
    BY <1>5, <2>2, <2>3 DEF Send
<1>6. CASE DeviceReacts
  <2>1. UNCHANGED <<asked, taken, replies>>
    BY <1>6 DEF DeviceReacts
  <2>2. CASE ran' = ran
    BY <1>3, <2>1, <2>2
  <2>3. CASE ran' /= ran
    <3>1. /\ pc = "exec" /\ ran' = Append(ran, Execution)
          /\ ~Executed(taken)
      BY <1>6, <2>3, ReactFacts DEF IInv
    <3>2. Execution \in Runs /\ Execution.req = taken /\ Execution.to = bound[1]
      BY <3>1, ExecutionType DEF IInv, CallInv, Execution
    <3>3. /\ bound /= <<>> /\ taken \in 1 .. taken
          /\ bound[1].proto \in Protos
      BY <1>1, <3>1 DEF IInv, CallInv
    <3>4. QED
      BY <2>1, <3>1, <3>2, <3>3, RunLog
  <2>4. QED
    BY <2>2, <2>3
<1>7. CASE OrphanRuns
  <2>1. PICK e \in orphans : ran' = Append(ran, e)
    BY <1>7 DEF OrphanRuns
  <2>2. UNCHANGED <<asked, taken, replies>>
    BY <1>7 DEF OrphanRuns
  <2>3. e \in Runs
    BY DEF IInv, TypeOK, GhostType
  <2>4. QED
    BY <2>1, <2>2, <2>3, RunLog DEF IInv, RanInv
<1>8. CASE ClientEnds \/ DeviceGreets \/ DeviceGone \/ StreamEnds \/ Expire
           \/ UNCHANGED vars
  BY <1>3, <1>8 DEF ClientEnds, DeviceGreets, DeviceGone, StreamEnds, Expire,
     vars
<1>9. CASE Paced \/ Conversation
  BY <1>3, <1>9, TalkFacts DEF Advance, Goto, Ends, Finish, HangUp, IInv
<1>10. QED
  BY <1>2, <1>4, <1>5, <1>6, <1>7, <1>8, <1>9 DEF Next, Environment, Handler

\* Whatever device, network and client do, a call is a CommandLog: a command
\* runs at most once, where the first request of the call said, and answers
\* come in order.
THEOREM ImplementsCommandLog == Spec => ImplementsLog
<1>1. Spec => []IInv
  BY Invariance
<1>2. QED
  BY <1>1, InitLog, StepLog, PTL DEF Spec, ImplementsLog, Log!Spec

----------------------------------------------------------------------------
\* Cancellation: the request taken after it is the last.

CancelInv ==
    kind = "stream" =>
        /\ late <= 1
        /\ late > 0 => clientEnd = "cancelled" /\ pc /= "recv"

LEMMA StepCancel ==
    ASSUME IInv, CancelInv, [Next]_vars
    PROVE  CancelInv'
<1> USE DEF clientVars, handlerVars, talkVars, deviceVars, ghostVars
<1>1. CASE Take
  <2>1. /\ UNCHANGED <<kind, clientEnd>> /\ pc = "recv" /\ pc' /= "recv"
        /\ late' = late \/ (late' = late + 1 /\ clientEnd = "cancelled")
    BY <1>1 DEF Take, Execute, Round, Begin, Return
  <2>2. QED
    BY <2>1 DEF CancelInv, IInv, TypeOK, GhostType
<1>2. CASE Send
  BY <1>2 DEF Send, CancelInv
<1>3. CASE StreamEnds
  BY <1>3 DEF StreamEnds, Return, CancelInv
<1>4. CASE Environment \/ Expire \/ UNCHANGED vars
  BY <1>4 DEF Environment, Ask, ClientEnds, DeviceGreets, DeviceReacts,
     DeviceGone, OrphanRuns, Expire, vars, CancelInv
<1>5. CASE Paced \/ Conversation
  BY <1>5, TalkFacts DEF IInv, Advance, Goto, Ends, Finish, HangUp, CancelInv
<1>6. QED
  BY <1>1, <1>2, <1>3, <1>4, <1>5 DEF Next, Handler

\* StreamCommand notices a cancellation at the latest when it answers.
THEOREM CancellationStops == Spec => []CancelStops
<1>1. Init => CancelInv
  BY DEF Init, CancelInv
<1>2. CancelInv => CancelStops
  BY DEF CancelInv, CancelStops
<1>3. IInv /\ CancelInv /\ [Next]_vars => CancelInv'
  BY StepCancel
<1>4. QED
  BY <1>1, <1>2, <1>3, Invariance, PTL DEF Spec

----------------------------------------------------------------------------
\* The password.

NoPass == \A i \in 1 .. Len(toDev) : toDev[i] /= "pass"
NoPassBehind(k) == \A i \in 1 .. Len(toDev) : i > k => toDev[i] /= "pass"

\* As long as the device is there: it has asked for the user name when that is
\* sent, and the password is sent right behind the user name.
PassInv ==
    /\ pc /= "exec" \/ at = "dial" =>
          toDev = <<>> /\ toGw = 0 /\ dev = "none"
    /\ dev /= "gone" =>
        /\ at = "prompt" =>
              /\ toDev = <<>>
              /\ dev = "login" \/ (dev = "connected" /\ toGw = 0)
        /\ at = "user" => toDev = <<>> /\ dev = "login"
        /\ at \in {"ask", "pass"} =>
              \/ toDev = <<"user">> /\ dev = "login"
              \/ toDev = <<>> /\ dev = "password"
        /\ \/ NoPass
           \/ /\ dev = "password" /\ Len(toDev) >= 1 /\ toDev[1] = "pass"
              /\ NoPassBehind(1)
           \/ /\ dev = "login" /\ Len(toDev) >= 2
              /\ toDev[1] = "user" /\ toDev[2] = "pass"
              /\ NoPassBehind(2)

LEMMA NextStepOrder ==
    /\ \A s \in WriteSteps :
          /\ NextStep[s] \notin {"dial", "prompt", "user", "pass"}
          /\ NextStep[s] = "ask" => s = "user"
    /\ NextStep["prompt"] = "user" /\ NextStep["ask"] = "pass"
    /\ NextStep["welcome"] = "cmd"
    /\ \A s \in {"exec", "subsystem", "start"} :
          NextStep[s] \in {"run", "start", "hello"}
BY DEF NextStep, WriteSteps

\* A step that is none of the login's and leaves lines and device alone.
LEMMA KeepPass ==
    ASSUME PassInv, UNCHANGED <<toDev, dev>>, pc' = "exec",
           at' \notin {"dial", "prompt", "user", "ask", "pass"}
    PROVE  PassInv'
BY DEF PassInv, NoPass, NoPassBehind

LEMMA WritePass ==
    ASSUME TypeOK, PassInv, at \in WriteSteps \cup {"close"}, Written,
           pc = "exec", pc' = "exec",
           at' \notin {"dial", "prompt", "user", "pass"},
           at' = "ask" => at = "user"
    PROVE  PassInv'
<1>1. dev' = dev
  BY DEF Written
<1>2. CASE dev = "gone"
  BY <1>1, <1>2 DEF PassInv
<1>3. CASE dev /= "gone"
  <2>1. toDev' = Append(toDev, Line) /\ toDev \in Seq(Lines)
    BY <1>3 DEF Written, TypeOK, DeviceType
  <2>2. /\ Len(toDev') = Len(toDev) + 1 /\ Len(toDev) \in Nat
        /\ toDev'[Len(toDev) + 1] = Line
        /\ \A i \in 1 .. Len(toDev) : toDev'[i] = toDev[i]
    BY <2>1, AppendFacts
  <2>3. \A i \in 1 .. Len(toDev') : i \in 1 .. Len(toDev) \/ i = Len(toDev) + 1
    BY <2>2
  <2>4. /\ Line = "pass" => at = "pass"
        /\ at = "user" => Line = "user"
        /\ at = "pass" => Line = "pass"
    BY DEF Line
  <2>5. CASE at = "user"
    <3>1. toDev' = <<"user">> /\ dev' = "login"
      BY <1>1, <1>3, <2>1, <2>4, <2>5 DEF PassInv
    <3>2. NoPass'
      BY <3>1 DEF NoPass
    <3>3. QED
      BY <3>1, <3>2 DEF PassInv
  <2>6. CASE at = "pass"
    <3>1. CASE toDev = <<"user">> /\ dev = "login"
      <4>1. Len(toDev') = 2 /\ toDev'[1] = "user" /\ toDev'[2] = "pass"
        BY <2>1, <2>4, <2>6, <3>1
      <4>2. NoPassBehind(2)'
        BY <4>1 DEF NoPassBehind
      <4>3. QED
        BY <1>1, <2>6, <3>1, <4>1, <4>2 DEF PassInv
    <3>2. CASE toDev = <<>> /\ dev = "password"
      <4>1. Len(toDev') = 1 /\ toDev'[1] = "pass"
        BY <2>1, <2>4, <2>6, <3>2
      <4>2. NoPassBehind(1)'
        BY <4>1 DEF NoPassBehind
      <4>3. QED
        BY <1>1, <2>6, <3>2, <4>1, <4>2 DEF PassInv
    <3>3. QED
      BY <1>3, <2>6, <3>1, <3>2 DEF PassInv
  <2>7. CASE at \notin {"user", "pass"}
    <3>1. Line /= "pass"
      BY <2>4, <2>7
    <3>2. /\ NoPass => NoPass'
          /\ NoPassBehind(1) => NoPassBehind(1)'
          /\ NoPassBehind(2) => NoPassBehind(2)'
      BY <2>2, <2>3, <3>1 DEF NoPass, NoPassBehind
    <3>3. QED
      BY <1>1, <1>3, <2>2, <2>7, <3>2 DEF PassInv
  <2>8. QED
    BY <2>5, <2>6, <2>7
<1>4. QED
  BY <1>2, <1>3

LEMMA ReactPass ==
    ASSUME TypeOK, CallInv, PassInv, DeviceReacts
    PROVE  PassInv'
<1>1. /\ toDev /= <<>> /\ toDev' = Tail(toDev) /\ toDev \in Seq(Lines)
      /\ pc' = pc /\ at' = at
  BY DEF DeviceReacts, TypeOK, DeviceType, handlerVars, talkVars
<1>2. pc = "exec" /\ at /= "dial"
  BY <1>1 DEF CallInv, PassInv
<1>3. PICK r \in Reactions : r[1] = dev /\ r[2] = Head(toDev) /\ dev' = r[3]
  BY DEF DeviceReacts
<1>4. /\ dev /= "gone"
      /\ dev = "login" => dev' = "password"
  BY <1>3 DEF Reactions
<1>5. \A i \in 1 .. Len(toDev') : i + 1 \in 1 .. Len(toDev)
                                  /\ toDev'[i] = toDev[i + 1]
  BY <1>1, TailFacts
<1>6. Len(toDev') = Len(toDev) - 1 /\ Len(toDev) \in Nat
  BY <1>1
<1>7. at \in {"ask", "pass"} => toDev' = <<>> /\ dev' = "password"
  BY <1>1, <1>4 DEF PassInv
<1>8. at \notin {"prompt", "user"}
  BY <1>1, <1>4 DEF PassInv
<1>9. \/ NoPass'
      \/ /\ dev' = "password" /\ Len(toDev') >= 1 /\ toDev'[1] = "pass"
         /\ NoPassBehind(1)'
  <2>1. CASE NoPass
    BY <1>5, <2>1 DEF NoPass
  <2>2. CASE NoPassBehind(1)
    <3>1. \A i \in 1 .. Len(toDev') : i + 1 > 1
      OBVIOUS
    <3>2. QED
      BY <1>5, <2>2, <3>1 DEF NoPass, NoPassBehind
  <2>3. CASE /\ dev = "login" /\ Len(toDev) >= 2
             /\ toDev[1] = "user" /\ toDev[2] = "pass"
             /\ NoPassBehind(2)
    <3>1. dev' = "password" /\ Len(toDev') >= 1
      BY <1>4, <1>6, <2>3
    <3>2. toDev'[1] = "pass"
      BY <1>5, <1>6, <2>3, <3>1
    <3>3. \A i \in 1 .. Len(toDev') : i > 1 => i + 1 > 2
      OBVIOUS
    <3>4. NoPassBehind(1)'
      BY <1>5, <2>3, <3>3 DEF NoPassBehind
    <3>5. QED
      BY <3>1, <3>2, <3>4
  <2>4. QED
    BY <1>4, <2>1, <2>2, <2>3 DEF PassInv
<1>10. QED
  BY <1>1, <1>2, <1>7, <1>8, <1>9 DEF PassInv

LEMMA StepPass ==
    ASSUME IInv, PassInv, [Next]_vars
    PROVE  PassInv'
<1> USE DEF clientVars, handlerVars, talkVars, deviceVars, ghostVars
<1>1. TypeOK /\ CallInv
  BY DEF IInv
<1>2. CASE UNCHANGED <<toDev, toGw, dev>> /\ pc = pc' /\ at = at'
  BY <1>2 DEF PassInv, NoPass, NoPassBehind
<1>3. CASE Ask \/ ClientEnds \/ OrphanRuns \/ Expire \/ UNCHANGED vars
  BY <1>2, <1>3 DEF Ask, ClientEnds, OrphanRuns, Expire, vars
<1>4. CASE StreamEnds \/ Send \/ Take
  <2>1. UNCHANGED <<toDev, toGw, dev>> /\ pc /= "exec"
    BY <1>4 DEF StreamEnds, Send, Take
  <2>2. toDev = <<>> /\ toGw = 0 /\ at = "idle" /\ dev = "none"
    BY <1>1, <2>1 DEF PassInv, CallInv
  <2>3. at' \in {"idle", "dial"}
    BY <1>1, <1>4, <2>2, TakeFacts
       DEF StreamEnds, Return, Send, Refused, Started
  <2>4. QED
    BY <2>1, <2>2, <2>3 DEF PassInv, NoPass
<1>5. CASE DeviceGreets
  <2>1. /\ UNCHANGED <<toDev, pc, at>> /\ dev = "connected" /\ dev' = "login"
    BY <1>5 DEF DeviceGreets
  <2>2. pc = "exec" /\ bound[1].proto = "telnet"
    BY <1>1, <1>5, <2>1 DEF CallInv, DeviceGreets, Proto
  <2>3. at /= "dial"
    BY <2>1 DEF PassInv
  <2>4. QED
    BY <2>1, <2>2, <2>3 DEF PassInv, NoPass
<1>6. CASE DeviceGone
  BY <1>6 DEF DeviceGone, PassInv
<1>7. CASE DeviceReacts
  BY <1>1, <1>7, ReactPass
<1>8. ASSUME NEW out, NEW err, NEW lines,
             Finish(out, err) \/ HangUp(out, err, lines)
      PROVE  PassInv'
  BY <1>8 DEF Finish, HangUp, PassInv, NoPass
<1>9. CASE Dial
  <2>1. CASE /\ Goto(IF Proto = "telnet" THEN "prompt" ELSE "session")
             /\ dev' = "connected" /\ UNCHANGED <<toDev, toGw>>
    <3>1. toDev' = <<>> /\ toGw' = 0 /\ pc' = "exec"
      BY <1>1, <1>9, <2>1 DEF Dial, Goto, PassInv, CallInv
    <3>2. at' \in {"prompt", "session"}
      BY <2>1 DEF Goto
    <3>3. QED
      BY <2>1, <3>1, <3>2 DEF PassInv, NoPass
  <2>2. QED
    BY <1>8, <1>9, <2>1 DEF Dial
<1>10. CASE Session
  <2>1. CASE /\ Goto(IF Proto = "ssh" THEN "exec" ELSE "subsystem")
             /\ dev = "connected" /\ UNCHANGED <<toDev, toGw>>
    <3>1. NoPass /\ NoPass'
      BY <2>1 DEF PassInv, NoPass
    <3>2. at' \in {"exec", "subsystem"} /\ pc' = "exec"
      BY <1>1, <1>10, <2>1 DEF Session, Goto, CallInv
    <3>3. QED
      BY <2>1, <3>1, <3>2 DEF PassInv
  <2>2. QED
    BY <1>8, <1>10, <2>1 DEF Session
<1>11. CASE Request
  <2>1. CASE /\ toDev' = IF at = "exec" THEN <<"cmd">> ELSE toDev
             /\ Goto(NextStep[at]) /\ UNCHANGED dev
    <3>1. pc' = "exec" /\ at' \in {"run", "start", "hello"}
      BY <1>1, <1>11, <2>1, NextStepOrder DEF Request, Goto, CallInv
    <3>2. CASE at = "exec"
      <4>1. NoPass'
        BY <2>1, <3>2 DEF NoPass
      <4>2. QED
        BY <3>1, <4>1 DEF PassInv
    <3>3. CASE at /= "exec"
      BY <2>1, <3>1, <3>3, KeepPass
    <3>4. QED
      BY <3>2, <3>3
  <2>2. QED
    BY <1>8, <1>11, <2>1 DEF Request
<1>12. CASE Write
  <2>1. CASE Written /\ Goto(NextStep[at])
    <3>1. pc = "exec" /\ pc' = "exec" /\ at \in WriteSteps
      BY <1>1, <1>12, <2>1 DEF Write, WriteSteps, Goto, CallInv
    <3>2. /\ at' \notin {"dial", "prompt", "user", "pass"}
          /\ at' = "ask" => at = "user"
      BY <2>1, <3>1, NextStepOrder DEF Goto
    <3>3. QED
      BY <1>1, <2>1, <3>1, <3>2, WritePass
  <2>2. QED
    BY <1>8, <1>12, <2>1 DEF Write
<1>13. CASE WriteClose
  BY <1>1, <1>13, WritePass DEF WriteClose, Goto, CallInv
<1>14. CASE WriteExit \/ RunReturns \/ WaitReturns
  BY <1>8, <1>14 DEF WriteExit, RunReturns, WaitReturns
<1>15. CASE Read
  <2>1. CASE ReadSome /\ Goto(NextStep[at])
    <3>1. /\ UNCHANGED <<toDev, dev>> /\ toGw > 0 /\ pc' = "exec"
          /\ at \in {"prompt", "ask", "welcome"} /\ at' = NextStep[at]
      BY <1>1, <1>15, <2>1 DEF Read, ReadSteps, ReadSome, Goto, CallInv
    <3>2. CASE at = "welcome"
      BY <3>1, <3>2, NextStepOrder, KeepPass
    <3>3. CASE at = "prompt" /\ dev /= "gone"
      <4>1. toDev' = <<>> /\ dev' = "login" /\ at' = "user"
        BY <1>1, <3>1, <3>3, NextStepOrder
           DEF PassInv, TypeOK, DeviceType
      <4>2. QED
        BY <3>1, <4>1 DEF PassInv, NoPass
    <3>4. CASE at = "ask" /\ dev /= "gone"
      BY <3>1, <3>4, NextStepOrder DEF PassInv, NoPass, NoPassBehind
    <3>5. CASE at \in {"prompt", "ask"} /\ dev = "gone"
      BY <3>1, <3>5, NextStepOrder DEF PassInv
    <3>6. QED
      BY <3>1, <3>2, <3>3, <3>4, <3>5
  <2>2. QED
    BY <1>8, <1>15, <2>1 DEF Read
<1>16. CASE ReadOutput
  <2>1. CASE UNCHANGED <<toDev, dev>> /\ Goto("exit")
    BY <1>1, <1>16, <2>1, KeepPass DEF ReadOutput, Goto, CallInv
  <2>2. QED
    BY <1>8, <1>16, <2>1 DEF ReadOutput, ReadSome
<1>17. QED
  BY <1>3, <1>4, <1>5, <1>6, <1>7, <1>9, <1>10, <1>11, <1>12, <1>13, <1>14,
     <1>15, <1>16
     DEF Next, Environment, Handler, Paced, Conversation

\* The Telnet login sends the password where the device takes it for one,
\* although the gateway does not look at the prompts.
THEOREM PasswordIsOne == Spec => []PasswordAtPrompt
<1>1. Init => PassInv
  BY DEF Init, PassInv, NoPass
<1>2. IInv /\ PassInv => PasswordAtPrompt
  <2>1. SUFFICES ASSUME TypeOK, PassInv, toDev /= <<>>, Head(toDev) = "pass",
                        dev /= "gone"
                 PROVE  dev = "password"
    BY DEF IInv, PasswordAtPrompt
  <2>2. 1 \in 1 .. Len(toDev) /\ toDev[1] = "pass"
    BY <2>1 DEF TypeOK, DeviceType
  <2>3. QED
    BY <2>1, <2>2 DEF PassInv, NoPass
<1>3. IInv /\ PassInv /\ [Next]_vars => PassInv'
  BY StepPass
<1>4. QED
  BY <1>1, <1>2, <1>3, Invariance, PTL DEF Spec
=============================================================================

---------------------------- MODULE DirectTcpip -----------------------------
(***************************************************************************)
(* One direct-tcpip channel of the bastion (src/internal/ssh/bastion.go,   *)
(* handleDirectTCPIP): accept, dial, two copiers, the WaitGroup, the       *)
(* deferred Close of both sides.  The two ends are the SSH client's        *)
(* channel and the TCP connection to the target.  Each may half-close, or  *)
(* leave (close its side or be lost).  Bytes are numbered by the end that  *)
(* writes them.  DiscardRequests answers the channel's requests at once    *)
(* and touches nothing else.                                               *)
(***************************************************************************)
EXTENDS Naturals, Sequences

CONSTANTS
    MaxBytes,   \* bound: bytes each end writes
    Window,     \* bytes under way to an end that has not read them
    Chunk       \* size of io.Copy's buffer

ASSUME BytesAssumption == MaxBytes \in Nat
ASSUME WindowAssumption == Window \in Nat \ {0}
ASSUME ChunkAssumption == Chunk \in Nat \ {0}

Ends == {"client", "target"}
Other(e) == IF e = "client" THEN "target" ELSE "client"

VARIABLES
    pc,         \* the handler
    copy,       \* the goroutine that copies from an end to the other
    held,       \* what it has read and not yet written
    side,       \* what an end still does: "open", "eof" or "gone"
    written,    \* bytes an end has written
    inbuf,      \* those the gateway has received and not yet read
    out,        \* written to an end and not yet read by it
    got         \* read by an end

handlerVars == <<pc, copy, held>>
endVars == <<side, written, got>>
vars == <<handlerVars, endVars, inbuf, out>>

TypeOK ==
    /\ pc \in {"offered", "dialing", "copying", "closed", "failed"}
    /\ copy \in [Ends -> {"none", "run", "done"}]
    /\ held \in [Ends -> Seq(Nat)]
    /\ side \in [Ends -> {"open", "eof", "gone"}]
    /\ written \in [Ends -> Nat]
    /\ inbuf \in [Ends -> Seq(Nat)]
    /\ out \in [Ends -> Seq(Nat)]
    /\ got \in [Ends -> Seq(Nat)]
    /\ \A e \in Ends : Len(held[e]) <= Chunk /\ Len(out[e]) <= Window

Init ==
    /\ pc = "offered"
    /\ copy = [e \in Ends |-> "none"]
    /\ side = [e \in Ends |-> "open"]
    /\ written = [e \in Ends |-> 0]
    /\ held = [e \in Ends |-> <<>>] /\ inbuf = held /\ out = held /\ got = held

----------------------------------------------------------------------------
\* The two ends. The client may write as soon as its channel is accepted,
\* before the target has been reached.

Connected(e) == pc = "copying" \/ (pc = "dialing" /\ e = "client")

EndWrites(e) ==
    /\ Connected(e) /\ side[e] = "open" /\ written[e] < MaxBytes
    /\ written' = [written EXCEPT ![e] = @ + 1]
    /\ inbuf' = [inbuf EXCEPT ![e] = Append(@, written'[e])]
    /\ UNCHANGED <<handlerVars, side, out, got>>

\* SSH channel EOF, or FIN after a shutdown of the writing side.
HalfClose(e) ==
    /\ Connected(e) /\ side[e] = "open"
    /\ side' = [side EXCEPT ![e] = "eof"]
    /\ UNCHANGED <<handlerVars, written, inbuf, out, got>>

\* It closes its side, or is lost with the last bytes it wrote.
Leave(e) ==
    /\ Connected(e) /\ side[e] /= "gone"
    /\ side' = [side EXCEPT ![e] = "gone"]
    /\ \E n \in 0 .. Len(inbuf[e]) :
          inbuf' = [inbuf EXCEPT ![e] = SubSeq(@, 1, n)]
    /\ UNCHANGED <<handlerVars, written, out, got>>

EndReads(e) ==
    /\ side[e] /= "gone" /\ out[e] /= <<>>
    /\ got' = [got EXCEPT ![e] = Append(@, Head(out[e]))]
    /\ out' = [out EXCEPT ![e] = Tail(@)]
    /\ UNCHANGED <<handlerVars, side, written, inbuf>>

----------------------------------------------------------------------------
\* The handler.

\* Malformed data or a lost connection ends it before there is a channel.
Open ==
    /\ pc = "offered"
    /\ pc' \in {"dialing", "failed"}
    /\ UNCHANGED <<copy, held, endVars, inbuf, out>>

\* net.Dial; on failure the accepted channel is closed again.
Dial ==
    /\ pc = "dialing"
    /\ \/ pc' = "copying" /\ copy' = [e \in Ends |-> "run"]
       \/ pc' = "failed" /\ UNCHANGED copy
    /\ UNCHANGED <<held, endVars, inbuf, out>>

\* wg.Wait, and the same with a count of one.
OneDone == \E e \in Ends : copy[e] = "done"
BothDone == \A e \in Ends : copy[e] = "done"

\* The deferred calls close both sides. A TCP connection closed with input
\* unread is reset, which may destroy what was under way to the target.
Close ==
    /\ pc = "copying" /\ BothDone
    /\ pc' = "closed"
    /\ \E n \in 0 .. Len(out["target"]) :
          /\ inbuf["target"] = <<>> => n = Len(out["target"])
          /\ out' = [out EXCEPT !["target"] = SubSeq(@, 1, n)]
    /\ UNCHANGED <<copy, held, endVars, inbuf>>

----------------------------------------------------------------------------
\* io.Copy from end e to the other, in a goroutine of its own; a version that
\* serves the client first.
RunsInTurn(e) ==
    copy[e] = "run" /\ (e = "target" => copy["client"] = "done")
Runs(e) == copy[e] = "run"

CopyReads(e) ==
    /\ Runs(e) /\ held[e] = <<>>
    /\ \E n \in 1 .. Len(inbuf[e]) :
          /\ n <= Chunk
          /\ held' = [held EXCEPT ![e] = SubSeq(inbuf[e], 1, n)]
          /\ inbuf' = [inbuf EXCEPT ![e] = SubSeq(@, n + 1, Len(@))]
    /\ UNCHANGED <<pc, copy, endVars, out>>

\* A write proceeds as the receiver makes room.
CopyWrites(e) ==
    /\ Runs(e) /\ held[e] /= <<>>
    /\ side[Other(e)] /= "gone" /\ Len(out[Other(e)]) < Window
    /\ out' = [out EXCEPT ![Other(e)] = Append(@, Head(held[e]))]
    /\ held' = [held EXCEPT ![e] = Tail(@)]
    /\ UNCHANGED <<pc, copy, endVars, inbuf>>

\* Written to an end that has left: it vanishes, or the write fails.
CopyLoses(e) ==
    /\ Runs(e) /\ held[e] /= <<>> /\ side[Other(e)] = "gone"
    /\ held' = [held EXCEPT ![e] = <<>>]
    /\ copy' \in {copy, [copy EXCEPT ![e] = "done"]}
    /\ UNCHANGED <<pc, endVars, inbuf, out>>

\* The end of the input, of a closed side only or seen before the input.
OnlyClosed(e) == side[e] = "gone" /\ inbuf[e] = <<>>
EofAtOnce(e) == side[e] /= "open"
Eof(e) == side[e] /= "open" /\ inbuf[e] = <<>>

CopyEnds(e) ==
    /\ Runs(e) /\ held[e] = <<>> /\ Eof(e)
    /\ copy' = [copy EXCEPT ![e] = "done"]
    /\ UNCHANGED <<pc, held, endVars, inbuf, out>>

----------------------------------------------------------------------------
Copier(e) == CopyReads(e) \/ CopyWrites(e) \/ CopyLoses(e) \/ CopyEnds(e)

Next ==
    \/ Open \/ Dial \/ Close
    \/ \E e \in Ends :
          Copier(e) \/ EndWrites(e) \/ HalfClose(e) \/ Leave(e) \/ EndReads(e)

Spec == Init /\ [][Next]_vars

\* The handler and its copiers run when they can; the operating system gives
\* up a connection attempt in the end. An end that has not left reads what
\* reaches it; it need not write, half-close or leave.
FairSpec ==
    /\ Spec
    /\ WF_vars(Open) /\ WF_vars(Dial) /\ WF_vars(Close)
    /\ \A e \in Ends : WF_vars(Copier(e)) /\ WF_vars(EndReads(e))

----------------------------------------------------------------------------
\* Properties.

\* handleDirectTCPIP forwards in order and without gaps, and cuts the
\* connection only when both ends have finished or one has left.
P == INSTANCE Pipes WITH
        over <- {e \in Ends : side[e] /= "open"},
        gone <- {e \in Ends : side[e] = "gone"},
        cut <- pc = "closed"
ImplementsPipes == P!Spec

\* A connection that neither end has left is closed only after all that was
\* written on either side has been written to the other.
NothingCutOff ==
    pc = "closed" /\ (\A e \in Ends : side[e] /= "gone") =>
        \A e \in Ends : Len(got[Other(e)]) + Len(out[Other(e)]) = written[e]

\* Each direction gets through whatever the other does, a half-close of
\* either end included: what an end writes is read, unless one of them leaves
\* or the target is never reached.
Delivers ==
    \A e \in Ends : \A n \in 1 .. MaxBytes :
        (written[e] = n) ~> \/ Len(got[Other(e)]) >= n
                            \/ \E x \in Ends : side[x] = "gone"
                            \/ pc = "failed"

\* Both sides are released once both ends have finished. One end alone is
\* not enough: its end of input is not passed on (bastion.go:659-667 never
\* closes the writing side), so an end that waits for it keeps both open.
Released ==
    (pc = "copying" /\ \A e \in Ends : side[e] /= "open") ~> (pc = "closed")
============================================================================

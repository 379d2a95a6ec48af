------------------------- MODULE DirectTcpipProofs --------------------------
(***************************************************************************)
(* Proofs about DirectTcpip, for any number of bytes, window and buffer:   *)
(* types, NothingCutOff, and that it implements Pipes.  The argument: for  *)
(* each direction, what has been read, what is under way, what the copier  *)
(* holds and what waits to be copied are consecutive pieces of what was    *)
(* written (FlowInv), and a copier that has ended leaves nothing behind    *)
(* unless its receiver has left (DoneInv).                                 *)
(***************************************************************************)
EXTENDS DirectTcpip, TLAPS

\* s holds the bytes that follow the first n.
Numbered(s, n) == \A k \in 1 .. Len(s) : s[k] = n + k

LEMMA AppendNumbered ==
    ASSUME NEW s \in Seq(Nat), NEW n \in Nat, Numbered(s, n),
           NEW x, x = n + Len(s) + 1
    PROVE  /\ Append(s, x) \in Seq(Nat)
           /\ Len(Append(s, x)) = Len(s) + 1
           /\ Numbered(Append(s, x), n)
<1>1. x \in Nat
    OBVIOUS
<1>2. Append(s, x) \in Seq(Nat) /\ Len(Append(s, x)) = Len(s) + 1
    BY <1>1
<1>3. ASSUME NEW k \in 1 .. Len(Append(s, x))
      PROVE  Append(s, x)[k] = n + k
    BY <1>2, k <= Len(s) \/ k = Len(s) + 1 DEF Numbered
<1>4. QED
    BY <1>2, <1>3 DEF Numbered

LEMMA TailNumbered ==
    ASSUME NEW s \in Seq(Nat), s /= <<>>, NEW n \in Nat, Numbered(s, n)
    PROVE  /\ Head(s) = n + 1
           /\ Tail(s) \in Seq(Nat)
           /\ Len(s) > 0 /\ Len(Tail(s)) = Len(s) - 1
           /\ Numbered(Tail(s), n + 1)
<1>1. Len(s) > 0 /\ Head(s) = s[1]
    OBVIOUS
<1>2. Tail(s) \in Seq(Nat) /\ Len(Tail(s)) = Len(s) - 1
    BY <1>1
<1>3. ASSUME NEW k \in 1 .. Len(Tail(s))
      PROVE  Tail(s)[k] = (n + 1) + k
  <2>1. Tail(s)[k] = s[k + 1] /\ k + 1 \in 1 .. Len(s)
    BY <1>1, <1>2
  <2>2. QED
    BY <2>1 DEF Numbered
<1>4. QED
    BY <1>1, <1>2, <1>3 DEF Numbered

LEMMA PrefixNumbered ==
    ASSUME NEW s \in Seq(Nat), NEW n \in Nat, Numbered(s, n),
           NEW m \in 0 .. Len(s)
    PROVE  /\ SubSeq(s, 1, m) \in Seq(Nat)
           /\ Len(SubSeq(s, 1, m)) = m
           /\ Numbered(SubSeq(s, 1, m), n)
<1>1. SubSeq(s, 1, m) \in Seq(Nat) /\ Len(SubSeq(s, 1, m)) = m
    OBVIOUS
<1>2. \A k \in 1 .. m : SubSeq(s, 1, m)[k] = s[k]
    OBVIOUS
<1>3. QED
    BY <1>1, <1>2 DEF Numbered

LEMMA SuffixNumbered ==
    ASSUME NEW s \in Seq(Nat), NEW n \in Nat, Numbered(s, n),
           NEW m \in 1 .. Len(s)
    PROVE  /\ SubSeq(s, m + 1, Len(s)) \in Seq(Nat)
           /\ Len(SubSeq(s, m + 1, Len(s))) = Len(s) - m
           /\ Numbered(SubSeq(s, m + 1, Len(s)), n + m)
<1>1. /\ SubSeq(s, m + 1, Len(s)) \in Seq(Nat)
      /\ Len(SubSeq(s, m + 1, Len(s))) = Len(s) - m
    OBVIOUS
<1>2. \A k \in 1 .. Len(s) - m : SubSeq(s, m + 1, Len(s))[k] = s[m + k]
    OBVIOUS
<1>3. \A k \in 1 .. Len(s) - m : s[m + k] = (n + m) + k
    BY DEF Numbered
<1>4. QED
    BY <1>1, <1>2, <1>3 DEF Numbered
----------------------------------------------------------------------------
\* The inductive invariant.

\* Bytes of e on their way, from the reader back to the writer.
Read(e) == Len(got[Other(e)])
Passed(e) == Read(e) + Len(out[Other(e)])
Taken(e) == Passed(e) + Len(held[e])
Arrived(e) == Taken(e) + Len(inbuf[e])

Flow(e) ==
    /\ Numbered(got[Other(e)], 0) /\ Read(e) <= written[e]
    /\ side[Other(e)] /= "gone" =>
          /\ Numbered(out[Other(e)], Read(e))
          /\ Numbered(held[e], Passed(e))
          /\ Numbered(inbuf[e], Taken(e))
          /\ Arrived(e) <= written[e]
          /\ side[e] /= "gone" => Arrived(e) = written[e]

FlowInv == \A e \in Ends : Flow(e)

CopyInv ==
    /\ pc \in {"offered", "dialing", "failed"} => \A e \in Ends : copy[e] = "none"
    /\ pc = "closed" => \A e \in Ends : copy[e] = "done"

DoneInv ==
    \A e \in Ends : copy[e] = "done" =>
        /\ held[e] = <<>>
        /\ side[Other(e)] = "gone" \/ (inbuf[e] = <<>> /\ side[e] /= "open")

IInv == TypeOK /\ FlowInv /\ CopyInv /\ DoneInv

LEMMA EndsFacts ==
    /\ \A e \in Ends : Other(e) \in Ends /\ Other(e) /= e /\ Other(Other(e)) = e
    /\ \A e, x \in Ends : x = e \/ x = Other(e)
    BY DEF Ends, Other

LEMMA InitInv == Init => IInv
<1> SUFFICES ASSUME Init PROVE IInv
    OBVIOUS
<1> USE EndsFacts
<1>1. TypeOK
    BY WindowAssumption, ChunkAssumption DEF Init, TypeOK
<1>2. FlowInv
    BY DEF Init, FlowInv, Flow, Numbered, Read, Passed, Taken, Arrived
<1>3. CopyInv /\ DoneInv
    BY DEF Init, CopyInv, DoneInv
<1>4. QED
    BY <1>1, <1>2, <1>3 DEF IInv

----------------------------------------------------------------------------
\* Each step preserves the invariant.

\* The handler's own steps; only Close moves bytes.
LEMMA HandlerSteps == IInv /\ (Open \/ Dial) => IInv'
<1> SUFFICES ASSUME IInv, Open \/ Dial PROVE IInv'
    OBVIOUS
<1> USE EndsFacts DEF IInv
<1>1. pc \in {"offered", "dialing"} /\ \A e \in Ends : copy[e] = "none"
    BY DEF Open, Dial, CopyInv
<1>2. UNCHANGED <<held, side, written, got, inbuf, out>>
    BY DEF Open, Dial, endVars
<1>3. TypeOK'
    BY <1>2 DEF Open, Dial, TypeOK
<1>4. FlowInv'
    BY <1>2 DEF FlowInv, Flow, Numbered, Read, Passed, Taken, Arrived
<1>5. CopyInv' /\ DoneInv'
    BY <1>1 DEF Open, Dial, CopyInv, DoneInv
<1>6. QED
    BY <1>3, <1>4, <1>5

LEMMA CloseStep == IInv /\ Close => IInv'
<1> SUFFICES ASSUME IInv, Close PROVE IInv'
    OBVIOUS
<1> USE EndsFacts DEF IInv
<1>1. PICK n \in 0 .. Len(out["target"]) :
          /\ inbuf["target"] = <<>> => n = Len(out["target"])
          /\ out' = [out EXCEPT !["target"] = SubSeq(@, 1, n)]
    BY DEF Close
<1>2. /\ UNCHANGED <<copy, held, side, written, got, inbuf>>
      /\ pc' = "closed" /\ \A e \in Ends : copy[e] = "done"
    BY DEF Close, BothDone, endVars
<1>3. out \in [Ends -> Seq(Nat)] /\ "target" \in Ends /\ Other("client") = "target"
    BY DEF TypeOK, Ends, Other
<1>4. CASE n = Len(out["target"])
  <2>1. SubSeq(out["target"], 1, n) = out["target"]
    BY <1>3, <1>4
  <2>2. out' = out
    BY <2>1, <1>1, <1>3
  <2>3. QED
    BY <1>2, <2>2 DEF TypeOK, FlowInv, Flow, CopyInv, DoneInv, Numbered, Read,
                      Passed, Taken, Arrived
<1>5. CASE inbuf["target"] /= <<>>
  <2> DEFINE t == SubSeq(out["target"], 1, n)
  <2>1. side["client"] = "gone" /\ held["client"] = <<>>
    BY <1>2, <1>5 DEF DoneInv, Ends, Other
  <2>2. out["target"] \in Seq(Nat) /\ Len(out["target"]) <= Window
    BY <1>3 DEF TypeOK
  <2>3. t \in Seq(Nat) /\ Len(t) = n /\ n \in Nat /\ n <= Window
    BY <2>2, WindowAssumption
  <2>4. out' = [out EXCEPT !["target"] = t]
    BY <1>1
  <2>5. out'["target"] = t /\ \A e \in Ends : e /= "target" => out'[e] = out[e]
    BY <1>3, <2>4
  <2> HIDE DEF t
  <2>6. TypeOK'
    <3>1. out' \in [Ends -> Seq(Nat)] /\ \A e \in Ends : Len(out'[e]) <= Window
        BY <1>3, <2>3, <2>4, <2>5 DEF TypeOK
    <3>2. QED
        BY <1>2, <3>1 DEF TypeOK
  <2>7. CopyInv' /\ DoneInv'
    BY <1>2 DEF CopyInv, DoneInv
  <2>8. Flow("client")'
    <3>1. /\ side["target"] = "gone" \/ inbuf["client"] = <<>>
          /\ "client" \in Ends
        BY <1>2 DEF DoneInv, Ends, Other
    <3>2. /\ Read("client") = Len(got["target"]) /\ Read("client") \in Nat
          /\ written["client"] \in Nat
        BY <1>3, <3>1 DEF TypeOK, Read
    <3>3. Flow("client")
        BY <3>1 DEF FlowInv
    <3>4. ASSUME side["target"] /= "gone"
          PROVE  Numbered(t, Read("client")) /\ Read("client") + n <= written["client"]
      <4>1. /\ Numbered(out["target"], Read("client"))
            /\ Arrived("client") <= written["client"]
        BY <1>3, <3>3, <3>4 DEF Flow
      <4>2. Numbered(t, Read("client"))
        BY <2>2, <3>2, <4>1, PrefixNumbered DEF t
      <4>3. Arrived("client") = Read("client") + Len(out["target"])
        BY <1>3, <2>1, <2>2, <3>1, <3>2, <3>4 DEF Arrived, Taken, Passed
      <4>4. Read("client") + n <= written["client"]
        BY <2>2, <3>2, <4>1, <4>3
      <4>5. QED
        BY <4>2, <4>4
    <3>5. CASE side["target"] = "gone"
        BY <1>2, <1>3, <3>3, <3>5 DEF Flow, Numbered, Read
    <3>6. CASE side["target"] /= "gone"
      <4>1. /\ held'["client"] = <<>> /\ inbuf'["client"] = <<>>
            /\ out'["target"] = t /\ got'["target"] = got["target"]
            /\ side'["client"] = "gone" /\ written' = written
        BY <1>2, <2>1, <2>5, <3>1, <3>6
      <4>2. Read("client")' = Read("client")
        BY <1>3, <4>1 DEF Read
      <4>3. Passed("client")' = Read("client") + n
        BY <1>3, <2>3, <4>1, <4>2 DEF Passed
      <4>4. Taken("client")' = Read("client") + n
        BY <2>3, <3>2, <4>1, <4>3 DEF Taken
      <4>5. Arrived("client")' = Read("client") + n
        BY <2>3, <3>2, <4>1, <4>4 DEF Arrived
      <4>6. Numbered(got["target"], 0) /\ Read("client") <= written["client"]
        BY <1>3, <3>3 DEF Flow
      <4>7. /\ Numbered(got["target"], 0)' /\ Read("client")' <= written'["client"]
            /\ Numbered(out["target"], Read("client"))'
            /\ Numbered(held["client"], Passed("client"))'
            /\ Numbered(inbuf["client"], Taken("client"))'
            /\ Arrived("client")' <= written'["client"]
        BY <3>4, <3>6, <4>1, <4>2, <4>3, <4>4, <4>5, <4>6 DEF Numbered
      <4>8. QED
        BY <1>3, <4>1, <4>7 DEF Flow
    <3>7. QED
        BY <3>5, <3>6
  <2>9. Flow("target")'
    BY <1>2, <2>1 DEF FlowInv, Flow, Numbered, Read, Ends, Other
  <2>10. QED
    BY <2>6, <2>7, <2>8, <2>9 DEF FlowInv, Ends
<1>6. QED
    BY <1>1, <1>4, <1>5

\* A direction none of whose bytes move; an end may leave meanwhile.
LEMMA FlowKept ==
    ASSUME NEW e \in Ends, Flow(e),
           UNCHANGED <<got[Other(e)], out[Other(e)], held[e], inbuf[e],
                       written[e]>>,
           side'[Other(e)] /= "gone" => side[Other(e)] /= "gone",
           side'[e] /= "gone" => side[e] /= "gone"
    PROVE  Flow(e)'
    BY EndsFacts DEF Flow, Numbered, Read, Passed, Taken, Arrived

LEMMA Below ==
    ASSUME NEW r \in Nat, NEW a \in Nat, NEW h \in Nat, NEW b \in Nat,
           NEW w \in Nat, a > 0, r + a + h + b <= w
    PROVE  r < w
    OBVIOUS

LEMMA CutTypes ==
    ASSUME NEW s \in Seq(Nat), NEW n \in 1 .. Len(s)
    PROVE  /\ SubSeq(s, 1, n) \in Seq(Nat) /\ Len(SubSeq(s, 1, n)) = n
           /\ SubSeq(s, n + 1, Len(s)) \in Seq(Nat)
           /\ Len(SubSeq(s, n + 1, Len(s))) = Len(s) - n
    OBVIOUS

LEMMA LenNat ==
    \A s \in Seq(Nat) : Len(s) \in Nat /\ \A n \in Nat : n + Len(s) \in Nat
    OBVIOUS

\* The types of what a direction is made of.
LEMMA FlowTypes ==
    ASSUME TypeOK, NEW e \in Ends
    PROVE  /\ got[Other(e)] \in Seq(Nat) /\ out[Other(e)] \in Seq(Nat)
           /\ held[e] \in Seq(Nat) /\ inbuf[e] \in Seq(Nat)
           /\ written[e] \in Nat
           /\ Read(e) \in Nat /\ Passed(e) \in Nat /\ Taken(e) \in Nat
           /\ Arrived(e) = Taken(e) + Len(inbuf[e])
           /\ Taken(e) = Passed(e) + Len(held[e])
           /\ Passed(e) = Read(e) + Len(out[Other(e)])
           /\ Read(e) = Len(got[Other(e)])
<1>1. /\ got[Other(e)] \in Seq(Nat) /\ out[Other(e)] \in Seq(Nat)
      /\ held[e] \in Seq(Nat) /\ inbuf[e] \in Seq(Nat) /\ written[e] \in Nat
    BY EndsFacts DEF TypeOK
<1>2. Read(e) = Len(got[Other(e)]) /\ Read(e) \in Nat
    BY <1>1, LenNat DEF Read
<1>3. Passed(e) = Read(e) + Len(out[Other(e)]) /\ Passed(e) \in Nat
    BY <1>1, <1>2, LenNat DEF Passed
<1>4. Taken(e) = Passed(e) + Len(held[e]) /\ Taken(e) \in Nat
    BY <1>1, <1>3, LenNat DEF Taken
<1>5. Arrived(e) = Taken(e) + Len(inbuf[e])
    BY DEF Arrived
<1>6. QED
    BY <1>1, <1>2, <1>3, <1>4, <1>5

\* Both directions are those of e and of the other end.
LEMMA TwoFlows ==
    ASSUME NEW e \in Ends, Flow(e)', Flow(Other(e))'
    PROVE  FlowInv'
    BY EndsFacts DEF FlowInv

LEMMA EndWritesStep == IInv => \A e \in Ends : EndWrites(e) => IInv'
<1> SUFFICES ASSUME IInv, NEW e \in Ends, EndWrites(e) PROVE IInv'
    OBVIOUS
<1> USE EndsFacts DEF IInv
<1>1. /\ written' = [written EXCEPT ![e] = @ + 1]
      /\ inbuf' = [inbuf EXCEPT ![e] = Append(@, written[e] + 1)]
      /\ UNCHANGED <<pc, copy, held, side, out, got>>
      /\ side[e] = "open" /\ pc /= "closed"
  <2>1. written \in [Ends -> Nat]
    BY DEF TypeOK
  <2>2. QED
    BY <2>1 DEF EndWrites, Connected, handlerVars
<1>2. Flow(e) /\ Flow(Other(e))
    BY DEF FlowInv
<1>3. /\ written'[e] = written[e] + 1 /\ inbuf'[e] = Append(inbuf[e], written[e] + 1)
      /\ \A x \in Ends : x /= e => written'[x] = written[x] /\ inbuf'[x] = inbuf[x]
    BY <1>1 DEF TypeOK
<1>4. inbuf'[e] \in Seq(Nat)
    BY <1>3, FlowTypes
<1>5. TypeOK'
  <2>1. written' \in [Ends -> Nat] /\ inbuf' \in [Ends -> Seq(Nat)]
    BY <1>1, <1>3, <1>4 DEF TypeOK
  <2>2. QED
    BY <1>1, <2>1 DEF TypeOK
<1>6. Flow(Other(e))'
    BY <1>1, <1>2, <1>3, FlowKept
<1>7. Flow(e)'
  <2>1. Read(e)' = Read(e) /\ Passed(e)' = Passed(e) /\ Taken(e)' = Taken(e)
    BY <1>1 DEF Read, Passed, Taken
  <2>2. Numbered(got[Other(e)], 0)' /\ Read(e)' <= written'[e]
    BY <1>1, <1>2, <1>3, <2>1, FlowTypes DEF Flow, Numbered
  <2>3. ASSUME side[Other(e)] /= "gone"
        PROVE  /\ Numbered(out[Other(e)], Read(e))'
               /\ Numbered(held[e], Passed(e))'
               /\ Numbered(inbuf[e], Taken(e))'
               /\ Arrived(e)' = written'[e]
    <3>1. Arrived(e) = written[e] /\ Numbered(inbuf[e], Taken(e))
        BY <1>1, <1>2, <2>3 DEF Flow
    <3>2. Numbered(inbuf'[e], Taken(e)) /\ Len(inbuf'[e]) = Len(inbuf[e]) + 1
        BY <1>3, <3>1, FlowTypes, AppendNumbered
    <3>3. Arrived(e)' = written'[e]
        BY <1>3, <2>1, <3>1, <3>2, FlowTypes DEF Arrived
    <3>4. QED
        BY <1>1, <1>2, <2>1, <2>3, <3>2, <3>3 DEF Flow, Numbered
  <2>4. written'[e] \in Nat
    BY <1>3, FlowTypes
  <2>5. QED
    BY <1>1, <2>2, <2>3, <2>4 DEF Flow
<1>8. CopyInv' /\ DoneInv'
    BY <1>1, <1>3 DEF CopyInv, DoneInv
<1>9. QED
    BY <1>5, <1>6, <1>7, <1>8, TwoFlows

LEMMA HalfCloseStep == IInv => \A e \in Ends : HalfClose(e) => IInv'
<1> SUFFICES ASSUME IInv, NEW e \in Ends, HalfClose(e) PROVE IInv'
    OBVIOUS
<1> USE EndsFacts DEF IInv
<1>1. /\ UNCHANGED <<pc, copy, held, written, inbuf, out, got>>
      /\ side' = [side EXCEPT ![e] = "eof"] /\ side[e] = "open"
    BY DEF HalfClose, handlerVars
<1>2. /\ side'[e] = "eof" /\ \A x \in Ends : x /= e => side'[x] = side[x]
      /\ TypeOK'
    BY <1>1 DEF TypeOK
<1>3. \A x \in Ends : side'[x] /= "gone" <=> side[x] /= "gone"
    BY <1>1, <1>2
<1>4. \A x \in Ends : Flow(x)'
    BY <1>1, <1>3, FlowKept DEF FlowInv
<1>5. CopyInv' /\ DoneInv'
    BY <1>1, <1>2 DEF CopyInv, DoneInv
<1>6. QED
    BY <1>2, <1>4, <1>5 DEF FlowInv

LEMMA LeaveStep == IInv => \A e \in Ends : Leave(e) => IInv'
<1> SUFFICES ASSUME IInv, NEW e \in Ends, Leave(e) PROVE IInv'
    OBVIOUS
<1> USE EndsFacts DEF IInv
<1>1. PICK n \in 0 .. Len(inbuf[e]) :
          inbuf' = [inbuf EXCEPT ![e] = SubSeq(@, 1, n)]
    BY DEF Leave
<1>2. /\ UNCHANGED <<pc, copy, held, written, out, got>>
      /\ side' = [side EXCEPT ![e] = "gone"]
    BY DEF Leave, handlerVars
<1>3. /\ side'[e] = "gone" /\ inbuf'[e] = SubSeq(inbuf[e], 1, n)
      /\ \A x \in Ends : x /= e => side'[x] = side[x] /\ inbuf'[x] = inbuf[x]
    BY <1>1, <1>2 DEF TypeOK
<1>4. inbuf'[e] \in Seq(Nat) /\ Len(inbuf'[e]) = n
    BY <1>3, FlowTypes
<1>5. TypeOK'
    BY <1>1, <1>2, <1>3, <1>4 DEF TypeOK
<1>6. Flow(e) /\ Flow(Other(e))
    BY DEF FlowInv
<1>7. Flow(Other(e))'
    BY <1>2, <1>3, <1>6, FlowKept
<1>8. Flow(e)'
  <2>1. Read(e)' = Read(e) /\ Passed(e)' = Passed(e) /\ Taken(e)' = Taken(e)
    BY <1>2 DEF Read, Passed, Taken
  <2>2. ASSUME side[Other(e)] /= "gone"
        PROVE  Numbered(inbuf'[e], Taken(e)) /\ Arrived(e)' <= written[e]
    <3>1. Numbered(inbuf[e], Taken(e)) /\ Arrived(e) <= written[e]
        BY <1>6, <2>2 DEF Flow
    <3>2. Numbered(inbuf'[e], Taken(e))
        BY <1>3, <3>1, FlowTypes, PrefixNumbered
    <3>3. Arrived(e)' = Taken(e) + n
        BY <1>4, <2>1 DEF Arrived
    <3>4. QED
        BY <3>1, <3>2, <3>3, FlowTypes
  <2>3. QED
    BY <1>2, <1>3, <1>6, <2>1, <2>2 DEF Flow, Numbered
<1>9. CopyInv' /\ DoneInv'
  <2>1. inbuf[e] = <<>> => inbuf'[e] = <<>>
    BY <1>4, FlowTypes
  <2>2. QED
    BY <1>2, <1>3, <2>1 DEF CopyInv, DoneInv
<1>10. QED
    BY <1>5, <1>7, <1>8, <1>9, TwoFlows

LEMMA EndReadsStep == IInv => \A o \in Ends : EndReads(o) => IInv'
<1> SUFFICES ASSUME IInv, NEW e \in Ends, EndReads(Other(e)) PROVE IInv'
    BY EndsFacts
<1> DEFINE o == Other(e)
<1> USE EndsFacts DEF IInv
<1>1. /\ UNCHANGED <<pc, copy, held, side, written, inbuf>>
      /\ side[o] /= "gone" /\ out[o] /= <<>>
      /\ got' = [got EXCEPT ![o] = Append(@, Head(out[o]))]
      /\ out' = [out EXCEPT ![o] = Tail(@)]
    BY DEF EndReads, handlerVars
<1>2. /\ got'[o] = Append(got[o], Head(out[o])) /\ out'[o] = Tail(out[o])
      /\ \A x \in Ends : x /= o => got'[x] = got[x] /\ out'[x] = out[x]
    BY <1>1 DEF TypeOK
<1>3. Flow(e) /\ Flow(o)
    BY DEF FlowInv
<1>4. /\ Numbered(got[o], 0) /\ Numbered(out[o], Read(e))
      /\ Numbered(held[e], Passed(e)) /\ Numbered(inbuf[e], Taken(e))
      /\ Arrived(e) <= written[e]
      /\ side[e] /= "gone" => Arrived(e) = written[e]
    BY <1>1, <1>3 DEF Flow
<1>5. /\ Head(out[o]) = Read(e) + 1
      /\ out'[o] \in Seq(Nat) /\ Len(out[o]) > 0 /\ Len(out'[o]) = Len(out[o]) - 1
      /\ Numbered(out'[o], Read(e) + 1)
  <2>1. out[o] \in Seq(Nat) /\ out[o] /= <<>> /\ Read(e) \in Nat
    BY <1>1, FlowTypes
  <2>2. QED
    BY <1>2, <1>4, <2>1, TailNumbered
<1>6. /\ got'[o] \in Seq(Nat) /\ Len(got'[o]) = Len(got[o]) + 1
      /\ Numbered(got'[o], 0)
  <2>1. got[o] \in Seq(Nat) /\ Read(e) = Len(got[o]) /\ Len(got[o]) \in Nat
    BY FlowTypes
  <2>2. Head(out[o]) = 0 + Len(got[o]) + 1
    BY <1>5, <2>1
  <2>3. QED
    BY <1>2, <1>4, <2>1, <2>2, AppendNumbered
<1>7. TypeOK'
  <2>1. got' \in [Ends -> Seq(Nat)] /\ out' \in [Ends -> Seq(Nat)]
    BY <1>1, <1>2, <1>5, <1>6 DEF TypeOK
  <2>2. \A x \in Ends : Len(out'[x]) <= Window
    <3>1. \A x \in Ends : Len(out[x]) <= Window
        BY DEF TypeOK
    <3>2. out[o] \in Seq(Nat) /\ Len(out[o]) \in Nat
        BY FlowTypes, LenNat
    <3>3. Len(out'[o]) <= Window
        BY <1>5, <3>1, <3>2, WindowAssumption
    <3>4. QED
        BY <1>2, <3>1, <3>3
  <2>3. QED
    BY <1>1, <2>1, <2>2 DEF TypeOK
<1>8. Flow(o)'
    BY <1>1, <1>2, <1>3, FlowKept
<1>9. Flow(e)'
  <2>1. Read(e)' = Read(e) + 1
    BY <1>6, FlowTypes DEF Read
  <2>2. Passed(e)' = Passed(e)
    BY <1>5, <2>1, FlowTypes DEF Passed
  <2>3. Taken(e)' = Taken(e) /\ Arrived(e)' = Arrived(e)
    BY <1>1, <2>2 DEF Taken, Arrived
  <2>4. Read(e)' <= Arrived(e)
    <3>1. /\ Len(out[o]) \in Nat /\ Len(held[e]) \in Nat /\ Len(inbuf[e]) \in Nat
          /\ Read(e) \in Nat
        BY FlowTypes, LenNat
    <3>2. Arrived(e) = Read(e) + Len(out[o]) + Len(held[e]) + Len(inbuf[e])
        BY FlowTypes
    <3>3. QED
        BY <1>5, <2>1, <3>1, <3>2
  <2>5. Read(e)' <= written'[e]
    BY <1>1, <1>4, <2>1, <2>4, FlowTypes, LenNat
  <2>6. QED
    BY <1>1, <1>4, <1>5, <1>6, <2>1, <2>2, <2>3, <2>5 DEF Flow, Numbered
<1>10. CopyInv' /\ DoneInv'
    BY <1>1 DEF CopyInv, DoneInv
<1>11. QED
    BY <1>7, <1>8, <1>9, <1>10, TwoFlows

LEMMA CopyReadsStep == IInv => \A e \in Ends : CopyReads(e) => IInv'
<1> SUFFICES ASSUME IInv, NEW e \in Ends, CopyReads(e) PROVE IInv'
    OBVIOUS
<1> USE EndsFacts DEF IInv
<1>1. PICK n \in 1 .. Len(inbuf[e]) :
          /\ n <= Chunk
          /\ held' = [held EXCEPT ![e] = SubSeq(inbuf[e], 1, n)]
          /\ inbuf' = [inbuf EXCEPT ![e] = SubSeq(@, n + 1, Len(@))]
    BY DEF CopyReads
<1>2. /\ UNCHANGED <<pc, copy, side, written, got, out>>
      /\ copy[e] = "run" /\ held[e] = <<>>
    BY DEF CopyReads, Runs, endVars
<1>3. /\ held'[e] = SubSeq(inbuf[e], 1, n)
      /\ inbuf'[e] = SubSeq(inbuf[e], n + 1, Len(inbuf[e]))
      /\ \A x \in Ends : x /= e => held'[x] = held[x] /\ inbuf'[x] = inbuf[x]
    BY <1>1 DEF TypeOK
<1>4. /\ held'[e] \in Seq(Nat) /\ Len(held'[e]) = n
      /\ inbuf'[e] \in Seq(Nat) /\ Len(inbuf'[e]) = Len(inbuf[e]) - n
    BY <1>3, FlowTypes, CutTypes
<1>5. TypeOK'
  <2>1. held' \in [Ends -> Seq(Nat)] /\ inbuf' \in [Ends -> Seq(Nat)]
    BY <1>1, <1>3, <1>4 DEF TypeOK
  <2>2. \A x \in Ends : Len(held'[x]) <= Chunk
    BY <1>1, <1>3, <1>4 DEF TypeOK
  <2>3. QED
    BY <1>2, <2>1, <2>2 DEF TypeOK
<1>6. Flow(e) /\ Flow(Other(e))
    BY DEF FlowInv
<1>7. Flow(Other(e))'
    BY <1>2, <1>3, <1>6, FlowKept
<1>8. Flow(e)'
  <2>1. Read(e)' = Read(e) /\ Passed(e)' = Passed(e)
    BY <1>2 DEF Read, Passed
  <2>2. Taken(e) = Passed(e) /\ Taken(e)' = Passed(e) + n
    BY <1>2, <1>4, <2>1, FlowTypes DEF Taken
  <2>3. Arrived(e)' = Arrived(e)
    BY <1>4, <2>2, FlowTypes DEF Arrived
  <2>4. ASSUME side[Other(e)] /= "gone"
        PROVE  Numbered(held'[e], Passed(e)) /\ Numbered(inbuf'[e], Passed(e) + n)
    <3>1. Numbered(inbuf[e], Passed(e))
        BY <1>6, <2>2, <2>4 DEF Flow
    <3>2. n \in 0 .. Len(inbuf[e])
        BY FlowTypes
    <3>3. QED
        BY <1>3, <3>1, <3>2, FlowTypes, PrefixNumbered, SuffixNumbered
  <2>5. QED
    BY <1>2, <1>6, <2>1, <2>2, <2>3, <2>4 DEF Flow, Numbered
<1>9. CopyInv' /\ DoneInv'
    BY <1>2, <1>3 DEF CopyInv, DoneInv
<1>10. QED
    BY <1>5, <1>7, <1>8, <1>9, TwoFlows

LEMMA CopyWritesStep == IInv => \A e \in Ends : CopyWrites(e) => IInv'
<1> SUFFICES ASSUME IInv, NEW e \in Ends, CopyWrites(e) PROVE IInv'
    OBVIOUS
<1> DEFINE o == Other(e)
<1> USE EndsFacts DEF IInv
<1>1. /\ UNCHANGED <<pc, copy, side, written, got, inbuf>>
      /\ copy[e] = "run" /\ held[e] /= <<>>
      /\ side[o] /= "gone" /\ Len(out[o]) < Window
      /\ out' = [out EXCEPT ![o] = Append(@, Head(held[e]))]
      /\ held' = [held EXCEPT ![e] = Tail(@)]
    BY DEF CopyWrites, Runs, endVars
<1>2. /\ held'[e] = Tail(held[e]) /\ out'[o] = Append(out[o], Head(held[e]))
      /\ \A x \in Ends : x /= e => held'[x] = held[x]
      /\ \A x \in Ends : x /= o => out'[x] = out[x]
    BY <1>1 DEF TypeOK
<1>3. Flow(e) /\ Flow(o)
    BY DEF FlowInv
<1>4. /\ Numbered(got[o], 0) /\ Numbered(out[o], Read(e))
      /\ Numbered(held[e], Passed(e)) /\ Numbered(inbuf[e], Taken(e))
      /\ Arrived(e) <= written[e] /\ Read(e) <= written[e]
      /\ side[e] /= "gone" => Arrived(e) = written[e]
    BY <1>1, <1>3 DEF Flow
<1>5. /\ Head(held[e]) = Passed(e) + 1
      /\ held'[e] \in Seq(Nat) /\ Len(held[e]) > 0 /\ Len(held'[e]) = Len(held[e]) - 1
      /\ Numbered(held'[e], Passed(e) + 1)
  <2>1. held[e] \in Seq(Nat) /\ held[e] /= <<>> /\ Passed(e) \in Nat
    BY <1>1, FlowTypes
  <2>2. QED
    BY <1>2, <1>4, <2>1, TailNumbered
<1>6. /\ out'[o] \in Seq(Nat) /\ Len(out'[o]) = Len(out[o]) + 1
      /\ Numbered(out'[o], Read(e))
  <2>1. out[o] \in Seq(Nat) /\ Read(e) \in Nat /\ Passed(e) = Read(e) + Len(out[o])
    BY FlowTypes
  <2>2. Head(held[e]) = Read(e) + Len(out[o]) + 1
    BY <1>5, <2>1
  <2>3. QED
    BY <1>2, <1>4, <2>1, <2>2, AppendNumbered
<1>7. TypeOK'
  <2>1. held' \in [Ends -> Seq(Nat)] /\ out' \in [Ends -> Seq(Nat)]
    BY <1>1, <1>2, <1>5, <1>6 DEF TypeOK
  <2>2. \A x \in Ends : Len(out'[x]) <= Window
    BY <1>1, <1>2, <1>6, FlowTypes, WindowAssumption DEF TypeOK
  <2>3. \A x \in Ends : Len(held'[x]) <= Chunk
    <3>1. \A x \in Ends : Len(held[x]) <= Chunk
        BY DEF TypeOK
    <3>2. held[e] \in Seq(Nat) /\ Len(held[e]) \in Nat
        BY FlowTypes, LenNat
    <3>3. Len(held'[e]) <= Chunk
        BY <1>5, <3>1, <3>2, ChunkAssumption
    <3>4. QED
        BY <1>2, <3>1, <3>3
  <2>4. QED
    BY <1>1, <2>1, <2>2, <2>3 DEF TypeOK
<1>8. Flow(o)'
    BY <1>1, <1>2, <1>3, FlowKept
<1>9. Flow(e)'
  <2>1. Read(e)' = Read(e)
    BY <1>1 DEF Read
  <2>2. Passed(e)' = Passed(e) + 1
    BY <1>6, <2>1, FlowTypes DEF Passed
  <2>3. Taken(e)' = Taken(e)
    BY <1>5, <2>2, FlowTypes DEF Taken
  <2>4. Arrived(e)' = Arrived(e)
    BY <1>1, <2>3 DEF Arrived
  <2>5. QED
    BY <1>1, <1>4, <1>5, <1>6, <2>1, <2>2, <2>3, <2>4 DEF Flow, Numbered
<1>10. CopyInv' /\ DoneInv'
    BY <1>1, <1>2 DEF CopyInv, DoneInv
<1>11. QED
    BY <1>7, <1>8, <1>9, <1>10, TwoFlows

LEMMA CopyLosesStep == IInv => \A e \in Ends : CopyLoses(e) => IInv'
<1> SUFFICES ASSUME IInv, NEW e \in Ends, CopyLoses(e) PROVE IInv'
    OBVIOUS
<1> USE EndsFacts DEF IInv
<1>1. /\ UNCHANGED <<pc, side, written, got, inbuf, out>>
      /\ copy[e] = "run" /\ side[Other(e)] = "gone"
      /\ held' = [held EXCEPT ![e] = <<>>]
      /\ copy' \in {copy, [copy EXCEPT ![e] = "done"]}
    BY DEF CopyLoses, Runs, endVars
<1>2. /\ held'[e] = <<>>
      /\ \A x \in Ends : x /= e => held'[x] = held[x] /\ copy'[x] = copy[x]
    BY <1>1 DEF TypeOK
<1>3. TypeOK'
    BY <1>1, <1>2, ChunkAssumption DEF TypeOK
<1>4. Flow(e) /\ Flow(Other(e))
    BY DEF FlowInv
<1>5. Flow(Other(e))'
    BY <1>1, <1>2, <1>4, FlowKept
<1>6. Flow(e)'
    BY <1>1, <1>4 DEF Flow, Numbered, Read
<1>7. CopyInv'
    BY <1>1, <1>2 DEF CopyInv, TypeOK
<1>8. DoneInv'
    BY <1>1, <1>2 DEF DoneInv
<1>9. QED
    BY <1>3, <1>5, <1>6, <1>7, <1>8, TwoFlows

LEMMA CopyEndsStep == IInv => \A e \in Ends : CopyEnds(e) => IInv'
<1> SUFFICES ASSUME IInv, NEW e \in Ends, CopyEnds(e) PROVE IInv'
    OBVIOUS
<1> USE EndsFacts DEF IInv
<1>1. /\ UNCHANGED <<pc, held, side, written, got, inbuf, out>>
      /\ copy[e] = "run" /\ held[e] = <<>>
      /\ side[e] /= "open" /\ inbuf[e] = <<>>
      /\ copy' = [copy EXCEPT ![e] = "done"]
    BY DEF CopyEnds, Runs, Eof, endVars
<1>2. \A x \in Ends : x /= e => copy'[x] = copy[x]
    BY <1>1 DEF TypeOK
<1>3. TypeOK'
    BY <1>1 DEF TypeOK
<1>4. FlowInv'
    BY <1>1, FlowKept DEF FlowInv
<1>5. CopyInv' /\ DoneInv'
    BY <1>1, <1>2 DEF CopyInv, DoneInv, TypeOK
<1>6. QED
    BY <1>3, <1>4, <1>5

LEMMA NextInv == IInv /\ [Next]_vars => IInv'
<1> SUFFICES ASSUME IInv, [Next]_vars PROVE IInv'
    OBVIOUS
<1>1. CASE UNCHANGED vars
    BY <1>1 DEF IInv, TypeOK, FlowInv, Flow, CopyInv, DoneInv, Numbered, Read,
            Passed, Taken, Arrived, vars, handlerVars, endVars
<1>2. CASE Next
    BY <1>2, HandlerSteps, CloseStep, EndWritesStep, HalfCloseStep, LeaveStep,
       EndReadsStep, CopyReadsStep, CopyWritesStep, CopyLosesStep, CopyEndsStep
    DEF Next, Copier
<1>3. QED
    BY <1>1, <1>2

LEMMA InvHolds == Spec => []IInv
    BY InitInv, NextInv, PTL DEF Spec
----------------------------------------------------------------------------
\* The theorems.

\* Every variable has its type, the copier's buffer and the receiver's window
\* included, for any sizes.
THEOREM TypeCorrect == Spec => []TypeOK
    BY InvHolds, PTL DEF IInv

\* handleDirectTCPIP closes a connection that neither end has left only after
\* everything written on either side has been passed on.
THEOREM NothingIsCutOff == Spec => []NothingCutOff
<1>1. IInv => NothingCutOff
  <2> SUFFICES ASSUME IInv, pc = "closed", \A e \in Ends : side[e] /= "gone",
                      NEW e \in Ends
               PROVE  Len(got[Other(e)]) + Len(out[Other(e)]) = written[e]
    BY DEF NothingCutOff
  <2>1. held[e] = <<>> /\ inbuf[e] = <<>> /\ Other(e) \in Ends
    BY EndsFacts DEF IInv, CopyInv, DoneInv
  <2>2. Arrived(e) = written[e]
    BY <2>1 DEF IInv, FlowInv, Flow
  <2>3. Arrived(e) = Passed(e)
    BY <2>1, FlowTypes DEF IInv
  <2>4. QED
    BY <2>2, <2>3, FlowTypes DEF IInv, Passed, Read
<1>2. QED
    BY <1>1, InvHolds, PTL

\* Both ends see one FIFO pipe in each direction, cut when both have finished
\* or one has left.
THEOREM ImplementsBothPipes == Spec => ImplementsPipes
<1>1. Init => P!Init
    BY DEF Init, P!Init
<1>2. IInv /\ [Next]_vars => [P!Next]_(P!pipeVars)
  <2> SUFFICES ASSUME IInv, [Next]_vars PROVE [P!Next]_(P!pipeVars)
    OBVIOUS
  <2> USE EndsFacts
  <2>1. CASE Close
    <3>1. \A e \in Ends : side[Other(e)] = "gone" \/ side[e] /= "open"
        BY <2>1 DEF Close, BothDone, IInv, DoneInv
    <3>2. QED
        BY <2>1, <3>1 DEF Close, endVars, P!Next, P!Cut
  <2>2. ASSUME NEW e \in Ends, EndWrites(e) PROVE P!Next
    <3>1. P!Write(e)
        BY <2>2 DEF EndWrites, Connected, handlerVars, P!Write
    <3>2. QED
        BY <3>1 DEF P!Next
  <2>3. ASSUME NEW e \in Ends, HalfClose(e) \/ Leave(e) PROVE P!Next
    <3>1. /\ UNCHANGED <<written, got, pc>> /\ pc /= "closed"
          /\ side' \in {[side EXCEPT ![e] = "eof"], [side EXCEPT ![e] = "gone"]}
          /\ side' = [side EXCEPT ![e] = "eof"] => side[e] = "open"
        BY <2>3 DEF HalfClose, Leave, Connected, handlerVars, IInv, TypeOK
    <3>2. P!Finish(e)
        BY <3>1 DEF P!Finish, IInv, TypeOK
    <3>3. QED
        BY <3>2 DEF P!Next
  <2>4. ASSUME NEW o \in Ends, EndReads(o) PROVE P!Next
    <3>1. PICK e \in Ends : o = Other(e) /\ e /= o
        BY EndsFacts
    <3>2. /\ out[o] \in Seq(Nat) /\ got[o] \in Seq(Nat) /\ out[o] /= <<>>
          /\ Numbered(out[o], Read(e)) /\ Arrived(e) <= written[e]
        BY <2>4, <3>1, FlowTypes DEF EndReads, IInv, FlowInv, Flow
    <3>3. Read(e) = Len(got[o]) /\ Read(e) \in Nat
        BY <3>1, FlowTypes DEF IInv
    <3>4. Head(out[o]) = Read(e) + 1 /\ Len(out[o]) > 0
        BY <3>2, <3>3, TailNumbered
    <3>5. /\ Len(out[o]) \in Nat /\ Len(held[e]) \in Nat /\ Len(inbuf[e]) \in Nat
          /\ Arrived(e) = Read(e) + Len(out[o]) + Len(held[e]) + Len(inbuf[e])
          /\ written[e] \in Nat
        BY <3>1, FlowTypes, LenNat DEF IInv
    <3>6. Head(out[o]) = Len(got[o]) + 1 /\ Len(got[o]) < written[e]
      <4>1. Arrived(e) <= written[e]
        BY <3>2
      <4>2. Read(e) + Len(out[o]) + Len(held[e]) + Len(inbuf[e]) <= written[e]
        BY <3>5, <4>1, Zenon
      <4>3. Read(e) < written[e]
        BY <3>3, <3>4, <3>5, <4>2, Below
      <4>4. QED
        BY <3>3, <3>4, <4>3
    <3>7. P!Read(o)
        BY <2>4, <3>1, <3>6 DEF EndReads, handlerVars, P!Read
    <3>8. QED
        BY <3>7 DEF P!Next
  <2>5. CASE Open \/ Dial \/ (\E e \in Ends : Copier(e)) \/ UNCHANGED vars
    <3>1. UNCHANGED <<written, got, side>>
        BY <2>5 DEF Open, Dial, Copier, CopyReads, CopyWrites, CopyLoses,
                    CopyEnds, endVars, vars
    <3>2. (pc' = "closed") <=> (pc = "closed")
        BY <2>5 DEF Open, Dial, Copier, CopyReads, CopyWrites, CopyLoses,
                    CopyEnds, vars, handlerVars
    <3>3. QED
        BY <3>1, <3>2 DEF P!pipeVars
  <2>6. QED
    BY <2>1, <2>2, <2>3, <2>4, <2>5 DEF Next
<1>3. QED
    BY <1>1, <1>2, InvHolds, PTL DEF Spec, ImplementsPipes, P!Spec
=============================================================================

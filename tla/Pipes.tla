------------------------------- MODULE Pipes --------------------------------
(* What a forwarded connection promises its two ends: what one end reads is, *)
(* in order and without gaps, what the other has written, and the connection *)
(* is cut only when neither end has any more use for it.                     *)
EXTENDS Naturals, Sequences

CONSTANT Ends
VARIABLES
    written,    \* how many bytes each end has written: byte n is the nth
    got,        \* what each end has read
    over,       \* ends that have no more to send
    gone,       \* ends that have left altogether
    cut         \* the connection is closed

pipeVars == <<written, got, over, gone, cut>>

Init ==
    /\ written = [e \in Ends |-> 0]
    /\ got = [e \in Ends |-> <<>>]
    /\ over = {} /\ gone = {}
    /\ cut = FALSE

Write(e) ==
    /\ ~cut /\ e \notin over
    /\ written' = [written EXCEPT ![e] = @ + 1]
    /\ UNCHANGED <<got, over, gone, cut>>

\* o reads the next byte that e has written, also after the cut.
Read(o) ==
    /\ \E e \in Ends \ {o} : Len(got[o]) < written[e]
    /\ got' = [got EXCEPT ![o] = Append(@, Len(@) + 1)]
    /\ UNCHANGED <<written, over, gone, cut>>

Finish(e) ==
    /\ ~cut
    /\ over' = over \cup {e}
    /\ gone' \in {gone, gone \cup {e}}
    /\ UNCHANGED <<written, got, cut>>

\* An end that still wants to send is cut off only when the other has left.
Cut ==
    /\ over = Ends \/ gone /= {}
    /\ cut' = TRUE
    /\ UNCHANGED <<written, got, over, gone>>

Next == Cut \/ \E e \in Ends : Write(e) \/ Read(e) \/ Finish(e)

Spec == Init /\ [][Next]_pipeVars
=============================================================================

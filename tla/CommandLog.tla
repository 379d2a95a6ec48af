----------------------------- MODULE CommandLog -----------------------------
(***************************************************************************)
(* What a command call promises, without devices and connections: requests *)
(* are taken one at a time, the one before has been answered; a request is *)
(* run at most once, and always where the FIRST request of the call said;  *)
(* answers come in the order of the requests.  When a command runs is open *)
(* (the device may get to it after the answer), and it may never run.      *)
(***************************************************************************)
EXTENDS Commands

VARIABLES
    log,        \* requests taken
    ran,        \* executions on devices
    replies     \* answers, the i-th one for the i-th request

vars == <<log, ran, replies>>

Init ==
    /\ log = <<>>
    /\ ran = <<>>
    /\ replies = <<>>

Take ==
    /\ Len(replies) = Len(log)
    /\ \E r \in Requests : log' = Append(log, r)
    /\ UNCHANGED <<ran, replies>>

Run ==
    /\ \E k \in 1 .. Len(log) :
          /\ \A i \in 1 .. Len(ran) : ran[i].req /= k
          /\ Known(log[1]) /\ Target(log[1]).proto \in Protos
          /\ ran' = Append(ran, [req |-> k, to |-> Target(log[1])])
    /\ UNCHANGED <<log, replies>>

Answer ==
    /\ Len(replies) < Len(log)
    /\ Len(replies') = Len(replies) + 1
    /\ \A i \in 1 .. Len(replies) : replies'[i] = replies[i]
    /\ UNCHANGED <<log, ran>>

Next == Take \/ Run \/ Answer

Spec == Init /\ [][Next]_vars
============================================================================

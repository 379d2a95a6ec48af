------------------------ MODULE AuthorizedKeysProofs ------------------------
(***************************************************************************)
(* Proofs about AuthorizedKeys, for every set of keys and connections,     *)
(* every queue capacity and any number of changes to the file.             *)
(***************************************************************************)
EXTENDS AuthorizedKeys, TLAPS

\* What the queue holds after an event: records of the same type, every
\* relevant record that was there, and the new one if it fitted.
LEMMA QueuedType ==
    ASSUME events \in Seq(Events), NEW e \in Events, NEW q \in Queued(e)
    PROVE  q \in Seq(Events)
<1>1. Overflow \in Events
  BY DEF Overflow, Events, Ops, Names
<1>2. QED
  BY <1>1 DEF Queued

LEMMA QueuedKeeps ==
    ASSUME events \in Seq(Events), NEW e \in Events, NEW q \in Queued(e),
           NEW i \in 1 .. Len(events)
    PROVE  i \in 1 .. Len(q) /\ q[i] = events[i]
<1>1. Overflow \in Events
  BY DEF Overflow, Events, Ops, Names
<1>2. CASE q = events
  BY <1>2
<1>3. CASE q = Append(events, e)
  BY <1>3
<1>4. CASE q = Append(events, Overflow)
  BY <1>1, <1>4
<1>5. QED
  BY <1>2, <1>3, <1>4 DEF Queued

LEMMA QueuedAdds ==
    ASSUME events \in Seq(Events), NEW e \in Events, NEW q \in Queued(e),
           watchOn, ~(Len(events) >= EvCap)
    PROVE  \E i \in 1 .. Len(q) : q[i] = e
<1>1. Len(events) < EvCap
  BY EvCapAssumption
<1>2. CASE q = Append(events, e)
  <2>1. Len(events) + 1 \in 1 .. Len(q) /\ q[Len(events) + 1] = e
    BY <1>2
  <2>2. QED
    BY <2>1
<1>3. CASE q = events /\ Len(q) > 0 /\ q[Len(q)] = e
  <2>1. Len(q) \in 1 .. Len(q)
    BY <1>3
  <2>2. QED
    BY <1>3, <2>1
<1>4. QED
  BY <1>1, <1>2, <1>3 DEF Queued

----------------------------------------------------------------------------
\* Type correctness.

LEMMA CurrentType ==
    ASSUME TypeOK PROVE Current \in Files
BY DEF TypeOK, Current

LEMMA ParseType ==
    ASSUME NEW ls \in SUBSET Lines PROVE Parse(ls) \in SUBSET Keys
BY DEF Parse

\* A reading of a history of typed versions is a set of keys.
LEMMA ReadingsType ==
    ASSUME NEW p \in Seq(Files), NEW i \in 1 .. Len(p), NEW j \in i .. Len(p)
    PROVE  Readings(p, i, j) \subseteq SUBSET Keys
<1>1. \A f \in Files : f.lines \in SUBSET Lines
  BY ContentsAssumption DEF Files
<1>2. \A n \in i .. j : p[n] \in Files
  OBVIOUS
<1>3. \A n \in i .. j : Parse(p[n].lines) \in SUBSET Keys
  BY <1>1, <1>2, ParseType
<1>4. i \in i .. j
  OBVIOUS
<1>5. QED
  BY <1>3, <1>4, CutsAssumption DEF Readings

\* It depends on the versions that the read overlapped and on no other.
LEMMA ReadingsKept ==
    ASSUME NEW p, NEW q, NEW i \in Nat, NEW j \in Nat, i <= j,
           \A n \in i .. j : q[n] = p[n]
    PROVE  /\ OneFile(q, i, j) = OneFile(p, i, j)
           /\ Readings(q, i, j) = Readings(p, i, j)
<1>1. i \in i .. j /\ \A n \in i + 1 .. j : n \in i .. j
  OBVIOUS
<1>2. OneFile(q, i, j) = OneFile(p, i, j)
  BY <1>1 DEF OneFile
<1>3. {Parse(q[n].lines) : n \in i .. j} = {Parse(p[n].lines) : n \in i .. j}
  OBVIOUS
<1>4. Readings(q, i, j) = Readings(p, i, j)
  BY <1>1, <1>3 DEF Readings
<1>5. QED
  BY <1>2, <1>4

LEMMA InitType == Init => TypeOK
<1> SUFFICES ASSUME Init PROVE TypeOK
  OBVIOUS
<1>1. published \in Seq(Files) /\ Len(published) > 0
  BY DEF Init
<1>2. auth \in [Clients -> AuthStates]
  BY DEF Init, AuthStates
<1>3. since \in [Clients -> SUBSET SUBSET Keys]
  BY DEF Init
<1>4. /\ watchOn \in BOOLEAN /\ stopped \in BOOLEAN /\ missed \in BOOLEAN
  BY DEF Init
<1>5. /\ events \in Seq(Events)
      /\ main \in {"load", "read", "publish", "watch", "add", "hostkey",
                   "serving", "failed"}
      /\ worker \in {"none", "select", "load", "read", "publish", "ended"}
      /\ buf \in SUBSET Keys /\ keys \in SUBSET Keys
      /\ bufVer \in Nat /\ keysVer \in Nat
  BY DEF Init
<1>6. QED
  BY <1>1, <1>2, <1>3, <1>4, <1>5, Zenon DEF TypeOK

\* A change to the file keeps the types.
LEMMA ChangeType ==
    ASSUME TypeOK, NEW f \in Files, NEW e \in Events, Change(f, e)
    PROVE  TypeOK'
<1>1. published' \in Seq(Files) /\ Len(published') > 0
  BY DEF TypeOK, Change
<1>2. events' \in Seq(Events)
  BY QueuedType DEF TypeOK, Change
<1>3. missed' \in BOOLEAN
  BY Zenon DEF Change
<1>4. QED
  BY <1>1, <1>2, <1>3 DEF TypeOK, Change, serverVars

\* Every change the environment makes is Change(f, e) for a typed file and a
\* typed event.
LEMMA EnvironmentChanges ==
    ASSUME TypeOK, Environment
    PROVE  TouchOther \/ \E f \in Files, e \in Events : Change(f, e)
<1>1. Current \in Files
  BY CurrentType
<1>2. CASE WriteFile
  <2>1. PICK ls \in Contents :
            Change([Current EXCEPT !.lines = ls, !.new = FALSE],
                   [op |-> "write", name |-> "file"])
    BY <1>2 DEF WriteFile
  <2>2. [Current EXCEPT !.lines = ls, !.new = FALSE] \in Files
    BY <1>1, <1>2 DEF WriteFile, Files
  <2>3. QED
    BY <2>1, <2>2 DEF Events, Ops, Names
<1>3. CASE ReplaceFile
  <2>1. PICK ls \in Contents, n \in {"file", "data"} :
            Change([state |-> "present", lines |-> ls, new |-> TRUE],
                   [op |-> "create", name |-> n])
    BY <1>3 DEF ReplaceFile
  <2>2. [state |-> "present", lines |-> ls, new |-> TRUE] \in Files
    BY DEF Files
  <2>3. QED
    BY <2>1, <2>2 DEF Events, Ops, Names
<1>4. ASSUME NEW op \in {"remove", "rename"}, TakeAway(op)
      PROVE  \E f \in Files, e \in Events : Change(f, e)
  <2>1. [state |-> "absent", lines |-> {}, new |-> TRUE] \in Files
    BY DEF Files
  <2>2. QED
    BY <1>4, <2>1 DEF TakeAway, Events, Ops, Names
<1>5. CASE Chmod
  <2>1. [Current EXCEPT !.state =
            IF @ = "present" THEN "unreadable" ELSE "present",
         !.new = FALSE] \in Files
    BY <1>1, <1>5 DEF Chmod, Files
  <2>2. QED
    BY <1>5, <2>1 DEF Chmod, Events, Ops, Names
<1>6. QED
  BY <1>2, <1>3, <1>4, <1>5 DEF Environment

\* Where the file that a load reads can be found.
ReadingInv ==
    "read" \in {main, worker} =>
       bufVer \in 1 .. Len(published) /\ published[bufVer].state = "present"

LEMMA ReadEndsType ==
    ASSUME TypeOK, ReadEnds, bufVer \in 1 .. Len(published)
    PROVE  buf' \in SUBSET Keys /\ bufVer' \in 1 .. Len(published)
<1>1. PICK j \in bufVer .. Len(published) :
          buf' \in Readings(published, bufVer, j) /\ bufVer' = j
  BY DEF ReadEnds
<1>2. QED
  BY <1>1, ReadingsType DEF TypeOK

LEMMA SwapType ==
    ASSUME TypeOK, Swap
    PROVE  keys' \in SUBSET Keys /\ keysVer' \in Nat
           /\ since' \in [Clients -> SUBSET SUBSET Keys]
BY DEF TypeOK, Swap

LEMMA NextType == TypeOK /\ ReadingInv /\ [Next]_vars => TypeOK'
<1> SUFFICES ASSUME TypeOK, ReadingInv, [Next]_vars PROVE TypeOK'
  OBVIOUS
<1>1. CASE Environment
  <2>1. CASE TouchOther
    <3>1. events' \in Seq(Events)
      BY <2>1, QueuedType DEF TypeOK, TouchOther, Events, Ops, Names
    <3>2. QED
      BY <2>1, <3>1 DEF TypeOK, TouchOther, serverVars, ghostVars
  <2>2. QED
    BY <1>1, <2>1, EnvironmentChanges, ChangeType
<1>2. CASE MainLoad
  <2>1. CASE Open /\ main' = "read"
    <3>1. bufVer' \in Nat
      BY <2>1 DEF TypeOK, Open
    <3>2. UNCHANGED <<published, watchOn, events, worker, buf, keys, stopped,
                      auth, keysVer, since>>
      BY <1>2, <2>1 DEF MainLoad, Open
    <3>3. missed' \in BOOLEAN
      BY <2>1 DEF Open
    <3>4. QED
      BY <2>1, <3>1, <3>2, <3>3 DEF TypeOK
  <2>2. CASE ReadFails("absent") /\ main' = "watch"
    BY <1>2, <2>2 DEF TypeOK, MainLoad, ReadFails
  <2>3. CASE ReadFails("unreadable") /\ main' = "failed"
    BY <1>2, <2>3 DEF TypeOK, MainLoad, ReadFails
  <2>4. QED
    BY <1>2, <2>1, <2>2, <2>3 DEF MainLoad
<1>3. CASE MainPublish
  BY <1>3, SwapType DEF TypeOK, MainPublish, Swap
<1>4. CASE MainWatch
  BY <1>4 DEF TypeOK, MainWatch, ghostVars
<1>5. CASE MainAdd
  BY <1>5 DEF TypeOK, MainAdd, ghostVars
<1>6. CASE MainHostKey
  BY <1>6 DEF TypeOK, MainHostKey, ghostVars
<1>7. CASE Stop
  BY <1>7 DEF TypeOK, Stop, ghostVars
<1>8. CASE WorkerTake
  <2>1. events' \in Seq(Events)
    BY <1>8 DEF TypeOK, WorkerTake
  <2>2. QED
    BY <1>8, <2>1 DEF TypeOK, WorkerTake, ghostVars
<1>9. CASE WorkerLoad
  <2>1. CASE Open /\ worker' = "read"
    <3>1. bufVer' \in Nat
      BY <2>1 DEF TypeOK, Open
    <3>2. UNCHANGED <<published, watchOn, events, main, buf, keys, stopped,
                      auth, keysVer, since>>
      BY <1>9, <2>1 DEF WorkerLoad, Open
    <3>3. missed' \in BOOLEAN
      BY <2>1 DEF Open
    <3>4. QED
      BY <2>1, <3>1, <3>2, <3>3 DEF TypeOK
  <2>2. CASE \E s \in {"absent", "unreadable"} :
                ReadFails(s) /\ worker' = "select"
    BY <1>9, <2>2 DEF TypeOK, WorkerLoad, ReadFails
  <2>3. QED
    BY <1>9, <2>1, <2>2 DEF WorkerLoad
<1>10. CASE WorkerPublish
  BY <1>10, SwapType DEF TypeOK, WorkerPublish, Swap
<1>11. CASE WorkerEnds
  BY <1>11 DEF TypeOK, WorkerEnds, ghostVars
<1>12. ASSUME NEW c \in Clients, Offer(c) PROVE TypeOK'
  <2>1. since' \in [Clients -> SUBSET SUBSET Keys]
    BY <1>12 DEF TypeOK, Offer
  <2>2. PICK k \in Keys :
           auth' = [auth EXCEPT ![c] = [pc |-> "snapshot", key |-> k,
                                        empty |-> FALSE, exists |-> FALSE]]
    BY <1>12 DEF Offer
  <2>3. [pc |-> "snapshot", key |-> k, empty |-> FALSE, exists |-> FALSE]
           \in AuthStates
    BY DEF AuthStates
  <2>4. auth' \in [Clients -> AuthStates]
    BY <2>2, <2>3 DEF TypeOK
  <2>5. QED
    BY <1>12, <2>1, <2>4 DEF TypeOK, Offer
<1>13. ASSUME NEW c \in Clients, Snapshot(c) PROVE TypeOK'
  <2> DEFINE r == [pc |-> "decide", key |-> auth[c].key,
                   empty |-> keys = {}, exists |-> auth[c].key \in keys]
  <2>1. auth[c].key \in Keys
    BY DEF TypeOK, AuthStates
  <2>2. (keys = {}) \in BOOLEAN /\ (auth[c].key \in keys) \in BOOLEAN
    OBVIOUS
  <2>3. r \in AuthStates
    BY <2>1, <2>2 DEF AuthStates
  <2>4. auth' = [auth EXCEPT ![c] = r]
    BY <1>13 DEF Snapshot
  <2>5. auth' \in [Clients -> AuthStates]
    BY <2>3, <2>4 DEF TypeOK
  <2>6. QED
    BY <1>13, <2>5 DEF TypeOK, Snapshot, ghostVars
<1>14. ASSUME NEW c \in Clients, Decide(c) PROVE TypeOK'
  <2>1. auth' \in [Clients -> AuthStates]
    BY <1>14 DEF TypeOK, Decide, AuthStates
  <2>2. QED
    BY <1>14, <2>1 DEF TypeOK, Decide, ghostVars
<1>15. CASE MainRead \/ WorkerRead
  <2>1. buf' \in SUBSET Keys /\ bufVer' \in Nat
    BY <1>15, ReadEndsType DEF MainRead, WorkerRead, ReadingInv
  <2>2. QED
    BY <1>15, <2>1 DEF TypeOK, MainRead, WorkerRead, ReadEnds
<1>16. CASE UNCHANGED vars
  BY <1>16 DEF TypeOK, vars, serverVars, ghostVars
<1>17. QED
  BY <1>1, <1>2, <1>3, <1>4, <1>5, <1>6, <1>7, <1>8, <1>9, <1>10, <1>11,
     <1>12, <1>13, <1>14, <1>15, <1>16 DEF Next, Main, Worker, Callback

----------------------------------------------------------------------------
\* The order of start-up: the goroutine does not exist before
\* NewBastionServer, having loaded the file once, starts it.  So only one of
\* the two loads at a time, and buf and bufVer belong to that one.

StartOrder == main \in {"load", "read", "publish", "watch"} => worker = "none"

LEMMA StartOrderStep == StartOrder /\ [Next]_vars => StartOrder'
<1> SUFFICES ASSUME StartOrder, [Next]_vars PROVE StartOrder'
  OBVIOUS
<1> USE DEF StartOrder
<1>1. CASE Environment
  <2>1. UNCHANGED <<main, worker>>
    BY <1>1 DEF Environment, WriteFile, ReplaceFile, TakeAway, Chmod,
       TouchOther, Change, serverVars
  <2>2. QED
    BY <2>1
<1>2. CASE Main
  BY <1>2 DEF Main, MainLoad, MainRead, MainPublish, MainWatch, MainAdd,
     MainHostKey
<1>3. CASE Stop
  BY <1>3 DEF Stop
<1>4. CASE Worker
  BY <1>4 DEF Worker, WorkerTake, WorkerLoad, WorkerRead, WorkerPublish,
     WorkerEnds
<1>5. ASSUME NEW c \in Clients, Callback(c) PROVE StartOrder'
  BY <1>5 DEF Callback, Offer, Snapshot, Decide
<1>6. CASE UNCHANGED vars
  BY <1>6 DEF vars, serverVars
<1>7. QED
  BY <1>1, <1>2, <1>3, <1>4, <1>5, <1>6 DEF Next

\* What a change leaves as it was.
LEMMA ChangeKeeps ==
    ASSUME TypeOK, NEW f \in Files, NEW e \in Events, Change(f, e)
    PROVE  /\ Len(published') = Len(published) + 1
           /\ \A i \in 1 .. Len(published) : published'[i] = published[i]
           /\ UNCHANGED <<main, worker, buf, keys, bufVer, keysVer>>
BY DEF TypeOK, Change, serverVars

\* The steps that have nothing to do with a load in progress.
Elsewhere ==
    \/ MainWatch \/ MainAdd \/ MainHostKey \/ Stop \/ WorkerTake \/ WorkerEnds
    \/ TouchOther \/ (\E c \in Clients : Callback(c)) \/ UNCHANGED vars

LEMMA ElsewhereKeeps ==
    ASSUME Elsewhere
    PROVE  /\ UNCHANGED <<published, buf, keys, bufVer, keysVer>>
           /\ \A s \in {"read", "publish"} :
                 s \in {main', worker'} => s \in {main, worker}
BY DEF Elsewhere, TouchOther, MainWatch, MainAdd, MainHostKey, Stop,
   WorkerTake, WorkerEnds, Callback, Offer, Snapshot, Decide, vars,
   serverVars, ghostVars

LEMMA ReadingStep ==
    TypeOK /\ StartOrder /\ ReadingInv /\ [Next]_vars => ReadingInv'
<1> SUFFICES ASSUME TypeOK, StartOrder, ReadingInv, [Next]_vars
             PROVE  ReadingInv'
  OBVIOUS
<1>1. ASSUME NEW f \in Files, NEW e \in Events, Change(f, e)
      PROVE  ReadingInv'
  BY <1>1, ChangeKeeps DEF ReadingInv, TypeOK
<1>2. CASE MainLoad \/ WorkerLoad
  <2>1. CASE Open
    BY <1>2, <2>1 DEF MainLoad, WorkerLoad, Open, ReadingInv, Current, TypeOK
  <2>2. CASE \E s : ReadFails(s) /\ main' \in {"watch", "failed", main}
                    /\ worker' \in {"select", worker}
    BY <1>2, <2>2 DEF MainLoad, WorkerLoad, ReadFails, ReadingInv
  <2>3. QED
    BY <1>2, <2>1, <2>2 DEF MainLoad, WorkerLoad
<1>3. CASE MainRead \/ WorkerRead \/ MainPublish \/ WorkerPublish
  BY <1>3 DEF MainRead, WorkerRead, MainPublish, WorkerPublish, Swap,
     StartOrder, ReadingInv
<1>4. CASE Elsewhere
  BY <1>4, ElsewhereKeeps DEF ReadingInv
<1>5. QED
  BY <1>1, <1>2, <1>3, <1>4, EnvironmentChanges
     DEF Next, Main, Worker, Elsewhere

LoadInv == TypeOK /\ StartOrder /\ ReadingInv

LEMMA LoadInit == Init => LoadInv
BY InitType DEF Init, LoadInv, StartOrder, ReadingInv

LEMMA LoadStep == LoadInv /\ [Next]_vars => LoadInv'
BY NextType, StartOrderStep, ReadingStep DEF LoadInv

\* Every variable of the key table keeps its type.
THEOREM TypeCorrect == Spec => []TypeOK
<1>1. LoadInv => TypeOK
  BY DEF LoadInv
<1>2. QED
  BY <1>1, LoadInit, LoadStep, PTL DEF Spec

----------------------------------------------------------------------------
\* No silent staleness.  A read that overlaps a change may find anything, so
\* the invariant has to say of a load that still reads that no change came
\* since it opened the file, or that a reload is owed already.

Owed == missed \/ \E i \in 1 .. Len(events) : Relevant(events[i])

Undisturbed == "read" \in {main, worker} => Owed \/ bufVer = Len(published)

StaleInv == LoadInv /\ Undisturbed /\ NoSilentStaleness

\* A change is either announced by a relevant event in the queue or missed.
LEMMA ChangeAnnounced ==
    ASSUME TypeOK, NEW f \in Files, NEW e \in Events, Change(f, e)
    PROVE  Owed'
<1>1. CASE missed'
  BY <1>1 DEF Owed
<1>2. CASE ~missed'
  <2>1. watchOn /\ ~(Len(events) >= EvCap) /\ Relevant(e)
    BY <1>2 DEF Change
  <2>2. \E i \in 1 .. Len(events') : events'[i] = e
    BY <2>1, QueuedAdds DEF Change, TypeOK
  <2>3. QED
    BY <2>1, <2>2 DEF Owed
<1>3. QED
  BY <1>1, <1>2

LEMMA UndisturbedStep ==
    LoadInv /\ Undisturbed /\ [Next]_vars => Undisturbed'
<1> SUFFICES ASSUME LoadInv, Undisturbed, [Next]_vars PROVE Undisturbed'
  OBVIOUS
<1> USE DEF LoadInv
<1>1. ASSUME NEW f \in Files, NEW e \in Events, Change(f, e)
      PROVE  Undisturbed'
  BY <1>1, ChangeAnnounced DEF Undisturbed
<1>2. CASE MainLoad \/ WorkerLoad
  <2>1. CASE Open
    BY <1>2, <2>1 DEF Open, Undisturbed
  <2>2. CASE \E s : ReadFails(s) /\ main' \in {"watch", "failed", main}
                    /\ worker' \in {"select", worker}
    <3>1. "read" \notin {main', worker'}
      BY <1>2, <2>2 DEF MainLoad, WorkerLoad, StartOrder
    <3>2. QED
      BY <3>1 DEF Undisturbed
  <2>3. QED
    BY <1>2, <2>1, <2>2 DEF MainLoad, WorkerLoad
<1>3. CASE MainRead \/ WorkerRead \/ MainPublish \/ WorkerPublish
  BY <1>3 DEF MainRead, WorkerRead, MainPublish, WorkerPublish, Swap,
     StartOrder, Undisturbed
<1>4. CASE TouchOther
  <2>1. ASSUME NEW i \in 1 .. Len(events), Relevant(events[i])
        PROVE  \E j \in 1 .. Len(events') : Relevant(events'[j])
    <3>1. [op |-> "write", name |-> "other"] \in Events
      BY DEF Events, Ops, Names
    <3>2. i \in 1 .. Len(events') /\ events'[i] = events[i]
      BY <1>4, <3>1, QueuedKeeps DEF TouchOther, TypeOK
    <3>3. QED
      BY <2>1, <3>2
  <2>2. UNCHANGED <<published, main, worker, bufVer, missed>>
    BY <1>4 DEF TouchOther, serverVars, ghostVars
  <2>3. QED
    BY <2>1, <2>2 DEF Undisturbed, Owed
<1>5. CASE WorkerTake
  BY <1>5 DEF WorkerTake, Undisturbed, StartOrder
<1>6. CASE Elsewhere /\ ~TouchOther /\ ~WorkerTake
  <2>1. UNCHANGED <<events, missed>>
    BY <1>6 DEF Elsewhere, MainWatch, MainAdd, MainHostKey, Stop, WorkerEnds,
       Callback, Offer, Snapshot, Decide, vars, ghostVars
  <2>2. QED
    BY <1>6, <2>1, ElsewhereKeeps DEF Undisturbed, Owed
<1>7. QED
  BY <1>1, <1>2, <1>3, <1>4, <1>5, <1>6, EnvironmentChanges
     DEF Next, Main, Worker, Elsewhere

\* A read that no change disturbed returns what the file holds.
LEMMA UndisturbedRead ==
    ASSUME TypeOK, ReadEnds, bufVer = Len(published)
    PROVE  buf' = Parse(Current.lines)
<1>1. PICK j \in bufVer .. Len(published) :
          buf' \in Readings(published, bufVer, j)
  BY DEF ReadEnds
<1>2. j = bufVer /\ bufVer \in Nat
  BY <1>1 DEF TypeOK
<1>3. \A n \in bufVer .. j : published[n].lines = published[bufVer].lines
  BY <1>2
<1>4. QED
  BY <1>1, <1>3 DEF Readings, Current

LEMMA StaleStep == StaleInv /\ [Next]_vars => NoSilentStaleness'
<1> SUFFICES ASSUME StaleInv, [Next]_vars PROVE NoSilentStaleness'
  OBVIOUS
<1> USE DEF StaleInv, LoadInv
<1>0. Owed' => NoSilentStaleness'
  BY DEF Owed, NoSilentStaleness
<1>1. CASE Environment
  <2>1. CASE TouchOther
    <3>1. ASSUME NEW i \in 1 .. Len(events), Relevant(events[i])
          PROVE  \E j \in 1 .. Len(events') : Relevant(events'[j])
      <4>1. [op |-> "write", name |-> "other"] \in Events
        BY DEF Events, Ops, Names
      <4>2. i \in 1 .. Len(events') /\ events'[i] = events[i]
        BY <2>1, <4>1, QueuedKeeps DEF TouchOther, TypeOK
      <4>3. QED
        BY <3>1, <4>2
    <3>2. UNCHANGED <<published, main, worker, buf, keys, bufVer, missed>>
      BY <2>1 DEF TouchOther, serverVars, ghostVars
    <3>3. QED
      BY <3>1, <3>2 DEF NoSilentStaleness, Fresh, Coming, Current
  <2>2. QED
    BY <1>0, <1>1, <2>1, EnvironmentChanges, ChangeAnnounced
<1>2. CASE MainLoad \/ WorkerLoad
  <2>1. CASE Open
    <3>1. "read" \in {main', worker'}
      BY <1>2, <2>1 DEF MainLoad, WorkerLoad, Open, ReadFails
    <3>2. Fresh(Coming)'
      BY <2>1, <3>1 DEF Open, Fresh, Coming, Current
    <3>3. QED
      BY <3>2 DEF NoSilentStaleness
  <2>2. CASE \E s \in {"absent", "unreadable"} : ReadFails(s)
    <3>1. Fresh(Coming)'
      BY <2>2 DEF ReadFails, Fresh, Current
    <3>2. QED
      BY <3>1 DEF NoSilentStaleness
  <2>3. QED
    BY <1>2, <2>1, <2>2 DEF MainLoad, WorkerLoad
<1>3. CASE MainRead \/ WorkerRead
  <2>1. ReadEnds /\ "read" \in {main, worker}
    BY <1>3 DEF MainRead, WorkerRead
  <2>2. CASE Owed
    BY <1>0, <2>1, <2>2 DEF Owed, ReadEnds
  <2>3. CASE bufVer = Len(published)
    <3>1. buf' = Parse(Current.lines)
      BY <2>1, <2>3, UndisturbedRead
    <3>2. "publish" \in {main', worker'} /\ "read" \notin {main', worker'}
      BY <1>3 DEF MainRead, WorkerRead, StartOrder
    <3>3. published' = published
      BY <2>1 DEF ReadEnds
    <3>4. QED
      BY <3>1, <3>2, <3>3 DEF NoSilentStaleness, Fresh, Coming, Current
  <2>4. QED
    BY <2>1, <2>2, <2>3 DEF Undisturbed
<1>4. CASE MainPublish \/ WorkerPublish
  <2>1. Coming' = Coming /\ UNCHANGED <<published, events, missed>>
    BY <1>4 DEF MainPublish, WorkerPublish, Swap, Coming, StartOrder
  <2>2. main /= "load" /\ worker \notin {"load", "ended"}
    BY <1>4 DEF MainPublish, WorkerPublish, StartOrder
  <2>3. QED
    BY <2>1, <2>2 DEF NoSilentStaleness, Fresh, Current
<1>5. CASE MainWatch
  <2>1. Coming' = Coming /\ UNCHANGED <<published, events, missed>>
    BY <1>5 DEF MainWatch, Coming, StartOrder, ghostVars
  <2>2. main /= "load" /\ worker = "none"
    BY <1>5 DEF MainWatch, StartOrder
  <2>3. QED
    BY <2>1, <2>2 DEF NoSilentStaleness, Fresh, Current
<1>6. CASE MainAdd \/ MainHostKey
  <2>1. Coming' = Coming
        /\ UNCHANGED <<published, events, worker, missed>>
    BY <1>6 DEF MainAdd, MainHostKey, Coming, ghostVars
  <2>2. QED
    BY <1>6, <2>1 DEF NoSilentStaleness, Fresh, Current, MainAdd, MainHostKey
<1>7. CASE WorkerTake
  <2>1. CASE Relevant(Head(events))
    BY <1>7, <2>1 DEF WorkerTake, NoSilentStaleness
  <2>2. CASE ~Relevant(Head(events))
    <3>1. ASSUME NEW i \in 1 .. Len(events), Relevant(events[i])
          PROVE  \E j \in 1 .. Len(events') : Relevant(events'[j])
      <4>1. i # 1
        BY <1>7, <2>2, <3>1 DEF WorkerTake, TypeOK
      <4>2. i - 1 \in 1 .. Len(events') /\ events'[i - 1] = events[i]
        BY <1>7, <4>1 DEF WorkerTake, TypeOK
      <4>3. QED
        BY <3>1, <4>2
    <3>2. /\ Coming' = Coming
          /\ UNCHANGED <<published, main, missed>>
          /\ worker = "select"
      BY <1>7, <2>2 DEF WorkerTake, Coming, ghostVars
    <3>3. QED
      BY <3>1, <3>2 DEF NoSilentStaleness, Fresh, Current
  <2>3. QED
    BY <2>1, <2>2
<1>8. CASE WorkerEnds
  BY <1>8 DEF WorkerEnds, NoSilentStaleness
<1>9. CASE Stop \/ (\E c \in Clients : Callback(c)) \/ UNCHANGED vars
  <2>1. UNCHANGED <<published, events, main, worker, buf, keys, bufVer,
                    missed>>
    BY <1>9 DEF Stop, Callback, Offer, Snapshot, Decide, vars, serverVars,
       ghostVars
  <2>2. QED
    BY <2>1 DEF NoSilentStaleness, Fresh, Coming, Current
<1>10. QED
  BY <1>1, <1>2, <1>3, <1>4, <1>5, <1>6, <1>7, <1>8, <1>9
     DEF Next, Main, Worker

\* The reload logic never loses a change it was told about: while the table
\* differs from the file, because it is old or because the file changed while
\* it was read, a reload is pending, or the last change left no relevant event.
THEOREM NeverSilentlyStale == Spec => []NoSilentStaleness
<1>1. Init => StaleInv
  <2>1. Init => Undisturbed /\ NoSilentStaleness
    BY DEF Init, Undisturbed, NoSilentStaleness
  <2>2. QED
    BY <2>1, LoadInit DEF StaleInv
<1>2. StaleInv /\ [Next]_vars => StaleInv'
  BY LoadStep, UndisturbedStep, StaleStep DEF StaleInv
<1>3. StaleInv => NoSilentStaleness
  BY DEF StaleInv
<1>4. QED
  BY <1>1, <1>2, <1>3, PTL DEF Spec

----------------------------------------------------------------------------
\* One table behind every verdict.  Between the entry of a callback and its
\* look-up the current table is among those recorded; after the look-up the
\* two values it holds are those of one recorded table.

CallbackInv ==
    \A c \in Clients :
        LET a == auth[c] IN
        /\ a.pc = "snapshot" => keys \in since[c]
        /\ a.pc = "decide" =>
              \E T \in since[c] :
                  a.empty = (T = {}) /\ a.exists = (a.key \in T)

VerdictInv == LoadInv /\ CallbackInv /\ VerdictFromOneTable

LEMMA SwapVerdict ==
    ASSUME VerdictInv, Swap PROVE CallbackInv' /\ VerdictFromOneTable'
<1>1. UNCHANGED auth
  BY DEF Swap
<1>2. \A c \in Clients : since[c] \subseteq since'[c]
  BY DEF Swap
<1>3. \A c \in Clients : auth[c].pc = "snapshot" => keys' \in since'[c]
  BY DEF Swap
<1>4. CallbackInv'
  BY <1>1, <1>2, <1>3 DEF CallbackInv, VerdictInv
<1>5. VerdictFromOneTable'
  BY <1>1, <1>2 DEF VerdictFromOneTable, VerdictInv
<1>6. QED
  BY <1>4, <1>5

LEMMA VerdictStep ==
    VerdictInv /\ [Next]_vars => CallbackInv' /\ VerdictFromOneTable'
<1> SUFFICES ASSUME VerdictInv, [Next]_vars
             PROVE  CallbackInv' /\ VerdictFromOneTable'
  OBVIOUS
<1> USE DEF VerdictInv, LoadInv
<1>1. ASSUME NEW c \in Clients, Offer(c)
      PROVE  CallbackInv' /\ VerdictFromOneTable'
  <2>1. PICK k \in Keys :
           auth' = [auth EXCEPT ![c] = [pc |-> "snapshot", key |-> k,
                                        empty |-> FALSE, exists |-> FALSE]]
    BY <1>1 DEF Offer
  <2>2. keys' = keys /\ since' = [since EXCEPT ![c] = {keys}]
    BY <1>1 DEF Offer
  <2>3. auth'[c].pc = "snapshot" /\ since'[c] = {keys}
    BY <2>1, <2>2 DEF TypeOK
  <2>4. \A d \in Clients \ {c} : auth'[d] = auth[d] /\ since'[d] = since[d]
    BY <2>1, <2>2 DEF TypeOK
  <2>5. QED
    BY <2>2, <2>3, <2>4 DEF CallbackInv, VerdictFromOneTable
<1>2. ASSUME NEW c \in Clients, Snapshot(c)
      PROVE  CallbackInv' /\ VerdictFromOneTable'
  <2>1. /\ auth'[c] = [pc |-> "decide", key |-> auth[c].key,
                       empty |-> keys = {}, exists |-> auth[c].key \in keys]
        /\ \A d \in Clients \ {c} : auth'[d] = auth[d]
        /\ UNCHANGED <<keys, since>>
    BY <1>2 DEF Snapshot, TypeOK, ghostVars
  <2>2. keys \in since[c]
    BY <1>2 DEF Snapshot, CallbackInv
  <2>3. /\ auth'[c].pc = "decide"
        /\ auth'[c].empty = (keys = {})
        /\ auth'[c].exists = (auth'[c].key \in keys)
    BY <2>1
  <2>4. CallbackInv'
    BY <2>1, <2>2, <2>3 DEF CallbackInv
  <2>5. VerdictFromOneTable'
    BY <2>1, <2>3 DEF VerdictFromOneTable
  <2>6. QED
    BY <2>4, <2>5
<1>3. ASSUME NEW c \in Clients, Decide(c)
      PROVE  CallbackInv' /\ VerdictFromOneTable'
  <2>1. PICK T \in since[c] :
           /\ auth[c].empty = (T = {})
           /\ auth[c].exists = (auth[c].key \in T)
    BY <1>3 DEF Decide, CallbackInv
  <2>2. /\ auth'[c].key = auth[c].key
        /\ auth'[c].pc = IF auth[c].empty \/ auth[c].exists
                         THEN "accepted" ELSE "rejected"
        /\ \A d \in Clients \ {c} : auth'[d] = auth[d]
        /\ UNCHANGED <<keys, since>>
    BY <1>3 DEF Decide, TypeOK, AuthStates, ghostVars
  <2>3. auth'[c].pc = IF Admits(T, auth'[c].key)
                      THEN "accepted" ELSE "rejected"
    BY <2>1, <2>2 DEF Admits
  <2>4. CallbackInv'
    BY <2>2, <2>3 DEF CallbackInv
  <2>5. VerdictFromOneTable'
    BY <2>2, <2>3 DEF VerdictFromOneTable
  <2>6. QED
    BY <2>4, <2>5
<1>4. CASE MainPublish \/ WorkerPublish
  BY <1>4, SwapVerdict DEF MainPublish, WorkerPublish
<1>5. CASE \/ Environment \/ MainLoad \/ MainRead \/ MainWatch \/ MainAdd
           \/ MainHostKey \/ Stop \/ WorkerTake \/ WorkerLoad \/ WorkerRead
           \/ WorkerEnds \/ UNCHANGED vars
  <2>1. UNCHANGED <<auth, keys, since>>
    BY <1>5 DEF Environment, WriteFile, ReplaceFile, TakeAway, Chmod,
       TouchOther, Change, MainLoad, MainRead, MainWatch, MainAdd, MainHostKey,
       Stop, WorkerTake, WorkerLoad, WorkerRead, WorkerEnds, Open, ReadEnds,
       ReadFails, vars, serverVars, ghostVars
  <2>2. QED
    BY <2>1 DEF CallbackInv, VerdictFromOneTable
<1>6. QED
  BY <1>1, <1>2, <1>3, <1>4, <1>5 DEF Next, Main, Worker, Callback

\* However reloads interleave with authentication, every verdict is that of
\* one table that was current during the callback.
THEOREM VerdictsAreConsistent == Spec => []VerdictFromOneTable
<1>1. Init => VerdictInv
  <2>1. ASSUME Init PROVE \A c \in Clients : auth[c].pc = "idle"
    BY <2>1 DEF Init
  <2>2. QED
    BY <2>1, LoadInit DEF VerdictInv, CallbackInv, VerdictFromOneTable
<1>2. VerdictInv /\ [Next]_vars => VerdictInv'
  BY LoadStep, VerdictStep DEF VerdictInv
<1>3. VerdictInv => VerdictFromOneTable
  BY DEF VerdictInv
<1>4. QED
  BY <1>1, <1>2, <1>3, PTL DEF Spec

----------------------------------------------------------------------------
\* AuthorizedKeys implements KeyTable.  The map about to be published is what
\* a read can return that opened a version which exists and is no older than
\* the table's, and that overlapped no other versions than those up to bufVer.

Read(i) ==
    /\ published[i].state = "present"
    /\ OneFile(published, i, bufVer)
    /\ buf \in Readings(published, i, bufVer)

VersionInv ==
    /\ keysVer <= Len(published)
    /\ "read" \in {main, worker} => keysVer <= bufVer
    /\ "publish" \in {main, worker} =>
          /\ bufVer \in 1 .. Len(published)
          /\ \E i \in 1 .. bufVer : keysVer <= i /\ Read(i)

FollowInv == LoadInv /\ VersionInv

LEMMA ReadVersion ==
    ASSUME FollowInv, ReadEnds, "read" \in {main, worker}
    PROVE  /\ UNCHANGED <<published, keysVer>>
           /\ bufVer' \in 1 .. Len(published)
           /\ \E i \in 1 .. bufVer' : keysVer <= i /\ Read(i)'
<1>1. /\ bufVer \in 1 .. Len(published)
      /\ published[bufVer].state = "present"
      /\ keysVer <= bufVer
  BY DEF FollowInv, LoadInv, ReadingInv, VersionInv
<1>2. PICK j \in bufVer .. Len(published) :
          /\ OneFile(published, bufVer, j)
          /\ buf' \in Readings(published, bufVer, j)
          /\ bufVer' = j
  BY DEF ReadEnds
<1>3. UNCHANGED <<published, keysVer>>
  BY DEF ReadEnds
<1>4. PICK i \in 1 .. Len(published) : i = bufVer
  BY <1>1
<1>5. Read(i)'
  BY <1>1, <1>2, <1>3, <1>4 DEF Read
<1>6. bufVer' \in 1 .. Len(published) /\ i \in 1 .. bufVer'
  BY <1>1, <1>2, <1>4 DEF FollowInv, LoadInv, TypeOK
<1>7. QED
  BY <1>1, <1>3, <1>4, <1>5, <1>6

LEMMA VersionStep == FollowInv /\ [Next]_vars => VersionInv'
<1> SUFFICES ASSUME FollowInv, [Next]_vars PROVE VersionInv'
  OBVIOUS
<1> USE DEF FollowInv, LoadInv
<1>1. ASSUME NEW f \in Files, NEW e \in Events, Change(f, e)
      PROVE  VersionInv'
  <2>1. /\ Len(published') = Len(published) + 1
        /\ \A i \in 1 .. Len(published) : published'[i] = published[i]
        /\ UNCHANGED <<main, worker, buf, keys, bufVer, keysVer>>
    BY <1>1, ChangeKeeps
  <2>2. ASSUME "publish" \in {main, worker}
        PROVE  /\ bufVer \in 1 .. Len(published')
               /\ \E i \in 1 .. bufVer : keysVer <= i /\ Read(i)'
    <3>1. bufVer \in 1 .. Len(published)
      BY <2>2 DEF VersionInv
    <3>2. PICK i \in 1 .. bufVer : keysVer <= i /\ Read(i)
      BY <2>2 DEF VersionInv
    <3>3. \A n \in i .. bufVer : published'[n] = published[n]
      BY <2>1, <3>1
    <3>4. /\ OneFile(published', i, bufVer) = OneFile(published, i, bufVer)
          /\ Readings(published', i, bufVer) = Readings(published, i, bufVer)
      BY <3>1, <3>3, ReadingsKept
    <3>5. published'[i] = published[i]
      BY <3>1, <3>3
    <3>6. Read(i)'
      BY <2>1, <3>2, <3>4, <3>5 DEF Read
    <3>7. QED
      BY <2>1, <3>1, <3>2, <3>6 DEF TypeOK
  <2>3. QED
    BY <2>1, <2>2 DEF VersionInv, TypeOK
<1>2. CASE MainLoad \/ WorkerLoad
  <2>1. "publish" \notin {main', worker'}
    BY <1>2 DEF MainLoad, WorkerLoad, StartOrder
  <2>2. CASE Open
    BY <2>1, <2>2 DEF Open, VersionInv, TypeOK
  <2>3. CASE \E s : ReadFails(s) /\ "read" \notin {main', worker'}
    BY <2>1, <2>3 DEF ReadFails, VersionInv
  <2>4. QED
    BY <1>2, <2>2, <2>3 DEF MainLoad, WorkerLoad, StartOrder
<1>3. CASE MainRead \/ WorkerRead
  <2>1. /\ UNCHANGED <<published, keysVer>>
        /\ bufVer' \in 1 .. Len(published)
        /\ \E i \in 1 .. bufVer' : keysVer <= i /\ Read(i)'
    BY <1>3, ReadVersion DEF MainRead, WorkerRead
  <2>2. "read" \notin {main', worker'}
    BY <1>3 DEF MainRead, WorkerRead, StartOrder
  <2>3. QED
    BY <2>1, <2>2 DEF VersionInv
<1>4. CASE MainPublish \/ WorkerPublish
  <2>1. "publish" \notin {main', worker'} /\ "read" \notin {main', worker'}
    BY <1>4 DEF MainPublish, WorkerPublish, StartOrder
  <2>2. bufVer \in 1 .. Len(published)
    BY <1>4 DEF MainPublish, WorkerPublish, VersionInv
  <2>3. keysVer' = bufVer /\ published' = published
    BY <1>4 DEF MainPublish, WorkerPublish, Swap
  <2>4. QED
    BY <2>1, <2>2, <2>3 DEF VersionInv
<1>5. CASE Elsewhere
  <2>1. /\ UNCHANGED <<published, buf, keys, bufVer, keysVer>>
        /\ "publish" \in {main', worker'} => "publish" \in {main, worker}
        /\ "read" \in {main', worker'} => "read" \in {main, worker}
    BY <1>5, ElsewhereKeeps
  <2>2. QED
    BY <2>1 DEF VersionInv, Read
<1>6. QED
  BY <1>1, <1>2, <1>3, <1>4, <1>5, EnvironmentChanges
     DEF Next, Main, Worker, Elsewhere

LEMMA FollowStep == FollowInv /\ [Next]_vars => [Table!Next]_(Table!vars)
<1> SUFFICES ASSUME FollowInv, [Next]_vars
             PROVE  [Table!Next]_(Table!vars)
  OBVIOUS
<1> USE DEF FollowInv, LoadInv
<1>1. ASSUME NEW f \in Files, NEW e \in Events, Change(f, e)
      PROVE  Table!Edit
  BY <1>1 DEF Change, Table!Edit, Table!Files, Table!Lines, Files, Lines,
     serverVars
<1>2. CASE MainPublish \/ WorkerPublish
  <2>1. bufVer \in 1 .. Len(published)
    BY <1>2 DEF MainPublish, WorkerPublish, VersionInv
  <2>2. PICK i \in 1 .. bufVer : keysVer <= i /\ Read(i)
    BY <1>2 DEF MainPublish, WorkerPublish, VersionInv
  <2>3. keysVer' = bufVer /\ keys' = buf /\ published' = published
    BY <1>2 DEF MainPublish, WorkerPublish, Swap
  <2>4. i \in keysVer .. Len(published) /\ bufVer \in i .. Len(published)
    BY <2>1, <2>2 DEF TypeOK
  <2>5. /\ Table!OneFile(published, i, bufVer)
        /\ buf \in Table!Readings(published, i, bufVer)
    BY <2>2 DEF Read, OneFile, Table!OneFile, Readings, Table!Readings,
       Parse, Table!Parse
  <2>6. Table!Publish
    BY <2>2, <2>3, <2>4, <2>5 DEF Table!Publish, Read
  <2>7. QED
    BY <2>6 DEF Table!Next
<1>3. CASE MainLoad \/ MainRead \/ WorkerLoad \/ WorkerRead \/ Elsewhere
  <2>1. CASE Elsewhere
    BY <2>1, ElsewhereKeeps DEF Table!vars
  <2>2. CASE MainLoad \/ MainRead \/ WorkerLoad \/ WorkerRead
    BY <2>2 DEF MainLoad, MainRead, WorkerLoad, WorkerRead, Open, ReadEnds,
       ReadFails, Table!vars
  <2>3. QED
    BY <1>3, <2>1, <2>2
<1>4. QED
  BY <1>1, <1>2, <1>3, EnvironmentChanges
     DEF Next, Main, Worker, Elsewhere, Table!Next

\* Every table comes from one read of one file: the table is a whole version
\* unless that file was changed in place during that read, and it never shows
\* a read that began before the version at which the last one had ended.
THEOREM ImplementsKeyTable == Spec => TableFollowsFile
<1>1. Init => FollowInv
  <2>1. Init => VersionInv
    BY DEF Init, VersionInv
  <2>2. QED
    BY <2>1, LoadInit DEF FollowInv
<1>2. FollowInv /\ [Next]_vars => FollowInv'
  BY LoadStep, VersionStep DEF FollowInv
<1>3. Init => Table!Init
  BY DEF Init, Table!Init, Table!Files, Table!Lines, Files, Lines
<1>4. QED
  BY <1>1, <1>2, <1>3, FollowStep, PTL DEF Spec, Table!Spec,
     TableFollowsFile
============================================================================

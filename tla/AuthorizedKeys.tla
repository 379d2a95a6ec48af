--------------------------- MODULE AuthorizedKeys ---------------------------
(***************************************************************************)
(* The bastion's table of authorized keys (src/internal/ssh/bastion.go):   *)
(* NewBastionServer loads it once and then installs a directory watch; one *)
(* watcher goroutine reloads it on file events; every connection's         *)
(* publicKeyCallback reads it.  The file is changed from outside at any    *)
(* moment, and changes reach the goroutine through inotify's bounded       *)
(* queue.                                                                  *)
(***************************************************************************)
EXTENDS KeyFile

CONSTANTS
    Clients,        \* connections in their authentication phase
    EvCap,          \* capacity of the kernel's event queue
    MaxEdits,       \* bound: number of changes to the file
    EditOps,        \* kinds of change the environment makes
    WatchMayFail    \* whether NewWatcher and Add can return an error

ASSUME EvCapAssumption == EvCap \in Nat \ {0}
ASSUME MaxEditsAssumption == MaxEdits \in Nat
ASSUME WatchMayFailAssumption == WatchMayFail \in BOOLEAN
ASSUME EditOpsAssumption ==
    EditOps \subseteq {"write", "create", "remove", "rename", "chmod", "other"}

VARIABLES
    \* the outside
    published,  \* versions of the file, the last one is on disk
    watchOn,    \* inotify watch on the directory installed
    events,     \* events queued and not yet received by the goroutine
    \* the server
    main,       \* where NewBastionServer is
    worker,     \* where the watcher goroutine is
    buf,        \* newKeys, the map being built by loadAuthorizedKeys
    keys,       \* bs.authorizedKeys
    stopped,    \* Stop has closed the watcher
    auth,       \* publicKeyCallback, per connection
    \* ghosts
    bufVer,     \* version of the file that the load in progress opened, and
                \* once its read has ended, the version at that moment
    keysVer,    \* the same of the load that built keys
    missed,     \* the last change announced itself with no event reload knows
    since       \* tables that were current during each callback

serverVars == <<main, worker, buf, keys, stopped, auth>>
ghostVars == <<bufVer, keysVer, missed, since>>
vars == <<published, watchOn, events, serverVars, ghostVars>>

Ops == {"write", "create", "remove", "rename", "chmod", "overflow"}
Names == {"file", "data", "other"}
Events == [op : Ops, name : Names]

Current == published[Len(published)]

\* The mask and the name filter of the goroutine: Write|Create|Remove on the
\* file's own base name or on the ..data link of a ConfigMap volume.
Relevant(e) == /\ e.op \in {"write", "create", "remove"}
               /\ e.name \in {"file", "data"}

AuthStates ==
    [pc : {"idle", "snapshot", "decide", "accepted", "rejected"},
     key : Keys, empty : BOOLEAN, exists : BOOLEAN]

TypeOK ==
    /\ published \in Seq(Files) /\ Len(published) > 0
    /\ watchOn \in BOOLEAN
    /\ events \in Seq(Events)
    /\ main \in {"load", "read", "publish", "watch", "add", "hostkey",
                 "serving", "failed"}
    /\ worker \in {"none", "select", "load", "read", "publish", "ended"}
    /\ buf \in SUBSET Keys
    /\ keys \in SUBSET Keys
    /\ stopped \in BOOLEAN
    /\ auth \in [Clients -> AuthStates]
    /\ bufVer \in Nat
    /\ keysVer \in Nat
    /\ missed \in BOOLEAN
    /\ since \in [Clients -> SUBSET SUBSET Keys]

Init ==
    /\ \E f \in Files : f.new /\ published = <<f>>
    /\ watchOn = FALSE
    /\ events = <<>>
    /\ main = "load"
    /\ worker = "none"
    /\ buf = {}
    /\ keys = {}
    /\ stopped = FALSE
    /\ auth \in [Clients -> [pc : {"idle"}, key : Keys,
                             empty : {FALSE}, exists : {FALSE}]]
    /\ bufVer = 0
    /\ keysVer = 0
    /\ missed = FALSE
    /\ since = [c \in Clients |-> {}]

----------------------------------------------------------------------------
\* The outside: changes to the file and the events they leave.

Overflow == [op |-> "overflow", name |-> "other"]

\* The queue after event e: appended, or merged with an equal event at the
\* tail, or, when the queue is full, replaced by one overflow record.
Queued(e) ==
    IF ~watchOn THEN {events}
    ELSE IF Len(events) < EvCap
         THEN {Append(events, e)}
              \cup {q \in {events} : Len(q) > 0 /\ q[Len(q)] = e}
         ELSE IF \E i \in 1 .. Len(events) : events[i] = Overflow
              THEN {events}
              ELSE {Append(events, Overflow)}

\* Version f replaces the file and announces itself with event e.
Change(f, e) ==
    /\ Len(published) <= MaxEdits
    /\ published' = Append(published, f)
    /\ events' \in Queued(e)
    /\ missed' = (missed \/ ~watchOn \/ Len(events) >= EvCap \/ ~Relevant(e))
    /\ UNCHANGED <<watchOn, serverVars, bufVer, keysVer, since>>

\* An in-place write (truncation included: the new lines may be none).
WriteFile ==
    /\ "write" \in EditOps
    /\ Current.state /= "absent"
    /\ \E ls \in Contents :
          Change([Current EXCEPT !.lines = ls, !.new = FALSE],
                 [op |-> "write", name |-> "file"])

\* A new file moved into place, or the volume's ..data link moved.
ReplaceFile ==
    /\ "create" \in EditOps
    /\ \E ls \in Contents, n \in {"file", "data"} :
          Change([state |-> "present", lines |-> ls, new |-> TRUE],
                 [op |-> "create", name |-> n])

\* Deleted, or moved to another name.
TakeAway(op) ==
    /\ op \in EditOps
    /\ Current.state /= "absent"
    /\ Change([state |-> "absent", lines |-> {}, new |-> TRUE],
              [op |-> op, name |-> "file"])

\* Permissions flip between readable and not.
Chmod ==
    /\ "chmod" \in EditOps
    /\ Current.state /= "absent"
    /\ Change([Current EXCEPT !.state =
                  IF @ = "present" THEN "unreadable" ELSE "present",
               !.new = FALSE],
              [op |-> "chmod", name |-> "file"])

\* Another file of the directory changes.
TouchOther ==
    /\ "other" \in EditOps
    /\ watchOn
    /\ events' \in Queued([op |-> "write", name |-> "other"])
    /\ UNCHANGED <<published, watchOn, serverVars, ghostVars>>

Environment ==
    WriteFile \/ ReplaceFile \/ TakeAway("remove") \/ TakeAway("rename")
    \/ Chmod \/ TouchOther

----------------------------------------------------------------------------
\* loadAuthorizedKeys, shared by the constructor and the goroutine.

\* os.ReadFile opens what the path names now.
Open ==
    /\ Current.state = "present"
    /\ bufVer' = Len(published)
    /\ missed' = FALSE
    /\ UNCHANGED <<published, watchOn, events, buf, keys, stopped, auth,
                   keysVer, since>>

\* Its last read(2) is over, and what they returned is parsed. The file that
\* was opened may have been changed in place meanwhile, or moved or deleted,
\* which does not change what is read from it.
ReadEnds ==
    \E j \in bufVer .. Len(published) :
        /\ OneFile(published, bufVer, j)
        /\ j < Len(published) => published[j + 1].new
        /\ buf' \in Readings(published, bufVer, j)
        /\ bufVer' = j
        /\ UNCHANGED <<published, watchOn, events, keys, stopped, auth,
                       keysVer, missed, since>>

\* os.ReadFile failed: the map is left as it is.
ReadFails(state) ==
    /\ Current.state = state
    /\ missed' = FALSE
    /\ UNCHANGED <<published, watchOn, events, buf, keys, stopped, auth,
                   bufVer, keysVer, since>>

\* A reload that adds to the published map instead of replacing it.
SwapMerges ==
    /\ keys' = keys \cup buf
    /\ keysVer' = bufVer
    /\ since' = [c \in Clients |->
                    IF auth[c].pc \in {"snapshot", "decide"}
                    THEN since[c] \cup {keys'} ELSE since[c]]
    /\ UNCHANGED <<published, watchOn, events, buf, stopped, auth, bufVer,
                   missed>>

\* The swap under bs.mu.Lock().
Swap ==
    /\ keys' = buf
    /\ keysVer' = bufVer
    /\ since' = [c \in Clients |->
                    IF auth[c].pc \in {"snapshot", "decide"}
                    THEN since[c] \cup {buf} ELSE since[c]]
    /\ UNCHANGED <<published, watchOn, events, buf, stopped, auth, bufVer,
                   missed>>

----------------------------------------------------------------------------
\* NewBastionServer.

MainLoad ==
    /\ main = "load"
    /\ \/ Open /\ main' = "read"
       \/ ReadFails("absent") /\ main' = "watch"
       \/ ReadFails("unreadable") /\ main' = "failed"
    /\ UNCHANGED worker

MainRead ==
    /\ main = "read"
    /\ ReadEnds
    /\ main' = "publish"
    /\ UNCHANGED worker

MainPublish ==
    /\ main = "publish"
    /\ Swap
    /\ main' = "watch"
    /\ UNCHANGED worker

\* fsnotify.NewWatcher and the go statement; an error is only logged.
MainWatch ==
    /\ main = "watch"
    /\ \/ main' = "add" /\ worker' = "select"
       \/ WatchMayFail /\ main' = "hostkey" /\ UNCHANGED worker
    /\ UNCHANGED <<published, watchOn, events, buf, keys, stopped, auth,
                   ghostVars>>

\* watcher.Add(dir); an error is only logged.
MainAdd ==
    /\ main = "add"
    /\ \/ watchOn' = TRUE
       \/ WatchMayFail /\ UNCHANGED watchOn
    /\ main' = "hostkey"
    /\ UNCHANGED <<published, events, worker, buf, keys, stopped, auth,
                   ghostVars>>

\* loadHostKey: without a usable host key the constructor fails.
MainHostKey ==
    /\ main = "hostkey"
    /\ main' \in {"serving", "failed"}
    /\ UNCHANGED <<published, watchOn, events, worker, buf, keys, stopped,
                   auth, ghostVars>>

Stop ==
    /\ main = "serving" /\ ~stopped
    /\ stopped' = TRUE
    /\ watchOn' = FALSE
    /\ UNCHANGED <<published, events, main, worker, buf, keys, auth,
                   ghostVars>>

----------------------------------------------------------------------------
\* The watcher goroutine.

\* One event is received; only a relevant one starts a reload. An overflow
\* arrives on the Errors channel and is only logged.
WorkerTake ==
    /\ worker = "select"
    /\ events /= <<>>
    /\ events' = Tail(events)
    /\ worker' = IF Relevant(Head(events)) THEN "load" ELSE "select"
    /\ UNCHANGED <<published, watchOn, main, buf, keys, stopped, auth,
                   ghostVars>>

\* A goroutine that returns when a reload fails.
WorkerLoadGivesUp ==
    /\ worker = "load"
    /\ \/ Open /\ worker' = "read"
       \/ \E s \in {"absent", "unreadable"} :
             ReadFails(s) /\ worker' = "ended"
    /\ UNCHANGED main

\* A failed read is logged at most; the goroutine goes on.
WorkerLoad ==
    /\ worker = "load"
    /\ \/ Open /\ worker' = "read"
       \/ \E s \in {"absent", "unreadable"} :
             ReadFails(s) /\ worker' = "select"
    /\ UNCHANGED main

WorkerRead ==
    /\ worker = "read"
    /\ ReadEnds
    /\ worker' = "publish"
    /\ UNCHANGED main

\* A debounce that drops the events that came while the reload was running.
WorkerPublishDrops ==
    /\ worker = "publish"
    /\ keys' = buf /\ keysVer' = bufVer
    /\ events' = <<>>
    /\ worker' = "select"
    /\ UNCHANGED <<published, watchOn, main, buf, stopped, auth, bufVer, missed,
                   since>>

WorkerPublish ==
    /\ worker = "publish"
    /\ Swap
    /\ worker' = "select"
    /\ UNCHANGED main

\* The watcher's channels are closed.
WorkerEnds ==
    /\ worker = "select"
    /\ stopped
    /\ worker' = "ended"
    /\ UNCHANGED <<published, watchOn, events, main, buf, keys, stopped, auth,
                   ghostVars>>

----------------------------------------------------------------------------
\* publicKeyCallback, in the goroutine of connection c.

Offer(c) ==
    /\ main = "serving" /\ ~stopped
    /\ auth[c].pc \in {"idle", "accepted", "rejected"}
    /\ \E k \in Keys :
          auth' = [auth EXCEPT ![c] = [pc |-> "snapshot", key |-> k,
                                       empty |-> FALSE, exists |-> FALSE]]
    /\ since' = [since EXCEPT ![c] = {keys}]
    /\ UNCHANGED <<published, watchOn, events, main, worker, buf, keys,
                   stopped, bufVer, keysVer, missed>>

\* The two reads under bs.mu.RLock().
Snapshot(c) ==
    /\ auth[c].pc = "snapshot"
    /\ auth' = [auth EXCEPT ![c] = [pc |-> "decide", key |-> auth[c].key,
                                    empty |-> keys = {},
                                    exists |-> auth[c].key \in keys]]
    /\ UNCHANGED <<published, watchOn, events, main, worker, buf, keys,
                   stopped, ghostVars>>

\* A decision that looks at the size of the map after the lock is released.
DecideReadsAgain(c) ==
    /\ auth[c].pc = "decide"
    /\ auth' = [auth EXCEPT ![c].pc =
                   IF keys = {} \/ auth[c].exists
                   THEN "accepted" ELSE "rejected"]
    /\ UNCHANGED <<published, watchOn, events, main, worker, buf, keys,
                   stopped, ghostVars>>

Decide(c) ==
    /\ auth[c].pc = "decide"
    /\ auth' = [auth EXCEPT ![c].pc =
                   IF auth[c].empty \/ auth[c].exists
                   THEN "accepted" ELSE "rejected"]
    /\ UNCHANGED <<published, watchOn, events, main, worker, buf, keys,
                   stopped, ghostVars>>

----------------------------------------------------------------------------
Main ==
    MainLoad \/ MainRead \/ MainPublish \/ MainWatch \/ MainAdd \/ MainHostKey
Worker == WorkerTake \/ WorkerLoad \/ WorkerRead \/ WorkerPublish \/ WorkerEnds
Callback(c) == Offer(c) \/ Snapshot(c) \/ Decide(c)

Next == Environment \/ Main \/ Stop \/ Worker \/ \E c \in Clients : Callback(c)

Spec == Init /\ [][Next]_vars

\* Both goroutines are runnable Go code that is never blocked for good while
\* one of these actions is enabled.
FairSpec == Spec /\ WF_vars(Main) /\ WF_vars(Worker)

----------------------------------------------------------------------------
\* Properties.

Fresh(T) == Current.state = "present" => T = Parse(Current.lines)

\* What the load in progress, if any, is going to publish as far as it has
\* come: while it reads, the keys of the version that it opened.
Coming ==
    IF "read" \in {main, worker} THEN Parse(published[bufVer].lines)
    ELSE IF "publish" \in {main, worker} THEN buf ELSE keys

\* The table is out of date - or was put together from parts of a file that
\* changed while it was read - only while a reload is still owed: a relevant
\* event waits in the queue or a load is about to open the file. The one
\* exception is a change whose event the reload logic never sees (no watch
\* yet, queue overflow, a chmod or rename event outside the mask).
NoSilentStaleness ==
    \/ Fresh(Coming)
    \/ main = "load"
    \/ worker = "load"
    \/ \E i \in 1 .. Len(events) : Relevant(events[i])
    \/ missed
    \/ worker = "ended"

\* Every verdict is the one some single table gives that was current between
\* the callback's entry and its return, however the reload interleaves with
\* the two lookups.
VerdictFromOneTable ==
    \A c \in Clients :
        LET a == auth[c] IN
        /\ a.pc = "accepted" => \E T \in since[c] : Admits(T, a.key)
        /\ a.pc = "rejected" => \E T \in since[c] : ~Admits(T, a.key)

\* Every table is what one read of the file found, a whole version unless the
\* file was changed in place during that very read, and the reads are in the
\* order of the versions: the table never goes back.
Table == INSTANCE KeyTable WITH at <- keysVer, table <- keys
TableFollowsFile == Table!Spec

\* Once the file stops changing, the table ends up equal to it, unless the
\* last change went unannounced, the server stopped or never started.
Converges ==
    <>[](Fresh(keys) \/ missed \/ stopped \/ main = "failed")

\* k8s/configmap.yaml:35: the gateway watches this file and reloads keys
\* automatically. Every change that is made after the file was first read
\* ends up in the table.
ReloadsAutomatically ==
    <>[](Fresh(keys) \/ stopped \/ main = "failed")
============================================================================

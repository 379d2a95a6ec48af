# Verification of k8s-gateway in TLA+

k8s-gateway is a Go program that stands between operators and network devices.
It is an SSH bastion with an interactive shell, a gNMI proxy and a gRPC service
that runs commands on devices over SSH, Telnet or NETCONF. This directory holds
TLA+ models of its concurrent core, the TLC runs that check them and the TLAPS
proofs about them. Paths below are relative to the repository.

| module | kind | models |
| --- | --- | --- |
| `KeyFile` | definitions | the `authorized_keys` file and its parse |
| `KeyTable` | abstract spec | what the table of keys promises |
| `AuthorizedKeys` | component | first load, directory watch, reload goroutine, public-key callbacks |
| `AuthorizedKeysProofs` | proofs | type correctness, freshness, verdicts, refinement of `KeyTable` |
| `BastionSession` | component | one session channel: requests, prompts, device sessions, left-over goroutines |
| `BastionSessionProofs` | proofs | type correctness, every safety property of `BastionSession` that holds, refinement of a channel of `BastionServer`, no wedge after a close |
| `LineEditor` | component | `readLine` and `readPassword`, key by key |
| `LineEditorProofs` | proofs | type correctness, the screen, the line, the escapes |
| `Pipes` | abstract spec | what a forwarded connection promises its two ends |
| `DirectTcpip` | component | one `direct-tcpip` channel: dial, two copiers, wait group, closes |
| `DirectTcpipProofs` | proofs | type correctness, nothing cut off, refinement of `Pipes` |
| `BastionServer` | component | accept loop, connections and their mux loop, channel dispatch, `Stop`; as a part of `Gateway` |
| `GnmiSubscribe` | component | the bidirectional gNMI `Subscribe` proxy |
| `GnmiSubscribeProofs` | proofs | type correctness, the safety properties, no goroutine or handler left waiting |
| `GnmiUnary` | component | `Capabilities`, `Get`, `Set` and the choice of the target |
| `GnmiUnaryProofs` | proofs | type correctness, own device and credentials, connections closed |
| `Commands` | definitions | command requests, the device and protocol they name |
| `CommandLog` | abstract spec | what one call of the command service promises |
| `CommandService` | component | `ExecuteCommand` and `StreamCommand` down to the SSH, Telnet and NETCONF conversations |
| `CommandServiceProofs` | proofs | type correctness, the safety properties, refinement of `CommandLog` |
| `Gateway` | component | `main`: set-up, three servers, errors, signals, exit |
| `GatewayProofs` | proofs | type correctness, error channel, exit code; `BastionServer`: type correctness, refinement of `Gateway`'s server, mux and backlog |
| `MC*` | instances | constants for TLC, one `.cfg` per run |

## 1 Inventory

**Authorized keys** (`internal/ssh/bastion.go:30-220`). State: the map
`authorizedKeys` under `mu`, the fsnotify watcher. Operations: load, watch
(one goroutine), look-up by every connection's `publicKeyCallback`, `Stop`.
Hard: the file changes at any moment, also while it is loaded or before it is
watched; the kernel's queue merges and drops events; a reload swaps the map
between two look-ups. Correct when: the map is what one read of the file found
and never goes back to an older one; it is a whole version of the file unless
that file was changed in place during the very read, and then, as whenever it is
out of date, a reload is under way; a verdict comes from one map.

**Bastion session** (`bastion.go:296-520, 736-831`). State: a channel with its
request queue and its input, the terminal size, the device connection. Three
kinds of goroutine share the channel: `handleSession`, a window-change
goroutine per device session and a stdin copier per device session (started by
`session.Stdin = clientChannel`). The last two outlive the device session.
Correct when: connections are closed on every path, what is typed at a prompt
never goes to a device, the device's PTY has the client's size, a session ends
with its device, everything ends with the channel.

**Line editor** (`bastion.go:430-473, 568-619`, `readLine`, `readPassword`).
Sequential: echo, backspace, backslash handling, Ctrl-C and Ctrl-D. Correct when
the line returned is the line typed and the terminal shows it.

**direct-tcpip** (`bastion.go:621-670`). Two copiers and a wait group per
forwarded connection. Hard: the two directions end at different times, and a
half-close of one side is not passed on. Correct when: each direction is an
ordered pipe, nothing is cut off, both sides are released.

**Listener and connections** (`bastion.go:219-276, 833-842`). Accept loop,
handshake, one goroutine per connection and per channel; `Stop`. The channels of
a connection share one mux loop (external). Correct when: no client keeps others
from being served, and a connection ends when its client leaves. `max_sessions`
of the configuration is not enforced.

**gNMI Subscribe** (`internal/gnmi/server.go:214-293`). State: two streams, two
goroutines, `errChan` of capacity 2. The first error wins. Hard: half-close, a
slow client, both sides ending at once. Correct when: success means that
everything was delivered, the half-close comes last, errors have a cause, no
goroutine is left.

**gNMI unary calls and targets** (`server.go:36-212`). Per call: find the target
in metadata or prefix, make a client connection, forward, close. No state is
shared, which is itself what must be right: credentials are per call. Correct
when: a request goes where its call says, as whom it says, every call returns,
no connection is left.

**gRPC commands** (`internal/grpc/server.go`). `ExecuteCommand` is one request to
one device; `StreamCommand` binds device, credentials and protocol of its first
message and takes one command after the other. State: the binding, the command
under way. Hard: later commands ignore the device they name; nothing interrupts
the command under way when the stream is cancelled. Correct when: commands run
in order, at most once, where the first request said; a response answers its own
command; exit code 0 means that it ran.

**Device clients** (`internal/proxy`). SSH, Telnet and NETCONF conversations with
sleeps and fixed reads instead of prompt matching. Hard: a prompt arrives in
pieces or late, the device falls silent, goes away, or gets to a command after
the gateway has hung up. Correct when: the password is read as a password, the
connection is closed on every path, each conversation ends.

**Configuration, logger, `main`** (`internal/config`, `internal/logger`,
`cmd/gateway/main.go`). Configuration is read once; `main` starts the servers,
waits for the first error or a signal, and exits without stopping them. Hard:
several failures and signals at once, in any order with the set-up. Correct
when: every failure and signal ends the process, nobody waits for `main`, and
the exit code tells the cause. The protobuf code is generated.

Interactions: the bastion's connections share the key table; the channels of
one connection share one mux loop; a device session shares its channel with the
shell that started it. gNMI calls share nothing but the configuration.
PROJECT.json lists the hazards line by line.

The models are tied to one another by refinements: `AuthorizedKeys` implements
`KeyTable`, `DirectTcpip` implements `Pipes`, `CommandService` implements
`CommandLog`; `BastionSession` implements a session channel of `BastionServer`,
and `BastionServer` implements the `ssh` server of `Gateway`. What a model takes
for granted about a part that another one details is thereby shown of the detail.

## 2 `AuthorizedKeys`

`published` is the history of the file, its last element is on disk. The
environment changes it by an in-place write, a replacement (new file or the
`..data` link of a ConfigMap volume), a removal, a rename or a chmod, each of
which announces itself with the event fsnotify reports for it; if the watch is
installed it joins `events`, merges with an equal event at the tail, or becomes
the one overflow record of a full queue. `main` walks through `NewBastionServer`
(load, watcher, `Add`, host key), `worker` is the goroutine of
`watchAuthorizedKeys`. A load is three steps, so that edits fall between any two:
`os.ReadFile` opens the file (`Open`), its last read ends and the text is parsed
(`ReadEnds`), and the map is swapped under the lock (`Swap`). `auth[c]` is a
callback of connection `c`: entry, the two look-ups under the read lock, the
verdict.

`os.ReadFile` is several `read(2)` calls. A file that is replaced, moved or
deleted meanwhile stays what it was for a reader who has it open; one that is
changed in place does not (`new` tells the two kinds of version apart, `OneFile`
says that a stretch of the history is one file). Then the parts that were read
come from different versions: the code can publish a map that is the parse of no
version. `Readings` allows any subset of the keys of the versions that the read
overlapped, and of `Cuts`, the keys that a line put together from parts of two
may parse as. That is more than the code can do, since a real mixture is a prefix of
one version followed by a suffix of another. An I/O error in the middle of a read
is the error at opening (`ReadFails`).

Ghosts state the properties: the versions behind `buf` and `keys`, the
tables that were current during a callback (`since`), and `missed`. `missed` is
raised by a change whose event the goroutine cannot react to (no watch yet, a
full queue, an event outside the mask, such as chmod or rename) and lowered by
the next load that comes to the file. It marks the cases in which the code knows
nothing of the change; the freshness properties exempt exactly these, and the run
`keys_gap` shows that the exemption for the start-up gap is not empty.

`NoSilentStaleness` looks ahead to what the load in progress will publish. While
it reads, that is the version it opened: if the file changes under it, the change
has left an event behind, and a reload follows the one that may publish a mixture.
Until then the mixture is in force, and verdicts are given by it.

| run | shows |
| --- | --- |
| `keys_table` | `NoSilentStaleness`, `TableFollowsFile` (refinement of `KeyTable`), `Converges` and `VerdictFromOneTable`, with every kind of change at every moment, also in the middle of a callback, a queue of 2, a watcher that may fail, up to 2 changes |
| `keys_gap` | violation: a change between the first load (line 39) and the watch (line 150) is not loaded until the next change, although `k8s/configmap.yaml:35` promises automatic reloads |

Bounds. `MaxEdits = 2` lets one change hit a reload that the other started,
which is every race between the file and one goroutine, and lets one or two fall
within a read; a third change adds another instance of the same race. `EvCap = 2` is reached with two changes and
unrelated events. `Contents` are the texts a file may have: without a key, or
with one of two, with and without lines to skip; `Cuts` holds one key, and the
only tables of both keys are mixtures. Freshness needs versions that
differ, verdicts two keys, since an empty table admits all.

Fairness: weak fairness of the constructor and of the goroutine, which are Go
code that never waits for one another. No fairness of the environment.

## 3 The bastion

### 3.1 `BastionSession`

A line of input is the unit of data. Lines are `ssh` (a command that names a
device), `word` (anything else), `exit` and `intr` (a line cut by Ctrl-C).
The client's packets travel in order on `wire`; the mux loop of
`golang.org/x/crypto/ssh` (external) puts requests in the bounded queue
`requests`, where it blocks when the queue is full, and input in `pending`.
`pc` is the position in `handleSession`, `runInteractiveShellWithTermInfo`,
`handleCommandWithPty` and `proxyToDeviceWithPty`; `dev[s]`, `win[s]` and `cop[s]` are the device, the
window goroutine and the copier of device session `s`. Announcements of a
terminal size are numbered; 0 stands for the built-in defaults.

The copier of `golang.org/x/crypto/ssh`'s `Session` (external) is modelled by
what it does when the device has gone: after the remote end its next write
fails once or is absorbed once, then it ends; `Wait` does not wait for it.

| run | shows |
| --- | --- |
| `session_channel` | `DeviceReleased`, `InputConfined`, `FirstSizeShown`, `ServedInConnection` (refinement of a channel of `BastionServer`), `CleansUp`, `SessionEndsWithDevice`: a shell with two device sessions and resizes at any time, or shell or exec with every kind of request and of line; each failure of the set-up, end of input and close at any moment |
| `session_size` | violation of `EverySizeShown`: a second session keeps a stale size, because the window goroutine of the first takes the resize |
| `session_leave` | violation of `ExitCloses`: the left-over copier takes the `exit` typed after a device session |

Bounds. A client keeps within one of the `Budgets`, which say how many packets
of each kind it sends: many resizes, an end of the input at any moment, every
kind of request, every kind of line. `WireCap` bounds the packets under way. Two
device sessions are the fewest with left-over goroutines of one meeting the
other. `ReqCap = 1` makes a full queue common; `session_leave` has the 16 of the
library.

Fairness: `GoroutinesRun` is weak fairness of each goroutine; a device whose
stdin has been closed ends its shell (`dev[s].eof`), an idle device need not
end. `DeviceAnswers` adds that a device which is being connected to answers,
refuses or is lost; nothing in the code makes it do so (`ssh.Dial` has no
time-out), so it is an assumption of `CleansUp` and `SessionEndsWithDevice`. The
client need not send anything. That it reads what it is sent is taken for
granted, because the flow control of output is abstracted: in the code, `Wait`
also waits for the copier of the device's output, and a client that stays
connected without reading holds that one up.

`CleansUp` exempts `Stuck`, the state in which the mux loop waits for a queue
slot no goroutine will free: with the 16 slots of the library, the seventeenth
resize at a prompt leads there, and nothing typed afterwards is read.

`ServedInConnection` says what a session is to the rest of its connection. The
mapping makes it channel 1 of an open connection: `taker` is the handler while it
is in its request loop, nobody from then on until the first window goroutine is
started, and afterwards a goroutine that drains (one that has ended has seen the
close, after which no request comes). Every step that changes the channel's
queue, its state or who receives is then a request queued with room to spare,
`TakeRequest`, `DeviceSession` or `ChannelEnds` of `BastionServer`.

Abstracted: bytes within a line (a left-over copier may in the code take the
first keystroke of a line rather than all of it), echo, what a device prints,
the flow control of output, the order of replies to requests, and the other
channels of the connection, which are the matter of `BastionServer`.

### 3.2 `LineEditor`

`reader` says which of the two functions reads; `line`, `lastChar` and `screen`
are its variables and what it has written, `typed` the keys so far. A key stands
for the bytes the code treats alike: `special` is one of ``! $ ` "``, `enter` is
CR or LF, `erase` 127 or 8, `control` every byte without a case.

`LineIsTyped` compares the line with a reference over the whole input: a
character stays unless at some later moment there have been more erasures than
characters (`Edited`). `EscapesUndone` does the same for passwords, with the
reading of the comments at `bastion.go:603-609` (`Unescaped`).

| run | shows |
| --- | --- |
| `editor_keys` | `LineIsTyped`, `ScreenShowsLine`, `EscapesUndone` on every sequence of up to 5 keys |

`EscapesUndone` covers the passwords of which no backslash is lost
(`NoBackslashLost`). From the others, those with a backslash at the end, before
another one or before an erasure, the code loses a character. Five keys
are enough for a backslash with something before and after it, and for more
erasures than characters on either side of a character.

### 3.3 `DirectTcpip`

`pc` is `handleDirectTCPIP`, `copy[e]` the goroutine that copies from end `e` to
the other, `held[e]` the part of its buffer it has not written. `inbuf[e]` is
what the gateway has received from `e`, `out[e]` what it has written to `e` and
`e` has not read. Bytes are numbered. An end may half-close, or leave, with the
last bytes it wrote lost or not. A close with input unread resets a TCP
connection and may destroy what is on its way to the target.

The run `forward` checks, with 3 bytes from each end, a window and a buffer of
1: `ImplementsPipes` (refinement of `Pipes`: each direction in order and without
gaps; cut only when both ends have finished or one has left), `NothingCutOff`
(both directions drained before the close), `Delivers` (a direction gets
through whatever the other does) and `Released`. A byte in each of the four
places between writer and reader, and one more that waits, is what three bytes
and the least sizes allow.

`Released` needs both ends to finish. One is not enough: the code passes no
half-close on, so an end that waits for the end of its input waits for ever.

Fairness: the handler, both copiers, a connection attempt that the operating
system gives up in the end, and an end that has not left reads what reaches it.

### 3.4 `BastionServer`

`start` and `listening` are `Start` and the listener. `conn[c]` is
`handleConnection` together with the mux loop, which holds one packet (`pkt`) at
a time and waits until the queue it is for has room. `st`, `kind`, `taker` and
`reqs` are the channels: `taker` says who receives a channel's requests
(`handler`, a draining goroutine, nobody), which is all that the rest of the
connection depends on. `BastionSession` and `DirectTcpip` are what goes on
inside; that a session is a channel of this module is `ServedInConnection`
(3.1). A client may send requests for a channel that its handler has done with,
and close a channel whose handler is still in its request loop.

`ServesInGateway` is the other end of the composition: under the mapping
`LifeSrv`, `LifeCalls` (a call is a connection that `handleConnection` has in
hand) every step is one of `Listen`, `Fails`, `CallBegins`, `CallEnds` of
`Gateway`'s `ssh` server, or none. `Gateway` assumes that the bastion cannot fail
once it serves; the mutant whose accept loop ends with a failed `Accept` breaks it.

| run | shows |
| --- | --- |
| `server_serve` | `ServesInGateway` (refinement of a server of `Gateway`), `Accepted`, `ChannelsServed`, `PacketsDelivered`, `DisconnectEnds`, for a connection with a session, a second channel of any type and global requests, and another connection |

`PacketsDelivered` and `DisconnectEnds` exempt `Stalled`, the one way in which a
channel holds up its connection: a session between `shell` and its first device
session with a full queue. That includes noticing that the client has left.
`QueueCap = 1` in place of 16 makes full queues common. Two connections suffice,
as they share nothing but the accept loop; two channels are the fewest of which
one can hold up the other.

Fairness: goroutines and the mux loop. A handshake ends only when the client has
left, no session or forward has to end, and no device session has to begin.
`Accept` may fail while the listener is open, for want of a file descriptor for
instance (`AcceptFails`); the loop tries again, and fairness assumes that it
succeeds in the end.

## 4 `GnmiSubscribe`

Messages are numbered, so a counter is a whole queue: `reqs`, `recvd`, `sent`
follow requests from the client to the device, `resps`, `got`, `passed`, `seen`
follow responses back. `h` is the handler: first `Recv`, target, backend stream,
first `Send`, then the wait for `errChan`. `up` and `down` are the goroutines.
gRPC (external) is modelled by its contract: in-order streams, `io.EOF` after a
half-close, a status after the last response, `io.EOF` from `Send` on an ended
stream, cancellation of both streams when the handler returns, a `Send` that
waits while the client does not read (`Window`). `Recv` fails with a message over
the default limit of 4 MB, which neither `main.go:140` nor `server.go:97-105`
raises: at most one request (`bigReq`) and one response (`bigResp`) are too
large, which suffices as the stream ends with the first.

The run `subscribe` checks three safety properties (`NilMeansComplete`,
`HalfCloseIsLast`, `ErrorHasCause`) and three liveness properties (`Settles`,
`GoroutinesEnd`, `EveryResponseSeen`) with 3 requests, 3 responses and a window
of 1: a first request, one in hand and one more behind it in each direction.

Fairness: the handler and each goroutine, and `ClientReads`: a client that is
connected reads what has arrived. Without it `EveryResponseSeen` and `Settles`
would be false for the plain reason that `Send` may wait for ever. Neither side
is obliged to send, to close or to end.

`ErrorHasCause` ties every error to something that the client or the device did:
a cancellation, a loss, an error status, a message that is too large. The
exception is `eof`, which is an echo: when the device's stream ends while a
request is in hand, `Send` returns `io.EOF` (line 266) and it may win over what
the other goroutine finds out. Then `Subscribe` returns `EOF` in place of the
device's status, and also where the device has ended normally and the result
should have been success; responses that had not been passed on are lost. The
property says that `eof` is returned in this case only; `findings` has the
divergence. `Settles` covers all of these ends, too large messages included.

### 4.1 `GnmiUnary`

Several calls at once. A target is the sequence of its parts
(`device:user:password`), so that `parseTarget` fills in defaults for missing
ones; `auth[c]` is whom the connection of call `c` leads to and with which
credentials, `got[c]` what the device has seen. The device may get a request and
act on it after the call has been given up (`Arrive`, `Answer`).

The run `gnmi_unary` checks `OwnDeviceOwnCredentials`, `ConnectionClosed` and
`CallsReturn` with two calls that take every pair of 6 requests: header and
prefix that disagree, the same device with different credentials, a missing
target, unknown and empty devices. Fairness: the handlers and the timer of 30
seconds; devices owe nothing. The TLS handshake is part of `Call`.

## 5 `CommandService`

One call, unary or a stream. Calls share only the configuration, which never
changes, so one call is enough. `pc` is the handler: `recv`, `exec` (inside one
of the `proxy.Execute...Command` functions), `send`, `returned`. `taken` counts
the requests received, `bound` is the target once a request has set it, `at` is
the next statement of the proxy function that talks to the device, `expired` the
deadline of `conn.SetDeadline` (Telnet only). `dev`, `toDev` and `toGw` are the
device's state and the two directions of the connection. Ghosts: `ran` (what
devices ran, in order), `orphans` (commands that had reached the device when the
gateway hung up; it may still run them, also after the response), `late`. An exec
request that fails may have reached the device before, so it can leave an orphan
like any command cut off.

The device (external) is modelled by what the code expects of it: a Telnet
device asks for user name and password and asks again after a wrong one; an SSH
device runs the command of an exec request and reports an exit status; a
NETCONF device takes what precedes an end-of-message mark for one message. It
may refuse each step, split a text into two segments, say nothing, or go away at
any moment. `GetDeviceByFQDN` looks only at the first label of a name, and so
does `Known`.

| run | shows |
| --- | --- |
| `calls` | `ImplementsLog` (refinement of `CommandLog`), `OutputIsOwn`, `ZeroBySshMeansRan`, `PasswordAtPrompt`, `CancelStops`, `CallsEnd`, for every pair of 8 kinds of request: each protocol, the default one, an unknown one, an unknown device, a missing field, an unframed NETCONF command, a second device |

Bounds. `MaxReqs = 2`: what a command leaves behind can only reach the next one,
and the binding is set by the first. Two segments per text are the fewest that
make a read return before the text is complete.

`CancelStops` counts from the moment at which the gateway has heard of the
cancellation; how long the client's reset takes on the network is left out.

Fairness: the handler, time (the Telnet dial has a time-out, and a deadline
bounds every read and write after it), and a conversation that does not wait for
its device. Over SSH and NETCONF nothing bounds a wait: `ClientConfig.Timeout`
ends before the handshake. `Waiting` lists the places: the dial, the requests on
the connection, the run of a command, `Wait`, and the three writes of a NETCONF
conversation (`netconf.go:71`, `:89`, `:101`), which need the window that the
device grants the channel. None of them is fair while the device is there and
silent, and `CallsEnd` says that a call hangs nowhere else. They are listed as
hazards.

Abstracted: fixed sleeps (a step may be late anyway), the text of output (only
which request it answers), the number of bytes of a read, the flow control of
`Send`, the size limit of messages.

## 6 `Gateway`

`main` walks from `LoadConfig` (`internal/config`) and `InitLogger`
(`internal/logger`), which may fail, over `signal.Notify` and the three `go`
statements to the `select`. `srv[s]` is the goroutine of a server; what it does
for clients is `calls[s]`. The bastion cannot fail once it listens, because its
accept loop goes on after every error. Until `Notify` a signal kills the process,
after it the runtime drops one that finds the channel full.

| run | shows |
| --- | --- |
| `gateway_life` | `CodeHasCause`, `NobodyWaits`, `CauseEndsProcess`, with failures of any servers and signals at any time |

The exit takes the calls with it: although `main.go:90` logs a graceful
shutdown, nothing waits for them. An end of the process that does not pass
through `main`, such as a panic in a goroutine, is not modelled (section 9).

Fairness: `main`, a server that tries to listen, the report of one that has
failed. Servers need not fail, calls need not end. `ErrCap = 3` is the code's.

## 7 Proofs

All theorems hold for every value of the constants under the named assumptions
of the modules. The type invariants, `OneInHand` of `GnmiSubscribe` and
`NoEarlyLoss` of `BastionSession` are theorems and are not repeated as invariants
of the runs. Every safety property that a run checks is a theorem, and of several
liveness properties the safety part is: that nobody waits in a state in which
nobody can go on. These theorems spell out the guards of the steps that fairness
drives, because `ENABLED` is out of the prover's reach.

`AuthorizedKeysProofs` (any keys, connections, queue capacity and number of
changes; from `LinesAssumption`, `ContentsAssumption`, `EvCapAssumption`, `MaxEditsAssumption`,
`WatchMayFailAssumption`, `EditOpsAssumption`):

- `TypeCorrect`, `Spec => []TypeOK`.
- `NeverSilentlyStale`, `Spec => []NoSilentStaleness`. The property is not
  inductive. Nothing in it says that only one load runs at a time, so a swap of
  the constructor might overwrite a newer one of the goroutine; `StartOrder`
  excludes that: as long as the constructor loads, publishes or installs the
  watch, there is no goroutine. And a read may end with a mixture, so that what
  is coming gets worse without a change of the file; `Undisturbed` says that a
  read with nothing owed behind it finds the version that it opened, because
  every change to the file leaves an event or raises `missed`.
- `VerdictsAreConsistent`, `Spec => []VerdictFromOneTable`. `CallbackInv` says
  that the current table is in `since` while a callback runs, and `VerdictInv`
  that the values it has looked up are those of one member of `since`.
- `ImplementsKeyTable`, `Spec => TableFollowsFile`. `ReadingInv` says that a load
  has opened a file that was present, and `VersionInv` that `keysVer <= bufVer <=
  Len(published)` and, whenever a swap is due, that there is a version `i` at
  which the read began, not before `keysVer`, such that `buf` is a reading of
  versions `i` to `bufVer` of one file. Each step is then an `Edit`, a `Publish`
  or a stutter of `KeyTable`. That `Readings` depends on the versions it overlaps
  and on no later one (`ReadingsKept`) carries this over the changes.

`GnmiSubscribeProofs` (any number of requests and responses, any window):
`TypeCorrect`, `SuccessIsComplete` (`NilMeansComplete`), `HalfCloseComesLast`
(`HalfCloseIsLast`), `ErrorsHaveCauses` (`ErrorHasCause`) and `HoldsOne`
(`OneInHand`), all from one invariant `IInv`. `UpInv` and `DownInv` say which
message a goroutine holds at each of its positions, and that a half-close is the
last thing the client's direction does; `ReportInv` that every error waiting in
`errChan` has its cause, and `eof` that its goroutine has ended with a request in
hand on a stream that is over. `CauseStable` shows that a cause, once there, stays, so
it is still there when the handler takes the error and returns it (`ResultInv`).

`ReportsNeverBlock` and `SubscribeNeverWedged` are the safety parts of
`GoroutinesEnd` and `Settles`. `RoomInv` counts an error in `errChan` to a
goroutine that has ended, so one that runs finds a slot; `ReportedInv` says that
the direction from the device never ends without a report (only the half-close
of the other direction does), so a waiting handler has one to take or a goroutine
to wait for, and with an ended stream that goroutine can go on.

`CommandServiceProofs` (any devices and requests, streams of any length):
`ImplementsCommandLog` (`ImplementsLog`), `SuccessMeansRan`
(`ZeroBySshMeansRan`), `PasswordIsOne` (`PasswordAtPrompt`), `OutputNeverMixed`
(`OutputIsOwn`), `CancellationStops` (`CancelStops`) and `TypeCorrect`.

- `TalkFacts` reduces the ten steps of the three conversations to two: one
  that goes on (`Advance`: at most one more line, a command only with the step
  that leaves `Before`) and one that returns (`Ends`). `TakeFacts` does the same
  for the two handlers (`Refused`, `Started`). Most of the rest is about these.
- `CallInv` says which request is in hand and where it goes. `RanInv` is why a
  command runs once: before it is sent there is none under way and it has not
  run; afterwards at most one line holds it, and a line that still does, or an
  orphan, has not been run. With it each step is a `Take`, `Run`, `Answer` or
  stutter of `CommandLog`.
- `SshInv` ties an exit status to an execution and a success to exit status 0.
- `PassInv`, for the Telnet login: whatever has been read, the password goes out
  right behind the user name to a device that asks for one or has asked for the
  other.

`BastionSessionProofs` (any queue capacity and any number of packets of each
kind; from `ReqCapAssumption` to `MaxDialsAssumption`): `TypeCorrect`,
`DevicesAreReleased`, `NothingLostEarly`, `InputIsConfined`,
`FirstSizeIsShown`, `ServesItsConnection` (`ServedInConnection`) and
`SessionNeverWedged`.

- `SessionInv` adds to `DeviceReleased` and `NoEarlyLoss` that a copier belongs
  to a device session that has got its shell (`CopierStarted`) and that
  sessions follow one another (`InTurn`). With it, a copier that feeds a device
  is the current session's, which is `InputConfined`.
- `FirstSizeShown` speaks only of the moment when all queues are empty.
  `Fresh` says where the newest size is at every other moment: still on the
  wire, or else in the request queue, or else applied, to `term` until the PTY
  is requested and to the device afterwards (`Latest`). The sequence lemmas
  (`TailSizes`, `AppendSizes`) carry it along each move of a packet. The window
  goroutine applies no pty-req, so `StartOrder` shows that none can come behind
  shell or exec, and `WinStarted` that nobody else takes requests before the PTY
  is there.
- `ServedInConnection` needs two facts that reach across goroutines
  (`ServedInv`): the handler's loop ends at a close behind which nothing is on
  its way, because the close is the client's last packet (`CloseIsLast`), and no
  window goroutine competes with that loop (`NoWindowYet`). `RequestTaken`,
  `HandlerMoves`, `MuxServed` and `OthersServed` then map the steps one group at
  a time.
- `SessionNeverWedged` is the safety part of `CleansUp`: after the client's close
  a goroutine can go on until all have ended, or the mux loop is `Stuck`.
  `WedgeInv` follows the close from the wire (`CloseOnItsWay`) to the window
  goroutines, which only end with it (`WindowsStay`), and to the copier, which
  has closed the device's stdin when it ends (`StdinClosed`), so that a session
  which waits for its device (`DeviceAtHand`) waits for one that is told to end.

`DirectTcpipProofs` (any number of bytes, window, buffer): `TypeCorrect`,
`NothingIsCutOff`, `ImplementsBothPipes`. `FlowInv` says that what is read, on
its way to the reader, held and received are consecutive numbers, and reach up
to what was written unless the writer has left; `DoneInv` that a copier ends only
when its source has finished and is empty, or its receiver has left. Every step
is then a `Write`, `Read`, `Finish`, `Cut` or stutter of `Pipes`.

`LineEditorProofs` (any number of keys): `TypeCorrect`, `ScreenAlwaysShowsLine`,
`LineAlwaysIsTyped` (`LineIsTyped`) and `EscapesAlwaysUndone` (`EscapesUndone`).

- For the screen: an erasure takes away the last character of both line and
  screen, and the screen is longer by the prompt.
- `LineIsTyped` compares the line with a reference over all positions of the
  input. That a key changes the reference as it changes the line is
  `Balanced`: behind a character that stays, the characters no erasure has met
  are those that stay. So an erasure meets the last of them, and any other key
  leaves all in place. `Rank` numbers the positions that stay, and `Picked` is
  the sequence they make.
- For passwords, `PasswordInv` says what `lastChar` holds: nothing, or a
  backslash that the reference has and the line has not yet (`HeldBack`). A
  password either has no backslash, and may be edited, or has no erasures.

`GnmiUnaryProofs` (any number of calls, any requests and devices): `TypeCorrect`,
`EachOnItsOwn`, `ConnectionsAreClosed`. `CallInv` ties a connection to the target
of its call, and an arrival to the connection; it speaks of one call only, so
concurrency adds nothing.

`GatewayProofs` (any `ErrCap >= 3`): `TypeCorrect`, `NobodyEverWaits` from
`ErrorsReported` (an error that waits was put there by a server that has
returned since, so there are at most as many as returned servers), and
`ExitCodeHasCause` from `CauseInv`.

The same module instantiates `BastionServer` as `B` and proves about it, for any
finite set of connections, any channels and any `QueueCap >= 1`
(`ServerConstants`, the assumptions of that module):

- `ServerTypeCorrect`. That a queue keeps its bound is the mux loop's guard; that
  a packet is for a channel which exists, the client's.
- `BastionServesInGateway` (`B!Spec => B!ServesInGateway`). A step of one
  connection moves at most that connection into or out of `Connected`
  (`ConnectedSteps`), so the number of calls changes by one (`SameCardinality`);
  all other steps stutter (`ServesStutters`).
- `MuxNeverWedged` and `BacklogAccepted`, the safety parts of `PacketsDelivered`
  and `Accepted`. `ServerInv` ties a packet to its channel: an open to one that
  was sent and not yet offered, a request to one that has been accepted and is a
  session or drained. A full queue therefore has a goroutine that can take from
  it, or belongs to a session that has stopped to receive (`Stalled`).

Only model-checked: every liveness property (`Converges`, `CleansUp`,
`SessionEndsWithDevice`, `Settles`, `GoroutinesEnd`, `EveryResponseSeen`,
`CallsEnd`, `CallsReturn`, `Delivers`, `Released`, `CauseEndsProcess`,
`Accepted`, `ChannelsServed`, `PacketsDelivered`, `DisconnectEnds`). Liveness
under fairness is out of the prover's reach; the theorems named above prove the
part of it that is about single states.

## 8 Disagreements with docs and comments

PROJECT.json lists them under `findings`. Those with a run: the start-up gap, the
stale terminal size, the swallowed `exit`. Those read off the models and the
code, without a run of their own: the mux loop that stalls behind resizes at the
prompt; `exec` answered after the command; `ssh.Dial` without a time-out;
`max_sessions` and `default_timeout` read by nothing; the accept loop that
survives `Stop`; the backslash lost from a password; exit code 0 for an unknown
protocol of a stream; the graceful shutdown that is none; `EOF` returned for a
device's error or its normal end; the plain-text fallback of the gNMI client that never runs; the
old table kept when the file is gone, where a comment says that an empty one is
created; a NETCONF command with its own `<rpc` tag sent without an
end-of-message mark; a refused Telnet login answered with exit code 0; a
half-close that is not passed on; "started successfully" and "listening" logged
before any server listens; a gNMI password cut at a colon.

## 9 Not modelled

- The generated protobuf code, and what the logger writes.
- `handleCommand` and `proxyToDevice`, the variants without a terminal: the
  shell calls them when `termInfo` is nil (`bastion.go:418`), and the only caller
  always passes the address of a variable (`bastion.go:335`).
- The order in which several goroutines answer a channel's requests
  (`bastion.go:816`), and a client that ends lines by CR LF, for which the LF
  answers the next prompt.
- TLS and SSH handshakes beyond success and failure; DNS.
- Malformed packets. An exec request with a payload of less than four bytes
  makes `req.Payload[4:]` panic (`bastion.go:340`), and as nothing recovers, that
  ends the whole process. `HandleExec` models well-formed requests, in which the
  four bytes of the length are there; that the others end the process is a fact
  about one expression, which no interleaving adds anything to.
- The size limit of gRPC messages in the command service. In the unary gNMI calls
  a response over the limit is one of the errors the device's answer may come to
  (`Answered`).
- Removal of the watched directory, and merging of file events that are not
  adjacent.

What could come next: `DirectTcpip` as a channel of `BastionServer`, as
`BastionSession` is; the proxies as servers of `Gateway`, as the bastion is;
replies to channel requests as messages of their own.

## 10 Running

    tlc -workers 2 -config MCAuthorizedKeys_table.cfg MCAuthorizedKeys
    tlapm AuthorizedKeysProofs.tla

Each mutant in PROJECT.json replaces one definition by the variant that stands
before it in its module; the named run must then fail on the named property.

# A verification model of zero-touch

zero-touch lets an operator configure a device by SMS, and reaches devices
behind NAT through a gRPC tunnel.  This directory holds TLA+ models of its
concurrent and crash-prone parts, TLC configurations that check them on small
instances, and TLAPS proofs that hold for every size.

## The system

| part | source | model |
|---|---|---|
| tunnel server: `Register` handler, `Registry`, `ForwarderLoop`, start of `AutoCallLoop` | `grpc-tunnel/src/tunnel_server.cc` | `TunnelServer` |
| session: `Send`, stream table, `Shutdown`, `CloseConn`, `CloseAll`, `Pump` | `grpc-tunnel/src/session.{h,cc}` | `TunnelServer` (lock by lock), `TunnelRelay` (byte by byte) |
| tunnel client: `RunTunnel` | `grpc-tunnel/src/tunnel_client.cc` | `TunnelRelay` |
| SMS through the data store | `src/ds_sms_transport.cpp` | `DsSmsTransport` |
| `Bridge::on_sms` | `src/bridge.cpp` | `ZtSim` in full; `Standalone` and `DsSmsTransport` by what it sends |
| zero-touchd: configuration, gate, accounts, telemetry | `daemon/zerotouchd.cpp` | `ZeroTouchd` |
| AT modem driver | `src/at_modem.cpp` | `AtModem` |
| standalone daemon, its files and its actions | `daemon/zerotouchd_standalone.cpp`, `src/config.cpp`, `src/users.cpp`, `src/direct_action_sink.cpp` | `Standalone`, on `AtModem` |
| gNMI commands, executor, replies, sink, path policy | `src/gnmi_*.cpp`, `src/local_gnmi_sink.cpp`, `src/path_policy.cpp` | `Gnmi` |
| gNMI simulator and SMS console | `sim/gnmi_tree.hpp`, `sim/zt_gnmi_simd.cpp`, `sim/zt_sim.cpp` | `Gnmi`, `ZtSim` |

The tunnel client dials out and registers a name.  The server's forwarder
accepts TCP connections; each becomes a stream of the session registered under
the forwarder's name.  A stream is a socket at either end, a thread (`Pump`)
that carries its bytes into the session, and an entry in the session's table,
through which the read loop finds the socket for the bytes coming back.

Inbound SMS reach zero-touchd through a mailbox of three data-store keys, which
cellular-client overwrites for each message; replies leave through another.  The
standalone daemon drives a modem itself.  In both, the bridge asks a gate, sends
`IOT GNMI ...` to the gNMI executor and everything else to smsctl's engine, an
external library of which the models have only the sessions.

`PROJECT.json` maps every definition to the lines it models, and lists the
hazards of the code with the properties aimed at them.

## TunnelServer

State: the registry; per session the handler's position and locals, `alive_`,
`write_mu_` and the table; the forwarder's position and locals; per socket
`closed`, whether `shutdown()` was called, and the position of its pump.  One
action is one critical section or one system call.  `Send` is two: entering
`write_` with the mutex held, and leaving it.  `WaitFor` tests and waits in one
step, as it holds the registry's mutex from the one to the other; for the same
reason `Add` sets the entry and notifies in one.

| property | what it says |
|---|---|
| `OneWriter` | one thread at a time is inside `write_` of a session |
| `WriteFence` | nobody is inside `write_` once the handler has returned and its stream is gone |
| `RegistryHonest` | a registry entry points at a session that still reads and still has that name |
| `RemovedByOwner` | only a session's own handler takes its entry out |
| `NoOrphanStream` | no pump stays parked on a socket that nobody will shut down |
| `PumpErasesOwnEntry` | the unconditional `erase(id)` of `Pump` hits its own entry or none |
| `TeardownCompletes` | a broken session unwinds: handler, table and pumps |
| `ForwarderReturns` | the forwarder comes back to `accept()`, which it leaves for good only when `accept()` fails |
| `AutoCallStarts` | a registration wakes `WaitFor` |

Runs: `tunnel_reconnect` (two sessions, two names, one socket: reconnects and
name changes) and `tunnel_live` (one session, two sockets, no payload: the table,
the teardown, the forwarder and `--auto`).  The bounds are the smallest at which
two sessions compete for a name and two sockets for a table; the proofs remove
them for the safety properties.  Deadlock checking is off, as the system stops
when sessions, sockets and ids are used up.

Fairness: every handler and pump runs on (weak fairness), the forwarder gets
`write_mu_` although others take and release it again and again, and `Read` of a
broken stream, which has finitely many frames left, fails in the end (strong
fairness for these two).
It assumes that `Write` and `WriteAll` return; a local application that stops
reading blocks the read loop, which `grpc-tunnel/README.md` documents.  Clients,
applications and sockets with data are not fair.

A client that registers the empty name and then another one would leave the
first entry behind (the test for an empty `target` in `Register`); the shipped
client sends one name, so `RegistryHonest` is stated for non-empty names.

### Proofs: TunnelServerProofs

`ServerInvariant` proves `Spec => []IInv` for all sets of sessions, names and
sockets and every bound on ids.  The properties are not inductive:

- `OneWriter` and `WriteFence` need `MutexInv`: who is inside `write_` holds
  `write_mu_`, and the mutex is free once `alive_` is false;
- `PumpErasesOwnEntry` needs `TableInv`: ids are below `next_id_`, unique per
  session, and table entries agree with the sockets;
- `NoOrphanStream` needs `CoveredInv`: a socket with a reader is shut, in the
  table, or in the hands of the thread about to shut it; with `TakenInv` and
  `EmptiedInv`, which say that after `CloseAll` the table can hold only the
  socket the forwarder is about to give up.

`HandlerInv` and `ForwarderInv` give the locals their meaning.  One lemma per
conjunct (`TypeStep`, `MutexStep`, ...) shows that every step preserves it.
From the invariant follow `TypeCorrect`, `WritesSerialised`, `ShutdownFences`,
`RegistryIsHonest`, `StreamsReleased`, `EraseIsOwn` and `EntryRemovedByOwner`.
The liveness properties are only model-checked: fairness and ENABLED are beyond
the prover.

## TunnelRelay and SplicedStream

One session with both ends and the two directions of its gRPC stream.  A `Send`
is one step; the n-th byte written is the number n, so loss, repetition and
reordering show.

| property | what it says |
|---|---|
| `InOrder` | bytes arrive in order, none missing or repeated in between |
| `GracefulEnd` | when a pump found the end of its socket by itself, the peer that hears of it has all the bytes |
| `StreamEnds` | a stream that one side ends disappears from both, for good |
| `ImplementsPipe` | refinement: each stream is a pair of byte pipes (`SplicedStream`) |
| `SilentAfterClose` | SPEC 5.3, violated (below) |

Runs: `relay_stream` (one stream, two bytes each way, so that a `recv` may
return one or two; every thread fair), `relay_two` (two streams, one byte from
the server side), `relay_silence`.

`relay_silence` shows a difference from the specification: SPEC.md 5.3 says a
peer that receives CLOSE "MUST NOT send further frames for it", but bytes already
in the socket are still read and sent by the pump after the read loop has
processed the CLOSE.  The receiver answers such frames with another CLOSE, which
is ignored; `StreamEnds` shows that this comes to an end.

The wires are unbounded: gRPC flow control is not modelled.

## DsSmsTransport

cellular-client and the data store are external: an SMS overwrites the mailbox,
then `sms.version` is bumped, which also happens for other reasons.  The daemon
has two threads: the listener sets `dirty` and notifies, the reactor clears
`dirty`, reads the mailbox, compares with what it has seen and delivers.  An SMS
without a text is dropped and not recorded as seen.  The daemon may crash at any
step; data-store requests may fail.

| property | what it says |
|---|---|
| `OnlyBlindStartReplays` | no SMS is handled twice, over restarts and failed requests, unless the read in `start()` was the one that failed |
| `NoRedelivery` | no SMS is handled twice at all; violated (below) |
| `FreshOnly` | nothing that predates the baseline is handled |
| `RepliesMatch` | what is transmitted answers an SMS that was handled, to its reachable sender |
| `WakeupNotLost` | after a watch event the mailbox's content ends up seen, unless it has no text or the read in `drain_inbound` fails, which is not retried |

Runs: `sms_mailbox` (three SMS, with and without a text, from a reachable and an
alphanumeric sender, two time stamps so that a repeat may carry the same one or a later one, one crash,
one extra bump, one failed request; both threads and cellular-client fair) and
`sms_replay`.  `sms_replay` shows that "a restart never re-delivers
an old command" (comment in `start()`) depends on one read: when it fails, what
was seen stays empty, and the next bump delivers the old command.

The mailbox holds one message, so an SMS that arrives before the previous one
is drained replaces it, and so does a reply that is put in `sms.send.*` before
the previous one was transmitted; the model has both and no property denies them.

## ZeroTouchd

`ds` is the store's six `zerotouch.*` keys, `cfg` the daemon's copy in use.
`load_config_from_ds()` is one `ReadKey` per request: the switch and the port
are in use at once, the session settings when the last one has been read.
Between two reads other processes write keys (`Write`) and the client thread
runs the watch callback (`OnEvent`), but the reactor handles no SMS and no timer.
A failed read counts as an absent key.  `Effective` is what a read makes of a
value: a number below 1 gives the default, and the port keeps its lower 16 bits.
`handle_exception` takes the dirty flag
and begins a load, `Reloaded` ends it and publishes.

| property | what it says |
|---|---|
| `StaleIsPending` | when the loop runs on a copy that differs from the store, an event or a wake-up with the flag is pending, or one of two losses happened |
| `HotApplied` | once the keys stop changing the copy becomes and stays what the store says, but for the same losses |
| `NotOlder` | every value in use was the store's at some time since the last load began, or is the default after a failed read of that key |
| `GateHolds` | whom the gate lets through, the store has let through since the last load began, by its switch and by its list, unless the read of the list failed |
| `PublishedTrue` | the published state and session count are the real ones, unless their publication failed |
| `IInv` | the inductive invariant of the proofs |

The two losses are what the code has: a read that fails is not repeated until
the next change, and a change between the first load and the watch raises no
event.  `DEPLOY.md` ("hot-applies, no restart") mentions neither.

Run: `daemon`.  Three writes are enough for a change before, during and after a
load; one failed request and two commands reach a login and a later one.  The
switch, the port (to a value that is refused and one that is cut) and the
allowlist change; the other three numbers are read alike.  Fairness: the reactor
dispatches what is pending and the client thread delivers events; writers and
senders are not fair.

`DESIGN.md` says that "a disabled or non-allowlisted sender is dropped in
silence".  A failed read of the switch shuts the gate, but a failed read of
`zerotouch.allowed.numbers` gives the empty list, which lets every sender through
until the next change; this is the exception in `GateHolds`.

### Proofs: ZeroTouchdProofs

`DaemonInvariant` proves `Spec => []IInv` for all values, writers and bounds.
`StaleIsPending` and `NotOlder` speak of the loop and say nothing while a load
is under way, so they are not inductive.  `Loading` carries them through it: a
key already read that the store has changed since is pending, what was read is in
`seen`, and the copy in use agrees with what was read as far as it has been
applied.  A key not yet read needs nothing, as its read is still to come.
`OrderLemma` says that a read leaves exactly the other unread keys; `WriteStep`,
`ReadStep`, `BeginStep`, `EndStep` and `FlagStep` cover the kinds of step.  The
only assumption is `DefaultAssumption`: an absent switch is off.  From the
invariant follow `StaleCopyIsPending`, `CopyNotOlder` and `GateIsTheStores`.
`HotApplied` (fairness) and `PublishedTrue` are only model-checked.

## AtModem and Standalone

The driver is one thread.  `plan` is what the functions on its stack have still
to do, in order; `exch` is the `run_at()` it is in.  The modem is external: it
executes what was written at its own pace and answers on `wire`.  `Read` takes
any part of what is there, `Timeout` leaves an answer behind for the next
command, and a `+CMTI` line may fall between the lines of a listing.  `drain_sms()` becomes the listed parts followed by the deletions of
their slots, and the callback's commands are put in front of the rest.
`Standalone` adds the files (read once per run), the gate, the sessions and the
actions.  A reboot that succeeds ends the run with the slots of its drain
undeleted; one that fails is answered.  Numbers in the file are three digits to
the base 2^16, so that the cuts to 32 and 16 bits are what the code does.

| property | what it says |
|---|---|
| `Accounted` | a part leaves the SIM only after its SMS was handed on or while the reassembler holds it |
| `OncePerRun` | an SMS is handed on once per run, unless its deletion failed or a listing was stale |
| `AnswersMatch` | only a time-out or an earlier process makes a command read another's answer |
| `InertWhileDisabled` | a disabled daemon executes nothing and sends nothing |
| `NeverStranded` | the SIM keeps being emptied of what can be decoded, but for a modem left at the prompt, a port that never opened, or endless reboots |
| `StuckPromptCleared` | the modem does not stay in text mode; violated (below) |
| `StoredNotExecuted` | what is on the SIM when `start()` runs is not executed in that run; violated (below) |

Runs: `standalone_sms` (two slots; a login in two parts and a reboot command; one
fault: a late answer, an ERROR, a crash or a failed open), `standalone_prompt`
and `standalone_boot`.  The files of the first hold numbers that are refused and
cut.  Three parts on two slots are enough for a listing to hold one part of an
SMS, for a slot to be used again while a listing is handled, and for a reboot
before the deletion of its own slot.  Parts that cannot be decoded and numbers
that make no PDU are in the module (`Garbled`, `Unencodable`), with no member in
these instances: a fourth part takes TLC too long.  Fairness: the thread and its
timer go on and the modem executes what it gets; SMS need not arrive.

`standalone_prompt`: a `>` that comes after its five seconds leaves the modem in
text entry.  `send_sms` would "clear a stuck '>' from a previous aborted send",
but the poll's `AT+CMGL` is eaten as text, so no SMS is listed and nothing is
sent any more.

`standalone_boot` (module `StandaloneBoot`, which adds what was on the SIM at the
last start): `DESIGN.md` says that SMS in SIM storage "cannot execute on boot",
but `start()` ends with `drain_sms()`, which hands them on like any other.  A
stored LOGIN and a stored command of the same sender are executed.

## Gnmi and ZtSim

`Gnmi` has the command path as operators: parser, access, denylist, the two
backends, the reply, and the server's tree and handlers.  A token is a sequence
of symbols, a path a sequence of segments, a tree a function on paths.  `ZtSim`
puts them to work: a console handles one line at a time and waits for its RPC;
the server runs one callback at a time.  A client may give up a call whose
request is still read; the server may restart from its seed; the other client
may send requests that do not parse.

| property | what it says |
|---|---|
| `NoSecretShown` | no reply shows a sensitive leaf, named or in a subtree, on either backend; `/tree` on the in-memory backend, which prints it whole, is no reply |
| `WritersLoggedIn` | a console begins a write only for a sender who is logged in as Admin at that moment |
| `OkMeansRunOnce` | OK means the Set ran, once; one that ran was answered OK, is waited for, or was given up |
| `PromptReturns` | the console comes back to its prompt |
| `ConnsReclaimed` | the server does not keep the connections of finished calls |

Run: `sim_demo` (a console with two senders, three lines and one changed setting,
another client with one request, one restart; the console uses either backend).
Fairness: the event loop serves what is ready and a waiting client notices; giving
up is not fair.

The tree's `erase` removes a leaf or, where there is none, the subtree, so a
replace of a path that has both keeps the subtree; the model has it, the seed
trees have no such path.

### Proofs: GnmiProofs

`RemoteGetMasks` and `LocalGetMasks`: for every denylist, request and answer,
each sensitive row of a GET reply is masked.  A remote answer may hold any rows;
the proof rests on the second screening (`GetResult`) and on `format_get`
showing the error of a row in place of its value.

## Only model-checked

Liveness, which the prover does not reach, and all of `TunnelRelay`,
`DsSmsTransport`, `AtModem`, `Standalone` and `ZtSim`: their properties hold on
the instances above.

## Not modelled

- gRPC flow control, `Finish()` beside `Write`, the tunnel client's keepalive
  thread and reconnect loop: library behaviour or timing the models have no
  state for.
- smsctl (engine, lockout, nonces), `gnmi_client`, the data store, the modem,
  PDU coding: external; the models keep what the code sees of them.
- `LiveSink` and `MemDsSink`: each hands one call of smsctl's engine on.
- A failing `write()` to the serial port, and a gNMI answer with status 0 whose
  body does not parse.
- Option parsing, `main.cpp`, logging, the Echo demo, dialling and listening: no
  state that a property could be about.
- Splitting and trimming of file lines, the 160-character clamp, the parsing of
  `+CREG`, `+CSQ` and `+CGPADDR`: text.

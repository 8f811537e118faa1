# AutoEthernet in TLA+

AutoEthernet is a SOME/IP demonstrator in Python: a server keeps the signals of
a vehicle in a database, clients change them with method calls over TCP,
publisher threads send them out as UDP events, and SOME/IP-SD messages announce
services and subscribe to events. Everything runs in threads of a few programs:
`tui` (server or client with a menu), `node` (server) and `client`. The modules
here model the parts of these programs that run concurrently or over the
network, TLC checks them on small instances and TLAPS proves the safety
properties that matter most for all instances.

Paths below are relative to the Python package `src/autoeth/` of the repository.

## The system: components, state, operations

| Component | State | Operations | Interacts with |
|---|---|---|---|
| Signal database (`SignalDatabase` of `apps/tui.py`; the `state` dictionary and `state_lock` of `apps/node.py`) | name -> value, a lock | `get`, `get_all`, `get_subset`, `set`, `set_multiple` | called by handler, publisher and menu threads |
| Method calls (`_tcp_handler`, `_tcp_handler_with_db`, `_tcp_call`, `TcpServer._run`, `_handle_one`) | a connection and a handler thread per call | connect, request, write, respond, time out, hang up | writes and reads the database |
| Event publishers (`UdpEventPublisher`, `UdpEventPublisherWithDb`, `ServerContext.toggle_event`) | a thread with stop event and session number; the table `_publishers` | toggle, one round per period, send | reads the database and the registry |
| Event subscriptions (`EventSubscription`, `_udp_subscribe`) | socket, count, last values | receive, stop | started and stopped by `ClientContext.toggle_sub`, or the last part of `client.py` |
| Subscribing (`_subscribe_eventgroup`, `_send_subscribe`, `SdListener`, `SubscriberRegistry`) | the registry of the server, `_subs` of the client | subscribe, stop, acknowledge | the registry is read by the publishers |
| Announcement and discovery (`SdAnnouncer`, `_discover`, `_client_connect`) | session number, time of the next offer, receive timeout | offer periodically, take the first offer | tells clients where the server is |
| Server lifecycle (`ServerContext.start_infrastructure`, `stop_all`, `TcpServer.start/stop`) | stop events, threads, bound sockets | start, stop, start again | owns all threads above |
| SD wire format (`core/service/discovery.py`) | none | build, parse | listener, announcer, clients |
| Header and framing (`protocols/someip`) | the byte stream of a connection and how much of it is read | build, parse, `recv_someip` | handlers, publishers, clients |
| Codec and E2E (`core/serialization`, `core/validation`) | none | encode, decode, wrap, unwrap | handlers, publishers, clients |
| Catalog (`core/config.py`, the tables `node.py` builds from it) | read once | load, validate, resolve, build routes and entries | everything |
| Menus, command lines, summary, socket helpers | terminal and sockets | I/O | everything |

Where it is hard, and what must hold:

* **Database.** Several threads read and write sets of names. A read must show
  one instant, a write must be all or nothing, nobody may wait for ever.
* **Method calls.** A client may give up at any moment, two clients may write
  the same signals, a handler may die on a payload. A response must carry what
  the documentation promises, the effect of a call must match its outcome, and
  no handler thread may be left behind.
* **Publishers.** A publisher is told to stop and not waited for, its values and
  its copy of the registry may be stale when it sends, `sendto` may fail for one
  of several subscribers, the session number wraps. A stopped publisher must end
  soon, subscribers must see one publisher's values in order, and a change of
  the database must reach them.
* **Subscribing.** Datagrams are lost, delayed and reordered, servers restart,
  and on one host several sockets share the SD port. A client told that it is
  subscribed must be registered, an entry must concern its sender only, and the
  listeners must not keep each other busy.
* **Lifecycle.** `stop_all` sets flags and joins nobody, each accept loop binds in
  its own thread, and the menu may start the next server at once. A stopped
  server must end and do little before, a started one must have its ports, and a
  client whose connection is queued must not be forgotten.
* **SD wire format.** Entries share one array of options and name theirs in 8 and 4
  bits; a long datagram is cut by the receive buffer. An entry may lose options
  but must never get another one's.
* **Framing.** `recv` returns any piece of the stream, a length out of range is refused
  with the payload unread, and the peer may go at any byte. The handler must see
  whole messages in their order until one is refused.
* **Codec and E2E.** Values fall between two steps or out of range, types are signed,
  payloads are short, long or damaged. What is stored must be as near to what was
  asked for as the signal allows, must not drift when it is sent back, and nothing
  damaged may be stored.
* **Discovery and the client's session.** Each datagram restarts a receive timeout, the
  first offer of anybody ends the search, servers stop and come back. A search
  must not give up while a server announces itself, the wait for an ack must end in
  time, and a client that a server has acknowledged must get its events.
* **Catalog.** Ids and ports are masked by the header but not bounded by `validate`,
  routes are keyed by ids, names may carry blanks. A call must reach the method of
  the name the user gave.

`PROJECT.json` lists the hazards one by one with their lines in the code.

## The modules

| Module | What it is |
|---|---|
| `SignalValues` | valuations of the signals; `Overlay` (what `set_multiple` does to one) and `Select` (what `get_subset` returns) |
| `AtomicDatabase` | the abstract database: a call takes effect at one instant between invocation and return |
| `SignalDatabase` | the code: a lock, and loops that visit one name per step |
| `TcpMethods` | `_tcp_call` against either handler, any number of calls and clients |
| `EventPublisher` | the publisher threads of one event, the menu, the registry, the subscribers |
| `SdSubscription` | clients and listeners over a network |
| `ServerLifecycle` | the menu that starts and stops servers, their accept and SD loops, the clients' connections |
| `SdWire` | SD messages that grow by an entry or an option, and what a receiver parses |
| `SignalCodec` | encode and decode, the CRC and the E2E trailer, the SOME/IP header, as operators |
| `MessageChannel` | the abstract connection: messages come whole and in order until one is refused |
| `SomeIpStream` | the code: a stream of bytes, `_recv_exact` and `recv_someip` in the handler's loop |
| `MethodBytes` | the handler of `node.py` on such a connection, with the bytes of its requests; composes the two above |
| `Catalog` | what a catalog must fulfil and what servers and clients derive from it, as operators |
| `ClientSession` | a client from discovery to its last datagram, against servers that announce themselves; uses `Catalog` |
| `*Proofs` | the theorems about the module of that name |
| `MC*` | the instances for TLC |

Definitions called `Mutant` in a comment are versions of the definition next to
them with a plausible bug. They are used by nothing; replacing the definition
by its mutant violates the property that `PROJECT.json` names, which shows that
the property looks at the code.

### SignalDatabase

`data` is `_data`, `lock` the thread that holds `_lock`; `phase`, `call`, `todo`
and `got` are the stack of a thread inside a method. `Acquire` and `Release` are
the ends of `with self._lock`, `SetOne` and `GetOne` one turn of the loop of
`set_multiple` and one item of the comprehension of `get_subset`. The loop's
order is left open. `get` and `set` are calls with one name and `get_all` is a
call with all of them. An unknown name is skipped by a write and reads as 0.0.

`AtomicSpec` is the refinement: the abstract write happens when the lock is
taken (`absData` completes the valuation with what the holder has still to
write), the abstract read too (`absGot` anticipates its result). So a module
that uses the database may treat a call as one step; `TcpMethods` and
`EventPublisher` do.

### TcpMethods

A call is a connection, the `_tcp_call` that opened it and the handler thread
that serves it. `stage` is the client's side, `inbox` and `reply` the two
directions of the connection, `handler` and `answer` the thread's position and
the values it will encode. `log` is a history variable: all valuations the server
has had. A value is named by the call that wrote it, so properties can say whose
value a response shows. `program` says which handler the server has: `_tcp_handler`
of `node.py` encodes the values it decoded, `_tcp_handler_with_db` of `tui.py`
reads the database again. `Requests` are the requests that arrive, with a
defect where the peer has another catalog or another protocol: `not_request`,
wrong `crc` or `counter` (E2E), `short` (decode raises). A client makes one call
at a time, as the menu does. `Accept` is the accept loop and `DieDecoding` the
exception that leaves the handler, after which `_handle_one` closes the
connection.

### EventPublisher

A `Run` is one publisher thread from `toggle_event` to the close of its socket.
`active` is the entry in `_publishers`, `stopped` the thread's `stop_evt`. The
steps of `run` are: look at `stop_evt` (`Due`, `Finish`), take the snapshot
(`Snapshot`), count, encode and copy the registry (`CopyRegistry`), one `_sendto`
per subscriber in any order (`SendTo`), or one to the multicast group
(`SendMulticast`). The database is a version number that `WriteData` increases.
`last` is what a subscriber has decoded last; a datagram arrives at once or, for
the subscribers in `Flaky`, possibly never. `rounds` and `late` are history
variables that count rounds after the stop and datagrams to a subscriber that
has left. When a thread has ended its variables are reset, which keeps the state
space small and loses nothing.

### SdSubscription

`net` holds the datagrams in flight. A request is multicast: one copy per
listener. An ack goes to the SD port of a *host*; every listener there, and every
client that is waiting for an ack, has bound that port with `SO_REUSEADDR`, and
any of them may get it. `HostOf` places the programs. `registry` is the server's
`SubscriberRegistry`, `subs` the keys of `_subs`, `asking` the eventgroup of the
running `_subscribe_eventgroup`, `acked` a history variable: the subscriptions for
which it returned True. A client in `Conforming` stands for an external
SOME/IP-SD peer, whose StopSubscribe names its endpoint; the repository's client
sends none. `HandleUnknown`, `HandleStop` and `HandleSubscribe` are the three ways
through `_handle_subscribe`.

### ServerLifecycle

A `Server` is a `ServerContext`: one per choice in `menu_server`. `phase` is how far
the menu thread is with it (`start_infrastructure`, up, `stop_all`), `halted` the
threads whose stop event is set; the SD threads share one event, every
`TcpServer` has its own. `loop` is where a thread is: before its `bind`, at the head
of its loop where it looks at the event (`Wait`, `Finish`), or waiting for half a
second, a connection, a datagram or the next offer (`Idle`, `Accept`, `SdRound`).
`BindFails` is the exception in the accept thread when another listening socket
has the port; with `SO_REUSEADDR` the connections that are still served do not
matter, as on Linux. `conn` and `at` are the clients' connections in the backlog.
`late` and `clean` are history variables. What a handler does with a connection
is in `TcpMethods`, the publishers are in `EventPublisher`.

### SdWire

`entries`, `options` and `refs` are the entries given to `build_sd_message` and its
`all_options` and `opt_refs`. A state is a message; `AddEntry` and `AddOption` make a
longer one, as `SdAnnouncer._build_entries` does, so all messages up to the
bounds are states. The operators say what the fields hold (`Last32`, `TtlField`)
and what `parse_sd_message` returns to a receiver with a buffer of `b` bytes:
whether it accepts the datagram, which options it understands, and which of
them an entry gets (`ParsedOptions`). Lists of options are sets of places, so their
order is kept; `owner` is a history field that says which entry an option was
given with, and does not go over the wire. An option of a kind outside `Known` comes from a peer; its bytes
are skipped and its place stays `None`. Field widths and sizes are constants.

### SignalCodec, SomeIpStream, MessageChannel, MethodBytes

Bytes are numbers, messages sequences of them. `stream` is everything the peer has
sent on a connection, `read` how much of it `recv` has returned, `at` where the
message being read begins; `phase` is where the handler's thread is. `Recv` is one
`recv` of `_recv_exact`, which returns any number of bytes that is not too much.
`RefuseLength` is the `ValueError` of `recv_someip` and the `continue` of the handler:
the payload stays unread, so the next header is whatever comes. `sent`, `starts` and
`frames` are history variables: the messages sent, where each begins, and what
`recv_someip` has returned. `ChannelSpec` is the refinement: `frames` is the channel of
`MessageChannel` whose messages `Fitting` are those below the limit.

`MethodBytes` puts the rest of the handler around it. A request is what a user asks
for (`values`), with what the client's catalog makes of it (`sigs`, `protected`, `key`)
and what happens on the way (`noise`); `Wire` computes the bytes as `_tcp_call` does.
The handler has the bytes only: `Ignore`, `Reject`, `Fail` and `Serve` are the four ways
through its loop, `Answer` its `send_someip`. `writes` and `replies` say which message
was stored and answered, so that the properties can compare with what was asked.
What the handler makes of a message is a chain of operators on its bytes, `Hdr`,
`Known`, `Body`, `Accepted`, `Values`, `Response`, in the order of the code. Loops over a
sequence (the offsets of the fields, `encode`, the CRC) are recursive functions on the
number of turns taken; the register of the CRC is a function from its sixteen bits, and
a byte goes into it with its highest bit first, as in `crc16_ccitt`.
`TcpMethods` has the other half: several connections, the client's side, and messages
taken as they are meant.

### Catalog, ClientSession

A catalog has the services and messages of the file in their order, with the fields
that ids, ports and names depend on; `padded` says that there are blanks around the
service's name, which `resolve_someip` strips and `_build_entries` does not.
`validate`, `Routes`, `all_ports`, `egid_map` and `build_entries` are what the code computes;
`Starts` says that a server's `main` gets past its tables. `OnWire` is the mask of the
header.

`ClientSession` has one client, which runs `main` of `client.py` or `_client_connect` of
`tui.py` and a call, with the arguments in `cmd`, and servers that all run
`SdAnnouncer` and `SdListener`. Time passes in ticks, and all timers count down:
`due` the time to a server's next announcement (negative when its thread is late),
`left` the receive timeout that every `recvfrom` starts anew, `deadline` that of
`_subscribe_eventgroup`. `inbox` is the receive buffer of the client's socket, which
holds what was sent while it is open. `target` is the address the client has, `heard`
the server whose offer ended the search. `DiscoverOther` and `AckOther` are the loops
with a datagram that is not the one waited for, `AckTimeout` and a failing `sendto`
end in `listen` too, since nobody looks at the result. `faithful`, `spent` and `acked`
are history variables: the servers no announcement of which was missed since the
search last called `recvfrom`, the time spent waiting for the ack, and the servers that
have acknowledged.

## What TLC checks

| Run | Instance | Result |
|---|---|---|
| `database` | 3 threads, 2 signals and an unknown name, reads and writes that overlap | all hold |
| `tcp` | 3 calls of 2 clients, 2 overlapping methods, one protected, one not routed, every defect, each handler | all hold |
| `tcp_tui_confirms` | the same | `ConfirmsWhatWasWritten` is violated |
| `publisher` | 2 publisher threads, 2 subscribers, one of them flaky, session numbers modulo 2, one write | all hold |
| `sd_apart` | 2 servers, a client and an external peer, one host each, 2 eventgroups, 2 subscriptions, 1 restart | all hold |
| `sd_stop` | the same | `StopUnsubscribes` is violated |
| `sd_together` | the same on one host | `NoAckOfAck` is violated |
| `lifecycle` | 2 servers, 1 TCP port, 1 SD thread, 2 connections | all hold |
| `lifecycle_restart` | the same | `AlwaysServed` is violated |
| `sd_wire` | messages of 3 entries of 4 kinds and 5 options of 3 kinds, 4 buffers | all hold |
| `method_bytes` | 2 messages on a connection, out of 16 requests with values, noise, counters and lengths of every kind | all hold |
| `session` | 2 servers, 1 client, 7 choices of catalogs and arguments, 1 server that stops, 1 foreign datagram | all hold |

What the properties say:

* `NoTornRead`, `AtomicSpec`, `SomeCallReturns`: the database is atomic and never stuck.
  Python's lock is not fair, so no single caller is promised its turn, and none of
  the properties says so.
* `ConfirmsWhatWasWritten`: a response shows the values of its own request. It holds
  for `node.py` (`ConfirmsOnNode`) and not for `tui.py` (finding 1).
* `AnswersFromOneInstant`: a response is a restriction of one valuation the
  server had at or after the write it confirms. Holds for both.
* `EffectMatchesOutcome`: an answered call was applied once, a refused one or one
  whose handler died never, one that timed out at most once.
* `HandlersEnd`: a client that has left leaves no handler thread behind.
* `OneRoundAfterStop`, `StoppedEnds`: a publisher that was told to stop ends after at
  most one more round. `NoOrphan`, that toggling never leaves one the menu cannot
  stop, is proved.
* `OneLateDatagram`: the stale copy of the registry costs a subscriber that
  left at most one datagram per publisher.
* `StreamInOrder`: one publisher's values never go back and no session number is
  skipped unless a datagram was lost, across the wrap.
* `UpdateReachesSubscribers`: a write reaches every subscriber that stays.
* `AckMeansRegistered`: a client told True is registered with some server until it
  restarts. `OnlyOwnRegistration`: an entry, however late, changes no registration
  but its sender's. `RequestIsServed`: where nothing is lost, a request registers
  the client with every server that offers the eventgroup and keeps running.
  `FallsSilent`: listeners do not keep each other busy.
  `NoAckOfAck`: no ack is answered, which fails on one host (finding 3).
* `OneLateRound`: a stop that comes just after a loop looked at its event costs one
  more connection, offer or datagram per thread, never two.
* `CleanStartServes`: a server that was started when no accept loop of another one
  was alive gets all its ports. Without that premise see finding 4.
* `StoppedServersEnd`, `QueuedIsAnswered`: the threads nobody joins end and give
  the ports back, and a queued connection is accepted or reset.
* `RoundTrip`: what `build_sd_message` writes `parse_sd_message` gives back, as long
  as counts, indexes and size fit. `EndpointIsOwn`: a datagram that is cut, or a count
  that exceeds four bits, loses options, but the first endpoint is the sender's
  first or none; `OwnOptions`, which is proved, says it of all options. Beyond index
  255 this does not hold, and the properties say so in their premise.
* `FieldsSurvive`: a stop is a stop and nothing else is, and a counter that is too
  large leaves its neighbours in the word alone.
* `ChannelSpec`, `EveryMessageTaken`: the handler gets the messages sent, whole, in
  order and each of them, until one was refused for its length.
* `NearestStored`: for every signal of a call the server stores the value the signal
  can carry that is nearest to the one asked for. `EchoExact`: the signal bytes of a
  response are those of its request, whatever they are, with its ids and session.
* `DamageIsDropped`: a protected message with noise of up to sixteen bits in a row, or
  the counter of another session, stores nothing.
* `SilenceMeansLoss`: a search gives up only if, during its last timeout, every server
  was away at some time or had an announcement lost. The premise is that a timeout
  is longer than a period and the lateness of a thread.
* `AckWaitBounded`, `WaitsEnd`: the wait for an ack takes less than two timeouts though
  its deadline is not looked at within a receive, and both waits end.
* `CallReachesMethod`: with one catalog everywhere, whose ids and ports fit into 16
  bits, a call that gets an answer has run the method the user named. Without those
  premises it may be refused, rejected, or run another method.
* `EventsOnceAcked`: a client whose subscription was acknowledged, whether it heard the
  ack or not, gets its datagrams while that server runs, if the address it named
  reaches it. `127.0.0.1` reaches it from its own machine only (`tui.py:798`,
  `client.py:215`).

Findings, each with the run that shows it:

1. `tui.py:254`: the response of `_tcp_handler_with_db` is read in a second locked
   section and may show a concurrent call's values, where the documentation
   promises the written ones (`docs/architecture.md:113`).
2. `tui.py:831`: the StopSubscribe has no endpoint option and the listener needs
   one, so unsubscribing from a unicast event does not unsubscribe
   (`README.md:210-212`).
3. `node.py:395`: the listener takes an ack for a subscription and answers it. On
   one host two listeners can go on like that. Which socket gets a unicast
   datagram on a shared port is the operating system's choice; where the socket
   bound last wins it takes a second server, or an ack that comes after the
   waiting client has closed its socket.
4. `tcp.py:72`: a server that is started again before the accept loop of the
   stopped one has looked at its flag (at most half a second) fails to bind in its
   thread and stays without TCP service, although methods are "always served"
   (`README.md:170`).

Worth knowing, and within what the properties allow: after a message was refused
for its length its payload is read as messages and may be served as a request
(`node.py:138`), other
datagrams restart the timeout of a search, which the repository's documentation
calls "3 s timeout" (`README.md:177`), the search ends with an offer of any service, and
one malformed datagram on an event's port ends `client.py` while `tui.py` drops it.

### Bounds

* Three threads are enough for a reader to meet two writers, or a writer two
  readers; a call visits at most three names.
* Three calls let one overtake two others of which one belongs to the same
  client (a call made after a timeout). Two overlapping methods make partial
  overwriting possible.
* Two publisher threads are one toggle off and on; a third one would meet at most
  the state the second left. Session numbers modulo 2 wrap every second round.
  One write separates old from new; rounds are unbounded.
* `MaxToggles` = 2 subscriptions (by one client twice, or by each once),
  `MaxRestarts` = 1, and `MaxHops` = 2 is the smallest bound that tells a request
  from an answer and from an answer to an answer; a longer exchange stays at
  `MaxHops` and still exists, so `FallsSilent` sees it.
* Two servers are a stopped one and its successor; a third would find at most what
  the second finds. One port, since ports do not meet except in `stop_all`, which
  stops them one after another; one SD thread stands for announcer and listener,
  which differ only in what a round is. Two connections can reach either server,
  and one of them the backlog that another has just left. The backlog's length is
  not modelled.
* `SdWire` has 2 bits for counts and indexes, so that three entries and five options
  exceed both, and buffers that refuse the message, cut its options or hold it.
* Two messages on a connection are one that is refused or served and one after it;
  `MaxPayload` = 5 lets a seventeen-byte payload be refused whose bytes read like a
  header, and a payload of exactly the limit pass. The bursts are one bit, neighbours,
  and spans across bytes; the signals have an offset, a negative scale, and a sign.
  32-bit types exceed TLC's integers and are covered by the proofs alone. A protected
  payload may be damaged in its signals, counter and CRC.
* In `session` a period of 1, a lateness of 1 and a timeout of 3 are the shortest that
  satisfy the assumption with servers that may be late, `Buffer` = 2 lets a datagram wait behind another one,
  `MaxNoise` = 1 restarts a timeout once, `MaxStops` = 1 takes a server away at any point
  and lets it come back, `Count` = 2 tells the first datagram from the last. `IdSpan` is 16
  instead of 2^16 and one catalog exceeds it.
* The proofs do not depend on any of these bounds.

`CHECK_DEADLOCK FALSE` is set for `TcpMethods` (all calls of the instance have been
made), `SdSubscription` (all toggles and restarts have been spent and the network
is silent), `ServerLifecycle` (all servers have been started and stopped),
`SdWire` (the longest message), `MethodBytes` (the handler has ended, or waits for a
message that nobody sends) and `ClientSession` (the client is through). The others
never stop.

### Fairness

Weak fairness per thread, for the steps a thread takes by itself: a daemon
thread of CPython that can run is scheduled. In `ServerLifecycle` the menu
thread finishes a start or stop it has begun, as nothing in them blocks, and
every wait of a loop is over at last. No fairness on what users do
(`Invoke`, `Connect`, `ToggleOn`, `Subscribe`, `Restart`, `Start`, `StopAll`), on writes, or on joining and
leaving. `SdSubscription` has weak fairness on the delivery of *some* datagram,
with a bounded number of requests; a lossy network may lose all of them, and
`RequestIsServed` assumes one that does not. `HandlersEnd` rests on the kernel
telling a handler that the peer's socket is closed, as it does for the sockets
that CPython closes when `_tcp_call` is left.

In `MethodBytes` the handler's thread runs: `RecvStep` is weakly fair, and the handler
does not stay with a message at hand (`[]<>(phase # "handle")`, which is weak fairness
of `Handle` written so that TLC need not evaluate its bytes again); nobody has to send
or to leave. In `ClientSession` time passes, the client's steps and the announcers are
weakly fair, and `EventArrives` is strongly fair: a server that keeps sending gets a
datagram through now and then, also when it stops and returns. No fairness on what
the network does with offers, requests and acks, nor on servers that stop or start.

## What is proved

The proofs hold for all values of the constants that satisfy the modules' named
assumptions (`SignalAssumption`, `DatabaseAssumption`, `MethodsAssumption`,
`PublisherAssumption`, `SdAssumption`, `LifecycleAssumption`, `WireAssumption`,
`StreamAssumption`, `RequestAssumption`, `CatalogAssumption`, `SessionAssumption`). They give the
constants their types; beyond that, `StreamAssumption` says that peers send messages
whose length field is right, as `build_message` makes them, and `SessionAssumption`
that servers have catalogs with which they start and that a timeout is longer than a
period and the lateness of a thread. `RequestAssumption` says that ids, session and
counter of a request are 16 bits wide, that noise turns over bits of the payload, and
that the limit of `recv_someip` fits the length field (4096 does); `CatalogAssumption`
that a signal is one `validate` lets through (`config.py:117-122`: a scale that is not
zero) and that the server's catalog defines a name once. The values a user asks
for are any numbers, and a request may name a method the server does not have, or list
other signals than the server's catalog does.

* **`DatabaseType`, `ReadsAreWhole`, `DatabaseIsAtomic`** (`SignalDatabaseProofs`).
  `NoTornRead` is not inductive: the invariant adds `MutualExclusion` (nobody else is inside when a
  name is written) and `TodoOK` (a thread has only names of its own call still to
  visit). From it every step of the code maps to a step of `AtomicDatabase`, or to
  none.
* **`MethodsType`, `NodeConfirms`, `AnswersAreSnapshots`, `EffectsMatch`**
  (`TcpMethodsProofs`). `NodeConfirms` is about servers with `program = "node"`. The
  snapshot theorem carries along where the answer of a handler in progress comes
  from: the log only grows, its last entry is `data`, and what `Since` holds it holds.
  `EffectsMatch` needs `EffectOK`, which counts the entries of the log that show a
  call by how far its handler is: none before its write, one after it, and a handler
  that rejects or dies never gets there.
* **`PublisherType`, `NoneLeftBehind`, `StopIsHeeded`, `LeavingIsHeeded`, `PublisherInOrder`**
  (`EventPublisherProofs`). `NoOrphan` needs
  that an unused thread has not been stopped; `OneRoundAfterStop` that rounds are
  zero while a thread runs unstopped or has just looked at its `stop_evt`;
  `OneLateDatagram` that members of the registry, and subscribers still to be sent
  to, have had no late datagram. `StreamInOrder` follows from `StreamOK`, which
  relates the last datagram of a subscriber to the snapshot and session number of
  the thread that sent it.
* **`SubscriptionType`, `RegistrationsAreOwn`, `AcksAreTrue`** (`SdSubscriptionProofs`).
  The first two hold wherever the programs run; `SendersOK` says what every
  datagram in flight can be. `AcksAreTrue` assumes `OwnHosts`: clients share a host
  neither with each other nor with a server, and no external peer reports the
  address of a client of this repository. Its invariant says that an ack on its
  way to a client is the sign of a registration, which only a restart removes.
* **`LifecycleType`, `StopIsSeen`, `CleanStart`** (`ServerLifecycleProofs`). The strengthening adds `AloneOK` (while a server that
  found the ports free is in the menu's hands no other one has an accept loop),
  `StoppedOK` (the stop events are set by `stop_all` and by nothing before it) and
  `LateOK` (what is done after a stop is done once, for the loop looks at its
  event before it waits again).
* **`WireRoundTrip`, `WireOwnOptions`, `WireEndpoint`** (`SdWireProofs`), for all widths and
  buffers, hence for the real ones. The invariant is that of the
  loop in `build_sd_message`: an entry's options stand in `all_options` from its
  reference on, the last entry's at the end, and offsets grow. **`WireFields`** is
  `FieldsSurvive`: a TTL is capped before it is masked, so only a stop is parsed as one, and
  the fields that share a word with the counter are not touched by it.
* **`NearestRepresentable`, `NoDrift`, `FieldEchoed`, `BurstDetected`** (`MethodBytesProofs`),
  about `SignalCodec` for every type, scale, offset and length. `Round` is the nearest
  integer, so `Raw` is the nearest number in the range; a raw number that is scaled and
  unscaled is itself; the bytes of a field come back as they were. `Encoding` and
  `Offsets` carry this through `encode` and `decode`, which gives `DecodedNearest` (what
  is decoded is the nearest to what was encoded) and `DecodedEchoed` (what is decoded is
  encoded as it was). For the CRC the message is taken bit
  by bit. Before the burst the registers of the message sent and of the one received
  are the same. The CRC at the end is what is in the register, so at the end the registers differ
  where the CRCs do; backwards from there, a burst of at most sixteen bits never being
  wider than the register, they differ exactly where noise is still to come. Both
  meet at the first bit of the burst, so `unwrap` cannot accept both messages.
* **`StoresNearest`, `DropsDamage`, `AnswersEcho`, `MethodTypeCorrect`** (`MethodBytesProofs`)
  are `NearestStored`, `DamageIsDropped`, `EchoExact` and the types of the handler. None of
  them is inductive. The invariant `MethodInv` adds to `StreamInv` (below) that every
  message on the wire is the bytes of a request (`AskedOK`), that what `recv_someip` has
  returned is a whole message no longer than the limit (`ReadOK`) and, while nothing was
  refused, the one sent (`FramesAreSent`), and that every entry of `writes` and `replies`
  is what the code computes from the bytes of a message it served or rejected
  (`HandledOK`). TLC has checked it on the instance of `method_bytes`. `WriteOf` then
  leads from a write to the request it is about, and the codec's theorems say the rest.
* **`StreamTypeCorrect`, `StreamIsChannel`, `HandlerReadsChannel`** (`MethodBytesProofs`).
  `StreamInv` adds to the types that the stream is the messages sent, one after the
  other (`Layout`), and that up to the first message that is refused the receiver
  stands at the beginning of the one it will return next (`Aligned`). Then the length
  it reads is that message's, and what it returns is the message. The handler's steps
  leave the stream alone.
* **`SessionTypeCorrect`, `GivesUpForAReason`, `AckWaitIsBounded`, `CallsMeetTheirMethod`**
  (`ClientSessionProofs`). `NothingMissed` is the strengthening for the search: as long
  as nothing has arrived, the next announcement of a server that has run throughout
  comes before the timeout does. `AckWait` relates the time spent to the deadline and
  the receive timeout. For the call, lemmas on the catalog lead from an offered port
  to a port the server has bound, and from the ids of a method to its route; they hold
  for every catalog with which a server starts.

Facts about every turn of a loop are proved by the least counterexample: the library's
induction theorems take an operator as a parameter, but `WFMin` takes a set, and
`Least`, `Induction` and `Recursion` at the head of `MethodBytesProofs` derive from it
induction up to a number, and that the recursive functions exist.

All safety properties of the passing runs are proved. Only model-checked: the liveness
properties (`SomeCallReturns`, `HandlersEnd`, `UpdateReachesSubscribers`, `StoppedEnds`, `FallsSilent`,
`RequestIsServed`, `StoppedServersEnd`, `QueuedIsAnswered`, `EveryMessageTaken`, `WaitsEnd`,
`EventsOnceAcked`), as liveness under fairness is outside the prover's reach.

## What is not modelled, and what could follow

1. A composition of `EventPublisher` with `SdSubscription`: a method call writes, a
   publisher reads, a subscriber that came through the registry receives, over a
   network that reorders datagrams. `ClientSession` has the subscriber's side of it.
2. An abstract method service that `TcpMethods` implements.

Floating point is not modelled: physical values, scales and offsets are integers
that count one common unit, so an error of rounding that moves a value across the
middle between two steps is not seen.

Left out for good: menus, argument parsing and printing (terminal I/O), reading the
YAML files and the checks of signals and discovery parameters in `validate`, the
socket options of `core/transport/udp.py`, and `TcpClient`, the frame functions of
`core/transport/tcp.py` and `core/validation/frame.py`, which no program uses.
Of SD datagrams the malformed ones and a peer's second option run, which
`parse_sd_message` skips. Threads that die because a port is taken by another
program are not modelled either.

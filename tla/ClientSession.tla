--------------------------- MODULE ClientSession ----------------------------
(***************************************************************************)
(* A client from its start to its last datagram: _discover on the          *)
(* announcements of the servers, a method call, SubscribeEventgroup with   *)
(* its wait for an ack, and the datagrams of the event (main,              *)
(* apps/client.py; up to the call also _client_connect, apps/tui.py).      *)
(* Servers announce themselves at every period, stop and come back, and    *)
(* the network loses what it likes.                                        *)
(*                                                                         *)
(* Time passes in ticks.  All timers count down, so that nothing grows     *)
(* with time.                                                              *)
(***************************************************************************)
EXTENDS Catalog

CONSTANTS Server,
          LocalServer,    \* the server on the client's own machine, or NoServer
          NoServer, NoName,
          File,           \* the catalogs, by the name of their file
          Setup,          \* which programs load which, and the client's arguments
          Period,         \* _PERIOD_S of the announcer
          Late,           \* how late a thread of a server may be
          Timeout,        \* --sd-timeout-s and --udp-timeout-s
          Count,          \* --count
          Buffer,         \* bound: datagrams a socket holds
          MaxNoise,       \* bound: datagrams of others that reach the client
          MaxStops        \* bound: servers that stop

ASSUME SessionAssumption ==
    /\ LocalServer \in Server \cup {NoServer} /\ NoServer \notin Server
    /\ Period \in Nat \ {0} /\ Late \in Nat /\ Timeout \in Nat
    /\ Timeout > Period + Late
    /\ Count \in Nat \ {0}
    /\ {Buffer, MaxNoise, MaxStops} \subseteq Nat
    /\ \A c \in Setup : /\ c.cmd.ip \in Server \cup {NoServer}
                       /\ \A s \in Server : IsCatalog(File[c.server[s]])
                                          /\ Starts(File[c.server[s]])

VARIABLES setup,          \* catalogs and arguments: set once
          up,             \* the servers that run
          due,            \* per server: the time until its next announcement
          requests,       \* the servers a SubscribeEventgroup is on its way to
          registry,       \* the servers that have registered the client
          phase,          \* what the client does
          inbox,          \* the datagrams its socket holds
          left,           \* time left of the receive timeout
          deadline,       \* time left of the deadline for the ack
          target,         \* the server whose address the client has
          heard,          \* the server whose offer it has heard
          outcome,        \* what became of the call
          got,            \* datagrams of the event received
          faithful,       \* history: servers that have run and whose announcements
                          \* have arrived since the search last called recvfrom
          spent,          \* history: time spent waiting for the ack
          acked,          \* history: servers that have acknowledged the client's
                          \* subscription and not stopped since
          noise, stops    \* bounds

network == <<requests, registry>>
waiting == <<inbox, left, deadline, faithful, spent>>
results == <<target, heard, outcome, got, acked>>
vars    == <<setup, up, due, network, phase, waiting, results, noise, stops>>

cmd    == setup.cmd
Mine   == File[setup.client]
Cat(s) == File[setup.server[s]]
Event  == CHOOSE e \in Events(Mine) : e.name = cmd.sub

\* An SD message as the client sees it: does it hold an offer or an ack?
Datagram == [type : {"offer", "ack", "other"}, from : Server \cup {NoServer}]
\* What became of the search or of the call.
Outcome  == [is : {"none", "silence", "unanswered", "refused", "rejected", "run"},
             method : {m.name : m \in UNION {Methods(Cat(s)) : s \in Server}}
                      \cup {NoName}]
Is(what) == [is |-> what, method |-> NoName]

\* Every variable has its type; a server that does not run has registered and
\* acknowledged nobody.
TypeOK == /\ setup \in Setup
          /\ up \subseteq Server /\ due \in [Server -> -Late..Period]
          /\ requests \subseteq Server /\ registry \subseteq up
          /\ phase \in {"start", "discover", "call", "subscribe", "ack", "listen",
                        "done", "ended"}
          /\ inbox \in Seq(Datagram)
          /\ left \in 0..Timeout /\ deadline \in 0..Timeout /\ spent \in Nat
          /\ target \in Server \cup {NoServer} /\ heard \in Server \cup {NoServer}
          /\ outcome \in Outcome
          /\ got \in 0..Count
          /\ faithful \subseteq Server /\ acked \subseteq up
          /\ noise \in Nat /\ stops \in Nat

Init == /\ setup \in Setup
        /\ up \in SUBSET Server
        /\ due \in [Server -> 0..Period] /\ \A s \in Server \ up : due[s] = 0
        /\ requests = {} /\ registry = {}
        /\ phase = "start"
        /\ inbox = <<>> /\ left = 0 /\ deadline = 0
        /\ target = IF cmd.ip = NoServer THEN LocalServer ELSE cmd.ip
        /\ heard = NoServer /\ outcome = Is("none") /\ got = 0
        /\ faithful = {} /\ spent = 0 /\ acked = {}
        /\ noise = 0 /\ stops = 0
-----------------------------------------------------------------------------
(* Time, the network and the servers.                                      *)

HasSocket == phase \in {"discover", "ack"}      \* bound to the SD port
Blocked   == HasSocket /\ inbox = <<>>          \* within recvfrom

\* The run is over when the client is through.
Over == phase \in {"done", "ended"}

\* No thread of a server is later than Late, and recvfrom returns on time.  Time
\* is followed from the search to the wait for the ack.
Tick ==
    /\ phase \in {"discover", "call", "subscribe", "ack"}
    /\ \A s \in up : due[s] > -Late
    /\ Blocked => left > 0
    /\ due' = [s \in Server |-> IF s \in up THEN due[s] - 1 ELSE 0]
    /\ left' = IF Blocked THEN left - 1 ELSE left
    /\ spent' = IF Blocked /\ phase = "ack" THEN spent + 1 ELSE spent
    /\ deadline' = IF deadline > 0 THEN deadline - 1 ELSE 0
    /\ UNCHANGED <<setup, up, network, phase, inbox, faithful, results, noise, stops>>

Arrives(d) == /\ HasSocket /\ Len(inbox) < Buffer
              /\ inbox' = Append(inbox, d)

\* SdAnnouncer.run: one OfferService message, and next_t is one period on,
\* however late this one was.
Announce(s) ==
    /\ s \in up /\ due[s] <= 0 /\ ~Over
    /\ due' = [due EXCEPT ![s] = @ + Period]
    /\ \/ Arrives([type |-> "offer", from |-> s]) /\ UNCHANGED faithful
       \/ faithful' = faithful \ {s} /\ UNCHANGED inbox
    /\ UNCHANGED <<setup, up, network, phase, left, deadline, spent, results, noise, stops>>

\* What other programs send to the SD port or the group.
Noise ==
    /\ noise < MaxNoise /\ noise' = noise + 1
    /\ Arrives([type |-> "other", from |-> NoServer])
    /\ UNCHANGED <<setup, up, due, network, phase, left, deadline, faithful, spent,
                   results, stops>>

\* Mutant: the registry outlives the process.
StopKeepsRegistry(s) ==
    /\ s \in up /\ stops < MaxStops /\ stops' = stops + 1
    /\ up' = up \ {s} /\ due' = [due EXCEPT ![s] = 0]
    /\ faithful' = faithful \ {s} /\ acked' = acked \ {s}
    /\ UNCHANGED <<setup, network, phase, inbox, left, deadline, spent, target,
                   heard, outcome, got, noise>>

\* The process of a server ends; its registry goes with it.
Stop(s) ==
    /\ s \in up /\ stops < MaxStops /\ stops' = stops + 1
    /\ up' = up \ {s} /\ registry' = registry \ {s} /\ due' = [due EXCEPT ![s] = 0]
    /\ faithful' = faithful \ {s} /\ acked' = acked \ {s}
    /\ UNCHANGED <<setup, requests, phase, inbox, left, deadline, spent, target,
                   heard, outcome, got, noise>>

\* node.py starts; the first announcement is due at once.
Start(s) ==
    /\ s \notin up
    /\ up' = up \cup {s}
    /\ UNCHANGED <<setup, due, network, phase, waiting, results, noise, stops>>

\* Mutant: the eventgroup is acknowledged and not registered.
AckOnly(s) ==
    /\ s \in requests \cap up /\ requests' = requests \ {s}
    /\ OnWire(eventgroup(Mine, Event)) \in egid_map(Cat(s))
    /\ registry' = registry /\ acked' = acked \cup {s}
    /\ Arrives([type |-> "ack", from |-> s]) \/ UNCHANGED inbox
    /\ UNCHANGED <<setup, up, due, phase, left, deadline, faithful, spent, target, heard,
                   outcome, got, noise, stops>>

\* SdListener._handle_subscribe: the endpoint is registered and the ack sent,
\* which may not arrive.
Register(s) ==
    /\ s \in requests \cap up /\ requests' = requests \ {s}
    /\ OnWire(eventgroup(Mine, Event)) \in egid_map(Cat(s))
    /\ registry' = registry \cup {s} /\ acked' = acked \cup {s}
    /\ Arrives([type |-> "ack", from |-> s]) \/ UNCHANGED inbox
    /\ UNCHANGED <<setup, up, due, phase, left, deadline, faithful, spent, target, heard,
                   outcome, got, noise, stops>>

\* The request is lost, or meets no server, or one without the eventgroup.
LoseRequest(s) ==
    /\ s \in requests /\ requests' = requests \ {s}
    /\ UNCHANGED <<setup, up, due, registry, phase, waiting, results, noise, stops>>

Environment == \/ Noise
               \/ \E s \in Server : Stop(s) \/ Start(s) \/ Register(s) \/ LoseRequest(s)
-----------------------------------------------------------------------------
(* The client.                                                             *)

\* A recvfrom begins, with these datagrams in the socket.
Receive(datagrams) == inbox' = datagrams /\ left' = Timeout

\* The socket is closed; its timers mean nothing any more.
Close == inbox' = <<>> /\ left' = 0 /\ deadline' = 0 /\ UNCHANGED spent

Others == <<setup, up, due, registry, noise, stops>>

\* main, _client_connect: with or without a search.
Begin ==
    /\ phase = "start"
    /\ IF cmd.discover THEN phase' = "discover" /\ Receive(<<>>) /\ faithful' = up
                       ELSE phase' = "call" /\ UNCHANGED <<inbox, left, faithful>>
    /\ UNCHANGED <<Others, requests, deadline, spent, results>>

\* Mutant: one timeout for the whole search.
DiscoverDeadline ==
    /\ phase = "discover" /\ inbox # <<>> /\ Head(inbox).type # "offer"
    /\ inbox' = Tail(inbox) /\ left' = left /\ faithful' = up
    /\ UNCHANGED <<Others, requests, phase, deadline, spent, results>>

\* _discover: what is no offer is dropped and recvfrom called again.
DiscoverOther ==
    /\ phase = "discover" /\ inbox # <<>> /\ Head(inbox).type # "offer"
    /\ Receive(Tail(inbox)) /\ faithful' = up
    /\ UNCHANGED <<Others, requests, phase, deadline, spent, results>>

\* The first offer, of whatever service, ends the search.  The address it came
\* from is taken unless the user has named one.
DiscoverOffer ==
    /\ phase = "discover" /\ inbox # <<>> /\ Head(inbox).type = "offer"
    /\ LET s == Head(inbox).from
       IN  /\ target' = IF cmd.app = "tui" \/ cmd.ip = NoServer THEN s ELSE target
           /\ heard' = s
    /\ phase' = "call" /\ Close /\ faithful' = {}
    /\ UNCHANGED <<Others, requests, outcome, got, acked>>

\* Mutant: the search goes on after a timeout.
DiscoverAgain ==
    /\ phase = "discover" /\ Blocked /\ left = 0
    /\ Receive(<<>>) /\ faithful' = up
    /\ UNCHANGED <<Others, requests, phase, deadline, spent, results>>

\* recvfrom times out: client.py does not catch it, _client_connect falls back
\* to the configured server.
DiscoverTimeout ==
    /\ phase = "discover" /\ Blocked /\ left = 0
    /\ phase' = IF cmd.app = "tui" THEN "call" ELSE "ended"
    /\ outcome' = Is("silence")
    /\ Close /\ UNCHANGED faithful
    /\ UNCHANGED <<Others, requests, target, heard, got, acked>>

\* _tcp_call to the target, at the port it offered (client.py) or at that of
\* the client's own catalog (tui.py): what comes back is up to the target's
\* ports and routes.
Answer(m) ==
    LET entries == IF cmd.app = "tui" \/ heard = NoServer THEN <<>>
                   ELSE build_entries(Cat(heard))
        port == CallPort(Mine, m, entries)
        key  == OnWire(resolve_someip(Mine, m))
        cat  == Cat(target)
    IN  IF port \notin all_ports(cat) THEN Is("refused")
        ELSE IF key \notin DOMAIN Routes(cat) THEN Is("rejected")
        ELSE [is |-> "run", method |-> Routes(cat)[key].name]

\* Any call may stay without an answer: the target is not up, its accept loops
\* do not listen yet (they are started before the announcer, but bind in their
\* own threads), or the connection breaks.
Outcomes(m) == {Is("unanswered")} \cup {Answer(m) : s \in {target} \cap up}

\* _find_method and _tcp_call; any failure ends client.py.
Call ==
    /\ phase = "call"
    /\ IF cmd.call = NoName THEN phase' = "subscribe" /\ UNCHANGED outcome
       ELSE LET named == {m \in Methods(Mine) : m.name = cmd.call}
            IN  IF named = {} THEN phase' = "ended" /\ UNCHANGED outcome
                ELSE /\ \E m \in named : outcome' \in Outcomes(m)
                     /\ phase' = IF outcome'.is = "run" THEN "subscribe" ELSE "ended"
    /\ UNCHANGED <<Others, requests, waiting, target, heard, got, acked>>

\* _udp_subscribe: a unicast event is subscribed to if the client has searched
\* for its server; sendto may fail, which is caught.  The event's own socket is
\* bound afterwards.
Subscribe ==
    /\ phase = "subscribe"
    /\ IF cmd.sub = NoName \/ cmd.app = "tui"
         THEN phase' = "done" /\ UNCHANGED <<requests, waiting>>
       ELSE IF cmd.discover /\ Event.mode = "unicast"
         THEN \/ /\ phase' = "ack" /\ requests' = Server
                 /\ Receive(<<>>) /\ deadline' = Timeout /\ spent' = 0
                 /\ UNCHANGED faithful
              \/ phase' = "listen" /\ UNCHANGED <<requests, waiting>>
       ELSE phase' = "listen" /\ UNCHANGED <<requests, waiting>>
    /\ UNCHANGED <<Others, results>>

IsAck(d) == /\ d.type = "ack"
            /\ OnWire(eventgroup(Mine, Event)) = eventgroup(Mine, Event)

AckHeard ==
    /\ phase = "ack" /\ inbox # <<>> /\ IsAck(Head(inbox))
    /\ phase' = "listen" /\ Close
    /\ UNCHANGED <<Others, requests, faithful, results>>

\* Mutant: the deadline is not looked at.
AckOtherForever ==
    /\ phase = "ack" /\ inbox # <<>> /\ ~IsAck(Head(inbox))
    /\ Receive(Tail(inbox)) /\ UNCHANGED <<phase, deadline, spent>>
    /\ UNCHANGED <<Others, requests, faithful, results>>

\* The deadline is looked at between two calls of recvfrom.
AckOther ==
    /\ phase = "ack" /\ inbox # <<>> /\ ~IsAck(Head(inbox))
    /\ \/ deadline > 0 /\ Receive(Tail(inbox)) /\ UNCHANGED <<phase, deadline, spent>>
       \/ deadline = 0 /\ phase' = "listen" /\ Close
    /\ UNCHANGED <<Others, requests, faithful, results>>

\* Nobody looks at the result of _subscribe_eventgroup.
AckTimeout ==
    /\ phase = "ack" /\ Blocked /\ left = 0
    /\ phase' = "listen" /\ Close
    /\ UNCHANGED <<Others, requests, faithful, results>>

\* The address client.py reports reaches it: its bind IP, or 127.0.0.1 if it
\* is bound to 0.0.0.0.
Reached(s) == cmd.bind = "own" \/ s = LocalServer

\* A server's catalog has the event, with ids the client recognises.
Carries(s) == \E e \in Events(Cat(s)) :
                 /\ e.mode = Event.mode /\ e.group = Event.group
                 /\ OnWire(resolve_someip(Cat(s), e)) = resolve_someip(Mine, Event)

\* A server sends the event to the client's port.
Sends(s) == /\ s \in up /\ Carries(s)
            /\ Event.mode = "multicast" \/ (s \in registry /\ Reached(s))

\* The loop of _udp_subscribe: timeouts are printed and the loop goes round.
EventArrives ==
    /\ phase = "listen" /\ \E s \in Server : Sends(s)
    /\ got' = got + 1
    /\ phase' = IF got' = Count THEN "done" ELSE phase
    /\ UNCHANGED <<Others, requests, waiting, target, heard, outcome, acked>>

\* A datagram that is no message, or an event with a wrong trailer: parse_message
\* or unwrap raises, and nobody catches it.
ListenRaises ==
    /\ phase = "listen" /\ noise < MaxNoise /\ noise' = noise + 1
    /\ phase' = "ended"
    /\ UNCHANGED <<setup, up, due, network, waiting, results, stops>>

ClientStep == \/ Begin \/ Call \/ Subscribe
              \/ DiscoverOther \/ DiscoverOffer \/ DiscoverTimeout
              \/ AckHeard \/ AckOther \/ AckTimeout

Next == /\ ~Over
        /\ \/ Tick \/ Environment \/ ClientStep \/ EventArrives \/ ListenRaises
           \/ \E s \in Server : Announce(s)

Spec == Init /\ [][Next]_vars

\* Time passes, the announcers and the client run, and not every datagram of
\* an event is lost.
FairSpec == /\ Spec
            /\ WF_vars(Tick) /\ WF_vars(ClientStep) /\ SF_vars(EventArrives)
            /\ \A s \in Server : WF_vars(Announce(s))
-----------------------------------------------------------------------------
\* A search gives up only when, within the length of one timeout, every server
\* was away at some time or had an announcement lost.
SilenceMeansLoss == outcome.is = "silence" => faithful = {}

\* Whatever else arrives, the wait for an ack takes less than two timeouts.
AckWaitBounded == spent < 2 * Timeout

\* All programs have loaded one and the same catalog.
SameCatalogs == \A s \in Server : Cat(s) = Mine

\* A client and a server with the same catalog understand each other: the port
\* the client has found, in the catalog or in an offer of whatever server with
\* that catalog, is one of the server's, and what is run is the method with the
\* name the user gave.
CallReachesMethod ==
    SameCatalogs /\ IdsFit(Mine) /\ outcome.is \in {"refused", "rejected", "run"}
        => outcome = [is |-> "run", method |-> cmd.call]

\* The search and the wait for the ack come to an end.
WaitsEnd == \A p \in {"discover", "ack"} : phase = p ~> phase # p

\* A client whose subscription a server of the event has acknowledged, whether
\* the ack came or not, and that has named an address that reaches it, gets its
\* datagrams as long as that server runs.
EventsOnceAcked ==
    \A s \in Server :
        phase = "listen" /\ s \in acked /\ Reached(s) /\ Carries(s) ~>
            phase \in {"done", "ended"} \/ s \notin up
=============================================================================

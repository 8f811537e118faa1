--------------------------- MODULE SdSubscription ---------------------------
(***************************************************************************)
(* Subscribing to unicast events over SOME/IP-SD: toggle_sub,              *)
(* _subscribe_eventgroup and _send_subscribe on the clients' side, the     *)
(* SdListener thread and its SubscriberRegistry on the servers' side.      *)
(*                                                                         *)
(* Datagrams are delayed, reordered and, when the network is lossy, lost.  *)
(* A multicast is one copy per listener.  An ack goes to the SD port of a  *)
(* host; listeners and waiting clients bind that port with SO_REUSEADDR,   *)
(* so any one socket of that host may be the one that gets it.             *)
(***************************************************************************)
EXTENDS Naturals

CONSTANTS Server, Client, Host, Group, Address,
          HostOf,      \* the host of a server or a client
          Offers,      \* the eventgroups in a server's _egid_map
          AddrOf,      \* the address a client reports: its bind IP
          Conforming,  \* external peers whose StopSubscribe names their endpoint
          NoAddress,   \* an entry without endpoint option
          NoGroup,
          MaxToggles,  \* bound: subscriptions the clients begin
          MaxRestarts, \* bound: restarts of servers
          MaxHops      \* bound: answers in a row that are told apart

ASSUME SdAssumption ==
    /\ HostOf \in [Server \cup Client -> Host]
    /\ Offers \in [Server -> SUBSET Group]
    /\ AddrOf \in [Client -> Address]
    /\ Conforming \subseteq Client
    /\ NoAddress \notin Address /\ NoGroup \notin Group
    /\ MaxToggles \in Nat /\ MaxRestarts \in Nat
    /\ MaxHops \in Nat /\ MaxHops >= 2

VARIABLES net,         \* datagrams in flight
          lossy,       \* the network may lose datagrams
          registry,    \* per server: the endpoints of its SubscriberRegistry
          subs,        \* per client: the keys of ClientContext._subs
          asking,      \* per client: the eventgroup it waits an ack for
          acked,       \* history: subscriptions that _subscribe_eventgroup
                       \* reported as successful
          toggles,     \* history: subscriptions begun so far
          restarts     \* history: restarts so far

clients == <<subs, asking, acked, toggles>>
vars    == <<net, lossy, registry, clients, restarts>>

Endpoint == Group \X Address

\* hops is a history field: 0 for a request, 1 for its answer, and so on.
Datagram == [type : {"subscribe", "ack"}, group : Group, stop : BOOLEAN,
             addr : Address \cup {NoAddress}, from : Server \cup Client,
             dest : Server \cup Host, hops : 0..MaxHops]

TypeOK == /\ net \subseteq Datagram
          /\ lossy \in BOOLEAN
          /\ registry \in [Server -> SUBSET Endpoint]
          /\ subs \in [Client -> SUBSET Group]
          /\ asking \in [Client -> Group \cup {NoGroup}]
          /\ acked \in [Client -> SUBSET Group]
          /\ toggles \in 0..MaxToggles
          /\ restarts \in 0..MaxRestarts

Init == /\ net = {}
        /\ lossy \in BOOLEAN
        /\ registry = [s \in Server |-> {}]
        /\ subs = [c \in Client |-> {}]
        /\ asking = [c \in Client |-> NoGroup]
        /\ acked = [c \in Client |-> {}]
        /\ toggles = 0
        /\ restarts = 0

\* A SubscribeEventgroup entry, multicast to the listeners of all servers.
Multicast(c, g, stop, addr) ==
    [type : {"subscribe"}, group : {g}, stop : {stop}, addr : {addr},
     from : {c}, dest : Server, hops : {0}]

\* Mutant: the ack goes to the address the listener is bound to.
AckHome(s, m) == [type |-> "ack", group |-> m.group, stop |-> FALSE,
                  addr |-> NoAddress, from |-> s, dest |-> HostOf[s],
                  hops |-> IF m.hops < MaxHops THEN m.hops + 1 ELSE MaxHops]

\* The SubscribeEventgroupAck for datagram m: no options, the TTL of m.
Ack(s, m) == [type |-> "ack", group |-> m.group, stop |-> FALSE,
              addr |-> NoAddress, from |-> s, dest |-> HostOf[m.from],
              hops |-> IF m.hops < MaxHops THEN m.hops + 1 ELSE MaxHops]
-----------------------------------------------------------------------------
(* The clients.                                                            *)

\* toggle_sub, on: the menu thread sends its request and waits for the ack.
Subscribe(c, g) ==
    /\ asking[c] = NoGroup /\ g \notin subs[c] /\ toggles < MaxToggles
    /\ asking' = [asking EXCEPT ![c] = g]
    /\ net' = net \cup Multicast(c, g, FALSE, AddrOf[c])
    /\ toggles' = toggles + 1
    /\ UNCHANGED <<lossy, registry, subs, acked, restarts>>

\* Mutant: the eventgroup is forgotten before it is stored.
SubscribedLate(c) == /\ asking' = [asking EXCEPT ![c] = NoGroup]
                     /\ subs' = [subs EXCEPT ![c] = @ \cup {asking'[c]}]

\* toggle_sub goes on, whatever the result, to start an EventSubscription.
Subscribed(c) == /\ subs' = [subs EXCEPT ![c] = @ \cup {asking[c]}]
                 /\ asking' = [asking EXCEPT ![c] = NoGroup]

\* An ack for the eventgroup the client waits for, from whatever server.
AckHeard(c, m) ==
    /\ asking[c] # NoGroup /\ m \in net
    /\ m.type = "ack" /\ m.dest = HostOf[c] /\ m.group = asking[c]
    /\ net' = net \ {m}
    /\ acked' = [acked EXCEPT ![c] = @ \cup {asking[c]}]
    /\ Subscribed(c)
    /\ UNCHANGED <<lossy, registry, toggles, restarts>>

\* A waiting client takes the ack of another eventgroup off its socket.
AckIgnored(c, m) ==
    /\ asking[c] # NoGroup /\ m \in net
    /\ m.type = "ack" /\ m.dest = HostOf[c] /\ m.group # asking[c]
    /\ net' = net \ {m}
    /\ UNCHANGED <<lossy, registry, clients, restarts>>

\* The deadline passes, or sendto failed: _subscribe_eventgroup returns
\* False, which toggle_sub does not look at.
AckTimeout(c) ==
    /\ asking[c] # NoGroup
    /\ acked' = [acked EXCEPT ![c] = @ \ {asking[c]}]
    /\ Subscribed(c)
    /\ UNCHANGED <<net, lossy, registry, toggles, restarts>>

\* toggle_sub, off: the repository's client sends an entry without options.
Unsubscribe(c, g) ==
    /\ asking[c] = NoGroup /\ g \in subs[c]
    /\ subs' = [subs EXCEPT ![c] = @ \ {g}]
    /\ acked' = [acked EXCEPT ![c] = @ \ {g}]
    /\ net' = net \cup Multicast(c, g, TRUE,
                  IF c \in Conforming THEN AddrOf[c] ELSE NoAddress)
    /\ UNCHANGED <<lossy, registry, asking, toggles, restarts>>
-----------------------------------------------------------------------------
(* The servers: SdListener.run hands every eventgroup entry, a             *)
(* SubscribeEventgroup or an ack, to _handle_subscribe.                    *)

Arrives(s, m) == /\ m \in net
                 /\ m.dest = IF m.type = "ack" THEN HostOf[s] ELSE s

\* Mutant: an eventgroup the server does not have is acknowledged too.
AckUnknown(s, m) ==
    /\ Arrives(s, m) /\ m.group \notin Offers[s]
    /\ net' = (net \ {m}) \cup {Ack(s, m)}
    /\ UNCHANGED <<lossy, registry, clients, restarts>>

HandleUnknown(s, m) ==
    /\ Arrives(s, m) /\ m.group \notin Offers[s]
    /\ net' = net \ {m}
    /\ UNCHANGED <<lossy, registry, clients, restarts>>

\* Mutant: a stop clears the whole eventgroup.
StopAll(s, m) ==
    /\ Arrives(s, m) /\ m.group \in Offers[s] /\ m.stop
    /\ registry' = [registry EXCEPT ![s] = {e \in @ : e[1] # m.group}]
    /\ net' = net \ {m}
    /\ UNCHANGED <<lossy, clients, restarts>>

HandleStop(s, m) ==
    /\ Arrives(s, m) /\ m.group \in Offers[s] /\ m.stop
    /\ registry' = [registry EXCEPT ![s] = @ \ {<<m.group, m.addr>>}]
    /\ net' = net \ {m}
    /\ UNCHANGED <<lossy, clients, restarts>>

\* Mutant: the second subscriber of an eventgroup is acknowledged only.
SubscribeFirst(s, m) ==
    /\ Arrives(s, m) /\ m.group \in Offers[s] /\ ~m.stop
    /\ registry' = [registry EXCEPT ![s] =
          IF m.addr = NoAddress \/ \E e \in @ : e[1] = m.group
          THEN @ ELSE @ \cup {<<m.group, m.addr>>}]
    /\ net' = (net \ {m}) \cup {Ack(s, m)}
    /\ UNCHANGED <<lossy, clients, restarts>>

HandleSubscribe(s, m) ==
    /\ Arrives(s, m) /\ m.group \in Offers[s] /\ ~m.stop
    /\ registry' = [registry EXCEPT ![s] =
          @ \cup IF m.addr = NoAddress THEN {} ELSE {<<m.group, m.addr>>}]
    /\ net' = (net \ {m}) \cup {Ack(s, m)}
    /\ UNCHANGED <<lossy, clients, restarts>>

Handle(s, m) == HandleUnknown(s, m) \/ HandleStop(s, m) \/ HandleSubscribe(s, m)

\* The server program ends and is started again; the registry is in memory.
Restart(s) ==
    /\ restarts < MaxRestarts
    /\ restarts' = restarts + 1
    /\ registry' = [registry EXCEPT ![s] = {}]
    /\ UNCHANGED <<net, lossy, clients>>
-----------------------------------------------------------------------------
(* The network.                                                            *)

Lose(m) == /\ lossy /\ m \in net
           /\ net' = net \ {m}
           /\ UNCHANGED <<lossy, registry, clients, restarts>>

\* No socket of the host is bound to the SD port any more.
Unclaimed(m) ==
    /\ m \in net /\ m.type = "ack"
    /\ \A s \in Server : HostOf[s] # m.dest
    /\ \A c \in Client : HostOf[c] = m.dest => asking[c] = NoGroup
    /\ net' = net \ {m}
    /\ UNCHANGED <<lossy, registry, clients, restarts>>

Deliver(m) == \/ \E s \in Server : Handle(s, m)
              \/ \E c \in Client : AckHeard(c, m) \/ AckIgnored(c, m)
              \/ Unclaimed(m)

Next == \/ \E c \in Client, g \in Group : Subscribe(c, g) \/ Unsubscribe(c, g)
        \/ \E c \in Client : AckTimeout(c)
        \/ \E m \in net : Deliver(m) \/ Lose(m)
        \/ \E s \in Server : Restart(s)

Spec == Init /\ [][Next]_vars

\* While datagrams are in flight some of them arrive.  Clients subscribe a
\* bounded number of times, so this keeps none of them back for ever.
FairSpec == Spec /\ WF_vars(\E m \in net : Deliver(m))
-----------------------------------------------------------------------------
\* "Send SubscribeEventgroup and wait for Ack. Returns True on success."
\* (_subscribe_eventgroup, client.py:101): while a client of this repository
\* holds a subscription reported as successful, some server sends to it.
\* A restart of the server loses the registration and nobody is told.
AckMeansRegistered ==
    \A c \in Client \ Conforming : \A g \in acked[c] :
        restarts = 0 => \E s \in Server : <<g, AddrOf[c]>> \in registry[s]

\* A listener answers requests; it never answers an answer.
NoAckOfAck == \A m \in net : m.hops <= 1

\* An entry changes nothing but the registration of the peer that sent it,
\* in an eventgroup the server offers.
OnlyOwnRegistration ==
    [][\A s \in Server, e \in Endpoint :
          (e \in registry'[s]) # (e \in registry[s]) /\ restarts' = restarts
          => /\ e[1] \in Offers[s]
             /\ \E m \in net \ net' : /\ m.type = "subscribe" /\ m.dest = s
                                      /\ m.addr = e[2] /\ m.group = e[1]]_vars

\* The clients toggle a bounded number of times: after that the network falls
\* silent, no datagram keeps being answered by another one.
FallsSilent == <>[](net = {})

\* On a network that loses nothing, the request of a client of this repository
\* registers it with every server that offers the eventgroup and keeps running.
RequestIsServed ==
    \A c \in Client \ Conforming, g \in Group, s \in Server :
        asking[c] = g /\ g \in Offers[s] /\ ~lossy
        ~> <<g, AddrOf[c]>> \in registry[s] \/ restarts > 0

\* "Unsubscribing sends a StopSubscribeEventgroup for unicast events."
\* (README.md:212): a server that has handled one no longer has the endpoint.
StopUnsubscribes ==
    [][\A s \in Server, c \in Client :
          \A m \in net \ net' :
              m.stop /\ m.from = c /\ HandleStop(s, m)
              => <<m.group, AddrOf[c]>> \notin registry'[s]]_vars
=============================================================================

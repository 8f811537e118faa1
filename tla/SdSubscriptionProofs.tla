------------------------ MODULE SdSubscriptionProofs ------------------------
(***************************************************************************)
(* What the subscriptions promise when every program has a host of its     *)
(* own, for every set of servers, clients and eventgroups; on one shared   *)
(* host an ack may go to the wrong socket and none of it need hold.        *)
(***************************************************************************)
EXTENDS SdSubscription, TLAPS

\* Two clients, or a client and a server, never share a host, and a client of
\* this repository has an address that no external peer reports as its own.
OwnHosts == /\ \A s \in Server, c \in Client : HostOf[s] # HostOf[c]
            /\ \A c, d \in Client : HostOf[c] = HostOf[d] => c = d
            /\ \A c \in Client \ Conforming, d \in Conforming : AddrOf[c] # AddrOf[d]

Registered(c, g) == \E s \in Server : <<g, AddrOf[c]>> \in registry[s]

\* Every datagram is a request of a client with its own endpoint, or none, or
\* an ack without endpoint.
Sender(m) ==
    \/ /\ m.type = "subscribe" /\ m.from \in Client
       /\ m.addr = AddrOf[m.from] \/ m.addr = NoAddress
       /\ m.stop => m.from \in Conforming \/ m.addr = NoAddress
       /\ ~m.stop => m.addr = AddrOf[m.from]
       /\ m.dest \in Server /\ m.hops = 0
    \/ /\ m.type = "ack" /\ ~m.stop /\ m.addr = NoAddress
       /\ m.dest \in Host

\* With a host for everybody acks go to clients and answer requests.
AcksGoHome(m) == m.type = "ack" => /\ \E c \in Client : m.dest = HostOf[c]
                                   /\ m.hops = 1

\* An ack on its way to a client is the sign of its registration.
AckIsTrue(m) == \A c \in Client \ Conforming :
                    m.type = "ack" /\ m.dest = HostOf[c] /\ restarts = 0
                    => Registered(c, m.group)

SendersOK  == \A m \in net : Sender(m)
NetworkOK  == \A m \in net : AcksGoHome(m) /\ AckIsTrue(m)

\* What holds with hosts of their own.
HeardInv == TypeOK /\ SendersOK /\ NetworkOK /\ AckMeansRegistered

\* A request is a set of datagrams, one per listener.
LEMMA MulticastType ==
    ASSUME NEW c \in Client, NEW g \in Group, NEW stop \in BOOLEAN,
           NEW addr \in Address \cup {NoAddress},
           NEW m \in Multicast(c, g, stop, addr)
    PROVE  /\ m \in Datagram
           /\ m.type = "subscribe" /\ m.group = g /\ m.stop = stop
           /\ m.addr = addr /\ m.from = c /\ m.dest \in Server /\ m.hops = 0
  BY SdAssumption DEF Multicast, Datagram

\* An ack is a datagram.
LEMMA AckType ==
    ASSUME NEW s \in Server, NEW m \in Datagram
    PROVE  /\ Ack(s, m) \in Datagram
           /\ Ack(s, m).type = "ack" /\ ~Ack(s, m).stop
           /\ Ack(s, m).addr = NoAddress /\ Ack(s, m).group = m.group
           /\ Ack(s, m).dest = HostOf[m.from] /\ HostOf[m.from] \in Host
           /\ m.hops = 0 => Ack(s, m).hops = 1
  BY SdAssumption DEF Ack, Datagram

\* A client reports an endpoint.
LEMMA AddrType == ASSUME NEW c \in Client PROVE AddrOf[c] \in Address
  BY SdAssumption

\* toggle_sub ends with the eventgroup in _subs.
LEMMA SubscribedType ==
    ASSUME TypeOK, NEW c \in Client, asking[c] # NoGroup, Subscribed(c)
    PROVE  /\ subs' \in [Client -> SUBSET Group]
           /\ asking' \in [Client -> Group \cup {NoGroup}]
  BY DEF TypeOK, Subscribed

\* Nothing is in flight and nobody is registered.
LEMMA InitInv == Init => HeardInv
  BY SdAssumption DEF Init, HeardInv, TypeOK, SendersOK, NetworkOK, AckMeansRegistered

\* Every step of clients, listeners and network keeps the types.
LEMMA TypeStep == TypeOK /\ [Next]_vars => TypeOK'
<1> SUFFICES ASSUME TypeOK, [Next]_vars PROVE TypeOK'
  OBVIOUS
<1> USE DEF TypeOK
<1>1. ASSUME NEW c \in Client, NEW g \in Group, Subscribe(c, g) PROVE TypeOK'
  <2>1. net' \subseteq Datagram
    BY <1>1, MulticastType, AddrType DEF Subscribe
  <2>2. MaxToggles \in Nat
    BY SdAssumption
  <2>3. toggles' \in 0..MaxToggles
    BY <1>1, <2>2 DEF Subscribe
  <2>4. asking' \in [Client -> Group \cup {NoGroup}]
    BY <1>1 DEF Subscribe
  <2> QED BY <1>1, <2>1, <2>3, <2>4 DEF Subscribe
<1>2. ASSUME NEW c \in Client, NEW g \in Group, Unsubscribe(c, g) PROVE TypeOK'
  <2>1. (IF c \in Conforming THEN AddrOf[c] ELSE NoAddress) \in Address \cup {NoAddress}
    BY AddrType
  <2>2. net' \subseteq Datagram
    <3> DEFINE a == IF c \in Conforming THEN AddrOf[c] ELSE NoAddress
    <3>1. net' = net \cup Multicast(c, g, TRUE, a)
      BY <1>2 DEF Unsubscribe
    <3>2. ASSUME NEW m \in Multicast(c, g, TRUE, a) PROVE m \in Datagram
      <4> HIDE DEF a
      <4> QED BY <2>1, <3>2, MulticastType DEF a
    <3> HIDE DEF a
    <3> QED BY <3>1, <3>2
  <2> QED BY <1>2, <2>2 DEF Unsubscribe
<1>3. ASSUME NEW c \in Client, AckTimeout(c) PROVE TypeOK'
  BY <1>3, SubscribedType DEF AckTimeout
<1>4. ASSUME NEW c \in Client, NEW m \in net, AckHeard(c, m) PROVE TypeOK'
  BY <1>4, SubscribedType DEF AckHeard
<1>5. ASSUME NEW c \in Client, NEW m \in net, AckIgnored(c, m) PROVE TypeOK'
  BY <1>5 DEF AckIgnored, clients
<1>6. ASSUME NEW s \in Server, NEW m \in net, HandleUnknown(s, m) PROVE TypeOK'
  BY <1>6 DEF HandleUnknown, clients
<1>7. ASSUME NEW s \in Server, NEW m \in net, HandleStop(s, m) PROVE TypeOK'
  BY <1>7 DEF HandleStop, clients
<1>8. ASSUME NEW s \in Server, NEW m \in net, HandleSubscribe(s, m) PROVE TypeOK'
  <2>1. m.addr # NoAddress => <<m.group, m.addr>> \in Endpoint
    BY DEF Datagram, Endpoint
  <2>2. registry' \in [Server -> SUBSET Endpoint]
    BY <1>8, <2>1 DEF HandleSubscribe
  <2>3. net' \subseteq Datagram
    BY <1>8, AckType DEF HandleSubscribe
  <2> QED BY <1>8, <2>2, <2>3 DEF HandleSubscribe, clients
<1>9. ASSUME NEW s \in Server, Restart(s) PROVE TypeOK'
  BY <1>9, SdAssumption DEF Restart, clients
<1>10. ASSUME NEW m \in net, Lose(m) \/ Unclaimed(m) PROVE TypeOK'
  BY <1>10 DEF Lose, Unclaimed, clients
<1>11. CASE UNCHANGED vars
  BY <1>11 DEF vars, clients
<1> QED BY <1>1, <1>2, <1>3, <1>4, <1>5, <1>6, <1>7, <1>8, <1>9, <1>10, <1>11
        DEF Next, Deliver, Handle

\* Whatever is sent, every datagram in flight tells who sent it and why.
LEMMA SendersStep == TypeOK /\ SendersOK /\ [Next]_vars => SendersOK'
<1> SUFFICES ASSUME TypeOK, SendersOK, [Next]_vars, NEW m \in net', m \notin net
             PROVE  Sender(m)
  BY DEF SendersOK, Sender
<1>1. ASSUME NEW c \in Client, NEW g \in Group, Subscribe(c, g) PROVE Sender(m)
  <2>1. m \in Multicast(c, g, FALSE, AddrOf[c])
    BY <1>1 DEF Subscribe
  <2>2. m.type = "subscribe" /\ ~m.stop /\ m.addr = AddrOf[c] /\ m.from = c
        /\ m.dest \in Server /\ m.hops = 0
    BY <2>1 DEF Multicast
  <2> QED BY <2>2 DEF Sender
<1>2. ASSUME NEW c \in Client, NEW g \in Group, Unsubscribe(c, g) PROVE Sender(m)
  <2> DEFINE addr == IF c \in Conforming THEN AddrOf[c] ELSE NoAddress
  <2>1. m \in Multicast(c, g, TRUE, addr)
    BY <1>2 DEF Unsubscribe
  <2> HIDE DEF addr
  <2>2. m.type = "subscribe" /\ m.stop /\ m.addr = addr /\ m.from = c
        /\ m.dest \in Server /\ m.hops = 0
    BY <2>1 DEF Multicast
  <2> QED BY <2>2 DEF Sender, addr
<1>3. ASSUME NEW s \in Server, NEW q \in net, HandleSubscribe(s, q) PROVE Sender(m)
  <2>1. q \in Datagram /\ m = Ack(s, q)
    BY <1>3 DEF HandleSubscribe, TypeOK
  <2> QED BY <2>1, AckType DEF Sender
<1> QED BY <1>1, <1>2, <1>3
        DEF Next, Deliver, Handle, AckTimeout, AckHeard, AckIgnored,
            HandleUnknown, HandleStop, Restart, Lose, Unclaimed, vars

-----------------------------------------------------------------------------
(* The registry.                                                           *)

\* A change of a registration comes from a request with that endpoint.
LEMMA OwnRegistration ==
    ASSUME TypeOK, SendersOK, [Next]_vars, NEW s \in Server, NEW e \in Endpoint,
           (e \in registry'[s]) # (e \in registry[s]), restarts' = restarts
    PROVE  /\ e[1] \in Offers[s]
           /\ \E m \in net \ net' : /\ m.type = "subscribe" /\ m.dest = s
                                    /\ m.addr = e[2] /\ m.group = e[1]
<1> DEFINE Own(m) == /\ m \in net \ net' /\ m.type = "subscribe" /\ m.dest = s
                     /\ m.addr = e[2] /\ m.group = e[1] /\ e[1] \in Offers[s]
<1>1. e[2] # NoAddress /\ e = <<e[1], e[2]>>
  BY SdAssumption DEF Endpoint
<1>2. ASSUME NEW t \in Server, NEW m \in net, HandleStop(t, m) PROVE Own(m)
  <2>1. t = s /\ e = <<m.group, m.addr>>
    BY <1>2 DEF HandleStop, TypeOK
  <2>2. m.type = "subscribe"
    BY <1>1, <2>1 DEF SendersOK, Sender
  <2> QED BY <1>2, <2>1, <2>2 DEF HandleStop, Arrives
<1>3. ASSUME NEW t \in Server, NEW m \in net, HandleSubscribe(t, m) PROVE Own(m)
  <2>1. t = s /\ e = <<m.group, m.addr>>
    BY <1>3 DEF HandleSubscribe, TypeOK
  <2>2. m.type = "subscribe"
    BY <1>1, <2>1 DEF SendersOK, Sender
  <2>3. m # Ack(t, m)
    BY <2>2, AckType DEF TypeOK
  <2> QED BY <1>3, <2>1, <2>2, <2>3 DEF HandleSubscribe, Arrives
<1>4. ASSUME NEW t \in Server, Restart(t) PROVE FALSE
  BY <1>4 DEF Restart, TypeOK
<1>5. \E m \in net : Own(m)
  <2> HIDE DEF Own
  <2> QED BY <1>2, <1>3, <1>4
          DEF Next, Deliver, Handle, Subscribe, Unsubscribe, AckTimeout, AckHeard,
              AckIgnored, HandleUnknown, Lose, Unclaimed, vars
<1> QED BY <1>5

\* Without a restart, a registration of a client of this repository stays: its
\* StopSubscribe names no endpoint, and no other peer names that one.
LEMMA RegisteredStays ==
    ASSUME OwnHosts, TypeOK, SendersOK, [Next]_vars, restarts' = restarts,
           NEW c \in Client \ Conforming, NEW g \in Group, Registered(c, g)
    PROVE  Registered(c, g)'
<1> PICK s \in Server : <<g, AddrOf[c]>> \in registry[s]
  BY DEF Registered
<1> SUFFICES <<g, AddrOf[c]>> \in registry'[s]
  BY DEF Registered
<1>1. ASSUME NEW t \in Server, NEW m \in net, HandleStop(t, m)
      PROVE  m.addr # AddrOf[c]
  <2>1. AddrOf[c] # NoAddress
    BY AddrType, SdAssumption
  <2>2. m.stop
    BY <1>1 DEF HandleStop
  <2> QED BY <2>1, <2>2 DEF SendersOK, Sender, OwnHosts
<1>2. ASSUME NEW t \in Server, NEW m \in net, HandleStop(t, m)
      PROVE  <<g, AddrOf[c]>> \in registry'[s]
  BY <1>1, <1>2 DEF HandleStop, TypeOK
<1>3. ASSUME NEW t \in Server, NEW m \in net, HandleSubscribe(t, m)
      PROVE  <<g, AddrOf[c]>> \in registry'[s]
  BY <1>3 DEF HandleSubscribe, TypeOK
<1>4. ASSUME NEW t \in Server, Restart(t) PROVE FALSE
  BY <1>4 DEF Restart, TypeOK
<1> QED BY <1>2, <1>3, <1>4
        DEF Next, Deliver, Handle, Subscribe, Unsubscribe, AckTimeout, AckHeard,
            AckIgnored, HandleUnknown, Lose, Unclaimed, vars
-----------------------------------------------------------------------------
(* The acks.                                                               *)

\* A listener never gets an ack when everybody has a host of his own.
LEMMA OnlyRequestsArrive ==
    ASSUME OwnHosts, SendersOK, NetworkOK,
           NEW s \in Server, NEW m \in net, Arrives(s, m)
    PROVE  m.type = "subscribe"
  BY DEF OwnHosts, SendersOK, Sender, NetworkOK, AcksGoHome, Arrives

\* The number of restarts never goes back to zero.
LEMMA RestartsGrow ==
    ASSUME TypeOK, [Next]_vars
    PROVE  restarts \in Nat /\ restarts' \in Nat /\ restarts' >= restarts
<1>1. restarts \in Nat
  BY SdAssumption DEF TypeOK
<1>2. restarts' = restarts \/ restarts' = restarts + 1
  BY DEF Next, Deliver, Handle, Subscribe, Unsubscribe, AckTimeout, AckHeard,
         AckIgnored, HandleUnknown, HandleStop, HandleSubscribe, Restart,
         Lose, Unclaimed, clients, vars
<1> QED BY <1>1, <1>2

\* With hosts of their own, every datagram in flight still tells the truth.
LEMMA NetworkStep ==
    OwnHosts /\ TypeOK /\ SendersOK /\ NetworkOK /\ [Next]_vars => NetworkOK'
<1> SUFFICES ASSUME OwnHosts, TypeOK, SendersOK, NetworkOK, [Next]_vars,
                    NEW m \in net'
             PROVE  AcksGoHome(m) /\ AckIsTrue(m)'
  BY DEF NetworkOK, AcksGoHome
<1>1. restarts \in Nat /\ restarts' \in Nat /\ restarts' >= restarts
  BY RestartsGrow
<1>2. CASE m \in net
  <2>1. AcksGoHome(m) /\ AckIsTrue(m)
    BY <1>2 DEF NetworkOK
  <2>2. m \in Datagram
    BY <1>2 DEF TypeOK
  <2>3. ASSUME NEW c \in Client \ Conforming, m.type = "ack",
               m.dest = HostOf[c], restarts' = 0
        PROVE  Registered(c, m.group)'
    <3>1. restarts = 0 /\ restarts' = restarts
      BY <1>1, <2>3
    <3>2. Registered(c, m.group)
      BY <2>1, <2>3, <3>1 DEF AckIsTrue
    <3>3. m.group \in Group
      BY <2>2 DEF Datagram
    <3> QED BY <3>1, <3>2, <3>3, RegisteredStays
  <2> QED BY <2>1, <2>3 DEF AckIsTrue
<1>3. CASE m \notin net
  <2>1. ASSUME NEW s \in Server, NEW q \in net, HandleSubscribe(s, q)
        PROVE  AcksGoHome(m) /\ AckIsTrue(m)'
    <3>1. q \in Datagram /\ m = Ack(s, q) /\ Arrives(s, q) /\ ~q.stop
      BY <1>3, <2>1 DEF HandleSubscribe, TypeOK
    <3>2. q.from \in Client /\ q.addr = AddrOf[q.from] /\ q.hops = 0
      BY <3>1, OnlyRequestsArrive DEF SendersOK, Sender
    <3>3. m.type = "ack" /\ m.dest = HostOf[q.from] /\ m.group = q.group /\ m.hops = 1
      BY <3>1, <3>2, AckType
    <3>4. <<q.group, AddrOf[q.from]>> \in registry'[s]
      <4>1. q.addr # NoAddress
        BY <3>2, AddrType, SdAssumption
      <4> QED BY <2>1, <3>2, <4>1 DEF HandleSubscribe, TypeOK
    <3>5. ASSUME NEW c \in Client, HostOf[q.from] = HostOf[c]
          PROVE  Registered(c, q.group)'
      <4>1. c = q.from
        BY <3>2, <3>5 DEF OwnHosts
      <4> QED BY <3>4, <4>1 DEF Registered
    <3> QED BY <3>2, <3>3, <3>5 DEF AcksGoHome, AckIsTrue
  <2>2. ASSUME NEW c \in Client, NEW g \in Group,
               Subscribe(c, g) \/ Unsubscribe(c, g)
        PROVE  m.type = "subscribe"
    <3>1. PICK stop, addr : m \in Multicast(c, g, stop, addr)
      BY <1>3, <2>2 DEF Subscribe, Unsubscribe
    <3> QED BY <3>1 DEF Multicast
  <2>3. \/ \E s \in Server, q \in net : HandleSubscribe(s, q)
        \/ \E c \in Client, g \in Group : Subscribe(c, g) \/ Unsubscribe(c, g)
    BY <1>3 DEF Next, Deliver, Handle, AckTimeout, AckHeard, AckIgnored,
                HandleUnknown, HandleStop, Restart, Lose, Unclaimed, vars
  <2> QED BY <2>1, <2>2, <2>3 DEF AcksGoHome, AckIsTrue
<1> QED BY <1>2, <1>3

\* A client that was told True is still registered, or a server restarted.
LEMMA AckedStep ==
    OwnHosts /\ HeardInv /\ [Next]_vars => AckMeansRegistered'
<1> SUFFICES ASSUME OwnHosts, HeardInv, [Next]_vars, restarts' = 0,
                    NEW c \in Client \ Conforming, NEW g \in acked'[c]
             PROVE  Registered(c, g)'
  BY DEF AckMeansRegistered, Registered
<1> USE DEF HeardInv
<1>1. restarts = 0
  BY RestartsGrow
<1>2. CASE g \in acked[c]
  <2>1. Registered(c, g)
    BY <1>1, <1>2 DEF AckMeansRegistered, Registered
  <2>2. g \in Group
    BY <1>2 DEF TypeOK
  <2> QED BY <1>1, <2>1, <2>2, RegisteredStays
<1>3. CASE g \notin acked[c]
  <2>1. ASSUME NEW d \in Client, NEW m \in net, AckHeard(d, m)
        PROVE  Registered(c, g)
    <3>1. d = c /\ g = m.group
      BY <1>3, <2>1 DEF AckHeard, TypeOK
    <3> QED BY <1>1, <2>1, <3>1 DEF AckHeard, NetworkOK, AckIsTrue
  <2>2. \E d \in Client, m \in net : AckHeard(d, m)
    <3>1. acked \in [Client -> SUBSET Group] /\ acked' # acked
      BY <1>3 DEF TypeOK
    <3>2. ASSUME NEW d \in Client, NEW h \in Group PROVE ~Unsubscribe(d, h)
      BY <1>3, <3>1 DEF Unsubscribe
    <3>3. ASSUME NEW d \in Client, NEW h \in Group PROVE ~Subscribe(d, h)
      BY <3>1 DEF Subscribe
    <3>4. ASSUME NEW d \in Client PROVE ~AckTimeout(d)
      BY <1>3, <3>1 DEF AckTimeout
    <3>5. ASSUME NEW s \in Server, NEW m \in net PROVE ~Handle(s, m)
      BY <3>1 DEF Handle, HandleUnknown, HandleStop, HandleSubscribe, clients
    <3>6. ASSUME NEW d \in Client, NEW m \in net
          PROVE  ~AckIgnored(d, m) /\ ~Lose(m) /\ ~Unclaimed(m)
      BY <3>1 DEF AckIgnored, Lose, Unclaimed, clients
    <3>7. ~(UNCHANGED vars) /\ \A s \in Server : ~Restart(s)
      BY <3>1 DEF vars, clients, Restart
    <3>8. \E m \in net : Deliver(m)
      BY <3>2, <3>3, <3>4, <3>6, <3>7 DEF Next
    <3> QED BY <3>5, <3>6, <3>8 DEF Deliver
  <2>3. g \in Group
    BY TypeStep DEF TypeOK
  <2> QED BY <1>1, <2>1, <2>2, <2>3, RegisteredStays
<1> QED BY <1>2, <1>3

\* Every step of clients, listeners and network keeps the types of the state.
THEOREM SubscriptionType == Spec => [](TypeOK /\ SendersOK)
<1>1. Init => TypeOK /\ SendersOK
  BY InitInv DEF HeardInv
<1>2. TypeOK /\ SendersOK /\ [Next]_vars => (TypeOK /\ SendersOK)'
  BY TypeStep, SendersStep
<1> QED BY <1>1, <1>2, PTL DEF Spec

\* _handle_subscribe changes nothing but the registration named by the entry it
\* handles, wherever the programs run.
THEOREM RegistrationsAreOwn == Spec => OnlyOwnRegistration
<1>1. TypeOK /\ SendersOK /\ [Next]_vars
      => [\A s \in Server, e \in Endpoint :
             (e \in registry'[s]) # (e \in registry[s]) /\ restarts' = restarts
             => /\ e[1] \in Offers[s]
                /\ \E m \in net \ net' : /\ m.type = "subscribe" /\ m.dest = s
                                         /\ m.addr = e[2] /\ m.group = e[1]]_vars
  BY OwnRegistration
<1> QED BY <1>1, SubscriptionType, PTL DEF Spec, OnlyOwnRegistration

\* With hosts of their own, a client that _subscribe_eventgroup told True is
\* registered with a server, and no listener answers an answer.
THEOREM AcksAreTrue ==
    ASSUME OwnHosts
    PROVE  Spec => [](AckMeansRegistered /\ NoAckOfAck)
<1>1. Init => HeardInv
  BY InitInv
<1>2. HeardInv /\ [Next]_vars => HeardInv'
  BY OwnHosts, TypeStep, SendersStep, NetworkStep, AckedStep DEF HeardInv
<1>3. HeardInv => AckMeansRegistered /\ NoAckOfAck
  BY DEF HeardInv, SendersOK, Sender, NetworkOK, AcksGoHome, NoAckOfAck
<1> QED BY <1>1, <1>2, <1>3, PTL DEF Spec
=============================================================================

------------------------ MODULE ClientSessionProofs ------------------------
(***************************************************************************)
(* What a client may conclude, for every number of servers, every length   *)
(* of the period and of the timeout, and every catalog: a search gives up  *)
(* only for a reason, the wait for an ack is bounded, and a call between   *)
(* programs with the same catalog reaches the method that was named.       *)
(***************************************************************************)
EXTENDS ClientSession, WellFoundedInduction, TLAPS
-----------------------------------------------------------------------------
(* The catalog.                                                            *)

\* A set of indices that is not empty has a first element: "the first entry
\* of the service", "the first port of the entry" are well defined.
LEMMA FirstIndex ==
    ASSUME NEW S, S \subseteq Nat, S # {}
    PROVE  (CHOOSE i \in S : \A j \in S : i <= j) \in S
PROOF
<1>1. PICK i \in S : \A j \in S : ~(<<j, i>> \in OpToRel(<, Nat))
    BY WFMin, NatLessThanWellFounded, Zenon
<1>2. \A j \in S : i <= j
    <2>1. TAKE j \in S
    <2>2. <<j, i>> \in Nat \X Nat
        OBVIOUS
    <2>3. ~(j < i)
        BY <1>1, <2>2 DEF OpToRel
    <2> QED
        BY <2>3
<1> QED
    BY <1>2

\* The port of an entry is the port of one of the service's methods, cut to
\* sixteen bits, or none.
LEMMA OfferedPort ==
    ASSUME NEW cat, IsCatalog(cat), NEW svc
    PROVE  \/ Offered(cat, svc) = NoPort
           \/ \E m \in Methods(cat) : Offered(cat, svc) = m.port % IdSpan
PROOF
<1> DEFINE own == {i \in DOMAIN cat.messages :
                      LET m == cat.messages[i]
                      IN  m.kind = "method" /\ m.service = svc.name /\ ~m.padded}
           first == CHOOSE i \in own : \A j \in own : i <= j
<1>1. CASE own = {}
    BY <1>1 DEF Offered
<1>2. CASE own # {}
    <2>1. own \subseteq Nat
        BY DEF IsCatalog
    <2>2. first \in own
        BY <1>2, <2>1, FirstIndex
    <2>3. cat.messages[first] \in Methods(cat)
        BY <2>2 DEF Methods, Items
    <2>4. Offered(cat, svc) = cat.messages[first].port % IdSpan
        BY <1>2 DEF Offered
    <2> QED
        BY <2>3, <2>4
<1> QED
    BY <1>1, <1>2

\* What a client finds in the entries of a server is the port of one of them,
\* or none.
LEMMA PortFound ==
    ASSUME NEW cat, IsCatalog(cat), NEW service
    PROVE  \/ PortOffered(build_entries(cat), service) = NoPort
           \/ \E svc : PortOffered(build_entries(cat), service) = Offered(cat, svc)
PROOF
<1> DEFINE entries == build_entries(cat)
           found == {i \in DOMAIN entries : entries[i].service = service}
           first == CHOOSE i \in found : \A j \in found : i <= j
<1>1. CASE found = {}
    BY <1>1 DEF PortOffered
<1>2. CASE found # {}
    <2>1. DOMAIN entries = DOMAIN cat.services
        BY DEF build_entries
    <2>2. found \subseteq Nat
        BY <2>1 DEF IsCatalog
    <2>3. first \in DOMAIN cat.services
        BY <1>2, <2>1, <2>2, FirstIndex
    <2>4. entries[first].port = Offered(cat, cat.services[first])
        BY <2>3 DEF build_entries
    <2>5. PortOffered(entries, service) = entries[first].port
        BY <1>2 DEF PortOffered
    <2> QED
        BY <2>4, <2>5
<1> QED
    BY <1>1, <1>2

\* The port a client calls is one of the ports a server with its catalog
\* listens to, whether it comes from the catalog or from an offer.
LEMMA CallPortListens ==
    ASSUME NEW cat, IsCatalog(cat), IdsFit(cat), NEW m \in Methods(cat),
           NEW entries \in {<<>>, build_entries(cat)}
    PROVE  CallPort(cat, m, entries) \in all_ports(cat)
PROOF
<1> DEFINE port == PortOffered(entries, resolve_someip(cat, m)[1])
<1>1. ASSUME NEW n \in Methods(cat)
      PROVE  n.port \in all_ports(cat) /\ n.port % IdSpan = n.port
    <2>1. n \in Items(cat.messages)
        BY DEF Methods
    <2>2. n.port \in Nat /\ n.port < IdSpan /\ IdSpan \in Nat
        BY <2>1, CatalogAssumption DEF IsCatalog, IdsFit
    <2>3. n.port \in 0 .. IdSpan - 1 /\ n.port % IdSpan = n.port
        BY <2>2
    <2> QED
        BY <2>3 DEF all_ports
<1>2. port = NoPort \/ port \in all_ports(cat)
    <2>1. CASE entries = <<>>
        <3>1. DOMAIN entries = {}
            BY <2>1
        <3> QED
            BY <3>1 DEF PortOffered
    <2>2. CASE entries = build_entries(cat)
        <3>1. port = NoPort \/ \E svc : port = Offered(cat, svc)
            BY <2>2, PortFound
        <3>2. port = NoPort \/ \E n \in Methods(cat) : port = n.port % IdSpan
            BY <3>1, OfferedPort
        <3> QED
            BY <3>2, <1>1
    <2> QED
        BY <2>1, <2>2
<1>3. CallPort(cat, m, entries) = IF port \in {NoPort, 0} THEN m.port ELSE port
    BY DEF CallPort
<1> QED
    BY <1>1, <1>2, <1>3

\* A server that starts routes the ids of a method to that method.
LEMMA RouteOfMethod ==
    ASSUME NEW cat, Starts(cat), IdsFit(cat), NEW m \in Methods(cat)
    PROVE  /\ OnWire(resolve_someip(cat, m)) \in DOMAIN Routes(cat)
           /\ Routes(cat)[OnWire(resolve_someip(cat, m))] = m
PROOF
<1> DEFINE key == resolve_someip(cat, m)
<1>1. OnWire(key) = key
    BY DEF IdsFit, Methods
<1>2. key \in {resolve_someip(cat, n) : n \in Methods(cat)}
    OBVIOUS
<1>3. \A n \in Methods(cat) : resolve_someip(cat, n) = key => n = m
    BY Zenon DEF Starts
<1>4. (CHOOSE n \in Methods(cat) : resolve_someip(cat, n) = key) = m
    BY <1>3
<1>5. Routes(cat)[key] = CHOOSE n \in Methods(cat) : resolve_someip(cat, n) = key
    BY <1>2 DEF Routes
<1>6. key \in DOMAIN Routes(cat)
    BY <1>2 DEF Routes
<1> QED
    BY <1>1, <1>4, <1>5, <1>6
-----------------------------------------------------------------------------
(* The invariant.                                                          *)

\* While the search waits with an empty socket, an announcer that has lost
\* nothing since the last datagram was late by no more than Late at its start:
\* what is left of its period shrinks with what is left of the timeout.
NothingMissed == phase = "discover" /\ inbox = <<>> =>
                     \A s \in faithful : due[s] <= Period - (Timeout - left)

\* Nothing is added to the history once the search is over.
GaveUp == outcome.is = "silence" => faithful = {} /\ phase \notin {"start", "discover"}

\* The wait for an ack: what is spent of the deadline, and the last recvfrom.
AckWait == phase = "ack" => /\ spent + left < 2 * Timeout
                            /\ deadline > 0 => spent + deadline <= Timeout

\* The client ends with its last datagram.
Remaining == ~Over => got < Count

SessionInv == /\ TypeOK /\ Remaining
              /\ faithful \subseteq up /\ NothingMissed /\ GaveUp
              /\ AckWait /\ AckWaitBounded
              /\ CallReachesMethod

\* No step but the client's own moves it to another phase, except for the
\* datagrams of the event.
LEMMA ServersLeaveClient ==
    Environment \/ (\E s \in Server : Announce(s)) =>
        /\ UNCHANGED <<setup, phase, left, deadline, spent, target, heard, outcome, got>>
        /\ faithful' \subseteq faithful
PROOF
<1>1. Noise => UNCHANGED <<setup, phase, left, deadline, spent, target, heard, outcome,
                           got, faithful>>
    BY DEF Noise, Arrives, results
<1>2. ASSUME NEW s \in Server
      PROVE  /\ Stop(s) \/ Start(s) \/ Register(s) \/ LoseRequest(s) \/ Announce(s) =>
                    /\ UNCHANGED <<setup, phase, left, deadline, spent, target, heard,
                                   outcome, got>>
                    /\ faithful' \subseteq faithful
    BY DEF Stop, Start, Register, LoseRequest, Announce, Arrives, waiting, results
<1> QED
    BY <1>1, <1>2 DEF Environment

\* The wait for an ack stays below two timeouts: the deadline is passed after
\* the first of them, and the last recvfrom takes no more than a second one.
LEMMA AckStep == TypeOK /\ AckWait /\ AckWaitBounded /\ [Next]_vars
                     => AckWait' /\ AckWaitBounded'
PROOF
<1> SUFFICES ASSUME TypeOK, AckWait, AckWaitBounded, [Next]_vars
             PROVE  AckWait' /\ AckWaitBounded'
    OBVIOUS
<1> USE SessionAssumption DEF TypeOK, AckWait, AckWaitBounded
<1>1. CASE Tick
    BY <1>1 DEF Tick, Blocked, HasSocket
<1>2. CASE Environment \/ \E s \in Server : Announce(s)
    BY <1>2, ServersLeaveClient
<1>3. CASE Begin
    BY <1>3 DEF Begin
<1>4. CASE Call
    BY <1>4 DEF Call, waiting
<1>5. CASE Subscribe
    BY <1>5 DEF Subscribe, Receive, waiting
<1>6. CASE DiscoverOther \/ DiscoverOffer \/ DiscoverTimeout
    BY <1>6 DEF DiscoverOther, DiscoverOffer, DiscoverTimeout, Close, Receive
<1>7. CASE AckHeard \/ AckTimeout
    BY <1>7 DEF AckHeard, AckTimeout, Close
<1>8. CASE AckOther
    <2>1. CASE deadline > 0 /\ left' = Timeout /\ UNCHANGED <<phase, deadline, spent>>
        BY <1>8, <2>1 DEF AckOther
    <2>2. CASE phase' = "listen" /\ spent' = spent
        BY <2>2
    <2> QED
        BY <1>8, <2>1, <2>2 DEF AckOther, Receive, Close
<1>9. CASE EventArrives \/ ListenRaises
    BY <1>9 DEF EventArrives, ListenRaises, waiting
<1>10. CASE UNCHANGED vars
    BY <1>10 DEF vars, waiting
<1> QED
    BY <1>1, <1>2, <1>3, <1>4, <1>5, <1>6, <1>7, <1>8, <1>9, <1>10
       DEF Next, ClientStep

\* A server that keeps its period, and whose announcements arrive, is heard
\* before the timeout of a recvfrom is over.
LEMMA SearchStep ==
    TypeOK /\ faithful \subseteq up /\ NothingMissed /\ GaveUp /\ [Next]_vars
        => faithful' \subseteq up' /\ NothingMissed' /\ GaveUp'
PROOF
<1> SUFFICES ASSUME TypeOK, faithful \subseteq up, NothingMissed, GaveUp, [Next]_vars
             PROVE  faithful' \subseteq up' /\ NothingMissed' /\ GaveUp'
    OBVIOUS
<1> USE SessionAssumption DEF TypeOK
<1>1. CASE Tick
    <2>1. UNCHANGED <<up, faithful, phase, inbox, outcome>>
        BY <1>1 DEF Tick, results
    <2>2. NothingMissed'
        <3> SUFFICES ASSUME phase = "discover", inbox = <<>>, NEW s \in faithful
                     PROVE  due'[s] <= Period - (Timeout - left')
            BY <2>1 DEF NothingMissed
        <3>1. Blocked /\ left' = left - 1
            BY <1>1 DEF Tick, Blocked, HasSocket
        <3>2. due'[s] = due[s] - 1
            BY <1>1 DEF Tick
        <3>3. due[s] <= Period - (Timeout - left)
            BY DEF NothingMissed
        <3>4. due[s] \in Int
            OBVIOUS
        <3> QED
            BY <3>1, <3>2, <3>3, <3>4
    <2> QED
        BY <2>1, <2>2 DEF GaveUp
<1>2. ASSUME NEW s \in Server, Announce(s)
      PROVE  faithful' \subseteq up' /\ NothingMissed' /\ GaveUp'
    <2>1. /\ UNCHANGED <<up, phase, left, outcome>>
          /\ faithful' \subseteq faithful
        BY <1>2, ServersLeaveClient DEF Announce
    <2>2. CASE faithful' = faithful \ {s} /\ inbox' = inbox
        <3>1. \A t \in faithful' : t # s /\ t \in Server /\ due'[t] = due[t]
            BY <1>2, <2>2 DEF Announce
        <3> QED
            BY <2>1, <2>2, <3>1 DEF NothingMissed, GaveUp
    <2>3. CASE Arrives([type |-> "offer", from |-> s])
        <3>1. inbox' # <<>>
            BY <2>3 DEF Arrives
        <3> QED
            BY <2>1, <3>1 DEF NothingMissed, GaveUp
    <2> QED
        BY <1>2, <2>2, <2>3 DEF Announce
<1>3. CASE Noise
    <2>1. inbox' # <<>> /\ UNCHANGED <<up, phase, outcome, faithful>>
        BY <1>3 DEF Noise, Arrives, results
    <2> QED
        BY <2>1 DEF NothingMissed, GaveUp
<1>4. ASSUME NEW s \in Server, Stop(s)
      PROVE  faithful' \subseteq up' /\ NothingMissed' /\ GaveUp'
    <2>1. /\ up' = up \ {s} /\ faithful' = faithful \ {s}
          /\ \A t \in faithful' : t \in Server /\ due'[t] = due[t]
          /\ UNCHANGED <<phase, inbox, left, outcome>>
        BY <1>4 DEF Stop
    <2> QED
        BY <2>1 DEF NothingMissed, GaveUp
<1>5. ASSUME NEW s \in Server, Start(s) \/ LoseRequest(s)
      PROVE  faithful' \subseteq up' /\ NothingMissed' /\ GaveUp'
    <2>1. up \subseteq up' /\ UNCHANGED <<phase, inbox, left, due, outcome, faithful>>
        BY <1>5 DEF Start, LoseRequest, waiting, results
    <2> QED
        BY <2>1 DEF NothingMissed, GaveUp
<1>6. ASSUME NEW s \in Server, Register(s)
      PROVE  faithful' \subseteq up' /\ NothingMissed' /\ GaveUp'
    <2>1. UNCHANGED <<up, phase, left, due, outcome, faithful>>
        BY <1>6 DEF Register
    <2>2. inbox' = inbox \/ inbox' # <<>>
        BY <1>6 DEF Register, Arrives
    <2> QED
        BY <2>1, <2>2 DEF NothingMissed, GaveUp
<1>7. CASE Begin
    <2>1. phase = "start" /\ UNCHANGED <<up, due, outcome>>
        BY <1>7 DEF Begin, Others, results
    <2>2. CASE cmd.discover
        BY <1>7, <2>1, <2>2 DEF Begin, Receive, NothingMissed, GaveUp
    <2>3. CASE ~cmd.discover
        BY <1>7, <2>1, <2>3 DEF Begin, NothingMissed, GaveUp
    <2> QED
        BY <2>2, <2>3
<1>8. CASE DiscoverOther
    BY <1>8 DEF DiscoverOther, Receive, Others, results, NothingMissed, GaveUp
<1>9. CASE DiscoverOffer
    BY <1>9 DEF DiscoverOffer, Others, NothingMissed, GaveUp
<1>10. CASE DiscoverTimeout
    <2>1. faithful = {}
        <3>1. ASSUME NEW s \in faithful PROVE FALSE
            <4>1. due[s] <= Period - (Timeout - 0)
                BY <1>10 DEF DiscoverTimeout, Blocked, NothingMissed
            <4>2. due[s] \in -Late .. Period
                OBVIOUS
            <4> QED
                BY <4>1, <4>2
        <3> QED
            BY <3>1
    <2>2. faithful' = {} /\ phase' \in {"call", "ended"} /\ up' = up
        BY <1>10, <2>1 DEF DiscoverTimeout, Others
    <2> QED
        BY <2>2 DEF NothingMissed, GaveUp
<1>11. CASE Call
    <2>1. phase = "call" /\ phase' \in {"subscribe", "ended"} /\ UNCHANGED <<up, faithful>>
        BY <1>11 DEF Call, Others, waiting
    <2>2. outcome' = outcome \/ outcome'.is # "silence"
        BY <1>11 DEF Call, Outcomes, Answer, Is
    <2> QED
        BY <2>1, <2>2 DEF NothingMissed, GaveUp
<1>12. CASE Subscribe \/ AckHeard \/ AckOther \/ AckTimeout
    <2>1. phase' \in {"done", "ack", "listen"} /\ UNCHANGED <<up, faithful, outcome>>
        BY <1>12 DEF Subscribe, AckHeard, AckOther, AckTimeout, Others, results, waiting
    <2> QED
        BY <2>1 DEF NothingMissed, GaveUp
<1>13. CASE EventArrives \/ ListenRaises
    <2>1. phase' \in {"listen", "done", "ended"} /\ UNCHANGED <<up, faithful, outcome>>
        BY <1>13 DEF EventArrives, ListenRaises, Others, results, waiting
    <2> QED
        BY <2>1 DEF NothingMissed, GaveUp
<1>14. CASE UNCHANGED vars
    BY <1>14 DEF vars, waiting, results, NothingMissed, GaveUp
<1> QED
    BY <1>1, <1>2, <1>3, <1>4, <1>5, <1>6, <1>7, <1>8, <1>9, <1>10, <1>11, <1>12,
       <1>13, <1>14 DEF Next, ClientStep, Environment

\* An answer to a call between programs with the same catalog comes from the
\* method that was called.
LEMMA AnswerOfMethod ==
    ASSUME TypeOK, SameCatalogs, IdsFit(Mine), NEW m \in Methods(Mine), target \in Server
    PROVE  Answer(m) = [is |-> "run", method |-> m.name]
PROOF
<1> DEFINE entries == IF cmd.app = "tui" \/ heard = NoServer THEN <<>>
                      ELSE build_entries(Cat(heard))
           key == OnWire(resolve_someip(Mine, m))
<1>1. Cat(target) = Mine /\ (heard # NoServer => Cat(heard) = Mine)
    BY DEF SameCatalogs, TypeOK
<1>2. IsCatalog(Mine) /\ Starts(Mine)
    <2>1. IsCatalog(Cat(target)) /\ Starts(Cat(target))
        BY SessionAssumption DEF TypeOK, Cat
    <2> QED
        BY <1>1, <2>1
<1>3. CallPort(Mine, m, entries) \in all_ports(Mine)
    <2>1. entries \in {<<>>, build_entries(Mine)}
        BY <1>1
    <2> HIDE DEF entries
    <2> QED
        BY <1>2, <2>1, CallPortListens
<1>4. key \in DOMAIN Routes(Mine) /\ Routes(Mine)[key] = m
    BY <1>2, RouteOfMethod
<1>5. Answer(m) = IF CallPort(Mine, m, entries) \notin all_ports(Mine) THEN Is("refused")
                  ELSE IF key \notin DOMAIN Routes(Mine) THEN Is("rejected")
                  ELSE [is |-> "run", method |-> Routes(Mine)[key].name]
    BY <1>1 DEF Answer
<1> HIDE DEF entries, key
<1> QED
    BY <1>3, <1>4, <1>5

\* Only Call makes a call, and the method it has found has the name the user gave.
LEMMA CallStep == TypeOK /\ CallReachesMethod /\ [Next]_vars => CallReachesMethod'
PROOF
<1> SUFFICES ASSUME TypeOK, CallReachesMethod, [Next]_vars
             PROVE  CallReachesMethod'
    OBVIOUS
<1>1. setup' = setup
    <2>1. Tick \/ Environment \/ (\E s \in Server : Announce(s)) => setup' = setup
        BY ServersLeaveClient DEF Tick
    <2>2. ClientStep => setup' = setup
        BY DEF ClientStep, Begin, Call, Subscribe, DiscoverOther, DiscoverOffer,
               DiscoverTimeout, AckHeard, AckOther, AckTimeout, Others
    <2>3. EventArrives \/ ListenRaises => setup' = setup
        BY DEF EventArrives, ListenRaises, Others
    <2> QED
        BY <2>1, <2>2, <2>3 DEF Next, vars
<1>2. \/ outcome' = outcome
      \/ outcome'.is \in {"silence", "unanswered"}
      \/ \E m \in Methods(Mine) : m.name = cmd.call /\ target \in Server
                                   /\ outcome' = Answer(m)
    <2>1. Tick \/ Environment \/ (\E s \in Server : Announce(s)) => outcome' = outcome
        BY ServersLeaveClient DEF Tick, results
    <2>2. DiscoverTimeout => outcome'.is = "silence"
        BY DEF DiscoverTimeout, Is
    <2>3. ASSUME Call, outcome' # outcome
          PROVE  \/ outcome'.is = "unanswered"
                 \/ \E m \in Methods(Mine) : m.name = cmd.call /\ target \in Server
                                              /\ outcome' = Answer(m)
        <3>1. PICK m \in Methods(Mine) : m.name = cmd.call /\ outcome' \in Outcomes(m)
            BY <2>3 DEF Call
        <3>2. outcome' = Is("unanswered") \/ (target \in up /\ outcome' = Answer(m))
            BY <3>1 DEF Outcomes
        <3>3. up \subseteq Server
            BY DEF TypeOK
        <3> QED
            BY <3>1, <3>2, <3>3 DEF Is
    <2>4. Begin \/ Subscribe \/ DiscoverOther \/ DiscoverOffer \/ AckHeard \/ AckOther
          \/ AckTimeout \/ EventArrives \/ ListenRaises => outcome' = outcome
        BY DEF Begin, Subscribe, DiscoverOther, DiscoverOffer, AckHeard, AckOther,
               AckTimeout, EventArrives, ListenRaises, results
    <2>5. UNCHANGED vars => outcome' = outcome
        BY DEF vars, results
    <2> QED
        BY <2>1, <2>2, <2>3, <2>4, <2>5 DEF Next, ClientStep
<1>3. SUFFICES ASSUME SameCatalogs, IdsFit(Mine),
                      outcome'.is \in {"refused", "rejected", "run"}
               PROVE  outcome' = [is |-> "run", method |-> cmd.call]
    BY <1>1 DEF CallReachesMethod, SameCatalogs, Mine, Cat, cmd
<1>4. CASE outcome' = outcome
    BY <1>3, <1>4 DEF CallReachesMethod
<1>5. ASSUME NEW m \in Methods(Mine), m.name = cmd.call, target \in Server,
             outcome' = Answer(m)
      PROVE  outcome' = [is |-> "run", method |-> cmd.call]
    BY <1>3, <1>5, AnswerOfMethod
<1> QED
    BY <1>2, <1>3, <1>4, <1>5
-----------------------------------------------------------------------------
(* Types.                                                                  *)

\* A call that has run has run a method of one of the servers.
LEMMA OutcomeType ==
    ASSUME TypeOK, NEW m \in Methods(Mine), target \in Server
    PROVE  Answer(m) \in Outcome
PROOF
<1> DEFINE names == {n.name : n \in UNION {Methods(Cat(s)) : s \in Server}}
           routes == Routes(Cat(target))
           key == OnWire(resolve_someip(Mine, m))
<1>1. ASSUME NEW k \in DOMAIN routes PROVE routes[k].name \in names
    <2>1. PICK n \in Methods(Cat(target)) : resolve_someip(Cat(target), n) = k
        BY DEF Routes
    <2>2. routes[k] = CHOOSE x \in Methods(Cat(target)) : resolve_someip(Cat(target), x) = k
        BY DEF Routes
    <2>3. routes[k] \in Methods(Cat(target))
        BY <2>1, <2>2
    <2>4. routes[k] \in UNION {Methods(Cat(s)) : s \in Server}
        BY <2>3
    <2> QED
        BY <2>4
<1>2. \/ Answer(m) \in {Is("refused"), Is("rejected")}
      \/ /\ key \in DOMAIN routes
         /\ Answer(m) = [is |-> "run", method |-> routes[key].name]
    BY DEF Answer
<1>3. Is("refused") \in Outcome /\ Is("rejected") \in Outcome
    BY DEF Is, Outcome
<1>4. ASSUME NEW name \in names PROVE [is |-> "run", method |-> name] \in Outcome
    BY DEF Outcome
<1> HIDE DEF names, routes, key
<1> QED
    BY <1>1, <1>2, <1>3, <1>4

\* Every step keeps the types, and the client's count.
LEMMA TypeStep == TypeOK /\ Remaining /\ [Next]_vars => TypeOK' /\ Remaining'
PROOF
<1> SUFFICES ASSUME TypeOK, Remaining, [Next]_vars
             PROVE  TypeOK' /\ Remaining'
    OBVIOUS
<1>o. Outcome' = Outcome \/ setup' # setup
    BY DEF Outcome, Cat
<1> USE SessionAssumption DEF TypeOK, Remaining, Over
<1>t. \A seq \in Seq(Datagram) : seq # <<>> =>
         Head(seq) \in Datagram /\ Tail(seq) \in Seq(Datagram)
    OBVIOUS
<1>e. <<>> \in Seq(Datagram)
    OBVIOUS
<1>a. \A d \in Datagram : Arrives(d) => inbox' \in Seq(Datagram)
    BY DEF Arrives
<1>1. CASE Tick
    <2>1. \A s \in Server : due'[s] \in -Late .. Period
        BY <1>1 DEF Tick
    <2>2. due' \in [Server -> -Late .. Period]
        BY <1>1, <2>1 DEF Tick
    <2>3. left' \in 0 .. Timeout /\ deadline' \in 0 .. Timeout /\ spent' \in Nat
        BY <1>1 DEF Tick, Blocked
    <2>4. UNCHANGED <<setup, up, requests, registry, phase, inbox, target, heard, outcome,
                      got, faithful, acked, noise, stops>>
        BY <1>1 DEF Tick, network, results
    <2> QED
        BY <1>o, <2>2, <2>3, <2>4
<1>2. CASE Noise
    <2>1. [type |-> "other", from |-> NoServer] \in Datagram
        BY DEF Datagram
    <2>2. inbox' \in Seq(Datagram) /\ noise' \in Nat
        <3>1. Arrives([type |-> "other", from |-> NoServer])
            BY <1>2 DEF Noise
        <3>2. noise' = noise + 1
            BY <1>2 DEF Noise
        <3> QED
            BY <2>1, <3>1, <3>2, <1>a
    <2> QED
        BY <1>2, <1>o, <2>2 DEF Noise, network, results
<1>3. ASSUME NEW s \in Server,
             Stop(s) \/ Start(s) \/ Register(s) \/ LoseRequest(s) \/ Announce(s)
      PROVE  TypeOK' /\ Remaining'
    <2>1. [type |-> "offer", from |-> s] \in Datagram /\ [type |-> "ack", from |-> s] \in Datagram
        BY DEF Datagram
    <2>2. CASE Announce(s)
        <3>1. inbox' \in Seq(Datagram)
            BY <2>1, <2>2, <1>a DEF Announce
        <3>2. due' \in [Server -> -Late .. Period]
            BY <2>2 DEF Announce
        <3>3. faithful' \subseteq Server
            BY <2>2 DEF Announce
        <3> QED
            BY <2>2, <1>o, <3>1, <3>2, <3>3 DEF Announce, network, results
    <2>3. CASE Register(s)
        <3>1. inbox' \in Seq(Datagram)
            BY <2>1, <2>3, <1>a DEF Register
        <3>2. requests' \subseteq Server /\ registry' \subseteq up' /\ acked' \subseteq up'
            BY <2>3 DEF Register
        <3> QED
            BY <2>3, <1>o, <3>1, <3>2 DEF Register
    <2>4. CASE Stop(s)
        <3>1. due' \in [Server -> -Late .. Period]
            BY <2>4 DEF Stop
        <3> QED
            BY <2>4, <1>o, <3>1 DEF Stop
    <2>5. CASE Start(s) \/ LoseRequest(s)
        BY <2>5, <1>o DEF Start, LoseRequest, network, waiting, results
    <2> QED
        BY <1>3, <2>2, <2>3, <2>4, <2>5
<1>4. CASE Begin
    <2>1. inbox' = <<>> \/ inbox' = inbox
        BY <1>4 DEF Begin, Receive
    <2>2. inbox' \in Seq(Datagram)
        BY <2>1, <1>e
    <2>3. left' \in 0 .. Timeout
        BY <1>4 DEF Begin, Receive
    <2>4. phase = "start" /\ phase' \in {"discover", "call"} /\ faithful' \subseteq Server
        BY <1>4 DEF Begin
    <2> QED
        BY <1>4, <1>o, <2>2, <2>3, <2>4 DEF Begin, Others, results
<1>5. CASE DiscoverOther
    BY <1>5, <1>t, <1>o DEF DiscoverOther, Receive, Others, results
<1>6. CASE DiscoverOffer
    <2>1. Head(inbox).from \in Server \cup {NoServer}
        BY <1>6, <1>t DEF DiscoverOffer, Datagram
    <2> QED
        BY <1>6, <1>o, <2>1 DEF DiscoverOffer, Close, Others
<1>7. CASE DiscoverTimeout
    <2>1. Is("silence") \in Outcome
        BY DEF Is, Outcome
    <2> QED
        BY <1>7, <1>o, <2>1 DEF DiscoverTimeout, Blocked, Close, Others
<1>8. CASE Call
    <2>1. outcome' \in Outcome
        <3>1. CASE outcome' # outcome
            <4>1. PICK m \in Methods(Mine) : outcome' \in Outcomes(m)
                BY <1>8, <3>1 DEF Call
            <4>2. outcome' = Is("unanswered") \/ (target \in up /\ outcome' = Answer(m))
                BY <4>1 DEF Outcomes
            <4>3. Is("unanswered") \in Outcome
                BY DEF Is, Outcome
            <4>4. up \subseteq Server
                OBVIOUS
            <4> QED
                BY <4>2, <4>3, <4>4, OutcomeType
        <3> QED
            BY <3>1
    <2>2. phase' \in {"subscribe", "ended"} /\ phase = "call"
        BY <1>8 DEF Call
    <2> QED
        BY <1>8, <1>o, <2>1, <2>2 DEF Call, Others, waiting
<1>9. CASE Subscribe
    <2>1. inbox' \in Seq(Datagram) /\ faithful' = faithful
        BY <1>9, <1>e DEF Subscribe, Receive, waiting
    <2>2. left' \in 0 .. Timeout /\ deadline' \in 0 .. Timeout /\ spent' \in Nat
        <3>1. \/ left' = Timeout /\ deadline' = Timeout /\ spent' = 0
              \/ left' = left /\ deadline' = deadline /\ spent' = spent
            BY <1>9 DEF Subscribe, Receive, waiting
        <3>2. Timeout \in 0 .. Timeout
            OBVIOUS
        <3>3. left \in 0 .. Timeout /\ deadline \in 0 .. Timeout /\ spent \in Nat
            OBVIOUS
        <3> HIDE SessionAssumption DEF TypeOK, Remaining, Over
        <3> QED
            BY <3>1, <3>2, <3>3
    <2>3. phase = "subscribe" /\ phase' \in {"done", "ack", "listen"} /\ requests' \subseteq Server
        <3>1. phase = "subscribe"
            BY <1>9 DEF Subscribe
        <3>2. phase' \in {"done", "ack", "listen"}
            BY <1>9 DEF Subscribe
        <3>3. requests' = requests \/ requests' = Server
            BY <1>9 DEF Subscribe
        <3>4. requests \subseteq Server
            OBVIOUS
        <3> QED
            BY <3>1, <3>2, <3>3, <3>4
    <2> QED
        BY <1>9, <1>o, <2>1, <2>2, <2>3 DEF Others, results, Subscribe
<1>10. CASE AckHeard \/ AckTimeout
    <2>1. inbox' \in Seq(Datagram)
        BY <1>10, <1>e DEF AckHeard, AckTimeout, Close
    <2>2. left' \in 0 .. Timeout /\ deadline' \in 0 .. Timeout /\ spent' = spent
        <3>1. left' = 0 /\ deadline' = 0 /\ spent' = spent
            BY <1>10 DEF AckHeard, AckTimeout, Close
        <3>2. 0 \in 0 .. Timeout
            OBVIOUS
        <3> QED
            BY <3>1, <3>2
    <2>3. phase = "ack" /\ phase' = "listen"
        BY <1>10 DEF AckHeard, AckTimeout
    <2> QED
        BY <1>10, <1>o, <2>1, <2>2, <2>3 DEF AckHeard, AckTimeout, Others, results
<1>11. CASE AckOther
    <2>1. inbox' \in Seq(Datagram)
        <3>1. Tail(inbox) \in Seq(Datagram)
            BY <1>11, <1>t DEF AckOther
        <3>2. inbox' = Tail(inbox) \/ inbox' = <<>>
            BY <1>11 DEF AckOther, Receive, Close
        <3> QED
            BY <3>1, <3>2, <1>e
    <2>2. left' \in 0 .. Timeout /\ deadline' \in 0 .. Timeout /\ spent' \in Nat
        BY <1>11 DEF AckOther, Receive, Close
    <2>3. phase' \in {"ack", "listen"} /\ phase = "ack"
        BY <1>11 DEF AckOther, Close
    <2> QED
        BY <1>11, <1>o, <2>1, <2>2, <2>3 DEF AckOther, Others, results
<1>12. CASE EventArrives
    BY <1>12, <1>o DEF EventArrives, Others, waiting
<1>13. CASE ListenRaises
    <2>1. noise' \in Nat /\ phase' = "ended"
        BY <1>13 DEF ListenRaises
    <2> QED
        BY <1>13, <1>o, <2>1 DEF ListenRaises, network, waiting, results
<1>14. CASE UNCHANGED vars
    BY <1>14, <1>o DEF vars, network, waiting, results
<1> QED
    BY <1>1, <1>2, <1>3, <1>4, <1>5, <1>6, <1>7, <1>8, <1>9, <1>10, <1>11, <1>12,
       <1>13, <1>14 DEF Next, ClientStep, Environment
-----------------------------------------------------------------------------
(* The theorems.                                                           *)

\* The invariant holds at the start.
LEMMA InitialState == Init => SessionInv
PROOF
<1> SUFFICES ASSUME Init PROVE SessionInv
    OBVIOUS
<1> USE SessionAssumption DEF Init
<1>1. TypeOK
    <2>1. Is("none") \in Outcome
        BY DEF Is, Outcome
    <2>2. target \in Server \cup {NoServer}
        BY DEF cmd
    <2>3. due \in [Server -> -Late .. Period]
        OBVIOUS
    <2> QED
        BY <2>1, <2>2, <2>3 DEF TypeOK
<1>2. Remaining /\ faithful \subseteq up /\ NothingMissed /\ GaveUp /\ AckWait
    BY DEF Remaining, NothingMissed, GaveUp, AckWait, Is
<1>3. AckWaitBounded
    BY DEF AckWaitBounded
<1>4. CallReachesMethod
    BY DEF CallReachesMethod, Is
<1> QED
    BY <1>1, <1>2, <1>3, <1>4 DEF SessionInv

\* The invariant holds in every state of a session.
LEMMA SessionInvariant == Spec => []SessionInv
PROOF
<1>1. SessionInv /\ [Next]_vars => SessionInv'
    BY TypeStep, SearchStep, AckStep, CallStep DEF SessionInv
<1> QED
    BY <1>1, InitialState, PTL DEF Spec

\* Every variable has its type.
THEOREM SessionTypeCorrect == Spec => []TypeOK
PROOF
<1>1. SessionInv => TypeOK
    BY DEF SessionInv
<1> QED
    BY <1>1, SessionInvariant, PTL

\* A search that gives up has not overlooked a server: each was away, or had an
\* announcement lost, within the last timeout (_discover, client.py).
THEOREM GivesUpForAReason == Spec => []SilenceMeansLoss
PROOF
<1>1. SessionInv => SilenceMeansLoss
    BY DEF SessionInv, GaveUp, SilenceMeansLoss
<1> QED
    BY <1>1, SessionInvariant, PTL

\* Whatever arrives on the SD port, the wait for an ack is shorter than two
\* timeouts (_subscribe_eventgroup, client.py).
THEOREM AckWaitIsBounded == Spec => []AckWaitBounded
PROOF
<1>1. SessionInv => AckWaitBounded
    BY DEF SessionInv
<1> QED
    BY <1>1, SessionInvariant, PTL

\* With the same catalog on both sides, a call that gets through to a server runs
\* the method the user has named (main and _tcp_call, client.py; _build_entries
\* and _build_tcp_routes, node.py).
THEOREM CallsMeetTheirMethod == Spec => []CallReachesMethod
PROOF
<1>1. SessionInv => CallReachesMethod
    BY DEF SessionInv
<1> QED
    BY <1>1, SessionInvariant, PTL
=============================================================================

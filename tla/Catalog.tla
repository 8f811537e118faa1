------------------------------ MODULE Catalog -------------------------------
(***************************************************************************)
(* The catalog a program loads (core/config.py) and what it derives from   *)
(* it before any thread runs: the routing tables and the offered entries   *)
(* of a server (apps/node.py), the endpoint a client calls                 *)
(* (apps/client.py).                                                       *)
(*                                                                         *)
(* A service has a name and an id.  A message has a name, a kind that      *)
(* fixes its transport, the name of its service and whether blanks are     *)
(* around it in the file, an id, a port, and if it is an event an          *)
(* eventgroup and a mode.  Signals are the business of SignalCodec.        *)
(***************************************************************************)
EXTENDS Integers, Sequences

CONSTANTS IdSpan,         \* ids and ports have sixteen bits on the wire: 2^16
          NoPort          \* an entry without TCP endpoint

ASSUME CatalogAssumption == IdSpan \in Nat \ {0} /\ NoPort \notin Nat

Items(seq)    == {seq[i] : i \in DOMAIN seq}
Methods(cat)  == {m \in Items(cat.messages) : m.kind = "method"}
Events(cat)   == {m \in Items(cat.messages) : m.kind = "event"}

\* What load_catalog makes of a file: messages and services in its order.
IsCatalog(cat) == /\ DOMAIN cat.services \subseteq Nat
                  /\ DOMAIN cat.messages \subseteq Nat
                  /\ \A m \in Items(cat.messages) : m.port \in Nat

UniqueNames(seq) == \A i, j \in DOMAIN seq : seq[i].name = seq[j].name => i = j

\* Catalog.validate, as far as it decides between catalogs of this form: names
\* are unique, ports positive, and the name of a service is known once the
\* blanks around it are gone.  Nothing is said about the size of an id or a
\* port, nor about two services with one id.
validate(cat) ==
    /\ UniqueNames(cat.services) /\ UniqueNames(cat.messages)
    /\ \A m \in Items(cat.messages) :
          /\ m.kind \in {"method", "event"}
          /\ m.port > 0
          /\ \E svc \in Items(cat.services) : svc.name = m.service

\* The ids of a message, with its service's name stripped.
resolve_someip(cat, m) ==
    <<(CHOOSE svc \in Items(cat.services) : svc.name = m.service).id, m.id>>

\* The eventgroup an event belongs to, with that of its service.
eventgroup(cat, e) == <<resolve_someip(cat, e)[1], e.group>>
-----------------------------------------------------------------------------
(* The server.                                                             *)

\* Mutant: a second method with the ids of a first is not refused.
StartsWithDuplicates(cat) == validate(cat) /\ Methods(cat) # {} /\ Events(cat) # {}

\* _build_tcp_routes and _build_udp_events do not end the program.
Starts(cat) ==
    /\ validate(cat) /\ Methods(cat) # {} /\ Events(cat) # {}
    /\ \A kind \in {Methods(cat), Events(cat)} : \A m, n \in kind :
          resolve_someip(cat, m) = resolve_someip(cat, n) => m = n

Routes(cat) ==
    [key \in {resolve_someip(cat, m) : m \in Methods(cat)} |->
        CHOOSE m \in Methods(cat) : resolve_someip(cat, m) = key]

\* main: a TcpServer for each port, and every one has all the routes.  A port
\* that is too large ends the accept loop that is to bind it.
all_ports(cat)  == {m.port : m \in Methods(cat)} \cap (0 .. IdSpan - 1)
egid_map(cat)   == {eventgroup(cat, e) : e \in Events(cat)}

\* _build_entries, up to the option a client reads: the port of the first
\* method of the service.  Here the name is compared with its blanks.
Offered(cat, svc) ==
    LET own == {i \in DOMAIN cat.messages :
                   LET m == cat.messages[i]
                   IN  m.kind = "method" /\ m.service = svc.name /\ ~m.padded}
    IN  IF own = {} THEN NoPort
        ELSE cat.messages[CHOOSE i \in own : \A j \in own : i <= j].port % IdSpan
build_entries(cat) ==
    [i \in DOMAIN cat.services |-> [service |-> cat.services[i].id % IdSpan,
                                    port    |-> Offered(cat, cat.services[i])]]
-----------------------------------------------------------------------------
(* The client.                                                             *)

\* What the header carries of the ids.
OnWire(key) == <<key[1] % IdSpan, key[2] % IdSpan>>

\* The port of the first entry for a service, _find_offer_entry and
\* _tcp_port_from_entry; without one, or without a port in it, NoPort.
PortOffered(entries, service) ==
    LET found == {i \in DOMAIN entries : entries[i].service = service}
    IN  IF found = {} THEN NoPort
        ELSE entries[CHOOSE i \in found : \A j \in found : i <= j].port

\* main and _tcp_call: the offered port, or else the catalog's.
CallPort(cat, m, entries) ==
    LET port == PortOffered(entries, resolve_someip(cat, m)[1])
    IN  IF port \in {NoPort, 0} THEN m.port ELSE port

\* Every id and every port goes into its sixteen bits.
IdsFit(cat) == \A m \in Items(cat.messages) :
                  /\ OnWire(resolve_someip(cat, m)) = resolve_someip(cat, m)
                  /\ m.port < IdSpan
=============================================================================

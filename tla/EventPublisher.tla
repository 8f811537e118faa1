--------------------------- MODULE EventPublisher ---------------------------
(***************************************************************************)
(* One event of the server: the menu toggles its publisher (toggle_event   *)
(* and stop_all of ServerContext), every publisher is a thread of its own  *)
(* (run of UdpEventPublisherWithDb, and of UdpEventPublisher in node.py),  *)
(* handler threads change the signal database, SdListener changes the      *)
(* registry.  A Run is one publisher thread, from its start to the close   *)
(* of its socket; toggling off and on again starts a new one.              *)
(*                                                                         *)
(* The database is a version number, one per set_multiple: a snapshot is   *)
(* taken under the lock and shows one version (module SignalDatabase).     *)
(***************************************************************************)
EXTENDS Naturals, FiniteSets

CONSTANTS Run, Subscriber,
          Flaky,       \* subscribers that sendto may fail to reach
          NoRun,       \* no publisher in ServerContext._publishers
          SeqMod,      \* 0xFFFF + 1, smaller for model checking
          MaxVersion   \* bound: writes to the database

ASSUME PublisherAssumption == /\ NoRun \notin Run /\ Flaky \subseteq Subscriber
                              /\ SeqMod \in Nat \ {0} /\ MaxVersion \in Nat

VARIABLES multicast,   \* the mode of the event
          data,        \* the version of the signal database
          audience,    \* unicast: the registry; multicast: the group's members
          active,      \* the entry of the event in ServerContext._publishers
          pc,          \* per run: where its loop is
          stopped,     \* per run: its stop_evt
          vals,        \* per run: the snapshot it has taken
          seq,         \* per run: self.seq
          todo,        \* per run: subscribers it has still to send to
          last,        \* per subscriber: the last datagram it decoded
          rounds,      \* history, per run: rounds begun since stop_evt was set
          late         \* history, per run: datagrams sent to a subscriber
                       \* since it has left the registry

server  == <<data, audience, active>>
history == <<rounds, late>>
vars    == <<multicast, server, pc, stopped, vals, seq, todo, last, history>>

Version  == 0..MaxVersion
Datagram == [run : Run \cup {NoRun}, seq : 0..SeqMod-1, vals : Version]

NoDatagram == [run |-> NoRun, seq |-> 0, vals |-> 0]

TypeOK == /\ multicast \in BOOLEAN
          /\ data \in Version
          /\ audience \subseteq Subscriber
          /\ active \in Run \cup {NoRun}
          /\ pc \in [Run -> {"unused", "loop", "due", "encode", "send", "closed"}]
          /\ stopped \in [Run -> BOOLEAN]
          /\ vals \in [Run -> Version]
          /\ seq \in [Run -> 0..SeqMod-1]
          /\ todo \in [Run -> SUBSET Subscriber]
          /\ last \in [Subscriber -> Datagram]
          /\ rounds \in [Run -> Nat]
          /\ late \in [Run -> [Subscriber -> Nat]]

Init == /\ multicast \in BOOLEAN
        /\ data = 0 /\ audience = {} /\ active = NoRun
        /\ pc = [r \in Run |-> "unused"]
        /\ stopped = [r \in Run |-> FALSE]
        /\ vals = [r \in Run |-> 0]
        /\ seq = [r \in Run |-> 0]
        /\ todo = [r \in Run |-> {}]
        /\ last = [x \in Subscriber |-> NoDatagram]
        /\ rounds = [r \in Run |-> 0]
        /\ late = [r \in Run |-> [x \in Subscriber |-> 0]]
-----------------------------------------------------------------------------
(* The menu thread.                                                        *)

\* toggle_event, on: a new publisher with a stop_evt and a sequence of its own.
ToggleOn(r) ==
    /\ active = NoRun /\ pc[r] = "unused"
    /\ active' = r
    /\ pc' = [pc EXCEPT ![r] = "loop"]
    /\ UNCHANGED <<multicast, data, audience, stopped, vals, seq, todo, last, history>>

\* toggle_event, off, and stop_all: the thread is told, not waited for.
ToggleOff(r) ==
    /\ active = r
    /\ active' = NoRun
    /\ stopped' = [stopped EXCEPT ![r] = TRUE]
    /\ UNCHANGED <<multicast, data, audience, pc, vals, seq, todo, last, history>>
-----------------------------------------------------------------------------
(* The other threads of the server.                                        *)

\* A handler thread's set_multiple.
WriteData == /\ data < MaxVersion
             /\ data' = data + 1
             /\ UNCHANGED <<multicast, audience, active, pc, stopped, vals, seq,
                            todo, last, history>>

\* SdListener registers the endpoint, or the client's socket joins the group.
Join(x) == /\ x \notin audience
           /\ audience' = audience \cup {x}
           /\ late' = [r \in Run |-> [late[r] EXCEPT ![x] = 0]]
           /\ UNCHANGED <<multicast, data, active, pc, stopped, vals, seq, todo,
                          last, rounds>>

\* The client closes its socket and drops its EventSubscription, and
\* SdListener removes the endpoint.
Leave(x) == /\ x \in audience
            /\ audience' = audience \ {x}
            /\ last' = [last EXCEPT ![x] = NoDatagram]
            /\ UNCHANGED <<multicast, data, active, pc, stopped, vals, seq, todo,
                           history>>
-----------------------------------------------------------------------------
(* The publisher thread.                                                   *)

\* Mutant: the loop looks at the table instead of its own stop_evt.
FinishWhenOff(r) == /\ pc[r] = "loop" /\ stopped[r] /\ active = NoRun
                    /\ pc' = [pc EXCEPT ![r] = "closed"]
                    /\ UNCHANGED <<multicast, server, stopped, vals, seq, todo, last, history>>

\* The loop ends at its head once stop_evt is set, and the thread with it.
Finish(r) == /\ pc[r] = "loop" /\ stopped[r]
             /\ pc' = [pc EXCEPT ![r] = "closed"]
             /\ vals' = [vals EXCEPT ![r] = 0]
             /\ seq' = [seq EXCEPT ![r] = 0]
             /\ rounds' = [rounds EXCEPT ![r] = 0]
             /\ late' = [late EXCEPT ![r] = [x \in Subscriber |-> 0]]
             /\ UNCHANGED <<multicast, server, stopped, todo, last>>

\* Mutant: stop_evt is not looked at before a round.
DueAnyway(r) == /\ pc[r] = "loop"
                /\ pc' = [pc EXCEPT ![r] = "due"]
                /\ UNCHANGED <<multicast, server, stopped, vals, seq, todo, last, history>>

\* The period is over, and stop_evt was clear when the loop looked at it.
Due(r) == /\ pc[r] = "loop" /\ ~stopped[r]
          /\ pc' = [pc EXCEPT ![r] = "due"]
          /\ UNCHANGED <<multicast, server, stopped, vals, seq, todo, last, history>>

\* Mutant: the snapshot is taken once, when the publisher starts.
SnapshotOnce(r) == /\ pc[r] = "due"
                   /\ rounds' = [rounds EXCEPT ![r] = IF stopped[r] THEN @ + 1 ELSE 0]
                   /\ pc' = [pc EXCEPT ![r] = "encode"]
                   /\ UNCHANGED <<multicast, server, stopped, vals, seq, todo, last, late>>

\* database.get_subset.
Snapshot(r) == /\ pc[r] = "due"
               /\ vals' = [vals EXCEPT ![r] = data]
               /\ rounds' = [rounds EXCEPT ![r] = IF stopped[r] THEN @ + 1 ELSE 0]
               /\ pc' = [pc EXCEPT ![r] = "encode"]
               /\ UNCHANGED <<multicast, server, stopped, seq, todo, last, late>>

\* Mutant: the counter is not masked.
SeqUnmasked(n) == n + 1
NextSeq(n) == (n + 1) % SeqMod

\* What subscriber x has decoded last, once r's datagram has reached it.
Receipt(r) == [run |-> r, seq |-> seq'[r], vals |-> vals[r]]

\* Unicast: the datagram is built, the registry is copied under its lock.
CopyRegistry(r) == /\ pc[r] = "encode" /\ ~multicast
                   /\ seq' = [seq EXCEPT ![r] = NextSeq(@)]
                   /\ todo' = [todo EXCEPT ![r] = audience]
                   /\ pc' = [pc EXCEPT ![r] = "send"]
                   /\ UNCHANGED <<multicast, server, stopped, vals, last, history>>

\* Mutants: a failing address ends the loop; an address is tried twice.
SendUntilError(r, x) ==
    /\ pc[r] = "send" /\ x \in todo[r]
    /\ late' = [late EXCEPT ![r][x] = IF x \in audience THEN 0 ELSE @ + 1]
    /\ \/ /\ x \in audience
          /\ last' = [last EXCEPT ![x] = [run |-> r, seq |-> seq[r], vals |-> vals[r]]]
          /\ todo' = [todo EXCEPT ![r] = @ \ {x}]
       \/ /\ x \in Flaky \/ x \notin audience
          /\ last' = last
          /\ todo' = [todo EXCEPT ![r] = {}]
    /\ UNCHANGED <<multicast, server, pc, stopped, vals, seq, rounds>>
SendTwice(r, x) ==
    /\ pc[r] = "send" /\ x \in todo[r]
    /\ todo' = [todo EXCEPT ![r] = IF late[r][x] = 1 THEN @ \ {x} ELSE @]
    /\ late' = [late EXCEPT ![r][x] = IF x \in audience THEN 0 ELSE @ + 1]
    /\ \/ /\ x \in audience
          /\ last' = [last EXCEPT ![x] = [run |-> r, seq |-> seq[r], vals |-> vals[r]]]
       \/ /\ x \in Flaky \/ x \notin audience
          /\ last' = last
    /\ UNCHANGED <<multicast, server, pc, stopped, vals, seq, rounds>>

\* _sendto to one address of the copy; an OSError is swallowed.  Nobody has
\* the socket of a subscriber that has left.
SendTo(r, x) ==
    /\ pc[r] = "send" /\ x \in todo[r]
    /\ todo' = [todo EXCEPT ![r] = @ \ {x}]
    /\ late' = [late EXCEPT ![r][x] = IF x \in audience THEN 0 ELSE @ + 1]
    /\ \/ /\ x \in audience
          /\ last' = [last EXCEPT ![x] = [run |-> r, seq |-> seq[r], vals |-> vals[r]]]
       \/ /\ x \in Flaky \/ x \notin audience
          /\ last' = last
    /\ UNCHANGED <<multicast, server, pc, stopped, vals, seq, rounds>>

EndRound(r) == /\ pc[r] = "send" /\ todo[r] = {}
               /\ pc' = [pc EXCEPT ![r] = "loop"]
               /\ UNCHANGED <<multicast, server, stopped, vals, seq, todo, last, history>>

\* Multicast: one _sendto, which reaches the members of the group or some.
SendMulticast(r) ==
    /\ pc[r] = "encode" /\ multicast
    /\ seq' = [seq EXCEPT ![r] = NextSeq(@)]
    /\ \E reached \in SUBSET audience :
          /\ audience \ reached \subseteq Flaky
          /\ last' = [x \in Subscriber |->
                         IF x \in reached THEN Receipt(r) ELSE last[x]]
    /\ pc' = [pc EXCEPT ![r] = "loop"]
    /\ UNCHANGED <<multicast, server, stopped, vals, todo, history>>

Publish(r) == \/ Finish(r) \/ Due(r) \/ Snapshot(r) \/ CopyRegistry(r)
              \/ EndRound(r) \/ SendMulticast(r)
              \/ \E x \in Subscriber : SendTo(r, x)

Next == \/ \E r \in Run : ToggleOn(r) \/ ToggleOff(r) \/ Publish(r)
        \/ \E x \in Subscriber : Join(x) \/ Leave(x)
        \/ WriteData

Spec == Init /\ [][Next]_vars

\* A publisher thread is scheduled and its periods pass.
FairSpec == Spec /\ \A r \in Run : WF_vars(Publish(r))
-----------------------------------------------------------------------------
Running(r) == pc[r] \notin {"unused", "closed"}

\* A publisher that nobody has stopped is the one the menu can stop: two
\* toggles never leave a second publisher of the event behind.
NoOrphan == \A r \in Run : Running(r) /\ ~stopped[r] <=> active = r

\* stop_evt may be set just after the loop looked at it, so a stopped
\* publisher may begin a round, but never a second one.
OneRoundAfterStop == \A r \in Run : rounds[r] <= 1

\* The copy of the registry may be stale while it is worked off: a subscriber
\* that has left gets at most one more datagram from a publisher.
OneLateDatagram == \A r \in Run, x \in Subscriber : late[r][x] <= 1

\* From one publisher a subscriber sees the signals in the order in which the
\* database had them, and unless datagrams are lost it misses no session
\* number: a gap in the numbers is a lost datagram, also across the wrap.
StreamInOrder ==
    [][\A x \in Subscriber :
          last'[x] # last[x] /\ last'[x].run = last[x].run
          => /\ last'[x].vals >= last[x].vals
             /\ x \in Flaky \/ last'[x].seq = NextSeq(last[x].seq)]_vars

\* "All subscribers receive updated state", docs/architecture.md:237, while
\* they stay and the event stays switched on, whether or not sendto fails for
\* some other subscriber.
UpdateReachesSubscribers ==
    \A x \in Subscriber \ Flaky, v \in Version :
        data = v /\ x \in audience /\ active # NoRun
        ~> last[x].vals >= v \/ x \notin audience \/ active = NoRun

\* A publisher that was told to stop closes its socket and ends.
StoppedEnds == \A r \in Run : stopped[r] ~> pc[r] = "closed"
=============================================================================

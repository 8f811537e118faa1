--------------------------- MODULE ServerLifecycle ---------------------------
(***************************************************************************)
(* The servers that the menu of tui.py starts and stops one after another: *)
(* start_infrastructure and stop_all of ServerContext, run by the menu     *)
(* thread, and the threads they leave to themselves: the accept loop of    *)
(* every TcpServer, SdAnnouncer.run and SdListener.run.  The publishers    *)
(* are in module EventPublisher, what a handler does in TcpMethods.        *)
(*                                                                         *)
(* A loop looks at its stop event at its head and then waits: half a       *)
(* second for a connection or a datagram, or for its next offer.           *)
(***************************************************************************)
EXTENDS Naturals

CONSTANTS Server,      \* the ServerContexts, one per choice in menu_server
          Port,        \* the TCP ports of the routes
          SdThread,    \* the announcer and the listener
          Conn,        \* the connections that clients ever try to open
          NoServer

Thread == Port \cup SdThread

ASSUME LifecycleAssumption == NoServer \notin Server /\ Port \cap SdThread = {}

VARIABLES menu,        \* the ServerContext the menu thread is busy with
          phase,       \* per server: how far the menu thread is with it
          loop,        \* per server: where its threads are
          halted,      \* per server: the threads whose stop event is set
          conn,        \* per connection: its state
          at,          \* per connection: the listening socket it reached
          clean,       \* history, per server: whether no accept loop of
                       \* another server was alive when it was started
          late         \* history, per thread: what it did after its stop

clients == <<conn, at>>
vars    == <<menu, phase, loop, halted, clients, clean, late>>

TypeOK ==
    /\ menu \in Server \cup {NoServer}
    /\ phase \in [Server -> {"unused", "starting", "up", "stopping", "stopped"}]
    /\ loop \in [Server -> [Thread -> {"none", "binding", "head", "wait",
                                       "failed", "ended"}]]
    /\ halted \in [Server -> SUBSET Thread]
    /\ conn \in [Conn -> {"unused", "queued", "served", "refused", "reset"}]
    /\ at \in [Conn -> (Server \X Port) \cup {NoServer}]
    /\ clean \in [Server -> BOOLEAN]
    /\ late \in [Server -> [Thread -> Nat]]

Init == /\ menu = NoServer
        /\ phase = [s \in Server |-> "unused"]
        /\ loop = [s \in Server |-> [x \in Thread |-> "none"]]
        /\ halted = [s \in Server |-> {}]
        /\ conn = [c \in Conn |-> "unused"]
        /\ at = [c \in Conn |-> NoServer]
        /\ clean = [s \in Server |-> FALSE]
        /\ late = [s \in Server |-> [x \in Thread |-> 0]]

Alive(s, x)     == loop[s][x] \in {"binding", "head", "wait"}
Listening(s, p) == loop[s][p] \in {"head", "wait"}
Queued(s, p)    == {c \in Conn : conn[c] = "queued" /\ at[c] = <<s, p>>}
-----------------------------------------------------------------------------
(* The menu thread.                                                        *)

\* Automatic or Manual is chosen: a ServerContext of its own.
Start(s) ==
    /\ menu = NoServer /\ phase[s] = "unused"
    /\ menu' = s
    /\ phase' = [phase EXCEPT ![s] = "starting"]
    /\ clean' = [clean EXCEPT ![s] = \A t \in Server, p \in Port : ~Alive(t, p)]
    /\ UNCHANGED <<loop, halted, clients, late>>

\* TcpServer.start, then the SD threads.  A TCP socket is bound by its own
\* thread; the UDP sockets share their port and always bind.
StartThread(s, x) ==
    /\ phase[s] = "starting" /\ loop[s][x] = "none"
    /\ x \notin Port => \A p \in Port : loop[s][p] # "none"
    /\ loop' = [loop EXCEPT ![s][x] = IF x \in Port THEN "binding" ELSE "head"]
    /\ UNCHANGED <<menu, phase, halted, clients, clean, late>>

Started(s) ==
    /\ phase[s] = "starting" /\ \A x \in Thread : loop[s][x] # "none"
    /\ phase' = [phase EXCEPT ![s] = "up"]
    /\ UNCHANGED <<menu, loop, halted, clients, clean, late>>

\* stop_all: the stop event of the ServerContext, which the SD threads share.
StopAll(s) ==
    /\ phase[s] = "up"
    /\ phase' = [phase EXCEPT ![s] = "stopping"]
    /\ halted' = [halted EXCEPT ![s] = SdThread]
    /\ UNCHANGED <<menu, loop, clients, clean, late>>

\* srv.stop, for one server after the other.
StopPort(s, p) ==
    /\ phase[s] = "stopping" /\ p \notin halted[s]
    /\ halted' = [halted EXCEPT ![s] = @ \cup {p}]
    /\ UNCHANGED <<menu, phase, loop, clients, clean, late>>

\* Mutant: stop_all leaves the TCP servers alone.
StoppedEarly(s) ==
    /\ phase[s] = "stopping"
    /\ phase' = [phase EXCEPT ![s] = "stopped"]
    /\ menu' = NoServer
    /\ UNCHANGED <<loop, halted, clients, clean, late>>

\* "Server stopped.": no thread has been waited for.
Stopped(s) ==
    /\ phase[s] = "stopping" /\ Port \subseteq halted[s]
    /\ phase' = [phase EXCEPT ![s] = "stopped"]
    /\ menu' = NoServer
    /\ UNCHANGED <<loop, halted, clients, clean, late>>

MenuStep(s) == \/ \E x \in Thread : StartThread(s, x)
               \/ Started(s)
               \/ \E p \in Port : StopPort(s, p)
               \/ Stopped(s)
-----------------------------------------------------------------------------
(* The threads of a server.                                                *)

\* Mutant: without SO_REUSEADDR the connections served last keep the port.
TakenNoReuse(s, p) == \E t \in Server \ {s} :
                         \/ Listening(t, p)
                         \/ \E c \in Conn : conn[c] = "served" /\ at[c] = <<t, p>>

\* With SO_REUSEADDR only another listening socket is in the way.
Taken(s, p) == \E t \in Server \ {s} : Listening(t, p)

\* srv.bind and srv.listen.
Bind(s, p) ==
    /\ loop[s][p] = "binding" /\ ~Taken(s, p)
    /\ loop' = [loop EXCEPT ![s][p] = "head"]
    /\ UNCHANGED <<menu, phase, halted, clients, clean, late>>

\* bind raises in the thread; TcpServer.start has returned long ago.
BindFails(s, p) ==
    /\ loop[s][p] = "binding" /\ Taken(s, p)
    /\ loop' = [loop EXCEPT ![s][p] = "failed"]
    /\ UNCHANGED <<menu, phase, halted, clients, clean, late>>

\* Mutant: the stop event is not looked at.
WaitAnyway(s, x) ==
    /\ loop[s][x] = "head"
    /\ loop' = [loop EXCEPT ![s][x] = "wait"]
    /\ UNCHANGED <<menu, phase, halted, clients, clean, late>>

\* The stop event was clear when the loop looked at it.
Wait(s, x) ==
    /\ loop[s][x] = "head" /\ x \notin halted[s]
    /\ loop' = [loop EXCEPT ![s][x] = "wait"]
    /\ UNCHANGED <<menu, phase, halted, clients, clean, late>>

\* Mutant: a connection that is still queued is forgotten.
FinishSilently(s, x) ==
    /\ loop[s][x] = "head" /\ x \in halted[s]
    /\ loop' = [loop EXCEPT ![s][x] = "ended"]
    /\ UNCHANGED <<menu, phase, halted, clients, clean, late>>

\* The loop ends and closes its socket; the kernel resets what is queued.
Finish(s, x) ==
    /\ loop[s][x] = "head" /\ x \in halted[s]
    /\ loop' = [loop EXCEPT ![s][x] = "ended"]
    /\ conn' = [c \in Conn |-> IF c \in Queued(s, x) THEN "reset" ELSE conn[c]]
    /\ late' = [late EXCEPT ![s][x] = 0]
    /\ UNCHANGED <<menu, phase, halted, at, clean>>

\* Half a second, or a part of the announcer's period, has passed.
Idle(s, x) ==
    /\ loop[s][x] = "wait" /\ Queued(s, x) = {}
    /\ loop' = [loop EXCEPT ![s][x] = "head"]
    /\ UNCHANGED <<menu, phase, halted, clients, clean, late>>

Count(s, x) == late' = [late EXCEPT ![s][x] = IF x \in halted[s] THEN @ + 1 ELSE 0]

\* The connection gets a handler thread.
Accept(s, p, c) ==
    /\ loop[s][p] = "wait" /\ c \in Queued(s, p)
    /\ loop' = [loop EXCEPT ![s][p] = "head"]
    /\ conn' = [conn EXCEPT ![c] = "served"]
    /\ Count(s, p)
    /\ UNCHANGED <<menu, phase, halted, at, clean>>

\* The announcer sends an offer, the listener handles a datagram.
SdRound(s, x) ==
    /\ x \in SdThread /\ loop[s][x] = "wait"
    /\ loop' = [loop EXCEPT ![s][x] = "head"]
    /\ Count(s, x)
    /\ UNCHANGED <<menu, phase, halted, clients, clean>>

ThreadStep(s, x) == \/ Wait(s, x) \/ Finish(s, x) \/ Idle(s, x) \/ SdRound(s, x)
                    \/ x \in Port /\ (Bind(s, x) \/ BindFails(s, x))
                    \/ \E c \in Conn : x \in Port /\ Accept(s, x, c)
-----------------------------------------------------------------------------
(* The clients.                                                            *)

\* Mutant: the connection reaches the server that the menu runs.
ConnectAnywhere(c, p) ==
    /\ conn[c] = "unused"
    /\ conn' = [conn EXCEPT ![c] = "queued"]
    /\ at' = [at EXCEPT ![c] = <<menu, p>>]
    /\ UNCHANGED <<menu, phase, loop, halted, clean, late>>

\* The kernel queues the connection at the listening socket of the port, if
\* there is one, whether or not its loop will still accept it.
Connect(c, p) ==
    /\ conn[c] = "unused"
    /\ \/ \E s \in Server : /\ Listening(s, p)
                            /\ conn' = [conn EXCEPT ![c] = "queued"]
                            /\ at' = [at EXCEPT ![c] = <<s, p>>]
       \/ /\ \A s \in Server : ~Listening(s, p)
          /\ conn' = [conn EXCEPT ![c] = "refused"]
          /\ at' = at
    /\ UNCHANGED <<menu, phase, loop, halted, clean, late>>

Next == \/ \E s \in Server : Start(s) \/ StopAll(s) \/ MenuStep(s)
        \/ \E s \in Server, x \in Thread : ThreadStep(s, x)
        \/ \E c \in Conn, p \in Port : Connect(c, p)

Spec == Init /\ [][Next]_vars

\* The menu thread brings a start or a stop to its end, a loop's waiting is
\* over some time; nobody has to start or stop a server.
FairSpec == Spec /\ \A s \in Server : /\ WF_vars(MenuStep(s))
                                      /\ \A x \in Thread : WF_vars(ThreadStep(s, x))
-----------------------------------------------------------------------------
\* A stop event may be set just after its loop looked at it: a stopped server
\* still accepts one connection per port, sends one offer and handles one SD
\* datagram, and never a second one.
OneLateRound == \A s \in Server, x \in Thread : late[s][x] <= 1

\* A server that was started when no accept loop of another one was alive gets
\* all its ports, unless it is stopped before its thread comes to bind.
CleanStartServes ==
    \A s \in Server, p \in Port :
        clean[s] /\ loop[s][p] = "failed" => p \in halted[s]

\* Nobody joins the threads of a stopped server; they end by themselves and
\* give the ports back.
StoppedServersEnd ==
    \A s \in Server, x \in Thread :
        phase[s] = "stopped" ~> loop[s][x] \in {"ended", "failed"}

\* A client whose connection was queued is served or told, also when the loop
\* ends that should have accepted it.
QueuedIsAnswered == \A c \in Conn : conn[c] = "queued" ~> conn[c] # "queued"

\* "TCP methods are always served; they cannot be toggled off." (README.md:170):
\* while a server is up every one of its ports has an accept loop, or a thread
\* that is about to bind.
AlwaysServed == \A s \in Server, p \in Port :
                    phase[s] = "up" => Alive(s, p)
=============================================================================

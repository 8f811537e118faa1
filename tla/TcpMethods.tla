----------------------------- MODULE TcpMethods -----------------------------
(***************************************************************************)
(* Method calls over TCP: _tcp_call on the client's side, the accept loop  *)
(* of TcpServer and one handler thread per connection on the server's.     *)
(* _tcp_handler (apps/node.py) confirms the values it decoded,             *)
(* _tcp_handler_with_db (apps/tui.py) reads the database again: program    *)
(* says which of the two programs the server is.                           *)
(*                                                                         *)
(* Every call opens a connection of its own, which one handler thread      *)
(* serves, so a call names all three.  A value is named by the call that   *)
(* wrote it.  A request may be one that only a peer with another catalog   *)
(* sends: its defect says what the handler will find wrong with it.        *)
(***************************************************************************)
EXTENDS Naturals, Sequences

CONSTANTS Client, Signal, Method,
          Call,        \* the calls the clients may ever make
          CallerOf,    \* the client that makes a call
          SigsOf,      \* the signals of a method
          Routed,      \* the methods of the server's routing table
          Protected,   \* the methods with E2E protection
          Requests,    \* the requests a call may be: method and defect
          Programs,    \* the programs the server may be: "node", "tui"
          NoCall       \* the writer of the catalog's defaults

Request == [method : Method,
            defect : {"none", "not_request", "crc", "counter", "short"}]

ASSUME MethodsAssumption ==
    /\ CallerOf \in [Call -> Client]
    /\ Method # {} /\ SigsOf \in [Method -> SUBSET Signal]
    /\ Routed \subseteq Method /\ Protected \subseteq Method
    /\ Requests \in [Call -> SUBSET Request]
    /\ \A i \in Call : Requests[i] # {}
    /\ Programs \subseteq {"node", "tui"}
    /\ NoCall \notin Call

VARIABLES program,     \* the server's program
          stage,       \* per call: how far its _tcp_call is
          request,     \* per call: method and defect of its request
          inbox,       \* per call: sent and not yet read by the handler
          handler,     \* per call: how far its handler thread is
          answer,      \* per call: the values the handler will confirm
          reply,       \* per call: what the server has sent back
          data,        \* the signal values of the server
          log          \* history: every valuation the server has had

vars == <<program, stage, request, inbox, handler, answer, reply, data, log>>

Valuation == [Signal -> Call \cup {NoCall}]
Defaults  == [s \in Signal |-> NoCall]
Reply     == [kind : {"nothing", "response", "error"}, vals : Valuation]
NoReply   == [kind |-> "nothing", vals |-> Defaults]

Ended == {"response", "error", "timeout", "closed"}

TypeOK ==
    /\ program \in Programs
    /\ stage \in [Call -> {"unused", "connected", "sent"} \cup Ended]
    /\ request \in [Call -> Request]
    /\ inbox \in [Call -> BOOLEAN]
    /\ handler \in [Call -> {"none", "backlog", "recv", "written", "reply",
                             "ended"}]
    /\ answer \in [Call -> Valuation]
    /\ reply \in [Call -> Reply]
    /\ data \in Valuation
    /\ log \in Seq(Valuation)

Init == /\ program \in Programs
        /\ stage = [i \in Call |-> "unused"]
        /\ request = [i \in Call |-> CHOOSE r \in Requests[i] : TRUE]
        /\ inbox = [i \in Call |-> FALSE]
        /\ handler = [i \in Call |-> "none"]
        /\ answer = [i \in Call |-> Defaults]
        /\ reply = [i \in Call |-> NoReply]
        /\ data = Defaults
        /\ log = <<Defaults>>

Sigs(i) == SigsOf[request[i].method]

\* Mutant: the decoded values replace the dictionary.
OverlayReplaces(d, i) == [s \in Sigs(i) |-> i]

\* What decode finds in the request of call i, as a write of the database.
Overlay(d, i) == [s \in Signal |-> IF s \in Sigs(i) THEN i ELSE d[s]]

\* get_subset: the signals of the method, and nothing of the others.
Subset(d, i) == [s \in Signal |-> IF s \in Sigs(i) THEN d[s] ELSE NoCall]

\* The client has left _tcp_call and dropped its socket.
Gone(i) == stage[i] \in Ended
-----------------------------------------------------------------------------
(* The client.                                                             *)

\* sock.connect succeeds as soon as the kernel has queued the connection.
Connect(i) ==
    /\ stage[i] = "unused"
    /\ \A j \in Call : CallerOf[j] = CallerOf[i] =>
          stage[j] \in {"unused"} \cup Ended
    /\ stage' = [stage EXCEPT ![i] = "connected"]
    /\ \E r \in Requests[i] : request' = [request EXCEPT ![i] = r]
    /\ handler' = [handler EXCEPT ![i] = "backlog"]
    /\ UNCHANGED <<program, inbox, answer, reply, data, log>>

Send(i) ==
    /\ stage[i] = "connected"
    /\ stage' = [stage EXCEPT ![i] = "sent"]
    /\ inbox' = [inbox EXCEPT ![i] = TRUE]
    /\ UNCHANGED <<program, request, handler, answer, reply, data, log>>

\* recv_someip returns; anything but a RESPONSE raises.
Receive(i) ==
    /\ stage[i] = "sent" /\ reply[i].kind # "nothing"
    /\ stage' = [stage EXCEPT ![i] = reply[i].kind]
    /\ UNCHANGED <<program, request, inbox, handler, answer, reply, data, log>>

\* The socket's timeout expires in send or recv; a late answer is not read.
TimeOut(i) ==
    /\ stage[i] \in {"connected", "sent"}
    /\ stage' = [stage EXCEPT ![i] = "timeout"]
    /\ UNCHANGED <<program, request, inbox, handler, answer, reply, data, log>>

\* recv finds that the handler thread has closed the connection.
PeerClosed(i) ==
    /\ stage[i] = "sent" /\ handler[i] = "ended" /\ reply[i].kind = "nothing"
    /\ stage' = [stage EXCEPT ![i] = "closed"]
    /\ UNCHANGED <<program, request, inbox, handler, answer, reply, data, log>>
-----------------------------------------------------------------------------
(* The server.                                                             *)

\* The accept loop hands the connection to a new handler thread.
Accept(i) ==
    /\ handler[i] = "backlog"
    /\ handler' = [handler EXCEPT ![i] = "recv"]
    /\ UNCHANGED <<program, stage, request, inbox, answer, reply, data, log>>

Reading(i) == handler[i] = "recv" /\ inbox[i]
Known(i)   == request[i].defect # "not_request" /\ request[i].method \in Routed
Intact(i)  == request[i].method \in Protected =>
                 request[i].defect \notin {"crc", "counter"}

\* Not a request, or its E2E header is wrong: the loop goes round silently.
Drop(i) ==
    /\ Reading(i)
    /\ request[i].defect = "not_request" \/ (Known(i) /\ ~Intact(i))
    /\ inbox' = [inbox EXCEPT ![i] = FALSE]
    /\ UNCHANGED <<program, stage, request, handler, answer, reply, data, log>>

\* No route: an MT_ERROR goes back and the handler waits for more.
Reject(i) ==
    /\ Reading(i)
    /\ request[i].defect # "not_request" /\ request[i].method \notin Routed
    /\ inbox' = [inbox EXCEPT ![i] = FALSE]
    /\ reply' = [reply EXCEPT ![i] = [kind |-> "error", vals |-> Defaults]]
    /\ UNCHANGED <<program, stage, request, handler, answer, data, log>>

\* Mutant: the signals decoded before the error are stored all the same.
DieWriting(i) ==
    /\ Reading(i) /\ Known(i) /\ Intact(i) /\ request[i].defect = "short"
    /\ inbox' = [inbox EXCEPT ![i] = FALSE]
    /\ handler' = [handler EXCEPT ![i] = "ended"]
    /\ data' = Overlay(data, i)
    /\ log' = Append(log, data')
    /\ UNCHANGED <<program, stage, request, answer, reply>>

\* decode raises on a short payload; _handle_one closes the connection.
DieDecoding(i) ==
    /\ Reading(i) /\ Known(i) /\ Intact(i) /\ request[i].defect = "short"
    /\ inbox' = [inbox EXCEPT ![i] = FALSE]
    /\ handler' = [handler EXCEPT ![i] = "ended"]
    /\ UNCHANGED <<program, stage, request, answer, reply, data, log>>

\* Mutant: the answer is taken before the write.
WriteLast(i) ==
    /\ Reading(i) /\ Known(i) /\ Intact(i) /\ request[i].defect # "short"
    /\ inbox' = [inbox EXCEPT ![i] = FALSE]
    /\ data' = Overlay(data, i)
    /\ log' = Append(log, data')
    /\ answer' = [answer EXCEPT ![i] = Subset(data, i)]
    /\ handler' = [handler EXCEPT ![i] = "reply"]
    /\ UNCHANGED <<program, stage, request, reply>>

\* The locked section that stores the decoded values.  The node's handler
\* will encode those very values, the tui's handler has still to read.
Write(i) ==
    /\ Reading(i) /\ Known(i) /\ Intact(i) /\ request[i].defect # "short"
    /\ inbox' = [inbox EXCEPT ![i] = FALSE]
    /\ data' = Overlay(data, i)
    /\ log' = Append(log, data')
    /\ answer' = [answer EXCEPT ![i] = Subset(data', i)]
    /\ handler' = [handler EXCEPT ![i] = IF program = "tui" THEN "written" ELSE "reply"]
    /\ UNCHANGED <<program, stage, request, reply>>

\* Mutant: the values read back do not depend on the request's signals.
ReadBackAll(i) ==
    /\ handler[i] = "written"
    /\ answer' = [answer EXCEPT ![i] = data]
    /\ handler' = [handler EXCEPT ![i] = "reply"]
    /\ UNCHANGED <<program, stage, request, inbox, reply, data, log>>

\* database.get_subset, a locked section of its own.
ReadBack(i) ==
    /\ handler[i] = "written"
    /\ answer' = [answer EXCEPT ![i] = Subset(data, i)]
    /\ handler' = [handler EXCEPT ![i] = "reply"]
    /\ UNCHANGED <<program, stage, request, inbox, reply, data, log>>

\* send_someip; when the client has gone the bytes are lost.
Respond(i) ==
    /\ handler[i] = "reply"
    /\ reply' = [reply EXCEPT ![i] = [kind |-> "response", vals |-> answer[i]]]
    /\ handler' = [handler EXCEPT ![i] = "recv"]
    /\ UNCHANGED <<program, stage, request, inbox, answer, data, log>>

\* Mutant: the loop goes on after a ConnectionError as after any other.
HangUpNever(i) ==
    /\ Gone(i)
    /\ handler[i] = "recv" /\ ~inbox[i]
    /\ UNCHANGED vars

\* The peer has closed: recv raises ConnectionError (or the send did), the
\* handler returns and _handle_one closes the connection.
HangUp(i) ==
    /\ Gone(i)
    /\ \/ handler[i] = "recv" /\ ~inbox[i]
       \/ handler[i] = "reply"
    /\ handler' = [handler EXCEPT ![i] = "ended"]
    /\ UNCHANGED <<program, stage, request, inbox, answer, reply, data, log>>

ServeStep(i) == \/ Accept(i) \/ Drop(i) \/ Reject(i) \/ DieDecoding(i)
                \/ Write(i) \/ ReadBack(i) \/ Respond(i) \/ HangUp(i)

ClientStep(i) == Send(i) \/ Receive(i) \/ TimeOut(i) \/ PeerClosed(i)

Next == \E i \in Call : Connect(i) \/ ClientStep(i) \/ ServeStep(i)

Spec == Init /\ [][Next]_vars

\* Every thread that can take a step takes one; nobody has to make a call.
FairSpec == Spec /\ \A i \in Call : WF_vars(ServeStep(i)) /\ WF_vars(ClientStep(i))
-----------------------------------------------------------------------------
\* "Server responds with the values that were written (confirmation)",
\* docs/architecture.md:113.
ConfirmsWhatWasWritten ==
    \A i \in Call : reply[i].kind = "response" =>
        \A s \in Sigs(i) : reply[i].vals[s] = i

\* What the documentation promises holds of the handler of node.py, which
\* encodes the values it has decoded and not what the database has by then.
ConfirmsOnNode == program = "node" => ConfirmsWhatWasWritten

\* The valuations the server had from the write of call i on.
Since(i) == {log[k] : k \in {j \in 1..Len(log) :
                \E h \in 2..j : log[h] = Overlay(log[h - 1], i)}}

\* A response shows one valuation of the server, all signals at the same
\* instant, and never an instant before the write it confirms.
AnswersFromOneInstant ==
    \A i \in Call : reply[i].kind = "response" =>
        \E d \in Since(i) : reply[i].vals = Subset(d, i)

\* The times call i has changed the server's values.
Applied(i) == {k \in 2..Len(log) : \E s \in Signal :
                   log[k][s] = i /\ log[k - 1][s] # i}

\* A call changes the server once if it was answered, at most once if the
\* client gave up on it, and never if it was refused or its handler died.
EffectMatchesOutcome ==
    \A i \in Call :
        /\ \A j, k \in Applied(i) : j = k
        /\ stage[i] = "response" /\ Sigs(i) # {} => Applied(i) # {}
        /\ stage[i] \in {"error", "closed"} => Applied(i) = {}

\* A client that has left _tcp_call, answered or not, leaves no handler
\* thread and no open connection behind on the server.
HandlersEnd == \A i \in Call : Gone(i) ~> handler[i] = "ended"
=============================================================================

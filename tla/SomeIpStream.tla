---------------------------- MODULE SomeIpStream ----------------------------
(***************************************************************************)
(* One TCP connection, byte by byte: recv_someip and _recv_exact           *)
(* (protocols/someip/stream.py) in the loop of the handler thread          *)
(* (_tcp_handler, apps/node.py; _tcp_handler_with_db, apps/tui.py).        *)
(*                                                                         *)
(* The bytes of the connection are numbered from 1.  recv returns any      *)
(* number of them that is not too much, and an error at any time after the *)
(* peer has gone.                                                          *)
(***************************************************************************)
EXTENDS SignalCodec

CONSTANTS Message,        \* what the peers' build_message may return
          MaxPayload,     \* max_payload, 4096 in the code
          MaxMessages     \* bound: messages sent on the connection

ASSUME StreamAssumption ==
    /\ MaxPayload \in Nat /\ MaxMessages \in Nat
    /\ Message \subseteq Seq(Byte)
    /\ \A m \in Message : Len(m) >= HDR_SIZE /\ LengthField(m) = Len(m) - 8

VARIABLES stream,         \* the bytes sent
          sent,           \* history: the messages sent
          starts,         \* history: the bytes before each message sent
          peer,           \* "open", or "gone": closed, reset or crashed
          read,           \* how many bytes have been read
          at,             \* the bytes before the message being read
          phase,          \* what the handler thread does
          frames          \* history: the messages recv_someip has returned

senderVars   == <<stream, sent, starts, peer>>
receiverVars == <<read, at, phase, frames>>
vars         == <<senderVars, receiverVars>>

TypeOK ==
    /\ stream \in Seq(Byte) /\ sent \in Seq(Message) /\ starts \in Seq(Nat)
    /\ peer \in {"open", "gone"}
    /\ read \in Nat /\ at \in Nat /\ at <= read /\ read <= Len(stream)
    /\ phase \in {"header", "payload", "handle", "ended"}
    /\ frames \in Seq(Seq(Byte))

Init == /\ stream = <<>> /\ sent = <<>> /\ starts = <<>>
        /\ peer = "open"
        /\ read = 0 /\ at = 0 /\ phase = "header" /\ frames = <<>>
-----------------------------------------------------------------------------
(* The peer.                                                               *)

\* send_someip: sendall of one message.
Send(m) ==
    /\ peer = "open" /\ phase # "ended" /\ Len(sent) < MaxMessages
    /\ stream' = stream \o m
    /\ sent' = Append(sent, m)
    /\ starts' = Append(starts, Len(stream))
    /\ UNCHANGED <<peer, receiverVars>>

\* The peer closes its socket, times out within sendall, or crashes.
Leave ==
    /\ peer = "open"
    /\ peer' = "gone"
    /\ UNCHANGED <<stream, sent, starts, receiverVars>>
-----------------------------------------------------------------------------
(* recv_someip.                                                            *)

\* The length field of the message being read.
Length == LengthField(SubSeq(stream, at + 1, at + 8))

\* Where _recv_exact stops: the end of the header, then of the payload.
Goal == at + (IF phase = "header" THEN HDR_SIZE ELSE Length + 8)

\* Mutant: recv is asked for as much as there is.
RecvGreedy ==
    /\ phase \in {"header", "payload"} /\ read < Goal /\ read < Len(stream)
    /\ read' \in (read + 1)..Len(stream)
    /\ UNCHANGED <<senderVars, at, phase, frames>>

\* One recv(n - len(buf)) of _recv_exact.
Recv ==
    /\ phase \in {"header", "payload"} /\ read < Goal /\ read < Len(stream)
    /\ read' \in (read + 1)..Len(stream) /\ read' <= Goal
    /\ UNCHANGED <<senderVars, at, phase, frames>>

HeaderRead == phase = "header" /\ read >= Goal

\* Mutant: a payload of exactly max_payload is refused.
RefusedAtLimit == Length < 8 \/ Length - 8 >= MaxPayload
Refused        == Length < 8 \/ Length - 8 > MaxPayload

\* Mutant: what is left of the message is skipped without having come.
RefuseSkips ==
    /\ HeaderRead /\ Refused
    /\ at' = at + Length + 8
    /\ UNCHANGED <<senderVars, read, phase, frames>>

\* A length out of range: ValueError with the payload still unread; the
\* handler's loop goes round and takes the next sixteen bytes for a header.
RefuseLength ==
    /\ HeaderRead /\ Refused
    /\ at' = read
    /\ UNCHANGED <<senderVars, read, phase, frames>>

AcceptLength ==
    /\ HeaderRead /\ ~Refused
    /\ phase' = "payload"
    /\ UNCHANGED <<senderVars, read, at, frames>>

\* recv_someip returns the header and the payload.
ReturnMessage ==
    /\ phase = "payload" /\ read >= Goal
    /\ frames' = Append(frames, SubSeq(stream, at + 1, read))
    /\ at' = read
    /\ phase' = "handle"
    /\ UNCHANGED <<senderVars, read>>

\* recv finds the connection closed or reset: ConnectionError, the handler
\* leaves its loop and _handle_one closes the connection.  What the peer has
\* sent may never have left it, so a message may be cut at any byte.
HangUp ==
    /\ phase \in {"header", "payload"} /\ read < Goal
    /\ peer = "gone"
    /\ phase' = "ended"
    /\ UNCHANGED <<senderVars, read, at, frames>>
-----------------------------------------------------------------------------
(* What the handler does with the message is left to the module that       *)
(* composes the stream with it.                                            *)

\* The body of the loop is through and the loop goes round.
Handled == phase = "handle" /\ phase' = "header"

\* An exception leaves the loop, and _handle_one closes the connection.
Raised == phase = "handle" /\ phase' = "ended"

RecvStep == Recv \/ RefuseLength \/ AcceptLength \/ ReturnMessage \/ HangUp

Next == \/ \E m \in Message : Send(m)
        \/ Leave
        \/ RecvStep
        \/ (Handled \/ Raised) /\ UNCHANGED <<senderVars, read, at, frames>>

Spec == Init /\ [][Next]_vars
-----------------------------------------------------------------------------
\* The channel of messages that recv_someip makes of the stream.
Channel == INSTANCE MessageChannel
             WITH taken <- frames,
                  Fitting <- {m \in Message : Len(m) - HDR_SIZE <= MaxPayload}

\* Until a message was refused for its length, the messages recv_someip
\* returns are the messages sent, whole and in order.
ChannelSpec == Channel!Spec
=============================================================================

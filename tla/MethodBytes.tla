---------------------------- MODULE MethodBytes -----------------------------
(***************************************************************************)
(* The handler of apps/node.py on one connection, with the bytes of its    *)
(* requests: _tcp_handler over recv_someip, unwrap, decode, the locked     *)
(* store, encode, wrap and send_someip.  TcpMethods treats the calls of    *)
(* several clients and takes messages as they are meant; here they are     *)
(* what _tcp_call (apps/client.py) makes of the values a user asks for,    *)
(* and the handler has the bytes only.                                     *)
(***************************************************************************)
EXTENDS SomeIpStream

CONSTANTS Signal,         \* the signals of both catalogs
          Routes,         \* the routing table: by service and method id, the
                          \* signals, the protection and the interface version
          Request         \* what the peer may call, and with which defect

\* Noise turns over some bits of the payload on the way.
Damaged(payload, noise) ==
    [k \in 1..Len(payload) |->
        Octet([j \in 1..8 |->
                  LET n == 8 * (k - 1) + j
                  IN  IF n \in noise THEN 1 - BitOf(payload, n) ELSE BitOf(payload, n)])]

\* The payload _tcp_call makes, and the bytes it sends.
Carried(c) == LET core == encode(c.sigs, c.values)
              IN  IF c.protected THEN wrap(core, c.counter) ELSE core

Wire(c) ==
    LET header  == [service |-> c.key[1], method |-> c.key[2], client |-> 1,
                    session |-> c.session, iface |-> 1, type |-> c.type, code |-> 0]
    IN  build_message(header, Damaged(Carried(c), c.noise))

\* A table of them, so that it is computed once.
WireOf == [c \in Request |-> Wire(c)]

ASSUME RequestAssumption ==
    /\ Message = {WireOf[c] : c \in Request}
    /\ (MaxPayload + 8) \div Span("u16") < Span("u16")
    /\ \A c \in Request :
          /\ c.key \in UShort \X UShort /\ c.type \in Byte
          /\ c.session \in UShort /\ c.counter \in UShort
          /\ c.protected \in BOOLEAN
          /\ c.sigs \in Seq(Signal) /\ \A n \in DOMAIN c.values : c.values[n] \in Int
          /\ c.noise \subseteq 1 .. (8 * Len(Carried(c)))

Signals == UNION {{Routes[k].sigs[i] : i \in DOMAIN Routes[k].sigs} : k \in DOMAIN Routes}
Names   == {s.name : s \in Signals}

\* The server's catalog defines a name once; a method may list it twice.
ASSUME CatalogAssumption ==
    /\ \A s \in Signal : IsSignal(s)
    /\ \A s, t \in Signals : s.name = t.name => s = t
    /\ \A k \in DOMAIN Routes : /\ Routes[k].sigs \in Seq(Signal)
                                /\ Routes[k].protected \in BOOLEAN
                                /\ Routes[k].iface \in Int

VARIABLES asked,          \* history: the request of each message sent
          store,          \* the state dictionary
          writes,         \* history: what was stored, and for which message
          replies         \* history: what was answered, and to which message

handlerVars == <<store, writes, replies>>
allVars     == <<vars, asked, handlerVars>>

Valuation == [Names -> Int]

MethodTypeOK ==
    /\ TypeOK
    /\ asked \in Seq(Request) /\ Len(asked) = Len(sent)
    /\ store \in Valuation
    /\ \A i \in DOMAIN writes :
          /\ writes[i].frame \in 1..Len(frames)
          /\ DOMAIN writes[i].values \subseteq Names
    /\ replies \in Seq([frame : 1..Len(frames), bytes : Seq(Byte)])

\* _init_state: the defaults of the catalog.
MethodInit == /\ Init
              /\ asked = <<>>
              /\ store = [n \in Names |-> (CHOOSE s \in Signals : s.name = n).default]
              /\ writes = <<>> /\ replies = <<>>
-----------------------------------------------------------------------------
(* What the handler makes of a message: its header, its payload, its route. *)
Hdr(f)   == unpack(f)
Body(f)  == Payload(f)
Key(f)   == <<Hdr(f).service, Hdr(f).method>>
Known(f) == Hdr(f).type = 0 /\ Key(f) \in DOMAIN Routes
Route(f) == Routes[Key(f)]

\* Mutant: a protected message is told by its counter alone.
AcceptedByCounter(f) ==
    Route(f).protected => Len(Body(f)) >= 4 /\ Counter(Body(f)) = Hdr(f).session

\* unwrap does not raise, and the counter is the session of the header.
Accepted(f) == Route(f).protected => Intact(Body(f)) /\ Counter(Body(f)) = Hdr(f).session

\* What decode works on, and what it returns.
RequestCore(f) == IF Route(f).protected THEN Core(Body(f)) ELSE Body(f)
Decodes(f)     == CanDecode(Route(f).sigs, RequestCore(f))
Values(f)      == decode(Route(f).sigs, RequestCore(f))

\* No route: the header goes back with MT_ERROR and no payload.
Rejection(f) == build_message([Hdr(f) EXCEPT !.type = 129, !.code = 1], <<>>)

\* The values are sent back as they were decoded.
Response(f) ==
    LET core == encode(Route(f).sigs, Values(f))
    IN  build_message([Hdr(f) EXCEPT !.iface = Route(f).iface, !.type = 128, !.code = 0],
                      IF Route(f).protected THEN wrap(core, Hdr(f).session) ELSE core)
-----------------------------------------------------------------------------
\* The message at hand.
Frame == frames[Len(frames)]

\* send_someip; once the peer has gone it may raise, and the handler ends.
Answer(m) ==
    \/ /\ replies' = Append(replies, [frame |-> Len(frames), bytes |-> m])
       /\ Handled
    \/ peer = "gone" /\ Raised /\ UNCHANGED replies

\* Not a request, or the E2E trailer is wrong: the loop goes round.
Ignore == /\ Handled
          /\ Hdr(Frame).type # 0 \/ (Known(Frame) /\ ~Accepted(Frame))
          /\ UNCHANGED handlerVars

Reject == /\ phase = "handle" /\ Hdr(Frame).type = 0 /\ Key(Frame) \notin DOMAIN Routes
          /\ Answer(Rejection(Frame))
          /\ UNCHANGED <<store, writes>>

\* decode raises on a short payload.
Fail == /\ Raised
        /\ Known(Frame) /\ Accepted(Frame) /\ ~Decodes(Frame)
        /\ UNCHANGED handlerVars

\* The values are stored and sent back.
Serve ==
    /\ phase = "handle" /\ Known(Frame) /\ Accepted(Frame) /\ Decodes(Frame)
    /\ LET values == Values(Frame)
       IN  /\ store' = [n \in Names |-> IF n \in DOMAIN values THEN values[n] ELSE store[n]]
           /\ writes' = Append(writes, [frame |-> Len(frames), values |-> values])
    /\ Answer(Response(Frame))

Handle == /\ Ignore \/ Reject \/ Fail \/ Serve
          /\ UNCHANGED <<senderVars, read, at, frames, asked>>

MethodNext ==
    \/ \E c \in Request : Send(WireOf[c]) /\ asked' = Append(asked, c) /\ UNCHANGED handlerVars
    \/ (Leave \/ RecvStep) /\ UNCHANGED <<asked, handlerVars>>
    \/ Handle

MethodSpec == MethodInit /\ [][MethodNext]_allVars

\* The handler thread runs; nobody has to send anything or to leave.  The
\* second conjunct is weak fairness of Handle, which can be taken whenever
\* there is a message at hand and always leaves that state.
FairMethodSpec == /\ MethodSpec
                  /\ WF_allVars(RecvStep /\ UNCHANGED <<asked, handlerVars>>)
                  /\ []<>(phase # "handle")
-----------------------------------------------------------------------------
\* The writes whose message is known to be one of those sent.
Attributed == {i \in DOMAIN writes : Channel!InStep(writes[i].frame)}

\* A server that has the client's catalog stores, for every signal of the
\* call, the value the signal can carry that is nearest to the one asked for.
NearestStored ==
    \A i \in Attributed :
        LET c == asked[writes[i].frame]
            r == Routes[c.key]
        IN  c.sigs = r.sigs /\ c.noise = {} =>
              \A j \in DOMAIN r.sigs :
                  Nearest(r.sigs[j], writes[i].values[r.sigs[j].name],
                          ValueOf(c.values, r.sigs[j]))

\* A burst turns over bits that are close together.
Burst(noise) == \E first \in noise : noise \subseteq first .. (first + 15)

\* A burst of noise on a protected message, and a counter that is not the
\* session's, are found out: nothing is stored.
DamageIsDropped ==
    \A i \in Attributed :
        LET c == asked[writes[i].frame]
        IN  c.protected /\ Routes[c.key].protected /\ (c.noise = {} \/ Burst(c.noise))
              => c.noise = {} /\ c.counter = c.session

NamedOnce(sigs) == \A i, j \in DOMAIN sigs : sigs[i].name = sigs[j].name => i = j

\* Decoding and encoding again loses nothing, whatever the bytes: a response
\* has the ids and the session of its request and, unless the method lists a
\* signal twice, its signal bytes.
EchoExact ==
    \A i \in DOMAIN replies :
        LET q == frames[replies[i].frame]
            p == replies[i].bytes
            r == Route(q)
            Inside(b) == IF r.protected THEN Core(b) ELSE b
        IN  /\ SubSeq(p, 1, 4) = SubSeq(q, 1, 4)
            /\ SubSeq(p, 9, 12) = SubSeq(q, 9, 12)
            /\ LengthField(p) = Len(p) - 8
            /\ Hdr(p).type = 128 =>
                  /\ r.protected => Intact(Payload(p))
                  /\ NamedOnce(r.sigs) =>
                        Inside(Payload(p)) =
                            SubSeq(Inside(Payload(q)), 1, encoded_size(r.sigs))

\* A message that arrives whole while the connection is in step is taken,
\* unless the handler has ended before.
EveryMessageTaken ==
    \A i \in 1..MaxMessages :
        Len(sent) >= i /\ Channel!InStep(i) ~>
            Len(frames) >= i \/ peer = "gone" \/ phase = "ended"
=============================================================================

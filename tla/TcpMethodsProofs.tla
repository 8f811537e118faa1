-------------------------- MODULE TcpMethodsProofs --------------------------
(***************************************************************************)
(* For every set of clients, calls, methods and signals: the node's        *)
(* handler confirms what it wrote, and both handlers answer with one       *)
(* valuation that the server had after the write.                          *)
(***************************************************************************)
EXTENDS TcpMethods, TLAPS

\* A call that has not begun has no connection, no handler and no answer.
FreshOK == \A i \in Call : stage[i] = "unused" =>
               /\ handler[i] = "none" /\ ~inbox[i]
               /\ reply[i].kind = "nothing"

\* There is a request to start with.
LEMMA FirstRequest == ASSUME NEW i \in Call
                     PROVE  (CHOOSE r \in Requests[i] : TRUE) \in Request
<1>1. Requests[i] # {} /\ Requests[i] \subseteq Request
  BY MethodsAssumption
<1> QED BY <1>1

\* What set_multiple leaves is a valuation.
LEMMA OverlayType == ASSUME NEW d \in Valuation, NEW i \in Call
                     PROVE  Overlay(d, i) \in Valuation
  BY DEF Overlay, Valuation

\* What the handler reads back is a valuation.
LEMMA SubsetType == ASSUME NEW d \in Valuation, NEW i
                    PROVE  Subset(d, i) \in Valuation
  BY DEF Subset, Valuation

\* No call has been made.
LEMMA InitType == Init => TypeOK /\ FreshOK
<1> SUFFICES ASSUME Init PROVE TypeOK /\ FreshOK
  OBVIOUS
<1>1. Defaults \in Valuation
  BY DEF Defaults, Valuation
<1>2. NoReply \in Reply
  BY <1>1 DEF NoReply, Reply
<1>3. log \in Seq(Valuation)
  BY <1>1 DEF Init
<1>4. request \in [Call -> Request]
  BY FirstRequest DEF Init
<1>5. reply \in [Call -> Reply]
  BY <1>2 DEF Init
<1>6. answer \in [Call -> Valuation]
  BY <1>1 DEF Init
<1>7. TypeOK
  BY <1>1, <1>3, <1>4, <1>5, <1>6 DEF Init, TypeOK
<1>8. FreshOK
  BY DEF Init, FreshOK, NoReply
<1> QED BY <1>7, <1>8

\* Every step of clients and handlers keeps the types.
LEMMA TypeStep == TypeOK /\ FreshOK /\ [Next]_vars => TypeOK' /\ FreshOK'
<1> SUFFICES ASSUME TypeOK, FreshOK, [Next]_vars PROVE TypeOK' /\ FreshOK'
  OBVIOUS
<1> USE DEF TypeOK
<1>1. ASSUME NEW i \in Call, Connect(i) PROVE TypeOK' /\ FreshOK'
  <2>1. PICK r \in Requests[i] : request' = [request EXCEPT ![i] = r]
    BY <1>1 DEF Connect
  <2>2. r \in Request
    BY <2>1, MethodsAssumption
  <2> QED BY <1>1, <2>1, <2>2 DEF Connect, FreshOK
<1>2. ASSUME NEW i \in Call, Send(i) PROVE TypeOK' /\ FreshOK'
  BY <1>2 DEF Send, FreshOK
<1>3. ASSUME NEW i \in Call, Receive(i) PROVE TypeOK' /\ FreshOK'
  <2>1. reply[i].kind \in {"response", "error"}
    BY <1>3 DEF Receive, Reply
  <2> QED BY <1>3, <2>1 DEF Receive, FreshOK, Ended
<1>4. ASSUME NEW i \in Call, TimeOut(i) PROVE TypeOK' /\ FreshOK'
  BY <1>4 DEF TimeOut, FreshOK, Ended
<1>5. ASSUME NEW i \in Call, PeerClosed(i) PROVE TypeOK' /\ FreshOK'
  BY <1>5 DEF PeerClosed, FreshOK, Ended
<1>6. ASSUME NEW i \in Call, Accept(i) PROVE TypeOK' /\ FreshOK'
  BY <1>6 DEF Accept, FreshOK
<1>7. ASSUME NEW i \in Call, Drop(i) PROVE TypeOK' /\ FreshOK'
  BY <1>7 DEF Drop, Reading, FreshOK
<1>8. ASSUME NEW i \in Call, Reject(i) PROVE TypeOK' /\ FreshOK'
  <2>1. [kind |-> "error", vals |-> Defaults] \in Reply
    BY DEF Reply, Defaults, Valuation
  <2>2. reply' \in [Call -> Reply]
    BY <1>8, <2>1 DEF Reject
  <2> QED BY <1>8, <2>2 DEF Reject, Reading, FreshOK
<1>9. ASSUME NEW i \in Call, DieDecoding(i) PROVE TypeOK' /\ FreshOK'
  BY <1>9 DEF DieDecoding, Reading, FreshOK
<1>10. ASSUME NEW i \in Call, Write(i) PROVE TypeOK' /\ FreshOK'
  <2>1. data' \in Valuation
    BY <1>10, OverlayType DEF Write
  <2>2. Subset(data', i) \in Valuation
    BY <2>1, SubsetType
  <2>3. log' \in Seq(Valuation)
    BY <1>10, <2>1 DEF Write
  <2>4. answer' \in [Call -> Valuation]
    BY <1>10, <2>2 DEF Write
  <2> QED BY <1>10, <2>1, <2>3, <2>4 DEF Write, Reading, FreshOK
<1>11. ASSUME NEW i \in Call, ReadBack(i) PROVE TypeOK' /\ FreshOK'
  <2>1. answer' \in [Call -> Valuation]
    BY <1>11, SubsetType DEF ReadBack
  <2> QED BY <1>11, <2>1 DEF ReadBack, FreshOK
<1>12. ASSUME NEW i \in Call, Respond(i) PROVE TypeOK' /\ FreshOK'
  <2>1. [kind |-> "response", vals |-> answer[i]] \in Reply
    BY DEF Reply
  <2>2. reply' \in [Call -> Reply]
    BY <1>12, <2>1 DEF Respond
  <2> QED BY <1>12, <2>2 DEF Respond, FreshOK
<1>13. ASSUME NEW i \in Call, HangUp(i) PROVE TypeOK' /\ FreshOK'
  BY <1>13 DEF HangUp, FreshOK, Gone, Ended
<1>14. CASE UNCHANGED vars
  BY <1>14 DEF vars, FreshOK
<1> QED
  BY <1>1, <1>2, <1>3, <1>4, <1>5, <1>6, <1>7, <1>8, <1>9, <1>10, <1>11,
     <1>12, <1>13, <1>14 DEF Next, ClientStep, ServeStep

\* The state of clients, connections, handlers and database keeps its types.
THEOREM MethodsType == Spec => []TypeOK
<1> QED BY InitType, TypeStep, PTL DEF Spec
-----------------------------------------------------------------------------
\* The node's handler never reads back, and what it is about to confirm is
\* what it decoded from the request.
ConfirmOK == \A i \in Call :
    /\ handler[i] # "written"
    /\ handler[i] = "reply" => \A s \in Sigs(i) : answer[i][s] = i
    /\ reply[i].kind = "response" => \A s \in Sigs(i) : reply[i].vals[s] = i

\* A server does not become another program.
LEMMA SameProgram == [Next]_vars => program' = program
<1>1. ASSUME NEW i \in Call, Connect(i) \/ ClientStep(i) PROVE program' = program
  BY <1>1 DEF ClientStep, Connect, Send, Receive, TimeOut, PeerClosed
<1>2. ASSUME NEW i \in Call, ServeStep(i) PROVE program' = program
  BY <1>2 DEF ServeStep, Accept, Drop, Reject, DieDecoding, Write, ReadBack,
              Respond, HangUp
<1> QED BY <1>1, <1>2 DEF Next, vars

\* The handler of node.py answers with the values it decoded.
LEMMA ConfirmStep ==
    ASSUME TypeOK, FreshOK, ConfirmOK, [Next]_vars, program = "node"
    PROVE  ConfirmOK'
<1> USE DEF TypeOK, ConfirmOK
<1>1. ASSUME NEW i \in Call, Connect(i) PROVE ConfirmOK'
  BY <1>1 DEF Connect, FreshOK, Sigs
<1>2. ASSUME NEW i \in Call,
             Send(i) \/ Receive(i) \/ TimeOut(i) \/ PeerClosed(i)
      PROVE  ConfirmOK'
  BY <1>2 DEF Send, Receive, TimeOut, PeerClosed, Sigs
<1>3. ASSUME NEW i \in Call, Accept(i) \/ Drop(i) \/ DieDecoding(i) \/ HangUp(i)
      PROVE  ConfirmOK'
  BY <1>3 DEF Accept, Drop, DieDecoding, HangUp, Sigs
<1>4. ASSUME NEW i \in Call, Reject(i) PROVE ConfirmOK'
  BY <1>4 DEF Reject, Sigs
<1>5. ASSUME NEW i \in Call, Write(i) PROVE ConfirmOK'
  <2>1. Sigs(i) \subseteq Signal
    BY MethodsAssumption DEF Sigs, Request
  <2>2. \A s \in Sigs(i) : Subset(data', i)[s] = i
    BY <1>5, <2>1 DEF Write, Subset, Overlay
  <2>3. answer'[i] = Subset(data', i)
    BY <1>5 DEF Write
  <2>4. \A s \in Sigs(i)' : answer'[i][s] = i
    BY <1>5, <2>2, <2>3 DEF Write, Sigs
  <2>5. handler' = [handler EXCEPT ![i] = "reply"]
    BY <1>5 DEF Write
  <2> QED BY <1>5, <2>4, <2>5 DEF Write, Sigs
<1>6. ASSUME NEW i \in Call, ReadBack(i) PROVE ConfirmOK'
  BY <1>6 DEF ReadBack
<1>7. ASSUME NEW i \in Call, Respond(i) PROVE ConfirmOK'
  BY <1>7 DEF Respond, Sigs
<1>8. CASE UNCHANGED vars
  BY <1>8 DEF vars, Sigs
<1> QED BY <1>1, <1>2, <1>3, <1>4, <1>5, <1>6, <1>7, <1>8
        DEF Next, ClientStep, ServeStep

\* A handler that encodes the values it decoded, as node.py does, confirms
\* exactly what it wrote, whatever other handlers do at the same time.
THEOREM NodeConfirms == Spec => []ConfirmsOnNode
<1> DEFINE Inv == program = "node" => ConfirmOK
<1>1. Init => Inv
  BY DEF Init, ConfirmOK, NoReply
<1>2. TypeOK /\ FreshOK /\ Inv /\ [Next]_vars => Inv'
  BY ConfirmStep, SameProgram
<1>3. Inv => ConfirmsOnNode
  BY DEF ConfirmOK, ConfirmsOnNode, ConfirmsWhatWasWritten
<1> HIDE DEF Inv
<1> QED BY <1>1, <1>2, <1>3, InitType, TypeStep, PTL DEF Spec
-----------------------------------------------------------------------------
\* The write of call i is in the history.
Began(i) == \E h \in 2..Len(log) : log[h] = Overlay(log[h - 1], i)

LogOK == Len(log) >= 1 /\ data = log[Len(log)]

InstantOK == \A i \in Call :
    /\ handler[i] = "written" => Began(i)
    /\ handler[i] = "reply" =>
          \E d \in Since(i) : answer[i] = Subset(d, i)
    /\ reply[i].kind = "response" =>
          \E d \in Since(i) : reply[i].vals = Subset(d, i)

\* Once the write is in the history, the present valuation is one since it.
LEMMA NowIsSince == ASSUME TypeOK, LogOK, NEW i \in Call, Began(i)
                    PROVE  data \in Since(i)
<1>1. Len(log) \in 1..Len(log)
  BY DEF TypeOK, LogOK
<1> QED BY <1>1 DEF LogOK, Since, Began

\* Later writes add to the valuations since a call and take none away.
LEMMA SinceGrows ==
    ASSUME TypeOK, LogOK, NEW i \in Call, Sigs(i)' = Sigs(i),
           NEW d \in Valuation, log' = Append(log, d)
    PROVE  Since(i) \subseteq Since(i)' /\ (Began(i) => Began(i)')
<1>1. Len(log) \in Nat /\ Len(log') = Len(log) + 1
  BY DEF TypeOK
<1>2. \A k \in 1..Len(log) : log'[k] = log[k]
  BY DEF TypeOK
<1>4. \A h \in 2..Len(log) : log[h] = Overlay(log[h - 1], i)
                            => log'[h] = Overlay(log[h - 1], i)'
  BY <1>1, <1>2 DEF Overlay
<1>5. Since(i) \subseteq Since(i)'
  <2> SUFFICES ASSUME NEW k \in 1..Len(log), NEW h \in 2..k,
                      log[h] = Overlay(log[h - 1], i)
               PROVE  log[k] \in Since(i)'
    BY DEF Since
  <2>1. k \in 1..Len(log') /\ h \in 2..Len(log) /\ log'[k] = log[k]
    BY <1>1, <1>2
  <2>2. log'[h] = Overlay(log[h - 1], i)'
    BY <1>4, <2>1
  <2> QED BY <2>1, <2>2 DEF Since
<1>6. Began(i) => Began(i)'
  BY <1>1, <1>4 DEF Began
<1> QED BY <1>5, <1>6

\* What a call may be answered with does not change while neither the
\* history nor the request of the call does.
LEMMA SinceKept ==
    ASSUME NEW i \in Call, log' = log, request'[i] = request[i]
    PROVE  /\ Since(i)' = Since(i) /\ (Began(i) => Began(i)')
           /\ \A d : Subset(d, i)' = Subset(d, i)
  BY DEF Since, Began, Overlay, Subset, Sigs

\* An answer is taken from one entry of the log, which only grows.
LEMMA InstantStep ==
    TypeOK /\ FreshOK /\ LogOK /\ InstantOK /\ [Next]_vars => LogOK' /\ InstantOK'
<1> SUFFICES ASSUME TypeOK, FreshOK, LogOK, InstantOK, [Next]_vars
             PROVE  LogOK' /\ InstantOK'
  OBVIOUS
<1> USE DEF TypeOK
<1>a. ASSUME log' = log, data' = data PROVE LogOK'
  BY <1>a DEF LogOK
<1>1. ASSUME NEW c \in Call, Connect(c) PROVE LogOK' /\ InstantOK'
  <2>1. LogOK'
    BY <1>1, <1>a DEF Connect
  <2>2. ASSUME NEW i \in Call, i # c
        PROVE  /\ Since(i)' = Since(i) /\ (Began(i) => Began(i)')
               /\ \A d : Subset(d, i)' = Subset(d, i)
    <3>1. log' = log /\ request'[i] = request[i]
      BY <1>1, <2>2 DEF Connect
    <3> QED BY <3>1, SinceKept
  <2>3. handler'[c] = "backlog" /\ reply'[c].kind = "nothing"
    BY <1>1 DEF Connect, FreshOK
  <2>4. \A i \in Call : i # c => handler'[i] = handler[i] /\ answer' = answer
                                  /\ reply' = reply
    BY <1>1 DEF Connect
  <2>5. InstantOK'
    BY <2>2, <2>3, <2>4 DEF InstantOK
  <2> QED BY <2>1, <2>5
<1>2. ASSUME NEW c \in Call,
             \/ Send(c) \/ Receive(c) \/ TimeOut(c) \/ PeerClosed(c)
             \/ Accept(c) \/ Drop(c) \/ Reject(c) \/ DieDecoding(c)
             \/ HangUp(c)
      PROVE  LogOK' /\ InstantOK'
  <2>1. log' = log /\ data' = data /\ request' = request /\ answer' = answer
    BY <1>2 DEF Send, Receive, TimeOut, PeerClosed, Accept, Drop, Reject,
                DieDecoding, HangUp
  <2>2. LogOK'
    BY <2>1, <1>a
  <2>3. \A i \in Call : /\ Since(i)' = Since(i) /\ (Began(i) => Began(i)')
                        /\ \A d : Subset(d, i)' = Subset(d, i)
    BY <2>1, SinceKept
  <2>4. \A i \in Call :
           /\ handler'[i] \in {"written", "reply"} => handler'[i] = handler[i]
           /\ reply'[i].kind = "response" => reply'[i] = reply[i]
    BY <1>2 DEF Send, Receive, TimeOut, PeerClosed, Accept, Drop, Reject,
                DieDecoding, HangUp
  <2>5. InstantOK'
    BY <2>1, <2>3, <2>4 DEF InstantOK
  <2> QED BY <2>2, <2>5
<1>3. ASSUME NEW c \in Call, Write(c) PROVE LogOK' /\ InstantOK'
  <2>1. data' \in Valuation /\ log' = Append(log, data') /\ request' = request
    BY <1>3, OverlayType DEF Write
  <2>2. LogOK'
    BY <2>1 DEF LogOK
  <2>3. \A i \in Call : Since(i) \subseteq Since(i)' /\ (Began(i) => Began(i)')
    BY <2>1, SinceGrows DEF Sigs
  <2>4. Began(c)'
    <3>1. Len(log') \in 2..Len(log') /\ log'[Len(log')] = Overlay(data, c)
      BY <1>3, <2>1 DEF Write, LogOK
    <3>2. log'[Len(log') - 1] = data
      BY <2>1 DEF LogOK
    <3>3. log'[Len(log')] = Overlay(log[Len(log) - 1], c)'
      BY <2>1, <3>1, <3>2 DEF Overlay, Sigs
    <3> QED BY <3>1, <3>3 DEF Began
  <2>5. TypeOK'
    BY <1>3, TypeStep DEF Next, ServeStep
  <2>6. data' \in Since(c)'
    <3>1. Len(log') \in 1..Len(log') /\ data' = log'[Len(log')]
      BY <2>1 DEF LogOK
    <3> QED BY <2>4, <3>1 DEF Since, Began
  <2>7. answer'[c] = Subset(data', c) /\ Subset(data', c) = Subset(data, c)'
    BY <1>3 DEF Write, Subset, Sigs
  <2>8. \A i \in Call : i # c => handler'[i] = handler[i] /\ answer'[i] = answer[i]
    BY <1>3 DEF Write
  <2>9. reply' = reply /\ \A i \in Call : \A d : Subset(d, i)' = Subset(d, i)
    BY <1>3 DEF Write, Subset, Sigs
  <2>10. InstantOK'
    <3> SUFFICES ASSUME NEW i \in Call
                 PROVE  /\ handler'[i] = "written" => Began(i)'
                        /\ handler'[i] = "reply" =>
                              \E d \in Since(i)' : answer'[i] = Subset(d, i)'
                        /\ reply'[i].kind = "response" =>
                              \E d \in Since(i)' : reply'[i].vals = Subset(d, i)'
      BY DEF InstantOK
    <3>1. reply'[i].kind = "response" =>
             \E d \in Since(i)' : reply'[i].vals = Subset(d, i)'
      BY <2>3, <2>9 DEF InstantOK
    <3>2. CASE i = c
      BY <2>4, <2>6, <2>7, <2>9, <3>1, <3>2
    <3>3. CASE i # c
      BY <2>3, <2>8, <2>9, <3>1, <3>3 DEF InstantOK
    <3> QED BY <3>2, <3>3
  <2> QED BY <2>2, <2>10
<1>4. ASSUME NEW c \in Call, ReadBack(c) PROVE LogOK' /\ InstantOK'
  <2>1. log' = log /\ data' = data /\ request' = request /\ reply' = reply
    BY <1>4 DEF ReadBack
  <2>2. \A i \in Call : /\ Since(i)' = Since(i) /\ (Began(i) => Began(i)')
                        /\ \A d : Subset(d, i)' = Subset(d, i)
    BY <2>1, SinceKept
  <2>3. Began(c)
    BY <1>4 DEF ReadBack, InstantOK
  <2>4. data \in Since(c) /\ answer'[c] = Subset(data, c)
    BY <1>4, <2>3, NowIsSince DEF ReadBack
  <2>5. \A i \in Call : i # c => handler'[i] = handler[i] /\ answer'[i] = answer[i]
    BY <1>4 DEF ReadBack
  <2>6. handler'[c] = "reply"
    BY <1>4 DEF ReadBack
  <2>7. InstantOK'
    BY <2>1, <2>2, <2>4, <2>5, <2>6 DEF InstantOK
  <2> QED BY <1>a, <2>1, <2>7
<1>5. ASSUME NEW c \in Call, Respond(c) PROVE LogOK' /\ InstantOK'
  <2>1. log' = log /\ data' = data /\ request' = request /\ answer' = answer
    BY <1>5 DEF Respond
  <2>2. \A i \in Call : /\ Since(i)' = Since(i) /\ (Began(i) => Began(i)')
                        /\ \A d : Subset(d, i)' = Subset(d, i)
    BY <2>1, SinceKept
  <2>3. /\ \E d \in Since(c) : answer[c] = Subset(d, c)
        /\ reply'[c].vals = answer[c] /\ handler'[c] = "recv"
    BY <1>5 DEF Respond, InstantOK
  <2>4. \A i \in Call : i # c => handler'[i] = handler[i] /\ reply'[i] = reply[i]
    BY <1>5 DEF Respond
  <2>5. InstantOK'
    BY <2>1, <2>2, <2>3, <2>4 DEF InstantOK
  <2> QED BY <1>a, <2>1, <2>5
<1>6. CASE UNCHANGED vars
  BY <1>6, <1>a, SinceKept DEF vars, InstantOK
<1> QED BY <1>1, <1>2, <1>3, <1>4, <1>5, <1>6 DEF Next, ClientStep, ServeStep

\* Both handlers answer with one valuation of the server, all signals read at
\* the same instant, and never one from before the write they confirm.
THEOREM AnswersAreSnapshots == Spec => []AnswersFromOneInstant
<1>1. Init => LogOK /\ InstantOK
  BY DEF Init, LogOK, InstantOK, NoReply
<1>2. TypeOK /\ FreshOK /\ LogOK /\ InstantOK /\ [Next]_vars => LogOK' /\ InstantOK'
  BY InstantStep
<1>3. InstantOK => AnswersFromOneInstant
  BY DEF InstantOK, AnswersFromOneInstant
<1> QED BY <1>1, <1>2, <1>3, InitType, TypeStep, PTL DEF Spec
-----------------------------------------------------------------------------
\* The server has never had a value of call i.
Untouched(i) == \A k \in 1..Len(log), s \in Signal : log[k][s] # i

\* A request is handled once.  Before, and if it is refused or its handler
\* dies, no value of the call is to be seen; afterwards one change is.
EffectOf(i) ==
    /\ stage[i] \in {"unused", "connected"} =>
          /\ Untouched(i) /\ ~inbox[i]
          /\ handler[i] \notin {"written", "reply", "ended"} /\ reply[i].kind = "nothing"
    /\ inbox[i] => /\ Untouched(i) /\ reply[i].kind = "nothing"
                   /\ handler[i] \notin {"written", "reply", "ended"}
    /\ reply[i].kind = "error" => Untouched(i) /\ handler[i] \notin {"written", "reply"}
    /\ stage[i] = "error" => reply[i].kind = "error"
    /\ stage[i] = "response" => reply[i].kind = "response"
    /\ handler[i] = "ended" /\ reply[i].kind = "nothing" /\ ~Gone(i) => Untouched(i)
    /\ stage[i] = "closed" => Untouched(i) /\ handler[i] = "ended"
    /\ handler[i] \in {"written", "reply"} \/ reply[i].kind = "response" =>
          Sigs(i) = {} \/ Applied(i) # {}
    /\ \A j, k \in Applied(i) : j = k

EffectOK == \A i \in Call : EffectOf(i)

\* A call whose values were never there has changed nothing.
LEMMA UntouchedApplied == ASSUME TypeOK, NEW i \in Call, Untouched(i)
                          PROVE  Applied(i) = {}
<1>1. ASSUME NEW k \in Applied(i) PROVE FALSE
  <2>1. k \in 1..Len(log)
    BY DEF Applied, TypeOK
  <2> QED BY <2>1 DEF Applied, Untouched
<1> QED BY <1>1

\* A write changes the history of its own call and of no other.
LEMMA WriteApplies ==
    ASSUME TypeOK, LogOK, NEW c \in Call, Write(c), Untouched(c), NEW i \in Call
    PROVE  /\ i # c => Applied(i)' = Applied(i) /\ (Untouched(i) => Untouched(i)')
           /\ Applied(c)' \subseteq {Len(log) + 1}
           /\ Sigs(c) # {} => Applied(c)' # {}
<1> DEFINE L == Len(log)
<1>1. data' = Overlay(data, c) /\ log' = Append(log, data') /\ data = log[L] /\ L \in Nat \ {0}
  BY DEF Write, LogOK, TypeOK
<1>2. Len(log') = L + 1 /\ log'[L + 1] = data' /\ \A k \in 1..L : log'[k] = log[k]
  BY <1>1 DEF TypeOK
<1>3. \A s \in Signal : data'[s] = IF s \in Sigs(c) THEN c ELSE data[s]
  BY <1>1 DEF Overlay
<1> HIDE DEF L
<1>4. \A j \in Call : \A k \in 2..L : k \in Applied(j)' <=> k \in Applied(j)
  <2> SUFFICES ASSUME NEW j \in Call, NEW k \in 2..L
               PROVE  k \in Applied(j)' <=> k \in Applied(j)
    OBVIOUS
  <2>1. k \in 2..Len(log') /\ log'[k] = log[k] /\ log'[k - 1] = log[k - 1]
    BY <1>1, <1>2
  <2> QED BY <2>1 DEF Applied, L
<1>5. \A j \in Call : L + 1 \in Applied(j)' <=>
                        \E s \in Signal : data'[s] = j /\ data[s] # j
  <2>1. L + 1 \in 2..Len(log') /\ log'[(L + 1) - 1] = data
    BY <1>1, <1>2
  <2> QED BY <2>1, <1>2 DEF Applied
<1>6. \A j \in Call : Applied(j)' \subseteq 2..(L + 1) /\ Applied(j) \subseteq 2..L
  BY <1>2 DEF Applied, L
<1>7. ASSUME i # c PROVE Applied(i)' = Applied(i) /\ (Untouched(i) => Untouched(i)')
  <2>1. L + 1 \notin Applied(i)'
    BY <1>3, <1>5, <1>7
  <2>2. \A k : k \in Applied(i)' => k \in 2..L
    BY <1>1, <1>6, <2>1
  <2>3. Applied(i)' = Applied(i)
    BY <1>4, <1>6, <2>2
  <2>4. ASSUME Untouched(i), NEW k \in 1..Len(log'), NEW s \in Signal
        PROVE  log'[k][s] # i
    <3>1. CASE k \in 1..L
      BY <1>2, <2>4, <3>1 DEF Untouched, L
    <3>2. CASE k = L + 1
      <4>1. data[s] # i
        BY <1>1, <2>4 DEF Untouched, L
      <4> QED BY <1>2, <1>3, <1>7, <3>2, <4>1
    <3> QED BY <1>1, <1>2, <3>1, <3>2
  <2> QED BY <2>3, <2>4 DEF Untouched
<1>8. Applied(c) = {}
  BY UntouchedApplied
<1>9. Applied(c)' \subseteq {L + 1}
  BY <1>1, <1>4, <1>6, <1>8
<1>10. ASSUME Sigs(c) # {} PROVE Applied(c)' # {}
  <2>1. PICK s \in Sigs(c) : TRUE
    BY <1>10
  <2>2. s \in Signal
    BY MethodsAssumption DEF Sigs, TypeOK, Request
  <2>3. data'[s] = c /\ data[s] # c
    BY <1>1, <1>3, <2>1, <2>2 DEF Untouched, L
  <2> QED BY <1>5, <2>2, <2>3
<1> QED BY <1>7, <1>9, <1>10 DEF L

\* A step that writes nothing leaves the history of every call.
LEMMA NothingApplies ==
    ASSUME log' = log, NEW i \in Call
    PROVE  Applied(i)' = Applied(i) /\ (Untouched(i)' <=> Untouched(i))
  BY DEF Applied, Untouched

\* What a step does to one call is nothing to another.
LEMMA OthersEffect ==
    ASSUME NEW i \in Call, EffectOf(i), stage'[i] = stage[i], inbox'[i] = inbox[i],
           handler'[i] = handler[i], reply'[i] = reply[i], request'[i] = request[i],
           Applied(i)' = Applied(i), Untouched(i) => Untouched(i)'
    PROVE  EffectOf(i)'
  BY DEF EffectOf, Gone, Sigs

\* A step that writes nothing keeps to the rule for its own call.
LEMMA OwnEffect ==
    ASSUME TypeOK, FreshOK, NEW c \in Call, EffectOf(c), log' = log,
           \/ Connect(c) \/ ClientStep(c) \/ (ServeStep(c) /\ ~Write(c))
    PROVE  EffectOf(c)'
<1>1. Applied(c)' = Applied(c) /\ (Untouched(c)' <=> Untouched(c))
  BY NothingApplies
<1> USE DEF TypeOK, EffectOf, Gone, Ended
<1>2. CASE Connect(c)
  BY <1>1, <1>2 DEF Connect, FreshOK
<1>3. CASE Send(c)
  BY <1>1, <1>3 DEF Send, Sigs
<1>4. CASE Receive(c)
  BY <1>1, <1>4 DEF Receive, Reply, Sigs
<1>5. CASE TimeOut(c)
  BY <1>1, <1>5 DEF TimeOut, Sigs
<1>6. CASE PeerClosed(c)
  BY <1>1, <1>6 DEF PeerClosed, Sigs
<1>7. CASE Accept(c)
  BY <1>1, <1>7 DEF Accept, Sigs
<1>8. CASE Drop(c)
  BY <1>1, <1>8 DEF Drop, Reading, Sigs
<1>9. CASE Reject(c)
  BY <1>1, <1>9 DEF Reject, Reading, Sigs
<1>10. CASE DieDecoding(c)
  BY <1>1, <1>10 DEF DieDecoding, Reading, Sigs
<1>11. CASE ReadBack(c)
  BY <1>1, <1>11 DEF ReadBack, Sigs
<1>12. CASE Respond(c)
  BY <1>1, <1>12 DEF Respond, Sigs
<1>13. CASE HangUp(c)
  BY <1>1, <1>13 DEF HangUp, Sigs
<1> QED
  BY <1>2, <1>3, <1>4, <1>5, <1>6, <1>7, <1>8, <1>9, <1>10, <1>11, <1>12, <1>13
     DEF ClientStep, ServeStep

\* Every request is handled once, by whichever handler, whatever its client
\* does meanwhile.
LEMMA EffectStep ==
    TypeOK /\ FreshOK /\ LogOK /\ EffectOK /\ [Next]_vars => EffectOK'
<1> SUFFICES ASSUME TypeOK, FreshOK, LogOK, EffectOK, [Next]_vars PROVE EffectOK'
  OBVIOUS
<1>1. ASSUME NEW c \in Call, Write(c) PROVE EffectOK'
  <2>1. Untouched(c) /\ inbox[c]
    BY <1>1 DEF EffectOK, EffectOf, Write, Reading
  <2>2. ASSUME NEW i \in Call, i # c PROVE EffectOf(i)'
    <3>1. Applied(i)' = Applied(i) /\ (Untouched(i) => Untouched(i)')
      BY <1>1, <2>1, <2>2, WriteApplies
    <3>2. /\ stage'[i] = stage[i] /\ inbox'[i] = inbox[i] /\ handler'[i] = handler[i]
          /\ reply'[i] = reply[i] /\ request'[i] = request[i]
      BY <1>1, <2>2 DEF Write, TypeOK
    <3> QED BY <3>1, <3>2, OthersEffect DEF EffectOK
  <2>3. EffectOf(c)'
    <3>1. /\ \A j, k \in Applied(c)' : j = k
          /\ Sigs(c) # {} => Applied(c)' # {}
      BY <1>1, <2>1, WriteApplies
    <3>2. /\ stage' = stage /\ reply' = reply /\ request' = request
          /\ inbox'[c] = FALSE /\ handler'[c] \in {"written", "reply"}
      BY <1>1 DEF Write, TypeOK
    <3>3. /\ reply[c].kind = "nothing" /\ stage[c] \notin {"unused", "connected"}
          /\ handler[c] = "recv"
      BY <1>1, <2>1 DEF EffectOK, EffectOf, Write, Reading
    <3> QED BY <3>1, <3>2, <3>3 DEF EffectOK, EffectOf, Gone, Ended, Sigs
  <2> QED BY <2>2, <2>3 DEF EffectOK
<1>2. ASSUME NEW c \in Call, Connect(c) \/ ClientStep(c) \/ ServeStep(c), ~Write(c)
      PROVE  EffectOK'
  <2>1. log' = log
    BY <1>2 DEF Connect, ClientStep, Send, Receive, TimeOut, PeerClosed, ServeStep, Accept,
                Drop, Reject, DieDecoding, ReadBack, Respond, HangUp
  <2>2. EffectOf(c)'
    BY <1>2, <2>1, OwnEffect DEF EffectOK
  <2>3. ASSUME NEW i \in Call, i # c PROVE EffectOf(i)'
    <3>1. Applied(i)' = Applied(i) /\ (Untouched(i)' <=> Untouched(i))
      BY <2>1, NothingApplies
    <3>2. /\ stage'[i] = stage[i] /\ inbox'[i] = inbox[i] /\ handler'[i] = handler[i]
          /\ reply'[i] = reply[i] /\ request'[i] = request[i]
      BY <1>2, <2>3 DEF TypeOK, Connect, ClientStep, Send, Receive, TimeOut, PeerClosed,
                ServeStep, Accept, Drop, Reject, DieDecoding, ReadBack, Respond, HangUp
    <3> QED BY <3>1, <3>2, OthersEffect DEF EffectOK
  <2> QED BY <2>2, <2>3 DEF EffectOK
<1>3. CASE UNCHANGED vars
  BY <1>3, NothingApplies, OthersEffect DEF vars, EffectOK
<1> QED BY <1>1, <1>2, <1>3 DEF Next

\* A call changes the server once if it was answered, at most once if its client
\* gave up, and never if it was refused or its handler died: there is no
\* schedule of clients, handlers and timeouts in which a request is applied twice.
THEOREM EffectsMatch == Spec => []EffectMatchesOutcome
<1>1. Init => LogOK /\ EffectOK
  <2> SUFFICES ASSUME Init PROVE LogOK /\ EffectOK
    OBVIOUS
  <2>1. Len(log) = 1 /\ log[1] = Defaults
    BY DEF Init
  <2>2. \A i \in Call : Untouched(i)
    BY <2>1, MethodsAssumption DEF Untouched, Defaults
  <2>3. \A i \in Call : Applied(i) = {}
    BY <2>1 DEF Applied
  <2> QED BY <2>1, <2>2, <2>3 DEF Init, LogOK, EffectOK, EffectOf, NoReply
<1>2. TypeOK /\ FreshOK /\ LogOK /\ InstantOK /\ EffectOK /\ [Next]_vars
        => LogOK' /\ InstantOK' /\ EffectOK'
  BY InstantStep, EffectStep
<1>3. TypeOK /\ EffectOK => EffectMatchesOutcome
  BY UntouchedApplied DEF EffectOK, EffectOf, EffectMatchesOutcome
<1>4. Init => InstantOK
  BY DEF Init, InstantOK, NoReply
<1> QED BY <1>1, <1>2, <1>3, <1>4, InitType, TypeStep, PTL DEF Spec
=============================================================================

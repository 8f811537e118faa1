------------------------ MODULE ServerLifecycleProofs ------------------------
(***************************************************************************)
(* Starting and stopping, for every number of servers, ports, SD threads   *)
(* and connections.                                                        *)
(***************************************************************************)
EXTENDS ServerLifecycle, TLAPS

Active(s) == phase[s] \in {"starting", "up", "stopping"}

\* The menu thread is busy with one server at a time.
OneAtATime == \A s \in Server : Active(s) <=> menu = s

\* Only a server that was started has threads.
UnusedOK == \A s \in Server, x \in Thread :
                phase[s] = "unused" => loop[s][x] = "none"

\* No stop event is set before stop_all, and those of all ports after it.
StoppedOK == \A s \in Server :
                 /\ phase[s] \in {"unused", "starting", "up"} => halted[s] = {}
                 /\ phase[s] = "stopped" => Port \subseteq halted[s]

\* While a server that found the ports free is up, no other one has a loop.
AloneOK == \A s, t \in Server, p \in Port :
               s # t /\ clean[s] /\ Active(s) => ~Alive(t, p)

\* What is done after a stop is done once: then the loop looks at its event.
LateOK == \A s \in Server, x \in Thread :
              x \notin halted[s] \/ loop[s][x] = "wait" => late[s][x] = 0

IndInv == /\ TypeOK /\ OneAtATime /\ UnusedOK /\ StoppedOK /\ AloneOK /\ LateOK
          /\ OneLateRound /\ CleanStartServes

\* Before the first choice in the menu there is no thread and no connection.
LEMMA InitInv == Init => IndInv
  BY LifecycleAssumption
  DEF Init, IndInv, TypeOK, OneAtATime, Active, UnusedOK, StoppedOK, AloneOK,
      Alive, LateOK, OneLateRound, CleanStartServes

\* Accept loops and SD threads are threads.
LEMMA ThreadsAre == /\ Port \subseteq Thread /\ SdThread \subseteq Thread
                    /\ SdThread \in SUBSET Thread
  BY DEF Thread

\* What is done after a stop is counted by a number.
LEMMA CountType ==
    ASSUME TypeOK, NEW s \in Server, NEW x \in Thread, Count(s, x)
    PROVE  late' \in [Server -> [Thread -> Nat]]
  BY DEF TypeOK, Count

\* Every step of menu, threads and clients keeps the types.
LEMMA TypeStep == TypeOK /\ [Next]_vars => TypeOK'
<1> SUFFICES ASSUME TypeOK, [Next]_vars PROVE TypeOK'
  OBVIOUS
<1> USE DEF TypeOK
<1>1. ASSUME NEW s \in Server, Start(s) \/ StopAll(s) \/ MenuStep(s)
      PROVE  TypeOK'
  <2>1. ASSUME NEW x \in Thread, StartThread(s, x) PROVE TypeOK'
    BY <2>1 DEF StartThread, clients
  <2>2. ASSUME NEW p \in Port, StopPort(s, p) PROVE TypeOK'
    BY <2>2, ThreadsAre DEF StopPort, clients
  <2> QED BY <1>1, <2>1, <2>2, ThreadsAre
          DEF MenuStep, Start, StopAll, Started, Stopped, clients
<1>2. ASSUME NEW s \in Server, NEW x \in Thread, ThreadStep(s, x) PROVE TypeOK'
  <2>1. ASSUME Finish(s, x) PROVE TypeOK'
    BY <2>1 DEF Finish
  <2>2. ASSUME NEW c \in Conn, Accept(s, x, c) PROVE TypeOK'
    BY <2>2, CountType DEF Accept
  <2>3. ASSUME SdRound(s, x) PROVE TypeOK'
    BY <2>3, CountType DEF SdRound, clients
  <2>4. ASSUME Bind(s, x) \/ BindFails(s, x) \/ Wait(s, x) \/ Idle(s, x)
        PROVE  TypeOK'
    <3>1. \E q \in {"head", "failed", "wait"} : loop' = [loop EXCEPT ![s][x] = q]
      BY <2>4 DEF Bind, BindFails, Wait, Idle
    <3>2. UNCHANGED <<menu, phase, halted, conn, at, clean, late>>
      BY <2>4 DEF Bind, BindFails, Wait, Idle, clients
    <3> QED BY <3>1, <3>2
  <2> QED BY <1>2, <2>1, <2>2, <2>3, <2>4 DEF ThreadStep
<1>3. ASSUME NEW c \in Conn, NEW p \in Port, Connect(c, p) PROVE TypeOK'
  <2>1. \/ \E s \in Server : at' = [at EXCEPT ![c] = <<s, p>>]
        \/ at' = at
    BY <1>3 DEF Connect
  <2>2. at' \in [Conn -> (Server \X Port) \cup {NoServer}]
    BY <2>1
  <2>3. conn' \in [Conn -> {"unused", "queued", "served", "refused", "reset"}]
    BY <1>3 DEF Connect
  <2> QED BY <1>3, <2>2, <2>3 DEF Connect
<1>4. CASE UNCHANGED vars
  BY <1>4 DEF vars, clients
<1> QED BY <1>1, <1>2, <1>3, <1>4 DEF Next

\* No step lets a thread do a second thing after its stop or takes a port.
LEMMA InvStep == IndInv /\ [Next]_vars => IndInv'
<1> SUFFICES ASSUME IndInv, [Next]_vars PROVE IndInv'
  OBVIOUS
<1>0. TypeOK'
  BY TypeStep DEF IndInv
<1> USE ThreadsAre, LifecycleAssumption
    DEF IndInv, TypeOK, OneAtATime, Active, UnusedOK, StoppedOK, AloneOK, Alive,
        LateOK, OneLateRound, CleanStartServes
<1>1. ASSUME NEW s \in Server, Start(s) PROVE IndInv'
  BY <1>0, <1>1 DEF Start
<1>2. ASSUME NEW s \in Server, NEW x \in Thread, StartThread(s, x) PROVE IndInv'
  BY <1>0, <1>2 DEF StartThread
<1>3. ASSUME NEW s \in Server, Started(s) PROVE IndInv'
  BY <1>0, <1>3 DEF Started
<1>4. ASSUME NEW s \in Server, StopAll(s) PROVE IndInv'
  BY <1>0, <1>4 DEF StopAll
<1>5. ASSUME NEW s \in Server, NEW p \in Port, StopPort(s, p) PROVE IndInv'
  BY <1>0, <1>5 DEF StopPort
<1>6. ASSUME NEW s \in Server, Stopped(s) PROVE IndInv'
  BY <1>0, <1>6 DEF Stopped
<1>7. ASSUME NEW s \in Server, NEW p \in Port, Bind(s, p) PROVE IndInv'
  BY <1>0, <1>7 DEF Bind
<1>8. ASSUME NEW s \in Server, NEW p \in Port, BindFails(s, p) PROVE IndInv'
  <2>1. PICK t \in Server \ {s} : Alive(t, p)
    BY <1>8 DEF BindFails, Taken, Listening
  <2>2. clean[s] => p \in halted[s]
    <3>1. loop[s][p] = "binding"
      BY <1>8 DEF BindFails
    <3>2. phase[s] # "unused"
      BY <3>1
    <3>3. clean[s] => phase[s] = "stopped"
      BY <2>1, <3>2
    <3> QED BY <3>3
  <2> QED BY <1>0, <1>8, <2>2 DEF BindFails
<1>9. ASSUME NEW s \in Server, NEW x \in Thread, Wait(s, x) PROVE IndInv'
  BY <1>0, <1>9 DEF Wait
<1>10. ASSUME NEW s \in Server, NEW x \in Thread, Finish(s, x) PROVE IndInv'
  BY <1>0, <1>10 DEF Finish
<1>11. ASSUME NEW s \in Server, NEW x \in Thread, Idle(s, x) PROVE IndInv'
  BY <1>0, <1>11 DEF Idle
<1>12. ASSUME NEW s \in Server, NEW x \in Thread, NEW c \in Conn, Accept(s, x, c)
       PROVE  IndInv'
  BY <1>0, <1>12 DEF Accept, Count
<1>13. ASSUME NEW s \in Server, NEW x \in Thread, SdRound(s, x) PROVE IndInv'
  BY <1>0, <1>13 DEF SdRound, Count
<1>14. ASSUME NEW c \in Conn, NEW p \in Port, Connect(c, p) PROVE IndInv'
  BY <1>0, <1>14 DEF Connect
<1>15. CASE UNCHANGED vars
  BY <1>0, <1>15 DEF vars
<1> QED BY <1>1, <1>2, <1>3, <1>4, <1>5, <1>6, <1>7, <1>8, <1>9, <1>10, <1>11,
           <1>12, <1>13, <1>14, <1>15 DEF Next, MenuStep, ThreadStep

\* stop_all and the loops of TcpServer._run, SdAnnouncer.run and SdListener.run:
\* a stopped loop does one thing more at most, and a server started when the
\* accept loops of its predecessors have ended gets its ports.
LEMMA LifecycleSafe == Spec => [](TypeOK /\ OneLateRound /\ CleanStartServes)
<1>1. IndInv => TypeOK /\ OneLateRound /\ CleanStartServes
  BY DEF IndInv
<1> QED BY <1>1, InitInv, InvStep, PTL DEF Spec

\* The menu, the threads and the connections keep the types of the state.
THEOREM LifecycleType == Spec => []TypeOK
<1> QED BY LifecycleSafe, PTL

\* The loops of a stopped server do one thing more at most.
THEOREM StopIsSeen == Spec => []OneLateRound
<1> QED BY LifecycleSafe, PTL

\* A server that starts when the accept loops of its predecessors have ended
\* gets its ports.
THEOREM CleanStart == Spec => []CleanStartServes
<1> QED BY LifecycleSafe, PTL
=============================================================================

------------------------ MODULE EventPublisherProofs ------------------------
(***************************************************************************)
(* What the publisher promises, for every number of publisher threads and  *)
(* subscribers and every width of the session number.                      *)
(***************************************************************************)
EXTENDS EventPublisher, TLAPS

\* A run that was not started has not been stopped and has sent nothing.
UnusedOK == \A r \in Run : pc[r] = "unused"
                => ~stopped[r] /\ \A x \in Subscriber : last[x].run # r

\* Rounds are counted from the stop, and none is begun and not counted.
RoundsOK == \A r \in Run : ~stopped[r] \/ pc[r] = "due" => rounds[r] = 0

\* Nobody in the registry, or still to be sent to, has had a late datagram.
LateOK == \A r \in Run, x \in Subscriber :
              x \in audience \cup todo[r] => late[r][x] = 0

IndInv == /\ TypeOK /\ NoOrphan /\ OneRoundAfterStop /\ OneLateDatagram
          /\ UnusedOK /\ RoundsOK /\ LateOK

\* The session number stays within its width.
LEMMA NextSeqType == ASSUME NEW n \in Nat PROVE NextSeq(n) \in 0..SeqMod-1
  BY PublisherAssumption, SMT DEF NextSeq

\* No thread exists yet, so nothing is late and nobody is left behind.
LEMMA InitInv == Init => IndInv
  BY PublisherAssumption, SMT
  DEF Init, IndInv, TypeOK, NoOrphan, OneRoundAfterStop, OneLateDatagram,
      UnusedOK, RoundsOK, LateOK, Running, Version, Datagram, NoDatagram

\* Every step of menu, publisher and subscriber keeps the types.
LEMMA TypeStep == TypeOK /\ [Next]_vars => TypeOK'
<1> SUFFICES ASSUME TypeOK, [Next]_vars PROVE TypeOK'
  OBVIOUS
<1> USE PublisherAssumption DEF TypeOK
<1>1. ASSUME NEW r \in Run, ToggleOn(r) PROVE TypeOK'
  BY <1>1 DEF ToggleOn, history
<1>2. ASSUME NEW r \in Run, ToggleOff(r) PROVE TypeOK'
  BY <1>2 DEF ToggleOff, history
<1>3. ASSUME NEW x \in Subscriber, Join(x) PROVE TypeOK'
  <2>1. late' \in [Run -> [Subscriber -> Nat]]
    BY <1>3 DEF Join
  <2> QED BY <1>3, <2>1 DEF Join
<1>4. ASSUME NEW x \in Subscriber, Leave(x) PROVE TypeOK'
  <2>1. NoDatagram \in Datagram
    BY DEF NoDatagram, Datagram, Version
  <2> QED BY <1>4, <2>1 DEF Leave, history
<1>5. CASE WriteData
  BY <1>5 DEF WriteData, Version, history
<1>6. ASSUME NEW r \in Run, Finish(r) PROVE TypeOK'
  <2>1. late' \in [Run -> [Subscriber -> Nat]]
    BY <1>6 DEF Finish
  <2> QED BY <1>6, <2>1 DEF Finish, server, Version
<1>7. ASSUME NEW r \in Run, Due(r) PROVE TypeOK'
  BY <1>7 DEF Due, server, history
<1>8. ASSUME NEW r \in Run, Snapshot(r) PROVE TypeOK'
  BY <1>8 DEF Snapshot, server
<1>9. ASSUME NEW r \in Run, CopyRegistry(r) PROVE TypeOK'
  <2>1. seq[r] \in Nat
    OBVIOUS
  <2>2. NextSeq(seq[r]) \in 0..SeqMod-1
    BY <2>1, NextSeqType
  <2> QED BY <1>9, <2>2 DEF CopyRegistry, server, history
<1>10. ASSUME NEW r \in Run, NEW x \in Subscriber, SendTo(r, x) PROVE TypeOK'
  <2>1. [run |-> r, seq |-> seq[r], vals |-> vals[r]] \in Datagram
    BY DEF Datagram
  <2>2. last' \in [Subscriber -> Datagram]
    BY <1>10, <2>1 DEF SendTo
  <2>3. late[r] \in [Subscriber -> Nat]
    OBVIOUS
  <2>4. late' \in [Run -> [Subscriber -> Nat]]
    BY <1>10, <2>3 DEF SendTo
  <2>5. todo' \in [Run -> SUBSET Subscriber]
    BY <1>10 DEF SendTo
  <2> QED BY <1>10, <2>2, <2>4, <2>5 DEF SendTo, server
<1>11. ASSUME NEW r \in Run, EndRound(r) PROVE TypeOK'
  BY <1>11 DEF EndRound, server, history
<1>12. ASSUME NEW r \in Run, SendMulticast(r) PROVE TypeOK'
  <2>1. seq[r] \in Nat
    OBVIOUS
  <2>2. seq' \in [Run -> 0..SeqMod-1]
    BY <1>12, <2>1, NextSeqType DEF SendMulticast
  <2>3. Receipt(r) \in Datagram
    BY <2>2 DEF Receipt, Datagram
  <2>4. last' \in [Subscriber -> Datagram]
    BY <1>12, <2>3 DEF SendMulticast
  <2> QED BY <1>12, <2>2, <2>4 DEF SendMulticast, server, history
<1>13. CASE UNCHANGED vars
  BY <1>13 DEF vars, server, history
<1> QED BY <1>1, <1>2, <1>3, <1>4, <1>5, <1>6, <1>7, <1>8, <1>9, <1>10,
           <1>11, <1>12, <1>13 DEF Next, Publish

\* Whatever it sends, a run that sends has been started.
LEMMA SendToUnused ==
    ASSUME TypeOK, UnusedOK, NEW r \in Run, NEW x \in Subscriber, SendTo(r, x)
    PROVE  UnusedOK'
<1>1. pc[r] = "send" /\ pc' = pc /\ stopped' = stopped
  BY DEF SendTo
<1>2. \A y \in Subscriber : last'[y] = last[y] \/ last'[y].run = r
  BY DEF SendTo, TypeOK
<1> QED BY <1>1, <1>2 DEF UnusedOK

\* No step leaves a publisher behind or makes a second late round or datagram.
LEMMA InvStep == IndInv /\ [Next]_vars => IndInv'
<1> SUFFICES ASSUME IndInv, [Next]_vars PROVE IndInv'
  OBVIOUS
<1>0. TypeOK'
  BY TypeStep DEF IndInv
<1> USE PublisherAssumption
    DEF IndInv, TypeOK, NoOrphan, OneRoundAfterStop, OneLateDatagram,
        UnusedOK, RoundsOK, LateOK, Running
<1>1. ASSUME NEW r \in Run, ToggleOn(r) PROVE IndInv'
  BY <1>0, <1>1 DEF ToggleOn, history
<1>2. ASSUME NEW r \in Run, ToggleOff(r) PROVE IndInv'
  BY <1>0, <1>2 DEF ToggleOff, history
<1>3. ASSUME NEW x \in Subscriber, Join(x) PROVE IndInv'
  BY <1>0, <1>3 DEF Join
<1>4. ASSUME NEW x \in Subscriber, Leave(x) PROVE IndInv'
  BY <1>0, <1>4 DEF Leave, history, NoDatagram
<1>5. CASE WriteData
  BY <1>0, <1>5 DEF WriteData, history
<1>6. ASSUME NEW r \in Run, Finish(r) PROVE IndInv'
  BY <1>0, <1>6 DEF Finish, server
<1>7. ASSUME NEW r \in Run, Due(r) PROVE IndInv'
  BY <1>0, <1>7 DEF Due, server, history
<1>8. ASSUME NEW r \in Run, Snapshot(r) PROVE IndInv'
  BY <1>0, <1>8 DEF Snapshot, server
<1>9. ASSUME NEW r \in Run, CopyRegistry(r) PROVE IndInv'
  BY <1>0, <1>9 DEF CopyRegistry, server, history
<1>10. ASSUME NEW r \in Run, NEW x \in Subscriber, SendTo(r, x) PROVE IndInv'
  <2>1. UnusedOK'
    BY <1>10, SendToUnused
  <2>2. late[r][x] = 0
    BY <1>10 DEF SendTo
  <2>3. LateOK' /\ OneLateDatagram'
    BY <1>0, <1>10, <2>2 DEF SendTo, server
  <2> QED BY <1>0, <1>10, <2>1, <2>3 DEF SendTo, server
<1>11. ASSUME NEW r \in Run, EndRound(r) PROVE IndInv'
  BY <1>0, <1>11 DEF EndRound, server, history
<1>12. ASSUME NEW r \in Run, SendMulticast(r) PROVE IndInv'
  BY <1>0, <1>12 DEF SendMulticast, server, history, Receipt
<1>13. CASE UNCHANGED vars
  BY <1>0, <1>13 DEF vars, server, history
<1> QED BY <1>1, <1>2, <1>3, <1>4, <1>5, <1>6, <1>7, <1>8, <1>9, <1>10,
           <1>11, <1>12, <1>13 DEF Next, Publish

\* The invariant holds throughout.
LEMMA Invariance == Spec => []IndInv
<1> QED BY InitInv, InvStep, PTL DEF Spec

\* The publishers of toggle_event and stop_all, UdpEventPublisherWithDb.run:
\* none is left behind running, a stopped one begins at most one more round,
\* and a subscriber that has left hears at most once more of each.
LEMMA PublisherSafe ==
    Spec => [](TypeOK /\ NoOrphan /\ OneRoundAfterStop /\ OneLateDatagram)
<1>1. IndInv => TypeOK /\ NoOrphan /\ OneRoundAfterStop /\ OneLateDatagram
  BY DEF IndInv
<1> QED BY <1>1, Invariance, PTL

\* Publishers, subscribers and database keep the types of the state.
THEOREM PublisherType == Spec => []TypeOK
<1> QED BY PublisherSafe, PTL

\* A running publisher that has not been told to stop is the one the menu knows:
\* however often an event is toggled, no thread of it is left behind.
THEOREM NoneLeftBehind == Spec => []NoOrphan
<1> QED BY PublisherSafe, PTL

\* A publisher that was told to stop sends one more round at most.
THEOREM StopIsHeeded == Spec => []OneRoundAfterStop
<1> QED BY PublisherSafe, PTL

\* A subscriber that has left hears of a publisher once more at most.
THEOREM LeavingIsHeeded == Spec => []OneLateDatagram
<1> QED BY PublisherSafe, PTL
-----------------------------------------------------------------------------
(* The stream a subscriber sees.  Its last datagram is one of a publisher  *)
(* whose snapshot is no older and whose session number is the same, or the *)
(* next one while the subscriber is still on the publisher's list.         *)

MembersHear == \A x \in Subscriber :
                   x \notin audience \/ last[x].run = NoRun => last[x] = NoDatagram

SnapshotOld == \A r \in Run : vals[r] <= data

Awaited(r, x) == pc[r] = "send" /\ x \in todo[r]

InStep(r, x) == /\ last[x].vals <= vals[r]
                /\ x \in Flaky \/ seq[r] = IF Awaited(r, x)
                                           THEN NextSeq(last[x].seq) ELSE last[x].seq

StreamOK == \A r \in Run, x \in Subscriber :
                last[x].run = r /\ Running(r) => InStep(r, x)

OrderInv == /\ TypeOK /\ UnusedOK /\ MembersHear /\ SnapshotOld /\ StreamOK

\* Nobody has received anything yet.
LEMMA InitOrder == Init => OrderInv
  BY InitInv, PublisherAssumption, SMT
  DEF IndInv, OrderInv, Init, MembersHear, SnapshotOld, StreamOK, NoDatagram

\* The snapshot of a thread is never older than what it has sent before.
LEMMA OrderStep == OrderInv /\ UnusedOK' /\ [Next]_vars => OrderInv'
<1> SUFFICES ASSUME OrderInv, UnusedOK', [Next]_vars PROVE OrderInv'
  OBVIOUS
<1>0. TypeOK'
  BY TypeStep DEF OrderInv
<1> USE PublisherAssumption
    DEF OrderInv, TypeOK, MembersHear, SnapshotOld, StreamOK, InStep, Awaited,
        Running, Version
<1>1. ASSUME NEW r \in Run, ToggleOn(r) PROVE OrderInv'
  BY <1>0, <1>1 DEF ToggleOn, history, UnusedOK
<1>2. ASSUME NEW r \in Run, ToggleOff(r) PROVE OrderInv'
  BY <1>0, <1>2 DEF ToggleOff, history
<1>3. ASSUME NEW x \in Subscriber, Join(x) PROVE OrderInv'
  BY <1>0, <1>3 DEF Join
<1>4. ASSUME NEW x \in Subscriber, Leave(x) PROVE OrderInv'
  BY <1>0, <1>4 DEF Leave, history, NoDatagram
<1>5. CASE WriteData
  BY <1>0, <1>5 DEF WriteData, history
<1>6. ASSUME NEW r \in Run, Finish(r) PROVE OrderInv'
  BY <1>0, <1>6 DEF Finish, server
<1>7. ASSUME NEW r \in Run, Due(r) PROVE OrderInv'
  BY <1>0, <1>7 DEF Due, server, history
<1>8. ASSUME NEW r \in Run, Snapshot(r) PROVE OrderInv'
  <2>1. \A x \in Subscriber : last[x].vals \in Nat
    BY DEF Datagram
  <2>2. \A x \in Subscriber : last[x].run = r => last[x].vals <= data
    BY <1>8, <2>1 DEF Snapshot
  <2>3. StreamOK'
    BY <1>8, <2>2 DEF Snapshot
  <2> QED BY <1>0, <1>8, <2>3 DEF Snapshot, server
<1>9. ASSUME NEW r \in Run, CopyRegistry(r) PROVE OrderInv'
  BY <1>0, <1>9 DEF CopyRegistry, server, history, NoDatagram
<1>10. ASSUME NEW r \in Run, NEW x \in Subscriber, SendTo(r, x) PROVE OrderInv'
  <2>1. pc[r] = "send" /\ x \in todo[r] /\ todo' = [todo EXCEPT ![r] = @ \ {x}]
    BY <1>10 DEF SendTo
  <2>2. MembersHear' /\ SnapshotOld'
    BY <1>10 DEF SendTo, server
  <2>3. \A y \in Subscriber \ {x} : last'[y] = last[y]
    BY <1>10 DEF SendTo
  <2>4. \A q \in Run, y \in Subscriber \ {x} :
           last'[y].run = q /\ Running(q)' => InStep(q, y)'
    BY <1>10, <2>1, <2>3 DEF SendTo
  <2>5. \A q \in Run : last'[x].run = q /\ Running(q)' => InStep(q, x)'
    <3>1. CASE last'[x] = [run |-> r, seq |-> seq[r], vals |-> vals[r]]
      BY <1>10, <2>1, <3>1 DEF SendTo
    <3>2. CASE last' = last /\ (x \in Flaky \/ x \notin audience)
      BY <1>10, <2>1, <3>2 DEF SendTo, NoDatagram
    <3> QED BY <1>10, <3>1, <3>2 DEF SendTo
  <2>6. StreamOK'
    BY <2>4, <2>5
  <2> QED BY <1>0, <1>10, <2>2, <2>6 DEF SendTo, UnusedOK
<1>11. ASSUME NEW r \in Run, EndRound(r) PROVE OrderInv'
  BY <1>0, <1>11 DEF EndRound, server, history
<1>12. ASSUME NEW r \in Run, SendMulticast(r) PROVE OrderInv'
  BY <1>0, <1>12 DEF SendMulticast, server, history, Receipt, NoDatagram
<1>13. CASE UNCHANGED vars
  BY <1>0, <1>13 DEF vars, server, history, UnusedOK
<1> QED BY <1>1, <1>2, <1>3, <1>4, <1>5, <1>6, <1>7, <1>8, <1>9, <1>10,
           <1>11, <1>12, <1>13 DEF Next, Publish

\* A step that changes what x has heard last from the same run is a datagram
\* of that run, which StreamOK relates to the one before.
LEMMA InOrder ==
    ASSUME OrderInv, [Next]_vars, NEW x \in Subscriber,
           last'[x] # last[x], last'[x].run = last[x].run
    PROVE  /\ last'[x].vals >= last[x].vals
           /\ x \in Flaky \/ last'[x].seq = NextSeq(last[x].seq)
<1> DEFINE Ordered == /\ last'[x].vals >= last[x].vals
                      /\ x \in Flaky \/ last'[x].seq = NextSeq(last[x].seq)
<1> USE PublisherAssumption
    DEF OrderInv, TypeOK, MembersHear, StreamOK, InStep, Awaited, Running, Version
<1>1. ASSUME NEW r \in Run, SendTo(r, x) PROVE Ordered
  <2>1. /\ pc[r] = "send" /\ x \in todo[r]
        /\ last' = [last EXCEPT ![x] = [run |-> r, seq |-> seq[r], vals |-> vals[r]]]
    BY <1>1 DEF SendTo
  <2>2. last'[x] = [run |-> r, seq |-> seq[r], vals |-> vals[r]]
    BY <2>1
  <2>3. last[x].run = r
    BY <2>2
  <2>4. InStep(r, x)
    BY <2>1, <2>3
  <2> QED BY <2>1, <2>2, <2>4
<1>2. ASSUME NEW r \in Run, SendMulticast(r) PROVE Ordered
  <2>1. x \in audience /\ last'[x] = Receipt(r)
    BY <1>2 DEF SendMulticast
  <2>2. last[x].run = r /\ pc[r] = "encode" /\ seq'[r] = NextSeq(seq[r])
    BY <1>2, <2>1 DEF SendMulticast, Receipt
  <2> QED BY <2>1, <2>2 DEF Receipt
<1>3. ASSUME NEW y \in Subscriber, Leave(y) PROVE FALSE
  <2>1. last'[x].run = NoRun /\ last'[x] = NoDatagram
    BY <1>3 DEF Leave, NoDatagram
  <2> QED BY <2>1
<1>4. ASSUME NEW r \in Run, NEW y \in Subscriber, SendTo(r, y) PROVE Ordered
  BY <1>1, <1>4 DEF SendTo
<1>5. last' # last
  OBVIOUS
<1> HIDE DEF Ordered
<1>6. Ordered
  BY <1>2, <1>3, <1>4, <1>5
  DEF Next, Publish, ToggleOn, ToggleOff, Join, WriteData, Finish, Due,
      Snapshot, CopyRegistry, EndRound, vars
<1> QED BY <1>6 DEF Ordered

\* What a subscriber hears from one publisher (the snapshot, seq and _sendto of
\* UdpEventPublisherWithDb.run) never goes back in time and skips no number.
THEOREM PublisherInOrder == Spec => StreamInOrder
<1>1. OrderInv /\ [Next]_vars
      => [\A x \in Subscriber :
             last'[x] # last[x] /\ last'[x].run = last[x].run
             => /\ last'[x].vals >= last[x].vals
                /\ x \in Flaky \/ last'[x].seq = NextSeq(last[x].seq)]_vars
  BY InOrder
<1>2. IndInv => UnusedOK
  BY DEF IndInv
<1> QED BY <1>1, <1>2, InitOrder, OrderStep, Invariance, PTL
        DEF Spec, StreamInOrder
=============================================================================

------------------------ MODULE SignalDatabaseProofs ------------------------
(***************************************************************************)
(* The database behind its lock implements the atomic database, for every  *)
(* set of threads, signals, values and calls.                              *)
(***************************************************************************)
EXTENDS SignalDatabase, TLAPS

\* A thread inside the loop only has names of its own call to visit, and a
\* thread outside it has none.
TodoOK == \A t \in Thread : /\ todo[t] \subseteq call[t].names
                            /\ phase[t] # "inside" => todo[t] = {}

IndInv == TypeOK /\ MutualExclusion /\ TodoOK /\ NoTornRead

\* There is a call to start with.
LEMMA FirstCall == (CHOOSE c \in Calls : TRUE) \in Calls
  BY DatabaseAssumption

\* What a call names and writes.
LEMMA CallType == ASSUME NEW c \in Calls
                  PROVE  /\ c.op \in {"set", "get"}
                         /\ c.names \subseteq Name
                         /\ c.vals \in [Name -> Value]
  BY DatabaseAssumption DEF Call

\* What get_subset returns is a valuation of the names asked for.
LEMMA SelectType == ASSUME NEW d \in Valuation, NEW ns
                    PROVE  Select(d, ns) \in [Name -> Value]
  BY SignalAssumption DEF Valuation, Select, Lookup

\* What a read of names in several turns builds, one name at a time.
LEMMA SelectOneMore ==
    ASSUME NEW d, NEW ns, NEW n \in Name
    PROVE  [Select(d, ns) EXCEPT ![n] = Lookup(d, n)] = Select(d, ns \cup {n})
  BY DEF Select

\* The lock is free and no call is in progress.
LEMMA InitInv == Init => IndInv
  BY FirstCall, DatabaseAssumption, SignalAssumption
  DEF Init, IndInv, TypeOK, MutualExclusion, TodoOK, NoTornRead, Nothing,
      Valuation

\* Every step of a call keeps the types.
LEMMA TypeStep == IndInv /\ [Next]_vars => TypeOK'
<1> SUFFICES ASSUME IndInv, [Next]_vars PROVE TypeOK'
  OBVIOUS
<1> USE DEF IndInv, TypeOK
<1>1. ASSUME NEW t \in Thread, Invoke(t) PROVE TypeOK'
  BY <1>1 DEF Invoke
<1>2. ASSUME NEW t \in Thread, Acquire(t) PROVE TypeOK'
  <2>1. Nothing \in [Name -> Value]
    BY SignalAssumption DEF Nothing
  <2>2. got' \in [Thread -> [Name -> Value]]
    BY <1>2, <2>1 DEF Acquire
  <2>3. todo' \in [Thread -> SUBSET Name]
    BY <1>2, CallType DEF Acquire
  <2> QED BY <1>2, <2>2, <2>3 DEF Acquire
<1>3. ASSUME NEW t \in Thread, NEW n \in Name, SetOne(t, n) PROVE TypeOK'
  <2>1. call[t].vals[n] \in Value
    BY CallType
  <2>2. data' \in Valuation
    BY <1>3, <2>1 DEF SetOne, Valuation
  <2> QED BY <1>3, <2>2 DEF SetOne
<1>4. ASSUME NEW t \in Thread, NEW n \in Name, GetOne(t, n) PROVE TypeOK'
  <2>1. Lookup(data, n) \in Value
    BY SignalAssumption DEF Lookup, Valuation
  <2>2. got' \in [Thread -> [Name -> Value]]
    BY <1>4, <2>1 DEF GetOne
  <2> QED BY <1>4, <2>2 DEF GetOne
<1>5. ASSUME NEW t \in Thread, Release(t) PROVE TypeOK'
  BY <1>5 DEF Release
<1>6. ASSUME NEW t \in Thread, Return(t) PROVE TypeOK'
  BY <1>6 DEF Return
<1>7. CASE UNCHANGED vars
  BY <1>7 DEF vars
<1> QED BY <1>1, <1>2, <1>3, <1>4, <1>5, <1>6, <1>7 DEF Next, Proceed

\* Names are only visited by the thread that holds the lock.
LEMMA InvStep == IndInv /\ [Next]_vars => IndInv'
<1> SUFFICES ASSUME IndInv, [Next]_vars PROVE IndInv'
  OBVIOUS
<1>0. TypeOK'
  BY TypeStep
<1> USE DEF IndInv, TypeOK
<1>1. ASSUME NEW t \in Thread, Invoke(t) PROVE IndInv'
  BY <1>0, <1>1, CallType DEF Invoke, MutualExclusion, TodoOK, NoTornRead
<1>2. ASSUME NEW t \in Thread, Acquire(t) PROVE IndInv'
  <2>1. MutualExclusion' /\ TodoOK'
    BY <1>2, DatabaseAssumption DEF Acquire, MutualExclusion, TodoOK
  <2>2. NoTornRead'
    <3> SUFFICES ASSUME NEW q \in Thread,
                        phase'[q] = "inside", call'[q].op = "get"
                 PROVE  got'[q] = Select(data', call'[q].names \ todo'[q])
      BY DEF NoTornRead
    <3>1. q = t
      BY <1>2, <2>1 DEF Acquire, MutualExclusion
    <3>2. got'[q] = Nothing /\ call'[q].names \ todo'[q] = {}
      BY <1>2, <3>1 DEF Acquire
    <3>3. Select(data', {}) = Nothing
      BY DEF Select, Nothing
    <3> QED BY <3>2, <3>3
  <2> QED BY <1>0, <2>1, <2>2
<1>3. ASSUME NEW t \in Thread, NEW n \in Name, SetOne(t, n) PROVE IndInv'
  <2>1. MutualExclusion' /\ TodoOK'
    BY <1>3 DEF SetOne, MutualExclusion, TodoOK
  <2>2. \A q \in Thread : phase[q] = "inside" => q = t
    BY <1>3 DEF SetOne, MutualExclusion
  <2>3. NoTornRead'
    BY <1>3, <2>2 DEF SetOne, NoTornRead
  <2> QED BY <1>0, <2>1, <2>3
<1>4. ASSUME NEW t \in Thread, NEW n \in Name, GetOne(t, n) PROVE IndInv'
  <2>1. MutualExclusion' /\ TodoOK'
    BY <1>4 DEF GetOne, MutualExclusion, TodoOK
  <2>2. call[t].names \ todo'[t] = (call[t].names \ todo[t]) \cup {n}
    BY <1>4 DEF GetOne, TodoOK
  <2>3. got'[t] = Select(data, call[t].names \ todo'[t])
    <3>1. got[t] = Select(data, call[t].names \ todo[t])
      BY <1>4 DEF GetOne, NoTornRead
    <3>2. got'[t] = [got[t] EXCEPT ![n] = Lookup(data, n)]
      BY <1>4 DEF GetOne
    <3> DEFINE seen == call[t].names \ todo[t]
    <3>3. [Select(data, seen) EXCEPT ![n] = Lookup(data, n)]
          = Select(data, seen \cup {n})
      BY SelectOneMore, Zenon
    <3> QED BY <2>2, <3>1, <3>2, <3>3, Zenon
  <2>4. NoTornRead'
    BY <1>4, <2>3 DEF GetOne, NoTornRead
  <2> QED BY <1>0, <2>1, <2>4
<1>5. ASSUME NEW t \in Thread, Release(t) PROVE IndInv'
  BY <1>0, <1>5, DatabaseAssumption
  DEF Release, MutualExclusion, TodoOK, NoTornRead
<1>6. ASSUME NEW t \in Thread, Return(t) PROVE IndInv'
  BY <1>0, <1>6 DEF Return, MutualExclusion, TodoOK, NoTornRead
<1>7. CASE UNCHANGED vars
  BY <1>7 DEF vars, MutualExclusion, TodoOK, NoTornRead
<1> QED BY <1>1, <1>2, <1>3, <1>4, <1>5, <1>6, <1>7 DEF Next, Proceed

\* The state keeps its types, one thread at a time is inside the critical
\* section, and a read never mixes the values of two writes.
LEMMA DatabaseSafe == Spec => [](TypeOK /\ MutualExclusion /\ NoTornRead)
<1>1. IndInv => TypeOK /\ MutualExclusion /\ NoTornRead
  BY DEF IndInv
<1> QED BY InitInv, InvStep, <1>1, PTL DEF Spec

\* Threads, lock and data keep the types of the state.
THEOREM DatabaseType == Spec => []TypeOK
<1> QED BY DatabaseSafe, PTL

\* What a call has read so far comes from one valuation of the data.
THEOREM ReadsAreWhole == Spec => []NoTornRead
<1> QED BY DatabaseSafe, PTL
-----------------------------------------------------------------------------
\* The database starts as the atomic one.
LEMMA InitRefines == Init => Atomic!Init
  BY DatabaseAssumption
  DEF Init, Atomic!Init, absData, absPhase, absGot, Writing, Nothing

\* Every step of the code is one of the atomic database, or none.
LEMMA StepRefines == IndInv /\ IndInv' /\ [Next]_vars => [Atomic!Next]_(Atomic!vars)
<1> SUFFICES ASSUME IndInv, IndInv', [Next]_vars
             PROVE  [Atomic!Next]_(Atomic!vars)
  OBVIOUS
<1> USE DEF IndInv, TypeOK
<1> DEFINE Stutter == /\ absData' = absData /\ absPhase' = absPhase
                      /\ call' = call /\ absGot' = absGot
<1>0. Stutter => [Atomic!Next]_(Atomic!vars)
  BY DEF Atomic!vars
<1>1. ASSUME NEW t \in Thread, Invoke(t) PROVE Atomic!Invoke(t)
  <2>1. lock # t
    BY <1>1 DEF Invoke, MutualExclusion
  <2>2. absData' = absData
    BY <1>1, <2>1 DEF Invoke, absData, Writing
  <2>3. absGot' = absGot
    BY <1>1 DEF Invoke, absGot
  <2>4. absPhase[t] = "idle" /\ absPhase' = [absPhase EXCEPT ![t] = "called"]
    BY <1>1 DEF Invoke, absPhase
  <2> QED BY <1>1, <2>2, <2>3, <2>4 DEF Invoke, Atomic!Invoke
<1>2. ASSUME NEW t \in Thread, Acquire(t)
      PROVE  Atomic!Write(t) \/ Atomic!Read(t)
  <2>1. absPhase[t] = "called" /\ absPhase' = [absPhase EXCEPT ![t] = "done"]
    BY <1>2 DEF Acquire, absPhase
  <2>2. absData = data
    BY <1>2 DEF Acquire, absData, Writing
  <2>3. \A q \in Thread : phase[q] # "inside"
    BY <1>2, DatabaseAssumption DEF Acquire, MutualExclusion
  <2>4. CASE call[t].op = "set"
    <3>1. absData' = Overlay(data, call[t])
      BY <1>2, <2>4, DatabaseAssumption
      DEF Acquire, absData, Writing, Overlay, Valuation
    <3>2. absGot' = absGot
      BY <1>2, <2>3, <2>4 DEF Acquire, absGot
    <3> QED BY <1>2, <2>1, <2>2, <2>4, <3>1, <3>2 DEF Acquire, Atomic!Write, Atomic!Overlay, Overlay
  <2>5. CASE call[t].op = "get"
    <3>1. absData' = data
      BY <1>2, <2>5 DEF Acquire, absData, Writing
    <3>2. absGot' = [absGot EXCEPT ![t] = Select(data, call[t].names)]
      BY <1>2, <2>3, <2>5 DEF Acquire, absGot
    <3> QED
      BY <1>2, <2>1, <2>2, <2>5, <3>1, <3>2
      DEF Acquire, Atomic!Read, Atomic!Select, Select, Atomic!Lookup, Lookup
  <2> QED BY <2>4, <2>5, CallType
<1>3. ASSUME NEW t \in Thread, NEW n \in Name, SetOne(t, n) PROVE Stutter
  <2>1. lock = t /\ \A q \in Thread : phase[q] = "inside" => q = t
    BY <1>3 DEF SetOne, MutualExclusion
  <2>2. absData' = absData
    <3>1. Writing /\ Writing'
      BY <1>3, <2>1, DatabaseAssumption DEF SetOne, Writing
    <3>2. ASSUME NEW s \in Signal
          PROVE  (IF s \in todo'[t] THEN call[t].vals[s] ELSE data'[s])
                 = IF s \in todo[t] THEN call[t].vals[s] ELSE data[s]
      BY <1>3 DEF SetOne, Valuation
    <3> QED BY <1>3, <2>1, <3>1, <3>2 DEF SetOne, absData
  <2>3. absGot' = absGot
    BY <1>3, <2>1 DEF SetOne, absGot
  <2> QED BY <1>3, <2>2, <2>3 DEF SetOne, absPhase
<1>4. ASSUME NEW t \in Thread, NEW n \in Name, GetOne(t, n) PROVE Stutter
  <2>1. lock = t
    BY <1>4 DEF GetOne, MutualExclusion
  <2>2. absData' = absData
    BY <1>4, <2>1 DEF GetOne, absData, Writing
  <2>3. absGot' = absGot
    BY <1>4 DEF GetOne, absGot
  <2> QED BY <1>4, <2>2, <2>3 DEF GetOne, absPhase
<1>5. ASSUME NEW t \in Thread, Release(t) PROVE Stutter
  <2>1. lock = t
    BY <1>5 DEF Release, MutualExclusion
  <2>2. absData' = absData
    BY <1>5, <2>1, DatabaseAssumption
    DEF Release, absData, Writing, Valuation
  <2>3. call[t].op = "get" => got[t] = Select(data, call[t].names)
    BY <1>5 DEF Release, NoTornRead
  <2>4. absGot' = absGot
    BY <1>5, <2>3 DEF Release, absGot
  <2>5. absPhase' = absPhase
    BY <1>5 DEF Release, absPhase
  <2> QED BY <1>5, <2>2, <2>4, <2>5 DEF Release
<1>6. ASSUME NEW t \in Thread, Return(t) PROVE Atomic!Return(t)
  <2>1. lock # t
    BY <1>6 DEF Return, MutualExclusion
  <2>2. absData' = absData
    BY <1>6, <2>1 DEF Return, absData, Writing
  <2>3. absGot' = absGot
    BY <1>6 DEF Return, absGot
  <2>4. absPhase[t] = "done" /\ absPhase' = [absPhase EXCEPT ![t] = "idle"]
    BY <1>6 DEF Return, absPhase
  <2> QED BY <1>6, <2>2, <2>3, <2>4 DEF Return, Atomic!Return
<1>7. CASE UNCHANGED vars
  <2>1. Stutter
    BY <1>7 DEF vars, absData, Writing, absPhase, absGot
  <2> QED BY <1>0, <2>1
<1> QED
  BY <1>0, <1>1, <1>2, <1>3, <1>4, <1>5, <1>6, <1>7
  DEF Next, Proceed, Atomic!Next

\* Every call of the locked dictionary takes effect at one instant between
\* its invocation and its return.
THEOREM DatabaseIsAtomic == Spec => AtomicSpec
<1>1. Init => Atomic!Init
  BY InitRefines
<1>2. IndInv /\ IndInv' /\ [Next]_vars => [Atomic!Next]_(Atomic!vars)
  BY StepRefines
<1> QED BY <1>1, <1>2, InitInv, InvStep, PTL DEF Spec, AtomicSpec, Atomic!Spec
=============================================================================

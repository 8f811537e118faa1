--------------------------- MODULE SignalDatabase ---------------------------
(***************************************************************************)
(* SignalDatabase of apps/tui.py: a dictionary behind one lock, entered by *)
(* handler threads (set_multiple, get_subset), publisher threads           *)
(* (get_subset) and the menu thread (get, get_all, set).  A method reads   *)
(* or writes its names one at a time while it holds the lock.  get, set    *)
(* and get_all are the calls with one name or with every name.             *)
(* The state dictionary of apps/node.py and its state_lock behave alike.   *)
(***************************************************************************)
EXTENDS SignalValues

CONSTANTS Thread, Calls,
          Default,     \* the values the catalog gives the signals
          NoThread     \* the lock when nobody holds it

ASSUME DatabaseAssumption == /\ Calls \subseteq Call /\ Calls # {}
                             /\ Default \in Valuation
                             /\ NoThread \notin Thread

VARIABLES data,        \* self._data
          lock,        \* the holder of self._lock
          phase,       \* per thread: idle, waiting for the lock, inside, done
          call,        \* per thread: its last call
          todo,        \* per thread: the names it has still to visit
          got          \* per thread: the dictionary a read is building

vars == <<data, lock, phase, call, todo, got>>

Nothing == [n \in Name |-> Zero]

TypeOK == /\ data \in Valuation
          /\ lock \in Thread \cup {NoThread}
          /\ phase \in [Thread -> {"idle", "waiting", "inside", "done"}]
          /\ call \in [Thread -> Calls]
          /\ todo \in [Thread -> SUBSET Name]
          /\ got \in [Thread -> [Name -> Value]]

\* Every signal starts with the default the catalog gives it.
Init == /\ data = Default
        /\ lock = NoThread
        /\ phase = [t \in Thread |-> "idle"]
        /\ call = [t \in Thread |-> CHOOSE c \in Calls : TRUE]
        /\ todo = [t \in Thread |-> {}]
        /\ got = [t \in Thread |-> Nothing]

Invoke(t) == /\ phase[t] = "idle"
             /\ \E c \in Calls : call' = [call EXCEPT ![t] = c]
             /\ phase' = [phase EXCEPT ![t] = "waiting"]
             /\ UNCHANGED <<data, lock, todo, got>>

\* Mutant: a read does without the lock.
AcquireToWrite(t) == /\ phase[t] = "waiting"
                     /\ call[t].op = "set" => lock = NoThread
                     /\ lock' = IF call[t].op = "set" THEN t ELSE lock
                     /\ phase' = [phase EXCEPT ![t] = "inside"]
                     /\ todo' = [todo EXCEPT ![t] = call[t].names]
                     /\ got' = IF call[t].op = "get"
                               THEN [got EXCEPT ![t] = Nothing] ELSE got
                     /\ UNCHANGED <<data, call>>

\* with self._lock:
Acquire(t) == /\ phase[t] = "waiting" /\ lock = NoThread
              /\ lock' = t
              /\ phase' = [phase EXCEPT ![t] = "inside"]
              /\ todo' = [todo EXCEPT ![t] = call[t].names]
              /\ got' = IF call[t].op = "get"
                        THEN [got EXCEPT ![t] = Nothing] ELSE got
              /\ UNCHANGED <<data, call>>

\* Mutant: set_multiple adds the names it does not know.
SetUnknown(t, n) == /\ phase[t] = "inside" /\ call[t].op = "set" /\ n \in todo[t]
                    /\ data' = [m \in DOMAIN data \cup {n} |->
                                  IF m = n THEN call[t].vals[n] ELSE data[m]]
                    /\ todo' = [todo EXCEPT ![t] = @ \ {n}]
                    /\ UNCHANGED <<lock, phase, call, got>>

\* One turn of the loop of set_multiple; an unknown name is skipped.
SetOne(t, n) == /\ phase[t] = "inside" /\ call[t].op = "set" /\ n \in todo[t]
                /\ data' = IF n \in Signal
                           THEN [data EXCEPT ![n] = call[t].vals[n]] ELSE data
                /\ todo' = [todo EXCEPT ![t] = @ \ {n}]
                /\ UNCHANGED <<lock, phase, call, got>>

\* One item of the comprehension of get_subset.
GetOne(t, n) == /\ phase[t] = "inside" /\ call[t].op = "get" /\ n \in todo[t]
                /\ got' = [got EXCEPT ![t][n] = Lookup(data, n)]
                /\ todo' = [todo EXCEPT ![t] = @ \ {n}]
                /\ UNCHANGED <<data, lock, phase, call>>

\* Mutants: the lock is given back before the last name; it is never given back.
ReleaseEarly(t) == /\ phase[t] = "inside"
                   /\ lock' = NoThread
                   /\ phase' = [phase EXCEPT ![t] = "done"]
                   /\ UNCHANGED <<data, call, todo, got>>
ReleaseNever(t) == /\ phase[t] = "inside" /\ todo[t] = {}
                   /\ phase' = [phase EXCEPT ![t] = "done"]
                   /\ UNCHANGED <<data, lock, call, todo, got>>

Release(t) == /\ phase[t] = "inside" /\ todo[t] = {}
              /\ lock' = NoThread
              /\ phase' = [phase EXCEPT ![t] = "done"]
              /\ UNCHANGED <<data, call, todo, got>>

Return(t) == /\ phase[t] = "done"
             /\ phase' = [phase EXCEPT ![t] = "idle"]
             /\ UNCHANGED <<data, lock, call, todo, got>>

\* The steps a thread takes by itself once it has called.
Proceed(t) == \/ Acquire(t) \/ Release(t) \/ Return(t)
              \/ \E n \in Name : SetOne(t, n) \/ GetOne(t, n)

Next == \E t \in Thread : Invoke(t) \/ Proceed(t)

Spec == Init /\ [][Next]_vars

\* A running thread is scheduled; the lock itself promises no order.
FairSpec == Spec /\ \A t \in Thread : WF_vars(Proceed(t))
-----------------------------------------------------------------------------
(* A write is over, for everybody else, when the lock is taken: what the   *)
(* holder has still to write is already part of the abstract valuation.    *)
Writing == lock # NoThread /\ call[lock].op = "set"

absData == IF Writing
           THEN [s \in Signal |-> IF s \in todo[lock] THEN call[lock].vals[s]
                                                      ELSE data[s]]
           ELSE data

absPhase == [t \in Thread |-> CASE phase[t] = "waiting" -> "called"
                                [] phase[t] = "inside"  -> "done"
                                [] OTHER                -> phase[t]]

absGot == [t \in Thread |-> IF phase[t] = "inside" /\ call[t].op = "get"
                            THEN Select(data, call[t].names) ELSE got[t]]

Atomic == INSTANCE AtomicDatabase WITH data <- absData, phase <- absPhase,
                                       got <- absGot
AtomicSpec == Atomic!Spec

\* A read holds, for every name visited so far, the value the database has
\* now: nobody changes a signal between the first and the last name of one
\* get_subset (SignalDatabase of tui.py, the state_lock of node.py).
NoTornRead ==
    \A t \in Thread : phase[t] = "inside" /\ call[t].op = "get" =>
        got[t] = Select(data, call[t].names \ todo[t])

\* The lock is held by the one thread that is between Acquire and Release.
MutualExclusion == \A t \in Thread : phase[t] = "inside" <=> lock = t

\* Callers never wait on each other for ever: while some thread waits for the
\* lock, some call comes to its end.
SomeCallReturns ==
    (\E t \in Thread : phase[t] = "waiting") ~>
    (\E t \in Thread : phase[t] = "done")
=============================================================================

--------------------------- MODULE AtomicDatabase ---------------------------
(***************************************************************************)
(* What SignalDatabase promises its callers: every call takes effect at    *)
(* one instant between its invocation and its return.                      *)
(***************************************************************************)
EXTENDS SignalValues

CONSTANTS Thread,      \* handler, publisher and menu threads
          Calls,       \* the calls they make
          Default      \* the values the catalog gives the signals

VARIABLES data,        \* the values of the signals
          phase,       \* per thread: idle, called or done
          call,        \* per thread: its last call
          got          \* per thread: what its last read returned

vars == <<data, phase, call, got>>

Init == /\ data = Default
        /\ phase = [t \in Thread |-> "idle"]
        /\ call = [t \in Thread |-> CHOOSE c \in Calls : TRUE]
        /\ got = [t \in Thread |-> [n \in Name |-> Zero]]

Invoke(t) == /\ phase[t] = "idle"
             /\ \E c \in Calls : call' = [call EXCEPT ![t] = c]
             /\ phase' = [phase EXCEPT ![t] = "called"]
             /\ UNCHANGED <<data, got>>

Write(t) == /\ phase[t] = "called" /\ call[t].op = "set"
            /\ data' = Overlay(data, call[t])
            /\ phase' = [phase EXCEPT ![t] = "done"]
            /\ UNCHANGED <<call, got>>

Read(t) == /\ phase[t] = "called" /\ call[t].op = "get"
           /\ got' = [got EXCEPT ![t] = Select(data, call[t].names)]
           /\ phase' = [phase EXCEPT ![t] = "done"]
           /\ UNCHANGED <<data, call>>

Return(t) == /\ phase[t] = "done"
             /\ phase' = [phase EXCEPT ![t] = "idle"]
             /\ UNCHANGED <<data, call, got>>

Next == \E t \in Thread : Invoke(t) \/ Write(t) \/ Read(t) \/ Return(t)

Spec == Init /\ [][Next]_vars
=============================================================================

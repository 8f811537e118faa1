-------------------------- MODULE MCSignalDatabase --------------------------
(* Three threads on two signals and one name the catalog does not know:    *)
(* a write of both signals, a conflicting write of a known and an unknown  *)
(* name, a read of every name.                                             *)
EXTENDS SignalDatabase, Integers

CONSTANTS s1, s2, u, t1, t2, t3

MCSignal == {s1, s2}
MCName   == {s1, s2, u}
MCThread == {t1, t2, t3}
MCValue  == 0..2
MCDefault == [s \in MCSignal |-> 0]

SetCall(ns, v) == [op |-> "set", names |-> ns, vals |-> [n \in MCName |-> v]]
GetCall(ns)    == [op |-> "get", names |-> ns, vals |-> [n \in MCName |-> 0]]

MCCalls == {SetCall({s1, s2}, 1), SetCall({s2, u}, 2), GetCall(MCName)}
=============================================================================

---------------------------- MODULE MCTcpMethods ----------------------------
(* Two clients, one of which makes a second call, perhaps while the       *)
(* handler of the call it gave up is still at work.  Two methods that      *)
(* share a signal, one protected, and a method the server does not route.  *)
EXTENDS TcpMethods

CONSTANTS alice, bob, a1, a2, b1, speed, gear, SetSpeed, SetBoth, Unrouted

MCClient    == {alice, bob}
MCCall      == {a1, a2, b1}
MCCallerOf  == [i \in MCCall |-> IF i = b1 THEN bob ELSE alice]
MCSignal    == {speed, gear}
MCMethod    == {SetSpeed, SetBoth, Unrouted}
MCSigsOf    == [m \in MCMethod |-> IF m = SetBoth THEN MCSignal ELSE {speed}]
MCRouted    == {SetSpeed, SetBoth}
MCProtected == {SetBoth}
Good(m)     == [method |-> m, defect |-> "none"]
Odd          == {[method |-> SetBoth,  defect |-> "crc"],
                 [method |-> SetSpeed, defect |-> "not_request"],
                 [method |-> SetSpeed, defect |-> "short"]}
MCRequests   == [i \in MCCall |->
                   CASE i = a1 -> {Good(m) : m \in MCMethod} \cup Odd
                     [] i = a2 -> {Good(SetSpeed)} \cup Odd
                     [] i = b1 -> {Good(SetSpeed), Good(SetBoth)}]
MCTui        == {"tui"}
MCBoth       == {"node", "tui"}
=============================================================================

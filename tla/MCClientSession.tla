-------------------------- MODULE MCClientSession --------------------------
(* Two servers, one of them on the client's machine.  Whole has a method   *)
(* with blanks in the name of its service and two ports in one; Wide has   *)
(* a service id and a port that do not fit; Front and Back are the halves  *)
(* of a network whose client has both; Double is refused by every server.  *)
EXTENDS ClientSession

CONSTANTS near, far, none

Service(name, id) == [name |-> name, id |-> id]
Method(name, svc, id, port) ==
    [name |-> name, kind |-> "method", service |-> svc, padded |-> FALSE, id |-> id, port |-> port]
EventOf(name, svc, id, mode) ==
    [name |-> name, kind |-> "event", service |-> svc, padded |-> FALSE, id |-> id,
     port |-> 5, group |-> 1, mode |-> mode]

Chassis == <<Service("chassis", 1)>>
Both    == <<Service("chassis", 1), Service("drive", 2)>>
Whole   == [services |-> Both,
            messages |-> <<Method("steer", "chassis", 1, 7), Method("brake", "chassis", 2, 8),
                           [Method("gear", "drive", 1, 8) EXCEPT !.padded = TRUE],
                           EventOf("chassis_event", "chassis", 3, "unicast"),
                           EventOf("drive_event", "drive", 3, "multicast")>>]
Front   == [services |-> Chassis,
            messages |-> <<Method("steer", "chassis", 1, 7),
                           EventOf("chassis_event", "chassis", 3, "unicast")>>]
Back    == [services |-> <<Service("drive", 2)>>,
            messages |-> <<Method("gear", "drive", 1, 8),
                           EventOf("drive_event", "drive", 3, "multicast")>>]
Wide    == [services |-> <<Service("chassis", 1), Service("drive", 17)>>,
            messages |-> <<Method("steer", "chassis", 1, 23), Method("gear", "drive", 1, 8),
                           EventOf("chassis_event", "chassis", 3, "unicast")>>]
Double  == [Front EXCEPT !.messages = @ \o <<Method("brake", "chassis", 1, 7)>>]

MCFile == [whole |-> Whole, front |-> Front, back |-> Back, wide |-> Wide, double |-> Double]
All(file) == [s \in Server |-> file]
Halves    == [s \in Server |-> IF s = near THEN "front" ELSE "back"]

Args == [app |-> "cli", discover |-> TRUE, ip |-> none, call |-> "brake",
         sub |-> "chassis_event", bind |-> "any"]

Setups ==
    {[server |-> All("whole"), client |-> "whole", cmd |-> c] : c \in
        {Args,
         [Args EXCEPT !.app = "tui", !.call = "gear", !.sub = none],
         [Args EXCEPT !.ip = far, !.call = "gear", !.sub = "drive_event", !.bind = "own"],
         [Args EXCEPT !.discover = FALSE, !.sub = none]}}
    \cup {[server |-> Halves, client |-> "whole",
           cmd |-> [Args EXCEPT !.call = "gear", !.sub = "drive_event"]],
          [server |-> All("wide"), client |-> "wide",
           cmd |-> [Args EXCEPT !.call = "gear", !.sub = none]],
          [server |-> All("wide"), client |-> "wide",
           cmd |-> [Args EXCEPT !.call = "steer", !.sub = none]],
          [server |-> All("double"), client |-> "double",
           cmd |-> [Args EXCEPT !.sub = none]]}

\* Those whose servers start.
MCSetup == {c \in Setups : \A s \in Server : Starts(MCFile[c.server[s]])}
=============================================================================

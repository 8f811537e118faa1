--------------------------- MODULE MCMethodBytes ----------------------------
(* Two messages on one connection.  Three signals: unsigned with an offset, *)
(* signed with a negative scale, and one of a byte.  The requests: values   *)
(* that fit, fall between two steps, or fall outside the range; a protected *)
(* method, also with noise and with another counter; a message that is no   *)
(* request, an unknown method, a short payload, a payload that is too long. *)
EXTENDS MethodBytes

Speed == [name |-> "speed", type |-> "u8",  scale |-> 4,  offset |-> -3, default |-> 1]
Angle == [name |-> "angle", type |-> "i16", scale |-> -2, offset |-> 1,  default |-> 0]
Gear  == [name |-> "gear",  type |-> "i8",  scale |-> 1,  offset |-> 0,  default |-> 2]

\* Signals of a message that is too long, whose default values look like the
\* header of a short message.
Zero == [name |-> "zero", type |-> "u8", scale |-> 1, offset |-> 0, default |-> 0]
Headerlike == [i \in 1..17 |-> IF i = 8 THEN [Zero EXCEPT !.name = "nine", !.default = 9]
                                        ELSE Zero]

SetBoth == <<4660, 1>>
SetGear == <<4660, 2>>
GearTwice == <<4660, 3>>
Other   == <<4660, 4>>

MCRoutes == [k \in {SetBoth, SetGear, GearTwice} |->
                CASE k = SetBoth ->
                        [sigs |-> <<Speed, Angle>>, protected |-> FALSE, iface |-> 2]
                  [] k = SetGear ->
                        [sigs |-> <<Gear>>, protected |-> TRUE, iface |-> 1]
                  [] k = GearTwice ->
                        [sigs |-> <<Gear, Gear>>, protected |-> FALSE, iface |-> 1]]

Good == [key |-> SetBoth, sigs |-> <<Speed, Angle>>, values |-> [speed |-> 8, angle |-> 6],
         protected |-> FALSE, counter |-> 1, session |-> 1, type |-> 0, noise |-> {}]
Safe == [Good EXCEPT !.key = SetGear, !.sigs = <<Gear>>, !.values = [gear |-> -6],
                     !.protected = TRUE]

\* Bursts of at most sixteen bits over the forty of a protected payload.
Bursts == {{7, 8}, {9}, 20 .. 32, {20, 21, 24, 28, 29, 32}, {8, 11, 16}, {25, 40}, {40}}

MCRequest ==
       {[Good EXCEPT !.values = v] : v \in {[speed |-> 8, angle |-> 6], [angle |-> -70000],
                                            [speed |-> 2000, angle |-> 3]}}
  \cup {Safe, [Safe EXCEPT !.counter = 2]}
  \cup {[Safe EXCEPT !.noise = b] : b \in Bursts}
  \cup {[Good EXCEPT !.type = 2], [Good EXCEPT !.key = Other],
        [Good EXCEPT !.sigs = <<Speed>>], [Good EXCEPT !.sigs = <<Gear, Speed, Angle>>],
        [Good EXCEPT !.sigs = <<Angle, Angle, Angle>>, !.values = [angle |-> -5]],
        [Good EXCEPT !.sigs = Headerlike], [Safe EXCEPT !.protected = FALSE],
        [Good EXCEPT !.key = GearTwice, !.sigs = <<Gear, Speed>>]}
MCSignal  == {Speed, Angle, Gear} \cup {Headerlike[i] : i \in DOMAIN Headerlike}
MCMessage == {WireOf[c] : c \in MCRequest}

\* The CRC of the nine digits, known for this CRC's parameters.
ASSUME CrcBytes(<<49, 50, 51, 52, 53, 54, 55, 56, 57>>) = <<41, 177>>
=============================================================================

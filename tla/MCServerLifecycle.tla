------------------------- MODULE MCServerLifecycle -------------------------
(* Two servers, one started after the other or not at all, with one TCP    *)
(* port and one SD thread (the other one does the same), two connections.  *)
EXTENDS ServerLifecycle

CONSTANTS auto, manual, tcp, sd, c1, c2

MCServer == {auto, manual}
MCPort   == {tcp}
MCSd     == {sd}
MCConn   == {c1, c2}
=============================================================================

-------------------------- MODULE MCSdSubscription --------------------------
(* A client of this repository (tui) and an external peer that names its   *)
(* endpoint when it stops; a server with two eventgroups and one that      *)
(* offers one of them too.                                                 *)
EXTENDS SdSubscription

CONSTANTS tui, peer, zonal, chassis, ga, gb, h1, h2, h3, h4, ipTui, ipPeer

MCServer  == {zonal, chassis}
MCClient  == {tui, peer}
MCHost    == {h1, h2, h3, h4}
MCGroup   == {ga, gb}
MCAddress == {ipTui, ipPeer}
MCOffers  == [s \in MCServer |-> IF s = zonal THEN {ga} ELSE {ga, gb}]
MCAddrOf  == [c \in MCClient |-> IF c = tui THEN ipTui ELSE ipPeer]
MCPeers   == {peer}

\* Everybody on a host of his own.
Apart == [x \in MCServer \cup MCClient |->
             CASE x = zonal -> h1 [] x = chassis -> h2
               [] x = tui   -> h3 [] x = peer -> h4]

\* "Testing Locally (Single Machine)": all programs on one host.
Together == [x \in MCServer \cup MCClient |-> h1]
=============================================================================

CONSTANTS
  tui = tui
  peer = peer
  zonal = zonal
  chassis = chassis
  ga = ga
  gb = gb
  h1 = h1
  h2 = h2
  h3 = h3
  h4 = h4
  ipTui = ipTui
  ipPeer = ipPeer
  NoAddress = NoAddress
  NoGroup = NoGroup
  Server <- MCServer
  Client <- MCClient
  Host <- MCHost
  Group <- MCGroup
  Address <- MCAddress
  Offers <- MCOffers
  AddrOf <- MCAddrOf
  Conforming <- MCPeers
  HostOf <- Apart
  MaxToggles = 2
  MaxRestarts = 1
  MaxHops = 2
SPECIFICATION Spec
PROPERTIES StopUnsubscribes
CHECK_DEADLOCK FALSE

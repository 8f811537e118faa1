CONSTANTS
  auto = auto
  manual = manual
  tcp = tcp
  sd = sd
  c1 = c1
  c2 = c2
  NoServer = NoServer
  Server <- MCServer
  Port <- MCPort
  SdThread <- MCSd
  Conn <- MCConn
SPECIFICATION Spec
INVARIANTS AlwaysServed
CHECK_DEADLOCK FALSE

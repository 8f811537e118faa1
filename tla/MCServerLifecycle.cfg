CONSTANTS
  auto = auto
  manual = manual
  tcp = tcp
  sd = sd
  c1 = c1
  c2 = c2
  NoServer = NoServer
  Server <- MCServer
  Port <- MCPort
  SdThread <- MCSd
  Conn <- MCConn
SPECIFICATION FairSpec
INVARIANTS TypeOK OneLateRound CleanStartServes
PROPERTIES StoppedServersEnd QueuedIsAnswered
CHECK_DEADLOCK FALSE

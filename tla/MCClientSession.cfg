CONSTANTS
  near = near
  far = far
  none = none
  Server = {near, far}
  LocalServer = near
  NoServer = none
  NoName = none
  NoPort = none
  IdSpan = 16
  File <- MCFile
  Setup <- MCSetup
  Period = 1
  Late = 1
  Timeout = 3
  Count = 2
  Buffer = 2
  MaxNoise = 1
  MaxStops = 1
CHECK_DEADLOCK FALSE
SPECIFICATION FairSpec
INVARIANTS TypeOK SilenceMeansLoss AckWaitBounded CallReachesMethod
PROPERTIES WaitsEnd EventsOnceAcked

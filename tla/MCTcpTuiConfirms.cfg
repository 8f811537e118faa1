CONSTANTS
  alice = alice
  bob = bob
  a1 = a1
  a2 = a2
  b1 = b1
  speed = speed
  gear = gear
  SetSpeed = SetSpeed
  SetBoth = SetBoth
  Unrouted = Unrouted
  NoCall = NoCall
  Client <- MCClient
  Call <- MCCall
  CallerOf <- MCCallerOf
  Signal <- MCSignal
  Method <- MCMethod
  SigsOf <- MCSigsOf
  Routed <- MCRouted
  Protected <- MCProtected
  Requests <- MCRequests
  Programs <- MCTui
CHECK_DEADLOCK FALSE
SPECIFICATION Spec
INVARIANTS ConfirmsWhatWasWritten

CONSTANTS
  Signal <- MCSignal
  Routes <- MCRoutes
  Request <- MCRequest
  Message <- MCMessage
  MaxPayload = 5
  MaxMessages = 2
CHECK_DEADLOCK FALSE
SPECIFICATION FairMethodSpec
INVARIANTS MethodTypeOK NearestStored DamageIsDropped EchoExact
PROPERTIES ChannelSpec EveryMessageTaken

CONSTANTS
  udp = udp
  tcp = tcp
  other = other
  offer = offer
  subscribe = subscribe
  strange = strange
  Option <- MCOption
  Known <- MCKnown
  OptionSize <- MCOptionSize
  EntryHead <- MCHead
  ServiceTypes <- MCServiceTypes
  GroupTypes <- MCGroupTypes
  NibbleMod = 4
  IndexMod = 4
  IdMod = 2
  WordMod = 32
  TtlMax = 3
  HeaderSize = 24
  EntrySize = 16
  LengthSize = 4
  Buffers <- MCBuffers
  MaxEntries = 3
  MaxOptions = 5
SPECIFICATION Spec
INVARIANTS RoundTrip EndpointIsOwn FieldsSurvive
CHECK_DEADLOCK FALSE

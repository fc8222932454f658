\* three messages from the peer, the first with a character that can be cut, the last too long; what the server sends, its answers and its keep-alives
SPECIFICATION ConnSpec
CONSTANTS
  MaxMessages = 7
  HighWater = 2
  MaxQueued = 2
  Lengths <- SomeLengths
  Wide <- SomeWide
  Kinds <- SomeKinds
  MaxLength = 6
  InitialTimeout = 2
  RetryCount = 3
CHECK_DEADLOCK FALSE
PROPERTIES
  KeepsOrder
  OutgoingArrives
  IncomingInOrder
  KeepAliveIsTimely
  GoneIsQuiet

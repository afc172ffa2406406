\* The reply buffer keeps the paths of an earlier reply.
SPECIFICATION Spec
CONSTANTS
  a = a
  b = b
  Clients = {a, b}
  Hash <- MCHash
  LocalNode = 0
  Node = 1
  Contents <- MCContents
  NoClient = NoClient
  NoMessage = NoMessage
  BusSize = 1
  BufferKept = TRUE
  MaxTries <- MCTries
  MaxSends <- MCSends
  MaxRemote = 0
  MaxCrashes = 0
INVARIANT
  OwnBus
CHECK_DEADLOCK FALSE

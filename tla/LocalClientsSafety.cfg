\* Two clients, one of which registers again; a crash of cpmd; small buses.
SPECIFICATION Spec
CONSTANTS
  a = a
  b = b
  Clients = {a, b}
  Hash <- MCHash
  LocalNode = 0
  Node = 1
  Contents <- MCContents
  NoClient = NoClient
  NoMessage = NoMessage
  BusSize = 2
  BufferKept = FALSE
  MaxTries <- MCTries
  MaxSends <- MCSends
  MaxRemote = 1
  MaxCrashes = 1
INVARIANTS
  TypeOK
  Conservation
  Addressed
  SentInOrder
PROPERTY
  ServedInTheEnd
CHECK_DEADLOCK FALSE

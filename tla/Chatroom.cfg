SPECIFICATION Spec
CONSTANTS
  n1 = n1
  n2 = n2
  room = room
  alice = alice
  bob = bob
  namesake = namesake
  Nodes <- MCNodes
  LocalNode = local
  Clients <- MCClients
  At <- MCAt
  Name <- MCName
  NoClient = NoClient
  BusSize = 1
  kMaxCachedMessageNum = 2
  Room = room
  MaxSaid <- MCMaxSaid
  MaxOther <- MCMaxOther
INVARIANTS
  TypeOK
  Addressed
  HeardByMembers
  HeardInOrder
  SpokenInOrder
  NoEcho
CHECK_DEADLOCK FALSE

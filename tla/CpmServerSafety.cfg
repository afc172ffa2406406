SPECIFICATION Spec
CONSTANTS
  me = me
  n1 = n1
  nx = nx
  aMe = aMe
  a1 = a1
  c1 = c1
  c2 = c2
  c3 = c3
  NodeAddrs <- MCNodeAddrs
  SelfAddr = me
  LocalNode = local
  NetAddrs <- MCNetAddrs
  ResolveServer = resolver
  Conf <- MCConf
  Conns <- MCConns
  None = None
  kMaxCachedMessageNum = 2
  WriteMayFail = TRUE
  MaxMessages = 4
  MaxDisconnects = 2
SYMMETRY ConnSymmetry
INVARIANTS
  TypeOK
  AssertionsHold
  OneConnectionPerPeer
  IndexTracksConnections
  OneResolveLink
  LookupsMatchResolvingNodes
  RoutedToDestination
  Conservation
PROPERTIES
  ImplementsOutbox
  ResolvedStaysResolved
CHECK_DEADLOCK FALSE

SPECIFICATION FairSpec
CONSTANTS
  me = me
  n1 = n1
  nx = nx
  aMe = aMe
  a1 = a1
  c1 = c1
  c2 = c2
  c3 = c3
  NodeAddrs <- MCKnownNodes
  SelfAddr = me
  LocalNode = local
  NetAddrs <- MCNetAddrs
  ResolveServer = resolver
  Conf <- MCConf
  Conns <- MCConns
  None = None
  kMaxCachedMessageNum = 2
  WriteMayFail = FALSE
  MaxMessages = 3
  MaxDisconnects = 2
INVARIANTS
  SentInOrder
PROPERTIES
  AttemptEndsWait
  LinkRecovers
  LookupSettles
CHECK_DEADLOCK FALSE

SPECIFICATION FairSpec
CONSTANTS
  n1 = n1
  n2 = n2
  nx = nx
  h1 = h1
  h2 = h2
  hx = hx
  c1 = c1
  c2 = c2
  c3 = c3
  NodeAddrs <- MCNodeAddrs
  LocalNode = local
  Hosts <- MCHosts
  Conf <- MCConf
  CacheNodes <- MCCacheNodes
  Conns <- MCConns
  None = None
  MaxConnects = 3
  MaxRequests = 2
INVARIANTS
  TypeOK
  AssertionsHold
  RegistryMatchesContexts
  TimerUntilInitialised
  LookupsAnswered
PROPERTIES
  KickedOff
CHECK_DEADLOCK FALSE

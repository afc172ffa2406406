SPECIFICATION SpecRefresh
CONSTANTS
  me = me
  n1 = n1
  nx = nx
  aMe = aMe
  a1 = a1
  c1 = c1
  c2 = c2
  c3 = c3
  NodeAddrs <- MCNodeAddrs
  SelfAddr = me
  LocalNode = local
  NetAddrs <- MCNetAddrs
  ResolveServer = resolver
  Conf <- MCConf
  Conns <- MCConns
  None = None
  kMaxCachedMessageNum = 1
  WriteMayFail = FALSE
  MaxMessages = 2
  MaxDisconnects = 1
INVARIANTS
  UnRegisterNodeFinds
CHECK_DEADLOCK FALSE

-------------------------- MODULE CpmServerRefinement --------------------------
(***************************************************************************)
(* A cpmd implements Outbox, and so keeps the messages for a node in order. *)
(***************************************************************************)
EXTENDS CpmServerProofs

\* Between two callbacks nothing waits in the cache of a connected node,
\* unless writes can be refused.
FlushedWhileConnected ==
  WriteMayFail \/ \A n \in NodeAddrs : Connected(n) => messages_to_deliver[n] = <<>>

\* Where a node that is located, or in nodes_index_, is.
LEMMA KnownAddress ==
  ASSUME IInv, NEW n \in NodeAddrs
  PROVE  /\ Resolved(n) => n \in DOMAIN Conf /\ net_address[n] = Conf[n]
         /\ Connected(n) => /\ Located(n) /\ Resolved(n) /\ weak_conn[n] \in Conns
                            /\ conn[weak_conn[n]].peer = net_address[n]
         /\ \A a \in NetAddrs : nodes_index[a] = n => Resolved(n) /\ net_address[n] = a
<1>1. TypeOK /\ WeakConns /\ IndexedNodes /\ ResolvedAddresses /\ n # None
  BY AddressAssumption DEF IInv
<1>2. Connected(n) => /\ weak_conn[n] \in Conns /\ net_address[n] \in NetAddrs
                      /\ nodes_index[net_address[n]] = n
                      /\ conn[weak_conn[n]].peer = net_address[n]
  BY <1>1 DEF Connected, WeakConns, TypeOK
<1> QED BY <1>1, <1>2 DEF IndexedNodes, ResolvedAddresses, Located, Resolved, NotResolved

\* A step on connection c that opens none, except one that was being made,
\* connects no node.
LEMMA NothingConnects ==
  ASSUME IInv, NEW c \in Conns,
         \A d \in Conns : d # c => conn'[d] = conn[d],
         conn'[c].state = "open" => conn[c].state = "connecting",
         \A n \in NodeAddrs : weak_conn'[n] \in {weak_conn[n], None}
  PROVE  \A n \in NodeAddrs : Connected(n)' => Connected(n)
<1> SUFFICES ASSUME NEW n \in NodeAddrs, Connected(n)'
             PROVE  Connected(n)
  OBVIOUS
<1>1. weak_conn[n] \in Conns /\ weak_conn'[n] = weak_conn[n] /\ weak_conn[n] # None
  BY DEF Connected, IInv, TypeOK
<1>2. conn[weak_conn[n]].state # "connecting"
  BY <1>1 DEF IInv, WeakConns
<1> QED BY <1>1, <1>2 DEF Connected

LEMMA StillFlushed ==
  ASSUME FlushedWhileConnected, UNCHANGED messages_to_deliver,
         \A n \in NodeAddrs : Connected(n)' => Connected(n)
  PROVE  FlushedWhileConnected'
BY DEF FlushedWhileConnected

LEMMA CachedFlushed ==
  ASSUME IInv, FlushedWhileConnected, NEW n \in NodeAddrs, NEW m, CacheMessage(n, m),
         ~Connected(n) \/ WriteMayFail, UNCHANGED <<weak_conn, conn>>
  PROVE  FlushedWhileConnected'
<1>1. \A k \in NodeAddrs : k # n => messages_to_deliver'[k] = messages_to_deliver[k]
  BY DEF CacheMessage, IInv, TypeOK
<1> QED BY <1>1 DEF FlushedWhileConnected, Connected

LEMMA MessageFlushed ==
  ASSUME IInv, FlushedWhileConnected, NEW n \in NodeAddrs, HandleToRemoteMessage(n)
  PROVE  FlushedWhileConnected'
<1>1. CASE SendToConnected(n)
  BY <1>1 DEF SendToConnected, nodeVars, FlushedWhileConnected, Connected
<1>2. CASE CacheRefused(n)
  BY <1>2, CachedFlushed DEF CacheRefused
<1>3. CASE CacheUntilConnected(n)
  BY <1>3, CachedFlushed DEF CacheUntilConnected
<1>4. CASE LookupNode(n)
  BY <1>4, CachedFlushed, KnownAddress DEF LookupNode
<1>5. CASE ConnectOnDemand(n)
  <2>1. CASE Registered(net_address[n])
    BY <1>5, <2>1 DEF ConnectOnDemand, Abort, nodeVars, FlushedWhileConnected, Connected
  <2>2. CASE ~Registered(net_address[n])
    <3>1. PICK c \in Conns : ConnectTo(c, net_address[n])
      BY <1>5, <2>2 DEF ConnectOnDemand
    <3>2. UNCHANGED <<messages_to_deliver, weak_conn>>
      BY <1>5, <2>2 DEF ConnectOnDemand
    <3>3. \A k \in NodeAddrs : Connected(k)' => Connected(k)
      BY <3>1, <3>2, NothingConnects DEF ConnectTo, IInv, TypeOK
    <3> QED BY <3>2, <3>3, StillFlushed
  <2> QED BY <2>1, <2>2
<1> QED BY <1>1, <1>2, <1>3, <1>4, <1>5 DEF HandleToRemoteMessage

LEMMA SetConnectionFlushed ==
  ASSUME IInv, FlushedWhileConnected, NEW c \in Conns, NEW n \in NodeAddrs,
         conn[c].state = "connecting", SetConnection(n, c)
  PROVE  FlushedWhileConnected'
<1>1. /\ messages_to_deliver' = [messages_to_deliver EXCEPT ![n] = <<>>]
      /\ weak_conn' = [weak_conn EXCEPT ![n] = c]
      /\ conn' = [conn EXCEPT ![c].state = "open"]
  BY DEF SetConnection, EmptyCache
<1>2. ASSUME NEW k \in NodeAddrs, k # n, Connected(k)'
      PROVE  Connected(k)
  <2>1. weak_conn'[k] = weak_conn[k] /\ weak_conn[k] # None /\ weak_conn[k] \in Conns
    BY <1>1, <1>2 DEF Connected, IInv, TypeOK
  <2>2. weak_conn[k] # c
    BY <2>1 DEF IInv, WeakConns
  <2> QED BY <1>1, <1>2, <2>1, <2>2 DEF Connected, IInv, TypeOK
<1> QED BY <1>1, <1>2 DEF FlushedWhileConnected, IInv, TypeOK

\* The callbacks that leave every cache alone.
LEMMA CallbackFlushed ==
  ASSUME IInv, FlushedWhileConnected, UNCHANGED messages_to_deliver,
         \/ UNCHANGED <<conn, weak_conn>>
         \/ \E c \in Conns :
              /\ \A d \in Conns : d # c => conn'[d] = conn[d]
              /\ conn'[c].state = "open" => conn[c].state = "connecting"
              /\ \A n \in NodeAddrs : weak_conn'[n] \in {weak_conn[n], None}
  PROVE  FlushedWhileConnected'
BY NothingConnects, StillFlushed DEF FlushedWhileConnected, Connected

\* What the callbacks other than HandleToRemoteMessage and SetConnection leave
\* alone, and the one connection they change.
Quiet ==
  /\ UNCHANGED <<messages_to_deliver, wire, accepted, dropped, unreported>>
  /\ \/ UNCHANGED <<conn, weak_conn>>
     \/ \E c \in Conns :
          /\ \A d \in Conns : d # c => conn'[d] = conn[d]
          /\ conn'[c].state = "open" => conn[c].state = "connecting"
          /\ \A n \in NodeAddrs : weak_conn'[n] \in {weak_conn[n], None}

LEMMA ChangesOneConnection ==
  ASSUME IInv, NEW c \in Conns,
         \/ conn' = [conn EXCEPT ![c] = Free]
         \/ \E a : conn' = [conn EXCEPT ![c] = [peer |-> a, state |-> "connecting"]]
         \/ conn' = [conn EXCEPT ![c].state = "closed"]
         \/ conn' = [conn EXCEPT ![c].state = "open"] /\ conn[c].state = "connecting"
  PROVE  /\ \A d \in Conns : d # c => conn'[d] = conn[d]
         /\ conn'[c].state = "open" => conn[c].state = "connecting"
<1>1. conn \in [Conns -> Connections]
  BY DEF IInv, TypeOK
<1>2. Connections \subseteq [peer : Peers \cup {None}, state : {"free", "connecting", "open", "closed"}]
  BY DEF Connections, Free
<1>3. conn[c] \in [peer : Peers \cup {None}, state : {"free", "connecting", "open", "closed"}]
  BY <1>1, <1>2
<1>4. CASE \/ conn' = [conn EXCEPT ![c] = Free]
           \/ \E a : conn' = [conn EXCEPT ![c] = [peer |-> a, state |-> "connecting"]]
  BY <1>1, <1>4 DEF Free
<1>5. CASE conn' = [conn EXCEPT ![c].state = "closed"]
  BY <1>1, <1>3, <1>5
<1>6. CASE conn' = [conn EXCEPT ![c].state = "open"] /\ conn[c].state = "connecting"
  BY <1>1, <1>6
<1> QED BY <1>4, <1>5, <1>6

LEMMA UpdateNodeAddressCacheQuiet ==
  ASSUME IInv, NEW n, NEW found, NEW a, NEW left, UpdateNodeAddressCache(n, found, a, left)
  PROVE  Quiet
<1>1. CASE \/ n \notin nodes /\ ~found
           \/ found /\ HasCachedMessage(n) /\ ~Connected(n) /\ Registered(a)
  BY <1>1 DEF UpdateNodeAddressCache, Abort, nodeVars, msgVars, Quiet
<1>2. CASE ~(\/ n \notin nodes /\ ~found
             \/ found /\ HasCachedMessage(n) /\ ~Connected(n) /\ Registered(a))
  <2>1. UNCHANGED <<messages_to_deliver, wire, accepted, dropped, unreported, weak_conn>>
    BY <1>2 DEF UpdateNodeAddressCache, msgVars
  <2>2. UNCHANGED conn \/ \E c \in Conns : ConnectTo(c, a)
    BY <1>2 DEF UpdateNodeAddressCache
  <2>3. ASSUME NEW c \in Conns, ConnectTo(c, a)
        PROVE  Quiet
    <3>1. conn' = [conn EXCEPT ![c] = [peer |-> a, state |-> "connecting"]]
      BY <2>3 DEF ConnectTo
    <3>2. /\ \A d \in Conns : d # c => conn'[d] = conn[d]
          /\ conn'[c].state = "open" => conn[c].state = "connecting"
      BY <3>1, ChangesOneConnection
    <3> QED BY <2>1, <3>2 DEF Quiet
  <2> QED BY <2>1, <2>2, <2>3 DEF Quiet
<1> QED BY <1>1, <1>2

\* An error or a close callback of a node's connection.
LEMMA EndQuiet ==
  ASSUME IInv, NEW c \in Conns,
         \/ OnConnectToRemoteNodeError(c) \/ OnRemoteNodeDisconnected(c)
         \/ OnConnectedToResolveServerError(c) \/ OnResolveServerDisconnected(c)
  PROVE  Quiet
<1>1. CASE \E where : Abort(where)
  BY <1>1 DEF Abort, nodeVars, msgVars, Quiet
<1>2. CASE conn' = [conn EXCEPT ![c] = Free]
  <2>1. /\ \A d \in Conns : d # c => conn'[d] = conn[d]
        /\ conn'[c].state = "open" => conn[c].state = "connecting"
    BY <1>2, ChangesOneConnection
  <2>2. UNCHANGED <<messages_to_deliver, wire, accepted, dropped, unreported>>
    BY DEF OnConnectToRemoteNodeError, OnRemoteNodeDisconnected, OnConnectedToResolveServerError,
           OnResolveServerDisconnected, Abort, nodeVars, msgVars
  <2>3. weak_conn' = weak_conn \/ \E n : ClearConnection(n)
    BY DEF OnConnectToRemoteNodeError, OnRemoteNodeDisconnected, OnConnectedToResolveServerError,
           OnResolveServerDisconnected, Abort, nodeVars
  <2>4. \A n \in NodeAddrs : weak_conn'[n] \in {weak_conn[n], None}
    BY <2>3 DEF ClearConnection, IInv, TypeOK
  <2> QED BY <2>1, <2>2, <2>4 DEF Quiet
<1> QED BY <1>1, <1>2
        DEF OnConnectToRemoteNodeError, OnRemoteNodeDisconnected, OnConnectedToResolveServerError,
            OnResolveServerDisconnected

LEMMA ResolveLinkQuiet ==
  ASSUME IInv, NEW c \in Conns,
         \/ OnConnectedToResolveServer(c) \/ PeerCloses(c)
         \/ UpdateSelfAddress(c) \/ ReadRefusal(c) \/ ReadStaleSelf(c)
  PROVE  Quiet
<1>1. UNCHANGED <<messages_to_deliver, wire, accepted, dropped, unreported, weak_conn>>
  BY DEF OnConnectedToResolveServer, PeerCloses, UpdateSelfAddress, ReadRefusal, ReadStaleSelf,
         nodeVars, msgVars
<1>2. \/ UNCHANGED conn
      \/ conn' = [conn EXCEPT ![c].state = "closed"]
      \/ conn' = [conn EXCEPT ![c].state = "open"] /\ conn[c].state = "connecting"
  BY DEF OnConnectedToResolveServer, PeerCloses, UpdateSelfAddress, ReadRefusal, ReadStaleSelf
<1>3. CASE UNCHANGED conn
  BY <1>1, <1>3 DEF Quiet
<1>4. CASE \/ conn' = [conn EXCEPT ![c].state = "closed"]
           \/ conn' = [conn EXCEPT ![c].state = "open"] /\ conn[c].state = "connecting"
  <2>1. /\ \A d \in Conns : d # c => conn'[d] = conn[d]
        /\ conn'[c].state = "open" => conn[c].state = "connecting"
    BY <1>4, ChangesOneConnection
  <2> QED BY <1>1, <2>1 DEF Quiet
<1> QED BY <1>2, <1>3, <1>4

LEMMA ReconnectTimerQuiet == ASSUME IInv, ReconnectTimer PROVE Quiet
<1>1. UNCHANGED <<messages_to_deliver, wire, accepted, dropped, unreported, weak_conn>>
  BY DEF ReconnectTimer, nodeVars, msgVars
<1>2. PICK c \in Conns : conn' = [conn EXCEPT ![c] = [peer |-> ResolveServer, state |-> "connecting"]]
  BY DEF ReconnectTimer, ConnectTo
<1>3. /\ \A d \in Conns : d # c => conn'[d] = conn[d]
      /\ conn'[c].state = "open" => conn[c].state = "connecting"
  BY <1>2, ChangesOneConnection
<1> QED BY <1>1, <1>3 DEF Quiet

\* Every step handles a message, flushes a cache, or is quiet.
LEMMA StepKinds ==
  ASSUME IInv, [Next]_vars
  PROVE  \/ \E n \in NodeAddrs : HandleToRemoteMessage(n)
         \/ \E c \in Conns, n \in NodeAddrs :
              /\ conn[c].state = "connecting"
              /\ conn[c].peer \in NetAddrs
              /\ nodes_index[conn[c].peer] = n
              /\ SetConnection(n, c)
         \/ Quiet
<1>1. CASE \E c \in Conns : OnConnectedToRemoteNode(c)
  <2>1. PICK c \in Conns : OnConnectedToRemoteNode(c)
    BY <1>1
  <2>2. CASE \E where : Abort(where)
    BY <2>2 DEF Abort, nodeVars, msgVars, Quiet
  <2>3. CASE ~\E where : Abort(where)
    <3>1. conn[c].state = "connecting" /\ conn[c].peer # ResolveServer
      BY <2>1 DEF OnConnectedToRemoteNode
    <3>2. conn[c].peer \in NetAddrs
      BY <3>1 DEF IInv, TypeOK, Connections, Free, Peers
    <3>3. nodes_index[conn[c].peer] # None /\ SetConnection(nodes_index[conn[c].peer], c)
      BY <2>1, <2>3 DEF OnConnectedToRemoteNode, FindNodeByNetAddress
    <3>4. nodes_index[conn[c].peer] \in NodeAddrs
      BY <3>2, <3>3 DEF IInv, TypeOK
    <3> QED BY <3>1, <3>2, <3>3, <3>4
  <2> QED BY <2>2, <2>3
<1>2. CASE \E c \in Conns : ReadLookupResponse(c) \/ ReadStaleResponse(c)
  BY <1>2, UpdateNodeAddressCacheQuiet DEF ReadLookupResponse, ReadStaleResponse
<1>3. CASE UNCHANGED vars
  BY <1>3 DEF vars, nodeVars, msgVars, Quiet
<1>4. CASE ReconnectTimer
  BY <1>4, ReconnectTimerQuiet
<1> QED BY <1>1, <1>2, <1>3, <1>4, EndQuiet, ResolveLinkQuiet
        DEF Next, OnConnectedToRemote, OnConnectToRemoteError, OnConnectToRemoteClose,
            HandleResolveServerMessage

LEMMA FlushedStep ==
  IInv /\ FlushedWhileConnected /\ [Next]_vars => FlushedWhileConnected'
<1> SUFFICES ASSUME IInv, FlushedWhileConnected, [Next]_vars
             PROVE  FlushedWhileConnected'
  OBVIOUS
<1>1. CASE Quiet
  BY <1>1, CallbackFlushed DEF Quiet
<1> QED BY <1>1, StepKinds, MessageFlushed, SetConnectionFlushed
-----------------------------------------------------------------------------
(* Each step of a cpmd is a step of its outbox, or none.                     *)

LEMMA InitImplements == Init => Delivery!OutboxInit
BY DEF Init, Delivery!OutboxInit

LEMMA SameCache ==
  ASSUME NEW n \in NodeAddrs, CacheMessage(n, NewMessage(n)), accepted' = accepted + 1,
         UNCHANGED <<wire, unreported>>
  PROVE  Delivery!Keep(n)
BY DEF CacheMessage, NewMessage, Push, Droped, Full, Delivery!Keep, Delivery!Post,
       Delivery!Push, Delivery!Droped, Delivery!Full

LEMMA MessageImplements ==
  ASSUME IInv, FlushedWhileConnected, NEW n \in NodeAddrs, HandleToRemoteMessage(n)
  PROVE  Delivery!OutboxNext \/ UNCHANGED Delivery!outboxVars
<1>1. CASE SendToConnected(n)
  <2>1. n \in DOMAIN Conf /\ conn[weak_conn[n]].peer = Conf[n]
    BY <1>1, KnownAddress DEF SendToConnected
  <2>2. messages_to_deliver[n] = <<>> \/ WriteMayFail
    BY <1>1 DEF SendToConnected, FlushedWhileConnected
  <2>3. Delivery!Transmit(n)
    BY <1>1, <2>1, <2>2 DEF SendToConnected, NewMessage, nodeVars, Delivery!Transmit, Delivery!Post
  <2> QED BY <2>3 DEF Delivery!OutboxNext
<1>2. CASE CacheRefused(n) \/ CacheUntilConnected(n) \/ LookupNode(n)
  <2>1. Delivery!Keep(n)
    BY <1>2, SameCache DEF CacheRefused, CacheUntilConnected, LookupNode
  <2> QED BY <2>1 DEF Delivery!OutboxNext
<1>3. CASE ConnectOnDemand(n)
  <2>1. CASE Registered(net_address[n])
    BY <1>3, <2>1 DEF ConnectOnDemand, Abort, nodeVars, msgVars, Delivery!outboxVars
  <2>2. CASE ~Registered(net_address[n])
    <3>1. n \in DOMAIN Conf
      BY <1>3, KnownAddress DEF ConnectOnDemand
    <3>2. Delivery!GiveUp(n)
      BY <1>3, <2>2, <3>1 DEF ConnectOnDemand, NewMessage, Delivery!GiveUp, Delivery!Post
    <3> QED BY <3>2 DEF Delivery!OutboxNext
  <2> QED BY <2>1, <2>2
<1> QED BY <1>1, <1>2, <1>3 DEF HandleToRemoteMessage

LEMMA StepImplements ==
  IInv /\ FlushedWhileConnected /\ [Next]_vars => [Delivery!OutboxNext]_(Delivery!outboxVars)
<1> SUFFICES ASSUME IInv, FlushedWhileConnected, [Next]_vars
             PROVE  Delivery!OutboxNext \/ UNCHANGED Delivery!outboxVars
  OBVIOUS
<1>1. CASE Quiet
  BY <1>1 DEF Quiet, Delivery!outboxVars
<1>2. ASSUME NEW c \in Conns, NEW n \in NodeAddrs, conn[c].peer \in NetAddrs,
             nodes_index[conn[c].peer] = n, SetConnection(n, c)
      PROVE  Delivery!OutboxNext
  <2>1. n \in DOMAIN Conf /\ conn[c].peer = Conf[n]
    BY <1>2, KnownAddress
  <2>2. Delivery!Flush(n)
    BY <1>2, <2>1 DEF SetConnection, EmptyCache, Delivery!Flush
  <2> QED BY <2>2 DEF Delivery!OutboxNext
<1> QED BY <1>1, <1>2, StepKinds, MessageImplements

LEMMA InitFlushed == Init => FlushedWhileConnected
BY AddressAssumption DEF Init, FlushedWhileConnected, Connected

\* What a cpmd does with the messages for other nodes is what Outbox allows.
THEOREM Implements == Spec => ImplementsOutbox
<1>1. Spec => []FlushedWhileConnected
  BY InitFlushed, FlushedStep, Invariant, PTL DEF Spec
<1>2. Init => Delivery!OutboxInit
  BY InitImplements
<1>3. IInv /\ FlushedWhileConnected /\ [Next]_vars => [Delivery!OutboxNext]_(Delivery!outboxVars)
  BY StepImplements
<1> QED BY <1>1, <1>2, <1>3, Invariant, PTL DEF Spec, ImplementsOutbox, Delivery!OutboxSpec

DeliveryProofs == INSTANCE OutboxProofs WITH
  sent <- wire, pending <- messages_to_deliver, lost <- dropped \cup unreported,
  posted <- accepted, Overtaking <- WriteMayFail

\* When no Write refuses a message, the messages for a node are written in the
\* order in which its clients sent them.
THEOREM SentInOrderCorrect ==
  ASSUME ~WriteMayFail
  PROVE  Spec => []SentInOrder
<1>1. DeliveryProofs!InOrderConstants
  BY ConfAssumption, CapacityAssumption DEF DeliveryProofs!InOrderConstants
<1>2. DeliveryProofs!OutboxSpec => []DeliveryProofs!InOrder
  BY <1>1, DeliveryProofs!InOrderCorrect
<1>3. /\ Delivery!OutboxInit => DeliveryProofs!OutboxInit
      /\ [Delivery!OutboxNext]_(Delivery!outboxVars)
           => [DeliveryProofs!OutboxNext]_(DeliveryProofs!outboxVars)
  BY DEF Delivery!OutboxInit, DeliveryProofs!OutboxInit, Delivery!OutboxNext,
         DeliveryProofs!OutboxNext, Delivery!outboxVars, DeliveryProofs!outboxVars,
         Delivery!Transmit, DeliveryProofs!Transmit, Delivery!Keep, DeliveryProofs!Keep,
         Delivery!GiveUp, DeliveryProofs!GiveUp, Delivery!Flush, DeliveryProofs!Flush,
         Delivery!Post, DeliveryProofs!Post, Delivery!Push, DeliveryProofs!Push,
         Delivery!Droped, DeliveryProofs!Droped, Delivery!Full, DeliveryProofs!Full
<1>4. DeliveryProofs!InOrder <=> SentInOrder
  BY DEF SentInOrder, DeliveryProofs!InOrder, Delivery!InOrder, DeliveryProofs!Increasing, Delivery!Increasing
<1> QED BY <1>2, <1>3, <1>4, Implements, PTL
        DEF ImplementsOutbox, Delivery!OutboxSpec, DeliveryProofs!OutboxSpec
=============================================================================

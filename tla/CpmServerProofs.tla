--------------------------- MODULE CpmServerProofs ---------------------------
(***************************************************************************)
(* Proofs about CpmServer, for any sets of nodes, addresses and connections,*)
(* any table Conf, any cache capacity and any number of messages and         *)
(* disconnections.                                                         *)
(***************************************************************************)
EXTENDS CpmServer, FiniteSetTheorems, SequenceTheorems, TLAPS

\* One-line operators that every proof may look into.
USE DEF FindNodeByNetAddress, EmptyCache, ClearConnection, ReconnectToResolveServer, Answered

\* The elements of a sequence under Append, Tail and concatenation.
LEMMA ElementsAppend ==
  ASSUME NEW S, NEW q \in Seq(S), NEW m \in S
  PROVE  Elements(Append(q, m)) \subseteq Elements(q) \cup {m}
<1>1. /\ Len(Append(q, m)) = Len(q) + 1
      /\ \A i \in 1 .. Len(q) : Append(q, m)[i] = q[i]
      /\ Append(q, m)[Len(q) + 1] = m
      /\ Len(q) \in Nat
  BY AppendProperties, LenProperties
<1>2. ASSUME NEW i \in 1 .. Len(q) + 1
      PROVE  Append(q, m)[i] \in Elements(q) \cup {m}
  <2>1. CASE i = Len(q) + 1
    BY <1>1, <2>1
  <2>2. CASE i \in 1 .. Len(q)
    BY <1>1, <2>2 DEF Elements
  <2> QED BY <1>1, <2>1, <2>2
<1> QED BY <1>1, <1>2 DEF Elements

LEMMA ElementsTail ==
  ASSUME NEW S, NEW q \in Seq(S), q # <<>>
  PROVE  Elements(Tail(q)) \subseteq Elements(q) /\ Head(q) \in Elements(q)
<1>1. /\ Len(Tail(q)) = Len(q) - 1
      /\ \A i \in 1 .. Len(Tail(q)) : Tail(q)[i] = q[i + 1]
      /\ Len(q) \in Nat \ {0}
      /\ Head(q) = q[1]
  BY HeadTailProperties, EmptySeq
<1>2. \A i \in 1 .. Len(q) - 1 : i + 1 \in 1 .. Len(q)
  BY <1>1
<1> QED BY <1>1, <1>2 DEF Elements

LEMMA ElementsConcat ==
  ASSUME NEW S, NEW q \in Seq(S), NEW r \in Seq(S)
  PROVE  Elements(q \o r) \subseteq Elements(q) \cup Elements(r)
<1>1. /\ Len(q \o r) = Len(q) + Len(r)
      /\ \A i \in 1 .. Len(q) + Len(r) :
           (q \o r)[i] = IF i <= Len(q) THEN q[i] ELSE r[i - Len(q)]
      /\ Len(q) \in Nat /\ Len(r) \in Nat
  BY ConcatProperties, LenProperties
<1>2. ASSUME NEW i \in 1 .. Len(q) + Len(r)
      PROVE  (q \o r)[i] \in Elements(q) \cup Elements(r)
  <2>1. CASE i <= Len(q)
    <3>1. (q \o r)[i] = q[i] /\ i \in 1 .. Len(q)
      BY <1>1, <2>1
    <3> QED BY <3>1 DEF Elements
  <2>2. CASE ~(i <= Len(q))
    <3>1. (q \o r)[i] = r[i - Len(q)] /\ i - Len(q) \in 1 .. Len(r)
      BY <1>1, <2>2
    <3> QED BY <3>1 DEF Elements
  <2> QED BY <2>1, <2>2
<1> QED BY <1>1, <1>2 DEF Elements

\* Push keeps a queue within its capacity and adds nothing but the message;
\* what it drops was in the queue.
LEMMA PushProperties ==
  ASSUME NEW S, NEW q \in Seq(S), NEW m \in S, NEW max \in Nat \ {0}, Len(q) <= max
  PROVE  /\ Push(q, m, max) \in Seq(S)
         /\ Len(Push(q, m, max)) <= max
         /\ Elements(Push(q, m, max)) \subseteq Elements(q) \cup {m}
         /\ Droped(q, max) \subseteq S
<1>1. CASE Full(q, max)
  <2>1. q # <<>> /\ Len(q) = max
    BY <1>1 DEF Full
  <2>2. Tail(q) \in Seq(S) /\ Len(Tail(q)) = max - 1 /\ Head(q) \in S
    BY <2>1, HeadTailProperties
  <2>3. Push(q, m, max) = Append(Tail(q), m) /\ Droped(q, max) = {Head(q)}
    BY <1>1 DEF Push, Droped
  <2>4. Elements(Append(Tail(q), m)) \subseteq Elements(q) \cup {m}
    BY <2>1, <2>2, ElementsAppend, ElementsTail
  <2> QED BY <2>2, <2>3, <2>4, AppendProperties
<1>2. CASE ~Full(q, max)
  <2>1. Push(q, m, max) = Append(q, m) /\ Droped(q, max) = {}
    BY <1>2 DEF Push, Droped
  <2>2. Len(q) < max
    BY <1>2 DEF Full
  <2> QED BY <2>1, <2>2, ElementsAppend, AppendProperties
<1> QED BY <1>1, <1>2

\* What caching message m for node n does to the caches and the dropped set.
LEMMA CacheMessageType ==
  ASSUME TypeOK, NEW n \in NodeAddrs, NEW m \in Messages, CacheMessage(n, m)
  PROVE  /\ messages_to_deliver' \in [NodeAddrs -> Seq(Messages)]
         /\ \A k \in NodeAddrs : Len(messages_to_deliver'[k]) <= kMaxCachedMessageNum
         /\ dropped' \subseteq Messages
         /\ \A k \in NodeAddrs : k # n => messages_to_deliver'[k] = messages_to_deliver[k]
         /\ Elements(messages_to_deliver'[n]) \subseteq Elements(messages_to_deliver[n]) \cup {m}
<1> DEFINE q == messages_to_deliver[n]
<1>1. q \in Seq(Messages) /\ Len(q) <= kMaxCachedMessageNum
  BY DEF TypeOK
<1>2. /\ Push(q, m, kMaxCachedMessageNum) \in Seq(Messages)
      /\ Len(Push(q, m, kMaxCachedMessageNum)) <= kMaxCachedMessageNum
      /\ Elements(Push(q, m, kMaxCachedMessageNum)) \subseteq Elements(q) \cup {m}
      /\ Droped(q, kMaxCachedMessageNum) \subseteq Messages
  BY <1>1, CapacityAssumption, PushProperties
<1>3. /\ messages_to_deliver' = [messages_to_deliver EXCEPT ![n] = Push(q, m, kMaxCachedMessageNum)]
      /\ dropped' = dropped \cup Droped(q, kMaxCachedMessageNum)
  BY DEF CacheMessage
<1> QED BY <1>2, <1>3 DEF TypeOK

LEMMA NewMessageType ==
  ASSUME TypeOK, NEW n \in NodeAddrs
  PROVE  NewMessage(n) \in Messages /\ NewMessage(n).to = n
BY DEF TypeOK, NewMessage, Messages

LEMMA InitInvariant == Init => IInv
<1> SUFFICES ASSUME Init PROVE IInv
  OBVIOUS
<1>0. PICK c \in Conns :
        conn = [d \in Conns |-> IF d = c THEN [peer |-> ResolveServer, state |-> "connecting"]
                                         ELSE Free]
  BY DEF Init
<1>1. TypeOK
  <2>1. conn \in [Conns -> Connections]
    BY <1>0 DEF Peers, Connections
  <2> QED BY <2>1, BoundAssumption, CapacityAssumption DEF Init, TypeOK, ResolveStates, Functions
<1>2. ResolveServer # None /\ None \notin NetAddrs /\ ResolveServer \notin NetAddrs /\ None \notin Conns
  BY AddressAssumption
<1>3. /\ AssertionsHold
      /\ OneConnectionPerPeer
      /\ IndexedNodes
      /\ IndexedConns
      /\ WeakConns
      /\ Link
  BY <1>0, <1>2 DEF Init, AssertionsHold, OneConnectionPerPeer, IndexedNodes, IndexedConns,
                    WeakConns, Link, Free
<1>4. /\ ResolvedAddresses
      /\ UnknownNodes
      /\ PendingRequests
      /\ RoutedToDestination
  BY DEF Init, ResolvedAddresses, UnknownNodes, PendingRequests, Lookups, RoutedToDestination,
         Elements, Resolved, NotResolved
<1> QED BY <1>1, <1>3, <1>4 DEF IInv
-----------------------------------------------------------------------------
(* Type correctness, one step per action.                                   *)

LEMMA ConnectToType ==
  ASSUME TypeOK, NEW c \in Conns, NEW a \in Peers, ConnectTo(c, a)
  PROVE  conn' \in [Conns -> Connections]
BY DEF TypeOK, ConnectTo, Connections

LEMMA SetStateType ==
  ASSUME TypeOK, NEW c \in Conns, conn[c] # Free, NEW s \in {"connecting", "open", "closed"},
         conn' = [conn EXCEPT ![c].state = s]
  PROVE  /\ conn' \in [Conns -> Connections]
         /\ conn' = [conn EXCEPT ![c] = [peer |-> conn[c].peer, state |-> s]]
<1>1. conn[c] \in [peer : Peers, state : {"connecting", "open", "closed"}]
  BY DEF TypeOK, Connections
<1>2. [conn[c] EXCEPT !.state = s] = [peer |-> conn[c].peer, state |-> s]
  BY <1>1
<1>3. conn' = [conn EXCEPT ![c] = [peer |-> conn[c].peer, state |-> s]]
  BY <1>2
<1>4. [peer |-> conn[c].peer, state |-> s] \in Connections
  BY <1>1 DEF Connections
<1> QED BY <1>3, <1>4 DEF TypeOK

LEMMA AbortType ==
  ASSUME TypeOK, NEW where \in Functions, Abort(where)
  PROVE  TypeOK'
BY DEF TypeOK, Abort, nodeVars, linkVars, msgVars

LEMMA TakeMessageType ==
  ASSUME TypeOK, NEW n \in NodeAddrs, TakeMessage(n)
  PROVE  accepted + 1 \in 0 .. MaxMessages
BY BoundAssumption DEF TypeOK, TakeMessage

\* IInv is needed where a node's address is used as one: only a resolved node
\* has an address.
LEMMA UpdateNodeAddressCacheType ==
  ASSUME TypeOK, NEW n \in NodeAddrs, NEW left \in [Conns -> Seq(Requests)],
         UpdateNodeAddressCache(n, n \in DOMAIN Conf,
                                IF n \in DOMAIN Conf THEN Conf[n] ELSE None, left)
  PROVE  TypeOK'
<1> DEFINE a == IF n \in DOMAIN Conf THEN Conf[n] ELSE None
<1>1. UpdateNodeAddressCache(n, n \in DOMAIN Conf, a, left)
  OBVIOUS
<1>2. n \in DOMAIN Conf => a \in NetAddrs
  BY ConfAssumption
<1> HIDE DEF a
<1>3. CASE \/ n \notin nodes /\ n \notin DOMAIN Conf
           \/ n \in DOMAIN Conf /\ HasCachedMessage(n) /\ ~Connected(n) /\ Registered(a)
  BY <1>1, <1>3, AbortType DEF UpdateNodeAddressCache, Functions
<1>4. CASE ~(\/ n \notin nodes /\ n \notin DOMAIN Conf
             \/ n \in DOMAIN Conf /\ HasCachedMessage(n) /\ ~Connected(n) /\ Registered(a))
  <2>1. conn' \in [Conns -> Connections] /\ nodes_index' \in [NetAddrs -> NodeAddrs \cup {None}]
    <3>1. CASE n \in DOMAIN Conf /\ HasCachedMessage(n) /\ ~Connected(n)
      <4>1. (\E c \in Conns : ConnectTo(c, a)) /\ RegisterNode(n, a) /\ a \in NetAddrs
        BY <1>1, <1>2, <1>4, <3>1 DEF UpdateNodeAddressCache
      <4>2. conn' \in [Conns -> Connections]
        BY <4>1, ConnectToType DEF Peers
      <4>3. nodes_index' \in [NetAddrs -> NodeAddrs \cup {None}]
        BY <4>1 DEF RegisterNode, TypeOK
      <4> QED BY <4>2, <4>3
    <3>2. CASE ~(n \in DOMAIN Conf /\ HasCachedMessage(n) /\ ~Connected(n))
      BY <1>1, <1>4, <3>2 DEF UpdateNodeAddressCache, TypeOK
    <3> QED BY <3>1, <3>2
  <2>2. net_address' \in [NodeAddrs -> NetAddrs \cup {None}]
    BY <1>1, <1>2, <1>4 DEF UpdateNodeAddressCache, TypeOK
  <2>3. resolve_state' \in [NodeAddrs -> ResolveStates]
    BY <1>1, <1>4 DEF UpdateNodeAddressCache, TypeOK, ResolveStates
  <2>4. nodes' \subseteq NodeAddrs /\ requests' \in [Conns -> Seq(Requests)]
    BY <1>1, <1>4 DEF UpdateNodeAddressCache, TypeOK
  <2>5. UNCHANGED <<connecting, messages_to_deliver, weak_conn, self_address, resolve_server_conn,
                    timers, wire, accepted, dropped, unreported, disconnects,
                    aborted>>
    BY <1>1, <1>4 DEF UpdateNodeAddressCache, linkVars, msgVars
  <2> QED BY <2>1, <2>2, <2>3, <2>4, <2>5 DEF TypeOK
<1> QED BY <1>3, <1>4

LEMMA TypeStep == IInv /\ [Next]_vars => TypeOK'
<1> SUFFICES ASSUME IInv, [Next]_vars PROVE TypeOK'
  OBVIOUS
<1> TypeOK
  BY DEF IInv
<1> USE DEF nodeVars, linkVars, msgVars
<1>1. ASSUME NEW n \in NodeAddrs, SendToConnected(n) PROVE TypeOK'
  <2>1. /\ accepted + 1 \in 0 .. MaxMessages
        /\ NewMessage(n) \in Messages
    BY <1>1, TakeMessageType, NewMessageType DEF SendToConnected
  <2>2. \A a \in NetAddrs : Append(wire[a], NewMessage(n)) \in Seq(Messages)
    BY <2>1 DEF TypeOK
  <2>3. wire' \in [NetAddrs -> Seq(Messages)]
    BY <1>1, <2>2 DEF SendToConnected, TypeOK
  <2> QED BY <1>1, <2>1, <2>3 DEF SendToConnected, TypeOK
<1>2. ASSUME NEW n \in NodeAddrs, CacheRefused(n) PROVE TypeOK'
  <2>1. /\ accepted + 1 \in 0 .. MaxMessages
        /\ NewMessage(n) \in Messages
    BY <1>2, TakeMessageType, NewMessageType DEF CacheRefused
  <2>2. /\ messages_to_deliver' \in [NodeAddrs -> Seq(Messages)]
        /\ \A k \in NodeAddrs : Len(messages_to_deliver'[k]) <= kMaxCachedMessageNum
        /\ dropped' \subseteq Messages
    BY <1>2, <2>1, CacheMessageType DEF CacheRefused
  <2> QED BY <1>2, <2>1, <2>2 DEF CacheRefused, TypeOK
<1>3. ASSUME NEW n \in NodeAddrs, CacheUntilConnected(n) PROVE TypeOK'
  <2>1. /\ accepted + 1 \in 0 .. MaxMessages
        /\ NewMessage(n) \in Messages
    BY <1>3, TakeMessageType, NewMessageType DEF CacheUntilConnected
  <2>2. /\ messages_to_deliver' \in [NodeAddrs -> Seq(Messages)]
        /\ \A k \in NodeAddrs : Len(messages_to_deliver'[k]) <= kMaxCachedMessageNum
        /\ dropped' \subseteq Messages
    BY <1>3, <2>1, CacheMessageType DEF CacheUntilConnected
  <2> QED BY <1>3, <2>1, <2>2 DEF CacheUntilConnected, TypeOK
<1>4. ASSUME NEW n \in NodeAddrs, ConnectOnDemand(n) PROVE TypeOK'
  <2>1. CASE Registered(net_address[n])
    BY <1>4, <2>1, AbortType DEF ConnectOnDemand, Functions
  <2>2. CASE ~Registered(net_address[n])
    <3>1. /\ accepted + 1 \in 0 .. MaxMessages
          /\ NewMessage(n) \in Messages
      BY <1>4, TakeMessageType, NewMessageType DEF ConnectOnDemand
    <3>2. net_address[n] \in NetAddrs
      BY <1>4, ConfAssumption DEF ConnectOnDemand, IInv, ResolvedAddresses
    <3>3. conn' \in [Conns -> Connections]
      BY <1>4, <2>2, <3>2, ConnectToType DEF ConnectOnDemand, Peers
    <3> QED BY <1>4, <2>2, <3>1, <3>2, <3>3 DEF ConnectOnDemand, RegisterNode, TypeOK
  <2> QED BY <2>1, <2>2
<1>5. ASSUME NEW n \in NodeAddrs, LookupNode(n) PROVE TypeOK'
  <2>1. /\ accepted + 1 \in 0 .. MaxMessages
        /\ NewMessage(n) \in Messages
    BY <1>5, TakeMessageType, NewMessageType DEF LookupNode
  <2>2. /\ messages_to_deliver' \in [NodeAddrs -> Seq(Messages)]
        /\ \A k \in NodeAddrs : Len(messages_to_deliver'[k]) <= kMaxCachedMessageNum
        /\ dropped' \subseteq Messages
    BY <1>5, <2>1, CacheMessageType DEF LookupNode
  <2>3. requests' \in [Conns -> Seq(Requests)] /\ resolve_state' \in [NodeAddrs -> ResolveStates]
    <3>1. CASE resolve_server_conn # None
      <4>1. LookupRequest(n) \in Requests
        BY AddressAssumption DEF LookupRequest, Requests, TypeOK
      <4>2. \A c \in Conns : Append(requests[c], LookupRequest(n)) \in Seq(Requests)
        BY <4>1 DEF TypeOK
      <4> QED BY <1>5, <3>1, <4>2 DEF LookupNode, ReqeustNodeNetAddress, ResolveStates, TypeOK
    <3>2. CASE resolve_server_conn = None
      BY <1>5, <3>2 DEF LookupNode, TypeOK
    <3> QED BY <3>1, <3>2
  <2> QED BY <1>5, <2>1, <2>2, <2>3 DEF LookupNode, TypeOK
<1>6. ASSUME NEW c \in Conns, OnConnectedToRemote(c) PROVE TypeOK'
  <2>1. CASE OnConnectedToResolveServer(c)
    <3>1. conn' \in [Conns -> Connections]
      <4>1. conn[c] # Free
        BY <2>1, AddressAssumption DEF OnConnectedToResolveServer, Free
      <4> QED BY <2>1, <4>1, SetStateType DEF OnConnectedToResolveServer
    <3>2. \A d \in Conns : Append(requests[d], [type |-> "kInitializeSelf"]) \in Seq(Requests)
      BY DEF TypeOK, Requests
    <3> QED BY <2>1, <3>1, <3>2 DEF OnConnectedToResolveServer, TypeOK
  <2>2. CASE OnConnectedToRemoteNode(c)
    <3> DEFINE a == conn[c].peer
               n == nodes_index[a]
    <3>1. a \in NetAddrs /\ conn[c] # Free
      BY <2>2 DEF OnConnectedToRemoteNode, TypeOK, Connections, Free, Peers
    <3>2. n \in NodeAddrs \cup {None}
      BY <3>1 DEF TypeOK
    <3>3. CASE n # None /\ SetConnection(n, c)
      <4>1. conn' \in [Conns -> Connections]
        BY <3>1, <3>3, SetStateType DEF SetConnection
      <4>2. wire[a] \o messages_to_deliver[n] \in Seq(Messages)
        BY <3>1, <3>2, <3>3, ConcatProperties DEF TypeOK
      <4>3. wire' \in [NetAddrs -> Seq(Messages)]
        BY <3>3, <4>2 DEF TypeOK, SetConnection
      <4>4. /\ messages_to_deliver' \in [NodeAddrs -> Seq(Messages)]
            /\ \A k \in NodeAddrs : Len(messages_to_deliver'[k]) <= kMaxCachedMessageNum
        BY <3>2, <3>3, CapacityAssumption DEF TypeOK, SetConnection
      <4> QED BY <3>2, <3>3, <4>1, <4>3, <4>4 DEF SetConnection, TypeOK
    <3> QED BY <2>2, <3>3, AbortType DEF OnConnectedToRemoteNode, Functions
  <2> QED BY <1>6, <2>1, <2>2 DEF OnConnectedToRemote
<1>7. ASSUME NEW c \in Conns, OnConnectToRemoteError(c) PROVE TypeOK'
  <2>1. CASE OnConnectedToResolveServerError(c)
    BY <2>1 DEF OnConnectedToResolveServerError, TypeOK, Connections
  <2>2. CASE OnConnectToRemoteNodeError(c)
    <3> DEFINE n == nodes_index[conn[c].peer]
    <3>1. conn[c].peer \in NetAddrs
      BY <2>2 DEF OnConnectToRemoteNodeError, TypeOK, Connections, Free, Peers
    <3>2. CASE n = None \/ ~Registered(net_address[n])
      BY <2>2, <3>2, AbortType DEF OnConnectToRemoteNodeError, Functions
    <3>3. CASE n # None /\ Registered(net_address[n])
      BY <2>2, <3>1, <3>3 DEF OnConnectToRemoteNodeError, UnRegisterNode, TypeOK, Connections
    <3> QED BY <3>2, <3>3
  <2> QED BY <1>7, <2>1, <2>2 DEF OnConnectToRemoteError
<1>8. ASSUME NEW c \in Conns, OnConnectToRemoteClose(c) PROVE TypeOK'
  <2>1. CASE OnResolveServerDisconnected(c)
    BY <2>1 DEF OnResolveServerDisconnected, TypeOK, Connections
  <2>2. CASE OnRemoteNodeDisconnected(c)
    <3> DEFINE n == nodes_index[conn[c].peer]
    <3>1. conn[c].peer \in NetAddrs
      BY <2>2 DEF OnRemoteNodeDisconnected, Closed, TypeOK, Connections, Free, Peers
    <3>2. CASE n = None \/ ~Registered(net_address[n])
      BY <2>2, <3>2, AbortType DEF OnRemoteNodeDisconnected, Functions
    <3>3. CASE n # None /\ Registered(net_address[n])
      <4>1. n \in NodeAddrs
        BY <3>1, <3>3 DEF TypeOK
      <4>2. conn' \in [Conns -> Connections] /\ nodes_index' \in [NetAddrs -> NodeAddrs \cup {None}]
        BY <2>2, <3>3 DEF OnRemoteNodeDisconnected, UnRegisterNode, TypeOK, Connections
      <4> QED BY <2>2, <3>3, <4>1, <4>2 DEF OnRemoteNodeDisconnected, TypeOK
    <3> QED BY <3>2, <3>3
  <2> QED BY <1>8, <2>1, <2>2 DEF OnConnectToRemoteClose
<1>9. ASSUME NEW c \in Conns, HandleResolveServerMessage(c) PROVE TypeOK'
  <2>1. CASE Answers(c)
    <3>1. \A d \in Conns : requests[d] # <<>> => Tail(requests[d]) \in Seq(Requests)
      BY HeadTailProperties DEF TypeOK
    <3>2. [requests EXCEPT ![c] = Tail(@)] \in [Conns -> Seq(Requests)]
      BY <2>1, <3>1 DEF TypeOK, Answers
    <3>3. Head(requests[c]) \in Requests
      BY <2>1, HeadTailProperties DEF TypeOK, Answers
    <3>4. CASE UpdateSelfAddress(c)
      BY <3>2, <3>4, AddressAssumption DEF UpdateSelfAddress, Answered, TypeOK
    <3>5. CASE ReadLookupResponse(c)
      <4> DEFINE n == Head(requests[c]).peer_addr
      <4>1. n \in NodeAddrs
        BY <3>3, <3>5 DEF ReadLookupResponse, Requests
      <4>2. UpdateNodeAddressCache(n, n \in DOMAIN Conf, IF n \in DOMAIN Conf THEN Conf[n] ELSE None,
                                   [requests EXCEPT ![c] = Tail(@)])
        BY <3>5 DEF ReadLookupResponse
      <4> HIDE DEF n
      <4> QED BY <3>2, <4>1, <4>2, UpdateNodeAddressCacheType
    <3>6. CASE ReadRefusal(c)
      <4>1. conn' \in [Conns -> Connections]
        <5>1. conn[c] # Free
          BY <2>1, AddressAssumption DEF Answers, OpenTo, Free
        <5> QED BY <3>6, <5>1, SetStateType DEF ReadRefusal
      <4> QED BY <3>6, <4>1 DEF ReadRefusal, TypeOK
    <3>7. Refused(c) \in [Conns -> Seq(Requests)]
      <4>1. <<[type |-> "refused"]>> \in Seq(Requests)
        BY DEF Requests
      <4> QED BY <4>1 DEF Refused, TypeOK
    <3>8. CASE ReadStaleSelf(c)
      BY <3>7, <3>8, ConfAssumption DEF ReadStaleSelf, TypeOK
    <3>9. CASE ReadStaleResponse(c)
      BY <3>7, <3>9, UpdateNodeAddressCacheType DEF ReadStaleResponse
    <3> QED BY <1>9, <3>4, <3>5, <3>6, <3>8, <3>9 DEF HandleResolveServerMessage
  <2> QED BY <1>9, <2>1 DEF HandleResolveServerMessage, UpdateSelfAddress, ReadLookupResponse,
                            ReadRefusal, Refuses, ReadStaleSelf, ReadStaleResponse
<1>10. ASSUME NEW c \in Conns, PeerCloses(c) PROVE TypeOK'
  <2>1. conn' \in [Conns -> Connections]
    <3>1. conn[c] # Free
      BY <1>10 DEF PeerCloses, Free
    <3> QED BY <1>10, <3>1, SetStateType DEF PeerCloses
  <2>2. disconnects + 1 \in 0 .. MaxDisconnects
    BY <1>10, BoundAssumption DEF PeerCloses, TypeOK
  <2> QED BY <1>10, <2>1, <2>2 DEF PeerCloses, TypeOK
<1>11. CASE ReconnectTimer
  <2>1. conn' \in [Conns -> Connections]
    <3>1. PICK c \in Conns : ConnectTo(c, ResolveServer)
      BY <1>11 DEF ReconnectTimer
    <3> QED BY <3>1, ConnectToType DEF Peers
  <2> QED BY <1>11, <2>1 DEF ReconnectTimer, TypeOK
<1>12. CASE UNCHANGED vars
  BY <1>12 DEF vars, TypeOK
<1> QED BY <1>1, <1>2, <1>3, <1>4, <1>5, <1>6, <1>7, <1>8, <1>9, <1>10, <1>11, <1>12
        DEF Next, HandleToRemoteMessage
-----------------------------------------------------------------------------
(* The inductive invariant.  Each lemma below shows that one action keeps    *)
(* the conjuncts of IInv other than TypeOK, which TypeStep already covers.   *)

\* The conjuncts about the tables of nodes and connections.
Tables ==
  /\ OneConnectionPerPeer
  /\ IndexedNodes
  /\ IndexedConns
  /\ WeakConns
  /\ ResolvedAddresses
  /\ UnknownNodes
  /\ Link

LEMMA IInvParts ==
  IInv <=> TypeOK /\ AssertionsHold /\ Tables /\ PendingRequests /\ RoutedToDestination
BY DEF IInv, Tables

\* A connection is free exactly if it has no peer.
LEMMA FreeConn ==
  ASSUME TypeOK, NEW c \in Conns
  PROVE  /\ conn[c] = Free => conn[c].peer = None /\ conn[c].state = "free"
         /\ conn[c] # Free => conn[c].peer \in Peers /\ conn[c].peer # None
                             /\ conn[c].state \in {"connecting", "open", "closed"}
BY AddressAssumption DEF TypeOK, Connections, Free, Peers

LEMMA TablesFrame ==
  ASSUME Tables,
         UNCHANGED <<nodes, nodes_index, resolve_state, net_address, weak_conn, conn, timers,
                     resolve_server_conn>>
  PROVE  Tables'
BY DEF Tables, OneConnectionPerPeer, IndexedNodes, IndexedConns, WeakConns, ResolvedAddresses,
       UnknownNodes, Link, Resolved, NotResolved

LEMMA RequestsFrame ==
  ASSUME PendingRequests, UNCHANGED <<requests, conn>>, nodes \subseteq nodes'
  PROVE  PendingRequests'
BY DEF PendingRequests, OpenTo, Lookups

LEMMA RoutedFrame ==
  ASSUME RoutedToDestination, UNCHANGED <<wire, messages_to_deliver>>
  PROVE  RoutedToDestination'
BY DEF RoutedToDestination

LEMMA AbortStep ==
  ASSUME IInv, NEW where \in {"RegisterNode", "SetConnection", "UpdateNodeAddressCache"},
         Abort(where)
  PROVE  (AssertionsHold /\ Tables /\ PendingRequests /\ RoutedToDestination)'
BY IInvParts, TablesFrame, RequestsFrame, RoutedFrame
DEF Abort, AssertionsHold, nodeVars, linkVars, msgVars

LEMMA SendToConnectedStep ==
  ASSUME IInv, NEW n \in NodeAddrs, SendToConnected(n)
  PROVE  (AssertionsHold /\ Tables /\ PendingRequests /\ RoutedToDestination)'
<1> DEFINE a == conn[weak_conn[n]].peer
           m == NewMessage(n)
<1>1. TypeOK /\ AssertionsHold /\ Tables /\ PendingRequests /\ RoutedToDestination
  BY IInvParts
<1>2. AssertionsHold' /\ Tables' /\ PendingRequests'
  BY <1>1, TablesFrame, RequestsFrame DEF SendToConnected, AssertionsHold, nodeVars, linkVars
<1>3. a \in NetAddrs /\ n \in DOMAIN Conf /\ Conf[n] = a
  <2>1. net_address[n] = a /\ a \in NetAddrs /\ nodes_index[a] = n
    BY <1>1 DEF SendToConnected, Connected, Tables, WeakConns
  <2>2. Resolved(n)
    BY <1>1, <2>1, AddressAssumption DEF Tables, IndexedNodes
  <2> QED BY <1>1, <2>1, <2>2 DEF Tables, ResolvedAddresses
<1>4. m \in Messages /\ m.to = n
  BY <1>1, NewMessageType
<1>5. wire' = [wire EXCEPT ![a] = Append(@, m)] /\ messages_to_deliver' = messages_to_deliver
  BY DEF SendToConnected, nodeVars
<1>6. Elements(wire'[a]) \subseteq Elements(wire[a]) \cup {m}
  BY <1>1, <1>3, <1>4, <1>5, ElementsAppend DEF TypeOK
<1>7. \A b \in NetAddrs : b # a => wire'[b] = wire[b]
  BY <1>1, <1>5 DEF TypeOK
<1>8. RoutedToDestination'
  BY <1>1, <1>3, <1>4, <1>5, <1>6, <1>7 DEF RoutedToDestination
<1> QED BY <1>2, <1>8

\* A message for node n added to its cache keeps RoutedToDestination.
LEMMA RoutedCache ==
  ASSUME TypeOK, RoutedToDestination, NEW n \in NodeAddrs, CacheMessage(n, NewMessage(n)),
         wire' = wire
  PROVE  RoutedToDestination'
<1>1. NewMessage(n) \in Messages /\ NewMessage(n).to = n
  BY NewMessageType
<1>2. /\ \A k \in NodeAddrs : k # n => messages_to_deliver'[k] = messages_to_deliver[k]
      /\ Elements(messages_to_deliver'[n])
           \subseteq Elements(messages_to_deliver[n]) \cup {NewMessage(n)}
  BY <1>1, CacheMessageType
<1> QED BY <1>1, <1>2 DEF RoutedToDestination

LEMMA CacheStep ==
  ASSUME IInv, NEW n \in NodeAddrs, CacheRefused(n) \/ CacheUntilConnected(n)
  PROVE  (AssertionsHold /\ Tables /\ PendingRequests /\ RoutedToDestination)'
<1>1. TypeOK /\ AssertionsHold /\ Tables /\ PendingRequests /\ RoutedToDestination
  BY IInvParts
<1> QED BY <1>1, TablesFrame, RequestsFrame, RoutedCache
        DEF CacheRefused, CacheUntilConnected, AssertionsHold, linkVars

LEMMA LookupNodeStep ==
  ASSUME IInv, NEW n \in NodeAddrs, LookupNode(n)
  PROVE  (AssertionsHold /\ Tables /\ PendingRequests /\ RoutedToDestination)'
<1>1. TypeOK /\ AssertionsHold /\ Tables /\ PendingRequests /\ RoutedToDestination
  BY IInvParts
<1>2. /\ UNCHANGED <<nodes_index, net_address, weak_conn, conn, timers, resolve_server_conn,
                     wire, aborted>>
      /\ nodes' = nodes \cup {n}
  BY DEF LookupNode, linkVars
<1>3. RoutedToDestination' /\ AssertionsHold'
  BY <1>1, <1>2, RoutedCache DEF LookupNode, AssertionsHold
<1>4. NotResolved(n)
  BY <1>1 DEF LookupNode, Located, Tables, UnknownNodes
<1>5. /\ \A k \in NodeAddrs : k # n => resolve_state'[k] = resolve_state[k]
      /\ resolve_state'[n] # "kResolved"
  BY <1>1, <1>4 DEF LookupNode, NotResolved, TypeOK
<1>6. \A a \in NetAddrs : nodes_index[a] # n
  BY <1>1, <1>4, AddressAssumption DEF Tables, IndexedNodes, NotResolved, Resolved
<1>7. Tables'
  <2>1. OneConnectionPerPeer' /\ IndexedConns' /\ WeakConns' /\ Link'
    BY <1>1, <1>2 DEF Tables, OneConnectionPerPeer, IndexedConns, WeakConns, Link
  <2>2. IndexedNodes'
    BY <1>1, <1>2, <1>5, <1>6 DEF TypeOK, Tables, IndexedNodes, Resolved
  <2>3. ResolvedAddresses'
    BY <1>1, <1>2, <1>4, <1>5 DEF Tables, ResolvedAddresses, Resolved, NotResolved
  <2>4. UnknownNodes'
    BY <1>1, <1>2, <1>5 DEF Tables, UnknownNodes, NotResolved
  <2> QED BY <2>1, <2>2, <2>3, <2>4 DEF Tables
<1>8. PendingRequests'
  <2>1. CASE requests' = requests
    BY <1>1, <1>2, <2>1, RequestsFrame
  <2>2. CASE /\ resolve_server_conn # None /\ ~Closed(resolve_server_conn)
             /\ requests' = [requests EXCEPT ![resolve_server_conn] = Append(@, LookupRequest(n))]
    <3> DEFINE r == resolve_server_conn
    <3>1. r \in Conns /\ OpenTo(r, ResolveServer)
      <4>1. r \in Conns /\ conn[r].peer = ResolveServer /\ conn[r].state # "connecting"
        BY <1>1, <2>2 DEF TypeOK, Tables, Link
      <4>2. conn[r] \in Connections /\ conn[r] # Free
        BY <1>1, <4>1, AddressAssumption DEF TypeOK, Free
      <4> QED BY <2>2, <4>1, <4>2 DEF Connections, OpenTo, Closed
    <3>2. LookupRequest(n) \in Requests /\ LookupRequest(n).peer_addr = n
      BY <1>1, AddressAssumption DEF LookupRequest, Requests, TypeOK
    <3>3. /\ Len(requests'[r]) = Len(requests[r]) + 1
          /\ \A i \in 1 .. Len(requests[r]) : requests'[r][i] = requests[r][i]
          /\ requests'[r][Len(requests[r]) + 1] = LookupRequest(n)
          /\ Len(requests[r]) \in Nat
      BY <1>1, <2>2, <3>1, <3>2, AppendProperties, LenProperties DEF TypeOK
    <3>4. \A i \in Lookups(r)' : requests'[r][i].peer_addr \in nodes'
      BY <1>1, <1>2, <3>1, <3>2, <3>3 DEF PendingRequests, Lookups
    <3>5. \A c \in Conns : c # r => requests'[c] = requests[c]
      BY <1>1, <2>2 DEF TypeOK
    <3> QED BY <1>1, <1>2, <3>1, <3>4, <3>5 DEF PendingRequests, Lookups, OpenTo
  <2> QED BY <2>1, <2>2 DEF LookupNode, ReqeustNodeNetAddress
<1> QED BY <1>3, <1>7, <1>8
\* Node n learns, or has, the address of the table.
LEMMA LearnAddress ==
  ASSUME IInv, NEW n \in DOMAIN Conf,
         nodes' = nodes \cup {n},
         net_address' = [net_address EXCEPT ![n] = Conf[n]],
         resolve_state' = [resolve_state EXCEPT ![n] = "kResolved"],
         weak_conn' = weak_conn
  PROVE  /\ n \in NodeAddrs /\ Conf[n] \in NetAddrs
         /\ \A k \in NodeAddrs : Resolved(k) => Resolved(k)' /\ net_address'[k] = net_address[k]
         /\ Resolved(n)' /\ net_address'[n] = Conf[n]
         /\ ResolvedAddresses'
         /\ UnknownNodes'
<1>1. TypeOK /\ ResolvedAddresses /\ UnknownNodes
  BY DEF IInv
<1>2. n \in NodeAddrs /\ Conf[n] \in NetAddrs
  BY ConfAssumption
<1>3. Resolved(n)' /\ net_address'[n] = Conf[n]
  BY <1>1, <1>2 DEF TypeOK, Resolved
<1>4. \A k \in NodeAddrs : k # n =>
        resolve_state'[k] = resolve_state[k] /\ net_address'[k] = net_address[k]
  BY <1>1 DEF TypeOK
<1>5. ResolvedAddresses'
  BY <1>1, <1>3, <1>4 DEF ResolvedAddresses, Resolved
<1>6. UnknownNodes'
  BY <1>1, <1>4 DEF UnknownNodes, NotResolved
<1>7. \A k \in NodeAddrs : Resolved(k) => Resolved(k)' /\ net_address'[k] = net_address[k]
  BY <1>1, <1>3, <1>4 DEF Resolved, ResolvedAddresses
<1> QED BY <1>2, <1>3, <1>5, <1>6, <1>7

\* A new connection c for node n, registered under the address a it is to.
LEMMA ConnectNode ==
  ASSUME IInv, NEW n \in NodeAddrs, NEW a \in NetAddrs, NEW c \in Conns,
         ConnectTo(c, a), ~Registered(a), RegisterNode(n, a),
         \A k \in NodeAddrs : Resolved(k) => Resolved(k)' /\ net_address'[k] = net_address[k],
         nodes \subseteq nodes', n \in nodes', Resolved(n)', net_address'[n] = a,
         UNCHANGED <<weak_conn, timers, resolve_server_conn>>
  PROVE  /\ (OneConnectionPerPeer /\ IndexedNodes /\ IndexedConns /\ WeakConns /\ Link)'
         /\ \A d \in Conns : OpenTo(d, ResolveServer) => OpenTo(d, ResolveServer)'
<1>1. /\ TypeOK
      /\ OneConnectionPerPeer /\ IndexedNodes /\ IndexedConns /\ WeakConns /\ Link
  BY DEF IInv
<1>2. a # None /\ a # ResolveServer /\ None # ResolveServer /\ n # None /\ None \notin NodeAddrs
  BY AddressAssumption
<1>3. /\ conn[c] = Free
      /\ conn[c].peer = None /\ conn[c].state = "free"
      /\ conn'[c] = [peer |-> a, state |-> "connecting"]
      /\ \A d \in Conns : d # c => conn'[d] = conn[d]
  BY <1>1 DEF ConnectTo, TypeOK, Free
<1>4. /\ nodes_index[a] = None
      /\ nodes_index'[a] = n
      /\ \A b \in NetAddrs : b # a => nodes_index'[b] = nodes_index[b]
  BY <1>1 DEF Registered, RegisterNode, TypeOK
<1>5. \A d \in Conns : conn[d].peer # a
  BY <1>1, <1>4 DEF IndexedConns
<1>6. OneConnectionPerPeer'
  BY <1>1, <1>2, <1>3, <1>5 DEF OneConnectionPerPeer, Free
<1>7. IndexedNodes'
  <2>1. ASSUME NEW b \in NetAddrs, nodes_index'[b] # None
        PROVE  /\ nodes_index'[b] \in nodes'
               /\ resolve_state'[nodes_index'[b]] = "kResolved"
               /\ net_address'[nodes_index'[b]] = b
    <3>1. CASE b = a
      BY <1>4, <3>1 DEF Resolved
    <3>2. CASE b # a
      <4>1. nodes_index'[b] = nodes_index[b] /\ nodes_index[b] \in NodeAddrs
        BY <1>1, <1>4, <2>1, <3>2 DEF TypeOK
      <4>2. nodes_index[b] \in nodes /\ Resolved(nodes_index[b]) /\ net_address[nodes_index[b]] = b
        BY <1>1, <2>1, <4>1 DEF IndexedNodes
      <4>3. resolve_state'[nodes_index[b]] = "kResolved" /\ net_address'[nodes_index[b]] = b
        BY <4>1, <4>2 DEF Resolved
      <4> QED BY <4>1, <4>2, <4>3
    <3> QED BY <3>1, <3>2
  <2> QED BY <2>1 DEF IndexedNodes, Resolved
<1>8. IndexedConns'
  <2>1. ASSUME NEW b \in NetAddrs
        PROVE  nodes_index'[b] # None <=> \E d \in Conns : conn'[d].peer = b
    <3>1. CASE b = a
      BY <1>2, <1>3, <1>4, <3>1
    <3>2. CASE b # a
      <4>1. b # None
        BY AddressAssumption
      <4>2. (\E d \in Conns : conn'[d].peer = b) <=> (\E d \in Conns : conn[d].peer = b)
        BY <1>3, <3>2, <4>1
      <4> QED BY <1>1, <1>4, <3>2, <4>2 DEF IndexedConns
    <3> QED BY <3>1, <3>2
  <2> QED BY <2>1 DEF IndexedConns
<1>9. WeakConns'
  <2>1. ASSUME NEW k \in NodeAddrs, weak_conn[k] # None
        PROVE  /\ net_address'[k] \in NetAddrs
               /\ nodes_index'[net_address'[k]] = k
               /\ conn'[weak_conn[k]].peer = net_address'[k]
               /\ conn'[weak_conn[k]].state \in {"open", "closed"}
    <3>1. /\ net_address[k] \in NetAddrs
          /\ nodes_index[net_address[k]] = k
          /\ conn[weak_conn[k]].peer = net_address[k]
          /\ conn[weak_conn[k]].state \in {"open", "closed"}
          /\ weak_conn[k] \in Conns
      BY <1>1, <2>1 DEF WeakConns, TypeOK
    <3>2. Resolved(k)
      BY <1>1, <1>2, <3>1 DEF IndexedNodes
    <3>3. net_address'[k] = net_address[k] /\ net_address[k] # a
      BY <1>2, <1>4, <3>1, <3>2
    <3>4. weak_conn[k] # c
      BY <1>3, <3>1
    <3> QED BY <1>3, <1>4, <3>1, <3>3, <3>4
  <2> QED BY <2>1 DEF WeakConns
<1>10. Link'
  BY <1>1, <1>2, <1>3 DEF Link
<1>11. \A d \in Conns : OpenTo(d, ResolveServer) => OpenTo(d, ResolveServer)'
  BY <1>2, <1>3 DEF OpenTo, Free
<1> QED BY <1>6, <1>7, <1>8, <1>9, <1>10, <1>11

LEMMA ConnectOnDemandStep ==
  ASSUME IInv, NEW n \in NodeAddrs, ConnectOnDemand(n)
  PROVE  (AssertionsHold /\ Tables /\ PendingRequests /\ RoutedToDestination)'
<1>1. TypeOK /\ AssertionsHold /\ Tables /\ PendingRequests /\ RoutedToDestination
  BY IInvParts
<1>2. CASE Registered(net_address[n])
  BY <1>2, AbortStep DEF ConnectOnDemand
<1>3. CASE ~Registered(net_address[n])
  <2> DEFINE a == net_address[n]
  <2>1. /\ n \in DOMAIN Conf /\ a = Conf[n] /\ a \in NetAddrs
        /\ Resolved(n) /\ n \in nodes
    BY <1>1, ConfAssumption DEF ConnectOnDemand, Located, Tables, ResolvedAddresses
  <2>2. PICK c \in Conns : ConnectTo(c, a)
    BY <1>3 DEF ConnectOnDemand
  <2>3. /\ RegisterNode(n, a)
        /\ UNCHANGED <<nodes, net_address, resolve_state, weak_conn, timers,
                       resolve_server_conn, requests, aborted, wire, messages_to_deliver>>
    BY <1>3 DEF ConnectOnDemand, linkVars
  <2>4. /\ (OneConnectionPerPeer /\ IndexedNodes /\ IndexedConns /\ WeakConns /\ Link)'
        /\ \A d \in Conns : OpenTo(d, ResolveServer) => OpenTo(d, ResolveServer)'
    BY <1>3, <2>1, <2>2, <2>3, ConnectNode DEF Resolved
  <2>5. ResolvedAddresses' /\ UnknownNodes'
    BY <1>1, <2>3 DEF Tables, ResolvedAddresses, UnknownNodes, Resolved, NotResolved
  <2>6. PendingRequests'
    BY <1>1, <2>3, <2>4 DEF PendingRequests, Lookups
  <2>7. RoutedToDestination' /\ AssertionsHold'
    BY <1>1, <2>3, RoutedFrame DEF AssertionsHold
  <2> QED BY <2>4, <2>5, <2>6, <2>7 DEF Tables
<1> QED BY <1>2, <1>3
\* A connection that is not free opens or closes: who its peer is and which
\* connections are free stay the same.
LEMMA ConnStateStep ==
  ASSUME IInv, NEW c \in Conns, conn[c] # Free, NEW s \in {"open", "closed"},
         conn' = [conn EXCEPT ![c].state = s],
         UNCHANGED <<nodes, nodes_index, net_address, resolve_state, timers>>
  PROVE  /\ conn'[c] = [peer |-> conn[c].peer, state |-> s]
         /\ \A d \in Conns : d # c => conn'[d] = conn[d]
         /\ \A d \in Conns : conn'[d].peer = conn[d].peer
         /\ (OneConnectionPerPeer /\ IndexedNodes /\ IndexedConns)'
         /\ ResolvedAddresses' /\ UnknownNodes'
<1>1. TypeOK /\ Tables
  BY IInvParts
<1>2. /\ conn'[c] = [peer |-> conn[c].peer, state |-> s]
      /\ \A d \in Conns : d # c => conn'[d] = conn[d]
  <2>1. conn' = [conn EXCEPT ![c] = [peer |-> conn[c].peer, state |-> s]]
    BY <1>1, SetStateType
  <2> QED BY <1>1, <2>1 DEF TypeOK
<1>3. \A d \in Conns : conn'[d].peer = conn[d].peer
  BY <1>2
<1>4. OneConnectionPerPeer'
  <2>1. \A d \in Conns : conn'[d] # Free => conn[d] # Free
    BY <1>2
  <2> QED BY <1>1, <1>3, <2>1 DEF Tables, OneConnectionPerPeer
<1>5. IndexedConns'
  BY <1>1, <1>3 DEF Tables, IndexedConns
<1>6. IndexedNodes' /\ ResolvedAddresses' /\ UnknownNodes'
  BY <1>1 DEF Tables, IndexedNodes, ResolvedAddresses, UnknownNodes, Resolved, NotResolved
<1> QED BY <1>2, <1>3, <1>4, <1>5, <1>6

LEMMA SetConnectionStep ==
  ASSUME IInv, NEW c \in Conns, OnConnectedToRemoteNode(c)
  PROVE  (AssertionsHold /\ Tables /\ PendingRequests /\ RoutedToDestination)'
<1> DEFINE a == conn[c].peer
           n == nodes_index[a]
<1>1. TypeOK /\ AssertionsHold /\ Tables /\ PendingRequests /\ RoutedToDestination
  BY IInvParts
<1>2. a \in NetAddrs /\ conn[c] # Free /\ conn[c].state = "connecting"
  BY <1>1, FreeConn DEF OnConnectedToRemoteNode, Peers, Free
<1>3. n # None /\ n \in NodeAddrs
  BY <1>1, <1>2 DEF Tables, IndexedConns, TypeOK
<1>4. CASE Abort("SetConnection")
  BY <1>4, AbortStep
<1>5. CASE SetConnection(n, c)
  <2>1. UNCHANGED <<nodes, nodes_index, net_address, resolve_state, timers, resolve_server_conn,
                    requests, aborted>>
    BY <1>5 DEF SetConnection, linkVars
  <2>2. /\ conn'[c] = [peer |-> a, state |-> "open"]
        /\ \A d \in Conns : d # c => conn'[d] = conn[d]
        /\ \A d \in Conns : conn'[d].peer = conn[d].peer
        /\ (OneConnectionPerPeer /\ IndexedNodes /\ IndexedConns)'
        /\ ResolvedAddresses' /\ UnknownNodes'
    BY <1>2, <1>5, <2>1, ConnStateStep DEF SetConnection
  <2>3. Resolved(n) /\ net_address[n] = a /\ n \in DOMAIN Conf /\ Conf[n] = a
    BY <1>1, <1>2, <1>3 DEF Tables, IndexedNodes, ResolvedAddresses
  <2>4. WeakConns'
    <3>1. weak_conn'[n] = c /\ \A k \in NodeAddrs : k # n => weak_conn'[k] = weak_conn[k]
      BY <1>1, <1>3, <1>5 DEF SetConnection, TypeOK
    <3>2. ASSUME NEW k \in NodeAddrs, weak_conn'[k] # None
          PROVE  /\ net_address[k] \in NetAddrs
                 /\ nodes_index[net_address[k]] = k
                 /\ conn'[weak_conn'[k]].peer = net_address[k]
                 /\ conn'[weak_conn'[k]].state \in {"open", "closed"}
      <4>1. CASE k = n
        BY <1>2, <2>2, <2>3, <3>1, <4>1
      <4>2. CASE k # n
        <5>1. weak_conn'[k] = weak_conn[k] /\ weak_conn[k] \in Conns
          BY <1>1, <3>1, <3>2, <4>2 DEF TypeOK
        <5>2. /\ net_address[k] \in NetAddrs
              /\ nodes_index[net_address[k]] = k
              /\ conn[weak_conn[k]].peer = net_address[k]
              /\ conn[weak_conn[k]].state \in {"open", "closed"}
          BY <1>1, <3>2, <5>1 DEF Tables, WeakConns
        <5>3. weak_conn[k] # c
          BY <1>2, <5>2
        <5> QED BY <2>2, <5>1, <5>2, <5>3
      <4> QED BY <4>1, <4>2
    <3> QED BY <2>1, <3>2 DEF WeakConns
  <2>5. a # ResolveServer /\ Link'
    BY <1>1, <1>2, <2>1, <2>2, AddressAssumption DEF Tables, Link
  <2>6. PendingRequests'
    <3>1. \A d \in Conns : OpenTo(d, ResolveServer) => OpenTo(d, ResolveServer)'
      BY <1>2, <2>2 DEF OpenTo
    <3> QED BY <1>1, <2>1, <3>1 DEF PendingRequests, Lookups
  <2>7. RoutedToDestination'
    <3>1. /\ wire' = [wire EXCEPT ![a] = @ \o messages_to_deliver[n]]
          /\ messages_to_deliver' = [messages_to_deliver EXCEPT ![n] = <<>>]
      BY <1>5 DEF SetConnection
    <3>2. /\ Elements(wire'[a]) \subseteq Elements(wire[a]) \cup Elements(messages_to_deliver[n])
          /\ \A b \in NetAddrs : b # a => wire'[b] = wire[b]
      BY <1>1, <1>2, <1>3, <3>1, ElementsConcat DEF TypeOK
    <3>3. /\ Elements(messages_to_deliver'[n]) = {}
          /\ \A k \in NodeAddrs : k # n => messages_to_deliver'[k] = messages_to_deliver[k]
      BY <1>1, <1>3, <3>1 DEF TypeOK, Elements
    <3> QED BY <1>1, <1>3, <2>3, <3>2, <3>3 DEF RoutedToDestination
  <2> QED BY <1>1, <2>1, <2>2, <2>4, <2>5, <2>6, <2>7 DEF Tables, AssertionsHold
<1> QED BY <1>3, <1>4, <1>5 DEF OnConnectedToRemoteNode

\* The connection c to node n is gone, and n leaves nodes_index_.
LEMMA RemoveConn ==
  ASSUME IInv, NEW c \in Conns, NEW n \in NodeAddrs,
         conn[c].peer \in NetAddrs, nodes_index[conn[c].peer] = n,
         conn' = [conn EXCEPT ![c] = Free], UnRegisterNode(n),
         \A k \in NodeAddrs : weak_conn'[k] \in {weak_conn[k], None},
         weak_conn'[n] = None \/ conn[c].state = "connecting",
         UNCHANGED <<nodes, net_address, resolve_state, timers, resolve_server_conn, requests>>
  PROVE  Tables' /\ PendingRequests'
<1> DEFINE a == conn[c].peer
<1>1. TypeOK /\ Tables /\ PendingRequests
  BY IInvParts
<1>2. /\ a # None /\ a # ResolveServer /\ None # ResolveServer
      /\ n # None /\ None \notin NodeAddrs /\ None \notin NetAddrs
  BY AddressAssumption
<1>3. /\ conn'[c] = Free /\ Free.peer = None /\ Free.state = "free" /\ conn[c] # Free
      /\ \A d \in Conns : d # c => conn'[d] = conn[d]
  BY <1>1, <1>2 DEF TypeOK, Free
<1>4. net_address[n] = a
  BY <1>1, <1>2 DEF Tables, IndexedNodes
<1>5. /\ nodes_index'[a] = None
      /\ \A b \in NetAddrs : b # a => nodes_index'[b] = nodes_index[b]
  BY <1>1, <1>4 DEF UnRegisterNode, TypeOK
<1>6. \A d \in Conns : conn[d].peer = a => d = c
  BY <1>1, <1>3 DEF Tables, OneConnectionPerPeer
<1>7. OneConnectionPerPeer'
  <2>1. \A d \in Conns : conn'[d] # Free => d # c /\ conn[d] # Free /\ conn[d].peer # None
    BY <1>1, <1>3, FreeConn
  <2> QED BY <1>1, <1>3, <2>1 DEF Tables, OneConnectionPerPeer
<1>8. IndexedNodes'
  BY <1>1, <1>5 DEF Tables, IndexedNodes, Resolved
<1>9. IndexedConns'
  <2>1. ASSUME NEW b \in NetAddrs
        PROVE  nodes_index'[b] # None <=> \E d \in Conns : conn'[d].peer = b
    <3>1. CASE b = a
      BY <1>2, <1>3, <1>5, <1>6, <3>1
    <3>2. CASE b # a
      <4>1. (\E d \in Conns : conn'[d].peer = b) <=> (\E d \in Conns : conn[d].peer = b)
        BY <1>2, <1>3, <3>2
      <4> QED BY <1>1, <1>5, <3>2, <4>1 DEF Tables, IndexedConns
    <3> QED BY <3>1, <3>2
  <2> QED BY <2>1 DEF IndexedConns
<1>10. WeakConns'
  <2>1. ASSUME NEW k \in NodeAddrs, weak_conn'[k] # None
        PROVE  /\ net_address[k] \in NetAddrs
               /\ nodes_index'[net_address[k]] = k
               /\ conn'[weak_conn'[k]].peer = net_address[k]
               /\ conn'[weak_conn'[k]].state \in {"open", "closed"}
    <3>1. weak_conn'[k] = weak_conn[k] /\ weak_conn[k] \in Conns
      BY <1>1, <2>1 DEF TypeOK
    <3>2. /\ net_address[k] \in NetAddrs
          /\ nodes_index[net_address[k]] = k
          /\ conn[weak_conn[k]].peer = net_address[k]
          /\ conn[weak_conn[k]].state \in {"open", "closed"}
      BY <1>1, <2>1, <3>1 DEF Tables, WeakConns
    <3>3. k # n
      <4>1. SUFFICES ASSUME k = n PROVE FALSE
        OBVIOUS
      <4>2. weak_conn[k] = c
        BY <1>4, <1>6, <3>1, <3>2, <4>1
      <4> QED BY <2>1, <3>2, <4>1, <4>2
    <3>4. net_address[k] # a /\ weak_conn[k] # c
      BY <3>2, <3>3
    <3> QED BY <1>3, <1>5, <3>1, <3>2, <3>4
  <2> QED BY <2>1 DEF WeakConns
<1>11. Link'
  BY <1>1, <1>2, <1>3 DEF Tables, Link
<1>12. ResolvedAddresses' /\ UnknownNodes'
  BY <1>1 DEF Tables, ResolvedAddresses, UnknownNodes, Resolved, NotResolved
<1>13. PendingRequests'
  <2>1. \A d \in Conns : OpenTo(d, ResolveServer) => OpenTo(d, ResolveServer)'
    BY <1>2, <1>3 DEF OpenTo
  <2> QED BY <1>1, <2>1 DEF PendingRequests, Lookups
<1> QED BY <1>7, <1>8, <1>9, <1>10, <1>11, <1>12, <1>13 DEF Tables
LEMMA OnConnectToRemoteNodeErrorStep ==
  ASSUME IInv, NEW c \in Conns, OnConnectToRemoteNodeError(c)
  PROVE  (AssertionsHold /\ Tables /\ PendingRequests /\ RoutedToDestination)'
<1> DEFINE n == nodes_index[conn[c].peer]
<1>1. TypeOK /\ AssertionsHold /\ Tables /\ PendingRequests /\ RoutedToDestination
  BY IInvParts
<1>2. conn[c].peer \in NetAddrs /\ conn[c].state = "connecting"
  BY <1>1, FreeConn DEF OnConnectToRemoteNodeError, Peers
<1>3. n # None /\ n \in NodeAddrs
  BY <1>1, <1>2 DEF Tables, IndexedConns, TypeOK
<1>4. net_address[n] = conn[c].peer /\ Registered(net_address[n])
  BY <1>1, <1>2, <1>3 DEF Tables, IndexedNodes, Registered
<1>5. /\ conn' = [conn EXCEPT ![c] = Free]
      /\ UnRegisterNode(n)
      /\ UNCHANGED <<resolve_state, net_address, messages_to_deliver, weak_conn, timers,
                     resolve_server_conn, wire, nodes, requests, aborted>>
  BY <1>3, <1>4 DEF OnConnectToRemoteNodeError, linkVars, msgVars
<1>6. Tables' /\ PendingRequests'
  BY <1>2, <1>3, <1>5, RemoveConn
<1> QED BY <1>1, <1>5, <1>6, RoutedFrame DEF AssertionsHold

LEMMA OnRemoteNodeDisconnectedStep ==
  ASSUME IInv, NEW c \in Conns, OnRemoteNodeDisconnected(c)
  PROVE  (AssertionsHold /\ Tables /\ PendingRequests /\ RoutedToDestination)'
<1> DEFINE n == nodes_index[conn[c].peer]
<1>1. TypeOK /\ AssertionsHold /\ Tables /\ PendingRequests /\ RoutedToDestination
  BY IInvParts
<1>2. conn[c].peer \in NetAddrs
  BY <1>1, FreeConn DEF OnRemoteNodeDisconnected, Closed, Peers
<1>3. n # None /\ n \in NodeAddrs
  BY <1>1, <1>2 DEF Tables, IndexedConns, TypeOK
<1>4. net_address[n] = conn[c].peer /\ Registered(net_address[n])
  BY <1>1, <1>2, <1>3 DEF Tables, IndexedNodes, Registered
<1>5. /\ conn' = [conn EXCEPT ![c] = Free]
      /\ UnRegisterNode(n)
      /\ weak_conn' = [weak_conn EXCEPT ![n] = None]
      /\ UNCHANGED <<resolve_state, net_address, messages_to_deliver, timers,
                     resolve_server_conn, wire, nodes, requests, aborted>>
  BY <1>3, <1>4 DEF OnRemoteNodeDisconnected, linkVars, msgVars
<1>6. weak_conn'[n] = None /\ \A k \in NodeAddrs : weak_conn'[k] \in {weak_conn[k], None}
  BY <1>1, <1>3, <1>5 DEF TypeOK
<1>7. Tables' /\ PendingRequests'
  BY <1>2, <1>3, <1>5, <1>6, RemoveConn
<1> QED BY <1>1, <1>5, <1>7, RoutedFrame DEF AssertionsHold

\* Connection c, open so far, becomes closed and loses its requests: PeerCloses
\* and ReadRefusal.
LEMMA CloseStep ==
  ASSUME IInv, NEW c \in Conns, conn[c].state = "open",
         conn' = [conn EXCEPT ![c].state = "closed"],
         requests' = [requests EXCEPT ![c] = <<>>],
         UNCHANGED <<nodeVars, linkVars, msgVars, nodes, nodes_index, aborted>>
  PROVE  (AssertionsHold /\ Tables /\ PendingRequests /\ RoutedToDestination)'
<1>1. TypeOK /\ AssertionsHold /\ Tables /\ PendingRequests /\ RoutedToDestination
  BY IInvParts
<1>2. conn[c] # Free
  BY DEF Free
<1>3. /\ conn'[c] = [peer |-> conn[c].peer, state |-> "closed"]
      /\ \A d \in Conns : d # c => conn'[d] = conn[d]
      /\ \A d \in Conns : conn'[d].peer = conn[d].peer
      /\ (OneConnectionPerPeer /\ IndexedNodes /\ IndexedConns)'
      /\ ResolvedAddresses' /\ UnknownNodes'
  BY <1>2, ConnStateStep DEF nodeVars, linkVars
<1>4. \A d \in Conns : conn'[d].state \in {conn[d].state, "closed"}
  BY <1>3
<1>5. WeakConns'
  <2>1. ASSUME NEW k \in NodeAddrs, weak_conn[k] # None
        PROVE  /\ net_address[k] \in NetAddrs
               /\ nodes_index[net_address[k]] = k
               /\ conn'[weak_conn[k]].peer = net_address[k]
               /\ conn'[weak_conn[k]].state \in {"open", "closed"}
    <3>1. weak_conn[k] \in Conns
      BY <1>1, <2>1 DEF TypeOK
    <3> QED BY <1>1, <1>3, <1>4, <2>1, <3>1 DEF Tables, WeakConns
  <2> QED BY <2>1 DEF WeakConns, nodeVars
<1>6. Link'
  <2>1. \A d \in Conns : conn'[d].state # "connecting" <=> conn[d].state # "connecting"
    BY <1>3
  <2> QED BY <1>1, <1>3, <2>1 DEF Tables, Link, linkVars
<1>7. PendingRequests'
  <2>1. /\ requests'[c] = <<>>
        /\ \A d \in Conns : d # c => requests'[d] = requests[d]
    BY <1>1 DEF TypeOK
  <2> QED BY <1>1, <1>3, <2>1 DEF PendingRequests, Lookups, OpenTo
<1>8. RoutedToDestination' /\ AssertionsHold'
  BY <1>1, RoutedFrame DEF nodeVars, msgVars, AssertionsHold
<1> QED BY <1>3, <1>5, <1>6, <1>7, <1>8 DEF Tables

LEMMA OnConnectedToResolveServerStep ==
  ASSUME IInv, NEW c \in Conns, OnConnectedToResolveServer(c)
  PROVE  (AssertionsHold /\ Tables /\ PendingRequests /\ RoutedToDestination)'
<1>1. TypeOK /\ AssertionsHold /\ Tables /\ PendingRequests /\ RoutedToDestination
  BY IInvParts
<1>2. /\ conn[c] = [peer |-> ResolveServer, state |-> "connecting"]
      /\ conn' = [conn EXCEPT ![c].state = "open"]
      /\ requests' = [requests EXCEPT ![c] = Append(@, [type |-> "kInitializeSelf"])]
      /\ resolve_server_conn' = c
      /\ UNCHANGED <<nodeVars, timers, msgVars, nodes, nodes_index, aborted>>
  BY DEF OnConnectedToResolveServer
<1>3. conn[c].peer = ResolveServer /\ conn[c].state = "connecting" /\ conn[c] # Free
  BY <1>2, AddressAssumption DEF Free
<1>4. /\ conn'[c] = [peer |-> ResolveServer, state |-> "open"]
      /\ \A d \in Conns : d # c => conn'[d] = conn[d]
      /\ \A d \in Conns : conn'[d].peer = conn[d].peer
      /\ (OneConnectionPerPeer /\ IndexedNodes /\ IndexedConns)'
      /\ ResolvedAddresses' /\ UnknownNodes'
  BY <1>2, <1>3, ConnStateStep DEF nodeVars
<1>5. \A d \in Conns : conn[d].peer = ResolveServer => d = c
  BY <1>1, <1>3 DEF Tables, OneConnectionPerPeer
<1>6. WeakConns'
  <2>1. ASSUME NEW k \in NodeAddrs, weak_conn[k] # None
        PROVE  weak_conn[k] \in Conns /\ weak_conn[k] # c
    <3>1. weak_conn[k] \in Conns
      BY <1>1, <2>1 DEF TypeOK
    <3>2. conn[weak_conn[k]].state \in {"open", "closed"}
      BY <1>1, <2>1 DEF Tables, WeakConns
    <3> QED BY <1>3, <3>1, <3>2
  <2> QED BY <1>1, <1>2, <1>4, <2>1 DEF Tables, WeakConns, nodeVars
<1>7. Link'
  BY <1>1, <1>2, <1>3, <1>4, <1>5 DEF Tables, Link
<1>8. PendingRequests'
  <2>1. requests[c] = <<>>
    BY <1>1, <1>3 DEF PendingRequests, OpenTo
  <2>2. requests'[c] = Append(<<>>, [type |-> "kInitializeSelf"])
        /\ \A d \in Conns : d # c => requests'[d] = requests[d]
    BY <1>1, <1>2, <2>1 DEF TypeOK
  <2>3. Lookups(c)' = {}
    <3>1. Len(requests'[c]) = 1 /\ requests'[c][1].type = "kInitializeSelf"
      BY <2>2
    <3> QED BY <3>1 DEF Lookups
  <2> QED BY <1>1, <1>2, <1>4, <2>2, <2>3 DEF PendingRequests, Lookups, OpenTo
<1>9. RoutedToDestination' /\ AssertionsHold'
  BY <1>1, <1>2, RoutedFrame DEF nodeVars, msgVars, AssertionsHold
<1> QED BY <1>4, <1>6, <1>7, <1>8, <1>9 DEF Tables

\* The attempt or the link c to the resolve server ends and a timer is armed.
LEMMA LinkEnds ==
  ASSUME IInv, NEW c \in Conns, conn[c].peer = ResolveServer, conn[c].state # "open",
         conn' = [conn EXCEPT ![c] = Free], timers' = timers + 1,
         resolve_server_conn' = None \/ (conn[c].state = "connecting" /\ UNCHANGED resolve_server_conn),
         UNCHANGED <<nodeVars, msgVars, nodes, nodes_index, requests, aborted>>
  PROVE  (AssertionsHold /\ Tables /\ PendingRequests /\ RoutedToDestination)'
<1>1. TypeOK /\ AssertionsHold /\ Tables /\ PendingRequests /\ RoutedToDestination
  BY IInvParts
<1>2. /\ conn'[c] = Free /\ Free.peer = None /\ Free.state = "free" /\ conn[c] # Free
      /\ \A d \in Conns : d # c => conn'[d] = conn[d]
      /\ None # ResolveServer /\ ResolveServer \notin NetAddrs /\ None \notin NetAddrs
      /\ None \notin Conns
  BY <1>1, AddressAssumption DEF TypeOK, Free
<1>3. \A d \in Conns : conn[d].peer = ResolveServer => d = c
  BY <1>1, <1>2 DEF Tables, OneConnectionPerPeer
<1>4. OneConnectionPerPeer'
  <2>1. \A d \in Conns : conn'[d] # Free => d # c /\ conn[d] # Free /\ conn[d].peer # None
    BY <1>1, <1>2, FreeConn
  <2> QED BY <1>1, <1>2, <2>1 DEF Tables, OneConnectionPerPeer
<1>5. IndexedConns'
  <2>1. \A b \in NetAddrs : (\E d \in Conns : conn'[d].peer = b) <=> (\E d \in Conns : conn[d].peer = b)
    BY <1>2
  <2> QED BY <1>1, <2>1 DEF Tables, IndexedConns
<1>6. WeakConns'
  <2>1. ASSUME NEW k \in NodeAddrs, weak_conn[k] # None
        PROVE  weak_conn[k] \in Conns /\ weak_conn[k] # c
    <3> QED BY <1>1, <1>2, <2>1 DEF Tables, WeakConns, TypeOK
  <2> QED BY <1>1, <1>2, <2>1 DEF Tables, WeakConns, nodeVars
<1>7. Link'
  <2>1. timers = 0
    BY <1>1 DEF Tables, Link
  <2>2. \A d \in Conns : conn'[d].peer # ResolveServer
    BY <1>2, <1>3
  <2>3. \A d \in Conns : resolve_server_conn' # d
    <3>1. CASE resolve_server_conn' = None
      BY <1>2, <3>1
    <3>2. CASE conn[c].state = "connecting" /\ UNCHANGED resolve_server_conn
      BY <1>1, <1>3, <3>2 DEF Tables, Link
    <3> QED BY <3>1, <3>2
  <2> QED BY <2>1, <2>2, <2>3 DEF Link
<1>8. IndexedNodes' /\ ResolvedAddresses' /\ UnknownNodes'
  BY <1>1 DEF Tables, IndexedNodes, ResolvedAddresses, UnknownNodes, Resolved, NotResolved, nodeVars
<1>9. PendingRequests'
  <2>1. \A d \in Conns : OpenTo(d, ResolveServer) => OpenTo(d, ResolveServer)'
    BY <1>2 DEF OpenTo
  <2> QED BY <1>1, <2>1 DEF PendingRequests, Lookups
<1>10. RoutedToDestination' /\ AssertionsHold'
  BY <1>1, RoutedFrame DEF nodeVars, msgVars, AssertionsHold
<1> QED BY <1>4, <1>5, <1>6, <1>7, <1>8, <1>9, <1>10 DEF Tables
LEMMA ReconnectTimerStep ==
  ASSUME IInv, ReconnectTimer
  PROVE  (AssertionsHold /\ Tables /\ PendingRequests /\ RoutedToDestination)'
<1>1. TypeOK /\ AssertionsHold /\ Tables /\ PendingRequests /\ RoutedToDestination
  BY IInvParts
<1>2. PICK c \in Conns : ConnectTo(c, ResolveServer)
  BY DEF ReconnectTimer
<1>3. /\ timers > 0 /\ timers' = timers - 1
      /\ UNCHANGED <<nodeVars, resolve_server_conn, msgVars, nodes, nodes_index, requests, aborted>>
  BY DEF ReconnectTimer
<1>4. /\ conn[c] = Free /\ conn[c].peer = None /\ conn[c].state = "free"
      /\ conn'[c] = [peer |-> ResolveServer, state |-> "connecting"]
      /\ \A d \in Conns : d # c => conn'[d] = conn[d]
      /\ None # ResolveServer /\ ResolveServer \notin NetAddrs /\ None \notin NetAddrs
  BY <1>1, <1>2, AddressAssumption DEF TypeOK, ConnectTo, Free
<1>5. timers = 1 /\ timers' = 0 /\ \A d \in Conns : conn[d].peer # ResolveServer
  BY <1>1, <1>3 DEF Tables, Link
<1>6. OneConnectionPerPeer'
  <2>1. \A d \in Conns : conn'[d] # Free /\ d # c => conn[d] # Free /\ conn[d].peer # ResolveServer
    BY <1>4, <1>5
  <2> QED BY <1>1, <1>4, <1>5, <2>1 DEF Tables, OneConnectionPerPeer
<1>7. IndexedConns'
  <2>1. \A b \in NetAddrs : (\E d \in Conns : conn'[d].peer = b) <=> (\E d \in Conns : conn[d].peer = b)
    BY <1>4
  <2> QED BY <1>1, <1>3, <2>1 DEF Tables, IndexedConns
<1>8. WeakConns'
  <2>1. ASSUME NEW k \in NodeAddrs, weak_conn[k] # None
        PROVE  weak_conn[k] \in Conns /\ weak_conn[k] # c
    <3>1. weak_conn[k] \in Conns
      BY <1>1, <2>1 DEF TypeOK
    <3>2. conn[weak_conn[k]].state \in {"open", "closed"}
      BY <1>1, <2>1 DEF Tables, WeakConns
    <3> QED BY <1>4, <3>1, <3>2
  <2> QED BY <1>1, <1>3, <1>4, <2>1 DEF Tables, WeakConns, nodeVars
<1>9. Link'
  <2>1. \A d \in Conns : resolve_server_conn # d
    BY <1>1, <1>5 DEF Tables, Link
  <2>2. \A d \in Conns : conn'[d].peer = ResolveServer => d = c
    BY <1>4, <1>5
  <2> QED BY <1>3, <1>4, <1>5, <2>1, <2>2 DEF Link
<1>10. IndexedNodes' /\ ResolvedAddresses' /\ UnknownNodes'
  BY <1>1, <1>3 DEF Tables, IndexedNodes, ResolvedAddresses, UnknownNodes, Resolved, NotResolved, nodeVars
<1>11. PendingRequests'
  <2>1. \A d \in Conns : OpenTo(d, ResolveServer) => OpenTo(d, ResolveServer)'
    BY <1>5 DEF OpenTo
  <2> QED BY <1>1, <1>3, <2>1 DEF PendingRequests, Lookups
<1>12. RoutedToDestination' /\ AssertionsHold'
  BY <1>1, <1>3, RoutedFrame DEF nodeVars, msgVars, AssertionsHold
<1> QED BY <1>6, <1>7, <1>8, <1>9, <1>10, <1>11, <1>12 DEF Tables

\* What is left unanswered when the oldest request of c is answered.
LEMMA AnsweredRequests ==
  ASSUME IInv, NEW c \in Conns, Answers(c),
         requests' = [requests EXCEPT ![c] = Tail(@)],
         nodes \subseteq nodes',
         \A d \in Conns : OpenTo(d, ResolveServer) => OpenTo(d, ResolveServer)'
  PROVE  PendingRequests'
<1>1. TypeOK /\ PendingRequests
  BY IInvParts
<1>2. requests[c] \in Seq(Requests) /\ requests[c] # <<>>
  BY <1>1 DEF TypeOK, Answers
<1>3. /\ requests'[c] = Tail(requests[c])
      /\ \A d \in Conns : d # c => requests'[d] = requests[d]
  BY <1>1 DEF TypeOK
<1>4. /\ Len(requests'[c]) = Len(requests[c]) - 1
      /\ \A i \in 1 .. Len(requests'[c]) : requests'[c][i] = requests[c][i + 1]
      /\ Len(requests[c]) \in Nat \ {0}
  <2>1. /\ Len(Tail(requests[c])) = Len(requests[c]) - 1
        /\ \A i \in 1 .. Len(Tail(requests[c])) : Tail(requests[c])[i] = requests[c][i + 1]
    BY <1>2, HeadTailProperties
  <2>2. Len(requests[c]) \in Nat \ {0}
    BY <1>2, EmptySeq
  <2> QED BY <1>3, <2>1, <2>2
<1>5. \A i \in Lookups(c)' : requests'[c][i].peer_addr \in nodes'
  <2>1. ASSUME NEW i \in 1 .. Len(requests'[c]), requests'[c][i].type = "kLookupNode"
        PROVE  requests'[c][i].peer_addr \in nodes'
    <3>1. i + 1 \in Lookups(c) /\ requests'[c][i] = requests[c][i + 1]
      BY <1>4, <2>1 DEF Lookups
    <3> QED BY <1>1, <3>1 DEF PendingRequests
  <2> QED BY <2>1 DEF Lookups
<1>6. OpenTo(c, ResolveServer)'
  BY DEF Answers
<1> QED BY <1>1, <1>3, <1>5, <1>6 DEF PendingRequests, Lookups

\* What is left unanswered when a refusal is read on c.
LEMMA RefusedRequests ==
  ASSUME IInv, NEW c \in Conns, Answers(c), requests' = Refused(c), nodes \subseteq nodes',
         \A d \in Conns : OpenTo(d, ResolveServer) => OpenTo(d, ResolveServer)'
  PROVE  PendingRequests'
<1>1. TypeOK /\ PendingRequests
  BY IInvParts
<1>2. /\ requests'[c] = <<[type |-> "refused"]>>
      /\ \A d \in Conns : d # c => requests'[d] = requests[d]
  BY <1>1 DEF TypeOK, Refused
<1>3. Lookups(c)' = {}
  BY <1>2 DEF Lookups
<1>4. OpenTo(c, ResolveServer)'
  BY DEF Answers
<1> QED BY <1>1, <1>2, <1>3, <1>4 DEF PendingRequests, Lookups

\* The two together.
LEMMA SettledRequests ==
  ASSUME IInv, NEW c \in Conns, Answers(c),
         requests' = [requests EXCEPT ![c] = Tail(@)] \/ requests' = Refused(c),
         nodes \subseteq nodes',
         \A d \in Conns : OpenTo(d, ResolveServer) => OpenTo(d, ResolveServer)'
  PROVE  PendingRequests'
BY AnsweredRequests, RefusedRequests

LEMMA UpdateSelfAddressStep ==
  ASSUME IInv, NEW c \in Conns, UpdateSelfAddress(c)
  PROVE  (AssertionsHold /\ Tables /\ PendingRequests /\ RoutedToDestination)'
<1>1. TypeOK /\ AssertionsHold /\ Tables /\ PendingRequests /\ RoutedToDestination
  BY IInvParts
<1>2. UNCHANGED <<nodeVars, resolve_server_conn, timers, msgVars, nodes, nodes_index, conn, aborted>>
  BY DEF UpdateSelfAddress
<1>3. Tables'
  BY <1>1, <1>2, TablesFrame DEF nodeVars
<1>4. PendingRequests'
  BY <1>2, AnsweredRequests DEF UpdateSelfAddress, Answered, OpenTo
<1> QED BY <1>1, <1>2, <1>3, <1>4, RoutedFrame DEF nodeVars, msgVars, AssertionsHold

LEMMA ReadStaleSelfStep ==
  ASSUME IInv, NEW c \in Conns, ReadStaleSelf(c)
  PROVE  (AssertionsHold /\ Tables /\ PendingRequests /\ RoutedToDestination)'
<1>1. TypeOK /\ AssertionsHold /\ Tables /\ PendingRequests /\ RoutedToDestination
  BY IInvParts
<1>2. UNCHANGED <<nodeVars, resolve_server_conn, timers, msgVars, nodes, nodes_index, conn, aborted>>
  BY DEF ReadStaleSelf
<1>3. Tables'
  BY <1>1, <1>2, TablesFrame DEF nodeVars
<1>4. PendingRequests'
  BY <1>2, RefusedRequests DEF ReadStaleSelf, Refuses, OpenTo
<1> QED BY <1>1, <1>2, <1>3, <1>4, RoutedFrame DEF nodeVars, msgVars, AssertionsHold

LEMMA UpdateNodeAddressCacheStep ==
  ASSUME IInv, NEW c \in Conns, Answers(c), NEW n \in NodeAddrs, NEW left,
         left = [requests EXCEPT ![c] = Tail(@)] \/ left = Refused(c),
         UpdateNodeAddressCache(n, n \in DOMAIN Conf, IF n \in DOMAIN Conf THEN Conf[n] ELSE None,
                                left)
  PROVE  (AssertionsHold /\ Tables /\ PendingRequests /\ RoutedToDestination)'
<1> DEFINE a == IF n \in DOMAIN Conf THEN Conf[n] ELSE None
<1>1. TypeOK /\ AssertionsHold /\ Tables /\ PendingRequests /\ RoutedToDestination
  BY IInvParts
<1>2. UpdateNodeAddressCache(n, n \in DOMAIN Conf, a, left)
  OBVIOUS
<1> HIDE DEF a
<1>3. CASE n \notin nodes /\ n \notin DOMAIN Conf
  BY <1>2, <1>3, AbortStep DEF UpdateNodeAddressCache
<1>4. CASE /\ n \in DOMAIN Conf /\ HasCachedMessage(n) /\ ~Connected(n) /\ Registered(a)
  BY <1>2, <1>4, AbortStep DEF UpdateNodeAddressCache
<1>5. CASE /\ ~(n \notin nodes /\ n \notin DOMAIN Conf)
           /\ ~(n \in DOMAIN Conf /\ HasCachedMessage(n) /\ ~Connected(n) /\ Registered(a))
  <2>1. /\ nodes' = nodes \cup {n}
        /\ net_address' = [net_address EXCEPT ![n] = IF n \in DOMAIN Conf THEN a ELSE @]
        /\ resolve_state' = [resolve_state EXCEPT
             ![n] = IF n \in DOMAIN Conf THEN "kResolved"
                    ELSE IF @ = "kResolved" THEN "kNotResolved" ELSE @]
        /\ requests' = left
        /\ UNCHANGED <<messages_to_deliver, weak_conn, timers, resolve_server_conn, wire, aborted>>
    BY <1>2, <1>5 DEF UpdateNodeAddressCache, linkVars, msgVars
  <2>2. nodes \subseteq nodes' /\ n \in nodes'
    BY <2>1
  <2>3. CASE n \notin DOMAIN Conf
    <3>1. ~Resolved(n)
      BY <1>1, <2>3 DEF Tables, ResolvedAddresses
    <3>2. net_address' = net_address /\ resolve_state' = resolve_state
      BY <1>1, <2>1, <2>3, <3>1 DEF TypeOK, Resolved
    <3>3. UNCHANGED <<conn, nodes_index>>
      BY <1>2, <1>5, <2>3 DEF UpdateNodeAddressCache
    <3>4. Tables'
      <4>1. nodes' = nodes
        BY <1>5, <2>1, <2>3
      <4> QED BY <1>1, <2>1, <3>2, <3>3, <4>1, TablesFrame
    <3>5. PendingRequests'
      BY <1>2, <2>1, <2>2, <3>3, SettledRequests DEF OpenTo
    <3> QED BY <1>1, <2>1, <3>4, <3>5, RoutedFrame DEF AssertionsHold
  <2>4. CASE n \in DOMAIN Conf
    <3>1. a = Conf[n]
      BY <2>4 DEF a
    <3>2. /\ a \in NetAddrs
          /\ \A k \in NodeAddrs : Resolved(k) => Resolved(k)' /\ net_address'[k] = net_address[k]
          /\ Resolved(n)' /\ net_address'[n] = a
          /\ ResolvedAddresses'
          /\ UnknownNodes'
      <4>1. /\ net_address' = [net_address EXCEPT ![n] = Conf[n]]
            /\ resolve_state' = [resolve_state EXCEPT ![n] = "kResolved"]
            /\ nodes' = nodes \cup {n} /\ weak_conn' = weak_conn
        BY <2>1, <2>4, <3>1
      <4> QED BY <2>4, <3>1, <4>1, LearnAddress
    <3>3. /\ (OneConnectionPerPeer /\ IndexedNodes /\ IndexedConns /\ WeakConns /\ Link)'
          /\ \A d \in Conns : OpenTo(d, ResolveServer) => OpenTo(d, ResolveServer)'
      <4>1. CASE HasCachedMessage(n) /\ ~Connected(n)
        <5>1. RegisterNode(n, a) /\ ~Registered(a) /\ \E d \in Conns : ConnectTo(d, a)
          BY <1>2, <1>5, <2>4, <4>1 DEF UpdateNodeAddressCache
        <5>2. PICK d \in Conns : ConnectTo(d, a)
          BY <5>1
        <5>3. /\ nodes \subseteq nodes' /\ n \in nodes'
              /\ UNCHANGED <<weak_conn, timers, resolve_server_conn>>
          BY <2>1, <2>2
        <5> QED BY <3>2, <5>1, <5>2, <5>3, ConnectNode
      <4>2. CASE ~(HasCachedMessage(n) /\ ~Connected(n))
        <5>1. UNCHANGED <<conn, nodes_index>>
          BY <1>2, <1>5, <4>2 DEF UpdateNodeAddressCache
        <5>2. OneConnectionPerPeer' /\ IndexedConns' /\ Link'
          BY <1>1, <2>1, <5>1 DEF Tables, OneConnectionPerPeer, IndexedConns, Link
        <5>3. IndexedNodes'
          BY <1>1, <2>2, <3>2, <5>1 DEF TypeOK, Tables, IndexedNodes, Resolved
        <5>4. WeakConns'
          <6>1. ASSUME NEW k \in NodeAddrs, weak_conn[k] # None
                PROVE  net_address'[k] = net_address[k]
            BY <1>1, <3>2, <6>1, AddressAssumption DEF Tables, WeakConns, IndexedNodes
          <6> QED BY <1>1, <2>1, <5>1, <6>1 DEF Tables, WeakConns
        <5> QED BY <5>1, <5>2, <5>3, <5>4 DEF OpenTo
      <4> QED BY <4>1, <4>2
    <3>4. PendingRequests'
      BY <1>2, <2>1, <2>2, <3>3, SettledRequests
    <3> QED BY <1>1, <2>1, <3>2, <3>3, <3>4, RoutedFrame DEF Tables, AssertionsHold
  <2> QED BY <2>3, <2>4
<1> QED BY <1>3, <1>4, <1>5

LEMMA ReadLookupResponseStep ==
  ASSUME IInv, NEW c \in Conns, ReadLookupResponse(c)
  PROVE  (AssertionsHold /\ Tables /\ PendingRequests /\ RoutedToDestination)'
<1>1. TypeOK /\ PendingRequests /\ Answers(c)
  BY DEF IInv, ReadLookupResponse
<1>2. requests[c] \in Seq(Requests) /\ requests[c] # <<>>
  BY <1>1 DEF TypeOK, Answers
<1>3. Head(requests[c]) = requests[c][1] /\ Len(requests[c]) \in Nat \ {0}
  BY <1>2, EmptySeq
<1>4. 1 \in Lookups(c)
  BY <1>3 DEF Lookups, ReadLookupResponse
<1>5. PICK n \in nodes : n = Head(requests[c]).peer_addr
  BY <1>1, <1>3, <1>4 DEF PendingRequests
<1>6. UpdateNodeAddressCache(n, n \in DOMAIN Conf, IF n \in DOMAIN Conf THEN Conf[n] ELSE None,
                             [requests EXCEPT ![c] = Tail(@)])
  BY <1>5 DEF ReadLookupResponse
<1>7. n \in NodeAddrs
  BY <1>1 DEF TypeOK
<1> QED BY <1>1, <1>6, <1>7, UpdateNodeAddressCacheStep

LEMMA ReadStaleResponseStep ==
  ASSUME IInv, NEW c \in Conns, ReadStaleResponse(c)
  PROVE  (AssertionsHold /\ Tables /\ PendingRequests /\ RoutedToDestination)'
<1>1. Answers(c)
  BY DEF ReadStaleResponse, Refuses
<1> QED BY <1>1, UpdateNodeAddressCacheStep DEF ReadStaleResponse
-----------------------------------------------------------------------------
(* The theorems.                                                            *)

\* Every step of Next keeps the inductive invariant.
LEMMA InductiveStep == IInv /\ [Next]_vars => IInv'
<1> SUFFICES ASSUME IInv, [Next]_vars
             PROVE  (AssertionsHold /\ Tables /\ PendingRequests /\ RoutedToDestination)'
  BY TypeStep DEF IInv, Tables
<1>1. ASSUME NEW n \in NodeAddrs, HandleToRemoteMessage(n)
      PROVE  (AssertionsHold /\ Tables /\ PendingRequests /\ RoutedToDestination)'
  BY <1>1, SendToConnectedStep, CacheStep, ConnectOnDemandStep, LookupNodeStep
  DEF HandleToRemoteMessage
<1>2. ASSUME NEW c \in Conns, OnConnectedToRemote(c)
      PROVE  (AssertionsHold /\ Tables /\ PendingRequests /\ RoutedToDestination)'
  BY <1>2, OnConnectedToResolveServerStep, SetConnectionStep DEF OnConnectedToRemote
<1>3. ASSUME NEW c \in Conns, OnConnectToRemoteError(c)
      PROVE  (AssertionsHold /\ Tables /\ PendingRequests /\ RoutedToDestination)'
  <2>1. CASE OnConnectedToResolveServerError(c)
    <3>1. /\ conn[c].peer = ResolveServer /\ conn[c].state = "connecting"
          /\ conn' = [conn EXCEPT ![c] = Free] /\ timers' = timers + 1
          /\ UNCHANGED <<nodeVars, resolve_server_conn, msgVars, nodes, nodes_index, requests, aborted>>
      BY <2>1 DEF OnConnectedToResolveServerError
    <3> QED BY <3>1, LinkEnds
  <2> QED BY <1>3, <2>1, OnConnectToRemoteNodeErrorStep DEF OnConnectToRemoteError
<1>4. ASSUME NEW c \in Conns, OnConnectToRemoteClose(c)
      PROVE  (AssertionsHold /\ Tables /\ PendingRequests /\ RoutedToDestination)'
  <2>1. CASE OnResolveServerDisconnected(c)
    <3>1. /\ conn[c].peer = ResolveServer /\ conn[c].state = "closed"
          /\ conn' = [conn EXCEPT ![c] = Free] /\ timers' = timers + 1
          /\ resolve_server_conn' = None
          /\ UNCHANGED <<nodeVars, msgVars, nodes, nodes_index, requests, aborted>>
      BY <2>1 DEF OnResolveServerDisconnected
    <3> QED BY <3>1, LinkEnds
  <2> QED BY <1>4, <2>1, OnRemoteNodeDisconnectedStep DEF OnConnectToRemoteClose
<1>5. ASSUME NEW c \in Conns, HandleResolveServerMessage(c)
      PROVE  (AssertionsHold /\ Tables /\ PendingRequests /\ RoutedToDestination)'
  <2>1. CASE ReadRefusal(c)
    <3>1. conn[c].state = "open"
      BY <2>1 DEF ReadRefusal, Refuses, Answers, OpenTo
    <3>2. /\ conn' = [conn EXCEPT ![c].state = "closed"]
          /\ requests' = [requests EXCEPT ![c] = <<>>]
          /\ UNCHANGED <<nodeVars, linkVars, msgVars, nodes, nodes_index, aborted>>
      BY <2>1 DEF ReadRefusal
    <3> QED BY <3>1, <3>2, CloseStep
  <2> QED BY <1>5, <2>1, UpdateSelfAddressStep, ReadLookupResponseStep, ReadStaleSelfStep,
             ReadStaleResponseStep
          DEF HandleResolveServerMessage
<1>6. ASSUME NEW c \in Conns, PeerCloses(c)
      PROVE  (AssertionsHold /\ Tables /\ PendingRequests /\ RoutedToDestination)'
  BY <1>6, CloseStep DEF PeerCloses
<1>7. CASE ReconnectTimer
  BY <1>7, ReconnectTimerStep
<1>8. CASE UNCHANGED vars
  BY <1>8, IInvParts, TablesFrame, RequestsFrame, RoutedFrame
  DEF vars, nodeVars, linkVars, msgVars, AssertionsHold
<1> QED BY <1>1, <1>2, <1>3, <1>4, <1>5, <1>6, <1>7, <1>8 DEF Next

\* The inductive invariant holds in every state of a cpmd.
THEOREM Invariant == Spec => []IInv
<1> QED BY InitInvariant, InductiveStep, PTL DEF Spec

\* Every variable keeps its type and no cache outgrows kMaxCachedMessageNum.
THEOREM TypeCorrect == Spec => []TypeOK
<1>1. IInv => TypeOK
  BY DEF IInv
<1> QED BY <1>1, Invariant, PTL

\* No assert of the callbacks fails but those of RegisterNode, SetConnection
\* and UpdateNodeAddressCache.
THEOREM AssertionsCorrect == Spec => []AssertionsHold
<1>1. IInv => AssertionsHold
  BY DEF IInv
<1> QED BY <1>1, Invariant, PTL

\* No two connections ever lead to one peer.
THEOREM OneConnectionPerPeerCorrect == Spec => []OneConnectionPerPeer
<1>1. IInv => OneConnectionPerPeer
  BY DEF IInv
<1> QED BY <1>1, Invariant, PTL

\* nodes_index_ and the connections always agree.
THEOREM IndexTracksConnectionsCorrect == Spec => []IndexTracksConnections
<1>1. IInv => IndexTracksConnections
  BY DEF IInv, IndexedNodes, IndexedConns, IndexTracksConnections
<1> QED BY <1>1, Invariant, PTL

\* Messages are written to, and wait for, no node but their own.
THEOREM RoutedCorrect == Spec => []RoutedToDestination
<1>1. IInv => RoutedToDestination
  BY DEF IInv
<1> QED BY <1>1, Invariant, PTL

\* There is always one attempt, link or timer for the resolve server.
THEOREM OneResolveLinkCorrect == Spec => []OneResolveLink
<1>1. IInv => OneResolveLink
  <2> SUFFICES ASSUME IInv PROVE OneResolveLink
    OBVIOUS
  <2> DEFINE L == {c \in Conns : conn[c].peer = ResolveServer}
  <2>1. TypeOK /\ OneConnectionPerPeer /\ Link
    BY DEF IInv
  <2>2. CASE timers = 0
    <3>1. PICK c \in Conns : conn[c].peer = ResolveServer
      BY <2>1, <2>2 DEF Link
    <3>2. conn[c] # Free
      BY <3>1, AddressAssumption DEF Free
    <3>3. L = {c}
      BY <2>1, <3>1, <3>2 DEF OneConnectionPerPeer
    <3>4. Cardinality(L) = 1
      BY <3>3, FS_Singleton
    <3> QED BY <2>2, <3>4 DEF OneResolveLink
  <2>3. CASE timers = 1
    <3>1. L = {}
      BY <2>1, <2>3 DEF Link
    <3>2. Cardinality(L) = 0
      BY <3>1, FS_EmptySet
    <3> QED BY <2>3, <3>2 DEF OneResolveLink
  <2> QED BY <2>1, <2>2, <2>3 DEF Link
<1> QED BY <1>1, Invariant, PTL

\* A resolved node stays resolved, with the address it has.
THEOREM ResolvedStaysResolvedCorrect == Spec => ResolvedStaysResolved
<1> DEFINE Stays == \A n \in NodeAddrs : Resolved(n) =>
                      resolve_state'[n] = "kResolved" /\ net_address'[n] = net_address[n]
<1>1. IInv /\ IInv' /\ [Next]_vars => [Stays]_vars
  <2> SUFFICES ASSUME IInv, IInv', Next, NEW n \in NodeAddrs, Resolved(n)
               PROVE  resolve_state'[n] = "kResolved" /\ net_address'[n] = net_address[n]
    OBVIOUS
  <2>1. TypeOK /\ ResolvedAddresses /\ ResolvedAddresses' /\ UnknownNodes
    BY DEF IInv
  <2>2. resolve_state'[n] = "kResolved"
    <3>1. CASE UNCHANGED resolve_state
      BY <3>1 DEF Resolved
    <3>2. CASE \E k \in NodeAddrs : LookupNode(k)
      <4>1. PICK k \in NodeAddrs : LookupNode(k)
        BY <3>2
      <4>2. k # n
        BY <2>1, <4>1 DEF LookupNode, Located, UnknownNodes, Resolved, NotResolved
      <4> QED BY <2>1, <4>1, <4>2 DEF LookupNode, TypeOK, Resolved
    <3>3. CASE \E c \in Conns : ReadLookupResponse(c) \/ ReadStaleResponse(c)
      <4>2. PICK k, left : UpdateNodeAddressCache(k, k \in DOMAIN Conf,
                             IF k \in DOMAIN Conf THEN Conf[k] ELSE None, left)
        BY <3>3 DEF ReadLookupResponse, ReadStaleResponse
      <4>3. \/ UNCHANGED resolve_state
            \/ resolve_state' = [resolve_state EXCEPT
                 ![k] = IF k \in DOMAIN Conf THEN "kResolved"
                        ELSE IF @ = "kResolved" THEN "kNotResolved" ELSE @]
        BY <4>2 DEF UpdateNodeAddressCache, Abort, nodeVars
      <4>4. n \in DOMAIN Conf
        BY <2>1 DEF ResolvedAddresses
      <4> QED BY <2>1, <4>3, <4>4 DEF TypeOK, Resolved
    <3> QED BY <3>1, <3>2, <3>3
            DEF Next, HandleToRemoteMessage, OnConnectedToRemote, OnConnectToRemoteError,
                OnConnectToRemoteClose, HandleResolveServerMessage, SendToConnected, CacheRefused,
                CacheUntilConnected, ConnectOnDemand, OnConnectedToResolveServer,
                OnConnectedToRemoteNode, SetConnection, OnConnectedToResolveServerError,
                OnConnectToRemoteNodeError, OnResolveServerDisconnected, OnRemoteNodeDisconnected,
                UpdateSelfAddress, ReadRefusal, ReadStaleSelf, PeerCloses, ReconnectTimer, Abort, nodeVars
  <2> QED BY <2>1, <2>2 DEF ResolvedAddresses, Resolved
<1> QED BY <1>1, Invariant, PTL DEF Spec, ResolvedStaysResolved

-----------------------------------------------------------------------------
(* Lookups.                                                                 *)

\* Lookups that are only given up, while their nodes go on waiting.
LEMMA FewerLookups ==
  ASSUME LookupsMatchResolvingNodes,
         \A c \in Conns : requests'[c] = requests[c] \/ Lookups(c)' = {},
         \A n \in NodeAddrs : Resolving(n) => Resolving(n)',
         TypeOK
  PROVE  LookupsMatchResolvingNodes'
<1>1. ASSUME NEW c \in Conns, requests'[c] = requests[c], NEW i \in Lookups(c)'
      PROVE  /\ i \in Lookups(c) /\ Lookups(c)' = Lookups(c)
             /\ requests[c][i].peer_addr \in NodeAddrs
  <2>1. Lookups(c)' = Lookups(c)
    BY <1>1 DEF Lookups
  <2>2. requests[c][i] \in Requests /\ requests[c][i].type = "kLookupNode"
    BY <1>1, <2>1 DEF Lookups, TypeOK
  <2> QED BY <1>1, <2>1, <2>2 DEF Requests
<1> QED BY <1>1 DEF LookupsMatchResolvingNodes

\* Only one connection has unanswered requests.
LEMMA OneAsks ==
  ASSUME IInv, NEW c \in Conns, OpenTo(c, ResolveServer), NEW d \in Conns, d # c
  PROVE  requests[d] = <<>>
<1>1. conn[c] # Free /\ conn[c].peer = ResolveServer
  BY DEF OpenTo, Free
<1>2. requests[d] # <<>> => conn[d].peer = ResolveServer
  BY DEF IInv, PendingRequests, OpenTo
<1> QED BY <1>1, <1>2 DEF IInv, OneConnectionPerPeer

LEMMA NoLookups ==
  /\ \A c : requests[c] = <<>> => Lookups(c) = {}
  /\ \A c : requests'[c] = <<>> => Lookups(c)' = {}
BY DEF Lookups

\* The oldest request is answered, and no node but the one it is about stops
\* waiting.
LEMMA AnsweredLookups ==
  ASSUME IInv, LookupsMatchResolvingNodes, NEW c \in Conns, Answers(c),
         requests' = [requests EXCEPT ![c] = Tail(@)],
         \A k \in NodeAddrs : Resolving(k) =>
            \/ Resolving(k)'
            \/ 1 \in Lookups(c) /\ requests[c][1].peer_addr = k
  PROVE  LookupsMatchResolvingNodes'
<1>1. requests \in [Conns -> Seq(Requests)] /\ requests[c] # <<>>
  BY DEF IInv, TypeOK, Answers
<1>2. /\ Len(requests'[c]) = Len(requests[c]) - 1
      /\ \A i \in 1 .. (Len(requests[c]) - 1) : requests'[c][i] = requests[c][i + 1]
      /\ Len(requests[c]) \in Nat \ {0}
  <2>1. /\ Len(Tail(requests[c])) = Len(requests[c]) - 1 /\ Len(requests[c]) \in Nat \ {0}
        /\ \A i \in 1 .. Len(Tail(requests[c])) : Tail(requests[c])[i] = requests[c][i + 1]
    BY <1>1, HeadTailProperties, EmptySeq
  <2>2. requests'[c] = Tail(requests[c])
    BY <1>1
  <2> QED BY <2>1, <2>2
<1>3. ASSUME NEW d \in Conns, d # c PROVE Lookups(d)' = {}
  <2>1. requests'[d] = <<>>
    BY <1>1, <1>3, OneAsks DEF Answers
  <2> QED BY <2>1, NoLookups
<1>4. ASSUME NEW i \in Lookups(c)'
      PROVE  i + 1 \in Lookups(c) /\ i + 1 # 1 /\ requests'[c][i] = requests[c][i + 1]
  BY <1>2 DEF Lookups
<1>5. ASSUME NEW i \in Lookups(c)' PROVE resolve_state'[requests'[c][i].peer_addr] = "kResolving"
  <2>1. requests[c][i + 1] \in Requests /\ requests[c][i + 1].type = "kLookupNode"
    BY <1>1, <1>4 DEF Lookups
  <2>2. PICK n \in NodeAddrs : requests[c][i + 1].peer_addr = n
    BY <2>1 DEF Requests
  <2>3. Resolving(n) /\ (1 \in Lookups(c) => requests[c][1].peer_addr # n)
    BY <1>4, <2>2 DEF LookupsMatchResolvingNodes
  <2>4. requests'[c][i].peer_addr = n
    BY <1>4, <2>2
  <2>5. Resolving(n)'
    BY <2>3
  <2> QED BY <2>4, <2>5 DEF Resolving
<1>6. ASSUME NEW i \in Lookups(c)', NEW j \in Lookups(c)',
             requests'[c][j].peer_addr = requests'[c][i].peer_addr
      PROVE  j = i
  <2>1. i + 1 \in Lookups(c) /\ j + 1 \in Lookups(c)
        /\ requests[c][j + 1].peer_addr = requests[c][i + 1].peer_addr
    BY <1>4, <1>6
  <2>2. j + 1 = i + 1 /\ i \in Nat /\ j \in Nat
    BY <2>1 DEF LookupsMatchResolvingNodes, Lookups
  <2> QED BY <2>2
<1> QED BY <1>3, <1>5, <1>6 DEF LookupsMatchResolvingNodes, Resolving

LEMMA LookupNodeLookups ==
  ASSUME IInv, LookupsMatchResolvingNodes, NEW n \in NodeAddrs, LookupNode(n)
  PROVE  LookupsMatchResolvingNodes'
<1>1. TypeOK /\ UnknownNodes /\ PendingRequests /\ Link
  BY DEF IInv
<1>2. NotResolved(n)
  BY <1>1 DEF LookupNode, Located, UnknownNodes
<1>3. \A k \in NodeAddrs : Resolving(k) => Resolving(k)'
  BY <1>1, <1>2 DEF LookupNode, TypeOK, Resolving, NotResolved
<1>4. CASE requests' = requests
  BY <1>1, <1>3, <1>4, FewerLookups
<1>5. CASE /\ resolve_server_conn # None
           /\ requests' = [requests EXCEPT ![resolve_server_conn] = Append(@, LookupRequest(n))]
  <2>1. PICK r \in Conns : /\ r = resolve_server_conn
                           /\ requests' = [requests EXCEPT ![r] = Append(@, LookupRequest(n))]
    BY <1>1, <1>5 DEF TypeOK
  <2>2. LookupRequest(n) \in Requests /\ LookupRequest(n).peer_addr = n
    BY <1>1, AddressAssumption DEF LookupRequest, Requests, TypeOK
  <2>3. /\ Len(requests'[r]) = Len(requests[r]) + 1
        /\ \A i \in 1 .. Len(requests[r]) : requests'[r][i] = requests[r][i]
        /\ requests'[r][Len(requests[r]) + 1] = LookupRequest(n)
        /\ Len(requests[r]) \in Nat
    BY <1>1, <2>1, <2>2, AppendProperties, LenProperties DEF TypeOK
  <2>4. \A c \in Conns : c # r => requests'[c] = requests[c]
    BY <1>1, <2>1 DEF TypeOK
  <2>5. Resolving(n)'
    BY <1>1, <1>5 DEF LookupNode, TypeOK, Resolving
  <2> DEFINE last == Len(requests[r]) + 1
  <2>6. ASSUME NEW i \in Lookups(r)'
        PROVE  \/ i = last
               \/ /\ i \in Lookups(r) /\ requests'[r][i] = requests[r][i]
                  /\ requests[r][i].peer_addr # n /\ Resolving(requests[r][i].peer_addr)
                  /\ requests[r][i].peer_addr \in NodeAddrs
    <3>1. CASE i # last
      <4>1. i \in Lookups(r) /\ requests'[r][i] = requests[r][i]
        BY <2>3, <3>1 DEF Lookups
      <4>2. Resolving(requests[r][i].peer_addr)
        BY <2>1, <4>1 DEF LookupsMatchResolvingNodes
      <4>3. requests[r][i] \in Requests /\ requests[r][i].type = "kLookupNode"
        BY <1>1, <2>1, <4>1 DEF TypeOK, Lookups
      <4>4. requests[r][i].peer_addr \in NodeAddrs
        BY <4>3 DEF Requests
      <4> QED BY <1>2, <4>1, <4>2, <4>4 DEF Resolving, NotResolved
    <3> QED BY <3>1
  <2>7. requests'[r][last].peer_addr = n
    BY <2>2, <2>3
  <2> HIDE DEF last
  <2>8. \A i \in Lookups(r)' : resolve_state'[requests'[r][i].peer_addr] = "kResolving"
    <3> SUFFICES ASSUME NEW i \in Lookups(r)' PROVE resolve_state'[requests'[r][i].peer_addr] = "kResolving"
      OBVIOUS
    <3>1. CASE i = last
      BY <2>5, <2>7, <3>1 DEF Resolving
    <3>2. CASE i # last
      <4>1. PICK k \in NodeAddrs : Resolving(k) /\ requests'[r][i].peer_addr = k
        BY <2>6, <3>2
      <4>2. Resolving(k)'
        BY <1>3, <4>1
      <4> QED BY <4>1, <4>2 DEF Resolving
    <3> QED BY <3>1, <3>2
  <2>9. \A i, j \in Lookups(r)' : requests'[r][j].peer_addr = requests'[r][i].peer_addr => j = i
    <3> SUFFICES ASSUME NEW i \in Lookups(r)', NEW j \in Lookups(r)',
                        requests'[r][j].peer_addr = requests'[r][i].peer_addr
                 PROVE  j = i
      OBVIOUS
    <3>1. CASE i = last \/ j = last
      BY <2>6, <2>7, <3>1
    <3>2. CASE i # last /\ j # last
      <4>1. /\ i \in Lookups(r) /\ j \in Lookups(r)
            /\ requests[r][j].peer_addr = requests[r][i].peer_addr
        BY <2>6, <3>2
      <4> QED BY <4>1 DEF LookupsMatchResolvingNodes
    <3> QED BY <3>1, <3>2
  <2>10. ASSUME NEW c \in Conns, c # r, NEW i \in Lookups(c)'
         PROVE  /\ resolve_state'[requests'[c][i].peer_addr] = "kResolving"
                /\ \A j \in Lookups(c)' : requests'[c][j].peer_addr = requests'[c][i].peer_addr => j = i
    <3>1. Lookups(c)' = Lookups(c) /\ requests'[c] = requests[c]
      BY <2>4, <2>10 DEF Lookups
    <3>2. requests[c][i] \in Requests /\ requests[c][i].type = "kLookupNode"
      BY <1>1, <2>10, <3>1 DEF TypeOK, Lookups
    <3>3. PICK k \in NodeAddrs : Resolving(k) /\ requests'[c][i].peer_addr = k
      BY <2>10, <3>1, <3>2 DEF Requests, LookupsMatchResolvingNodes
    <3>4. Resolving(k)'
      BY <1>3, <3>3
    <3>5. resolve_state'[requests'[c][i].peer_addr] = "kResolving"
      BY <3>3, <3>4 DEF Resolving
    <3> QED BY <2>10, <3>1, <3>5 DEF LookupsMatchResolvingNodes
  <2> QED BY <2>8, <2>9, <2>10 DEF LookupsMatchResolvingNodes, Resolving
<1> QED BY <1>4, <1>5 DEF LookupNode, ReqeustNodeNetAddress

LEMMA LookupsStep ==
  ASSUME IInv, LookupsMatchResolvingNodes, [Next]_vars
  PROVE  LookupsMatchResolvingNodes'
<1>1. TypeOK /\ PendingRequests
  BY DEF IInv
<1>2. CASE UNCHANGED <<requests, resolve_state>>
  BY <1>1, <1>2, FewerLookups DEF Resolving
<1>3. ASSUME NEW c \in Conns, OnConnectedToResolveServer(c) PROVE LookupsMatchResolvingNodes'
  <2>1. requests[c] = <<>>
    BY <1>1, <1>3 DEF OnConnectedToResolveServer, PendingRequests, OpenTo
  <2>2. /\ requests' = [requests EXCEPT ![c] = <<[type |-> "kInitializeSelf"]>>]
        /\ UNCHANGED resolve_state
    BY <1>3, <2>1 DEF OnConnectedToResolveServer, nodeVars
  <2>3. Lookups(c)' = {} /\ \A d \in Conns : d # c => requests'[d] = requests[d]
    <3>1. requests'[c] = <<[type |-> "kInitializeSelf"]>>
      BY <1>1, <2>2 DEF TypeOK
    <3> QED BY <1>1, <2>2, <3>1 DEF TypeOK, Lookups
  <2> QED BY <1>1, <2>2, <2>3, FewerLookups DEF Resolving
<1>4. ASSUME NEW c \in Conns, ReadRefusal(c) \/ PeerCloses(c) PROVE LookupsMatchResolvingNodes'
  <2>1. requests' = [requests EXCEPT ![c] = <<>>] /\ UNCHANGED resolve_state
    BY <1>4 DEF ReadRefusal, PeerCloses, nodeVars
  <2>2. Lookups(c)' = {} /\ \A d \in Conns : d # c => requests'[d] = requests[d]
    BY <1>1, <2>1 DEF TypeOK, Lookups
  <2> QED BY <1>1, <2>1, <2>2, FewerLookups DEF Resolving
<1>5. ASSUME NEW c \in Conns, UpdateSelfAddress(c) PROVE LookupsMatchResolvingNodes'
  BY <1>5, AnsweredLookups DEF UpdateSelfAddress, nodeVars, Resolving, Answered
<1>6. ASSUME NEW c \in Conns, Answers(c), requests' = Refused(c) PROVE LookupsMatchResolvingNodes'
  <2>1. requests'[c] = <<[type |-> "refused"]>>
    BY <1>1, <1>6 DEF TypeOK, Refused
  <2>2. Lookups(c)' = {}
    BY <2>1 DEF Lookups
  <2>3. \A d \in Conns : d # c => requests'[d] = <<>>
    BY <1>1, <1>6, OneAsks DEF TypeOK, Refused, Answers
  <2>4. \A d \in Conns : Lookups(d)' = {}
    BY <2>2, <2>3, NoLookups
  <2> QED BY <2>4 DEF LookupsMatchResolvingNodes
<1>7. ASSUME NEW c \in Conns, ReadStaleSelf(c) PROVE LookupsMatchResolvingNodes'
  BY <1>6, <1>7 DEF ReadStaleSelf, Refuses
<1>8. ASSUME NEW c \in Conns, ReadStaleResponse(c) PROVE LookupsMatchResolvingNodes'
  <2>1. PICK n \in NodeAddrs : UpdateNodeAddressCache(n, n \in DOMAIN Conf,
                              IF n \in DOMAIN Conf THEN Conf[n] ELSE None, Refused(c))
    BY <1>8 DEF ReadStaleResponse
  <2>2. UNCHANGED <<requests, resolve_state>> \/ requests' = Refused(c)
    BY <2>1 DEF UpdateNodeAddressCache, Abort, nodeVars
  <2> QED BY <1>2, <1>6, <1>8, <2>2 DEF ReadStaleResponse, Refuses
<1>9. ASSUME NEW c \in Conns, ReadLookupResponse(c) PROVE LookupsMatchResolvingNodes'
  <2>1. requests[c] \in Seq(Requests) /\ requests[c] # <<>> /\ Answers(c)
    BY <1>1, <1>9 DEF TypeOK, ReadLookupResponse, Answers
  <2>2. Head(requests[c]) = requests[c][1] /\ Len(requests[c]) \in Nat \ {0}
    BY <2>1, EmptySeq
  <2>3. 1 \in Lookups(c)
    BY <1>9, <2>2 DEF Lookups, ReadLookupResponse
  <2>4. requests[c][1] \in Requests /\ requests[c][1].type = "kLookupNode"
    BY <2>1, <2>2, <2>3 DEF Lookups
  <2>5. PICK n \in NodeAddrs : n = requests[c][1].peer_addr
    BY <2>4 DEF Requests
  <2>6. UpdateNodeAddressCache(n, n \in DOMAIN Conf, IF n \in DOMAIN Conf THEN Conf[n] ELSE None,
                               [requests EXCEPT ![c] = Tail(@)])
    BY <1>9, <2>2, <2>5 DEF ReadLookupResponse, Answered
  <2>7. \/ UNCHANGED <<requests, resolve_state>>
        \/ /\ requests' = [requests EXCEPT ![c] = Tail(@)]
           /\ resolve_state' = [resolve_state EXCEPT
                ![n] = IF n \in DOMAIN Conf THEN "kResolved"
                       ELSE IF @ = "kResolved" THEN "kNotResolved" ELSE @]
    BY <2>6 DEF UpdateNodeAddressCache, Abort, nodeVars
  <2>8. CASE /\ requests' = [requests EXCEPT ![c] = Tail(@)]
             /\ \A k \in NodeAddrs : k # n => resolve_state'[k] = resolve_state[k]
    <3>1. \A k \in NodeAddrs : Resolving(k) => Resolving(k)' \/ k = n
      BY <2>8 DEF Resolving
    <3> QED BY <2>1, <2>3, <2>5, <2>8, <3>1, AnsweredLookups
  <2> QED BY <1>1, <1>2, <2>7, <2>8 DEF TypeOK
<1>10. ASSUME NEW n \in NodeAddrs, LookupNode(n) PROVE LookupsMatchResolvingNodes'
  BY <1>10, LookupNodeLookups
<1> QED BY <1>2, <1>3, <1>4, <1>5, <1>7, <1>8, <1>9, <1>10
        DEF Next, HandleToRemoteMessage, OnConnectedToRemote, OnConnectToRemoteError,
            OnConnectToRemoteClose, HandleResolveServerMessage, SendToConnected, CacheRefused,
            CacheUntilConnected, ConnectOnDemand,
            OnConnectedToRemoteNode, SetConnection, OnConnectedToResolveServerError,
            OnConnectToRemoteNodeError, OnResolveServerDisconnected, OnRemoteNodeDisconnected,
            ReconnectTimer, Abort, nodeVars, vars

\* A lookup on its way is the only one for its node, and the node waits for it.
THEOREM LookupsMatchCorrect == Spec => []LookupsMatchResolvingNodes
<1>1. Init => LookupsMatchResolvingNodes
  BY DEF Init, LookupsMatchResolvingNodes, Lookups
<1>2. IInv /\ LookupsMatchResolvingNodes /\ [Next]_vars => LookupsMatchResolvingNodes'
  BY LookupsStep
<1> QED BY <1>1, <1>2, Invariant, PTL DEF Spec

-----------------------------------------------------------------------------
(* Conservation.  A message is known by its number: what a place holds is    *)
(* the set of the numbers in it.  The places are a connection (by peer), a   *)
(* cache (by node), dropped and unreported.                                  *)

Ids(q) == {q[i].id : i \in 1 .. Len(q)}
IdsOf(S) == {m.id : m \in S}
NoneTwice(q) == \A i, j \in 1 .. Len(q) : q[i].id = q[j].id => i = j
Disjoint(S, T) == S \cap T = {}

\* The numbers 1 .. k, each in exactly one place: W[a] on the connection to a,
\* C[n] in the cache of n, D and U in dropped and unreported.
Partition(W, C, D, U, k) ==
  /\ \A a, b \in NetAddrs : a # b => Disjoint(W[a], W[b])
  /\ \A n, o \in NodeAddrs : n # o => Disjoint(C[n], C[o])
  /\ \A a \in NetAddrs, n \in NodeAddrs : Disjoint(W[a], C[n])
  /\ \A a \in NetAddrs : Disjoint(W[a], D) /\ Disjoint(W[a], U)
  /\ \A n \in NodeAddrs : Disjoint(C[n], D) /\ Disjoint(C[n], U)
  /\ Disjoint(D, U)
  /\ \A a \in NetAddrs : W[a] \subseteq 1 .. k
  /\ \A n \in NodeAddrs : C[n] \subseteq 1 .. k
  /\ D \subseteq 1 .. k /\ U \subseteq 1 .. k
  /\ \A i \in 1 .. k : \/ \E a \in NetAddrs : i \in W[a]
                       \/ \E n \in NodeAddrs : i \in C[n]
                       \/ i \in D \/ i \in U

WireIds == [a \in NetAddrs |-> Ids(wire[a])]
CacheIds == [n \in NodeAddrs |-> Ids(messages_to_deliver[n])]

OnePlace ==
  /\ \A a \in NetAddrs : NoneTwice(wire[a])
  /\ \A n \in NodeAddrs : NoneTwice(messages_to_deliver[n])
  /\ Partition(WireIds, CacheIds, IdsOf(dropped), IdsOf(unreported), accepted)

LEMMA IdsAppend ==
  ASSUME NEW q \in Seq(Messages), NEW m \in Messages
  PROVE  /\ Ids(Append(q, m)) = Ids(q) \cup {m.id}
         /\ NoneTwice(q) /\ m.id \notin Ids(q) => NoneTwice(Append(q, m))
<1>1. /\ Len(Append(q, m)) = Len(q) + 1 /\ Len(q) \in Nat
      /\ \A i \in 1 .. Len(q) : Append(q, m)[i] = q[i]
      /\ Append(q, m)[Len(q) + 1] = m
  BY AppendProperties, LenProperties
<1>2. \A i \in 1 .. (Len(q) + 1) : i \in 1 .. Len(q) \/ i = Len(q) + 1
  BY <1>1
<1>3. Len(q) + 1 \in 1 .. (Len(q) + 1) /\ \A i \in 1 .. Len(q) : i \in 1 .. (Len(q) + 1)
  BY <1>1
<1>4. Ids(Append(q, m)) = Ids(q) \cup {m.id}
  BY <1>1, <1>2, <1>3 DEF Ids
<1>5. ASSUME NoneTwice(q), m.id \notin Ids(q) PROVE NoneTwice(Append(q, m))
  BY <1>1, <1>2, <1>5 DEF NoneTwice, Ids
<1> QED BY <1>4, <1>5

LEMMA IdsTail ==
  ASSUME NEW q \in Seq(Messages), q # <<>>
  PROVE  /\ Ids(q) = Ids(Tail(q)) \cup {Head(q).id} /\ Tail(q) \in Seq(Messages) /\ Head(q) \in Messages
         /\ NoneTwice(q) => NoneTwice(Tail(q)) /\ Head(q).id \notin Ids(Tail(q))
<1>1. /\ Len(Tail(q)) = Len(q) - 1 /\ Len(q) \in Nat \ {0}
      /\ \A i \in 1 .. (Len(q) - 1) : Tail(q)[i] = q[i + 1]
      /\ Head(q) = q[1] /\ Tail(q) \in Seq(Messages) /\ Head(q) \in Messages
  BY HeadTailProperties, EmptySeq
<1>2. \A i \in 1 .. (Len(q) - 1) : i + 1 \in 1 .. Len(q) /\ i + 1 # 1
  BY <1>1
<1>3. \A i \in 1 .. Len(q) : i = 1 \/ (i - 1 \in 1 .. (Len(q) - 1) /\ (i - 1) + 1 = i)
  BY <1>1
<1>4. 1 \in 1 .. Len(q)
  BY <1>1
<1>5. Ids(q) \subseteq Ids(Tail(q)) \cup {Head(q).id}
  <2> SUFFICES ASSUME NEW i \in 1 .. Len(q) PROVE q[i].id \in Ids(Tail(q)) \cup {Head(q).id}
    BY DEF Ids
  <2>1. CASE i = 1
    BY <1>1, <2>1
  <2>2. CASE i # 1
    <3>1. Tail(q)[i - 1] = q[i] /\ i - 1 \in 1 .. Len(Tail(q))
      BY <1>1, <1>3, <2>2
    <3> QED BY <3>1 DEF Ids
  <2> QED BY <2>1, <2>2
<1>6. Ids(Tail(q)) \cup {Head(q).id} \subseteq Ids(q)
  BY <1>1, <1>2, <1>4 DEF Ids
<1>7. ASSUME NoneTwice(q) PROVE NoneTwice(Tail(q)) /\ Head(q).id \notin Ids(Tail(q))
  <2>1. \A i, j \in 1 .. (Len(q) - 1) : i + 1 = j + 1 => i = j
    BY <1>1
  <2>2. NoneTwice(Tail(q))
    BY <1>1, <1>2, <1>7, <2>1 DEF NoneTwice
  <2>3. Head(q).id \notin Ids(Tail(q))
    BY <1>1, <1>2, <1>4, <1>7 DEF NoneTwice, Ids
  <2> QED BY <2>2, <2>3
<1> QED BY <1>1, <1>5, <1>6, <1>7

LEMMA IdsConcat ==
  ASSUME NEW q \in Seq(Messages), NEW r \in Seq(Messages)
  PROVE  /\ Ids(q \o r) = Ids(q) \cup Ids(r)
         /\ NoneTwice(q) /\ NoneTwice(r) /\ Disjoint(Ids(q), Ids(r)) => NoneTwice(q \o r)
<1>1. /\ Len(q \o r) = Len(q) + Len(r) /\ Len(q) \in Nat /\ Len(r) \in Nat
      /\ \A i \in 1 .. Len(q) + Len(r) :
           (q \o r)[i] = IF i <= Len(q) THEN q[i] ELSE r[i - Len(q)]
  BY ConcatProperties, LenProperties
<1>2. \A i \in 1 .. Len(q) + Len(r) :
        \/ i \in 1 .. Len(q) /\ (q \o r)[i] = q[i]
        \/ i \notin 1 .. Len(q) /\ i - Len(q) \in 1 .. Len(r) /\ (q \o r)[i] = r[i - Len(q)]
  BY <1>1
<1>3. \A i \in 1 .. Len(q) : i \in 1 .. Len(q \o r) /\ (q \o r)[i] = q[i]
  BY <1>1
<1>4. \A i \in 1 .. Len(r) : Len(q) + i \in 1 .. Len(q \o r) /\ (q \o r)[Len(q) + i] = r[i]
  BY <1>1
<1>5. Ids(q \o r) \subseteq Ids(q) \cup Ids(r)
  BY <1>1, <1>2 DEF Ids
<1>6. Ids(q) \subseteq Ids(q \o r) /\ Ids(r) \subseteq Ids(q \o r)
  BY <1>3, <1>4 DEF Ids
<1>7. ASSUME NoneTwice(q), NoneTwice(r), Disjoint(Ids(q), Ids(r)) PROVE NoneTwice(q \o r)
  <2> SUFFICES ASSUME NEW i \in 1 .. Len(q) + Len(r), NEW j \in 1 .. Len(q) + Len(r),
                      (q \o r)[i].id = (q \o r)[j].id
               PROVE  i = j
    BY <1>1 DEF NoneTwice
  <2>1. CASE i \in 1 .. Len(q) /\ j \in 1 .. Len(q)
    BY <1>2, <1>7, <2>1 DEF NoneTwice
  <2>2. CASE i \notin 1 .. Len(q) /\ j \notin 1 .. Len(q)
    <3>1. i - Len(q) = j - Len(q)
      BY <1>2, <1>7, <2>2 DEF NoneTwice
    <3> QED BY <1>1, <3>1
  <2>3. ASSUME NEW x \in 1 .. Len(q), NEW y \in 1 .. Len(r), q[x].id = r[y].id PROVE FALSE
    BY <1>7, <2>3 DEF Disjoint, Ids
  <2> QED BY <1>2, <2>1, <2>2, <2>3
<1> QED BY <1>5, <1>6, <1>7

\* A message pushed into a cache either only comes in, or pushes the oldest out.
LEMMA IdsPush ==
  ASSUME NEW q \in Seq(Messages), NEW m \in Messages, NoneTwice(q), m.id \notin Ids(q)
  PROVE  LET p == Push(q, m, kMaxCachedMessageNum)
             d == Droped(q, kMaxCachedMessageNum)
         IN  /\ Ids(p) \cup IdsOf(d) = Ids(q) \cup {m.id} /\ NoneTwice(p)
             /\ Disjoint(Ids(p), IdsOf(d)) /\ IdsOf(d) \subseteq Ids(q)
<1>1. CASE Full(q, kMaxCachedMessageNum)
  <2>1. q # <<>>
    BY <1>1, CapacityAssumption, EmptySeq DEF Full
  <2>2. /\ Push(q, m, kMaxCachedMessageNum) = Append(Tail(q), m)
        /\ Droped(q, kMaxCachedMessageNum) = {Head(q)}
    BY <1>1 DEF Push, Droped
  <2>3. IdsOf({Head(q)}) = {Head(q).id}
    BY DEF IdsOf
  <2>4. /\ Ids(q) = Ids(Tail(q)) \cup {Head(q).id} /\ Tail(q) \in Seq(Messages)
        /\ NoneTwice(Tail(q)) /\ Head(q).id \notin Ids(Tail(q))
    BY <2>1, IdsTail
  <2>5. Ids(Append(Tail(q), m)) = Ids(Tail(q)) \cup {m.id} /\ NoneTwice(Append(Tail(q), m))
    BY <2>4, IdsAppend
  <2> QED BY <2>2, <2>3, <2>4, <2>5 DEF Disjoint
<1>2. CASE ~Full(q, kMaxCachedMessageNum)
  <2>1. /\ Push(q, m, kMaxCachedMessageNum) = Append(q, m) /\ Droped(q, kMaxCachedMessageNum) = {}
    BY <1>2 DEF Push, Droped
  <2>2. IdsOf({}) = {}
    BY DEF IdsOf
  <2> QED BY <2>1, <2>2, IdsAppend DEF Disjoint
<1> QED BY <1>1, <1>2

\* The next number is in no place yet, so it can go to any one.
LEMMA NextNumber ==
  ASSUME NEW k \in Nat
  PROVE  k + 1 \notin 1 .. k /\ 1 .. (k + 1) = (1 .. k) \cup {k + 1}
OBVIOUS

LEMMA NumberToWire ==
  ASSUME NEW W \in [NetAddrs -> SUBSET Nat], NEW C \in [NodeAddrs -> SUBSET Nat],
         NEW D, NEW U, NEW k \in Nat, Partition(W, C, D, U, k), NEW a \in NetAddrs
  PROVE  Partition([W EXCEPT ![a] = @ \cup {k + 1}], C, D, U, k + 1)
<1> DEFINE X == [W EXCEPT ![a] = @ \cup {k + 1}]
<1>1. X[a] = W[a] \cup {k + 1} /\ \A b \in NetAddrs : b # a => X[b] = W[b]
  OBVIOUS
<1>2. k + 1 \notin 1 .. k /\ 1 .. (k + 1) = (1 .. k) \cup {k + 1}
  BY NextNumber
<1> HIDE DEF X
<1>3. \A i \in 1 .. (k + 1) : \/ \E b \in NetAddrs : i \in X[b]
                              \/ \E n \in NodeAddrs : i \in C[n]
                              \/ i \in D \/ i \in U
  <2>1. k + 1 \in X[a] /\ \A i, b : b \in NetAddrs /\ i \in W[b] => i \in X[b]
    BY <1>1
  <2> QED BY <1>2, <2>1 DEF Partition
<1>4. \A b, c \in NetAddrs : b # c => Disjoint(X[b], X[c])
  BY <1>1, <1>2 DEF Partition, Disjoint
<1>5. \A b \in NetAddrs, n \in NodeAddrs : Disjoint(X[b], C[n])
  BY <1>1, <1>2 DEF Partition, Disjoint
<1>6. \A b \in NetAddrs : Disjoint(X[b], D) /\ Disjoint(X[b], U) /\ X[b] \subseteq 1 .. (k + 1)
  BY <1>1, <1>2 DEF Partition, Disjoint
<1>7. Partition(X, C, D, U, k + 1)
  BY <1>2, <1>3, <1>4, <1>5, <1>6 DEF Partition
<1> QED BY <1>7 DEF X

\* Into a cache that may give up E for it.
LEMMA NumberToCache ==
  ASSUME NEW W \in [NetAddrs -> SUBSET Nat], NEW C \in [NodeAddrs -> SUBSET Nat],
         NEW D, NEW U, NEW k \in Nat, Partition(W, C, D, U, k), NEW n \in NodeAddrs,
         NEW P, NEW E, P \cup E = C[n] \cup {k + 1}, Disjoint(P, E)
  PROVE  Partition(W, [C EXCEPT ![n] = P], D \cup E, U, k + 1)
<1> DEFINE X == [C EXCEPT ![n] = P]
<1>1. X[n] = P /\ \A o \in NodeAddrs : o # n => X[o] = C[o]
  OBVIOUS
<1>2. k + 1 \notin 1 .. k /\ 1 .. (k + 1) = (1 .. k) \cup {k + 1}
  BY NextNumber
<1> HIDE DEF X
<1>3. \A i \in 1 .. (k + 1) : \/ \E a \in NetAddrs : i \in W[a]
                              \/ \E o \in NodeAddrs : i \in X[o]
                              \/ i \in D \cup E \/ i \in U
  BY <1>1, <1>2 DEF Partition
<1>4. \A o, p \in NodeAddrs : o # p => Disjoint(X[o], X[p])
  BY <1>1, <1>2 DEF Partition, Disjoint
<1>5. \A a \in NetAddrs, o \in NodeAddrs : Disjoint(W[a], X[o])
  BY <1>1, <1>2 DEF Partition, Disjoint
<1>6. \A o \in NodeAddrs : Disjoint(X[o], D \cup E) /\ Disjoint(X[o], U) /\ X[o] \subseteq 1 .. (k + 1)
  BY <1>1, <1>2 DEF Partition, Disjoint
<1>7. /\ \A a \in NetAddrs : Disjoint(W[a], D \cup E)
      /\ Disjoint(D \cup E, U) /\ D \cup E \subseteq 1 .. (k + 1)
  <2>1. E \subseteq C[n] \cup {k + 1}
    OBVIOUS
  <2>2. \A a \in NetAddrs : Disjoint(W[a], E)
    BY <1>2, <2>1 DEF Partition, Disjoint
  <2>3. Disjoint(E, U) /\ E \subseteq 1 .. (k + 1)
    BY <1>2, <2>1 DEF Partition, Disjoint
  <2> QED BY <1>2, <2>2, <2>3 DEF Partition, Disjoint
<1>8. Partition(W, X, D \cup E, U, k + 1)
  BY <1>2, <1>3, <1>4, <1>5, <1>6, <1>7 DEF Partition
<1> QED BY <1>8 DEF X

LEMMA NumberForgotten ==
  ASSUME NEW W \in [NetAddrs -> SUBSET Nat], NEW C \in [NodeAddrs -> SUBSET Nat],
         NEW D, NEW U, NEW k \in Nat, Partition(W, C, D, U, k)
  PROVE  Partition(W, C, D, U \cup {k + 1}, k + 1)
BY NextNumber DEF Partition, Disjoint

\* A flush only moves numbers.
LEMMA NumbersFlushed ==
  ASSUME NEW W \in [NetAddrs -> SUBSET Nat], NEW C \in [NodeAddrs -> SUBSET Nat],
         NEW D, NEW U, NEW k \in Nat, Partition(W, C, D, U, k),
         NEW a \in NetAddrs, NEW n \in NodeAddrs
  PROVE  Partition([W EXCEPT ![a] = @ \cup C[n]], [C EXCEPT ![n] = {}], D, U, k)
<1> DEFINE X == [W EXCEPT ![a] = @ \cup C[n]]
           Y == [C EXCEPT ![n] = {}]
<1>1. /\ X[a] = W[a] \cup C[n] /\ \A b \in NetAddrs : b # a => X[b] = W[b]
      /\ Y[n] = {} /\ \A o \in NodeAddrs : o # n => Y[o] = C[o]
  OBVIOUS
<1> HIDE DEF X, Y
<1>2. \A b, c \in NetAddrs : b # c => Disjoint(X[b], X[c])
  BY <1>1 DEF Partition, Disjoint
<1>3. \A o, p \in NodeAddrs : o # p => Disjoint(Y[o], Y[p])
  BY <1>1 DEF Partition, Disjoint
<1>4. \A b \in NetAddrs, o \in NodeAddrs : Disjoint(X[b], Y[o])
  BY <1>1 DEF Partition, Disjoint
<1>5. \A b \in NetAddrs : Disjoint(X[b], D) /\ Disjoint(X[b], U) /\ X[b] \subseteq 1 .. k
  BY <1>1 DEF Partition, Disjoint
<1>6. \A o \in NodeAddrs : Disjoint(Y[o], D) /\ Disjoint(Y[o], U) /\ Y[o] \subseteq 1 .. k
  BY <1>1 DEF Partition, Disjoint
<1>7. \A i \in 1 .. k : \/ \E b \in NetAddrs : i \in X[b]
                        \/ \E o \in NodeAddrs : i \in Y[o]
                        \/ i \in D \/ i \in U
  BY <1>1 DEF Partition
<1>8. Partition(X, Y, D, U, k)
  BY <1>2, <1>3, <1>4, <1>5, <1>6, <1>7 DEF Partition
<1> QED BY <1>8 DEF X, Y

LEMMA IdsTypes ==
  ASSUME TypeOK
  PROVE  /\ WireIds \in [NetAddrs -> SUBSET Nat] /\ CacheIds \in [NodeAddrs -> SUBSET Nat]
         /\ accepted \in Nat
<1>1. ASSUME NEW q \in Seq(Messages) PROVE Ids(q) \in SUBSET Nat
  <2> SUFFICES ASSUME NEW i \in 1 .. Len(q) PROVE q[i].id \in Nat
    BY DEF Ids
  <2>1. q[i] \in Messages
    OBVIOUS
  <2> QED BY <2>1 DEF Messages
<1> QED BY <1>1, BoundAssumption DEF TypeOK, WireIds, CacheIds

LEMMA WriteNew ==
  ASSUME TypeOK, OnePlace, NEW a \in NetAddrs, NEW m \in Messages, m.id = accepted + 1,
         accepted' = accepted + 1, wire' = [wire EXCEPT ![a] = Append(@, m)],
         UNCHANGED <<messages_to_deliver, dropped, unreported>>
  PROVE  OnePlace'
<1>1. /\ wire'[a] = Append(wire[a], m) /\ \A b \in NetAddrs : b # a => wire'[b] = wire[b]
      /\ wire[a] \in Seq(Messages)
  BY DEF TypeOK
<1>2. accepted + 1 \notin Ids(wire[a])
  BY IdsTypes, NextNumber DEF OnePlace, Partition, WireIds
<1>3. Ids(wire'[a]) = Ids(wire[a]) \cup {accepted + 1} /\ NoneTwice(wire'[a])
  BY <1>1, <1>2, IdsAppend DEF OnePlace
<1>4. WireIds' = [WireIds EXCEPT ![a] = @ \cup {accepted + 1}] /\ CacheIds' = CacheIds
  <2>1. \A b \in NetAddrs : Ids(wire'[b]) = [WireIds EXCEPT ![a] = @ \cup {accepted + 1}][b]
    <3> SUFFICES ASSUME NEW b \in NetAddrs
                 PROVE  Ids(wire'[b]) = [WireIds EXCEPT ![a] = @ \cup {accepted + 1}][b]
      OBVIOUS
    <3>1. CASE b = a
      BY <1>3, <3>1 DEF WireIds
    <3>2. CASE b # a
      BY <1>1, <3>2 DEF WireIds
    <3> QED BY <3>1, <3>2
  <2>2. WireIds' = [b \in NetAddrs |-> Ids(wire'[b])]
    BY DEF WireIds
  <2>3. CacheIds' = CacheIds
    BY DEF CacheIds
  <2>4. WireIds' = [WireIds EXCEPT ![a] = @ \cup {accepted + 1}]
    BY <2>1, <2>2 DEF WireIds
  <2> QED BY <2>3, <2>4
<1>5. Partition(WireIds', CacheIds', IdsOf(dropped'), IdsOf(unreported'), accepted')
  BY <1>4, IdsTypes, NumberToWire DEF OnePlace
<1> QED BY <1>1, <1>3, <1>5 DEF OnePlace

LEMMA ForgetNew ==
  ASSUME TypeOK, OnePlace, NEW m, m.id = accepted + 1,
         accepted' = accepted + 1, unreported' = unreported \cup {m},
         UNCHANGED <<messages_to_deliver, dropped, wire>>
  PROVE  OnePlace'
<1>1. IdsOf(unreported') = IdsOf(unreported) \cup {accepted + 1}
  BY DEF IdsOf
<1>2. WireIds' = WireIds /\ CacheIds' = CacheIds
  BY DEF WireIds, CacheIds
<1>3. Partition(WireIds', CacheIds', IdsOf(dropped'), IdsOf(unreported'), accepted')
  <2>1. Partition(WireIds, CacheIds, IdsOf(dropped), IdsOf(unreported) \cup {accepted + 1},
                  accepted + 1)
    BY IdsTypes, NumberForgotten DEF OnePlace
  <2> QED BY <1>1, <1>2, <2>1
<1> QED BY <1>3 DEF OnePlace

LEMMA CacheNew ==
  ASSUME TypeOK, OnePlace, NEW n \in NodeAddrs, NEW m \in Messages, m.id = accepted + 1,
         accepted' = accepted + 1, CacheMessage(n, m), UNCHANGED <<wire, unreported>>
  PROVE  OnePlace'
<1> DEFINE q == messages_to_deliver[n]
           p == Push(q, m, kMaxCachedMessageNum)
           d == Droped(q, kMaxCachedMessageNum)
<1>1. /\ messages_to_deliver'[n] = p
      /\ \A o \in NodeAddrs : o # n => messages_to_deliver'[o] = messages_to_deliver[o]
      /\ q \in Seq(Messages) /\ dropped' = dropped \cup d
  BY DEF TypeOK, CacheMessage
<1>2. accepted + 1 \notin Ids(q)
  BY IdsTypes, NextNumber DEF OnePlace, Partition, CacheIds
<1>3. Ids(p) \cup IdsOf(d) = Ids(q) \cup {accepted + 1} /\ NoneTwice(p) /\ Disjoint(Ids(p), IdsOf(d))
  BY <1>1, <1>2, IdsPush DEF OnePlace
<1>4. IdsOf(dropped') = IdsOf(dropped) \cup IdsOf(d)
  BY <1>1 DEF IdsOf
<1> HIDE DEF p, d
<1>5. WireIds' = WireIds /\ CacheIds' = [CacheIds EXCEPT ![n] = Ids(p)] /\ CacheIds[n] = Ids(q)
  BY <1>1 DEF WireIds, CacheIds
<1>6. Partition(WireIds', CacheIds', IdsOf(dropped'), IdsOf(unreported'), accepted')
  <2>1. Ids(p) \cup IdsOf(d) = CacheIds[n] \cup {accepted + 1}
    BY <1>3, <1>5
  <2>2. Partition(WireIds, [CacheIds EXCEPT ![n] = Ids(p)], IdsOf(dropped) \cup IdsOf(d),
                  IdsOf(unreported), accepted + 1)
    BY <1>3, <2>1, IdsTypes, NumberToCache DEF OnePlace
  <2> QED BY <1>4, <1>5, <2>2
<1> QED BY <1>1, <1>3, <1>6 DEF OnePlace

\* SetConnection.
LEMMA Flushed ==
  ASSUME TypeOK, OnePlace, NEW n \in NodeAddrs, NEW a \in NetAddrs,
         wire' = [wire EXCEPT ![a] = @ \o messages_to_deliver[n]], EmptyCache(n),
         UNCHANGED <<accepted, dropped, unreported>>
  PROVE  OnePlace'
<1> HIDE DEF EmptyCache
<1>1. /\ wire'[a] = wire[a] \o messages_to_deliver[n]
      /\ \A b \in NetAddrs : b # a => wire'[b] = wire[b]
      /\ messages_to_deliver'[n] = <<>>
      /\ \A o \in NodeAddrs : o # n => messages_to_deliver'[o] = messages_to_deliver[o]
      /\ wire[a] \in Seq(Messages) /\ messages_to_deliver[n] \in Seq(Messages)
  BY DEF TypeOK, EmptyCache
<1>2. Disjoint(Ids(wire[a]), Ids(messages_to_deliver[n]))
  BY DEF OnePlace, Partition, WireIds, CacheIds
<1>3. /\ Ids(wire'[a]) = Ids(wire[a]) \cup Ids(messages_to_deliver[n])
      /\ NoneTwice(wire'[a])
  BY <1>1, <1>2, IdsConcat DEF OnePlace
<1>4. Ids(messages_to_deliver'[n]) = {} /\ NoneTwice(messages_to_deliver'[n])
  <2>1. Ids(<<>>) = {} /\ NoneTwice(<<>>)
    BY DEF Ids, NoneTwice
  <2> QED BY <1>1, <2>1
<1>5. /\ WireIds' = [WireIds EXCEPT ![a] = @ \cup CacheIds[n]]
      /\ CacheIds' = [CacheIds EXCEPT ![n] = {}]
  <2>1. \A b \in NetAddrs : Ids(wire'[b]) = [WireIds EXCEPT ![a] = @ \cup CacheIds[n]][b]
    <3> SUFFICES ASSUME NEW b \in NetAddrs
                 PROVE  Ids(wire'[b]) = [WireIds EXCEPT ![a] = @ \cup CacheIds[n]][b]
      OBVIOUS
    <3>1. CASE b = a
      BY <1>3, <3>1 DEF WireIds, CacheIds
    <3>2. CASE b # a
      BY <1>1, <3>2 DEF WireIds
    <3> QED BY <3>1, <3>2
  <2>2. WireIds' = [b \in NetAddrs |-> Ids(wire'[b])]
    BY DEF WireIds
  <2>3. WireIds' = [WireIds EXCEPT ![a] = @ \cup CacheIds[n]]
    BY <2>1, <2>2 DEF WireIds
  <2>4. \A o \in NodeAddrs : Ids(messages_to_deliver'[o]) = [CacheIds EXCEPT ![n] = {}][o]
    BY <1>1, <1>4 DEF CacheIds
  <2>5. CacheIds' = [o \in NodeAddrs |-> Ids(messages_to_deliver'[o])]
    BY DEF CacheIds
  <2>6. CacheIds' = [CacheIds EXCEPT ![n] = {}]
    BY <2>4, <2>5 DEF CacheIds
  <2> QED BY <2>3, <2>6
<1>6. Partition(WireIds', CacheIds', IdsOf(dropped'), IdsOf(unreported'), accepted')
  BY <1>5, IdsTypes, NumbersFlushed DEF OnePlace
<1> QED BY <1>1, <1>3, <1>4, <1>6 DEF OnePlace

LEMMA SamePlaces ==
  ASSUME OnePlace, UNCHANGED <<wire, messages_to_deliver, dropped, unreported, accepted>>
  PROVE  OnePlace'
BY DEF OnePlace, WireIds, CacheIds

LEMMA OnePlaceInit == Init => OnePlace
<1> SUFFICES ASSUME Init PROVE OnePlace
  OBVIOUS
<1>1. /\ \A a \in NetAddrs : wire[a] = <<>>
      /\ \A n \in NodeAddrs : messages_to_deliver[n] = <<>>
      /\ dropped = {} /\ unreported = {} /\ accepted = 0
  BY DEF Init
<1>2. Ids(<<>>) = {} /\ NoneTwice(<<>>) /\ IdsOf({}) = {}
  BY DEF Ids, NoneTwice, IdsOf
<1>3. /\ \A a \in NetAddrs : WireIds[a] = {}
      /\ \A n \in NodeAddrs : CacheIds[n] = {}
  BY <1>1, <1>2 DEF WireIds, CacheIds
<1>4. Partition(WireIds, CacheIds, {}, {}, 0)
  BY <1>3 DEF Partition, Disjoint
<1> QED BY <1>1, <1>2, <1>4 DEF OnePlace

LEMMA OnePlaceStep ==
  ASSUME IInv, OnePlace, [Next]_vars
  PROVE  OnePlace'
<1>1. TypeOK /\ WeakConns /\ IndexedNodes
  BY DEF IInv
<1>2. ASSUME NEW n \in NodeAddrs, TakeMessage(n)
      PROVE  NewMessage(n) \in Messages /\ NewMessage(n).id = accepted + 1
  BY <1>1, IdsTypes DEF NewMessage, Messages
<1>3. CASE UNCHANGED <<wire, messages_to_deliver, dropped, unreported, accepted>>
  BY <1>3, SamePlaces
<1>4. ASSUME NEW n \in NodeAddrs, SendToConnected(n) PROVE OnePlace'
  <2>1. PICK a \in NetAddrs : a = conn[weak_conn[n]].peer
    BY <1>1, <1>4 DEF SendToConnected, Connected, WeakConns
  <2> QED BY <1>1, <1>2, <1>4, <2>1, WriteNew DEF SendToConnected, nodeVars
<1>5. ASSUME NEW n \in NodeAddrs, CacheRefused(n) \/ CacheUntilConnected(n) \/ LookupNode(n)
      PROVE  OnePlace'
  <2>1. /\ CacheMessage(n, NewMessage(n)) /\ accepted' = accepted + 1
        /\ UNCHANGED <<wire, unreported>> /\ TakeMessage(n)
    BY <1>5 DEF CacheRefused, CacheUntilConnected, LookupNode
  <2> QED BY <1>1, <1>2, <2>1, CacheNew
<1>6. ASSUME NEW n \in NodeAddrs, ConnectOnDemand(n) PROVE OnePlace'
  <2>1. CASE /\ accepted' = accepted + 1 /\ unreported' = unreported \cup {NewMessage(n)}
             /\ UNCHANGED <<messages_to_deliver, dropped, wire>>
    BY <1>1, <1>2, <1>6, <2>1, ForgetNew DEF ConnectOnDemand
  <2> QED BY <1>3, <1>6, <2>1 DEF ConnectOnDemand, Abort, msgVars, nodeVars
<1>7. ASSUME NEW c \in Conns, OnConnectedToRemoteNode(c) PROVE OnePlace'
  <2>1. conn[c].peer \in NetAddrs
    <3>1. conn[c] \in Connections /\ conn[c] # Free
      BY <1>1, <1>7 DEF TypeOK, OnConnectedToRemoteNode, Free
    <3> QED BY <1>7, <3>1 DEF Connections, Peers, OnConnectedToRemoteNode
  <2>2. PICK n : n = nodes_index[conn[c].peer]
    OBVIOUS
  <2>3. CASE n # None /\ SetConnection(n, c)
    <3>1. n \in NodeAddrs
      BY <1>1, <2>1, <2>2, <2>3 DEF TypeOK
    <3> QED BY <1>1, <2>1, <2>3, <3>1, Flushed DEF SetConnection
  <2>4. \A where : Abort(where) => UNCHANGED <<wire, messages_to_deliver, dropped, unreported, accepted>>
    BY DEF Abort, msgVars, nodeVars
  <2>5. CASE n = None
    <3>1. Abort("OnConnectedToRemoteNode")
      BY <1>7, <2>2, <2>5 DEF OnConnectedToRemoteNode, FindNodeByNetAddress
    <3> QED BY <1>3, <2>4, <3>1
  <2>6. CASE n # None /\ ~SetConnection(n, c)
    <3>1. Abort("SetConnection")
      BY <1>7, <2>2, <2>6 DEF OnConnectedToRemoteNode, FindNodeByNetAddress
    <3> QED BY <1>3, <2>4, <3>1
  <2> QED BY <2>3, <2>5, <2>6
<1>8. ASSUME NEW c \in Conns, \/ OnConnectedToResolveServer(c) \/ OnConnectToRemoteError(c)
                              \/ OnConnectToRemoteClose(c) \/ PeerCloses(c)
      PROVE  OnePlace'
  BY <1>3, <1>8 DEF OnConnectedToResolveServer, OnConnectToRemoteError, OnConnectToRemoteClose,
       OnConnectedToResolveServerError, OnConnectToRemoteNodeError, OnResolveServerDisconnected,
       OnRemoteNodeDisconnected, PeerCloses, Abort, nodeVars, msgVars
<1>9. ASSUME NEW c \in Conns, HandleResolveServerMessage(c) PROVE OnePlace'
  BY <1>3, <1>9 DEF HandleResolveServerMessage, UpdateSelfAddress, ReadLookupResponse,
       ReadRefusal, ReadStaleSelf, ReadStaleResponse, UpdateNodeAddressCache,
       Abort, nodeVars, msgVars
<1>10. CASE ReconnectTimer
  BY <1>3, <1>10 DEF ReconnectTimer, nodeVars, msgVars
<1> QED BY <1>3, <1>4, <1>5, <1>6, <1>7, <1>8, <1>9, <1>10
        DEF Next, HandleToRemoteMessage, OnConnectedToRemote, vars, nodeVars, msgVars

\* A position holds a number when its place does, and a place holds a number
\* in one position.
LEMMA HoldsFacts ==
  ASSUME NEW k
  PROVE  /\ \A a, i : Holds(<<"wire", a, i>>, k) <=> i <= Len(wire[a]) /\ wire[a][i].id = k
         /\ \A n, i : Holds(<<"cache", n, i>>, k) <=>
              i <= Len(messages_to_deliver[n]) /\ messages_to_deliver[n][i].id = k
         /\ Holds(<<"dropped">>, k) <=> k \in IdsOf(dropped)
         /\ Holds(<<"unreported">>, k) <=> k \in IdsOf(unreported)
<1>1. \A a, i : Holds(<<"wire", a, i>>, k) <=> i <= Len(wire[a]) /\ wire[a][i].id = k
  BY DEF Holds
<1>2. \A n, i : Holds(<<"cache", n, i>>, k) <=>
        i <= Len(messages_to_deliver[n]) /\ messages_to_deliver[n][i].id = k
  BY DEF Holds
<1>3. /\ Holds(<<"dropped">>, k) <=> k \in IdsOf(dropped)
      /\ Holds(<<"unreported">>, k) <=> k \in IdsOf(unreported)
  BY DEF Holds, IdsOf
<1> QED BY <1>1, <1>2, <1>3

\* A sequence of different numbers of 1 .. k is no longer than k.
LEMMA NoLongerThan ==
  ASSUME NEW q \in Seq(Messages), NEW k \in Nat, Ids(q) \subseteq 1 .. k, NoneTwice(q)
  PROVE  Len(q) <= k
<1>1. Len(q) \in Nat
  BY LenProperties
<1>2. /\ IsFiniteSet(1 .. Len(q)) /\ Cardinality(1 .. Len(q)) = Len(q)
      /\ IsFiniteSet(1 .. k) /\ Cardinality(1 .. k) = k
  <2> SUFFICES ASSUME NEW n \in Nat PROVE IsFiniteSet(1 .. n) /\ Cardinality(1 .. n) = n
    BY <1>1
  <2>1. IsFiniteSet(1 .. n) /\ Cardinality(1 .. n) = IF 1 > n THEN 0 ELSE n - 1 + 1
    BY FS_Interval
  <2> QED BY <2>1
<1> SUFFICES ASSUME k < Len(q) PROVE FALSE
  BY <1>1
<1> DEFINE f == [i \in 1 .. Len(q) |-> q[i].id]
<1>3. f \in [1 .. Len(q) -> 1 .. k]
  BY DEF Ids
<1>4. \E x, y \in 1 .. Len(q) : x # y /\ f[x] = f[y]
  <2> HIDE DEF f
  <2> QED BY <1>2, <1>3, FS_PigeonHole
<1> QED BY <1>4 DEF NoneTwice

LEMMA OnePlaceConservation ==
  ASSUME TypeOK, OnePlace
  PROVE  Conservation
<1> SUFFICES ASSUME NEW k \in 1 .. accepted
             PROVE  Cardinality({p \in Positions : Holds(p, k)}) = 1
  BY DEF Conservation
<1> DEFINE H == {p \in Positions : Holds(p, k)}
<1>1. Partition(WireIds, CacheIds, IdsOf(dropped), IdsOf(unreported), accepted)
  BY DEF OnePlace
<1>2. /\ \A a \in NetAddrs : WireIds[a] = Ids(wire[a])
      /\ \A n \in NodeAddrs : CacheIds[n] = Ids(messages_to_deliver[n])
  BY DEF WireIds, CacheIds
\* What holds k is a position in a place of k.
<1>3. ASSUME NEW p \in H
      PROVE  \/ \E a \in NetAddrs, i \in Nat :
                  p = <<"wire", a, i>> /\ i \in 1 .. Len(wire[a]) /\ wire[a][i].id = k
             \/ \E n \in NodeAddrs, i \in Nat :
                  /\ p = <<"cache", n, i>> /\ i \in 1 .. Len(messages_to_deliver[n])
                  /\ messages_to_deliver[n][i].id = k
             \/ p = <<"dropped">> /\ k \in IdsOf(dropped)
             \/ p = <<"unreported">> /\ k \in IdsOf(unreported)
  <2>1. CASE \E a \in NetAddrs, i \in 1 .. MaxMessages : p = <<"wire", a, i>>
    <3>1. PICK a \in NetAddrs, i \in 1 .. MaxMessages : p = <<"wire", a, i>>
      BY <2>1
    <3>2. i <= Len(wire[a]) /\ wire[a][i].id = k
      BY <3>1, HoldsFacts
    <3>3. i \in Nat /\ i \in 1 .. Len(wire[a])
      BY <3>2, LenProperties DEF TypeOK
    <3> QED BY <3>1, <3>2, <3>3
  <2>2. CASE \E n \in NodeAddrs, i \in 1 .. kMaxCachedMessageNum : p = <<"cache", n, i>>
    <3>1. PICK n \in NodeAddrs, i \in 1 .. kMaxCachedMessageNum : p = <<"cache", n, i>>
      BY <2>2
    <3>2. i <= Len(messages_to_deliver[n]) /\ messages_to_deliver[n][i].id = k
      BY <3>1, HoldsFacts
    <3>3. i \in Nat /\ i \in 1 .. Len(messages_to_deliver[n])
      BY <3>2, LenProperties DEF TypeOK
    <3> QED BY <3>1, <3>2, <3>3
  <2>3. CASE p = <<"dropped">> \/ p = <<"unreported">>
    BY <2>3, HoldsFacts
  <2> QED BY <2>1, <2>2, <2>3 DEF Positions
\* Two positions that hold k are the same.
<1>4. ASSUME NEW p \in H, NEW r \in H PROVE p = r
  <2>1. /\ \A a, b \in NetAddrs : k \in Ids(wire[a]) /\ k \in Ids(wire[b]) => a = b
        /\ \A n, o \in NodeAddrs :
             k \in Ids(messages_to_deliver[n]) /\ k \in Ids(messages_to_deliver[o]) => n = o
        /\ \A a \in NetAddrs, n \in NodeAddrs :
             ~(k \in Ids(wire[a]) /\ k \in Ids(messages_to_deliver[n]))
        /\ \A a \in NetAddrs : k \in Ids(wire[a]) =>
             k \notin IdsOf(dropped) /\ k \notin IdsOf(unreported)
        /\ \A n \in NodeAddrs : k \in Ids(messages_to_deliver[n]) =>
             k \notin IdsOf(dropped) /\ k \notin IdsOf(unreported)
        /\ ~(k \in IdsOf(dropped) /\ k \in IdsOf(unreported))
    BY <1>1, <1>2 DEF Partition, Disjoint
  <2>2. ASSUME NEW q, NEW i \in 1 .. Len(q), q[i].id = k PROVE k \in Ids(q)
    BY <2>2 DEF Ids
  <2>3. CASE \E a \in NetAddrs, i \in Nat :
               p = <<"wire", a, i>> /\ i \in 1 .. Len(wire[a]) /\ wire[a][i].id = k
    <3>1. PICK a \in NetAddrs, i \in Nat :
               p = <<"wire", a, i>> /\ i \in 1 .. Len(wire[a]) /\ wire[a][i].id = k
      BY <2>3
    <3>2. k \in Ids(wire[a])
      BY <2>2, <3>1
    <3>3. PICK b \in NetAddrs, j \in Nat :
               r = <<"wire", b, j>> /\ j \in 1 .. Len(wire[b]) /\ wire[b][j].id = k
      BY <1>3, <2>1, <2>2, <3>2
    <3>4. a = b
      BY <2>1, <2>2, <3>2, <3>3
    <3>5. i = j
      BY <3>1, <3>3, <3>4 DEF OnePlace, NoneTwice
    <3> QED BY <3>1, <3>3, <3>4, <3>5
  <2>4. CASE \E n \in NodeAddrs, i \in Nat :
               /\ p = <<"cache", n, i>> /\ i \in 1 .. Len(messages_to_deliver[n])
               /\ messages_to_deliver[n][i].id = k
    <3>1. PICK n \in NodeAddrs, i \in Nat :
               /\ p = <<"cache", n, i>> /\ i \in 1 .. Len(messages_to_deliver[n])
               /\ messages_to_deliver[n][i].id = k
      BY <2>4
    <3>2. k \in Ids(messages_to_deliver[n])
      BY <2>2, <3>1
    <3>3. PICK o \in NodeAddrs, j \in Nat :
               /\ r = <<"cache", o, j>> /\ j \in 1 .. Len(messages_to_deliver[o])
               /\ messages_to_deliver[o][j].id = k
      BY <1>3, <2>1, <2>2, <3>2
    <3>4. n = o
      BY <2>1, <2>2, <3>2, <3>3
    <3>5. i = j
      BY <3>1, <3>3, <3>4 DEF OnePlace, NoneTwice
    <3> QED BY <3>1, <3>3, <3>4, <3>5
  <2>5. CASE p = <<"dropped">> /\ k \in IdsOf(dropped)
    BY <1>3, <2>1, <2>2, <2>5
  <2>6. CASE p = <<"unreported">> /\ k \in IdsOf(unreported)
    BY <1>3, <2>1, <2>2, <2>6
  <2> QED BY <1>3, <2>3, <2>4, <2>5, <2>6
\* Some position holds k.
<1>5. \E p : p \in H
  <2>1. CASE \E a \in NetAddrs : k \in Ids(wire[a])
    <3>1. PICK a \in NetAddrs : \E i \in 1 .. Len(wire[a]) : wire[a][i].id = k
      BY <2>1 DEF Ids
    <3>i. PICK i \in 1 .. Len(wire[a]) : wire[a][i].id = k
      BY <3>1
    <3>2. Len(wire[a]) <= MaxMessages /\ Len(wire[a]) \in Nat
      <4>1. wire[a] \in Seq(Messages) /\ accepted \in Nat /\ accepted <= MaxMessages
        BY IdsTypes, BoundAssumption DEF TypeOK
      <4>2. Ids(wire[a]) \subseteq 1 .. accepted /\ NoneTwice(wire[a])
        BY <1>1, <1>2 DEF Partition, OnePlace
      <4>3. Len(wire[a]) <= accepted /\ Len(wire[a]) \in Nat
        BY <4>1, <4>2, NoLongerThan, LenProperties
      <4> QED BY <4>1, <4>3, BoundAssumption
    <3>3. i \in 1 .. MaxMessages /\ i <= Len(wire[a])
      BY <3>2, BoundAssumption
    <3>4. Holds(<<"wire", a, i>>, k)
      BY <3>i, <3>3, HoldsFacts
    <3>5. <<"wire", a, i>> \in Positions
      BY <3>3 DEF Positions
    <3> QED BY <3>4, <3>5
  <2>2. CASE \E n \in NodeAddrs : k \in Ids(messages_to_deliver[n])
    <3>1. PICK n \in NodeAddrs : \E i \in 1 .. Len(messages_to_deliver[n]) :
            messages_to_deliver[n][i].id = k
      BY <2>2 DEF Ids
    <3>i. PICK i \in 1 .. Len(messages_to_deliver[n]) : messages_to_deliver[n][i].id = k
      BY <3>1
    <3>2. i \in 1 .. kMaxCachedMessageNum /\ i <= Len(messages_to_deliver[n])
      <4>1. /\ Len(messages_to_deliver[n]) <= kMaxCachedMessageNum
            /\ Len(messages_to_deliver[n]) \in Nat
        BY LenProperties DEF TypeOK
      <4> QED BY <4>1, CapacityAssumption
    <3>3. Holds(<<"cache", n, i>>, k)
      BY <3>i, <3>2, HoldsFacts
    <3>4. <<"cache", n, i>> \in Positions
      BY <3>2 DEF Positions
    <3> QED BY <3>3, <3>4
  <2>3. CASE k \in IdsOf(dropped) \/ k \in IdsOf(unreported)
    <3>1. <<"dropped">> \in Positions /\ <<"unreported">> \in Positions
      BY DEF Positions
    <3> QED BY <2>3, <3>1, HoldsFacts
  <2> QED BY <1>1, <1>2, <2>1, <2>2, <2>3 DEF Partition
<1>6. PICK p : H = {p}
  <2> HIDE DEF H
  <2> QED BY <1>4, <1>5
<1> HIDE DEF H
<1>7. Cardinality(H) = 1
  BY <1>6, FS_Singleton
<1> QED BY <1>7 DEF H

\* Every message taken from a client is in exactly one place.
THEOREM ConservationCorrect == Spec => []Conservation
<1>1. IInv /\ OnePlace /\ [Next]_vars => OnePlace'
  BY OnePlaceStep
<1>2. IInv /\ OnePlace => Conservation
  BY OnePlaceConservation DEF IInv
<1> QED BY <1>1, <1>2, OnePlaceInit, Invariant, PTL DEF Spec
=============================================================================

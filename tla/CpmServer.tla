------------------------------ MODULE CpmServer ------------------------------
(***************************************************************************)
(* The remote side of one cpmd (cpm_server.cc with cpm_node.cc): messages   *)
(* that local clients send to other nodes, the lookups that find where a    *)
(* node is, the connections to nodes and the link to the resolve server.    *)
(*                                                                         *)
(* A cpmd is one thread running an event loop.  An action is one callback   *)
(* of the loop, or one message taken by the loop of HandleBusMessage: those *)
(* run to their end before anything else does.  What interleaves is the     *)
(* order of the callbacks.                                                  *)
(*                                                                         *)
(* An assert that fails ends the process (the default build keeps asserts): *)
(* the step sets "aborted" to the name of the function that holds the       *)
(* assert and nothing happens after it, so a step that aborts leaves the    *)
(* rest of the state, which no longer exists, alone.                        *)
(*                                                                         *)
(* The networking library (submodule "alpha") and the resolve server are    *)
(* modelled from how this code uses them.                                   *)
(***************************************************************************)
EXTENDS Naturals, Integers, Sequences, FiniteSets, MessageCacheQueue

CONSTANTS
  NodeAddrs,            \* logical node addresses a message can name
  SelfAddr,             \* the one the resolve server has for this cpmd
  LocalNode,            \* Address::kLocalNodeAddress, "not known yet"
  NetAddrs,             \* network addresses of the message servers
  ResolveServer,        \* network address of the resolve server
  Conf,                 \* the resolve server's table: node -> network address
  Conns,                \* connection objects of client_ (TcpClient)
  None,                 \* no network address, no node, no connection
  kMaxCachedMessageNum, \* capacity of a node's message cache
  WriteMayFail,         \* BOOLEAN: may Write to a node's connection refuse?
  MaxMessages,          \* bound: messages the local clients send
  MaxDisconnects        \* bound: connections that the other side closes

ASSUME AddressAssumption ==
  /\ SelfAddr \in NodeAddrs
  /\ LocalNode \notin NodeAddrs
  /\ ResolveServer \notin NetAddrs
  /\ None \notin NodeAddrs \cup NetAddrs \cup {ResolveServer} \cup Conns

ASSUME ConfAssumption ==
  /\ DOMAIN Conf \subseteq NodeAddrs
  /\ \A n \in DOMAIN Conf : Conf[n] \in NetAddrs

ASSUME CapacityAssumption == kMaxCachedMessageNum \in Nat \ {0}

ASSUME BoundAssumption ==
  /\ WriteMayFail \in BOOLEAN
  /\ MaxMessages \in Nat
  /\ MaxDisconnects \in Nat

VARIABLES
  self_address,         \* self_address_
  resolve_server_conn,  \* resolve_server_conn_: a connection or None
  nodes,                \* keys of nodes_
  nodes_index,          \* nodes_index_: network address -> node or None
  connecting,           \* Node::connecting_
  resolve_state,        \* Node::resolve_state_
  net_address,          \* Node::net_address_
  messages_to_deliver,  \* Node::messages_to_deliver_
  weak_conn,            \* Node::weak_conn_
  conn,                 \* the connections of client_
  timers,               \* reconnect timers armed in the event loop
  requests,             \* resolve requests sent on a connection, unanswered
  wire,                 \* messages written to connections, by peer
  accepted,             \* number of messages taken from local clients
  dropped,              \* messages a full cache gave up, which are logged
  unreported,           \* messages HandleToRemoteMessage forgets
  disconnects,          \* number of connections the other side closed
  aborted               \* "no", or the function whose assert failed

nodeVars == <<connecting, resolve_state, net_address, messages_to_deliver, weak_conn>>
linkVars == <<self_address, resolve_server_conn, timers>>
msgVars  == <<wire, accepted, dropped, unreported>>
vars == <<nodeVars, linkVars, msgVars, nodes, nodes_index,
          conn, requests, disconnects, aborted>>

ResolveStates == {"kResolving", "kResolved", "kNotResolved"}
Peers == NetAddrs \cup {ResolveServer}

\* A message: its number in the order HandleBusMessage read it, and the node
\* part of its remote address.
Messages == [id : Nat \ {0}, to : NodeAddrs]

\* A resolve request, or "refused": a refusal was read and the close that
\* follows it, which loses all other requests, has not come yet.
Requests == [type : {"kInitializeSelf", "refused"}]
              \cup [type : {"kLookupNode"}, self_addr : NodeAddrs \cup {LocalNode},
                    peer_addr : NodeAddrs]

-----------------------------------------------------------------------------
(* Connections.  "open" means established and not closed(); "closed" means   *)
(* closed() although the close callback has not run yet.                     *)

Free == [peer |-> None, state |-> "free"]
Connections == {Free} \cup [peer : Peers, state : {"connecting", "open", "closed"}]
OpenTo(c, a) == conn[c] = [peer |-> a, state |-> "open"]
Closed(c) == conn[c].state = "closed"

\* client_->ConnectTo(a): c is the connection object it creates.
ConnectTo(c, a) ==
  /\ conn[c] = Free
  /\ conn' = [conn EXCEPT ![c] = [peer |-> a, state |-> "connecting"]]

Init ==
  /\ self_address = LocalNode
  /\ resolve_server_conn = None
  /\ nodes = {}
  /\ nodes_index = [a \in NetAddrs |-> None]
  /\ connecting = [n \in NodeAddrs |-> FALSE]
  /\ resolve_state = [n \in NodeAddrs |-> "kNotResolved"]
  /\ net_address = [n \in NodeAddrs |-> None]
  /\ messages_to_deliver = [n \in NodeAddrs |-> <<>>]
  /\ weak_conn = [n \in NodeAddrs |-> None]
  /\ \E c \in Conns :
       conn = [d \in Conns |-> IF d = c THEN [peer |-> ResolveServer, state |-> "connecting"]
                                        ELSE Free]
  /\ timers = 0
  /\ requests = [c \in Conns |-> <<>>]
  /\ wire = [a \in NetAddrs |-> <<>>]
  /\ accepted = 0
  /\ dropped = {}
  /\ unreported = {}
  /\ disconnects = 0
  /\ aborted = "no"

Abort(where) ==
  /\ aborted' = where
  /\ UNCHANGED <<nodeVars, linkVars, msgVars, nodes, nodes_index,
                 conn, requests, disconnects>>

Running == aborted = "no"

-----------------------------------------------------------------------------
(* Node (cpm_node.cc) and the two tables of nodes (cpm_server.cc).           *)

FindNodeByNetAddress(a) == nodes_index[a]
Connected(n) == weak_conn[n] # None /\ conn[weak_conn[n]].state = "open"
Resolving(n) == resolve_state[n] = "kResolving"
Resolved(n) == resolve_state[n] = "kResolved"
NotResolved(n) == resolve_state[n] = "kNotResolved"
HasCachedMessage(n) == messages_to_deliver[n] # <<>>

CacheMessage(n, m) ==
  /\ messages_to_deliver' =
       [messages_to_deliver EXCEPT ![n] = Push(@, m, kMaxCachedMessageNum)]
  /\ dropped' = dropped \cup Droped(messages_to_deliver[n], kMaxCachedMessageNum)

\* FlushMessage, when every Write succeeds: each message written is popped.
FlushKeepingCache(n) == UNCHANGED messages_to_deliver                  \* mutant
EmptyCache(n) == messages_to_deliver' = [messages_to_deliver EXCEPT ![n] = <<>>]

ClearConnectionForgotten(n) == UNCHANGED weak_conn                     \* mutant
ClearConnection(n) == weak_conn' = [weak_conn EXCEPT ![n] = None]

\* RegisterNode asserts that its emplace does not find the address taken.
RegisteredIgnored(a) == FALSE                                          \* mutant
Registered(a) == nodes_index[a] # None
RegisterNodeForgotten(n, a) == UNCHANGED nodes_index                   \* mutant
RegisterNode(n, a) == nodes_index' = [nodes_index EXCEPT ![a] = n]
UnRegisterNodeForgotten(n) == UNCHANGED nodes_index                    \* mutant
UnRegisterNode(n) == nodes_index' = [nodes_index EXCEPT ![net_address[n]] = None]

-----------------------------------------------------------------------------
(* HandleToRemoteMessage: one message for node n, read from a client's bus  *)
(* by the loop of HandleBusMessage, which keeps local destinations away.    *)

TakeMessage(n) ==
  /\ Running
  /\ n # self_address
  /\ accepted < MaxMessages
NewMessage(n) == [id |-> accepted + 1, to |-> n]

\* The branch on which the node is in nodes_ and not kNotResolved.
LocatedIfResolved(n) == n \in nodes /\ Resolved(n)                     \* mutant
LocatedIfConnected(n) == n \in nodes /\ Connected(n)                   \* mutant
Located(n) == n \in nodes /\ ~NotResolved(n)

\* Node::SendMessage, Write takes the message.
SendToConnected(n) ==
  /\ TakeMessage(n)
  /\ Located(n)
  /\ Connected(n)
  /\ wire' = [wire EXCEPT ![conn[weak_conn[n]].peer] = Append(@, NewMessage(n))]
  /\ accepted' = accepted + 1
  /\ UNCHANGED <<nodeVars, linkVars, dropped, unreported, nodes, nodes_index,
                 conn, requests, disconnects, aborted>>

\* Node::SendMessage, Write refuses the message and it is cached.
CacheRefused(n) ==
  /\ TakeMessage(n)
  /\ Located(n)
  /\ Connected(n)
  /\ WriteMayFail
  /\ CacheMessage(n, NewMessage(n))
  /\ accepted' = accepted + 1
  /\ UNCHANGED <<connecting, resolve_state, net_address, weak_conn, linkVars, wire,
                 unreported, nodes, nodes_index, conn, requests,
                 disconnects, aborted>>

\* The node is being connected to or looked up.
CacheUntilConnected(n) ==
  /\ TakeMessage(n)
  /\ Located(n)
  /\ ~Connected(n)
  /\ connecting[n] \/ Resolving(n)
  /\ CacheMessage(n, NewMessage(n))
  /\ accepted' = accepted + 1
  /\ UNCHANGED <<connecting, resolve_state, net_address, weak_conn, linkVars, wire,
                 unreported, nodes, nodes_index, conn, requests,
                 disconnects, aborted>>

\* The address is known and nothing is on its way: connect.  The message is
\* neither sent nor cached, and "droped" stays empty, so nothing is logged.
ConnectOnDemand(n) ==
  /\ TakeMessage(n)
  /\ Located(n)
  /\ ~Connected(n)
  /\ ~connecting[n]
  /\ Resolved(n)
  /\ IF Registered(net_address[n])
       THEN Abort("RegisterNode")
       ELSE /\ RegisterNode(n, net_address[n])
            /\ \E c \in Conns : ConnectTo(c, net_address[n])
            /\ connecting' = [connecting EXCEPT ![n] = TRUE]
            /\ accepted' = accepted + 1
            /\ unreported' = unreported \cup {NewMessage(n)}
            /\ UNCHANGED <<resolve_state, net_address, messages_to_deliver, weak_conn,
                           linkVars, wire, dropped, nodes, requests,
                           disconnects, aborted>>

\* ReqeustNodeNetAddress: nothing is written on a connection that is closed().
LookupRequest(n) ==
  [type |-> "kLookupNode", self_addr |-> self_address, peer_addr |-> n]
ReqeustUnchecked(n) ==                                                 \* mutant
  requests' = [requests EXCEPT ![resolve_server_conn] = Append(@, LookupRequest(n))]
ReqeustNodeNetAddress(n) ==
  requests' = IF Closed(resolve_server_conn)
              THEN requests
              ELSE [requests EXCEPT ![resolve_server_conn] = Append(@, LookupRequest(n))]

\* The node is new or kNotResolved: cache, and look it up if there is a link.
LookupNode(n) ==
  /\ TakeMessage(n)
  /\ ~Located(n)
  /\ nodes' = nodes \cup {n}
  /\ IF resolve_server_conn # None
       THEN /\ ReqeustNodeNetAddress(n)
            /\ resolve_state' = [resolve_state EXCEPT ![n] = "kResolving"]
       ELSE UNCHANGED <<requests, resolve_state>>
  /\ CacheMessage(n, NewMessage(n))
  /\ accepted' = accepted + 1
  /\ UNCHANGED <<connecting, net_address, weak_conn, linkVars, wire, unreported,
                 nodes_index, conn, disconnects, aborted>>

-----------------------------------------------------------------------------
(* Connections to remote nodes.                                             *)

\* Node::SetConnection, when all of the cache is written to the new
\* connection c.
SetConnection(n, c) ==
  /\ wire' = [wire EXCEPT ![conn[c].peer] = @ \o messages_to_deliver[n]]
  /\ EmptyCache(n)
  /\ weak_conn' = [weak_conn EXCEPT ![n] = c]
  /\ conn' = [conn EXCEPT ![c].state = "open"]
  /\ UNCHANGED <<connecting, resolve_state, net_address, linkVars, accepted, dropped,
                 unreported, nodes, nodes_index, requests,
                 disconnects, aborted>>

\* SetConnection asserts that the flush was complete.
OnConnectedToRemoteNode(c) ==
  /\ Running
  /\ conn[c].state = "connecting"
  /\ conn[c].peer # ResolveServer
  /\ LET n == FindNodeByNetAddress(conn[c].peer)
     IN IF n = None
          THEN Abort("OnConnectedToRemoteNode")
          ELSE \/ SetConnection(n, c)
               \/ WriteMayFail /\ HasCachedMessage(n) /\ Abort("SetConnection")

OnConnectToRemoteNodeError(c) ==
  /\ Running
  /\ conn[c].state = "connecting"
  /\ conn[c].peer # ResolveServer
  /\ LET n == FindNodeByNetAddress(conn[c].peer)
     IN IF n = None
          THEN Abort("OnConnectToRemoteNodeError")
        ELSE IF ~Registered(net_address[n])
          THEN Abort("UnRegisterNode")
          ELSE /\ conn' = [conn EXCEPT ![c] = Free]
               /\ connecting' = [connecting EXCEPT ![n] = FALSE]
               /\ UnRegisterNode(n)
               /\ UNCHANGED <<resolve_state, net_address, messages_to_deliver,
                              weak_conn, linkVars, msgVars, nodes,
                              requests, disconnects, aborted>>

OnRemoteNodeDisconnected(c) ==
  /\ Running
  /\ Closed(c)
  /\ conn[c].peer # ResolveServer
  /\ LET n == FindNodeByNetAddress(conn[c].peer)
     IN IF n = None
          THEN Abort("OnRemoteNodeDisconnected")
        ELSE IF ~Registered(net_address[n])
          THEN Abort("UnRegisterNode")
          ELSE /\ conn' = [conn EXCEPT ![c] = Free]
               /\ ClearConnection(n)
               /\ UnRegisterNode(n)
               /\ UNCHANGED <<connecting, resolve_state, net_address,
                              messages_to_deliver, linkVars, msgVars, nodes,
                              requests, disconnects, aborted>>

\* The other side, or the network, ends an established connection; what it
\* had not answered is lost.
PeerCloses(c) ==
  /\ Running
  /\ conn[c].state = "open"
  /\ disconnects < MaxDisconnects
  /\ disconnects' = disconnects + 1
  /\ conn' = [conn EXCEPT ![c].state = "closed"]
  /\ requests' = [requests EXCEPT ![c] = <<>>]
  /\ UNCHANGED <<nodeVars, linkVars, msgVars, nodes, nodes_index,
                 aborted>>

-----------------------------------------------------------------------------
(* The link to the resolve server.                                          *)

\* The first bytes written to a new connection fit: this Write does not fail.
OnConnectedToResolveServer(c) ==
  /\ Running
  /\ conn[c] = [peer |-> ResolveServer, state |-> "connecting"]
  /\ conn' = [conn EXCEPT ![c].state = "open"]
  /\ requests' = [requests EXCEPT ![c] = Append(@, [type |-> "kInitializeSelf"])]
  /\ resolve_server_conn' = c
  /\ UNCHANGED <<nodeVars, self_address, timers, msgVars, nodes, nodes_index,
                 disconnects, aborted>>

\* Arms a timer that calls ConnectTo.
ReconnectForgotten == UNCHANGED timers                                 \* mutant
ReconnectToResolveServer == timers' = timers + 1

OnConnectedToResolveServerError(c) ==
  /\ Running
  /\ conn[c] = [peer |-> ResolveServer, state |-> "connecting"]
  /\ conn' = [conn EXCEPT ![c] = Free]
  /\ ReconnectToResolveServer
  /\ UNCHANGED <<nodeVars, self_address, resolve_server_conn, msgVars, nodes,
                 nodes_index, requests, disconnects, aborted>>

OnResolveServerDisconnected(c) ==
  /\ Running
  /\ conn[c] = [peer |-> ResolveServer, state |-> "closed"]
  /\ conn' = [conn EXCEPT ![c] = Free]
  /\ ReconnectToResolveServer
  /\ resolve_server_conn' = None
  /\ UNCHANGED <<nodeVars, self_address, msgVars, nodes, nodes_index,
                 requests, disconnects, aborted>>

ReconnectTimer ==
  /\ Running
  /\ timers > 0
  /\ timers' = timers - 1
  /\ \E c \in Conns : ConnectTo(c, ResolveServer)
  /\ UNCHANGED <<nodeVars, self_address, resolve_server_conn, msgVars, nodes,
                 nodes_index, requests, disconnects, aborted>>

\* The oldest unanswered request on the link c is answered.
Answers(c) ==
  /\ Running
  /\ OpenTo(c, ResolveServer)
  /\ requests[c] # <<>>
Answered(c) == [requests EXCEPT ![c] = Tail(@)]

\* kUpdateSelf.  The path in the reply is not terminated by a NUL, so the
\* address computed from it may differ from node_addr; then nothing changes.
UpdateSelfAddress(c) ==
  /\ Answers(c)
  /\ Head(requests[c]).type = "kInitializeSelf"
  /\ self_address' \in {self_address, SelfAddr}
  /\ requests' = Answered(c)
  /\ UNCHANGED <<nodeVars, resolve_server_conn, timers, msgVars, nodes, nodes_index,
                 conn, disconnects, aborted>>

\* kUpdateCache for node n: its address a, or (found = FALSE) an error code.
\* left is what stays unanswered.
UpdateNodeAddressCache(n, found, a, left) ==
  IF n \notin nodes /\ ~found
    THEN Abort("UpdateNodeAddressCache")
  ELSE IF found /\ HasCachedMessage(n) /\ ~Connected(n) /\ Registered(a)
    THEN Abort("RegisterNode")
  ELSE
    /\ nodes' = nodes \cup {n}
    /\ net_address' = [net_address EXCEPT ![n] = IF found THEN a ELSE @]
    /\ resolve_state' = [resolve_state EXCEPT
         ![n] = IF found THEN "kResolved" ELSE IF @ = "kResolved" THEN "kNotResolved" ELSE @]
    /\ IF found /\ HasCachedMessage(n) /\ ~Connected(n)
         THEN /\ \E c \in Conns : ConnectTo(c, a)
              /\ RegisterNode(n, a)
         ELSE UNCHANGED <<conn, nodes_index>>
    /\ requests' = left
    /\ UNCHANGED <<connecting, messages_to_deliver, weak_conn, linkVars, msgVars,
                   disconnects, aborted>>
\* The answer to a lookup from a node the resolve server knows.
ReadLookupResponse(c) ==
  /\ Answers(c)
  /\ Head(requests[c]).type = "kLookupNode"
  /\ Head(requests[c]).self_addr # LocalNode
  /\ LET n == Head(requests[c]).peer_addr
     IN UpdateNodeAddressCache(n, n \in DOMAIN Conf,
                               IF n \in DOMAIN Conf THEN Conf[n] ELSE None,
                               Answered(c))

\* The resolve server refuses a lookup that carries kLocalNodeAddress, or the
\* address of a cpmd that is not connected to it: it sends a reply that nobody
\* filled in and closes the link.
Refuses(c) ==
  /\ Answers(c)
  /\ Head(requests[c]).type = "kLookupNode"
  /\ Head(requests[c]).self_addr # SelfAddr
Refused(c) == [requests EXCEPT ![c] = <<[type |-> "refused"]>>]

\* The reply is no response, or was read before, and the close comes.
ReadRefusal(c) ==
  /\ Refuses(c) \/ (Answers(c) /\ Head(requests[c]).type = "refused")
  /\ conn' = [conn EXCEPT ![c].state = "closed"]
  /\ requests' = [requests EXCEPT ![c] = <<>>]
  /\ UNCHANGED <<nodeVars, linkVars, msgVars, nodes, nodes_index,
                 disconnects, aborted>>

\* The reply still holds what an earlier request of any cpmd was answered:
\* a kUpdateSelf for some other cpmd ...
ReadStaleSelf(c) ==
  /\ Refuses(c)
  /\ self_address' \in DOMAIN Conf
  /\ requests' = Refused(c)
  /\ UNCHANGED <<nodeVars, resolve_server_conn, timers, msgVars, nodes, nodes_index,
                 conn, disconnects, aborted>>

\* ... or a kUpdateCache for some node.
ReadStaleResponse(c) ==
  /\ Refuses(c)
  /\ \E n \in NodeAddrs :
       UpdateNodeAddressCache(n, n \in DOMAIN Conf,
                              IF n \in DOMAIN Conf THEN Conf[n] ELSE None, Refused(c))

\* "Resolve Server刷新cpmd地址缓存": the resolve server pushes an address.  Part
\* of NextRefresh only, since the resolve server of this repository never does.
Refresh(c, n, a) ==
  /\ Running
  /\ OpenTo(c, ResolveServer)
  /\ UpdateNodeAddressCache(n, TRUE, a, requests)

-----------------------------------------------------------------------------
HandleToRemoteMessage(n) ==
  \/ SendToConnected(n)
  \/ CacheRefused(n)
  \/ CacheUntilConnected(n)
  \/ ConnectOnDemand(n)
  \/ LookupNode(n)

OnConnectedToRemote(c) ==
  OnConnectedToResolveServer(c) \/ OnConnectedToRemoteNode(c)
OnConnectToRemoteError(c) ==
  OnConnectedToResolveServerError(c) \/ OnConnectToRemoteNodeError(c)
OnConnectToRemoteClose(c) ==
  OnResolveServerDisconnected(c) \/ OnRemoteNodeDisconnected(c)
HandleResolveServerMessage(c) ==
  \/ UpdateSelfAddress(c)
  \/ ReadLookupResponse(c)
  \/ ReadRefusal(c)
  \/ ReadStaleSelf(c)
  \/ ReadStaleResponse(c)

Next ==
  \/ \E n \in NodeAddrs : HandleToRemoteMessage(n)
  \/ \E c \in Conns : \/ OnConnectedToRemote(c)
                      \/ OnConnectToRemoteError(c)
                      \/ OnConnectToRemoteClose(c)
                      \/ HandleResolveServerMessage(c)
                      \/ PeerCloses(c)
  \/ ReconnectTimer

NextRefresh ==
  \/ Next
  \/ \E c \in Conns, n \in NodeAddrs, a \in NetAddrs : Refresh(c, n, a)

Spec == Init /\ [][Next]_vars
SpecRefresh == Init /\ [][NextRefresh]_vars

\* The event loop does not starve a callback: a connection attempt ends one
\* way or the other, a close callback runs, an armed timer fires and an
\* answer that came is read.  Nothing obliges a peer to close a connection,
\* or a client to send.
Fairness ==
  /\ \A c \in Conns : /\ WF_vars(OnConnectedToRemote(c) \/ OnConnectToRemoteError(c))
                      /\ WF_vars(OnConnectToRemoteClose(c))
                      /\ WF_vars(HandleResolveServerMessage(c))
  /\ WF_vars(ReconnectTimer)
FairSpec == Spec /\ Fairness

-----------------------------------------------------------------------------
(* Properties.                                                               *)

Functions == {"no", "RegisterNode", "UnRegisterNode", "SetConnection",
              "UpdateNodeAddressCache", "OnConnectedToRemoteNode",
              "OnConnectToRemoteNodeError", "OnRemoteNodeDisconnected"}

\* Types of the variables; a cache holds at most kMaxCachedMessageNum messages.
TypeOK ==
  /\ self_address \in NodeAddrs \cup {LocalNode}
  /\ resolve_server_conn \in Conns \cup {None}
  /\ nodes \subseteq NodeAddrs
  /\ nodes_index \in [NetAddrs -> NodeAddrs \cup {None}]
  /\ connecting \in [NodeAddrs -> BOOLEAN]
  /\ resolve_state \in [NodeAddrs -> ResolveStates]
  /\ net_address \in [NodeAddrs -> NetAddrs \cup {None}]
  /\ messages_to_deliver \in [NodeAddrs -> Seq(Messages)]
  /\ \A n \in NodeAddrs : Len(messages_to_deliver[n]) <= kMaxCachedMessageNum
  /\ weak_conn \in [NodeAddrs -> Conns \cup {None}]
  /\ conn \in [Conns -> Connections]
  /\ timers \in Nat
  /\ requests \in [Conns -> Seq(Requests)]
  /\ wire \in [NetAddrs -> Seq(Messages)]
  /\ accepted \in 0 .. MaxMessages
  /\ dropped \subseteq Messages
  /\ unreported \subseteq Messages
  /\ disconnects \in 0 .. MaxDisconnects
  /\ aborted \in Functions

\* Of the asserts in the callbacks of the remote side, only three can fail:
\* those of RegisterNode, of SetConnection and of UpdateNodeAddressCache.  A
\* connection that opens, fails or closes always finds its node in
\* nodes_index_.
AssertionsHold ==
  aborted \in {"no", "RegisterNode", "SetConnection", "UpdateNodeAddressCache"}

\* "assert (resp->code == ResolveServerError::kOk)" of UpdateNodeAddressCache:
\* an error answer is about a node this cpmd asked for.
ErrorAnswersKnownNode == aborted # "UpdateNodeAddressCache"

\* "assert (res.second)" of RegisterNode: no address is registered twice.
RegisterNodeSucceeds == aborted # "RegisterNode"

\* "assert (it != nodes_index_.end())" of UnRegisterNode: what is unregistered
\* is registered.
UnRegisterNodeFinds == aborted # "UnRegisterNode"

\* There is at most one connection, attempted, open or not yet reaped, to a
\* peer: messages for one node never split over two connections.
OneConnectionPerPeer ==
  \A c, d \in Conns : conn[c] # Free /\ conn[c].peer = conn[d].peer => c = d

\* nodes_index_ holds exactly the network addresses a connection is for, and
\* each under the node whose address it is.
IndexTracksConnections ==
  \A a \in NetAddrs :
    /\ nodes_index[a] # None <=> \E c \in Conns : conn[c].peer = a
    /\ nodes_index[a] # None => net_address[nodes_index[a]] = a

\* There is always exactly one thing that keeps the link to the resolve
\* server going, a connection in some state or an armed timer: the link is
\* neither forgotten nor made twice, however errors and closes fall.
OneResolveLink ==
  timers + Cardinality({c \in Conns : conn[c].peer = ResolveServer}) = 1

Lookups(c) == {i \in 1 .. Len(requests[c]) : requests[c][i].type = "kLookupNode"}

\* A lookup on its way is the only one for its node, and the node waits for
\* it in kResolving: an answer never meets a node in another state.
LookupsMatchResolvingNodes ==
  \A c \in Conns : \A i \in Lookups(c) :
    /\ Resolving(requests[c][i].peer_addr)
    /\ \A j \in Lookups(c) : requests[c][j].peer_addr = requests[c][i].peer_addr => j = i

Elements(q) == {q[i] : i \in 1 .. Len(q)}

\* A message is written only on a connection to the address the resolve
\* server has for its node, and waits only in the cache of its node.
RoutedToDestination ==
  /\ \A a \in NetAddrs : \A m \in Elements(wire[a]) : m.to \in DOMAIN Conf /\ Conf[m.to] = a
  /\ \A n \in NodeAddrs : \A m \in Elements(messages_to_deliver[n]) : m.to = n

Positions ==
  {<<"wire", a, i>> : a \in NetAddrs, i \in 1 .. MaxMessages}
    \cup {<<"cache", n, i>> : n \in NodeAddrs, i \in 1 .. kMaxCachedMessageNum}
    \cup {<<"dropped">>, <<"unreported">>}
Holds(p, k) ==
  CASE p[1] = "wire"  -> p[3] <= Len(wire[p[2]]) /\ wire[p[2]][p[3]].id = k
    [] p[1] = "cache" -> p[3] <= Len(messages_to_deliver[p[2]])
                           /\ messages_to_deliver[p[2]][p[3]].id = k
    [] p[1] = "dropped" -> \E m \in dropped : m.id = k
    [] p[1] = "unreported" -> \E m \in unreported : m.id = k

\* Every message taken from a client is in exactly one place: once on a
\* connection, once in a cache, given up by a full cache, or forgotten by
\* ConnectOnDemand.  None is sent twice and none disappears elsewhere.
Conservation ==
  \A k \in 1 .. accepted : Cardinality({p \in Positions : Holds(p, k)}) = 1
\* The address of a resolved node never changes, and a node that was found is
\* not forgotten: only a pushed answer (NextRefresh) could do that.
ResolvedStaysResolved ==
  [][\A n \in NodeAddrs : Resolved(n) =>
       resolve_state'[n] = "kResolved" /\ net_address'[n] = net_address[n]]_vars

\* The cpmd keeps the promise of Outbox: every step on the way of a message is
\* one of its steps, so no callback writes to another address, passes a message
\* that is kept, or gives one up that is neither pushed out of a full cache nor
\* the one that reopens a connection.
Delivery == INSTANCE Outbox WITH
  sent <- wire, pending <- messages_to_deliver, lost <- dropped \cup unreported,
  posted <- accepted, Overtaking <- WriteMayFail
ImplementsOutbox == Delivery!OutboxSpec

\* When no Write refuses a message, the messages for a node are written in
\* the order the clients sent them, and those still cached are younger than
\* those written, whatever lookups, connections and closes happened between.
SentInOrder == Delivery!InOrder

Unregistered(n) == \A a \in NetAddrs : nodes_index[a] # n

\* A cache whose node is being connected to does not stay as it is: the
\* attempt flushes it, or ends and takes the node out of nodes_index_.
AttemptEndsWait ==
  \A n \in NodeAddrs :
    (HasCachedMessage(n) /\ ~Unregistered(n)) ~>
      (~HasCachedMessage(n) \/ Unregistered(n) \/ ~Running)

\* A lost link is always tried again: the process dies or, over and over,
\* there is an attempt or an open link.
LinkRecovers ==
  []<>(~Running \/ \E c \in Conns : conn[c].peer = ResolveServer /\ ~Closed(c))

\* A lookup that was sent is answered or lost with its link.
LookupSettles ==
  \A c \in Conns : (Lookups(c) # {}) ~> (Lookups(c) = {} \/ ~Running)
-----------------------------------------------------------------------------
(* The inductive invariant behind AssertionsHold, OneConnectionPerPeer,      *)
(* IndexTracksConnections, OneResolveLink and RoutedToDestination.           *)

\* A node in nodes_index_ is known, resolved and under its own address.
IndexedNodes ==
  \A a \in NetAddrs : nodes_index[a] # None =>
    /\ nodes_index[a] \in nodes
    /\ Resolved(nodes_index[a])
    /\ net_address[nodes_index[a]] = a

\* The peer of a connection to a node is in nodes_index_, and only such peers.
IndexedConns ==
  \A a \in NetAddrs : nodes_index[a] # None <=> \E c \in Conns : conn[c].peer = a

\* The weak pointer of a node is to a connection made for it, past its attempt.
WeakConns ==
  \A n \in NodeAddrs : weak_conn[n] # None =>
    /\ net_address[n] \in NetAddrs
    /\ nodes_index[net_address[n]] = n
    /\ conn[weak_conn[n]].peer = net_address[n]
    /\ conn[weak_conn[n]].state \in {"open", "closed"}

\* A resolved node has the address of the resolve server's table, any other none.
ResolvedAddresses ==
  \A n \in NodeAddrs :
    IF Resolved(n) THEN n \in DOMAIN Conf /\ net_address[n] = Conf[n] ELSE net_address[n] = None

\* A node that is not in nodes_ has never been looked up.
UnknownNodes == \A n \in NodeAddrs \ nodes : NotResolved(n)

\* Requests wait on an open link only, and lookups for known nodes only.
PendingRequests ==
  \A c \in Conns :
    /\ requests[c] # <<>> => OpenTo(c, ResolveServer)
    /\ \A i \in Lookups(c) : requests[c][i].peer_addr \in nodes

\* resolve_server_conn_ is the link once it was established; while a timer is
\* armed there is no link, and otherwise there is one.
Link ==
  /\ \A c \in Conns : resolve_server_conn = c <=>
       conn[c].peer = ResolveServer /\ conn[c].state # "connecting"
  /\ timers \in {0, 1}
  /\ timers = 0 <=> \E c \in Conns : conn[c].peer = ResolveServer

IInv ==
  /\ TypeOK
  /\ AssertionsHold
  /\ OneConnectionPerPeer
  /\ IndexedNodes
  /\ IndexedConns
  /\ WeakConns
  /\ ResolvedAddresses
  /\ UnknownNodes
  /\ PendingRequests
  /\ Link
  /\ RoutedToDestination
=============================================================================

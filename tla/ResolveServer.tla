---------------------------- MODULE ResolveServer ----------------------------
(***************************************************************************)
(* The resolve server (cpm_resolve_server.cc): it gives a cpmd that          *)
(* connects its own logical address and answers its lookups from a table     *)
(* read at start.  One thread runs the callbacks; the loop of                *)
(* ProtocolMessageCodec::OnRead handles all requests that have arrived on    *)
(* one connection before any other callback runs ("reading").               *)
(*                                                                         *)
(* The cpmds are modelled by what they do here: on each connection they      *)
(* send kInitializeSelf first and then lookups, under kLocalNodeAddress, the *)
(* own address or, after a stale reply, that of another cpmd.  A cpmd uses   *)
(* one connection at a time, but one that lost its connection (its host      *)
(* died, the network broke) may connect anew before the old connection is    *)
(* found closed.                                                            *)
(***************************************************************************)
EXTENDS Naturals, Sequences

CONSTANTS
  NodeAddrs,     \* logical addresses that lookups name
  LocalNode,     \* Address::kLocalNodeAddress
  Hosts,         \* network addresses of cpmds, as ip of the peer and cpmd_port
  Conf,          \* nodes_ of the conf: node -> network address
  CacheNodes,    \* cache_nodes_ of the conf: network address -> node
  Conns,         \* connections of the service
  None,          \* no host, no context, no connection
  MaxConnects,   \* bound: connections that cpmds make
  MaxRequests    \* bound: requests sent on one connection

ASSUME AddressAssumption ==
  /\ LocalNode \notin NodeAddrs
  /\ None \notin Hosts \cup NodeAddrs \cup Conns
  /\ "timer" \notin NodeAddrs

\* cache_nodes_ keeps one of the nodes that share a network address.
ASSUME ConfAssumption ==
  /\ DOMAIN Conf \subseteq NodeAddrs
  /\ \A a \in DOMAIN CacheNodes :
       CacheNodes[a] \in DOMAIN Conf /\ Conf[CacheNodes[a]] = a

ASSUME BoundAssumption == MaxConnects \in Nat /\ MaxRequests \in Nat

VARIABLES
  conn,         \* state of each connection object
  host,         \* the cpmd at its other end
  context,      \* Context of the connection: "timer" (a TimerId), a node or None
  armed,        \* connections whose kick-off timer is armed
  connections,  \* connections_: node -> connection or None
  asked,        \* requests sent on the connection, in order
  replies,      \* replies written to it, in order
  reading,      \* connection whose buffer OnRead is working on, or None
  live,         \* the connection that the cpmd at a host uses, or None
  last,         \* the reply filled in last, or None before the first
  connects,     \* number of connections made
  aborted       \* "no", or the function whose assert failed

vars == <<conn, host, context, armed, connections, asked, replies, reading, live, last,
          connects, aborted>>

Requests == [type : {"kInitializeSelf"}]
              \cup [type : {"kLookupNode"}, self_addr : NodeAddrs \cup {LocalNode},
                    peer_addr : NodeAddrs]

\* What a handler filled in ("kNoSelf": an error code and no type), or bytes
\* that are no response.
Answers == [type : {"kUpdateSelf", "kUpdateCache", "kNodeNotFound"}, node : NodeAddrs]
             \cup [type : {"kNoSelf"}]
Garbage == [type |-> "garbage"]

Init ==
  /\ conn = [c \in Conns |-> "free"]
  /\ host = [c \in Conns |-> None]
  /\ context = [c \in Conns |-> None]
  /\ armed = {}
  /\ connections = [n \in NodeAddrs |-> None]
  /\ asked = [c \in Conns |-> <<>>]
  /\ replies = [c \in Conns |-> <<>>]
  /\ reading = None
  /\ live = [a \in Hosts |-> None]
  /\ last = None
  /\ connects = 0
  /\ aborted = "no"

\* A callback runs when none of the loops of OnRead does.
Idle == aborted = "no" /\ reading = None

Abort(where) ==
  /\ aborted' = where
  /\ UNCHANGED <<conn, host, context, armed, connections, asked, replies, reading, live, last,
                 connects>>

-----------------------------------------------------------------------------
(* Connections.                                                             *)

ArmTimerForgotten(c) == armed                                          \* mutant
ArmTimer(c) == armed \cup {c}

\* The cpmd at host a connects; the timer is the limit to initialise itself.
OnNewConnection(c, a) ==
  /\ Idle
  /\ conn[c] = "free"
  /\ connects < MaxConnects
  /\ connects' = connects + 1
  /\ conn' = [conn EXCEPT ![c] = "open"]
  /\ host' = [host EXCEPT ![c] = a]
  /\ armed' = ArmTimer(c)
  /\ context' = [context EXCEPT ![c] = "timer"]
  /\ live' = [live EXCEPT ![a] = c]
  /\ UNCHANGED <<connections, asked, replies, reading, last, aborted>>

\* The timer holds a weak pointer: Close() if the connection still exists.
KickOffNode(c) ==
  /\ Idle
  /\ c \in armed
  /\ armed' = armed \ {c}
  /\ conn' = [conn EXCEPT ![c] = "closed"]
  /\ UNCHANGED <<host, context, connections, asked, replies, reading, live, last, connects, aborted>>

PeerCloses(c) ==
  /\ Idle
  /\ conn[c] = "open"
  /\ conn' = [conn EXCEPT ![c] = "closed"]
  /\ UNCHANGED <<host, context, armed, connections, asked, replies, reading, live, last, connects,
                 aborted>>

\* The connection leaves the registry of nodes, and then it is gone; a timer
\* that still holds it weakly will do nothing.
LeaveForgotten(c) == connections                                       \* mutant
Leave(c) ==
  IF context[c] \in NodeAddrs THEN [connections EXCEPT ![context[c]] = None] ELSE connections

OnClose(c) ==
  /\ Idle
  /\ conn[c] = "closed"
  /\ IF context[c] \in NodeAddrs /\ connections[context[c]] = None
       THEN Abort("OnClose")
       ELSE /\ connections' = Leave(c)
            /\ conn' = [conn EXCEPT ![c] = "free"]
            /\ host' = [host EXCEPT ![c] = None]
            /\ context' = [context EXCEPT ![c] = None]
            /\ armed' = armed \ {c}
            /\ asked' = [asked EXCEPT ![c] = <<>>]
            /\ replies' = [replies EXCEPT ![c] = <<>>]
            /\ live' = [a \in Hosts |-> IF live[a] = c THEN None ELSE live[a]]
            /\ UNCHANGED <<reading, last, connects, aborted>>

-----------------------------------------------------------------------------
(* Requests.                                                                *)

Unanswered(c) == Len(asked[c]) - Len(replies[c])
Request(c) == asked[c][Len(replies[c]) + 1]

\* What a cpmd may take for its own address: the one that the last kUpdateSelf
\* names.  A reply sent without being filled in may be one for another cpmd, on
\* this connection or an earlier one.
SelfAddresses == {LocalNode} \cup {CacheNodes[a] : a \in DOMAIN CacheNodes}

Lookups == [type : {"kLookupNode"}, self_addr : SelfAddresses, peer_addr : NodeAddrs]

\* What a cpmd may send next on its connection.
NextRequests(c) == IF asked[c] = <<>> THEN [type : {"kInitializeSelf"}] ELSE Lookups

\* The request arrives in the buffer of the connection.
CpmdSends(c, r) ==
  /\ Idle
  /\ conn[c] = "open"
  /\ live[host[c]] = c
  /\ Len(asked[c]) < MaxRequests
  /\ r \in NextRequests(c)
  /\ asked' = [asked EXCEPT ![c] = Append(@, r)]
  /\ UNCHANGED <<conn, host, context, armed, connections, replies, reading, live, last, connects,
                 aborted>>

\* The loop of OnRead takes the next request; it goes on to the last one that
\* arrived, even when the connection was closed in between.
Takes(c) ==
  /\ aborted = "no"
  /\ reading = c \/ (reading = None /\ conn[c] = "open")
  /\ Unanswered(c) > 0
  /\ reading' = IF Unanswered(c) > 1 THEN c ELSE None

\* OnMessage writes the reply that its handler filled in.  Unless the
\* connection is to be preserved, it then closes it.
FilledTwice(c, reply) ==                                               \* mutant
  /\ replies' = [replies EXCEPT ![c] = Append(Append(@, reply), reply)]
  /\ last' = reply
Filled(c, reply) ==
  /\ replies' = [replies EXCEPT ![c] = Append(@, reply)]
  /\ last' = reply

Preserve == UNCHANGED conn
CloseConn(c) == conn' = [conn EXCEPT ![c] = "closed"]

\* "ProtocolMessage reply" is not initialised: written without a handler
\* having filled it in, it is whatever the stack holds, such as the reply of
\* the last call.
Unfilled(c) ==
  /\ \E reply \in {Garbage} \cup ({last} \ {None}) :
       replies' = [replies EXCEPT ![c] = Append(@, reply)]
  /\ UNCHANGED last

\* emplace in connections_ finds the node there already.
TakenIgnored(n) == FALSE                                               \* mutant
Taken(n) == connections[n] # None

\* RemoveTimer of the kick-off timer.
RemoveTimerForgotten(c) == armed                                       \* mutant
RemoveTimer(c) == armed \ {c}

\* No node of the table is at the cpmd's address.
HandleNodeInitUnknown(c) ==
  /\ Takes(c)
  /\ Request(c).type = "kInitializeSelf"
  /\ host[c] \notin DOMAIN CacheNodes
  /\ Filled(c, [type |-> "kNoSelf"])
  /\ CloseConn(c)
  /\ UNCHANGED <<host, context, armed, connections, asked, live, connects, aborted>>

\* Asserts that the node was not connected and the connection not initialised.
HandleNodeInit(c) ==
  /\ Takes(c)
  /\ Request(c).type = "kInitializeSelf"
  /\ host[c] \in DOMAIN CacheNodes
  /\ LET n == CacheNodes[host[c]]
     IN IF Taken(n) \/ context[c] # "timer"
          THEN /\ aborted' = "HandleNodeInit"
               /\ UNCHANGED <<conn, context, armed, connections, replies, last>>
          ELSE /\ connections' = [connections EXCEPT ![n] = c]
               /\ armed' = RemoveTimer(c)
               /\ context' = [context EXCEPT ![c] = n]
               /\ Filled(c, [type |-> "kUpdateSelf", node |-> n])
               /\ Preserve
               /\ UNCHANGED aborted
  /\ UNCHANGED <<host, asked, live, connects>>

\* GetNodeInfoByNodeAddress.
LookupReply(n) ==
  [type |-> IF n \in DOMAIN Conf THEN "kUpdateCache" ELSE "kNodeNotFound", node |-> n]

\* The sender is looked up in connections_ under the address the request
\* claims; what is then compared is the context of the connection found.
Knows(a) == a # LocalNode /\ connections[a] # None

HandleNodeLookup(c) ==
  /\ Takes(c)
  /\ Request(c).type = "kLookupNode"
  /\ LET s == Request(c).self_addr
     IN \/ /\ Knows(s)
           /\ context[connections[s]] \notin NodeAddrs
           /\ aborted' = "HandleNodeLookup"
           /\ UNCHANGED <<conn, replies, last>>
        \/ /\ Knows(s)
           /\ context[connections[s]] = s
           /\ Filled(c, LookupReply(Request(c).peer_addr))
           /\ Preserve
           /\ UNCHANGED aborted
        \/ /\ Knows(s) => context[connections[s]] \in NodeAddrs \ {s}
           /\ Unfilled(c)
           /\ CloseConn(c)
           /\ UNCHANGED aborted
  /\ UNCHANGED <<host, context, armed, connections, asked, live, connects>>

OnMessage(c) == HandleNodeInitUnknown(c) \/ HandleNodeInit(c) \/ HandleNodeLookup(c)

Next ==
  \E c \in Conns :
    \/ \E a \in Hosts : OnNewConnection(c, a)
    \/ \E r \in Requests : CpmdSends(c, r)
    \/ OnMessage(c)
    \/ KickOffNode(c)
    \/ PeerCloses(c)
    \/ OnClose(c)

Spec == Init /\ [][Next]_vars

\* The event loop does not starve a timer, a close callback or a connection
\* that has requests to read.  Nothing obliges a cpmd to send or to stay.
Fairness ==
  \A c \in Conns : WF_vars(KickOffNode(c)) /\ WF_vars(OnClose(c)) /\ WF_vars(OnMessage(c))
FairSpec == Spec /\ Fairness

-----------------------------------------------------------------------------
(* Properties.                                                               *)

Initialised(c) == context[c] \in NodeAddrs

\* Types of the variables; no connection gets more replies than it asked for.
TypeOK ==
  /\ conn \in [Conns -> {"free", "open", "closed"}]
  /\ host \in [Conns -> Hosts \cup {None}]
  /\ context \in [Conns -> NodeAddrs \cup {"timer", None}]
  /\ armed \subseteq Conns
  /\ connections \in [NodeAddrs -> Conns \cup {None}]
  /\ asked \in [Conns -> Seq(Requests)]
  /\ replies \in [Conns -> Seq(Answers \cup {Garbage})]
  /\ \A c \in Conns : Len(replies[c]) <= Len(asked[c])
  /\ reading \in Conns \cup {None}
  /\ live \in [Hosts -> Conns \cup {None}]
  /\ last \in Answers \cup {None}
  /\ connects \in 0 .. MaxConnects
  /\ aborted \in {"no", "OnClose", "HandleNodeInit", "HandleNodeLookup"}

\* Of the asserts in the callbacks only those of HandleNodeInit can fail: a
\* connection that closes finds its node in connections_, and what is found
\* there is an initialised connection.
AssertionsHold == aborted \in {"no", "HandleNodeInit"}

\* "assert (res.second)" and "assert (timerid)" of HandleNodeInit: a cpmd that
\* initialises itself is not connected yet.
InitSucceeds == aborted # "HandleNodeInit"

\* connections_ and the contexts of the connections are inverse to each
\* other, and a node is connected from its own network address only.
RegistryMatchesContexts ==
  /\ \A n \in NodeAddrs, c \in Conns : connections[n] = c <=> context[c] = n
  /\ \A c \in Conns : Initialised(c) =>
       /\ conn[c] # "free"
       /\ host[c] \in DOMAIN CacheNodes
       /\ CacheNodes[host[c]] = context[c]

\* The kick-off timer of a connection is armed until the connection is
\* initialised: no initialised cpmd is kicked off, and no other is missed.
TimerUntilInitialised ==
  \A c \in Conns :
    /\ c \in armed => context[c] = "timer"
    /\ (conn[c] = "open" /\ context[c] = "timer") => c \in armed

\* A lookup under the own address of a cpmd of the table is answered, and with
\* what the table has, however connections of other cpmds come and go.  So is,
\* as long as the connection stays open, one under any other address: a reply
\* that is not an answer is the last before the connection is closed.
IsOwn(c, a) == host[c] \in DOMAIN CacheNodes /\ CacheNodes[host[c]] = a
LookupsAnswered ==
  \A c \in Conns : \A i \in 1 .. Len(replies[c]) :
    (/\ asked[c][i].type = "kLookupNode"
     /\ IsOwn(c, asked[c][i].self_addr) \/ conn[c] = "open")
      => replies[c][i] = LookupReply(asked[c][i].peer_addr)

\* An uninitialised connection does not stay: it initialises itself or goes.
KickedOff ==
  \A c \in Conns :
    (conn[c] = "open" /\ context[c] = "timer") ~>
      (conn[c] = "free" \/ Initialised(c) \/ aborted # "no")
=============================================================================

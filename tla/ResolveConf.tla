---------------------------- MODULE ResolveConf ----------------------------
(***************************************************************************)
(* The configuration of the resolve server (cpm_resolve_server_conf.cc),   *)
(* read child by child; what the parser of the property tree gives for a    *)
(* child is chosen as it is read.  An attribute that is missing or cannot   *)
(* be converted throws a ptree_error, as a missing section does.            *)
(*                                                                         *)
(* A network address may be written in several ways; cache_nodes_ has it as *)
(* it is written, while a connection has it as alpha::NetAddress prints it. *)
(***************************************************************************)
EXTENDS Addresses, FiniteSets

CONSTANTS
  Names,        \* values of addr
  Texts,        \* ways to write ip and port
  NetAddrs,     \* network addresses
  ToNet,        \* the network address of a text
  ToText,       \* how a network address is printed
  Missing,      \* no such attribute
  Null,         \* null pointer
  MaxServers,   \* bound: children of interface
  MaxNodes      \* bound: children of nodes

ASSUME TextAssumption ==
  /\ Names \subseteq Slices
  /\ \A a \in Names : Slashes(a) = {} \/ IsNode(a) \/ {NodePart(a), ClientPart(a)} \subseteq Slices
  /\ ToNet \in [Texts -> NetAddrs]
  /\ ToText \in [NetAddrs -> Texts]
  /\ \A a \in NetAddrs : ToNet[ToText[a]] = a
  /\ Missing \notin Names \cup Texts \cup {"tcp", "http", "unknown"}
  /\ Null \notin NetAddrs
  /\ MaxServers \in Nat /\ MaxNodes \in Nat

VARIABLES
  pc,               \* "interface", "nodes", "loaded", "refused" (null is returned)
  sections,         \* the sections the file has
  servers,          \* children of interface read so far
  children,         \* children of nodes read so far
  service_address,  \* address of the tcp server, or Null
  monitor_address,  \* address of the http server, or Null
  nodes,            \* nodes_: node address -> Node
  cache_nodes       \* cache_nodes_: text -> the key of a Node in nodes_

tables == <<service_address, monitor_address, nodes, cache_nodes>>
vars == <<pc, sections, servers, children, tables>>

Servers == [tag : {"server", "unknown"}, type : {"tcp", "http", "unknown", Missing},
            text : Texts \cup {Missing}]
Children == [tag : {"node", "unknown"}, addr : Names \cup {Missing}, text : Texts \cup {Missing}]

Empty == [x \in {} |-> x]
Emplace(map, key, value) ==
  [k \in DOMAIN map \cup {key} |-> IF k \in DOMAIN map THEN map[k] ELSE value]

Init ==
  /\ pc = "interface"
  /\ sections \in SUBSET {"interface", "nodes"}
  /\ servers = <<>>
  /\ children = <<>>
  /\ service_address = Null
  /\ monitor_address = Null
  /\ nodes = Empty
  /\ cache_nodes = Empty

Refuse == pc' = "refused" /\ UNCHANGED <<sections, tables>>
GoOn == UNCHANGED <<pc, sections>>

\* get_child.
NoSection ==
  /\ pc \in {"interface", "nodes"}
  /\ pc \notin sections
  /\ Refuse
  /\ UNCHANGED <<servers, children>>

-----------------------------------------------------------------------------
(* interface.                                                               *)

ReadServer(child) ==
  /\ pc = "interface"
  /\ pc \in sections
  /\ Len(servers) < MaxServers
  /\ servers' = Append(servers, child)
  /\ UNCHANGED children

\* Neither the attributes of another element nor those of a server of
\* another type are looked at.
SkipServer(child) ==
  /\ ReadServer(child)
  /\ child.tag # "server" \/ child.type = "unknown"
  /\ GoOn
  /\ UNCHANGED tables

Occupied(child) == \/ child.type = "tcp" /\ service_address # Null
                   \/ child.type = "http" /\ monitor_address # Null

RefuseServer(child) ==
  /\ ReadServer(child)
  /\ child.tag = "server"
  /\ \/ child.type = Missing
     \/ Occupied(child)
     \/ child.type \in {"tcp", "http"} /\ child.text = Missing
  /\ Refuse

AddServer(child) ==
  /\ ReadServer(child)
  /\ child.tag = "server"
  /\ child.type \in {"tcp", "http"}
  /\ ~Occupied(child)
  /\ child.text # Missing
  /\ IF child.type = "tcp"
       THEN service_address' = ToNet[child.text] /\ UNCHANGED monitor_address
       ELSE monitor_address' = ToNet[child.text] /\ UNCHANGED service_address
  /\ GoOn
  /\ UNCHANGED <<nodes, cache_nodes>>

NoServiceNeeded == FALSE                                               \* mutant
NoService == service_address = Null

EndInterface ==
  /\ pc = "interface"
  /\ pc \in sections
  /\ pc' = IF NoService THEN "refused" ELSE "nodes"
  /\ UNCHANGED <<sections, servers, children, tables>>

-----------------------------------------------------------------------------
(* nodes.                                                                   *)

NodeAddress(child) == Create(child.addr).node

ReadNode(child) ==
  /\ pc = "nodes"
  /\ pc \in sections
  /\ Len(children) < MaxNodes
  /\ children' = Append(children, child)
  /\ UNCHANGED servers

SkipNode(child) ==
  /\ ReadNode(child)
  /\ child.tag # "node"
  /\ GoOn
  /\ UNCHANGED tables

KnownIgnored(n) == FALSE                                               \* mutant
Known(n) == n \in DOMAIN nodes

RefuseNode(child) ==
  /\ ReadNode(child)
  /\ child.tag = "node"
  /\ Missing \notin {child.addr, child.text} => Known(NodeAddress(child))
  /\ Refuse

NewNodeLost(n, child) == nodes                                         \* mutant
NewNode(n, child) ==
  Emplace(nodes, n, [readable_addr |-> child.addr, net_addr |-> ToNet[child.text]])

\* The first node at a network address stays in cache_nodes_.
LastCached(text, n) ==                                                 \* mutant
  [t \in DOMAIN cache_nodes \cup {text} |-> IF t = text THEN n ELSE cache_nodes[t]]
Cached(text, n) == Emplace(cache_nodes, text, n)

AddNode(child) ==
  /\ ReadNode(child)
  /\ child.tag = "node"
  /\ Missing \notin {child.addr, child.text}
  /\ ~Known(NodeAddress(child))
  /\ nodes' = NewNode(NodeAddress(child), child)
  /\ cache_nodes' = Cached(child.text, NodeAddress(child))
  /\ GoOn
  /\ UNCHANGED <<service_address, monitor_address>>

EndNodes ==
  /\ pc = "nodes"
  /\ pc \in sections
  /\ pc' = "loaded"
  /\ UNCHANGED <<sections, servers, children, tables>>

Next ==
  \/ NoSection \/ EndInterface \/ EndNodes
  \/ \E child \in Servers : SkipServer(child) \/ RefuseServer(child) \/ AddServer(child)
  \/ \E child \in Children : SkipNode(child) \/ RefuseNode(child) \/ AddNode(child)

Spec == Init /\ [][Next]_vars

-----------------------------------------------------------------------------
(* What the resolve server looks up in it.                                  *)

GetNodeInfoByNetAddress(a) ==
  IF ToText[a] \in DOMAIN cache_nodes THEN cache_nodes[ToText[a]] ELSE Null

GetNodeInfoByNodeAddress(n) == IF n \in DOMAIN nodes THEN nodes[n] ELSE Null

-----------------------------------------------------------------------------
(* Properties.                                                               *)

\* Types of the variables; every pointer of cache_nodes_ is to a node of nodes_.
TypeOK ==
  /\ pc \in {"interface", "nodes", "loaded", "refused"}
  /\ sections \subseteq {"interface", "nodes"}
  /\ servers \in Seq(Servers) /\ Len(servers) <= MaxServers
  /\ children \in Seq(Children) /\ Len(children) <= MaxNodes
  /\ {service_address, monitor_address} \subseteq NetAddrs \cup {Null}
  /\ DOMAIN nodes \subseteq Nat
  /\ \A n \in DOMAIN nodes : nodes[n] \in [readable_addr : Names, net_addr : NetAddrs]
  /\ DOMAIN cache_nodes \subseteq Texts
  /\ \A t \in DOMAIN cache_nodes : cache_nodes[t] \in DOMAIN nodes

\* What ResolveServer assumes of its two tables: the node found under a network
\* address has this network address, and is under its own address in nodes_.
TablesAgree ==
  \A a \in NetAddrs : GetNodeInfoByNetAddress(a) # Null =>
    LET node == nodes[GetNodeInfoByNetAddress(a)]
    IN node.net_addr = a /\ Create(node.readable_addr).node = GetNodeInfoByNetAddress(a)

\* The children the code is interested in.
ServersOf(type) == {i \in 1 .. Len(servers) : servers[i].tag = "server" /\ servers[i].type = type}
NodesRead == {i \in 1 .. Len(children) : children[i].tag = "node"}

WellFormed ==
  /\ sections = {"interface", "nodes"}
  /\ ServersOf(Missing) = {}
  /\ \A i \in ServersOf("tcp") \cup ServersOf("http") : servers[i].text # Missing
  /\ Cardinality(ServersOf("tcp")) = 1
  /\ Cardinality(ServersOf("http")) <= 1
  /\ \A i \in NodesRead : Missing \notin {children[i].addr, children[i].text}
  /\ \A i, j \in NodesRead : i # j => NodeAddress(children[i]) # NodeAddress(children[j])

\* A file is refused exactly if it lacks a section or an attribute, has not one
\* service address, or has two nodes that cannot be told apart by address.
AcceptsWellFormed ==
  /\ pc = "loaded" => WellFormed
  /\ pc = "refused" => ~WellFormed

\* Every node of a file that was accepted is in nodes_ as it is written, and the
\* first of those written with one network address in cache_nodes_.
LoadedAsWritten ==
  pc = "loaded" =>
    /\ \A i \in ServersOf("tcp") : service_address = ToNet[servers[i].text]
    /\ \A i \in ServersOf("http") : monitor_address = ToNet[servers[i].text]
    /\ DOMAIN nodes = {NodeAddress(children[i]) : i \in NodesRead}
    /\ \A i \in NodesRead :
         /\ nodes[NodeAddress(children[i])] =
              [readable_addr |-> children[i].addr, net_addr |-> ToNet[children[i].text]]
         /\ cache_nodes[children[i].text] = NodeAddress(children[i])
              \/ \E j \in NodesRead : j < i /\ children[j].text = children[i].text

\* A client that is named "node/client" is looked up at the node that the file
\* calls "node/", whatever slashes that has and whatever the hashes are.
ClientsFoundAtNode ==
  pc = "loaded" =>
    \A i \in NodesRead : \A c \in Names :
      IsNode(children[i].addr) /\ Slashes(c) = {} /\ c # <<>> =>
        GetNodeInfoByNodeAddress(Create(children[i].addr \o c).node) =
          [readable_addr |-> children[i].addr, net_addr |-> ToNet[children[i].text]]
=============================================================================

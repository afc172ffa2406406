-------------------------- MODULE ResolveConfProofs --------------------------
(***************************************************************************)
(* Proofs about ResolveConf, for any hash, any names and network addresses, *)
(* and files of any size.                                                  *)
(***************************************************************************)
EXTENDS ResolveConf, SequenceTheorems, FiniteSetTheorems, TLAPS

-----------------------------------------------------------------------------
(* The invariant.                                                           *)

\* Each entry of the two tables is under its own key.
KeysMatch ==
  /\ \A n \in DOMAIN nodes : Create(nodes[n].readable_addr).node = n
  /\ \A t \in DOMAIN cache_nodes : nodes[cache_nodes[t]].net_addr = ToNet[t]

\* While no child was refused, the tables are those of the children read.
ServersAsRead ==
  pc # "refused" =>
    /\ \A i \in ServersOf("tcp") : service_address = ToNet[servers[i].text]
                                   /\ servers[i].text \in Texts
    /\ \A i \in ServersOf("http") : monitor_address = ToNet[servers[i].text]
                                   /\ servers[i].text \in Texts

NodesAsRead ==
  pc # "refused" =>
    /\ DOMAIN nodes = {NodeAddress(children[i]) : i \in NodesRead}
    /\ \A i \in NodesRead :
         /\ nodes[NodeAddress(children[i])] =
              [readable_addr |-> children[i].addr, net_addr |-> ToNet[children[i].text]]
         /\ cache_nodes[children[i].text] = NodeAddress(children[i])
              \/ \E j \in NodesRead : j < i /\ children[j].text = children[i].text
    /\ DOMAIN cache_nodes = {children[i].text : i \in NodesRead}

IInv == TypeOK /\ KeysMatch /\ ServersAsRead /\ NodesAsRead

-----------------------------------------------------------------------------
(* Addresses.                                                               *)

\* The last slash of a name is its only position with no slash behind.
LEMMA LastSlashUnique ==
  ASSUME NEW a \in Seq(STRING), NEW k \in Slashes(a), \A j \in Slashes(a) : j <= k
  PROVE  LastSlash(a) = k
<1>1. Slashes(a) \subseteq Nat
  BY LenProperties DEF Slashes
<1>2. LastSlash(a) \in Slashes(a) /\ \A j \in Slashes(a) : j <= LastSlash(a)
  BY DEF LastSlash
<1> QED BY <1>1, <1>2

\* A client of a node has the node's address, and its own name after the slash.
LEMMA ClientOfNode ==
  ASSUME NEW r \in Seq(STRING), NEW c \in Seq(STRING), IsNode(r), Slashes(c) = {}, c # <<>>
  PROVE  Create(r \o c) = CreateDirectly(Create(r).node, Hash[c])
<1> DEFINE a == r \o c
<1>1. /\ a \in Seq(STRING) /\ Len(r) \in Nat /\ Len(c) \in Nat \ {0}
      /\ Len(a) = Len(r) + Len(c)
      /\ \A i \in 1 .. Len(a) : a[i] = IF i <= Len(r) THEN r[i] ELSE c[i - Len(r)]
  BY ConcatProperties, LenProperties, EmptySeq
<1>2. Len(r) \in 1 .. Len(r) /\ r[Len(r)] = "/"
  BY DEF IsNode, Slashes
<1>3. Len(r) \in Slashes(a)
  BY <1>1, <1>2 DEF Slashes
<1>4. ASSUME NEW j \in Slashes(a) PROVE j <= Len(r)
  <2>1. SUFFICES ASSUME ~(j <= Len(r)) PROVE FALSE
    BY <1>1 DEF Slashes
  <2>2. j - Len(r) \in 1 .. Len(c) /\ c[j - Len(r)] = "/"
    BY <1>1, <2>1 DEF Slashes
  <2> QED BY <2>2 DEF Slashes
<1>5. LastSlash(a) = Len(r)
  BY <1>1, <1>3, <1>4, LastSlashUnique
<1>6. NodePart(a) = r
  <2>1. SubSeq(a, 1, Len(r)) \in Seq(STRING) /\ Len(SubSeq(a, 1, Len(r))) = Len(r)
        /\ \A i \in 1 .. Len(r) : SubSeq(a, 1, Len(r))[i] = a[i]
    BY <1>1, <1>2, SubSeqProperties
  <2>2. \A i \in 1 .. Len(r) : SubSeq(a, 1, Len(r))[i] = r[i]
    BY <1>1, <2>1
  <2> QED BY <1>5, <2>1, <2>2, SeqEqual DEF NodePart
<1>7. ClientPart(a) = c
  <2> DEFINE d == SubSeq(a, Len(r) + 1, Len(a))
  <2>1. d \in Seq(STRING) /\ Len(d) = Len(c)
        /\ \A i \in 1 .. Len(c) : d[i] = a[Len(r) + i]
    BY <1>1, SubSeqProperties
  <2>2. \A i \in 1 .. Len(c) : d[i] = c[i]
    BY <1>1, <2>1
  <2>3. d = c
    BY <2>1, <2>2, SeqEqual
  <2> QED BY <1>5, <2>3 DEF ClientPart
<1>8. ~IsNode(a) /\ Slashes(a) # {}
  BY <1>1, <1>3, <1>4 DEF IsNode
<1>9. Create(r).node = Hash[r]
  BY DEF Create, CreateDirectly, IsNode
<1> QED BY <1>6, <1>7, <1>8, <1>9 DEF Create

LEMMA NodeAddressType ==
  ASSUME NEW child \in Children, child.addr # Missing
  PROVE  child.addr \in Names /\ NodeAddress(child) \in Nat
BY HashAssumption, TextAssumption DEF Children, NodeAddress, Create, CreateDirectly, LocalNode

-----------------------------------------------------------------------------
(* Steps.                                                                   *)

LEMMA InitInvariant == Init => IInv
<1> SUFFICES ASSUME Init PROVE IInv
  OBVIOUS
<1>1. TypeOK
  BY TextAssumption, EmptySeq DEF Init, TypeOK, Empty
<1>2. KeysMatch
  BY DEF Init, KeysMatch, Empty
<1>3. ServersAsRead /\ NodesAsRead
  BY EmptySeq DEF Init, ServersAsRead, NodesAsRead, ServersOf, NodesRead, Empty
<1> QED BY <1>1, <1>2, <1>3 DEF IInv

\* The sections read, when a child is added to one.
LEMMA Appended ==
  ASSUME NEW S, NEW q \in Seq(S), NEW child \in S
  PROVE  /\ Append(q, child) \in Seq(S)
         /\ Len(q) \in Nat /\ Len(Append(q, child)) = Len(q) + 1
         /\ \A i \in 1 .. Len(q) : Append(q, child)[i] = q[i]
         /\ Append(q, child)[Len(q) + 1] = child
BY AppendProperties, LenProperties

\* A step that refuses the file.
LEMMA RefuseInvariant ==
  ASSUME IInv, Refuse,
         servers' \in Seq(Servers), Len(servers') <= MaxServers,
         children' \in Seq(Children), Len(children') <= MaxNodes
  PROVE  IInv'
<1>1. TypeOK' /\ KeysMatch'
  BY DEF IInv, TypeOK, KeysMatch, Refuse, tables
<1>2. ServersAsRead' /\ NodesAsRead'
  BY DEF ServersAsRead, NodesAsRead, Refuse
<1> QED BY <1>1, <1>2 DEF IInv

\* A child of interface that is read, whatever becomes of it.
LEMMA ReadServerFacts ==
  ASSUME IInv, NEW child \in Servers, ReadServer(child)
  PROVE  /\ servers' \in Seq(Servers) /\ Len(servers') <= MaxServers
         /\ Len(servers) \in Nat /\ Len(servers') = Len(servers) + 1
         /\ \A i \in 1 .. Len(servers) : servers'[i] = servers[i]
         /\ servers'[Len(servers) + 1] = child
         /\ children' \in Seq(Children) /\ Len(children') <= MaxNodes
<1>1. servers \in Seq(Servers) /\ servers' = Append(servers, child)
  BY DEF IInv, TypeOK, ReadServer
<1>2. Len(servers) < MaxServers /\ MaxServers \in Nat
  BY TextAssumption DEF ReadServer
<1> QED BY <1>1, <1>2, Appended DEF IInv, TypeOK, ReadServer

LEMMA ServerInvariant ==
  ASSUME IInv, NEW child \in Servers,
         SkipServer(child) \/ RefuseServer(child) \/ AddServer(child)
  PROVE  IInv'
<1>1. /\ servers' \in Seq(Servers) /\ Len(servers') <= MaxServers
      /\ Len(servers) \in Nat /\ Len(servers') = Len(servers) + 1
      /\ \A i \in 1 .. Len(servers) : servers'[i] = servers[i]
      /\ servers'[Len(servers) + 1] = child
      /\ children' \in Seq(Children) /\ Len(children') <= MaxNodes
      /\ children' = children
  BY ReadServerFacts DEF SkipServer, RefuseServer, AddServer, ReadServer
<1>2. \A type : \A i \in ServersOf(type)' :
        \/ i \in ServersOf(type) /\ servers'[i] = servers[i]
        \/ servers'[i] = child /\ child.tag = "server" /\ child.type = type
  BY <1>1 DEF ServersOf
<1>3. CASE RefuseServer(child)
  BY <1>1, <1>3, RefuseInvariant DEF RefuseServer
<1>4. CASE SkipServer(child)
  <2>1. UNCHANGED <<pc, sections, children, service_address, monitor_address, nodes, cache_nodes>>
    BY <1>1, <1>4 DEF SkipServer, GoOn, tables
  <2>2. TypeOK'
    BY <1>1, <2>1 DEF IInv, TypeOK
  <2>3. KeysMatch' /\ NodesAsRead'
    BY <2>1 DEF IInv, KeysMatch, NodesAsRead, NodesRead
  <2>4. ServersAsRead'
    BY <1>2, <2>1, <1>4 DEF SkipServer, IInv, ServersAsRead
  <2> QED BY <2>2, <2>3, <2>4 DEF IInv
<1>5. CASE AddServer(child)
  <2>1. child.text \in Texts /\ ToNet[child.text] \in NetAddrs
    BY <1>5, TextAssumption DEF AddServer, Servers
  <2>2. UNCHANGED <<pc, sections, children, nodes, cache_nodes>>
    BY <1>1, <1>5 DEF AddServer, GoOn
  <2>3. {service_address, monitor_address}' \subseteq NetAddrs \cup {Null}
    BY <1>5, <2>1 DEF AddServer, IInv, TypeOK
  <2>4. TypeOK'
    BY <1>1, <2>2, <2>3 DEF IInv, TypeOK
  <2>5. KeysMatch' /\ NodesAsRead'
    BY <2>2 DEF IInv, KeysMatch, NodesAsRead, NodesRead
  <2>6. ServersAsRead'
    <3>1. pc # "refused" /\ pc' = pc
      BY <1>5 DEF AddServer, ReadServer, GoOn
    <3>2. CASE child.type = "tcp"
      <4>1. ServersOf("tcp") = {}
        BY <1>5, <2>1, <3>1, <3>2, TextAssumption DEF IInv, ServersAsRead, AddServer, Occupied
      <4>2. service_address' = ToNet[child.text] /\ monitor_address' = monitor_address
        BY <1>5, <3>2 DEF AddServer
      <4> QED BY <1>2, <2>1, <3>1, <3>2, <4>1, <4>2 DEF IInv, ServersAsRead
    <3>3. CASE child.type = "http"
      <4>1. ServersOf("http") = {}
        BY <1>5, <2>1, <3>1, <3>3, TextAssumption DEF IInv, ServersAsRead, AddServer, Occupied
      <4>2. monitor_address' = ToNet[child.text] /\ service_address' = service_address
        BY <1>5, <3>3 DEF AddServer
      <4> QED BY <1>2, <2>1, <3>1, <3>3, <4>1, <4>2 DEF IInv, ServersAsRead
    <3> QED BY <1>5, <3>2, <3>3 DEF AddServer
  <2> QED BY <2>4, <2>5, <2>6 DEF IInv
<1> QED BY <1>3, <1>4, <1>5

LEMMA NodeInvariant ==
  ASSUME IInv, NEW child \in Children,
         SkipNode(child) \/ RefuseNode(child) \/ AddNode(child)
  PROVE  IInv'
<1> DEFINE n == NodeAddress(child)
           last == Len(children) + 1
<1>1. /\ children' = Append(children, child) /\ servers' = servers /\ pc = "nodes"
      /\ Len(children) < MaxNodes
  BY DEF SkipNode, RefuseNode, AddNode, ReadNode
<1>2. /\ children' \in Seq(Children) /\ Len(children') <= MaxNodes
      /\ Len(children) \in Nat /\ Len(children') = last
      /\ \A i \in 1 .. Len(children) : children'[i] = children[i]
      /\ children'[last] = child
  BY <1>1, Appended, TextAssumption DEF IInv, TypeOK
<1>3. servers' \in Seq(Servers) /\ Len(servers') <= MaxServers
  BY <1>1 DEF IInv, TypeOK
<1>4. /\ NodesRead' = NodesRead \cup (IF child.tag = "node" THEN {last} ELSE {})
      /\ \A i \in NodesRead : children'[i] = children[i] /\ i < last /\ i \in Nat
      /\ \A i \in NodesRead : children[i] \in Children
  BY <1>2, ElementOfSeq DEF NodesRead, IInv, TypeOK
<1>5. CASE RefuseNode(child)
  BY <1>2, <1>3, <1>5, RefuseInvariant DEF RefuseNode
<1>6. CASE SkipNode(child)
  <2>1. UNCHANGED <<pc, sections, servers, service_address, monitor_address, nodes, cache_nodes>>
    BY <1>1, <1>6 DEF SkipNode, GoOn, tables
  <2>2. TypeOK'
    BY <1>2, <1>3, <2>1 DEF IInv, TypeOK
  <2>3. KeysMatch' /\ ServersAsRead'
    BY <2>1 DEF IInv, KeysMatch, ServersAsRead, ServersOf
  <2>4. NodesRead' = NodesRead
    BY <1>4, <1>6 DEF SkipNode
  <2>5. NodesAsRead'
    <3>1. \A i \in NodesRead : children'[i] = children[i]
      BY <1>4
    <3>2. \A i \in NodesRead : NodeAddress(children'[i]) = NodeAddress(children[i])
      BY <3>1
    <3> QED BY <2>1, <2>4, <3>1, <3>2 DEF IInv, NodesAsRead
  <2> QED BY <2>2, <2>3, <2>5 DEF IInv
<1>7. CASE AddNode(child)
  <2> DEFINE node == [readable_addr |-> child.addr, net_addr |-> ToNet[child.text]]
  <2>1. /\ child.addr \in Names /\ child.text \in Texts /\ n \in Nat
        /\ node \in [readable_addr : Names, net_addr : NetAddrs]
    BY <1>7, NodeAddressType, TextAssumption DEF AddNode, Children
  <2>2. /\ n \notin DOMAIN nodes
        /\ DOMAIN nodes' = DOMAIN nodes \cup {n}
        /\ \A k \in DOMAIN nodes : nodes'[k] = nodes[k]
        /\ nodes'[n] = node
    BY <1>7 DEF AddNode, Known, NewNode, Emplace
  <2>3. /\ DOMAIN cache_nodes' = DOMAIN cache_nodes \cup {child.text}
        /\ \A t \in DOMAIN cache_nodes : cache_nodes'[t] = cache_nodes[t]
        /\ child.text \notin DOMAIN cache_nodes => cache_nodes'[child.text] = n
    BY <1>7 DEF AddNode, Cached, Emplace
  <2>4. UNCHANGED <<pc, sections, service_address, monitor_address>> /\ child.tag = "node"
    BY <1>7 DEF AddNode, GoOn
  <2>5. TypeOK'
    BY <1>1, <1>2, <1>3, <2>1, <2>2, <2>3, <2>4 DEF IInv, TypeOK
  <2>6. KeysMatch'
    <3>1. Create(node.readable_addr).node = n
      BY DEF NodeAddress
    <3> QED BY <2>1, <2>2, <2>3, <3>1 DEF IInv, TypeOK, KeysMatch
  <2>7. ServersAsRead'
    BY <1>1, <2>4 DEF IInv, ServersAsRead, ServersOf
  <2>8. NodesAsRead'
    <3>1. NodesRead' = NodesRead \cup {last}
      BY <1>4, <2>4
    <3>2. /\ DOMAIN nodes = {NodeAddress(children[i]) : i \in NodesRead}
          /\ \A i \in NodesRead :
               /\ nodes[NodeAddress(children[i])] =
                    [readable_addr |-> children[i].addr, net_addr |-> ToNet[children[i].text]]
               /\ cache_nodes[children[i].text] = NodeAddress(children[i])
                    \/ \E j \in NodesRead : j < i /\ children[j].text = children[i].text
          /\ DOMAIN cache_nodes = {children[i].text : i \in NodesRead}
      BY <1>1 DEF IInv, NodesAsRead
    <3>3. DOMAIN nodes' = {NodeAddress(children'[i]) : i \in NodesRead'}
      BY <1>2, <1>4, <2>2, <3>1, <3>2
    <3>4. DOMAIN cache_nodes' = {children'[i].text : i \in NodesRead'}
      BY <1>2, <1>4, <2>3, <3>1, <3>2
    <3>5. ASSUME NEW i \in NodesRead'
          PROVE  /\ nodes'[NodeAddress(children'[i])] =
                      [readable_addr |-> children'[i].addr, net_addr |-> ToNet[children'[i].text]]
                 /\ cache_nodes'[children'[i].text] = NodeAddress(children'[i])
                      \/ \E j \in NodesRead' : j < i /\ children'[j].text = children'[i].text
      <4>1. CASE i = last
        <5>1. CASE child.text \in DOMAIN cache_nodes
          BY <1>2, <1>4, <2>2, <3>1, <3>2, <4>1, <5>1
        <5>2. CASE child.text \notin DOMAIN cache_nodes
          BY <1>2, <2>2, <2>3, <4>1, <5>2
        <5> QED BY <5>1, <5>2
      <4>2. CASE i \in NodesRead
        <5>1. /\ children'[i] = children[i]
              /\ NodeAddress(children[i]) \in DOMAIN nodes
              /\ children[i].text \in DOMAIN cache_nodes
          BY <1>4, <3>2, <4>2
        <5>2. /\ nodes'[NodeAddress(children[i])] = nodes[NodeAddress(children[i])]
              /\ cache_nodes'[children[i].text] = cache_nodes[children[i].text]
          BY <2>2, <2>3, <5>1
        <5>3. ASSUME NEW j \in NodesRead, j < i, children[j].text = children[i].text
              PROVE  \E k \in NodesRead' : k < i /\ children'[k].text = children'[i].text
          BY <1>4, <3>1, <5>1, <5>3
        <5> QED BY <3>2, <4>2, <5>1, <5>2, <5>3
      <4> QED BY <3>1, <4>1, <4>2
    <3> QED BY <3>3, <3>4, <3>5 DEF NodesAsRead, NodeAddress
  <2> QED BY <2>5, <2>6, <2>7, <2>8 DEF IInv
<1> QED BY <1>5, <1>6, <1>7

LEMMA EndInvariant ==
  ASSUME IInv, NoSection \/ EndInterface \/ EndNodes
  PROVE  IInv'
<1>1. UNCHANGED <<sections, servers, children, tables>> /\ pc # "refused"
      /\ pc' \in {"refused", "nodes", "loaded"}
  BY DEF NoSection, Refuse, EndInterface, EndNodes
<1>2. TypeOK' /\ KeysMatch'
  BY <1>1 DEF IInv, TypeOK, KeysMatch, tables
<1>3. ServersAsRead' /\ NodesAsRead'
  BY <1>1 DEF IInv, ServersAsRead, NodesAsRead, ServersOf, NodesRead, NodeAddress, tables
<1> QED BY <1>2, <1>3 DEF IInv

\* The inductive invariant holds while any file is read (CreateFromFile).
THEOREM Invariant == Spec => []IInv
<1>1. IInv /\ [Next]_vars => IInv'
  <2>1. CASE UNCHANGED vars
    BY <2>1
       DEF vars, tables, IInv, TypeOK, KeysMatch, ServersAsRead, NodesAsRead, ServersOf, NodesRead,
           NodeAddress
  <2> QED BY <2>1, ServerInvariant, NodeInvariant, EndInvariant DEF Next
<1> QED BY InitInvariant, <1>1, PTL DEF Spec

\* All has its type, and cache_nodes_ points to nodes of nodes_ only.
THEOREM TypeCorrect == Spec => []TypeOK
<1>1. IInv => TypeOK
  BY DEF IInv
<1> QED BY Invariant, <1>1, PTL

\* The node found under a network address has this address and its own key: what
\* the resolve server takes for granted (GetNodeInfoByNetAddress).
THEOREM TablesAgreeCorrect == Spec => []TablesAgree
<1>1. ASSUME IInv PROVE TablesAgree
  <2>1. ASSUME NEW a \in NetAddrs, GetNodeInfoByNetAddress(a) # Null
        PROVE  /\ nodes[GetNodeInfoByNetAddress(a)].net_addr = a
               /\ Create(nodes[GetNodeInfoByNetAddress(a)].readable_addr).node
                    = GetNodeInfoByNetAddress(a)
    <3>1. /\ ToText[a] \in DOMAIN cache_nodes
          /\ GetNodeInfoByNetAddress(a) = cache_nodes[ToText[a]]
      BY <2>1 DEF GetNodeInfoByNetAddress
    <3> QED BY <1>1, <3>1, TextAssumption DEF IInv, TypeOK, KeysMatch
  <2> QED BY <2>1 DEF TablesAgree
<1> QED BY Invariant, <1>1, PTL

\* A file that is accepted is loaded as it is written, its first node at each
\* network address in front (CreateFromFile).
THEOREM LoadedCorrect == Spec => []LoadedAsWritten
<1>1. IInv => LoadedAsWritten
  BY DEF IInv, ServersAsRead, NodesAsRead, LoadedAsWritten
<1> QED BY Invariant, <1>1, PTL

\* "node/client" is looked up at "node/", for any names and any hash
\* (Address::Create, GetNodeInfoByNodeAddress).
THEOREM ClientsFoundCorrect == Spec => []ClientsFoundAtNode
<1>1. ASSUME IInv PROVE ClientsFoundAtNode
  <2>1. SUFFICES ASSUME pc = "loaded", NEW i \in NodesRead, NEW c \in Names,
                        IsNode(children[i].addr), Slashes(c) = {}, c # <<>>
                 PROVE  GetNodeInfoByNodeAddress(Create(children[i].addr \o c).node) =
                          [readable_addr |-> children[i].addr, net_addr |-> ToNet[children[i].text]]
    BY DEF ClientsFoundAtNode
  <2> DEFINE n == NodeAddress(children[i])
  <2>2. /\ n \in DOMAIN nodes
        /\ nodes[n] = [readable_addr |-> children[i].addr, net_addr |-> ToNet[children[i].text]]
    BY <1>1, <2>1 DEF IInv, NodesAsRead
  <2>3. children[i].addr \in Names
    BY <1>1, <2>2 DEF IInv, TypeOK
  <2>4. Create(children[i].addr \o c).node = n
    BY <2>1, <2>3, ClientOfNode, HashAssumption, TextAssumption DEF NodeAddress, CreateDirectly
  <2> QED BY <2>2, <2>4 DEF GetNodeInfoByNodeAddress
<1> QED BY Invariant, <1>1, PTL

-----------------------------------------------------------------------------
(* Which files are refused.                                                 *)

\* What is known of a file that has not been refused so far.
WellFormedSoFar ==
  pc # "refused" =>
    /\ pc # "interface" => "interface" \in sections /\ service_address # Null
    /\ pc = "loaded" => "nodes" \in sections
    /\ ServersOf(Missing) = {}
    /\ service_address = Null <=> ServersOf("tcp") = {}
    /\ monitor_address = Null <=> ServersOf("http") = {}
    /\ \A i, j \in ServersOf("tcp") : i = j
    /\ \A i, j \in ServersOf("http") : i = j
    /\ \A i \in NodesRead : Missing \notin {children[i].addr, children[i].text}
    /\ \A i, j \in NodesRead : i # j => NodeAddress(children[i]) # NodeAddress(children[j])

RefusedIllFormed == pc = "refused" => ~WellFormed

FileInv == WellFormedSoFar /\ RefusedIllFormed

\* The servers read are so many that they can be counted.
LEMMA CountServers ==
  ASSUME TypeOK, NEW type
  PROVE  LET S == ServersOf(type) IN
         /\ S = {} \/ (\A i, j \in S : i = j) <=> Cardinality(S) <= 1
         /\ S # {} /\ (\A i, j \in S : i = j) <=> Cardinality(S) = 1
<1> DEFINE S == ServersOf(type)
<1>1. IsFiniteSet(S)
  <2>1. Len(servers) \in Nat
    BY LenProperties DEF TypeOK
  <2>2. IsFiniteSet(1 .. Len(servers)) /\ S \subseteq 1 .. Len(servers)
    BY <2>1, FS_Interval DEF ServersOf
  <2> QED BY <2>2, FS_Subset
<1> HIDE DEF S
<1>2. /\ Cardinality(S) \in Nat
      /\ Cardinality(S) = 0 <=> S = {}
      /\ Cardinality(S) = 1 <=> \E x : S = {x}
  BY <1>1, FS_CardinalityType, FS_EmptySet, FS_Singleton
<1>3. Cardinality(S) <= 1 <=> Cardinality(S) = 0 \/ Cardinality(S) = 1
  BY <1>2
<1>4. (\E x : S = {x}) <=> S # {} /\ \A i, j \in S : i = j
  <2>1. ASSUME S # {}, \A i, j \in S : i = j PROVE \E x : S = {x}
    <3>1. PICK x : x \in S
      BY <2>1
    <3>2. S = {x}
      BY <2>1, <3>1
    <3> QED BY <3>2
  <2> QED BY <2>1
<1> QED BY <1>2, <1>3, <1>4 DEF S

LEMMA InitFile == Init => FileInv
BY EmptySeq DEF Init, FileInv, WellFormedSoFar, RefusedIllFormed, ServersOf, NodesRead

\* What makes a file ill-formed.
Faults ==
  /\ sections # {"interface", "nodes"} => ~WellFormed
  /\ ServersOf(Missing) # {} => ~WellFormed
  /\ ServersOf("tcp") = {} => ~WellFormed
  /\ \A type \in {"tcp", "http"} : \A i, j \in ServersOf(type) : i # j => ~WellFormed
  /\ \A i \in ServersOf("tcp") \cup ServersOf("http") : servers[i].text = Missing => ~WellFormed
  /\ \A i \in NodesRead : Missing \in {children[i].addr, children[i].text} => ~WellFormed
  /\ \A i, j \in NodesRead :
       i # j /\ NodeAddress(children[i]) = NodeAddress(children[j]) => ~WellFormed

LEMMA IllFormed == TypeOK => Faults
<1> SUFFICES ASSUME TypeOK PROVE Faults
  OBVIOUS
<1>1. /\ ServersOf("tcp") = {} => Cardinality(ServersOf("tcp")) # 1
      /\ \A i, j \in ServersOf("tcp") : i # j => Cardinality(ServersOf("tcp")) # 1
  BY CountServers
<1>2. \A i, j \in ServersOf("http") : i # j => ~(Cardinality(ServersOf("http")) <= 1)
  BY CountServers
<1> QED BY <1>1, <1>2 DEF Faults, WellFormed

LEMMA IllFormedNext ==
  TypeOK' =>
    /\ sections' # {"interface", "nodes"} => ~WellFormed'
    /\ ServersOf(Missing)' # {} => ~WellFormed'
    /\ ServersOf("tcp")' = {} => ~WellFormed'
    /\ \A type \in {"tcp", "http"} : \A i, j \in ServersOf(type)' : i # j => ~WellFormed'
    /\ \A i \in ServersOf("tcp")' \cup ServersOf("http")' :
         servers'[i].text = Missing => ~WellFormed'
    /\ \A i \in NodesRead' : Missing \in {children'[i].addr, children'[i].text} => ~WellFormed'
    /\ \A i, j \in NodesRead' :
         i # j /\ NodeAddress(children'[i]) = NodeAddress(children'[j]) => ~WellFormed'
<1>1. TypeOK' => Faults'
  BY IllFormed, PTL
<1> QED BY <1>1 DEF Faults, NodeAddress

\* The servers read after one more.
LEMMA OneMoreServer ==
  ASSUME IInv, NEW child \in Servers, ReadServer(child)
  PROVE  LET last == Len(servers) + 1 IN
         /\ children' = children /\ last \notin 1 .. Len(servers)
         /\ servers'[last] = child /\ \A i \in 1 .. Len(servers) : servers'[i] = servers[i]
         /\ \A type : ServersOf(type)' = IF child.tag = "server" /\ child.type = type
                                           THEN ServersOf(type) \cup {last} ELSE ServersOf(type)
<1>1. /\ Len(servers) \in Nat /\ Len(servers') = Len(servers) + 1
      /\ \A i \in 1 .. Len(servers) : servers'[i] = servers[i]
      /\ servers'[Len(servers) + 1] = child
      /\ children' = children
  BY ReadServerFacts DEF ReadServer
<1>2. /\ 1 .. Len(servers') = 1 .. Len(servers) \cup {Len(servers) + 1}
      /\ Len(servers) + 1 \notin 1 .. Len(servers)
  BY <1>1
<1> QED BY <1>1, <1>2 DEF ServersOf

LEMMA ServerFile ==
  ASSUME IInv, TypeOK', FileInv, NEW child \in Servers,
         SkipServer(child) \/ RefuseServer(child) \/ AddServer(child)
  PROVE  FileInv'
<1> DEFINE last == Len(servers) + 1
<1>1. /\ children' = children /\ last \notin 1 .. Len(servers)
      /\ servers'[last] = child /\ \A i \in 1 .. Len(servers) : servers'[i] = servers[i]
      /\ \A type : ServersOf(type)' = IF child.tag = "server" /\ child.type = type
                                        THEN ServersOf(type) \cup {last} ELSE ServersOf(type)
      /\ pc = "interface"
  BY OneMoreServer DEF SkipServer, RefuseServer, AddServer, ReadServer
<1>2. NodesRead' = NodesRead
  BY <1>1 DEF NodesRead
<1>3. Missing \notin {"tcp", "http", "unknown"}
  BY TextAssumption
<1>4. CASE SkipServer(child)
  <2>1. UNCHANGED <<pc, sections, children, service_address, monitor_address>>
        /\ (child.tag # "server" \/ child.type = "unknown")
    BY <1>1, <1>4 DEF SkipServer, GoOn, tables
  <2>2. \A type \in {"tcp", "http", Missing} : ServersOf(type)' = ServersOf(type)
    BY <1>1, <1>3, <2>1
  <2> QED BY <1>1, <1>2, <2>1, <2>2
       DEF FileInv, WellFormedSoFar, RefusedIllFormed, NodeAddress
<1>5. CASE RefuseServer(child)
  <2>1. pc' = "refused" /\ child.tag = "server"
    BY <1>5 DEF RefuseServer, Refuse
  <2>2. last \in ServersOf(child.type)'
    BY <1>1, <2>1
  <2>3. CASE child.type = Missing
    <3>1. ServersOf(Missing)' # {}
      BY <2>2, <2>3
    <3> QED BY <2>1, <3>1, IllFormedNext DEF FileInv, WellFormedSoFar, RefusedIllFormed
  <2>4. CASE Occupied(child)
    <3>1. /\ child.type \in {"tcp", "http"} /\ ServersOf(child.type) # {}
      BY <1>1, <2>4 DEF Occupied, FileInv, WellFormedSoFar
    <3>2. PICK i : i \in ServersOf(child.type)
      BY <3>1
    <3>3. i \in ServersOf(child.type)' /\ i # last
      <4>1. ServersOf(child.type)' = ServersOf(child.type) \cup {last}
        BY <1>1, <2>1
      <4>2. i \in 1 .. Len(servers)
        BY <3>2 DEF ServersOf
      <4> QED BY <1>1, <3>2, <4>1, <4>2
    <3> QED BY <2>1, <2>2, <3>1, <3>3, IllFormedNext DEF FileInv, WellFormedSoFar, RefusedIllFormed
  <2>5. CASE child.type \in {"tcp", "http"} /\ child.text = Missing
    <3>1. servers'[last].text = Missing
      BY <1>1, <2>5
    <3> QED BY <2>1, <2>2, <2>5, <3>1, IllFormedNext DEF FileInv, WellFormedSoFar, RefusedIllFormed
  <2> QED BY <1>5, <2>3, <2>4, <2>5 DEF RefuseServer
<1>6. CASE AddServer(child)
  <2>1. /\ pc' = pc /\ sections' = sections /\ child.tag = "server" /\ child.type \in {"tcp", "http"}
        /\ ~Occupied(child) /\ child.text # Missing
        /\ IF child.type = "tcp"
             THEN service_address' = ToNet[child.text] /\ UNCHANGED monitor_address
             ELSE monitor_address' = ToNet[child.text] /\ UNCHANGED service_address
    BY <1>6 DEF AddServer, GoOn
  <2>2. ToNet[child.text] # Null
    BY <2>1, TextAssumption DEF Servers
  <2>3. ServersOf(child.type) = {} /\ ServersOf(child.type)' = {last}
    BY <1>1, <2>1 DEF Occupied, FileInv, WellFormedSoFar
  <2>4. \A type : type # child.type => ServersOf(type)' = ServersOf(type)
    BY <1>1
  <2>5. CASE child.type = "tcp"
    BY <1>1, <1>2, <1>3, <2>1, <2>2, <2>3, <2>4, <2>5
       DEF FileInv, WellFormedSoFar, RefusedIllFormed, NodeAddress
  <2>6. CASE child.type = "http"
    BY <1>1, <1>2, <1>3, <2>1, <2>2, <2>3, <2>4, <2>6
       DEF FileInv, WellFormedSoFar, RefusedIllFormed, NodeAddress
  <2> QED BY <2>1, <2>5, <2>6
<1> QED BY <1>4, <1>5, <1>6

LEMMA NodeFile ==
  ASSUME IInv, IInv', FileInv, NEW child \in Children,
         SkipNode(child) \/ RefuseNode(child) \/ AddNode(child)
  PROVE  FileInv'
<1> DEFINE last == Len(children) + 1
           more == IF child.tag = "node" THEN {last} ELSE {}
<1>1. /\ servers' = servers /\ sections' = sections /\ pc = "nodes"
      /\ UNCHANGED <<service_address, monitor_address>>
      /\ last \notin NodesRead /\ children'[last] = child
      /\ \A i \in NodesRead : children'[i] = children[i]
      /\ NodesRead' = NodesRead \cup more
  <2>1. /\ children' = Append(children, child) /\ servers' = servers /\ pc = "nodes"
        /\ children \in Seq(Children)
    BY DEF SkipNode, RefuseNode, AddNode, ReadNode, IInv, TypeOK
  <2>2. /\ Len(children) \in Nat /\ Len(children') = last
        /\ \A i \in 1 .. Len(children) : children'[i] = children[i]
        /\ children'[last] = child
    BY <2>1, Appended
  <2>3. UNCHANGED <<sections, service_address, monitor_address>>
    BY DEF SkipNode, RefuseNode, AddNode, GoOn, Refuse, tables
  <2>4. 1 .. Len(children') = 1 .. Len(children) \cup {last} /\ last \notin 1 .. Len(children)
    BY <2>2
  <2> QED BY <2>1, <2>2, <2>3, <2>4 DEF NodesRead
<1>2. \A type : ServersOf(type)' = ServersOf(type)
  BY <1>1 DEF ServersOf
<1> HIDE DEF last
<1>3. CASE SkipNode(child)
  <2>1. pc' = pc /\ more = {}
    BY <1>3 DEF SkipNode, GoOn
  <2> QED BY <1>1, <1>2, <2>1 DEF FileInv, WellFormedSoFar, RefusedIllFormed, NodeAddress
<1>4. CASE RefuseNode(child)
  <2>1. pc' = "refused" /\ last \in NodesRead'
    BY <1>1, <1>4 DEF RefuseNode, Refuse
  <2>2. CASE Missing \in {child.addr, child.text}
    <3>1. Missing \in {children'[last].addr, children'[last].text}
      BY <1>1, <2>2
    <3> QED BY <2>1, <3>1, IllFormedNext DEF IInv, FileInv, WellFormedSoFar, RefusedIllFormed
  <2>3. CASE Known(NodeAddress(child))
    <3>1. PICK i \in NodesRead : NodeAddress(children[i]) = NodeAddress(child)
      BY <1>1, <2>3 DEF Known, IInv, NodesAsRead
    <3>2. i \in NodesRead' /\ i # last /\ NodeAddress(children'[i]) = NodeAddress(children'[last])
      BY <1>1, <3>1
    <3> QED BY <2>1, <3>2, IllFormedNext DEF IInv, FileInv, WellFormedSoFar, RefusedIllFormed
  <2> QED BY <1>4, <2>2, <2>3 DEF RefuseNode
<1>5. CASE AddNode(child)
  <2>1. /\ pc' = pc /\ more = {last} /\ Missing \notin {child.addr, child.text}
        /\ NodeAddress(child) \notin DOMAIN nodes
    BY <1>5 DEF AddNode, GoOn, Known
  <2>2. \A i \in NodesRead : NodeAddress(children[i]) # NodeAddress(child)
    BY <1>1, <2>1 DEF IInv, NodesAsRead
  <2>3. WellFormedSoFar
    BY DEF FileInv
  <2>4. \A i \in NodesRead' : Missing \notin {children'[i].addr, children'[i].text}
    BY <1>1, <2>1, <2>3 DEF WellFormedSoFar
  <2>5. \A i, j \in NodesRead' : i # j => NodeAddress(children'[i]) # NodeAddress(children'[j])
    <3> SUFFICES ASSUME NEW i \in NodesRead', NEW j \in NodesRead', i # j
                 PROVE  NodeAddress(children'[i]) # NodeAddress(children'[j])
      OBVIOUS
    <3>1. CASE i = last
      BY <1>1, <2>1, <2>2, <3>1
    <3>2. CASE j = last
      BY <1>1, <2>1, <2>2, <3>2
    <3>3. CASE i # last /\ j # last
      BY <1>1, <2>1, <2>3, <3>3 DEF WellFormedSoFar
    <3> QED BY <3>1, <3>2, <3>3
  <2>6. WellFormedSoFar'
    BY <1>1, <1>2, <2>1, <2>3, <2>4, <2>5 DEF WellFormedSoFar, NodeAddress
  <2> QED BY <1>1, <2>1, <2>6 DEF FileInv, RefusedIllFormed
<1> QED BY <1>3, <1>4, <1>5

LEMMA EndFile ==
  ASSUME IInv, IInv', FileInv, NoSection \/ EndInterface \/ EndNodes
  PROVE  FileInv'
<1>1. UNCHANGED <<sections, servers, children, service_address, monitor_address>>
      /\ pc \in {"interface", "nodes"}
  BY DEF NoSection, Refuse, EndInterface, EndNodes, tables
<1>2. (\A type : ServersOf(type)' = ServersOf(type)) /\ NodesRead' = NodesRead
  BY <1>1 DEF ServersOf, NodesRead
<1>3. CASE NoSection
  BY <1>1, <1>3, IllFormedNext DEF NoSection, Refuse, IInv, FileInv, WellFormedSoFar, RefusedIllFormed
<1>4. CASE EndInterface
  <2>1. CASE NoService
    <3>1. pc' = "refused" /\ ServersOf("tcp")' = {}
      BY <1>1, <1>2, <1>4, <2>1 DEF EndInterface, NoService, FileInv, WellFormedSoFar
    <3> QED BY <3>1, IllFormedNext DEF IInv, FileInv, WellFormedSoFar, RefusedIllFormed
  <2>2. CASE ~NoService
    BY <1>1, <1>2, <1>4, <2>2
       DEF EndInterface, NoService, FileInv, WellFormedSoFar, RefusedIllFormed, NodeAddress
  <2> QED BY <2>1, <2>2
<1>5. CASE EndNodes
  BY <1>1, <1>2, <1>5 DEF EndNodes, FileInv, WellFormedSoFar, RefusedIllFormed, NodeAddress
<1> QED BY <1>3, <1>4, <1>5

\* A file is refused exactly if it is not well-formed: no section, attribute or
\* service address is missing, no server or node is there twice (CreateFromFile).
THEOREM AcceptsCorrect == Spec => []AcceptsWellFormed
<1>1. IInv /\ IInv' /\ FileInv /\ [Next]_vars => FileInv'
  <2> SUFFICES ASSUME IInv, IInv', FileInv, [Next]_vars PROVE FileInv'
    OBVIOUS
  <2>1. CASE UNCHANGED vars
    BY <2>1 DEF vars, tables, FileInv, WellFormedSoFar, RefusedIllFormed, WellFormed, ServersOf,
                NodesRead, NodeAddress
  <2>2. CASE Next
    <3>1. ASSUME NEW child \in Servers, SkipServer(child) \/ RefuseServer(child) \/ AddServer(child)
          PROVE  FileInv'
      BY <3>1, ServerFile DEF IInv
    <3>2. ASSUME NEW child \in Children, SkipNode(child) \/ RefuseNode(child) \/ AddNode(child)
          PROVE  FileInv'
      BY <3>2, NodeFile
    <3> QED BY <2>2, <3>1, <3>2, EndFile DEF Next
  <2> QED BY <2>1, <2>2
<1>2. IInv /\ FileInv => AcceptsWellFormed
  <2> SUFFICES ASSUME IInv, FileInv, pc = "loaded" PROVE WellFormed
    BY DEF AcceptsWellFormed, FileInv, RefusedIllFormed
  <2>1. /\ sections = {"interface", "nodes"}
        /\ ServersOf(Missing) = {} /\ ServersOf("tcp") # {}
        /\ \A i, j \in ServersOf("tcp") : i = j
        /\ \A i, j \in ServersOf("http") : i = j
    BY DEF FileInv, WellFormedSoFar, IInv, TypeOK
  <2>2. Cardinality(ServersOf("tcp")) = 1 /\ Cardinality(ServersOf("http")) <= 1
    BY <2>1, CountServers DEF IInv
  <2>3. \A i \in ServersOf("tcp") \cup ServersOf("http") : servers[i].text # Missing
    BY TextAssumption DEF IInv, ServersAsRead
  <2> QED BY <2>1, <2>2, <2>3 DEF WellFormed, FileInv, WellFormedSoFar
<1> QED BY InitFile, Invariant, <1>1, <1>2, PTL DEF Spec
=============================================================================

------------------------------- MODULE Network -------------------------------
(***************************************************************************)
(* Several cpmds and their clients: a message from the bus of its sender,   *)
(* through the cpmd of its node and that of the node it is for, to the bus  *)
(* of its receiver.  Between the cpmds it goes the way CpmServer shows to   *)
(* be that of Outbox; here it is what becomes of the addresses that counts. *)
(* A node address stands for the node itself.  Clients are registered under *)
(* the hash of their name; names have different hashes, but clients of two  *)
(* nodes may have the same name.                                           *)
(***************************************************************************)
EXTENDS Naturals, Sequences, MessageCacheQueue

CONSTANTS
  Nodes,                \* node addresses, each that of a cpmd
  LocalNode,            \* Address::kLocalNodeAddress
  Clients,              \* the clients
  At,                   \* the node of each
  Name,                 \* the name of each, as the number it hashes to
  NoClient,             \* null pointer
  BusSize,              \* messages a bus can hold
  kMaxCachedMessageNum  \* messages kept for a node

ASSUME NetworkAssumption ==
  /\ LocalNode \notin Nodes
  /\ NoClient \notin Clients
  /\ At \in [Clients -> Nodes]
  /\ Name \in [Clients -> Nat \ {0}]
  /\ \A c, d \in Clients : At[c] = At[d] /\ Name[c] = Name[d] => c = d
  /\ BusSize \in Nat \ {0}
  /\ kMaxCachedMessageNum \in Nat \ {0}

VARIABLES
  self_address,  \* Server::self_address_, by node
  clients,       \* Server::clients_, by node and name
  input,         \* the buses that cpmd reads
  output,        \* the buses that cpmd writes
  pending,       \* messages a cpmd keeps for another
  link           \* messages on their way from one cpmd to another

netVars == <<self_address, clients, input, output, pending, link>>

Names == {Name[c] : c \in Clients}
Address(node, client) == [node |-> node, client |-> client]
Default == Address(LocalNode, 0)

\* A message with its true sender, which only the properties look at.
Message(c, to, data) == [by |-> c, from |-> Default, to |-> to, data |-> data]

NetInit ==
  /\ self_address = [s \in Nodes |-> LocalNode]
  /\ clients = [s \in Nodes |-> [n \in Names |-> NoClient]]
  /\ input = [c \in Clients |-> <<>>]
  /\ output = [c \in Clients |-> <<>>]
  /\ pending = [s \in Nodes |-> [d \in Nodes |-> <<>>]]
  /\ link = [s \in Nodes |-> [d \in Nodes |-> <<>>]]

-----------------------------------------------------------------------------
(* What a client calls.                                                     *)

Create(c) ==
  /\ clients' = [clients EXCEPT ![At[c]][Name[c]] = c]
  /\ UNCHANGED <<self_address, input, output, pending, link>>

Fits(bus, c) == Len(bus[c]) < BusSize

SendMessage(c, to, data) ==
  /\ Fits(input, c)
  /\ input' = [input EXCEPT ![c] = Append(@, Message(c, to, data))]
  /\ UNCHANGED <<self_address, clients, output, pending, link>>

ReceiveMessage(c) ==
  /\ output[c] # <<>>
  /\ output' = [output EXCEPT ![c] = Tail(@)]
  /\ UNCHANGED <<self_address, clients, input, pending, link>>

-----------------------------------------------------------------------------
(* What a cpmd does.                                                        *)

UpdateSelfAddress(s) ==
  /\ self_address[s] = LocalNode
  /\ self_address' = [self_address EXCEPT ![s] = s]
  /\ UNCHANGED <<clients, input, output, pending, link>>

\* HandleBusMessage takes the next message of client c: it overwrites the
\* source address, by what this cpmd knows of its own.
Unstamped(c, m) == m                                                   \* mutant
Stamp(c, m) == [m EXCEPT !.from = Address(self_address[At[c]], Name[c])]

Take(c) ==
  /\ clients[At[c]][Name[c]] = c
  /\ input[c] # <<>>
  /\ input' = [input EXCEPT ![c] = Tail(@)]
Taken(c) == Stamp(c, Head(input[c]))

\* To the client at node s the message is for, if there is one and its bus is
\* not full.
ForwardAnywhere(s, m) ==                                               \* mutant
  output' = [c \in Clients |-> IF Name[c] = m.to.client /\ Fits(output, c)
                                 THEN Append(output[c], m) ELSE output[c]]
Forward(s, m) ==
  LET c == IF m.to.client \in Names THEN clients[s][m.to.client] ELSE NoClient
  IN output' = IF c # NoClient /\ Fits(output, c)
               THEN [output EXCEPT ![c] = Append(@, m)] ELSE output

IsLocal(s, m) == m.to.node \in {self_address[s], LocalNode}

HandleToLocalMessage(c) ==
  /\ Take(c)
  /\ IsLocal(At[c], Taken(c))
  /\ Forward(At[c], Taken(c))
  /\ UNCHANGED <<self_address, clients, pending, link>>

\* It is written, or kept while the node is looked up or connected to.
\* What was kept longest may be given up for it.
HandleToRemoteMessage(c) ==
  LET s == At[c]
      d == Taken(c).to.node
  IN /\ Take(c)
     /\ ~IsLocal(s, Taken(c))
     /\ \/ /\ pending[s][d] = <<>>
           /\ link' = [link EXCEPT ![s][d] = Append(@, Taken(c))]
           /\ UNCHANGED pending
        \/ /\ pending' = [pending EXCEPT ![s][d] = Push(@, Taken(c), kMaxCachedMessageNum)]
           /\ UNCHANGED link
     /\ UNCHANGED <<self_address, clients, output>>

\* The message that makes cpmd connect again is lost.
ConnectOnDemand(c) ==
  /\ Take(c)
  /\ ~IsLocal(At[c], Taken(c))
  /\ UNCHANGED <<self_address, clients, output, pending, link>>

FlushMessage(s, d) ==
  /\ pending[s][d] # <<>>
  /\ link' = [link EXCEPT ![s][d] = @ \o pending[s][d]]
  /\ pending' = [pending EXCEPT ![s][d] = <<>>]
  /\ UNCHANGED <<self_address, clients, input, output>>

HandleRemoteMessage(s, d) ==
  /\ link[s][d] # <<>>
  /\ Head(link[s][d]).to.node = self_address[d]
  /\ Forward(d, Head(link[s][d]))
  /\ link' = [link EXCEPT ![s][d] = Tail(@)]
  /\ UNCHANGED <<self_address, clients, input, pending>>

\* Not for this node: it closes the connection, but goes on with what it had
\* received of it.
RefuseRemoteMessage(s, d) ==
  /\ link[s][d] # <<>>
  /\ Head(link[s][d]).to.node # self_address[d]
  /\ \E k \in 1 .. Len(link[s][d]) :
       link' = [link EXCEPT ![s][d] = SubSeq(@, 2, k)]
  /\ UNCHANGED <<self_address, clients, input, output, pending>>

\* A connection ends, and with it what was not read.
LinkBreaks(s, d) ==
  /\ link[s][d] # <<>>
  /\ link' = [link EXCEPT ![s][d] = <<>>]
  /\ UNCHANGED <<self_address, clients, input, output, pending>>

NetNext ==
  \/ \E c \in Clients :
       HandleToLocalMessage(c) \/ HandleToRemoteMessage(c) \/ ConnectOnDemand(c)
  \/ \E s \in Nodes : UpdateSelfAddress(s)
  \/ \E s, d \in Nodes :
       \/ FlushMessage(s, d)
       \/ HandleRemoteMessage(s, d) \/ RefuseRemoteMessage(s, d)
       \/ LinkBreaks(s, d)
=============================================================================

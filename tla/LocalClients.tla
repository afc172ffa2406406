---------------------------- MODULE LocalClients ----------------------------
(***************************************************************************)
(* The local side of a cpmd: the clients on its host, which register over  *)
(* UDP (HandleInitCommand, ClientImpl::Init) and exchange messages with it *)
(* over two buses each, rings in shared memory of which each has one       *)
(* writer and one reader.  The buses outlive the processes on both sides.  *)
(*                                                                         *)
(* The clients are processes of their own and run between any two steps of *)
(* cpmd, also inside HandleBusMessage.  All other callbacks of cpmd wait   *)
(* for the end of that loop.                                               *)
(***************************************************************************)
EXTENDS Naturals, Sequences, FiniteSets, SequencesExt

CONSTANTS
  Clients,      \* the clients, by name
  Hash,         \* Address::Hash of their names; two may have the same
  LocalNode,    \* Address::kLocalNodeAddress, no node
  Node,         \* the address of this cpmd, as the resolve server tells it
  Contents,     \* what messages may be: [to, big]
  NoClient,     \* null pointer, and a path that leads nowhere
  NoMessage,    \* null pointer
  BusSize,      \* messages a bus can hold
  BufferKept,   \* the reply buffer may still hold an earlier reply
  MaxTries,     \* bound: calls of Client::Create per client
  MaxSends,     \* bound: messages per client
  MaxRemote,    \* bound: messages from other cpmds
  MaxCrashes    \* bound: crashes of cpmd

Hashes == {Hash[c] : c \in Clients}

ASSUME ClientsAssumption ==
  /\ Hash \in [Clients -> Nat \ {0}]
  /\ LocalNode # Node
  /\ NoClient \notin Clients
  /\ BusSize \in Nat /\ BufferKept \in BOOLEAN
  /\ MaxTries \in [Clients -> Nat] /\ MaxSends \in [Clients -> Nat]
  /\ MaxRemote \in Nat /\ MaxCrashes \in Nat
  /\ \A x \in Contents : x.big \in BOOLEAN

VARIABLES
  \* shared memory
  input,        \* [Clients -> Seq (Messages)], what cpmd reads
  output,       \* [Clients -> Seq (Messages)], what cpmd writes
  \* cpmd
  clients,      \* clients_ : by hash, whose buses are served
  self_address, \* self_address_
  at,           \* HandleBusMessage: key of the client it reads, 0: outside
  m,            \* HandleBusMessage: the message read last, until routed
  out,          \* paths in the reply buffer: of the last client answered
  \* clients
  bus,          \* [Clients -> whose buses the client has mapped]
  waiting,      \* [Clients -> BOOLEAN], ClientImpl::Init waits for a reply
  received,     \* [Clients -> Seq (Messages)]
  \* between them
  requests,     \* handshake requests on their way
  replies,      \* handshake replies on their way
  \* history and bounds
  tries,        \* [Clients -> Nat], calls of Client::Create
  sends,        \* [Clients -> Nat], messages sent
  arrivals,     \* messages that came from other cpmds
  dropped,      \* messages given up, all with a line in the log
  remote,       \* Seq (Messages), handed to HandleToRemoteMessage
  lost,         \* messages cpmd held when it crashed
  crashes

busVars == <<input, output>>
serverVars == <<clients, self_address, at, m, out>>
clientVars == <<bus, waiting, received>>
historyVars == <<arrivals, dropped, remote, lost, crashes>>

vars == <<busVars, serverVars, clientVars, requests, replies, tries, sends,
          historyVars>>

(* A message: its sender and number, whom it is for, whether Size () is at *)
(* least kMaxDataSize, and the source address cpmd writes into it.         *)
Message(sender, n, content) ==
  [sender |-> sender, n |-> n, to |-> content.to, big |-> content.big,
   source |-> [node |-> LocalNode, client |-> 0]]

Init ==
  /\ input = [c \in Clients |-> <<>>]
  /\ output = [c \in Clients |-> <<>>]
  /\ clients = [h \in Hashes |-> NoClient]
  /\ self_address = LocalNode
  /\ at = 0 /\ m = NoMessage /\ out = NoClient
  /\ bus = [c \in Clients |-> NoClient]
  /\ waiting = [c \in Clients |-> FALSE]
  /\ received = [c \in Clients |-> <<>>]
  /\ requests = {} /\ replies = {}
  /\ tries = [c \in Clients |-> 0]
  /\ sends = [c \in Clients |-> 0]
  /\ arrivals = 0
  /\ dropped = {} /\ remote = <<>> /\ lost = {} /\ crashes = 0

-----------------------------------------------------------------------------
(* Registration. *)

(* ClientImpl::Init: a new socket each time, so that the reply to an       *)
(* earlier request, which cpmd may still find in its own, comes too late.  *)
Create(c) ==
  /\ bus[c] = NoClient /\ ~waiting[c]
  /\ tries[c] < MaxTries[c]
  /\ tries' = [tries EXCEPT ![c] = @ + 1]
  /\ waiting' = [waiting EXCEPT ![c] = TRUE]
  /\ requests' = requests \cup {[from |-> c, try |-> tries'[c]]}
  /\ UNCHANGED <<busVars, serverVars, bus, received, replies, sends,
                 historyVars>>

(* The client is told that its buses are there: emplace keeps the client   *)
(* that has this hash already.                                             *)
Register(c) ==
  IF clients[Hash[c]] = NoClient THEN [clients EXCEPT ![Hash[c]] = c]
  ELSE clients

Reply(r, paths) ==
  /\ requests' = requests \ {r}
  /\ replies' = IF waiting[r.from] /\ tries[r.from] = r.try
                 THEN replies \cup {[to |-> r.from, paths |-> paths]}
                 ELSE replies

(* A bus goes by the name of its client: GetBusPath puts the name into the  *)
(* path.  It cuts paths at kMaxPathSize; that they are shorter is assumed,  *)
(* or two buses could be one file.                                         *)
HandleInitCommand(r) ==
  /\ at = 0
  /\ clients' = Register(r.from)
  /\ out' = r.from
  /\ Reply(r, r.from)
  /\ UNCHANGED <<busVars, self_address, at, m, clientVars, tries, sends,
                 historyVars>>

(* RestoreOrCreate returns no bus.  Nothing but the code of the reply is   *)
(* written then; its paths are whatever the buffer holds: garbage, or the  *)
(* paths written for an earlier reply.                                     *)
FailedPaths == {NoClient} \cup (IF BufferKept THEN {out} ELSE {})

HandleInitCommandFails(r) ==
  /\ at = 0
  /\ \E paths \in FailedPaths : Reply(r, paths)
  /\ UNCHANGED <<busVars, serverVars, clientVars, tries, sends, historyVars>>

(* The client does not look at the code; RestoreFrom finds no bus under a  *)
(* path that leads nowhere (kCreateBusFailed).                             *)
MapBuses(c) ==
  /\ waiting[c]
  /\ waiting' = [waiting EXCEPT ![c] = FALSE]
  /\ \E r \in replies :
       /\ r.to = c
       /\ bus' = [bus EXCEPT ![c] = r.paths]
       /\ replies' = replies \ {r}
  /\ UNCHANGED <<busVars, serverVars, received, requests, tries, sends,
                 historyVars>>

(* kSocketTimeout, or kSocketError: cpmd is not there, or it is too late,  *)
(* or a datagram was lost.                                                 *)
CreateFails(c) ==
  /\ waiting[c]
  /\ waiting' = [waiting EXCEPT ![c] = FALSE]
  /\ replies' = {r \in replies : r.to # c}
  /\ UNCHANGED <<busVars, serverVars, bus, received, requests, tries, sends,
                 historyVars>>

(* Client::Destroy, or the end of the client's process. *)
Destroy(c) ==
  /\ bus[c] # NoClient
  /\ bus' = [bus EXCEPT ![c] = NoClient]
  /\ UNCHANGED <<busVars, serverVars, waiting, received, requests, replies,
                 tries, sends, historyVars>>

-----------------------------------------------------------------------------
(* The client's side of the buses. *)

Put(b, c, msg) == [b EXCEPT ![c] = Append(@, msg)]

Fits(b, c) == Len(b[c]) < BusSize

(* kBusFull changes nothing. *)
SendMessage(c, content) ==
  /\ bus[c] # NoClient
  /\ sends[c] < MaxSends[c]
  /\ Fits(input, bus[c])
  /\ sends' = [sends EXCEPT ![c] = @ + 1]
  /\ input' = Put(input, bus[c], Message(c, sends'[c], content))
  /\ UNCHANGED <<output, serverVars, clientVars, requests, replies, tries,
                 historyVars>>

ReceiveMessage(c) ==
  /\ bus[c] # NoClient /\ output[bus[c]] # <<>>
  /\ received' = Put(received, c, Head(output[bus[c]]))
  /\ output' = [output EXCEPT ![bus[c]] = Tail(@)]
  /\ UNCHANGED <<input, serverVars, bus, waiting, requests, replies, tries,
                 sends, historyVars>>

-----------------------------------------------------------------------------
(* HandleBusMessage. *)

KeyOfNull(h) == h \in Hashes

Key(h) == clients[h] # NoClient

Later(h) == {k \in Hashes : Key(k) /\ k > h}

First(S) == {k \in S : \A l \in S : k <= l}

OnlyTheFirst(h) == IF h # 0 \/ Later(h) = {} THEN {0} ELSE First(Later(h))

(* The loop goes by hash; 0 is its end. *)
NextKey(h) == IF Later(h) = {} THEN {0} ELSE First(Later(h))

HandleBusMessage ==
  /\ at = 0
  /\ at' \in NextKey(0)
  /\ at' # 0
  /\ UNCHANGED <<busVars, clients, self_address, m, out, clientVars, requests,
                 replies, tries, sends, historyVars>>

Reading == at # 0 /\ m = NoMessage

Queue == input[clients[at]]

Take == [input EXCEPT ![clients[at]] = Tail(@)]

(* The bus is empty: go on with the next client. *)
ReadNothing ==
  /\ Reading /\ Queue = <<>>
  /\ at' \in NextKey(at)
  /\ UNCHANGED <<busVars, clients, self_address, m, out, clientVars, requests,
                 replies, tries, sends, historyVars>>

(* "Drop invalid message": ReadMessage returns false, as if the bus were   *)
(* empty.                                                                  *)
ReadInvalid ==
  /\ Reading /\ Queue # <<>> /\ Head(Queue).big
  /\ input' = Take
  /\ dropped' = dropped \cup {Head(Queue)}
  /\ at' \in NextKey(at)
  /\ UNCHANGED <<output, clients, self_address, m, out, clientVars, requests,
                 replies, tries, sends, arrivals, remote, lost, crashes>>

ReadMessage ==
  /\ Reading /\ Queue # <<>> /\ ~Head(Queue).big
  /\ input' = Take
  /\ m' = [Head(Queue) EXCEPT !.source = [node |-> self_address,
                                          client |-> at]]
  /\ UNCHANGED <<output, clients, self_address, at, out, clientVars, requests,
                 replies, tries, sends, historyVars>>

(* Where it goes: the client with this hash, unless none has or its bus is *)
(* full.                                                                   *)
Addressee(msg) ==
  IF msg.to.client \in Hashes THEN clients[msg.to.client] ELSE NoClient

ForwardOvertaking(msg) ==
  LET c == Addressee(msg) IN
  IF c # NoClient /\ Fits(output, c)
  THEN output' = [output EXCEPT ![c] = <<msg>> \o @] /\ dropped' = dropped
  ELSE dropped' = dropped \cup {msg} /\ output' = output

ForwardForgetting(msg) ==
  LET c == Addressee(msg) IN
  /\ output' = IF c # NoClient /\ Fits(output, c) THEN Put(output, c, msg) ELSE output
  /\ dropped' = IF c = NoClient THEN dropped \cup {msg} ELSE dropped

Forward(msg) ==
  LET c == Addressee(msg) IN
  IF c # NoClient /\ Fits(output, c)
  THEN output' = Put(output, c, msg) /\ dropped' = dropped
  ELSE dropped' = dropped \cup {msg} /\ output' = output

OwnAddress(msg) == msg.to.node = self_address

IsLocal(msg) == msg.to.node = self_address \/ msg.to.node = LocalNode

HandleToLocalMessage ==
  /\ m # NoMessage /\ IsLocal(m)
  /\ Forward(m)
  /\ m' = NoMessage
  /\ UNCHANGED <<input, clients, self_address, at, out, clientVars, requests,
                 replies, tries, sends, arrivals, remote, lost, crashes>>

(* What becomes of it there is the matter of CpmServer. *)
HandleToRemoteMessage ==
  /\ m # NoMessage /\ ~IsLocal(m)
  /\ remote' = Append(remote, m)
  /\ m' = NoMessage
  /\ UNCHANGED <<busVars, clients, self_address, at, out, clientVars, requests,
                 replies, tries, sends, arrivals, dropped, lost, crashes>>

-----------------------------------------------------------------------------
(* Other callbacks of cpmd. *)

UpdateSelfAddress ==
  /\ at = 0 /\ self_address = LocalNode
  /\ self_address' = Node
  /\ UNCHANGED <<busVars, clients, at, m, out, clientVars, requests, replies,
                 tries, sends, historyVars>>

(* A message from another cpmd, NoClient for its sender.  If it is not for *)
(* this node it is refused, and its connection closed.  The cpmd that sent *)
(* it did not take it from its client if it was big.                       *)
HandleRemoteMessage(content) ==
  /\ at = 0 /\ ~content.big
  /\ arrivals < MaxRemote
  /\ arrivals' = arrivals + 1
  /\ LET msg == Message(NoClient, arrivals', content) IN
     IF content.to.node = self_address THEN Forward(msg)
     ELSE dropped' = dropped \cup {msg} /\ output' = output
  /\ UNCHANGED <<input, serverVars, clientVars, requests, replies, tries,
                 sends, remote, lost, crashes>>

(* cpmd ends and starts again.  What it knew of clients and of itself is   *)
(* gone, and so are the requests in its socket; the buses stay.            *)
Crash ==
  /\ crashes < MaxCrashes
  /\ crashes' = crashes + 1
  /\ lost' = lost \cup ({m} \ {NoMessage})
  /\ clients' = [h \in Hashes |-> NoClient]
  /\ self_address' = LocalNode
  /\ at' = 0 /\ m' = NoMessage /\ out' = NoClient
  /\ requests' = {}
  /\ UNCHANGED <<busVars, clientVars, replies, tries, sends, arrivals, dropped,
                 remote>>

BusLoop ==
  \/ HandleBusMessage
  \/ ReadNothing \/ ReadInvalid \/ ReadMessage
  \/ HandleToLocalMessage \/ HandleToRemoteMessage

Next ==
  \/ \E c \in Clients :
       \/ Create(c) \/ MapBuses(c) \/ CreateFails(c) \/ Destroy(c)
       \/ \E content \in Contents : SendMessage(c, content)
       \/ ReceiveMessage(c)
  \/ \E r \in requests : HandleInitCommand(r) \/ HandleInitCommandFails(r)
  \/ BusLoop
  \/ UpdateSelfAddress
  \/ \E content \in Contents : HandleRemoteMessage(content)
  \/ Crash

(* The event loop runs HandleBusMessage over and over.  Clients promise    *)
(* nothing.                                                                *)
Spec == Init /\ [][Next]_vars /\ WF_vars(BusLoop)

-----------------------------------------------------------------------------
Messages ==
  [sender : Clients \cup {NoClient}, n : Nat,
   to : {x.to : x \in Contents}, big : BOOLEAN,
   source : [node : {LocalNode, Node}, client : Hashes \cup {0}]]

(* Every variable keeps its type, no bus outgrows its size, a client is    *)
(* kept under its own hash, and cpmd reads only from clients it knows.     *)
TypeOK ==
  /\ input \in [Clients -> Seq(Messages)]
  /\ output \in [Clients -> Seq(Messages)]
  /\ \A c \in Clients : Len(input[c]) <= BusSize /\ Len(output[c]) <= BusSize
  /\ \A h \in Hashes :
       clients[h] \in {c \in Clients : Hash[c] = h} \cup {NoClient}
  /\ self_address \in {LocalNode, Node}
  /\ at \in {h \in Hashes : clients[h] # NoClient} \cup {0}
  /\ m \in Messages \cup {NoMessage}
  /\ out \in Clients \cup {NoClient}
  /\ bus \in [Clients -> Clients \cup {NoClient}]
  /\ waiting \in [Clients -> BOOLEAN]
  /\ received \in [Clients -> Seq(Messages)]
  /\ dropped \subseteq Messages /\ lost \subseteq Messages
  /\ remote \in Seq(Messages)

(* A message is a null pointer only before it is read. *)
ASSUME NoMessageAssumption == NoMessage \notin Messages

(* Where the n-th message of sender is: the places, and what it is there:  *)
(* a position in a sequence, or a message in a set.                        *)
Same(msg, sender, n) == msg.sender = sender /\ msg.n = n

In(place, s, sender, n) ==
  {<<place, i>> : i \in {j \in DOMAIN s : Same(s[j], sender, n)}}

Among(place, S, sender, n) ==
  {<<place, msg>> : msg \in {x \in S : Same(x, sender, n)}}

AtClient(c, sender, n) ==
  In(<<"input", c>>, input[c], sender, n)
    \cup In(<<"output", c>>, output[c], sender, n)
    \cup In(<<"received", c>>, received[c], sender, n)

AtServer(sender, n) ==
  In(<<"remote">>, remote, sender, n)
    \cup Among(<<"dropped">>, dropped, sender, n)
    \cup Among(<<"lost">>, lost, sender, n)
    \cup Among(<<"m">>, {m} \ {NoMessage}, sender, n)

Copies(sender, n) ==
  AtServer(sender, n) \cup UNION {AtClient(c, sender, n) : c \in Clients}

(* No message is doubled or disappears, whenever cpmd crashes and clients  *)
(* come and go: it is in one bus, in cpmd's hands, received, handed to the *)
(* remote side or given up with a line in the log; and a crash loses the   *)
(* one message cpmd is routing, never what is still in a bus.              *)
Conservation ==
  /\ \A c \in Clients : \A n \in 1 .. sends[c] : Cardinality(Copies(c, n)) = 1
  /\ \A n \in 1 .. arrivals : Cardinality(Copies(NoClient, n)) = 1
  /\ Cardinality(lost) <= crashes

(* A client receives only messages for its own address, be the node part   *)
(* of it 0 or what cpmd, when it read them, took for its own, and with the *)
(* address of their true sender as their source; and no message for this   *)
(* node is handed to the remote side.                                      *)
Addressed ==
  LET Here(msg) == msg.to.node \in {LocalNode, msg.source.node}
      Stamped(msg) == msg.source.client = Hash[msg.sender]
  IN  /\ \A c \in Clients : \A msg \in ToSet(output[c] \o received[c]) :
           /\ msg.to.client = Hash[c]
           /\ msg.sender # NoClient => Stamped(msg) /\ Here(msg)
      /\ \A msg \in ToSet(remote) : Stamped(msg) /\ ~Here(msg)

(* What one client sends to another arrives in the order it was sent, even *)
(* if cpmd restarts in between and finds the messages in the buses; and so *)
(* does what goes to the remote side.                                      *)
SentInOrder ==
  LET Ordered(s) == \A i, j \in DOMAIN s :
                      i < j /\ s[i].sender = s[j].sender => s[i].n < s[j].n
  IN  /\ Ordered(remote)
      /\ \A c \in Clients : Ordered(received[c] \o output[c])

(* A client that is up has its own buses and no other client's.            *)
OwnBus == \A c \in Clients : bus[c] \in {NoClient, c}

(* cpmd reads every message of every client it serves in the end, unless   *)
(* it stops serving it because it crashed: no client is left out by what   *)
(* others, or it itself, put into the buses.                               *)
ServedInTheEnd ==
  \A c \in Clients :
    clients[Hash[c]] = c ~> (clients[Hash[c]] # c \/ input[c] = <<>>)
=============================================================================

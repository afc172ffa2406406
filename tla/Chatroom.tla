------------------------------ MODULE Chatroom ------------------------------
(***************************************************************************)
(* The chatroom example over a network of cpmds: chat_server.cc, which      *)
(* passes on what its members say, and chat_client.cc.  The server keeps    *)
(* for each member the address under which its registration came.          *)
(***************************************************************************)
EXTENDS Network

CONSTANTS
  Room,       \* the client that runs chat_server
  MaxSaid,    \* bound: how often each other client sends something
  MaxOther    \* bound: how much of that may be what chat_client never sends

ASSUME RoomAssumption ==
  /\ Room \in Clients
  /\ MaxSaid \in [Clients \ {Room} -> Nat]
  /\ MaxOther \in [Clients \ {Room} -> Nat]
  /\ \A c \in Clients \ {Room} : MaxOther[c] <= MaxSaid[c]

Members == Clients \ {Room}

VARIABLES
  by_name,   \* the clients that were given the chatroom's name without its node
  members,   \* chat_server: addresses by name
  turn,      \* chat_server: the reply being sent, and the members left to send it
  program,   \* what each program does: "start", "register", "loop", "exit"
  said,      \* how often each client has sent something since it registered
  spoken,    \* the words chat_server took, in order
  heard      \* the words each client printed, in order

chatVars == <<by_name, members, turn, program, said, spoken, heard>>
vars == <<netVars, chatVars>>

\* argv[1] of chat_client.  A name without a node will do on the chatroom's own.
Neighbours == {c \in Members : At[c] = At[Room]}
RoomAddress(c) == Address(IF c \in by_name THEN LocalNode ELSE At[Room], Name[Room])

\* chat::Message: words are told apart by who said them and when.
Words(c, n) == [by |-> c, n |-> n]
Chat(type, name, to_name, words) ==
  [type |-> type, name |-> name, to_name |-> to_name, words |-> words]
Nothing == [by |-> NoClient, n |-> 0]

\* No message is being passed on.
Resting == [left |-> {}, reply |-> Chat("none", 0, 0, Nothing)]

Init ==
  /\ NetInit
  /\ by_name \in SUBSET Neighbours
  /\ members = [n \in {} |-> Default]
  /\ turn = Resting
  /\ program = [c \in Clients |-> "start"]
  /\ said = [c \in Members |-> 0]
  /\ spoken = <<>>
  /\ heard = [c \in Members |-> <<>>]

GoesOn(c, where) == program' = [program EXCEPT ![c] = where]

\* Client::Create, of both programs.
Start(c) ==
  /\ program[c] = "start"
  /\ Create(c)
  /\ GoesOn(c, IF c = Room THEN "loop" ELSE "register")
  /\ UNCHANGED <<by_name, members, turn, said, spoken, heard>>

-----------------------------------------------------------------------------
(* chat_client.cc.                                                          *)

Register(c) ==
  /\ program[c] = "register"
  /\ SendMessage(c, RoomAddress(c), Chat("kRegister", Name[c], 0, Nothing))
  /\ GoesOn(c, "loop")
  /\ UNCHANGED <<by_name, members, turn, said, spoken, heard>>

Say(c) ==
  /\ program[c] = "loop"
  /\ said[c] < MaxSaid[c]
  /\ said' = [said EXCEPT ![c] = @ + 1]
  /\ SendMessage(c, RoomAddress(c), Chat("kMessage", Name[c], 0, Words(c, said'[c])))
  /\ UNCHANGED <<by_name, members, turn, program, spoken, heard>>

\* kBusFull ends the program.
SayFails(c) ==
  /\ program[c] = "loop"
  /\ said[c] < MaxSaid[c]
  /\ ~Fits(input, c)
  /\ GoesOn(c, "exit")
  /\ UNCHANGED <<netVars, by_name, members, turn, said, spoken, heard>>

\* Only kMessage is printed.
Hear(c) ==
  /\ program[c] = "loop"
  /\ ReceiveMessage(c)
  /\ LET data == Head(output[c]).data
     IN heard' = IF data.type = "kMessage" THEN [heard EXCEPT ![c] = Append(@, data.words)]
                                           ELSE heard
  /\ UNCHANGED <<by_name, members, turn, program, said, spoken>>

\* Another program that speaks this protocol.
SayOther(c, data) ==
  /\ program[c] = "loop"
  /\ said[c] < MaxOther[c]
  /\ said' = [said EXCEPT ![c] = @ + 1]
  /\ SendMessage(c, RoomAddress(c), data)
  /\ UNCHANGED <<by_name, members, turn, program, spoken, heard>>
OtherData(c) ==
  {Chat("kHeartBeat", Name[c], 0, Nothing)}
    \cup {Chat("kPrivateMessage", Name[c], n, Nothing) : n \in Names}

-----------------------------------------------------------------------------
(* chat_server.cc.                                                          *)

Receives(type) ==
  /\ program[Room] = "loop"
  /\ turn = Resting
  /\ ReceiveMessage(Room)
  /\ Head(output[Room]).data.type = type
Received == Head(output[Room])

\* The first registration under a name stays.
HandleRegister ==
  /\ Receives("kRegister")
  /\ members' = [n \in DOMAIN members \cup {Received.data.name} |->
                   IF n \in DOMAIN members THEN members[n] ELSE Received.from]
  /\ UNCHANGED <<by_name, turn, program, said, spoken, heard>>

HandleHeartBeat ==
  /\ Receives("kHeartBeat")
  /\ UNCHANGED <<by_name, members, turn, program, said, spoken, heard>>

PassOn(left) ==
  turn' = IF left = {} THEN Resting
          ELSE [left |-> left, reply |-> [Received.data EXCEPT !.to_name = 0]]

\* BroadcastMessage passes over the members whose address is that of the
\* message.
Everybody(from) == DOMAIN members                                      \* mutant
Others(from) == {n \in DOMAIN members : members[n] # from}

HandleMessage ==
  /\ Receives("kMessage")
  /\ PassOn(Others(Received.from))
  /\ spoken' = Append(spoken, Received.data.words)
  /\ UNCHANGED <<by_name, members, program, said, heard>>

HandlePrivateMessage ==
  /\ Receives("kPrivateMessage")
  /\ PassOn(DOMAIN members \cap {Received.data.to_name})
  /\ UNCHANGED <<by_name, members, program, said, spoken, heard>>

\* The members are in the order of their names.  The reply to a private
\* message gets no remote address.
BroadcastAgain(n) == turn.left                                         \* mutant
StillLeft(n) == turn.left \ {n}

BroadcastMessage ==
  /\ program[Room] = "loop"
  /\ \E n \in turn.left :
       /\ \A k \in turn.left : n <= k
       /\ SendMessage(Room, IF turn.reply.type = "kMessage" THEN members[n] ELSE Default, turn.reply)
       /\ turn' = IF StillLeft(n) = {} THEN Resting ELSE [turn EXCEPT !.left = StillLeft(n)]
  /\ UNCHANGED <<by_name, members, program, said, spoken, heard>>

\* kBusFull ends the program, with members left that do not hear the words.
BroadcastFails ==
  /\ program[Room] = "loop"
  /\ turn # Resting
  /\ ~Fits(input, Room)
  /\ GoesOn(Room, "exit")
  /\ UNCHANGED <<netVars, by_name, members, turn, said, spoken, heard>>

Next ==
  \/ \E c \in Clients : Start(c)
  \/ \E c \in Members :
       \/ Register(c) \/ Say(c) \/ SayFails(c) \/ Hear(c)
       \/ \E data \in OtherData(c) : SayOther(c, data)
  \/ HandleRegister \/ HandleHeartBeat \/ HandleMessage \/ HandlePrivateMessage
  \/ BroadcastMessage \/ BroadcastFails
  \/ NetNext /\ UNCHANGED chatVars

Spec == Init /\ [][Next]_vars

-----------------------------------------------------------------------------
(* Properties.                                                               *)

Addresses == [node : Nodes \cup {LocalNode}, client : Names \cup {0}]
WordsSaid == [by : Members, n : Nat \ {0}]
Chats == [type : {"none", "kRegister", "kMessage", "kHeartBeat", "kPrivateMessage"},
          name : Names \cup {0}, to_name : Names \cup {0}, words : WordsSaid \cup {Nothing}]
Messages == [by : Clients, from : Addresses, to : Addresses, data : Chats]

TypeOK ==
  /\ by_name \subseteq Neighbours
  /\ self_address \in [Nodes -> Nodes \cup {LocalNode}]
  /\ clients \in [Nodes -> [Names -> Clients \cup {NoClient}]]
  /\ input \in [Clients -> Seq(Messages)]
  /\ output \in [Clients -> Seq(Messages)]
  /\ \A c \in Clients : Len(input[c]) <= BusSize /\ Len(output[c]) <= BusSize
  /\ pending \in [Nodes -> [Nodes -> Seq(Messages)]]
  /\ \A s, d \in Nodes : Len(pending[s][d]) <= kMaxCachedMessageNum
  /\ link \in [Nodes -> [Nodes -> Seq(Messages)]]
  /\ DOMAIN members \subseteq Names /\ \A n \in DOMAIN members : members[n] \in Addresses
  /\ turn.left \subseteq DOMAIN members /\ turn.reply \in Chats
  /\ program \in [Clients -> {"start", "register", "loop", "exit"}]
  /\ \A c \in Members : said[c] \in 0 .. MaxSaid[c]
  /\ spoken \in Seq(WordsSaid)
  /\ heard \in [Members -> Seq(WordsSaid)]

Elements(q) == {q[i] : i \in 1 .. Len(q)}

\* A message carries the address of its true sender, or node 0 and its
\* sender's name when the cpmd that took it did not know its address; and it
\* reaches only the client it is for, or, sent to node 0, the client of this
\* name at its sender's own node.
Addressed ==
  /\ \A s, d \in Nodes : \A m \in Elements(pending[s][d] \o link[s][d]) :
       m.from \in {Address(s, Name[m.by]), Address(LocalNode, Name[m.by])} /\ At[m.by] = s
  /\ \A c \in Clients : \A m \in Elements(output[c]) :
       /\ m.from \in {Address(At[m.by], Name[m.by]), Address(LocalNode, Name[m.by])}
       /\ m.to \in {Address(At[c], Name[c])}
                   \cup (IF At[m.by] = At[c] THEN {Address(LocalNode, Name[c])} ELSE {})

\* What a client hears was told to its name, and its name is registered for
\* it.  Only at the node of the chatroom may it be another client of this name
\* that registered.
HeardByMembers ==
  \A c \in Members : heard[c] # <<>> =>
    /\ Name[c] \in DOMAIN members
    /\ members[Name[c]] \in {Address(At[c], Name[c])}
         \cup (IF At[c] = At[Room] THEN {Address(LocalNode, Name[c])} ELSE {})

\* What a client hears was said in the chatroom; it hears it once, and in the
\* order in which it was said there.
HeardInOrder ==
  \A c \in Members : \E f \in [1 .. Len(heard[c]) -> 1 .. Len(spoken)] :
    /\ \A i \in 1 .. Len(heard[c]) : heard[c][i] = spoken[f[i]]
    /\ \A i, j \in 1 .. Len(heard[c]) : i < j => f[i] < f[j]

\* The words of a client at another node come to the chatroom once and in
\* their order.  (Those of one at its own node may overtake each other, when
\* cpmd learns its address between them.)
SpokenInOrder ==
  \A i, j \in 1 .. Len(spoken) :
    (i < j /\ spoken[i].by = spoken[j].by /\ At[spoken[i].by] # At[Room])
      => spoken[i].n < spoken[j].n

\* Nobody hears his own words, except at the node of the chatroom who
\* registered before its cpmd knew its address.
NoEcho ==
  \A c \in Members : \A i \in 1 .. Len(heard[c]) : heard[c][i].by = c =>
    At[c] = At[Room] /\ members[Name[c]] = Address(LocalNode, Name[c])
=============================================================================

------------------------- MODULE LocalClientsProofs -------------------------
(***************************************************************************)
(* Proofs about LocalClients, for any clients, names, contents, sizes of    *)
(* buses and numbers of crashes.                                           *)
(***************************************************************************)
EXTENDS LocalClients, SequenceTheorems, FiniteSetTheorems, TLAPS

-----------------------------------------------------------------------------
(* Types.                                                                   *)

Requests == [from : Clients, try : Nat]
Replies == [to : Clients, paths : Clients \cup {NoClient}]

TInv ==
  /\ TypeOK
  /\ clients \in [Hashes -> Clients \cup {NoClient}]
  /\ requests \subseteq Requests /\ replies \subseteq Replies
  /\ tries \in [Clients -> Nat] /\ sends \in [Clients -> Nat] /\ arrivals \in Nat

LEMMA HashFacts ==
  /\ \A c \in Clients : Hash[c] \in Hashes /\ Hash[c] \in Nat \ {0}
  /\ \A h \in Hashes : h \in Nat \ {0}
  /\ 0 \notin Hashes
BY ClientsAssumption DEF Hashes

LEMMA MessageFacts ==
  ASSUME NEW sender \in Clients \cup {NoClient}, NEW n \in Nat, NEW content \in Contents
  PROVE  /\ Message(sender, n, content) \in Messages
         /\ Message(sender, n, content).sender = sender /\ Message(sender, n, content).n = n
         /\ Message(sender, n, content).to = content.to
BY ClientsAssumption DEF Message, Messages

LEMMA InitTypes == Init => TInv
<1> SUFFICES ASSUME Init PROVE TInv
  OBVIOUS
<1>1. \A S : <<>> \in Seq(S) /\ Len(<<>>) = 0
  BY EmptySeq
<1>2. /\ input \in [Clients -> Seq(Messages)] /\ output \in [Clients -> Seq(Messages)]
      /\ \A c \in Clients : Len(input[c]) <= BusSize /\ Len(output[c]) <= BusSize
      /\ received \in [Clients -> Seq(Messages)] /\ remote \in Seq(Messages)
  BY <1>1, ClientsAssumption DEF Init
<1>3. /\ \A h \in Hashes : clients[h] = NoClient
      /\ clients \in [Hashes -> Clients \cup {NoClient}]
  BY DEF Init
<1>4. /\ at = 0 /\ m = NoMessage /\ out = NoClient /\ self_address = LocalNode
      /\ bus \in [Clients -> Clients \cup {NoClient}] /\ waiting \in [Clients -> BOOLEAN]
      /\ dropped = {} /\ lost = {}
  BY DEF Init
<1>5. TypeOK
  BY <1>2, <1>3, <1>4 DEF TypeOK
<1>6. /\ requests \subseteq Requests /\ replies \subseteq Replies
      /\ tries \in [Clients -> Nat] /\ sends \in [Clients -> Nat] /\ arrivals \in Nat
  BY DEF Init
<1> QED BY <1>3, <1>5, <1>6 DEF TInv

\* A message behind the others in a bus that is not full.
LEMMA PutType ==
  ASSUME NEW b \in [Clients -> Seq(Messages)], NEW c \in Clients, NEW msg \in Messages
  PROVE  /\ Put(b, c, msg) \in [Clients -> Seq(Messages)]
         /\ Put(b, c, msg)[c] = Append(b[c], msg)
         /\ Len(Put(b, c, msg)[c]) = Len(b[c]) + 1
         /\ \A k \in Clients : k # c => Put(b, c, msg)[k] = b[k]
<1> DEFINE q == Append(b[c], msg)
<1>1. q \in Seq(Messages) /\ Len(q) = Len(b[c]) + 1
  BY AppendProperties
<1>2. Put(b, c, msg) = [b EXCEPT ![c] = q]
  BY DEF Put
<1> QED BY <1>1, <1>2

LEMMA TakeType ==
  ASSUME NEW b \in [Clients -> Seq(Messages)], NEW c \in Clients, b[c] # <<>>
  PROVE  /\ [b EXCEPT ![c] = Tail(@)] \in [Clients -> Seq(Messages)]
         /\ [b EXCEPT ![c] = Tail(@)][c] = Tail(b[c])
         /\ \A k \in Clients : k # c => [b EXCEPT ![c] = Tail(@)][k] = b[k]
         /\ Len(Tail(b[c])) = Len(b[c]) - 1 /\ Len(b[c]) \in Nat
         /\ Head(b[c]) \in Messages /\ Tail(b[c]) \in Seq(Messages)
<1>1. /\ Tail(b[c]) \in Seq(Messages) /\ Head(b[c]) \in Messages
      /\ Len(Tail(b[c])) = Len(b[c]) - 1 /\ Len(b[c]) \in Nat
  BY HeadTailProperties, LenProperties
<1>2. [b EXCEPT ![c] = Tail(@)] \in [Clients -> Seq(Messages)]
  BY <1>1
<1> QED BY <1>1, <1>2

\* A bus within its size.
Within(b) == \A c \in Clients : Len(b[c]) <= BusSize

LEMMA PutWithin ==
  ASSUME NEW b \in [Clients -> Seq(Messages)], Within(b), NEW c \in Clients, Fits(b, c),
         NEW msg \in Messages
  PROVE  Within(Put(b, c, msg))
<1>1. Len(b[c]) \in Nat /\ BusSize \in Nat /\ Len(b[c]) < BusSize
  BY LenProperties, ClientsAssumption DEF Fits
<1>2. Len(Put(b, c, msg)[c]) <= BusSize
  BY <1>1, PutType
<1>3. \A k \in Clients : k # c => Put(b, c, msg)[k] = b[k]
  BY PutType
<1> QED BY <1>2, <1>3 DEF Within

LEMMA TakeWithin ==
  ASSUME NEW b \in [Clients -> Seq(Messages)], Within(b), NEW c \in Clients, b[c] # <<>>
  PROVE  Within([b EXCEPT ![c] = Tail(@)])
<1>1. Len(Tail(b[c])) <= BusSize
  BY TakeType, ClientsAssumption DEF Within
<1> QED BY <1>1, TakeType DEF Within

\* What a message for a client changes.
LEMMA ForwardType ==
  ASSUME TInv, NEW msg \in Messages, Forward(msg)
  PROVE  /\ output' \in [Clients -> Seq(Messages)] /\ Within(output') /\ dropped' \subseteq Messages
         /\ \/ output' = output
            \/ \E c \in Clients : output' = Put(output, c, msg) /\ Hash[c] = msg.to.client
<1> DEFINE c == Addressee(msg)
<1>1. /\ output \in [Clients -> Seq(Messages)] /\ Within(output) /\ dropped \subseteq Messages
  BY DEF TInv, TypeOK, Within
<1>2. CASE c # NoClient /\ Fits(output, c)
  <2>1. c \in Clients /\ Hash[c] = msg.to.client
    BY <1>2 DEF Addressee, TInv, TypeOK
  <2>2. output' = Put(output, c, msg) /\ dropped' = dropped
    BY <1>2 DEF Forward
  <2> HIDE DEF c
  <2> QED BY <1>1, <1>2, <2>1, <2>2, PutType, PutWithin
<1>3. CASE ~(c # NoClient /\ Fits(output, c))
  BY <1>1, <1>3 DEF Forward
<1> QED BY <1>2, <1>3

LEMMA NextKeyFacts ==
  ASSUME NEW h, NEW k \in NextKey(h)
  PROVE  k = 0 \/ (k \in Hashes /\ clients[k] # NoClient)
BY DEF NextKey, First, Later, Key

\* What cpmd reads from.
LEMMA ReadingFacts ==
  ASSUME TInv, Reading
  PROVE  /\ at \in Hashes /\ clients[at] \in Clients /\ Hash[clients[at]] = at
         /\ input \in [Clients -> Seq(Messages)] /\ Within(input)
BY DEF TInv, TypeOK, Reading, Within

-----------------------------------------------------------------------------
(* The steps keep the types.                                                *)

LEMMA CreateTypes ==
  ASSUME TInv, NEW c \in Clients, Create(c)
  PROVE  TInv'
<1>1. tries' \in [Clients -> Nat] /\ tries'[c] \in Nat
  BY DEF TInv, Create
<1>2. requests' \subseteq Requests
  BY <1>1 DEF TInv, Create, Requests
<1> QED BY <1>1, <1>2 DEF TInv, TypeOK, Create, busVars, serverVars, historyVars

LEMMA InitCommandTypes ==
  ASSUME TInv, NEW r \in requests, HandleInitCommand(r)
  PROVE  TInv'
<1>1. r \in Requests /\ r.from \in Clients
  BY DEF TInv, Requests
<1>2. requests' \subseteq Requests /\ replies' \subseteq Replies
  BY <1>1 DEF TInv, HandleInitCommand, Reply, Replies
<1>3. /\ clients' \in [Hashes -> Clients \cup {NoClient}]
      /\ \A h \in Hashes : clients'[h] \in {c \in Clients : Hash[c] = h} \cup {NoClient}
  BY <1>1, HashFacts DEF TInv, TypeOK, HandleInitCommand, Register
<1>4. /\ UNCHANGED <<input, output, self_address, at, m, bus, waiting, received, tries, sends,
                     arrivals, dropped, remote, lost>>
      /\ at = 0 /\ out' = r.from
  BY DEF HandleInitCommand, busVars, clientVars, historyVars
<1> QED BY <1>1, <1>2, <1>3, <1>4 DEF TInv, TypeOK

LEMMA InitCommandFailsTypes ==
  ASSUME TInv, NEW r \in requests, HandleInitCommandFails(r)
  PROVE  TInv'
<1>1. r.from \in Clients /\ out \in Clients \cup {NoClient}
  BY DEF TInv, TypeOK, Requests
<1>2. PICK paths \in FailedPaths : Reply(r, paths)
  BY DEF HandleInitCommandFails
<1>3. paths \in Clients \cup {NoClient}
  BY <1>1 DEF FailedPaths
<1>4. requests' \subseteq Requests /\ replies' \subseteq Replies
  BY <1>1, <1>2, <1>3 DEF TInv, Reply, Replies
<1> QED BY <1>4 DEF TInv, TypeOK, HandleInitCommandFails, busVars, serverVars, clientVars, historyVars

LEMMA MapBusesTypes ==
  ASSUME TInv, NEW c \in Clients, MapBuses(c)
  PROVE  TInv'
<1>1. PICK r \in replies : bus' = [bus EXCEPT ![c] = r.paths] /\ replies' = replies \ {r}
  BY DEF MapBuses
<1>2. r.paths \in Clients \cup {NoClient}
  BY DEF TInv, Replies
<1>3. bus' \in [Clients -> Clients \cup {NoClient}] /\ replies' \subseteq Replies
      /\ waiting' \in [Clients -> BOOLEAN]
  BY <1>1, <1>2 DEF TInv, TypeOK, MapBuses
<1> QED BY <1>3 DEF TInv, TypeOK, MapBuses, busVars, serverVars, historyVars

LEMMA CreateFailsTypes ==
  ASSUME TInv, NEW c \in Clients, CreateFails(c) \/ Destroy(c)
  PROVE  TInv'
<1>1. bus' \in [Clients -> Clients \cup {NoClient}] /\ replies' \subseteq Replies
      /\ waiting' \in [Clients -> BOOLEAN]
  BY DEF TInv, TypeOK, CreateFails, Destroy
<1>2. UNCHANGED <<input, output, clients, self_address, at, m, out, received, requests, tries, sends,
                  arrivals, dropped, remote, lost>>
  BY DEF CreateFails, Destroy, busVars, serverVars, historyVars
<1> QED BY <1>1, <1>2 DEF TInv, TypeOK

LEMMA SendTypes ==
  ASSUME TInv, NEW c \in Clients, NEW content \in Contents, SendMessage(c, content)
  PROVE  TInv'
<1>1. bus[c] \in Clients /\ input \in [Clients -> Seq(Messages)] /\ Within(input)
      /\ Fits(input, bus[c])
  BY DEF TInv, TypeOK, SendMessage, Within
<1>2. sends' \in [Clients -> Nat] /\ sends'[c] \in Nat
  BY DEF TInv, SendMessage
<1>3. Message(c, sends'[c], content) \in Messages
  BY <1>2, MessageFacts
<1>4. input' \in [Clients -> Seq(Messages)] /\ Within(input')
  BY <1>1, <1>3, PutType, PutWithin DEF SendMessage
<1> QED BY <1>2, <1>4 DEF TInv, TypeOK, Within, SendMessage, serverVars, clientVars, historyVars

LEMMA ReceiveTypes ==
  ASSUME TInv, NEW c \in Clients, ReceiveMessage(c)
  PROVE  TInv'
<1>1. bus[c] \in Clients /\ output \in [Clients -> Seq(Messages)] /\ Within(output)
      /\ received \in [Clients -> Seq(Messages)] /\ output[bus[c]] # <<>>
  BY DEF TInv, TypeOK, ReceiveMessage, Within
<1>2. output' \in [Clients -> Seq(Messages)] /\ Within(output')
  BY <1>1, TakeType, TakeWithin DEF ReceiveMessage
<1>3. received' \in [Clients -> Seq(Messages)]
  BY <1>1, TakeType, PutType DEF ReceiveMessage
<1> QED BY <1>2, <1>3 DEF TInv, TypeOK, Within, ReceiveMessage, serverVars, historyVars

LEMMA HandleBusTypes ==
  ASSUME TInv, HandleBusMessage \/ ReadNothing
  PROVE  TInv'
<1>1. at' \in {h \in Hashes : clients[h] # NoClient} \cup {0}
  BY NextKeyFacts DEF HandleBusMessage, ReadNothing
<1> QED BY <1>1 DEF TInv, TypeOK, HandleBusMessage, ReadNothing, busVars, clientVars, historyVars

LEMMA ReadInvalidTypes ==
  ASSUME TInv, ReadInvalid
  PROVE  TInv'
<1>1. /\ clients[at] \in Clients /\ input[clients[at]] # <<>>
      /\ input \in [Clients -> Seq(Messages)] /\ Within(input)
  BY ReadingFacts DEF ReadInvalid, Queue
<1>2. input' \in [Clients -> Seq(Messages)] /\ Within(input') /\ Head(Queue) \in Messages
  BY <1>1, TakeType, TakeWithin DEF ReadInvalid, Take, Queue
<1>3. at' \in {h \in Hashes : clients[h] # NoClient} \cup {0}
  BY NextKeyFacts DEF ReadInvalid
<1>4. dropped' \subseteq Messages
  BY <1>2 DEF TInv, TypeOK, ReadInvalid
<1> QED BY <1>2, <1>3, <1>4 DEF TInv, TypeOK, Within, ReadInvalid, clientVars

LEMMA ReadMessageTypes ==
  ASSUME TInv, ReadMessage
  PROVE  TInv'
<1>1. /\ clients[at] \in Clients /\ input[clients[at]] # <<>> /\ at \in Hashes
      /\ input \in [Clients -> Seq(Messages)] /\ Within(input)
  BY ReadingFacts DEF ReadMessage, Queue
<1>2. input' \in [Clients -> Seq(Messages)] /\ Within(input') /\ Head(Queue) \in Messages
  BY <1>1, TakeType, TakeWithin DEF ReadMessage, Take, Queue
<1>3. m' \in Messages
  <2>1. [node |-> self_address, client |-> at] \in [node : {LocalNode, Node}, client : Hashes \cup {0}]
    BY <1>1 DEF TInv, TypeOK
  <2> QED BY <1>2, <2>1 DEF ReadMessage, Messages
<1> QED BY <1>2, <1>3 DEF TInv, TypeOK, Within, ReadMessage, clientVars, historyVars

LEMMA LocalTypes ==
  ASSUME TInv, HandleToLocalMessage
  PROVE  TInv'
<1>1. m \in Messages
  BY DEF TInv, TypeOK, HandleToLocalMessage
<1>2. /\ output' \in [Clients -> Seq(Messages)] /\ Within(output') /\ dropped' \subseteq Messages
  BY <1>1, ForwardType DEF HandleToLocalMessage
<1> QED BY <1>2 DEF TInv, TypeOK, Within, HandleToLocalMessage, clientVars

LEMMA RemoteTypes ==
  ASSUME TInv, HandleToRemoteMessage
  PROVE  TInv'
<1>1. m \in Messages /\ remote \in Seq(Messages)
  BY DEF TInv, TypeOK, HandleToRemoteMessage
<1>2. remote' \in Seq(Messages)
  BY <1>1, AppendProperties DEF HandleToRemoteMessage
<1> QED BY <1>2 DEF TInv, TypeOK, HandleToRemoteMessage, busVars, clientVars

LEMMA SelfAddressTypes ==
  ASSUME TInv, UpdateSelfAddress
  PROVE  TInv'
BY DEF TInv, TypeOK, UpdateSelfAddress, busVars, clientVars, historyVars

LEMMA FromRemoteTypes ==
  ASSUME TInv, NEW content \in Contents, HandleRemoteMessage(content)
  PROVE  TInv'
<1> DEFINE msg == Message(NoClient, arrivals', content)
<1>1. arrivals' \in Nat
  BY DEF TInv, HandleRemoteMessage
<1>2. msg \in Messages
  BY <1>1, MessageFacts
<1>3. IF content.to.node = self_address THEN Forward(msg)
      ELSE dropped' = dropped \cup {msg} /\ output' = output
  BY DEF HandleRemoteMessage
<1> HIDE DEF msg
<1>4. output' \in [Clients -> Seq(Messages)] /\ Within(output') /\ dropped' \subseteq Messages
  BY <1>2, <1>3, ForwardType DEF TInv, TypeOK, Within
<1> QED BY <1>1, <1>4 DEF TInv, TypeOK, Within, HandleRemoteMessage, serverVars, clientVars

LEMMA CrashTypes ==
  ASSUME TInv, Crash
  PROVE  TInv'
<1>1. lost' \subseteq Messages
  BY DEF TInv, TypeOK, Crash
<1>2. /\ clients' \in [Hashes -> Clients \cup {NoClient}]
      /\ \A h \in Hashes : clients'[h] = NoClient
      /\ requests' = {}
  BY DEF Crash
<1>3. /\ self_address' = LocalNode /\ at' = 0 /\ m' = NoMessage /\ out' = NoClient
      /\ UNCHANGED <<input, output, bus, waiting, received, replies, tries, sends, arrivals, dropped,
                     remote>>
  BY DEF Crash, busVars, clientVars
<1> QED BY <1>1, <1>2, <1>3 DEF TInv, TypeOK

LEMMA TypeStep == TInv /\ [Next]_vars => TInv'
<1> SUFFICES ASSUME TInv, [Next]_vars PROVE TInv'
  OBVIOUS
<1>1. CASE UNCHANGED vars
  BY <1>1 DEF vars, busVars, serverVars, clientVars, historyVars, TInv, TypeOK
<1>2. ASSUME NEW c \in Clients,
             \/ Create(c) \/ MapBuses(c) \/ CreateFails(c) \/ Destroy(c)
             \/ \E content \in Contents : SendMessage(c, content)
             \/ ReceiveMessage(c)
      PROVE  TInv'
  BY <1>2, CreateTypes, MapBusesTypes, CreateFailsTypes, SendTypes, ReceiveTypes
<1>3. ASSUME NEW r \in requests, HandleInitCommand(r) \/ HandleInitCommandFails(r) PROVE TInv'
  BY <1>3, InitCommandTypes, InitCommandFailsTypes
<1>4. CASE BusLoop
  BY <1>4, HandleBusTypes, ReadInvalidTypes, ReadMessageTypes, LocalTypes, RemoteTypes DEF BusLoop
<1>5. CASE UpdateSelfAddress \/ Crash
  BY <1>5, SelfAddressTypes, CrashTypes
<1>6. ASSUME NEW content \in Contents, HandleRemoteMessage(content) PROVE TInv'
  BY <1>6, FromRemoteTypes
<1> QED BY <1>1, <1>2, <1>3, <1>4, <1>5, <1>6 DEF Next

THEOREM Typed == Spec => []TInv
<1>1. Init => TInv
  BY InitTypes
<1>2. TInv /\ [Next]_vars => TInv'
  BY TypeStep
<1> QED BY <1>1, <1>2, PTL DEF Spec

\* Every variable keeps its type, no bus outgrows its size, and cpmd reads only
\* from clients it knows: over crashes, and whatever buses clients have mapped.
THEOREM TypeCorrect == Spec => []TypeOK
<1>1. TInv => TypeOK
  BY DEF TInv
<1> QED BY <1>1, Typed, PTL

-----------------------------------------------------------------------------
(* Where messages go, and in which order.  All of this holds as long as     *)
(* every client maps its own buses, hence if no reply can hold the paths of *)
(* an earlier one.                                                         *)

Owners ==
  /\ OwnBus
  /\ \A r \in replies : r.paths \in {NoClient, r.to}
  /\ \A c \in Clients : \A x \in ToSet(input[c]) : x.sender = c

InHands ==
  m # NoMessage =>
    /\ at # 0 /\ m.sender = clients[at]
    /\ m.source = [node |-> self_address, client |-> at]

\* What a client was sent, received or not.
Streams == [c \in Clients |-> received[c] \o output[c]]

Here(x) == x.to.node \in {LocalNode, x.source.node}
Stamped(x) == x.source.client = Hash[x.sender]

Routed ==
  /\ \A c \in Clients : \A x \in ToSet(Streams[c]) :
       /\ x.to.client = Hash[c]
       /\ x.sender # NoClient => Stamped(x) /\ Here(x)
  /\ \A x \in ToSet(remote) : Stamped(x) /\ ~Here(x)

Ordered(s) ==
  \A i, j \in DOMAIN s : i < j /\ s[i].sender = s[j].sender => s[i].n < s[j].n

Passed(x) == x \in ToSet(remote) \/ \E c \in Clients : x \in ToSet(Streams[c])

\* A message is numbered behind all that passed before it, and before all that
\* its sender's bus still holds.
Numbered ==
  /\ \A c \in Clients : \A x \in ToSet(input[c]) : x.n <= sends[c]
  /\ m # NoMessage =>
       /\ m.n <= sends[m.sender]
       /\ \A x \in ToSet(input[m.sender]) : m.n < x.n
       /\ \A x : Passed(x) /\ x.sender = m.sender => x.n < m.n
  /\ \A x : Passed(x) =>
       IF x.sender = NoClient THEN x.n <= arrivals
       ELSE x.n <= sends[x.sender] /\ \A y \in ToSet(input[x.sender]) : x.n < y.n

InOrder ==
  /\ Ordered(remote) /\ \A c \in Clients : Ordered(Streams[c])
  /\ \A c \in Clients : Ordered(input[c])
  /\ Numbered

MInv == Owners /\ InHands /\ Routed /\ InOrder

-----------------------------------------------------------------------------
(* Sequences of messages.                                                   *)

LEMMA AppendSet ==
  ASSUME NEW q \in Seq(Messages), NEW x \in Messages
  PROVE  ToSet(Append(q, x)) = ToSet(q) \cup {x}
<1>1. /\ Append(q, x) \in Seq(Messages) /\ Len(Append(q, x)) = Len(q) + 1 /\ Len(q) \in Nat
      /\ \A i \in 1 .. Len(q) : Append(q, x)[i] = q[i]
      /\ Append(q, x)[Len(q) + 1] = x
  BY AppendProperties, LenProperties
<1>2. DOMAIN Append(q, x) = 1 .. (Len(q) + 1) /\ DOMAIN q = 1 .. Len(q)
  BY <1>1, LenProperties
<1>3. \A i \in 1 .. (Len(q) + 1) : i \in 1 .. Len(q) \/ i = Len(q) + 1
  BY <1>1
<1>4. Len(q) + 1 \in 1 .. (Len(q) + 1) /\ \A i \in 1 .. Len(q) : i \in 1 .. (Len(q) + 1)
  BY <1>1
<1> QED BY <1>1, <1>2, <1>3, <1>4 DEF ToSet

LEMMA TailSet ==
  ASSUME NEW q \in Seq(Messages), q # <<>>
  PROVE  ToSet(Tail(q)) \subseteq ToSet(q) /\ Head(q) \in ToSet(q)
<1>1. /\ Tail(q) \in Seq(Messages) /\ Len(Tail(q)) = Len(q) - 1 /\ Len(q) \in Nat \ {0}
      /\ \A i \in 1 .. Len(Tail(q)) : Tail(q)[i] = q[i + 1]
  BY HeadTailProperties, EmptySeq
<1>2. DOMAIN Tail(q) = 1 .. (Len(q) - 1) /\ DOMAIN q = 1 .. Len(q)
  BY <1>1, LenProperties
<1>3. \A i \in 1 .. (Len(q) - 1) : i + 1 \in 1 .. Len(q)
  BY <1>1
<1>4. Head(q) = q[1] /\ 1 \in 1 .. Len(q)
  BY <1>1
<1> QED BY <1>1, <1>2, <1>3, <1>4 DEF ToSet

LEMMA ConsHeadTail ==
  ASSUME NEW q \in Seq(Messages), q # <<>>
  PROVE  /\ <<Head(q)>> \in Seq(Messages) /\ Tail(q) \in Seq(Messages)
         /\ q = <<Head(q)>> \o Tail(q)
<1> DEFINE h == <<Head(q)>>
           t == Tail(q)
<1>1. /\ t \in Seq(Messages) /\ Len(t) = Len(q) - 1 /\ Len(q) \in Nat \ {0} /\ Head(q) \in Messages
      /\ \A i \in 1 .. Len(t) : t[i] = q[i + 1]
  BY HeadTailProperties, EmptySeq
<1>2. h \in Seq(Messages) /\ Len(h) = 1 /\ h[1] = q[1]
  BY <1>1
<1> HIDE DEF h, t
<1>3. /\ h \o t \in Seq(Messages) /\ Len(h \o t) = Len(q)
      /\ \A i \in 1 .. Len(q) : (h \o t)[i] = IF i <= 1 THEN h[i] ELSE t[i - 1]
  <2>1. /\ h \o t \in Seq(Messages) /\ Len(h \o t) = Len(h) + Len(t)
        /\ \A i \in 1 .. Len(h) + Len(t) : (h \o t)[i] = IF i <= Len(h) THEN h[i] ELSE t[i - Len(h)]
    BY <1>1, <1>2, ConcatProperties
  <2>2. Len(h) + Len(t) = Len(q)
    BY <1>1, <1>2
  <2> QED BY <1>2, <2>1, <2>2
<1>4. ASSUME NEW i \in 1 .. Len(q) PROVE q[i] = (h \o t)[i]
  <2>1. CASE i = 1
    BY <1>2, <1>3, <2>1
  <2>2. CASE i # 1
    <3>1. i - 1 \in 1 .. Len(t) /\ ~(i <= 1) /\ (i - 1) + 1 = i
      BY <1>1, <2>2
    <3>2. t[i - 1] = q[i]
      BY <1>1, <3>1
    <3> QED BY <1>3, <3>1, <3>2
  <2> QED BY <2>1, <2>2
<1>5. q = h \o t
  BY <1>1, <1>3, <1>4, SeqEqual
<1> QED BY <1>1, <1>2, <1>5 DEF h, t

LEMMA ConcatSet ==
  ASSUME NEW q \in Seq(Messages), NEW r \in Seq(Messages)
  PROVE  ToSet(q \o r) = ToSet(q) \cup ToSet(r)
<1>1. /\ q \o r \in Seq(Messages) /\ Len(q \o r) = Len(q) + Len(r)
      /\ Len(q) \in Nat /\ Len(r) \in Nat
      /\ \A i \in 1 .. (Len(q) + Len(r)) : (q \o r)[i] = IF i <= Len(q) THEN q[i] ELSE r[i - Len(q)]
  BY ConcatProperties, LenProperties
<1>2. DOMAIN (q \o r) = 1 .. (Len(q) + Len(r)) /\ DOMAIN q = 1 .. Len(q) /\ DOMAIN r = 1 .. Len(r)
  BY <1>1, LenProperties
<1>3. ASSUME NEW i \in 1 .. (Len(q) + Len(r)) PROVE (q \o r)[i] \in ToSet(q) \cup ToSet(r)
  <2>1. CASE i <= Len(q)
    <3>1. i \in DOMAIN q /\ (q \o r)[i] = q[i]
      BY <1>1, <1>2, <2>1
    <3> QED BY <3>1 DEF ToSet
  <2>2. CASE ~(i <= Len(q))
    <3>1. i - Len(q) \in DOMAIN r /\ (q \o r)[i] = r[i - Len(q)]
      BY <1>1, <1>2, <2>2
    <3> QED BY <3>1 DEF ToSet
  <2> QED BY <2>1, <2>2
<1>4. ASSUME NEW i \in 1 .. Len(q) PROVE q[i] \in ToSet(q \o r)
  <2>1. i \in DOMAIN (q \o r) /\ (q \o r)[i] = q[i]
    BY <1>1, <1>2
  <2> QED BY <2>1 DEF ToSet
<1>5. ASSUME NEW i \in 1 .. Len(r) PROVE r[i] \in ToSet(q \o r)
  <2>1. i + Len(q) \in 1 .. (Len(q) + Len(r)) /\ (i + Len(q)) - Len(q) = i /\ ~(i + Len(q) <= Len(q))
    BY <1>1
  <2>2. i + Len(q) \in DOMAIN (q \o r) /\ (q \o r)[i + Len(q)] = r[i]
    BY <1>1, <1>2, <2>1
  <2> QED BY <2>2 DEF ToSet
<1>6. ToSet(q \o r) \subseteq ToSet(q) \cup ToSet(r)
  BY <1>2, <1>3 DEF ToSet
<1>7. ToSet(q) \subseteq ToSet(q \o r) /\ ToSet(r) \subseteq ToSet(q \o r)
  BY <1>2, <1>4, <1>5 DEF ToSet
<1> QED BY <1>6, <1>7

LEMMA OrderedAppend ==
  ASSUME NEW q \in Seq(Messages), NEW x \in Messages, Ordered(q),
         \A y \in ToSet(q) : y.sender = x.sender => y.n < x.n
  PROVE  Ordered(Append(q, x))
<1>1. /\ Append(q, x) \in Seq(Messages) /\ Len(Append(q, x)) = Len(q) + 1 /\ Len(q) \in Nat
      /\ \A i \in 1 .. Len(q) : Append(q, x)[i] = q[i]
      /\ Append(q, x)[Len(q) + 1] = x
      /\ DOMAIN Append(q, x) = 1 .. (Len(q) + 1) /\ DOMAIN q = 1 .. Len(q)
  BY AppendProperties, LenProperties
<1> SUFFICES ASSUME NEW i \in 1 .. (Len(q) + 1), NEW j \in 1 .. (Len(q) + 1), i < j,
                    Append(q, x)[i].sender = Append(q, x)[j].sender
             PROVE  Append(q, x)[i].n < Append(q, x)[j].n
  BY <1>1 DEF Ordered
<1>2. i \in 1 .. Len(q)
  BY <1>1
<1>3. CASE j \in 1 .. Len(q)
  BY <1>1, <1>2, <1>3 DEF Ordered
<1>4. CASE j = Len(q) + 1
  <2>1. q[i] \in ToSet(q)
    BY <1>1, <1>2 DEF ToSet
  <2> QED BY <1>1, <1>2, <1>4, <2>1
<1> QED BY <1>1, <1>3, <1>4

\* The head of an ordered queue of one sender comes before all the rest.
LEMMA OrderedTail ==
  ASSUME NEW q \in Seq(Messages), q # <<>>, Ordered(q)
  PROVE  /\ Ordered(Tail(q))
         /\ \A y \in ToSet(Tail(q)) : y.sender = Head(q).sender => Head(q).n < y.n
<1>1. /\ Tail(q) \in Seq(Messages) /\ Len(Tail(q)) = Len(q) - 1 /\ Len(q) \in Nat \ {0}
      /\ \A i \in 1 .. (Len(q) - 1) : Tail(q)[i] = q[i + 1]
      /\ Head(q) = q[1]
  BY HeadTailProperties, EmptySeq
<1>2. DOMAIN Tail(q) = 1 .. (Len(q) - 1) /\ DOMAIN q = 1 .. Len(q)
  BY <1>1, LenProperties
<1>3. \A i \in 1 .. (Len(q) - 1) : i + 1 \in 1 .. Len(q) /\ 1 < i + 1 /\ 1 \in 1 .. Len(q)
  BY <1>1
<1>4. \A i, j \in 1 .. (Len(q) - 1) : i < j => i + 1 < j + 1
  BY <1>1
<1> QED BY <1>1, <1>2, <1>3, <1>4 DEF Ordered, ToSet

LEMMA StreamType ==
  ASSUME TInv
  PROVE  /\ \A c \in Clients : /\ Streams[c] = received[c] \o output[c] /\ Streams[c] \in Seq(Messages)
                               /\ received[c] \in Seq(Messages) /\ output[c] \in Seq(Messages)
         /\ remote \in Seq(Messages) /\ input \in [Clients -> Seq(Messages)]
         /\ output \in [Clients -> Seq(Messages)] /\ received \in [Clients -> Seq(Messages)]
BY ConcatProperties DEF TInv, TypeOK, Streams

\* A message for a client comes to the end of its stream.
LEMMA ForwardStreams ==
  ASSUME TInv, NEW msg \in Messages, Forward(msg), UNCHANGED received
  PROVE  \/ Streams' = Streams
         \/ \E c \in Clients : /\ Hash[c] = msg.to.client
                               /\ Streams' = [Streams EXCEPT ![c] = Append(@, msg)]
<1>1. CASE output' = output
  BY <1>1 DEF Streams
<1>2. ASSUME NEW c \in Clients, output' = Put(output, c, msg), Hash[c] = msg.to.client
      PROVE  Streams' = [Streams EXCEPT ![c] = Append(@, msg)]
  <2>1. received[c] \o Append(output[c], msg) = Append(received[c] \o output[c], msg)
    <3> DEFINE r == received[c]
               o == output[c]
    <3>1. r \in Seq(Messages) /\ o \in Seq(Messages)
      BY StreamType
    <3> HIDE DEF r, o
    <3>2. /\ Append(o, msg) = o \o <<msg>> /\ Append(r \o o, msg) = (r \o o) \o <<msg>>
          /\ <<msg>> \in Seq(Messages)
      BY <3>1, AppendIsConcat, ConcatProperties
    <3>3. (r \o o) \o <<msg>> = r \o (o \o <<msg>>)
      BY <3>1, <3>2, ConcatAssociative
    <3> QED BY <3>2, <3>3 DEF r, o
  <2>2. ASSUME NEW k \in Clients
        PROVE  received'[k] \o output'[k] = IF k = c THEN Append(Streams[c], msg) ELSE Streams[k]
    <3>0. output \in [Clients -> Seq(Messages)]
      BY StreamType
    <3>1. output'[k] = IF k = c THEN Append(output[c], msg) ELSE output[k]
      BY <1>2, <3>0 DEF Put
    <3>2. Streams[k] = received[k] \o output[k] /\ Streams[c] = received[c] \o output[c]
      BY StreamType
    <3>3. received'[k] = received[k]
      OBVIOUS
    <3>4. CASE k = c
      BY <2>1, <3>1, <3>2, <3>3, <3>4
    <3>5. CASE k # c
      BY <3>1, <3>2, <3>3, <3>5
    <3> QED BY <3>4, <3>5
  <2>3. Streams' = [k \in Clients |-> IF k = c THEN Append(Streams[c], msg) ELSE Streams[k]]
    BY <2>2 DEF Streams
  <2>4. Streams = [k \in Clients |-> Streams[k]]
    BY DEF Streams
  <2> QED BY <2>3, <2>4
<1> QED BY <1>1, <1>2, ForwardType

-----------------------------------------------------------------------------
(* The steps.  BufferKept is where a client gets another one's buses.       *)

LEMMA ElementTypes ==
  ASSUME TInv
  PROVE  /\ \A c \in Clients : \A x \in ToSet(input[c]) : x \in Messages /\ x.n \in Nat
         /\ \A x : Passed(x) => x \in Messages /\ x.n \in Nat /\ x.sender \in Clients \cup {NoClient}
         /\ \A c \in Clients : sends[c] \in Nat
         /\ arrivals \in Nat
<1>1. \A q \in Seq(Messages) : \A x \in ToSet(q) : x \in Messages
  BY LenProperties DEF ToSet
<1>2. \A x \in Messages : x.n \in Nat /\ x.sender \in Clients \cup {NoClient}
  BY DEF Messages
<1>3. \A c \in Clients : input[c] \in Seq(Messages) /\ Streams[c] \in Seq(Messages)
  BY StreamType
<1>4. remote \in Seq(Messages)
  BY StreamType
<1> QED BY <1>1, <1>2, <1>3, <1>4 DEF Passed, TInv

\* Nothing is in the hands of cpmd outside HandleBusMessage; inside it is of a
\* client.
LEMMA HandsFacts ==
  ASSUME TInv, InHands
  PROVE  /\ at = 0 => m = NoMessage
         /\ m # NoMessage => m \in Messages /\ m.n \in Nat /\ m.sender \in Clients /\ at \in Hashes
                             /\ clients[at] \in Clients /\ Hash[m.sender] = at
BY DEF TInv, TypeOK, InHands, Messages

\* Steps that move no message, or only within a stream.
LEMMA Quiet ==
  ASSUME MInv, UNCHANGED <<input, Streams, remote, sends, arrivals>>, Owners', InHands',
         m' = NoMessage \/ m' = m
  PROVE  MInv'
<1>1. Routed'
  BY DEF MInv, Routed
<1>2. Numbered'
  BY DEF MInv, InOrder, Numbered, Passed
<1>3. InOrder'
  BY <1>2 DEF MInv, InOrder
<1> QED BY <1>1, <1>3 DEF MInv

LEMMA CreateSteps ==
  ASSUME TInv, MInv, NEW c \in Clients, Create(c) \/ CreateFails(c) \/ Destroy(c)
  PROVE  MInv'
<1>1. UNCHANGED <<input, output, received, clients, self_address, at, m, remote, sends, arrivals>>
  BY DEF Create, CreateFails, Destroy, busVars, serverVars, historyVars
<1>2. replies' \subseteq replies /\ bus' \in [Clients -> Clients \cup {NoClient}]
  BY DEF TInv, TypeOK, Create, CreateFails, Destroy
<1>3. \A k \in Clients : bus'[k] \in {bus[k], NoClient}
  BY DEF TInv, TypeOK, Create, CreateFails, Destroy
<1>4. Owners'
  BY <1>1, <1>2, <1>3 DEF MInv, Owners, OwnBus
<1>5. InHands' /\ UNCHANGED Streams
  BY <1>1 DEF MInv, InHands, Streams
<1> QED BY <1>1, <1>4, <1>5, Quiet

LEMMA MapBusesStep ==
  ASSUME TInv, MInv, NEW c \in Clients, MapBuses(c)
  PROVE  MInv'
<1>1. UNCHANGED <<input, output, received, clients, self_address, at, m, remote, sends, arrivals>>
  BY DEF MapBuses, busVars, serverVars, historyVars
<1>2. PICK r \in replies : r.to = c /\ bus' = [bus EXCEPT ![c] = r.paths] /\ replies' = replies \ {r}
  BY DEF MapBuses
<1>3. r.paths \in {NoClient, c}
  BY <1>2 DEF MInv, Owners
<1>4. OwnBus'
  BY <1>2, <1>3 DEF MInv, Owners, OwnBus, TInv, TypeOK
<1>5. Owners'
  BY <1>1, <1>2, <1>4 DEF MInv, Owners
<1>6. InHands' /\ UNCHANGED Streams
  BY <1>1 DEF MInv, InHands, Streams
<1> QED BY <1>1, <1>5, <1>6, Quiet

LEMMA InitCommandSteps ==
  ASSUME ~BufferKept, TInv, MInv, NEW r \in requests,
         HandleInitCommand(r) \/ HandleInitCommandFails(r)
  PROVE  MInv'
<1>1. UNCHANGED <<input, output, received, bus, m, remote, sends, arrivals>> /\ at = 0
  BY DEF HandleInitCommand, HandleInitCommandFails, busVars, serverVars, clientVars, historyVars
<1>2. \E paths \in {NoClient, r.from} : Reply(r, paths)
  BY DEF HandleInitCommand, HandleInitCommandFails, FailedPaths
<1>3. \A x \in replies' : x \in replies \/ (x.to = r.from /\ x.paths \in {NoClient, r.from})
  BY <1>2 DEF Reply
<1>4. Owners'
  BY <1>1, <1>3 DEF MInv, Owners, OwnBus
<1>5. m = NoMessage
  BY <1>1, HandsFacts DEF MInv
<1>6. InHands' /\ UNCHANGED Streams
  BY <1>1, <1>5 DEF InHands, Streams
<1> QED BY <1>1, <1>4, <1>6, Quiet

LEMMA ReceiveStep ==
  ASSUME TInv, MInv, NEW c \in Clients, ReceiveMessage(c)
  PROVE  MInv'
<1> DEFINE r == received[c]
           o == output[c]
<1>1. bus[c] = c /\ o # <<>>
  BY DEF ReceiveMessage, MInv, Owners, OwnBus
<1>2. r \in Seq(Messages) /\ o \in Seq(Messages)
  BY StreamType
<1>3. /\ output' = [output EXCEPT ![c] = Tail(o)]
      /\ received' = [received EXCEPT ![c] = Append(r, Head(o))]
  BY <1>1 DEF ReceiveMessage, Put
<1>4. Append(r, Head(o)) \o Tail(o) = r \o o
  <2> HIDE DEF r, o
  <2>1. Head(o) \in Messages /\ Tail(o) \in Seq(Messages) /\ o = <<Head(o)>> \o Tail(o)
    BY <1>1, <1>2, HeadTailProperties, ConsHeadTail
  <2>2. <<Head(o)>> \in Seq(Messages) /\ Append(r, Head(o)) = r \o <<Head(o)>>
    BY <1>2, <2>1, AppendIsConcat
  <2> QED BY <1>2, <2>1, <2>2, ConcatAssociative
<1>5. ASSUME NEW k \in Clients PROVE received'[k] \o output'[k] = received[k] \o output[k]
  <2>1. output \in [Clients -> Seq(Messages)] /\ received \in [Clients -> Seq(Messages)]
    BY StreamType
  <2>2. CASE k = c
    BY <1>3, <1>4, <2>1, <2>2
  <2>3. CASE k # c
    BY <1>3, <2>1, <2>3
  <2> QED BY <2>2, <2>3
<1>6. UNCHANGED Streams
  BY <1>5 DEF Streams
<1>7. UNCHANGED <<input, replies, bus, clients, self_address, at, m, remote, sends, arrivals>>
  BY DEF ReceiveMessage, serverVars, historyVars
<1>8. Owners' /\ InHands'
  BY <1>7 DEF MInv, Owners, OwnBus, InHands
<1> QED BY <1>6, <1>7, <1>8, Quiet

\* Steps of the loop that take no message, and the other callbacks of cpmd that
\* see none.
LEMMA ServerSteps ==
  ASSUME TInv, MInv, HandleBusMessage \/ ReadNothing \/ UpdateSelfAddress \/ Crash
  PROVE  MInv'
<1>1. UNCHANGED <<input, output, received, replies, bus, remote, sends, arrivals>>
  BY DEF HandleBusMessage, ReadNothing, UpdateSelfAddress, Crash, busVars, serverVars, clientVars,
         historyVars
<1>2. m' = NoMessage
  <2>1. at = 0 => m = NoMessage
    BY HandsFacts DEF MInv
  <2> QED BY <2>1 DEF HandleBusMessage, ReadNothing, Reading, UpdateSelfAddress, Crash
<1>3. Owners' /\ InHands' /\ UNCHANGED Streams
  BY <1>1, <1>2 DEF MInv, Owners, OwnBus, InHands, Streams
<1> QED BY <1>1, <1>2, <1>3, Quiet

LEMMA SendStep ==
  ASSUME TInv, MInv, NEW c \in Clients, NEW content \in Contents, SendMessage(c, content)
  PROVE  MInv'
<1> DEFINE msg == Message(c, sends'[c], content)
<1>1. bus[c] = c /\ sends \in [Clients -> Nat] /\ input \in [Clients -> Seq(Messages)]
  BY StreamType DEF SendMessage, MInv, Owners, OwnBus, TInv
<1>2. sends' = [sends EXCEPT ![c] = @ + 1] /\ input' = Put(input, c, msg)
  BY <1>1 DEF SendMessage
<1>3. msg \in Messages /\ msg.sender = c /\ msg.n = sends[c] + 1
  BY <1>1, <1>2, MessageFacts
<1>4. UNCHANGED <<output, received, replies, bus, clients, self_address, at, m, remote, arrivals>>
  BY DEF SendMessage, serverVars, clientVars, historyVars
<1> HIDE DEF msg
<1>5. /\ input'[c] = Append(input[c], msg) /\ ToSet(input'[c]) = ToSet(input[c]) \cup {msg}
      /\ \A k \in Clients : k # c => input'[k] = input[k]
      /\ sends'[c] = sends[c] + 1 /\ \A k \in Clients : k # c => sends'[k] = sends[k]
  <2>1. input'[c] = Append(input[c], msg) /\ \A k \in Clients : k # c => input'[k] = input[k]
    BY <1>1, <1>2, <1>3, PutType
  <2>2. input[c] \in Seq(Messages)
    BY <1>1
  <2>3. ToSet(Append(input[c], msg)) = ToSet(input[c]) \cup {msg}
    BY <1>3, <2>2, AppendSet
  <2> QED BY <1>1, <1>2, <2>1, <2>3
<1>6. \A x \in ToSet(input[c]) : x.sender = c /\ x.n <= sends[c] /\ x.n \in Nat
  BY ElementTypes DEF MInv, Owners, InOrder, Numbered
<1>7. /\ \A x \in ToSet(input'[c]) : x = msg \/ x \in ToSet(input[c])
      /\ sends'[c] = sends[c] + 1 /\ sends[c] \in Nat /\ c # NoClient
  BY <1>1, <1>5, ClientsAssumption
<1>8. Owners' /\ InHands' /\ Routed' /\ UNCHANGED Streams
  <2>1. UNCHANGED Streams
    BY <1>4 DEF Streams
  <2>2. Owners'
    BY <1>3, <1>4, <1>5 DEF MInv, Owners, OwnBus
  <2>3. InHands'
    BY <1>4 DEF MInv, InHands
  <2>4. Routed'
    BY <1>4, <2>1 DEF MInv, Routed
  <2> QED BY <2>1, <2>2, <2>3, <2>4
<1>9. \A k \in Clients : Ordered(input'[k])
  <2>1. Ordered(Append(input[c], msg))
    <3>1. input[c] \in Seq(Messages) /\ Ordered(input[c])
      BY <1>1 DEF MInv, InOrder
    <3>2. \A y \in ToSet(input[c]) : y.sender = msg.sender => y.n < msg.n
      BY <1>1, <1>3, <1>6
    <3> QED BY <1>3, <3>1, <3>2, OrderedAppend
  <2> QED BY <1>5, <2>1 DEF MInv, InOrder
<1>10. Numbered'
  <2>1. \A k \in Clients : \A x \in ToSet(input'[k]) : x.n <= sends'[k]
    <3> SUFFICES ASSUME NEW k \in Clients, NEW x \in ToSet(input'[k]) PROVE x.n <= sends'[k]
      OBVIOUS
    <3>2. CASE k = c
      <4>1. x = msg \/ x \in ToSet(input[c])
        BY <1>7, <3>2
      <4>2. sends'[k] = sends[c] + 1
        BY <1>7, <3>2
      <4> QED BY <1>3, <1>6, <1>7, <4>1, <4>2
    <3>3. CASE k # c
      BY <1>5, <3>3 DEF MInv, InOrder, Numbered
    <3> QED BY <3>2, <3>3
  <2>2. \A x : Passed(x)' <=> Passed(x)
    BY <1>4, <1>8 DEF Passed
  <2>3. ASSUME m # NoMessage
        PROVE  /\ m.n <= sends'[m.sender]
               /\ \A x \in ToSet(input'[m.sender]) : m.n < x.n
               /\ \A x : Passed(x) /\ x.sender = m.sender => x.n < m.n
    <3>1. m.sender \in Clients /\ m.n \in Nat
      BY <2>3, HandsFacts DEF MInv
    <3>2. /\ m.n <= sends[m.sender] /\ \A x \in ToSet(input[m.sender]) : m.n < x.n
          /\ \A x : Passed(x) /\ x.sender = m.sender => x.n < m.n
      BY <2>3 DEF MInv, InOrder, Numbered
    <3>4. CASE m.sender = c
      <4>1. sends'[m.sender] = sends[c] + 1 /\ m.n <= sends[c]
        BY <1>7, <3>2, <3>4
      <4>2. ASSUME NEW x \in ToSet(input'[m.sender]) PROVE m.n < x.n
        <5>1. x = msg \/ x \in ToSet(input[c])
          BY <1>7, <3>4, <4>2
        <5>2. CASE x = msg
          BY <1>3, <1>7, <3>1, <4>1, <5>2
        <5>3. CASE x \in ToSet(input[c])
          BY <3>2, <3>4, <5>3
        <5> QED BY <5>1, <5>2, <5>3
      <4> QED BY <1>7, <3>1, <3>2, <4>1, <4>2
    <3>5. CASE m.sender # c
      BY <1>5, <3>1, <3>2, <3>5
    <3> QED BY <3>4, <3>5
  <2>4. ASSUME NEW x, Passed(x)
        PROVE  IF x.sender = NoClient THEN x.n <= arrivals
               ELSE x.n <= sends'[x.sender] /\ \A y \in ToSet(input'[x.sender]) : x.n < y.n
    <3>1. x.n \in Nat /\ x.sender \in Clients \cup {NoClient}
      BY <2>4, ElementTypes
    <3>2. IF x.sender = NoClient THEN x.n <= arrivals
          ELSE x.n <= sends[x.sender] /\ \A y \in ToSet(input[x.sender]) : x.n < y.n
      BY <2>4 DEF MInv, InOrder, Numbered
    <3>4. CASE x.sender = c
      <4>1. sends'[x.sender] = sends[c] + 1 /\ x.n <= sends[c]
        BY <1>7, <3>2, <3>4
      <4>2. ASSUME NEW y \in ToSet(input'[x.sender]) PROVE x.n < y.n
        <5>1. y = msg \/ y \in ToSet(input[c])
          BY <1>7, <3>4, <4>2
        <5>2. CASE y = msg
          BY <1>3, <1>7, <3>1, <4>1, <5>2
        <5>3. CASE y \in ToSet(input[c])
          BY <1>7, <3>2, <3>4, <5>3
        <5> QED BY <5>1, <5>2, <5>3
      <4> QED BY <1>7, <3>1, <3>4, <4>1, <4>2
    <3>5. CASE x.sender # c
      BY <1>5, <3>1, <3>2, <3>5
    <3> QED BY <3>4, <3>5
  <2> QED BY <1>4, <2>1, <2>2, <2>3, <2>4 DEF Numbered
<1>11. InOrder'
  BY <1>4, <1>8, <1>9, <1>10 DEF MInv, InOrder
<1> QED BY <1>8, <1>11 DEF MInv

\* The message that the loop takes from the bus of the client at its turn.
LEMMA TakeFacts ==
  ASSUME TInv, MInv, Reading, Queue # <<>>, input' = Take
  PROVE  /\ clients[at] \in Clients /\ Head(Queue) \in Messages /\ Head(Queue).sender = clients[at]
         /\ Head(Queue) \in ToSet(input[clients[at]])
         /\ \A k \in Clients : ToSet(input'[k]) \subseteq ToSet(input[k]) /\ Ordered(input'[k])
         /\ \A y \in ToSet(input'[clients[at]]) : Head(Queue).n < y.n
<1> DEFINE c == clients[at]
           q == input[c]
<1>1. c \in Clients /\ input \in [Clients -> Seq(Messages)]
  BY ReadingFacts
<1>2. q \in Seq(Messages) /\ q # <<>> /\ Queue = q
  BY <1>1 DEF Queue
<1>3. input'[c] = Tail(q) /\ \A k \in Clients : k # c => input'[k] = input[k]
  BY <1>1 DEF Take
<1>4. Ordered(q) /\ \A k \in Clients : Ordered(input[k])
  BY <1>1 DEF MInv, InOrder
<1>5. \A x \in ToSet(q) : x.sender = c
  BY <1>1 DEF MInv, Owners
<1> HIDE DEF c, q
<1>6. ToSet(Tail(q)) \subseteq ToSet(q) /\ Head(q) \in ToSet(q) /\ Head(q) \in Messages
  BY <1>2, TailSet, HeadTailProperties
<1>7. Ordered(Tail(q)) /\ \A y \in ToSet(Tail(q)) : y.sender = Head(q).sender => Head(q).n < y.n
  BY <1>2, <1>4, OrderedTail
<1>8. \A k \in Clients : ToSet(input'[k]) \subseteq ToSet(input[k]) /\ Ordered(input'[k])
  BY <1>3, <1>4, <1>6, <1>7 DEF q
<1>9. Head(q).sender = c /\ \A y \in ToSet(input'[c]) : Head(q).n < y.n
  BY <1>3, <1>5, <1>6, <1>7
<1> QED BY <1>1, <1>2, <1>6, <1>8, <1>9 DEF c, q

LEMMA ReadInvalidStep ==
  ASSUME TInv, MInv, ReadInvalid
  PROVE  MInv'
<1>1. Reading /\ Queue # <<>> /\ input' = Take /\ m = NoMessage
  BY DEF ReadInvalid, Reading
<1>2. \A k \in Clients : ToSet(input'[k]) \subseteq ToSet(input[k]) /\ Ordered(input'[k])
  BY <1>1, TakeFacts
<1>3. UNCHANGED <<output, received, replies, bus, m, remote, sends, arrivals>>
  BY DEF ReadInvalid, clientVars
<1>4. Owners' /\ InHands' /\ UNCHANGED Streams
  BY <1>1, <1>2, <1>3 DEF MInv, Owners, OwnBus, InHands, Streams
<1>5. Routed'
  BY <1>3, <1>4 DEF MInv, Routed
<1>6. Numbered'
  <2>1. \A x : Passed(x)' => Passed(x)
    BY <1>3, <1>4 DEF Passed
  <2>2. \A x : Passed(x) => x.sender \in Clients \cup {NoClient}
    BY ElementTypes
  <2> QED BY <1>1, <1>2, <1>3, <2>1, <2>2 DEF MInv, InOrder, Numbered
<1>7. InOrder'
  BY <1>2, <1>3, <1>4, <1>6 DEF MInv, InOrder
<1> QED BY <1>4, <1>5, <1>7 DEF MInv

LEMMA ReadMessageStep ==
  ASSUME TInv, MInv, ReadMessage
  PROVE  MInv'
<1> DEFINE c == clients[at]
           x == Head(Queue)
<1>1. Reading /\ Queue # <<>> /\ input' = Take /\ m = NoMessage /\ at # 0
  BY DEF ReadMessage, Reading
<1>2. /\ c \in Clients /\ x \in Messages /\ x.sender = c /\ x \in ToSet(input[c])
      /\ \A k \in Clients : ToSet(input'[k]) \subseteq ToSet(input[k]) /\ Ordered(input'[k])
      /\ \A y \in ToSet(input'[c]) : x.n < y.n
  BY <1>1, TakeFacts
<1>3. UNCHANGED <<output, received, replies, bus, clients, self_address, at, remote, sends, arrivals>>
  BY DEF ReadMessage, clientVars, historyVars
<1>4. m' = [x EXCEPT !.source = [node |-> self_address, client |-> at]]
  BY DEF ReadMessage
<1> HIDE DEF x
<1>5. m'.sender = c /\ m'.n = x.n /\ m'.source = [node |-> self_address, client |-> at]
  BY <1>2, <1>4 DEF Messages
<1>6. Owners' /\ InHands' /\ UNCHANGED Streams
  BY <1>1, <1>2, <1>3, <1>5 DEF MInv, Owners, OwnBus, InHands, Streams
<1>7. Routed'
  BY <1>3, <1>6 DEF MInv, Routed
<1> HIDE DEF c
<1>8. Numbered'
  <2>1. \A y : Passed(y)' <=> Passed(y)
    BY <1>3, <1>6 DEF Passed
  <2>2. \A y : Passed(y) => y.sender \in Clients \cup {NoClient}
    BY ElementTypes
  <2>3. /\ m'.n <= sends'[m'.sender]
        /\ \A y \in ToSet(input'[m'.sender]) : m'.n < y.n
        /\ \A y : Passed(y)' /\ y.sender = m'.sender => y.n < m'.n
    <3>1. x.n <= sends[c]
      BY <1>2 DEF MInv, InOrder, Numbered
    <3>2. ASSUME NEW y, Passed(y), y.sender = c PROVE y.n < x.n
      BY <1>2, <3>2, ClientsAssumption DEF MInv, InOrder, Numbered
    <3> QED BY <1>2, <1>3, <1>5, <2>1, <3>1, <3>2
  <2>4. \A k \in Clients : \A y \in ToSet(input'[k]) : y.n <= sends[k]
    BY <1>2 DEF MInv, InOrder, Numbered
  <2>5. \A y : Passed(y) => IF y.sender = NoClient THEN y.n <= arrivals
                            ELSE y.n <= sends[y.sender] /\ \A z \in ToSet(input'[y.sender]) : y.n < z.n
    BY <1>2, <2>2 DEF MInv, InOrder, Numbered
  <2> QED BY <1>3, <2>1, <2>3, <2>4, <2>5 DEF Numbered
<1>9. InOrder'
  BY <1>2, <1>3, <1>6, <1>8 DEF MInv, InOrder
<1> QED BY <1>6, <1>7, <1>9 DEF MInv

\* A message comes to the end of a client's stream, and cpmd has none in its
\* hands any more.
LEMMA Deliver ==
  ASSUME TInv, MInv, NEW c \in Clients, NEW msg \in Messages,
         Streams' = [Streams EXCEPT ![c] = Append(@, msg)], Hash[c] = msg.to.client,
         msg.sender # NoClient => Stamped(msg) /\ Here(msg),
         UNCHANGED <<input, remote, sends>>, m' = NoMessage,
         arrivals' \in Nat, arrivals <= arrivals', Owners',
         \A y : Passed(y) /\ y.sender = msg.sender => y.n < msg.n,
         IF msg.sender = NoClient THEN msg.n <= arrivals'
         ELSE msg.n <= sends[msg.sender] /\ \A y \in ToSet(input[msg.sender]) : msg.n < y.n
  PROVE  MInv'
<1>1. /\ Streams'[c] = Append(Streams[c], msg) /\ \A k \in Clients : k # c => Streams'[k] = Streams[k]
      /\ Streams[c] \in Seq(Messages)
  BY StreamType DEF Streams
<1>2. ToSet(Streams'[c]) = ToSet(Streams[c]) \cup {msg}
  BY <1>1, AppendSet
<1>3. Routed'
  <2>1. \A k \in Clients : \A x \in ToSet(Streams'[k]) :
          /\ x.to.client = Hash[k]
          /\ x.sender # NoClient => Stamped(x) /\ Here(x)
    BY <1>1, <1>2 DEF MInv, Routed
  <2> QED BY <2>1 DEF MInv, Routed, Stamped, Here
<1>4. Numbered'
  <2>1. \A x : Passed(x)' => Passed(x) \/ x = msg
    BY <1>1, <1>2 DEF Passed
  <2>2. \A x : Passed(x) => x.n \in Nat
    BY ElementTypes
  <2>3. \A x : Passed(x) => IF x.sender = NoClient THEN x.n <= arrivals'
                            ELSE x.n <= sends[x.sender] /\ \A y \in ToSet(input[x.sender]) : x.n < y.n
    BY <2>2, ElementTypes DEF MInv, InOrder, Numbered
  <2>4. \A k \in Clients : \A x \in ToSet(input[k]) : x.n <= sends[k]
    BY DEF MInv, InOrder, Numbered
  <2> QED BY <2>1, <2>3, <2>4 DEF Numbered
<1>5. \A k \in Clients : Ordered(Streams'[k])
  <2>1. \A y \in ToSet(Streams[c]) : y.sender = msg.sender => y.n < msg.n
    BY DEF Passed
  <2>2. Ordered(Streams[c])
    BY DEF MInv, InOrder
  <2>3. Ordered(Append(Streams[c], msg))
    BY <1>1, <2>1, <2>2, OrderedAppend
  <2> QED BY <1>1, <2>3 DEF MInv, InOrder
<1>6. InOrder'
  BY <1>4, <1>5 DEF MInv, InOrder
<1>7. InHands'
  BY DEF InHands
<1> QED BY <1>3, <1>6, <1>7 DEF MInv

LEMMA LocalStep ==
  ASSUME TInv, MInv, HandleToLocalMessage
  PROVE  MInv'
<1>1. m # NoMessage /\ IsLocal(m) /\ Forward(m) /\ m' = NoMessage
  BY DEF HandleToLocalMessage
<1>2. UNCHANGED <<input, received, replies, bus, remote, sends, arrivals>>
  BY DEF HandleToLocalMessage, clientVars
<1>3. /\ m \in Messages /\ m.sender \in Clients /\ Hash[m.sender] = at
      /\ m.source = [node |-> self_address, client |-> at]
  BY <1>1, HandsFacts DEF MInv, InHands
<1>4. Owners' /\ InHands'
  BY <1>1, <1>2 DEF MInv, Owners, OwnBus, InHands
<1>5. CASE Streams' = Streams
  BY <1>1, <1>2, <1>4, <1>5, Quiet
<1>6. ASSUME NEW c \in Clients, Hash[c] = m.to.client, Streams' = [Streams EXCEPT ![c] = Append(@, m)]
      PROVE  MInv'
  <2>1. Stamped(m) /\ Here(m)
    BY <1>1, <1>3 DEF Stamped, Here, IsLocal
  <2>2. /\ m.n <= sends[m.sender] /\ \A x \in ToSet(input[m.sender]) : m.n < x.n
        /\ \A x : Passed(x) /\ x.sender = m.sender => x.n < m.n
    BY <1>1 DEF MInv, InOrder, Numbered
  <2>3. arrivals' \in Nat /\ arrivals <= arrivals' /\ m.sender # NoClient
    BY <1>2, <1>3, ElementTypes, ClientsAssumption
  <2>4. IF m.sender = NoClient THEN m.n <= arrivals'
        ELSE m.n <= sends[m.sender] /\ \A y \in ToSet(input[m.sender]) : m.n < y.n
    BY <2>2, <2>3
  <2> QED BY <1>1, <1>2, <1>3, <1>4, <1>6, <2>1, <2>2, <2>3, <2>4, Deliver
<1> QED BY <1>1, <1>2, <1>3, <1>5, <1>6, ForwardStreams

LEMMA RemoteStep ==
  ASSUME TInv, MInv, HandleToRemoteMessage
  PROVE  MInv'
<1>1. m # NoMessage /\ ~IsLocal(m) /\ remote' = Append(remote, m) /\ m' = NoMessage
  BY DEF HandleToRemoteMessage
<1>2. UNCHANGED <<input, output, received, replies, bus, sends, arrivals>>
  BY DEF HandleToRemoteMessage, busVars, clientVars
<1>3. /\ m \in Messages /\ m.sender \in Clients /\ Hash[m.sender] = at /\ remote \in Seq(Messages)
      /\ m.source = [node |-> self_address, client |-> at] /\ m.sender # NoClient
  BY <1>1, HandsFacts, StreamType, ClientsAssumption DEF MInv, InHands
<1>4. Owners' /\ InHands' /\ UNCHANGED Streams
  BY <1>1, <1>2 DEF MInv, Owners, OwnBus, InHands, Streams
<1>5. ToSet(remote') = ToSet(remote) \cup {m}
  BY <1>1, <1>3, AppendSet
<1>6. /\ m.n <= sends[m.sender] /\ \A x \in ToSet(input[m.sender]) : m.n < x.n
      /\ \A x : Passed(x) /\ x.sender = m.sender => x.n < m.n
  BY <1>1 DEF MInv, InOrder, Numbered
<1>7. Routed'
  <2>1. Stamped(m) /\ ~Here(m)
    BY <1>1, <1>3 DEF Stamped, Here, IsLocal
  <2>2. \A x \in ToSet(remote') : Stamped(x) /\ ~Here(x)
    BY <1>5, <2>1 DEF MInv, Routed
  <2> QED BY <1>4, <2>2 DEF MInv, Routed
<1>8. Numbered'
  <2>1. \A x : Passed(x)' => Passed(x) \/ x = m
    BY <1>4, <1>5 DEF Passed
  <2>2. \A x : Passed(x) => IF x.sender = NoClient THEN x.n <= arrivals
                            ELSE x.n <= sends[x.sender] /\ \A y \in ToSet(input[x.sender]) : x.n < y.n
    BY DEF MInv, InOrder, Numbered
  <2>3. \A k \in Clients : \A x \in ToSet(input[k]) : x.n <= sends[k]
    BY DEF MInv, InOrder, Numbered
  <2> QED BY <1>1, <1>2, <1>3, <1>6, <2>1, <2>2, <2>3 DEF Numbered
<1>9. Ordered(remote')
  <2>1. \A y \in ToSet(remote) : y.sender = m.sender => y.n < m.n
    BY <1>6 DEF Passed
  <2>2. Ordered(remote)
    BY DEF MInv, InOrder
  <2> QED BY <1>1, <1>3, <2>1, <2>2, OrderedAppend
<1>10. InOrder'
  BY <1>2, <1>4, <1>8, <1>9 DEF MInv, InOrder
<1> QED BY <1>4, <1>7, <1>10 DEF MInv

LEMMA FromRemoteStep ==
  ASSUME TInv, MInv, NEW content \in Contents, HandleRemoteMessage(content)
  PROVE  MInv'
<1> DEFINE msg == Message(NoClient, arrivals', content)
<1>1. /\ at = 0 /\ arrivals' = arrivals + 1 /\ arrivals \in Nat
      /\ IF content.to.node = self_address THEN Forward(msg)
         ELSE dropped' = dropped \cup {msg} /\ output' = output
  BY DEF HandleRemoteMessage, TInv
<1>2. /\ UNCHANGED <<input, received, replies, bus, clients, self_address, at, m, remote, sends>>
      /\ m = NoMessage
  BY <1>1, HandsFacts DEF HandleRemoteMessage, serverVars, clientVars, MInv
<1>3. msg \in Messages /\ msg.sender = NoClient /\ msg.n = arrivals + 1
  <2>1. NoClient \in Clients \cup {NoClient} /\ arrivals' \in Nat
    BY <1>1
  <2>2. msg \in Messages /\ msg.sender = NoClient /\ msg.n = arrivals'
    BY <2>1, MessageFacts
  <2> QED BY <1>1, <2>2
<1> HIDE DEF msg
<1>4. Owners' /\ InHands'
  BY <1>2 DEF MInv, Owners, OwnBus, InHands
<1>5. \A x : Passed(x) /\ x.sender = NoClient => x.n <= arrivals /\ x.n \in Nat
  BY ElementTypes DEF MInv, InOrder, Numbered
<1>6. CASE Streams' = Streams
  <2>1. Routed'
    BY <1>2, <1>6 DEF MInv, Routed
  <2>2. \A x : Passed(x)' <=> Passed(x)
    BY <1>2, <1>6 DEF Passed
  <2>3. \A x : Passed(x) => IF x.sender = NoClient THEN x.n <= arrivals'
                            ELSE x.n <= sends[x.sender] /\ \A y \in ToSet(input[x.sender]) : x.n < y.n
    BY <1>1, <1>5 DEF MInv, InOrder, Numbered
  <2>4. Numbered'
    BY <1>2, <2>2, <2>3 DEF MInv, InOrder, Numbered
  <2>5. InOrder'
    BY <1>2, <1>6, <2>4 DEF MInv, InOrder
  <2> QED BY <1>4, <2>1, <2>5 DEF MInv
<1>7. ASSUME NEW c \in Clients, Hash[c] = msg.to.client,
             Streams' = [Streams EXCEPT ![c] = Append(@, msg)]
      PROVE  MInv'
  <2>1. arrivals' \in Nat /\ arrivals <= arrivals' /\ msg.n <= arrivals'
    BY <1>1, <1>3
  <2>2. \A y : Passed(y) /\ y.sender = msg.sender => y.n < msg.n
    BY <1>1, <1>3, <1>5
  <2>3. m' = NoMessage
    BY <1>2
  <2> QED BY <1>2, <1>3, <1>4, <1>7, <2>1, <2>2, <2>3, Deliver
<1>8. CASE Forward(msg)
  BY <1>2, <1>3, <1>6, <1>7, <1>8, ForwardStreams
<1>9. CASE output' = output
  BY <1>2, <1>6, <1>9 DEF Streams
<1> QED BY <1>1, <1>8, <1>9

-----------------------------------------------------------------------------
(* The invariant of the specification.                                      *)

LEMMA InitRouting == Init => MInv
<1> SUFFICES ASSUME Init PROVE MInv
  OBVIOUS
<1>1. /\ \A c \in Clients : input[c] = <<>> /\ output[c] = <<>> /\ received[c] = <<>> /\ bus[c] = NoClient
      /\ remote = <<>> /\ m = NoMessage /\ replies = {}
  BY DEF Init
<1>2. ToSet(<<>>) = {} /\ Ordered(<<>>)
  BY DEF ToSet, Ordered
<1>3. \A c \in Clients : Streams[c] = <<>>
  <2>1. <<>> \o <<>> = <<>>
    BY EmptySeq, ConcatEmptySeq
  <2> QED BY <1>1, <2>1 DEF Streams
<1>4. Owners /\ InHands /\ Routed
  BY <1>1, <1>2, <1>3 DEF Owners, OwnBus, InHands, Routed
<1>5. InOrder
  BY <1>1, <1>2, <1>3 DEF InOrder, Numbered, Passed
<1> QED BY <1>4, <1>5 DEF MInv

LEMMA RoutingStep == ~BufferKept /\ TInv /\ MInv /\ [Next]_vars => MInv'
<1> SUFFICES ASSUME ~BufferKept, TInv, MInv, [Next]_vars PROVE MInv'
  OBVIOUS
<1>1. CASE UNCHANGED vars
  <2>1. UNCHANGED <<input, output, received, replies, bus, clients, self_address, at, m, remote, sends,
                    arrivals>>
    BY <1>1 DEF vars, busVars, serverVars, clientVars, historyVars
  <2>2. Owners' /\ InHands' /\ UNCHANGED Streams
    BY <2>1 DEF MInv, Owners, OwnBus, InHands, Streams
  <2> QED BY <2>1, <2>2, Quiet
<1>2. ASSUME NEW c \in Clients,
             \/ Create(c) \/ MapBuses(c) \/ CreateFails(c) \/ Destroy(c)
             \/ \E content \in Contents : SendMessage(c, content)
             \/ ReceiveMessage(c)
      PROVE  MInv'
  BY <1>2, CreateSteps, MapBusesStep, SendStep, ReceiveStep
<1>3. ASSUME NEW r \in requests, HandleInitCommand(r) \/ HandleInitCommandFails(r) PROVE MInv'
  BY <1>3, InitCommandSteps
<1>4. CASE BusLoop
  BY <1>4, ServerSteps, ReadInvalidStep, ReadMessageStep, LocalStep, RemoteStep DEF BusLoop
<1>5. CASE UpdateSelfAddress \/ Crash
  BY <1>5, ServerSteps
<1>6. ASSUME NEW content \in Contents, HandleRemoteMessage(content) PROVE MInv'
  BY <1>6, FromRemoteStep
<1> QED BY <1>1, <1>2, <1>3, <1>4, <1>5, <1>6 DEF Next

\* If no reply can hold the paths of an earlier one, every client has its own
\* buses and no other's, and what it sends keeps its sender, number and order.
THEOREM Invariant == ASSUME ~BufferKept PROVE Spec => [](TInv /\ MInv)
<1>1. Init => TInv /\ MInv
  BY InitTypes, InitRouting
<1>2. TInv /\ MInv /\ [Next]_vars => (TInv /\ MInv)'
  BY TypeStep, RoutingStep
<1> QED BY <1>1, <1>2, PTL DEF Spec

\* A client that is up has its own buses and no other client's.
THEOREM OwnBusCorrect == ASSUME ~BufferKept PROVE Spec => []OwnBus
<1>1. TInv /\ MInv => OwnBus
  BY DEF MInv, Owners
<1> QED BY <1>1, Invariant, PTL

\* A client receives only messages for its own address, with the address of
\* their true sender as their source, and none for this node is handed to the
\* remote side: whatever cpmd knew of its own address when it read them.
THEOREM AddressedCorrect == ASSUME ~BufferKept PROVE Spec => []Addressed
<1>1. TInv /\ MInv => Addressed
  <2> SUFFICES ASSUME TInv, MInv PROVE Addressed
    OBVIOUS
  <2>1. \A c \in Clients : ToSet(output[c] \o received[c]) = ToSet(Streams[c])
    <3> SUFFICES ASSUME NEW c \in Clients PROVE ToSet(output[c] \o received[c]) = ToSet(Streams[c])
      OBVIOUS
    <3>1. output[c] \in Seq(Messages) /\ received[c] \in Seq(Messages)
      BY StreamType
    <3>2. Streams[c] = received[c] \o output[c]
      BY StreamType
    <3> DEFINE r == received[c]
               o == output[c]
    <3> HIDE DEF r, o
    <3>3. r \in Seq(Messages) /\ o \in Seq(Messages)
      BY <3>1 DEF r, o
    <3>4. ToSet(o \o r) = ToSet(o) \cup ToSet(r)
      BY <3>3, ConcatSet
    <3>5. ToSet(r \o o) = ToSet(r) \cup ToSet(o)
      BY <3>3, ConcatSet
    <3>6. ToSet(o \o r) = ToSet(r \o o)
      BY <3>4, <3>5
    <3> QED BY <3>2, <3>6 DEF r, o
  <2> QED BY <2>1 DEF MInv, Routed, Addressed, Stamped, Here
<1> QED BY <1>1, Invariant, PTL

\* What one client sends to another, or to the remote side, arrives in the order
\* it was sent, whatever messages of other clients, restarts of either and
\* restarts of cpmd come in between.
THEOREM SentInOrderCorrect == ASSUME ~BufferKept PROVE Spec => []SentInOrder
<1>1. TInv /\ MInv => SentInOrder
  BY DEF MInv, InOrder, Ordered, SentInOrder, Streams
<1> QED BY <1>1, Invariant, PTL

-----------------------------------------------------------------------------
(* Conservation.  A message is known by its sender and number.               *)

Name(x) == <<x.sender, x.n>>
Keys(q) == {Name(q[i]) : i \in 1 .. Len(q)}
KeysOf(S) == {Name(x) : x \in S}
NoneTwice(q) == \A i, j \in 1 .. Len(q) : Name(q[i]) = Name(q[j]) => i = j
Unique(S) == \A x, y \in S : Name(x) = Name(y) => x = y

Places == ({"input", "output", "received"} \X Clients)
            \cup {<<"remote">>, <<"dropped">>, <<"lost">>, <<"m">>}

\* The keys in each place.
Held(i, o, r, s, d, l, h) ==
  [p \in Places |->
     CASE p[1] = "input" -> Keys(i[p[2]])
       [] p[1] = "output" -> Keys(o[p[2]])
       [] p[1] = "received" -> Keys(r[p[2]])
       [] p[1] = "remote" -> Keys(s)
       [] p[1] = "dropped" -> KeysOf(d)
       [] p[1] = "lost" -> KeysOf(l)
       [] p[1] = "m" -> KeysOf(h)]

\* Every key of T is in exactly one place.
Partition(H, T) ==
  /\ \A p, q \in Places : p # q => H[p] \cap H[q] = {}
  /\ \A p \in Places : H[p] \subseteq T
  /\ \A k \in T : \E p \in Places : k \in H[p]

Hand == {m} \ {NoMessage}
Now == Held(input, output, received, remote, dropped, lost, Hand)

\* The keys of the messages there have been.
Sent(s, a) ==
  {k \in (Clients \cup {NoClient}) \X Nat :
     k[2] >= 1 /\ k[2] <= IF k[1] = NoClient THEN a ELSE s[k[1]]}

OnePlace ==
  /\ \A c \in Clients : NoneTwice(input[c]) /\ NoneTwice(output[c]) /\ NoneTwice(received[c])
  /\ NoneTwice(remote) /\ Unique(dropped) /\ Unique(lost)
  /\ Partition(Now, Sent(sends, arrivals))

LEMMA HeldFacts ==
  ASSUME NEW i, NEW o, NEW r, NEW s, NEW d, NEW l, NEW h
  PROVE  LET H == Held(i, o, r, s, d, l, h) IN
         /\ \A c \in Clients : /\ H[<<"input", c>>] = Keys(i[c])
                               /\ H[<<"output", c>>] = Keys(o[c])
                               /\ H[<<"received", c>>] = Keys(r[c])
         /\ H[<<"remote">>] = Keys(s)
         /\ H[<<"dropped">>] = KeysOf(d) /\ H[<<"lost">>] = KeysOf(l) /\ H[<<"m">>] = KeysOf(h)
<1>1. ASSUME NEW c \in Clients
      PROVE  /\ Held(i, o, r, s, d, l, h)[<<"input", c>>] = Keys(i[c])
             /\ Held(i, o, r, s, d, l, h)[<<"output", c>>] = Keys(o[c])
             /\ Held(i, o, r, s, d, l, h)[<<"received", c>>] = Keys(r[c])
  BY DEF Held, Places
<1>2. /\ Held(i, o, r, s, d, l, h)[<<"remote">>] = Keys(s)
      /\ Held(i, o, r, s, d, l, h)[<<"dropped">>] = KeysOf(d)
      /\ Held(i, o, r, s, d, l, h)[<<"lost">>] = KeysOf(l)
      /\ Held(i, o, r, s, d, l, h)[<<"m">>] = KeysOf(h)
  BY DEF Held, Places
<1> QED BY <1>1, <1>2

LEMMA PlacesAre ==
  /\ \A c \in Clients : <<"input", c>> \in Places /\ <<"output", c>> \in Places
                          /\ <<"received", c>> \in Places
  /\ <<"remote">> \in Places /\ <<"dropped">> \in Places /\ <<"lost">> \in Places
  /\ <<"m">> \in Places
  /\ \A p \in Places :
       \/ \E c \in Clients : p = <<"input", c>> \/ p = <<"output", c>> \/ p = <<"received", c>>
       \/ p = <<"remote">> \/ p = <<"dropped">> \/ p = <<"lost">> \/ p = <<"m">>
BY DEF Places

LEMMA NewKey ==
  ASSUME NEW H, NEW G, NEW T, NEW k, Partition(H, T), k \notin T, NEW p \in Places,
         G[p] = H[p] \cup {k}, \A q \in Places : q # p => G[q] = H[q]
  PROVE  Partition(G, T \cup {k})
<1>1. \A x \in T \cup {k} : \E q \in Places : x \in G[q]
  BY DEF Partition
<1>2. \A q, r \in Places : q # r => G[q] \cap G[r] = {}
  BY DEF Partition
<1>3. \A q \in Places : G[q] \subseteq T \cup {k}
  BY DEF Partition
<1> QED BY <1>1, <1>2, <1>3 DEF Partition

LEMMA MoveKey ==
  ASSUME NEW H, NEW G, NEW T, NEW k, Partition(H, T), NEW p \in Places, NEW q \in Places, p # q,
         k \in H[p], G[p] = H[p] \ {k}, G[q] = H[q] \cup {k},
         \A r \in Places : r # p /\ r # q => G[r] = H[r]
  PROVE  Partition(G, T)
<1>1. \A x \in T : \E r \in Places : x \in G[r]
  <2> SUFFICES ASSUME NEW x \in T PROVE \E r \in Places : x \in G[r]
    OBVIOUS
  <2>1. CASE x = k
    BY <2>1
  <2>2. CASE x # k
    <3>1. PICK r \in Places : x \in H[r]
      BY DEF Partition
    <3>2. x \in G[r]
      BY <2>2, <3>1
    <3> QED BY <3>2
  <2> QED BY <2>1, <2>2
<1>2. \A r, s \in Places : r # s => G[r] \cap G[s] = {}
  <2>1. \A r \in Places : r # p => k \notin H[r]
    BY DEF Partition
  <2>2. \A r \in Places : k \in G[r] => r = q
    BY <2>1
  <2>3. \A r \in Places : \A x : x \in G[r] /\ x # k => x \in H[r]
    OBVIOUS
  <2>4. ASSUME NEW r \in Places, NEW s \in Places, r # s, NEW x, x \in G[r], x \in G[s] PROVE FALSE
    <3>1. x # k
      BY <2>2, <2>4
    <3> QED BY <2>3, <2>4, <3>1 DEF Partition
  <2> QED BY <2>4
<1>3. \A r \in Places : G[r] \subseteq T
  BY DEF Partition
<1> QED BY <1>1, <1>2, <1>3 DEF Partition

\* Keys of sequences.
LEMMA KeysAppend ==
  ASSUME NEW q \in Seq(Messages), NEW x \in Messages
  PROVE  /\ Keys(Append(q, x)) = Keys(q) \cup {Name(x)}
         /\ NoneTwice(q) /\ Name(x) \notin Keys(q) => NoneTwice(Append(q, x))
<1>1. /\ Len(Append(q, x)) = Len(q) + 1 /\ Len(q) \in Nat
      /\ \A i \in 1 .. Len(q) : Append(q, x)[i] = q[i]
      /\ Append(q, x)[Len(q) + 1] = x
  BY AppendProperties, LenProperties
<1>2. \A i \in 1 .. (Len(q) + 1) : i \in 1 .. Len(q) \/ i = Len(q) + 1
  BY <1>1
<1>3. Len(q) + 1 \in 1 .. (Len(q) + 1) /\ \A i \in 1 .. Len(q) : i \in 1 .. (Len(q) + 1)
  BY <1>1
<1>4. Keys(Append(q, x)) = Keys(q) \cup {Name(x)}
  BY <1>1, <1>2, <1>3 DEF Keys
<1>5. ASSUME NoneTwice(q), Name(x) \notin Keys(q) PROVE NoneTwice(Append(q, x))
  BY <1>1, <1>2, <1>5 DEF NoneTwice, Keys
<1> QED BY <1>4, <1>5

LEMMA KeysTail ==
  ASSUME NEW q \in Seq(Messages), q # <<>>, NoneTwice(q)
  PROVE  /\ Name(Head(q)) \in Keys(q) /\ Keys(Tail(q)) = Keys(q) \ {Name(Head(q))}
         /\ NoneTwice(Tail(q))
<1>1. /\ Len(Tail(q)) = Len(q) - 1 /\ Len(q) \in Nat \ {0}
      /\ \A i \in 1 .. (Len(q) - 1) : Tail(q)[i] = q[i + 1]
      /\ Head(q) = q[1]
  BY HeadTailProperties, EmptySeq
<1>2. \A i \in 1 .. (Len(q) - 1) : i + 1 \in 1 .. Len(q) /\ i + 1 # 1
  BY <1>1
<1>3. \A i \in 1 .. Len(q) : i = 1 \/ (i - 1 \in 1 .. (Len(q) - 1) /\ (i - 1) + 1 = i)
  BY <1>1
<1>4. 1 \in 1 .. Len(q)
  BY <1>1
<1>5. \A i \in 1 .. Len(q) : i # 1 => Tail(q)[i - 1] = q[i]
  BY <1>1, <1>3
<1>6. Name(Head(q)) \in Keys(q) /\ Keys(Tail(q)) \subseteq Keys(q)
  BY <1>1, <1>2, <1>4 DEF Keys
<1>7. Name(Head(q)) \notin Keys(Tail(q))
  BY <1>1, <1>2, <1>4 DEF Keys, NoneTwice
<1>8. ASSUME NEW i \in 1 .. Len(q), i # 1 PROVE Name(q[i]) \in Keys(Tail(q))
  BY <1>1, <1>3, <1>5, <1>8 DEF Keys
<1>9. Keys(q) \subseteq Keys(Tail(q)) \cup {Name(Head(q))}
  BY <1>1, <1>8 DEF Keys
<1>10. NoneTwice(Tail(q))
  <2>1. \A i, j \in 1 .. (Len(q) - 1) : i + 1 = j + 1 => i = j
    BY <1>1
  <2> QED BY <1>1, <1>2, <2>1 DEF NoneTwice
<1> QED BY <1>6, <1>7, <1>9, <1>10

LEMMA KeysOfOne ==
  /\ \A S, x : KeysOf(S \cup {x}) = KeysOf(S) \cup {Name(x)}
  /\ \A S, x : Unique(S) /\ Name(x) \notin KeysOf(S) => Unique(S \cup {x})
  /\ \A x : KeysOf({x}) = {Name(x)}
  /\ KeysOf({}) = {} /\ Unique({}) /\ Keys(<<>>) = {} /\ NoneTwice(<<>>)
BY DEF KeysOf, Unique, Keys, NoneTwice

\* The number a client, or the remote side, uses next.
LEMMA SentMore ==
  ASSUME NEW s \in [Clients -> Nat], NEW a \in Nat
  PROVE  /\ \A c \in Clients :
              /\ <<c, s[c] + 1>> \notin Sent(s, a)
              /\ Sent([s EXCEPT ![c] = @ + 1], a) = Sent(s, a) \cup {<<c, s[c] + 1>>}
         /\ <<NoClient, a + 1>> \notin Sent(s, a)
         /\ Sent(s, a + 1) = Sent(s, a) \cup {<<NoClient, a + 1>>}
<1>1. \A n, b \in Nat : n <= b + 1 <=> n <= b \/ n = b + 1
  OBVIOUS
<1>2. ASSUME NEW c \in Clients
      PROVE  /\ <<c, s[c] + 1>> \notin Sent(s, a)
             /\ Sent([s EXCEPT ![c] = @ + 1], a) = Sent(s, a) \cup {<<c, s[c] + 1>>}
  <2> DEFINE t == [s EXCEPT ![c] = @ + 1]
  <2>1. t[c] = s[c] + 1 /\ \A d \in Clients : d # c => t[d] = s[d]
    OBVIOUS
  <2>2. c # NoClient
    BY ClientsAssumption
  <2> HIDE DEF t
  <2>3. ASSUME NEW k \in (Clients \cup {NoClient}) \X Nat
        PROVE  k \in Sent(t, a) <=> k \in Sent(s, a) \/ k = <<c, s[c] + 1>>
    <3>1. PICK d \in Clients \cup {NoClient}, n \in Nat : k = <<d, n>>
      OBVIOUS
    <3>2. /\ k \in Sent(t, a) <=> n >= 1 /\ n <= IF d = NoClient THEN a ELSE t[d]
          /\ k \in Sent(s, a) <=> n >= 1 /\ n <= IF d = NoClient THEN a ELSE s[d]
      BY <3>1 DEF Sent
    <3>3. CASE d = c
      BY <1>1, <2>1, <2>2, <3>1, <3>2, <3>3
    <3>4. CASE d # c
      BY <2>1, <3>1, <3>2, <3>4
    <3> QED BY <3>3, <3>4
  <2>4. <<c, s[c] + 1>> \in (Clients \cup {NoClient}) \X Nat
    OBVIOUS
  <2>5. Sent(t, a) = Sent(s, a) \cup {<<c, s[c] + 1>>}
    <3>1. \A k : k \in Sent(t, a) \/ k \in Sent(s, a) => k \in (Clients \cup {NoClient}) \X Nat
      BY DEF Sent
    <3> QED BY <2>3, <2>4, <3>1
  <2>6. <<c, s[c] + 1>> \notin Sent(s, a)
    BY <2>2 DEF Sent
  <2> QED BY <2>5, <2>6 DEF t
<1>3. <<NoClient, a + 1>> \notin Sent(s, a)
  BY DEF Sent
<1>4. Sent(s, a + 1) = Sent(s, a) \cup {<<NoClient, a + 1>>}
  <2>1. ASSUME NEW k \in (Clients \cup {NoClient}) \X Nat
        PROVE  k \in Sent(s, a + 1) <=> k \in Sent(s, a) \/ k = <<NoClient, a + 1>>
    <3>1. PICK d \in Clients \cup {NoClient}, n \in Nat : k = <<d, n>>
      OBVIOUS
    <3>2. /\ k \in Sent(s, a + 1) <=> n >= 1 /\ n <= IF d = NoClient THEN a + 1 ELSE s[d]
          /\ k \in Sent(s, a) <=> n >= 1 /\ n <= IF d = NoClient THEN a ELSE s[d]
      BY <3>1 DEF Sent
    <3>3. CASE d = NoClient
      BY <1>1, <3>1, <3>2, <3>3
    <3>4. CASE d # NoClient
      BY <3>1, <3>2, <3>4
    <3> QED BY <3>3, <3>4
  <2>2. <<NoClient, a + 1>> \in (Clients \cup {NoClient}) \X Nat
    OBVIOUS
  <2>3. \A k : k \in Sent(s, a + 1) \/ k \in Sent(s, a) => k \in (Clients \cup {NoClient}) \X Nat
    BY DEF Sent
  <2> QED BY <2>1, <2>2, <2>3
<1> QED BY <1>2, <1>3, <1>4

\* What a client's bus or list holds, before and after it gets a message at its
\* end or loses the one at its head.
LEMMA PutKeys ==
  ASSUME NEW b \in [Clients -> Seq(Messages)], NEW c \in Clients, NEW x \in Messages,
         \A d \in Clients : NoneTwice(b[d]), Name(x) \notin Keys(b[c])
  PROVE  /\ Keys(Put(b, c, x)[c]) = Keys(b[c]) \cup {Name(x)}
         /\ \A d \in Clients : d # c => Put(b, c, x)[d] = b[d]
         /\ \A d \in Clients : NoneTwice(Put(b, c, x)[d])
<1>1. Put(b, c, x)[c] = Append(b[c], x) /\ \A d \in Clients : d # c => Put(b, c, x)[d] = b[d]
  BY PutType
<1>2. Keys(Append(b[c], x)) = Keys(b[c]) \cup {Name(x)} /\ NoneTwice(Append(b[c], x))
  BY KeysAppend
<1>3. ASSUME NEW d \in Clients PROVE NoneTwice(Put(b, c, x)[d])
  BY <1>1, <1>2
<1> QED BY <1>1, <1>2, <1>3

LEMMA TakeKeys ==
  ASSUME NEW b \in [Clients -> Seq(Messages)], NEW c \in Clients, b[c] # <<>>,
         \A d \in Clients : NoneTwice(b[d])
  PROVE  LET t == [b EXCEPT ![c] = Tail(@)] IN
         /\ Name(Head(b[c])) \in Keys(b[c]) /\ Head(b[c]) \in Messages
         /\ Keys(t[c]) = Keys(b[c]) \ {Name(Head(b[c]))}
         /\ \A d \in Clients : d # c => t[d] = b[d]
         /\ \A d \in Clients : NoneTwice(t[d])
<1> DEFINE t == [b EXCEPT ![c] = Tail(@)]
<1>1. t[c] = Tail(b[c]) /\ (\A d \in Clients : d # c => t[d] = b[d]) /\ Head(b[c]) \in Messages
  BY TakeType
<1>2. /\ Name(Head(b[c])) \in Keys(b[c])
      /\ Keys(Tail(b[c])) = Keys(b[c]) \ {Name(Head(b[c]))} /\ NoneTwice(Tail(b[c]))
  BY KeysTail
<1> HIDE DEF t
<1>3. ASSUME NEW d \in Clients PROVE NoneTwice(t[d])
  BY <1>1, <1>2
<1>4. Keys(t[c]) = Keys(b[c]) \ {Name(Head(b[c]))}
  BY <1>1, <1>2
<1> QED BY <1>1, <1>2, <1>3, <1>4 DEF t

\* A name that is new is nowhere, and one that is in a place is in no other.
LEMMA Elsewhere ==
  ASSUME OnePlace
  PROVE  /\ \A k : k \notin Sent(sends, arrivals) => \A p \in Places : k \notin Now[p]
         /\ \A p, q \in Places : \A k : k \in Now[p] /\ p # q => k \notin Now[q]
BY DEF OnePlace, Partition

\* A message that is nowhere, or only in cpmd's hands, can be put anywhere: what
\* Forward does.
LEMMA ForwardKeys ==
  ASSUME TInv, OnePlace, NEW x \in Messages, Forward(x),
         Name(x) \notin KeysOf(dropped), \A c \in Clients : Name(x) \notin Keys(output[c])
  PROVE  /\ \A c \in Clients : NoneTwice(output'[c])
         /\ Unique(dropped')
         /\ \/ /\ dropped' = dropped
               /\ \E c \in Clients :
                    /\ Keys(output'[c]) = Keys(output[c]) \cup {Name(x)}
                    /\ \A d \in Clients : d # c => output'[d] = output[d]
            \/ output' = output /\ KeysOf(dropped') = KeysOf(dropped) \cup {Name(x)}
<1> DEFINE c == Addressee(x)
<1>1. output \in [Clients -> Seq(Messages)] /\ \A d \in Clients : NoneTwice(output[d])
  BY DEF TInv, TypeOK, OnePlace
<1>2. CASE c # NoClient /\ Fits(output, c)
  <2>1. c \in Clients
    BY <1>2 DEF Addressee, TInv, TypeOK
  <2>2. output' = Put(output, c, x) /\ dropped' = dropped
    BY <1>2 DEF Forward
  <2> HIDE DEF c
  <2>3. /\ Keys(Put(output, c, x)[c]) = Keys(output[c]) \cup {Name(x)}
        /\ \A d \in Clients : d # c => Put(output, c, x)[d] = output[d]
        /\ \A d \in Clients : NoneTwice(Put(output, c, x)[d])
    BY <1>1, <2>1, PutKeys
  <2> QED BY <2>1, <2>2, <2>3 DEF OnePlace
<1>3. CASE ~(c # NoClient /\ Fits(output, c))
  <2>1. output' = output /\ dropped' = dropped \cup {x}
    BY <1>3 DEF Forward
  <2> QED BY <1>1, <2>1, KeysOfOne DEF OnePlace
<1> QED BY <1>2, <1>3

LEMMA NowFacts ==
  /\ \A c \in Clients : /\ Now[<<"input", c>>] = Keys(input[c])
                        /\ Now[<<"output", c>>] = Keys(output[c])
                        /\ Now[<<"received", c>>] = Keys(received[c])
  /\ Now[<<"remote">>] = Keys(remote)
  /\ Now[<<"dropped">>] = KeysOf(dropped) /\ Now[<<"lost">>] = KeysOf(lost)
  /\ Now[<<"m">>] = KeysOf(Hand)
BY HeldFacts DEF Now

LEMMA NowFactsNext ==
  /\ \A c \in Clients : /\ Now'[<<"input", c>>] = Keys(input'[c])
                        /\ Now'[<<"output", c>>] = Keys(output'[c])
                        /\ Now'[<<"received", c>>] = Keys(received'[c])
  /\ Now'[<<"remote">>] = Keys(remote')
  /\ Now'[<<"dropped">>] = KeysOf(dropped') /\ Now'[<<"lost">>] = KeysOf(lost')
  /\ Now'[<<"m">>] = KeysOf(Hand')
<1>1. Now' = Held(input', output', received', remote', dropped', lost', Hand')
  BY DEF Now
<1> QED BY <1>1, HeldFacts

\* A place that did not change holds what it held.
LEMMA SamePlace ==
  ASSUME NEW q \in Places
  PROVE  \/ \E c \in Clients :
              \/ q = <<"input", c>> /\ (input'[c] = input[c] => Now'[q] = Now[q])
              \/ q = <<"output", c>> /\ (output'[c] = output[c] => Now'[q] = Now[q])
              \/ q = <<"received", c>> /\ (received'[c] = received[c] => Now'[q] = Now[q])
         \/ q = <<"remote">> /\ (remote' = remote => Now'[q] = Now[q])
         \/ q = <<"dropped">> /\ (dropped' = dropped => Now'[q] = Now[q])
         \/ q = <<"lost">> /\ (lost' = lost => Now'[q] = Now[q])
         \/ q = <<"m">> /\ (m' = m => Now'[q] = Now[q])
<1>1. m' = m => Hand' = Hand
  BY DEF Hand
<1>2. ASSUME NEW c \in Clients
      PROVE  /\ q = <<"input", c>> => (input'[c] = input[c] => Now'[q] = Now[q])
             /\ q = <<"output", c>> => (output'[c] = output[c] => Now'[q] = Now[q])
             /\ q = <<"received", c>> => (received'[c] = received[c] => Now'[q] = Now[q])
  <2>1. /\ Now[<<"input", c>>] = Keys(input[c]) /\ Now'[<<"input", c>>] = Keys(input'[c])
        /\ Now[<<"output", c>>] = Keys(output[c]) /\ Now'[<<"output", c>>] = Keys(output'[c])
        /\ Now[<<"received", c>>] = Keys(received[c])
        /\ Now'[<<"received", c>>] = Keys(received'[c])
    BY NowFacts, NowFactsNext
  <2> QED BY <2>1
<1>3. /\ q = <<"remote">> => (remote' = remote => Now'[q] = Now[q])
      /\ q = <<"dropped">> => (dropped' = dropped => Now'[q] = Now[q])
      /\ q = <<"lost">> => (lost' = lost => Now'[q] = Now[q])
      /\ q = <<"m">> => (m' = m => Now'[q] = Now[q])
  <2>1. /\ Now[<<"remote">>] = Keys(remote) /\ Now'[<<"remote">>] = Keys(remote')
        /\ Now[<<"dropped">>] = KeysOf(dropped) /\ Now'[<<"dropped">>] = KeysOf(dropped')
        /\ Now[<<"lost">>] = KeysOf(lost) /\ Now'[<<"lost">>] = KeysOf(lost')
        /\ Now[<<"m">>] = KeysOf(Hand) /\ Now'[<<"m">>] = KeysOf(Hand')
    BY NowFacts, NowFactsNext
  <2> QED BY <1>1, <2>1
<1>4. \/ \E c \in Clients : q = <<"input", c>> \/ q = <<"output", c>> \/ q = <<"received", c>>
      \/ q = <<"remote">> \/ q = <<"dropped">> \/ q = <<"lost">> \/ q = <<"m">>
  BY PlacesAre
<1> QED BY <1>2, <1>3, <1>4

LEMMA QuietPlaces ==
  ASSUME OnePlace, UNCHANGED <<input, output, received, remote, dropped, lost, m, sends, arrivals>>
  PROVE  OnePlace'
BY DEF OnePlace, Now, Hand

LEMMA SendPlaces ==
  ASSUME TInv, OnePlace, NEW c \in Clients, NEW content \in Contents, SendMessage(c, content)
  PROVE  OnePlace'
<1> DEFINE x == Message(c, sends[c] + 1, content)
           k == <<c, sends[c] + 1>>
<1>1. PICK b \in Clients : b = bus[c]
  BY DEF SendMessage, TInv, TypeOK
<1>2. sends \in [Clients -> Nat] /\ sends' = [sends EXCEPT ![c] = @ + 1]
      /\ sends'[c] = sends[c] + 1 /\ arrivals \in Nat
  BY DEF SendMessage, TInv
<1>3. x \in Messages /\ Name(x) = k
  <2>1. sends[c] + 1 \in Nat /\ c \in Clients \cup {NoClient}
    BY <1>2
  <2>2. x \in Messages /\ x.sender = c /\ x.n = sends[c] + 1
    BY <2>1, MessageFacts
  <2> QED BY <2>2 DEF Name
<1>4. input' = Put(input, b, x) /\ UNCHANGED <<output, received, remote, dropped, lost, m, arrivals>>
  BY <1>1, <1>2 DEF SendMessage, serverVars, clientVars, historyVars
<1>5. k \notin Sent(sends, arrivals) /\ Sent(sends', arrivals') = Sent(sends, arrivals) \cup {k}
  <2>1. \A d \in Clients :
           /\ <<d, sends[d] + 1>> \notin Sent(sends, arrivals)
           /\ Sent([sends EXCEPT ![d] = @ + 1], arrivals)
                = Sent(sends, arrivals) \cup {<<d, sends[d] + 1>>}
    BY <1>2, SentMore
  <2>2. /\ <<c, sends[c] + 1>> \notin Sent(sends, arrivals)
        /\ Sent([sends EXCEPT ![c] = @ + 1], arrivals)
             = Sent(sends, arrivals) \cup {<<c, sends[c] + 1>>}
    BY <2>1
  <2> QED BY <1>2, <1>4, <2>2
<1> HIDE DEF x, k
<1>6. input \in [Clients -> Seq(Messages)] /\ \A d \in Clients : NoneTwice(input[d])
  BY DEF TInv, TypeOK, OnePlace
<1>7. k \notin Keys(input[b])
  <2>1. <<"input", b>> \in Places /\ Now[<<"input", b>>] = Keys(input[b])
    BY PlacesAre, NowFacts
  <2> QED BY <1>5, <2>1, Elsewhere
<1>8. /\ Keys(input'[b]) = Keys(input[b]) \cup {k}
      /\ \A d \in Clients : d # b => input'[d] = input[d]
      /\ \A d \in Clients : NoneTwice(input'[d])
  <2>1. Name(x) \notin Keys(input[b])
    BY <1>3, <1>7
  <2>2. /\ Keys(Put(input, b, x)[b]) = Keys(input[b]) \cup {Name(x)}
        /\ \A d \in Clients : d # b => Put(input, b, x)[d] = input[d]
        /\ \A d \in Clients : NoneTwice(Put(input, b, x)[d])
    BY <1>3, <1>6, <2>1, PutKeys
  <2> QED BY <1>3, <1>4, <2>2
<1>9. /\ Now'[<<"input", b>>] = Now[<<"input", b>>] \cup {k}
      /\ \A q \in Places : q # <<"input", b>> => Now'[q] = Now[q]
  BY <1>4, <1>8, NowFacts, NowFactsNext, SamePlace
<1>10. Partition(Now', Sent(sends', arrivals'))
  <2>1. <<"input", b>> \in Places /\ Partition(Now, Sent(sends, arrivals))
    BY PlacesAre DEF OnePlace
  <2>2. Partition(Now', Sent(sends, arrivals) \cup {k})
    BY <1>5, <1>9, <2>1, NewKey
  <2> QED BY <1>5, <2>2
<1> QED BY <1>4, <1>8, <1>10 DEF OnePlace

\* A message goes from one place to another.
LEMMA Moved ==
  ASSUME OnePlace, NEW k, NEW p \in Places, NEW q \in Places, p # q, k \in Now[p],
         Now'[p] = Now[p] \ {k}, Now'[q] = Now[q] \cup {k},
         \A r \in Places : r # p /\ r # q => Now'[r] = Now[r],
         UNCHANGED <<sends, arrivals>>
  PROVE  Partition(Now', Sent(sends', arrivals'))
BY MoveKey DEF OnePlace

LEMMA ReceivePlaces ==
  ASSUME TInv, OnePlace, NEW c \in Clients, ReceiveMessage(c)
  PROVE  OnePlace'
<1>1. PICK b \in Clients : b = bus[c] /\ output[b] # <<>>
  BY DEF ReceiveMessage, TInv, TypeOK
<1> DEFINE x == Head(output[b])
           k == Name(x)
<1>2. /\ received' = Put(received, c, x) /\ output' = [output EXCEPT ![b] = Tail(@)]
      /\ UNCHANGED <<input, remote, dropped, lost, m, sends, arrivals>>
  BY <1>1 DEF ReceiveMessage, serverVars, historyVars
<1>3. /\ output \in [Clients -> Seq(Messages)] /\ received \in [Clients -> Seq(Messages)]
      /\ \A d \in Clients : NoneTwice(output[d]) /\ NoneTwice(received[d])
  BY DEF TInv, TypeOK, OnePlace
<1>4. /\ k \in Keys(output[b]) /\ x \in Messages
      /\ Keys(output'[b]) = Keys(output[b]) \ {k}
      /\ \A d \in Clients : d # b => output'[d] = output[d]
      /\ \A d \in Clients : NoneTwice(output'[d])
  BY <1>1, <1>2, <1>3, TakeKeys
<1> HIDE DEF x
<1>5. k \in Now[<<"output", b>>] /\ k \notin Keys(received[c])
  <2>1. /\ <<"output", b>> \in Places /\ Now[<<"output", b>>] = Keys(output[b])
        /\ <<"received", c>> \in Places /\ Now[<<"received", c>>] = Keys(received[c])
    BY PlacesAre, NowFacts
  <2>2. <<"output", b>> # <<"received", c>>
    OBVIOUS
  <2> QED BY <1>4, <2>1, <2>2, Elsewhere
<1>6. /\ Keys(received'[c]) = Keys(received[c]) \cup {k}
      /\ \A d \in Clients : d # c => received'[d] = received[d]
      /\ \A d \in Clients : NoneTwice(received'[d])
  <2>1. /\ Keys(Put(received, c, x)[c]) = Keys(received[c]) \cup {Name(x)}
        /\ \A d \in Clients : d # c => Put(received, c, x)[d] = received[d]
        /\ \A d \in Clients : NoneTwice(Put(received, c, x)[d])
    BY <1>3, <1>4, <1>5, PutKeys
  <2> QED BY <1>2, <2>1
<1> HIDE DEF k
<1>7. /\ Now'[<<"output", b>>] = Now[<<"output", b>>] \ {k}
      /\ Now'[<<"received", c>>] = Now[<<"received", c>>] \cup {k}
  BY <1>4, <1>6, NowFacts, NowFactsNext
<1>8. \A q \in Places : q # <<"output", b>> /\ q # <<"received", c>> => Now'[q] = Now[q]
  BY <1>2, <1>4, <1>6, SamePlace
<1>9. Partition(Now', Sent(sends', arrivals'))
  <2>1. /\ <<"output", b>> \in Places /\ <<"received", c>> \in Places
        /\ <<"output", b>> # <<"received", c>>
    BY PlacesAre
  <2> QED BY <1>2, <1>5, <1>7, <1>8, <2>1, Moved
<1> QED BY <1>2, <1>3, <1>4, <1>6, <1>9 DEF OnePlace

\* cpmd takes the first message of a bus.
LEMMA TakePlaces ==
  ASSUME TInv, OnePlace, Reading, Queue # <<>>, input' = Take
  PROVE  LET b == clients[at]
             k == Name(Head(Queue))
         IN  /\ b \in Clients /\ Head(Queue) \in Messages
             /\ k \in Now[<<"input", b>>] /\ <<"input", b>> \in Places
             /\ Now'[<<"input", b>>] = Now[<<"input", b>>] \ {k}
             /\ \A d \in Clients : d # b => input'[d] = input[d]
             /\ \A d \in Clients : NoneTwice(input'[d])
<1>1. PICK b \in Clients : b = clients[at] /\ input[b] # <<>>
  BY ReadingFacts DEF Queue
<1>2. input \in [Clients -> Seq(Messages)] /\ \A d \in Clients : NoneTwice(input[d])
  BY DEF TInv, TypeOK, OnePlace
<1>3. input' = [input EXCEPT ![b] = Tail(@)] /\ Head(Queue) = Head(input[b])
  BY <1>1 DEF Take, Queue
<1>4. LET t == [input EXCEPT ![b] = Tail(@)] IN
         /\ Name(Head(input[b])) \in Keys(input[b]) /\ Head(input[b]) \in Messages
         /\ Keys(t[b]) = Keys(input[b]) \ {Name(Head(input[b]))}
         /\ \A d \in Clients : d # b => t[d] = input[d]
         /\ \A d \in Clients : NoneTwice(t[d])
  BY <1>1, <1>2, TakeKeys
<1>5. /\ <<"input", b>> \in Places /\ Now[<<"input", b>>] = Keys(input[b])
      /\ Now'[<<"input", b>>] = Keys(input'[b])
  BY PlacesAre, NowFacts, NowFactsNext
<1> QED BY <1>1, <1>3, <1>4, <1>5

LEMMA ReadInvalidPlaces ==
  ASSUME TInv, OnePlace, ReadInvalid
  PROVE  OnePlace'
<1> DEFINE b == clients[at]
           x == Head(Queue)
           k == Name(x)
<1>1. /\ dropped' = dropped \cup {x}
      /\ UNCHANGED <<output, received, remote, lost, m, sends, arrivals>>
  BY DEF ReadInvalid, clientVars
<1>2. /\ b \in Clients /\ k \in Now[<<"input", b>>] /\ <<"input", b>> \in Places
      /\ Now'[<<"input", b>>] = Now[<<"input", b>>] \ {k}
      /\ \A d \in Clients : d # b => input'[d] = input[d]
      /\ \A d \in Clients : NoneTwice(input'[d])
  BY TakePlaces DEF ReadInvalid
<1> HIDE DEF b, x
<1>3. /\ <<"dropped">> \in Places /\ <<"dropped">> # <<"input", b>>
      /\ Now[<<"dropped">>] = KeysOf(dropped) /\ Now'[<<"dropped">>] = KeysOf(dropped')
  BY PlacesAre, NowFacts, NowFactsNext
<1>4. k \notin KeysOf(dropped)
  BY <1>2, <1>3, Elsewhere
<1>5. KeysOf(dropped') = KeysOf(dropped) \cup {k} /\ Unique(dropped')
  BY <1>1, <1>4, KeysOfOne DEF OnePlace
<1>6. \A q \in Places : q # <<"input", b>> /\ q # <<"dropped">> => Now'[q] = Now[q]
  BY <1>1, <1>2, SamePlace
<1> HIDE DEF k
<1>7. Partition(Now', Sent(sends', arrivals'))
  BY <1>1, <1>2, <1>3, <1>5, <1>6, Moved
<1> QED BY <1>1, <1>2, <1>5, <1>7 DEF OnePlace

LEMMA ReadMessagePlaces ==
  ASSUME TInv, OnePlace, ReadMessage
  PROVE  OnePlace'
<1> DEFINE b == clients[at]
           x == Head(Queue)
           k == Name(x)
<1>1. /\ m = NoMessage
      /\ m' = [x EXCEPT !.source = [node |-> self_address, client |-> at]]
      /\ UNCHANGED <<output, received, remote, dropped, lost, sends, arrivals>>
  BY DEF ReadMessage, Reading, clientVars, historyVars
<1>2. /\ b \in Clients /\ k \in Now[<<"input", b>>] /\ <<"input", b>> \in Places
      /\ Now'[<<"input", b>>] = Now[<<"input", b>>] \ {k} /\ x \in Messages
      /\ \A d \in Clients : d # b => input'[d] = input[d]
      /\ \A d \in Clients : NoneTwice(input'[d])
  BY TakePlaces DEF ReadMessage
<1>3. m' \in Messages /\ Name(m') = k
  <2>1. [node |-> self_address, client |-> at] \in [node : {LocalNode, Node}, client : Hashes \cup {0}]
    BY ReadingFacts DEF TInv, TypeOK, ReadMessage
  <2> QED BY <1>1, <1>2, <2>1 DEF Messages, Name
<1>4. Hand = {} /\ Hand' = {m'}
  BY <1>1, <1>3, NoMessageAssumption DEF Hand
<1> HIDE DEF b, x, k
<1>5. /\ <<"m">> \in Places /\ <<"m">> # <<"input", b>>
      /\ Now[<<"m">>] = {} /\ Now'[<<"m">>] = {k}
  BY <1>3, <1>4, PlacesAre, NowFacts, NowFactsNext, KeysOfOne
<1>6. \A q \in Places : q # <<"input", b>> /\ q # <<"m">> => Now'[q] = Now[q]
  BY <1>1, <1>2, SamePlace
<1>7. Partition(Now', Sent(sends', arrivals'))
  BY <1>1, <1>2, <1>5, <1>6, Moved
<1> QED BY <1>1, <1>2, <1>7 DEF OnePlace

\* What cpmd holds is nowhere else.
LEMMA HandFacts ==
  ASSUME TInv, OnePlace, m # NoMessage
  PROVE  /\ m \in Messages /\ Now[<<"m">>] = {Name(m)} /\ <<"m">> \in Places
         /\ \A q \in Places : q # <<"m">> => Name(m) \notin Now[q]
         /\ m' = NoMessage => Now'[<<"m">>] = {}
<1>1. m \in Messages /\ Hand = {m} /\ (m' = NoMessage => Hand' = {})
  BY DEF TInv, TypeOK, Hand
<1>2. Now[<<"m">>] = {Name(m)} /\ (m' = NoMessage => Now'[<<"m">>] = {}) /\ <<"m">> \in Places
  BY <1>1, NowFacts, NowFactsNext, KeysOfOne, PlacesAre
<1> QED BY <1>1, <1>2, Elsewhere

LEMMA LocalPlaces ==
  ASSUME TInv, OnePlace, HandleToLocalMessage
  PROVE  OnePlace'
<1>1. /\ m # NoMessage /\ m' = NoMessage /\ Forward(m)
      /\ UNCHANGED <<input, received, remote, lost, sends, arrivals>>
  BY DEF HandleToLocalMessage, clientVars
<1>2. /\ m \in Messages /\ Now[<<"m">>] = {Name(m)} /\ <<"m">> \in Places
      /\ \A q \in Places : q # <<"m">> => Name(m) \notin Now[q]
      /\ Now'[<<"m">>] = {}
  BY <1>1, HandFacts
<1> DEFINE k == Name(m)
<1>3. k \notin KeysOf(dropped) /\ \A c \in Clients : k \notin Keys(output[c])
  <2>1. <<"dropped">> # <<"m">> /\ \A c \in Clients : <<"output", c>> # <<"m">>
    OBVIOUS
  <2>2. /\ <<"dropped">> \in Places /\ Now[<<"dropped">>] = KeysOf(dropped)
        /\ \A c \in Clients : <<"output", c>> \in Places /\ Now[<<"output", c>>] = Keys(output[c])
    BY PlacesAre, NowFacts
  <2> QED BY <1>2, <2>1, <2>2
<1>4. /\ \A c \in Clients : NoneTwice(output'[c])
      /\ Unique(dropped')
      /\ \/ /\ dropped' = dropped
            /\ \E c \in Clients : /\ Keys(output'[c]) = Keys(output[c]) \cup {k}
                                  /\ \A d \in Clients : d # c => output'[d] = output[d]
         \/ output' = output /\ KeysOf(dropped') = KeysOf(dropped) \cup {k}
  BY <1>1, <1>2, <1>3, ForwardKeys
<1> HIDE DEF k
<1>5. k \in Now[<<"m">>] /\ Now'[<<"m">>] = Now[<<"m">>] \ {k}
  BY <1>2 DEF k
<1>6. ASSUME /\ dropped' = dropped
             /\ \E c \in Clients : /\ Keys(output'[c]) = Keys(output[c]) \cup {k}
                                   /\ \A d \in Clients : d # c => output'[d] = output[d]
      PROVE  Partition(Now', Sent(sends', arrivals'))
  <2>1. PICK c \in Clients : /\ Keys(output'[c]) = Keys(output[c]) \cup {k}
                             /\ \A d \in Clients : d # c => output'[d] = output[d]
    BY <1>6
  <2>2. /\ <<"output", c>> \in Places /\ <<"output", c>> # <<"m">>
        /\ Now'[<<"output", c>>] = Now[<<"output", c>>] \cup {k}
    BY <2>1, PlacesAre, NowFacts, NowFactsNext
  <2>3. \A r \in Places : r # <<"m">> /\ r # <<"output", c>> => Now'[r] = Now[r]
    BY <1>1, <1>6, <2>1, SamePlace
  <2> QED BY <1>1, <1>2, <1>5, <2>2, <2>3, Moved
<1>7. ASSUME output' = output /\ KeysOf(dropped') = KeysOf(dropped) \cup {k}
      PROVE  Partition(Now', Sent(sends', arrivals'))
  <2>1. /\ <<"dropped">> \in Places /\ <<"dropped">> # <<"m">>
        /\ Now'[<<"dropped">>] = Now[<<"dropped">>] \cup {k}
    BY <1>7, PlacesAre, NowFacts, NowFactsNext
  <2>2. \A r \in Places : r # <<"m">> /\ r # <<"dropped">> => Now'[r] = Now[r]
    BY <1>1, <1>7, SamePlace
  <2> QED BY <1>1, <1>2, <1>5, <2>1, <2>2, Moved
<1>8. Partition(Now', Sent(sends', arrivals'))
  BY <1>4, <1>6, <1>7
<1> QED BY <1>1, <1>4, <1>8 DEF OnePlace

LEMMA RemotePlaces ==
  ASSUME TInv, OnePlace, HandleToRemoteMessage
  PROVE  OnePlace'
<1> DEFINE k == Name(m)
<1>1. /\ m # NoMessage /\ m' = NoMessage /\ remote' = Append(remote, m)
      /\ UNCHANGED <<input, output, received, dropped, lost, sends, arrivals>>
  BY DEF HandleToRemoteMessage, busVars, clientVars
<1>2. /\ m \in Messages /\ Now[<<"m">>] = {k} /\ <<"m">> \in Places
      /\ \A q \in Places : q # <<"m">> => k \notin Now[q]
      /\ Now'[<<"m">>] = {}
  BY <1>1, HandFacts
<1>3. /\ <<"remote">> \in Places /\ <<"remote">> # <<"m">>
      /\ Now[<<"remote">>] = Keys(remote) /\ Now'[<<"remote">>] = Keys(remote')
  BY PlacesAre, NowFacts, NowFactsNext
<1>4. k \notin Keys(remote) /\ remote \in Seq(Messages) /\ NoneTwice(remote)
  BY <1>2, <1>3 DEF TInv, TypeOK, OnePlace
<1>5. Keys(remote') = Keys(remote) \cup {k} /\ NoneTwice(remote')
  BY <1>1, <1>2, <1>4, KeysAppend
<1> HIDE DEF k
<1>6. \A r \in Places : r # <<"m">> /\ r # <<"remote">> => Now'[r] = Now[r]
  BY <1>1, SamePlace
<1>7. Partition(Now', Sent(sends', arrivals'))
  BY <1>1, <1>2, <1>3, <1>5, <1>6, Moved
<1> QED BY <1>1, <1>5, <1>7 DEF OnePlace

LEMMA FromRemotePlaces ==
  ASSUME TInv, OnePlace, NEW content \in Contents, HandleRemoteMessage(content)
  PROVE  OnePlace'
<1> DEFINE x == Message(NoClient, arrivals + 1, content)
           k == <<NoClient, arrivals + 1>>
<1>1. /\ arrivals' = arrivals + 1
      /\ Forward(x) \/ (dropped' = dropped \cup {x} /\ output' = output)
      /\ UNCHANGED <<input, received, remote, lost, m, sends>>
  BY DEF HandleRemoteMessage, serverVars, clientVars
<1>2. x \in Messages /\ Name(x) = k
  <2>1. arrivals + 1 \in Nat /\ NoClient \in Clients \cup {NoClient}
    BY DEF TInv
  <2>2. x \in Messages /\ x.sender = NoClient /\ x.n = arrivals + 1
    BY <2>1, MessageFacts
  <2> QED BY <2>2 DEF Name
<1>3. k \notin Sent(sends, arrivals) /\ Sent(sends', arrivals') = Sent(sends, arrivals) \cup {k}
  BY <1>1, SentMore DEF TInv
<1> HIDE DEF x, k
<1>4. k \notin KeysOf(dropped) /\ \A c \in Clients : k \notin Keys(output[c])
  <2>1. /\ <<"dropped">> \in Places /\ Now[<<"dropped">>] = KeysOf(dropped)
        /\ \A c \in Clients : <<"output", c>> \in Places /\ Now[<<"output", c>>] = Keys(output[c])
    BY PlacesAre, NowFacts
  <2>2. \A q \in Places : k \notin Now[q]
    BY <1>3, Elsewhere
  <2> QED BY <2>1, <2>2
<1>5. /\ \A c \in Clients : NoneTwice(output'[c])
      /\ Unique(dropped')
      /\ \/ /\ dropped' = dropped
            /\ \E c \in Clients : /\ Keys(output'[c]) = Keys(output[c]) \cup {k}
                                  /\ \A d \in Clients : d # c => output'[d] = output[d]
         \/ output' = output /\ KeysOf(dropped') = KeysOf(dropped) \cup {k}
  <2>1. CASE Forward(x)
    BY <1>2, <1>4, <2>1, ForwardKeys
  <2>2. CASE dropped' = dropped \cup {x} /\ output' = output
    BY <1>2, <1>4, <2>2, KeysOfOne DEF OnePlace
  <2> QED BY <1>1, <2>1, <2>2
<1>6. Partition(Now, Sent(sends, arrivals))
  BY DEF OnePlace
<1>7. ASSUME /\ dropped' = dropped
             /\ \E c \in Clients : /\ Keys(output'[c]) = Keys(output[c]) \cup {k}
                                   /\ \A d \in Clients : d # c => output'[d] = output[d]
      PROVE  Partition(Now', Sent(sends', arrivals'))
  <2>1. PICK c \in Clients : /\ Keys(output'[c]) = Keys(output[c]) \cup {k}
                             /\ \A d \in Clients : d # c => output'[d] = output[d]
    BY <1>7
  <2>2. <<"output", c>> \in Places /\ Now'[<<"output", c>>] = Now[<<"output", c>>] \cup {k}
    BY <2>1, PlacesAre, NowFacts, NowFactsNext
  <2>3. \A r \in Places : r # <<"output", c>> => Now'[r] = Now[r]
    BY <1>1, <1>7, <2>1, SamePlace
  <2>4. Partition(Now', Sent(sends, arrivals) \cup {k})
    BY <1>3, <1>6, <2>2, <2>3, NewKey
  <2> QED BY <1>3, <2>4
<1>8. ASSUME output' = output /\ KeysOf(dropped') = KeysOf(dropped) \cup {k}
      PROVE  Partition(Now', Sent(sends', arrivals'))
  <2>1. <<"dropped">> \in Places /\ Now'[<<"dropped">>] = Now[<<"dropped">>] \cup {k}
    BY <1>8, PlacesAre, NowFacts, NowFactsNext
  <2>2. \A r \in Places : r # <<"dropped">> => Now'[r] = Now[r]
    BY <1>1, <1>8, SamePlace
  <2>3. Partition(Now', Sent(sends, arrivals) \cup {k})
    BY <1>3, <1>6, <2>1, <2>2, NewKey
  <2> QED BY <1>3, <2>3
<1>9. Partition(Now', Sent(sends', arrivals'))
  BY <1>5, <1>7, <1>8
<1> QED BY <1>1, <1>5, <1>9 DEF OnePlace

LEMMA CrashPlaces ==
  ASSUME TInv, OnePlace, Crash
  PROVE  OnePlace'
<1>1. /\ m' = NoMessage /\ lost' = lost \cup Hand
      /\ UNCHANGED <<input, output, received, remote, dropped, sends, arrivals>>
  BY DEF Crash, busVars, clientVars, Hand
<1>2. CASE m = NoMessage
  BY <1>1, <1>2, QuietPlaces DEF Hand
<1>3. CASE m # NoMessage
  <2> DEFINE k == Name(m)
  <2>1. /\ Now[<<"m">>] = {k} /\ <<"m">> \in Places
        /\ \A q \in Places : q # <<"m">> => k \notin Now[q]
        /\ Now'[<<"m">>] = {}
    BY <1>1, <1>3, HandFacts
  <2>2. lost' = lost \cup {m}
    BY <1>1, <1>3 DEF Hand
  <2>3. /\ <<"lost">> \in Places /\ <<"lost">> # <<"m">>
        /\ Now[<<"lost">>] = KeysOf(lost) /\ Now'[<<"lost">>] = KeysOf(lost')
    BY PlacesAre, NowFacts, NowFactsNext
  <2>4. k \notin KeysOf(lost)
    BY <2>1, <2>3
  <2>5. KeysOf(lost') = KeysOf(lost) \cup {k} /\ Unique(lost')
    BY <2>2, <2>4, KeysOfOne DEF OnePlace
  <2> HIDE DEF k
  <2>6. \A r \in Places : r # <<"m">> /\ r # <<"lost">> => Now'[r] = Now[r]
    BY <1>1, SamePlace
  <2>7. Partition(Now', Sent(sends', arrivals'))
    BY <1>1, <2>1, <2>3, <2>5, <2>6, Moved
  <2> QED BY <1>1, <2>5, <2>7 DEF OnePlace
<1> QED BY <1>2, <1>3

LEMMA PlacesStep == TInv /\ OnePlace /\ [Next]_vars => OnePlace'
<1> SUFFICES ASSUME TInv, OnePlace, [Next]_vars PROVE OnePlace'
  OBVIOUS
<1>1. CASE UNCHANGED vars
  BY <1>1, QuietPlaces DEF vars, busVars, serverVars, clientVars, historyVars
<1>2. ASSUME NEW c \in Clients,
             \/ Create(c) \/ MapBuses(c) \/ CreateFails(c) \/ Destroy(c)
             \/ \E content \in Contents : SendMessage(c, content)
             \/ ReceiveMessage(c)
      PROVE  OnePlace'
  <2>1. CASE Create(c) \/ MapBuses(c) \/ CreateFails(c) \/ Destroy(c)
    BY <2>1, QuietPlaces DEF Create, MapBuses, CreateFails, Destroy, busVars, serverVars, historyVars
  <2> QED BY <1>2, <2>1, SendPlaces, ReceivePlaces
<1>3. ASSUME NEW r \in requests, HandleInitCommand(r) \/ HandleInitCommandFails(r) PROVE OnePlace'
  BY <1>3, QuietPlaces DEF HandleInitCommand, HandleInitCommandFails,
       busVars, serverVars, clientVars, historyVars
<1>4. CASE BusLoop
  <2>1. CASE HandleBusMessage \/ ReadNothing
    BY <2>1, QuietPlaces DEF HandleBusMessage, ReadNothing, busVars, clientVars, historyVars
  <2> QED BY <1>4, <2>1, ReadInvalidPlaces, ReadMessagePlaces, LocalPlaces, RemotePlaces DEF BusLoop
<1>5. CASE UpdateSelfAddress
  BY <1>5, QuietPlaces DEF UpdateSelfAddress, busVars, clientVars, historyVars
<1>6. CASE Crash
  BY <1>6, CrashPlaces
<1>7. ASSUME NEW content \in Contents, HandleRemoteMessage(content) PROVE OnePlace'
  BY <1>7, FromRemotePlaces
<1> QED BY <1>1, <1>2, <1>3, <1>4, <1>5, <1>6, <1>7 DEF Next

LEMMA InitPlaces == Init => OnePlace
<1> SUFFICES ASSUME Init PROVE OnePlace
  OBVIOUS
<1>1. /\ \A c \in Clients : input[c] = <<>> /\ output[c] = <<>> /\ received[c] = <<>>
      /\ remote = <<>> /\ dropped = {} /\ lost = {} /\ Hand = {}
      /\ sends = [c \in Clients |-> 0] /\ arrivals = 0
  BY DEF Init, Hand
<1>2. \A q \in Places : Now[q] = {}
  BY <1>1, PlacesAre, NowFacts, KeysOfOne
<1>3. Sent(sends, arrivals) = {}
  BY <1>1 DEF Sent
<1>4. Partition(Now, Sent(sends, arrivals))
  BY <1>2, <1>3 DEF Partition
<1> QED BY <1>1, <1>4, KeysOfOne DEF OnePlace

\* A crash loses at most the message in cpmd's hands.
FewLost == IsFiniteSet(lost) /\ Cardinality(lost) <= crashes /\ crashes \in Nat

LEMMA FewLostStep == FewLost /\ [Next]_vars => FewLost'
<1> SUFFICES ASSUME FewLost, [Next]_vars PROVE FewLost'
  OBVIOUS
<1>1. CASE UNCHANGED <<lost, crashes>>
  BY <1>1 DEF FewLost
<1>2. CASE Crash
  <2>1. crashes' = crashes + 1 /\ (lost' = lost \/ lost' = lost \cup {m})
    BY <1>2 DEF Crash
  <2>2. /\ IsFiniteSet(lost \cup {m})
        /\ Cardinality(lost \cup {m}) = IF m \in lost THEN Cardinality(lost) ELSE Cardinality(lost) + 1
        /\ Cardinality(lost) \in Nat
    BY FS_AddElement, FS_CardinalityType DEF FewLost
  <2> QED BY <2>1, <2>2 DEF FewLost
<1> QED BY <1>1, <1>2 DEF Next, BusLoop, Create, MapBuses, CreateFails, Destroy, SendMessage,
      ReceiveMessage, HandleInitCommand, HandleInitCommandFails, HandleBusMessage, ReadNothing,
      ReadInvalid, ReadMessage, HandleToLocalMessage, HandleToRemoteMessage, UpdateSelfAddress,
      HandleRemoteMessage, historyVars, vars

\* The copies of a message are where its name is.
LEMMA CopiesFacts ==
  ASSUME TInv, NEW sender, NEW n
  PROVE  /\ \A e \in Copies(sender, n) : \E p \in Places : \E y : e = <<p, y>>
         /\ \A c \in Clients : \A y :
              /\ <<<<"input", c>>, y>> \in Copies(sender, n)
                   <=> y \in 1 .. Len(input[c]) /\ Name(input[c][y]) = <<sender, n>>
              /\ <<<<"output", c>>, y>> \in Copies(sender, n)
                   <=> y \in 1 .. Len(output[c]) /\ Name(output[c][y]) = <<sender, n>>
              /\ <<<<"received", c>>, y>> \in Copies(sender, n)
                   <=> y \in 1 .. Len(received[c]) /\ Name(received[c][y]) = <<sender, n>>
         /\ \A y :
              /\ <<<<"remote">>, y>> \in Copies(sender, n)
                   <=> y \in 1 .. Len(remote) /\ Name(remote[y]) = <<sender, n>>
              /\ <<<<"dropped">>, y>> \in Copies(sender, n) <=> y \in dropped /\ Name(y) = <<sender, n>>
              /\ <<<<"lost">>, y>> \in Copies(sender, n) <=> y \in lost /\ Name(y) = <<sender, n>>
              /\ <<<<"m">>, y>> \in Copies(sender, n) <=> y \in Hand /\ Name(y) = <<sender, n>>
<1> DEFINE k == <<sender, n>>
<1>1. \A e : e \in Copies(sender, n) <=>
               e \in AtServer(sender, n) \/ \E c \in Clients : e \in AtClient(c, sender, n)
  BY DEF Copies
<1>2. \A x : Name(x) = k <=> Same(x, sender, n)
  BY DEF Name, Same
<1>3. /\ \A c \in Clients : /\ DOMAIN input[c] = 1 .. Len(input[c])
                            /\ DOMAIN output[c] = 1 .. Len(output[c])
                            /\ DOMAIN received[c] = 1 .. Len(received[c])
      /\ DOMAIN remote = 1 .. Len(remote)
  BY LenProperties DEF TInv, TypeOK
<1>4. ASSUME NEW place, NEW q, NEW e
      PROVE  e \in In(place, q, sender, n) <=> \E y : e = <<place, y>> /\ y \in DOMAIN q /\ Name(q[y]) = k
  <2>1. e \in In(place, q, sender, n) <=> \E y \in {j \in DOMAIN q : Same(q[j], sender, n)} :
                                  e = <<place, y>>
    BY DEF In
  <2>2. \A y : Name(q[y]) = k <=> Same(q[y], sender, n)
    BY <1>2
  <2> HIDE DEF k
  <2> QED BY <2>1, <2>2
<1>5. ASSUME NEW place, NEW S, NEW e
      PROVE  e \in Among(place, S, sender, n) <=> \E y : e = <<place, y>> /\ y \in S /\ Name(y) = k
  <2>1. e \in Among(place, S, sender, n) <=> \E y \in {x \in S : Same(x, sender, n)} :
                                     e = <<place, y>>
    BY DEF Among
  <2> HIDE DEF k
  <2> QED BY <1>2, <2>1
<1>6. \A e : e \in Copies(sender, n) <=>
        \/ \E c \in Clients : \/ e \in In(<<"input", c>>, input[c], sender, n)
                              \/ e \in In(<<"output", c>>, output[c], sender, n)
                              \/ e \in In(<<"received", c>>, received[c], sender, n)
        \/ e \in In(<<"remote">>, remote, sender, n)
        \/ e \in Among(<<"dropped">>, dropped, sender, n)
        \/ e \in Among(<<"lost">>, lost, sender, n)
        \/ e \in Among(<<"m">>, Hand, sender, n)
  BY <1>1 DEF AtClient, AtServer, Hand
<1> HIDE DEF k
<1>7. /\ \A place, q, e : e \in In(place, q, sender, n) => \E y : e = <<place, y>>
      /\ \A place, S, e : e \in Among(place, S, sender, n) => \E y : e = <<place, y>>
  <2>1. ASSUME NEW place, NEW q, NEW e, e \in In(place, q, sender, n) PROVE \E y : e = <<place, y>>
    <3>1. \E y : e = <<place, y>> /\ y \in DOMAIN q /\ Name(q[y]) = k
      BY <1>4, <2>1
    <3> QED BY <3>1
  <2>2. ASSUME NEW place, NEW S, NEW e, e \in Among(place, S, sender, n) PROVE \E y : e = <<place, y>>
    <3>1. \E y : e = <<place, y>> /\ y \in S /\ Name(y) = k
      BY <1>5, <2>2
    <3> QED BY <3>1
  <2> QED BY <2>1, <2>2
<1>10. ASSUME NEW e \in Copies(sender, n) PROVE \E p \in Places : \E y : e = <<p, y>>
  <2>1. CASE \E c \in Clients : \/ e \in In(<<"input", c>>, input[c], sender, n)
                                \/ e \in In(<<"output", c>>, output[c], sender, n)
                                \/ e \in In(<<"received", c>>, received[c], sender, n)
    <3>1. PICK c \in Clients : \/ e \in In(<<"input", c>>, input[c], sender, n)
                               \/ e \in In(<<"output", c>>, output[c], sender, n)
                               \/ e \in In(<<"received", c>>, received[c], sender, n)
      BY <2>1
    <3>2. \/ \E y : e = <<<<"input", c>>, y>>
          \/ \E y : e = <<<<"output", c>>, y>>
          \/ \E y : e = <<<<"received", c>>, y>>
      BY <1>7, <3>1
    <3> QED BY <3>2, PlacesAre
  <2>2. CASE \/ e \in In(<<"remote">>, remote, sender, n)
             \/ e \in Among(<<"dropped">>, dropped, sender, n) \/ e \in Among(<<"lost">>, lost, sender, n)
             \/ e \in Among(<<"m">>, Hand, sender, n)
    <3>1. \/ \E y : e = <<<<"remote">>, y>>
          \/ \E y : e = <<<<"dropped">>, y>>
          \/ \E y : e = <<<<"lost">>, y>>
          \/ \E y : e = <<<<"m">>, y>>
      BY <1>7, <2>2
    <3> QED BY <3>1, PlacesAre
  <2> QED BY <1>6, <2>1, <2>2
\* Only one of the sets has pairs of a place.
<1>8. /\ \A place, q, p, y : <<p, y>> \in In(place, q, sender, n) <=> p = place /\ y \in DOMAIN q /\ Name(q[y]) = k
      /\ \A place, S, p, y : <<p, y>> \in Among(place, S, sender, n) <=> p = place /\ y \in S /\ Name(y) = k
  <2>1. \A p, q, x, y : <<p, x>> = <<q, y>> <=> p = q /\ x = y
    OBVIOUS
  <2>2. ASSUME NEW place, NEW q, NEW p, NEW y
        PROVE  <<p, y>> \in In(place, q, sender, n) <=> p = place /\ y \in DOMAIN q /\ Name(q[y]) = k
    <3>1. <<p, y>> \in In(place, q, sender, n)
            <=> \E x : <<p, y>> = <<place, x>> /\ x \in DOMAIN q /\ Name(q[x]) = k
      BY <1>4
    <3> QED BY <2>1, <3>1
  <2>3. ASSUME NEW place, NEW S, NEW p, NEW y
        PROVE  <<p, y>> \in Among(place, S, sender, n) <=> p = place /\ y \in S /\ Name(y) = k
    <3>1. <<p, y>> \in Among(place, S, sender, n)
            <=> \E x : <<p, y>> = <<place, x>> /\ x \in S /\ Name(x) = k
      BY <1>5
    <3> QED BY <2>1, <3>1
  <2> QED BY <2>2, <2>3
<1>11. ASSUME NEW p, NEW y
      PROVE  <<p, y>> \in Copies(sender, n) <=>
        \/ \E c \in Clients :
             \/ p = <<"input", c>> /\ y \in DOMAIN input[c] /\ Name(input[c][y]) = k
             \/ p = <<"output", c>> /\ y \in DOMAIN output[c] /\ Name(output[c][y]) = k
             \/ p = <<"received", c>> /\ y \in DOMAIN received[c] /\ Name(received[c][y]) = k
        \/ p = <<"remote">> /\ y \in DOMAIN remote /\ Name(remote[y]) = k
        \/ p = <<"dropped">> /\ y \in dropped /\ Name(y) = k
        \/ p = <<"lost">> /\ y \in lost /\ Name(y) = k
        \/ p = <<"m">> /\ y \in Hand /\ Name(y) = k
  <2> DEFINE e == <<p, y>>
  <2>1. /\ \A place, q : e \in In(place, q, sender, n) <=> p = place /\ y \in DOMAIN q /\ Name(q[y]) = k
        /\ \A place, S : e \in Among(place, S, sender, n) <=> p = place /\ y \in S /\ Name(y) = k
    BY <1>8
  <2> HIDE DEF e
  <2>2. e \in Copies(sender, n) <=>
        \/ \E c \in Clients : \/ e \in In(<<"input", c>>, input[c], sender, n)
                              \/ e \in In(<<"output", c>>, output[c], sender, n)
                              \/ e \in In(<<"received", c>>, received[c], sender, n)
        \/ e \in In(<<"remote">>, remote, sender, n)
        \/ e \in Among(<<"dropped">>, dropped, sender, n) \/ e \in Among(<<"lost">>, lost, sender, n)
        \/ e \in Among(<<"m">>, Hand, sender, n)
    BY <1>6
  <2>3. e \in Copies(sender, n) <=>
        \/ \E c \in Clients :
             \/ p = <<"input", c>> /\ y \in DOMAIN input[c] /\ Name(input[c][y]) = k
             \/ p = <<"output", c>> /\ y \in DOMAIN output[c] /\ Name(output[c][y]) = k
             \/ p = <<"received", c>> /\ y \in DOMAIN received[c] /\ Name(received[c][y]) = k
        \/ p = <<"remote">> /\ y \in DOMAIN remote /\ Name(remote[y]) = k
        \/ p = <<"dropped">> /\ y \in dropped /\ Name(y) = k
        \/ p = <<"lost">> /\ y \in lost /\ Name(y) = k
        \/ p = <<"m">> /\ y \in Hand /\ Name(y) = k
    BY <2>1, <2>2
  <2> QED BY <2>3 DEF e
<1>9. ASSUME NEW c \in Clients, NEW y
      PROVE  /\ <<<<"input", c>>, y>> \in Copies(sender, n)
                  <=> y \in 1 .. Len(input[c]) /\ Name(input[c][y]) = k
             /\ <<<<"output", c>>, y>> \in Copies(sender, n)
                  <=> y \in 1 .. Len(output[c]) /\ Name(output[c][y]) = k
             /\ <<<<"received", c>>, y>> \in Copies(sender, n)
                  <=> y \in 1 .. Len(received[c]) /\ Name(received[c][y]) = k
  <2>1. /\ \A s \in {"remote", "dropped", "lost", "m"} :
             /\ <<"input", c>> # <<s>> /\ <<"output", c>> # <<s>> /\ <<"received", c>> # <<s>>
        /\ \A d : /\ <<"input", c>> # <<"output", d>> /\ <<"input", c>> # <<"received", d>>
                  /\ <<"output", c>> # <<"received", d>> /\ <<"output", c>> # <<"input", d>>
                  /\ <<"received", c>> # <<"input", d>> /\ <<"received", c>> # <<"output", d>>
                  /\ (<<"input", c>> = <<"input", d>> => c = d)
                  /\ (<<"output", c>> = <<"output", d>> => c = d)
                  /\ (<<"received", c>> = <<"received", d>> => c = d)
    OBVIOUS
  <2>2. <<<<"input", c>>, y>> \in Copies(sender, n)
                  <=> y \in 1 .. Len(input[c]) /\ Name(input[c][y]) = k
    BY <1>3, <1>11, <2>1
  <2>3. <<<<"output", c>>, y>> \in Copies(sender, n)
                  <=> y \in 1 .. Len(output[c]) /\ Name(output[c][y]) = k
    BY <1>3, <1>11, <2>1
  <2>4. <<<<"received", c>>, y>> \in Copies(sender, n)
                  <=> y \in 1 .. Len(received[c]) /\ Name(received[c][y]) = k
    BY <1>3, <1>11, <2>1
  <2> QED BY <2>2, <2>3, <2>4
<1>12. ASSUME NEW y
       PROVE  /\ <<<<"remote">>, y>> \in Copies(sender, n)
                   <=> y \in 1 .. Len(remote) /\ Name(remote[y]) = k
              /\ <<<<"dropped">>, y>> \in Copies(sender, n) <=> y \in dropped /\ Name(y) = k
              /\ <<<<"lost">>, y>> \in Copies(sender, n) <=> y \in lost /\ Name(y) = k
              /\ <<<<"m">>, y>> \in Copies(sender, n) <=> y \in Hand /\ Name(y) = k
  <2>1. /\ \A s \in {"remote", "dropped", "lost", "m"} : \A c :
             <<"input", c>> # <<s>> /\ <<"output", c>> # <<s>> /\ <<"received", c>> # <<s>>
        /\ <<"remote">> # <<"dropped">> /\ <<"remote">> # <<"lost">> /\ <<"remote">> # <<"m">>
        /\ <<"dropped">> # <<"lost">> /\ <<"dropped">> # <<"m">> /\ <<"lost">> # <<"m">>
    OBVIOUS
  <2>2. <<<<"remote">>, y>> \in Copies(sender, n) <=> y \in 1 .. Len(remote) /\ Name(remote[y]) = k
    BY <1>3, <1>11, <2>1
  <2>3. /\ <<<<"dropped">>, y>> \in Copies(sender, n) <=> y \in dropped /\ Name(y) = k
        /\ <<<<"lost">>, y>> \in Copies(sender, n) <=> y \in lost /\ Name(y) = k
        /\ <<<<"m">>, y>> \in Copies(sender, n) <=> y \in Hand /\ Name(y) = k
    BY <1>11, <2>1
  <2> QED BY <2>2, <2>3
<1> QED BY <1>9, <1>10, <1>12 DEF k

\* Where the name is, there is one copy, and elsewhere none.
LEMMA CopiesAt ==
  ASSUME TInv, OnePlace, NEW sender, NEW n, NEW p \in Places
  PROVE  /\ <<sender, n>> \in Now[p] <=> \E y : <<p, y>> \in Copies(sender, n)
         /\ \A y, z : <<p, y>> \in Copies(sender, n) /\ <<p, z>> \in Copies(sender, n) => y = z
<1> DEFINE k == <<sender, n>>
           C == Copies(sender, n)
<1>0. ASSUME NEW q
      PROVE  k \in Keys(q) <=> \E y : y \in 1 .. Len(q) /\ Name(q[y]) = k
  BY DEF Keys
<1>1. ASSUME NEW S
      PROVE  k \in KeysOf(S) <=> \E y : y \in S /\ Name(y) = k
  BY DEF KeysOf
<1>2. /\ \A c \in Clients : \A y :
           /\ <<<<"input", c>>, y>> \in Copies(sender, n)
                <=> y \in 1 .. Len(input[c]) /\ Name(input[c][y]) = <<sender, n>>
           /\ <<<<"output", c>>, y>> \in Copies(sender, n)
                <=> y \in 1 .. Len(output[c]) /\ Name(output[c][y]) = <<sender, n>>
           /\ <<<<"received", c>>, y>> \in Copies(sender, n)
                <=> y \in 1 .. Len(received[c]) /\ Name(received[c][y]) = <<sender, n>>
      /\ \A y :
           /\ <<<<"remote">>, y>> \in Copies(sender, n) <=> y \in 1 .. Len(remote) /\ Name(remote[y]) = <<sender, n>>
           /\ <<<<"dropped">>, y>> \in Copies(sender, n) <=> y \in dropped /\ Name(y) = <<sender, n>>
           /\ <<<<"lost">>, y>> \in Copies(sender, n) <=> y \in lost /\ Name(y) = <<sender, n>>
           /\ <<<<"m">>, y>> \in Copies(sender, n) <=> y \in Hand /\ Name(y) = <<sender, n>>
  BY CopiesFacts
<1>3. /\ \A c \in Clients : \A y :
           /\ <<<<"input", c>>, y>> \in C
                <=> y \in 1 .. Len(input[c]) /\ Name(input[c][y]) = k
           /\ <<<<"output", c>>, y>> \in C
                <=> y \in 1 .. Len(output[c]) /\ Name(output[c][y]) = k
           /\ <<<<"received", c>>, y>> \in C
                <=> y \in 1 .. Len(received[c]) /\ Name(received[c][y]) = k
      /\ \A y :
           /\ <<<<"remote">>, y>> \in C <=> y \in 1 .. Len(remote) /\ Name(remote[y]) = k
           /\ <<<<"dropped">>, y>> \in C <=> y \in dropped /\ Name(y) = k
           /\ <<<<"lost">>, y>> \in C <=> y \in lost /\ Name(y) = k
           /\ <<<<"m">>, y>> \in C <=> y \in Hand /\ Name(y) = k
  BY <1>2, Zenon
<1> HIDE DEF k, C
<1>4. ASSUME NEW q, Now[p] = Keys(q), NoneTwice(q),
             \A y : <<p, y>> \in C <=> y \in 1 .. Len(q) /\ Name(q[y]) = k
      PROVE  /\ k \in Now[p] <=> \E y : <<p, y>> \in C
             /\ \A y, z : <<p, y>> \in C /\ <<p, z>> \in C => y = z
  <2>1. k \in Keys(q) <=> \E y : y \in 1 .. Len(q) /\ Name(q[y]) = k
    BY <1>0
  <2> QED BY <1>4, <2>1 DEF NoneTwice
<1>5. ASSUME NEW S, Now[p] = KeysOf(S), Unique(S),
             \A y : <<p, y>> \in C <=> y \in S /\ Name(y) = k
      PROVE  /\ k \in Now[p] <=> \E y : <<p, y>> \in C
             /\ \A y, z : <<p, y>> \in C /\ <<p, z>> \in C => y = z
  <2>1. k \in KeysOf(S) <=> \E y : y \in S /\ Name(y) = k
    BY <1>1
  <2> QED BY <1>5, <2>1 DEF Unique
<1>6. ASSUME NEW c \in Clients, p = <<"input", c>> \/ p = <<"output", c>> \/ p = <<"received", c>>
      PROVE  /\ k \in Now[p] <=> \E y : <<p, y>> \in C
             /\ \A y, z : <<p, y>> \in C /\ <<p, z>> \in C => y = z
  <2>1. /\ Now[<<"input", c>>] = Keys(input[c]) /\ NoneTwice(input[c])
        /\ Now[<<"output", c>>] = Keys(output[c]) /\ NoneTwice(output[c])
        /\ Now[<<"received", c>>] = Keys(received[c]) /\ NoneTwice(received[c])
    BY NowFacts DEF OnePlace
  <2>2. /\ \A y : <<<<"input", c>>, y>> \in C <=> y \in 1 .. Len(input[c]) /\ Name(input[c][y]) = k
        /\ \A y : <<<<"output", c>>, y>> \in C <=> y \in 1 .. Len(output[c]) /\ Name(output[c][y]) = k
        /\ \A y : <<<<"received", c>>, y>> \in C
                     <=> y \in 1 .. Len(received[c]) /\ Name(received[c][y]) = k
    BY <1>3
  <2>3. CASE p = <<"input", c>>
    BY <1>4, <2>1, <2>2, <2>3
  <2>4. CASE p = <<"output", c>>
    BY <1>4, <2>1, <2>2, <2>4
  <2>5. CASE p = <<"received", c>>
    BY <1>4, <2>1, <2>2, <2>5
  <2> QED BY <1>6, <2>3, <2>4, <2>5
<1>7. CASE p = <<"remote">>
  <2>1. Now[<<"remote">>] = Keys(remote) /\ NoneTwice(remote)
    BY NowFacts DEF OnePlace
  <2>2. \A y : <<<<"remote">>, y>> \in C <=> y \in 1 .. Len(remote) /\ Name(remote[y]) = k
    BY <1>3
  <2> QED BY <1>4, <1>7, <2>1, <2>2 DEF C, k
<1>8. CASE p = <<"dropped">> \/ p = <<"lost">> \/ p = <<"m">>
  <2>1. /\ Now[<<"dropped">>] = KeysOf(dropped) /\ Unique(dropped)
        /\ Now[<<"lost">>] = KeysOf(lost) /\ Unique(lost)
        /\ Now[<<"m">>] = KeysOf(Hand) /\ Unique(Hand)
    BY NowFacts DEF OnePlace, Unique, Hand
  <2>2. /\ \A y : <<<<"dropped">>, y>> \in C <=> y \in dropped /\ Name(y) = k
        /\ \A y : <<<<"lost">>, y>> \in C <=> y \in lost /\ Name(y) = k
        /\ \A y : <<<<"m">>, y>> \in C <=> y \in Hand /\ Name(y) = k
    BY <1>3
  <2>3. CASE p = <<"dropped">>
    <3>1. Now[p] = KeysOf(dropped) /\ \A y : <<p, y>> \in C <=> y \in dropped /\ Name(y) = k
      BY <2>1, <2>2, <2>3
    <3> QED BY <1>5, <2>1, <3>1, Zenon DEF k, C
  <2>4. CASE p = <<"lost">>
    <3>1. Now[p] = KeysOf(lost) /\ \A y : <<p, y>> \in C <=> y \in lost /\ Name(y) = k
      BY <2>1, <2>2, <2>4
    <3> QED BY <1>5, <2>1, <3>1, Zenon DEF k, C
  <2>5. CASE p = <<"m">>
    <3>1. Now[p] = KeysOf(Hand) /\ \A y : <<p, y>> \in C <=> y \in Hand /\ Name(y) = k
      BY <2>1, <2>2, <2>5
    <3> QED BY <1>5, <2>1, <3>1, Zenon DEF k, C
  <2> QED BY <1>8, <2>3, <2>4, <2>5
<1>9. \/ \E c \in Clients : p = <<"input", c>> \/ p = <<"output", c>> \/ p = <<"received", c>>
      \/ p = <<"remote">> \/ p = <<"dropped">> \/ p = <<"lost">> \/ p = <<"m">>
  BY PlacesAre
<1> QED BY <1>6, <1>7, <1>8, <1>9 DEF C, k

LEMMA OneCopy ==
  ASSUME TInv, OnePlace, NEW sender, NEW n, <<sender, n>> \in Sent(sends, arrivals)
  PROVE  Cardinality(Copies(sender, n)) = 1
<1> DEFINE k == <<sender, n>>
           C == Copies(sender, n)
<1>1. \A e \in C : \E p \in Places : \E y : e = <<p, y>>
  <2>1. \A e \in Copies(sender, n) : \E p \in Places : \E y : e = <<p, y>>
    BY CopiesFacts
  <2> QED BY <2>1
<1>0. ASSUME NEW p \in Places
      PROVE  /\ k \in Now[p] <=> \E y : <<p, y>> \in C
             /\ \A y, z : <<p, y>> \in C /\ <<p, z>> \in C => y = z
  <2>1. /\ <<sender, n>> \in Now[p] <=> \E y : <<p, y>> \in Copies(sender, n)
        /\ \A y, z : <<p, y>> \in Copies(sender, n) /\ <<p, z>> \in Copies(sender, n) => y = z
    BY CopiesAt
  <2> QED BY <2>1, Zenon
<1>2. k \in Sent(sends, arrivals)
  OBVIOUS
<1> HIDE DEF k, C
<1>3. PICK p \in Places : k \in Now[p]
  BY <1>2 DEF OnePlace, Partition
<1>4. \A q \in Places : k \in Now[q] => q = p
  BY <1>3 DEF OnePlace, Partition
<1>5. PICK v : <<p, v>> \in C
  BY <1>0, <1>3
<1>6. ASSUME NEW e \in C PROVE e = <<p, v>>
  <2>1. PICK q \in Places : \E z : e = <<q, z>>
    BY <1>1
  <2>2. PICK z : e = <<q, z>>
    BY <2>1
  <2>3. q = p
    BY <1>0, <1>4, <2>2
  <2>4. z = v
    BY <1>0, <1>5, <2>2, <2>3
  <2> QED BY <2>2, <2>3, <2>4
<1>7. C = {<<p, v>>}
  BY <1>5, <1>6
<1> QED BY <1>7, FS_Singleton DEF C

(* Every message is in one place, once, whenever cpmd crashes and clients  *)
(* come and go, and a crash loses no more than the message in cpmd's hands.*)
THEOREM ConservationCorrect == Spec => []Conservation
<1>1. TInv /\ OnePlace /\ FewLost => Conservation
  <2> SUFFICES ASSUME TInv, OnePlace, FewLost PROVE Conservation
    OBVIOUS
  <2>1. ASSUME NEW c \in Clients, NEW n \in 1 .. sends[c]
        PROVE  Cardinality(Copies(c, n)) = 1
    <3>1. sends[c] \in Nat /\ c # NoClient
      BY ClientsAssumption DEF TInv
    <3>2. <<c, n>> \in Sent(sends, arrivals)
      BY <3>1 DEF Sent
    <3> QED BY <3>2, OneCopy
  <2>2. ASSUME NEW n \in 1 .. arrivals
        PROVE  Cardinality(Copies(NoClient, n)) = 1
    <3>1. arrivals \in Nat
      BY DEF TInv
    <3>2. <<NoClient, n>> \in Sent(sends, arrivals)
      BY <3>1 DEF Sent
    <3> QED BY <3>2, OneCopy
  <2> QED BY <2>1, <2>2 DEF Conservation, FewLost
<1>2. Init => FewLost
  BY FS_EmptySet DEF Init, FewLost
<1> QED BY <1>1, <1>2, InitPlaces, PlacesStep, FewLostStep, Typed, PTL DEF Spec
=============================================================================

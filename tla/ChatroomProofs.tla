--------------------------- MODULE ChatroomProofs ---------------------------
(***************************************************************************)
(* Proofs about Chatroom over Network, for any nodes, clients, names and    *)
(* sizes of buses and caches.                                              *)
(***************************************************************************)
EXTENDS Chatroom, SequenceTheorems, TLAPS

-----------------------------------------------------------------------------
(* What messages may say, by where they are.  Only the addresses the        *)
(* chatroom keeps occur in these sets, and it never forgets one.           *)

Words1(data) == data.type = "kMessage" => data.words \in WordsSaid

\* How a member may have been told to address the chatroom.
RoomAddresses(c) ==
  {Address(At[Room], Name[Room])}
    \cup (IF At[c] = At[Room] THEN {Address(LocalNode, Name[Room])} ELSE {})

\* What client c may have sent.
Meant(c) ==
  {m \in Messages :
     /\ m.by = c
     /\ Words1(m.data)
     /\ IF c = Room
        THEN \/ m.data.type = "kMessage" /\ \E n \in DOMAIN members : m.to = members[n]
             \/ m.data.type = "kPrivateMessage" /\ m.to = Default
        ELSE /\ m.to \in RoomAddresses(c) /\ m.data.name = Name[c]
             /\ m.data.type = "kMessage" => m.data.words.by = c}

SourceAddresses(c) == {Address(At[c], Name[c]), Address(LocalNode, Name[c])}

Stamped(m) == m \in Meant(m.by) /\ m.from \in SourceAddresses(m.by)

Between(s, d) == {m \in Messages : Stamped(m) /\ At[m.by] = s /\ m.to.node = d}

Reaching(c) ==
  {m \in Messages :
     /\ Stamped(m)
     /\ \/ m.to = Address(At[c], Name[c])
        \/ m.to = Address(LocalNode, Name[c]) /\ At[m.by] = At[c]}

Places(in, out, pend, lnk) ==
  /\ in \in [Clients -> Seq(Messages)] /\ out \in [Clients -> Seq(Messages)]
  /\ pend \in [Nodes -> [Nodes -> Seq(Messages)]] /\ lnk \in [Nodes -> [Nodes -> Seq(Messages)]]
  /\ \A c \in Clients : /\ in[c] \in Seq(Meant(c)) /\ out[c] \in Seq(Reaching(c))
                        /\ Len(in[c]) <= BusSize /\ Len(out[c]) <= BusSize
  /\ \A s, d \in Nodes : /\ pend[s][d] \in Seq(Between(s, d)) /\ lnk[s][d] \in Seq(Between(s, d))
                         /\ Len(pend[s][d]) <= kMaxCachedMessageNum

-----------------------------------------------------------------------------
(* The inductive invariant.                                                 *)

CpmdsKnow ==
  /\ self_address \in [Nodes -> Nodes \cup {LocalNode}]
  /\ \A s \in Nodes : self_address[s] \in {s, LocalNode}
  /\ clients \in [Nodes -> [Names -> Clients \cup {NoClient}]]
  /\ \A s \in Nodes, n \in Names :
       clients[s][n] # NoClient => At[clients[s][n]] = s /\ Name[clients[s][n]] = n

\* Under a name the chatroom keeps an address of a member of this name.
MembersRegistered ==
  /\ DOMAIN members \subseteq Names
  /\ \A n \in DOMAIN members :
       \E c \in Members : Name[c] = n /\ members[n] \in SourceAddresses(c)

Turns ==
  /\ turn \in [left : SUBSET DOMAIN members, reply : Chats]
  /\ turn.left # {} => turn.reply.type \in {"kMessage", "kPrivateMessage"} /\ Words1(turn.reply)

Programs ==
  /\ program \in [Clients -> {"start", "register", "loop", "exit"}]
  /\ said \in [Members -> Nat] /\ \A c \in Members : said[c] <= MaxSaid[c]
  /\ spoken \in Seq(WordsSaid) /\ heard \in [Members -> Seq(WordsSaid)]

IInv == CpmdsKnow /\ MembersRegistered /\ Turns /\ Programs /\ HeardByMembers
        /\ Places(input, output, pending, link)

\* What the clients were given does not change.
Given == by_name \subseteq Neighbours

-----------------------------------------------------------------------------
(* Addresses and messages.                                                  *)

LEMMA NameFacts ==
  ASSUME NEW c \in Clients
  PROVE  /\ At[c] \in Nodes /\ Name[c] \in Names /\ Name[c] \in Nat \ {0}
         /\ At[c] # LocalNode
         /\ Address(At[c], Name[c]) \in Addresses /\ Address(LocalNode, Name[c]) \in Addresses
         /\ SourceAddresses(c) \subseteq Addresses
<1>1. At[c] \in Nodes /\ Name[c] \in Names /\ Name[c] \in Nat \ {0} /\ At[c] # LocalNode
  BY NetworkAssumption DEF Names
<1> QED BY <1>1 DEF Address, Addresses, SourceAddresses

LEMMA AddressFacts ==
  /\ \A c : RoomAddresses(c) \subseteq Addresses
  /\ Default \in Addresses /\ Room \in Clients
  /\ \A s, t, n, k : Address(s, n) = Address(t, k) <=> s = t /\ n = k
  /\ \A s, n : Address(s, n).node = s /\ Address(s, n).client = n
  /\ \A a \in Addresses : a = Address(a.node, a.client) /\ a.node \in Nodes \cup {LocalNode}
                          /\ a.client \in Names \cup {0}
<1>1. Room \in Clients
  BY RoomAssumption
<1>2. \A c : RoomAddresses(c) \subseteq Addresses
  BY <1>1, NameFacts DEF RoomAddresses
<1>3. Default \in Addresses
  BY DEF Default, Addresses, Address
<1>4. ASSUME NEW s, NEW t, NEW n, NEW k PROVE Address(s, n) = Address(t, k) <=> s = t /\ n = k
  BY DEF Address
<1>5. ASSUME NEW s, NEW n PROVE Address(s, n).node = s /\ Address(s, n).client = n
  BY DEF Address
<1>6. ASSUME NEW a \in Addresses
      PROVE  a = Address(a.node, a.client) /\ a.node \in Nodes \cup {LocalNode}
             /\ a.client \in Names \cup {0}
  BY DEF Address, Addresses
<1> QED BY <1>1, <1>2, <1>3, <1>4, <1>5, <1>6

LEMMA GivenFacts ==
  ASSUME Given, NEW c \in Members
  PROVE  RoomAddress(c) \in RoomAddresses(c) /\ RoomAddress(c) \in Addresses
BY AddressFacts DEF Given, Neighbours, RoomAddress, RoomAddresses

\* Every set of messages holds messages.
LEMMA SubsetFacts ==
  /\ \A c : Meant(c) \subseteq Messages
  /\ \A s, d : Between(s, d) \subseteq Messages
  /\ \A c : Reaching(c) \subseteq Messages
BY DEF Meant, Between, Reaching

LEMMA MessageFacts ==
  ASSUME NEW m \in Messages
  PROVE  /\ m.by \in Clients /\ m.from \in Addresses /\ m.to \in Addresses /\ m.data \in Chats
         /\ m.data.words \in WordsSaid \cup {Nothing}
         /\ m.data.name \in Names \cup {0} /\ m.data.to_name \in Names \cup {0}
<1>1. m.by \in Clients /\ m.from \in Addresses /\ m.to \in Addresses /\ m.data \in Chats
  BY DEF Messages
<1> QED BY <1>1 DEF Chats

\* Where no member is forgotten or changed, nothing said before becomes wrong.
MembersGrow ==
  /\ DOMAIN members \subseteq DOMAIN members'
  /\ \A n \in DOMAIN members : members'[n] = members[n]

LEMMA SetsGrow ==
  ASSUME MembersGrow
  PROVE  /\ \A c : Meant(c) \subseteq Meant(c)'
         /\ \A s, d : Between(s, d) \subseteq Between(s, d)'
         /\ \A c : Reaching(c) \subseteq Reaching(c)'
<1>1. ASSUME NEW c PROVE Meant(c) \subseteq Meant(c)'
  BY DEF Meant, MembersGrow
<1>2. ASSUME NEW m, Stamped(m) PROVE Stamped(m)'
  BY <1>1, <1>2 DEF Stamped
<1> QED BY <1>1, <1>2 DEF Between, Reaching

LEMMA PlacesGrow ==
  ASSUME MembersGrow, Places(input', output', pending', link')
  PROVE  Places(input, output, pending, link)'
<1>1. ASSUME NEW c \in Clients
      PROVE  input'[c] \in Seq(Meant(c)') /\ output'[c] \in Seq(Reaching(c)')
  BY SetsGrow, SeqMonotonic DEF Places
<1>2. ASSUME NEW s \in Nodes, NEW d \in Nodes
      PROVE  pending'[s][d] \in Seq(Between(s, d)') /\ link'[s][d] \in Seq(Between(s, d)')
  BY SetsGrow, SeqMonotonic DEF Places
<1> QED BY <1>1, <1>2 DEF Places

-----------------------------------------------------------------------------
(* The network.                                                             *)

LEMMA PushKeeps ==
  ASSUME NEW S, NEW q \in Seq(S), NEW m \in S, NEW max \in Nat \ {0}, Len(q) <= max
  PROVE  Push(q, m, max) \in Seq(S) /\ Len(Push(q, m, max)) <= max
<1>1. CASE Full(q, max)
  <2>1. q # <<>> /\ Len(q) = max
    BY <1>1, EmptySeq DEF Full
  <2>2. Tail(q) \in Seq(S) /\ Len(Tail(q)) = max - 1
    BY <2>1, HeadTailProperties
  <2> QED BY <1>1, <2>2, AppendProperties DEF Push
<1>2. CASE ~Full(q, max)
  <2>1. Len(q) < max
    BY <1>2, LenProperties DEF Full
  <2> QED BY <1>2, <2>1, AppendProperties, LenProperties DEF Push
<1> QED BY <1>1, <1>2

\* A bus or a link of which the head is taken.
LEMMA TailKeeps ==
  ASSUME NEW S, NEW q \in Seq(S), q # <<>>
  PROVE  Head(q) \in S /\ Tail(q) \in Seq(S) /\ Len(Tail(q)) <= Len(q)
BY HeadTailProperties, LenProperties

\* What HandleBusMessage has in hands: a message of c under c's own address.
LEMMA TakenFacts ==
  ASSUME IInv, NEW c \in Clients, Take(c)
  PROVE  /\ Taken(c) \in Messages /\ Stamped(Taken(c)) /\ Taken(c).by = c
         /\ Head(input[c]) \in Meant(c)
         /\ Taken(c) = [Head(input[c]) EXCEPT !.from = Address(self_address[At[c]], Name[c])]
<1> DEFINE h == Head(input[c])
<1>1. input[c] \in Seq(Meant(c)) /\ input[c] # <<>>
  BY DEF IInv, Places, Take
<1>2. h \in Meant(c) /\ h \in Messages /\ h.by = c
  BY <1>1, TailKeeps, SubsetFacts DEF Meant
<1>3. Taken(c) = [h EXCEPT !.from = Address(self_address[At[c]], Name[c])]
  BY DEF Taken, Stamp
<1>4. Address(self_address[At[c]], Name[c]) \in SourceAddresses(c)
  BY NameFacts DEF IInv, CpmdsKnow, SourceAddresses
<1> HIDE DEF h
<1>5. /\ Taken(c) \in Messages /\ Taken(c).by = c /\ Taken(c).to = h.to /\ Taken(c).data = h.data
      /\ Taken(c).from \in SourceAddresses(c)
  BY <1>2, <1>3, <1>4, NameFacts DEF Messages
<1>6. Taken(c) \in Meant(c)
  BY <1>2, <1>5 DEF Meant
<1> QED BY <1>2, <1>3, <1>5, <1>6 DEF Stamped, h

\* Places after the head of a client's bus was taken.
LEMMA TakeKeeps ==
  ASSUME IInv, NEW c \in Clients, Take(c)
  PROVE  Places(input', output, pending, link)
<1> DEFINE q == Tail(input[c])
<1>1. /\ input \in [Clients -> Seq(Messages)] /\ input[c] \in Seq(Meant(c)) /\ input[c] # <<>>
      /\ Len(input[c]) <= BusSize /\ input' = [input EXCEPT ![c] = q]
  BY DEF IInv, Places, Take
<1>2. q \in Seq(Meant(c)) /\ q \in Seq(Messages) /\ Len(q) <= BusSize
  <2>1. q \in Seq(Meant(c)) /\ Len(q) = Len(input[c]) - 1 /\ Len(input[c]) \in Nat
    BY <1>1, HeadTailProperties, LenProperties
  <2> QED BY <1>1, <2>1, SubsetFacts, SeqMonotonic, NetworkAssumption
<1> HIDE DEF q
<1>3. input' \in [Clients -> Seq(Messages)]
  BY <1>1, <1>2
<1>4. ASSUME NEW k \in Clients PROVE input'[k] \in Seq(Meant(k)) /\ Len(input'[k]) <= BusSize
  BY <1>1, <1>2 DEF IInv, Places
<1> QED BY <1>3, <1>4 DEF IInv, Places

\* Places after a message for a client of node s was put in its bus.
LEMMA ForwardKeeps ==
  ASSUME CpmdsKnow, NEW in, NEW pend, NEW lnk, Places(in, output, pend, lnk),
         NEW s \in Nodes, NEW m \in Messages, Stamped(m), Forward(s, m),
         m.to.node = s \/ (m.to.node = LocalNode /\ At[m.by] = s)
  PROVE  Places(in, output', pend, lnk)
<1> DEFINE c == IF m.to.client \in Names THEN clients[s][m.to.client] ELSE NoClient
<1>1. CASE c # NoClient /\ Fits(output, c)
  <2>1. m.to.client \in Names /\ c = clients[s][m.to.client]
    BY <1>1
  <2>2. c \in Clients /\ At[c] = s /\ Name[c] = m.to.client
    BY <1>1, <2>1 DEF CpmdsKnow
  <2>3. output' = [output EXCEPT ![c] = Append(@, m)]
    BY <1>1 DEF Forward
  <2> HIDE DEF c
  <2>4. m \in Reaching(c)
    BY <2>2, AddressFacts, MessageFacts DEF Reaching
  <2>5. /\ output \in [Clients -> Seq(Messages)] /\ output[c] \in Seq(Reaching(c))
        /\ Len(output[c]) \in Nat /\ Len(output[c]) < BusSize
    BY <1>1, <2>2, LenProperties DEF Places, Fits
  <2> DEFINE q == Append(output[c], m)
  <2>6. q \in Seq(Reaching(c)) /\ Len(q) = Len(output[c]) + 1
    BY <2>4, <2>5, AppendProperties
  <2>7. q \in Seq(Messages) /\ Len(q) <= BusSize
    BY <2>5, <2>6, SubsetFacts, SeqMonotonic, NetworkAssumption
  <2> HIDE DEF q
  <2>8. output' = [output EXCEPT ![c] = q]
    BY <2>2, <2>3, <2>5 DEF q
  <2>9. output' \in [Clients -> Seq(Messages)]
    BY <2>2, <2>5, <2>7, <2>8
  <2>10. ASSUME NEW k \in Clients PROVE output'[k] \in Seq(Reaching(k)) /\ Len(output'[k]) <= BusSize
    BY <2>2, <2>5, <2>6, <2>7, <2>8 DEF Places
  <2> QED BY <2>9, <2>10 DEF Places
<1>2. CASE ~(c # NoClient /\ Fits(output, c))
  <2>1. output' = output
    BY <1>2 DEF Forward
  <2> QED BY <2>1
<1> QED BY <1>1, <1>2

\* Places after the messages to node d that s kept or wrote changed.
LEMMA RemoteKeeps ==
  ASSUME NEW in, NEW out, NEW pend, NEW lnk, Places(in, out, pend, lnk),
         NEW s \in Nodes, NEW d \in Nodes,
         NEW p \in Seq(Between(s, d)), NEW l \in Seq(Between(s, d)), Len(p) <= kMaxCachedMessageNum
  PROVE  Places(in, out, [pend EXCEPT ![s][d] = p], [lnk EXCEPT ![s][d] = l])
<1> DEFINE pend1 == [pend EXCEPT ![s][d] = p]
           lnk1 == [lnk EXCEPT ![s][d] = l]
<1>1. p \in Seq(Messages) /\ l \in Seq(Messages)
  BY SubsetFacts, SeqMonotonic
<1>2. pend1 \in [Nodes -> [Nodes -> Seq(Messages)]] /\ lnk1 \in [Nodes -> [Nodes -> Seq(Messages)]]
  BY <1>1 DEF Places
<1>3. ASSUME NEW t \in Nodes, NEW e \in Nodes
      PROVE  /\ pend1[t][e] \in Seq(Between(t, e)) /\ lnk1[t][e] \in Seq(Between(t, e))
             /\ Len(pend1[t][e]) <= kMaxCachedMessageNum
  <2>1. pend1[t][e] = (IF t = s /\ e = d THEN p ELSE pend[t][e])
    BY DEF Places
  <2>2. lnk1[t][e] = (IF t = s /\ e = d THEN l ELSE lnk[t][e])
    BY DEF Places
  <2> QED BY <2>1, <2>2 DEF Places
<1> HIDE DEF pend1, lnk1
<1>4. Places(in, out, pend1, lnk1)
  BY <1>2, <1>3 DEF Places
<1> QED BY <1>4 DEF pend1, lnk1

\* The same, where nothing else than the messages to one node changed.
LEMMA LinkKeeps ==
  ASSUME NEW in, NEW out, NEW pend, NEW lnk, Places(in, out, pend, lnk),
         NEW s \in Nodes, NEW d \in Nodes, NEW l \in Seq(Between(s, d))
  PROVE  Places(in, out, pend, [lnk EXCEPT ![s][d] = l])
<1>1. /\ pend[s][d] \in Seq(Between(s, d)) /\ Len(pend[s][d]) <= kMaxCachedMessageNum
      /\ [pend EXCEPT ![s][d] = pend[s][d]] = pend
  BY DEF Places
<1>2. Places(in, out, [pend EXCEPT ![s][d] = pend[s][d]], [lnk EXCEPT ![s][d] = l])
  BY <1>1, RemoteKeeps
<1> QED BY <1>1, <1>2

\* A step of the network keeps what is said where and what cpmds know.
LEMMA LocalStep ==
  ASSUME IInv, NEW c \in Clients, HandleToLocalMessage(c)
  PROVE  Places(input', output', pending', link') /\ CpmdsKnow'
<1>1. CpmdsKnow /\ Take(c) /\ At[c] \in Nodes
  BY NameFacts DEF IInv, HandleToLocalMessage
<1>2. Taken(c) \in Messages /\ Stamped(Taken(c)) /\ At[Taken(c).by] = At[c]
  BY <1>1, TakenFacts
<1>3. Taken(c).to.node \in {At[c], LocalNode}
  BY <1>1 DEF HandleToLocalMessage, IsLocal, CpmdsKnow
<1>4. Places(input', output', pending, link)
  BY <1>1, <1>2, <1>3, TakeKeeps, ForwardKeeps DEF HandleToLocalMessage
<1> QED BY <1>1, <1>4 DEF HandleToLocalMessage, CpmdsKnow

LEMMA RemoteStep ==
  ASSUME IInv, NEW c \in Clients, HandleToRemoteMessage(c)
  PROVE  Places(input', output', pending', link') /\ CpmdsKnow'
<1> DEFINE s == At[c]
           m == Taken(c)
           d == m.to.node
<1>1. CpmdsKnow /\ Take(c) /\ s \in Nodes /\ ~IsLocal(s, m)
      /\ UNCHANGED <<self_address, clients, output>>
  BY NameFacts DEF IInv, HandleToRemoteMessage
<1>2. m \in Messages /\ Stamped(m) /\ At[m.by] = s
  BY <1>1, TakenFacts
<1>3. d \in Nodes
  BY <1>1, <1>2, MessageFacts, AddressFacts DEF IsLocal
<1>4. m \in Between(s, d)
  BY <1>2 DEF Between
<1>5. Places(input', output, pending, link)
  BY <1>1, TakeKeeps
<1>6. pending[s][d] \in Seq(Between(s, d)) /\ link[s][d] \in Seq(Between(s, d))
      /\ Len(pending[s][d]) <= kMaxCachedMessageNum
      /\ pending \in [Nodes -> [Nodes -> Seq(Messages)]]
      /\ link \in [Nodes -> [Nodes -> Seq(Messages)]]
  BY <1>1, <1>3, <1>5 DEF Places
<1>7. \/ link' = [link EXCEPT ![s][d] = Append(@, m)] /\ pending' = pending
      \/ pending' = [pending EXCEPT ![s][d] = Push(@, m, kMaxCachedMessageNum)] /\ link' = link
  BY DEF HandleToRemoteMessage
<1> HIDE DEF s, d, m
<1>8. CASE link' = [link EXCEPT ![s][d] = Append(@, m)] /\ pending' = pending
  <2> DEFINE l == Append(link[s][d], m)
  <2>1. l \in Seq(Between(s, d))
    BY <1>4, <1>6, AppendProperties
  <2>2. link' = [link EXCEPT ![s][d] = l]
    BY <1>8
  <2> HIDE DEF l
  <2>3. Places(input', output, pending, link')
    BY <1>1, <1>3, <1>5, <2>1, <2>2, LinkKeeps
  <2> QED BY <1>1, <1>8, <2>3 DEF CpmdsKnow
<1>9. CASE pending' = [pending EXCEPT ![s][d] = Push(@, m, kMaxCachedMessageNum)] /\ link' = link
  <2> DEFINE p == Push(pending[s][d], m, kMaxCachedMessageNum)
  <2>1. p \in Seq(Between(s, d)) /\ Len(p) <= kMaxCachedMessageNum
    BY <1>4, <1>6, PushKeeps, NetworkAssumption
  <2>2. pending' = [pending EXCEPT ![s][d] = p] /\ link' = [link EXCEPT ![s][d] = link[s][d]]
    BY <1>6, <1>9
  <2> HIDE DEF p
  <2>3. Places(input', output, pending', link')
    BY <1>1, <1>3, <1>5, <1>6, <2>1, <2>2, RemoteKeeps
  <2> QED BY <1>1, <2>3 DEF CpmdsKnow
<1> QED BY <1>1, <1>7, <1>8, <1>9 DEF CpmdsKnow

LEMMA OnDemandStep ==
  ASSUME IInv, NEW c \in Clients, ConnectOnDemand(c)
  PROVE  Places(input', output', pending', link') /\ CpmdsKnow'
<1>1. CpmdsKnow /\ Take(c)
  BY DEF IInv, ConnectOnDemand
<1> QED BY <1>1, TakeKeeps DEF ConnectOnDemand, CpmdsKnow

LEMMA SelfAddressStep ==
  ASSUME IInv, NEW s \in Nodes, UpdateSelfAddress(s)
  PROVE  Places(input', output', pending', link') /\ CpmdsKnow'
<1>1. CpmdsKnow /\ Places(input, output, pending, link)
  BY DEF IInv
<1>2. CpmdsKnow'
  BY <1>1 DEF UpdateSelfAddress, CpmdsKnow
<1> QED BY <1>1, <1>2 DEF UpdateSelfAddress

LEMMA FlushStep ==
  ASSUME IInv, NEW s \in Nodes, NEW d \in Nodes, FlushMessage(s, d)
  PROVE  Places(input', output', pending', link') /\ CpmdsKnow'
<1> DEFINE l == link[s][d] \o pending[s][d]
<1>1. CpmdsKnow /\ Places(input, output, pending, link)
  BY DEF IInv
<1>2. l \in Seq(Between(s, d)) /\ <<>> \in Seq(Between(s, d)) /\ Len(<<>>) <= kMaxCachedMessageNum
  BY <1>1, ConcatProperties, EmptySeq, NetworkAssumption DEF Places
<1>3. /\ pending' = [pending EXCEPT ![s][d] = <<>>] /\ link' = [link EXCEPT ![s][d] = l]
      /\ UNCHANGED <<self_address, clients, input, output>>
  BY DEF FlushMessage
<1> HIDE DEF l
<1>4. Places(input, output, pending', link')
  BY <1>1, <1>2, <1>3, RemoteKeeps
<1> QED BY <1>1, <1>3, <1>4 DEF CpmdsKnow

LEMMA HandleRemoteStep ==
  ASSUME IInv, NEW s \in Nodes, NEW d \in Nodes, HandleRemoteMessage(s, d)
  PROVE  Places(input', output', pending', link') /\ CpmdsKnow'
<1> DEFINE m == Head(link[s][d])
           l == Tail(link[s][d])
<1>1. CpmdsKnow /\ Places(input, output, pending, link)
  BY DEF IInv
<1>2. m \in Between(s, d) /\ l \in Seq(Between(s, d))
  BY <1>1, TailKeeps DEF Places, HandleRemoteMessage
<1>3. /\ Forward(d, m) /\ link' = [link EXCEPT ![s][d] = l]
      /\ UNCHANGED <<self_address, clients, input, pending>>
  BY DEF HandleRemoteMessage
<1> HIDE DEF m, l
<1>4. m \in Messages /\ Stamped(m) /\ m.to.node = d
  BY <1>2 DEF Between
<1>5. Places(input, output', pending, link)
  BY <1>1, <1>3, <1>4, ForwardKeeps
<1>6. Places(input, output', pending, link')
  BY <1>2, <1>3, <1>5, LinkKeeps
<1> QED BY <1>1, <1>3, <1>6 DEF CpmdsKnow

LEMMA RefuseStep ==
  ASSUME IInv, NEW s \in Nodes, NEW d \in Nodes, RefuseRemoteMessage(s, d)
  PROVE  Places(input', output', pending', link') /\ CpmdsKnow'
<1>1. CpmdsKnow /\ Places(input, output, pending, link)
  BY DEF IInv
<1>2. link[s][d] \in Seq(Between(s, d)) /\ Len(link[s][d]) \in Nat
  BY <1>1, LenProperties DEF Places
<1>3. PICK k \in 1 .. Len(link[s][d]) : link' = [link EXCEPT ![s][d] = SubSeq(link[s][d], 2, k)]
  BY DEF RefuseRemoteMessage
<1> DEFINE l == SubSeq(link[s][d], 2, k)
<1>4. l \in Seq(Between(s, d))
  <2>1. k \in Int /\ 2 \in Int /\ \A i \in 2 .. k : i \in 1 .. Len(link[s][d])
    BY <1>2
  <2>2. \A i \in 2 .. k : link[s][d][i] \in Between(s, d)
    BY <1>2, <2>1, ElementOfSeq
  <2> QED BY <2>1, <2>2, SubSeqProperties
<1>5. link' = [link EXCEPT ![s][d] = l]
  BY <1>3
<1> HIDE DEF l
<1> QED BY <1>1, <1>4, <1>5, LinkKeeps DEF RefuseRemoteMessage, CpmdsKnow

LEMMA BreakStep ==
  ASSUME IInv, NEW s \in Nodes, NEW d \in Nodes, LinkBreaks(s, d)
  PROVE  Places(input', output', pending', link') /\ CpmdsKnow'
<1>1. CpmdsKnow /\ Places(input, output, pending, link)
  BY DEF IInv
<1>2. <<>> \in Seq(Between(s, d))
  BY EmptySeq
<1> QED BY <1>1, <1>2, LinkKeeps DEF LinkBreaks, CpmdsKnow

LEMMA NetStep ==
  ASSUME IInv, NetNext, UNCHANGED chatVars
  PROVE  IInv'
<1>1. Places(input', output', pending', link') /\ CpmdsKnow'
  <2>1. ASSUME NEW c \in Clients,
               HandleToLocalMessage(c) \/ HandleToRemoteMessage(c) \/ ConnectOnDemand(c)
        PROVE  Places(input', output', pending', link') /\ CpmdsKnow'
    BY <2>1, LocalStep, RemoteStep, OnDemandStep
  <2>2. ASSUME NEW s \in Nodes, UpdateSelfAddress(s)
        PROVE  Places(input', output', pending', link') /\ CpmdsKnow'
    BY <2>2, SelfAddressStep
  <2>3. ASSUME NEW s \in Nodes, NEW d \in Nodes,
               FlushMessage(s, d) \/ HandleRemoteMessage(s, d) \/ RefuseRemoteMessage(s, d)
                 \/ LinkBreaks(s, d)
        PROVE  Places(input', output', pending', link') /\ CpmdsKnow'
    BY <2>3, FlushStep, HandleRemoteStep, RefuseStep, BreakStep
  <2> QED BY <2>1, <2>2, <2>3 DEF NetNext
<1>2. MembersGrow
  BY DEF chatVars, MembersGrow
<1>3. Places(input, output, pending, link)'
  BY <1>1, <1>2, PlacesGrow
<1>4. MembersRegistered' /\ Turns' /\ Programs' /\ HeardByMembers'
  BY DEF IInv, chatVars, MembersRegistered, Turns, Programs, HeardByMembers
<1> QED BY <1>1, <1>3, <1>4 DEF IInv

-----------------------------------------------------------------------------
(* What clients call.                                                       *)

LEMMA SendKeeps ==
  ASSUME IInv, NEW c \in Clients, NEW to \in Addresses, NEW data \in Chats,
         SendMessage(c, to, data), Message(c, to, data) \in Meant(c)
  PROVE  Places(input', output', pending', link') /\ CpmdsKnow'
<1> DEFINE m == Message(c, to, data)
           q == Append(input[c], m)
<1>1. CpmdsKnow /\ Places(input, output, pending, link)
      /\ UNCHANGED <<self_address, clients, output, pending, link>>
      /\ input' = [input EXCEPT ![c] = Append(@, m)] /\ Fits(input, c)
  BY DEF IInv, SendMessage
<1>2. /\ m \in Meant(c) /\ input[c] \in Seq(Meant(c)) /\ Len(input[c]) \in Nat
      /\ Len(input[c]) < BusSize
  BY <1>1, LenProperties DEF Places, Fits
<1> HIDE DEF m
<1>3. q \in Seq(Meant(c)) /\ Len(q) = Len(input[c]) + 1
  BY <1>2, AppendProperties
<1>4. q \in Seq(Messages) /\ Len(q) <= BusSize
  BY <1>2, <1>3, SubsetFacts, SeqMonotonic, NetworkAssumption
<1>5. input' = [input EXCEPT ![c] = q]
  BY <1>1
<1> HIDE DEF q
<1>6. input' \in [Clients -> Seq(Messages)]
  BY <1>1, <1>4, <1>5 DEF Places
<1>7. ASSUME NEW k \in Clients PROVE input'[k] \in Seq(Meant(k)) /\ Len(input'[k]) <= BusSize
  BY <1>1, <1>3, <1>4, <1>5 DEF Places
<1>8. Places(input', output, pending, link)
  BY <1>1, <1>6, <1>7 DEF Places
<1> QED BY <1>1, <1>8 DEF CpmdsKnow

LEMMA ReceiveKeeps ==
  ASSUME IInv, NEW c \in Clients, ReceiveMessage(c)
  PROVE  /\ Places(input', output', pending', link') /\ CpmdsKnow'
         /\ Head(output[c]) \in Reaching(c)
<1> DEFINE q == Tail(output[c])
<1>1. CpmdsKnow /\ Places(input, output, pending, link)
      /\ UNCHANGED <<self_address, clients, input, pending, link>>
      /\ output' = [output EXCEPT ![c] = q] /\ output[c] # <<>>
  BY DEF IInv, ReceiveMessage
<1>2. output[c] \in Seq(Reaching(c)) /\ Len(output[c]) <= BusSize
  BY <1>1 DEF Places
<1>3. /\ q \in Seq(Reaching(c)) /\ Len(q) = Len(output[c]) - 1 /\ Len(output[c]) \in Nat
      /\ Head(output[c]) \in Reaching(c)
  BY <1>1, <1>2, HeadTailProperties, LenProperties
<1>4. q \in Seq(Messages) /\ Len(q) <= BusSize
  BY <1>2, <1>3, SubsetFacts, SeqMonotonic, NetworkAssumption
<1> HIDE DEF q
<1>6. output' \in [Clients -> Seq(Messages)]
  BY <1>1, <1>4 DEF Places
<1>7. ASSUME NEW k \in Clients PROVE output'[k] \in Seq(Reaching(k)) /\ Len(output'[k]) <= BusSize
  BY <1>1, <1>3, <1>4 DEF Places
<1>8. Places(input, output', pending, link)
  BY <1>1, <1>6, <1>7 DEF Places
<1> QED BY <1>1, <1>3, <1>8 DEF CpmdsKnow

\* A message of a member, whatever it says.
LEMMA MemberSends ==
  ASSUME IInv, Given, NEW c \in Members, NEW data \in Chats, data.name = Name[c], Words1(data),
         data.type = "kMessage" => data.words.by = c,
         SendMessage(c, RoomAddress(c), data)
  PROVE  Places(input', output', pending', link') /\ CpmdsKnow'
<1>1. c \in Clients /\ c # Room
  BY DEF Members
<1> DEFINE m == Message(c, RoomAddress(c), data)
<1>2. m \in Messages /\ m.by = c /\ m.to = RoomAddress(c) /\ m.data = data
  BY <1>1, AddressFacts, GivenFacts DEF Message, Messages
<1> HIDE DEF m
<1>3. m \in Meant(c)
  BY <1>1, <1>2, GivenFacts DEF Meant
<1> QED BY <1>1, <1>3, SendKeeps, GivenFacts DEF m

\* What is left of the invariant where the chatroom does nothing.
LEMMA RestKeeps ==
  ASSUME IInv, Places(input', output', pending', link') /\ CpmdsKnow', Programs', HeardByMembers',
         UNCHANGED <<members, turn>>
  PROVE  IInv'
<1>1. MembersGrow /\ MembersRegistered' /\ Turns'
  BY DEF IInv, MembersGrow, MembersRegistered, Turns
<1>2. Places(input, output, pending, link)'
  BY <1>1, PlacesGrow
<1> QED BY <1>1, <1>2 DEF IInv

-----------------------------------------------------------------------------
(* The programs.                                                            *)

LEMMA ChatFacts ==
  /\ Nothing \in WordsSaid \cup {Nothing}
  /\ \A c \in Members : /\ Chat("kRegister", Name[c], 0, Nothing) \in Chats
                        /\ \A n \in Nat \ {0} : /\ Chat("kMessage", Name[c], 0, Words(c, n)) \in Chats
                                                /\ Words(c, n) \in WordsSaid
                        /\ OtherData(c) \subseteq Chats
<1>1. ASSUME NEW c \in Members PROVE c \in Clients /\ Name[c] \in Names \cup {0}
  BY NameFacts DEF Members
<1>2. ASSUME NEW c \in Members, NEW n \in Nat \ {0} PROVE Words(c, n) \in WordsSaid
  BY DEF Words, WordsSaid
<1>3. ASSUME NEW c \in Members, NEW n \in Nat \ {0}
      PROVE  Chat("kMessage", Name[c], 0, Words(c, n)) \in Chats
  BY <1>1, <1>2 DEF Chat, Chats
<1>4. ASSUME NEW c \in Members PROVE Chat("kRegister", Name[c], 0, Nothing) \in Chats
  BY <1>1 DEF Chat, Chats
<1>5. ASSUME NEW c \in Members PROVE OtherData(c) \subseteq Chats
  BY <1>1 DEF OtherData, Chat, Chats
<1> QED BY <1>2, <1>3, <1>4, <1>5

LEMMA StartStep ==
  ASSUME IInv, NEW c \in Clients, Start(c)
  PROVE  IInv'
<1>1. CpmdsKnow /\ Places(input, output, pending, link)
      /\ clients' = [clients EXCEPT ![At[c]][Name[c]] = c]
      /\ UNCHANGED <<self_address, input, output, pending, link, members, turn, said, spoken, heard>>
  BY DEF IInv, Start, Create
<1>2. CpmdsKnow'
  <2>1. At[c] \in Nodes /\ Name[c] \in Names
    BY NameFacts
  <2>2. clients' \in [Nodes -> [Names -> Clients \cup {NoClient}]]
    BY <1>1, <2>1 DEF CpmdsKnow
  <2>3. ASSUME NEW s \in Nodes, NEW n \in Names
        PROVE  clients'[s][n] = IF s = At[c] /\ n = Name[c] THEN c ELSE clients[s][n]
    BY <1>1, <2>1 DEF CpmdsKnow
  <2> QED BY <1>1, <2>1, <2>2, <2>3 DEF CpmdsKnow
<1>3. Programs'
  BY <1>1 DEF IInv, Start, GoesOn, Programs
<1>4. HeardByMembers'
  BY <1>1 DEF IInv, HeardByMembers
<1> QED BY <1>1, <1>2, <1>3, <1>4, RestKeeps

LEMMA RegisterStep ==
  ASSUME IInv, Given, NEW c \in Members, Register(c)
  PROVE  IInv'
<1> DEFINE data == Chat("kRegister", Name[c], 0, Nothing)
<1>1. data \in Chats /\ data.name = Name[c] /\ Words1(data) /\ data.type # "kMessage"
  BY ChatFacts DEF Chat, Words1
<1>2. Places(input', output', pending', link') /\ CpmdsKnow'
  BY <1>1, MemberSends DEF Register
<1>3. Programs' /\ HeardByMembers'
  BY DEF IInv, Register, GoesOn, Programs, HeardByMembers
<1> QED BY <1>2, <1>3, RestKeeps DEF Register

LEMMA SaidFacts ==
  ASSUME IInv, NEW c \in Members, said[c] < MaxSaid[c] \/ said[c] < MaxOther[c],
         said' = [said EXCEPT ![c] = @ + 1], UNCHANGED <<program, spoken, heard>>
  PROVE  Programs' /\ said'[c] \in Nat \ {0}
<1>1. /\ said \in [Members -> Nat] /\ MaxSaid[c] \in Nat /\ MaxOther[c] \in Nat
      /\ MaxOther[c] <= MaxSaid[c] /\ said[c] \in Nat
  BY RoomAssumption DEF IInv, Programs, Members
<1>2. said'[c] = said[c] + 1 /\ said' \in [Members -> Nat] /\ said'[c] <= MaxSaid[c]
  BY <1>1
<1>3. \A k \in Members : said'[k] <= MaxSaid[k]
  BY <1>1, <1>2 DEF IInv, Programs
<1> QED BY <1>1, <1>2, <1>3 DEF IInv, Programs

LEMMA SayStep ==
  ASSUME IInv, Given, NEW c \in Members, Say(c)
  PROVE  IInv'
<1> DEFINE data == Chat("kMessage", Name[c], 0, Words(c, said'[c]))
<1>1. Programs' /\ said'[c] \in Nat \ {0}
  BY SaidFacts DEF Say
<1>2. data \in Chats /\ data.name = Name[c] /\ Words1(data) /\ data.words.by = c
  <2>1. Words(c, said'[c]) \in WordsSaid /\ data \in Chats
    BY <1>1, ChatFacts
  <2> QED BY <2>1 DEF Chat, Words, Words1
<1>3. Places(input', output', pending', link') /\ CpmdsKnow'
  BY <1>2, MemberSends DEF Say
<1>4. HeardByMembers'
  BY DEF IInv, Say, HeardByMembers
<1> QED BY <1>1, <1>3, <1>4, RestKeeps DEF Say

LEMMA SayOtherStep ==
  ASSUME IInv, Given, NEW c \in Members, NEW data \in OtherData(c), SayOther(c, data)
  PROVE  IInv'
<1>1. Programs'
  BY SaidFacts DEF SayOther
<1>2. data \in Chats /\ data.name = Name[c] /\ Words1(data) /\ data.type # "kMessage"
  <2>1. data \in Chats
    BY ChatFacts
  <2>2. data.name = Name[c] /\ data.type # "kMessage"
    BY DEF OtherData, Chat
  <2> QED BY <2>1, <2>2 DEF Words1
<1>3. Places(input', output', pending', link') /\ CpmdsKnow'
  BY <1>2, MemberSends DEF SayOther
<1>4. HeardByMembers'
  BY DEF IInv, SayOther, HeardByMembers
<1> QED BY <1>1, <1>3, <1>4, RestKeeps DEF SayOther

LEMMA SayFailsStep ==
  ASSUME IInv, NEW c \in Members, SayFails(c)
  PROVE  IInv'
<1>1. Places(input', output', pending', link') /\ CpmdsKnow'
  BY DEF IInv, SayFails, netVars, CpmdsKnow
<1>2. Programs' /\ HeardByMembers'
  BY DEF IInv, SayFails, GoesOn, Programs, HeardByMembers
<1> QED BY <1>1, <1>2, RestKeeps DEF SayFails

LEMMA BroadcastFailsStep ==
  ASSUME IInv, BroadcastFails
  PROVE  IInv'
<1>1. Places(input', output', pending', link') /\ CpmdsKnow'
  BY DEF IInv, BroadcastFails, netVars, CpmdsKnow
<1>2. Programs' /\ HeardByMembers'
  BY DEF IInv, BroadcastFails, GoesOn, Programs, HeardByMembers
<1> QED BY <1>1, <1>2, RestKeeps DEF BroadcastFails

\* Words in the bus of a member were told it by the chatroom, under the name
\* it keeps for it.
LEMMA HeardFacts ==
  ASSUME IInv, NEW c \in Members, NEW m \in Reaching(c), m.data.type = "kMessage"
  PROVE  /\ m.data.words \in WordsSaid /\ m.by = Room /\ m.to = members[Name[c]]
         /\ Name[c] \in DOMAIN members
         /\ \/ members[Name[c]] = Address(At[c], Name[c])
            \/ At[c] = At[Room] /\ members[Name[c]] = Address(LocalNode, Name[c])
<1>1. c \in Clients /\ c # Room /\ m \in Messages /\ m.by \in Clients /\ m \in Meant(m.by)
  BY MessageFacts DEF Members, Reaching, Stamped
<1>2. \/ m.to = Address(At[c], Name[c])
      \/ m.to = Address(LocalNode, Name[c]) /\ At[m.by] = At[c]
  BY DEF Reaching
<1>3. m.by = Room
  <2> SUFFICES ASSUME m.by # Room PROVE FALSE
    OBVIOUS
  <2>1. /\ \/ m.to = Address(At[Room], Name[Room])
           \/ m.to = Address(LocalNode, Name[Room]) /\ At[m.by] = At[Room]
        /\ At[Room] # LocalNode /\ At[c] # LocalNode
    BY <1>1, NameFacts, AddressFacts DEF Meant, RoomAddresses
  <2>2. At[c] = At[Room] /\ Name[c] = Name[Room]
    BY <1>2, <2>1, AddressFacts
  <2> QED BY <1>1, <2>2, NetworkAssumption, AddressFacts
<1>4. PICK n \in DOMAIN members : m.to = members[n]
  BY <1>1, <1>3 DEF Meant
<1>5. members[n].client = n
  BY AddressFacts DEF IInv, MembersRegistered, SourceAddresses
<1>6. n = Name[c]
  BY <1>2, <1>4, <1>5, AddressFacts
<1>7. m.data.words \in WordsSaid
  BY <1>1 DEF Meant, Words1
<1> QED BY <1>2, <1>3, <1>4, <1>6, <1>7

LEMMA HearStep ==
  ASSUME IInv, NEW c \in Members, Hear(c)
  PROVE  IInv'
<1> DEFINE m == Head(output[c])
<1>1. c \in Clients /\ ReceiveMessage(c)
  BY DEF Members, Hear
<1>2. Places(input', output', pending', link') /\ CpmdsKnow' /\ m \in Reaching(c)
  BY <1>1, ReceiveKeeps
<1>3. /\ heard' = IF m.data.type = "kMessage" THEN [heard EXCEPT ![c] = Append(@, m.data.words)]
                                              ELSE heard
      /\ UNCHANGED <<members, turn, program, said, spoken>>
  BY DEF Hear
<1> HIDE DEF m
<1>4. CASE m.data.type = "kMessage"
  <2>1. /\ m.data.words \in WordsSaid /\ Name[c] \in DOMAIN members
        /\ members[Name[c]] \in {Address(At[c], Name[c])}
             \cup (IF At[c] = At[Room] THEN {Address(LocalNode, Name[c])} ELSE {})
    BY <1>2, <1>4, HeardFacts
  <2>2. heard \in [Members -> Seq(WordsSaid)] /\ heard' = [heard EXCEPT ![c] = Append(@, m.data.words)]
    BY <1>3, <1>4 DEF IInv, Programs
  <2>3. heard' \in [Members -> Seq(WordsSaid)] /\ \A k \in Members : k # c => heard'[k] = heard[k]
    BY <2>1, <2>2, AppendProperties
  <2>4. Programs'
    BY <1>3, <2>3 DEF IInv, Programs
  <2>5. HeardByMembers'
    BY <1>3, <2>1, <2>3 DEF IInv, HeardByMembers
  <2> QED BY <1>2, <1>3, <2>4, <2>5, RestKeeps
<1>5. CASE m.data.type # "kMessage"
  <2>1. Programs' /\ HeardByMembers'
    BY <1>3, <1>5 DEF IInv, Programs, HeardByMembers
  <2> QED BY <1>2, <1>3, <2>1, RestKeeps
<1> QED BY <1>4, <1>5

-----------------------------------------------------------------------------
(* The chatroom.                                                            *)

LEMMA RestingFacts ==
  /\ Resting \in [left : SUBSET DOMAIN members, reply : Chats]
  /\ Resting.left = {}
BY DEF Resting, Chat, Chats

LEMMA MembersGrowStep ==
  ASSUME IInv, MembersGrow, MembersRegistered', Turns', Programs', UNCHANGED heard,
         Places(input', output', pending', link') /\ CpmdsKnow'
  PROVE  IInv'
<1>1. Places(input, output, pending, link)'
  BY PlacesGrow
<1>2. HeardByMembers'
  <2> SUFFICES ASSUME NEW c \in Members, heard[c] # <<>>
               PROVE  /\ Name[c] \in DOMAIN members'
                      /\ members'[Name[c]] \in {Address(At[c], Name[c])}
                           \cup (IF At[c] = At[Room] THEN {Address(LocalNode, Name[c])} ELSE {})
    BY DEF HeardByMembers
  <2>1. Name[c] \in DOMAIN members
    BY DEF IInv, HeardByMembers
  <2>2. members'[Name[c]] = members[Name[c]] /\ Name[c] \in DOMAIN members'
    BY <2>1 DEF MembersGrow
  <2> QED BY <2>2 DEF IInv, HeardByMembers
<1> QED BY <1>1, <1>2 DEF IInv

\* The message the chatroom received.
LEMMA ReceivedFacts ==
  ASSUME IInv, NEW type, Receives(type)
  PROVE  /\ Places(input', output', pending', link') /\ CpmdsKnow'
         /\ Received \in Messages /\ Stamped(Received) /\ Received.data.type = type
         /\ Received.by \in Clients /\ Received.data \in Chats
         /\ type = "kMessage" => Received.data.words \in WordsSaid
<1>1. /\ Places(input', output', pending', link') /\ CpmdsKnow'
      /\ Received \in Reaching(Room) /\ Received.data.type = type
  BY ReceiveKeeps, AddressFacts DEF Receives, Received
<1>2. Received \in Messages /\ Stamped(Received)
  BY <1>1 DEF Reaching
<1>3. Received \in Meant(Received.by)
  BY <1>2 DEF Stamped
<1>4. Words1(Received.data)
  BY <1>3 DEF Meant
<1> QED BY <1>1, <1>2, <1>4, MessageFacts DEF Words1

LEMMA HandleRegisterStep ==
  ASSUME IInv, HandleRegister
  PROVE  IInv'
<1> DEFINE m == Received
           c == Received.by
           n == Received.data.name
<1>1. /\ Places(input', output', pending', link') /\ CpmdsKnow'
      /\ m \in Messages /\ Stamped(m) /\ m.data.type = "kRegister" /\ c \in Clients
  BY ReceivedFacts DEF HandleRegister
<1>2. c \in Members /\ n = Name[c] /\ m.from \in SourceAddresses(c) /\ n \in Names
  <2>1. m \in Meant(c) /\ m.from \in SourceAddresses(c)
    BY <1>1 DEF Stamped
  <2>2. c # Room /\ n = Name[c]
    BY <1>1, <2>1 DEF Meant
  <2> QED BY <1>1, <2>1, <2>2, NameFacts DEF Members
<1>3. /\ members' = [k \in DOMAIN members \cup {n} |-> IF k \in DOMAIN members THEN members[k] ELSE m.from]
      /\ UNCHANGED <<turn, program, said, spoken, heard>>
  BY DEF HandleRegister
<1> HIDE DEF m, c, n
<1>4. MembersGrow
  BY <1>3 DEF MembersGrow
<1>5. MembersRegistered'
  BY <1>2, <1>3 DEF IInv, MembersRegistered
<1>6. Turns'
  <2>1. DOMAIN members \subseteq DOMAIN members'
    BY <1>4 DEF MembersGrow
  <2> QED BY <1>3, <2>1 DEF IInv, Turns
<1>7. Programs'
  BY <1>3 DEF IInv, Programs
<1> QED BY <1>1, <1>3, <1>4, <1>5, <1>6, <1>7, MembersGrowStep

\* A message is passed on to some members.
LEMMA PassOnKeeps ==
  ASSUME IInv, NEW left \in SUBSET DOMAIN members, PassOn(left), UNCHANGED members,
         Received.data \in Chats, Words1(Received.data),
         Received.data.type \in {"kMessage", "kPrivateMessage"}
  PROVE  Turns'
<1> DEFINE reply == [Received.data EXCEPT !.to_name = 0]
<1>1. /\ reply \in Chats /\ reply.type = Received.data.type
      /\ reply.words = Received.data.words
  BY DEF Chats
<1>2. turn' = IF left = {} THEN Resting ELSE [left |-> left, reply |-> reply]
  BY DEF PassOn
<1> HIDE DEF reply
<1>3. CASE left = {}
  BY <1>2, <1>3, RestingFacts DEF Turns
<1>4. CASE left # {}
  <2>1. turn' = [left |-> left, reply |-> reply]
    BY <1>2, <1>4
  <2>2. turn' \in [left : SUBSET DOMAIN members, reply : Chats] /\ turn'.reply = reply
    BY <1>1, <2>1
  <2>3. Words1(reply) /\ reply.type \in {"kMessage", "kPrivateMessage"}
    BY <1>1 DEF Words1
  <2> QED BY <2>2, <2>3 DEF Turns
<1> QED BY <1>3, <1>4

LEMMA HandleMessageStep ==
  ASSUME IInv, HandleMessage
  PROVE  IInv'
<1>1. /\ Places(input', output', pending', link') /\ CpmdsKnow'
      /\ Received.data \in Chats /\ Received.data.type = "kMessage"
      /\ Received.data.words \in WordsSaid
  BY ReceivedFacts DEF HandleMessage
<1>2. Others(Received.from) \in SUBSET DOMAIN members
  BY DEF Others
<1>3. Turns'
  BY <1>1, <1>2, PassOnKeeps DEF HandleMessage, Words1
<1>4. spoken' \in Seq(WordsSaid)
  BY <1>1, AppendProperties DEF HandleMessage, IInv, Programs
<1>5. Programs'
  BY <1>4 DEF HandleMessage, IInv, Programs
<1>6. MembersGrow /\ MembersRegistered'
  BY DEF HandleMessage, IInv, MembersGrow, MembersRegistered
<1> QED BY <1>1, <1>3, <1>5, <1>6, MembersGrowStep DEF HandleMessage

LEMMA HandlePrivateStep ==
  ASSUME IInv, HandlePrivateMessage
  PROVE  IInv'
<1>1. /\ Places(input', output', pending', link') /\ CpmdsKnow'
      /\ Received.data \in Chats /\ Received.data.type = "kPrivateMessage"
  BY ReceivedFacts DEF HandlePrivateMessage
<1>2. (DOMAIN members \cap {Received.data.to_name}) \in SUBSET DOMAIN members
  OBVIOUS
<1>3. Turns'
  BY <1>1, <1>2, PassOnKeeps DEF HandlePrivateMessage, Words1
<1>5. Programs'
  BY DEF HandlePrivateMessage, IInv, Programs
<1>6. MembersGrow /\ MembersRegistered'
  BY DEF HandlePrivateMessage, IInv, MembersGrow, MembersRegistered
<1> QED BY <1>1, <1>3, <1>5, <1>6, MembersGrowStep DEF HandlePrivateMessage

LEMMA HandleHeartBeatStep ==
  ASSUME IInv, HandleHeartBeat
  PROVE  IInv'
<1>1. Places(input', output', pending', link') /\ CpmdsKnow'
  BY ReceivedFacts DEF HandleHeartBeat
<1>2. Programs' /\ HeardByMembers'
  BY DEF HandleHeartBeat, IInv, Programs, HeardByMembers
<1> QED BY <1>1, <1>2, RestKeeps DEF HandleHeartBeat

\* What the chatroom sends to member n.
Reply(n) == Message(Room, IF turn.reply.type = "kMessage" THEN members[n] ELSE Default, turn.reply)

LEMMA ReplyFacts ==
  ASSUME IInv, NEW n \in turn.left
  PROVE  /\ Reply(n) \in Meant(Room) /\ Reply(n).to \in Addresses /\ turn.reply \in Chats
         /\ Reply(n).data = turn.reply /\ Reply(n).by = Room /\ n \in DOMAIN members
<1>1. /\ n \in DOMAIN members /\ turn.reply \in Chats /\ Words1(turn.reply)
      /\ turn.reply.type \in {"kMessage", "kPrivateMessage"}
  BY DEF IInv, Turns
<1>2. members[n] \in Addresses
  BY <1>1, NameFacts DEF IInv, MembersRegistered, Members
<1> DEFINE to == IF turn.reply.type = "kMessage" THEN members[n] ELSE Default
<1>3. to \in Addresses
  BY <1>2, AddressFacts
<1>4. Reply(n) = Message(Room, to, turn.reply)
  BY DEF Reply
<1>5. Reply(n) \in Messages /\ Reply(n).by = Room /\ Reply(n).to = to /\ Reply(n).data = turn.reply
  <2> HIDE DEF to
  <2> QED BY <1>1, <1>3, <1>4, AddressFacts DEF Message, Messages
<1>6. Reply(n) \in Meant(Room)
  BY <1>1, <1>5 DEF Meant
<1> QED BY <1>1, <1>3, <1>5, <1>6

LEMMA BroadcastStep ==
  ASSUME IInv, BroadcastMessage
  PROVE  IInv'
<1>1. PICK n \in turn.left :
        /\ SendMessage(Room, IF turn.reply.type = "kMessage" THEN members[n] ELSE Default, turn.reply)
        /\ turn' = IF StillLeft(n) = {} THEN Resting ELSE [turn EXCEPT !.left = StillLeft(n)]
  BY DEF BroadcastMessage
<1>2. /\ Reply(n) \in Meant(Room) /\ Reply(n).to \in Addresses /\ turn.reply \in Chats
  BY ReplyFacts
<1> DEFINE to == IF turn.reply.type = "kMessage" THEN members[n] ELSE Default
<1>3. Reply(n) = Message(Room, to, turn.reply) /\ Reply(n).to = to /\ SendMessage(Room, to, turn.reply)
  BY <1>1 DEF Reply, Message
<1> HIDE DEF to
<1>4. Places(input', output', pending', link') /\ CpmdsKnow'
  BY <1>2, <1>3, SendKeeps, AddressFacts
<1>5. Turns'
  <2>1. turn \in [left : SUBSET DOMAIN members, reply : Chats] /\ StillLeft(n) \subseteq turn.left
    BY DEF IInv, Turns, StillLeft
  <2>2. CASE StillLeft(n) = {}
    BY <1>1, <2>2, RestingFacts DEF Turns, BroadcastMessage
  <2>3. CASE StillLeft(n) # {}
    <3>1. turn' = [turn EXCEPT !.left = StillLeft(n)]
      BY <1>1, <2>3
    <3>2. /\ turn' \in [left : SUBSET DOMAIN members, reply : Chats] /\ turn'.reply = turn.reply
      BY <2>1, <3>1
    <3>3. UNCHANGED members
      BY DEF BroadcastMessage
    <3> QED BY <3>2, <3>3 DEF IInv, Turns
  <2> QED BY <2>2, <2>3
<1>6. Programs'
  BY DEF BroadcastMessage, IInv, Programs
<1>7. MembersGrow /\ MembersRegistered'
  BY DEF BroadcastMessage, IInv, MembersGrow, MembersRegistered
<1> QED BY <1>4, <1>5, <1>6, <1>7, MembersGrowStep DEF BroadcastMessage

-----------------------------------------------------------------------------
LEMMA InitInvariant == Init => IInv
<1> SUFFICES ASSUME Init PROVE IInv
  OBVIOUS
<1>1. CpmdsKnow
  BY DEF Init, NetInit, CpmdsKnow
<1>2. MembersRegistered /\ DOMAIN members = {}
  BY DEF Init, MembersRegistered
<1>3. Turns
  BY RestingFacts DEF Init, Turns
<1>4. Programs
  <2>1. \A c \in Members : MaxSaid[c] \in Nat
    BY RoomAssumption DEF Members
  <2>2. <<>> \in Seq(WordsSaid)
    BY EmptySeq
  <2> QED BY <2>1, <2>2 DEF Init, Programs
<1>5. HeardByMembers
  BY DEF Init, HeardByMembers
<1>6. Places(input, output, pending, link)
  <2>1. \A S : <<>> \in Seq(S) /\ Len(<<>>) = 0
    BY EmptySeq
  <2>2. /\ input = [c \in Clients |-> <<>>] /\ output = [c \in Clients |-> <<>>]
        /\ pending = [s \in Nodes |-> [d \in Nodes |-> <<>>]]
        /\ link = [s \in Nodes |-> [d \in Nodes |-> <<>>]]
    BY DEF Init, NetInit
  <2> QED BY <2>1, <2>2, NetworkAssumption DEF Places
<1> QED BY <1>1, <1>2, <1>3, <1>4, <1>5, <1>6 DEF IInv

LEMMA GivenStep == Given /\ [Next]_vars => Given'
<1> SUFFICES ASSUME [Next]_vars PROVE by_name' = by_name
  BY DEF Given, Neighbours
<1>1. CASE UNCHANGED vars
  BY <1>1 DEF vars, chatVars
<1>2. ASSUME NEW c \in Clients, Start(c) PROVE by_name' = by_name
  BY <1>2 DEF Start
<1>3. ASSUME NEW c \in Members, Register(c) \/ Say(c) \/ SayFails(c) \/ Hear(c)
      PROVE  by_name' = by_name
  BY <1>3 DEF Register, Say, SayFails, Hear
<1>4. ASSUME NEW c \in Members, NEW data \in OtherData(c), SayOther(c, data)
      PROVE  by_name' = by_name
  BY <1>4 DEF SayOther
<1>5. CASE HandleRegister \/ HandleHeartBeat \/ HandleMessage \/ HandlePrivateMessage
  BY <1>5 DEF HandleRegister, HandleHeartBeat, HandleMessage, HandlePrivateMessage
<1>6. CASE BroadcastMessage \/ BroadcastFails
  BY <1>6 DEF BroadcastMessage, BroadcastFails
<1>7. CASE NetNext /\ UNCHANGED chatVars
  BY <1>7 DEF chatVars
<1> QED BY <1>1, <1>2, <1>3, <1>4, <1>5, <1>6, <1>7 DEF Next

LEMMA Step == IInv /\ Given /\ [Next]_vars => IInv'
<1> SUFFICES ASSUME IInv, Given, [Next]_vars PROVE IInv'
  OBVIOUS
<1>1. CASE UNCHANGED vars
  <2>1. /\ UNCHANGED <<self_address, clients, input, output, pending, link>>
        /\ UNCHANGED <<members, turn, program, said, spoken, heard>>
    BY <1>1 DEF vars, netVars, chatVars
  <2>2. Places(input', output', pending', link') /\ CpmdsKnow' /\ Programs' /\ HeardByMembers'
    BY <2>1 DEF IInv, CpmdsKnow, Programs, HeardByMembers
  <2> QED BY <2>1, <2>2, RestKeeps
<1>2. ASSUME NEW c \in Clients, Start(c) PROVE IInv'
  BY <1>2, StartStep
<1>3. ASSUME NEW c \in Members, Register(c) \/ Say(c) \/ SayFails(c) \/ Hear(c) PROVE IInv'
  BY <1>3, RegisterStep, SayStep, SayFailsStep, HearStep
<1>4. ASSUME NEW c \in Members, NEW data \in OtherData(c), SayOther(c, data) PROVE IInv'
  BY <1>4, SayOtherStep
<1>5. CASE HandleRegister \/ HandleHeartBeat \/ HandleMessage \/ HandlePrivateMessage
  BY <1>5, HandleRegisterStep, HandleHeartBeatStep, HandleMessageStep, HandlePrivateStep
<1>6. CASE BroadcastMessage \/ BroadcastFails
  BY <1>6, BroadcastStep, BroadcastFailsStep
<1>7. CASE NetNext /\ UNCHANGED chatVars
  BY <1>7, NetStep
<1> QED BY <1>1, <1>2, <1>3, <1>4, <1>5, <1>6, <1>7 DEF Next

-----------------------------------------------------------------------------
\* The inductive invariant holds in every reachable state.
THEOREM Invariant == Spec => [](IInv /\ Given)
<1>1. Init => IInv /\ Given
  BY InitInvariant DEF Init, Given
<1>2. IInv /\ Given /\ [Next]_vars => IInv' /\ Given'
  BY Step, GivenStep
<1> QED BY <1>1, <1>2, PTL DEF Spec

LEMMA IInvTypes == IInv /\ Given => TypeOK
<1> SUFFICES ASSUME IInv, Given PROVE TypeOK
  OBVIOUS
<1>1. /\ self_address \in [Nodes -> Nodes \cup {LocalNode}]
      /\ clients \in [Nodes -> [Names -> Clients \cup {NoClient}]]
  BY DEF IInv, CpmdsKnow
<1>2. /\ input \in [Clients -> Seq(Messages)] /\ output \in [Clients -> Seq(Messages)]
      /\ \A c \in Clients : Len(input[c]) <= BusSize /\ Len(output[c]) <= BusSize
      /\ pending \in [Nodes -> [Nodes -> Seq(Messages)]]
      /\ \A s, d \in Nodes : Len(pending[s][d]) <= kMaxCachedMessageNum
      /\ link \in [Nodes -> [Nodes -> Seq(Messages)]]
  BY DEF IInv, Places
<1>3. DOMAIN members \subseteq Names /\ \A n \in DOMAIN members : members[n] \in Addresses
  BY NameFacts DEF IInv, MembersRegistered, Members
<1>4. turn.left \subseteq DOMAIN members /\ turn.reply \in Chats
  BY DEF IInv, Turns
<1>5. /\ program \in [Clients -> {"start", "register", "loop", "exit"}]
      /\ spoken \in Seq(WordsSaid) /\ heard \in [Members -> Seq(WordsSaid)]
  BY DEF IInv, Programs
<1>6. ASSUME NEW c \in Members PROVE said[c] \in 0 .. MaxSaid[c]
  <2>1. said[c] \in Nat /\ MaxSaid[c] \in Nat /\ said[c] <= MaxSaid[c]
    BY RoomAssumption DEF IInv, Programs, Members
  <2> QED BY <2>1
<1> QED BY <1>1, <1>2, <1>3, <1>4, <1>5, <1>6 DEF TypeOK, Given

LEMMA IInvAddressed == IInv => Addressed
<1> SUFFICES ASSUME IInv PROVE Addressed
  OBVIOUS
<1>1. ASSUME NEW S, NEW q \in Seq(S), NEW m \in Elements(q) PROVE m \in S
  BY ElementOfSeq DEF Elements
<1>2. ASSUME NEW s \in Nodes, NEW d \in Nodes, NEW m \in Elements(pending[s][d] \o link[s][d])
      PROVE  /\ m.from \in {Address(s, Name[m.by]), Address(LocalNode, Name[m.by])}
             /\ At[m.by] = s
  <2>1. pending[s][d] \o link[s][d] \in Seq(Between(s, d))
    BY ConcatProperties DEF IInv, Places
  <2>2. m \in Between(s, d)
    BY <1>1, <2>1
  <2> QED BY <2>2 DEF Between, Stamped, SourceAddresses
<1>3. ASSUME NEW c \in Clients, NEW m \in Elements(output[c])
      PROVE  /\ m.from \in {Address(At[m.by], Name[m.by]), Address(LocalNode, Name[m.by])}
             /\ m.to \in {Address(At[c], Name[c])}
                         \cup (IF At[m.by] = At[c] THEN {Address(LocalNode, Name[c])} ELSE {})
  <2>1. output[c] \in Seq(Reaching(c))
    BY DEF IInv, Places
  <2>2. m \in Reaching(c)
    BY <1>1, <2>1
  <2> QED BY <2>2 DEF Reaching, Stamped, SourceAddresses
<1> QED BY <1>2, <1>3 DEF Addressed

\* Every variable keeps its type, and no bus and no cache exceeds its size.
THEOREM TypeCorrect == Spec => []TypeOK
BY Invariant, IInvTypes, PTL

\* Messages carry the address of their true sender, or node 0 and its name, and
\* reach only clients of the name they are for.
THEOREM AddressedCorrect == Spec => []Addressed
BY Invariant, IInvAddressed, PTL

\* Only who registered, or at the chatroom's node who has the name of one who
\* did, hears what is said.
THEOREM HeardByMembersCorrect == Spec => []HeardByMembers
<1>1. IInv => HeardByMembers
  BY DEF IInv
<1> QED BY <1>1, Invariant, PTL

-----------------------------------------------------------------------------
(* NoEcho.  A client registers before it speaks.  So once its registration  *)
(* was taken under its own address, all it says is taken under it, too, and *)
(* the chatroom passes it over; only who registered as a client of an       *)
(* unknown node may say something under an address that is not the one the  *)
(* chatroom keeps.  No member may be called like the chatroom: words told   *)
(* to this member could come back to the chatroom as words of its own.      *)

NamesApart == \A c \in Members : Name[c] # Name[Room]

\* Messages that a cpmd has taken, and no client received yet.
Away(m) ==
  \/ \E s, d \in Nodes : m \in Elements(pending[s][d]) \/ m \in Elements(link[s][d])
  \/ \E k \in Clients : m \in Elements(output[k])

Registers(q, i) == q[i].data.type = "kRegister"

NotTaken(c) ==
  \/ program[c] \in {"start", "register"}
  \/ \E i \in 1 .. Len(input[c]) : Registers(input[c], i)

\* A client sends its registration first, and once.
RegistersFirst ==
  \A c \in Members :
    /\ program[c] \in {"start", "register"} => input[c] = <<>>
    /\ \A i \in 1 .. Len(input[c]) : Registers(input[c], i) => i = 1
    /\ NotTaken(c) => \A m : Away(m) => m.by # c

OwnAddress(c) == Address(At[c], Name[c])

\* The registration of c was taken under the address of its node.
RegisteredInTime(c) ==
  \/ \E m : Away(m) /\ m.by = c /\ m.data.type = "kRegister" /\ m.from = OwnAddress(c)
  \/ Name[c] \in DOMAIN members /\ members[Name[c]] = OwnAddress(c)

InTime ==
  \A c \in Members : RegisteredInTime(c) =>
    /\ self_address[At[c]] = At[c]
    /\ \A m : Away(m) /\ m.by = c => m.from = OwnAddress(c)

\* No words are on their way to who said them, under his own address.
EchoFree(m) ==
  m.by = Room /\ m.data.type = "kMessage" => m.to # OwnAddress(m.data.words.by)

NoneComesBack ==
  /\ \A m : Away(m) => EchoFree(m)
  /\ \A m \in Elements(input[Room]) : EchoFree(m)
  /\ turn.reply.type = "kMessage" =>
       LET c == turn.reply.words.by
       IN Name[c] \in turn.left => members[Name[c]] # OwnAddress(c)

LInv == RegistersFirst /\ InTime /\ NoneComesBack /\ NoEcho

-----------------------------------------------------------------------------
(* What messages a step adds.                                               *)

LEMMA ElementsAppend ==
  ASSUME NEW S, NEW q \in Seq(S), NEW m \in S
  PROVE  Elements(Append(q, m)) \subseteq Elements(q) \cup {m}
<1> SUFFICES ASSUME NEW i \in 1 .. Len(Append(q, m))
             PROVE  Append(q, m)[i] \in Elements(q) \cup {m}
  BY DEF Elements
<1>1. Len(q) \in Nat /\ Len(Append(q, m)) = Len(q) + 1
  BY AppendProperties, LenProperties
<1>2. CASE i = Len(q) + 1
  BY <1>2, AppendProperties
<1>3. CASE i \in 1 .. Len(q)
  BY <1>3, AppendProperties DEF Elements
<1> QED BY <1>1, <1>2, <1>3

LEMMA ElementsTail ==
  ASSUME NEW S, NEW q \in Seq(S), q # <<>>
  PROVE  Elements(Tail(q)) \subseteq Elements(q) /\ Head(q) \in Elements(q)
<1>1. Len(q) \in Nat \ {0} /\ Len(Tail(q)) = Len(q) - 1
  BY EmptySeq, HeadTailProperties
<1>2. ASSUME NEW i \in 1 .. Len(Tail(q)) PROVE Tail(q)[i] \in Elements(q)
  <2>1. i + 1 \in 1 .. Len(q) /\ Tail(q)[i] = q[i + 1]
    BY <1>1, HeadTailProperties
  <2> QED BY <2>1 DEF Elements
<1>3. Head(q) = q[1] /\ 1 \in 1 .. Len(q)
  BY <1>1
<1> QED BY <1>2, <1>3 DEF Elements

LEMMA ElementsConcat ==
  ASSUME NEW S, NEW q \in Seq(S), NEW r \in Seq(S)
  PROVE  Elements(q \o r) \subseteq Elements(q) \cup Elements(r)
<1> SUFFICES ASSUME NEW i \in 1 .. Len(q \o r)
             PROVE  (q \o r)[i] \in Elements(q) \cup Elements(r)
  BY DEF Elements
<1>1. Len(q) \in Nat /\ Len(r) \in Nat /\ Len(q \o r) = Len(q) + Len(r)
  BY ConcatProperties, LenProperties
<1>2. CASE i \in 1 .. Len(q)
  <2>1. (q \o r)[i] = q[i]
    BY <1>1, <1>2, ConcatProperties
  <2> QED BY <1>2, <2>1 DEF Elements
<1>3. CASE i - Len(q) \in 1 .. Len(r)
  <2>1. (q \o r)[i] = r[i - Len(q)]
    BY <1>1, <1>3, ConcatProperties
  <2> QED BY <1>3, <2>1 DEF Elements
<1> QED BY <1>1, <1>2, <1>3

LEMMA ElementsPush ==
  ASSUME NEW S, NEW q \in Seq(S), NEW m \in S, NEW max \in Nat \ {0}
  PROVE  Elements(Push(q, m, max)) \subseteq Elements(q) \cup {m}
<1>1. CASE Full(q, max)
  <2>1. q # <<>>
    BY <1>1, EmptySeq DEF Full
  <2>2. Tail(q) \in Seq(S) /\ Elements(Tail(q)) \subseteq Elements(q)
    BY <2>1, HeadTailProperties, ElementsTail
  <2> QED BY <1>1, <2>2, ElementsAppend DEF Push
<1>2. CASE ~Full(q, max)
  BY <1>2, ElementsAppend DEF Push
<1> QED BY <1>1, <1>2

Added(new) == \A m : Away(m)' => Away(m) \/ m \in new

\* A message forwarded is added at most to the bus of a client.
LEMMA ForwardAdds ==
  ASSUME IInv, NEW s \in Nodes, NEW m \in Messages, Forward(s, m), NEW x, NEW k \in Clients,
         x \in Elements(output'[k])
  PROVE  x = m \/ x \in Elements(output[k])
<1> DEFINE c == IF m.to.client \in Names THEN clients[s][m.to.client] ELSE NoClient
<1>1. CASE c # NoClient /\ Fits(output, c)
  <2>1. c \in Clients
    BY <1>1 DEF IInv, CpmdsKnow
  <2>2. output' = [output EXCEPT ![c] = Append(@, m)]
    BY <1>1 DEF Forward
  <2> HIDE DEF c
  <2>3. output \in [Clients -> Seq(Messages)]
    BY DEF IInv, Places
  <2>4. Elements(Append(output[c], m)) \subseteq Elements(output[c]) \cup {m}
    BY <2>1, <2>3, ElementsAppend
  <2> QED BY <2>1, <2>2, <2>3, <2>4
<1>2. CASE ~(c # NoClient /\ Fits(output, c))
  BY <1>2 DEF Forward
<1> QED BY <1>1, <1>2

LEMMA TakeAdds ==
  ASSUME IInv, NEW c \in Clients,
         HandleToLocalMessage(c) \/ HandleToRemoteMessage(c) \/ ConnectOnDemand(c)
  PROVE  Added({Taken(c)})
<1>1. /\ Taken(c) \in Messages /\ At[c] \in Nodes
      /\ pending \in [Nodes -> [Nodes -> Seq(Messages)]]
      /\ link \in [Nodes -> [Nodes -> Seq(Messages)]]
  BY TakenFacts, NameFacts
     DEF IInv, Places, HandleToLocalMessage, HandleToRemoteMessage, ConnectOnDemand
<1>2. CASE HandleToLocalMessage(c)
  <2>1. Forward(At[c], Taken(c)) /\ UNCHANGED <<pending, link>>
    BY <1>2 DEF HandleToLocalMessage
  <2> QED BY <1>1, <2>1, ForwardAdds DEF Added, Away
<1>3. CASE HandleToRemoteMessage(c)
  <2> DEFINE s == At[c]
             m == Taken(c)
             d == m.to.node
  <2>1. /\ \/ link' = [link EXCEPT ![s][d] = Append(@, m)] /\ pending' = pending
           \/ pending' = [pending EXCEPT ![s][d] = Push(@, m, kMaxCachedMessageNum)] /\ link' = link
        /\ output' = output /\ ~IsLocal(s, m)
    BY <1>3 DEF HandleToRemoteMessage
  <2>2. d \in Nodes
    BY <1>1, <2>1, MessageFacts, AddressFacts DEF IsLocal
  <2>3. /\ Elements(Append(link[s][d], m)) \subseteq Elements(link[s][d]) \cup {m}
        /\ Elements(Push(pending[s][d], m, kMaxCachedMessageNum)) \subseteq Elements(pending[s][d]) \cup {m}
    BY <1>1, <2>2, ElementsAppend, ElementsPush, NetworkAssumption
  <2> HIDE DEF s, d, m
  <2>4. s \in Nodes
    BY <1>1 DEF s
  <2>5. ASSUME NEW t \in Nodes, NEW e \in Nodes, NEW x, x \in Elements(pending'[t][e]) \/ x \in Elements(link'[t][e])
        PROVE  x = m \/ x \in Elements(pending[t][e]) \/ x \in Elements(link[t][e])
    <3>1. CASE link' = [link EXCEPT ![s][d] = Append(@, m)] /\ pending' = pending
      <4>1. link'[t][e] = IF t = s /\ e = d THEN Append(link[s][d], m) ELSE link[t][e]
        BY <1>1, <2>2, <2>4, <3>1
      <4> QED BY <2>3, <2>5, <3>1, <4>1
    <3>2. CASE pending' = [pending EXCEPT ![s][d] = Push(@, m, kMaxCachedMessageNum)] /\ link' = link
      <4>1. pending'[t][e] = IF t = s /\ e = d THEN Push(pending[s][d], m, kMaxCachedMessageNum)
                             ELSE pending[t][e]
        BY <1>1, <2>2, <2>4, <3>2
      <4> QED BY <2>3, <2>5, <3>2, <4>1
    <3> QED BY <2>1, <3>1, <3>2
  <2>6. \A x : Away(x)' => Away(x) \/ x = m
    BY <2>1, <2>5 DEF Away
  <2> QED BY <2>6 DEF Added, m
<1>4. CASE ConnectOnDemand(c)
  BY <1>4 DEF ConnectOnDemand, Added, Away
<1> QED BY <1>2, <1>3, <1>4

LEMMA ReceiveAdds ==
  ASSUME IInv, NEW c \in Clients, ReceiveMessage(c)
  PROVE  Added({}) /\ Away(Head(output[c]))
<1>1. output \in [Clients -> Seq(Messages)] /\ output[c] # <<>>
      /\ output' = [output EXCEPT ![c] = Tail(@)] /\ UNCHANGED <<pending, link>>
  BY DEF IInv, Places, ReceiveMessage
<1>2. Elements(Tail(output[c])) \subseteq Elements(output[c]) /\ Head(output[c]) \in Elements(output[c])
  BY <1>1, ElementsTail
<1> QED BY <1>1, <1>2 DEF Added, Away

\* Between cpmds, messages are only moved or lost.
LEMMA MoveAdds ==
  ASSUME IInv, NEW s \in Nodes, NEW d \in Nodes,
         FlushMessage(s, d) \/ HandleRemoteMessage(s, d) \/ RefuseRemoteMessage(s, d)
           \/ LinkBreaks(s, d)
  PROVE  Added({})
<1> DEFINE p == pending[s][d]
           l == link[s][d]
<1>1. /\ pending \in [Nodes -> [Nodes -> Seq(Messages)]]
      /\ link \in [Nodes -> [Nodes -> Seq(Messages)]]
      /\ p \in Seq(Messages) /\ l \in Seq(Messages) /\ Elements(<<>>) = {}
  BY EmptySeq DEF IInv, Places, Elements
<1>2. CASE FlushMessage(s, d)
  <2>1. /\ pending' = [pending EXCEPT ![s][d] = <<>>] /\ link' = [link EXCEPT ![s][d] = l \o p]
        /\ output' = output
    BY <1>2 DEF FlushMessage
  <2>2. Elements(l \o p) \subseteq Elements(l) \cup Elements(p)
    BY <1>1, ElementsConcat
  <2>3. ASSUME NEW t \in Nodes, NEW e \in Nodes, NEW x, x \in Elements(pending'[t][e]) \/ x \in Elements(link'[t][e])
        PROVE  x \in Elements(pending[t][e]) \/ x \in Elements(link[t][e])
    <3>1. link'[t][e] = IF t = s /\ e = d THEN l \o p ELSE link[t][e]
      BY <1>1, <2>1
    <3>2. pending'[t][e] = IF t = s /\ e = d THEN <<>> ELSE pending[t][e]
      BY <1>1, <2>1
    <3> QED BY <1>1, <2>2, <2>3, <3>1, <3>2
  <2> QED BY <2>1, <2>3 DEF Added, Away
<1>3. CASE HandleRemoteMessage(s, d)
  <2>1. /\ link' = [link EXCEPT ![s][d] = Tail(l)] /\ pending' = pending /\ Forward(d, Head(l)) /\ l # <<>>
    BY <1>3 DEF HandleRemoteMessage
  <2>2. Elements(Tail(l)) \subseteq Elements(l) /\ Head(l) \in Elements(l) /\ Head(l) \in Messages
    BY <1>1, <2>1, ElementsTail, TailKeeps
  <2>3. ASSUME NEW t \in Nodes, NEW e \in Nodes, NEW x, x \in Elements(link'[t][e])
        PROVE  x \in Elements(link[t][e])
    BY <1>1, <2>1, <2>2, <2>3
  <2>4. ASSUME NEW k \in Clients, NEW x, x \in Elements(output'[k])
        PROVE  x = Head(l) \/ x \in Elements(output[k])
    BY <2>1, <2>2, <2>4, ForwardAdds
  <2> QED BY <2>1, <2>2, <2>3, <2>4 DEF Added, Away
<1>4. CASE RefuseRemoteMessage(s, d)
  <2>1. PICK k \in 1 .. Len(l) : link' = [link EXCEPT ![s][d] = SubSeq(l, 2, k)]
    BY <1>4 DEF RefuseRemoteMessage
  <2>2. Elements(SubSeq(l, 2, k)) \subseteq Elements(l)
    <3>1. Len(l) \in Nat /\ k \in Int /\ \A i \in 2 .. k : i \in 1 .. Len(l)
      BY <1>1, LenProperties
    <3>2. \A i \in 2 .. k : l[i] \in Elements(l)
      BY <3>1 DEF Elements
    <3>3. SubSeq(l, 2, k) \in Seq(Elements(l))
      BY <3>1, <3>2, SubSeqProperties
    <3> QED BY <3>3, ElementOfSeq DEF Elements
  <2>3. ASSUME NEW t \in Nodes, NEW e \in Nodes, NEW x, x \in Elements(link'[t][e])
        PROVE  x \in Elements(link[t][e])
    BY <1>1, <2>1, <2>2, <2>3
  <2>4. UNCHANGED <<output, pending>>
    BY <1>4 DEF RefuseRemoteMessage
  <2> QED BY <2>3, <2>4 DEF Added, Away
<1>5. CASE LinkBreaks(s, d)
  <2>1. link' = [link EXCEPT ![s][d] = <<>>] /\ UNCHANGED <<output, pending>>
    BY <1>5 DEF LinkBreaks
  <2>2. ASSUME NEW t \in Nodes, NEW e \in Nodes, NEW x, x \in Elements(link'[t][e])
        PROVE  x \in Elements(link[t][e])
    BY <1>1, <2>1, <2>2
  <2> QED BY <2>1, <2>2 DEF Added, Away
<1> QED BY <1>2, <1>3, <1>4, <1>5

-----------------------------------------------------------------------------
(* The parts of LInv.                                                       *)

LEMMA RegistersFirstKeeps ==
  ASSUME LInv, Added({}), \A c \in Members : input'[c] = input[c],
         \A c \in Members : program'[c] \in {"start", "register"} => program[c] \in {"start", "register"}
  PROVE  RegistersFirst'
<1> SUFFICES ASSUME NEW c \in Members
             PROVE  /\ program'[c] \in {"start", "register"} => input'[c] = <<>>
                    /\ \A i \in 1 .. Len(input'[c]) : Registers(input'[c], i) => i = 1
                    /\ NotTaken(c)' => \A m : Away(m)' => m.by # c
  BY DEF RegistersFirst, Registers
<1>1. /\ program[c] \in {"start", "register"} => input[c] = <<>>
      /\ \A i \in 1 .. Len(input[c]) : Registers(input[c], i) => i = 1
      /\ NotTaken(c) => \A m : Away(m) => m.by # c
      /\ input'[c] = input[c]
  BY DEF LInv, RegistersFirst
<1>2. NotTaken(c)' => NotTaken(c)
  BY <1>1 DEF NotTaken, Registers
<1> QED BY <1>1, <1>2 DEF Added

LEMMA InTimeKeeps ==
  ASSUME LInv, Added({}), UNCHANGED members,
         \A s \in Nodes : self_address[s] = s => self_address'[s] = s
  PROVE  InTime'
<1> SUFFICES ASSUME NEW c \in Members, RegisteredInTime(c)'
             PROVE  /\ self_address'[At[c]] = At[c]
                    /\ \A m : Away(m)' /\ m.by = c => m.from = OwnAddress(c)
  BY DEF InTime, OwnAddress
<1>1. RegisteredInTime(c)
  BY DEF RegisteredInTime, Added, OwnAddress
<1>2. /\ self_address[At[c]] = At[c] /\ At[c] \in Nodes
      /\ \A m : Away(m) /\ m.by = c => m.from = OwnAddress(c)
  BY <1>1, NameFacts DEF LInv, InTime, Members
<1> QED BY <1>2 DEF Added

LEMMA NoneComesBackKeeps ==
  ASSUME LInv, Added({}), UNCHANGED <<members, turn>>, input'[Room] = input[Room]
  PROVE  NoneComesBack'
BY DEF LInv, NoneComesBack, Added, EchoFree, OwnAddress, Elements

LEMMA NoEchoKeeps ==
  ASSUME IInv, LInv, MembersGrow, UNCHANGED heard
  PROVE  NoEcho'
<1> SUFFICES ASSUME NEW c \in Members, NEW i \in 1 .. Len(heard[c]), heard[c][i].by = c
             PROVE  At[c] = At[Room] /\ members'[Name[c]] = Address(LocalNode, Name[c])
  BY DEF NoEcho
<1>1. At[c] = At[Room] /\ members[Name[c]] = Address(LocalNode, Name[c])
  BY DEF LInv, NoEcho
<1>2. heard[c] # <<>>
  <2>1. heard[c] \in Seq(WordsSaid)
    BY DEF IInv, Programs
  <2> QED BY <2>1, EmptySeq
<1>3. Name[c] \in DOMAIN members
  BY <1>2 DEF IInv, HeardByMembers
<1> QED BY <1>1, <1>3 DEF MembersGrow

\* Where nothing is sent or taken, and the chatroom rests.
LEMMA Calm ==
  ASSUME IInv, LInv, Added({}), UNCHANGED <<members, turn, heard>>,
         UNCHANGED input,
         \A s \in Nodes : self_address[s] = s => self_address'[s] = s,
         \A c \in Members : program'[c] \in {"start", "register"} => program[c] \in {"start", "register"}
  PROVE  LInv'
<1>1. MembersGrow
  BY DEF MembersGrow
<1>2. RegistersFirst' /\ InTime' /\ NoneComesBack' /\ NoEcho'
  BY <1>1, RegistersFirstKeeps, InTimeKeeps, NoneComesBackKeeps, NoEchoKeeps
<1> QED BY <1>2 DEF LInv

-----------------------------------------------------------------------------
(* The steps.                                                               *)

LEMMA TakeLate ==
  ASSUME IInv, LInv, NEW c \in Clients, UNCHANGED chatVars,
         HandleToLocalMessage(c) \/ HandleToRemoteMessage(c) \/ ConnectOnDemand(c)
  PROVE  LInv'
<1> DEFINE h == Head(input[c])
           t == Taken(c)
<1>1. /\ Added({t}) /\ Take(c) /\ UNCHANGED self_address
      /\ input[c] # <<>> /\ input' = [input EXCEPT ![c] = Tail(@)]
  BY TakeAdds DEF HandleToLocalMessage, HandleToRemoteMessage, ConnectOnDemand, Take
<1>2. /\ t.by = c /\ t \in Messages /\ h \in Meant(c)
      /\ t = [h EXCEPT !.from = Address(self_address[At[c]], Name[c])]
  BY <1>1, TakenFacts
<1>3. /\ t.data = h.data /\ t.to = h.to /\ t.from = Address(self_address[At[c]], Name[c])
      /\ h.by = c
  <2>1. h \in Messages /\ h.by = c
    BY <1>2 DEF Meant
  <2> HIDE DEF h, t
  <2> QED BY <1>2, <2>1 DEF Messages
<1>4. /\ input \in [Clients -> Seq(Messages)] /\ input[c] \in Seq(Messages)
      /\ Len(input[c]) \in Nat \ {0} /\ Len(Tail(input[c])) = Len(input[c]) - 1
      /\ \A i \in 1 .. Len(Tail(input[c])) : Tail(input[c])[i] = input[c][i + 1]
      /\ h = input[c][1] /\ h \in Elements(input[c])
      /\ Elements(Tail(input[c])) \subseteq Elements(input[c])
  <2>1. input \in [Clients -> Seq(Messages)] /\ input[c] \in Seq(Messages)
    BY DEF IInv, Places
  <2>2. Len(input[c]) \in Nat \ {0}
    BY <1>1, <2>1, EmptySeq
  <2> QED BY <1>1, <2>1, <2>2, HeadTailProperties, ElementsTail
<1>5. input'[c] = Tail(input[c]) /\ \A k \in Clients : k # c => input'[k] = input[k]
  BY <1>1, <1>4
<1>6. UNCHANGED <<members, turn, program, said, spoken, heard>>
  BY DEF chatVars
<1> HIDE DEF h, t
<1>7. RegistersFirst'
  <2> SUFFICES ASSUME NEW k \in Members
               PROVE  /\ program[k] \in {"start", "register"} => input'[k] = <<>>
                      /\ \A i \in 1 .. Len(input'[k]) : Registers(input'[k], i) => i = 1
                      /\ NotTaken(k)' => \A m : Away(m)' => m.by # k
    BY <1>6 DEF RegistersFirst, Registers
  <2>1. /\ program[k] \in {"start", "register"} => input[k] = <<>>
        /\ \A i \in 1 .. Len(input[k]) : Registers(input[k], i) => i = 1
        /\ NotTaken(k) => \A m : Away(m) => m.by # k
        /\ k \in Clients
    BY DEF LInv, RegistersFirst, Members
  <2>2. CASE k = c
    <3>1. program[c] \notin {"start", "register"}
      BY <1>1, <2>1, <2>2
    <3>2. ASSUME NEW i \in 1 .. Len(input'[c]), Registers(input'[c], i) PROVE FALSE
      <4>1. i \in Nat \ {0} /\ i + 1 \in 1 .. Len(input[c]) /\ Registers(input[c], i + 1)
        BY <1>4, <1>5, <3>2 DEF Registers
      <4> QED BY <2>1, <2>2, <4>1
    <3>3. ~NotTaken(c)'
      BY <1>6, <3>1, <3>2 DEF NotTaken, Registers
    <3> QED BY <2>2, <3>1, <3>2, <3>3
  <2>3. CASE k # c
    <3>1. input'[k] = input[k] /\ (NotTaken(k)' => NotTaken(k))
      BY <1>5, <1>6, <2>1, <2>3 DEF NotTaken, Registers
    <3> QED BY <1>1, <1>2, <2>1, <2>3, <3>1 DEF Added
  <2> QED BY <2>2, <2>3
<1>8. InTime'
  <2> SUFFICES ASSUME NEW k \in Members, RegisteredInTime(k)'
               PROVE  /\ self_address[At[k]] = At[k]
                      /\ \A m : Away(m)' /\ m.by = k => m.from = OwnAddress(k)
    BY <1>1 DEF InTime, OwnAddress
  <2>1. k \in Clients /\ At[k] \in Nodes /\ At[k] # LocalNode
    BY NameFacts DEF Members
  <2>2. CASE RegisteredInTime(k)
    <3>1. /\ self_address[At[k]] = At[k]
          /\ \A m : Away(m) /\ m.by = k => m.from = OwnAddress(k)
      BY <2>2 DEF LInv, InTime
    <3>2. t.by = k => t.from = OwnAddress(k)
      BY <1>2, <1>3, <3>1 DEF OwnAddress
    <3> QED BY <1>1, <3>1, <3>2 DEF Added
  <2>3. CASE ~RegisteredInTime(k)
    <3>1. k = c /\ t.data.type = "kRegister" /\ t.from = OwnAddress(c)
      BY <1>1, <1>2, <1>6, <2>3 DEF RegisteredInTime, Added, OwnAddress
    <3>2. self_address[At[k]] = At[k]
      <4>1. Address(self_address[At[c]], Name[c]) = Address(At[c], Name[c])
        BY <1>3, <3>1 DEF OwnAddress
      <4>2. Address(self_address[At[c]], Name[c]).node = Address(At[c], Name[c]).node
        BY <4>1
      <4> QED BY <3>1, <4>2 DEF Address
    <3>3. NotTaken(c)
      BY <1>3, <1>4, <3>1 DEF NotTaken, Registers
    <3>4. \A m : Away(m) => m.by # c
      BY <3>1, <3>3 DEF LInv, RegistersFirst
    <3> QED BY <1>1, <3>1, <3>2, <3>4 DEF Added
  <2> QED BY <2>2, <2>3
<1>9. NoneComesBack'
  <2>1. EchoFree(t)
    <3>1. CASE c = Room
      <4>1. EchoFree(h)
        BY <1>4, <3>1 DEF LInv, NoneComesBack
      <4> QED BY <1>2, <1>3, <4>1 DEF EchoFree
    <3>2. CASE c # Room
      BY <1>2, <3>2 DEF EchoFree
    <3> QED BY <3>1, <3>2
  <2>2. \A m : Away(m)' => EchoFree(m)
    BY <1>1, <2>1 DEF Added, LInv, NoneComesBack
  <2>3. \A m \in Elements(input'[Room]) : EchoFree(m)
    BY <1>4, <1>5, AddressFacts DEF LInv, NoneComesBack
  <2> QED BY <1>6, <2>2, <2>3 DEF LInv, NoneComesBack, EchoFree, OwnAddress, Elements
<1>10. NoEcho'
  BY <1>6, NoEchoKeeps DEF MembersGrow
<1> QED BY <1>7, <1>8, <1>9, <1>10 DEF LInv

LEMMA NetLate ==
  ASSUME IInv, LInv, NetNext, UNCHANGED chatVars
  PROVE  LInv'
<1>1. UNCHANGED <<members, turn, program, said, spoken, heard>>
  BY DEF chatVars
<1>2. ASSUME NEW c \in Clients,
             HandleToLocalMessage(c) \/ HandleToRemoteMessage(c) \/ ConnectOnDemand(c)
      PROVE  LInv'
  BY <1>2, TakeLate
<1>3. ASSUME NEW s \in Nodes, UpdateSelfAddress(s) PROVE LInv'
  <2>1. UNCHANGED <<input, output, pending, link>> /\ self_address' = [self_address EXCEPT ![s] = s]
    BY <1>3 DEF UpdateSelfAddress
  <2>2. \A t \in Nodes : self_address[t] = t => self_address'[t] = t
    BY <2>1 DEF IInv, CpmdsKnow
  <2>3. Added({})
    BY <2>1 DEF Added, Away
  <2> QED BY <1>1, <2>1, <2>2, <2>3, Calm
<1>4. ASSUME NEW s \in Nodes, NEW d \in Nodes,
             FlushMessage(s, d) \/ HandleRemoteMessage(s, d) \/ RefuseRemoteMessage(s, d)
               \/ LinkBreaks(s, d)
      PROVE  LInv'
  <2>1. Added({}) /\ UNCHANGED <<input, self_address>>
    BY <1>4, MoveAdds DEF FlushMessage, HandleRemoteMessage, RefuseRemoteMessage, LinkBreaks
  <2> QED BY <1>1, <2>1, Calm
<1> QED BY <1>2, <1>3, <1>4 DEF NetNext

\* Sending adds to the sender's bus alone.
LEMMA SendAdds ==
  ASSUME IInv, NEW c \in Clients, NEW to, NEW data, SendMessage(c, to, data)
  PROVE  /\ Added({}) /\ UNCHANGED self_address
         /\ input[c] \in Seq(Messages)
         /\ input'[c] = Append(input[c], Message(c, to, data))
         /\ \A k \in Clients : k # c => input'[k] = input[k]
<1>1. input \in [Clients -> Seq(Messages)]
  BY DEF IInv, Places
<1>2. Added({})
  BY DEF SendMessage, Added, Away
<1> QED BY <1>1, <1>2 DEF SendMessage

\* A member sends: its registration while its bus is empty, or something else.
LEMMA MemberLate ==
  ASSUME IInv, LInv, NEW c \in Members, NEW data \in Chats, NEW to \in Addresses,
         SendMessage(c, to, data),
         program[c] = "register" \/ (program[c] = "loop" /\ data.type # "kRegister"),
         program' = [program EXCEPT ![c] = "loop"],
         UNCHANGED <<members, turn, heard>>
  PROVE  LInv'
<1> DEFINE m == Message(c, to, data)
<1>1. /\ c \in Clients /\ c # Room /\ Added({}) /\ UNCHANGED self_address
      /\ input[c] \in Seq(Messages) /\ input'[c] = Append(input[c], m)
      /\ \A k \in Clients : k # c => input'[k] = input[k]
  BY SendAdds DEF Members
<1>2. m \in Messages /\ m.data = data
  BY <1>1, AddressFacts DEF Message, Messages
<1> HIDE DEF m
<1>3. /\ Len(input[c]) \in Nat /\ Len(input'[c]) = Len(input[c]) + 1
      /\ \A i \in 1 .. Len(input[c]) : input'[c][i] = input[c][i]
      /\ input'[c][Len(input[c]) + 1] = m
  BY <1>1, <1>2, AppendProperties, LenProperties
<1>4. /\ program[c] \in {"start", "register"} => input[c] = <<>>
      /\ \A i \in 1 .. Len(input[c]) : Registers(input[c], i) => i = 1
      /\ NotTaken(c) => \A x : Away(x) => x.by # c
  BY DEF LInv, RegistersFirst
<1>5. program \in [Clients -> {"start", "register", "loop", "exit"}]
  BY DEF IInv, Programs
<1>6. RegistersFirst'
  <2> SUFFICES ASSUME NEW k \in Members
               PROVE  /\ program'[k] \in {"start", "register"} => input'[k] = <<>>
                      /\ \A i \in 1 .. Len(input'[k]) : Registers(input'[k], i) => i = 1
                      /\ NotTaken(k)' => \A x : Away(x)' => x.by # k
    BY DEF RegistersFirst, Registers
  <2>1. CASE k = c
    <3>1. program'[c] = "loop"
      BY <1>1, <1>5
    <3>2. ASSUME NEW i \in 1 .. Len(input'[c]), Registers(input'[c], i)
          PROVE  i = 1 /\ NotTaken(c)
      <4>1. CASE program[c] = "register"
        <5>1. Len(input[c]) = 0
          BY <1>4, <4>1, EmptySeq
        <5> QED BY <1>3, <4>1, <5>1 DEF NotTaken
      <4>2. CASE program[c] # "register"
        <5>1. i \in 1 .. Len(input[c])
          BY <1>2, <1>3, <3>2, <4>2 DEF Registers
        <5>2. Registers(input[c], i)
          BY <1>3, <3>2, <5>1 DEF Registers
        <5> QED BY <1>4, <5>1, <5>2 DEF NotTaken
      <4> QED BY <4>1, <4>2
    <3>3. NotTaken(c)' => NotTaken(c)
      BY <3>1, <3>2 DEF NotTaken, Registers
    <3> QED BY <1>1, <1>4, <2>1, <3>1, <3>2, <3>3 DEF Added
  <2>2. CASE k # c
    <3>1. k \in Clients /\ input'[k] = input[k] /\ program'[k] = program[k]
      BY <1>1, <1>5, <2>2 DEF Members
    <3>2. NotTaken(k)' => NotTaken(k)
      BY <3>1 DEF NotTaken, Registers
    <3> QED BY <1>1, <3>1, <3>2 DEF LInv, RegistersFirst, Added
  <2> QED BY <2>1, <2>2
<1>7. InTime' /\ NoneComesBack'
  BY <1>1, InTimeKeeps, NoneComesBackKeeps, AddressFacts
<1>8. NoEcho'
  BY NoEchoKeeps DEF MembersGrow
<1> QED BY <1>6, <1>7, <1>8 DEF LInv

\* The message the chatroom received came from a member, and was taken.
LEMMA ReceivedLate ==
  ASSUME NamesApart, IInv, LInv, NEW type, Receives(type), type \in {"kRegister", "kMessage"}
  PROVE  /\ Added({}) /\ UNCHANGED <<self_address, input>> /\ Away(Received)
         /\ Received.by \in Members /\ Received.from \in SourceAddresses(Received.by)
         /\ Received.data.name = Name[Received.by]
         /\ type = "kMessage" => Received.data.words.by = Received.by
         /\ Received.data.type = type
         /\ turn = Resting
<1>1. /\ Added({}) /\ UNCHANGED <<self_address, input>> /\ Away(Received) /\ turn = Resting
      /\ Received \in Reaching(Room) /\ Received.data.type = type
  BY ReceiveAdds, ReceiveKeeps, AddressFacts DEF Receives, Received, ReceiveMessage
<1> DEFINE m == Received
<1> HIDE DEF m
<1>2. m \in Reaching(Room) /\ m.data.type = type
  BY <1>1 DEF m
<1>3. m \in Messages /\ m.by \in Clients /\ m \in Meant(m.by) /\ m.from \in SourceAddresses(m.by)
  BY <1>2, MessageFacts DEF Reaching, Stamped
<1>4. m.by # Room
  <2> SUFFICES ASSUME m.by = Room PROVE FALSE
    OBVIOUS
  <2>1. PICK n \in DOMAIN members : m.to = members[n]
    BY <1>2, <1>3 DEF Meant
  <2>2. PICK c \in Members : Name[c] = n /\ members[n] \in SourceAddresses(c)
    BY DEF IInv, MembersRegistered
  <2>3. m.to.client = Name[c]
    BY <2>1, <2>2 DEF SourceAddresses, Address
  <2>4. m.to.client = Name[Room]
    BY <1>2 DEF Reaching, Address
  <2> QED BY <2>2, <2>3, <2>4 DEF NamesApart
<1>5. /\ m.by \in Members /\ m.data.name = Name[m.by]
      /\ type = "kMessage" => m.data.words.by = m.by
  BY <1>2, <1>3, <1>4 DEF Meant, Members
<1> QED BY <1>1, <1>3, <1>5 DEF m

LEMMA HandleRegisterLate ==
  ASSUME NamesApart, IInv, LInv, HandleRegister
  PROVE  LInv'
<1> DEFINE c == Received.by
           n == Received.data.name
           from == Received.from
<1>1. /\ Added({}) /\ UNCHANGED <<self_address, input>> /\ Away(Received) /\ c \in Members
      /\ from \in SourceAddresses(c) /\ n = Name[c] /\ turn = Resting
      /\ Received.data.type = "kRegister"
  BY ReceivedLate DEF HandleRegister
<1>2. /\ members' = [k \in DOMAIN members \cup {n} |-> IF k \in DOMAIN members THEN members[k] ELSE from]
      /\ UNCHANGED <<turn, program, said, spoken, heard>>
  BY DEF HandleRegister
<1>3. MembersGrow
  BY <1>2 DEF MembersGrow
<1>4. RegistersFirst' /\ NoEcho'
  BY <1>1, <1>2, <1>3, RegistersFirstKeeps, NoEchoKeeps
<1>5. InTime'
  <2> SUFFICES ASSUME NEW k \in Members, RegisteredInTime(k)'
               PROVE  /\ self_address[At[k]] = At[k]
                      /\ \A m : Away(m)' /\ m.by = k => m.from = OwnAddress(k)
    BY <1>1 DEF InTime, OwnAddress
  <2>1. RegisteredInTime(k)
    <3>1. CASE Name[k] \in DOMAIN members' /\ members'[Name[k]] = OwnAddress(k)
      <4>1. CASE Name[k] \in DOMAIN members
        BY <3>1, <4>1, <1>3 DEF MembersGrow, RegisteredInTime
      <4>2. CASE Name[k] \notin DOMAIN members
        <5>1. from = OwnAddress(k)
          BY <1>2, <3>1, <4>2
        <5>2. k = c
          <6>1. k \in Clients /\ c \in Clients /\ At[k] # LocalNode
            BY <1>1, NameFacts DEF Members
          <6>2. OwnAddress(k) = Address(At[c], Name[c]) \/ OwnAddress(k) = Address(LocalNode, Name[c])
            BY <1>1, <5>1 DEF SourceAddresses
          <6>3. At[k] = At[c] /\ Name[k] = Name[c]
            BY <6>1, <6>2 DEF OwnAddress, Address
          <6> QED BY <6>1, <6>3, NetworkAssumption
        <5> QED BY <1>1, <5>1, <5>2 DEF RegisteredInTime
      <4> QED BY <4>1, <4>2
    <3>2. CASE ~(Name[k] \in DOMAIN members' /\ members'[Name[k]] = OwnAddress(k))
      BY <1>1, <3>2 DEF RegisteredInTime, Added, OwnAddress
    <3> QED BY <3>1, <3>2
  <2> QED BY <1>1, <2>1 DEF LInv, InTime, Added
<1>6. NoneComesBack'
  <2>1. turn'.reply.type # "kMessage"
    BY <1>1, <1>2 DEF Resting, Chat
  <2> QED BY <1>1, <2>1 DEF LInv, NoneComesBack, Added, EchoFree, OwnAddress, Elements
<1> QED BY <1>4, <1>5, <1>6 DEF LInv

\* Steps of the chatroom that keep its members and send nothing.
LEMMA RoomLate ==
  ASSUME IInv, LInv, Added({}), UNCHANGED <<self_address, input, members, program, heard>>,
         turn'.reply.type = "kMessage" =>
           LET c == turn'.reply.words.by
           IN Name[c] \in turn'.left => members[Name[c]] # OwnAddress(c)
  PROVE  LInv'
<1>1. MembersGrow
  BY DEF MembersGrow
<1>2. RegistersFirst' /\ InTime' /\ NoEcho'
  BY <1>1, RegistersFirstKeeps, InTimeKeeps, NoEchoKeeps
<1>3. NoneComesBack'
  BY DEF LInv, NoneComesBack, Added, EchoFree, OwnAddress, Elements
<1> QED BY <1>2, <1>3 DEF LInv

LEMMA HandleMessageLate ==
  ASSUME NamesApart, IInv, LInv, HandleMessage
  PROVE  LInv'
<1> DEFINE c == Received.by
           from == Received.from
           left == Others(from)
<1>1. /\ Added({}) /\ UNCHANGED <<self_address, input>> /\ Away(Received) /\ c \in Members
      /\ from \in SourceAddresses(c) /\ Received.data.words.by = c
  BY ReceivedLate DEF HandleMessage
<1>2. Received.data \in Chats
  BY ReceivedFacts DEF HandleMessage
<1>3. /\ turn' = IF left = {} THEN Resting
                 ELSE [left |-> left, reply |-> [Received.data EXCEPT !.to_name = 0]]
      /\ UNCHANGED <<members, program, said, heard>>
  BY DEF HandleMessage, PassOn
<1>4. Name[c] \in left => members[Name[c]] # OwnAddress(c)
  <2> SUFFICES ASSUME Name[c] \in left, members[Name[c]] = OwnAddress(c) PROVE FALSE
    OBVIOUS
  <2>1. Name[c] \in DOMAIN members /\ members[Name[c]] # from
    BY DEF Others
  <2>2. RegisteredInTime(c)
    BY <2>1 DEF RegisteredInTime
  <2>3. from = OwnAddress(c)
    BY <1>1, <2>2 DEF LInv, InTime
  <2> QED BY <2>1, <2>3
<1>5. CASE left = {}
  <2>1. turn'.reply.type # "kMessage"
    BY <1>3, <1>5 DEF Resting, Chat
  <2> QED BY <1>1, <1>3, <2>1, RoomLate
<1>6. CASE left # {}
  <2>1. turn'.left = left /\ turn'.reply.words.by = c
    BY <1>1, <1>2, <1>3, <1>6 DEF Chats
  <2> HIDE DEF left, c
  <2> QED BY <1>1, <1>3, <1>4, <2>1, RoomLate
<1> QED BY <1>5, <1>6

LEMMA HandlePrivateLate ==
  ASSUME IInv, LInv, HandlePrivateMessage
  PROVE  LInv'
<1>1. Added({}) /\ UNCHANGED <<self_address, input>>
  BY ReceiveAdds, AddressFacts DEF HandlePrivateMessage, Receives, ReceiveMessage
<1>2. Received.data \in Chats /\ Received.data.type = "kPrivateMessage"
  BY ReceivedFacts DEF HandlePrivateMessage
<1>3. UNCHANGED <<members, program, heard>>
      /\ turn' = IF DOMAIN members \cap {Received.data.to_name} = {} THEN Resting
                 ELSE [left |-> DOMAIN members \cap {Received.data.to_name},
                       reply |-> [Received.data EXCEPT !.to_name = 0]]
  BY DEF HandlePrivateMessage, PassOn
<1>4. turn'.reply.type # "kMessage"
  BY <1>2, <1>3 DEF Resting, Chat, Chats
<1> QED BY <1>1, <1>3, <1>4, RoomLate

LEMMA BroadcastLate ==
  ASSUME IInv, LInv, BroadcastMessage
  PROVE  LInv'
<1>1. PICK n \in turn.left :
        /\ SendMessage(Room, IF turn.reply.type = "kMessage" THEN members[n] ELSE Default, turn.reply)
        /\ turn' = IF StillLeft(n) = {} THEN Resting ELSE [turn EXCEPT !.left = StillLeft(n)]
  BY DEF BroadcastMessage
<1> DEFINE to == IF turn.reply.type = "kMessage" THEN members[n] ELSE Default
<1>2. SendMessage(Room, to, turn.reply) /\ Reply(n) = Message(Room, to, turn.reply)
      /\ UNCHANGED <<members, program, said, spoken, heard>>
  BY <1>1 DEF Reply, BroadcastMessage
<1>3. /\ Added({}) /\ UNCHANGED self_address
      /\ input[Room] \in Seq(Messages)
      /\ input'[Room] = Append(input[Room], Reply(n))
      /\ \A k \in Clients : k # Room => input'[k] = input[k]
  BY <1>2, SendAdds, AddressFacts
<1>4. /\ Reply(n).by = Room /\ Reply(n).data = turn.reply /\ n \in DOMAIN members
      /\ Reply(n) \in Messages /\ Reply(n).to = to
  BY <1>2, ReplyFacts, SubsetFacts DEF Message
<1>5. RegistersFirst' /\ InTime' /\ NoEcho'
  <2>1. \A c \in Members : input'[c] = input[c]
    BY <1>3 DEF Members
  <2> QED BY <1>2, <1>3, <2>1, RegistersFirstKeeps, InTimeKeeps, NoEchoKeeps DEF MembersGrow
<1>6. EchoFree(Reply(n))
  <2> SUFFICES ASSUME turn.reply.type = "kMessage" PROVE members[n] # OwnAddress(turn.reply.words.by)
    BY <1>4 DEF EchoFree
  <2> DEFINE c == turn.reply.words.by
  <2> HIDE DEF c
  <2> SUFFICES ASSUME members[n] = OwnAddress(c) PROVE FALSE
    BY DEF c
  <2>1. members[n].client = n
    BY <1>4, AddressFacts DEF IInv, MembersRegistered, SourceAddresses
  <2>2. n = Name[c]
    BY <2>1 DEF OwnAddress, Address
  <2> QED BY <2>2 DEF LInv, NoneComesBack, c
<1>7. NoneComesBack'
  <2>1. \A m \in Elements(input'[Room]) : EchoFree(m)
    <3>1. Elements(input'[Room]) \subseteq Elements(input[Room]) \cup {Reply(n)}
      BY <1>3, <1>4, ElementsAppend
    <3> QED BY <1>6, <3>1 DEF LInv, NoneComesBack
  <2>2. \A m : Away(m)' => EchoFree(m)
    BY <1>3 DEF Added, LInv, NoneComesBack
  <2>3. turn'.reply.type = "kMessage" =>
          /\ turn.reply.type = "kMessage" /\ turn'.left \subseteq turn.left
          /\ turn'.reply = turn.reply
    <3>1. CASE StillLeft(n) = {}
      BY <1>1, <3>1 DEF Resting, Chat
    <3>2. CASE StillLeft(n) # {}
      <4>1. turn' = [turn EXCEPT !.left = StillLeft(n)]
        BY <1>1, <3>2
      <4>2. turn \in [left : SUBSET DOMAIN members, reply : Chats]
        BY DEF IInv, Turns
      <4> QED BY <4>1, <4>2 DEF StillLeft
    <3> QED BY <3>1, <3>2
  <2> HIDE DEF to
  <2> QED BY <1>2, <2>1, <2>2, <2>3 DEF LInv, NoneComesBack, EchoFree, OwnAddress, Elements
<1> QED BY <1>5, <1>7 DEF LInv

LEMMA HearLate ==
  ASSUME IInv, LInv, NEW c \in Members, Hear(c)
  PROVE  LInv'
<1> DEFINE m == Head(output[c])
<1>1. c \in Clients /\ ReceiveMessage(c)
  BY DEF Members, Hear
<1>2. m \in Reaching(c) /\ Added({}) /\ Away(m)
  BY <1>1, ReceiveKeeps, ReceiveAdds
<1>3. /\ heard' = IF m.data.type = "kMessage" THEN [heard EXCEPT ![c] = Append(@, m.data.words)]
                                              ELSE heard
      /\ UNCHANGED <<members, turn, program, said, spoken, self_address, input>>
  BY DEF Hear, ReceiveMessage
<1> HIDE DEF m
<1>4. RegistersFirst' /\ InTime' /\ NoneComesBack'
  BY <1>2, <1>3, RegistersFirstKeeps, InTimeKeeps, NoneComesBackKeeps
<1>5. NoEcho'
  <2>1. CASE m.data.type = "kMessage"
    <3>1. /\ m.data.words \in WordsSaid /\ m.by = Room /\ m.to = members[Name[c]]
          /\ \/ members[Name[c]] = OwnAddress(c)
             \/ At[c] = At[Room] /\ members[Name[c]] = Address(LocalNode, Name[c])
      BY <1>2, <2>1, HeardFacts DEF OwnAddress
    <3>2. m.data.words.by = c =>
            At[c] = At[Room] /\ members[Name[c]] = Address(LocalNode, Name[c])
      BY <1>2, <2>1, <3>1 DEF LInv, NoneComesBack, EchoFree
    <3>3. heard \in [Members -> Seq(WordsSaid)] /\ heard' = [heard EXCEPT ![c] = Append(@, m.data.words)]
      BY <1>3, <2>1 DEF IInv, Programs
    <3>4. ASSUME NEW k \in Members, NEW i \in 1 .. Len(heard'[k]), heard'[k][i].by = k
          PROVE  At[k] = At[Room] /\ members[Name[k]] = Address(LocalNode, Name[k])
      <4>1. CASE k # c
        BY <3>3, <3>4, <4>1 DEF LInv, NoEcho
      <4>2. CASE k = c
        <5>1. /\ heard'[c] = Append(heard[c], m.data.words) /\ Len(heard'[c]) = Len(heard[c]) + 1
              /\ Len(heard[c]) \in Nat
              /\ \A j \in 1 .. Len(heard[c]) : heard'[c][j] = heard[c][j]
              /\ heard'[c][Len(heard[c]) + 1] = m.data.words
          BY <3>1, <3>3, AppendProperties, LenProperties
        <5>2. CASE i = Len(heard[c]) + 1
          BY <3>2, <3>4, <4>2, <5>1, <5>2
        <5>3. CASE i \in 1 .. Len(heard[c])
          BY <3>4, <4>2, <5>1, <5>3 DEF LInv, NoEcho
        <5> QED BY <4>2, <5>1, <5>2, <5>3
      <4> QED BY <4>1, <4>2
    <3> QED BY <1>3, <3>4 DEF NoEcho
  <2>2. CASE m.data.type # "kMessage"
    BY <1>3, <2>2 DEF LInv, NoEcho
  <2> QED BY <2>1, <2>2
<1> QED BY <1>4, <1>5 DEF LInv

-----------------------------------------------------------------------------
LEMMA InitLate == Init => LInv
<1> SUFFICES ASSUME Init PROVE LInv
  OBVIOUS
<1>1. Elements(<<>>) = {}
  BY EmptySeq DEF Elements
<1>2. \A m : ~Away(m)
  BY <1>1 DEF Init, NetInit, Away
<1>3. \A c \in Clients : input[c] = <<>> /\ Len(input[c]) = 0
  BY EmptySeq DEF Init, NetInit
<1>4. RegistersFirst
  BY <1>2, <1>3 DEF RegistersFirst, Members
<1>5. InTime
  BY <1>2 DEF Init, InTime, RegisteredInTime
<1>6. NoneComesBack
  <2>1. turn.reply.type # "kMessage"
    BY DEF Init, Resting, Chat
  <2> QED BY <1>1, <1>2, <1>3, <2>1, AddressFacts DEF NoneComesBack
<1>7. NoEcho
  BY EmptySeq DEF Init, NoEcho
<1> QED BY <1>4, <1>5, <1>6, <1>7 DEF LInv

LEMMA LateStep ==
  ASSUME NamesApart
  PROVE  IInv /\ Given /\ LInv /\ [Next]_vars => LInv'
<1> SUFFICES ASSUME IInv, Given, LInv, [Next]_vars PROVE LInv'
  OBVIOUS
<1>1. CASE UNCHANGED vars
  <2>1. /\ UNCHANGED <<self_address, clients, input, output, pending, link>>
        /\ UNCHANGED <<members, turn, program, said, spoken, heard>>
    BY <1>1 DEF vars, netVars, chatVars
  <2>2. Added({})
    BY <2>1 DEF Added, Away
  <2> QED BY <2>1, <2>2, Calm
<1>2. ASSUME NEW c \in Clients, Start(c) PROVE LInv'
  <2>1. UNCHANGED <<self_address, input, output, pending, link, members, turn, said, spoken, heard>>
    BY <1>2 DEF Start, Create
  <2>2. Added({})
    BY <2>1 DEF Added, Away
  <2>3. \A k \in Members : program'[k] \in {"start", "register"} => program[k] \in {"start", "register"}
    BY <1>2 DEF IInv, Programs, Start, GoesOn, Members
  <2> QED BY <2>1, <2>2, <2>3, Calm
<1>3. ASSUME NEW c \in Members, Register(c) PROVE LInv'
  <2> DEFINE data == Chat("kRegister", Name[c], 0, Nothing)
  <2>1. data \in Chats
    BY ChatFacts
  <2> QED BY <1>3, <2>1, GivenFacts, MemberLate DEF Register, GoesOn
<1>4. ASSUME NEW c \in Members, Say(c) PROVE LInv'
  <2> DEFINE data == Chat("kMessage", Name[c], 0, Words(c, said'[c]))
  <2>1. said'[c] \in Nat \ {0}
    BY <1>4, SaidFacts DEF Say
  <2>2. data \in Chats /\ data.type # "kRegister"
    BY <2>1, ChatFacts DEF Chat
  <2>3. program' = [program EXCEPT ![c] = "loop"]
    BY <1>4 DEF Say, IInv, Programs, Members
  <2> QED BY <1>4, <2>2, <2>3, GivenFacts, MemberLate DEF Say
<1>5. ASSUME NEW c \in Members, NEW data \in OtherData(c), SayOther(c, data) PROVE LInv'
  <2>1. data \in Chats
    BY ChatFacts
  <2>2. data.type # "kRegister"
    BY DEF OtherData, Chat
  <2>3. program' = [program EXCEPT ![c] = "loop"]
    BY <1>5 DEF SayOther, IInv, Programs, Members
  <2> QED BY <1>5, <2>1, <2>2, <2>3, GivenFacts, MemberLate DEF SayOther
<1>6. ASSUME NEW c \in Members, SayFails(c) PROVE LInv'
  <2>1. Added({}) /\ UNCHANGED <<self_address, input, members, turn, heard>>
    BY <1>6 DEF SayFails, netVars, Added, Away
  <2>2. \A k \in Members : program'[k] \in {"start", "register"} => program[k] \in {"start", "register"}
    BY <1>6 DEF IInv, Programs, SayFails, GoesOn, Members
  <2> QED BY <2>1, <2>2, Calm
<1>7. ASSUME NEW c \in Members, Hear(c) PROVE LInv'
  BY <1>7, HearLate
<1>8. CASE HandleRegister \/ HandleMessage \/ HandlePrivateMessage
  BY <1>8, HandleRegisterLate, HandleMessageLate, HandlePrivateLate
<1>9. CASE HandleHeartBeat
  <2>1. Added({}) /\ UNCHANGED <<self_address, input, members, turn, program, heard>>
    BY <1>9, ReceiveAdds, AddressFacts DEF HandleHeartBeat, Receives, ReceiveMessage
  <2> QED BY <2>1, Calm
<1>10. CASE BroadcastMessage
  BY <1>10, BroadcastLate
<1>11. CASE BroadcastFails
  <2>1. Added({}) /\ UNCHANGED <<self_address, input, members, turn, heard>>
    BY <1>11 DEF BroadcastFails, netVars, Added, Away
  <2>2. \A k \in Members : program'[k] \in {"start", "register"} => program[k] \in {"start", "register"}
    BY <1>11 DEF IInv, Programs, BroadcastFails, GoesOn, Members
  <2> QED BY <2>1, <2>2, Calm
<1>12. CASE NetNext /\ UNCHANGED chatVars
  BY <1>12, NetLate
<1> QED BY <1>1, <1>2, <1>3, <1>4, <1>5, <1>6, <1>7, <1>8, <1>9, <1>10, <1>11, <1>12 DEF Next

\* Nobody hears his own words, except at the chatroom's node who registered
\* before its cpmd knew its address; if no member is called like the chatroom.
THEOREM NoEchoCorrect ==
  ASSUME NamesApart
  PROVE  Spec => []NoEcho
<1>1. Init => LInv
  BY InitLate
<1>2. IInv /\ Given /\ LInv /\ [Next]_vars => LInv'
  BY LateStep
<1>3. LInv => NoEcho
  BY DEF LInv
<1> QED BY <1>1, <1>2, <1>3, Invariant, PTL DEF Spec

-----------------------------------------------------------------------------
(* Order.  Messages of one kind go from the bus of one client to that of    *)
(* another through four queues.                                             *)

WordsIn(q, M) == {q[i].data.words : i \in {j \in 1 .. Len(q) : q[j] \in M}}

Rising(q, M, R) ==
  \A i, j \in 1 .. Len(q) :
    i < j /\ q[i] \in M /\ q[j] \in M => <<q[i].data.words, q[j].data.words>> \in R

Before(A, B, R) == \A x \in A, y \in B : <<x, y>> \in R

\* A comes first, then what is in the queues.
Line(A, out, lnk, pend, in, M, R) ==
  /\ Rising(out, M, R) /\ Rising(lnk, M, R) /\ Rising(pend, M, R) /\ Rising(in, M, R)
  /\ Before(A, WordsIn(out, M), R) /\ Before(A, WordsIn(lnk, M), R)
  /\ Before(A, WordsIn(pend, M), R) /\ Before(A, WordsIn(in, M), R)
  /\ Before(WordsIn(out, M), WordsIn(lnk, M), R) /\ Before(WordsIn(out, M), WordsIn(pend, M), R)
  /\ Before(WordsIn(out, M), WordsIn(in, M), R)
  /\ Before(WordsIn(lnk, M), WordsIn(pend, M), R) /\ Before(WordsIn(lnk, M), WordsIn(in, M), R)
  /\ Before(WordsIn(pend, M), WordsIn(in, M), R)

InLine(out, lnk, pend, in, M) ==
  WordsIn(out, M) \cup WordsIn(lnk, M) \cup WordsIn(pend, M) \cup WordsIn(in, M)

\* From the bus of a to that of b.
LineOf(A, a, b, M, R) ==
  Line(A, output[b], link[At[a]][At[b]], pending[At[a]][At[b]], input[a], M, R)
InLineOf(a, b, M) ==
  InLine(output[b], link[At[a]][At[b]], pending[At[a]][At[b]], input[a], M)

-----------------------------------------------------------------------------
\* The words of c, on their way to the chatroom and taken there.
By(c) ==
  {m \in Messages : /\ m.by = c /\ m.to \in RoomAddresses(c) /\ m.data.type = "kMessage"
                    /\ m.data.words \in WordsSaid /\ m.data.words.by = c}
SpokenBy(c) == {w \in Elements(spoken) : w.by = c}

\* In the order of their numbers; those of a client at the node of the chatroom
\* are at least told apart by them.
Numbered(c) ==
  {p \in WordsSaid \X WordsSaid : IF At[c] # At[Room] THEN p[1].n < p[2].n ELSE p[1].n # p[2].n}

SpeaksInOrder(c) ==
  /\ LineOf(SpokenBy(c), c, Room, By(c), Numbered(c))
  /\ \A i, j \in 1 .. Len(spoken) :
       i < j /\ spoken[i].by = c /\ spoken[j].by = c => <<spoken[i], spoken[j]>> \in Numbered(c)
  /\ \A w \in SpokenBy(c) \cup InLineOf(c, Room, By(c)) : w.n <= said[c]

SInv == \A c \in Members : SpeaksInOrder(c)

-----------------------------------------------------------------------------
\* What is told to c.
Targets(c) ==
  {Address(At[c], Name[c])} \cup (IF At[c] = At[Room] THEN {Address(LocalNode, Name[c])} ELSE {})
For(c) ==
  {m \in Messages : /\ m.by = Room /\ m.to \in Targets(c) /\ m.data.type = "kMessage"
                    /\ m.data.words \in WordsSaid}

Sooner ==
  {p \in WordsSaid \X WordsSaid :
     \E i, j \in 1 .. Len(spoken) : i < j /\ spoken[i] = p[1] /\ spoken[j] = p[2]}

Across(s, d) == Elements(pending[s][d]) \cup Elements(link[s][d])

Told(c) == Elements(heard[c]) \cup InLineOf(Room, c, For(c))

HearsInOrder(c) ==
  /\ LineOf(Elements(heard[c]), Room, c, For(c), Sooner)
  /\ \A i, j \in 1 .. Len(heard[c]) : i < j => <<heard[c][i], heard[c][j]>> \in Sooner
  /\ Told(c) \subseteq Elements(spoken)
  /\ At[c] = At[Room] => Across(At[c], At[c]) \cap For(c) = {}
  /\ turn.reply.type = "kMessage" /\ Name[c] \in turn.left =>
       /\ spoken # <<>> /\ turn.reply.words = spoken[Len(spoken)]
       /\ Before(Told(c), {turn.reply.words}, Sooner)

HInv == \A c \in Members : HearsInOrder(c)

-----------------------------------------------------------------------------
(* What becomes of the words in a queue.                                    *)

LEMMA WordsAppend ==
  ASSUME NEW S, NEW q \in Seq(S), NEW m \in S, NEW M, NEW R
  PROVE  /\ WordsIn(Append(q, m), M) \subseteq
              WordsIn(q, M) \cup (IF m \in M THEN {m.data.words} ELSE {})
         /\ Rising(q, M, R) /\ (m \in M => Before(WordsIn(q, M), {m.data.words}, R))
              => Rising(Append(q, m), M, R)
<1> DEFINE l == Len(q) + 1
<1>1. /\ Len(q) \in Nat /\ Len(Append(q, m)) = l
      /\ \A i \in 1 .. Len(q) : Append(q, m)[i] = q[i]
      /\ Append(q, m)[l] = m
  BY AppendProperties, LenProperties
<1>2. \A i \in 1 .. l : i \in 1 .. Len(q) \/ i = l
  BY <1>1
<1>3. WordsIn(Append(q, m), M) \subseteq WordsIn(q, M) \cup (IF m \in M THEN {m.data.words} ELSE {})
  <2> SUFFICES ASSUME NEW i \in 1 .. l, Append(q, m)[i] \in M
               PROVE  Append(q, m)[i].data.words \in
                        WordsIn(q, M) \cup (IF m \in M THEN {m.data.words} ELSE {})
    BY <1>1 DEF WordsIn
  <2> QED BY <1>1, <1>2 DEF WordsIn
<1>4. ASSUME Rising(q, M, R), m \in M => Before(WordsIn(q, M), {m.data.words}, R)
      PROVE  Rising(Append(q, m), M, R)
  <2> SUFFICES ASSUME NEW i \in 1 .. l, NEW j \in 1 .. l, i < j,
                      Append(q, m)[i] \in M, Append(q, m)[j] \in M
               PROVE  <<Append(q, m)[i].data.words, Append(q, m)[j].data.words>> \in R
    BY <1>1 DEF Rising
  <2>1. i \in 1 .. Len(q) /\ Append(q, m)[i] = q[i]
    BY <1>1
  <2>2. CASE j = l
    <3>1. q[i].data.words \in WordsIn(q, M)
      BY <2>1 DEF WordsIn
    <3> QED BY <1>1, <1>4, <2>1, <2>2, <3>1 DEF Before
  <2>3. CASE j \in 1 .. Len(q)
    BY <1>1, <1>4, <2>1, <2>3 DEF Rising
  <2> QED BY <1>2, <2>2, <2>3
<1> QED BY <1>3, <1>4

LEMMA WordsTail ==
  ASSUME NEW S, NEW q \in Seq(S), q # <<>>, NEW M, NEW R
  PROVE  /\ WordsIn(Tail(q), M) \subseteq WordsIn(q, M)
         /\ Rising(q, M, R) => Rising(Tail(q), M, R)
         /\ Head(q) \in M => Head(q).data.words \in WordsIn(q, M)
         /\ Head(q) \in M /\ Rising(q, M, R) => Before({Head(q).data.words}, WordsIn(Tail(q), M), R)
<1>1. /\ Len(q) \in Nat \ {0} /\ Len(Tail(q)) = Len(q) - 1 /\ Head(q) = q[1]
      /\ \A i \in 1 .. Len(Tail(q)) : i + 1 \in 1 .. Len(q) /\ Tail(q)[i] = q[i + 1]
  BY EmptySeq, HeadTailProperties
<1>2. 1 \in 1 .. Len(q)
  BY <1>1
<1>3. WordsIn(Tail(q), M) \subseteq WordsIn(q, M)
  BY <1>1 DEF WordsIn
<1>4. Rising(q, M, R) => Rising(Tail(q), M, R)
  BY <1>1 DEF Rising
<1>5. Head(q) \in M => Head(q).data.words \in WordsIn(q, M)
  BY <1>1, <1>2 DEF WordsIn
<1>6. ASSUME Head(q) \in M, Rising(q, M, R), NEW w \in WordsIn(Tail(q), M)
      PROVE  <<Head(q).data.words, w>> \in R
  <2>1. PICK i \in 1 .. Len(Tail(q)) : Tail(q)[i] \in M /\ w = Tail(q)[i].data.words
    BY <1>6 DEF WordsIn
  <2>2. i + 1 \in 1 .. Len(q) /\ 1 < i + 1 /\ q[i + 1] \in M /\ w = q[i + 1].data.words
    BY <1>1, <2>1
  <2> QED BY <1>1, <1>2, <1>6, <2>2 DEF Rising
<1> QED BY <1>3, <1>4, <1>5, <1>6 DEF Before

LEMMA WordsSubSeq ==
  ASSUME NEW S, NEW q \in Seq(S), NEW k \in 1 .. Len(q), NEW M, NEW R
  PROVE  /\ WordsIn(SubSeq(q, 2, k), M) \subseteq WordsIn(q, M)
         /\ Rising(q, M, R) => Rising(SubSeq(q, 2, k), M, R)
<1> DEFINE r == SubSeq(q, 2, k)
<1>1. /\ Len(q) \in Nat /\ k \in Int /\ 1 <= k /\ k <= Len(q)
  BY LenProperties
<1>2. Len(r) = k - 1 /\ \A i \in 1 .. (k - 1) : r[i] = q[i + 1]
  <2>1. \A i \in 2 .. k : q[i] \in S
    BY <1>1, ElementOfSeq
  <2>2. Len(r) = IF 2 <= k THEN k - 2 + 1 ELSE 0
    BY <1>1, <2>1, SubSeqProperties
  <2>3. \A i \in 1 .. (k - 2 + 1) : r[i] = q[2 + i - 1]
    BY <1>1, <2>1, SubSeqProperties
  <2> QED BY <1>1, <2>2, <2>3
<1> HIDE DEF r
<1>3. \A i \in 1 .. Len(r) : i + 1 \in 1 .. Len(q) /\ r[i] = q[i + 1] /\ i \in Int
  BY <1>1, <1>2
<1>4. WordsIn(r, M) \subseteq WordsIn(q, M)
  BY <1>3 DEF WordsIn
<1>5. Rising(q, M, R) => Rising(r, M, R)
  BY <1>3 DEF Rising
<1> QED BY <1>4, <1>5 DEF r

LEMMA WordsConcat ==
  ASSUME NEW S, NEW q \in Seq(S), NEW r \in Seq(S), NEW M, NEW R
  PROVE  /\ WordsIn(q \o r, M) \subseteq WordsIn(q, M) \cup WordsIn(r, M)
         /\ Rising(q, M, R) /\ Rising(r, M, R) /\ Before(WordsIn(q, M), WordsIn(r, M), R)
              => Rising(q \o r, M, R)
<1>1. /\ Len(q) \in Nat /\ Len(r) \in Nat /\ Len(q \o r) = Len(q) + Len(r)
      /\ \A i \in 1 .. Len(q) : (q \o r)[i] = q[i]
      /\ \A i \in 1 .. Len(q \o r) : i \notin 1 .. Len(q) =>
           i - Len(q) \in 1 .. Len(r) /\ (q \o r)[i] = r[i - Len(q)]
  BY ConcatProperties, LenProperties
<1>2. WordsIn(q \o r, M) \subseteq WordsIn(q, M) \cup WordsIn(r, M)
  BY <1>1 DEF WordsIn
<1>3. ASSUME Rising(q, M, R), Rising(r, M, R), Before(WordsIn(q, M), WordsIn(r, M), R),
             NEW i \in 1 .. Len(q \o r), NEW j \in 1 .. Len(q \o r), i < j,
             (q \o r)[i] \in M, (q \o r)[j] \in M
      PROVE  <<(q \o r)[i].data.words, (q \o r)[j].data.words>> \in R
  <2>1. CASE j \in 1 .. Len(q)
    BY <1>1, <1>3, <2>1 DEF Rising
  <2>2. CASE i \in 1 .. Len(q) /\ j \notin 1 .. Len(q)
    <3>1. (q \o r)[i].data.words \in WordsIn(q, M) /\ (q \o r)[j].data.words \in WordsIn(r, M)
      BY <1>1, <1>3, <2>2 DEF WordsIn
    <3> QED BY <1>3, <3>1 DEF Before
  <2>3. CASE i \notin 1 .. Len(q) /\ j \notin 1 .. Len(q)
    <3>1. /\ i - Len(q) \in 1 .. Len(r) /\ (q \o r)[i] = r[i - Len(q)]
          /\ j - Len(q) \in 1 .. Len(r) /\ (q \o r)[j] = r[j - Len(q)]
      BY <1>1, <2>3
    <3>2. i - Len(q) < j - Len(q)
      BY <1>1, <1>3
    <3> QED BY <1>3, <3>1, <3>2 DEF Rising
  <2> QED BY <1>1, <1>3, <2>1, <2>2, <2>3
<1> QED BY <1>2, <1>3 DEF Rising

LEMMA WordsEmpty ==
  ASSUME NEW M, NEW R
  PROVE  WordsIn(<<>>, M) = {} /\ Rising(<<>>, M, R)
BY EmptySeq DEF WordsIn, Rising

LEMMA WordsPush ==
  ASSUME NEW S, NEW q \in Seq(S), NEW m \in S, NEW max \in Nat \ {0}, NEW M, NEW R
  PROVE  /\ WordsIn(Push(q, m, max), M) \subseteq
              WordsIn(q, M) \cup (IF m \in M THEN {m.data.words} ELSE {})
         /\ Rising(q, M, R) /\ (m \in M => Before(WordsIn(q, M), {m.data.words}, R))
              => Rising(Push(q, m, max), M, R)
<1>1. CASE Full(q, max)
  <2>1. q # <<>>
    BY <1>1, EmptySeq DEF Full
  <2> DEFINE t == Tail(q)
  <2>2. /\ t \in Seq(S) /\ WordsIn(t, M) \subseteq WordsIn(q, M)
        /\ Rising(q, M, R) => Rising(t, M, R)
    BY <2>1, HeadTailProperties, WordsTail
  <2>3. Push(q, m, max) = Append(t, m)
    BY <1>1 DEF Push
  <2> HIDE DEF t
  <2>4. /\ WordsIn(Append(t, m), M) \subseteq
             WordsIn(t, M) \cup (IF m \in M THEN {m.data.words} ELSE {})
        /\ Rising(t, M, R) /\ (m \in M => Before(WordsIn(t, M), {m.data.words}, R))
             => Rising(Append(t, m), M, R)
    BY <2>2, WordsAppend
  <2> QED BY <2>2, <2>3, <2>4 DEF Before
<1>2. CASE ~Full(q, max)
  BY <1>2, WordsAppend DEF Push
<1> QED BY <1>1, <1>2

-----------------------------------------------------------------------------
(* What becomes of a line.                                                  *)

\* Words lost anywhere leave the others in line.
LEMMA LineLess ==
  ASSUME NEW A, NEW o, NEW l, NEW p, NEW i, NEW M, NEW R, Line(A, o, l, p, i, M, R),
         NEW o1, NEW l1, NEW p1, NEW i1,
         WordsIn(o1, M) \subseteq WordsIn(o, M), Rising(o1, M, R),
         WordsIn(l1, M) \subseteq WordsIn(l, M), Rising(l1, M, R),
         WordsIn(p1, M) \subseteq WordsIn(p, M), Rising(p1, M, R),
         WordsIn(i1, M) \subseteq WordsIn(i, M), Rising(i1, M, R)
  PROVE  Line(A, o1, l1, p1, i1, M, R) /\ InLine(o1, l1, p1, i1, M) \subseteq InLine(o, l, p, i, M)
<1>1. Line(A, o1, l1, p1, i1, M, R)
  BY DEF Line, Before
<1> QED BY <1>1 DEF InLine

Symmetric(R) == \A x, y : <<x, y>> \in R => <<y, x>> \in R

\* The first message of `in` goes to another queue, or is lost.
LEMMA LineTake ==
  ASSUME NEW A, NEW o \in Seq(Messages), NEW l \in Seq(Messages), NEW p \in Seq(Messages),
         NEW i \in Seq(Messages), NEW M, NEW R, Line(A, o, l, p, i, M, R),
         i # <<>>, NEW m \in Messages, m \in M <=> Head(i) \in M, m.data = Head(i).data,
         NEW o1, NEW l1, NEW p1,
         \/ o1 = o /\ l1 = l /\ p1 = p
         \/ o1 = o /\ l1 = l /\ p1 = Push(p, m, kMaxCachedMessageNum)
         \/ o1 = o /\ p = <<>> /\ l1 = Append(l, m) /\ p1 = p
         \/ /\ o1 = Append(o, m) /\ l1 = l /\ p1 = p
            /\ m \in M => Symmetric(R) \/ (WordsIn(l, M) = {} /\ WordsIn(p, M) = {})
  PROVE  Line(A, o1, l1, p1, Tail(i), M, R)
         /\ InLine(o1, l1, p1, Tail(i), M) \subseteq InLine(o, l, p, i, M)
<1> DEFINE W == IF m \in M THEN {m.data.words} ELSE {}
<1>1. /\ WordsIn(Tail(i), M) \subseteq WordsIn(i, M) /\ Rising(Tail(i), M, R)
      /\ W \subseteq WordsIn(i, M) /\ Before(W, WordsIn(Tail(i), M), R)
  <2>1. /\ WordsIn(Tail(i), M) \subseteq WordsIn(i, M)
        /\ Rising(i, M, R) => Rising(Tail(i), M, R)
        /\ Head(i) \in M => Head(i).data.words \in WordsIn(i, M)
        /\ Head(i) \in M /\ Rising(i, M, R) => Before({Head(i).data.words}, WordsIn(Tail(i), M), R)
    BY WordsTail
  <2>2. Rising(i, M, R)
    BY DEF Line
  <2> QED BY <2>1, <2>2 DEF Before
<1>2. CASE o1 = o /\ l1 = l /\ p1 = p
  BY <1>1, <1>2, LineLess DEF Line
<1>3. CASE o1 = o /\ l1 = l /\ p1 = Push(p, m, kMaxCachedMessageNum)
  <2>1. /\ WordsIn(p1, M) \subseteq WordsIn(p, M) \cup W
        /\ Rising(p, M, R) /\ (m \in M => Before(WordsIn(p, M), {m.data.words}, R)) => Rising(p1, M, R)
    BY <1>3, WordsPush, NetworkAssumption
  <2> HIDE DEF W
  <2>2. m \in M => Before(WordsIn(p, M), {m.data.words}, R)
    BY <1>1 DEF Line, Before, W
  <2> QED BY <1>1, <1>3, <2>1, <2>2 DEF Line, Before, InLine
<1>4. CASE o1 = o /\ p = <<>> /\ l1 = Append(l, m) /\ p1 = p
  <2>1. /\ WordsIn(l1, M) \subseteq WordsIn(l, M) \cup W
        /\ Rising(l, M, R) /\ (m \in M => Before(WordsIn(l, M), {m.data.words}, R)) => Rising(l1, M, R)
    BY <1>4, WordsAppend
  <2>2. WordsIn(p, M) = {}
    BY <1>4, WordsEmpty
  <2> HIDE DEF W
  <2>3. m \in M => Before(WordsIn(l, M), {m.data.words}, R)
    BY <1>1 DEF Line, Before, W
  <2> QED BY <1>1, <1>4, <2>1, <2>2, <2>3 DEF Line, Before, InLine
<1>5. CASE /\ o1 = Append(o, m) /\ l1 = l /\ p1 = p
           /\ m \in M => Symmetric(R) \/ (WordsIn(l, M) = {} /\ WordsIn(p, M) = {})
  <2>1. /\ WordsIn(o1, M) \subseteq WordsIn(o, M) \cup W
        /\ Rising(o, M, R) /\ (m \in M => Before(WordsIn(o, M), {m.data.words}, R)) => Rising(o1, M, R)
    BY <1>5, WordsAppend
  <2>2. Before(W, WordsIn(l, M), R) /\ Before(W, WordsIn(p, M), R)
    BY <1>1, <1>5 DEF Line, Before, Symmetric
  <2>3. m \in M => Before(WordsIn(o, M), {m.data.words}, R)
    BY <1>1 DEF Line, Before
  <2> HIDE DEF W
  <2> QED BY <1>1, <1>5, <2>1, <2>2, <2>3 DEF Line, Before, InLine
<1> QED BY <1>2, <1>3, <1>4, <1>5

\* The first message of a link is delivered, or lost.
LEMMA LineDeliver ==
  ASSUME NEW A, NEW o \in Seq(Messages), NEW l \in Seq(Messages), NEW p \in Seq(Messages),
         NEW i \in Seq(Messages), NEW M, NEW R, Line(A, o, l, p, i, M, R),
         l # <<>>, NEW o1, o1 = o \/ o1 = Append(o, Head(l))
  PROVE  Line(A, o1, Tail(l), p, i, M, R)
         /\ InLine(o1, Tail(l), p, i, M) \subseteq InLine(o, l, p, i, M)
<1> DEFINE m == Head(l)
           W == IF m \in M THEN {m.data.words} ELSE {}
<1>1. /\ WordsIn(Tail(l), M) \subseteq WordsIn(l, M) /\ Rising(Tail(l), M, R)
      /\ W \subseteq WordsIn(l, M) /\ Before(W, WordsIn(Tail(l), M), R)
  <2>1. /\ WordsIn(Tail(l), M) \subseteq WordsIn(l, M)
        /\ Rising(l, M, R) => Rising(Tail(l), M, R)
        /\ m \in M => m.data.words \in WordsIn(l, M)
        /\ m \in M /\ Rising(l, M, R) => Before({m.data.words}, WordsIn(Tail(l), M), R)
    BY WordsTail
  <2>2. Rising(l, M, R)
    BY DEF Line
  <2> QED BY <2>1, <2>2 DEF Before
<1>2. m \in Messages
  BY TailKeeps
<1> HIDE DEF m
<1>3. CASE o1 = o
  <2>1. Rising(o, M, R) /\ Rising(p, M, R) /\ Rising(i, M, R)
    BY DEF Line
  <2> QED BY <1>1, <1>3, <2>1, LineLess
<1>4. CASE o1 = Append(o, m)
  <2>1. /\ WordsIn(o1, M) \subseteq WordsIn(o, M) \cup W
        /\ Rising(o, M, R) /\ (m \in M => Before(WordsIn(o, M), {m.data.words}, R)) => Rising(o1, M, R)
    BY <1>2, <1>4, WordsAppend
  <2>2. m \in M => Before(WordsIn(o, M), {m.data.words}, R)
    BY <1>1 DEF Line, Before
  <2> HIDE DEF W
  <2> QED BY <1>1, <1>4, <2>1, <2>2 DEF Line, Before, InLine
<1> QED BY <1>3, <1>4 DEF m

\* What was kept is written.
LEMMA LineFlush ==
  ASSUME NEW A, NEW o \in Seq(Messages), NEW l \in Seq(Messages), NEW p \in Seq(Messages),
         NEW i \in Seq(Messages), NEW M, NEW R, Line(A, o, l, p, i, M, R)
  PROVE  Line(A, o, l \o p, <<>>, i, M, R)
         /\ InLine(o, l \o p, <<>>, i, M) \subseteq InLine(o, l, p, i, M)
<1>1. /\ WordsIn(l \o p, M) \subseteq WordsIn(l, M) \cup WordsIn(p, M)
      /\ Rising(l, M, R) /\ Rising(p, M, R) /\ Before(WordsIn(l, M), WordsIn(p, M), R)
           => Rising(l \o p, M, R)
  BY WordsConcat
<1>2. WordsIn(<<>>, M) = {} /\ Rising(<<>>, M, R)
  BY WordsEmpty
<1> HIDE DEF WordsIn, Rising
<1> QED BY <1>1, <1>2 DEF Line, Before, InLine

\* The first message of `out` is received.
LEMMA LineReceive ==
  ASSUME NEW A, NEW o \in Seq(Messages), NEW l \in Seq(Messages), NEW p \in Seq(Messages),
         NEW i \in Seq(Messages), NEW M, NEW R, Line(A, o, l, p, i, M, R), o # <<>>
  PROVE  /\ Line(A, Tail(o), l, p, i, M, R)
         /\ InLine(Tail(o), l, p, i, M) \subseteq InLine(o, l, p, i, M)
         /\ LET w == Head(o).data.words
            IN  Head(o) \in M => /\ Line(A \cup {w}, Tail(o), l, p, i, M, R)
                                 /\ Before(A, {w}, R) /\ w \in InLine(o, l, p, i, M)
<1> DEFINE m == Head(o)
           w == m.data.words
<1>1. /\ WordsIn(Tail(o), M) \subseteq WordsIn(o, M) /\ Rising(Tail(o), M, R)
      /\ m \in M => w \in WordsIn(o, M) /\ Before({w}, WordsIn(Tail(o), M), R)
  <2>1. /\ WordsIn(Tail(o), M) \subseteq WordsIn(o, M)
        /\ Rising(o, M, R) => Rising(Tail(o), M, R)
        /\ m \in M => w \in WordsIn(o, M)
        /\ m \in M /\ Rising(o, M, R) => Before({w}, WordsIn(Tail(o), M), R)
    BY WordsTail
  <2>2. Rising(o, M, R)
    BY DEF Line
  <2> QED BY <2>1, <2>2
<1> HIDE DEF m, w
<1>2. Line(A, Tail(o), l, p, i, M, R) /\ InLine(Tail(o), l, p, i, M) \subseteq InLine(o, l, p, i, M)
  <2>1. Rising(l, M, R) /\ Rising(p, M, R) /\ Rising(i, M, R)
    BY DEF Line
  <2> QED BY <1>1, <2>1, LineLess
<1>3. ASSUME m \in M
      PROVE  Line(A \cup {w}, Tail(o), l, p, i, M, R) /\ Before(A, {w}, R) /\ w \in InLine(o, l, p, i, M)
  BY <1>1, <1>3 DEF Line, Before, InLine
<1> QED BY <1>2, <1>3 DEF m, w

\* A message is sent.
LEMMA LineSend ==
  ASSUME NEW A, NEW o \in Seq(Messages), NEW l \in Seq(Messages), NEW p \in Seq(Messages),
         NEW i \in Seq(Messages), NEW M, NEW R, Line(A, o, l, p, i, M, R), NEW m \in Messages,
         m \in M => Before(A \cup InLine(o, l, p, i, M), {m.data.words}, R)
  PROVE  Line(A, o, l, p, Append(i, m), M, R)
         /\ InLine(o, l, p, Append(i, m), M) \subseteq
              InLine(o, l, p, i, M) \cup (IF m \in M THEN {m.data.words} ELSE {})
<1> DEFINE W == IF m \in M THEN {m.data.words} ELSE {}
<1>1. /\ WordsIn(Append(i, m), M) \subseteq WordsIn(i, M) \cup W
      /\ Rising(i, M, R) /\ (m \in M => Before(WordsIn(i, M), {m.data.words}, R))
           => Rising(Append(i, m), M, R)
  BY WordsAppend
<1>2. m \in M => Before(WordsIn(i, M), {m.data.words}, R)
  BY DEF InLine, Before
<1>3. \A w \in W : m \in M /\ w = m.data.words
  OBVIOUS
<1> HIDE DEF W
<1>4. Line(A, o, l, p, Append(i, m), M, R)
  BY <1>1, <1>2, <1>3 DEF Line, Before, InLine
<1> QED BY <1>1, <1>4 DEF InLine, W

\* More may come before something, and more may be in front.
LEMMA LineGrows ==
  ASSUME NEW A, NEW o, NEW l, NEW p, NEW i, NEW M, NEW R, Line(A, o, l, p, i, M, R),
         NEW Q, R \subseteq Q
  PROVE  Line(A, o, l, p, i, M, Q)
BY DEF Line, Before, Rising
-----------------------------------------------------------------------------
(* What a step of the network does to the line from a client to another.    *)

StaysInLine(A, a, b, M, R) ==
  /\ Line(A, output'[b], link'[At[a]][At[b]], pending'[At[a]][At[b]], input'[a], M, R)
  /\ InLine(output'[b], link'[At[a]][At[b]], pending'[At[a]][At[b]], input'[a], M)
       \subseteq InLineOf(a, b, M)

\* Messages of a, whatever address they come under.
SomeOf(a, M) ==
  /\ M \subseteq Messages /\ \A m \in M : m.by = a
  /\ \A m, k \in Messages :
       m.by = k.by /\ m.to = k.to /\ m.data = k.data => (m \in M <=> k \in M)

\* What goes the short way overtakes nothing that matters.
NoneOvertaken(a, b, M, R) ==
  \A m \in M : IsLocal(At[a], m) =>
    \/ Symmetric(R)
    \/ WordsIn(link[At[a]][At[b]], M) = {} /\ WordsIn(pending[At[a]][At[b]], M) = {}

LEMMA QueueTypes ==
  ASSUME IInv, NEW a \in Clients, NEW b \in Clients
  PROVE  /\ input[a] \in Seq(Messages) /\ output[b] \in Seq(Messages)
         /\ link[At[a]][At[b]] \in Seq(Messages) /\ pending[At[a]][At[b]] \in Seq(Messages)
         /\ At[a] \in Nodes /\ At[b] \in Nodes
BY NameFacts DEF IInv, Places

LEMMA OthersAppend ==
  ASSUME NEW S, NEW q \in Seq(S), NEW m \in S, NEW M, m \notin M, NEW R
  PROVE  /\ WordsIn(Append(q, m), M) \subseteq WordsIn(q, M)
         /\ Rising(q, M, R) => Rising(Append(q, m), M, R)
<1>1. /\ WordsIn(Append(q, m), M) \subseteq WordsIn(q, M) \cup (IF m \in M THEN {m.data.words} ELSE {})
      /\ Rising(q, M, R) /\ (m \in M => Before(WordsIn(q, M), {m.data.words}, R))
           => Rising(Append(q, m), M, R)
  BY WordsAppend
<1> QED BY <1>1

\* Nothing but messages of others comes into the bus of b.
LEMMA LineOthers ==
  ASSUME NEW A, NEW o \in Seq(Messages), NEW l, NEW p, NEW i, NEW M, NEW R, Line(A, o, l, p, i, M, R),
         NEW m \in Messages, m \notin M, NEW o1, o1 = o \/ o1 = Append(o, m)
  PROVE  Line(A, o1, l, p, i, M, R) /\ InLine(o1, l, p, i, M) \subseteq InLine(o, l, p, i, M)
<1>1. /\ WordsIn(Append(o, m), M) \subseteq WordsIn(o, M)
      /\ Rising(o, M, R) => Rising(Append(o, m), M, R)
  BY OthersAppend
<1>2. Rising(o, M, R) /\ Rising(l, M, R) /\ Rising(p, M, R) /\ Rising(i, M, R)
  BY DEF Line
<1>3. WordsIn(o1, M) \subseteq WordsIn(o, M) /\ Rising(o1, M, R)
  BY <1>1, <1>2
<1> QED BY <1>2, <1>3, LineLess

LEMMA ForwardTo ==
  ASSUME IInv, NEW s \in Nodes, NEW m \in Messages, Forward(s, m), NEW b \in Clients
  PROVE  \/ output'[b] = output[b]
         \/ At[b] = s /\ output'[b] = Append(output[b], m)
<1> DEFINE c == IF m.to.client \in Names THEN clients[s][m.to.client] ELSE NoClient
<1>1. CASE c # NoClient /\ Fits(output, c)
  <2>1. c \in Clients /\ At[c] = s
    BY <1>1 DEF IInv, CpmdsKnow
  <2>2. output' = [output EXCEPT ![c] = Append(@, m)]
    BY <1>1 DEF Forward
  <2> HIDE DEF c
  <2>3. output \in [Clients -> Seq(Messages)]
    BY DEF IInv, Places
  <2> QED BY <2>1, <2>2, <2>3
<1>2. CASE ~(c # NoClient /\ Fits(output, c))
  BY <1>2 DEF Forward
<1> QED BY <1>1, <1>2

LEMMA TakenSame ==
  ASSUME IInv, NEW c \in Clients, Take(c), NEW M, SomeOf(c, M)
  PROVE  /\ input[c] # <<>> /\ input'[c] = Tail(input[c])
         /\ Taken(c) \in M <=> Head(input[c]) \in M
         /\ Taken(c).data = Head(input[c]).data
<1> DEFINE h == Head(input[c])
           t == Taken(c)
<1>1. /\ t \in Messages /\ t.by = c /\ h \in Meant(c)
      /\ t = [h EXCEPT !.from = Address(self_address[At[c]], Name[c])]
  BY TakenFacts
<1>2. h \in Messages /\ h.by = c
  BY <1>1 DEF Meant
<1>3. input[c] # <<>> /\ input'[c] = Tail(input[c])
  BY DEF Take, IInv, Places
<1> HIDE DEF h, t
<1>4. t.to = h.to /\ t.data = h.data
  BY <1>1, <1>2 DEF Messages
<1>5. t \in M <=> h \in M
  BY <1>1, <1>2, <1>4 DEF SomeOf
<1> QED BY <1>3, <1>4, <1>5 DEF h, t

LEMMA LocalLine ==
  ASSUME IInv, NEW c \in Clients, HandleToLocalMessage(c),
         NEW a \in Clients, NEW b \in Clients, NEW A, NEW M, NEW R,
         SomeOf(a, M), NoneOvertaken(a, b, M, R), LineOf(A, a, b, M, R)
  PROVE  StaysInLine(A, a, b, M, R)
<1> DEFINE o == output[b]
           l == link[At[a]][At[b]]
           p == pending[At[a]][At[b]]
           i == input[a]
           m == Taken(c)
<1>1. /\ o \in Seq(Messages) /\ l \in Seq(Messages) /\ p \in Seq(Messages) /\ i \in Seq(Messages)
      /\ Line(A, o, l, p, i, M, R)
  BY QueueTypes DEF LineOf
<1>2. /\ Take(c) /\ IsLocal(At[c], m) /\ Forward(At[c], m) /\ UNCHANGED <<pending, link>>
      /\ At[c] \in Nodes
  BY NameFacts DEF HandleToLocalMessage
<1>3. m \in Messages /\ m.by = c
  BY <1>2, TakenFacts
<1>4. /\ link'[At[a]][At[b]] = l /\ pending'[At[a]][At[b]] = p
      /\ output'[b] = o \/ output'[b] = Append(o, m)
  BY <1>2, <1>3, ForwardTo
<1>5. input'[a] = IF a = c THEN Tail(i) ELSE i
  BY <1>2 DEF Take, IInv, Places
<1>6. CASE a # c
  <2>1. m \notin M /\ input'[a] = i
    BY <1>3, <1>5, <1>6 DEF SomeOf
  <2> HIDE DEF m, o, l, p, i
  <2>2. Line(A, output'[b], l, p, i, M, R) /\ InLine(output'[b], l, p, i, M) \subseteq InLine(o, l, p, i, M)
    BY <1>1, <1>3, <1>4, <2>1, LineOthers
  <2> QED BY <1>4, <2>1, <2>2 DEF StaysInLine, InLineOf, o, l, p, i
<1>7. CASE a = c
  <2>1. i # <<>> /\ input'[a] = Tail(i) /\ (m \in M <=> Head(i) \in M) /\ m.data = Head(i).data
    BY <1>2, <1>5, <1>7, TakenSame
  <2>2. m \in M => Symmetric(R) \/ (WordsIn(l, M) = {} /\ WordsIn(p, M) = {})
    BY <1>2, <1>7 DEF NoneOvertaken
  <2> HIDE DEF m, o, l, p, i
  <2>3. Line(A, output'[b], l, p, Tail(i), M, R)
        /\ InLine(output'[b], l, p, Tail(i), M) \subseteq InLine(o, l, p, i, M)
    <3> DEFINE o1 == output'[b]
    <3>1. \/ o1 = o /\ l = l /\ p = p
          \/ o1 = Append(o, m) /\ l = l /\ p = p
             /\ (m \in M => Symmetric(R) \/ (WordsIn(l, M) = {} /\ WordsIn(p, M) = {}))
      BY <1>4, <2>2
    <3>2. i # <<>> /\ m \in Messages /\ (m \in M <=> Head(i) \in M) /\ m.data = Head(i).data
      BY <1>3, <2>1
    <3> HIDE DEF o1
    <3>3. Line(A, o1, l, p, Tail(i), M, R) /\ InLine(o1, l, p, Tail(i), M) \subseteq InLine(o, l, p, i, M)
      BY <1>1, <3>1, <3>2, LineTake
    <3> QED BY <3>3 DEF o1
  <2> QED BY <1>4, <2>1, <2>3 DEF StaysInLine, InLineOf, o, l, p, i
<1> QED BY <1>6, <1>7

LEMMA OnDemandLine ==
  ASSUME IInv, NEW c \in Clients, ConnectOnDemand(c),
         NEW a \in Clients, NEW b \in Clients, NEW A, NEW M, NEW R,
         LineOf(A, a, b, M, R)
  PROVE  StaysInLine(A, a, b, M, R)
<1> DEFINE o == output[b]
           l == link[At[a]][At[b]]
           p == pending[At[a]][At[b]]
           i == input[a]
<1>1. i \in Seq(Messages) /\ Line(A, o, l, p, i, M, R)
  BY QueueTypes DEF LineOf
<1>2. /\ link'[At[a]][At[b]] = l /\ pending'[At[a]][At[b]] = p /\ output'[b] = o
      /\ input'[a] = i \/ (i # <<>> /\ input'[a] = Tail(i))
  BY DEF ConnectOnDemand, Take, IInv, Places
<1> HIDE DEF o, l, p, i
<1>3. Rising(o, M, R) /\ Rising(l, M, R) /\ Rising(p, M, R) /\ Rising(i, M, R)
  BY <1>1 DEF Line
<1>4. WordsIn(input'[a], M) \subseteq WordsIn(i, M) /\ Rising(input'[a], M, R)
  BY <1>1, <1>2, <1>3, WordsTail
<1>5. Line(A, o, l, p, input'[a], M, R) /\ InLine(o, l, p, input'[a], M) \subseteq InLine(o, l, p, i, M)
  BY <1>1, <1>3, <1>4, LineLess
<1> QED BY <1>2, <1>5 DEF StaysInLine, InLineOf, o, l, p, i

LEMMA RemoteLine ==
  ASSUME IInv, NEW c \in Clients, HandleToRemoteMessage(c),
         NEW a \in Clients, NEW b \in Clients, NEW A, NEW M, NEW R,
         SomeOf(a, M), LineOf(A, a, b, M, R)
  PROVE  StaysInLine(A, a, b, M, R)
<1> DEFINE o == output[b]
           l == link[At[a]][At[b]]
           p == pending[At[a]][At[b]]
           i == input[a]
           m == Taken(c)
           s == At[c]
           d == m.to.node
           l1 == link'[At[a]][At[b]]
           p1 == pending'[At[a]][At[b]]
<1>1. /\ o \in Seq(Messages) /\ l \in Seq(Messages) /\ p \in Seq(Messages) /\ i \in Seq(Messages)
      /\ Line(A, o, l, p, i, M, R) /\ At[a] \in Nodes /\ At[b] \in Nodes /\ s \in Nodes
  BY QueueTypes DEF LineOf
<1>2. /\ Take(c) /\ ~IsLocal(s, m) /\ output'[b] = o
      /\ \/ /\ pending[s][d] = <<>> /\ pending' = pending
            /\ link' = [link EXCEPT ![s][d] = Append(@, m)]
         \/ /\ pending' = [pending EXCEPT ![s][d] = Push(@, m, kMaxCachedMessageNum)]
            /\ link' = link
  BY DEF HandleToRemoteMessage
<1>3. m \in Messages /\ m.by = c
  BY <1>2, TakenFacts
<1>4. d \in Nodes
  BY <1>2, <1>3, MessageFacts, AddressFacts DEF IsLocal
<1>5. input'[a] = IF a = c THEN Tail(i) ELSE i
  BY <1>2 DEF Take, IInv, Places
<1>6. /\ link \in [Nodes -> [Nodes -> Seq(Messages)]]
      /\ pending \in [Nodes -> [Nodes -> Seq(Messages)]]
  BY DEF IInv, Places
<1> HIDE DEF m, s, d, o, i
<1>7. IF At[a] = s /\ At[b] = d
      THEN \/ p = <<>> /\ p1 = p /\ l1 = Append(l, m)
           \/ p1 = Push(p, m, kMaxCachedMessageNum) /\ l1 = l
      ELSE p1 = p /\ l1 = l
  <2>1. CASE pending[s][d] = <<>> /\ pending' = pending /\ link' = [link EXCEPT ![s][d] = Append(@, m)]
    BY <1>1, <1>4, <1>6, <2>1
  <2>2. CASE pending' = [pending EXCEPT ![s][d] = Push(@, m, kMaxCachedMessageNum)] /\ link' = link
    BY <1>1, <1>4, <1>6, <2>2
  <2> QED BY <1>2, <2>1, <2>2
<1> HIDE DEF l, p, l1, p1
<1>8. CASE a # c
  <2>1. input'[a] = i /\ m \notin M
    BY <1>3, <1>5, <1>8 DEF SomeOf
  <2>2. Rising(o, M, R) /\ Rising(l, M, R) /\ Rising(p, M, R) /\ Rising(i, M, R)
    BY <1>1 DEF Line
  <2>3. /\ WordsIn(l1, M) \subseteq WordsIn(l, M) /\ Rising(l1, M, R)
        /\ WordsIn(p1, M) \subseteq WordsIn(p, M) /\ Rising(p1, M, R)
    <3>1. /\ WordsIn(Append(l, m), M) \subseteq WordsIn(l, M) /\ Rising(Append(l, m), M, R)
      BY <1>1, <1>3, <2>1, <2>2, OthersAppend
    <3>2. /\ WordsIn(Push(p, m, kMaxCachedMessageNum), M) \subseteq
                WordsIn(p, M) \cup (IF m \in M THEN {m.data.words} ELSE {})
          /\ Rising(p, M, R) /\ (m \in M => Before(WordsIn(p, M), {m.data.words}, R))
               => Rising(Push(p, m, kMaxCachedMessageNum), M, R)
      BY <1>1, <1>3, WordsPush, NetworkAssumption
    <3> QED BY <1>7, <2>1, <2>2, <3>1, <3>2
  <2>4. Line(A, o, l1, p1, i, M, R) /\ InLine(o, l1, p1, i, M) \subseteq InLine(o, l, p, i, M)
    BY <1>1, <2>2, <2>3, LineLess
  <2> QED BY <1>2, <2>1, <2>4 DEF StaysInLine, InLineOf, o, l, p, i, l1, p1
<1>9. CASE a = c
  <2>1. i # <<>> /\ input'[a] = Tail(i) /\ (m \in M <=> Head(i) \in M) /\ m.data = Head(i).data
    BY <1>2, <1>5, <1>9, TakenSame DEF m, i
  <2>2. \/ o = o /\ l1 = l /\ p1 = p
        \/ o = o /\ l1 = l /\ p1 = Push(p, m, kMaxCachedMessageNum)
        \/ o = o /\ p = <<>> /\ l1 = Append(l, m) /\ p1 = p
    BY <1>7
  <2>3. Line(A, o, l1, p1, Tail(i), M, R) /\ InLine(o, l1, p1, Tail(i), M) \subseteq InLine(o, l, p, i, M)
    <3>1. /\ o \in Seq(Messages) /\ l \in Seq(Messages) /\ p \in Seq(Messages) /\ i \in Seq(Messages)
          /\ Line(A, o, l, p, i, M, R) /\ m \in Messages
          /\ i # <<>> /\ (m \in M <=> Head(i) \in M) /\ m.data = Head(i).data
      BY <1>1, <1>3, <2>1
    <3>2. CASE l1 = l /\ p1 = p
      BY <3>1, <3>2, LineTake
    <3>3. CASE l1 = l /\ p1 = Push(p, m, kMaxCachedMessageNum)
      BY <3>1, <3>3, LineTake
    <3>4. CASE p = <<>> /\ l1 = Append(l, m) /\ p1 = p
      BY <3>1, <3>4, LineTake
    <3> QED BY <2>2, <3>2, <3>3, <3>4
  <2> QED BY <1>2, <2>1, <2>3 DEF StaysInLine, InLineOf, o, l, p, i, l1, p1
<1> QED BY <1>8, <1>9

\* Between two cpmds.
LEMMA MoveLine ==
  ASSUME IInv, NEW s \in Nodes, NEW d \in Nodes,
         FlushMessage(s, d) \/ HandleRemoteMessage(s, d) \/ RefuseRemoteMessage(s, d)
           \/ LinkBreaks(s, d),
         NEW a \in Clients, NEW b \in Clients, NEW A, NEW M, NEW R,
         SomeOf(a, M), LineOf(A, a, b, M, R)
  PROVE  StaysInLine(A, a, b, M, R)
<1> DEFINE o == output[b]
           l == link[At[a]][At[b]]
           p == pending[At[a]][At[b]]
           i == input[a]
           o1 == output'[b]
           l1 == link'[At[a]][At[b]]
           p1 == pending'[At[a]][At[b]]
           q == link[s][d]
           between == At[a] = s /\ At[b] = d
<1>1. /\ o \in Seq(Messages) /\ l \in Seq(Messages) /\ p \in Seq(Messages) /\ i \in Seq(Messages)
      /\ Line(A, o, l, p, i, M, R) /\ At[a] \in Nodes /\ At[b] \in Nodes
  BY QueueTypes DEF LineOf
<1>2. Rising(o, M, R) /\ Rising(l, M, R) /\ Rising(p, M, R) /\ Rising(i, M, R)
  BY <1>1 DEF Line
<1>3. /\ link \in [Nodes -> [Nodes -> Seq(Messages)]]
      /\ pending \in [Nodes -> [Nodes -> Seq(Messages)]]
      /\ q \in Seq(Between(s, d)) /\ q \in Seq(Messages) /\ (between => q = l)
  BY DEF IInv, Places
<1>4. input'[a] = i
  BY DEF FlushMessage, HandleRemoteMessage, RefuseRemoteMessage, LinkBreaks
<1>5. CASE FlushMessage(s, d)
  <2>1. /\ pending' = [pending EXCEPT ![s][d] = <<>>] /\ link' = [link EXCEPT ![s][d] = @ \o pending[s][d]]
        /\ o1 = o
    BY <1>5 DEF FlushMessage
  <2>2. IF between THEN l1 = l \o p /\ p1 = <<>> ELSE l1 = l /\ p1 = p
    BY <1>1, <1>3, <2>1
  <2> HIDE DEF o, l, p, i, o1, l1, p1, q, between
  <2>3. Line(A, o1, l1, p1, i, M, R) /\ InLine(o1, l1, p1, i, M) \subseteq InLine(o, l, p, i, M)
    <3>1. CASE between
      BY <1>1, <2>1, <2>2, <3>1, LineFlush
    <3>2. CASE ~between
      BY <1>1, <2>1, <2>2, <3>2
    <3> QED BY <3>1, <3>2
  <2> QED BY <1>4, <2>3 DEF StaysInLine, InLineOf, o, l, p, i, o1, l1, p1
<1>6. CASE HandleRemoteMessage(s, d)
  <2> DEFINE m == Head(q)
  <2>1. q # <<>> /\ link' = [link EXCEPT ![s][d] = Tail(@)] /\ pending' = pending /\ Forward(d, m)
    BY <1>6 DEF HandleRemoteMessage
  <2>2. m \in Between(s, d) /\ m \in Messages
    BY <1>3, <2>1, TailKeeps
  <2>3. o1 = o \/ (At[b] = d /\ o1 = Append(o, m))
    BY <2>1, <2>2, ForwardTo
  <2>4. p1 = p /\ l1 = IF between THEN Tail(l) ELSE l
    BY <1>1, <1>3, <2>1
  <2>5. m \in M => At[a] = s
    BY <2>2 DEF SomeOf, Between
  <2>6. between => l # <<>> /\ m = Head(l)
    BY <1>3, <2>1
  <2>7. ~between => o1 = o \/ (m \notin M /\ o1 = Append(o, m))
    BY <2>3, <2>5
  <2> HIDE DEF o, l, p, i, o1, l1, p1, q, between, m
  <2>8. Line(A, o1, l1, p1, i, M, R) /\ InLine(o1, l1, p1, i, M) \subseteq InLine(o, l, p, i, M)
    <3>1. CASE between
      <4>1. o1 = o \/ o1 = Append(o, Head(l))
        BY <2>3, <2>6, <3>1
      <4>2. Line(A, o1, Tail(l), p, i, M, R) /\ InLine(o1, Tail(l), p, i, M) \subseteq InLine(o, l, p, i, M)
        BY <1>1, <2>6, <3>1, <4>1, LineDeliver
      <4> QED BY <2>4, <3>1, <4>2
    <3>2. CASE ~between
      <4>1. CASE o1 = o
        BY <1>1, <2>4, <3>2, <4>1
      <4>2. CASE m \notin M /\ o1 = Append(o, m)
        <5>1. Line(A, o1, l, p, i, M, R) /\ InLine(o1, l, p, i, M) \subseteq InLine(o, l, p, i, M)
          BY <1>1, <2>2, <4>2, LineOthers
        <5> QED BY <2>4, <3>2, <5>1
      <4> QED BY <2>7, <3>2, <4>1, <4>2
    <3> QED BY <3>1, <3>2
  <2> QED BY <1>4, <2>8 DEF StaysInLine, InLineOf, o, l, p, i, o1, l1, p1
<1>7. CASE RefuseRemoteMessage(s, d) \/ LinkBreaks(s, d)
  <2>1. /\ pending' = pending /\ o1 = o
        /\ \/ link' = [link EXCEPT ![s][d] = <<>>]
           \/ \E k \in 1 .. Len(q) : link' = [link EXCEPT ![s][d] = SubSeq(@, 2, k)]
    BY <1>7 DEF RefuseRemoteMessage, LinkBreaks
  <2>2. /\ p1 = p /\ (~between => l1 = l)
        /\ between => l1 = <<>> \/ \E k \in 1 .. Len(l) : l1 = SubSeq(l, 2, k)
    <3>1. CASE link' = [link EXCEPT ![s][d] = <<>>]
      BY <1>1, <1>3, <2>1, <3>1
    <3>2. CASE \E k \in 1 .. Len(q) : link' = [link EXCEPT ![s][d] = SubSeq(@, 2, k)]
      <4>1. PICK k \in 1 .. Len(q) : link' = [link EXCEPT ![s][d] = SubSeq(q, 2, k)]
        BY <3>2
      <4>2. l1 = IF between THEN SubSeq(q, 2, k) ELSE l
        BY <1>1, <1>3, <4>1
      <4> QED BY <1>3, <2>1, <4>2
    <3> QED BY <2>1, <3>1, <3>2
  <2> HIDE DEF o, l, p, i, o1, l1, p1, q, between
  <2>3. WordsIn(l1, M) \subseteq WordsIn(l, M) /\ Rising(l1, M, R)
    <3>1. CASE l1 = l
      BY <1>2, <3>1
    <3>2. CASE l1 = <<>>
      BY <3>2, WordsEmpty
    <3>3. CASE \E k \in 1 .. Len(l) : l1 = SubSeq(l, 2, k)
      <4>1. PICK k \in 1 .. Len(l) : l1 = SubSeq(l, 2, k)
        BY <3>3
      <4> QED BY <1>1, <1>2, <4>1, WordsSubSeq
    <3> QED BY <2>2, <3>1, <3>2, <3>3
  <2>4. Line(A, o, l1, p, i, M, R) /\ InLine(o, l1, p, i, M) \subseteq InLine(o, l, p, i, M)
    BY <1>1, <1>2, <2>3, LineLess
  <2> QED BY <1>4, <2>1, <2>2, <2>4 DEF StaysInLine, InLineOf, o, l, p, i, o1, l1, p1
<1> QED BY <1>5, <1>6, <1>7

\* The network keeps in line what goes from a to b.
LEMMA NetLine ==
  ASSUME IInv, NetNext,
         NEW a \in Clients, NEW b \in Clients, NEW A, NEW M, NEW R,
         SomeOf(a, M), NoneOvertaken(a, b, M, R), LineOf(A, a, b, M, R)
  PROVE  StaysInLine(A, a, b, M, R)
<1>1. ASSUME NEW c \in Clients,
             HandleToLocalMessage(c) \/ HandleToRemoteMessage(c) \/ ConnectOnDemand(c)
      PROVE  StaysInLine(A, a, b, M, R)
  BY <1>1, LocalLine, RemoteLine, OnDemandLine
<1>2. ASSUME NEW s \in Nodes, UpdateSelfAddress(s) PROVE StaysInLine(A, a, b, M, R)
  <2>1. UNCHANGED <<input, output, pending, link>>
    BY <1>2 DEF UpdateSelfAddress
  <2> QED BY <2>1 DEF StaysInLine, LineOf, InLineOf
<1>3. ASSUME NEW s \in Nodes, NEW d \in Nodes,
             FlushMessage(s, d) \/ HandleRemoteMessage(s, d) \/ RefuseRemoteMessage(s, d)
               \/ LinkBreaks(s, d)
      PROVE  StaysInLine(A, a, b, M, R)
  BY <1>3, MoveLine
<1> QED BY <1>1, <1>2, <1>3 DEF NetNext

-----------------------------------------------------------------------------
(* SpokenInOrder.                                                           *)

LEMMA WordsFrom ==
  ASSUME NEW o, NEW l, NEW p, NEW i, NEW M, NEW w \in InLine(o, l, p, i, M)
  PROVE  \E m \in M : w = m.data.words
BY DEF InLine, WordsIn

LEMMA ByFacts ==
  ASSUME IInv, NEW c \in Members
  PROVE  /\ c \in Clients /\ c # Room /\ SomeOf(c, By(c)) /\ SpokenBy(c) \subseteq WordsSaid
         /\ \A o, l, p, i : \A w \in InLine(o, l, p, i, By(c)) : w \in WordsSaid /\ w.by = c
         /\ NoneOvertaken(c, Room, By(c), Numbered(c))
<1>1. c \in Clients /\ c # Room /\ Room \in Clients
  BY RoomAssumption DEF Members
<1>2. SomeOf(c, By(c))
  BY DEF SomeOf, By
<1>3. SpokenBy(c) \subseteq WordsSaid
  <2>1. spoken \in Seq(WordsSaid)
    BY DEF IInv, Programs
  <2> QED BY <2>1, ElementOfSeq DEF SpokenBy, Elements
<1>4. ASSUME NEW o, NEW l, NEW p, NEW i, NEW w \in InLine(o, l, p, i, By(c))
      PROVE  w \in WordsSaid /\ w.by = c
  <2>1. PICK m \in By(c) : w = m.data.words
    BY WordsFrom
  <2> QED BY <2>1 DEF By
<1>5. ASSUME NEW m \in By(c), IsLocal(At[c], m)
      PROVE  Symmetric(Numbered(c))
  <2>1. m.to = Address(At[Room], Name[Room]) \/ At[c] = At[Room]
    BY DEF By, RoomAddresses
  <2>2. /\ m.to.node = At[Room] \/ At[c] = At[Room]
        /\ At[Room] # LocalNode /\ self_address[At[c]] \in {At[c], LocalNode}
    BY <1>1, <2>1, AddressFacts, NameFacts DEF IInv, CpmdsKnow
  <2>3. At[c] = At[Room]
    BY <1>5, <2>2 DEF IsLocal
  <2> QED BY <2>3 DEF Numbered, Symmetric
<1> QED BY <1>1, <1>2, <1>3, <1>4, <1>5 DEF NoneOvertaken

LEMMA SpeaksKeeps ==
  ASSUME IInv, NEW c \in Members, SpeaksInOrder(c), UNCHANGED spoken,
         StaysInLine(SpokenBy(c), c, Room, By(c), Numbered(c)),
         said[c] \in Nat, said'[c] \in Nat, said[c] <= said'[c]
  PROVE  SpeaksInOrder(c)'
<1> DEFINE in == InLineOf(c, Room, By(c))
           in1 == InLine(output'[Room], link'[At[c]][At[Room]], pending'[At[c]][At[Room]], input'[c], By(c))
<1>1. /\ Line(SpokenBy(c), output'[Room], link'[At[c]][At[Room]], pending'[At[c]][At[Room]],
              input'[c], By(c), Numbered(c))
      /\ in1 \subseteq in
  BY DEF StaysInLine
<1>2. \A w \in SpokenBy(c) \cup in1 : w \in WordsSaid /\ w.n <= said[c]
  BY <1>1, ByFacts DEF SpeaksInOrder, InLineOf
<1>3. \A w \in SpokenBy(c) \cup in1 : w.n <= said'[c]
  <2> HIDE DEF in, in1
  <2> QED BY <1>2 DEF WordsSaid
<1>4. /\ (SpokenBy(c))' = SpokenBy(c) /\ (InLineOf(c, Room, By(c)))' = in1
      /\ LineOf(SpokenBy(c), c, Room, By(c), Numbered(c))'
  BY <1>1 DEF SpokenBy, Elements, InLineOf, LineOf, By, Numbered
<1>5. \A i, j \in 1 .. Len(spoken') :
        i < j /\ spoken'[i].by = c /\ spoken'[j].by = c => <<spoken'[i], spoken'[j]>> \in Numbered(c)
  BY DEF SpeaksInOrder
<1> HIDE DEF in, in1
<1>6. (Numbered(c))' = Numbered(c)
  BY DEF Numbered
<1> QED BY <1>3, <1>4, <1>5, <1>6 DEF SpeaksInOrder

\* Where nothing of c moved.
LEMMA StillInLine ==
  ASSUME NEW a, NEW b, NEW A, NEW M, NEW R, LineOf(A, a, b, M, R),
         output'[b] = output[b], input'[a] = input[a], UNCHANGED <<pending, link>>
  PROVE  StaysInLine(A, a, b, M, R)
BY DEF StaysInLine, LineOf, InLineOf

\* Where a sends something else.
LEMMA SendsOther ==
  ASSUME IInv, NEW a \in Clients, NEW to, NEW data, SendMessage(a, to, data),
         Message(a, to, data) \in Messages,
         NEW b \in Clients, NEW A, NEW M, NEW R,
         LineOf(A, a, b, M, R), Message(a, to, data) \notin M
  PROVE  StaysInLine(A, a, b, M, R)
<1> DEFINE m == Message(a, to, data)
           o == output[b]
           l == link[At[a]][At[b]]
           p == pending[At[a]][At[b]]
           i == input[a]
<1>1. /\ o \in Seq(Messages) /\ l \in Seq(Messages) /\ p \in Seq(Messages) /\ i \in Seq(Messages)
      /\ Line(A, o, l, p, i, M, R)
  BY QueueTypes DEF LineOf
<1>2. /\ input'[a] = Append(i, m) /\ output'[b] = o
      /\ link'[At[a]][At[b]] = l /\ pending'[At[a]][At[b]] = p
  BY SendAdds DEF SendMessage
<1> HIDE DEF m, o, l, p, i
<1>3. m \in Messages /\ m \notin M
  BY DEF m
<1>4. Line(A, o, l, p, Append(i, m), M, R)
      /\ InLine(o, l, p, Append(i, m), M) \subseteq InLine(o, l, p, i, M)
  <2>1. /\ WordsIn(Append(i, m), M) \subseteq WordsIn(i, M)
        /\ Rising(i, M, R) => Rising(Append(i, m), M, R)
    BY <1>1, <1>3, OthersAppend
  <2>2. Rising(o, M, R) /\ Rising(l, M, R) /\ Rising(p, M, R) /\ Rising(i, M, R)
    BY <1>1 DEF Line
  <2> QED BY <1>1, <2>1, <2>2, LineLess
<1> QED BY <1>2, <1>4 DEF StaysInLine, InLineOf, o, l, p, i

\* Where b receives something else.
LEMMA ReceivesOther ==
  ASSUME IInv, NEW a \in Clients, NEW b \in Clients, ReceiveMessage(b), NEW A, NEW M, NEW R,
         LineOf(A, a, b, M, R)
  PROVE  StaysInLine(A, a, b, M, R)
<1> DEFINE o == output[b]
           l == link[At[a]][At[b]]
           p == pending[At[a]][At[b]]
           i == input[a]
<1>1. /\ o \in Seq(Messages) /\ l \in Seq(Messages) /\ p \in Seq(Messages) /\ i \in Seq(Messages)
      /\ Line(A, o, l, p, i, M, R)
  BY QueueTypes DEF LineOf
<1>2. /\ o # <<>> /\ input'[a] = i /\ output'[b] = Tail(o)
      /\ link'[At[a]][At[b]] = l /\ pending'[At[a]][At[b]] = p
  BY DEF ReceiveMessage, IInv, Places
<1> HIDE DEF o, l, p, i
<1>3. Line(A, Tail(o), l, p, i, M, R) /\ InLine(Tail(o), l, p, i, M) \subseteq InLine(o, l, p, i, M)
  BY <1>1, <1>2, LineReceive
<1> QED BY <1>2, <1>3 DEF StaysInLine, InLineOf, o, l, p, i

\* The next words of c have a higher number than all before.
LEMMA SaySpeaks ==
  ASSUME IInv, Given, NEW c \in Members, Say(c), SpeaksInOrder(c)
  PROVE  SpeaksInOrder(c)'
<1> DEFINE w == Words(c, said'[c])
           data == Chat("kMessage", Name[c], 0, w)
           m == Message(c, RoomAddress(c), data)
           o == output[Room]
           l == link[At[c]][At[Room]]
           p == pending[At[c]][At[Room]]
           i == input[c]
           A == SpokenBy(c)
           M == By(c)
           R == Numbered(c)
<1>1. /\ c \in Clients /\ Room \in Clients /\ A \subseteq WordsSaid
      /\ \A x \in InLine(o, l, p, i, M) : x \in WordsSaid
  BY ByFacts, AddressFacts
<1>2. /\ o \in Seq(Messages) /\ l \in Seq(Messages) /\ p \in Seq(Messages) /\ i \in Seq(Messages)
      /\ Line(A, o, l, p, i, M, R)
      /\ \A x \in A \cup InLine(o, l, p, i, M) : x.n <= said[c]
  BY <1>1, QueueTypes DEF SpeaksInOrder, LineOf, InLineOf
<1>3. /\ SendMessage(c, RoomAddress(c), data) /\ UNCHANGED <<members, turn, program, spoken, heard>>
      /\ said[c] \in Nat /\ said'[c] = said[c] + 1
  BY DEF Say, IInv, Programs
<1>4. /\ w \in WordsSaid /\ w.by = c /\ w.n = said'[c]
      /\ data \in Chats /\ data.type = "kMessage" /\ data.words = w
  <2>1. said'[c] \in Nat \ {0}
    BY <1>3
  <2> QED BY <2>1, ChatFacts DEF Words, Chat
<1>5. /\ m \in Messages /\ m.data.words = w /\ m \in M
  BY <1>1, <1>4, AddressFacts, GivenFacts DEF Message, Messages, By
<1>6. /\ input'[c] = Append(i, m) /\ output'[Room] = o
      /\ link'[At[c]][At[Room]] = l /\ pending'[At[c]][At[Room]] = p
  BY <1>1, <1>3, SendAdds DEF SendMessage
<1> DEFINE in == InLine(o, l, p, i, M)
           in1 == InLine(o, l, p, Append(i, m), M)
<1>7. Before(A \cup in, {w}, R)
  <2>1. ASSUME NEW x \in A \cup in PROVE x \in WordsSaid /\ x.n \in Nat /\ x.n < w.n
    <3>1. x \in WordsSaid /\ x.n <= said[c]
      BY <1>1, <1>2
    <3>2. x.n \in Nat
      BY <3>1 DEF WordsSaid
    <3> HIDE DEF w, A, in
    <3> QED BY <1>3, <1>4, <3>1, <3>2
  <2> HIDE DEF w, A, in
  <2> QED BY <1>4, <2>1 DEF Before, Numbered
<1> HIDE DEF w, data, m, o, l, p, i
<1>8. Line(A, o, l, p, Append(i, m), M, R) /\ in1 \subseteq in \cup {w}
  <2> HIDE DEF A, M, R
  <2>1. m \in M => Before(A \cup in, {m.data.words}, R)
    BY <1>5, <1>7
  <2>2. /\ Line(A, o, l, p, Append(i, m), M, R)
        /\ in1 \subseteq in \cup (IF m \in M THEN {m.data.words} ELSE {})
    BY <1>2, <1>5, <2>1, LineSend
  <2> QED BY <1>5, <2>2
<1>9. A' = A /\ M' = M /\ R' = R
  BY <1>3 DEF SpokenBy, Elements, By, Numbered
<1>10. /\ LineOf(SpokenBy(c), c, Room, By(c), Numbered(c))'
       /\ (InLineOf(c, Room, By(c)))' = in1
  BY <1>6, <1>8, <1>9 DEF LineOf, InLineOf
<1>11. \A x \in A \cup in1 : x.n <= said'[c]
  <2>1. ASSUME NEW x \in A \cup in PROVE x.n <= said'[c]
    <3>1. x \in WordsSaid /\ x.n <= said[c]
      BY <1>1, <1>2
    <3>2. x.n \in Nat
      BY <3>1 DEF WordsSaid
    <3> QED BY <1>3, <3>1, <3>2
  <2>2. w.n <= said'[c]
    BY <1>3, <1>4
  <2> HIDE DEF A, in, in1
  <2> QED BY <1>8, <2>1, <2>2
<1>12. \A j, k \in 1 .. Len(spoken') :
         j < k /\ spoken'[j].by = c /\ spoken'[k].by = c => <<spoken'[j], spoken'[k]>> \in R
  BY <1>3 DEF SpeaksInOrder
<1> HIDE DEF in1
<1> QED BY <1>9, <1>10, <1>11, <1>12 DEF SpeaksInOrder

\* The chatroom takes words in the order of the line.
LEMMA HandleMessageSpeaks ==
  ASSUME NamesApart, IInv, LInv, HandleMessage, NEW c \in Members, SpeaksInOrder(c)
  PROVE  SpeaksInOrder(c)'
<1> DEFINE m == Received
           w == m.data.words
           o == output[Room]
           l == link[At[c]][At[Room]]
           p == pending[At[c]][At[Room]]
           i == input[c]
           A == SpokenBy(c)
           M == By(c)
           R == Numbered(c)
           in == InLine(o, l, p, i, M)
           in1 == InLine(Tail(o), l, p, i, M)
<1>1. /\ c \in Clients /\ Room \in Clients
      /\ o \in Seq(Messages) /\ l \in Seq(Messages) /\ p \in Seq(Messages) /\ i \in Seq(Messages)
      /\ Line(A, o, l, p, i, M, R) /\ \A x \in A \cup in : x.n <= said[c]
  BY ByFacts, AddressFacts, QueueTypes DEF SpeaksInOrder, LineOf, InLineOf
<1>2. /\ m = Head(o) /\ m \in Messages /\ Stamped(m) /\ m.data.type = "kMessage" /\ w \in WordsSaid
      /\ m.by \in Members /\ w.by = m.by
  BY ReceivedFacts, ReceivedLate DEF HandleMessage, Received
<1>3. m \in M <=> m.by = c
  <2>1. m.by # Room
    BY <1>2 DEF Members
  <2>2. m.to \in RoomAddresses(m.by)
    BY <1>2, <2>1 DEF Stamped, Meant
  <2> HIDE DEF m
  <2> QED BY <1>2, <2>2 DEF By
<1>4. /\ o # <<>> /\ output'[Room] = Tail(o) /\ link'[At[c]][At[Room]] = l
      /\ pending'[At[c]][At[Room]] = p /\ input'[c] = i
      /\ spoken' = Append(spoken, w) /\ spoken \in Seq(WordsSaid) /\ UNCHANGED said
  BY <1>1 DEF HandleMessage, Receives, ReceiveMessage, IInv, Places, Programs
<1> HIDE DEF w
<1>5. /\ Len(spoken) \in Nat /\ Len(spoken') = Len(spoken) + 1
      /\ \A j \in 1 .. Len(spoken) : spoken'[j] = spoken[j]
      /\ spoken'[Len(spoken) + 1] = w
  BY <1>2, <1>4, AppendProperties, LenProperties
<1>6. A' = IF m.by = c THEN A \cup {w} ELSE A
  <2> DEFINE k == Len(spoken) + 1
  <2>1. \A j \in 1 .. k : j \in 1 .. Len(spoken) \/ j = k
    BY <1>5
  <2>2. 1 .. Len(spoken) \subseteq 1 .. k /\ k \in 1 .. k
    BY <1>5
  <2>3. Elements(spoken') = Elements(spoken) \cup {w}
    <3>1. \A x \in Elements(spoken') : x \in Elements(spoken) \cup {w}
      BY <1>5, <2>1 DEF Elements
    <3>2. w \in Elements(spoken')
      BY <1>5, <2>2 DEF Elements
    <3>3. \A x \in Elements(spoken) : x \in Elements(spoken')
      BY <1>5, <2>2 DEF Elements
    <3> QED BY <3>1, <3>2, <3>3
  <2>4. (Elements(spoken))' = Elements(spoken')
    BY DEF Elements
  <2> HIDE DEF k, m
  <2> QED BY <1>2, <2>3, <2>4 DEF SpokenBy, w
<1>7. M' = M /\ R' = R
  BY DEF By, Numbered
<1>8. /\ Line(A, Tail(o), l, p, i, M, R) /\ in1 \subseteq in
      /\ m.by = c => Line(A \cup {w}, Tail(o), l, p, i, M, R) /\ Before(A, {w}, R) /\ w \in in
  <2> HIDE DEF o, l, p, i, A, M, R, m
  <2> QED BY <1>1, <1>2, <1>3, <1>4, LineReceive DEF w
<1>9. /\ LineOf(SpokenBy(c), c, Room, By(c), Numbered(c))'
      /\ (InLineOf(c, Room, By(c)))' = in1
  <2>1. Line(A', Tail(o), l, p, i, M, R)
    <3> HIDE DEF A, M, R, o, l, p, i, m
    <3> QED BY <1>6, <1>8
  <2> QED BY <1>4, <1>7, <2>1 DEF LineOf, InLineOf
<1>10. \A x \in A' \cup in1 : x.n <= said'[c]
  <2> HIDE DEF A, in, in1, m
  <2> QED BY <1>1, <1>4, <1>6, <1>8
<1>11. ASSUME NEW j \in 1 .. Len(spoken'), NEW k \in 1 .. Len(spoken'), j < k,
              spoken'[j].by = c, spoken'[k].by = c
       PROVE  <<spoken'[j], spoken'[k]>> \in R
  <2>1. j \in 1 .. Len(spoken) /\ spoken'[j] = spoken[j]
    BY <1>5, <1>11
  <2>2. CASE k \in 1 .. Len(spoken)
    BY <1>5, <1>11, <2>1, <2>2 DEF SpeaksInOrder
  <2>3. CASE k = Len(spoken) + 1
    <3>1. spoken'[k] = w /\ m.by = c
      BY <1>2, <1>5, <1>11, <2>3 DEF w
    <3>2. spoken[j] \in A
      BY <1>11, <2>1 DEF SpokenBy, Elements
    <3> HIDE DEF A, R
    <3> QED BY <1>8, <2>1, <3>1, <3>2 DEF Before
  <2> QED BY <1>5, <2>2, <2>3
<1> HIDE DEF in1, R, A
<1>12. \A j, k \in 1 .. Len(spoken') :
         j < k /\ spoken'[j].by = c /\ spoken'[k].by = c => <<spoken'[j], spoken'[k]>> \in Numbered(c)
  BY <1>11 DEF R
<1> QED BY <1>7, <1>9, <1>10, <1>12 DEF SpeaksInOrder, A, R

\* Other steps of the chatroom and the clients.
LEMMA ElseSpeaks ==
  ASSUME IInv, Given, [Next]_vars, ~HandleMessage, NEW c \in Members, ~Say(c), SpeaksInOrder(c)
  PROVE  SpeaksInOrder(c)'
<1> DEFINE Stays == StaysInLine(SpokenBy(c), c, Room, By(c), Numbered(c))
           Rest == UNCHANGED spoken /\ said'[c] \in Nat /\ said[c] <= said'[c]
<1>1. /\ c \in Clients /\ Room \in Clients /\ c # Room /\ SomeOf(c, By(c))
      /\ NoneOvertaken(c, Room, By(c), Numbered(c))
      /\ LineOf(SpokenBy(c), c, Room, By(c), Numbered(c))
      /\ said \in [Members -> Nat] /\ said[c] \in Nat /\ said[c] <= said[c]
  BY ByFacts, AddressFacts DEF SpeaksInOrder, IInv, Programs
<1>2. Stays /\ Rest
  <2>1. CASE UNCHANGED vars
    <3>1. UNCHANGED <<input, output, pending, link, spoken, said>>
      BY <2>1 DEF vars, netVars, chatVars
    <3> QED BY <1>1, <3>1, StillInLine
  <2>2. ASSUME NEW k \in Clients, Start(k) PROVE Stays /\ Rest
    <3>1. UNCHANGED <<input, output, pending, link, spoken, said>>
      BY <2>2 DEF Start, Create
    <3> QED BY <1>1, <3>1, StillInLine
  <2>3. ASSUME NEW k \in Members, NEW data, SendMessage(k, RoomAddress(k), data), data.type # "kMessage",
               data \in Chats
        PROVE  Stays
    <3> DEFINE m == Message(k, RoomAddress(k), data)
    <3>1. k \in Clients
      BY DEF Members
    <3>2. m \in Messages /\ m \notin By(c)
      BY <2>3, <3>1, AddressFacts, GivenFacts DEF Message, Messages, By
    <3> HIDE DEF m
    <3>3. CASE k = c
      BY <1>1, <2>3, <3>2, <3>3, SendsOther DEF m
    <3>4. CASE k # c
      <4>1. input'[c] = input[c] /\ UNCHANGED <<output, pending, link>>
        BY <1>1, <2>3, <3>1, <3>4, SendAdds DEF SendMessage
      <4> QED BY <1>1, <4>1, StillInLine
    <3> QED BY <3>3, <3>4
  <2>4. ASSUME NEW k \in Members, Register(k) PROVE Stays /\ Rest
    <3> DEFINE data == Chat("kRegister", Name[k], 0, Nothing)
    <3>1. data \in Chats /\ data.type # "kMessage" /\ SendMessage(k, RoomAddress(k), data)
      BY <2>4, ChatFacts DEF Register, Chat
    <3>2. Rest
      BY <1>1, <2>4 DEF Register
    <3> HIDE DEF data, Stays, Rest
    <3> QED BY <2>3, <3>1, <3>2
  <2>5. ASSUME NEW k \in Members, NEW data \in OtherData(k), SayOther(k, data) PROVE Stays /\ Rest
    <3>1. data \in Chats
      BY ChatFacts
    <3>2. data.type # "kMessage" /\ SendMessage(k, RoomAddress(k), data)
      BY <2>5 DEF SayOther, OtherData, Chat
    <3>3. Rest
      BY <1>1, <2>5 DEF SayOther
    <3> HIDE DEF Stays, Rest
    <3> QED BY <2>3, <3>1, <3>2, <3>3
  <2>6. ASSUME NEW k \in Members, Say(k) PROVE Stays /\ Rest
    <3>1. k \in Clients /\ k # c
      BY <2>6 DEF Members
    <3>2. input'[c] = input[c] /\ UNCHANGED <<output, pending, link>>
      BY <1>1, <2>6, <3>1, SendAdds DEF Say, SendMessage
    <3>3. Rest
      BY <1>1, <2>6, <3>1 DEF Say
    <3> QED BY <1>1, <3>2, <3>3, StillInLine
  <2>7. ASSUME NEW k \in Members, SayFails(k) PROVE Stays /\ Rest
    <3>1. UNCHANGED <<input, output, pending, link, spoken, said>>
      BY <2>7 DEF SayFails, netVars
    <3> QED BY <1>1, <3>1, StillInLine
  <2>8. ASSUME NEW k \in Members, Hear(k) PROVE Stays /\ Rest
    <3>1. UNCHANGED <<input, pending, link, spoken, said>> /\ output'[Room] = output[Room]
      BY <1>1, <2>8 DEF Hear, ReceiveMessage, Members, IInv, Places
    <3> QED BY <1>1, <3>1, StillInLine
  <2>9. CASE HandleRegister \/ HandleHeartBeat \/ HandlePrivateMessage
    <3>1. ReceiveMessage(Room) /\ UNCHANGED <<spoken, said>>
      BY <2>9 DEF HandleRegister, HandleHeartBeat, HandlePrivateMessage, Receives
    <3> QED BY <1>1, <3>1, ReceivesOther
  <2>10. CASE BroadcastMessage
    <3>1. PICK n \in turn.left :
            SendMessage(Room, IF turn.reply.type = "kMessage" THEN members[n] ELSE Default, turn.reply)
      BY <2>10 DEF BroadcastMessage
    <3>2. input'[c] = input[c] /\ UNCHANGED <<output, pending, link>>
      BY <1>1, <3>1, SendAdds DEF SendMessage
    <3>3. Rest
      BY <1>1, <2>10 DEF BroadcastMessage
    <3> QED BY <1>1, <3>2, <3>3, StillInLine
  <2>11. CASE BroadcastFails
    <3>1. UNCHANGED <<input, output, pending, link, spoken, said>>
      BY <2>11 DEF BroadcastFails, netVars
    <3> QED BY <1>1, <3>1, StillInLine
  <2>12. CASE NetNext /\ UNCHANGED chatVars
    <3>1. Rest
      BY <1>1, <2>12 DEF chatVars
    <3> QED BY <1>1, <2>12, <3>1, NetLine
  <2> HIDE DEF Stays, Rest
  <2> QED BY <2>1, <2>2, <2>4, <2>5, <2>6, <2>7, <2>8, <2>9, <2>10, <2>11, <2>12 DEF Next
<1> QED BY <1>1, <1>2, SpeaksKeeps

LEMMA InitLine ==
  ASSUME Init, NEW a \in Clients, NEW b \in Clients, NEW A, NEW M, NEW R
  PROVE  LineOf(A, a, b, M, R) /\ InLineOf(a, b, M) = {}
<1>1. /\ output[b] = <<>> /\ input[a] = <<>>
      /\ link[At[a]][At[b]] = <<>> /\ pending[At[a]][At[b]] = <<>>
  BY NameFacts DEF Init, NetInit
<1>2. WordsIn(<<>>, M) = {} /\ Rising(<<>>, M, R)
  BY WordsEmpty
<1> QED BY <1>1, <1>2 DEF LineOf, Line, Before, InLineOf, InLine

LEMMA InitSpeaks == Init => SInv
<1> SUFFICES ASSUME Init, NEW c \in Members PROVE SpeaksInOrder(c)
  BY DEF SInv
<1>1. c \in Clients /\ Room \in Clients
  BY AddressFacts DEF Members
<1>2. Len(spoken) = 0
  BY EmptySeq DEF Init
<1>3. SpokenBy(c) = {}
  BY <1>2 DEF SpokenBy, Elements
<1>4. /\ LineOf(SpokenBy(c), c, Room, By(c), Numbered(c)) /\ InLineOf(c, Room, By(c)) = {}
  BY <1>1, InitLine
<1> QED BY <1>2, <1>3, <1>4 DEF SpeaksInOrder

LEMMA SpeaksStep ==
  ASSUME NamesApart
  PROVE  IInv /\ Given /\ LInv /\ SInv /\ [Next]_vars => SInv'
<1> SUFFICES ASSUME IInv, Given, LInv, SInv, [Next]_vars, NEW c \in Members PROVE SpeaksInOrder(c)'
  BY DEF SInv
<1>1. SpeaksInOrder(c)
  BY DEF SInv
<1>2. CASE HandleMessage
  BY <1>1, <1>2, HandleMessageSpeaks
<1>3. CASE Say(c)
  BY <1>1, <1>3, SaySpeaks
<1>4. CASE ~HandleMessage /\ ~Say(c)
  BY <1>1, <1>4, ElseSpeaks
<1> QED BY <1>2, <1>3, <1>4

\* What a client at another node says comes to the chatroom once and in order;
\* if no member is called like the chatroom.
THEOREM SpokenInOrderCorrect ==
  ASSUME NamesApart
  PROVE  Spec => []SpokenInOrder
<1>1. Init => LInv /\ SInv
  BY InitLate, InitSpeaks
<1>2. IInv /\ Given /\ LInv /\ SInv /\ [Next]_vars => LInv' /\ SInv'
  BY LateStep, SpeaksStep
<1>3. IInv /\ SInv => SpokenInOrder
  <2> SUFFICES ASSUME IInv, SInv, NEW i \in 1 .. Len(spoken), NEW j \in 1 .. Len(spoken),
                      i < j, spoken[i].by = spoken[j].by, At[spoken[i].by] # At[Room]
               PROVE  spoken[i].n < spoken[j].n
    BY DEF SpokenInOrder
  <2>1. spoken[i] \in WordsSaid
    BY ElementOfSeq DEF IInv, Programs
  <2> DEFINE c == spoken[i].by
  <2>2. c \in Members
    BY <2>1 DEF WordsSaid
  <2>3. <<spoken[i], spoken[j]>> \in Numbered(c)
    BY <2>2 DEF SInv, SpeaksInOrder
  <2> QED BY <2>3 DEF Numbered
<1> QED BY <1>1, <1>2, <1>3, Invariant, PTL DEF Spec

-----------------------------------------------------------------------------
(* HeardInOrder.                                                            *)

\* What comes between two cpmds was taken there, for another node.
LEMMA AcrossAdds ==
  ASSUME IInv, NetNext, NEW t \in Nodes, NEW e \in Nodes, NEW x, x \in (Across(t, e))'
  PROVE  \/ x \in Across(t, e)
         \/ \E c \in Clients : Take(c) /\ x = Taken(c) /\ ~IsLocal(At[c], x)
<1> DEFINE Known == x \in Elements(pending[t][e]) \/ x \in Elements(link[t][e])
<1>1. /\ x \in Elements(pending'[t][e]) \/ x \in Elements(link'[t][e])
      /\ pending \in [Nodes -> [Nodes -> Seq(Messages)]]
      /\ link \in [Nodes -> [Nodes -> Seq(Messages)]]
      /\ Elements(<<>>) = {}
  BY EmptySeq DEF Across, Elements, IInv, Places
<1>2. ASSUME UNCHANGED <<pending, link>> PROVE Known
  BY <1>1, <1>2
<1>3. ASSUME NEW c \in Clients, HandleToRemoteMessage(c)
      PROVE  Known \/ (Take(c) /\ x = Taken(c) /\ ~IsLocal(At[c], x))
  <2> DEFINE s == At[c]
             m == Taken(c)
             d == m.to.node
  <2>1. /\ Take(c) /\ ~IsLocal(s, m)
        /\ \/ link' = [link EXCEPT ![s][d] = Append(@, m)] /\ pending' = pending
           \/ pending' = [pending EXCEPT ![s][d] = Push(@, m, kMaxCachedMessageNum)] /\ link' = link
    BY <1>3 DEF HandleToRemoteMessage
  <2>2. m \in Messages /\ s \in Nodes
    BY <2>1, TakenFacts, NameFacts
  <2>3. d \in Nodes
    BY <2>1, <2>2, MessageFacts, AddressFacts DEF IsLocal
  <2>4. /\ Elements(Append(link[s][d], m)) \subseteq Elements(link[s][d]) \cup {m}
        /\ Elements(Push(pending[s][d], m, kMaxCachedMessageNum)) \subseteq Elements(pending[s][d]) \cup {m}
    <3>1. link[s][d] \in Seq(Messages) /\ pending[s][d] \in Seq(Messages)
      BY <1>1, <2>2, <2>3
    <3> HIDE DEF s, d, m
    <3> QED BY <2>2, <3>1, ElementsAppend, ElementsPush, NetworkAssumption
  <2> HIDE DEF s, d, m
  <2>5. x = m \/ Known
    <3>1. CASE link' = [link EXCEPT ![s][d] = Append(@, m)] /\ pending' = pending
      <4>1. link'[t][e] = IF t = s /\ e = d THEN Append(link[s][d], m) ELSE link[t][e]
        BY <1>1, <2>2, <2>3, <3>1
      <4> QED BY <1>1, <2>4, <3>1, <4>1
    <3>2. CASE pending' = [pending EXCEPT ![s][d] = Push(@, m, kMaxCachedMessageNum)] /\ link' = link
      <4>1. pending'[t][e] = IF t = s /\ e = d THEN Push(pending[s][d], m, kMaxCachedMessageNum)
                             ELSE pending[t][e]
        BY <1>1, <2>2, <2>3, <3>2
      <4> QED BY <1>1, <2>4, <3>2, <4>1
    <3> QED BY <2>1, <3>1, <3>2
  <2> QED BY <2>1, <2>5 DEF m, s
<1>4. ASSUME NEW s \in Nodes, NEW d \in Nodes, FlushMessage(s, d) PROVE Known
  <2> DEFINE p == pending[s][d]
             l == link[s][d]
  <2>1. /\ pending' = [pending EXCEPT ![s][d] = <<>>] /\ link' = [link EXCEPT ![s][d] = l \o p]
        /\ p \in Seq(Messages) /\ l \in Seq(Messages)
    BY <1>1, <1>4 DEF FlushMessage
  <2>2. Elements(l \o p) \subseteq Elements(l) \cup Elements(p)
    BY <2>1, ElementsConcat
  <2>3. link'[t][e] = IF t = s /\ e = d THEN l \o p ELSE link[t][e]
    BY <1>1, <2>1
  <2>4. pending'[t][e] = IF t = s /\ e = d THEN <<>> ELSE pending[t][e]
    BY <1>1, <2>1
  <2> QED BY <1>1, <2>2, <2>3, <2>4
<1>5. ASSUME NEW s \in Nodes, NEW d \in Nodes,
             HandleRemoteMessage(s, d) \/ RefuseRemoteMessage(s, d) \/ LinkBreaks(s, d)
      PROVE  Known
  <2> DEFINE l == link[s][d]
  <2>1. l \in Seq(Messages) /\ l # <<>> /\ pending' = pending
    BY <1>1, <1>5 DEF HandleRemoteMessage, RefuseRemoteMessage, LinkBreaks
  <2>2. PICK q : link' = [link EXCEPT ![s][d] = q] /\ Elements(q) \subseteq Elements(l)
    <3>1. CASE HandleRemoteMessage(s, d)
      BY <2>1, <3>1, ElementsTail DEF HandleRemoteMessage
    <3>2. CASE LinkBreaks(s, d)
      BY <1>1, <3>2 DEF LinkBreaks
    <3>3. CASE RefuseRemoteMessage(s, d)
      <4>1. PICK k \in 1 .. Len(l) : link' = [link EXCEPT ![s][d] = SubSeq(l, 2, k)]
        BY <3>3 DEF RefuseRemoteMessage
      <4>2. Len(l) \in Nat /\ k \in Int /\ \A i \in 2 .. k : i \in 1 .. Len(l)
        BY <2>1, LenProperties
      <4>3. \A i \in 2 .. k : l[i] \in Elements(l)
        BY <4>2 DEF Elements
      <4>4. SubSeq(l, 2, k) \in Seq(Elements(l))
        BY <4>2, <4>3, SubSeqProperties
      <4>5. Elements(SubSeq(l, 2, k)) \subseteq Elements(l)
        BY <4>4, ElementOfSeq DEF Elements
      <4> QED BY <4>1, <4>5
    <3> QED BY <1>5, <3>1, <3>2, <3>3
  <2>3. link'[t][e] = IF t = s /\ e = d THEN q ELSE link[t][e]
    BY <1>1, <2>2
  <2> QED BY <1>1, <2>1, <2>2, <2>3
<1> HIDE DEF Known
<1>6. Known \/ \E c \in Clients : Take(c) /\ x = Taken(c) /\ ~IsLocal(At[c], x)
  <2>1. ASSUME NEW c \in Clients, HandleToLocalMessage(c) \/ ConnectOnDemand(c) PROVE Known
    BY <1>2, <2>1 DEF HandleToLocalMessage, ConnectOnDemand
  <2>2. ASSUME NEW s \in Nodes, UpdateSelfAddress(s) PROVE Known
    BY <1>2, <2>2 DEF UpdateSelfAddress
  <2> QED BY <1>3, <1>4, <1>5, <2>1, <2>2 DEF NetNext
<1> QED BY <1>6 DEF Known, Across

LEMMA SoonerGrows ==
  ASSUME NEW w \in WordsSaid, spoken \in Seq(WordsSaid), spoken' = Append(spoken, w)
  PROVE  /\ Sooner \subseteq Sooner' /\ Elements(spoken) \subseteq Elements(spoken')
         /\ Before(Elements(spoken), {w}, Sooner')
         /\ spoken' # <<>> /\ spoken'[Len(spoken')] = w
<1> DEFINE k == Len(spoken) + 1
<1>1. /\ Len(spoken) \in Nat /\ Len(spoken') = k
      /\ \A j \in 1 .. Len(spoken) : spoken'[j] = spoken[j] /\ spoken[j] \in WordsSaid
      /\ spoken'[k] = w /\ spoken' \in Seq(WordsSaid)
  BY AppendProperties, LenProperties, ElementOfSeq
<1>2. /\ \A j \in 1 .. Len(spoken) : j \in 1 .. k /\ j < k
      /\ k \in 1 .. k
  BY <1>1
<1>3. Sooner \subseteq Sooner'
  BY <1>1, <1>2 DEF Sooner
<1>4. Elements(spoken) \subseteq Elements(spoken')
  BY <1>1, <1>2 DEF Elements
<1>5. ASSUME NEW x \in Elements(spoken) PROVE <<x, w>> \in Sooner'
  <2>1. PICK j \in 1 .. Len(spoken) : x = spoken[j]
    BY DEF Elements
  <2>2. j \in 1 .. k /\ k \in 1 .. k /\ j < k /\ spoken'[j] = x /\ spoken'[k] = w /\ x \in WordsSaid
    BY <1>1, <1>2, <2>1
  <2> HIDE DEF k
  <2> QED BY <1>1, <2>2 DEF Sooner
<1>6. spoken' # <<>>
  BY <1>1, EmptySeq
<1> QED BY <1>1, <1>3, <1>4, <1>5, <1>6 DEF Before

\* A step that adds nothing to what is told to c.
LEMMA HearsKeeps ==
  ASSUME IInv, NEW c \in Members, HearsInOrder(c), UNCHANGED <<heard, spoken>>,
         StaysInLine(Elements(heard[c]), Room, c, For(c), Sooner),
         At[c] = At[Room] => (Across(At[c], At[c]))' \cap For(c) = {},
         turn'.reply.type = "kMessage" /\ Name[c] \in turn'.left =>
           turn.reply.type = "kMessage" /\ Name[c] \in turn.left /\ turn'.reply = turn.reply
  PROVE  HearsInOrder(c)'
<1> DEFINE in == InLineOf(Room, c, For(c))
           in1 == InLine(output'[c], link'[At[Room]][At[c]], pending'[At[Room]][At[c]], input'[Room], For(c))
<1>1. /\ Line(Elements(heard[c]), output'[c], link'[At[Room]][At[c]], pending'[At[Room]][At[c]],
              input'[Room], For(c), Sooner)
      /\ in1 \subseteq in
  BY DEF StaysInLine
<1>2. /\ (Elements(heard[c]))' = Elements(heard[c]) /\ (Sooner)' = Sooner /\ (For(c))' = For(c)
      /\ (Elements(spoken))' = Elements(spoken)
  BY DEF Elements, Sooner, For, Targets
<1>3. (Told(c))' = Elements(heard[c]) \cup in1
  BY <1>2 DEF Told, InLineOf
<1>4. LineOf(Elements(heard[c]), Room, c, For(c), Sooner)'
  BY <1>1, <1>2 DEF LineOf
<1> HIDE DEF in, in1
<1>5. (Told(c))' \subseteq Told(c) /\ Told(c) \subseteq Elements(spoken)
  BY <1>1, <1>3 DEF Told, in, HearsInOrder
<1>6. turn'.reply.type = "kMessage" /\ Name[c] \in turn'.left =>
        /\ spoken' # <<>> /\ turn'.reply.words = spoken'[Len(spoken')]
        /\ Before((Told(c))', {turn'.reply.words}, Sooner)
  BY <1>5 DEF HearsInOrder, Before
<1>7. \A i, j \in 1 .. Len(heard'[c]) : i < j => <<heard'[c][i], heard'[c][j]>> \in Sooner
  BY DEF HearsInOrder
<1> QED BY <1>2, <1>4, <1>5, <1>6, <1>7 DEF HearsInOrder

\* What is told to a client at another node does not go the short way.
LEMMA ForFacts ==
  ASSUME IInv, NEW c \in Members, HearsInOrder(c)
  PROVE  /\ c \in Clients /\ c # Room /\ Room \in Clients /\ SomeOf(Room, For(c))
         /\ NoneOvertaken(Room, c, For(c), Sooner)
<1>1. c \in Clients /\ c # Room /\ Room \in Clients
  BY RoomAssumption DEF Members
<1>2. SomeOf(Room, For(c))
  BY DEF SomeOf, For
<1>3. ASSUME NEW m \in For(c), IsLocal(At[Room], m)
      PROVE  WordsIn(link[At[Room]][At[c]], For(c)) = {} /\ WordsIn(pending[At[Room]][At[c]], For(c)) = {}
  <2>1. CASE At[c] # At[Room]
    <3>1. m.to = Address(At[c], Name[c])
      BY <2>1 DEF For, Targets
    <3>2. m.to.node = At[c] /\ At[c] # LocalNode /\ self_address[At[Room]] \in {At[Room], LocalNode}
      BY <1>1, <3>1, AddressFacts, NameFacts DEF IInv, CpmdsKnow
    <3> QED BY <1>3, <2>1, <3>2 DEF IsLocal
  <2>2. CASE At[c] = At[Room]
    <3>1. Across(At[Room], At[c]) \cap For(c) = {}
      BY <2>2 DEF HearsInOrder
    <3> QED BY <3>1 DEF Across, Elements, WordsIn
  <2> QED BY <2>1, <2>2
<1> QED BY <1>1, <1>2, <1>3 DEF NoneOvertaken

\* At the node of the chatroom all of it goes the short way: who registered
\* under the address of the node did so when its cpmd knew it.
LEMMA ForGoesShort ==
  ASSUME IInv, LInv, NEW c \in Members, At[c] = At[Room],
         NEW m \in For(c), Take(Room), m = Taken(Room)
  PROVE  IsLocal(At[Room], m)
<1>1. c \in Clients /\ Room \in Clients /\ m \in Messages /\ m.by = Room /\ m.data.type = "kMessage"
  BY AddressFacts DEF Members, For
<1>2. m \in Meant(Room)
  BY <1>1, TakenFacts DEF Stamped
<1>3. PICK n \in DOMAIN members : m.to = members[n]
  BY <1>1, <1>2 DEF Meant
<1>4. members[n].client = n
  BY AddressFacts DEF IInv, MembersRegistered, SourceAddresses
<1>5. m.to \in {Address(At[c], Name[c]), Address(LocalNode, Name[c])}
  BY DEF For, Targets
<1>6. n = Name[c]
  BY <1>3, <1>4, <1>5, AddressFacts
<1>7. CASE m.to = Address(LocalNode, Name[c])
  BY <1>7, AddressFacts DEF IsLocal
<1>8. CASE m.to = Address(At[c], Name[c])
  <2>1. RegisteredInTime(c)
    BY <1>3, <1>6, <1>8 DEF RegisteredInTime, OwnAddress
  <2>2. self_address[At[c]] = At[c]
    BY <2>1 DEF LInv, InTime
  <2> QED BY <1>8, <2>2, AddressFacts DEF IsLocal
<1> QED BY <1>5, <1>7, <1>8

LEMMA NetHears ==
  ASSUME IInv, LInv, NetNext, UNCHANGED chatVars, NEW c \in Members, HearsInOrder(c)
  PROVE  HearsInOrder(c)'
<1>1. UNCHANGED <<heard, spoken, turn>>
  BY DEF chatVars
<1>2. StaysInLine(Elements(heard[c]), Room, c, For(c), Sooner)
  <2>1. LineOf(Elements(heard[c]), Room, c, For(c), Sooner)
    BY DEF HearsInOrder
  <2> QED BY <2>1, ForFacts, NetLine
<1>3. ASSUME At[c] = At[Room], NEW x, x \in (Across(At[c], At[c]))', x \in For(c)
      PROVE  FALSE
  <2>1. At[c] \in Nodes
    BY NameFacts DEF Members
  <2>2. x \notin Across(At[c], At[c])
    BY <1>3 DEF HearsInOrder
  <2>3. PICK k \in Clients : Take(k) /\ x = Taken(k) /\ ~IsLocal(At[k], x)
    BY <1>3, <2>1, <2>2, AcrossAdds
  <2>4. k = Room
    <3>1. x.by = k /\ x.by = Room
      BY <1>3, <2>3, TakenFacts DEF For
    <3> QED BY <3>1
  <2> QED BY <1>3, <2>3, <2>4, ForGoesShort
<1> QED BY <1>1, <1>2, <1>3, HearsKeeps

\* A client hears what comes out of the line.
LEMMA HearHears ==
  ASSUME IInv, NEW c \in Members, Hear(c), HearsInOrder(c)
  PROVE  HearsInOrder(c)'
<1> DEFINE m == Head(output[c])
           w == m.data.words
           o == output[c]
           l == link[At[Room]][At[c]]
           p == pending[At[Room]][At[c]]
           i == input[Room]
           A == Elements(heard[c])
           M == For(c)
           R == Sooner
           in == InLine(o, l, p, i, M)
           in1 == InLine(Tail(o), l, p, i, M)
<1>1. /\ ReceiveMessage(c) /\ UNCHANGED <<members, turn, program, said, spoken, pending, link, input>>
      /\ c \in Clients /\ Room \in Clients /\ LineOf(A, Room, c, M, R)
      /\ At[c] = At[Room] => (Across(At[c], At[c]))' \cap M = {}
  BY ForFacts DEF Hear, ReceiveMessage, HearsInOrder, Across, Elements
<1>2. CASE m.data.type # "kMessage"
  <2>1. heard' = heard
    BY <1>2 DEF Hear
  <2>2. StaysInLine(A, Room, c, M, R)
    BY <1>1, ReceivesOther
  <2> QED BY <1>1, <2>1, <2>2, HearsKeeps
<1>3. CASE m.data.type = "kMessage"
  <2>1. /\ o \in Seq(Messages) /\ l \in Seq(Messages) /\ p \in Seq(Messages) /\ i \in Seq(Messages)
        /\ Line(A, o, l, p, i, M, R) /\ o # <<>> /\ output'[c] = Tail(o) /\ input'[Room] = i
        /\ link'[At[Room]][At[c]] = l /\ pending'[At[Room]][At[c]] = p
    BY <1>1, QueueTypes DEF LineOf, ReceiveMessage, IInv, Places
  <2>2. m \in M /\ w \in WordsSaid
    <3>1. m \in Reaching(c) /\ m \in Messages
      BY <1>1, ReceiveKeeps, SubsetFacts
    <3> HIDE DEF m
    <3>2. m.data.words \in WordsSaid /\ m.by = Room /\ m.to \in Targets(c)
      BY <1>3, <3>1, HeardFacts DEF Targets
    <3> QED BY <1>3, <3>1, <3>2 DEF For
  <2>3. /\ heard \in [Members -> Seq(WordsSaid)] /\ heard[c] \in Seq(WordsSaid)
        /\ heard' = [heard EXCEPT ![c] = Append(@, w)] /\ heard'[c] = Append(heard[c], w)
    BY <1>3 DEF Hear, IInv, Programs
  <2> HIDE DEF m
  <2>4. Line(A \cup {w}, Tail(o), l, p, i, M, R) /\ Before(A, {w}, R) /\ w \in in /\ in1 \subseteq in
    <3>1. m = Head(o)
      BY DEF m
    <3> HIDE DEF o, l, p, i, A, M, R
    <3> QED BY <2>1, <2>2, <3>1, LineReceive
  <2>5. Elements(heard'[c]) \subseteq A \cup {w}
    BY <2>2, <2>3, ElementsAppend
  <2>6. (Elements(heard[c]))' = Elements(heard'[c]) /\ M' = M /\ R' = R
        /\ (Elements(spoken))' = Elements(spoken)
    BY <1>1 DEF Elements, For, Targets, Sooner
  <2>7. LineOf(Elements(heard[c]), Room, c, For(c), Sooner)'
    <3>1. Line(Elements(heard'[c]), Tail(o), l, p, i, M, R)
      <4> HIDE DEF A, M, R, o, l, p, i
      <4> QED BY <2>4, <2>5 DEF Line, Before
    <3> QED BY <2>1, <2>6, <3>1 DEF LineOf
  <2>8. (Told(c))' \subseteq Told(c) /\ Told(c) \subseteq Elements(spoken)
    <3>1. (Told(c))' = Elements(heard'[c]) \cup in1
      BY <2>1, <2>6 DEF Told, InLineOf
    <3>2. Told(c) = A \cup in
      BY DEF Told, InLineOf
    <3>3. Told(c) \subseteq Elements(spoken)
      BY DEF HearsInOrder
    <3> HIDE DEF A, in, in1
    <3> QED BY <2>4, <2>5, <3>1, <3>2, <3>3
  <2>9. ASSUME NEW j \in 1 .. Len(heard'[c]), NEW k \in 1 .. Len(heard'[c]), j < k
        PROVE  <<heard'[c][j], heard'[c][k]>> \in R
    <3>1. /\ Len(heard[c]) \in Nat /\ Len(heard'[c]) = Len(heard[c]) + 1
          /\ \A x \in 1 .. Len(heard[c]) : heard'[c][x] = heard[c][x]
          /\ heard'[c][Len(heard[c]) + 1] = w
      BY <2>2, <2>3, AppendProperties, LenProperties
    <3>2. j \in 1 .. Len(heard[c]) /\ heard'[c][j] = heard[c][j]
      BY <2>9, <3>1
    <3>3. CASE k \in 1 .. Len(heard[c])
      BY <2>9, <3>1, <3>2, <3>3 DEF HearsInOrder
    <3>4. CASE k = Len(heard[c]) + 1
      <4>1. heard[c][j] \in A
        BY <3>2 DEF Elements
      <4> HIDE DEF A, R
      <4> QED BY <2>4, <3>1, <3>2, <3>4, <4>1 DEF Before
    <3> QED BY <3>1, <3>3, <3>4
  <2>10. turn'.reply.type = "kMessage" /\ Name[c] \in turn'.left =>
           /\ spoken' # <<>> /\ turn'.reply.words = spoken'[Len(spoken')]
           /\ Before((Told(c))', {turn'.reply.words}, R)
    <3> HIDE DEF R
    <3> QED BY <1>1, <2>8 DEF HearsInOrder, Before, R
  <2> HIDE DEF R, M
  <2>11. \A j, k \in 1 .. Len(heard'[c]) : j < k => <<heard'[c][j], heard'[c][k]>> \in R
    BY <2>9
  <2>12. (Told(c))' \subseteq (Elements(spoken))'
    BY <2>6, <2>8
  <2> QED BY <1>1, <2>6, <2>7, <2>10, <2>11, <2>12 DEF HearsInOrder, R, M
<1> QED BY <1>2, <1>3

\* What is spoken now is spoken after all that was told.
LEMMA HandleMessageHears ==
  ASSUME IInv, HandleMessage, NEW c \in Members, HearsInOrder(c)
  PROVE  HearsInOrder(c)'
<1> DEFINE w == Received.data.words
           A == Elements(heard[c])
<1>1. /\ spoken' = Append(spoken, w) /\ spoken \in Seq(WordsSaid) /\ w \in WordsSaid
      /\ Received.data \in Chats
      /\ UNCHANGED <<members, program, said, heard, pending, link, input>>
      /\ turn' = IF Others(Received.from) = {} THEN Resting
                 ELSE [left |-> Others(Received.from), reply |-> [Received.data EXCEPT !.to_name = 0]]
  BY ReceivedFacts DEF HandleMessage, Receives, ReceiveMessage, IInv, Programs, PassOn
<1>2. output'[c] = output[c] /\ c # Room /\ c \in Clients
  BY AddressFacts DEF HandleMessage, Receives, ReceiveMessage, IInv, Places, Members
<1>3. turn'.reply.type = "kMessage" => turn'.reply.words = w
  <2>1. CASE Others(Received.from) = {}
    BY <1>1, <2>1 DEF Resting, Chat
  <2>2. CASE Others(Received.from) # {}
    BY <1>1, <2>2 DEF Chats
  <2> QED BY <2>1, <2>2
<1> HIDE DEF w
<1>4. /\ Sooner \subseteq Sooner' /\ Elements(spoken) \subseteq Elements(spoken')
      /\ Before(Elements(spoken), {w}, Sooner')
      /\ spoken' # <<>> /\ spoken'[Len(spoken')] = w
  BY <1>1, SoonerGrows
<1>5. /\ A' = A /\ (For(c))' = For(c) /\ (Told(c))' = Told(c)
      /\ (Elements(spoken))' = Elements(spoken')
      /\ (Across(At[c], At[c]))' = Across(At[c], At[c])
  BY <1>1, <1>2 DEF Elements, For, Targets, Told, InLineOf, Across
<1>6. LineOf(Elements(heard[c]), Room, c, For(c), Sooner)'
  <2>1. Line(A, output[c], link[At[Room]][At[c]], pending[At[Room]][At[c]], input[Room], For(c), Sooner')
    BY <1>4, LineGrows DEF HearsInOrder, LineOf
  <2> QED BY <1>1, <1>2, <1>5, <2>1 DEF LineOf
<1>7. (Told(c))' \subseteq (Elements(spoken))'
  BY <1>4, <1>5 DEF HearsInOrder
<1>8. Before((Told(c))', {w}, Sooner')
  BY <1>4, <1>5 DEF HearsInOrder, Before
<1>9. \A i, j \in 1 .. Len(heard'[c]) : i < j => <<heard'[c][i], heard'[c][j]>> \in Sooner'
  BY <1>1, <1>4 DEF HearsInOrder
<1>10. At[c] = At[Room] => (Across(At[c], At[c]))' \cap (For(c))' = {}
  BY <1>5 DEF HearsInOrder
<1>11. turn'.reply.type = "kMessage" /\ Name[c] \in turn'.left =>
         /\ spoken' # <<>> /\ turn'.reply.words = spoken'[Len(spoken')]
         /\ Before((Told(c))', {turn'.reply.words}, Sooner')
  BY <1>3, <1>4, <1>8
<1> QED BY <1>6, <1>7, <1>9, <1>10, <1>11 DEF HearsInOrder

\* The chatroom tells a member what was spoken last, once.
LEMMA BroadcastHears ==
  ASSUME IInv, BroadcastMessage, NEW c \in Members, HearsInOrder(c)
  PROVE  HearsInOrder(c)'
<1> DEFINE o == output[c]
           l == link[At[Room]][At[c]]
           p == pending[At[Room]][At[c]]
           i == input[Room]
           A == Elements(heard[c])
           M == For(c)
           R == Sooner
           w == turn.reply.words
           in == InLine(o, l, p, i, M)
<1>1. PICK n \in turn.left :
        /\ SendMessage(Room, IF turn.reply.type = "kMessage" THEN members[n] ELSE Default, turn.reply)
        /\ turn' = IF StillLeft(n) = {} THEN Resting ELSE [turn EXCEPT !.left = StillLeft(n)]
  BY DEF BroadcastMessage
<1> DEFINE m == Reply(n)
           in1 == InLine(o, l, p, Append(i, m), M)
<1>2. /\ UNCHANGED <<members, program, said, spoken, heard>>
      /\ UNCHANGED <<output, pending, link>> /\ input'[Room] = Append(i, m)
      /\ c \in Clients /\ Room \in Clients
  <2>1. SendMessage(Room, IF turn.reply.type = "kMessage" THEN members[n] ELSE Default, turn.reply)
    BY <1>1
  <2>2. Room \in Clients /\ c \in Clients
    BY ForFacts
  <2>3. input'[Room] = Append(input[Room], Reply(n))
    BY <2>1, <2>2, SendAdds DEF Reply
  <2> QED BY <2>1, <2>2, <2>3 DEF BroadcastMessage, SendMessage
<1>3. /\ m \in Messages /\ m.data = turn.reply /\ m \in Meant(Room) /\ n \in DOMAIN members
      /\ turn.reply.type = "kMessage" => m.to = members[n]
  BY ReplyFacts, SubsetFacts DEF Reply, Message
<1>4. /\ o \in Seq(Messages) /\ l \in Seq(Messages) /\ p \in Seq(Messages) /\ i \in Seq(Messages)
      /\ Line(A, o, l, p, i, M, R)
  BY <1>2, QueueTypes DEF HearsInOrder, LineOf
<1> HIDE DEF m
<1>5. m \in M => turn.reply.type = "kMessage" /\ n = Name[c] /\ Name[c] \in turn.left
  <2> SUFFICES ASSUME m \in M PROVE turn.reply.type = "kMessage" /\ n = Name[c]
    OBVIOUS
  <2>1. turn.reply.type = "kMessage" /\ m.to \in Targets(c)
    BY <1>3 DEF For
  <2>2. m.to = members[n] /\ members[n].client = n
    BY <1>3, <2>1, AddressFacts DEF IInv, MembersRegistered, SourceAddresses
  <2>3. m.to.client = Name[c]
    BY <2>1, AddressFacts DEF Targets
  <2> QED BY <2>1, <2>2, <2>3
<1>6. /\ Told(c) = A \cup in /\ Told(c) \subseteq Elements(spoken)
      /\ turn.reply.type = "kMessage" /\ Name[c] \in turn.left =>
           w \in Elements(spoken) /\ w = spoken[Len(spoken)] /\ Before(Told(c), {w}, R)
  <2>1. Told(c) = A \cup in
    BY DEF Told, InLineOf
  <2>2. ASSUME spoken # <<>> PROVE spoken[Len(spoken)] \in Elements(spoken)
    <3>1. Len(spoken) \in Nat \ {0}
      BY <2>2, EmptySeq DEF IInv, Programs
    <3>2. Len(spoken) \in 1 .. Len(spoken)
      BY <3>1
    <3> QED BY <3>2 DEF Elements
  <2> QED BY <2>1, <2>2 DEF HearsInOrder
<1>7. /\ Line(A, o, l, p, Append(i, m), M, R)
      /\ in1 \subseteq in \cup (IF m \in M THEN {w} ELSE {})
  <2>1. m \in M => m.data.words = w /\ Before(A \cup in, {m.data.words}, R)
    BY <1>3, <1>5, <1>6
  <2>2. /\ Line(A, o, l, p, Append(i, m), M, R)
        /\ in1 \subseteq in \cup (IF m \in M THEN {m.data.words} ELSE {})
    <3> HIDE DEF A, o, l, p, i, M, R
    <3> QED BY <1>3, <1>4, <2>1, LineSend
  <2> QED BY <2>1, <2>2
<1>8. /\ A' = A /\ M' = M /\ R' = R /\ (Elements(spoken))' = Elements(spoken)
      /\ (Across(At[c], At[c]))' = Across(At[c], At[c])
  BY <1>2 DEF Elements, For, Targets, Sooner, Across
<1>9. (Told(c))' = A \cup in1
  BY <1>2, <1>8 DEF Told, InLineOf
<1>10. LineOf(Elements(heard[c]), Room, c, For(c), Sooner)'
  BY <1>2, <1>7, <1>8 DEF LineOf
<1>11. /\ turn'.reply.type = "kMessage" => turn' = [turn EXCEPT !.left = StillLeft(n)]
       /\ turn \in [left : SUBSET DOMAIN members, reply : Chats]
  <2>1. turn'.reply.type = "kMessage" => StillLeft(n) # {}
    BY <1>1 DEF Resting, Chat
  <2> QED BY <1>1, <2>1 DEF IInv, Turns
<1>12. turn'.reply.type = "kMessage" =>
         turn.reply.type = "kMessage" /\ turn'.reply = turn.reply /\ turn'.left = turn.left \ {n}
  BY <1>11 DEF StillLeft
<1> HIDE DEF A, M, R, in, in1, w, o, l, p, i
<1>13. (Told(c))' \subseteq Elements(spoken)
  BY <1>5, <1>6, <1>7, <1>9
<1>14. turn'.reply.type = "kMessage" /\ Name[c] \in turn'.left =>
         /\ spoken' # <<>> /\ turn'.reply.words = spoken'[Len(spoken')]
         /\ Before((Told(c))', {turn'.reply.words}, R)
  <2> SUFFICES ASSUME turn'.reply.type = "kMessage", Name[c] \in turn'.left
               PROVE  /\ spoken # <<>> /\ turn'.reply.words = spoken[Len(spoken)]
                      /\ Before((Told(c))', {turn'.reply.words}, R)
    BY <1>2
  <2>1. turn.reply.type = "kMessage" /\ Name[c] \in turn.left /\ n # Name[c] /\ turn'.reply.words = w
    BY <1>12 DEF w
  <2>2. (Told(c))' \subseteq Told(c)
    BY <1>5, <1>6, <1>7, <1>9, <2>1
  <2>3. spoken # <<>> /\ w = spoken[Len(spoken)] /\ Before(Told(c), {w}, R)
    BY <1>6, <2>1 DEF HearsInOrder
  <2> QED BY <2>1, <2>2, <2>3 DEF Before
<1>15. \A j, k \in 1 .. Len(heard'[c]) : j < k => <<heard'[c][j], heard'[c][k]>> \in R
  BY <1>2 DEF HearsInOrder, R
<1>16. At[c] = At[Room] => (Across(At[c], At[c]))' \cap M = {}
  BY <1>8 DEF HearsInOrder, M
<1> QED BY <1>8, <1>10, <1>13, <1>14, <1>15, <1>16 DEF HearsInOrder, R, M

\* Other steps of the chatroom and the clients.
LEMMA ElseHears ==
  ASSUME IInv, LInv, [Next]_vars, ~HandleMessage, ~BroadcastMessage,
         NEW c \in Members, ~Hear(c), HearsInOrder(c)
  PROVE  HearsInOrder(c)'
<1> DEFINE Stays == StaysInLine(Elements(heard[c]), Room, c, For(c), Sooner)
           Rest == turn'.reply.type = "kMessage" /\ Name[c] \in turn'.left =>
                     turn.reply.type = "kMessage" /\ Name[c] \in turn.left /\ turn'.reply = turn.reply
<1>1. /\ c \in Clients /\ Room \in Clients /\ c # Room
      /\ LineOf(Elements(heard[c]), Room, c, For(c), Sooner)
  BY ForFacts DEF HearsInOrder
<1>2. ASSUME UNCHANGED <<pending, link>>, output'[c] = output[c], input'[Room] = input[Room],
             UNCHANGED <<spoken>>, heard' = heard, Rest
      PROVE  HearsInOrder(c)'
  <2>1. Stays
    BY <1>1, <1>2, StillInLine
  <2>2. At[c] = At[Room] => (Across(At[c], At[c]))' \cap For(c) = {}
    BY <1>2 DEF HearsInOrder, Across, Elements
  <2> QED BY <1>2, <2>1, <2>2, HearsKeeps
<1>3. CASE UNCHANGED vars
  BY <1>2, <1>3 DEF vars, netVars, chatVars
<1>4. ASSUME NEW k \in Clients, Start(k) PROVE HearsInOrder(c)'
  BY <1>2, <1>4 DEF Start, Create
<1>5. ASSUME NEW k \in Members, Register(k) \/ Say(k) \/ \E data \in OtherData(k) : SayOther(k, data)
      PROVE  HearsInOrder(c)'
  <2>1. k \in Clients /\ k # Room
    BY DEF Members
  <2>2. PICK data : SendMessage(k, RoomAddress(k), data)
    BY <1>5 DEF Register, Say, SayOther
  <2>3. input'[Room] = input[Room] /\ UNCHANGED <<output, pending, link>>
    BY <1>1, <2>1, <2>2, SendAdds DEF SendMessage
  <2>4. UNCHANGED <<turn, spoken, heard>>
    BY <1>5 DEF Register, Say, SayOther
  <2> QED BY <1>2, <2>3, <2>4
<1>6. ASSUME NEW k \in Members, SayFails(k) PROVE HearsInOrder(c)'
  BY <1>2, <1>6 DEF SayFails, netVars
<1>7. CASE HandleRegister \/ HandleHeartBeat \/ HandlePrivateMessage
  <2>1. ReceiveMessage(Room) /\ UNCHANGED <<spoken, heard>>
    BY <1>7 DEF HandleRegister, HandleHeartBeat, HandlePrivateMessage, Receives
  <2>2. /\ UNCHANGED <<pending, link>> /\ output'[c] = output[c] /\ input'[Room] = input[Room]
    BY <1>1, <2>1 DEF ReceiveMessage, IInv, Places
  <2>3. Rest
    <3>1. CASE HandleRegister \/ HandleHeartBeat
      BY <3>1 DEF HandleRegister, HandleHeartBeat
    <3>2. CASE HandlePrivateMessage
      <4>1. Received.data \in Chats /\ Received.data.type = "kPrivateMessage"
        BY <3>2, ReceivedFacts DEF HandlePrivateMessage
      <4>2. turn'.reply.type # "kMessage"
        BY <3>2, <4>1 DEF HandlePrivateMessage, PassOn, Resting, Chat, Chats
      <4> QED BY <4>2
    <3> QED BY <1>7, <3>1, <3>2
  <2> QED BY <1>2, <2>1, <2>2, <2>3
<1>8. CASE BroadcastFails
  BY <1>2, <1>8 DEF BroadcastFails, netVars
<1>9. CASE NetNext /\ UNCHANGED chatVars
  BY <1>9, NetHears
<1>10. ASSUME NEW k \in Members, Hear(k) PROVE HearsInOrder(c)'
  <2>1. k # c /\ k \in Clients
    BY <1>10 DEF Members
  <2> DEFINE h == Head(output[k])
  <2>2. /\ ReceiveMessage(k) /\ UNCHANGED <<turn, spoken>>
        /\ heard' = heard \/ heard' = [heard EXCEPT ![k] = Append(@, h.data.words)]
    BY <1>10 DEF Hear
  <2> HIDE DEF h
  <2>3. heard \in [Members -> Seq(WordsSaid)]
    BY DEF IInv, Programs
  <2>4. heard'[c] = heard[c]
    BY <2>1, <2>2, <2>3
  <2>5. /\ UNCHANGED <<pending, link>> /\ output'[c] = output[c] /\ input'[Room] = input[Room]
    BY <1>1, <2>1, <2>2 DEF ReceiveMessage, IInv, Places
  <2>6. /\ (Elements(heard[c]))' = Elements(heard[c]) /\ (Told(c))' = Told(c) /\ (Sooner)' = Sooner
        /\ (For(c))' = For(c) /\ (Elements(spoken))' = Elements(spoken)
        /\ (Across(At[c], At[c]))' = Across(At[c], At[c])
        /\ LineOf(Elements(heard[c]), Room, c, For(c), Sooner)'
             = LineOf(Elements(heard[c]), Room, c, For(c), Sooner)
    BY <2>2, <2>4, <2>5 DEF Elements, Told, InLineOf, LineOf, For, Targets, Sooner, Across
  <2> QED BY <2>2, <2>4, <2>6 DEF HearsInOrder
<1> QED BY <1>3, <1>4, <1>5, <1>6, <1>7, <1>8, <1>9, <1>10 DEF Next

LEMMA InitHears == Init => HInv
<1> SUFFICES ASSUME Init, NEW c \in Members PROVE HearsInOrder(c)
  BY DEF HInv
<1>1. c \in Clients /\ Room \in Clients /\ At[c] \in Nodes
  BY AddressFacts, NameFacts DEF Members
<1>2. heard[c] = <<>> /\ Len(heard[c]) = 0 /\ Elements(<<>>) = {}
  BY EmptySeq DEF Init, Elements
<1>3. LineOf(Elements(heard[c]), Room, c, For(c), Sooner) /\ InLineOf(Room, c, For(c)) = {}
  BY <1>1, InitLine
<1>4. Told(c) = {}
  BY <1>2, <1>3 DEF Told
<1>5. Across(At[c], At[c]) = {}
  BY <1>1, <1>2 DEF Init, NetInit, Across
<1>6. turn.left = {}
  BY RestingFacts DEF Init
<1> QED BY <1>2, <1>3, <1>4, <1>5, <1>6 DEF HearsInOrder

LEMMA HearsStep ==
  IInv /\ LInv /\ HInv /\ [Next]_vars => HInv'
<1> SUFFICES ASSUME IInv, LInv, HInv, [Next]_vars, NEW c \in Members PROVE HearsInOrder(c)'
  BY DEF HInv
<1>1. HearsInOrder(c)
  BY DEF HInv
<1>2. CASE HandleMessage
  BY <1>1, <1>2, HandleMessageHears
<1>3. CASE BroadcastMessage
  BY <1>1, <1>3, BroadcastHears
<1>4. CASE Hear(c)
  BY <1>1, <1>4, HearHears
<1>5. CASE ~HandleMessage /\ ~BroadcastMessage /\ ~Hear(c)
  BY <1>1, <1>5, ElseHears
<1> QED BY <1>2, <1>3, <1>4, <1>5

\* No two things spoken are the same.
LEMMA SpokenDistinct ==
  ASSUME IInv, SInv, NEW i \in 1 .. Len(spoken), NEW j \in 1 .. Len(spoken), i < j
  PROVE  spoken[i] # spoken[j]
<1>1. spoken[i] \in WordsSaid /\ spoken[j] \in WordsSaid
  BY ElementOfSeq DEF IInv, Programs
<1>2. CASE spoken[i].by = spoken[j].by
  <2> DEFINE c == spoken[i].by
  <2>1. c \in Members
    BY <1>1 DEF WordsSaid
  <2>2. <<spoken[i], spoken[j]>> \in Numbered(c)
    BY <1>2, <2>1 DEF SInv, SpeaksInOrder
  <2>3. spoken[i].n # spoken[j].n
    <3>1. spoken[i].n \in Nat /\ spoken[j].n \in Nat
      BY <1>1 DEF WordsSaid
    <3> QED BY <2>2, <3>1 DEF Numbered
  <2> QED BY <2>3
<1> QED BY <1>2

LEMMA HearsConclusion == IInv /\ SInv /\ HInv => HeardInOrder
<1> SUFFICES ASSUME IInv, SInv, HInv, NEW c \in Members
             PROVE  \E f \in [1 .. Len(heard[c]) -> 1 .. Len(spoken)] :
                      /\ \A i \in 1 .. Len(heard[c]) : heard[c][i] = spoken[f[i]]
                      /\ \A i, j \in 1 .. Len(heard[c]) : i < j => f[i] < f[j]
  BY DEF HeardInOrder
<1>1. \A i \in 1 .. Len(heard[c]) : \E j \in 1 .. Len(spoken) : spoken[j] = heard[c][i]
  <2>1. Elements(heard[c]) \subseteq Elements(spoken)
    BY DEF HInv, HearsInOrder, Told
  <2> QED BY <2>1 DEF Elements
<1> DEFINE f == [i \in 1 .. Len(heard[c]) |-> CHOOSE j \in 1 .. Len(spoken) : spoken[j] = heard[c][i]]
<1>2. \A i \in 1 .. Len(heard[c]) : f[i] \in 1 .. Len(spoken) /\ spoken[f[i]] = heard[c][i]
  BY <1>1
<1>3. f \in [1 .. Len(heard[c]) -> 1 .. Len(spoken)]
  BY <1>2
<1> HIDE DEF f
<1>4. ASSUME NEW i \in 1 .. Len(heard[c]), NEW j \in 1 .. Len(heard[c]), i < j
      PROVE  f[i] < f[j]
  <2>1. <<heard[c][i], heard[c][j]>> \in Sooner
    BY <1>4 DEF HInv, HearsInOrder
  <2>2. PICK x \in 1 .. Len(spoken), y \in 1 .. Len(spoken) :
          x < y /\ spoken[x] = heard[c][i] /\ spoken[y] = heard[c][j]
    BY <2>1 DEF Sooner
  <2>3. /\ f[i] \in 1 .. Len(spoken) /\ spoken[f[i]] = spoken[x]
        /\ f[j] \in 1 .. Len(spoken) /\ spoken[f[j]] = spoken[y]
    BY <1>2, <2>2
  <2>4. Len(spoken) \in Nat
    BY LenProperties DEF IInv, Programs
  <2>5. f[i] = x /\ f[j] = y
    <3>1. ~(f[i] < x) /\ ~(x < f[i])
      BY <2>3, SpokenDistinct
    <3>2. ~(f[j] < y) /\ ~(y < f[j])
      BY <2>3, SpokenDistinct
    <3> QED BY <2>3, <2>4, <3>1, <3>2
  <2> QED BY <2>2, <2>5
<1> QED BY <1>2, <1>3, <1>4

\* What a client hears was spoken in the chatroom, and it hears it once and in
\* the order in which it was spoken; if no member is called like the chatroom.
THEOREM HeardInOrderCorrect ==
  ASSUME NamesApart
  PROVE  Spec => []HeardInOrder
<1>1. Init => LInv /\ SInv /\ HInv
  BY InitLate, InitSpeaks, InitHears
<1>2. IInv /\ Given /\ LInv /\ SInv /\ HInv /\ [Next]_vars => LInv' /\ SInv' /\ HInv'
  BY LateStep, SpeaksStep, HearsStep
<1> QED BY <1>1, <1>2, HearsConclusion, Invariant, PTL DEF Spec
=============================================================================

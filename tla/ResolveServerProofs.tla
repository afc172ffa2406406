------------------------- MODULE ResolveServerProofs -------------------------
(***************************************************************************)
(* Proofs about ResolveServer, for any nodes, hosts, tables, connections    *)
(* and bounds.                                                             *)
(***************************************************************************)
EXTENDS ResolveServer, SequenceTheorems, TLAPS

-----------------------------------------------------------------------------
(* What the invariants the runs check need beside each other.               *)

\* OnRead works on a connection that is not gone.
ReadingOpened == reading # None => conn[reading] # "free"

\* A connection object that is used again has no history.
FreeIsFresh == \A c \in Conns : conn[c] = "free" => asked[c] = <<>> /\ replies[c] = <<>>

\* The first request on a connection, and only this, is kInitializeSelf.
AskedAsCpmd ==
  \A c \in Conns : \A i \in 1 .. Len(asked[c]) :
    \/ i = 1 /\ asked[c][i].type = "kInitializeSelf"
    \/ i > 1 /\ asked[c][i].type = "kLookupNode"

\* After its first reply a connection from a host of the table is initialised.
AnsweredInitialised ==
  \A c \in Conns :
    replies[c] # <<>> /\ host[c] \in DOMAIN CacheNodes => context[c] = CacheNodes[host[c]]

IInv ==
  /\ TypeOK
  /\ AssertionsHold
  /\ RegistryMatchesContexts
  /\ TimerUntilInitialised
  /\ ReadingOpened
  /\ FreeIsFresh
  /\ AskedAsCpmd
  /\ AnsweredInitialised
  /\ LookupsAnswered

-----------------------------------------------------------------------------
LEMMA InitInvariant == Init => IInv
<1> SUFFICES ASSUME Init PROVE IInv
  OBVIOUS
<1>1. TypeOK
  BY AddressAssumption, BoundAssumption, EmptySeq DEF Init, TypeOK
<1>2. AssertionsHold /\ RegistryMatchesContexts /\ TimerUntilInitialised
  BY AddressAssumption
     DEF Init, AssertionsHold, RegistryMatchesContexts, TimerUntilInitialised, Initialised
<1>3. ReadingOpened /\ FreeIsFresh /\ AskedAsCpmd /\ AnsweredInitialised /\ LookupsAnswered
  BY EmptySeq
     DEF Init, ReadingOpened, FreeIsFresh, AskedAsCpmd, AnsweredInitialised, LookupsAnswered
<1> QED BY <1>1, <1>2, <1>3 DEF IInv

\* What a step that stops the program leaves as it was.
LEMMA AbortInvariant ==
  ASSUME IInv, aborted' = "HandleNodeInit", reading' \in Conns \cup {None},
         reading' # None => conn[reading'] # "free",
         UNCHANGED <<conn, host, context, armed, connections, asked, replies, live, last, connects>>
  PROVE  IInv'
<1>1. TypeOK' /\ AssertionsHold' /\ ReadingOpened'
  BY DEF IInv, TypeOK, AssertionsHold, ReadingOpened
<1>2. RegistryMatchesContexts' /\ TimerUntilInitialised'
  BY DEF IInv, RegistryMatchesContexts, TimerUntilInitialised, Initialised
<1>3. FreeIsFresh' /\ AskedAsCpmd' /\ AnsweredInitialised' /\ LookupsAnswered'
  BY DEF IInv, FreeIsFresh, AskedAsCpmd, AnsweredInitialised, LookupsAnswered, IsOwn
<1> QED BY <1>1, <1>2, <1>3 DEF IInv

-----------------------------------------------------------------------------
(* Connections.                                                             *)

LEMMA OnNewConnectionInvariant ==
  ASSUME IInv, NEW c \in Conns, NEW a \in Hosts, OnNewConnection(c, a)
  PROVE  IInv'
<1> USE DEF OnNewConnection
<1>0. ~Initialised(c) /\ asked[c] = <<>> /\ replies[c] = <<>>
  BY DEF IInv, RegistryMatchesContexts, FreeIsFresh
<1>1. TypeOK'
  BY BoundAssumption DEF IInv, TypeOK, ArmTimer
<1>2. RegistryMatchesContexts'
  BY <1>0, AddressAssumption DEF IInv, TypeOK, RegistryMatchesContexts, Initialised
<1>3. TimerUntilInitialised'
  BY DEF IInv, TypeOK, TimerUntilInitialised, ArmTimer
<1>4. AskedAsCpmd' /\ AnsweredInitialised' /\ LookupsAnswered'
  <2>1. ASSUME NEW d \in Conns PROVE (host'[d] = host[d] /\ context'[d] = context[d]) \/ d = c
    BY DEF IInv, TypeOK
  <2> QED BY <1>0, <2>1, EmptySeq
       DEF IInv, AskedAsCpmd, AnsweredInitialised, LookupsAnswered, IsOwn
<1>5. AssertionsHold' /\ ReadingOpened' /\ FreeIsFresh'
  BY <1>0 DEF IInv, TypeOK, AssertionsHold, ReadingOpened, FreeIsFresh
<1> QED BY <1>1, <1>2, <1>3, <1>4, <1>5 DEF IInv

\* A connection that is found closed, by the timer or because its peer closed
\* it, still is what it was.
LEMMA ClosedInvariant ==
  ASSUME IInv, NEW c \in Conns, NEW gone \in SUBSET {c}, reading = None,
         conn' = [conn EXCEPT ![c] = "closed"], armed' = armed \ gone,
         UNCHANGED <<host, context, connections, asked, replies, reading, live, last, connects,
                     aborted>>
  PROVE  IInv'
<1>1. TypeOK' /\ AssertionsHold' /\ ReadingOpened'
  BY DEF IInv, TypeOK, AssertionsHold, ReadingOpened
<1>2. RegistryMatchesContexts' /\ TimerUntilInitialised'
  BY DEF IInv, TypeOK, RegistryMatchesContexts, TimerUntilInitialised, Initialised
<1>3. FreeIsFresh' /\ AskedAsCpmd' /\ AnsweredInitialised' /\ LookupsAnswered'
  BY DEF IInv, TypeOK, FreeIsFresh, AskedAsCpmd, AnsweredInitialised, LookupsAnswered,
         IsOwn
<1> QED BY <1>1, <1>2, <1>3 DEF IInv

LEMMA KickOffNodeInvariant ==
  ASSUME IInv, NEW c \in Conns, KickOffNode(c)
  PROVE  IInv'
BY ClosedInvariant DEF KickOffNode, Idle

LEMMA PeerClosesInvariant ==
  ASSUME IInv, NEW c \in Conns, PeerCloses(c)
  PROVE  IInv'
<1>1. armed' = armed \ {}
  BY DEF PeerCloses
<1> QED BY <1>1, ClosedInvariant DEF PeerCloses, Idle

LEMMA OnCloseInvariant ==
  ASSUME IInv, NEW c \in Conns, OnClose(c)
  PROVE  IInv'
<1>1. ~(context[c] \in NodeAddrs /\ connections[context[c]] = None)
  BY AddressAssumption DEF IInv, RegistryMatchesContexts
<1>2. /\ conn[c] = "closed" /\ reading = None
      /\ connections' = Leave(c)
      /\ conn' = [conn EXCEPT ![c] = "free"]
      /\ host' = [host EXCEPT ![c] = None]
      /\ context' = [context EXCEPT ![c] = None]
      /\ armed' = armed \ {c}
      /\ asked' = [asked EXCEPT ![c] = <<>>]
      /\ replies' = [replies EXCEPT ![c] = <<>>]
      /\ live' = [a \in Hosts |-> IF live[a] = c THEN None ELSE live[a]]
      /\ UNCHANGED <<reading, last, connects, aborted>>
  BY <1>1 DEF OnClose, Idle
<1>3. TypeOK'
  BY <1>2, EmptySeq DEF IInv, TypeOK, Leave
<1>4. RegistryMatchesContexts'
  <2>1. ASSUME NEW n \in NodeAddrs, NEW d \in Conns
        PROVE  connections'[n] = d <=> context'[d] = n
    BY <1>2, AddressAssumption DEF IInv, TypeOK, RegistryMatchesContexts, Leave
  <2>2. ASSUME NEW d \in Conns, context'[d] \in NodeAddrs
        PROVE  d # c
    BY <1>2, <2>2, AddressAssumption DEF IInv, TypeOK
  <2> QED BY <1>2, <2>1, <2>2 DEF IInv, TypeOK, RegistryMatchesContexts, Initialised
<1>5. TimerUntilInitialised' /\ AssertionsHold' /\ ReadingOpened' /\ FreeIsFresh'
  BY <1>2 DEF IInv, TypeOK, TimerUntilInitialised, AssertionsHold, ReadingOpened, FreeIsFresh
<1>6. AskedAsCpmd' /\ AnsweredInitialised' /\ LookupsAnswered'
  BY <1>2, EmptySeq
     DEF IInv, TypeOK, AskedAsCpmd, AnsweredInitialised, LookupsAnswered, IsOwn
<1> QED BY <1>3, <1>4, <1>5, <1>6 DEF IInv

-----------------------------------------------------------------------------
(* Requests and replies.                                                    *)

LEMMA CpmdSendsInvariant ==
  ASSUME IInv, NEW c \in Conns, NEW r \in Requests, CpmdSends(c, r)
  PROVE  IInv'
<1> USE DEF CpmdSends
<1>1. /\ asked[c] \in Seq(Requests) /\ Len(asked[c]) \in Nat
      /\ asked'[c] = Append(asked[c], r)
      /\ Len(asked'[c]) = Len(asked[c]) + 1
      /\ \A i \in 1 .. Len(asked[c]) : asked'[c][i] = asked[c][i]
      /\ asked'[c][Len(asked[c]) + 1] = r
      /\ \A d \in Conns : d # c => asked'[d] = asked[d]
  BY AppendProperties, LenProperties DEF IInv, TypeOK
<1>2. TypeOK'
  <2>1. asked' \in [Conns -> Seq(Requests)]
    BY AppendProperties DEF IInv, TypeOK
  <2>2. \A d \in Conns : Len(replies[d]) <= Len(asked'[d])
    BY <1>1, LenProperties DEF IInv, TypeOK
  <2> QED BY <2>1, <2>2 DEF IInv, TypeOK
<1>3. AssertionsHold' /\ RegistryMatchesContexts' /\ TimerUntilInitialised' /\ ReadingOpened'
  BY DEF IInv, AssertionsHold, RegistryMatchesContexts, TimerUntilInitialised, ReadingOpened,
         Initialised
<1>4. FreeIsFresh' /\ AnsweredInitialised'
  BY <1>1 DEF IInv, FreeIsFresh, AnsweredInitialised
<1>5. AskedAsCpmd'
  <2>1. \/ asked[c] = <<>> /\ r.type = "kInitializeSelf"
        \/ asked[c] # <<>> /\ r.type = "kLookupNode"
    BY DEF NextRequests, Lookups, SelfAddresses
  <2>2. asked[c] = <<>> <=> Len(asked[c]) = 0
    BY <1>1, EmptySeq
  <2>3. ASSUME NEW d \in Conns, NEW i \in 1 .. Len(asked'[d])
        PROVE  \/ i = 1 /\ asked'[d][i].type = "kInitializeSelf"
               \/ i > 1 /\ asked'[d][i].type = "kLookupNode"
    <3>1. CASE d = c /\ i = Len(asked[c]) + 1
      BY <1>1, <2>1, <2>2, <3>1
    <3>2. CASE ~(d = c /\ i = Len(asked[c]) + 1)
      <4>1. i \in 1 .. Len(asked[d]) /\ asked'[d][i] = asked[d][i]
        BY <1>1, <3>2
      <4> QED BY <4>1 DEF IInv, AskedAsCpmd
    <3> QED BY <3>1, <3>2
  <2> QED BY <2>3 DEF AskedAsCpmd
<1>6. LookupsAnswered'
  <2>1. ASSUME NEW d \in Conns, NEW i \in 1 .. Len(replies[d])
        PROVE  asked'[d][i] = asked[d][i]
    <3>1. i \in 1 .. Len(asked[d])
      BY LenProperties DEF IInv, TypeOK
    <3> QED BY <1>1, <3>1
  <2>2. UNCHANGED replies
    OBVIOUS
  <2>3. LookupsAnswered
    BY DEF IInv
  <2>4. ASSUME NEW d \in Conns, NEW i \in 1 .. Len(replies'[d]),
               asked'[d][i].type = "kLookupNode",
               IsOwn(d, asked'[d][i].self_addr) \/ conn[d] = "open"
        PROVE  replies'[d][i] = LookupReply(asked'[d][i].peer_addr)
    BY <2>1, <2>2, <2>3, <2>4 DEF LookupsAnswered
  <2> QED BY <2>4 DEF LookupsAnswered, IsOwn
<1> QED BY <1>2, <1>3, <1>4, <1>5, <1>6 DEF IInv

\* The loop takes a request that was asked, of a connection that is not gone.
LEMMA TakesRequest ==
  ASSUME IInv, NEW c \in Conns, Takes(c)
  PROVE  /\ Len(replies[c]) \in Nat /\ Len(replies[c]) + 1 \in 1 .. Len(asked[c])
         /\ Request(c) \in Requests
         /\ conn[c] \in {"open", "closed"}
         /\ reading' \in {c, None}
<1>1. Len(replies[c]) \in Nat /\ Len(asked[c]) \in Nat
  BY LenProperties DEF IInv, TypeOK
<1>2. Len(replies[c]) + 1 \in 1 .. Len(asked[c])
  <2>1. Len(asked[c]) - Len(replies[c]) > 0
    BY DEF Takes, Unanswered
  <2>2. \A m, n \in Nat : m - n > 0 => n + 1 \in 1 .. m
    OBVIOUS
  <2> QED BY <1>1, <2>1, <2>2
<1>3. Request(c) \in Requests
  BY <1>2, ElementOfSeq DEF IInv, TypeOK, Request
<1>4. conn[c] \in {"open", "closed"}
  BY AddressAssumption DEF IInv, TypeOK, ReadingOpened, Takes
<1> QED BY <1>1, <1>2, <1>3, <1>4 DEF Takes

\* What a reply changes by itself.
LEMMA ReplyInvariant ==
  ASSUME IInv, NEW c \in Conns, Takes(c), NEW reply \in Answers \cup {Garbage},
         replies' = [replies EXCEPT ![c] = Append(@, reply)],
         UNCHANGED <<host, asked, live, connects, aborted>>,
         last' \in Answers \cup {None},
         host[c] \in DOMAIN CacheNodes => context'[c] = CacheNodes[host[c]],
         \A d \in Conns : d # c => context'[d] = context[d],
         conn' = conn \/ CloseConn(c),
         (/\ Request(c).type = "kLookupNode"
          /\ IsOwn(c, Request(c).self_addr) \/ conn'[c] = "open")
           => reply = LookupReply(Request(c).peer_addr)
  PROVE  /\ replies' \in [Conns -> Seq(Answers \cup {Garbage})]
         /\ \A d \in Conns : Len(replies'[d]) <= Len(asked[d])
         /\ conn' \in [Conns -> {"free", "open", "closed"}]
         /\ \A d \in Conns : conn'[d] = "free" <=> conn[d] = "free"
         /\ \A d \in Conns : conn'[d] = "open" => conn[d] = "open"
         /\ reading' \in Conns \cup {None}
         /\ AssertionsHold' /\ ReadingOpened' /\ FreeIsFresh' /\ AskedAsCpmd'
         /\ AnsweredInitialised' /\ LookupsAnswered'
<1>1. /\ replies[c] \in Seq(Answers \cup {Garbage}) /\ Len(replies[c]) \in Nat
      /\ replies'[c] = Append(replies[c], reply)
      /\ replies'[c] \in Seq(Answers \cup {Garbage})
      /\ Len(replies'[c]) = Len(replies[c]) + 1
      /\ \A i \in 1 .. Len(replies[c]) : replies'[c][i] = replies[c][i]
      /\ replies'[c][Len(replies[c]) + 1] = reply
      /\ \A d \in Conns : d # c => replies'[d] = replies[d]
  BY AppendProperties, LenProperties DEF IInv, TypeOK
<1>2. /\ Len(replies[c]) + 1 \in 1 .. Len(asked[c])
      /\ conn[c] \in {"open", "closed"} /\ reading' \in {c, None}
  BY TakesRequest
<1>3. /\ replies' \in [Conns -> Seq(Answers \cup {Garbage})]
      /\ \A d \in Conns : Len(replies'[d]) <= Len(asked[d])
  BY <1>1, <1>2 DEF IInv, TypeOK
<1>4. /\ conn' \in [Conns -> {"free", "open", "closed"}]
      /\ \A d \in Conns : conn'[d] = "free" <=> conn[d] = "free"
      /\ \A d \in Conns : conn'[d] = "open" => conn[d] = "open"
  BY <1>2 DEF IInv, TypeOK, CloseConn
<1>5. AssertionsHold' /\ ReadingOpened' /\ FreeIsFresh' /\ AskedAsCpmd'
  BY <1>1, <1>2, <1>4
     DEF IInv, AssertionsHold, ReadingOpened, FreeIsFresh, AskedAsCpmd
<1>6. AnsweredInitialised'
  BY <1>1 DEF IInv, AnsweredInitialised
<1>7. LookupsAnswered'
  <2>1. ASSUME NEW d \in Conns, NEW i \in 1 .. Len(replies'[d]),
               asked[d][i].type = "kLookupNode",
               IsOwn(d, asked[d][i].self_addr) \/ conn'[d] = "open"
        PROVE  replies'[d][i] = LookupReply(asked[d][i].peer_addr)
    <3>1. CASE d = c /\ i = Len(replies[c]) + 1
      BY <1>1, <2>1, <3>1 DEF Request
    <3>2. CASE ~(d = c /\ i = Len(replies[c]) + 1)
      <4>1. i \in 1 .. Len(replies[d]) /\ replies'[d][i] = replies[d][i]
        BY <1>1, <3>2
      <4> QED BY <1>4, <2>1, <4>1 DEF IInv, LookupsAnswered
    <3> QED BY <3>1, <3>2
  <2> QED BY <2>1 DEF LookupsAnswered, IsOwn
<1> QED BY <1>2, <1>3, <1>4, <1>5, <1>6, <1>7

LEMMA HandleNodeInitUnknownInvariant ==
  ASSUME IInv, NEW c \in Conns, HandleNodeInitUnknown(c)
  PROVE  IInv'
<1> DEFINE reply == [type |-> "kNoSelf"]
<1>1. /\ Takes(c) /\ Request(c).type = "kInitializeSelf" /\ host[c] \notin DOMAIN CacheNodes
      /\ Filled(c, reply) /\ CloseConn(c)
      /\ UNCHANGED <<host, context, armed, connections, asked, live, connects, aborted>>
  BY DEF HandleNodeInitUnknown
<1>2. reply \in Answers
  BY DEF Answers
<1>3. /\ replies' \in [Conns -> Seq(Answers \cup {Garbage})]
      /\ \A d \in Conns : Len(replies'[d]) <= Len(asked[d])
      /\ conn' \in [Conns -> {"free", "open", "closed"}]
      /\ \A d \in Conns : conn'[d] = "free" <=> conn[d] = "free"
      /\ \A d \in Conns : conn'[d] = "open" => conn[d] = "open"
      /\ reading' \in Conns \cup {None}
      /\ AssertionsHold' /\ ReadingOpened' /\ FreeIsFresh' /\ AskedAsCpmd'
      /\ AnsweredInitialised' /\ LookupsAnswered'
  BY <1>1, <1>2, ReplyInvariant DEF Filled
<1>4. TypeOK'
  BY <1>1, <1>2, <1>3 DEF IInv, TypeOK, Filled
<1>5. RegistryMatchesContexts' /\ TimerUntilInitialised'
  BY <1>1, <1>3 DEF IInv, RegistryMatchesContexts, TimerUntilInitialised, Initialised
<1> QED BY <1>3, <1>4, <1>5 DEF IInv

LEMMA HandleNodeInitInvariant ==
  ASSUME IInv, NEW c \in Conns, HandleNodeInit(c)
  PROVE  IInv'
<1> DEFINE n == CacheNodes[host[c]]
           reply == [type |-> "kUpdateSelf", node |-> n]
<1>1. /\ Takes(c) /\ Request(c).type = "kInitializeSelf" /\ host[c] \in DOMAIN CacheNodes
      /\ UNCHANGED <<host, asked, live, connects>>
  BY DEF HandleNodeInit
<1>2. n \in NodeAddrs
  BY <1>1, ConfAssumption
<1>3. conn[c] \in {"open", "closed"} /\ reading' \in {c, None}
  BY <1>1, TakesRequest
<1>4. CASE Taken(n) \/ context[c] # "timer"
  <2>1. /\ aborted' = "HandleNodeInit"
        /\ UNCHANGED <<conn, context, armed, connections, replies, last>>
    BY <1>4 DEF HandleNodeInit
  <2> QED BY <1>1, <1>3, <2>1, AddressAssumption, AbortInvariant
<1>5. CASE ~(Taken(n) \/ context[c] # "timer")
  <2>1. /\ connections' = [connections EXCEPT ![n] = c]
        /\ armed' = RemoveTimer(c)
        /\ context' = [context EXCEPT ![c] = n]
        /\ Filled(c, reply)
        /\ UNCHANGED <<conn, aborted>>
    BY <1>5 DEF HandleNodeInit, Preserve
  <2>2. connections[n] = None /\ context[c] = "timer"
    BY <1>5 DEF Taken
  <2>3. reply \in Answers
    BY <1>2 DEF Answers
  <2>4. /\ replies' \in [Conns -> Seq(Answers \cup {Garbage})]
        /\ \A d \in Conns : Len(replies'[d]) <= Len(asked[d])
        /\ reading' \in Conns \cup {None}
        /\ AssertionsHold' /\ ReadingOpened' /\ FreeIsFresh' /\ AskedAsCpmd'
        /\ AnsweredInitialised' /\ LookupsAnswered'
    <3>1. context'[c] = n /\ \A d \in Conns : d # c => context'[d] = context[d]
      BY <2>1 DEF IInv, TypeOK
    <3> QED BY <1>1, <2>1, <2>3, <3>1, ReplyInvariant DEF Filled
  <2>5. TypeOK'
    BY <1>1, <1>2, <2>1, <2>3, <2>4 DEF IInv, TypeOK, Filled, RemoveTimer
  <2>6. RegistryMatchesContexts'
    <3>1. ASSUME NEW k \in NodeAddrs, NEW d \in Conns
          PROVE  connections'[k] = d <=> context'[d] = k
      BY <1>2, <2>1, <2>2, AddressAssumption DEF IInv, TypeOK, RegistryMatchesContexts
    <3> QED BY <1>1, <1>3, <2>1, <3>1 DEF IInv, TypeOK, RegistryMatchesContexts, Initialised
  <2>7. TimerUntilInitialised'
    BY <1>2, <2>1, AddressAssumption DEF IInv, TypeOK, TimerUntilInitialised, RemoveTimer
  <2> QED BY <2>4, <2>5, <2>6, <2>7 DEF IInv
<1> QED BY <1>4, <1>5

LEMMA HandleNodeLookupInvariant ==
  ASSUME IInv, NEW c \in Conns, HandleNodeLookup(c)
  PROVE  IInv'
<1> DEFINE s == Request(c).self_addr
           answer == LookupReply(Request(c).peer_addr)
<1>1. /\ Takes(c) /\ Request(c).type = "kLookupNode"
      /\ UNCHANGED <<host, context, armed, connections, asked, live, connects>>
  BY DEF HandleNodeLookup
<1>2. /\ Len(replies[c]) \in Nat /\ Len(replies[c]) + 1 \in 1 .. Len(asked[c])
      /\ Request(c) \in Requests
  BY <1>1, TakesRequest
<1>3. s \in NodeAddrs \cup {LocalNode} /\ Request(c).peer_addr \in NodeAddrs
  BY <1>1, <1>2 DEF Requests
<1>4. replies[c] # <<>>
  <2>1. Len(replies[c]) + 1 > 1
    BY <1>1, <1>2 DEF IInv, AskedAsCpmd, Request
  <2> QED BY <1>2, <2>1, EmptySeq DEF IInv, TypeOK
\* A connection found under an address is initialised, and for this address.
<1>5. Knows(s) => context[connections[s]] = s /\ s \in NodeAddrs
  BY <1>3 DEF IInv, TypeOK, RegistryMatchesContexts, Knows
\* The own address is known.
<1>6. IsOwn(c, s) => Knows(s)
  BY <1>3, <1>4, AddressAssumption, ConfAssumption
     DEF IInv, TypeOK, IsOwn, AnsweredInitialised, RegistryMatchesContexts, Knows
<1>7. PICK reply \in Answers \cup {Garbage} :
        /\ replies' = [replies EXCEPT ![c] = Append(@, reply)]
        /\ last' \in Answers \cup {None}
        /\ IsOwn(c, s) \/ conn'[c] = "open" => reply = answer
        /\ conn' = conn \/ CloseConn(c)
        /\ aborted' = aborted
  <2>1. CASE Filled(c, answer) /\ Preserve /\ UNCHANGED aborted
    <3>1. answer \in Answers
      BY <1>3 DEF Answers, LookupReply
    <3> QED BY <2>1, <3>1 DEF Filled, Preserve
  <2>2. CASE ~Knows(s) /\ Unfilled(c) /\ CloseConn(c) /\ UNCHANGED aborted
    <3>1. PICK reply \in {Garbage} \cup ({last} \ {None}) :
            replies' = [replies EXCEPT ![c] = Append(@, reply)]
      BY <2>2 DEF Unfilled
    <3>2. reply \in Answers \cup {Garbage} /\ last' \in Answers \cup {None}
      BY <2>2, <3>1 DEF IInv, TypeOK, Unfilled
    <3>3. conn'[c] # "open"
      BY <2>2 DEF IInv, TypeOK, CloseConn
    <3> QED BY <1>6, <2>2, <3>1, <3>2, <3>3
  <2> QED BY <1>5, <2>1, <2>2 DEF HandleNodeLookup
<1>8. /\ replies' \in [Conns -> Seq(Answers \cup {Garbage})]
      /\ \A d \in Conns : Len(replies'[d]) <= Len(asked[d])
      /\ conn' \in [Conns -> {"free", "open", "closed"}]
      /\ \A d \in Conns : conn'[d] = "free" <=> conn[d] = "free"
      /\ \A d \in Conns : conn'[d] = "open" => conn[d] = "open"
      /\ reading' \in Conns \cup {None}
      /\ AssertionsHold' /\ ReadingOpened' /\ FreeIsFresh' /\ AskedAsCpmd'
      /\ AnsweredInitialised' /\ LookupsAnswered'
  <2>1. host[c] \in DOMAIN CacheNodes => context'[c] = CacheNodes[host[c]]
    BY <1>1, <1>4 DEF IInv, AnsweredInitialised
  <2> QED BY <1>1, <1>7, <2>1, ReplyInvariant
<1>9. TypeOK'
  BY <1>1, <1>7, <1>8 DEF IInv, TypeOK
<1>10. RegistryMatchesContexts' /\ TimerUntilInitialised'
  BY <1>1, <1>8 DEF IInv, RegistryMatchesContexts, TimerUntilInitialised, Initialised
<1> QED BY <1>8, <1>9, <1>10 DEF IInv

-----------------------------------------------------------------------------
LEMMA StepInvariant == IInv /\ [Next]_vars => IInv'
<1> SUFFICES ASSUME IInv, [Next]_vars PROVE IInv'
  OBVIOUS
<1>1. ASSUME NEW c \in Conns, NEW a \in Hosts, OnNewConnection(c, a) PROVE IInv'
  BY <1>1, OnNewConnectionInvariant
<1>2. ASSUME NEW c \in Conns, NEW r \in Requests, CpmdSends(c, r) PROVE IInv'
  BY <1>2, CpmdSendsInvariant
<1>3. ASSUME NEW c \in Conns, OnMessage(c) PROVE IInv'
  BY <1>3, HandleNodeInitUnknownInvariant, HandleNodeInitInvariant, HandleNodeLookupInvariant
     DEF OnMessage
<1>4. ASSUME NEW c \in Conns, KickOffNode(c) PROVE IInv'
  BY <1>4, KickOffNodeInvariant
<1>5. ASSUME NEW c \in Conns, PeerCloses(c) PROVE IInv'
  BY <1>5, PeerClosesInvariant
<1>6. ASSUME NEW c \in Conns, OnClose(c) PROVE IInv'
  BY <1>6, OnCloseInvariant
<1>7. CASE UNCHANGED vars
  BY <1>7
     DEF vars, IInv, TypeOK, AssertionsHold, RegistryMatchesContexts, TimerUntilInitialised,
         ReadingOpened, FreeIsFresh, AskedAsCpmd, AnsweredInitialised, LookupsAnswered,
         IsOwn, Initialised
<1> QED BY <1>1, <1>2, <1>3, <1>4, <1>5, <1>6, <1>7 DEF Next

\* The inductive invariant holds, whichever connections come, fail or time out
\* and whatever is asked on them (Run and all callbacks of ResolveServer).
THEOREM Invariant == Spec => []IInv
<1>1. IInv /\ [Next]_vars => IInv'
  BY StepInvariant
<1> QED BY InitInvariant, <1>1, PTL DEF Spec

\* No connection is answered more often than it asked, and all else is of its
\* type (OnMessage and the loop of OnRead).
THEOREM TypeCorrect == Spec => []TypeOK
<1>1. IInv => TypeOK
  BY DEF IInv
<1> QED BY Invariant, <1>1, PTL

\* The asserts of OnClose and HandleNodeLookup never fail.
THEOREM AssertionsCorrect == Spec => []AssertionsHold
<1>1. IInv => AssertionsHold
  BY DEF IInv
<1> QED BY Invariant, <1>1, PTL

\* connections_ and the contexts of the connections stay inverse to each other
\* (HandleNodeInit and OnClose).
THEOREM RegistryCorrect == Spec => []RegistryMatchesContexts
<1>1. IInv => RegistryMatchesContexts
  BY DEF IInv
<1> QED BY Invariant, <1>1, PTL

\* The kick-off timer is armed exactly until a connection is initialised
\* (OnNewConnection, HandleNodeInit, KickOffNode).
THEOREM TimerCorrect == Spec => []TimerUntilInitialised
<1>1. IInv => TimerUntilInitialised
  BY DEF IInv
<1> QED BY Invariant, <1>1, PTL

\* A cpmd that asks under its own address gets what the table has, and so does
\* one that asks under any other while its connection stays open
\* (HandleNodeLookup).
THEOREM LookupsCorrect == Spec => []LookupsAnswered
<1>1. IInv => LookupsAnswered
  BY DEF IInv
<1> QED BY Invariant, <1>1, PTL
=============================================================================

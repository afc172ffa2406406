# Models of cpmd

cpmd lets programs on one host, or on several, send messages to each other by
name.  A *client* talks to the *cpmd* of its host over two rings in shared
memory; cpmds talk to each other over TCP; a *resolve server* tells a cpmd
its own logical address and where the other nodes are.

This directory holds TLA+ modules of that system, TLC configurations that
check them on small instances, and proofs, checked by TLAPS, that what matters
most of a cpmd, of the resolve server and of its configuration holds for every
instance.  Paths below are relative to `src/cpm/`.

## 1. The system

### Parts

**cpmd, local side** (`cpm_server.cc` 153-260, `cpm_client_info.cc`).
State: `clients_`, a map from the hash of a client's name to its two buses, and
`self_address_`.  Operations: `HandleInitCommand` (a UDP request registers a
client and creates its buses), `HandleBusMessage` (the loop's cron functor:
reads each client's bus until it is empty and routes each message),
`HandleToLocalMessage`, `HandleRemoteMessage` (a message from another cpmd).
Hard: clients are processes that run at any time; cpmd may crash and restart
while the buses stay; handshakes time out and are tried again; buses fill up.
Correct means: a message reaches the client it names and no other, in order,
once; what is given up is logged; every registered client is read.

**cpmd, remote side** (`cpm_server.cc` 95-147 and 262-474, `cpm_node.cc`).
State: `nodes_` (by logical address; each with a resolve state, a network
address, `connecting_`, a weak pointer to its connection and a cache of
messages), `nodes_index_` (by network address), the connections of one
`TcpClient`, `resolve_server_conn_`, the reconnect timer, lookups under way.
Operations: a message for another node (`HandleToRemoteMessage`: send, cache,
connect or look up), the connected/error/close callbacks of nodes and of the
resolve server, its responses (`UpdateSelfAddress`, `UpdateNodeAddressCache`).
Hard: all of these come in any order; tables refer to each other by address;
asserts end the process.  Correct means: the tables agree with each other and
with the connections, a message goes only to its node and is accounted for,
there is always exactly one link or attempt at one, waiting ends.

**Message cache** (`cpm_message_cache_queue.cc`): bounded queue of a node that
gives up its oldest message when full.

**Codecs** (`cpm_message_codec.cc`, `cpm_protocol_message_codec.cc`): cut the
bytes of a connection into messages; they keep no state but the connection's
buffer.  Hard: TCP cuts anywhere, limits, a callback that closes the connection.

**Resolve server** (`cpm_resolve_server.cc`): `connections_` (node to
connection), a context and a kick-off timer per connection, two tables from its
configuration.  Operations: connect, timer, `HandleNodeInit`,
`HandleNodeLookup`, close.  Correct means: registry and contexts are inverse, the
uninitialised are kicked off and nobody else, lookups are answered from the
table.

**Configuration** (`cpm_resolve_server_conf.cc`): the tables `nodes_` (by logical
address) and `cache_nodes_` (by network address, with pointers into `nodes_`),
filled from an XML file, child by child.  Hard: addresses are hashes and can
collide, nodes can share a network address, one host can be written in several
ways, any attribute can be missing.  Correct means: a file is refused exactly if
it is not well formed, and the tables agree with it and with each other.

**Addresses** (`cpm_address.cc`): "client", "node/" or "node/client", split at the
last slash and hashed.

**Client library** (`cpm_impl.cc`, `cpm_udp_socket.cc`): handshake, send,
receive.

**Chatroom** (`../examples/chatroom`): a server that keeps the addresses under
which its members registered and passes on what they say, and its client.  Hard:
addresses it learned can be those of a cpmd that did not know its own yet; two
clients of two nodes can have one name; its bus fills up in the middle of a
broadcast.

**Data and programs** (`cpm_message.cc`, `cpm_protocol.cc`, `cpm_options.cc`, the
mains): passive data, builders, argument parsing.

**alpha**, the networking and shared-memory library, is a submodule that is
not in the repository: event loop, TCP, UDP, process buses.

### Interaction

A client and cpmd share two buses, each with one writer and one reader, and a
UDP socket during the handshake.  In cpmd all callbacks run on one thread, one
after the other; `HandleBusMessage` calls the remote side directly, and the
codecs call `HandleRemoteNodeMessage` and `HandleResolveServerMessage`.  cpmd
and resolve server exchange requests and responses over one TCP link.  From one
cpmd to another messages go over a connection that only the sender writes.

## 2. Modules

| module | models | checked as |
|---|---|---|
| `CpmServer` (uses `MessageCacheQueue`) | remote side of a cpmd, cache | `MCCpmServer` |
| `CpmServerProofs` | theorems about `CpmServer` | TLAPS |
| `Outbox` (uses `MessageCacheQueue`) | what a cpmd promises for messages to other nodes (abstract) | |
| `OutboxProofs`, `CpmServerRefinement` | `Outbox` keeps order; `CpmServer` implements it | TLAPS |
| `ResolveServer` | resolve server | `MCResolveServer` |
| `ResolveServerProofs` | theorems about `ResolveServer` | TLAPS |
| `Addresses` | names and their parts | |
| `ResolveConf` (extends `Addresses`) | configuration of the resolve server | `MCResolveConf` |
| `ResolveConfProofs` | theorems about `ResolveConf` and `Addresses` | TLAPS |
| `FrameStream` | what a codec promises (abstract) | |
| `MessageCodec` (extends `FrameStream`) | the loop of `OnRead` | `MCMessageCodec` |
| `MessageCodecProofs` | theorems about `MessageCodec` | TLAPS |
| `LocalClients` | local side of a cpmd, client library, buses | `MCLocalClients` |
| `LocalClientsProofs` | theorems about `LocalClients` | TLAPS |
| `Network` (uses `MessageCacheQueue`) | several cpmds and their clients | |
| `Chatroom` (extends `Network`) | the chatroom's programs | `MCChatroom` |
| `ChatroomProofs` | theorems about `Network` and `Chatroom` | TLAPS |

Definitions carry the names of the functions they translate; `PROJECT.json`
lists the lines.  A few definitions that no other uses (`RegisterNodeForgotten`,
`IncompleteOffByOne`, `ForwardOvertaking`, ...; `PROJECT.json` lists them as
"mutants") are wrong variants of the definition that follows them: put in its
place, each breaks a property, which shows that the property depends on that
code.

**CpmServer.**  One action is one callback, or one message taken by
`HandleBusMessage`.  `Abort` stands for an assert that fails: the process is
gone, so nothing happens afterwards.  `HandleToRemoteMessage` has five
alternatives, its five ways out.  A node's fields are functions on node
addresses; the `weak_ptr` is a connection or `None`.  What the history variables
`wire`, `dropped`, `unreported` collect is compared with `accepted`.

**ResolveServer.**  `reading` keeps the loop of the codec together: requests
that arrived on one connection are handled before any other callback runs, also
after one of them closed the connection.  The cpmds at the other end send
what `CpmServer` sends: first kInitializeSelf, then lookups under the address they
take for their own.  That is none until kUpdateSelf came, and after a stale one
(see below) that of another cpmd, so `NextRequests` allows any address of the table.

**MessageCodec.**  A frame is a position, a size and whether its magic is right.
Bytes are counted, not stored.  The turns of the loop are steps, because the
callback may close the connection in between.  The sizes are constants, so that
the resolve protocol's codec, the same loop, is another instance.

**LocalClients.**  `input` and `output` are the buses, by client; they belong to
no process.  `at` and `m` are the loop variables of `HandleBusMessage`; clients
run between any two of its steps, other callbacks do not.  A handshake is a
request, a reply and a client that waits for it or gives up.  `Crash` ends cpmd
between any two steps and starts it anew with empty tables.

**Outbox.**  Each message taken from a client is written, kept, or given up; what
is kept is written at once when the node is connected.  No lookups, connections
or callbacks appear in it.  `CpmServer!ImplementsOutbox` maps `wire` to what was
written, the caches to what is kept, `dropped` and `unreported` to what was given
up.

**Addresses, ResolveConf.**  A name is the sequence of its characters, since what
`Create` splits off is the point; `Hash` is any function.  `ResolveConf` reads one
child per step and chooses freely what the XML parser makes of it: a tag, and
for each attribute a value or `Missing`, for which `get` throws.  Network
addresses are apart from the texts they are written as, because `cache_nodes_` has
the text of the file while a connection is looked up under what alpha prints.

**Network, Chatroom.**  A message goes from the bus of its sender to that of its
receiver over two cpmds; `by`, its true sender, is seen by properties only.
`Network` has of a connection between two cpmds what `Outbox` promises: messages
are kept in order, flushed, written, or lost (`ConnectOnDemand`, the cache's drop,
and with the connection).  It abstracts from these: the end of a connection is read
before a new one is, so that `link` is one queue; a cpmd that refuses a message and
closes still handles a prefix of what it had received; writes are not refused;
cpmds do not crash (`LocalClients` has that).  Clients are registered under their
names' hashes, which here do not collide; clients of different nodes may share a
name.  In `Chatroom` a client at the chatroom's node may have been given its name with or
without the node (`by_name`); from another node only the full name leads there.
Each send of a broadcast is a step of its own, since other
programs run in between; `turn` is where that loop is.  `SayOther` stands for any
other program that speaks the protocol and sends private messages, which
`chat_client.cc` never does, or heart beats, which it has commented out.

### Uninitialised memory

Two replies are sent without being filled in.  In `ResolveServer::OnMessage` a
refused lookup sends a `ProtocolMessage` as it lies on the stack; in
`HandleInitCommand` a failed registration writes only the code.  In both models
the reader gets garbage or any earlier reply, which is what such a buffer may
hold (`ReadStaleSelf`, `ReadStaleResponse`, `last`, `FailedPaths`).

### Assumptions about what is outside

- alpha: a connection attempt ends in exactly one of connected or error; a
  closed connection gets one close callback; callbacks do not nest, except that
  the codec calls its callback in its loop; `Write` takes all of a message or
  none.  The first write on a new link succeeds.  A `ProcessBus` is first in,
  first out, refuses what does not fit, is found again under its path, and
  keeps a message it handed out until the next read.
- This cpmd is in the table of the resolve server (`SelfAddr`), which has at
  most one network address per node.  The `ConfAssumption` of `ResolveServer`, that
  the node found under a network address has this address, is
  `ResolveConf!TablesAgree`, which is proved.
- All clients of one name use one buffer size.
- The paths of the buses, `bus_location_` with the client's name and "_input.bus" or
  "_output.bus", are shorter than `kMaxPathSize`, so that each names one bus of one
  client and `LocalClients` can index buses by client.  `GetBusPath` cuts longer ones
  (`cpm_server.cc:507`): then the two buses of a client, or those of two clients whose
  names begin alike, would be one file.  A name may have 127 characters and the
  path no more, so the code does not exclude it; its warning leaves out the suffix.

## 3. Runs

| run | configuration | shows |
|---|---|---|
| `safety` | `CpmServerSafety` | tables, connections, caches consistent; every message accounted for; `Outbox` implemented |
| `order` | `CpmServerOrder` | order of messages; attempts, lookups and the link always make progress |
| `register`, `unregister`, `stale` | `CpmServer...` | three asserts that can fail (section 6) |
| `resolve_safety` | `ResolveServerSafety` | registry, contexts and timers agree; lookups answered; uninitialised connections go |
| `resolve_init` | `ResolveServerInit` | an assert that can fail |
| `codec` | `MessageCodec` | the codec implements `FrameStream` |
| `local` | `LocalClientsSafety` | routing, order and accounting of local messages; all clients read |
| `conf` | `ResolveConf` | exactly the well-formed files are accepted, and loaded as they are written |
| `chatroom` | `Chatroom` | messages over two cpmds carry their senders' addresses; the chatroom's words are heard by its members, once, in order |
| `handshake` | `LocalClientsFailure` | a failed registration can yield another client's buses |

### Bounds, and why they are enough

- *CpmServer*: the cpmd itself, a node of the table and (in `safety`) one that
  is not in it; two network addresses.  By `OneConnectionPerPeer` at most three
  connections are in use at once, so three suffice.  A cache of two messages and
  four messages let a cache overflow twice and let messages overtake each other;
  two closes by the other side allow a connection, or the link, to be lost,
  made again and lost again.  The connections are interchangeable, hence
  symmetry in the runs without liveness.  In `order` three messages are enough,
  since it does not count overflows beyond the first.
- *ResolveServer*: two cpmds of the table, one host that is not, two
  connections at a time and three in all, two requests on each: a cpmd on two
  connections at once, or two that ask in turn, and a connection object used
  again.  Liveness is checked in the same run.  More connections at a time add
  nothing the run could find: the safety properties are proved for any number.
- *MessageCodec*: three frames of each size from an empty one to the first that
  is refused (`kMinSize = 2`, `kMaxSize = 5`), cut at every byte: a header in two
  parts, a frame that ends with the buffer, several frames in one read.
- *LocalClients*: two clients of which one registers twice, buses of two
  messages, two messages sent and one from outside, one crash.  Messages left in
  a bus by a crash are read later; a bus to a client overflows.  Two names with
  one hash are in the model but not in the instance, whose state space they
  would triple.
- *ResolveConf*: up to two servers and two nodes, of two elements each; three names
  of nodes of which one is nested in another and two have one hash; two hosts,
  one written in two ways.  Every pair of children is tried, and what goes wrong
  between children goes wrong between two.
- *Chatroom*: two nodes; the chatroom with another client at the first, alice and
  bob at the second, where both nodes have a "bob".  Alice speaks twice, so that
  her words can overtake each other, the bob at the chatroom's node once; he also
  may send anything else.  Buses of one message fill up in the middle of each
  broadcast; a cache of two overflows.

All configurations say `CHECK_DEADLOCK FALSE`: clients need not send, and a
process that aborted stops.

### Fairness

Safety needs none.  `CpmServer!Fairness` and `ResolveServer!Fairness` are weak
fairness of single callbacks: alpha's event loop runs what is due, and a callback
once due stays due until it ran.  Nobody is obliged to send, to connect, to close
or to answer before the link ends; and no strong fairness is used.  `MessageCodec` assumes
that TCP delivers on an open connection and that a loop inside a callback goes
on.  `LocalClients` assumes only that the loop runs `HandleBusMessage`; since
clients send finitely often, it does not show that a client that writes for ever
lets others run (it would not: the `while` at `cpm_server.cc:227` has no limit).

### Properties worth a word

- `AssertionsHold` (remote side): of all asserts only three can fail, so a close
  or error callback always finds its node.  This rests on every clause of
  `IInv`.
- `Conservation` (both sides): counts copies of each message.  On the remote
  side it needs the place `unreported`: the message that makes a resolved but
  disconnected node be connected again is neither sent nor cached nor logged
  (`cpm_server.cc:275-281`).  On the local side it also says that a crash
  loses one message at most.
- `SentInOrder` (remote side) holds when no write is refused.  With refused
  writes it does not: a refused message goes to the cache while later ones
  are written (`cpm_node.cc:26-36`).  On the local side it holds over restarts.
- `Addressed` (`Network`), `HeardByMembers` and `NoEcho` say what a node address of
  0, written before a cpmd knew its own, can do: such messages look local to
  whoever gets them.  A member that registered so at the chatroom's node hears
  its own words, and only there may words reach another client of that name.
- `SpokenInOrder` excludes clients of the chatroom's own node: what they say before
  their cpmd knows its address goes round over a connection to itself and is
  overtaken by what they say afterwards (`cpm_server.cc:232-238`).
- `LookupSettles` says that a lookup is answered *or lost*.  That it is
  answered does not hold: a node whose lookup was lost with the link, or
  answered by kNodeNotFound, stays kResolving for ever.
- `AttemptEndsWait` speaks of nodes in `nodes_index_`.  A node that was connected
  on demand and lost its connection keeps `connecting_` set and caches all
  later messages without connecting.
- `ImplementsStream`: `MessageCodec` refines `FrameStream` with its fairness,
  so the promise "whole, once, in order, refused if bad, never stuck" is stated
  once, without buffers.
- `ClientsFoundAtNode`: for a node "a/b/", the client "a/b/c" is looked up at
  that node, although "a/" may be one, too, and for any hash: if two nodes had
  one hash the file would have been refused.

## 4. Proofs

`CpmServerProofs` proves, for all node and network addresses, any table, any
cache size and any bounds (the assumptions named `...Assumption` in
`CpmServer`), that `Spec` implies `[]IInv`, and from it `TypeOK`,
`AssertionsHold`, `OneConnectionPerPeer`, `IndexTracksConnections`,
`OneResolveLink`, `RoutedToDestination`, `LookupsMatchResolvingNodes`, `Conservation` and
`ResolvedStaysResolved`.

None of the safety properties is inductive as it stands.  `AssertionsHold` needs
that the peer of every connection is indexed (`IndexedConns`) and that the
entry's node has that very address (`IndexedNodes`), since callbacks find the
node by peer and unregister it by its address.  That no second connection to a
peer is made (`OneConnectionPerPeer`) follows from the assert of `RegisterNode`
together with `IndexedConns`.  `SetConnection` and the close callback need that a
weak pointer is to a connection of its own node (`WeakConns`), and
`RoutedToDestination` that a resolved node has the table's address
(`ResolvedAddresses`).  A lookup answer is for a known node
(`PendingRequests`), and an unknown one was never looked up (`UnknownNodes`).
`Link` describes `resolve_server_conn_`: it is the link from connect to close,
and a timer is armed exactly when there is none.

The argument is one lemma per action, each saying that the step preserves
`IInv`; changes made by several actions (`LearnAddress`, `ConnectNode`,
`RemoveConn`, `LinkEnds`, `CacheStep`, `AbortStep`) have lemmas of their own.
`TypeStep` treats `TypeOK` apart.  `OneResolveLink` counts a finite set and
uses `FiniteSetTheorems`; the sequence facts about the cache are `PushProperties`
and the `Elements...` lemmas.

`LookupsMatchResolvingNodes` needs that at most one connection has requests
(`OneAsks`): a lookup is asked on the link alone, and when the link goes, the nodes that
waited are resolved again by the next.  `Conservation` is proved from `OnePlace`: no
message is twice in one sequence or in two of them (`NoneTwice`), and wires, caches and
the two sets of lost messages together hold all that was accepted (`Partition`).  That the
places are counted among finitely many positions is a pigeonhole argument: a sequence in
which no message is twice is no longer than there are messages (`NoLongerThan`).

`CpmServerRefinement` proves that `CpmServer` implements `Outbox` (`Implements`),
and `OutboxProofs` that `Outbox` keeps messages in order if none overtakes those
that are kept; together they give `SentInOrder` when no write is refused.  The
refinement needs, beside `IInv`, that nothing waits in the cache of a connected
node (`FlushedWhileConnected`): that is what makes a direct write a
`Transmit`.  Each callback that flushes maps to one `Flush`, most others stutter.

`ResolveServerProofs` proves the five safety properties of `resolve_safety` for
any hosts, table and number of connections.  `AssertionsHold` and
`RegistryMatchesContexts` carry each other; `LookupsAnswered` (a lookup under the own
address is answered with what the table has; one under any other is, too, or the
connection closed) needs that a cpmd's first request on a connection, and no other,
is kInitializeSelf (`AskedAsCpmd`), that the first reply leaves the connection initialised (`AnsweredInitialised`), that
a connection object used again has no history (`FreeIsFresh`), and that the read
loop is never on a connection that is gone (`ReadingOpened`).

`ResolveConfProofs` proves `TablesAgree`, `LoadedAsWritten`, `AcceptsWellFormed` and
`ClientsFoundAtNode`; all but the third from `KeysMatch` (each entry is under its own key) and from
what the tables are after each child (`ServersAsRead`, `NodesAsRead`).
`AcceptsWellFormed` counts: as long as a file is read, it was well formed so far
(`WellFormedSoFar`), and what is refused has the fault already among the children that
were read, where those to come cannot mend it (`RefusedIllFormed`, `CountServers`).  It
rests on the assumption that a missing attribute is told apart from every text, the types of
services among them.
`ClientOfNode` is the fact about names: the last slash of "node/client" is that of
the node.

`MessageCodecProofs` proves `TypeOK`, `DeliveredInOrder` and `NothingHeldBack` for
any sizes, any number of frames and any cut of the bytes.  They need that frames
lie one behind the other (`Contiguous`), so that one frame at most starts at a
byte, and that the loop is, and between two reads the buffer begins, where the
first undelivered frame starts (`Pointer`).  `FrameIsNext` puts both together: the
bytes at `ptr` are the next frame of the stream.  From it follows
`ImplementsSafety`, the refinement of `FrameStream` without its fairness.

`LocalClientsProofs` proves `TypeOK` and `Conservation` without further conditions, and `OwnBus`,
`Addressed` and `SentInOrder` if the reply buffer keeps no earlier reply
(`~BufferKept`; with it `OwnBus` does not hold, as the run `handshake` shows).
Everything rests on `Owners`: each client writes its own bus only, so that all messages
in a bus have one sender.  `InHands` says the same of the message that
`HandleBusMessage` has read: its sender is the client at the turn, which no callback
can change before the loop ends.  What a client has received and what its bus still
holds are one sequence (`Streams`), of which receiving moves only the border.  `Numbered`
orders all places: what passed the loop is older than what it has in hands, and that
older than what the sender's bus holds.  Names may share a hash.
`Conservation` holds with `BufferKept`, too.  `OnePlace` says that the places of a message
(`Copies`) are never two and, once it was sent, never none; each callback moves one message,
and `PlacesStep` says that everything else stays where it is.  A crash of cpmd loses the
message in its hands and no other (`FewLost`).

`ChatroomProofs` proves `TypeOK`, `Addressed`, `HeardByMembers`, `NoEcho`,
`SpokenInOrder` and `HeardInOrder` for any nodes, programs, names and sizes.  Its
first invariant says of each place a
message can be in (a bus, a cache, a connection, the hands of the chatroom) who
can have put it there with which addresses (`RoomAddresses`: by what names a member can
know the chatroom, which no step changes, `Given`); the addresses allowed grow with the
table of members, so a step that registers one disturbs nothing already on its way.
`MembersRegistered` says that each entry of the table came in a registration of a
program of that name.  `NoEcho` needs a second one over time: a member's registration is ahead of all it says
(`RegistersFirst`); once that was taken under its own address, all it says is, too, so
that the chatroom passes it over (`InTime`); and no words are on their way to who said
them, under his own address (`NoneComesBack`).  The last needs that no member is called
like the chatroom (`NamesApart`).

`SpokenInOrder` and `HeardInOrder` follow messages from one client to another.  They
pass four queues: the bus of the sender, the cache and the connection between the two
cpmds, the bus of the receiver.  `Line` says that what the receiver took comes before
what its bus holds, this before what is on the connection, and so on back to the bus
of the sender, in a relation between words that the two properties choose.  The lemmas
about it (`LineTake`, `LineDeliver`, `LineFlush`, `LineReceive`, `LineSend`, `LineLess`)
do not depend on the relation; `NetLine` puts them together: no step of a cpmd, be it a
message given up by a full cache, a connection that breaks or one that is refused,
disturbs the line.  The exception is a message for the own node, which goes from the
first queue to the last; `NoneOvertaken` asks that there is nothing of the line between
them, or that the relation is symmetric.

- `SpokenInOrder` takes the words of one client to the chatroom, in the order of their
  numbers (`SpeaksInOrder`).  For a client at the node of the chatroom the relation says
  only that numbers differ, which is symmetric: there words do overtake each other, when
  cpmd learns its address between them, but none comes twice.
- `HeardInOrder` takes the words from the chatroom to one client, in the order in which
  they were spoken (`Sooner`).  That relation grows with every message the chatroom
  takes; what it is about to tell is the last thing spoken, and was not told to the
  client before (`HearsInOrder`).  At the chatroom's own node the way over the connection
  is never used (`ForGoesShort`): by `InTime`, who is registered under the address of this
  node was so after its cpmd knew it.  Since no words are spoken twice (`SpokenDistinct`),
  the positions of what is heard are determined, and rise.

Both need `NamesApart`: words told to a member called like the chatroom and registered with
node address 0 come back to the chatroom, and are spoken twice.

Every safety property of the passing runs is proved.  Only model-checked is liveness
(`AttemptEndsWait`, `LinkRecovers`, `LookupSettles`, `KickedOff`, `ServedInTheEnd`, and the
fairness of `ImplementsStream`), which TLAPS cannot treat.

## 5. Not modelled

What an XML parser makes of a file, flags, logging (and `connected_nodes_`, which
only the log reads), the contents of messages, what MurmurHash computes, the
builders of protocol messages, messages with a negative length, requests and bus
entries of a wrong length, which no client makes, options of clients, the example
`cpm_client_main.cc`.  Names of chatroom members are taken to be shorter than
`kMaxNameSize`, beyond which two names become one.  A stale address that a cpmd
takes for its own (`ReadStaleSelf`) is in `CpmServer` and `ResolveServer`, not in
`Network`.  Paths of buses that do not fit are left out (section 2).

## 6. Disagreements found

- `register`: an answer to a lookup starts a connection without
  `SetConnecting(true)`; the next message for that node registers it again and
  the assert at `cpm_server.cc:465` fails.
- `unregister`: an address pushed to a resolved node is not moved in
  `nodes_index_`; when its connection ends, the assert at 472 fails.  The
  resolve server of this repository pushes nothing, but a comment at 423 provides
  for it.
- `stale`: an unfilled reply that holds another cpmd's kNodeNotFound makes
  the assert at 424 fail.
- `resolve_init`: a cpmd that connects anew before its old connection is found
  closed makes the resolve server abort (`cpm_resolve_server.cc:122`).
- `handshake`: the client ignores the code of the handshake reply and may come
  up with another client's buses (`cpm_impl.cc:44`).

Not as runs: `connected_nodes_` is only decremented; `ReadMessage` refuses
sizes that `SetData` allows; `SetConnection` asserts that the whole cache
was written; the reply to a private message has no address
(`chat_server.cc:100-102`).

## 7. Plan

Done, in this order: `CpmServer` with its proofs, `ResolveServer`,
`MessageCodec` with `FrameStream`, `LocalClients`; `Outbox` and the refinement, the
proofs of `ResolveServer`, `Network` with `Chatroom`, `ResolveConf` with its
proofs, the proofs of `MessageCodec`, `Chatroom` and `LocalClients`.

Left:

1. Crashes of a cpmd in `Network`, and `CpmServer` in the place of `Outbox` there.
2. An abstract mailbox with bounded loss that `LocalClients` implements, with the
   refinement proved.

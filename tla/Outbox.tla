------------------------------- MODULE Outbox -------------------------------
(***************************************************************************)
(* What a cpmd promises for the messages its clients send to other nodes.   *)
(* A message is written to the address of its node, kept for it, or given   *)
(* up; what is kept is written all at once and in order, and a node's newer *)
(* messages never pass those kept for it, unless writes can be refused      *)
(* ("Overtaking").  How nodes are looked up and connected to is no part of  *)
(* it.                                                                     *)
(***************************************************************************)
EXTENDS Naturals, Sequences, MessageCacheQueue

CONSTANTS NodeAddrs, NetAddrs, Conf, kMaxCachedMessageNum, Overtaking

VARIABLES
  sent,     \* messages written, by network address
  pending,  \* messages kept, by node
  lost,     \* messages given up
  posted    \* number of messages taken from clients

outboxVars == <<sent, pending, lost, posted>>

Post(n) == [id |-> posted + 1, to |-> n]

OutboxInit ==
  /\ sent = [a \in NetAddrs |-> <<>>]
  /\ pending = [n \in NodeAddrs |-> <<>>]
  /\ lost = {}
  /\ posted = 0

Transmit(n) ==
  /\ n \in DOMAIN Conf
  /\ pending[n] = <<>> \/ Overtaking
  /\ sent' = [sent EXCEPT ![Conf[n]] = Append(@, Post(n))]
  /\ posted' = posted + 1
  /\ UNCHANGED <<pending, lost>>

Keep(n) ==
  /\ pending' = [pending EXCEPT ![n] = Push(@, Post(n), kMaxCachedMessageNum)]
  /\ lost' = lost \cup Droped(pending[n], kMaxCachedMessageNum)
  /\ posted' = posted + 1
  /\ UNCHANGED sent

\* Only for a node that was found before.
GiveUp(n) ==
  /\ n \in DOMAIN Conf
  /\ lost' = lost \cup {Post(n)}
  /\ posted' = posted + 1
  /\ UNCHANGED <<sent, pending>>

Flush(n) ==
  /\ n \in DOMAIN Conf
  /\ sent' = [sent EXCEPT ![Conf[n]] = @ \o pending[n]]
  /\ pending' = [pending EXCEPT ![n] = <<>>]
  /\ UNCHANGED <<lost, posted>>

OutboxNext == \E n \in NodeAddrs : Transmit(n) \/ Keep(n) \/ GiveUp(n) \/ Flush(n)

OutboxSpec == OutboxInit /\ [][OutboxNext]_outboxVars

Increasing(q) ==
  \A i, j \in 1 .. Len(q) : i < j /\ q[i].to = q[j].to => q[i].id < q[j].id

\* The messages for one node are written in the order they were taken, and
\* those kept for it are younger than those written.
InOrder ==
  /\ \A a \in NetAddrs : Increasing(sent[a])
  /\ \A n \in NodeAddrs : Increasing(pending[n])
  /\ \A n \in DOMAIN Conf :
       \A i \in 1 .. Len(sent[Conf[n]]), j \in 1 .. Len(pending[n]) :
         sent[Conf[n]][i].to = n => sent[Conf[n]][i].id < pending[n][j].id
=============================================================================

---------------------------- MODULE OutboxProofs ----------------------------
(***************************************************************************)
(* Without overtaking, an outbox keeps the messages for a node in order.    *)
(***************************************************************************)
EXTENDS Outbox, SequenceTheorems, TLAPS

Parcels == [id : Nat \ {0}, to : NodeAddrs]

InOrderConstants ==
  /\ DOMAIN Conf \subseteq NodeAddrs
  /\ \A n \in DOMAIN Conf : Conf[n] \in NetAddrs
  /\ kMaxCachedMessageNum \in Nat \ {0}
  /\ ~Overtaking

OutboxTypeOK ==
  /\ posted \in Nat
  /\ sent \in [NetAddrs -> Seq(Parcels)]
  /\ pending \in [NodeAddrs -> Seq(Parcels)]

\* What is written or kept was taken before, and waits only for its own node.
OutboxInv ==
  /\ OutboxTypeOK
  /\ \A a \in NetAddrs : \A i \in 1 .. Len(sent[a]) : sent[a][i].id <= posted
  /\ \A n \in NodeAddrs : \A i \in 1 .. Len(pending[n]) :
       pending[n][i].id <= posted /\ pending[n][i].to = n
  /\ InOrder

\* A younger message at its end keeps a sequence increasing.
LEMMA AppendIncreasing ==
  ASSUME NEW q \in Seq(Parcels), NEW m \in Parcels, Increasing(q),
         \A i \in 1 .. Len(q) : q[i].to = m.to => q[i].id < m.id
  PROVE  Increasing(Append(q, m))
<1>1. /\ Len(Append(q, m)) = Len(q) + 1
      /\ \A i \in 1 .. Len(q) : Append(q, m)[i] = q[i]
      /\ Append(q, m)[Len(q) + 1] = m
      /\ Len(q) \in Nat
  BY AppendProperties, LenProperties
<1>2. SUFFICES ASSUME NEW i \in 1 .. Len(q) + 1, NEW j \in 1 .. Len(q) + 1, i < j,
                      Append(q, m)[i].to = Append(q, m)[j].to
               PROVE  Append(q, m)[i].id < Append(q, m)[j].id
  BY <1>1 DEF Increasing
<1>3. CASE j = Len(q) + 1
  BY <1>1, <1>2, <1>3
<1>4. CASE j \in 1 .. Len(q)
  <2>1. i \in 1 .. Len(q)
    BY <1>1, <1>2, <1>4
  <2> QED BY <1>1, <1>2, <1>4, <2>1 DEF Increasing
<1> QED BY <1>1, <1>3, <1>4

\* Losing its head keeps a sequence increasing.
LEMMA TailIncreasing ==
  ASSUME NEW q \in Seq(Parcels), q # <<>>, Increasing(q)
  PROVE  Increasing(Tail(q))
<1>1. /\ Len(Tail(q)) = Len(q) - 1
      /\ \A i \in 1 .. Len(Tail(q)) : Tail(q)[i] = q[i + 1]
      /\ Len(q) \in Nat \ {0}
  BY HeadTailProperties, EmptySeq
<1>2. \A i \in 1 .. Len(q) - 1 : i + 1 \in 1 .. Len(q)
  BY <1>1
<1>3. \A i, j \in 1 .. Len(q) - 1 : i < j => i + 1 < j + 1
  BY <1>1
<1> QED BY <1>1, <1>2, <1>3 DEF Increasing

\* So does a sequence of younger messages for one node that follows.
LEMMA ConcatIncreasing ==
  ASSUME NEW q \in Seq(Parcels), NEW r \in Seq(Parcels), Increasing(q), Increasing(r),
         \A i \in 1 .. Len(q), j \in 1 .. Len(r) : q[i].to = r[j].to => q[i].id < r[j].id
  PROVE  Increasing(q \o r)
<1>1. /\ Len(q \o r) = Len(q) + Len(r)
      /\ \A i \in 1 .. Len(q) + Len(r) :
           (q \o r)[i] = IF i <= Len(q) THEN q[i] ELSE r[i - Len(q)]
      /\ Len(q) \in Nat /\ Len(r) \in Nat
  BY ConcatProperties, LenProperties
<1>2. SUFFICES ASSUME NEW i \in 1 .. Len(q) + Len(r), NEW j \in 1 .. Len(q) + Len(r), i < j,
                      (q \o r)[i].to = (q \o r)[j].to
               PROVE  (q \o r)[i].id < (q \o r)[j].id
  BY <1>1 DEF Increasing
<1>3. CASE j <= Len(q)
  <2>1. i \in 1 .. Len(q) /\ j \in 1 .. Len(q) /\ i <= Len(q)
    BY <1>1, <1>2, <1>3
  <2>2. (q \o r)[i] = q[i] /\ (q \o r)[j] = q[j]
    BY <1>1, <1>2, <2>1, <1>3
  <2> QED BY <1>2, <2>1, <2>2 DEF Increasing
<1>4. CASE i <= Len(q) /\ ~(j <= Len(q))
  <2>1. i \in 1 .. Len(q) /\ j - Len(q) \in 1 .. Len(r)
    BY <1>1, <1>2, <1>4
  <2>2. (q \o r)[i] = q[i] /\ (q \o r)[j] = r[j - Len(q)]
    BY <1>1, <1>2, <1>4
  <2> QED BY <1>2, <2>1, <2>2
<1>5. CASE ~(i <= Len(q)) /\ ~(j <= Len(q))
  <2>1. /\ i - Len(q) \in 1 .. Len(r) /\ j - Len(q) \in 1 .. Len(r)
        /\ i - Len(q) < j - Len(q)
    BY <1>1, <1>2, <1>5
  <2>2. (q \o r)[i] = r[i - Len(q)] /\ (q \o r)[j] = r[j - Len(q)]
    BY <1>1, <1>2, <1>5
  <2> QED BY <1>2, <2>1, <2>2 DEF Increasing
<1> QED BY <1>1, <1>2, <1>3, <1>4, <1>5

\* A message that is taken is younger than all others, and kept last.
LEMMA PostType ==
  ASSUME OutboxInv, NEW n \in NodeAddrs
  PROVE  Post(n) \in Parcels /\ Post(n).to = n /\ Post(n).id = posted + 1
BY DEF OutboxInv, OutboxTypeOK, Post, Parcels

\* What is known of every single message.
LEMMA Contents ==
  ASSUME OutboxInv
  PROVE  /\ \A a \in NetAddrs : \A i \in 1 .. Len(sent[a]) :
              sent[a][i].id \in Nat /\ sent[a][i].id <= posted
         /\ \A n \in NodeAddrs : \A i \in 1 .. Len(pending[n]) :
              /\ pending[n][i].id \in Nat
              /\ pending[n][i].id <= posted
              /\ pending[n][i].to = n
<1>1. \A m \in Parcels : m.id \in Nat
  BY DEF Parcels
<1>2. \A a \in NetAddrs : sent[a] \in Seq(Parcels)
  BY DEF OutboxInv, OutboxTypeOK
<1>3. \A n \in NodeAddrs : pending[n] \in Seq(Parcels)
  BY DEF OutboxInv, OutboxTypeOK
<1>4. \A a \in NetAddrs : \A i \in 1 .. Len(sent[a]) : sent[a][i] \in Parcels
  BY <1>2, ElementOfSeq
<1>5. \A n \in NodeAddrs : \A i \in 1 .. Len(pending[n]) : pending[n][i] \in Parcels
  BY <1>3, ElementOfSeq
<1> QED BY <1>1, <1>4, <1>5 DEF OutboxInv

LEMMA PushInOrder ==
  ASSUME OutboxInv, InOrderConstants, NEW n \in NodeAddrs,
         NEW q, q = Push(pending[n], Post(n), kMaxCachedMessageNum)
  PROVE  /\ q \in Seq(Parcels)
         /\ Increasing(q)
         /\ \A i \in 1 .. Len(q) :
              \/ \E j \in 1 .. Len(pending[n]) : q[i] = pending[n][j]
              \/ q[i] = Post(n)
<1> DEFINE old == IF Full(pending[n], kMaxCachedMessageNum) THEN Tail(pending[n]) ELSE pending[n]
<1>1. /\ pending[n] \in Seq(Parcels) /\ Increasing(pending[n])
      /\ \A i \in 1 .. Len(pending[n]) : pending[n][i].id <= posted
      /\ posted \in Nat
      /\ Len(pending[n]) \in Nat
  BY LenProperties DEF OutboxInv, OutboxTypeOK, InOrder
<1>2. /\ old \in Seq(Parcels) /\ Increasing(old)
      /\ \A i \in 1 .. Len(old) : \E j \in 1 .. Len(pending[n]) : old[i] = pending[n][j]
  <2>1. CASE Full(pending[n], kMaxCachedMessageNum)
    <3>1. pending[n] # <<>>
      BY <1>1, <2>1, EmptySeq DEF Full, InOrderConstants
    <3>2. /\ Tail(pending[n]) \in Seq(Parcels)
          /\ Len(Tail(pending[n])) = Len(pending[n]) - 1
          /\ \A i \in 1 .. Len(Tail(pending[n])) : Tail(pending[n])[i] = pending[n][i + 1]
      BY <1>1, <3>1, HeadTailProperties
    <3>3. Increasing(Tail(pending[n]))
      BY <1>1, <3>1, TailIncreasing
    <3>4. old = Tail(pending[n])
      BY <2>1
    <3>5. \A i \in 1 .. Len(pending[n]) - 1 : i + 1 \in 1 .. Len(pending[n])
      BY <1>1
    <3> QED BY <3>2, <3>3, <3>4, <3>5
  <2>2. CASE ~Full(pending[n], kMaxCachedMessageNum)
    BY <1>1, <2>2
  <2> QED BY <2>1, <2>2
<1>3. Post(n) \in Parcels /\ Post(n).id = posted + 1
  BY PostType
<1>4. \A i \in 1 .. Len(old) : old[i].id < Post(n).id
  <2> TAKE i \in 1 .. Len(old)
  <2>1. PICK j \in 1 .. Len(pending[n]) : old[i] = pending[n][j]
    BY <1>2
  <2>2. pending[n][j].id \in Nat
    BY Contents
  <2> QED BY <1>1, <1>3, <2>1, <2>2
<1>5. q = Append(old, Post(n))
  BY DEF Push
<1>6. Increasing(q)
  BY <1>2, <1>3, <1>4, <1>5, AppendIncreasing
<1>7. /\ q \in Seq(Parcels)
      /\ Len(q) = Len(old) + 1
      /\ \A i \in 1 .. Len(old) : q[i] = old[i]
      /\ q[Len(old) + 1] = Post(n)
      /\ Len(old) \in Nat
  BY <1>2, <1>3, <1>5, AppendProperties, LenProperties
<1>8. \A i \in 1 .. Len(q) : i \in 1 .. Len(old) \/ i = Len(old) + 1
  BY <1>7
<1> QED BY <1>2, <1>6, <1>7, <1>8

LEMMA TransmitStep ==
  ASSUME OutboxInv, InOrderConstants, NEW n \in NodeAddrs, Transmit(n)
  PROVE  OutboxInv'
<1> DEFINE a == Conf[n]
           q == Append(sent[a], Post(n))
<1>1. /\ a \in NetAddrs
      /\ pending[n] = <<>>
      /\ sent' = [sent EXCEPT ![a] = q]
      /\ posted' = posted + 1
      /\ pending' = pending
  BY DEF Transmit, InOrderConstants
<1>2. /\ Post(n) \in Parcels /\ Post(n).to = n /\ Post(n).id = posted + 1
      /\ posted \in Nat
      /\ sent \in [NetAddrs -> Seq(Parcels)]
      /\ pending \in [NodeAddrs -> Seq(Parcels)]
  BY PostType DEF OutboxInv, OutboxTypeOK
<1>3. \A b \in NetAddrs : \A i \in 1 .. Len(sent[b]) : sent[b][i].id \in Nat /\ sent[b][i].id <= posted
  BY Contents
<1>4. /\ q \in Seq(Parcels)
      /\ Len(q) = Len(sent[a]) + 1
      /\ \A i \in 1 .. Len(sent[a]) : q[i] = sent[a][i]
      /\ q[Len(sent[a]) + 1] = Post(n)
      /\ \A i \in 1 .. Len(q) : i \in 1 .. Len(sent[a]) \/ i = Len(sent[a]) + 1
  <2>1. Len(sent[a]) \in Nat
    BY <1>1, <1>2, LenProperties
  <2> QED BY <1>1, <1>2, <2>1, AppendProperties
<1>5. Increasing(q)
  <2>1. Increasing(sent[a])
    BY <1>1 DEF OutboxInv, InOrder
  <2>2. sent[a] \in Seq(Parcels)
    BY <1>1, <1>2
  <2>3. \A i \in 1 .. Len(sent[a]) : sent[a][i].to = Post(n).to => sent[a][i].id < Post(n).id
    BY <1>1, <1>2, <1>3
  <2>4. Post(n) \in Parcels
    BY <1>2
  <2> HIDE DEF a
  <2> QED BY <2>1, <2>2, <2>3, <2>4, AppendIncreasing
<1>6. OutboxTypeOK'
  BY <1>1, <1>2, <1>4 DEF OutboxTypeOK
<1>7. \A b \in NetAddrs : sent'[b] = IF b = a THEN q ELSE sent[b]
  BY <1>1, <1>2
<1>8. \A b \in NetAddrs : \A i \in 1 .. Len(sent'[b]) : sent'[b][i].id <= posted'
  <2>1. \A i \in 1 .. Len(q) : q[i].id <= posted + 1
    <3> TAKE i \in 1 .. Len(q)
    <3>1. CASE i = Len(sent[a]) + 1
      BY <1>2, <1>4, <3>1
    <3>2. CASE i \in 1 .. Len(sent[a])
      BY <1>1, <1>2, <1>3, <1>4, <3>2
    <3> QED BY <1>4, <3>1, <3>2
  <2>2. \A b \in NetAddrs : \A i \in 1 .. Len(sent[b]) : sent[b][i].id <= posted + 1
    BY <1>2, <1>3
  <2> QED BY <1>1, <1>7, <2>1, <2>2
<1>9. \A k \in NodeAddrs : \A i \in 1 .. Len(pending[k]) :
        pending[k][i].id \in Nat /\ pending[k][i].id <= posted /\ pending[k][i].to = k
  BY Contents
<1>10. \A b \in NetAddrs : Increasing(sent'[b])
  BY <1>5, <1>7 DEF OutboxInv, InOrder
<1>11. ASSUME NEW k \in DOMAIN Conf, NEW i \in 1 .. Len(sent'[Conf[k]]),
              NEW j \in 1 .. Len(pending[k]), sent'[Conf[k]][i].to = k
       PROVE  sent'[Conf[k]][i].id < pending[k][j].id
  <2>1. Conf[k] \in NetAddrs /\ k \in NodeAddrs
    BY DEF InOrderConstants
  <2>2. k # n
    <3> SUFFICES ASSUME k = n PROVE FALSE
      OBVIOUS
    <3>1. Len(pending[k]) = 0
      BY <1>1
    <3> QED BY <3>1, <1>11
  <2>3. i \in 1 .. Len(sent[Conf[k]]) /\ sent'[Conf[k]][i] = sent[Conf[k]][i]
    <3>1. CASE Conf[k] = a
      <4>1. sent'[Conf[k]] = q
        BY <1>7, <2>1, <3>1
      <4>2. i # Len(sent[a]) + 1
        BY <1>2, <1>4, <1>11, <2>2, <4>1
      <4> QED BY <1>4, <3>1, <4>1, <4>2
    <3>2. CASE Conf[k] # a
      BY <1>7, <2>1, <3>2
    <3> QED BY <3>1, <3>2
  <2> QED BY <1>11, <2>3 DEF OutboxInv, InOrder
<1>12. InOrder'
  BY <1>1, <1>10, <1>11 DEF InOrder, OutboxInv
<1>13. \A k \in NodeAddrs : \A i \in 1 .. Len(pending'[k]) :
         pending'[k][i].id <= posted' /\ pending'[k][i].to = k
  BY <1>1, <1>2, <1>9
<1> QED BY <1>6, <1>8, <1>12, <1>13 DEF OutboxInv

LEMMA KeepStep ==
  ASSUME OutboxInv, InOrderConstants, NEW n \in NodeAddrs, Keep(n)
  PROVE  OutboxInv'
<1> DEFINE q == Push(pending[n], Post(n), kMaxCachedMessageNum)
<1>1. /\ pending' = [pending EXCEPT ![n] = q]
      /\ posted' = posted + 1
      /\ sent' = sent
  BY DEF Keep
<1>2. /\ Post(n) \in Parcels /\ Post(n).to = n /\ Post(n).id = posted + 1
      /\ posted \in Nat
      /\ sent \in [NetAddrs -> Seq(Parcels)]
      /\ pending \in [NodeAddrs -> Seq(Parcels)]
  BY PostType DEF OutboxInv, OutboxTypeOK
<1>3. /\ q \in Seq(Parcels)
      /\ Increasing(q)
      /\ \A i \in 1 .. Len(q) :
           \/ \E j \in 1 .. Len(pending[n]) : q[i] = pending[n][j]
           \/ q[i] = Post(n)
  BY PushInOrder
<1>4. \A k \in NodeAddrs : pending'[k] = IF k = n THEN q ELSE pending[k]
  BY <1>1, <1>2
<1>5. OutboxTypeOK'
  BY <1>1, <1>2, <1>3 DEF OutboxTypeOK
<1>6. \A b \in NetAddrs : \A i \in 1 .. Len(sent[b]) :
        sent[b][i].id \in Nat /\ sent[b][i].id <= posted
  BY Contents
<1>7. \A k \in NodeAddrs : \A i \in 1 .. Len(pending[k]) :
        pending[k][i].id \in Nat /\ pending[k][i].id <= posted /\ pending[k][i].to = k
  BY Contents
<1>8. \A k \in NodeAddrs : \A i \in 1 .. Len(pending'[k]) :
        pending'[k][i].id <= posted' /\ pending'[k][i].to = k
  <2>1. \A i \in 1 .. Len(q) : q[i].id <= posted + 1 /\ q[i].to = n
    BY <1>2, <1>3, <1>7
  <2>2. \A k \in NodeAddrs : \A i \in 1 .. Len(pending[k]) :
          pending[k][i].id <= posted + 1 /\ pending[k][i].to = k
    BY <1>2, <1>7
  <2> QED BY <1>1, <1>4, <2>1, <2>2
<1>9. \A b \in NetAddrs : \A i \in 1 .. Len(sent'[b]) : sent'[b][i].id <= posted'
  BY <1>1, <1>2, <1>6
<1>10. ASSUME NEW k \in DOMAIN Conf, NEW i \in 1 .. Len(sent[Conf[k]]),
              NEW j \in 1 .. Len(pending'[k]), sent[Conf[k]][i].to = k
       PROVE  sent[Conf[k]][i].id < pending'[k][j].id
  <2>1. Conf[k] \in NetAddrs /\ k \in NodeAddrs
    BY DEF InOrderConstants
  <2>2. \A l \in 1 .. Len(pending[k]) : sent[Conf[k]][i].id < pending[k][l].id
    BY <1>10 DEF OutboxInv, InOrder
  <2>3. CASE k = n
    <3>1. pending'[k] = q
      BY <1>4, <2>1, <2>3
    <3>2. CASE q[j] = Post(n)
      BY <1>2, <1>6, <1>10, <2>1, <3>1, <3>2
    <3>3. CASE \E l \in 1 .. Len(pending[n]) : q[j] = pending[n][l]
      BY <2>2, <2>3, <3>1, <3>3
    <3> QED BY <1>3, <1>10, <3>1, <3>2, <3>3
  <2>4. CASE k # n
    BY <1>4, <1>10, <2>1, <2>2, <2>4
  <2> QED BY <2>3, <2>4
<1>11. InOrder'
  <2>1. \A k \in NodeAddrs : Increasing(pending'[k])
    BY <1>3, <1>4 DEF OutboxInv, InOrder
  <2> QED BY <1>1, <1>10, <2>1 DEF OutboxInv, InOrder
<1> QED BY <1>5, <1>8, <1>9, <1>11 DEF OutboxInv

LEMMA FlushStep ==
  ASSUME OutboxInv, InOrderConstants, NEW n \in NodeAddrs, Flush(n)
  PROVE  OutboxInv'
<1> DEFINE a == Conf[n]
           r == pending[n]
           q == sent[a] \o r
<1>1. /\ a \in NetAddrs
      /\ n \in DOMAIN Conf
      /\ sent' = [sent EXCEPT ![a] = q]
      /\ pending' = [pending EXCEPT ![n] = <<>>]
      /\ posted' = posted
  BY DEF Flush, InOrderConstants
<1>2. /\ posted \in Nat
      /\ sent \in [NetAddrs -> Seq(Parcels)]
      /\ pending \in [NodeAddrs -> Seq(Parcels)]
      /\ sent[a] \in Seq(Parcels) /\ r \in Seq(Parcels)
  BY <1>1 DEF OutboxInv, OutboxTypeOK
<1>3. /\ q \in Seq(Parcels)
      /\ Len(q) = Len(sent[a]) + Len(r)
      /\ \A i \in 1 .. Len(sent[a]) + Len(r) :
           q[i] = IF i <= Len(sent[a]) THEN sent[a][i] ELSE r[i - Len(sent[a])]
      /\ Len(sent[a]) \in Nat /\ Len(r) \in Nat
  BY <1>2, ConcatProperties, LenProperties
<1>4. \A i \in 1 .. Len(q) : \/ i \in 1 .. Len(sent[a]) /\ q[i] = sent[a][i]
                             \/ i - Len(sent[a]) \in 1 .. Len(r) /\ q[i] = r[i - Len(sent[a])]
  <2> TAKE i \in 1 .. Len(q)
  <2>1. CASE i <= Len(sent[a])
    BY <1>3, <2>1
  <2>2. CASE ~(i <= Len(sent[a]))
    <3>1. i - Len(sent[a]) \in 1 .. Len(r)
      <4> DEFINE s == Len(sent[a])
                 t == Len(r)
      <4>1. s \in Nat /\ t \in Nat /\ i \in 1 .. s + t /\ ~(i <= s)
        BY <1>3, <2>2
      <4> HIDE DEF s, t
      <4>2. i - s \in 1 .. t
        BY <4>1
      <4> QED BY <4>2 DEF s, t
    <3> QED BY <1>3, <2>2, <3>1
  <2> QED BY <2>1, <2>2
<1>5. \A b \in NetAddrs : sent'[b] = IF b = a THEN q ELSE sent[b]
  BY <1>1, <1>2
<1>6. \A k \in NodeAddrs : pending'[k] = IF k = n THEN <<>> ELSE pending[k]
  BY <1>1, <1>2
<1>7. Len(<<>>) = 0 /\ <<>> \in Seq(Parcels)
  BY EmptySeq
<1>8. OutboxTypeOK'
  BY <1>1, <1>2, <1>3, <1>7 DEF OutboxTypeOK
<1>9. \A b \in NetAddrs : \A i \in 1 .. Len(sent'[b]) : sent'[b][i].id <= posted'
  <2>1. \A i \in 1 .. Len(q) : q[i].id <= posted
    BY <1>1, <1>4 DEF OutboxInv
  <2>2. \A b \in NetAddrs : \A i \in 1 .. Len(sent[b]) : sent[b][i].id <= posted
    BY DEF OutboxInv
  <2>3. \A b \in NetAddrs : \A i \in 1 .. Len(sent'[b]) : sent'[b][i].id <= posted
    <3> HIDE DEF q
    <3> QED BY <1>5, <2>1, <2>2
  <2> QED BY <1>1, <2>3
<1>10. \A k \in NodeAddrs : \A i \in 1 .. Len(pending'[k]) :
         pending'[k][i].id <= posted' /\ pending'[k][i].to = k
  BY <1>1, <1>6, <1>7 DEF OutboxInv
<1>11. \A b \in NetAddrs : Increasing(sent'[b])
  <2>1. Increasing(sent[a]) /\ Increasing(r)
    BY <1>1 DEF OutboxInv, InOrder
  <2>2. \A i \in 1 .. Len(sent[a]), j \in 1 .. Len(r) :
          sent[a][i].to = r[j].to => sent[a][i].id < r[j].id
    BY <1>1 DEF OutboxInv, InOrder
  <2>3. Increasing(q)
    BY <1>2, <2>1, <2>2, ConcatIncreasing
  <2> QED BY <1>5, <2>3 DEF OutboxInv, InOrder
<1>12. \A k \in NodeAddrs : Increasing(pending'[k])
  <2>1. Increasing(<<>>)
    BY <1>7 DEF Increasing
  <2> QED BY <1>6, <2>1 DEF OutboxInv, InOrder
<1>13. ASSUME NEW k \in DOMAIN Conf, NEW i \in 1 .. Len(sent'[Conf[k]]),
              NEW j \in 1 .. Len(pending'[k]), sent'[Conf[k]][i].to = k
       PROVE  sent'[Conf[k]][i].id < pending'[k][j].id
  <2>1. Conf[k] \in NetAddrs /\ k \in NodeAddrs
    BY DEF InOrderConstants
  <2>2. k # n /\ pending'[k] = pending[k]
    BY <1>6, <1>7, <1>13, <2>1
  <2>3. \E l \in 1 .. Len(sent[Conf[k]]) : sent'[Conf[k]][i] = sent[Conf[k]][l]
    <3>1. CASE Conf[k] = a
      <4>1. sent'[Conf[k]] = q
        BY <1>5, <2>1, <3>1
      <4>2. \A l \in 1 .. Len(r) : r[l].to = n
        BY DEF OutboxInv
      <4> QED BY <1>4, <1>13, <2>2, <3>1, <4>1, <4>2
    <3>2. CASE Conf[k] # a
      BY <1>5, <1>13, <2>1, <3>2
    <3> QED BY <3>1, <3>2
  <2> QED BY <1>13, <2>2, <2>3 DEF OutboxInv, InOrder
<1>14. InOrder'
  BY <1>11, <1>12, <1>13 DEF InOrder
<1> QED BY <1>8, <1>9, <1>10, <1>14 DEF OutboxInv

LEMMA OutboxStep == OutboxInv /\ InOrderConstants /\ [OutboxNext]_outboxVars => OutboxInv'
<1> SUFFICES ASSUME OutboxInv, InOrderConstants, [OutboxNext]_outboxVars
             PROVE  OutboxInv'
  OBVIOUS
<1>1. ASSUME NEW n \in NodeAddrs, GiveUp(n)
      PROVE  OutboxInv'
  <2>1. sent' = sent /\ pending' = pending /\ posted' = posted + 1 /\ posted \in Nat
    BY <1>1 DEF GiveUp, OutboxInv, OutboxTypeOK
  <2>2. OutboxTypeOK' /\ InOrder'
    BY <2>1 DEF OutboxInv, OutboxTypeOK, InOrder
  <2>3. \A a \in NetAddrs : \A i \in 1 .. Len(sent[a]) : sent[a][i].id <= posted + 1
    BY <2>1, Contents
  <2>4. \A n_1 \in NodeAddrs : \A i \in 1 .. Len(pending[n_1]) :
          pending[n_1][i].id <= posted + 1 /\ pending[n_1][i].to = n_1
    BY <2>1, Contents
  <2> QED BY <2>1, <2>2, <2>3, <2>4 DEF OutboxInv
<1>2. CASE UNCHANGED outboxVars
  BY <1>2 DEF outboxVars, OutboxInv, OutboxTypeOK, InOrder
<1> QED BY <1>1, <1>2, TransmitStep, KeepStep, FlushStep DEF OutboxNext

\* When writes are not refused, what an outbox writes for a node is in the
\* order in which it was taken, and what it keeps is younger (InOrder).
THEOREM InOrderCorrect ==
  ASSUME InOrderConstants
  PROVE  OutboxSpec => []InOrder
<1>1. OutboxInit => OutboxInv
  <2> SUFFICES ASSUME OutboxInit PROVE OutboxInv
    OBVIOUS
  <2>1. Len(<<>>) = 0 /\ <<>> \in Seq(Parcels)
    BY EmptySeq
  <2>2. \A n \in DOMAIN Conf : n \in NodeAddrs /\ Conf[n] \in NetAddrs
    BY DEF InOrderConstants
  <2> QED BY <2>1, <2>2 DEF OutboxInit, OutboxInv, OutboxTypeOK, InOrder, Increasing
<1>2. OutboxInv /\ [OutboxNext]_outboxVars => OutboxInv'
  BY OutboxStep
<1>3. OutboxInv => InOrder
  BY DEF OutboxInv
<1> QED BY <1>1, <1>2, <1>3, PTL DEF OutboxSpec
=============================================================================

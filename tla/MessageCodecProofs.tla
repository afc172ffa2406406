------------------------- MODULE MessageCodecProofs -------------------------
(***************************************************************************)
(* Proofs about MessageCodec, for any sizes of frames, any number of them,  *)
(* and any way in which TCP cuts up the bytes.                             *)
(***************************************************************************)
EXTENDS MessageCodec, SequenceTheorems, TLAPS

-----------------------------------------------------------------------------
(* What the invariants the runs check need beside each other.               *)

\* Frames lie one behind the other in the stream.
Contiguous ==
  /\ \A i \in 1 .. Len(sent) : sent[i].at + sent[i].size <= Written
  /\ \A i, j \in 1 .. Len(sent) : i < j => sent[i].at + sent[i].size <= sent[j].at
  /\ \A i \in 1 .. Len(sent) - 1 : sent[i + 1].at = sent[i].at + sent[i].size

\* The loop is, and the buffer of an open connection begins, where the first
\* frame starts that was not delivered.
NextStart == IF Pending THEN NextFrame.at ELSE Written

Pointer ==
  /\ reading => ptr = NextStart
  /\ open /\ ~reading => consumed = NextStart

IInv == TypeOK /\ Contiguous /\ DeliveredInOrder /\ Pointer /\ NothingHeldBack

-----------------------------------------------------------------------------
LEMMA InitInvariant == Init => IInv
<1> SUFFICES ASSUME Init PROVE IInv
  OBVIOUS
<1>1. /\ sent = <<>> /\ delivered = <<>> /\ open = TRUE /\ reading = FALSE
      /\ arrived = 0 /\ consumed = 0 /\ nbytes = 0 /\ Written = 0
      /\ Len(sent) = 0 /\ Len(delivered) = 0
  BY EmptySeq DEF Init, StreamInit, Written
<1>2. TypeOK
  <2>1. <<>> \in Seq(Frames)
    BY EmptySeq
  <2>2. sent \in Seq(Frames) /\ delivered \in Seq(Frames)
    BY <1>1, <2>1
  <2>3. arrived \in 0 .. Written /\ consumed \in 0 .. arrived /\ nbytes \in 0 .. (arrived - consumed)
    BY <1>1
  <2>4. open \in BOOLEAN /\ reading \in BOOLEAN
    BY <1>1
  <2> QED BY <2>2, <2>3, <2>4 DEF TypeOK
<1>3. Contiguous /\ DeliveredInOrder
  BY <1>1 DEF Contiguous, DeliveredInOrder
<1>4. ~Pending
  BY <1>1 DEF Pending
<1> QED BY <1>1, <1>2, <1>3, <1>4 DEF IInv, Pointer, NextStart, NothingHeldBack

\* The frames written, and where they end.
LEMMA SentFacts ==
  ASSUME TypeOK
  PROVE  /\ Len(sent) \in Nat /\ DOMAIN sent = 1 .. Len(sent) /\ Len(delivered) \in Nat
         /\ Written \in Nat
         /\ \A i \in 1 .. Len(sent) : /\ sent[i] \in Frames /\ sent[i].at \in Nat
                                      /\ sent[i].size \in Nat /\ sent[i].size >= kMinSize
                                      /\ sent[i].size > 0
<1>1. Len(sent) \in Nat /\ DOMAIN sent = 1 .. Len(sent) /\ Len(delivered) \in Nat
  BY LenProperties DEF TypeOK
<1>2. \A i \in 1 .. Len(sent) : sent[i] \in Frames
  BY ElementOfSeq DEF TypeOK
<1>3. \A f \in Frames : f.at \in Nat /\ f.size \in Nat /\ f.size >= kMinSize /\ f.size > 0
  <2>1. \A s \in Sizes : s \in Nat /\ s >= kMinSize
    BY SizesAssumption
  <2>2. kMinSize \in Nat /\ kMinSize > 0
    BY SizesAssumption
  <2>3. \A f \in Frames : f.at \in Nat /\ f.size \in Sizes
    BY DEF Frames
  <2> QED BY <2>1, <2>2, <2>3
<1>4. Written \in Nat
  <2>1. CASE sent = <<>>
    BY <2>1 DEF Written
  <2>2. CASE sent # <<>>
    <3>1. Len(sent) \in 1 .. Len(sent)
      BY <1>1, <2>2, EmptySeq DEF TypeOK
    <3> QED BY <1>2, <1>3, <2>2, <3>1 DEF Written
  <2> QED BY <2>1, <2>2
<1> QED BY <1>1, <1>2, <1>3, <1>4

\* The bytes at ptr are the first frame that was not delivered.
LEMMA FrameIsNext ==
  ASSUME IInv, MoreToRead
  PROVE  /\ Pending /\ Frame = NextFrame /\ ptr = NextFrame.at
         /\ Len(delivered) + 1 \in 1 .. Len(sent)
<1>1. TypeOK /\ Contiguous /\ Pointer
  BY DEF IInv
<1>2. ptr = NextStart /\ ptr < Written
  <2>1. arrived \in Nat /\ arrived <= Written /\ nbytes \in Nat /\ nbytes > 0 /\ reading
    BY <1>1, SentFacts, SizesAssumption DEF TypeOK, MoreToRead
  <2> QED BY <1>1, <2>1, SentFacts DEF Pointer, ptr
<1>3. Pending
  BY <1>1, <1>2, SentFacts DEF NextStart
<1> DEFINE k == Len(delivered) + 1
<1>4. k \in 1 .. Len(sent) /\ NextFrame = sent[k] /\ ptr = sent[k].at
  BY <1>1, <1>2, <1>3, SentFacts DEF Pending, NextStart, NextFrame
<1>5. ASSUME NEW i \in Starting PROVE i = k
  <2>1. i \in 1 .. Len(sent) /\ sent[i].at = sent[k].at
    BY <1>1, <1>4, SentFacts DEF Starting
  <2>2. /\ sent[i].at \in Nat /\ sent[i].size \in Nat /\ sent[i].size > 0
        /\ sent[k].at \in Nat /\ sent[k].size \in Nat /\ sent[k].size > 0
    BY <1>1, <1>4, <2>1, SentFacts
  <2>3. /\ i < k => sent[i].at + sent[i].size <= sent[k].at
        /\ k < i => sent[k].at + sent[k].size <= sent[i].at
    BY <1>1, <1>4, <2>1 DEF Contiguous
  <2>4. ~(i < k) /\ ~(k < i)
    BY <2>1, <2>2, <2>3
  <2> QED BY <1>1, <1>4, <2>1, <2>4, SentFacts
<1>6. k \in Starting
  BY <1>1, <1>4, SentFacts DEF Starting
<1>7. Frame = sent[k]
  <2> DEFINE i == CHOOSE i \in Starting : TRUE
  <2>1. i \in Starting
    BY <1>6
  <2>2. i = k
    BY <1>5, <2>1
  <2> HIDE DEF k
  <2> QED BY <1>6, <2>2 DEF Frame
<1> QED BY <1>3, <1>4, <1>7

-----------------------------------------------------------------------------
(* Steps.                                                                   *)

\* Another frame is written behind the others.
LEMMA WriteInvariant ==
  ASSUME IInv, NEW size \in Sizes, NEW valid \in BOOLEAN, Write(size, valid)
  PROVE  IInv'
<1> DEFINE f == [at |-> Written, size |-> size, valid |-> valid]
<1>1. /\ TypeOK /\ Contiguous /\ DeliveredInOrder /\ Pointer /\ NothingHeldBack
      /\ sent' = Append(sent, f)
      /\ UNCHANGED <<delivered, open, arrived, consumed, reading, nbytes>>
  BY DEF IInv, Write, Send
<1>2. f \in Frames /\ f.at = Written /\ f.size = size /\ size \in Nat /\ size > 0
  BY <1>1, SentFacts, SizesAssumption DEF Frames
<1> HIDE DEF f
<1>3. /\ sent' \in Seq(Frames) /\ Len(sent') = Len(sent) + 1
      /\ \A i \in 1 .. Len(sent) : sent'[i] = sent[i]
      /\ sent'[Len(sent) + 1] = f
  BY <1>1, <1>2, AppendProperties, LenProperties DEF TypeOK
<1>4. Written' = Written + size
  <2>1. sent' # <<>>
    BY <1>1, <1>3, SentFacts, EmptySeq
  <2> QED BY <1>2, <1>3, <2>1 DEF Written
<1>5. TypeOK'
  BY <1>1, <1>2, <1>3, <1>4, SentFacts DEF TypeOK
<1>6. Contiguous'
  <2>1. ASSUME NEW i \in 1 .. Len(sent') PROVE sent'[i].at + sent'[i].size <= Written'
    <3>1. CASE i = Len(sent) + 1
      BY <1>1, <1>2, <1>3, <1>4, <3>1, SentFacts
    <3>2. CASE i \in 1 .. Len(sent)
      BY <1>1, <1>2, <1>3, <1>4, <3>2, SentFacts DEF Contiguous
    <3> QED BY <1>1, <1>3, <3>1, <3>2, SentFacts
  <2>2. ASSUME NEW i \in 1 .. Len(sent'), NEW j \in 1 .. Len(sent'), i < j
        PROVE  sent'[i].at + sent'[i].size <= sent'[j].at
    <3>1. i \in 1 .. Len(sent) /\ sent'[i] = sent[i]
      BY <1>1, <1>3, <2>2, SentFacts
    <3>2. CASE j = Len(sent) + 1
      BY <1>1, <1>2, <1>3, <3>1, <3>2 DEF Contiguous
    <3>3. CASE j \in 1 .. Len(sent)
      BY <1>1, <1>3, <2>2, <3>1, <3>3 DEF Contiguous
    <3> QED BY <1>1, <1>3, <3>2, <3>3, SentFacts
  <2>3. ASSUME NEW i \in 1 .. Len(sent') - 1
        PROVE  sent'[i + 1].at = sent'[i].at + sent'[i].size
    <3>1. i \in 1 .. Len(sent) /\ sent'[i] = sent[i]
      BY <1>1, <1>3, SentFacts
    <3>2. CASE i = Len(sent)
      <4>1. Written = sent[i].at + sent[i].size
        BY <1>1, <3>1, <3>2, SentFacts, EmptySeq DEF Written
      <4> QED BY <1>2, <1>3, <3>1, <3>2, <4>1
    <3>3. CASE i # Len(sent)
      <4>1. i \in 1 .. Len(sent) - 1 /\ i + 1 \in 1 .. Len(sent)
        BY <3>1, <3>3, LenProperties, <1>1 DEF TypeOK
      <4> QED BY <1>1, <1>3, <3>1, <4>1 DEF Contiguous
    <3> QED BY <3>2, <3>3
  <2> QED BY <2>1, <2>2, <2>3 DEF Contiguous
<1>7. DeliveredInOrder'
  <2>1. DOMAIN delivered = 1 .. Len(delivered)
    BY <1>1, LenProperties DEF TypeOK
  <2>2. ASSUME NEW i \in DOMAIN delivered PROVE delivered[i] = sent'[i]
    BY <1>1, <1>3, <2>1, SentFacts DEF DeliveredInOrder
  <2> QED BY <1>1, <1>3, <2>2, SentFacts DEF DeliveredInOrder
<1>8. NextStart' = NextStart
  <2>1. Pending' /\ NextFrame' = sent'[Len(delivered) + 1]
    BY <1>1, <1>3, SentFacts DEF Pending, NextFrame, DeliveredInOrder
  <2>2. CASE Pending
    <3>1. Len(delivered) + 1 \in 1 .. Len(sent)
      BY <1>1, <2>2, SentFacts DEF Pending
    <3> QED BY <1>3, <2>1, <2>2, <3>1 DEF NextStart, NextFrame
  <2>3. CASE ~Pending
    <3>1. Len(delivered) = Len(sent)
      BY <1>1, <2>3, SentFacts DEF Pending, DeliveredInOrder
    <3> QED BY <1>2, <1>3, <2>1, <2>3, <3>1 DEF NextStart
  <2> QED BY <2>2, <2>3
<1>9. Pointer'
  BY <1>1, <1>8 DEF Pointer, ptr
<1>10. NothingHeldBack'
  <2> SUFFICES ASSUME open, ~reading
               PROVE  \/ arrived - NextFrame'.at < kMinSize
                      \/ Acceptable(NextFrame)' /\ arrived - NextFrame'.at < NextFrame'.size
    BY <1>1 DEF NothingHeldBack
  <2>1. CASE Pending
    <3>1. Len(delivered) + 1 \in 1 .. Len(sent)
      BY <1>1, <2>1, SentFacts DEF Pending
    <3>2. NextFrame' = NextFrame
      BY <1>1, <1>3, <3>1 DEF NextFrame
    <3> QED BY <1>1, <2>1, <3>2 DEF NothingHeldBack, Acceptable
  <2>2. CASE ~Pending
    <3>1. Len(delivered) = Len(sent)
      BY <1>1, <2>2, SentFacts DEF Pending, DeliveredInOrder
    <3>2. NextFrame' = f
      BY <1>1, <1>3, <3>1 DEF NextFrame
    <3> QED BY <1>1, <1>2, <3>2, SentFacts, SizesAssumption DEF TypeOK
  <2> QED BY <2>1, <2>2
<1> QED BY <1>5, <1>6, <1>7, <1>9, <1>10 DEF IInv

\* A call of OnRead, the refusal of a frame and the end of the loop leave the
\* frames as they are.
LEMMA LoopInvariant ==
  ASSUME IInv, UNCHANGED <<sent, delivered>>, TypeOK', Pointer', NothingHeldBack'
  PROVE  IInv'
BY DEF IInv, Contiguous, Written, DeliveredInOrder

LEMMA OnReadInvariant ==
  ASSUME IInv, NEW n \in 1 .. (Written - arrived), OnRead(n)
  PROVE  IInv'
<1>1. TypeOK /\ Pointer /\ Written' = Written
  BY DEF IInv, OnRead, Written
<1>2. TypeOK'
  BY <1>1, SentFacts DEF TypeOK, OnRead
<1>3. NextStart' = NextStart
  BY <1>1 DEF OnRead, NextStart, Pending, NextFrame
<1>4. Pointer'
  <2>1. ptr' = consumed
    BY <1>1, SentFacts DEF OnRead, ptr, TypeOK
  <2> QED BY <1>1, <1>3, <2>1 DEF OnRead, Pointer
<1>5. NothingHeldBack'
  BY DEF OnRead, NothingHeldBack
<1> QED BY <1>2, <1>4, <1>5, LoopInvariant DEF OnRead

LEMMA RefuseInvariant ==
  ASSUME IInv, RefuseFrame
  PROVE  IInv'
<1>1. TypeOK'
  BY DEF IInv, RefuseFrame, TypeOK, Written
<1>2. Pointer' /\ NothingHeldBack'
  BY DEF RefuseFrame, Pointer, NothingHeldBack
<1> QED BY <1>1, <1>2, LoopInvariant DEF RefuseFrame

LEMMA LeaveInvariant ==
  ASSUME IInv, Leave
  PROVE  IInv'
<1>1. TypeOK /\ Pointer /\ Written' = Written /\ NextStart' = NextStart
  BY DEF IInv, Leave, Written, NextStart, Pending, NextFrame
<1>2. ConsumeBytes = ptr /\ ptr = NextStart
  BY <1>1, SentFacts DEF ConsumeBytes, ptr, TypeOK, Pointer, Leave
<1>3. TypeOK'
  <2>1. /\ arrived \in Nat /\ consumed \in Nat /\ nbytes \in Nat
        /\ consumed <= arrived /\ nbytes <= arrived - consumed
    BY <1>1, SentFacts DEF TypeOK
  <2>2. consumed' = arrived - nbytes /\ arrived' = arrived /\ nbytes' = nbytes
    BY <2>1 DEF Leave, ConsumeBytes
  <2>3. consumed' \in 0 .. arrived' /\ nbytes' \in 0 .. (arrived' - consumed')
    BY <2>1, <2>2
  <2> QED BY <1>1, <2>3 DEF Leave, TypeOK
<1>4. Pointer'
  BY <1>1, <1>2 DEF Leave, Pointer
<1>5. NothingHeldBack'
  <2> SUFFICES ASSUME Pending
               PROVE  \/ arrived - NextFrame.at < kMinSize
                      \/ Acceptable(NextFrame) /\ arrived - NextFrame.at < NextFrame.size
    BY DEF Leave, NothingHeldBack, Pending, NextFrame, Acceptable
  <2>1. arrived - NextFrame.at = nbytes
    <3>1. NextFrame.at = arrived - nbytes
      BY <1>2 DEF NextStart, ptr
    <3>2. arrived \in Nat /\ nbytes \in Nat
      BY <1>1, SentFacts DEF TypeOK
    <3> QED BY <3>1, <3>2
  <2>2. CASE nbytes >= kMinSize
    <3>1. Frame = NextFrame /\ Check(Frame) /\ SizeChecked(Frame) /\ Incomplete(Frame)
      BY <2>2, FrameIsNext DEF Leave, MoreToRead
    <3>2. NextFrame.size \in Nat
      BY <1>1, <2>2, FrameIsNext, SentFacts DEF Leave, MoreToRead, NextFrame
    <3>3. nbytes \in Nat
      BY <1>1, SentFacts DEF TypeOK
    <3> QED BY <2>1, <3>1, <3>2, <3>3 DEF Acceptable, Check, SizeChecked, Incomplete
  <2>3. CASE ~(nbytes >= kMinSize)
    <3>1. nbytes \in Nat
      BY <1>1, SentFacts DEF TypeOK
    <3> QED BY <2>1, <2>3, <3>1, SizesAssumption
  <2> QED BY <2>2, <2>3
<1> QED BY <1>3, <1>4, <1>5, LoopInvariant DEF Leave

LEMMA DeliverInvariant ==
  ASSUME IInv, NEW keep \in BOOLEAN, DeliverFrame(keep)
  PROVE  IInv'
<1> DEFINE k == Len(delivered) + 1
<1>1. /\ TypeOK /\ Contiguous /\ DeliveredInOrder
      /\ Pending /\ Frame = NextFrame /\ ptr = NextFrame.at /\ k \in 1 .. Len(sent)
      /\ UNCHANGED <<sent, arrived, consumed, reading>> /\ reading
  BY FrameIsNext DEF IInv, DeliverFrame, MoreToRead
<1>2. /\ Frame = sent[k] /\ sent[k] \in Frames /\ sent[k].at \in Nat
      /\ sent[k].size \in Nat /\ sent[k].size > 0
  BY <1>1, SentFacts DEF NextFrame
<1>3. /\ delivered' \in Seq(Frames) /\ Len(delivered') = k
      /\ \A i \in 1 .. Len(delivered) : delivered'[i] = delivered[i]
      /\ delivered'[k] = sent[k]
      /\ DOMAIN delivered = 1 .. Len(delivered) /\ DOMAIN delivered' = 1 .. k
  BY <1>1, <1>2, AppendProperties, LenProperties DEF TypeOK, DeliverFrame
<1>4. Written' = Written
  BY <1>1 DEF Written
<1>5. nbytes \in Nat /\ nbytes <= arrived - consumed /\ nbytes' = nbytes - sent[k].size
      /\ nbytes' \in Nat
  BY <1>1, <1>2, SentFacts DEF TypeOK, DeliverFrame, Incomplete
<1>6. TypeOK'
  <2>1. nbytes' \in 0 .. (arrived' - consumed')
    BY <1>1, <1>2, <1>5, SentFacts DEF TypeOK
  <2>2. open' \in BOOLEAN
    BY <1>1 DEF TypeOK, DeliverFrame
  <2> QED BY <1>1, <1>3, <1>4, <2>1, <2>2 DEF TypeOK
<1>7. Contiguous'
  BY <1>1, <1>4 DEF Contiguous
<1>8. DeliveredInOrder'
  <2>1. ASSUME NEW i \in 1 .. k PROVE delivered'[i] = sent[i]
    <3>1. CASE i = k
      BY <1>3, <3>1
    <3>2. CASE i # k
      <4>1. i \in 1 .. Len(delivered)
        BY <1>1, <3>2, SentFacts
      <4> QED BY <1>1, <1>3, <4>1 DEF DeliveredInOrder
    <3> QED BY <3>1, <3>2
  <2> HIDE DEF k
  <2> QED BY <1>1, <1>3, <2>1, SentFacts DEF DeliveredInOrder
<1>9. Pointer'
  <2>1. ptr' = sent[k].at + sent[k].size
    <3>1. ptr = arrived - nbytes /\ ptr = sent[k].at
      BY <1>1, <1>2 DEF ptr
    <3>2. arrived \in Nat
      BY <1>1, SentFacts DEF TypeOK
    <3> QED BY <1>1, <1>2, <1>5, <3>1, <3>2 DEF ptr
  <2>2. NextStart' = sent[k].at + sent[k].size
    <3>1. CASE k = Len(sent)
      <4>1. ~Pending' /\ Written = sent[k].at + sent[k].size
        BY <1>1, <1>3, <3>1, SentFacts, EmptySeq DEF Pending, Written
      <4> QED BY <1>4, <4>1 DEF NextStart
    <3>2. CASE k # Len(sent)
      <4>1. k \in 1 .. Len(sent) - 1
        BY <1>1, <3>2, LenProperties DEF TypeOK
      <4>2. Pending' /\ NextFrame' = sent[k + 1]
        BY <1>1, <1>3, <4>1, SentFacts DEF Pending, NextFrame
      <4> QED BY <1>1, <4>1, <4>2 DEF NextStart, Contiguous
    <3> QED BY <3>1, <3>2
  <2> QED BY <1>1, <2>1, <2>2 DEF Pointer
<1>10. NothingHeldBack'
  BY <1>1 DEF NothingHeldBack
<1> QED BY <1>6, <1>7, <1>8, <1>9, <1>10 DEF IInv

LEMMA Step == IInv /\ [Next]_vars => IInv'
<1> SUFFICES ASSUME IInv, [Next]_vars PROVE IInv'
  OBVIOUS
<1>1. CASE UNCHANGED vars
  BY <1>1 DEF vars, IInv, TypeOK, Contiguous, DeliveredInOrder, Pointer, ptr, NextStart, Pending,
              NextFrame, NothingHeldBack, Written
<1>2. ASSUME NEW size \in Sizes, NEW valid \in BOOLEAN, Write(size, valid) PROVE IInv'
  BY <1>2, WriteInvariant
<1>3. CASE Arrive
  BY <1>3, OnReadInvariant DEF Arrive
<1>4. CASE Turn
  BY <1>4, RefuseInvariant, DeliverInvariant, LeaveInvariant DEF Turn
<1> QED BY <1>1, <1>2, <1>3, <1>4 DEF Next

-----------------------------------------------------------------------------
\* The inductive invariant holds in every reachable state.
THEOREM Invariant == Spec => []IInv
<1>1. Init => IInv
  BY InitInvariant
<1>2. IInv /\ [Next]_vars => IInv'
  BY Step
<1> QED BY <1>1, <1>2, PTL DEF Spec

\* Counters of bytes keep their order: OnRead never takes more than came in.
THEOREM TypeCorrect == Spec => []TypeOK
<1>1. IInv => TypeOK
  BY DEF IInv
<1> QED BY <1>1, Invariant, PTL

\* The callback sees the frames that were written, in order, each once.
THEOREM DeliveredInOrderCorrect == Spec => []DeliveredInOrder
<1>1. IInv => DeliveredInOrder
  BY DEF IInv
<1> QED BY <1>1, Invariant, PTL

\* No frame that is complete stays in the buffer of an open connection.
THEOREM NothingHeldBackCorrect == Spec => []NothingHeldBack
<1>1. IInv => NothingHeldBack
  BY DEF IInv
<1> QED BY <1>1, Invariant, PTL

-----------------------------------------------------------------------------
(* The refinement, without its fairness.                                    *)

LEMMA StreamStep == IInv /\ [Next]_vars => [StreamNext]_streamVars
<1> SUFFICES ASSUME IInv, [Next]_vars PROVE [StreamNext]_streamVars
  OBVIOUS
<1>1. CASE UNCHANGED vars
  BY <1>1 DEF vars, streamVars
<1>2. ASSUME NEW size \in Sizes, NEW valid \in BOOLEAN, Write(size, valid) PROVE StreamNext
  BY <1>2 DEF Write, StreamNext
<1>3. CASE Arrive
  BY <1>3 DEF Arrive, OnRead, streamVars
<1>4. CASE RefuseFrame
  <2>1. Pending /\ Frame = NextFrame
    BY <1>4, FrameIsNext DEF RefuseFrame
  <2> QED BY <1>4, <2>1 DEF RefuseFrame, StreamNext, Refuse, Acceptable, Check, SizeChecked
<1>5. ASSUME NEW keep \in BOOLEAN, DeliverFrame(keep) PROVE StreamNext
  <2>1. Pending /\ Frame = NextFrame
    BY <1>5, FrameIsNext DEF DeliverFrame
  <2>2. Deliver(keep)
    BY <1>5, <2>1 DEF DeliverFrame, Deliver, Acceptable, Check, SizeChecked
  <2> QED BY <2>2 DEF StreamNext
<1>6. CASE Leave
  BY <1>6 DEF Leave, streamVars
<1> QED BY <1>1, <1>2, <1>3, <1>4, <1>5, <1>6 DEF Next, Turn

\* The safety of ImplementsStream: every turn of the loop delivers or refuses
\* the next frame, or changes nothing that FrameStream speaks of.
THEOREM ImplementsSafety == Spec => StreamInit /\ [][StreamNext]_streamVars
<1>1. Init => StreamInit
  BY DEF Init
<1>2. IInv /\ [Next]_vars => [StreamNext]_streamVars
  BY StreamStep
<1> QED BY <1>1, <1>2, Invariant, PTL DEF Spec
=============================================================================

---------------------------- MODULE MessageCodec ----------------------------
(***************************************************************************)
(* MessageCodec::OnRead, the loop that cuts the bytes of a connection      *)
(* between two cpmds into messages.  ProtocolMessageCodec::OnRead is the   *)
(* same loop with other sizes.                                             *)
(*                                                                         *)
(* The loop runs inside one callback of the event loop, but its turns are  *)
(* steps of their own here, because it calls message_callback_, which may  *)
(* close the connection (HandleRemoteNodeMessage), and because the other   *)
(* side writes meanwhile.                                                  *)
(***************************************************************************)
EXTENDS FrameStream

VARIABLES
  arrived,      \* bytes of the stream that reached this side
  consumed,     \* bytes taken out of the connection's buffer
  reading,      \* inside OnRead
  nbytes        \* the bytes of the buffer the loop has not dealt with

vars == <<sent, delivered, open, arrived, consumed, reading, nbytes>>

Init ==
  /\ StreamInit
  /\ arrived = 0 /\ consumed = 0
  /\ reading = FALSE /\ nbytes = 0

(* The other side's Node::SendMessageDirectly.  The size of a message it   *)
(* forwards is below kMaxSize, but other programs may connect as well.     *)
Write(size, valid) ==
  /\ Send(size, valid)
  /\ UNCHANGED <<arrived, consumed, reading, nbytes>>

(* n more bytes arrive and the connection calls OnRead. *)
OnRead(n) ==
  /\ open /\ ~reading
  /\ arrived + n <= Written
  /\ arrived' = arrived + n
  /\ reading' = TRUE
  /\ nbytes' = arrived + n - consumed
  /\ UNCHANGED <<sent, delivered, open, consumed>>

(* Where ptr points to.  The callback is handed the bytes there as a       *)
(* message whatever they are: bytes that no frame starts with pass for a   *)
(* frame that is not valid.                                                *)
ptr == arrived - nbytes

Starting == {i \in DOMAIN sent : sent[i].at = ptr}

Frame ==
  IF Starting = {} THEN [at |-> ptr, size |-> kMinSize, valid |-> FALSE]
  ELSE sent[CHOOSE i \in Starting : TRUE]

MoreToRead == reading /\ nbytes >= kMinSize

CheckForgotten(f) == TRUE

Check(f) == f.valid

SizeChecked(f) == f.size < kMaxSize

IncompleteForgotten(f) == FALSE

IncompleteOffByOne(f) == f.size >= nbytes

Incomplete(f) == f.size > nbytes

(* buf->ConsumeBytes (data.size() - nbytes). *)
ConsumeForgotten == consumed

ConsumeBytes == consumed + (arrived - consumed - nbytes)

(* The connection is closed; the bytes stay in its buffer. *)
RefuseFrame ==
  /\ MoreToRead
  /\ ~(Check(Frame) /\ SizeChecked(Frame))
  /\ open' = FALSE
  /\ reading' = FALSE
  /\ UNCHANGED <<sent, delivered, arrived, consumed, nbytes>>

(* message_callback_ (conn, *m), which keeps the connection or closes it.  *)
(* The loop goes on in either case.                                        *)
DeliverFrame(keep) ==
  /\ MoreToRead
  /\ Check(Frame) /\ SizeChecked(Frame) /\ ~Incomplete(Frame)
  /\ delivered' = Append(delivered, Frame)
  /\ open' = (open /\ keep)
  /\ nbytes' = nbytes - Frame.size
  /\ UNCHANGED <<sent, arrived, consumed, reading>>

(* The loop ends because less than a whole message is left. *)
Leave ==
  /\ reading
  /\ nbytes >= kMinSize =>
       Check(Frame) /\ SizeChecked(Frame) /\ Incomplete(Frame)
  /\ consumed' = ConsumeBytes
  /\ reading' = FALSE
  /\ UNCHANGED <<sent, delivered, open, arrived, nbytes>>

Turn == RefuseFrame \/ (\E keep \in BOOLEAN : DeliverFrame(keep)) \/ Leave

Arrive == \E n \in 1 .. (Written - arrived) : OnRead(n)

Next ==
  \/ \E size \in Sizes, valid \in BOOLEAN : Write(size, valid)
  \/ Arrive
  \/ Turn

(* TCP brings the bytes of an open connection to the other side in the     *)
(* end, and the loop is never suspended.                                   *)
Spec == Init /\ [][Next]_vars /\ WF_vars(Arrive) /\ WF_vars(Turn)

-----------------------------------------------------------------------------
(* Every variable keeps its type, and the counters of bytes their order:   *)
(* OnRead never takes more out of the buffer than came in.                 *)
TypeOK ==
  /\ sent \in Seq(Frames) /\ delivered \in Seq(Frames)
  /\ open \in BOOLEAN /\ reading \in BOOLEAN
  /\ arrived \in 0 .. Written
  /\ consumed \in 0 .. arrived
  /\ nbytes \in 0 .. (arrived - consumed)

(* The callback sees the frames in the order they were written, each once  *)
(* and none that was not written, wherever OnRead was interrupted: what    *)
(* ConsumeBytes leaves in the buffer is exactly what was not delivered.    *)
DeliveredInOrder ==
  /\ Len(delivered) <= Len(sent)
  /\ \A i \in DOMAIN delivered : delivered[i] = sent[i]

(* Between two calls of OnRead an open connection never holds a frame that *)
(* could be delivered, or refused, already: the next call comes only with  *)
(* more bytes, which may never arrive.                                     *)
NothingHeldBack ==
  open /\ ~reading /\ Pending =>
    LET f == NextFrame
        here == arrived - f.at
    IN  here < kMinSize \/ (Acceptable(f) /\ here < f.size)

(* The codec keeps the promise of FrameStream, progress included: no frame *)
(* is passed on that must be refused, none is refused that may be passed,  *)
(* and no frame on an open connection waits for ever.                      *)
ImplementsStream == StreamSpec
=============================================================================

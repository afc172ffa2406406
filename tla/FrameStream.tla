---------------------------- MODULE FrameStream ----------------------------
(***************************************************************************)
(* What a connection with a codec promises its callback: the frames the    *)
(* other side writes, whole, in the order they were written and once each, *)
(* however TCP cuts up the bytes; a frame the codec must refuse, and a     *)
(* callback that refuses a frame, close the connection.                    *)
(***************************************************************************)
EXTENDS Naturals, Sequences

CONSTANTS
  kMinSize,     \* size of a frame without data
  kMaxSize,     \* a frame must be smaller than this
  Sizes,        \* sizes of frames
  MaxFrames     \* bound: frames the other side writes

ASSUME SizesAssumption ==
  /\ kMinSize \in Nat \ {0}
  /\ kMaxSize \in Nat
  /\ Sizes \subseteq {s \in Nat : s >= kMinSize}
  /\ MaxFrames \in Nat

VARIABLES
  sent,         \* the frames written by the other side
  delivered,    \* the frames passed to the callback
  open          \* the connection is not closed

streamVars == <<sent, delivered, open>>

(* A frame starts at byte "at" of the stream; valid: its magic is right. *)
Frames == [at : Nat, size : Sizes, valid : BOOLEAN]

(* Bytes of the stream written so far. *)
Written == IF sent = <<>> THEN 0
           ELSE sent[Len(sent)].at + sent[Len(sent)].size

Acceptable(f) == f.valid /\ f.size < kMaxSize

StreamInit == sent = <<>> /\ delivered = <<>> /\ open = TRUE

Send(size, valid) ==
  /\ Len(sent) < MaxFrames
  /\ sent' = Append(sent, [at |-> Written, size |-> size, valid |-> valid])
  /\ UNCHANGED <<delivered, open>>

Pending == Len(delivered) < Len(sent)

NextFrame == sent[Len(delivered) + 1]

(* Not guarded by "open": frames that arrived together with the one whose  *)
(* callback closes the connection are still passed to the callback.        *)
Deliver(keep) ==
  /\ Pending /\ Acceptable(NextFrame)
  /\ delivered' = Append(delivered, NextFrame)
  /\ open' = (open /\ keep)
  /\ UNCHANGED sent

Refuse ==
  /\ Pending /\ ~Acceptable(NextFrame)
  /\ open' = FALSE
  /\ UNCHANGED <<sent, delivered>>

(* While the connection is open, what was written is dealt with. *)
Progress == open /\ (Refuse \/ \E keep \in BOOLEAN : Deliver(keep))

StreamNext ==
  \/ \E size \in Sizes, valid \in BOOLEAN : Send(size, valid)
  \/ \E keep \in BOOLEAN : Deliver(keep)
  \/ Refuse

StreamSpec == StreamInit /\ [][StreamNext]_streamVars /\ WF_streamVars(Progress)
=============================================================================

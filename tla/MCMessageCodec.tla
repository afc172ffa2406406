--------------------------- MODULE MCMessageCodec ---------------------------
(* Values for model checking MessageCodec. *)
EXTENDS MessageCodec

(* From an empty message to one of the first size that is refused. *)
MCSizes == kMinSize .. kMaxSize
=============================================================================

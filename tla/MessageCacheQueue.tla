-------------------------- MODULE MessageCacheQueue --------------------------
(***************************************************************************)
(* The bounded queue in which a cpmd keeps the messages it cannot send to  *)
(* a node yet (cpm_message_cache_queue.cc).  The queue is a sequence; the  *)
(* operators return its next value.                                        *)
(*                                                                         *)
(* Push is only called with a place for the dropped message (every caller  *)
(* is in HandleToRemoteMessage, which passes &droped), so a full queue     *)
(* gives up its oldest message and the assertion of Push, which follows,   *)
(* cannot fail.                                                            *)
(***************************************************************************)
EXTENDS Naturals, Sequences

Full(q, max) == Len(q) = max

\* Mutants of Push: one that never makes room, and one with a stack for a queue.
PushUnbounded(q, m, max) == Append(q, m)
PushOnStack(q, m, max) == <<m>> \o (IF Full(q, max) THEN Tail(q) ELSE q)

\* The queue after Push(m): a full queue first loses its head.
Push(q, m, max) == Append(IF Full(q, max) THEN Tail(q) ELSE q, m)

\* The messages Push(m) removes to make room: none or the oldest one.
Droped(q, max) == IF Full(q, max) THEN {Head(q)} ELSE {}
=============================================================================

--------------------------- MODULE MCLocalClients ---------------------------
(* Values for model checking LocalClients. *)
EXTENDS LocalClients

CONSTANTS a, b

MCHash == (a :> 2) @@ (b :> 1)

(* For either client, by either form of this node's address, and one that  *)
(* SetData accepts but cpmd does not.                                      *)
MCContents ==
  {[to |-> [node |-> LocalNode, client |-> 2], big |-> FALSE],
   [to |-> [node |-> Node, client |-> 1], big |-> FALSE],
   [to |-> [node |-> Node, client |-> 1], big |-> TRUE]}

(* a registers again, after an end of its own or of cpmd. *)
MCTries == [c \in Clients |-> IF c = a THEN 2 ELSE 1]

(* a sends, the others listen. *)
MCSends == [c \in Clients |-> IF c = a THEN 2 ELSE 0]
=============================================================================

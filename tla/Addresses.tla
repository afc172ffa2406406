----------------------------- MODULE Addresses -----------------------------
(***************************************************************************)
(* Logical addresses (cpm_address.cc): "client" names a client of the own   *)
(* node, "node/" a node and "node/client" a client of a node, where the     *)
(* name of a node may have slashes of its own.  A name is the sequence of   *)
(* its characters.  The hash is a parameter, of which nothing is assumed    *)
(* but its range.                                                          *)
(***************************************************************************)
EXTENDS Naturals, Sequences

CONSTANTS
  Slices,  \* the texts that are hashed: all parts of the names in use
  Hash     \* Address::Hash

ASSUME HashAssumption == Slices \subseteq Seq(STRING) /\ Hash \in [Slices -> Nat]

\* kLocalNodeAddress, and the client address of a node.
LocalNode == 0
CreateDirectly(node, client) == [node |-> node, client |-> client]

Slashes(a) == {i \in 1 .. Len(a) : a[i] = "/"}
IsNode(a) == Len(a) \in Slashes(a)

\* What GetNodeAddress splits off is all up to the last slash.
FirstSlash(a) == CHOOSE i \in Slashes(a) : \A j \in Slashes(a) : i <= j \* mutant
LastSlash(a) == CHOOSE i \in Slashes(a) : \A j \in Slashes(a) : j <= i

NodePart(a) == SubSeq(a, 1, LastSlash(a))
ClientPart(a) == SubSeq(a, LastSlash(a) + 1, Len(a))

Create(a) ==
  IF Slashes(a) = {} THEN CreateDirectly(LocalNode, Hash[a])
  ELSE IF IsNode(a) THEN CreateDirectly(Hash[a], 0)
  ELSE CreateDirectly(Hash[NodePart(a)], Hash[ClientPart(a)])
=============================================================================

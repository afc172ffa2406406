--------------------------- MODULE MCResolveConf ---------------------------
(* A small instance of ResolveConf: the node "a/", the nested "a/b/", two    *)
(* names whose hashes collide, and a name that is no node.  One network      *)
(* address can be written in two ways.                                      *)
EXTENDS ResolveConf, TLC

CONSTANTS w1, w2, long, x1, x2

a == <<"a", "/">>
nested == <<"a", "/", "b", "/">>
other == <<"c", "/">>
client == <<"b">>
MCNames == {a, nested, other, client}
MCSlices == MCNames \cup {n \o client : n \in {a, nested, other}} \cup {<<"b", "/", "b">>}
MCNumber == (a :> 1) @@ (nested :> 2) @@ (other :> 2) @@ (client :> 3)
MCHash == [s \in MCSlices |-> IF s \in MCNames THEN MCNumber[s] ELSE 4]

MCTexts == {w1, w2, long}
MCNetAddrs == {x1, x2}
MCToNet == (w1 :> x1) @@ (long :> x1) @@ (w2 :> x2)
MCToText == (x1 :> w1) @@ (x2 :> w2)
=============================================================================

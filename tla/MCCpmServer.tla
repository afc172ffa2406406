----------------------------- MODULE MCCpmServer -----------------------------
(* Small instances of CpmServer.  me is the cpmd itself, n1 a node of the    *)
(* resolve server's table, nx a node that is not in it.  One connection for  *)
(* each network address and one for the resolve server are enough: by        *)
(* OneConnectionPerPeer no more are ever in use.                             *)
EXTENDS CpmServer, TLC

CONSTANTS me, n1, nx, aMe, a1, c1, c2, c3

MCNodeAddrs == {me, n1, nx}
MCKnownNodes == {me, n1}
MCNetAddrs == {aMe, a1}
MCConf == (me :> aMe) @@ (n1 :> a1)
MCConns == {c1, c2, c3}
ConnSymmetry == Permutations(MCConns)
=============================================================================

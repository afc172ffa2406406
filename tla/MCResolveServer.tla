--------------------------- MODULE MCResolveServer ---------------------------
(* Small instances of ResolveServer.  n1 and n2 are the nodes of the table,  *)
(* at h1 and h2; nx is no node of it, and hx the address of a cpmd that is   *)
(* not in it.                                                                *)
EXTENDS ResolveServer, TLC

CONSTANTS n1, n2, nx, h1, h2, hx, c1, c2, c3

MCNodeAddrs == {n1, n2, nx}
MCHosts == {h1, h2, hx}
MCConf == (n1 :> h1) @@ (n2 :> h2)
MCCacheNodes == (h1 :> n1) @@ (h2 :> n2)
MCConns == {c1, c2}
MCThreeConns == {c1, c2, c3}
ConnSymmetry == Permutations(MCThreeConns)
=============================================================================

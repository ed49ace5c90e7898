----------------------------- MODULE MCNodeSync -----------------------------
(* Two peers: one ahead on the node's own branch, one on a fork of it, each  *)
(* with a next block that the node's ledger refuses.                         *)
EXTENDS NodeSync

CONSTANTS p1, p2

MCOurChain == <<2>>
MCPeerChains == [p \in {p1, p2} |-> IF p = p1 THEN <<1, 1, 1, 1>> ELSE <<2, 1>>]
MCUnappliable == {<<1, 1, 1, 2>>, <<2, 1, 1>>}

=============================================================================

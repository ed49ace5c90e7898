---------------------------- MODULE MCPeerManager ----------------------------
(* One IP with two ports.                                                    *)
EXTENDS PeerManager

CONSTANTS a1, a2, ipA, t1, t2, self

MCIpOf == [a \in Addrs |-> ipA]

MinusTwo == -2

=============================================================================

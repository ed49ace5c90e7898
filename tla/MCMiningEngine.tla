--------------------------- MODULE MCMiningEngine ---------------------------
(* Two loops, one header, an adaptive pattern and a fixed one.               *)
EXTENDS MiningEngine

CONSTANTS l1, l2, hdr

MCPatterns == {Performance, CustomBurst(0, 2000)}

=============================================================================

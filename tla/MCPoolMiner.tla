---------------------------- MODULE MCPoolMiner ----------------------------
(* Two threads that share ten nonces.                                  *)
EXTENDS PoolMiner

============================================================================

---------------------------- MODULE MCPoolShares ----------------------------
(* One rig with a nonce that meets the floor of the pool and a weak one.  A  *)
(* share can enter a bucket in the middle of its time.                       *)
EXTENDS PoolShares, TLC

CONSTANTS w1, h1, h2

MCMix(nonce, worker) == nonce

\* Handlers are alike.
Interchangeable == Permutations({h1, h2})

=============================================================================

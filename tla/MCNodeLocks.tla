----------------------------- MODULE MCNodeLocks -----------------------------
EXTENDS NodeLocks, TLC

CONSTANTS t1, t2, t3

\* Tasks are alike.
Interchangeable == Permutations({t1, t2, t3})

=============================================================================

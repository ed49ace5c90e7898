----------------------------- MODULE MCFinality -----------------------------
(* Two transactions that spend the same sequence number.                     *)
EXTENDS Finality, TLC

CONSTANTS t1, t2, k1, p1, p2, p3

MCKeyOf == [t \in {t1, t2} |-> k1]

\* No operation tells two peers or the two transactions apart.
Interchangeable == Permutations({p1, p2, p3}) \cup Permutations({t1, t2})

=============================================================================

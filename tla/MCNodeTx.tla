------------------------------ MODULE MCNodeTx ------------------------------
(* One sender with two pairs of conflicting payments.                        *)
EXTENDS NodeTx, TLC

CONSTANTS alice, bob, p1, p2, c

Pay(to, seq) == [sender |-> alice, recipient |-> to, amount |-> 1, fee |-> 1, sequence |-> seq]

MCTxs == {Pay(to, seq) : to \in {alice, bob}, seq \in {1, 2}}
MCForged == {[Pay(bob, 1) EXCEPT !.amount = 2]}

\* The peers' tasks are alike.
Interchangeable == Permutations({p1, p2})

=============================================================================

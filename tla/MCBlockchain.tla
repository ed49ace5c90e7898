----------------------------- MODULE MCBlockchain -----------------------------
(***************************************************************************)
(* Small instances of BlockchainRestart: block trees with two miners, a    *)
(* premine holder and a few transactions.                                  *)
(***************************************************************************)
EXTENDS BlockchainRestart, TLC

CONSTANTS dev, m1, m2

MCAccounts == {dev, m1, m2}

Tx(from, to, amount, fee, seq) ==
    [sender |-> from, recipient |-> to, amount |-> amount, fee |-> fee, sequence |-> seq]

Blk(index, hash, prev, ts, miner, bits, txs) ==
    [index |-> index, hash |-> hash, prev_hash |-> prev, timestamp |-> ts,
     miner |-> miner, reward |-> 5, transactions |-> txs,
     sealed |-> TRUE, bits |-> bits, signed |-> TRUE]

MCGenesis == [Blk(0, 0, 99, 100, dev, 0, <<>>) EXCEPT !.reward = 0]

MCHashes == 0..99

\* Payments that apply on every branch they appear on: the premine pays with
\* consecutive sequence numbers, the miner of block 11 spends its reward.
Pay1 == Tx(dev, m1, 3, 1, 1)
Pay2 == Tx(dev, m2, 2, 1, 2)
Back == Tx(m1, dev, 4, 1, 1)

\* Three branches, two from genesis and one from block 12; hash = 10 * branch
\* + index.  With a window of 2 and a goal of 8 the boundary blocks 2, 4 and 6
\* move the difficulty by every amount: +2, +1, 0, -1 and -2.  Block 24 has
\* only the work its own branch asks for, block 54 not even that.
Tree == {
    MCGenesis,
    Blk(1, 11, 0, 101, m1, 9, <<>>),
    Blk(2, 12, 11, 101, m1, 9, <<Pay1>>),
    Blk(3, 13, 12, 104, m2, 9, <<Pay2, Back>>),
    Blk(4, 14, 13, 106, m1, 9, <<>>),
    Blk(5, 15, 14, 110, m1, 9, <<>>),
    Blk(6, 16, 15, 114, m2, 9, <<>>),
    Blk(1, 21, 0, 110, m2, 9, <<Pay1, Pay2>>),
    Blk(2, 22, 21, 140, m2, 3, <<>>),
    Blk(3, 23, 22, 141, m1, 9, <<>>),
    Blk(4, 24, 23, 142, m1, 1, <<>>),
    Blk(3, 33, 12, 110, m1, 9, <<>>),
    Blk(4, 34, 33, 111, m2, 5, <<>>),
    Blk(4, 54, 33, 112, m2, 4, <<>>)}

\* A payment m2 cannot make, behind one that can be made.
Poor == Tx(m2, dev, 9, 1, 1)

\* A short tree with a block whose second transaction does not apply.
BadTree == {
    MCGenesis,
    Blk(1, 11, 0, 101, m1, 9, <<>>),
    Blk(2, 12, 11, 101, m1, 9, <<>>),
    Blk(3, 13, 12, 104, m1, 9, <<>>),
    Blk(2, 42, 11, 102, m1, 9, <<Pay1, Poor>>),
    Blk(1, 21, 0, 110, m1, 9, <<>>),
    Blk(2, 22, 21, 140, m1, 9, <<>>),
    Blk(3, 23, 22, 141, m1, 9, <<>>)}

\* Bound: a rejected block's coinbase stays in the ledger, so retrying it would
\* make balances grow for ever.
BalancesBounded == \A a \in Accounts : ledger[a].balance <= 60

NoCheckpoints == [h \in {} |-> 0]
\* Branch 1 is the checkpointed one.
OneCheckpoint == 2 :> 12

=============================================================================

------------------------------- MODULE Ledger -------------------------------
(***************************************************************************)
(* The account ledger (taron-core/src/ledger.rs, genesis.rs) as operators  *)
(* on a ledger value: the map from public keys to account states.  The     *)
(* HashMap is a total function whose records say whether the key is        *)
(* present; an absent key reads as balance 0, as balance() does.           *)
(* last_tx_hash is left out: nothing reads it back.  Balances are naturals:*)
(* the premine plus every reward stays far below 2^64 (1.1 * 10^12 blocks).*)
(***************************************************************************)
EXTENDS U64

CONSTANTS
    Accounts,         \* public keys
    Premine,          \* PREMINE_PUBKEY
    PREMINE_BALANCE   \* balance of the premine account at genesis

ASSUME LedgerAssumption ==
    /\ Premine \in Accounts
    /\ PREMINE_BALANCE \in Nat

AccountState == [exists : BOOLEAN, balance : Nat, sequence : Nat]

Ledgers == [Accounts -> AccountState]

Transaction == [sender : Accounts, recipient : Accounts,
                amount : 0..MAX_U64, fee : 0..MAX_U64, sequence : Nat]

\* amount + fee; the fee is burned, the recipient is credited the amount only.
TotalCost(tx) == SaturatingAdd(tx.amount, tx.fee)

NewTestnet ==
    [a \in Accounts |-> [exists   |-> a = Premine,
                         balance  |-> IF a = Premine THEN PREMINE_BALANCE ELSE 0,
                         sequence |-> 0]]

-----------------------------------------------------------------------------
\* get_account_mut creates the account it is asked for; credit adds to it.
Credit(l, a, amount) ==
    [l EXCEPT ![a] = [exists   |-> TRUE,
                      balance  |-> @.balance + amount,
                      sequence |-> @.sequence]]

\* The three checks of apply_tx: the sender exists, can pay, and the sequence
\* number is the next one.
CanApplyTx(l, tx) ==
    /\ l[tx.sender].exists
    /\ l[tx.sender].balance >= TotalCost(tx)
    /\ tx.sequence = l[tx.sender].sequence + 1

\* apply_tx_ibd looks at the balance only.
CanApplyTxIbd(l, tx) == l[tx.sender].balance >= TotalCost(tx)

\* spend() followed by the recipient's credit.
ApplyTx(l, tx) ==
    Credit([l EXCEPT ![tx.sender] = [exists   |-> TRUE,
                                     balance  |-> @.balance - TotalCost(tx),
                                     sequence |-> @.sequence + 1]],
           tx.recipient, tx.amount)

\* The same, with the sequence overridden by the transaction's.
ApplyTxIbd(l, tx) ==
    Credit([l EXCEPT ![tx.sender] = [exists   |-> TRUE,
                                     balance  |-> @.balance - TotalCost(tx),
                                     sequence |-> tx.sequence]],
           tx.recipient, tx.amount)

ApplyCoinbase(l, miner, reward) == Credit(l, miner, reward)

\* Take back what an account was credited, stopping at 0.
Debit(l, a, amount) ==
    [l EXCEPT ![a] = [exists   |-> TRUE,
                      balance  |-> SaturatingSub(@.balance, amount),
                      sequence |-> @.sequence]]

\* Mutant: the sender is refunded the amount but not the fee.
RevertTxKeepFee(l, tx) ==
    LET d == Debit(l, tx.recipient, tx.amount)
    IN  [d EXCEPT ![tx.sender] =
            [exists   |-> TRUE,
             balance  |-> @.balance + tx.amount,
             sequence |-> SaturatingSub(@.sequence, 1)]]

\* Recipient first, then the sender gets amount + fee and a sequence back.
RevertTx(l, tx) ==
    LET d == Debit(l, tx.recipient, tx.amount)
    IN  [d EXCEPT ![tx.sender] =
            [exists   |-> TRUE,
             balance  |-> @.balance + TotalCost(tx),
             sequence |-> SaturatingSub(@.sequence, 1)]]

RevertCoinbase(l, miner, reward) == Debit(l, miner, reward)

\* What a wallet or the RPC can tell apart: an empty account that a revert
\* left behind is not distinguished from one that never existed.
Holdings(l) == [a \in Accounts |-> <<l[a].balance, l[a].sequence>>]

=============================================================================

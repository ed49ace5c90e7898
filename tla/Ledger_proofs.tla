---------------------------- MODULE Ledger_proofs ----------------------------
(***************************************************************************)
(* Facts that the proofs about the block store and about transactions      *)
(* share: what the operations of the ledger do to every ledger, and        *)
(* induction and recursion over numbers in a form the provers can use.     *)
(***************************************************************************)
EXTENDS Ledger, WellFoundedInduction, TLAPS

-----------------------------------------------------------------------------
(* The ledger: what its operations do, for every ledger and transaction    *)

\* What a transaction costs is a number.
LEMMA TotalCostType ==
    ASSUME NEW tx \in Transaction
    PROVE  TotalCost(tx) \in Nat
BY U64Assumption DEF TotalCost, SaturatingAdd, Transaction

\* A credit gives a ledger.
LEMMA CreditType ==
    ASSUME NEW l \in Ledgers, NEW a \in Accounts, NEW n \in Nat
    PROVE  Credit(l, a, n) \in Ledgers
BY DEF Credit, Ledgers, AccountState

\* So does a debit.
LEMMA DebitType ==
    ASSUME NEW l \in Ledgers, NEW a \in Accounts, NEW n \in Nat
    PROVE  Debit(l, a, n) \in Ledgers
BY DEF Debit, SaturatingSub, Ledgers, AccountState

\* NewTestnet is a ledger.
LEMMA NewTestnetType == NewTestnet \in Ledgers
BY LedgerAssumption DEF NewTestnet, Ledgers, AccountState

\* So does a transaction the sender can pay, by either way of applying it.
LEMMA ApplyTxType ==
    ASSUME NEW l \in Ledgers, NEW tx \in Transaction,
           l[tx.sender].balance >= TotalCost(tx)
    PROVE  ApplyTx(l, tx) \in Ledgers /\ ApplyTxIbd(l, tx) \in Ledgers
<1> DEFINE paid(seq) == [l EXCEPT ![tx.sender] = [exists   |-> TRUE,
                                     balance  |-> @.balance - TotalCost(tx),
                                     sequence |-> seq]]
<1>1. /\ tx.sender \in Accounts /\ tx.recipient \in Accounts
      /\ tx.amount \in Nat /\ tx.sequence \in Nat
  BY U64Assumption DEF Transaction
<1>2. l[tx.sender].balance - TotalCost(tx) \in Nat /\ l[tx.sender].sequence + 1 \in Nat
  BY <1>1, TotalCostType DEF Ledgers, AccountState
<1>3. ASSUME NEW seq \in Nat PROVE paid(seq) \in Ledgers
  BY <1>1, <1>2 DEF Ledgers, AccountState
<1>4. paid(l[tx.sender].sequence + 1) \in Ledgers /\ paid(tx.sequence) \in Ledgers
  BY <1>1, <1>2, <1>3
<1> QED
  BY <1>1, <1>4, CreditType DEF ApplyTx, ApplyTxIbd

\* And its reversal.
LEMMA RevertTxType ==
    ASSUME NEW l \in Ledgers, NEW tx \in Transaction
    PROVE  RevertTx(l, tx) \in Ledgers
<1> DEFINE d == Debit(l, tx.recipient, tx.amount)
<1>1. /\ tx.sender \in Accounts /\ tx.recipient \in Accounts /\ tx.amount \in Nat
  BY U64Assumption DEF Transaction
<1>2. d \in Ledgers
  BY <1>1, DebitType
<1> HIDE DEF d
<1>3. [d EXCEPT ![tx.sender] =
            [exists   |-> TRUE,
             balance  |-> @.balance + TotalCost(tx),
             sequence |-> SaturatingSub(@.sequence, 1)]] \in Ledgers
  BY <1>1, <1>2, TotalCostType DEF Ledgers, AccountState, SaturatingSub
<1> QED
  BY <1>3 DEF RevertTx, d

(***************************************************************************)
(* A transaction that apply_tx accepted is undone by revert_tx: every      *)
(* balance and every sequence number is what it was, also when an account  *)
(* pays itself (ledger.rs:241, "undo the effects of apply_tx").            *)
(***************************************************************************)
THEOREM RevertUndoesApply ==
    ASSUME NEW l \in Ledgers, NEW tx \in Transaction, CanApplyTx(l, tx)
    PROVE  Holdings(RevertTx(ApplyTx(l, tx), tx)) = Holdings(l)
<1> DEFINE c == TotalCost(tx)
           m == ApplyTx(l, tx)
           r == RevertTx(m, tx)
<1>1. /\ tx.sender \in Accounts /\ tx.recipient \in Accounts
      /\ tx.amount \in Nat /\ c \in Nat
      /\ l[tx.sender].balance >= c
  BY U64Assumption, TotalCostType DEF Transaction, CanApplyTx
<1> HIDE DEF c
<1>2. ASSUME NEW a \in Accounts
      PROVE  r[a].balance = l[a].balance /\ r[a].sequence = l[a].sequence
  <2>1. l[a] \in AccountState /\ l[tx.sender] \in AccountState /\ l[tx.recipient] \in AccountState
    BY <1>1 DEF Ledgers
  <2> DEFINE d == Debit(m, tx.recipient, tx.amount)
  <2>2. /\ DOMAIN m = Accounts
        /\ m[a].balance = l[a].balance - (IF a = tx.sender THEN c ELSE 0)
                                        + (IF a = tx.recipient THEN tx.amount ELSE 0)
        /\ m[a].sequence = l[a].sequence + (IF a = tx.sender THEN 1 ELSE 0)
    BY <1>1, <2>1 DEF c, ApplyTx, Credit, Ledgers, AccountState
  <2> HIDE DEF m
  <2>3. /\ DOMAIN d = Accounts
        /\ d[a].balance = IF a = tx.recipient THEN SaturatingSub(m[a].balance, tx.amount) ELSE m[a].balance
        /\ d[a].sequence = m[a].sequence
    BY <1>1, <2>2 DEF Debit
  <2>4. /\ r[a].balance = IF a = tx.sender THEN d[a].balance + c ELSE d[a].balance
        /\ r[a].sequence = IF a = tx.sender THEN SaturatingSub(d[a].sequence, 1) ELSE d[a].sequence
    <3> HIDE DEF d
    <3> QED  BY <1>1, <2>3 DEF RevertTx, c, d
  <2>5. l[a].balance \in Nat /\ l[a].sequence \in Nat /\ (a = tx.sender => l[a].balance >= c)
    BY <1>1, <2>1 DEF AccountState
  <2> HIDE DEF d, r
  <2> QED
    BY <1>1, <2>2, <2>3, <2>4, <2>5 DEF SaturatingSub
<1> QED
  BY <1>2 DEF Holdings

(***************************************************************************)
(* revert_coinbase undoes apply_coinbase in the same sense.                *)
(***************************************************************************)
THEOREM RevertUndoesCoinbase ==
    ASSUME NEW l \in Ledgers, NEW a \in Accounts, NEW n \in Nat
    PROVE  Holdings(RevertCoinbase(ApplyCoinbase(l, a, n), a, n)) = Holdings(l)
BY DEF Holdings, RevertCoinbase, ApplyCoinbase, Credit, Debit, SaturatingSub,
       Ledgers, AccountState

-----------------------------------------------------------------------------
(* Induction and recursion over numbers                                    *)

\* Induction, with a set in the place of a predicate.
LEMMA SetInduction ==
    ASSUME NEW S, 0 \in S, \A n \in Nat : n \in S => n + 1 \in S
    PROVE  Nat \subseteq S
  <1> DEFINE T == Nat \ S
             R == OpToRel(<, Nat)
  <1> SUFFICES ASSUME T # {} PROVE FALSE
    OBVIOUS
  <1>1. IsWellFoundedOn(R, Nat)
    BY NatLessThanWellFounded DEF OpToRel
  <1>2. T \subseteq Nat
    OBVIOUS
  <1>3. \A x, y \in Nat : x < y => <<x, y>> \in R
    BY DEF OpToRel
  <1> HIDE DEF T, R
  <1>4. PICK x \in T : \A y \in T : ~(<<y, x>> \in R)
    BY <1>1, <1>2, WFMin
  <1> USE DEF T
  <1>5. x # 0 /\ x - 1 \in Nat /\ x - 1 < x
    OBVIOUS
  <1>6. x - 1 \in T
    <2>1. x - 1 \in S => (x - 1) + 1 \in S
      BY <1>5
    <2> QED  BY <1>5, <2>1
  <1> QED  BY <1>3, <1>4, <1>5, <1>6

\* The same up to a limit.
LEMMA LimitedInduction ==
    ASSUME NEW n \in Nat, NEW S, 0 \in S, \A k \in 1..n : k - 1 \in S => k \in S
    PROVE  \A k \in 0..n : k \in S
  <1> DEFINE T == S \cup {k \in Nat : k > n}
  <1>1. 0 \in T
    OBVIOUS
  <1>2. ASSUME NEW k \in Nat, k \in T PROVE k + 1 \in T
    <2>1. CASE k + 1 \in 1..n
      <3>1. k \in S /\ (k + 1) - 1 = k
        BY <1>2, <2>1
      <3> QED  BY <2>1, <3>1
    <2> QED  BY <2>1
  <1> HIDE DEF T
  <1>3. Nat \subseteq T
    BY <1>1, <1>2, SetInduction
  <1> QED  BY <1>3 DEF T

\* A recursion over 0..n has a solution.
LEMMA Recursion ==
    ASSUME NEW D, NEW d0 \in D, NEW n \in Nat, NEW step \in [1..n -> [D -> D]]
    PROVE  \E f \in [0..n -> D] : f[0] = d0 /\ \A k \in 1..n : f[k] = step[k][f[k - 1]]
  <1> DEFINE Solves(f, m) == f[0] = d0 /\ \A k \in 1..m : f[k] = step[k][f[k - 1]]
             S == {m \in 0..n : \E f \in [0..m -> D] : Solves(f, m)}
  <1>1. 0 \in S
    <2> DEFINE f == [k \in 0..0 |-> d0]
    <2>1. f \in [0..0 -> D] /\ Solves(f, 0)
      OBVIOUS
    <2> HIDE DEF f
    <2> QED  BY <2>1
  <1>2. ASSUME NEW m \in 1..n, m - 1 \in S PROVE m \in S
    <2>1. PICK f \in [0..m - 1 -> D] : Solves(f, m - 1)
      BY <1>2
    <2> DEFINE g == [k \in 0..m |-> IF k = m THEN step[m][f[m - 1]] ELSE f[k]]
    <2>2. f[m - 1] \in D
      OBVIOUS
    <2>3. step[m][f[m - 1]] \in D
      BY <2>2
    <2>4. g \in [0..m -> D]
      BY <2>3
    <2>5. \A k \in 0..m - 1 : g[k] = f[k]
      OBVIOUS
    <2>6. g[m] = step[m][g[m - 1]]
      <3>1. g[m] = step[m][f[m - 1]] /\ m - 1 \in 0..m - 1
        OBVIOUS
      <3>2. g[m - 1] = f[m - 1]
        BY <2>5, <3>1
      <3> HIDE DEF g
      <3> QED  BY <3>1, <3>2
    <2>7. \A k \in 1..m - 1 : g[k] = step[k][g[k - 1]]
      BY <2>1, <2>5
    <2>8. g[0] = d0
      BY <2>1, <2>5
    <2> HIDE DEF g
    <2>9. Solves(g, m)
      BY <2>6, <2>7, <2>8
    <2> QED  BY <2>4, <2>9
  <1>3. n \in S
    <2> HIDE DEF S
    <2>1. \A m \in 1..n : m - 1 \in S => m \in S
      BY <1>2
    <2>2. \A m \in 0..n : m \in S
      BY <1>1, <2>1, LimitedInduction
    <2> QED  BY <2>2
  <1> QED  BY <1>3

\* The same as a set of solutions, which the provers match as it stands.
Solutions(D, d0, n, step) ==
    {f \in [0..n -> D] : f[0] = d0 /\ \A k \in 1..n : f[k] = step[k][f[k - 1]]}

LEMMA Solvable ==
    ASSUME NEW D, NEW d0 \in D, NEW n \in Nat, NEW step \in [1..n -> [D -> D]]
    PROVE  \E f : f \in Solutions(D, d0, n, step)
  BY Recursion DEF Solutions

\* Two solutions of the same recursion are the same.
LEMMA SameRecursion ==
    ASSUME NEW n \in Nat, NEW f, NEW g, f[0] = g[0],
           \A k \in 1..n : f[k - 1] = g[k - 1] => f[k] = g[k]
    PROVE  \A k \in 0..n : f[k] = g[k]
  <1> DEFINE S == {k \in 0..n : f[k] = g[k]}
  <1>1. 0 \in S
    OBVIOUS
  <1>2. \A k \in 1..n : k - 1 \in S => k \in S
    OBVIOUS
  <1>3. \A k \in 0..n : k \in S
    <2> HIDE DEF S
    <2> QED  BY <1>1, <1>2, LimitedInduction
  <1> QED  BY <1>3

\* The same with a name for the condition, which the provers match as it stands.
InStep(f, g, n) == f[0] = g[0] /\ \A k \in 1..n : f[k - 1] = g[k - 1] => f[k] = g[k]

LEMMA InStepAgrees ==
    ASSUME NEW n \in Nat, NEW f, NEW g, InStep(f, g, n)
    PROVE  f[n] = g[n]
  <1>1. \A k \in 0..n : f[k] = g[k]
    BY SameRecursion DEF InStep
  <1> QED  BY <1>1

=============================================================================

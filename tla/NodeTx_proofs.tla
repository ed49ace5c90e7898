---------------------------- MODULE NodeTx_proofs ----------------------------
(***************************************************************************)
(* Theorems about transactions in a node: the types, that a transaction    *)
(* the Tx handler has acknowledged stays in the ledger, and that of two    *)
(* conflicting ones it acknowledges one at most.                           *)
(*                                                                         *)
(* The inductive invariant counts: a transaction is debited at least once  *)
(* for every block of the chain that has it, and once more when the        *)
(* handler has applied it.  A revert takes back the former only.           *)
(***************************************************************************)
EXTENDS NodeTx, Ledger_proofs, FiniteSetTheorems, SequenceTheorems

-----------------------------------------------------------------------------
(* What applying and reverting blocks does                                 *)

Results == [ledger : Ledgers, ok : BOOLEAN, applied : SUBSET Txs]

\* Transactions are transactions of the ledger, and sequences of them have
\* transactions at their indices.
LEMMA TxFields ==
    ASSUME NEW tx \in Txs
    PROVE  /\ tx \in Transaction /\ tx.sender \in Accounts /\ tx.recipient \in Accounts
           /\ tx.sequence \in Nat
  BY TxAssumption DEF Transaction

LEMMA BlockFields ==
    ASSUME NEW block \in Seq(Txs)
    PROVE  /\ Len(block) \in Nat
           /\ \A k \in 1..Len(block) : block[k] \in Txs
           /\ ToSet(block) \subseteq Txs
           /\ ToSet(block) = {block[k] : k \in 1..Len(block)}
  BY DEF ToSet

\* What one round of the loop over a block's transactions does, for apply_tx
\* and for apply_tx_ibd.
StrictNext(r, tx) == ApplyNext(r, tx, CanApplyTx, ApplyTx)
BulkNext(r, tx) == ApplyNext(r, tx, CanApplyTxIbd, ApplyTxIbd)

LEMMA StrictNextType ==
    ASSUME NEW r \in Results, NEW tx \in Txs
    PROVE  /\ StrictNext(r, tx) \in Results
           /\ StrictNext(r, tx).applied \subseteq r.applied \cup {tx}
           /\ r.applied \subseteq StrictNext(r, tx).applied
           /\ StrictNext(r, tx).ok => r.ok /\ tx \in StrictNext(r, tx).applied
  <1>1. r.ledger \in Ledgers /\ r.ok \in BOOLEAN /\ r.applied \subseteq Txs
    BY DEF Results
  <1>2. CASE r.ok /\ CanApplyTx(r.ledger, tx)
    <2>1. ApplyTx(r.ledger, tx) \in Ledgers
      BY <1>1, <1>2, TxFields, ApplyTxType DEF CanApplyTx
    <2>2. StrictNext(r, tx) = [ledger |-> ApplyTx(r.ledger, tx), ok |-> TRUE, applied |-> r.applied \cup {tx}]
      BY <1>2 DEF StrictNext, ApplyNext
    <2> QED  BY <1>1, <1>2, <2>1, <2>2 DEF Results
  <1>3. CASE ~(r.ok /\ CanApplyTx(r.ledger, tx))
    <2>1. StrictNext(r, tx) = [r EXCEPT !.ok = FALSE]
      BY <1>3 DEF StrictNext, ApplyNext
    <2> QED  BY <1>1, <2>1 DEF Results
  <1> QED  BY <1>2, <1>3

LEMMA BulkNextType ==
    ASSUME NEW r \in Results, NEW tx \in Txs
    PROVE  /\ BulkNext(r, tx) \in Results
           /\ BulkNext(r, tx).applied \subseteq r.applied \cup {tx}
           /\ r.applied \subseteq BulkNext(r, tx).applied
           /\ BulkNext(r, tx).ok => r.ok /\ tx \in BulkNext(r, tx).applied
  <1>1. r.ledger \in Ledgers /\ r.ok \in BOOLEAN /\ r.applied \subseteq Txs
    BY DEF Results
  <1>2. CASE r.ok /\ CanApplyTxIbd(r.ledger, tx)
    <2>1. ApplyTxIbd(r.ledger, tx) \in Ledgers
      BY <1>1, <1>2, TxFields, ApplyTxType DEF CanApplyTxIbd
    <2>2. BulkNext(r, tx) = [ledger |-> ApplyTxIbd(r.ledger, tx), ok |-> TRUE, applied |-> r.applied \cup {tx}]
      BY <1>2 DEF BulkNext, ApplyNext
    <2> QED  BY <1>1, <1>2, <2>1, <2>2 DEF Results
  <1>3. CASE ~(r.ok /\ CanApplyTxIbd(r.ledger, tx))
    <2>1. BulkNext(r, tx) = [r EXCEPT !.ok = FALSE]
      BY <1>3 DEF BulkNext, ApplyNext
    <2> QED  BY <1>1, <2>1 DEF Results
  <1> QED  BY <1>2, <1>3

\* No sequence number falls from l to m.
Later(l, m) == \A a \in Accounts : l[a].sequence <= m[a].sequence

LEMMA LaterTransitive ==
    ASSUME NEW l \in Ledgers, NEW m \in Ledgers, NEW n \in Ledgers, Later(l, m), Later(m, n)
    PROVE  Later(l, n)
  <1> SUFFICES ASSUME NEW a \in Accounts PROVE l[a].sequence <= n[a].sequence
    BY DEF Later
  <1>1. l[a].sequence \in Nat /\ m[a].sequence \in Nat /\ n[a].sequence \in Nat
    BY DEF Ledgers, AccountState
  <1>2. l[a].sequence <= m[a].sequence /\ m[a].sequence <= n[a].sequence
    BY DEF Later
  <1> QED  BY <1>1, <1>2

LEMMA ApplyTxLater ==
    ASSUME NEW l \in Ledgers, NEW tx \in Txs
    PROVE  /\ Later(l, ApplyTx(l, tx))
           /\ ApplyTx(l, tx)[tx.sender].sequence = l[tx.sender].sequence + 1
  <1>1. tx.sender \in Accounts /\ tx.recipient \in Accounts
    BY TxFields
  <1>2. ASSUME NEW a \in Accounts
        PROVE  ApplyTx(l, tx)[a].sequence = IF a = tx.sender THEN l[a].sequence + 1 ELSE l[a].sequence
    BY <1>1 DEF ApplyTx, Credit, Ledgers
  <1>3. \A a \in Accounts : l[a].sequence \in Nat
    BY DEF Ledgers, AccountState
  <1>4. Later(l, ApplyTx(l, tx))
    BY <1>2, <1>3 DEF Later
  <1> QED  BY <1>1, <1>2, <1>4

LEMMA StrictNextLater ==
    ASSUME NEW l \in Ledgers, NEW r \in Results, NEW tx \in Txs, Later(l, r.ledger)
    PROVE  Later(l, StrictNext(r, tx).ledger)
  <1>1. r.ledger \in Ledgers
    BY DEF Results
  <1>2. CASE r.ok /\ CanApplyTx(r.ledger, tx)
    <2>1. StrictNext(r, tx).ledger = ApplyTx(r.ledger, tx)
      BY <1>2 DEF StrictNext, ApplyNext
    <2>2. ApplyTx(r.ledger, tx) \in Ledgers
      BY <1>1, <1>2, TxFields, ApplyTxType DEF CanApplyTx
    <2> QED  BY <1>1, <2>1, <2>2, ApplyTxLater, LaterTransitive
  <1>3. CASE ~(r.ok /\ CanApplyTx(r.ledger, tx))
    <2>1. StrictNext(r, tx).ledger = r.ledger
      BY <1>3 DEF StrictNext, ApplyNext, Results
    <2> QED  BY <2>1
  <1> QED  BY <1>2, <1>3

-----------------------------------------------------------------------------
\* A run of the loop over a block, with the result after every transaction.
IsRun(f, l, block, step) ==
    /\ f \in [0..Len(block) -> Results]
    /\ f[0] = Unapplied(l)
    /\ \A k \in 1..Len(block) : f[k] = step[block[k]][f[k - 1]]

\* What a round keeps: it adds its transaction or fails for good.
Careful(step) ==
    /\ step \in [Txs -> [Results -> Results]]
    /\ \A tx \in Txs, r \in Results :
        /\ step[tx][r].applied \subseteq r.applied \cup {tx}
        /\ r.applied \subseteq step[tx][r].applied
        /\ step[tx][r].ok => r.ok /\ tx \in step[tx][r].applied

strictStep == [tx \in Txs |-> [r \in Results |-> StrictNext(r, tx)]]
bulkStep == [tx \in Txs |-> [r \in Results |-> BulkNext(r, tx)]]

LEMMA CarefulSteps == Careful(strictStep) /\ Careful(bulkStep)
  <1>1. Careful(strictStep)
    <2>1. \A tx \in Txs, r \in Results : strictStep[tx][r] = StrictNext(r, tx) /\ StrictNext(r, tx) \in Results
      BY StrictNextType DEF strictStep
    <2>2. strictStep \in [Txs -> [Results -> Results]]
      BY <2>1 DEF strictStep
    <2>3. ASSUME NEW tx \in Txs, NEW r \in Results
          PROVE  /\ strictStep[tx][r].applied \subseteq r.applied \cup {tx}
                 /\ r.applied \subseteq strictStep[tx][r].applied
                 /\ strictStep[tx][r].ok => r.ok /\ tx \in strictStep[tx][r].applied
      BY <2>1, StrictNextType
    <2> QED  BY <2>2, <2>3 DEF Careful
  <1>2. Careful(bulkStep)
    <2>1. \A tx \in Txs, r \in Results : bulkStep[tx][r] = BulkNext(r, tx) /\ BulkNext(r, tx) \in Results
      BY BulkNextType DEF bulkStep
    <2>2. bulkStep \in [Txs -> [Results -> Results]]
      BY <2>1 DEF bulkStep
    <2>3. ASSUME NEW tx \in Txs, NEW r \in Results
          PROVE  /\ bulkStep[tx][r].applied \subseteq r.applied \cup {tx}
                 /\ r.applied \subseteq bulkStep[tx][r].applied
                 /\ bulkStep[tx][r].ok => r.ok /\ tx \in bulkStep[tx][r].applied
      BY <2>1, BulkNextType
    <2> QED  BY <2>2, <2>3 DEF Careful
  <1> QED  BY <1>1, <1>2

\* Every block has a run.
LEMMA RunExists ==
    ASSUME NEW l \in Ledgers, NEW block \in Seq(Txs), NEW step, Careful(step)
    PROVE  \E f : IsRun(f, l, block, step)
  <1>1. PICK n \in Nat : n = Len(block) /\ \A k \in 1..n : block[k] \in Txs
    BY BlockFields
  <1> DEFINE indexed == [k \in 1..n |-> step[block[k]]]
  <1>2. indexed \in [1..n -> [Results -> Results]]
    BY <1>1 DEF Careful
  <1>3. Unapplied(l) \in Results
    BY DEF Unapplied, Results
  <1>4. \A k \in 1..n : indexed[k] = step[block[k]]
    OBVIOUS
  <1> HIDE DEF indexed
  <1>5. PICK f : f \in Solutions(Results, Unapplied(l), n, indexed)
    BY <1>2, <1>3, Solvable
  <1> QED  BY <1>1, <1>4, <1>5 DEF IsRun, Solutions

\* A run applies transactions of the block only, and all of them unless it fails.
LEMMA RunFacts ==
    ASSUME NEW l \in Ledgers, NEW block \in Seq(Txs), NEW step, Careful(step),
           NEW f, IsRun(f, l, block, step)
    PROVE  /\ f[Len(block)] \in Results
           /\ f[Len(block)].applied \subseteq ToSet(block)
           /\ f[Len(block)].ok => f[Len(block)].applied = ToSet(block)
  <1> DEFINE n == Len(block)
             Before(k) == {block[j] : j \in 1..k}
             Good(k) == f[k].applied \subseteq Before(k) /\ (f[k].ok => f[k].applied = Before(k))
             S == {k \in 0..n : Good(k)}
  <1>1. n \in Nat /\ (\A k \in 1..n : block[k] \in Txs) /\ ToSet(block) = Before(n)
    BY BlockFields
  <1>2. \A k \in 0..n : f[k] \in Results
    BY DEF IsRun
  <1>3. 0 \in S
    BY <1>1 DEF IsRun, Unapplied
  <1>4. ASSUME NEW k \in 1..n, k - 1 \in S PROVE k \in S
    <2>1. f[k - 1] \in Results /\ f[k] = step[block[k]][f[k - 1]] /\ block[k] \in Txs
      BY <1>1, <1>2 DEF IsRun
    <2>2. /\ f[k].applied \subseteq f[k - 1].applied \cup {block[k]}
          /\ f[k - 1].applied \subseteq f[k].applied
          /\ f[k].ok => f[k - 1].ok /\ block[k] \in f[k].applied
      BY <2>1 DEF Careful
    <2>3. Before(k) = Before(k - 1) \cup {block[k]}
      BY <1>1
    <2>4. Good(k - 1)
      BY <1>4
    <2>5. k \in 0..n
      BY <1>1
    <2> HIDE DEF Before
    <2>6. Good(k)
      BY <2>2, <2>3, <2>4
    <2> QED  BY <2>5, <2>6
  <1> HIDE DEF S
  <1>5. \A k \in 0..n : k \in S
    BY <1>1, <1>3, <1>4, LimitedInduction
  <1>6. Good(n)
    BY <1>1, <1>5 DEF S
  <1> QED  BY <1>1, <1>2, <1>6

LEMMA StrictIsRun ==
    ASSUME NEW l \in Ledgers, NEW block \in Seq(Txs), NEW f, IsRun(f, l, block, strictStep)
    PROVE  Strict(l, block) = f[Len(block)]
  <1> DEFINE n == Len(block)
             Body(d) == [k \in 0..n |-> IF k = 0 THEN Unapplied(l)
                                        ELSE ApplyNext(d[k - 1], block[k], CanApplyTx, ApplyTx)]
             result == CHOOSE d : d = Body(d)
  <1>1. n \in Nat /\ (\A k \in 1..n : block[k] \in Txs)
    BY BlockFields
  <1>2. Strict(l, block) = result[n]
    BY DEF Strict, ApplyBlock
  <1>3. \A k \in 1..n : f[k] = ApplyNext(f[k - 1], block[k], CanApplyTx, ApplyTx)
    <2> SUFFICES ASSUME NEW k \in 1..n PROVE f[k] = StrictNext(f[k - 1], block[k])
      BY DEF StrictNext
    <2>1. f[k] = strictStep[block[k]][f[k - 1]] /\ f[k - 1] \in Results /\ block[k] \in Txs
      BY <1>1 DEF IsRun
    <2> QED  BY <2>1 DEF strictStep
  <1>4. f = Body(f)
    <2>1. f \in [0..n -> Results] /\ f[0] = Unapplied(l)
      BY DEF IsRun
    <2> QED  BY <1>1, <1>3, <2>1
  <1>5. result = Body(result)
    <2> HIDE DEF Body
    <2> QED  BY <1>4
  <1> HIDE DEF result
  <1>6. result[0] = f[0]
    BY <1>1, <1>4, <1>5
  <1>7. \A k \in 1..n : result[k - 1] = f[k - 1] => result[k] = f[k]
    BY <1>1, <1>4, <1>5
  <1> HIDE DEF Body
  <1>8. result[n] = f[n]
    <2> HIDE DEF n
    <2>1. InStep(result, f, n)
      BY ONLY <1>6, <1>7 DEF InStep
    <2> QED  BY <1>1, <2>1, InStepAgrees
  <1> QED  BY <1>2, <1>8

LEMMA BulkIsRun ==
    ASSUME NEW l \in Ledgers, NEW block \in Seq(Txs), NEW f, IsRun(f, l, block, bulkStep)
    PROVE  Bulk(l, block) = f[Len(block)]
  <1> DEFINE n == Len(block)
             Body(d) == [k \in 0..n |-> IF k = 0 THEN Unapplied(l)
                                        ELSE ApplyNext(d[k - 1], block[k], CanApplyTxIbd, ApplyTxIbd)]
             result == CHOOSE d : d = Body(d)
  <1>1. n \in Nat /\ (\A k \in 1..n : block[k] \in Txs)
    BY BlockFields
  <1>2. Bulk(l, block) = result[n]
    BY DEF Bulk, ApplyBlock
  <1>3. \A k \in 1..n : f[k] = ApplyNext(f[k - 1], block[k], CanApplyTxIbd, ApplyTxIbd)
    <2> SUFFICES ASSUME NEW k \in 1..n PROVE f[k] = BulkNext(f[k - 1], block[k])
      BY DEF BulkNext
    <2>1. f[k] = bulkStep[block[k]][f[k - 1]] /\ f[k - 1] \in Results /\ block[k] \in Txs
      BY <1>1 DEF IsRun
    <2> QED  BY <2>1 DEF bulkStep
  <1>4. f = Body(f)
    <2>1. f \in [0..n -> Results] /\ f[0] = Unapplied(l)
      BY DEF IsRun
    <2> QED  BY <1>1, <1>3, <2>1
  <1>5. result = Body(result)
    <2> HIDE DEF Body
    <2> QED  BY <1>4
  <1> HIDE DEF result
  <1>6. result[0] = f[0]
    BY <1>1, <1>4, <1>5
  <1>7. \A k \in 1..n : result[k - 1] = f[k - 1] => result[k] = f[k]
    BY <1>1, <1>4, <1>5
  <1> HIDE DEF Body
  <1>8. result[n] = f[n]
    <2> HIDE DEF n
    <2>1. InStep(result, f, n)
      BY ONLY <1>6, <1>7 DEF InStep
    <2> QED  BY <1>1, <2>1, InStepAgrees
  <1> QED  BY <1>2, <1>8

\* apply_block: the transactions it applied are the block's, all of them if it
\* succeeds, and no sequence number falls.
LEMMA StrictFacts ==
    ASSUME NEW l \in Ledgers, NEW block \in Seq(Txs)
    PROVE  LET r == Strict(l, block)
           IN  /\ r \in Results
               /\ r.applied \subseteq ToSet(block)
               /\ r.ok => r.applied = ToSet(block)
               /\ Later(l, r.ledger)
  <1> DEFINE n == Len(block)
  <1>1. PICK f : IsRun(f, l, block, strictStep)
    BY CarefulSteps, RunExists
  <1>2. Strict(l, block) = f[n]
    BY <1>1, StrictIsRun
  <1>3. f[n] \in Results /\ f[n].applied \subseteq ToSet(block) /\ (f[n].ok => f[n].applied = ToSet(block))
    BY <1>1, CarefulSteps, RunFacts
  <1>4. Later(l, f[n].ledger)
    <2> DEFINE S == {k \in 0..n : Later(l, f[k].ledger)}
    <2>1. n \in Nat /\ \A k \in 1..n : block[k] \in Txs
      BY BlockFields
    <2>2. 0 \in S
      <3>1. f[0].ledger = l
        BY <1>1 DEF IsRun, Unapplied
      <3>2. \A a \in Accounts : l[a].sequence \in Nat
        BY DEF Ledgers, AccountState
      <3> QED  BY <2>1, <3>1, <3>2 DEF Later
    <2>3. ASSUME NEW k \in 1..n, k - 1 \in S PROVE k \in S
      <3>1. f[k] = strictStep[block[k]][f[k - 1]] /\ f[k - 1] \in Results /\ block[k] \in Txs
        BY <1>1, <2>1 DEF IsRun
      <3>2. f[k] = StrictNext(f[k - 1], block[k])
        BY <3>1 DEF strictStep
      <3>3. Later(l, f[k].ledger)
        BY <2>3, <3>1, <3>2, StrictNextLater
      <3> QED  BY <2>1, <3>3
    <2> HIDE DEF S
    <2>4. \A k \in 0..n : k \in S
      BY <2>1, <2>2, <2>3, LimitedInduction
    <2> QED  BY <2>1, <2>4 DEF S
  <1> QED  BY <1>2, <1>3, <1>4

\* apply_block_ibd, without the last.
LEMMA BulkFacts ==
    ASSUME NEW l \in Ledgers, NEW block \in Seq(Txs)
    PROVE  LET r == Bulk(l, block)
           IN  /\ r \in Results
               /\ r.applied \subseteq ToSet(block)
               /\ r.ok => r.applied = ToSet(block)
  <1>1. PICK f : IsRun(f, l, block, bulkStep)
    BY CarefulSteps, RunExists
  <1>2. Bulk(l, block) = f[Len(block)]
    BY <1>1, BulkIsRun
  <1> QED  BY <1>1, <1>2, CarefulSteps, RunFacts

\* A reverted block leaves a ledger.
LEMMA RevertedType ==
    ASSUME NEW l \in Ledgers, NEW block \in Seq(Txs)
    PROVE  Reverted(l, block) \in Ledgers
  <1>1. PICK n \in Nat : n = Len(block) /\ \A k \in 1..n : block[k] \in Txs
    BY BlockFields
  <1> DEFINE Body(d) == [k \in 0..n |-> IF k = 0 THEN l ELSE RevertTx(d[k - 1], block[n - k + 1])]
             result == CHOOSE d : d = Body(d)
             step == [k \in 1..n |-> [m \in Ledgers |-> RevertTx(m, block[n - k + 1])]]
  <1>2. Reverted(l, block) = result[n]
    BY <1>1 DEF Reverted
  <1>3. \A k \in 1..n : \A m \in Ledgers : RevertTx(m, block[n - k + 1]) \in Ledgers
    <2>1. \A k \in 1..n : block[n - k + 1] \in Transaction
      BY <1>1, TxFields
    <2> QED  BY <2>1, RevertTxType
  <1>4. step \in [1..n -> [Ledgers -> Ledgers]]
    BY <1>3
  <1>5. \A k \in 1..n : \A m \in Ledgers : step[k][m] = RevertTx(m, block[n - k + 1])
    OBVIOUS
  <1> HIDE DEF step
  <1>6. PICK f : f \in Solutions(Ledgers, l, n, step)
    BY <1>4, Solvable
  <1>7. \A k \in 1..n : f[k] = RevertTx(f[k - 1], block[n - k + 1])
    <2>1. \A k \in 1..n : f[k - 1] \in Ledgers
      BY <1>1, <1>6 DEF Solutions
    <2> QED  BY <1>5, <1>6, <2>1 DEF Solutions
  <1>8. f = Body(f)
    BY <1>1, <1>6, <1>7 DEF Solutions
  <1>9. result = Body(result)
    <2> HIDE DEF Body
    <2> QED  BY <1>8
  <1> HIDE DEF result
  <1>10. result[0] = f[0]
    <2>1. 0 \in 0..n
      BY <1>1
    <2> QED  BY <1>6, <1>9, <2>1 DEF Solutions
  <1>11. \A k \in 1..n : result[k - 1] = f[k - 1] => result[k] = f[k]
    <2> SUFFICES ASSUME NEW k \in 1..n PROVE result[k] = RevertTx(result[k - 1], block[n - k + 1])
      BY <1>7
    <2>1. k \in 0..n /\ k # 0
      OBVIOUS
    <2> QED  BY <1>9, <2>1
  <1> HIDE DEF Body
  <1>12. result[n] = f[n]
    <2>1. InStep(result, f, n)
      BY ONLY <1>10, <1>11 DEF InStep
    <2> QED  BY <2>1, InStepAgrees
  <1> QED  BY <1>1, <1>2, <1>6, <1>12 DEF Solutions

-----------------------------------------------------------------------------
(* The invariant                                                           *)

\* How many blocks of the chain have tx.
Carriers(c, tx) == {i \in 1..Len(c) : tx \in ToSet(c[i])}
Mined(c, tx) == Cardinality(Carriers(c, tx))

\* The Tx handler has applied tx and sends the ACK, or has sent it.
Promised(tx) == tx \in acked \/ \E p \in Peers : task[p].pc = "ack" /\ task[p].tx = tx

Once(b) == IF b THEN 1 ELSE 0

\* What a task, a client and a template can be.
Tasks == {Idle} \cup [pc : {"validate", "insert"}, tx : Txs \cup Forged]
                \cup [pc : {"apply", "ack"}, tx : Txs]
Requests == {Idle} \cup [pc : {"submit", "insert"}, tx : Txs]
Templates == {NoTemplate} \cup [pc : {"mining"}, parent : Seq(Seq(Txs)), block : Seq(Txs)]

TypeInv ==
    /\ ledger \in Ledgers
    /\ chain \in Seq(Seq(Txs)) /\ Len(chain) <= MaxHeight
    /\ mempool \subseteq Txs /\ IsFiniteSet(mempool)
    /\ acked \subseteq Txs
    /\ seen \subseteq {Key(tx) : tx \in Txs}
    /\ holder \in Peers \cup {NoTask}
    /\ task \in [Peers -> Tasks]
    /\ client \in [Clients -> Requests]
    /\ template \in Templates
    /\ template # NoTemplate => Len(template.parent) < MaxHeight
    /\ purge \in [Sources -> SUBSET Txs]
    /\ debits \in [Txs -> Int]
    /\ loose \in BOOLEAN

\* A transaction is debited once for every block that has it, and once more
\* when the handler has applied it.
DebitsCount == \A tx \in Txs : debits[tx] >= Mined(chain, tx) + Once(Promised(tx))

\* As long as no sequence number has fallen the promised ones are used up, and
\* differ.
PromisesStand ==
    ~loose => /\ \A tx \in Txs : Promised(tx) => tx.sequence <= ledger[tx.sender].sequence
              /\ \A t, u \in Txs : Promised(t) /\ Promised(u) /\ Key(t) = Key(u) => t = u

Inv == TypeInv /\ DebitsCount /\ PromisesStand

\* A block more is a carrier more of its transactions.
LEMMA MinedAppend ==
    ASSUME NEW c \in Seq(Seq(Txs)), NEW b \in Seq(Txs), NEW tx
    PROVE  /\ Mined(c, tx) \in Nat
           /\ Mined(Append(c, b), tx) = Mined(c, tx) + Once(tx \in ToSet(b))
  <1> DEFINE n == Len(c)
  <1>1. n \in Nat /\ IsFiniteSet(1..n)
    BY FS_Interval
  <1>2. IsFiniteSet(Carriers(c, tx))
    <2>1. Carriers(c, tx) \subseteq 1..n
      BY DEF Carriers
    <2> QED  BY <1>1, <2>1, FS_Subset
  <1>3. Mined(c, tx) \in Nat
    BY <1>2, FS_CardinalityType DEF Mined
  <1>4. Len(Append(c, b)) = n + 1 /\ Append(c, b)[n + 1] = b /\ \A i \in 1..n : Append(c, b)[i] = c[i]
    OBVIOUS
  <1>5. CASE tx \in ToSet(b)
    <2>1. Carriers(Append(c, b), tx) = Carriers(c, tx) \cup {n + 1}
      BY <1>1, <1>4, <1>5 DEF Carriers
    <2>2. n + 1 \notin Carriers(c, tx)
      BY <1>1 DEF Carriers
    <2>3. Cardinality(Carriers(c, tx) \cup {n + 1}) = Cardinality(Carriers(c, tx)) + 1
      BY <1>2, <2>2, FS_AddElement
    <2> QED  BY <1>3, <1>5, <2>1, <2>3 DEF Mined, Once
  <1>6. CASE tx \notin ToSet(b)
    <2>1. Carriers(Append(c, b), tx) = Carriers(c, tx)
      BY <1>1, <1>4, <1>6 DEF Carriers
    <2> QED  BY <1>3, <1>6, <2>1 DEF Mined, Once
  <1> QED  BY <1>5, <1>6, <1>3

\* A chain that is not empty is the blocks below its tip and the tip.
LEMMA TipOnTop ==
    ASSUME NEW S, NEW c \in Seq(S), c # <<>>
    PROVE  /\ Front(c) \in Seq(S) /\ Last(c) \in S
           /\ Len(Front(c)) = Len(c) - 1
           /\ c = Append(Front(c), Last(c))
  <1>1. Len(c) \in Nat /\ Len(c) > 0 /\ \A i \in 1..Len(c) : c[i] \in S
    BY EmptySeq
  <1>2. Last(c) \in S
    BY <1>1 DEF Last
  <1>3. /\ Front(c) \in Seq(S) /\ Len(Front(c)) = Len(c) - 1
        /\ \A i \in 1..Len(c) - 1 : Front(c)[i] = c[i]
    <2>1. PICK n \in Nat : n = Len(c) - 1
      BY <1>1
    <2>2. 1 \in Int /\ n \in Int /\ \A i \in 1..n : c[i] \in S
      BY <1>1, <2>1
    <2>3. /\ SubSeq(c, 1, n) \in Seq(S)
          /\ Len(SubSeq(c, 1, n)) = IF 1 <= n THEN n - 1 + 1 ELSE 0
          /\ \A i \in 1..n - 1 + 1 : SubSeq(c, 1, n)[i] = c[1 + i - 1]
      BY ONLY <2>2, SubSeqProperties
    <2>4. n - 1 + 1 = n /\ \A i \in 1..n : 1 + i - 1 = i
      OBVIOUS
    <2>5. Front(c) = SubSeq(c, 1, n)
      BY <2>1 DEF Front
    <2>6. Len(SubSeq(c, 1, n)) = n
      BY <2>3
    <2>7. \A i \in 1..n : SubSeq(c, 1, n)[i] = c[i]
      BY <2>3, <2>4
    <2> QED  BY <2>1, <2>3, <2>5, <2>6, <2>7
  <1>4. c = Append(Front(c), Last(c))
    <2> DEFINE d == Append(Front(c), Last(c))
    <2>1. d \in Seq(S) /\ Len(d) = Len(c)
      BY <1>1, <1>2, <1>3
    <2>2. \A i \in 1..Len(c) : d[i] = c[i]
      BY <1>1, <1>3 DEF Last
    <2> HIDE DEF d
    <2>3. d = c
      BY <2>1, <2>2, SeqEqual
    <2> QED  BY <2>3 DEF d
  <1> QED  BY <1>2, <1>3, <1>4

\* The blocks of Next are sequences of transactions.
LEMMA MinerBlocksType ==
    ASSUME NEW c, NEW block \in MinerBlocks(c)
    PROVE  block \in Seq(Txs)
  <1>1. PICK n \in 0..MaxBlockTxs : block \in [1..n -> Txs]
    BY DEF MinerBlocks
  <1>2. n \in Nat
    BY TxAssumption
  <1> QED  BY <1>1, <1>2

LEMMA TemplateBlocksType ==
    ASSUME mempool \subseteq Txs, IsFiniteSet(mempool), NEW block \in SetToSeqs(mempool)
    PROVE  block \in Seq(Txs)
  <1>1. Cardinality(mempool) \in Nat
    BY FS_CardinalityType
  <1>2. block \in [1..Cardinality(mempool) -> mempool]
    BY DEF SetToSeqs
  <1> QED  BY <1>1, <1>2

\* What is debited and given back.
LEMMA DebitedValue ==
    ASSUME NEW ds \in [Txs -> Int], NEW txs
    PROVE  /\ Debited(ds, txs) \in [Txs -> Int]
           /\ Refunded(ds, txs) \in [Txs -> Int]
           /\ \A tx \in Txs : /\ Debited(ds, txs)[tx] = ds[tx] + Once(tx \in txs)
                              /\ Refunded(ds, txs)[tx] = ds[tx] - Once(tx \in txs)
  BY DEF Debited, Refunded, Once

-----------------------------------------------------------------------------
(* What all steps but the handler's application have in common             *)

\* No transaction is promised that was not.
NoNewPromise == \A tx \in Txs : Promised(tx)' => Promised(tx)

LEMMA KeepPromises ==
    ASSUME TypeInv, TypeInv', PromisesStand, NoNewPromise,
           loose' \/ (loose' = loose /\ Later(ledger, ledger'))
    PROVE  PromisesStand'
  <1> SUFFICES ASSUME ~loose'
               PROVE  /\ \A tx \in Txs : Promised(tx)' => tx.sequence <= ledger'[tx.sender].sequence
                      /\ \A t, u \in Txs : Promised(t)' /\ Promised(u)' /\ Key(t) = Key(u) => t = u
    BY DEF PromisesStand, Key
  <1>1. ~loose /\ Later(ledger, ledger')
    OBVIOUS
  <1>2. ASSUME NEW tx \in Txs, Promised(tx)' PROVE tx.sequence <= ledger'[tx.sender].sequence
    <2>1. tx.sequence <= ledger[tx.sender].sequence
      BY <1>1, <1>2 DEF PromisesStand, NoNewPromise
    <2>2. tx.sender \in Accounts /\ tx.sequence \in Nat
      BY TxFields
    <2>3. ledger[tx.sender].sequence \in Nat /\ ledger'[tx.sender].sequence \in Nat
      BY <2>2 DEF TypeInv, Ledgers, AccountState
    <2>4. ledger[tx.sender].sequence <= ledger'[tx.sender].sequence
      BY <1>1, <2>2 DEF Later
    <2> QED  BY <2>1, <2>2, <2>3, <2>4
  <1>3. \A t, u \in Txs : Promised(t)' /\ Promised(u)' /\ Key(t) = Key(u) => t = u
    BY <1>1 DEF PromisesStand, NoNewPromise
  <1> QED  BY <1>2, <1>3

\* A step keeps the count if it debits what it adds to the chain.
LEMMA KeepCount ==
    ASSUME TypeInv, TypeInv', DebitsCount, NoNewPromise,
           \A tx \in Txs : debits'[tx] - Mined(chain', tx) >= debits[tx] - Mined(chain, tx)
    PROVE  DebitsCount'
  <1> SUFFICES ASSUME NEW tx \in Txs
               PROVE  debits'[tx] >= Mined(chain', tx) + Once(Promised(tx)')
    BY DEF DebitsCount, Once, Mined, Carriers
  <1>1. debits[tx] \in Int /\ debits'[tx] \in Int
    BY DEF TypeInv
  <1>2. Mined(chain, tx) \in Nat /\ Mined(chain', tx) \in Nat
    <2>1. <<>> \in Seq(Txs) /\ chain \in Seq(Seq(Txs)) /\ chain' \in Seq(Seq(Txs))
      BY DEF TypeInv
    <2> QED  BY <2>1, MinedAppend
  <1>3. debits[tx] >= Mined(chain, tx) + Once(Promised(tx))
    BY DEF DebitsCount
  <1>4. Once(Promised(tx)') <= Once(Promised(tx)) /\ Once(Promised(tx)') \in Nat /\ Once(Promised(tx)) \in Nat
    BY DEF NoNewPromise, Once
  <1>5. debits'[tx] - Mined(chain', tx) >= debits[tx] - Mined(chain, tx)
    OBVIOUS
  <1> HIDE DEF Once
  <1> QED  BY <1>1, <1>2, <1>3, <1>4, <1>5

\* Steps that leave the stores alone.
LEMMA KeepStores ==
    ASSUME Inv, TypeInv', NoNewPromise, UNCHANGED stores
    PROVE  Inv'
  <1>1. ledger' = ledger /\ chain' = chain /\ debits' = debits /\ loose' = loose
    BY DEF stores
  <1>2. Later(ledger, ledger')
    BY <1>1 DEF Later, Inv, TypeInv, Ledgers, AccountState
  <1>3. PromisesStand'
    BY <1>1, <1>2, KeepPromises DEF Inv
  <1>4. ASSUME NEW tx \in Txs PROVE debits'[tx] - Mined(chain', tx) >= debits[tx] - Mined(chain, tx)
    <2>1. debits[tx] \in Int
      BY DEF Inv, TypeInv
    <2>2. <<>> \in Seq(Txs) /\ chain \in Seq(Seq(Txs))
      BY DEF Inv, TypeInv
    <2>3. Mined(chain, tx) \in Nat
      BY <2>2, MinedAppend
    <2> QED  BY <1>1, <2>1, <2>3
  <1>5. DebitsCount'
    BY <1>4, KeepCount DEF Inv
  <1> QED  BY <1>3, <1>5 DEF Inv

\* Steps that leave the tasks and the ACKs alone promise nothing.
LEMMA SamePromises ==
    ASSUME task' = task, acked' = acked
    PROVE  NoNewPromise
  BY DEF NoNewPromise, Promised

\* What a task holds where it is, and what it can be made of.
LEMMA TaskForms ==
    ASSUME NEW t \in Tasks
    PROVE  /\ t.pc \in {"idle", "validate", "insert", "apply", "ack"}
           /\ t.pc \in {"validate", "insert"} => t \in [pc : {"validate", "insert"}, tx : Txs \cup Forged]
           /\ t.pc \in {"apply", "ack"} => t \in [pc : {"apply", "ack"}, tx : Txs]
  BY DEF Tasks, Idle

LEMMA RequestForms ==
    ASSUME NEW q \in Requests
    PROVE  /\ q.pc \in {"idle", "submit", "insert"}
           /\ q.pc # "idle" => q \in [pc : {"submit", "insert"}, tx : Txs]
  BY DEF Requests, Idle

\* A task that is not made to send an ACK promises nothing.
LEMMA TaskPromises ==
    ASSUME TypeInv, NEW p \in Peers, NEW t, task' = [task EXCEPT ![p] = t], acked' = acked,
           t.pc # "ack"
    PROVE  NoNewPromise
  <1> SUFFICES ASSUME NEW tx \in Txs, Promised(tx)' PROVE Promised(tx)
    BY DEF NoNewPromise
  <1>1. task \in [Peers -> Tasks]
    BY DEF TypeInv
  <1>2. CASE tx \in acked
    BY <1>2 DEF Promised
  <1>3. CASE tx \notin acked
    <2>1. PICK q \in Peers : task'[q].pc = "ack" /\ task'[q].tx = tx
      BY <1>3 DEF Promised
    <2>2. q # p
      BY <1>1, <2>1
    <2>3. task'[q] = task[q]
      BY <1>1, <2>2
    <2> QED  BY <2>1, <2>3 DEF Promised
  <1> QED  BY <1>2, <1>3

\* Steps of a task that only move it on.
LEMMA MovesTask ==
    ASSUME Inv, NEW p \in Peers, NEW t \in Tasks, t.pc # "ack", task' = [task EXCEPT ![p] = t],
           UNCHANGED <<stores, client, template, purge, acked>>,
           mempool' \subseteq Txs /\ IsFiniteSet(mempool'),
           seen' \subseteq {Key(tx) : tx \in Txs},
           holder' \in Peers \cup {NoTask}
    PROVE  Inv'
  <1>1. TypeInv
    BY DEF Inv
  <1>2. task' \in [Peers -> Tasks]
    BY <1>1 DEF TypeInv
  <1>3. TypeInv'
    BY <1>1, <1>2 DEF TypeInv, stores, Key
  <1>4. NoNewPromise
    BY <1>1, TaskPromises
  <1> QED  BY <1>3, <1>4, KeepStores

LEMMA OnTxInv ==
    ASSUME Inv, NEW p \in Peers, NEW tx \in Txs \cup Forged, OnTx(p, tx)
    PROVE  Inv'
  <1> DEFINE t == IF Key(tx) \in seen THEN Idle ELSE [pc |-> "validate", tx |-> tx]
  <1>1. t \in Tasks /\ t.pc # "ack"
    BY DEF Tasks, Idle
  <1>2. task' = [task EXCEPT ![p] = t] /\ UNCHANGED <<stores, mempool, seen, holder, client, template, purge, acked>>
    BY DEF OnTx
  <1> HIDE DEF t
  <1> QED  BY <1>1, <1>2, MovesTask DEF Inv, TypeInv

LEMMA ValidateTxInv ==
    ASSUME Inv, NEW p \in Peers, ValidateTx(p)
    PROVE  Inv'
  <1> DEFINE t == IF CanApplyTx(ledger, task[p].tx) THEN [task[p] EXCEPT !.pc = "insert"] ELSE Idle
  <1>1. task \in [Peers -> Tasks] /\ task[p].pc = "validate"
    BY DEF Inv, TypeInv, ValidateTx
  <1>2. task[p] \in [pc : {"validate", "insert"}, tx : Txs \cup Forged]
    BY <1>1, TaskForms
  <1>3. t \in Tasks /\ t.pc # "ack"
    BY <1>2 DEF Tasks, Idle
  <1>4. task' = [task EXCEPT ![p] = t] /\ UNCHANGED <<stores, mempool, seen, holder, client, template, purge, acked>>
    BY <1>1 DEF ValidateTx
  <1> HIDE DEF t
  <1> QED  BY <1>3, <1>4, MovesTask DEF Inv, TypeInv

LEMMA InsertTxInv ==
    ASSUME Inv, NEW p \in Peers, InsertTx(p)
    PROVE  Inv'
  <1> DEFINE tx == task[p].tx
  <1>1. task \in [Peers -> Tasks] /\ task[p].pc = "insert"
    BY DEF Inv, TypeInv, InsertTx
  <1>2. task[p] \in [pc : {"validate", "insert"}, tx : Txs \cup Forged]
    BY <1>1, TaskForms
  <1>3. UNCHANGED <<stores, client, template, purge, acked>>
    BY DEF InsertTx
  <1>4. CASE Insertable(tx)
    <2> DEFINE t == [task[p] EXCEPT !.pc = "apply"]
    <2>1. /\ tx \in Txs /\ mempool' = mempool \cup {tx} /\ seen' = seen \cup {Key(tx)}
          /\ holder' = p /\ task' = [task EXCEPT ![p].pc = "apply"]
      BY <1>4 DEF InsertTx, Insertable
    <2>2. task' = [task EXCEPT ![p] = t]
      BY <1>1, <2>1
    <2>3. t \in Tasks /\ t.pc # "ack"
      <3>1. t = [pc |-> "apply", tx |-> tx]
        BY <1>2
      <3>2. t \in [pc : {"apply", "ack"}, tx : Txs]
        BY <2>1, <3>1
      <3> QED  BY <3>1, <3>2 DEF Tasks
    <2>4. mempool' \subseteq Txs /\ IsFiniteSet(mempool')
      BY <2>1, FS_AddElement DEF Inv, TypeInv
    <2>5. seen' \subseteq {Key(u) : u \in Txs}
      BY <2>1 DEF Inv, TypeInv
    <2> HIDE DEF t
    <2> QED  BY <1>3, <2>1, <2>2, <2>3, <2>4, <2>5, MovesTask
  <1>5. CASE ~Insertable(tx)
    <2>1. task' = [task EXCEPT ![p] = Idle] /\ UNCHANGED <<mempool, seen, holder>>
      BY <1>5 DEF InsertTx
    <2>2. Idle \in Tasks /\ Idle.pc # "ack"
      BY DEF Idle, Tasks
    <2> QED  BY <1>3, <2>1, <2>2, MovesTask DEF Inv, TypeInv
  <1> QED  BY <1>4, <1>5

LEMMA AckTxInv ==
    ASSUME Inv, NEW p \in Peers, AckTx(p)
    PROVE  Inv'
  <1> DEFINE tx == task[p].tx
  <1>1. task \in [Peers -> Tasks] /\ task[p].pc = "ack"
    BY DEF Inv, TypeInv, AckTx
  <1>2. tx \in Txs
    BY <1>1, TaskForms
  <1>3. /\ acked' = acked \cup {tx} /\ holder' = NoTask /\ task' = [task EXCEPT ![p] = Idle]
        /\ UNCHANGED <<stores, mempool, seen, client, template, purge, events>>
    BY DEF AckTx
  <1>4. Idle \in Tasks /\ Idle.pc # "ack"
    BY DEF Idle, Tasks
  <1>5. TypeInv'
    BY <1>1, <1>2, <1>3, <1>4 DEF Inv, TypeInv, stores, Key
  <1>6. NoNewPromise
    <2> SUFFICES ASSUME NEW u \in Txs, Promised(u)' PROVE Promised(u)
      BY DEF NoNewPromise
    <2>1. CASE u \in acked'
      BY <1>1, <1>3, <2>1 DEF Promised
    <2>2. CASE u \notin acked'
      <3>1. PICK q \in Peers : task'[q].pc = "ack" /\ task'[q].tx = u
        BY <2>2 DEF Promised
      <3>2. q # p
        BY <1>1, <1>3, <1>4, <3>1
      <3>3. task'[q] = task[q]
        BY <1>1, <1>3, <3>2
      <3> QED  BY <3>1, <3>3 DEF Promised
    <2> QED  BY <2>1, <2>2
  <1> QED  BY <1>3, <1>5, <1>6, KeepStores

\* The handler's application is the only step that makes a promise, and debits
\* the transaction in the same step.
LEMMA ApplyGossipedInv ==
    ASSUME Inv, NEW p \in Peers, ApplyGossiped(p)
    PROVE  Inv'
  <1> DEFINE tx == task[p].tx
  <1>1. task \in [Peers -> Tasks] /\ task[p].pc = "apply"
    BY DEF Inv, TypeInv, ApplyGossiped
  <1>2. task[p] \in [pc : {"apply", "ack"}, tx : Txs] /\ tx \in Txs
    BY <1>1, TaskForms
  <1>3. UNCHANGED <<chain, loose, mempool, seen, client, template, purge, acked, events>>
    BY DEF ApplyGossiped
  <1>4. CASE ~StillApplies(tx)
    <2>1. task' = [task EXCEPT ![p] = Idle] /\ holder' = NoTask /\ UNCHANGED <<ledger, debits>>
      BY <1>4 DEF ApplyGossiped
    <2>2. Idle \in Tasks /\ Idle.pc # "ack"
      BY DEF Idle, Tasks
    <2> QED  BY <1>3, <2>1, <2>2, MovesTask DEF Inv, TypeInv, stores
  <1>5. CASE StillApplies(tx)
    <2> DEFINE t == [task[p] EXCEPT !.pc = "ack"]
    <2>1. /\ ledger' = ApplyTx(ledger, tx) /\ debits' = Debited(debits, {tx})
          /\ task' = [task EXCEPT ![p].pc = "ack"] /\ holder' = holder
      BY <1>5 DEF ApplyGossiped
    <2>2. ledger \in Ledgers /\ debits \in [Txs -> Int] /\ chain \in Seq(Seq(Txs))
      BY DEF Inv, TypeInv
    <2>3. CanApplyTx(ledger, tx) /\ tx \in Transaction
      BY <1>2, <1>5, TxFields DEF StillApplies
    <2>4. ledger' \in Ledgers
      BY <2>1, <2>2, <2>3, ApplyTxType DEF CanApplyTx
    <2>5. t \in Tasks /\ task' = [task EXCEPT ![p] = t]
      <3>1. t \in [pc : {"apply", "ack"}, tx : Txs]
        BY <1>2
      <3>2. task' = [task EXCEPT ![p] = t]
        BY <1>1, <2>1
      <3> HIDE DEF t
      <3> QED  BY <3>1, <3>2 DEF Tasks
    <2>6. t.pc = "ack" /\ t.tx = tx
      BY <1>2
    <2> HIDE DEF t, tx
    <2>7. task' \in [Peers -> Tasks]
      BY <1>1, <2>5
    <2>8. debits' \in [Txs -> Int] /\ \A u \in Txs : debits'[u] = debits[u] + Once(u \in {tx})
      BY <2>1, <2>2, DebitedValue
    <2>9. TypeInv'
      BY <1>3, <2>1, <2>4, <2>7, <2>8 DEF Inv, TypeInv, Key
    <2>10. ASSUME NEW u \in Txs, u # tx, Promised(u)' PROVE Promised(u)
      <3>1. CASE u \in acked
        BY <3>1 DEF Promised
      <3>2. CASE u \notin acked
        <4>1. PICK q \in Peers : task'[q].pc = "ack" /\ task'[q].tx = u
          BY <1>3, <2>10, <3>2 DEF Promised
        <4>2. q # p
          BY <1>1, <2>5, <2>6, <2>10, <4>1
        <4>3. task'[q] = task[q]
          BY <1>1, <2>5, <4>2
        <4> QED  BY <4>1, <4>3 DEF Promised
      <3> QED  BY <3>1, <3>2
    <2>11. DebitsCount'
      <3> SUFFICES ASSUME NEW u \in Txs
                   PROVE  debits'[u] >= Mined(chain', u) + Once(Promised(u)')
        BY DEF DebitsCount, Once, Mined, Carriers
      <3>1. debits[u] \in Int /\ debits[u] >= Mined(chain, u) + Once(Promised(u))
        BY <2>2 DEF Inv, DebitsCount
      <3>2. Mined(chain, u) \in Nat /\ Mined(chain', u) = Mined(chain, u)
        <4>1. <<>> \in Seq(Txs)
          OBVIOUS
        <4> QED  BY <1>3, <2>2, <4>1, MinedAppend
      <3>3. CASE u = tx
        <4>1. debits'[u] = debits[u] + 1
          BY <2>8, <3>3 DEF Once
        <4>2. Once(Promised(u)) \in Nat /\ Once(Promised(u)') \in {0, 1}
          BY DEF Once
        <4> QED  BY <3>1, <3>2, <4>1, <4>2
      <3>4. CASE u # tx
        <4>1. debits'[u] = debits[u]
          BY <2>8, <3>1, <3>4 DEF Once
        <4>2. /\ Once(Promised(u)) \in Nat /\ Once(Promised(u)') \in Nat
              /\ Once(Promised(u)') <= Once(Promised(u))
          BY <2>10, <3>4 DEF Once
        <4> QED  BY <3>1, <3>2, <4>1, <4>2
      <3> QED  BY <3>3, <3>4
    <2>12. PromisesStand'
      <3> SUFFICES ASSUME ~loose
                   PROVE  /\ \A u \in Txs : Promised(u)' => u.sequence <= ledger'[u.sender].sequence
                          /\ \A u, v \in Txs : Promised(u)' /\ Promised(v)' /\ Key(u) = Key(v) => u = v
        BY <1>3 DEF PromisesStand, Key
      <3>1. \A u \in Txs : Promised(u) => u.sequence <= ledger[u.sender].sequence
        BY DEF Inv, PromisesStand
      <3>2. Later(ledger, ledger') /\ ledger'[tx.sender].sequence = ledger[tx.sender].sequence + 1
        BY <1>2, <2>1, <2>2, ApplyTxLater
      <3>3. tx.sequence = ledger[tx.sender].sequence + 1
        BY <2>3 DEF CanApplyTx
      <3>4. \A u \in Txs : u.sequence \in Nat /\ u.sender \in Accounts
        BY TxFields
      <3>5. \A a \in Accounts : ledger[a].sequence \in Nat /\ ledger'[a].sequence \in Nat
        BY <2>2, <2>4 DEF Ledgers, AccountState
      <3>6. ASSUME NEW u \in Txs, Promised(u)' PROVE u.sequence <= ledger'[u.sender].sequence
        <4>1. CASE u = tx
          BY <3>2, <3>3, <3>4, <3>5, <4>1
        <4>2. CASE u # tx
          <5>1. u.sequence <= ledger[u.sender].sequence
            BY <2>10, <3>1, <3>6, <4>2
          <5>2. ledger[u.sender].sequence <= ledger'[u.sender].sequence
            BY <3>2, <3>4 DEF Later
          <5> QED  BY <3>4, <3>5, <5>1, <5>2
        <4> QED  BY <4>1, <4>2
      <3>7. ASSUME NEW u \in Txs, u # tx, Promised(u)' PROVE Key(u) # Key(tx)
        <4>1. u.sequence <= ledger[u.sender].sequence
          BY <2>10, <3>1, <3>7
        <4>2. SUFFICES ASSUME u.sender = tx.sender, u.sequence = tx.sequence PROVE FALSE
          BY DEF Key
        <4>3. ledger[tx.sender].sequence \in Nat
          BY <1>2, <3>4, <3>5
        <4> QED  BY <3>3, <4>1, <4>2, <4>3
      <3>8. ASSUME NEW u \in Txs, NEW v \in Txs, Promised(u)', Promised(v)', Key(u) = Key(v) PROVE u = v
        <4>1. CASE u = tx \/ v = tx
          BY <3>7, <3>8, <4>1
        <4>2. CASE u # tx /\ v # tx
          BY <2>10, <3>8, <4>2 DEF Inv, PromisesStand
        <4> QED  BY <4>1, <4>2
      <3> QED  BY <3>6, <3>8
    <2> QED  BY <2>9, <2>11, <2>12 DEF Inv
  <1> QED  BY <1>4, <1>5

\* The clients' steps, which touch the mempool only.
LEMMA BuildTxInv ==
    ASSUME Inv, NEW c \in Clients, NEW tx \in Txs, BuildTx(c, tx)
    PROVE  Inv'
  <1>1. /\ client' = [client EXCEPT ![c] = [pc |-> "submit", tx |-> tx]]
        /\ UNCHANGED <<stores, mempool, seen, holder, task, template, purge, acked>>
    BY DEF BuildTx
  <1>2. [pc |-> "submit", tx |-> tx] \in Requests
    BY DEF Requests
  <1>3. TypeInv'
    BY <1>1, <1>2 DEF Inv, TypeInv, stores, Key
  <1> QED  BY <1>1, <1>3, SamePromises, KeepStores

LEMMA SubmitTxInv ==
    ASSUME Inv, NEW c \in Clients, SubmitTx(c)
    PROVE  Inv'
  <1>1. PICK valid : /\ client' = [client EXCEPT ![c] = IF valid THEN [@ EXCEPT !.pc = "insert"] ELSE Idle]
                     /\ UNCHANGED <<stores, mempool, seen, holder, task, template, purge, acked>>
                     /\ client[c].pc = "submit"
    BY DEF SubmitTx
  <1>2. client \in [Clients -> Requests]
    BY DEF Inv, TypeInv
  <1>3. client[c] \in [pc : {"submit", "insert"}, tx : Txs]
    BY <1>1, <1>2, RequestForms
  <1>4. [client[c] EXCEPT !.pc = "insert"] \in Requests /\ Idle \in Requests
    BY <1>3 DEF Requests
  <1>5. client' \in [Clients -> Requests]
    BY <1>1, <1>2, <1>4
  <1>6. TypeInv'
    BY <1>1, <1>5 DEF Inv, TypeInv, stores, Key
  <1> QED  BY <1>1, <1>6, SamePromises, KeepStores

LEMMA InsertSubmittedInv ==
    ASSUME Inv, NEW c \in Clients, InsertSubmitted(c)
    PROVE  Inv'
  <1> DEFINE tx == client[c].tx
  <1>1. /\ client[c].pc = "insert"
        /\ mempool' = IF Insertable(tx) THEN mempool \cup {tx} ELSE mempool
        /\ client' = [client EXCEPT ![c] = Idle]
        /\ UNCHANGED <<stores, seen, holder, task, template, purge, acked>>
    BY DEF InsertSubmitted
  <1>2. client' \in [Clients -> Requests]
    BY <1>1 DEF Inv, TypeInv, Requests
  <1>3. mempool' \subseteq Txs /\ IsFiniteSet(mempool')
    BY <1>1, FS_AddElement DEF Inv, TypeInv, Insertable
  <1>4. TypeInv'
    BY <1>1, <1>2, <1>3 DEF Inv, TypeInv, stores, Key
  <1> QED  BY <1>1, <1>4, SamePromises, KeepStores

-----------------------------------------------------------------------------
(* Blocks                                                                  *)

\* A result that is stored: what it debits and what it adds to the chain.
LEMMA ResultStored ==
    ASSUME NEW c \in Seq(Seq(Txs)), Len(c) < MaxHeight, NEW block \in Seq(Txs), NEW r \in Results,
           r.ok => r.applied = ToSet(block), NEW ds \in [Txs -> Int]
    PROVE  LET cc == IF r.ok THEN Append(c, block) ELSE c
           IN  /\ cc \in Seq(Seq(Txs)) /\ Len(cc) <= MaxHeight
               /\ Debited(ds, r.applied) \in [Txs -> Int]
               /\ \A tx \in Txs : Debited(ds, r.applied)[tx] - Mined(cc, tx) >= ds[tx] - Mined(c, tx)
  <1> DEFINE cc == IF r.ok THEN Append(c, block) ELSE c
  <1>1. cc \in Seq(Seq(Txs)) /\ Len(cc) <= MaxHeight
    BY TxAssumption
  <1>2. Debited(ds, r.applied) \in [Txs -> Int] /\ \A tx \in Txs : Debited(ds, r.applied)[tx] = ds[tx] + Once(tx \in r.applied)
    BY DebitedValue
  <1>3. ASSUME NEW tx \in Txs PROVE Debited(ds, r.applied)[tx] - Mined(cc, tx) >= ds[tx] - Mined(c, tx)
    <2>1. ds[tx] \in Int /\ Mined(c, tx) \in Nat /\ Mined(Append(c, block), tx) = Mined(c, tx) + Once(tx \in ToSet(block))
      BY MinedAppend
    <2>2. Once(tx \in r.applied) \in Nat
      BY DEF Once
    <2>3. CASE r.ok
      <3>1. cc = Append(c, block) /\ r.applied = ToSet(block)
        BY <2>3
      <3> HIDE DEF cc
      <3> QED  BY <1>2, <2>1, <2>2, <3>1
    <2>4. CASE ~r.ok
      <3>1. cc = c
        BY <2>4
      <3> HIDE DEF cc
      <3> QED  BY <1>2, <2>1, <2>2, <3>1
    <2> QED  BY <2>3, <2>4
  <1> QED  BY <1>1, <1>2, <1>3

\* A block that apply_block applies on top of the chain.
LEMMA StoreStrict ==
    ASSUME Inv, NEW block \in Seq(Txs), Len(chain) < MaxHeight, Store(Strict(ledger, block), block),
           mempool' \subseteq Txs /\ IsFiniteSet(mempool'),
           purge' \in [Sources -> SUBSET Txs],
           template' = template \/ template' = NoTemplate,
           UNCHANGED <<seen, holder, task, client, acked>>
    PROVE  Inv'
  <1> DEFINE r == Strict(ledger, block)
  <1>1. ledger \in Ledgers /\ chain \in Seq(Seq(Txs)) /\ debits \in [Txs -> Int]
    BY DEF Inv, TypeInv
  <1>2. r \in Results /\ (r.ok => r.applied = ToSet(block)) /\ Later(ledger, r.ledger) /\ r.ledger \in Ledgers
    BY <1>1, StrictFacts DEF Results
  <1>3. /\ ledger' = r.ledger /\ debits' = Debited(debits, r.applied)
        /\ chain' = IF r.ok THEN Append(chain, block) ELSE chain
        /\ loose' = loose
    BY DEF Store
  <1> HIDE DEF r
  <1>4. /\ chain' \in Seq(Seq(Txs)) /\ Len(chain') <= MaxHeight
        /\ debits' \in [Txs -> Int]
        /\ \A tx \in Txs : debits'[tx] - Mined(chain', tx) >= debits[tx] - Mined(chain, tx)
    BY <1>1, <1>2, <1>3, ResultStored
  <1>5. TypeInv'
    BY <1>2, <1>3, <1>4 DEF Inv, TypeInv, Key, Templates
  <1>6. NoNewPromise
    BY SamePromises
  <1>7. DebitsCount'
    BY <1>4, <1>5, <1>6, KeepCount DEF Inv
  <1>8. PromisesStand'
    BY <1>2, <1>3, <1>5, <1>6, KeepPromises DEF Inv
  <1> QED  BY <1>5, <1>7, <1>8 DEF Inv

LEMMA NewBlockInv ==
    ASSUME Inv, NEW block \in Seq(Txs), NewBlock(block)
    PROVE  Inv'
  <1>1. /\ Store(Strict(ledger, block), block) /\ PurgeLater("peer", Strict(ledger, block), block)
        /\ Len(chain) < MaxHeight
        /\ UNCHANGED <<mempool, seen, holder, task, client, template, acked>>
    BY DEF NewBlock
  <1>2. purge' \in [Sources -> SUBSET Txs]
    BY <1>1, BlockFields DEF PurgeLater, Inv, TypeInv
  <1> QED  BY <1>1, <1>2, StoreStrict DEF Inv, TypeInv

LEMMA BatchBlockInv ==
    ASSUME Inv, NEW block \in Seq(Txs), BatchBlock(block)
    PROVE  Inv'
  <1> DEFINE r == Bulk(ledger, block)
  <1>1. ledger \in Ledgers /\ chain \in Seq(Seq(Txs)) /\ debits \in [Txs -> Int]
    BY DEF Inv, TypeInv
  <1>2. r \in Results /\ (r.ok => r.applied = ToSet(block)) /\ r.ledger \in Ledgers
    BY <1>1, BulkFacts DEF Results
  <1>3. /\ Len(chain) < MaxHeight
        /\ ledger' = r.ledger /\ debits' = Debited(debits, r.applied)
        /\ chain' = IF r.ok THEN Append(chain, block) ELSE chain
        /\ loose' = TRUE
        /\ UNCHANGED <<mempool, seen, holder, task, client, template, purge, acked>>
    BY DEF BatchBlock
  <1> HIDE DEF r
  <1>4. /\ chain' \in Seq(Seq(Txs)) /\ Len(chain') <= MaxHeight
        /\ debits' \in [Txs -> Int]
        /\ \A tx \in Txs : debits'[tx] - Mined(chain', tx) >= debits[tx] - Mined(chain, tx)
    BY <1>1, <1>2, <1>3, ResultStored
  <1>5. TypeInv'
    BY <1>2, <1>3, <1>4 DEF Inv, TypeInv, Key
  <1>6. NoNewPromise
    BY <1>3, SamePromises
  <1>7. DebitsCount'
    BY <1>4, <1>5, <1>6, KeepCount DEF Inv
  <1>8. PromisesStand'
    BY <1>3, <1>5, <1>6, KeepPromises DEF Inv
  <1> QED  BY <1>5, <1>7, <1>8 DEF Inv

\* The tip's transactions are refunded once and counted once less, so the
\* sibling and, if it fails, the tip again, keep the count.
LEMMA CompetingBlockInv ==
    ASSUME Inv, chain # <<>>, NEW block \in Seq(Txs), CompetingBlock(block)
    PROVE  Inv'
  <1> DEFINE tip == Last(chain)
             front == Front(chain)
             below == Reverted(ledger, tip)
             r == Strict(below, block)
             again == Strict(r.ledger, tip)
             less == Refunded(debits, ToSet(tip))
             ds == Debited(less, r.applied)
             ds2 == Debited(ds, again.applied)
  <1>1. ledger \in Ledgers /\ chain \in Seq(Seq(Txs)) /\ Len(chain) <= MaxHeight /\ debits \in [Txs -> Int]
    BY DEF Inv, TypeInv
  <1>2. tip \in Seq(Txs) /\ front \in Seq(Seq(Txs)) /\ Len(front) = Len(chain) - 1 /\ chain = Append(front, tip)
    BY <1>1, TipOnTop
  <1>3. Len(front) < MaxHeight
    BY <1>1, <1>2, TxAssumption
  <1>4. below \in Ledgers
    BY <1>1, <1>2, RevertedType
  <1> HIDE DEF below
  <1>5. r \in Results /\ (r.ok => r.applied = ToSet(block)) /\ r.ledger \in Ledgers
    BY <1>4, StrictFacts DEF Results
  <1> HIDE DEF r
  <1>6. again \in Results /\ (again.ok => again.applied = ToSet(tip)) /\ again.ledger \in Ledgers
    BY <1>2, <1>5, StrictFacts DEF Results
  <1>7. /\ ledger' = IF r.ok THEN r.ledger ELSE again.ledger
        /\ debits' = IF r.ok THEN ds ELSE ds2
        /\ chain' = IF r.ok THEN Append(front, block) ELSE IF again.ok THEN chain ELSE front
        /\ purge' = [purge EXCEPT !["peer"] = IF r.ok THEN ToSet(tip) \cup ToSet(block) ELSE {}]
        /\ loose' = TRUE
        /\ UNCHANGED <<mempool, seen, holder, task, client, template, acked>>
    BY DEF CompetingBlock, r, below
  <1> HIDE DEF again, less, front, tip
  <1>8. less \in [Txs -> Int] /\ \A tx \in Txs : less[tx] = debits[tx] - Once(tx \in ToSet(tip))
    BY <1>1, DebitedValue DEF less
  <1>9. ASSUME NEW tx \in Txs PROVE less[tx] - Mined(front, tx) = debits[tx] - Mined(chain, tx)
    <2>1. Mined(front, tx) \in Nat /\ Mined(chain, tx) = Mined(front, tx) + Once(tx \in ToSet(tip))
      BY <1>2, MinedAppend
    <2>2. less[tx] = debits[tx] - Once(tx \in ToSet(tip)) /\ debits[tx] \in Int /\ Once(tx \in ToSet(tip)) \in Nat
      BY <1>1, <1>8 DEF Once
    <2> QED  BY <2>1, <2>2
  <1>10. LET cc == IF r.ok THEN Append(front, block) ELSE front
         IN  /\ cc \in Seq(Seq(Txs)) /\ Len(cc) <= MaxHeight
             /\ ds \in [Txs -> Int]
             /\ \A tx \in Txs : ds[tx] - Mined(cc, tx) >= less[tx] - Mined(front, tx)
    BY <1>2, <1>3, <1>5, <1>8, ResultStored
  <1> HIDE DEF ds
  <1>11. LET cc == IF again.ok THEN Append(front, tip) ELSE front
         IN  /\ cc \in Seq(Seq(Txs)) /\ Len(cc) <= MaxHeight
             /\ ds2 \in [Txs -> Int]
             /\ \A tx \in Txs : ds2[tx] - Mined(cc, tx) >= ds[tx] - Mined(front, tx)
    BY <1>2, <1>3, <1>6, <1>10, ResultStored
  <1> HIDE DEF ds2
  <1>12. /\ chain' \in Seq(Seq(Txs)) /\ Len(chain') <= MaxHeight
         /\ debits' \in [Txs -> Int]
    BY <1>2, <1>7, <1>10, <1>11
  <1>13. ASSUME NEW tx \in Txs PROVE debits'[tx] - Mined(chain', tx) >= debits[tx] - Mined(chain, tx)
    <2>1. CASE r.ok
      <3>1. chain' = Append(front, block) /\ debits' = ds
        BY <1>7, <2>1
      <3>2. ds[tx] - Mined(Append(front, block), tx) >= less[tx] - Mined(front, tx)
        BY <1>10, <2>1
      <3> QED  BY <1>9, <3>1, <3>2
    <2>2. CASE ~r.ok
      <3> DEFINE cc == IF again.ok THEN Append(front, tip) ELSE front
      <3>1. chain' = cc /\ debits' = ds2 /\ cc \in Seq(Seq(Txs))
        BY <1>2, <1>7, <1>11, <2>2
      <3>2. ds[tx] - Mined(front, tx) >= less[tx] - Mined(front, tx)
        BY <1>10, <2>2
      <3>3. ds2[tx] - Mined(cc, tx) >= ds[tx] - Mined(front, tx)
        BY <1>11
      <3> HIDE DEF cc
      <3>4. Mined(front, tx) \in Nat /\ Mined(cc, tx) \in Nat /\ <<>> \in Seq(Txs)
        <4>1. <<>> \in Seq(Txs)
          OBVIOUS
        <4> QED  BY <1>2, <3>1, <4>1, MinedAppend
      <3>5. ds[tx] \in Int /\ ds2[tx] \in Int /\ less[tx] \in Int
        BY <1>8, <1>10, <1>11
      <3> QED  BY <1>9, <3>1, <3>2, <3>3, <3>4, <3>5
    <2> QED  BY <2>1, <2>2
  <1>14. purge' \in [Sources -> SUBSET Txs]
    <2>1. ToSet(tip) \subseteq Txs /\ ToSet(block) \subseteq Txs
      BY <1>2, BlockFields
    <2> QED  BY <1>7, <2>1 DEF Inv, TypeInv
  <1>15. TypeInv'
    BY <1>5, <1>6, <1>7, <1>12, <1>14 DEF Inv, TypeInv, Key
  <1>16. NoNewPromise
    BY <1>7, SamePromises
  <1>17. DebitsCount'
    BY <1>13, <1>15, <1>16, KeepCount DEF Inv
  <1>18. PromisesStand'
    BY <1>7, <1>15, <1>16, KeepPromises DEF Inv
  <1> QED  BY <1>15, <1>17, <1>18 DEF Inv

LEMMA PurgeInv ==
    ASSUME Inv, NEW from \in Sources, Purge(from)
    PROVE  Inv'
  <1>1. /\ mempool' = mempool \ purge[from]
        /\ purge' = [purge EXCEPT ![from] = {}]
        /\ UNCHANGED <<stores, seen, holder, task, client, template, acked>>
    BY DEF Purge
  <1>2. mempool' \subseteq Txs /\ IsFiniteSet(mempool')
    BY <1>1, FS_Subset DEF Inv, TypeInv
  <1>3. purge' \in [Sources -> SUBSET Txs]
    BY <1>1 DEF Inv, TypeInv
  <1>4. TypeInv'
    BY <1>1, <1>2, <1>3 DEF Inv, TypeInv, stores, Key
  <1> QED  BY <1>1, <1>4, SamePromises, KeepStores

LEMMA TakeTemplateInv ==
    ASSUME Inv, NEW block \in SetToSeqs(mempool), TakeTemplate(block)
    PROVE  Inv'
  <1>1. /\ template' = [pc |-> "mining", parent |-> chain, block |-> block] /\ Len(chain) < MaxHeight
        /\ UNCHANGED <<stores, mempool, seen, holder, task, client, purge, acked>>
    BY DEF TakeTemplate
  <1>2. block \in Seq(Txs)
    BY TemplateBlocksType DEF Inv, TypeInv
  <1>3. template' \in Templates /\ Len(template'.parent) < MaxHeight
    BY <1>1, <1>2 DEF Inv, TypeInv, Templates
  <1>4. TypeInv'
    BY <1>1, <1>3 DEF Inv, TypeInv, stores, Key
  <1> QED  BY <1>1, <1>4, SamePromises, KeepStores

\* What a template holds.
LEMMA TemplateForm ==
    ASSUME TypeInv, template # NoTemplate
    PROVE  template.block \in Seq(Txs) /\ Len(template.parent) < MaxHeight
  BY DEF TypeInv, Templates

LEMMA SubmitMinedBlockInv ==
    ASSUME Inv, SubmitMinedBlock
    PROVE  Inv'
  <1> DEFINE block == template.block
  <1>1. /\ template # NoTemplate /\ template' = NoTemplate
        /\ UNCHANGED <<mempool, seen, holder, task, client, acked>>
    BY DEF SubmitMinedBlock
  <1>2. block \in Seq(Txs) /\ Len(template.parent) < MaxHeight
    BY <1>1, TemplateForm DEF Inv
  <1>3. CASE template.parent = chain
    <2>1. Store(Strict(ledger, block), block) /\ PurgeLater("pool", Strict(ledger, block), block)
      BY <1>3 DEF SubmitMinedBlock
    <2>2. purge' \in [Sources -> SUBSET Txs]
      BY <1>2, <2>1, BlockFields DEF PurgeLater, Inv, TypeInv
    <2> HIDE DEF block
    <2> QED  BY <1>1, <1>2, <1>3, <2>1, <2>2, StoreStrict DEF Inv, TypeInv
  <1>4. CASE template.parent # chain
    <2>1. UNCHANGED <<stores, purge>>
      BY <1>4 DEF SubmitMinedBlock
    <2>2. TypeInv'
      BY <1>1, <2>1 DEF Inv, TypeInv, stores, Key, Templates
    <2> QED  BY <1>1, <2>1, <2>2, SamePromises, KeepStores
  <1> QED  BY <1>3, <1>4

LEMMA ApplyOwnBlockInv ==
    ASSUME Inv, ApplyOwnBlock
    PROVE  Inv'
  <1> DEFINE block == template.block
  <1>1. /\ template # NoTemplate /\ template' = NoTemplate
        /\ UNCHANGED <<seen, holder, task, client, purge, acked>>
    BY DEF ApplyOwnBlock
  <1>2. block \in Seq(Txs) /\ Len(template.parent) < MaxHeight
    BY <1>1, TemplateForm DEF Inv
  <1>3. CASE template.parent = chain
    <2>1. /\ Store(Strict(ledger, block), block)
          /\ mempool' = IF Strict(ledger, block).ok THEN mempool \ ToSet(block) ELSE mempool
      BY <1>3 DEF ApplyOwnBlock
    <2>2. mempool' \subseteq Txs /\ IsFiniteSet(mempool')
      BY <2>1, FS_Subset DEF Inv, TypeInv
    <2> HIDE DEF block
    <2> QED  BY <1>1, <1>2, <1>3, <2>1, <2>2, StoreStrict DEF Inv, TypeInv
  <1>4. CASE template.parent # chain
    <2>1. UNCHANGED <<stores, mempool>>
      BY <1>4 DEF ApplyOwnBlock
    <2>2. TypeInv'
      BY <1>1, <2>1 DEF Inv, TypeInv, stores, Key, Templates
    <2> QED  BY <1>1, <2>1, <2>2, SamePromises, KeepStores
  <1> QED  BY <1>3, <1>4

-----------------------------------------------------------------------------
(* The theorems                                                            *)

LEMMA InitInv == Init => Inv
  <1> SUFFICES ASSUME Init PROVE Inv
    OBVIOUS
  <1> USE DEF Init
  <1>1. chain \in Seq(Seq(Txs)) /\ Len(chain) = 0
    OBVIOUS
  <1>2. TypeInv
    <2>1. Idle \in Tasks /\ Idle \in Requests /\ NoTemplate \in Templates
      BY DEF Tasks, Requests, Templates
    <2>2. task \in [Peers -> Tasks] /\ client \in [Clients -> Requests] /\ template \in Templates
      BY <2>1
    <2>3. IsFiniteSet(mempool) /\ ledger \in Ledgers /\ Len(chain) <= MaxHeight
      BY <1>1, NewTestnetType, TxAssumption, FS_EmptySet
    <2>4. debits \in [Txs -> Int] /\ purge \in [Sources -> SUBSET Txs]
      OBVIOUS
    <2> QED  BY <1>1, <2>2, <2>3, <2>4 DEF TypeInv
  <1>3. ASSUME NEW tx \in Txs PROVE ~Promised(tx)
    BY DEF Promised, Idle
  <1>4. DebitsCount
    <2>1. ASSUME NEW tx \in Txs PROVE Mined(chain, tx) = 0
      <3>1. Carriers(chain, tx) = {}
        BY <1>1 DEF Carriers
      <3> QED  BY <3>1, FS_EmptySet DEF Mined
    <2> QED  BY <1>3, <2>1 DEF DebitsCount, Once
  <1>5. PromisesStand
    BY <1>3 DEF PromisesStand
  <1> QED  BY <1>2, <1>4, <1>5 DEF Inv

LEMMA NextInv == Inv /\ [Next]_vars => Inv'
  <1> SUFFICES ASSUME Inv, [Next]_vars PROVE Inv'
    OBVIOUS
  <1>1. ASSUME NEW p \in Peers, NEW tx \in Txs \cup Forged, OnTx(p, tx) PROVE Inv'
    BY <1>1, OnTxInv
  <1>2. ASSUME NEW p \in Peers, ValidateTx(p) \/ InsertTx(p) \/ ApplyGossiped(p) \/ AckTx(p) PROVE Inv'
    BY <1>2, ValidateTxInv, InsertTxInv, ApplyGossipedInv, AckTxInv
  <1>3. ASSUME NEW c \in Clients, NEW tx \in Txs, BuildTx(c, tx) PROVE Inv'
    BY <1>3, BuildTxInv
  <1>4. ASSUME NEW c \in Clients, SubmitTx(c) \/ InsertSubmitted(c) PROVE Inv'
    BY <1>4, SubmitTxInv, InsertSubmittedInv
  <1>5. ASSUME NEW block \in MinerBlocks(chain), NewBlock(block) \/ BatchBlock(block) PROVE Inv'
    BY <1>5, MinerBlocksType, NewBlockInv, BatchBlockInv
  <1>6. ASSUME chain # <<>>, NEW block \in MinerBlocks(Front(chain)), CompetingBlock(block) PROVE Inv'
    BY <1>6, MinerBlocksType, CompetingBlockInv
  <1>7. ASSUME NEW from \in Sources, Purge(from) PROVE Inv'
    BY <1>7, PurgeInv
  <1>8. ASSUME NEW block \in SetToSeqs(mempool), TakeTemplate(block) PROVE Inv'
    BY <1>8, TakeTemplateInv
  <1>9. ASSUME SubmitMinedBlock \/ ApplyOwnBlock PROVE Inv'
    BY <1>9, SubmitMinedBlockInv, ApplyOwnBlockInv
  <1>10. CASE UNCHANGED vars
    <2>1. UNCHANGED stores /\ task' = task /\ acked' = acked
      BY <1>10 DEF vars, stores
    <2>2. TypeInv'
      BY <1>10 DEF vars, Inv, TypeInv, Key
    <2> QED  BY <2>1, <2>2, SamePromises, KeepStores
  <1> QED
    BY <1>1, <1>2, <1>3, <1>4, <1>5, <1>6, <1>7, <1>8, <1>9, <1>10 DEF Next

LEMMA InvHolds == Spec => []Inv
  BY InitInv, NextInv, PTL DEF Spec

(***************************************************************************)
(* Whatever the peers, the clients and the blocks do, the node's state     *)
(* keeps its types; no count of debits falls below 0, so a reverted block  *)
(* takes back only what was debited (node.rs, revert_tip).                 *)
(***************************************************************************)
THEOREM TypeCorrect == Spec => []TypeOK
  <1>1. Inv => TypeOK
    <2> SUFFICES ASSUME Inv PROVE TypeOK
      OBVIOUS
    <2>1. \A p \in Peers : task[p].pc \in {"idle", "validate", "insert", "apply", "ack"}
      BY TaskForms DEF Inv, TypeInv
    <2>2. \A c \in Clients : client[c].pc \in {"idle", "submit", "insert"}
      BY RequestForms DEF Inv, TypeInv
    <2>3. ASSUME NEW tx \in Txs PROVE debits[tx] \in Nat
      <3>1. debits[tx] \in Int /\ debits[tx] >= Mined(chain, tx) + Once(Promised(tx))
        BY DEF Inv, TypeInv, DebitsCount
      <3>2. Mined(chain, tx) \in Nat
        <4>1. <<>> \in Seq(Txs) /\ chain \in Seq(Seq(Txs))
          BY DEF Inv, TypeInv
        <4> QED  BY <4>1, MinedAppend
      <3>3. Once(Promised(tx)) \in Nat
        BY DEF Once
      <3> QED  BY <3>1, <3>2, <3>3
    <2>4. debits \in [Txs -> Nat]
      BY <2>3 DEF Inv, TypeInv
    <2> QED  BY <2>1, <2>2, <2>4 DEF TypeOK, Inv, TypeInv
  <1> QED  BY <1>1, InvHolds, PTL

(***************************************************************************)
(* An ACK is kept: the ledger has a debit of every transaction the Tx      *)
(* handler acknowledged, for any number of peers, transactions and blocks, *)
(* and whatever tips were reverted since (node.rs, Message::Tx).           *)
(***************************************************************************)
THEOREM AckedStaysDebited == Spec => []AckedIsDebited
  <1>1. Inv => AckedIsDebited
    <2> SUFFICES ASSUME Inv, NEW tx \in acked PROVE debits[tx] >= 1
      BY DEF AckedIsDebited
    <2>1. tx \in Txs /\ Promised(tx)
      BY DEF Inv, TypeInv, Promised
    <2>2. debits[tx] \in Int /\ debits[tx] >= Mined(chain, tx) + Once(Promised(tx))
      BY <2>1 DEF Inv, TypeInv, DebitsCount
    <2>3. Mined(chain, tx) \in Nat
      <3>1. <<>> \in Seq(Txs) /\ chain \in Seq(Seq(Txs))
        BY DEF Inv, TypeInv
      <3> QED  BY <3>1, MinedAppend
    <2>4. Once(Promised(tx)) = 1
      BY <2>1 DEF Once
    <2> QED  BY <2>2, <2>3, <2>4
  <1> QED  BY <1>1, InvHolds, PTL

(***************************************************************************)
(* First seen wins without batches and reverts: of two transactions with   *)
(* the same sender and sequence number the handler acknowledges one at     *)
(* most, although its check and its application are under separate locks.  *)
(***************************************************************************)
THEOREM OneConflictAcked == Spec => []OneOfConflictIsAcked
  <1>1. Inv => OneOfConflictIsAcked
    BY DEF Inv, TypeInv, PromisesStand, Promised, OneOfConflictIsAcked
  <1> QED  BY <1>1, InvHolds, PTL

=============================================================================

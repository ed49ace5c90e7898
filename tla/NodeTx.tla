------------------------------- MODULE NodeTx -------------------------------
(***************************************************************************)
(* Transactions in a node: gossip (taron-node/src/node.rs), the mempool    *)
(* (mempool.rs), submission over RPC (rpc.rs) by `taron send` (taron-cli), *)
(* and the blocks that carry transactions.  A transaction is debited when  *)
(* it is gossiped and again, if the ledger lets it, when a block has it.   *)
(*                                                                         *)
(* An action is what a task does under one lock; the Tx handler keeps the  *)
(* mempool's write lock from the insertion to the ACK.  A block is the     *)
(* sequence of its transactions.  Coinbases go to accounts that send       *)
(* nothing here and are left out; GetTxHashes, TxHashes and GetTxs only    *)
(* make peers send transactions, which they may do at any time anyway.     *)
(***************************************************************************)
EXTENDS Ledger, Sequences, SequencesExt, FiniteSets

CONSTANTS
    Txs,        \* signed transactions with a valid proof
    Forged,     \* transactions without
    Peers,      \* connections, each with one task
    Clients,    \* runs of taron send
    NoTask,
    MaxHeight, MaxBlockTxs, MaxEvents   \* bounds: blocks in the chain, transactions in a
                                        \* received block; messages, requests and blocks

ASSUME TxAssumption ==
    /\ Txs \subseteq Transaction /\ Forged \subseteq Transaction
    /\ MaxHeight \in Nat /\ MaxBlockTxs \in Nat /\ MaxEvents \in Nat
    /\ NoTask \notin Peers

VARIABLES
    ledger,
    chain,      \* blocks after genesis
    mempool,
    seen,       \* SeenSequences: (sender, sequence) pairs
    holder,     \* task that keeps the mempool's write lock across its steps
    task,       \* what the peers' tasks are at
    client,     \* what the clients are at
    template,   \* work of the pool or of a miner thread
    purge,      \* transactions an applied block still has to take out of the mempool
    acked,      \* transactions the node has acknowledged
    debits,     \* how often each transaction is debited in the ledger
    loose,      \* a block was applied by apply_block_ibd, or the tip was reverted
    events

stores == <<ledger, chain, debits, loose>>
vars == <<ledger, chain, mempool, seen, holder, task, client, template, purge, acked, debits, loose, events>>

Idle == [pc |-> "idle"]
NoTemplate == [pc |-> "none"]
Key(tx) == <<tx.sender, tx.sequence>>
Sources == {"peer", "pool"}

Event == events < MaxEvents /\ events' = events + 1

-----------------------------------------------------------------------------
(* Applying and reverting blocks                                           *)

\* The result of the loop over a block's transactions, which stops at the first
\* that fails and takes nothing back.
Unapplied(l) == [ledger |-> l, ok |-> TRUE, applied |-> {}]

ApplyNext(r, tx, Can(_, _), Apply(_, _)) ==
    IF r.ok /\ Can(r.ledger, tx)
    THEN [ledger |-> Apply(r.ledger, tx), ok |-> TRUE, applied |-> r.applied \cup {tx}]
    ELSE [r EXCEPT !.ok = FALSE]

ApplyBlock(l, block, Can(_, _), Apply(_, _)) ==
    LET result[k \in 0..Len(block)] ==
            IF k = 0 THEN Unapplied(l) ELSE ApplyNext(result[k - 1], block[k], Can, Apply)
    IN  result[Len(block)]

Strict(l, block) == ApplyBlock(l, block, CanApplyTx, ApplyTx)
Bulk(l, block) == ApplyBlock(l, block, CanApplyTxIbd, ApplyTxIbd)

\* revert_tip goes through the transactions backwards.
Reverted(l, block) ==
    LET result[k \in 0..Len(block)] ==
            IF k = 0 THEN l ELSE RevertTx(result[k - 1], block[Len(block) - k + 1])
    IN  result[Len(block)]

Debited(ds, txs) == [tx \in Txs |-> ds[tx] + (IF tx \in txs THEN 1 ELSE 0)]
Refunded(ds, txs) == [tx \in Txs |-> ds[tx] - (IF tx \in txs THEN 1 ELSE 0)]

\* What a miner without gossiped transactions may put on top of a chain: every
\* sequence of transactions the replayed ledger accepts.
Replay(l, blocks) == FoldLeft(LAMBDA r, b : Bulk(r, b).ledger, l, blocks)

MinerBlocks(blocks) ==
    LET l == Replay(NewTestnet, blocks)
    IN  {b \in UNION {[1..n -> Txs] : n \in 0..MaxBlockTxs} : IsInjective(b) /\ Strict(l, b).ok}

-----------------------------------------------------------------------------
(* Message::Tx                                                             *)

OnTx(p, tx) ==
    /\ task[p] = Idle
    /\ Event
    /\ task' = [task EXCEPT ![p] = IF Key(tx) \in seen THEN Idle ELSE [pc |-> "validate", tx |-> tx]]
    /\ UNCHANGED <<stores, mempool, seen, holder, client, template, purge, acked>>

\* apply_tx on a copy of the ledger.
ValidateTx(p) ==
    /\ task[p].pc = "validate"
    /\ task' = [task EXCEPT ![p] = IF CanApplyTx(ledger, task[p].tx) THEN [@ EXCEPT !.pc = "insert"] ELSE Idle]
    /\ UNCHANGED <<stores, mempool, seen, holder, client, template, purge, acked, events>>

\* Mutant: the proof is not verified.
InsertableAny(tx) == tx \notin mempool

\* Mempool::insert: no duplicates, no bad signature, no bad proof.
Insertable(tx) == tx \notin mempool /\ tx \in Txs

\* record_seen follows under the mempool's lock; its answer is not looked at.
InsertTx(p) ==
    LET tx == task[p].tx
    IN  /\ task[p].pc = "insert"
        /\ holder = NoTask
        /\ IF Insertable(tx)
           THEN /\ mempool' = mempool \cup {tx}
                /\ seen' = seen \cup {Key(tx)}
                /\ holder' = p
                /\ task' = [task EXCEPT ![p].pc = "apply"]
           ELSE /\ task' = [task EXCEPT ![p] = Idle]
                /\ UNCHANGED <<mempool, seen, holder>>
        /\ UNCHANGED <<stores, client, template, purge, acked, events>>

\* Mutant: the result of apply_tx is not looked at.
ApplyGossipedAlways(p) ==
    LET tx == task[p].tx
    IN  /\ task[p].pc = "apply"
        /\ IF CanApplyTx(ledger, tx)
           THEN ledger' = ApplyTx(ledger, tx) /\ debits' = Debited(debits, {tx})
           ELSE UNCHANGED <<ledger, debits>>
        /\ task' = [task EXCEPT ![p].pc = "ack"]
        /\ UNCHANGED <<chain, loose, mempool, seen, holder, client, template, purge, acked, events>>

\* Mutant: the ledger is taken not to have moved since the validation.
StillAppliesAlways(tx) == TRUE

StillApplies(tx) == CanApplyTx(ledger, tx)

\* If the ledger has moved the connection is given up and the transaction
\* stays in the mempool.
ApplyGossiped(p) ==
    LET tx == task[p].tx
    IN  /\ task[p].pc = "apply"
        /\ IF StillApplies(tx)
           THEN /\ ledger' = ApplyTx(ledger, tx)
                /\ debits' = Debited(debits, {tx})
                /\ task' = [task EXCEPT ![p].pc = "ack"]
                /\ UNCHANGED holder
           ELSE /\ task' = [task EXCEPT ![p] = Idle]
                /\ holder' = NoTask
                /\ UNCHANGED <<ledger, debits>>
        /\ UNCHANGED <<chain, loose, mempool, seen, client, template, purge, acked, events>>

\* The ACK goes to the sender, then the lock falls and both are relayed.
AckTx(p) ==
    /\ task[p].pc = "ack"
    /\ acked' = acked \cup {task[p].tx}
    /\ holder' = NoTask
    /\ task' = [task EXCEPT ![p] = Idle]
    /\ UNCHANGED <<stores, mempool, seen, client, template, purge, events>>

-----------------------------------------------------------------------------
(* taron send and submit_tx                                                *)

\* The account's sequence number is fetched and a transaction with the next one
\* is built, signed and proved.
BuildTx(c, tx) ==
    /\ client[c] = Idle
    /\ Event
    /\ tx.sequence = ledger[tx.sender].sequence + 1
    /\ client' = [client EXCEPT ![c] = [pc |-> "submit", tx |-> tx]]
    /\ UNCHANGED <<stores, mempool, seen, holder, task, template, purge, acked>>

\* Balance and sequence are those of the ledger; no account counts as sequence 0.
SubmitTx(c) ==
    LET tx == client[c].tx
        valid == ledger[tx.sender].balance >= TotalCost(tx) /\ tx.sequence = ledger[tx.sender].sequence + 1
    IN  /\ client[c].pc = "submit"
        /\ client' = [client EXCEPT ![c] = IF valid THEN [@ EXCEPT !.pc = "insert"] ELSE Idle]
        /\ UNCHANGED <<stores, mempool, seen, holder, task, template, purge, acked, events>>

\* Neither seen nor the ledger learn of it.
InsertSubmitted(c) ==
    LET tx == client[c].tx
    IN  /\ client[c].pc = "insert"
        /\ holder = NoTask
        /\ mempool' = IF Insertable(tx) THEN mempool \cup {tx} ELSE mempool
        /\ client' = [client EXCEPT ![c] = Idle]
        /\ UNCHANGED <<stores, seen, holder, task, template, purge, acked, events>>

-----------------------------------------------------------------------------
(* Blocks                                                                  *)

Store(r, block) ==
    /\ ledger' = r.ledger
    /\ debits' = Debited(debits, r.applied)
    /\ chain' = IF r.ok THEN Append(chain, block) ELSE chain
    /\ UNCHANGED loose

\* A block that applied is taken out of the mempool later, under another lock.
PurgeLater(from, r, block) ==
    purge' = [purge EXCEPT ![from] = IF r.ok THEN ToSet(block) ELSE {}]

NewBlock(block) ==
    /\ Event
    /\ Len(chain) < MaxHeight
    /\ purge["peer"] = {}
    /\ LET r == Strict(ledger, block) IN Store(r, block) /\ PurgeLater("peer", r, block)
    /\ UNCHANGED <<mempool, seen, holder, task, client, template, acked>>

\* A block of a batch; the mempool is left alone.
BatchBlock(block) ==
    LET r == Bulk(ledger, block)
    IN  /\ Event
        /\ Len(chain) < MaxHeight
        /\ ledger' = r.ledger
        /\ debits' = Debited(debits, r.applied)
        /\ chain' = IF r.ok THEN Append(chain, block) ELSE chain
        /\ loose' = TRUE
        /\ UNCHANGED <<mempool, seen, holder, task, client, template, purge, acked>>

\* A sibling of the tip with a lower hash: the tip is reverted, and applied
\* again if the sibling fails.  The transactions of both leave the mempool.
CompetingBlock(block) ==
    LET tip == Last(chain)
        below == Reverted(ledger, tip)
        r == Strict(below, block)
        again == Strict(r.ledger, tip)
    IN  /\ Event
        /\ purge["peer"] = {}
        /\ block # tip
        /\ ledger' = IF r.ok THEN r.ledger ELSE again.ledger
        /\ debits' = LET ds == Debited(Refunded(debits, ToSet(tip)), r.applied)
                     IN  IF r.ok THEN ds ELSE Debited(ds, again.applied)
        /\ chain' = IF r.ok THEN Append(Front(chain), block)
                    ELSE IF again.ok THEN chain ELSE Front(chain)
        /\ purge' = [purge EXCEPT !["peer"] = IF r.ok THEN ToSet(tip) \cup ToSet(block) ELSE {}]
        /\ loose' = TRUE
        /\ UNCHANGED <<mempool, seen, holder, task, client, template, acked>>

Purge(from) ==
    /\ purge[from] # {}
    /\ holder = NoTask
    /\ mempool' = mempool \ purge[from]
    /\ purge' = [purge EXCEPT ![from] = {}]
    /\ UNCHANGED <<stores, seen, holder, task, client, template, acked, events>>

\* All of the mempool, in the order of the hash map.
TakeTemplate(block) ==
    /\ template = NoTemplate
    /\ holder = NoTask
    /\ Len(chain) < MaxHeight
    /\ Event
    /\ template' = [pc |-> "mining", parent |-> chain, block |-> block]
    /\ UNCHANGED <<stores, mempool, seen, holder, task, client, purge, acked>>

\* submit_mined_block, for the pool.
SubmitMinedBlock ==
    /\ template # NoTemplate
    /\ purge["pool"] = {}
    /\ template' = NoTemplate
    /\ IF template.parent = chain
       THEN LET r == Strict(ledger, template.block)
            IN  Store(r, template.block) /\ PurgeLater("pool", r, template.block)
       ELSE UNCHANGED <<stores, purge>>
    /\ UNCHANGED <<mempool, seen, holder, task, client, acked, events>>

\* A miner thread of taron node --mine purges before it lets go of the ledger.
ApplyOwnBlock ==
    /\ template # NoTemplate
    /\ holder = NoTask
    /\ template' = NoTemplate
    /\ IF template.parent = chain
       THEN LET r == Strict(ledger, template.block)
            IN  /\ Store(r, template.block)
                /\ mempool' = IF r.ok THEN mempool \ ToSet(template.block) ELSE mempool
       ELSE UNCHANGED <<stores, mempool>>
    /\ UNCHANGED <<seen, holder, task, client, purge, acked, events>>

-----------------------------------------------------------------------------

Init ==
    /\ ledger = NewTestnet
    /\ chain = <<>>
    /\ mempool = {}
    /\ seen = {}
    /\ holder = NoTask
    /\ task = [p \in Peers |-> Idle]
    /\ client = [c \in Clients |-> Idle]
    /\ template = NoTemplate
    /\ purge = [from \in Sources |-> {}]
    /\ acked = {}
    /\ debits = [tx \in Txs |-> 0]
    /\ loose = FALSE
    /\ events = 0

Next ==
    \/ \E p \in Peers :
        \/ \E tx \in Txs \cup Forged : OnTx(p, tx)
        \/ ValidateTx(p) \/ InsertTx(p) \/ ApplyGossiped(p) \/ AckTx(p)
    \/ \E c \in Clients :
        \/ \E tx \in Txs : BuildTx(c, tx)
        \/ SubmitTx(c) \/ InsertSubmitted(c)
    \/ \E block \in MinerBlocks(chain) : NewBlock(block) \/ BatchBlock(block)
    \/ chain # <<>> /\ \E block \in MinerBlocks(Front(chain)) : CompetingBlock(block)
    \/ \E from \in Sources : Purge(from)
    \/ \E block \in SetToSeqs(mempool) : TakeTemplate(block)
    \/ SubmitMinedBlock \/ ApplyOwnBlock

Spec == Init /\ [][Next]_vars

-----------------------------------------------------------------------------
(* Properties                                                              *)

TypeOK ==
    /\ ledger \in Ledgers
    /\ chain \in Seq(Seq(Txs)) /\ Len(chain) <= MaxHeight
    /\ mempool \subseteq Txs /\ acked \subseteq Txs
    /\ seen \subseteq {Key(tx) : tx \in Txs}
    /\ holder \in Peers \cup {NoTask}
    /\ \A p \in Peers : task[p].pc \in {"idle", "validate", "insert", "apply", "ack"}
    /\ \A c \in Clients : client[c].pc \in {"idle", "submit", "insert"}
    /\ purge \in [Sources -> SUBSET Txs]
    /\ debits \in [Txs -> Nat]
    /\ loose \in BOOLEAN

\* An ACK is a promise: a transaction the Tx handler has acknowledged is in the
\* ledger, whatever blocks came in between the handler's locks and were
\* reverted since.
AckedIsDebited == \A tx \in acked : debits[tx] >= 1

\* First seen wins even when both of two conflicting transactions were past
\* check_double_spend before either was recorded: the node acknowledges one of
\* them at most, as long as no block came in a batch and no tip was reverted
\* (both may lower a sequence number, and the other one then applies as well).
OneOfConflictIsAcked ==
    ~loose => \A t, u \in acked : Key(t) = Key(u) => t = u

\* "Sequence numbers prevent replay attacks and ensure transaction ordering"
\* (taron-core/src/ledger.rs:14): no transaction is debited twice.
TxDebitedOnce == \A tx \in Txs : debits[tx] <= 1

=============================================================================

------------------------------ MODULE Finality ------------------------------
(***************************************************************************)
(* Transaction finality by peer acknowledgements: FinalityTracker and      *)
(* SeenSequences (taron-core/src/finality.rs) behind the node's manager    *)
(* (taron-node/src/finality.rs), and the way the node's Tx handler uses    *)
(* them (node.rs).  Every method runs under one write lock, so each is one *)
(* action.                                                                 *)
(***************************************************************************)
EXTENDS Naturals, FiniteSets

CONSTANTS
    Txs,         \* transaction hashes
    Keys,        \* (sender, sequence) pairs
    KeyOf,       \* the pair each transaction carries
    Peers,       \* public keys that sign ACKs
    NoTx,        \* no transaction recorded for a pair
    TIMEOUT,     \* 30 seconds
    MaxTime,     \* bound: the clock stops here
    MaxPeers     \* bound: largest peer count update_quorum is told

ASSUME FinalityAssumption ==
    /\ KeyOf \in [Txs -> Keys]
    /\ IsFiniteSet(Peers)
    /\ NoTx \notin Txs
    /\ TIMEOUT \in Nat /\ MaxTime \in Nat /\ MaxPeers \in Nat

VARIABLES
    pending,         \* FinalityTracker.pending: its keys
    acks,            \* PendingTx.acks, kept after the entry is gone
    quorum,          \* PendingTx.quorum, likewise
    submitted,       \* PendingTx.submitted_at, likewise
    finalized,       \* FinalityTracker.finalized
    default_quorum,  \* FinalityTracker.default_quorum
    fired,           \* how often on_final_callback ran for a transaction
    seen,            \* SeenSequences.pending: first transaction per pair
    checked,         \* transactions a handler found no conflict for
    refused,         \* transactions a handler is about to reject
    now              \* Instant::now()

trackerVars == <<pending, acks, quorum, submitted, finalized, default_quorum, fired>>
seenVars == <<seen, checked, refused>>
vars == <<pending, acks, quorum, submitted, finalized, default_quorum, fired,
          seen, checked, refused, now>>

Statuses == {"none", "confirmed", "rejected"}

\* TxAck: who it is said to be of, and whose key signed it.
Acks == [tx : Txs, peer_pubkey : Peers, signer : Peers]

Verified(ack) == ack.signer = ack.peer_pubkey

TypeOK ==
    /\ pending \in SUBSET Txs
    /\ acks \in [Txs -> SUBSET Peers]
    /\ quorum \in [Txs -> Nat \ {0}]
    /\ submitted \in [Txs -> 0..MaxTime]
    /\ finalized \in [Txs -> Statuses]
    /\ default_quorum \in Nat \ {0}
    /\ fired \in [Txs -> Nat]
    /\ seen \in [Keys -> Txs \cup {NoTx}]
    /\ checked \in SUBSET Txs
    /\ refused \in SUBSET Txs
    /\ now \in 0..MaxTime

-----------------------------------------------------------------------------
\* Mutant: .max(1) left out.
AtLeastZero(n) == n

AtLeastOne(n) == IF n < 1 THEN 1 ELSE n

\* Everyone up to three peers, f + 1 with f = floor(n / 3) beyond.
CalculateQuorum(n) == IF n <= 3 THEN AtLeastOne(n) ELSE n \div 3 + 1

\* Mutant: register_tx does not look into the finalized map.
TrackedPending(tx) == tx \in pending

Tracked(tx) == tx \in pending \/ finalized[tx] # "none"

Track(tx, q) ==
    /\ ~Tracked(tx)
    /\ pending' = pending \cup {tx}
    /\ acks' = [acks EXCEPT ![tx] = {}]
    /\ quorum' = [quorum EXCEPT ![tx] = q]
    /\ submitted' = [submitted EXCEPT ![tx] = now]
    /\ UNCHANGED <<finalized, default_quorum, fired, seenVars, now>>

RegisterTx(tx) == Track(tx, default_quorum)

RegisterTxWithQuorum(tx, q) == Track(tx, AtLeastOne(q))

\* Mutant: compared with the current default, not with the entry's quorum.
RecordAckDefault(tx, peer) ==
    /\ finalized[tx] = "none"
    /\ tx \in pending
    /\ peer \notin acks[tx]
    /\ acks' = [acks EXCEPT ![tx] = @ \cup {peer}]
    /\ IF Cardinality(acks[tx] \cup {peer}) >= default_quorum
       THEN /\ pending' = pending \ {tx}
            /\ finalized' = [finalized EXCEPT ![tx] = "confirmed"]
            /\ fired' = [fired EXCEPT ![tx] = @ + 1]
       ELSE UNCHANGED <<pending, finalized, fired>>
    /\ UNCHANGED <<quorum, submitted, default_quorum, seenVars, now>>

\* Mutant: one ACK more than the quorum is waited for.
RecordAckMore(tx, peer) ==
    /\ finalized[tx] = "none"
    /\ tx \in pending
    /\ peer \notin acks[tx]
    /\ acks' = [acks EXCEPT ![tx] = @ \cup {peer}]
    /\ IF Cardinality(acks[tx] \cup {peer}) > quorum[tx]
       THEN /\ pending' = pending \ {tx}
            /\ finalized' = [finalized EXCEPT ![tx] = "confirmed"]
            /\ fired' = [fired EXCEPT ![tx] = @ + 1]
       ELSE UNCHANGED <<pending, finalized, fired>>
    /\ UNCHANGED <<quorum, submitted, default_quorum, seenVars, now>>

\* A second ACK of the same peer, and an ACK of a transaction that is not
\* pending (unknown, or finalized already), change nothing.
RecordAck(tx, peer) ==
    /\ finalized[tx] = "none"
    /\ tx \in pending
    /\ peer \notin acks[tx]
    /\ acks' = [acks EXCEPT ![tx] = @ \cup {peer}]
    /\ IF Cardinality(acks[tx] \cup {peer}) >= quorum[tx]
       THEN /\ pending' = pending \ {tx}
            /\ finalized' = [finalized EXCEPT ![tx] = "confirmed"]
            /\ fired' = [fired EXCEPT ![tx] = @ + 1]
       ELSE UNCHANGED <<pending, finalized, fired>>
    /\ UNCHANGED <<quorum, submitted, default_quorum, seenVars, now>>

\* The handler relays the ACK to all other peers whenever the transaction is
\* tracked, a repeated ACK too; that changes nothing here.
TxAckMessage(ack) ==
    /\ Verified(ack)
    /\ RecordAck(ack.tx, ack.peer_pubkey)

\* What a peer that asks with GetTxStatus is told.
TxStatus(tx) ==
    [acks |-> IF tx \in pending \/ finalized[tx] = "confirmed" THEN Cardinality(acks[tx]) ELSE 0,
     is_final |-> finalized[tx] = "confirmed"]

Reject(tx) ==
    /\ pending' = pending \ {tx}
    /\ finalized' = [finalized EXCEPT ![tx] = "rejected"]
    /\ UNCHANGED <<acks, quorum, submitted, default_quorum, fired, now>>

TimedOut(tx) == tx \in pending /\ now - submitted[tx] > TIMEOUT

CleanupTimeouts ==
    /\ pending' = {tx \in pending : ~TimedOut(tx)}
    /\ finalized' = [tx \in Txs |-> IF TimedOut(tx) THEN "rejected" ELSE finalized[tx]]
    /\ UNCHANGED <<acks, quorum, submitted, default_quorum, fired, seenVars, now>>

UpdateQuorum(n) ==
    /\ default_quorum' = AtLeastOne(CalculateQuorum(n))
    /\ UNCHANGED <<pending, acks, quorum, submitted, finalized, fired, seenVars, now>>

-----------------------------------------------------------------------------
(* SeenSequences and the node's Tx handlers, one per peer.  A handler asks   *)
(* check_double_spend under a read lock and acts on the answer later.        *)

CheckDoubleSpend(tx) ==
    /\ IF seen[KeyOf[tx]] = NoTx
       THEN checked' = checked \cup {tx} /\ UNCHANGED refused
       ELSE refused' = refused \cup {tx} /\ UNCHANGED checked
    /\ UNCHANGED <<trackerVars, seen, now>>

\* The one that arrived is rejected, be it another one or the same again.
RejectDoubleSpend(tx) ==
    /\ tx \in refused
    /\ refused' = refused \ {tx}
    /\ Reject(tx)
    /\ UNCHANGED <<checked, seen>>

\* Ledger or mempool refuse the transaction.
DropTx(tx) ==
    /\ tx \in checked
    /\ checked' = checked \ {tx}
    /\ UNCHANGED <<trackerVars, refused, seen, now>>

\* Ledger and mempool accept it: record() keeps an entry that is there already,
\* and the handler ignores that it does.
RecordSeen(tx) ==
    /\ tx \in checked
    /\ checked' = checked \ {tx}
    /\ seen' = [seen EXCEPT ![KeyOf[tx]] = IF @ = NoTx THEN tx ELSE @]
    /\ UNCHANGED <<trackerVars, refused, now>>

\* confirm(): the pair is the ledger's business from now on.
Confirm(k) ==
    /\ seen' = [seen EXCEPT ![k] = NoTx]
    /\ UNCHANGED <<trackerVars, checked, refused, now>>

Tick ==
    /\ now < MaxTime
    /\ now' = now + 1
    /\ UNCHANGED <<trackerVars, seenVars>>

-----------------------------------------------------------------------------
Init ==
    /\ pending = {}
    /\ acks = [tx \in Txs |-> {}]
    /\ quorum = [tx \in Txs |-> 1]
    /\ submitted = [tx \in Txs |-> 0]
    /\ finalized = [tx \in Txs |-> "none"]
    /\ default_quorum = 1
    /\ fired = [tx \in Txs |-> 0]
    /\ seen = [k \in Keys |-> NoTx]
    /\ checked = {}
    /\ refused = {}
    /\ now = 0

Next ==
    \/ \E tx \in Txs : RegisterTx(tx)
    \/ \E tx \in Txs : CheckDoubleSpend(tx) \/ RejectDoubleSpend(tx)
                        \/ DropTx(tx) \/ RecordSeen(tx)
    \/ \E k \in Keys : Confirm(k)
    \/ \E tx \in Txs, q \in 0..MaxPeers : RegisterTxWithQuorum(tx, q)
    \/ \E ack \in Acks : TxAckMessage(ack)
    \/ \E n \in 0..MaxPeers : UpdateQuorum(n)
    \/ CleanupTimeouts
    \/ Tick

Spec == Init /\ [][Next]_vars

-----------------------------------------------------------------------------
(* Properties                                                              *)

\* A transaction that peers are told is final had its callback run, once only
\* although ACKs keep arriving, and has the ACKs of as many different peers as
\* the quorum it was registered with, whatever update_quorum did since.
FinalByQuorum ==
    \A tx \in Txs :
        /\ fired[tx] <= 1
        /\ TxStatus(tx).is_final => fired[tx] = 1
        /\ fired[tx] = 1 => Cardinality(acks[tx]) >= quorum[tx]

\* A pending transaction is short of its quorum: no transaction has its quorum
\* and waits for one more ACK to notice, or is both pending and final.
PendingIsOpen ==
    \A tx \in pending :
        /\ finalized[tx] = "none"
        /\ fired[tx] = 0
        /\ Cardinality(acks[tx]) < quorum[tx]

\* A rejected transaction, a timed out one included, is never pending or
\* confirmed again: a late ACK or a second registration does not revive it.
RejectedIsTerminal ==
    [][\A tx \in Txs : finalized[tx] = "rejected"
          => finalized'[tx] = "rejected" /\ tx \notin pending']_vars

=============================================================================

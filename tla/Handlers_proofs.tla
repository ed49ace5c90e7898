--------------------------- MODULE Handlers_proofs ---------------------------
(***************************************************************************)
(* Proofs about two things the handlers of a node share, each a            *)
(* specification of its own: the finality manager (Finality, for any       *)
(* number of transactions and peers) and the locks (NodeLocks, for any     *)
(* number of tasks).                                                       *)
(*                                                                         *)
(* Finality.  The inductive invariant adds to the checked invariants that  *)
(* a transaction whose callback ran is in the finalized map: that is what  *)
(* keeps register_tx from starting it over with an empty set of ACKs.      *)
(*                                                                         *)
(* NodeLocks.  Every handler drops what it has taken, so a queue has       *)
(* exactly the tasks that hold its lock and some of those that await it;   *)
(* all handlers but OutOfOrder take locks in the order chain, mempool,     *)
(* ledger.                                                                 *)
(***************************************************************************)
EXTENDS Finality, NodeLocks, FiniteSetTheorems, SequenceTheorems, WellFoundedInduction, TLAPS

-----------------------------------------------------------------------------
(* Finality                                                                *)

\* Once the callback ran the transaction stays in the finalized map.
FiredIsTracked == \A tx \in Txs : fired[tx] # 0 => finalized[tx] # "none"

FinalityInv == TypeOK /\ FinalByQuorum /\ PendingIsOpen /\ FiredIsTracked

-----------------------------------------------------------------------------
\* Adding an ACK to a finite set of ACKs counts one more peer, once.
LEMMA OneMoreAck ==
    ASSUME NEW S \in SUBSET Peers, NEW p \in Peers
    PROVE  /\ IsFiniteSet(S)
           /\ Cardinality(S) \in Nat
           /\ Cardinality(S \cup {p}) \in Nat
           /\ Cardinality({}) = 0
  <1>1. IsFiniteSet(Peers)
    BY FinalityAssumption
  <1>2. IsFiniteSet(S)
    BY <1>1, FS_Subset
  <1>3. IsFiniteSet(S \cup {p})
    BY <1>2, FS_AddElement
  <1> QED
    BY <1>2, <1>3, FS_CardinalityType, FS_EmptySet

\* calculate_quorum and the .max(1) around it never give an empty quorum.
LEMMA QuorumPositive ==
    ASSUME NEW n \in Nat
    PROVE  /\ AtLeastOne(n) \in Nat \ {0}
           /\ CalculateQuorum(n) \in Nat \ {0}
  BY DEF AtLeastOne, CalculateQuorum

\* Peers are told that exactly the confirmed transactions are final.
LEMMA ToldFinal == \A tx \in Txs : TxStatus(tx).is_final <=> finalized[tx] = "confirmed"
  BY DEF TxStatus

LEMMA ToldFinalNext == \A tx \in Txs : TxStatus(tx)'.is_final <=> finalized'[tx] = "confirmed"
  BY DEF TxStatus

\* An empty tracker.
LEMMA InitInv == Init => FinalityInv
  <1> SUFFICES ASSUME Init PROVE FinalityInv
    OBVIOUS
  <1> USE DEF Init
  <1>1. TypeOK
    BY FinalityAssumption DEF TypeOK, Statuses
  <1>2. FinalByQuorum
    BY ToldFinal, ToldFinalNext DEF FinalByQuorum
  <1>3. PendingIsOpen /\ FiredIsTracked
    BY DEF PendingIsOpen, FiredIsTracked
  <1> QED
    BY <1>1, <1>2, <1>3 DEF FinalityInv

\* Registering starts a transaction nobody tracks with no ACK and a quorum of
\* at least one.
LEMMA TrackInv ==
    ASSUME FinalityInv, NEW tx \in Txs, NEW q \in Nat \ {0}, Track(tx, q)
    PROVE  FinalityInv'
  <1> USE DEF FinalityInv, Track, Tracked, seenVars
  <1>1. TypeOK'
    BY DEF TypeOK
  <1>2. Cardinality({}) = 0
    BY FS_EmptySet
  <1>3. fired[tx] = 0
    BY DEF TypeOK, FiredIsTracked
  <1>4. FinalByQuorum'
    BY <1>3, ToldFinal, ToldFinalNext DEF FinalByQuorum, TypeOK
  <1>5. PendingIsOpen'
    BY <1>2, <1>3 DEF PendingIsOpen, TypeOK
  <1>6. FiredIsTracked'
    BY DEF FiredIsTracked
  <1> QED
    BY <1>1, <1>4, <1>5, <1>6

\* The ACK that completes the quorum moves the transaction and runs the
\* callback; any other ACK leaves it pending and short of the quorum.
LEMMA AckInv ==
    ASSUME FinalityInv, NEW tx \in Txs, NEW peer \in Peers, RecordAck(tx, peer)
    PROVE  FinalityInv'
  <1> DEFINE now_ == Cardinality(acks[tx] \cup {peer})
  <1> USE DEF FinalityInv, RecordAck, seenVars
  <1>1. acks[tx] \in SUBSET Peers
    BY DEF TypeOK
  <1>2. now_ \in Nat
    BY <1>1, OneMoreAck
  <1>3. acks'[tx] = acks[tx] \cup {peer}
    BY DEF TypeOK
  <1>4. fired[tx] = 0
    BY DEF PendingIsOpen
  <1>5. CASE now_ >= quorum[tx]
    <2>1. TypeOK'
      BY <1>5 DEF TypeOK, Statuses
    <2>2. fired'[tx] = 1 /\ finalized'[tx] = "confirmed" /\ tx \notin pending'
      BY <1>4, <1>5 DEF TypeOK
    <2>3. \A t \in Txs \ {tx} : /\ fired'[t] = fired[t] /\ acks'[t] = acks[t]
                                /\ finalized'[t] = finalized[t]
                                /\ quorum'[t] = quorum[t]
                                /\ t \in pending' <=> t \in pending
      BY <1>5 DEF TypeOK
    <2>4. FinalByQuorum'
      BY <1>2, <1>3, <1>5, <2>2, <2>3, ToldFinal, ToldFinalNext DEF FinalByQuorum, TypeOK
    <2>5. PendingIsOpen'
      BY <2>2, <2>3 DEF PendingIsOpen, TypeOK
    <2>6. FiredIsTracked'
      BY <2>2, <2>3 DEF FiredIsTracked
    <2> QED
      BY <2>1, <2>4, <2>5, <2>6
  <1>6. CASE ~(now_ >= quorum[tx])
    <2>1. TypeOK'
      BY <1>6 DEF TypeOK
    <2>2. UNCHANGED <<pending, finalized, fired, quorum>>
      BY <1>6
    <2>3. \A t \in Txs \ {tx} : acks'[t] = acks[t]
      BY DEF TypeOK
    <2>4. FinalByQuorum'
      BY <1>4, <2>2, <2>3, ToldFinal, ToldFinalNext DEF FinalByQuorum
    <2>5. now_ < quorum[tx]
      BY <1>2, <1>6 DEF TypeOK
    <2>6. PendingIsOpen'
      BY <1>3, <2>2, <2>3, <2>5 DEF PendingIsOpen, TypeOK
    <2>7. FiredIsTracked'
      BY <2>2 DEF FiredIsTracked
    <2> QED
      BY <2>1, <2>4, <2>6, <2>7
  <1> QED
    BY <1>5, <1>6

\* Taking transactions out of pending and marking them rejected.
LEMMA RejectInv ==
    ASSUME FinalityInv, NEW S \in SUBSET Txs,
           pending' = pending \ S,
           finalized' = [t \in Txs |-> IF t \in S THEN "rejected" ELSE finalized[t]],
           UNCHANGED <<acks, quorum, submitted, default_quorum, fired, seen, now>>,
           checked' \in SUBSET Txs, refused' \in SUBSET Txs
    PROVE  FinalityInv'
  <1> USE DEF FinalityInv
  <1>1. TypeOK'
    BY DEF TypeOK, Statuses
  <1>2. FinalByQuorum'
    BY ToldFinal, ToldFinalNext DEF FinalByQuorum
  <1>3. PendingIsOpen'
    BY DEF PendingIsOpen, TypeOK
  <1>4. FiredIsTracked'
    BY DEF FiredIsTracked
  <1> QED
    BY <1>1, <1>2, <1>3, <1>4

\* Steps of the handlers and of the clock do not touch the tracker's maps.
LEMMA UntrackedInv ==
    ASSUME FinalityInv, UNCHANGED <<pending, acks, quorum, submitted, finalized, fired>>,
           default_quorum' \in Nat \ {0}, seen' \in [Keys -> Txs \cup {NoTx}],
           checked' \in SUBSET Txs, refused' \in SUBSET Txs, now' \in 0..MaxTime
    PROVE  FinalityInv'
  BY ToldFinal, ToldFinalNext DEF FinalityInv, TypeOK, FinalByQuorum, PendingIsOpen, FiredIsTracked

\* An ACK of the network acts through record_ack only.
LEMMA AckMessage ==
    ASSUME NEW ack \in Acks, TxAckMessage(ack)
    PROVE  \E tx \in Txs, peer \in Peers : RecordAck(tx, peer)
  BY DEF Acks, TxAckMessage

\* One step per method, each by what it does to the two maps.
LEMMA StepInv == FinalityInv /\ [Next]_vars => FinalityInv'
  <1> SUFFICES ASSUME FinalityInv, [Next]_vars PROVE FinalityInv'
    OBVIOUS
  <1>0. TypeOK
    BY DEF FinalityInv
  <1>1. ASSUME NEW tx \in Txs, RegisterTx(tx) PROVE FinalityInv'
    BY <1>0, <1>1, TrackInv DEF RegisterTx, TypeOK
  <1>2. ASSUME NEW tx \in Txs, NEW q \in 0..MaxPeers, RegisterTxWithQuorum(tx, q)
        PROVE  FinalityInv'
    <2>1. AtLeastOne(q) \in Nat \ {0}
      BY QuorumPositive, FinalityAssumption
    <2> QED
      BY <1>2, <2>1, TrackInv DEF RegisterTxWithQuorum
  <1>3. ASSUME NEW tx \in Txs, NEW peer \in Peers, RecordAck(tx, peer)
        PROVE  FinalityInv'
    BY <1>3, AckInv
  <1>4. ASSUME NEW tx \in Txs, RejectDoubleSpend(tx) PROVE FinalityInv'
    <2>1. finalized' = [t \in Txs |-> IF t \in {tx} THEN "rejected" ELSE finalized[t]]
      BY <1>0, <1>4 DEF RejectDoubleSpend, Reject, TypeOK
    <2>2. /\ pending' = pending \ {tx}
          /\ UNCHANGED <<acks, quorum, submitted, default_quorum, fired, seen, now>>
      BY <1>4 DEF RejectDoubleSpend, Reject
    <2>3. checked' \in SUBSET Txs /\ refused' \in SUBSET Txs
      BY <1>0, <1>4 DEF RejectDoubleSpend, Reject, TypeOK
    <2> QED
      BY <2>1, <2>2, <2>3, RejectInv
  <1>5. ASSUME CleanupTimeouts PROVE FinalityInv'
    <2> DEFINE S == {t \in Txs : TimedOut(t)}
    <2>1. /\ pending' = pending \ S
          /\ finalized' = [t \in Txs |-> IF t \in S THEN "rejected" ELSE finalized[t]]
      BY <1>0, <1>5 DEF CleanupTimeouts, TypeOK
    <2>2. /\ UNCHANGED <<acks, quorum, submitted, default_quorum, fired, seen, now>>
          /\ checked' \in SUBSET Txs /\ refused' \in SUBSET Txs
      BY <1>0, <1>5 DEF CleanupTimeouts, seenVars, TypeOK
    <2>3. S \in SUBSET Txs
      OBVIOUS
    <2> HIDE DEF S
    <2> QED
      BY <2>1, <2>2, <2>3, RejectInv
  <1>6. ASSUME NEW n \in 0..MaxPeers, UpdateQuorum(n) PROVE FinalityInv'
    <2>1. default_quorum' \in Nat \ {0}
      BY <1>6, QuorumPositive, FinalityAssumption DEF UpdateQuorum
    <2> QED
      BY <1>0, <1>6, <2>1, UntrackedInv DEF UpdateQuorum, seenVars, TypeOK
  <1>7. ASSUME NEW tx \in Txs, CheckDoubleSpend(tx) \/ DropTx(tx) PROVE FinalityInv'
    BY <1>0, <1>7, UntrackedInv
    DEF CheckDoubleSpend, DropTx, trackerVars, TypeOK
  <1>8. ASSUME NEW tx \in Txs, RecordSeen(tx) PROVE FinalityInv'
    BY <1>0, <1>8, UntrackedInv DEF RecordSeen, trackerVars, TypeOK
  <1>9. ASSUME NEW k \in Keys, Confirm(k) PROVE FinalityInv'
    BY <1>0, <1>9, UntrackedInv DEF Confirm, trackerVars, TypeOK
  <1>10. ASSUME Tick PROVE FinalityInv'
    BY <1>0, <1>10, UntrackedInv, FinalityAssumption
    DEF Tick, trackerVars, seenVars, TypeOK
  <1>11. ASSUME UNCHANGED vars PROVE FinalityInv'
    BY <1>0, <1>11, UntrackedInv DEF vars, TypeOK
  <1> QED
    BY <1>1, <1>2, <1>3, <1>4, <1>5, <1>6, <1>7, <1>8, <1>9, <1>10, <1>11, AckMessage DEF Next

\* The inductive invariant of the tracker.
LEMMA Invariant == Spec => []FinalityInv
  BY InitInv, StepInv, PTL DEF Spec

\* The tracker's maps and the handlers' sets keep their types.
THEOREM TypesHold == Spec => []TypeOK
  <1>1. FinalityInv => TypeOK
    BY DEF FinalityInv
  <1> QED
    BY Invariant, <1>1, PTL

\* The callback of a transaction runs at most once, and only with ACKs of as
\* many different peers as the quorum it was registered with.
THEOREM FinalNeedsQuorum == Spec => []FinalByQuorum
  <1>1. FinalityInv => FinalByQuorum
    BY DEF FinalityInv
  <1> QED
    BY Invariant, <1>1, PTL

\* No transaction is pending with its quorum complete, or pending and final.
THEOREM PendingStaysOpen == Spec => []PendingIsOpen
  <1>1. FinalityInv => PendingIsOpen
    BY DEF FinalityInv
  <1> QED
    BY Invariant, <1>1, PTL

\* Neither a late ACK nor a second registration revives a rejected transaction.
THEOREM RejectionIsTerminal == Spec => RejectedIsTerminal
  <1> DEFINE Stays == \A tx \in Txs : finalized[tx] = "rejected"
                          => finalized'[tx] = "rejected" /\ tx \notin pending'
  <1>1. FinalityInv /\ [Next]_vars => [Stays]_vars
    <2> SUFFICES ASSUME FinalityInv, Next, NEW tx \in Txs, finalized[tx] = "rejected"
                 PROVE  finalized'[tx] = "rejected" /\ tx \notin pending'
      OBVIOUS
    <2>0. TypeOK /\ tx \notin pending
      BY DEF FinalityInv, PendingIsOpen
    <2>1. ASSUME NEW t \in Txs, NEW q, Track(t, q) PROVE t # tx
      BY <2>1 DEF Track, Tracked
    <2>2. CASE \E t \in Txs : RegisterTx(t)
      BY <2>0, <2>1, <2>2 DEF RegisterTx, Track
    <2>3. CASE \E t \in Txs, q \in 0..MaxPeers : RegisterTxWithQuorum(t, q)
      BY <2>0, <2>1, <2>3 DEF RegisterTxWithQuorum, Track
    <2>4. CASE \E t \in Txs, peer \in Peers : RecordAck(t, peer)
      BY <2>0, <2>4 DEF RecordAck, TypeOK
    <2>5. CASE \E t \in Txs : RejectDoubleSpend(t)
      BY <2>0, <2>5 DEF RejectDoubleSpend, Reject, TypeOK
    <2>6. CASE CleanupTimeouts
      BY <2>0, <2>6 DEF CleanupTimeouts, TypeOK
    <2>7. CASE \/ \E n \in 0..MaxPeers : UpdateQuorum(n)
               \/ \E t \in Txs : CheckDoubleSpend(t) \/ DropTx(t) \/ RecordSeen(t)
               \/ \E k \in Keys : Confirm(k)
               \/ Tick
      BY <2>0, <2>7
      DEF UpdateQuorum, CheckDoubleSpend, DropTx, RecordSeen, Confirm, Tick, trackerVars
    <2> QED
      BY <2>2, <2>3, <2>4, <2>5, <2>6, <2>7, AckMessage DEF Next
  <1> QED
    BY Invariant, <1>1, PTL DEF Spec, RejectedIsTerminal

-----------------------------------------------------------------------------
(* The handlers: what they hold where                                      *)

Ops == [op : {"read", "write", "drop"}, lock : Locks]

Takes(s, i, l) == s[i].op # "drop" /\ s[i].lock = l
Drops(s, i, l) == s[i].op = "drop" /\ s[i].lock = l

\* Before its n-th operation s has taken l and not dropped it.
Held(s, n, l) == \E i \in 1..n - 1 : Takes(s, i, l) /\ \A j \in i + 1..n - 1 : ~Drops(s, j, l)

\* Whoever goes through s drops what it holds and holds nothing at the end.
LetsGo(s) == \A l \in Locks : ~Held(s, Len(s) + 1, l)
Balanced(s) ==
    /\ s \in Seq(Ops) /\ Len(s) > 0
    /\ LetsGo(s)
    /\ \A n \in 1..Len(s) : s[n].op = "drop" => Held(s, n, s[n].lock)

\* The order in which handlers that are not OutOfOrder take the locks.
Rank(l) == CASE l = "chain" -> 1 [] l = "mempool" -> 2 [] OTHER -> 3

Ordered(s) ==
    /\ Balanced(s)
    /\ \A n \in 1..Len(s), l \in Locks : s[n].op # "drop" /\ Held(s, n, l) => Rank(l) < Rank(s[n].lock)

\* What is held when one section follows another.
LEMMA HeldInConcat ==
    ASSUME NEW s \in Seq(Ops), NEW t \in Seq(Ops), LetsGo(s), NEW l \in Locks,
           NEW n \in 1..Len(s) + Len(t) + 1
    PROVE  /\ n <= Len(s) => (Held(s \o t, n, l) <=> Held(s, n, l))
           /\ n > Len(s) => (Held(s \o t, n, l) <=> Held(t, n - Len(s), l))
  <1> DEFINE k == Len(s)
             c == s \o t
  <1>1. k \in Nat /\ Len(t) \in Nat
    OBVIOUS
  <1>2. /\ Len(c) = k + Len(t)
        /\ \A i \in 1..k : c[i] = s[i]
        /\ \A i \in 1..Len(t) : c[k + i] = t[i]
    OBVIOUS
  <1> HIDE DEF c
  <1>3. ASSUME Held(c, n, l)
        PROVE  (n <= k => Held(s, n, l)) /\ (n > k => Held(t, n - k, l))
    <2>1. PICK i \in 1..n - 1 : Takes(c, i, l) /\ \A j \in i + 1..n - 1 : ~Drops(c, j, l)
      BY <1>3 DEF Held
    <2>2. CASE n <= k
      <3>1. i \in 1..k /\ \A j \in i + 1..n - 1 : j \in 1..k
        BY <1>1, <2>2
      <3>2. Takes(s, i, l) /\ \A j \in i + 1..n - 1 : ~Drops(s, j, l)
        BY <1>2, <2>1, <3>1 DEF Takes, Drops
      <3> QED  BY <1>1, <2>2, <3>2 DEF Held
    <2>3. CASE n > k /\ i <= k
      <3>1. i \in 1..k /\ \A j \in i + 1..k : j \in 1..k /\ j \in i + 1..n - 1
        BY <1>1, <2>3
      <3>2. Takes(s, i, l) /\ \A j \in i + 1..k : ~Drops(s, j, l)
        BY <1>2, <2>1, <3>1 DEF Takes, Drops
      <3>3. Held(s, k + 1, l)
        <4>1. k + 1 - 1 = k
          BY <1>1
        <4> QED  BY <3>1, <3>2, <4>1 DEF Held
      <3> QED  BY <3>3 DEF LetsGo
    <2>4. CASE n > k /\ i > k
      <3>1. PICK m \in Nat : i = k + m
        <4>1. i - k \in Nat /\ i = k + (i - k)
          BY <1>1, <2>4
        <4> QED  BY <4>1
      <3>2. m \in 1..n - k - 1 /\ m \in 1..Len(t)
        BY <1>1, <2>4, <3>1
      <3>3. Takes(t, m, l)
        BY <1>2, <2>1, <3>1, <3>2 DEF Takes
      <3>4. ASSUME NEW j \in m + 1..n - k - 1 PROVE ~Drops(t, j, l)
        <4>1. j \in 1..Len(t) /\ k + j \in i + 1..n - 1
          BY <1>1, <2>4, <3>1, <3>2
        <4> QED  BY <1>2, <2>1, <4>1 DEF Drops
      <3> QED  BY <2>4, <3>2, <3>3, <3>4 DEF Held
    <2> QED  BY <1>1, <2>2, <2>3, <2>4
  <1>4. ASSUME n <= k, Held(s, n, l) PROVE Held(c, n, l)
    <2>1. PICK i \in 1..n - 1 : Takes(s, i, l) /\ \A j \in i + 1..n - 1 : ~Drops(s, j, l)
      BY <1>4 DEF Held
    <2>2. i \in 1..k /\ \A j \in i + 1..n - 1 : j \in 1..k
      BY <1>1, <1>4
    <2>3. Takes(c, i, l) /\ \A j \in i + 1..n - 1 : ~Drops(c, j, l)
      <3>1. Takes(c, i, l)
        BY <1>2, <2>1, <2>2 DEF Takes
      <3>2. ASSUME NEW j \in i + 1..n - 1 PROVE ~Drops(c, j, l)
        <4>1. c[j] = s[j]
          BY <1>2, <2>2
        <4> QED  BY <2>1, <4>1 DEF Drops
      <3> QED  BY <3>1, <3>2
    <2> QED  BY <2>3 DEF Held
  <1>5. ASSUME n > k, Held(t, n - k, l) PROVE Held(c, n, l)
    <2>1. PICK i \in 1..n - k - 1 : Takes(t, i, l) /\ \A j \in i + 1..n - k - 1 : ~Drops(t, j, l)
      BY <1>5 DEF Held
    <2>2. i \in 1..Len(t) /\ k + i \in 1..n - 1
      BY <1>1, <1>5
    <2>3. Takes(c, k + i, l)
      BY <1>2, <2>1, <2>2 DEF Takes
    <2>4. ASSUME NEW j \in (k + i) + 1..n - 1 PROVE ~Drops(c, j, l)
      <3>1. PICK m \in i + 1..n - k - 1 : j = k + m
        <4>1. j - k \in i + 1..n - k - 1 /\ j = k + (j - k)
          BY <1>1, <1>5, <2>2
        <4> QED  BY <4>1
      <3>2. m \in 1..Len(t)
        BY <1>1, <1>5, <2>2
      <3> QED  BY <1>2, <2>1, <3>1, <3>2 DEF Drops
    <2> QED  BY <2>2, <2>3, <2>4 DEF Held
  <1> QED  BY <1>1, <1>3, <1>4, <1>5 DEF c

\* Sections that hold nothing at the end can follow one another.
LEMMA BalancedConcat ==
    ASSUME NEW s, NEW t, Balanced(s), Balanced(t)
    PROVE  Balanced(s \o t)
  <1>1. s \in Seq(Ops) /\ t \in Seq(Ops) /\ Len(s) \in Nat /\ Len(t) \in Nat /\ Len(s) > 0 /\ LetsGo(s) /\ LetsGo(t)
    BY DEF Balanced
  <1>2. /\ s \o t \in Seq(Ops) /\ Len(s \o t) = Len(s) + Len(t)
        /\ \A i \in 1..Len(s) : (s \o t)[i] = s[i]
        /\ \A i \in 1..Len(t) : (s \o t)[Len(s) + i] = t[i]
    BY <1>1
  <1>3. ASSUME NEW l \in Locks, Held(s \o t, Len(s) + Len(t) + 1, l) PROVE FALSE
    <2>1. Len(s) + Len(t) + 1 \in 1..Len(s) + Len(t) + 1 /\ Len(s) + Len(t) + 1 > Len(s)
          /\ Len(s) + Len(t) + 1 - Len(s) = Len(t) + 1
      BY <1>1
    <2>2. Held(t, Len(t) + 1, l)
      BY <1>1, <1>3, <2>1, HeldInConcat
    <2> QED  BY <1>1, <2>2 DEF LetsGo
  <1>4. ASSUME NEW n \in 1..Len(s) + Len(t), (s \o t)[n].op = "drop" PROVE Held(s \o t, n, (s \o t)[n].lock)
    <2>1. n \in 1..Len(s) + Len(t) + 1
      BY <1>1
    <2>2. CASE n <= Len(s)
      <3>1. n \in 1..Len(s)
        BY <1>1, <2>2
      <3>2. (s \o t)[n] = s[n] /\ s[n] \in Ops
        BY <1>1, <1>2, <3>1
      <3>3. Held(s, n, s[n].lock) /\ s[n].lock \in Locks
        BY <1>4, <3>1, <3>2 DEF Balanced, Ops
      <3> QED  BY <1>1, <2>1, <2>2, <3>2, <3>3, HeldInConcat
    <2>3. CASE n > Len(s)
      <3>1. n - Len(s) \in 1..Len(t) /\ Len(s) + (n - Len(s)) = n
        BY <1>1, <2>3
      <3>2. (s \o t)[n] = t[n - Len(s)] /\ t[n - Len(s)] \in Ops
        BY <1>1, <1>2, <3>1
      <3>3. Held(t, n - Len(s), (s \o t)[n].lock) /\ (s \o t)[n].lock \in Locks
        BY <1>4, <3>1, <3>2 DEF Balanced, Ops
      <3> QED  BY <1>1, <2>1, <2>3, <3>3, HeldInConcat
    <2> QED  BY <1>1, <2>2, <2>3
  <1> QED  BY <1>1, <1>2, <1>3, <1>4 DEF Balanced, LetsGo

\* And keep the order.
LEMMA OrderedConcat ==
    ASSUME NEW s, NEW t, Ordered(s), Ordered(t)
    PROVE  Ordered(s \o t)
  <1>1. s \in Seq(Ops) /\ t \in Seq(Ops) /\ Len(s) \in Nat /\ Len(t) \in Nat /\ Balanced(s) /\ Balanced(t) /\ LetsGo(s)
    BY DEF Balanced, Ordered
  <1>2. Balanced(s \o t)
    BY <1>1, BalancedConcat
  <1>3. /\ Len(s \o t) = Len(s) + Len(t)
        /\ \A i \in 1..Len(s) : (s \o t)[i] = s[i]
        /\ \A i \in 1..Len(t) : (s \o t)[Len(s) + i] = t[i]
    BY <1>1
  <1>4. ASSUME NEW n \in 1..Len(s) + Len(t), NEW l \in Locks, (s \o t)[n].op # "drop", Held(s \o t, n, l)
        PROVE  Rank(l) < Rank((s \o t)[n].lock)
    <2>0. n \in 1..Len(s) + Len(t) + 1
      BY <1>1
    <2>1. CASE n <= Len(s)
      <3>1. Held(s, n, l)
        BY <1>1, <1>4, <2>0, <2>1, HeldInConcat
      <3>2. n \in 1..Len(s)
        BY <1>1, <2>1
      <3>3. (s \o t)[n] = s[n]
        BY <1>3, <3>2
      <3> QED  BY <1>4, <3>1, <3>2, <3>3 DEF Ordered
    <2>2. CASE n > Len(s)
      <3>1. Held(t, n - Len(s), l)
        BY <1>1, <1>4, <2>0, <2>2, HeldInConcat
      <3>2. n - Len(s) \in 1..Len(t) /\ Len(s) + (n - Len(s)) = n
        BY <1>1, <2>2
      <3>3. (s \o t)[n] = t[n - Len(s)]
        BY <1>3, <3>2
      <3> QED  BY <1>4, <3>1, <3>2, <3>3 DEF Ordered
    <2> QED  BY <1>1, <2>1, <2>2
  <1> QED  BY <1>2, <1>3, <1>4 DEF Ordered

\* A lock that is taken and dropped.
LEMMA OneLock ==
    ASSUME NEW l \in Locks
    PROVE  Ordered(<<Read(l), Drop(l)>>) /\ Ordered(<<Write(l), Drop(l)>>)
  <1>1. ASSUME NEW s \in Seq(Ops), Len(s) = 2, s[1].op # "drop", s[1].lock = l, s[2] = Drop(l)
        PROVE  Ordered(s)
    <2>1. s[2].op = "drop" /\ s[2].lock = l
      BY <1>1 DEF Drop
    <2>2. ASSUME NEW m \in Locks PROVE ~Held(s, 3, m) /\ ~Held(s, 1, m)
      BY <1>1, <2>1 DEF Held, Takes, Drops
    <2>3. Held(s, 2, l)
      BY <1>1 DEF Held, Takes
    <2>4. ASSUME NEW n \in 1..2, s[n].op = "drop" PROVE n = 2
      BY <1>1, <2>4
    <2>5. Balanced(s)
      BY <1>1, <2>1, <2>2, <2>3, <2>4 DEF Balanced, LetsGo
    <2>6. ASSUME NEW n \in 1..2, s[n].op # "drop" PROVE n = 1
      BY <2>1, <2>6
    <2> QED  BY <1>1, <2>2, <2>5, <2>6 DEF Ordered
  <1>2. Read(l) \in Ops /\ Write(l) \in Ops /\ Drop(l) \in Ops
    BY DEF Read, Write, Drop, Ops
  <1>3. ASSUME NEW o \in Ops, o.op # "drop", o.lock = l PROVE Ordered(<<o, Drop(l)>>)
    <2> DEFINE s == <<o, Drop(l)>>
    <2>1. s \in Seq(Ops) /\ Len(s) = 2 /\ s[1] = o /\ s[2] = Drop(l)
      BY <1>2
    <2> HIDE DEF s
    <2>2. Ordered(s)
      BY <1>1, <1>3, <2>1
    <2> QED  BY <2>2 DEF s
  <1>4. Read(l).op # "drop" /\ Write(l).op # "drop" /\ Read(l).lock = l /\ Write(l).lock = l
    BY DEF Read, Write
  <1> QED  BY <1>2, <1>3, <1>4

\* Two locks, the second taken under the first and both dropped in any order.
LEMMA TwoLocks ==
    ASSUME NEW l \in Locks, NEW m \in Locks, l # m, NEW o \in Ops, NEW q \in Ops,
           o.op # "drop", o.lock = l, q.op # "drop", q.lock = m,
           NEW x, NEW y, {x, y} = {Drop(l), Drop(m)}
    PROVE  /\ Balanced(<<o, q, x, y>>)
           /\ Rank(l) < Rank(m) => Ordered(<<o, q, x, y>>)
  <1> DEFINE s == <<o, q, x, y>>
  <1>1. /\ x \in Ops /\ y \in Ops /\ x.op = "drop" /\ y.op = "drop"
        /\ (x.lock = l /\ y.lock = m) \/ (x.lock = m /\ y.lock = l)
    <2>1. Drop(l) \in Ops /\ Drop(m) \in Ops /\ Drop(l).op = "drop" /\ Drop(m).op = "drop"
          /\ Drop(l).lock = l /\ Drop(m).lock = m
      BY DEF Drop, Ops
    <2>2. (x = Drop(l) /\ y = Drop(m)) \/ (x = Drop(m) /\ y = Drop(l))
      <3>1. Drop(l) # Drop(m)
        BY DEF Drop
      <3> QED  BY <3>1
    <2> QED  BY <2>1, <2>2
  <1>2. s \in Seq(Ops) /\ Len(s) = 4 /\ s[1] = o /\ s[2] = q /\ s[3] = x /\ s[4] = y
    BY <1>1
  <1> HIDE DEF s
  <1>3. ASSUME NEW k \in Locks PROVE ~Held(s, 5, k)
    <2> SUFFICES ASSUME NEW i \in 1..4, Takes(s, i, k), \A j \in i + 1..4 : ~Drops(s, j, k) PROVE FALSE
      BY DEF Held
    <2>1. i = 1 \/ i = 2
      BY <1>1, <1>2 DEF Takes
    <2>2. 3 \in i + 1..4 /\ 4 \in i + 1..4
      BY <2>1
    <2>3. ~Drops(s, 3, k) /\ ~Drops(s, 4, k)
      BY <2>2
    <2>4. k = l \/ k = m
      BY <1>2, <2>1 DEF Takes
    <2> QED  BY <1>1, <1>2, <2>3, <2>4 DEF Drops
  <1>4. Balanced(s)
    <2>1. Takes(s, 1, l) /\ Takes(s, 2, m)
      BY <1>2 DEF Takes
    <2>2. Held(s, 3, l) /\ Held(s, 3, m)
      BY <1>1, <1>2, <2>1 DEF Held, Drops
    <2>3. Held(s, 4, s[4].lock)
      <3>1. CASE s[4].lock = m
        BY <1>1, <1>2, <2>1, <3>1 DEF Held, Drops
      <3>2. CASE s[4].lock = l
        <4>1. \A j \in 1 + 1..4 - 1 : ~Drops(s, j, l)
          BY <1>1, <1>2, <3>2 DEF Drops
        <4> QED  BY <2>1, <3>2, <4>1 DEF Held
      <3> QED  BY <1>1, <1>2, <3>1, <3>2
    <2>4. ASSUME NEW n \in 1..4, s[n].op = "drop" PROVE Held(s, n, s[n].lock)
      <3>1. n = 3 \/ n = 4
        BY <1>2, <2>4
      <3> QED  BY <1>1, <1>2, <2>2, <2>3, <3>1
    <2> QED  BY <1>2, <1>3, <2>4 DEF Balanced, LetsGo
  <1>5. ASSUME Rank(l) < Rank(m) PROVE Ordered(s)
    <2> SUFFICES ASSUME NEW n \in 1..4, NEW k \in Locks, s[n].op # "drop", Held(s, n, k)
                 PROVE  Rank(k) < Rank(s[n].lock)
      BY <1>2, <1>4 DEF Ordered
    <2>1. n = 1 \/ n = 2
      BY <1>1, <1>2
    <2>2. PICK i \in 1..n - 1 : Takes(s, i, k)
      BY DEF Held
    <2>3. n = 2 /\ i = 1
      BY <2>1, <2>2
    <2> QED  BY <1>2, <1>5, <2>2, <2>3 DEF Takes
  <1> QED  BY <1>4, <1>5 DEF s

\* The order of the locks.
LEMMA Ranks ==
    /\ Rank("chain") < Rank("mempool") /\ Rank("mempool") < Rank("ledger") /\ Rank("chain") < Rank("ledger")
    /\ \A l \in Locks : Rank(l) \in 1..3
  BY DEF Rank, Locks

LEMMA OpForms ==
    ASSUME NEW l \in Locks
    PROVE  /\ Read(l) \in Ops /\ Read(l).op # "drop" /\ Read(l).lock = l
           /\ Write(l) \in Ops /\ Write(l).op # "drop" /\ Write(l).lock = l
  BY DEF Read, Write, Ops

LEMMA Sections ==
    /\ Ordered(ReadChain) /\ Ordered(ReadLedger) /\ Ordered(ReadMempool) /\ Ordered(WriteMempool)
    /\ Ordered(WriteState) /\ Ordered(SaveState) /\ Ordered(SaveBoth)
  <1>1. "chain" \in Locks /\ "ledger" \in Locks /\ "mempool" \in Locks
    BY DEF Locks
  <1>2. Ordered(ReadChain) /\ Ordered(ReadLedger) /\ Ordered(ReadMempool) /\ Ordered(WriteMempool)
    BY <1>1, OneLock DEF ReadChain, ReadLedger, ReadMempool, WriteMempool
  <1>3. Ordered(SaveState)
    BY <1>2, OrderedConcat DEF SaveState
  <1>4. Ordered(WriteState) /\ Ordered(SaveBoth)
    <2>1. {Drop("ledger"), Drop("chain")} = {Drop("chain"), Drop("ledger")}
      OBVIOUS
    <2> QED  BY <1>1, <2>1, OpForms, TwoLocks, Ranks DEF WriteState, SaveBoth
  <1> QED  BY <1>2, <1>3, <1>4

\* A block that is applied where the guards are dropped in the order of the locks.
LEMMA ForwardState ==
    Ordered(<<Write("chain"), Write("ledger"), Drop("chain"), Drop("ledger")>>)
  <1>1. "chain" \in Locks /\ "ledger" \in Locks
    BY DEF Locks
  <1> QED  BY <1>1, OpForms, TwoLocks, Ranks

\* Handlers that are not OutOfOrder.
LEMMA OrderedHandlers ==
    ASSUME NEW h \in Handlers, h \notin OutOfOrder
    PROVE  Ordered(h)
  <1>1. "chain" \in Locks /\ "ledger" \in Locks /\ "mempool" \in Locks
    BY DEF Locks
  <1>2. Ordered(TxMessage)
    <2>1. {Drop("ledger"), Drop("mempool")} = {Drop("mempool"), Drop("ledger")}
      OBVIOUS
    <2>2. Ordered(<<Write("mempool"), Write("ledger"), Drop("ledger"), Drop("mempool")>>)
      BY <1>1, <2>1, OpForms, TwoLocks, Ranks
    <2> QED  BY <2>2, Sections, OrderedConcat DEF TxMessage
  <1>3. Ordered(MinerTemplate)
    <2>1. {Drop("mempool"), Drop("chain")} = {Drop("chain"), Drop("mempool")}
      OBVIOUS
    <2> QED  BY <1>1, <2>1, OpForms, TwoLocks, Ranks DEF MinerTemplate
  <1>4. Ordered(NewBlockMessage)
    BY Sections, OrderedConcat DEF NewBlockMessage
  <1>5. Ordered(CompetingBlock)
    BY Sections, ForwardState, OrderedConcat DEF CompetingBlock
  <1>6. Ordered(BlocksMessage)
    BY Sections, OrderedConcat DEF BlocksMessage
  <1>7. Ordered(SubmitBlock)
    BY Sections, ForwardState, OrderedConcat DEF SubmitBlock, SubmitMinedBlock
  <1>8. Ordered(GetTxByHash) /\ Ordered(GetAccountTxs) /\ Ordered(SubmitTx)
    BY Sections, OrderedConcat DEF GetTxByHash, GetAccountTxs, SubmitTx
  <1>9. /\ Ordered(TxHashMessages) /\ Ordered(HeightMessages) /\ Ordered(GetStatus) /\ Ordered(GetBlocks)
        /\ Ordered(GetMempool) /\ Ordered(GetBlockTxs) /\ Ordered(GetAccountBlocks)
        /\ Ordered(GetSupplyHistory) /\ Ordered(MinerStats) /\ Ordered(RelayMined) /\ Ordered(PeriodicStatus)
    BY Sections DEF TxHashMessages, HeightMessages, GetStatus, NodeStatus, GetBlocks, GetMempool,
       GetBlockTxs, GetAccountBlocks, GetSupplyHistory, MinerStats, RelayMined, PeriodicStatus
  <1> QED
    BY <1>2, <1>3, <1>4, <1>5, <1>6, <1>7, <1>8, <1>9 DEF Handlers, OutOfOrder

\* The others let go of everything as well.
LEMMA BalancedHandlers ==
    ASSUME NEW h \in Handlers
    PROVE  Balanced(h) /\ Len(h) \in Nat \ {0}
  <1>1. "chain" \in Locks /\ "ledger" \in Locks /\ "mempool" \in Locks
    BY DEF Locks
  <1>2. Balanced(GetAccounts) /\ Balanced(GetAccountByAddress)
    <2>1. {Drop("ledger"), Drop("chain")} = {Drop("chain"), Drop("ledger")}
      OBVIOUS
    <2> QED  BY <1>1, <2>1, OpForms, TwoLocks DEF GetAccounts, GetAccountByAddress
  <1>3. Balanced(MinerApply)
    <2> DEFINE s == MinerApply
    <2>1. /\ s \in Seq(Ops) /\ Len(s) = 6
          /\ s[1].op = "write" /\ s[1].lock = "chain" /\ s[2].op = "write" /\ s[2].lock = "ledger"
          /\ s[3].op = "write" /\ s[3].lock = "mempool" /\ s[4].op = "drop" /\ s[4].lock = "mempool"
          /\ s[5].op = "drop" /\ s[5].lock = "ledger" /\ s[6].op = "drop" /\ s[6].lock = "chain"
      BY <1>1 DEF MinerApply, Write, Drop, Ops
    <2>2. ASSUME NEW k \in Locks PROVE ~Held(s, 7, k)
      <3> SUFFICES ASSUME NEW i \in 1..6, Takes(s, i, k), \A j \in i + 1..6 : ~Drops(s, j, k) PROVE FALSE
        BY DEF Held
      <3>1. i \in 1..3
        BY <2>1 DEF Takes
      <3>2. 4 \in i + 1..6 /\ 5 \in i + 1..6 /\ 6 \in i + 1..6
        BY <3>1
      <3>3. ~Drops(s, 4, k) /\ ~Drops(s, 5, k) /\ ~Drops(s, 6, k)
        BY <3>2
      <3> QED  BY <2>1, <3>3 DEF Drops, Locks
    <2>3. Takes(s, 1, "chain") /\ Takes(s, 2, "ledger") /\ Takes(s, 3, "mempool")
      BY <2>1 DEF Takes
    <2>4. Held(s, 4, "mempool")
      BY <2>3 DEF Held
    <2>5. Held(s, 5, "ledger")
      <3>1. \A j \in 2 + 1..5 - 1 : ~Drops(s, j, "ledger")
        BY <2>1 DEF Drops
      <3> QED  BY <2>3, <3>1 DEF Held
    <2>6. Held(s, 6, "chain")
      <3>1. \A j \in 1 + 1..6 - 1 : ~Drops(s, j, "chain")
        BY <2>1 DEF Drops
      <3> QED  BY <2>3, <3>1 DEF Held
    <2>7. ASSUME NEW n \in 1..6, s[n].op = "drop" PROVE Held(s, n, s[n].lock)
      <3>1. n \in 4..6
        BY <2>1, <2>7
      <3> QED  BY <2>1, <2>4, <2>5, <2>6, <3>1
    <2> HIDE DEF s
    <2>8. Balanced(s)
      BY <2>1, <2>2, <2>7 DEF Balanced, LetsGo
    <2> QED  BY <2>8 DEF s
  <1>4. Balanced(h)
    BY <1>2, <1>3, OrderedHandlers DEF OutOfOrder, Ordered
  <1> QED  BY <1>4 DEF Balanced

-----------------------------------------------------------------------------
(* The queues                                                              *)

Entries == [task : Tasks, op : {"read", "write"}]

Awaits(t, l) == Running(t) /\ NextOp(t).op # "drop" /\ NextOp(t).lock = l
Holds(t, l) == Running(t) /\ Held(task[t].handler, task[t].next, l)

LocksTypes ==
    /\ queue \in [Locks -> Seq(Entries)]
    /\ task \in [Tasks -> {Idle} \cup [handler : Handlers, next : Nat \ {0}]]
    /\ \A t \in Tasks : Running(t) => task[t].next <= Len(task[t].handler)

\* A task has one place in a queue at most.
OnePlace == \A l \in Locks : \A i, j \in 1..Len(queue[l]) : queue[l][i].task = queue[l][j].task => i = j

\* The queue of a lock has the tasks that hold it, and of those that await it
\* the ones that have asked for it.
QueuesTell ==
    \A t \in Tasks, l \in Locks : /\ Queued(t, l) => Holds(t, l) \/ Awaits(t, l)
                                  /\ Holds(t, l) => Queued(t, l)

LocksInv == LocksTypes /\ OnePlace /\ QueuesTell

\* A place taken out of a sequence.
LEMMA RemoveAtFacts ==
    ASSUME NEW S, NEW q \in Seq(S), NEW p \in 1..Len(q)
    PROVE  /\ RemoveAt(q, p) \in Seq(S)
           /\ Len(RemoveAt(q, p)) = Len(q) - 1
           /\ \A i \in 1..Len(q) - 1 : RemoveAt(q, p)[i] = IF i < p THEN q[i] ELSE q[i + 1]
  <1> DEFINE a == SubSeq(q, 1, p - 1)
             b == SubSeq(q, p + 1, Len(q))
  <1>1. Len(q) \in Nat /\ \A i \in 1..Len(q) : q[i] \in S
    OBVIOUS
  <1>2. a \in Seq(S) /\ Len(a) = p - 1 /\ \A i \in 1..p - 1 : a[i] = q[i]
    <2>1. 1 \in Int /\ p - 1 \in Int /\ \A i \in 1..p - 1 : q[i] \in S
      BY <1>1
    <2>2. /\ a \in Seq(S) /\ Len(a) = (IF 1 <= p - 1 THEN p - 1 - 1 + 1 ELSE 0)
          /\ \A i \in 1..p - 1 - 1 + 1 : a[i] = q[1 + i - 1]
      BY ONLY <2>1, SubSeqProperties DEF a
    <2> HIDE DEF a
    <2>3. Len(a) = p - 1 /\ \A i \in 1..p - 1 : i \in 1..p - 1 - 1 + 1 /\ 1 + i - 1 = i
      BY <1>1, <2>2
    <2> QED  BY <2>2, <2>3
  <1>3. b \in Seq(S) /\ Len(b) = Len(q) - p /\ \A i \in 1..Len(q) - p : b[i] = q[p + i]
    <2>1. p + 1 \in Int /\ Len(q) \in Int /\ \A i \in p + 1..Len(q) : q[i] \in S
      BY <1>1
    <2>2. /\ b \in Seq(S) /\ Len(b) = (IF p + 1 <= Len(q) THEN Len(q) - (p + 1) + 1 ELSE 0)
          /\ \A i \in 1..Len(q) - (p + 1) + 1 : b[i] = q[p + 1 + i - 1]
      BY ONLY <2>1, SubSeqProperties DEF b
    <2> HIDE DEF b
    <2>3. Len(b) = Len(q) - p /\ \A i \in 1..Len(q) - p : i \in 1..Len(q) - (p + 1) + 1 /\ p + 1 + i - 1 = p + i
      BY <1>1, <2>2
    <2> QED  BY <2>2, <2>3
  <1>4. RemoveAt(q, p) = a \o b
    BY DEF RemoveAt
  <1> HIDE DEF a, b
  <1>5. /\ a \o b \in Seq(S) /\ Len(a \o b) = Len(q) - 1
        /\ \A i \in 1..Len(q) - 1 : (a \o b)[i] = IF i <= p - 1 THEN a[i] ELSE b[i - (p - 1)]
    <2>1. Len(a) + Len(b) = Len(q) - 1
      BY <1>1, <1>2, <1>3
    <2>2. /\ a \o b \in Seq(S) /\ Len(a \o b) = Len(a) + Len(b)
          /\ \A i \in 1..Len(a) + Len(b) : (a \o b)[i] = IF i <= Len(a) THEN a[i] ELSE b[i - Len(a)]
      BY <1>2, <1>3, ConcatProperties
    <2>3. Len(a) = p - 1
      BY <1>2
    <2> QED  BY <2>1, <2>2, <2>3
  <1>6. ASSUME NEW i \in 1..Len(q) - 1 PROVE (a \o b)[i] = IF i < p THEN q[i] ELSE q[i + 1]
    <2>1. CASE i < p
      <3>1. i \in 1..p - 1 /\ i <= p - 1
        BY <1>1, <2>1
      <3> QED  BY <1>2, <1>5, <2>1, <3>1
    <2>2. CASE ~(i < p)
      <3>1. i - (p - 1) \in 1..Len(q) - p /\ ~(i <= p - 1) /\ p + (i - (p - 1)) = i + 1
        BY <1>1, <2>2
      <3> QED  BY <1>3, <1>5, <2>2, <3>1
    <2> QED  BY <2>1, <2>2
  <1> QED  BY <1>4, <1>5, <1>6

\* What a running task is at.
LEMMA RunningForm ==
    ASSUME LocksTypes, NEW t \in Tasks, Running(t)
    PROVE  /\ task[t].handler \in Handlers /\ Balanced(task[t].handler)
           /\ task[t].next \in 1..Len(task[t].handler) /\ Len(task[t].handler) \in Nat
           /\ NextOp(t) \in Ops /\ NextOp(t).lock \in Locks
           /\ task[t] = [handler |-> task[t].handler, next |-> task[t].next]
  <1>1. task[t] \in [handler : Handlers, next : Nat \ {0}] /\ task[t].next <= Len(task[t].handler)
    BY DEF LocksTypes, Running
  <1>2. Balanced(task[t].handler) /\ Len(task[t].handler) \in Nat
    BY <1>1, BalancedHandlers
  <1>3. task[t].next \in 1..Len(task[t].handler)
    BY <1>1, <1>2
  <1>4. NextOp(t) \in Ops
    BY <1>2, <1>3 DEF NextOp, Balanced
  <1> QED  BY <1>1, <1>2, <1>3, <1>4 DEF Ops

\* What a task holds after its next operation.
LEMMA HeldNext ==
    ASSUME NEW s \in Seq(Ops), NEW n \in 1..Len(s), NEW l \in Locks
    PROVE  /\ Drops(s, n, l) => ~Held(s, n + 1, l)
           /\ Takes(s, n, l) => Held(s, n + 1, l)
           /\ s[n].lock # l => (Held(s, n + 1, l) <=> Held(s, n, l))
  <1>1. n + 1 - 1 = n /\ Len(s) \in Nat
    OBVIOUS
  <1>2. ASSUME Drops(s, n, l), Held(s, n + 1, l) PROVE FALSE
    <2>1. PICK i \in 1..n : Takes(s, i, l) /\ \A j \in i + 1..n : ~Drops(s, j, l)
      BY <1>1, <1>2 DEF Held
    <2>2. i # n
      BY <1>2, <2>1 DEF Takes, Drops
    <2>3. n \in i + 1..n
      BY <2>2
    <2> QED  BY <1>2, <2>1, <2>3
  <1>3. ASSUME Takes(s, n, l) PROVE Held(s, n + 1, l)
    <2>1. \A j \in n + 1..n : ~Drops(s, j, l)
      OBVIOUS
    <2> QED  BY <1>1, <1>3, <2>1 DEF Held
  <1>4. ASSUME s[n].lock # l, Held(s, n + 1, l) PROVE Held(s, n, l)
    <2>1. PICK i \in 1..n : Takes(s, i, l) /\ \A j \in i + 1..n : ~Drops(s, j, l)
      BY <1>1, <1>4 DEF Held
    <2>2. i # n
      BY <1>4, <2>1 DEF Takes
    <2>3. i \in 1..n - 1 /\ \A j \in i + 1..n - 1 : j \in i + 1..n
      BY <2>2
    <2> QED  BY <2>1, <2>3 DEF Held
  <1>5. ASSUME s[n].lock # l, Held(s, n, l) PROVE Held(s, n + 1, l)
    <2>1. PICK i \in 1..n - 1 : Takes(s, i, l) /\ \A j \in i + 1..n - 1 : ~Drops(s, j, l)
      BY <1>5 DEF Held
    <2>2. ASSUME NEW j \in i + 1..n PROVE ~Drops(s, j, l)
      <3>1. CASE j = n
        BY <1>5, <3>1 DEF Drops
      <3>2. CASE j # n
        <4>1. j \in i + 1..n - 1
          BY <3>2
        <4> QED  BY <2>1, <4>1
      <3> QED  BY <3>1, <3>2
    <2> QED  BY <1>1, <2>1, <2>2 DEF Held
  <1> QED  BY <1>2, <1>3, <1>4, <1>5

LEMMA OtherTasks ==
    ASSUME NEW u \in Tasks, task'[u] = task[u]
    PROVE  /\ Running(u)' <=> Running(u)
           /\ \A l \in Locks : (Holds(u, l)' <=> Holds(u, l)) /\ (Awaits(u, l)' <=> Awaits(u, l))
  BY DEF Running, Holds, Awaits, NextOp

LEMMA AdvancedFacts ==
    ASSUME LocksTypes, NEW t \in Tasks, Running(t), task' = [task EXCEPT ![t] = Advanced(t)]
    PROVE  /\ task' \in [Tasks -> {Idle} \cup [handler : Handlers, next : Nat \ {0}]]
           /\ \A u \in Tasks : Running(u)' => task'[u].next <= Len(task'[u].handler)
           /\ \A u \in Tasks : u # t => task'[u] = task[u]
           /\ \A l \in Locks : Holds(t, l)' <=> Held(task[t].handler, task[t].next + 1, l)
  <1> DEFINE h == task[t].handler
             n == task[t].next
  <1>1. h \in Handlers /\ Balanced(h) /\ n \in 1..Len(h) /\ Len(h) \in Nat /\ task[t] = [handler |-> h, next |-> n]
    BY RunningForm
  <1>2. task \in [Tasks -> {Idle} \cup [handler : Handlers, next : Nat \ {0}]]
    BY DEF LocksTypes
  <1>3. task'[t] = Advanced(t) /\ \A u \in Tasks : u # t => task'[u] = task[u]
    BY <1>2
  <1>4. CASE n = Len(h)
    <2>1. task'[t] = Idle
      BY <1>3, <1>4 DEF Advanced
    <2>2. \A l \in Locks : ~Held(h, n + 1, l)
      BY <1>1, <1>4 DEF Balanced, LetsGo
    <2>3. ~Running(t)'
      BY <2>1 DEF Running
    <2>4. \A l \in Locks : ~Holds(t, l)'
      BY <2>3 DEF Holds
    <2>5. task' \in [Tasks -> {Idle} \cup [handler : Handlers, next : Nat \ {0}]]
      BY <1>2, <1>3, <2>1
    <2>6. \A u \in Tasks : Running(u)' => task'[u].next <= Len(task'[u].handler)
      BY <1>3, <2>3 DEF LocksTypes, Running
    <2> QED  BY <1>3, <2>2, <2>4, <2>5, <2>6
  <1>5. CASE n # Len(h)
    <2>1. task'[t] = [handler |-> h, next |-> n + 1]
      BY <1>1, <1>3, <1>5 DEF Advanced
    <2>2. n + 1 \in 1..Len(h) /\ n + 1 \in Nat \ {0} /\ n + 1 # 1
      BY <1>1, <1>5
    <2>3. task'[t] # Idle /\ task'[t].handler = h /\ task'[t].next = n + 1
      BY <2>1, <2>2 DEF Idle
    <2>4. Running(t)'
      BY <2>3 DEF Running
    <2>5. \A l \in Locks : Holds(t, l)' <=> Held(h, n + 1, l)
      BY <2>3, <2>4 DEF Holds
    <2>6. task'[t] \in [handler : Handlers, next : Nat \ {0}]
      BY <1>1, <2>1, <2>2
    <2>7. task' \in [Tasks -> {Idle} \cup [handler : Handlers, next : Nat \ {0}]]
      BY <1>2, <1>3, <2>6
    <2>8. \A u \in Tasks : Running(u)' => task'[u].next <= Len(task'[u].handler)
      BY <1>3, <2>2, <2>3 DEF LocksTypes, Running
    <2> QED  BY <1>3, <2>5, <2>7, <2>8
  <1> QED  BY <1>4, <1>5

LEMMA BeginInv ==
    ASSUME LocksInv, NEW t \in Tasks, NEW h \in Handlers, Begin(t, h)
    PROVE  LocksInv'
  <1>1. ~Running(t) /\ task' = [task EXCEPT ![t] = [handler |-> h, next |-> 1]] /\ queue' = queue
    BY DEF Begin
  <1>2. task \in [Tasks -> {Idle} \cup [handler : Handlers, next : Nat \ {0}]] /\ queue \in [Locks -> Seq(Entries)]
    BY DEF LocksInv, LocksTypes
  <1>3. task'[t] = [handler |-> h, next |-> 1] /\ \A u \in Tasks : u # t => task'[u] = task[u]
    BY <1>1, <1>2
  <1>4. Len(h) \in Nat \ {0}
    BY BalancedHandlers
  <1>5. LocksTypes'
    <2>1. task' \in [Tasks -> {Idle} \cup [handler : Handlers, next : Nat \ {0}]]
      BY <1>1, <1>2
    <2>2. \A u \in Tasks : Running(u)' => task'[u].next <= Len(task'[u].handler)
      BY <1>3, <1>4 DEF LocksInv, LocksTypes, Running
    <2> QED  BY <1>1, <1>2, <2>1, <2>2 DEF LocksTypes
  <1>6. OnePlace'
    BY <1>1 DEF LocksInv, OnePlace
  <1>7. ASSUME NEW u \in Tasks, NEW l \in Locks
        PROVE  /\ Queued(u, l)' => Holds(u, l)' \/ Awaits(u, l)'
               /\ Holds(u, l)' => Queued(u, l)'
    <2>1. Queued(u, l)' <=> Queued(u, l)
      BY <1>1 DEF Queued
    <2>2. /\ Queued(u, l) => Holds(u, l) \/ Awaits(u, l)
          /\ Holds(u, l) => Queued(u, l)
      BY DEF LocksInv, QueuesTell
    <2>3. CASE u # t
      BY <1>3, <2>1, <2>2, <2>3, OtherTasks
    <2>4. CASE u = t
      <3>1. ~Queued(u, l)
        BY <1>1, <2>2, <2>4 DEF Holds, Awaits
      <3>2. ~Holds(u, l)'
        BY <1>3, <2>4 DEF Holds, Held
      <3> QED  BY <2>1, <3>1, <3>2
    <2> QED  BY <2>3, <2>4
  <1> QED  BY <1>5, <1>6, <1>7 DEF LocksInv, QueuesTell

LEMMA RequestInv ==
    ASSUME LocksInv, NEW t \in Tasks, Request(t)
    PROVE  LocksInv'
  <1> DEFINE L == NextOp(t).lock
             e == [task |-> t, op |-> NextOp(t).op]
  <1>1. Running(t) /\ NextOp(t).op # "drop" /\ ~Queued(t, L) /\ queue' = [queue EXCEPT ![L] = Append(@, e)] /\ task' = task
    BY DEF Request
  <1>2. task \in [Tasks -> {Idle} \cup [handler : Handlers, next : Nat \ {0}]] /\ queue \in [Locks -> Seq(Entries)]
    BY DEF LocksInv, LocksTypes
  <1>3. L \in Locks /\ e \in Entries /\ e.task = t
    BY <1>1, RunningForm DEF LocksInv, Ops, Entries
  <1> HIDE DEF e
  <1>4. /\ queue'[L] = Append(queue[L], e) /\ queue' \in [Locks -> Seq(Entries)]
        /\ \A l \in Locks : l # L => queue'[l] = queue[l]
    BY <1>1, <1>2, <1>3
  <1>5. LocksTypes'
    BY <1>1, <1>4 DEF LocksInv, LocksTypes, Running
  <1>6. /\ Len(queue[L]) \in Nat /\ Len(queue'[L]) = Len(queue[L]) + 1
        /\ queue'[L][Len(queue[L]) + 1] = e
        /\ \A i \in 1..Len(queue[L]) : queue'[L][i] = queue[L][i]
    BY <1>2, <1>3, <1>4
  <1>7. OnePlace'
    <2> SUFFICES ASSUME NEW l \in Locks, NEW i \in 1..Len(queue'[l]), NEW j \in 1..Len(queue'[l]),
                        queue'[l][i].task = queue'[l][j].task
                 PROVE  i = j
      BY DEF OnePlace
    <2>1. CASE l # L
      BY <1>4, <2>1 DEF LocksInv, OnePlace
    <2>2. CASE l = L
      <3>1. \A k \in 1..Len(queue[L]) : queue[L][k].task # t
        BY <1>1 DEF Queued
      <3>2. CASE i \in 1..Len(queue[L]) /\ j \in 1..Len(queue[L])
        <4>1. queue[L][i].task = queue[L][j].task
          BY <1>6, <2>2, <3>2
        <4> QED  BY <1>3, <3>2, <4>1 DEF LocksInv, OnePlace
      <3>3. CASE i \notin 1..Len(queue[L]) /\ j \in 1..Len(queue[L])
        <4>1. i = Len(queue[L]) + 1
          BY <1>6, <2>2, <3>3
        <4> QED  BY <1>3, <1>6, <2>2, <3>1, <3>3, <4>1
      <3>4. CASE i \in 1..Len(queue[L]) /\ j \notin 1..Len(queue[L])
        <4>1. j = Len(queue[L]) + 1
          BY <1>6, <2>2, <3>4
        <4> QED  BY <1>3, <1>6, <2>2, <3>1, <3>4, <4>1
      <3>5. CASE i \notin 1..Len(queue[L]) /\ j \notin 1..Len(queue[L])
        BY <1>6, <2>2, <3>5
      <3> QED  BY <3>2, <3>3, <3>4, <3>5
    <2> QED  BY <2>1, <2>2
  <1>8. ASSUME NEW u \in Tasks, NEW l \in Locks
        PROVE  /\ Queued(u, l)' => Holds(u, l)' \/ Awaits(u, l)'
               /\ Holds(u, l)' => Queued(u, l)'
    <2>1. /\ Queued(u, l) => Holds(u, l) \/ Awaits(u, l)
          /\ Holds(u, l) => Queued(u, l)
      BY DEF LocksInv, QueuesTell
    <2>2. (Holds(u, l)' <=> Holds(u, l)) /\ (Awaits(u, l)' <=> Awaits(u, l))
      BY <1>1, OtherTasks
    <2>3. CASE l # L
      <3>1. Queued(u, l)' <=> Queued(u, l)
        BY <1>4, <2>3 DEF Queued
      <3> QED  BY <2>1, <2>2, <3>1
    <2>4. CASE l = L
      <3>1. Queued(u, l) => Queued(u, l)'
        BY <1>6, <2>4 DEF Queued
      <3>2. Queued(u, l)' => Queued(u, l) \/ u = t
        <4> SUFFICES ASSUME NEW i \in 1..Len(queue'[L]), queue'[L][i].task = u, u # t PROVE Queued(u, l)
          BY <2>4 DEF Queued
        <4>1. i \in 1..Len(queue[L])
          BY <1>3, <1>6
        <4> QED  BY <1>6, <2>4, <4>1 DEF Queued
      <3>3. u = t => Awaits(u, l)
        BY <1>1, <2>4 DEF Awaits
      <3> QED  BY <2>1, <2>2, <3>1, <3>2, <3>3
    <2> QED  BY <2>3, <2>4
  <1> QED  BY <1>5, <1>7, <1>8 DEF LocksInv, QueuesTell

LEMMA EnterInv ==
    ASSUME LocksInv, NEW t \in Tasks, Enter(t)
    PROVE  LocksInv'
  <1> DEFINE L == NextOp(t).lock
             h == task[t].handler
             n == task[t].next
  <1>1. Running(t) /\ NextOp(t).op # "drop" /\ Queued(t, L) /\ task' = [task EXCEPT ![t] = Advanced(t)] /\ queue' = queue
    BY DEF Enter
  <1>2. LocksTypes
    BY DEF LocksInv
  <1>3. /\ \A u \in Tasks : u # t => task'[u] = task[u]
        /\ \A l \in Locks : Holds(t, l)' <=> Held(h, n + 1, l)
    BY <1>1, <1>2, AdvancedFacts
  <1>4. LocksTypes'
    <2>1. /\ task' \in [Tasks -> {Idle} \cup [handler : Handlers, next : Nat \ {0}]]
          /\ \A u \in Tasks : Running(u)' => task'[u].next <= Len(task'[u].handler)
      BY <1>1, <1>2, AdvancedFacts
    <2> QED  BY <1>1, <1>2, <2>1 DEF LocksTypes
  <1>5. OnePlace'
    BY <1>1 DEF LocksInv, OnePlace
  <1>6. h \in Seq(Ops) /\ n \in 1..Len(h) /\ h[n] = NextOp(t) /\ L \in Locks
    BY <1>1, <1>2, RunningForm DEF Balanced, NextOp
  <1>7. ASSUME NEW u \in Tasks, NEW l \in Locks
        PROVE  /\ Queued(u, l)' => Holds(u, l)' \/ Awaits(u, l)'
               /\ Holds(u, l)' => Queued(u, l)'
    <2>1. Queued(u, l)' <=> Queued(u, l)
      BY <1>1 DEF Queued
    <2>2. /\ Queued(u, l) => Holds(u, l) \/ Awaits(u, l)
          /\ Holds(u, l) => Queued(u, l)
      BY DEF LocksInv, QueuesTell
    <2>3. CASE u # t
      BY <1>3, <2>1, <2>2, <2>3, OtherTasks
    <2>4. CASE u = t /\ l = L
      <3>1. Takes(h, n, L)
        BY <1>1, <1>6 DEF Takes
      <3>2. Held(h, n + 1, L)
        BY <1>6, <3>1, HeldNext
      <3> QED  BY <1>1, <1>3, <1>6, <2>1, <2>4, <3>2
    <2>5. CASE u = t /\ l # L
      <3>1. Held(h, n + 1, l) <=> Held(h, n, l)
        BY <1>6, <2>5, HeldNext
      <3>2. Holds(t, l) <=> Held(h, n, l)
        BY <1>1 DEF Holds
      <3>3. ~Awaits(t, l)
        BY <2>5 DEF Awaits
      <3> QED  BY <1>3, <2>1, <2>2, <2>5, <3>1, <3>2, <3>3
    <2> QED  BY <2>3, <2>4, <2>5
  <1> QED  BY <1>4, <1>5, <1>7 DEF LocksInv, QueuesTell

LEMMA LeaveInv ==
    ASSUME LocksInv, NEW t \in Tasks, Leave(t)
    PROVE  LocksInv'
  <1> DEFINE L == NextOp(t).lock
             h == task[t].handler
             n == task[t].next
             p == PlaceOf(t, L)
             q == queue[L]
  <1>1. /\ Running(t) /\ NextOp(t).op = "drop" /\ task' = [task EXCEPT ![t] = Advanced(t)]
        /\ queue' = [queue EXCEPT ![L] = RemoveAt(q, p)]
    BY DEF Leave, Without
  <1>2. LocksTypes /\ queue \in [Locks -> Seq(Entries)]
    BY DEF LocksInv, LocksTypes
  <1>3. /\ \A u \in Tasks : u # t => task'[u] = task[u]
        /\ \A l \in Locks : Holds(t, l)' <=> Held(h, n + 1, l)
        /\ task' \in [Tasks -> {Idle} \cup [handler : Handlers, next : Nat \ {0}]]
        /\ \A u \in Tasks : Running(u)' => task'[u].next <= Len(task'[u].handler)
    BY <1>1, <1>2, AdvancedFacts
  <1>4. h \in Seq(Ops) /\ n \in 1..Len(h) /\ h[n] = NextOp(t) /\ L \in Locks /\ Balanced(h)
    BY <1>1, <1>2, RunningForm DEF Balanced, NextOp
  <1>5. Queued(t, L)
    <2>1. Held(h, n, L)
      BY <1>1, <1>4 DEF Balanced
    <2> QED  BY <1>1, <1>4, <2>1 DEF LocksInv, QueuesTell, Holds
  <1>6. p \in 1..Len(q) /\ q[p].task = t
    BY <1>5 DEF Queued, PlaceOf
  <1> HIDE DEF p
  <1>7. q \in Seq(Entries) /\ Len(q) \in Nat
    BY <1>2, <1>4
  <1>8. /\ queue'[L] \in Seq(Entries) /\ Len(queue'[L]) = Len(q) - 1
        /\ \A i \in 1..Len(q) - 1 : queue'[L][i] = IF i < p THEN q[i] ELSE q[i + 1]
        /\ \A l \in Locks : l # L => queue'[l] = queue[l]
        /\ queue' \in [Locks -> Seq(Entries)]
    <2> HIDE DEF L, q
    <2>1. /\ RemoveAt(q, p) \in Seq(Entries) /\ Len(RemoveAt(q, p)) = Len(q) - 1
          /\ \A i \in 1..Len(q) - 1 : RemoveAt(q, p)[i] = IF i < p THEN q[i] ELSE q[i + 1]
      BY <1>6, <1>7, RemoveAtFacts
    <2>2. queue'[L] = RemoveAt(q, p) /\ \A l \in Locks : l # L => queue'[l] = queue[l]
      BY <1>1, <1>2, <1>4
    <2>3. queue' \in [Locks -> Seq(Entries)]
      BY <1>1, <1>2, <1>4, <2>1
    <2> QED  BY <2>1, <2>2, <2>3
  <1>9. LocksTypes'
    BY <1>3, <1>8 DEF LocksTypes
  <1>10. \A i, j \in 1..Len(q) : q[i].task = q[j].task => i = j
    BY <1>4 DEF LocksInv, OnePlace
  <1> HIDE DEF L, q
  \* Where the entry at place i of the shorter queue was.
  <1> DEFINE Old(i) == IF i < p THEN i ELSE i + 1
  <1>11. ASSUME NEW i \in 1..Len(q) - 1
         PROVE  Old(i) \in 1..Len(q) /\ Old(i) # p /\ queue'[L][i] = q[Old(i)]
    BY <1>6, <1>7, <1>8
  <1>12. ASSUME NEW i \in 1..Len(q) - 1, NEW j \in 1..Len(q) - 1, Old(i) = Old(j) PROVE i = j
    BY <1>6, <1>7, <1>12
  <1>13. ASSUME NEW k \in 1..Len(q), k # p PROVE \E i \in 1..Len(q) - 1 : queue'[L][i] = q[k]
    <2>1. CASE k < p
      <3>1. k \in 1..Len(q) - 1
        BY <1>6, <1>7, <2>1
      <3> QED  BY <1>8, <2>1, <3>1
    <2>2. CASE k > p
      <3>1. k - 1 \in 1..Len(q) - 1 /\ ~(k - 1 < p) /\ k - 1 + 1 = k
        BY <1>6, <1>7, <2>2
      <3> QED  BY <1>8, <3>1
    <2> QED  BY <1>6, <1>7, <1>13, <2>1, <2>2
  <1> HIDE DEF Old
  <1>14. OnePlace'
    <2> SUFFICES ASSUME NEW l \in Locks, NEW i \in 1..Len(queue'[l]), NEW j \in 1..Len(queue'[l]),
                        queue'[l][i].task = queue'[l][j].task
                 PROVE  i = j
      BY DEF OnePlace
    <2>1. CASE l # L
      BY <1>8, <2>1 DEF LocksInv, OnePlace
    <2>2. CASE l = L
      <3>1. i \in 1..Len(q) - 1 /\ j \in 1..Len(q) - 1
        BY <1>8, <2>2
      <3>2. q[Old(i)].task = q[Old(j)].task /\ Old(i) \in 1..Len(q) /\ Old(j) \in 1..Len(q)
        BY <1>11, <2>2, <3>1
      <3> QED  BY <1>10, <1>12, <3>1, <3>2
    <2> QED  BY <2>1, <2>2
  <1>15. ASSUME NEW u \in Tasks, NEW l \in Locks
         PROVE  /\ Queued(u, l)' => Holds(u, l)' \/ Awaits(u, l)'
                /\ Holds(u, l)' => Queued(u, l)'
    <2>1. /\ Queued(u, l) => Holds(u, l) \/ Awaits(u, l)
          /\ Holds(u, l) => Queued(u, l)
      BY DEF LocksInv, QueuesTell
    <2>2. CASE u = t /\ l = L
      <3>1. ~Queued(t, l)'
        <4> SUFFICES ASSUME NEW i \in 1..Len(queue'[L]), queue'[L][i].task = t PROVE FALSE
          BY <2>2 DEF Queued
        <4>1. i \in 1..Len(q) - 1
          BY <1>8
        <4>2. Old(i) \in 1..Len(q) /\ Old(i) # p /\ q[Old(i)].task = t
          BY <1>11, <4>1
        <4> QED  BY <1>6, <1>10, <4>2
      <3>2. ~Held(h, n + 1, L)
        <4>1. Drops(h, n, L)
          BY <1>1, <1>4 DEF Drops, L
        <4> QED  BY <1>4, <4>1, HeldNext
      <3> QED  BY <1>3, <1>4, <2>2, <3>1, <3>2
    <2>3. CASE u = t /\ l # L
      <3>1. Held(h, n + 1, l) <=> Held(h, n, l)
        BY <1>4, <2>3, HeldNext DEF L
      <3>2. Holds(t, l) <=> Held(h, n, l)
        BY <1>1 DEF Holds
      <3>3. ~Awaits(t, l)
        BY <1>1 DEF Awaits
      <3>4. Queued(t, l)' <=> Queued(t, l)
        BY <1>8, <2>3 DEF Queued
      <3> QED  BY <1>3, <2>1, <2>3, <3>1, <3>2, <3>3, <3>4
    <2>4. CASE u # t /\ l # L
      <3>1. Queued(u, l)' <=> Queued(u, l)
        BY <1>8, <2>4 DEF Queued
      <3> QED  BY <1>3, <2>1, <2>4, <3>1, OtherTasks
    <2>5. CASE u # t /\ l = L
      <3>1. Queued(u, l)' => Queued(u, l)
        <4> SUFFICES ASSUME NEW i \in 1..Len(queue'[L]), queue'[L][i].task = u PROVE Queued(u, l)
          BY <2>5 DEF Queued
        <4>1. i \in 1..Len(q) - 1
          BY <1>8
        <4> QED  BY <1>11, <2>5, <4>1 DEF Queued, q
      <3>2. Queued(u, l) => Queued(u, l)'
        <4> SUFFICES ASSUME NEW k \in 1..Len(q), q[k].task = u PROVE Queued(u, l)'
          BY <2>5 DEF Queued, q
        <4>1. k # p
          BY <1>6, <2>5
        <4>2. PICK i \in 1..Len(q) - 1 : queue'[L][i] = q[k]
          BY <1>13, <4>1
        <4> QED  BY <1>8, <2>5, <4>2 DEF Queued
      <3> QED  BY <1>3, <2>1, <2>5, <3>1, <3>2, OtherTasks
    <2> QED  BY <2>2, <2>3, <2>4, <2>5
  <1> QED  BY <1>9, <1>14, <1>15 DEF LocksInv, QueuesTell

LEMMA LocksInvHolds == LocksSpec => []LocksInv
  <1>1. LocksInit => LocksInv
    <2> SUFFICES ASSUME LocksInit PROVE LocksInv
      OBVIOUS
    <2>1. /\ \A l \in Locks : queue[l] = <<>> /\ Len(queue[l]) = 0
          /\ \A t \in Tasks : ~Running(t)
      BY DEF LocksInit, Running
    <2>2. LocksTypes
      BY <2>1 DEF LocksInit, LocksTypes
    <2>3. OnePlace
      BY <2>1 DEF OnePlace
    <2>4. QueuesTell
      BY <2>1 DEF QueuesTell, Queued, Holds
    <2> QED  BY <2>2, <2>3, <2>4 DEF LocksInv
  <1>2. LocksInv /\ [LocksNext]_lockVars => LocksInv'
    <2> SUFFICES ASSUME LocksInv, [LocksNext]_lockVars PROVE LocksInv'
      OBVIOUS
    <2>1. ASSUME NEW t \in Tasks, NEW h \in Handlers, Begin(t, h) PROVE LocksInv'
      BY <2>1, BeginInv
    <2>2. ASSUME NEW t \in Tasks, Request(t) \/ Enter(t) \/ Leave(t) PROVE LocksInv'
      BY <2>2, RequestInv, EnterInv, LeaveInv
    <2>3. CASE UNCHANGED lockVars
      <3>1. queue' = queue /\ task' = task
        BY <2>3 DEF lockVars
      <3> QED  BY <3>1 DEF LocksInv, LocksTypes, OnePlace, QueuesTell, Queued, Holds, Awaits, Running, NextOp
    <2> QED  BY <2>1, <2>2, <2>3 DEF LocksNext
  <1> QED  BY <1>1, <1>2, PTL DEF LocksSpec

\* A set of numbers has a least one.
LEMMA LeastNumber ==
    ASSUME NEW S, S \subseteq Nat, S # {}
    PROVE  \E x \in S : \A y \in S : x <= y
  <1> DEFINE R == OpToRel(<, Nat)
  <1>1. IsWellFoundedOn(R, Nat)
    BY NatLessThanWellFounded DEF OpToRel
  <1>2. \A x, y \in Nat : x < y => <<x, y>> \in R
    BY DEF OpToRel
  <1> HIDE DEF R
  <1>3. PICK x \in S : \A y \in S : ~(<<y, x>> \in R)
    BY <1>1, WFMin
  <1>4. ASSUME NEW y \in S PROVE x <= y
    <2>1. x \in Nat /\ y \in Nat /\ ~(y < x)
      BY <1>2, <1>3
    <2> QED  BY <2>1
  <1> QED  BY <1>4

\* Tasks that all keep the order do not wait for each other in a circle: of
\* those that wait for the last lock in the order, look at the first in its
\* queue.  Who is before it holds the lock, so it awaits one further on, or
\* awaits it and is nearer to the front.
LEMMA NoCircleInOrder ==
    ASSUME LocksInv, NEW S \in SUBSET Tasks, Stuck(S), \A t \in S : task[t].handler \notin OutOfOrder
    PROVE  FALSE
  <1> DEFINE Want(t) == NextOp(t).lock
  <1>1. S # {} /\ \A t \in S : \E u \in S : Blocks(u, t)
    BY DEF Stuck
  <1>2. ASSUME NEW t \in S
        PROVE  /\ Running(t) /\ NextOp(t).op # "drop" /\ Queued(t, Want(t)) /\ Want(t) \in Locks
               /\ \E u \in S : Before(Want(t), u, t)
    <2>1. PICK u \in S : Blocks(u, t)
      BY <1>1
    <2>2. Running(t) /\ NextOp(t).op # "drop" /\ Queued(t, Want(t)) /\ Before(Want(t), u, t)
      BY <2>1 DEF Blocks
    <2>3. Want(t) \in Locks
      BY <2>2, RunningForm DEF LocksInv
    <2> QED  BY <2>2, <2>3
  <1> HIDE DEF Want
  <1>3. PICK t0 \in S : \A t \in S : Rank(Want(t)) <= Rank(Want(t0))
    <2>1. \A t \in S : Rank(Want(t)) \in 1..3
      BY <1>2, Ranks
    <2>2. CASE \E t \in S : Rank(Want(t)) = 3
      BY <2>1, <2>2
    <2>3. CASE (\A t \in S : Rank(Want(t)) # 3) /\ \E t \in S : Rank(Want(t)) = 2
      BY <2>1, <2>3
    <2>4. CASE (\A t \in S : Rank(Want(t)) # 3) /\ \A t \in S : Rank(Want(t)) # 2
      BY <1>1, <2>1, <2>4
    <2> QED  BY <2>2, <2>3, <2>4
  <1> DEFINE L == Want(t0)
             P == {j \in 1..Len(queue[L]) : \E t \in S : Want(t) = L /\ queue[L][j].task = t}
  <1>4. L \in Locks /\ Len(queue[L]) \in Nat
    BY <1>2 DEF LocksInv, LocksTypes
  <1>5. P \subseteq Nat /\ P # {}
    <2>1. PICK j \in 1..Len(queue[L]) : queue[L][j].task = t0
      BY <1>2 DEF Queued
    <2>2. j \in P
      BY <2>1
    <2>3. P \subseteq Nat
      BY <1>4
    <2> QED  BY <2>2, <2>3
  <1> HIDE DEF L
  <1>6. PICK j \in P : \A k \in P : j <= k
    <2> HIDE DEF P
    <2> QED  BY <1>5, LeastNumber
  <1>7. PICK t \in S : Want(t) = L /\ queue[L][j].task = t
    BY <1>6
  <1>8. PICK u \in S : Before(L, u, t)
    BY <1>2, <1>7
  <1>9. PICK i \in 1..Len(queue[L]), k \in 1..Len(queue[L]) :
            i < k /\ queue[L][i].task = u /\ queue[L][k].task = t
    BY <1>8 DEF Before
  <1>10. k = j
    BY <1>4, <1>7, <1>9 DEF LocksInv, OnePlace
  <1>11. Holds(u, L) \/ Awaits(u, L)
    <2>1. Queued(u, L) /\ u \in Tasks
      BY <1>9 DEF Queued
    <2> QED  BY <1>4, <2>1 DEF LocksInv, QueuesTell
  <1>12. CASE Awaits(u, L)
    <2>1. i \in P
      BY <1>9, <1>12 DEF Awaits, Want
    <2>2. j <= i
      BY <1>6, <2>1
    <2> QED  BY <1>4, <1>9, <1>10, <2>2
  <1>13. CASE Holds(u, L)
    <2> DEFINE h == task[u].handler
               n == task[u].next
    <2>1. Running(u) /\ NextOp(u).op # "drop" /\ Want(u) \in Locks
      BY <1>2
    <2>2. h \in Handlers /\ n \in 1..Len(h) /\ h[n] = NextOp(u)
      BY <2>1, RunningForm DEF LocksInv, NextOp
    <2>3. Ordered(h)
      BY <2>2, OrderedHandlers
    <2>4. Held(h, n, L)
      BY <1>13 DEF Holds
    <2>5. Rank(L) < Rank(Want(u))
      BY <1>4, <2>1, <2>2, <2>3, <2>4 DEF Ordered, Want
    <2>6. Rank(Want(u)) <= Rank(L)
      BY <1>3 DEF L
    <2>7. Rank(L) \in Int /\ Rank(Want(u)) \in Int
      BY <1>4, <2>1, Ranks
    <2> QED  BY <2>5, <2>6, <2>7
  <1> QED  BY <1>11, <1>12, <1>13

(***************************************************************************)
(* For any number of tasks and any mix of handlers: tasks of the node that *)
(* wait for each other in a circle always include an account query of the  *)
(* RPC or a miner thread (rpc.rs, get_accounts; main.rs, --mine), the two  *)
(* that do not lock chain before mempool before ledger.                    *)
(***************************************************************************)
THEOREM OrderPreventsCircles == LocksSpec => []CirclesAreOutOfOrder
  <1>1. LocksInv => CirclesAreOutOfOrder
    BY NoCircleInOrder DEF CirclesAreOutOfOrder
  <1> QED  BY <1>1, LocksInvHolds, PTL

=============================================================================

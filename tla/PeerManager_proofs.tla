-------------------------- MODULE PeerManager_proofs --------------------------
(***************************************************************************)
(* Proofs about PeerManager for any number of addresses, tasks and limits: *)
(* the per-IP counters agree with the table and the limits hold.  The      *)
(* invariant is inductive only because the two are proved together: the    *)
(* per-IP limit is checked on the counter, not on the table.  The second   *)
(* part is about bans and the lists of attempts.                           *)
(***************************************************************************)
EXTENDS PeerManager, FiniteSetTheorems, WellFoundedInduction, TLAPS

Directions == {"inbound", "outbound"}

\* The types the table's operations rely on.
TableTypes ==
    /\ direction \in [Addrs -> {"none"} \cup Directions]
    /\ connections_per_ip \in [IPs -> Int]
    /\ accepting \in Addrs \cup {NoAddr}
    /\ discovered \in SUBSET (Addrs \cup OwnAddrs)
    /\ candidates \in SUBSET Addrs
    /\ reaping \in SUBSET Addrs
    /\ task \in [Tasks -> TaskStates]

TableInv == TableTypes /\ CountsExact /\ LimitsHold


-----------------------------------------------------------------------------
\* Every set of addresses is finite.
LEMMA AddressSets ==
    ASSUME NEW S \in SUBSET Addrs
    PROVE  IsFiniteSet(S) /\ Cardinality(S) \in Nat
  BY PeerAssumption, FS_Subset, FS_CardinalityType

\* An entry added under the limits keeps counter and table in step.
LEMMA AddKeepsTable ==
    ASSUME TableInv, NEW a \in Addrs, NEW d \in Directions, AddPeer(a, d)
    PROVE  /\ direction' \in [Addrs -> {"none"} \cup Directions]
           /\ connections_per_ip' \in [IPs -> Int]
           /\ CountsExact' /\ LimitsHold'
  <1> USE DEF TableInv
  <1>1. CASE ~MayAdd(a, d)
    <2>1. UNCHANGED <<direction, connections_per_ip>>
      BY <1>1 DEF AddPeer, tableVars
    <2> QED
      BY <2>1 DEF TableTypes, CountsExact, LimitsHold, ConnectedFrom, Connected, OfDirection
  <1>2. CASE MayAdd(a, d)
    <2>0. /\ direction[a] = "none" /\ IpOf[a] \in IPs
          /\ connections_per_ip[IpOf[a]] < MAX_CONNECTIONS_PER_IP
          /\ CanAccept(d)
      BY <1>2, PeerAssumption DEF MayAdd
    <2>1. /\ direction' = [direction EXCEPT ![a] = d]
          /\ connections_per_ip' = [connections_per_ip EXCEPT ![IpOf[a]] = @ + 1]
      BY <1>2 DEF AddPeer
    <2>2. /\ direction' \in [Addrs -> {"none"} \cup Directions]
          /\ connections_per_ip' \in [IPs -> Int]
      BY <2>0, <2>1 DEF TableTypes
    <2>3. /\ ConnectedFrom(IpOf[a])' = ConnectedFrom(IpOf[a]) \cup {a}
          /\ a \notin ConnectedFrom(IpOf[a])
          /\ ConnectedFrom(IpOf[a]) \in SUBSET Addrs
      BY <2>0, <2>1 DEF ConnectedFrom, Connected, TableTypes, Directions
    <2>4. Cardinality(ConnectedFrom(IpOf[a])') = Cardinality(ConnectedFrom(IpOf[a])) + 1
      BY <2>3, AddressSets, FS_AddElement
    <2>5. ASSUME NEW ip \in IPs, ip # IpOf[a] PROVE ConnectedFrom(ip)' = ConnectedFrom(ip)
      BY <2>1, <2>5 DEF ConnectedFrom, Connected, TableTypes
    <2>6. CountsExact'
      <3> SUFFICES ASSUME NEW ip \in IPs
                   PROVE  connections_per_ip'[ip] = Cardinality(ConnectedFrom(ip)')
        BY DEF CountsExact
      <3>1. CASE ip = IpOf[a]
        BY <2>0, <2>1, <2>4, <3>1 DEF CountsExact, TableTypes
      <3>2. CASE ip # IpOf[a]
        BY <2>1, <2>5, <3>2 DEF CountsExact, TableTypes
      <3> QED
        BY <3>1, <3>2
    <2>7. \A ip \in IPs : Cardinality(ConnectedFrom(ip)') <= MAX_CONNECTIONS_PER_IP
      <3> SUFFICES ASSUME NEW ip \in IPs
                   PROVE  Cardinality(ConnectedFrom(ip)') <= MAX_CONNECTIONS_PER_IP
        OBVIOUS
      <3>1. CASE ip = IpOf[a]
        <4>1. Cardinality(ConnectedFrom(IpOf[a])) < MAX_CONNECTIONS_PER_IP
          BY <2>0 DEF CountsExact
        <4>2. Cardinality(ConnectedFrom(IpOf[a])) \in Nat
          BY <2>3, AddressSets
        <4> QED
          BY <2>4, <3>1, <4>1, <4>2, PeerAssumption
      <3>2. CASE ip # IpOf[a]
        BY <2>5, <3>2 DEF LimitsHold
      <3> QED
        BY <3>1, <3>2
    <2>8. /\ OfDirection(d)' = OfDirection(d) \cup {a}
          /\ a \notin OfDirection(d)
          /\ OfDirection(d) \in SUBSET Addrs
      BY <2>0, <2>1 DEF OfDirection, TableTypes, Directions
    <2>9. Cardinality(OfDirection(d)') = Cardinality(OfDirection(d)) + 1
      BY <2>8, AddressSets, FS_AddElement
    <2>10. ASSUME NEW e \in Directions, e # d PROVE OfDirection(e)' = OfDirection(e)
      BY <2>0, <2>1, <2>10 DEF OfDirection, TableTypes, Directions
    <2>11. Cardinality(OfDirection(d)) \in Nat
      BY <2>8, AddressSets
    <2>12. CASE d = "inbound"
      <3>1. Cardinality(OfDirection("inbound")) < MAX_INBOUND
        BY <2>0, <2>12 DEF CanAccept
      <3>2. OfDirection("outbound")' = OfDirection("outbound")
        BY <2>10, <2>12 DEF Directions
      <3>3. Cardinality(OfDirection("inbound")') <= MAX_INBOUND
        BY <2>9, <2>11, <2>12, <3>1, PeerAssumption
      <3> QED
        BY <2>2, <2>6, <2>7, <3>2, <3>3 DEF LimitsHold
    <2>13. CASE d = "outbound"
      <3>1. Cardinality(OfDirection("outbound")) < MAX_OUTBOUND
        BY <2>0, <2>13 DEF CanAccept
      <3>2. OfDirection("inbound")' = OfDirection("inbound")
        BY <2>10, <2>13 DEF Directions
      <3>3. Cardinality(OfDirection("outbound")') <= MAX_OUTBOUND
        BY <2>9, <2>11, <2>13, <3>1, PeerAssumption
      <3> QED
        BY <2>2, <2>6, <2>7, <3>2, <3>3 DEF LimitsHold
    <2> QED
      BY <2>12, <2>13 DEF Directions
  <1> QED
    BY <1>1, <1>2

\* Removing entries takes from each counter what it takes from the table,
\* also for addresses that have no entry any more.
LEMMA RemoveKeepsTable ==
    ASSUME TableInv, NEW gone \in SUBSET Addrs, RemovePeers(gone)
    PROVE  /\ direction' \in [Addrs -> {"none"} \cup Directions]
           /\ connections_per_ip' \in [IPs -> Int]
           /\ CountsExact' /\ LimitsHold'
  <1> USE DEF TableInv
  <1>1. direction' = [a \in Addrs |-> IF a \in gone THEN "none" ELSE direction[a]]
    BY DEF RemovePeers
  <1>2. direction' \in [Addrs -> {"none"} \cup Directions]
    BY <1>1 DEF TableTypes
  <1>3. ASSUME NEW ip \in IPs
        PROVE  /\ connections_per_ip'[ip] = Cardinality(ConnectedFrom(ip)')
               /\ connections_per_ip'[ip] \in Int
               /\ Cardinality(ConnectedFrom(ip)') <= Cardinality(ConnectedFrom(ip))
               /\ Cardinality(ConnectedFrom(ip)) \in Nat
               /\ Cardinality(ConnectedFrom(ip)') \in Nat
    <2> DEFINE S == ConnectedFrom(ip)
    <2>1. S \in SUBSET Addrs /\ S' = S \ gone
      BY <1>1 DEF ConnectedFrom, Connected
    <2>2. {a \in gone : direction[a] # "none" /\ IpOf[a] = ip} = S \cap gone
      BY DEF ConnectedFrom, Connected
    <2>3. connections_per_ip'[ip] = connections_per_ip[ip] - Cardinality(S \cap gone)
      BY <2>2 DEF RemovePeers
    <2>4. connections_per_ip[ip] = Cardinality(S)
      BY DEF CountsExact
    <2> HIDE DEF S
    <2>5. IsFiniteSet(S) /\ Cardinality(S) \in Nat
      BY <2>1, AddressSets
    <2>6. S \cap gone \in SUBSET Addrs /\ S \ gone \in SUBSET Addrs
      BY <2>1
    <2>7. Cardinality(S \cap gone) \in Nat /\ Cardinality(S \ gone) \in Nat
      BY <2>6, AddressSets
    <2>8. Cardinality(S \ gone) = Cardinality(S) - Cardinality(S \cap gone)
      BY <2>5, FS_Difference
    <2>9. /\ connections_per_ip'[ip] = Cardinality(S \ gone)
          /\ connections_per_ip'[ip] \in Int
          /\ Cardinality(S \ gone) <= Cardinality(S)
      BY <2>3, <2>4, <2>5, <2>7, <2>8
    <2>10. S' = ConnectedFrom(ip)' /\ S = ConnectedFrom(ip)
      BY DEF S
    <2> QED
      BY <2>1, <2>5, <2>7, <2>9, <2>10
  <1>4. connections_per_ip' \in [IPs -> Int]
    <2>1. connections_per_ip' = [ip \in IPs |-> connections_per_ip'[ip]]
      BY DEF RemovePeers
    <2> QED
      BY <1>3, <2>1
  <1>5. CountsExact'
    BY <1>3 DEF CountsExact
  <1>6. ASSUME NEW d \in Directions
        PROVE  /\ Cardinality(OfDirection(d)') <= Cardinality(OfDirection(d))
               /\ Cardinality(OfDirection(d)) \in Nat
               /\ Cardinality(OfDirection(d)') \in Nat
    <2>1. OfDirection(d)' \subseteq OfDirection(d) /\ OfDirection(d) \in SUBSET Addrs
      BY <1>1 DEF OfDirection, Directions
    <2>2. OfDirection(d)' \in SUBSET Addrs
      BY <2>1
    <2> QED
      BY <2>1, <2>2, AddressSets, FS_Subset
  <1>7. LimitsHold'
    <2>1. \A ip \in IPs : Cardinality(ConnectedFrom(ip)') <= MAX_CONNECTIONS_PER_IP
      BY <1>3, PeerAssumption DEF LimitsHold
    <2>2. /\ Cardinality(OfDirection("inbound")') <= MAX_INBOUND
          /\ Cardinality(OfDirection("outbound")') <= MAX_OUTBOUND
      BY <1>6, PeerAssumption DEF LimitsHold, Directions
    <2> QED
      BY <2>1, <2>2 DEF LimitsHold
  <1> QED
    BY <1>2, <1>4, <1>5, <1>7

\* Steps that leave the entries alone.
LEMMA OthersKeepTable ==
    ASSUME TableInv, UNCHANGED <<direction, connections_per_ip>>,
           accepting' \in Addrs \cup {NoAddr}, discovered' \in SUBSET (Addrs \cup OwnAddrs),
           candidates' \in SUBSET Addrs,
           reaping' \in SUBSET Addrs, task' \in [Tasks -> TaskStates]
    PROVE  TableInv'
  BY DEF TableInv, TableTypes, CountsExact, LimitsHold, ConnectedFrom, Connected, OfDirection

-----------------------------------------------------------------------------
\* An empty table agrees with its counters.
LEMMA InitTable == Init => TableInv
  <1> SUFFICES ASSUME Init PROVE TableInv
    OBVIOUS
  <1>1. \A ip \in IPs : ConnectedFrom(ip) = {}
    BY DEF Init, ConnectedFrom, Connected
  <1>2. \A d \in Directions : OfDirection(d) = {}
    BY DEF Init, OfDirection, Directions
  <1>3. Cardinality({}) = 0
    BY FS_EmptySet
  <1>4. TableTypes
    BY PeerAssumption DEF Init, SeedNodes, TableTypes, TaskStates
  <1>5. CountsExact
    BY <1>1, <1>3 DEF Init, CountsExact
  <1>6. LimitsHold
    BY <1>1, <1>2, <1>3, PeerAssumption DEF LimitsHold, Directions
  <1> QED
    BY <1>4, <1>5, <1>6 DEF TableInv

\* A task starts with a well-formed record.
LEMMA TaskTypes ==
    ASSUME TableTypes, NEW t \in Tasks, NEW a \in Addrs, NEW d \in Directions,
           NEW s \in {"connecting", "live", "closing"}
    PROVE  [task EXCEPT ![t] = [state |-> s, addr |-> a, direction |-> d]]
               \in [Tasks -> TaskStates]
  BY DEF TableTypes, TaskStates, Directions

\* A task that is not idle knows its address.
LEMMA BusyTask ==
    ASSUME TableTypes, NEW t \in Tasks, Connecting(t) \/ Live(t) \/ Closing(t)
    PROVE  /\ task[t].addr \in Addrs
           /\ task[t].direction \in Directions
           /\ \A s \in {"connecting", "live", "closing"} :
                [task EXCEPT ![t] = [@ EXCEPT !.state = s]] \in [Tasks -> TaskStates]
           /\ [task EXCEPT ![t] = Idle] \in [Tasks -> TaskStates]
  <1>1. task[t] \in TaskStates /\ task[t] # Idle
    BY DEF TableTypes, Connecting, Live, Closing, Idle
  <1>2. task[t] \in [state : {"connecting", "live", "closing"}, addr : Addrs,
                     direction : {"inbound", "outbound"}]
    BY <1>1 DEF TaskStates
  <1>3. \A s \in {"connecting", "live", "closing"} :
           [task[t] EXCEPT !.state = s] \in TaskStates
    BY <1>2 DEF TaskStates
  <1>4. Idle \in TaskStates
    BY DEF TaskStates
  <1> QED
    BY <1>2, <1>3, <1>4 DEF TableTypes, Directions

\* Every critical section keeps counters, table and limits in step.
LEMMA StepTable == TableInv /\ [Next]_vars => TableInv'
  <1> SUFFICES ASSUME TableInv, [Next]_vars PROVE TableInv'
    OBVIOUS
  <1>0. TableTypes
    BY DEF TableInv
  <1>1. ASSUME NEW a \in Addrs, Accept(a) PROVE TableInv'
    BY <1>0, <1>1, OthersKeepTable DEF Accept, tableVars, TableTypes
  <1>2. ASSUME NEW a \in Addrs, GoesStale(a) PROVE TableInv'
    BY <1>0, <1>2, OthersKeepTable DEF GoesStale, TableTypes
  <1>3. ASSUME NEW a \in Addrs, NEW points \in Penalties, Penalize(a, points)
        PROVE  TableInv'
    BY <1>0, <1>3, OthersKeepTable DEF Penalize, TableTypes
  <1>4. ASSUME NEW t \in Tasks, Admit(t) PROVE TableInv'
    <2>1. accepting \in Addrs /\ "inbound" \in Directions
      BY <1>0, <1>4 DEF Admit, TableTypes, Directions
    <2>2. AddPeer(accepting, "inbound")
      BY <1>4 DEF Admit
    <2>3. task' \in [Tasks -> TaskStates]
      BY <1>0, <1>4, <2>1, TaskTypes DEF Admit, TableTypes
    <2>4. /\ accepting' \in Addrs \cup {NoAddr}
          /\ discovered' \in SUBSET (Addrs \cup OwnAddrs)
          /\ candidates' \in SUBSET Addrs /\ reaping' \in SUBSET Addrs
      BY <1>0, <1>4 DEF Admit, TableTypes
    <2> QED
      BY <2>1, <2>2, <2>3, <2>4, AddKeepsTable DEF TableInv, TableTypes
  <1>5. ASSUME NEW t \in Tasks, NEW a \in Addrs, Connect(t, a) PROVE TableInv'
    <2>1. "outbound" \in Directions
      BY DEF Directions
    <2>2. AddPeer(a, "outbound")
      BY <1>5 DEF Connect
    <2>3. task' \in [Tasks -> TaskStates]
      BY <1>0, <1>5, <2>1, TaskTypes DEF Connect, TableTypes
    <2>4. /\ accepting' \in Addrs \cup {NoAddr}
          /\ discovered' \in SUBSET (Addrs \cup OwnAddrs)
          /\ candidates' \in SUBSET Addrs /\ reaping' \in SUBSET Addrs
      BY <1>0, <1>5 DEF Connect, TableTypes
    <2> QED
      BY <2>1, <2>2, <2>3, <2>4, AddKeepsTable DEF TableInv, TableTypes
  <1>6. ASSUME NEW t \in Tasks, ConnectOk(t) \/ ConnectFails(t) \/ CloseInbound(t)
        PROVE  TableInv'
    <2>1. task' \in [Tasks -> TaskStates]
      BY <1>0, <1>6, BusyTask DEF ConnectOk, ConnectFails, CloseInbound
    <2> QED
      BY <1>0, <1>6, <2>1, OthersKeepTable
      DEF ConnectOk, ConnectFails, CloseInbound, tableVars, TableTypes
  <1>7. ASSUME NEW t \in Tasks, EndOutbound(t) \/ EndInbound(t) PROVE TableInv'
    <2>1. {task[t].addr} \in SUBSET Addrs /\ task' \in [Tasks -> TaskStates]
      BY <1>0, <1>7, BusyTask DEF EndOutbound, EndInbound
    <2>2. RemovePeers({task[t].addr}) /\ UNCHANGED <<accepting, discovered, candidates, reaping>>
      BY <1>7 DEF EndOutbound, EndInbound
    <2> QED
      BY <1>0, <2>1, <2>2, RemoveKeepsTable DEF TableInv, TableTypes
  <1>8. ASSUME NEW t \in Tasks, Touch(t) PROVE TableInv'
    BY <1>0, <1>8, OthersKeepTable DEF Touch, TableTypes
  <1>13. ASSUME NEW t \in Tasks, NEW addrs \in SUBSET Announced, LearnPeers(t, addrs)
         PROVE  TableInv'
    BY <1>0, <1>13, OthersKeepTable, PeerAssumption DEF LearnPeers, tableVars, TableTypes
  <1>9. ASSUME Reconnect \/ GiveUp PROVE TableInv'
    BY <1>0, <1>9, OthersKeepTable, PeerAssumption DEF Reconnect, GiveUp, tableVars, TableTypes
  <1>10. ASSUME Reap PROVE TableInv'
    <2>1. StalePeers \in SUBSET Addrs
      BY DEF StalePeers, Connected
    <2> QED
      BY <1>0, <1>10, <2>1, OthersKeepTable DEF Reap, tableVars, TableTypes
  <1>11. ASSUME RemoveReaped PROVE TableInv'
    <2>1. reaping \in SUBSET Addrs /\ RemovePeers(reaping)
      BY <1>0, <1>11 DEF RemoveReaped, TableTypes
    <2>2. reaping' \in SUBSET Addrs /\ UNCHANGED <<accepting, discovered, candidates, task>>
      BY <1>11 DEF RemoveReaped
    <2> QED
      BY <1>0, <2>1, <2>2, RemoveKeepsTable DEF TableInv, TableTypes
  <1>12. ASSUME Tick \/ UNCHANGED vars PROVE TableInv'
    BY <1>0, <1>12, OthersKeepTable DEF Tick, vars, tableVars, TableTypes
  <1> QED
    BY <1>1, <1>2, <1>3, <1>4, <1>5, <1>6, <1>7, <1>8, <1>9, <1>10, <1>11, <1>12, <1>13
    DEF Next, TaskStep, PeerMessage

\* The inductive invariant of the table.
LEMMA TableInvariant == Spec => []TableInv
  BY InitTable, StepTable, PTL DEF Spec

\* Whichever task removes an entry, and however often, the per-IP counters
\* count the entries of the table.
THEOREM CountersAgree == Spec => []CountsExact
  <1>1. TableInv => CountsExact
    BY DEF TableInv
  <1> QED
    BY TableInvariant, <1>1, PTL

\* The table never holds more entries than the three limits allow.
THEOREM LimitsAlwaysHold == Spec => []LimitsHold
  <1>1. TableInv => LimitsHold
    BY DEF TableInv
  <1> QED
    BY TableInvariant, <1>1, PTL

-----------------------------------------------------------------------------
(* Bans and attempts                                                       *)

Times == 0..MaxTime

\* The types that the operations on bans and attempts rely on.
BanTypes ==
    /\ score \in [Addrs -> Int]
    /\ stale \in [Addrs -> BOOLEAN]
    /\ banned \in [IPs -> Times \cup {NoBan}]
    /\ connection_attempts \in [IPs -> Seq(Times)]
    /\ now \in Times

\* Attempts and bans are not in the future.
NotInFuture ==
    /\ \A ip \in IPs : banned[ip] # NoBan => banned[ip] <= now
    /\ \A ip \in IPs : \A i \in 1..Len(connection_attempts[ip]) : connection_attempts[ip][i] <= now

\* Attempts are in the order of their times.
InOrder(s) == \A i, j \in 1..Len(s) : i <= j => s[i] <= s[j]
AttemptsInOrder == \A ip \in IPs : InOrder(connection_attempts[ip])

\* The attempts of an IP are no later than its ban, or out of the window.
BannedSince(ip) ==
    /\ banned[ip] # NoBan
    /\ \A i \in 1..Len(connection_attempts[ip]) : connection_attempts[ip][i] <= banned[ip]
AllOut(ip) ==
    \A i \in 1..Len(connection_attempts[ip]) : now - connection_attempts[ip][i] >= RATE_WINDOW

\* A list over the limit is either kept by a ban or about to be cleared.
OverLimit ==
    \A ip \in IPs :
        \/ Len(connection_attempts[ip]) <= MAX_CONN_RATE_PER_MINUTE
        \/ /\ Len(connection_attempts[ip]) = MAX_CONN_RATE_PER_MINUTE + 1
           /\ BannedSince(ip) \/ AllOut(ip)

BanInv == BanTypes /\ NotInFuture /\ AttemptsInOrder /\ OverLimit

\* The constants that are numbers.
LEMMA Numbers ==
    /\ MaxTime \in Nat /\ RATE_WINDOW \in Nat /\ BAN_DURATION \in Nat /\ RATE_WINDOW <= BAN_DURATION
    /\ MAX_CONN_RATE_PER_MINUTE \in Nat /\ \A a \in Addrs : IpOf[a] \in IPs
  BY PeerAssumption

\* The attempts that retain drops are counted by a number of the list's indices.
LEMMA OutOfWindowCount ==
    ASSUME BanTypes, NEW ip \in IPs
    PROVE  /\ Cardinality(OutOfWindow(ip)) \in 0..Len(connection_attempts[ip])
           /\ AllOut(ip) => Cardinality(OutOfWindow(ip)) = Len(connection_attempts[ip])
  <1> DEFINE n == Len(connection_attempts[ip])
  <1>1. n \in Nat
    BY DEF BanTypes
  <1>2. OutOfWindow(ip) \subseteq 1..n
    BY DEF OutOfWindow
  <1>3. AllOut(ip) => OutOfWindow(ip) = 1..n
    BY DEF OutOfWindow, AllOut
  <1> HIDE DEF n
  <1>4. IsFiniteSet(1..n) /\ Cardinality(1..n) = n
    BY <1>1, FS_Interval
  <1>5. Cardinality(OutOfWindow(ip)) \in Nat /\ Cardinality(OutOfWindow(ip)) <= n
    BY <1>1, <1>2, <1>4, FS_Subset, FS_CardinalityType
  <1> QED  BY <1>1, <1>3, <1>4, <1>5 DEF n

\* What retain leaves is a part of the list, in its order.
LEMMA RecentIsTail ==
    ASSUME BanTypes, NEW ip \in IPs
    PROVE  LET s == connection_attempts[ip]
               r == RecentAttempts(ip)
               k == Cardinality(OutOfWindow(ip))
           IN  /\ r \in Seq(Times) /\ k \in Nat
               /\ Len(r) = Len(s) - k
               /\ \A i \in 1..Len(r) : r[i] = s[k + i] /\ k + i \in 1..Len(s)
  <1> DEFINE s == connection_attempts[ip]
             k == Cardinality(OutOfWindow(ip))
  <1>1. s \in Seq(Times) /\ k \in 0..Len(s)
    BY OutOfWindowCount DEF BanTypes
  <1>2. RecentAttempts(ip) = SubSeq(s, k + 1, Len(s))
    BY DEF RecentAttempts
  <1> HIDE DEF s, k
  <1>3. SubSeq(s, k + 1, Len(s)) \in Seq(Times)
    BY <1>1
  <1>4. Len(SubSeq(s, k + 1, Len(s))) = Len(s) - k
    BY <1>1
  <1>5. \A i \in 1..(Len(s) - k) : SubSeq(s, k + 1, Len(s))[i] = s[k + i] /\ k + i \in 1..Len(s)
    BY <1>1
  <1> QED  BY <1>1, <1>2, <1>3, <1>4, <1>5 DEF s, k

\* In a list in the order of its times the attempts out of the window come first,
\* so RecentAttempts drops exactly those that retain drops.
LEMMA RetainDropsPrefix ==
    ASSUME BanTypes, AttemptsInOrder, NEW ip \in IPs
    PROVE  OutOfWindow(ip) = 1..Cardinality(OutOfWindow(ip))
  <1> DEFINE s == connection_attempts[ip]
             S == OutOfWindow(ip)
             T == {i \in Nat \ {0} : i \notin S}
             R == OpToRel(<, Nat)
  <1>1. /\ s \in Seq(Times) /\ Len(s) \in Nat /\ S \subseteq 1..Len(s) /\ now \in Int
        /\ RATE_WINDOW \in Int
        /\ \A i \in 1..Len(s) : s[i] \in Int
        /\ \A i, j \in 1..Len(s) : i <= j => s[i] <= s[j]
        /\ \A i \in 1..Len(s) : i \in S <=> now - s[i] >= RATE_WINDOW
    BY Numbers DEF BanTypes, OutOfWindow, AttemptsInOrder, InOrder, Times
  <1> HIDE DEF s, S
  <1>2. \A i, j \in 1..Len(s) : i <= j /\ j \in S => i \in S
    BY <1>1
  <1>3. IsWellFoundedOn(R, Nat)
    BY NatLessThanWellFounded DEF OpToRel
  <1>4. Len(s) + 1 \in T /\ T \subseteq Nat
    BY <1>1
  <1>5. \A x, y \in Nat : x < y => <<x, y>> \in R
    BY DEF OpToRel
  <1> HIDE DEF T, R
  <1>6. PICK x \in T : \A y \in T : ~(<<y, x>> \in R)
    BY <1>3, <1>4, WFMin
  <1>7. x \in Nat \ {0} /\ x \notin S /\ \A y \in Nat \ {0} : y < x => y \in S
    BY <1>4, <1>5, <1>6 DEF T
  <1>8. S = 1..(x - 1)
    <2>1. ASSUME NEW i \in 1..(x - 1) PROVE i \in S
      BY <1>7
    <2>2. ASSUME NEW i \in S PROVE i \in 1..(x - 1)
      <3>1. i \in 1..Len(s)
        BY <1>1
      <3>2. i < x
        <4> SUFFICES ASSUME x <= i PROVE FALSE
          BY <1>7, <3>1
        <4>1. x \in 1..Len(s)
          BY <1>1, <1>7, <3>1
        <4> QED  BY <1>2, <1>7, <3>1, <4>1
      <3> QED  BY <1>7, <3>1, <3>2
    <2> QED  BY <2>1, <2>2
  <1>9. Cardinality(1..(x - 1)) = x - 1
    BY <1>7, FS_Interval
  <1> QED  BY <1>8, <1>9 DEF S

\* A step that leaves the attempts alone, lets bans only begin now or end when
\* they are over, and time only go on.
LEMMA AttemptsKept ==
    ASSUME BanInv, connection_attempts' = connection_attempts,
           now' \in Times, now <= now',
           banned' \in [IPs -> Times \cup {NoBan}],
           \A ip \in IPs : \/ banned'[ip] = banned[ip]
                           \/ banned'[ip] = now'
                           \/ banned'[ip] = NoBan /\ ~IsBanned(ip) /\ now' = now
    PROVE  NotInFuture' /\ AttemptsInOrder' /\ OverLimit'
  <1> USE DEF BanInv
  <1>1. /\ now \in Int /\ now' \in Int /\ NoBan \in Int
        /\ \A ip \in IPs : banned[ip] \in Int /\ banned'[ip] \in Int
        /\ \A ip \in IPs : Len(connection_attempts[ip]) \in Nat
        /\ \A ip \in IPs : \A i \in 1..Len(connection_attempts[ip]) : connection_attempts[ip][i] \in Int
    BY Numbers DEF BanTypes, Times, NoBan
  <1>2. NotInFuture'
    BY <1>1 DEF NotInFuture
  <1>3. AttemptsInOrder'
    BY DEF AttemptsInOrder
  <1>4. ASSUME NEW ip \in IPs, AllOut(ip)  PROVE AllOut(ip)'
    BY <1>1, <1>4, Numbers DEF AllOut
  <1>5. ASSUME NEW ip \in IPs, BannedSince(ip)  PROVE BannedSince(ip)' \/ AllOut(ip)'
    <2>1. CASE banned'[ip] = banned[ip]
      BY <1>5, <2>1 DEF BannedSince
    <2>2. CASE banned'[ip] = now'
      BY <1>1, <2>2 DEF BannedSince, NotInFuture, NoBan, BanTypes, Times
    <2>3. CASE banned'[ip] = NoBan /\ ~IsBanned(ip) /\ now' = now
      BY <1>1, <1>5, <2>3, Numbers DEF BannedSince, AllOut, IsBanned
    <2> QED  BY <2>1, <2>2, <2>3
  <1>6. OverLimit'
    BY <1>4, <1>5 DEF OverLimit
  <1> QED  BY <1>2, <1>3, <1>6

\* An attempt that is recorded: either the list stays within the limit, or the
\* IP is banned for as long as the list counts.
LEMMA AcceptKeepsBans ==
    ASSUME BanInv, NEW a \in Addrs, Accept(a)
    PROVE  BanInv'
  <1> DEFINE ip == IpOf[a]
             r == RecentAttempts(ip)
             s == connection_attempts[ip]
             k == Cardinality(OutOfWindow(ip))
             u == Append(r, now)
             m == MAX_CONN_RATE_PER_MINUTE
  <1> USE DEF BanInv
  <1>1. ip \in IPs /\ m \in Nat /\ MaxTime \in Nat /\ RATE_WINDOW \in Nat
    BY Numbers
  <1>2. /\ ~IsBanned(ip)
        /\ connection_attempts' = [connection_attempts EXCEPT ![ip] = u]
        /\ banned' = [banned EXCEPT ![ip] = IF Len(u) > m THEN now ELSE NoBan]
        /\ UNCHANGED <<score, stale, now>>
    BY DEF Accept, tableVars
  <1>3. /\ r \in Seq(Times) /\ k \in Nat
        /\ Len(r) = Len(s) - k
        /\ \A i \in 1..Len(r) : r[i] = s[k + i] /\ k + i \in 1..Len(s)
        /\ AllOut(ip) => k = Len(s)
    BY <1>1, RecentIsTail, OutOfWindowCount
  <1>4. /\ s \in Seq(Times) /\ now \in Times /\ Len(s) \in Nat
        /\ \A i \in 1..Len(s) : s[i] <= now
        /\ \A i, j \in 1..Len(s) : i <= j => s[i] <= s[j]
    BY <1>1 DEF BanTypes, NotInFuture, AttemptsInOrder, InOrder
  <1>5. BannedSince(ip) => AllOut(ip)
    <2> SUFFICES ASSUME BannedSince(ip), NEW i \in 1..Len(s) PROVE now - s[i] >= RATE_WINDOW
      BY DEF AllOut
    <2> DEFINE b == banned[ip]
    <2>1. b \in Times /\ s[i] <= b /\ s[i] \in Times
      BY <1>1, <1>4 DEF BannedSince, BanTypes
    <2>2. now - b >= BAN_DURATION
      BY <1>1, <1>2, <1>4, <2>1, Numbers DEF BannedSince, IsBanned, Times
    <2> HIDE DEF b, s, ip
    <2> QED  BY <1>4, <2>1, <2>2, Numbers DEF Times
  <1>6. Len(s) <= m \/ k = Len(s)
    BY <1>1, <1>3, <1>5 DEF OverLimit
  <1> HIDE DEF r, k, m, ip, s
  <1>7. Len(r) \in Nat /\ Len(r) <= m
    BY <1>1, <1>3, <1>4, <1>6
  <1>8. /\ u \in Seq(Times) /\ Len(u) = Len(r) + 1
        /\ \A i \in 1..Len(r) : u[i] = r[i]
        /\ u[Len(r) + 1] = now
    BY <1>3, <1>4
  <1>9. \A i \in 1..Len(r) : r[i] <= now
    BY <1>3, <1>4
  <1>10. \A i, j \in 1..Len(r) : i <= j => r[i] <= r[j]
    <2> SUFFICES ASSUME NEW i \in 1..Len(r), NEW j \in 1..Len(r), i <= j  PROVE r[i] <= r[j]
      OBVIOUS
    <2>1. k + i <= k + j
      BY <1>3
    <2> QED  BY <1>3, <1>4, <2>1
  <1> HIDE DEF u
  <1>11. \A i \in 1..Len(u) : i \in 1..Len(r) \/ i = Len(r) + 1
    BY <1>7, <1>8
  <1>12. \A i \in 1..Len(u) : u[i] <= now /\ u[i] \in Times
    <2> SUFFICES ASSUME NEW i \in 1..Len(u)  PROVE u[i] <= now /\ u[i] \in Times
      OBVIOUS
    <2>1. u[i] \in Times
      BY <1>8
    <2>2. now <= now
      BY <1>4 DEF Times
    <2> QED  BY <1>8, <1>9, <1>11, <2>1, <2>2
  <1>13. InOrder(u)
    <2> SUFFICES ASSUME NEW i \in 1..Len(u), NEW j \in 1..Len(u), i <= j  PROVE u[i] <= u[j]
      BY DEF InOrder
    <2>1. CASE j = Len(r) + 1
      BY <1>8, <1>12, <2>1
    <2>2. CASE j \in 1..Len(r)
      <3>1. i \in 1..Len(r)
        BY <1>7, <1>11, <2>2
      <3> QED  BY <1>8, <1>10, <2>2, <3>1
    <2> QED  BY <1>11, <2>1, <2>2
  <1>14. BanTypes'
    BY <1>1, <1>2, <1>4, <1>8 DEF BanTypes
  <1>15. NotInFuture'
    <2> SUFFICES ASSUME NEW q \in IPs
                 PROVE  /\ banned'[q] # NoBan => banned'[q] <= now
                        /\ \A i \in 1..Len(connection_attempts'[q]) : connection_attempts'[q][i] <= now
      BY <1>2 DEF NotInFuture
    <2>1. CASE q = ip
      BY <1>1, <1>2, <1>4, <1>12, <2>1 DEF BanTypes, Times
    <2>2. CASE q # ip
      BY <1>1, <1>2, <2>2 DEF BanTypes, NotInFuture
    <2> QED  BY <2>1, <2>2
  <1>16. AttemptsInOrder'
    <2> SUFFICES ASSUME NEW q \in IPs  PROVE InOrder(connection_attempts'[q])
      BY DEF AttemptsInOrder
    <2>1. CASE q = ip
      BY <1>1, <1>2, <1>13, <2>1 DEF BanTypes
    <2>2. CASE q # ip
      BY <1>1, <1>2, <2>2 DEF BanTypes, AttemptsInOrder
    <2> QED  BY <2>1, <2>2
  <1>17. OverLimit'
    <2> SUFFICES ASSUME NEW q \in IPs
                 PROVE  \/ Len(connection_attempts'[q]) <= m
                        \/ /\ Len(connection_attempts'[q]) = m + 1
                           /\ BannedSince(q)' \/ AllOut(q)'
      BY DEF OverLimit, m
    <2>1. CASE q = ip
      <3>1. connection_attempts'[q] = u /\ banned'[q] = IF Len(u) > m THEN now ELSE NoBan
        BY <1>1, <1>2, <2>1 DEF BanTypes
      <3>2. CASE Len(u) <= m
        BY <3>1, <3>2
      <3>3. CASE Len(u) > m
        <4>1. Len(u) = m + 1
          BY <1>1, <1>7, <1>8, <3>3
        <4>2. banned'[q] = now /\ now # NoBan
          BY <1>4, <3>1, <3>3 DEF Times, NoBan
        <4>3. BannedSince(q)'
          BY <1>12, <3>1, <4>2 DEF BannedSince
        <4> QED  BY <3>1, <4>1, <4>3
      <3> QED  BY <1>1, <1>7, <1>8, <3>2, <3>3
    <2>2. CASE q # ip
      <3>1. connection_attempts'[q] = connection_attempts[q] /\ banned'[q] = banned[q] /\ now' = now
        BY <1>1, <1>2, <2>2 DEF BanTypes
      <3> QED  BY <3>1 DEF OverLimit, BannedSince, AllOut, m
    <2> QED  BY <2>1, <2>2
  <1> QED  BY <1>14, <1>15, <1>16, <1>17

\* add_peer forgets only bans that are over.
LEMMA AddKeepsBans ==
    ASSUME BanInv, NEW a \in Addrs, NEW d, AddPeer(a, d), UNCHANGED <<connection_attempts, now>>
    PROVE  BanInv'
  <1>1. IpOf[a] \in IPs
    BY Numbers
  <1>2. BanTypes'
    <2>1. BanTypes
      BY DEF BanInv
    <2>2. banned' \in [IPs -> Times \cup {NoBan}] /\ now' \in Times
          /\ connection_attempts' \in [IPs -> Seq(Times)]
      BY <1>1, <2>1 DEF BanTypes, AddPeer
    <2>3. CASE MayAdd(a, d)
      <3>1. score' = [score EXCEPT ![a] = 0] /\ stale' = [stale EXCEPT ![a] = FALSE]
        BY <2>3 DEF AddPeer
      <3>2. score' \in [Addrs -> Int]
        BY <2>1, <3>1 DEF BanTypes
      <3>3. stale' \in [Addrs -> BOOLEAN]
        BY <2>1, <3>1, Zenon DEF BanTypes
      <3> QED  BY <2>2, <3>2, <3>3 DEF BanTypes
    <2>4. CASE ~MayAdd(a, d)
      BY <2>1, <2>2, <2>4 DEF BanTypes, AddPeer, tableVars
    <2> QED  BY <2>3, <2>4
  <1>3. \A ip \in IPs : banned'[ip] = banned[ip] \/ (banned'[ip] = NoBan /\ ~IsBanned(ip))
    BY <1>1 DEF BanInv, BanTypes, AddPeer
  <1>4. now <= now' /\ now' = now
    BY DEF BanInv, BanTypes, Times
  <1>5. now' \in Times /\ banned' \in [IPs -> Times \cup {NoBan}]
    BY <1>2 DEF BanTypes
  <1> QED  BY <1>2, <1>3, <1>4, <1>5, AttemptsKept DEF BanInv

\* Removing entries touches neither bans nor attempts.
LEMMA RemoveKeepsBans ==
    ASSUME BanInv, NEW gone, RemovePeers(gone), UNCHANGED <<banned, connection_attempts, now>>
    PROVE  BanInv'
  <1>1. score' \in [Addrs -> Int] /\ stale' \in [Addrs -> BOOLEAN]
    BY DEF BanInv, BanTypes, RemovePeers
  <1> QED
    BY <1>1 DEF BanInv, BanTypes, NotInFuture, AttemptsInOrder, OverLimit, BannedSince, AllOut

\* Steps that leave scores, bans, attempts and the clock alone.
LEMMA OthersKeepBans ==
    ASSUME BanInv, UNCHANGED <<score, banned, connection_attempts, now>>,
           stale' \in [Addrs -> BOOLEAN]
    PROVE  BanInv'
  BY DEF BanInv, BanTypes, NotInFuture, AttemptsInOrder, OverLimit, BannedSince, AllOut

\* A node that was just started knows of no attempt and of no ban.
LEMMA InitBans == Init => BanInv
  <1> SUFFICES ASSUME Init PROVE BanInv
    OBVIOUS
  <1>1. BanTypes
    BY Numbers DEF Init, BanTypes, Times, NoBan
  <1>2. \A ip \in IPs : connection_attempts[ip] = <<>> /\ banned[ip] = NoBan
    BY DEF Init
  <1> QED
    BY <1>1, <1>2, Numbers DEF BanInv, NotInFuture, AttemptsInOrder, InOrder, OverLimit

\* Every critical section keeps bans and attempts in step.
LEMMA StepBans == TableInv /\ BanInv /\ [Next]_vars => BanInv'
  <1> SUFFICES ASSUME TableInv, BanInv, [Next]_vars PROVE BanInv'
    OBVIOUS
  <1>0. TableTypes /\ BanTypes
    BY DEF TableInv, BanInv
  <1>1. ASSUME NEW a \in Addrs, Accept(a) PROVE BanInv'
    BY <1>1, AcceptKeepsBans
  <1>2. ASSUME NEW a \in Addrs, GoesStale(a) PROVE BanInv'
    BY <1>0, <1>2, OthersKeepBans DEF GoesStale, BanTypes
  <1>3. ASSUME NEW a \in Addrs, NEW points \in Penalties, Penalize(a, points) PROVE BanInv'
    <2>1. points \in Int /\ IpOf[a] \in IPs
      BY PeerAssumption
    <2>2. now' = now /\ now \in Times /\ connection_attempts' = connection_attempts /\ stale' = stale
      BY <1>0, <1>3 DEF Penalize, BanTypes
    <2>3. score' \in [Addrs -> Int]
      BY <1>0, <1>3, <2>1 DEF Penalize, BanTypes
    <2>4. /\ banned' \in [IPs -> Times \cup {NoBan}]
          /\ \A ip \in IPs : banned'[ip] = banned[ip] \/ banned'[ip] = now
      BY <1>0, <1>3, <2>1, <2>2 DEF Penalize, BanTypes
    <2>5. now <= now'
      BY <2>2 DEF Times
    <2>6. NotInFuture' /\ AttemptsInOrder' /\ OverLimit'
      BY <2>2, <2>4, <2>5, AttemptsKept
    <2> QED  BY <1>0, <2>2, <2>3, <2>4, <2>6 DEF BanInv, BanTypes
  <1>4. ASSUME NEW t \in Tasks, Admit(t) PROVE BanInv'
    BY <1>0, <1>4, AddKeepsBans DEF Admit, TableTypes
  <1>5. ASSUME NEW t \in Tasks, NEW a \in Addrs, Connect(t, a) PROVE BanInv'
    BY <1>5, AddKeepsBans DEF Connect
  <1>6. ASSUME NEW t \in Tasks, ConnectOk(t) \/ ConnectFails(t) \/ CloseInbound(t) PROVE BanInv'
    BY <1>0, <1>6, OthersKeepBans DEF ConnectOk, ConnectFails, CloseInbound, tableVars, BanTypes
  <1>7. ASSUME NEW t \in Tasks, EndOutbound(t) \/ EndInbound(t) PROVE BanInv'
    BY <1>7, RemoveKeepsBans DEF EndOutbound, EndInbound
  <1>8. ASSUME NEW t \in Tasks, Touch(t) PROVE BanInv'
    BY <1>0, <1>8, OthersKeepBans DEF Touch, BanTypes
  <1>9. ASSUME NEW t \in Tasks, NEW addrs, LearnPeers(t, addrs) PROVE BanInv'
    BY <1>0, <1>9, OthersKeepBans DEF LearnPeers, tableVars, BanTypes
  <1>10. ASSUME Reconnect \/ GiveUp \/ Reap PROVE BanInv'
    BY <1>0, <1>10, OthersKeepBans DEF Reconnect, GiveUp, Reap, tableVars, BanTypes
  <1>11. ASSUME RemoveReaped PROVE BanInv'
    BY <1>11, RemoveKeepsBans DEF RemoveReaped
  <1>12. ASSUME Tick PROVE BanInv'
    <2>1. /\ now' = now + 1 /\ now < MaxTime
          /\ UNCHANGED <<score, stale, banned, connection_attempts>>
      BY <1>12 DEF Tick, tableVars
    <2>2. now' \in Times /\ now <= now'
      BY <1>0, <2>1, Numbers DEF BanTypes, Times
    <2>3. NotInFuture' /\ AttemptsInOrder' /\ OverLimit'
      BY <1>0, <2>1, <2>2, AttemptsKept DEF BanTypes
    <2> QED  BY <1>0, <2>1, <2>2, <2>3 DEF BanInv, BanTypes
  <1>13. CASE UNCHANGED vars
    BY <1>0, <1>13, OthersKeepBans DEF vars, BanTypes
  <1> QED
    BY <1>1, <1>2, <1>3, <1>4, <1>5, <1>6, <1>7, <1>8, <1>9, <1>10, <1>11, <1>12, <1>13
    DEF Next, TaskStep, PeerMessage

\* The inductive invariant of the table with its bans.
LEMMA BanInvariant == Spec => [](TableInv /\ BanInv)
  BY InitTable, StepTable, InitBans, StepBans, PTL DEF Spec

\* Whichever bans and connection tasks come in between, no IP has more than one
\* attempt above the limit on record: the ban that comes with it keeps further
\* ones off the list until all of it is out of the window (track_connection_attempt).
THEOREM AttemptsAlwaysBounded == Spec => []AttemptsBounded
  <1>1. BanInv => AttemptsBounded
    <2> SUFFICES ASSUME BanInv, NEW ip \in IPs
                 PROVE  Len(connection_attempts[ip]) <= MAX_CONN_RATE_PER_MINUTE + 1
      BY DEF AttemptsBounded
    <2>1. Len(connection_attempts[ip]) \in Nat
      BY DEF BanInv, BanTypes
    <2> QED  BY <2>1, Numbers DEF BanInv, OverLimit
  <1> QED  BY <1>1, BanInvariant, PTL

\* The table, the counters and the clock keep their types; that no counter of an
\* IP goes below zero follows from its agreement with the table (remove_peer).
THEOREM TypeCorrect == Spec => []TypeOK
  <1>1. TableInv /\ BanInv => TypeOK
    <2> SUFFICES ASSUME TableInv, BanInv PROVE TypeOK
      OBVIOUS
    <2>1. ASSUME NEW ip \in IPs PROVE connections_per_ip[ip] \in Nat
      <3>1. ConnectedFrom(ip) \in SUBSET Addrs
        BY DEF ConnectedFrom, Connected
      <3> QED  BY <3>1, AddressSets DEF TableInv, CountsExact
    <2>2. connections_per_ip \in [IPs -> Nat]
      BY <2>1 DEF TableInv, TableTypes
    <2> QED  BY <2>2 DEF TableInv, TableTypes, BanInv, BanTypes, TypeOK, Directions, Times
  <1> QED  BY <1>1, BanInvariant, PTL

=============================================================================

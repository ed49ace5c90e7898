----------------------------- MODULE PeerManager -----------------------------
(***************************************************************************)
(* The table of connected peers (taron-node/src/peer.rs) and the tasks of  *)
(* the node that use it (node.rs): the accept loop, the reconnect loop,    *)
(* one task per connection and the reaper of stale peers.  The table is    *)
(* behind one mutex; every action is one critical section, and whatever    *)
(* was read in one may be stale in the next.                               *)
(***************************************************************************)
EXTENDS Integers, Sequences, FiniteSets

CONSTANTS
    Addrs,                   \* socket addresses
    IPs,                     \* IP addresses
    IpOf,                    \* the IP of each socket address
    NoAddr,                  \* the accept loop has no connection in hand
    Tasks,                   \* bound: connection tasks alive at a time
    Seeds,                   \* resolve_seeds
    Announced,               \* addresses other nodes tell of
    OwnAddrs,                \* addresses at which this node listens itself
    FEW_OUTBOUND,            \* with fewer outgoing connections seeds are dialled again
    MAX_OUTBOUND, MAX_INBOUND, MAX_CONNECTIONS_PER_IP,
    MAX_CONN_RATE_PER_MINUTE,
    RATE_WINDOW, BAN_DURATION,
    SCORE_BAN_THRESHOLD,     \* a negative score
    Penalties,               \* PENALTY_INVALID_BLOCK, PENALTY_BAD_MESSAGE
    MaxTime                  \* bound: the clock stops here

ASSUME PeerAssumption ==
    /\ IpOf \in [Addrs -> IPs]
    /\ IsFiniteSet(Addrs)
    /\ NoAddr \notin Addrs
    /\ OwnAddrs \cap Addrs = {}
    /\ Seeds \subseteq Addrs \cup OwnAddrs
    /\ Announced \subseteq Addrs \cup OwnAddrs
    /\ FEW_OUTBOUND \in Nat
    /\ MAX_OUTBOUND \in Nat /\ MAX_INBOUND \in Nat /\ MAX_CONNECTIONS_PER_IP \in Nat
    /\ MAX_CONN_RATE_PER_MINUTE \in Nat
    /\ RATE_WINDOW \in Nat /\ BAN_DURATION \in Nat /\ RATE_WINDOW <= BAN_DURATION
    /\ SCORE_BAN_THRESHOLD \in Int
    /\ Penalties \subseteq Nat
    /\ MaxTime \in Nat

VARIABLES
    direction,            \* peers: direction of each entry, "none" if absent
    score,                \* peers: behaviour score of each entry
    stale,                \* peers: entries not heard of for five minutes
    connections_per_ip,
    banned,               \* when each IP was banned, NoBan if it is not
    connection_attempts,  \* times of the recent attempts of each IP
    accepting,            \* what the accept loop holds between its two locks
    discovered,           \* addresses heard of since the last reconnect
    candidates,           \* what the reconnect loop is about to dial
    reaping,              \* what the reaper is about to remove
    task,                 \* the connection tasks
    now                   \* Instant::now()

tableVars == <<direction, score, stale, connections_per_ip>>
vars == <<direction, score, stale, connections_per_ip, banned,
          connection_attempts, accepting, discovered, candidates, reaping, task, now>>

NoBan == -1
Idle == [state |-> "none"]

Connecting(t) == task[t].state = "connecting"
Live(t) == task[t].state = "live"
Closing(t) == task[t].state = "closing"

TaskStates == {Idle} \cup [state : {"connecting", "live", "closing"}, addr : Addrs,
                           direction : {"inbound", "outbound"}]

TypeOK ==
    /\ direction \in [Addrs -> {"none", "inbound", "outbound"}]
    /\ score \in [Addrs -> Int]
    /\ stale \in [Addrs -> BOOLEAN]
    /\ connections_per_ip \in [IPs -> Nat]
    /\ banned \in [IPs -> 0..MaxTime \cup {NoBan}]
    /\ connection_attempts \in [IPs -> Seq(0..MaxTime)]
    /\ accepting \in Addrs \cup {NoAddr}
    /\ discovered \in SUBSET (Addrs \cup OwnAddrs)
    /\ candidates \in SUBSET Addrs
    /\ reaping \in SUBSET Addrs
    /\ task \in [Tasks -> TaskStates]
    /\ now \in 0..MaxTime

-----------------------------------------------------------------------------
(* The table's own methods                                                 *)

Connected == {a \in Addrs : direction[a] # "none"}
ConnectedFrom(ip) == {a \in Connected : IpOf[a] = ip}
OfDirection(d) == {a \in Addrs : direction[a] = d}

IsBanned(ip) == banned[ip] # NoBan /\ now - banned[ip] < BAN_DURATION

CanAccept(d) ==
    \/ d = "inbound" /\ Cardinality(OfDirection("inbound")) < MAX_INBOUND
    \/ d = "outbound" /\ Cardinality(OfDirection("outbound")) < MAX_OUTBOUND

\* Mutant: add_peer trusts that its caller asked can_accept.
MayAddUnlimited(a, d) ==
    /\ ~IsBanned(IpOf[a])
    /\ connections_per_ip[IpOf[a]] < MAX_CONNECTIONS_PER_IP
    /\ direction[a] = "none"

MayAdd(a, d) ==
    /\ ~IsBanned(IpOf[a])
    /\ connections_per_ip[IpOf[a]] < MAX_CONNECTIONS_PER_IP
    /\ direction[a] = "none"
    /\ CanAccept(d)

\* add_peer: is_banned forgets a ban that is over even if the rest fails.
AddPeer(a, d) ==
    /\ banned' = IF IsBanned(IpOf[a]) THEN banned ELSE [banned EXCEPT ![IpOf[a]] = NoBan]
    /\ IF MayAdd(a, d)
       THEN /\ direction' = [direction EXCEPT ![a] = d]
            /\ score' = [score EXCEPT ![a] = 0]
            /\ stale' = [stale EXCEPT ![a] = FALSE]
            /\ connections_per_ip' = [connections_per_ip EXCEPT ![IpOf[a]] = @ + 1]
       ELSE UNCHANGED tableVars

\* Mutant: the counter goes down whether there was an entry or not.
RemovePeersAlways(gone) ==
    /\ direction' = [a \in Addrs |-> IF a \in gone THEN "none" ELSE direction[a]]
    /\ connections_per_ip' =
          [ip \in IPs |-> connections_per_ip[ip] - Cardinality({a \in gone : IpOf[a] = ip})]
    /\ score' = [a \in Addrs |-> IF a \in gone THEN 0 ELSE score[a]]
    /\ stale' = [a \in Addrs |-> stale[a] /\ a \notin gone]

\* Entries of gone are dropped; an address without an entry is ignored.
RemovePeers(gone) ==
    /\ direction' = [a \in Addrs |-> IF a \in gone THEN "none" ELSE direction[a]]
    /\ connections_per_ip' =
          [ip \in IPs |-> connections_per_ip[ip]
                             - Cardinality({a \in gone : direction[a] # "none" /\ IpOf[a] = ip})]
    /\ score' = [a \in Addrs |-> IF a \in gone THEN 0 ELSE score[a]]
    /\ stale' = [a \in Addrs |-> stale[a] /\ a \notin gone]

OutOfWindow(ip) ==
    {i \in 1..Len(connection_attempts[ip]) : now - connection_attempts[ip][i] >= RATE_WINDOW}

\* retain: attempts are pushed as they come, so those out of the window are in
\* front of the others.
RecentAttempts(ip) ==
    SubSeq(connection_attempts[ip], Cardinality(OutOfWindow(ip)) + 1, Len(connection_attempts[ip]))

-----------------------------------------------------------------------------
(* Accept loop                                                             *)

\* A TCP connection from a is the only one with that address.
Reachable(a) ==
    ~ \E t \in Tasks : Live(t) /\ task[t].addr = a /\ task[t].direction = "inbound"

\* Mutant: the rate limit is asked before the ban.
AcceptBanned(a) ==
    /\ accepting = NoAddr
    /\ Reachable(a)
    /\ LET attempts == Append(RecentAttempts(IpOf[a]), now)
           tooMany == Len(attempts) > MAX_CONN_RATE_PER_MINUTE
       IN  /\ connection_attempts' = [connection_attempts EXCEPT ![IpOf[a]] = attempts]
           /\ banned' = [banned EXCEPT ![IpOf[a]] = IF tooMany THEN now ELSE NoBan]
           /\ accepting' = IF ~tooMany /\ CanAccept("inbound") THEN a ELSE NoAddr
    /\ UNCHANGED <<tableVars, discovered, candidates, reaping, task, now>>

\* First lock: ban, rate limit, inbound limit.
Accept(a) ==
    /\ accepting = NoAddr
    /\ Reachable(a)
    /\ ~IsBanned(IpOf[a])
    /\ LET attempts == Append(RecentAttempts(IpOf[a]), now)
           tooMany == Len(attempts) > MAX_CONN_RATE_PER_MINUTE
       IN  /\ connection_attempts' = [connection_attempts EXCEPT ![IpOf[a]] = attempts]
           /\ banned' = [banned EXCEPT ![IpOf[a]] = IF tooMany THEN now ELSE NoBan]
           /\ accepting' = IF ~tooMany /\ CanAccept("inbound") THEN a ELSE NoAddr
    /\ UNCHANGED <<tableVars, discovered, candidates, reaping, task, now>>

\* Second lock: add_peer; the connection is dropped when it refuses.
Admit(t) ==
    /\ accepting # NoAddr
    /\ task[t] = Idle
    /\ AddPeer(accepting, "inbound")
    /\ task' = IF MayAdd(accepting, "inbound")
               THEN [task EXCEPT ![t] = [state |-> "live", addr |-> accepting,
                                         direction |-> "inbound"]]
               ELSE task
    /\ accepting' = NoAddr
    /\ UNCHANGED <<connection_attempts, discovered, candidates, reaping, now>>

-----------------------------------------------------------------------------
(* Reconnect loop and outgoing connections                                 *)

\* What run() dials when it starts: the seeds but this node itself.
SeedNodes == Seeds \ OwnAddrs

\* Seeds and discovered addresses, but no IP that is connected already.
Reconnect ==
    /\ candidates = {}
    /\ CanAccept("outbound")
    /\ LET few == Cardinality(OfDirection("outbound")) < FEW_OUTBOUND
           known == discovered \cup (IF few THEN Seeds ELSE {})
       IN  candidates' = {a \in known \ OwnAddrs : ConnectedFrom(IpOf[a]) = {}}
    /\ discovered' = {}
    /\ UNCHANGED <<tableVars, banned, connection_attempts, accepting, reaping, task, now>>

\* The first section of connect_to_peer.
Connect(t, a) ==
    /\ a \in candidates
    /\ task[t] = Idle
    /\ candidates' = candidates \ {a}
    /\ AddPeer(a, "outbound")
    /\ task' = IF MayAdd(a, "outbound")
               THEN [task EXCEPT ![t] = [state |-> "connecting", addr |-> a,
                                         direction |-> "outbound"]]
               ELSE task
    /\ UNCHANGED <<connection_attempts, accepting, discovered, reaping, now>>

\* The loop breaks off when the outbound limit is reached.
GiveUp ==
    /\ candidates # {}
    /\ ~CanAccept("outbound")
    /\ candidates' = {}
    /\ UNCHANGED <<tableVars, banned, connection_attempts, accepting, discovered, reaping, task, now>>

ConnectOk(t) ==
    /\ Connecting(t)
    /\ task' = [task EXCEPT ![t] = [@ EXCEPT !.state = "live"]]
    /\ UNCHANGED <<tableVars, banned, connection_attempts, accepting, discovered, candidates, reaping, now>>

\* TcpStream::connect(addr).await? returns without touching the table.
ConnectFails(t) ==
    /\ Connecting(t)
    /\ task' = [task EXCEPT ![t] = Idle]
    /\ UNCHANGED <<tableVars, banned, connection_attempts, accepting, discovered, candidates, reaping, now>>

\* The connection leads back to this node, or handle_messages of an outgoing
\* connection returned.
EndOutbound(t) ==
    /\ Connecting(t) \/ Live(t)
    /\ task[t].direction = "outbound"
    /\ RemovePeers({task[t].addr})
    /\ task' = [task EXCEPT ![t] = Idle]
    /\ UNCHANGED <<banned, connection_attempts, accepting, discovered, candidates, reaping, now>>

\* handle_messages of an accepted connection returned: the writer has up to
\* five seconds to stop before remove_peer is called.
CloseInbound(t) ==
    /\ Live(t)
    /\ task[t].direction = "inbound"
    /\ task' = [task EXCEPT ![t] = [@ EXCEPT !.state = "closing"]]
    /\ UNCHANGED <<tableVars, banned, connection_attempts, accepting, discovered, candidates, reaping, now>>

EndInbound(t) ==
    /\ Closing(t)
    /\ RemovePeers({task[t].addr})
    /\ task' = [task EXCEPT ![t] = Idle]
    /\ UNCHANGED <<banned, connection_attempts, accepting, discovered, candidates, reaping, now>>

-----------------------------------------------------------------------------
(* Keepalive, penalties, reaper                                            *)

\* Hello, Ping or Pong from the peer: update_hello, touch.
Touch(t) ==
    /\ Live(t)
    /\ direction[task[t].addr] # "none"
    /\ stale' = [stale EXCEPT ![task[t].addr] = FALSE]
    /\ UNCHANGED <<direction, score, connections_per_ip, banned, connection_attempts,
                   accepting, discovered, candidates, reaping, task, now>>

\* A Peers message: addresses whose IP is connected already are no news.
LearnPeers(t, addrs) ==
    /\ Live(t)
    /\ discovered' = discovered \cup
          {a \in addrs : a \in OwnAddrs \/ ConnectedFrom(IpOf[a]) = {}}
    /\ UNCHANGED <<tableVars, banned, connection_attempts, accepting, candidates, reaping, task, now>>

\* The messages of handle_messages about the connections themselves; GetPeers
\* is answered from the table and changes nothing.
PeerMessage(t) ==
    \/ Touch(t)
    \/ \E addrs \in SUBSET Announced : LearnPeers(t, addrs)

\* Five minutes pass.
GoesStale(a) ==
    /\ direction[a] # "none"
    /\ ~stale[a]
    /\ stale' = [stale EXCEPT ![a] = TRUE]
    /\ UNCHANGED <<direction, score, connections_per_ip, banned, connection_attempts,
                   accepting, discovered, candidates, reaping, task, now>>

Penalize(a, points) ==
    /\ direction[a] # "none"
    /\ score[a] >= SCORE_BAN_THRESHOLD  \* bound: scores stop below the threshold
    /\ score' = [score EXCEPT ![a] = @ - points]
    /\ banned' = IF score[a] - points < SCORE_BAN_THRESHOLD
                 THEN [banned EXCEPT ![IpOf[a]] = now]
                 ELSE banned
    /\ UNCHANGED <<direction, stale, connections_per_ip, connection_attempts,
                   accepting, discovered, candidates, reaping, task, now>>

\* Mutant: the reaper looks after incoming connections only.
StalePeersInbound == {a \in OfDirection("inbound") : stale[a]}

StalePeers == {a \in Connected : stale[a]}

Reap ==
    /\ reaping = {}
    /\ StalePeers # {}
    /\ reaping' = StalePeers
    /\ UNCHANGED <<tableVars, banned, connection_attempts, accepting, discovered, candidates, task, now>>

\* The tasks of the entries are not told: each holds a sender of its own, so
\* its writer keeps running.
RemoveReaped ==
    /\ reaping # {}
    /\ RemovePeers(reaping)
    /\ reaping' = {}
    /\ UNCHANGED <<banned, connection_attempts, accepting, discovered, candidates, task, now>>

Tick ==
    /\ now < MaxTime
    /\ now' = now + 1
    /\ UNCHANGED <<tableVars, banned, connection_attempts, accepting, discovered, candidates, reaping, task>>

-----------------------------------------------------------------------------
Init ==
    /\ direction = [a \in Addrs |-> "none"]
    /\ score = [a \in Addrs |-> 0]
    /\ stale = [a \in Addrs |-> FALSE]
    /\ connections_per_ip = [ip \in IPs |-> 0]
    /\ banned = [ip \in IPs |-> NoBan]
    /\ connection_attempts = [ip \in IPs |-> <<>>]
    /\ accepting = NoAddr
    /\ discovered = {}
    /\ candidates = SeedNodes
    /\ reaping = {}
    /\ task = [t \in Tasks |-> Idle]
    /\ now = 0

TaskStep(t) ==
    \/ Admit(t)
    \/ \E a \in Addrs : Connect(t, a)
    \/ ConnectOk(t) \/ ConnectFails(t) \/ EndOutbound(t)
    \/ CloseInbound(t) \/ EndInbound(t) \/ PeerMessage(t)

Next ==
    \/ \E a \in Addrs : Accept(a) \/ GoesStale(a)
    \/ \E a \in Addrs, points \in Penalties : Penalize(a, points)
    \/ \E t \in Tasks : TaskStep(t)
    \/ Reconnect \/ GiveUp \/ Reap \/ RemoveReaped \/ Tick

\* Time passes, and the reaper is a task of its own that nothing blocks: the
\* table's mutex is never held across an await.
Fairness ==
    /\ \A a \in Addrs : WF_vars(GoesStale(a))
    /\ WF_vars(Reap) /\ WF_vars(RemoveReaped)

Spec == Init /\ [][Next]_vars /\ Fairness

-----------------------------------------------------------------------------
(* Properties                                                              *)

\* connections_per_ip counts the entries of the table, although entries are
\* removed by their task, by the reaper, by both, or by a task whose entry was
\* reaped and replaced.
CountsExact ==
    \A ip \in IPs : connections_per_ip[ip] = Cardinality(ConnectedFrom(ip))

\* The limits hold for the table, although the accept loop and the reconnect
\* loop ask for room in one critical section and take it in another.
LimitsHold ==
    /\ Cardinality(OfDirection("inbound")) <= MAX_INBOUND
    /\ Cardinality(OfDirection("outbound")) <= MAX_OUTBOUND
    /\ \A ip \in IPs : Cardinality(ConnectedFrom(ip)) <= MAX_CONNECTIONS_PER_IP

\* The list of attempts of an IP is bounded: an IP over the limit is banned and
\* its next attempts are not recorded, and when the ban is over the old ones
\* have left the window.
AttemptsBounded ==
    \A ip \in IPs : Len(connection_attempts[ip]) <= MAX_CONN_RATE_PER_MINUTE + 1

Orphaned(a) ==
    /\ direction[a] # "none"
    /\ ~ \E t \in Tasks : task[t] # Idle /\ task[t].addr = a

\* An entry without a task, as a failed connect leaves behind, is removed in
\* the end: it does not use up its IP's and the outbound limit for ever.
OrphansAreReaped == \A a \in Addrs : Orphaned(a) ~> ~Orphaned(a)

=============================================================================

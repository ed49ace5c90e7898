-------------------------- MODULE NodeSync_proofs --------------------------
(***************************************************************************)
(* Theorems about the block download: types, the IBD slot, and fork choice *)
(* over every interleaving of tasks and miners.                            *)
(***************************************************************************)
EXTENDS NodeSync, SequenceTheorems, WellFoundedInduction, TLAPS

-----------------------------------------------------------------------------
(* Types                                                                   *)

Chains == {c \in Seq(Labels) : Len(c) <= MaxHeight}
Mined == {c \in Chains : c # <<>>}
Heights == 0..MaxHeight

Requests == [type : {"GetChainHeight"}] \cup [type : {"GetBlocks"}, from : Nat \ {0}, to : Nat]

\* A batch never goes beyond the chain it is taken from.
Batches == {m \in [type : {"Blocks"}, tip : Chains, from : Nat \ {0}, to : Nat] : m.to <= Len(m.tip)}

Messages ==
    [type : {"NewBlock"}, block : Mined] \cup [type : {"ChainHeight"}, height : Heights] \cup Batches

BlockTasks == [pc : {"check", "apply", "publish", "refused", "compare"}, block : Mined]
CompeteTasks == {t \in [pc : {"compete"}, block : Mined, tip : Chains] : Lower(t.block, t.tip)}
HeightTasks == [pc : {"claim", "in_sync", "release"}, ours : Heights]
EmptyTasks == [pc : {"empty"}]

\* The task of a batch stands at a block of it, until the batch is done.
BatchTasks ==
    {t \in [pc : {"batch", "cache", "fork", "end"}, batch : Batches, next : Nat \ {0}, applied : Nat] :
        t.pc # "end" => t.next <= t.batch.to}

Tasks ==
    {Waiting} \cup BlockTasks \cup CompeteTasks \cup HeightTasks \cup EmptyTasks \cup BatchTasks

Connections ==
    [conn : {"up", "closing", "down"}, chain : Chains, inbox : Seq(Messages), asked : Seq(Requests),
     height : Heights, progress : Heights, task : Tasks]

Nodes ==
    [slot : Peers \cup {NoPeer}, permit : Peers \cup {NoPeer},
     height : Heights, maxSeen : Heights, ready : BOOLEAN]

Types ==
    /\ chain \in Chains
    /\ node \in Nodes
    /\ peer \in [Peers -> Connections]
    /\ work \in Chains
    /\ events \in Nat

\* The types give the type invariant of the run.
LEMMA TypesAreTypeOK == Types => TypeOK
  BY DEF Types, TypeOK, Chains, Nodes, Connections, Heights, Height

\* The bounds are numbers.
LEMMA Bounds ==
    /\ MaxHeight \in Nat /\ MaxEvents \in Nat /\ REORG_LIMIT \in Nat /\ IBD_CHUNK_SIZE \in Nat \ {0}
    /\ YOUNG_HEIGHT \in Nat /\ DEEP_LEAD \in Nat /\ ANCHOR_LEAD \in Nat /\ RECOVERY_LEAD \in Nat
    /\ ANCHOR_LEAD < RECOVERY_LEAD /\ Labels \subseteq Nat
  BY SyncAssumption

-----------------------------------------------------------------------------
(* Chains                                                                  *)

\* The first blocks of a chain are a chain of that height.
LEMMA AncestorType ==
    ASSUME NEW c \in Chains, NEW h \in 0..Len(c)
    PROVE  Ancestor(c, h) \in Chains /\ Len(Ancestor(c, h)) = h
  BY Bounds DEF Ancestor, Chains

\* The parent of a block is one shorter.
LEMMA ParentType ==
    ASSUME NEW b \in Mined
    PROVE  Parent(b) \in Chains /\ Len(b) \in Nat /\ Len(b) > 0 /\ Len(Parent(b)) = Len(b) - 1
  <1>1. b \in Seq(Labels) /\ Len(b) \in Nat /\ Len(b) <= MaxHeight
    BY DEF Chains, Mined
  <1>2. Len(b) # 0
    BY <1>1, EmptySeq DEF Mined
  <1>3. Parent(b) = Ancestor(b, Len(b) - 1) /\ Len(b) - 1 \in 0..Len(b)
    BY <1>1, <1>2 DEF Parent, Front, Ancestor
  <1>4. b \in Chains
    BY DEF Mined
  <1> QED  BY <1>1, <1>2, <1>3, <1>4, AncestorType

\* A block that applies makes the chain one longer.
LEMMA AppliedIsNext ==
    ASSUME NEW c \in Chains, NEW b \in Chains, Applies(b, c)
    PROVE  b \in Mined /\ Len(b) = Len(c) + 1 /\ Len(b) > Len(c)
  <1>1. b \in Mined
    BY DEF Applies, Links, Height, Mined
  <1>2. Len(b) = Len(c) + 1
    BY <1>1, ParentType DEF Applies, Links, Chains
  <1> QED  BY <1>1, <1>2 DEF Chains

\* A set of numbers has a least one.
LEMMA LeastNumber ==
    ASSUME NEW S, S \subseteq Nat, S # {}
    PROVE  \E x \in S : \A y \in S : x <= y
  <1> DEFINE R == OpToRel(<, Nat)
  <1>1. IsWellFoundedOn(R, Nat)
    BY NatLessThanWellFounded DEF OpToRel
  <1>2. \A x, y \in Nat : x < y => <<x, y>> \in R
    BY DEF OpToRel
  <1> HIDE DEF R
  <1>3. PICK x \in S : \A y \in S : ~(<<y, x>> \in R)
    BY <1>1, WFMin
  <1>4. ASSUME NEW y \in S PROVE x <= y
    <2>1. x \in Nat /\ y \in Nat /\ ~(y < x)
      BY <1>2, <1>3
    <2> QED  BY <2>1
  <1> QED  BY <1>4

\* Min is the least number of a set.
LEMMA MinFacts ==
    ASSUME NEW S, S \subseteq Nat, S # {}
    PROVE  Min(S) \in S
  <1>1. \E x \in S : \A y \in S : x <= y
    BY LeastNumber
  <1> QED  BY <1>1 DEF Min

\* Max is the greatest number of a set that has a bound.
LEMMA MaxFacts ==
    ASSUME NEW S, S \subseteq Nat, S # {}, NEW n \in Nat, \A y \in S : y <= n
    PROVE  Max(S) \in S /\ \A y \in S : y <= Max(S)
  <1> DEFINE T == {k \in 0..n : n - k \in S}
  <1>1. T \subseteq Nat
    OBVIOUS
  <1>2. T # {}
    <2>1. PICK y \in S : TRUE
      OBVIOUS
    <2>2. n - y \in 0..n /\ n - (n - y) = y
      BY <2>1
    <2> QED  BY <2>1, <2>2
  <1> HIDE DEF T
  <1>3. PICK k \in T : \A j \in T : k <= j
    BY <1>1, <1>2, LeastNumber
  <1> USE DEF T
  <1>4. n - k \in S
    BY <1>3
  <1>5. ASSUME NEW y \in S PROVE n - k >= y
    <2>1. n - y \in 0..n /\ n - (n - y) = y
      OBVIOUS
    <2>2. k <= n - y
      BY <1>3, <2>1
    <2> QED  BY <1>3, <2>1, <2>2
  <1>6. \E x \in S : \A y \in S : x >= y
    BY <1>4, <1>5
  <1>7. Max(S) \in S /\ \A y \in S : Max(S) >= y
    BY <1>6 DEF Max
  <1> QED  BY <1>7

\* A checkpoint at or below a height is not above it.
LEMMA CheckpointType ==
    ASSUME NEW h \in Int
    PROVE  CheckpointAtOrBelow(h) \in Nat /\ CheckpointAtOrBelow(h) <= Most(h, 0)
  <1> DEFINE S == {0} \cup {c \in Checkpoints : c <= h}
             m == Most(h, 0)
  <1>0. Checkpoints \subseteq Nat
    BY SyncAssumption
  <1>1. S \subseteq Nat /\ 0 \in S
    <2>1. \A y \in S : y = 0 \/ y \in Checkpoints
      OBVIOUS
    <2>2. \A y \in S : y \in Nat
      BY <1>0, <2>1
    <2>3. 0 \in S
      OBVIOUS
    <2> HIDE DEF S
    <2> QED  BY <2>2, <2>3
  <1>5. m \in Nat
    BY DEF Most
  <1>4. ASSUME NEW y \in S PROVE y <= m
    BY <1>0, y = 0 \/ y <= h DEF Most
  <1> HIDE DEF S, m
  <1>2. Max(S) \in S
    BY <1>1, <1>4, <1>5, MaxFacts
  <1>3. Max(S) \in Nat /\ Max(S) <= m
    BY <1>1, <1>2, <1>4, <1>5
  <1> QED  BY <1>3 DEF S, m, CheckpointAtOrBelow

\* A fork point is the parent of a block of the batch and on our chain.
LEMMA ForkPointType ==
    ASSUME Types, NEW batch \in Batches, FindForkPoint(batch) # NoFork
    PROVE  /\ FindForkPoint(batch) \in 0..Len(chain)
           /\ FindForkPoint(batch) + 1 \in batch.from..batch.to
  <1> DEFINE S == {i \in batch.from..batch.to :
                     i - 1 <= Height(chain) /\ Ancestor(chain, i - 1) = Ancestor(batch.tip, i - 1)}
  <1>1. batch.from \in Nat \ {0} /\ batch.to \in Nat /\ Len(chain) \in Nat
    BY DEF Batches, Types, Chains
  <1>2. S # {} /\ FindForkPoint(batch) = Min(S) - 1
    BY DEF FindForkPoint
  <1>3. S \subseteq Nat /\ \A i \in S : i \in batch.from..batch.to /\ i - 1 <= Len(chain)
    BY <1>1 DEF Height
  <1> HIDE DEF S
  <1>4. Min(S) \in S
    BY <1>2, <1>3, MinFacts
  <1>5. Min(S) \in batch.from..batch.to /\ Min(S) - 1 <= Len(chain)
    BY <1>3, <1>4
  <1>6. Min(S) - 1 \in 0..Len(chain) /\ (Min(S) - 1) + 1 \in batch.from..batch.to
    BY <1>1, <1>5
  <1> QED  BY <1>2, <1>6

\* Applying a batch on a fork point goes to its end unless one of its blocks
\* is unappliable.
LEMMA ReappliedType ==
    ASSUME NEW batch \in Batches, NEW fp \in Nat, fp + 1 \in batch.from..batch.to
    PROVE  /\ Reapplied(batch, fp) \in fp..batch.to
           /\ \/ Reapplied(batch, fp) = batch.to
              \/ \E i \in batch.from..batch.to : Ancestor(batch.tip, i) \in Unappliable
  <1> DEFINE S == {i \in fp..batch.to : \A j \in fp + 1..i : Ancestor(batch.tip, j) \notin Unappliable}
  <1>1. batch.from \in Nat \ {0} /\ batch.to \in Nat
    BY DEF Batches
  <1>2. fp \in S
    BY <1>1
  <1>3. S \subseteq Nat /\ \A y \in S : y <= batch.to
    BY <1>1
  <1>4. Reapplied(batch, fp) = Max(S)
    BY DEF Reapplied
  <1>5. \A y \in S : y \in fp..batch.to
    OBVIOUS
  <1>6. batch.to \in S \/ \E i \in batch.from..batch.to : Ancestor(batch.tip, i) \in Unappliable
    BY <1>1
  <1> HIDE DEF S
  <1>7. Max(S) \in S /\ \A y \in S : y <= Max(S)
    BY <1>1, <1>2, <1>3, MaxFacts
  <1>8. Max(S) \in fp..batch.to
    BY <1>5, <1>7
  <1>9. batch.to \in S => Max(S) = batch.to
    BY <1>1, <1>7, <1>8
  <1> QED  BY <1>4, <1>6, <1>8, <1>9

\* The node goes back to an anchor on its own chain, and for a peer far ahead.
LEMMA AnchorType ==
    ASSUME Types, NEW p \in Peers, NEW batch \in Batches, NEW a,
           a = AnchorWithout(p, batch) \/ a = AnchorOfStall(p, batch), a # NoFork
    PROVE  a \in 0..Len(chain) /\ batch.to > Len(chain) + ANCHOR_LEAD
  <1>1. batch.to \in Nat /\ Len(chain) \in Nat
    BY DEF Batches, Types, Chains
  <1>2. CheckpointAtOrBelow(Len(chain) - 1) \in 0..Len(chain)
    <2> DEFINE c == CheckpointAtOrBelow(Len(chain) - 1)
    <2>1. Len(chain) - 1 \in Int
      BY <1>1
    <2>2. c \in Nat /\ c <= Most(Len(chain) - 1, 0)
      BY <2>1, CheckpointType
    <2> HIDE DEF c
    <2>3. c \in 0..Len(chain)
      BY <1>1, <2>2 DEF Most
    <2> QED  BY <2>3 DEF c
  <1> QED  BY <1>1, <1>2, Bounds DEF AnchorWithout, AnchorOfStall, Height

-----------------------------------------------------------------------------
(* Parts of a connection                                                   *)

\* A task goes on with the rest of its connection as it is.
LEMMA TaskSet ==
    ASSUME NEW r \in Connections, NEW t \in Tasks
    PROVE  /\ [r EXCEPT !.task = t] \in Connections
           /\ [r EXCEPT !.task = t].conn = r.conn
           /\ [r EXCEPT !.task = t].task = t
  BY DEF Connections

\* A height is announced.
LEMMA HeightSet ==
    ASSUME NEW r \in Connections, NEW h \in Heights
    PROVE  /\ [r EXCEPT !.height = h] \in Connections
           /\ [r EXCEPT !.height = h].conn = r.conn
           /\ [r EXCEPT !.height = h].task = r.task
  BY DEF Connections

\* Progress is noted.
LEMMA ProgressSet ==
    ASSUME NEW r \in Connections, NEW h \in Heights
    PROVE  /\ [r EXCEPT !.progress = h] \in Connections
           /\ [r EXCEPT !.progress = h].conn = r.conn
           /\ [r EXCEPT !.progress = h].task = r.task
  BY DEF Connections

\* A request is sent.
LEMMA SentType ==
    ASSUME NEW r \in Connections, NEW m \in Requests
    PROVE  Sent(r, m) \in Connections /\ Sent(r, m).conn = r.conn /\ Sent(r, m).task = r.task
  <1>1. r.asked \in Seq(Requests) /\ Append(r.asked, m) \in Seq(Requests)
    BY DEF Connections
  <1> QED  BY <1>1 DEF Connections, Sent

\* A connection ends.
LEMMA ConnSet ==
    ASSUME NEW r \in Connections, NEW c \in {"up", "closing", "down"}
    PROVE  /\ [r EXCEPT !.conn = c] \in Connections
           /\ [r EXCEPT !.conn = c].conn = c
           /\ [r EXCEPT !.conn = c].task = r.task
  BY DEF Connections

\* A message is taken from the inbox.
LEMMA TakenType ==
    ASSUME Types, NEW p \in Peers, NEW type, Receives(p, type), NEW t \in Tasks
    PROVE  /\ Taken(p, t) \in Connections
           /\ Taken(p, t).conn = "up"
           /\ Taken(p, t).task = t
           /\ Head(peer[p].inbox) \in Messages
           /\ Head(peer[p].inbox).type = type
           /\ peer[p].task = Waiting
  <1>1. peer[p] \in Connections /\ peer[p].inbox \in Seq(Messages) /\ peer[p].inbox # <<>>
    BY DEF Types, Connections, Receives
  <1>2. Head(peer[p].inbox) \in Messages /\ Tail(peer[p].inbox) \in Seq(Messages)
    BY <1>1
  <1> QED  BY <1>1, <1>2 DEF Receives, Taken, Connections, Up

\* The request for the next chunk.
LEMMA ChunkType ==
    ASSUME NEW h \in Heights, NEW target \in Heights
    PROVE  Chunk(h, target) \in Requests
  BY Bounds DEF Heights, Chunk, GetBlocks, Requests, Least

\* What the remote end answers is a message.
LEMMA ReplyType ==
    ASSUME NEW m \in Requests, NEW c \in Chains
    PROVE  Reply(m, c) \in Messages
  <1>1. Len(c) \in Heights
    BY Bounds DEF Chains, Heights
  <1>2. CASE m.type = "GetChainHeight"
    BY <1>1, <1>2 DEF Reply, Height, Messages
  <1>3. CASE m \in [type : {"GetBlocks"}, from : Nat \ {0}, to : Nat]
    <2>1. Least(m.to, Len(c)) \in Nat /\ Least(m.to, Len(c)) <= Len(c) /\ m.from \in Nat \ {0}
      BY <1>1, <1>3, Bounds DEF Least, Heights
    <2>2. BlocksRange(c, m.from, m.to) \in Batches
      BY <2>1 DEF BlocksRange, Batches, Height
    <2> QED  BY <1>3, <2>2 DEF Reply, Messages
  <1> QED  BY <1>2, <1>3 DEF Requests

-----------------------------------------------------------------------------
(* What a step of one task does to the others                              *)

\* A connection that is not up has no handler running.
DownIsIdle == \A p \in Peers : peer[p].conn = "up" \/ peer[p].task = Waiting

Base == Types /\ DownIsIdle /\ SlotHolderIsConnected

\* The task of p works on a block under the permit of block_semaphore.
Holding(t) == t.pc \in {"check", "apply", "publish", "refused", "compare", "compete"}

\* The step of p leaves the other connections and tasks alone.
Alone(p) ==
    \A q \in Peers \ {p} : peer'[q].task = peer[q].task /\ peer'[q].conn = peer[q].conn

\* The slot is kept, released or taken by a connection that is up.
SlotMoves(p) ==
    /\ peer'[p].conn = "up" \/ peer'[p].task = Waiting
    /\ node'.slot \in {node.slot, NoPeer, p}
    /\ node'.slot = p => peer'[p].conn # "down"

\* The permit is taken when it is free and given back by the task that has it.
PermitMoves(p) ==
    \/ node'.permit = node.permit /\ (Holding(peer'[p].task) => Holding(peer[p].task))
    \/ node.permit = NoPeer /\ node'.permit = p
    \/ Holding(peer[p].task) /\ node'.permit = NoPeer /\ ~Holding(peer'[p].task)

Tidy(p) == Types' /\ Alone(p) /\ SlotMoves(p) /\ PermitMoves(p)

\* A handler waits, or it is at one of its points.
LEMMA TaskFacts ==
    ASSUME Types, NEW p \in Peers
    PROVE  /\ peer[p] \in Connections /\ peer[p].task \in Tasks
           /\ Waiting \in Tasks /\ ~Holding(Waiting)
           /\ Holding(peer[p].task) => peer[p].task.block \in Mined
           /\ peer[p].task.pc \in {"batch", "cache", "fork", "end"} => peer[p].task \in BatchTasks
           /\ peer[p].task.pc \in {"claim", "in_sync", "release"} => peer[p].task \in HeightTasks
           /\ peer[p].task.pc = "compete" => peer[p].task \in CompeteTasks
  <1>1. peer[p] \in Connections /\ peer[p].task \in Tasks
    BY DEF Types, Connections
  <1> QED
    BY <1>1 DEF Tasks, Waiting, Holding, BlockTasks, CompeteTasks, HeightTasks, EmptyTasks, BatchTasks

\* One connection changes.
LEMMA PeerSet ==
    ASSUME Types, NEW p \in Peers, NEW r \in Connections, peer' = [peer EXCEPT ![p] = r]
    PROVE  peer' \in [Peers -> Connections] /\ peer'[p] = r /\ Alone(p)
  BY DEF Types, Alone

\* A handler goes on.
LEMMA GotoType ==
    ASSUME Base, NEW p \in Peers, NEW t \in Tasks, Goto(p, t), peer[p].task # Waiting
    PROVE  /\ peer' \in [Peers -> Connections] /\ Alone(p)
           /\ peer'[p].conn = "up" /\ peer'[p].task = t
  <1>1. peer' = [peer EXCEPT ![p] = [peer[p] EXCEPT !.task = t]]
    BY DEF Goto
  <1>2. peer[p] \in Connections /\ peer[p].conn = "up"
    BY TaskFacts DEF Base, DownIsIdle
  <1>3. [peer[p] EXCEPT !.task = t] \in Connections
    BY <1>2, TaskSet
  <1> QED  BY <1>1, <1>2, <1>3, PeerSet, TaskSet DEF Base

\* What SlotMoves asks when slot and connection stay.
LEMMA SlotStays ==
    ASSUME Base, NEW p \in Peers, node'.slot \in {node.slot, NoPeer}, peer'[p].conn = "up"
    PROVE  SlotMoves(p)
  BY DEF SlotMoves

-----------------------------------------------------------------------------
(* The handlers, one by one                                                *)

\* The fields of the node that are set have their types.
LEMMA NodeFields ==
    ASSUME node \in Nodes
    PROVE  /\ node.slot \in Peers \cup {NoPeer} /\ node.permit \in Peers \cup {NoPeer}
           /\ node.height \in Heights /\ node.maxSeen \in Heights
           /\ \A h \in Heights : Most(node.maxSeen, h) \in Heights
  BY Bounds DEF Nodes, Heights, Most

\* The height of a chain is a height.
LEMMA ChainHeights ==
    ASSUME NEW c \in Chains
    PROVE  Height(c) \in Heights /\ Len(c) \in Nat
  BY Bounds DEF Chains, Height, Heights

\* OnNewBlock waits again or goes on with the permit.
LEMMA OnNewBlockTidy ==
    ASSUME Base, NEW p \in Peers, OnNewBlock(p)
    PROVE  Tidy(p)
  <1> DEFINE b == Head(peer[p].inbox).block
  <1>1. Receives(p, "NewBlock") /\ chain' = chain /\ work' = work /\ events' = events
    BY DEF OnNewBlock, Skip
  <1>2. Waiting \in Tasks
    BY TaskFacts DEF Base
  <1>3. /\ Head(peer[p].inbox) \in Messages /\ Head(peer[p].inbox).type = "NewBlock"
        /\ peer[p].task = Waiting /\ Taken(p, Waiting) \in Connections
        /\ Taken(p, Waiting).conn = "up" /\ Taken(p, Waiting).task = Waiting
    BY <1>1, <1>2, TakenType DEF Base
  <1>4. b \in Mined /\ Height(b) \in Heights
    <2>1. b \in Mined
      BY <1>3 DEF Messages, Batches
    <2> QED  BY <2>1, ChainHeights DEF Mined
  <1>5. node \in Nodes
    BY DEF Base, Types
  <1>6. CASE Skip(p)
    <2>1. peer' \in [Peers -> Connections] /\ peer'[p] = Taken(p, Waiting) /\ Alone(p)
      BY <1>3, <1>6, PeerSet DEF Base, Skip
    <2>2. node' = node
      BY <1>6 DEF Skip
    <2> QED
      BY <1>1, <1>3, <2>1, <2>2, SlotStays DEF Tidy, PermitMoves, Base, Types, Waiting, Holding
  <1> DEFINE r == [Taken(p, Waiting) EXCEPT !.height = Height(b)]
             m == Chunk(node.height, Height(b))
             t == [pc |-> "check", block |-> b]
  <1>7. CASE /\ peer' = [peer EXCEPT ![p] = Sent(r, m)]
             /\ node' = [node EXCEPT !.maxSeen = Most(@, Height(b)), !.ready = FALSE]
    <2>1. r \in Connections /\ r.conn = "up" /\ r.task = Waiting
      BY <1>3, <1>4, HeightSet
    <2>2. m \in Requests
      BY <1>4, <1>5, NodeFields, ChunkType
    <2> HIDE DEF r, m
    <2>3. peer' \in [Peers -> Connections] /\ peer'[p].conn = "up" /\ peer'[p].task = Waiting /\ Alone(p)
      BY <1>7, <2>1, <2>2, SentType, PeerSet DEF Base
    <2>4. node' \in Nodes /\ node'.slot = node.slot /\ node'.permit = node.permit
      BY <1>4, <1>5, <1>7, NodeFields DEF Nodes
    <2> QED
      BY <1>1, <2>3, <2>4, SlotStays DEF Tidy, PermitMoves, Base, Types, Waiting, Holding
  <1>8. CASE /\ node.permit = NoPeer /\ node' = [node EXCEPT !.permit = p]
             /\ peer' = [peer EXCEPT ![p] = Taken(p, t)]
    <2>1. t \in Tasks
      BY <1>4 DEF Tasks, BlockTasks
    <2> HIDE DEF t
    <2>2. Taken(p, t) \in Connections /\ Taken(p, t).conn = "up"
      BY <1>1, <2>1, TakenType DEF Base
    <2>3. peer' \in [Peers -> Connections] /\ peer'[p].conn = "up" /\ Alone(p)
      BY <1>8, <2>2, PeerSet DEF Base
    <2>4. node' \in Nodes /\ node'.slot = node.slot /\ node'.permit = p
      BY <1>5, <1>8 DEF Nodes
    <2> QED
      BY <1>1, <1>8, <2>3, <2>4, SlotStays DEF Tidy, PermitMoves, Base, Types
  <1> QED
    BY <1>6, <1>7, <1>8 DEF OnNewBlock

\* A handler with a block knows where it is and what it has.
LEMMA HoldingFacts ==
    ASSUME Base, NEW p \in Peers, Holding(peer[p].task)
    PROVE  /\ peer[p].task # Waiting /\ peer[p].task.block \in Mined /\ peer[p].task.block \in Chains
           /\ Height(peer[p].task.block) \in Heights
           /\ chain \in Chains /\ work \in Chains /\ events \in Nat /\ node \in Nodes
           /\ Height(chain) \in Heights
  <1>1. peer[p].task # Waiting /\ peer[p].task.block \in Mined
    BY TaskFacts DEF Base, Holding, Waiting
  <1> QED  BY <1>1, ChainHeights DEF Base, Types, Mined

\* A step that keeps the connection up and the slot or releases it.
LEMMA TidyStep ==
    ASSUME Base, NEW p \in Peers, PermitMoves(p), Alone(p),
           chain' \in Chains, work' \in Chains, events' \in Nat, node' \in Nodes,
           peer' \in [Peers -> Connections], peer'[p].conn = "up",
           node'.slot \in {node.slot, NoPeer}
    PROVE  Tidy(p)
  BY SlotStays DEF Tidy, Types

\* CheckNewBlock reads the height.
LEMMA CheckNewBlockTidy ==
    ASSUME Base, NEW p \in Peers, CheckNewBlock(p)
    PROVE  Tidy(p)
  <1> DEFINE b == peer[p].task.block
             t == [pc |-> IF Height(b) <= Height(chain) THEN "refused" ELSE "apply", block |-> b]
  <1>1. Goto(p, t) /\ chain' = chain /\ node' = node /\ work' = work /\ events' = events
    BY DEF CheckNewBlock
  <1>2. Holding(peer[p].task)
    BY DEF CheckNewBlock, Holding
  <1>3. t \in Tasks
    BY <1>2, HoldingFacts DEF Tasks, BlockTasks
  <1> HIDE DEF t
  <1>4. peer' \in [Peers -> Connections] /\ peer'[p].conn = "up" /\ Alone(p)
    BY <1>1, <1>2, <1>3, GotoType, HoldingFacts
  <1>5. PermitMoves(p)
    BY <1>1, <1>2 DEF PermitMoves
  <1> QED  BY <1>1, <1>2, <1>4, <1>5, HoldingFacts, TidyStep

\* ApplyNewBlock makes the block the tip if it applies.
LEMMA ApplyNewBlockTidy ==
    ASSUME Base, NEW p \in Peers, ApplyNewBlock(p)
    PROVE  Tidy(p)
  <1> DEFINE b == peer[p].task.block
             t == [pc |-> IF Applies(b, chain) THEN "publish" ELSE "refused", block |-> b]
  <1>1. Goto(p, t) /\ chain' \in {b, chain} /\ node' = node /\ work' = work /\ events' = events
    BY DEF ApplyNewBlock
  <1>2. Holding(peer[p].task)
    BY DEF ApplyNewBlock, Holding
  <1>3. t \in Tasks
    BY <1>2, HoldingFacts DEF Tasks, BlockTasks
  <1> HIDE DEF t
  <1>4. peer' \in [Peers -> Connections] /\ peer'[p].conn = "up" /\ Alone(p)
    BY <1>1, <1>2, <1>3, GotoType, HoldingFacts
  <1>5. PermitMoves(p)
    BY <1>1, <1>2 DEF PermitMoves
  <1> QED  BY <1>1, <1>2, <1>4, <1>5, HoldingFacts, TidyStep

\* PublishNewBlock gives the permit back.
LEMMA PublishNewBlockTidy ==
    ASSUME Base, NEW p \in Peers, PublishNewBlock(p)
    PROVE  Tidy(p)
  <1>1. /\ Goto(p, Waiting) /\ chain' = chain /\ work' = work /\ events' = events
        /\ node' = [node EXCEPT !.height = Height(peer[p].task.block), !.permit = NoPeer]
    BY DEF PublishNewBlock
  <1>2. Holding(peer[p].task)
    BY DEF PublishNewBlock, Holding
  <1>3. Waiting \in Tasks /\ ~Holding(Waiting)
    BY TaskFacts DEF Base
  <1>4. /\ peer' \in [Peers -> Connections] /\ peer'[p].conn = "up" /\ Alone(p)
        /\ peer'[p].task = Waiting
    BY <1>1, <1>2, <1>3, GotoType, HoldingFacts
  <1>5. node' \in Nodes /\ node'.slot = node.slot /\ node'.permit = NoPeer
    BY <1>1, <1>2, HoldingFacts DEF Nodes
  <1>6. PermitMoves(p)
    BY <1>2, <1>3, <1>4, <1>5 DEF PermitMoves
  <1> QED  BY <1>1, <1>2, <1>4, <1>5, <1>6, HoldingFacts, TidyStep

\* A request that reaches back for a fork.
LEMMA ForkRequestType ==
    ASSUME NEW h \in Heights, NEW to \in Heights
    PROVE  GetBlocks(ForkStart(h), to) \in Requests
  BY Bounds DEF GetBlocks, ForkStart, Requests, Heights

\* RefusedNewBlock asks for more, compares, or gives up the block.
LEMMA RefusedNewBlockTidy ==
    ASSUME Base, NEW p \in Peers, RefusedNewBlock(p)
    PROVE  Tidy(p)
  <1> DEFINE b == peer[p].task.block
             ours == Height(chain)
             free == [node EXCEPT !.permit = NoPeer]
             t == [pc |-> "compare", block |-> b]
             rest == [peer[p] EXCEPT !.task = Waiting]
             told == [peer[p] EXCEPT !.height = Height(b), !.task = Waiting]
  <1>1. chain' = chain /\ work' = work /\ events' = events
    BY DEF RefusedNewBlock
  <1>2. Holding(peer[p].task)
    BY DEF RefusedNewBlock, Holding
  <1>3. Waiting \in Tasks /\ ~Holding(Waiting) /\ peer[p] \in Connections /\ peer[p].conn = "up"
    BY <1>2, TaskFacts, HoldingFacts DEF Base, DownIsIdle
  <1>4. free \in Nodes /\ free.slot = node.slot /\ free.permit = NoPeer
    BY <1>2, HoldingFacts DEF Nodes
  <1>5. rest \in Connections /\ rest.conn = "up" /\ rest.task = Waiting
    BY <1>3, TaskSet
  <1>6. told \in Connections /\ told.conn = "up" /\ told.task = Waiting
    BY <1>2, <1>3, HoldingFacts DEF Connections
  <1>7. CASE /\ peer' = [peer EXCEPT ![p] = Sent(told, Chunk(ours, Height(b)))]
             /\ node' = [free EXCEPT !.maxSeen = Most(@, Height(b)), !.ready = FALSE]
    <2>1. Chunk(ours, Height(b)) \in Requests
      BY <1>2, HoldingFacts, ChunkType
    <2>2. node' \in Nodes /\ node'.slot = node.slot /\ node'.permit = NoPeer
      BY <1>2, <1>4, <1>7, HoldingFacts, NodeFields DEF Nodes
    <2> HIDE DEF told, free, ours, b
    <2>3. /\ peer' \in [Peers -> Connections] /\ peer'[p].conn = "up" /\ peer'[p].task = Waiting
          /\ Alone(p)
      BY <1>6, <1>7, <2>1, SentType, PeerSet DEF Base
    <2>4. PermitMoves(p)
      BY <1>2, <1>3, <2>2, <2>3 DEF PermitMoves
    <2> QED  BY <1>1, <1>2, <2>2, <2>3, <2>4, HoldingFacts, TidyStep
  <1>8. CASE /\ peer' = [peer EXCEPT ![p] = Sent(rest, GetBlocks(ForkStart(ours), Height(b)))]
             /\ node' = free
    <2>1. GetBlocks(ForkStart(ours), Height(b)) \in Requests
      BY <1>2, HoldingFacts, ForkRequestType
    <2> HIDE DEF rest, free, ours, b
    <2>3. /\ peer' \in [Peers -> Connections] /\ peer'[p].conn = "up" /\ peer'[p].task = Waiting
          /\ Alone(p)
      BY <1>5, <1>8, <2>1, SentType, PeerSet DEF Base
    <2>4. PermitMoves(p)
      BY <1>2, <1>3, <1>4, <1>8, <2>3 DEF PermitMoves
    <2> QED  BY <1>1, <1>2, <1>4, <1>8, <2>3, <2>4, HoldingFacts, TidyStep
  <1>9. CASE Goto(p, t) /\ node' = node
    <2>1. t \in Tasks
      BY <1>2, HoldingFacts DEF Tasks, BlockTasks
    <2> HIDE DEF t
    <2>2. peer' \in [Peers -> Connections] /\ peer'[p].conn = "up" /\ Alone(p)
      BY <1>2, <1>9, <2>1, GotoType, HoldingFacts
    <2>3. PermitMoves(p)
      BY <1>2, <1>9 DEF PermitMoves
    <2> QED  BY <1>1, <1>2, <1>9, <2>2, <2>3, HoldingFacts, TidyStep
  <1>10. CASE Goto(p, Waiting) /\ node' = free
    <2> HIDE DEF free
    <2>1. /\ peer' \in [Peers -> Connections] /\ peer'[p].conn = "up" /\ peer'[p].task = Waiting
          /\ Alone(p)
      BY <1>2, <1>3, <1>10, GotoType, HoldingFacts
    <2>2. PermitMoves(p)
      BY <1>2, <1>3, <1>4, <1>10, <2>1 DEF PermitMoves
    <2> QED  BY <1>1, <1>2, <1>4, <1>10, <2>1, <2>2, HoldingFacts, TidyStep
  <1> QED
    BY <1>7, <1>8, <1>9, <1>10 DEF RefusedNewBlock

\* CompareTips goes on with the tip that the block is lower than.
LEMMA CompareTipsTidy ==
    ASSUME Base, NEW p \in Peers, CompareTips(p)
    PROVE  Tidy(p)
  <1> DEFINE b == peer[p].task.block
             free == [node EXCEPT !.permit = NoPeer]
             t == [pc |-> "compete", block |-> b, tip |-> chain]
  <1>1. chain' = chain /\ work' = work /\ events' = events
    BY DEF CompareTips
  <1>2. Holding(peer[p].task)
    BY DEF CompareTips, Holding
  <1>3. Waiting \in Tasks /\ ~Holding(Waiting)
    BY TaskFacts DEF Base
  <1>4. free \in Nodes /\ free.slot = node.slot /\ free.permit = NoPeer
    BY <1>2, HoldingFacts DEF Nodes
  <1>5. CASE Lower(b, chain) /\ Goto(p, t) /\ node' = node
    <2>1. t \in Tasks
      BY <1>2, <1>5, HoldingFacts DEF Tasks, CompeteTasks
    <2> HIDE DEF t
    <2>2. peer' \in [Peers -> Connections] /\ peer'[p].conn = "up" /\ Alone(p)
      BY <1>2, <1>5, <2>1, GotoType, HoldingFacts
    <2>3. PermitMoves(p)
      BY <1>2, <1>5 DEF PermitMoves
    <2> QED  BY <1>1, <1>2, <1>5, <2>2, <2>3, HoldingFacts, TidyStep
  <1>6. CASE Goto(p, Waiting) /\ node' = free
    <2> HIDE DEF free
    <2>1. /\ peer' \in [Peers -> Connections] /\ peer'[p].conn = "up" /\ peer'[p].task = Waiting
          /\ Alone(p)
      BY <1>2, <1>3, <1>6, GotoType, HoldingFacts
    <2>2. PermitMoves(p)
      BY <1>2, <1>3, <1>4, <1>6, <2>1 DEF PermitMoves
    <2> QED  BY <1>1, <1>2, <1>4, <1>6, <2>1, <2>2, HoldingFacts, TidyStep
  <1> QED
    BY <1>5, <1>6 DEF CompareTips

\* CompeteForTip gives the permit back, with the block as the tip, with the tip
\* there was, or without it.
LEMMA CompeteForTipTidy ==
    ASSUME Base, NEW p \in Peers, CompeteForTip(p)
    PROVE  Tidy(p)
  <1>1. Holding(peer[p].task)
    BY DEF CompeteForTip, Holding
  <1>2. /\ Goto(p, Waiting) /\ work' = work /\ events' = events
        /\ \/ chain' \in {peer[p].task.block, chain}
           \/ chain # <<>> /\ chain' = Parent(chain)
        /\ \E h \in {Height(peer[p].task.block), node.height} :
             node' = [node EXCEPT !.permit = NoPeer, !.height = h]
    BY DEF CompeteForTip, AfterRevert
  <1>7. chain' \in Chains
    BY <1>1, <1>2, HoldingFacts, ParentType DEF Mined
  <1>3. Waiting \in Tasks /\ ~Holding(Waiting)
    BY TaskFacts DEF Base
  <1>4. /\ peer' \in [Peers -> Connections] /\ peer'[p].conn = "up" /\ Alone(p)
        /\ peer'[p].task = Waiting
    BY <1>1, <1>2, <1>3, GotoType, HoldingFacts
  <1>5. node' \in Nodes /\ node'.slot = node.slot /\ node'.permit = NoPeer
    BY <1>1, <1>2, HoldingFacts, NodeFields DEF Nodes
  <1>6. PermitMoves(p)
    BY <1>1, <1>3, <1>4, <1>5 DEF PermitMoves
  <1> QED  BY <1>1, <1>2, <1>4, <1>5, <1>6, <1>7, HoldingFacts, TidyStep

\* What the other handlers have.
LEMMA BaseFacts ==
    ASSUME Base
    PROVE  /\ chain \in Chains /\ work \in Chains /\ events \in Nat /\ node \in Nodes
           /\ Height(chain) \in Heights /\ peer \in [Peers -> Connections]
  BY ChainHeights DEF Base, Types

\* OnChainHeight reads the height of the chain.
LEMMA OnChainHeightTidy ==
    ASSUME Base, NEW p \in Peers, OnChainHeight(p)
    PROVE  Tidy(p)
  <1> DEFINE h == Head(peer[p].inbox).height
             t == [pc |-> IF h > Height(chain) THEN "claim" ELSE "in_sync", ours |-> Height(chain)]
             r == [Taken(p, t) EXCEPT !.height = h]
  <1>1. /\ Receives(p, "ChainHeight") /\ chain' = chain /\ work' = work /\ events' = events
        /\ peer' = [peer EXCEPT ![p] = r] /\ node' = [node EXCEPT !.maxSeen = Most(@, h)]
    BY DEF OnChainHeight
  <1>2. t \in Tasks /\ ~Holding(t)
    BY BaseFacts DEF Tasks, HeightTasks, Holding
  <1> HIDE DEF t
  <1>3. /\ Head(peer[p].inbox) \in Messages /\ Head(peer[p].inbox).type = "ChainHeight"
        /\ Taken(p, t) \in Connections /\ Taken(p, t).conn = "up" /\ Taken(p, t).task = t
    BY <1>1, <1>2, TakenType DEF Base
  <1>4. h \in Heights
    BY <1>3 DEF Messages, Batches
  <1>5. r \in Connections /\ r.conn = "up" /\ r.task = t
    BY <1>3, <1>4, HeightSet
  <1>6. node' \in Nodes /\ node'.slot = node.slot /\ node'.permit = node.permit
    BY <1>1, <1>4, BaseFacts, NodeFields DEF Nodes
  <1> HIDE DEF r
  <1>7. peer' \in [Peers -> Connections] /\ peer'[p] = r /\ Alone(p)
    BY <1>1, <1>5, PeerSet DEF Base
  <1>8. PermitMoves(p)
    BY <1>2, <1>5, <1>6, <1>7 DEF PermitMoves
  <1> QED  BY <1>1, <1>5, <1>6, <1>7, <1>8, BaseFacts, TidyStep

\* ClaimSlot takes the slot for a connection that is up.
LEMMA ClaimSlotTidy ==
    ASSUME Base, NEW p \in Peers, ClaimSlot(p)
    PROVE  Tidy(p)
  <1> DEFINE rest == [peer[p] EXCEPT !.task = Waiting]
             m == Chunk(peer[p].task.ours, peer[p].height)
  <1>1. chain' = chain /\ work' = work /\ events' = events /\ peer[p].task.pc = "claim"
    BY DEF ClaimSlot
  <1>2. /\ Waiting \in Tasks /\ ~Holding(Waiting) /\ peer[p] \in Connections
        /\ peer[p].task # Waiting /\ peer[p].task.ours \in Heights
    BY <1>1, TaskFacts DEF Base, Waiting, HeightTasks
  <1>3. peer[p].conn = "up" /\ peer[p].height \in Heights
    BY <1>2 DEF Base, DownIsIdle, Connections
  <1>4. CASE Goto(p, Waiting) /\ node' = node
    <2>1. /\ peer' \in [Peers -> Connections] /\ peer'[p].conn = "up" /\ peer'[p].task = Waiting
          /\ Alone(p)
      BY <1>2, <1>4, GotoType
    <2>2. PermitMoves(p)
      BY <1>2, <1>4, <2>1 DEF PermitMoves
    <2> QED  BY <1>1, <1>4, <2>1, <2>2, BaseFacts, TidyStep
  <1>5. CASE /\ node' = [node EXCEPT !.slot = p, !.ready = FALSE]
             /\ peer' = [peer EXCEPT ![p] = Sent(rest, m)]
    <2>1. rest \in Connections /\ rest.conn = "up" /\ rest.task = Waiting /\ m \in Requests
      BY <1>2, <1>3, TaskSet, ChunkType
    <2> HIDE DEF rest, m
    <2>2. /\ peer' \in [Peers -> Connections] /\ peer'[p].conn = "up" /\ peer'[p].task = Waiting
          /\ Alone(p)
      BY <1>5, <2>1, SentType, PeerSet DEF Base
    <2>3. node' \in Nodes /\ node'.slot = p /\ node'.permit = node.permit
      BY <1>5, BaseFacts DEF Nodes
    <2>4. PermitMoves(p) /\ SlotMoves(p)
      BY <1>2, <2>2, <2>3 DEF PermitMoves, SlotMoves
    <2> QED  BY <1>1, <2>2, <2>3, <2>4, BaseFacts DEF Tidy, Types
  <1> QED
    BY <1>4, <1>5 DEF ClaimSlot

\* InSync says whether the node is ready.
LEMMA InSyncTidy ==
    ASSUME Base, NEW p \in Peers, InSync(p)
    PROVE  Tidy(p)
  <1>1. /\ chain' = chain /\ work' = work /\ events' = events /\ peer[p].task.pc = "in_sync"
        /\ Goto(p, Waiting)
        /\ \E x \in BOOLEAN : node' = [node EXCEPT !.ready = x]
    BY DEF InSync
  <1>2. Waiting \in Tasks /\ ~Holding(Waiting) /\ peer[p].task # Waiting
    BY <1>1, TaskFacts DEF Base, Waiting
  <1>3. /\ peer' \in [Peers -> Connections] /\ peer'[p].conn = "up" /\ peer'[p].task = Waiting
        /\ Alone(p)
    BY <1>1, <1>2, GotoType
  <1>4. node' \in Nodes /\ node'.slot = node.slot /\ node'.permit = node.permit
    BY <1>1, BaseFacts DEF Nodes
  <1>5. PermitMoves(p)
    BY <1>2, <1>3, <1>4 DEF PermitMoves
  <1> QED  BY <1>1, <1>3, <1>4, <1>5, BaseFacts, TidyStep

\* The slot is released with the node as it is.
LEMMA ReleasedType ==
    ASSUME Base, NEW h
    PROVE  Released(h) \in Nodes /\ Released(h).slot = NoPeer /\ Released(h).permit = node.permit
  <1>1. \E x \in BOOLEAN : Released(h) = [node EXCEPT !.slot = NoPeer, !.ready = x]
    BY DEF Released
  <1> QED  BY <1>1, BaseFacts DEF Nodes

\* EmptyBatch reads the height.
LEMMA EmptyBatchTidy ==
    ASSUME Base, NEW p \in Peers, EmptyBatch(p)
    PROVE  Tidy(p)
  <1> DEFINE t == [pc |-> "release", ours |-> Height(chain)]
  <1>1. /\ chain' = chain /\ node' = node /\ work' = work /\ events' = events
        /\ peer[p].task.pc = "empty" /\ Goto(p, t)
    BY DEF EmptyBatch
  <1>2. t \in Tasks /\ ~Holding(t)
    BY BaseFacts DEF Tasks, HeightTasks, Holding
  <1>3. peer[p].task # Waiting
    BY <1>1 DEF Waiting
  <1> HIDE DEF t
  <1>4. peer' \in [Peers -> Connections] /\ peer'[p].conn = "up" /\ peer'[p].task = t /\ Alone(p)
    BY <1>1, <1>2, <1>3, GotoType
  <1>5. PermitMoves(p)
    BY <1>1, <1>2, <1>4 DEF PermitMoves
  <1> QED  BY <1>1, <1>4, <1>5, BaseFacts, TidyStep

\* ReleaseSlot clears the slot, whoever has it.
LEMMA ReleaseSlotTidy ==
    ASSUME Base, NEW p \in Peers, ReleaseSlot(p)
    PROVE  Tidy(p)
  <1>1. /\ chain' = chain /\ work' = work /\ events' = events /\ peer[p].task.pc = "release"
        /\ Goto(p, Waiting) /\ node' = Released(peer[p].task.ours)
    BY DEF ReleaseSlot
  <1>2. Waiting \in Tasks /\ ~Holding(Waiting) /\ peer[p].task # Waiting
    BY <1>1, TaskFacts DEF Base, Waiting
  <1>3. /\ peer' \in [Peers -> Connections] /\ peer'[p].conn = "up" /\ peer'[p].task = Waiting
        /\ Alone(p)
    BY <1>1, <1>2, GotoType
  <1>4. node' \in Nodes /\ node'.slot = NoPeer /\ node'.permit = node.permit
    BY <1>1, ReleasedType
  <1>5. PermitMoves(p)
    BY <1>2, <1>3, <1>4 DEF PermitMoves
  <1> QED  BY <1>1, <1>3, <1>4, <1>5, BaseFacts, TidyStep

\* OnBlocks skips the batch, finds it empty or starts to apply it.
LEMMA OnBlocksTidy ==
    ASSUME Base, NEW p \in Peers, OnBlocks(p)
    PROVE  Tidy(p)
  <1> DEFINE batch == Head(peer[p].inbox)
             t == [pc |-> "batch", batch |-> batch, next |-> batch.from, applied |-> 0]
  <1>1. Receives(p, "Blocks") /\ chain' = chain /\ work' = work /\ events' = events
    BY DEF OnBlocks, Skip
  <1>2. Waiting \in Tasks /\ ~Holding(Waiting)
    BY TaskFacts DEF Base
  <1>3. /\ Head(peer[p].inbox) \in Messages /\ Head(peer[p].inbox).type = "Blocks"
        /\ peer[p].task = Waiting /\ Taken(p, Waiting) \in Connections
        /\ Taken(p, Waiting).conn = "up" /\ Taken(p, Waiting).task = Waiting
    BY <1>1, <1>2, TakenType DEF Base
  <1>4. batch \in Batches /\ batch.from \in Nat \ {0} /\ batch.to \in Heights
    <2>1. batch \in Batches
      BY <1>3 DEF Messages
    <2> QED  BY <2>1, Bounds DEF Batches, Chains, Heights
  <1>5. ASSUME NEW u \in {Waiting, [pc |-> "empty"]}, peer' = [peer EXCEPT ![p] = Taken(p, u)],
               node' = node
        PROVE  Tidy(p)
    <2>1. u \in Tasks /\ ~Holding(u)
      BY <1>2 DEF Tasks, EmptyTasks, Holding
    <2>2. Taken(p, u) \in Connections /\ Taken(p, u).conn = "up" /\ Taken(p, u).task = u
      BY <1>1, <2>1, TakenType DEF Base
    <2>3. peer' \in [Peers -> Connections] /\ peer'[p] = Taken(p, u) /\ Alone(p)
      BY <1>5, <2>2, PeerSet DEF Base
    <2>4. PermitMoves(p)
      BY <1>5, <2>1, <2>2, <2>3 DEF PermitMoves
    <2> QED  BY <1>1, <1>5, <2>2, <2>3, <2>4, BaseFacts, TidyStep
  <1>6. CASE /\ batch.from <= batch.to
             /\ node' = [node EXCEPT !.maxSeen = Most(@, batch.to)]
             /\ peer' = [peer EXCEPT ![p] = Taken(p, t)]
    <2>1. t \in Tasks /\ ~Holding(t)
      BY <1>4, <1>6 DEF Tasks, BatchTasks, Holding
    <2> HIDE DEF t
    <2>2. Taken(p, t) \in Connections /\ Taken(p, t).conn = "up" /\ Taken(p, t).task = t
      BY <1>1, <2>1, TakenType DEF Base
    <2>3. peer' \in [Peers -> Connections] /\ peer'[p] = Taken(p, t) /\ Alone(p)
      BY <1>6, <2>2, PeerSet DEF Base
    <2>4. node' \in Nodes /\ node'.slot = node.slot /\ node'.permit = node.permit
      BY <1>4, <1>6, BaseFacts, NodeFields DEF Nodes
    <2>5. PermitMoves(p)
      BY <2>1, <2>2, <2>3, <2>4 DEF PermitMoves
    <2> QED  BY <1>1, <2>2, <2>3, <2>4, <2>5, BaseFacts, TidyStep
  <1>7. ~(batch.from > batch.to) => batch.from <= batch.to
    BY <1>4 DEF Heights
  <1> QED
    BY <1>5, <1>6, <1>7 DEF OnBlocks, Skip

\* The fields of a task at a batch.
LEMMA BatchFacts ==
    ASSUME Base, NEW p \in Peers, peer[p].task.pc \in {"batch", "cache", "fork", "end"}
    PROVE  /\ peer[p].task \in BatchTasks /\ peer[p].task # Waiting /\ ~Holding(peer[p].task)
           /\ peer[p].task.batch \in Batches /\ peer[p].task.batch.tip \in Chains
           /\ peer[p].task.batch.to \in Heights /\ peer[p].task.batch.to <= Len(peer[p].task.batch.tip)
           /\ peer[p].task.next \in Nat \ {0} /\ peer[p].task.applied \in Nat
           /\ peer[p].task.pc # "end" =>
                /\ peer[p].task.next <= peer[p].task.batch.to
                /\ peer[p].task.next \in 0..Len(peer[p].task.batch.tip)
                /\ peer[p].task.next \in Heights
  <1>1. peer[p].task \in BatchTasks /\ peer[p].task # Waiting /\ ~Holding(peer[p].task)
    BY TaskFacts DEF Base, Waiting, Holding
  <1>2. /\ peer[p].task.batch \in Batches /\ peer[p].task.batch.tip \in Chains
        /\ peer[p].task.batch.to \in Nat /\ peer[p].task.batch.to <= Len(peer[p].task.batch.tip)
        /\ Len(peer[p].task.batch.tip) \in Nat /\ Len(peer[p].task.batch.tip) <= MaxHeight
    BY <1>1 DEF BatchTasks, Batches, Chains
  <1>3. /\ peer[p].task.next \in Nat \ {0} /\ peer[p].task.applied \in Nat
        /\ peer[p].task.pc # "end" => peer[p].task.next <= peer[p].task.batch.to
    BY <1>1 DEF BatchTasks
  <1>4. \A to, len \in Nat : to <= len /\ len <= MaxHeight =>
            /\ to \in Heights
            /\ \A n \in Nat \ {0} : n <= to => n \in 0..len /\ n \in Heights
    BY Bounds DEF Heights
  <1>5. peer[p].task.batch.to \in Heights
    BY <1>2, <1>4
  <1>6. ASSUME peer[p].task.pc # "end"
        PROVE  peer[p].task.next \in 0..Len(peer[p].task.batch.tip) /\ peer[p].task.next \in Heights
    BY <1>2, <1>3, <1>4, <1>6
  <1> QED  BY <1>1, <1>2, <1>3, <1>5, <1>6

\* The point of a task at a batch changes.
LEMMA BatchPc ==
    ASSUME NEW t \in BatchTasks, t.pc # "end", NEW x \in {"batch", "cache", "fork", "end"}
    PROVE  [t EXCEPT !.pc = x] \in Tasks /\ ~Holding([t EXCEPT !.pc = x]) /\ [t EXCEPT !.pc = x].pc = x
  <1>1. [t EXCEPT !.pc = x] \in BatchTasks /\ [t EXCEPT !.pc = x].pc = x
    BY DEF BatchTasks
  <1> QED  BY <1>1 DEF Tasks, Holding

\* ApplyOfBatch makes the next block of the batch the tip if it applies.
LEMMA ApplyOfBatchTidy ==
    ASSUME Base, NEW p \in Peers, ApplyOfBatch(p)
    PROVE  Tidy(p)
  <1> DEFINE t == peer[p].task
             b == Ancestor(t.batch.tip, t.next)
             x == IF Applies(b, chain) THEN "cache" ELSE "fork"
             t2 == [t EXCEPT !.pc = x]
  <1>1. /\ peer[p].task.pc = "batch" /\ chain' \in {b, chain} /\ Goto(p, t2)
        /\ node' = node /\ work' = work /\ events' = events
    BY DEF ApplyOfBatch
  <1>2. b \in Chains
    BY <1>1, BatchFacts, AncestorType
  <1>3. x \in {"batch", "cache", "fork", "end"}
    OBVIOUS
  <1> HIDE DEF b, x
  <1>4. t2 \in Tasks /\ ~Holding(t2) /\ peer[p].task # Waiting
    BY <1>1, <1>3, BatchFacts, BatchPc
  <1> HIDE DEF t2
  <1>5. peer' \in [Peers -> Connections] /\ peer'[p].conn = "up" /\ peer'[p].task = t2 /\ Alone(p)
    BY <1>1, <1>4, GotoType
  <1>6. PermitMoves(p)
    BY <1>1, <1>4, <1>5 DEF PermitMoves
  <1> QED  BY <1>1, <1>2, <1>5, <1>6, BaseFacts, TidyStep

\* CacheOfBatch publishes the height and goes to the next block.
LEMMA CacheOfBatchTidy ==
    ASSUME Base, NEW p \in Peers, CacheOfBatch(p)
    PROVE  Tidy(p)
  <1> DEFINE t == peer[p].task
             t2 == [t EXCEPT !.pc = IF t.next < t.batch.to THEN "batch" ELSE "end",
                             !.next = @ + 1, !.applied = @ + 1]
             noted == [peer[p] EXCEPT !.progress = t.next]
             r == [noted EXCEPT !.task = t2]
  <1>1. /\ peer[p].task.pc = "cache" /\ node' = [node EXCEPT !.height = t.next]
        /\ peer' = [peer EXCEPT ![p] = r]
        /\ chain' = chain /\ work' = work /\ events' = events
    BY DEF CacheOfBatch
  <1>2. peer[p] \in Connections /\ peer[p].conn = "up"
    BY <1>1, TaskFacts, BatchFacts DEF Base, DownIsIdle
  <1>3. t2 \in BatchTasks
    <2>0. t.next \in Nat /\ t.applied \in Nat /\ t.batch.to \in Nat
      BY <1>1, BatchFacts DEF Heights
    <2>1. t.next + 1 \in Nat \ {0} /\ t.applied + 1 \in Nat /\ (t.next < t.batch.to => t.next + 1 <= t.batch.to)
      BY <2>0
    <2> QED  BY <1>1, <2>1, BatchFacts DEF BatchTasks
  <1>4. t2 \in Tasks /\ ~Holding(t2)
    BY <1>3 DEF Tasks, BatchTasks, Holding
  <1> HIDE DEF t2
  <1>9. noted \in Connections /\ noted.conn = "up"
    BY <1>1, <1>2, BatchFacts, ProgressSet
  <1> HIDE DEF noted
  <1>5. r \in Connections /\ r.conn = "up" /\ r.task = t2
    BY <1>4, <1>9, TaskSet
  <1> HIDE DEF r
  <1>6. peer' \in [Peers -> Connections] /\ peer'[p] = r /\ Alone(p)
    BY <1>1, <1>5, PeerSet DEF Base
  <1>7. node' \in Nodes /\ node'.slot = node.slot /\ node'.permit = node.permit
    BY <1>1, BatchFacts, BaseFacts DEF Nodes
  <1>8. PermitMoves(p)
    BY <1>4, <1>5, <1>6, <1>7 DEF PermitMoves
  <1> QED  BY <1>1, <1>5, <1>6, <1>7, <1>8, BaseFacts, TidyStep

\* What handling a fork comes to.
LEMMA ForkOutcomes ==
    ASSUME Base, NEW p \in Peers, HandleFork(p)
    PROVE  \/ NoReorg(p)
           \/ \E a \in 0..Len(chain) :
                RollBack(p, a) /\ peer[p].task.batch.to > Len(chain) + ANCHOR_LEAD
           \/ \E fp \in 0..Len(chain) :
                /\ Reorganise(p, peer[p].task.batch, fp)
                /\ fp + 1 \in peer[p].task.batch.from..peer[p].task.batch.to
                /\ peer[p].task.batch.to > Len(chain)
  <1> DEFINE batch == peer[p].task.batch
             fp == FindForkPoint(batch)
             anchor == IF fp = NoFork THEN AnchorWithout(p, batch)
                       ELSE IF fp = Height(chain) THEN AnchorOfStall(p, batch) ELSE NoFork
  <1>1. batch \in Batches /\ Types
    BY BatchFacts DEF HandleFork, Base
  <1>2. CASE RollBack(p, anchor) /\ anchor # NoFork
    <2>1. anchor = AnchorWithout(p, batch) \/ anchor = AnchorOfStall(p, batch)
      BY <1>2
    <2> HIDE DEF anchor, batch
    <2>2. anchor \in 0..Len(chain) /\ batch.to > Len(chain) + ANCHOR_LEAD
      BY <1>1, <1>2, <2>1, AnchorType
    <2> QED  BY <1>2, <2>2 DEF batch
  <1>3. CASE Reorganise(p, batch, fp) /\ fp # NoFork /\ IsLonger(batch)
    <2>1. batch.to > Len(chain)
      BY <1>3 DEF IsLonger, Height
    <2> HIDE DEF batch
    <2>2. fp \in 0..Len(chain) /\ fp + 1 \in batch.from..batch.to
      BY <1>1, <1>3, ForkPointType
    <2> HIDE DEF fp
    <2> QED  BY <1>3, <2>1, <2>2 DEF batch
  <1> QED
    BY <1>2, <1>3 DEF HandleFork

\* HandleFork keeps, rolls back or replaces the chain.
LEMMA HandleForkTidy ==
    ASSUME Base, NEW p \in Peers, HandleFork(p)
    PROVE  Tidy(p)
  <1> DEFINE t == peer[p].task
             over == [t EXCEPT !.pc = "end"]
  <1>1. peer[p].task.pc = "fork" /\ work' = work /\ events' = events
    BY DEF HandleFork
  <1>2. /\ peer[p] \in Connections /\ peer[p].conn = "up" /\ peer[p].task # Waiting
        /\ Waiting \in Tasks /\ ~Holding(Waiting)
    BY <1>1, TaskFacts, BatchFacts DEF Base, DownIsIdle
  <1>3. over \in Tasks /\ ~Holding(over)
    BY <1>1, BatchFacts, BatchPc
  <1>4. CASE NoReorg(p)
    <2>1. chain' = chain /\ node' = node /\ (Goto(p, over) \/ Goto(p, Waiting))
      BY <1>4 DEF NoReorg
    <2> HIDE DEF over
    <2>2. /\ peer' \in [Peers -> Connections] /\ peer'[p].conn = "up" /\ Alone(p)
          /\ ~Holding(peer'[p].task)
      BY <1>2, <1>3, <2>1, GotoType
    <2>3. PermitMoves(p)
      BY <2>1, <2>2 DEF PermitMoves
    <2> QED  BY <1>1, <2>1, <2>2, <2>3, BaseFacts, TidyStep
  <1>5. ASSUME NEW a \in 0..Len(chain), RollBack(p, a) PROVE Tidy(p)
    <2>1. chain' = Ancestor(chain, a) /\ node' = [node EXCEPT !.height = a] /\ Goto(p, over)
      BY <1>5 DEF RollBack, Goto
    <2> HIDE DEF over
    <2>2. /\ peer' \in [Peers -> Connections] /\ peer'[p].conn = "up" /\ Alone(p)
          /\ ~Holding(peer'[p].task)
      BY <1>2, <1>3, <2>1, GotoType
    <2>3. chain' \in Chains
      BY <2>1, BaseFacts, AncestorType
    <2>4. a \in Heights
      BY BaseFacts, Bounds DEF Heights, Height
    <2>5. node' \in Nodes /\ node'.slot = node.slot /\ node'.permit = node.permit
      BY <2>1, <2>4, BaseFacts DEF Nodes
    <2>6. PermitMoves(p)
      BY <2>2, <2>5 DEF PermitMoves
    <2> QED  BY <1>1, <2>2, <2>3, <2>5, <2>6, BaseFacts, TidyStep
  <1>6. ASSUME NEW fp \in 0..Len(chain), Reorganise(p, t.batch, fp), fp + 1 \in t.batch.from..t.batch.to
        PROVE  Tidy(p)
    <2> DEFINE top == Reapplied(t.batch, fp)
    <2>1. PICK h \in {top, node.height}, g \in {top, peer[p].progress}, t2 \in {over, Waiting} :
             /\ chain' = Ancestor(t.batch.tip, top) /\ node' = [node EXCEPT !.height = h]
             /\ peer' = [peer EXCEPT ![p] = [[peer[p] EXCEPT !.progress = g] EXCEPT !.task = t2]]
      <3> DEFINE h == IF top > fp THEN top ELSE node.height
                 g == IF top > fp THEN top ELSE peer[p].progress
                 t2 == IF top > fp \/ t.applied > 0 THEN over ELSE Waiting
      <3>1. chain' = Ancestor(t.batch.tip, top) /\ node' = [node EXCEPT !.height = h]
        BY <1>6 DEF Reorganise
      <3>2. peer' = [peer EXCEPT ![p] = [[peer[p] EXCEPT !.progress = g] EXCEPT !.task = t2]]
        BY <1>6 DEF Reorganise
      <3>3. h \in {top, node.height} /\ g \in {top, peer[p].progress} /\ t2 \in {over, Waiting}
        OBVIOUS
      <3> HIDE DEF h, g, t2
      <3> QED  BY <3>1, <3>2, <3>3
    <2>2. top \in Heights /\ top \in 0..Len(t.batch.tip) /\ t.batch.tip \in Chains
      <3>1. t.batch \in Batches /\ fp \in Nat
        BY <1>1, BatchFacts
      <3>2. top \in fp..t.batch.to
        BY <1>6, <3>1, ReappliedType
      <3>3. t.batch.to \in Nat /\ t.batch.to <= MaxHeight /\ t.batch.to <= Len(t.batch.tip) /\ t.batch.tip \in Chains
        BY <1>1, BatchFacts, Bounds DEF Heights
      <3>4. Len(t.batch.tip) \in Nat /\ MaxHeight \in Nat
        BY <3>3, ChainHeights, Bounds
      <3> HIDE DEF top, t
      <3>5. top \in Nat /\ top <= t.batch.to
        BY <3>1, <3>2, <3>3
      <3> QED  BY <3>3, <3>4, <3>5 DEF Heights
    <2> HIDE DEF top, over
    <2>3. chain' \in Chains
      BY <2>1, <2>2, AncestorType
    <2>4. h \in Heights /\ g \in Heights /\ t2 \in Tasks /\ ~Holding(t2)
      BY <1>2, <1>3, <2>1, <2>2, BaseFacts, NodeFields DEF Connections
    <2>5. node' \in Nodes /\ node'.slot = node.slot /\ node'.permit = node.permit
      BY <2>1, <2>4, BaseFacts DEF Nodes
    <2> DEFINE noted == [peer[p] EXCEPT !.progress = g]
               r == [noted EXCEPT !.task = t2]
    <2>6. noted \in Connections /\ noted.conn = "up"
      BY <1>2, <2>4, ProgressSet
    <2>7. peer' = [peer EXCEPT ![p] = r]
      BY <2>1
    <2> HIDE DEF noted
    <2>8. r \in Connections /\ r.conn = "up" /\ r.task = t2
      BY <2>4, <2>6, TaskSet
    <2> HIDE DEF r
    <2>9. peer' \in [Peers -> Connections] /\ peer'[p] = r /\ Alone(p)
      BY <2>7, <2>8, PeerSet DEF Base
    <2>10. PermitMoves(p)
      BY <2>4, <2>5, <2>8, <2>9 DEF PermitMoves
    <2> QED  BY <1>1, <2>3, <2>5, <2>8, <2>9, <2>10, BaseFacts, TidyStep
  <1> QED
    BY <1>4, <1>5, <1>6, ForkOutcomes

\* EndBatch is done, asks on or goes to give the slot back.
LEMMA EndBatchTidy ==
    ASSUME Base, NEW p \in Peers, EndBatch(p)
    PROVE  Tidy(p)
  <1> DEFINE rest == [peer[p] EXCEPT !.task = Waiting]
             m == Chunk(Height(chain), peer[p].height)
  <1>1. chain' = chain /\ work' = work /\ events' = events /\ peer[p].task.pc = "end"
    BY DEF EndBatch
  <1>2. Waiting \in Tasks /\ ~Holding(Waiting) /\ peer[p] \in Connections /\ peer[p].task # Waiting
    BY <1>1, TaskFacts, BatchFacts DEF Base
  <1>3. peer[p].conn = "up" /\ peer[p].height \in Heights
    BY <1>2 DEF Base, DownIsIdle, Connections
  <1>4. ASSUME NEW u \in {Waiting, [pc |-> "release", ours |-> Height(chain)]}, Goto(p, u), node' = node
        PROVE  Tidy(p)
    <2>1. u \in Tasks /\ ~Holding(u)
      BY <1>2, BaseFacts DEF Tasks, HeightTasks, Holding
    <2>2. /\ peer' \in [Peers -> Connections] /\ peer'[p].conn = "up" /\ peer'[p].task = u
          /\ Alone(p)
      BY <1>2, <1>4, <2>1, GotoType
    <2>3. PermitMoves(p)
      BY <1>4, <2>1, <2>2 DEF PermitMoves
    <2> QED  BY <1>1, <1>4, <2>2, <2>3, BaseFacts, TidyStep
  <1>5. CASE peer' = [peer EXCEPT ![p] = Sent(rest, m)] /\ node' = node
    <2>1. rest \in Connections /\ rest.conn = "up" /\ rest.task = Waiting /\ m \in Requests
      BY <1>2, <1>3, TaskSet, ChunkType, BaseFacts
    <2> HIDE DEF rest, m
    <2>2. /\ peer' \in [Peers -> Connections] /\ peer'[p].conn = "up" /\ peer'[p].task = Waiting
          /\ Alone(p)
      BY <1>5, <2>1, SentType, PeerSet DEF Base
    <2>3. PermitMoves(p)
      BY <1>2, <1>5, <2>2 DEF PermitMoves
    <2> QED  BY <1>1, <1>5, <2>2, <2>3, BaseFacts, TidyStep
  <1> QED
    BY <1>4, <1>5 DEF EndBatch

\* A connection record changes in what tasks and slot do not depend on.
LEMMA QuietStep ==
    ASSUME Base, NEW p \in Peers, NEW r \in Connections, peer' = [peer EXCEPT ![p] = r],
           r.conn = peer[p].conn, r.task = peer[p].task, node' = node, chain' = chain,
           work' = work, events' \in Nat
    PROVE  Tidy(p)
  <1>1. peer' \in [Peers -> Connections] /\ peer'[p] = r /\ Alone(p)
    BY PeerSet DEF Base
  <1>2. PermitMoves(p)
    BY <1>1 DEF PermitMoves
  <1>3. SlotMoves(p)
    <2>1. node.slot = p => peer[p].conn # "down"
      BY SyncAssumption DEF Base, SlotHolderIsConnected
    <2> QED  BY <1>1, <2>1 DEF SlotMoves, Base, DownIsIdle
  <1> QED  BY <1>1, <1>2, <1>3, BaseFacts DEF Tidy, Types

\* The ticks of the ping timer that keep the connection.
LEMMA TickTidy ==
    ASSUME Base, NEW p \in Peers, TickProgress(p) \/ TickResend(p)
    PROVE  Tidy(p)
  <1>1. peer[p] \in Connections /\ peer[p].progress \in Heights /\ peer[p].height \in Heights
    BY TaskFacts DEF Base, Connections
  <1>2. node.height \in Heights /\ Most(peer[p].progress, node.height) \in Heights
    BY <1>1, BaseFacts, NodeFields, Bounds DEF Heights, Most
  <1>3. CASE TickProgress(p)
    <2> DEFINE r == [peer[p] EXCEPT !.progress = node.height]
    <2>1. peer' = [peer EXCEPT ![p] = r] /\ UNCHANGED <<chain, node, work, events>>
      BY <1>3 DEF TickProgress
    <2>2. r \in Connections /\ r.conn = peer[p].conn /\ r.task = peer[p].task
      BY <1>1, <1>2, ProgressSet
    <2> HIDE DEF r
    <2> QED  BY <2>1, <2>2, BaseFacts, QuietStep
  <1>4. CASE TickResend(p)
    <2> DEFINE noted == [peer[p] EXCEPT !.progress = Most(peer[p].progress, node.height)]
               m == Chunk(node.height, peer[p].height)
               r == Sent(noted, m)
    <2>1. peer' = [peer EXCEPT ![p] = r] /\ UNCHANGED <<chain, node, work>> /\ events' = events + 1
      BY <1>4 DEF TickResend
    <2>2. noted \in Connections /\ noted.conn = peer[p].conn /\ noted.task = peer[p].task
      BY <1>1, <1>2, ProgressSet
    <2>3. m \in Requests
      BY <1>1, <1>2, ChunkType
    <2> HIDE DEF noted, m
    <2>4. r \in Connections /\ r.conn = peer[p].conn /\ r.task = peer[p].task
      BY <2>2, <2>3, SentType
    <2>5. events' \in Nat
      BY <2>1, BaseFacts
    <2> HIDE DEF r
    <2> QED  BY <2>1, <2>4, <2>5, QuietStep
  <1> QED  BY <1>3, <1>4

\* A connection that ends has an idle task.
LEMMA EndTidy ==
    ASSUME Base, NEW p \in Peers, TickStall(p) \/ DropConnection(p)
    PROVE  Tidy(p)
  <1> DEFINE r == [peer[p] EXCEPT !.conn = "closing", !.inbox = <<>>, !.asked = <<>>]
  <1>1. peer' = [peer EXCEPT ![p] = r]
    BY DEF TickStall, DropConnection
  <1>2. peer[p] \in Connections /\ ~Holding(Waiting)
    BY TaskFacts DEF Base
  <1>3. r \in Connections /\ r.conn = "closing" /\ r.task = peer[p].task
    <2>1. <<>> \in Seq(Messages) /\ <<>> \in Seq(Requests)
      OBVIOUS
    <2> QED  BY <1>2, <2>1 DEF Connections
  <1> HIDE DEF r
  <1>4. peer' \in [Peers -> Connections] /\ peer'[p] = r /\ Alone(p)
    BY <1>1, <1>3, PeerSet DEF Base
  <1>5. peer[p].task = Waiting /\ chain' = chain /\ work' = work /\ events' \in Nat
    BY BaseFacts DEF TickStall, DropConnection, Drives
  <1>6. node' \in Nodes /\ node'.slot \in {node.slot, NoPeer} /\ node'.permit = node.permit
    BY BaseFacts DEF TickStall, DropConnection, Nodes
  <1>7. PermitMoves(p)
    BY <1>2, <1>3, <1>4, <1>5, <1>6 DEF PermitMoves
  <1>8. SlotMoves(p)
    BY <1>3, <1>4, <1>5, <1>6 DEF SlotMoves
  <1> QED  BY <1>4, <1>5, <1>6, <1>7, <1>8, BaseFacts DEF Tidy, Types

\* The connection of a driver ends with the slot free and requests to the others.
LEMMA CloseConnectionTidy ==
    ASSUME Base, NEW p \in Peers, CloseConnection(p)
    PROVE  Tidy(p)
  <1> DEFINE r == [peer[p] EXCEPT !.conn = "down"]
  <1>1. chain' = chain /\ work' = work /\ events' = events /\ peer[p].conn = "closing"
    BY DEF CloseConnection
  <1>2. peer[p] \in Connections /\ ~Holding(Waiting) /\ peer[p].task = Waiting
    BY <1>1, TaskFacts DEF Base, DownIsIdle
  <1>3. r \in Connections /\ r.conn = "down" /\ r.task = peer[p].task
    BY <1>2, ConnSet
  <1>4. CASE HoldsSlot(p)
    <2>1. /\ node' = [node EXCEPT !.slot = NoPeer, !.ready = FALSE]
          /\ peer' = [q \in Peers |->
                 IF q = p THEN r ELSE IF Up(q) THEN Sent(peer[q], GetChainHeight) ELSE peer[q]]
      BY <1>4 DEF CloseConnection
    <2> HIDE DEF r
    <2>2. ASSUME NEW q \in Peers
          PROVE  /\ Sent(peer[q], GetChainHeight) \in Connections
                 /\ Sent(peer[q], GetChainHeight).conn = peer[q].conn
                 /\ Sent(peer[q], GetChainHeight).task = peer[q].task
                 /\ peer[q] \in Connections
      <3>1. GetChainHeight \in Requests /\ peer[q] \in Connections
        BY BaseFacts DEF GetChainHeight, Requests
      <3> QED  BY <3>1, SentType
    <2>3. peer' \in [Peers -> Connections] /\ peer'[p] = r /\ Alone(p)
      BY <1>3, <2>1, <2>2 DEF Alone
    <2>4. node' \in Nodes /\ node'.slot = NoPeer /\ node'.permit = node.permit
      BY <2>1, BaseFacts DEF Nodes
    <2>5. PermitMoves(p) /\ SlotMoves(p)
      BY <1>2, <1>3, <2>3, <2>4, SyncAssumption DEF PermitMoves, SlotMoves
    <2> QED  BY <1>1, <2>3, <2>4, <2>5, BaseFacts DEF Tidy, Types
  <1>5. CASE ~HoldsSlot(p)
    <2>1. node' = node /\ peer' = [peer EXCEPT ![p] = r]
      BY <1>5 DEF CloseConnection
    <2> HIDE DEF r
    <2>2. peer' \in [Peers -> Connections] /\ peer'[p] = r /\ Alone(p)
      BY <1>3, <2>1, PeerSet DEF Base
    <2>3. PermitMoves(p) /\ SlotMoves(p)
      BY <1>2, <1>3, <1>5, <2>1, <2>2 DEF PermitMoves, SlotMoves, HoldsSlot
    <2> QED  BY <1>1, <2>1, <2>2, <2>3, BaseFacts DEF Tidy, Types
  <1> QED  BY <1>4, <1>5

\* A connection begins with an idle task.
LEMMA ConnectTidy ==
    ASSUME Base, NEW p \in Peers, Connect(p)
    PROVE  Tidy(p)
  <1> DEFINE r == NewConnection(peer[p].chain)
  <1>1. /\ peer' = [peer EXCEPT ![p] = r] /\ node' = node /\ chain' = chain /\ work' = work
        /\ events' = events + 1 /\ peer[p].conn = "down"
    BY DEF Connect
  <1>2. peer[p].chain \in Chains /\ Waiting \in Tasks /\ ~Holding(Waiting) /\ node.height \in Heights
    BY TaskFacts, BaseFacts, NodeFields DEF Base, Connections
  <1>3. r \in Connections /\ r.conn = "up" /\ r.task = Waiting
    <2>1. <<>> \in Seq(Messages) /\ <<GetChainHeight>> \in Seq(Requests) /\ 0 \in Heights
      BY Bounds DEF Requests, GetChainHeight, Heights
    <2> QED  BY <1>2, <2>1 DEF NewConnection, Connections
  <1> HIDE DEF r
  <1>4. peer' \in [Peers -> Connections] /\ peer'[p] = r /\ Alone(p)
    BY <1>1, <1>3, PeerSet DEF Base
  <1>5. PermitMoves(p)
    BY <1>1, <1>2, <1>3, <1>4 DEF PermitMoves
  <1>6. events' \in Nat
    BY <1>1, BaseFacts
  <1> QED  BY <1>1, <1>3, <1>4, <1>5, <1>6, BaseFacts, TidyStep

\* The remote end answers, or sends a new block.
LEMMA RemoteTidy ==
    ASSUME Base, NEW p \in Peers,
           PeerReplies(p) \/ PeerReverts(p) \/ \E l \in Labels : PeerBlock(p, l)
    PROVE  Tidy(p)
  <1>1. /\ peer[p] \in Connections /\ peer[p].inbox \in Seq(Messages)
        /\ peer[p].asked \in Seq(Requests) /\ peer[p].chain \in Chains
    BY TaskFacts DEF Base, Connections
  <1>2. CASE PeerReplies(p)
    <2> DEFINE m == Reply(Head(peer[p].asked), peer[p].chain)
               r == [peer[p] EXCEPT !.asked = Tail(@), !.inbox = Append(@, m)]
    <2>1. peer' = [peer EXCEPT ![p] = r] /\ UNCHANGED <<chain, node, work, events>> /\ peer[p].asked # <<>>
      BY <1>2 DEF PeerReplies
    <2>2. Head(peer[p].asked) \in Requests /\ Tail(peer[p].asked) \in Seq(Requests)
      BY <1>1, <2>1
    <2>3. m \in Messages
      BY <1>1, <2>2, ReplyType
    <2> HIDE DEF m
    <2>4. Append(peer[p].inbox, m) \in Seq(Messages)
      BY <1>1, <2>3
    <2>5. r \in Connections /\ r.conn = peer[p].conn /\ r.task = peer[p].task
      BY <1>1, <2>2, <2>4 DEF Connections
    <2> HIDE DEF r
    <2> QED  BY <2>1, <2>5, BaseFacts, QuietStep
  <1>3. ASSUME NEW l \in Labels, PeerBlock(p, l) PROVE Tidy(p)
    <2> DEFINE b == Append(peer[p].chain, l)
               m == [type |-> "NewBlock", block |-> b]
               i == IF Up(p) THEN Append(peer[p].inbox, m) ELSE peer[p].inbox
               r == [peer[p] EXCEPT !.chain = b, !.inbox = i]
    <2>1. /\ peer' = [peer EXCEPT ![p] = r] /\ UNCHANGED <<chain, node, work>> /\ events' = events + 1
          /\ Height(b) <= MaxHeight
      BY <1>3 DEF PeerBlock
    <2>2. b \in Mined
      BY <1>1, <2>1 DEF Mined, Chains, Height
    <2>3. b \in Chains /\ m \in Messages
      BY <2>2 DEF Mined, Messages
    <2> HIDE DEF m
    <2>4. i \in Seq(Messages)
      BY <1>1, <2>3
    <2> HIDE DEF i, b
    <2>5. r \in Connections /\ r.conn = peer[p].conn /\ r.task = peer[p].task
      BY <1>1, <2>3, <2>4 DEF Connections
    <2>6. events' \in Nat
      BY <2>1, BaseFacts
    <2> HIDE DEF r
    <2> QED  BY <2>1, <2>5, <2>6, QuietStep
  <1>4. CASE PeerReverts(p)
    <2> DEFINE c == Parent(peer[p].chain)
               r == [peer[p] EXCEPT !.chain = c]
    <2>1. /\ peer' = [peer EXCEPT ![p] = r] /\ UNCHANGED <<chain, node, work>> /\ events' = events + 1
          /\ peer[p].chain # <<>>
      BY <1>4 DEF PeerReverts
    <2>2. c \in Chains
      BY <1>1, <2>1, ParentType DEF Mined
    <2> HIDE DEF c
    <2>3. r \in Connections /\ r.conn = peer[p].conn /\ r.task = peer[p].task
      BY <1>1, <2>2 DEF Connections
    <2>4. events' \in Nat
      BY <2>1, BaseFacts
    <2> HIDE DEF r
    <2> QED  BY <2>1, <2>3, <2>4, QuietStep
  <1> QED  BY <1>2, <1>3, <1>4

Mining == (\E l \in Labels : GetTemplate(l)) \/ SubmitMinedBlock \/ ApplyOwnBlock

\* Mining changes neither connections nor slot nor permit.
LEMMA MiningTypes ==
    ASSUME Base, Mining
    PROVE  Types' /\ peer' = peer /\ node'.slot = node.slot /\ node'.permit = node.permit
  <1>1. /\ chain \in Chains /\ work \in Chains /\ events \in Nat /\ node \in Nodes
        /\ Height(work) \in Heights /\ peer \in [Peers -> Connections]
    BY BaseFacts, ChainHeights
  <1>2. NoBlock \in Chains
    BY Bounds DEF NoBlock, Chains
  <1>3. ASSUME NEW l \in Labels, GetTemplate(l)
        PROVE  Types' /\ peer' = peer /\ node'.slot = node.slot /\ node'.permit = node.permit
    <2>1. work' \in Chains
      BY <1>1, <1>3, Bounds DEF GetTemplate, Chains, Height
    <2>2. UNCHANGED <<chain, node, peer>> /\ events' = events + 1
      BY <1>3 DEF GetTemplate
    <2> QED  BY <1>1, <2>1, <2>2 DEF Types
  <1>4. CASE SubmitMinedBlock
    <2>1. /\ work' = NoBlock /\ peer' = peer /\ events' = events /\ chain' \in {work, chain}
          /\ \/ node' = node
             \/ node' = [node EXCEPT !.height = Height(work)]
      BY <1>4 DEF SubmitMinedBlock
    <2>2. node' \in Nodes /\ node'.slot = node.slot /\ node'.permit = node.permit
      BY <1>1, <2>1 DEF Nodes
    <2> QED  BY <1>1, <1>2, <2>1, <2>2 DEF Types
  <1>5. CASE ApplyOwnBlock
    <2>1. work' = NoBlock /\ peer' = peer /\ events' = events /\ chain' \in {work, chain} /\ node' = node
      BY <1>5 DEF ApplyOwnBlock
    <2> QED  BY <1>1, <1>2, <2>1 DEF Types
  <1> QED  BY <1>3, <1>4, <1>5 DEF Mining

\* The steps of one connection: its handler, its timer, its two ends.
PeerStep(p) ==
    \/ Handle(p) \/ Watchdog(p) \/ TickResend(p)
    \/ DropConnection(p) \/ Connect(p) \/ PeerReplies(p) \/ PeerReverts(p)
    \/ \E l \in Labels : PeerBlock(p, l)

\* All of them are tidy.
LEMMA PeerStepTidy ==
    ASSUME Base, NEW p \in Peers, PeerStep(p)
    PROVE  Tidy(p)
  BY OnNewBlockTidy, CheckNewBlockTidy, ApplyNewBlockTidy, PublishNewBlockTidy, RefusedNewBlockTidy,
     CompareTipsTidy, CompeteForTipTidy, OnChainHeightTidy, ClaimSlotTidy, InSyncTidy, OnBlocksTidy,
     EmptyBatchTidy, ReleaseSlotTidy, ApplyOfBatchTidy, CacheOfBatchTidy, HandleForkTidy, EndBatchTidy, CloseConnectionTidy, TickTidy,
     EndTidy, ConnectTidy, RemoteTidy
  DEF PeerStep, Handle, Watchdog

\* Every step is one of a connection, of the miners, or none.
LEMMA StepKinds ==
    ASSUME [Next]_vars
    PROVE  (\E p \in Peers : PeerStep(p)) \/ Mining \/ UNCHANGED vars
  BY DEF Next, PeerStep, Mining

-----------------------------------------------------------------------------
(* Types, slot and permit                                                  *)

\* The permit belongs to the task that works under it.
Permits == \A p \in Peers : Holding(peer[p].task) => node.permit = p

\* A step of one task leaves connections and slot in order.
LEMMA TidyBase ==
    ASSUME Base, NEW p \in Peers, Tidy(p)
    PROVE  Base'
  <1>1. DownIsIdle'
    BY DEF Base, Tidy, Alone, SlotMoves, DownIsIdle
  <1>2. SlotHolderIsConnected'
    <2>1. node'.slot \in Peers \cup {NoPeer} /\ node.slot \in Peers \cup {NoPeer}
      BY BaseFacts DEF Tidy, Types, Nodes
    <2> QED  BY <2>1 DEF Base, Tidy, Alone, SlotMoves, SlotHolderIsConnected
  <1> QED  BY <1>1, <1>2 DEF Base, Tidy

\* Every step leaves them in order.
LEMMA BaseStep == Base /\ [Next]_vars => Base'
  <1> SUFFICES ASSUME Base, [Next]_vars PROVE Base'
    OBVIOUS
  <1>1. CASE Mining
    BY <1>1, MiningTypes DEF Base, DownIsIdle, SlotHolderIsConnected
  <1>2. CASE UNCHANGED vars
    BY <1>2 DEF vars, Base, Types, DownIsIdle, SlotHolderIsConnected
  <1> QED  BY <1>1, <1>2, StepKinds, PeerStepTidy, TidyBase

\* A step of one task hands the permit on as it should.
LEMMA TidyPermits ==
    ASSUME Base, Permits, NEW p \in Peers, Tidy(p)
    PROVE  Permits'
  <1> SUFFICES ASSUME NEW q \in Peers, Holding(peer'[q].task) PROVE node'.permit = q
    BY DEF Permits
  <1>1. NoPeer \notin Peers
    BY SyncAssumption
  <1>2. CASE q = p
    BY <1>2 DEF Tidy, PermitMoves, Permits
  <1>3. CASE q # p
    <2>1. Holding(peer[q].task) /\ node.permit = q
      BY <1>3 DEF Tidy, Alone, Permits
    <2>2. ~Holding(peer[p].task) /\ node.permit # NoPeer
      BY <1>1, <1>3, <2>1 DEF Permits
    <2> QED  BY <2>1, <2>2 DEF Tidy, PermitMoves
  <1> QED  BY <1>2, <1>3

\* Every step does.
LEMMA PermitsStep == Base /\ Permits /\ [Next]_vars => Permits'
  <1> SUFFICES ASSUME Base, Permits, [Next]_vars PROVE Permits'
    OBVIOUS
  <1>1. CASE Mining
    BY <1>1, MiningTypes DEF Permits
  <1>2. CASE UNCHANGED vars
    BY <1>2 DEF vars, Permits
  <1> QED  BY <1>1, <1>2, StepKinds, PeerStepTidy, TidyPermits

\* Every handler waits in the initial state.
LEMMA InitBase == Init => Base /\ Permits
  <1> SUFFICES ASSUME Init PROVE Base /\ Permits
    OBVIOUS
  <1>1. OurChain \in Chains /\ \A p \in Peers : PeerChains[p] \in Chains
    BY SyncAssumption DEF Chains
  <1>2. Height(OurChain) \in Heights /\ NoBlock \in Chains /\ 0 \in Nat /\ 0 \in Heights
    BY <1>1, ChainHeights, Bounds DEF NoBlock, Chains, Heights
  <1>3. node \in Nodes /\ node.slot = NoPeer /\ node.height \in Heights
    BY <1>2 DEF Init, Nodes
  <1>4. Waiting \in Tasks /\ ~Holding(Waiting)
    BY DEF Tasks, Waiting, Holding
  <1>5. <<>> \in Seq(Messages) /\ <<GetChainHeight>> \in Seq(Requests)
    BY DEF Requests, GetChainHeight
  <1>6. ASSUME NEW p \in Peers
        PROVE  NewConnection(PeerChains[p]) \in Connections /\ NewConnection(PeerChains[p]).task = Waiting
    BY <1>1, <1>2, <1>3, <1>4, <1>5 DEF NewConnection, Connections
  <1>7. peer \in [Peers -> Connections] /\ \A p \in Peers : peer[p].task = Waiting
    BY <1>6 DEF Init
  <1>8. Types
    BY <1>1, <1>2, <1>3, <1>7 DEF Init, Types
  <1> QED
    BY <1>3, <1>4, <1>7, <1>8 DEF Base, DownIsIdle, SlotHolderIsConnected, Permits

\* The node's block download keeps its types: heights, cached heights and
\* announced heights stay within the chains there are (node.rs, handle_messages).
THEOREM TypeCorrect == Spec => []TypeOK
  <1>1. Init => Base
    BY InitBase
  <1>2. Base => TypeOK
    BY TypesAreTypeOK DEF Base
  <1> QED  BY <1>1, <1>2, BaseStep, PTL DEF Spec

\* The IBD slot never belongs to a connection that is gone, whatever closes the
\* connection, and whichever task takes or releases the slot meanwhile.
THEOREM SlotAlwaysConnected == Spec => []SlotHolderIsConnected
  <1>1. Init => Base
    BY InitBase
  <1>2. Base => SlotHolderIsConnected
    BY DEF Base
  <1> QED  BY <1>1, <1>2, BaseStep, PTL DEF Spec

-----------------------------------------------------------------------------
(* Fork choice                                                             *)

\* A competing block takes the place of the tip.
Replaces(p) ==
    /\ CompeteForTip(p) /\ peer'[p].task # peer[p].task
    /\ chain' = peer[p].task.block /\ chain # <<>>
    /\ Parent(chain') = Parent(chain)

\* Handling a fork makes the chain longer, or gives it up.
LEMMA ForkImproves ==
    ASSUME Base, NEW p \in Peers, HandleFork(p), chain' # chain
    PROVE  Len(chain') > Len(chain) \/ GivesUp(p)
  <1> DEFINE t == peer[p].task
  <1>1. t.pc = "fork"
    BY DEF HandleFork
  <1>2. /\ t.batch \in Batches /\ t.batch.tip \in Chains /\ t.batch.to \in Nat
        /\ t.batch.to <= Len(t.batch.tip) /\ Len(t.batch.tip) \in Nat /\ t.batch.from \in Nat
        /\ t \in BatchTasks /\ Len(chain) \in Nat /\ chain \in Chains
    BY <1>1, BatchFacts, BaseFacts, ChainHeights DEF Batches
  <1>3. peer'[p].task # t
    <2>1. [t EXCEPT !.pc = "end"] # t /\ Waiting # t
      BY <1>1, <1>2 DEF BatchTasks, Waiting
    <2>2. peer'[p].task \in {[t EXCEPT !.pc = "end"], Waiting}
      <3>1. peer \in [Peers -> Connections] /\ peer[p] \in Connections
        BY BaseFacts
      <3>2. CASE NoReorg(p)
        BY <3>1, <3>2 DEF NoReorg, Goto, Connections
      <3>3. ASSUME NEW a, RollBack(p, a) PROVE peer'[p].task = [t EXCEPT !.pc = "end"]
        BY <3>1, <3>3 DEF RollBack, Connections
      <3>4. ASSUME NEW fp, Reorganise(p, t.batch, fp) PROVE peer'[p].task \in {[t EXCEPT !.pc = "end"], Waiting}
        BY <3>1, <3>4 DEF Reorganise, Connections
      <3> QED  BY <3>2, <3>3, <3>4, ForkOutcomes
    <2> QED  BY <2>1, <2>2
  <1>4. Types'
    BY HandleForkTidy DEF Tidy
  <1>5. chain' \in Chains /\ Len(chain') \in Nat
    BY <1>4, ChainHeights DEF Types
  <1>7. CASE NoReorg(p)
    BY <1>7 DEF NoReorg
  <1>8. CASE t.batch.to > Len(chain) + ANCHOR_LEAD
    <2>1. Len(chain') <= Len(chain) => GivesUp(p)
      BY <1>1, <1>3, <1>8 DEF GivesUp, Height
    <2> QED  BY <1>2, <1>5, <2>1
  <1>9. ASSUME NEW fp \in 0..Len(chain), Reorganise(p, t.batch, fp),
               fp + 1 \in t.batch.from..t.batch.to, t.batch.to > Len(chain)
        PROVE  Len(chain') > Len(chain) \/ GivesUp(p)
    <2> DEFINE top == Reapplied(t.batch, fp)
    <2>1. chain' = Ancestor(t.batch.tip, top)
      BY <1>9 DEF Reorganise
    <2>2. \/ top = t.batch.to
          \/ \E i \in t.batch.from..t.batch.to : Ancestor(t.batch.tip, i) \in Unappliable
      BY <1>2, <1>9, ReappliedType
    <2> HIDE DEF top
    <2>3. CASE top = t.batch.to
      <3>1. Len(chain') = t.batch.to
        BY <1>2, <2>1, <2>3, AncestorType
      <3> QED  BY <1>2, <1>9, <3>1
    <2>4. CASE \E i \in t.batch.from..t.batch.to : Ancestor(t.batch.tip, i) \in Unappliable
      <3>1. Len(chain') <= Len(chain) => GivesUp(p)
        BY <1>1, <1>3, <2>4 DEF GivesUp, Height
      <3> QED  BY <1>2, <1>5, <3>1
    <2> QED  BY <2>2, <2>3, <2>4
  <1> QED
    BY <1>7, <1>8, <1>9, ForkOutcomes

\* A competing block replaces the tip as its sibling, or the tip is lost.
LEMMA CompeteReplaces ==
    ASSUME Base, NEW p \in Peers, CompeteForTip(p), chain' # chain
    PROVE  Replaces(p) \/ GivesUp(p)
  <1>1. \/ chain' = peer[p].task.block /\ chain # <<>> /\ Parent(chain') = Parent(chain)
        \/ chain' = Parent(chain) /\ ~Applies(peer[p].task.block, Parent(chain))
    BY DEF CompeteForTip, AfterRevert, Applies, Links
  <1>2. Holding(peer[p].task)
    BY DEF CompeteForTip, Holding
  <1>3. Goto(p, Waiting) /\ peer[p].task # Waiting /\ Waiting \in Tasks
    BY <1>2, HoldingFacts, TaskFacts DEF CompeteForTip, Base
  <1>4. peer'[p].task # peer[p].task
    BY <1>3, GotoType
  <1> QED  BY <1>1, <1>4 DEF Replaces, GivesUp, LosesTip, CompeteForTip

\* Every other change of the chain makes it longer or gives it up.
LEMMA ChainStep ==
    ASSUME Base, [Next]_vars, chain' # chain
    PROVE  \/ Len(chain') > Len(chain)
           \/ \E p \in Peers : GivesUp(p) \/ Replaces(p)
  <1>1. chain \in Chains /\ work \in Chains
    BY BaseFacts
  <1>2. ASSUME NEW p \in Peers, ApplyNewBlock(p) PROVE Len(chain') > Len(chain)
    <2>1. Holding(peer[p].task)
      BY <1>2 DEF ApplyNewBlock, Holding
    <2>2. peer[p].task.block \in Chains
      BY <2>1, HoldingFacts
    <2>3. chain' = peer[p].task.block /\ Applies(peer[p].task.block, chain)
      BY <1>2 DEF ApplyNewBlock
    <2> QED  BY <1>1, <2>2, <2>3, AppliedIsNext
  <1>3. ASSUME NEW p \in Peers, ApplyOfBatch(p) PROVE Len(chain') > Len(chain)
    <2> DEFINE b == Ancestor(peer[p].task.batch.tip, peer[p].task.next)
    <2>1. chain' = b /\ Applies(b, chain) /\ peer[p].task.pc = "batch"
      BY <1>3 DEF ApplyOfBatch
    <2>2. b \in Chains
      BY <2>1, BatchFacts, AncestorType
    <2> HIDE DEF b
    <2> QED  BY <1>1, <2>1, <2>2, AppliedIsNext
  <1>4. CASE Mining
    <2>1. chain' = work /\ Applies(work, chain)
      BY <1>4 DEF Mining, GetTemplate, SubmitMinedBlock, ApplyOwnBlock
    <2> QED  BY <1>1, <2>1, AppliedIsNext
  <1>5. ASSUME NEW p \in Peers, Handle(p)
        PROVE  ApplyNewBlock(p) \/ ApplyOfBatch(p) \/ HandleFork(p) \/ CompeteForTip(p)
    BY <1>5 DEF Handle, OnNewBlock, Skip, CheckNewBlock, PublishNewBlock, RefusedNewBlock, CompareTips,
       OnChainHeight, ClaimSlot, InSync, OnBlocks, EmptyBatch, ReleaseSlot, CacheOfBatch, EndBatch, CloseConnection
  <1>6. Mining \/ \E p \in Peers : Handle(p)
    BY DEF Next, vars, Mining, Watchdog, TickProgress, TickStall, TickResend, DropConnection, Connect,
       PeerReplies, PeerReverts, PeerBlock
  <1> QED
    BY <1>2, <1>3, <1>4, <1>5, <1>6, ForkImproves, CompeteReplaces

\* Two blocks with one parent have one height.
LEMMA SiblingHeights ==
    ASSUME NEW b \in Mined, NEW c \in Mined, Parent(b) = Parent(c)
    PROVE  Len(b) = Len(c)
  BY ParentType

\* Whatever tasks and miners do between the reads and the writes of a handler,
\* the chain is replaced only by a longer one or by a tip of lower hash, but for
\* a chain given up and a comparison that was overtaken.
THEOREM ChainNeverWorsens == Spec => ChainOnlyImproves
  <1> DEFINE Improves == chain' # chain => \/ Better(chain', chain)
                                           \/ \E p \in Peers : GivesUp(p) \/ Overtaken(p)
  <1>1. Init => Base
    BY InitBase
  <1>2. Base /\ [Next]_vars => [Improves]_vars
    <2> SUFFICES ASSUME Base, [Next]_vars, chain' # chain
                 PROVE  Better(chain', chain) \/ \E p \in Peers : GivesUp(p) \/ Overtaken(p)
      OBVIOUS
    <2>1. ASSUME NEW p \in Peers, Replaces(p) PROVE Better(chain', chain) \/ Overtaken(p)
      <3> DEFINE t == peer[p].task
      <3>1. t \in CompeteTasks /\ t.pc = "compete"
        BY <2>1, TaskFacts DEF Replaces, CompeteForTip, Base
      <3>2. t.block \in Mined /\ Lower(t.block, t.tip)
        BY <3>1 DEF CompeteTasks
      <3>3. chain \in Mined
        BY <2>1, BaseFacts DEF Replaces, Mined
      <3>4. CASE t.tip = chain
        BY <2>1, <3>2, <3>3, <3>4, SiblingHeights DEF Replaces, Better, Height
      <3>5. CASE t.tip # chain
        BY <2>1, <3>1, <3>5 DEF Replaces, Overtaken
      <3> QED  BY <3>4, <3>5
    <2>2. Len(chain') > Len(chain) => Better(chain', chain)
      BY DEF Better, Height
    <2> QED  BY <2>1, <2>2, ChainStep
  <1> QED
    BY <1>1, <1>2, BaseStep, PTL DEF Spec, ChainOnlyImproves

\* The chain is past a block that competes, or has a tip that the block is lower
\* than: also when it has changed since the hashes were compared.
Ahead ==
    \A p \in Peers :
        LET t == peer[p].task
        IN  /\ t.pc = "compare" => Len(t.block) <= Len(chain)
            /\ t.pc = "compete" => \/ Len(t.block) < Len(chain)
                                   \/ Len(t.block) = Len(chain) /\ Lower(t.block, chain)

\* A task comes to compare or to compete in two steps only.
LEMMA CompareOrigin ==
    ASSUME Base, NEW p \in Peers, [Next]_vars, peer'[p].task.pc \in {"compare", "compete"}
    PROVE  \/ peer'[p].task = peer[p].task
           \/ /\ chain' = chain /\ peer'[p].task.pc = "compare"
              /\ Len(peer'[p].task.block) = Len(chain)
           \/ /\ chain' = chain /\ peer'[p].task.pc = "compete" /\ peer[p].task.pc = "compare"
              /\ peer'[p].task.block = peer[p].task.block /\ Lower(peer'[p].task.block, chain)
  <1> DEFINE Same == peer'[p].task = peer[p].task
             Goal == \/ Same
                     \/ /\ chain' = chain /\ peer'[p].task.pc = "compare"
                        /\ Len(peer'[p].task.block) = Len(chain)
                     \/ /\ chain' = chain /\ peer'[p].task.pc = "compete" /\ peer[p].task.pc = "compare"
                        /\ peer'[p].task.block = peer[p].task.block /\ Lower(peer'[p].task.block, chain)
  <1>0. peer \in [Peers -> Connections] /\ peer[p] \in Connections /\ peer[p].task \in Tasks
    BY BaseFacts DEF Connections
  <1>1. ASSUME NEW q \in Peers, q # p, PeerStep(q) PROVE Same
    BY <1>1, PeerStepTidy DEF Tidy, Alone
  <1>2. CASE Mining \/ UNCHANGED vars
    BY <1>2, MiningTypes DEF vars
  <1>3. ASSUME NEW t, t.pc \notin {"compare", "compete"}, Goto(p, t) PROVE FALSE
    BY <1>0, <1>3 DEF Goto, Connections
  <1>4. CASE RefusedNewBlock(p)
    <2>1. CASE Goto(p, [pc |-> "compare", block |-> peer[p].task.block]) /\ Height(peer[p].task.block) = Height(chain)
      BY <1>0, <1>4, <2>1 DEF Goto, Connections, RefusedNewBlock, Height
    <2>2. CASE peer'[p].task = Waiting
      BY <2>2 DEF Waiting
    <2> DEFINE b == peer[p].task.block
               far == Sent([peer[p] EXCEPT !.height = Height(b), !.task = Waiting], Chunk(Height(chain), Height(b)))
               near == Sent([peer[p] EXCEPT !.task = Waiting], GetBlocks(ForkStart(Height(chain)), Height(b)))
    <2>3. far.task = Waiting /\ near.task = Waiting
      BY <1>0 DEF Sent, Connections
    <2>4. \/ peer' = [peer EXCEPT ![p] = far] \/ peer' = [peer EXCEPT ![p] = near]
          \/ Goto(p, [pc |-> "compare", block |-> b]) /\ Height(b) = Height(chain)
          \/ Goto(p, Waiting)
      BY <1>4, Zenon DEF RefusedNewBlock
    <2> HIDE DEF far, near
    <2>5. CASE peer' = [peer EXCEPT ![p] = far] \/ peer' = [peer EXCEPT ![p] = near]
      BY <1>0, <2>2, <2>3, <2>5
    <2>6. CASE Goto(p, Waiting)
      BY <1>0, <2>2, <2>6 DEF Goto, Connections
    <2> QED
      BY <2>1, <2>4, <2>5, <2>6
  <1>5. CASE CompareTips(p)
    BY <1>0, <1>5 DEF CompareTips, Goto, Connections, Waiting
  <1>6. CASE OnNewBlock(p) \/ OnChainHeight(p) \/ OnBlocks(p)
    <2>1. CASE OnNewBlock(p)
      <3> DEFINE b == Head(peer[p].inbox).block
                 r1 == Taken(p, Waiting)
                 r2 == Sent([Taken(p, Waiting) EXCEPT !.height = Height(b)], Chunk(node.height, Height(b)))
                 r3 == Taken(p, [pc |-> "check", block |-> b])
      <3>1. r1.task.pc = "select" /\ r2.task.pc = "select" /\ r3.task.pc = "check"
        BY <1>0 DEF Taken, Sent, Connections, Waiting
      <3>2. \/ peer' = [peer EXCEPT ![p] = r1] \/ peer' = [peer EXCEPT ![p] = r2]
            \/ peer' = [peer EXCEPT ![p] = r3]
        BY <2>1 DEF OnNewBlock, Skip
      <3> HIDE DEF r1, r2, r3
      <3> QED  BY <1>0, <3>1, <3>2
    <2>2. CASE OnChainHeight(p)
      BY <1>0, <2>2 DEF OnChainHeight, Taken, Connections
    <2>3. CASE OnBlocks(p)
      <3> DEFINE batch == Head(peer[p].inbox)
                 r1 == Taken(p, Waiting)
                 r2 == Taken(p, [pc |-> "batch", batch |-> batch, next |-> batch.from, applied |-> 0])
                 r3 == Taken(p, [pc |-> "empty"])
      <3>1. r1.task.pc = "select" /\ r2.task.pc = "batch" /\ r3.task.pc = "empty"
        BY <1>0 DEF Taken, Connections, Waiting
      <3>2. \/ peer' = [peer EXCEPT ![p] = r1] \/ peer' = [peer EXCEPT ![p] = r2]
            \/ peer' = [peer EXCEPT ![p] = r3]
        BY <2>3 DEF OnBlocks, Skip
      <3> HIDE DEF r1, r2, r3
      <3> QED  BY <1>0, <3>1, <3>2
    <2> QED  BY <1>6, <2>1, <2>2, <2>3
  <1>7. CASE CheckNewBlock(p) \/ ApplyNewBlock(p) \/ PublishNewBlock(p) \/ CompeteForTip(p)
    BY <1>3, <1>7 DEF CheckNewBlock, ApplyNewBlock, PublishNewBlock, CompeteForTip, Waiting
  <1>8. CASE ClaimSlot(p) \/ InSync(p) \/ EndBatch(p) \/ EmptyBatch(p) \/ ReleaseSlot(p)
    <2>1. CASE ClaimSlot(p)
      <3> DEFINE r == Sent([peer[p] EXCEPT !.task = Waiting], Chunk(peer[p].task.ours, peer[p].height))
      <3>1. r.task.pc = "select"
        BY <1>0 DEF Sent, Connections, Waiting
      <3>2. Goto(p, Waiting) \/ peer' = [peer EXCEPT ![p] = r]
        BY <2>1 DEF ClaimSlot
      <3>3. Waiting.pc \notin {"compare", "compete"}
        BY DEF Waiting
      <3> HIDE DEF r
      <3> QED  BY <1>0, <1>3, <3>1, <3>2, <3>3
    <2>2. CASE InSync(p)
      BY <1>0, <2>2 DEF InSync, Goto, Connections, Waiting
    <2>3. CASE EndBatch(p)
      <3> DEFINE r == Sent([peer[p] EXCEPT !.task = Waiting], Chunk(Height(chain), peer[p].height))
      <3>1. r.task.pc = "select"
        BY <1>0 DEF Sent, Connections, Waiting
      <3>2. \/ peer' = [peer EXCEPT ![p] = r]
            \/ \E u \in {Waiting, [pc |-> "release", ours |-> Height(chain)]} : Goto(p, u)
        BY <2>3 DEF EndBatch
      <3>3. \A u \in {Waiting, [pc |-> "release", ours |-> Height(chain)]} : u.pc \notin {"compare", "compete"}
        BY DEF Waiting
      <3> HIDE DEF r
      <3> QED  BY <1>0, <1>3, <3>1, <3>2, <3>3
    <2>4. CASE EmptyBatch(p)
      BY <1>0, <2>4 DEF EmptyBatch, Goto, Connections
    <2>5. CASE ReleaseSlot(p)
      BY <1>0, <2>5 DEF ReleaseSlot, Goto, Connections, Waiting
    <2> QED  BY <1>8, <2>1, <2>2, <2>3, <2>4, <2>5
  <1>9. CASE ApplyOfBatch(p) \/ CacheOfBatch(p) \/ HandleFork(p)
    <2>1. peer[p].task.pc \in {"batch", "cache", "fork", "end"}
      BY <1>9 DEF ApplyOfBatch, CacheOfBatch, HandleFork
    <2>2. peer[p].task \in BatchTasks
      BY <2>1, BatchFacts
    <2>3. CASE ApplyOfBatch(p)
      BY <1>0, <2>2, <2>3 DEF ApplyOfBatch, Goto, Connections, BatchTasks
    <2>4. CASE CacheOfBatch(p)
      BY <1>0, <2>2, <2>4 DEF CacheOfBatch, Connections, BatchTasks
    <2>5. CASE HandleFork(p)
      <3>1. CASE NoReorg(p)
        BY <1>0, <2>2, <3>1 DEF NoReorg, Goto, Connections, BatchTasks, Waiting
      <3>2. ASSUME NEW a, RollBack(p, a) PROVE FALSE
        BY <1>0, <2>2, <3>2 DEF RollBack, Connections, BatchTasks
      <3>3. ASSUME NEW fp, Reorganise(p, peer[p].task.batch, fp) PROVE FALSE
        BY <1>0, <2>2, <3>3 DEF Reorganise, Connections, BatchTasks, Waiting
      <3> QED  BY <2>5, <3>1, <3>2, <3>3, ForkOutcomes
    <2> QED  BY <1>9, <2>3, <2>4, <2>5
  <1>10. CASE CloseConnection(p)
    BY <1>0, <1>10 DEF CloseConnection, Connections
  <1>11. CASE TickProgress(p) \/ TickStall(p) \/ TickResend(p) \/ DropConnection(p)
    <2>1. CASE TickProgress(p)
      BY <1>0, <2>1 DEF TickProgress, Connections
    <2>2. CASE TickResend(p)
      BY <1>0, <2>2 DEF TickResend, Sent, Connections
    <2>3. CASE TickStall(p)
      BY <1>0, <2>3 DEF TickStall, Connections
    <2>4. CASE DropConnection(p)
      BY <1>0, <2>4 DEF DropConnection, Connections
    <2> QED  BY <1>11, <2>1, <2>2, <2>3, <2>4
  <1>12. CASE Connect(p)
    BY <1>0, <1>12 DEF Connect, NewConnection, Waiting
  <1>13. CASE PeerReplies(p) \/ PeerReverts(p) \/ \E l \in Labels : PeerBlock(p, l)
    <2>1. CASE PeerReplies(p)
      BY <1>0, <2>1 DEF PeerReplies, Connections
    <2>2. ASSUME NEW l \in Labels, PeerBlock(p, l) PROVE Same
      BY <1>0, <2>2 DEF PeerBlock, Connections
    <2>3. CASE PeerReverts(p)
      BY <1>0, <2>3 DEF PeerReverts, Connections
    <2> QED  BY <1>13, <2>1, <2>2, <2>3
  <1>14. PeerStep(p) => Goal
    BY <1>4, <1>5, <1>6, <1>7, <1>8, <1>9, <1>10, <1>11, <1>12, <1>13 DEF PeerStep, Handle, Watchdog
  <1> QED
    BY <1>1, <1>2, <1>14, StepKinds

\* Ahead is kept by every step that gives no chain up.
LEMMA AheadStep ==
    ASSUME Base, Permits, Ahead, [Next]_vars, [\A p \in Peers : ~GivesUp(p)]_vars
    PROVE  Ahead'
  <1> SUFFICES ASSUME NEW p \in Peers, peer'[p].task.pc \in {"compare", "compete"}
               PROVE  LET t == peer'[p].task
                      IN  /\ t.pc = "compare" => Len(t.block) <= Len(chain')
                          /\ t.pc = "compete" => \/ Len(t.block) < Len(chain')
                                                 \/ Len(t.block) = Len(chain') /\ Lower(t.block, chain')
    BY DEF Ahead
  <1>1. Base'
    BY BaseStep
  <1>2. /\ chain \in Chains /\ Len(chain) \in Nat /\ chain' \in Chains /\ Len(chain') \in Nat
        /\ peer'[p].task.block \in Chains /\ Len(peer'[p].task.block) \in Nat
    <2>1. chain' \in Chains /\ peer'[p].task \in Tasks
      BY <1>1 DEF Base, Types, Connections
    <2>2. peer'[p].task.block \in Chains
      BY <2>1 DEF Tasks, Waiting, BlockTasks, CompeteTasks, HeightTasks, EmptyTasks, BatchTasks, Mined
    <2> QED  BY <2>1, <2>2, BaseFacts, ChainHeights
  <1>3. CASE chain' = chain
    BY <1>2, <1>3, CompareOrigin DEF Ahead
  <1>4. CASE chain' # chain
    <2>1. peer'[p].task = peer[p].task
      BY <1>4, CompareOrigin
    <2>2. CASE Len(chain') > Len(chain)
      BY <1>2, <2>1, <2>2 DEF Ahead
    <2>3. ASSUME NEW q \in Peers, Replaces(q) PROVE FALSE
      <3>1. q # p
        BY <2>1, <2>3 DEF Replaces
      <3>2. Holding(peer[q].task) /\ Holding(peer[p].task)
        BY <2>1, <2>3 DEF Replaces, CompeteForTip, Holding
      <3> QED  BY <3>1, <3>2 DEF Permits
    <2>4. \A q \in Peers : ~GivesUp(q)
      BY <1>4 DEF vars
    <2> QED  BY <1>4, <2>2, <2>3, <2>4, ChainStep
  <1> QED  BY <1>3, <1>4

NoneGivenUp == [][\A p \in Peers : ~GivesUp(p)]_vars
ChainAlwaysImproves == [][chain' # chain => Better(chain', chain)]_vars

\* As long as no chain is given up, the chain is replaced only by a longer one or
\* by a tip of lower hash: a comparison of hashes that is stale when the write
\* lock is taken does no harm, because the permit and the growth of the chain
\* leave nothing that the competing block could wrongly replace.
THEOREM ChainImprovesAlways == Spec /\ NoneGivenUp => ChainAlwaysImproves
  <1> DEFINE Kept == \A p \in Peers : ~GivesUp(p)
             Improves == chain' # chain => Better(chain', chain)
             Inv == Base /\ Permits /\ Ahead
  <1>1. Init => Inv
    <2> SUFFICES ASSUME Init PROVE Ahead
      BY InitBase
    <2> QED  BY DEF Init, NewConnection, Waiting, Ahead
  <1>2. Inv /\ [Next]_vars /\ [Kept]_vars => Inv'
    BY BaseStep, PermitsStep, AheadStep
  <1>3. Inv /\ [Next]_vars /\ [Kept]_vars => [Improves]_vars
    <2> SUFFICES ASSUME Inv, [Next]_vars, [Kept]_vars, chain' # chain PROVE Better(chain', chain)
      OBVIOUS
    <2>1. Kept
      BY DEF vars
    <2>2. ASSUME NEW p \in Peers, Replaces(p) PROVE Better(chain', chain)
      <3> DEFINE t == peer[p].task
      <3>1. t \in CompeteTasks /\ t.pc = "compete"
        BY <2>2, TaskFacts DEF Replaces, CompeteForTip, Base
      <3>2. t.block \in Mined /\ chain \in Mined
        BY <2>2, <3>1, BaseFacts DEF CompeteTasks, Replaces, Mined
      <3>3. Len(t.block) = Len(chain) /\ Len(chain) \in Nat
        BY <2>2, <3>2, SiblingHeights, ParentType DEF Replaces
      <3>4. Lower(t.block, chain)
        BY <3>1, <3>3 DEF Ahead
      <3> QED  BY <2>2, <3>3, <3>4 DEF Replaces, Better, Height
    <2>3. Len(chain') > Len(chain) => Better(chain', chain)
      BY DEF Better, Height
    <2> QED  BY <2>1, <2>2, <2>3, ChainStep
  <1> QED
    BY <1>1, <1>2, <1>3, PTL DEF Spec, NoneGivenUp, ChainAlwaysImproves

=============================================================================

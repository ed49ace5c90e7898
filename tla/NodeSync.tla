------------------------------ MODULE NodeSync ------------------------------
(***************************************************************************)
(* Block download, block gossip and reorganisation in the node             *)
(* (taron-node/src/node.rs): one task per peer connection, the IBD slot,   *)
(* its watchdog, the block semaphore, the cached height that decisions are *)
(* taken from, and blocks mined by the pool or by the miner threads of the *)
(* same process.  An action is what a task does under one lock.            *)
(*                                                                         *)
(* A hash commits to everything before it, so a block is the sequence of   *)
(* its ancestors' labels followed by its own: its index is the length, its *)
(* parent the front, and a chain is its tip.  Labels order hashes.  What   *)
(* applying a block does to ledger and difficulty is in Blockchain.        *)
(***************************************************************************)
EXTENDS Integers, Sequences, SequencesExt, FiniteSetsExt

CONSTANTS
    Peers, NoPeer,
    Labels,             \* of blocks, in the order of their hashes
    OurChain,           \* what the node starts from
    PeerChains,         \* what the peers start from
    Unappliable,        \* blocks the node's ledger refuses
    Silent,             \* peers that may stop answering
    Checkpoints,        \* heights of CHECKPOINTS
    IBD_CHUNK_SIZE,     \* 25
    REORG_LIMIT,        \* 10, how far a fork request goes back and a reorg may go
    DEEP_LEAD,          \* 5, lead of a chain for which any depth is allowed
    ANCHOR_LEAD,        \* 10, lead that makes the node give up its branch
    RECOVERY_LEAD,      \* 50, lead that makes it roll back without a fork
    YOUNG_HEIGHT,       \* 200
    ANNOUNCED_LEAD,     \* 300
    MaxHeight,          \* bound on chains
    MaxEvents           \* bound on templates, blocks of peers, lost and new connections, resends

ASSUME SyncAssumption ==
    /\ NoPeer \notin Peers /\ Labels \subseteq Nat
    /\ OurChain \in Seq(Labels) /\ PeerChains \in [Peers -> Seq(Labels)]
    /\ Silent \subseteq Peers /\ Checkpoints \subseteq Nat
    /\ MaxHeight \in Nat /\ MaxEvents \in Nat
    /\ Len(OurChain) <= MaxHeight /\ \A p \in Peers : Len(PeerChains[p]) <= MaxHeight
    /\ IBD_CHUNK_SIZE \in Nat \ {0} /\ REORG_LIMIT \in Nat /\ YOUNG_HEIGHT \in Nat
    /\ {DEEP_LEAD, ANCHOR_LEAD, RECOVERY_LEAD} \subseteq Nat
    /\ DEEP_LEAD < ANCHOR_LEAD /\ ANCHOR_LEAD < IBD_CHUNK_SIZE /\ IBD_CHUNK_SIZE < RECOVERY_LEAD

VARIABLES
    chain,      \* Blockchain, behind its lock
    node,       \* ibd_peer, block_semaphore, chain_height, max_seen_height, sync_ready
    peer,       \* per peer: the connection, the remote end, the locals of its task
    work,       \* the template being mined
    events      \* what is spent of MaxEvents

vars == <<chain, node, peer, work, events>>

Waiting == [pc |-> "select"]
NoBlock == <<>>

Height(b) == Len(b)
Parent(b) == Front(b)
Ancestor(b, height) == SubSeq(b, 1, height)
Links(b, tip) == Height(b) > 0 /\ Parent(b) = tip
\* A mined block has a lower hash than genesis, which was not mined.
Lower(b, c) == c = <<>> \/ Last(b) < Last(c)
Least(i, j) == IF i < j THEN i ELSE j
Most(i, j) == IF i > j THEN i ELSE j

\* apply_block and apply_block_ibd, as far as the chain is concerned.
Applies(b, tip) == Links(b, tip) /\ b \notin Unappliable

-----------------------------------------------------------------------------
(* Messages                                                                *)

GetChainHeight == [type |-> "GetChainHeight"]
GetBlocks(from, to) == [type |-> "GetBlocks", from |-> from, to |-> to]

\* blocks_range of the chain c; the batch is empty when from > to.
BlocksRange(c, from, to) ==
    [type |-> "Blocks", tip |-> c, from |-> from, to |-> Least(to, Height(c))]

\* What the remote end with chain c answers.
Reply(request, c) ==
    IF request.type = "GetChainHeight"
    THEN [type |-> "ChainHeight", height |-> Height(c)]
    ELSE BlocksRange(c, request.from, request.to)

Chunk(ourHeight, target) ==
    GetBlocks(ourHeight + 1, Least(ourHeight + IBD_CHUNK_SIZE, target))

Up(p) == peer[p].conn = "up"
Receives(p, type) ==
    /\ Up(p) /\ peer[p].task = Waiting
    /\ peer[p].inbox # <<>> /\ Head(peer[p].inbox).type = type

\* The peer's record when its task took a message and goes on as task.
Taken(p, task) == [peer[p] EXCEPT !.inbox = Tail(@), !.task = task]
Sent(r, request) == [r EXCEPT !.asked = Append(@, request)]

Skip(p) == /\ peer' = [peer EXCEPT ![p] = Taken(p, Waiting)]
           /\ UNCHANGED <<chain, node, work, events>>

\* Another peer drives IBD.
Excluded(p) == node.slot \notin {NoPeer, p}

-----------------------------------------------------------------------------
(* NewBlock                                                                *)

\* Up to the permit everything is decided from the cached height.
OnNewBlock(p) ==
    LET b == Head(peer[p].inbox).block
        ours == node.height
    IN  /\ Receives(p, "NewBlock")
        /\ IF Excluded(p) THEN Skip(p)
           ELSE IF Height(b) > ours + 1
           THEN /\ peer' = [peer EXCEPT ![p] =
                     Sent([Taken(p, Waiting) EXCEPT !.height = Height(b)], Chunk(ours, Height(b)))]
                /\ node' = [node EXCEPT !.maxSeen = Most(@, Height(b)), !.ready = FALSE]
                /\ UNCHANGED <<chain, work, events>>
           ELSE IF Height(b) < ours \/ node.permit # NoPeer THEN Skip(p)
           ELSE /\ node' = [node EXCEPT !.permit = p]
                /\ peer' = [peer EXCEPT ![p] = Taken(p, [pc |-> "check", block |-> b])]
                /\ UNCHANGED <<chain, work, events>>

Goto(p, task) == peer' = [peer EXCEPT ![p].task = task]

\* Height and tip are read under the read lock, the block is applied later.
CheckNewBlock(p) ==
    LET b == peer[p].task.block
    IN  /\ peer[p].task.pc = "check"
        /\ Goto(p, [pc |-> IF Height(b) <= Height(chain) THEN "refused" ELSE "apply", block |-> b])
        /\ UNCHANGED <<chain, node, work, events>>

ApplyNewBlock(p) ==
    LET b == peer[p].task.block
    IN  /\ peer[p].task.pc = "apply"
        /\ chain' = IF Applies(b, chain) THEN b ELSE chain
        /\ Goto(p, [pc |-> IF Applies(b, chain) THEN "publish" ELSE "refused", block |-> b])
        /\ UNCHANGED <<node, work, events>>

\* Mutant: the cache gets the height of the next block.
PublishNext(p) ==
    /\ peer[p].task.pc = "publish"
    /\ node' = [node EXCEPT !.height = Height(peer[p].task.block) + 1, !.permit = NoPeer]
    /\ Goto(p, Waiting)
    /\ UNCHANGED <<chain, work, events>>

\* The caches follow after the locks are gone; then the state is saved, the
\* mempool purged and the block relayed, and the permit falls.
PublishNewBlock(p) ==
    /\ peer[p].task.pc = "publish"
    /\ node' = [node EXCEPT !.height = Height(peer[p].task.block), !.permit = NoPeer]
    /\ Goto(p, Waiting)
    /\ UNCHANGED <<chain, work, events>>

ForkStart(ours) == IF ours > REORG_LIMIT THEN ours - REORG_LIMIT ELSE 1

RefusedNewBlock(p) ==
    LET b == peer[p].task.block
        ours == Height(chain)
        free == [node EXCEPT !.permit = NoPeer]
    IN  /\ peer[p].task.pc = "refused"
        /\ IF Height(b) > ours + 1
           THEN /\ peer' = [peer EXCEPT ![p] =
                     Sent([@ EXCEPT !.height = Height(b), !.task = Waiting], Chunk(ours, Height(b)))]
                /\ node' = [free EXCEPT !.maxSeen = Most(@, Height(b)), !.ready = FALSE]
           ELSE IF Height(b) = ours + 1
           THEN /\ peer' = [peer EXCEPT ![p] =
                     Sent([@ EXCEPT !.task = Waiting], GetBlocks(ForkStart(ours), Height(b)))]
                /\ node' = free
           ELSE IF Height(b) = ours
           THEN /\ Goto(p, [pc |-> "compare", block |-> b])
                /\ UNCHANGED node
           ELSE /\ Goto(p, Waiting)
                /\ node' = free
        /\ UNCHANGED <<chain, work, events>>

\* The tip is read with a lock of its own, after the height.
CompareTips(p) ==
    LET b == peer[p].task.block
    IN  /\ peer[p].task.pc = "compare"
        /\ IF Lower(b, chain)
           THEN /\ Goto(p, [pc |-> "compete", block |-> b, tip |-> chain])
                /\ UNCHANGED node
           ELSE /\ Goto(p, Waiting)
                /\ node' = [node EXCEPT !.permit = NoPeer]
        /\ UNCHANGED <<chain, work, events>>

\* The tip is reverted, and applied again if the other block does not apply.  That
\* this may fail as well is ignored: the chain is then without its tip, and the
\* caches keep the height and the hash of the block that is gone.
AfterRevert(b) == IF Applies(b, Parent(chain)) THEN {b} ELSE {chain, Parent(chain)}

\* Under the write lock, with height and tip read before it.
CompeteForTip(p) ==
    LET b == peer[p].task.block
        parent == Height(b) - 1
        linked == /\ chain # <<>> /\ Height(chain) >= parent
                  /\ Ancestor(chain, parent) = Parent(b)
    IN  /\ peer[p].task.pc = "compete"
        /\ chain' \in IF linked THEN AfterRevert(b) ELSE {chain}
        /\ node' = [node EXCEPT !.permit = NoPeer,
                                !.height = IF linked /\ Applies(b, Parent(chain)) THEN Height(b) ELSE @]
        /\ Goto(p, Waiting)
        /\ UNCHANGED <<work, events>>

-----------------------------------------------------------------------------
(* ChainHeight                                                             *)

OnChainHeight(p) ==
    LET h == Head(peer[p].inbox).height
    IN  /\ Receives(p, "ChainHeight")
        /\ node' = [node EXCEPT !.maxSeen = Most(@, h)]
        /\ peer' = [peer EXCEPT ![p] =
             [Taken(p, [pc |-> IF h > Height(chain) THEN "claim" ELSE "in_sync", ours |-> Height(chain)])
                EXCEPT !.height = h]]
        /\ UNCHANGED <<chain, work, events>>

ClaimSlot(p) ==
    /\ peer[p].task.pc = "claim"
    /\ IF Excluded(p)
       THEN Goto(p, Waiting) /\ UNCHANGED node
       ELSE /\ node' = [node EXCEPT !.slot = p, !.ready = FALSE]
            /\ peer' = [peer EXCEPT ![p] =
                 Sent([@ EXCEPT !.task = Waiting], Chunk(peer[p].task.ours, peer[p].height))]
    /\ UNCHANGED <<chain, work, events>>

\* A node that was ready and is in sync stays so.
InSync(p) ==
    LET ours == peer[p].task.ours
        idle == node.slot = NoPeer
    IN  /\ peer[p].task.pc = "in_sync"
        /\ node' = [node EXCEPT !.ready = idle /\ ours >= node.maxSeen]
        /\ Goto(p, Waiting)
        /\ UNCHANGED <<chain, work, events>>

-----------------------------------------------------------------------------
(* Blocks                                                                  *)

\* The slot is given back; a node that is ready already becomes not ready.
Released(ours) ==
    [node EXCEPT !.slot = NoPeer, !.ready = ours >= node.maxSeen /\ ~node.ready]

OnBlocks(p) ==
    LET batch == Head(peer[p].inbox)
    IN  /\ Receives(p, "Blocks")
        /\ IF Excluded(p) THEN Skip(p)
           ELSE IF batch.from > batch.to
           THEN /\ peer' = [peer EXCEPT ![p] = Taken(p, [pc |-> "empty"])]
                /\ UNCHANGED <<chain, node, work, events>>
           ELSE /\ node' = [node EXCEPT !.maxSeen = Most(@, batch.to)]
                /\ peer' = [peer EXCEPT ![p] =
                     Taken(p, [pc |-> "batch", batch |-> batch, next |-> batch.from, applied |-> 0])]
                /\ UNCHANGED <<chain, work, events>>

\* The height is read and the slot cleared under locks of their own: by then
\* another peer may have claimed the slot.
EmptyBatch(p) ==
    /\ peer[p].task.pc = "empty"
    /\ Goto(p, [pc |-> "release", ours |-> Height(chain)])
    /\ UNCHANGED <<chain, node, work, events>>

ReleaseSlot(p) ==
    /\ peer[p].task.pc = "release"
    /\ node' = Released(peer[p].task.ours)
    /\ Goto(p, Waiting)
    /\ UNCHANGED <<chain, work, events>>

ApplyOfBatch(p) ==
    LET t == peer[p].task
        b == Ancestor(t.batch.tip, t.next)
    IN  /\ peer[p].task.pc = "batch"
        /\ chain' = IF Applies(b, chain) THEN b ELSE chain
        /\ Goto(p, [t EXCEPT !.pc = IF Applies(b, chain) THEN "cache" ELSE "fork"])
        /\ UNCHANGED <<node, work, events>>

CacheOfBatch(p) ==
    LET t == peer[p].task
    IN  /\ peer[p].task.pc = "cache"
        /\ node' = [node EXCEPT !.height = t.next]
        /\ peer' = [peer EXCEPT ![p].progress = t.next,
                                ![p].task = [t EXCEPT !.pc = IF t.next < t.batch.to THEN "batch" ELSE "end",
                                                      !.next = @ + 1, !.applied = @ + 1]]
        /\ UNCHANGED <<chain, work, events>>

\* The parent of the first block of the batch that links to our chain, 0 and up,
\* or NoFork.  A batch is contiguous, so walking back through it finds no more.
NoFork == -1
FindForkPoint(batch) ==
    LET linked == {i \in batch.from..batch.to :
                     i - 1 <= Height(chain) /\ Ancestor(chain, i - 1) = Ancestor(batch.tip, i - 1)}
    IN  IF linked = {} THEN NoFork ELSE Min(linked) - 1

CheckpointAtOrBelow(h) == Max({0} \cup {c \in Checkpoints : c <= h})
MayRevertTo(h) == h >= CheckpointAtOrBelow(Height(chain))

\* How far the batch applies on top of the fork point.
Reapplied(batch, fp) ==
    LET good == {i \in fp..batch.to : \A j \in fp + 1..i : Ancestor(batch.tip, j) \notin Unappliable}
    IN  Max(good)

Deepest(batch) == IF batch.to > Height(chain) + DEEP_LEAD THEN Height(chain) ELSE REORG_LIMIT

\* Where a fork makes the node go without a common ancestor, and with one that
\* is its own tip; NoFork when it stays.
AnchorWithout(p, batch) ==
    IF /\ batch.to > Height(chain) + ANCHOR_LEAD
       /\ \/ Height(chain) < YOUNG_HEIGHT
          \/ (IF peer[p].height = 0 THEN batch.to ELSE peer[p].height) > Height(chain) + ANNOUNCED_LEAD
    THEN IF Height(chain) < YOUNG_HEIGHT THEN 0 ELSE CheckpointAtOrBelow(Height(chain) - 1)
    ELSE NoFork

AnchorOfStall(p, batch) ==
    IF /\ peer[p].task.applied = 0 /\ batch.to > Height(chain) + RECOVERY_LEAD
       /\ Height(chain) > 0
    THEN CheckpointAtOrBelow(Height(chain) - 1) ELSE NoFork

RollBack(p, anchor) ==
    /\ chain' = Ancestor(chain, anchor)
    /\ node' = [node EXCEPT !.height = anchor]
    /\ peer' = [peer EXCEPT ![p].task = [@ EXCEPT !.pc = "end"]]

NoReorg(p) ==
    /\ Goto(p, IF peer[p].task.applied > 0 THEN [peer[p].task EXCEPT !.pc = "end"] ELSE Waiting)
    /\ UNCHANGED <<chain, node>>

\* Mutant: the length of the incoming chain is not looked at.
IsLongerAny(batch) == TRUE

IsLonger(batch) == batch.to > Height(chain)

\* Reverts to the fork point and applies the batch from there.  The cached
\* height moves with the blocks applied, not with those reverted.
Reorganise(p, batch, fp) ==
    LET top == Reapplied(batch, fp)
    IN  /\ chain' = Ancestor(batch.tip, top)
        /\ node' = [node EXCEPT !.height = IF top > fp THEN top ELSE @]
        /\ peer' = [peer EXCEPT ![p].progress = IF top > fp THEN top ELSE @,
                                ![p].task = IF top > fp \/ @.applied > 0
                                            THEN [@ EXCEPT !.pc = "end"] ELSE Waiting]

\* All of this is under one write lock, taken anew after the block failed.
HandleFork(p) ==
    LET batch == peer[p].task.batch
        fp == FindForkPoint(batch)
        anchor == IF fp = NoFork THEN AnchorWithout(p, batch)
                  ELSE IF fp = Height(chain) THEN AnchorOfStall(p, batch) ELSE NoFork
    IN  /\ peer[p].task.pc = "fork"
        /\ IF ~IsLonger(batch) THEN NoReorg(p)
           ELSE IF anchor # NoFork
           THEN IF MayRevertTo(anchor) THEN RollBack(p, anchor) ELSE NoReorg(p)
           ELSE IF fp # NoFork /\ Height(chain) - fp <= Deepest(batch) /\ MayRevertTo(fp)
           THEN Reorganise(p, batch, fp)
           ELSE NoReorg(p)
        /\ UNCHANGED <<work, events>>

\* After a batch that changed something: ask on, or give the slot back.
EndBatch(p) ==
    LET ours == Height(chain)
        h == peer[p].height
    IN  /\ peer[p].task.pc = "end"
        /\ IF h = 0 THEN Goto(p, Waiting)
           ELSE IF ours < h
           THEN peer' = [peer EXCEPT ![p] = Sent([@ EXCEPT !.task = Waiting], Chunk(ours, h))]
           ELSE Goto(p, [pc |-> "release", ours |-> ours])
        /\ UNCHANGED <<chain, node, work, events>>

-----------------------------------------------------------------------------
(* The ping timer: watchdog of the peer that drives IBD                    *)

Drives(p) ==
    /\ Up(p) /\ peer[p].task = Waiting
    /\ node.slot = p /\ node.height < peer[p].height

\* A tick that finds progress since the last one starts the 45 s again.
TickProgress(p) ==
    /\ Drives(p)
    /\ node.height > peer[p].progress
    /\ peer' = [peer EXCEPT ![p].progress = node.height]
    /\ UNCHANGED <<chain, node, work, events>>

TickResend(p) ==
    /\ Drives(p)
    /\ events < MaxEvents
    /\ events' = events + 1
    /\ peer' = [peer EXCEPT ![p] = Sent([@ EXCEPT !.progress = Most(peer[p].progress, node.height)],
                                        Chunk(node.height, peer[p].height))]
    /\ UNCHANGED <<chain, node, work>>

\* Mutant: an unchanged height counts as progress.
StalledBelow(p) == node.height < peer[p].progress

Stalled(p) == node.height <= peer[p].progress

\* 45 s without progress: the slot is released here, so CloseConnection asks nobody.
TickStall(p) ==
    /\ Drives(p)
    /\ Stalled(p)
    /\ node' = [node EXCEPT !.slot = NoPeer, !.ready = FALSE]
    /\ peer' = [peer EXCEPT ![p].conn = "closing", ![p].inbox = <<>>, ![p].asked = <<>>]
    /\ UNCHANGED <<chain, work, events>>

-----------------------------------------------------------------------------
(* End and beginning of a connection                                       *)

\* The remote end closes, a frame cannot be read, or nothing came for 120 s.
DropConnection(p) ==
    /\ Up(p) /\ peer[p].task = Waiting
    /\ events < MaxEvents
    /\ events' = events + 1
    /\ peer' = [peer EXCEPT ![p].conn = "closing", ![p].inbox = <<>>, ![p].asked = <<>>]
    /\ UNCHANGED <<chain, node, work>>

\* Mutant: the connection ends without looking at the slot.
HoldsNoSlot(p) == FALSE

HoldsSlot(p) == node.slot = p

\* A driver's task asks every remaining peer for its height.
CloseConnection(p) ==
    /\ peer[p].conn = "closing"
    /\ IF HoldsSlot(p)
       THEN /\ node' = [node EXCEPT !.slot = NoPeer, !.ready = FALSE]
            /\ peer' = [q \in Peers |->
                 IF q = p THEN [peer[p] EXCEPT !.conn = "down"]
                 ELSE IF Up(q) THEN Sent(peer[q], GetChainHeight) ELSE peer[q]]
       ELSE /\ peer' = [peer EXCEPT ![p].conn = "down"]
            /\ UNCHANGED node
    /\ UNCHANGED <<chain, work, events>>

NewConnection(c) ==
    [conn |-> "up", chain |-> c, inbox |-> <<>>, asked |-> <<GetChainHeight>>,
     height |-> 0, progress |-> node.height, task |-> Waiting]

Connect(p) ==
    /\ peer[p].conn = "down"
    /\ events < MaxEvents
    /\ events' = events + 1
    /\ peer' = [peer EXCEPT ![p] = NewConnection(@.chain)]
    /\ UNCHANGED <<chain, node, work>>

-----------------------------------------------------------------------------
(* Locally mined blocks                                                    *)

\* A template is made of the tip.
GetTemplate(l) ==
    /\ work = NoBlock /\ events < MaxEvents /\ Height(chain) < MaxHeight
    /\ work' = Append(chain, l)
    /\ events' = events + 1
    /\ UNCHANGED <<chain, node, peer>>

\* submit_mined_block, for the pool: refused when the cached height does not fit.
SubmitMinedBlock ==
    /\ work # NoBlock
    /\ work' = NoBlock
    /\ IF Height(work) = node.height + 1 /\ Applies(work, chain)
       THEN chain' = work /\ node' = [node EXCEPT !.height = Height(work)]
       ELSE UNCHANGED <<chain, node>>
    /\ UNCHANGED <<peer, events>>

\* A miner thread of taron node --mine applies its block itself.
ApplyOwnBlock ==
    /\ work # NoBlock
    /\ work' = NoBlock
    /\ chain' = IF Applies(work, chain) THEN work ELSE chain
    /\ UNCHANGED <<node, peer, events>>

-----------------------------------------------------------------------------
(* The remote ends                                                         *)

PeerReplies(p) ==
    /\ Up(p) /\ peer[p].asked # <<>>
    /\ peer' = [peer EXCEPT ![p].asked = Tail(@),
                            ![p].inbox = Append(@, Reply(Head(peer[p].asked), peer[p].chain))]
    /\ UNCHANGED <<chain, node, work, events>>

PeerBlock(p, l) ==
    LET b == Append(peer[p].chain, l)
    IN  /\ events < MaxEvents /\ Height(b) <= MaxHeight
        /\ events' = events + 1
        /\ peer' = [peer EXCEPT ![p].chain = b,
                                ![p].inbox = IF Up(p) THEN Append(@, [type |-> "NewBlock", block |-> b]) ELSE @]
        /\ UNCHANGED <<chain, node, work>>

\* The remote end is a node like this one, and gives up blocks as this one does: its
\* answer to a request may then be shorter than asked for, or empty.
PeerReverts(p) ==
    /\ events < MaxEvents /\ peer[p].chain # <<>>
    /\ events' = events + 1
    /\ peer' = [peer EXCEPT ![p].chain = Parent(@)]
    /\ UNCHANGED <<chain, node, work>>

-----------------------------------------------------------------------------

Init ==
    /\ chain = OurChain
    /\ node = [slot |-> NoPeer, permit |-> NoPeer, height |-> Height(OurChain),
               maxSeen |-> Height(OurChain), ready |-> FALSE]
    /\ peer = [p \in Peers |-> NewConnection(PeerChains[p])]
    /\ work = NoBlock
    /\ events = 0

Handle(p) ==
    \/ OnNewBlock(p) \/ CheckNewBlock(p) \/ ApplyNewBlock(p) \/ PublishNewBlock(p)
    \/ RefusedNewBlock(p) \/ CompareTips(p) \/ CompeteForTip(p)
    \/ OnChainHeight(p) \/ ClaimSlot(p) \/ InSync(p)
    \/ OnBlocks(p) \/ EmptyBatch(p) \/ ReleaseSlot(p)
    \/ ApplyOfBatch(p) \/ CacheOfBatch(p) \/ HandleFork(p) \/ EndBatch(p)
    \/ CloseConnection(p)

Watchdog(p) == TickProgress(p) \/ TickStall(p)

Next ==
    \/ \E p \in Peers :
        \/ Handle(p) \/ Watchdog(p) \/ TickResend(p)
        \/ DropConnection(p) \/ Connect(p) \/ PeerReplies(p) \/ PeerReverts(p)
        \/ \E l \in Labels : PeerBlock(p, l)
    \/ \E l \in Labels : GetTemplate(l)
    \/ SubmitMinedBlock \/ ApplyOwnBlock

Spec == Init /\ [][Next]_vars

\* Tasks run on, the ping timer goes off every 45 s, a connection that is up
\* delivers, and peers answer unless they are silent.
FairSpec ==
    /\ Spec
    /\ \A p \in Peers : WF_vars(Handle(p)) /\ WF_vars(Watchdog(p))
    /\ \A p \in Peers \ Silent : WF_vars(PeerReplies(p))

-----------------------------------------------------------------------------
(* Properties                                                              *)

TypeOK ==
    /\ chain \in Seq(Labels) /\ Height(chain) <= MaxHeight
    /\ node.slot \in Peers \cup {NoPeer} /\ node.permit \in Peers \cup {NoPeer}
    /\ node.height \in 0..MaxHeight /\ node.maxSeen \in 0..MaxHeight /\ node.ready \in BOOLEAN
    /\ \A p \in Peers :
         /\ peer[p].conn \in {"up", "closing", "down"}
         /\ peer[p].chain \in Seq(Labels)
         /\ peer[p].height \in 0..MaxHeight /\ peer[p].progress \in 0..MaxHeight
    /\ work \in Seq(Labels)

\* The IBD slot never belongs to a connection that is gone: its NewBlock and
\* Blocks filter would lock out every other peer for good.
SlotHolderIsConnected ==
    node.slot # NoPeer => peer[node.slot].conn # "down"

\* A peer that drives IBD brings the node to the height it announced or loses
\* the slot, silent, forked and slow peers included.
SlotIsTemporary ==
    \A p \in Peers :
        (node.slot = p /\ node.height < peer[p].height) ~>
            (node.slot # p \/ node.height >= peer[p].height)

Better(c, than) ==
    \/ Height(c) > Height(than)
    \/ Height(c) = Height(than) /\ Parent(c) = Parent(than) /\ Lower(c, than)

\* A tip that was reverted for a block that did not apply, and did not apply
\* again itself.
LosesTip(p) ==
    /\ peer[p].task.pc = "compete" /\ peer'[p].task # peer[p].task
    /\ ~Applies(peer[p].task.block, Parent(chain)) /\ chain' = Parent(chain)

\* The three ways in which the node gives its chain up: for the anchor of a peer
\* that is far ahead, for a branch with a block that turns out unappliable, and
\* one block of it for a competing tip.
GivesUp(p) ==
    \/ LosesTip(p)
    \/ /\ peer[p].task.pc = "fork" /\ peer'[p].task # peer[p].task
       /\ Height(chain') <= Height(chain)
       /\ LET batch == peer[p].task.batch
          IN  \/ batch.to > Height(chain) + ANCHOR_LEAD
              \/ \E i \in batch.from..batch.to : Ancestor(batch.tip, i) \in Unappliable

\* A competing block that was compared with another tip than it replaces: the
\* hashes are not compared again under the write lock.
Overtaken(p) ==
    /\ peer[p].task.pc = "compete" /\ peer'[p].task # peer[p].task
    /\ peer[p].task.tip # chain

\* Fork choice: whatever tasks and miners do between the reads and the writes of
\* a handler, the chain is replaced only by a longer one or by a tip of lower hash,
\* but for the cases in which the code gives it up or compared with another tip.
ChainOnlyImproves ==
    [][chain' # chain => \/ Better(chain', chain)
                         \/ \E p \in Peers : GivesUp(p) \/ Overtaken(p)]_vars

=============================================================================

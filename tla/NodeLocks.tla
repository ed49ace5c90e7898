------------------------------ MODULE NodeLocks ------------------------------
(***************************************************************************)
(* The locks of chain, ledger and mempool, in the order in which the       *)
(* message handlers (taron-node/src/node.rs), the RPC handlers (rpc.rs)    *)
(* and the miner threads of taron node --mine (taron-cli/src/main.rs) take *)
(* them.  A handler is the sequence of its lock operations, the longest of *)
(* its paths; leaving early only lets go of locks sooner.  Locks under     *)
(* which nothing else is awaited (peers, ibd_peer, known and discovered    *)
(* peers, best_hash, those of the finality manager) cannot close a circle  *)
(* and are left out.                                                       *)
(***************************************************************************)
EXTENDS Naturals, Sequences, SequencesExt, FiniteSets

CONSTANTS Tasks     \* bound: tasks running at a time

VARIABLES
    queue,  \* per lock: who holds or awaits it, and how, in the order of arrival
    task    \* the handler a task runs and its next operation

lockVars == <<queue, task>>

Locks == {"chain", "ledger", "mempool"}

Read(l) == [op |-> "read", lock |-> l]
Write(l) == [op |-> "write", lock |-> l]
Drop(l) == [op |-> "drop", lock |-> l]

-----------------------------------------------------------------------------
(* Sections of handlers                                                    *)

ReadChain == <<Read("chain"), Drop("chain")>>
ReadLedger == <<Read("ledger"), Drop("ledger")>>
ReadMempool == <<Read("mempool"), Drop("mempool")>>
WriteMempool == <<Write("mempool"), Drop("mempool")>>

\* apply_block or a revert: guards are dropped in reverse order.
WriteState == <<Write("chain"), Write("ledger"), Drop("ledger"), Drop("chain")>>

SaveState == ReadChain \o ReadLedger
SaveBoth == <<Read("chain"), Read("ledger"), Drop("ledger"), Drop("chain")>>

-----------------------------------------------------------------------------
(* Messages of peers                                                       *)

TxMessage == ReadLedger \o
             <<Write("mempool"), Write("ledger"), Drop("ledger"), Drop("mempool")>>
TxHashMessages == ReadMempool

\* Mutant: the ledger is locked before the chain.
NewBlockLedgerFirst ==
    ReadChain \o <<Write("ledger"), Write("chain"), Drop("chain"), Drop("ledger")>>
      \o ReadChain \o ReadLedger \o WriteMempool \o SaveState

NewBlockMessage ==
    ReadChain \o WriteState \o ReadChain \o ReadLedger \o WriteMempool \o SaveState

CompetingBlock ==
    ReadChain \o ReadChain \o ReadChain
      \o <<Write("chain"), Write("ledger"), Drop("chain"), Drop("ledger")>>
      \o SaveBoth \o WriteMempool

HeightMessages == ReadChain
BlocksMessage == WriteState \o WriteState \o ReadChain \o SaveBoth \o ReadChain

-----------------------------------------------------------------------------
(* RPC                                                                     *)

NodeStatus == ReadMempool
GetStatus == NodeStatus
GetBlocks == ReadChain
GetTxByHash == ReadChain \o ReadMempool
GetMempool == ReadMempool
GetAccounts == <<Read("ledger"), Read("chain"), Drop("chain"), Drop("ledger")>>
GetAccountByAddress == GetAccounts
GetBlockTxs == ReadChain
GetAccountTxs == ReadChain \o ReadMempool
GetAccountBlocks == ReadChain
GetSupplyHistory == ReadChain
SubmitTx == ReadLedger \o WriteMempool
SubmitMinedBlock ==
    <<Write("chain"), Write("ledger"), Drop("chain"), Drop("ledger")>> \o SaveState \o WriteMempool
SubmitBlock == SubmitMinedBlock

-----------------------------------------------------------------------------
(* Threads and tasks of taron node --mine                                  *)

MinerTemplate == <<Read("chain"), Read("mempool"), Drop("mempool"), Drop("chain")>>
MinerApply == <<Write("chain"), Write("ledger"), Write("mempool"),
                Drop("mempool"), Drop("ledger"), Drop("chain")>>
MinerStats == ReadChain
RelayMined == SaveState
PeriodicStatus == NodeStatus

Handlers ==
    {TxMessage, TxHashMessages, NewBlockMessage, CompetingBlock, HeightMessages, BlocksMessage,
     GetStatus, GetBlocks, GetTxByHash, GetMempool, GetAccounts, GetAccountByAddress,
     GetBlockTxs, GetAccountTxs, GetAccountBlocks, GetSupplyHistory, SubmitTx, SubmitBlock,
     MinerTemplate, MinerApply, MinerStats, RelayMined, PeriodicStatus}

\* The others lock chain before mempool before ledger.
OutOfOrder == {GetAccounts, GetAccountByAddress, MinerApply}

-----------------------------------------------------------------------------
(* tokio's RwLock: first come, first served                                *)

Idle == [handler |-> <<>>, next |-> 1]

NextOp(t) == task[t].handler[task[t].next]
Running(t) == task[t] # Idle
Queued(t, l) == \E i \in 1..Len(queue[l]) : queue[l][i].task = t

\* u came before t and they cannot share the lock.
Before(l, u, t) ==
    \E i, j \in 1..Len(queue[l]) :
        /\ i < j /\ queue[l][i].task = u /\ queue[l][j].task = t
        /\ "write" \in {queue[l][i].op, queue[l][j].op}

Blocks(u, t) ==
    /\ Running(t) /\ NextOp(t).op # "drop" /\ Queued(t, NextOp(t).lock)
    /\ Before(NextOp(t).lock, u, t)

Begin(t, h) ==
    /\ ~Running(t)
    /\ task' = [task EXCEPT ![t] = [handler |-> h, next |-> 1]]
    /\ UNCHANGED queue

Request(t) ==
    /\ Running(t) /\ NextOp(t).op # "drop" /\ ~Queued(t, NextOp(t).lock)
    /\ queue' = [queue EXCEPT ![NextOp(t).lock] = Append(@, [task |-> t, op |-> NextOp(t).op])]
    /\ UNCHANGED task

Advanced(t) ==
    IF task[t].next = Len(task[t].handler) THEN Idle ELSE [task[t] EXCEPT !.next = @ + 1]

Enter(t) ==
    /\ Running(t) /\ NextOp(t).op # "drop" /\ Queued(t, NextOp(t).lock)
    /\ \A u \in Tasks : ~Blocks(u, t)
    /\ task' = [task EXCEPT ![t] = Advanced(t)]
    /\ UNCHANGED queue

\* A guard that is dropped takes its task out of the queue.
PlaceOf(t, l) == CHOOSE i \in 1..Len(queue[l]) : queue[l][i].task = t
Without(t, l) == RemoveAt(queue[l], PlaceOf(t, l))

Leave(t) ==
    /\ Running(t) /\ NextOp(t).op = "drop"
    /\ queue' = [queue EXCEPT ![NextOp(t).lock] = Without(t, NextOp(t).lock)]
    /\ task' = [task EXCEPT ![t] = Advanced(t)]

LocksInit ==
    /\ queue = [l \in Locks |-> <<>>]
    /\ task = [t \in Tasks |-> Idle]

LocksNext == \E t \in Tasks :
    \/ \E h \in Handlers : Begin(t, h)
    \/ Request(t) \/ Enter(t) \/ Leave(t)

LocksSpec == LocksInit /\ [][LocksNext]_lockVars

-----------------------------------------------------------------------------
(* Properties                                                              *)

\* Each of S waits for another of S.
Stuck(S) == S # {} /\ \A t \in S : \E u \in S : Blocks(u, t)

\* Tasks that wait for each other for ever always include an account query of
\* the RPC, which locks ledger before chain, or a miner thread of the node,
\* which locks ledger before mempool; all other handlers agree on an order.
CirclesAreOutOfOrder ==
    \A S \in SUBSET Tasks : Stuck(S) => \E t \in S : task[t].handler \in OutOfOrder

=============================================================================

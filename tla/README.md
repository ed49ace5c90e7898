# A TLA+ verification project for Taron

Taron is a proof-of-work test network in Rust: a core crate (blocks, ledger,
difficulty, finality), a P2P node, a mining pool, a miner, a crypto crate and a
command line. This directory holds TLA+ models of its stateful parts, the TLC
runs that check them on small instances, and TLAPS proofs of the results that
hold for every instance. Paths below are relative to `src/crates/`.

## 1. Inventory

| Component | State | Operations | Interacts with | What is hard | What makes it correct |
|---|---|---|---|---|---|
| Block store (`taron-core/src/blockchain.rs`, `block.rs`) | RocksDB `b:<i>`, `meta:h`, `meta:d`, `meta:pd:<i>`; height and difficulty in memory | `apply_block`, `apply_block_ibd`, `revert_tip`, `revert_to_height`, `load_or_create` | calls the ledger; called by node, RPC and miner under write locks | several puts per operation and no batch; reorgs across difficulty boundaries; checkpoints | the stored blocks are one linked chain, the difficulty is the one they determine, checkpoints are kept |
| Ledger (`ledger.rs`, `genesis.rs`, `transaction.rs`) | account map; `ledger.bin` | `apply_tx`, `apply_tx_ibd`, `revert_tx`, `apply_coinbase`, `revert_coinbase`, `save`, `load_or_create_testnet`, `rebuild_from_chain` | changed by the block store, and by the node's Tx handler directly | failure in the middle of a block; saved at other times than the chain | it is what the chain's blocks produce |
| Finality (`taron-core/src/finality.rs`, `taron-node/src/finality.rs`) | pending and finalized maps, quorum, first-seen pairs | register, `record_ack`, `reject`, `cleanup_timeouts`, `update_quorum`, `check_double_spend`, `record`, `confirm` | Tx and TxAck handlers | late, duplicate ACKs; timeouts; quorum changes; concurrent handlers | final only by quorum, once; a verdict is never taken back |
| Peer table (`taron-node/src/peer.rs`, `node.rs`) | entries, per-IP counters, bans, attempts | `add_peer`, `remove_peer`, `penalize`, `track_connection_attempt`, reaper | accept loop, reconnect loop, a task per connection | check and use under different locks; entries removed twice, or by the task of an older connection | counters agree with the table, limits hold, nothing leaks |
| Block download and reorg (`node.rs` 775-1588) | IBD slot, cached heights, block semaphore, one task per connection | NewBlock, ChainHeight, Blocks, ping timer, `submit_mined_block` | chain, ledger, peers, miner | stale heights, hand-over of the slot, decisions before a lock and writes after it | the chain is only replaced by a better one, or given up in known ways; the slot is always released |
| Gossip and mempool (`node.rs` 917-984, `mempool.rs`) | mempool, first-seen pairs | Tx handler, `submit_tx`, `taron send`, removal by blocks | ledger, finality, miner | the ledger changes before a block exists | an acknowledged transaction was debited; of two conflicting ones only one is acknowledged |
| Locks (`node.rs`, `rpc.rs`, `taron-cli/src/main.rs`) | chain, ledger, mempool locks | all handlers | all | lock order, writers queue before later readers | no circular wait |
| RPC (`rpc.rs`) | rate-limit table | reads, `submit_tx`, `submit_block` | node | several locks per request | as gossip, download and locks |
| Pool (`taron-pool/src/main.rs`, `db.rs`) | template, round, found blocks, tables | `get_work`, `submit_share`, watcher, submitter | node RPC | one lock per field; round reset against late shares; answers lost | a round is of one template, payouts fit the reward, found blocks are submitted |
| Share checks (`dedup.rs`, `vardiff.rs`) | buckets of keys, difficulty per worker | `is_duplicate`, `on_share` | pool | a bucket is forgotten while a share is still valid | a share counts once, unless it is stamped ahead |
| Pool client (`taron-cli/src/main.rs` 340-620) | shared work, share channel | fetch, mine, post | pool | work ages while it travels | no nonce twice, threads follow the pool |
| Mining engine (`taron-miner/src/engine.rs`, `burst.rs`, `thermal.rs`) | flags, command channel, nonce, burst and thermal state | `start_async`, commands, mining loop, monitor | - | two loops on one channel, copied state | nonces differ, heat stops hashing, commands are taken |
| Crypto, hashes, wallet, discovery, other commands | none, or I/O only | - | - | - | - |

The hazards are listed with their lines under `hazards` in `PROJECT.json`.

## 2. Modules

| Module | Models |
|---|---|
| `U64`, `Ledger`, `Difficulty` | saturating arithmetic; ledger operations as operators on a ledger value; the difficulty step |
| `Blockchain` | the block store; one action per statement that writes |
| `BlockchainRestart` | `ledger.bin`, crash and restart around `Blockchain`; its properties |
| `ChainLog` | abstract specification: a log of blocks that asks for the work its own history determines |
| `Finality` | tracker, first-seen cache, Tx handlers as far as they use them |
| `PeerManager` | the peer table and every task that uses it |
| `NodeSync` | block download, gossip of blocks, fork choice, locally mined blocks |
| `NodeTx` | gossip of transactions, mempool, RPC submission, blocks with transactions (over `Ledger`) |
| `NodeLocks` | every handler as the sequence of its lock operations |
| `Pool` | rounds, template, found blocks, payouts, restart of the pool server |
| `TachyonGuard`, `VarDiff` | the duplicate buckets and the share difficulty, as operators |
| `PoolShares` | the checks of a share by concurrent handlers (over the two) |
| `PoolMiner` | `taron node --pool` against what the pool answers |
| `MiningEngine` | mining loops, burst controller and thermal governor of the library |
| `MC*` | instances for TLC |
| `*_proofs` | theorems and proofs (section 4) |

Definitions named in a comment as *Mutant* are deliberately wrong variants of
the definition that follows them. Nothing uses them in the models; replacing
the original by the variant makes a property fail, which shows that the property
depends on that code.

### Block store

`blocks`, `prevDiff` and `height` are the database, `difficulty` and `ledger`
the memory. `pc` names the next statement of the running operation, `cur` and
`todo` its block and the transactions left. Callers hold the write locks of
chain and ledger, so operations do not overlap; what can come between two
statements is the death of the process. Hashes are abstract identities; `sealed`,
`bits` and `signed` are the verdicts of hashing and signature checks.
`meta:d` is not a variable because loading always recomputes it. Early returns
before the coinbase is credited change nothing and are stuttering steps; so is a
failed timestamp check, as the clock is not modelled.

`BlockchainRestart` has two specifications: `CleanSpec` (stopped only after a
save) and `CrashSpec` (dies anywhere, and may find `ledger.bin` unreadable, as after
a change of its format). Under `CrashSpec` nothing is claimed of the ledger: an
older file is loaded as it is, and `rebuild_from_chain` replays coinbase rewards
only.

### Finality

One action per method: each takes one lock. The Tx handler takes several, so
`CheckDoubleSpend` and what follows from it (`RejectDoubleSpend`, `DropTx`,
`RecordSeen`) are separate and handlers interleave. In the node only
`check_double_spend`, `record_seen`, `reject`, `record_ack` and the status query
have callers; registering, timeouts and quorum updates are reached through the
library and its tests.

### Peer table

Each action is one critical section of the mutex. A task is `connecting`, `live`
or, for an accepted connection, `closing` while its writer stops. `stale` stands
for `last_seen` being over five minutes old; bans and the rate window use a clock.
`retain` is written as the removal of a prefix: attempts are appended in the order
of their times, and the lemma `RetainDropsPrefix` shows that the two agree.

### Block download

A block is the sequence of the labels from genesis to itself, so its length is
the index and its front the parent; labels order hashes. `peer[p]` has the
connection, the remote end's chain, the messages both ways and the locals of the
connection's task; its `task.pc` names the lock the task comes to next. What a
handler read before a lock (the height `ours`, the tip it compares hashes with) is
kept in the task and used as stale as the code uses it: for a refused block the
height, the tip's hash and the write lock are three lock operations, hence three
actions (`RefusedNewBlock`, `CompareTips`, `CompeteForTip`). `Lower` compares hashes;
genesis was not mined, so every mined block is lower than it. `node.height` is the cached atomic; `chain` is behind the lock. The
connection is TCP: it delivers in order, or closes. `HandleFork` is
`find_fork_point` with the three ways out of it: reorganise, roll back to an
anchor, or stay. A competing block that does not apply after the tip was reverted
leaves the tip or, since the failure to apply that one again is ignored, the chain
without it (`AfterRevert`); the caches keep what they showed. The end of a download is
two steps, reading the height and clearing the slot (`ReleaseSlot`), which clears it
whoever has it by then. The remote end is a node as well: it may give up blocks that it
has announced (`PeerReverts`), and then answers with fewer blocks or none.

### Transactions

The Tx handler is five steps: first-seen check, `apply_tx` on a copy of the ledger,
insertion into the mempool, whose lock it then keeps (`holder`), application and
ACK. Blocks apply their
transactions in a fold that stops at the first failure and takes nothing back,
as the code does. `debits` counts how often a transaction is in the ledger, and
`loose` tells whether a block came by `apply_block_ibd`, which skips the sequence
check, or a tip was reverted, which steps sequence numbers back.

### Locks

tokio's RwLock is a fair queue, so a reader waits behind an earlier writer. A
task runs any handler of `Handlers`, the longest path of each. A circle of waiting
tasks is possible in this code: `get_accounts` and the miner threads take two
locks in the opposite order to the others. `CirclesAreOutOfOrder` says that these
are the only causes: every set of tasks that wait for each other has one of them
in it.

### Pool

Every action is what a task does between two awaits. A share handler keeps the
template's read guard to its end, which is what orders it before the watcher's
write; the submitter reads `round_start` and the round in two steps, and a round
may begin between them.

Of the node the pool sees the status: `chain_height` and `best_hash`, two caches
(`node.rs` 220-245) that every task which changes the chain writes one after the other,
mostly after it has let go of the chain, each with its own block (`node.rs` 507-514,
1080-1085, 1336-1339), that a rollback lowers (1367, 1457), and that the threads of
`taron node --mine` do not write at all (`taron-cli/src/main.rs` 680-697). Instead of
the chain behind them the model lets the next write show any height or hash
(`StoreHeight`, `StoreHash`), which includes all of that. `SubmitBlock` and
`PublishFound` are the two writes of `submit_mined_block`, whose answer may be lost, and
which the RPC server may drop between the two. `PollHeight` and `PollHash` are the
two reads of a status.

`PoolShares` has the checks before a share is counted. The timestamp of a share is the
client's, up to `TS_WINDOW` behind the clock or ahead of it. `MAX_DELAY` bounds the time
between the timestamp check and the guard, where a handler only waits for the guard's
lock.

### Pool client and mining engine

`PoolMiner` has the fetching, mining and posting threads and an abstract pool.
In `MiningEngine` two calls of `start_async` before the first Start is handled give
two loops that share everything but their header; the model has both. Durations
and the PID controller are nondeterministic. `late` counts the hashes a loop starts
since the shared thermal state became critical.

## 3. Runs

| Run | Result | Shows |
|---|---|---|
| `MCBlockchain_clean` | pass | `TypeOK`, `DifficultyCanonical`, `LedgerIsReplay`, refinement of `ChainLog` |
| `MCBlockchain_crash` | pass | `LinkedHistory`, `CheckpointsHold`, `NeverBelowCheckpoint` with crashes anywhere and a rejected block |
| `MCFinality` | pass | `FinalByQuorum`, `PendingIsOpen`, `RejectedIsTerminal` |
| `MCPeerManager` | pass | `CountsExact`, `LimitsHold`, `AttemptsBounded`, `OrphansAreReaped` (liveness) |
| `MCNodeSync` | pass | `SlotHolderIsConnected`, `SlotIsTemporary` (liveness), `ChainOnlyImproves` |
| `MCNodeTx` | pass | `AckedIsDebited`, `OneOfConflictIsAcked` |
| `MCNodeTx_twice` | violation | a gossiped transaction is debited again by a block of a batch (`node.rs:952`, `blockchain.rs:363`, against `ledger.rs:14`) |
| `MCNodeLocks` | pass | `CirclesAreOutOfOrder` |
| `MCPool` | pass | `RoundIsOfTemplate`, `PayoutsWithinReward`, `FoundBlocksAreSubmitted`, `TemplateCatchesUp` (both liveness) |
| `MCPoolShares` | pass | `CreditedOnceUnlessAhead` |
| `MCPoolMiner` | pass | `NoneIsDuplicate`, `StaleOnOldHeightsOnly`, `ThreadsFollow` (liveness) |
| `MCMiningEngine` | pass | `FoundNoncesDiffer`, `CriticalStopsHashing`, `RunningHasLoop`, `CommandsAreHandled` (liveness) |

`ChainOnlyImproves` says that every replacement of the chain is by a longer one or
by a tip of lower hash, except for the named ways out of it: `GivesUp` (the
rollback to an anchor of a peer far ahead, a branch whose block turns out
unappliable after the revert, and a tip that was reverted and does not apply again)
and `Overtaken` (a competing block that was compared with a tip that is no longer
there). The second needs the first: see `ChainImprovesAlways` in section 4. It takes
three events and is beyond the bound of the run; the other ways out happen in it.

`SlotIsTemporary` is about a holder that has announced more than the node has: the
watchdog looks at no other (`node.rs:847`). Any other holder keeps the slot until a batch
of its own ends the download or its connection ends, and of that nothing is claimed.

`LimitsHold` is met with two addresses of one IP and a limit of two per IP, so only the
theorem `LimitsAlwaysHold` says anything about that limit.

`TemplateCatchesUp` is about the status: once the caches are written no more, the
template is on the hash the status shows, at a height not below the one it shows (a
height that has fallen is noticed only together with a new hash). Whether the status
shows the tip is another matter (section 5).

`CreditedOnceUnlessAhead` says that a share is credited again only when its timestamp
was ahead of the clock the first time and two bucket lifetimes have passed. Such a
second credit happens in the run.

Bounds.

* Block store: the block tree of the clean run has a window of 2 and reaches
  height 6, three boundaries, with timestamps that move the difficulty by each of
  -2..+2 and into the upper clamp, three branches, and payments that depend on
  each other; a reorg can cross two boundaries and return to a branch whose
  snapshots another branch has overwritten. The crash run needs height 3 only, one
  boundary with the checkpoint on it, and bounds balances (`BalancesBounded`)
  because a rejected block can be sent for ever.
* Finality: two transactions with one sequence number (conflict), three peers and
  quorums up to four, a clock long enough for one timeout.
* Peers: two addresses of one IP and the node's own address among the seeds, two
  tasks, limits of one per direction and two per IP, so a reaped connection and its
  successor coexist; a rate of one attempt and a clock of three instants let a ban
  begin and end.
* Download: the node is at height 1; one peer is on a fork three blocks longer and
  may fall silent, one extends the node's branch. The limits (10, 5, 10, 50, 200,
  300 in the code) are scaled so that both sides of their comparisons are met within
  height 5, except for `RECOVERY_LEAD` and `ANNOUNCED_LEAD`, which are out of reach;
  the order of the leads is that of the code and is assumed by name. Two events (lost
  or new connections, resends, new blocks, templates, blocks a peer gives up) come at any moment. There is no
  checkpoint in this run; reverting around one is checked in `MCBlockchain_crash`.
* Transactions: one sender, two conflicting payments and two more that conflict on
  the next sequence number, a forged one; two connections, one client, blocks of up to
  two transactions, chains of two blocks and five events.
* Locks: three tasks; a circle over three locks needs no more.
* Pool: two miners, two handlers, two requests, one miner with a plain share and one
  with a block, two heights and two hashes of the node, two writes of its caches besides
  those of submitted blocks, and one restart: the two values of a status can be torn,
  come back and fall, two miners share a payout, and a block of a later height is in the
  queue when an earlier one is accepted.
* Shares: bucket lifetime and timestamp window are two ticks, the delay one, so that a
  share enters a bucket in the middle of its time and the three buckets come round within
  the clock of six; one rig, two handlers and four requests.
* Miner: two threads, two heights, two parents, two hashes. Engine: two loops,
  three commands, two nonces, a fixed and an adaptive pattern.

Symmetry is used where tasks, handlers, peers or transactions are interchangeable
and no liveness is checked.

Fairness.

* `PeerManager`: time passes (an entry nobody refreshes turns stale), and the
  reaper, an endless loop of its own, runs; it waits for nothing but the table's
  mutex, which no task holds across an await.
* `NodeSync.FairSpec`: tasks go on, the ping timer fires, and peers answer unless
  they are in `Silent`. Nothing is assumed of lost connections or new blocks.
* `Pool.FairSpec`: the watcher and the submitter are loops, handlers run to their
  end, and the RPC answers or fails (its client has no timeout of its own). Nothing is
  assumed of miners, restarts, the node's caches or the network.
* `PoolMiner`: work is asked for every two seconds for ever (weak), and not all
  requests fail (strong, on storing the reply); threads look at the shared work
  between hashes.
* `MiningEngine`: loops go on (weak), and `select!` picks a ready branch at random,
  so a command is not passed over for ever (strong).

`CHECK_DEADLOCK FALSE` is set where a bound (heights, clock, events, requests) lets
the model stop, and in `NodeLocks`, where a circle of waiting tasks is what the
property describes.

## 4. Proofs

Assumptions are those of the named `ASSUME`s, which TLC evaluates on the instances:
constants have their types and numeric limits are in range; blocks are well formed;
sets of peers, addresses, miners and loops are finite; markers such as `NoFile`,
`NoPeer` and `NoWork` are not values of what they stand in for; the leads of
`NodeSync` are in the order of the code's numbers; the rate window is no longer than
a ban (60 s and one hour); the nonces of a pool client's run fit the parts its threads
start in; the time a share's timestamp may be behind and the delay together are at most two
bucket lifetimes (90 s and 2 x 60 s).

* `Ledger_proofs`: `RevertUndoesApply` and `RevertUndoesCoinbase`, a revert restores
  all holdings. The refund of a self-payment is the delicate case: the debit does not
  saturate because the balance was at least amount plus fee. The module also has what
  the next two need about recursive functions. The library's induction theorems take
  an operator and cannot be used, so `SetInduction` derives induction from
  well-foundedness (`WFMin`), with a set in place of the predicate, and `Recursion`
  the existence of the functions.
* `Blockchain_proofs`, in four parts.
  - Chain, with crashes: `LinkedHistoryAlways`, `CheckpointsAlwaysHold`,
    `NeverRevertsBelowCheckpoint` for `CrashSpec`; `TypeCorrect` for `Spec` and
    `TypesSurviveCrashes` for `CrashSpec`. The inductive invariant `Shape` joins the
    two invariants to `OperationState`: what is known at each `pc` about `cur`,
    `height` and `target`. It is needed because a block is validated several
    statements before it is written, and because a revert's target is compared with
    the checkpoints only once, at its start.
  - Difficulty, without crashes: `DifficultyAlwaysCanonical`, for any window and any
    tree of blocks. `History` says that every boundary of the chain has a snapshot of
    what the history below it determines, and which difficulty is in memory at each
    statement. The lemmas on `RecomputeDifficulty` (unchanged by a block above it, by
    a block within a window, one step more at a boundary) carry it.
  - Refinement: `BlockStoreImplementsLog`, `CleanSpec => ImplementsChainLog`. Writing
    the new height is the log's step, all other statements stutter; the required work
    of the log is the recomputed difficulty (`RequiredIsRecomputed`).
  - Ledger of the chain: `LedgerAlwaysReplay`. `LedgerState` gives the ledger at each
    statement as a partial replay (the first n transactions of the block on top of
    the chain below), and `SoundChain` that every stored block was applied in order,
    which is what makes its transactions revertible. The theorem is for behaviours in
    which no block is refused half way and no transaction of a batch skips a sequence
    number (`Orderly`): both are possible in the code (section 5) and break it. The
    run has the same restriction in its blocks.
* `NodeTx_proofs`: `TypeCorrect`, `AckedStaysDebited`, `OneConflictAcked`, over any
  ledger, transactions, peers and length of blocks. That an acknowledged transaction was
  debited is not inductive: a block that carries it may come and be reverted between
  the handler's locks, and each revert takes one debit back. `DebitsCount` counts:
  every transaction has at least one debit for each block of the chain that carries it,
  and one more when the handler has applied it (`Promised`). `PromisesStand` adds what the
  third needs: until a sequence number may fall (`loose`), the account is past the
  sequence number of whatever was promised, so `apply_tx` refuses the other one of two
  that conflict. What a block does to ledger and debits is a recursion over its
  transactions, followed one transaction at a time (`StrictIsRun` and the like).
* `Handlers_proofs`, about handlers that interleave in the node.
  - Finality: `TypesHold`, `FinalNeedsQuorum`, `PendingStaysOpen`,
    `RejectionIsTerminal`. The strengthening is `FiredIsTracked`: a transaction whose
    callback ran is in the finalized map, so it cannot be registered again with no ACKs.
  - Locks: `OrderPreventsCircles`, for any number of tasks. Every handler but three takes
    the locks in the order chain, mempool, ledger and lets go of all of them
    (`Ordered`, which holds of a concatenation of sections if it holds of each);
    `QueuesTell` says that a task in the queue of a lock holds it or asks for it next,
    and that whoever holds a lock is in its queue. In a circle of tasks that all keep the order, the one that waits for the
    highest lock would have to wait for a task that waits for a higher one.
* `PeerManager_proofs`: `CountersAgree`, `LimitsAlwaysHold`, `AttemptsAlwaysBounded`,
  `TypeCorrect`. The first two are not inductive alone: `add_peer` tests the per-IP
  limit on the counter, and the counter bounds the table only because it equals it.
  The third rests on `BanInv`: a list that is one over the limit belongs to an IP
  whose ban is no older than the attempts, or all its attempts are out of the window,
  so the next accepted attempt begins with an empty list. That needs the window to be
  no longer than the ban.
* `NodeSync_proofs`: `TypeCorrect`, `SlotAlwaysConnected`, `ChainNeverWorsens`,
  `ChainImprovesAlways`. `Base` joins the types to `DownIsIdle` (a connection that is
  down has no task under way) and the slot's holder; `Permits` says that at most one
  task is between taking and giving back the block permit, and that it is the holder;
  `Ahead` that a block about to compete is below the tip or lower than it, also when
  the tip has changed since. So, as long as the node gives no chain up, a
  comparison that is stale under the write lock does no harm. Both theorems cover the
  failure to apply a reverted tip again: the first names it among the exceptions, the
  second excludes it with the other ways of giving a chain up (`NoneGivenUp`).
* `Pool_proofs`, about the pool and its miners.
  - Pool: `TypeCorrect`, `RoundsAreOfTemplate`, `PayoutsAreCovered`. For the second,
    `HandlersMatch` is the strengthening: whoever holds the template's read guard has a
    share of this template, so the watcher's write comes before or after all of it. For
    the third, the amounts of a block are payouts of one round
    (`AmountsArePayouts`), and of one round no set of miners gets more than its part: a
    sum over a set is counted by as many grains (`SumIsCount`), so it does not depend
    on the order and a part of the miners has no more shares than all, and rounding
    down never adds. The hypothesis `FeesAreKeptBack` says that the fees of the payouts,
    which come on top, are within what the pool keeps: 158,500 fees of 1 out of the
    1 % of 15,850,000. The code does not check the number of miners in a round, so
    beyond it the reward alone would not do.
  - Miner threads: `MinerTypeCorrect`, `NoneIsEverDuplicate`, `StaleOnlyOnOldHeights`,
    for any number of threads. The parts of the nonce range are disjoint (`PartsInRow`)
    and no thread leaves its own; `NoncesDiffer` says that shares on their way have
    tried and different nonces that the pool does not know; `AllFresh` that work for
    the template's height was fetched after the template got it, wherever it is.
* `Shares_proofs`, from the loop that finds a share to the pool that credits it.
  - Engine: `RunningAlwaysHasLoop`, `CriticalAlwaysStopsHashing`,
    `FoundNoncesAlwaysDiffer`, `TypeCorrect`, for any number of loops and commands.
    `CooledDown` adds to the second what a loop's copy of the thermal state may still
    be; `NoncesDiffer` adds to the third that the nonces loops are hashing are below the
    counter, differ, and are not found yet; `Accounts` to the last that every nonce
    handed out has been counted or is being hashed.
  - Pool: `SharesCreditedOnceUnlessAhead`. `Holds` says in which bucket a key may be given
    the time it is remembered for; a rotation moves it one bucket on and takes one lifetime
    off (`RotateKeeps`). `Memory` says that the guard holds every share for two lifetimes
    after it passed; a share that was not ahead then is out of date by the end of them, and
    `Young` says that a share on its way to the guard is no older than the window and the
    delay. So one that passes again was ahead the first time.

Every safety property that a run expects to hold is the subject of a theorem. Only
model-checked is liveness (`SlotIsTemporary`, `OrphansAreReaped`,
`FoundBlocksAreSubmitted`, `TemplateCatchesUp`, `ThreadsFollow`, `CommandsAreHandled`),
which is out of the prover's reach. The models' bounds on heights, clocks and events
are constants and stay arbitrary in the theorems.

## 5. What the code does that its comments do not say

The run `MCNodeTx_twice` shows one disagreement. Others met while modelling, which
the models contain as they are and on which no property relies:

* A block rejected half way leaves the coinbase and the earlier transactions in the
  ledger (`blockchain.rs:303`; the comment says "atomic"). `LedgerIsReplay` is
  therefore stated for valid blocks.
* `revert_tx` steps the sequence back by one, `apply_tx_ibd` may have moved it
  further (`ledger.rs:252`, `blockchain.rs:156`).
* `revert_tip` deletes the block before it writes the height, so a crash leaves a
  tip without a block (`blockchain.rs:175`; `:108` expects it to exist), and the
  snapshot of a boundary can be missing after a crash.
* A transaction that is delivered twice is rejected as its own double spend, and
  the status Confirmed is overwritten (`node.rs:927`; `finality.rs:34` calls it
  final).
* Of two conflicting transactions both may be acknowledged, although "only first-seen
  wins" (`taron-core/src/finality.rs:15`): both are past the first-seen check, one is
  applied and acknowledged, a competing block replaces a tip of the same sender, which
  steps the sequence number back, and the other one applies as well.
  `OneOfConflictIsAcked` is therefore stated for as long as no tip was reverted. The
  attempt to prove it without that condition showed the case.
* The reaper frees the table's entry of a connection that lives on (`node.rs:404`),
  which is then not counted by the limit of `peer.rs:15`.
* The hash of a competing block is compared under a read lock (`node.rs:1156`) and
  not again under the write lock. When a batch makes the node give its chain up in
  between and the new tip has the same height and a lower hash, the competing block
  replaces the better tip (`Overtaken`).
* The IBD stall path clears the slot before the connection closes, so the other
  peers are not asked for their height; the next ChainHeight or NewBlock restarts
  the download.
* When a competing block does not apply after the tip was reverted, the tip is applied
  again and a failure of that is ignored (`node.rs:1207-1211`): the chain is one block
  shorter, and the cached height and hash still show the block that is gone.
* The status of the node need not show its tip: a task writes the hash of its own block
  after it has let go of the chain, so an older hash can be written last
  (`node.rs:514`, `:1085`); a `submit_block` request that is dropped between its writes
  leaves the old hash with the new height; a lost tip and the blocks of
  `taron node --mine` (`taron-cli/src/main.rs:680-697`) change neither. The pool then
  mines on a parent that is not the tip until the next block is published.
* A share stamped up to 90 s ahead is accepted (`taron-pool/src/main.rs:701`), so it is
  fresh for up to 180 s, and the duplicate guard remembers a share for 120 to 180 s,
  depending on when in its bucket's time it came; `dedup.rs:5` and `:42` speak of 180 s.
  Such a share can be credited twice.
* Rows of the payouts table stay when the node refuses the block (nothing but pages
  reads them, and they are not modelled).
* The share difficulty can panic in `clamp` below a block difficulty of 4
  (`vardiff.rs:71`).
* A mining thread of the pool client keeps the timestamp and parent of the first
  work of a height (`taron-cli/src/main.rs:502`), although the pool hands out newer
  ones.
* Two `start_async` calls before a Start is handled give two loops
  (`engine.rs:266`); `is_paused` survives Stop.

## 6. Not modelled

* Hashing, signatures, sequential proofs and the noise transport: computation, and
  the last is not used by the node. Blocks and transactions carry the verdicts.
* Byte streams: a `recv_message` that `select!` drops in the middle of a frame
  (`node.rs:826`) needs a model of frames that nothing else here needs.
* The relay of ACKs from node to node (`node.rs:1547`): one node is modelled.
* The RPC's rate limit: the server listens on the loopback address, which the
  limit exempts, so it never applies.
* Migrations from JSON files, state file for display, statistics of pool and miner,
  terminal interface, benchmarks, other commands: I/O and display.
* Code without a caller: `sync.rs`, `scoring.rs`, `discover_peers`, `clear_below`.

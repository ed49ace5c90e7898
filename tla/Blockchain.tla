----------------------------- MODULE Blockchain -----------------------------
(***************************************************************************)
(* The block store and its operations (taron-core/src/blockchain.rs,       *)
(* block.rs): apply_block, apply_block_ibd, revert_tip, revert_to_height.  *)
(* Whoever calls one of them holds the write locks of chain and ledger, so *)
(* one operation runs at a time; its steps are separate actions because    *)
(* the process can die between any two of them (BlockchainRestart).  The   *)
(* only enabled action of a running operation is its next statement.       *)
(*                                                                         *)
(* A block refused before the coinbase is credited changes nothing: those  *)
(* early returns are stuttering steps.  The clock is not modelled: the     *)
(* timestamp window of apply_block may pass or fail, and failing is such a *)
(* stuttering step.                                                        *)
(***************************************************************************)
EXTENDS Ledger, Difficulty, Sequences

CONSTANTS
    Blocks,              \* every block that can be received or mined
    Genesis,             \* Block::genesis()
    NoBlock,             \* block_at(i) = None
    Hashes,              \* block hashes
    MaxHeight,           \* bound: largest index of a member of Blocks
    Checkpoints,         \* CHECKPOINTS, a function from heights to hashes
    TESTNET_REWARD       \* the only reward a block may claim

Heights == 0..MaxHeight

\* The fields validation reads.  sealed: hash = hash_header(); bits: leading
\* zero bits of hash; signed: every transaction's signature verifies.
Block == [index : Heights, hash : Hashes, prev_hash : Hashes, timestamp : Nat,
          miner : Accounts, reward : Nat, transactions : Seq(Transaction),
          sealed : BOOLEAN, bits : Nat, signed : BOOLEAN]

\* "No snapshot under this key": difficulties are at least 1.
NoSnapshot == 0

ASSUME ChainAssumption ==
    /\ MaxHeight \in Nat
    /\ Blocks \subseteq Block
    /\ Genesis \in Blocks
    /\ Genesis.index = 0
    /\ NoBlock \notin Blocks
    /\ DOMAIN Checkpoints \subseteq Nat \ {0}
    /\ TESTNET_REWARD \in Nat

VARIABLES
    blocks,      \* RocksDB "b:<index>"
    prevDiff,    \* RocksDB "meta:pd:<boundary>": difficulty before a boundary
    height,      \* Blockchain.height; equals "meta:h" between any two steps
    difficulty,  \* Blockchain.difficulty
    ledger,      \* the Ledger behind the same locks
    pc,          \* next statement of the running operation, "idle" if none
    cur,         \* the block that operation applies or reverts
    ibd,         \* it runs apply_block_ibd, not apply_block
    todo,        \* number of its transactions not yet applied or reverted
    target       \* height revert_to_height goes down to; MaxHeight + 1 when
                 \* revert_tip was called on its own

chainVars == <<blocks, prevDiff, height, difficulty>>
vars == <<blocks, prevDiff, height, difficulty, ledger, pc, cur, ibd, todo, target>>

Steps == {"idle", "apply_tx", "put_block", "put_height", "put_prev_diff",
          "revert_tx", "delete_block", "put_height_down", "restore_difficulty",
          "revert_next"}

Alone == MaxHeight + 1

TypeOK ==
    /\ blocks \in [Heights -> Blocks \cup {NoBlock}]
    /\ prevDiff \in [Heights -> Difficulties \cup {NoSnapshot}]
    /\ height \in Heights
    /\ difficulty \in Difficulties
    /\ ledger \in Ledgers
    /\ pc \in Steps
    /\ cur \in Blocks
    /\ ibd \in BOOLEAN
    /\ todo \in 0..Len(cur.transactions)
    /\ target \in 0..Alone

-----------------------------------------------------------------------------
(* Difficulty adjustment                                                   *)

\* Time the window that ends at height h took.
WindowMs(bs, h) == SaturatingSub(bs[h].timestamp, bs[h - DAA_WINDOW].timestamp)

\* compute_next_difficulty() of a chain of height h at difficulty d.
ComputeNextDifficulty(bs, h, d) ==
    IF h < DAA_WINDOW THEN TESTNET_DIFFICULTY
                      ELSE AdjustDifficultyStep(d, WindowMs(bs, h))

-----------------------------------------------------------------------------
(* apply_block, apply_block_ibd                                            *)

\* Mutant: apply_block without the lookup in CHECKPOINTS.
MatchesCheckpointAny(b) == b.sealed

MatchesCheckpoint(b) ==
    b.index \in DOMAIN Checkpoints => b.hash = Checkpoints[b.index]

\* Mutant: the parent is recognised by its index only.
ValidateInnerAnyParent(b, prev, diff) ==
    b.index = prev.index + 1 /\ b.sealed /\ b.bits >= diff

\* Mutant: off by one in the comparison of the leading zeros.
ValidateInnerEasy(b, prev, diff) ==
    b.index = prev.index + 1 /\ b.prev_hash = prev.hash /\ b.sealed /\ b.bits + 1 >= diff

\* Block::validate_inner without the timestamp window.
ValidateInner(b, prev, diff) ==
    /\ b.index = prev.index + 1
    /\ b.prev_hash = prev.hash
    /\ b.sealed
    /\ b.bits >= diff

BeginApply(b, isIbd) ==
    /\ pc = "idle"
    /\ MatchesCheckpoint(b)
    /\ blocks[height] # NoBlock
    /\ ValidateInner(b, blocks[height], difficulty)
    /\ b.reward = TESTNET_REWARD
    /\ b.signed
    /\ ledger' = ApplyCoinbase(ledger, b.miner, b.reward)
    /\ pc' = "apply_tx"
    /\ cur' = b
    /\ ibd' = isIbd
    /\ todo' = Len(b.transactions)
    /\ UNCHANGED <<chainVars, target>>

ApplyBlock(b) == BeginApply(b, FALSE)
ApplyBlockIbd(b) == BeginApply(b, TRUE)

\* The transaction the loop is at, counting up.
NextTx == cur.transactions[Len(cur.transactions) - todo + 1]

Accepted(tx) == IF ibd THEN CanApplyTxIbd(ledger, tx) ELSE CanApplyTx(ledger, tx)

ApplyNextTx ==
    /\ pc = "apply_tx"
    /\ todo > 0
    /\ Accepted(NextTx)
    /\ ledger' = IF ibd THEN ApplyTxIbd(ledger, NextTx) ELSE ApplyTx(ledger, NextTx)
    /\ todo' = todo - 1
    /\ UNCHANGED <<chainVars, pc, cur, ibd, target>>

\* return Err(InvalidBlock) from inside the loop.
RejectTx ==
    /\ pc = "apply_tx"
    /\ todo > 0
    /\ ~Accepted(NextTx)
    /\ pc' = "idle"
    /\ UNCHANGED <<chainVars, ledger, cur, ibd, todo, target>>

TxsApplied ==
    /\ pc = "apply_tx"
    /\ todo = 0
    /\ pc' = "put_block"
    /\ UNCHANGED <<chainVars, ledger, cur, ibd, todo, target>>

PutBlock ==
    /\ pc = "put_block"
    /\ blocks' = [blocks EXCEPT ![cur.index] = cur]
    /\ pc' = "put_height"
    /\ UNCHANGED <<prevDiff, height, difficulty, ledger, cur, ibd, todo, target>>

PutHeight ==
    /\ pc = "put_height"
    /\ height' = cur.index
    /\ pc' = IF IsBoundary(cur.index) THEN "put_prev_diff" ELSE "idle"
    /\ UNCHANGED <<blocks, prevDiff, difficulty, ledger, cur, ibd, todo, target>>

\* The new difficulty is computed, then the old one is snapshot and the new
\* one put under meta:d, which loading never trusts (BlockchainRestart).
PutPrevDiff ==
    /\ pc = "put_prev_diff"
    /\ difficulty' = ComputeNextDifficulty(blocks, height, difficulty)
    /\ prevDiff' = [prevDiff EXCEPT ![height] = difficulty]
    /\ pc' = "idle"
    /\ UNCHANGED <<blocks, height, ledger, cur, ibd, todo, target>>

-----------------------------------------------------------------------------
(* revert_tip, revert_to_height                                            *)

\* Start of revert_tip: genesis is never reverted, tip() must exist.
BeginRevert ==
    /\ height > 0
    /\ blocks[height] # NoBlock
    /\ pc' = "revert_tx"
    /\ cur' = blocks[height]
    /\ todo' = Len(blocks[height].transactions)
    /\ UNCHANGED <<chainVars, ledger, ibd>>

RevertTip ==
    /\ pc = "idle"
    /\ target' = Alone
    /\ BeginRevert

\* Mutant: a checkpoint at the tip itself does not count as passed.
RevertToHeightTip(t) ==
    /\ pc = "idle"
    /\ \A c \in DOMAIN Checkpoints : c < height => c <= t
    /\ pc' = "revert_next"
    /\ target' = t
    /\ UNCHANGED <<chainVars, ledger, cur, ibd, todo>>

\* Never below a checkpoint the chain has already passed.
RevertToHeight(t) ==
    /\ pc = "idle"
    /\ \A c \in DOMAIN Checkpoints : c <= height => c <= t
    /\ pc' = "revert_next"
    /\ target' = t
    /\ UNCHANGED <<chainVars, ledger, cur, ibd, todo>>

\* while self.height > target_height { self.revert_tip(ledger)? }
RevertNext ==
    /\ pc = "revert_next"
    /\ height > target
    /\ UNCHANGED target
    /\ BeginRevert

\* At genesis the difficulty is forced back to its first value.
RevertDone ==
    /\ pc = "revert_next"
    /\ height <= target
    /\ difficulty' = IF height = 0 THEN TESTNET_DIFFICULTY ELSE difficulty
    /\ pc' = "idle"
    /\ UNCHANGED <<blocks, prevDiff, height, ledger, cur, ibd, todo, target>>

\* Transactions in reverse order, then the coinbase.
RevertNextTx ==
    /\ pc = "revert_tx"
    /\ todo > 0
    /\ ledger' = RevertTx(ledger, cur.transactions[todo])
    /\ todo' = todo - 1
    /\ UNCHANGED <<chainVars, pc, cur, ibd, target>>

RevertReward ==
    /\ pc = "revert_tx"
    /\ todo = 0
    /\ ledger' = RevertCoinbase(ledger, cur.miner, cur.reward)
    /\ pc' = "delete_block"
    /\ UNCHANGED <<chainVars, cur, ibd, todo, target>>

DeleteBlock ==
    /\ pc = "delete_block"
    /\ blocks' = [blocks EXCEPT ![height] = NoBlock]
    /\ pc' = "put_height_down"
    /\ UNCHANGED <<prevDiff, height, difficulty, ledger, cur, ibd, todo, target>>

AfterRevert == IF target = Alone THEN "idle" ELSE "revert_next"

PutHeightDown ==
    /\ pc = "put_height_down"
    /\ height' = height - 1
    /\ pc' = IF IsBoundary(height) THEN "restore_difficulty" ELSE AfterRevert
    /\ UNCHANGED <<blocks, prevDiff, difficulty, ledger, cur, ibd, todo, target>>

\* Mutant: the snapshot is never read, the difficulty always recomputed.
RestoreDifficultyCompute ==
    /\ pc = "restore_difficulty"
    /\ difficulty' = ComputeNextDifficulty(blocks, height, difficulty)
    /\ pc' = AfterRevert
    /\ UNCHANGED <<blocks, prevDiff, height, ledger, cur, ibd, todo, target>>

\* Databases without the snapshot fall back to computing a difficulty.
RestoreDifficulty ==
    /\ pc = "restore_difficulty"
    /\ difficulty' = IF prevDiff[height + 1] # NoSnapshot
                     THEN prevDiff[height + 1]
                     ELSE ComputeNextDifficulty(blocks, height, difficulty)
    /\ pc' = AfterRevert
    /\ UNCHANGED <<blocks, prevDiff, height, ledger, cur, ibd, todo, target>>

-----------------------------------------------------------------------------
Init ==
    /\ blocks = [h \in Heights |-> IF h = 0 THEN Genesis ELSE NoBlock]
    /\ prevDiff = [h \in Heights |-> NoSnapshot]
    /\ height = 0
    /\ difficulty = TESTNET_DIFFICULTY
    /\ ledger = NewTestnet
    /\ pc = "idle"
    /\ cur = Genesis
    /\ ibd = FALSE
    /\ todo = 0
    /\ target = Alone

Next ==
    \/ \E b \in Blocks : ApplyBlock(b) \/ ApplyBlockIbd(b)
    \/ ApplyNextTx \/ RejectTx \/ TxsApplied
    \/ PutBlock \/ PutHeight \/ PutPrevDiff
    \/ RevertTip
    \/ \E t \in Heights : RevertToHeight(t)
    \/ RevertNext \/ RevertDone
    \/ RevertNextTx \/ RevertReward \/ DeleteBlock \/ PutHeightDown
    \/ RestoreDifficulty

Spec == Init /\ [][Next]_vars

=============================================================================

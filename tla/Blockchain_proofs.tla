-------------------------- MODULE Blockchain_proofs --------------------------
(***************************************************************************)
(* Theorems about the block store.  Type correctness is proved for the     *)
(* operations (Spec) and for CrashSpec, where the process may die between  *)
(* any two statements; what holds of the stored chain is proved for        *)
(* CrashSpec.  The second half is about the history: the difficulty and    *)
(* the ledger are those that a replay of the stored blocks gives, and the  *)
(* block store implements the abstract log of ChainLog.                    *)
(***************************************************************************)
EXTENDS BlockchainRestart, Ledger_proofs

-----------------------------------------------------------------------------
(* The stored chain                                                        *)

Applying == {"apply_tx", "put_block", "put_height"}
Reverting == {"revert_tx", "delete_block", "put_height_down"}

ShapeTypes ==
    /\ blocks \in [Heights -> Blocks \cup {NoBlock}]
    /\ height \in Heights
    /\ pc \in Steps
    /\ cur \in Blocks
    /\ target \in 0..Alone

\* What a running operation relies on: the block being applied was checked
\* against the tip that is still the tip; the block being reverted is not
\* genesis; the boundary whose snapshot is read is the one just left.
OperationState ==
    /\ pc \in Applying =>
          /\ blocks[height] # NoBlock
          /\ cur.index = height + 1
          /\ cur.prev_hash = blocks[height].hash
          /\ MatchesCheckpoint(cur)
    /\ pc = "put_height" => blocks[cur.index] = cur
    /\ pc \in Reverting => height > 0
    /\ pc = "restore_difficulty" => height + 1 \in Heights

\* revert_to_height stays above every checkpoint it had passed.
RevertTarget ==
    pc \in Reverting \cup {"restore_difficulty", "revert_next"} /\ target # Alone =>
        /\ \A c \in DOMAIN Checkpoints : c <= height => c <= target
        /\ pc \in Reverting => height > target

Shape ==
    /\ ShapeTypes
    /\ blocks[0] = Genesis
    /\ LinkedHistory
    /\ CheckpointsHold
    /\ OperationState

\* The bounds are numbers, and genesis and checkpoints are where they belong.
LEMMA HeightFacts ==
    /\ MaxHeight \in Nat /\ 0 \in Heights /\ Heights \subseteq Nat
    /\ Genesis \in Blocks /\ Genesis.index = 0 /\ NoBlock \notin Blocks
    /\ DOMAIN Checkpoints \subseteq Nat \ {0}
    /\ \A b \in Blocks : b.index \in Heights
BY ChainAssumption DEF Heights, Block

\* A new chain has the shape.
LEMMA InitShape == Init => Shape
BY HeightFacts DEF Init, Shape, ShapeTypes, LinkedHistory, CheckpointsHold,
    OperationState, Applying, Reverting, Steps, Alone

\* A step that leaves the blocks, the height and the current block alone and
\* moves to a statement that relies on no more keeps the shape.
LEMMA ShapeKept ==
    ASSUME Shape, blocks' = blocks, height' = height, cur' = cur,
           pc' \in Steps, target' \in 0..Alone,
           pc' \in Applying => pc \in Applying /\ pc' # "put_height",
           pc' \in Reverting => pc \in Reverting,
           pc' # "restore_difficulty"
    PROVE  Shape'
BY DEF Shape, ShapeTypes, LinkedHistory, CheckpointsHold, OperationState,
       MatchesCheckpoint, Applying, Reverting

\* Every statement keeps the shape.
LEMMA ShapeStep == Shape /\ [Next]_vars => Shape'
<1> SUFFICES ASSUME Shape, [Next]_vars PROVE Shape'
  OBVIOUS
<1> USE HeightFacts
<1>1. ASSUME NEW b \in Blocks, NEW i \in BOOLEAN, BeginApply(b, i) PROVE Shape'
  <2>1. blocks[height].index = height
    BY <1>1 DEF Shape, ShapeTypes, LinkedHistory, BeginApply, Heights
  <2>2. OperationState'
    BY <1>1, <2>1 DEF BeginApply, ValidateInner, OperationState, chainVars,
        MatchesCheckpoint, Applying, Reverting
  <2> QED
    BY <1>1, <2>2 DEF BeginApply, chainVars, Shape, ShapeTypes, LinkedHistory,
        CheckpointsHold, Steps
<1>2. CASE ApplyNextTx
  BY <1>2, ShapeKept DEF ApplyNextTx, chainVars, Shape, ShapeTypes, Applying, Reverting
<1>3. CASE RejectTx
  BY <1>3, ShapeKept DEF RejectTx, chainVars, Shape, ShapeTypes, Applying, Reverting, Steps
<1>4. CASE TxsApplied
  BY <1>4, ShapeKept DEF TxsApplied, chainVars, Shape, ShapeTypes, Applying, Reverting, Steps
<1>5. CASE PutBlock
  <2>1. cur.index = height + 1 /\ height + 1 \in Heights
    BY <1>5 DEF PutBlock, Shape, ShapeTypes, OperationState, Applying
  <2>2. \A h \in 0..height : blocks'[h] = blocks[h]
    BY <1>5, <2>1 DEF PutBlock, Shape, ShapeTypes, Heights
  <2>3. LinkedHistory' /\ CheckpointsHold'
    BY <1>5, <2>2 DEF PutBlock, Shape, ShapeTypes, LinkedHistory, CheckpointsHold, Heights
  <2>4. OperationState'
    BY <1>5, <2>1, <2>2 DEF PutBlock, Shape, ShapeTypes, OperationState, Applying,
        Reverting, MatchesCheckpoint, Heights
  <2> QED
    BY <1>5, <2>1, <2>2, <2>3, <2>4 DEF PutBlock, Shape, ShapeTypes, Steps, Heights
<1>6. CASE PutHeight
  <2>1. /\ cur.index = height + 1 /\ height' = height + 1 /\ height + 1 \in Heights
        /\ blocks[height + 1] = cur /\ blocks[height] # NoBlock
        /\ cur.prev_hash = blocks[height].hash /\ MatchesCheckpoint(cur)
    BY <1>6 DEF PutHeight, Shape, ShapeTypes, OperationState, Applying
  <2>2. LinkedHistory'
    BY <1>6, <2>1 DEF PutHeight, Shape, ShapeTypes, LinkedHistory, Heights
  <2>3. CheckpointsHold'
    BY <1>6, <2>1 DEF PutHeight, Shape, ShapeTypes, CheckpointsHold, MatchesCheckpoint, Heights
  <2> QED
    BY <1>6, <2>1, <2>2, <2>3 DEF PutHeight, Shape, ShapeTypes, OperationState, Steps,
        Applying, Reverting
<1>7. CASE PutPrevDiff
  BY <1>7, ShapeKept DEF PutPrevDiff, Shape, ShapeTypes, Applying, Reverting, Steps
<1>8. ASSUME BeginRevert, target' \in 0..Alone PROVE Shape'
  BY <1>8 DEF BeginRevert, chainVars, Shape, ShapeTypes, LinkedHistory, CheckpointsHold,
      OperationState, Applying, Reverting, Steps
<1>9. CASE RevertTip
  BY <1>8, <1>9 DEF RevertTip, Alone
<1>10. ASSUME NEW t \in Heights, RevertToHeight(t) PROVE Shape'
  <2>1. t \in 0..Alone
    BY DEF Heights, Alone
  <2> QED
    BY <1>10, <2>1, ShapeKept DEF RevertToHeight, chainVars, Shape, ShapeTypes, Applying,
        Reverting, Steps
<1>11. CASE RevertNext
  BY <1>8, <1>11 DEF RevertNext, Shape, ShapeTypes
<1>12. CASE RevertDone
  BY <1>12, ShapeKept DEF RevertDone, Shape, ShapeTypes, Applying, Reverting, Steps
<1>13. CASE RevertNextTx
  BY <1>13, ShapeKept DEF RevertNextTx, chainVars, Shape, ShapeTypes, Applying, Reverting
<1>14. CASE RevertReward
  BY <1>14, ShapeKept DEF RevertReward, chainVars, Shape, ShapeTypes, Applying, Reverting, Steps
<1>15. CASE DeleteBlock
  <2>1. height > 0 /\ \A h \in 0..height - 1 : blocks'[h] = blocks[h]
    BY <1>15 DEF DeleteBlock, Shape, ShapeTypes, OperationState, Reverting, Heights
  <2>2. blocks'[height] = NoBlock
    BY <1>15 DEF DeleteBlock, Shape, ShapeTypes
  <2>3. LinkedHistory' /\ CheckpointsHold'
    BY <1>15, <2>1, <2>2 DEF DeleteBlock, Shape, ShapeTypes, LinkedHistory, CheckpointsHold, Heights
  <2> QED
    BY <1>15, <2>1, <2>2, <2>3 DEF DeleteBlock, Shape, ShapeTypes, OperationState, Applying,
        Reverting, Steps, Heights
<1>16. CASE PutHeightDown
  <2>1. height > 0 /\ height' = height - 1 /\ height - 1 \in Heights
    BY <1>16 DEF PutHeightDown, Shape, ShapeTypes, OperationState, Reverting, Heights
  <2>2. LinkedHistory' /\ CheckpointsHold'
    BY <1>16, <2>1 DEF PutHeightDown, Shape, ShapeTypes, LinkedHistory, CheckpointsHold, Heights
  <2> QED
    BY <1>16, <2>1, <2>2 DEF PutHeightDown, Shape, ShapeTypes, OperationState, Applying,
        Reverting, Steps, AfterRevert, Heights
<1>17. CASE RestoreDifficulty
  BY <1>17, ShapeKept DEF RestoreDifficulty, AfterRevert, Shape, ShapeTypes, Applying, Reverting, Steps
<1>18. CASE UNCHANGED vars
  BY <1>18 DEF vars, Shape, ShapeTypes, LinkedHistory, CheckpointsHold, OperationState,
      MatchesCheckpoint
<1> QED
  BY <1>1, <1>2, <1>3, <1>4, <1>5, <1>6, <1>7, <1>9, <1>10, <1>11, <1>12, <1>13, <1>14,
     <1>15, <1>16, <1>17, <1>18 DEF Next, ApplyBlock, ApplyBlockIbd

\* A restart forgets the running operation and keeps the disk.
LEMMA RestartShape == Shape /\ Restart => Shape'
BY HeightFacts DEF Restart, Shape, ShapeTypes, LinkedHistory, CheckpointsHold,
    OperationState, Applying, Reverting, Steps, Alone

\* Crashes anywhere keep it, too: it is about the database only.
LEMMA CrashShape == CrashSpec => []Shape
<1>1. RestartInit => Shape
  BY InitShape DEF RestartInit
<1>2. Shape /\ [CrashNext]_allVars => Shape'
  <2> SUFFICES ASSUME Shape, [CrashNext]_allVars PROVE Shape'
    OBVIOUS
  <2>1. CASE Operation
    BY <2>1, ShapeStep DEF Operation
  <2>2. CASE SaveLedger \/ FormatChange
    BY <2>2, ShapeStep DEF SaveLedger, FormatChange
  <2>3. CASE Restart
    BY <2>3, RestartShape
  <2>4. CASE UNCHANGED allVars
    BY <2>4, ShapeStep DEF allVars
  <2> QED
    BY <2>1, <2>2, <2>3, <2>4 DEF CrashNext
<1> QED
  BY <1>1, <1>2, PTL DEF CrashSpec

(***************************************************************************)
(* Whatever is applied and reverted and wherever the process dies, every   *)
(* block below the tip is stored and the stored blocks are one chain.      *)
(***************************************************************************)
THEOREM LinkedHistoryAlways == CrashSpec => []LinkedHistory
<1>1. Shape => LinkedHistory
  BY DEF Shape
<1> QED
  BY <1>1, CrashShape, PTL

(***************************************************************************)
(* A block at a checkpoint height is part of the chain only with the       *)
(* checkpoint's hash, through every reorg and crash.                       *)
(***************************************************************************)
THEOREM CheckpointsAlwaysHold == CrashSpec => []CheckpointsHold
<1>1. Shape => CheckpointsHold
  BY DEF Shape
<1> QED
  BY <1>1, CrashShape, PTL

\* A revert under way stays above the checkpoint it was compared with.
LEMMA RevertTargetStep == Shape /\ RevertTarget /\ [Next]_vars => RevertTarget'
<1> SUFFICES ASSUME Shape, RevertTarget, [Next]_vars PROVE RevertTarget'
  OBVIOUS
<1> USE HeightFacts DEF RevertTarget, Reverting, Shape, ShapeTypes
<1>1. ASSUME NEW b \in Blocks, NEW i \in BOOLEAN, BeginApply(b, i) PROVE RevertTarget'
  BY <1>1 DEF BeginApply
<1>2. CASE ApplyNextTx \/ RejectTx \/ TxsApplied \/ PutBlock \/ PutHeight \/ PutPrevDiff
  BY <1>2 DEF ApplyNextTx, RejectTx, TxsApplied, PutBlock, PutHeight, PutPrevDiff
<1>3. CASE RevertTip
  BY <1>3 DEF RevertTip, BeginRevert
<1>4. ASSUME NEW t \in Heights, RevertToHeight(t) PROVE RevertTarget'
  BY <1>4 DEF RevertToHeight, chainVars
<1>5. CASE RevertNext
  BY <1>5 DEF RevertNext, BeginRevert, chainVars
<1>6. CASE RevertDone
  BY <1>6 DEF RevertDone
<1>7. CASE RevertNextTx \/ RevertReward \/ DeleteBlock
  BY <1>7 DEF RevertNextTx, RevertReward, DeleteBlock, chainVars
<1>8. CASE PutHeightDown
  <2>1. \A c \in DOMAIN Checkpoints : c <= height - 1 => c <= height
    OBVIOUS
  <2> QED
    BY <1>8, <2>1 DEF PutHeightDown, AfterRevert
<1>9. CASE RestoreDifficulty
  BY <1>9 DEF RestoreDifficulty, AfterRevert
<1>10. CASE UNCHANGED vars
  BY <1>10 DEF vars
<1> QED
  BY <1>1, <1>2, <1>3, <1>4, <1>5, <1>6, <1>7, <1>8, <1>9, <1>10
  DEF Next, ApplyBlock, ApplyBlockIbd

\* Only PutHeightDown lowers the height, by one, and only while above target.
LEMMA HeightFalls ==
    Shape /\ RevertTarget /\ [CrashNext]_allVars =>
        [target # Alone /\ height' < height
            => \A c \in DOMAIN Checkpoints : c <= height => c <= height']_allVars
<1> SUFFICES ASSUME Shape, RevertTarget, [CrashNext]_allVars,
                    target # Alone, height' < height,
                    NEW c \in DOMAIN Checkpoints, c <= height
             PROVE  c <= height'
  OBVIOUS
<1> USE HeightFacts DEF Shape, ShapeTypes
<1>1. height' # height
  OBVIOUS
<1>2. ~ UNCHANGED allVars /\ ~ SaveLedger /\ ~ FormatChange /\ ~ Restart
  BY <1>1 DEF allVars, vars, SaveLedger, FormatChange, Restart
<1>3. Next
  BY <1>2 DEF CrashNext, Operation
<1>4. PutHeightDown \/ PutHeight
  BY <1>1, <1>3 DEF Next, ApplyBlock, ApplyBlockIbd, BeginApply, ApplyNextTx, RejectTx,
      TxsApplied, PutBlock, PutPrevDiff, RevertTip, RevertToHeight, RevertNext, BeginRevert,
      RevertDone, RevertNextTx, RevertReward, DeleteBlock, RestoreDifficulty, chainVars
<1>5. ~ PutHeight
  BY DEF PutHeight, OperationState, Applying
<1>6. PutHeightDown
  BY <1>4, <1>5
<1>7. height > target /\ c <= target
  BY <1>6 DEF PutHeightDown, RevertTarget, Reverting
<1>8. height' = height - 1 /\ target \in Nat /\ c \in Nat
  BY <1>6 DEF PutHeightDown, Alone
<1> QED
  BY <1>7, <1>8

(***************************************************************************)
(* revert_to_height never takes the chain below a checkpoint it has passed *)
(* ("Never revert below a checkpoint we have already passed",              *)
(* blockchain.rs:201), crashes included.                                   *)
(***************************************************************************)
THEOREM NeverRevertsBelowCheckpoint == CrashSpec => NeverBelowCheckpoint
<1>1. RestartInit => Shape /\ RevertTarget
  BY InitShape DEF RestartInit, Init, RevertTarget, Reverting
<1>2. Shape /\ RevertTarget /\ [CrashNext]_allVars => Shape' /\ RevertTarget'
  <2> SUFFICES ASSUME Shape, RevertTarget, [CrashNext]_allVars PROVE Shape' /\ RevertTarget'
    OBVIOUS
  <2>1. CASE [Next]_vars
    BY <2>1, ShapeStep, RevertTargetStep
  <2>2. CASE Restart
    BY <2>2, RestartShape DEF Restart, RevertTarget, Reverting
  <2> QED
    BY <2>1, <2>2 DEF CrashNext, Operation, SaveLedger, FormatChange, allVars
<1>3. Shape /\ RevertTarget /\ [CrashNext]_allVars =>
        [target # Alone /\ height' < height
            => \A c \in DOMAIN Checkpoints : c <= height => c <= height']_allVars
  BY HeightFalls
<1> QED
  BY <1>1, <1>2, <1>3, PTL DEF CrashSpec, NeverBelowCheckpoint

-----------------------------------------------------------------------------
(* Type correctness                                                        *)

\* The fields of a block.
LEMMA BlockFields ==
    ASSUME NEW b \in Blocks
    PROVE  /\ b.index \in Heights /\ b.timestamp \in Nat /\ b.miner \in Accounts
           /\ b.reward \in Nat /\ b.transactions \in Seq(Transaction)
           /\ Len(b.transactions) \in Nat
           /\ \A i \in 1..Len(b.transactions) : b.transactions[i] \in Transaction
<1>1. b \in Block
  BY ChainAssumption
<1>2. b.transactions \in Seq(Transaction)
  BY <1>1 DEF Block
<1> QED
  BY <1>1, <1>2 DEF Block

\* A step of the adjustment stays within the limits,
LEMMA AdjustType ==
    ASSUME NEW d \in Difficulties, NEW ms
    PROVE  AdjustDifficultyStep(d, ms) \in Difficulties
<1> DEFINE goal == TARGET_BLOCK_MS * DAA_WINDOW
           step == CASE 0 < ms /\ ms < goal \div 4                   -> d + 2
                     [] ms = 0 \/ (goal \div 4 <= ms /\ ms < goal)   -> d + 1
                     [] goal < ms /\ ms <= 4 * goal                  -> SaturatingSub(d, 1)
                     [] 4 * goal < ms                                -> SaturatingSub(d, 2)
                     [] OTHER                                        -> d
<1>1. d + 2 \in Nat /\ d + 1 \in Nat /\ SaturatingSub(d, 1) \in Nat
      /\ SaturatingSub(d, 2) \in Nat /\ d \in Nat
  BY DifficultyAssumption DEF Difficulties, SaturatingSub
<1>2. step \in Nat
  BY <1>1
<1>3. \A n \in Nat : ClampDifficulty(n) \in Difficulties
  BY DifficultyAssumption DEF ClampDifficulty, Difficulties
<1> QED
  BY <1>2, <1>3 DEF AdjustDifficultyStep

\* and so does the next difficulty.
LEMMA NextDifficultyType ==
    ASSUME NEW bs, NEW h, NEW d \in Difficulties
    PROVE  ComputeNextDifficulty(bs, h, d) \in Difficulties
BY AdjustType, DifficultyAssumption DEF ComputeNextDifficulty

\* The types hold in a new chain,
LEMMA InitType == Init => TypeOK
<1> SUFFICES ASSUME Init PROVE TypeOK
  OBVIOUS
<1>1. Genesis \in Blocks /\ MaxHeight \in Nat /\ 0 \in Heights
  BY ChainAssumption DEF Heights
<1>2. Len(Genesis.transactions) \in Nat
  BY <1>1, BlockFields
<1> QED
  BY <1>1, <1>2, NewTestnetType, DifficultyAssumption
  DEF Init, TypeOK, Heights, Alone, Steps, NoSnapshot

\* and after every statement.
LEMMA NextType == TypeOK /\ Shape /\ [Next]_vars => TypeOK'
<1> SUFFICES ASSUME TypeOK, Shape, [Next]_vars PROVE TypeOK'
  OBVIOUS
<1> USE DEF TypeOK
<1>0. /\ MaxHeight \in Nat
      /\ cur.index \in Heights /\ cur.miner \in Accounts /\ cur.reward \in Nat
      /\ Len(cur.transactions) \in Nat
      /\ \A i \in 1..Len(cur.transactions) : cur.transactions[i] \in Transaction
      /\ todo \in Nat
  BY ChainAssumption, BlockFields
<1>1. ASSUME NEW b \in Blocks, NEW i \in BOOLEAN, BeginApply(b, i) PROVE TypeOK'
  <2>1. ledger' \in Ledgers
    BY <1>1, BlockFields, CreditType DEF BeginApply, ApplyCoinbase
  <2>2. Len(b.transactions) \in 0..Len(b.transactions)
    BY BlockFields
  <2> QED
    BY <1>1, <2>1, <2>2 DEF BeginApply, chainVars, Steps
<1>2. CASE ApplyNextTx
  <2>1. NextTx \in Transaction
      <3>1. Len(cur.transactions) - todo + 1 \in 1..Len(cur.transactions)
      BY <1>0, <1>2 DEF ApplyNextTx
    <3> QED
      BY <1>0, <3>1 DEF NextTx
  <2>2. ledger[NextTx.sender].balance >= TotalCost(NextTx)
    BY <1>2 DEF ApplyNextTx, Accepted, CanApplyTx, CanApplyTxIbd
  <2>3. ledger' \in Ledgers
    BY <1>2, <2>1, <2>2, ApplyTxType DEF ApplyNextTx
  <2> QED
    BY <1>0, <1>2, <2>3 DEF ApplyNextTx, chainVars
<1>3. CASE RejectTx \/ TxsApplied
  BY <1>3 DEF RejectTx, TxsApplied, chainVars, Steps
<1>4. CASE PutBlock
  BY <1>0, <1>4 DEF PutBlock, Steps
<1>5. CASE PutHeight
  BY <1>0, <1>5 DEF PutHeight, Steps
<1>6. CASE PutPrevDiff
  BY <1>6, NextDifficultyType DEF PutPrevDiff, Steps
<1>7. ASSUME BeginRevert, target' \in 0..Alone PROVE TypeOK'
  <2>1. blocks[height] \in Blocks
    BY <1>7 DEF BeginRevert
  <2>2. Len(blocks[height].transactions) \in 0..Len(blocks[height].transactions)
    BY <2>1, BlockFields
  <2> QED
    BY <1>7, <2>1, <2>2 DEF BeginRevert, chainVars, Steps
<1>8. CASE RevertTip
  BY <1>0, <1>7, <1>8 DEF RevertTip, Alone
<1>9. ASSUME NEW t \in Heights, RevertToHeight(t) PROVE TypeOK'
  BY <1>0, <1>9 DEF RevertToHeight, chainVars, Steps, Alone, Heights
<1>10. CASE RevertNext
  BY <1>7, <1>10 DEF RevertNext
<1>11. CASE RevertDone
  BY <1>11, DifficultyAssumption DEF RevertDone, Steps
<1>12. CASE RevertNextTx
  <2>1. cur.transactions[todo] \in Transaction
    BY <1>0, <1>12 DEF RevertNextTx
  <2>2. ledger' \in Ledgers
    BY <1>12, <2>1, RevertTxType DEF RevertNextTx
  <2> QED
    BY <1>0, <1>12, <2>2 DEF RevertNextTx, chainVars
<1>13. CASE RevertReward
  <2>1. ledger' \in Ledgers
    BY <1>0, <1>13, DebitType DEF RevertReward, RevertCoinbase
  <2> QED
    BY <1>13, <2>1 DEF RevertReward, chainVars, Steps
<1>14. CASE DeleteBlock
  BY <1>14 DEF DeleteBlock, Steps
<1>15. CASE PutHeightDown
  BY <1>0, <1>15 DEF PutHeightDown, Shape, OperationState, Reverting, AfterRevert, Steps, Heights
<1>16. CASE RestoreDifficulty
  BY <1>16, NextDifficultyType DEF RestoreDifficulty, Shape, OperationState, AfterRevert, Steps, NoSnapshot
<1>17. CASE UNCHANGED vars
  BY <1>17 DEF vars
<1> QED
  BY <1>1, <1>2, <1>3, <1>4, <1>5, <1>6, <1>8, <1>9, <1>10, <1>11, <1>12, <1>13, <1>14,
     <1>15, <1>16, <1>17 DEF Next, ApplyBlock, ApplyBlockIbd

(***************************************************************************)
(* Every operation keeps the store, the difficulty, the ledger and its own *)
(* local state within their types: the difficulty in 1..MAX_DIFFICULTY,    *)
(* no balance below 0, no index out of range.                              *)
(***************************************************************************)
THEOREM TypeCorrect == Spec => []TypeOK
<1>1. Init => TypeOK /\ Shape
  BY InitType, InitShape
<1>2. TypeOK /\ Shape /\ [Next]_vars => TypeOK' /\ Shape'
  BY NextType, ShapeStep
<1> QED
  BY <1>1, <1>2, PTL DEF Spec

-----------------------------------------------------------------------------
(* The difficulty of a chain                                               *)

\* Heights and the number of windows below them.
LEMMA Windows ==
    ASSUME NEW h \in Nat
    PROVE  /\ h \div DAA_WINDOW \in Nat
           /\ (h \div DAA_WINDOW) * DAA_WINDOW <= h
           /\ h % DAA_WINDOW \in 0..DAA_WINDOW - 1
           /\ h = ((h \div DAA_WINDOW) * DAA_WINDOW) + (h % DAA_WINDOW)
  BY DifficultyAssumption

\* A boundary opens a new window; any other height stays in the one below.
LEMMA BoundaryWindow ==
    ASSUME NEW h \in Nat \ {0}
    PROVE  /\ IsBoundary(h) => /\ h >= DAA_WINDOW /\ (h \div DAA_WINDOW) * DAA_WINDOW = h
                               /\ (h - 1) \div DAA_WINDOW = (h \div DAA_WINDOW) - 1
           /\ ~IsBoundary(h) => (h - 1) \div DAA_WINDOW = h \div DAA_WINDOW
  BY DifficultyAssumption DEF IsBoundary

\* One step of recompute_difficulty_from_chain, at the k-th boundary.
DifficultyStep(bs, d, k) ==
    IF \A j \in 0..k : HasBlock(bs, j * DAA_WINDOW)
    THEN AdjustDifficultyStep(d, WindowMs(bs, k * DAA_WINDOW))
    ELSE d

\* f[k] is the difficulty of the chain bs after its k-th boundary.
IsDifficultyRun(bs, f, n) ==
    /\ f \in [0..n -> Difficulties]
    /\ f[0] = TESTNET_DIFFICULTY
    /\ \A k \in 1..n : f[k] = DifficultyStep(bs, f[k - 1], k)

\* Every store has such a run: the recursion stays within the clamp.
LEMMA DifficultyRunExists ==
    ASSUME NEW bs, NEW n \in Nat
    PROVE  \E f : IsDifficultyRun(bs, f, n)
  <1> DEFINE step == [k \in 1..n |-> [d \in Difficulties |-> DifficultyStep(bs, d, k)]]
  <1>1. \A d \in Difficulties, k \in 1..n : DifficultyStep(bs, d, k) \in Difficulties
    BY AdjustType DEF DifficultyStep
  <1>2. step \in [1..n -> [Difficulties -> Difficulties]]
    BY <1>1
  <1>3. \A d \in Difficulties, k \in 1..n : step[k][d] = DifficultyStep(bs, d, k)
    OBVIOUS
  <1>4. TESTNET_DIFFICULTY \in Difficulties
    BY DifficultyAssumption
  <1> HIDE DEF step
  <1>5. PICK f \in [0..n -> Difficulties] :
            f[0] = TESTNET_DIFFICULTY /\ \A k \in 1..n : f[k] = step[k][f[k - 1]]
    BY <1>2, <1>4, Recursion
  <1>6. \A k \in 1..n : f[k] = DifficultyStep(bs, f[k - 1], k)
    <2>1. \A k \in 1..n : f[k - 1] \in Difficulties
      BY <1>5
    <2> QED  BY <1>3, <1>5, <2>1
  <1> QED  BY <1>5, <1>6 DEF IsDifficultyRun

\* RecomputeDifficulty is the end of such a run, whichever run it is.
LEMMA RecomputeIsRun ==
    ASSUME NEW bs, NEW h \in Nat, NEW f, IsDifficultyRun(bs, f, h \div DAA_WINDOW)
    PROVE  RecomputeDifficulty(bs, h) = f[h \div DAA_WINDOW]
  <1> DEFINE n == h \div DAA_WINDOW
             Body(d) == [k \in 0..n |->
                IF k = 0 THEN TESTNET_DIFFICULTY
                ELSE IF \A j \in 0..k : HasBlock(bs, j * DAA_WINDOW)
                     THEN AdjustDifficultyStep(d[k - 1], WindowMs(bs, k * DAA_WINDOW))
                     ELSE d[k - 1]]
             diff == CHOOSE d : d = Body(d)
  <1>1. n \in Nat
    BY Windows
  <1>2. RecomputeDifficulty(bs, h) = diff[n]
    BY DEF RecomputeDifficulty
  <1> HIDE DEF n
  <1>3. f = Body(f)
    BY <1>1 DEF IsDifficultyRun, DifficultyStep, n
  <1>4. diff = Body(diff)
    <2> HIDE DEF Body
    <2> QED  BY <1>3
  <1> HIDE DEF diff
  <1>5. diff[0] = f[0]
    BY <1>1, <1>3, <1>4
  <1>6. \A k \in 1..n : diff[k - 1] = f[k - 1] => diff[k] = f[k]
    BY <1>1, <1>3, <1>4
  <1>7. diff[n] = f[n]
    <2> HIDE DEF Body
    <2> QED  BY <1>1, <1>5, <1>6, SameRecursion
  <1> QED  BY <1>2, <1>7 DEF n

\* Boundaries are in the order of their windows.
LEMMA Multiples ==
    ASSUME NEW j \in Nat, NEW k \in Nat, j <= k
    PROVE  /\ j * DAA_WINDOW \in Nat /\ j * DAA_WINDOW <= k * DAA_WINDOW
           /\ k > 0 => /\ (k - 1) * DAA_WINDOW = (k * DAA_WINDOW) - DAA_WINDOW
                       /\ (k * DAA_WINDOW) - DAA_WINDOW \in Nat
  BY DifficultyAssumption

\* recompute_difficulty_from_chain stays within the clamp.
LEMMA RecomputeType ==
    ASSUME NEW bs, NEW h \in Nat
    PROVE  RecomputeDifficulty(bs, h) \in Difficulties
  <1> DEFINE n == h \div DAA_WINDOW
  <1>1. n \in Nat
    BY Windows
  <1> HIDE DEF n
  <1>2. PICK f : IsDifficultyRun(bs, f, n)
    BY <1>1, DifficultyRunExists
  <1>3. f[n] \in Difficulties
    BY <1>1, <1>2 DEF IsDifficultyRun
  <1> QED  BY <1>2, <1>3, RecomputeIsRun DEF n

\* A chain of genesis alone is at the first difficulty.
LEMMA RecomputeAtGenesis ==
    ASSUME NEW bs
    PROVE  RecomputeDifficulty(bs, 0) = TESTNET_DIFFICULTY
  <1> DEFINE n == 0 \div DAA_WINDOW
  <1>1. n = 0
    BY DifficultyAssumption
  <1> HIDE DEF n
  <1>2. PICK f : IsDifficultyRun(bs, f, n)
    BY <1>1, DifficultyRunExists
  <1>3. f[n] = TESTNET_DIFFICULTY
    BY <1>1, <1>2 DEF IsDifficultyRun
  <1> QED  BY <1>2, <1>3, RecomputeIsRun DEF n

\* Only the blocks up to h matter.
LEMMA RecomputeUnchanged ==
    ASSUME NEW bs, NEW bs2, NEW h \in Nat, \A k \in 0..h : bs2[k] = bs[k]
    PROVE  RecomputeDifficulty(bs2, h) = RecomputeDifficulty(bs, h)
  <1> DEFINE n == h \div DAA_WINDOW
  <1>1. n \in Nat /\ n * DAA_WINDOW <= h
    BY Windows
  <1> HIDE DEF n
  <1>2. PICK f : IsDifficultyRun(bs, f, n)
    BY <1>1, DifficultyRunExists
  <1>3. ASSUME NEW k \in 0..n PROVE k * DAA_WINDOW \in 0..h
    BY <1>1, Multiples, DifficultyAssumption
  <1>4. ASSUME NEW k \in 1..n, NEW d PROVE DifficultyStep(bs2, d, k) = DifficultyStep(bs, d, k)
    <2>1. \A j \in 0..k : HasBlock(bs2, j * DAA_WINDOW) <=> HasBlock(bs, j * DAA_WINDOW)
      BY <1>3, <1>1 DEF HasBlock
    <2>2. k * DAA_WINDOW \in 0..h /\ (k * DAA_WINDOW) - DAA_WINDOW \in 0..h
      BY <1>1, <1>3, Multiples, DifficultyAssumption
    <2>3. WindowMs(bs2, k * DAA_WINDOW) = WindowMs(bs, k * DAA_WINDOW)
      BY <2>2 DEF WindowMs
    <2> QED  BY <2>1, <2>3 DEF DifficultyStep
  <1>5. IsDifficultyRun(bs2, f, n)
    BY <1>2, <1>4 DEF IsDifficultyRun
  <1> QED  BY <1>2, <1>5, RecomputeIsRun DEF n

\* Between boundaries the difficulty does not change.
LEMMA RecomputeInWindow ==
    ASSUME NEW bs, NEW h \in Nat \ {0}, ~IsBoundary(h)
    PROVE  RecomputeDifficulty(bs, h) = RecomputeDifficulty(bs, h - 1)
  <1> DEFINE n == h \div DAA_WINDOW
  <1>1. n \in Nat /\ h - 1 \in Nat /\ (h - 1) \div DAA_WINDOW = n
    BY Windows, BoundaryWindow
  <1>2. PICK f : IsDifficultyRun(bs, f, n)
    BY <1>1, DifficultyRunExists
  <1>3. RecomputeDifficulty(bs, h - 1) = f[n]
    <2> HIDE DEF n
    <2>1. ASSUME NEW m \in Nat, m \div DAA_WINDOW = n PROVE RecomputeDifficulty(bs, m) = f[n]
      BY <1>2, <2>1, RecomputeIsRun
    <2> QED  BY <1>1, <2>1
  <1> QED  BY <1>2, <1>3, RecomputeIsRun

\* At a boundary it moves by compute_next_difficulty.
LEMMA RecomputeAtBoundary ==
    ASSUME NEW bs, NEW h \in Nat \ {0}, IsBoundary(h), \A k \in 0..h : HasBlock(bs, k)
    PROVE  RecomputeDifficulty(bs, h) = ComputeNextDifficulty(bs, h, RecomputeDifficulty(bs, h - 1))
  <1> DEFINE n == h \div DAA_WINDOW
  <1>1. /\ n \in Nat /\ h - 1 \in Nat /\ (h - 1) \div DAA_WINDOW = n - 1
        /\ h >= DAA_WINDOW /\ n * DAA_WINDOW = h
    BY Windows, BoundaryWindow
  <1>2. n # 0
    <2> HIDE DEF n
    <2> QED  BY <1>1, DifficultyAssumption
  <1>3. PICK f : IsDifficultyRun(bs, f, n)
    BY <1>1, DifficultyRunExists
  <1> DEFINE g == [k \in 0..n - 1 |-> f[k]]
  <1>4. IsDifficultyRun(bs, g, n - 1)
    <2> HIDE DEF n
    <2> QED  BY <1>1, <1>2, <1>3 DEF IsDifficultyRun
  <1>5. g[n - 1] = f[n - 1]
    BY <1>1, <1>2
  <1>6. RecomputeDifficulty(bs, h - 1) = f[n - 1]
    <2> HIDE DEF n, g
    <2>1. ASSUME NEW m \in Nat, m \div DAA_WINDOW = n - 1 PROVE RecomputeDifficulty(bs, m) = g[n - 1]
      BY <1>4, <2>1, RecomputeIsRun
    <2> QED  BY <1>1, <1>5, <2>1
  <1>7. RecomputeDifficulty(bs, h) = f[n]
    BY <1>3, RecomputeIsRun
  <1>8. f[n] = DifficultyStep(bs, f[n - 1], n)
    <2> HIDE DEF n
    <2> QED  BY <1>1, <1>2, <1>3 DEF IsDifficultyRun
  <1>9. \A j \in 0..n : HasBlock(bs, j * DAA_WINDOW)
    <2> HIDE DEF n
    <2> SUFFICES ASSUME NEW j \in 0..n PROVE j * DAA_WINDOW \in 0..h
      OBVIOUS
    <2> QED  BY <1>1, Multiples
  <1>10. DifficultyStep(bs, f[n - 1], n) = AdjustDifficultyStep(f[n - 1], WindowMs(bs, h))
    <2> HIDE DEF n
    <2> QED  BY <1>1, <1>9 DEF DifficultyStep
  <1>11. ~(h < DAA_WINDOW)
    BY <1>1, DifficultyAssumption
  <1> QED
    BY <1>6, <1>7, <1>8, <1>10, <1>11 DEF ComputeNextDifficulty

-----------------------------------------------------------------------------
(* The difficulty of the block store                                       *)

\* Statements at which the difficulty is not yet that of the tip.
Adjusting == {"put_prev_diff", "put_height_down", "restore_difficulty"}

\* Every boundary of the chain has a snapshot of the difficulty below it.
Snapshots ==
    \A b \in 1..height :
        IsBoundary(b) /\ ~(b = height /\ pc = "put_prev_diff")
            => prevDiff[b] = RecomputeDifficulty(blocks, b - 1)

\* The difficulty at each statement of an operation.
CurrentDifficulty ==
    /\ pc \notin Adjusting => difficulty = RecomputeDifficulty(blocks, height)
    /\ pc = "put_prev_diff" => /\ IsBoundary(height)
                               /\ difficulty = RecomputeDifficulty(blocks, height - 1)
    /\ pc = "put_height_down" /\ ~IsBoundary(height)
          => difficulty = RecomputeDifficulty(blocks, height - 1)
    /\ pc = "restore_difficulty"
          => prevDiff[height + 1] = RecomputeDifficulty(blocks, height)

\* The tip is stored except between its deletion and the new height, and a
\* block on its way in has the work the tip asks for.
TipState ==
    /\ pc = "put_height_down" <=> blocks[height] = NoBlock
    /\ pc \in Applying => cur.bits >= difficulty

History ==
    /\ prevDiff \in [Heights -> Difficulties \cup {NoSnapshot}]
    /\ difficulty \in Difficulties
    /\ Snapshots
    /\ CurrentDifficulty
    /\ TipState

\* A new chain has no boundary to have a snapshot of.
LEMMA InitHistory == Init => History
  <1> SUFFICES ASSUME Init PROVE History
    OBVIOUS
  <1> USE HeightFacts
  <1>1. RecomputeDifficulty(blocks, 0) = TESTNET_DIFFICULTY
    BY RecomputeAtGenesis
  <1>2. blocks[0] # NoBlock
    BY DEF Init
  <1> QED
    BY <1>1, <1>2, DifficultyAssumption DEF Init, History, Snapshots, CurrentDifficulty,
       TipState, Adjusting, Applying

\* A step between statements that leaves the chain alone.
LEMMA HistoryKept ==
    ASSUME History, UNCHANGED chainVars, pc \notin Adjusting, pc' \notin Adjusting,
           pc' \in Applying => cur'.bits >= difficulty
    PROVE  History'
  BY DEF History, Snapshots, CurrentDifficulty, TipState, Adjusting, chainVars

\* Every statement of every operation keeps snapshots, difficulty and tip.
LEMMA HistoryStep == Shape /\ History /\ [Next]_vars => History'
  <1> SUFFICES ASSUME Shape, History, [Next]_vars PROVE History'
    OBVIOUS
  <1> USE HeightFacts
  <1>0. height \in Nat /\ height \in Heights
    BY DEF Shape, ShapeTypes
  <1>1. ASSUME NEW b \in Blocks, NEW i \in BOOLEAN, BeginApply(b, i) PROVE History'
    BY <1>1, HistoryKept DEF BeginApply, ValidateInner, Adjusting
  <1>2. CASE ApplyNextTx \/ RejectTx \/ TxsApplied
    BY <1>2, HistoryKept DEF ApplyNextTx, RejectTx, TxsApplied, Adjusting, Applying, History, TipState
  <1>3. ASSUME BeginRevert, pc \notin Adjusting PROVE History'
    BY <1>3, HistoryKept DEF BeginRevert, Adjusting, Applying
  <1>4. CASE RevertTip \/ RevertNext
    BY <1>3, <1>4 DEF RevertTip, RevertNext, Adjusting
  <1>5. ASSUME NEW t \in Heights, RevertToHeight(t) PROVE History'
    BY <1>5, HistoryKept DEF RevertToHeight, Adjusting, Applying
  <1>6. CASE RevertNextTx \/ RevertReward
    BY <1>6, HistoryKept DEF RevertNextTx, RevertReward, Adjusting, Applying
  <1>7. CASE RevertDone
    <2>1. difficulty' = difficulty
      BY <1>7, RecomputeAtGenesis DEF RevertDone, History, CurrentDifficulty, Adjusting
    <2> QED
      BY <1>7, <2>1, HistoryKept DEF RevertDone, Adjusting, Applying, chainVars
  <1>8. CASE PutBlock
    <2>1. cur.index = height + 1 /\ height + 1 \in Heights
      BY <1>8 DEF PutBlock, Shape, ShapeTypes, OperationState, Applying
    <2>2. \A h \in 0..height : blocks'[h] = blocks[h]
      BY <1>8, <2>1 DEF PutBlock, Shape, ShapeTypes, Heights
    <2>3. \A h \in 0..height : RecomputeDifficulty(blocks', h) = RecomputeDifficulty(blocks, h)
      <3> SUFFICES ASSUME NEW h \in 0..height
                   PROVE  RecomputeDifficulty(blocks', h) = RecomputeDifficulty(blocks, h)
        OBVIOUS
      <3>1. h \in Nat /\ \A k \in 0..h : blocks'[k] = blocks[k]
        BY <1>0, <2>2
      <3> QED  BY <3>1, RecomputeUnchanged
    <2>4. /\ pc = "put_block" /\ pc' = "put_height"
           /\ UNCHANGED <<prevDiff, height, difficulty>>
      BY <1>8 DEF PutBlock
    <2>5. Snapshots'
      BY <1>0, <2>3, <2>4 DEF History, Snapshots
    <2>6. CurrentDifficulty'
      BY <1>0, <2>3, <2>4 DEF History, CurrentDifficulty, Adjusting
    <2>7. TipState'
      BY <1>0, <1>8, <2>2 DEF PutBlock, History, TipState, Applying
    <2> QED
      BY <1>8, <2>5, <2>6, <2>7 DEF PutBlock, History
  <1>9. CASE PutHeight
    <2>1. cur.index = height + 1 /\ height' = height + 1 /\ blocks[height + 1] = cur /\ cur \in Blocks
      BY <1>9 DEF PutHeight, Shape, ShapeTypes, OperationState, Applying
    <2>2. difficulty = RecomputeDifficulty(blocks, height)
      BY <1>9 DEF PutHeight, History, CurrentDifficulty, Adjusting
    <2>3. ~IsBoundary(height + 1) =>
              RecomputeDifficulty(blocks, height + 1) = RecomputeDifficulty(blocks, height)
      <3>1. height + 1 \in Nat \ {0} /\ (height + 1) - 1 = height
        BY <1>0
      <3> QED  BY <3>1, RecomputeInWindow
    <2>4. Snapshots'
      BY <1>0, <1>9, <2>1 DEF PutHeight, History, Snapshots
    <2>5. CurrentDifficulty'
      <3>1. (height + 1) - 1 = height
        BY <1>0
      <3> QED
        BY <1>9, <2>1, <2>2, <2>3, <3>1 DEF PutHeight, CurrentDifficulty, Adjusting
    <2>6. TipState'
      BY <1>9, <2>1 DEF PutHeight, TipState, Applying
    <2> QED
      BY <1>9, <2>4, <2>5, <2>6 DEF PutHeight, History
  <1>10. CASE PutPrevDiff
    <2>1. IsBoundary(height) /\ difficulty = RecomputeDifficulty(blocks, height - 1) /\ height > 0
      BY <1>10 DEF PutPrevDiff, History, CurrentDifficulty, IsBoundary
    <2>2. \A k \in 0..height : HasBlock(blocks, k)
      BY <1>0, <1>10 DEF PutPrevDiff, History, TipState, Shape, LinkedHistory, HasBlock, Heights
    <2>3. difficulty' = RecomputeDifficulty(blocks, height)
      BY <1>0, <1>10, <2>1, <2>2, RecomputeAtBoundary DEF PutPrevDiff
    <2>4. difficulty' \in Difficulties
      BY <1>0, <2>3, RecomputeType
    <2>5. Snapshots'
      BY <1>0, <1>10, <2>1 DEF PutPrevDiff, History, Snapshots, Heights
    <2> QED
      BY <1>0, <1>10, <2>3, <2>4, <2>5 DEF PutPrevDiff, History, CurrentDifficulty, TipState,
         Adjusting, Applying
  <1>11. CASE DeleteBlock
    <2>1. height > 0 /\ \A h \in 0..height - 1 : blocks'[h] = blocks[h]
      BY <1>11 DEF DeleteBlock, Shape, ShapeTypes, OperationState, Reverting, Heights
    <2>2. \A h \in 0..height - 1 : RecomputeDifficulty(blocks', h) = RecomputeDifficulty(blocks, h)
      <3> SUFFICES ASSUME NEW h \in 0..height - 1
                   PROVE  RecomputeDifficulty(blocks', h) = RecomputeDifficulty(blocks, h)
        OBVIOUS
      <3>1. h \in Nat /\ \A k \in 0..h : blocks'[k] = blocks[k]
        BY <1>0, <2>1
      <3> QED  BY <3>1, RecomputeUnchanged
    <2>3. /\ pc = "delete_block" /\ pc' = "put_height_down"
           /\ UNCHANGED <<prevDiff, height, difficulty>>
      BY <1>11 DEF DeleteBlock
    <2>4. Snapshots'
      BY <1>0, <2>2, <2>3 DEF History, Snapshots
    <2>5. ~IsBoundary(height) => difficulty = RecomputeDifficulty(blocks, height - 1)
      BY <1>0, <1>11, <2>1, RecomputeInWindow DEF DeleteBlock, History, CurrentDifficulty, Adjusting
    <2>6. CurrentDifficulty'
      BY <1>0, <2>1, <2>2, <2>5, <2>3 DEF CurrentDifficulty, Adjusting
    <2> QED
      BY <1>11, <2>4, <2>6 DEF DeleteBlock, Shape, ShapeTypes, History, TipState, Applying
  <1>12. CASE PutHeightDown
    <2>1. height > 0 /\ height' = height - 1 /\ height - 1 \in 0..height - 1
      BY <1>0, <1>12 DEF PutHeightDown, Shape, OperationState, Reverting
    <2>2. blocks[height - 1] # NoBlock
      BY <2>1 DEF Shape, LinkedHistory
    <2>3. IsBoundary(height) => prevDiff[height] = RecomputeDifficulty(blocks, height - 1)
      BY <1>0, <1>12, <2>1 DEF PutHeightDown, History, Snapshots
    <2>4. Snapshots'
      BY <1>0, <1>12, <2>1 DEF PutHeightDown, History, Snapshots
    <2>5. CurrentDifficulty'
      <3>1. (height - 1) + 1 = height
        BY <1>0
      <3> QED
        BY <1>12, <2>1, <2>3, <3>1 DEF PutHeightDown, AfterRevert, History, CurrentDifficulty, Adjusting
    <2>6. TipState'
      BY <1>12, <2>1, <2>2 DEF PutHeightDown, AfterRevert, TipState, Applying
    <2> QED
      BY <1>12, <2>4, <2>5, <2>6 DEF PutHeightDown, History
  <1>13. CASE RestoreDifficulty
    <2>1. prevDiff[height + 1] = RecomputeDifficulty(blocks, height)
      BY <1>13 DEF RestoreDifficulty, History, CurrentDifficulty
    <2>2. RecomputeDifficulty(blocks, height) \in Difficulties
      BY <1>0, RecomputeType
    <2>3. difficulty' = RecomputeDifficulty(blocks, height)
      BY <1>13, <2>1, <2>2 DEF RestoreDifficulty, NoSnapshot, Difficulties
    <2>4. Snapshots'
      BY <1>13 DEF RestoreDifficulty, AfterRevert, History, Snapshots
    <2> QED
      BY <1>13, <2>2, <2>3, <2>4 DEF RestoreDifficulty, AfterRevert, History, CurrentDifficulty,
         TipState, Adjusting, Applying
  <1>14. CASE UNCHANGED vars
    BY <1>14 DEF vars, History, Snapshots, CurrentDifficulty, TipState
  <1> QED
    BY <1>1, <1>2, <1>4, <1>5, <1>6, <1>7, <1>8, <1>9, <1>10, <1>11, <1>12, <1>13, <1>14
    DEF Next, ApplyBlock, ApplyBlockIbd

\* load_or_create recomputes the difficulty that was in memory.
LEMMA HistoryRestart == Shape /\ History /\ CleanRestart => History'
  <1> SUFFICES ASSUME Shape, History, CleanRestart PROVE History'
    OBVIOUS
  <1>1. difficulty' = RecomputeDifficulty(blocks, height)
    BY RecomputeAtGenesis DEF CleanRestart, Restart
  <1>2. difficulty' = difficulty
    BY <1>1 DEF CleanRestart, History, CurrentDifficulty, Adjusting
  <1> QED
    BY <1>2, HistoryKept DEF CleanRestart, Restart, chainVars, Adjusting, Applying

\* The inductive invariant of the block store between clean restarts.
LEMMA CleanHistory == CleanSpec => [](Shape /\ History)
  <1>1. RestartInit => Shape /\ History
    BY InitShape, InitHistory DEF RestartInit
  <1>2. Shape /\ History /\ [CleanNext]_allVars => Shape' /\ History'
    <2> SUFFICES ASSUME Shape, History, [CleanNext]_allVars PROVE Shape' /\ History'
      OBVIOUS
    <2>1. CASE [Next]_vars
      BY <2>1, ShapeStep, HistoryStep
    <2>2. CASE CleanRestart
      BY <2>2, RestartShape, HistoryRestart DEF CleanRestart
    <2> QED
      BY <2>1, <2>2 DEF CleanNext, Operation, SaveLedger, allVars
  <1> QED
    BY <1>1, <1>2, PTL DEF CleanSpec

(***************************************************************************)
(* Between operations the difficulty new blocks are held to is the one     *)
(* recompute_difficulty_from_chain finds in the stored blocks, although    *)
(* apply_block advances it a boundary at a time and revert_tip takes it    *)
(* from the snapshot under meta:pd: for every chain, window and reorg.     *)
(***************************************************************************)
THEOREM DifficultyAlwaysCanonical == CleanSpec => []DifficultyCanonical
  <1>1. Shape /\ History => DifficultyCanonical
    BY DEF History, CurrentDifficulty, Adjusting, DifficultyCanonical
  <1> QED
    BY <1>1, CleanHistory, PTL

-----------------------------------------------------------------------------
(* The block store implements the abstract log                             *)

\* The difficulty module that ChainLog brings along is the same one.
LEMMA SameAdjustment ==
    ASSUME NEW d, NEW ms
    PROVE  Abstract!AdjustDifficultyStep(d, ms) = AdjustDifficultyStep(d, ms)
  BY DEF Abstract!AdjustDifficultyStep, AdjustDifficultyStep, Abstract!ClampDifficulty,
         ClampDifficulty, Abstract!SaturatingSub, SaturatingSub

\* What the log asks of its next block is what the chain it stores asks.
LEMMA RequiredIsRecomputed ==
    ASSUME NEW bs, NEW h \in Heights, \A k \in 0..h : HasBlock(bs, k)
    PROVE  Abstract!RequiredDifficulty([i \in 1..h + 1 |-> bs[i - 1]]) = RecomputeDifficulty(bs, h)
  <1> DEFINE n == h \div DAA_WINDOW
             l == [i \in 1..h + 1 |-> bs[i - 1]]
             Body(d) == [k \in 0..n |->
                IF k = 0 THEN TESTNET_DIFFICULTY
                ELSE Abstract!AdjustDifficultyStep(
                        d[k - 1],
                        Abstract!SaturatingSub(l[k * DAA_WINDOW + 1].timestamp,
                                               l[(k - 1) * DAA_WINDOW + 1].timestamp))]
             diff == CHOOSE d : d = Body(d)
  <1>1. h \in Nat /\ n \in Nat /\ n * DAA_WINDOW <= h
    BY Windows, HeightFacts
  <1>2. Len(l) - 1 = h
    BY <1>1
  <1>3. Abstract!RequiredDifficulty(l) = diff[n]
    <2> HIDE DEF l
    <2> QED  BY <1>2 DEF Abstract!RequiredDifficulty
  <1>4. PICK f : IsDifficultyRun(bs, f, n)
    BY <1>1, DifficultyRunExists
  <1>5. RecomputeDifficulty(bs, h) = f[n]
    BY <1>1, <1>4, RecomputeIsRun
  <1> HIDE DEF n
  <1>6. ASSUME NEW k \in 1..n
        PROVE  f[k] = Abstract!AdjustDifficultyStep(
                        f[k - 1],
                        Abstract!SaturatingSub(l[k * DAA_WINDOW + 1].timestamp,
                                               l[(k - 1) * DAA_WINDOW + 1].timestamp))
    <2>1. \A j \in 0..k : j * DAA_WINDOW \in 0..h
      <3> SUFFICES ASSUME NEW j \in 0..k PROVE j * DAA_WINDOW \in 0..h
        OBVIOUS
      <3> QED  BY <1>1, Multiples, DifficultyAssumption
    <2>2. /\ k * DAA_WINDOW \in 0..h
          /\ (k - 1) * DAA_WINDOW = (k * DAA_WINDOW) - DAA_WINDOW
          /\ (k * DAA_WINDOW) - DAA_WINDOW \in 0..h
      BY <1>1, <2>1, Multiples, DifficultyAssumption
    <2>3. f[k] = AdjustDifficultyStep(f[k - 1], WindowMs(bs, k * DAA_WINDOW))
      BY <1>4, <2>1 DEF IsDifficultyRun, DifficultyStep
    <2>4. \A m \in 0..h : l[m + 1] = bs[m]
      BY <1>1
    <2>5. Abstract!SaturatingSub(l[k * DAA_WINDOW + 1].timestamp, l[(k - 1) * DAA_WINDOW + 1].timestamp)
            = WindowMs(bs, k * DAA_WINDOW)
      <3> HIDE DEF l
      <3> QED  BY <2>2, <2>4 DEF WindowMs, Abstract!SaturatingSub, SaturatingSub
    <2> QED  BY <2>3, <2>5, SameAdjustment
  <1>7. f = Body(f)
    <2> HIDE DEF l
    <2> QED  BY <1>1, <1>4, <1>6 DEF IsDifficultyRun
  <1>8. diff = Body(diff)
    <2> HIDE DEF Body
    <2> QED  BY <1>7
  <1> HIDE DEF diff, l
  <1>9. diff[0] = f[0]
    BY <1>1, <1>7, <1>8
  <1>10. \A k \in 1..n : diff[k - 1] = f[k - 1] => diff[k] = f[k]
    BY <1>1, <1>7, <1>8
  <1>11. diff[n] = f[n]
    <2> HIDE DEF Body
    <2> QED  BY <1>1, <1>9, <1>10, SameRecursion
  <1> QED  BY <1>3, <1>5, <1>11 DEF l

\* The new chain is the log of genesis.
LEMMA LogInitially == RestartInit => Abstract!LogInit
  <1> SUFFICES ASSUME RestartInit PROVE StoredLog = <<Genesis>>
    BY DEF Abstract!LogInit
  <1>1. height = 0 /\ blocks[0] = Genesis /\ StoredTop = 0
    BY HeightFacts DEF RestartInit, Init, StoredTop
  <1> QED
    BY <1>1 DEF StoredLog

\* A step that changes neither the height nor a block up to it.
LEMMA LogKept ==
    ASSUME height \in Nat, height' = height, \A h \in 0..height : blocks'[h] = blocks[h]
    PROVE  StoredLog' = StoredLog
  <1>1. StoredTop' = StoredTop /\ StoredTop \in {height - 1, height}
    BY DEF StoredTop
  <1> QED
    BY <1>1 DEF StoredLog

\* meta:h is put: the log grows by the block that was validated.
LEMMA LogExtended ==
    ASSUME Shape, History, PutHeight
    PROVE  Abstract!Extend(cur) /\ cur \in Blocks
  <1> USE HeightFacts
  <1>1. /\ height \in Nat /\ height \in Heights /\ cur \in Blocks
        /\ cur.index = height + 1 /\ height' = height + 1 /\ blocks' = blocks
        /\ blocks[height + 1] = cur /\ blocks[height] # NoBlock
        /\ cur.prev_hash = blocks[height].hash /\ MatchesCheckpoint(cur)
    BY DEF PutHeight, Shape, ShapeTypes, OperationState, Applying
  <1>2. StoredTop = height /\ StoredTop' = height + 1
    BY <1>1 DEF StoredTop
  <1>3. StoredLog = [i \in 1..height + 1 |-> blocks[i - 1]]
    BY <1>2 DEF StoredLog
  <1>4. StoredLog' = [i \in 1..(height + 1) + 1 |-> blocks[i - 1]]
    BY <1>1, <1>2 DEF StoredLog
  <1>5. \A k \in 0..height : HasBlock(blocks, k)
    BY <1>1 DEF Shape, LinkedHistory, HasBlock, Heights
  <1>6. Abstract!RequiredDifficulty(StoredLog) = RecomputeDifficulty(blocks, height)
    BY <1>1, <1>3, <1>5, RequiredIsRecomputed
  <1>7. cur.bits >= RecomputeDifficulty(blocks, height)
    BY DEF PutHeight, History, CurrentDifficulty, TipState, Adjusting, Applying
  <1>8. Len(StoredLog) = height + 1 /\ StoredLog[height + 1] = blocks[height]
    BY <1>1, <1>3
  <1>9. StoredLog' = Append(StoredLog, cur)
    BY <1>1, <1>3, <1>4
  <1> QED
    BY <1>1, <1>6, <1>7, <1>8, <1>9 DEF Abstract!Extend, MatchesCheckpoint

\* The tip is deleted: the log loses its last block.
LEMMA LogRetracted ==
    ASSUME Shape, History, DeleteBlock
    PROVE  Abstract!Retract
  <1> USE HeightFacts
  <1>1. /\ height \in Nat /\ height' = height /\ height > 0
        /\ blocks[height] # NoBlock /\ blocks'[height] = NoBlock
        /\ \A h \in 0..height - 1 : blocks'[h] = blocks[h]
    BY DEF DeleteBlock, Shape, ShapeTypes, OperationState, Reverting, History, TipState, Heights
  <1>2. StoredTop = height /\ StoredTop' = height - 1
    BY <1>1 DEF StoredTop
  <1>3. StoredLog = [i \in 1..height + 1 |-> blocks[i - 1]]
    BY <1>2 DEF StoredLog
  <1>4. StoredLog' = [i \in 1..height |-> blocks[i - 1]]
    BY <1>1, <1>2 DEF StoredLog
  <1>5. Len(StoredLog) = height + 1
    BY <1>1, <1>3
  <1>6. StoredLog' = SubSeq(StoredLog, 1, Len(StoredLog) - 1)
    BY <1>1, <1>3, <1>4, <1>5
  <1> QED
    BY <1>1, <1>5, <1>6 DEF Abstract!Retract

\* Every other step is invisible to the log.
LEMMA LogStep ==
    Shape /\ History /\ [CleanNext]_allVars => [Abstract!LogNext]_StoredLog
  <1> SUFFICES ASSUME Shape, History, [CleanNext]_allVars
               PROVE  Abstract!LogNext \/ StoredLog' = StoredLog
    OBVIOUS
  <1> USE HeightFacts
  <1>0. height \in Nat /\ height \in Heights
    BY DEF Shape, ShapeTypes
  <1>1. CASE PutHeight
    BY <1>1, LogExtended DEF Abstract!LogNext
  <1>2. CASE DeleteBlock
    BY <1>2, LogRetracted DEF Abstract!LogNext
  <1>3. CASE PutHeightDown
    <2>1. /\ height' = height - 1 /\ blocks' = blocks /\ height > 0
          /\ blocks[height] = NoBlock /\ blocks[height - 1] # NoBlock
      BY <1>0, <1>3 DEF PutHeightDown, Shape, OperationState, Reverting, LinkedHistory, History, TipState
    <2>2. StoredTop' = StoredTop
      BY <2>1 DEF StoredTop
    <2> QED
      BY <2>1, <2>2 DEF StoredLog
  <1>4. CASE PutBlock
    <2>1. cur.index = height + 1 /\ height' = height
      BY <1>4 DEF PutBlock, Shape, ShapeTypes, OperationState, Applying
    <2>2. \A h \in 0..height : blocks'[h] = blocks[h]
      BY <1>0, <1>4, <2>1 DEF PutBlock, Shape, ShapeTypes, Heights
    <2> QED
      BY <1>0, <2>1, <2>2, LogKept
  <1>5. CASE blocks' = blocks /\ height' = height
    BY <1>0, <1>5, LogKept
  <1>6. ASSUME Next, ~PutHeight, ~DeleteBlock, ~PutHeightDown, ~PutBlock
        PROVE  blocks' = blocks /\ height' = height
    BY <1>6 DEF Next, ApplyBlock, ApplyBlockIbd, BeginApply, ApplyNextTx, RejectTx, TxsApplied,
       PutPrevDiff, RevertTip, RevertToHeight, RevertNext, BeginRevert, RevertDone, RevertNextTx,
       RevertReward, RestoreDifficulty, chainVars
  <1>7. ASSUME ~Next PROVE blocks' = blocks /\ height' = height
    BY <1>7 DEF CleanNext, Operation, SaveLedger, CleanRestart, Restart, allVars, vars
  <1> QED
    BY <1>1, <1>2, <1>3, <1>4, <1>5, <1>6, <1>7

(***************************************************************************)
(* The block store implements the log of ChainLog: whatever apply_block,   *)
(* apply_block_ibd, revert_tip, revert_to_height and restarts do to the    *)
(* database is one append of a block that names the last one as its parent *)
(* and carries the work the whole history asks for, one truncation, or     *)
(* invisible.                                                              *)
(***************************************************************************)
THEOREM BlockStoreImplementsLog == CleanSpec => ImplementsChainLog
  <1>1. RestartInit => Abstract!LogInit
    BY LogInitially
  <1>2. Shape /\ History /\ [CleanNext]_allVars => [Abstract!LogNext]_StoredLog
    BY LogStep
  <1> QED
    BY <1>1, <1>2, CleanHistory, PTL DEF CleanSpec, ImplementsChainLog, Abstract!LogSpec

-----------------------------------------------------------------------------
(* Ledgers that hold the same                                              *)

\* The ledgers a replay goes through: it does not ask for funds, so balances
\* may be negative where the chain is not the result of operations.
IntLedgers == [Accounts -> [exists : BOOLEAN, balance : Int, sequence : Nat]]

\* Balances and sequence numbers agree.
Same(l, m) ==
    \A a \in Accounts : l[a].balance = m[a].balance /\ l[a].sequence = m[a].sequence

\* The transaction can be paid and has the next sequence number of its sender.
InOrder(l, tx) ==
    /\ l[tx.sender].balance >= TotalCost(tx)
    /\ tx.sequence = l[tx.sender].sequence + 1

\* Same is what Holdings compares.
LEMMA SameHoldings ==
    ASSUME NEW l, NEW m
    PROVE  Holdings(l) = Holdings(m) <=> Same(l, m)
  <1>1. ASSUME Holdings(l) = Holdings(m), NEW a \in Accounts
        PROVE  l[a].balance = m[a].balance /\ l[a].sequence = m[a].sequence
    <2>1. Holdings(l)[a] = <<l[a].balance, l[a].sequence>>
      BY DEF Holdings
    <2>2. Holdings(m)[a] = <<m[a].balance, m[a].sequence>>
      BY DEF Holdings
    <2> QED  BY <1>1, <2>1, <2>2
  <1>2. ASSUME Same(l, m) PROVE Holdings(l) = Holdings(m)
    BY <1>2 DEF Same, Holdings
  <1> QED  BY <1>1, <1>2 DEF Same

\* Every ledger is one a replay may go through.
LEMMA LedgersAreInt == Ledgers \subseteq IntLedgers
  BY DEF Ledgers, IntLedgers, AccountState

\* The fields of a transaction the ledger reads.
LEMMA TxFields ==
    ASSUME NEW tx \in Transaction
    PROVE  /\ tx.sender \in Accounts /\ tx.recipient \in Accounts
           /\ tx.amount \in Nat /\ tx.sequence \in Nat /\ TotalCost(tx) \in Nat
  BY U64Assumption, TotalCostType DEF Transaction

\* What crediting and paying do to one account.
LEMMA CreditEffect ==
    ASSUME NEW l \in IntLedgers, NEW a \in Accounts, NEW n \in Nat
    PROVE  /\ Credit(l, a, n) \in IntLedgers
           /\ \A x \in Accounts :
                /\ Credit(l, a, n)[x].balance = IF x = a THEN l[x].balance + n ELSE l[x].balance
                /\ Credit(l, a, n)[x].sequence = l[x].sequence
  BY DEF Credit, IntLedgers

\* What apply_tx_ibd does to one account, which may pay itself.
LEMMA ApplyTxIbdEffect ==
    ASSUME NEW l \in IntLedgers, NEW tx \in Transaction
    PROVE  /\ ApplyTxIbd(l, tx) \in IntLedgers
           /\ \A x \in Accounts :
                /\ ApplyTxIbd(l, tx)[x].balance =
                     l[x].balance - (IF x = tx.sender THEN TotalCost(tx) ELSE 0)
                                  + (IF x = tx.recipient THEN tx.amount ELSE 0)
                /\ ApplyTxIbd(l, tx)[x].sequence = IF x = tx.sender THEN tx.sequence ELSE l[x].sequence
  <1> DEFINE c == TotalCost(tx)
             m == [l EXCEPT ![tx.sender] = [exists |-> TRUE, balance |-> @.balance - c,
                                            sequence |-> tx.sequence]]
  <1>1. tx.sender \in Accounts /\ tx.recipient \in Accounts /\ tx.amount \in Nat /\ tx.sequence \in Nat
        /\ c \in Nat
    BY TxFields
  <1> HIDE DEF c
  <1>2. /\ m \in IntLedgers
        /\ \A x \in Accounts :
             /\ m[x].balance = l[x].balance - (IF x = tx.sender THEN c ELSE 0)
             /\ m[x].sequence = IF x = tx.sender THEN tx.sequence ELSE l[x].sequence
    BY <1>1 DEF IntLedgers
  <1>3. ApplyTxIbd(l, tx) = Credit(m, tx.recipient, tx.amount)
    BY DEF ApplyTxIbd, c
  <1> HIDE DEF m
  <1>4. \A x \in Accounts : m[x].balance \in Int
    BY <1>2 DEF IntLedgers
  <1>5. /\ ApplyTxIbd(l, tx) \in IntLedgers
        /\ \A x \in Accounts :
             /\ ApplyTxIbd(l, tx)[x].balance =
                  IF x = tx.recipient THEN m[x].balance + tx.amount ELSE m[x].balance
             /\ ApplyTxIbd(l, tx)[x].sequence = m[x].sequence
    <2>0. m \in IntLedgers /\ tx.recipient \in Accounts /\ tx.amount \in Nat
      BY <1>1, <1>2
    <2>1. /\ Credit(m, tx.recipient, tx.amount) \in IntLedgers
          /\ \A x \in Accounts :
               /\ Credit(m, tx.recipient, tx.amount)[x].balance =
                    IF x = tx.recipient THEN m[x].balance + tx.amount ELSE m[x].balance
               /\ Credit(m, tx.recipient, tx.amount)[x].sequence = m[x].sequence
      BY ONLY <2>0, CreditEffect
    <2> QED  BY <1>3, <2>1
  <1>6. \A x \in Accounts : l[x].balance \in Int
    BY DEF IntLedgers
  <1>7. \A x \in Accounts :
          /\ ApplyTxIbd(l, tx)[x].balance =
               l[x].balance - (IF x = tx.sender THEN c ELSE 0)
                            + (IF x = tx.recipient THEN tx.amount ELSE 0)
          /\ ApplyTxIbd(l, tx)[x].sequence = IF x = tx.sender THEN tx.sequence ELSE l[x].sequence
    BY <1>1, <1>2, <1>4, <1>5, <1>6
  <1> QED  BY <1>5, <1>7 DEF c

\* apply_tx does the same to a transaction that is in order.
LEMMA ApplyTxEffect ==
    ASSUME NEW l \in IntLedgers, NEW tx \in Transaction, tx.sequence = l[tx.sender].sequence + 1
    PROVE  ApplyTx(l, tx) = ApplyTxIbd(l, tx)
  BY DEF ApplyTx, ApplyTxIbd

\* apply_tx_ibd does not tell ledgers apart that hold the same.
LEMMA SameApplied ==
    ASSUME NEW l \in IntLedgers, NEW m \in IntLedgers, Same(l, m), NEW tx \in Transaction
    PROVE  Same(ApplyTxIbd(l, tx), ApplyTxIbd(m, tx))
  BY ApplyTxIbdEffect DEF Same

\* Neither does credit.
LEMMA SameCredited ==
    ASSUME NEW l \in IntLedgers, NEW m \in IntLedgers, Same(l, m), NEW a \in Accounts, NEW n \in Nat
    PROVE  Same(Credit(l, a, n), Credit(m, a, n))
  BY CreditEffect DEF Same

\* revert_tx takes a ledger that holds what applying the transaction gave to
\* what was held before.
LEMMA SameReverted ==
    ASSUME NEW l \in Ledgers, NEW m \in Ledgers, NEW tx \in Transaction,
           InOrder(m, tx), Same(l, ApplyTxIbd(m, tx))
    PROVE  Same(RevertTx(l, tx), m)
  <1> DEFINE c == TotalCost(tx)
             d == Debit(l, tx.recipient, tx.amount)
             r == RevertTx(l, tx)
  <1>1. tx.sender \in Accounts /\ tx.recipient \in Accounts /\ tx.amount \in Nat /\ tx.sequence \in Nat
        /\ c \in Nat
    BY TxFields
  <1>2. \A x \in Accounts : l[x].balance \in Nat /\ l[x].sequence \in Nat
                         /\ m[x].balance \in Nat /\ m[x].sequence \in Nat
    BY DEF Ledgers, AccountState
  <1>3. \A x \in Accounts :
          /\ l[x].balance = m[x].balance - (IF x = tx.sender THEN c ELSE 0)
                                         + (IF x = tx.recipient THEN tx.amount ELSE 0)
          /\ l[x].sequence = IF x = tx.sender THEN tx.sequence ELSE m[x].sequence
    BY ApplyTxIbdEffect, LedgersAreInt DEF Same
  <1> HIDE DEF c
  <1>4. d \in Ledgers
    BY <1>1, DebitType
  <1>5. \A x \in Accounts :
          /\ d[x].balance = IF x = tx.recipient THEN SaturatingSub(l[x].balance, tx.amount)
                                                ELSE l[x].balance
          /\ d[x].sequence = l[x].sequence
    BY <1>1 DEF Debit, Ledgers, AccountState
  <1> HIDE DEF d
  <1>6. \A x \in Accounts :
          /\ r[x].balance = IF x = tx.sender THEN d[x].balance + c ELSE d[x].balance
          /\ r[x].sequence = IF x = tx.sender THEN SaturatingSub(d[x].sequence, 1) ELSE d[x].sequence
    BY <1>1, <1>4 DEF RevertTx, Ledgers, AccountState, d, c
  <1> HIDE DEF r
  <1>7. m[tx.sender].balance >= c /\ tx.sequence = m[tx.sender].sequence + 1
    BY DEF InOrder, c
  <1>8. ASSUME NEW x \in Accounts PROVE r[x].balance = m[x].balance /\ r[x].sequence = m[x].sequence
    BY <1>1, <1>2, <1>3, <1>5, <1>6, <1>7 DEF SaturatingSub
  <1> QED  BY <1>8 DEF Same, r

\* revert_coinbase does the same for apply_coinbase.
LEMMA SameUncredited ==
    ASSUME NEW l \in Ledgers, NEW m \in Ledgers, NEW a \in Accounts, NEW n \in Nat,
           Same(l, Credit(m, a, n))
    PROVE  Same(Debit(l, a, n), m)
  <1>1. \A x \in Accounts : l[x].balance \in Nat /\ m[x].balance \in Nat
    BY DEF Ledgers, AccountState
  <1>2. \A x \in Accounts : /\ l[x].balance = IF x = a THEN m[x].balance + n ELSE m[x].balance
                            /\ l[x].sequence = m[x].sequence
    <2>1. m \in IntLedgers
      BY LedgersAreInt
    <2>2. \A x \in Accounts :
            /\ Credit(m, a, n)[x].balance = IF x = a THEN m[x].balance + n ELSE m[x].balance
            /\ Credit(m, a, n)[x].sequence = m[x].sequence
      BY <2>1, CreditEffect
    <2> QED  BY <2>2 DEF Same
  <1>3. \A x \in Accounts :
          /\ Debit(l, a, n)[x].balance = IF x = a THEN SaturatingSub(l[x].balance, n) ELSE l[x].balance
          /\ Debit(l, a, n)[x].sequence = l[x].sequence
    BY DEF Debit, Ledgers, AccountState
  <1> QED  BY <1>1, <1>2, <1>3 DEF Same, SaturatingSub

-----------------------------------------------------------------------------
(* Replaying a chain                                                       *)

IsTxRun(f, l, txs, n) ==
    /\ f \in [0..n -> IntLedgers]
    /\ f[0] = l
    /\ \A k \in 1..n : f[k] = ApplyTxIbd(f[k - 1], txs[k])

\* Transactions can be applied one after the other without end.
LEMMA TxRunExists ==
    ASSUME NEW l \in IntLedgers, NEW txs, NEW n \in Nat, \A k \in 1..n : txs[k] \in Transaction
    PROVE  \E f : IsTxRun(f, l, txs, n)
  <1> DEFINE step == [k \in 1..n |-> [m \in IntLedgers |-> ApplyTxIbd(m, txs[k])]]
  <1>1. \A m \in IntLedgers, k \in 1..n : ApplyTxIbd(m, txs[k]) \in IntLedgers
    BY ApplyTxIbdEffect
  <1>2. step \in [1..n -> [IntLedgers -> IntLedgers]]
    BY <1>1
  <1>3. \A m \in IntLedgers, k \in 1..n : step[k][m] = ApplyTxIbd(m, txs[k])
    OBVIOUS
  <1> HIDE DEF step
  <1>4. PICK f \in [0..n -> IntLedgers] :
            f[0] = l /\ \A k \in 1..n : f[k] = step[k][f[k - 1]]
    BY ONLY <1>2, n \in Nat, l \in IntLedgers, Recursion
  <1>5. \A k \in 1..n : f[k] = ApplyTxIbd(f[k - 1], txs[k])
    <2>1. \A k \in 1..n : f[k - 1] \in IntLedgers
      BY <1>4
    <2> QED  BY <1>3, <1>4, <2>1
  <1> QED  BY <1>4, <1>5 DEF IsTxRun

\* ApplyAll is the end of such a run, whichever run it is.
LEMMA ApplyAllIsRun ==
    ASSUME NEW l, NEW txs, NEW n \in Nat, NEW f, IsTxRun(f, l, txs, n)
    PROVE  ApplyAll(l, txs, n) = f[n]
  <1> DEFINE Body(d) == [k \in 0..n |-> IF k = 0 THEN l ELSE ApplyTxIbd(d[k - 1], txs[k])]
             applied == CHOOSE d : d = Body(d)
  <1>1. ApplyAll(l, txs, n) = applied[n]
    BY DEF ApplyAll
  <1>2. f = Body(f)
    BY DEF IsTxRun
  <1>3. applied = Body(applied)
    <2> HIDE DEF Body
    <2> QED  BY <1>2
  <1> HIDE DEF applied
  <1>4. applied[0] = f[0]
    BY <1>2, <1>3
  <1>5. \A k \in 1..n : applied[k - 1] = f[k - 1] => applied[k] = f[k]
    BY <1>2, <1>3
  <1>6. applied[n] = f[n]
    <2> HIDE DEF Body
    <2> QED  BY <1>4, <1>5, SameRecursion
  <1> QED  BY <1>1, <1>6

\* ApplyAll, one transaction at a time.
LEMMA ApplyAllFacts ==
    ASSUME NEW l \in IntLedgers, NEW txs, NEW n \in Nat, \A k \in 1..n : txs[k] \in Transaction
    PROVE  /\ ApplyAll(l, txs, n) \in IntLedgers
           /\ n = 0 => ApplyAll(l, txs, n) = l
           /\ n > 0 => ApplyAll(l, txs, n) = ApplyTxIbd(ApplyAll(l, txs, n - 1), txs[n])
  <1>1. PICK f : IsTxRun(f, l, txs, n)
    BY TxRunExists
  <1>2. ApplyAll(l, txs, n) = f[n]
    BY <1>1, ApplyAllIsRun
  <1>3. f[n] \in IntLedgers /\ (n = 0 => f[n] = l)
    BY <1>1 DEF IsTxRun
  <1>4. ASSUME n > 0 PROVE f[n] = ApplyTxIbd(ApplyAll(l, txs, n - 1), txs[n])
    <2> DEFINE g == [k \in 0..n - 1 |-> f[k]]
    <2>1. IsTxRun(g, l, txs, n - 1)
      BY <1>1, <1>4 DEF IsTxRun
    <2>2. g[n - 1] = f[n - 1] /\ n - 1 \in Nat
      BY <1>4
    <2> HIDE DEF g
    <2>3. ApplyAll(l, txs, n - 1) = f[n - 1]
      BY <2>1, <2>2, ApplyAllIsRun
    <2>4. f[n] = ApplyTxIbd(f[n - 1], txs[n])
      BY <1>1, <1>4 DEF IsTxRun
    <2> QED  BY <2>3, <2>4
  <1> QED  BY <1>2, <1>3, <1>4

\* The ledger after the coinbase and the first n transactions of b.
Partial(l, b, n) == ApplyAll(ApplyCoinbase(l, b.miner, b.reward), b.transactions, n)
WithBlock(l, b) == Partial(l, b, Len(b.transactions))

\* The same for a block: first the coinbase, then one transaction at a time.
LEMMA PartialFacts ==
    ASSUME NEW l \in IntLedgers, NEW b \in Blocks, NEW n \in 0..Len(b.transactions)
    PROVE  /\ Partial(l, b, n) \in IntLedgers
           /\ n = 0 => Partial(l, b, n) = Credit(l, b.miner, b.reward)
           /\ n > 0 => Partial(l, b, n) = ApplyTxIbd(Partial(l, b, n - 1), b.transactions[n])
  <1>1. b.miner \in Accounts /\ b.reward \in Nat /\ Len(b.transactions) \in Nat
        /\ \A i \in 1..Len(b.transactions) : b.transactions[i] \in Transaction
    BY BlockFields
  <1>2. n \in Nat /\ \A i \in 1..n : b.transactions[i] \in Transaction
    BY <1>1
  <1>3. ApplyCoinbase(l, b.miner, b.reward) \in IntLedgers
    BY <1>1, CreditEffect DEF ApplyCoinbase
  <1> QED  BY <1>2, <1>3, ApplyAllFacts DEF Partial, ApplyCoinbase

\* A block takes a ledger to a ledger.
LEMMA WithBlockType ==
    ASSUME NEW l \in IntLedgers, NEW b \in Blocks
    PROVE  WithBlock(l, b) \in IntLedgers
  BY BlockFields, PartialFacts DEF WithBlock

IsReplayRun(f, bs, h) ==
    /\ f \in [0..h -> IntLedgers]
    /\ f[0] = NewTestnet
    /\ \A k \in 1..h : f[k] = WithBlock(f[k - 1], bs[k])

\* Every stored chain can be replayed.
LEMMA ReplayRunExists ==
    ASSUME NEW bs, NEW h \in Nat, \A k \in 1..h : bs[k] \in Blocks
    PROVE  \E f : IsReplayRun(f, bs, h)
  <1> DEFINE step == [k \in 1..h |-> [m \in IntLedgers |-> WithBlock(m, bs[k])]]
  <1>1. \A m \in IntLedgers, k \in 1..h : WithBlock(m, bs[k]) \in IntLedgers
    BY WithBlockType
  <1>2. step \in [1..h -> [IntLedgers -> IntLedgers]]
    BY <1>1
  <1>3. \A m \in IntLedgers, k \in 1..h : step[k][m] = WithBlock(m, bs[k])
    OBVIOUS
  <1>4. NewTestnet \in IntLedgers
    BY NewTestnetType, LedgersAreInt
  <1> HIDE DEF step
  <1>5. PICK f \in [0..h -> IntLedgers] :
            f[0] = NewTestnet /\ \A k \in 1..h : f[k] = step[k][f[k - 1]]
    BY ONLY <1>2, <1>4, h \in Nat, Recursion
  <1>6. \A k \in 1..h : f[k] = WithBlock(f[k - 1], bs[k])
    <2>1. \A k \in 1..h : f[k - 1] \in IntLedgers
      BY <1>5
    <2> QED  BY <1>3, <1>5, <2>1
  <1> QED  BY <1>5, <1>6 DEF IsReplayRun

\* Replay is the end of such a run, whichever run it is.
LEMMA ReplayIsRun ==
    ASSUME NEW bs, NEW h \in Nat, NEW f, IsReplayRun(f, bs, h)
    PROVE  Replay(bs, h) = f[h]
  <1> DEFINE Body(d) == [i \in 0..h |->
                IF i = 0 THEN NewTestnet
                ELSE ApplyAll(ApplyCoinbase(d[i - 1], bs[i].miner, bs[i].reward),
                              bs[i].transactions, Len(bs[i].transactions))]
             replayed == CHOOSE d : d = Body(d)
  <1>1. Replay(bs, h) = replayed[h]
    BY DEF Replay
  <1>2. f = Body(f)
    BY DEF IsReplayRun, WithBlock, Partial
  <1>3. replayed = Body(replayed)
    <2> HIDE DEF Body
    <2> QED  BY <1>2
  <1> HIDE DEF replayed
  <1>4. replayed[0] = f[0]
    BY <1>2, <1>3
  <1>5. \A k \in 1..h : replayed[k - 1] = f[k - 1] => replayed[k] = f[k]
    BY <1>2, <1>3
  <1>6. replayed[h] = f[h]
    <2> HIDE DEF Body
    <2> QED  BY <1>4, <1>5, SameRecursion
  <1> QED  BY <1>1, <1>6

\* Replay, one block at a time.
LEMMA ReplayFacts ==
    ASSUME NEW bs, NEW h \in Nat, \A k \in 1..h : bs[k] \in Blocks
    PROVE  /\ Replay(bs, h) \in IntLedgers
           /\ h = 0 => Replay(bs, h) = NewTestnet
           /\ h > 0 => Replay(bs, h) = WithBlock(Replay(bs, h - 1), bs[h])
  <1>1. PICK f : IsReplayRun(f, bs, h)
    BY ReplayRunExists
  <1>2. Replay(bs, h) = f[h]
    BY <1>1, ReplayIsRun
  <1>3. f[h] \in IntLedgers /\ (h = 0 => f[h] = NewTestnet)
    BY <1>1 DEF IsReplayRun
  <1>4. ASSUME h > 0 PROVE f[h] = WithBlock(Replay(bs, h - 1), bs[h])
    <2> DEFINE g == [k \in 0..h - 1 |-> f[k]]
    <2>1. IsReplayRun(g, bs, h - 1)
      BY <1>1, <1>4 DEF IsReplayRun
    <2>2. g[h - 1] = f[h - 1] /\ h - 1 \in Nat
      BY <1>4
    <2> HIDE DEF g
    <2>3. Replay(bs, h - 1) = f[h - 1]
      BY <2>1, <2>2, ReplayIsRun
    <2>4. f[h] = WithBlock(f[h - 1], bs[h])
      BY <1>1, <1>4 DEF IsReplayRun
    <2> QED  BY <2>3, <2>4
  <1> QED  BY <1>2, <1>3, <1>4

\* Only the blocks up to h matter.
LEMMA ReplayUnchanged ==
    ASSUME NEW bs, NEW bs2, NEW h \in Nat,
           \A k \in 1..h : bs[k] \in Blocks /\ bs2[k] = bs[k]
    PROVE  Replay(bs2, h) = Replay(bs, h)
  <1>1. PICK f : IsReplayRun(f, bs, h)
    BY ReplayRunExists
  <1>2. IsReplayRun(f, bs2, h)
    BY <1>1 DEF IsReplayRun
  <1> QED  BY <1>1, <1>2, ReplayIsRun

-----------------------------------------------------------------------------
(* Types through crashes                                                   *)

\* rebuild_from_chain gives a ledger, whatever blocks are missing.
LEMMA RebuildType ==
    ASSUME NEW bs \in [Heights -> Blocks \cup {NoBlock}], NEW h \in Heights
    PROVE  RebuildFromChain(bs, h) \in Ledgers
  <1> DEFINE Block1(l, k) == IF bs[k] = NoBlock THEN l
                             ELSE ApplyCoinbase(l, bs[k].miner, bs[k].reward)
             step == [k \in 1..h |-> [l \in Ledgers |-> Block1(l, k)]]
             Body(d) == [i \in 0..h |->
                IF i = 0 THEN NewTestnet
                ELSE IF bs[i] = NoBlock THEN d[i - 1]
                     ELSE ApplyCoinbase(d[i - 1], bs[i].miner, bs[i].reward)]
             rebuilt == CHOOSE d : d = Body(d)
  <1>0. h \in Nat /\ \A k \in 1..h : k \in Heights
    BY HeightFacts DEF Heights
  <1>1. \A l \in Ledgers, k \in 1..h : Block1(l, k) \in Ledgers
    BY <1>0, BlockFields, CreditType DEF ApplyCoinbase
  <1>2. step \in [1..h -> [Ledgers -> Ledgers]]
    <2> HIDE DEF Block1
    <2> QED  BY <1>1
  <1>3. \A l \in Ledgers, k \in 1..h : step[k][l] = Block1(l, k)
    <2> HIDE DEF Block1
    <2> QED  OBVIOUS
  <1> HIDE DEF step
  <1>4. PICK f : /\ f \in [0..h -> Ledgers]
                 /\ f[0] = NewTestnet /\ \A k \in 1..h : f[k] = step[k][f[k - 1]]
    BY ONLY <1>0, <1>2, NewTestnetType, Recursion
  <1>5. \A k \in 1..h : f[k] = Block1(f[k - 1], k)
    <2>1. \A k \in 1..h : f[k - 1] \in Ledgers
      BY <1>0, <1>4
    <2> HIDE DEF Block1
    <2> QED  BY <1>3, <1>4, <2>1
  <1>6. f = Body(f)
    BY <1>0, <1>4, <1>5
  <1>7. rebuilt = Body(rebuilt)
    <2> HIDE DEF Body
    <2> QED  BY <1>6
  <1>8. RebuildFromChain(bs, h) = rebuilt[h]
    BY DEF RebuildFromChain
  <1> HIDE DEF rebuilt
  <1>9. rebuilt[0] = f[0]
    BY <1>0, <1>6, <1>7
  <1>10. \A k \in 1..h : rebuilt[k - 1] = f[k - 1] => rebuilt[k] = f[k]
    BY <1>0, <1>6, <1>7
  <1>11. rebuilt[h] = f[h]
    <2> HIDE DEF Body
    <2>1. \A k \in 0..h : rebuilt[k] = f[k]
      BY <1>0, <1>9, <1>10, SameRecursion
    <2> QED  BY <1>0, <2>1
  <1> QED  BY <1>0, <1>4, <1>8, <1>11

\* Everything in memory and on disk, ledger.bin included.
AllTypes == TypeOK /\ ledgerFile \in Ledgers \cup {NoFile}

\* Loading gives values of the right types from whatever is on disk.
LEMMA RestartTypes == AllTypes /\ Shape /\ Restart => AllTypes'
  <1> SUFFICES ASSUME AllTypes, Shape, Restart PROVE AllTypes'
    OBVIOUS
  <1> USE HeightFacts DEF AllTypes
  <1>1. ledger' \in Ledgers
    BY RebuildType, NewTestnetType DEF TypeOK, Restart, LoadLedger
  <1>2. difficulty' \in Difficulties
    BY RecomputeType, DifficultyAssumption DEF TypeOK, Restart
  <1>3. Len(Genesis.transactions) \in Nat
    BY BlockFields
  <1>4. todo' \in 0..Len(cur'.transactions)
    BY <1>3 DEF Restart
  <1>5. target' \in 0..Alone
    BY DEF Restart, Alone
  <1> QED
    BY <1>1, <1>2, <1>4, <1>5 DEF TypeOK, Restart, Steps

\* Types and shape of the chain, through every crash.
LEMMA CrashTypes == CrashSpec => [](AllTypes /\ Shape)
  <1>1. RestartInit => AllTypes /\ Shape
    BY InitType, InitShape, NewTestnetType DEF RestartInit, AllTypes
  <1>2. AllTypes /\ Shape /\ [CrashNext]_allVars => AllTypes' /\ Shape'
    <2> SUFFICES ASSUME AllTypes, Shape, [CrashNext]_allVars PROVE AllTypes' /\ Shape'
      OBVIOUS
    <2>1. CASE [Next]_vars /\ ledgerFile' \in Ledgers \cup {NoFile}
      BY <2>1, NextType, ShapeStep DEF AllTypes
    <2>2. CASE Restart
      BY <2>2, RestartTypes, RestartShape
    <2>3. ledger \in Ledgers
      BY DEF AllTypes, TypeOK
    <2> QED
      BY <2>1, <2>2, <2>3 DEF CrashNext, Operation, SaveLedger, FormatChange, allVars, AllTypes
  <1> QED
    BY <1>1, <1>2, PTL DEF CrashSpec

(***************************************************************************)
(* A process that died between any two statements, or that finds its       *)
(* ledger.bin unreadable, comes back with a difficulty in range, a ledger  *)
(* without negative balances and indexes within the store.                 *)
(***************************************************************************)
THEOREM TypesSurviveCrashes == CrashSpec => []TypeOK
  <1>1. AllTypes /\ Shape => TypeOK
    BY DEF AllTypes
  <1> QED
    BY <1>1, CrashTypes, PTL

\* A process that is only stopped after a save is one that may die anywhere.
LEMMA CleanIsCrash == CleanSpec => CrashSpec
  <1>1. [CleanNext]_allVars => [CrashNext]_allVars
    BY DEF CleanNext, CrashNext, CleanRestart
  <1> QED
    BY <1>1, PTL DEF CleanSpec, CrashSpec

-----------------------------------------------------------------------------
(* The ledger of the block store                                           *)

\* The first n transactions of b were in order when they were applied on top
\* of the ledger l and the coinbase.
SoundBlock(l, b, n) ==
    /\ l \in Ledgers
    /\ \A i \in 1..n : /\ Partial(l, b, i - 1) \in Ledgers
                       /\ InOrder(Partial(l, b, i - 1), b.transactions[i])

SoundChain(bs, h) ==
    \A i \in 1..h : SoundBlock(Replay(bs, i - 1), bs[i], Len(bs[i].transactions))

\* Statements between which the ledger is that of the whole chain.
Resting == {"idle", "revert_next", "restore_difficulty", "put_prev_diff"}

\* What the ledger holds at each statement of an operation.
LedgerState ==
    /\ pc \in Resting => Same(ledger, Replay(blocks, height))
    /\ pc \in Applying =>
          LET n == Len(cur.transactions) - todo
          IN  /\ Same(ledger, Partial(Replay(blocks, height), cur, n))
              /\ SoundBlock(Replay(blocks, height), cur, n)
    /\ pc \in {"put_block", "put_height"} => todo = 0
    /\ pc = "revert_tx" =>
          /\ cur = blocks[height]
          /\ Same(ledger, Partial(Replay(blocks, height - 1), cur, todo))
    /\ pc \in {"delete_block", "put_height_down"} => Same(ledger, Replay(blocks, height - 1))
    /\ SoundChain(blocks, IF pc = "put_height_down" THEN height - 1 ELSE height)

\* A step in which no block is refused after its coinbase was credited, and a
\* transaction that is applied has its sender's next sequence number: apply_tx
\* insists on it, apply_tx_ibd does not look.
Orderly ==
    /\ ~RejectTx
    /\ ApplyNextTx => NextTx.sequence = ledger[NextTx.sender].sequence + 1

\* The blocks up to the tip are there, up to its parent while it is deleted.
LEMMA StoredBlocks ==
    ASSUME Shape, History
    PROVE  /\ height \in Nat /\ height \in Heights
           /\ \A k \in 1..height - 1 : blocks[k] \in Blocks
           /\ pc # "put_height_down" => \A k \in 1..height : blocks[k] \in Blocks
  <1>1. height \in Nat /\ height \in Heights /\ \A k \in 1..height : k \in Heights
    BY HeightFacts DEF Shape, ShapeTypes, Heights
  <1>2. \A k \in 1..height : blocks[k] # NoBlock => blocks[k] \in Blocks
    BY <1>1 DEF Shape, ShapeTypes
  <1>3. \A k \in 1..height - 1 : blocks[k] # NoBlock
    BY <1>1 DEF Shape, LinkedHistory
  <1>4. pc # "put_height_down" => \A k \in 1..height : blocks[k] # NoBlock
    BY <1>1, <1>3 DEF History, TipState
  <1> QED  BY <1>1, <1>2, <1>3, <1>4

\* What holds the same as a ledger has no negative balance.
LEMMA SameType ==
    ASSUME NEW l \in Ledgers, NEW m \in IntLedgers, Same(l, m)
    PROVE  m \in Ledgers
  BY DEF Same, Ledgers, IntLedgers, AccountState

\* A step between statements that touches neither chain nor ledger.
LEMMA LedgerKept ==
    ASSUME LedgerState, UNCHANGED <<blocks, height, ledger>>, pc \in Resting, pc' \in Resting
    PROVE  LedgerState'
  BY DEF LedgerState, Resting, Applying

\* A change above height h of the store.
LEMMA SoundUnchanged ==
    ASSUME NEW bs, NEW bs2, NEW h \in Nat,
           \A k \in 1..h : bs[k] \in Blocks /\ bs2[k] = bs[k],
           SoundChain(bs, h)
    PROVE  SoundChain(bs2, h)
  <1> SUFFICES ASSUME NEW i \in 1..h
               PROVE  SoundBlock(Replay(bs2, i - 1), bs2[i], Len(bs2[i].transactions))
    BY DEF SoundChain
  <1>1. i - 1 \in Nat /\ \A k \in 1..i - 1 : bs[k] \in Blocks /\ bs2[k] = bs[k]
    OBVIOUS
  <1>2. Replay(bs2, i - 1) = Replay(bs, i - 1)
    BY <1>1, ReplayUnchanged
  <1> QED  BY <1>2 DEF SoundChain

\* The coinbase is credited: the block has no transaction applied yet.
LEMMA LedgerBegin ==
    ASSUME TypeOK, Shape, History, LedgerState, NEW b \in Blocks, NEW i \in BOOLEAN, BeginApply(b, i)
    PROVE  LedgerState'
  <1> DEFINE R == Replay(blocks, height)
  <1>1. /\ pc = "idle" /\ pc' = "apply_tx" /\ blocks' = blocks /\ height' = height /\ cur' = b
        /\ todo' = Len(b.transactions) /\ ledger' = Credit(ledger, b.miner, b.reward)
    BY DEF BeginApply, ApplyCoinbase, chainVars
  <1>2. b.miner \in Accounts /\ b.reward \in Nat /\ Len(b.transactions) \in Nat
    BY BlockFields
  <1>3. R \in IntLedgers
    BY <1>1, StoredBlocks, ReplayFacts
  <1>4. ledger \in Ledgers /\ ledger \in IntLedgers
    BY LedgersAreInt DEF TypeOK
  <1>5. Same(ledger, R)
    BY <1>1 DEF LedgerState, Resting
  <1>6. R \in Ledgers
    BY <1>3, <1>4, <1>5, SameType
  <1> HIDE DEF R
  <1>7. Partial(R, b, 0) = Credit(R, b.miner, b.reward)
    BY <1>2, <1>3, PartialFacts
  <1>8. Same(ledger', Partial(R, b, 0))
    BY <1>1, <1>2, <1>3, <1>4, <1>5, <1>7, SameCredited
  <1>9. SoundBlock(R, b, 0)
    BY <1>6 DEF SoundBlock
  <1>10. Len(b.transactions) - Len(b.transactions) = 0
    BY <1>2
  <1> QED
    BY <1>1, <1>8, <1>9, <1>10 DEF LedgerState, Resting, Applying, R

\* One more transaction of the block is applied, in order.
LEMMA LedgerApplies ==
    ASSUME TypeOK, Shape, History, LedgerState, ApplyNextTx, Orderly
    PROVE  LedgerState'
  <1> DEFINE R == Replay(blocks, height)
             n == Len(cur.transactions) - todo
             P == Partial(R, cur, n)
             tx == cur.transactions[n + 1]
  <1>1. /\ pc = "apply_tx" /\ pc' = pc /\ blocks' = blocks /\ height' = height /\ cur' = cur
        /\ todo > 0 /\ todo' = todo - 1
    BY DEF ApplyNextTx, chainVars
  <1>2. cur \in Blocks /\ Len(cur.transactions) \in Nat /\ todo \in 0..Len(cur.transactions)
    BY BlockFields DEF TypeOK
  <1>3. /\ n \in Nat /\ n + 1 \in 1..Len(cur.transactions) /\ n \in 0..Len(cur.transactions)
        /\ Len(cur.transactions) - todo' = n + 1 /\ (n + 1) - 1 = n
    BY <1>1, <1>2
  <1>4. NextTx = tx /\ tx \in Transaction
    BY <1>2, <1>3, BlockFields DEF NextTx
  <1>5. R \in IntLedgers
    BY <1>1, StoredBlocks, ReplayFacts
  <1> HIDE DEF n, tx, R
  <1>6. P \in IntLedgers /\ Partial(R, cur, n + 1) = ApplyTxIbd(P, cur.transactions[n + 1])
    BY <1>2, <1>3, <1>5, PartialFacts
  <1> HIDE DEF P
  <1>7. ledger \in Ledgers /\ ledger \in IntLedgers
    BY LedgersAreInt DEF TypeOK
  <1>8. Same(ledger, P) /\ SoundBlock(R, cur, n)
    BY <1>1 DEF LedgerState, Applying, P, R, n
  <1>9. InOrder(ledger, tx)
    BY <1>4 DEF ApplyNextTx, Orderly, Accepted, CanApplyTx, CanApplyTxIbd, InOrder
  <1>10. ledger' = ApplyTxIbd(ledger, tx)
    BY <1>4, <1>7, <1>9, ApplyTxEffect DEF ApplyNextTx, InOrder
  <1>11. Same(ledger', Partial(R, cur, n + 1))
    BY <1>4, <1>6, <1>7, <1>8, <1>10, SameApplied DEF tx
  <1>12. P \in Ledgers /\ InOrder(P, tx)
    BY <1>4, <1>6, <1>7, <1>8, <1>9, SameType, TxFields DEF Same, InOrder
  <1>13. SoundBlock(R, cur, n + 1)
    BY <1>3, <1>8, <1>12 DEF SoundBlock, P, tx
  <1> QED
    BY <1>1, <1>3, <1>11, <1>13 DEF LedgerState, Resting, Applying, R

\* The new block is above the chain as long as meta:h is not put.
LEMMA LedgerPutBlock ==
    ASSUME TypeOK, Shape, History, LedgerState, PutBlock
    PROVE  LedgerState'
  <1>1. /\ pc = "put_block" /\ pc' = "put_height"
        /\ UNCHANGED <<height, ledger, cur, todo>>
    BY DEF PutBlock
  <1>2. height \in Nat /\ \A k \in 1..height : blocks[k] \in Blocks
    BY <1>1, StoredBlocks
  <1>3. cur.index = height + 1 /\ \A k \in 1..height : k \in Heights
    BY HeightFacts DEF PutBlock, Shape, ShapeTypes, OperationState, Applying, Heights
  <1>4. \A k \in 1..height : blocks'[k] = blocks[k]
    BY <1>2, <1>3 DEF PutBlock, Shape, ShapeTypes
  <1>5. Replay(blocks', height) = Replay(blocks, height)
    BY <1>2, <1>4, ReplayUnchanged
  <1>6. SoundChain(blocks', height)
    BY <1>1, <1>2, <1>4, SoundUnchanged DEF LedgerState
  <1> QED
    BY <1>1, <1>5, <1>6 DEF LedgerState, Resting, Applying

\* The block counts as part of the chain: the ledger is that of the whole chain.
LEMMA LedgerPutHeight ==
    ASSUME TypeOK, Shape, History, LedgerState, PutHeight
    PROVE  LedgerState'
  <1> DEFINE R == Replay(blocks, height)
  <1>1. /\ pc = "put_height" /\ pc' \in Resting /\ height' = height + 1
        /\ UNCHANGED <<blocks, ledger, cur, todo>> /\ todo = 0
        /\ blocks[height + 1] = cur /\ cur \in Blocks
    BY DEF PutHeight, Shape, ShapeTypes, OperationState, Applying, LedgerState, Resting
  <1>2. height \in Nat /\ height + 1 \in Nat /\ (height + 1) - 1 = height
        /\ \A k \in 1..height + 1 : blocks[k] \in Blocks
    BY <1>1, StoredBlocks
  <1>3. Len(cur.transactions) \in Nat /\ Len(cur.transactions) - todo = Len(cur.transactions)
    BY <1>1, BlockFields
  <1>4. Same(ledger, Partial(R, cur, Len(cur.transactions))) /\ SoundBlock(R, cur, Len(cur.transactions))
    BY <1>1, <1>3 DEF LedgerState, Applying
  <1>5. Replay(blocks, height + 1) = WithBlock(R, cur)
    BY <1>1, <1>2, ReplayFacts
  <1>6. SoundChain(blocks, height + 1)
    <2>1. SoundChain(blocks, height)
      BY <1>1 DEF LedgerState
    <2>2. ASSUME NEW i \in 1..height + 1
          PROVE  SoundBlock(Replay(blocks, i - 1), blocks[i], Len(blocks[i].transactions))
      <3>1. CASE i \in 1..height
        BY <2>1, <3>1 DEF SoundChain
      <3>2. CASE i = height + 1
        BY <1>1, <1>2, <1>4, <3>2
      <3> QED  BY <1>2, <3>1, <3>2
    <2> QED  BY <2>2 DEF SoundChain
  <1> QED
    BY <1>1, <1>4, <1>5, <1>6 DEF LedgerState, Resting, Applying, WithBlock

\* The tip is about to be reverted: the ledger is that of its parent and all of it.
LEMMA LedgerBeginRevert ==
    ASSUME TypeOK, Shape, History, LedgerState, BeginRevert, pc \in Resting
    PROVE  LedgerState'
  <1> DEFINE R == Replay(blocks, height - 1)
  <1>1. /\ pc' = "revert_tx" /\ height' = height /\ blocks' = blocks /\ ledger' = ledger
        /\ cur' = blocks[height] /\ todo' = Len(blocks[height].transactions) /\ height > 0
    BY DEF BeginRevert, chainVars
  <1>2. height \in Nat /\ \A k \in 1..height : blocks[k] \in Blocks
    BY StoredBlocks DEF Resting
  <1>3. Replay(blocks, height) = Partial(R, blocks[height], Len(blocks[height].transactions))
    BY <1>1, <1>2, ReplayFacts DEF WithBlock
  <1>4. Same(ledger, Replay(blocks, height)) /\ SoundChain(blocks, height)
    BY DEF LedgerState, Resting
  <1> QED
    BY <1>1, <1>3, <1>4 DEF LedgerState, Resting, Applying

\* One transaction is taken back, the last one that is still applied.
LEMMA LedgerRevertTx ==
    ASSUME TypeOK, Shape, History, LedgerState, RevertNextTx
    PROVE  LedgerState'
  <1> DEFINE R == Replay(blocks, height - 1)
             P == Partial(R, cur, todo - 1)
             tx == cur.transactions[todo]
  <1>1. /\ pc = "revert_tx" /\ pc' = pc /\ blocks' = blocks /\ height' = height /\ cur' = cur
        /\ todo > 0 /\ todo' = todo - 1 /\ ledger' = RevertTx(ledger, tx)
    BY DEF RevertNextTx, chainVars
  <1>2. height \in Nat /\ height > 0 /\ height - 1 \in Nat /\ \A k \in 1..height - 1 : blocks[k] \in Blocks
    BY <1>1, StoredBlocks DEF Shape, OperationState, Reverting
  <1>3. cur \in Blocks /\ cur = blocks[height] /\ Same(ledger, Partial(R, cur, todo))
    BY <1>1 DEF TypeOK, LedgerState
  <1>4. Len(cur.transactions) \in Nat /\ todo \in 1..Len(cur.transactions)
    BY <1>1, <1>3, BlockFields DEF TypeOK
  <1>5. tx \in Transaction
    BY <1>3, <1>4, BlockFields
  <1>6. R \in IntLedgers
    BY <1>2, ReplayFacts
  <1>7. SoundBlock(R, cur, Len(cur.transactions))
    BY <1>1, <1>2, <1>3 DEF LedgerState, SoundChain
  <1> HIDE DEF R
  <1>8. Partial(R, cur, todo) = ApplyTxIbd(P, tx)
    BY <1>3, <1>4, <1>6, PartialFacts
  <1>9. P \in Ledgers /\ InOrder(P, tx)
    BY <1>4, <1>7 DEF SoundBlock
  <1> HIDE DEF P, tx
  <1>10. ledger \in Ledgers
    BY DEF TypeOK
  <1>11. Same(ledger', P)
    BY <1>1, <1>3, <1>5, <1>8, <1>9, <1>10, SameReverted
  <1> QED
    BY <1>1, <1>3, <1>11 DEF LedgerState, Resting, Applying, P, R

\* The coinbase is taken back: the ledger is that of the parent.
LEMMA LedgerRevertReward ==
    ASSUME TypeOK, Shape, History, LedgerState, RevertReward
    PROVE  LedgerState'
  <1> DEFINE R == Replay(blocks, height - 1)
  <1>1. /\ pc = "revert_tx" /\ pc' = "delete_block" /\ blocks' = blocks /\ height' = height
        /\ todo = 0 /\ ledger' = Debit(ledger, cur.miner, cur.reward)
    BY DEF RevertReward, RevertCoinbase, chainVars
  <1>2. height \in Nat /\ height > 0 /\ height - 1 \in Nat /\ \A k \in 1..height - 1 : blocks[k] \in Blocks
    BY <1>1, StoredBlocks DEF Shape, OperationState, Reverting
  <1>3. cur \in Blocks /\ cur = blocks[height] /\ Same(ledger, Partial(R, cur, 0))
    BY <1>1 DEF TypeOK, LedgerState
  <1>4. cur.miner \in Accounts /\ cur.reward \in Nat /\ Len(cur.transactions) \in Nat
    BY <1>3, BlockFields
  <1>5. R \in Ledgers /\ R \in IntLedgers
    BY <1>1, <1>2, LedgersAreInt DEF LedgerState, SoundChain, SoundBlock
  <1> HIDE DEF R
  <1>6. Partial(R, cur, 0) = Credit(R, cur.miner, cur.reward)
    BY <1>3, <1>4, <1>5, PartialFacts
  <1>7. ledger \in Ledgers
    BY DEF TypeOK
  <1>8. Same(ledger', R)
    BY <1>1, <1>3, <1>4, <1>5, <1>6, <1>7, SameUncredited
  <1> QED
    BY <1>1, <1>8 DEF LedgerState, Resting, Applying, R

\* Deleting the tip does not touch what the parent's chain says.
LEMMA LedgerDeletes ==
    ASSUME TypeOK, Shape, History, LedgerState, DeleteBlock
    PROVE  LedgerState'
  <1>1. /\ pc = "delete_block" /\ pc' = "put_height_down" /\ height' = height /\ ledger' = ledger
    BY DEF DeleteBlock
  <1>2. height \in Nat /\ height > 0 /\ height - 1 \in Nat /\ \A k \in 1..height - 1 : blocks[k] \in Blocks
    BY <1>1, StoredBlocks DEF Shape, OperationState, Reverting
  <1>3. \A k \in 1..height - 1 : blocks'[k] = blocks[k]
    BY <1>2 DEF DeleteBlock, Shape, ShapeTypes, Heights
  <1>4. Replay(blocks', height - 1) = Replay(blocks, height - 1)
    BY <1>2, <1>3, ReplayUnchanged
  <1>5. SoundChain(blocks, height - 1)
    BY <1>1, <1>2 DEF LedgerState, SoundChain
  <1>6. SoundChain(blocks', height - 1)
    BY <1>2, <1>3, <1>5, SoundUnchanged
  <1> QED
    BY <1>1, <1>4, <1>6 DEF LedgerState, Resting, Applying

\* Every orderly statement keeps the ledger in step with the chain.
LEMMA LedgerStep ==
    TypeOK /\ Shape /\ History /\ LedgerState /\ [Next]_vars /\ (Next => Orderly) => LedgerState'
  <1> SUFFICES ASSUME TypeOK, Shape, History, LedgerState, [Next]_vars, Next => Orderly
               PROVE  LedgerState'
    OBVIOUS
  <1>1. ASSUME NEW b \in Blocks, NEW i \in BOOLEAN, BeginApply(b, i) PROVE LedgerState'
    BY <1>1, LedgerBegin
  <1>2. CASE ApplyNextTx
    BY <1>2, LedgerApplies DEF Next
  <1>3. CASE RejectTx
    BY <1>3 DEF Next, Orderly
  <1>4. CASE TxsApplied
    BY <1>4 DEF TxsApplied, chainVars, LedgerState, Resting, Applying
  <1>5. CASE PutBlock
    BY <1>5, LedgerPutBlock
  <1>6. CASE PutHeight
    BY <1>6, LedgerPutHeight
  <1>7. CASE PutPrevDiff \/ RevertDone \/ RestoreDifficulty
    BY <1>7, LedgerKept DEF PutPrevDiff, RevertDone, RestoreDifficulty, AfterRevert, Resting
  <1>8. CASE RevertTip \/ RevertNext
    BY <1>8, LedgerBeginRevert DEF RevertTip, RevertNext, Resting
  <1>9. ASSUME NEW t \in Heights, RevertToHeight(t) PROVE LedgerState'
    BY <1>9, LedgerKept DEF RevertToHeight, chainVars, Resting
  <1>10. CASE RevertNextTx
    BY <1>10, LedgerRevertTx
  <1>11. CASE RevertReward
    BY <1>11, LedgerRevertReward
  <1>12. CASE DeleteBlock
    BY <1>12, LedgerDeletes
  <1>13. CASE PutHeightDown
    BY <1>13 DEF PutHeightDown, AfterRevert, LedgerState, Resting, Applying
  <1>14. CASE UNCHANGED vars
    BY <1>14 DEF vars, LedgerState
  <1> QED
    BY <1>1, <1>2, <1>3, <1>4, <1>5, <1>6, <1>7, <1>8, <1>9, <1>10, <1>11, <1>12, <1>13, <1>14
    DEF Next, ApplyBlock, ApplyBlockIbd

\* A restart after a save loads the ledger that was in memory.
LEMMA LedgerRestart ==
    TypeOK /\ History /\ LedgerState /\ CleanRestart => LedgerState'
  <1> SUFFICES ASSUME TypeOK, History, LedgerState, CleanRestart PROVE LedgerState'
    OBVIOUS
  <1>1. ledger' = ledger
    BY RestartAssumption DEF TypeOK, CleanRestart, Restart, LoadLedger
  <1> QED
    BY <1>1, LedgerKept DEF CleanRestart, Restart, Resting

\* The ledger of a new chain is the premine.
LEMMA InitLedger == Init => LedgerState
  <1> SUFFICES ASSUME Init PROVE LedgerState
    OBVIOUS
  <1>1. Replay(blocks, 0) = NewTestnet
    BY ReplayFacts
  <1> QED
    BY <1>1 DEF Init, LedgerState, Same, SoundChain, Resting, Applying

(***************************************************************************)
(* As long as no block is refused halfway and no downloaded block skips a  *)
(* sequence number, every balance and every sequence number is, between    *)
(* operations, what applying the stored blocks once in order gives:        *)
(* apply_block, apply_block_ibd, revert_tip, reorganisations and clean     *)
(* restarts leave no trace, fees and self-payments included.               *)
(***************************************************************************)
THEOREM LedgerAlwaysReplay == CleanSpec /\ [][Orderly]_allVars => []LedgerIsReplay
  <1>1. RestartInit => LedgerState
    BY InitLedger DEF RestartInit
  <1>2. TypeOK /\ Shape /\ History /\ LedgerState /\ [CleanNext]_allVars /\ [Orderly]_allVars
          => LedgerState'
    <2> SUFFICES ASSUME TypeOK, Shape, History, LedgerState, [CleanNext]_allVars, [Orderly]_allVars
                 PROVE  LedgerState'
      OBVIOUS
    <2>1. CASE UNCHANGED vars
      BY <2>1 DEF vars, LedgerState
    <2>2. CASE Next /\ ~ UNCHANGED vars
      BY <2>2, LedgerStep DEF allVars
    <2>3. CASE CleanRestart
      BY <2>3, LedgerRestart
    <2> QED
      BY <2>1, <2>2, <2>3 DEF CleanNext, Operation, SaveLedger, allVars
  <1>3. LedgerState => LedgerIsReplay
    BY SameHoldings DEF LedgerState, LedgerIsReplay, Resting
  <1>4. AllTypes => TypeOK
    BY DEF AllTypes
  <1> QED
    BY <1>1, <1>2, <1>3, <1>4, CleanIsCrash, CrashTypes, CleanHistory, PTL DEF CleanSpec

=============================================================================

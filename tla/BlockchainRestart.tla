-------------------------- MODULE BlockchainRestart --------------------------
(***************************************************************************)
(* The process around the block store: ledger.bin is written now and then  *)
(* (save_state), the process may die between any two statements, and a     *)
(* restart runs Blockchain::load_or_create and                             *)
(* Ledger::load_or_create_testnet on what the disk holds.  Also what the   *)
(* stored blocks say the ledger and the difficulty should be.              *)
(* The migrations from chain.json and ledger.json are not modelled.        *)
(***************************************************************************)
EXTENDS Blockchain

CONSTANT NoFile  \* ledger.bin is absent or not readable in this format

ASSUME RestartAssumption == NoFile \notin Ledgers

VARIABLE ledgerFile  \* ledger.bin, replaced atomically (tmp, then rename)

allVars == <<vars, ledgerFile>>

-----------------------------------------------------------------------------
(* What the chain says                                                     *)

HasBlock(bs, h) == h \in Heights /\ bs[h] # NoBlock

\* recompute_difficulty_from_chain: from genesis, one step per boundary, until
\* the first boundary block that is missing.
RecomputeDifficulty(bs, h) ==
    LET windows == h \div DAA_WINDOW
        diff[k \in 0..windows] ==
            IF k = 0 THEN TESTNET_DIFFICULTY
            ELSE IF \A j \in 0..k : HasBlock(bs, j * DAA_WINDOW)
                 THEN AdjustDifficultyStep(diff[k - 1], WindowMs(bs, k * DAA_WINDOW))
                 ELSE diff[k - 1]
    IN  diff[windows]

\* rebuild_from_chain: the premine and every coinbase reward.
RebuildFromChain(bs, h) ==
    LET rebuilt[i \in 0..h] ==
            IF i = 0 THEN NewTestnet
            ELSE IF bs[i] = NoBlock THEN rebuilt[i - 1]
                 ELSE ApplyCoinbase(rebuilt[i - 1], bs[i].miner, bs[i].reward)
    IN  rebuilt[h]

\* The ledger after the first n of these transactions.
ApplyAll(l, txs, n) ==
    LET applied[k \in 0..n] == IF k = 0 THEN l ELSE ApplyTxIbd(applied[k - 1], txs[k])
    IN  applied[n]

\* The ledger the blocks 1..h produce when each of them, transactions
\* included, is applied exactly once in order.
Replay(bs, h) ==
    LET replayed[i \in 0..h] ==
            IF i = 0 THEN NewTestnet
            ELSE ApplyAll(ApplyCoinbase(replayed[i - 1], bs[i].miner, bs[i].reward),
                          bs[i].transactions, Len(bs[i].transactions))
    IN  replayed[h]

-----------------------------------------------------------------------------
(* Saving, dying, restarting                                               *)

\* save_state takes the ledger's read lock, so no operation is running.
SaveLedger ==
    /\ pc = "idle"
    /\ ledgerFile' = ledger
    /\ UNCHANGED vars

\* A release with another bincode layout cannot read the old file.
FormatChange ==
    /\ pc = "idle"
    /\ ledgerFile' = NoFile
    /\ UNCHANGED vars

LoadLedger(bs, h) ==
    IF ledgerFile # NoFile THEN ledgerFile
    ELSE IF h > 0 THEN RebuildFromChain(bs, h) ELSE NewTestnet

\* Death and restart in one step: everything in memory is replaced.  meta:d is
\* overruled by the recomputed value whatever it holds.
Restart ==
    /\ difficulty' = IF height = 0 THEN TESTNET_DIFFICULTY
                     ELSE RecomputeDifficulty(blocks, height)
    /\ ledger' = LoadLedger(blocks, height)
    /\ ledgerFile' = ledger'
    /\ pc' = "idle"
    /\ cur' = Genesis
    /\ ibd' = FALSE
    /\ todo' = 0
    /\ target' = Alone
    /\ UNCHANGED <<blocks, prevDiff, height>>

\* Stopping after a save.
CleanRestart == pc = "idle" /\ ledgerFile = ledger /\ Restart

Operation == Next /\ UNCHANGED ledgerFile

RestartInit == Init /\ ledgerFile = NewTestnet

\* The process is only stopped after a save.
CleanNext == Operation \/ SaveLedger \/ CleanRestart
CleanSpec == RestartInit /\ [][CleanNext]_allVars

\* The process may die anywhere, and find its ledger file unreadable.
CrashNext == Operation \/ SaveLedger \/ FormatChange \/ Restart
CrashSpec == RestartInit /\ [][CrashNext]_allVars

-----------------------------------------------------------------------------
(* Properties                                                              *)

\* Between operations the difficulty new blocks are held to is the one the
\* stored chain determines from genesis, although apply_block advances it one
\* boundary at a time and revert_tip takes it from a snapshot.
DifficultyCanonical ==
    pc = "idle" => difficulty = RecomputeDifficulty(blocks, height)

\* Between operations balances and sequence numbers are those of the blocks
\* of the chain, each applied once: apply, revert and reorg leave no trace.
LedgerIsReplay ==
    pc = "idle" => Holdings(ledger) = Holdings(Replay(blocks, height))

\* At every moment, an operation running or not and whatever crashed before,
\* every block below the tip is stored, and the stored blocks up to the tip
\* are one chain: consecutive indexes, every prev_hash the hash below.
LinkedHistory ==
    /\ \A h \in 0..height - 1 : blocks[h] # NoBlock
    /\ \A h \in 1..height :
          blocks[h] # NoBlock => /\ blocks[h].index = h
                                 /\ blocks[h].prev_hash = blocks[h - 1].hash

\* A block of a checkpoint height is in the chain only with the checkpoint's
\* hash, whatever was reverted and applied again.
CheckpointsHold ==
    \A c \in DOMAIN Checkpoints :
        c <= height /\ blocks[c] # NoBlock => blocks[c].hash = Checkpoints[c]

\* revert_to_height never takes the chain below a checkpoint it has passed.
NeverBelowCheckpoint ==
    [][target # Alone /\ height' < height
         => \A c \in DOMAIN Checkpoints : c <= height => c <= height']_allVars

\* The stored chain as a log; the tip is gone once its block is deleted.
StoredTop == IF blocks[height] = NoBlock THEN height - 1 ELSE height
StoredLog == [i \in 1..StoredTop + 1 |-> blocks[i - 1]]

Abstract == INSTANCE ChainLog WITH log <- StoredLog

\* Every operation, reorg and clean restart of the block store is an append,
\* a truncation by one, or invisible, and every appended block met the
\* difficulty its own history asks for.
ImplementsChainLog == Abstract!LogSpec

=============================================================================

------------------------------ MODULE ChainLog ------------------------------
(***************************************************************************)
(* What the block store promises its callers: a log of blocks from genesis *)
(* that grows at its end by a block naming the last one as its parent and  *)
(* carrying the work the log itself asks for, and shrinks one block at a   *)
(* time, never losing genesis.  The difficulty is not state here: it is    *)
(* recomputed from the whole log, as recompute_difficulty_from_chain does. *)
(***************************************************************************)
EXTENDS Difficulty, Sequences

CONSTANTS Blocks, Genesis, Checkpoints

VARIABLE log  \* log[h + 1] is the block of height h

\* The difficulty a block after this log must meet.
RequiredDifficulty(l) ==
    LET windows == (Len(l) - 1) \div DAA_WINDOW
        at(h) == l[h + 1].timestamp
        diff[k \in 0..windows] ==
            IF k = 0 THEN TESTNET_DIFFICULTY
            ELSE AdjustDifficultyStep(
                    diff[k - 1],
                    SaturatingSub(at(k * DAA_WINDOW), at((k - 1) * DAA_WINDOW)))
    IN  diff[windows]

Extend(b) ==
    /\ b.index = Len(log)
    /\ b.prev_hash = log[Len(log)].hash
    /\ b.index \in DOMAIN Checkpoints => b.hash = Checkpoints[b.index]
    /\ b.bits >= RequiredDifficulty(log)
    /\ log' = Append(log, b)

Retract ==
    /\ Len(log) > 1
    /\ log' = SubSeq(log, 1, Len(log) - 1)

LogInit == log = <<Genesis>>

LogNext == (\E b \in Blocks : Extend(b)) \/ Retract

LogSpec == LogInit /\ [][LogNext]_log

=============================================================================

----------------------------- MODULE Difficulty -----------------------------
(***************************************************************************)
(* The difficulty adjustment of taron-core/src/blockchain.rs: every        *)
(* DAA_WINDOW blocks the difficulty moves by at most two bits, depending on*)
(* how long the window took.                                               *)
(***************************************************************************)
EXTENDS U64

CONSTANTS
    DAA_WINDOW,          \* blocks between two adjustments
    TARGET_BLOCK_MS,     \* target time per block
    TESTNET_DIFFICULTY,  \* difficulty of the first window
    MAX_DIFFICULTY       \* upper end of the clamp, 30 in the code

Difficulties == 1..MAX_DIFFICULTY

ASSUME DifficultyAssumption ==
    /\ DAA_WINDOW \in Nat \ {0}
    /\ TARGET_BLOCK_MS \in Nat \ {0}
    /\ MAX_DIFFICULTY \in Nat
    /\ TESTNET_DIFFICULTY \in Difficulties

\* Mutant: the clamp without its upper end.
ClampDifficultyLow(d) == IF d < 1 THEN 1 ELSE d

ClampDifficulty(d) ==
    IF d < 1 THEN 1 ELSE IF d > MAX_DIFFICULTY THEN MAX_DIFFICULTY ELSE d

\* ms: the time the window took.
AdjustDifficultyStep(d, ms) ==
    LET goal == TARGET_BLOCK_MS * DAA_WINDOW
    IN  ClampDifficulty(
            CASE 0 < ms /\ ms < goal \div 4                   -> d + 2
              [] ms = 0 \/ (goal \div 4 <= ms /\ ms < goal)   -> d + 1
              [] goal < ms /\ ms <= 4 * goal                  -> SaturatingSub(d, 1)
              [] 4 * goal < ms                                -> SaturatingSub(d, 2)
              [] OTHER                                        -> d)

\* Heights at which the difficulty is adjusted.
IsBoundary(h) == h > 0 /\ h % DAA_WINDOW = 0

=============================================================================

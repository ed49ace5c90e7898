------------------------------ MODULE VarDiff ------------------------------
(***************************************************************************)
(* The share difficulty of a pool worker (taron-pool/src/vardiff.rs).  How *)
(* far a share moves it depends on the time since the last one, through an *)
(* average and a power that are floating point; a share is taken to move   *)
(* it anywhere within the limits the code puts on one step.                *)
(***************************************************************************)
EXTENDS Naturals

CONSTANTS MIN_SHARE_DIFFICULTY,  \* 4
          MAX_SHARE_DIFFICULTY   \* 62

ASSUME VarDiffAssumption ==
    /\ MIN_SHARE_DIFFICULTY \in Nat /\ MAX_SHARE_DIFFICULTY \in Nat
    /\ MIN_SHARE_DIFFICULTY <= MAX_SHARE_DIFFICULTY

\* A step multiplies by a factor in [3^-0.8, 3^0.8], in thousandths.
MIN_FACTOR == 415
MAX_FACTOR == 2409

Rounded(thousandths) == (thousandths + 500) \div 1000

Ceiling(blockDifficulty) ==
    IF blockDifficulty < MAX_SHARE_DIFFICULTY THEN blockDifficulty ELSE MAX_SHARE_DIFFICULTY

\* clamp(4, ceiling) panics when the ceiling is below its floor.
ClampPanics(blockDifficulty) == Ceiling(blockDifficulty) < MIN_SHARE_DIFFICULTY

ClampShare(d, blockDifficulty) ==
    IF d < MIN_SHARE_DIFFICULTY THEN MIN_SHARE_DIFFICULTY
    ELSE IF d > Ceiling(blockDifficulty) THEN Ceiling(blockDifficulty) ELSE d

\* The difficulties on_share may leave a worker of difficulty d with.
OnShare(d, blockDifficulty) ==
    {ClampShare(x, blockDifficulty) : x \in Rounded(d * MIN_FACTOR)..Rounded(d * MAX_FACTOR)}

=============================================================================

--------------------------------- MODULE U64 ---------------------------------
(* The saturating arithmetic of Rust's u64 that the core crate relies on.    *)
EXTENDS Naturals

CONSTANT MAX_U64  \* u64::MAX

ASSUME U64Assumption == MAX_U64 \in Nat

SaturatingAdd(a, b) == IF a + b > MAX_U64 THEN MAX_U64 ELSE a + b

SaturatingSub(a, b) == IF a < b THEN 0 ELSE a - b

=============================================================================

---------------------------- MODULE TachyonGuard ----------------------------
(***************************************************************************)
(* The duplicate share detector of the pool (taron-pool/src/dedup.rs):     *)
(* three buckets of keys in a ring.  A bucket is emptied when the ring     *)
(* comes round to it, which happens lazily, on the first share after       *)
(* BUCKET_TTL.                                                             *)
(***************************************************************************)
EXTENDS Naturals

CONSTANTS
    BUCKET_TTL,     \* time a bucket is written to before the next is taken
    Mix(_, _)       \* nonce XOR fnv1a64(worker)

ASSUME GuardAssumption == BUCKET_TTL \in Nat \ {0}

NewGuard(now) == [buckets |-> [i \in 0..2 |-> {}], current |-> 0, last_rotate |-> now]

\* Two workers can share a key, one worker's nonces never do.
MakeKey(index, nonce, worker) == <<index, Mix(nonce, worker)>>

\* Mutant: the ring closes after two buckets.
MaybeRotateTwo(g, now) ==
    IF now - g.last_rotate < BUCKET_TTL THEN g
    ELSE LET next == (g.current + 1) % 2
         IN  [buckets |-> [g.buckets EXCEPT ![next] = {}], current |-> next, last_rotate |-> now]

MaybeRotate(g, now) ==
    IF now - g.last_rotate < BUCKET_TTL THEN g
    ELSE LET next == (g.current + 1) % 3
         IN  [buckets |-> [g.buckets EXCEPT ![next] = {}], current |-> next, last_rotate |-> now]

Known(g, key) == \E i \in 0..2 : key \in g.buckets[i]

\* The guard after is_duplicate was asked about key at time now.
Asked(g, key, now) ==
    LET r == MaybeRotate(g, now)
    IN  IF Known(r, key) THEN r
        ELSE [r EXCEPT !.buckets[r.current] = @ \cup {key}]

IsDuplicate(g, key, now) == Known(MaybeRotate(g, now), key)

=============================================================================

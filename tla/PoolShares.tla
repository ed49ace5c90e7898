------------------------------ MODULE PoolShares ------------------------------
(***************************************************************************)
(* What the pool decides about single shares (taron-pool/src/main.rs): the *)
(* work it hands out, the timestamp and duplicate checks of submit_share   *)
(* and the difficulty registry.  Handlers run concurrently and take the    *)
(* lock of the guard, of the registry and of the round one after another.  *)
(* Rounds, blocks and payouts are in Pool.                                 *)
(***************************************************************************)
EXTENDS Integers, FiniteSets, TachyonGuard, VarDiff

CONSTANTS
    Workers,             \* "address:worker" keys
    ShareNonces,         \* nonces that meet the floor of the pool
    WeakNonces,          \* nonces that do not
    Handlers,            \* bound: share requests served at a time
    Difficulties,        \* block difficulties the chain may have
    SHARE_DIFF_OFFSET,
    TS_WINDOW,           \* 90 s, a share's timestamp may be this old, or this far ahead
    MAX_DELAY,           \* a handler is at the guard this long after it began
    MaxBlocks, MaxTime, MaxRequests  \* bounds

Nonces == ShareNonces \cup WeakNonces

ASSUME SharesAssumption ==
    /\ Difficulties \subseteq Nat /\ Difficulties # {}
    /\ SHARE_DIFF_OFFSET \in Nat /\ TS_WINDOW \in Nat /\ MAX_DELAY \in Nat
    /\ TS_WINDOW + MAX_DELAY <= 2 * BUCKET_TTL
    /\ MaxBlocks \in Nat /\ MaxTime \in Nat /\ MaxRequests \in Nat

VARIABLES
    template,   \* index and difficulty of the template
    base,       \* VarDiffRegistry.base_difficulty
    vardiff,    \* VarDiffRegistry.workers
    guard,      \* the TachyonGuard
    handler,    \* the share requests being served
    counted,    \* shares counted so far, and when the guard let them pass
    requests, now

shareVars == <<template, base, vardiff, guard, handler, counted, requests, now>>

Idle == [pc |-> "idle"]
Never == -1

ShareDifficulty(difficulty) ==
    IF difficulty > SHARE_DIFF_OFFSET THEN difficulty - SHARE_DIFF_OFFSET ELSE 0

SharesInit ==
    /\ template \in [index : {1}, difficulty : Difficulties]
    /\ base = ShareDifficulty(template.difficulty)
    /\ vardiff = [w \in Workers |-> Never]
    /\ guard = NewGuard(0)
    /\ handler = [h \in Handlers |-> Idle]
    /\ counted = {}
    /\ requests = 0
    /\ now = 0

-----------------------------------------------------------------------------

\* The chain has a new block: the watcher replaces the template when no handler
\* holds its read guard.  The base difficulty follows in SetBaseDifficulty.
NewTemplate(d) ==
    /\ template.index <= MaxBlocks
    /\ \A h \in Handlers : handler[h] = Idle
    /\ template' = [index |-> template.index + 1, difficulty |-> d]
    /\ UNCHANGED <<base, vardiff, guard, handler, counted, requests, now>>

SetBaseDifficulty ==
    /\ base' = ShareDifficulty(template.difficulty)
    /\ UNCHANGED <<template, vardiff, guard, handler, counted, requests, now>>

\* The difficulty of a worker; an unknown one is entered with the base.
Assigned(w) == IF vardiff[w] = Never THEN base ELSE vardiff[w]

\* get_work tells the worker the larger of this and the share difficulty.
GetWork(w) ==
    /\ vardiff' = [vardiff EXCEPT ![w] = Assigned(w)]
    /\ UNCHANGED <<template, base, guard, handler, counted, requests, now>>

\* The timestamp is the client's; it may be behind the clock or ahead of it.
FreshTimestamp(ts) == now - ts <= TS_WINDOW /\ ts - now <= TS_WINDOW

\* A worker submits a nonce hashed with timestamp ts, for the first time or
\* again.  Requests for another template are refused at once.
BeginShare(h, w, n, ts) ==
    /\ handler[h] = Idle
    /\ FreshTimestamp(ts)
    /\ requests < MaxRequests
    /\ requests' = requests + 1
    /\ handler' = [handler EXCEPT ![h] =
         [pc |-> "dedup", began |-> now,
          share |-> [worker |-> w, nonce |-> n, index |-> template.index, ts |-> ts]]]
    /\ UNCHANGED <<template, base, vardiff, guard, counted, now>>

\* The duplicate check comes before the difficulty check: a weak nonce is
\* remembered as well.
CheckDuplicate(h) ==
    LET s == handler[h].share
        key == MakeKey(s.index, s.nonce, s.worker)
        refused == IsDuplicate(guard, key, now) \/ s.nonce \in WeakNonces
    IN  /\ handler[h].pc = "dedup"
        /\ guard' = Asked(guard, key, now)
        /\ handler' = [handler EXCEPT ![h] = IF refused THEN Idle
                                           ELSE [pc |-> "vardiff", share |-> s, at |-> now]]
        /\ UNCHANGED <<template, base, vardiff, counted, requests, now>>

\* A panic ends the handler: the share is answered by a closed connection.
AdjustVarDiff(h) ==
    LET w == handler[h].share.worker
    IN  /\ handler[h].pc = "vardiff"
        /\ \/ /\ ClampPanics(template.difficulty)
              /\ vardiff' = [vardiff EXCEPT ![w] = Assigned(w)]
              /\ handler' = [handler EXCEPT ![h] = Idle]
           \/ /\ ~ClampPanics(template.difficulty)
              /\ \E d \in OnShare(Assigned(w), template.difficulty) :
                     vardiff' = [vardiff EXCEPT ![w] = d]
              /\ handler' = [handler EXCEPT ![h] = [@ EXCEPT !.pc = "count"]]
        /\ UNCHANGED <<template, base, guard, counted, requests, now>>

CountShare(h) ==
    /\ handler[h].pc = "count"
    /\ counted' = counted \cup {[share |-> handler[h].share, at |-> handler[h].at]}
    /\ handler' = [handler EXCEPT ![h] = Idle]
    /\ UNCHANGED <<template, base, vardiff, guard, requests, now>>

\* Nothing but the guard's lock is between the timestamp check and the guard.
Prompt(h) == handler[h].pc = "dedup" => now < handler[h].began + MAX_DELAY

Tick ==
    /\ now < MaxTime
    /\ \A h \in Handlers : Prompt(h)
    /\ now' = now + 1
    /\ UNCHANGED <<template, base, vardiff, guard, handler, counted, requests>>

SharesNext ==
    \/ \E d \in Difficulties : NewTemplate(d)
    \/ SetBaseDifficulty
    \/ \E w \in Workers : GetWork(w)
    \/ \E h \in Handlers, w \in Workers, n \in Nonces, ts \in 0..now + TS_WINDOW :
           BeginShare(h, w, n, ts)
    \/ \E h \in Handlers : CheckDuplicate(h) \/ AdjustVarDiff(h) \/ CountShare(h)
    \/ Tick

SharesSpec == SharesInit /\ [][SharesNext]_shareVars

-----------------------------------------------------------------------------
(* Properties                                                              *)

Validated(h) == handler[h].pc \in {"vardiff", "count"}

\* The guard let the share of c pass again after it had forgotten it, and this
\* took a timestamp that was ahead of the clock when it passed first.
PassedAgain(c, later) ==
    /\ later.at > c.at + 2 * BUCKET_TTL
    /\ later.share.ts > c.at

Credits(h) == counted \cup {handler[k] : k \in {k \in Handlers \ {h} : Validated(k)}}

\* A share is credited once, however often it is sent and whatever the handlers
\* overtake, if its timestamp was not ahead of the clock when submit_share first
\* let it pass; and no share is credited twice within two BUCKET_TTL.  A share
\* sent ahead is fresh for 2 * TS_WINDOW, which the guard need not remember.
CreditedOnceUnlessAhead ==
    \A h \in Handlers : Validated(h) =>
        \A c \in Credits(h) : c.share = handler[h].share =>
            PassedAgain(c, handler[h]) \/ PassedAgain(handler[h], c)

=============================================================================

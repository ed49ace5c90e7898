-------------------------------- MODULE Pool --------------------------------
(***************************************************************************)
(* Rounds, found blocks and payouts of the mining pool server              *)
(* (taron-pool/src/main.rs): the share handlers, the watcher that follows  *)
(* the node, the task that submits found blocks with the payouts of their  *)
(* round, and the restart of the server.  The state is behind one RwLock   *)
(* per field, so every action is what one task does between two awaits.    *)
(* A share handler keeps the read guard of the template until it returns;  *)
(* everything else takes a lock and lets go.  How a share is validated is  *)
(* in PoolShares; here the guard remembers all shares since the start.     *)
(* Statistics and the handlers that only show them are left out.           *)
(***************************************************************************)
EXTENDS Integers, Sequences, FiniteSets, FiniteSetsExt

CONSTANTS
    Miners,                    \* payout addresses
    Solutions,                 \* (miner, nonce) pairs that meet the floor of the pool
    BlockNonces,               \* nonces that also meet the block difficulty
    Handlers,                  \* bound: share requests served at a time
    TESTNET_REWARD, POOL_FEE_PERMILLE, TX_FEE,
    MaxTips, MaxWrites,        \* bounds: heights and hashes of the node, writes of its caches
    MaxRestarts, MaxRequests   \* bounds: restarts, shares

ASSUME PoolAssumption ==
    /\ IsFiniteSet(Miners) /\ \A x \in Solutions : x[1] \in Miners
    /\ TESTNET_REWARD \in Nat /\ POOL_FEE_PERMILLE \in 0..1000 /\ TX_FEE \in Nat
    /\ MaxTips \in Nat \ {0} /\ MaxWrites \in Nat /\ MaxRestarts \in Nat /\ MaxRequests \in Nat

VARIABLES
    chain_height, best_hash,    \* the caches of the node that its status is made of
    writes,          \* of these caches so far
    template, round, \* PoolState
    handler,         \* the share requests being served
    seen,            \* shares the guard has seen
    queue,           \* block_tx, from the handlers to the submitter
    submitter, last_submitted,
    watcher,
    keys,            \* shares table: the miners with a row since round_start
    counted,         \* the shares in the round
    requests, restarts

nodeVars == <<chain_height, best_hash, writes>>
roundVars == <<template, round, counted>>
vars == <<nodeVars, roundVars, last_submitted, handler, seen, keys, queue, submitter, watcher,
          requests, restarts>>

Idle == [pc |-> "idle"]
NoStatus == [height |-> 0, best_hash |-> 0]

Templates == [index : 2..MaxTips + 1, prev : 1..MaxTips]
Shares == {[miner |-> x[1], nonce |-> x[2], index |-> t.index, prev |-> t.prev] :
           x \in Solutions, t \in Templates}
Blocks == [index : 2..MaxTips + 1, prev : 1..MaxTips]

TypeOK ==
    /\ chain_height \in 1..MaxTips /\ best_hash \in 1..MaxTips /\ writes \in 0..MaxWrites
    /\ template \in Templates
    /\ round \in [Miners -> Nat]
    /\ handler \in [Handlers -> {Idle} \cup [pc : {"count", "persist"}, share : Shares]]
    /\ seen \subseteq Shares /\ counted \subseteq seen
    /\ queue \in Seq(Blocks)
    /\ submitter.pc \in {"idle", "round", "build", "submit", "publish", "accepted"}
    /\ watcher.pc \in {"idle", "hash", "template", "round", "start"}
    /\ last_submitted \in 0..MaxTips + 1
    /\ keys \subseteq Miners
    /\ requests \in 0..MaxRequests /\ restarts \in 0..MaxRestarts

-----------------------------------------------------------------------------
(* The status of the node                                                  *)

\* Whoever changes the chain of the node writes the two caches that status() shows:
\* one after the other, mostly after the lock of the chain is gone, and with the
\* height and the hash of its own block, which need not be the tip by then.  A
\* rollback makes the height fall.  A block of the threads of taron node --mine, and
\* a tip that is lost, never show.  So whatever the chain is, the next cache that is
\* written may show any height or hash.
StoreHeight(h) ==
    /\ writes < MaxWrites
    /\ writes' = writes + 1
    /\ chain_height' = h
    /\ UNCHANGED <<best_hash, roundVars, last_submitted, handler, seen, keys, queue, submitter, watcher,
                   requests, restarts>>

StoreHash(b) ==
    /\ writes < MaxWrites
    /\ writes' = writes + 1
    /\ best_hash' = b
    /\ UNCHANGED <<chain_height, roundVars, last_submitted, handler, seen, keys, queue, submitter, watcher,
                   requests, restarts>>

\* Mutant: the template is of the tip's own height.
TemplateOfTip(status) == [index |-> status.height, prev |-> status.best_hash]

TemplateOf(status) == [index |-> status.height + 1, prev |-> status.best_hash]

-----------------------------------------------------------------------------
(* The watcher                                                             *)

\* Every two seconds.  status() loads the height and reads the hash later; a
\* request that fails is one that is not made.
PollHeight ==
    /\ watcher.pc = "idle"
    /\ watcher' = [watcher EXCEPT !.pc = "hash", !.status = [NoStatus EXCEPT !.height = chain_height]]
    /\ UNCHANGED <<nodeVars, roundVars, last_submitted, handler, seen, keys, queue, submitter, requests, restarts>>

\* Mutant: the template follows the height only.
HeightChanged(status) == status.height > watcher.last_height

Changed(status) == status.height > watcher.last_height \/ status.best_hash # watcher.last_hash

PollHash ==
    LET status == [watcher.status EXCEPT !.best_hash = best_hash]
    IN  /\ watcher.pc = "hash"
        /\ watcher' = IF Changed(status)
                      THEN [watcher EXCEPT !.pc = "template", !.status = status]
                      ELSE [watcher EXCEPT !.pc = "idle", !.status = NoStatus]
        /\ UNCHANGED <<nodeVars, roundVars, last_submitted, handler, seen, keys, queue, submitter,
                       requests, restarts>>

\* Mutant: the share handlers have let go of the template.
TemplateFree == TRUE

\* The write lock waits for the read guards of the share handlers.
NoTemplateReader == \A h \in Handlers : handler[h] = Idle

WriteTemplate ==
    /\ watcher.pc = "template"
    /\ NoTemplateReader
    /\ template' = TemplateOf(watcher.status)
    /\ watcher' = [watcher EXCEPT !.pc = "round"]
    /\ UNCHANGED <<nodeVars, round, counted, last_submitted, handler, seen, keys, queue, submitter,
                   requests, restarts>>

ResetRound ==
    /\ watcher.pc = "round"
    /\ round' = [m \in Miners |-> 0]
    /\ counted' = {}
    /\ watcher' = [watcher EXCEPT !.pc = "start"]
    /\ UNCHANGED <<nodeVars, template, last_submitted, handler, seen, keys, queue, submitter,
                   requests, restarts>>

\* The base difficulty is set (PoolShares), then the start time of the round.
StartRound ==
    /\ watcher.pc = "start"
    /\ keys' = {}
    /\ watcher' = [watcher EXCEPT !.pc = "idle", !.last_height = watcher.status.height,
                                  !.last_hash = watcher.status.best_hash, !.status = NoStatus]
    /\ UNCHANGED <<nodeVars, template, round, counted, last_submitted, handler, seen, queue, submitter,
                   requests, restarts>>

Watch == PollHeight \/ PollHash \/ WriteTemplate \/ ResetRound \/ StartRound

-----------------------------------------------------------------------------
(* submit_share                                                            *)

\* tokio's lock is fair: no reader overtakes a writer that waits.
CanReadTemplate == watcher.pc # "template"

\* A share for the template passes the checks of PoolShares.
BeginShare(h, s) ==
    /\ CanReadTemplate
    /\ handler[h] = Idle
    /\ s.index = template.index /\ s.prev = template.prev
    /\ s \notin seen
    /\ requests < MaxRequests
    /\ requests' = requests + 1
    /\ seen' = seen \cup {s}
    /\ handler' = [handler EXCEPT ![h] = [pc |-> "count", share |-> s]]
    /\ UNCHANGED <<nodeVars, roundVars, last_submitted, keys, queue, submitter, watcher, restarts>>

CountShare(h) ==
    LET s == handler[h].share
    IN  /\ handler[h].pc = "count"
        /\ round' = [round EXCEPT ![s.miner] = @ + 1]
        /\ counted' = counted \cup {s}
        /\ handler' = [handler EXCEPT ![h].pc = "persist"]
        /\ UNCHANGED <<nodeVars, template, last_submitted, seen, keys, queue, submitter,
                       watcher, requests, restarts>>

\* insert_share: a query of the submitter that is still to come finds the row.
InsertShare(m) ==
    /\ keys' = keys \cup {m}
    /\ submitter' = IF submitter.pc \in {"round", "build"}
                    THEN [submitter EXCEPT !.keys = @ \cup {m}] ELSE submitter

\* A failed insert is logged and forgotten; a found block is sent either way.
PersistShare(h) ==
    LET s == handler[h].share
    IN  /\ handler[h].pc = "persist"
        /\ InsertShare(s.miner) \/ UNCHANGED <<keys, submitter>>
        /\ queue' = IF s.nonce \in BlockNonces
                    THEN Append(queue, [index |-> s.index, prev |-> s.prev]) ELSE queue
        /\ handler' = [handler EXCEPT ![h] = Idle]
        /\ UNCHANGED <<nodeVars, roundVars, last_submitted, seen, watcher, requests, restarts>>

Handle(h) == CountShare(h) \/ PersistShare(h)

-----------------------------------------------------------------------------
(* The block submitter                                                     *)

Total(shares) == MapThenSumSet(LAMBDA m : shares[m], Miners)

ToDistribute == TESTNET_REWARD - (TESTNET_REWARD * POOL_FEE_PERMILLE) \div 1000

\* Mutant: the fee of the pool is not kept back.
PayoutAll(shares, m) == (TESTNET_REWARD * shares[m]) \div Total(shares)

Payout(shares, m) == (ToDistribute * shares[m]) \div Total(shares)

\* Mutant: a block is dropped unless it is ahead of the template.
SupersededByTemplate(b) == b.index <= template.index

Superseded(b) == b.index <= last_submitted

\* Takes the next found block, unless its height was submitted before, and
\* reads round_start: the query for keys is from then on, whatever round begins
\* meanwhile.
TakeFound ==
    /\ submitter.pc = "idle" /\ queue # <<>>
    /\ queue' = Tail(queue)
    /\ submitter' = IF Superseded(Head(queue)) THEN Idle
                    ELSE [pc |-> "round", found |-> Head(queue), keys |-> keys]
    /\ UNCHANGED <<nodeVars, roundVars, last_submitted, handler, seen, keys, watcher, requests, restarts>>

\* The shares to be paid are those of the round there is by now.
ReadRound ==
    /\ submitter.pc = "round"
    /\ submitter' = [pc |-> "build", found |-> submitter.found, keys |-> submitter.keys, shares |-> round]
    /\ UNCHANGED <<nodeVars, roundVars, last_submitted, handler, seen, keys, queue, watcher, requests, restarts>>

\* A query that fails pays nobody.
MinerPubkeysInRound(answered) == IF answered THEN submitter.keys ELSE {}

\* One transaction per miner whose key the shares table knows, and a row of the
\* payouts table, which stays if the node refuses the block; only pages show it.  The
\* transactions are numbered on from the account the node shows, or from 1 without
\* an answer: one of the reasons why the node may refuse them.
BuildPayouts ==
    /\ submitter.pc = "build"
    /\ \E found_keys \in BOOLEAN :
         LET s == submitter.shares
             payees == {m \in MinerPubkeysInRound(found_keys) : s[m] > 0 /\ Payout(s, m) > 0}
         IN  submitter' = [pc |-> "submit", found |-> submitter.found,
                           amounts |-> [m \in payees |-> Payout(s, m)]]
    /\ UNCHANGED <<nodeVars, roundVars, last_submitted, handler, seen, keys, queue, watcher,
                   requests, restarts>>

\* submit_mined_block: a block that does not fit the height shown is refused at once.
\* Whether it applies depends on the chain and on the transactions, those taken from
\* the mempool included; if it does, the height is stored under the lock.  No answer,
\* or one that cannot be parsed, counts as a refusal.
SubmitBlock ==
    LET b == submitter.found
    IN  /\ submitter.pc = "submit"
        /\ \/ /\ submitter' = Idle
              /\ UNCHANGED chain_height
           \/ /\ b.index = chain_height + 1 /\ b.index <= MaxTips
              /\ chain_height' = b.index
              /\ submitter' \in {[pc |-> "publish", found |-> b], Idle}
        /\ UNCHANGED <<best_hash, writes, roundVars, last_submitted, handler, seen, keys, queue, watcher,
                       requests, restarts>>

\* The hash of the block is written before the answer is sent.  The server of the RPC
\* may also drop a request whose connection is lost, and then nobody writes it.
PublishFound ==
    /\ submitter.pc = "publish"
    /\ \/ /\ best_hash' \in 1..MaxTips
          /\ submitter' \in {[pc |-> "accepted", found |-> submitter.found], Idle}
       \/ /\ UNCHANGED best_hash
          /\ submitter' = Idle
    /\ UNCHANGED <<chain_height, writes, roundVars, last_submitted, handler, seen, keys, queue, watcher,
                   requests, restarts>>

LaterEntries(index) == {i \in 1..Len(queue) : queue[i].index > index}

\* What a success leaves of the queue: all entries up to the first of a later
\* height are drained, and that one goes to the end.
Drained(index) ==
    IF LaterEntries(index) = {} THEN <<>>
    ELSE LET i == Min(LaterEntries(index))
         IN  Append(SubSeq(queue, i + 1, Len(queue)), queue[i])

FinishSubmit ==
    /\ submitter.pc = "accepted"
    /\ last_submitted' = submitter.found.index
    /\ queue' = Drained(submitter.found.index)
    /\ submitter' = Idle
    /\ UNCHANGED <<nodeVars, roundVars, handler, seen, keys, watcher,
                   requests, restarts>>

Submit == TakeFound \/ ReadRound \/ BuildPayouts \/ SubmitBlock \/ PublishFound \/ FinishSubmit

-----------------------------------------------------------------------------

\* The watcher's locals when it starts.
NewWatcher == [pc |-> "idle", last_height |-> 0, last_hash |-> 0,
               status |-> NoStatus]

Init ==
    /\ chain_height = 1 /\ best_hash = 1 /\ writes = 0
    /\ template = [index |-> 2, prev |-> 1]
    /\ round = [m \in Miners |-> 0] /\ counted = {}
    /\ handler = [h \in Handlers |-> Idle] /\ seen = {}
    /\ queue = <<>> /\ submitter = Idle /\ last_submitted = 0
    /\ watcher = NewWatcher
    /\ keys = {}
    /\ requests = 0 /\ restarts = 0

\* The server dies and starts again: main() builds PoolState from the status
\* of the node, the database survives.  That status is read in one go here: the
\* watcher starts from nothing and reads it again.
Restart ==
    /\ restarts < MaxRestarts
    /\ restarts' = restarts + 1
    /\ template' = TemplateOf([height |-> chain_height, best_hash |-> best_hash])
    /\ round' = [m \in Miners |-> 0] /\ counted' = {} /\ keys' = {}
    /\ handler' = [h \in Handlers |-> Idle] /\ seen' = {}
    /\ queue' = <<>> /\ submitter' = Idle /\ last_submitted' = 0
    /\ watcher' = NewWatcher
    /\ UNCHANGED <<nodeVars, requests>>

Next ==
    \/ \E i \in 1..MaxTips : StoreHeight(i) \/ StoreHash(i)
    \/ Watch
    \/ \E h \in Handlers : Handle(h) \/ \E s \in Shares : BeginShare(h, s)
    \/ Submit
    \/ Restart

Spec == Init /\ [][Next]_vars

\* The watcher and the submitter are loops of their own, handlers run to
\* completion: each step only waits for a lock, the database or the RPC.
FairSpec ==
    /\ Spec
    /\ WF_vars(Watch) /\ WF_vars(Submit)
    /\ \A h \in Handlers : WF_vars(Handle(h))

-----------------------------------------------------------------------------
(* Properties                                                              *)

\* A round holds shares of the current template only: no handler that read an
\* older template counts its share after the round was reset.
RoundIsOfTemplate ==
    watcher.pc # "round" => \A s \in counted : s.index = template.index /\ s.prev = template.prev

\* The reward of the block covers the payouts it carries and their fees.
PayoutsWithinReward ==
    submitter.pc = "submit" =>
        MapThenSumSet(LAMBDA m : submitter.amounts[m] + TX_FEE, DOMAIN submitter.amounts)
            <= TESTNET_REWARD

Queued(b) == \E i \in 1..Len(queue) : queue[i] = b

\* Every found block reaches the submitter unless a block of its height was
\* accepted or the server restarts; the drain loses none of a later height.
FoundBlocksAreSubmitted ==
    \A b \in Blocks, r \in 0..MaxRestarts :
        (Queued(b) /\ restarts = r) ~>
            \/ submitter.pc # "idle" /\ submitter.found = b
            \/ last_submitted >= b.index
            \/ restarts # r

\* However height and hash were torn when they were written and when the watcher
\* read them, the pool ends up mining on the hash that the status shows, at a height
\* not below the one it shows.  It may be above: a height that fell is noticed only
\* when the hash changed as well.
TemplateCatchesUp == <>[](template.prev = best_hash /\ template.index >= chain_height + 1)

=============================================================================

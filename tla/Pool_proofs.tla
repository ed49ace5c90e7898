---------------------------- MODULE Pool_proofs ----------------------------
(***************************************************************************)
(* Theorems about the mining pool and its miners.  The pool: types, the    *)
(* agreement of rounds with templates, and payouts that the reward covers. *)
(* The threads of a miner, for any number of threads and any space of      *)
(* nonces: what they search is disjoint, and work that is on its way is    *)
(* never older than the height it is for.                                  *)
(***************************************************************************)
EXTENDS Pool, PoolMiner, FiniteSetTheorems, SequenceTheorems, WellFoundedInduction, TLAPS

-----------------------------------------------------------------------------
(* The state of each task                                                  *)

NodeTypes ==
    chain_height \in 1..MaxTips /\ best_hash \in 1..MaxTips /\ writes \in 0..MaxWrites

\* Somebody writes one of the caches of the node.
Stores == \E i \in 1..MaxTips : StoreHeight(i) \/ StoreHash(i)

\* The watcher has a height when it asks for the hash, and a whole status while it
\* replaces template and round.
WatcherTypes ==
    /\ watcher \in [pc : {"idle", "hash", "template", "round", "start"},
                    last_height : 0..MaxTips, last_hash : 0..MaxTips,
                    status : [height : 0..MaxTips, best_hash : 0..MaxTips]]
    /\ watcher.pc # "idle" => watcher.status.height > 0
    /\ watcher.pc \notin {"idle", "hash"} => watcher.status.best_hash > 0
    /\ template \in Templates

Handling == [pc : {"count", "persist"}, share : Shares]

\* A share that is being handled has been seen.
HandlerTypes ==
    /\ handler \in [Handlers -> {Idle} \cup Handling]
    /\ round \in [Miners -> Nat]
    /\ seen \subseteq Shares /\ counted \subseteq seen
    /\ \A h \in Handlers : handler[h] \in Handling => handler[h].share \in seen

WithRound == [pc : {"round"}, found : Blocks, keys : SUBSET Miners]
WithShares == [pc : {"build"}, found : Blocks, keys : SUBSET Miners, shares : [Miners -> Nat]]

SubmitterTypes ==
    /\ \/ submitter = Idle
       \/ submitter \in WithRound
       \/ submitter \in WithShares
       \/ /\ submitter.pc = "submit" /\ submitter.found \in Blocks
          /\ DOMAIN submitter.amounts \subseteq Miners
       \/ submitter \in [pc : {"publish", "accepted"}, found : Blocks]
    /\ queue \in Seq(Blocks)
    /\ last_submitted \in 0..MaxTips + 1
    /\ keys \subseteq Miners

Counters == requests \in 0..MaxRequests /\ restarts \in 0..MaxRestarts

Types == NodeTypes /\ WatcherTypes /\ HandlerTypes /\ SubmitterTypes /\ Counters

\* The finer types imply the ones the run checks.
LEMMA TypesAreTypeOK == Types => TypeOK
  BY DEF Types, TypeOK, NodeTypes, WatcherTypes, HandlerTypes, SubmitterTypes, Counters,
         Handling, WithRound, WithShares, Idle

\* The bounds are numbers.
LEMMA Bounds ==
    MaxTips \in Nat /\ MaxTips > 0 /\ MaxWrites \in Nat /\ MaxRestarts \in Nat /\ MaxRequests \in Nat
  BY PoolAssumption

\* A share in the hands of a handler is well formed.
LEMMA ShareFields ==
    ASSUME NEW s \in Shares
    PROVE  s.miner \in Miners /\ [index |-> s.index, prev |-> s.prev] \in Blocks
  <1>1. PICK x \in Solutions, t \in Templates :
            s = [miner |-> x[1], nonce |-> x[2], index |-> t.index, prev |-> t.prev]
    BY DEF Shares
  <1>2. s.miner = x[1] /\ s.index = t.index /\ s.prev = t.prev
    BY <1>1
  <1>3. t.index \in 2..MaxTips + 1 /\ t.prev \in 1..MaxTips
    BY DEF Templates
  <1> QED  BY <1>2, <1>3, PoolAssumption DEF Blocks

\* A handler without a request is none that has one.
LEMMA IdleFacts == Idle \notin Handling /\ Idle.pc = "idle"
  BY DEF Idle, Handling

\* Where a handler can be while it has a request.
LEMMA HandlerPc ==
    ASSUME HandlerTypes, NEW h \in Handlers, handler[h].pc \in {"count", "persist"}
    PROVE  handler[h] \in Handling /\ handler[h].share \in Shares /\ handler[h].share \in seen
  <1>1. handler[h] \in Handling
    BY DEF HandlerTypes, Idle
  <1> QED  BY <1>1 DEF HandlerTypes, Handling

\* A pool that was just started is well typed.
LEMMA InitTypes == Init => Types
  <1> SUFFICES ASSUME Init PROVE Types
    OBVIOUS
  <1> USE Bounds
  <1>1. NodeTypes
    BY DEF Init, NodeTypes
  <1>2. WatcherTypes
    BY DEF Init, WatcherTypes, NewWatcher, NoStatus, Templates
  <1>3. HandlerTypes
    BY IdleFacts DEF Init, HandlerTypes
  <1>4. SubmitterTypes /\ Counters
    BY DEF Init, SubmitterTypes, Counters
  <1> QED  BY <1>1, <1>2, <1>3, <1>4 DEF Types

-----------------------------------------------------------------------------
(* Each group of variables through every step                              *)

\* The part of the state that belongs to the node and its tips.
LEMMA NodeStep == Types /\ [Next]_vars => NodeTypes'
  <1> SUFFICES ASSUME Types, [Next]_vars PROVE NodeTypes'
    OBVIOUS
  <1> USE Bounds DEF Types
  <1>1. CASE Stores
    BY <1>1 DEF Stores, StoreHeight, StoreHash, NodeTypes
  <1>2. CASE SubmitBlock
    <2>1. submitter.found \in Blocks
      BY <1>2 DEF SubmitBlock, SubmitterTypes, WithRound, WithShares, Idle
    <2>2. submitter.found.index \in Nat /\ submitter.found.index >= 2
      BY <2>1 DEF Blocks
    <2> QED
      BY <1>2, <2>2 DEF SubmitBlock, NodeTypes
  <1>3. CASE PublishFound
    BY <1>3 DEF PublishFound, NodeTypes
  <1>4. CASE UNCHANGED nodeVars
    BY <1>4 DEF nodeVars, NodeTypes
  <1>5. ASSUME Next, ~Stores, ~SubmitBlock, ~PublishFound PROVE UNCHANGED nodeVars
    BY <1>5 DEF Next, Stores, Watch, PollHeight, PollHash, WriteTemplate, ResetRound, StartRound, Handle, CountShare,
       PersistShare, BeginShare, Submit, TakeFound, ReadRound, BuildPayouts, FinishSubmit, Restart
  <1> QED
    BY <1>1, <1>2, <1>3, <1>4, <1>5 DEF vars

\* The part of the state that belongs to the template watcher.
LEMMA WatcherStep == Types /\ [Next]_vars => WatcherTypes'
  <1> SUFFICES ASSUME Types, [Next]_vars PROVE WatcherTypes'
    OBVIOUS
  <1> USE Bounds DEF Types
  <1>0. NoStatus \in [height : 0..MaxTips, best_hash : 0..MaxTips]
    BY DEF NoStatus
  <1>1. CASE PollHeight
    <2>1. PICK st \in [height : 0..MaxTips, best_hash : 0..MaxTips] :
              st = [NoStatus EXCEPT !.height = chain_height] /\ st.height > 0
      <3>1. [NoStatus EXCEPT !.height = chain_height] = [height |-> chain_height, best_hash |-> 0]
        BY DEF NoStatus
      <3>2. chain_height \in 0..MaxTips /\ chain_height > 0 /\ 0 \in 0..MaxTips
        BY DEF NodeTypes
      <3> QED  BY <3>1, <3>2
    <2> QED
      BY <1>1, <2>1 DEF PollHeight, WatcherTypes, roundVars
  <1>2. CASE PollHash
    <2>1. PICK st \in [height : 0..MaxTips, best_hash : 0..MaxTips] :
              /\ st = [watcher.status EXCEPT !.best_hash = best_hash]
              /\ st.height > 0 /\ st.best_hash > 0
      BY <1>2 DEF PollHash, NodeTypes, WatcherTypes
    <2>2. \/ watcher' = [watcher EXCEPT !.pc = "template", !.status = st]
          \/ watcher' = [watcher EXCEPT !.pc = "idle", !.status = NoStatus]
      BY <1>2, <2>1 DEF PollHash
    <2> QED
      BY <1>0, <1>2, <2>1, <2>2 DEF PollHash, WatcherTypes, roundVars
  <1>3. CASE WriteTemplate
    <2>1. TemplateOf(watcher.status) \in Templates
      BY <1>3 DEF WriteTemplate, WatcherTypes, TemplateOf, Templates
    <2> QED
      BY <1>3, <2>1 DEF WriteTemplate, WatcherTypes
  <1>4. CASE ResetRound
    BY <1>4 DEF ResetRound, WatcherTypes
  <1>5. CASE StartRound
    <2>1. /\ watcher.status.height \in 0..MaxTips /\ watcher.status.best_hash \in 0..MaxTips
          /\ NoStatus \in [height : 0..MaxTips, best_hash : 0..MaxTips]
      BY DEF WatcherTypes, NoStatus
    <2>2. watcher' \in [pc : {"idle"}, last_height : 0..MaxTips, last_hash : 0..MaxTips,
                        status : [height : 0..MaxTips, best_hash : 0..MaxTips]]
      BY <1>5, <2>1 DEF StartRound, WatcherTypes
    <2> QED
      BY <1>5, <2>2 DEF StartRound, WatcherTypes
  <1>6. CASE Restart
    <2>1. TemplateOf([height |-> chain_height, best_hash |-> best_hash]) \in Templates
      BY DEF TemplateOf, Templates, NodeTypes
    <2> QED
      BY <1>6, <2>1 DEF Restart, WatcherTypes, NewWatcher, NoStatus
  <1>7. CASE UNCHANGED <<watcher, template>>
    BY <1>7 DEF WatcherTypes
  <1>8. ASSUME Next, ~Watch, ~Restart PROVE UNCHANGED <<watcher, template>>
    BY <1>8 DEF Next, Stores, StoreHeight, StoreHash, Handle, CountShare, PersistShare, BeginShare,
       Submit, TakeFound, ReadRound, BuildPayouts, SubmitBlock, PublishFound, FinishSubmit, roundVars
  <1> QED
    BY <1>1, <1>2, <1>3, <1>4, <1>5, <1>6, <1>7, <1>8 DEF Watch, vars, roundVars

\* The part of the state that belongs to the request handlers.
LEMMA HandlerStep == Types /\ [Next]_vars => HandlerTypes'
  <1> SUFFICES ASSUME Types, [Next]_vars PROVE HandlerTypes'
    OBVIOUS
  <1> USE DEF Types
  <1>1. ASSUME NEW h \in Handlers, NEW s \in Shares, BeginShare(h, s) PROVE HandlerTypes'
    <2>1. [pc |-> "count", share |-> s] \in Handling
      BY DEF Handling
    <2> QED
      BY <1>1, <2>1 DEF BeginShare, HandlerTypes, roundVars
  <1>2. ASSUME NEW h \in Handlers, CountShare(h) PROVE HandlerTypes'
    <2> DEFINE s == handler[h].share
    <2>1. handler[h] \in Handling /\ s \in Shares /\ s \in seen
      BY <1>2, HandlerPc DEF CountShare
    <2>2. handler' = [handler EXCEPT ![h] = [handler[h] EXCEPT !.pc = "persist"]]
      BY <1>2 DEF CountShare
    <2>3. /\ [handler[h] EXCEPT !.pc = "persist"] \in Handling
          /\ [handler[h] EXCEPT !.pc = "persist"].share = s
      BY <2>1 DEF Handling
    <2>4. s.miner \in Miners
      BY <2>1, ShareFields
    <2>5. round' \in [Miners -> Nat]
      BY <1>2, <2>4 DEF CountShare, HandlerTypes
    <2>6. handler' \in [Handlers -> {Idle} \cup Handling]
      BY <2>2, <2>3 DEF HandlerTypes
    <2>7. \A k \in Handlers : handler'[k] \in Handling => handler'[k].share \in seen
      BY <2>1, <2>2, <2>3 DEF HandlerTypes
    <2> QED
      BY <1>2, <2>1, <2>5, <2>6, <2>7 DEF CountShare, HandlerTypes
  <1>3. ASSUME NEW h \in Handlers, PersistShare(h) PROVE HandlerTypes'
    BY <1>3, IdleFacts DEF PersistShare, HandlerTypes, roundVars
  <1>4. CASE ResetRound
    BY <1>4 DEF ResetRound, HandlerTypes
  <1>5. CASE Restart
    BY <1>5, IdleFacts DEF Restart, HandlerTypes
  <1>6. CASE UNCHANGED <<handler, round, seen, counted>>
    BY <1>6 DEF HandlerTypes
  <1>7. ASSUME Stores \/ PollHeight \/ PollHash \/ WriteTemplate \/ StartRound \/ Submit
        PROVE  UNCHANGED <<handler, round, seen, counted>>
    BY <1>7 DEF Stores, StoreHeight, StoreHash, PollHeight, PollHash, WriteTemplate, StartRound,
       Submit, TakeFound, ReadRound, BuildPayouts, SubmitBlock, PublishFound, FinishSubmit, roundVars
  <1> QED
    BY <1>1, <1>2, <1>3, <1>4, <1>5, <1>6, <1>7 DEF Next, Stores, Handle, Watch, vars, roundVars

\* A set of numbers has a least one.
LEMMA LeastNumber ==
    ASSUME NEW S, S \subseteq Nat, S # {}
    PROVE  \E x \in S : \A y \in S : x <= y
  <1> DEFINE R == OpToRel(<, Nat)
  <1>1. IsWellFoundedOn(R, Nat)
    BY NatLessThanWellFounded DEF OpToRel
  <1>2. \A x, y \in Nat : x < y => <<x, y>> \in R
    BY DEF OpToRel
  <1> HIDE DEF R
  <1>3. PICK x \in S : \A y \in S : ~(<<y, x>> \in R)
    BY <1>1, WFMin
  <1>4. ASSUME NEW y \in S PROVE x <= y
    <2>1. x \in Nat /\ y \in Nat /\ ~(y < x)
      BY <1>2, <1>3
    <2> QED  BY <2>1
  <1> QED  BY <1>4

\* What the submitter takes out of the channel is a found block.
LEMMA DrainedType ==
    ASSUME queue \in Seq(Blocks), NEW index
    PROVE  Drained(index) \in Seq(Blocks)
  <1>1. CASE LaterEntries(index) = {}
    BY <1>1 DEF Drained
  <1>2. CASE LaterEntries(index) # {}
    <2> DEFINE S == LaterEntries(index)
               i == Min(S)
    <2>1. S \subseteq Nat /\ S # {} /\ S \subseteq 1..Len(queue)
      BY <1>2 DEF LaterEntries
    <2>2. i \in S
      <3> HIDE DEF S
      <3>1. \E x \in S : \A y \in S : x <= y
        BY <2>1, LeastNumber
      <3> QED  BY <3>1 DEF Min
    <2>3. i \in 1..Len(queue)
      BY <2>1, <2>2
    <2> HIDE DEF i
    <2>4. SubSeq(queue, i + 1, Len(queue)) \in Seq(Blocks) /\ queue[i] \in Blocks
      BY <2>3
    <2> QED
      BY <1>2, <2>4 DEF Drained, i
  <1> QED  BY <1>1, <1>2

\* The part of the state that belongs to the submitter and its retries.
LEMMA SubmitterStep == Types /\ [Next]_vars => SubmitterTypes'
  <1> SUFFICES ASSUME Types, [Next]_vars PROVE SubmitterTypes'
    OBVIOUS
  <1> USE DEF Types
  <1>1. ASSUME NEW h \in Handlers, PersistShare(h) PROVE SubmitterTypes'
    <2> DEFINE s == handler[h].share
    <2>1. s.miner \in Miners /\ [index |-> s.index, prev |-> s.prev] \in Blocks
      BY <1>1, HandlerPc, ShareFields DEF PersistShare
    <2>2. queue' \in Seq(Blocks) /\ UNCHANGED last_submitted
      BY <1>1, <2>1 DEF PersistShare, SubmitterTypes
    <2>3. CASE UNCHANGED <<keys, submitter>>
      BY <2>2, <2>3 DEF SubmitterTypes
    <2>4. CASE InsertShare(s.miner)
      <3>1. keys' \subseteq Miners
        BY <2>1, <2>4 DEF InsertShare, SubmitterTypes
      <3>2. CASE submitter \in WithRound
        <4>1. submitter' \in WithRound
          BY <2>1, <2>4, <3>2 DEF InsertShare, WithRound
        <4> QED  BY <2>2, <3>1, <4>1 DEF SubmitterTypes
      <3>3. CASE submitter \in WithShares
        <4>1. submitter' \in WithShares
          BY <2>1, <2>4, <3>3 DEF InsertShare, WithShares
        <4> QED  BY <2>2, <3>1, <4>1 DEF SubmitterTypes
      <3>4. CASE submitter \notin WithRound /\ submitter \notin WithShares
        <4>1. submitter.pc \notin {"round", "build"}
          BY <3>4 DEF SubmitterTypes, Idle
        <4>2. submitter' = submitter
          BY <2>4, <4>1 DEF InsertShare
        <4> QED  BY <2>2, <3>1, <4>2 DEF SubmitterTypes
      <3> QED  BY <3>2, <3>3, <3>4
    <2> QED  BY <1>1, <2>3, <2>4 DEF PersistShare
  <1>2. CASE TakeFound
    <2>1. Head(queue) \in Blocks /\ Tail(queue) \in Seq(Blocks) /\ keys \subseteq Miners
      BY <1>2 DEF TakeFound, SubmitterTypes
    <2>2. submitter' = Idle \/ submitter' \in WithRound
      BY <1>2, <2>1 DEF TakeFound, WithRound
    <2> QED
      BY <1>2, <2>1, <2>2 DEF TakeFound, SubmitterTypes
  <1>3. CASE ReadRound
    <2>1. submitter \in WithRound /\ round \in [Miners -> Nat]
      BY <1>3 DEF ReadRound, SubmitterTypes, HandlerTypes, WithShares, Idle
    <2>2. submitter' \in WithShares
      BY <1>3, <2>1 DEF ReadRound, WithRound, WithShares
    <2> QED
      BY <1>3, <2>2 DEF ReadRound, SubmitterTypes
  <1>4. CASE BuildPayouts
    <2>1. submitter \in WithShares
      BY <1>4 DEF BuildPayouts, SubmitterTypes, WithRound, Idle
    <2>2. PICK fk \in BOOLEAN :
             LET s == submitter.shares
                 payees == {m \in MinerPubkeysInRound(fk) : s[m] > 0 /\ Payout(s, m) > 0}
             IN  submitter' = [pc |-> "submit", found |-> submitter.found,
                               amounts |-> [m \in payees |-> Payout(s, m)]]
      BY <1>4 DEF BuildPayouts
    <2>3. MinerPubkeysInRound(fk) \subseteq Miners /\ submitter.found \in Blocks
      BY <2>1 DEF MinerPubkeysInRound, WithShares
    <2>4. /\ submitter'.pc = "submit" /\ submitter'.found \in Blocks
          /\ DOMAIN submitter'.amounts \subseteq Miners
      BY <2>2, <2>3
    <2> QED
      BY <1>4, <2>4 DEF BuildPayouts, SubmitterTypes
  <1>5. CASE SubmitBlock
    <2>1. submitter.found \in Blocks
      BY <1>5 DEF SubmitBlock, SubmitterTypes, WithRound, WithShares, Idle
    <2>2. submitter' = Idle \/ submitter' \in [pc : {"publish", "accepted"}, found : Blocks]
      BY <1>5, <2>1 DEF SubmitBlock
    <2> QED
      BY <1>5, <2>2 DEF SubmitBlock, SubmitterTypes
  <1>6. CASE PublishFound
    <2>1. submitter.found \in Blocks
      BY <1>6 DEF PublishFound, SubmitterTypes, WithRound, WithShares, Idle
    <2>2. submitter' = Idle \/ submitter' \in [pc : {"publish", "accepted"}, found : Blocks]
      BY <1>6, <2>1 DEF PublishFound
    <2> QED
      BY <1>6, <2>2 DEF PublishFound, SubmitterTypes
  <1>7. CASE FinishSubmit
    <2>1. submitter.found \in Blocks
      BY <1>7 DEF FinishSubmit, SubmitterTypes, WithRound, WithShares, Idle
    <2>2. submitter.found.index \in 0..MaxTips + 1
      BY <2>1, Bounds DEF Blocks
    <2>3. Drained(submitter.found.index) \in Seq(Blocks)
      BY DrainedType DEF SubmitterTypes
    <2> QED
      BY <1>7, <2>2, <2>3 DEF FinishSubmit, SubmitterTypes
  <1>8. CASE StartRound
    BY <1>8 DEF StartRound, SubmitterTypes
  <1>9. CASE Restart
    BY <1>9, Bounds DEF Restart, SubmitterTypes
  <1>10. CASE UNCHANGED <<submitter, queue, last_submitted, keys>>
    BY <1>10 DEF SubmitterTypes
  <1>11. ASSUME Stores \/ PollHeight \/ PollHash \/ WriteTemplate \/ ResetRound
         PROVE  UNCHANGED <<submitter, queue, last_submitted, keys>>
    BY <1>11 DEF Stores, StoreHeight, StoreHash, PollHeight, PollHash, WriteTemplate, ResetRound
  <1>12. ASSUME NEW h \in Handlers, CountShare(h) \/ \E s \in Shares : BeginShare(h, s)
         PROVE  UNCHANGED <<submitter, queue, last_submitted, keys>>
    BY <1>12 DEF CountShare, BeginShare
  <1> QED
    BY <1>1, <1>2, <1>3, <1>4, <1>5, <1>6, <1>7, <1>8, <1>9, <1>10, <1>11, <1>12
    DEF Next, Stores, Handle, Watch, Submit, vars

\* The counters that bound the run.
LEMMA CounterStep == Types /\ [Next]_vars => Counters'
  <1> SUFFICES ASSUME Types, [Next]_vars PROVE Counters'
    OBVIOUS
  <1> USE Bounds DEF Types, Counters
  <1>1. CASE Restart
    BY <1>1 DEF Restart
  <1>2. ASSUME NEW h \in Handlers, NEW s \in Shares, BeginShare(h, s) PROVE Counters'
    BY <1>2 DEF BeginShare
  <1>3. ASSUME NEW h \in Handlers, Handle(h) PROVE Counters'
    BY <1>3 DEF Handle, CountShare, PersistShare
  <1>4. CASE Stores \/ Watch \/ Submit
    BY <1>4 DEF Stores, StoreHeight, StoreHash, Watch, PollHeight, PollHash, WriteTemplate, ResetRound, StartRound,
       Submit, TakeFound, ReadRound, BuildPayouts, SubmitBlock, PublishFound, FinishSubmit
  <1>5. CASE UNCHANGED vars
    BY <1>5 DEF vars
  <1> QED  BY <1>1, <1>2, <1>3, <1>4, <1>5 DEF Next, Stores

\* All parts together are an inductive invariant.
LEMMA AllTypes == Spec => []Types
  <1>1. Init => Types
    BY InitTypes
  <1>2. Types /\ [Next]_vars => Types'
    BY NodeStep, WatcherStep, HandlerStep, SubmitterStep, CounterStep DEF Types
  <1> QED  BY <1>1, <1>2, PTL DEF Spec

(***************************************************************************)
(* The pool keeps its state within its types through every interleaving of *)
(* handlers, watcher and submitter, refusals of the node and restarts: in  *)
(* particular every share in a round is one the guard has seen, and what   *)
(* the drain leaves of the queue are found blocks.                         *)
(***************************************************************************)
THEOREM TypeCorrect == Spec => []TypeOK
  BY TypesAreTypeOK, AllTypes, PTL

-----------------------------------------------------------------------------
(* Rounds and templates                                                    *)

Matches(s) == s.index = template.index /\ s.prev = template.prev

\* Whoever holds the read guard of the template has a share of this template.
HandlersMatch == \A h \in Handlers : handler[h] \in Handling => Matches(handler[h].share)

\* What a handler holds agrees with the template it was read from.
LEMMA MatchStep == Types /\ HandlersMatch /\ [Next]_vars => HandlersMatch'
  <1> SUFFICES ASSUME Types, HandlersMatch, [Next]_vars PROVE HandlersMatch'
    OBVIOUS
  <1> USE DEF Types
  <1>1. ASSUME NEW h \in Handlers, NEW s \in Shares, BeginShare(h, s) PROVE HandlersMatch'
    BY <1>1 DEF BeginShare, HandlersMatch, Matches, HandlerTypes, roundVars
  <1>2. ASSUME NEW h \in Handlers, CountShare(h) PROVE HandlersMatch'
    <2>1. handler[h] \in Handling
      BY <1>2, HandlerPc DEF CountShare
    <2>2. handler' = [handler EXCEPT ![h] = [handler[h] EXCEPT !.pc = "persist"]] /\ template' = template
      BY <1>2 DEF CountShare
    <2>3. [handler[h] EXCEPT !.pc = "persist"].share = handler[h].share
      BY <2>1 DEF Handling
    <2> QED
      BY <2>1, <2>2, <2>3 DEF HandlersMatch, Matches, HandlerTypes
  <1>3. ASSUME NEW h \in Handlers, PersistShare(h) PROVE HandlersMatch'
    BY <1>3, IdleFacts DEF PersistShare, HandlersMatch, Matches, HandlerTypes, roundVars
  <1>4. CASE WriteTemplate
    BY <1>4, IdleFacts DEF WriteTemplate, NoTemplateReader, HandlersMatch
  <1>5. CASE Restart
    BY <1>5, IdleFacts DEF Restart, HandlersMatch
  <1>6. CASE UNCHANGED <<handler, template>>
    BY <1>6 DEF HandlersMatch, Matches
  <1>7. ASSUME Stores \/ PollHeight \/ PollHash \/ ResetRound \/ StartRound \/ Submit
        PROVE  UNCHANGED <<handler, template>>
    BY <1>7 DEF Stores, StoreHeight, StoreHash, PollHeight, PollHash, ResetRound, StartRound,
       Submit, TakeFound, ReadRound, BuildPayouts, SubmitBlock, PublishFound, FinishSubmit, roundVars
  <1> QED
    BY <1>1, <1>2, <1>3, <1>4, <1>5, <1>6, <1>7 DEF Next, Stores, Handle, Watch, vars, roundVars

\* A step that touches the round leaves it with shares of one template.
LEMMA RoundStep ==
    Types /\ HandlersMatch /\ RoundIsOfTemplate /\ [Next]_vars => RoundIsOfTemplate'
  <1> SUFFICES ASSUME Types, HandlersMatch, RoundIsOfTemplate, [Next]_vars PROVE RoundIsOfTemplate'
    OBVIOUS
  <1> USE DEF Types, RoundIsOfTemplate
  <1>1. ASSUME NEW h \in Handlers, CountShare(h) PROVE RoundIsOfTemplate'
    <2>1. Matches(handler[h].share)
      BY <1>1, HandlerPc DEF CountShare, HandlersMatch
    <2> QED
      BY <1>1, <2>1 DEF CountShare, Matches
  <1>2. CASE PollHeight \/ PollHash
    BY <1>2 DEF PollHeight, PollHash, WatcherTypes, roundVars
  <1>3. CASE WriteTemplate
    BY <1>3 DEF WriteTemplate, WatcherTypes
  <1>4. CASE ResetRound \/ Restart
    BY <1>4 DEF ResetRound, Restart
  <1>5. CASE StartRound
    BY <1>5 DEF StartRound, WatcherTypes
  <1>6. CASE UNCHANGED <<watcher, template, counted>>
    BY <1>6
  <1>7. ASSUME Stores \/ Submit
        PROVE  UNCHANGED <<watcher, template, counted>>
    BY <1>7 DEF Stores, StoreHeight, StoreHash,
       Submit, TakeFound, ReadRound, BuildPayouts, SubmitBlock, PublishFound, FinishSubmit, roundVars
  <1>8. ASSUME NEW h \in Handlers, PersistShare(h) \/ \E s \in Shares : BeginShare(h, s)
        PROVE  UNCHANGED <<watcher, template, counted>>
    BY <1>8 DEF PersistShare, BeginShare, roundVars
  <1> QED
    BY <1>1, <1>2, <1>3, <1>4, <1>5, <1>6, <1>7, <1>8 DEF Next, Stores, Handle, Watch, vars, roundVars

(***************************************************************************)
(* Whatever the interleaving of share handlers, watcher, submitter and     *)
(* restarts, a round holds shares of the current template only: the read   *)
(* guard a handler keeps until it returns (main.rs, submit_share) makes    *)
(* the watcher wait with the new template.                                 *)
(***************************************************************************)
THEOREM RoundsAreOfTemplate == Spec => []RoundIsOfTemplate
  <1>1. Init => HandlersMatch /\ RoundIsOfTemplate
    BY IdleFacts DEF Init, HandlersMatch, RoundIsOfTemplate
  <1>2. Types /\ HandlersMatch /\ RoundIsOfTemplate /\ [Next]_vars
          => HandlersMatch' /\ RoundIsOfTemplate'
    BY MatchStep, RoundStep
  <1> QED
    BY <1>1, <1>2, AllTypes, PTL DEF Spec

-----------------------------------------------------------------------------
(* Sums over a set                                                         *)

\* Induction over the subsets of a finite set, with a set T of subsets in the
\* place of a predicate.
LEMMA SubsetInduction ==
    ASSUME NEW S, IsFiniteSet(S), NEW T, {} \in T,
           \A s \in SUBSET S : (s # {} /\ \A x \in s : s \ {x} \in T) => s \in T
    PROVE  \A s \in SUBSET S : s \in T
  <1> DEFINE Sizes == {n \in Nat : \E s \in SUBSET S : s \notin T /\ Cardinality(s) = n}
  <1>1. \A s \in SUBSET S : IsFiniteSet(s) /\ Cardinality(s) \in Nat
    BY FS_Subset, FS_CardinalityType
  <1> SUFFICES ASSUME Sizes # {} PROVE FALSE
    BY <1>1
  <1>2. Sizes \subseteq Nat
    OBVIOUS
  <1> HIDE DEF Sizes
  <1>3. PICK n \in Sizes : \A k \in Sizes : n <= k
    BY <1>2, LeastNumber
  <1>4. PICK s \in SUBSET S : s \notin T /\ Cardinality(s) = n
    BY DEF Sizes
  <1>5. ASSUME NEW x \in s PROVE s \ {x} \in T
    <2>1. Cardinality(s \ {x}) = n - 1 /\ s \ {x} \in SUBSET S
      BY <1>1, <1>4, FS_RemoveElement
    <2>2. n \in Nat /\ n - 1 \notin Sizes
      BY <1>2, <1>3
    <2>3. n - 1 \in Nat
      BY <1>1, <2>1
    <2> QED  BY <2>1, <2>2, <2>3 DEF Sizes
  <1> QED  BY <1>4, <1>5

\* f[x] grains for every x of s: a sum is counted by them.
Pile(x, n) == {x} \X (1..n)
Grains(f, s) == UNION {Pile(x, f[x]) : x \in s}
Count(f, s) == Cardinality(Grains(f, s))

\* A pile has as many grains as it should.
LEMMA PileSize ==
    ASSUME NEW x, NEW n \in Nat
    PROVE  IsFiniteSet(Pile(x, n)) /\ Cardinality(Pile(x, n)) = n
  <1> DEFINE g == [k \in 1..n |-> <<x, k>>]
  <1>1. IsFiniteSet(1..n) /\ Cardinality(1..n) = n
    BY FS_Interval
  <1>2. g \in Bijection(1..n, Pile(x, n))
    <2>1. g \in Injection(1..n, Pile(x, n))
      BY DEF Pile, Injection, IsInjective
    <2>2. \A p \in Pile(x, n) : \E k \in 1..n : g[k] = p
      BY DEF Pile
    <2>3. g \in Surjection(1..n, Pile(x, n))
      BY <2>1, <2>2 DEF Injection, Surjection
    <2> QED  BY <2>1, <2>3 DEF Bijection
  <1>3. ExistsBijection(1..n, Pile(x, n))
    BY <1>2 DEF ExistsBijection
  <1> QED  BY <1>1, <1>3, FS_Bijection

\* The piles of two elements have no grain in common.
LEMMA GrainsApart ==
    ASSUME NEW f, NEW s, NEW x \in s
    PROVE  /\ Grains(f, s) = Pile(x, f[x]) \cup Grains(f, s \ {x})
           /\ Pile(x, f[x]) \cap Grains(f, s \ {x}) = {}
  <1>1. Grains(f, s) = Pile(x, f[x]) \cup Grains(f, s \ {x})
    BY DEF Grains
  <1>2. ASSUME NEW y, NEW n, NEW p \in Pile(y, n) PROVE p[1] = y
    BY DEF Pile
  <1>3. ASSUME NEW p, p \in Pile(x, f[x]), p \in Grains(f, s \ {x}) PROVE FALSE
    <2>1. PICK y \in s \ {x} : p \in Pile(y, f[y])
      BY <1>3 DEF Grains
    <2> QED  BY <1>2, <1>3, <2>1
  <1> QED  BY <1>1, <1>3

\* There are finitely many grains, and any element may be counted first.
LEMMA CountFirst ==
    ASSUME NEW S, IsFiniteSet(S), NEW f \in [S -> Nat]
    PROVE  /\ Count(f, {}) = 0
           /\ \A s \in SUBSET S : IsFiniteSet(Grains(f, s)) /\ Count(f, s) \in Nat
           /\ \A s \in SUBSET S, x \in S : x \in s => Count(f, s) = f[x] + Count(f, s \ {x})
  <1> DEFINE T == {s \in SUBSET S : IsFiniteSet(Grains(f, s))}
  <1>1. Grains(f, {}) = {}
    BY DEF Grains
  <1>2. {} \in T
    BY <1>1, FS_EmptySet
  <1>3. ASSUME NEW s \in SUBSET S, s # {}, \A x \in s : s \ {x} \in T PROVE s \in T
    <2>1. PICK x \in s : TRUE
      BY <1>3
    <2>2. IsFiniteSet(Pile(x, f[x])) /\ IsFiniteSet(Grains(f, s \ {x}))
      BY <1>3, <2>1, PileSize
    <2>3. Grains(f, s) = Pile(x, f[x]) \cup Grains(f, s \ {x})
      BY <2>1, GrainsApart
    <2>4. IsFiniteSet(Pile(x, f[x]) \cup Grains(f, s \ {x}))
      BY <2>2, FS_Union
    <2> QED  BY <2>3, <2>4
  <1>4. \A s \in SUBSET S : s \in T
    <2> HIDE DEF T
    <2> QED  BY <1>2, <1>3, SubsetInduction
  <1>5. \A s \in SUBSET S : IsFiniteSet(Grains(f, s)) /\ Count(f, s) \in Nat
    BY <1>4, FS_CardinalityType DEF Count
  <1>6. ASSUME NEW s \in SUBSET S, NEW x \in S, x \in s PROVE Count(f, s) = f[x] + Count(f, s \ {x})
    <2>1. /\ IsFiniteSet(Pile(x, f[x])) /\ Cardinality(Pile(x, f[x])) = f[x]
          /\ IsFiniteSet(Grains(f, s \ {x})) /\ Count(f, s \ {x}) \in Nat /\ f[x] \in Nat
      BY <1>5, PileSize
    <2>2. /\ Grains(f, s) = Pile(x, f[x]) \cup Grains(f, s \ {x})
          /\ Pile(x, f[x]) \cap Grains(f, s \ {x}) = {}
      BY <1>6, GrainsApart
    <2>3. Cardinality(Pile(x, f[x]) \cup Grains(f, s \ {x}))
            = Cardinality(Pile(x, f[x])) + Cardinality(Grains(f, s \ {x}))
                - Cardinality(Pile(x, f[x]) \cap Grains(f, s \ {x}))
      BY <2>1, FS_Union
    <2>4. Cardinality(Grains(f, s)) = f[x] + Cardinality(Grains(f, s \ {x})) - 0
      BY <2>1, <2>2, <2>3, FS_EmptySet
    <2> QED  BY <2>1, <2>4 DEF Count
  <1> QED  BY <1>1, <1>5, <1>6, FS_EmptySet DEF Count

\* A part of a set has no more grains.
LEMMA CountMonotone ==
    ASSUME NEW S, IsFiniteSet(S), NEW f \in [S -> Nat], NEW s \in SUBSET S
    PROVE  Count(f, s) <= Count(f, S)
  <1>1. Grains(f, s) \subseteq Grains(f, S) /\ IsFiniteSet(Grains(f, S))
    BY CountFirst DEF Grains
  <1> QED  BY <1>1, FS_Subset DEF Count

\* What the folds of the library recur on: an element of s first, then the rest.
Pick(s) == CHOOSE x \in s : TRUE

IsSum(sum, f, S) ==
    \A s \in SUBSET S : sum[s] = IF s = {} THEN 0 ELSE f[Pick(s)] + sum[s \ {Pick(s)}]

\* The recursion that a sum is defined by counts the grains.
LEMMA SumIsCount ==
    ASSUME NEW S, IsFiniteSet(S), NEW f \in [S -> Nat], NEW sum, IsSum(sum, f, S)
    PROVE  \A s \in SUBSET S : sum[s] = Count(f, s)
  <1> DEFINE T == {s \in SUBSET S : sum[s] = Count(f, s)}
  <1> USE DEF IsSum
  <1>1. {} \in T
    BY CountFirst
  <1>2. ASSUME NEW s \in SUBSET S, s # {}, \A x \in s : s \ {x} \in T PROVE s \in T
    <2>1. Pick(s) \in s
      BY <1>2 DEF Pick
    <2>2. sum[s \ {Pick(s)}] = Count(f, s \ {Pick(s)})
      BY <1>2, <2>1
    <2>3. Count(f, s) = f[Pick(s)] + Count(f, s \ {Pick(s)})
      BY <2>1, CountFirst
    <2> QED  BY <1>2, <2>2, <2>3
  <1>3. \A s \in SUBSET S : s \in T
    <2> HIDE DEF T
    <2> QED  BY <1>1, <1>2, SubsetInduction
  <1> QED  BY <1>3

\* And the recursion has a solution.
LEMMA CountRecurs ==
    ASSUME NEW S, IsFiniteSet(S), NEW f \in [S -> Nat]
    PROVE  \A s \in SUBSET S :
               Count(f, s) = IF s = {} THEN 0 ELSE f[Pick(s)] + Count(f, s \ {Pick(s)})
  <1>1. ASSUME NEW s \in SUBSET S, s # {} PROVE Count(f, s) = f[Pick(s)] + Count(f, s \ {Pick(s)})
    <2>1. Pick(s) \in s
      BY <1>1 DEF Pick
    <2> QED  BY <2>1, CountFirst
  <1> QED  BY <1>1, CountFirst

\* All shares of a round.
LEMMA TotalIsCount ==
    ASSUME NEW f \in [Miners -> Nat]
    PROVE  Total(f) = Count(f, Miners)
  <1> DEFINE Body(d) == [s \in SUBSET Miners |->
                           IF s = {} THEN 0
                           ELSE f[CHOOSE x \in s : TRUE] + d[s \ {CHOOSE x \in s : TRUE}]]
             sum == CHOOSE d : d = Body(d)
             count == [s \in SUBSET Miners |-> Count(f, s)]
  <1>1. Total(f) = sum[Miners]
    BY DEF Total, MapThenSumSet, MapThenFoldSet
  <1>2. count = Body(count)
    BY CountRecurs, PoolAssumption DEF Pick
  <1>3. sum = Body(sum)
    <2> HIDE DEF Body
    <2> QED  BY <1>2
  <1> HIDE DEF sum
  <1>4. IsSum(sum, f, Miners)
    BY <1>3 DEF Pick, IsSum
  <1> HIDE DEF Body
  <1>5. IsFiniteSet(Miners) /\ Miners \in SUBSET Miners
    BY PoolAssumption
  <1>6. \A s \in SUBSET Miners : sum[s] = Count(f, s)
    BY <1>4, <1>5, SumIsCount
  <1> QED  BY <1>1, <1>5, <1>6

\* The payouts of a block with their fees.
Paid(amounts, D) == MapThenSumSet(LAMBDA m : amounts[m] + TX_FEE, D)

LEMMA PaidIsCount ==
    ASSUME NEW D \in SUBSET Miners, NEW amounts \in [D -> Nat]
    PROVE  Paid(amounts, D) = Count([m \in D |-> amounts[m] + TX_FEE], D)
  <1> DEFINE Body(d) == [s \in SUBSET D |->
                           IF s = {} THEN 0
                           ELSE (amounts[CHOOSE x \in s : TRUE] + TX_FEE)
                                  + d[s \ {CHOOSE x \in s : TRUE}]]
             f == [m \in D |-> amounts[m] + TX_FEE]
             sum == CHOOSE d : d = Body(d)
             count == [s \in SUBSET D |-> Count(f, s)]
  <1>1. Paid(amounts, D) = sum[D]
    BY DEF Paid, MapThenSumSet, MapThenFoldSet
  <1>2. f \in [D -> Nat] /\ IsFiniteSet(D)
    BY PoolAssumption, FS_Subset
  <1>3. \A s \in SUBSET D : s # {} => Pick(s) \in D /\ f[Pick(s)] = amounts[Pick(s)] + TX_FEE
    BY DEF Pick
  <1> HIDE DEF f
  <1>4. count = Body(count)
    BY <1>2, <1>3, CountRecurs DEF Pick
  <1>5. sum = Body(sum)
    <2> HIDE DEF Body
    <2> QED  BY <1>4
  <1> HIDE DEF sum
  <1>6. IsSum(sum, f, D)
    BY <1>3, <1>5 DEF Pick, IsSum
  <1> HIDE DEF Body
  <1>7. \A s \in SUBSET D : sum[s] = Count(f, s)
    BY <1>2, <1>6, SumIsCount
  <1> QED  BY <1>1, <1>7 DEF f

-----------------------------------------------------------------------------
(* Payouts                                                                 *)

\* What the pool keeps of a reward pays the fees of its payouts: 158,500 fees
\* of 1 with the constants of the code.
FeesAreKeptBack == Cardinality(Miners) * TX_FEE <= (TESTNET_REWARD * POOL_FEE_PERMILLE) \div 1000

\* Rounding down pays no more than the exact part.
LEMMA RoundedDown ==
    ASSUME NEW a \in Nat, NEW b \in Nat, b > 0
    PROVE  a \div b \in Nat /\ (a \div b) * b <= a
  OBVIOUS

\* Multiplication keeps the order.
LEMMA TimesKeepsOrder ==
    ASSUME NEW a \in Nat, NEW b \in Nat, NEW q \in Nat, a <= b
    PROVE  a * q <= b * q /\ a * q \in Nat
  <1>1. PICK d \in Nat : b = a + d
    BY b - a \in Nat
  <1>2. b * q = a * q + d * q
    BY <1>1
  <1>3. a * q \in Nat /\ d * q \in Nat
    OBVIOUS
  <1> QED  BY <1>2, <1>3

\* One more payee: pay and fee are the fee and payout of one, a, b and c belong
\* to the others.
LEMMA OneMore ==
    ASSUME NEW pay \in Nat, NEW fee \in Nat, NEW share \in Nat, NEW t \in Nat, NEW d \in Nat,
           NEW a \in Nat, NEW b \in Nat, NEW c \in Nat,
           pay * t <= d * share, a * t <= d * b + c * t
    PROVE  (pay + fee + a) * t <= d * (share + b) + (c + fee) * t
  <1>1. (pay + fee + a) * t = pay * t + fee * t + a * t
    OBVIOUS
  <1>2. d * (share + b) = d * share + d * b
    OBVIOUS
  <1>3. (c + fee) * t = c * t + fee * t
    OBVIOUS
  <1>4. /\ pay * t \in Nat /\ fee * t \in Nat /\ a * t \in Nat /\ d * share \in Nat
        /\ d * b \in Nat /\ c * t \in Nat
    OBVIOUS
  <1> QED  BY <1>1, <1>2, <1>3, <1>4

\* What is common to both sides of an inequality cancels.
LEMMA Cancel ==
    ASSUME NEW a \in Nat, NEW b \in Nat, NEW t \in Nat, t > 0, a * t <= b * t
    PROVE  a <= b
  <1> SUFFICES ASSUME a > b PROVE FALSE
    OBVIOUS
  <1>1. PICK d \in Nat : a = b + 1 + d
    BY a - b - 1 \in Nat
  <1>2. a * t = b * t + t + d * t
    BY <1>1
  <1>3. b * t \in Nat /\ d * t \in Nat
    OBVIOUS
  <1> QED  BY <1>2, <1>3

\* The reward and what is kept back of it.
LEMMA Reward ==
    /\ ToDistribute \in Nat /\ TX_FEE \in Nat /\ TESTNET_REWARD \in Nat
    /\ ToDistribute + (TESTNET_REWARD * POOL_FEE_PERMILLE) \div 1000 = TESTNET_REWARD
  <1> DEFINE kept == (TESTNET_REWARD * POOL_FEE_PERMILLE) \div 1000
  <1>1. TESTNET_REWARD \in Nat /\ POOL_FEE_PERMILLE \in Nat /\ TX_FEE \in Nat
    BY PoolAssumption
  <1>2. PICK rest \in Nat : 1000 = POOL_FEE_PERMILLE + rest
    <2>1. 1000 - POOL_FEE_PERMILLE \in Nat
      BY PoolAssumption
    <2> QED  BY <2>1, <1>1
  <1>3. TESTNET_REWARD * 1000 = TESTNET_REWARD * POOL_FEE_PERMILLE + TESTNET_REWARD * rest
    BY <1>1, <1>2
  <1>4. TESTNET_REWARD * POOL_FEE_PERMILLE \in Nat /\ TESTNET_REWARD * rest \in Nat
    BY <1>1
  <1>5. kept \in Nat /\ kept <= TESTNET_REWARD
    BY <1>1, <1>3, <1>4
  <1> QED  BY <1>1, <1>5 DEF ToDistribute

\* What a set of miners is paid, in proportion to its shares.
LEMMA PaidInProportion ==
    ASSUME NEW won \in [Miners -> Nat], Total(won) \in Nat, Total(won) > 0,
           NEW D \in SUBSET Miners, NEW paid,
           paid = [m \in D |-> Payout(won, m) + TX_FEE]
    PROVE  /\ paid \in [D -> Nat] /\ \A m \in D : Payout(won, m) \in Nat
           /\ Count(paid, D) * Total(won)
                 <= ToDistribute * Count(won, D) + (Cardinality(D) * TX_FEE) * Total(won)
  <1> DEFINE t == Total(won)
             T == {s \in SUBSET D : Count(paid, s) * t <= ToDistribute * Count(won, s)
                                                           + (Cardinality(s) * TX_FEE) * t}
  <1>1. ASSUME NEW m \in D PROVE Payout(won, m) \in Nat /\ Payout(won, m) * t <= ToDistribute * won[m]
    <2>1. ToDistribute * won[m] \in Nat
      BY Reward
    <2> QED  BY <2>1, RoundedDown DEF Payout
  <1>2. paid \in [D -> Nat]
    BY <1>1, Reward
  <1>3. IsFiniteSet(D) /\ IsFiniteSet(Miners) /\ \A s \in SUBSET D : IsFiniteSet(s) /\ Cardinality(s) \in Nat
    BY PoolAssumption, FS_Subset, FS_CardinalityType
  <1> HIDE DEF t
  <1>4. {} \in T
    <2>1. Count(paid, {}) = 0 /\ Count(won, {}) = 0 /\ Cardinality({}) = 0 /\ t \in Nat
      BY <1>2, <1>3, CountFirst, FS_EmptySet DEF t
    <2> QED  BY <2>1, Reward
  <1>5. ASSUME NEW s \in SUBSET D, s # {}, \A x \in s : s \ {x} \in T PROVE s \in T
    <2>1. PICK x \in s : TRUE
      BY <1>5
    <2> DEFINE r == s \ {x}
    <2>2. x \in D /\ x \in Miners /\ r \in SUBSET D /\ r \in SUBSET Miners /\ s \in SUBSET Miners
      OBVIOUS
    <2>3. Count(paid, s) = paid[x] + Count(paid, r) /\ Count(paid, r) \in Nat
      BY <1>2, <1>3, <2>2, CountFirst
    <2>4. Count(won, s) = won[x] + Count(won, r) /\ Count(won, r) \in Nat
      BY <1>3, <2>2, CountFirst
    <2>5. Cardinality(r) = Cardinality(s) - 1 /\ Cardinality(r) \in Nat /\ Cardinality(s) \in Nat
      BY <1>3, <2>2, FS_RemoveElement
    <2>6. Cardinality(s) * TX_FEE = Cardinality(r) * TX_FEE + TX_FEE /\ Cardinality(r) * TX_FEE \in Nat
      <3>1. Cardinality(s) = Cardinality(r) + 1
        BY <2>5
      <3> QED  BY <2>5, <3>1, Reward
    <2>7. Count(paid, r) * t <= ToDistribute * Count(won, r) + (Cardinality(r) * TX_FEE) * t
      BY <1>5
    <2>8. paid[x] = Payout(won, x) + TX_FEE /\ Payout(won, x) \in Nat /\ won[x] \in Nat
          /\ Payout(won, x) * t <= ToDistribute * won[x] /\ t \in Nat
      BY <1>1, <2>2 DEF t
    <2> HIDE DEF r, T
    <2>9. (Payout(won, x) + TX_FEE + Count(paid, r)) * t
             <= ToDistribute * (won[x] + Count(won, r)) + (Cardinality(r) * TX_FEE + TX_FEE) * t
      BY <2>3, <2>4, <2>6, <2>7, <2>8, Reward, OneMore
    <2> QED  BY <2>3, <2>4, <2>6, <2>8, <2>9 DEF T
  <1>6. \A s \in SUBSET D : s \in T
    <2> HIDE DEF T
    <2> QED  BY <1>3, <1>4, <1>5, SubsetInduction
  <1>7. D \in T
    BY <1>6
  <1> QED  BY <1>1, <1>2, <1>7 DEF t

\* The reward covers payouts and fees, whoever of the miners is paid.
LEMMA PaidWithinReward ==
    ASSUME FeesAreKeptBack, NEW won \in [Miners -> Nat], NEW D \in SUBSET Miners,
           \A m \in D : won[m] > 0
    PROVE  /\ \A m \in D : Payout(won, m) \in Nat
           /\ Count([m \in D |-> Payout(won, m) + TX_FEE], D) <= TESTNET_REWARD
  <1> DEFINE t == Total(won)
             paid == [m \in D |-> Payout(won, m) + TX_FEE]
             fees == Cardinality(D) * TX_FEE
             kept == (TESTNET_REWARD * POOL_FEE_PERMILLE) \div 1000
  <1>1. IsFiniteSet(Miners) /\ IsFiniteSet(D) /\ Miners \in SUBSET Miners
    BY PoolAssumption, FS_Subset
  <1>2. CASE D = {}
    <2>1. Grains(paid, {}) = {}
      BY DEF Grains
    <2>2. Count(paid, {}) = 0
      BY <2>1, FS_EmptySet DEF Count
    <2> QED  BY <1>2, <2>2, Reward
  <1>3. CASE D # {}
    <2>1. t = Count(won, Miners) /\ t \in Nat
      BY <1>1, TotalIsCount, CountFirst
    <2>2. t > 0
      <3>1. PICK m \in D : won[m] > 0
        BY <1>3
      <3>2. t = won[m] + Count(won, Miners \ {m}) /\ Count(won, Miners \ {m}) \in Nat
        BY <1>1, <2>1, CountFirst
      <3> QED  BY <3>1, <3>2
    <2>3. /\ paid \in [D -> Nat] /\ \A m \in D : Payout(won, m) \in Nat
          /\ Count(paid, D) * t <= ToDistribute * Count(won, D) + fees * t
      BY <2>1, <2>2, PaidInProportion
    <2>4. Count(won, D) \in Nat /\ Count(won, D) <= t
      BY <1>1, <2>1, CountFirst, CountMonotone
    <2>5. fees \in Nat /\ fees <= kept /\ kept \in Nat /\ ToDistribute + kept = TESTNET_REWARD
      <3>1. Cardinality(D) \in Nat /\ Cardinality(Miners) \in Nat /\ Cardinality(D) <= Cardinality(Miners)
        BY <1>1, FS_Subset, FS_CardinalityType
      <3>2. fees <= Cardinality(Miners) * TX_FEE /\ fees \in Nat
        BY <3>1, Reward, TimesKeepsOrder
      <3>3. Cardinality(Miners) * TX_FEE <= kept /\ Cardinality(Miners) * TX_FEE \in Nat
        BY <3>1, Reward DEF FeesAreKeptBack
      <3>4. kept \in Nat /\ ToDistribute + kept = TESTNET_REWARD
        BY PoolAssumption, Reward
      <3> HIDE DEF fees, kept
      <3> QED  BY <3>2, <3>3, <3>4
    <2>6. Count(paid, D) \in Nat
      BY <1>1, <2>3, CountFirst
    <2> HIDE DEF t, paid, fees, kept
    <2>7. Count(paid, D) * t <= TESTNET_REWARD * t
      <3>1. Count(won, D) * ToDistribute <= t * ToDistribute
        BY <2>1, <2>4, Reward, TimesKeepsOrder
      <3>2. (ToDistribute + fees) * t <= TESTNET_REWARD * t
        BY <2>1, <2>5, Reward, TimesKeepsOrder
      <3>3. /\ (ToDistribute + fees) * t = ToDistribute * t + fees * t
            /\ ToDistribute * t = t * ToDistribute
            /\ ToDistribute * Count(won, D) = Count(won, D) * ToDistribute
        BY <2>1, <2>4, <2>5, Reward
      <3>4. /\ Count(paid, D) * t \in Nat /\ t * ToDistribute \in Nat /\ fees * t \in Nat
            /\ Count(won, D) * ToDistribute \in Nat /\ TESTNET_REWARD * t \in Nat
        BY <2>1, <2>4, <2>5, <2>6, Reward
      <3> QED  BY <2>3, <3>1, <3>2, <3>3, <3>4
    <2>8. Count(paid, D) <= TESTNET_REWARD
      BY <2>1, <2>2, <2>6, <2>7, Reward, Cancel
    <2> QED  BY <2>3, <2>8 DEF paid
  <1> QED  BY <1>2, <1>3

\* The amounts of the block that is submitted are payouts of one round.
AmountsArePayouts ==
    submitter.pc = "submit" =>
        \E s \in [Miners -> Nat] :
            /\ \A m \in DOMAIN submitter.amounts : s[m] > 0
            /\ submitter.amounts = [m \in DOMAIN submitter.amounts |-> Payout(s, m)]

\* Only BuildPayouts makes amounts, of the round the submitter has read.
LEMMA AmountsStep == Types /\ AmountsArePayouts /\ [Next]_vars => AmountsArePayouts'
  <1> SUFFICES ASSUME Types, AmountsArePayouts, [Next]_vars PROVE AmountsArePayouts'
    OBVIOUS
  <1> USE DEF Types
  <1>1. CASE BuildPayouts
    <2>1. submitter \in WithShares
      BY <1>1 DEF BuildPayouts, SubmitterTypes, WithRound, Idle
    <2>2. PICK fk \in BOOLEAN :
             LET s == submitter.shares
                 payees == {m \in MinerPubkeysInRound(fk) : s[m] > 0 /\ Payout(s, m) > 0}
             IN  submitter' = [pc |-> "submit", found |-> submitter.found,
                               amounts |-> [m \in payees |-> Payout(s, m)]]
      BY <1>1 DEF BuildPayouts
    <2>3. PICK s : s = submitter.shares /\ s \in [Miners -> Nat]
      BY <2>1 DEF WithShares
    <2>4. PICK D : D = {m \in MinerPubkeysInRound(fk) : s[m] > 0 /\ Payout(s, m) > 0}
      OBVIOUS
    <2>5. submitter'.amounts = [m \in D |-> Payout(s, m)]
      BY <2>2, <2>3, <2>4
    <2>6. /\ DOMAIN submitter'.amounts = D
          /\ \A m \in DOMAIN submitter'.amounts : s[m] > 0
      BY <2>4, <2>5
    <2> QED  BY <2>3, <2>5, <2>6 DEF AmountsArePayouts
  <1>2. CASE UNCHANGED submitter
    BY <1>2 DEF AmountsArePayouts
  <1>3. ASSUME submitter'.pc # "submit" PROVE AmountsArePayouts'
    BY <1>3 DEF AmountsArePayouts
  <1>4. ASSUME NEW h \in Handlers, PersistShare(h) PROVE UNCHANGED submitter \/ submitter'.pc # "submit"
    <2>1. CASE submitter \in WithRound \/ submitter \in WithShares
      BY <1>4, <2>1 DEF PersistShare, InsertShare, WithRound, WithShares
    <2>2. CASE ~(submitter \in WithRound \/ submitter \in WithShares)
      <3>1. submitter.pc \notin {"round", "build"}
        BY <2>2 DEF SubmitterTypes, Idle
      <3> QED  BY <1>4, <3>1 DEF PersistShare, InsertShare
    <2> QED  BY <2>1, <2>2
  <1>5. ASSUME TakeFound \/ ReadRound \/ SubmitBlock \/ PublishFound \/ FinishSubmit \/ Restart
        PROVE  submitter'.pc # "submit"
    BY <1>5 DEF TakeFound, ReadRound, SubmitBlock, PublishFound, FinishSubmit, Restart, Idle
  <1>6. ASSUME Stores \/ Watch PROVE UNCHANGED submitter
    BY <1>6 DEF Stores, StoreHeight, StoreHash, Watch, PollHeight, PollHash, WriteTemplate, ResetRound, StartRound
  <1>7. ASSUME NEW h \in Handlers, CountShare(h) \/ \E s \in Shares : BeginShare(h, s)
        PROVE  UNCHANGED submitter
    BY <1>7 DEF CountShare, BeginShare
  <1> QED
    BY <1>1, <1>2, <1>3, <1>4, <1>5, <1>6, <1>7 DEF Next, Stores, Handle, Submit, vars

\* Payouts of one round are within the reward.
LEMMA AmountsWithinReward ==
    ASSUME FeesAreKeptBack, SubmitterTypes, AmountsArePayouts
    PROVE  PayoutsWithinReward
  <1> SUFFICES ASSUME submitter.pc = "submit"
               PROVE  Paid(submitter.amounts, DOMAIN submitter.amounts) <= TESTNET_REWARD
    BY DEF PayoutsWithinReward, Paid
  <1>1. PICK s \in [Miners -> Nat] :
            /\ \A m \in DOMAIN submitter.amounts : s[m] > 0
            /\ submitter.amounts = [m \in DOMAIN submitter.amounts |-> Payout(s, m)]
    BY DEF AmountsArePayouts
  <1>2. PICK D \in SUBSET Miners : D = DOMAIN submitter.amounts
    BY DEF SubmitterTypes, WithRound, WithShares, Idle
  <1>3. /\ \A m \in D : Payout(s, m) \in Nat
        /\ Count([m \in D |-> Payout(s, m) + TX_FEE], D) <= TESTNET_REWARD
    BY <1>1, <1>2, PaidWithinReward
  <1>4. PICK a \in [D -> Nat] : a = submitter.amounts /\ \A m \in D : a[m] = Payout(s, m)
    BY <1>1, <1>2, <1>3
  <1>5. [m \in D |-> a[m] + TX_FEE] = [m \in D |-> Payout(s, m) + TX_FEE]
    BY <1>4
  <1>6. Paid(a, D) = Count([m \in D |-> a[m] + TX_FEE], D)
    BY PaidIsCount
  <1>7. Paid(a, D) <= TESTNET_REWARD
    BY <1>3, <1>5, <1>6
  <1> QED  BY <1>2, <1>4, <1>7

(***************************************************************************)
(* Whatever is counted while the submitter works, whoever of the miners    *)
(* the shares table knows and however the divisions round, a block never   *)
(* pays out more than its reward, fees included (main.rs, build_payout_txs)*)
(* as long as the fees of all payouts are within what the pool keeps.      *)
(***************************************************************************)
THEOREM PayoutsAreCovered ==
    ASSUME FeesAreKeptBack
    PROVE  Spec => []PayoutsWithinReward
  <1>1. Init => AmountsArePayouts
    BY DEF Init, AmountsArePayouts, Idle
  <1>2. Types /\ AmountsArePayouts => PayoutsWithinReward
    BY AmountsWithinReward DEF Types
  <1> QED
    BY <1>1, <1>2, AmountsStep, AllTypes, PTL DEF Spec

-----------------------------------------------------------------------------
(* The threads of a miner                                                  *)

\* A thread's part of the nonces.
Part == (NONCES - 1) \div Threads

-----------------------------------------------------------------------------
(* Arithmetic of the parts                                                 *)

\* The constants that are numbers.
LEMMA Numbers ==
    /\ Threads \in Nat /\ Threads > 0 /\ NONCES \in Nat /\ NONCES > 1 /\ TS_WINDOW \in Nat
    /\ MaxIndex \in Nat /\ MaxIndex > 0 /\ MaxTime \in Nat /\ MaxHashes \in Nat
  BY MinerAssumption

\* All parts together are less than the nonces.
LEMMA PartFits == Part \in Nat /\ Threads * Part <= NONCES - 1 /\ MaxHashes <= Part
  <1>1. Part \in Nat
    BY Numbers DEF Part
  <1>2. Threads * Part <= NONCES - 1
    BY Numbers DEF Part
  <1>3. MaxHashes <= Part
    BY <1>1, Numbers, MinerAssumption DEF Part
  <1> QED  BY <1>1, <1>2, <1>3

\* A part ends where the next begins, and the last within the nonces.
LEMMA PartsInRow ==
    ASSUME NEW i \in Ids
    PROVE  /\ FirstNonce(i) = i * Part /\ FirstNonce(i) \in Nat
           /\ FirstNonce(i) + Part <= NONCES - 1
           /\ \A j \in Ids : i < j => FirstNonce(i) + Part <= FirstNonce(j)
  <1>1. i \in Nat /\ i + 1 <= Threads /\ i + 1 \in Nat
    BY Numbers DEF Ids
  <1>2. FirstNonce(i) = i * Part
    BY DEF FirstNonce, Part
  <1>3. i * Part \in Nat /\ (i + 1) * Part = i * Part + Part
    BY <1>1, PartFits
  <1>4. (i + 1) * Part <= Threads * Part
    BY <1>1, PartFits, Numbers, TimesKeepsOrder
  <1>5. Threads * Part \in Nat
    BY PartFits, Numbers
  <1>6. i * Part + Part <= NONCES - 1
    BY <1>3, <1>4, <1>5, PartFits, Numbers
  <1>7. ASSUME NEW j \in Ids, i < j  PROVE FirstNonce(i) + Part <= FirstNonce(j)
    <2>1. j \in Nat /\ i + 1 <= j
      BY <1>1, <1>7, Numbers DEF Ids
    <2>2. (i + 1) * Part <= j * Part
      BY <1>1, <2>1, PartFits, TimesKeepsOrder
    <2> QED  BY <1>2, <1>3, <2>2 DEF FirstNonce, Part
  <1> QED  BY <1>2, <1>3, <1>6, <1>7

-----------------------------------------------------------------------------
(* Types                                                                   *)

AnyWork == Works \cup {NoWork}
Nonces == 0..NONCES - 1
ShareSet == [nonce : Nonces, work : Works]
Locals == [nonce : Nonces, work : AnyWork]

\* No thread has gone further into its part than hashes were computed.
InPart ==
    \A i \in Ids : FirstNonce(i) <= thread[i].nonce /\ thread[i].nonce <= FirstNonce(i) + hashes

MinerInv == MinerTypeOK /\ InPart

\* The types in the words of this module.
LEMMA TypesOfThreads ==
    ASSUME MinerTypeOK
    PROVE  /\ thread \in [Ids -> Locals] /\ shares \in Seq(ShareSet)
           /\ reply \in AnyWork /\ shared \in AnyWork
           /\ offered \in [index : 1..MaxIndex, prev : Hashes]
           /\ since \in Nat /\ now \in Nat /\ since <= now /\ now <= MaxTime /\ hashes \in Nat
  BY Numbers DEF MinerTypeOK, Locals, ShareSet, AnyWork, Nonces

\* No nonce has gone round: there is room for the next.
LEMMA NoWrap ==
    ASSUME MinerInv, NEW i \in Ids, hashes < MaxHashes
    PROVE  /\ thread[i].nonce \in Nat /\ thread[i].nonce + 1 < NONCES
           /\ (thread[i].nonce + 1) % NONCES = thread[i].nonce + 1
  <1>1. thread[i].nonce \in Nat /\ hashes \in Nat
    BY TypesOfThreads DEF MinerInv, Locals, Nonces
  <1>2. thread[i].nonce <= FirstNonce(i) + hashes
    BY DEF MinerInv, InPart
  <1>3. thread[i].nonce + 1 < NONCES
    BY <1>1, <1>2, PartsInRow, PartFits, Numbers
  <1> QED  BY <1>1, <1>3, Numbers

\* Threads that wait for their first work are at the beginning of their part.
LEMMA InitMiner == MinerInit => MinerInv
  <1> SUFFICES ASSUME MinerInit PROVE MinerInv
    OBVIOUS
  <1>1. \A i \in Ids : FirstNonce(i) \in Nonces /\ FirstNonce(i) \in Nat
    BY PartsInRow, PartFits, Numbers DEF Nonces
  <1>2. thread \in [Ids -> Locals]
    BY <1>1 DEF MinerInit, Locals, AnyWork
  <1>3. offered \in [index : 1..MaxIndex, prev : Hashes]
    BY Numbers, MinerAssumption DEF MinerInit
  <1>4. MinerTypeOK
    BY <1>2, <1>3, Numbers DEF MinerInit, MinerTypeOK, Locals, Nonces, AnyWork, Answers
  <1>5. InPart
    BY <1>1 DEF MinerInit, InPart
  <1> QED  BY <1>4, <1>5 DEF MinerInv

\* A thread that takes over work stays where it is in its part.
LEMMA RefreshMiner ==
    ASSUME MinerInv, NEW id \in Ids, Refresh(id)
    PROVE  MinerInv'
  <1>1. /\ thread \in [Ids -> Locals] /\ shared \in AnyWork
        /\ thread' = [thread EXCEPT ![id] = [thread[id] EXCEPT !.work = shared]]
    BY TypesOfThreads DEF MinerInv, Refresh, Taken
  <1>2. [thread[id] EXCEPT !.work = shared] \in Locals
        /\ [thread[id] EXCEPT !.work = shared].nonce = thread[id].nonce
    BY <1>1 DEF Locals
  <1>3. thread' \in [Ids -> Locals] /\ \A i \in Ids : thread'[i].nonce = thread[i].nonce
    BY <1>1, <1>2
  <1>4. UNCHANGED <<poolVars, reply, shared, shares, answer, hashes, now>>
    BY DEF Refresh
  <1>5. MinerTypeOK'
    BY <1>3, <1>4 DEF MinerInv, MinerTypeOK, Locals, Nonces, AnyWork, poolVars
  <1> QED  BY <1>3, <1>4, <1>5 DEF MinerInv, InPart

\* What a hash does to its thread: the nonce goes up by one, without wrapping.
LEMMA HashStep ==
    ASSUME MinerInv, NEW id \in Ids, NEW b \in BOOLEAN, Hash(id, b)
    PROVE  /\ thread' \in [Ids -> Locals]
           /\ thread'[id].nonce = thread[id].nonce + 1 /\ thread'[id].work = thread[id].work
           /\ \A i \in Ids \ {id} : thread'[i] = thread[i]
           /\ hashes' = hashes + 1 /\ hashes < MaxHashes /\ thread[id].work \in Works
           /\ [nonce |-> thread[id].nonce, work |-> thread[id].work] \in ShareSet
           /\ \/ shares' = shares
              \/ shares' = Append(shares, [nonce |-> thread[id].nonce, work |-> thread[id].work])
           /\ UNCHANGED <<poolVars, reply, shared, answer, now>>
  <1>1. /\ thread[id].work # NoWork /\ hashes < MaxHashes /\ hashes' = hashes + 1
        /\ thread' = [thread EXCEPT ![id] = [thread[id] EXCEPT !.nonce = (thread[id].nonce + 1) % NONCES]]
        /\ \/ shares' = shares
           \/ shares' = Append(shares, [nonce |-> thread[id].nonce, work |-> thread[id].work])
        /\ UNCHANGED <<poolVars, reply, shared, answer, now>>
    BY Zenon DEF Hash
  <1>2. thread \in [Ids -> Locals]
    BY TypesOfThreads DEF MinerInv
  <1>3. thread[id].nonce \in Nat /\ thread[id].nonce + 1 < NONCES
        /\ (thread[id].nonce + 1) % NONCES = thread[id].nonce + 1
    BY <1>1, NoWrap
  <1>4. thread[id].nonce + 1 \in Nonces
    BY <1>3, Numbers DEF Nonces
  <1>5. thread[id] \in Locals
    BY <1>2
  <1>6. [thread[id] EXCEPT !.nonce = (thread[id].nonce + 1) % NONCES] \in Locals
    BY <1>3, <1>4, <1>5 DEF Locals
  <1>7. /\ [thread[id] EXCEPT !.nonce = (thread[id].nonce + 1) % NONCES].nonce = thread[id].nonce + 1
        /\ [thread[id] EXCEPT !.nonce = (thread[id].nonce + 1) % NONCES].work = thread[id].work
    BY <1>3, <1>5 DEF Locals
  <1>8. thread[id].work \in Works /\ thread[id].nonce \in Nonces
    BY <1>1, <1>5 DEF Locals, AnyWork
  <1> QED  BY <1>1, <1>2, <1>6, <1>7, <1>8 DEF ShareSet

\* A hash keeps its thread in its part.
LEMMA HashMiner ==
    ASSUME MinerInv, NEW id \in Ids, NEW b \in BOOLEAN, Hash(id, b)
    PROVE  MinerInv'
  <1>1. shares \in Seq(ShareSet) /\ hashes \in Nat
    BY TypesOfThreads DEF MinerInv
  <1>2. /\ thread' \in [Ids -> Locals]
        /\ thread'[id].nonce = thread[id].nonce + 1
        /\ \A i \in Ids \ {id} : thread'[i] = thread[i]
        /\ hashes' = hashes + 1 /\ hashes < MaxHashes
        /\ UNCHANGED <<poolVars, reply, shared, answer, now>>
    BY HashStep
  <1>3. shares' \in Seq(ShareSet)
    <2> DEFINE share == [nonce |-> thread[id].nonce, work |-> thread[id].work]
    <2>1. share \in ShareSet /\ (shares' = shares \/ shares' = Append(shares, share))
      BY HashStep
    <2> HIDE DEF share
    <2> QED  BY <1>1, <2>1
  <1>4. hashes' \in 0..MaxHashes
    BY <1>1, <1>2, Numbers
  <1>5. MinerTypeOK'
    BY <1>2, <1>3, <1>4 DEF MinerInv, MinerTypeOK, Locals, ShareSet, Nonces, AnyWork, poolVars
  <1>6. InPart'
    <2> SUFFICES ASSUME NEW i \in Ids
                 PROVE  FirstNonce(i) <= thread'[i].nonce /\ thread'[i].nonce <= FirstNonce(i) + hashes'
      BY DEF InPart, FirstNonce
    <2>1. /\ FirstNonce(i) <= thread[i].nonce /\ thread[i].nonce <= FirstNonce(i) + hashes
          /\ thread[i].nonce \in Nat /\ FirstNonce(i) \in Nat
      BY <1>2, NoWrap, PartsInRow DEF MinerInv, InPart
    <2>2. thread'[i].nonce \in {thread[i].nonce, thread[i].nonce + 1}
      BY <1>2
    <2> QED  BY <1>1, <1>2, <2>1, <2>2
  <1> QED  BY <1>5, <1>6 DEF MinerInv

\* A share that is posted or lost leaves the channel.
LEMMA PostMiner ==
    ASSUME MinerInv, PostShare \/ PostFails
    PROVE  MinerInv'
  <1>1. shares \in Seq(ShareSet) /\ shares # <<>>
    BY TypesOfThreads DEF MinerInv, PostShare, PostFails
  <1>2. Head(shares) \in ShareSet /\ shares' \in Seq(ShareSet)
    BY <1>1 DEF PostShare, PostFails
  <1>3. /\ UNCHANGED <<offered, since, reply, shared, thread, hashes, now>>
        /\ known' \subseteq known \cup {<<Head(shares).work.index, Head(shares).nonce>>}
        /\ answer' \in {answer, Verdict(Head(shares))}
    BY DEF PostShare, PostFails, poolVars
  <1>4. Verdict(Head(shares)) \in Answers
    BY DEF Verdict, Answers
  <1>5. <<Head(shares).work.index, Head(shares).nonce>> \in (1..MaxIndex) \X (0..NONCES - 1)
    BY <1>2 DEF ShareSet, Nonces, Works
  <1>6. known' \subseteq (1..MaxIndex) \X (0..NONCES - 1) /\ answer' \in Answers
    BY <1>3, <1>4, <1>5 DEF MinerInv, MinerTypeOK
  <1>7. MinerTypeOK'
    BY <1>2, <1>3, <1>6 DEF MinerInv, MinerTypeOK, ShareSet, Nonces
  <1> QED  BY <1>3, <1>7 DEF MinerInv, InPart

\* Every step keeps the types, and every thread in its part.
LEMMA StepMiner == MinerInv /\ [MinerNext]_minerVars => MinerInv'
  <1> SUFFICES ASSUME MinerInv, [MinerNext]_minerVars PROVE MinerInv'
    OBVIOUS
  <1>0. MinerTypeOK /\ InPart
    BY DEF MinerInv
  <1>1. ASSUME UNCHANGED <<thread, hashes>>, MinerTypeOK'  PROVE MinerInv'
    BY <1>0, <1>1 DEF MinerInv, InPart
  <1>2. ASSUME NEW h \in Hashes, NextTemplate(h)  PROVE MinerInv'
    <2>1. offered' \in [index : 1..MaxIndex, prev : Hashes]
      BY <1>0, <1>2, TypesOfThreads, Numbers DEF NextTemplate
    <2>2. since' \in 0..now' /\ UNCHANGED <<known, reply, shared, thread, shares, answer, hashes, now>>
      BY <1>0, <1>2, TypesOfThreads DEF NextTemplate
    <2> QED  BY <1>0, <1>1, <2>1, <2>2 DEF MinerTypeOK
  <1>3. ASSUME NEW h \in Hashes, OtherParent(h)  PROVE MinerInv'
    <2>1. offered' \in [index : 1..MaxIndex, prev : Hashes]
      BY <1>0, <1>3, TypesOfThreads DEF OtherParent
    <2>2. UNCHANGED <<since, known, reply, shared, thread, shares, answer, hashes, now>>
      BY <1>3 DEF OtherParent
    <2> QED  BY <1>0, <1>1, <2>1, <2>2 DEF MinerTypeOK
  <1>4. CASE GetWork
    <2>1. reply' \in Works
      BY <1>0, <1>4, TypesOfThreads, Numbers DEF GetWork, Works
    <2>2. UNCHANGED <<poolVars, shared, thread, shares, answer, hashes, now>>
      BY <1>4 DEF GetWork
    <2> QED  BY <1>0, <1>1, <2>1, <2>2 DEF MinerTypeOK, poolVars
  <1>5. CASE StoreWork \/ FetchFails
    BY <1>0, <1>1, <1>5 DEF StoreWork, FetchFails, MinerTypeOK, poolVars
  <1>6. CASE Tick
    <2>1. now' \in 0..MaxTime /\ since \in 0..now'
      BY <1>0, <1>6, TypesOfThreads, Numbers DEF Tick
    <2> QED  BY <1>0, <1>1, <1>6, <2>1 DEF Tick, MinerTypeOK, poolVars
  <1>7. CASE UNCHANGED minerVars
    BY <1>0, <1>1, <1>7 DEF minerVars, MinerTypeOK
  <1>8. ASSUME NEW id \in Ids, Refresh(id)  PROVE MinerInv'
    BY <1>8, RefreshMiner
  <1>9. ASSUME NEW id \in Ids, NEW b \in BOOLEAN, Hash(id, b)  PROVE MinerInv'
    BY <1>9, HashMiner
  <1>10. CASE PostShare \/ PostFails
    BY <1>10, PostMiner
  <1>11. CASE MinerNext
    BY <1>11, <1>2, <1>3, <1>4, <1>5, <1>6, <1>8, <1>9, <1>10, Zenon DEF MinerNext
  <1> QED  BY <1>7, <1>11

\* Work, shares and nonces keep their types; that no nonce goes round needs the
\* bound on the hashes (taron-cli/src/main.rs).
THEOREM MinerTypeCorrect == MinerSpec => []MinerTypeOK
  <1>1. MinerInv => MinerTypeOK
    BY DEF MinerInv
  <1> QED  BY <1>1, InitMiner, StepMiner, PTL DEF MinerSpec

-----------------------------------------------------------------------------
(* Nonces                                                                  *)

\* Some thread with locals th has tried n.
Tried(th, n) == \E i \in Ids : FirstNonce(i) <= n /\ n < th[i].nonce

\* Shares on their way are of different nonces that were tried, and none of them
\* is known to the pool.
NoncesDiffer ==
    /\ \A i \in 1..Len(shares) : Tried(thread, shares[i].nonce)
    /\ \A i, j \in 1..Len(shares) : shares[i].nonce = shares[j].nonce => i = j
    /\ \A p \in known : Tried(thread, p[2]) /\ \A i \in 1..Len(shares) : shares[i].nonce # p[2]
    /\ NoneIsDuplicate

\* The nonce a thread is about to try is new: other threads are in other parts.
LEMMA NextIsNew ==
    ASSUME MinerInv, NEW id \in Ids, hashes < MaxHashes
    PROVE  ~Tried(thread, thread[id].nonce)
  <1> SUFFICES ASSUME NEW i \in Ids, FirstNonce(i) <= thread[id].nonce, thread[id].nonce < thread[i].nonce
               PROVE  FALSE
    BY DEF Tried
  <1>1. /\ thread[id].nonce \in Nat /\ thread[i].nonce \in Nat /\ hashes \in Nat
        /\ FirstNonce(id) <= thread[id].nonce /\ thread[id].nonce <= FirstNonce(id) + hashes
        /\ thread[i].nonce <= FirstNonce(i) + hashes
    BY NoWrap, TypesOfThreads DEF MinerInv, InPart
  <1>2. hashes < Part /\ Part \in Nat
    BY <1>1, PartFits, Numbers
  <1>3. i \in Int /\ id \in Int
    BY DEF Ids
  <1>4. FirstNonce(i) \in Nat /\ FirstNonce(id) \in Nat
    BY PartsInRow
  <1>5. CASE i < id
    <2>1. FirstNonce(i) + Part <= FirstNonce(id)
      BY <1>5, PartsInRow
    <2> QED  BY <1>1, <1>2, <1>4, <2>1
  <1>6. CASE id < i
    <2>1. FirstNonce(id) + Part <= FirstNonce(i)
      BY <1>6, PartsInRow
    <2> QED  BY <1>1, <1>2, <1>4, <2>1
  <1>7. i # id
    BY <1>1
  <1> QED  BY <1>3, <1>5, <1>6, <1>7

\* A hash makes one nonce tried that was not.
LEMMA HashNonces ==
    ASSUME MinerInv, NoncesDiffer, NEW id \in Ids, NEW b \in BOOLEAN, Hash(id, b)
    PROVE  NoncesDiffer'
  <1> DEFINE n == thread[id].nonce
             share == [nonce |-> n, work |-> thread[id].work]
  <1>1. /\ thread'[id].nonce = n + 1 /\ \A i \in Ids \ {id} : thread'[i] = thread[i]
        /\ hashes < MaxHashes /\ share \in ShareSet
        /\ shares' = shares \/ shares' = Append(shares, share)
        /\ known' = known /\ answer' = answer
    BY HashStep DEF poolVars
  <1>2. n \in Nat /\ FirstNonce(id) <= n /\ FirstNonce(id) \in Nat /\ share.nonce = n
    BY <1>1, NoWrap, PartsInRow DEF MinerInv, InPart
  <1>3. ~Tried(thread, n)
    BY <1>1, NextIsNew
  <1>4. shares \in Seq(ShareSet) /\ Len(shares) \in Nat
    BY TypesOfThreads DEF MinerInv
  <1>5. \A m \in Nat : Tried(thread, m) => Tried(thread', m)
    <2> SUFFICES ASSUME NEW m \in Nat, NEW i \in Ids, FirstNonce(i) <= m, m < thread[i].nonce
                 PROVE  FirstNonce(i) <= m /\ m < thread'[i].nonce
      BY DEF Tried, FirstNonce
    <2> QED  BY <1>1, <1>2
  <1>6. Tried(thread', n)
    <2>1. FirstNonce(id) <= n /\ n < thread'[id].nonce
      BY <1>1, <1>2
    <2> QED  BY <2>1 DEF Tried, FirstNonce
  <1>7. /\ \A i \in 1..Len(shares) : shares[i].nonce \in Nat
        /\ \A p \in known : p[2] \in Nat
    <2>1. \A i \in 1..Len(shares) : shares[i] \in ShareSet
      BY <1>4
    <2>2. \A x \in ShareSet : x.nonce \in Nat
      BY Numbers DEF ShareSet, Nonces
    <2>3. known \subseteq (1..MaxIndex) \X (0..NONCES - 1)
      BY DEF MinerInv, MinerTypeOK
    <2> QED  BY <2>1, <2>2, <2>3
  <1> HIDE DEF n, share
  <1>8. CASE shares' = shares
    BY <1>1, <1>5, <1>7, <1>8 DEF NoncesDiffer, NoneIsDuplicate
  <1>9. CASE shares' = Append(shares, share)
    <2>1. /\ Len(shares') = Len(shares) + 1 /\ shares'[Len(shares) + 1] = share
          /\ \A i \in 1..Len(shares) : shares'[i] = shares[i]
      BY <1>1, <1>4, <1>9
    <2>2. \A i \in 1..Len(shares') : i \in 1..Len(shares) \/ i = Len(shares) + 1
      BY <1>4, <2>1
    <2>3. \A i \in 1..Len(shares) : shares[i].nonce # n
      BY <1>3 DEF NoncesDiffer
    <2>4. \A p \in known : p[2] # n
      BY <1>3 DEF NoncesDiffer
    <2>5. \A i \in 1..Len(shares') : Tried(thread', shares'[i].nonce)
      BY <1>2, <1>5, <1>6, <1>7, <2>1, <2>2 DEF NoncesDiffer
    <2>6. \A i, j \in 1..Len(shares') : shares'[i].nonce = shares'[j].nonce => i = j
      BY <1>2, <2>1, <2>2, <2>3 DEF NoncesDiffer
    <2>7. \A p \in known' : Tried(thread', p[2]) /\ \A i \in 1..Len(shares') : shares'[i].nonce # p[2]
      <3> SUFFICES ASSUME NEW p \in known
                   PROVE  Tried(thread', p[2]) /\ \A i \in 1..Len(shares') : shares'[i].nonce # p[2]
        BY <1>1
      <3>1. Tried(thread', p[2])
        BY <1>5, <1>7 DEF NoncesDiffer
      <3>2. \A i \in 1..Len(shares) : shares'[i].nonce # p[2]
        BY <2>1 DEF NoncesDiffer
      <3>3. shares'[Len(shares) + 1].nonce # p[2]
        BY <1>2, <2>1, <2>4
      <3> QED  BY <2>2, <3>1, <3>2, <3>3
    <2> QED  BY <1>1, <2>5, <2>6, <2>7 DEF NoncesDiffer, NoneIsDuplicate
  <1> QED  BY <1>1, <1>8, <1>9

\* A share that is posted is not known yet, and those behind it are others.
LEMMA PostNonces ==
    ASSUME MinerInv, NoncesDiffer, PostShare \/ PostFails
    PROVE  NoncesDiffer'
  <1> DEFINE key == <<Head(shares).work.index, Head(shares).nonce>>
  <1>1. shares \in Seq(ShareSet) /\ shares # <<>>
    BY TypesOfThreads DEF MinerInv, PostShare, PostFails
  <1>2. /\ shares' = Tail(shares) /\ thread' = thread
        /\ known' \in {known, known \cup {key}}
        /\ answer' \in {answer, Verdict(Head(shares))}
    BY DEF PostShare, PostFails, poolVars
  <1>3. /\ Len(shares) \in Nat /\ Len(shares) > 0 /\ Head(shares) = shares[1]
        /\ Len(shares') = Len(shares) - 1
        /\ \A i \in 1..Len(shares') : shares'[i] = shares[i + 1] /\ i + 1 \in 1..Len(shares)
    BY <1>1, <1>2
  <1>4. \A n : Tried(thread', n) <=> Tried(thread, n)
    BY <1>2 DEF Tried, FirstNonce
  <1>5. key[2] = shares[1].nonce /\ 1 \in 1..Len(shares)
    BY <1>3
  <1>6. key \notin known
    BY <1>5 DEF NoncesDiffer
  <1>7. Verdict(Head(shares)) # "duplicate"
    BY <1>6 DEF Verdict
  <1>8. NoneIsDuplicate'
    BY <1>2, <1>7 DEF NoncesDiffer, NoneIsDuplicate
  <1> HIDE DEF key
  <1>9. \A i \in 1..Len(shares') : Tried(thread', shares'[i].nonce)
    BY <1>3, <1>4 DEF NoncesDiffer
  <1>10. \A i, j \in 1..Len(shares') : shares'[i].nonce = shares'[j].nonce => i = j
    <2> SUFFICES ASSUME NEW i \in 1..Len(shares'), NEW j \in 1..Len(shares'),
                        shares'[i].nonce = shares'[j].nonce
                 PROVE  i = j
      OBVIOUS
    <2>1. i + 1 = j + 1
      BY <1>3 DEF NoncesDiffer
    <2> QED  BY <1>3, <2>1
  <1>11. ASSUME NEW p \in known'
         PROVE  Tried(thread', p[2]) /\ \A i \in 1..Len(shares') : shares'[i].nonce # p[2]
    <2>1. CASE p \in known
      BY <1>3, <1>4, <2>1 DEF NoncesDiffer
    <2>2. CASE p = key
      <3>1. Tried(thread, shares[1].nonce)
        BY <1>5 DEF NoncesDiffer
      <3>2. ASSUME NEW i \in 1..Len(shares')  PROVE shares'[i].nonce # shares[1].nonce
        <4>1. i + 1 # 1 /\ i + 1 \in 1..Len(shares) /\ shares'[i] = shares[i + 1]
          BY <1>3
        <4> QED  BY <1>5, <4>1 DEF NoncesDiffer
      <3> QED  BY <1>4, <1>5, <2>2, <3>1, <3>2
    <2> QED  BY <1>2, <1>11, <2>1, <2>2
  <1> QED  BY <1>8, <1>9, <1>10, <1>11 DEF NoncesDiffer

\* Every step keeps the nonces apart.
LEMMA StepNonces == MinerInv /\ NoncesDiffer /\ [MinerNext]_minerVars => NoncesDiffer'
  <1> SUFFICES ASSUME MinerInv, NoncesDiffer, [MinerNext]_minerVars PROVE NoncesDiffer'
    OBVIOUS
  <1>1. ASSUME \A i \in Ids : thread'[i].nonce = thread[i].nonce, UNCHANGED <<shares, known, answer>>
        PROVE  NoncesDiffer'
    <2>1. \A n : Tried(thread', n) <=> Tried(thread, n)
      BY <1>1 DEF Tried, FirstNonce
    <2> QED  BY <1>1, <2>1 DEF NoncesDiffer, NoneIsDuplicate
  <1>2. CASE \/ \E h \in Hashes : NextTemplate(h) \/ OtherParent(h)
             \/ GetWork \/ StoreWork \/ FetchFails \/ Tick \/ UNCHANGED minerVars
    BY <1>1, <1>2 DEF NextTemplate, OtherParent, GetWork, StoreWork, FetchFails, Tick, minerVars, poolVars
  <1>3. ASSUME NEW id \in Ids, Refresh(id)  PROVE NoncesDiffer'
    <2>1. /\ thread \in [Ids -> Locals]
          /\ thread' = [thread EXCEPT ![id] = [thread[id] EXCEPT !.work = shared]]
          /\ UNCHANGED <<shares, known, answer>>
      BY <1>3, TypesOfThreads DEF MinerInv, Refresh, Taken, poolVars
    <2>2. [thread[id] EXCEPT !.work = shared].nonce = thread[id].nonce
      BY <2>1 DEF Locals
    <2>3. \A i \in Ids : thread'[i].nonce = thread[i].nonce
      BY <2>1, <2>2
    <2> QED  BY <1>1, <2>1, <2>3
  <1>4. ASSUME NEW id \in Ids, NEW b \in BOOLEAN, Hash(id, b)  PROVE NoncesDiffer'
    BY <1>4, HashNonces
  <1>5. CASE PostShare \/ PostFails
    BY <1>5, PostNonces
  <1> QED  BY <1>2, <1>3, <1>4, <1>5, Zenon DEF MinerNext

\* However many threads search, and whatever work each of them is on, the pool
\* never refuses a share of this miner as a duplicate (taron-cli/src/main.rs,
\* submit_share in taron-pool/src/main.rs).
THEOREM NoneIsEverDuplicate == MinerSpec => []NoneIsDuplicate
  <1>1. MinerInit => NoncesDiffer
    BY DEF MinerInit, NoncesDiffer, NoneIsDuplicate
  <1>2. NoncesDiffer => NoneIsDuplicate
    BY DEF NoncesDiffer
  <1> QED  BY <1>1, <1>2, InitMiner, StepMiner, StepNonces, PTL DEF MinerSpec

-----------------------------------------------------------------------------
(* Timestamps                                                              *)

\* Work is of no later height than the template, and work for the template's
\* height was fetched after the template got it.
Fresh(w) == w # NoWork => /\ w.index <= offered.index
                          /\ w.index = offered.index => since <= w.ts

AllFresh ==
    /\ Fresh(reply) /\ Fresh(shared)
    /\ \A i \in Ids : Fresh(thread[i].work)
    /\ \A i \in 1..Len(shares) : Fresh(shares[i].work)

\* Every step keeps the work fresh: for a new height there is none yet.
LEMMA StepFresh == MinerInv /\ AllFresh /\ [MinerNext]_minerVars => AllFresh'
  <1> SUFFICES ASSUME MinerInv, AllFresh, [MinerNext]_minerVars PROVE AllFresh'
    OBVIOUS
  <1>0. /\ thread \in [Ids -> Locals] /\ shares \in Seq(ShareSet)
        /\ reply \in AnyWork /\ shared \in AnyWork
        /\ offered.index \in Nat /\ since \in Nat /\ now \in Nat /\ since <= now
    BY TypesOfThreads DEF MinerInv
  <1>1. ASSUME UNCHANGED <<since, reply, shared, thread, shares>>, offered'.index = offered.index
        PROVE  AllFresh'
    BY <1>1 DEF AllFresh, Fresh
  <1>2. ASSUME NEW h \in Hashes, NextTemplate(h)  PROVE AllFresh'
    <2>1. /\ offered'.index = offered.index + 1
          /\ UNCHANGED <<reply, shared, thread, shares>>
      BY <1>2 DEF NextTemplate
    <2>2. ASSUME NEW w \in AnyWork, Fresh(w)  PROVE Fresh(w)'
      BY <1>0, <2>1, <2>2 DEF Fresh, AnyWork, Works
    <2>3. \A i \in Ids : thread[i].work \in AnyWork
      BY <1>0 DEF Locals
    <2>4. \A i \in 1..Len(shares) : shares[i].work \in AnyWork
      <3>1. \A i \in 1..Len(shares) : shares[i] \in ShareSet
        BY <1>0
      <3>2. \A x \in ShareSet : x.work \in AnyWork
        BY DEF ShareSet, AnyWork
      <3> QED  BY <3>1, <3>2
    <2> QED  BY <1>0, <2>1, <2>2, <2>3, <2>4 DEF AllFresh
  <1>3. ASSUME NEW h \in Hashes, OtherParent(h)  PROVE AllFresh'
    <2>1. offered'.index = offered.index
      BY <1>3, TypesOfThreads DEF OtherParent, MinerInv
    <2> QED  BY <1>1, <1>3, <2>1 DEF OtherParent
  <1>4. CASE GetWork
    <2>1. /\ reply' = [index |-> offered.index, prev |-> offered.prev, ts |-> now]
          /\ UNCHANGED <<offered, since, shared, thread, shares>>
      BY <1>4 DEF GetWork, poolVars
    <2>2. Fresh(reply)'
      BY <1>0, <2>1 DEF Fresh
    <2> QED  BY <2>1, <2>2 DEF AllFresh, Fresh
  <1>5. CASE StoreWork \/ FetchFails
    BY <1>5 DEF StoreWork, FetchFails, AllFresh, Fresh, poolVars
  <1>6. ASSUME NEW id \in Ids, Refresh(id)  PROVE AllFresh'
    <2>1. /\ thread' = [thread EXCEPT ![id] = [thread[id] EXCEPT !.work = shared]]
          /\ UNCHANGED <<offered, since, reply, shared, shares>>
      BY <1>6 DEF Refresh, Taken, poolVars
    <2>2. [thread[id] EXCEPT !.work = shared].work = shared
      BY <1>0 DEF Locals
    <2>3. \A i \in Ids : thread'[i].work \in {thread[i].work, shared}
      BY <1>0, <2>1, <2>2
    <2> QED  BY <2>1, <2>3 DEF AllFresh, Fresh
  <1>7. ASSUME NEW id \in Ids, NEW b \in BOOLEAN, Hash(id, b)  PROVE AllFresh'
    <2> DEFINE share == [nonce |-> thread[id].nonce, work |-> thread[id].work]
    <2>1. /\ thread'[id].work = thread[id].work /\ \A i \in Ids \ {id} : thread'[i] = thread[i]
          /\ shares' = shares \/ shares' = Append(shares, share)
          /\ share \in ShareSet
          /\ UNCHANGED <<offered, since, reply, shared>>
      BY <1>7, HashStep DEF poolVars
    <2>2. share.work = thread[id].work
      OBVIOUS
    <2> HIDE DEF share
    <2>3. \A i \in Ids : thread'[i].work = thread[i].work
      BY <2>1
    <2>4. \A i \in 1..Len(shares') : (i \in 1..Len(shares) /\ shares'[i] = shares[i]) \/ shares'[i] = share
      BY <1>0, <2>1
    <2>5. \A i \in 1..Len(shares') : Fresh(shares'[i].work)
      BY <2>2, <2>4 DEF AllFresh
    <2> QED  BY <2>1, <2>3, <2>5 DEF AllFresh, Fresh
  <1>8. CASE PostShare \/ PostFails
    <2>1. /\ shares # <<>> /\ shares' = Tail(shares)
          /\ UNCHANGED <<offered, since, reply, shared, thread>>
      BY <1>8 DEF PostShare, PostFails, poolVars
    <2>2. \A i \in 1..Len(shares') : shares'[i] = shares[i + 1] /\ i + 1 \in 1..Len(shares)
      BY <1>0, <2>1
    <2>3. \A i \in 1..Len(shares') : Fresh(shares'[i].work)
      BY <2>2 DEF AllFresh
    <2> QED  BY <2>1, <2>3 DEF AllFresh, Fresh
  <1>9. CASE Tick \/ UNCHANGED minerVars
    BY <1>1, <1>9 DEF Tick, minerVars, poolVars
  <1> QED  BY <1>2, <1>3, <1>4, <1>5, <1>6, <1>7, <1>8, <1>9, Zenon DEF MinerNext

\* A share is refused for its timestamp only when the pool has been at its height
\* for longer than TS_WINDOW, however old the threads' copies of the work are and
\* however long the share was on its way.
THEOREM StaleOnlyOnOldHeights == MinerSpec => StaleOnOldHeightsOnly
  <1> DEFINE Step == (shares' # shares /\ answer' = "timestamp" /\ answer # "timestamp")
                        => now - since > TS_WINDOW
  <1>1. MinerInv /\ AllFresh /\ [MinerNext]_minerVars => [Step]_minerVars
    <2> SUFFICES ASSUME MinerInv, AllFresh, MinerNext, answer' = "timestamp", answer # "timestamp"
                 PROVE  now - since > TS_WINDOW
      OBVIOUS
    <2>1. ASSUME NEW id \in Ids, NEW b \in BOOLEAN, Hash(id, b)  PROVE answer' = answer
      BY <2>1, HashStep
    <2>2. PostShare
      BY <2>1 DEF MinerNext, NextTemplate, OtherParent, GetWork, StoreWork, FetchFails, Refresh, PostFails, Tick
    <2>3. /\ shares \in Seq(ShareSet) /\ shares # <<>> /\ Verdict(Head(shares)) = "timestamp"
          /\ since \in Nat /\ now \in Nat /\ TS_WINDOW \in Nat
      BY <2>2, TypesOfThreads, Numbers DEF MinerInv, PostShare
    <2>4. Head(shares) \in ShareSet /\ Head(shares) = shares[1] /\ 1 \in 1..Len(shares)
      BY <2>3
    <2> DEFINE w == Head(shares).work
    <2>5. w.index = offered.index /\ now - w.ts > TS_WINDOW
      BY <2>3 DEF Verdict
    <2>6. w \in Works /\ Fresh(w)
      BY <2>4 DEF AllFresh, ShareSet
    <2> HIDE DEF w
    <2>7. w.ts \in Nat
      BY <2>6, Numbers DEF Works
    <2>8. w # NoWork => since <= w.ts
      BY <2>5, <2>6 DEF Fresh
    <2>9. w # NoWork
      BY <2>6, MinerAssumption
    <2> QED  BY <2>3, <2>5, <2>7, <2>8, <2>9
  <1>2. MinerInit => AllFresh
    BY DEF MinerInit, AllFresh, Fresh
  <1> QED
    BY <1>1, <1>2, InitMiner, StepMiner, StepFresh, PTL DEF MinerSpec, StaleOnOldHeightsOnly

=============================================================================

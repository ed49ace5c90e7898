------------------------------ MODULE PoolMiner ------------------------------
(***************************************************************************)
(* taron node --pool (taron-cli/src/main.rs): a thread that fetches work   *)
(* from the pool every two seconds, mining threads that copy it, and a     *)
(* thread that posts the shares they find.  Of the pool (taron-pool) there *)
(* is what it answers: the template, the age a timestamp may have and the  *)
(* nonces it knows.  How hard a share is, is in PoolShares; here a hash is *)
(* a share or it is not.  Counters that are only displayed are left out.   *)
(***************************************************************************)
EXTENDS Integers, Sequences, FiniteSets, SequencesExt

CONSTANTS
    Threads,          \* number of mining threads
    NONCES,           \* 2^64
    Hashes,           \* of blocks, as parents of the template
    TS_WINDOW,        \* a share's timestamp may be this old
    NoWork,
    MaxIndex, MaxTime, MaxHashes    \* bounds: templates, time, hashes of all threads

Works == [index : 1..MaxIndex, prev : Hashes, ts : 0..MaxTime]

ASSUME MinerAssumption ==
    /\ Threads \in Nat \ {0} /\ NONCES \in Nat \ {0, 1} /\ TS_WINDOW \in Nat
    /\ Hashes # {} /\ NoWork \notin Works
    /\ MaxIndex \in Nat \ {0} /\ MaxTime \in Nat
    /\ MaxHashes \in 0..(NONCES - 1) \div Threads

VARIABLES
    offered,    \* the template of the pool: index and prev_hash
    since,      \* when the template got its index
    known,      \* (index, nonce) pairs of the pool's duplicate check
    reply,      \* work on its way from the pool
    shared,     \* shared_work
    thread,     \* locals of the mining threads
    shares,     \* the channel to the posting thread
    answer,     \* the pool's answer to the last share
    hashes,     \* computed by the threads so far
    now

poolVars == <<offered, since, known>>
minerVars == <<offered, since, known, reply, shared, thread, shares, answer, hashes, now>>

Ids == 0..Threads - 1
Answers == {"none", "accepted", "other height", "other parent", "timestamp", "duplicate"}

MinerTypeOK ==
    /\ offered \in [index : 1..MaxIndex, prev : Hashes]
    /\ since \in 0..now /\ now \in 0..MaxTime
    /\ known \subseteq (1..MaxIndex) \X (0..NONCES - 1)
    /\ reply \in Works \cup {NoWork} /\ shared \in Works \cup {NoWork}
    /\ thread \in [Ids -> [nonce : 0..NONCES - 1, work : Works \cup {NoWork}]]
    /\ shares \in Seq([nonce : 0..NONCES - 1, work : Works])
    /\ answer \in Answers
    /\ hashes \in 0..MaxHashes

\* Mutant: every thread starts at the same nonce.
FirstNonceSame(id) == 0

\* Mutant: threads counted from one.
FirstNonceFromOne(id) == (id + 1) * (NONCES \div Threads)

FirstNonce(id) == id * ((NONCES - 1) \div Threads)

\* The threads start when the first work is there.
MinerInit ==
    /\ offered = [index |-> 1, prev |-> CHOOSE h \in Hashes : TRUE]
    /\ since = 0
    /\ known = {}
    /\ reply = NoWork
    /\ shared = NoWork
    /\ thread = [id \in Ids |-> [nonce |-> FirstNonce(id), work |-> NoWork]]
    /\ shares = <<>>
    /\ answer = "none"
    /\ hashes = 0
    /\ now = 0

-----------------------------------------------------------------------------
(* The pool                                                                *)

\* The chain grew.
NextTemplate(h) ==
    /\ offered.index < MaxIndex
    /\ offered' = [index |-> offered.index + 1, prev |-> h]
    /\ since' = now
    /\ UNCHANGED <<known, reply, shared, thread, shares, answer, hashes, now>>

\* The tip was replaced by another of the same height.
OtherParent(h) ==
    /\ offered' = [offered EXCEPT !.prev = h]
    /\ UNCHANGED <<since, known, reply, shared, thread, shares, answer, hashes, now>>

\* get_work: "Refresh timestamp on every work request".
GetWork ==
    /\ reply = NoWork
    /\ reply' = [index |-> offered.index, prev |-> offered.prev, ts |-> now]
    /\ UNCHANGED <<poolVars, shared, thread, shares, answer, hashes, now>>

\* submit_share up to the duplicate check.
Verdict(share) ==
    IF share.work.index # offered.index THEN "other height"
    ELSE IF share.work.prev # offered.prev THEN "other parent"
    ELSE IF now - share.work.ts > TS_WINDOW THEN "timestamp"
    ELSE IF <<share.work.index, share.nonce>> \in known THEN "duplicate"
    ELSE "accepted"

-----------------------------------------------------------------------------
(* The threads of the miner                                                *)

\* The request failed; the next one is two seconds later.
FetchFails ==
    /\ reply # NoWork
    /\ reply' = NoWork
    /\ UNCHANGED <<poolVars, shared, thread, shares, answer, hashes, now>>

\* Mutant: only the first work is stored.
StoreWorkOnce ==
    /\ reply # NoWork
    /\ shared = NoWork
    /\ shared' = reply
    /\ reply' = NoWork
    /\ UNCHANGED <<poolVars, thread, shares, answer, hashes, now>>

StoreWork ==
    /\ reply # NoWork
    /\ shared' = reply
    /\ reply' = NoWork
    /\ UNCHANGED <<poolVars, thread, shares, answer, hashes, now>>

\* Mutant: the copy keeps the timestamp it has.
TakenOver(id) ==
    IF thread[id].work = NoWork THEN shared ELSE [shared EXCEPT !.ts = thread[id].work.ts]

Taken(id) == shared

\* A thread looks at shared_work before each hash unless it is locked.  It
\* copies work of another height only: a fresher timestamp or another parent
\* for the same height is not noticed.
Refresh(id) ==
    /\ shared # NoWork
    /\ thread[id].work # NoWork => thread[id].work.index # shared.index
    /\ thread' = [thread EXCEPT ![id].work = Taken(id)]
    /\ UNCHANGED <<poolVars, reply, shared, shares, answer, hashes, now>>

Hash(id, isShare) ==
    LET t == thread[id]
    IN  /\ t.work # NoWork
        /\ hashes < MaxHashes
        /\ hashes' = hashes + 1
        /\ thread' = [thread EXCEPT ![id].nonce = (@ + 1) % NONCES]
        /\ shares' = IF isShare THEN Append(shares, [nonce |-> t.nonce, work |-> t.work]) ELSE shares
        /\ UNCHANGED <<poolVars, reply, shared, answer, now>>

\* The posting thread; a share whose request fails is lost.
PostShare ==
    LET share == Head(shares)
        verdict == Verdict(share)
    IN  /\ shares # <<>>
        /\ shares' = Tail(shares)
        /\ answer' = verdict
        /\ known' = IF verdict = "accepted" THEN known \cup {<<share.work.index, share.nonce>>} ELSE known
        /\ UNCHANGED <<offered, since, reply, shared, thread, hashes, now>>

PostFails ==
    /\ shares # <<>>
    /\ shares' = Tail(shares)
    /\ UNCHANGED <<poolVars, reply, shared, thread, answer, hashes, now>>

Tick ==
    /\ now < MaxTime
    /\ now' = now + 1
    /\ UNCHANGED <<poolVars, reply, shared, thread, shares, answer, hashes>>

-----------------------------------------------------------------------------

MinerNext ==
    \/ \E h \in Hashes : NextTemplate(h) \/ OtherParent(h)
    \/ GetWork \/ StoreWork \/ FetchFails
    \/ \E id \in Ids : Refresh(id) \/ \E isShare \in BOOLEAN : Hash(id, isShare)
    \/ PostShare \/ PostFails \/ Tick

\* Requests for work are repeated for ever and do not all fail; a mining thread
\* finds shared_work locked only while it is being replaced.
MinerSpec ==
    /\ MinerInit /\ [][MinerNext]_minerVars
    /\ WF_minerVars(GetWork) /\ SF_minerVars(StoreWork)
    /\ \A id \in Ids : WF_minerVars(Refresh(id))

-----------------------------------------------------------------------------
(* Properties                                                              *)

\* The threads search disjoint parts of the nonces, so none of their shares is
\* refused as a duplicate of another's, whatever work they are on.
NoneIsDuplicate == answer # "duplicate"

\* A height that lasts no longer than TS_WINDOW costs no share: the pool refuses
\* a timestamp only when its height is older than that, however long work and
\* shares were on their way.
StaleOnOldHeightsOnly ==
    [][(shares' # shares /\ answer' = "timestamp" /\ answer # "timestamp") => now - since > TS_WINDOW]_minerVars

\* Every thread comes to the pool's height, unless the pool goes on first.
ThreadsFollow ==
    \A id \in Ids, i \in 1..MaxIndex :
        offered.index = i ~> (offered.index # i
                               \/ (thread[id].work # NoWork /\ thread[id].work.index = i))

=============================================================================

--------------------------- MODULE RecoveredSigsDb ---------------------------
(***************************************************************************)
(* The recovered-signature store of one node: CRecoveredSigsDb and the     *)
(* part of CSigningManager that feeds it (llmq/signing.cpp).               *)
(*                                                                         *)
(* Threads.  The sigshares worker runs ProcessRecoveredSig and the         *)
(* clean-up.  InstantSend truncates signatures from its own thread.  Any   *)
(* number of other threads look signatures up; one of them is the message  *)
(* handler, which queues signatures received from peers.  A lookup takes   *)
(* the lock of the store for its cache only and reads the database without *)
(* it, and the worker writes the database without it, so that every step   *)
(* between two lock operations is a step of its own here.                  *)
(*                                                                         *)
(* A signature of a session is unique, so its object hash, its sign hash   *)
(* and the signature itself stand for one another.                         *)
(***************************************************************************)
EXTENDS Integers

CONSTANTS
    RecSigs,      \* recovered signatures, records with an id and a msgHash
    Readers,      \* threads that look signatures up
    MaxAge,       \* -maxrecsigsage
    MaxTime,      \* bound on the clock
    MaxRestarts,  \* bound on the number of process restarts
    None

Worker == "sigshares"
Threads == Readers \cup {Worker}
Time == 0..MaxTime
Ids == {r.id : r \in RecSigs}
IdMsg(r) == <<r.id, r.msgHash>>
IdMsgs == {IdMsg(r) : r \in RecSigs}

ASSUME StoreAssumption ==
    /\ MaxAge \in Nat /\ MaxTime \in Nat /\ MaxRestarts \in Nat
    /\ None \notin RecSigs /\ None \notin Time /\ None \notin BOOLEAN
    /\ Worker \notin Readers

(* What is looked up, each kind with a cache of its own.                   *)
IdKey(i) == <<"id", i>>
SessionKey(r) == <<"session", r>>
HashKey(r) == <<"hash", r>>
Keys == {IdKey(i) : i \in Ids} \cup {SessionKey(r) : r \in RecSigs}
                               \cup {HashKey(r) : r \in RecSigs}

VARIABLES
    now,
    db,        \* the database, see Databases
    cache,     \* the three has-sig caches: cached answer or None
    look,      \* the lookup each thread is in
    work,      \* what the worker is doing
    todo,      \* signatures the worker has taken and will process
    pending,   \* pendingRecoveredSigs
    recon,     \* pendingReconstructedRecoveredSigs
    trunc,     \* the batch of a TruncateRecoveredSig that holds the lock
    notified,  \* signatures the listeners were called with
    restarts

vars == <<now, db, cache, look, work, todo, pending, recon, trunc, notified, restarts>>

(* Keys by prefix: r is "rs_r" by id, rm "rs_r" by id and message hash     *)
(* with the time of the write, h "rs_h", s "rs_s", t "rs_t" by time and id.*)
Databases == [r : [Ids -> RecSigs \cup {None}], rm : [IdMsgs -> Time \cup {None}],
              h : SUBSET RecSigs, s : SUBSET RecSigs, t : SUBSET (Time \X Ids)]

(* The keys a CDBBatch erases.                                             *)
Batches == [r : SUBSET Ids, rm : SUBSET IdMsgs, h : SUBSET RecSigs,
            s : SUBSET RecSigs, t : SUBSET (Time \X Ids)]

NoLookup == [pc |-> "none"]
Idle == [pc |-> "idle"]

Lookups == {NoLookup} \cup [pc : {"miss"}, key : Keys]
                      \cup [pc : {"read", "got"}, key : Keys, val : BOOLEAN]

Works == {Idle}
    \cup [pc : {"hash", "id", "get", "write", "cache", "notify"}, sig : RecSigs]
    \cup [pc : {"collect"}, keys : SUBSET (Time \X Ids)]
    \cup [pc : {"erase"}, batch : Batches]

(* The database, the caches and the threads of CRecoveredSigsDb are in     *)
(* states that the code can produce; write times are times that have been. *)
TypeOK ==
    /\ now \in Time
    /\ db \in Databases
    /\ cache \in [Keys -> BOOLEAN \cup {None}]
    /\ look \in [Threads -> Lookups]
    /\ work \in Works
    /\ todo \subseteq RecSigs /\ pending \subseteq RecSigs /\ recon \subseteq RecSigs
    /\ trunc \in Batches \cup {None}
    /\ notified \subseteq RecSigs
    /\ restarts \in 0..MaxRestarts

EmptyDb == [r |-> [i \in Ids |-> None], rm |-> [k \in IdMsgs |-> None],
            h |-> {}, s |-> {}, t |-> {}]
EmptyCache == [k \in Keys |-> None]

Init ==
    /\ now = 0
    /\ db = EmptyDb
    /\ cache = EmptyCache
    /\ look = [t \in Threads |-> NoLookup]
    /\ work = Idle
    /\ todo = {} /\ pending = {} /\ recon = {}
    /\ trunc = None
    /\ notified = {}
    /\ restarts = 0

DbLocked == trunc # None
ManagerLocked == work.pc \in {"id", "get", "write", "cache"}
-----------------------------------------------------------------------------
(* Database operations.                                                    *)

Exists(k) ==
    CASE k[1] = "id"      -> db.r[k[2]] # None
      [] k[1] = "session" -> k[2] \in db.s
      [] k[1] = "hash"    -> k[2] \in db.h

Written_NoTimeKey(d, r) ==
    [r  |-> [d.r EXCEPT ![r.id] = r],
     rm |-> [d.rm EXCEPT ![IdMsg(r)] = now],
     h  |-> d.h \cup {r},
     s  |-> d.s \cup {r},
     t  |-> d.t]

(* The batch of WriteRecoveredSig, one atomic write of five keys.          *)
Written(d, r) ==
    [r  |-> [d.r EXCEPT ![r.id] = r],
     rm |-> [d.rm EXCEPT ![IdMsg(r)] = now],
     h  |-> d.h \cup {r},
     s  |-> d.s \cup {r},
     t  |-> d.t \cup {<<now, r.id>>}]

Erased(d, b) ==
    [r  |-> [i \in Ids |-> IF i \in b.r THEN None ELSE d.r[i]],
     rm |-> [k \in IdMsgs |-> IF k \in b.rm THEN None ELSE d.rm[k]],
     h  |-> d.h \ b.h,
     s  |-> d.s \ b.s,
     t  |-> d.t \ b.t]

(* RemoveRecoveredSig for the stored signatures of a set of ids: the keys  *)
(* to erase (the time keys are left to the caller) ...                     *)
RemoveBatch(ids, deleteHashKey, timeKeys) ==
    LET sigs == {r \in RecSigs : r.id \in ids /\ db.r[r.id] = r}
    IN  [r  |-> {r.id : r \in sigs},
         rm |-> {IdMsg(r) : r \in sigs},
         h  |-> IF deleteHashKey THEN sigs ELSE {},
         s  |-> sigs,
         t  |-> timeKeys]

(* ... and the cache entries that are dropped with them.                   *)
UncacheBatch(b) ==
    LET gone == {IdKey(i) : i \in b.r} \cup {SessionKey(r) : r \in b.s}
                                       \cup {HashKey(r) : r \in b.h}
    IN  [k \in Keys |-> IF k \in gone THEN None ELSE cache[k]]
-----------------------------------------------------------------------------
(* HasRecoveredSigForId, ...ForSession and ...ForHash: the cache under the *)
(* lock, then the database without it, then the cache under the lock.      *)

LookupMiss(t, k) ==
    /\ look[t] = NoLookup /\ ~DbLocked /\ cache[k] = None
    /\ look' = [look EXCEPT ![t] = [pc |-> "miss", key |-> k]]
    /\ UNCHANGED <<now, db, cache, work, todo, pending, recon, trunc, notified, restarts>>

LookupRead(t) ==
    /\ look[t].pc = "miss"
    /\ look' = [look EXCEPT ![t] =
                    [pc |-> "read", key |-> @.key, val |-> Exists(@.key)]]
    /\ UNCHANGED <<now, db, cache, work, todo, pending, recon, trunc, notified, restarts>>

LookupInsert(t) ==
    /\ look[t].pc = "read" /\ ~DbLocked
    /\ cache' = [cache EXCEPT ![look[t].key] = look[t].val]
    /\ look' = [look EXCEPT ![t].pc = "got"]
    /\ UNCHANGED <<now, db, work, todo, pending, recon, trunc, notified, restarts>>

(* The lookup of k by thread t returns val: from the cache or through the  *)
(* three steps above.                                                      *)
Answer(t, k, val) ==
    /\ \/ look[t] = NoLookup /\ ~DbLocked /\ cache[k] = val
       \/ look[t] = [pc |-> "got", key |-> k, val |-> val]
    /\ look' = [look EXCEPT ![t] = NoLookup]

(* A lookup whose caller does not change the store.                        *)
LookupDone(t) ==
    /\ look[t].pc = "got"
    /\ look' = [look EXCEPT ![t] = NoLookup]
    /\ UNCHANGED <<now, db, cache, work, todo, pending, recon, trunc, notified, restarts>>

(* unordered_lru_cache drops old entries when it is full.                  *)
CacheEvict(k) ==
    /\ cache[k] # None /\ ~DbLocked
    /\ cache' = [cache EXCEPT ![k] = None]
    /\ UNCHANGED <<now, db, look, work, todo, pending, recon, trunc, notified, restarts>>
-----------------------------------------------------------------------------
(* Signatures come in: from peers, unless known by hash or reconstructed   *)
(* already, and from other messages that contain them.                     *)

ProcessMessageRecoveredSig(t, r) ==
    /\ Answer(t, HashKey(r), FALSE)
    /\ ~ManagerLocked
    /\ pending' = IF r \in recon THEN pending ELSE pending \cup {r}
    /\ UNCHANGED <<now, db, cache, work, todo, recon, trunc, notified, restarts>>

PushReconstructedRecoveredSig(r) ==
    /\ ~ManagerLocked
    /\ recon' = recon \cup {r}
    /\ UNCHANGED <<now, db, cache, look, work, todo, pending, trunc, notified, restarts>>

(* The worker takes all reconstructed signatures, and of the received ones *)
(* those that are not known, whose quorum is active and whose signature    *)
(* verifies.                                                               *)
ProcessPendingReconstructedRecoveredSigs ==
    /\ work = Idle /\ todo = {} /\ recon # {}
    /\ todo' = recon
    /\ recon' = {}
    /\ UNCHANGED <<now, db, cache, look, work, pending, trunc, notified, restarts>>

ProcessPendingRecoveredSigs ==
    /\ work = Idle /\ todo = {}
    /\ \E taken \in SUBSET pending \ {{}} :
           /\ pending' = pending \ taken
           /\ \E verified \in SUBSET taken : todo' = verified
    /\ UNCHANGED <<now, db, cache, look, work, recon, trunc, notified, restarts>>
-----------------------------------------------------------------------------
(* CSigningManager::ProcessRecoveredSig.                                   *)

ProcessRecoveredSig(r) ==
    /\ work = Idle /\ r \in todo
    /\ todo' = todo \ {r}
    /\ work' = [pc |-> "hash", sig |-> r]
    /\ UNCHANGED <<now, db, cache, look, pending, recon, trunc, notified, restarts>>

KnownByHash ==
    /\ work.pc = "hash"
    /\ \E known \in BOOLEAN :
           /\ Answer(Worker, HashKey(work.sig), known)
           /\ work' = IF known THEN Idle ELSE [work EXCEPT !.pc = "id"]
    /\ UNCHANGED <<now, db, cache, todo, pending, recon, trunc, notified, restarts>>

KnownById ==
    /\ work.pc = "id"
    /\ \E known \in BOOLEAN :
           /\ Answer(Worker, IdKey(work.sig.id), known)
           /\ work' = [work EXCEPT !.pc = IF known THEN "get" ELSE "write"]
    /\ UNCHANGED <<now, db, cache, todo, pending, recon, trunc, notified, restarts>>

(* The same signature or a conflicting one is there: bail out.  It may     *)
(* also have vanished since the lookup.                                    *)
GetRecoveredSigById ==
    /\ work.pc = "get"
    /\ work' = IF db.r[work.sig.id] # None THEN Idle ELSE [work EXCEPT !.pc = "write"]
    /\ UNCHANGED <<now, db, cache, look, todo, pending, recon, trunc, notified, restarts>>

WriteRecoveredSig ==
    /\ work.pc = "write"
    /\ db' = Written(db, work.sig)
    /\ work' = [work EXCEPT !.pc = "cache"]
    /\ UNCHANGED <<now, cache, look, todo, pending, recon, trunc, notified, restarts>>

CacheRecoveredSig ==
    /\ work.pc = "cache" /\ ~DbLocked
    /\ cache' = [cache EXCEPT ![IdKey(work.sig.id)] = TRUE,
                              ![SessionKey(work.sig)] = TRUE,
                              ![HashKey(work.sig)] = TRUE]
    /\ recon' = recon \ {work.sig}
    /\ work' = [work EXCEPT !.pc = "notify"]
    /\ UNCHANGED <<now, db, look, todo, pending, trunc, notified, restarts>>

HandleNewRecoveredSig ==
    /\ work.pc = "notify"
    /\ notified' = notified \cup {work.sig}
    /\ work' = Idle
    /\ UNCHANGED <<now, db, cache, look, todo, pending, recon, trunc, restarts>>
-----------------------------------------------------------------------------
(* CleanupOldRecoveredSigs: a scan of the time keys, the batch under the   *)
(* lock, and the write of the batch after the lock is released.            *)

(* Mutant: the oldest allowed age is off by one time unit.                 *)
CleanupScan_OffByOne ==
    /\ work = Idle /\ todo = {}
    /\ LET old == {k \in db.t : k[1] < now - MaxAge - 1}
       IN  old # {} /\ work' = [pc |-> "collect", keys |-> old]
    /\ UNCHANGED <<now, db, cache, look, todo, pending, recon, trunc, notified, restarts>>

CleanupScan ==
    /\ work = Idle /\ todo = {}
    /\ LET old == {k \in db.t : k[1] < now - MaxAge}
       IN  old # {} /\ work' = [pc |-> "collect", keys |-> old]
    /\ UNCHANGED <<now, db, cache, look, todo, pending, recon, trunc, notified, restarts>>

CleanupRemove ==
    /\ work.pc = "collect" /\ ~DbLocked
    /\ LET b == RemoveBatch({k[2] : k \in work.keys}, TRUE, work.keys)
       IN  /\ work' = [pc |-> "erase", batch |-> b]
           /\ cache' = UncacheBatch(b)
    /\ UNCHANGED <<now, db, look, todo, pending, recon, trunc, notified, restarts>>

CleanupWrite ==
    /\ work.pc = "erase"
    /\ db' = Erased(db, work.batch)
    /\ work' = Idle
    /\ UNCHANGED <<now, cache, look, todo, pending, recon, trunc, notified, restarts>>

(* TruncateRecoveredSig, under the lock from the read to the write.        *)

TruncateRemove(i) ==
    /\ ~DbLocked /\ db.r[i] # None
    /\ trunc' = RemoveBatch({i}, FALSE, {})
    /\ cache' = UncacheBatch(RemoveBatch({i}, FALSE, {}))
    /\ UNCHANGED <<now, db, look, work, todo, pending, recon, notified, restarts>>

TruncateWrite ==
    /\ DbLocked
    /\ db' = Erased(db, trunc)
    /\ trunc' = None
    /\ UNCHANGED <<now, cache, look, work, todo, pending, recon, notified, restarts>>
-----------------------------------------------------------------------------
Restart ==
    /\ restarts < MaxRestarts
    /\ restarts' = restarts + 1
    /\ cache' = EmptyCache
    /\ look' = [t \in Threads |-> NoLookup]
    /\ work' = Idle
    /\ todo' = {} /\ pending' = {} /\ recon' = {} /\ trunc' = None /\ notified' = {}
    /\ UNCHANGED <<now, db>>

Tick ==
    /\ now < MaxTime
    /\ now' = now + 1
    /\ UNCHANGED <<db, cache, look, work, todo, pending, recon, trunc, notified, restarts>>

LookupStep(t) ==
    LookupRead(t) \/ LookupInsert(t)

ReaderStep(t) ==
    \/ \E k \in Keys : LookupMiss(t, k)
    \/ LookupStep(t)
    \/ LookupDone(t)
    \/ \E r \in RecSigs : ProcessMessageRecoveredSig(t, r)

WorkerLookup ==
    \/ work.pc = "hash" /\ LookupMiss(Worker, HashKey(work.sig))
    \/ work.pc = "id" /\ LookupMiss(Worker, IdKey(work.sig.id))
    \/ LookupStep(Worker)

WorkerStep ==
    \/ ProcessPendingReconstructedRecoveredSigs \/ ProcessPendingRecoveredSigs
    \/ \E r \in RecSigs : ProcessRecoveredSig(r)
    \/ WorkerLookup
    \/ KnownByHash \/ KnownById \/ GetRecoveredSigById
    \/ WriteRecoveredSig \/ CacheRecoveredSig \/ HandleNewRecoveredSig
    \/ CleanupScan \/ CleanupRemove \/ CleanupWrite

Next ==
    \/ \E t \in Readers : ReaderStep(t)
    \/ WorkerStep
    \/ \E k \in Keys : CacheEvict(k)
    \/ \E r \in RecSigs : PushReconstructedRecoveredSig(r)
    \/ \E i \in Ids : TruncateRemove(i)
    \/ TruncateWrite
    \/ Restart
    \/ Tick

Spec == Init /\ [][Next]_vars

(* The worker thread keeps running and calls Cleanup in every round of its *)
(* loop; a thread that holds the lock of the store goes on to release it.  *)
Fairness ==
    /\ WF_vars(WorkerStep)
    /\ SF_vars(CleanupScan)
    /\ WF_vars(TruncateWrite)

FairSpec == Spec /\ Fairness
-----------------------------------------------------------------------------
(* Whatever the interleaving of writes, truncations and clean-ups whose    *)
(* batches are written late, a signature that can be read by its id has    *)
(* all of its other keys: it is found by hash and by session, its write    *)
(* time is stored, and the time key under which the clean-up will find it  *)
(* exists (WriteRecoveredSig against RemoveRecoveredSig).                  *)
StoredSigIndexed ==
    \A i \in Ids : db.r[i] # None =>
        LET r == db.r[i]
        IN  /\ r.id = i
            /\ r \in db.h /\ r \in db.s
            /\ db.rm[IdMsg(r)] # None
            /\ <<db.rm[IdMsg(r)], i>> \in db.t

(* CleanupOldRecoveredSigs gets rid of everything written too long ago: a  *)
(* signature whose write time is older than the maximal age does not stay. *)
OldSigsAreRemoved ==
    \A r \in RecSigs :
        (/\ db.r[r.id] = r /\ db.rm[IdMsg(r)] # None
         /\ db.rm[IdMsg(r)] < now - MaxAge)
            ~> (db.r[r.id] # r \/ ~(db.rm[IdMsg(r)] < now - MaxAge))
=============================================================================

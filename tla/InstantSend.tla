---------------------------- MODULE InstantSend -----------------------------
(***************************************************************************)
(* CInstantSendManager and CInstantSendDb (llmq/instantsend.cpp): the      *)
(* worker thread that takes in InstantSend locks, the callbacks of the     *)
(* validation interface that keep track of transactions without a lock,    *)
(* and the checks of the mempool and of ConnectBlock against the locks.    *)
(*                                                                         *)
(* The worker, the callbacks (one at a time and in order, which is what    *)
(* SchedulerClient shows) and the threads that change the mempool and the  *)
(* chain interleave at the points where the code holds neither cs, cs_db,  *)
(* mempool.cs nor cs_main.  Signatures are valid and no two locks spend    *)
(* the same outpoint for different transactions: that is what              *)
(* QuorumSigning is about.  A transaction has one input, and a block one   *)
(* transaction.  InstantSend, its sporks and the transaction index are on, *)
(* the node is a synced masternode.                                        *)
(***************************************************************************)
EXTENDS Integers, Sequences, FiniteSets, FiniteSetsExt

CONSTANTS
    Txs, Input,          \* transactions, the outpoint each one spends
    Parent,              \* the transaction in Txs it spends from, or None
    Locks, LockTx,       \* locks, the transaction each one is for
    Deterministic,       \* the locks of the rotated quorums (isdlock)
    Blocks, Genesis, Prev, BlockTx,
    Confirmations,       \* nInstantSendConfirmationsRequired
    MaxEvents,           \* bound on reorganisations, evictions and ChainLocks
    MaxQueue,            \* bound on the callbacks outstanding when one more event comes
    None                 \* nullptr

AncTx[t \in Txs] == {t} \cup IF Parent[t] = None THEN {} ELSE AncTx[Parent[t]]
Chain[b \in Blocks] == {b} \cup IF b = Genesis THEN {} ELSE Chain[Prev[b]]

Family == [t \in Txs |-> {u \in Txs : t \in AncTx[u]}]
Height == [b \in Blocks |-> Cardinality(Chain[b]) - 1]
Rivals == [t \in Txs |-> {u \in Txs \ {t} : Input[u] = Input[t]}]
Outpoints == {Input[t] : t \in Txs}

ASSUME TreeAssumption ==
    /\ None \notin Txs \cup Blocks \cup Locks
    /\ \A b \in Blocks \ {Genesis} : Prev[b] \in Blocks /\ BlockTx[b] \in Txs
    /\ Parent \in [Txs -> Txs \cup {None}] /\ \A l \in Locks : LockTx[l] \in Txs
    /\ \A t \in Txs : t \in AncTx[t]
    /\ IsFiniteSet(Blocks)

VARIABLES
    mempool, tip, invalid, \* the mempool, the active chain, rejected blocks
    chainLock,             \* the best ChainLock, Genesis at first
    notified,              \* the last block of NotifyChainLock
    queue, cb,             \* callbacks to come and the one that runs
    indexed,               \* the transaction index: the block a tx was seen in
    db,                    \* CInstantSendDb: [locks, cached, archived, mined, confirmed]
    pending, pendingNoTx,  \* pendingInstantSendLocks, pendingNoTxInstantSendLocks
    nl,                    \* nonLockedTxs, nonLockedTxsByOutpoints
    retry,                 \* pendingRetryTxs
    voted,                 \* transactions whose inputs the node voted for
    w,                     \* the worker: [pc, lock, tx, mined, blocks, known]
    events,                \* history: reorganisations, evictions and ChainLocks so
                           \* far; transactions that left the mempool or the
                           \* chain and not because of a block that conflicts
    raced                  \* history: locks the worker took in with callbacks
                           \* outstanding, or for a block off the chain

chain == <<mempool, tip, invalid, chainLock, notified, events>>
track == <<nl, retry>>
locks == <<pending, pendingNoTx>>
vars == <<chain, queue, cb, indexed, db, locks, track, voted, w, raced>>

NoWork == [pc |-> "idle", lock |-> None, tx |-> FALSE, mined |-> None, blocks |-> {}, known |-> FALSE]
NoCallback == [pc |-> "idle", tx |-> None, block |-> None]

Init ==
    /\ mempool = {} /\ tip = Genesis /\ invalid = {}
    /\ chainLock = Genesis /\ notified = Genesis
    /\ queue = <<>> /\ cb = NoCallback
    /\ indexed = [t \in Txs |-> None]
    /\ db = [locks |-> {}, cached |-> {}, archived |-> {}, mined |-> {}, confirmed |-> 0]
    /\ pending = {} /\ pendingNoTx = {}
    /\ nl = [tx |-> {}, mined |-> [t \in Txs |-> None], kids |-> {},
             by |-> [o \in Outpoints |-> None]]
    /\ retry = {} /\ voted = {}
    /\ w = NoWork
    /\ events = [count |-> 0, left |-> {}]
    /\ raced = {}
-----------------------------------------------------------------------------
(* The database.  A fully confirmed lock leaves it but may stay in the     *)
(* caches, where it is found like the others until it is evicted.          *)
Visible(d) == d.locks \cup d.cached
LocksOf(d, t) == {l \in Visible(d) : LockTx[l] = t}
IsLocked(t) == LocksOf(db, t) # {}
KnownInstantSendLock(l) == l \in Visible(db) \cup db.archived
GetConflictingLock(d, t) == {l \in Visible(d) : LockTx[l] \in Rivals[t]}

WriteNewInstantSendLock(d, l) == [d EXCEPT !.locks = @ \cup {l}]
WriteInstantSendLockMined(d, l, b) == [d EXCEPT !.mined = @ \cup {<<l, Height[b]>>}]

RemoveInstantSendLocks(d, L) == [d EXCEPT !.locks = @ \ L, !.cached = @ \ L]
RemoveAndArchive(d, L) == [RemoveInstantSendLocks(d, L) EXCEPT !.archived = @ \cup L]

(* The locks in the database of descendants of t, reached through locked   *)
(* transactions (GetInstantSendLocksByParent, again and again).            *)
ChainedLocks(d, t) ==
    LET below(k) == {u \in Family[t] \ {t} : LockTx[k] \in Family[u]}
    IN  {k \in d.locks : /\ below(k) # {}
                         /\ below(k) \subseteq {LockTx[j] : j \in d.locks}}

(* RemoveConflictingLock for each lock of L.  What is chained to one of    *)
(* them is gone as a whole before the next one.                            *)
RemoveChained(d, L) ==
    RemoveAndArchive(d, L \cup UNION {ChainedLocks(d, LockTx[l]) : l \in L})

RemoveConfirmed(d, h, keep) ==
    IF h <= d.confirmed THEN d
    ELSE LET keys == {k \in d.mined : k[2] <= h}
             gone == {k[1] : k \in keys}
         IN  [d EXCEPT !.locks = @ \ gone, !.cached = @ \cup (keep \cap gone \cap d.locks),
                       !.archived = @ \cup gone, !.mined = @ \ keys, !.confirmed = h]

WriteMined(d, t, b) == [d EXCEPT !.mined = @ \cup (LocksOf(d, t) \X {Height[b]})]
RemoveMined(d, t, b) == [d EXCEPT !.mined = @ \ (LocksOf(d, t) \X {Height[b]})]
-----------------------------------------------------------------------------
(* Tracking of transactions without a lock.  An entry may exist for the    *)
(* sake of its children only; it then has no transaction.                  *)
Kids(n, t) == {c \in Txs : <<t, c>> \in n.kids}
Tracked(n, t) == t \in n.tx \/ Kids(n, t) # {}

(* Mutant: a transaction that is tracked already keeps its block.          *)
AddNonLockedTx_KeepsMined(n, t, b) ==
    IF Tracked(n, t) THEN n
    ELSE [n EXCEPT !.tx = @ \cup {t}, !.mined[t] = b,
                   !.kids = @ \cup {<<p, t>> : p \in {Parent[t]} \ {None}},
                   !.by[Input[t]] = IF @ = None THEN t ELSE @]

AddNonLockedTx(n, t, b) ==
    LET new == ~Tracked(n, t)
        kids == n.kids \cup {<<p, t>> : p \in {Parent[t]} \ {None}}
    IN  [tx |-> IF new THEN n.tx \cup {t} ELSE n.tx,
         mined |-> [n.mined EXCEPT ![t] = b],
         kids |-> IF new THEN kids ELSE n.kids,
         by |-> IF new /\ n.by[Input[t]] = None THEN [n.by EXCEPT ![Input[t]] = t] ELSE n.by]

RemoveNonLockedTx(t, n) ==
    IF ~Tracked(n, t) THEN n
    ELSE LET own == t \in n.tx
             kids == {k \in n.kids : k[1] # t /\ (own => k[2] # t)}
             tx == n.tx \ {t}
             left == tx \cup {k[1] : k \in kids}
         IN  [tx |-> tx, kids |-> kids,
              mined |-> [u \in Txs |-> IF u \in left THEN n.mined[u] ELSE None],
              by |-> IF own THEN [n.by EXCEPT ![Input[t]] = None] ELSE n.by]

RemoveConflictedTxs(n, T) == FoldSet(RemoveNonLockedTx, n, T)

-----------------------------------------------------------------------------
(* GetTransaction looks into the mempool and then into the index.          *)
TxKnown(t) == t \in mempool \/ indexed[t] # None
HashBlock(t) == IF t \in mempool THEN None ELSE indexed[t]
HasChainLock(b) == b # Genesis /\ b \in Chain[chainLock]

CheckCanLock(t) ==
    LET p == Parent[t]
        b == indexed[p]
    IN  \/ p = None
        \/ IsLocked(p)
        \/ /\ p \notin mempool /\ b # None
           /\ Height[tip] - Height[b] + 1 >= Confirmations \/ HasChainLock(b)

(* ProcessTx: the node votes for the input unless it conflicts with a lock *)
(* or with an earlier vote.                                                *)
Votes(T) == {t \in T : /\ CheckCanLock(t)
                       /\ GetConflictingLock(db, t) = {}
                       /\ voted \cap Rivals[t] = {}}

(* The first lock that waits for t goes back to the pending locks.         *)
Waiting(t) == {l \in pendingNoTx : LockTx[l] = t}
BackToPending(t) ==
    IF Waiting(t) = {} THEN UNCHANGED locks
    ELSE \E l \in Waiting(t) : pending' = pending \cup {l} /\ pendingNoTx' = pendingNoTx \ {l}
-----------------------------------------------------------------------------
(* The mempool and the chain.  Each removal and addition, and each block   *)
(* disconnected or connected, is queued for the callbacks.                 *)
Call(type, x, T) == [type |-> type, x |-> x, conflicted |-> T]
Calls(type, T) == FoldSet(LAMBDA t, q : Append(q, Call(type, t, {})), <<>>, T)

(* removeRecursive: with the transactions that spend from them.            *)
WithKids(T, m) == {u \in m : \E t \in T : u \in Family[t]}
OnChain(b) == {BlockTx[c] : c \in Chain[b] \ {Genesis}}
HasInputs(t, m, b) == Parent[t] = None \/ Parent[t] \in m \cup OnChain(b)
Unspent(t, b) == (Rivals[t] \cup {t}) \cap OnChain(b) = {}

(* removeConflicts and removeForBlock.                                     *)
Conflicts(t, m) == WithKids(Rivals[t], m \ {t})
RemoveForBlock(t, m) == m \ (Conflicts(t, m) \cup {t})

(* AcceptToMemoryPool, under cs_main and mempool.cs, from a pool p of      *)
(* transactions m and queued callbacks q, with the chain up to b.  What    *)
(* conflicts with a transaction that a lock waits for makes room.          *)
Room(t, m) == IF Waiting(t) # {} THEN Conflicts(t, m) ELSE {}
(* Mutant: the mempool does not look at the locks.                         *)
Acceptable_NoLocks(t, m, b, d) ==
    t \notin m /\ HasInputs(t, m, b) /\ Unspent(t, b) /\ Rivals[t] \cap m \subseteq Room(t, m)

Acceptable(t, m, b, d) ==
    /\ t \notin m /\ HasInputs(t, m, b) /\ Unspent(t, b)
    /\ GetConflictingLock(d, t) = {} /\ Rivals[t] \cap m \subseteq Room(t, m)
Accept(t, p) ==
    [m |-> (p.m \ Room(t, p.m)) \cup {t},
     q |-> Append(p.q \o Calls("removed", Room(t, p.m)), Call("added", t, {}))]

(* The transaction of a disconnected block returns to the pool, or what    *)
(* spends from it leaves.  One that a new block has too is not looked at.  *)
Return(t, p, b, d, add) ==
    IF t \in OnChain(b) THEN p
    ELSE IF add /\ Acceptable(t, p.m, b, d) THEN Accept(t, p)
    ELSE LET out == WithKids({t}, p.m)
         IN  [m |-> p.m \ out, q |-> p.q \o Calls("removed", out)]

(* Those of the blocks bs one by one, the i-th onto the chain up to        *)
(* ends[i] and after the callbacks calls[i]; only the first most may stay. *)
ReturnAll(p, bs, calls, ends, most, d) ==
    LET pool[i \in 0..Len(bs)] ==
            IF i = 0 THEN p
            ELSE Return(BlockTx[bs[i]], [m |-> pool[i - 1].m, q |-> pool[i - 1].q \o calls[i]],
                        ends[i], d, i <= most)
    IN  pool[Len(bs)]

(* UpdateMempoolForReorg after the blocks bs, highest first, have been     *)
(* disconnected: their transactions return in the order of the chain.      *)
UpdateMempoolForReorg(p, bs, b, d) ==
    LET n == Len(bs)
    IN  ReturnAll(p, [i \in 1..n |-> bs[n + 1 - i]], [i \in 1..n |-> <<>>], [i \in 1..n |-> b],
                  n, d)

AcceptToMemoryPool(t) ==
    /\ Acceptable(t, mempool, tip, db)
    /\ LET p == Accept(t, [m |-> mempool, q |-> queue])
       IN  mempool' = p.m /\ queue' = p.q
    /\ events' = [events EXCEPT !.left = @ \cup Room(t, mempool)]
    /\ UNCHANGED <<tip, invalid, chainLock, notified, cb, indexed, db, locks, track, voted, w>>

(* Expiry, or the size limit of the mempool.                               *)
Evict(t) ==
    LET out == WithKids({t}, mempool)
    IN  /\ t \in mempool /\ events.count < MaxEvents
        /\ events' = [events EXCEPT !.count = @ + 1, !.left = @ \cup out]
        /\ mempool' = mempool \ out
        /\ queue' = queue \o Calls("removed", out)
        /\ UNCHANGED <<tip, invalid, chainLock, notified, cb, indexed, db, locks, track, voted, w>>

(* The blocks of the active chain that are not below b, highest first.     *)
Dropped(b) ==
    LET D == {c \in Blocks : c \in Chain[tip] \ Chain[b]}
    IN  [i \in 1..Cardinality(D) |-> CHOOSE c \in D : Height[c] = Height[tip] + 1 - i]
Disconnects(bs) == queue \o [i \in DOMAIN bs |-> Call("disconnected", bs[i], {})]

CanActivate(b) ==
    /\ b \notin Chain[tip] /\ Prev[b] \in Chain[tip] /\ Chain[b] \cap invalid = {}
    /\ chainLock \in Chain[b] \/ b \in Chain[chainLock]
    /\ Prev[b] = tip \/ (Height[b] >= Height[tip] /\ events.count < MaxEvents) \/ HasChainLock(b)

(* Mutant: spork 3 is taken to be off.                                     *)
Refused_Never(b) == FALSE

(* ConnectBlock refuses a block that conflicts with a lock and has no      *)
(* ChainLock.                                                              *)
Refused(b) == GetConflictingLock(db, BlockTx[b]) # {} /\ ~HasChainLock(b)

(* ActivateBestChain moves to b.  ConnectBlock drops the locks that        *)
(* conflict with a block that has a ChainLock.                             *)
ActivateBestChain(b) ==
    LET t == BlockTx[b]
        bs == Dropped(b)
        beaten == IF HasChainLock(b) THEN GetConflictingLock(db, t) ELSE {}
        d == RemoveChained(db, beaten)
        out == Conflicts(t, mempool)
        p == UpdateMempoolForReorg(
                 [m |-> RemoveForBlock(t, mempool), q |-> Disconnects(bs) \o Calls("removed", out)],
                 bs, b, d)
    IN  /\ CanActivate(b) /\ ~Refused(b)
        /\ events' = [events EXCEPT !.count = IF bs = <<>> \/ HasChainLock(b) THEN @ ELSE @ + 1,
                                    !.left = @ \cup ({BlockTx[c] : c \in Range(bs)} \ (p.m \cup {t}))]
        /\ db' = d /\ mempool' = p.m /\ tip' = b
        /\ queue' = Append(p.q, Call("connected", b, out))
        /\ UNCHANGED <<invalid, chainLock, notified, cb, indexed, locks, track, voted, w>>

(* A block is refused after ActivateBestChain has disconnected down to its *)
(* predecessor; its next round finds the best of the other blocks.         *)
RejectBlock(b) ==
    LET bs == Dropped(Prev[b])
        p == UpdateMempoolForReorg([m |-> mempool, q |-> Disconnects(bs)], bs, Prev[b], db)
    IN  /\ CanActivate(b) /\ Refused(b)
        /\ invalid' = invalid \cup {b}
        /\ mempool' = p.m /\ queue' = p.q /\ tip' = Prev[b]
        /\ UNCHANGED <<chainLock, notified, events, cb, indexed, db, locks, track, voted, w>>

(* A ChainLock for a block above the best one; it lifts the failure of     *)
(* blocks below it.                                                        *)
NewChainLock(b) ==
    /\ chainLock \in Chain[b] \ {b} /\ events.count < MaxEvents
    /\ events' = [events EXCEPT !.count = @ + 1]
    /\ chainLock' = b /\ invalid' = invalid \ Chain[b]
    /\ UNCHANGED <<mempool, tip, notified, queue, cb, indexed, db, locks, track, voted, w>>

(* EnforceBestChainLock notifies once the block is part of the chain.      *)
EnforceBestChainLock ==
    /\ chainLock \in Chain[tip] /\ notified # chainLock
    /\ notified' = chainLock
    /\ queue' = Append(queue, Call("chainlock", chainLock, {}))
    /\ UNCHANGED <<mempool, tip, invalid, chainLock, events, cb, indexed, db, locks, track, voted, w>>
-----------------------------------------------------------------------------
(* A lock comes from a peer (ProcessMessageInstantSendLock).               *)
ReceiveLock(l) ==
    /\ l \notin pending \cup pendingNoTx /\ ~KnownInstantSendLock(l)
    /\ pending' = pending \cup {l}
    /\ UNCHANGED <<chain, queue, cb, indexed, db, pendingNoTx, track, voted, w>>

(* The masternodes have signed all inputs (HandleNewInputLockRecoveredSig, *)
(* or ProcessTx finds it): the node takes part in making the lock of a     *)
(* transaction it knows, on whose input it voted.  A lock in the making is *)
(* not kept: only a retry of its transaction looks at it, and there the    *)
(* vote that came first has the same effect.                               *)
TrySignInstantSendLock(l) ==
    LET t == LockTx[l]
    IN  t \in voted \/ (TxKnown(t) /\ Rivals[t] \cap voted # {})

(* The signature of a lock that this node makes has been recovered.        *)
(* Whether the lock waits for its transaction is not looked up.            *)
HandleNewInstantSendLockRecoveredSig(l) ==
    /\ TrySignInstantSendLock(l)
    /\ l \notin pending /\ ~KnownInstantSendLock(l)
    /\ pending' = pending \cup {l}
    /\ UNCHANGED <<chain, queue, cb, indexed, db, pendingNoTx, track, voted, w>>

(* ProcessPendingInstantSendLocks takes a lock and verifies it, and        *)
(* ProcessInstantSendLock looks up what is known of it and of its          *)
(* transaction.  A deterministic lock replaces the other kind.             *)
TakeLock(l) ==
    LET t == LockTx[l]
        b == HashBlock(t)
        same == LocksOf(db, t)
    IN  /\ w.pc = "idle" /\ l \in pending
        /\ pending' = pending \ {l}
        /\ IF \/ KnownInstantSendLock(l)
              \/ b # None /\ HasChainLock(b)
              \/ same \cap Deterministic # {}
           THEN UNCHANGED <<w, db>>
           ELSE /\ w' = [NoWork EXCEPT !.pc = "store", !.lock = l, !.tx = TxKnown(t), !.mined = b]
                /\ db' = IF l \in Deterministic THEN RemoveAndArchive(db, same) ELSE db
        /\ UNCHANGED <<chain, queue, cb, indexed, pendingNoTx, track, voted>>

(* WriteNewInstantSendLock and WriteInstantSendLockMined, or the lock has  *)
(* to wait for its transaction.                                            *)
Store ==
    LET l == w.lock
        t == LockTx[l]
    IN  /\ w.pc = "store"
        /\ IF w.tx
           THEN /\ LET d == WriteNewInstantSendLock(db, l)
                   IN  db' = IF w.mined = None THEN d ELSE WriteInstantSendLockMined(d, l, w.mined)
                /\ UNCHANGED locks
           ELSE /\ pendingNoTx' = pendingNoTx \cup {l}
                /\ UNCHANGED <<db, pending>>
        /\ w' = [w EXCEPT !.pc = "untrack"]
        /\ UNCHANGED <<chain, queue, cb, indexed, track, voted>>

(* Mutant: the children are not retried.                                   *)
Untrack_NoRetry ==
    /\ w.pc = "untrack"
    /\ nl' = RemoveNonLockedTx(LockTx[w.lock], nl)
    /\ w' = [w EXCEPT !.pc = "resolve"]
    /\ UNCHANGED <<chain, queue, cb, indexed, db, locks, retry, voted>>

(* RemoveNonLockedTx: the children can be locked now.                      *)
Untrack ==
    LET t == LockTx[w.lock]
    IN  /\ w.pc = "untrack"
        /\ nl' = RemoveNonLockedTx(t, nl) /\ retry' = retry \cup Kids(nl, t)
        /\ w' = [w EXCEPT !.pc = "resolve"]
        /\ UNCHANGED <<chain, queue, cb, indexed, db, locks, voted>>

(* The block of a mined transaction that conflicts with the lock.          *)
BlockConflicts(l) ==
    LET t == nl.by[Input[LockTx[l]]]
    IN  {b \in Blocks : t \in nl.tx \ {LockTx[l]} /\ nl.mined[t] = b}

(* ResolveBlockConflicts, first part: if a conflict has a ChainLock the    *)
(* lock goes, if not it is no longer tracked and its block is invalidated. *)
Resolve ==
    LET l == w.lock
        B == BlockConflicts(l)
    IN  /\ w.pc = "resolve"
        /\ IF \E b \in B : HasChainLock(b)
           THEN /\ db' = RemoveChained(db, {l})
                /\ w' = [w EXCEPT !.pc = "clean"]
                /\ UNCHANGED nl
           ELSE /\ nl' = RemoveConflictedTxs(nl, {BlockTx[b] : b \in B})
                /\ w' = [w EXCEPT !.pc = IF B = {} THEN "clean" ELSE "invalidate",
                                   !.blocks = B, !.known = l \notin pendingNoTx]
                /\ UNCHANGED db
        /\ UNCHANGED <<chain, queue, cb, indexed, locks, retry, voted>>

(* InvalidateBlock updates the mempool after each block it disconnects;    *)
(* after the first ten nothing returns to it any more.                     *)
InvalidateBlock(bs) ==
    ReturnAll([m |-> mempool, q |-> queue], bs,
              [i \in DOMAIN bs |-> <<Call("disconnected", bs[i], {})>>],
              [i \in DOMAIN bs |-> Prev[bs[i]]], 10, db)

(* ResolveBlockConflicts, second part: InvalidateBlock, and                *)
(* ResetBlockFailureFlags while the locked transaction is not known.       *)
Invalidate(b) ==
    LET p == InvalidateBlock(Dropped(Prev[b]))
    IN  /\ w.pc = "invalidate" /\ b \in w.blocks
        /\ IF b \in Chain[tip]
           THEN mempool' = p.m /\ queue' = p.q /\ tip' = Prev[b]
           ELSE UNCHANGED <<mempool, queue, tip>>
        /\ invalid' = IF w.known THEN invalid \cup {b} ELSE invalid
        /\ w' = [w EXCEPT !.blocks = @ \ {b}, !.pc = IF w.blocks = {b} THEN "clean" ELSE @]
        /\ UNCHANGED <<chainLock, notified, events, cb, indexed, db, locks, track, voted>>

(* RemoveMempoolConflictsForLock: under mempool.cs the conflicting         *)
(* transactions leave the mempool, under cs they are no longer tracked.    *)
RemoveMempoolConflictsForLock(l) ==
    LET T == Rivals[LockTx[l]] \cap mempool
        out == WithKids(T, mempool)
    IN  /\ mempool' = mempool \ out
        /\ queue' = queue \o Calls("removed", out)
        /\ nl' = RemoveConflictedTxs(nl, T)

Clean ==
    /\ w.pc = "clean"
    /\ IF w.tx THEN RemoveMempoolConflictsForLock(w.lock) ELSE UNCHANGED <<mempool, queue, nl>>
    /\ w' = NoWork
    /\ UNCHANGED <<tip, invalid, chainLock, notified, events, cb, indexed, db, locks, retry, voted>>

ProcessPendingRetryLockTxs ==
    /\ w.pc = "idle" /\ retry # {}
    /\ voted' = voted \cup Votes({t \in retry \cap nl.tx : ~IsLocked(t)})
    /\ retry' = {}
    /\ UNCHANGED <<chain, queue, cb, indexed, db, locks, nl, w>>
-----------------------------------------------------------------------------
Pop(type) == /\ cb.pc = "idle" /\ queue # <<>> /\ Head(queue).type = type
             /\ queue' = Tail(queue)

(* TransactionAddedToMempool, up to the vote.                              *)
TransactionAddedToMempool ==
    LET t == Head(queue).x
    IN  /\ Pop("added")
        /\ BackToPending(t)
        /\ voted' = IF Waiting(t) = {} THEN voted \cup Votes({t}) ELSE voted
        /\ cb' = [pc |-> IF Waiting(t) = {} THEN "track" ELSE "clean", tx |-> t, block |-> None]
        /\ UNCHANGED <<chain, indexed, db, track, w>>

(* Mutant: the lock that waits for the transaction is left waiting.        *)
Track_NoPending ==
    /\ cb.pc = "track"
    /\ nl' = AddNonLockedTx(nl, cb.tx, cb.block)
    /\ cb' = IF cb.block = None THEN NoCallback ELSE [cb EXCEPT !.pc = "mined"]
    /\ UNCHANGED <<chain, queue, indexed, db, locks, retry, voted, w>>

(* AddNonLockedTx of either callback.                                      *)
Track ==
    /\ cb.pc = "track"
    /\ nl' = AddNonLockedTx(nl, cb.tx, cb.block)
    /\ BackToPending(cb.tx)
    /\ cb' = IF cb.block = None THEN NoCallback ELSE [cb EXCEPT !.pc = "mined"]
    /\ UNCHANGED <<chain, queue, indexed, db, retry, voted, w>>

CleanAdded ==
    /\ cb.pc = "clean"
    /\ \E l \in Locks : LockTx[l] = cb.tx /\ RemoveMempoolConflictsForLock(l)
    /\ cb' = NoCallback
    /\ UNCHANGED <<tip, invalid, chainLock, notified, events, indexed, db, locks, retry, voted, w>>

(* TransactionRemovedFromMempool drops the lock of the transaction.        *)
TransactionRemovedFromMempool ==
    /\ Pop("removed")
    /\ db' = RemoveChained(db, LocksOf(db, Head(queue).x))
    /\ UNCHANGED <<chain, cb, indexed, locks, track, voted, w>>

(* BlockConnected, up to the vote.  The transaction index listens too.     *)
BlockConnected ==
    LET b == Head(queue).x
        t == BlockTx[b]
        lockedTx == IsLocked(t) \/ HasChainLock(b)
    IN  /\ Pop("connected")
        /\ indexed' = [indexed EXCEPT ![t] = b]
        /\ nl' = RemoveConflictedTxs(nl, Head(queue).conflicted)
        /\ voted' = IF lockedTx THEN voted ELSE voted \cup Votes({t})
        /\ cb' = [pc |-> IF lockedTx THEN "untrack" ELSE "track", tx |-> t, block |-> b]
        /\ UNCHANGED <<chain, db, locks, retry, w>>

UntrackMined ==
    /\ cb.pc = "untrack"
    /\ nl' = RemoveNonLockedTx(cb.tx, nl) /\ retry' = retry \cup Kids(nl, cb.tx)
    /\ cb' = [cb EXCEPT !.pc = "mined"]
    /\ UNCHANGED <<chain, queue, indexed, db, locks, voted, w>>

(* WriteBlockInstantSendLocks.                                             *)
RecordMined ==
    /\ cb.pc = "mined"
    /\ db' = WriteMined(db, cb.tx, cb.block)
    /\ cb' = NoCallback
    /\ UNCHANGED <<chain, queue, indexed, locks, track, voted, w>>

(* Mutant: the locks stay recorded as mined.                               *)
BlockDisconnected_Keeps ==
    Pop("disconnected") /\ UNCHANGED <<chain, cb, indexed, db, locks, track, voted, w>>

BlockDisconnected ==
    /\ Pop("disconnected")
    /\ db' = RemoveMined(db, BlockTx[Head(queue).x], Head(queue).x)
    /\ UNCHANGED <<chain, cb, indexed, locks, track, voted, w>>

(* NotifyChainLock, HandleFullyConfirmedBlock: the caches keep some of the *)
(* confirmed locks.                                                        *)
NotifyChainLock ==
    LET b == Head(queue).x
        T == {t \in Txs : nl.mined[t] \in Chain[b]}
    IN  /\ Pop("chainlock")
        /\ \E keep \in SUBSET db.locks : db' = RemoveConfirmed(db, Height[b], keep)
        /\ nl' = FoldSet(RemoveNonLockedTx, nl, T)
        /\ retry' = retry \cup UNION {Kids(nl, t) : t \in T}
        /\ UNCHANGED <<chain, cb, indexed, locks, voted, w>>
-----------------------------------------------------------------------------
Environment ==
    \/ Len(queue) < MaxQueue /\ \E t \in Txs : AcceptToMemoryPool(t) \/ Evict(t)
    \/ Len(queue) < MaxQueue /\ \E b \in Blocks \ {Genesis} : ActivateBestChain(b) \/ RejectBlock(b)
    \/ \E b \in Blocks : NewChainLock(b)
    \/ EnforceBestChainLock
    \/ \E l \in Locks : ReceiveLock(l) \/ HandleNewInstantSendLockRecoveredSig(l)

Worker ==
    \/ \E l \in Locks : TakeLock(l)
    \/ Store \/ Untrack \/ Resolve \/ Clean
    \/ \E b \in Blocks : Invalidate(b)
    \/ ProcessPendingRetryLockTxs

Callback ==
    \/ TransactionAddedToMempool \/ Track \/ CleanAdded \/ TransactionRemovedFromMempool
    \/ BlockConnected \/ UntrackMined \/ RecordMined \/ BlockDisconnected
    \/ NotifyChainLock

(* The worker has taken a lock and not looked for conflicts yet, while a   *)
(* callback has not run or not finished, or while the block that the index *)
(* of transactions has named to it is not in the chain.                    *)
Overlap ==
    /\ w.pc \in {"store", "untrack", "resolve"}
    /\ queue # <<>> \/ cb.pc # "idle" \/ w.mined \notin Chain[tip] \cup {None}

Next ==
    /\ Environment \/ Worker \/ Callback
    /\ raced' = IF Overlap' THEN raced \cup {w'.lock} ELSE raced
Spec == Init /\ [][Next]_vars
-----------------------------------------------------------------------------
(* ProcessInstantSendLock and AcceptToMemoryPool: once the worker is done  *)
(* with a lock, and until it is removed, the mempool has no transaction    *)
(* that conflicts with it.                                                 *)
NoMempoolConflict ==
    \A l \in db.locks : w.lock # l => Rivals[LockTx[l]] \cap mempool = {}

Quiet == w.pc = "idle" /\ cb.pc = "idle" /\ queue = <<>> /\ pending = {} /\ retry = {}

(* No lock of this transaction was taken in while a callback was           *)
(* outstanding or for a block that had been disconnected (LookupBlockIndex *)
(* finds it all the same), and neither the transaction nor one that        *)
(* conflicts with it has left unnoticed: nothing tells the manager about   *)
(* those, and the outpoint stays with the transaction that had it first.   *)
Calm(l) ==
    /\ LockTx[l] \notin {LockTx[k] : k \in raced}
    /\ (Rivals[LockTx[l]] \cup {LockTx[l]}) \cap events.left = {}

(* ConnectBlock, TransactionRemovedFromMempool, RemoveConflictingLock: a   *)
(* lock leaves the database for a deterministic lock, which the worker is  *)
(* then about to write, or because a ChainLock covers its transaction or   *)
(* one that conflicts with it.                                             *)
LocksKept ==
    [][\A l \in db.locks \ db'.locks :
          Calm(l) => \/ w'.lock \in Deterministic /\ LockTx[w'.lock] = LockTx[l]
                     \/ (Rivals[LockTx[l]] \cup {LockTx[l]}) \cap OnChain(chainLock) # {}]_vars

(* ResolveBlockConflicts: when it is done, no block with a transaction     *)
(* that conflicts with the lock is in the chain without a ChainLock, also  *)
(* when the locked transaction itself is not known yet.                    *)
ConflictsDisconnected ==
    [][w.pc # "clean" /\ w'.pc = "clean" /\ Calm(w.lock) =>
          \A b \in Chain[tip'] \ {Genesis} :
              BlockTx[b] \in Rivals[LockTx[w.lock]] => HasChainLock(b)]_vars

(* TransactionAddedToMempool and AddNonLockedTx: with nothing left to do,  *)
(* no lock waits for a transaction that the node has, unless the           *)
(* transaction has a lock or a ChainLock.                                  *)
WaitsForTx ==
    Quiet => \A l \in pendingNoTx : Calm(l) /\ LockTx[l] \in mempool \cup OnChain(tip) =>
                \/ IsLocked(LockTx[l])
                \/ \E b \in Chain[tip] : HasChainLock(b) /\ BlockTx[b] = LockTx[l]

(* RemoveNonLockedTx and ProcessPendingRetryLockTxs: with nothing left to  *)
(* do, the node has voted for every child of a locked transaction that it  *)
(* may vote for, although the child may have come before the lock.         *)
ChildrenRetried ==
    Quiet => \A t \in nl.tx : \A l \in LocksOf(db, Parent[t]) :
                Calm(l) => t \in voted \cup events.left \/ IsLocked(t) \/ Votes({t}) = {}

(* WriteBlockInstantSendLocks, RemoveBlockInstantSendLocks and the worker: *)
(* with nothing left to do, a lock is recorded as mined at a height just   *)
(* when the block of its transaction at that height is in the chain.  From *)
(* that record the lock is found when a ChainLock confirms the block.      *)
MinedRecorded ==
    Quiet => \A l \in db.locks : \A b \in Blocks \ {Genesis} :
                Calm(l) /\ BlockTx[b] = LockTx[l] =>
                (<<l, Height[b]>> \in db.mined <=> b \in Chain[tip])
=============================================================================

------------------------- MODULE InstantSendProofs --------------------------
(***************************************************************************)
(* Proofs about InstantSend for any transactions, locks of both kinds and  *)
(* blocks, and any number of reorganisations.                              *)
(*                                                                         *)
(* That the mempool has nothing that conflicts with a lock rests on the    *)
(* worker: a lock enters the database only while the worker has it in      *)
(* hand, only if the transaction is known, and what the mempool then has   *)
(* against it leaves before the worker goes on to the next lock.  In       *)
(* between and afterwards whatever comes into the mempool, also when       *)
(* blocks are disconnected, has been compared with the locks.              *)
(***************************************************************************)
EXTENDS InstantSend, FiniteSetTheorems, WellFoundedInduction, NaturalsInduction, TLAPS

(* Pool m has nothing that conflicts with a lock of L other than x.        *)
Clear(m, L, x) == \A l \in L : x # l => Rivals[LockTx[l]] \cap m = {}

(* What the argument needs of the records for the database and the worker. *)
IsDb(d) == d = [x \in DOMAIN d |-> d[x]] /\ "locks" \in DOMAIN d
IsWork(v) == v = [x \in DOMAIN v |-> v[x]] /\ {"pc", "lock", "tx"} \subseteq DOMAIN v

(* The lock that the worker has in hand is in the database only after it   *)
(* has been written, and only if its transaction is known.                 *)
InHand ==
    /\ IF w.pc = "idle" THEN w.lock = None ELSE w.lock \in Locks
    /\ w.pc = "store" => w.lock \notin db.locks
    /\ w.lock \in db.locks => w.tx

IndInv ==
    /\ IsDb(db) /\ db.locks \subseteq Locks
    /\ IsWork(w) /\ InHand
    /\ NoMempoolConflict
-----------------------------------------------------------------------------
(* Less in the pool and fewer locks make no conflict.                      *)
LEMMA StaysClear ==
    ASSUME NEW m, NEW L, NEW x, Clear(m, L, x), NEW v \in SUBSET m, NEW K \in SUBSET L
    PROVE  Clear(v, K, x)
BY DEF Clear

(* Two transactions that spend the same outpoint are rivals of each other. *)
LEMMA RivalsOfEachOther ==
    ASSUME NEW l \in Locks, NEW t \in Rivals[LockTx[l]]
    PROVE  t \in Txs /\ LockTx[l] \in Rivals[t]
<1>1. LockTx[l] \in Txs
  BY TreeAssumption
<1>2. t \in Txs \ {LockTx[l]} /\ Input[t] = Input[LockTx[l]]
  BY <1>1 DEF Rivals
<1> QED
  BY <1>1, <1>2 DEF Rivals

(* AcceptToMemoryPool compares the transaction with the locks.             *)
LEMMA AcceptedClear ==
    ASSUME NEW t, NEW p, NEW b, NEW d, NEW x, d.locks \subseteq Locks,
           Clear(p.m, d.locks, x), Acceptable(t, p.m, b, d)
    PROVE  Clear(Accept(t, p).m, d.locks, x)
<1>1. Accept(t, p).m = (p.m \ Room(t, p.m)) \cup {t}
  BY DEF Accept
<1>2. ASSUME NEW l \in d.locks PROVE t \notin Rivals[LockTx[l]]
  <2>1. SUFFICES ASSUME t \in Rivals[LockTx[l]] PROVE FALSE
    OBVIOUS
  <2>2. LockTx[l] \in Rivals[t]
    BY <2>1, RivalsOfEachOther
  <2> QED
    BY <2>2 DEF Acceptable, GetConflictingLock, Visible
<1> QED
  BY <1>1, <1>2 DEF Clear

(* So does UpdateMempoolForReorg for the transaction of a block.           *)
LEMMA ReturnedClear ==
    ASSUME NEW t, NEW p, NEW b, NEW d, NEW add, NEW x, d.locks \subseteq Locks,
           Clear(p.m, d.locks, x)
    PROVE  Clear(Return(t, p, b, d, add).m, d.locks, x)
<1>1. CASE t \in OnChain(b)
  BY <1>1 DEF Return
<1>2. CASE t \notin OnChain(b) /\ add /\ Acceptable(t, p.m, b, d)
  <2>1. Return(t, p, b, d, add) = Accept(t, p)
    BY <1>2 DEF Return
  <2> QED
    BY <1>2, <2>1, AcceptedClear
<1>3. CASE t \notin OnChain(b) /\ ~(add /\ Acceptable(t, p.m, b, d))
  <2>1. Return(t, p, b, d, add).m = p.m \ WithKids({t}, p.m)
    BY <1>3 DEF Return
  <2> QED
    BY <2>1 DEF Clear
<1> QED
  BY <1>1, <1>2, <1>3
-----------------------------------------------------------------------------
(* A set of numbers has a least one.                                       *)
LEMMA LeastNumber ==
    ASSUME NEW S \in SUBSET Nat, S # {}
    PROVE  \E m \in S : \A n \in S : m <= n
<1>1. IsWellFoundedOn(OpToRel(<, Nat), Nat)
  BY NatLessThanWellFounded
<1>2. PICK m \in S : \A n \in S : ~(<<n, m>> \in OpToRel(<, Nat))
  BY <1>1, WFMin
<1>3. ASSUME NEW n \in S PROVE m <= n
  <2>1. n < m => <<n, m>> \in {p \in Nat \X Nat : p[1] < p[2]}
    OBVIOUS
  <2> QED
    BY <1>2, <2>1 DEF OpToRel
<1> QED
  BY <1>3

(* The pool after the transaction of the i-th of the blocks bs.            *)
After(p, i, bs, calls, ends, most, d) ==
    Return(BlockTx[bs[i]], [m |-> p.m, q |-> p.q \o calls[i]], ends[i], d, i <= most)

(* g[i] is the pool after the first i of them.                             *)
IsRun(g, n, p, bs, calls, ends, most, d) ==
    /\ g = [i \in 0..n |-> g[i]]
    /\ g[0] = p
    /\ \A i \in 1..n : g[i] = After(g[i - 1], i, bs, calls, ends, most, d)

(* There is such a run for every number of blocks.                         *)
LEMMA RunExists ==
    ASSUME NEW p, NEW bs, NEW calls, NEW ends, NEW most, NEW d, NEW n \in Nat
    PROVE  \E g : IsRun(g, n, p, bs, calls, ends, most, d)
<1> DEFINE Run(g, k) == IsRun(g, k, p, bs, calls, ends, most, d)
           Bad == {k \in Nat : ~ \E g : Run(g, k)}
<1>1. SUFFICES ASSUME Bad # {} PROVE FALSE
  OBVIOUS
<1>2. PICK k \in Bad : \A j \in Bad : k <= j
  BY <1>1, LeastNumber
<1>3. CASE k = 0
  <2> DEFINE g == [i \in 0..0 |-> p]
  <2>1. 0 \in 0..0 /\ 1..0 = {}
    OBVIOUS
  <2>2. Run(g, 0)
    BY <2>1, Zenon DEF IsRun
  <2> QED
    BY <1>3, <2>2
<1>4. CASE k # 0
  <2>1. k \in Nat /\ k - 1 \in Nat /\ ~(k <= k - 1)
    BY <1>4
  <2>2. PICK g : Run(g, k - 1)
    BY <1>2, <2>1, Zenon
  <2> DEFINE next == After(g[k - 1], k, bs, calls, ends, most, d)
             h == [i \in 0..k |-> IF i = k THEN next ELSE g[i]]
  <2> HIDE DEF next
  <2>3. /\ 0 \in 0..k /\ 0 # k /\ k \in 0..k
        /\ \A i \in 1..k : i \in 0..k /\ i - 1 \in 0..k /\ i - 1 # k
        /\ \A i \in 1..k : i # k => i \in 1..(k - 1)
    BY <1>4, <2>1
  <2>4. h[0] = p
    BY <2>2, <2>3, Zenon DEF IsRun
  <2>5. ASSUME NEW i \in 1..k
        PROVE  h[i] = After(h[i - 1], i, bs, calls, ends, most, d)
    <3>1. h[i - 1] = g[i - 1]
      BY <2>3, Zenon
    <3>2. CASE i = k
      BY <2>3, <3>1, <3>2, Zenon DEF next
    <3>3. CASE i # k
      BY <2>2, <2>3, <3>1, <3>3, Zenon DEF IsRun
    <3> QED
      BY <3>2, <3>3
  <2>6. h = [i \in 0..k |-> h[i]]
    BY Zenon
  <2> HIDE DEF h
  <2>7. Run(h, k)
    BY <2>4, <2>5, <2>6, Zenon DEF IsRun
  <2> QED
    BY <2>7, Zenon
<1> QED
  BY <1>3, <1>4

(* ReturnAll ends with such a run.                                         *)
LEMMA ReturnAllRuns ==
    ASSUME NEW p, NEW bs, NEW calls, NEW ends, NEW most, NEW d, Len(bs) \in Nat
    PROVE  \E g : /\ IsRun(g, Len(bs), p, bs, calls, ends, most, d)
                  /\ ReturnAll(p, bs, calls, ends, most, d) = g[Len(bs)]
<1> DEFINE n == Len(bs)
           F(g) == [i \in 0..n |-> IF i = 0 THEN p
                                   ELSE Return(BlockTx[bs[i]],
                                               [m |-> g[i - 1].m, q |-> g[i - 1].q \o calls[i]],
                                               ends[i], d, i <= most)]
           pool == CHOOSE g : g = F(g)
<1>1. ReturnAll(p, bs, calls, ends, most, d) = pool[n]
  BY Zenon DEF ReturnAll
<1>2. PICK g : IsRun(g, n, p, bs, calls, ends, most, d)
  BY RunExists
<1>3. 0 \in 0..n /\ \A i \in 0..n : i # 0 => i \in 1..n
  OBVIOUS
<1>4. \A i \in 0..n : g[i] = F(g)[i]
  BY <1>2, <1>3, Zenon DEF IsRun, After
<1>5. g = F(g)
  BY <1>2, <1>4, Zenon DEF IsRun
<1>6. pool = F(pool)
  BY <1>5, Zenon
<1> HIDE DEF pool
<1>7. \A i \in 1..n : i \in 0..n /\ i # 0
  OBVIOUS
<1>8. IsRun(pool, n, p, bs, calls, ends, most, d)
  <2>1. pool = [i \in 0..n |-> pool[i]]
    BY <1>6, Zenon
  <2>2. pool[0] = p
    BY <1>3, <1>6, Zenon
  <2>3. \A i \in 1..n : pool[i] = After(pool[i - 1], i, bs, calls, ends, most, d)
    BY <1>6, <1>7, Zenon DEF After
  <2> QED
    BY <2>1, <2>2, <2>3, Zenon DEF IsRun
<1> QED
  BY <1>1, <1>8, Zenon

(* However many transactions return, none that conflicts with a lock does. *)
LEMMA ReturnAllClear ==
    ASSUME NEW p, NEW bs, NEW calls, NEW ends, NEW most, NEW d, NEW x, Len(bs) \in Nat,
           d.locks \subseteq Locks, Clear(p.m, d.locks, x)
    PROVE  Clear(ReturnAll(p, bs, calls, ends, most, d).m, d.locks, x)
<1> DEFINE n == Len(bs)
<1>0. \E g : /\ IsRun(g, Len(bs), p, bs, calls, ends, most, d)
             /\ ReturnAll(p, bs, calls, ends, most, d) = g[Len(bs)]
  BY ReturnAllRuns
<1>1. PICK g : /\ IsRun(g, n, p, bs, calls, ends, most, d)
               /\ ReturnAll(p, bs, calls, ends, most, d) = g[n]
  BY <1>0
<1> DEFINE Bad == {i \in Nat : i <= n /\ ~Clear(g[i].m, d.locks, x)}
<1>2. SUFFICES ASSUME Bad # {} PROVE FALSE
  <2>1. n \in Nat /\ n <= n
    OBVIOUS
  <2> QED
    BY <1>1, <2>1, Zenon
<1>3. PICK i \in Bad : \A j \in Bad : i <= j
  BY Zenon, <1>2, LeastNumber
<1>4. i # 0
  BY <1>1, <1>3, Zenon DEF IsRun
<1>5. i \in 1..n /\ i - 1 \in Nat /\ i - 1 <= n /\ ~(i <= i - 1)
  BY <1>3, <1>4
<1>6. Clear(g[i - 1].m, d.locks, x)
  BY <1>3, <1>5, Zenon
<1> DEFINE r == [m |-> g[i - 1].m, q |-> g[i - 1].q \o calls[i]]
<1>7. r.m = g[i - 1].m
  BY Zenon
<1>8. g[i] = Return(BlockTx[bs[i]], r, ends[i], d, i <= most)
  BY <1>1, <1>5, Zenon DEF IsRun, After
<1> HIDE DEF r
<1>9. Clear(g[i].m, d.locks, x)
  BY <1>6, <1>7, <1>8, ReturnedClear, Zenon
<1> QED
  BY <1>3, <1>9, Zenon

(* The blocks to disconnect are a sequence.                                *)
LEMMA DroppedLength ==
    ASSUME NEW b
    PROVE  Len(Dropped(b)) \in Nat
<1> DEFINE D == {c \in Blocks : c \in Chain[tip] \ Chain[b]}
           f == [i \in 1..Cardinality(D) |-> CHOOSE c \in D : Height[c] = Height[tip] + 1 - i]
<1>1. D \subseteq Blocks /\ IsFiniteSet(Blocks)
  BY TreeAssumption, Zenon
<1>2. Cardinality(D) \in Nat
  BY <1>1, FS_Subset, FS_CardinalityType, Zenon
<1>3. Dropped(b) = f
  BY Zenon DEF Dropped
<1> HIDE DEF D
<1> QED
  BY <1>2, <1>3

(* UpdateMempoolForReorg keeps the mempool free of conflicts with the      *)
(* locks that are left.                                                    *)
LEMMA ReorgClear ==
    ASSUME NEW p, NEW bs, NEW b, NEW d, NEW x, Len(bs) \in Nat,
           d.locks \subseteq Locks, Clear(p.m, d.locks, x)
    PROVE  Clear(UpdateMempoolForReorg(p, bs, b, d).m, d.locks, x)
<1> DEFINE n == Len(bs)
           up == [i \in 1..n |-> bs[n + 1 - i]]
           none == [i \in 1..n |-> <<>>]
           same == [i \in 1..n |-> b]
<1>1. UpdateMempoolForReorg(p, bs, b, d) = ReturnAll(p, up, none, same, n, d)
  BY Zenon DEF UpdateMempoolForReorg
<1>2. Len(up) \in Nat
  OBVIOUS
<1> HIDE DEF up, none, same
<1> QED
  BY <1>1, <1>2, ReturnAllClear, Zenon

(* So does InvalidateBlock, which updates it block by block.               *)
LEMMA InvalidatedClear ==
    ASSUME NEW bs, NEW x, Len(bs) \in Nat, db.locks \subseteq Locks, Clear(mempool, db.locks, x)
    PROVE  Clear(InvalidateBlock(bs).m, db.locks, x)
<1> DEFINE p == [m |-> mempool, q |-> queue]
           calls == [i \in DOMAIN bs |-> <<Call("disconnected", bs[i], {})>>]
           ends == [i \in DOMAIN bs |-> Prev[bs[i]]]
<1>1. InvalidateBlock(bs) = ReturnAll(p, bs, calls, ends, 10, db)
  BY Zenon DEF InvalidateBlock
<1>2. p.m = mempool
  BY Zenon
<1> HIDE DEF p, calls, ends
<1> QED
  BY <1>1, <1>2, ReturnAllClear, Zenon
-----------------------------------------------------------------------------
(* Removing locks leaves a database with fewer of them.                    *)
LEMMA RemovedLocks ==
    ASSUME NEW d, IsDb(d), NEW L
    PROVE  IsDb(RemoveAndArchive(d, L)) /\ RemoveAndArchive(d, L).locks = d.locks \ L
<1> DEFINE e == RemoveInstantSendLocks(d, L)
<1>1. IsDb(e) /\ e.locks = d.locks \ L
  BY Zenon DEF IsDb, RemoveInstantSendLocks
<1>2. RemoveAndArchive(d, L) = [e EXCEPT !.archived = e.archived \cup L]
  BY Zenon DEF RemoveAndArchive
<1> HIDE DEF e
<1> QED
  BY <1>1, <1>2 DEF IsDb

(* RemoveConflictingLock removes locks.                                    *)
LEMMA ChainedRemoved ==
    ASSUME NEW d, IsDb(d), NEW L
    PROVE  IsDb(RemoveChained(d, L)) /\ RemoveChained(d, L).locks \subseteq d.locks
BY RemovedLocks DEF RemoveChained

(* RemoveConfirmedInstantSendLocks removes locks.                          *)
LEMMA ConfirmedRemoved ==
    ASSUME NEW d, IsDb(d), NEW h, NEW keep
    PROVE  IsDb(RemoveConfirmed(d, h, keep)) /\ RemoveConfirmed(d, h, keep).locks \subseteq d.locks
<1> DEFINE keys == {k \in d.mined : k[2] <= h}
           gone == {k[1] : k \in keys}
           e == [d EXCEPT !.locks = @ \ gone, !.cached = @ \cup (keep \cap gone \cap d.locks),
                          !.archived = @ \cup gone, !.mined = @ \ keys, !.confirmed = h]
<1>1. RemoveConfirmed(d, h, keep) = IF h <= d.confirmed THEN d ELSE e
  BY Zenon DEF RemoveConfirmed
<1> HIDE DEF keys, gone
<1>2. IsDb(e) /\ e.locks = d.locks \ gone
  BY Zenon DEF IsDb
<1> HIDE DEF e
<1> QED
  BY <1>1, <1>2, Zenon

(* What is recorded as mined does not touch the locks.                     *)
LEMMA MinedKeepsLocks ==
    ASSUME NEW d, IsDb(d), NEW S
    PROVE  IsDb([d EXCEPT !.mined = S]) /\ [d EXCEPT !.mined = S].locks = d.locks
BY DEF IsDb

(* A lock that is written is the only new one.                             *)
LEMMA WrittenLock ==
    ASSUME NEW d, IsDb(d), NEW l
    PROVE  /\ IsDb(WriteNewInstantSendLock(d, l))
           /\ WriteNewInstantSendLock(d, l).locks = d.locks \cup {l}
BY DEF IsDb, WriteNewInstantSendLock

(* The worker goes on with the lock it has in hand.                        *)
LEMMA WorkGoesOn ==
    ASSUME NEW v, IsWork(v), NEW pc
    PROVE  /\ IsWork([v EXCEPT !.pc = pc]) /\ [v EXCEPT !.pc = pc].pc = pc
           /\ [v EXCEPT !.pc = pc].lock = v.lock /\ [v EXCEPT !.pc = pc].tx = v.tx
BY DEF IsWork

(* At first and between two locks the worker has none.                     *)
LEMMA WorkerIdle ==
    IsWork(NoWork) /\ NoWork.pc = "idle" /\ NoWork.lock = None
BY Zenon DEF IsWork, NoWork
-----------------------------------------------------------------------------
(* While the worker has the same lock in hand and is as far, fewer locks   *)
(* and a clear mempool keep the invariant.                                 *)
LEMMA Shrinks ==
    ASSUME IndInv, IsDb(db'), db'.locks \subseteq db.locks,
           IsWork(w'), w'.lock = w.lock, w'.tx = w.tx,
           (w.pc = "idle") <=> (w'.pc = "idle"), w'.pc = "store" => w.pc = "store",
           Clear(mempool', db'.locks, w.lock)
    PROVE  IndInv'
<1>1. InHand'
  BY Zenon DEF IndInv, InHand
<1>2. NoMempoolConflict'
  BY Zenon DEF Clear, NoMempoolConflict
<1> QED
  BY <1>1, <1>2, Zenon DEF IndInv

(* The mempool is clear in the sense of the lemmas above.                  *)
LEMMA ClearNow ==
    ASSUME IndInv
    PROVE  /\ Clear(mempool, db.locks, w.lock) /\ IsDb(db) /\ db.locks \subseteq Locks
           /\ IsWork(w) /\ InHand
BY Zenon DEF IndInv, Clear, NoMempoolConflict
-----------------------------------------------------------------------------
(* What the mempool and the chain do.                                      *)
LEMMA EnvironmentKeeps ==
    ASSUME IndInv, Environment
    PROVE  IndInv'
<1>0. /\ Clear(mempool, db.locks, w.lock) /\ IsDb(db) /\ db.locks \subseteq Locks
      /\ IsWork(w) /\ InHand
  BY ClearNow
<1>1. ASSUME UNCHANGED <<db, w>>, Clear(mempool', db.locks, w.lock)
      PROVE  IndInv'
  BY <1>0, <1>1, Shrinks, Zenon
<1>2. ASSUME NEW t \in Txs, AcceptToMemoryPool(t)
      PROVE  IndInv'
  <2> DEFINE p == [m |-> mempool, q |-> queue]
  <2>1. /\ Acceptable(t, mempool, tip, db) /\ mempool' = Accept(t, p).m
        /\ UNCHANGED <<db, w>>
    BY <1>2, Zenon DEF AcceptToMemoryPool
  <2>2. p.m = mempool
    BY Zenon
  <2> HIDE DEF p
  <2>3. Clear(mempool', db.locks, w.lock)
    BY <1>0, <2>1, <2>2, AcceptedClear, Zenon
  <2> QED
    BY <1>1, <2>1, <2>3
<1>3. ASSUME NEW t \in Txs, Evict(t)
      PROVE  IndInv'
  <2>1. mempool' \subseteq mempool /\ UNCHANGED <<db, w>>
    BY <1>3, Zenon DEF Evict
  <2> QED
    BY <1>0, <1>1, <2>1, StaysClear, Zenon
<1>4. ASSUME NEW b \in Blocks \ {Genesis}, ActivateBestChain(b)
      PROVE  IndInv'
  <2> DEFINE t == BlockTx[b]
             bs == Dropped(b)
             beaten == IF HasChainLock(b) THEN GetConflictingLock(db, t) ELSE {}
             d == RemoveChained(db, beaten)
             p == [m |-> RemoveForBlock(t, mempool),
                   q |-> Disconnects(bs) \o Calls("removed", Conflicts(t, mempool))]
  <2>1. /\ db' = d /\ mempool' = UpdateMempoolForReorg(p, bs, b, d).m /\ w' = w
    BY <1>4, Zenon DEF ActivateBestChain
  <2>2. p.m \subseteq mempool
    <3>1. p.m = RemoveForBlock(t, mempool)
      BY Zenon
    <3> QED
      BY <3>1, Zenon DEF RemoveForBlock
  <2>3. Len(bs) \in Nat
    BY DroppedLength, Zenon
  <2>4. IsDb(d) /\ d.locks \subseteq db.locks
    BY <1>0, ChainedRemoved, Zenon
  <2> HIDE DEF t, bs, beaten, d, p
  <2>5. Clear(p.m, d.locks, w.lock) /\ d.locks \subseteq Locks
    BY <1>0, <2>2, <2>4, StaysClear, Zenon
  <2>6. Clear(mempool', d.locks, w.lock)
    BY <2>1, <2>3, <2>5, ReorgClear, Zenon
  <2> QED
    BY <1>0, <2>1, <2>4, <2>6, Shrinks, Zenon
<1>5. ASSUME NEW b \in Blocks \ {Genesis}, RejectBlock(b)
      PROVE  IndInv'
  <2> DEFINE bs == Dropped(Prev[b])
             p == [m |-> mempool, q |-> Disconnects(bs)]
  <2>1. mempool' = UpdateMempoolForReorg(p, bs, Prev[b], db).m /\ UNCHANGED <<db, w>>
    BY <1>5, Zenon DEF RejectBlock
  <2>2. p.m = mempool
    BY Zenon
  <2>3. Len(bs) \in Nat
    BY DroppedLength, Zenon
  <2> HIDE DEF bs, p
  <2>4. Clear(mempool', db.locks, w.lock)
    BY <1>0, <2>1, <2>2, <2>3, ReorgClear, Zenon
  <2> QED
    BY <1>1, <2>1, <2>4
<1>6. ASSUME UNCHANGED <<mempool, db, w>>
      PROVE  IndInv'
  BY <1>0, <1>1, <1>6, Zenon
<1>7. CASE \E b \in Blocks : NewChainLock(b)
  BY <1>6, <1>7, Zenon DEF NewChainLock
<1>8. CASE EnforceBestChainLock
  BY <1>6, <1>8, Zenon DEF EnforceBestChainLock
<1>9. CASE \E l \in Locks : ReceiveLock(l) \/ HandleNewInstantSendLockRecoveredSig(l)
  BY <1>6, <1>9, Zenon DEF ReceiveLock, HandleNewInstantSendLockRecoveredSig, chain
<1> QED
  BY <1>2, <1>3, <1>4, <1>5, <1>7, <1>8, <1>9, Zenon DEF Environment

(* What the callbacks of the validation interface do.                      *)
LEMMA CallbackKeeps ==
    ASSUME IndInv, Callback
    PROVE  IndInv'
<1>0. /\ Clear(mempool, db.locks, w.lock) /\ IsDb(db) /\ db.locks \subseteq Locks
      /\ IsWork(w) /\ InHand
  BY ClearNow
<1>1. ASSUME mempool' \subseteq mempool, IsDb(db'), db'.locks \subseteq db.locks, w' = w
      PROVE  IndInv'
  <2>1. Clear(mempool', db'.locks, w.lock)
    BY <1>0, <1>1, StaysClear, Zenon
  <2> QED
    BY <1>0, <1>1, <2>1, Shrinks, Zenon
<1>2. CASE TransactionAddedToMempool \/ Track \/ BlockConnected \/ UntrackMined
  <2>1. UNCHANGED <<mempool, db, w>>
    BY <1>2, Zenon DEF TransactionAddedToMempool, Track, BlockConnected, UntrackMined, chain
  <2> QED
    BY <1>0, <1>1, <2>1, Zenon
<1>3. CASE CleanAdded
  <2>1. mempool' \subseteq mempool /\ UNCHANGED <<db, w>>
    BY <1>3, Zenon DEF CleanAdded, RemoveMempoolConflictsForLock
  <2> QED
    BY <1>0, <1>1, <2>1, Zenon
<1>4. CASE TransactionRemovedFromMempool
  <2>1. db' = RemoveChained(db, LocksOf(db, Head(queue).x)) /\ UNCHANGED <<mempool, w>>
    BY <1>4, Zenon DEF TransactionRemovedFromMempool, chain
  <2> QED
    BY <1>0, <1>1, <2>1, ChainedRemoved, Zenon
<1>5. CASE RecordMined
  <2>1. db' = WriteMined(db, cb.tx, cb.block) /\ UNCHANGED <<mempool, w>>
    BY <1>5, Zenon DEF RecordMined, chain
  <2> QED
    BY <1>0, <1>1, <2>1, MinedKeepsLocks, Zenon DEF WriteMined
<1>6. CASE BlockDisconnected
  <2>1. db' = RemoveMined(db, BlockTx[Head(queue).x], Head(queue).x) /\ UNCHANGED <<mempool, w>>
    BY <1>6, Zenon DEF BlockDisconnected, chain
  <2> QED
    BY <1>0, <1>1, <2>1, MinedKeepsLocks, Zenon DEF RemoveMined
<1>7. CASE NotifyChainLock
  <2>1. /\ \E h, keep : db' = RemoveConfirmed(db, h, keep)
        /\ UNCHANGED <<mempool, w>>
    BY <1>7, Zenon DEF NotifyChainLock, chain
  <2> QED
    BY <1>0, <1>1, <2>1, ConfirmedRemoved, Zenon
<1> QED
  BY <1>2, <1>3, <1>4, <1>5, <1>6, <1>7, Zenon DEF Callback

(* What the worker thread does.                                            *)
LEMMA WorkerKeeps ==
    ASSUME IndInv, Worker
    PROVE  IndInv'
<1>0. /\ Clear(mempool, db.locks, w.lock) /\ IsDb(db) /\ db.locks \subseteq Locks
      /\ IsWork(w) /\ InHand
  BY ClearNow
<1>1. ASSUME NEW l \in Locks, TakeLock(l)
      PROVE  IndInv'
  <2>1. w.pc = "idle" /\ mempool' = mempool
    BY <1>1, Zenon DEF TakeLock, chain
  <2>2. CASE UNCHANGED <<w, db>>
    BY <1>0, <2>1, <2>2, Shrinks, Zenon
  <2>3. CASE ~UNCHANGED <<w, db>>
    <3> DEFINE t == LockTx[l]
               same == LocksOf(db, t)
               v == [NoWork EXCEPT !.pc = "store", !.lock = l, !.tx = TxKnown(t),
                                   !.mined = HashBlock(t)]
    <3>1. /\ ~KnownInstantSendLock(l) /\ w' = v
          /\ db' = IF l \in Deterministic THEN RemoveAndArchive(db, same) ELSE db
      BY <1>1, <2>3, Zenon DEF TakeLock
    <3>2. IsWork(v) /\ v.pc = "store" /\ v.lock = l
      <4> DEFINE known == TxKnown(t)
                 block == HashBlock(t)
      <4>1. v = [NoWork EXCEPT !.pc = "store", !.lock = l, !.tx = known, !.mined = block]
        BY Zenon
      <4> HIDE DEF known, block, v
      <4> QED
        BY <4>1, WorkerIdle DEF IsWork
    <3> HIDE DEF same, v
    <3>3. IsDb(db') /\ db'.locks \subseteq db.locks
      <4>1. IsDb(RemoveAndArchive(db, same)) /\ RemoveAndArchive(db, same).locks = db.locks \ same
        BY <1>0, RemovedLocks, Zenon
      <4>2. db' = db \/ db' = RemoveAndArchive(db, same)
        BY <3>1, Zenon
      <4> QED
        BY <1>0, <4>1, <4>2
    <3>4. l \notin db.locks
      BY <3>1, Zenon DEF KnownInstantSendLock, Visible
    <3>5. InHand'
      BY <3>1, <3>2, <3>3, <3>4 DEF InHand
    <3>6. w.lock \notin db.locks
      BY <1>0, <2>1, TreeAssumption, Zenon DEF InHand
    <3>7. NoMempoolConflict'
      BY <1>0, <2>1, <3>3, <3>6, Zenon DEF Clear, NoMempoolConflict
    <3> QED
      BY <1>0, <3>1, <3>2, <3>3, <3>5, <3>7, Zenon DEF IndInv
  <2> QED
    BY <2>2, <2>3
<1>2. CASE Store
  <2> DEFINE v == [w EXCEPT !.pc = "untrack"]
  <2>1. w.pc = "store" /\ w' = v /\ mempool' = mempool
    BY <1>2, Zenon DEF Store, chain
  <2>2. IsWork(v) /\ v.pc = "untrack" /\ v.lock = w.lock /\ v.tx = w.tx
    BY <1>0, WorkGoesOn
  <2> HIDE DEF v
  <2>3. w.lock \in Locks
    BY <1>0, <2>1 DEF InHand
  <2>4. CASE w.tx
    <3> DEFINE d == WriteNewInstantSendLock(db, w.lock)
    <3>1. db' = IF w.mined = None THEN d ELSE WriteInstantSendLockMined(d, w.lock, w.mined)
      BY <1>2, <2>4, Zenon DEF Store
    <3>2. IsDb(d) /\ d.locks = db.locks \cup {w.lock}
      BY <1>0, WrittenLock, Zenon
    <3> HIDE DEF d
    <3>3. IsDb(db') /\ db'.locks = db.locks \cup {w.lock}
      BY <3>1, <3>2, MinedKeepsLocks, Zenon DEF WriteInstantSendLockMined
    <3>4. InHand'
      BY <2>1, <2>2, <2>3, <2>4 DEF InHand
    <3>5. NoMempoolConflict'
      BY <1>0, <2>1, <2>2, <3>3, Zenon DEF Clear, NoMempoolConflict
    <3> QED
      BY <1>0, <2>1, <2>2, <2>3, <3>3, <3>4, <3>5, Zenon DEF IndInv
  <2>5. CASE ~w.tx
    <3>1. db' = db
      BY <1>2, <2>5, Zenon DEF Store
    <3>2. (w.pc = "idle") <=> (w'.pc = "idle")
      BY <2>1, <2>2
    <3>3. w'.pc # "store"
      BY <2>1, <2>2
    <3> QED
      BY <1>0, <2>1, <2>2, <3>1, <3>2, <3>3, Shrinks, Zenon
  <2> QED
    BY <2>4, <2>5
<1>3. ASSUME IsWork(w'), w'.lock = w.lock, w'.tx = w.tx, w.pc # "idle", w'.pc \notin {"idle", "store"},
             IsDb(db'), db'.locks \subseteq db.locks, Clear(mempool', db'.locks, w.lock)
      PROVE  IndInv'
  <2>1. (w.pc = "idle") <=> (w'.pc = "idle")
    BY <1>3
  <2>2. w'.pc # "store"
    BY <1>3
  <2> QED
    BY <1>0, <1>3, <2>1, <2>2, Shrinks, Zenon
<1>4. CASE Untrack
  <2>1. /\ w.pc = "untrack" /\ w' = [w EXCEPT !.pc = "resolve"] /\ UNCHANGED <<mempool, db>>
    BY <1>4, Zenon DEF Untrack, chain
  <2>2. /\ IsWork(w') /\ w'.pc = "resolve" /\ w'.lock = w.lock /\ w'.tx = w.tx
    BY <1>0, <2>1, WorkGoesOn
  <2>3. w.pc # "idle" /\ w'.pc \notin {"idle", "store"}
    BY <2>1, <2>2
  <2> QED
    BY <1>0, <1>3, <2>1, <2>2, <2>3, Zenon
<1>5. CASE Resolve
  <2> DEFINE B == BlockConflicts(w.lock)
             pc == IF B = {} THEN "clean" ELSE "invalidate"
  <2>1. w.pc = "resolve" /\ mempool' = mempool
    BY <1>5, Zenon DEF Resolve, chain
  <2>2. \/ db' = RemoveChained(db, {w.lock}) /\ w' = [w EXCEPT !.pc = "clean"]
        \/ /\ db' = db
           /\ w' = [w EXCEPT !.pc = pc, !.blocks = B, !.known = w.lock \notin pendingNoTx]
    BY <1>5, Zenon DEF Resolve
  <2>3. pc \in {"clean", "invalidate"}
    BY Zenon
  <2> HIDE DEF B, pc
  <2>4. IsDb(db') /\ db'.locks \subseteq db.locks
    <3>1. db' = db \/ db' = RemoveChained(db, {w.lock})
      BY <2>2, Zenon
    <3> QED
      BY <1>0, <3>1, ChainedRemoved
  <2>5. /\ IsWork(w') /\ w'.pc \in {"clean", "invalidate"} /\ w'.lock = w.lock /\ w'.tx = w.tx
    <3> DEFINE k == w.lock \notin pendingNoTx
    <3>1. CASE w' = [w EXCEPT !.pc = "clean"]
      BY <1>0, <3>1, WorkGoesOn
    <3>2. CASE w' = [w EXCEPT !.pc = pc, !.blocks = B, !.known = k]
      <4> HIDE DEF k
      <4>1. IsWork(w') /\ w'.pc = pc /\ w'.lock = w.lock /\ w'.tx = w.tx
        BY <1>0, <3>2 DEF IsWork
      <4> QED
        BY <2>3, <4>1, Zenon
    <3> QED
      BY <2>2, <3>1, <3>2, Zenon
  <2>6. Clear(mempool', db'.locks, w.lock)
    BY <1>0, <2>1, <2>4, StaysClear, Zenon
  <2>7. w.pc # "idle" /\ w'.pc \notin {"idle", "store"}
    BY <2>1, <2>5
  <2> QED
    BY <1>3, <2>4, <2>5, <2>6, <2>7, Zenon
<1>6. ASSUME NEW b \in Blocks, Invalidate(b)
      PROVE  IndInv'
  <2> DEFINE bs == Dropped(Prev[b])
             B == w.blocks \ {b}
             pc == IF w.blocks = {b} THEN "clean" ELSE w.pc
  <2>1. /\ w.pc = "invalidate" /\ db' = db
        /\ mempool' = mempool \/ mempool' = InvalidateBlock(bs).m
        /\ w' = [w EXCEPT !.blocks = B, !.pc = pc]
    BY <1>6, Zenon DEF Invalidate
  <2>2. Len(bs) \in Nat
    BY DroppedLength, Zenon
  <2>3. pc \in {"clean", "invalidate"}
    BY <2>1, Zenon
  <2> HIDE DEF bs, B, pc
  <2>4. Clear(mempool', db'.locks, w.lock)
    BY <1>0, <2>1, <2>2, InvalidatedClear, Zenon
  <2>5. /\ IsWork(w') /\ w'.pc = pc /\ w'.lock = w.lock /\ w'.tx = w.tx
    BY <1>0, <2>1 DEF IsWork
  <2>6. w.pc # "idle" /\ w'.pc \notin {"idle", "store"}
    BY <2>1, <2>3, <2>5
  <2> QED
    BY <1>0, <1>3, <2>1, <2>4, <2>5, <2>6, Zenon
<1>7. CASE Clean
  <2>1. w.pc = "clean" /\ db' = db /\ w' = NoWork
    BY <1>7, Zenon DEF Clean
  <2>2. IsWork(NoWork) /\ NoWork.pc = "idle" /\ NoWork.lock = None
    BY WorkerIdle
  <2>3. None \notin db.locks
    BY <1>0, TreeAssumption, Zenon
  <2>4. InHand'
    BY <2>1, <2>2, <2>3, Zenon DEF InHand
  <2>5. mempool' \subseteq mempool
    BY <1>7, Zenon DEF Clean, RemoveMempoolConflictsForLock
  <2>6. ASSUME NEW l \in db.locks PROVE Rivals[LockTx[l]] \cap mempool' = {}
    <3>1. CASE l # w.lock
      BY <1>0, <2>5, <3>1, Zenon DEF Clear
    <3>2. CASE l = w.lock
      <4> DEFINE R == Rivals[LockTx[l]]
                 T == R \cap mempool
      <4>1. w.tx
        BY <1>0, <3>2, Zenon DEF InHand
      <4>2. mempool' = mempool \ WithKids(T, mempool)
        BY <1>7, <3>2, <4>1, Zenon DEF Clean, RemoveMempoolConflictsForLock
      <4>3. \A t \in R : t \in Txs
        BY <1>0, RivalsOfEachOther, Zenon
      <4> HIDE DEF R
      <4>4. ASSUME NEW t \in T PROVE t \in Family[t]
        <5>1. t \in Txs
          BY <4>3, <4>4, Zenon
        <5> QED
          BY <5>1, TreeAssumption, Zenon DEF Family
      <4>5. T \subseteq WithKids(T, mempool)
        BY <4>4, Zenon DEF WithKids
      <4>6. R \cap mempool' = {}
        BY <4>2, <4>5, Zenon
      <4> QED
        BY <4>6 DEF R
    <3> QED
      BY <3>1, <3>2
  <2>7. NoMempoolConflict'
    BY <2>1, <2>6, Zenon DEF NoMempoolConflict
  <2> QED
    BY <1>0, <2>1, <2>2, <2>4, <2>7, Zenon DEF IndInv
<1>8. CASE ProcessPendingRetryLockTxs
  <2>1. UNCHANGED <<mempool, db, w>>
    BY <1>8, Zenon DEF ProcessPendingRetryLockTxs, chain
  <2> QED
    BY <1>0, <2>1, Shrinks, Zenon
<1> QED
  BY <1>1, <1>2, <1>4, <1>5, <1>6, <1>7, <1>8, Zenon DEF Worker
-----------------------------------------------------------------------------
(* The inductive invariant of the InstantSend manager.                     *)
THEOREM LocksInvariant == Spec => []IndInv
<1>1. Init => IndInv
  <2> SUFFICES ASSUME Init PROVE IndInv
    OBVIOUS
  <2>1. IsDb(db) /\ db.locks = {}
    BY DEF Init, IsDb
  <2>2. IsWork(w) /\ w.pc = "idle" /\ w.lock = None
    BY WorkerIdle DEF Init
  <2> QED
    BY <2>1, <2>2 DEF IndInv, InHand, NoMempoolConflict
<1>2. IndInv /\ [Next]_vars => IndInv'
  <2> SUFFICES ASSUME IndInv, [Next]_vars PROVE IndInv'
    OBVIOUS
  <2>1. CASE Next
    BY <2>1, EnvironmentKeeps, WorkerKeeps, CallbackKeeps, Zenon DEF Next
  <2>2. CASE UNCHANGED vars
    <3>1. UNCHANGED <<mempool, db, w>>
      BY <2>2, Zenon DEF vars, chain
    <3> QED
      BY <3>1, ClearNow, Shrinks, Zenon
  <2> QED
    BY <2>1, <2>2
<1> QED
  BY <1>1, <1>2, PTL DEF Spec

(* ProcessInstantSendLock, AcceptToMemoryPool and UpdateMempoolForReorg:   *)
(* whatever the worker, the callbacks, reorganisations, evictions and      *)
(* ChainLocks do, the mempool has no transaction that conflicts with a     *)
(* lock in the database, but for the one that the worker is busy with.     *)
THEOREM NoMempoolConflictHolds == Spec => []NoMempoolConflict
<1>1. IndInv => NoMempoolConflict
  BY DEF IndInv
<1> QED
  BY <1>1, LocksInvariant, PTL
-----------------------------------------------------------------------------
(***************************************************************************)
(* The queue that the callbacks of the validation interface come through,  *)
(* for any number of service threads, callers and callbacks and any limit. *)
(* InstantSend has its callbacks one at a time and in order; this is what  *)
(* SchedulerClient shows of them, as an instance of its own, and what it   *)
(* assumes of its constants is a hypothesis.                               *)
(*                                                                         *)
(* The inductive invariant is QueueInv: the types, OneAtATime (the flag is *)
(* set exactly while one process is between taking a callback and clearing *)
(* the flag), NeverStalls, and CallersGone, which says that nobody but the *)
(* shutdown adds callbacks once it has begun. The refinement mapping takes *)
(* the callback that some process runs for the current one, which is well  *)
(* defined by OneAtATime.                                                  *)
(***************************************************************************)
CONSTANTS Threads, Callers, Activator, Main, Callbacks, Markers, Flushed, Limit
VARIABLES taskQueue, stopRequested, waiting, callbacksRunning, pc, running, done

SC == INSTANCE SchedulerClient WITH pending <- waiting, cb <- running

(* Once the shutdown has begun the callers have stopped.                   *)
CallersGone == pc[Main] # "run" => \A t \in Callers : pc[t] = "idle"

QueueInv == SC!TypeOK /\ SC!OneAtATime /\ SC!NeverStalls /\ CallersGone /\ SC!ShutdownDrains

(* AddToProcessQueue of a process that is not in a callback keeps the      *)
(* types.                                                                  *)
LEMMA AddType ==
    ASSUME SC!TypeOK, NEW t \in SC!Procs, NEW c \in Callbacks, SC!AddToProcessQueue(t, c)
    PROVE  SC!TypeOK'
BY DEF SC!TypeOK, SC!AddToProcessQueue, SC!Goto, SC!Pcs

(* Where a process goes on after ProcessQueue or a call of                 *)
(* AddToProcessQueue.                                                      *)
LEMMA ReturnPcs == \A t \in SC!Procs : SC!Return(t) \in {"wait", "empty", "future", "idle"}
BY DEF SC!Return

(* The types are preserved by every step of the queue.                     *)
LEMMA QueueTypeStep ==
    ASSUME SC!ProcsAssumption
    PROVE  SC!TypeOK /\ [SC!Next]_SC!vars => SC!TypeOK'
<1> SUFFICES ASSUME SC!TypeOK, [SC!Next]_SC!vars PROVE SC!TypeOK'
    OBVIOUS
<1> USE SC!ProcsAssumption DEF SC!ProcsAssumption
<1>1. ASSUME NEW t \in SC!Procs, SC!TakeTask(t) PROVE SC!TypeOK'
    BY <1>1 DEF SC!TypeOK, SC!TakeTask, SC!Goto, SC!Pcs
<1>2. ASSUME NEW t \in SC!Procs, SC!Exit(t) PROVE SC!TypeOK'
    BY <1>2 DEF SC!TypeOK, SC!Exit, SC!Goto, SC!Pcs
<1>3. ASSUME NEW t \in SC!Procs, SC!ProcessQueue(t) PROVE SC!TypeOK'
    <2>1. CASE callbacksRunning \/ waiting = <<>>
        BY <1>3, <2>1, ReturnPcs DEF SC!TypeOK, SC!ProcessQueue, SC!Goto, SC!Pcs
    <2>2. CASE ~(callbacksRunning \/ waiting = <<>>)
        <3>1. Head(waiting) \in Callbacks /\ Tail(waiting) \in Seq(Callbacks)
            BY <2>2 DEF SC!TypeOK
        <3> QED BY Zenon, <1>3, <2>2, <3>1 DEF SC!TypeOK, SC!ProcessQueue, SC!Goto, SC!Pcs
    <2> QED BY <2>1, <2>2
<1>4. ASSUME NEW t \in SC!Procs, SC!RunCallback(t) PROVE SC!TypeOK'
    BY <1>4 DEF SC!TypeOK, SC!RunCallback, SC!Goto, SC!Pcs
<1>5. ASSUME NEW t \in SC!Procs, SC!ClearRunning(t) PROVE SC!TypeOK'
    BY <1>5 DEF SC!TypeOK, SC!ClearRunning, SC!Goto, SC!Pcs
<1>6. ASSUME NEW t \in SC!Procs, SC!MaybeScheduleProcessQueue(t) PROVE SC!TypeOK'
    BY <1>6, ReturnPcs DEF SC!TypeOK, SC!MaybeScheduleProcessQueue, SC!Goto, SC!Pcs
<1>7. ASSUME NEW t \in SC!Procs, SC!Schedule(t) PROVE SC!TypeOK'
    BY <1>7, ReturnPcs DEF SC!TypeOK, SC!Schedule, SC!Goto, SC!Pcs
<1>8. ASSUME NEW t \in Callers, SC!CallStep(t) PROVE SC!TypeOK'
    <2>1. t \in SC!Procs
        BY DEF SC!Procs
    <2>2. CASE SC!Call(t)
        BY <2>1, <2>2 DEF SC!TypeOK, SC!Call, SC!Goto, SC!Pcs
    <2>3. CASE SC!FutureReady(t)
        BY <2>1, <2>3 DEF SC!TypeOK, SC!FutureReady, SC!Goto, SC!Pcs
    <2>4. CASE SC!Skip(t)
        BY <2>1, <2>4 DEF SC!TypeOK, SC!Skip, SC!Goto, SC!Pcs
    <2>5. CASE \E c \in Callbacks : SC!Notify(t, c) \/ SC!Sync(t, c)
        BY <2>1, <2>5, AddType DEF SC!Notify, SC!Sync
    <2> QED BY <1>8, <2>2, <2>3, <2>4, <2>5 DEF SC!CallStep
<1>9. ASSUME SC!Shutdown PROVE SC!TypeOK'
    <2>1. Main \in SC!Procs
        BY DEF SC!Procs
    <2>2. CASE SC!Stop
        BY <2>1, <2>2 DEF SC!TypeOK, SC!Stop, SC!Goto, SC!Pcs
    <2>3. CASE SC!Join
        BY <2>1, <2>3 DEF SC!TypeOK, SC!Join, SC!Goto, SC!Pcs
    <2>4. CASE SC!EmptyQueue
        BY <2>1, <2>4 DEF SC!TypeOK, SC!EmptyQueue, SC!Goto, SC!Pcs
    <2>5. CASE SC!Flush
        BY <2>1, <2>5, AddType DEF SC!Flush
    <2> QED BY <1>9, <2>2, <2>3, <2>4, <2>5 DEF SC!Shutdown
<1>10. CASE UNCHANGED SC!vars
    BY <1>10 DEF SC!vars, SC!TypeOK
<1> QED BY <1>1, <1>2, <1>3, <1>4, <1>5, <1>6, <1>7, <1>8, <1>9, <1>10 DEF SC!Next, SC!Serve

(* At most one callback runs, and the flag says so.                        *)
LEMMA OneStep == SC!TypeOK /\ SC!OneAtATime /\ [SC!Next]_SC!vars => SC!OneAtATime'
<1> SUFFICES ASSUME SC!TypeOK, SC!OneAtATime, [SC!Next]_SC!vars PROVE SC!OneAtATime'
    OBVIOUS
<1>0. pc \in [SC!Procs -> SC!Pcs] /\ callbacksRunning \in BOOLEAN
    BY DEF SC!TypeOK
<1>1. ASSUME NEW t \in SC!Procs, SC!TakeTask(t) PROVE SC!OneAtATime'
    BY <1>0, <1>1 DEF SC!OneAtATime, SC!TakeTask, SC!Goto
<1>2. ASSUME NEW t \in SC!Procs, SC!Exit(t) PROVE SC!OneAtATime'
    BY <1>0, <1>2 DEF SC!OneAtATime, SC!Exit, SC!Goto
<1>3. ASSUME NEW t \in SC!Procs, SC!ProcessQueue(t) PROVE SC!OneAtATime'
    <2>1. CASE callbacksRunning \/ waiting = <<>>
        BY <1>0, <1>3, <2>1, ReturnPcs DEF SC!OneAtATime, SC!ProcessQueue, SC!Goto
    <2>2. CASE ~(callbacksRunning \/ waiting = <<>>)
        BY <1>0, <1>3, <2>2 DEF SC!OneAtATime, SC!ProcessQueue, SC!Goto
    <2> QED BY <2>1, <2>2
<1>4. ASSUME NEW t \in SC!Procs, SC!RunCallback(t) PROVE SC!OneAtATime'
    BY <1>0, <1>4 DEF SC!OneAtATime, SC!RunCallback, SC!Goto
<1>5. ASSUME NEW t \in SC!Procs, SC!ClearRunning(t) PROVE SC!OneAtATime'
    BY <1>0, <1>5 DEF SC!OneAtATime, SC!ClearRunning, SC!Goto
<1>6. ASSUME NEW t \in SC!Procs, SC!MaybeScheduleProcessQueue(t) PROVE SC!OneAtATime'
    BY <1>0, <1>6, ReturnPcs DEF SC!OneAtATime, SC!MaybeScheduleProcessQueue, SC!Goto
<1>7. ASSUME NEW t \in SC!Procs, SC!Schedule(t) PROVE SC!OneAtATime'
    BY <1>0, <1>7, ReturnPcs DEF SC!OneAtATime, SC!Schedule, SC!Goto
<1>8. ASSUME NEW t \in Callers, SC!CallStep(t) PROVE SC!OneAtATime'
    <2>1. t \in SC!Procs
        BY DEF SC!Procs
    <2>2. CASE SC!Call(t)
        BY <1>0, <2>1, <2>2 DEF SC!OneAtATime, SC!Call, SC!Goto
    <2>3. CASE SC!FutureReady(t)
        BY <1>0, <2>1, <2>3 DEF SC!OneAtATime, SC!FutureReady, SC!Goto
    <2>4. CASE SC!Skip(t)
        BY <1>0, <2>1, <2>4 DEF SC!OneAtATime, SC!Skip, SC!Goto
    <2>5. CASE \E c \in Callbacks : SC!Notify(t, c) \/ SC!Sync(t, c)
        BY <1>0, <2>1, <2>5 DEF SC!OneAtATime, SC!Notify, SC!Sync, SC!AddToProcessQueue, SC!Goto
    <2> QED BY <1>8, <2>2, <2>3, <2>4, <2>5 DEF SC!CallStep
<1>9. ASSUME SC!Shutdown PROVE SC!OneAtATime'
    <2>1. Main \in SC!Procs
        BY DEF SC!Procs
    <2> QED BY <1>0, <1>9, <2>1
            DEF SC!OneAtATime, SC!Shutdown, SC!Stop, SC!Join, SC!EmptyQueue, SC!Flush,
                SC!AddToProcessQueue, SC!Goto
<1>10. CASE UNCHANGED SC!vars
    BY <1>10 DEF SC!vars, SC!OneAtATime
<1> QED BY <1>1, <1>2, <1>3, <1>4, <1>5, <1>6, <1>7, <1>8, <1>9, <1>10 DEF SC!Next, SC!Serve

(* With callbacks pending somebody is on the way to ProcessQueue.          *)
LEMMA StallStep ==
    ASSUME SC!ProcsAssumption
    PROVE  SC!TypeOK /\ SC!OneAtATime /\ SC!NeverStalls /\ [SC!Next]_SC!vars => SC!NeverStalls'
<1> SUFFICES ASSUME SC!TypeOK, SC!OneAtATime, SC!NeverStalls, [SC!Next]_SC!vars PROVE SC!NeverStalls'
    OBVIOUS
<1>0. pc \in [SC!Procs -> SC!Pcs] /\ taskQueue \in Nat /\ waiting \in Seq(Callbacks)
    BY DEF SC!TypeOK
<1>1. ASSUME NEW t \in SC!Procs, SC!TakeTask(t) PROVE SC!NeverStalls'
    BY <1>0, <1>1 DEF SC!NeverStalls, SC!TakeTask, SC!Goto
<1>2. ASSUME NEW t \in SC!Procs, SC!Exit(t) PROVE SC!NeverStalls'
    BY <1>0, <1>2, SC!ProcsAssumption DEF SC!ProcsAssumption, SC!NeverStalls, SC!Exit, SC!Goto
<1>3. ASSUME NEW t \in SC!Procs, SC!ProcessQueue(t) PROVE SC!NeverStalls'
    <2>1. CASE callbacksRunning
        <3>1. PICK u \in SC!Procs : pc[u] \in {"callback", "finish"}
            BY <2>1 DEF SC!OneAtATime
        <3>2. u # t /\ pc'[u] = pc[u]
            BY <1>0, <1>3, <2>1, <3>1 DEF SC!ProcessQueue, SC!Goto
        <3> QED BY <3>1, <3>2 DEF SC!NeverStalls
    <2>2. CASE ~callbacksRunning /\ waiting = <<>>
        BY <1>3, <2>2 DEF SC!NeverStalls, SC!ProcessQueue
    <2>3. CASE ~callbacksRunning /\ waiting # <<>>
        BY <1>0, <1>3, <2>3 DEF SC!NeverStalls, SC!ProcessQueue, SC!Goto
    <2> QED BY <2>1, <2>2, <2>3
<1>4. ASSUME NEW t \in SC!Procs, SC!RunCallback(t) PROVE SC!NeverStalls'
    BY <1>0, <1>4 DEF SC!NeverStalls, SC!RunCallback, SC!Goto
<1>5. ASSUME NEW t \in SC!Procs, SC!ClearRunning(t) PROVE SC!NeverStalls'
    BY <1>0, <1>5 DEF SC!NeverStalls, SC!ClearRunning, SC!Goto
<1>6. ASSUME NEW t \in SC!Procs, SC!MaybeScheduleProcessQueue(t) PROVE SC!NeverStalls'
    <2>1. CASE callbacksRunning
        <3>1. PICK u \in SC!Procs : pc[u] \in {"callback", "finish"}
            BY <2>1 DEF SC!OneAtATime
        <3>2. u # t /\ pc'[u] = pc[u]
            BY <1>0, <1>6, <2>1, <3>1 DEF SC!MaybeScheduleProcessQueue, SC!Goto
        <3> QED BY <3>1, <3>2 DEF SC!NeverStalls
    <2>2. CASE ~callbacksRunning /\ waiting = <<>>
        BY <1>6, <2>2 DEF SC!NeverStalls, SC!MaybeScheduleProcessQueue
    <2>3. CASE ~callbacksRunning /\ waiting # <<>>
        BY <1>0, <1>6, <2>3 DEF SC!NeverStalls, SC!MaybeScheduleProcessQueue, SC!Goto
    <2> QED BY <2>1, <2>2, <2>3
<1>7. ASSUME NEW t \in SC!Procs, SC!Schedule(t) PROVE SC!NeverStalls'
    BY <1>0, <1>7 DEF SC!NeverStalls, SC!Schedule
<1>8. ASSUME NEW t \in Callers, SC!CallStep(t) PROVE SC!NeverStalls'
    <2>1. t \in SC!Procs /\ t # Main
        BY SC!ProcsAssumption DEF SC!ProcsAssumption, SC!Procs
    <2>2. CASE SC!Call(t) \/ SC!FutureReady(t) \/ SC!Skip(t)
        <3>1. pc[t] \in {"idle", "future", "notify", "sync"}
            BY <2>2 DEF SC!Call, SC!FutureReady, SC!Skip
        <3>2. \A u \in SC!Procs : u # t => pc'[u] = pc[u]
            BY <1>0, <2>1, <2>2 DEF SC!Call, SC!FutureReady, SC!Skip, SC!Goto
        <3>3. waiting' = waiting /\ taskQueue' = taskQueue /\ Main \in SC!Procs
            BY <2>2 DEF SC!Call, SC!FutureReady, SC!Skip, SC!Procs
        <3> QED BY <2>1, <3>1, <3>2, <3>3 DEF SC!NeverStalls
    <2>3. CASE \E c \in Callbacks : SC!Notify(t, c) \/ SC!Sync(t, c)
        BY <1>0, <2>1, <2>3 DEF SC!NeverStalls, SC!Notify, SC!Sync, SC!AddToProcessQueue, SC!Goto
    <2> QED BY <1>8, <2>2, <2>3 DEF SC!CallStep
<1>9. ASSUME SC!Shutdown PROVE SC!NeverStalls'
    <2>1. Main \in SC!Procs
        BY DEF SC!Procs
    <2>2. CASE SC!Stop
        <3>1. \A u \in SC!Procs : pc[u] # "run" => pc'[u] = pc[u]
            BY <1>0, <2>1, <2>2 DEF SC!Stop, SC!Goto
        <3>2. pc[Main] = "run" /\ waiting' = waiting /\ taskQueue' = taskQueue
            BY <2>2 DEF SC!Stop
        <3> QED BY <3>1, <3>2 DEF SC!NeverStalls
    <2>3. CASE SC!Join
        BY <1>0, <2>1, <2>3 DEF SC!NeverStalls, SC!Join, SC!Goto
    <2>4. CASE SC!EmptyQueue
        BY <1>0, <2>1, <2>4 DEF SC!NeverStalls, SC!EmptyQueue, SC!Goto
    <2>5. CASE SC!Flush
        BY <1>0, <2>1, <2>5 DEF SC!NeverStalls, SC!Flush, SC!AddToProcessQueue, SC!Goto
    <2> QED BY <1>9, <2>2, <2>3, <2>4, <2>5 DEF SC!Shutdown
<1>10. CASE UNCHANGED SC!vars
    BY <1>10 DEF SC!vars, SC!NeverStalls
<1> QED BY <1>1, <1>2, <1>3, <1>4, <1>5, <1>6, <1>7, <1>8, <1>9, <1>10 DEF SC!Next, SC!Serve

(* Nobody but the shutdown is active once it has begun, and when it is     *)
(* over the queue is empty.                                                *)
LEMMA DrainStep ==
    ASSUME SC!ProcsAssumption
    PROVE  SC!TypeOK /\ CallersGone /\ SC!ShutdownDrains /\ [SC!Next]_SC!vars
           => CallersGone' /\ SC!ShutdownDrains'
<1> SUFFICES ASSUME SC!TypeOK, CallersGone, SC!ShutdownDrains, [SC!Next]_SC!vars
             PROVE  CallersGone' /\ SC!ShutdownDrains'
    OBVIOUS
<1>0. pc \in [SC!Procs -> SC!Pcs] /\ Main \in SC!Procs /\ Callers \subseteq SC!Procs
    BY DEF SC!TypeOK, SC!Procs
<1>a. waiting \in Seq(Callbacks) /\ done \in Seq(Callbacks)
    BY DEF SC!TypeOK
<1>b. \A c : SC!Elements(done) \subseteq SC!Elements(Append(done, c))
    BY <1>a DEF SC!Elements
<1> USE SC!ProcsAssumption DEF SC!ProcsAssumption
<1>1. ASSUME NEW t \in SC!Procs, SC!Serve(t) PROVE CallersGone' /\ SC!ShutdownDrains'
    <2>1. pc[t] \notin {"run", "idle", "off"}
        BY <1>1 DEF SC!Serve, SC!TakeTask, SC!Exit, SC!ProcessQueue, SC!RunCallback, SC!ClearRunning,
                    SC!MaybeScheduleProcessQueue, SC!Schedule
    <2>2. PICK p \in SC!Pcs \ {"run", "off"} : pc' = [pc EXCEPT ![t] = p]
        BY <1>1, ReturnPcs DEF SC!Serve, SC!TakeTask, SC!Exit, SC!ProcessQueue, SC!RunCallback,
             SC!ClearRunning, SC!MaybeScheduleProcessQueue, SC!Schedule, SC!Goto, SC!Pcs
    <2>3. CallersGone'
        BY <1>0, <2>1, <2>2 DEF CallersGone
    <2>4. waiting = <<>> => waiting' = waiting
        BY <1>1 DEF SC!Serve, SC!TakeTask, SC!Exit, SC!ProcessQueue, SC!RunCallback,
             SC!ClearRunning, SC!MaybeScheduleProcessQueue, SC!Schedule
    <2>5. SC!Elements(done) \subseteq SC!Elements(done')
        <3>1. CASE SC!RunCallback(t)
            BY <1>b, <3>1 DEF SC!RunCallback
        <3>2. CASE ~SC!RunCallback(t)
            BY <1>1, <3>2 DEF SC!Serve, SC!TakeTask, SC!Exit, SC!ProcessQueue,
                 SC!ClearRunning, SC!MaybeScheduleProcessQueue, SC!Schedule
        <3> QED BY <3>1, <3>2
    <2>6. pc'[Main] = "off" => pc[Main] = "off"
        BY <1>0, <2>2
    <2> QED BY <2>3, <2>4, <2>5, <2>6 DEF SC!ShutdownDrains
<1>2. ASSUME NEW t \in Callers, SC!CallStep(t) PROVE CallersGone' /\ SC!ShutdownDrains'
    <2>1. pc[Main] = "run" /\ t # Main
        BY <1>2 DEF SC!CallStep, CallersGone, SC!Call, SC!FutureReady, SC!Skip, SC!Notify, SC!Sync
    <2>2. pc'[Main] = pc[Main]
        BY <1>0, <1>2, <2>1 DEF SC!CallStep, SC!Call, SC!FutureReady, SC!Skip, SC!Notify, SC!Sync,
             SC!AddToProcessQueue, SC!Goto
    <2> QED BY <2>1, <2>2 DEF CallersGone, SC!ShutdownDrains
<1>3. ASSUME SC!Shutdown PROVE CallersGone' /\ SC!ShutdownDrains'
    <2>1. CASE SC!Stop
        BY <1>0, <2>1 DEF SC!Stop, SC!Goto, CallersGone, SC!ShutdownDrains
    <2>2. CASE SC!Join
        BY <1>0, <2>2 DEF SC!Join, SC!Goto, CallersGone, SC!ShutdownDrains
    <2>3. CASE SC!EmptyQueue
        BY <1>0, <2>3 DEF SC!EmptyQueue, SC!Goto, CallersGone, SC!ShutdownDrains
    <2>4. CASE SC!Flush
        BY <1>0, <2>4 DEF SC!Flush, SC!AddToProcessQueue, SC!Goto, CallersGone, SC!ShutdownDrains
    <2> QED BY <1>3, <2>1, <2>2, <2>3, <2>4 DEF SC!Shutdown
<1>4. CASE UNCHANGED SC!vars
    BY <1>4 DEF SC!vars, CallersGone, SC!ShutdownDrains
<1> QED BY <1>1, <1>2, <1>3, <1>4 DEF SC!Next

(* The queue starts empty, with every process before its first step.       *)
LEMMA QueueInit ==
    ASSUME SC!ProcsAssumption
    PROVE  SC!Init => QueueInv
<1> SUFFICES ASSUME SC!Init PROVE QueueInv
    OBVIOUS
<1> USE SC!ProcsAssumption DEF SC!ProcsAssumption
<1>1. SC!TypeOK
    <2>1. pc \in [SC!Procs -> SC!Pcs] /\ \A t \in SC!Procs : pc[t] # "callback"
        BY DEF SC!Init, SC!Pcs
    <2>2. running \in [SC!Procs -> Callbacks \cup {None}]
        BY DEF SC!Init
    <2>3. waiting \in Seq(Callbacks) /\ done \in Seq(Callbacks)
        BY DEF SC!Init
    <2>4. taskQueue \in Nat /\ stopRequested \in BOOLEAN /\ callbacksRunning \in BOOLEAN
        BY Zenon DEF SC!Init
    <2> QED BY <2>1, <2>2, <2>3, <2>4 DEF SC!TypeOK
<1>2. SC!OneAtATime
    BY DEF SC!Init, SC!OneAtATime, SC!Procs
<1>3. SC!NeverStalls /\ CallersGone /\ SC!ShutdownDrains
    BY DEF SC!Init, SC!NeverStalls, CallersGone, SC!ShutdownDrains, SC!Procs
<1> QED BY <1>1, <1>2, <1>3 DEF QueueInv

(* The inductive invariant of the callback queue.                          *)
THEOREM QueueInvariant ==
    ASSUME SC!ProcsAssumption
    PROVE  SC!Spec => []QueueInv
<1>1. QueueInv /\ [SC!Next]_SC!vars => QueueInv'
    BY QueueTypeStep, OneStep, StallStep, DrainStep DEF QueueInv
<1> QED BY <1>1, QueueInit, PTL DEF SC!Spec

(* No two callbacks of the validation interface run at the same time, with *)
(* any number of threads in serviceQueue (ProcessQueue).                   *)
THEOREM CallbacksRunOneAtATime ==
    ASSUME SC!ProcsAssumption
    PROVE  SC!Spec => []SC!OneAtATime
<1>1. QueueInv => SC!OneAtATime
    BY DEF QueueInv
<1> QED BY <1>1, QueueInvariant, PTL

(* MaybeScheduleProcessQueue never leaves callbacks without a call of      *)
(* ProcessQueue to come.                                                   *)
THEOREM QueueNeverStalls ==
    ASSUME SC!ProcsAssumption
    PROVE  SC!Spec => []SC!NeverStalls
<1>1. QueueInv => SC!NeverStalls
    BY DEF QueueInv
<1> QED BY <1>1, QueueInvariant, PTL

(* After PrepareShutdown's calls of FlushBackgroundCallbacks no callback   *)
(* is left.                                                                *)
THEOREM ShutdownLeavesNothing ==
    ASSUME SC!ProcsAssumption
    PROVE  SC!Spec => []SC!ShutdownDrains
<1>1. QueueInv => SC!ShutdownDrains
    BY DEF QueueInv
<1> QED BY <1>1, QueueInvariant, PTL
-----------------------------------------------------------------------------
(* While no process is in a callback nothing is current.                   *)
LEMMA CurrentNone == SC!InCallback = {} => SC!Current = None
BY DEF SC!Current

(* The callback of the only process in one is current.                     *)
LEMMA CurrentIs == ASSUME NEW t \in SC!Procs, SC!InCallback = {t} PROVE SC!Current = running[t]
BY DEF SC!Current

(* Whoever is in a callback is there alone.                                *)
LEMMA InCallbackOne ==
    ASSUME SC!OneAtATime, NEW t \in SC!Procs, pc[t] = "callback" PROVE SC!InCallback = {t}
BY DEF SC!OneAtATime, SC!InCallback

(* A step that neither puts a process into a callback nor takes one out,   *)
(* and does not touch the callback of one that is in it.                   *)
LEMMA CurrentSame ==
    ASSUME \A t \in SC!Procs : pc'[t] = "callback" <=> pc[t] = "callback",
           \A t \in SC!InCallback : running'[t] = running[t],
           SC!OneAtATime
    PROVE  SC!Current' = SC!Current
<1>1. SC!InCallback' = SC!InCallback
    BY DEF SC!InCallback
<1>2. CASE SC!InCallback = {}
    BY <1>1, <1>2 DEF SC!Current
<1>3. CASE SC!InCallback # {}
    <2>1. PICK t \in SC!Procs : SC!InCallback = {t}
        BY <1>3, InCallbackOne DEF SC!InCallback
    <2>2. SC!Current = running[t] /\ SC!Current' = running'[t]
        BY <1>1, <2>1 DEF SC!Current
    <2> QED BY <2>1, <2>2
<1> QED BY <1>2, <1>3

(* AddToProcessQueue is Add of the ordered callbacks.                      *)
LEMMA AddRefines ==
    ASSUME SC!ProcsAssumption, QueueInv, NEW t \in SC!Procs, NEW c \in Callbacks,
           SC!AddToProcessQueue(t, c),
           pc[t] \in {"notify", "sync", "flush"}
    PROVE  SC!OC!Add(c)
<1>1. pc \in [SC!Procs -> SC!Pcs] /\ running \in [SC!Procs -> Callbacks \cup {None}] /\ SC!OneAtATime
    BY DEF QueueInv, SC!TypeOK
<1>2. \A u \in SC!Procs : pc'[u] = "callback" <=> pc[u] = "callback"
    BY <1>1 DEF SC!AddToProcessQueue, SC!Goto
<1>3. \A u \in SC!InCallback : running'[u] = running[u]
    BY <1>1 DEF SC!AddToProcessQueue, SC!InCallback
<1>4. SC!Current' = SC!Current
    BY <1>1, <1>2, <1>3, CurrentSame
<1>5. c # SC!Current
    <2>1. CASE SC!InCallback = {}
        BY <2>1, CurrentNone, SC!ProcsAssumption DEF SC!ProcsAssumption
    <2>2. CASE SC!InCallback # {}
        <3>1. PICK u \in SC!Procs : SC!InCallback = {u} /\ pc[u] = "callback"
            BY <1>1, <2>2, InCallbackOne DEF SC!InCallback
        <3>2. running[u] \in SC!Added
            BY <3>1 DEF SC!Added
        <3> QED BY <3>1, <3>2, CurrentIs DEF SC!AddToProcessQueue
    <2> QED BY <2>1, <2>2
<1>6. c \notin SC!Elements(waiting) /\ c \notin SC!Elements(done)
    BY DEF SC!AddToProcessQueue, SC!Added
<1> QED BY <1>4, <1>5, <1>6 DEF SC!AddToProcessQueue, SC!OC!Add, SC!OC!Elements, SC!Elements

(* Every step of the queue is a step of the ordered callbacks or none.     *)
LEMMA StepRefines ==
    ASSUME SC!ProcsAssumption
    PROVE  QueueInv /\ [SC!Next]_SC!vars => [SC!OC!Next]_(SC!OC!vars)
<1> SUFFICES ASSUME QueueInv, [SC!Next]_SC!vars PROVE [SC!OC!Next]_(SC!OC!vars)
    OBVIOUS
<1>0. /\ pc \in [SC!Procs -> SC!Pcs] /\ running \in [SC!Procs -> Callbacks \cup {None}] /\ SC!OneAtATime
      /\ SC!TypeOK
    BY DEF QueueInv, SC!TypeOK
<1>a. ASSUME waiting' = waiting, done' = done,
             \A u \in SC!Procs : pc'[u] = "callback" <=> pc[u] = "callback",
             \A u \in SC!InCallback : running'[u] = running[u]
      PROVE  UNCHANGED SC!OC!vars
    BY <1>0, <1>a, CurrentSame DEF SC!OC!vars
<1>1. ASSUME NEW t \in SC!Procs, SC!TakeTask(t) \/ SC!Exit(t) PROVE UNCHANGED SC!OC!vars
    BY <1>0, <1>1, <1>a DEF SC!TakeTask, SC!Exit, SC!Goto
<1>2. ASSUME NEW t \in SC!Procs, SC!ProcessQueue(t) PROVE [SC!OC!Next]_(SC!OC!vars)
    <2>1. CASE callbacksRunning \/ waiting = <<>>
        BY <1>0, <1>2, <1>a, <2>1, ReturnPcs DEF SC!ProcessQueue, SC!Goto
    <2>2. CASE ~(callbacksRunning \/ waiting = <<>>)
        <3>1. SC!InCallback = {}
            BY <1>0, <2>2 DEF SC!OneAtATime, SC!InCallback
        <3>2. SC!InCallback' = {t}
            BY <1>0, <1>2, <2>2, <3>1 DEF SC!ProcessQueue, SC!Goto, SC!InCallback
        <3>3. SC!Current' = running'[t]
            BY <3>2 DEF SC!Current
        <3>4. SC!Current = None /\ SC!Current' = Head(waiting)
            BY <1>0, <1>2, <2>2, <3>1, <3>3, CurrentNone DEF SC!ProcessQueue
        <3>5. SC!OC!Start
            BY <1>2, <2>2, <3>4 DEF SC!ProcessQueue, SC!OC!Start
        <3> QED BY <3>5 DEF SC!OC!Next
    <2> QED BY <2>1, <2>2
<1>3. ASSUME NEW t \in SC!Procs, SC!RunCallback(t) PROVE SC!OC!Finish
    <2>1. SC!InCallback = {t} /\ running[t] \in Callbacks
        BY <1>0, <1>3, InCallbackOne DEF SC!RunCallback, SC!TypeOK
    <2>2. SC!Current = running[t] /\ SC!Current # None
        BY <2>1, CurrentIs, SC!ProcsAssumption DEF SC!ProcsAssumption
    <2>3. SC!InCallback' = {}
        BY <1>0, <1>3, <2>1 DEF SC!RunCallback, SC!Goto, SC!InCallback
    <2>4. SC!Current' = None
        BY <2>3 DEF SC!Current
    <2> QED BY <1>3, <2>2, <2>4 DEF SC!RunCallback, SC!OC!Finish
<1>4. ASSUME NEW t \in SC!Procs, SC!ClearRunning(t) PROVE UNCHANGED SC!OC!vars
    BY <1>0, <1>4, <1>a DEF SC!ClearRunning, SC!Goto, SC!InCallback
<1>5. ASSUME NEW t \in SC!Procs, SC!MaybeScheduleProcessQueue(t) \/ SC!Schedule(t)
      PROVE  UNCHANGED SC!OC!vars
    BY <1>0, <1>5, <1>a, ReturnPcs DEF SC!MaybeScheduleProcessQueue, SC!Schedule, SC!Goto
<1>6. ASSUME NEW t \in Callers, SC!CallStep(t) PROVE [SC!OC!Next]_(SC!OC!vars)
    <2>1. t \in SC!Procs
        BY DEF SC!Procs
    <2>2. CASE SC!Call(t) \/ SC!Skip(t)
        BY <1>0, <1>a, <2>1, <2>2 DEF SC!Call, SC!Skip, SC!Goto
    <2>3. CASE SC!FutureReady(t)
        BY <1>0, <1>a, <2>1, <2>3 DEF SC!FutureReady, SC!Goto, SC!InCallback
    <2>4. CASE \E c \in Callbacks : SC!Notify(t, c) \/ SC!Sync(t, c)
        BY <2>1, <2>4, AddRefines DEF SC!Notify, SC!Sync, SC!OC!Next
    <2> QED BY <1>6, <2>2, <2>3, <2>4 DEF SC!CallStep
<1>7. ASSUME SC!Shutdown PROVE [SC!OC!Next]_(SC!OC!vars)
    <2>1. Main \in SC!Procs
        BY DEF SC!Procs
    <2>2. CASE SC!Stop \/ SC!Join \/ SC!EmptyQueue
        BY <1>0, <1>a, <2>1, <2>2 DEF SC!Stop, SC!Join, SC!EmptyQueue, SC!Goto
    <2>3. CASE SC!Flush
        BY <2>1, <2>3, AddRefines, SC!ProcsAssumption DEF SC!ProcsAssumption, SC!Flush, SC!OC!Next
    <2> QED BY <1>7, <2>2, <2>3 DEF SC!Shutdown
<1>8. CASE UNCHANGED SC!vars
    BY <1>0, <1>8, <1>a DEF SC!vars
<1> QED BY <1>1, <1>2, <1>3, <1>4, <1>5, <1>6, <1>7, <1>8 DEF SC!Next, SC!Serve, SC!OC!Next

(* The queue of the validation interface implements the ordered callbacks: *)
(* whatever the threads, callbacks run in the order of AddToProcessQueue,  *)
(* one at a time.                                                          *)
THEOREM QueueRefinement ==
    ASSUME SC!ProcsAssumption
    PROVE  SC!Spec => SC!ImplementsSafely
<1>1. SC!Init => SC!OC!Init
    BY CurrentNone DEF SC!Init, SC!OC!Init, SC!InCallback, SC!Procs
<1> QED BY <1>1, StepRefines, QueueInvariant, PTL DEF SC!Spec, SC!OC!Spec, SC!ImplementsSafely
=============================================================================

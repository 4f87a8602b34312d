----------------------- MODULE ChainstateFlushProofs ------------------------
(***************************************************************************)
(* Proofs about the flush of the chain state and the recovery from a       *)
(* crash, for any block tree, any coins and commitments and any number of  *)
(* crashes.                                                                *)
(*                                                                         *)
(* The inductive invariant IndInv says, for every phase, which block each  *)
(* store is at: the files, the index and its database (FilesInv), the coin *)
(* cache over the coin database (CoinInv), the two transactions over EvoDB *)
(* (EvoInv).  In the middle of a replay every coin is either where the     *)
(* replay has come to or already at the new head, which is why rolling     *)
(* forward over a half-written database ends at the ledger of the head.    *)
(***************************************************************************)
EXTENDS ChainstateFlush, WellFoundedInduction, NaturalsInduction, TLAPS

(* Most leaves are first-order; those about numbers or many functions at   *)
(* once name SMT.                                                          *)
USE Zenon

(***************************************************************************)
(* The coin caches by themselves. ChainstateFlush keeps one cache over the *)
(* database and connects a block in one step; CoinsCache has the view of   *)
(* the block over that cache, coin by coin, with the flags that BatchWrite *)
(* relies on. Its variables tip and db are those of the flush, and so are  *)
(* the assumptions on the coins.                                           *)
(*                                                                         *)
(* Its inductive invariant CachesInv says that the flags of either cache   *)
(* are true of the one below; then a flush of a level changes no answer,   *)
(* and the levels together implement a plain set of unspent outputs        *)
(* (UtxoSet).                                                              *)
(***************************************************************************)
VARIABLES blockView, viewOpen
CC == INSTANCE CoinsCache WITH view <- blockView, open <- viewOpen

-----------------------------------------------------------------------------
(* A coin is not spent, and an entry is not absent.                        *)
LEMMA CoinValues == Spent \notin Coins /\ Absent \notin CC!Entries
BY CoinAssumption DEF Entries, CC!Entries

(* What a cache over a parent answers is a coin for every outpoint.        *)
LEMMA GetCoinType ==
    ASSUME NEW cache \in CC!Caches, NEW base \in CC!CoinMaps
    PROVE  CC!GetCoin(cache, base) \in CC!CoinMaps
BY CoinValues DEF CC!Caches, CC!CoinMaps, CC!Entries, CC!GetCoin

(* An empty cache answers what its parent answers, and its flags are right.*)
LEMMA EmptyCache ==
    ASSUME NEW base \in CC!CoinMaps
    PROVE  /\ CC!Empty \in CC!Caches /\ CC!FlagsTrue(CC!Empty, base)
           /\ CC!GetCoin(CC!Empty, base) = base
BY DEF CC!Empty, CC!Caches, CC!CoinMaps, CC!FlagsTrue, CC!GetCoin

(* FetchCoin changes no answer; afterwards a missing entry means that the  *)
(* parent has no coin.                                                     *)
LEMMA FetchRight ==
    ASSUME NEW cache \in CC!Caches, NEW base \in CC!CoinMaps, NEW o \in Outpoints,
           CC!FlagsTrue(cache, base)
    PROVE  /\ CC!FetchCoin(cache, base, o) \in CC!Caches
           /\ CC!FlagsTrue(CC!FetchCoin(cache, base, o), base)
           /\ CC!GetCoin(CC!FetchCoin(cache, base, o), base) = CC!GetCoin(cache, base)
           /\ CC!FetchCoin(cache, base, o)[o] = Absent => base[o] = Spent
<1>1. CASE cache[o] # Absent \/ base[o] = Spent
    BY <1>1 DEF CC!FetchCoin
<1>2. CASE ~(cache[o] # Absent \/ base[o] = Spent)
    <2> DEFINE e == CC!Clean(base[o])
    <2>0. e \in CC!Entries
        BY DEF CC!Clean, CC!Entries, CC!CoinMaps
    <2>1. e \in CC!Entries /\ e # Absent
        BY <2>0, CoinValues
    <2>2. CC!FetchCoin(cache, base, o) = [cache EXCEPT ![o] = e]
        BY <1>2 DEF CC!FetchCoin
    <2>3. e.coin = base[o] /\ ~e.dirty /\ ~e.fresh /\ base[o] # Spent
        BY <1>2 DEF CC!Clean
    <2> HIDE DEF e
    <2>4. [cache EXCEPT ![o] = e] \in CC!Caches
        BY <2>1 DEF CC!Caches
    <2>5. CC!FlagsTrue([cache EXCEPT ![o] = e], base)
        BY <2>3 DEF CC!FlagsTrue, CC!EntryTrue, CC!Caches
    <2>6. CC!GetCoin([cache EXCEPT ![o] = e], base) = CC!GetCoin(cache, base)
        BY <1>2, <2>1, <2>3 DEF CC!GetCoin, CC!Caches
    <2> QED BY <2>1, <2>2, <2>4, <2>5, <2>6 DEF CC!Caches
<1> QED BY <1>1, <1>2

(* AddCoin, called without possible_overwrite only where no unspent coin   *)
(* is seen, changes the answer for its outpoint and keeps the flags right. *)
LEMMA AddRight ==
    ASSUME NEW cache \in CC!Caches, NEW base \in CC!CoinMaps, NEW o \in Outpoints,
           NEW c \in Coins, NEW ow \in BOOLEAN,
           CC!FlagsTrue(cache, base), ow \/ CC!GetCoin(cache, base)[o] = Spent
    PROVE  /\ CC!AddCoin(cache, o, c, ow) \in CC!Caches
           /\ CC!FlagsTrue(CC!AddCoin(cache, o, c, ow), base)
           /\ CC!GetCoin(CC!AddCoin(cache, o, c, ow), base) = [CC!GetCoin(cache, base) EXCEPT ![o] = c]
<1> DEFINE p == CC!Emplaced(cache, o)
           f == p.fresh \/ (~ow /\ ~p.dirty)
           e == [coin |-> c, dirty |-> TRUE, fresh |-> f]
<1>1. CC!AddCoin(cache, o, c, ow) = [cache EXCEPT ![o] = e]
    BY DEF CC!AddCoin
<1>2. p \in CC!Entries
    BY DEF CC!Emplaced, CC!Caches, CC!Entries, CC!Clean
<1>3. e \in CC!Entries /\ e # Absent /\ e.coin = c /\ e.dirty /\ e.fresh = f /\ c # Spent
    <2>1. f \in BOOLEAN
        BY <1>2 DEF CC!Entries
    <2>2. e \in CC!Entries
        BY <2>1 DEF CC!Entries
    <2>3. e # Absent /\ c # Spent
        BY <2>2, CoinValues
    <2> QED BY <2>2, <2>3
<1>4. f => base[o] = Spent
    <2>1. CASE cache[o] = Absent
        BY <2>1 DEF CC!Emplaced, CC!Clean, CC!GetCoin
    <2>2. CASE cache[o] # Absent
        BY <2>2 DEF CC!Emplaced, CC!GetCoin, CC!FlagsTrue, CC!EntryTrue
    <2> QED BY <2>1, <2>2
<1> HIDE DEF e, f, p
<1>5. [cache EXCEPT ![o] = e] \in CC!Caches
    BY <1>3 DEF CC!Caches
<1>6. CC!FlagsTrue([cache EXCEPT ![o] = e], base)
    BY <1>3, <1>4 DEF CC!FlagsTrue, CC!EntryTrue, CC!Caches
<1>7. CC!GetCoin([cache EXCEPT ![o] = e], base) = [CC!GetCoin(cache, base) EXCEPT ![o] = c]
    BY <1>3 DEF CC!GetCoin, CC!Caches
<1> QED BY <1>1, <1>5, <1>6, <1>7

(* SpendCoin, after FetchCoin, leaves the outpoint spent.                  *)
LEMMA SpendRight ==
    ASSUME NEW cache \in CC!Caches, NEW base \in CC!CoinMaps, NEW o \in Outpoints,
           CC!FlagsTrue(cache, base), cache[o] = Absent => base[o] = Spent
    PROVE  /\ CC!SpendCoin(cache, o) \in CC!Caches
           /\ CC!FlagsTrue(CC!SpendCoin(cache, o), base)
           /\ CC!GetCoin(CC!SpendCoin(cache, o), base) = [CC!GetCoin(cache, base) EXCEPT ![o] = Spent]
<1>1. CASE cache[o] = Absent
    <2>1. CC!SpendCoin(cache, o) = cache
        BY <1>1 DEF CC!SpendCoin
    <2>2. CC!GetCoin(cache, base)[o] = Spent
        BY <1>1 DEF CC!GetCoin
    <2>3. CC!GetCoin(cache, base) = [CC!GetCoin(cache, base) EXCEPT ![o] = Spent]
        BY <2>2 DEF CC!GetCoin
    <2> QED BY <2>1, <2>3
<1>2. CASE cache[o] # Absent /\ cache[o].fresh
    <2>1. CC!SpendCoin(cache, o) = [cache EXCEPT ![o] = Absent]
        BY <1>2 DEF CC!SpendCoin
    <2>2. base[o] = Spent
        BY <1>2 DEF CC!FlagsTrue, CC!EntryTrue
    <2>3. [cache EXCEPT ![o] = Absent] \in CC!Caches
        BY DEF CC!Caches
    <2>4. CC!FlagsTrue([cache EXCEPT ![o] = Absent], base)
        BY DEF CC!FlagsTrue, CC!EntryTrue, CC!Caches
    <2>5. CC!GetCoin([cache EXCEPT ![o] = Absent], base) = [CC!GetCoin(cache, base) EXCEPT ![o] = Spent]
        BY <2>2 DEF CC!GetCoin, CC!Caches
    <2> QED BY <2>1, <2>3, <2>4, <2>5
<1>3. CASE cache[o] # Absent /\ ~cache[o].fresh
    <2> DEFINE e == [cache[o] EXCEPT !.dirty = TRUE, !.coin = Spent]
    <2>1. CC!SpendCoin(cache, o) = [cache EXCEPT ![o] = e]
        BY <1>3 DEF CC!SpendCoin
    <2>2. e \in CC!Entries /\ e # Absent /\ e.coin = Spent /\ e.dirty /\ ~e.fresh
        <3>1. cache[o] \in CC!Entries
            BY <1>3 DEF CC!Caches
        <3>2. e \in CC!Entries /\ e.coin = Spent /\ e.dirty /\ ~e.fresh
            BY <1>3, <3>1 DEF CC!Entries
        <3>3. e # Absent
            BY <3>2, CoinValues
        <3> QED BY <3>2, <3>3
    <2> HIDE DEF e
    <2>3. [cache EXCEPT ![o] = e] \in CC!Caches
        BY <2>2 DEF CC!Caches
    <2>4. CC!FlagsTrue([cache EXCEPT ![o] = e], base)
        BY <2>2 DEF CC!FlagsTrue, CC!EntryTrue, CC!Caches
    <2>5. CC!GetCoin([cache EXCEPT ![o] = e], base) = [CC!GetCoin(cache, base) EXCEPT ![o] = Spent]
        BY <2>2 DEF CC!GetCoin, CC!Caches
    <2> QED BY <2>1, <2>3, <2>4, <2>5
<1> QED BY <1>1, <1>2, <1>3
(* Moving the child into its parent keeps the parent's flags right; the    *)
(* parent then answers what the child answered.                            *)
LEMMA MergeRight ==
    ASSUME NEW child \in CC!Caches, NEW parent \in CC!Caches, NEW base \in CC!CoinMaps,
           CC!FlagsTrue(parent, base), CC!FlagsTrue(child, CC!GetCoin(parent, base))
    PROVE  /\ CC!BatchWrite(child, parent) \in CC!Caches
           /\ CC!FlagsTrue(CC!BatchWrite(child, parent), base)
           /\ CC!GetCoin(CC!BatchWrite(child, parent), base)
               = CC!GetCoin(child, CC!GetCoin(parent, base))
           /\ ~CC!Misapplied(child, parent)
<1> DEFINE m == CC!BatchWrite(child, parent)
           seen == CC!GetCoin(child, CC!GetCoin(parent, base))
<1>1. ASSUME NEW o \in Outpoints
      PROVE  /\ m[o] = Absent \/ m[o] \in CC!Entries
             /\ m[o] # Absent => CC!EntryTrue(m[o], base[o])
             /\ (IF m[o] = Absent THEN base[o] ELSE m[o].coin) = seen[o]
    <2> DEFINE e == child[o]
               p == parent[o]
    <2>1. m[o] = CC!MergeEntry(e, p)
        BY DEF CC!BatchWrite
    <2>2. /\ e = Absent \/ e \in CC!Entries
          /\ p = Absent \/ p \in CC!Entries
          /\ p # Absent => CC!EntryTrue(p, base[o])
        BY DEF CC!Caches, CC!FlagsTrue
    <2> DEFINE b == IF p = Absent THEN base[o] ELSE p.coin
    <2>3. e # Absent => CC!EntryTrue(e, b)
        BY DEF CC!FlagsTrue, CC!GetCoin
    <2>4. seen[o] = IF e = Absent THEN b ELSE e.coin
        BY DEF CC!GetCoin
    <2> HIDE DEF m, seen, e, p
    <2>5. CASE e = Absent \/ (e # Absent /\ ~e.dirty)
        <3>1. m[o] = p
            BY <2>1, <2>5 DEF CC!MergeEntry
        <3> QED BY <2>2, <2>3, <2>4, <2>5, <3>1 DEF CC!EntryTrue
    <2>6. CASE e # Absent /\ e.dirty /\ p = Absent
        <3> DEFINE n == [coin |-> e.coin, dirty |-> TRUE, fresh |-> e.fresh]
        <3>1. m[o] = n
            BY <2>1, <2>3, <2>6 DEF CC!MergeEntry, CC!EntryTrue
        <3>2. n \in CC!Entries /\ n.coin = e.coin /\ n.dirty /\ n.fresh = e.fresh
            BY <2>2, <2>6 DEF CC!Entries
        <3>3. n # Absent
            BY <3>2, CoinValues
        <3> HIDE DEF n
        <3> QED BY <2>3, <2>4, <2>6, <3>1, <3>2, <3>3 DEF CC!EntryTrue
    <2>7. CASE e # Absent /\ e.dirty /\ p # Absent /\ p.fresh /\ e.coin = Spent
        <3>1. m[o] = Absent
            BY <2>1, <2>7 DEF CC!MergeEntry
        <3> QED BY <2>2, <2>4, <2>7, <3>1 DEF CC!EntryTrue
    <2>8. CASE e # Absent /\ e.dirty /\ p # Absent /\ ~(p.fresh /\ e.coin = Spent)
        <3> DEFINE n == [coin |-> e.coin, dirty |-> TRUE, fresh |-> p.fresh]
        <3>1. m[o] = n
            BY <2>1, <2>8 DEF CC!MergeEntry
        <3>2. n \in CC!Entries /\ n.coin = e.coin /\ n.dirty /\ n.fresh = p.fresh
            BY <2>2, <2>8 DEF CC!Entries
        <3>3. n # Absent
            BY <3>2, CoinValues
        <3> HIDE DEF n
        <3> QED BY <2>2, <2>4, <2>8, <3>1, <3>2, <3>3 DEF CC!EntryTrue
    <2> QED BY <2>5, <2>6, <2>7, <2>8
<1>2. m = [o \in Outpoints |-> m[o]] /\ seen = [o \in Outpoints |-> seen[o]]
    BY DEF CC!BatchWrite, CC!GetCoin
<1>3. CC!GetCoin(m, base) = [o \in Outpoints |-> IF m[o] = Absent THEN base[o] ELSE m[o].coin]
    BY DEF CC!GetCoin
<1>4. ~CC!Misapplied(child, parent)
    BY DEF CC!Misapplied, CC!FlagsTrue, CC!EntryTrue, CC!GetCoin
<1> HIDE DEF m, seen
<1>5. m \in CC!Caches
    BY <1>1, <1>2 DEF CC!Caches
<1>6. CC!FlagsTrue(m, base)
    BY <1>1 DEF CC!FlagsTrue
<1>7. CC!GetCoin(m, base) = seen
    BY <1>1, <1>2, <1>3
<1> QED BY <1>4, <1>5, <1>6, <1>7 DEF m, seen

(* Writing all dirty entries makes the database answer what the cache      *)
(* answered.                                                               *)
LEMMA DbWriteAll ==
    ASSUME NEW cache \in CC!Caches, NEW base \in CC!CoinMaps, CC!FlagsTrue(cache, base)
    PROVE  /\ CC!DbWrite(cache, base, Outpoints) \in CC!CoinMaps
           /\ CC!DbWrite(cache, base, Outpoints) = CC!GetCoin(cache, base)
<1>1. ASSUME NEW o \in Outpoints
      PROVE  CC!DbWrite(cache, base, Outpoints)[o] = CC!GetCoin(cache, base)[o]
    BY DEF CC!DbWrite, CC!GetCoin, CC!FlagsTrue, CC!EntryTrue
<1>2. CC!DbWrite(cache, base, Outpoints) = CC!GetCoin(cache, base)
    BY <1>1 DEF CC!DbWrite, CC!GetCoin
<1> QED BY <1>2, GetCoinType

(* Uncache drops only entries the parent can answer for.                   *)
LEMMA UncacheRight ==
    ASSUME NEW cache \in CC!Caches, NEW base \in CC!CoinMaps, NEW o \in Outpoints,
           CC!FlagsTrue(cache, base)
    PROVE  /\ CC!Uncache(cache, o) \in CC!Caches
           /\ CC!FlagsTrue(CC!Uncache(cache, o), base)
           /\ CC!GetCoin(CC!Uncache(cache, o), base) = CC!GetCoin(cache, base)
<1>1. CASE cache[o] # Absent /\ ~cache[o].dirty /\ ~cache[o].fresh
    <2>1. CC!Uncache(cache, o) = [cache EXCEPT ![o] = Absent]
        BY <1>1 DEF CC!Uncache
    <2>2. [cache EXCEPT ![o] = Absent] \in CC!Caches
        BY DEF CC!Caches
    <2>3. CC!FlagsTrue([cache EXCEPT ![o] = Absent], base)
        BY DEF CC!FlagsTrue, CC!Caches
    <2>4. cache[o].coin = base[o]
        BY <1>1 DEF CC!FlagsTrue, CC!EntryTrue
    <2>5. CC!GetCoin([cache EXCEPT ![o] = Absent], base) = CC!GetCoin(cache, base)
        BY <1>1, <2>4 DEF CC!GetCoin, CC!Caches
    <2> QED BY <2>1, <2>2, <2>3, <2>5
<1>2. CASE ~(cache[o] # Absent /\ ~cache[o].dirty /\ ~cache[o].fresh)
    BY <1>2 DEF CC!Uncache
<1> QED BY <1>1, <1>2

-----------------------------------------------------------------------------
CachesInv == CC!TypeOK /\ CC!FlagsRight

(* What one step has to show: the invariant afterwards, and how the set of *)
(* unspent outputs moved.                                                  *)
AbstractStep == [CC!US!Next]_(CC!US!vars)

(* Both caches answer with a coin, or none, for every outpoint.            *)
LEMMA LevelsAnswer == CachesInv => CC!TipCoins \in CC!CoinMaps /\ CC!ViewCoins \in CC!CoinMaps
<1> SUFFICES ASSUME CachesInv PROVE CC!TipCoins \in CC!CoinMaps /\ CC!ViewCoins \in CC!CoinMaps
    OBVIOUS
<1>1. CC!TipCoins \in CC!CoinMaps
    BY GetCoinType DEF CachesInv, CC!TypeOK, CC!TipCoins
<1> QED BY <1>1, GetCoinType DEF CachesInv, CC!TypeOK, CC!ViewCoins

(* A closed view answers what CoinsTip() answers.                          *)
LEMMA ClosedView == CachesInv /\ ~viewOpen => CC!ViewCoins = CC!TipCoins
BY LevelsAnswer, EmptyCache DEF CachesInv, CC!TypeOK, CC!ViewCoins

(* The fetch of the view through CoinsTip() changes no answer.             *)
LEMMA TipFetch ==
    ASSUME CachesInv, NEW o \in Outpoints
    PROVE  /\ CC!TipFetched(o) \in CC!Caches /\ CC!FlagsTrue(CC!TipFetched(o), db)
           /\ CC!GetCoin(CC!TipFetched(o), db) = CC!TipCoins
<1>1. tip \in CC!Caches /\ db \in CC!CoinMaps /\ CC!FlagsTrue(tip, db)
    BY DEF CachesInv, CC!TypeOK, CC!FlagsRight
<1> QED BY <1>1, FetchRight DEF CC!TipFetched, CC!TipCoins

(* The same for the view of a block over the tip.                          *)
LEMMA ViewFetch ==
    ASSUME CachesInv, NEW o \in Outpoints
    PROVE  /\ CC!Fetched(o) \in CC!Caches /\ CC!FlagsTrue(CC!Fetched(o), CC!TipCoins)
           /\ CC!GetCoin(CC!Fetched(o), CC!TipCoins) = CC!ViewCoins
           /\ CC!Fetched(o)[o] = Absent => CC!TipCoins[o] = Spent
BY LevelsAnswer, FetchRight DEF CachesInv, CC!TypeOK, CC!FlagsRight, CC!Fetched, CC!ViewCoins

(* A step that only rearranges or changes an open view: the invariant      *)
(* holds afterwards if the new caches have right flags, and the answers    *)
(* are those of the new view.                                              *)
LEMMA OpenStep ==
    ASSUME CachesInv, viewOpen, viewOpen' = viewOpen, db' = db,
           tip' \in CC!Caches, CC!FlagsTrue(tip', db), CC!GetCoin(tip', db) = CC!TipCoins,
           blockView' \in CC!Caches, CC!FlagsTrue(blockView', CC!TipCoins)
    PROVE  CachesInv' /\ CC!TipCoins' = CC!TipCoins
           /\ CC!ViewCoins' = CC!GetCoin(blockView', CC!TipCoins)
<1>1. CC!TipCoins' = CC!TipCoins
    BY DEF CC!TipCoins
<1>2. CC!TypeOK'
    BY DEF CachesInv, CC!TypeOK
<1>3. CC!FlagsTrue(tip, db)' /\ CC!FlagsTrue(blockView, CC!TipCoins)'
    BY <1>1 DEF CC!FlagsTrue
<1> QED BY <1>1, <1>2, <1>3 DEF CachesInv, CC!FlagsRight, CC!ViewCoins

(* A view that changes one coin is a step of the set of unspent outputs.   *)
LEMMA SetStep ==
    ASSUME viewOpen, viewOpen' = viewOpen, db' = db, CC!TipCoins' = CC!TipCoins,
           NEW o \in Outpoints, NEW c \in Coins \cup {Spent},
           CC!ViewCoins' = [CC!ViewCoins EXCEPT ![o] = c]
    PROVE  AbstractStep
BY DEF AbstractStep, CC!US!Next, CC!US!Set

(* Every step keeps the flags right and is a step of UtxoSet, or changes   *)
(* no answer.                                                              *)
LEMMA CachesStep == CachesInv /\ [CC!Next]_(CC!vars) => CachesInv' /\ AbstractStep
<1> SUFFICES ASSUME CachesInv, [CC!Next]_(CC!vars) PROVE CachesInv' /\ AbstractStep
    OBVIOUS
<1>0. /\ tip \in CC!Caches /\ blockView \in CC!Caches /\ db \in CC!CoinMaps
      /\ CC!FlagsTrue(tip, db) /\ CC!FlagsTrue(blockView, CC!TipCoins)
      /\ CC!TipCoins \in CC!CoinMaps /\ CC!ViewCoins \in CC!CoinMaps
    BY LevelsAnswer DEF CachesInv, CC!TypeOK, CC!FlagsRight
<1>1. CASE CC!OpenView
    BY <1>1 DEF CC!OpenView, CachesInv, CC!TypeOK, CC!FlagsRight, CC!FlagsTrue, CC!EntryTrue,
                CC!TipCoins, CC!ViewCoins,
                AbstractStep, CC!US!Next, CC!US!Begin, CC!US!vars
<1>2. ASSUME NEW o \in Outpoints, CC!HaveCoin(o) PROVE CachesInv' /\ AbstractStep
    <2>1. CachesInv' /\ CC!TipCoins' = CC!TipCoins /\ CC!ViewCoins' = CC!ViewCoins
        BY <1>2, TipFetch, ViewFetch, OpenStep DEF CC!HaveCoin
    <2> QED BY <1>2, <2>1 DEF CC!HaveCoin, AbstractStep, CC!US!vars
<1>3. ASSUME NEW o \in Outpoints, CC!Spend(o) PROVE CachesInv' /\ AbstractStep
    <2> DEFINE v == CC!SpendCoin(CC!Fetched(o), o)
    <2>1. /\ v \in CC!Caches /\ CC!FlagsTrue(v, CC!TipCoins)
          /\ CC!GetCoin(v, CC!TipCoins) = [CC!ViewCoins EXCEPT ![o] = Spent]
        BY SMT, <1>0, ViewFetch, SpendRight
    <2>2. blockView' = v /\ tip' = CC!TipFetched(o) /\ viewOpen /\ viewOpen' = viewOpen /\ db' = db
        BY <1>3 DEF CC!Spend
    <2> HIDE DEF v
    <2>3. CachesInv' /\ CC!TipCoins' = CC!TipCoins /\ CC!ViewCoins' = CC!GetCoin(v, CC!TipCoins)
        BY <2>1, <2>2, TipFetch, OpenStep
    <2> QED BY <2>1, <2>2, <2>3, SetStep
<1>4. ASSUME NEW o \in Outpoints, NEW c \in Coins, CC!AddOutput(o, c) PROVE CachesInv' /\ AbstractStep
    <2>1. PICK w \in BOOLEAN : (w \/ CC!ViewCoins[o] = Spent)
          /\ blockView' = CC!AddCoin(blockView, o, c, w)
        BY <1>4 DEF CC!AddOutput
    <2>2. /\ blockView' \in CC!Caches /\ CC!FlagsTrue(blockView', CC!TipCoins)
          /\ CC!GetCoin(blockView', CC!TipCoins) = [CC!ViewCoins EXCEPT ![o] = c]
        BY SMT, <1>0, <2>1, AddRight DEF CC!ViewCoins
    <2>3. tip' = tip /\ viewOpen /\ viewOpen' = viewOpen /\ db' = db
        BY <1>4 DEF CC!AddOutput
    <2>4. CachesInv' /\ CC!TipCoins' = CC!TipCoins /\ CC!ViewCoins' = CC!GetCoin(blockView', CC!TipCoins)
        BY <1>0, <2>2, <2>3, OpenStep DEF CC!TipCoins
    <2> QED BY <2>2, <2>3, <2>4, SetStep
<1>5. ASSUME NEW o \in Outpoints, NEW c \in Coins, CC!RestoreCoin(o, c) PROVE CachesInv' /\ AbstractStep
    <2> DEFINE w == CC!ViewCoins[o] # Spent
               v == CC!AddCoin(CC!Fetched(o), o, c, w)
    <2>1. w \in BOOLEAN /\ (w \/ CC!GetCoin(CC!Fetched(o), CC!TipCoins)[o] = Spent)
        BY ViewFetch
    <2>2. blockView' = v /\ tip' = CC!TipFetched(o) /\ viewOpen /\ viewOpen' = viewOpen /\ db' = db
        BY <1>5 DEF CC!RestoreCoin
    <2> HIDE DEF w
    <2>3. /\ v \in CC!Caches /\ CC!FlagsTrue(v, CC!TipCoins)
          /\ CC!GetCoin(v, CC!TipCoins) = [CC!ViewCoins EXCEPT ![o] = c]
        BY SMT, <1>0, <2>1, ViewFetch, AddRight
    <2> HIDE DEF v
    <2>4. CachesInv' /\ CC!TipCoins' = CC!TipCoins /\ CC!ViewCoins' = CC!GetCoin(v, CC!TipCoins)
        BY <2>2, <2>3, TipFetch, OpenStep
    <2> QED BY <2>2, <2>3, <2>4, SetStep
<1>6. CASE CC!FlushView
    <2>1. /\ CC!BatchWrite(blockView, tip) \in CC!Caches
          /\ CC!FlagsTrue(CC!BatchWrite(blockView, tip), db)
          /\ CC!GetCoin(CC!BatchWrite(blockView, tip), db) = CC!ViewCoins
        BY <1>0, MergeRight DEF CC!TipCoins, CC!ViewCoins
    <2>2. tip' = CC!BatchWrite(blockView, tip)
          /\ blockView' = CC!Empty /\ ~viewOpen' /\ viewOpen /\ db' = db
          /\ viewOpen' = FALSE
        BY <1>6 DEF CC!FlushView
    <2>3. CC!TipCoins' = CC!ViewCoins
        BY <2>1, <2>2 DEF CC!TipCoins
    <2>4. CC!FlagsTrue(CC!Empty, CC!TipCoins') /\ CC!ViewCoins' = CC!TipCoins' /\ CC!Empty \in CC!Caches
        BY <1>0, <2>2, <2>3, EmptyCache DEF CC!ViewCoins
    <2>5. CC!TypeOK'
        BY <1>0, <2>1, <2>2, <2>4 DEF CC!TypeOK
    <2>6. CC!FlagsTrue(tip, db)' /\ CC!FlagsTrue(blockView, CC!TipCoins)'
        BY <2>1, <2>2, <2>4 DEF CC!FlagsTrue
    <2>7. AbstractStep
        BY <2>2, <2>3, <2>4 DEF AbstractStep, CC!US!Next, CC!US!Commit
    <2> QED BY <2>5, <2>6, <2>7 DEF CachesInv, CC!FlagsRight
<1>7. CASE CC!DropView
    <2>1. tip' = tip /\ blockView' = CC!Empty /\ viewOpen /\ viewOpen' = FALSE /\ db' = db
        BY <1>7 DEF CC!DropView
    <2>2. CC!TipCoins' = CC!TipCoins
        BY <2>1 DEF CC!TipCoins
    <2>3. CC!FlagsTrue(CC!Empty, CC!TipCoins) /\ CC!ViewCoins' = CC!TipCoins /\ CC!Empty \in CC!Caches
        BY <1>0, <2>1, <2>2, EmptyCache DEF CC!ViewCoins
    <2>4. CC!TypeOK'
        BY <1>0, <2>1, <2>3 DEF CC!TypeOK
    <2>5. CC!FlagsTrue(tip, db)' /\ CC!FlagsTrue(blockView, CC!TipCoins)'
        BY <1>0, <2>1, <2>2, <2>3 DEF CC!FlagsTrue
    <2>6. AbstractStep
        BY <2>1, <2>2, <2>3 DEF AbstractStep, CC!US!Next, CC!US!Abort
    <2> QED BY <2>4, <2>5, <2>6 DEF CachesInv, CC!FlagsRight
<1>8. CASE CC!FlushTip
    <2>1. CC!DbWrite(tip, db, Outpoints) \in CC!CoinMaps /\ CC!DbWrite(tip, db, Outpoints) = CC!TipCoins
        BY <1>0, DbWriteAll DEF CC!TipCoins
    <2>2. db' = CC!TipCoins /\ tip' = CC!Empty /\ blockView' = blockView /\ ~viewOpen
          /\ viewOpen' = viewOpen
        BY <1>8, <2>1 DEF CC!FlushTip
    <2>3. CC!TipCoins' = CC!TipCoins /\ CC!FlagsTrue(CC!Empty, db') /\ CC!Empty \in CC!Caches
        BY <1>0, <2>2, EmptyCache DEF CC!TipCoins
    <2>4. CC!ViewCoins' = CC!ViewCoins
        BY <2>2, <2>3 DEF CC!ViewCoins
    <2>5. CC!TypeOK'
        BY <1>0, <2>2, <2>3 DEF CC!TypeOK, CachesInv
    <2>6. CC!FlagsTrue(tip, db)' /\ CC!FlagsTrue(blockView, CC!TipCoins)'
        BY <1>0, <2>2, <2>3 DEF CC!FlagsTrue
    <2>7. AbstractStep
        BY <2>2, <2>3, <2>4 DEF AbstractStep, CC!US!Next, CC!US!Persist
    <2> QED BY <2>5, <2>6, <2>7 DEF CachesInv, CC!FlagsRight
<1>9. ASSUME NEW o \in Outpoints, CC!Lookup(o) \/ CC!UncacheTip(o) PROVE CachesInv' /\ AbstractStep
    <2>1. tip' = CC!FetchCoin(tip, db, o) \/ tip' = CC!Uncache(tip, o)
        BY <1>9 DEF CC!Lookup, CC!UncacheTip
    <2>2. tip' \in CC!Caches /\ CC!FlagsTrue(tip', db) /\ CC!GetCoin(tip', db) = CC!TipCoins
        BY SMT, <1>0, <2>1, FetchRight, UncacheRight DEF CC!TipCoins
    <2>3. db' = db /\ blockView' = blockView /\ viewOpen' = viewOpen
        BY <1>9 DEF CC!Lookup, CC!UncacheTip
    <2>4. CC!TipCoins' = CC!TipCoins
        BY <2>2, <2>3 DEF CC!TipCoins
    <2>5. CC!ViewCoins' = CC!ViewCoins
        BY <2>3, <2>4 DEF CC!ViewCoins
    <2>6. CC!TypeOK'
        BY <2>2, <2>3 DEF CC!TypeOK, CachesInv
    <2>7. CC!FlagsTrue(tip, db)' /\ CC!FlagsTrue(blockView, CC!TipCoins)'
        BY <1>0, <2>2, <2>3, <2>4 DEF CC!FlagsTrue
    <2> QED BY <2>3, <2>4, <2>5, <2>6, <2>7 DEF CachesInv, CC!FlagsRight, AbstractStep, CC!US!vars
<1>10. CASE UNCHANGED CC!vars
    BY <1>10 DEF CC!vars, CachesInv, CC!TypeOK, CC!FlagsRight, CC!FlagsTrue, CC!EntryTrue,
                 CC!TipCoins, CC!ViewCoins,
                 AbstractStep, CC!US!vars
<1> QED BY <1>1, <1>2, <1>3, <1>4, <1>5, <1>6, <1>7, <1>8, <1>9, <1>10 DEF CC!Next

(* The caches start empty, which is how the set of unspent outputs starts. *)
LEMMA CachesStart == CC!Init => CachesInv /\ CC!US!Init
<1> SUFFICES ASSUME CC!Init PROVE CachesInv /\ CC!US!Init
    OBVIOUS
<1>1. db \in CC!CoinMaps /\ tip = CC!Empty /\ blockView = CC!Empty /\ viewOpen = FALSE
    BY DEF CC!Init
<1>2. CC!TipCoins = db
    BY <1>1, EmptyCache DEF CC!TipCoins
<1>3. CC!ViewCoins = db
    BY <1>1, <1>2, EmptyCache DEF CC!ViewCoins
<1>4. CC!TypeOK /\ CC!FlagsRight
    BY <1>1, <1>2, EmptyCache DEF CC!TypeOK, CC!FlagsRight
<1> QED BY <1>1, <1>2, <1>3, <1>4 DEF CachesInv, CC!US!Init, CC!CoinMaps

(* The types hold and the flags of both caches are right in every state.   *)
THEOREM FlagsStayRight == CC!Spec => []CC!TypeOK /\ []CC!FlagsRight
<1>1. CC!Init => CachesInv
    BY CachesStart
<1>2. CachesInv /\ [CC!Next]_(CC!vars) => CachesInv'
    BY CachesStep
<1>3. CachesInv => CC!TypeOK /\ CC!FlagsRight
    BY DEF CachesInv
<1> QED BY <1>1, <1>2, <1>3, PTL DEF CC!Spec

(* A block's view can always be flushed into CoinsTip(): the logic_error   *)
(* "FRESH flag misapplied" is never thrown.                                *)
THEOREM FlushNeverThrows == CC!Spec => []CC!NeverMisapplied
<1>1. CachesInv => CC!NeverMisapplied
    BY MergeRight DEF CachesInv, CC!TypeOK, CC!FlagsRight, CC!NeverMisapplied, CC!TipCoins
<1>2. CC!Init => CachesInv
    BY CachesStart
<1>3. CachesInv /\ [CC!Next]_(CC!vars) => CachesInv'
    BY CachesStep
<1> QED BY <1>1, <1>2, <1>3, PTL DEF CC!Spec

(* The three levels of caches implement one set of unspent outputs with a  *)
(* working copy that is committed or dropped whole.                        *)
THEOREM CachesAreUtxoSet == CC!Spec => CC!Implements
<1>1. CC!Init => CachesInv /\ CC!US!Init
    BY CachesStart
<1>2. CachesInv /\ [CC!Next]_(CC!vars) => CachesInv' /\ [CC!US!Next]_(CC!US!vars)
    BY CachesStep DEF AbstractStep
<1> QED BY <1>1, <1>2, PTL DEF CC!Spec, CC!Implements, CC!US!Spec
-----------------------------------------------------------------------------
Phases == {"up", "index", "coins", "evo", "abort", "down", "replay", "verify", "stuck"}
Loaded == Phases \ {"down", "stuck"}
Heads == (Blocks \X Blocks) \cup {<<>>}

TypeInv ==
    /\ pc \in Phases /\ mode \in {"run", "close", "boot"}
    /\ files \in [Blocks -> Levels] /\ synced \in [Blocks -> Levels]
    /\ index \in [Blocks -> Levels] /\ blockDb \in [Blocks -> Levels]
    /\ tip \in Caches /\ tipBest \in Blocks \cup {None}
    /\ db \in CoinMaps /\ best \in Blocks \cup {None} /\ heads \in Heads
    /\ evoDb \in [EvoKeys -> Blocks \cup {Erased}]
    /\ root \in [EvoKeys -> Blocks \cup {Erased, Unset}]
    /\ cur \in [EvoKeys -> Blocks \cup {Erased, Unset}]
    /\ torn \in BOOLEAN /\ lost \in BOOLEAN

(* Which block each store is at, phase by phase.                           *)
PhaseInv ==
    /\ (best = None) = (heads # <<>>)
    /\ pc \in Loaded => tipBest \in Blocks
    /\ pc \in {"up", "evo", "verify"} \/ (pc = "index" /\ mode = "run") => heads = <<>>
    /\ pc \in {"evo", "verify"} => tipBest = best
    /\ pc \in {"index", "coins", "abort"} /\ heads # <<>> => heads[1] = tipBest
    /\ pc = "replay" => heads # <<>> /\ tipBest \in Chain[heads[1]]
    /\ pc \in {"replay", "verify"} => mode = "boot"
    /\ pc = "index" => mode # "boot"
    /\ pc \in {"down", "evo", "verify"} => tip = Empty

(* The block files, their index and the database of it.                    *)
FilesInv ==
    /\ \A b \in Blocks : Rank(blockDb[b]) <= Rank(synced[b]) /\ Rank(synced[b]) <= Rank(files[b])
    /\ pc \in Loaded => \A b \in Blocks :
           Rank(blockDb[b]) <= Rank(index[b]) /\ Rank(index[b]) <= Rank(files[b])
    /\ pc = "index" => synced = files
    /\ pc \in {"coins", "evo", "replay", "verify"} => blockDb = index
    /\ pc \in Loaded => \A b \in Chain[tipBest] : index[b] = "undo"
    /\ best # None => \A b \in Chain[best] : blockDb[b] = "undo"
    /\ heads # <<>> => \A b \in Chain[heads[1]] \cup Chain[heads[2]] : blockDb[b] = "undo"

(* An entry of a cache tells the truth about the level below it.           *)
EntryRight(e, coin) ==
    e # Absent => /\ ~e.dirty => e.coin = coin
                  /\ e.fresh => coin = Spent
CacheRight(cache, base) == \A o \in Outpoints : EntryRight(cache[o], base[o])

(* The coins, unless a batch of them was lost.                             *)
CoinInv ==
    /\ CacheRight(tip, db)
    /\ pc \in {"up", "index", "coins", "abort"} => TipCoins = Utxo[tipBest]
    /\ best # None => db = Utxo[best]
    /\ heads # <<>> => \A o \in Outpoints : db[o] \in {Utxo[heads[1]][o], Utxo[heads[2]][o]}
    /\ pc = "replay" => \A o \in Outpoints : TipCoins[o] \in {Utxo[tipBest][o], Utxo[heads[1]][o]}

(* On the chain of b no commitment is mined twice.                         *)
MinedOnce(b) ==
    \A a \in Chain[b] \ {Base} : \A q \in Mines[a] : MinedIn[Parent[a]][q] = Erased

(* EvoDB, with its transactions.                                           *)
EvoInv ==
    /\ tipBest # None => MinedOnce(tipBest)
    /\ best # None => MinedOnce(best)
    /\ heads # <<>> => MinedOnce(heads[1]) /\ MinedOnce(heads[2])
    /\ pc # "stuck" => evoDb["best"] \in Blocks /\ evoDb = EvoLedger(evoDb["best"])
    /\ pc \in {"up", "index", "coins", "abort", "replay"} => evoDb["best"] = OldTip
    /\ pc \in {"up", "index", "coins", "abort"} => Evo = EvoLedger(tipBest)
    /\ pc \in {"up", "index", "abort", "evo"} \/ (pc = "coins" /\ mode # "boot") => cur = NoWrites
    /\ pc = "evo" => \/ Over(root, evoDb) = EvoLedger(tipBest)
                     \/ mode = "boot" /\ torn /\ root = NoWrites
    /\ pc \in {"down", "verify"} =>
           /\ root = NoWrites /\ cur = NoWrites
           /\ heads = <<>> => torn \/ evoDb["best"] = best
           /\ heads # <<>> => evoDb["best"] = heads[2]
    /\ pc = "replay" =>
           /\ root = NoWrites
           /\ Evo["upgrade"] = tipBest
           /\ \A q \in Quorums : Evo[q] = MinedIn[tipBest][q]

IndInv ==
    /\ TypeInv /\ PhaseInv /\ FilesInv
    /\ lost \/ CoinInv
    /\ EvoInv /\ StuckOnlyThen

-----------------------------------------------------------------------------
(* A nonempty set of natural numbers has a least element.                  *)
LEMMA LeastNumber ==
    ASSUME NEW S \in SUBSET Nat, S # {}
    PROVE  \E m \in S : \A n \in S : m <= n
<1>1. IsWellFoundedOn(OpToRel(<, Nat), Nat)
    BY NatLessThanWellFounded
<1>2. PICK m \in S : \A n \in S : ~(<<n, m>> \in OpToRel(<, Nat))
    BY <1>1, WFMin
<1>3. ASSUME NEW n \in S PROVE m <= n
    <2>1. m \in Nat /\ n \in Nat
        OBVIOUS
    <2>2. n < m => <<n, m>> \in {p \in Nat \X Nat : p[1] < p[2]}
        BY <2>1
    <2>3. ~(n < m)
        BY <1>2, <2>2 DEF OpToRel
    <2> QED BY SMT, <2>1, <2>3
<1> QED BY <1>3

(* A set of blocks has one of least height (nHeight).                      *)
LEMMA LowestBlock ==
    ASSUME NEW S \in SUBSET Blocks, S # {}
    PROVE  \E m \in S : \A n \in S : Height[m] <= Height[n]
<1> DEFINE H == {Height[x] : x \in S}
<1>1. H \in SUBSET Nat /\ H # {}
    BY SMT, TreeAssumption
<1>2. \E m \in H : \A n \in H : m <= n
    BY <1>1, LeastNumber
<1> QED BY <1>2

(* A chain is that of the parent (pprev) and the block itself.             *)
LEMMA ChainStep ==
    \A b \in Blocks :
        /\ Chain[b] \subseteq Blocks /\ b \in Chain[b]
        /\ Chain[Base] = {Base}
        /\ b # Base => /\ Parent[b] \in Blocks
                       /\ Chain[b] = Chain[Parent[b]] \cup {b}
                       /\ Height[Parent[b]] < Height[b]
        /\ Height[b] \in Nat
<1> SUFFICES ASSUME NEW b \in Blocks
             PROVE  /\ Chain[b] \subseteq Blocks /\ b \in Chain[b]
                    /\ Chain[Base] = {Base}
                    /\ b # Base => /\ Parent[b] \in Blocks
                                   /\ Chain[b] = Chain[Parent[b]] \cup {b}
                                   /\ Height[Parent[b]] < Height[b]
                    /\ Height[b] \in Nat
    OBVIOUS
<1>1. Chain[b] \subseteq Blocks /\ Chain[b] = IF b = Base THEN {b} ELSE Chain[Parent[b]] \cup {b}
    BY LedgersUnfold
<1>2. Chain[Base] = {Base}
    BY LedgersUnfold, TreeAssumption
<1>3. \A a \in Blocks : Height[a] \in Nat
    BY TreeAssumption
<1>4. b # Base => Parent[b] \in Blocks /\ Height[b] = Height[Parent[b]] + 1
    BY TreeAssumption
<1>5. b # Base => Height[Parent[b]] < Height[b]
    BY SMT, <1>3, <1>4
<1> QED BY <1>1, <1>2, <1>3, <1>4, <1>5

(* The chain of an ancestor is part of the chain.                          *)
LEMMA ChainOfAncestor ==
    \A h \in Blocks : \A a \in Chain[h] : Chain[a] \subseteq Chain[h]
<1> DEFINE Bad == {h \in Blocks : \E a \in Chain[h] : ~(Chain[a] \subseteq Chain[h])}
<1> SUFFICES ASSUME Bad # {} PROVE FALSE
    OBVIOUS
<1>1. PICK h \in Bad : \A n \in Bad : Height[h] <= Height[n]
    BY LowestBlock
<1>2. h # Base /\ Parent[h] \in Blocks /\ Chain[h] = Chain[Parent[h]] \cup {h}
    BY ChainStep
<1>3. Parent[h] \notin Bad
    BY SMT, <1>1, <1>2, ChainStep
<1> QED BY <1>2, <1>3

(* Below h, the chain of h goes on with a child of each of its blocks      *)
(* (GetAncestor of the next height).                                       *)
LEMMA ChainGoesOn ==
    \A h \in Blocks : \A a \in Chain[h] :
        a # h => \E b \in Chain[h] \ {Base} : Parent[b] = a
<1> DEFINE Bad == {h \in Blocks : \E a \in Chain[h] :
                       a # h /\ ~ \E b \in Chain[h] \ {Base} : Parent[b] = a}
<1> SUFFICES ASSUME Bad # {} PROVE FALSE
    OBVIOUS
<1>1. PICK h \in Bad : \A n \in Bad : Height[h] <= Height[n]
    BY LowestBlock
<1>2. h # Base /\ Parent[h] \in Blocks /\ Chain[h] = Chain[Parent[h]] \cup {h}
    BY ChainStep
<1>3. Parent[h] \notin Bad
    BY SMT, <1>1, <1>2, ChainStep
<1> QED BY <1>2, <1>3

(* The ledger after b is the one after its parent with the inputs of b     *)
(* spent and its outputs added; before b the inputs were there and the     *)
(* outputs were not.                                                       *)
LEMMA UtxoStep ==
    \A b \in Blocks \ {Base} : \A o \in Outpoints :
        /\ Utxo[b][o] = IF o \in Creates[b] THEN Height[b]
                        ELSE IF o \in Spends[b] THEN Spent ELSE Utxo[Parent[b]][o]
        /\ Utxo[b] \in CoinMaps /\ Utxo[Parent[b]] \in CoinMaps
        /\ Utxo[b][o] \in Coins \cup {Spent}
        /\ o \in Spends[b] => o \notin Creates[b] /\ Utxo[Parent[b]][o] \in Coins
        /\ o \in Creates[b] => Utxo[Parent[b]][o] = Spent
        /\ Height[b] \in Coins
<1> SUFFICES ASSUME NEW b \in Blocks \ {Base}, NEW o \in Outpoints
             PROVE  /\ Utxo[b][o] = IF o \in Creates[b] THEN Height[b]
                                    ELSE IF o \in Spends[b] THEN Spent ELSE Utxo[Parent[b]][o]
                    /\ Utxo[b] \in CoinMaps /\ Utxo[Parent[b]] \in CoinMaps
                    /\ Utxo[b][o] \in Coins \cup {Spent}
                    /\ o \in Spends[b] => o \notin Creates[b] /\ Utxo[Parent[b]][o] \in Coins
                    /\ o \in Creates[b] => Utxo[Parent[b]][o] = Spent
                    /\ Height[b] \in Coins
    OBVIOUS
<1>1. Parent[b] \in Blocks /\ Height[b] \in Coins /\ Creates[b] \cap Spends[b] = {}
    BY TreeAssumption
<1>2. Utxo[b] = [p \in Outpoints |-> IF p \in Creates[b] THEN Height[b]
                                    ELSE IF p \in Spends[b] \/ b = Base THEN Spent
                                    ELSE Utxo[Parent[b]][p]]
    BY LedgersUnfold
<1>3. Utxo[b][o] = IF o \in Creates[b] THEN Height[b]
                   ELSE IF o \in Spends[b] THEN Spent ELSE Utxo[Parent[b]][o]
    BY <1>2
<1>4. Utxo[b] \in CoinMaps /\ Utxo[Parent[b]] \in CoinMaps
    BY <1>1, LedgersUnfold
<1>5. Utxo[b][o] \in Coins \cup {Spent} /\ Utxo[Parent[b]][o] \in Coins \cup {Spent}
    BY <1>4 DEF CoinMaps
<1>6. (o \in Spends[b] => Utxo[Parent[b]][o] # Spent) /\ (o \in Creates[b] => Utxo[Parent[b]][o] = Spent)
    BY TreeAssumption
<1> QED BY <1>1, <1>3, <1>4, <1>5, <1>6

(* The same for the commitments.                                           *)
LEMMA MinedStep ==
    \A b \in Blocks \ {Base} : \A q \in Quorums :
        /\ MinedIn[b][q] = IF q \in Mines[b] THEN b ELSE MinedIn[Parent[b]][q]
        /\ Mines[b] \subseteq Quorums
<1> SUFFICES ASSUME NEW b \in Blocks \ {Base}, NEW q \in Quorums
             PROVE  /\ MinedIn[b][q] = IF q \in Mines[b] THEN b ELSE MinedIn[Parent[b]][q]
                    /\ Mines[b] \subseteq Quorums
    OBVIOUS
<1>1. MinedIn[b] = [p \in Quorums |-> IF p \in Mines[b] THEN b
                        ELSE IF b = Base THEN Erased ELSE MinedIn[Parent[b]][p]]
    BY LedgersUnfold
<1> QED BY <1>1, TreeAssumption

-----------------------------------------------------------------------------
(* What a cache with entry e answers over a level that answers coin.       *)
Seen(e, coin) == IF e = Absent THEN coin ELSE e.coin

(* An entry of a cache has the fields it should have.                      *)
LEMMA EntryFields ==
    ASSUME NEW c \in Coins \cup {Spent}, NEW d \in BOOLEAN, NEW f \in BOOLEAN
    PROVE  LET e == [coin |-> c, dirty |-> d, fresh |-> f] IN
           e \in Entries /\ e # Absent /\ e.coin = c /\ e.dirty = d /\ e.fresh = f
<1> DEFINE e == [coin |-> c, dirty |-> d, fresh |-> f]
<1>1. e \in Entries /\ e.coin = c /\ e.dirty = d /\ e.fresh = f
    BY DEF Entries
<1> QED BY <1>1, CoinAssumption

(* FetchCoin changes no answer; afterwards a missing entry means that the  *)
(* level below has no coin.                                                *)
LEMMA FetchEntry ==
    ASSUME NEW cache \in Caches, NEW base \in CoinMaps, NEW o \in Outpoints
    PROVE  LET f == FetchCoin(cache, base, o) IN
           /\ f \in Caches
           /\ EntryRight(cache[o], base[o]) => EntryRight(f[o], base[o])
           /\ Seen(f[o], base[o]) = Seen(cache[o], base[o])
           /\ f[o] = Absent => base[o] = Spent
<1>1. CASE cache[o] # Absent \/ base[o] = Spent
    BY <1>1 DEF FetchCoin
<1>2. CASE ~(cache[o] # Absent \/ base[o] = Spent)
    <2> DEFINE e == Clean(base[o])
    <2>1. base[o] \in Coins \cup {Spent}
        BY DEF CoinMaps
    <2>2. e \in Entries /\ e # Absent /\ e.coin = base[o] /\ ~e.dirty /\ ~e.fresh
        BY <2>1, EntryFields DEF Clean
    <2>3. FetchCoin(cache, base, o) = [cache EXCEPT ![o] = e]
        BY <1>2 DEF FetchCoin
    <2> HIDE DEF e
    <2>4. [cache EXCEPT ![o] = e] \in Caches /\ [cache EXCEPT ![o] = e][o] = e
        BY <2>2 DEF Caches
    <2> QED BY <1>2, <2>2, <2>3, <2>4 DEF EntryRight, Seen
<1> QED BY <1>1, <1>2

(* AddCoin; without possible_overwrite no unspent coin may be seen.        *)
LEMMA AddEntry ==
    ASSUME NEW cache \in Caches, NEW base \in CoinMaps, NEW o \in Outpoints,
           NEW c \in Coins, NEW ow \in BOOLEAN
    PROVE  LET n == AddCoin(cache, o, c, ow)[o] IN
           /\ n \in Entries
           /\ Seen(n, base[o]) = c
           /\ EntryRight(cache[o], base[o]) /\ (ow \/ Seen(cache[o], base[o]) = Spent)
                  => EntryRight(n, base[o])
<1> DEFINE p == Emplaced(cache, o)
           f == p.fresh \/ (~ow /\ ~p.dirty)
           e == [coin |-> c, dirty |-> TRUE, fresh |-> f]
<1>1. AddCoin(cache, o, c, ow)[o] = e
    BY DEF AddCoin, Caches
<1>2. p \in Entries
    BY DEF Emplaced, Caches, Entries, Clean
<1>3. f \in BOOLEAN
    BY <1>2 DEF Entries
<1>4. e \in Entries /\ e # Absent /\ e.coin = c /\ e.dirty = TRUE /\ e.fresh = f
    <2> HIDE DEF f
    <2> QED BY <1>3, EntryFields
<1>5. ASSUME EntryRight(cache[o], base[o]), ow \/ Seen(cache[o], base[o]) = Spent
      PROVE  f => base[o] = Spent
    <2>1. CASE cache[o] = Absent
        BY <1>5, <2>1 DEF Emplaced, Clean, Seen
    <2>2. CASE cache[o] # Absent
        BY <1>5, <2>2 DEF Emplaced, Seen, EntryRight
    <2> QED BY <2>1, <2>2
<1> HIDE DEF e, f, p
<1> QED BY <1>1, <1>4, <1>5 DEF Seen, EntryRight

(* SpendCoin, after FetchCoin.                                             *)
LEMMA SpendEntry ==
    ASSUME NEW cache \in Caches, NEW base \in CoinMaps, NEW o \in Outpoints,
           cache[o] = Absent => base[o] = Spent
    PROVE  LET n == SpendCoin(cache, o)[o] IN
           /\ n \in Entries \cup {Absent}
           /\ EntryRight(cache[o], base[o]) =>
                  EntryRight(n, base[o]) /\ Seen(n, base[o]) = Spent
<1>1. CASE cache[o] = Absent
    BY <1>1 DEF SpendCoin, EntryRight, Seen
<1>2. CASE cache[o] # Absent /\ cache[o].fresh
    <2>1. SpendCoin(cache, o)[o] = Absent
        BY <1>2 DEF SpendCoin, Caches
    <2> QED BY <1>2, <2>1 DEF EntryRight, Seen
<1>3. CASE cache[o] # Absent /\ ~cache[o].fresh
    <2> DEFINE e == [cache[o] EXCEPT !.dirty = TRUE, !.coin = Spent]
    <2>1. SpendCoin(cache, o)[o] = e
        BY <1>3 DEF SpendCoin, Caches
    <2>2. cache[o] \in Entries
        BY <1>3 DEF Caches
    <2>3. e \in Entries /\ e.coin = Spent /\ e.dirty /\ ~e.fresh
        BY <1>3, <2>2 DEF Entries
    <2>4. e # Absent
        BY <2>3, CoinAssumption
    <2> HIDE DEF e
    <2> QED BY <2>1, <2>3, <2>4 DEF EntryRight, Seen
<1> QED BY <1>1, <1>2, <1>3

(* One entry e of a view moved into the entry p below it, which is over    *)
(* the coin d: the answer is that of the view.                             *)
LEMMA MergeOne ==
    ASSUME NEW e \in Entries \cup {Absent}, NEW p \in Entries \cup {Absent}, NEW d
    PROVE  /\ MergeEntry(e, p) \in Entries \cup {Absent}
           /\ EntryRight(p, d) /\ EntryRight(e, Seen(p, d)) =>
                  /\ EntryRight(MergeEntry(e, p), d)
                  /\ Seen(MergeEntry(e, p), d) = Seen(e, Seen(p, d))
<1>0. (e # Absent => e.coin \in Coins \cup {Spent} /\ e.dirty \in BOOLEAN /\ e.fresh \in BOOLEAN)
      /\ (p # Absent => p.fresh \in BOOLEAN)
    BY DEF Entries
<1>1. CASE e = Absent \/ (e # Absent /\ ~e.dirty)
    <2>1. MergeEntry(e, p) = p
        BY <1>1 DEF MergeEntry
    <2> QED BY <1>1, <2>1 DEF EntryRight, Seen
<1>2. CASE e # Absent /\ e.dirty /\ p = Absent /\ e.fresh /\ e.coin = Spent
    <2>1. MergeEntry(e, p) = Absent
        BY <1>2 DEF MergeEntry
    <2> QED BY <1>2, <2>1 DEF EntryRight, Seen
<1>3. CASE e # Absent /\ e.dirty /\ p = Absent /\ ~(e.fresh /\ e.coin = Spent)
    <2> DEFINE n == [coin |-> e.coin, dirty |-> TRUE, fresh |-> e.fresh]
    <2>1. MergeEntry(e, p) = n
        BY <1>3 DEF MergeEntry
    <2>2. n \in Entries /\ n # Absent /\ n.coin = e.coin /\ n.dirty = TRUE /\ n.fresh = e.fresh
        BY <1>0, <1>3, EntryFields
    <2> HIDE DEF n
    <2> QED BY <1>3, <2>1, <2>2 DEF EntryRight, Seen
<1>4. CASE e # Absent /\ e.dirty /\ p # Absent /\ p.fresh /\ e.coin = Spent
    <2>1. MergeEntry(e, p) = Absent
        BY <1>4 DEF MergeEntry
    <2> QED BY <1>4, <2>1 DEF EntryRight, Seen
<1>5. CASE e # Absent /\ e.dirty /\ p # Absent /\ ~(p.fresh /\ e.coin = Spent)
    <2> DEFINE n == [coin |-> e.coin, dirty |-> TRUE, fresh |-> p.fresh]
    <2>1. MergeEntry(e, p) = n
        BY <1>5 DEF MergeEntry
    <2>2. n \in Entries /\ n # Absent /\ n.coin = e.coin /\ n.dirty = TRUE /\ n.fresh = p.fresh
        BY <1>0, <1>5, EntryFields
    <2> HIDE DEF n
    <2> QED BY <1>5, <2>1, <2>2 DEF EntryRight, Seen
<1> QED BY <1>1, <1>2, <1>3, <1>4, <1>5

(* GetCoin, outpoint by outpoint.                                          *)
LEMMA GetCoinIsSeen ==
    ASSUME NEW cache \in Caches, NEW base \in CoinMaps
    PROVE  /\ GetCoin(cache, base) = [o \in Outpoints |-> Seen(cache[o], base[o])]
           /\ GetCoin(cache, base) \in CoinMaps
<1>1. GetCoin(cache, base) = [o \in Outpoints |-> Seen(cache[o], base[o])]
    BY DEF GetCoin, Seen
<1>2. \A o \in Outpoints : Seen(cache[o], base[o]) \in Coins \cup {Spent}
    BY DEF Seen, Caches, Entries, CoinMaps
<1> QED BY <1>1, <1>2 DEF CoinMaps

-----------------------------------------------------------------------------
(* An empty cache is right and answers what is below it.                   *)
LEMMA EmptyRight ==
    ASSUME NEW base \in CoinMaps
    PROVE  /\ Empty \in Caches /\ CacheRight(Empty, base)
           /\ GetCoin(Empty, base) = base
           /\ \A o \in Outpoints : Empty[o] = Absent
BY DEF Empty, Caches, CacheRight, EntryRight, GetCoin, CoinMaps

(* The lookups of a block's coins change no answer of CoinsTip().          *)
LEMMA FetchedTipRight ==
    ASSUME NEW b \in Blocks, tip \in Caches, db \in CoinMaps
    PROVE  /\ FetchedTip(b) \in Caches
           /\ GetCoin(FetchedTip(b), db) = TipCoins
           /\ CacheRight(tip, db) => CacheRight(FetchedTip(b), db)
<1> DEFINE f == FetchedTip(b)
<1>1. ASSUME NEW o \in Outpoints
      PROVE  /\ f[o] \in Entries \cup {Absent}
             /\ Seen(f[o], db[o]) = Seen(tip[o], db[o])
             /\ EntryRight(tip[o], db[o]) => EntryRight(f[o], db[o])
    <2>1. f[o] = tip[o] \/ f[o] = FetchCoin(tip, db, o)[o]
        BY DEF FetchedTip
    <2>2. FetchCoin(tip, db, o)[o] \in Entries \cup {Absent}
        BY SMT, FetchEntry DEF Caches
    <2>3. tip[o] \in Entries \cup {Absent}
        BY DEF Caches
    <2> HIDE DEF f
    <2> QED BY SMT, <2>1, <2>2, <2>3, FetchEntry
<1>2. f = [o \in Outpoints |-> f[o]]
    BY DEF FetchedTip
<1> HIDE DEF f
<1>3. f \in Caches
    BY <1>1, <1>2 DEF Caches
<1>4. GetCoin(f, db) = GetCoin(tip, db)
    BY SMT, <1>1, <1>3, GetCoinIsSeen
<1>5. CacheRight(tip, db) => CacheRight(f, db)
    BY <1>1 DEF CacheRight
<1> QED BY <1>3, <1>4, <1>5 DEF f, TipCoins

(* A block view flushed into CoinsTip() after its lookups: CoinsTip() then *)
(* answers what the view answered.                                         *)
LEMMA MergeView ==
    ASSUME NEW b \in Blocks, NEW view \in Caches, tip \in Caches, db \in CoinMaps
    PROVE  /\ BatchWrite(view, FetchedTip(b)) \in Caches
           /\ CacheRight(tip, db) /\ CacheRight(view, TipCoins) =>
                /\ CacheRight(BatchWrite(view, FetchedTip(b)), db)
                /\ GetCoin(BatchWrite(view, FetchedTip(b)), db)
                     = [o \in Outpoints |-> Seen(view[o], TipCoins[o])]
<1> DEFINE f == FetchedTip(b)
           m == BatchWrite(view, f)
<1>1. f \in Caches /\ GetCoin(f, db) = TipCoins /\ (CacheRight(tip, db) => CacheRight(f, db))
    BY FetchedTipRight
<1>2. m = [o \in Outpoints |-> MergeEntry(view[o], f[o])]
    BY DEF BatchWrite
<1> HIDE DEF f, m
<1>3. \A o \in Outpoints : TipCoins[o] = Seen(f[o], db[o])
    BY SMT, <1>1, GetCoinIsSeen
<1>4. ASSUME NEW o \in Outpoints
      PROVE  /\ m[o] \in Entries \cup {Absent}
             /\ EntryRight(f[o], db[o]) /\ EntryRight(view[o], TipCoins[o]) =>
                  EntryRight(m[o], db[o]) /\ Seen(m[o], db[o]) = Seen(view[o], TipCoins[o])
    <2>1. view[o] \in Entries \cup {Absent} /\ f[o] \in Entries \cup {Absent}
        BY <1>1 DEF Caches
    <2> QED BY SMT, <1>2, <1>3, <2>1, MergeOne
<1>5. m \in Caches
    BY <1>2, <1>4 DEF Caches
<1>6. ASSUME CacheRight(tip, db), CacheRight(view, TipCoins)
      PROVE  /\ CacheRight(m, db)
             /\ GetCoin(m, db) = [o \in Outpoints |-> Seen(view[o], TipCoins[o])]
    BY SMT, <1>1, <1>4, <1>5, <1>6, GetCoinIsSeen DEF CacheRight
<1> QED BY <1>5, <1>6 DEF m, f

(* ConnectBlock's view over the ledger of the parent.                      *)
LEMMA ConnectViewRight ==
    ASSUME NEW b \in Blocks \ {Base}, tip \in Caches, db \in CoinMaps
    PROVE  /\ ConnectView(b) \in Caches
           /\ TipCoins = Utxo[Parent[b]] =>
                /\ CacheRight(ConnectView(b), TipCoins)
                /\ \A o \in Outpoints : Seen(ConnectView(b)[o], TipCoins[o]) = Utxo[b][o]
<1> DEFINE v == ConnectView(b)
<1>0. TipCoins \in CoinMaps
    BY GetCoinIsSeen DEF TipCoins
<1>1. ASSUME NEW o \in Outpoints
      PROVE  /\ v[o] \in Entries \cup {Absent}
             /\ TipCoins = Utxo[Parent[b]] =>
                  EntryRight(v[o], TipCoins[o]) /\ Seen(v[o], TipCoins[o]) = Utxo[b][o]
    <2> DEFINE c == FetchCoin(Empty, TipCoins, o)
               ow == o \in Coinbases
    <2>1. v[o] = IF o \in Spends[b] THEN SpendCoin(c, o)[o]
                 ELSE IF o \in Creates[b] THEN AddCoin(c, o, Height[b], ow)[o]
                 ELSE Absent
        BY DEF ConnectView
    <2>2. /\ c \in Caches /\ EntryRight(c[o], TipCoins[o])
          /\ Seen(c[o], TipCoins[o]) = TipCoins[o]
          /\ c[o] = Absent => TipCoins[o] = Spent
        <3>1. Empty \in Caches /\ Empty[o] = Absent
            BY <1>0, EmptyRight
        <3>2. EntryRight(Empty[o], TipCoins[o]) /\ Seen(Empty[o], TipCoins[o]) = TipCoins[o]
            BY <3>1 DEF EntryRight, Seen
        <3> QED BY <1>0, <3>1, <3>2, FetchEntry
    <2>3. ow \in BOOLEAN
        BY SMT
    <2> HIDE DEF c, v, ow
    <2>4. CASE o \in Spends[b]
        BY SMT, <1>0, <2>1, <2>2, <2>4, SpendEntry, UtxoStep
    <2>5. CASE o \notin Spends[b] /\ o \in Creates[b]
        <3>1. v[o] = AddCoin(c, o, Height[b], ow)[o] /\ Height[b] \in Coins
            BY <2>1, <2>5, UtxoStep
        <3>2. v[o] \in Entries /\ Seen(v[o], TipCoins[o]) = Height[b]
            BY SMT, <1>0, <2>2, <2>3, <3>1, AddEntry
        <3>3. TipCoins = Utxo[Parent[b]] => EntryRight(v[o], TipCoins[o])
            BY SMT, <1>0, <2>2, <2>3, <2>5, <3>1, AddEntry, UtxoStep
        <3> QED BY <2>5, <3>2, <3>3, UtxoStep
    <2>6. CASE o \notin Spends[b] /\ o \notin Creates[b]
        BY SMT, <2>1, <2>6, UtxoStep DEF EntryRight, Seen
    <2> QED BY <2>4, <2>5, <2>6
<1>2. v = [o \in Outpoints |-> v[o]]
    BY DEF ConnectView
<1> HIDE DEF v
<1>3. v \in Caches
    BY <1>1, <1>2 DEF Caches
<1>4. TipCoins = Utxo[Parent[b]] => CacheRight(v, TipCoins)
    BY <1>1 DEF CacheRight
<1> QED BY <1>1, <1>3, <1>4 DEF v

(* DisconnectBlock's view over the ledger of the block.                    *)
LEMMA DisconnectViewRight ==
    ASSUME NEW b \in Blocks \ {Base}, tip \in Caches, db \in CoinMaps
    PROVE  /\ DisconnectView(b) \in Caches
           /\ TipCoins = Utxo[b] =>
                /\ CacheRight(DisconnectView(b), TipCoins)
                /\ \A o \in Outpoints : Seen(DisconnectView(b)[o], TipCoins[o]) = Utxo[Parent[b]][o]
<1> DEFINE v == DisconnectView(b)
<1>0. TipCoins \in CoinMaps
    BY GetCoinIsSeen DEF TipCoins
<1>1. ASSUME NEW o \in Outpoints
      PROVE  /\ v[o] \in Entries \cup {Absent}
             /\ TipCoins = Utxo[b] =>
                  EntryRight(v[o], TipCoins[o]) /\ Seen(v[o], TipCoins[o]) = Utxo[Parent[b]][o]
    <2> DEFINE c == FetchCoin(Empty, TipCoins, o)
               ow == TipCoins[o] # Spent
               u == Utxo[Parent[b]][o]
    <2>1. v[o] = IF o \in Creates[b] THEN SpendCoin(c, o)[o]
                 ELSE IF o \in Spends[b] THEN AddCoin(c, o, u, ow)[o]
                 ELSE Absent
        BY DEF DisconnectView
    <2>2. /\ c \in Caches /\ EntryRight(c[o], TipCoins[o])
          /\ Seen(c[o], TipCoins[o]) = TipCoins[o]
          /\ c[o] = Absent => TipCoins[o] = Spent
        <3>1. Empty \in Caches /\ Empty[o] = Absent
            BY <1>0, EmptyRight
        <3>2. EntryRight(Empty[o], TipCoins[o]) /\ Seen(Empty[o], TipCoins[o]) = TipCoins[o]
            BY <3>1 DEF EntryRight, Seen
        <3> QED BY <1>0, <3>1, <3>2, FetchEntry
    <2>3. ow \in BOOLEAN /\ (ow \/ TipCoins[o] = Spent)
        OBVIOUS
    <2> HIDE DEF c, v, ow
    <2>4. CASE o \in Creates[b]
        BY SMT, <1>0, <2>1, <2>2, <2>4, SpendEntry, UtxoStep
    <2>5. CASE o \notin Creates[b] /\ o \in Spends[b]
        <3>1. v[o] = AddCoin(c, o, u, ow)[o] /\ u \in Coins
            BY <2>1, <2>5, UtxoStep
        <3> HIDE DEF u
        <3>2. v[o] \in Entries /\ Seen(v[o], TipCoins[o]) = u /\ EntryRight(v[o], TipCoins[o])
            BY SMT, <1>0, <2>2, <2>3, <3>1, AddEntry
        <3> QED BY <3>2 DEF u
    <2>6. CASE o \notin Spends[b] /\ o \notin Creates[b]
        BY SMT, <2>1, <2>6, UtxoStep DEF EntryRight, Seen
    <2> QED BY <2>4, <2>5, <2>6
<1>2. v = [o \in Outpoints |-> v[o]]
    BY DEF DisconnectView
<1> HIDE DEF v
<1>3. v \in Caches
    BY <1>1, <1>2 DEF Caches
<1>4. TipCoins = Utxo[b] => CacheRight(v, TipCoins)
    BY <1>1 DEF CacheRight
<1> QED BY <1>1, <1>3, <1>4 DEF v

(* RollforwardBlock spends the inputs and adds the outputs of b, whatever  *)
(* the cache answered for them before.                                     *)
LEMMA RollforwardRight ==
    ASSUME NEW b \in Blocks \ {Base}, tip \in Caches, db \in CoinMaps
    PROVE  /\ RollforwardBlock(tip, b) \in Caches
           /\ CacheRight(tip, db) =>
                /\ CacheRight(RollforwardBlock(tip, b), db)
                /\ \A o \in Outpoints :
                     GetCoin(RollforwardBlock(tip, b), db)[o]
                       = IF o \in Creates[b] THEN Height[b]
                         ELSE IF o \in Spends[b] THEN Spent ELSE TipCoins[o]
<1> DEFINE v == RollforwardBlock(tip, b)
<1>1. ASSUME NEW o \in Outpoints
      PROVE  /\ v[o] \in Entries \cup {Absent}
             /\ EntryRight(tip[o], db[o]) =>
                  /\ EntryRight(v[o], db[o])
                  /\ Seen(v[o], db[o]) = IF o \in Creates[b] THEN Height[b]
                                         ELSE IF o \in Spends[b] THEN Spent ELSE Seen(tip[o], db[o])
    <2> DEFINE c == FetchCoin(tip, db, o)
               ow == GetCoin(c, db)[o] # Spent
    <2>1. v[o] = IF o \in Spends[b] THEN SpendCoin(c, o)[o]
                 ELSE IF o \in Creates[b] THEN AddCoin(c, o, Height[b], ow)[o]
                 ELSE tip[o]
        BY DEF RollforwardBlock
    <2>2. /\ c \in Caches /\ (EntryRight(tip[o], db[o]) => EntryRight(c[o], db[o]))
          /\ c[o] = Absent => db[o] = Spent
        BY FetchEntry
    <2> HIDE DEF c, v
    <2>3. ow \in BOOLEAN /\ (ow \/ Seen(c[o], db[o]) = Spent)
        BY SMT, <2>2, GetCoinIsSeen
    <2> HIDE DEF ow
    <2>4. CASE o \in Spends[b]
        BY SMT, <2>1, <2>2, <2>4, SpendEntry, UtxoStep
    <2>5. CASE o \notin Spends[b] /\ o \in Creates[b]
        <3>1. v[o] = AddCoin(c, o, Height[b], ow)[o] /\ Height[b] \in Coins
            BY <2>1, <2>5, UtxoStep
        <3> QED BY SMT, <2>2, <2>3, <2>5, <3>1, AddEntry
    <2>6. CASE o \notin Spends[b] /\ o \notin Creates[b]
        BY <2>1, <2>6 DEF Caches
    <2> QED BY <2>4, <2>5, <2>6
<1>2. v = [o \in Outpoints |-> v[o]]
    BY DEF RollforwardBlock
<1> HIDE DEF v
<1>3. v \in Caches
    BY <1>1, <1>2 DEF Caches
<1>4. CacheRight(tip, db) => CacheRight(v, db)
    BY <1>1 DEF CacheRight
<1>5. \A o \in Outpoints : GetCoin(v, db)[o] = Seen(v[o], db[o]) /\ TipCoins[o] = Seen(tip[o], db[o])
    BY SMT, <1>3, GetCoinIsSeen DEF TipCoins
<1> QED BY SMT, <1>1, <1>3, <1>4, <1>5 DEF v, CacheRight

-----------------------------------------------------------------------------
(* What a transaction holds, and what EvoDB holds.                         *)
Writes == [EvoKeys -> Blocks \cup {Erased, Unset}]
Stored == [EvoKeys -> Blocks \cup {Erased}]

(* Unset is no value, and the two markers are no quorums.                  *)
LEMMA EvoValues ==
    /\ Unset \notin Blocks \cup {Erased} /\ Erased \notin Blocks
    /\ "best" \in EvoKeys /\ "upgrade" \in EvoKeys /\ Quorums \subseteq EvoKeys
    /\ "best" \notin Quorums /\ "upgrade" \notin Quorums
BY ValueAssumption DEF EvoKeys, Unset, Erased

(* Reading through transactions: an empty one changes nothing, and it does *)
(* not matter when one is committed to the next.                           *)
LEMMA OverRight ==
    /\ NoWrites \in Writes
    /\ \A d \in Stored : Over(NoWrites, d) = d
    /\ \A s, t \in Writes : Over(s, t) \in Writes
    /\ \A s \in Writes, d \in Stored : Over(s, d) \in Stored
    /\ \A s, t \in Writes, d \in Stored : Over(Over(s, t), d) = Over(s, Over(t, d))
<1>1. NoWrites \in Writes
    BY DEF NoWrites, Writes
<1>2. \A d \in Stored : Over(NoWrites, d) = d
    BY DEF Stored, Over, NoWrites
<1>3. \A s, t \in Writes : Over(s, t) \in Writes
    BY DEF Writes, Over
<1>4. \A s \in Writes, d \in Stored : Over(s, d) \in Stored
    BY DEF Writes, Stored, Over
<1>5. ASSUME NEW s \in Writes, NEW t \in Writes, NEW d \in Stored
      PROVE  Over(Over(s, t), d) = Over(s, Over(t, d))
    BY DEF Over
<1> QED BY <1>1, <1>2, <1>3, <1>4, <1>5

(* CommitCurTransaction moves a block's writes from cur to root: what is   *)
(* read is what was read before, under the block's writes.                 *)
LEMMA CommitReads ==
    ASSUME NEW c \in Writes, cur \in Writes, root \in Writes, evoDb \in Stored
    PROVE  /\ Over(Over(c, cur), root) \in Writes
           /\ Over(NoWrites, Over(Over(Over(c, cur), root), evoDb)) = Over(c, Evo)
<1>1. /\ Over(c, cur) \in Writes /\ Over(root, evoDb) \in Stored
      /\ Over(Over(c, cur), root) \in Writes
    BY OverRight
<1>2. Over(Over(Over(c, cur), root), evoDb) = Over(Over(c, cur), Over(root, evoDb))
    BY <1>1, OverRight
<1>3. Over(Over(c, cur), Over(root, evoDb)) = Over(c, Over(cur, Over(root, evoDb)))
    BY <1>1, OverRight
<1>4. Over(Over(Over(c, cur), root), evoDb) \in Stored
    BY <1>1, OverRight
<1>5. Over(NoWrites, Over(Over(Over(c, cur), root), evoDb)) = Over(Over(Over(c, cur), root), evoDb)
    BY <1>4, OverRight
<1> QED BY <1>1, <1>2, <1>3, <1>5 DEF Evo

(* The EvoDB of a block.                                                   *)
LEMMA LedgerRight ==
    \A b \in Blocks :
        /\ EvoLedger(b) \in Stored
        /\ EvoLedger(b)["best"] = b /\ EvoLedger(b)["upgrade"] = b
        /\ \A q \in Quorums : EvoLedger(b)[q] = MinedIn[b][q]
<1> SUFFICES ASSUME NEW b \in Blocks
             PROVE  /\ EvoLedger(b) \in Stored
                    /\ EvoLedger(b)["best"] = b /\ EvoLedger(b)["upgrade"] = b
                    /\ \A q \in Quorums : EvoLedger(b)[q] = MinedIn[b][q]
    OBVIOUS
<1>0. MinedIn[b] \in [Quorums -> Blocks \cup {Erased}]
    BY LedgersUnfold
<1>1. \A q \in Quorums : MinedIn[b][q] \in Blocks \cup {Erased}
    BY <1>0
<1> QED BY <1>1, EvoValues DEF EvoLedger, Stored

(* Two states of EvoDB are equal if they agree on every key.               *)
LEMMA StoredEqual ==
    ASSUME NEW d \in Stored, NEW e \in Stored, d["best"] = e["best"],
           d["upgrade"] = e["upgrade"], \A q \in Quorums : d[q] = e[q]
    PROVE  d = e
<1>1. \A k \in EvoKeys : d[k] = e[k]
    BY DEF EvoKeys
<1> QED BY SMT, <1>1 DEF Stored

(* Connecting a block takes EvoDB from the parent's ledger to its own.     *)
LEMMA ConnectEvo ==
    ASSUME NEW b \in Blocks \ {Base}
    PROVE  /\ EvoConnect(b) \in Writes
           /\ Over(EvoConnect(b), EvoLedger(Parent[b])) = EvoLedger(b)
<1>1. EvoConnect(b) \in Writes
    BY DEF EvoConnect, Writes
<1>2. Parent[b] \in Blocks
    BY TreeAssumption
<1> DEFINE d == Over(EvoConnect(b), EvoLedger(Parent[b]))
<1>3. d \in Stored /\ EvoLedger(b) \in Stored /\ EvoLedger(Parent[b]) \in Stored
    BY <1>1, <1>2, OverRight, LedgerRight
<1>4. d["best"] = b /\ d["upgrade"] = b
    BY EvoValues DEF Over, EvoConnect
<1>5. ASSUME NEW q \in Quorums PROVE d[q] = MinedIn[b][q]
    <2>1. CASE q \in Mines[b]
        BY <2>1, MinedStep, EvoValues DEF Over, EvoConnect
    <2>2. CASE q \notin Mines[b]
        <3>1. d[q] = EvoLedger(Parent[b])[q]
            BY <2>2, EvoValues DEF Over, EvoConnect
        <3> QED BY SMT, <1>2, <2>2, <3>1, LedgerRight, MinedStep
    <2> QED BY <2>1, <2>2
<1> HIDE DEF d
<1>6. d = EvoLedger(b)
    BY SMT, <1>3, <1>4, <1>5, StoredEqual, LedgerRight
<1> QED BY <1>1, <1>6 DEF d

(* Disconnecting it takes EvoDB back, if its commitments were not mined    *)
(* before.                                                                 *)
LEMMA DisconnectEvo ==
    ASSUME NEW b \in Blocks \ {Base}, \A q \in Mines[b] : MinedIn[Parent[b]][q] = Erased
    PROVE  /\ EvoDisconnect(b) \in Writes
           /\ Over(EvoDisconnect(b), EvoLedger(b)) = EvoLedger(Parent[b])
<1>1. Parent[b] \in Blocks /\ Mines[b] \subseteq Quorums
    BY TreeAssumption
<1>2. EvoDisconnect(b) \in Writes
    <2>1. \A k \in EvoKeys : EvoDisconnect(b)[k] \in Blocks \cup {Erased, Unset}
        BY <1>1 DEF EvoDisconnect, EvoKeys
    <2> QED BY <2>1 DEF EvoDisconnect, Writes
<1> DEFINE d == Over(EvoDisconnect(b), EvoLedger(b))
<1>3. d \in Stored /\ EvoLedger(b) \in Stored /\ EvoLedger(Parent[b]) \in Stored
    BY <1>1, <1>2, OverRight, LedgerRight
<1>4. d["best"] = Parent[b] /\ d["upgrade"] = Parent[b]
    <2>1. EvoDisconnect(b)["best"] = Parent[b] /\ EvoDisconnect(b)["upgrade"] = Parent[b]
        BY <1>1, EvoValues DEF EvoDisconnect
    <2> QED BY <1>1, <2>1, EvoValues DEF Over
<1>5. ASSUME NEW q \in Quorums PROVE d[q] = MinedIn[Parent[b]][q]
    <2>1. CASE q \in Mines[b]
        <3>1. EvoDisconnect(b)[q] = Erased
            BY <2>1, EvoValues DEF EvoDisconnect
        <3> QED BY <2>1, <3>1, EvoValues DEF Over
    <2>2. CASE q \notin Mines[b]
        <3>0. EvoDisconnect(b)[q] = Unset
            BY <2>2, EvoValues DEF EvoDisconnect
        <3>1. d[q] = EvoLedger(b)[q]
            BY <3>0, EvoValues DEF Over
        <3> QED BY SMT, <1>1, <2>2, <3>1, LedgerRight, MinedStep
    <2> QED BY <2>1, <2>2
<1> HIDE DEF d
<1>6. d = EvoLedger(Parent[b])
    BY SMT, <1>1, <1>3, <1>4, <1>5, StoredEqual, LedgerRight
<1> QED BY <1>2, <1>6 DEF d

(* That no commitment is mined twice holds for every ancestor's chain, and *)
(* grows with a block that mines new ones.                                 *)
LEMMA MinedOnceRight ==
    /\ MinedOnce(Base)
    /\ \A h \in Blocks : MinedOnce(h) =>
           /\ \A a \in Chain[h] : MinedOnce(a)
           /\ \A a \in Chain[h] \ {Base} : \A q \in Mines[a] : MinedIn[Parent[a]][q] = Erased
    /\ \A b \in Blocks \ {Base} :
           MinedOnce(Parent[b]) /\ (\A q \in Mines[b] : MinedIn[Parent[b]][q] = Erased)
               => MinedOnce(b)
BY SMT, ChainStep, ChainOfAncestor, TreeAssumption DEF MinedOnce

(* The levels of a block in the files are ordered.                         *)
LEMMA RankRight ==
    /\ Rank("none") = 0 /\ Rank("data") = 1 /\ Rank("undo") = 2
    /\ \A l \in Levels : Rank(l) \in 0..2 /\ (Rank(l) = 2 => l = "undo") /\ (Rank(l) = 0 => l = "none")
BY SMT DEF Rank, Levels

(* The levels of a block are ordered: nothing, its data, its undo data.    *)
LEMMA RankOrder ==
    \A x, y, z \in Levels :
        /\ Rank(x) <= Rank("undo") /\ Rank("undo") <= Rank("undo")
        /\ Rank(x) <= Rank(x) /\ (Rank(x) <= Rank(y) /\ Rank(y) <= Rank(z) => Rank(x) <= Rank(z))
        /\ Rank(x) <= Rank(y) /\ y # "undo" => Rank(x) <= 1
BY SMT DEF Rank, Levels

(* Undo data written and not yet synced leaves at most the block's data.   *)
LEMMA RankUnsynced ==
    ASSUME NEW x \in Levels, NEW y \in Levels, Rank(x) <= Rank(y), Rank(x) <= 1,
           NEW z, z = IF y = "undo" THEN "data" ELSE y
    PROVE  Rank(x) <= Rank(z) /\ Rank(z) <= Rank("undo")
BY SMT DEF Rank, Levels

-----------------------------------------------------------------------------
(* The node that was shut down at Base is in order.                        *)
LEMMA InitRight == Init => IndInv
<1> SUFFICES ASSUME Init PROVE IndInv
    OBVIOUS
<1>1. Base \in Blocks /\ None \notin Blocks /\ Chain[Base] = {Base}
    BY TreeAssumption, ChainStep
<1>2. Utxo[Base] \in CoinMaps
    BY <1>1, LedgersUnfold
<1>3. EvoLedger(Base) \in Stored /\ EvoLedger(Base)["best"] = Base /\ NoWrites \in Writes
    BY <1>1, LedgerRight, OverRight
<1>4. Empty \in Caches /\ CacheRight(Empty, Utxo[Base])
    BY <1>2, EmptyRight
<1>5. TypeInv
    BY <1>1, <1>2, <1>3, <1>4 DEF Init, TypeInv, Phases, Levels, Heads, Stored, Writes
<1>6. PhaseInv
    BY <1>1 DEF Init, PhaseInv, Loaded
<1>7. FilesInv
    BY SMT, <1>1, RankRight DEF Init, FilesInv, Loaded
<1>8. CoinInv
    BY <1>4 DEF Init, CoinInv
<1>9. EvoInv
    BY <1>1, <1>3, MinedOnceRight DEF Init, EvoInv
<1>10. StuckOnlyThen
    BY DEF Init, StuckOnlyThen
<1> QED BY <1>5, <1>6, <1>7, <1>8, <1>9, <1>10 DEF IndInv

(* A block on the chain of the tip is indexed with its undo data, so a     *)
(* block that the index lacks is not on it (AcceptBlock).                  *)
LEMMA AcceptBlockKeeps ==
    ASSUME IndInv, NEW b \in Blocks, AcceptBlock(b)
    PROVE  IndInv'
<1> USE DEF AcceptBlock, SaveBlockToDisk, coinVars, evoVars, history
<1>0. TypeInv /\ PhaseInv /\ FilesInv /\ (lost \/ CoinInv) /\ EvoInv
    BY DEF IndInv
<1>1. TypeInv'
    BY <1>0 DEF TypeInv, Levels
<1>2. PhaseInv'
    BY <1>0 DEF PhaseInv
<1>3. FilesInv'
    <2>1. b \notin Chain[tipBest] /\ Chain[tipBest] \subseteq Blocks
        BY <1>0, ChainStep DEF FilesInv, PhaseInv, Loaded, Phases
    <2>2. blockDb[b] = "none"
        BY SMT, <1>0, RankRight DEF FilesInv, TypeInv, Loaded, Phases
    <2> QED BY SMT, <1>0, <2>1, <2>2, RankRight DEF FilesInv, TypeInv, Loaded, Phases
<1>4. (lost \/ CoinInv)'
    BY <1>0 DEF CoinInv, TipCoins
<1>5. EvoInv'
    BY <1>0 DEF EvoInv, Evo, OldTip
<1>6. StuckOnlyThen'
    BY DEF StuckOnlyThen
<1> QED BY <1>1, <1>2, <1>3, <1>4, <1>5, <1>6 DEF IndInv

(* FlushStateToDisk syncs the files ...                                    *)
LEMMA FlushFilesKeeps ==
    ASSUME IndInv, FlushFiles
    PROVE  IndInv'
<1> USE DEF FlushFiles, coinVars, evoVars, history
<1>0. TypeInv /\ PhaseInv /\ FilesInv /\ (lost \/ CoinInv) /\ EvoInv
    BY DEF IndInv
<1>1. TypeInv'
    BY <1>0 DEF TypeInv, Phases
<1>2. PhaseInv'
    BY <1>0 DEF PhaseInv, Loaded, Phases
<1>3. FilesInv'
    BY SMT, <1>0, RankRight DEF FilesInv, TypeInv, Loaded, Phases
<1>4. (lost \/ CoinInv)'
    BY <1>0 DEF CoinInv, TipCoins
<1>5. EvoInv'
    BY <1>0 DEF EvoInv, Evo, OldTip
<1>6. StuckOnlyThen'
    BY DEF StuckOnlyThen
<1> QED BY <1>1, <1>2, <1>3, <1>4, <1>5, <1>6 DEF IndInv

(* ... before the index refers to them.                                    *)
LEMMA WriteIndexKeeps ==
    ASSUME IndInv, WriteIndex
    PROVE  IndInv'
<1> USE DEF WriteIndex, coinVars, evoVars, history
<1>0. TypeInv /\ PhaseInv /\ FilesInv /\ (lost \/ CoinInv) /\ EvoInv
    BY DEF IndInv
<1>0a. pc' \in {"coins", "up"} /\ (pc' = "up" => mode = "run")
    BY <1>0 DEF TypeInv, PhaseInv
<1>1. TypeInv'
    BY <1>0, <1>0a DEF TypeInv, Phases
<1>2. PhaseInv'
    BY <1>0, <1>0a DEF PhaseInv, Loaded, Phases
<1>3. FilesInv'
    <2>1. \A h \in Blocks : Chain[h] \subseteq Blocks
        BY ChainStep
    <2>2. \A a \in Blocks : blockDb[a] = "undo" => index[a] = "undo"
        BY SMT, <1>0, RankRight DEF FilesInv, TypeInv, Loaded, Phases
    <2>3. best # None => \A a \in Chain[best] : index[a] = "undo"
        BY <1>0, <2>1, <2>2 DEF FilesInv, TypeInv
    <2>4. heads # <<>> => \A a \in Chain[heads[1]] \cup Chain[heads[2]] : index[a] = "undo"
        BY <1>0, <2>1, <2>2 DEF FilesInv, TypeInv, Heads
    <2> QED BY SMT, <1>0, <1>0a, <2>3, <2>4, RankRight DEF FilesInv, TypeInv, Loaded, Phases
<1>4. (lost \/ CoinInv)'
    BY <1>0, <1>0a DEF CoinInv, TipCoins
<1>5. EvoInv'
    <2>1. cur = NoWrites
        BY <1>0 DEF EvoInv
    <2> QED BY <1>0, <1>0a, <2>1 DEF EvoInv, Evo, OldTip
<1>6. StuckOnlyThen'
    BY <1>0a DEF StuckOnlyThen
<1> QED BY <1>1, <1>2, <1>3, <1>4, <1>5, <1>6 DEF IndInv

(* A rejected block leaves nothing but lookups in the caches.              *)
LEMMA ConnectFailsKeeps ==
    ASSUME IndInv, NEW b \in Blocks, ConnectFails(b)
    PROVE  IndInv'
<1> USE DEF ConnectFails, blockVars, history
<1>0. TypeInv /\ PhaseInv /\ FilesInv /\ (lost \/ CoinInv) /\ EvoInv
    BY DEF IndInv
<1>a. /\ tip' \in Caches /\ GetCoin(tip', db) = TipCoins
      /\ CacheRight(tip, db) => CacheRight(tip', db)
    BY <1>0, FetchedTipRight DEF TypeInv
<1>b. cur' = cur /\ NoWrites \in Writes
    BY <1>0, OverRight DEF EvoInv
<1>1. TypeInv'
    BY <1>0, <1>a, <1>b DEF TypeInv
<1>2. PhaseInv'
    BY <1>0 DEF PhaseInv
<1>3. FilesInv'
    BY <1>0 DEF FilesInv
<1>4. (lost \/ CoinInv)'
    BY <1>0, <1>a DEF CoinInv, TipCoins
<1>5. EvoInv'
    BY <1>0, <1>b DEF EvoInv, Evo, OldTip
<1>6. StuckOnlyThen'
    BY DEF StuckOnlyThen
<1> QED BY <1>1, <1>2, <1>3, <1>4, <1>5, <1>6 DEF IndInv

(* ConnectTip moves the coins, EvoDB and the index to the child.           *)
LEMMA ConnectTipKeeps ==
    ASSUME IndInv, NEW b \in Blocks, ConnectTip(b)
    PROVE  IndInv'
<1> USE DEF ConnectTip, WriteUndoDataForBlock, history
<1>0. TypeInv /\ PhaseInv /\ FilesInv /\ (lost \/ CoinInv) /\ EvoInv
    BY DEF IndInv
<1>a. b \in Blocks \ {Base} /\ tipBest \in Blocks /\ Parent[b] = tipBest /\ heads = <<>>
    BY <1>0 DEF PhaseInv, Loaded, Phases
<1>b. ConnectView(b) \in Caches /\ tip' \in Caches
    BY <1>0, <1>a, ConnectViewRight, MergeView DEF TypeInv
<1>c. cur = NoWrites /\ Evo = EvoLedger(tipBest) /\ evoDb \in Stored /\ root \in Writes /\ cur \in Writes
    BY <1>0 DEF EvoInv, TypeInv, Stored, Writes
<1>d. EvoConnect(b) \in Writes /\ Over(EvoConnect(b), Evo) = EvoLedger(b)
    BY <1>a, <1>c, ConnectEvo
<1>e. root' \in Writes /\ Evo' = EvoLedger(b)
    <2>1. root' = Over(Over(EvoConnect(b), cur), root) /\ cur' = NoWrites /\ evoDb' = evoDb
        OBVIOUS
    <2>2. /\ Over(Over(EvoConnect(b), cur), root) \in Writes
          /\ Over(NoWrites, Over(Over(Over(EvoConnect(b), cur), root), evoDb)) = Over(EvoConnect(b), Evo)
        BY <1>c, <1>d, CommitReads
    <2>3. Evo' = Over(NoWrites, Over(Over(Over(EvoConnect(b), cur), root), evoDb))
        BY <2>1 DEF Evo
    <2> QED BY <1>d, <2>1, <2>2, <2>3
<1>f. MinedOnce(b)
    <2>1. \A q \in Mines[b] : q \in Quorums /\ Evo[q] = Erased
        BY <1>a, TreeAssumption
    <2>2. Parent[b] \in Blocks /\ Evo = EvoLedger(Parent[b])
        BY <1>a, <1>c
    <2>3. \A q \in Quorums : EvoLedger(Parent[b])[q] = MinedIn[Parent[b]][q]
        BY <2>2, LedgerRight
    <2>4. \A q \in Mines[b] : MinedIn[Parent[b]][q] = Erased
        BY <2>1, <2>2, <2>3
    <2>5. MinedOnce(Parent[b])
        BY <1>0, <1>a, TreeAssumption DEF EvoInv
    <2> QED BY <1>a, <2>4, <2>5, MinedOnceRight
<1>1. TypeInv'
    BY SMT, <1>0, <1>a, <1>b, <1>c, <1>e DEF TypeInv, Levels, Writes
<1>2. PhaseInv'
    BY <1>0, <1>a DEF PhaseInv, Loaded, Phases
<1>3. FilesInv'
    <2>1. Chain[b] = Chain[tipBest] \cup {b} /\ Chain[b] \subseteq Blocks
        BY <1>a, ChainStep
    <2>2. \A a \in Chain[b] : index'[a] = "undo"
        BY <1>0, <2>1 DEF FilesInv, TypeInv, Loaded, Phases
    <2>3. \A a \in Blocks : /\ Rank(blockDb[a]) <= Rank(synced'[a])
                            /\ Rank(synced'[a]) <= Rank(files'[a])
                            /\ Rank(blockDb[a]) <= Rank(index'[a]) /\ Rank(index'[a]) <= Rank(files'[a])
        <3>1. CASE index[b] = "undo"
            BY <1>0, <3>1, RankRight DEF FilesInv, TypeInv, Loaded, Phases
        <3>2. CASE index[b] # "undo"
            <4>1. Rank(blockDb[b]) <= 1
                <5>1. index[b] \in Levels /\ blockDb[b] \in Levels /\ Rank(blockDb[b]) <= Rank(index[b])
                    BY <1>0 DEF FilesInv, TypeInv, Loaded, Phases
                <5> QED BY <3>2, <5>1, RankOrder
            <4>2. ASSUME NEW a \in Blocks, a # b
                  PROVE  /\ Rank(blockDb[a]) <= Rank(synced'[a]) /\ Rank(synced'[a]) <= Rank(files'[a])
                         /\ Rank(blockDb[a]) <= Rank(index'[a]) /\ Rank(index'[a]) <= Rank(files'[a])
                BY <1>0, <3>2, <4>2 DEF FilesInv, TypeInv, Loaded, Phases
            <4>3. files'[b] = "undo" /\ index'[b] = "undo"
                  /\ synced'[b] = IF synced[b] = "undo" THEN "data" ELSE synced[b]
                BY <1>0, <3>2 DEF TypeInv
            <4>4. synced[b] \in Levels /\ blockDb[b] \in Levels /\ Rank(blockDb[b]) <= Rank(synced[b])
                BY <1>0 DEF FilesInv, TypeInv
            <4>5. Rank(blockDb[b]) <= Rank("undo") /\ Rank("undo") <= Rank("undo")
                BY <4>4, RankOrder
            <4>6. Rank(blockDb[b]) <= Rank(synced'[b]) /\ Rank(synced'[b]) <= Rank("undo")
                BY <4>1, <4>3, <4>4, RankUnsynced
            <4> QED BY <4>2, <4>3, <4>5, <4>6
        <3> QED BY <3>1, <3>2
    <2> QED BY <1>0, <2>2, <2>3 DEF FilesInv
<1>4. (lost \/ CoinInv)'
    <2> SUFFICES ASSUME ~lost PROVE CoinInv'
        OBVIOUS
    <2>1. CoinInv /\ TipCoins = Utxo[Parent[b]]
        BY <1>0, <1>a DEF CoinInv
    <2>2. CacheRight(tip, db) /\ CacheRight(ConnectView(b), TipCoins)
          /\ \A o \in Outpoints : Seen(ConnectView(b)[o], TipCoins[o]) = Utxo[b][o]
        BY <1>0, <1>a, <2>1, ConnectViewRight DEF CoinInv, TypeInv
    <2>3. CacheRight(tip', db)
          /\ GetCoin(tip', db) = [o \in Outpoints |-> Seen(ConnectView(b)[o], TipCoins[o])]
        BY <1>0, <1>b, <2>2, MergeView DEF TypeInv
    <2>4. Utxo[b] = [o \in Outpoints |-> Utxo[b][o]]
        BY LedgersUnfold DEF CoinMaps
    <2>5. GetCoin(tip', db) = Utxo[b]
        BY <2>2, <2>3, <2>4
    <2> QED BY <1>a, <2>1, <2>3, <2>5 DEF CoinInv, TipCoins
<1>5. EvoInv'
    BY <1>0, <1>a, <1>c, <1>e, <1>f DEF EvoInv, OldTip
<1>6. StuckOnlyThen'
    BY DEF StuckOnlyThen
<1> QED BY <1>1, <1>2, <1>3, <1>4, <1>5, <1>6 DEF IndInv

(* DisconnectTip moves the coins and EvoDB to the parent.                  *)
LEMMA DisconnectTipKeeps ==
    ASSUME IndInv, DisconnectTip
    PROVE  IndInv'
<1> DEFINE b == tipBest
<1> USE DEF DisconnectTip, blockVars, history
<1>0. TypeInv /\ PhaseInv /\ FilesInv /\ (lost \/ CoinInv) /\ EvoInv
    BY DEF IndInv
<1>a. b \in Blocks \ {Base} /\ Parent[b] \in Blocks /\ heads = <<>> /\ tipBest' = Parent[b]
    BY <1>0, ChainStep DEF PhaseInv, Loaded, Phases
<1>b. DisconnectView(b) \in Caches /\ tip' \in Caches
    BY <1>0, <1>a, DisconnectViewRight, MergeView DEF TypeInv
<1>c. cur = NoWrites /\ Evo = EvoLedger(b) /\ evoDb \in Stored /\ root \in Writes /\ cur \in Writes
    BY <1>0 DEF EvoInv, TypeInv, Stored, Writes
<1>d. MinedOnce(b) /\ MinedOnce(Parent[b]) /\ \A q \in Mines[b] : MinedIn[Parent[b]][q] = Erased
    <2>1. MinedOnce(b)
        BY <1>0, <1>a, TreeAssumption DEF EvoInv
    <2>2. b \in Chain[b] /\ Parent[b] \in Chain[b]
        BY <1>a, ChainStep
    <2> QED BY <1>a, <2>1, <2>2, MinedOnceRight
<1>e. EvoDisconnect(b) \in Writes /\ Over(EvoDisconnect(b), Evo) = EvoLedger(Parent[b])
    BY <1>a, <1>c, <1>d, DisconnectEvo
<1>f. root' \in Writes /\ Evo' = EvoLedger(Parent[b])
    <2>1. root' = Over(Over(EvoDisconnect(b), cur), root) /\ cur' = NoWrites /\ evoDb' = evoDb
        OBVIOUS
    <2>2. /\ Over(Over(EvoDisconnect(b), cur), root) \in Writes
          /\ Over(NoWrites, Over(Over(Over(EvoDisconnect(b), cur), root), evoDb))
              = Over(EvoDisconnect(b), Evo)
        BY <1>c, <1>e, CommitReads
    <2>3. Evo' = Over(NoWrites, Over(Over(Over(EvoDisconnect(b), cur), root), evoDb))
        BY <2>1 DEF Evo
    <2> QED BY <1>e, <2>1, <2>2, <2>3
<1>1. TypeInv'
    BY <1>0, <1>a, <1>b, <1>c, <1>f DEF TypeInv, Writes
<1>2. PhaseInv'
    BY <1>0, <1>a DEF PhaseInv, Loaded, Phases
<1>3. FilesInv'
    <2>1. Chain[Parent[b]] \subseteq Chain[b]
        BY <1>a, ChainStep
    <2> QED BY <1>0, <1>a, <2>1 DEF FilesInv
<1>4. (lost \/ CoinInv)'
    <2> SUFFICES ASSUME ~lost PROVE CoinInv'
        OBVIOUS
    <2>1. CoinInv /\ TipCoins = Utxo[b]
        BY <1>0, <1>a DEF CoinInv
    <2>2. CacheRight(tip, db) /\ CacheRight(DisconnectView(b), TipCoins)
          /\ \A o \in Outpoints : Seen(DisconnectView(b)[o], TipCoins[o]) = Utxo[Parent[b]][o]
        BY <1>0, <1>a, <2>1, DisconnectViewRight DEF CoinInv, TypeInv
    <2>3. CacheRight(tip', db)
          /\ GetCoin(tip', db) = [o \in Outpoints |-> Seen(DisconnectView(b)[o], TipCoins[o])]
        BY <1>0, <1>a, <1>b, <2>2, MergeView DEF TypeInv
    <2>4. Utxo[Parent[b]] = [o \in Outpoints |-> Utxo[Parent[b]][o]]
        BY <1>a, LedgersUnfold DEF CoinMaps
    <2>5. GetCoin(tip', db) = Utxo[Parent[b]]
        BY <2>2, <2>3, <2>4
    <2> QED BY <1>a, <2>1, <2>3, <2>5 DEF CoinInv, TipCoins
<1>5. EvoInv'
    BY <1>0, <1>a, <1>c, <1>d, <1>f DEF EvoInv, OldTip
<1>6. StuckOnlyThen'
    BY DEF StuckOnlyThen
<1> QED BY <1>1, <1>2, <1>3, <1>4, <1>5, <1>6 DEF IndInv

(* Entries of the cache written to the database and erased: no answer      *)
(* changes, and the database moves towards the cache.                      *)
LEMMA DbWriteRight ==
    ASSUME NEW S \in SUBSET Outpoints, tip \in Caches, db \in CoinMaps
    PROVE  /\ DbWrite(tip, db, S) \in CoinMaps /\ Without(S) \in Caches
           /\ Without(Outpoints) = Empty
           /\ CacheRight(tip, db) =>
                /\ CacheRight(Without(S), DbWrite(tip, db, S))
                /\ GetCoin(Without(S), DbWrite(tip, db, S)) = TipCoins
                /\ DbWrite(tip, db, Outpoints) = TipCoins
                /\ \A o \in Outpoints : DbWrite(tip, db, S)[o] \in {db[o], TipCoins[o]}
<1> DEFINE d == DbWrite(tip, db, S)
           t == Without(S)
<1>0. \A o \in Outpoints : tip[o] \in Entries \cup {Absent} /\ db[o] \in Coins \cup {Spent}
    BY DEF Caches, CoinMaps
<1>1. d \in CoinMaps
    BY <1>0 DEF DbWrite, CoinMaps, Entries
<1>2. t \in Caches
    BY <1>0 DEF Without, Caches
<1>3. Without(Outpoints) = Empty
    BY DEF Without, Empty
<1>4. ASSUME CacheRight(tip, db)
      PROVE  /\ CacheRight(t, d) /\ GetCoin(t, d) = TipCoins
             /\ DbWrite(tip, db, Outpoints) = TipCoins
             /\ \A o \in Outpoints : d[o] \in {db[o], TipCoins[o]}
    <2>1. ASSUME NEW o \in Outpoints
          PROVE  /\ EntryRight(t[o], d[o])
                 /\ Seen(t[o], d[o]) = Seen(tip[o], db[o])
                 /\ DbWrite(tip, db, Outpoints)[o] = Seen(tip[o], db[o])
                 /\ d[o] \in {db[o], Seen(tip[o], db[o])}
        <3>1. EntryRight(tip[o], db[o])
            BY <1>4 DEF CacheRight
        <3>2. t[o] = (IF o \in S THEN Absent ELSE tip[o])
              /\ d[o] = (IF o \in S /\ tip[o] # Absent /\ tip[o].dirty THEN tip[o].coin ELSE db[o])
              /\ DbWrite(tip, db, Outpoints)[o]
                  = (IF tip[o] # Absent /\ tip[o].dirty THEN tip[o].coin ELSE db[o])
            BY DEF Without, DbWrite
        <3> QED BY <3>1, <3>2 DEF EntryRight, Seen
    <2>2. TipCoins = [o \in Outpoints |-> Seen(tip[o], db[o])]
        BY GetCoinIsSeen DEF TipCoins
    <2>3. DbWrite(tip, db, Outpoints) = [o \in Outpoints |-> DbWrite(tip, db, Outpoints)[o]]
        BY DEF DbWrite
    <2> HIDE DEF d, t
    <2>4. GetCoin(t, d) = [o \in Outpoints |-> Seen(t[o], d[o])]
        BY <1>1, <1>2, GetCoinIsSeen
    <2>5. CacheRight(t, d)
        BY <2>1 DEF CacheRight
    <2> QED BY <2>1, <2>2, <2>3, <2>4, <2>5
<1> QED BY <1>1, <1>2, <1>3, <1>4

(* A partial batch leaves every coin at one of the two heads.              *)
LEMMA WriteBatchKeeps ==
    ASSUME IndInv, NEW S \in SUBSET Outpoints, WriteBatch(S)
    PROVE  IndInv'
<1> USE DEF WriteBatch, blockVars, evoVars, history
<1>0. TypeInv /\ PhaseInv /\ FilesInv /\ (lost \/ CoinInv) /\ EvoInv
    BY DEF IndInv
<1>a. tipBest \in Blocks /\ OldTip \in Blocks /\ None \notin Blocks
    <2>1. heads # <<>> => heads[2] \in Blocks
        BY <1>0 DEF TypeInv, Heads
    <2> QED BY <1>0, <2>1, TreeAssumption DEF TypeInv, PhaseInv, OldTip, Loaded, Phases
<1>b. heads' \in Heads /\ heads' # <<>> /\ heads'[1] = tipBest /\ heads'[2] = OldTip
    BY <1>a DEF Heads
<1>c. db' \in CoinMaps /\ tip' \in Caches
    BY <1>0, DbWriteRight DEF TypeInv
<1>d. /\ \A a \in Chain[tipBest] : blockDb[a] = "undo"
      /\ \A a \in Chain[OldTip] : blockDb[a] = "undo"
      /\ MinedOnce(tipBest) /\ MinedOnce(OldTip)
    BY <1>0, <1>a DEF FilesInv, EvoInv, OldTip, PhaseInv, Loaded, Phases
<1>1. TypeInv'
    BY <1>0, <1>b, <1>c DEF TypeInv
<1>2. PhaseInv'
    BY <1>0, <1>a, <1>b DEF PhaseInv
<1>3. FilesInv'
    BY <1>0, <1>b, <1>d DEF FilesInv
<1>4. (lost \/ CoinInv)'
    <2> SUFFICES ASSUME ~lost PROVE CoinInv'
        OBVIOUS
    <2>1. CoinInv /\ TipCoins = Utxo[tipBest] /\ CacheRight(tip, db)
        BY <1>0 DEF CoinInv
    <2>2. CacheRight(tip', db') /\ GetCoin(tip', db') = TipCoins
          /\ \A o \in Outpoints : db'[o] \in {db[o], TipCoins[o]}
        BY <1>0, <2>1, DbWriteRight DEF TypeInv
    <2>3. \A o \in Outpoints : db[o] \in {Utxo[tipBest][o], Utxo[OldTip][o]}
        BY <1>0, <2>1 DEF CoinInv, PhaseInv, OldTip
    <2>4. \A o \in Outpoints : db'[o] \in {Utxo[tipBest][o], Utxo[OldTip][o]}
        BY <2>1, <2>2, <2>3
    <2> QED BY <1>b, <2>1, <2>2, <2>4 DEF CoinInv, TipCoins
<1>5. EvoInv'
    <2>1. OldTip' = OldTip
        BY <1>b DEF OldTip
    <2> QED BY <1>0, <1>b, <1>d, <2>1 DEF EvoInv, Evo
<1>6. StuckOnlyThen'
    BY DEF StuckOnlyThen
<1> QED BY <1>1, <1>2, <1>3, <1>4, <1>5, <1>6 DEF IndInv

(* A batch that throws loses coins, and nothing else.                      *)
LEMMA BatchFailsKeeps ==
    ASSUME IndInv, NEW S \in SUBSET Outpoints, BatchFails(S)
    PROVE  IndInv'
<1> USE DEF BatchFails, blockVars, evoVars
<1>0. TypeInv /\ PhaseInv /\ FilesInv /\ EvoInv
    BY DEF IndInv
<1>1. TypeInv'
    BY <1>0, DbWriteRight DEF TypeInv, Phases
<1>2. PhaseInv'
    BY <1>0 DEF PhaseInv, Loaded, Phases
<1>3. FilesInv'
    BY <1>0 DEF FilesInv, Loaded, Phases
<1>5. EvoInv'
    BY <1>0 DEF EvoInv, Evo, OldTip
<1>6. lost' /\ StuckOnlyThen'
    BY DEF StuckOnlyThen
<1> QED BY <1>1, <1>2, <1>3, <1>5, <1>6 DEF IndInv

(* The last batch completes the ledger of the new head, and only then does *)
(* DB_BEST_BLOCK name it.                                                  *)
LEMMA FinalBatchKeeps ==
    ASSUME IndInv, FinalBatch
    PROVE  IndInv'
<1> USE DEF FinalBatch, blockVars, history
<1>0. TypeInv /\ PhaseInv /\ FilesInv /\ (lost \/ CoinInv) /\ EvoInv
    BY DEF IndInv
<1>a. tipBest \in Blocks /\ None \notin Blocks
    BY <1>0, TreeAssumption DEF PhaseInv, Loaded, Phases
<1>b. db' \in CoinMaps /\ tip' \in Caches /\ CacheRight(tip', db')
    <2>1. db' \in CoinMaps
        BY <1>0, DbWriteRight DEF TypeInv
    <2> QED BY <2>1, EmptyRight
<1>c. root' \in Writes /\ cur' = NoWrites /\ NoWrites \in Writes
      /\ Over(root', evoDb) = EvoLedger(tipBest)
    <2>1. root \in Writes /\ cur \in Writes /\ evoDb \in Stored /\ Evo = EvoLedger(tipBest)
        BY <1>0 DEF TypeInv, EvoInv, Writes, Stored
    <2> QED BY <2>1, OverRight DEF Evo
<1>1. TypeInv'
    BY <1>0, <1>a, <1>b, <1>c DEF TypeInv, Phases, Heads, Writes
<1>2. PhaseInv'
    BY <1>0, <1>a DEF PhaseInv, Loaded, Phases
<1>3. FilesInv'
    BY <1>0, <1>a DEF FilesInv, Loaded, Phases
<1>4. (lost \/ CoinInv)'
    <2> SUFFICES ASSUME ~lost PROVE CoinInv'
        OBVIOUS
    <2>1. TipCoins = Utxo[tipBest] /\ CacheRight(tip, db)
        BY <1>0 DEF CoinInv
    <2>2. db' = Utxo[tipBest]
        BY <1>0, <2>1, DbWriteRight DEF TypeInv
    <2> QED BY <1>b, <2>2 DEF CoinInv
<1>5. EvoInv'
    BY <1>0, <1>a, <1>c DEF EvoInv
<1>6. StuckOnlyThen'
    BY DEF StuckOnlyThen
<1> QED BY <1>1, <1>2, <1>3, <1>4, <1>5, <1>6 DEF IndInv

(* EvoDB follows the coins to the same block.                              *)
LEMMA CommitRootKeeps ==
    ASSUME IndInv, CommitRoot
    PROVE  IndInv'
<1> USE DEF CommitRoot, blockVars, coinVars, history
<1>0. TypeInv /\ PhaseInv /\ FilesInv /\ (lost \/ CoinInv) /\ EvoInv
    BY DEF IndInv
<1>a. heads = <<>> /\ tipBest = best /\ tipBest \in Blocks /\ best # None /\ tip = Empty
    BY <1>0 DEF PhaseInv, Loaded, Phases
<1>b. /\ root \in Writes /\ evoDb \in Stored /\ evoDb["best"] \in Blocks
      /\ evoDb = EvoLedger(evoDb["best"])
    BY <1>0 DEF TypeInv, EvoInv, Writes, Stored
<1>c. \/ evoDb' = EvoLedger(tipBest)
      \/ mode = "boot" /\ torn /\ evoDb' = evoDb
    BY <1>0, <1>b, OverRight DEF EvoInv
<1>d. evoDb' \in Stored /\ NoWrites \in Writes
    BY <1>b, OverRight
<1>e. /\ evoDb'["best"] \in Blocks /\ evoDb' = EvoLedger(evoDb'["best"])
      /\ torn \/ evoDb'["best"] = best
      /\ mode = "run" => evoDb' = EvoLedger(tipBest) /\ evoDb'["best"] = best
    BY <1>a, <1>b, <1>c, LedgerRight
<1>f. (pc' = "up" /\ mode = "run") \/ (pc' = "verify" /\ mode = "boot")
    BY <1>0 DEF TypeInv
<1>1. TypeInv'
    BY <1>0, <1>d, <1>f DEF TypeInv, Phases, Writes, Stored
<1>2. PhaseInv'
    BY <1>0, <1>a, <1>f DEF PhaseInv, Loaded, Phases
<1>3. FilesInv'
    BY <1>0, <1>f DEF FilesInv, Loaded, Phases
<1>4. (lost \/ CoinInv)'
    <2> SUFFICES ASSUME ~lost PROVE CoinInv'
        OBVIOUS
    <2>1. CoinInv /\ db = Utxo[tipBest]
        BY <1>0, <1>a DEF CoinInv
    <2>2. TipCoins = db
        BY <1>0, <1>a, EmptyRight DEF TipCoins, TypeInv
    <2> QED BY <1>a, <1>f, <2>1, <2>2 DEF CoinInv, TipCoins
<1>5. EvoInv'
    <2>1. mode = "run" => Evo' = EvoLedger(tipBest)
        <3>1. Over(NoWrites, evoDb') = evoDb'
            BY <1>d, OverRight
        <3> QED BY <1>e, <3>1 DEF Evo
    <2>2. OldTip' = best
        BY <1>a DEF OldTip
    <2> QED BY <1>0, <1>a, <1>e, <1>f, <2>1, <2>2 DEF EvoInv
<1>6. StuckOnlyThen'
    BY <1>f DEF StuckOnlyThen
<1> QED BY <1>1, <1>2, <1>3, <1>4, <1>5, <1>6 DEF IndInv

(* The same at shutdown.                                                   *)
LEMMA CloseKeeps ==
    ASSUME IndInv, Close
    PROVE  IndInv'
<1> USE DEF Close, Forget, history
<1>0. TypeInv /\ PhaseInv /\ FilesInv /\ (lost \/ CoinInv) /\ EvoInv
    BY DEF IndInv
<1>a. heads = <<>> /\ tipBest = best /\ best \in Blocks /\ None \notin Blocks
    BY <1>0, TreeAssumption DEF PhaseInv, Loaded, Phases
<1>b. evoDb' = EvoLedger(best) /\ evoDb' \in Stored /\ evoDb'["best"] = best /\ NoWrites \in Writes
    BY <1>0, <1>a, LedgerRight, OverRight DEF EvoInv
<1>c. Empty \in Caches /\ CacheRight(Empty, db)
    BY <1>0, EmptyRight DEF TypeInv
<1>1. TypeInv'
    BY <1>0, <1>b, <1>c DEF TypeInv, Phases, Writes, Stored, Levels
<1>2. PhaseInv'
    BY <1>0 DEF PhaseInv, Loaded, Phases
<1>3. FilesInv'
    BY <1>0 DEF FilesInv, Loaded
<1>4. (lost \/ CoinInv)'
    BY <1>0, <1>c DEF CoinInv
<1>5. EvoInv'
    BY <1>0, <1>a, <1>b DEF EvoInv
<1>6. StuckOnlyThen'
    BY DEF StuckOnlyThen
<1> QED BY <1>1, <1>2, <1>3, <1>4, <1>5, <1>6 DEF IndInv

(* A crash at any point leaves the stores so that they can be read again,  *)
(* but for one between the coins and EvoDB, which is recorded.             *)
LEMMA CrashKeeps ==
    ASSUME IndInv, Crash
    PROVE  IndInv'
<1> USE DEF Crash, Forget
<1>0. TypeInv /\ PhaseInv /\ FilesInv /\ (lost \/ CoinInv) /\ EvoInv
    BY DEF IndInv
<1>a. pc \in Loaded
    BY <1>0 DEF TypeInv, Loaded
<1>b. Empty \in Caches /\ CacheRight(Empty, db) /\ NoWrites \in Writes
    BY <1>0, EmptyRight, OverRight DEF TypeInv
<1>c. files' \in [Blocks -> Levels] /\ synced' = files'
      /\ \A a \in Blocks : Rank(synced[a]) <= Rank(files'[a])
    OBVIOUS
<1>1. TypeInv'
    BY <1>0, <1>b, <1>c DEF TypeInv, Phases, Writes, Levels
<1>2. PhaseInv'
    BY <1>0 DEF PhaseInv, Loaded, Phases
<1>3. FilesInv'
    <2>1. \A a \in Blocks : Rank(blockDb[a]) <= Rank(synced'[a]) /\ Rank(synced'[a]) <= Rank(files'[a])
        <3> SUFFICES ASSUME NEW a \in Blocks
                     PROVE  Rank(blockDb[a]) <= Rank(files'[a]) /\ Rank(files'[a]) <= Rank(files'[a])
            BY <1>c
        <3>1. blockDb[a] \in Levels /\ synced[a] \in Levels /\ files'[a] \in Levels
            BY <1>0, <1>c DEF TypeInv
        <3>2. Rank(blockDb[a]) <= Rank(synced[a]) /\ Rank(synced[a]) <= Rank(files'[a])
            BY <1>0, <1>c DEF FilesInv
        <3> QED BY <3>1, <3>2, RankOrder
    <2> QED BY <1>0, <2>1 DEF FilesInv, Loaded
<1>4. (lost \/ CoinInv)'
    BY <1>0, <1>b DEF CoinInv
<1>5. EvoInv'
    <2>1. heads # <<>> => evoDb["best"] = heads[2]
        BY <1>0, <1>a DEF EvoInv, PhaseInv, OldTip, Loaded, Phases
    <2>2. heads = <<>> => torn' \/ evoDb["best"] = best
        <3>1. CASE pc \in {"up", "index", "coins", "abort", "replay"}
            BY <1>0, <3>1 DEF EvoInv, PhaseInv, OldTip
        <3>2. CASE pc = "verify"
            BY <1>0, <3>2 DEF EvoInv
        <3>3. CASE pc = "evo"
            <4>1. CASE root = NoWrites
                <5>1. Over(root, evoDb) = evoDb
                    BY <1>0, <4>1, OverRight DEF TypeInv, Stored
                <5>2. tipBest = best /\ best \in Blocks
                    BY <1>0, <3>3 DEF PhaseInv, Loaded, Phases
                <5>3. torn \/ Over(root, evoDb) = EvoLedger(best)
                    BY <1>0, <3>3, <5>2 DEF EvoInv
                <5>4. EvoLedger(best)["best"] = best
                    BY <5>2, LedgerRight
                <5> QED BY <5>1, <5>3, <5>4
            <4>2. CASE root # NoWrites
                BY <3>3, <4>2
            <4> QED BY <4>1, <4>2
        <3> QED BY <1>a, <3>1, <3>2, <3>3 DEF Loaded, Phases
    <2>3. pc # "stuck"
        OBVIOUS
    <2> QED BY <1>0, <2>1, <2>2, <2>3 DEF EvoInv
<1>6. StuckOnlyThen'
    BY DEF StuckOnlyThen
<1> QED BY <1>1, <1>2, <1>3, <1>4, <1>5, <1>6 DEF IndInv

(* A consistent coin database is taken up as it is.                        *)
LEMMA BootKeeps ==
    ASSUME IndInv, Boot
    PROVE  IndInv'
<1> USE DEF Boot, LoadIndex, LoadChainTip, evoVars, history
<1>0. TypeInv /\ PhaseInv /\ FilesInv /\ (lost \/ CoinInv) /\ EvoInv
    BY DEF IndInv
<1>a. best \in Blocks /\ best # None
    BY <1>0 DEF TypeInv, PhaseInv
<1>1. TypeInv'
    BY <1>0 DEF TypeInv, Phases
<1>2. PhaseInv'
    BY <1>0, <1>a DEF PhaseInv
<1>3. FilesInv'
    <2>1. \A a \in Blocks : Rank(blockDb[a]) <= Rank(blockDb[a]) /\ Rank(blockDb[a]) <= Rank(files[a])
        <3> SUFFICES ASSUME NEW a \in Blocks
                     PROVE  Rank(blockDb[a]) <= Rank(blockDb[a]) /\ Rank(blockDb[a]) <= Rank(files[a])
            OBVIOUS
        <3>1. blockDb[a] \in Levels /\ synced[a] \in Levels /\ files[a] \in Levels
              /\ Rank(blockDb[a]) <= Rank(synced[a]) /\ Rank(synced[a]) <= Rank(files[a])
            BY <1>0 DEF TypeInv, FilesInv
        <3> QED BY <3>1, RankOrder
    <2> QED BY <1>0, <1>a, <2>1 DEF FilesInv
<1>4. (lost \/ CoinInv)'
    BY <1>0 DEF CoinInv
<1>5. EvoInv'
    <2>1. root = NoWrites /\ Over(root, evoDb) = evoDb
        BY <1>0, OverRight DEF EvoInv, TypeInv, Stored
    <2>2. torn \/ Over(root, evoDb) = EvoLedger(best)
        BY <1>0, <2>1 DEF EvoInv
    <2> QED BY <1>0, <1>a, <2>1, <2>2 DEF EvoInv
<1>6. StuckOnlyThen'
    BY DEF StuckOnlyThen
<1> QED BY <1>1, <1>2, <1>3, <1>4, <1>5, <1>6 DEF IndInv

(* Otherwise the replay starts at the old head: EvoDB is still there, and  *)
(* every coin is at the old or at the new one.                             *)
LEMMA ReplayBlocksKeeps ==
    ASSUME IndInv, ReplayBlocks
    PROVE  IndInv'
<1> USE DEF ReplayBlocks, LoadIndex, CanReplay, evoVars, history
<1>0. TypeInv /\ PhaseInv /\ FilesInv /\ (lost \/ CoinInv) /\ EvoInv
    BY DEF IndInv
<1>a. heads[1] \in Blocks /\ heads[2] \in Blocks /\ best = None
    BY <1>0 DEF TypeInv, Heads, PhaseInv
<1>1. TypeInv'
    BY <1>0, <1>a DEF TypeInv, Phases
<1>2. PhaseInv'
    BY <1>0, <1>a DEF PhaseInv
<1>3. FilesInv'
    <2>1. \A a \in Blocks : Rank(blockDb[a]) <= Rank(blockDb[a]) /\ Rank(blockDb[a]) <= Rank(files[a])
        <3> SUFFICES ASSUME NEW a \in Blocks
                     PROVE  Rank(blockDb[a]) <= Rank(blockDb[a]) /\ Rank(blockDb[a]) <= Rank(files[a])
            OBVIOUS
        <3>1. blockDb[a] \in Levels /\ synced[a] \in Levels /\ files[a] \in Levels
              /\ Rank(blockDb[a]) <= Rank(synced[a]) /\ Rank(synced[a]) <= Rank(files[a])
            BY <1>0 DEF TypeInv, FilesInv
        <3> QED BY <3>1, RankOrder
    <2> QED BY <1>0, <1>a, <2>1 DEF FilesInv
<1>4. (lost \/ CoinInv)'
    <2>1. GetCoin(tip, db) = db
        BY <1>0, EmptyRight DEF PhaseInv, TypeInv
    <2> QED BY <1>0, <2>1 DEF CoinInv, TipCoins
<1>5. EvoInv'
    <2>1. root = NoWrites /\ cur = NoWrites /\ evoDb["best"] = heads[2] /\ evoDb = EvoLedger(heads[2])
          /\ evoDb \in Stored
        BY <1>0 DEF EvoInv, TypeInv, Stored
    <2>2. Evo' = evoDb
        BY <2>1, OverRight DEF Evo
    <2>3. evoDb["upgrade"] = heads[2] /\ \A q \in Quorums : evoDb[q] = MinedIn[heads[2]][q]
        BY <1>a, <2>1, LedgerRight
    <2>4. OldTip' = heads[2]
        BY <1>a DEF OldTip
    <2> QED BY <1>0, <1>a, <2>1, <2>2, <2>3, <2>4 DEF EvoInv
<1>6. StuckOnlyThen'
    BY DEF StuckOnlyThen
<1> QED BY <1>1, <1>2, <1>3, <1>4, <1>5, <1>6 DEF IndInv

(* The next block of a replay is a child on the way to the new head; it is *)
(* in the files and its commitments are new, so RollforwardBlock succeeds. *)
LEMMA ReplayNextRight ==
    ASSUME IndInv, pc = "replay", tipBest # heads[1]
    PROVE  /\ ReplayNext \in Chain[heads[1]] \ {Base} /\ Parent[ReplayNext] = tipBest
           /\ heads[1] \in Blocks /\ ReplayNext \in Blocks
           /\ CanRollforward(ReplayNext)
<1>0. TypeInv /\ PhaseInv /\ FilesInv /\ EvoInv
    BY DEF IndInv
<1>1. heads # <<>> /\ heads[1] \in Blocks /\ tipBest \in Chain[heads[1]]
    BY <1>0 DEF TypeInv, Heads, PhaseInv
<1>2. \E b \in Chain[heads[1]] \ {Base} : Parent[b] = tipBest
    BY <1>1, ChainGoesOn
<1> DEFINE n == ReplayNext
<1>3. n \in Chain[heads[1]] \ {Base} /\ Parent[n] = tipBest
    BY <1>2 DEF ReplayNext
<1> HIDE DEF n
<1>4. n \in Blocks
    BY <1>1, <1>3, ChainStep
<1>5. files[n] # "none"
    <2>1. blockDb[n] = "undo" /\ files[n] \in Levels /\ synced[n] \in Levels
          /\ Rank(blockDb[n]) <= Rank(synced[n]) /\ Rank(synced[n]) <= Rank(files[n])
        BY <1>0, <1>1, <1>3, <1>4 DEF FilesInv, TypeInv
    <2> QED BY SMT, <2>1, RankRight
<1>6. \A q \in Mines[n] : Evo[q] = Erased
    <2>1. MinedOnce(heads[1]) /\ \A q \in Quorums : Evo[q] = MinedIn[tipBest][q]
        BY <1>0, <1>1 DEF EvoInv
    <2>2. \A q \in Mines[n] : q \in Quorums /\ MinedIn[Parent[n]][q] = Erased
        BY SMT, <1>1, <1>3, <1>4, <2>1, MinedOnceRight, TreeAssumption
    <2> QED BY <1>3, <2>1, <2>2
<1> QED BY <1>1, <1>3, <1>4, <1>5, <1>6 DEF n, CanRollforward

(* Rolling forward: what is not yet at the new head moves with the block.  *)
LEMMA ReplayBlockKeeps ==
    ASSUME IndInv, ReplayBlock
    PROVE  IndInv'
<1> USE DEF ReplayBlock, blockVars, history
<1>0. TypeInv /\ PhaseInv /\ FilesInv /\ (lost \/ CoinInv) /\ EvoInv
    BY DEF IndInv
<1> DEFINE n == ReplayNext
           w == [EvoConnect(n) EXCEPT !["best"] = Unset]
<1>a. n \in Chain[heads[1]] \ {Base} /\ Parent[n] = tipBest /\ heads[1] \in Blocks /\ n \in Blocks
    BY ReplayNextRight
<1>b. tipBest' = n /\ tip' = RollforwardBlock(tip, n) /\ cur' = Over(w, cur)
    OBVIOUS
<1>c. heads # <<>> /\ best = None /\ mode = "boot"
    BY <1>0 DEF PhaseInv
<1> HIDE DEF n
<1>d. /\ w \in Writes /\ w["upgrade"] = n
      /\ \A q \in Quorums : w[q] = IF q \in Mines[n] THEN n ELSE Unset
    <2>1. EvoConnect(n) \in Writes
        BY <1>a, ConnectEvo
    <2>2. EvoConnect(n)["upgrade"] = n
          /\ \A q \in Quorums : EvoConnect(n)[q] = IF q \in Mines[n] THEN n ELSE Unset
        BY EvoValues DEF EvoConnect
    <2> QED BY <2>1, <2>2, EvoValues DEF Writes
<1> HIDE DEF w
<1>e. root \in Writes /\ cur \in Writes /\ evoDb \in Stored /\ cur' \in Writes
    <2>1. root \in Writes /\ cur \in Writes /\ evoDb \in Stored
        BY <1>0 DEF TypeInv, Writes, Stored
    <2>2. Over(w, cur) \in Writes
        BY <1>d, <2>1, OverRight
    <2> QED BY <1>b, <2>1, <2>2
<1>f. Evo' = Over(w, Evo)
    <2>1. Over(root, evoDb) \in Stored
        BY <1>e, OverRight
    <2> QED BY SMT, <1>b, <1>d, <1>e, <2>1, OverRight DEF Evo
<1>1. TypeInv'
    <2>1. tip' \in Caches
        BY <1>0, <1>a, <1>b, RollforwardRight DEF TypeInv
    <2> QED BY <1>0, <1>a, <1>b, <1>e, <2>1 DEF TypeInv, Writes
<1>2. PhaseInv'
    BY <1>0, <1>a, <1>b, <1>c DEF PhaseInv
<1>3. FilesInv'
    <2>1. Chain[n] \subseteq Chain[heads[1]]
        BY <1>a, ChainOfAncestor
    <2>2. \A a \in Chain[n] : index[a] = "undo"
        BY SMT, <1>0, <1>c, <2>1 DEF FilesInv
    <2> QED BY <1>0, <1>b, <1>c, <2>2 DEF FilesInv
<1>4. (lost \/ CoinInv)'
    <2> SUFFICES ASSUME ~lost PROVE CoinInv'
        OBVIOUS
    <2>1. CoinInv /\ CacheRight(tip, db)
          /\ \A o \in Outpoints : TipCoins[o] \in {Utxo[tipBest][o], Utxo[heads[1]][o]}
        BY <1>0 DEF CoinInv
    <2>2. CacheRight(tip', db)
          /\ \A o \in Outpoints : GetCoin(tip', db)[o] = IF o \in Creates[n] THEN Height[n]
                                     ELSE IF o \in Spends[n] THEN Spent ELSE TipCoins[o]
        <3>1. n \in Blocks \ {Base} /\ tip \in Caches /\ db \in CoinMaps
            BY <1>0, <1>a DEF TypeInv
        <3> QED BY SMT, <1>b, <2>1, <3>1, RollforwardRight
    <2>3. ASSUME NEW o \in Outpoints
          PROVE  GetCoin(tip', db)[o] \in {Utxo[n][o], Utxo[heads[1]][o]}
        <3>1. Utxo[n][o] = IF o \in Creates[n] THEN Height[n]
                           ELSE IF o \in Spends[n] THEN Spent ELSE Utxo[tipBest][o]
            <4>1. n \in Blocks \ {Base} /\ Parent[n] = tipBest
                BY <1>a
            <4> QED BY <4>1, UtxoStep
        <3> QED BY <2>1, <2>2, <3>1
    <2> QED BY <1>b, <1>c, <2>1, <2>2, <2>3 DEF CoinInv, TipCoins
<1>5. EvoInv'
    <2>1. Evo'["upgrade"] = n
        BY <1>a, <1>d, <1>f, EvoValues DEF Over
    <2>2. ASSUME NEW q \in Quorums PROVE Evo'[q] = MinedIn[n][q]
        <3>1. Evo'[q] = IF q \in Mines[n] THEN n ELSE Evo[q]
            BY <1>a, <1>d, <1>f, EvoValues DEF Over
        <3>2. Evo[q] = MinedIn[tipBest][q]
            BY <1>0 DEF EvoInv
        <3>3. MinedIn[n][q] = IF q \in Mines[n] THEN n ELSE MinedIn[tipBest][q]
            BY <1>a, MinedStep
        <3> QED BY <3>1, <3>2, <3>3
    <2>3. MinedOnce(n)
        BY <1>0, <1>a, <1>c, MinedOnceRight DEF EvoInv
    <2>4. OldTip' = OldTip
        BY DEF OldTip
    <2> QED BY <1>0, <1>b, <1>c, <2>1, <2>2, <2>3, <2>4 DEF EvoInv
<1>6. StuckOnlyThen'
    BY DEF StuckOnlyThen
<1> QED BY <1>1, <1>2, <1>3, <1>4, <1>5, <1>6 DEF IndInv

(* At the new head the cache is its ledger, and so is the transaction.     *)
LEMMA ReplayDoneKeeps ==
    ASSUME IndInv, ReplayDone
    PROVE  IndInv'
<1> USE DEF ReplayDone, blockVars, coinVars, history
<1>0. TypeInv /\ PhaseInv /\ FilesInv /\ (lost \/ CoinInv) /\ EvoInv
    BY DEF IndInv
<1>a. heads # <<>> /\ tipBest \in Blocks /\ mode = "boot"
    BY <1>0 DEF PhaseInv, Loaded, Phases
<1>b. root \in Writes /\ cur \in Writes /\ evoDb \in Stored /\ Evo \in Stored
    BY <1>0, OverRight DEF TypeInv, Writes, Stored, Evo
<1>c. cur' \in Writes /\ cur'["best"] = tipBest /\ \A k \in EvoKeys : k # "best" => cur'[k] = cur[k]
    BY <1>a, <1>b, EvoValues DEF Writes
<1>1. TypeInv'
    BY <1>0, <1>c DEF TypeInv, Phases, Writes
<1>2. PhaseInv'
    BY <1>0 DEF PhaseInv, Loaded, Phases
<1>3. FilesInv'
    BY <1>0 DEF FilesInv, Loaded, Phases
<1>4. (lost \/ CoinInv)'
    <2> SUFFICES ASSUME ~lost PROVE CoinInv'
        OBVIOUS
    <2>1. CoinInv /\ \A o \in Outpoints : TipCoins[o] = Utxo[tipBest][o]
        BY <1>0 DEF CoinInv
    <2>2. TipCoins \in CoinMaps /\ Utxo[tipBest] \in CoinMaps
        BY <1>0, <1>a, GetCoinIsSeen, LedgersUnfold DEF TypeInv, TipCoins
    <2>3. TipCoins = Utxo[tipBest]
        BY SMT, <2>1, <2>2 DEF CoinMaps
    <2> QED BY <2>1, <2>3 DEF CoinInv, TipCoins
<1>5. EvoInv'
    <2>1. Evo' \in Stored
        BY <1>b, <1>c, OverRight DEF Evo
    <2>2. \A k \in EvoKeys : k # "best" => Evo'[k] = Evo[k]
        BY <1>c DEF Evo, Over
    <2>3. Evo'["best"] = tipBest
        BY <1>a, <1>c, EvoValues DEF Evo, Over
    <2>4. Evo'["upgrade"] = tipBest /\ \A q \in Quorums : Evo'[q] = MinedIn[tipBest][q]
        BY <1>0, <2>2, EvoValues DEF EvoInv
    <2>5. Evo' = EvoLedger(tipBest)
        <3> DEFINE e == Evo'
                   l == EvoLedger(tipBest)
        <3>1. /\ l \in Stored /\ e["best"] = l["best"] /\ e["upgrade"] = l["upgrade"]
              /\ \A q \in Quorums : e[q] = l[q]
            BY <1>a, <2>3, <2>4, LedgerRight
        <3>2. e \in Stored
            BY <2>1
        <3> HIDE DEF e, l
        <3>3. e = l
            BY <3>1, <3>2, StoredEqual
        <3> QED BY <3>3 DEF e, l
    <2>6. OldTip' = OldTip
        BY DEF OldTip
    <2> QED BY <1>0, <1>a, <2>5, <2>6 DEF EvoInv
<1>6. StuckOnlyThen'
    BY DEF StuckOnlyThen
<1> QED BY <1>1, <1>2, <1>3, <1>4, <1>5, <1>6 DEF IndInv

(* Only a fork between the heads makes the replay give up.                 *)
LEMMA ReplayFailsKeeps ==
    ASSUME IndInv, ReplayFails
    PROVE  IndInv'
<1> USE DEF ReplayFails, blockVars, coinVars, evoVars, history
<1>0. TypeInv /\ PhaseInv /\ FilesInv /\ (lost \/ CoinInv) /\ EvoInv
    BY DEF IndInv
<1>1. TypeInv'
    BY <1>0 DEF TypeInv, Phases
<1>2. PhaseInv'
    BY <1>0 DEF PhaseInv, Loaded
<1>3. FilesInv'
    BY <1>0 DEF FilesInv, Loaded
<1>4. (lost \/ CoinInv)'
    BY <1>0 DEF CoinInv
<1>5. EvoInv'
    BY <1>0 DEF EvoInv
<1>6. StuckOnlyThen'
    <2>1. pc # "replay"
        BY ReplayNextRight
    <2>2. CASE heads = <<>>
        <3>1. best \in Blocks /\ best # None /\ best \in Chain[best]
            BY <1>0, <2>2, ChainStep DEF TypeInv, PhaseInv
        <3> QED BY <1>0, <2>1, <2>2, <3>1 DEF FilesInv
    <2>3. CASE heads # <<>>
        <3>1. heads[1] \in Chain[heads[1]] /\ heads[2] \in Chain[heads[2]]
            BY <1>0, <2>3, ChainStep DEF TypeInv, Heads
        <3>2. blockDb[heads[1]] = "undo" /\ blockDb[heads[2]] = "undo"
            BY <1>0, <2>3, <3>1 DEF FilesInv
        <3>3. heads[2] \notin Chain[heads[1]]
            BY <2>1, <2>3, <3>2 DEF CanReplay
        <3> QED BY <2>3, <3>3 DEF StuckOnlyThen
    <2> QED BY <2>2, <2>3
<1> QED BY <1>1, <1>2, <1>3, <1>4, <1>5, <1>6 DEF IndInv

(* VerifyDB accepts stores that are all at the same block, and UpgradeDB   *)
(* then has nothing to do.                                                 *)
LEMMA VerifyKeeps ==
    ASSUME IndInv, Verify
    PROVE  IndInv'
<1> USE DEF Verify, blockVars, coinVars, history
<1>0. TypeInv /\ PhaseInv /\ FilesInv /\ (lost \/ CoinInv) /\ EvoInv
    BY DEF IndInv
<1>a. heads = <<>> /\ best # None /\ best \in Blocks /\ tipBest = best /\ tip = Empty /\ mode = "boot"
    BY <1>0 DEF PhaseInv, Loaded, Phases
<1>b. evoDb \in Stored /\ root = NoWrites /\ cur = NoWrites
      /\ evoDb["best"] \in Blocks /\ evoDb = EvoLedger(evoDb["best"])
      /\ (torn \/ evoDb["best"] = best)
    BY <1>0, <1>a DEF TypeInv, EvoInv, Stored
<1>c. evoDb' \in Stored
    <2>1. MinedIn[best] \in [Quorums -> Blocks \cup {Erased}]
        BY <1>a, LedgersUnfold
    <2>2. \A k \in EvoKeys : evoDb[k] \in Blocks \cup {Erased}
        BY <1>b DEF Stored
    <2> QED BY <1>a, <1>b, <2>1, <2>2 DEF Upgraded, Stored
<1>d. VerifyDB => evoDb' = evoDb /\ evoDb = EvoLedger(best)
    BY <1>a, <1>b, LedgerRight DEF VerifyDB, Upgraded
<1>e. ~torn /\ ~lost => VerifyDB
    <2> SUFFICES ASSUME ~torn, ~lost PROVE VerifyDB
        OBVIOUS
    <2>1. db = Utxo[best] /\ evoDb["best"] = best
        BY <1>0, <1>a, <1>b DEF CoinInv
    <2>2. ASSUME NEW a \in Chain[best] PROVE index[a] = "undo" /\ files[a] = "undo"
        <3>1. a \in Blocks
            BY <1>a, ChainStep
        <3>2. index[a] = "undo" /\ files[a] \in Levels /\ Rank(index[a]) <= Rank(files[a])
            BY <1>0, <1>a, <3>1 DEF FilesInv, TypeInv, Loaded, Phases
        <3> QED BY SMT, <3>2, RankRight
    <2>3. best \in Chain[best]
        BY <1>a, ChainStep
    <2> QED BY <2>1, <2>2, <2>3 DEF VerifyDB
<1>1. TypeInv'
    BY <1>0, <1>c DEF TypeInv, Phases, Stored
<1>2. PhaseInv'
    BY <1>0, <1>a DEF PhaseInv, Loaded, Phases
<1>3. FilesInv'
    BY <1>0 DEF FilesInv, Loaded, Phases
<1>4. (lost \/ CoinInv)'
    <2> SUFFICES ASSUME ~lost PROVE CoinInv'
        OBVIOUS
    <2>1. CoinInv /\ db = Utxo[tipBest]
        BY <1>0, <1>a DEF CoinInv
    <2>2. GetCoin(tip, db) = db
        BY <1>0, <1>a, EmptyRight DEF TypeInv
    <2>3. pc' \in {"up", "stuck"}
        OBVIOUS
    <2> QED BY <2>1, <2>2, <2>3 DEF CoinInv, TipCoins
<1>5. EvoInv'
    <2>1. CASE VerifyDB
        <3>1. Evo' = EvoLedger(best)
            BY SMT, <1>b, <1>d, <2>1, OverRight DEF Evo
        <3>2. OldTip' = best /\ evoDb["best"] = best
            BY <1>a, <2>1 DEF OldTip, VerifyDB
        <3> QED BY <1>0, <1>a, <1>b, <1>d, <2>1, <3>1, <3>2 DEF EvoInv
    <2>2. CASE ~VerifyDB
        BY <1>0, <2>2 DEF EvoInv
    <2> QED BY <2>1, <2>2
<1>6. StuckOnlyThen'
    BY <1>e DEF StuckOnlyThen
<1> QED BY <1>1, <1>2, <1>3, <1>4, <1>5, <1>6 DEF IndInv

-----------------------------------------------------------------------------
(* The inductive invariant: in every phase of running, flushing, crashing, *)
(* replaying and starting, the stores are at the blocks they should be at. *)
LEMMA IndInvHolds == Spec => []IndInv
<1>1. ASSUME IndInv, [Next]_vars PROVE IndInv'
    <2>1. CASE UNCHANGED vars
        <3>1. /\ TypeInv' = TypeInv /\ PhaseInv' = PhaseInv /\ FilesInv' = FilesInv
              /\ StuckOnlyThen' = StuckOnlyThen
            BY <2>1 DEF vars, blockVars, coinVars, evoVars, history, TypeInv, PhaseInv, FilesInv,
                        StuckOnlyThen
        <3>2. CoinInv' = CoinInv /\ lost' = lost
            BY <2>1 DEF vars, blockVars, coinVars, evoVars, history, CoinInv, TipCoins
        <3>3. EvoInv' = EvoInv
            BY <2>1 DEF vars, blockVars, coinVars, evoVars, history, EvoInv, Evo, OldTip
        <3> QED BY <1>1, <3>1, <3>2, <3>3 DEF IndInv
    <2>2. CASE \E b \in Blocks : AcceptBlock(b) \/ ConnectTip(b) \/ ConnectFails(b)
        BY <1>1, <2>2, AcceptBlockKeeps, ConnectTipKeeps, ConnectFailsKeeps
    <2>3. CASE DisconnectTip \/ FlushFiles \/ WriteIndex
        BY <1>1, <2>3, DisconnectTipKeeps, FlushFilesKeeps, WriteIndexKeeps
    <2>4. CASE \E S \in SUBSET Outpoints : WriteBatch(S) \/ BatchFails(S)
        BY <1>1, <2>4, WriteBatchKeeps, BatchFailsKeeps
    <2>5. CASE FinalBatch \/ CommitRoot \/ Close \/ Crash
        BY <1>1, <2>5, FinalBatchKeeps, CommitRootKeeps, CloseKeeps, CrashKeeps
    <2>6. CASE Boot \/ ReplayBlocks \/ ReplayBlock \/ ReplayDone \/ ReplayFails \/ Verify
        BY <1>1, <2>6, BootKeeps, ReplayBlocksKeeps, ReplayBlockKeeps, ReplayDoneKeeps,
           ReplayFailsKeeps, VerifyKeeps
    <2> QED BY <1>1, <2>1, <2>2, <2>3, <2>4, <2>5, <2>6 DEF Next
<1> QED BY <1>1, InitRight, PTL DEF Spec

(* A working node answers from the ledger of its best block, in the coins  *)
(* and in EvoDB, after any sequence of reorganizations, flushes, crashes   *)
(* and replays.                                                            *)
THEOREM LedgersAlwaysMatch == Spec => []LedgersMatch
<1>1. IndInv => LedgersMatch
    BY DEF IndInv, CoinInv, EvoInv, LedgersMatch
<1> QED BY <1>1, IndInvHolds, PTL

(* DB_BEST_BLOCK is present only over a complete ledger, and in a          *)
(* transition every coin is at one of the two heads (BatchWrite).          *)
THEOREM MarkNeverLies == Spec => []MarkedConsistent
<1>1. IndInv => MarkedConsistent
    BY DEF IndInv, CoinInv, PhaseInv, MarkedConsistent
<1> QED BY <1>1, IndInvHolds, PTL

(* What a store on disk refers to is safe in the store before it in the    *)
(* order of FlushStateToDisk.                                              *)
THEOREM DiskStaysClosed == Spec => []DiskClosed
<1>1. IndInv => DiskClosed
    BY DEF IndInv, FilesInv, DiskClosed
<1> QED BY <1>1, IndInvHolds, PTL

(* A node that cannot start crashed between the coins and EvoDB, or while  *)
(* it wrote the coins of a fork, or lost a batch: in particular the replay *)
(* itself never fails on a block.                                          *)
THEOREM OnlyTornOrForkedIsStuck == Spec => []StuckOnlyThen
<1>1. IndInv => StuckOnlyThen
    BY DEF IndInv
<1> QED BY <1>1, IndInvHolds, PTL
=============================================================================

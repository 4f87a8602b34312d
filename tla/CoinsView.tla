----------------------------- MODULE CoinsView ------------------------------
(***************************************************************************)
(* The operations of one level of the coin caches: CCoinsViewCache         *)
(* (coins.cpp) over what its parent answers.  A cache maps an outpoint to  *)
(* an entry (the coin, DIRTY, FRESH) or to Absent.  A parent is seen only  *)
(* through GetCoin, the map `base` from outpoints to coins, where Spent    *)
(* stands for "not found" too: GetCoin returns false for a spent entry, so *)
(* FetchCoin never copies one.                                             *)
(***************************************************************************)
CONSTANTS Outpoints, Coins, Spent, Absent

Entries == [coin : Coins \cup {Spent}, dirty : BOOLEAN, fresh : BOOLEAN]
Caches == [Outpoints -> Entries \cup {Absent}]
CoinMaps == [Outpoints -> Coins \cup {Spent}]

(* Values of different kinds differ.                                       *)
ASSUME CoinAssumption == Spent \notin Coins /\ Absent \notin Entries

Empty == [o \in Outpoints |-> Absent]
Clean(c) == [coin |-> c, dirty |-> FALSE, fresh |-> FALSE]

(* CCoinsViewCache::GetCoin.                                               *)
GetCoin(cache, base) ==
    [o \in Outpoints |-> IF cache[o] = Absent THEN base[o] ELSE cache[o].coin]

(* CCoinsViewCache::FetchCoin.                                             *)
FetchCoin(cache, base, o) ==
    IF cache[o] # Absent \/ base[o] = Spent THEN cache
    ELSE [cache EXCEPT ![o] = Clean(base[o])]

(* The entry AddCoin finds, or the one emplace makes.                      *)
Emplaced(cache, o) == IF cache[o] = Absent THEN Clean(Spent) ELSE cache[o]

AddCoin_AlwaysFresh(cache, o, c, possible_overwrite) ==
    [cache EXCEPT ![o] = [coin |-> c, dirty |-> TRUE, fresh |-> ~possible_overwrite]]

(* CCoinsViewCache::AddCoin: FRESH only when the coin was not overwritten  *)
(* and no spentness waits to be flushed.                                   *)
AddCoin(cache, o, c, possible_overwrite) ==
    LET e == Emplaced(cache, o) IN
    [cache EXCEPT ![o] = [coin |-> c, dirty |-> TRUE,
                          fresh |-> e.fresh \/ (~possible_overwrite /\ ~e.dirty)]]

(* CCoinsViewCache::SpendCoin, after its FetchCoin.                        *)
SpendCoin(cache, o) ==
    CASE cache[o] = Absent -> cache
      [] cache[o] # Absent /\ cache[o].fresh -> [cache EXCEPT ![o] = Absent]
      [] OTHER -> [cache EXCEPT ![o].dirty = TRUE, ![o].coin = Spent]

(* CCoinsViewCache::BatchWrite throws: "FRESH flag misapplied".            *)
Misapplied(child, parent) ==
    \E o \in Outpoints : /\ child[o] # Absent /\ child[o].dirty /\ child[o].fresh
                         /\ parent[o] # Absent /\ parent[o].coin # Spent

(* One entry of the child, e, moved into the parent's entry p.             *)
MergeEntry(e, p) ==
    CASE e = Absent -> p
      [] e # Absent /\ ~e.dirty -> p
      [] e # Absent /\ e.dirty /\ p = Absent ->
            IF e.fresh /\ e.coin = Spent THEN Absent
            ELSE [coin |-> e.coin, dirty |-> TRUE, fresh |-> e.fresh]
      [] OTHER ->
            IF p.fresh /\ e.coin = Spent THEN Absent
            ELSE [coin |-> e.coin, dirty |-> TRUE, fresh |-> p.fresh]

(* CCoinsViewCache::BatchWrite.                                            *)
BatchWrite(child, parent) ==
    [o \in Outpoints |-> MergeEntry(child[o], parent[o])]

DbWrite_KeepsSpent(cache, db, S) ==
    [o \in Outpoints |-> IF o \in S /\ cache[o] # Absent /\ cache[o].dirty
                            /\ cache[o].coin # Spent
                         THEN cache[o].coin ELSE db[o]]

(* CCoinsViewDB::BatchWrite of the entries of S.                           *)
DbWrite(cache, db, S) ==
    [o \in Outpoints |-> IF o \in S /\ cache[o] # Absent /\ cache[o].dirty
                         THEN cache[o].coin ELSE db[o]]

(* CCoinsViewCache::Uncache.                                               *)
Uncache(cache, o) ==
    IF cache[o] # Absent /\ ~cache[o].dirty /\ ~cache[o].fresh
    THEN [cache EXCEPT ![o] = Absent] ELSE cache
=============================================================================

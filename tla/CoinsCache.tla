----------------------------- MODULE CoinsCache -----------------------------
(***************************************************************************)
(* The three levels of coins: the database, CoinsTip() over it, and the    *)
(* view ConnectTip and DisconnectTip make for one block, flushed into      *)
(* CoinsTip() when the block was good and dropped otherwise.  All of it    *)
(* runs under cs_main.  The hazard is a long sequence of legal calls after *)
(* which a DIRTY or FRESH flag is wrong: the coin is then lost, or spent   *)
(* in memory and unspent on disk.                                          *)
(***************************************************************************)
EXTENDS CoinsView

VARIABLES
    db,     \* CCoinsViewDB
    tip,    \* CoinsTip()
    view,   \* the view of the block that is being processed
    open    \* there is such a view

vars == <<db, tip, view, open>>

(* What the levels answer.                                                 *)
TipCoins == GetCoin(tip, db)
ViewCoins == GetCoin(view, TipCoins)

TypeOK ==
    /\ db \in CoinMaps /\ tip \in Caches /\ view \in Caches
    /\ open \in BOOLEAN /\ (~open => view = Empty)

Init ==
    /\ db \in CoinMaps
    /\ tip = Empty /\ view = Empty /\ open = FALSE

(* CCoinsViewCache view(&CoinsTip()).                                      *)
OpenView == ~open /\ open' = TRUE /\ UNCHANGED <<db, tip, view>>

(* The view's FetchCoin: a miss asks CoinsTip(), which asks the database.  *)
TipFetched(o) == IF view[o] = Absent THEN FetchCoin(tip, db, o) ELSE tip
Fetched(o) == FetchCoin(view, TipCoins, o)

(* HaveCoin, AccessCoin: HaveInputs, the BIP30 check.                      *)
HaveCoin(o) ==
    /\ open
    /\ tip' = TipFetched(o) /\ view' = Fetched(o)
    /\ UNCHANGED <<db, open>>

(* AddCoins of a block's transaction.  The coinbase may overwrite; for the *)
(* others the BIP30 check has found no unspent coin.                       *)
AddOutput(o, c) ==
    /\ open
    /\ \E fCoinbase \in BOOLEAN :
        /\ fCoinbase \/ ViewCoins[o] = Spent
        /\ view' = AddCoin(view, o, c, fCoinbase)
    /\ UNCHANGED <<db, tip, open>>

(* ApplyTxInUndo, and AddCoins of RollforwardBlock: HaveCoin says whether  *)
(* the coin overwrites one.                                                *)
RestoreCoin(o, c) ==
    /\ open
    /\ tip' = TipFetched(o)
    /\ view' = AddCoin(Fetched(o), o, c, ViewCoins[o] # Spent)
    /\ UNCHANGED <<db, open>>

(* UpdateCoins spends an input, DisconnectBlock an output.                 *)
Spend(o) ==
    /\ open
    /\ tip' = TipFetched(o) /\ view' = SpendCoin(Fetched(o), o)
    /\ UNCHANGED <<db, open>>

(* view.Flush().                                                           *)
FlushView ==
    /\ open /\ ~Misapplied(view, tip)
    /\ tip' = BatchWrite(view, tip)
    /\ view' = Empty /\ open' = FALSE
    /\ UNCHANGED db

(* The block was bad: the view goes out of scope.                          *)
DropView ==
    /\ open /\ open' = FALSE /\ view' = Empty
    /\ UNCHANGED <<db, tip>>

(* CoinsTip().Flush().                                                     *)
FlushTip ==
    /\ ~open
    /\ db' = DbWrite(tip, db, Outpoints)
    /\ tip' = Empty
    /\ UNCHANGED <<view, open>>

(* Outside of blocks: the mempool's lookups through CoinsTip(), and        *)
(* CoinsTip().Uncache(o) of what it no longer needs.                       *)
Lookup(o) ==
    /\ ~open
    /\ tip' = FetchCoin(tip, db, o)
    /\ UNCHANGED <<db, view, open>>

UncacheTip(o) ==
    /\ ~open
    /\ tip' = Uncache(tip, o)
    /\ UNCHANGED <<db, view, open>>

Next ==
    \/ OpenView \/ FlushView \/ DropView \/ FlushTip
    \/ \E o \in Outpoints : HaveCoin(o) \/ Spend(o) \/ Lookup(o) \/ UncacheTip(o)
    \/ \E o \in Outpoints, c \in Coins : AddOutput(o, c) \/ RestoreCoin(o, c)

Spec == Init /\ [][Next]_vars

-----------------------------------------------------------------------------
(* The flags of a cache say what coins.h says of them: an entry that is    *)
(* not DIRTY equals the parent's coin, and the parent has no unspent coin  *)
(* behind a FRESH one; a FRESH coin that is spent has no entry.            *)
EntryTrue(e, b) ==
    /\ ~e.dirty => e.coin = b
    /\ e.fresh => b = Spent /\ e.dirty /\ e.coin # Spent
    /\ e.coin = Spent => e.dirty

FlagsTrue(cache, base) ==
    \A o \in Outpoints : cache[o] # Absent => EntryTrue(cache[o], base[o])

(* The flags of both caches are right (coins.h 122-155).                   *)
FlagsRight == FlagsTrue(tip, db) /\ FlagsTrue(view, TipCoins)

(* BatchWrite never throws "FRESH flag misapplied": every block view can   *)
(* be flushed, so ConnectTip's assert(flushed) is reached.                 *)
NeverMisapplied == ~Misapplied(view, tip)

(* The caches are one set of unspent outputs with a working copy: whatever *)
(* is fetched, evicted, flushed or dropped, in any order, no coin is lost  *)
(* and none comes back.                                                    *)
US == INSTANCE UtxoSet WITH durable <- db, committed <- TipCoins, working <- ViewCoins
Implements == US!Spec
=============================================================================

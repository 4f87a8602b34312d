-------------------------- MODULE ChainstateFlush ---------------------------
(***************************************************************************)
(* How the chain state reaches the disk and comes back after a crash:      *)
(* ConnectTip and DisconnectTip, FlushStateToDisk and its order of writes, *)
(* the batches of CCoinsViewDB::BatchWrite with DB_HEAD_BLOCKS, CEvoDB's   *)
(* two transactions, and at startup ReplayBlocks, the commit of EvoDB,     *)
(* UpgradeDB and VerifyDB.  Everything runs under cs_main: the only other  *)
(* actor is the crash, between any two writes.                             *)
(*                                                                         *)
(* Four stores survive it: the block and undo files (what FlushBlockFile   *)
(* has not synced may be lost), the block index database (written with     *)
(* sync), the coin database and EvoDB.  LevelDB is external: a batch is    *)
(* atomic and batches of one database survive in order.                    *)
(*                                                                         *)
(* A coin is the height it was created at.  EvoDB is abstracted to its     *)
(* best block, the upgrade marker of the quorum block processor and, for   *)
(* every quorum, the block its commitment was mined in.                    *)
(***************************************************************************)
EXTENDS CoinsView, Naturals

CONSTANTS
    Blocks, Base,      \* a block tree above Base, which is on disk
    Parent,            \* [Blocks \ {Base} -> Blocks]
    Height,            \* [Blocks -> Coins]
    Creates, Spends,   \* [Blocks -> SUBSET Outpoints]
    Coinbases,         \* the outpoints of coinbase transactions
    Quorums, Mines,    \* [Blocks -> SUBSET Quorums]: commitments in the block
    None,
    MaxCrashes         \* bound on crashes and failed writes

VARIABLES
    pc,         \* up, index, coins, evo, abort, down, replay, verify, stuck
    mode,       \* why FlushStateToDisk or BatchWrite runs: run, close or boot
    files,      \* what the block and undo files hold of a block, see Levels
    synced,     \* the part of it that is safe
    index,      \* m_block_index: what is known to be in the files
    blockDb,    \* the block index database
    tip,        \* CoinsTip(), or the cache of ReplayBlocks
    tipBest,    \* its hashBlock, or how far ReplayBlocks has come
    db,         \* the coin database
    best,       \* its DB_BEST_BLOCK, or None
    heads,      \* its DB_HEAD_BLOCKS: <<new, old>>, or <<>>
    evoDb,      \* EvoDB on disk
    root,       \* rootDBTransaction
    cur,        \* curDBTransaction
    crashes,    \* bound
    torn,       \* history: a crash hit between coins and EvoDB
    lost        \* history: a batch of coins could not be written

blockVars == <<files, synced, index, blockDb>>
coinVars == <<tip, tipBest, db, best, heads>>
evoVars == <<evoDb, root, cur>>
history == <<crashes, torn, lost>>
vars == <<pc, mode, blockVars, coinVars, evoVars, history>>

Levels == {"none", "data", "undo"}
Rank(level) == CASE level = "none" -> 0 [] level = "data" -> 1 [] OTHER -> 2
EvoKeys == Quorums \cup {"best", "upgrade"}
Unset == "unset"      \* a key a transaction has not touched
Erased == "erased"    \* a key a transaction deletes, or the database lacks

(* The chain from Base to b.                                               *)
Chain[b \in Blocks] == IF b = Base THEN {b} ELSE Chain[Parent[b]] \cup {b}

(* The ledger: the unspent outputs, and the mined commitments, after b.    *)
Utxo[b \in Blocks] ==
    [o \in Outpoints |-> IF o \in Creates[b] THEN Height[b]
                         ELSE IF o \in Spends[b] \/ b = Base THEN Spent
                         ELSE Utxo[Parent[b]][o]]

MinedIn[b \in Blocks] ==
    [q \in Quorums |-> IF q \in Mines[b] THEN b
                       ELSE IF b = Base THEN Erased ELSE MinedIn[Parent[b]][q]]

EvoLedger(b) ==
    [k \in EvoKeys |-> IF k \in Quorums THEN MinedIn[b][k] ELSE b]

(* Blocks are those of a tree that ConnectBlock accepts as far as coins    *)
(* are concerned: CheckTxInputs finds the inputs and BIP30 no outputs.     *)
ASSUME TreeAssumption ==
    /\ Base \in Blocks /\ None \notin Blocks
    /\ \A b \in Blocks \ {Base} : Parent[b] \in Blocks /\ Height[b] = Height[Parent[b]] + 1
    /\ \A b \in Blocks :
        /\ Height[b] \in Coins \cap Nat
        /\ Creates[b] \subseteq Outpoints /\ Spends[b] \subseteq Outpoints
        /\ Creates[b] \cap Spends[b] = {} /\ Mines[b] \subseteq Quorums
    /\ \A b \in Blocks \ {Base} :
        /\ \A o \in Spends[b] : Utxo[Parent[b]][o] # Spent
        /\ \A o \in Creates[b] : Utxo[Parent[b]][o] = Spent

(* Values of different kinds differ.                                       *)
ASSUME ValueAssumption ==
    /\ {Unset, Erased} \cap Blocks = {} /\ {"best", "upgrade"} \cap Quorums = {}
    /\ MaxCrashes \in Nat

(* The functions on the tree are what their recursive definitions say:     *)
(* every chain of parents ends at Base.                                    *)
ASSUME LedgersUnfold ==
    \A b \in Blocks :
        /\ Chain[b] = IF b = Base THEN {b} ELSE Chain[Parent[b]] \cup {b}
        /\ Chain[b] \subseteq Blocks
        /\ Utxo[b] = [o \in Outpoints |-> IF o \in Creates[b] THEN Height[b]
                                          ELSE IF o \in Spends[b] \/ b = Base THEN Spent
                                          ELSE Utxo[Parent[b]][o]]
        /\ Utxo[b] \in CoinMaps
        /\ MinedIn[b] = [q \in Quorums |-> IF q \in Mines[b] THEN b
                             ELSE IF b = Base THEN Erased ELSE MinedIn[Parent[b]][q]]
        /\ MinedIn[b] \in [Quorums -> Blocks \cup {Erased}]

(* CDBTransaction: reading falls through, committing writes downwards.     *)
NoWrites == [k \in EvoKeys |-> Unset]
Over(top, bottom) == [k \in EvoKeys |-> IF top[k] # Unset THEN top[k] ELSE bottom[k]]
Evo == Over(cur, Over(root, evoDb))

TipCoins == GetCoin(tip, db)

(* The node has been shut down with Base as its tip.                       *)
Init ==
    /\ pc = "down" /\ mode = "run"
    /\ files = [b \in Blocks |-> IF b = Base THEN "undo" ELSE "none"]
    /\ synced = files /\ blockDb = files /\ index = [b \in Blocks |-> "none"]
    /\ tip = Empty /\ tipBest = None /\ db = Utxo[Base] /\ best = Base /\ heads = <<>>
    /\ evoDb = EvoLedger(Base) /\ root = NoWrites /\ cur = NoWrites
    /\ crashes = 0 /\ torn = FALSE /\ lost = FALSE

(* A new copy in the files, even where a crash has left an earlier one     *)
(* that no index lists.                                                    *)
SaveBlockToDisk(b) ==
    /\ files' = [files EXCEPT ![b] = "data"]
    /\ synced' = [synced EXCEPT ![b] = "none"]
WriteUndoDataForBlock(b) ==
    IF index[b] = "undo" THEN UNCHANGED <<files, synced>>
    ELSE /\ files' = [files EXCEPT ![b] = "undo"]
         /\ synced' = [synced EXCEPT ![b] = IF @ = "undo" THEN "data" ELSE @]

(* AcceptBlock, with ReceivedBlockTransactions.                            *)
AcceptBlock(b) ==
    /\ pc = "up" /\ b # Base /\ index[b] = "none" /\ index[Parent[b]] # "none"
    /\ SaveBlockToDisk(b)
    /\ index' = [index EXCEPT ![b] = "data"]
    /\ UNCHANGED <<pc, mode, blockDb, coinVars, evoVars, history>>

-----------------------------------------------------------------------------
(* A block view over CoinsTip(): ConnectBlock spends and adds, and finds   *)
(* no coin where it adds (BIP30).                                          *)
ConnectView(b) ==
    [o \in Outpoints |->
        LET c == FetchCoin(Empty, TipCoins, o) IN
        IF o \in Spends[b] THEN SpendCoin(c, o)[o]
        ELSE IF o \in Creates[b] THEN AddCoin(c, o, Height[b], o \in Coinbases)[o]
        ELSE Absent]

(* DisconnectBlock spends the outputs and restores the inputs from the     *)
(* undo data.                                                              *)
DisconnectView(b) ==
    [o \in Outpoints |->
        LET c == FetchCoin(Empty, TipCoins, o) IN
        IF o \in Creates[b] THEN SpendCoin(c, o)[o]
        ELSE IF o \in Spends[b]
             THEN AddCoin(c, o, Utxo[Parent[b]][o], TipCoins[o] # Spent)[o]
        ELSE Absent]

(* DISCONNECT_OK: the outputs are there and the inputs are not.            *)
CleanDisconnect(b) ==
    /\ \A o \in Creates[b] : TipCoins[o] = Height[b]
    /\ \A o \in Spends[b] : TipCoins[o] = Spent

(* CoinsTip() after the lookups of block b's coins.                        *)
FetchedTip(b) ==
    [o \in Outpoints |-> IF o \in Spends[b] \cup Creates[b]
                         THEN FetchCoin(tip, db, o)[o] ELSE tip[o]]

(* What ProcessSpecialTxsInBlock and WriteBestBlock write for b, and what  *)
(* UndoSpecialTxsInBlock writes.                                           *)
EvoConnect(b) ==
    [k \in EvoKeys |-> IF k \in Quorums \ Mines[b] THEN Unset ELSE b]
EvoDisconnect(b) ==
    [k \in EvoKeys |-> CASE k \in Mines[b] -> Erased
                         [] k \in Quorums \ Mines[b] -> Unset
                         [] OTHER -> Parent[b]]

(* ConnectTip of a good block.                                             *)
ConnectTip(b) ==
    /\ pc = "up" /\ b # Base /\ Parent[b] = tipBest
    /\ index[b] # "none" /\ files[b] # "none"
    /\ Evo["best"] = tipBest /\ \A q \in Mines[b] : Evo[q] = Erased
    /\ tip' = BatchWrite(ConnectView(b), FetchedTip(b)) /\ tipBest' = b
    /\ root' = Over(Over(EvoConnect(b), cur), root) /\ cur' = NoWrites
    /\ WriteUndoDataForBlock(b) /\ index' = [index EXCEPT ![b] = "undo"]
    /\ UNCHANGED <<pc, mode, blockDb, db, best, heads, evoDb, history>>

ConnectFails_NoRollback(b) ==
    /\ pc = "up" /\ b # Base /\ Parent[b] = tipBest
    /\ index[b] # "none" /\ files[b] # "none"
    /\ tip' = FetchedTip(b) /\ cur' = Over(EvoConnect(b), cur)
    /\ UNCHANGED <<pc, mode, blockVars, tipBest, db, best, heads, evoDb, root, history>>

(* ConnectTip of a block that ConnectBlock rejects after it has changed    *)
(* the view and EvoDB: the view is dropped and the scoped committer rolls  *)
(* back.                                                                   *)
ConnectFails(b) ==
    /\ pc = "up" /\ b # Base /\ Parent[b] = tipBest
    /\ index[b] # "none" /\ files[b] # "none"
    /\ tip' = FetchedTip(b) /\ cur' = NoWrites
    /\ UNCHANGED <<pc, mode, blockVars, tipBest, db, best, heads, evoDb, root, history>>

(* DisconnectTip.                                                          *)
DisconnectTip ==
    LET b == tipBest IN
    /\ pc = "up" /\ b # Base /\ files[b] = "undo"
    /\ Evo["best"] = b /\ CleanDisconnect(b)
    /\ tip' = BatchWrite(DisconnectView(b), FetchedTip(b)) /\ tipBest' = Parent[b]
    /\ root' = Over(Over(EvoDisconnect(b), cur), root) /\ cur' = NoWrites
    /\ UNCHANGED <<pc, mode, blockVars, db, best, heads, evoDb, history>>

-----------------------------------------------------------------------------
FlushFiles_NoSync ==
    /\ pc \in {"up", "abort"}
    /\ mode' \in IF pc = "up" THEN {"run", "close"} ELSE {"close"}
    /\ pc' = "index"
    /\ UNCHANGED <<blockVars, coinVars, evoVars, history>>

(* FlushStateToDisk begins, when it is due or at shutdown: FlushBlockFile. *)
FlushFiles ==
    /\ pc \in {"up", "abort"}
    /\ mode' \in IF pc = "up" THEN {"run", "close"} ELSE {"close"}
    /\ synced' = files
    /\ pc' = "index"
    /\ UNCHANGED <<files, index, blockDb, coinVars, evoVars, history>>

(* WriteBatchSync of the block index; a periodic write ends here.          *)
WriteIndex ==
    /\ pc = "index"
    /\ blockDb' = index
    /\ pc' \in IF mode = "close" THEN {"coins"} ELSE {"coins", "up"}
    /\ UNCHANGED <<mode, files, synced, index, coinVars, evoVars, history>>

(* CCoinsViewDB::BatchWrite: the old tip, also in the middle of a replay.  *)
OldTip == IF best # None THEN best ELSE heads[2]
Pending == {o \in Outpoints : tip[o] # Absent}
Without(S) == [o \in Outpoints |-> IF o \in S THEN Absent ELSE tip[o]]

WriteBatch_KeepsBest(S) ==
    /\ pc = "coins" /\ S \subseteq Pending /\ S # {}
    /\ db' = DbWrite(tip, db, S) /\ tip' = Without(S)
    /\ UNCHANGED <<pc, mode, blockVars, tipBest, best, heads, evoVars, history>>

(* A partial batch of the entries S, in the order of the hash table; the   *)
(* first one replaces DB_BEST_BLOCK by DB_HEAD_BLOCKS.                     *)
WriteBatch(S) ==
    /\ pc = "coins" /\ S \subseteq Pending /\ S # {}
    /\ db' = DbWrite(tip, db, S) /\ tip' = Without(S)
    /\ best' = None /\ heads' = <<tipBest, OldTip>>
    /\ UNCHANGED <<pc, mode, blockVars, tipBest, evoVars, history>>

(* The write of a partial batch throws: its entries have been erased from  *)
(* the cache, AbortNode starts the shutdown, which flushes once more.      *)
BatchFails(S) ==
    /\ pc = "coins" /\ mode = "run" /\ S \subseteq Pending /\ S # {}
    /\ crashes < MaxCrashes /\ crashes' = crashes + 1
    /\ tip' = Without(S)
    /\ pc' = "abort" /\ lost' = TRUE
    /\ UNCHANGED <<mode, blockVars, tipBest, db, best, heads, evoVars, torn>>

(* The last batch; ReplayBlocks then commits its EvoDB transaction.        *)
FinalBatch ==
    /\ pc = "coins"
    /\ db' = DbWrite(tip, db, Outpoints) /\ tip' = Empty
    /\ best' = tipBest /\ heads' = <<>>
    /\ root' = Over(cur, root) /\ cur' = NoWrites
    /\ pc' = "evo"
    /\ UNCHANGED <<mode, blockVars, tipBest, evoDb, history>>

(* What the process has in memory is gone.                                 *)
Forget ==
    /\ index' = [b \in Blocks |-> "none"]
    /\ tip' = Empty /\ tipBest' = None
    /\ root' = NoWrites /\ cur' = NoWrites
    /\ pc' = "down" /\ mode' = "run"

CommitRoot_BootSkips ==
    /\ pc = "evo" /\ mode # "close" /\ cur = NoWrites
    /\ evoDb' = IF mode = "boot" THEN evoDb ELSE Over(root, evoDb)
    /\ root' = IF mode = "boot" THEN root ELSE NoWrites
    /\ pc' = IF mode = "run" THEN "up" ELSE "verify"
    /\ UNCHANGED <<mode, blockVars, coinVars, cur, history>>

(* CommitRootTransaction, at the end of FlushStateToDisk and of the        *)
(* replay.                                                                 *)
CommitRoot ==
    /\ pc = "evo" /\ mode # "close" /\ cur = NoWrites
    /\ evoDb' = Over(root, evoDb) /\ root' = NoWrites
    /\ pc' = IF mode = "run" THEN "up" ELSE "verify"
    /\ UNCHANGED <<mode, blockVars, coinVars, cur, history>>

(* The same at shutdown, after which the process ends.                     *)
Close ==
    /\ pc = "evo" /\ mode = "close" /\ cur = NoWrites
    /\ evoDb' = Over(root, evoDb)
    /\ Forget
    /\ UNCHANGED <<files, synced, blockDb, db, best, heads, history>>

(* The node dies; of the files, any part that was not synced is lost.      *)
Crash ==
    /\ pc \notin {"down", "stuck"} /\ crashes < MaxCrashes
    /\ files' \in {f \in [Blocks -> Levels] :
                    \A b \in Blocks : Rank(synced[b]) <= Rank(f[b]) /\ Rank(f[b]) <= Rank(files[b])}
    /\ synced' = files'
    /\ Forget
    /\ crashes' = crashes + 1 /\ torn' = (torn \/ (pc = "evo" /\ root # NoWrites))
    /\ UNCHANGED <<blockDb, db, best, heads, evoDb, lost>>

-----------------------------------------------------------------------------
(* RollforwardBlock: every addition may be an overwrite.                   *)
RollforwardBlock(cache, b) ==
    [o \in Outpoints |->
        LET c == FetchCoin(cache, db, o) IN
        IF o \in Spends[b] THEN SpendCoin(c, o)[o]
        ELSE IF o \in Creates[b] THEN AddCoin(c, o, Height[b], GetCoin(c, db)[o] # Spent)[o]
        ELSE cache[o]]

(* ReplayBlocks gives up where a head is unknown and where the interrupted *)
(* flush was across a fork, and later where a block is unreadable or its   *)
(* commitment is already there.                                            *)
CanReplay ==
    /\ blockDb[heads[1]] # "none" /\ blockDb[heads[2]] # "none"
    /\ heads[2] \in Chain[heads[1]]

(* The next block on the way from the old tip to the new one.              *)
ReplayNext == CHOOSE b \in Chain[heads[1]] \ {Base} : Parent[b] = tipBest
CanRollforward(b) == files[b] # "none" /\ \A q \in Mines[b] : Evo[q] = Erased

(* LoadBlockIndexDB.                                                       *)
LoadIndex == index' = blockDb /\ mode' = "boot"

(* The tip is the best block of the coins, which the index has to list.    *)
LoadChainTip == blockDb[best] # "none" /\ tipBest' = best

(* Startup of a consistent coin database: nothing to replay.               *)
Boot ==
    /\ pc = "down" /\ heads = <<>>
    /\ LoadIndex /\ LoadChainTip
    /\ pc' = "evo"
    /\ UNCHANGED <<files, synced, blockDb, tip, db, best, heads, evoVars, history>>

(* Startup in the middle of a transition: ReplayBlocks begins ...          *)
ReplayBlocks ==
    /\ pc = "down" /\ heads # <<>> /\ CanReplay
    /\ LoadIndex
    /\ tipBest' = heads[2]
    /\ pc' = "replay"
    /\ UNCHANGED <<files, synced, blockDb, tip, db, best, heads, evoVars, history>>

(* ... rolls forward block after block, special transactions first ...     *)
ReplayBlock ==
    /\ pc = "replay" /\ tipBest # heads[1] /\ CanRollforward(ReplayNext)
    /\ tip' = RollforwardBlock(tip, ReplayNext) /\ tipBest' = ReplayNext
    /\ cur' = Over([EvoConnect(ReplayNext) EXCEPT !["best"] = Unset], cur)
    /\ UNCHANGED <<pc, mode, blockVars, db, best, heads, evoDb, root, history>>

(* ... and calls Flush.                                                    *)
ReplayDone ==
    /\ pc = "replay" /\ tipBest = heads[1]
    /\ cur' = [cur EXCEPT !["best"] = heads[1]]
    /\ pc' = "coins"
    /\ UNCHANGED <<mode, blockVars, coinVars, evoDb, root, history>>

(* "Please restart with -reindex or -reindex-chainstate to recover.", or   *)
(* LoadChainTip fails.                                                     *)
ReplayFails ==
    /\ pc \in {"down", "replay"}
    /\ IF pc = "replay" THEN tipBest # heads[1] /\ ~CanRollforward(ReplayNext)
       ELSE IF heads = <<>> THEN blockDb[best] = "none" ELSE ~CanReplay
    /\ pc' = "stuck"
    /\ UNCHANGED <<mode, blockVars, coinVars, evoVars, history>>

(* CQuorumBlockProcessor::UpgradeDB: reprocess all commitments of the      *)
(* active chain when its marker is not at the tip.                         *)
Upgraded ==
    IF evoDb["upgrade"] = best THEN evoDb
    ELSE [k \in EvoKeys |-> CASE k = "upgrade" -> best
                              [] k \in Quorums /\ MinedIn[best][k] # Erased -> MinedIn[best][k]
                              [] OTHER -> evoDb[k]]

(* LoadChainTip finds the block, and VerifyDB disconnects the last blocks  *)
(* cleanly (a memory-only view; its EvoDB transaction is rolled back).     *)
VerifyDB ==
    /\ index[best] # "none"
    /\ evoDb["best"] = best
    /\ \A b \in Chain[best] :
        /\ files[b] = "undo"
        /\ \A o \in Creates[b] \cup Spends[b] : db[o] = Utxo[best][o]

Verify ==
    /\ pc = "verify"
    /\ evoDb' = Upgraded
    /\ IF VerifyDB THEN pc' = "up" /\ mode' = "run" ELSE pc' = "stuck" /\ UNCHANGED mode
    /\ UNCHANGED <<blockVars, coinVars, root, cur, history>>

Next ==
    \/ \E b \in Blocks : AcceptBlock(b) \/ ConnectTip(b) \/ ConnectFails(b)
    \/ DisconnectTip \/ FlushFiles \/ WriteIndex
    \/ \E S \in SUBSET Outpoints : WriteBatch(S) \/ BatchFails(S)
    \/ FinalBatch \/ CommitRoot \/ Close \/ Crash
    \/ Boot \/ ReplayBlocks \/ ReplayBlock \/ ReplayDone \/ ReplayFails \/ Verify

Spec == Init /\ [][Next]_vars

-----------------------------------------------------------------------------
(* While the node works, what CoinsTip() answers is the ledger of its best *)
(* block, however it was reached: reorganizations, flushes, crashes in any *)
(* batch, replays that crash again (ReplayBlocks, BatchWrite).  EvoDB is   *)
(* at the same block, with exactly the commitments of its chain: a block   *)
(* and its rollback reach both or neither.                                 *)
LedgersMatch ==
    pc = "up" =>
        /\ ~lost => TipCoins = Utxo[tipBest]
        /\ Evo = EvoLedger(tipBest)

(* DB_BEST_BLOCK is present only when the coin database is exactly the     *)
(* ledger of that block; in a transition every coin is the one of the old  *)
(* or of the new head, so that rolling forward is idempotent, and the next *)
(* batch is for the same new head (the assertion in BatchWrite).           *)
MarkedConsistent ==
    /\ best # None /\ ~lost => db = Utxo[best]
    /\ heads # <<>> /\ ~lost => \A o \in Outpoints : db[o] \in {Utxo[heads[1]][o], Utxo[heads[2]][o]}
    /\ heads # <<>> /\ pc = "coins" => heads[1] = tipBest

(* The order of FlushStateToDisk: what the block index database lists is   *)
(* safe in the files, and what the coin database refers to is listed with  *)
(* its undo data.                                                          *)
DiskClosed ==
    /\ \A b \in Blocks : Rank(blockDb[b]) <= Rank(synced[b])
    /\ best # None => \A b \in Chain[best] : blockDb[b] = "undo"
    /\ heads # <<>> => \A b \in Chain[heads[1]] \cup Chain[heads[2]] : blockDb[b] = "undo"

(* A node that cannot start again died between the last batch of coins and *)
(* the commit of EvoDB, or while the coins of a fork were written: no      *)
(* other crash makes a reindex necessary.                                  *)
StuckOnlyThen ==
    pc = "stuck" =>
        \/ torn \/ lost
        \/ heads # <<>> /\ heads[2] \notin Chain[heads[1]]
=============================================================================

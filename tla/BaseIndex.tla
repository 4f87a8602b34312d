----------------------------- MODULE BaseIndex ------------------------------
(***************************************************************************)
(* BaseIndex (index/base.cpp), the base of the transaction and the block   *)
(* filter index: the thread that catches up with the chain, the callbacks  *)
(* that follow the chain afterwards, the callers that wait until the index *)
(* has caught up, and crashes and restarts.                                *)
(*                                                                         *)
(* The callbacks come in order and one at a time, which is what            *)
(* SchedulerClient shows of their queue.  The chain is the environment: it *)
(* moves under cs_main to blocks of more work, or back when a block is     *)
(* invalidated, and what was flushed of it survives a crash; the blocks    *)
(* connected are queued before cs_main is released.  Every write to the    *)
(* database of the index survives a crash of the process.  A FatalError    *)
(* ends like a crash: the node shuts down without another commit.  Nobody  *)
(* but the sync thread looks at m_best_block_index before the index is in  *)
(* sync, so that its critical sections are single steps.                   *)
(***************************************************************************)
EXTENDS Integers, Sequences, FiniteSets

CONSTANTS
    Blocks, Genesis, Parent,
    MaxCrashes,       \* bound on crashes and restarts
    MaxInvalidations, \* bound on calls of InvalidateBlock
    Limit,            \* 10 in LimitValidationInterfaceQueue
    None              \* nullptr

Anc[b \in Blocks] == IF b = Genesis THEN {b} ELSE Anc[Parent[b]] \cup {b}
Height == [b \in Blocks |-> Cardinality(Anc[b]) - 1]
AncOf(b) == IF b = None THEN {} ELSE Anc[b]

(* Anc is what its recursive definition says: every chain of parents ends  *)
(* at Genesis.                                                             *)
AncUnfolds ==
    \A b \in Blocks :
        /\ Anc[b] = IF b = Genesis THEN {b} ELSE Anc[Parent[b]] \cup {b}
        /\ Anc[b] \subseteq Blocks /\ IsFiniteSet(Anc[b])
        /\ b # Genesis => b \notin Anc[Parent[b]]

ASSUME TreeAssumption ==
    /\ Genesis \in Blocks /\ None \notin Blocks
    /\ Parent \in [Blocks \ {Genesis} -> Blocks]
    /\ AncUnfolds

VARIABLES
    tip, flushed,     \* the active chain, in memory and on disk
    invalidations,    \* calls of InvalidateBlock so far
    queue,            \* callbacks to come: [type, block]
    synced,           \* m_synced
    best,             \* m_best_block_index
    written, locator, \* the database: entries of blocks, DB_BEST_BLOCK
    sync, pindex,     \* ThreadSync: where it is, its pindex
    cb,               \* the BlockConnected callback that runs
    waiter,           \* a caller of BlockUntilSyncedToCurrentChain
    crashes,          \* crashes and restarts so far
    torn,             \* blocks the thread was about to write when it crashed
    found             \* the locator the index found when it started

chain == <<tip, flushed, invalidations>>
history == <<crashes, torn, found>>
thread == <<synced, sync, pindex>>
vars == <<chain, queue, thread, best, written, locator, cb, waiter, history>>

NoCallback == [pc |-> "idle", block |-> None]
NotWaiting == [pc |-> "idle", goal |-> None]

(* A new index: the node is at the genesis block and the database is empty.*)
Init ==
    /\ tip = Genesis /\ flushed = Genesis /\ invalidations = 0
    /\ queue = <<>>
    /\ synced = FALSE /\ best = None
    /\ written = {} /\ locator = None
    /\ sync = "loop" /\ pindex = None
    /\ cb = NoCallback /\ waiter = NotWaiting
    /\ crashes = 0 /\ torn = {} /\ found = None

(* ThreadSync keeps cs_main from setting m_synced to the end of Commit.    *)
CsMainFree == sync # "final"

Highest(B) == CHOOSE b \in B : \A c \in B : Height[c] <= Height[b]

(* CChain::FindFork: the last block of b's chain that is active.           *)
FindFork(b) == Highest(Anc[b] \cap Anc[tip])

(* Mutant: a best block that is no longer active is not looked up.         *)
NextSyncBlock_NoFork(b) ==
    IF b = None THEN Genesis
    ELSE LET above == {n \in Anc[tip] \ {Genesis} : Parent[n] = b}
         IN  IF above = {} THEN None ELSE CHOOSE n \in above : TRUE

NextSyncBlock(b) ==
    IF b = None THEN Genesis
    ELSE LET above == {n \in Anc[tip] \ {Genesis} : Parent[n] = FindFork(b)}
         IN  IF above = {} THEN None ELSE CHOOSE n \in above : TRUE
-----------------------------------------------------------------------------
(* The blocks of t's chain above the block f, lowest first.                *)
Path(f, t) ==
    LET above == Anc[t] \ Anc[f]
    IN  [i \in 1..Cardinality(above) |->
            CHOOSE b \in above : Height[b] = Height[f] + i]

(* ActivateBestChain, after LimitValidationInterfaceQueue, moves to a      *)
(* block of more work and queues BlockConnected for each block it          *)
(* connects.                                                               *)
ActivateBestChain(b) ==
    /\ CsMainFree /\ Len(queue) <= Limit
    /\ Height[b] > Height[tip]
    /\ LET path == Path(FindFork(b), b)
       IN  queue' = queue \o [i \in DOMAIN path |->
                                 [type |-> "connected", block |-> path[i]]]
    /\ tip' = b
    /\ UNCHANGED <<flushed, invalidations, thread, best, written, locator, cb, waiter, history>>

(* InvalidateBlock of the tip, which may be reconsidered later.  The index *)
(* does not listen to BlockDisconnected.                                   *)
InvalidateBlock ==
    /\ CsMainFree /\ tip # Genesis /\ invalidations < MaxInvalidations
    /\ invalidations' = invalidations + 1 /\ tip' = Parent[tip]
    /\ UNCHANGED <<flushed, queue, thread, best, written, locator, cb, waiter, history>>

(* FlushStateToDisk, when the chain changed since the last flush.          *)
FlushStateToDisk ==
    /\ CsMainFree /\ flushed # tip
    /\ flushed' = tip
    /\ queue' = Append(queue, [type |-> "flushed", block |-> tip])
    /\ UNCHANGED <<tip, invalidations, thread, best, written, locator, cb, waiter, history>>
-----------------------------------------------------------------------------
(* Commit with the locator of block b.                                     *)
Commit(b) == locator' = b

(* assert(current_tip == m_best_block_index) of Rewind fails when          *)
(* ThreadSync calls it: the best block is only brought up to date when the *)
(* locator is written.  The process ends (Abort below).                    *)
RewindAssertFails ==
    /\ sync = "loop" /\ pindex \notin {None, best}
    /\ NextSyncBlock(pindex) # None /\ Parent[NextSyncBlock(pindex)] # pindex

(* ThreadSync under cs_main: the next block, after Rewind and its Commit   *)
(* if the chain forked, or the end of the catching up.                     *)
SyncNext ==
    /\ sync = "loop" /\ ~RewindAssertFails
    /\ LET next == NextSyncBlock(pindex)
           fork == next # None /\ pindex # None /\ Parent[next] # pindex
       IN  /\ synced' = (next = None)
           /\ sync' = IF next = None THEN "final" ELSE "write"
           /\ pindex' = IF next = None THEN pindex ELSE next
           /\ best' = IF next = None THEN pindex ELSE IF fork THEN Parent[next] ELSE best
           /\ IF fork THEN Commit(Parent[next]) ELSE UNCHANGED locator
    /\ UNCHANGED <<chain, queue, written, cb, waiter, history>>

(* SYNC_LOCATOR_WRITE_INTERVAL has passed: the locator is written for the  *)
(* block that comes next, before the block is.                             *)
SyncLocator ==
    /\ sync = "write" /\ best # pindex
    /\ best' = pindex /\ Commit(pindex)
    /\ UNCHANGED <<chain, queue, thread, written, cb, waiter, history>>

(* Mutant: after a locator the next block is taken at once.                *)
SyncWrite_Skips ==
    /\ sync = "write"
    /\ written' = IF locator = pindex THEN written ELSE written \cup {pindex}
    /\ sync' = "loop"
    /\ UNCHANGED <<chain, queue, synced, pindex, best, locator, cb, waiter, history>>

SyncWrite ==
    /\ sync = "write"
    /\ written' = written \cup {pindex} /\ sync' = "loop"
    /\ UNCHANGED <<chain, queue, synced, pindex, best, locator, cb, waiter, history>>

(* The Commit of an index in sync, of the best block as it is by now.      *)
SyncFinal ==
    /\ sync = "final"
    /\ Commit(best) /\ sync' = "done"
    /\ UNCHANGED <<chain, queue, synced, pindex, best, written, cb, waiter, history>>
-----------------------------------------------------------------------------
(* The callback at the head of the queue starts.                           *)
Dequeue(type) == /\ cb.pc = "idle" /\ queue # <<>> /\ Head(queue).type = type
                 /\ queue' = Tail(queue)

(* Mutant: the index only takes blocks that extend its best block.         *)
BlockConnected_NoRewind ==
    /\ Dequeue("connected")
    /\ LET b == Head(queue).block
       IN  cb' = IF synced /\ Parent[b] = best THEN [pc |-> "write", block |-> b] ELSE cb
    /\ UNCHANGED <<chain, thread, best, written, locator, waiter, history>>

(* BlockConnected: ignored before the index is in sync, and for a block    *)
(* that does not connect to an ancestor of the best block; a fork is       *)
(* rewound to its parent.                                                  *)
BlockConnected ==
    /\ Dequeue("connected")
    /\ LET b == Head(queue).block
           takes == synced /\ Parent[b] \in AncOf(best)
       IN  /\ cb' = IF ~takes THEN cb
                    ELSE [pc |-> IF best # Parent[b] THEN "rewind" ELSE "write", block |-> b]
           /\ best' = IF takes THEN Parent[b] ELSE best
    /\ UNCHANGED <<chain, thread, written, locator, waiter, history>>

(* The Commit of Rewind.                                                   *)
BlockRewound ==
    /\ cb.pc = "rewind" /\ CsMainFree
    /\ Commit(best)
    /\ cb' = [cb EXCEPT !.pc = "write"]
    /\ UNCHANGED <<chain, queue, thread, best, written, waiter, history>>

(* WriteBlock, and the new best block.                                     *)
BlockWritten ==
    /\ cb.pc = "write"
    /\ written' = written \cup {cb.block} /\ best' = cb.block
    /\ cb' = NoCallback
    /\ UNCHANGED <<chain, queue, thread, locator, waiter, history>>

(* ChainStateFlushed: the locator is written unless the flushed tip is not *)
(* on the best chain of the index.                                         *)
ChainStateFlushed ==
    /\ Dequeue("flushed")
    /\ LET commits == synced /\ Head(queue).block \in AncOf(best)
       IN  /\ commits => CsMainFree
           /\ IF commits THEN Commit(best) ELSE UNCHANGED locator
    /\ UNCHANGED <<chain, thread, best, written, cb, waiter, history>>
-----------------------------------------------------------------------------
(* BlockUntilSyncedToCurrentChain of a synced index: done when the tip is  *)
(* on the best chain of the index, else after the queue has drained        *)
(* (SyncWithValidationInterfaceQueue).                                     *)
BlockUntilSynced ==
    /\ waiter.pc = "idle" /\ synced /\ CsMainFree
    /\ waiter' = [pc |-> IF tip \in Anc[best] THEN "true" ELSE "sync", goal |-> tip]
    /\ UNCHANGED <<chain, queue, thread, best, written, locator, cb, history>>

(* Mutant: the caller does not wait for the queue.                         *)
SyncWithQueue_NoWait ==
    /\ waiter.pc = "sync"
    /\ waiter' = [waiter EXCEPT !.pc = "true"]
    /\ UNCHANGED <<chain, queue, thread, best, written, locator, cb, history>>

SyncWithQueue ==
    /\ waiter.pc = "sync"
    /\ queue' = Append(queue, [type |-> "marker", block |-> None])
    /\ waiter' = [waiter EXCEPT !.pc = "wait"]
    /\ UNCHANGED <<chain, thread, best, written, locator, cb, history>>

Marker ==
    /\ Dequeue("marker")
    /\ waiter' = [waiter EXCEPT !.pc = "true"]
    /\ UNCHANGED <<chain, thread, best, written, locator, cb, history>>

Return ==
    /\ waiter.pc = "true" /\ waiter' = NotWaiting
    /\ UNCHANGED <<chain, queue, thread, best, written, locator, cb, history>>
-----------------------------------------------------------------------------
(* The last block of the chain up to c that the locator of l has.          *)
FindForkInGlobalIndex(c, l) == IF l = None THEN None ELSE Highest(Anc[l] \cap Anc[c])

(* The node starts with the chain on disk and block l in the locator.      *)
Start(l) ==
    LET b == FindForkInGlobalIndex(flushed', l)
    IN  /\ tip' = flushed' /\ queue' = <<>>
        /\ best' = b /\ pindex' = b
        /\ synced' = (b = flushed') /\ sync' = IF b = flushed' THEN "done" ELSE "loop"
        /\ locator' = l /\ found' = l
        /\ cb' = NoCallback /\ waiter' = NotWaiting
        /\ crashes < MaxCrashes /\ crashes' = crashes + 1
        /\ UNCHANGED <<invalidations, written>>

(* The process dies, and starts again.                                     *)
Crash ==
    /\ UNCHANGED flushed
    /\ torn' = torn \cup IF sync = "write" /\ locator = pindex THEN {pindex} ELSE {}
    /\ Start(locator)

Abort ==
    /\ RewindAssertFails
    /\ UNCHANGED <<flushed, torn>>
    /\ Start(locator)

(* A clean restart: the thread is interrupted at the head of its loop and  *)
(* commits; the index is unregistered before the chain is flushed.         *)
Restart ==
    /\ sync \in {"loop", "done"} /\ cb.pc = "idle" /\ waiter.pc = "idle"
    /\ flushed' = tip /\ UNCHANGED torn
    /\ Start(IF sync = "loop" THEN pindex ELSE locator)

SyncThread == SyncNext \/ SyncLocator \/ SyncWrite \/ SyncFinal \/ Abort

Callback == BlockConnected \/ BlockRewound \/ BlockWritten \/ ChainStateFlushed \/ Marker

Next == \/ SyncThread \/ Callback
        \/ BlockUntilSynced \/ SyncWithQueue \/ Return
        \/ \E b \in Blocks : ActivateBestChain(b)
        \/ InvalidateBlock \/ FlushStateToDisk
        \/ Crash \/ Restart

(* The sync thread and the queue of callbacks keep running.                *)
Spec == Init /\ [][Next]_vars /\ WF_vars(SyncThread) /\ WF_vars(Callback)
-----------------------------------------------------------------------------
AboutToWrite == IF sync = "write" THEN {pindex} ELSE {}

(* m_best_block_index is "The last block in the chain that the index is in *)
(* sync with": the blocks up to it and up to the locator on disk have been *)
(* written.  Whatever crashes come, only blocks are missing that the sync  *)
(* thread had announced in the locator when a crash kept it from writing   *)
(* them (SYNC_LOCATOR_WRITE_INTERVAL in ThreadSync); reorganisations, late *)
(* callbacks and restarts make no other holes.                             *)
CompleteButTorn ==
    AncOf(best) \cup AncOf(locator) \subseteq written \cup AboutToWrite \cup torn

(* Once the index is in sync and its callbacks have run, the active chain  *)
(* is indexed, although callbacks of blocks from before the switch, of     *)
(* stale branches too, came after it and rewound the index.                *)
CaughtUpWhenDrained ==
    synced /\ cb.pc = "idle" /\ (\A i \in DOMAIN queue : queue[i].type # "connected")
        => tip \in Anc[best]

(* BlockUntilSyncedToCurrentChain returns true only when the chain as it   *)
(* was at the call is indexed ("Blocks the current thread until the index  *)
(* is caught up to the current state of the block chain").                 *)
ReturnsSynced == waiter.pc = "true" => Anc[waiter.goal] \subseteq written \cup torn

(* When the chain comes to rest the index gets in sync with it and stays   *)
(* so, unless the assertion of Rewind stops the node.                      *)
EventuallySynced == <>[]((synced /\ tip \in Anc[best]) \/ RewindAssertFails)
=============================================================================

----------------------------- MODULE ChainLocks -----------------------------
(***************************************************************************)
(* CChainLocksHandler (llmq/chainlocks.cpp) of one masternode: how a       *)
(* ChainLock signature (CLSIG) for a block is received or made, how it     *)
(* becomes the best known one, and how it is enforced.                     *)
(*                                                                         *)
(* Threads.  "net" handles the messages of peers, "sig" the signatures the *)
(* quorum recovers, "sched" is the handler's own scheduler; headers and    *)
(* blocks also come in from other threads (RPC).  The lock cs is taken for *)
(* single steps only; nothing is held between the steps below.             *)
(*                                                                         *)
(* The chain is what BlockTree shows of it: block data arrives after the   *)
(* header, the active chain is extended by blocks that neither conflict    *)
(* with the lock in force nor were marked for such a conflict.  The CLSIGs *)
(* of the quorum are for blocks of one chain, so that a CLSIG is           *)
(* identified with its block; invalid ones are dropped without effect.     *)
(***************************************************************************)
EXTENDS Integers, FiniteSets

CONSTANTS
    Blocks, Genesis, Parent,
    Lockable,    \* blocks of one chain that the quorum signs
    Threads,     \* threads that process CLSIGs: "net", perhaps "sig"
    RpcBlocks,   \* blocks whose headers may come from another thread
    MaxEvents,   \* bound on switches of the spork and on restarts
    None

Anc[b \in Blocks] == IF b = Genesis THEN {b} ELSE Anc[Parent[b]] \cup {b}

(* nHeight, which is -1 for a CLSIG that is null.                          *)
Height(b) == IF b = None THEN -1 ELSE Cardinality(Anc[b]) - 1

ASSUME ChainAssumption ==
    /\ Genesis \in Blocks /\ None \notin Blocks
    /\ Parent \in [Blocks \ {Genesis} -> Blocks]
    /\ Lockable \subseteq Blocks \ {Genesis} /\ RpcBlocks \subseteq Blocks
    /\ \A a, b \in Lockable : a \in Anc[b] \/ b \in Anc[a]
    /\ "net" \in Threads /\ Threads \subseteq {"net", "sig"}
    /\ MaxEvents \in Nat

(* The parents make a tree: ancestors are what GetAncestor returns, one of *)
(* each height.                                                            *)
ASSUME TreeAssumption ==
    /\ Anc \in [Blocks -> SUBSET Blocks] /\ Anc[Genesis] = {Genesis}
    /\ \A b \in Blocks :
        /\ {Genesis, b} \subseteq Anc[b] /\ IsFiniteSet(Anc[b])
        /\ b # Genesis => Anc[b] = Anc[Parent[b]] \cup {b} /\ b \notin Anc[Parent[b]]
        /\ \A a \in Anc[b] : Anc[a] \subseteq Anc[b] /\ (b \in Anc[a] => a = b)
        /\ \A a, c \in Anc[b] : a \in Anc[c] \/ c \in Anc[a]
        /\ \A h \in 0..Height(b) : \E a \in Anc[b] : Height(a) = h

VARIABLES
    headers,     \* blocks of the block index
    data,        \* those with data
    conflict,    \* those marked BLOCK_CONFLICT_CHAINLOCK
    tip,         \* tip of the active chain
    spork,       \* SPORK_19_CHAINLOCKS_ENABLED is active
    isEnforced,  \* with DIP0008 long active, isEnabled is the same
    seen,        \* seenChainLocks
    best,        \* bestChainLock
    known,       \* bestChainLockWithKnownBlock and bestChainLockBlockIndex
    lastNotify,  \* lastNotifyChainLockBlockIndex
    lastSigned,  \* lastSignedHeight, lastSignedMsgHash
    th,          \* what each thread is doing
    events       \* switches and restarts so far

chain == <<headers, data, conflict, tip>>
locks == <<best, known, lastNotify>>
vars == <<chain, spork, isEnforced, seen, locks, lastSigned, th, events>>

AllThreads == Threads \cup {"sched"}
Pcs == {"idle", "checkRead", "checkSet", "checkReset", "seen", "lookup", "store",
        "enforce", "enforceBlock", "activate", "notify", "sign", "signCommit"}

(* clsig: the block at hand; old: oldIsEnforced; found: pindex # nullptr.  *)
Idle == [pc |-> "idle", clsig |-> None, old |-> FALSE, found |-> FALSE]

(* The handler's locks are CLSIGs of the quorum, data and marks belong to  *)
(* blocks of the index, and the active chain has all of its data.          *)
TypeOK ==
    /\ headers \subseteq Blocks /\ data \subseteq headers /\ conflict \subseteq headers
    /\ Anc[tip] \subseteq data /\ tip \in data
    /\ spork \in BOOLEAN /\ isEnforced \in BOOLEAN
    /\ seen \subseteq Lockable
    /\ {best, known, lastNotify} \subseteq Lockable \cup {None}
    /\ lastSigned \in Blocks \cup {None}
    /\ th \in [AllThreads -> [pc : Pcs, clsig : Blocks \cup {None},
                              old : BOOLEAN, found : BOOLEAN]]
    /\ events \in 0..MaxEvents

Init ==
    /\ headers = {Genesis} /\ data = {Genesis} /\ conflict = {} /\ tip = Genesis
    /\ spork \in BOOLEAN /\ isEnforced = FALSE
    /\ seen = {}
    /\ best = None /\ known = None /\ lastNotify = None
    /\ lastSigned = None
    /\ th = [t \in AllThreads |-> Idle]
    /\ events = 0

At(t, pc) == th[t].pc = pc
Goto(t, pc) == th' = [th EXCEPT ![t].pc = pc]
Finish(t) == th' = [th EXCEPT ![t] = Idle]
-----------------------------------------------------------------------------
(* Mutant: the height of the lock itself is left out.                      *)
HasConflictingChainLock_OffByOne(b) ==
    /\ isEnforced /\ known # None
    /\ Height(b) < Height(known)
    /\ b \notin Anc[known]

(* InternalHasConflictingChainLock: above the height of the lock there is  *)
(* no conflict.                                                            *)
HasConflictingChainLock(b) ==
    /\ isEnforced /\ known # None
    /\ Height(b) <= Height(known)
    /\ b \notin Anc[known]

(* AcceptBlockHeader.  The handler's AcceptedBlockHeader is called before  *)
(* cs_main is released.                                                    *)
AcceptBlockHeader(b) ==
    /\ b \in Blocks \ headers /\ Parent[b] \in headers \ conflict
    /\ b \in RpcBlocks \/ At("net", "idle")
    /\ headers' = headers \cup {b}
    /\ IF HasConflictingChainLock(b)
       THEN conflict' = conflict \cup {b} /\ UNCHANGED known
       ELSE /\ known' = IF b = best THEN best ELSE known
            /\ UNCHANGED conflict
    /\ UNCHANGED <<data, tip, spork, isEnforced, seen, best, lastNotify, lastSigned, th, events>>

AcceptBlock(b) ==
    /\ b \in headers \ (data \cup conflict)
    /\ data' = data \cup {b}
    /\ UNCHANGED <<headers, conflict, tip, spork, isEnforced, seen, locks, lastSigned, th, events>>

(* Where ActivateBestChain may take the active chain: to a longest chain   *)
(* that can be connected, if it is longer than the active one.             *)
Connectable ==
    {x \in data : /\ Anc[x] \subseteq data \ conflict
                  /\ \A y \in Anc[x] \ Anc[tip] : ~HasConflictingChainLock(y)}

Activated ==
    LET better == {x \in Connectable : Height(x) > Height(tip)}
    IN  IF better = {} THEN {tip}
        ELSE {x \in better : \A y \in better : Height(y) <= Height(x)}

ActivateBestChain ==
    /\ tip' \in Activated \ {tip}
    /\ UNCHANGED <<headers, data, conflict, spork, isEnforced, seen, locks, lastSigned, th, events>>
-----------------------------------------------------------------------------
(* CheckActiveState, called by every thread.  The flags are atomics; cs is *)
(* taken for the reset alone.                                              *)

AfterCheck(t) == IF t = "sched" THEN "enforce" ELSE "seen"

CheckRead(t) ==
    /\ At(t, "checkRead")
    /\ th' = [th EXCEPT ![t].old = isEnforced, ![t].pc = "checkSet"]
    /\ UNCHANGED <<chain, spork, isEnforced, seen, locks, lastSigned, events>>

CheckSet(t) ==
    /\ At(t, "checkSet")
    /\ isEnforced' = spork
    /\ Goto(t, IF ~th[t].old /\ spork THEN "checkReset" ELSE AfterCheck(t))
    /\ UNCHANGED <<chain, spork, seen, locks, lastSigned, events>>

CheckReset(t) ==
    /\ At(t, "checkReset")
    /\ best' = None /\ known' = None /\ lastNotify' = None
    /\ Goto(t, AfterCheck(t))
    /\ UNCHANGED <<chain, spork, isEnforced, seen, lastSigned, events>>
-----------------------------------------------------------------------------
(* ProcessNewChainLock.                                                    *)

ProcessMessage(b) ==
    /\ spork /\ At("net", "idle")
    /\ th' = [th EXCEPT !["net"] = [Idle EXCEPT !.pc = "checkRead", !.clsig = b]]
    /\ UNCHANGED <<chain, spork, isEnforced, seen, locks, lastSigned, events>>

HandleNewRecoveredSig ==
    /\ "sig" \in Threads /\ At("sig", "idle")
    /\ isEnforced /\ lastSigned \in Lockable
    /\ Height(best) < Height(lastSigned)
    /\ th' = [th EXCEPT !["sig"] = [Idle EXCEPT !.pc = "checkRead", !.clsig = lastSigned]]
    /\ UNCHANGED <<chain, spork, isEnforced, seen, locks, lastSigned, events>>

(* Mutant: older CLSIGs are not told from newer ones.                      *)
CheckSeen_NoHeight(t) ==
    /\ At(t, "seen")
    /\ seen' = seen \cup {th[t].clsig}
    /\ IF th[t].clsig \in seen THEN Finish(t) ELSE Goto(t, "lookup")
    /\ UNCHANGED <<chain, spork, isEnforced, locks, lastSigned, events>>

CheckSeen(t) ==
    /\ At(t, "seen")
    /\ seen' = seen \cup {th[t].clsig}
    /\ IF th[t].clsig \in seen \/ Height(th[t].clsig) <= Height(best)
       THEN Finish(t)
       ELSE Goto(t, "lookup")
    /\ UNCHANGED <<chain, spork, isEnforced, locks, lastSigned, events>>

LookupBlockIndex(t) ==
    /\ At(t, "lookup")
    /\ th' = [th EXCEPT ![t].found = th[t].clsig \in headers, ![t].pc = "store"]
    /\ UNCHANGED <<chain, spork, isEnforced, seen, locks, lastSigned, events>>

StoreBest_NeverKnown(t) ==
    /\ At(t, "store")
    /\ best' = th[t].clsig
    /\ Finish(t)
    /\ UNCHANGED <<chain, spork, isEnforced, seen, known, lastNotify, lastSigned, events>>

StoreBest(t) ==
    /\ At(t, "store")
    /\ best' = th[t].clsig
    /\ known' = IF th[t].found THEN th[t].clsig ELSE known
    /\ Finish(t)
    /\ UNCHANGED <<chain, spork, isEnforced, seen, lastNotify, lastSigned, events>>
-----------------------------------------------------------------------------
(* The scheduler: CheckActiveState, EnforceBestChainLock, TrySignChainTip, *)
(* every five seconds and after a new tip or a new CLSIG.                  *)

RunScheduler ==
    /\ At("sched", "idle")
    /\ Goto("sched", "checkRead")
    /\ UNCHANGED <<chain, spork, isEnforced, seen, locks, lastSigned, events>>

EnforceBestChainLock ==
    /\ At("sched", "enforce")
    /\ th' = [th EXCEPT !["sched"].clsig = known,
                        !["sched"].pc = IF isEnforced /\ known # None
                                        THEN "enforceBlock" ELSE "sign"]
    /\ UNCHANGED <<chain, spork, isEnforced, seen, locks, lastSigned, events>>

(* Mutant: the chain that competes with the lock is not disconnected.      *)
EnforceBlock_NoDisconnect ==
    /\ At("sched", "enforceBlock")
    /\ LET walk == Anc[th["sched"].clsig] \ Anc[tip]
       IN  conflict' = conflict \cup {x \in headers \ ({Genesis} \cup walk) :
                                        \E w \in walk : Parent[x] = Parent[w]}
    /\ Goto("sched", "activate")
    /\ UNCHANGED <<headers, data, tip, spork, isEnforced, seen, locks, lastSigned, events>>

EnforceBlock ==
    /\ At("sched", "enforceBlock")
    /\ LET walk == Anc[th["sched"].clsig] \ Anc[tip]
           rivals == {x \in headers \ ({Genesis} \cup walk) :
                          \E w \in walk : Parent[x] = Parent[w]}
           gone == {x \in Anc[tip] : rivals \cap Anc[x] # {}}
           kept == Anc[tip] \ gone
       IN  /\ conflict' = conflict \cup rivals \cup gone
           /\ \E x \in kept : kept \subseteq Anc[x] /\ tip' = x
    /\ Goto("sched", "activate")
    /\ UNCHANGED <<headers, data, spork, isEnforced, seen, locks, lastSigned, events>>

EnforceActivate ==
    /\ At("sched", "activate")
    /\ tip' \in IF th["sched"].clsig \in Anc[tip] THEN {tip} ELSE Activated
    /\ Goto("sched", IF th["sched"].clsig \in Anc[tip'] THEN "notify" ELSE "sign")
    /\ UNCHANGED <<headers, data, conflict, spork, isEnforced, seen, locks, lastSigned, events>>

NotifyChainLock ==
    /\ At("sched", "notify")
    /\ lastNotify' = th["sched"].clsig
    /\ Goto("sched", "sign")
    /\ UNCHANGED <<chain, spork, isEnforced, seen, best, known, lastSigned, events>>

(* TrySignChainTip begins with Cleanup, which forgets old entries of       *)
(* seenChainLocks, then looks at the tip.                                  *)
TrySignChainTip ==
    /\ At("sched", "sign")
    /\ \E old \in SUBSET seen : seen' = seen \ old
    /\ IF \/ ~isEnforced \/ tip = Genesis
          \/ Height(tip) = Height(lastSigned)
          \/ Height(best) >= Height(tip)
          \/ HasConflictingChainLock(tip)
       THEN Finish("sched")
       ELSE th' = [th EXCEPT !["sched"].clsig = tip, !["sched"].pc = "signCommit"]
    /\ UNCHANGED <<chain, spork, isEnforced, locks, lastSigned, events>>

(* Some transaction of the last blocks is neither InstantSend locked nor   *)
(* old enough: try again later.                                            *)
UnsafeTransactions ==
    /\ At("sched", "signCommit")
    /\ Finish("sched")
    /\ UNCHANGED <<chain, spork, isEnforced, seen, locks, lastSigned, events>>

SignCommit ==
    /\ At("sched", "signCommit")
    /\ lastSigned' = IF Height(best) >= Height(th["sched"].clsig) THEN lastSigned
                     ELSE th["sched"].clsig
    /\ Finish("sched")
    /\ UNCHANGED <<chain, spork, isEnforced, seen, locks, events>>
-----------------------------------------------------------------------------
(* The environment: the spork is switched, the node is restarted.  The     *)
(* handler keeps nothing on disk.                                          *)

SwitchSpork ==
    /\ events < MaxEvents
    /\ spork' = ~spork
    /\ events' = events + 1
    /\ UNCHANGED <<chain, isEnforced, seen, locks, lastSigned, th>>

Restart ==
    /\ events < MaxEvents
    /\ isEnforced' = FALSE /\ seen' = {}
    /\ best' = None /\ known' = None /\ lastNotify' = None
    /\ lastSigned' = None
    /\ th' = [t \in AllThreads |-> Idle]
    /\ events' = events + 1
    /\ UNCHANGED <<chain, spork>>

CheckStep(t) == CheckRead(t) \/ CheckSet(t) \/ CheckReset(t)

ProcessStep(t) == CheckStep(t) \/ CheckSeen(t) \/ LookupBlockIndex(t) \/ StoreBest(t)

SchedulerStep ==
    \/ RunScheduler \/ CheckStep("sched")
    \/ EnforceBestChainLock \/ EnforceBlock \/ EnforceActivate \/ NotifyChainLock
    \/ TrySignChainTip \/ UnsafeTransactions \/ SignCommit

Next ==
    \/ \E b \in Blocks : AcceptBlockHeader(b) \/ AcceptBlock(b)
    \/ \E b \in Lockable : ProcessMessage(b)
    \/ \E t \in Threads : ProcessStep(t)
    \/ ActivateBestChain \/ HandleNewRecoveredSig
    \/ SchedulerStep
    \/ SwitchSpork \/ Restart

Spec == Init /\ [][Next]_vars

(* Threads keep running, and blocks that can be connected are, since every *)
(* new block is followed by a call of ActivateBestChain.                   *)
Fairness ==
    /\ WF_vars(SchedulerStep)
    /\ \A t \in Threads : WF_vars(ProcessStep(t))
    /\ WF_vars(ActivateBestChain)

FairSpec == Spec /\ Fairness
-----------------------------------------------------------------------------
(* A comment in ProcessNewChainLock: "no need to process/relay older       *)
(* CLSIGs".  The best ChainLock is never replaced by an older one.         *)
BestNeverRegresses ==
    [][best' # None => Height(best') >= Height(best)]_vars

(* A comment in ProcessNewChainLock: "when the block or the header later   *)
(* comes in, we will enforce the correct chain".  So, whichever of CLSIG   *)
(* and header comes first, once both are there the lock is known.          *)
KnownFollowsBest ==
    best # None /\ best \in headers \ conflict => known = best

(* The handler acts on a CLSIG only if the block index has its block.      *)
KnownHasHeader == known # None => known \in headers

(* While a ChainLock is in force and its block active, no thread takes the *)
(* active chain off it, not even a scheduler run that read an older lock.  *)
TipStaysOnLock ==
    [][isEnforced /\ known # None /\ known \in Anc[tip] => known \in Anc[tip']]_vars

(* A lock that stays in force and whose chain has been received is in the  *)
(* active chain and announced from some time on.                           *)
LockIsEnforced ==
    <>[](isEnforced /\ known # None /\ Anc[known] \subseteq data \ conflict =>
            known \in Anc[tip] /\ lastNotify = known)
=============================================================================

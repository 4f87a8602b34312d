-------------------------- MODULE ChainLocksProofs --------------------------
(***************************************************************************)
(* Proofs about ChainLocks for every tree of blocks and any set of         *)
(* threads, with the spork switched and the node restarted at any time.    *)
(*                                                                         *)
(* The inductive invariant adds to the types what the threads carry        *)
(* between their steps: a CLSIG of the quorum, and, when the block index   *)
(* was found, that its header is known.  What holds for a single message   *)
(* thread only has its own invariant, SerialInv.                           *)
(***************************************************************************)
EXTENDS ChainLocks, FiniteSetTheorems, TLAPS

Works == [pc : Pcs, clsig : Blocks \cup {None}, old : BOOLEAN, found : BOOLEAN]

Carried ==
    /\ \A t \in Threads :
        /\ th[t].pc # "idle" => th[t].clsig \in Lockable
        /\ th[t].pc = "store" /\ th[t].found => th[t].clsig \in headers
    /\ th["sched"].pc \in {"enforceBlock", "activate", "notify"} =>
            th["sched"].clsig \in Lockable

IndInv == TypeOK /\ KnownHasHeader /\ Carried
-----------------------------------------------------------------------------
(* nHeight of a block is a natural number.                                 *)
LEMMA HeightType ==
    ASSUME NEW b \in Blocks
    PROVE  Height(b) \in Nat
<1>1. IsFiniteSet(Anc[b]) /\ b \in Anc[b] /\ b # None
  BY TreeAssumption, ChainAssumption
<1>2. Cardinality(Anc[b]) \in Nat
  BY <1>1, FS_CardinalityType
<1>3. Cardinality(Anc[b]) # 0
  BY <1>1, FS_EmptySet
<1> QED
  BY <1>1, <1>2, <1>3 DEF Height

(* A proper ancestor has a smaller height.                                 *)
LEMMA AncestorIsLower ==
    ASSUME NEW b \in Blocks, NEW a \in Anc[b]
    PROVE  a = b \/ Height(a) < Height(b)
<1>1. a \in Blocks /\ Anc[a] \subseteq Anc[b] /\ (b \in Anc[a] => a = b)
  BY TreeAssumption
<1>2. IsFiniteSet(Anc[b]) /\ b \in Anc[b] /\ a # None /\ b # None
  BY <1>1, TreeAssumption, ChainAssumption
<1>3. /\ Cardinality(Anc[a]) <= Cardinality(Anc[b])
      /\ Cardinality(Anc[b]) = Cardinality(Anc[a]) => Anc[b] = Anc[a]
      /\ IsFiniteSet(Anc[a])
  BY <1>1, <1>2, FS_Subset
<1>4. Cardinality(Anc[a]) \in Nat /\ Cardinality(Anc[b]) \in Nat
  BY <1>2, <1>3, FS_CardinalityType
<1> QED
  BY <1>1, <1>2, <1>3, <1>4 DEF Height

(* A chain has one block of each height (GetAncestor is a function).       *)
LEMMA OnePerHeight ==
    ASSUME NEW b \in Blocks, NEW a \in Anc[b], NEW c \in Anc[b],
           Height(a) = Height(c)
    PROVE  a = c
<1>1. a \in Blocks /\ c \in Blocks /\ (a \in Anc[c] \/ c \in Anc[a])
  BY TreeAssumption
<1>2. Height(a) \in Nat /\ Height(c) \in Nat
  BY <1>1, HeightType
<1> QED
  BY <1>1, <1>2, AncestorIsLower

(* A block is as high as its parent has ancestors.                         *)
LEMMA HeightOfChild ==
    ASSUME NEW b \in Blocks \ {Genesis}
    PROVE  Height(b) = Cardinality(Anc[Parent[b]])
<1>1. Parent[b] \in Blocks /\ b # None
  BY ChainAssumption
<1>2. /\ Anc[b] = Anc[Parent[b]] \cup {b} /\ b \notin Anc[Parent[b]]
      /\ IsFiniteSet(Anc[Parent[b]])
  BY <1>1, TreeAssumption
<1>3. Cardinality(Anc[Parent[b]]) \in Nat
  BY <1>2, FS_CardinalityType
<1>4. Cardinality(Anc[Parent[b]] \cup {b}) = Cardinality(Anc[Parent[b]]) + 1
  BY <1>2, FS_AddElement
<1> QED
  BY <1>1, <1>2, <1>3, <1>4 DEF Height

(* Blocks with the same parent have the same height.                       *)
LEMMA SiblingHeight ==
    ASSUME NEW r \in Blocks \ {Genesis}, NEW w \in Blocks \ {Genesis},
           Parent[r] = Parent[w]
    PROVE  Height(r) = Height(w)
  BY HeightOfChild
-----------------------------------------------------------------------------
(* A longer chain without a block that conflicts with the lock has the     *)
(* locked block in it if the present chain has.                            *)
LEMMA ConnectKeepsLock ==
    ASSUME IndInv, isEnforced, known # None, known \in Anc[tip],
           NEW x \in Connectable, Height(x) > Height(tip)
    PROVE  known \in Anc[x]
<1>1. /\ tip \in Blocks /\ x \in Blocks /\ known \in Blocks
      /\ Anc[tip] \subseteq Blocks /\ Anc[x] \subseteq Blocks
  BY TreeAssumption, ChainAssumption DEF IndInv, TypeOK, Connectable
<1>2. Height(known) <= Height(tip)
  <2>1. Height(known) \in Nat /\ Height(tip) \in Nat
    BY <1>1, HeightType
  <2> QED
    BY <1>1, <2>1, AncestorIsLower
<1>3. Height(known) \in 0..Height(x)
  BY <1>1, <1>2, HeightType
<1>4. PICK y \in Anc[x] : Height(y) = Height(known)
  BY <1>1, <1>3, TreeAssumption
<1>5. CASE y \in Anc[tip]
  BY <1>1, <1>4, <1>5, OnePerHeight
<1>6. CASE y \notin Anc[tip]
  <2>1. ~HasConflictingChainLock(y)
    BY <1>4, <1>6 DEF Connectable
  <2>2. Height(y) <= Height(known)
    BY <1>1, <1>4, HeightType
  <2>3. y \in Anc[known] /\ y \in Blocks
    BY <1>1, <1>4, <2>1, <2>2 DEF HasConflictingChainLock
  <2>4. y = known
    BY <1>1, <1>4, <2>3, AncestorIsLower, HeightType
  <2> QED
    BY <1>4, <2>4
<1> QED
  BY <1>5, <1>6

(* EnforceBlock for any CLSIG of the quorum disconnects nothing down to a  *)
(* locked block of the active chain.                                       *)
LEMMA EnforceKeepsLock ==
    ASSUME IndInv, isEnforced, known # None, known \in Anc[tip], EnforceBlock
    PROVE  known \in Anc[tip']
<1> DEFINE c == th["sched"].clsig
           walk == Anc[c] \ Anc[tip]
           rivals == {x \in headers \ ({Genesis} \cup walk) :
                          \E w \in walk : Parent[x] = Parent[w]}
           gone == {x \in Anc[tip] : rivals \cap Anc[x] # {}}
           kept == Anc[tip] \ gone
<1>1. c \in Lockable /\ known \in Lockable
  BY DEF IndInv, TypeOK, Carried, EnforceBlock, At
<1>2. /\ c \in Blocks /\ known \in Blocks /\ tip \in Blocks
      /\ Anc[c] \subseteq Blocks /\ Anc[tip] \subseteq Blocks /\ Anc[known] \subseteq Anc[tip]
      /\ headers \subseteq Blocks
  BY <1>1, ChainAssumption, TreeAssumption DEF IndInv, TypeOK
<1>3. \E x \in kept : kept \subseteq Anc[x] /\ tip' = x
  BY DEF EnforceBlock
<1>4. known \notin gone
  <2>1. SUFFICES ASSUME NEW r \in rivals, r \in Anc[known] PROVE FALSE
    OBVIOUS
  <2>2. PICK w \in walk : Parent[r] = Parent[w]
    OBVIOUS
  <2>3. w \notin Anc[known] /\ w \in Blocks /\ w \in Anc[c]
    BY <1>2, <2>2
  <2>4. known \in Anc[c]
    <3>1. c \in Anc[known] \/ known \in Anc[c]
      BY <1>1, ChainAssumption
    <3>2. c \notin Anc[known]
      BY <1>2, <2>3, TreeAssumption
    <3> QED
      BY <3>1, <3>2
  <2>5. known \in Anc[w] /\ known # w
    BY <1>2, <2>3, <2>4, TreeAssumption
  <2>6. Height(known) < Height(w)
    BY <2>3, <2>5, AncestorIsLower
  <2>7. r \in Blocks \ {Genesis} /\ w \in Blocks \ {Genesis}
    <3>1. Genesis \in Anc[known]
      BY <1>2, TreeAssumption, ChainAssumption
    <3> QED
      BY <1>2, <2>1, <2>3, <3>1
  <2>8. Height(r) = Height(w)
    BY <2>2, <2>7, SiblingHeight
  <2>9. Height(r) <= Height(known)
    BY <1>2, <2>1, <2>7, AncestorIsLower, HeightType
  <2> QED
    BY <1>2, <2>6, <2>7, <2>8, <2>9, HeightType
<1> QED
  BY <1>3, <1>4
-----------------------------------------------------------------------------
(* One step preserves the inductive invariant.                             *)
LEMMA InvStep == IndInv /\ [Next]_vars => IndInv'
<1> SUFFICES ASSUME IndInv, [Next]_vars PROVE IndInv'
  OBVIOUS
<1> USE DEF IndInv, TypeOK, KnownHasHeader, Carried, chain, locks, AllThreads, Idle, At,
        Goto, Finish
<1>0. "sched" \notin Threads /\ Lockable \subseteq Blocks \ {Genesis} /\ None \notin Blocks
  BY ChainAssumption
<1>1. ASSUME NEW b \in Blocks, AcceptBlockHeader(b) PROVE IndInv'
  BY <1>0, <1>1 DEF AcceptBlockHeader, Pcs
<1>2. ASSUME NEW b \in Blocks, AcceptBlock(b) PROVE IndInv'
  BY <1>0, <1>2 DEF AcceptBlock
<1>3. ASSUME NEW b \in Lockable, ProcessMessage(b) PROVE IndInv'
  BY <1>0, <1>3 DEF ProcessMessage, Pcs
<1>4. CASE HandleNewRecoveredSig
  BY <1>0, <1>4 DEF HandleNewRecoveredSig, Pcs
<1>5. ASSUME NEW t \in AllThreads, CheckRead(t) PROVE IndInv'
  BY <1>0, <1>5 DEF CheckRead, Pcs
<1>6. ASSUME NEW t \in AllThreads, CheckSet(t) PROVE IndInv'
  BY <1>0, <1>6 DEF CheckSet, AfterCheck, Pcs
<1>7. ASSUME NEW t \in AllThreads, CheckReset(t) PROVE IndInv'
  <2>1. {best', known', lastNotify'} \subseteq Lockable \cup {None} /\ KnownHasHeader'
    BY <1>7 DEF CheckReset
  <2>2. th' \in [AllThreads -> Works] /\ Carried'
    BY <1>0, <1>7 DEF CheckReset, AfterCheck, Pcs, Works
  <2> QED
    BY <1>7, <2>1, <2>2 DEF CheckReset, Works
<1>8. ASSUME NEW t \in Threads, CheckSeen(t) PROVE IndInv'
  <2>1. th[t].clsig \in Lockable /\ th[t] \in Works
    BY <1>8 DEF CheckSeen, Works
  <2>2. CASE Finish(t)
    BY <1>0, <1>8, <2>1, <2>2 DEF CheckSeen, Pcs
  <2>3. CASE Goto(t, "lookup")
    BY <1>0, <1>8, <2>1, <2>3 DEF CheckSeen, Pcs
  <2> QED
    BY <1>8, <2>2, <2>3 DEF CheckSeen
<1>9. ASSUME NEW t \in Threads, LookupBlockIndex(t) PROVE IndInv'
  BY <1>0, <1>9 DEF LookupBlockIndex, Pcs
<1>10. ASSUME NEW t \in Threads, StoreBest(t) PROVE IndInv'
  BY <1>0, <1>10 DEF StoreBest, Pcs
<1>11. CASE ActivateBestChain
  BY <1>0, <1>11 DEF ActivateBestChain, Activated, Connectable
<1>12. CASE RunScheduler
  BY <1>0, <1>12 DEF RunScheduler, Pcs
<1>13. CASE EnforceBestChainLock
  BY <1>0, <1>13 DEF EnforceBestChainLock, Pcs
<1>14. CASE EnforceBlock
  BY <1>0, <1>14, TreeAssumption DEF EnforceBlock, Pcs
<1>15. CASE EnforceActivate
  BY <1>0, <1>15 DEF EnforceActivate, Activated, Connectable, Pcs
<1>16. CASE NotifyChainLock
  BY <1>0, <1>16 DEF NotifyChainLock, Pcs
<1>17. CASE TrySignChainTip
  <2>1. CASE Finish("sched")
    BY <1>0, <1>17, <2>1 DEF TrySignChainTip, Pcs
  <2>2. CASE th' = [th EXCEPT !["sched"].clsig = tip, !["sched"].pc = "signCommit"]
    BY <1>0, <1>17, <2>2 DEF TrySignChainTip, Pcs
  <2> QED
    BY <1>17, <2>1, <2>2 DEF TrySignChainTip
<1>18. CASE UnsafeTransactions
  BY <1>0, <1>18 DEF UnsafeTransactions, Pcs
<1>19. CASE SignCommit
  BY <1>0, <1>19 DEF SignCommit, Pcs
<1>20. CASE SwitchSpork
  BY <1>0, <1>20, ChainAssumption DEF SwitchSpork
<1>21. CASE Restart
  <2>1. th' \in [AllThreads -> Works] /\ Carried'
    BY <1>0, <1>21 DEF Restart, Pcs, Works
  <2>2. {best', known', lastNotify'} \subseteq Lockable \cup {None} /\ KnownHasHeader'
    BY <1>21 DEF Restart
  <2>3. events' \in 0..MaxEvents
    BY <1>21, ChainAssumption DEF Restart
  <2>4. /\ seen' \subseteq Lockable /\ lastSigned' \in Blocks \cup {None}
        /\ spork' \in BOOLEAN /\ isEnforced' \in BOOLEAN
    BY <1>21 DEF Restart
  <2>5. UNCHANGED chain
    BY <1>21 DEF Restart
  <2> HIDE DEF Carried, KnownHasHeader
  <2> QED
    BY <2>1, <2>2, <2>3, <2>4, <2>5 DEF Works
<1>22. CASE UNCHANGED vars
  BY <1>22 DEF vars
<1> QED
  BY <1>1, <1>2, <1>3, <1>4, <1>5, <1>6, <1>7, <1>8, <1>9, <1>10, <1>11, <1>12, <1>13,
     <1>14, <1>15, <1>16, <1>17, <1>18, <1>19, <1>20, <1>21, <1>22
     DEF Next, ProcessStep, CheckStep, SchedulerStep
-----------------------------------------------------------------------------
(* The inductive invariant holds of every behaviour.                       *)
THEOREM HandlerInvariant == Spec => []IndInv
<1>1. Init => IndInv
  <2> SUFFICES ASSUME Init PROVE IndInv
    OBVIOUS
  <2>1. th \in [AllThreads -> Works] /\ Carried
    BY DEF Init, Carried, Idle, AllThreads, Pcs, Works
  <2>2. {best, known, lastNotify} \subseteq Lockable \cup {None} /\ KnownHasHeader
    BY DEF Init, KnownHasHeader
  <2>3. Anc[tip] \subseteq data
    BY TreeAssumption DEF Init
  <2>4. events \in 0..MaxEvents
    BY ChainAssumption DEF Init
  <2>5. /\ seen \subseteq Lockable /\ lastSigned \in Blocks \cup {None}
        /\ spork \in BOOLEAN /\ isEnforced \in BOOLEAN
        /\ headers \subseteq Blocks /\ data \subseteq headers /\ conflict \subseteq headers
        /\ tip \in data
    BY ChainAssumption DEF Init
  <2> QED
    BY <2>1, <2>2, <2>3, <2>4, <2>5 DEF IndInv, TypeOK, Works
<1> QED
  BY <1>1, InvStep, PTL DEF Spec

(* Types, among them that the active chain has its data.                   *)
THEOREM HandlerTypeCorrect == Spec => []TypeOK
  BY HandlerInvariant, PTL DEF IndInv

(* bestChainLockBlockIndex is only ever set to a block of the index.       *)
THEOREM KnownBlocksHaveHeaders == Spec => []KnownHasHeader
  BY HandlerInvariant, PTL DEF IndInv

(* No step of any thread takes the active chain off the lock in force.     *)
THEOREM ActiveChainStaysOnLock == Spec => TipStaysOnLock
<1> DEFINE Stays == isEnforced /\ known # None /\ known \in Anc[tip] => known \in Anc[tip']
<1>1. IndInv /\ [Next]_vars => Stays
  <2> SUFFICES ASSUME IndInv, [Next]_vars, isEnforced, known # None, known \in Anc[tip]
               PROVE  known \in Anc[tip']
    OBVIOUS
  <2>1. CASE EnforceBlock
    BY <2>1, EnforceKeepsLock
  <2>2. CASE ActivateBestChain \/ EnforceActivate
    <3>1. tip' = tip \/ (tip' \in Connectable /\ Height(tip') > Height(tip))
      BY <2>2 DEF ActivateBestChain, EnforceActivate, Activated
    <3> QED
      BY <3>1, ConnectKeepsLock
  <2>3. CASE ~(EnforceBlock \/ ActivateBestChain \/ EnforceActivate)
    <3>1. tip' = tip
      BY <2>3 DEF Next, vars, chain, ProcessStep, CheckStep, SchedulerStep,
            AcceptBlockHeader, AcceptBlock, ProcessMessage, HandleNewRecoveredSig,
            CheckRead, CheckSet, CheckReset, CheckSeen, LookupBlockIndex, StoreBest,
            RunScheduler, EnforceBestChainLock, NotifyChainLock, TrySignChainTip,
            UnsafeTransactions, SignCommit, SwitchSpork, Restart
    <3> QED
      BY <3>1
  <2> QED
    BY <2>1, <2>2, <2>3
<1> QED
  BY <1>1, HandlerInvariant, PTL DEF Spec, TipStaysOnLock
-----------------------------------------------------------------------------
(* When all CLSIGs and headers come through the message thread, no header  *)
(* is accepted between its lookup and its store, and nothing but a reset   *)
(* changes the best CLSIG after the height check.                          *)
SerialInv ==
    /\ KnownFollowsBest
    /\ th["net"].pc \in {"lookup", "store"} => Height(best) < Height(th["net"].clsig)
    /\ th["net"].pc = "store" => (th["net"].found <=> th["net"].clsig \in headers)

(* The height of a null CLSIG is below that of any block.                  *)
LEMMA NullIsLowest ==
    ASSUME NEW b \in Blocks
    PROVE  Height(None) < Height(b)
<1>1. Height(b) \in Nat
  BY HeightType
<1> QED
  BY <1>1 DEF Height

(* One step of a node with one message thread preserves SerialInv.         *)
LEMMA SerialStep ==
    ASSUME Threads = {"net"}, RpcBlocks = {}, IndInv, SerialInv, [Next]_vars
    PROVE  SerialInv'
<1> USE DEF SerialInv, KnownFollowsBest, Idle, At, Goto, Finish
<1>0. /\ th \in [{"net", "sched"} -> Works] /\ headers \subseteq Blocks
      /\ th["net"].pc # "idle" => th["net"].clsig \in Lockable
      /\ Lockable \subseteq Blocks /\ None \notin Blocks
  BY ChainAssumption DEF IndInv, TypeOK, Carried, Works, AllThreads
<1>1. ASSUME NEW b \in Blocks, AcceptBlockHeader(b) PROVE SerialInv'
  BY <1>0, <1>1 DEF AcceptBlockHeader
<1>2. ASSUME NEW b \in Blocks, AcceptBlock(b) PROVE SerialInv'
  BY <1>2 DEF AcceptBlock, locks
<1>3. ASSUME NEW b \in Lockable, ProcessMessage(b) PROVE SerialInv'
  BY <1>0, <1>3 DEF ProcessMessage, chain, locks, Works
<1>4. CASE HandleNewRecoveredSig
  BY <1>4 DEF HandleNewRecoveredSig
<1>5. ASSUME NEW t \in {"net", "sched"}, CheckRead(t) \/ CheckSet(t) PROVE SerialInv'
  BY <1>0, <1>5 DEF CheckRead, CheckSet, AfterCheck, chain, locks, Works
<1>6. ASSUME NEW t \in {"net", "sched"}, CheckReset(t) PROVE SerialInv'
  <2>1. best' = None /\ headers' = headers
    BY <1>6 DEF CheckReset, chain
  <2>2. /\ th'["net"].clsig = th["net"].clsig /\ th'["net"].found = th["net"].found
        /\ th'["net"].pc \in {"lookup", "store"} => th'["net"].pc = th["net"].pc
    BY <1>0, <1>6 DEF CheckReset, AfterCheck, Works
  <2>3. th["net"].pc \in {"lookup", "store"} => Height(None) < Height(th["net"].clsig)
    BY <1>0, NullIsLowest
  <2> QED
    BY <2>1, <2>2, <2>3 DEF Height
<1>7. CASE CheckSeen("net")
  <2>1. th["net"].clsig \in Blocks
    BY <1>0, <1>7 DEF CheckSeen
  <2>2. Height(th["net"].clsig) \in Nat /\ Height(best) \in Int
    BY <1>0, <2>1, HeightType DEF IndInv, TypeOK, Height
  <2> QED
    BY <1>0, <1>7, <2>2 DEF CheckSeen, chain, locks, Works
<1>8. CASE LookupBlockIndex("net")
  BY <1>0, <1>8 DEF LookupBlockIndex, chain, locks, Works
<1>9. CASE StoreBest("net")
  BY <1>0, <1>9 DEF StoreBest, chain, Works
<1>10. CASE ActivateBestChain
  BY <1>10 DEF ActivateBestChain, locks
<1>11. CASE RunScheduler \/ EnforceBestChainLock \/ NotifyChainLock \/ UnsafeTransactions
             \/ SignCommit \/ TrySignChainTip
  <2>1. th'["net"] = th["net"] /\ UNCHANGED <<headers, conflict, best, known>>
    BY <1>0, <1>11 DEF RunScheduler, EnforceBestChainLock, NotifyChainLock,
        UnsafeTransactions, SignCommit, TrySignChainTip, chain, locks, Works
  <2> QED
    BY <2>1
<1>12. CASE EnforceBlock \/ EnforceActivate
  <2>1. th'["net"] = th["net"] /\ UNCHANGED <<headers, best, known>> /\ conflict \subseteq conflict'
    BY <1>0, <1>12 DEF EnforceBlock, EnforceActivate, locks, Works
  <2> QED
    BY <2>1
<1>13. CASE SwitchSpork
  BY <1>13 DEF SwitchSpork, chain, locks
<1>14. CASE Restart
  <2>1. th'["net"] = Idle /\ best' = None
    BY <1>14 DEF Restart, AllThreads
  <2> QED
    BY <2>1
<1>15. CASE UNCHANGED vars
  BY <1>15 DEF vars, chain, locks
<1> QED
  BY <1>1, <1>2, <1>3, <1>4, <1>5, <1>6, <1>7, <1>8, <1>9, <1>10, <1>11, <1>12, <1>13,
     <1>14, <1>15 DEF Next, ProcessStep, CheckStep, SchedulerStep

(* SerialInv holds of every behaviour of such a node.                      *)
LEMMA SerialInvariant ==
    ASSUME Threads = {"net"}, RpcBlocks = {}
    PROVE  Spec => []SerialInv
<1>1. Init => SerialInv
  BY DEF Init, SerialInv, KnownFollowsBest, AllThreads, Idle
<1>2. IndInv /\ SerialInv /\ [Next]_vars => SerialInv'
  BY SerialStep
<1> QED
  BY <1>1, <1>2, HandlerInvariant, PTL DEF Spec

(* With one message thread, a CLSIG and its header that are both there are *)
(* the lock the handler enforces, whichever came first.                    *)
THEOREM LockBecomesKnown ==
    ASSUME Threads = {"net"}, RpcBlocks = {}
    PROVE  Spec => []KnownFollowsBest
  BY SerialInvariant, PTL DEF SerialInv

(* With one message thread, ProcessNewChainLock never replaces the best    *)
(* ChainLock by an older one.                                              *)
THEOREM BestOnlyAdvances ==
    ASSUME Threads = {"net"}, RpcBlocks = {}
    PROVE  Spec => BestNeverRegresses
<1> DEFINE Advances == best' # None => Height(best') >= Height(best)
<1>1. IndInv /\ SerialInv /\ [Next]_vars => Advances
  <2> SUFFICES ASSUME IndInv, SerialInv, [Next]_vars PROVE Advances
    OBVIOUS
  <2>1. Height(best) \in Int
    BY HeightType, ChainAssumption DEF IndInv, TypeOK, Height
  <2>2. CASE StoreBest("net")
    <3>1. best' = th["net"].clsig /\ th["net"].clsig \in Blocks
      BY <2>2, ChainAssumption DEF StoreBest, At, IndInv, Carried
    <3>2. Height(best) < Height(th["net"].clsig) /\ Height(th["net"].clsig) \in Nat
      BY <2>2, <3>1, HeightType DEF StoreBest, At, SerialInv
    <3>3. Height(best') = Height(th["net"].clsig)
      BY <3>1 DEF Height
    <3> QED
      BY <2>1, <3>2, <3>3
  <2>3. CASE ~StoreBest("net")
    <3>1. best' \in {None, best}
      BY <2>3 DEF Next, vars, chain, locks, ProcessStep, CheckStep, SchedulerStep,
            AcceptBlockHeader, AcceptBlock, ProcessMessage, HandleNewRecoveredSig,
            CheckRead, CheckSet, CheckReset, CheckSeen, LookupBlockIndex,
            ActivateBestChain, RunScheduler, EnforceBestChainLock, EnforceBlock,
            EnforceActivate, NotifyChainLock, TrySignChainTip, UnsafeTransactions,
            SignCommit, SwitchSpork, Restart
    <3> QED
      BY <2>1, <3>1 DEF Height
  <2> QED
    BY <2>2, <2>3
<1> QED
  BY <1>1, HandlerInvariant, SerialInvariant, PTL DEF Spec, BestNeverRegresses
=============================================================================

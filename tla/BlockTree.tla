----------------------------- MODULE BlockTree -----------------------------
(***************************************************************************)
(* The block index of one node and the selection of its active chain:      *)
(* CChainState and BlockManager (validation.cpp), with blocks identified   *)
(* by their hashes and the tree of all blocks given by the constants.      *)
(*                                                                         *)
(* Locks.  cs_main protects everything here.  m_cs_chainstate is held by   *)
(* ActivateBestChain and InvalidateBlock over several periods in which     *)
(* cs_main is taken; between these periods headers and blocks come in.     *)
(* Each period of ActivateBestChain is several steps here ("find",         *)
(* "disconnect", "connect"), because a new ChainLock, which needs no       *)
(* cs_main, can fall between the chain lock checks of two ConnectBlocks.   *)
(*                                                                         *)
(* Nothing is pruned, so a block has data iff it has been received.        *)
(***************************************************************************)
EXTENDS Integers, FiniteSets

CONSTANTS
    Blocks, Genesis,
    Parent,       \* parent of each block but Genesis
    ChainWork,    \* nChainWork of each block
    Address,      \* where its CBlockIndex lies in memory
    Malformed,    \* blocks that ContextualCheckBlock rejects
    Invalid,      \* blocks that ConnectBlock rejects
    Lockable,     \* blocks that the masternodes may sign a ChainLock for
    MaxManual,    \* bound on invalidateblock, reconsiderblock, preciousblock
    None

Anc[b \in Blocks] == IF b = Genesis THEN {b} ELSE Anc[Parent[b]] \cup {b}
Height(b) == Cardinality(Anc[b]) - 1

(* Anc is what its recursive definition says: every chain of parents ends  *)
(* at Genesis.                                                             *)
AncUnfolds ==
    /\ Anc \in [Blocks -> SUBSET Blocks]
    /\ \A b \in Blocks : Anc[b] = IF b = Genesis THEN {b} ELSE Anc[Parent[b]] \cup {b}

ASSUME TreeAssumption ==
    /\ Genesis \in Blocks /\ None \notin Blocks
    /\ Parent \in [Blocks \ {Genesis} -> Blocks]
    /\ ChainWork \in [Blocks -> Nat] /\ Address \in [Blocks -> Nat]
    /\ \A a, b \in Blocks : Address[a] = Address[b] => a = b
    /\ \A b \in Blocks \ {Genesis} : ChainWork[b] > ChainWork[Parent[b]]
    /\ Malformed \subseteq Blocks \ {Genesis} /\ Invalid \subseteq Blocks \ {Genesis}
    /\ Lockable \subseteq Blocks \ {Genesis}
    /\ \A b \in Lockable : Anc[b] \cap (Malformed \cup Invalid) = {}
    /\ MaxManual \in Nat
    /\ AncUnfolds

VARIABLES
    tree,    \* the block index and the active chain, see EmptyTree
    busy,    \* the holder of m_cs_chainstate and where it is
    locked,  \* the block of the ChainLock in force, or None
    owed,    \* calls some thread is on its way to make: "activate", "enforce"
    manual,  \* number of operator requests so far
    gap      \* history: why candidates may be missing, see CandidatesComplete

vars == <<tree, busy, locked, owed, manual, gap>>

(* index: m_block_index; data: BLOCK_HAVE_DATA; linked: HaveTxsDownloaded; *)
(* seq: nSequenceId; scripts: reached BLOCK_VALID_SCRIPTS; failed, child,  *)
(* conflict: BLOCK_FAILED_VALID, BLOCK_FAILED_CHILD,                       *)
(* BLOCK_CONFLICT_CHAINLOCK; failedBlocks: m_failed_blocks; cand:          *)
(* setBlockIndexCandidates; unlinked: m_blocks_unlinked; tip: m_chain's    *)
(* tip; rev and precWork: nBlockReverseSequenceId, nLastPreciousChainwork. *)
EmptyTree ==
    [index |-> {Genesis}, data |-> {Genesis}, linked |-> {Genesis},
     seq |-> [b \in Blocks |-> 0], scripts |-> {Genesis},
     failed |-> {}, child |-> {}, conflict |-> {}, failedBlocks |-> {},
     cand |-> {Genesis}, unlinked |-> {}, tip |-> Genesis,
     rev |-> -1, precWork |-> 0]

Free == [op |-> "none"]

Init ==
    /\ tree = EmptyTree
    /\ busy = Free
    /\ locked = None
    /\ owed = {}
    /\ manual = 0
    /\ gap = {}

MainLocked == busy.op = "abc" /\ busy.pc # "release"
-----------------------------------------------------------------------------
Active == Anc[tree.tip]

(* CBlockIndexWorkComparator: a sorts before (is worse than) b.            *)
Worse(t, a, b) ==
    \/ ChainWork[a] < ChainWork[b]
    \/ ChainWork[a] = ChainWork[b] /\ t.seq[a] > t.seq[b]
    \/ ChainWork[a] = ChainWork[b] /\ t.seq[a] = t.seq[b] /\ Address[a] > Address[b]

Failed(t) == t.failed \cup t.child

(* CBlockIndex::IsValid(BLOCK_VALID_TRANSACTIONS) of a linked block that   *)
(* does not conflict with a ChainLock.                                     *)
Usable(t) == (t.linked \cap t.data) \ (Failed(t) \cup t.conflict)

(* HasConflictingChainLock(b).                                             *)
HasConflictingChainLock(b) ==
    /\ locked # None
    /\ Height(b) <= Height(locked)
    /\ b \notin Anc[locked]

(* PruneBlockIndexCandidates.                                              *)
Prune(t) == [t EXCEPT !.cand = {x \in @ : ~Worse(t, x, t.tip)}]

(* The block index is walked for candidates at least as good as the tip.   *)
AddCandidates(t) ==
    [t EXCEPT !.cand = @ \cup {x \in Usable(t) : ~Worse(t, x, t.tip)}]

Best(t, S) == CHOOSE b \in S : \A x \in S : x = b \/ Worse(t, x, b)
-----------------------------------------------------------------------------
(* AcceptBlockHeader of an unknown header.                                 *)

AcceptBlockHeader(b) ==
    /\ ~MainLocked
    /\ b \in Blocks \ tree.index /\ Parent[b] \in tree.index
    /\ Parent[b] \notin Failed(tree) \cup tree.conflict
    /\ LET badAnc == IF Parent[b] \in tree.scripts THEN {}
                     ELSE tree.failedBlocks \cap Anc[Parent[b]]
       IN  IF badAnc # {}
           THEN \E f \in badAnc :
                    tree' = [tree EXCEPT !.child = @ \cup (Anc[Parent[b]] \ Anc[f])]
           ELSE tree' = [tree EXCEPT
                    !.index = @ \cup {b},
                    !.conflict = IF HasConflictingChainLock(b) THEN @ \cup {b} ELSE @]
    /\ UNCHANGED <<busy, locked, owed, manual, gap>>

(* Blocks that become linked once b has data: b and, through               *)
(* m_blocks_unlinked, its waiting descendants.                             *)
NowLinked(b) ==
    {x \in tree.unlinked \cup {b} : (Anc[x] \ Anc[b]) \subseteq tree.unlinked /\ b \in Anc[x]}

(* Sequence numbers for them, in an order in which a queue from b may      *)
(* visit them.                                                             *)
SequenceIds(new) ==
    LET n == Cardinality(tree.linked)
    IN  {s \in [new -> n..(n + Cardinality(new) - 1)] :
            \A x, y \in new : x # y => s[x] # s[y] /\ (x \in Anc[y] => s[x] < s[y])}

ReceivedBlockTransactions(b) ==
    IF Parent[b] \in tree.linked
    THEN LET new == NowLinked(b)
         IN  \E s \in SequenceIds(new) :
                LET t == [tree EXCEPT
                            !.data = @ \cup {b},
                            !.linked = @ \cup new,
                            !.seq = [x \in Blocks |-> IF x \in new THEN s[x] ELSE @[x]],
                            !.unlinked = @ \ new]
                IN  tree' = [t EXCEPT !.cand = @ \cup
                                {x \in new \ t.conflict : ~Worse(t, x, t.tip)}]
    ELSE tree' = [tree EXCEPT
                    !.data = @ \cup {b},
                    !.unlinked = IF Parent[b] \in Failed(tree) THEN @ ELSE @ \cup {b}]

(* AcceptBlock of a block whose header is known; a block that comes with   *)
(* an unknown header is AcceptBlockHeader followed by this.                *)
AcceptBlock(b, requested) ==
    /\ ~MainLocked
    /\ b \in tree.index \ tree.data
    /\ b \notin Failed(tree) \cup tree.conflict
    /\ requested \/ ChainWork[b] >= ChainWork[tree.tip]
    /\ IF b \in Malformed
       THEN tree' = [tree EXCEPT !.failed = @ \cup {b}]
       ELSE ReceivedBlockTransactions(b)
    /\ owed' = IF b \in Malformed THEN owed ELSE owed \cup {"activate"}
    /\ UNCHANGED <<busy, locked, manual, gap>>
-----------------------------------------------------------------------------
(* ActivateBestChain.  start is the tip when cs_main was taken, oldTip the *)
(* tip when ActivateBestChainStep was called, target pindexMostWork.       *)

ActivateBestChain ==
    /\ busy = Free
    /\ busy' = [op |-> "abc", pc |-> "find", target |-> None,
                oldTip |-> tree.tip, start |-> tree.tip]
    /\ owed' = owed \ {"activate"}
    /\ UNCHANGED <<tree, locked, manual, gap>>

(* One round of FindMostWorkChain: the best candidate is the target unless *)
(* its branch has a failed or conflicting block.  When no candidate is     *)
(* left after a failed reorganisation, cs_main is released and the search  *)
(* repeated once.                                                          *)
FindMostWorkChain ==
    /\ busy.op = "abc" /\ busy.pc = "find"
    /\ LET best == IF busy.target # None THEN busy.target
                   ELSE IF tree.cand = {} THEN tree.tip ELSE Best(tree, tree.cand)
           path == Anc[best] \ Active
           bad  == path \cap (Failed(tree) \cup tree.conflict)
           test == CHOOSE x \in bad : \A y \in bad : y \in Anc[x]
           above == Anc[best] \ Anc[test]
       IN  IF busy.target = None /\ bad # {}
           THEN /\ tree' = [tree EXCEPT
                        !.cand = @ \ (above \cup {test}),
                        !.child = IF test \in Failed(tree) THEN @ \cup above ELSE @,
                        !.conflict = IF test \in Failed(tree) THEN @ ELSE @ \cup above]
                /\ UNCHANGED <<busy, gap>>
           ELSE /\ busy' = IF best # tree.tip
                           THEN [busy EXCEPT !.pc = "disconnect", !.target = best,
                                             !.oldTip = tree.tip]
                           ELSE IF tree.cand = {} /\ tree.tip # busy.start
                                THEN [busy EXCEPT !.pc = "release"] ELSE Free
                /\ gap' = IF tree.cand = {} THEN gap \cup {"starved"} ELSE gap
                /\ UNCHANGED tree
    /\ UNCHANGED <<locked, owed, manual>>

(* ActivateBestChainStep disconnects down to the fork point ...            *)
DisconnectToFork ==
    /\ busy.op = "abc" /\ busy.pc = "disconnect"
    /\ tree' = [tree EXCEPT !.tip =
                    CHOOSE f \in Active \cap Anc[busy.target] :
                        Active \cap Anc[busy.target] \subseteq Anc[f]]
    /\ busy' = [busy EXCEPT !.pc = "connect"]
    /\ UNCHANGED <<locked, owed, manual, gap>>

(* ... and connects block after block (ConnectTip).  After an invalid one  *)
(* the search starts again, at once if the tip is now worse than it was    *)
(* when cs_main was taken; cs_main is released when the new tip has more   *)
(* work than the old one.                                                  *)
ConnectTip ==
    /\ busy.op = "abc" /\ busy.pc = "connect"
    /\ LET n == CHOOSE x \in Anc[busy.target] : x # Genesis /\ Parent[x] = tree.tip
       IN  IF n \in Invalid \/ HasConflictingChainLock(n)
           THEN /\ tree' = [tree EXCEPT !.failed = @ \cup {n},
                                        !.failedBlocks = @ \cup {n},
                                        !.cand = @ \ {n}]
                /\ busy' = [busy EXCEPT !.target = None,
                                        !.pc = IF Worse(tree, tree.tip, busy.start)
                                               THEN "find" ELSE "release"]
           ELSE /\ tree' = Prune([tree EXCEPT !.tip = n, !.scripts = @ \cup {n}])
                /\ busy' = IF ChainWork[n] <= ChainWork[busy.oldTip] /\ n # busy.target
                           THEN busy
                           ELSE IF Worse(tree, n, busy.start)
                                THEN [busy EXCEPT !.pc = "find"]
                                ELSE IF n = busy.target THEN Free
                                     ELSE [busy EXCEPT !.pc = "release"]
    /\ UNCHANGED <<locked, owed, manual, gap>>

(* Mutant: ActivateBestChain returns instead of taking cs_main again.      *)
Reacquire_Returns ==
    /\ busy.op = "abc" /\ busy.pc = "release"
    /\ busy' = Free
    /\ UNCHANGED <<tree, locked, owed, manual, gap>>

(* cs_main is taken again.                                                 *)
Reacquire ==
    /\ busy.op = "abc" /\ busy.pc = "release"
    /\ busy' = [busy EXCEPT !.pc = "find", !.start = tree.tip]
    /\ UNCHANGED <<tree, locked, owed, manual, gap>>
-----------------------------------------------------------------------------
(* InvalidateBlock: cs_main is released after each disconnected block.     *)

InvalidateBlock(b) ==
    /\ busy = Free /\ manual < MaxManual
    /\ b \in tree.index \ {Genesis}
    /\ busy' = [op |-> "inval", block |-> b, mark |-> b,
                byWork |-> {x \in (tree.linked \cap tree.data) \ (Active \cup Failed(tree)) :
                                ~Worse(tree, x, Parent[b])}]
    /\ manual' = manual + 1
    /\ UNCHANGED <<tree, locked, owed, gap>>

InvalidateTip ==
    /\ busy.op = "inval" /\ busy.block \in Active
    /\ LET walk == tree.tip
           p == Parent[walk]
           flip == p = busy.mark /\ busy.mark \in tree.failed
           better == {x \in busy.byWork : ~Worse(tree, x, p)}
       IN  /\ tree' = [tree EXCEPT
                        !.tip = p,
                        !.failed = (@ \cup {walk}) \ (IF flip THEN {busy.mark} ELSE {}),
                        !.child = IF flip THEN @ \cup {busy.mark} ELSE @,
                        !.cand = ((@ \ {walk}) \cup {p}) \cup better]
           /\ busy' = [busy EXCEPT !.mark = walk, !.byWork = @ \ better]
    /\ UNCHANGED <<locked, owed, manual, gap>>

InvalidateDone ==
    /\ busy.op = "inval" /\ busy.block \notin Active
    /\ tree' = IF busy.mark \in Active THEN tree
               ELSE AddCandidates([tree EXCEPT
                        !.failed = @ \cup {busy.mark},
                        !.cand = @ \ {busy.mark},
                        !.failedBlocks = @ \cup {busy.mark}])
    /\ busy' = Free
    /\ owed' = owed \cup {"activate"}
    /\ gap' = IF busy.mark \in Active THEN gap ELSE {}
    /\ UNCHANGED <<locked, manual>>

(* Mutant: only BLOCK_FAILED_VALID is removed from the descendants.        *)
ResetFlags_KeepsChild(t, b) ==
    LET down == {x \in t.index : b \in Anc[x] /\ (x \in Failed(t) \/ x \notin t.data)}
        t1 == [t EXCEPT !.failed = @ \ down, !.failedBlocks = @ \ down]
    IN  [t1 EXCEPT !.cand = @ \cup {x \in down \cap Usable(t1) : Worse(t1, t1.tip, x)}]

(* Mutant: reconsidered descendants do not become candidates again.        *)
ResetFlags_NoCandidates(t, b) ==
    LET down == {x \in t.index : b \in Anc[x] /\ (x \in Failed(t) \/ x \notin t.data)}
        up == Anc[b] \cap Failed(t)
    IN  [t EXCEPT !.failed = @ \ (down \cup up), !.child = @ \ (down \cup up),
                  !.failedBlocks = @ \ (down \cup up)]

(* ResetBlockFailureFlags: first b and its descendants, then its failed    *)
(* ancestors, whose failed children off the way become first failures.     *)
ResetFlags(t, b) ==
    LET down == {x \in t.index : b \in Anc[x] /\ (x \in Failed(t) \/ x \notin t.data)}
        t1 == [t EXCEPT !.failed = @ \ down, !.child = @ \ down, !.failedBlocks = @ \ down]
        t2 == [t1 EXCEPT !.cand = @ \cup {x \in down \cap Usable(t1) : Worse(t1, t1.tip, x)}]
        up == Anc[b] \cap Failed(t2)
        kids == {j \in t2.child \ (up \cup {Genesis}) : Parent[j] \in up}
        t3 == [t2 EXCEPT !.failed = (@ \ up) \cup kids, !.child = @ \ up,
                         !.failedBlocks = (@ \ up) \cup kids]
    IN  [t3 EXCEPT !.cand = (@ \cup {x \in up \cap Usable(t3) : Worse(t3, t3.tip, x)}) \ kids]

ReconsiderBlock(b) ==
    /\ ~MainLocked /\ manual < MaxManual
    /\ b \in tree.index
    /\ tree' = ResetFlags(tree, b)
    /\ manual' = manual + 1
    /\ owed' = owed \cup {"activate"}
    /\ UNCHANGED <<busy, locked, gap>>

Int32Min == -2147483647 - 1

PreciousBlock(b) ==
    /\ ~MainLocked /\ manual < MaxManual
    /\ b \in tree.index /\ ChainWork[b] >= ChainWork[tree.tip]
    /\ LET rev == IF ChainWork[tree.tip] > tree.precWork THEN -1 ELSE tree.rev
           t == [tree EXCEPT !.precWork = ChainWork[tree.tip],
                             !.rev = IF rev > Int32Min THEN rev - 1 ELSE rev,
                             !.seq[b] = rev, !.cand = @ \ {b}]
       IN  /\ tree' = IF b \in Usable(t) THEN Prune([t EXCEPT !.cand = @ \cup {b}]) ELSE t
           /\ gap' = IF b = tree.tip /\ rev > tree.seq[b] THEN gap \cup {"demoted"} ELSE gap
    /\ manual' = manual + 1
    /\ owed' = owed \cup {"activate"}
    /\ UNCHANGED <<busy, locked>>
-----------------------------------------------------------------------------
(* ChainLocks.  A new one builds on the one in force, its header is known, *)
(* and its chain is valid, for masternodes sign what they have connected.  *)
(* EnforceBlock marks everything that competes with its branch.            *)

NewChainLock(b) ==
    /\ b \in tree.index \cap Lockable
    /\ locked # None => locked # b /\ locked \in Anc[b]
    /\ locked' = b
    /\ UNCHANGED <<tree, busy, owed, manual, gap>>

(* Mutant: marked blocks are not disconnected.                            *)
MarkConflicting_NoDisconnect(t, S) ==
    AddCandidates([t EXCEPT !.conflict = @ \cup S, !.cand = @ \ S])

(* MarkConflictingBlock for each block of S: the blocks of the active      *)
(* chain that build on one are disconnected and marked with it.            *)
MarkConflicting(t, S) ==
    LET gone == {x \in Anc[t.tip] : S \cap Anc[x] # {}}
        tip == IF gone = {} THEN t.tip
               ELSE CHOOSE x \in Anc[t.tip] \ gone : Anc[t.tip] \ gone \subseteq Anc[x]
    IN  AddCandidates([t EXCEPT !.tip = tip, !.conflict = @ \cup S \cup gone,
                                !.cand = @ \ (S \cup gone)])

EnforceTimer ==
    /\ locked # None /\ "enforce" \notin owed
    /\ owed' = owed \cup {"enforce"}
    /\ UNCHANGED <<tree, busy, locked, manual, gap>>

(* Mutant: the locked chain is not reconsidered.                           *)
EnforceBlock_NoReset ==
    /\ busy = Free /\ "enforce" \in owed
    /\ LET walk == Anc[locked] \ Active
           rivals == {x \in tree.index \ ({Genesis} \cup walk) :
                          \E w \in walk : Parent[x] = Parent[w]}
       IN  /\ tree' = IF rivals = {} THEN tree ELSE MarkConflicting(tree, rivals)
           /\ gap' = IF rivals = {} THEN gap ELSE {}
    /\ owed' = (owed \ {"enforce"}) \cup (IF locked \in Anc[tree'.tip] THEN {} ELSE {"activate"})
    /\ UNCHANGED <<busy, locked, manual>>

EnforceBlock ==
    /\ busy = Free /\ "enforce" \in owed
    /\ LET walk == Anc[locked] \ Active
           rivals == {x \in tree.index \ ({Genesis} \cup walk) :
                          \E w \in walk : Parent[x] = Parent[w]}
           t == IF rivals = {} THEN tree ELSE MarkConflicting(tree, rivals)
       IN  /\ tree' = IF locked \in t.data \ Failed(t) THEN t ELSE ResetFlags(t, locked)
           /\ gap' = IF rivals = {} THEN gap ELSE {}
    /\ owed' = (owed \ {"enforce"}) \cup (IF locked \in Anc[tree'.tip] THEN {} ELSE {"activate"})
    /\ UNCHANGED <<busy, locked, manual>>
-----------------------------------------------------------------------------
ChainstateStep ==
    \/ FindMostWorkChain \/ DisconnectToFork \/ ConnectTip \/ Reacquire
    \/ InvalidateTip \/ InvalidateDone

Next ==
    \/ \E b \in Blocks :
        \/ AcceptBlockHeader(b)
        \/ \E requested \in BOOLEAN : AcceptBlock(b, requested)
        \/ InvalidateBlock(b) \/ ReconsiderBlock(b) \/ PreciousBlock(b)
        \/ NewChainLock(b)
    \/ ActivateBestChain
    \/ ChainstateStep
    \/ EnforceTimer \/ EnforceBlock

Spec == Init /\ [][Next]_vars

(* A thread that holds m_cs_chainstate keeps running, one that owes a call *)
(* makes it, and the scheduler of CChainLocksHandler calls                 *)
(* EnforceBestChainLock every five seconds.  Callers compete for           *)
(* m_cs_chainstate, hence strong fairness; that of EnforceBlock is spelled *)
(* out, with the condition under which it is enabled.                      *)
Fairness ==
    /\ WF_vars(ChainstateStep)
    /\ SF_vars("activate" \in owed /\ ActivateBestChain)
    /\ WF_vars(EnforceTimer)
    /\ []<>(busy = Free /\ "enforce" \in owed) => []<><<EnforceBlock>>_vars

FairSpec == Spec /\ Fairness
-----------------------------------------------------------------------------
HasFailed(x) == Anc[x] \cap tree.failed # {}
HasConflict(x) == Anc[x] \cap tree.conflict # {}

(* CheckBlockIndex asserts, whenever cs_main is free: a block that sorts   *)
(* at least as good as the tip and whose chain is complete, valid and free *)
(* of conflicts is a candidate, and a worse or incomplete one is not.      *)
(* InvalidateBlock is excepted, by its own comment.  Two cases are         *)
(* excepted here that CheckBlockIndex does not except, both until the      *)
(* block index is searched for candidates again.  "starved": a ChainLock   *)
(* that comes in during a reorganisation makes ConnectBlock reject the     *)
(* chain the node came from as well, and no candidate is left.  "demoted": *)
(* PreciousBlock starts over with sequence number -1 and gives it to a tip *)
(* that had a lower one from an earlier call, so that blocks which were    *)
(* removed as worse than the tip no longer are.  And                       *)
(* PruneBlockIndexCandidates asserts, in the midst of a reorganisation,    *)
(* that "Either the current tip or a successor of it we're working towards *)
(* is left".                                                               *)
CandidatesComplete ==
    /\ MainLocked /\ busy.target # None => busy.target \in tree.cand
    /\ ~MainLocked /\ busy.op # "inval" =>
        \A x \in tree.index :
            IF x \in tree.linked /\ ~Worse(tree, x, tree.tip)
            THEN gap = {} /\ ~HasFailed(x) /\ ~HasConflict(x) => x \in tree.cand
            ELSE x \notin tree.cand

(* CheckBlockIndex asserts: "The failed mask cannot be set for blocks      *)
(* without invalid parents".  Invalidation, failed connections, headers on *)
(* failed chains and reconsideration all write these flags.                *)
FlagsHaveCause ==
    \A x \in Failed(tree) : HasFailed(x)

(* Whenever cs_main is free, no block of the active chain is marked as     *)
(* failed or as conflicting with a ChainLock.                              *)
ActiveChainClean ==
    ~MainLocked => Active \cap (Failed(tree) \cup tree.conflict) = {}

(* If the chain of the last ChainLock has been received, then from some    *)
(* time on it is part of the active chain whenever cs_main is free,        *)
(* whatever blocks compete with it and whatever was invalidated.           *)
LockedChainWins ==
    <>[](locked \in tree.linked /\ ~MainLocked => locked \in Active)

(* ActivateBestChain runs out of branches to try, and once nothing new     *)
(* comes in, the active chain is one than which no block with a complete   *)
(* and unmarked chain is better, leaving aside what conflicts with the     *)
(* ChainLock: EnforceBlock marks rivals of the locked chain only where     *)
(* that chain is not active, and ConnectBlock would reject the others.  A  *)
(* tip that PreciousBlock has demoted may stay: see CandidatesComplete.    *)
BestChainWins ==
    /\ busy.op = "abc" ~> busy.op # "abc"
    /\ <>[](busy.op = "none" /\ "demoted" \notin gap =>
            ~\E x \in tree.linked :
                /\ ~HasFailed(x) /\ ~HasConflict(x) /\ Worse(tree, tree.tip, x)
                /\ \A y \in Anc[x] : ~HasConflictingChainLock(y))
=============================================================================

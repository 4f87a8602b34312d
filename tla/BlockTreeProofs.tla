-------------------------- MODULE BlockTreeProofs --------------------------
(***************************************************************************)
(* Proofs about BlockTree: the flags of the block index, the active chain  *)
(* and the set of candidates, for every tree of blocks.                    *)
(***************************************************************************)
EXTENDS BlockTree, FiniteSetTheorems, WellFoundedInduction, NaturalsInduction, TLAPS

(* Most leaves are first-order; those about numbers or many functions at   *)
(* once name SMT.                                                          *)
USE Zenon

-----------------------------------------------------------------------------
(* The tree.  Induction over blocks: a least counterexample, by work.      *)

(* A set of numbers has a least one.                                       *)
LEMMA LeastNumber ==
    ASSUME NEW S \in SUBSET Nat, S # {}
    PROVE  \E m \in S : \A n \in S : m <= n
<1>1. IsWellFoundedOn(OpToRel(<, Nat), Nat)
    BY NatLessThanWellFounded
<1>2. PICK m \in S : \A n \in S : ~(<<n, m>> \in OpToRel(<, Nat))
    BY <1>1, WFMin
<1>3. ASSUME NEW n \in S PROVE m <= n
    <2>1. m \in Nat /\ n \in Nat
        OBVIOUS
    <2>2. n < m => <<n, m>> \in {p \in Nat \X Nat : p[1] < p[2]}
        BY <2>1
    <2>3. ~(n < m)
        BY <1>2, <2>2 DEF OpToRel
    <2> QED BY SMT, <2>1, <2>3
<1> QED BY <1>3

(* A set of blocks has one with least work (nChainWork).                   *)
LEMMA LeastBlock ==
    ASSUME NEW S \in SUBSET Blocks, S # {}
    PROVE  \E m \in S : \A n \in S : ChainWork[m] <= ChainWork[n]
<1> DEFINE W == {ChainWork[x] : x \in S}
<1>1. W \in SUBSET Nat /\ W # {}
    BY SMT, TreeAssumption
<1>2. \E m \in W : \A n \in W : m <= n
    BY <1>1, LeastNumber
<1> QED BY <1>2

(* A chain is the chain of the parent (pprev) and the block itself, and    *)
(* the block has more work than its parent.                                *)
LEMMA Chain ==
    \A b \in Blocks :
        /\ Anc[b] \subseteq Blocks /\ b \in Anc[b]
        /\ Anc[Genesis] = {Genesis}
        /\ b # Genesis => Parent[b] \in Blocks /\ Anc[b] = Anc[Parent[b]] \cup {b}
                          /\ ChainWork[Parent[b]] < ChainWork[b]
        /\ ChainWork[b] \in Nat
BY SMT, TreeAssumption DEF AncUnfolds

(* The work of a block exceeds that of the other blocks of its chain.      *)
LEMMA ChainWorkGrows ==
    ASSUME NEW b \in Blocks
    PROVE  /\ Genesis \in Anc[b]
           /\ \A a \in Anc[b] : a = b \/ ChainWork[a] < ChainWork[b]
<1> DEFINE Bad == {x \in Blocks : ~(/\ Genesis \in Anc[x]
                                    /\ \A a \in Anc[x] : a = x \/ ChainWork[a] < ChainWork[x])}
<1>1. SUFFICES ASSUME Bad # {} PROVE FALSE
    OBVIOUS
<1>2. PICK m \in Bad : \A n \in Bad : ChainWork[m] <= ChainWork[n]
    BY <1>1, LeastBlock
<1>3. m # Genesis
    BY SMT, Chain, TreeAssumption
<1>4. Parent[m] \in Blocks /\ Parent[m] \notin Bad
    BY SMT, <1>2, <1>3, Chain
<1>5. Anc[m] = Anc[Parent[m]] \cup {m} /\ ChainWork[Parent[m]] < ChainWork[m]
    BY <1>3, Chain
<1>6. \A a \in Anc[m] : a = m \/ ChainWork[a] < ChainWork[m]
    BY SMT, <1>4, <1>5, Chain
<1> QED BY <1>4, <1>5, <1>6

(* The chain of a block holds the chain of each of its blocks.             *)
LEMMA ChainOfAncestor ==
    ASSUME NEW b \in Blocks, NEW a \in Anc[b]
    PROVE  a \in Blocks /\ Anc[a] \subseteq Anc[b]
<1> DEFINE Bad == {x \in Blocks : \E y \in Anc[x] : ~(Anc[y] \subseteq Anc[x])}
<1>1. SUFFICES ASSUME Bad # {} PROVE FALSE
    BY Chain
<1>2. PICK m \in Bad : \A n \in Bad : ChainWork[m] <= ChainWork[n]
    BY <1>1, LeastBlock
<1>3. m # Genesis
    BY SMT, Chain, TreeAssumption
<1>4. Parent[m] \in Blocks /\ Parent[m] \notin Bad
    BY SMT, <1>2, <1>3, Chain
<1>5. Anc[m] = Anc[Parent[m]] \cup {m}
    BY <1>3, Chain
<1> QED BY <1>4, <1>5

(* Of two blocks of a chain, one is an ancestor of the other.              *)
LEMMA ChainIsLinear ==
    ASSUME NEW b \in Blocks, NEW x \in Anc[b], NEW y \in Anc[b]
    PROVE  x \in Anc[y] \/ y \in Anc[x]
<1> DEFINE Bad == {c \in Blocks : \E u, v \in Anc[c] : u \notin Anc[v] /\ v \notin Anc[u]}
<1>1. SUFFICES ASSUME Bad # {} PROVE FALSE
    BY Chain
<1>2. PICK m \in Bad : \A n \in Bad : ChainWork[m] <= ChainWork[n]
    BY <1>1, LeastBlock
<1>3. m # Genesis
    BY SMT, Chain, TreeAssumption
<1>4. Parent[m] \in Blocks /\ Parent[m] \notin Bad
    BY SMT, <1>2, <1>3, Chain
<1>5. Anc[m] = Anc[Parent[m]] \cup {m}
    BY <1>3, Chain
<1>6. PICK u \in Anc[m], v \in Anc[m] : u \notin Anc[v] /\ v \notin Anc[u]
    BY <1>2
<1>7. u \in Anc[Parent[m]] /\ v \in Anc[Parent[m]]
    BY <1>5, <1>6, Chain
<1> QED BY <1>4, <1>6, <1>7

(* Some blocks of a chain have a last one, whose chain holds the others.   *)
LEMMA LastOf ==
    ASSUME NEW b \in Blocks, NEW S \in SUBSET Anc[b], S # {}
    PROVE  \E f \in S : S \subseteq Anc[f]
<1> DEFINE W == {ChainWork[b] - ChainWork[x] : x \in S}
<1>1. \A x \in S : x \in Blocks /\ ChainWork[x] \in Nat /\ ChainWork[x] <= ChainWork[b]
    BY SMT, Chain, ChainWorkGrows
<1>2. W \in SUBSET Nat /\ W # {}
    BY SMT, <1>1, Chain
<1>3. PICK w \in W : \A n \in W : w <= n
    BY <1>2, LeastNumber
<1>4. PICK f \in S : w = ChainWork[b] - ChainWork[f]
    BY <1>3
<1>5. ASSUME NEW x \in S PROVE ChainWork[x] <= ChainWork[f]
    <2>1. w <= ChainWork[b] - ChainWork[x]
        BY <1>3
    <2> QED BY SMT, <2>1, <1>1, <1>4, Chain
<1>6. ASSUME NEW x \in S PROVE x \in Anc[f]
    <2>1. x \in Anc[f] \/ f \in Anc[x]
        BY ChainIsLinear
    <2>2. CASE f \in Anc[x]
        <3>1. f = x \/ ChainWork[f] < ChainWork[x]
            BY <2>2, <1>1, ChainWorkGrows
        <3>2. f = x
            BY SMT, <3>1, <1>1, <1>5
        <3> QED BY <3>2, <1>1, Chain
    <2> QED BY <2>1, <2>2
<1> QED BY <1>6

(* From a block of a chain a step leads towards its end.                   *)
LEMMA NextOnChain ==
    ASSUME NEW b \in Blocks, NEW a \in Anc[b], a # b
    PROVE  \E x \in Anc[b] : x # Genesis /\ Parent[x] = a
<1> DEFINE Bad == {c \in Blocks : a \in Anc[c] /\ a # c
                       /\ ~\E x \in Anc[c] : x # Genesis /\ Parent[x] = a}
<1>1. SUFFICES ASSUME Bad # {} PROVE FALSE
    OBVIOUS
<1>2. PICK m \in Bad : \A n \in Bad : ChainWork[m] <= ChainWork[n]
    BY <1>1, LeastBlock
<1>3. m # Genesis
    BY SMT, Chain, TreeAssumption
<1>4. Parent[m] \in Blocks /\ Parent[m] \notin Bad
    BY SMT, <1>2, <1>3, Chain
<1>5. Anc[m] = Anc[Parent[m]] \cup {m} /\ m \in Anc[m]
    BY <1>3, Chain
<1> QED BY <1>3, <1>4, <1>5

(* A chain has no cycle.                                                   *)
LEMMA NoCycle ==
    ASSUME NEW a \in Blocks, NEW b \in Blocks, a \in Anc[b], b \in Anc[a]
    PROVE  a = b
BY SMT, Chain, ChainWorkGrows
-----------------------------------------------------------------------------
(* The inductive invariant.                                                *)

TreeType ==
    [index : SUBSET Blocks, data : SUBSET Blocks, linked : SUBSET Blocks,
     seq : [Blocks -> Int], scripts : SUBSET Blocks,
     failed : SUBSET Blocks, child : SUBSET Blocks, conflict : SUBSET Blocks,
     failedBlocks : SUBSET Blocks, cand : SUBSET Blocks, unlinked : SUBSET Blocks,
     tip : Blocks, rev : Int, precWork : Int]

AbcType ==
    [op : {"abc"}, pc : {"find", "disconnect", "connect", "release"},
     target : Blocks \cup {None}, oldTip : Blocks, start : Blocks]

InvalType == [op : {"inval"}, block : Blocks, mark : Blocks, byWork : SUBSET Blocks]

BusyType == {Free} \cup AbcType \cup InvalType

(* Nothing on the chain of z is marked.                                    *)
Clean(t, z) == Anc[z] \cap (Failed(t) \cup t.conflict) = {}

(* What holds of the block index by itself, also inside ActivateBestChain. *)
GoodTree(t) ==
    /\ t \in TreeType
    /\ IsFiniteSet(t.index)
    /\ \A x \in t.index : Anc[x] \subseteq t.index
    /\ t.data \subseteq t.index /\ t.linked \subseteq t.data /\ t.cand \subseteq t.linked
    /\ t.unlinked \subseteq t.data \ t.linked
    /\ \A x \in t.linked : Anc[x] \subseteq t.linked
    /\ Failed(t) \cup t.conflict \subseteq t.index \ {Genesis}
    /\ t.failedBlocks \subseteq Failed(t)
    /\ \A x \in t.child \ t.failed : Parent[x] \in Failed(t)
    /\ t.tip \in t.linked
    /\ Clean(t, t.tip)

(* The candidates are as good as r, and the usable blocks as good as r are *)
(* candidates.                                                             *)
Sound(t, r) == \A x \in t.cand : ~Worse(t, x, r)
Complete(t, r) == \A x \in Usable(t) : ~Worse(t, x, r) => x \in t.cand

(* What candidates are measured against: the tip, but as long as           *)
(* ActivateBestChain has a worse tip than it started from, that one.       *)
Mark == IF MainLocked /\ Worse(tree, tree.tip, busy.start) THEN busy.start ELSE tree.tip

CandInv ==
    /\ Sound(tree, Mark)
    /\ gap = {} /\ busy.op # "inval" => Complete(tree, Mark)

AbcInv ==
    busy.op = "abc" =>
        /\ busy.pc \in {"find", "disconnect"} =>
            tree.tip = busy.start \/ Worse(tree, tree.tip, busy.start)
        /\ busy.pc \in {"disconnect", "connect"} => busy.target # None
        /\ busy.target # None =>
            /\ busy.target \in tree.cand /\ Clean(tree, busy.target)
            /\ busy.target \notin Active
            /\ busy.pc # "disconnect" => tree.tip \in Anc[busy.target]

InvalInv ==
    busy.op = "inval" =>
        /\ busy.byWork \subseteq tree.linked
        /\ busy.block \in tree.index \ {Genesis}
        /\ busy.mark \in tree.index \ {Genesis}
        /\ busy.mark = busy.block \/ busy.mark \notin Active

OwedInv ==
    /\ locked = None \/ locked \in tree.index \cap Lockable
    /\ "enforce" \in owed => locked # None

IndInv ==
    /\ GoodTree(tree) /\ busy \in BusyType
    /\ CandInv /\ AbcInv /\ InvalInv /\ OwedInv
-----------------------------------------------------------------------------
(* The order of candidates.                                                *)

(* CBlockIndexWorkComparator is a strict total order.                      *)
LEMMA WorseIsOrder ==
    ASSUME NEW t, t.seq \in [Blocks -> Int]
    PROVE  /\ \A a \in Blocks : ~Worse(t, a, a)
           /\ \A a, b \in Blocks : a = b \/ Worse(t, a, b) \/ Worse(t, b, a)
           /\ \A a, b \in Blocks : Worse(t, a, b) => ~Worse(t, b, a)
           /\ \A a, b, c \in Blocks : Worse(t, a, b) /\ Worse(t, b, c) => Worse(t, a, c)
           /\ \A a, b, c \in Blocks : ~Worse(t, a, b) /\ ~Worse(t, b, c) => ~Worse(t, a, c)
<1>1. \A a \in Blocks : ChainWork[a] \in Nat /\ Address[a] \in Nat /\ t.seq[a] \in Int
    BY TreeAssumption
<1>2. \A a, b \in Blocks : Address[a] = Address[b] => a = b
    BY TreeAssumption
<1>3. \A a \in Blocks : ~Worse(t, a, a)
    BY SMTT(30), <1>1 DEF Worse
<1>4. \A a, b \in Blocks : a = b \/ Worse(t, a, b) \/ Worse(t, b, a)
    BY SMTT(30), <1>1, <1>2 DEF Worse
<1>5. \A a, b \in Blocks : Worse(t, a, b) => ~Worse(t, b, a)
    BY SMTT(30), <1>1 DEF Worse
<1>6. \A a, b, c \in Blocks : Worse(t, a, b) /\ Worse(t, b, c) => Worse(t, a, c)
    BY SMTT(30), <1>1 DEF Worse
<1> QED BY <1>3, <1>4, <1>5, <1>6

(* It depends on the sequence numbers of the two blocks only.              *)
LEMMA WorseSameSeq ==
    ASSUME NEW t, NEW u, NEW a, NEW b, t.seq[a] = u.seq[a], t.seq[b] = u.seq[b]
    PROVE  Worse(t, a, b) <=> Worse(u, a, b)
BY DEF Worse

(* A block is worse than those that build on it.                           *)
LEMMA AncestorIsWorse ==
    ASSUME NEW t, NEW b \in Blocks, NEW a \in Anc[b], a # b
    PROVE  Worse(t, a, b)
BY ChainWorkGrows DEF Worse

(* Finitely many blocks have a best one (the end of the std::set).         *)
LEMMA BestExists ==
    ASSUME NEW t, t.seq \in [Blocks -> Int],
           NEW S \in SUBSET Blocks, IsFiniteSet(S), S # {}
    PROVE  Best(t, S) \in S /\ \A x \in S : x = Best(t, S) \/ Worse(t, x, Best(t, S))
<1> DEFINE Up(b) == {x \in S : Worse(t, b, x)}
           N == {Cardinality(Up(b)) : b \in S}
<1>1. ASSUME NEW b \in S PROVE IsFiniteSet(Up(b)) /\ Cardinality(Up(b)) \in Nat
    <2>1. Up(b) \subseteq S
        OBVIOUS
    <2>2. IsFiniteSet(Up(b))
        BY <2>1, FS_Subset
    <2> QED BY <2>2, FS_CardinalityType
<1>2. N \in SUBSET Nat /\ N # {}
    BY <1>1
<1> HIDE DEF Up
<1>3. PICK n \in N : \A m \in N : n <= m
    BY <1>2, LeastNumber
<1>4. PICK b \in S : n = Cardinality(Up(b))
    BY <1>3
<1>5. ASSUME NEW x \in S PROVE ~Worse(t, b, x)
    <2>1. SUFFICES ASSUME Worse(t, b, x) PROVE FALSE
        OBVIOUS
    <2>2. Up(x) \subseteq Up(b) /\ x \in Up(b) /\ x \notin Up(x)
        BY <2>1, WorseIsOrder DEF Up
    <2>3. Cardinality(Up(x)) < Cardinality(Up(b))
        <3>1. Up(x) # Up(b)
            BY <2>2
        <3> QED BY SMT, <1>1, <2>2, <3>1, FS_Subset
    <2>4. Cardinality(Up(b)) <= Cardinality(Up(x))
        BY <1>3, <1>4
    <2> QED BY SMT, <1>1, <2>3, <2>4
<1>6. \E y \in S : \A x \in S : x = y \/ Worse(t, x, y)
    BY <1>5, WorseIsOrder
<1> QED BY <1>6 DEF Best

(* What lies on a chain above one of its blocks builds on that block.      *)
LEMMA Above ==
    ASSUME NEW q \in Blocks, NEW f \in Anc[q], NEW x \in Anc[q] \ Anc[f]
    PROVE  /\ x \in Blocks \ {Genesis} /\ f \in Anc[x] /\ f # x
           /\ Parent[x] \in Anc[q] /\ (Parent[x] = f \/ Parent[x] \notin Anc[f])
<1>1. f \in Blocks /\ x \in Blocks
    BY Chain
<1>2. x # Genesis
    BY <1>1, ChainWorkGrows
<1>3. f \in Anc[x] /\ f # x
    BY <1>1, ChainIsLinear, Chain
<1>4. Anc[x] = Anc[Parent[x]] \cup {x} /\ Parent[x] \in Blocks /\ Parent[x] \in Anc[Parent[x]]
    BY <1>1, <1>2, Chain
<1>5. f \in Anc[Parent[x]]
    BY <1>3, <1>4
<1>6. Parent[x] \in Anc[q]
    BY <1>4, ChainOfAncestor
<1>7. Parent[x] \in Anc[f] => Parent[x] = f
    BY <1>1, <1>4, <1>5, NoCycle
<1> QED BY <1>1, <1>2, <1>3, <1>6, <1>7

(* A chain without marks does not reach what lies above a marked block.    *)
LEMMA CleanAvoids ==
    ASSUME NEW t, NEW z \in Blocks, Clean(t, z), NEW q \in Blocks,
           NEW f \in Anc[q], f \in Failed(t) \cup t.conflict
    PROVE  Anc[z] \cap (Anc[q] \ Anc[f]) = {}
<1>1. SUFFICES ASSUME NEW x \in Anc[z], x \in Anc[q] \ Anc[f] PROVE FALSE
    OBVIOUS
<1>2. f \in Anc[x]
    BY <1>1, Above
<1>3. f \in Anc[z]
    BY <1>2, ChainOfAncestor
<1> QED BY <1>3 DEF Clean
-----------------------------------------------------------------------------
(* The operations on the block index.                                      *)

(* t and u differ in flags, candidates and tip only.                       *)
SameShape(t, u) ==
    /\ u \in TreeType
    /\ u.index = t.index /\ u.data = t.data /\ u.linked = t.linked
    /\ u.unlinked = t.unlinked /\ u.seq = t.seq

(* Marking blocks, with the mark of a parent as the reason for each        *)
(* BLOCK_FAILED_CHILD, and dropping marked candidates keeps the index in   *)
(* order as long as the active chain is not marked.                        *)
LEMMA Marking ==
    ASSUME NEW t, NEW u, GoodTree(t), SameShape(t, u), u.tip = t.tip,
           t.failed \subseteq u.failed, t.child \subseteq u.child,
           t.conflict \subseteq u.conflict,
           u.failedBlocks \subseteq t.failedBlocks \cup u.failed,
           Failed(u) \cup u.conflict \subseteq t.index \ {Genesis},
           \A x \in u.child \ (t.child \cup u.failed) : Parent[x] \in Failed(u),
           u.cand \subseteq t.cand, t.cand \ u.cand \subseteq Failed(u) \cup u.conflict,
           Clean(u, u.tip)
    PROVE  /\ GoodTree(u)
           /\ \A r \in Blocks : Sound(t, r) => Sound(u, r)
           /\ \A r \in Blocks : Complete(t, r) => Complete(u, r)
<1>1. GoodTree(u)
    <2>1. u.failedBlocks \subseteq Failed(u)
        BY DEF GoodTree, Failed
    <2>2. \A x \in u.child \ u.failed : Parent[x] \in Failed(u)
        BY DEF GoodTree, Failed
    <2> QED BY <2>1, <2>2 DEF GoodTree, SameShape
<1>2. \A a, b : Worse(t, a, b) <=> Worse(u, a, b)
    BY WorseSameSeq DEF SameShape
<1>3. Usable(u) \subseteq Usable(t) \ (Failed(u) \cup u.conflict)
    BY DEF Usable, SameShape, Failed
<1> QED BY <1>1, <1>2, <1>3 DEF Sound, Complete

(* AddCandidates makes the candidates complete.                            *)
LEMMA AddRight ==
    ASSUME NEW t, GoodTree(t), Sound(t, t.tip), NEW u, u = AddCandidates(t)
    PROVE  /\ GoodTree(u) /\ SameShape(t, u) /\ u.tip = t.tip
           /\ u.failed = t.failed /\ u.child = t.child /\ u.conflict = t.conflict
           /\ Sound(u, u.tip) /\ Complete(u, u.tip)
<1> DEFINE more == {x \in Usable(t) : ~Worse(t, x, t.tip)}
<1>1. more \subseteq t.linked
    BY DEF Usable
<1>2. t \in TreeType /\ t.cand \subseteq Blocks /\ t.linked \subseteq Blocks
    BY DEF GoodTree, TreeType
<1>3. /\ SameShape(t, u) /\ u.tip = t.tip /\ u.failedBlocks = t.failedBlocks
      /\ u.failed = t.failed /\ u.child = t.child /\ u.conflict = t.conflict
      /\ u.cand = t.cand \cup more
    BY <1>1, <1>2 DEF AddCandidates, SameShape, TreeType
<1>4. Failed(u) = Failed(t) /\ Clean(u, u.tip)
    BY <1>3 DEF GoodTree, Failed, Clean
<1>5. GoodTree(u)
    BY <1>1, <1>3, <1>4 DEF GoodTree, SameShape
<1>6. \A a, b : Worse(t, a, b) <=> Worse(u, a, b)
    BY <1>3, WorseSameSeq DEF SameShape
<1>7. Usable(u) = Usable(t)
    BY <1>3, <1>4 DEF Usable, SameShape
<1> QED BY <1>3, <1>5, <1>6, <1>7 DEF Sound, Complete

(* PruneBlockIndexCandidates leaves the candidates as good as the tip.     *)
LEMMA PruneRight ==
    ASSUME NEW t, GoodTree(t), NEW u, u = Prune(t)
    PROVE  /\ GoodTree(u) /\ SameShape(t, u) /\ u.tip = t.tip
           /\ u.failed = t.failed /\ u.child = t.child /\ u.conflict = t.conflict
           /\ u.cand = {x \in t.cand : ~Worse(t, x, t.tip)}
           /\ Sound(u, u.tip) /\ (Complete(t, t.tip) => Complete(u, u.tip))
<1>1. t \in TreeType /\ t.cand \subseteq Blocks
    BY DEF GoodTree, TreeType
<1>2. /\ SameShape(t, u) /\ u.tip = t.tip /\ u.failedBlocks = t.failedBlocks
      /\ u.failed = t.failed /\ u.child = t.child /\ u.conflict = t.conflict
      /\ u.cand = {x \in t.cand : ~Worse(t, x, t.tip)}
    BY <1>1 DEF Prune, SameShape, TreeType
<1>3. Failed(u) = Failed(t) /\ Clean(u, u.tip)
    BY <1>2 DEF GoodTree, Failed, Clean
<1>4. GoodTree(u)
    BY <1>2, <1>3 DEF GoodTree, SameShape
<1>5. \A a, b : Worse(t, a, b) <=> Worse(u, a, b)
    BY <1>2, WorseSameSeq DEF SameShape
<1>6. Usable(u) = Usable(t)
    BY <1>2, <1>3 DEF Usable, SameShape
<1> QED BY <1>2, <1>4, <1>5, <1>6 DEF Sound, Complete

(* ResetBlockFailureFlags only removes marks from chains, turns a child    *)
(* mark whose reason it removes into a failure of its own, and makes the   *)
(* blocks that become usable candidates.                                   *)
LEMMA ResetRight ==
    ASSUME NEW t, NEW b \in t.index, GoodTree(t), Sound(t, t.tip),
           NEW u, u = ResetFlags(t, b)
    PROVE  /\ GoodTree(u) /\ SameShape(t, u) /\ u.tip = t.tip
           /\ Sound(u, u.tip) /\ (Complete(t, t.tip) => Complete(u, u.tip))
           /\ \A z \in Blocks : Clean(t, z) => Clean(u, z) /\ (z \in t.cand => z \in u.cand)
<1> DEFINE down == {x \in t.index : b \in Anc[x] /\ (x \in Failed(t) \/ x \notin t.data)}
           t1 == [t EXCEPT !.failed = @ \ down, !.child = @ \ down, !.failedBlocks = @ \ down]
           A == {x \in down \cap Usable(t1) : Worse(t1, t1.tip, x)}
           t2 == [t1 EXCEPT !.cand = @ \cup A]
           up == Anc[b] \cap Failed(t2)
           kids == {j \in t2.child \ (up \cup {Genesis}) : Parent[j] \in up}
           t3 == [t2 EXCEPT !.failed = (@ \ up) \cup kids, !.child = @ \ up,
                            !.failedBlocks = (@ \ up) \cup kids]
           B == {x \in up \cap Usable(t3) : Worse(t3, t3.tip, x)}
<1>1. u = [t3 EXCEPT !.cand = (@ \cup B) \ kids]
    BY ZenonT(30) DEF ResetFlags
<1>2. t \in TreeType
    BY DEF GoodTree
<1> HIDE DEF down
<1>3. /\ t1 \in TreeType /\ SameShape(t, t1) /\ t1.tip = t.tip /\ t1.cand = t.cand
      /\ t1.failed = t.failed \ down /\ t1.child = t.child \ down
      /\ t1.failedBlocks = t.failedBlocks \ down /\ t1.conflict = t.conflict
    BY <1>2 DEF SameShape, TreeType
<1> HIDE DEF t1
<1>4. A \subseteq t.linked /\ A \subseteq Blocks
    BY <1>2, <1>3 DEF Usable, SameShape, TreeType
<1>5. /\ t2 \in TreeType /\ SameShape(t, t2) /\ t2.tip = t.tip /\ t2.cand = t.cand \cup A
      /\ t2.failed = t.failed \ down /\ t2.child = t.child \ down
      /\ t2.failedBlocks = t.failedBlocks \ down /\ t2.conflict = t.conflict
    <2> HIDE DEF A
    <2> QED BY <1>3, <1>4 DEF SameShape, TreeType
<1> HIDE DEF t2, A
<1>6. kids \subseteq t2.child /\ kids \cap up = {} /\ kids \subseteq Blocks
    BY <1>5 DEF TreeType
<1>7. /\ t3 \in TreeType /\ SameShape(t, t3) /\ t3.tip = t.tip /\ t3.cand = t.cand \cup A
      /\ t3.failed = ((t.failed \ down) \ up) \cup kids
      /\ t3.child = (t.child \ down) \ up
      /\ t3.failedBlocks = ((t.failedBlocks \ down) \ up) \cup kids
      /\ t3.conflict = t.conflict
    <2> HIDE DEF up, kids
    <2> QED BY <1>5, <1>6 DEF SameShape, TreeType
<1> HIDE DEF t3
<1>8. B \subseteq t.linked /\ B \subseteq Blocks
    BY <1>2, <1>7 DEF Usable, SameShape, TreeType
<1>9. /\ SameShape(t, u) /\ u.tip = t.tip
      /\ u.cand = ((t.cand \cup A) \cup B) \ kids
      /\ u.failed = ((t.failed \ down) \ up) \cup kids
      /\ u.child = (t.child \ down) \ up
      /\ u.failedBlocks = ((t.failedBlocks \ down) \ up) \cup kids
      /\ u.conflict = t.conflict
    <2> HIDE DEF up, kids, B
    <2> QED BY SMT, <1>1, <1>7, <1>8, <1>6 DEF SameShape, TreeType
<1>10. kids \subseteq t.child /\ Failed(u) \subseteq Failed(t)
    BY <1>5, <1>6, <1>9 DEF Failed
<1>11. \A x, y : Worse(t, x, y) <=> Worse(u, x, y)
    BY <1>9, WorseSameSeq DEF SameShape
<1>12. \A x, y : (Worse(t, x, y) <=> Worse(t1, x, y)) /\ (Worse(t, x, y) <=> Worse(t3, x, y))
    BY <1>3, <1>7, WorseSameSeq DEF SameShape
<1>13. \A x \in Blocks : Clean(t, x) => Clean(u, x)
    BY <1>9, <1>10 DEF Clean
<1>14. ASSUME NEW x \in u.child \ u.failed PROVE Parent[x] \in Failed(u)
    <2>1. x \in t.child \ t.failed /\ x \notin down /\ x \notin up /\ x \notin kids
        BY <1>9
    <2>2. Parent[x] \in Failed(t) /\ x \in Failed(t) /\ x \in t.index /\ x # Genesis /\ x \in Blocks
        BY <2>1, <1>2 DEF GoodTree, Failed, TreeType
    <2>3. Parent[x] \notin up
        BY <2>1, <2>2, <1>5
    <2>4. Parent[x] \notin down
        <3>1. Anc[x] = Anc[Parent[x]] \cup {x}
            BY <2>2, Chain
        <3> QED BY <2>1, <2>2, <3>1 DEF down
    <2> QED BY <2>2, <2>3, <2>4, <1>9 DEF Failed
<1>15. u.failedBlocks \subseteq Failed(u)
    BY <1>9 DEF Failed, GoodTree
<1>16. GoodTree(u)
    <2>1. u.cand \subseteq u.linked
        BY <1>4, <1>8, <1>9 DEF GoodTree, SameShape
    <2>2. Failed(u) \cup u.conflict \subseteq u.index \ {Genesis}
        BY <1>9, <1>10 DEF GoodTree, SameShape
    <2>3. Clean(u, u.tip)
        BY <1>2, <1>9, <1>13 DEF GoodTree, TreeType
    <2> QED BY <2>1, <2>2, <2>3, <1>9, <1>14, <1>15 DEF GoodTree, SameShape
<1>17. Sound(u, u.tip)
    <2>1. \A x \in A \cup B : Worse(t, t.tip, x)
        BY <1>3, <1>7, <1>12 DEF A
    <2>2. t.tip \in Blocks /\ t.seq \in [Blocks -> Int] /\ A \cup B \subseteq Blocks
        BY <1>2, <1>4, <1>8 DEF TreeType
    <2>3. \A x \in A \cup B : ~Worse(t, x, t.tip)
        BY <2>1, <2>2, WorseIsOrder
    <2> QED BY <2>3, <1>9, <1>11 DEF Sound
<1>18. ASSUME Complete(t, t.tip), NEW x \in Usable(u), ~Worse(u, x, u.tip)
       PROVE  x \in u.cand
    <2>1. x \in t.linked /\ x \in t.data /\ x \in t.index /\ x \notin t.conflict /\ x \in Blocks
        BY <1>9, <1>2 DEF Usable, SameShape, GoodTree, TreeType
    <2>2. ~Worse(t, x, t.tip)
        BY <1>9, <1>11, <1>18
    <2>3. x \notin Failed(u)
        BY DEF Usable
    <2>4. x \notin kids
        BY <2>3, <1>9 DEF Failed
    <2>5. CASE x \notin Failed(t)
        <3>1. x \in Usable(t)
            BY <2>1, <2>5 DEF Usable
        <3> QED BY <3>1, <2>2, <2>4, <1>9, <1>18 DEF Complete
    <2>6. CASE x \in Failed(t)
        <3>1. x # t.tip
            BY <2>6, Chain, <2>1 DEF GoodTree, Clean
        <3>2. Worse(t, t.tip, x)
            BY <3>1, <2>1, <2>2, <1>2, WorseIsOrder DEF TreeType
        <3>3. x \in down \/ x \in up
            BY <2>6, <2>3, <1>9 DEF Failed
        <3>4. CASE x \in down
            <4>1. x \in Usable(t1)
                BY <3>4, <2>1, <1>3 DEF Usable, SameShape, Failed
            <4> QED BY <4>1, <3>2, <3>4, <2>4, <1>3, <1>12, <1>9 DEF A
        <3>5. CASE x \in up
            <4>1. x \in Usable(t3)
                BY <2>1, <2>3, <1>7, <1>9 DEF Usable, SameShape, Failed
            <4> QED BY <4>1, <3>2, <3>5, <2>4, <1>7, <1>12, <1>9
        <3> QED BY <3>3, <3>4, <3>5
    <2> QED BY <2>5, <2>6
<1>19. \A z \in Blocks : Clean(t, z) /\ z \in t.cand => z \in u.cand
    BY <1>9, <1>10, Chain DEF Clean, Failed
<1> QED BY <1>9, <1>13, <1>16, <1>17, <1>18, <1>19 DEF Complete

(* Moving the tip down the active chain keeps the candidates sound.        *)
LEMMA SoundDown ==
    ASSUME NEW t, t \in TreeType, NEW r \in Blocks, NEW a \in Anc[r], Sound(t, r)
    PROVE  Sound(t, a)
<1>1. a \in Blocks /\ t.seq \in [Blocks -> Int] /\ t.cand \subseteq Blocks
    BY Chain DEF TreeType
<1>2. a = r \/ Worse(t, a, r)
    BY AncestorIsWorse
<1> QED BY SMT, <1>1, <1>2, WorseIsOrder DEF Sound

(* MarkConflictingBlock leaves an unmarked active chain, and its search of *)
(* the block index complete candidates.                                    *)
LEMMA ConflictRight ==
    ASSUME NEW t, GoodTree(t), Sound(t, t.tip),
           NEW S \in SUBSET (t.index \ {Genesis}), NEW u, u = MarkConflicting(t, S)
    PROVE  /\ GoodTree(u) /\ SameShape(t, u)
           /\ Sound(u, u.tip) /\ Complete(u, u.tip)
<1> DEFINE gone == {x \in Anc[t.tip] : S \cap Anc[x] # {}}
           tip == IF gone = {} THEN t.tip
                  ELSE CHOOSE x \in Anc[t.tip] \ gone : Anc[t.tip] \ gone \subseteq Anc[x]
           w == [t EXCEPT !.tip = tip, !.conflict = @ \cup S \cup gone,
                          !.cand = @ \ (S \cup gone)]
<1>1. u = AddCandidates(w)
    BY DEF MarkConflicting
<1>2. t \in TreeType /\ t.tip \in Blocks /\ Anc[t.tip] \subseteq t.linked /\ t.linked \subseteq t.index
    BY DEF GoodTree, TreeType
<1>3. Genesis \in Anc[t.tip] \ gone
    <2>1. Genesis \in Anc[t.tip] /\ Anc[Genesis] = {Genesis}
        BY <1>2, ChainWorkGrows, Chain
    <2> QED BY <2>1
<1>4. tip \in Anc[t.tip] \ gone
    <2>1. CASE gone = {}
        BY <2>1, <1>2, Chain
    <2>2. CASE gone # {}
        <3>1. \E f \in Anc[t.tip] \ gone : Anc[t.tip] \ gone \subseteq Anc[f]
            <4> DEFINE rest == Anc[t.tip] \ gone
            <4>1. rest \in SUBSET Anc[t.tip] /\ rest # {}
                BY <1>3
            <4> HIDE DEF rest
            <4>2. \E f \in rest : rest \subseteq Anc[f]
                BY SMT, <4>1, <1>2, LastOf
            <4> QED BY <4>2 DEF rest
        <3> QED BY <2>2, <3>1
    <2> QED BY <2>1, <2>2
<1>5. tip \in Blocks /\ Anc[tip] \subseteq Anc[t.tip]
    BY <1>2, <1>4, ChainOfAncestor
<1>6. Anc[tip] \cap S = {}
    BY <1>4
<1>7. Anc[tip] \cap gone = {}
    <2>1. SUFFICES ASSUME NEW y \in Anc[tip], y \in gone PROVE FALSE
        OBVIOUS
    <2>2. Anc[y] \subseteq Anc[tip]
        BY <1>5, ChainOfAncestor
    <2> QED BY <2>1, <2>2, <1>6
<1>8. gone \subseteq t.index \ {Genesis} /\ gone \subseteq Blocks /\ S \subseteq Blocks
    BY <1>2, <1>3 DEF TreeType
<1> HIDE DEF gone, tip
<1>9. /\ SameShape(t, w) /\ w.tip = tip /\ w.failed = t.failed /\ w.child = t.child
      /\ w.failedBlocks = t.failedBlocks
      /\ w.conflict = (t.conflict \cup S) \cup gone /\ w.cand = t.cand \ (S \cup gone)
    BY <1>2, <1>5, <1>8 DEF SameShape, TreeType
<1> HIDE DEF w
<1>10. Failed(w) = Failed(t)
    BY <1>9 DEF Failed
<1>11. Clean(w, w.tip)
    BY <1>5, <1>6, <1>7, <1>9, <1>10 DEF GoodTree, Clean
<1>12. GoodTree(w)
    <2>1. w.tip \in w.linked
        BY <1>2, <1>4, <1>9 DEF SameShape
    <2>2. Failed(w) \cup w.conflict \subseteq w.index \ {Genesis}
        BY <1>8, <1>9, <1>10 DEF GoodTree, SameShape
    <2> QED BY <2>1, <2>2, <1>9, <1>10, <1>11 DEF GoodTree, SameShape
<1>13. Sound(w, w.tip)
    <2>1. Sound(t, tip)
        BY <1>2, <1>4, SoundDown
    <2>2. \A a, b : Worse(t, a, b) <=> Worse(w, a, b)
        BY <1>9, WorseSameSeq DEF SameShape
    <2> QED BY <2>1, <2>2, <1>9 DEF Sound
<1>14. GoodTree(u) /\ SameShape(w, u) /\ Sound(u, u.tip) /\ Complete(u, u.tip)
    BY <1>1, <1>12, <1>13, AddRight
<1> QED BY <1>9, <1>14 DEF SameShape
-----------------------------------------------------------------------------
(* The steps.                                                              *)

(* What a step taken while ActivateBestChain does not hold cs_main has to  *)
(* leave in order, if it does not move the tip.                            *)
LEMMA BetweenPeriods ==
    ASSUME IndInv, ~MainLocked, UNCHANGED <<busy, locked>>,
           GoodTree(tree'), tree'.tip = tree.tip,
           tree.index \subseteq tree'.index, tree.linked \subseteq tree'.linked,
           Sound(tree', tree.tip),
           gap' = {} /\ busy.op # "inval" => Complete(tree', tree.tip),
           busy.op = "abc" /\ busy.target # None =>
               busy.target \in tree'.cand /\ Clean(tree', busy.target),
           "enforce" \in owed' => "enforce" \in owed
    PROVE  IndInv'
<1>1. ~MainLocked' /\ Active' = Active
    BY DEF MainLocked, Active
<1>2. CandInv'
    BY <1>1 DEF CandInv, Mark
<1>3. AbcInv'
    BY <1>1 DEF IndInv, AbcInv, MainLocked
<1>4. InvalInv'
    BY <1>1 DEF IndInv, InvalInv
<1>5. OwedInv'
    BY DEF IndInv, OwedInv
<1> QED BY <1>2, <1>3, <1>4, <1>5 DEF IndInv

(* While cs_main is free the candidates are measured against the tip.      *)
LEMMA FreeMark ==
    ASSUME IndInv, ~MainLocked
    PROVE  /\ GoodTree(tree) /\ tree \in TreeType /\ tree.tip \in Blocks
           /\ Sound(tree, tree.tip)
           /\ gap = {} /\ busy.op # "inval" => Complete(tree, tree.tip)
           /\ busy.op = "abc" => busy.target \in Blocks \cup {None}
           /\ busy.op = "abc" /\ busy.target # None =>
               busy.target \in tree.cand /\ Clean(tree, busy.target)
BY DEF IndInv, CandInv, AbcInv, Mark, GoodTree, TreeType, BusyType, AbcType, InvalType, Free

(* AcceptBlockHeader marks the way to a failed ancestor, or adds a block   *)
(* that nothing builds on yet.                                             *)
LEMMA HeaderKeeps ==
    ASSUME IndInv, NEW b \in Blocks, AcceptBlockHeader(b)
    PROVE  IndInv'
<1>1. /\ ~MainLocked /\ b \notin tree.index /\ Parent[b] \in tree.index
      /\ UNCHANGED <<busy, locked, owed, manual, gap>>
    BY DEF AcceptBlockHeader
<1>2. /\ GoodTree(tree) /\ tree \in TreeType /\ tree.tip \in Blocks
      /\ Sound(tree, tree.tip)
      /\ gap = {} /\ busy.op # "inval" => Complete(tree, tree.tip)
      /\ busy.op = "abc" => busy.target \in Blocks \cup {None}
      /\ busy.op = "abc" /\ busy.target # None =>
               busy.target \in tree.cand /\ Clean(tree, busy.target)
    BY <1>1, FreeMark
<1>3. ASSUME NEW f \in tree.failedBlocks \cap Anc[Parent[b]],
             tree' = [tree EXCEPT !.child = @ \cup (Anc[Parent[b]] \ Anc[f])]
      PROVE  IndInv'
    <2> DEFINE above == Anc[Parent[b]] \ Anc[f]
    <2>1. Parent[b] \in Blocks /\ above \subseteq tree.index /\ above \subseteq Blocks
          /\ f \in Failed(tree)
        BY <1>1, <1>2, <1>3 DEF GoodTree, TreeType
    <2>2. \A x \in above : x # Genesis /\ (Parent[x] = f \/ Parent[x] \in above)
        BY <2>1, Above
    <2>3. \A z \in Blocks : Clean(tree, z) => Anc[z] \cap above = {}
        BY SMT, <2>1, CleanAvoids
    <2> HIDE DEF above
    <2>4. /\ SameShape(tree, tree') /\ tree'.tip = tree.tip /\ tree'.cand = tree.cand
          /\ tree'.failed = tree.failed /\ tree'.child = tree.child \cup above
          /\ tree'.conflict = tree.conflict /\ tree'.failedBlocks = tree.failedBlocks
        BY <1>2, <1>3, <2>1 DEF SameShape, TreeType, above
    <2>5. Failed(tree') = Failed(tree) \cup above
        BY <2>4 DEF Failed
    <2>6. \A z \in Blocks : Clean(tree, z) => Clean(tree', z)
        BY <2>3, <2>4, <2>5 DEF Clean
    <2>7. Failed(tree') \cup tree'.conflict \subseteq tree.index \ {Genesis}
        BY <1>2, <2>1, <2>2, <2>4, <2>5 DEF GoodTree
    <2>8. \A x \in tree'.child \ (tree.child \cup tree'.failed) : Parent[x] \in Failed(tree')
        BY <2>1, <2>2, <2>4, <2>5
    <2>9. Clean(tree', tree'.tip)
        BY <1>2, <2>4, <2>6 DEF GoodTree
    <2>10. /\ GoodTree(tree')
           /\ \A r \in Blocks : Sound(tree, r) => Sound(tree', r)
           /\ \A r \in Blocks : Complete(tree, r) => Complete(tree', r)
        BY <1>2, <2>4, <2>7, <2>8, <2>9, Marking
    <2> QED BY <1>1, <1>2, <2>4, <2>6, <2>10, BetweenPeriods DEF SameShape
<1>4. ASSUME NEW X \in {tree.conflict, tree.conflict \cup {b}},
             tree' = [tree EXCEPT !.index = @ \cup {b}, !.conflict = X]
      PROVE  IndInv'
    <2>1. b # Genesis
        BY <1>1, <1>2, ChainWorkGrows DEF GoodTree
    <2>2. Anc[b] = Anc[Parent[b]] \cup {b}
        BY <2>1, Chain
    <2>3. /\ tree' \in TreeType /\ tree'.index = tree.index \cup {b}
          /\ tree'.data = tree.data /\ tree'.linked = tree.linked
          /\ tree'.unlinked = tree.unlinked /\ tree'.seq = tree.seq
          /\ tree'.tip = tree.tip /\ tree'.cand = tree.cand
          /\ tree'.failed = tree.failed /\ tree'.child = tree.child
          /\ tree'.conflict = X /\ tree'.failedBlocks = tree.failedBlocks
        BY <1>2, <1>4 DEF TreeType
    <2>4. Failed(tree') = Failed(tree)
        BY <2>3 DEF Failed
    <2>5. \A z \in tree.linked : Clean(tree, z) => Clean(tree', z)
        BY SMT, <1>1, <1>2, <2>3, <2>4 DEF Clean, GoodTree
    <2>6. IsFiniteSet(tree'.index)
        BY SMT, <1>2, <2>3, FS_AddElement DEF GoodTree
    <2>7. \A x \in tree'.index : Anc[x] \subseteq tree'.index
        BY <1>1, <1>2, <2>2, <2>3 DEF GoodTree
    <2>8. Failed(tree') \cup tree'.conflict \subseteq tree'.index \ {Genesis}
        BY <1>2, <2>1, <2>3, <2>4 DEF GoodTree
    <2>9. GoodTree(tree')
        BY <1>2, <2>3, <2>4, <2>5, <2>6, <2>7, <2>8 DEF GoodTree
    <2>10. \A x, y : Worse(tree, x, y) <=> Worse(tree', x, y)
        BY <2>3, WorseSameSeq
    <2>11. Sound(tree', tree.tip) /\ (Complete(tree, tree.tip) => Complete(tree', tree.tip))
        BY <1>2, <2>3, <2>4, <2>10 DEF Sound, Complete, Usable
    <2>12. tree.cand \subseteq tree.linked
        BY <1>2 DEF GoodTree
    <2> QED BY <1>1, <1>2, <2>3, <2>5, <2>9, <2>11, <2>12, BetweenPeriods
<1> QED BY <1>3, <1>4 DEF AcceptBlockHeader

(* The blocks that become linked with b complete chains.                   *)
LEMMA NowLinkedRight ==
    ASSUME GoodTree(tree), NEW b \in tree.index \ tree.data, Parent[b] \in tree.linked
    PROVE  /\ b # Genesis
           /\ b \in NowLinked(b) /\ NowLinked(b) \subseteq tree.unlinked \cup {b}
           /\ NowLinked(b) \cap tree.linked = {}
           /\ \A x \in NowLinked(b) : Anc[x] \subseteq tree.linked \cup NowLinked(b)
<1>1. /\ tree \in TreeType /\ b \in Blocks /\ tree.linked \subseteq tree.data
      /\ tree.unlinked \subseteq tree.data \ tree.linked /\ tree.unlinked \subseteq Blocks
      /\ \A x \in tree.linked : Anc[x] \subseteq tree.linked
      /\ tree.tip \in Blocks /\ tree.tip \in tree.linked
    BY DEF GoodTree, TreeType
<1>2. b # Genesis
    BY <1>1, ChainWorkGrows
<1>3. Anc[b] = Anc[Parent[b]] \cup {b}
    BY <1>1, <1>2, Chain
<1>4. b \in NowLinked(b) /\ NowLinked(b) \subseteq tree.unlinked \cup {b}
    BY <1>1, Chain DEF NowLinked
<1>5. NowLinked(b) \cap tree.linked = {}
    BY <1>1, <1>4
<1>6. ASSUME NEW x \in NowLinked(b), NEW y \in Anc[x]
      PROVE  y \in tree.linked \cup NowLinked(b)
    <2>1. x \in Blocks /\ b \in Anc[x] /\ (Anc[x] \ Anc[b]) \subseteq tree.unlinked
        BY <1>1 DEF NowLinked
    <2>2. CASE y \in Anc[b]
        BY <2>2, <1>1, <1>3, <1>4
    <2>3. CASE y \notin Anc[b]
        <3>1. b \in Anc[y]
            BY <2>1, <2>3, Above
        <3>2. Anc[y] \subseteq Anc[x]
            BY <2>1, ChainOfAncestor
        <3> QED BY <2>1, <2>3, <3>1, <3>2 DEF NowLinked
    <2> QED BY <2>2, <2>3
<1> QED BY <1>2, <1>4, <1>5, <1>6

(* AcceptBlock marks a malformed block, which has no data yet, or links it *)
(* and what was waiting for it.                                            *)
LEMMA BlockKeeps ==
    ASSUME IndInv, NEW b \in Blocks, NEW requested \in BOOLEAN, AcceptBlock(b, requested)
    PROVE  IndInv'
<1>1. /\ ~MainLocked /\ b \in tree.index \ tree.data
      /\ UNCHANGED <<busy, locked, manual, gap>>
      /\ "enforce" \in owed' => "enforce" \in owed
    BY DEF AcceptBlock
<1>2. /\ GoodTree(tree) /\ tree \in TreeType /\ tree.tip \in Blocks
      /\ Sound(tree, tree.tip)
      /\ gap = {} /\ busy.op # "inval" => Complete(tree, tree.tip)
      /\ busy.op = "abc" => busy.target \in Blocks \cup {None}
      /\ busy.op = "abc" /\ busy.target # None =>
               busy.target \in tree.cand /\ Clean(tree, busy.target)
    BY <1>1, FreeMark
<1>3. /\ tree.tip \in tree.linked /\ tree.cand \subseteq tree.linked
      /\ tree.linked \subseteq tree.data /\ tree.data \subseteq tree.index
      /\ \A x \in tree.linked : Anc[x] \subseteq tree.linked
      /\ tree.linked \subseteq Blocks /\ tree.seq \in [Blocks -> Int]
    BY <1>2 DEF GoodTree, TreeType
<1>4. b # Genesis
    BY <1>1, <1>2, <1>3, ChainWorkGrows
<1>5. CASE b \in Malformed
    <2>1. tree' = [tree EXCEPT !.failed = @ \cup {b}]
        BY <1>5 DEF AcceptBlock
    <2>2. /\ SameShape(tree, tree') /\ tree'.tip = tree.tip /\ tree'.cand = tree.cand
          /\ tree'.failed = tree.failed \cup {b} /\ tree'.child = tree.child
          /\ tree'.conflict = tree.conflict /\ tree'.failedBlocks = tree.failedBlocks
        BY <1>2, <2>1 DEF SameShape, TreeType
    <2>3. Failed(tree') = Failed(tree) \cup {b}
        BY <2>2 DEF Failed
    <2>4. \A z \in tree.linked : Clean(tree, z) => Clean(tree', z)
        BY <1>1, <1>3, <2>2, <2>3 DEF Clean
    <2>5. Failed(tree') \cup tree'.conflict \subseteq tree.index \ {Genesis}
        BY <1>1, <1>2, <1>4, <2>2, <2>3 DEF GoodTree
    <2>6. Clean(tree', tree'.tip)
        BY <1>2, <1>3, <2>2, <2>4 DEF GoodTree
    <2>7. /\ GoodTree(tree')
          /\ \A r \in Blocks : Sound(tree, r) => Sound(tree', r)
          /\ \A r \in Blocks : Complete(tree, r) => Complete(tree', r)
        BY <1>2, <2>2, <2>5, <2>6, Marking
    <2> QED BY <1>1, <1>2, <1>3, <2>2, <2>4, <2>7, BetweenPeriods DEF SameShape
<1>6. CASE b \notin Malformed /\ Parent[b] \in tree.linked
    <2> DEFINE new == NowLinked(b)
    <2>1. PICK s \in SequenceIds(new) :
            LET t == [tree EXCEPT
                            !.data = @ \cup {b},
                            !.linked = @ \cup new,
                            !.seq = [x \in Blocks |-> IF x \in new THEN s[x] ELSE @[x]],
                            !.unlinked = @ \ new]
            IN  tree' = [t EXCEPT !.cand = @ \cup
                                {x \in new \ t.conflict : ~Worse(t, x, t.tip)}]
        BY <1>6 DEF AcceptBlock, ReceivedBlockTransactions
    <2> DEFINE sq == [x \in Blocks |-> IF x \in new THEN s[x] ELSE tree.seq[x]]
               t == [tree EXCEPT !.data = @ \cup {b}, !.linked = @ \cup new,
                                 !.seq = sq, !.unlinked = @ \ new]
               more == {x \in new \ t.conflict : ~Worse(t, x, t.tip)}
    <2>2. /\ b \in new /\ new \subseteq tree.unlinked \cup {b} /\ new \cap tree.linked = {}
          /\ \A x \in new : Anc[x] \subseteq tree.linked \cup new
        BY <1>1, <1>2, <1>6, NowLinkedRight
    <2>3. new \subseteq tree.data \cup {b} /\ new \subseteq tree.index /\ new \subseteq Blocks
        BY <1>1, <1>2, <1>3, <2>2 DEF GoodTree, TreeType
    <2> HIDE DEF new
    <2>4. s \in [new -> Int]
        <3>1. IsFiniteSet(tree.linked) /\ IsFiniteSet(new)
            BY <1>2, <1>3, <2>3, FS_Subset DEF GoodTree
        <3>2. Cardinality(tree.linked) \in Nat /\ Cardinality(new) \in Nat
            BY <3>1, FS_CardinalityType
        <3> QED BY SMT, <3>2 DEF SequenceIds
    <2>5. sq \in [Blocks -> Int]
        BY <1>3, <2>4
    <2>6. tree' = [t EXCEPT !.cand = @ \cup more]
        BY <2>1
    <2>7. \A x \in Blocks \ new : sq[x] = tree.seq[x]
        OBVIOUS
    <2> HIDE DEF sq
    <2>8. /\ t \in TreeType /\ t.data = tree.data \cup {b} /\ t.linked = tree.linked \cup new
          /\ t.seq = sq /\ t.unlinked = tree.unlinked \ new /\ t.index = tree.index
          /\ t.conflict = tree.conflict /\ t.tip = tree.tip /\ t.cand = tree.cand
          /\ t.failed = tree.failed /\ t.child = tree.child
          /\ t.failedBlocks = tree.failedBlocks
        BY <1>2, <2>3, <2>5 DEF TreeType
    <2> HIDE DEF t
    <2>9. more \subseteq new /\ more \subseteq Blocks
        BY <2>3
    <2>10. /\ tree' \in TreeType /\ tree'.data = tree.data \cup {b}
           /\ tree'.linked = tree.linked \cup new
           /\ tree'.seq = sq /\ tree'.unlinked = tree.unlinked \ new
           /\ tree'.index = tree.index
           /\ tree'.conflict = tree.conflict /\ tree'.tip = tree.tip
           /\ tree'.cand = tree.cand \cup more
           /\ tree'.failed = tree.failed /\ tree'.child = tree.child
           /\ tree'.failedBlocks = tree.failedBlocks
        <3> HIDE DEF more
        <3> QED BY <2>6, <2>8, <2>9 DEF TreeType
    <2>11. Failed(tree') = Failed(tree)
        BY <2>10 DEF Failed
    <2>12. \A z \in Blocks : Clean(tree, z) => Clean(tree', z)
        BY <2>10, <2>11 DEF Clean
    <2>13. GoodTree(tree')
        <3>1. \A x \in tree'.linked : Anc[x] \subseteq tree'.linked
            BY <1>3, <2>2, <2>10
        <3>2. tree'.data \subseteq tree'.index /\ tree'.linked \subseteq tree'.data
              /\ tree'.cand \subseteq tree'.linked
            BY <1>1, <1>3, <2>3, <2>9, <2>10
        <3>3. tree'.unlinked \subseteq tree'.data \ tree'.linked
            BY <1>2, <2>2, <2>10 DEF GoodTree
        <3>4. tree'.tip \in tree'.linked /\ Clean(tree', tree'.tip)
            BY <1>2, <1>3, <2>10, <2>12 DEF GoodTree
        <3> QED BY <1>2, <2>10, <2>11, <3>1, <3>2, <3>3, <3>4 DEF GoodTree
    <2>14. tree.tip \notin new
        BY <1>3, <2>2
    <2>15. \A x \in tree.linked : Worse(tree, x, tree.tip) <=> Worse(tree', x, tree.tip)
        BY SMT, <1>2, <1>3, <2>2, <2>7, <2>10, <2>14, WorseSameSeq
    <2>16. \A x : Worse(t, x, t.tip) <=> Worse(tree', x, tree.tip)
        BY <2>8, <2>10, WorseSameSeq
    <2>17. Sound(tree', tree.tip)
        BY <1>2, <1>3, <2>10, <2>15, <2>16 DEF Sound
    <2>18. ASSUME Complete(tree, tree.tip), NEW x \in Usable(tree'), ~Worse(tree', x, tree.tip)
           PROVE  x \in tree'.cand
        <3>1. CASE x \in new
            BY <3>1, <2>8, <2>10, <2>16, <2>18 DEF Usable
        <3>2. CASE x \notin new
            <4>1. x \in tree.linked /\ x \in Usable(tree)
                BY <3>2, <1>3, <2>10, <2>11 DEF Usable
            <4> QED BY <4>1, <2>10, <2>15, <2>18 DEF Complete
        <3> QED BY <3>1, <3>2
    <2>19. Complete(tree, tree.tip) => Complete(tree', tree.tip)
        BY <2>18 DEF Complete
    <2> QED BY <1>1, <1>2, <2>10, <2>12, <2>13, <2>17, <2>19, BetweenPeriods
<1>7. CASE b \notin Malformed /\ Parent[b] \notin tree.linked
    <2>1. PICK U \in {tree.unlinked, tree.unlinked \cup {b}} :
            tree' = [tree EXCEPT !.data = @ \cup {b}, !.unlinked = U]
        BY <1>7 DEF AcceptBlock, ReceivedBlockTransactions
    <2>2. /\ tree' \in TreeType /\ tree'.data = tree.data \cup {b}
          /\ tree'.linked = tree.linked /\ tree'.seq = tree.seq /\ tree'.unlinked = U
          /\ tree'.index = tree.index /\ tree'.conflict = tree.conflict
          /\ tree'.tip = tree.tip /\ tree'.cand = tree.cand
          /\ tree'.failed = tree.failed /\ tree'.child = tree.child
          /\ tree'.failedBlocks = tree.failedBlocks
        BY <1>2, <2>1 DEF TreeType
    <2>3. Failed(tree') = Failed(tree)
        BY <2>2 DEF Failed
    <2>4. \A z \in Blocks : Clean(tree, z) => Clean(tree', z)
        BY <2>2, <2>3 DEF Clean
    <2>5. GoodTree(tree')
        <3>1. tree'.data \subseteq tree'.index /\ tree'.linked \subseteq tree'.data
              /\ tree'.unlinked \subseteq tree'.data \ tree'.linked
            BY <1>1, <1>2, <1>3, <2>2 DEF GoodTree
        <3> QED BY <1>2, <2>2, <2>3, <2>4, <3>1 DEF GoodTree
    <2>6. \A x, y : Worse(tree, x, y) <=> Worse(tree', x, y)
        BY <2>2, WorseSameSeq
    <2>7. Usable(tree') = Usable(tree)
        BY <1>3, <2>2, <2>3 DEF Usable
    <2>8. Sound(tree', tree.tip) /\ (Complete(tree, tree.tip) => Complete(tree', tree.tip))
        BY <1>2, <2>2, <2>6, <2>7 DEF Sound, Complete
    <2> QED BY <1>1, <1>2, <2>2, <2>4, <2>5, <2>8, BetweenPeriods
<1> QED BY <1>5, <1>6, <1>7

(* ReconsiderBlock.                                                        *)
LEMMA ReconsiderKeeps ==
    ASSUME IndInv, NEW b \in Blocks, ReconsiderBlock(b)
    PROVE  IndInv'
<1>1. /\ ~MainLocked /\ b \in tree.index /\ tree' = ResetFlags(tree, b)
      /\ UNCHANGED <<busy, locked, gap>>
      /\ "enforce" \in owed' => "enforce" \in owed
    BY DEF ReconsiderBlock
<1>2. /\ GoodTree(tree) /\ tree \in TreeType /\ tree.tip \in Blocks
      /\ Sound(tree, tree.tip)
      /\ gap = {} /\ busy.op # "inval" => Complete(tree, tree.tip)
      /\ busy.op = "abc" => busy.target \in Blocks \cup {None}
      /\ busy.op = "abc" /\ busy.target # None =>
               busy.target \in tree.cand /\ Clean(tree, busy.target)
    BY <1>1, FreeMark
<1>3. /\ GoodTree(tree') /\ SameShape(tree, tree') /\ tree'.tip = tree.tip
      /\ Sound(tree', tree'.tip) /\ (Complete(tree, tree.tip) => Complete(tree', tree'.tip))
      /\ \A z \in Blocks : Clean(tree, z) =>
            Clean(tree', z) /\ (z \in tree.cand => z \in tree'.cand)
    BY <1>1, <1>2, ResetRight
<1> QED BY <1>1, <1>2, <1>3, BetweenPeriods DEF SameShape

(* PreciousBlock changes the order, of one block against all others.       *)
LEMMA PreciousKeeps ==
    ASSUME IndInv, NEW b \in Blocks, PreciousBlock(b)
    PROVE  IndInv'
<1> DEFINE rev == IF ChainWork[tree.tip] > tree.precWork THEN -1 ELSE tree.rev
           low == IF rev > Int32Min THEN rev - 1 ELSE rev
           t == [tree EXCEPT !.precWork = ChainWork[tree.tip], !.rev = low,
                             !.seq[b] = rev, !.cand = @ \ {b}]
           w == [t EXCEPT !.cand = @ \cup {b}]
<1>1. /\ ~MainLocked /\ b \in tree.index
      /\ tree' = IF b \in Usable(t) THEN Prune(w) ELSE t
      /\ gap' = IF b = tree.tip /\ rev > tree.seq[b] THEN gap \cup {"demoted"} ELSE gap
      /\ UNCHANGED <<busy, locked>>
      /\ "enforce" \in owed' => "enforce" \in owed
    BY SMT DEF PreciousBlock
<1> HIDE DEF rev, low, t, w
<1>2. /\ GoodTree(tree) /\ tree \in TreeType /\ tree.tip \in Blocks
      /\ Sound(tree, tree.tip)
      /\ gap = {} /\ busy.op # "inval" => Complete(tree, tree.tip)
      /\ busy.op = "abc" => busy.target \in Blocks \cup {None}
      /\ busy.op = "abc" /\ busy.target # None =>
               busy.target \in tree.cand /\ Clean(tree, busy.target)
    BY <1>1, FreeMark
<1>3. rev \in Int /\ low \in Int /\ ChainWork[tree.tip] \in Int
    BY SMT, <1>2, TreeAssumption DEF TreeType, Int32Min, rev, low
<1>4. /\ t \in TreeType /\ t.index = tree.index /\ t.data = tree.data
      /\ t.linked = tree.linked /\ t.unlinked = tree.unlinked /\ t.tip = tree.tip
      /\ t.failed = tree.failed /\ t.child = tree.child /\ t.conflict = tree.conflict
      /\ t.failedBlocks = tree.failedBlocks /\ t.cand = tree.cand \ {b}
      /\ t.seq = [tree.seq EXCEPT ![b] = rev]
    BY <1>2, <1>3 DEF TreeType, t
<1>5. t.seq \in [Blocks -> Int] /\ t.seq[b] = rev /\ \A x \in Blocks \ {b} : t.seq[x] = tree.seq[x]
    BY <1>2, <1>3, <1>4 DEF TreeType
<1>6. Failed(t) = Failed(tree) /\ Usable(t) = Usable(tree)
    BY <1>4 DEF Failed, Usable
<1>7. \A z : Clean(tree, z) => Clean(t, z)
    BY <1>4, <1>6 DEF Clean
<1>8. GoodTree(t)
    BY <1>2, <1>4, <1>6, <1>7 DEF GoodTree
<1>9. tree.tip \in Usable(tree)
    BY <1>2, Chain DEF GoodTree, Usable, Clean
<1>10. ASSUME NEW x \in Blocks \ {b}, tree.tip # b
       PROVE  Worse(t, x, tree.tip) <=> Worse(tree, x, tree.tip)
    BY <1>2, <1>5, <1>10, WorseSameSeq
<1>11. CASE b \notin Usable(t)
    <2>1. tree' = t /\ gap' = gap /\ tree.tip # b
        BY <1>1, <1>6, <1>9, <1>11
    <2>2. tree.cand \subseteq Blocks /\ Usable(tree) \subseteq Blocks
        BY <1>2 DEF TreeType, Usable
    <2>3. Sound(t, tree.tip)
        BY <1>2, <1>4, <1>10, <2>1, <2>2 DEF Sound
    <2>4. Complete(tree, tree.tip) => Complete(t, tree.tip)
        BY <1>4, <1>6, <1>10, <1>11, <2>1, <2>2 DEF Complete
    <2>5. \A z \in Blocks : z \in tree.cand /\ Clean(tree, z) => z \in t.cand
        <3>1. \A z \in Blocks : z \in tree.cand /\ Clean(tree, z) => z \in Usable(tree)
            BY <1>2, Chain DEF GoodTree, Usable, Clean
        <3> QED BY <3>1, <1>4, <1>6, <1>11
    <2> QED BY <1>1, <1>2, <1>4, <1>7, <1>8, <2>1, <2>3, <2>4, <2>5, BetweenPeriods
<1>12. CASE b \in Usable(t)
    <2>1. /\ SameShape(t, w) /\ w.tip = tree.tip /\ w.failed = tree.failed
          /\ w.child = tree.child /\ w.conflict = tree.conflict
          /\ w.failedBlocks = tree.failedBlocks /\ w.cand = t.cand \cup {b}
        BY <1>4 DEF SameShape, TreeType, w
    <2>2. tree' = Prune(w)
        BY <1>1, <1>12
    <2>3. Failed(w) = Failed(tree) /\ Usable(w) = Usable(tree)
        BY <1>4, <2>1 DEF Failed, Usable, SameShape
    <2>4. \A z : Clean(tree, z) => Clean(w, z)
        BY <2>1, <2>3 DEF Clean
    <2>5. GoodTree(w)
        <3>1. w.cand \subseteq w.linked
            BY <1>8, <1>12, <2>1 DEF GoodTree, SameShape, Usable
        <3> QED BY <1>2, <1>4, <2>1, <2>3, <2>4, <3>1 DEF GoodTree, SameShape
    <2>6. /\ GoodTree(tree') /\ SameShape(w, tree') /\ tree'.tip = w.tip
          /\ tree'.failed = w.failed /\ tree'.child = w.child /\ tree'.conflict = w.conflict
          /\ tree'.cand = {x \in w.cand : ~Worse(w, x, w.tip)}
          /\ Sound(tree', tree'.tip) /\ (Complete(w, w.tip) => Complete(tree', tree'.tip))
        BY <2>2, <2>5, PruneRight
    <2>7. \A x, y : Worse(w, x, y) <=> Worse(t, x, y)
        BY <2>1, WorseSameSeq DEF SameShape
    <2>8. ASSUME gap' = {}, busy.op # "inval" PROVE Complete(w, w.tip)
        <3>1. gap = {} /\ ~(b = tree.tip /\ rev > tree.seq[b]) /\ Complete(tree, tree.tip)
            BY <1>1, <1>2, <2>8
        <3>2. SUFFICES ASSUME NEW x \in Usable(tree), x # b, ~Worse(t, x, tree.tip)
                       PROVE  x \in tree.cand
            BY <1>4, <2>1, <2>3, <2>7 DEF Complete
        <3>3. x \in Blocks
            BY <1>2, <3>2 DEF Usable, TreeType
        <3>4. CASE b # tree.tip
            BY <1>10, <3>1, <3>2, <3>3, <3>4 DEF Complete
        <3>5. CASE b = tree.tip
            <4>1. rev <= tree.seq[b] /\ tree.seq[b] \in Int /\ tree.seq[x] \in Int
                BY SMT, <1>2, <1>3, <3>1, <3>3, <3>5 DEF TreeType
            <4>2. t.seq[x] = tree.seq[x] /\ t.seq[b] = rev
                BY <1>5, <3>2, <3>3
            <4>3. Worse(tree, x, b) => Worse(t, x, b)
                <5>1. t.seq[x] > tree.seq[b] => t.seq[x] > t.seq[b]
                    BY SMT, <1>3, <4>1, <4>2
                <5>2. t.seq[x] = tree.seq[b] => t.seq[x] = t.seq[b] \/ t.seq[x] > t.seq[b]
                    BY SMT, <1>3, <4>1, <4>2
                <5> QED BY <4>2, <5>1, <5>2 DEF Worse
            <4> QED BY <3>1, <3>2, <3>5, <4>3 DEF Complete
        <3> QED BY <3>4, <3>5
    <2>9. ASSUME busy.op = "abc", busy.target # None
          PROVE  busy.target \in tree'.cand /\ Clean(tree', busy.target)
        <3>1. /\ busy.target \in Blocks /\ busy.target \in tree.cand
              /\ Clean(tree, busy.target) /\ tree.tip \in Anc[busy.target]
              /\ busy.target \notin Anc[tree.tip]
            BY <1>1, <1>2, <2>9 DEF IndInv, AbcInv, MainLocked, Active
        <3>2. tree.tip # busy.target
            BY <1>2, <3>1, Chain
        <3>3. ~Worse(w, busy.target, tree.tip)
            <4>1. Worse(w, tree.tip, busy.target)
                BY <3>1, <3>2, AncestorIsWorse
            <4>2. w.seq \in [Blocks -> Int]
                BY <1>5, <2>1 DEF SameShape
            <4> QED BY <1>2, <3>1, <4>1, <4>2, WorseIsOrder
        <3>4. Clean(tree', busy.target)
            BY <2>1, <2>6, <3>1 DEF Clean, Failed
        <3> QED BY <1>4, <2>1, <2>6, <3>1, <3>3, <3>4
    <2> QED BY <1>1, <1>2, <1>4, <2>1, <2>6, <2>8, <2>9, BetweenPeriods DEF SameShape
<1> QED BY <1>11, <1>12

(* What ActivateBestChain knows when it holds cs_main.                     *)
LEMMA AbcFacts ==
    ASSUME IndInv, busy.op = "abc"
    PROVE  /\ busy \in AbcType /\ busy.start \in Blocks /\ busy.oldTip \in Blocks
           /\ GoodTree(tree) /\ tree \in TreeType /\ tree.tip \in Blocks
           /\ tree.seq \in [Blocks -> Int] /\ tree.cand \subseteq Blocks
           /\ AbcInv /\ OwedInv
           /\ busy.pc # "release" =>
               LET m == IF Worse(tree, tree.tip, busy.start) THEN busy.start ELSE tree.tip
               IN  Sound(tree, m) /\ (gap = {} => Complete(tree, m))
           /\ busy.pc \in {"find", "disconnect"} =>
               Sound(tree, busy.start) /\ (gap = {} => Complete(tree, busy.start))
<1>1. busy \in AbcType
    BY SMT DEF IndInv, BusyType, InvalType, Free
<1>2. busy.start \in Blocks /\ busy.oldTip \in Blocks
    BY <1>1 DEF AbcType
<1>3. /\ GoodTree(tree) /\ tree \in TreeType /\ tree.tip \in Blocks
      /\ tree.seq \in [Blocks -> Int] /\ tree.cand \subseteq Blocks
    BY DEF IndInv, GoodTree, TreeType
<1>4. busy.pc # "release" =>
          LET m == IF Worse(tree, tree.tip, busy.start) THEN busy.start ELSE tree.tip
          IN  Sound(tree, m) /\ (gap = {} => Complete(tree, m))
    BY DEF IndInv, CandInv, Mark, MainLocked
<1>5. busy.pc \in {"find", "disconnect"} =>
          Sound(tree, busy.start) /\ (gap = {} => Complete(tree, busy.start))
    BY <1>4 DEF IndInv, AbcInv
<1> QED BY <1>1, <1>2, <1>3, <1>4, <1>5 DEF IndInv

(* ActivateBestChain begins, or goes on, with the tip as its start.        *)
LEMMA AcquireKeeps ==
    ASSUME IndInv, ActivateBestChain \/ Reacquire
    PROVE  IndInv'
<1>1. ~MainLocked /\ UNCHANGED <<tree, locked, gap>> /\ ("enforce" \in owed' => "enforce" \in owed)
    BY SMT DEF ActivateBestChain, Reacquire, MainLocked, Free
<1>2. /\ GoodTree(tree) /\ tree \in TreeType /\ tree.tip \in Blocks
      /\ Sound(tree, tree.tip)
      /\ gap = {} /\ busy.op # "inval" => Complete(tree, tree.tip)
    BY <1>1, FreeMark
<1>3. busy' \in AbcType /\ busy'.pc = "find" /\ busy'.start = tree.tip /\ busy.op # "inval"
      /\ (busy'.target # None => busy.op = "abc" /\ busy.pc = "release" /\ busy'.target = busy.target)
    <2>1. CASE ActivateBestChain
        BY <1>2, <2>1 DEF ActivateBestChain, AbcType, Free
    <2>2. CASE Reacquire
        <3>1. busy \in AbcType
            BY <2>2, AbcFacts DEF Reacquire
        <3> QED BY <1>2, <2>2, <3>1 DEF Reacquire, AbcType
    <2> QED BY <2>1, <2>2
<1>4. CandInv'
    BY <1>1, <1>2, <1>3 DEF CandInv, Mark
<1>5. AbcInv'
    BY <1>1, <1>3 DEF AbcInv, Active, IndInv
<1>6. InvalInv'
    BY <1>3 DEF InvalInv, AbcType
<1>7. OwedInv'
    BY <1>1 DEF OwedInv, IndInv
<1> QED BY <1>1, <1>2, <1>3, <1>4, <1>5, <1>6, <1>7 DEF IndInv, BusyType

(* FindMostWorkChain: a candidate on a marked chain is dropped with all    *)
(* the candidates like it, and what is left is better than the tip, the    *)
(* tip, or nothing.                                                        *)
LEMMA FindKeeps ==
    ASSUME IndInv, FindMostWorkChain
    PROVE  IndInv'
<1> DEFINE best == IF busy.target # None THEN busy.target
                   ELSE IF tree.cand = {} THEN tree.tip ELSE Best(tree, tree.cand)
           path == Anc[best] \ Active
           bad  == path \cap (Failed(tree) \cup tree.conflict)
           test == CHOOSE x \in bad : \A y \in bad : y \in Anc[x]
           above == Anc[best] \ Anc[test]
<1>1. busy.op = "abc" /\ busy.pc = "find" /\ UNCHANGED <<locked, owed, manual>>
    BY DEF FindMostWorkChain
<1>2. /\ busy \in AbcType /\ busy.start \in Blocks /\ busy.oldTip \in Blocks
      /\ GoodTree(tree) /\ tree \in TreeType /\ tree.tip \in Blocks
      /\ tree.seq \in [Blocks -> Int] /\ tree.cand \subseteq Blocks
      /\ AbcInv /\ OwedInv
      /\ Sound(tree, busy.start) /\ (gap = {} => Complete(tree, busy.start))
    BY <1>1, AbcFacts
<1>3. tree.tip = busy.start \/ Worse(tree, tree.tip, busy.start)
    BY <1>1, <1>2 DEF AbcInv
<1>4. busy.target # None =>
          /\ busy.target \in tree.cand /\ Clean(tree, busy.target)
          /\ busy.target \notin Active
    BY <1>1, <1>2 DEF AbcInv
<1>5. tree.tip \in Active
    BY <1>2, Chain DEF Active
<1>6. busy.target = None /\ tree.cand # {} => best \in tree.cand
    <2>1. IsFiniteSet(tree.cand)
        <3>1. tree.cand \subseteq tree.index
            BY <1>2 DEF GoodTree
        <3> QED BY <3>1, <1>2, FS_Subset DEF GoodTree
    <2> QED BY <2>1, <1>2, BestExists
<1>8. CASE busy.target = None /\ bad # {}
    <2>1. /\ tree' = [tree EXCEPT
                        !.cand = @ \ (above \cup {test}),
                        !.child = IF test \in Failed(tree) THEN @ \cup above ELSE @,
                        !.conflict = IF test \in Failed(tree) THEN @ ELSE @ \cup above]
          /\ UNCHANGED <<busy, gap>>
        BY <1>8 DEF FindMostWorkChain
    <2>2. best \in tree.cand /\ best \in Blocks
        BY <1>2, <1>6, <1>8 DEF Active
    <2> HIDE DEF best
    <2>3. test \in bad
        <3>1. bad \in SUBSET Anc[best]
            OBVIOUS
        <3> HIDE DEF bad
        <3>2. \E f \in bad : bad \subseteq Anc[f]
            BY SMT, <1>8, <2>2, <3>1, LastOf
        <3> QED BY <3>2
    <2> HIDE DEF test
    <2>4. test \in Anc[best] /\ test \in Failed(tree) \cup tree.conflict
        BY <2>3
    <2>5. /\ Anc[best] \subseteq tree.linked /\ tree.linked \subseteq tree.index
          /\ tree.index \subseteq Blocks
        BY <1>2, <2>2 DEF GoodTree, TreeType
    <2>6. \A x \in above : x # Genesis /\ (Parent[x] = test \/ Parent[x] \in above)
        BY <2>2, <2>4, Above
    <2>7. above \subseteq tree.index /\ above \subseteq Blocks
        BY <2>5
    <2>8. Anc[tree.tip] \cap above = {}
        BY <1>2, <2>2, <2>4, CleanAvoids DEF GoodTree
    <2> HIDE DEF above
    <2>9. /\ SameShape(tree, tree') /\ tree'.tip = tree.tip
          /\ tree'.cand = tree.cand \ (above \cup {test})
          /\ tree'.failed = tree.failed /\ tree'.failedBlocks = tree.failedBlocks
          /\ tree'.child = IF test \in Failed(tree) THEN tree.child \cup above ELSE tree.child
          /\ tree'.conflict = IF test \in Failed(tree) THEN tree.conflict
                              ELSE tree.conflict \cup above
        <3>1. CASE test \in Failed(tree)
            <4>1. tree' = [tree EXCEPT !.cand = @ \ (above \cup {test}), !.child = @ \cup above,
                                    !.conflict = @]
                BY <2>1, <3>1
            <4> QED BY <1>2, <2>7, <3>1, <4>1 DEF SameShape, TreeType
        <3>2. CASE test \notin Failed(tree)
            <4>1. tree' = [tree EXCEPT !.cand = @ \ (above \cup {test}), !.child = @,
                                    !.conflict = @ \cup above]
                BY <2>1, <3>2
            <4> QED BY <1>2, <2>7, <3>2, <4>1 DEF SameShape, TreeType
        <3> QED BY <3>1, <3>2
    <2>10. /\ Failed(tree) \subseteq Failed(tree')
           /\ Failed(tree') \cup tree'.conflict = Failed(tree) \cup tree.conflict \cup above
        BY <2>9 DEF Failed
    <2>11. Clean(tree', tree'.tip)
        BY <1>2, <2>8, <2>9, <2>10 DEF Clean, GoodTree
    <2>12. Failed(tree') \cup tree'.conflict \subseteq tree.index \ {Genesis}
        BY <1>2, <2>6, <2>7, <2>10 DEF GoodTree
    <2>13. \A x \in tree'.child \ (tree.child \cup tree'.failed) : Parent[x] \in Failed(tree')
        BY <2>6, <2>9 DEF Failed
    <2>14. tree.cand \ tree'.cand \subseteq Failed(tree') \cup tree'.conflict
        BY <2>4, <2>9, <2>10
    <2>15. /\ GoodTree(tree')
           /\ \A r \in Blocks : Sound(tree, r) => Sound(tree', r)
           /\ \A r \in Blocks : Complete(tree, r) => Complete(tree', r)
        BY <1>2, <2>9, <2>11, <2>12, <2>13, <2>14, Marking
    <2>16. \A x, y : Worse(tree, x, y) <=> Worse(tree', x, y)
        BY <2>9, WorseSameSeq DEF SameShape
    <2>17. Mark' = busy.start
        BY <1>1, <1>3, <2>1, <2>9, <2>16 DEF Mark, MainLocked
    <2>18. CandInv'
        BY <1>2, <2>1, <2>15, <2>17 DEF CandInv
    <2>19. AbcInv'
        BY <1>1, <1>3, <1>8, <2>1, <2>9, <2>16 DEF AbcInv
    <2>20. InvalInv' /\ OwedInv'
        BY <1>1, <1>2, <2>1, <2>9 DEF InvalInv, OwedInv, SameShape
    <2> QED BY <1>2, <2>1, <2>15, <2>18, <2>19, <2>20 DEF IndInv, BusyType
<1>9. CASE ~(busy.target = None /\ bad # {})
    <2>1. /\ busy' = IF best # tree.tip
                     THEN [busy EXCEPT !.pc = "disconnect", !.target = best,
                                       !.oldTip = tree.tip]
                     ELSE IF tree.cand = {} /\ tree.tip # busy.start
                          THEN [busy EXCEPT !.pc = "release"] ELSE Free
          /\ gap' = IF tree.cand = {} THEN gap \cup {"starved"} ELSE gap
          /\ UNCHANGED tree
        BY <1>9 DEF FindMostWorkChain
    <2>2. gap' = {} => gap = {} /\ tree.cand # {}
        BY <2>1
    <2>3. CASE best # tree.tip
        <3>1. best \in tree.cand
            BY <1>4, <1>6, <2>3
        <3>2. Clean(tree, best)
            <4>1. CASE busy.target # None
                BY <1>4, <4>1
            <4>2. CASE busy.target = None
                <5> HIDE DEF best
                <5> QED BY <1>2, <1>9, <4>2 DEF Clean, GoodTree, Active
            <4> QED BY <4>1, <4>2
        <3> HIDE DEF best
        <3>3. best \notin Active
            <4>1. SUFFICES ASSUME best \in Anc[tree.tip] PROVE FALSE
                BY DEF Active
            <4>2. Worse(tree, best, tree.tip)
                BY <1>2, <2>3, <4>1, AncestorIsWorse
            <4>3. Worse(tree, best, busy.start)
                BY <1>2, <1>3, <3>1, <4>2, WorseIsOrder
            <4> QED BY <1>2, <3>1, <4>3 DEF Sound
        <3>4. /\ busy' \in AbcType /\ busy'.op = "abc" /\ busy'.pc = "disconnect"
              /\ busy'.target = best /\ busy'.start = busy.start
            BY <1>1, <1>2, <2>1, <2>3, <3>1 DEF AbcType
        <3>5. Mark' = busy.start
            BY <1>3, <2>1, <3>4 DEF Mark, MainLocked
        <3>6. CandInv'
            BY <1>2, <2>1, <2>2, <3>5 DEF CandInv
        <3>7. AbcInv'
            <4>1. best # None
                BY <1>2, <3>1, TreeAssumption
            <4> QED BY <1>3, <2>1, <3>1, <3>2, <3>3, <3>4, <4>1 DEF AbcInv, Active
        <3>8. InvalInv' /\ OwedInv'
            BY <1>1, <1>2, <2>1, <3>4 DEF InvalInv, OwedInv
        <3> QED BY <1>2, <2>1, <3>4, <3>6, <3>7, <3>8 DEF IndInv, BusyType
    <2>4. CASE best = tree.tip
        <3>1. busy.target = None
            BY <1>4, <1>5, <2>4
        <3>2. tree.cand # {} => tree.tip = busy.start
            BY <1>2, <1>3, <1>6, <2>4, <3>1 DEF Sound
        <3>3. \/ busy' = Free
              \/ /\ busy' \in AbcType /\ busy'.op = "abc" /\ busy'.pc = "release"
                 /\ busy'.target = None
            BY <1>1, <1>2, <2>1, <2>4, <3>1 DEF AbcType
        <3>4. ~MainLocked' /\ busy'.op # "inval"
            BY SMT, <3>3 DEF MainLocked, Free
        <3>5. CandInv'
            BY <1>2, <2>1, <2>2, <3>2, <3>4 DEF CandInv, Mark, Sound
        <3>6. AbcInv'
            BY SMT, <3>3 DEF AbcInv, Free
        <3>7. InvalInv' /\ OwedInv'
            BY <1>1, <1>2, <2>1, <3>4 DEF InvalInv, OwedInv
        <3> QED BY <1>2, <2>1, <3>3, <3>5, <3>6, <3>7 DEF IndInv, BusyType
    <2> QED BY <2>3, <2>4
<1> QED BY <1>8, <1>9

(* DisconnectToFork: the fork point is on both chains.                     *)
LEMMA DisconnectKeeps ==
    ASSUME IndInv, DisconnectToFork
    PROVE  IndInv'
<1> DEFINE S == Active \cap Anc[busy.target]
           f == CHOOSE x \in S : S \subseteq Anc[x]
<1>1. /\ busy.op = "abc" /\ busy.pc = "disconnect" /\ UNCHANGED <<locked, owed, manual, gap>>
      /\ tree' = [tree EXCEPT !.tip = f] /\ busy' = [busy EXCEPT !.pc = "connect"]
    BY DEF DisconnectToFork
<1>2. /\ busy \in AbcType /\ busy.start \in Blocks
      /\ GoodTree(tree) /\ tree \in TreeType /\ tree.tip \in Blocks
      /\ tree.seq \in [Blocks -> Int] /\ tree.cand \subseteq Blocks
      /\ AbcInv /\ OwedInv
      /\ Sound(tree, busy.start) /\ (gap = {} => Complete(tree, busy.start))
    BY <1>1, AbcFacts
<1>3. /\ tree.tip = busy.start \/ Worse(tree, tree.tip, busy.start)
      /\ busy.target # None /\ busy.target \in tree.cand /\ busy.target \in Blocks
      /\ Clean(tree, busy.target) /\ busy.target \notin Active
    BY <1>1, <1>2 DEF AbcInv
<1>4. f \in Anc[tree.tip] /\ f \in Anc[busy.target]
    <2>1. S \in SUBSET Anc[tree.tip] /\ S # {}
        BY <1>2, <1>3, ChainWorkGrows DEF Active
    <2>2. \E x \in S : S \subseteq Anc[x]
        <3> HIDE DEF S
        <3> QED BY SMT, <1>2, <2>1, LastOf
    <2>3. f \in S
        <3> HIDE DEF S
        <3> QED BY <2>2
    <2> QED BY <2>3 DEF Active
<1> HIDE DEF f
<1>5. f \in Blocks /\ Anc[f] \subseteq Anc[tree.tip]
    BY <1>2, <1>4, ChainOfAncestor
<1>6. /\ SameShape(tree, tree') /\ tree'.tip = f /\ tree'.cand = tree.cand
      /\ tree'.failed = tree.failed /\ tree'.child = tree.child
      /\ tree'.conflict = tree.conflict /\ tree'.failedBlocks = tree.failedBlocks
    BY <1>1, <1>2, <1>5 DEF SameShape, TreeType
<1>7. Failed(tree') = Failed(tree) /\ Usable(tree') = Usable(tree)
    BY <1>6 DEF Failed, Usable, SameShape
<1>8. GoodTree(tree')
    <2>1. tree'.tip \in tree'.linked
        BY <1>2, <1>4, <1>6 DEF GoodTree, SameShape
    <2>2. Clean(tree', tree'.tip)
        BY <1>2, <1>5, <1>6, <1>7 DEF GoodTree, Clean
    <2> QED BY <1>2, <1>6, <1>7, <2>1, <2>2 DEF GoodTree, SameShape
<1>9. \A x, y : Worse(tree, x, y) <=> Worse(tree', x, y)
    BY <1>6, WorseSameSeq DEF SameShape
<1>10. f = busy.start \/ Worse(tree, f, busy.start)
    <2>1. f = tree.tip \/ Worse(tree, f, tree.tip)
        BY <1>2, <1>4, AncestorIsWorse
    <2> QED BY <1>2, <1>3, <1>5, <2>1, WorseIsOrder
<1>11. /\ busy' \in AbcType /\ busy'.op = "abc" /\ busy'.pc = "connect"
       /\ busy'.target = busy.target /\ busy'.start = busy.start
    BY <1>1, <1>2 DEF AbcType
<1>12. Mark' = busy.start
    BY <1>6, <1>9, <1>10, <1>11 DEF Mark, MainLocked
<1>13. CandInv'
    BY <1>1, <1>2, <1>6, <1>7, <1>9, <1>12 DEF CandInv, Sound, Complete
<1>14. AbcInv'
    BY <1>3, <1>4, <1>5, <1>6, <1>7, <1>11 DEF AbcInv, Active, Clean
<1>15. InvalInv' /\ OwedInv'
    BY <1>1, <1>2, <1>6, <1>11 DEF InvalInv, OwedInv, SameShape
<1> QED BY <1>8, <1>11, <1>13, <1>14, <1>15 DEF IndInv, BusyType

(* ConnectTip: a rejected block is marked; a connected one becomes the     *)
(* tip, and candidates that are worse go.                                  *)
LEMMA ConnectKeeps ==
    ASSUME IndInv, ConnectTip
    PROVE  IndInv'
<1> DEFINE n == CHOOSE x \in Anc[busy.target] : x # Genesis /\ Parent[x] = tree.tip
           m == IF Worse(tree, tree.tip, busy.start) THEN busy.start ELSE tree.tip
           w == [tree EXCEPT !.tip = n, !.scripts = @ \cup {n}]
<1>1. busy.op = "abc" /\ busy.pc = "connect" /\ UNCHANGED <<locked, owed, manual, gap>>
    BY DEF ConnectTip
<1>2. /\ busy \in AbcType /\ busy.start \in Blocks
      /\ GoodTree(tree) /\ tree \in TreeType /\ tree.tip \in Blocks
      /\ tree.seq \in [Blocks -> Int] /\ tree.cand \subseteq Blocks
      /\ AbcInv /\ OwedInv
      /\ Sound(tree, m) /\ (gap = {} => Complete(tree, m))
    BY <1>1, AbcFacts
<1>3. /\ busy.target # None /\ busy.target \in tree.cand /\ busy.target \in Blocks
      /\ Clean(tree, busy.target) /\ busy.target \notin Anc[tree.tip]
      /\ tree.tip \in Anc[busy.target]
    BY <1>1, <1>2 DEF AbcInv, Active
<1>4. n \in Anc[busy.target] /\ n # Genesis /\ Parent[n] = tree.tip
    <2>1. tree.tip # busy.target
        BY <1>2, <1>3, Chain
    <2>2. \E x \in Anc[busy.target] : x # Genesis /\ Parent[x] = tree.tip
        BY <1>3, <2>1, NextOnChain
    <2> QED BY <2>2
<1>5. m \in Blocks
    BY <1>2
<1>6. CASE n \in Invalid \/ HasConflictingChainLock(n)
    <2>1. /\ tree' = [tree EXCEPT !.failed = @ \cup {n}, !.failedBlocks = @ \cup {n},
                                  !.cand = @ \ {n}]
          /\ busy' = [busy EXCEPT !.target = None,
                                  !.pc = IF Worse(tree, tree.tip, busy.start)
                                         THEN "find" ELSE "release"]
        BY <1>6 DEF ConnectTip
    <2> HIDE DEF n
    <2>2. n \in Blocks /\ n \in tree.index /\ n \notin Anc[tree.tip]
        <3>1. n \in Blocks /\ n \in tree.index
            BY <1>2, <1>3, <1>4 DEF GoodTree, TreeType
        <3>2. ChainWork[tree.tip] < ChainWork[n]
            BY <1>4, <3>1, Chain
        <3> QED BY SMT, <1>2, <3>1, <3>2, ChainWorkGrows, Chain
    <2>3. /\ SameShape(tree, tree') /\ tree'.tip = tree.tip
          /\ tree'.cand = tree.cand \ {n} /\ tree'.failed = tree.failed \cup {n}
          /\ tree'.failedBlocks = tree.failedBlocks \cup {n}
          /\ tree'.child = tree.child /\ tree'.conflict = tree.conflict
        BY <1>2, <2>1, <2>2 DEF SameShape, TreeType
    <2>4. Failed(tree') = Failed(tree) \cup {n}
        BY <2>3 DEF Failed
    <2>5. Clean(tree', tree'.tip)
        BY SMT, <1>2, <2>2, <2>3, <2>4 DEF GoodTree, Clean
    <2>6. Failed(tree') \cup tree'.conflict \subseteq tree.index \ {Genesis}
        BY <1>2, <1>4, <2>2, <2>3, <2>4 DEF GoodTree
    <2>7. /\ GoodTree(tree')
          /\ \A r \in Blocks : Sound(tree, r) => Sound(tree', r)
          /\ \A r \in Blocks : Complete(tree, r) => Complete(tree', r)
        BY <1>2, <2>3, <2>4, <2>5, <2>6, Marking
    <2>8. \A x, y : Worse(tree, x, y) <=> Worse(tree', x, y)
        BY <2>3, WorseSameSeq DEF SameShape
    <2>9. /\ busy' \in AbcType /\ busy'.op = "abc" /\ busy'.target = None
          /\ busy'.start = busy.start
          /\ busy'.pc = IF Worse(tree, tree.tip, busy.start) THEN "find" ELSE "release"
        BY <1>1, <1>2, <2>1 DEF AbcType
    <2>10. Mark' = m
        BY <2>3, <2>8, <2>9 DEF Mark, MainLocked
    <2>11. CandInv'
        BY <1>1, <1>2, <1>5, <2>7, <2>10 DEF CandInv
    <2>12. AbcInv'
        BY <2>3, <2>8, <2>9 DEF AbcInv
    <2>13. InvalInv' /\ OwedInv'
        BY <1>1, <1>2, <2>3, <2>9 DEF InvalInv, OwedInv, SameShape
    <2> QED BY <2>7, <2>9, <2>11, <2>12, <2>13 DEF IndInv, BusyType
<1>7. CASE ~(n \in Invalid \/ HasConflictingChainLock(n))
    <2>1. /\ tree' = Prune(w)
          /\ busy' = IF ChainWork[n] <= ChainWork[busy.oldTip] /\ n # busy.target
                     THEN busy
                     ELSE IF Worse(tree, n, busy.start)
                          THEN [busy EXCEPT !.pc = "find"]
                          ELSE IF n = busy.target THEN Free
                               ELSE [busy EXCEPT !.pc = "release"]
        BY <1>7 DEF ConnectTip
    <2> HIDE DEF n
    <2>2. /\ n \in Blocks /\ n \in tree.linked /\ Anc[n] \subseteq Anc[busy.target]
          /\ Worse(tree, tree.tip, n)
        <3>1. n \in Blocks /\ n \in tree.linked /\ Anc[n] \subseteq Anc[busy.target]
            BY <1>2, <1>3, <1>4, ChainOfAncestor DEF GoodTree, TreeType
        <3>2. ChainWork[tree.tip] < ChainWork[n]
            BY <1>4, <3>1, Chain
        <3> QED BY <3>1, <3>2 DEF Worse
    <2>3. /\ SameShape(tree, w) /\ w.tip = n /\ w.cand = tree.cand
          /\ w.failed = tree.failed /\ w.failedBlocks = tree.failedBlocks
          /\ w.child = tree.child /\ w.conflict = tree.conflict
        BY <1>2, <2>2 DEF SameShape, TreeType
    <2> HIDE DEF w
    <2>4. Failed(w) = Failed(tree) /\ Usable(w) = Usable(tree)
        BY <2>3 DEF Failed, Usable, SameShape
    <2>5. GoodTree(w)
        <3>1. Clean(w, w.tip)
            BY <1>3, <2>2, <2>3, <2>4 DEF Clean
        <3> QED BY <1>2, <2>2, <2>3, <2>4, <3>1 DEF GoodTree, SameShape
    <2>6. \A x, y : Worse(tree, x, y) <=> Worse(w, x, y)
        BY <2>3, WorseSameSeq DEF SameShape
    <2>7. /\ GoodTree(tree') /\ SameShape(w, tree') /\ tree'.tip = n
          /\ tree'.failed = tree.failed /\ tree'.child = tree.child
          /\ tree'.conflict = tree.conflict
          /\ tree'.cand = {x \in tree.cand : ~Worse(tree, x, n)}
          /\ Sound(tree', n) /\ (Complete(w, n) => Complete(tree', n))
        BY SMT, <2>1, <2>3, <2>5, <2>6, PruneRight
    <2>8. \A x, y : Worse(tree, x, y) <=> Worse(tree', x, y)
        BY <2>3, <2>7, WorseSameSeq DEF SameShape
    <2>9. Failed(tree') = Failed(tree) /\ Usable(tree') = Usable(tree)
        BY <2>3, <2>7 DEF Failed, Usable, SameShape
    <2>10. busy.target \in tree'.cand /\ Clean(tree', busy.target)
        <3>1. n = busy.target \/ Worse(tree, n, busy.target)
            BY <1>3, <1>4, AncestorIsWorse
        <3>2. ~Worse(tree, busy.target, n)
            BY <1>2, <1>3, <2>2, <3>1, WorseIsOrder
        <3> QED BY <1>3, <2>7, <2>9, <3>2 DEF Clean
    <2>11. n # busy.target => busy.target \notin Anc[n]
        BY <1>3, <1>4, <2>2, NoCycle
    <2>12. Worse(tree, n, busy.start) => n # busy.target
        <3>1. ~Worse(tree, busy.target, m)
            BY <1>2, <1>3 DEF Sound
        <3>2. ~Worse(tree, busy.target, busy.start)
            BY <1>2, <1>3, <3>1, WorseIsOrder
        <3> QED BY <3>2
    <2>13. \/ busy' = Free /\ ~Worse(tree, n, busy.start)
           \/ /\ busy' \in AbcType /\ busy'.op = "abc" /\ n # busy.target
              /\ busy'.target = busy.target /\ busy'.start = busy.start
              /\ busy'.pc \in {"find", "connect", "release"}
              /\ busy'.pc = "find" => Worse(tree, n, busy.start)
              /\ busy'.pc = "release" => ~Worse(tree, n, busy.start)
        BY <1>1, <1>2, <2>1, <2>12 DEF AbcType
    <2>14. Mark' = IF Worse(tree, n, busy.start) THEN busy.start ELSE n
        BY SMT, <2>7, <2>8, <2>13 DEF Mark, MainLocked, Free
    <2>15. CandInv'
        <3>1. CASE Worse(tree, n, busy.start)
            <4>1. m = busy.start
                BY <1>2, <2>2, <3>1, WorseIsOrder
            <4>2. tree'.cand = tree.cand
                BY <1>2, <2>2, <2>7, <3>1, <4>1, WorseIsOrder DEF Sound
            <4> QED BY <1>1, <1>2, <2>8, <2>9, <2>14, <3>1, <4>1, <4>2
                    DEF CandInv, Sound, Complete
        <3>2. CASE ~Worse(tree, n, busy.start)
            <4>1. ASSUME NEW x \in Blocks, ~Worse(tree, x, n) PROVE ~Worse(tree, x, m)
                BY <1>2, <2>2, <3>2, <4>1, WorseIsOrder
            <4>2. Usable(tree) \subseteq Blocks
                BY <1>2 DEF Usable, TreeType
            <4>3. Complete(tree, m) => Complete(w, n)
                BY <2>3, <2>4, <2>6, <4>1, <4>2 DEF Complete
            <4> QED BY <1>1, <1>2, <2>7, <2>14, <3>2, <4>3 DEF CandInv
        <3> QED BY <3>1, <3>2
    <2>16. AbcInv'
        BY SMT, <1>3, <1>4, <2>7, <2>8, <2>10, <2>11, <2>13 DEF AbcInv, Active, Free
    <2>17. InvalInv' /\ OwedInv'
        BY SMT, <1>1, <1>2, <2>3, <2>7, <2>13 DEF InvalInv, OwedInv, SameShape, Free
    <2> QED BY <2>7, <2>13, <2>15, <2>16, <2>17 DEF IndInv, BusyType
<1> QED BY <1>6, <1>7

(* InvalidateBlock begins.                                                 *)
LEMMA InvalidateKeeps ==
    ASSUME IndInv, NEW b \in Blocks, InvalidateBlock(b)
    PROVE  IndInv'
<1> DEFINE byWork == {x \in (tree.linked \cap tree.data) \ (Active \cup Failed(tree)) :
                          ~Worse(tree, x, Parent[b])}
<1>1. /\ busy = Free /\ b \in tree.index \ {Genesis} /\ UNCHANGED <<tree, locked, owed, gap>>
      /\ busy' = [op |-> "inval", block |-> b, mark |-> b, byWork |-> byWork]
    BY DEF InvalidateBlock
<1>2. ~MainLocked /\ busy.op = "none"
    BY <1>1 DEF MainLocked, Free
<1>3. /\ GoodTree(tree) /\ tree \in TreeType /\ Sound(tree, tree.tip)
    BY <1>2, FreeMark
<1>4. byWork \subseteq tree.linked /\ byWork \subseteq Blocks
    BY <1>3 DEF TreeType
<1> HIDE DEF byWork
<1>5. /\ busy' \in InvalType /\ busy'.op = "inval" /\ busy'.block = b /\ busy'.mark = b
      /\ busy'.byWork = byWork
    BY <1>1, <1>4 DEF InvalType
<1>6. CandInv' /\ AbcInv'
    BY <1>1, <1>3, <1>5 DEF CandInv, AbcInv, Mark, MainLocked
<1>7. InvalInv' /\ OwedInv'
    BY <1>1, <1>4, <1>5 DEF IndInv, InvalInv, OwedInv
<1> QED BY <1>1, <1>3, <1>5, <1>6, <1>7 DEF IndInv, BusyType

(* What InvalidateBlock knows.                                             *)
LEMMA InvalFacts ==
    ASSUME IndInv, busy.op = "inval"
    PROVE  /\ busy \in InvalType /\ ~MainLocked
           /\ GoodTree(tree) /\ tree \in TreeType /\ tree.tip \in Blocks
           /\ tree.seq \in [Blocks -> Int] /\ Sound(tree, tree.tip)
           /\ InvalInv /\ OwedInv
<1>1. busy \in InvalType /\ ~MainLocked
    BY SMT DEF IndInv, BusyType, AbcType, Free, MainLocked
<1>2. tree \in TreeType /\ tree.tip \in Blocks /\ tree.seq \in [Blocks -> Int]
    BY DEF IndInv, GoodTree, TreeType
<1> QED BY <1>1, <1>2, FreeMark DEF IndInv

(* InvalidateBlock disconnects the tip and marks it.  The block marked     *)
(* before lies above, so that its mark is never turned into that of a      *)
(* child.                                                                  *)
LEMMA InvalidateTipKeeps ==
    ASSUME IndInv, InvalidateTip
    PROVE  IndInv'
<1> DEFINE walk == tree.tip
           p == Parent[walk]
           flip == p = busy.mark /\ busy.mark \in tree.failed
           better == {x \in busy.byWork : ~Worse(tree, x, p)}
<1>1. /\ busy.op = "inval" /\ busy.block \in Active /\ UNCHANGED <<locked, owed, manual, gap>>
      /\ tree' = [tree EXCEPT
                        !.tip = p,
                        !.failed = (@ \cup {walk}) \ (IF flip THEN {busy.mark} ELSE {}),
                        !.child = IF flip THEN @ \cup {busy.mark} ELSE @,
                        !.cand = ((@ \ {walk}) \cup {p}) \cup better]
      /\ busy' = [busy EXCEPT !.mark = walk, !.byWork = @ \ better]
    BY DEF InvalidateTip
<1>2. /\ busy \in InvalType /\ ~MainLocked
      /\ GoodTree(tree) /\ tree \in TreeType /\ tree.tip \in Blocks
      /\ tree.seq \in [Blocks -> Int] /\ Sound(tree, tree.tip)
      /\ InvalInv /\ OwedInv
    BY <1>1, InvalFacts
<1>3. walk # Genesis
    BY <1>1, <1>2, Chain DEF InvalInv, Active
<1>4. /\ p \in Blocks /\ Anc[walk] = Anc[p] \cup {walk} /\ p \in Anc[p]
      /\ ChainWork[p] < ChainWork[walk]
    BY <1>2, <1>3, Chain
<1>5. walk \notin Anc[p]
    BY SMT, <1>2, <1>4, ChainWorkGrows, Chain
<1>6. /\ Anc[walk] \subseteq tree.linked /\ tree.linked \subseteq tree.index
      /\ tree.index \subseteq Blocks
      /\ Anc[walk] \cap (Failed(tree) \cup tree.conflict) = {}
    BY <1>2 DEF GoodTree, TreeType, Clean
<1>7. ~flip
    BY <1>4, <1>6 DEF Failed
<1>8. better \subseteq tree.linked /\ better \subseteq Blocks
    BY <1>1, <1>2, <1>6 DEF InvalInv
<1>9. /\ SameShape(tree, tree') /\ tree'.tip = p /\ tree'.failed = tree.failed \cup {walk}
      /\ tree'.child = tree.child /\ tree'.conflict = tree.conflict
      /\ tree'.failedBlocks = tree.failedBlocks
      /\ tree'.cand = ((tree.cand \ {walk}) \cup {p}) \cup better
    <2> HIDE DEF better, p, flip
    <2> QED BY <1>1, <1>2, <1>4, <1>7, <1>8 DEF SameShape, TreeType
<1>10. Failed(tree') = Failed(tree) \cup {walk}
    BY <1>9 DEF Failed
<1>11. GoodTree(tree')
    <2>1. Clean(tree', tree'.tip)
        BY <1>4, <1>5, <1>6, <1>9, <1>10 DEF Clean
    <2>2. tree'.tip \in tree'.linked /\ tree'.cand \subseteq tree'.linked
        BY SMT, <1>2, <1>4, <1>6, <1>8, <1>9 DEF SameShape, GoodTree
    <2>3. Failed(tree') \cup tree'.conflict \subseteq tree'.index \ {Genesis}
        BY <1>2, <1>3, <1>4, <1>6, <1>9, <1>10 DEF SameShape, GoodTree
    <2> HIDE DEF walk, p, better
    <2> QED BY <1>2, <1>9, <1>10, <2>1, <2>2, <2>3 DEF GoodTree, SameShape
<1>12. Sound(tree', tree'.tip)
    <2>1. p \in Anc[tree.tip]
        BY <1>4
    <2>2. Sound(tree, p)
        BY <1>2, <2>1, SoundDown
    <2>3. ~Worse(tree, p, p)
        BY <1>2, <1>4, WorseIsOrder
    <2>4. \A x, y : Worse(tree, x, y) <=> Worse(tree', x, y)
        BY <1>9, WorseSameSeq DEF SameShape
    <2> QED BY <1>9, <2>2, <2>3, <2>4 DEF Sound
<1>13. /\ busy' \in InvalType /\ busy'.op = "inval" /\ busy'.block = busy.block
       /\ busy'.mark = walk /\ busy'.byWork = busy.byWork \ better
    <2> HIDE DEF better
    <2> QED BY <1>1, <1>2 DEF InvalType
<1>14. CandInv' /\ AbcInv'
    BY <1>12, <1>13 DEF CandInv, AbcInv, Mark, MainLocked
<1>15. InvalInv' /\ OwedInv'
    BY <1>1, <1>2, <1>3, <1>4, <1>5, <1>6, <1>9, <1>13 DEF InvalInv, OwedInv, SameShape, Active
<1> QED BY <1>11, <1>13, <1>14, <1>15 DEF IndInv, BusyType

(* InvalidateBlock marks the block and searches for candidates.            *)
LEMMA InvalidateDoneKeeps ==
    ASSUME IndInv, InvalidateDone
    PROVE  IndInv'
<1> DEFINE w == [tree EXCEPT !.failed = @ \cup {busy.mark}, !.cand = @ \ {busy.mark},
                             !.failedBlocks = @ \cup {busy.mark}]
<1>1. /\ busy.op = "inval" /\ busy.block \notin Active /\ UNCHANGED locked /\ busy' = Free
      /\ "enforce" \in owed' => "enforce" \in owed
      /\ tree' = IF busy.mark \in Active THEN tree ELSE AddCandidates(w)
    BY DEF InvalidateDone
<1>2. /\ busy \in InvalType /\ GoodTree(tree) /\ tree \in TreeType /\ tree.tip \in Blocks
      /\ Sound(tree, tree.tip) /\ InvalInv /\ OwedInv
    BY <1>1, InvalFacts
<1>3. busy.mark \notin Active /\ busy.mark \in tree.index \ {Genesis} /\ busy.mark \in Blocks
    BY <1>1, <1>2 DEF InvalInv, TreeType
<1>4. /\ SameShape(tree, w) /\ w.tip = tree.tip /\ w.failed = tree.failed \cup {busy.mark}
      /\ w.child = tree.child /\ w.conflict = tree.conflict
      /\ w.failedBlocks = tree.failedBlocks \cup {busy.mark}
      /\ w.cand = tree.cand \ {busy.mark}
    BY <1>2, <1>3 DEF SameShape, TreeType
<1>5. tree' = AddCandidates(w)
    BY <1>1, <1>3
<1> HIDE DEF w
<1>6. Failed(w) = Failed(tree) \cup {busy.mark}
    BY <1>4 DEF Failed
<1>7. Clean(w, w.tip)
    BY SMT, <1>2, <1>3, <1>4, <1>6 DEF Clean, GoodTree, Active
<1>8. Failed(w) \cup w.conflict \subseteq tree.index \ {Genesis}
    BY <1>2, <1>3, <1>4, <1>6 DEF GoodTree
<1>9. GoodTree(w) /\ Sound(w, w.tip)
    BY <1>2, <1>4, <1>6, <1>7, <1>8, Marking
<1>10. /\ GoodTree(tree') /\ SameShape(w, tree')
       /\ Sound(tree', tree'.tip) /\ Complete(tree', tree'.tip)
    BY <1>5, <1>9, AddRight
<1>11. CandInv' /\ AbcInv' /\ InvalInv'
    BY <1>1, <1>10 DEF CandInv, AbcInv, InvalInv, Mark, MainLocked, Free
<1>12. OwedInv'
    BY <1>1, <1>2, <1>4, <1>10 DEF OwedInv, SameShape
<1> QED BY <1>1, <1>10, <1>11, <1>12 DEF IndInv, BusyType

(* EnforceBlock marks the rivals of the locked chain and reconsiders it.   *)
LEMMA EnforceKeeps ==
    ASSUME IndInv, EnforceBlock
    PROVE  IndInv'
<1> DEFINE walk == Anc[locked] \ Active
           rivals == {x \in tree.index \ ({Genesis} \cup walk) :
                          \E v \in walk : Parent[x] = Parent[v]}
           t == IF rivals = {} THEN tree ELSE MarkConflicting(tree, rivals)
<1>1. /\ busy = Free /\ "enforce" \in owed /\ UNCHANGED <<busy, locked>>
      /\ tree' = IF locked \in t.data \ Failed(t) THEN t ELSE ResetFlags(t, locked)
      /\ gap' = IF rivals = {} THEN gap ELSE {}
      /\ "enforce" \notin owed'
    BY DEF EnforceBlock
<1>2. ~MainLocked /\ busy.op = "none"
    BY <1>1 DEF MainLocked, Free
<1>3. /\ GoodTree(tree) /\ tree \in TreeType /\ tree.tip \in Blocks
      /\ Sound(tree, tree.tip) /\ (gap = {} => Complete(tree, tree.tip))
    BY <1>2, FreeMark
<1>4. locked \in tree.index
    BY <1>1 DEF IndInv, OwedInv
<1>5. rivals \in SUBSET (tree.index \ {Genesis})
    OBVIOUS
<1> HIDE DEF rivals
<1>6. /\ GoodTree(t) /\ SameShape(tree, t) /\ Sound(t, t.tip)
      /\ gap' = {} => Complete(t, t.tip)
    <2>1. CASE rivals = {}
        BY <1>1, <1>3, <2>1 DEF SameShape
    <2>2. CASE rivals # {}
        BY <1>3, <1>5, <2>2, ConflictRight
    <2> QED BY <2>1, <2>2
<1>7. locked \in t.index
    BY <1>4, <1>6 DEF SameShape
<1> HIDE DEF t
<1>8. /\ GoodTree(tree') /\ SameShape(t, tree') /\ Sound(tree', tree'.tip)
      /\ gap' = {} => Complete(tree', tree'.tip)
    <2>1. CASE locked \in t.data \ Failed(t)
        BY <1>1, <1>6, <2>1 DEF SameShape
    <2>2. CASE locked \notin t.data \ Failed(t)
        BY <1>1, <1>6, <1>7, <2>2, ResetRight
    <2> QED BY <2>1, <2>2
<1>9. CandInv' /\ AbcInv' /\ InvalInv'
    BY <1>1, <1>8 DEF CandInv, AbcInv, InvalInv, Mark, MainLocked, Free
<1>10. OwedInv'
    BY <1>1, <1>6, <1>8 DEF IndInv, OwedInv, SameShape
<1> QED BY <1>1, <1>8, <1>9, <1>10 DEF IndInv, BusyType

(* A least block marked without a cause would have a parent like it.       *)
LEMMA CauseOfMarks == IndInv => FlagsHaveCause
<1>1. SUFFICES ASSUME IndInv PROVE FlagsHaveCause
    OBVIOUS
<1> DEFINE Bad == {x \in Failed(tree) : ~HasFailed(x)}
<1>2. SUFFICES ASSUME Bad # {} PROVE FALSE
    BY DEF FlagsHaveCause
<1>3. /\ Failed(tree) \subseteq Blocks \ {Genesis}
      /\ \A x \in tree.child \ tree.failed : Parent[x] \in Failed(tree)
    BY <1>1 DEF IndInv, GoodTree, TreeType
<1>4. PICK x \in Bad : \A y \in Bad : ChainWork[x] <= ChainWork[y]
    BY <1>2, <1>3, LeastBlock
<1>5. x \in Blocks \ {Genesis} /\ x \notin tree.failed
    BY <1>3, <1>4, Chain DEF HasFailed
<1>6. Parent[x] \in Failed(tree)
    BY <1>3, <1>4, <1>5 DEF Failed
<1>7. /\ Anc[x] = Anc[Parent[x]] \cup {x} /\ ChainWork[Parent[x]] < ChainWork[x]
      /\ ChainWork[x] \in Nat /\ ChainWork[Parent[x]] \in Nat
    BY <1>5, Chain
<1>8. Parent[x] \in Bad
    BY <1>4, <1>6, <1>7 DEF HasFailed
<1> QED BY SMT, <1>4, <1>7, <1>8

(* IndInv holds at the start and is kept by every step.                    *)
LEMMA IndInvHolds == Spec => []IndInv
<1>1. Init => IndInv
    <2>1. SUFFICES ASSUME Init PROVE IndInv
        OBVIOUS
    <2>2. /\ tree \in TreeType /\ tree.index = {Genesis} /\ tree.data = {Genesis}
          /\ tree.linked = {Genesis} /\ tree.failed = {} /\ tree.child = {}
          /\ tree.conflict = {} /\ tree.failedBlocks = {} /\ tree.cand = {Genesis}
          /\ tree.unlinked = {} /\ tree.tip = Genesis
        BY SMT, <2>1, TreeAssumption DEF Init, EmptyTree, TreeType
    <2>3. Anc[Genesis] = {Genesis} /\ Genesis \in Blocks
        BY TreeAssumption, Chain
    <2>4. Failed(tree) = {} /\ IsFiniteSet(tree.index)
        <3>1. IsFiniteSet({Genesis})
            BY FS_Singleton
        <3> QED BY <2>2, <3>1 DEF Failed
    <2>5. GoodTree(tree)
        BY <2>2, <2>3, <2>4 DEF GoodTree, Clean
    <2>6. ~Worse(tree, Genesis, Genesis)
        BY <2>2, <2>3, WorseIsOrder DEF TreeType
    <2>7. busy = Free /\ busy.op = "none" /\ locked = None /\ owed = {}
        BY <2>1 DEF Init, Free
    <2>8. Mark = Genesis
        BY <2>2, <2>7 DEF Mark, MainLocked
    <2>9. CandInv
        BY <2>2, <2>6, <2>8 DEF CandInv, Sound, Complete, Usable
    <2> QED BY <2>5, <2>7, <2>9 DEF IndInv, BusyType, AbcInv, InvalInv, OwedInv
<1>2. IndInv /\ [Next]_vars => IndInv'
    <2> SUFFICES ASSUME IndInv, [Next]_vars PROVE IndInv'
        OBVIOUS
    <2>1. ASSUME NEW b \in Blocks, AcceptBlockHeader(b) PROVE IndInv'
        BY <2>1, HeaderKeeps
    <2>2. ASSUME NEW b \in Blocks, NEW requested \in BOOLEAN, AcceptBlock(b, requested)
          PROVE  IndInv'
        BY <2>2, BlockKeeps
    <2>3. ASSUME NEW b \in Blocks, InvalidateBlock(b) PROVE IndInv'
        BY <2>3, InvalidateKeeps
    <2>4. ASSUME NEW b \in Blocks, ReconsiderBlock(b) PROVE IndInv'
        BY <2>4, ReconsiderKeeps
    <2>5. ASSUME NEW b \in Blocks, PreciousBlock(b) PROVE IndInv'
        BY <2>5, PreciousKeeps
    <2>6. ASSUME NEW b \in Blocks, NewChainLock(b) PROVE IndInv'
        <3>1. OwedInv'
            BY <2>6, TreeAssumption DEF NewChainLock, OwedInv, IndInv
        <3>2. UNCHANGED <<tree, busy, gap>>
            BY <2>6 DEF NewChainLock
        <3> QED BY <3>1, <3>2
                DEF IndInv, CandInv, AbcInv, InvalInv, Mark, MainLocked, Active
    <2>7. CASE ActivateBestChain \/ Reacquire
        BY <2>7, AcquireKeeps
    <2>8. CASE FindMostWorkChain
        BY <2>8, FindKeeps
    <2>9. CASE DisconnectToFork
        BY <2>9, DisconnectKeeps
    <2>10. CASE ConnectTip
        BY <2>10, ConnectKeeps
    <2>11. CASE InvalidateTip
        BY <2>11, InvalidateTipKeeps
    <2>12. CASE InvalidateDone
        BY <2>12, InvalidateDoneKeeps
    <2>13. CASE EnforceTimer \/ UNCHANGED vars
        <3>1. OwedInv' /\ UNCHANGED <<tree, busy, gap>>
            BY <2>13 DEF EnforceTimer, vars, OwedInv, IndInv
        <3> QED BY <3>1 DEF IndInv, CandInv, AbcInv, InvalInv, Mark, MainLocked, Active
    <2>14. CASE EnforceBlock
        BY <2>14, EnforceKeeps
    <2> QED BY <2>1, <2>2, <2>3, <2>4, <2>5, <2>6, <2>7, <2>8, <2>9, <2>10, <2>11, <2>12,
               <2>13, <2>14 DEF Next, ChainstateStep
<1> QED BY <1>1, <1>2, PTL DEF Spec
-----------------------------------------------------------------------------
(* The results.                                                            *)

(* The block index stays in order: its sets are what their names say, and  *)
(* no chain of the index has a hole.                                       *)
THEOREM IndexInOrder == Spec => []GoodTree(tree)
<1>1. IndInv => GoodTree(tree)
    BY DEF IndInv
<1> QED BY <1>1, IndInvHolds, PTL

(* Every block marked as failed has a block on its chain that failed       *)
(* itself, on every tree and whatever is invalidated, reconsidered or      *)
(* rejected: CheckBlockIndex's "The failed mask cannot be set for blocks   *)
(* without invalid parents".                                               *)
THEOREM MarksHaveCause == Spec => []FlagsHaveCause
BY CauseOfMarks, IndInvHolds, PTL

(* No block of the active chain is ever marked as failed or as conflicting *)
(* with a ChainLock, on every tree.                                        *)
THEOREM ActiveChainStaysClean == Spec => []ActiveChainClean
<1>1. IndInv => ActiveChainClean
    BY DEF IndInv, GoodTree, Clean, ActiveChainClean, Active
<1> QED BY <1>1, IndInvHolds, PTL

(* The candidates are what CheckBlockIndex wants them to be, with the      *)
(* exceptions that CandidatesComplete names, and PruneBlockIndexCandidates *)
(* leaves the target of a reorganisation, on every tree and for any number *)
(* of operator requests.                                                   *)
THEOREM CandidatesStayComplete == Spec => []CandidatesComplete
<1>1. IndInv => CandidatesComplete
    <2>1. SUFFICES ASSUME IndInv PROVE CandidatesComplete
        OBVIOUS
    <2>2. MainLocked /\ busy.target # None => busy.target \in tree.cand
        BY <2>1 DEF IndInv, AbcInv, MainLocked
    <2>3. ASSUME ~MainLocked, busy.op # "inval", NEW x \in tree.index
          PROVE  IF x \in tree.linked /\ ~Worse(tree, x, tree.tip)
                 THEN gap = {} /\ ~HasFailed(x) /\ ~HasConflict(x) => x \in tree.cand
                 ELSE x \notin tree.cand
        <3>1. /\ GoodTree(tree) /\ tree \in TreeType /\ Sound(tree, tree.tip)
              /\ gap = {} => Complete(tree, tree.tip)
            BY <2>1, <2>3, FreeMark
        <3>2. x \in Blocks /\ tree.cand \subseteq tree.linked
            BY <2>3, <3>1 DEF GoodTree, TreeType
        <3>3. ASSUME x \in tree.linked, ~Worse(tree, x, tree.tip), gap = {},
                     ~HasFailed(x), ~HasConflict(x)
              PROVE  x \in tree.cand
            <4>1. x \notin tree.conflict
                BY <3>2, <3>3, Chain DEF HasConflict
            <4>2. x \notin Failed(tree)
                BY <2>1, <3>3, CauseOfMarks DEF FlagsHaveCause
            <4>3. x \in Usable(tree)
                BY <3>1, <3>3, <4>1, <4>2 DEF Usable, GoodTree
            <4> QED BY <3>1, <3>3, <4>3 DEF Complete
        <3> QED BY <3>1, <3>2, <3>3 DEF Sound
    <2> QED BY <2>2, <2>3 DEF CandidatesComplete
<1> QED BY <1>1, IndInvHolds, PTL
=============================================================================

-------------------------- MODULE BaseIndexProofs ---------------------------
(***************************************************************************)
(* Proofs about the base of the indexes, for any tree of blocks, any       *)
(* number of crashes and invalidations and any limit of the queue.         *)
(*                                                                         *)
(* Three facts make the index complete.  Nobody but the sync thread        *)
(* announces a block before it is written (WrittenInv).  Each block in the *)
(* queue of callbacks connects to an ancestor of the one before it, and    *)
(* the last of them has the tip on its chain (Follows), so that once the   *)
(* index takes a callback it takes all that come after.  And as long as    *)
(* the tip is not on the best chain of an index in sync, a callback waits  *)
(* that the index will take (Takes, Comes).                                *)
(***************************************************************************)
EXTENDS BaseIndex, FiniteSetTheorems, WellFoundedInduction, NaturalsInduction, TLAPS

(* Most leaves are first-order; those about numbers, sequences or many     *)
(* values at once name SMT.                                                *)
USE Zenon

Calls == [type : {"connected", "flushed", "marker"}, block : Blocks \cup {None}]

TypeInv ==
    /\ tip \in Blocks /\ flushed \in Blocks
    /\ queue \in Seq(Calls)
    /\ synced \in BOOLEAN /\ sync \in {"loop", "write", "final", "done"}
    /\ best \in Blocks \cup {None} /\ locator \in Blocks \cup {None}
    /\ pindex \in Blocks \cup {None}
    /\ cb \in [pc : {"idle", "rewind", "write"}, block : Blocks \cup {None}]
    /\ waiter \in [pc : {"idle", "sync", "wait", "true"}, goal : Blocks \cup {None}]

(* Where the sync thread, the callback and the waiting caller can be.      *)
ThreadInv ==
    /\ synced = (sync \in {"final", "done"})
    /\ synced => best \in Blocks
    /\ sync = "write" => pindex \in Blocks
    /\ cb.pc # "idle" => synced /\ cb.block \in Blocks \ {Genesis} /\ best = Parent[cb.block]
    /\ waiter.pc # "idle" => synced /\ waiter.goal \in Blocks

(* The chains of the best block, of pindex and of the locator are written, *)
(* but for the block that the sync thread is about to write; the locator   *)
(* is ahead of the database only when it names that block.                 *)
WrittenInv ==
    /\ AncOf(best) \cup AncOf(pindex) \subseteq written \cup AboutToWrite \cup torn
    /\ (sync = "write" /\ locator = pindex) \/ AncOf(locator) \subseteq written \cup torn

Connects(q, i) == i \in DOMAIN q /\ q[i].type = "connected"

(* The blocks connected in the queue q lead to the tip t.                  *)
Follows(q, t) ==
    /\ \A i \in DOMAIN q : q[i].type = "connected" => q[i].block \in Blocks \ {Genesis}
    /\ \A i \in DOMAIN q :
           Connects(q, i) /\ (\A k \in DOMAIN q : k > i => ~Connects(q, k))
           => t \in Anc[q[i].block]
    /\ \A i, j \in DOMAIN q :
           /\ Connects(q, i) /\ Connects(q, j) /\ i < j
           /\ \A k \in DOMAIN q : i < k /\ k < j => ~Connects(q, k)
           => Parent[q[j].block] \in Anc[q[i].block]

(* The best block once the callback that runs is done.                     *)
NewBest == IF cb.pc = "idle" THEN best ELSE cb.block

(* An index with best block e takes a block of the queue q.                *)
Takes(q, e) == \E i \in DOMAIN q : Connects(q, i) /\ Parent[q[i].block] \in Anc[e]

(* ... and reaches a block above g with it or with a later one, before the *)
(* marker.                                                                 *)
Comes(q, e, g) ==
    \E i, j \in DOMAIN q :
        /\ Connects(q, i) /\ Connects(q, j) /\ i <= j
        /\ Parent[q[i].block] \in Anc[e] /\ g \in Anc[q[j].block]
        /\ \A m \in DOMAIN q : q[m].type = "marker" => j < m

DueInv == synced => tip \in Anc[NewBest] \/ Takes(queue, NewBest)

MarkerInv ==
    /\ \A m, n \in DOMAIN queue :
           queue[m].type = "marker" /\ queue[n].type = "marker" => m = n
    /\ \A m \in DOMAIN queue : queue[m].type = "marker" => waiter.pc = "wait"

WaitInv ==
    waiter.pc # "idle" =>
        \/ Anc[waiter.goal] \subseteq written \cup torn
        \/ waiter.pc # "true" /\ cb.pc # "idle" /\ waiter.goal \in Anc[cb.block]
        \/ waiter.pc # "true" /\ Comes(queue, NewBest, waiter.goal)

IndInv ==
    /\ TypeInv /\ ThreadInv /\ WrittenInv
    /\ Follows(queue, tip) /\ DueInv /\ MarkerInv /\ WaitInv
-----------------------------------------------------------------------------
(* The tree of blocks.                                                     *)

(* A set of numbers has a least one.                                       *)
LEMMA LeastNumber ==
    ASSUME NEW S \in SUBSET Nat, S # {}
    PROVE  \E m \in S : \A n \in S : m <= n
<1>1. IsWellFoundedOn(OpToRel(<, Nat), Nat)
    BY NatLessThanWellFounded
<1>2. PICK m \in S : \A n \in S : ~(<<n, m>> \in OpToRel(<, Nat))
    BY <1>1, WFMin
<1>3. ASSUME NEW n \in S PROVE m <= n
    <2>1. n < m => <<n, m>> \in {p \in Nat \X Nat : p[1] < p[2]}
        OBVIOUS
    <2> QED BY SMT, <1>2, <2>1 DEF OpToRel
<1> QED BY <1>3

(* A chain is the chain of the parent (pprev) and the block itself, one    *)
(* higher than its parent.                                                 *)
LEMMA Chain ==
    \A b \in Blocks :
        /\ Anc[b] \subseteq Blocks /\ b \in Anc[b] /\ IsFiniteSet(Anc[b])
        /\ Anc[Genesis] = {Genesis}
        /\ Height[b] \in Nat /\ Height[b] = Cardinality(Anc[b]) - 1
        /\ b # Genesis => /\ Parent[b] \in Blocks /\ Anc[b] = Anc[Parent[b]] \cup {b}
                          /\ Height[b] = Height[Parent[b]] + 1
<1> SUFFICES ASSUME NEW b \in Blocks
             PROVE  /\ Anc[b] \subseteq Blocks /\ b \in Anc[b] /\ IsFiniteSet(Anc[b])
                    /\ Anc[Genesis] = {Genesis}
                    /\ Height[b] \in Nat /\ Height[b] = Cardinality(Anc[b]) - 1
                    /\ b # Genesis => /\ Parent[b] \in Blocks /\ Anc[b] = Anc[Parent[b]] \cup {b}
                                      /\ Height[b] = Height[Parent[b]] + 1
    OBVIOUS
<1>1. \A c \in Blocks :
          /\ Anc[c] \subseteq Blocks /\ c \in Anc[c] /\ IsFiniteSet(Anc[c])
          /\ c # Genesis => /\ Parent[c] \in Blocks /\ Anc[c] = Anc[Parent[c]] \cup {c}
                            /\ c \notin Anc[Parent[c]]
    <2> SUFFICES ASSUME NEW c \in Blocks
                 PROVE  /\ Anc[c] \subseteq Blocks /\ c \in Anc[c] /\ IsFiniteSet(Anc[c])
                        /\ c # Genesis => /\ Parent[c] \in Blocks /\ Anc[c] = Anc[Parent[c]] \cup {c}
                                          /\ c \notin Anc[Parent[c]]
        OBVIOUS
    <2>1. /\ Anc[c] = IF c = Genesis THEN {c} ELSE Anc[Parent[c]] \cup {c}
          /\ Anc[c] \subseteq Blocks /\ IsFiniteSet(Anc[c])
          /\ c # Genesis => c \notin Anc[Parent[c]]
        BY TreeAssumption DEF AncUnfolds
    <2>2. c # Genesis => Parent[c] \in Blocks
        BY TreeAssumption
    <2> QED BY <2>1, <2>2
<1>2. \A c \in Blocks : Height[c] = Cardinality(Anc[c]) - 1
    BY DEF Height
<1>3. \A c \in Blocks : Cardinality(Anc[c]) \in Nat /\ Cardinality(Anc[c]) # 0
    BY <1>1, FS_CardinalityType, FS_EmptySet
<1>4. Anc[Genesis] = {Genesis}
    BY TreeAssumption DEF AncUnfolds
<1>5. ASSUME b # Genesis PROVE Cardinality(Anc[b]) = Cardinality(Anc[Parent[b]]) + 1
    BY SMT, <1>1, <1>5, FS_AddElement
<1>6. Height[b] \in Nat
    BY SMT, <1>2, <1>3
<1>7. ASSUME b # Genesis PROVE Height[b] = Height[Parent[b]] + 1
    BY SMT, <1>1, <1>2, <1>3, <1>5, <1>7
<1> QED BY <1>1, <1>2, <1>4, <1>6, <1>7

(* A set of blocks has a lowest one.                                       *)
LEMMA LowestBlock ==
    ASSUME NEW S \in SUBSET Blocks, S # {}
    PROVE  \E m \in S : \A n \in S : Height[m] <= Height[n]
<1> DEFINE H == {Height[x] : x \in S}
<1>1. H \in SUBSET Nat /\ H # {}
    BY SMT, Chain
<1>2. \E m \in H : \A n \in H : m <= n
    BY <1>1, LeastNumber
<1> QED BY <1>2

(* The chain of a block begins with Genesis, holds the chains of its       *)
(* blocks, and is higher than each of them.                                *)
LEMMA Ancestors ==
    ASSUME NEW b \in Blocks
    PROVE  /\ Genesis \in Anc[b]
           /\ \A a \in Anc[b] : /\ a \in Blocks /\ Anc[a] \subseteq Anc[b]
                                /\ a = b \/ Height[a] < Height[b]
<1> DEFINE Good(x) == /\ Genesis \in Anc[x]
                      /\ \A a \in Anc[x] : /\ Anc[a] \subseteq Anc[x]
                                           /\ a = x \/ Height[a] < Height[x]
           Bad == {x \in Blocks : ~Good(x)}
<1>1. SUFFICES ASSUME Bad # {} PROVE FALSE
    BY Chain
<1>2. PICK m \in Bad : \A n \in Bad : Height[m] <= Height[n]
    BY <1>1, LowestBlock
<1>3. m # Genesis
    BY Chain, TreeAssumption
<1>4. /\ Parent[m] \in Blocks /\ Anc[m] = Anc[Parent[m]] \cup {m}
      /\ Height[m] = Height[Parent[m]] + 1 /\ Height[Parent[m]] \in Nat
    BY <1>3, Chain
<1>5. Good(Parent[m])
    BY SMT, <1>2, <1>4
<1>6. \A a \in Anc[m] : Anc[a] \subseteq Anc[m]
    BY <1>4, <1>5
<1>7. \A a \in Anc[m] : a = m \/ Height[a] < Height[m]
    BY SMT, <1>4, <1>5, Chain
<1> QED BY <1>4, <1>5, <1>6, <1>7

(* From a block of a chain a step leads towards its end.                   *)
LEMMA NextOnChain ==
    ASSUME NEW b \in Blocks, NEW a \in Anc[b], a # b
    PROVE  \E x \in Anc[b] : x # Genesis /\ Parent[x] = a
<1> DEFINE Bad == {c \in Blocks : a \in Anc[c] /\ a # c
                       /\ ~\E x \in Anc[c] : x # Genesis /\ Parent[x] = a}
<1>1. SUFFICES ASSUME Bad # {} PROVE FALSE
    OBVIOUS
<1>2. PICK m \in Bad : \A n \in Bad : Height[m] <= Height[n]
    BY <1>1, LowestBlock
<1>3. m # Genesis
    BY Chain, TreeAssumption
<1>4. /\ Parent[m] \in Blocks /\ Anc[m] = Anc[Parent[m]] \cup {m}
      /\ Height[m] = Height[Parent[m]] + 1 /\ Height[Parent[m]] \in Nat
    BY <1>3, Chain
<1>5. Parent[m] \notin Bad
    BY SMT, <1>2, <1>4
<1> QED BY <1>3, <1>4, <1>5, Chain

(* A chain has one block of each height.                                   *)
LEMMA OnePerHeight ==
    ASSUME NEW b \in Blocks, NEW h \in 0..Height[b]
    PROVE  \E a \in Anc[b] : Height[a] = h /\ \A c \in Anc[b] : Height[c] = h => c = a
<1> DEFINE Good(x, n) == \E a \in Anc[x] : /\ Height[a] = n
                                           /\ \A c \in Anc[x] : Height[c] = n => c = a
           Bad == {x \in Blocks : h \in 0..Height[x] /\ ~Good(x, h)}
<1>1. SUFFICES ASSUME Bad # {} PROVE FALSE
    OBVIOUS
<1>2. PICK m \in Bad : \A n \in Bad : Height[m] <= Height[n]
    BY <1>1, LowestBlock
<1>3. m \in Anc[m] /\ Height[m] \in Nat /\ \A c \in Anc[m] : c = m \/ Height[c] < Height[m]
    BY Chain, Ancestors
<1>4. h # Height[m]
    BY SMT, <1>2, <1>3
<1>5. h < Height[m]
    BY SMT, <1>3, <1>4
<1>6. m # Genesis
    <2>1. Height[Genesis] = 0
        <3>1. Cardinality({Genesis}) = 1
            BY FS_Singleton
        <3>2. Height[Genesis] = Cardinality(Anc[Genesis]) - 1 /\ Anc[Genesis] = {Genesis}
            BY Chain, TreeAssumption
        <3> QED BY SMT, <3>1, <3>2
    <2> QED BY SMT, <2>1, <1>5
<1>7. /\ Parent[m] \in Blocks /\ Anc[m] = Anc[Parent[m]] \cup {m}
      /\ Height[m] = Height[Parent[m]] + 1 /\ Height[Parent[m]] \in Nat
    BY <1>6, Chain
<1>8. Good(Parent[m], h)
    BY SMT, <1>2, <1>5, <1>7
<1> QED BY <1>4, <1>7, <1>8

(* CChain::FindFork returns a block of both chains.                        *)
LEMMA ForkRight ==
    ASSUME NEW a \in Blocks, NEW c \in Blocks
    PROVE  Highest(Anc[a] \cap Anc[c]) \in Anc[a] \cap Anc[c]
<1> DEFINE S == Anc[a] \cap Anc[c]
           H == {Height[a] - Height[x] : x \in S}
<1>1. S # {} /\ \A x \in S : Height[x] \in Nat /\ Height[x] <= Height[a]
    BY SMT, Chain, Ancestors
<1>2. H \in SUBSET Nat /\ H # {}
    BY SMT, <1>1, Chain
<1>3. PICK h \in H : \A n \in H : h <= n
    BY <1>2, LeastNumber
<1>4. PICK f \in S : h = Height[a] - Height[f]
    BY <1>3
<1>5. ASSUME NEW x \in S PROVE Height[x] <= Height[f]
    <2>1. h <= Height[a] - Height[x]
        BY <1>3
    <2> QED BY SMT, <2>1, <1>1, <1>4, Chain
<1> HIDE DEF S
<1>6. \E y \in S : \A x \in S : Height[x] <= Height[y]
    BY <1>5
<1> QED BY <1>6 DEF Highest, S

(* The blocks ConnectTip connects from a fork to a new tip: the first one  *)
(* has the fork for a parent, each other the one before it.                *)
LEMMA PathRight ==
    ASSUME NEW t \in Blocks, NEW f \in Anc[t], f # t
    PROVE  \E n \in Nat \ {0} :
               /\ DOMAIN Path(f, t) = 1..n /\ Path(f, t)[n] = t
               /\ \A i \in 1..n :
                      /\ Path(f, t)[i] \in Blocks \ {Genesis}
                      /\ i = 1 => Parent[Path(f, t)[i]] = f
                      /\ i > 1 => Parent[Path(f, t)[i]] = Path(f, t)[i - 1]
<1> DEFINE above == Anc[t] \ Anc[f]
           n == Height[t] - Height[f]
           P(i) == CHOOSE b \in above : Height[b] = Height[f] + i
<1>1. /\ f \in Blocks /\ Anc[f] \subseteq Anc[t] /\ Height[f] < Height[t]
      /\ Height[f] \in Nat /\ Height[t] \in Nat
    BY Chain, Ancestors
<1>2. n \in Nat \ {0}
    BY SMT, <1>1
<1>3. Cardinality(above) = n
    <2>1. IsFiniteSet(Anc[t]) /\ IsFiniteSet(Anc[f]) /\ Anc[t] \cap Anc[f] = Anc[f]
        BY <1>1, Chain
    <2>2. Cardinality(above) = Cardinality(Anc[t]) - Cardinality(Anc[t] \cap Anc[f])
        BY <2>1, FS_Difference
    <2>3. Height[t] = Cardinality(Anc[t]) - 1 /\ Height[f] = Cardinality(Anc[f]) - 1
        BY <1>1, Chain
    <2>4. Cardinality(Anc[t]) \in Nat /\ Cardinality(Anc[f]) \in Nat
        BY <2>1, FS_CardinalityType
    <2> QED BY SMT, <2>1, <2>2, <2>3, <2>4
<1>4. Path(f, t) = [i \in 1..n |-> P(i)]
    BY <1>3 DEF Path
<1>5. ASSUME NEW i \in 1..n
      PROVE  P(i) \in Anc[t] /\ Height[P(i)] = Height[f] + i
    <2>1. Height[f] + i \in 0..Height[t]
        BY SMT, <1>1, <1>2
    <2>2. PICK a \in Anc[t] : Height[a] = Height[f] + i
        BY <2>1, OnePerHeight
    <2>3. a \notin Anc[f]
        <3>1. \A c \in Anc[f] : c = f \/ Height[c] < Height[f]
            BY <1>1, Ancestors
        <3>2. \A c \in Anc[f] : Height[c] \in Nat
            BY <1>1, Chain
        <3> QED BY SMT, <3>1, <3>2, <2>2, <1>1
    <2>4. a \in above
        BY <2>2, <2>3
    <2>5. P(i) \in above /\ Height[P(i)] = Height[f] + i
        BY <2>2, <2>4
    <2> QED BY <2>5
<1> HIDE DEF P
<1>6. \A a, c \in Anc[t] : Height[a] = Height[c] => a = c
    <2> SUFFICES ASSUME NEW a \in Anc[t], NEW c \in Anc[t], Height[a] = Height[c] PROVE a = c
        OBVIOUS
    <2>1. Height[a] \in 0..Height[t]
        BY SMT, <1>1, Ancestors, Chain
    <2> QED BY <2>1, OnePerHeight
<1>7. P(n) = t
    BY SMT, <1>1, <1>2, <1>5, <1>6, Chain
<1>8. ASSUME NEW i \in 1..n
      PROVE  /\ P(i) \in Blocks \ {Genesis} /\ Parent[P(i)] \in Anc[t]
             /\ Height[Parent[P(i)]] = Height[f] + i - 1
    <2>1. P(i) \in Anc[t] /\ P(i) \in Blocks /\ Height[P(i)] = Height[f] + i
        BY <1>5, Chain
    <2>2. Height[Genesis] = 0
        <3>1. Genesis \in Anc[f] /\ (Genesis = f \/ Height[Genesis] < Height[f])
            BY <1>1, Ancestors
        <3>2. Height[Genesis] = Cardinality(Anc[Genesis]) - 1 /\ Anc[Genesis] = {Genesis}
            BY Chain, TreeAssumption
        <3>3. Cardinality({Genesis}) = 1
            BY FS_Singleton
        <3> QED BY SMT, <3>2, <3>3
    <2>3. P(i) # Genesis
        BY SMT, <2>1, <2>2, <1>1
    <2>4. /\ Parent[P(i)] \in Blocks /\ Anc[P(i)] = Anc[Parent[P(i)]] \cup {P(i)}
          /\ Height[P(i)] = Height[Parent[P(i)]] + 1 /\ Height[Parent[P(i)]] \in Nat
        BY <2>1, <2>3, Chain
    <2>5. Parent[P(i)] \in Anc[P(i)] /\ Anc[P(i)] \subseteq Anc[t]
        BY <2>1, <2>4, Chain, Ancestors
    <2> QED BY SMT, <2>1, <2>3, <2>4, <2>5, <1>1
<1>9. ASSUME NEW i \in 1..n
      PROVE  /\ i = 1 => Parent[P(i)] = f
             /\ i > 1 => Parent[P(i)] = P(i - 1)
    <2>1. i = 1 => Parent[P(i)] = f
        BY SMT, <1>1, <1>6, <1>8
    <2>2. i > 1 => i - 1 \in 1..n
        BY SMT, <1>2
    <2>3. i > 1 => P(i - 1) \in Anc[t] /\ Height[P(i - 1)] = Height[f] + (i - 1)
        BY <2>2, <1>5
    <2> QED BY <2>1, <2>3, <1>1, <1>6, <1>8
<1> HIDE DEF n
<1>10. DOMAIN Path(f, t) = 1..n /\ \A i \in 1..n : Path(f, t)[i] = P(i)
    BY <1>4
<1>11. \A i \in 1..n : i > 1 => i - 1 \in 1..n
    BY SMT, <1>2
<1> QED BY SMT, <1>2, <1>7, <1>8, <1>9, <1>10, <1>11
-----------------------------------------------------------------------------
(* The queue of callbacks.                                                 *)

(* Positions of the rest of the queue.                                     *)
LEMMA TailOfQueue ==
    ASSUME NEW q \in Seq(Calls), q # <<>>
    PROVE  /\ Tail(q) \in Seq(Calls) /\ Head(q) = q[1] /\ 1 \in DOMAIN q
           /\ \A i \in DOMAIN Tail(q) : i + 1 \in DOMAIN q /\ Tail(q)[i] = q[i + 1]
           /\ \A i \in DOMAIN q : i = 1 \/ i - 1 \in DOMAIN Tail(q)
           /\ DOMAIN q \subseteq Nat /\ DOMAIN Tail(q) \subseteq Nat
           /\ \A i \in DOMAIN q : i >= 1 /\ q[i] \in Calls
BY SMT

(* Positions of a queue with more calls at its end.                        *)
LEMMA LongerQueue ==
    ASSUME NEW q \in Seq(Calls), NEW r \in Seq(Calls)
    PROVE  /\ q \o r \in Seq(Calls)
           /\ \A i \in DOMAIN q : i \in DOMAIN (q \o r) /\ (q \o r)[i] = q[i]
           /\ \A i \in DOMAIN r : i + Len(q) \in DOMAIN (q \o r) /\ (q \o r)[i + Len(q)] = r[i]
           /\ \A i \in DOMAIN (q \o r) : i \in DOMAIN q \/ (i - Len(q) \in DOMAIN r /\ i > Len(q))
           /\ DOMAIN q = 1..Len(q) /\ DOMAIN r = 1..Len(r) /\ DOMAIN (q \o r) \subseteq Nat
           /\ Len(q) \in Nat
BY SMT

(* Positions of a queue with one more call at its end.                     *)
LEMMA OneMore ==
    ASSUME NEW q \in Seq(Calls), NEW c \in Calls
    PROVE  /\ Append(q, c) \in Seq(Calls)
           /\ DOMAIN Append(q, c) = DOMAIN q \cup {Len(q) + 1} /\ DOMAIN q = 1..Len(q)
           /\ \A i \in DOMAIN q : Append(q, c)[i] = q[i]
           /\ Append(q, c)[Len(q) + 1] = c
           /\ Len(q) \in Nat
BY SMT

(* Running a callback leaves the blocks of the others in order.            *)
LEMMA FollowsTail ==
    ASSUME NEW q \in Seq(Calls), q # <<>>, NEW t, Follows(q, t)
    PROVE  Follows(Tail(q), t)
<1> DEFINE r == Tail(q)
<1>1. /\ \A i \in DOMAIN r : i + 1 \in DOMAIN q /\ r[i] = q[i + 1]
      /\ \A i \in DOMAIN q : i = 1 \/ i - 1 \in DOMAIN r
      /\ DOMAIN q \subseteq Nat /\ DOMAIN r \subseteq Nat /\ \A i \in DOMAIN q : i >= 1
    BY TailOfQueue
<1> HIDE DEF r
<1>2. ASSUME NEW i \in DOMAIN r PROVE Connects(r, i) <=> Connects(q, i + 1)
    BY <1>1 DEF Connects
<1>3. ASSUME NEW i \in DOMAIN r, r[i].type = "connected" PROVE r[i].block \in Blocks \ {Genesis}
    BY <1>1, <1>3 DEF Follows
<1>4. ASSUME NEW i \in DOMAIN r, Connects(r, i), \A k \in DOMAIN r : k > i => ~Connects(r, k)
      PROVE  t \in Anc[r[i].block]
    <2>1. Connects(q, i + 1) /\ i + 1 \in DOMAIN q /\ r[i] = q[i + 1]
        BY <1>1, <1>2, <1>4
    <2>2. ASSUME NEW k \in DOMAIN q, k > i + 1 PROVE ~Connects(q, k)
        <3>1. k - 1 \in DOMAIN r /\ k - 1 > i /\ (k - 1) + 1 = k
            BY SMT, <1>1, <2>2
        <3> QED BY <3>1, <1>2, <1>4
    <2> QED BY <2>1, <2>2 DEF Follows
<1>5. ASSUME NEW i \in DOMAIN r, NEW j \in DOMAIN r, Connects(r, i), Connects(r, j), i < j,
             \A k \in DOMAIN r : i < k /\ k < j => ~Connects(r, k)
      PROVE  Parent[r[j].block] \in Anc[r[i].block]
    <2>1. /\ Connects(q, i + 1) /\ i + 1 \in DOMAIN q /\ r[i] = q[i + 1]
          /\ Connects(q, j + 1) /\ j + 1 \in DOMAIN q /\ r[j] = q[j + 1]
          /\ i + 1 < j + 1
        BY SMT, <1>1, <1>2, <1>5
    <2>2. ASSUME NEW k \in DOMAIN q, i + 1 < k, k < j + 1 PROVE ~Connects(q, k)
        <3>1. k - 1 \in DOMAIN r /\ i < k - 1 /\ k - 1 < j /\ (k - 1) + 1 = k
            BY SMT, <1>1, <2>2
        <3> QED BY <3>1, <1>2, <1>5
    <2> QED BY <2>1, <2>2 DEF Follows
<1> QED BY <1>3, <1>4, <1>5 DEF Follows, r

(* So does a callback of another kind at the end.                          *)
LEMMA FollowsAppend ==
    ASSUME NEW q \in Seq(Calls), NEW t, Follows(q, t), NEW c \in Calls, c.type # "connected"
    PROVE  Follows(Append(q, c), t)
<1> DEFINE r == Append(q, c)
<1>1. /\ DOMAIN r = DOMAIN q \cup {Len(q) + 1} /\ DOMAIN q = 1..Len(q)
      /\ \A i \in DOMAIN q : r[i] = q[i]
      /\ r[Len(q) + 1] = c /\ Len(q) \in Nat
    BY OneMore
<1> HIDE DEF r
<1>2. \A i \in DOMAIN r : Connects(r, i) <=> Connects(q, i)
    BY <1>1 DEF Connects
<1>3. \A i \in DOMAIN r : Connects(r, i) => i \in DOMAIN q /\ r[i] = q[i]
    BY <1>1, <1>2 DEF Connects
<1>4. DOMAIN q \subseteq DOMAIN r
    BY <1>1
<1>5. \A i \in DOMAIN r : r[i].type = "connected" => Connects(r, i)
    BY DEF Connects
<1> QED BY <1>2, <1>3, <1>4, <1>5 DEF Follows, r

(* InvalidateBlock: the tip may go down.                                   *)
LEMMA FollowsDown ==
    ASSUME NEW q \in Seq(Calls), NEW t \in Blocks, Follows(q, t), NEW u \in Anc[t]
    PROVE  Follows(q, u)
<1>1. ASSUME NEW i \in DOMAIN q, Connects(q, i), t \in Anc[q[i].block]
      PROVE  u \in Anc[q[i].block]
    <2>1. q[i].block \in Blocks
        BY <1>1 DEF Follows, Connects
    <2> QED BY <1>1, <2>1, Ancestors
<1> QED BY <1>1 DEF Follows

(* ActivateBestChain: the blocks it connects come after those that wait.   *)
LEMMA FollowsPath ==
    ASSUME NEW q \in Seq(Calls), NEW t \in Blocks, Follows(q, t),
           NEW u \in Blocks, NEW f \in Anc[t] \cap Anc[u], f # u,
           NEW r, r = [i \in DOMAIN Path(f, u) |-> [type |-> "connected", block |-> Path(f, u)[i]]]
    PROVE  /\ r \in Seq(Calls) /\ Follows(q \o r, u)
           /\ 1 \in DOMAIN r /\ r[1].type = "connected" /\ Parent[r[1].block] = f
<1> DEFINE p == Path(f, u)
<1>1. PICK n \in Nat \ {0} :
          /\ DOMAIN p = 1..n /\ p[n] = u
          /\ \A i \in 1..n : /\ p[i] \in Blocks \ {Genesis}
                             /\ i = 1 => Parent[p[i]] = f
                             /\ i > 1 => Parent[p[i]] = p[i - 1]
    BY SMT, PathRight
<1> HIDE DEF p
<1>2. /\ DOMAIN r = 1..n
      /\ \A i \in 1..n : r[i] = [type |-> "connected", block |-> p[i]]
    BY <1>1 DEF p
<1>3. \A i \in 1..n : r[i] \in Calls /\ r[i].type = "connected" /\ r[i].block = p[i]
    BY <1>1, <1>2 DEF Calls
<1>4. r \in Seq(Calls) /\ Len(r) = n
    <2>1. r = [i \in 1..n |-> [type |-> "connected", block |-> p[i]]]
        BY <1>1 DEF p
    <2> QED BY SMT, <2>1, <1>1, <1>2, <1>3
<1> DEFINE s == q \o r
           l == Len(q)
<1>5. /\ \A i \in DOMAIN q : i \in DOMAIN s /\ s[i] = q[i]
      /\ \A i \in DOMAIN r : i + l \in DOMAIN s /\ s[i + l] = r[i]
      /\ \A i \in DOMAIN s : i \in DOMAIN q \/ (i - l \in DOMAIN r /\ i > l)
      /\ DOMAIN q = 1..l /\ DOMAIN s \subseteq Nat /\ l \in Nat
    BY SMT, <1>4, LongerQueue
<1> HIDE DEF s, l
<1>6. \A i \in DOMAIN q : Connects(s, i) <=> Connects(q, i)
    BY <1>5 DEF Connects
<1>7. \A i \in DOMAIN s : i \notin DOMAIN q => /\ i - l \in 1..n /\ i > l
                                              /\ Connects(s, i) /\ s[i].block = p[i - l]
    <2> SUFFICES ASSUME NEW i \in DOMAIN s, i \notin DOMAIN q
                 PROVE  /\ i - l \in 1..n /\ i > l
                        /\ Connects(s, i) /\ s[i].block = p[i - l]
        OBVIOUS
    <2>1. i - l \in 1..n /\ i > l /\ i = (i - l) + l
        BY SMT, <1>5, <1>2
    <2>2. s[i] = r[i - l]
        BY <2>1, <1>2, <1>5
    <2> QED BY <2>1, <2>2, <1>3 DEF Connects
<1>8. ASSUME NEW i \in DOMAIN s, s[i].type = "connected" PROVE s[i].block \in Blocks \ {Genesis}
    <2>1. CASE i \in DOMAIN q
        BY <2>1, <1>5, <1>8 DEF Follows
    <2>2. CASE i \notin DOMAIN q
        BY <2>2, <1>1, <1>7
    <2> QED BY <2>1, <2>2
<1>9. n + l \in DOMAIN s /\ n + l \notin DOMAIN q /\ l + 1 \in DOMAIN s /\ l + 1 \notin DOMAIN q
    <2>1. n \in DOMAIN r /\ 1 \in DOMAIN r
        BY SMT, <1>1, <1>2
    <2>2. n + l \in DOMAIN s /\ 1 + l \in DOMAIN s
        BY <2>1, <1>5
    <2>3. 1 + l = l + 1 /\ n + l > l /\ l + 1 > l
        BY SMT, <1>1, <1>5
    <2> QED BY SMT, <2>2, <2>3, <1>5
<1>10. ASSUME NEW i \in DOMAIN s, Connects(s, i), \A k \in DOMAIN s : k > i => ~Connects(s, k)
       PROVE  u \in Anc[s[i].block]
    <2>1. ~(n + l > i)
        BY <1>7, <1>9, <1>10
    <2>2. i \notin DOMAIN q
        BY SMT, <2>1, <1>1, <1>5
    <2>3. i - l \in 1..n /\ s[i].block = p[i - l]
        BY <2>2, <1>7
    <2>4. i - l = n
        BY SMT, <2>1, <2>3, <1>1, <1>5
    <2> QED BY <2>3, <2>4, <1>1, Chain
<1>11. ASSUME NEW i \in DOMAIN s, NEW j \in DOMAIN s, Connects(s, i), Connects(s, j), i < j,
              \A k \in DOMAIN s : i < k /\ k < j => ~Connects(s, k)
       PROVE  Parent[s[j].block] \in Anc[s[i].block]
    <2>1. CASE j \in DOMAIN q
        <3>1. i \in DOMAIN q
            BY SMT, <2>1, <1>5, <1>11
        <3>2. \A k \in DOMAIN q : i < k /\ k < j => ~Connects(q, k)
            BY <1>5, <1>6, <1>11
        <3>3. Parent[q[j].block] \in Anc[q[i].block]
            BY <3>1, <3>2, <2>1, <1>6, <1>11 DEF Follows
        <3> QED BY <3>1, <3>3, <2>1, <1>5
    <2>2. CASE j \notin DOMAIN q /\ i \notin DOMAIN q
        <3>1. i - l \in 1..n /\ j - l \in 1..n /\ s[i].block = p[i - l] /\ s[j].block = p[j - l]
            BY <2>2, <1>7
        <3>2. j = i + 1
            <4> SUFFICES ASSUME i + 1 < j PROVE FALSE
                BY SMT, <1>5, <1>11
            <4>1. (i + 1) - l \in 1..n
                BY SMT, <3>1, <1>5
            <4>2. i + 1 \in DOMAIN s
                <5>1. ((i + 1) - l) + l \in DOMAIN s
                    BY <4>1, <1>2, <1>5
                <5> QED BY SMT, <5>1, <1>5
            <4>3. i + 1 \notin DOMAIN q
                BY SMT, <2>2, <1>5, <1>7
            <4> QED BY SMT, <4>2, <4>3, <1>5, <1>7, <1>11
        <3>3. j - l > 1 /\ (j - l) - 1 = i - l
            BY SMT, <3>1, <3>2, <1>5
        <3>4. Parent[p[j - l]] = p[i - l]
            BY <3>1, <3>3, <1>1
        <3>5. p[i - l] \in Blocks
            BY <3>1, <1>1
        <3> QED BY <3>1, <3>4, <3>5, Chain
    <2>3. CASE j \notin DOMAIN q /\ i \in DOMAIN q
        <3>1. j = l + 1
            <4>1. ~(l + 1 < j)
                BY SMT, <2>3, <1>5, <1>7, <1>9, <1>11
            <4> QED BY SMT, <4>1, <2>3, <1>5, <1>7
        <3>2. j - l \in 1..n /\ s[j].block = p[j - l] /\ j - l = 1
            BY SMT, <3>1, <2>3, <1>5, <1>7
        <3>3. Parent[s[j].block] = f
            BY <3>2, <1>1
        <3>4. \A k \in DOMAIN q : k > i => ~Connects(q, k)
            <4> SUFFICES ASSUME NEW k \in DOMAIN q, k > i PROVE ~Connects(q, k)
                OBVIOUS
            <4>1. k \in DOMAIN s /\ i < k /\ k < j
                BY SMT, <3>1, <1>5
            <4> QED BY <4>1, <1>6, <1>11
        <3>5. Connects(q, i) /\ s[i] = q[i]
            BY <2>3, <1>5, <1>6, <1>11
        <3>6. t \in Anc[q[i].block] /\ q[i].block \in Blocks
            BY <3>4, <3>5, <2>3 DEF Follows, Connects
        <3>7. f \in Anc[q[i].block]
            BY <3>6, Ancestors
        <3> QED BY <3>3, <3>5, <3>7
    <2> QED BY <2>1, <2>2, <2>3
<1>12. Follows(s, u)
    BY <1>8, <1>10, <1>11 DEF Follows
<1>13. 1 \in DOMAIN r /\ r[1].type = "connected" /\ Parent[r[1].block] = f
    BY SMT, <1>1, <1>2, <1>3
<1> QED BY <1>4, <1>12, <1>13 DEF s

(* There is a next block after the first one of the queue ...              *)
LEMMA NextConnected ==
    ASSUME NEW q \in Seq(Calls), NEW n \in DOMAIN q, Connects(q, n), n > 1
    PROVE  \E k \in DOMAIN q : /\ Connects(q, k) /\ 1 < k /\ k <= n
                               /\ \A i \in DOMAIN q : 1 < i /\ i < k => ~Connects(q, i)
<1> DEFINE S == {k \in DOMAIN q : Connects(q, k) /\ 1 < k}
<1>1. S \in SUBSET Nat /\ n \in S
    BY SMT
<1>2. PICK k \in S : \A i \in S : k <= i
    BY <1>1, LeastNumber
<1>3. ASSUME NEW i \in DOMAIN q, 1 < i, i < k PROVE ~Connects(q, i)
    BY SMT, <1>1, <1>2, <1>3
<1> QED BY <1>1, <1>2, <1>3

(* ... and a last one.                                                     *)
LEMMA LastConnected ==
    ASSUME NEW q \in Seq(Calls), NEW n \in DOMAIN q, Connects(q, n)
    PROVE  \E k \in DOMAIN q : /\ Connects(q, k) /\ n <= k
                               /\ \A i \in DOMAIN q : i > k => ~Connects(q, i)
<1> DEFINE S == {k \in DOMAIN q : Connects(q, k) /\ n <= k}
           D == {Len(q) - k : k \in S}
<1>1. n \in S /\ \A k \in S : k \in Nat /\ k <= Len(q)
    BY SMT
<1>2. D \in SUBSET Nat /\ D # {}
    BY SMT, <1>1
<1>3. PICK d \in D : \A e \in D : d <= e
    BY <1>2, LeastNumber
<1>4. PICK k \in S : d = Len(q) - k
    BY <1>3
<1>5. ASSUME NEW i \in DOMAIN q, i > k PROVE ~Connects(q, i)
    <2>1. i \in S => Len(q) - k <= Len(q) - i
        BY <1>3, <1>4
    <2>2. i \notin S
        BY SMT, <2>1, <1>1, <1>4, <1>5
    <2> QED BY SMT, <2>2, <1>1, <1>4, <1>5
<1> QED BY <1>4, <1>5

(* An index that has taken the first block has reached the tip or takes    *)
(* the next block too.                                                     *)
LEMMA TakesOn ==
    ASSUME NEW q \in Seq(Calls), NEW t, Follows(q, t), Connects(q, 1)
    PROVE  t \in Anc[q[1].block] \/ Takes(Tail(q), q[1].block)
<1>1. 1 \in DOMAIN q /\ q # <<>>
    BY SMT DEF Connects
<1>2. CASE \A k \in DOMAIN q : k > 1 => ~Connects(q, k)
    BY <1>1, <1>2 DEF Follows
<1>3. CASE \E k \in DOMAIN q : k > 1 /\ Connects(q, k)
    <2>1. PICK k \in DOMAIN q : /\ Connects(q, k) /\ 1 < k
                                /\ \A i \in DOMAIN q : 1 < i /\ i < k => ~Connects(q, i)
        BY <1>3, NextConnected
    <2>2. Parent[q[k].block] \in Anc[q[1].block]
        BY <1>1, <2>1 DEF Follows
    <2>3. k - 1 \in DOMAIN Tail(q) /\ Tail(q)[k - 1] = q[k]
        BY SMT, <1>1, <2>1, TailOfQueue
    <2> QED BY <2>1, <2>2, <2>3 DEF Takes, Connects
<1> QED BY <1>2, <1>3

(* A callback that is not taken leaves the others to be taken.             *)
LEMMA TakesTail ==
    ASSUME NEW q \in Seq(Calls), q # <<>>, NEW e, Takes(q, e),
           ~(Connects(q, 1) /\ Parent[q[1].block] \in Anc[e])
    PROVE  Takes(Tail(q), e)
<1>1. PICK i \in DOMAIN q : Connects(q, i) /\ Parent[q[i].block] \in Anc[e]
    BY DEF Takes
<1>2. i # 1
    BY <1>1
<1>3. i - 1 \in DOMAIN Tail(q) /\ Tail(q)[i - 1] = q[i]
    BY SMT, <1>2, TailOfQueue
<1> QED BY <1>1, <1>3 DEF Takes, Connects

(* Callbacks that come later change nothing about those that wait.         *)
LEMMA LaterCalls ==
    ASSUME NEW q \in Seq(Calls), NEW e, NEW g, NEW r \in Seq(Calls)
    PROVE  /\ Takes(q, e) => Takes(q \o r, e)
           /\ Comes(q, e, g) => Comes(q \o r, e, g)
<1> DEFINE s == q \o r
<1>1. /\ \A i \in DOMAIN q : i \in DOMAIN s /\ s[i] = q[i]
      /\ \A i \in DOMAIN s : i \in DOMAIN q \/ i > Len(q)
      /\ DOMAIN q = 1..Len(q) /\ Len(q) \in Nat /\ DOMAIN s \subseteq Nat
    BY LongerQueue
<1> HIDE DEF s
<1>2. \A i \in DOMAIN q : Connects(q, i) => Connects(s, i)
    BY <1>1 DEF Connects
<1>3. Takes(q, e) => Takes(s, e)
    BY <1>1, <1>2 DEF Takes
<1>4. ASSUME Comes(q, e, g) PROVE Comes(s, e, g)
    <2>1. PICK i \in DOMAIN q, j \in DOMAIN q :
              /\ Connects(q, i) /\ Connects(q, j) /\ i <= j
              /\ Parent[q[i].block] \in Anc[e] /\ g \in Anc[q[j].block]
              /\ \A m \in DOMAIN q : q[m].type = "marker" => j < m
        BY <1>4 DEF Comes
    <2>2. \A m \in DOMAIN s : s[m].type = "marker" => j < m
        BY SMT, <1>1, <2>1
    <2>3. /\ i \in DOMAIN s /\ j \in DOMAIN s /\ Connects(s, i) /\ Connects(s, j)
          /\ Parent[s[i].block] \in Anc[e] /\ g \in Anc[s[j].block]
        BY <1>1, <1>2, <2>1
    <2> QED BY <2>1, <2>2, <2>3 DEF Comes
<1> QED BY <1>3, <1>4 DEF s

(* ... and one callback, as little.                                        *)
LEMMA LaterCall ==
    ASSUME NEW q \in Seq(Calls), NEW e, NEW g, NEW c \in Calls
    PROVE  /\ Takes(q, e) => Takes(Append(q, c), e)
           /\ Comes(q, e, g) => Comes(Append(q, c), e, g)
<1>1. Append(q, c) = q \o <<c>> /\ <<c>> \in Seq(Calls)
    BY SMT
<1> QED BY <1>1, LaterCalls

(* When the index will take a block, it gets to the tip with the last one. *)
LEMMA ComesStart ==
    ASSUME NEW q \in Seq(Calls), NEW t, Follows(q, t), NEW e, Takes(q, e),
           \A m \in DOMAIN q : q[m].type # "marker"
    PROVE  Comes(q, e, t)
<1>1. PICK i \in DOMAIN q : Connects(q, i) /\ Parent[q[i].block] \in Anc[e]
    BY DEF Takes
<1>2. PICK j \in DOMAIN q : /\ Connects(q, j) /\ i <= j
                            /\ \A k \in DOMAIN q : k > j => ~Connects(q, k)
    BY <1>1, LastConnected
<1>3. t \in Anc[q[j].block]
    BY <1>2 DEF Follows
<1> QED BY <1>1, <1>2, <1>3 DEF Comes

(* The first block is taken: the index has reached g with it, or will.     *)
LEMMA ComesOn ==
    ASSUME NEW q \in Seq(Calls), NEW t, Follows(q, t), NEW e, NEW g, Comes(q, e, g),
           Connects(q, 1)
    PROVE  g \in Anc[q[1].block] \/ Comes(Tail(q), q[1].block, g)
<1>1. 1 \in DOMAIN q /\ q # <<>>
    BY SMT DEF Connects
<1>2. PICK i \in DOMAIN q, j \in DOMAIN q :
          /\ Connects(q, i) /\ Connects(q, j) /\ i <= j
          /\ Parent[q[i].block] \in Anc[e] /\ g \in Anc[q[j].block]
          /\ \A m \in DOMAIN q : q[m].type = "marker" => j < m
    BY DEF Comes
<1>3. CASE j = 1
    BY <1>2, <1>3
<1>4. CASE j # 1
    <2>1. j > 1
        BY SMT, <1>4
    <2>2. PICK k \in DOMAIN q : /\ Connects(q, k) /\ 1 < k /\ k <= j
                                /\ \A n \in DOMAIN q : 1 < n /\ n < k => ~Connects(q, n)
        BY <1>2, <2>1, NextConnected
    <2>3. Parent[q[k].block] \in Anc[q[1].block]
        BY <1>1, <2>2 DEF Follows
    <2> DEFINE r == Tail(q)
    <2>4. /\ k - 1 \in DOMAIN r /\ r[k - 1] = q[k] /\ j - 1 \in DOMAIN r /\ r[j - 1] = q[j]
          /\ k - 1 <= j - 1
        BY SMT, <1>1, <2>1, <2>2, TailOfQueue
    <2>5. ASSUME NEW m \in DOMAIN r, r[m].type = "marker" PROVE j - 1 < m
        <3>1. m + 1 \in DOMAIN q /\ r[m] = q[m + 1] /\ m \in Nat
            BY <1>1, TailOfQueue
        <3> QED BY SMT, <1>2, <2>5, <3>1
    <2> HIDE DEF r
    <2>6. Connects(r, k - 1) /\ Connects(r, j - 1)
        BY <1>2, <2>2, <2>4 DEF Connects
    <2>7. Comes(r, q[1].block, g)
        BY <1>2, <2>3, <2>4, <2>5, <2>6 DEF Comes
    <2> QED BY <2>7 DEF r
<1> QED BY <1>3, <1>4

(* It is not taken, or a callback of another kind.                         *)
LEMMA ComesTail ==
    ASSUME NEW q \in Seq(Calls), q # <<>>, NEW e, NEW g, Comes(q, e, g),
           ~(Connects(q, 1) /\ Parent[q[1].block] \in Anc[e])
    PROVE  q[1].type # "marker" /\ Comes(Tail(q), e, g)
<1>2. PICK i \in DOMAIN q, j \in DOMAIN q :
          /\ Connects(q, i) /\ Connects(q, j) /\ i <= j
          /\ Parent[q[i].block] \in Anc[e] /\ g \in Anc[q[j].block]
          /\ \A m \in DOMAIN q : q[m].type = "marker" => j < m
    BY DEF Comes
<1>3. i > 1 /\ j > 1
    BY SMT, <1>2
<1> DEFINE r == Tail(q)
<1>4. /\ i - 1 \in DOMAIN r /\ r[i - 1] = q[i] /\ j - 1 \in DOMAIN r /\ r[j - 1] = q[j]
      /\ i - 1 <= j - 1
    BY SMT, <1>2, <1>3, TailOfQueue
<1>5. ASSUME NEW m \in DOMAIN r, r[m].type = "marker" PROVE j - 1 < m
    <2>1. m + 1 \in DOMAIN q /\ r[m] = q[m + 1] /\ m \in Nat
        BY TailOfQueue
    <2> QED BY SMT, <1>2, <1>5, <2>1
<1>6. q[1].type # "marker"
    BY SMT, <1>2, <1>3
<1> HIDE DEF r
<1>7. Connects(r, i - 1) /\ Connects(r, j - 1)
    BY <1>2, <1>4 DEF Connects
<1>8. Comes(r, e, g)
    BY <1>2, <1>4, <1>5, <1>7 DEF Comes
<1> QED BY <1>6, <1>8 DEF r
-----------------------------------------------------------------------------
(* The steps.  First what does not depend on the queue.                    *)

(* AncOf is the chain, with nothing below None.                            *)
LEMMA ChainOf ==
    ASSUME NEW b \in Blocks \cup {None}
    PROVE  /\ AncOf(b) \subseteq Blocks
           /\ \A a \in AncOf(b) : a \in Blocks /\ AncOf(a) \subseteq AncOf(b)
           /\ b # None => b \in Blocks /\ AncOf(b) = Anc[b] /\ b \in AncOf(b)
           /\ b = None => AncOf(b) = {}
BY Chain, Ancestors, TreeAssumption DEF AncOf

(* NextSyncBlock: a block that connects to an ancestor of b, or none when  *)
(* the tip is an ancestor of b.                                            *)
LEMMA NextRight ==
    ASSUME NEW b \in Blocks \cup {None}, tip \in Blocks
    PROVE  /\ b = None => NextSyncBlock(b) = Genesis
           /\ b # None /\ NextSyncBlock(b) = None => tip \in Anc[b]
           /\ b # None /\ NextSyncBlock(b) # None =>
                  /\ NextSyncBlock(b) \in Blocks \ {Genesis}
                  /\ Parent[NextSyncBlock(b)] \in Anc[b]
<1>1. CASE b = None
    BY <1>1 DEF NextSyncBlock
<1>2. CASE b # None
    <2> DEFINE f == FindFork(b)
               above == {n \in Anc[tip] \ {Genesis} : Parent[n] = f}
    <2>1. b \in Blocks /\ f \in Anc[b] /\ f \in Anc[tip]
        BY <1>2, ForkRight DEF FindFork
    <2> HIDE DEF f
    <2>2. NextSyncBlock(b) = IF above = {} THEN None ELSE CHOOSE n \in above : TRUE
        BY <1>2 DEF NextSyncBlock, f
    <2>3. CASE above = {}
        <3>1. f = tip
            BY <2>1, <2>3, NextOnChain
        <3> QED BY <1>2, <2>1, <2>2, <2>3, <3>1
    <2>4. CASE above # {}
        <3>1. NextSyncBlock(b) \in above
            BY <2>2, <2>4
        <3>2. NextSyncBlock(b) \in Blocks \ {Genesis} /\ Parent[NextSyncBlock(b)] = f
            BY <3>1, Chain
        <3>3. NextSyncBlock(b) # None
            BY <3>2, TreeAssumption
        <3> QED BY <1>2, <2>1, <3>2, <3>3
    <2> QED BY <2>3, <2>4
<1> QED BY <1>1, <1>2

(* A step of the sync thread before the index is in sync.                  *)
LEMMA NotSynced ==
    ASSUME IndInv, ~synced
    PROVE  cb.pc = "idle" /\ waiter.pc = "idle" /\ sync \in {"loop", "write"}
BY DEF IndInv, TypeInv, ThreadInv

(* ThreadSync finds the next block, rewinding if need be, or is done.      *)
LEMMA SyncNextKeeps == IndInv /\ SyncNext => IndInv'
<1> SUFFICES ASSUME IndInv, SyncNext PROVE IndInv'
    OBVIOUS
<1> DEFINE next == NextSyncBlock(pindex)
           fork == next # None /\ pindex # None /\ Parent[next] # pindex
<1>1. /\ sync = "loop" /\ ~synced /\ cb.pc = "idle" /\ waiter.pc = "idle"
      /\ synced' = (next = None)
      /\ sync' = IF next = None THEN "final" ELSE "write"
      /\ pindex' = IF next = None THEN pindex ELSE next
      /\ best' = IF next = None THEN pindex ELSE IF fork THEN Parent[next] ELSE best
      /\ locator' = IF fork THEN Parent[next] ELSE locator
      /\ UNCHANGED <<chain, queue, written, cb, waiter, history>>
    BY NotSynced DEF SyncNext, Commit, IndInv, ThreadInv
<1>2. tip \in Blocks /\ pindex \in Blocks \cup {None} /\ best \in Blocks \cup {None}
      /\ locator \in Blocks \cup {None}
    BY DEF IndInv, TypeInv
<1>3. /\ pindex = None => next = Genesis
      /\ pindex # None /\ next = None => tip \in Anc[pindex]
      /\ pindex # None /\ next # None => next \in Blocks \ {Genesis} /\ Parent[next] \in Anc[pindex]
    BY <1>2, NextRight
<1> HIDE DEF next
<1>4. /\ next \in Blocks \cup {None} /\ (next = None => pindex \in Blocks)
      /\ fork => Parent[next] \in Blocks
    BY <1>2, <1>3, Chain, TreeAssumption
<1>5. TypeInv'
    BY <1>1, <1>2, <1>4 DEF IndInv, TypeInv, chain, history
<1>6. ThreadInv'
    BY SMT, <1>1, <1>2, <1>4 DEF IndInv, TypeInv, ThreadInv, chain, history
<1>7. WrittenInv'
    <2>1. /\ AncOf(best) \cup AncOf(pindex) \subseteq written \cup torn
          /\ AncOf(locator) \subseteq written \cup torn
        BY <1>1 DEF IndInv, WrittenInv, AboutToWrite
    <2>2. CASE next = None
        BY <1>1, <2>1, <2>2 DEF WrittenInv, AboutToWrite, AncOf, history
    <2>3. CASE next # None
        <3>1. fork => AncOf(Parent[next]) \subseteq written \cup torn
            BY <1>2, <1>3, <2>1, ChainOf DEF AncOf
        <3>2. AncOf(next) \subseteq written \cup torn \cup {next}
            <4>1. CASE pindex = None
                <5>1. AncOf(next) = {next}
                    BY <1>3, <4>1, Chain, TreeAssumption DEF AncOf
                <5> QED BY <5>1
            <4>2. CASE pindex # None
                <5>1. next \in Blocks \ {Genesis} /\ Parent[next] \in AncOf(pindex)
                    BY <1>3, <2>3, <4>2 DEF AncOf
                <5>2. Anc[next] = Anc[Parent[next]] \cup {next} /\ Parent[next] \in Blocks
                    BY <5>1, Chain
                <5>3. Anc[Parent[next]] \subseteq written \cup torn
                    BY <1>2, <2>1, <5>1, <5>2, ChainOf, TreeAssumption DEF AncOf
                <5> QED BY <2>3, <5>2, <5>3 DEF AncOf
            <4> QED BY <4>1, <4>2
        <3>3. AboutToWrite' = {next} /\ written' = written /\ torn' = torn
            BY <1>1, <2>3 DEF AboutToWrite, history
        <3>4. AncOf(best)' \subseteq written \cup torn
            BY <1>1, <2>1, <2>3, <3>1 DEF AncOf
        <3>5. AncOf(locator)' \subseteq written \cup torn
            BY <1>1, <2>1, <2>3, <3>1 DEF AncOf
        <3>6. AncOf(pindex)' \subseteq written \cup torn \cup {next}
            BY <1>1, <2>3, <3>2 DEF AncOf
        <3> QED BY <3>3, <3>4, <3>5, <3>6 DEF WrittenInv
    <2> QED BY <2>2, <2>3
<1>8. Follows(queue, tip)'
    BY <1>1 DEF IndInv, chain, Follows, Connects
<1>9. DueInv'
    BY <1>1, <1>3, <1>4, TreeAssumption DEF DueInv, NewBest, chain
<1>10. MarkerInv' /\ WaitInv'
    BY <1>1 DEF IndInv, MarkerInv, WaitInv
<1> QED BY <1>5, <1>6, <1>7, <1>8, <1>9, <1>10 DEF IndInv

(* The locator names the block that comes next.                            *)
LEMMA SyncLocatorKeeps == IndInv /\ SyncLocator => IndInv'
<1> SUFFICES ASSUME IndInv, SyncLocator PROVE IndInv'
    OBVIOUS
<1>1. /\ sync = "write" /\ best' = pindex /\ locator' = pindex /\ ~synced
      /\ UNCHANGED <<tip, flushed, queue, synced, sync, pindex, written, cb, waiter, torn>>
    BY DEF SyncLocator, Commit, IndInv, ThreadInv, chain, thread, history
<1>2. cb.pc = "idle" /\ waiter.pc = "idle"
    BY <1>1, NotSynced
<1>3. TypeInv' /\ ThreadInv'
    BY <1>1, <1>2 DEF IndInv, TypeInv, ThreadInv
<1>4. WrittenInv'
    BY <1>1 DEF IndInv, WrittenInv, AboutToWrite, AncOf
<1>5. Follows(queue, tip)'
    BY <1>1 DEF IndInv, Follows, Connects
<1>6. DueInv' /\ MarkerInv' /\ WaitInv'
    BY <1>1, <1>2 DEF IndInv, DueInv, MarkerInv, WaitInv
<1> QED BY <1>3, <1>4, <1>5, <1>6 DEF IndInv

(* The block is written.                                                   *)
LEMMA SyncWriteKeeps == IndInv /\ SyncWrite => IndInv'
<1> SUFFICES ASSUME IndInv, SyncWrite PROVE IndInv'
    OBVIOUS
<1>1. /\ sync = "write" /\ written' = written \cup {pindex} /\ sync' = "loop" /\ ~synced
      /\ UNCHANGED <<tip, flushed, queue, synced, best, locator, pindex, cb, waiter, torn>>
    BY DEF SyncWrite, IndInv, ThreadInv, chain, history
<1>2. cb.pc = "idle" /\ waiter.pc = "idle"
    BY <1>1, NotSynced
<1>3. TypeInv' /\ ThreadInv'
    BY SMT, <1>1, <1>2 DEF IndInv, TypeInv, ThreadInv
<1>4. WrittenInv'
    <2>1. AncOf(best) \cup AncOf(pindex) \subseteq written \cup {pindex} \cup torn
        BY <1>1 DEF IndInv, WrittenInv, AboutToWrite
    <2>2. locator = pindex \/ AncOf(locator) \subseteq written \cup torn
        BY DEF IndInv, WrittenInv
    <2>3. AncOf(locator) \subseteq written \cup {pindex} \cup torn
        BY <2>1, <2>2
    <2> QED BY <1>1, <2>1, <2>3 DEF WrittenInv, AboutToWrite, AncOf
<1>5. Follows(queue, tip)'
    BY <1>1 DEF IndInv, Follows, Connects
<1>6. DueInv' /\ MarkerInv' /\ WaitInv'
    BY <1>1, <1>2 DEF IndInv, DueInv, MarkerInv, WaitInv
<1> QED BY <1>3, <1>4, <1>5, <1>6 DEF IndInv

(* A Commit of the best block, by the sync thread at its end or by Rewind, *)
(* of an index in sync.                                                    *)
LEMMA CommitKeeps ==
    ASSUME WrittenInv, synced, ThreadInv, locator' = best, sync' # "write",
           UNCHANGED <<best, pindex, written, torn>>
    PROVE  WrittenInv'
<1>1. AncOf(best) \cup AncOf(pindex) \subseteq written \cup torn
    BY DEF WrittenInv, AboutToWrite, ThreadInv
<1> QED BY <1>1 DEF WrittenInv, AboutToWrite, AncOf

(* The Commit of an index in sync.                                         *)
LEMMA SyncFinalKeeps == IndInv /\ SyncFinal => IndInv'
<1> SUFFICES ASSUME IndInv, SyncFinal PROVE IndInv'
    OBVIOUS
<1>1. /\ sync = "final" /\ locator' = best /\ sync' = "done" /\ synced
      /\ UNCHANGED <<tip, flushed, queue, synced, best, written, pindex, cb, waiter, torn>>
    BY DEF SyncFinal, Commit, IndInv, ThreadInv, chain, history
<1>2. TypeInv' /\ ThreadInv'
    BY <1>1 DEF IndInv, TypeInv, ThreadInv
<1>3. WrittenInv'
    BY <1>1, CommitKeeps DEF IndInv
<1>4. Follows(queue, tip)'
    BY <1>1 DEF IndInv, Follows, Connects
<1>5. DueInv' /\ MarkerInv'
    BY <1>1 DEF IndInv, DueInv, MarkerInv, NewBest, Takes, Connects
<1>6. WaitInv'
    BY <1>1 DEF IndInv, WaitInv, NewBest, Comes, Connects
<1> QED BY <1>2, <1>3, <1>4, <1>5, <1>6 DEF IndInv
-----------------------------------------------------------------------------
(* The callbacks.                                                          *)

(* A callback leaves the queue.                                            *)
LEMMA DequeueKeeps ==
    ASSUME IndInv, NEW type, Dequeue(type), UNCHANGED <<tip, waiter>>
    PROVE  /\ cb.pc = "idle" /\ queue # <<>> /\ queue[1].type = type /\ queue[1] \in Calls
           /\ queue' = Tail(queue) /\ queue' \in Seq(Calls)
           /\ Follows(queue, tip)' /\ MarkerInv'
<1>1. /\ queue \in Seq(Calls) /\ queue # <<>> /\ queue' = Tail(queue) /\ cb.pc = "idle"
      /\ Head(queue).type = type
    BY DEF Dequeue, IndInv, TypeInv
<1>2. /\ Tail(queue) \in Seq(Calls) /\ Head(queue) = queue[1] /\ queue[1] \in Calls
      /\ \A i \in DOMAIN Tail(queue) : i + 1 \in DOMAIN queue /\ Tail(queue)[i] = queue[i + 1]
      /\ DOMAIN Tail(queue) \subseteq Nat
    BY <1>1, TailOfQueue
<1>3. Follows(Tail(queue), tip)
    BY <1>1, FollowsTail DEF IndInv
<1>4. Follows(queue, tip)'
    BY <1>1, <1>3
<1>5. MarkerInv'
    <2>1. ASSUME NEW m \in DOMAIN queue', queue'[m].type = "marker"
          PROVE  m + 1 \in DOMAIN queue /\ queue[m + 1].type = "marker" /\ m \in Nat
        BY <1>1, <1>2, <2>1
    <2>2. \A m \in DOMAIN queue : queue[m].type = "marker" => waiter.pc = "wait"
        BY DEF IndInv, MarkerInv
    <2>3. ASSUME NEW m \in DOMAIN queue', NEW n \in DOMAIN queue',
                 queue'[m].type = "marker", queue'[n].type = "marker"
          PROVE  m = n
        <3>1. m + 1 = n + 1
            BY <2>1, <2>3 DEF IndInv, MarkerInv
        <3> QED BY SMT, <2>1, <2>3, <3>1
    <2> QED BY <2>1, <2>2, <2>3 DEF MarkerInv
<1> QED BY <1>1, <1>2, <1>4, <1>5

(* BlockConnected: the index takes the block, or the others are still to   *)
(* be taken.                                                               *)
LEMMA BlockConnectedKeeps == IndInv /\ BlockConnected => IndInv'
<1> SUFFICES ASSUME IndInv, BlockConnected PROVE IndInv'
    OBVIOUS
<1> DEFINE b == queue[1].block
           takes == synced /\ Parent[b] \in AncOf(best)
<1>1. /\ Dequeue("connected")
      /\ UNCHANGED <<tip, flushed, synced, sync, pindex, written, locator, waiter, torn>>
    BY DEF BlockConnected, chain, thread, history
<1>2. /\ cb.pc = "idle" /\ queue # <<>> /\ queue[1].type = "connected" /\ queue[1] \in Calls
      /\ queue' = Tail(queue) /\ queue' \in Seq(Calls) /\ queue \in Seq(Calls)
      /\ Follows(queue, tip)' /\ MarkerInv'
    BY <1>1, DequeueKeeps DEF IndInv, TypeInv
<1>3. Head(queue) = queue[1] /\ 1 \in DOMAIN queue
    BY <1>2, TailOfQueue
<1>4. /\ cb' = IF ~takes THEN cb
               ELSE [pc |-> IF best # Parent[b] THEN "rewind" ELSE "write", block |-> b]
      /\ best' = IF takes THEN Parent[b] ELSE best
    BY <1>3 DEF BlockConnected
<1>5. Connects(queue, 1) /\ b \in Blocks \ {Genesis} /\ Follows(queue, tip)
    BY <1>2, <1>3 DEF Connects, IndInv, Follows
<1>6. Parent[b] \in Blocks
    BY <1>5, Chain
<1> HIDE DEF b
<1>7. TypeInv'
    BY <1>1, <1>2, <1>4, <1>5, <1>6 DEF IndInv, TypeInv
<1>8. ThreadInv'
    BY <1>1, <1>2, <1>4, <1>5, <1>6 DEF IndInv, TypeInv, ThreadInv
<1>9. WrittenInv'
    <2>1. best \in Blocks \cup {None}
        BY DEF IndInv, TypeInv
    <2>2. AncOf(best') \subseteq AncOf(best)
        BY <1>4, <2>1, ChainOf
    <2>3. AncOf(best)' = AncOf(best')
        BY DEF AncOf
    <2>4. AncOf(best') \subseteq written \cup AboutToWrite \cup torn
        BY <2>2 DEF IndInv, WrittenInv
    <2> QED BY <1>1, <2>3, <2>4 DEF IndInv, WrittenInv, AboutToWrite, AncOf
<1>10. CASE takes
    <2>1. NewBest' = b /\ NewBest = best /\ cb'.pc # "idle" /\ cb'.block = b /\ Parent[b] \in Anc[best]
        BY <1>2, <1>4, <1>10, TreeAssumption DEF NewBest, AncOf
    <2>2. tip \in Anc[b] \/ Takes(Tail(queue), b)
        BY <1>2, <1>5, TakesOn DEF b
    <2>3. DueInv'
        BY <1>1, <1>2, <2>1, <2>2 DEF DueInv
    <2>4. ASSUME Comes(queue, best, waiter.goal)
          PROVE  waiter.goal \in Anc[b] \/ Comes(Tail(queue), b, waiter.goal)
        BY <1>2, <1>5, <2>4, ComesOn DEF b
    <2>5. WaitInv'
        BY <1>1, <1>2, <2>1, <2>4 DEF IndInv, WaitInv
    <2> QED BY <1>2, <1>7, <1>8, <1>9, <2>3, <2>5 DEF IndInv
<1>11. CASE ~takes
    <2>1. NewBest' = best /\ NewBest = best /\ cb' = cb
        BY <1>2, <1>4, <1>11 DEF NewBest
    <2>2. synced => ~(Connects(queue, 1) /\ Parent[queue[1].block] \in Anc[best])
        BY <1>11, TreeAssumption DEF AncOf, b, IndInv, ThreadInv
    <2>3. synced /\ Takes(queue, best) => Takes(Tail(queue), best)
        BY <1>2, <2>2, TakesTail
    <2>4. DueInv'
        BY <1>1, <1>2, <2>1, <2>3 DEF IndInv, DueInv
    <2>5. synced /\ Comes(queue, best, waiter.goal) => Comes(Tail(queue), best, waiter.goal)
        BY <1>2, <2>2, ComesTail
    <2>6. WaitInv'
        BY <1>1, <1>2, <2>1, <2>5 DEF IndInv, WaitInv, ThreadInv
    <2> QED BY <1>2, <1>7, <1>8, <1>9, <2>4, <2>6 DEF IndInv
<1> QED BY <1>10, <1>11

(* The Commit of Rewind.                                                   *)
LEMMA BlockRewoundKeeps == IndInv /\ BlockRewound => IndInv'
<1> SUFFICES ASSUME IndInv, BlockRewound PROVE IndInv'
    OBVIOUS
<1>1. /\ cb.pc = "rewind" /\ locator' = best /\ synced
      /\ cb' = [cb EXCEPT !.pc = "write"]
      /\ UNCHANGED <<tip, flushed, queue, synced, sync, pindex, best, written, waiter, torn>>
    BY DEF BlockRewound, Commit, IndInv, ThreadInv, chain, thread, history
<1>2. cb'.pc = "write" /\ cb'.block = cb.block /\ NewBest' = NewBest
    BY <1>1 DEF IndInv, TypeInv, NewBest
<1>3. TypeInv' /\ ThreadInv'
    BY <1>1, <1>2 DEF IndInv, TypeInv, ThreadInv
<1>4. WrittenInv'
    BY <1>1, CommitKeeps DEF IndInv, ThreadInv
<1>5. Follows(queue, tip)'
    BY <1>1 DEF IndInv, Follows, Connects
<1>6. DueInv' /\ MarkerInv'
    BY <1>1, <1>2 DEF IndInv, DueInv, MarkerInv, Takes, Connects
<1>7. WaitInv'
    BY <1>1, <1>2 DEF IndInv, WaitInv, Comes, Connects
<1> QED BY <1>3, <1>4, <1>5, <1>6, <1>7 DEF IndInv

(* WriteBlock: the block is written after its ancestors.                   *)
LEMMA BlockWrittenKeeps == IndInv /\ BlockWritten => IndInv'
<1> SUFFICES ASSUME IndInv, BlockWritten PROVE IndInv'
    OBVIOUS
<1>1. /\ cb.pc = "write" /\ written' = written \cup {cb.block} /\ best' = cb.block
      /\ cb' = NoCallback
      /\ UNCHANGED <<tip, flushed, queue, synced, sync, pindex, locator, waiter, torn>>
    BY DEF BlockWritten, chain, thread, history
<1>2. /\ synced /\ sync \in {"final", "done"} /\ cb.block \in Blocks \ {Genesis}
      /\ best = Parent[cb.block] /\ best \in Blocks
    BY <1>1 DEF IndInv, ThreadInv
<1>3. NewBest' = cb.block /\ NewBest = cb.block /\ cb'.pc = "idle"
    BY <1>1 DEF NewBest, NoCallback
<1>4. TypeInv' /\ ThreadInv'
    BY <1>1, <1>2 DEF IndInv, TypeInv, ThreadInv, NoCallback
<1>5. Anc[cb.block] \subseteq written' \cup torn'
    <2>1. Anc[cb.block] = Anc[best] \cup {cb.block}
        BY <1>2, Chain
    <2>2. Anc[best] \subseteq written \cup torn
        BY <1>2, TreeAssumption DEF IndInv, WrittenInv, AboutToWrite, AncOf
    <2> QED BY <1>1, <2>1, <2>2
<1>6. WrittenInv'
    <2>1. AncOf(pindex) \cup AncOf(locator) \subseteq written \cup torn
        BY <1>2 DEF IndInv, WrittenInv, AboutToWrite
    <2>2. AncOf(best)' = Anc[cb.block]
        BY <1>1, <1>2, TreeAssumption DEF AncOf
    <2> QED BY <1>1, <1>2, <1>5, <2>1, <2>2 DEF WrittenInv, AncOf
<1>7. Follows(queue, tip)'
    BY <1>1 DEF IndInv, Follows, Connects
<1>8. DueInv' /\ MarkerInv'
    BY <1>1, <1>3 DEF IndInv, DueInv, MarkerInv, Takes, Connects
<1>9. WaitInv'
    <2>1. waiter.goal \in Anc[cb.block] => Anc[waiter.goal] \subseteq written' \cup torn'
        BY <1>2, <1>5, Ancestors
    <2>2. Comes(queue, NewBest, waiter.goal)' <=> Comes(queue, NewBest, waiter.goal)
        BY <1>1, <1>3 DEF Comes, Connects
    <2> QED BY <1>1, <1>3, <2>1, <2>2 DEF IndInv, WaitInv
<1> QED BY <1>4, <1>6, <1>7, <1>8, <1>9 DEF IndInv

(* A callback that takes no block leaves the others to be taken.           *)
LEMMA OtherCallback ==
    ASSUME IndInv, cb.pc = "idle", queue # <<>>, queue[1].type \in {"flushed", "marker"},
           queue' = Tail(queue), UNCHANGED <<tip, synced, best, cb, written, torn>>
    PROVE  DueInv' /\ (queue[1].type = "flushed" /\ UNCHANGED waiter => WaitInv')
<1>1. queue \in Seq(Calls) /\ ~(Connects(queue, 1) /\ Parent[queue[1].block] \in Anc[best])
    BY DEF IndInv, TypeInv, Connects
<1>2. NewBest = best /\ NewBest' = best
    BY DEF NewBest
<1>3. Takes(queue, best) => Takes(Tail(queue), best)
    BY <1>1, TakesTail
<1>4. DueInv'
    BY <1>2, <1>3 DEF IndInv, DueInv
<1>5. Comes(queue, best, waiter.goal) => Comes(Tail(queue), best, waiter.goal)
    BY <1>1, ComesTail
<1>6. ASSUME UNCHANGED waiter PROVE WaitInv'
    BY <1>2, <1>5, <1>6 DEF IndInv, WaitInv
<1> QED BY <1>4, <1>6

(* ChainStateFlushed: the locator is that of a written chain.              *)
LEMMA ChainStateFlushedKeeps == IndInv /\ ChainStateFlushed => IndInv'
<1> SUFFICES ASSUME IndInv, ChainStateFlushed PROVE IndInv'
    OBVIOUS
<1>1. /\ Dequeue("flushed") /\ locator' \in {locator, best} /\ (locator' # locator => synced)
      /\ UNCHANGED <<tip, flushed, synced, sync, pindex, best, written, cb, waiter, torn>>
    BY DEF ChainStateFlushed, Commit, chain, thread, history
<1>2. /\ cb.pc = "idle" /\ queue # <<>> /\ queue[1].type = "flushed" /\ queue[1] \in Calls
      /\ queue' = Tail(queue) /\ queue' \in Seq(Calls)
      /\ Follows(queue, tip)' /\ MarkerInv'
    BY <1>1, DequeueKeeps
<1>3. TypeInv'
    BY <1>1, <1>2 DEF IndInv, TypeInv
<1>4. ThreadInv'
    BY <1>1 DEF IndInv, ThreadInv
<1>5. WrittenInv'
    <2>1. CASE locator' = locator
        BY <1>1, <2>1 DEF IndInv, WrittenInv, AboutToWrite, AncOf
    <2>2. CASE locator' # locator
        BY <1>1, <2>2, CommitKeeps DEF IndInv, ThreadInv
    <2> QED BY <2>1, <2>2
<1>6. DueInv' /\ WaitInv'
    BY <1>1, <1>2, OtherCallback
<1> QED BY <1>2, <1>3, <1>4, <1>5, <1>6 DEF IndInv

(* The marker: what the caller waits for has come before it.               *)
LEMMA MarkerKeeps == IndInv /\ Marker => IndInv'
<1> SUFFICES ASSUME IndInv, Marker PROVE IndInv'
    OBVIOUS
<1>1. /\ cb.pc = "idle" /\ queue # <<>> /\ Head(queue).type = "marker" /\ queue' = Tail(queue)
      /\ waiter' = [waiter EXCEPT !.pc = "true"] /\ queue \in Seq(Calls)
      /\ UNCHANGED <<tip, flushed, synced, sync, pindex, best, written, locator, cb, torn>>
    BY DEF Marker, Dequeue, chain, thread, history, IndInv, TypeInv
<1>2. /\ Tail(queue) \in Seq(Calls) /\ queue[1].type = "marker" /\ 1 \in DOMAIN queue
      /\ \A i \in DOMAIN Tail(queue) : i + 1 \in DOMAIN queue /\ Tail(queue)[i] = queue[i + 1]
      /\ DOMAIN Tail(queue) \subseteq Nat /\ \A i \in DOMAIN queue : i >= 1
      /\ \A i \in DOMAIN Tail(queue) : i >= 1
    BY SMT, <1>1, TailOfQueue
<1>3. waiter.pc = "wait" /\ waiter'.pc = "true" /\ waiter'.goal = waiter.goal
    BY <1>1, <1>2 DEF IndInv, MarkerInv, TypeInv
<1>4. TypeInv'
    BY <1>1, <1>2, <1>3 DEF IndInv, TypeInv
<1>5. ThreadInv'
    BY <1>1, <1>3 DEF IndInv, ThreadInv
<1>6. WrittenInv'
    BY <1>1 DEF IndInv, WrittenInv, AboutToWrite, AncOf
<1>7. Follows(queue, tip)'
    <2>1. Follows(Tail(queue), tip)
        BY <1>1, FollowsTail DEF IndInv
    <2> QED BY <1>1, <2>1
<1>8. DueInv'
    BY <1>1, <1>2, OtherCallback
<1>9. MarkerInv'
    <2>1. ASSUME NEW m \in DOMAIN queue', queue'[m].type = "marker" PROVE FALSE
        <3>1. m + 1 \in DOMAIN queue /\ queue[m + 1].type = "marker" /\ m \in Nat /\ m >= 1
            BY <1>1, <1>2, <2>1
        <3>2. m + 1 = 1
            BY <1>2, <3>1 DEF IndInv, MarkerInv
        <3> QED BY SMT, <3>1, <3>2
    <2> QED BY <2>1 DEF MarkerInv
<1>10. WaitInv'
    <2>1. ~Comes(queue, best, waiter.goal)
        <3>1. ~Connects(queue, 1)
            BY <1>2 DEF Connects
        <3> QED BY <1>1, <1>2, <3>1, ComesTail
    <2>2. Anc[waiter.goal] \subseteq written \cup torn
        BY <1>1, <1>3, <2>1 DEF IndInv, WaitInv, NewBest
    <2> QED BY <1>1, <1>3, <2>2 DEF WaitInv
<1> QED BY <1>4, <1>5, <1>6, <1>7, <1>8, <1>9, <1>10 DEF IndInv
-----------------------------------------------------------------------------
(* The caller of BlockUntilSyncedToCurrentChain, and the chain.            *)

(* The best block of an index in sync, and the one it will have once the   *)
(* running callback is done.                                               *)
LEMMA NewBestBlock == IndInv /\ synced => NewBest \in Blocks /\ best \in Blocks
BY DEF IndInv, TypeInv, ThreadInv, NewBest

(* Nobody waits and nobody has put a marker in the queue when the call     *)
(* begins.                                                                 *)
LEMMA BlockUntilSyncedKeeps == IndInv /\ BlockUntilSynced => IndInv'
<1> SUFFICES ASSUME IndInv, BlockUntilSynced PROVE IndInv'
    OBVIOUS
<1>1. /\ waiter.pc = "idle" /\ synced /\ sync # "final"
      /\ waiter' = [pc |-> IF tip \in Anc[best] THEN "true" ELSE "sync", goal |-> tip]
      /\ UNCHANGED <<tip, flushed, queue, synced, sync, pindex, best, written, locator, cb, torn>>
    BY DEF BlockUntilSynced, CsMainFree, chain, thread, history
<1>2. tip \in Blocks /\ best \in Blocks /\ queue \in Seq(Calls) /\ waiter'.goal = tip
      /\ waiter'.pc \in {"true", "sync"} /\ (waiter'.pc = "true" <=> tip \in Anc[best])
    BY <1>1 DEF IndInv, TypeInv, ThreadInv
<1>3. TypeInv' /\ ThreadInv'
    BY <1>1, <1>2 DEF IndInv, TypeInv, ThreadInv
<1>4. WrittenInv'
    BY <1>1 DEF IndInv, WrittenInv, AboutToWrite, AncOf
<1>5. Follows(queue, tip)'
    BY <1>1 DEF IndInv, Follows, Connects
<1>6. NewBest' = NewBest
    BY <1>1 DEF NewBest
<1>7. DueInv'
    BY <1>1, <1>6 DEF IndInv, DueInv, Takes, Connects
<1>8. \A m \in DOMAIN queue : queue[m].type # "marker"
    BY <1>1 DEF IndInv, MarkerInv
<1>9. MarkerInv'
    BY <1>1, <1>8 DEF MarkerInv
<1>10. WaitInv'
    <2>1. CASE tip \in Anc[best]
        <3>1. Anc[best] \subseteq written \cup torn
            BY <1>1, <1>2, TreeAssumption DEF IndInv, WrittenInv, AboutToWrite, AncOf, ThreadInv
        <3>2. Anc[tip] \subseteq Anc[best]
            BY <1>2, <2>1, Ancestors
        <3> QED BY <1>1, <1>2, <3>1, <3>2 DEF WaitInv
    <2>2. CASE tip \notin Anc[best] /\ tip \in Anc[NewBest]
        <3>1. cb.pc # "idle" /\ NewBest = cb.block
            BY <2>2 DEF NewBest
        <3> QED BY <1>1, <1>2, <2>2, <3>1 DEF WaitInv
    <2>3. CASE tip \notin Anc[best] /\ tip \notin Anc[NewBest]
        <3>1. Takes(queue, NewBest)
            BY <1>1, <2>3 DEF IndInv, DueInv
        <3>2. Comes(queue, NewBest, tip)
            BY <1>2, <1>8, <3>1, ComesStart DEF IndInv
        <3>3. Comes(queue, NewBest, waiter.goal)'
            BY <1>1, <1>2, <1>6, <3>2
        <3> QED BY <1>2, <2>3, <3>3 DEF WaitInv
    <2> QED BY <2>1, <2>2, <2>3
<1> QED BY <1>3, <1>4, <1>5, <1>7, <1>9, <1>10 DEF IndInv

(* A call at the end of the queue that connects no block changes nothing   *)
(* about the blocks to come.                                               *)
LEMMA AppendKeeps ==
    ASSUME IndInv, NEW c \in Calls, c.type # "connected", queue' = Append(queue, c),
           UNCHANGED <<tip, synced, best, cb, written, torn>>
    PROVE  /\ queue' \in Seq(Calls) /\ Follows(queue, tip)' /\ DueInv'
           /\ \A g : Comes(queue, NewBest, g) => Comes(queue', NewBest', g)
<1>1. queue \in Seq(Calls) /\ NewBest' = NewBest
    BY DEF IndInv, TypeInv, NewBest
<1>2. queue' \in Seq(Calls)
    BY <1>1, OneMore
<1>3. Follows(Append(queue, c), tip)
    BY <1>1, FollowsAppend DEF IndInv
<1>4. Follows(queue, tip)'
    BY <1>3
<1>5. Takes(queue, NewBest) => Takes(queue', NewBest)
    BY <1>1, LaterCall
<1>6. DueInv'
    BY <1>1, <1>5 DEF IndInv, DueInv
<1>7. \A g : Comes(queue, NewBest, g) => Comes(queue', NewBest', g)
    BY <1>1, LaterCall
<1> QED BY <1>2, <1>4, <1>6, <1>7

(* The marker goes to the end of the queue, behind all that is to come.    *)
LEMMA SyncWithQueueKeeps == IndInv /\ SyncWithQueue => IndInv'
<1> SUFFICES ASSUME IndInv, SyncWithQueue PROVE IndInv'
    OBVIOUS
<1> DEFINE c == [type |-> "marker", block |-> None]
<1>1. /\ waiter.pc = "sync" /\ queue' = Append(queue, c)
      /\ waiter' = [waiter EXCEPT !.pc = "wait"]
      /\ UNCHANGED <<tip, flushed, synced, sync, pindex, best, written, locator, cb, torn>>
    BY DEF SyncWithQueue, chain, thread, history
<1>2. c \in Calls /\ c.type = "marker" /\ queue \in Seq(Calls)
    BY DEF Calls, IndInv, TypeInv
<1> HIDE DEF c
<1>3. waiter'.pc = "wait" /\ waiter'.goal = waiter.goal
    BY <1>1 DEF IndInv, TypeInv
<1>4. /\ queue' \in Seq(Calls) /\ Follows(queue, tip)' /\ DueInv'
      /\ \A g : Comes(queue, NewBest, g) => Comes(queue', NewBest', g)
    BY <1>1, <1>2, AppendKeeps
<1>5. TypeInv' /\ ThreadInv'
    BY <1>1, <1>3, <1>4 DEF IndInv, TypeInv, ThreadInv
<1>6. WrittenInv'
    BY <1>1 DEF IndInv, WrittenInv, AboutToWrite, AncOf
<1>7. MarkerInv'
    <2>1. \A m \in DOMAIN queue : queue[m].type # "marker"
        BY <1>1 DEF IndInv, MarkerInv
    <2>2. \A m \in DOMAIN queue' : queue'[m].type = "marker" => m = Len(queue) + 1
        BY SMT, <1>1, <1>2, <2>1, OneMore
    <2> QED BY <1>3, <2>2 DEF MarkerInv
<1>8. WaitInv'
    <2>1. Comes(queue, NewBest, waiter.goal) => Comes(queue, NewBest, waiter.goal)'
        BY <1>3, <1>4
    <2> QED BY <1>1, <1>3, <2>1 DEF IndInv, WaitInv
<1> QED BY <1>4, <1>5, <1>6, <1>7, <1>8 DEF IndInv

(* The caller goes on.                                                     *)
LEMMA ReturnKeeps == IndInv /\ Return => IndInv'
<1> SUFFICES ASSUME IndInv, Return PROVE IndInv'
    OBVIOUS
<1>1. /\ waiter.pc = "true" /\ waiter' = NotWaiting
      /\ UNCHANGED <<tip, flushed, queue, synced, sync, pindex, best, written, locator, cb, torn>>
    BY DEF Return, chain, thread, history
<1>2. waiter'.pc = "idle" /\ waiter'.goal = None
    BY <1>1 DEF NotWaiting
<1>3. TypeInv' /\ ThreadInv'
    BY <1>1, <1>2 DEF IndInv, TypeInv, ThreadInv, NotWaiting
<1>4. WrittenInv'
    BY <1>1 DEF IndInv, WrittenInv, AboutToWrite, AncOf
<1>5. Follows(queue, tip)'
    BY <1>1 DEF IndInv, Follows, Connects
<1>6. DueInv'
    BY <1>1 DEF IndInv, DueInv, Takes, Connects, NewBest
<1>7. MarkerInv'
    BY <1>1 DEF IndInv, MarkerInv
<1>8. WaitInv'
    BY <1>2 DEF WaitInv
<1> QED BY <1>3, <1>4, <1>5, <1>6, <1>7, <1>8 DEF IndInv

(* ActivateBestChain: the first block connected has its parent on the      *)
(* chain of the old tip.                                                   *)
LEMMA ActivateKeeps == ASSUME IndInv, NEW b \in Blocks, ActivateBestChain(b) PROVE IndInv'
<1> DEFINE f == FindFork(b)
           path == Path(f, b)
           r == [i \in DOMAIN path |-> [type |-> "connected", block |-> path[i]]]
<1>1. /\ Height[b] > Height[tip] /\ queue' = queue \o r /\ tip' = b
      /\ UNCHANGED <<flushed, synced, sync, pindex, best, written, locator, cb, waiter, torn>>
    BY DEF ActivateBestChain, thread, history
<1>2. tip \in Blocks /\ queue \in Seq(Calls) /\ flushed \in Blocks
    BY DEF IndInv, TypeInv
<1>3. f \in Anc[b] \cap Anc[tip]
    BY <1>2, ForkRight DEF FindFork
<1>4. f # b
    BY SMT, <1>1, <1>2, <1>3, Chain, Ancestors
<1> HIDE DEF f
<1>5. /\ r \in Seq(Calls) /\ Follows(queue \o r, b)
      /\ 1 \in DOMAIN r /\ r[1].type = "connected" /\ Parent[r[1].block] = f
    BY SMT, <1>2, <1>3, <1>4, FollowsPath DEF IndInv
<1>6. \A i \in DOMAIN r : r[i].type = "connected"
    OBVIOUS
<1> HIDE DEF r
<1>7. /\ queue \o r \in Seq(Calls)
      /\ \A i \in DOMAIN queue : (queue \o r)[i] = queue[i]
      /\ \A i \in DOMAIN r : i + Len(queue) \in DOMAIN (queue \o r)
          /\ (queue \o r)[i + Len(queue)] = r[i]
      /\ \A i \in DOMAIN (queue \o r) :
          i \in DOMAIN queue \/ (i - Len(queue) \in DOMAIN r /\ i > Len(queue))
      /\ DOMAIN (queue \o r) \subseteq Nat /\ Len(queue) \in Nat
    BY <1>2, <1>5, LongerQueue
<1>8. NewBest' = NewBest
    BY <1>1 DEF NewBest
<1>9. TypeInv' /\ ThreadInv'
    BY <1>1, <1>7 DEF IndInv, TypeInv, ThreadInv
<1>10. WrittenInv'
    BY <1>1 DEF IndInv, WrittenInv, AboutToWrite, AncOf
<1>11. Follows(queue, tip)'
    BY <1>1, <1>5
<1>12. DueInv'
    <2> SUFFICES ASSUME synced PROVE Takes(queue \o r, NewBest)
        BY <1>1, <1>8 DEF DueInv
    <2>1. CASE tip \in Anc[NewBest]
        <3>1. f \in Anc[NewBest]
            BY <1>3, <2>1, NewBestBlock, Ancestors
        <3>2. 1 + Len(queue) \in DOMAIN (queue \o r) /\ (queue \o r)[1 + Len(queue)] = r[1]
            BY <1>5, <1>7
        <3> QED BY <1>5, <3>1, <3>2 DEF Takes, Connects
    <2>2. CASE Takes(queue, NewBest)
        BY <1>2, <1>5, <2>2, LaterCalls
    <2> QED BY <2>1, <2>2 DEF IndInv, DueInv
<1>13. MarkerInv'
    <2>1. ASSUME NEW m \in DOMAIN (queue \o r), (queue \o r)[m].type = "marker"
          PROVE  m \in DOMAIN queue /\ queue[m].type = "marker"
        <3>1. CASE m \in DOMAIN queue
            BY <1>7, <2>1, <3>1
        <3>2. CASE m - Len(queue) \in DOMAIN r
            <4>1. (m - Len(queue)) + Len(queue) = m
                BY SMT, <1>7, <2>1
            <4>2. (queue \o r)[m] = r[m - Len(queue)]
                BY <1>7, <3>2, <4>1
            <4> QED BY <1>6, <2>1, <3>2, <4>2
        <3> QED BY <1>7, <2>1, <3>1, <3>2
    <2> QED BY <1>1, <2>1 DEF IndInv, MarkerInv
<1>14. WaitInv'
    <2>1. Comes(queue, NewBest, waiter.goal) => Comes(queue, NewBest, waiter.goal)'
        <3>1. Comes(queue, NewBest, waiter.goal) => Comes(queue \o r, NewBest, waiter.goal)
            BY <1>2, <1>5, LaterCalls
        <3> QED BY <1>1, <1>8, <3>1
    <2> QED BY <1>1, <2>1 DEF IndInv, WaitInv
<1> QED BY <1>9, <1>10, <1>11, <1>12, <1>13, <1>14 DEF IndInv

(* InvalidateBlock: what led to the tip leads to its parent.               *)
LEMMA InvalidateKeeps == IndInv /\ InvalidateBlock => IndInv'
<1> SUFFICES ASSUME IndInv, InvalidateBlock PROVE IndInv'
    OBVIOUS
<1>1. /\ tip # Genesis /\ tip' = Parent[tip]
      /\ UNCHANGED <<flushed, queue, synced, sync, pindex, best, written, locator, cb, waiter, torn>>
    BY DEF InvalidateBlock, thread, history
<1>2. tip \in Blocks /\ queue \in Seq(Calls)
    BY DEF IndInv, TypeInv
<1>3. tip' \in Blocks /\ tip' \in Anc[tip]
    BY <1>1, <1>2, Chain
<1>4. TypeInv' /\ ThreadInv'
    BY <1>1, <1>3 DEF IndInv, TypeInv, ThreadInv
<1>5. WrittenInv'
    BY <1>1 DEF IndInv, WrittenInv, AboutToWrite, AncOf
<1>6. Follows(queue, tip')
    BY <1>2, <1>3, FollowsDown DEF IndInv
<1>7. Follows(queue, tip)'
    BY <1>1, <1>6
<1>8. NewBest' = NewBest
    BY <1>1 DEF NewBest
<1>9. DueInv'
    <2>1. synced /\ tip \in Anc[NewBest] => tip' \in Anc[NewBest]
        BY <1>3, NewBestBlock, Ancestors
    <2> QED BY <1>1, <1>8, <2>1 DEF IndInv, DueInv, Takes, Connects
<1>10. MarkerInv'
    BY <1>1 DEF IndInv, MarkerInv
<1>11. WaitInv'
    BY <1>1, <1>8 DEF IndInv, WaitInv, Comes, Connects
<1> QED BY <1>4, <1>5, <1>7, <1>9, <1>10, <1>11 DEF IndInv

(* FlushStateToDisk queues a call that connects no block.                  *)
LEMMA FlushKeeps == IndInv /\ FlushStateToDisk => IndInv'
<1> SUFFICES ASSUME IndInv, FlushStateToDisk PROVE IndInv'
    OBVIOUS
<1> DEFINE c == [type |-> "flushed", block |-> tip]
<1>1. /\ flushed' = tip /\ queue' = Append(queue, c)
      /\ UNCHANGED <<tip, synced, sync, pindex, best, written, locator, cb, waiter, torn>>
    BY DEF FlushStateToDisk, thread, history
<1>2. c \in Calls /\ c.type = "flushed" /\ queue \in Seq(Calls) /\ tip \in Blocks
    BY DEF Calls, IndInv, TypeInv
<1> HIDE DEF c
<1>3. /\ queue' \in Seq(Calls) /\ Follows(queue, tip)' /\ DueInv'
      /\ \A g : Comes(queue, NewBest, g) => Comes(queue', NewBest', g)
    BY <1>1, <1>2, AppendKeeps
<1>4. TypeInv' /\ ThreadInv'
    BY <1>1, <1>2, <1>3 DEF IndInv, TypeInv, ThreadInv
<1>5. WrittenInv'
    BY <1>1 DEF IndInv, WrittenInv, AboutToWrite, AncOf
<1>6. MarkerInv'
    <2>1. \A m \in DOMAIN queue' : queue'[m].type = "marker" =>
              m \in DOMAIN queue /\ queue[m].type = "marker"
        BY SMT, <1>1, <1>2, OneMore
    <2> QED BY <1>1, <2>1 DEF IndInv, MarkerInv
<1>7. WaitInv'
    <2>1. Comes(queue, NewBest, waiter.goal) => Comes(queue, NewBest, waiter.goal)'
        BY <1>1, <1>3
    <2> QED BY <1>1, <2>1 DEF IndInv, WaitInv
<1> QED BY <1>3, <1>4, <1>5, <1>6, <1>7 DEF IndInv
-----------------------------------------------------------------------------
(* Crashes and restarts.                                                   *)

(* The node starts with a locator whose chain is written or torn.          *)
LEMMA StartKeeps ==
    ASSUME IndInv, NEW l \in Blocks \cup {None}, AncOf(l) \subseteq written \cup torn',
           flushed' \in Blocks, Start(l)
    PROVE  IndInv'
<1> DEFINE b == FindForkInGlobalIndex(flushed', l)
<1>1. /\ tip' = flushed' /\ queue' = <<>> /\ best' = b /\ pindex' = b
      /\ synced' = (b = flushed') /\ sync' = IF b = flushed' THEN "done" ELSE "loop"
      /\ locator' = l /\ cb' = NoCallback /\ waiter' = NotWaiting /\ written' = written
    BY DEF Start
<1>2. b \in AncOf(l) \cup {None} /\ b \in Blocks \cup {None}
    BY SMT, ForkRight, ChainOf DEF FindForkInGlobalIndex
<1> HIDE DEF b
<1>3. TypeInv'
    BY SMT, <1>1, <1>2 DEF TypeInv, NoCallback, NotWaiting
<1>4. ThreadInv'
    <2>1. cb'.pc = "idle" /\ waiter'.pc = "idle"
        BY <1>1 DEF NoCallback, NotWaiting
    <2>2. CASE b = flushed'
        <3>1. synced' = TRUE /\ sync' = "done" /\ best' \in Blocks
            BY <1>1, <2>2
        <3> QED BY <2>1, <3>1 DEF ThreadInv
    <2>3. CASE b # flushed'
        <3>1. ~synced' /\ sync' = "loop" /\ synced' \in BOOLEAN
            BY <1>1, <2>3
        <3>2. synced' = (sync' \in {"final", "done"})
            BY SMT, <3>1
        <3> QED BY <2>1, <3>1, <3>2 DEF ThreadInv
    <2> QED BY <2>2, <2>3
<1>5. WrittenInv'
    <2>1. AncOf(b) \subseteq AncOf(l)
        BY <1>2, ChainOf
    <2>2. AncOf(best)' = AncOf(b) /\ AncOf(pindex)' = AncOf(b) /\ AncOf(locator)' = AncOf(l)
        BY <1>1 DEF AncOf
    <2> QED BY <1>1, <2>1, <2>2 DEF WrittenInv
<1>6. DOMAIN queue' = {}
    BY SMT, <1>1
<1>7. Follows(queue, tip)' /\ MarkerInv'
    BY <1>6 DEF Follows, MarkerInv
<1>8. DueInv'
    <2>1. NewBest' = b
        BY <1>1 DEF NewBest, NoCallback
    <2>2. flushed' \in Anc[flushed']
        BY Chain
    <2> QED BY <1>1, <2>1, <2>2 DEF DueInv
<1>9. WaitInv'
    BY <1>1 DEF WaitInv, NotWaiting
<1> QED BY <1>3, <1>4, <1>5, <1>7, <1>8, <1>9 DEF IndInv

(* A crash tears the block that the locator announces and the thread has   *)
(* not written.                                                            *)
LEMMA CrashKeeps == IndInv /\ Crash => IndInv'
<1> SUFFICES ASSUME IndInv, Crash PROVE IndInv'
    OBVIOUS
<1>1. flushed' = flushed /\ Start(locator)
      /\ torn' = torn \cup IF sync = "write" /\ locator = pindex THEN {pindex} ELSE {}
    BY DEF Crash
<1>2. AncOf(locator) \subseteq written \cup torn'
    <2>1. CASE sync = "write" /\ locator = pindex
        BY <1>1, <2>1 DEF IndInv, WrittenInv, AboutToWrite
    <2>2. CASE ~(sync = "write" /\ locator = pindex)
        BY <1>1, <2>2 DEF IndInv, WrittenInv
    <2> QED BY <2>1, <2>2
<1>3. locator \in Blocks \cup {None} /\ flushed' \in Blocks
    BY <1>1 DEF IndInv, TypeInv
<1> QED BY <1>1, <1>2, <1>3, StartKeeps

(* The assertion of Rewind and a clean restart leave nothing torn.         *)
LEMMA RestartKeeps == IndInv /\ (Abort \/ Restart) => IndInv'
<1> SUFFICES ASSUME IndInv, Abort \/ Restart PROVE IndInv'
    OBVIOUS
<1>1. Start(locator) \/ Start(IF sync = "loop" THEN pindex ELSE locator)
    BY DEF Abort, Restart
<1>2. PICK m \in {locator, pindex} : Start(m) /\ (m = locator \/ sync = "loop")
    BY <1>1
<1>3. sync # "write" /\ torn' = torn /\ flushed' \in Blocks
    BY DEF Abort, Restart, RewindAssertFails, IndInv, TypeInv
<1>4. m \in Blocks \cup {None}
    BY DEF IndInv, TypeInv
<1>5. AncOf(locator) \subseteq written \cup torn /\ AncOf(pindex) \subseteq written \cup torn
    BY <1>3 DEF IndInv, WrittenInv, AboutToWrite
<1> QED BY <1>2, <1>3, <1>4, <1>5, StartKeeps
-----------------------------------------------------------------------------
(* The chains of the index are written, its callbacks lead to the tip, and *)
(* a block that is not indexed yet is on its way: in every reachable state.*)
LEMMA IndInvHolds == Spec => []IndInv
<1>1. Init => IndInv
    <2> SUFFICES ASSUME Init PROVE IndInv
        OBVIOUS
    <2>1. TypeInv
        <3>1. queue \in Seq(Calls)
            BY SMT DEF Init
        <3>2. synced \in BOOLEAN
            BY DEF Init
        <3>3. tip \in Blocks /\ flushed \in Blocks
            BY TreeAssumption DEF Init
        <3> QED BY <3>1, <3>2, <3>3 DEF Init, TypeInv, NoCallback, NotWaiting
    <2>2. WrittenInv /\ DueInv
        BY DEF Init, WrittenInv, DueInv, AncOf
    <2>3. DOMAIN queue = {} /\ waiter.pc = "idle" /\ cb.pc = "idle"
        BY SMT DEF Init, NotWaiting, NoCallback
    <2>4. Follows(queue, tip) /\ MarkerInv /\ WaitInv
        BY <2>3 DEF Follows, MarkerInv, WaitInv
    <2>5. ThreadInv
        <3>1. ~synced /\ sync = "loop" /\ synced \in BOOLEAN
            BY DEF Init
        <3>2. synced = (sync \in {"final", "done"})
            BY SMT, <3>1
        <3> QED BY <2>3, <3>1, <3>2 DEF ThreadInv
    <2> QED BY <2>1, <2>2, <2>4, <2>5 DEF IndInv
<1>2. IndInv /\ [Next]_vars => IndInv'
    <2> SUFFICES ASSUME IndInv, [Next]_vars PROVE IndInv'
        OBVIOUS
    <2>1. CASE SyncThread
        BY <2>1, SyncNextKeeps, SyncLocatorKeeps, SyncWriteKeeps, SyncFinalKeeps, RestartKeeps
        DEF SyncThread
    <2>2. CASE Callback
        BY <2>2, BlockConnectedKeeps, BlockRewoundKeeps, BlockWrittenKeeps, ChainStateFlushedKeeps,
           MarkerKeeps DEF Callback
    <2>3. CASE BlockUntilSynced \/ SyncWithQueue \/ Return
        BY <2>3, BlockUntilSyncedKeeps, SyncWithQueueKeeps, ReturnKeeps
    <2>4. CASE \E b \in Blocks : ActivateBestChain(b)
        BY <2>4, ActivateKeeps
    <2>5. CASE InvalidateBlock \/ FlushStateToDisk
        BY <2>5, InvalidateKeeps, FlushKeeps
    <2>6. CASE Crash \/ Restart
        BY <2>6, CrashKeeps, RestartKeeps
    <2>7. CASE UNCHANGED vars
        <3>1. UNCHANGED <<tip, flushed, queue, synced, sync, pindex, best, written, locator, cb,
                          waiter, torn>>
            BY <2>7 DEF vars, chain, thread, history
        <3>2. TypeInv' /\ ThreadInv' /\ WrittenInv' /\ MarkerInv'
            BY SMT, <3>1 DEF IndInv, TypeInv, ThreadInv, WrittenInv, MarkerInv, AboutToWrite, AncOf
        <3>3. Follows(queue, tip)'
            BY <3>1 DEF IndInv, Follows, Connects
        <3>4. NewBest' = NewBest
            BY <3>1 DEF NewBest
        <3>5. DueInv'
            BY <3>1, <3>4 DEF IndInv, DueInv, Takes, Connects
        <3>6. WaitInv'
            BY <3>1, <3>4 DEF IndInv, WaitInv, Comes, Connects
        <3> QED BY <3>2, <3>3, <3>5, <3>6 DEF IndInv
    <2> QED BY <2>1, <2>2, <2>3, <2>4, <2>5, <2>6, <2>7 DEF Next
<1> QED BY <1>1, <1>2, PTL DEF Spec

(* BaseIndex: whatever the reorganisations, late callbacks, crashes and    *)
(* restarts, the blocks up to m_best_block_index and up to the locator on  *)
(* disk are indexed, but for those a crash kept the sync thread from       *)
(* writing after it had announced them.                                    *)
THEOREM CompleteButTornHolds == Spec => []CompleteButTorn
<1>1. IndInv => CompleteButTorn
    BY DEF IndInv, WrittenInv, CompleteButTorn, AboutToWrite
<1> QED BY <1>1, IndInvHolds, PTL

(* BlockConnected: an index in sync that has run its callbacks has the     *)
(* active chain, however many stale callbacks rewound it.                  *)
THEOREM CaughtUpWhenDrainedHolds == Spec => []CaughtUpWhenDrained
<1>1. IndInv => CaughtUpWhenDrained
    BY DEF IndInv, DueInv, CaughtUpWhenDrained, NewBest, Takes, Connects
<1> QED BY <1>1, IndInvHolds, PTL

(* BlockUntilSyncedToCurrentChain returns true only when the chain of the  *)
(* moment of the call is indexed.                                          *)
THEOREM ReturnsSyncedHolds == Spec => []ReturnsSynced
<1>1. IndInv => ReturnsSynced
    BY DEF IndInv, WaitInv, ReturnsSynced
<1> QED BY <1>1, IndInvHolds, PTL
=============================================================================

-------------------------- MODULE CheckQueueProofs --------------------------
(***************************************************************************)
(* Proofs about CheckQueue, for any number of workers, checks and any      *)
(* batch size.                                                             *)
(***************************************************************************)
EXTENDS CheckQueue, FiniteSetTheorems, TLAPS

Sleepers == {t \in Threads : pc[t] \in {"asleep", "woken"}}
InLoop == {t \in Threads : pc[t] \in {"enter", "asleep", "woken", "work", "done"}}

Types ==
    /\ queue \in SUBSET Checks
    /\ nIdle \in Int /\ nTotal \in Int /\ nTodo \in Int
    /\ fAllOk \in BOOLEAN /\ request \in BOOLEAN
    /\ pc \in [Threads -> Places]
    /\ batch \in [Threads -> SUBSET Checks] /\ fOk \in [Threads -> BOOLEAN]
    /\ stopper \in {"idle", "notify", "join"}
    /\ added \in SUBSET Checks /\ result \in BOOLEAN

Counts == nIdle = Cardinality(Sleepers) /\ nTotal = Cardinality(InLoop)

Held == \A t \in Threads : pc[t] \in {"work", "enter"} <=> batch[t] # {}

Pooled == \A w \in Workers : pc[w] \notin {"add", "one", "all"}

Stopping ==
    /\ request <=> stopper # "idle"
    /\ request => pc[Master] = "out"

Waiting == pc[Master] = "asleep" => queue = {} /\ nTodo # 0

(* What fAllOk and the batches' fOk say of the checks of this control.     *)
Verdict ==
    /\ Unfinished \subseteq added
    /\ pc[Master] # "out" =>
        /\ fAllOk => added \ Unfinished \subseteq Good
        /\ ~fAllOk => ~(added \subseteq Good)
    /\ \A t \in Threads :
        /\ pc[t] \in {"work", "enter"} /\ ~fOk[t] => ~(added \subseteq Good)
        /\ pc[t] = "enter" /\ fOk[t] => batch[t] \subseteq Good

IInv ==
    /\ Types /\ Counts /\ TodoExact /\ Held /\ Pooled /\ Stopping /\ Waiting
    /\ Verdict /\ NothingLeft /\ ResultRight

-----------------------------------------------------------------------------
(* Membership in Unfinished, without the union.                            *)
LEMMA Members ==
    ASSUME NEW c
    PROVE  c \in Unfinished <=> c \in queue \/ \E t \in Threads : c \in batch[t]
BY DEF Unfinished

(* The same after the step.                                                *)
LEMMA MembersPrime ==
    ASSUME NEW c
    PROVE  c \in Unfinished' <=> c \in queue' \/ \E t \in Threads : c \in batch'[t]
BY DEF Unfinished

(* The pool is finite, and the master belongs to it.                       *)
LEMMA FiniteThreads == IsFiniteSet(Threads) /\ Master \in Threads
BY PoolAssumption, FS_AddElement DEF Threads

(* What the invariant knows of sizes.                                      *)
LEMMA Finite ==
    ASSUME IInv
    PROVE  /\ IsFiniteSet(Unfinished) /\ Unfinished \subseteq Checks
           /\ IsFiniteSet(queue) /\ Cardinality(queue) \in Nat
           /\ IsFiniteSet(Sleepers) /\ Cardinality(Sleepers) \in Nat
           /\ IsFiniteSet(InLoop) /\ Cardinality(InLoop) \in Nat
           /\ nTodo \in Nat /\ nIdle \in Nat /\ nTotal \in Nat
<1>1. Unfinished \subseteq Checks BY Members DEF IInv, Types
<1>2. IsFiniteSet(Unfinished) /\ IsFiniteSet(queue)
    BY <1>1, PoolAssumption, FS_Subset DEF IInv, Types
<1>3. Sleepers \subseteq Threads /\ InLoop \subseteq Threads BY DEF Sleepers, InLoop
<1>4. IsFiniteSet(Sleepers) /\ IsFiniteSet(InLoop) BY <1>3, FiniteThreads, FS_Subset
<1>5. /\ Cardinality(Sleepers) \in Nat /\ Cardinality(InLoop) \in Nat
      /\ Cardinality(queue) \in Nat /\ Cardinality(Unfinished) \in Nat
    BY <1>2, <1>4, FS_CardinalityType
<1> QED BY <1>1, <1>2, <1>4, <1>5 DEF IInv, Counts, TodoExact

(* The type invariant with its bounds.                                     *)
LEMMA Bounds == IInv => TypeOK
<1> SUFFICES ASSUME IInv PROVE TypeOK OBVIOUS
<1>1. Sleepers \in SUBSET Threads /\ InLoop \in SUBSET Threads BY DEF Sleepers, InLoop
<1>2. Cardinality(Sleepers) <= Cardinality(Threads) BY <1>1, FiniteThreads, FS_Subset
<1>3. Cardinality(InLoop) <= Cardinality(Threads) BY <1>1, FiniteThreads, FS_Subset
<1>4. Cardinality(Unfinished) <= Cardinality(Checks) BY Finite, PoolAssumption, FS_Subset
<1>5. Cardinality(Threads) \in Nat /\ Cardinality(Checks) \in Nat
    BY FiniteThreads, PoolAssumption, FS_CardinalityType
<1>6. /\ nIdle \in 0..Cardinality(Threads) /\ nTotal \in 0..Cardinality(Threads)
      /\ nTodo \in 0..Cardinality(Checks)
    BY <1>2, <1>3, <1>4, <1>5, Finite DEF IInv, Counts, TodoExact
<1> QED BY <1>6 DEF IInv, Types, TypeOK

(* No wake-up of the master is lost.                                       *)
LEMMA Woken == IInv => MasterWoken
<1> SUFFICES ASSUME IInv, pc[Master] = "asleep"
             PROVE \E w \in Workers : batch[w] # {} /\ pc[w] \in {"work", "enter"}
    BY DEF MasterWoken
<1>1. queue = {} /\ nTodo # 0 BY DEF IInv, Waiting
<1>2. Unfinished # {} BY <1>1, FS_EmptySet DEF IInv, TodoExact
<1>3. PICK t \in Threads : batch[t] # {} BY <1>1, <1>2, Members
<1>4. pc[t] \in {"work", "enter"} BY <1>3 DEF IInv, Held
<1>5. t # Master BY <1>4
<1> QED BY <1>3, <1>4, <1>5 DEF Threads

-----------------------------------------------------------------------------
(* The clean-up at the top of Loop's critical section: what it computes.   *)
LEMMA Cleanup ==
    ASSUME IInv, NEW t \in Threads, AtLock(t)
    PROVE  /\ Todo(t) = Cardinality(Unfinished \ batch[t]) /\ Todo(t) \in Nat
           /\ IsFiniteSet(Unfinished \ batch[t])
           /\ Idle(t) = Cardinality(Sleepers \ {t}) /\ Idle(t) \in Nat
           /\ Total(t) = Cardinality(InLoop \cup {t}) /\ Total(t) \in Nat
           /\ AllOk(t) \in BOOLEAN
<1>1. batch[t] \subseteq Unfinished BY Members
<1>2. Unfinished \cap batch[t] = batch[t] BY <1>1
<1>3. /\ IsFiniteSet(Unfinished \ batch[t])
      /\ Cardinality(Unfinished \ batch[t]) = Cardinality(Unfinished) - Cardinality(batch[t])
    BY <1>2, Finite, FS_Difference
<1>4. pc[t] # "enter" => Cardinality(batch[t]) = 0
    BY FS_EmptySet DEF IInv, Held, AtLock
<1>5. Todo(t) = Cardinality(Unfinished) - Cardinality(batch[t])
    <2>1. CASE pc[t] = "enter" BY <2>1 DEF Todo, IInv, TodoExact
    <2>2. CASE pc[t] # "enter" BY <2>2, <1>4, Finite DEF Todo, IInv, TodoExact
    <2> QED BY <2>1, <2>2
<1>6. Todo(t) \in Nat BY <1>3, <1>5, FS_CardinalityType
<1>7. Idle(t) = Cardinality(Sleepers \ {t})
    <2>1. Cardinality(Sleepers \ {t}) =
            IF t \in Sleepers THEN Cardinality(Sleepers) - 1 ELSE Cardinality(Sleepers)
        BY Finite, FS_RemoveElement
    <2>2. t \in Sleepers <=> pc[t] = "woken" BY DEF Sleepers, AtLock
    <2> QED BY <2>1, <2>2 DEF Idle, IInv, Counts
<1>8. Idle(t) \in Nat
    <2>1. IsFiniteSet(Sleepers \ {t}) BY Finite, FS_RemoveElement
    <2> QED BY <1>7, <2>1, FS_CardinalityType
<1>9. Total(t) = Cardinality(InLoop \cup {t})
    <2>1. Cardinality(InLoop \cup {t}) =
            IF t \in InLoop THEN Cardinality(InLoop) ELSE Cardinality(InLoop) + 1
        BY Finite, FS_AddElement
    <2>2. t \in InLoop <=> pc[t] # "start" BY DEF InLoop, AtLock
    <2> QED BY <2>1, <2>2 DEF Total, IInv, Counts
<1>10. Total(t) \in Nat
    <2>1. IsFiniteSet(InLoop \cup {t}) BY Finite, FS_AddElement
    <2> QED BY <1>9, <2>1, FS_CardinalityType
<1>11. AllOk(t) \in BOOLEAN BY DEF AllOk, IInv, Types
<1> QED BY <1>3, <1>5, <1>6, <1>7, <1>8, <1>9, <1>10, <1>11

(* ... and what AllOk(t) says of the checks.                               *)
LEMMA Judged ==
    ASSUME IInv, NEW t \in Threads, AtLock(t), pc[Master] # "out"
    PROVE  /\ AllOk(t) => added \ (Unfinished \ batch[t]) \subseteq Good
           /\ ~AllOk(t) => ~(added \subseteq Good)
<1>1. CASE pc[t] = "enter"
    BY <1>1 DEF IInv, Verdict, AllOk, Types
<1>2. CASE pc[t] # "enter"
    <2>1. batch[t] = {} BY <1>2 DEF IInv, Held, AtLock
    <2> QED BY <1>2, <2>1 DEF IInv, Verdict, AllOk, Types
<1> QED BY <1>1, <1>2

(* A batch is never empty.                                                 *)
LEMMA BatchSizes ==
    ASSUME IInv, NEW t \in Threads, AtLock(t)
    PROVE  NNow(t) \in Nat /\ NNow(t) >= 1
<1>1. Total(t) + Idle(t) + 1 \in Nat \ {0}
    <2>1. Total(t) \in Nat /\ Idle(t) \in Nat BY Cleanup
    <2> HIDE DEF Total, Idle
    <2> QED BY <2>1
<1>2. Cardinality(queue) \div (Total(t) + Idle(t) + 1) \in Int BY <1>1, Finite
<1> QED BY <1>2, PoolAssumption DEF NNow

(* Who sleeps and who is in the loop after the critical section.           *)
LEMMA Places1 ==
    ASSUME IInv, NEW t \in Threads, AtLock(t), NEW place \in Places,
           pc' = Moved(t, place)
    PROVE  /\ pc' \in [Threads -> Places]
           /\ place = "asleep" => Sleepers' = (Sleepers \ {t}) \cup {t}
           /\ place \in {"work", "done"} => Sleepers' = Sleepers \ {t}
           /\ place \in {"asleep", "work", "done"} => InLoop' = InLoop \cup {t}
           /\ pc'[t] = place
           /\ \A u \in Threads \ {t} :
                pc'[u] = pc[u] \/ (u = Master /\ pc[u] = "asleep" /\ pc'[u] = "woken")
<1>1. pc' \in [Threads -> Places] /\ pc'[t] = place
    BY DEF Moved, IInv, Types, Places
<1>2. \A u \in Threads \ {t} :
        pc'[u] = pc[u] \/ (u = Master /\ pc[u] = "asleep" /\ pc'[u] = "woken")
    BY DEF Moved
<1>3. place = "asleep" => Sleepers' = (Sleepers \ {t}) \cup {t}
    BY <1>1, <1>2 DEF Sleepers
<1>4. place \in {"work", "done"} => Sleepers' = Sleepers \ {t}
    BY <1>1, <1>2 DEF Sleepers
<1>5. place \in {"asleep", "work", "done"} => InLoop' = InLoop \cup {t}
    BY <1>1, <1>2 DEF InLoop
<1> QED BY <1>1, <1>2, <1>3, <1>4, <1>5

-----------------------------------------------------------------------------
(* Take: the old batch is accounted for, the new one leaves the queue.     *)
LEMMA TakeKeeps ==
    ASSUME IInv, NEW t \in Threads, Take(t)
    PROVE  IInv'
<1>1. AtLock(t) /\ ~request /\ queue # {} /\ pc' = Moved(t, "work") BY DEF Take
<1>2. PICK B \in SUBSET queue : /\ Cardinality(B) = NNow(t)
                                /\ queue' = queue \ B
                                /\ batch' = [batch EXCEPT ![t] = B]
    BY DEF Take
<1>3. B # {} BY <1>1, <1>2, BatchSizes, FS_EmptySet
<1>4. /\ fOk' = [fOk EXCEPT ![t] = AllOk(t)] /\ fAllOk' = AllOk(t)
      /\ nTodo' = Todo(t) /\ nTotal' = Total(t) /\ nIdle' = Idle(t)
      /\ UNCHANGED <<request, stopper, added, result>>
    BY DEF Take
<1>5. pc[Master] # "out" BY <1>1, Members DEF IInv, NothingLeft
<1>6. /\ pc' \in [Threads -> Places] /\ pc'[t] = "work"
      /\ Sleepers' = Sleepers \ {t} /\ InLoop' = InLoop \cup {t}
      /\ \A u \in Threads \ {t} :
            pc'[u] = pc[u] \/ (u = Master /\ pc[u] = "asleep" /\ pc'[u] = "woken")
    BY <1>1, Places1 DEF Places
<1>7. pc'[Master] # "out" /\ pc'[Master] # "asleep"
    <2>1. pc[Master] # "asleep" BY <1>1 DEF IInv, Waiting
    <2> QED BY <1>5, <1>6, <2>1, FiniteThreads
<1>8. batch' \in [Threads -> SUBSET Checks] /\ batch'[t] = B
      /\ \A u \in Threads \ {t} : batch'[u] = batch[u]
    BY <1>2 DEF IInv, Types
<1>9. Unfinished' = Unfinished \ batch[t]
    <2>1. ASSUME NEW c PROVE c \in Unfinished' <=> c \in Unfinished \ batch[t]
        <3>1. c \in Unfinished' <=> c \in queue' \/ \E u \in Threads : c \in batch'[u]
            BY MembersPrime
        <3>2. c \in Unfinished <=> c \in queue \/ \E u \in Threads : c \in batch[u]
            BY Members
        <3> QED BY <3>1, <3>2, <1>2, <1>8 DEF IInv, TodoExact
    <2> QED BY <2>1
<1>10. Types'
    <2>1. AllOk(t) \in BOOLEAN /\ Todo(t) \in Nat /\ Idle(t) \in Nat /\ Total(t) \in Nat
        BY <1>1, Cleanup
    <2>2. fAllOk' \in BOOLEAN /\ nTodo' \in Int /\ nIdle' \in Int /\ nTotal' \in Int
        BY <1>4, <2>1
    <2>3. fOk' \in [Threads -> BOOLEAN] BY <1>4, <2>1 DEF IInv, Types
    <2>4. queue' \in SUBSET Checks BY <1>2 DEF IInv, Types
    <2> QED BY <1>4, <1>6, <1>8, <2>2, <2>3, <2>4 DEF IInv, Types
<1>11. Counts' BY <1>1, <1>4, <1>6, Cleanup DEF Counts
<1>12. TodoExact'
    <2>1. nTodo' = Cardinality(Unfinished') BY <1>1, <1>4, <1>9, Cleanup
    <2>2. \A u \in Threads : batch'[u] \cap queue' = {}
        BY <1>2, <1>8 DEF IInv, TodoExact
    <2>3. \A u, v \in Threads : u # v => batch'[u] \cap batch'[v] = {}
        BY <1>2, <1>8 DEF IInv, TodoExact
    <2> QED BY <2>1, <2>2, <2>3 DEF TodoExact
<1>13. Held' BY <1>3, <1>6, <1>8 DEF IInv, Held
<1>14. Pooled' BY <1>6, PoolAssumption DEF IInv, Pooled, Threads
<1>15. Stopping' BY <1>1, <1>4 DEF IInv, Stopping
<1>16. Waiting' BY <1>7 DEF Waiting
<1>17. Verdict'
    <2>1. Unfinished' \subseteq added' BY <1>4, <1>9 DEF IInv, Verdict
    <2>2. /\ fAllOk' => added' \ Unfinished' \subseteq Good
          /\ ~fAllOk' => ~(added' \subseteq Good)
        BY <1>1, <1>4, <1>5, <1>9, Judged
    <2>3. ASSUME NEW u \in Threads
          PROVE /\ pc'[u] \in {"work", "enter"} /\ ~fOk'[u] => ~(added' \subseteq Good)
                /\ pc'[u] = "enter" /\ fOk'[u] => batch'[u] \subseteq Good
        <3>1. CASE u = t
            <4>1. fOk'[t] = AllOk(t) BY <1>4 DEF IInv, Types
            <4> QED BY <3>1, <4>1, <1>1, <1>4, <1>5, <1>6, Judged
        <3>2. CASE u # t
            <4>1. fOk'[u] = fOk[u] /\ batch'[u] = batch[u] /\ added' = added
                BY <3>2, <1>4, <1>8 DEF IInv, Types
            <4>2. pc'[u] \in {"work", "enter"} => pc'[u] = pc[u] BY <3>2, <1>6
            <4> QED BY <4>1, <4>2 DEF IInv, Verdict
        <3> QED BY <3>1, <3>2
    <2> QED BY <2>1, <2>2, <2>3 DEF Verdict
<1>18. NothingLeft' /\ ResultRight' BY <1>7 DEF NothingLeft, ResultRight
<1> QED BY <1>10, <1>11, <1>12, <1>13, <1>14, <1>15, <1>16, <1>17, <1>18 DEF IInv

(* Sleep and Exit leave the loop's work to others; the old batch is        *)
(* accounted for.                                                          *)
LEMMA RestKeeps ==
    ASSUME IInv, NEW t \in Threads, AtLock(t), NEW place \in {"asleep", "done"},
           pc' = Moved(t, place),
           batch' = [batch EXCEPT ![t] = {}], fAllOk' = AllOk(t),
           nTodo' = Todo(t), nTotal' = Total(t),
           nIdle' = IF place = "asleep" THEN Idle(t) + 1 ELSE Idle(t),
           UNCHANGED <<queue, request, fOk, stopper, added, result>>,
           t = Master => place = "asleep" /\ Todo(t) # 0,
           pc[Master] # "out" => queue = {}
    PROVE  IInv'
<1>1. /\ pc' \in [Threads -> Places] /\ pc'[t] = place
      /\ place = "asleep" => Sleepers' = (Sleepers \ {t}) \cup {t}
      /\ place = "done" => Sleepers' = Sleepers \ {t}
      /\ InLoop' = InLoop \cup {t}
      /\ \A u \in Threads \ {t} :
            pc'[u] = pc[u] \/ (u = Master /\ pc[u] = "asleep" /\ pc'[u] = "woken")
    BY Places1 DEF Places
<1>2. /\ batch' \in [Threads -> SUBSET Checks] /\ batch'[t] = {}
      /\ \A u \in Threads \ {t} : batch'[u] = batch[u]
    BY DEF IInv, Types
<1>3. Unfinished' = Unfinished \ batch[t]
    <2>1. ASSUME NEW c PROVE c \in Unfinished' <=> c \in Unfinished \ batch[t]
        <3>1. c \in Unfinished' <=> c \in queue' \/ \E u \in Threads : c \in batch'[u]
            BY MembersPrime
        <3>2. c \in Unfinished <=> c \in queue \/ \E u \in Threads : c \in batch[u]
            BY Members
        <3> QED BY <3>1, <3>2, <1>2 DEF IInv, TodoExact
    <2> QED BY <2>1
<1>4. AllOk(t) \in BOOLEAN /\ Todo(t) \in Nat /\ Idle(t) \in Nat /\ Total(t) \in Nat
    BY Cleanup
<1>5. Types'
    <2>1. fAllOk' \in BOOLEAN /\ nTodo' \in Int /\ nIdle' \in Int /\ nTotal' \in Int
        BY <1>4
    <2> QED BY <1>1, <1>2, <2>1 DEF IInv, Types
<1>6. Counts'
    <2>1. nTotal' = Cardinality(InLoop') BY <1>1, Cleanup
    <2>2. CASE place = "done" BY <2>1, <2>2, <1>1, Cleanup DEF Counts
    <2>3. CASE place = "asleep"
        <3>1. IsFiniteSet(Sleepers \ {t}) BY Finite, FS_RemoveElement
        <3>2. Cardinality((Sleepers \ {t}) \cup {t}) = Cardinality(Sleepers \ {t}) + 1
            BY <3>1, FS_AddElement
        <3>3. nIdle' = Cardinality(Sleepers \ {t}) + 1 BY <2>3, Cleanup
        <3> QED BY <2>1, <2>3, <1>1, <3>2, <3>3 DEF Counts
    <2> QED BY <2>2, <2>3
<1>7. TodoExact'
    <2>1. nTodo' = Cardinality(Unfinished') BY <1>3, Cleanup
    <2>2. \A u \in Threads : batch'[u] \cap queue' = {} BY <1>2 DEF IInv, TodoExact
    <2>3. \A u, v \in Threads : u # v => batch'[u] \cap batch'[v] = {}
        BY <1>2 DEF IInv, TodoExact
    <2> QED BY <2>1, <2>2, <2>3 DEF TodoExact
<1>8. Held' BY <1>1, <1>2 DEF IInv, Held
<1>9. Pooled' BY <1>1, PoolAssumption DEF IInv, Pooled, Threads
<1>10. pc'[Master] = "out" <=> pc[Master] = "out"
    <2>1. CASE t = Master BY <2>1, <1>1 DEF AtLock
    <2>2. CASE t # Master BY <2>2, <1>1, FiniteThreads
    <2> QED BY <2>1, <2>2
<1>11. Stopping' BY <1>10 DEF IInv, Stopping
<1>12. Waiting'
    <2> SUFFICES ASSUME pc'[Master] = "asleep" PROVE queue' = {} /\ nTodo' # 0
        BY DEF Waiting
    <2>1. queue' = {} BY <1>10
    <2>2. CASE t = Master BY <2>1, <2>2
    <2>3. CASE t # Master
        <3>1. pc[Master] = "asleep" /\ ~(pc[t] = "enter" /\ Todo(t) = 0)
            BY <2>3, FiniteThreads DEF Moved
        <3>2. pc[t] # "enter" => Todo(t) = nTodo BY DEF Todo
        <3>3. nTodo # 0 BY <3>1 DEF IInv, Waiting
        <3> QED BY <2>1, <3>1, <3>2, <3>3
    <2> QED BY <2>2, <2>3
<1>13. Verdict'
    <2>1. Unfinished' \subseteq added' BY <1>3 DEF IInv, Verdict
    <2>2. pc'[Master] # "out" =>
            /\ fAllOk' => added' \ Unfinished' \subseteq Good
            /\ ~fAllOk' => ~(added' \subseteq Good)
        BY <1>3, <1>10, Judged
    <2>3. ASSUME NEW u \in Threads
          PROVE /\ pc'[u] \in {"work", "enter"} /\ ~fOk'[u] => ~(added' \subseteq Good)
                /\ pc'[u] = "enter" /\ fOk'[u] => batch'[u] \subseteq Good
        <3>1. CASE u = t BY <3>1, <1>1
        <3>2. CASE u # t
            <4>1. batch'[u] = batch[u] BY <3>2, <1>2
            <4>2. pc'[u] \in {"work", "enter"} => pc'[u] = pc[u] BY <3>2, <1>1
            <4> QED BY <4>1, <4>2 DEF IInv, Verdict
        <3> QED BY <3>1, <3>2
    <2> QED BY <2>1, <2>2, <2>3 DEF Verdict
<1>14. NothingLeft'
    <2> SUFFICES ASSUME pc'[Master] = "out"
                 PROVE Unfinished' = {} /\ nTodo' = 0 /\ fAllOk'
        BY DEF NothingLeft
    <2>1. Unfinished = {} /\ nTodo = 0 /\ fAllOk BY <1>10 DEF IInv, NothingLeft
    <2>2. batch[t] = {} BY <2>1, Members
    <2>3. pc[t] # "enter" BY <2>2 DEF IInv, Held
    <2> QED BY <1>3, <2>1, <2>3 DEF Todo, AllOk
<1>15. ResultRight' BY <1>10 DEF IInv, ResultRight
<1> QED BY <1>5, <1>6, <1>7, <1>8, <1>9, <1>11, <1>12, <1>13, <1>14, <1>15 DEF IInv

(* The master returns: all checks of its control are accounted for.        *)
LEMMA ReturnKeeps ==
    ASSUME IInv, Return
    PROVE  IInv'
<1>0. Master \in Threads BY FiniteThreads
<1>1. /\ AtLock(Master) /\ ~request /\ queue = {} /\ Todo(Master) = 0
      /\ batch' = [batch EXCEPT ![Master] = {}]
      /\ result' = AllOk(Master) /\ fAllOk' = TRUE
      /\ nTodo' = Todo(Master) /\ nTotal' = Total(Master) - 1 /\ nIdle' = Idle(Master)
      /\ pc' = [pc EXCEPT ![Master] = "out"]
      /\ UNCHANGED <<queue, request, fOk, stopper, added>>
    BY DEF Return
<1>2. /\ pc' \in [Threads -> Places] /\ pc'[Master] = "out" /\ pc[Master] # "out"
      /\ \A u \in Threads \ {Master} : pc'[u] = pc[u]
    BY <1>0, <1>1 DEF IInv, Types, Places, AtLock
<1>3. /\ batch' \in [Threads -> SUBSET Checks] /\ batch'[Master] = {}
      /\ \A u \in Threads \ {Master} : batch'[u] = batch[u]
    BY <1>0, <1>1 DEF IInv, Types
<1>4. Unfinished \ batch[Master] = {}
    BY <1>0, <1>1, Cleanup, FS_EmptySet
<1>5. Unfinished' = {}
    <2>1. ASSUME NEW c PROVE c \notin Unfinished'
        <3>1. c \in Unfinished' <=> c \in queue' \/ \E u \in Threads : c \in batch'[u]
            BY MembersPrime
        <3>2. c \in Unfinished <=> c \in queue \/ \E u \in Threads : c \in batch[u]
            BY Members
        <3> QED BY <3>1, <3>2, <1>0, <1>1, <1>3, <1>4 DEF IInv, TodoExact
    <2> QED BY <2>1
<1>6. AllOk(Master) \in BOOLEAN /\ Idle(Master) \in Nat /\ Total(Master) \in Nat
    BY <1>0, <1>1, Cleanup
<1>7. Types'
    <2>1. result' \in BOOLEAN /\ nTodo' \in Int /\ nIdle' \in Int /\ nTotal' \in Int
        BY <1>1, <1>6
    <2> QED BY <1>1, <1>2, <1>3, <2>1 DEF IInv, Types
<1>8. Counts'
    <2>1. Sleepers' = Sleepers \ {Master} BY <1>0, <1>2 DEF Sleepers
    <2>2. InLoop' = (InLoop \cup {Master}) \ {Master} BY <1>0, <1>2 DEF InLoop
    <2>3. IsFiniteSet(InLoop \cup {Master}) BY Finite, FS_AddElement
    <2>4. Cardinality(InLoop') = Cardinality(InLoop \cup {Master}) - 1
        BY <2>2, <2>3, FS_RemoveElement
    <2>5. nTotal' = Cardinality(InLoop') BY <1>0, <1>1, <2>4, Cleanup
    <2>6. nIdle' = Cardinality(Sleepers') BY <1>0, <1>1, <2>1, Cleanup
    <2> QED BY <2>5, <2>6 DEF Counts
<1>9. TodoExact'
    <2>1. nTodo' = Cardinality(Unfinished') BY <1>1, <1>5, FS_EmptySet
    <2>2. \A u \in Threads : batch'[u] \cap queue' = {} BY <1>1
    <2>3. \A u, v \in Threads : u # v => batch'[u] \cap batch'[v] = {}
        BY <1>3 DEF IInv, TodoExact
    <2> QED BY <2>1, <2>2, <2>3 DEF TodoExact
<1>10. Held' BY <1>2, <1>3 DEF IInv, Held
<1>11. Pooled' BY <1>2, PoolAssumption DEF IInv, Pooled, Threads
<1>12. Stopping' /\ Waiting' BY <1>1, <1>2 DEF IInv, Stopping, Waiting
<1>13. Verdict'
    <2>1. ASSUME NEW u \in Threads
          PROVE /\ pc'[u] \in {"work", "enter"} /\ ~fOk'[u] => ~(added' \subseteq Good)
                /\ pc'[u] = "enter" /\ fOk'[u] => batch'[u] \subseteq Good
        <3>1. CASE u = Master BY <3>1, <1>2
        <3>2. CASE u # Master BY <3>2, <1>1, <1>2, <1>3 DEF IInv, Verdict
        <3> QED BY <3>1, <3>2
    <2> QED BY <2>1, <1>2, <1>5 DEF Verdict
<1>14. NothingLeft' BY <1>1, <1>5 DEF NothingLeft
<1>15. ResultRight'
    <2>1. /\ AllOk(Master) => added \ (Unfinished \ batch[Master]) \subseteq Good
          /\ ~AllOk(Master) => ~(added \subseteq Good)
        BY <1>0, <1>1, <1>2, Judged
    <2>2. AllOk(Master) = (added \subseteq Good) BY <1>4, <1>6, <2>1
    <2> QED BY <1>1, <2>2 DEF ResultRight
<1> QED BY <1>7, <1>8, <1>9, <1>10, <1>11, <1>12, <1>13, <1>14, <1>15 DEF IInv

(* A step that moves no check and no counter, only threads: it keeps the   *)
(* sleepers, the members of the loop and who is about to account.          *)
LEMMA MoveKeeps ==
    ASSUME IInv, UNCHANGED <<queue, nIdle, nTotal, nTodo, fAllOk, batch>>,
           pc' \in [Threads -> Places], fOk' \in [Threads -> BOOLEAN],
           request' \in BOOLEAN, stopper' \in {"idle", "notify", "join"},
           added' \in SUBSET Checks, result' \in BOOLEAN,
           \A t \in Threads :
              /\ pc'[t] \in {"asleep", "woken"} <=> pc[t] \in {"asleep", "woken"}
              /\ pc'[t] \in {"enter", "work"} <=> pc[t] \in {"enter", "work"}
              /\ pc'[t] = "done" <=> pc[t] = "done"
              /\ pc'[t] = "asleep" => pc[t] = "asleep"
    PROVE  Types' /\ Counts' /\ TodoExact' /\ Held' /\ Waiting' /\ Unfinished' = Unfinished
<1>1. Unfinished' = Unfinished BY DEF Unfinished
<1>2. Sleepers' = Sleepers BY DEF Sleepers
<1>3. InLoop' = InLoop BY DEF InLoop
<1>4. Types' BY DEF IInv, Types
<1>5. Counts' BY <1>2, <1>3 DEF IInv, Counts
<1>6. TodoExact' BY <1>1 DEF IInv, TodoExact
<1>7. Held' BY DEF IInv, Held
<1>8. Waiting' BY FiniteThreads DEF IInv, Waiting
<1> QED BY <1>1, <1>4, <1>5, <1>6, <1>7, <1>8

(* Work: the batch is judged, not yet accounted for.                       *)
LEMMA WorkKeeps ==
    ASSUME IInv, NEW t \in Threads, Work(t)
    PROVE  IInv'
<1>1. /\ pc[t] = "work" /\ pc' = [pc EXCEPT ![t] = "enter"]
      /\ fOk' = [fOk EXCEPT ![t] = @ /\ batch[t] \subseteq Good]
      /\ UNCHANGED <<queue, nIdle, nTotal, nTodo, fAllOk, request, batch, stopper, added, result>>
    BY DEF Work, counters
<1>2. /\ pc' \in [Threads -> Places] /\ pc'[t] = "enter"
      /\ \A u \in Threads \ {t} : pc'[u] = pc[u]
    BY <1>1 DEF IInv, Types, Places
<1>3. /\ fOk' \in [Threads -> BOOLEAN] /\ fOk'[t] = (fOk[t] /\ batch[t] \subseteq Good)
      /\ \A u \in Threads \ {t} : fOk'[u] = fOk[u]
    BY <1>1 DEF IInv, Types
<1>4. Types' /\ Counts' /\ TodoExact' /\ Held' /\ Waiting' /\ Unfinished' = Unfinished
    <2>1. /\ request' \in BOOLEAN /\ stopper' \in {"idle", "notify", "join"}
          /\ added' \in SUBSET Checks /\ result' \in BOOLEAN
        BY <1>1 DEF IInv, Types
    <2> QED BY <1>1, <1>2, <1>3, <2>1, MoveKeeps
<1>5. pc'[Master] = "out" <=> pc[Master] = "out" BY <1>1, <1>2, FiniteThreads
<1>6. Pooled' /\ Stopping' BY <1>1, <1>2, <1>5 DEF IInv, Pooled, Stopping, Threads
<1>7. Verdict'
    <2>1. batch[t] \subseteq added BY Members DEF IInv, Verdict
    <2>2. ASSUME NEW u \in Threads
          PROVE /\ pc'[u] \in {"work", "enter"} /\ ~fOk'[u] => ~(added' \subseteq Good)
                /\ pc'[u] = "enter" /\ fOk'[u] => batch'[u] \subseteq Good
        <3>1. CASE u = t
            <4>1. ~fOk[t] => ~(added \subseteq Good) BY <1>1 DEF IInv, Verdict
            <4> QED BY <3>1, <4>1, <2>1, <1>1, <1>3
        <3>2. CASE u # t BY <3>2, <1>1, <1>2, <1>3 DEF IInv, Verdict
        <3> QED BY <3>1, <3>2
    <2> QED BY <2>2, <1>1, <1>4, <1>5 DEF IInv, Verdict
<1>8. NothingLeft' /\ ResultRight' BY <1>1, <1>4, <1>5 DEF IInv, NothingLeft, ResultRight
<1> QED BY <1>4, <1>6, <1>7, <1>8 DEF IInv

(* The steps that only wake threads.                                       *)
LEMMA WakeKeeps ==
    ASSUME IInv, UNCHANGED <<queue, counters, request, batch, fOk, added, result>>,
           pc' \in [Threads -> Places],
           stopper' \in {"idle", "notify", "join"}, stopper' # "idle" <=> stopper # "idle",
           \A t \in Threads :
              \/ pc'[t] = pc[t]
              \/ pc[t] = "asleep" /\ pc'[t] = "woken"
              \/ t = Master /\ pc[t] \in {"one", "all"} /\ pc'[t] = "add"
    PROVE  IInv'
<1>1. Types' /\ Counts' /\ TodoExact' /\ Held' /\ Waiting' /\ Unfinished' = Unfinished
    <2>1. /\ request' \in BOOLEAN /\ fOk' \in [Threads -> BOOLEAN]
          /\ added' \in SUBSET Checks /\ result' \in BOOLEAN
        BY DEF IInv, Types
    <2>2. \A t \in Threads :
              /\ pc'[t] \in {"asleep", "woken"} <=> pc[t] \in {"asleep", "woken"}
              /\ pc'[t] \in {"enter", "work"} <=> pc[t] \in {"enter", "work"}
              /\ pc'[t] = "done" <=> pc[t] = "done"
              /\ pc'[t] = "asleep" => pc[t] = "asleep"
        OBVIOUS
    <2> QED BY <2>1, <2>2, MoveKeeps DEF counters
<1>2. pc'[Master] = "out" <=> pc[Master] = "out" BY FiniteThreads
<1>3. Pooled' BY PoolAssumption DEF IInv, Pooled, Threads
<1>4. Stopping' BY <1>2 DEF IInv, Stopping
<1>5. Verdict'
    <2>1. \A t \in Threads : pc'[t] \in {"work", "enter"} => pc'[t] = pc[t] OBVIOUS
    <2> QED BY <1>1, <1>2, <2>1 DEF IInv, Verdict, counters
<1>6. NothingLeft' /\ ResultRight'
    BY <1>1, <1>2 DEF IInv, NothingLeft, ResultRight, counters
<1> QED BY <1>1, <1>3, <1>4, <1>5, <1>6 DEF IInv

(* StartWorkerThreads finds nothing to do.                                 *)
LEMMA StartKeeps ==
    ASSUME IInv, Start
    PROVE  IInv'
<1>0. Master \in Threads BY FiniteThreads
<1>1. /\ stopper = "idle" /\ pc[Master] = "out"
      /\ nIdle' = 0 /\ nTotal' = 0 /\ fAllOk' = TRUE
      /\ pc' = [t \in Threads |-> IF t \in Workers THEN "start" ELSE pc[t]]
      /\ fOk' = [t \in Threads |-> TRUE]
      /\ UNCHANGED <<queue, nTodo, request, batch, stopper, added, result>>
    BY DEF Start
<1>2. Unfinished = {} /\ nTodo = 0 BY <1>1 DEF IInv, NothingLeft
<1>3. Unfinished' = {} BY <1>1, <1>2 DEF Unfinished
<1>4. \A t \in Threads : batch[t] = {} BY <1>2, Members
<1>5. /\ pc' \in [Threads -> Places] /\ pc'[Master] = "out"
      /\ \A t \in Threads : pc'[t] \in {"out", "start"}
    BY <1>0, <1>1, PoolAssumption DEF Threads, Places
<1>6. Types' BY <1>1, <1>5 DEF IInv, Types
<1>7. Counts'
    <2>1. Sleepers' = {} /\ InLoop' = {} BY <1>5 DEF Sleepers, InLoop
    <2> QED BY <1>1, <2>1, FS_EmptySet DEF Counts
<1>8. TodoExact'
    <2>1. nTodo' = Cardinality(Unfinished') BY <1>1, <1>2, <1>3, FS_EmptySet
    <2> QED BY <2>1, <1>1 DEF IInv, TodoExact
<1>9. Held' /\ Pooled' /\ Stopping' /\ Waiting'
    BY <1>1, <1>4, <1>5 DEF IInv, Held, Pooled, Stopping, Waiting, Threads
<1>10. Verdict' BY <1>3, <1>5 DEF Verdict
<1>11. NothingLeft' /\ ResultRight'
    BY <1>1, <1>2, <1>3 DEF IInv, NothingLeft, ResultRight
<1> QED BY <1>6, <1>7, <1>8, <1>9, <1>10, <1>11 DEF IInv

(* The stop flag is set and cleared while no control is open.              *)
LEMMA FlagKeeps ==
    ASSUME IInv, RequestStop \/ Join
    PROVE  IInv'
<1>1. /\ UNCHANGED <<queue, nIdle, nTotal, nTodo, fAllOk, pc, batch, fOk, added, result>>
      /\ request' \in BOOLEAN /\ stopper' \in {"idle", "notify", "join"}
      /\ request' <=> stopper' # "idle"
      /\ request' => pc[Master] = "out"
    BY DEF RequestStop, Join, counters
<1>2. Types' /\ Counts' /\ TodoExact' /\ Held' /\ Waiting' /\ Unfinished' = Unfinished
    <2>1. /\ pc' \in [Threads -> Places] /\ fOk' \in [Threads -> BOOLEAN]
          /\ added' \in SUBSET Checks /\ result' \in BOOLEAN
        BY <1>1 DEF IInv, Types
    <2> QED BY <1>1, <2>1, MoveKeeps
<1>3. Pooled' /\ Stopping' /\ Verdict' /\ NothingLeft' /\ ResultRight'
    BY <1>1, <1>2 DEF IInv, Pooled, Stopping, Verdict, NothingLeft, ResultRight
<1> QED BY <1>2, <1>3 DEF IInv

(* A new control starts from a clean queue.                                *)
LEMMA ControlKeeps ==
    ASSUME IInv, Control
    PROVE  IInv'
<1>0. Master \in Threads BY FiniteThreads
<1>1. /\ stopper = "idle" /\ pc[Master] = "out"
      /\ pc' = [pc EXCEPT ![Master] = "add"] /\ added' = {}
      /\ UNCHANGED <<queue, nIdle, nTotal, nTodo, fAllOk, request, batch, fOk, stopper, result>>
    BY DEF Control, Running, counters
<1>2. /\ pc' \in [Threads -> Places] /\ pc'[Master] = "add"
      /\ \A t \in Threads \ {Master} : pc'[t] = pc[t]
    BY <1>0, <1>1 DEF IInv, Types, Places
<1>3. Types' /\ Counts' /\ TodoExact' /\ Held' /\ Waiting' /\ Unfinished' = Unfinished
    <2>1. /\ request' \in BOOLEAN /\ stopper' \in {"idle", "notify", "join"}
          /\ fOk' \in [Threads -> BOOLEAN] /\ added' \in SUBSET Checks /\ result' \in BOOLEAN
        BY <1>1 DEF IInv, Types
    <2>2. \A t \in Threads :
              /\ pc'[t] \in {"asleep", "woken"} <=> pc[t] \in {"asleep", "woken"}
              /\ pc'[t] \in {"enter", "work"} <=> pc[t] \in {"enter", "work"}
              /\ pc'[t] = "done" <=> pc[t] = "done"
              /\ pc'[t] = "asleep" => pc[t] = "asleep"
        BY <1>1, <1>2
    <2> QED BY <1>1, <1>2, <2>1, <2>2, MoveKeeps
<1>4. Unfinished = {} /\ fAllOk BY <1>1 DEF IInv, NothingLeft
<1>5. \A t \in Threads : pc'[t] \notin {"work", "enter"}
    BY <1>1, <1>3, <1>4, Members DEF Held
<1>6. Pooled' /\ Stopping'
    BY <1>1, <1>2, PoolAssumption DEF IInv, Pooled, Stopping, Threads
<1>7. Verdict' BY <1>1, <1>3, <1>4, <1>5 DEF Verdict
<1>8. NothingLeft' /\ ResultRight' BY <1>2 DEF NothingLeft, ResultRight
<1> QED BY <1>3, <1>6, <1>7, <1>8 DEF IInv

(* The master starts to wait.                                              *)
LEMMA WaitKeeps ==
    ASSUME IInv, Wait
    PROVE  IInv'
<1>0. Master \in Threads BY FiniteThreads
<1>1. /\ pc[Master] = "add" /\ pc' = [pc EXCEPT ![Master] = "start"]
      /\ fOk' = [fOk EXCEPT ![Master] = TRUE]
      /\ UNCHANGED <<queue, nIdle, nTotal, nTodo, fAllOk, request, batch, stopper, added, result>>
    BY DEF Wait, counters
<1>2. /\ pc' \in [Threads -> Places] /\ pc'[Master] = "start"
      /\ \A t \in Threads \ {Master} : pc'[t] = pc[t]
    BY <1>0, <1>1 DEF IInv, Types, Places
<1>3. fOk' \in [Threads -> BOOLEAN] /\ \A t \in Threads \ {Master} : fOk'[t] = fOk[t]
    BY <1>0, <1>1 DEF IInv, Types
<1>4. Types' /\ Counts' /\ TodoExact' /\ Held' /\ Waiting' /\ Unfinished' = Unfinished
    <2>1. /\ request' \in BOOLEAN /\ stopper' \in {"idle", "notify", "join"}
          /\ added' \in SUBSET Checks /\ result' \in BOOLEAN
        BY <1>1 DEF IInv, Types
    <2>2. \A t \in Threads :
              /\ pc'[t] \in {"asleep", "woken"} <=> pc[t] \in {"asleep", "woken"}
              /\ pc'[t] \in {"enter", "work"} <=> pc[t] \in {"enter", "work"}
              /\ pc'[t] = "done" <=> pc[t] = "done"
              /\ pc'[t] = "asleep" => pc[t] = "asleep"
        BY <1>1, <1>2
    <2> QED BY <1>1, <1>2, <1>3, <2>1, <2>2, MoveKeeps
<1>5. Pooled' /\ Stopping'
    BY <1>1, <1>2, PoolAssumption DEF IInv, Pooled, Stopping, Threads
<1>6. Verdict'
    <2>1. ASSUME NEW u \in Threads
          PROVE /\ pc'[u] \in {"work", "enter"} /\ ~fOk'[u] => ~(added' \subseteq Good)
                /\ pc'[u] = "enter" /\ fOk'[u] => batch'[u] \subseteq Good
        <3>1. CASE u = Master BY <3>1, <1>2
        <3>2. CASE u # Master BY <3>2, <1>1, <1>2, <1>3 DEF IInv, Verdict
        <3> QED BY <3>1, <3>2
    <2> QED BY <2>1, <1>1, <1>4 DEF IInv, Verdict
<1>7. NothingLeft' /\ ResultRight' BY <1>2 DEF NothingLeft, ResultRight
<1> QED BY <1>4, <1>5, <1>6, <1>7 DEF IInv

(* Add: new checks, counted once.                                          *)
LEMMA AddKeeps ==
    ASSUME IInv, NEW S \in SUBSET Checks, Add(S)
    PROVE  IInv'
<1>0. Master \in Threads BY FiniteThreads
<1>1. /\ pc[Master] = "add" /\ S \cap added = {}
      /\ queue' = queue \cup S /\ nTodo' = nTodo + Cardinality(S)
      /\ added' = added \cup S
      /\ pc' = [pc EXCEPT ![Master] = IF Cardinality(S) = 1 THEN "one" ELSE "all"]
      /\ UNCHANGED <<nIdle, nTotal, fAllOk, request, batch, fOk, stopper, result>>
    BY DEF Add
<1>2. /\ pc' \in [Threads -> Places] /\ pc'[Master] \in {"one", "all"}
      /\ \A t \in Threads \ {Master} : pc'[t] = pc[t]
    BY <1>0, <1>1 DEF IInv, Types, Places
<1>3. Unfinished' = Unfinished \cup S
    <2>1. ASSUME NEW c PROVE c \in Unfinished' <=> c \in Unfinished \cup S
        BY <1>1, Members, MembersPrime
    <2> QED BY <2>1
<1>4. Unfinished \cap S = {} BY <1>1 DEF IInv, Verdict
<1>5. IsFiniteSet(S) /\ Cardinality(S) \in Nat
    BY PoolAssumption, FS_Subset, FS_CardinalityType
<1>6. Types'
    <2>1. nTodo' \in Int BY <1>1, <1>5, Finite
    <2> QED BY <1>1, <1>2, <2>1 DEF IInv, Types
<1>7. Counts'
    <2>1. Sleepers' = Sleepers BY <1>1, <1>2 DEF Sleepers
    <2>2. InLoop' = InLoop BY <1>1, <1>2 DEF InLoop
    <2> QED BY <1>1, <2>1, <2>2 DEF IInv, Counts
<1>8. TodoExact'
    <2>1. Cardinality(Unfinished \cup S) =
            Cardinality(Unfinished) + Cardinality(S) - Cardinality(Unfinished \cap S)
        BY <1>5, Finite, FS_Union
    <2>2. Cardinality(Unfinished \cap S) = 0 BY <1>4, FS_EmptySet
    <2>3. nTodo = Cardinality(Unfinished) /\ nTodo \in Nat BY Finite DEF IInv, TodoExact
    <2>4. nTodo' = Cardinality(Unfinished') BY <1>1, <1>3, <1>5, <2>1, <2>2, <2>3
    <2>5. \A t \in Threads : batch'[t] \cap queue' = {}
        BY <1>1, <1>4, Members DEF IInv, TodoExact
    <2> QED BY <1>1, <2>4, <2>5 DEF IInv, TodoExact
<1>9. Held' BY <1>1, <1>2 DEF IInv, Held
<1>10. Pooled' /\ Stopping' /\ Waiting'
    BY <1>1, <1>2, PoolAssumption DEF IInv, Pooled, Stopping, Waiting, Threads
<1>11. Verdict'
    <2>1. ASSUME NEW u \in Threads
          PROVE /\ pc'[u] \in {"work", "enter"} /\ ~fOk'[u] => ~(added' \subseteq Good)
                /\ pc'[u] = "enter" /\ fOk'[u] => batch'[u] \subseteq Good
        <3>1. CASE u = Master BY <3>1, <1>2
        <3>2. CASE u # Master BY <3>2, <1>1, <1>2 DEF IInv, Verdict
        <3> QED BY <3>1, <3>2
    <2>2. /\ Unfinished' \subseteq added'
          /\ fAllOk' => added' \ Unfinished' \subseteq Good
          /\ ~fAllOk' => ~(added' \subseteq Good)
        BY <1>1, <1>3 DEF IInv, Verdict
    <2> QED BY <2>1, <2>2 DEF Verdict
<1>12. NothingLeft' /\ ResultRight' BY <1>2 DEF NothingLeft, ResultRight
<1> QED BY <1>6, <1>7, <1>8, <1>9, <1>10, <1>11, <1>12 DEF IInv

(* The queue starts empty and idle.                                        *)
LEMMA InitHolds == Init => IInv
<1> SUFFICES ASSUME Init PROVE IInv OBVIOUS
<1>1. Unfinished = {} BY DEF Init, Unfinished
<1>2. Sleepers = {} /\ InLoop = {} BY DEF Init, Sleepers, InLoop
<1>3. \A t \in Threads : pc[t] = "out" /\ batch[t] = {} BY DEF Init
<1>4. Types
    <2>1. /\ pc \in [Threads -> Places] /\ batch \in [Threads -> SUBSET Checks]
          /\ fOk \in [Threads -> BOOLEAN]
        BY DEF Init, Places
    <2>2. queue \in SUBSET Checks /\ added \in SUBSET Checks BY DEF Init
    <2>3. fAllOk \in BOOLEAN /\ request \in BOOLEAN /\ result \in BOOLEAN BY DEF Init
    <2>4. nIdle \in Int /\ nTotal \in Int /\ nTodo \in Int BY DEF Init
    <2>5. stopper \in {"idle", "notify", "join"} BY DEF Init
    <2> QED BY <2>1, <2>2, <2>3, <2>4, <2>5 DEF Types
<1>5. Counts BY <1>2, FS_EmptySet DEF Init, Counts
<1>6. TodoExact BY <1>1, <1>3, FS_EmptySet DEF Init, TodoExact
<1>7. Held /\ Pooled /\ Stopping /\ Waiting
    BY <1>3, FiniteThreads DEF Init, Held, Pooled, Stopping, Waiting, Threads
<1>8. Verdict BY <1>1, <1>3, FiniteThreads DEF Verdict
<1>9. NothingLeft /\ ResultRight BY <1>1 DEF Init, NothingLeft, ResultRight
<1> QED BY <1>4, <1>5, <1>6, <1>7, <1>8, <1>9 DEF IInv

(* Every step of a worker or of the master keeps the inductive invariant.  *)
LEMMA NextKeeps == IInv /\ [Next]_vars => IInv'
<1> SUFFICES ASSUME IInv, [Next]_vars PROVE IInv' OBVIOUS
<1>0. Master \in Threads BY FiniteThreads
<1>1. CASE Start BY <1>1, StartKeeps
<1>2. CASE RequestStop \/ Join BY <1>2, FlagKeeps
<1>3. CASE NotifyStop
    <2>1. /\ pc' = NotifyAll /\ stopper = "notify" /\ stopper' = "join"
          /\ UNCHANGED <<queue, counters, request, batch, fOk, added, result>>
        BY <1>3 DEF NotifyStop
    <2>2. /\ pc' \in [Threads -> Places]
          /\ \A t \in Threads : pc'[t] = pc[t] \/ (pc[t] = "asleep" /\ pc'[t] = "woken")
        BY <2>1 DEF NotifyAll, IInv, Types, Places
    <2> QED BY <2>1, <2>2, WakeKeeps
<1>4. CASE Control BY <1>4, ControlKeeps
<1>5. ASSUME NEW S \in SUBSET Checks, Add(S) PROVE IInv' BY <1>5, AddKeeps
<1>6. CASE NotifyOne
    <2>1. PICK w \in Workers :
            pc' = [pc EXCEPT ![Master] = "add", ![w] = IF @ = "asleep" THEN "woken" ELSE @]
        BY <1>6 DEF NotifyOne
    <2>2. /\ pc[Master] = "one"
          /\ UNCHANGED <<queue, counters, request, batch, fOk, stopper, added, result>>
        BY <1>6 DEF NotifyOne
    <2>3. w \in Threads /\ w # Master BY PoolAssumption DEF Threads
    <2>4. /\ pc' \in [Threads -> Places]
          /\ \A t \in Threads : \/ pc'[t] = pc[t]
                                \/ pc[t] = "asleep" /\ pc'[t] = "woken"
                                \/ t = Master /\ pc[t] \in {"one", "all"} /\ pc'[t] = "add"
        BY <1>0, <2>1, <2>2, <2>3 DEF IInv, Types, Places
    <2> QED BY <2>2, <2>4, WakeKeeps DEF IInv, Types
<1>7. CASE NotifyEach
    <2>1. /\ pc[Master] = "all" /\ pc' = [NotifyAll EXCEPT ![Master] = "add"]
          /\ UNCHANGED <<queue, counters, request, batch, fOk, stopper, added, result>>
        BY <1>7 DEF NotifyEach
    <2>2. /\ pc' \in [Threads -> Places]
          /\ \A t \in Threads : \/ pc'[t] = pc[t]
                                \/ pc[t] = "asleep" /\ pc'[t] = "woken"
                                \/ t = Master /\ pc[t] \in {"one", "all"} /\ pc'[t] = "add"
        BY <1>0, <2>1 DEF NotifyAll, IInv, Types, Places
    <2> QED BY <2>1, <2>2, WakeKeeps DEF IInv, Types
<1>8. CASE Wait BY <1>8, WaitKeeps
<1>9. ASSUME NEW t \in Threads, Take(t) PROVE IInv' BY <1>9, TakeKeeps
<1>10. ASSUME NEW t \in Threads, Sleep(t) PROVE IInv'
    <2>1. /\ AtLock(t) /\ queue = {} /\ (t = Master => Todo(t) # 0)
          /\ batch' = [batch EXCEPT ![t] = {}] /\ fAllOk' = AllOk(t)
          /\ nTodo' = Todo(t) /\ nTotal' = Total(t) /\ nIdle' = Idle(t) + 1
          /\ pc' = Moved(t, "asleep")
          /\ UNCHANGED <<queue, request, fOk, stopper, added, result>>
        BY <1>10 DEF Sleep
    <2> QED BY <2>1, RestKeeps
<1>11. ASSUME NEW t \in Threads, Work(t) PROVE IInv' BY <1>11, WorkKeeps
<1>12. ASSUME NEW t \in Threads, Spurious(t) PROVE IInv'
    <2>1. /\ pc[t] = "asleep" /\ pc' = [pc EXCEPT ![t] = "woken"]
          /\ UNCHANGED <<queue, counters, request, batch, fOk, stopper, added, result>>
        BY <1>12 DEF Spurious
    <2>2. /\ pc' \in [Threads -> Places]
          /\ \A u \in Threads : pc'[u] = pc[u] \/ (pc[u] = "asleep" /\ pc'[u] = "woken")
        BY <2>1 DEF IInv, Types, Places
    <2> QED BY <2>1, <2>2, WakeKeeps DEF IInv, Types
<1>13. CASE Return BY <1>13, ReturnKeeps
<1>14. ASSUME NEW w \in Workers, Exit(w) PROVE IInv'
    <2>1. /\ AtLock(w) /\ request
          /\ batch' = [batch EXCEPT ![w] = {}] /\ fAllOk' = AllOk(w)
          /\ nTodo' = Todo(w) /\ nTotal' = Total(w) /\ nIdle' = Idle(w)
          /\ pc' = Moved(w, "done")
          /\ UNCHANGED <<queue, request, fOk, stopper, added, result>>
        BY <1>14 DEF Exit
    <2>2. pc[Master] = "out" BY <2>1 DEF IInv, Stopping
    <2>3. w \in Threads /\ w # Master BY PoolAssumption DEF Threads
    <2> QED BY <2>1, <2>2, <2>3, RestKeeps
<1>15. CASE UNCHANGED vars
    <2>1. /\ stopper' = stopper /\ pc' = pc
          /\ UNCHANGED <<queue, counters, request, batch, fOk, added, result>>
        BY <1>15 DEF vars
    <2> QED BY <2>1, WakeKeeps DEF IInv, Types
<1> QED BY <1>1, <1>2, <1>3, <1>4, <1>5, <1>6, <1>7, <1>8, <1>9, <1>10, <1>11, <1>12,
           <1>13, <1>14, <1>15 DEF Next, Step

(* The inductive invariant: every unfinished check is counted once, and    *)
(* fAllOk with the batches' fOk tells of the finished ones (Loop, Add).    *)
THEOREM QueueInvariant == Spec => []IInv
<1> QED BY InitHolds, NextKeeps, PTL DEF Spec

(* Wait() answers for exactly the checks added since the control was       *)
(* taken, for any pool, any batch size and any interleaving.               *)
THEOREM WaitTellsTheTruth == Spec => []ResultRight
<1>1. IInv => ResultRight BY DEF IInv
<1> QED BY <1>1, QueueInvariant, PTL

(* When Wait() has returned no thread holds a check: ConnectBlock may      *)
(* destroy the data they point to.                                         *)
THEOREM NoCheckOutlivesWait == Spec => []NothingLeft
<1>1. IInv => NothingLeft BY DEF IInv
<1> QED BY <1>1, QueueInvariant, PTL

(* nTodo is the number of unfinished checks; it never wraps below zero,    *)
(* and the counters stay in their ranges.                                  *)
THEOREM CountersExact == Spec => []TodoExact /\ []TypeOK
<1>1. IInv => TodoExact BY DEF IInv
<1> QED BY <1>1, Bounds, QueueInvariant, PTL

(* The master's wake-up is never lost.                                     *)
THEOREM NoLostWakeup == Spec => []MasterWoken
<1> QED BY Woken, QueueInvariant, PTL
=============================================================================

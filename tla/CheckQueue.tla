----------------------------- MODULE CheckQueue -----------------------------
(***************************************************************************)
(* CCheckQueue: the script checks of a block run on a pool of worker       *)
(* threads.  One master at a time, the thread in ConnectBlock that holds a *)
(* CCheckQueueControl, adds checks and then joins the pool until all are   *)
(* done.  Every section under m_mutex is one action; the condition         *)
(* variables wake one, all or, spuriously, any of their sleepers.          *)
(*                                                                         *)
(* The queue is a set: which checks a batch gets does not matter           *)
(* ("As the order of booleans doesn't matter").  The pool is stopped when  *)
(* the threads that connect blocks have been joined (PrepareShutdown), so  *)
(* no control is open then.                                                *)
(***************************************************************************)
EXTENDS Integers, FiniteSets

CONSTANTS
    Workers, Master,
    Checks,       \* the checks of a block
    Good,         \* those that pass
    BatchSize     \* nBatchSize

VARIABLES
    queue,        \* queue
    nIdle, nTotal, nTodo, fAllOk,
    request,      \* m_request_stop
    pc,           \* where a thread is, see Places
    batch,        \* vChecks: the checks a thread has taken and not accounted for
    fOk,          \* the local fOk of a thread
    stopper,      \* StopWorkerThreads: idle, notify, join
    added,        \* history: the checks added under the current or last control
    result        \* what the last Wait() returned

counters == <<nIdle, nTotal, nTodo, fAllOk>>
vars == <<queue, counters, request, pc, batch, fOk, stopper, added, result>>

Threads == Workers \cup {Master}

(* start, enter, woken: about to lock m_mutex, at first, after a batch,    *)
(* after cond.wait; add, one, all: the master in Add, before its notify.   *)
Places == {"out", "add", "one", "all", "start", "enter", "asleep", "woken", "work", "done"}

ASSUME PoolAssumption ==
    /\ Master \notin Workers /\ IsFiniteSet(Workers)
    /\ IsFiniteSet(Checks) /\ Good \subseteq Checks
    /\ BatchSize \in Nat \ {0}

TypeOK ==
    /\ queue \in SUBSET Checks
    /\ nIdle \in 0..Cardinality(Threads) /\ nTotal \in 0..Cardinality(Threads)
    /\ nTodo \in 0..Cardinality(Checks) /\ fAllOk \in BOOLEAN
    /\ request \in BOOLEAN
    /\ pc \in [Threads -> Places]
    /\ batch \in [Threads -> SUBSET Checks] /\ fOk \in [Threads -> BOOLEAN]
    /\ stopper \in {"idle", "notify", "join"}
    /\ added \in SUBSET Checks /\ result \in BOOLEAN

Init ==
    /\ queue = {} /\ nIdle = 0 /\ nTotal = 0 /\ nTodo = 0 /\ fAllOk = TRUE
    /\ request = FALSE /\ stopper = "idle"
    /\ pc = [t \in Threads |-> "out"]
    /\ batch = [t \in Threads |-> {}] /\ fOk = [t \in Threads |-> TRUE]
    /\ added = {} /\ result = TRUE

-----------------------------------------------------------------------------
(* StartWorkerThreads, and the three steps of StopWorkerThreads.           *)
Start ==
    /\ stopper = "idle" /\ pc[Master] = "out"
    /\ \A w \in Workers : pc[w] \in {"out", "done"}
    /\ nIdle' = 0 /\ nTotal' = 0 /\ fAllOk' = TRUE
    /\ pc' = [t \in Threads |-> IF t \in Workers THEN "start" ELSE pc[t]]
    /\ fOk' = [t \in Threads |-> TRUE]
    /\ UNCHANGED <<queue, nTodo, request, batch, stopper, added, result>>

Running == stopper = "idle" /\ \A w \in Workers : pc[w] \notin {"out", "done"}

RequestStop ==
    /\ Running /\ pc[Master] = "out"
    /\ request' = TRUE /\ stopper' = "notify"
    /\ UNCHANGED <<queue, counters, pc, batch, fOk, added, result>>

(* Threads after notify_all on m_worker_cv.                                *)
NotifyAll ==
    [t \in Threads |-> IF t \in Workers /\ pc[t] = "asleep" THEN "woken" ELSE pc[t]]

NotifyStop_One ==
    /\ stopper = "notify"
    /\ \E w \in Workers :
        /\ (\E u \in Workers : pc[u] = "asleep") => pc[w] = "asleep"
        /\ pc' = [pc EXCEPT ![w] = IF @ = "asleep" THEN "woken" ELSE @]
    /\ stopper' = "join"
    /\ UNCHANGED <<queue, counters, request, batch, fOk, added, result>>

NotifyStop ==
    /\ stopper = "notify"
    /\ pc' = NotifyAll
    /\ stopper' = "join"
    /\ UNCHANGED <<queue, counters, request, batch, fOk, added, result>>

Join ==
    /\ stopper = "join" /\ \A w \in Workers : pc[w] = "done"
    /\ request' = FALSE /\ stopper' = "idle"
    /\ UNCHANGED <<queue, counters, pc, batch, fOk, added, result>>

-----------------------------------------------------------------------------
(* CCheckQueueControl's constructor takes m_control_mutex.                 *)
Control ==
    /\ Running /\ pc[Master] = "out"
    /\ pc' = [pc EXCEPT ![Master] = "add"]
    /\ added' = {}
    /\ UNCHANGED <<queue, counters, request, batch, fOk, stopper, result>>

(* Add, under the mutex; its notify comes after the unlock.                *)
Add(S) ==
    /\ pc[Master] = "add"
    /\ S # {} /\ S \subseteq Checks \ added
    /\ queue' = queue \cup S /\ nTodo' = nTodo + Cardinality(S)
    /\ added' = added \cup S
    /\ pc' = [pc EXCEPT ![Master] = IF Cardinality(S) = 1 THEN "one" ELSE "all"]
    /\ UNCHANGED <<nIdle, nTotal, fAllOk, request, batch, fOk, stopper, result>>

NotifyOne ==
    /\ pc[Master] = "one"
    /\ \E w \in Workers :
        /\ (\E u \in Workers : pc[u] = "asleep") => pc[w] = "asleep"
        /\ pc' = [pc EXCEPT ![Master] = "add", ![w] = IF @ = "asleep" THEN "woken" ELSE @]
    /\ UNCHANGED <<queue, counters, request, batch, fOk, stopper, added, result>>

NotifyEach ==
    /\ pc[Master] = "all"
    /\ pc' = [NotifyAll EXCEPT ![Master] = "add"]
    /\ UNCHANGED <<queue, counters, request, batch, fOk, stopper, added, result>>

(* Wait, also from the destructor when ConnectBlock returned early.        *)
Wait ==
    /\ pc[Master] = "add"
    /\ pc' = [pc EXCEPT ![Master] = "start"]
    /\ fOk' = [fOk EXCEPT ![Master] = TRUE]
    /\ UNCHANGED <<queue, counters, request, batch, stopper, added, result>>

-----------------------------------------------------------------------------
(* Loop under the mutex: the clean-up of the previous run ...              *)
AtLock(t) == pc[t] \in {"start", "enter", "woken"}
Total(t) == IF pc[t] = "start" THEN nTotal + 1 ELSE nTotal
Todo(t) == IF pc[t] = "enter" THEN nTodo - Cardinality(batch[t]) ELSE nTodo

AllOk_Overwrites(t) == IF pc[t] = "enter" THEN fOk[t] ELSE fAllOk
AllOk(t) == IF pc[t] = "enter" THEN fAllOk /\ fOk[t] ELSE fAllOk

Idle(t) == IF pc[t] = "woken" THEN nIdle - 1 ELSE nIdle

(* ... which informs the master when t processed the last element ...      *)
Moved(t, place) ==
    [u \in Threads |->
        IF u = t THEN place
        ELSE IF u = Master /\ pc[u] = "asleep" /\ pc[t] = "enter" /\ Todo(t) = 0
        THEN "woken" ELSE pc[u]]

(* ... and how many work units to process now.                             *)
NNow(t) ==
    LET share == Cardinality(queue) \div (Total(t) + Idle(t) + 1)
        most == IF share < BatchSize THEN share ELSE BatchSize IN
    IF most < 1 THEN 1 ELSE most

Take(t) ==
    /\ AtLock(t) /\ ~request /\ queue # {}
    /\ \E B \in SUBSET queue :
        /\ Cardinality(B) = NNow(t)
        /\ queue' = queue \ B
        /\ batch' = [batch EXCEPT ![t] = B]
    /\ fOk' = [fOk EXCEPT ![t] = AllOk(t)] /\ fAllOk' = AllOk(t)
    /\ nTodo' = Todo(t) /\ nTotal' = Total(t) /\ nIdle' = Idle(t)
    /\ pc' = Moved(t, "work")
    /\ UNCHANGED <<request, stopper, added, result>>

Sleep(t) ==
    /\ AtLock(t) /\ ~request /\ queue = {}
    /\ t = Master => Todo(t) # 0
    /\ batch' = [batch EXCEPT ![t] = {}]
    /\ fAllOk' = AllOk(t)
    /\ nTodo' = Todo(t) /\ nTotal' = Total(t) /\ nIdle' = Idle(t) + 1
    /\ pc' = Moved(t, "asleep")
    /\ UNCHANGED <<queue, request, fOk, stopper, added, result>>

Return_NoTodo ==
    /\ AtLock(Master) /\ ~request /\ queue = {}
    /\ batch' = [batch EXCEPT ![Master] = {}]
    /\ result' = AllOk(Master) /\ fAllOk' = TRUE
    /\ nTodo' = Todo(Master) /\ nTotal' = Total(Master) - 1 /\ nIdle' = Idle(Master)
    /\ pc' = [pc EXCEPT ![Master] = "out"]
    /\ UNCHANGED <<queue, request, fOk, stopper, added>>

(* The master returns the status, resets it and gives up the control.      *)
Return ==
    /\ AtLock(Master) /\ ~request /\ queue = {} /\ Todo(Master) = 0
    /\ batch' = [batch EXCEPT ![Master] = {}]
    /\ result' = AllOk(Master) /\ fAllOk' = TRUE
    /\ nTodo' = Todo(Master) /\ nTotal' = Total(Master) - 1 /\ nIdle' = Idle(Master)
    /\ pc' = [pc EXCEPT ![Master] = "out"]
    /\ UNCHANGED <<queue, request, fOk, stopper, added>>

(* A worker that sees m_request_stop; nTotal still counts it.              *)
Exit(w) ==
    /\ AtLock(w) /\ request
    /\ batch' = [batch EXCEPT ![w] = {}]
    /\ fAllOk' = AllOk(w)
    /\ nTodo' = Todo(w) /\ nTotal' = Total(w) /\ nIdle' = Idle(w)
    /\ pc' = Moved(w, "done")
    /\ UNCHANGED <<queue, request, fOk, stopper, added, result>>

(* Execute work, outside the mutex.                                        *)
Work(t) ==
    /\ pc[t] = "work"
    /\ fOk' = [fOk EXCEPT ![t] = @ /\ batch[t] \subseteq Good]
    /\ pc' = [pc EXCEPT ![t] = "enter"]
    /\ UNCHANGED <<queue, counters, request, batch, stopper, added, result>>

Spurious(t) ==
    /\ pc[t] = "asleep"
    /\ pc' = [pc EXCEPT ![t] = "woken"]
    /\ UNCHANGED <<queue, counters, request, batch, fOk, stopper, added, result>>

Step(t) == Take(t) \/ Sleep(t) \/ Work(t)

Next ==
    \/ Start \/ RequestStop \/ NotifyStop \/ Join
    \/ Control \/ (\E S \in SUBSET Checks : Add(S)) \/ NotifyOne \/ NotifyEach \/ Wait
    \/ \E t \in Threads : Step(t) \/ Spurious(t)
    \/ Return \/ \E w \in Workers : Exit(w)

Spec == Init /\ [][Next]_vars

(* Every thread runs on, and gets the mutex it waits for.                  *)
Fairness ==
    /\ \A t \in Threads : WF_vars(Step(t))
    /\ \A w \in Workers : WF_vars(Exit(w))
    /\ WF_vars(Return) /\ WF_vars(NotifyStop) /\ WF_vars(Join)

FairSpec == Spec /\ Fairness

-----------------------------------------------------------------------------
(* The checks that Wait() has to wait for: queued, or in a thread's batch. *)
Unfinished == queue \cup UNION {batch[t] : t \in Threads}

(* Wait() returns true exactly when every check added under this control   *)
(* passes, whatever the threads did and whatever the last block's result.  *)
ResultRight == pc[Master] = "out" => result = (added \subseteq Good)

(* Once the control is gone no thread holds a check of it: the checks      *)
(* point into txsdata, which ConnectBlock destroys next.                   *)
NothingLeft == pc[Master] = "out" => Unfinished = {} /\ nTodo = 0 /\ fAllOk

(* nTodo counts the unfinished checks, each in one place, so that it never *)
(* wraps below zero.                                                       *)
TodoExact ==
    /\ nTodo = Cardinality(Unfinished)
    /\ \A t \in Threads : batch[t] \cap queue = {}
    /\ \A t, u \in Threads : t # u => batch[t] \cap batch[u] = {}

(* A master asleep on m_master_cv has a worker that will notify it: no     *)
(* wake-up is lost between the two condition variables.                    *)
MasterWoken ==
    pc[Master] = "asleep" => \E w \in Workers : batch[w] # {} /\ pc[w] \in {"work", "enter"}

(* Nobody waits for ever: Wait() returns, and so does StopWorkerThreads.   *)
CallsReturn ==
    /\ pc[Master] = "start" ~> pc[Master] = "out"
    /\ stopper = "notify" ~> stopper = "idle"
=============================================================================

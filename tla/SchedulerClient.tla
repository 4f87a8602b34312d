-------------------------- MODULE SchedulerClient ---------------------------
(***************************************************************************)
(* The callback queue of the validation interface: CScheduler with its     *)
(* service threads, SingleThreadedSchedulerClient on top of it             *)
(* (scheduler.cpp), the callers that add callbacks or wait for the queue   *)
(* (validationinterface.cpp, LimitValidationInterfaceQueue) and the order  *)
(* of PrepareShutdown (init.cpp).                                          *)
(*                                                                         *)
(* The only tasks of the scheduler that matter here are calls of           *)
(* ProcessQueue, so that its task queue is their number.  A callback is a  *)
(* value of its own; the markers are the callbacks that                    *)
(* SyncWithValidationInterfaceQueue adds and waits for.  Each critical     *)
(* section of m_cs_callbacks_pending and of newTaskMutex is one step.      *)
(***************************************************************************)
EXTENDS Integers, Sequences, FiniteSets

CONSTANTS
    Threads,     \* threads in CScheduler::serviceQueue
    Callers,     \* threads that add callbacks
    Activator,   \* the caller that is in ActivateBestChain
    Main,        \* the thread that shuts the node down
    Callbacks,
    Markers,     \* callbacks that set the promise of a waiting caller
    Flushed,     \* the ChainStateFlushed callback of the shutdown
    Limit,       \* 10 in LimitValidationInterfaceQueue
    None

Procs == Threads \cup Callers \cup {Main}

ASSUME ProcsAssumption ==
    /\ Activator \in Callers /\ Main \notin Threads \cup Callers
    /\ Threads \cap Callers = {}
    /\ Markers \subseteq Callbacks /\ Flushed \in Callbacks \ Markers
    /\ None \notin Callbacks
    /\ Limit \in Nat

VARIABLES
    taskQueue,        \* calls of ProcessQueue in CScheduler::taskQueue
    stopRequested,
    pending,          \* m_callbacks_pending
    callbacksRunning, \* m_are_callbacks_running
    pc, cb,           \* where each process is, and its callback
    done              \* the callbacks that have run, in order

vars == <<taskQueue, stopRequested, pending, callbacksRunning, pc, cb, done>>

Pcs == {"wait", "exited", "process", "callback", "finish", "maybe", "schedule",
        "idle", "notify", "sync", "future",
        "run", "join", "empty", "flush", "off"}

Elements(s) == {s[i] : i \in DOMAIN s}

(* Callbacks that exist already: waiting, run, or being run.               *)
Added == Elements(pending) \cup Elements(done)
             \cup {cb[t] : t \in {u \in Procs : pc[u] = "callback"}}

(* A process holds a callback while it runs it; whoever waits for a future *)
(* waits for a marker.                                                     *)
TypeOK ==
    /\ taskQueue \in Nat /\ stopRequested \in BOOLEAN /\ callbacksRunning \in BOOLEAN
    /\ pending \in Seq(Callbacks) /\ done \in Seq(Callbacks)
    /\ pc \in [Procs -> Pcs] /\ cb \in [Procs -> Callbacks \cup {None}]
    /\ \A t \in Procs : pc[t] = "callback" => cb[t] \in Callbacks

Init ==
    /\ taskQueue = 0 /\ stopRequested = FALSE
    /\ pending = <<>> /\ callbacksRunning = FALSE /\ done = <<>>
    /\ pc = [t \in Procs |-> IF t \in Threads THEN "wait"
                             ELSE IF t = Main THEN "run" ELSE "idle"]
    /\ cb = [t \in Procs |-> None]

Goto(t, p) == pc' = [pc EXCEPT ![t] = p]

(* Where t goes on after AddToProcessQueue or ProcessQueue returned: the   *)
(* thread's loop, the loop of EmptyQueue, or the caller.                   *)
Return(t) == IF t \in Threads THEN "wait"
             ELSE IF t = Main THEN "empty"
             ELSE IF cb[t] \in Markers THEN "future" ELSE "idle"
-----------------------------------------------------------------------------
(* serviceQueue: a thread takes the first task, or leaves when asked to.   *)
TakeTask(t) ==
    /\ t \in Threads /\ pc[t] = "wait"
    /\ ~stopRequested /\ taskQueue > 0
    /\ taskQueue' = taskQueue - 1
    /\ Goto(t, "process")
    /\ UNCHANGED <<stopRequested, pending, callbacksRunning, cb, done>>

Exit(t) ==
    /\ t \in Threads /\ pc[t] = "wait" /\ stopRequested
    /\ Goto(t, "exited")
    /\ UNCHANGED <<taskQueue, stopRequested, pending, callbacksRunning, cb, done>>

(* Mutant: the queue is used as a stack.                                   *)
ProcessQueue_TakesLast(t) ==
    /\ pc[t] = "process"
    /\ IF callbacksRunning \/ pending = <<>>
       THEN Goto(t, Return(t)) /\ UNCHANGED <<pending, callbacksRunning, cb>>
       ELSE /\ callbacksRunning' = TRUE
            /\ cb' = [cb EXCEPT ![t] = pending[Len(pending)]]
            /\ pending' = SubSeq(pending, 1, Len(pending) - 1)
            /\ Goto(t, "callback")
    /\ UNCHANGED <<taskQueue, stopRequested, done>>

(* ProcessQueue up to the call of the callback.                            *)
ProcessQueue(t) ==
    /\ pc[t] = "process"
    /\ IF callbacksRunning \/ pending = <<>>
       THEN Goto(t, Return(t)) /\ UNCHANGED <<pending, callbacksRunning, cb>>
       ELSE /\ callbacksRunning' = TRUE
            /\ cb' = [cb EXCEPT ![t] = Head(pending)] /\ pending' = Tail(pending)
            /\ Goto(t, "callback")
    /\ UNCHANGED <<taskQueue, stopRequested, done>>

(* Mutant: the callback takes m_cs_chainstate, which ActivateBestChain     *)
(* holds while it waits.                                                   *)
RunCallback_NeedsChainState(t) ==
    /\ pc[t] = "callback" /\ pc[Activator] # "future"
    /\ done' = Append(done, cb[t])
    /\ Goto(t, "finish")
    /\ UNCHANGED <<taskQueue, stopRequested, pending, callbacksRunning, cb>>

(* callback() returns.                                                     *)
RunCallback(t) ==
    /\ pc[t] = "callback"
    /\ done' = Append(done, cb[t])
    /\ Goto(t, "finish")
    /\ UNCHANGED <<taskQueue, stopRequested, pending, callbacksRunning, cb>>

(* ~RAIICallbacksRunning.                                                  *)
ClearRunning(t) ==
    /\ pc[t] = "finish"
    /\ callbacksRunning' = FALSE
    /\ cb' = [cb EXCEPT ![t] = None]
    /\ Goto(t, "maybe")
    /\ UNCHANGED <<taskQueue, stopRequested, pending, done>>

(* MaybeScheduleProcessQueue: the check, and the call of schedule after    *)
(* the lock was released.                                                  *)
MaybeScheduleProcessQueue(t) ==
    /\ pc[t] = "maybe"
    /\ Goto(t, IF callbacksRunning \/ pending = <<>> THEN Return(t) ELSE "schedule")
    /\ UNCHANGED <<taskQueue, stopRequested, pending, callbacksRunning, cb, done>>

Schedule(t) ==
    /\ pc[t] = "schedule"
    /\ taskQueue' = taskQueue + 1
    /\ Goto(t, Return(t))
    /\ UNCHANGED <<stopRequested, pending, callbacksRunning, cb, done>>

(* AddToProcessQueue up to MaybeScheduleProcessQueue.                      *)
AddToProcessQueue(t, c) ==
    /\ c \notin Added
    /\ pending' = Append(pending, c)
    /\ cb' = [cb EXCEPT ![t] = c]
    /\ Goto(t, "maybe")
    /\ UNCHANGED <<taskQueue, stopRequested, callbacksRunning, done>>
-----------------------------------------------------------------------------
(* A caller wants to add a callback or to wait for the queue.              *)
(* ActivateBestChain waits before it goes on when more than Limit          *)
(* callbacks are pending (LimitValidationInterfaceQueue).  Peers, RPC and  *)
(* the other callers have stopped when the shutdown stops the scheduler.   *)
Call(t) ==
    /\ t \in Callers /\ pc[t] = "idle" /\ pc[Main] = "run"
    /\ IF t = Activator
       THEN Goto(t, IF Len(pending) > Limit THEN "sync" ELSE "notify")
       ELSE \E p \in {"sync", "notify"} : Goto(t, p)
    /\ UNCHANGED <<taskQueue, stopRequested, pending, callbacksRunning, cb, done>>

(* A CMainSignals method queues its callback.                              *)
Notify(t, c) ==
    /\ pc[t] = "notify" /\ c \in Callbacks \ (Markers \cup {Flushed})
    /\ AddToProcessQueue(t, c)

(* SyncWithValidationInterfaceQueue: a marker, and the wait for it.        *)
Sync(t, c) ==
    /\ pc[t] = "sync" /\ c \in Markers
    /\ AddToProcessQueue(t, c)

FutureReady(t) ==
    /\ pc[t] = "future" /\ cb[t] \in Elements(done)
    /\ cb' = [cb EXCEPT ![t] = None]
    /\ Goto(t, IF t = Activator THEN "notify" ELSE "idle")
    /\ UNCHANGED <<taskQueue, stopRequested, pending, callbacksRunning, done>>

(* A caller has nothing to add after all (the callbacks are bounded).      *)
Skip(t) ==
    /\ pc[t] \in {"notify", "sync"} /\ Goto(t, "idle")
    /\ UNCHANGED <<taskQueue, stopRequested, pending, callbacksRunning, cb, done>>
-----------------------------------------------------------------------------
(* PrepareShutdown: scheduler.stop() once no caller is left.               *)
Stop ==
    /\ pc[Main] = "run" /\ \A t \in Callers : pc[t] = "idle"
    /\ stopRequested' = TRUE
    /\ Goto(Main, "join")
    /\ UNCHANGED <<taskQueue, pending, callbacksRunning, cb, done>>

(* threadGroup.join_all(), and the first call of EmptyQueue.               *)
Join ==
    /\ pc[Main] = "join" /\ \A t \in Threads : pc[t] = "exited"
    /\ Goto(Main, "process")
    /\ UNCHANGED <<taskQueue, stopRequested, pending, callbacksRunning, cb, done>>

(* Mutant: EmptyQueue runs one callback only.                              *)
EmptyQueue_Once ==
    /\ pc[Main] = "empty"
    /\ Goto(Main, IF Flushed \notin Elements(pending) \cup Elements(done)
                  THEN "flush" ELSE "off")
    /\ UNCHANGED <<taskQueue, stopRequested, pending, callbacksRunning, cb, done>>

(* The loop of EmptyQueue.  After the first call the state is flushed,     *)
(* which adds one more callback; after the second the node is off.         *)
EmptyQueue ==
    /\ pc[Main] = "empty"
    /\ Goto(Main, IF pending # <<>> THEN "process"
                  ELSE IF Flushed \notin Elements(done) THEN "flush" ELSE "off")
    /\ UNCHANGED <<taskQueue, stopRequested, pending, callbacksRunning, cb, done>>

Flush ==
    /\ pc[Main] = "flush"
    /\ AddToProcessQueue(Main, Flushed)

Serve(t) == \/ TakeTask(t) \/ Exit(t) \/ ProcessQueue(t) \/ RunCallback(t)
            \/ ClearRunning(t) \/ MaybeScheduleProcessQueue(t) \/ Schedule(t)

CallStep(t) == \/ Call(t) \/ FutureReady(t) \/ Skip(t)
               \/ \E c \in Callbacks : Notify(t, c) \/ Sync(t, c)

Shutdown == Stop \/ Join \/ EmptyQueue \/ Flush

Next == \/ \E t \in Procs : Serve(t)
        \/ \E t \in Callers : CallStep(t)
        \/ Shutdown

Spec == Init /\ [][Next]_vars

(* Threads keep running; a caller that added a callback goes on; a         *)
(* shutdown that has begun goes on.  Nobody has to call, nor to shut down. *)
Fairness ==
    /\ \A t \in Procs : WF_vars(Serve(t))
    /\ \A t \in Callers : WF_vars(FutureReady(t)) /\ WF_vars(\E c \in Callbacks : Sync(t, c))
    /\ WF_vars(Join \/ EmptyQueue \/ Flush)

FairSpec == Spec /\ Fairness
-----------------------------------------------------------------------------
InCallback == {t \in Procs : pc[t] = "callback"}
Current == IF InCallback = {} THEN None ELSE cb[CHOOSE t \in InCallback : TRUE]

(* The queue implements the ordered callbacks: they run in the order in    *)
(* which they were added, one at a time, although several threads serve    *)
(* the scheduler and ProcessQueue may be scheduled twice; and every one of *)
(* them runs, through a shutdown too.                                      *)
OC == INSTANCE OrderedCallbacks WITH waiting <- pending, current <- Current

Implements == OC!LiveSpec
ImplementsSafely == OC!Spec

(* Two processes are never between taking a callback and clearing          *)
(* m_are_callbacks_running ("no two jobs will be executed at the same      *)
(* time"), and the flag is set exactly then.                               *)
OneAtATime ==
    /\ \A t, u \in Procs : {pc[t], pc[u]} \subseteq {"callback", "finish"} => t = u
    /\ callbacksRunning <=> \E t \in Procs : pc[t] \in {"callback", "finish"}

(* The queue is never left behind: with callbacks pending, a call of       *)
(* ProcessQueue is scheduled or somebody is at a place that leads to one,  *)
(* though MaybeScheduleProcessQueue gives up while a callback runs.        *)
NeverStalls ==
    pending # <<>> => \/ taskQueue > 0
                      \/ \E t \in Procs : pc[t] \in {"process", "callback", "finish",
                                                     "maybe", "schedule"}
                      \/ pc[Main] = "empty"

(* When the node is off no callback is left, the ones that were added      *)
(* while the scheduler was being stopped included ("Any future callbacks   *)
(* will be dropped").                                                      *)
ShutdownDrains == pc[Main] = "off" => pending = <<>> /\ Flushed \in Elements(done)

(* A caller in SyncWithValidationInterfaceQueue returns, so that           *)
(* ActivateBestChain gets past LimitValidationInterfaceQueue.              *)
SyncReturns == \A t \in Callers : pc[t] = "future" ~> pc[t] # "future"
=============================================================================

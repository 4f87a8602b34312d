-------------------------- MODULE OrderedCallbacks --------------------------
(***************************************************************************)
(* What SingleThreadedSchedulerClient (scheduler.h) promises of the        *)
(* callbacks of the validation interface: "callbacks can behave as if they *)
(* are executed in order by a single thread".  Callbacks wait in the order *)
(* in which they were added, one runs at a time, and each of them is run.  *)
(***************************************************************************)
EXTENDS Sequences

CONSTANTS Callbacks, None

VARIABLES
    waiting,   \* added and not yet started, in order
    current,   \* the one that runs, or None
    done       \* those that ran, in order

vars == <<waiting, current, done>>

Elements(s) == {s[i] : i \in DOMAIN s}

Init == waiting = <<>> /\ current = None /\ done = <<>>

(* AddToProcessQueue.                                                      *)
Add(c) ==
    /\ c \notin Elements(waiting) \cup {current} \cup Elements(done)
    /\ waiting' = Append(waiting, c)
    /\ UNCHANGED <<current, done>>

(* A callback starts only when the one before it has returned.             *)
Start ==
    /\ current = None /\ waiting # <<>>
    /\ current' = Head(waiting) /\ waiting' = Tail(waiting)
    /\ UNCHANGED done

Finish ==
    /\ current # None
    /\ done' = Append(done, current) /\ current' = None
    /\ UNCHANGED waiting

Next == (\E c \in Callbacks : Add(c)) \/ Start \/ Finish

Spec == Init /\ [][Next]_vars
LiveSpec == Spec /\ WF_vars(Start) /\ WF_vars(Finish)
=============================================================================

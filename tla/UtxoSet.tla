------------------------------ MODULE UtxoSet -------------------------------
(***************************************************************************)
(* What the hierarchy of coin caches (coins.h) stands for: a durable set   *)
(* of unspent outputs, the state the active chain has reached, and the     *)
(* working copy a block is applied to, which is kept or thrown away whole. *)
(***************************************************************************)
CONSTANTS Outpoints, Coins, Spent

VARIABLES
    durable,     \* in the coin database
    committed,   \* after the last block that was connected or disconnected
    working,     \* with the block that is being processed
    open         \* a block is being processed

vars == <<durable, committed, working, open>>

Init ==
    /\ durable \in [Outpoints -> Coins \cup {Spent}]
    /\ committed = durable /\ working = durable /\ open = FALSE

Begin == ~open /\ open' = TRUE /\ UNCHANGED <<durable, committed, working>>

Set(o, c) ==
    /\ open
    /\ working' = [working EXCEPT ![o] = c]
    /\ UNCHANGED <<durable, committed, open>>

Commit ==
    /\ open /\ open' = FALSE
    /\ committed' = working
    /\ UNCHANGED <<durable, working>>

Abort ==
    /\ open /\ open' = FALSE
    /\ working' = committed
    /\ UNCHANGED <<durable, committed>>

Persist ==
    /\ ~open
    /\ durable' = committed
    /\ UNCHANGED <<committed, working, open>>

Next ==
    \/ Begin \/ Commit \/ Abort \/ Persist
    \/ \E o \in Outpoints, c \in Coins \cup {Spent} : Set(o, c)

Spec == Init /\ [][Next]_vars
=============================================================================

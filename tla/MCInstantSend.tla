--------------------------- MODULE MCInstantSend ----------------------------
(* Two transactions that spend the same outpoint and a child of the first, *)
(* a block for each of them, a lock of each kind for the first and one for *)
(* the child.  The run has the first lock and the first two blocks.        *)
EXTENDS InstantSend, TLC

CONSTANTS t1, t2, c, o1, o2, l1, d1, lc, g, b1, b2, b3

MCGenesis == g
MCTxs == {t1, t2, c}
MCInput == t1 :> o1 @@ t2 :> o1 @@ c :> o2
MCParent == t1 :> None @@ t2 :> None @@ c :> t1
MCLockTx == l1 :> t1 @@ d1 :> t1 @@ lc :> c
TwoBlocks == {g, b1, b2}
MCBlocks == {g, b1, b2, b3}
MCPrev == b1 :> g @@ b2 :> g @@ b3 :> b1
MCBlockTx == b1 :> t1 @@ b2 :> t2 @@ b3 :> c
=============================================================================

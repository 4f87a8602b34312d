---------------------------- MODULE MCChainLocks ----------------------------
(* Two branches of two blocks; the first of them is the locked one.  In    *)
(* the short tree the locked branch has a single block.                    *)
EXTENDS ChainLocks, TLC

CONSTANTS g, a1, a2, b1, b2

MCGenesis == g
ForkBlocks == {g, a1, a2, b1, b2}
ShortBlocks == {g, a1, b1, b2}
ForkParent == a1 :> g @@ a2 :> a1 @@ b1 :> g @@ b2 :> b1
ShortParent == a1 :> g @@ b1 :> g @@ b2 :> b1
=============================================================================

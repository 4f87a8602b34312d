---------------------------- MODULE MCBaseIndex -----------------------------
(* Two branches of two blocks on the genesis block.                        *)
EXTENDS BaseIndex, TLC

CONSTANTS g, a1, a2, b1, b2

MCGenesis == g
ForkBlocks == {g, a1, a2, b1, b2}
ForkParent == a1 :> g @@ a2 :> a1 @@ b1 :> g @@ b2 :> b1
=============================================================================

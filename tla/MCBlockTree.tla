---------------------------- MODULE MCBlockTree ----------------------------
(* A small tree of blocks for BlockTree: one branch of two blocks, the     *)
(* second invalid, and two of a single block, one of them locked, on top   *)
(* of the genesis block.                                                   *)
EXTENDS BlockTree, TLC

CONSTANTS g, a1, a2, b1, c1

MCGenesis == g
ForkBlocks == {g, a1, a2, b1, c1}
ForkParent == a1 :> g @@ a2 :> a1 @@ b1 :> g @@ c1 :> g
ForkWork == g :> 1 @@ a1 :> 2 @@ b1 :> 2 @@ c1 :> 2 @@ a2 :> 3
ForkAddress == g :> 0 @@ a1 :> 1 @@ b1 :> 2 @@ a2 :> 3 @@ c1 :> 4
=============================================================================

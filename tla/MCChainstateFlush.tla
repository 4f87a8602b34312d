------------------------- MODULE MCChainstateFlush --------------------------
(* Two branches above r: a1 and b2 mine the same transaction, which spends *)
(* x and creates y, at different heights; a2 spends y.  The commitment of  *)
(* q is mined in a1 and in b1.                                             *)
EXTENDS ChainstateFlush, TLC

CONSTANTS r, a1, a2, b1, b2, x, y, w, q

MCBlocks == {r, a1, a2, b1, b2}
MCParent == (a1 :> r) @@ (a2 :> a1) @@ (b1 :> r) @@ (b2 :> b1)
MCHeight == (r :> 1) @@ (a1 :> 2) @@ (a2 :> 3) @@ (b1 :> 2) @@ (b2 :> 3)
MCCreates == (r :> {x}) @@ (a1 :> {y}) @@ (a2 :> {}) @@ (b1 :> {w}) @@ (b2 :> {y})
MCSpends == (r :> {}) @@ (a1 :> {x}) @@ (a2 :> {y}) @@ (b1 :> {}) @@ (b2 :> {x})
MCMines == (r :> {}) @@ (a1 :> {q}) @@ (a2 :> {}) @@ (b1 :> {q}) @@ (b2 :> {})
=============================================================================

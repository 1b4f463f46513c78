----------------------------- MODULE MCBaseIndex ------------------------------
(* Two branches of two blocks on the genesis block:  G - A1 - A2             *)
(*                                                     \ B1 - B2             *)
EXTENDS BaseIndex, TLC

CONSTANTS G, A1, A2, B1, B2

TreeBlocks == {G, A1, A2, B1, B2}
TreeParent == (A1 :> G) @@ (A2 :> A1) @@ (B1 :> G) @@ (B2 :> B1)
TreeHeight == (G :> 0) @@ (A1 :> 1) @@ (A2 :> 2) @@ (B1 :> 1) @@ (B2 :> 2)
===============================================================================

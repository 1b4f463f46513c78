----------------------------- MODULE MCChainState -----------------------------
(***************************************************************************)
(* Instances of ChainState for TLC: block trees in which branches compete. *)
(* A tree is given by its levels (the blocks at height 0, 1, ...) and the  *)
(* parent of every block; every block carries one unit of work.            *)
(***************************************************************************)
EXTENDS ChainState, Sequences, TLC

CONSTANTS G, A1, A2, B1, B2, B3, B4, C2

BlocksOf(levels) == UNION {levels[i] : i \in DOMAIN levels}
HeightsOf(levels) ==
  [b \in BlocksOf(levels) |-> (CHOOSE i \in DOMAIN levels : b \in levels[i]) - 1]

(* G - A1 - A2                                                             *)
(*   \ B1 - B2 - B3                                                        *)
ForkLevels == <<{G}, {A1, B1}, {A2, B2}, {B3}>>
ForkBlocks == BlocksOf(ForkLevels)
ForkHeight == HeightsOf(ForkLevels)
ForkParent == (A1 :> G) @@ (A2 :> A1) @@ (B1 :> G) @@ (B2 :> B1) @@ (B3 :> B2)
ForkAddress == (G :> 0) @@ (A1 :> 2) @@ (B1 :> 1) @@ (A2 :> 3) @@ (B2 :> 4) @@ (B3 :> 5)

(* Fork with a block B4 on top: a header is refused for the sake of an     *)
(* invalid block two below it.                                             *)
LongLevels == ForkLevels \o <<{B4}>>
LongBlocks == BlocksOf(LongLevels)
LongHeight == HeightsOf(LongLevels)
LongParent == ForkParent @@ (B4 :> B3)
LongAddress == ForkAddress @@ (B4 :> 7)

(* The same, with a second child C2 of B1. *)
WideLevels == <<{G}, {A1, B1}, {A2, B2, C2}, {B3}, {B4}>>
WideBlocks == BlocksOf(WideLevels)
WideHeight == HeightsOf(WideLevels)
WideParent == LongParent @@ (C2 :> B1)
WideAddress == LongAddress @@ (C2 :> 6)

(* G - A1 - A2      C2 (a child of A1) and B2 carry more work than their   *)
(*   |    \ C2      competitors, as after a rise of the difficulty.        *)
(*   \ B1 - B2                                                             *)
HeavyLevels == <<{G}, {A1, B1}, {A2, B2, C2}>>
HeavyBlocks == BlocksOf(HeavyLevels)
HeavyHeight == HeightsOf(HeavyLevels)
HeavyParent == (A1 :> G) @@ (A2 :> A1) @@ (B1 :> G) @@ (B2 :> B1) @@ (C2 :> A1)
HeavyWork == (G :> 0) @@ (A1 :> 1) @@ (A2 :> 2) @@ (B1 :> 1) @@ (B2 :> 3) @@ (C2 :> 4)
HeavyAddress == (G :> 0) @@ (A1 :> 2) @@ (B1 :> 1) @@ (A2 :> 3) @@ (B2 :> 4) @@ (C2 :> 5)

(* G - A1 - A2      a short tree in which B2 alone outweighs A2. *)
(*   \ B1 - B2                                                             *)
ShortLevels == <<{G}, {A1, B1}, {A2, B2}>>
ShortBlocks == BlocksOf(ShortLevels)
ShortHeight == HeightsOf(ShortLevels)
ShortParent == (A1 :> G) @@ (A2 :> A1) @@ (B1 :> G) @@ (B2 :> B1)
ShortWork == (G :> 0) @@ (A1 :> 1) @@ (A2 :> 2) @@ (B1 :> 1) @@ (B2 :> 3)
ShortAddress == (G :> 0) @@ (A1 :> 2) @@ (B1 :> 1) @@ (A2 :> 3) @@ (B2 :> 4)
===============================================================================

----------------------------- MODULE MCCoinsCache -----------------------------
(***************************************************************************)
(* CoinsCache for TLC: two outpoints, two coins that differ in content and *)
(* size (a restored coin need not be the one that was spent), one coin     *)
(* that AddCoin drops, two blocks.                                         *)
(***************************************************************************)
EXTENDS CoinsCache, TLC

CONSTANTS c1, c2, f

MCUsage == (c1 :> 1) @@ (c2 :> 3) @@ (f :> 1) @@ (SPENT :> 0) @@ (ABSENT :> 0)
===============================================================================

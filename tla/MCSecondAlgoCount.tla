-------------------------- MODULE MCSecondAlgoCount --------------------------
(* Two branches that fork before the activation, with algorithms mixed. *)
EXTENDS DualAlgoDifficulty

CONSTANTS G, A1, A2, A3, A4, B1, B2, B3

MCBlocks == {G, A1, A2, A3, A4, B1, B2, B3}
MCpprev ==
  [b \in MCBlocks \ {G} |->
     CASE b \in {A1, B1} -> G [] b = A2 -> A1 [] b = A3 -> A2 [] b = A4 -> A3
       [] b = B2 -> B1 [] b = B3 -> B2]
MCnHeight ==
  [b \in MCBlocks |->
     CASE b = G -> 0 [] b \in {A1, B1} -> 1 [] b \in {A2, B2} -> 2 [] b \in {A3, B3} -> 3
       [] b = A4 -> 4]
MCSecondAlgo == {A1, A2, A4, B3}

(* The limit of the main network, a target in the middle and the hardest.  *)
MCPowLimitBits == [nSize |-> 30, nWord |-> 4194300]
MCAnchorBits ==
  {MCPowLimitBits, [nSize |-> 20, nWord |-> 8388607], [nSize |-> 1, nWord |-> 65536]}

(* Genesis on schedule or half a day late.  On branch A the first block   *)
(* after the anchor comes after a second, a half-life and a spacing, 347   *)
(* or 1157 half-lives, and the next one a spacing later or a second        *)
(* earlier; branch B is on schedule or one half-life less a second late.   *)
MCTimelines ==
  {[b \in MCBlocks |->
      CASE b = G -> t[1] [] b = A1 -> t[1] + 400 [] b = A2 -> t[1] + 400 + t[2]
        [] b \in {A3, A4} -> t[1] + 397 + t[2] + t[3] + MCnHeight[b]
        [] b = B1 -> t[1] + 650 [] b \in {B2, B3} -> t[1] + 648 + t[4] + MCnHeight[b]] :
     t \in {<<300, 1, 600, 600>>, <<300, 173400, 600, 173399>>, <<43200, 60000000, -1, 600>>,
           <<43200, 200000000, 600, 173399>>, <<300, 86399, -1, 173399>>}}
===============================================================================

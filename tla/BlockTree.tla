------------------------------ MODULE BlockTree ------------------------------
(***************************************************************************)
(* The tree of all blocks that can ever be delivered, as their headers     *)
(* define it (CBlockIndex::pprev and nHeight).                             *)
(***************************************************************************)
EXTENDS Integers, FiniteSets

CONSTANTS
  Blocks,               \* every block that can ever be delivered
  Genesis, NULL,
  pprev,                \* the parent of every block but Genesis
  nHeight

ASSUME TreeAssumption ==
  /\ Genesis \in Blocks /\ NULL \notin Blocks /\ IsFiniteSet(Blocks)
  /\ pprev \in [Blocks \ {Genesis} -> Blocks]
  /\ nHeight \in [Blocks -> Nat] /\ nHeight[Genesis] = 0
  /\ \A b \in Blocks \ {Genesis} : nHeight[b] = nHeight[pprev[b]] + 1

(* GetAncestor: a block is on the chain that ends in b when every set that *)
(* holds b and the parents of its members holds it.                        *)
ClosedUnderParent(S) == \A x \in S \ {Genesis} : pprev[x] \in S

Ancestors ==
  [b \in Blocks |->
     {a \in Blocks : \A S \in SUBSET Blocks :
                        b \in S /\ ClosedUnderParent(S) => a \in S}]
===============================================================================

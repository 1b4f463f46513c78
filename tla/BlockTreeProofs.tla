---------------------------- MODULE BlockTreeProofs ----------------------------
(***************************************************************************)
(* Facts about the chains of blocks of a tree, for every tree.             *)
(***************************************************************************)
EXTENDS BlockTree, WellFoundedInduction, TLAPS

(* A chain lies in the block set (GetAncestor never leaves the tree). *)
LEMMA AncestorsAreBlocks ==
  ASSUME NEW b \in Blocks PROVE Ancestors[b] \subseteq Blocks /\ b \in Ancestors[b]
  BY DEF Ancestors

(* The chain of b lies in every parent-closed set that holds b. *)
LEMMA AncestorsLeast ==
  ASSUME NEW b \in Blocks, NEW S \in SUBSET Blocks, b \in S, ClosedUnderParent(S)
  PROVE  Ancestors[b] \subseteq S
  BY DEF Ancestors

(* The chain of a block is closed under parents. *)
LEMMA AncestorsClosed ==
  ASSUME NEW b \in Blocks PROVE ClosedUnderParent(Ancestors[b])
<1> SUFFICES ASSUME NEW x \in Ancestors[b] \ {Genesis}, NEW S \in SUBSET Blocks,
                    b \in S, ClosedUnderParent(S)
             PROVE  pprev[x] \in S
  BY TreeAssumption DEF Ancestors, ClosedUnderParent
<1> QED BY AncestorsLeast DEF ClosedUnderParent

(* The ancestors of an ancestor are ancestors. *)
LEMMA AncestorsTransitive ==
  ASSUME NEW b \in Blocks, NEW a \in Ancestors[b] PROVE Ancestors[a] \subseteq Ancestors[b]
  BY AncestorsAreBlocks, AncestorsClosed, AncestorsLeast

(* The chain of b is b on top of the chain of its parent. *)
LEMMA AncestorsUnfold ==
  ASSUME NEW b \in Blocks, b # Genesis
  PROVE  pprev[b] \in Blocks /\ Ancestors[b] = {b} \cup Ancestors[pprev[b]]
<1> DEFINE S == {b} \cup Ancestors[pprev[b]]
<1>1. pprev[b] \in Blocks BY TreeAssumption
<1>2. ClosedUnderParent(S)
  <2>1. ClosedUnderParent(Ancestors[pprev[b]]) BY <1>1, AncestorsClosed
  <2> QED BY <1>1, <2>1, AncestorsAreBlocks DEF ClosedUnderParent
<1>3. Ancestors[b] \subseteq S
  <2>1. S \in SUBSET Blocks /\ b \in S BY <1>1, AncestorsAreBlocks
  <2> QED BY <1>2, <2>1, AncestorsLeast
<1>4. S \subseteq Ancestors[b]
  <2>1. b \in Ancestors[b] BY AncestorsAreBlocks
  <2>2. pprev[b] \in Ancestors[b] BY <2>1, AncestorsClosed DEF ClosedUnderParent
  <2> QED BY <2>1, <2>2, AncestorsTransitive
<1> QED BY <1>1, <1>3, <1>4

(* The chain of Genesis is Genesis. *)
LEMMA AncestorsOfGenesis == Ancestors[Genesis] = {Genesis}
<1>1. Genesis \in Blocks BY TreeAssumption
<1>2. ClosedUnderParent({Genesis}) BY DEF ClosedUnderParent
<1> QED BY <1>1, <1>2, AncestorsLeast, AncestorsAreBlocks

(* Heights grow along a chain. *)
LEMMA AncestorsHeight ==
  ASSUME NEW b \in Blocks, NEW a \in Ancestors[b], a # b PROVE nHeight[a] < nHeight[b]
<1> DEFINE S == {x \in Ancestors[b] : x = b \/ nHeight[x] < nHeight[b]}
<1>1. S \in SUBSET Blocks /\ b \in S BY AncestorsAreBlocks
<1>2. ClosedUnderParent(S)
  <2> SUFFICES ASSUME NEW x \in S \ {Genesis} PROVE pprev[x] \in S BY DEF ClosedUnderParent
  <2>1. x \in Blocks /\ pprev[x] \in Ancestors[b]
    BY <1>1, AncestorsClosed DEF ClosedUnderParent
  <2>2. nHeight[x] = nHeight[pprev[x]] + 1 /\ nHeight[pprev[x]] \in Nat
        /\ nHeight[x] \in Nat /\ nHeight[b] \in Nat
    BY <2>1, TreeAssumption
  <2>3. nHeight[pprev[x]] < nHeight[b] BY <2>2
  <2> QED BY <2>1, <2>3
<1> QED BY <1>1, <1>2, AncestorsLeast

(* A set of numbers has a least element. *)
LEMMA LeastNumber ==
  ASSUME NEW S \in SUBSET Nat, S # {} PROVE \E n \in S : \A m \in S : n <= m
<1>1. \E n \in S : \A m \in S : ~(<<m, n>> \in OpToRel(<, Nat))
  BY WFMin, NatLessThanWellFounded, Zenon
<1>2. PICK n \in S : \A m \in S : ~(m < n)
  BY <1>1, Zenon DEF OpToRel
<1>3. n \in Nat /\ \A m \in S : n <= m BY <1>2
<1> QED BY <1>3

(* A chain has a block at every height up to its top. *)
LEMMA AncestorAtHeight ==
  ASSUME NEW b \in Blocks, NEW h \in 0..nHeight[b]
  PROVE  \E a \in Ancestors[b] : nHeight[a] = h
<1> DEFINE H == {nHeight[a] : a \in {c \in Ancestors[b] : nHeight[c] >= h}}
<1>1. Ancestors[b] \subseteq Blocks /\ b \in Ancestors[b] BY AncestorsAreBlocks
<1>2. nHeight[b] \in Nat /\ h \in Nat /\ nHeight[b] >= h BY TreeAssumption
<1>3. H \in SUBSET Nat /\ nHeight[b] \in H BY <1>1, <1>2, TreeAssumption
<1>4. PICK n \in H : \A m \in H : n <= m BY Zenon, <1>3, LeastNumber
<1>5. PICK a \in Ancestors[b] : n = nHeight[a] /\ nHeight[a] >= h OBVIOUS
<1>6. SUFFICES ASSUME nHeight[a] # h PROVE FALSE BY <1>5
<1>7. a \in Blocks /\ nHeight[a] \in Nat BY <1>1, TreeAssumption
<1>8. nHeight[a] > h BY <1>2, <1>5, <1>6, <1>7
<1>9. a # Genesis BY <1>2, <1>8, TreeAssumption
<1>10. pprev[a] \in Ancestors[b] BY <1>9, AncestorsClosed DEF ClosedUnderParent
<1>11. nHeight[a] = nHeight[pprev[a]] + 1 /\ nHeight[pprev[a]] \in Nat
  BY <1>1, <1>7, <1>9, <1>10, TreeAssumption
<1>12. nHeight[pprev[a]] \in H BY <1>2, <1>8, <1>10, <1>11
<1> HIDE DEF H
<1>13. n <= nHeight[pprev[a]] BY <1>4, <1>12
<1> QED BY <1>5, <1>11, <1>13

(* Every chain starts at Genesis. *)
LEMMA GenesisIsAncestor == ASSUME NEW b \in Blocks PROVE Genesis \in Ancestors[b]
<1>1. nHeight[b] \in Nat BY TreeAssumption
<1>2. PICK a \in Ancestors[b] : nHeight[a] = 0 BY <1>1, AncestorAtHeight
<1>3. a \in Blocks BY AncestorsAreBlocks
<1>4. a = Genesis
  <2> SUFFICES ASSUME a # Genesis PROVE FALSE OBVIOUS
  <2>1. nHeight[a] = nHeight[pprev[a]] + 1 /\ nHeight[pprev[a]] \in Nat
    BY <1>3, TreeAssumption
  <2> QED BY <1>2, <2>1
<1> QED BY <1>4

(* Two blocks of one chain: one is an ancestor of the other. *)
LEMMA AncestorsComparable ==
  ASSUME NEW b \in Blocks, NEW a \in Ancestors[b], NEW c \in Ancestors[b]
  PROVE  a \in Ancestors[c] \/ c \in Ancestors[a]
<1> DEFINE S == {x \in Ancestors[b] : x \in Ancestors[c] \/ c \in Ancestors[x]}
<1>1. S \in SUBSET Blocks /\ b \in S /\ c \in Blocks BY AncestorsAreBlocks
<1>2. ClosedUnderParent(S)
  <2> SUFFICES ASSUME NEW x \in S \ {Genesis} PROVE pprev[x] \in S BY DEF ClosedUnderParent
  <2>1. x \in Blocks /\ pprev[x] \in Ancestors[b]
    BY <1>1, AncestorsClosed DEF ClosedUnderParent
  <2>2. CASE x \in Ancestors[c]
    BY <1>1, <2>1, <2>2, AncestorsClosed DEF ClosedUnderParent
  <2>3. CASE c \in Ancestors[x]
    <3>1. c = x \/ c \in Ancestors[pprev[x]] BY <2>1, <2>3, AncestorsUnfold
    <3>2. pprev[x] \in Ancestors[x]
      BY <2>1, AncestorsAreBlocks, AncestorsClosed DEF ClosedUnderParent
    <3> QED BY <2>1, <3>1, <3>2
  <2> QED BY <2>2, <2>3
<1> QED BY <1>1, <1>2, AncestorsLeast

(* Of two blocks of one chain the lower one is an ancestor of the other;   *)
(* there is one block at every height.                                     *)
LEMMA AncestorsOrdered ==
  ASSUME NEW b \in Blocks, NEW a \in Ancestors[b], NEW c \in Ancestors[b],
         nHeight[a] <= nHeight[c]
  PROVE  a \in Ancestors[c] /\ (nHeight[a] = nHeight[c] => a = c)
<1>1. a \in Blocks /\ c \in Blocks BY AncestorsAreBlocks
<1>2. nHeight[a] \in Nat /\ nHeight[c] \in Nat BY <1>1, TreeAssumption
<1>3. a \in Ancestors[c] \/ c \in Ancestors[a] BY AncestorsComparable
<1>4. ASSUME a # c PROVE a \in Ancestors[c] /\ nHeight[a] # nHeight[c]
  <2>1. c \in Ancestors[a] => nHeight[c] < nHeight[a] BY <1>1, <1>4, AncestorsHeight
  <2>2. a \in Ancestors[c] BY <1>2, <1>3, <2>1
  <2> QED BY <1>1, <1>2, <1>4, <2>2, AncestorsHeight
<1> QED BY <1>1, <1>4, AncestorsAreBlocks

(* The child of a block on the way to the top of a chain. *)
LEMMA ChildOnChain ==
  ASSUME NEW b \in Blocks, NEW a \in Ancestors[b], NEW c \in Ancestors[b],
         nHeight[c] = nHeight[a] + 1
  PROVE  c # Genesis /\ pprev[c] = a
<1>1. a \in Blocks /\ c \in Blocks /\ nHeight[a] \in Nat BY AncestorsAreBlocks, TreeAssumption
<1>2. c # Genesis BY <1>1, TreeAssumption
<1>3. pprev[c] \in Ancestors[b] BY <1>2, AncestorsClosed DEF ClosedUnderParent
<1>4. pprev[c] \in Blocks /\ nHeight[c] = nHeight[pprev[c]] + 1 /\ nHeight[pprev[c]] \in Nat
  BY <1>1, <1>2, TreeAssumption
<1>5. nHeight[pprev[c]] = nHeight[a] BY <1>1, <1>4
<1> QED BY <1>1, <1>2, <1>3, <1>5, AncestorsOrdered

=============================================================================

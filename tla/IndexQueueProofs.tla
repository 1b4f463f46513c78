---------------------------- MODULE IndexQueueProofs ----------------------------
(***************************************************************************)
(* Proofs about the notifications an index of the chain receives, for      *)
(* every tree of blocks: what FindFork, NextSyncBlock and the connected    *)
(* blocks of a change of the chain are, what appending to the queue and    *)
(* taking from it do to what the index relies on, and that the steps of    *)
(* the node (start, end, flush, shutdown, change of the tip) keep its      *)
(* inductive invariant.                                                    *)
(***************************************************************************)
EXTENDS BaseIndex, BlockTreeProofs

(* A leaf that names no prover is left to Zenon. *)
USE ZenonT(30)

-----------------------------------------------------------------------------
(* Chains that may be empty *)

LEMMA ChainType ==
  ASSUME NEW b \in BlocksOrNull
  PROVE  /\ Chain(b) \subseteq Blocks /\ (b # NULL => b \in Blocks /\ b \in Chain(b))
         /\ NULL \notin Chain(b) /\ Under(b, b)
  BY AncestorsAreBlocks, TreeAssumption DEF Chain, BlocksOrNull, Under

LEMMA ChainTransitive ==
  ASSUME NEW b \in BlocksOrNull, NEW a \in Chain(b) PROVE Chain(a) \subseteq Chain(b)
<1>1. b \in Blocks /\ a \in Ancestors[b] /\ a \in Blocks /\ b # NULL /\ a # NULL
  BY ChainType, TreeAssumption DEF Chain, BlocksOrNull
<1> QED BY <1>1, AncestorsTransitive DEF Chain

LEMMA UnderTransitive ==
  ASSUME NEW c \in BlocksOrNull, NEW b \in BlocksOrNull, NEW a, Under(a, b), Under(b, c)
  PROVE  Under(a, c)
  BY ChainTransitive DEF Under, Chain

(* The chain of a block is the block on top of the chain of its parent. *)
LEMMA ParentIs ==
  ASSUME NEW b \in Blocks
  PROVE  /\ Parent(b) \in BlocksOrNull /\ Under(Parent(b), b)
         /\ (Parent(b) = NULL <=> b = Genesis)
         /\ Chain(b) = {b} \cup Chain(Parent(b))
         /\ \A a \in Chain(Parent(b)) : nHeight[a] < nHeight[b]
         /\ b # Genesis => nHeight[Parent(b)] = nHeight[b] - 1
<1>1. b # NULL /\ Genesis # NULL BY TreeAssumption
<1>2. CASE b = Genesis
  BY <1>1, <1>2, AncestorsOfGenesis DEF Parent, Chain, BlocksOrNull, Under
<1>3. CASE b # Genesis
  <2>1. /\ Parent(b) = pprev[b] /\ pprev[b] \in Blocks /\ pprev[b] # NULL
        /\ nHeight[b] = nHeight[pprev[b]] + 1 /\ nHeight[pprev[b]] \in Nat
    BY <1>3, TreeAssumption DEF Parent
  <2>2. Chain(b) = {b} \cup Chain(pprev[b])
    BY <1>1, <1>3, <2>1, AncestorsUnfold DEF Chain
  <2>3. ASSUME NEW a \in Chain(pprev[b]) PROVE nHeight[a] < nHeight[b]
    <3>1. a \in Ancestors[pprev[b]] /\ a \in Blocks BY <2>1, AncestorsAreBlocks DEF Chain
    <3>2. nHeight[a] \in Nat /\ (a = pprev[b] \/ nHeight[a] < nHeight[pprev[b]])
      BY <2>1, <3>1, AncestorsHeight, TreeAssumption
    <3> QED BY SMTT(30), <2>1, <3>2
  <2>4. pprev[b] \in Chain(b) BY <2>1, <2>2, ChainType DEF BlocksOrNull
  <2> QED BY SMTT(30), <1>3, <2>1, <2>2, <2>3, <2>4 DEF BlocksOrNull, Under
<1> QED BY <1>2, <1>3

LEMMA GetAncestorIs ==
  ASSUME NEW b \in BlocksOrNull, NEW h \in Int
  PROVE  /\ GetAncestor(b, h) # NULL =>
              GetAncestor(b, h) \in Chain(b) /\ nHeight[GetAncestor(b, h)] = h
         /\ \A a \in Chain(b) : nHeight[a] = h => GetAncestor(b, h) = a
<1> DEFINE A == {a \in Chain(b) : nHeight[a] = h}
<1>1. GetAncestor(b, h) = IF A = {} THEN NULL ELSE CHOOSE a \in A : TRUE
  BY DEF GetAncestor
<1>2. A # {} => GetAncestor(b, h) \in A BY <1>1
<1>3. ASSUME NEW a \in Chain(b), nHeight[a] = h PROVE GetAncestor(b, h) = a
  <2>1. b \in Blocks /\ a \in Ancestors[b] BY <1>3 DEF Chain, BlocksOrNull
  <2>2. GetAncestor(b, h) \in Ancestors[b] /\ nHeight[GetAncestor(b, h)] = h
    BY <1>2, <1>3, <2>1 DEF Chain
  <2> QED BY SMTT(30), <1>3, <2>1, <2>2, AncestorsOrdered
<1> QED BY <1>1, <1>2, <1>3

LEMMA FindForkIs ==
  ASSUME NEW s \in BlocksOrNull, NEW t \in BlocksOrNull
  PROVE  /\ FindFork(s, t) \in BlocksOrNull
         /\ Under(FindFork(s, t), s) /\ Under(FindFork(s, t), t)
         /\ (FindFork(s, t) = NULL <=> s = NULL \/ t = NULL)
         /\ \A a \in Chain(s) \cap Chain(t) : nHeight[a] <= nHeight[FindFork(s, t)]
<1> DEFINE F == Chain(s) \cap Chain(t)
           D == {nHeight[t] - nHeight[a] : a \in F}
<1>1. FindFork(s, t) = IF F = {} THEN NULL
                       ELSE CHOOSE f \in F : \A a \in F : nHeight[a] <= nHeight[f]
  BY DEF FindFork
<1>2. CASE s = NULL \/ t = NULL
  BY <1>1, <1>2 DEF Chain, Under, BlocksOrNull
<1>3. CASE s # NULL /\ t # NULL
  <2>1. s \in Blocks /\ t \in Blocks /\ Chain(s) = Ancestors[s] /\ Chain(t) = Ancestors[t]
    BY <1>3 DEF Chain, BlocksOrNull
  <2>2. Genesis \in F BY <2>1, GenesisIsAncestor
  <2>3. ASSUME NEW a \in F
        PROVE  a \in Blocks /\ nHeight[a] \in Nat /\ nHeight[t] \in Nat /\ nHeight[a] <= nHeight[t]
    <3>1. a \in Blocks /\ (a = t \/ nHeight[a] < nHeight[t])
      BY <2>1, AncestorsAreBlocks, AncestorsHeight
    <3> QED BY SMTT(30), <2>1, <3>1, TreeAssumption
  <2>4. D \in SUBSET Nat /\ D # {} BY SMTT(30), <2>2, <2>3
  <2>5. PICK n \in D : \A m \in D : n <= m BY <2>4, LeastNumber
  <2>6. PICK f \in F : n = nHeight[t] - nHeight[f] OBVIOUS
  <2>7. ASSUME NEW a \in F PROVE nHeight[a] <= nHeight[f]
    <3>1. nHeight[t] - nHeight[a] \in D OBVIOUS
    <3> HIDE DEF D
    <3>2. nHeight[t] - nHeight[f] <= nHeight[t] - nHeight[a] BY <2>5, <2>6, <3>1
    <3> QED BY SMTT(30), <2>3, <3>2
  <2>8. FindFork(s, t) \in F /\ \A a \in F : nHeight[a] <= nHeight[FindFork(s, t)]
    BY <1>1, <2>2, <2>7
  <2>9. FindFork(s, t) # NULL BY <2>3, <2>8, TreeAssumption
  <2> QED BY <1>3, <2>3, <2>8, <2>9 DEF Under, BlocksOrNull
<1> QED BY <1>2, <1>3

LEMMA HeightIs ==
  ASSUME NEW b \in BlocksOrNull, NEW a, Under(a, b)
  PROVE  /\ Height(a) \in Int /\ Height(b) \in Int /\ Height(a) >= -1
         /\ Height(a) <= Height(b) /\ (Height(a) = Height(b) => a = b)
<1>1. CASE b = NULL BY SMTT(30), <1>1 DEF Under, Chain, Height
<1>2. CASE b # NULL
  <2>1. b \in Blocks /\ nHeight[b] \in Nat /\ Height(b) = nHeight[b]
    BY <1>2, TreeAssumption DEF Height, BlocksOrNull
  <2>2. CASE a = NULL BY SMTT(30), <1>2, <2>1, <2>2 DEF Height
  <2>3. CASE a # NULL
    <3>1. a \in Ancestors[b] BY <1>2, <2>3 DEF Under, Chain
    <3>2. a \in Blocks /\ (a = b \/ nHeight[a] < nHeight[b])
      BY <2>1, <3>1, AncestorsAreBlocks, AncestorsHeight
    <3> QED BY SMTT(30), <2>1, <2>3, <3>2, TreeAssumption DEF Height
  <2> QED BY <2>2, <2>3
<1> QED BY <1>1, <1>2

(* The block of a chain at a height above one of its blocks. *)
LEMMA BlockAbove ==
  ASSUME NEW t \in BlocksOrNull, NEW f, Under(f, t), NEW i \in Nat \ {0},
         Height(f) + i <= Height(t)
  PROVE  LET b == GetAncestor(t, Height(f) + i) IN
         b \in Chain(t) /\ b \in Blocks /\ nHeight[b] = Height(f) + i
<1>1. Height(f) \in Int /\ Height(t) \in Int /\ Height(f) >= -1 BY HeightIs
<1>2. t \in Blocks /\ t # NULL /\ Height(t) = nHeight[t] BY SMTT(30), <1>1 DEF Height, BlocksOrNull
<1>3. Height(f) + i \in 0..nHeight[t] BY SMTT(30), <1>1, <1>2
<1>4. PICK a \in Ancestors[t] : nHeight[a] = Height(f) + i BY <1>2, <1>3, AncestorAtHeight
<1>5. GetAncestor(t, Height(f) + i) = a BY SMTT(30), <1>2, <1>3, <1>4, GetAncestorIs DEF Chain
<1> QED BY <1>2, <1>4, <1>5, AncestorsAreBlocks DEF Chain

(* Its parent is the block one height below. *)
LEMMA ParentBelow ==
  ASSUME NEW t \in Blocks, NEW a, Under(a, t), NEW c \in Chain(t),
         nHeight[c] = Height(a) + 1
  PROVE  Parent(c) = a
<1>1. c \in Blocks /\ c \in Ancestors[t] BY TreeAssumption, AncestorsAreBlocks DEF Chain
<1>2. CASE a = NULL
  <2>1. nHeight[c] = 0 BY SMTT(30), <1>2 DEF Height
  <2>2. c = Genesis
    <3> SUFFICES ASSUME c # Genesis PROVE FALSE OBVIOUS
    <3>1. nHeight[c] = nHeight[pprev[c]] + 1 /\ nHeight[pprev[c]] \in Nat
      BY <1>1, TreeAssumption
    <3> QED BY SMTT(30), <2>1, <3>1
  <2> QED BY <1>2, <2>2 DEF Parent
<1>3. CASE a # NULL
  <2>1. a \in Ancestors[t] /\ nHeight[c] = nHeight[a] + 1
    BY <1>3, TreeAssumption DEF Under, Chain, Height
  <2> QED BY <1>1, <2>1, ChildOnChain DEF Parent
<1> QED BY <1>2, <1>3

(* The callbacks of a change of the chain from s to t: the blocks of t     *)
(* from the fork on, each the parent of the next.                          *)
Connects(c, s, t) ==
  /\ c \in Seq(Events)
  /\ \A i \in DOMAIN c : c[i].type = "connected" /\ c[i].block \in Blocks
  /\ Len(c) = 0 => Under(t, s)
  /\ Len(c) > 0 => /\ c[Len(c)].block = t /\ Under(Parent(c[1].block), s)
                   /\ s = NULL => c[1].block = Genesis
  /\ \A i \in DOMAIN c : c[i].block = Genesis => s = NULL
  /\ \A i \in DOMAIN c : i # 1 => c[i - 1].block = Parent(c[i].block)

LEMMA ConnectedIs ==
  ASSUME NEW s \in BlocksOrNull, NEW t \in Blocks, NEW c, c = Connected(s, t)
  PROVE  Connects(c, s, t)
<1> DEFINE f == FindFork(s, t)
           n == Height(t) - Height(f)
<1>1. t \in BlocksOrNull /\ t # NULL BY TreeAssumption DEF BlocksOrNull
<1>2. f \in BlocksOrNull /\ Under(f, s) /\ Under(f, t) /\ (f = NULL <=> s = NULL)
  BY <1>1, FindForkIs
<1> HIDE DEF f
<1>3. /\ Height(f) \in Int /\ Height(t) \in Int /\ Height(f) >= -1 /\ Height(f) <= Height(t)
      /\ (Height(f) = Height(t) => f = t)
  BY <1>1, <1>2, HeightIs
<1>4. n \in Nat BY SMTT(30), <1>3
<1>5. c = [i \in 1..n |-> [type |-> "connected", block |-> GetAncestor(t, Height(f) + i)]]
  BY DEF Connected, f
<1>6. ASSUME NEW i \in 1..n
      PROVE  /\ c[i].type = "connected" /\ c[i].block = GetAncestor(t, Height(f) + i)
             /\ c[i].block \in Chain(t) /\ c[i].block \in Blocks
             /\ nHeight[c[i].block] = Height(f) + i
             /\ c[i] \in Events
  <2>1. c[i] = [type |-> "connected", block |-> GetAncestor(t, Height(f) + i)] BY <1>5
  <2>2. i \in Nat \ {0} /\ Height(f) + i <= Height(t) BY SMTT(30), <1>3
  <2>3. LET b == GetAncestor(t, Height(f) + i) IN
        b \in Chain(t) /\ b \in Blocks /\ nHeight[b] = Height(f) + i
    BY <1>1, <1>2, <2>2, BlockAbove
  <2> QED BY SMTT(30), <2>1, <2>3 DEF Events
<1>7. c \in Seq(Events) /\ Len(c) = n /\ DOMAIN c = 1..n BY SMTT(30), <1>4, <1>5, <1>6
<1> HIDE DEF n
<1>8. ASSUME Len(c) = 0 PROVE Under(t, s)
  <2>1. f = t BY SMTT(30), <1>3, <1>7, <1>8 DEF n
  <2> QED BY <1>2, <2>1
<1>9. ASSUME Len(c) > 0
      PROVE  /\ c[Len(c)].block = t /\ Parent(c[1].block) = f
             /\ s = NULL => c[1].block = Genesis
  <2>1. n \in 1..n /\ 1 \in 1..n BY SMTT(30), <1>4, <1>7, <1>9
  <2>2. nHeight[t] = Height(f) + n /\ nHeight[t] \in Int /\ t \in Chain(t)
    BY SMTT(30), <1>1, <1>3, ChainType DEF n, Height
  <2>3. c[n].block = t BY SMTT(30), <1>1, <1>6, <2>1, <2>2, GetAncestorIs
  <2>4. Parent(c[1].block) = f BY <1>2, <1>6, <2>1, ParentBelow
  <2>5. s = NULL => c[1].block = Genesis BY <1>2, <1>6, <2>1, <2>4, ParentIs
  <2> QED BY <1>7, <2>3, <2>4, <2>5
<1>10. ASSUME NEW i \in 1..n, i # 1 PROVE c[i - 1].block = Parent(c[i].block)
  <2>1. i - 1 \in 1..n BY SMTT(30), <1>4, <1>10
  <2>2. /\ nHeight[c[i].block] = Height(f) + i /\ nHeight[c[i - 1].block] = Height(f) + (i - 1)
        /\ c[i].block \in Chain(t) /\ c[i - 1].block \in Chain(t)
        /\ c[i].block \in Blocks /\ c[i - 1].block \in Blocks
    BY <1>6, <2>1
  <2>3. Height(c[i - 1].block) = nHeight[c[i - 1].block] BY <2>2, TreeAssumption DEF Height
  <2>4. nHeight[c[i].block] = Height(c[i - 1].block) + 1 BY SMTT(30), <1>3, <2>2, <2>3
  <2> QED BY <2>2, <2>4, ParentBelow DEF Under
<1>11. ASSUME NEW i \in 1..n, c[i].block = Genesis PROVE s = NULL
  <2>1. nHeight[c[i].block] = Height(f) + i /\ nHeight[Genesis] = 0 BY <1>6, TreeAssumption
  <2>2. Height(f) <= -1 BY SMTT(30), <1>3, <1>11, <2>1
  <2>3. f = NULL BY SMTT(30), <1>2, <2>2, TreeAssumption DEF Height, BlocksOrNull
  <2> QED BY <1>2, <2>3
<1>12. \A i \in DOMAIN c : c[i].type = "connected" /\ c[i].block \in Blocks BY <1>6, <1>7
<1> QED BY <1>2, <1>7, <1>8, <1>9, <1>10, <1>11, <1>12 DEF Connects

(* The next block of the sync thread continues the chain of its fork. *)
LEMMA NextSyncBlockIs ==
  ASSUME NEW b \in BlocksOrNull, tip \in BlocksOrNull
  PROVE  /\ NextSyncBlock(b) = NULL => Under(tip, b)
         /\ NextSyncBlock(b) # NULL =>
              /\ NextSyncBlock(b) \in Blocks /\ Under(Parent(NextSyncBlock(b)), b)
              /\ Parent(NextSyncBlock(b)) = NULL => b = NULL
<1> DEFINE f == FindFork(b, tip)
<1>1. f \in BlocksOrNull /\ Under(f, b) /\ Under(f, tip) /\ (f = NULL <=> b = NULL \/ tip = NULL)
  BY FindForkIs
<1>2. NextSyncBlock(b) = GetAncestor(tip, Height(f) + 1) BY DEF NextSyncBlock
<1> HIDE DEF f
<1>3. /\ Height(f) \in Int /\ Height(tip) \in Int /\ Height(f) <= Height(tip)
      /\ (Height(f) = Height(tip) => f = tip)
  BY <1>1, HeightIs
<1>4. ASSUME NextSyncBlock(b) = NULL PROVE Under(tip, b)
  <2>1. ~(Height(f) + 1 <= Height(tip)) BY SMTT(30), <1>1, <1>2, <1>4, BlockAbove, TreeAssumption
  <2>2. f = tip BY SMTT(30), <1>3, <2>1
  <2> QED BY <1>1, <2>2
<1>5. ASSUME NextSyncBlock(b) # NULL
      PROVE  /\ NextSyncBlock(b) \in Blocks /\ Parent(NextSyncBlock(b)) = f
             /\ f = NULL => b = NULL
  <2>1. NextSyncBlock(b) \in Chain(tip) /\ nHeight[NextSyncBlock(b)] = Height(f) + 1
    BY SMTT(30), <1>2, <1>3, <1>5, GetAncestorIs
  <2>2. tip # NULL /\ tip \in Blocks BY <2>1 DEF Chain, BlocksOrNull
  <2>3. NextSyncBlock(b) \in Blocks BY <2>1, ChainType
  <2> QED BY <1>1, <2>1, <2>2, <2>3, ParentBelow
<1> QED BY <1>1, <1>4, <1>5

(* A callback is ignored unless its block continues the index's chain. *)
LEMMA IgnoredIs ==
  ASSUME NEW b \in Blocks, m_best_block_index \in BlocksOrNull
  PROVE  Ignored(b) <=>
           ~m_synced \/ (m_best_block_index # NULL /\ ~Under(Parent(b), m_best_block_index))
<1> SUFFICES ASSUME m_best_block_index # NULL
             PROVE  GetAncestor(m_best_block_index, nHeight[b] - 1) = Parent(b) <=>
                      Under(Parent(b), m_best_block_index)
  BY DEF Ignored
<1>1. nHeight[b] - 1 \in Int BY SMTT(30), TreeAssumption
<1>2. CASE b = Genesis
  <2>1. Parent(b) = NULL /\ nHeight[b] - 1 = -1 BY SMTT(30), <1>2, TreeAssumption DEF Parent
  <2>2. GetAncestor(m_best_block_index, nHeight[b] - 1) = NULL
    BY SMTT(30), <1>1, <2>1, GetAncestorIs, ChainType, TreeAssumption
  <2> QED BY <2>1, <2>2 DEF Under
<1>3. CASE b # Genesis
  BY SMTT(30), <1>1, <1>3, ParentIs, GetAncestorIs DEF Under
<1> QED BY <1>2, <1>3

-----------------------------------------------------------------------------
(* The database of the index *)

LEMMA HeightsOf == ASSUME NEW b \in Blocks PROVE nHeight[b] \in Heights /\ nHeight[b] \in Nat
  BY TreeAssumption DEF Heights

(* CustomAppend on top of the chain that the height index holds. *)
LEMMA AppendSound ==
  ASSUME NEW d \in Databases, Sound(d), NEW b \in Blocks,
         Holds(d, Parent(b)), Under(d.best, Parent(b))
  PROVE  LET e == [d EXCEPT !.height[nHeight[b]] = [block |-> b, val |-> b]] IN
         /\ e \in Databases /\ Sound(e) /\ Holds(e, b)
         /\ e.best = d.best /\ e.hash = d.hash
         /\ \A h \in Heights : d.height[h].block # NULL => e.height[h].block # NULL
<1> DEFINE e == [d EXCEPT !.height[nHeight[b]] = [block |-> b, val |-> b]]
<1>1. nHeight[b] \in Heights /\ b # NULL /\ b \in BlocksOrNull /\ b \in States
  BY HeightsOf, TreeAssumption DEF BlocksOrNull, States
<1>2. /\ e.best = d.best /\ e.hash = d.hash /\ e.muhash = d.muhash
      /\ e.height = [d.height EXCEPT ![nHeight[b]] = [block |-> b, val |-> b]]
  BY DEF Databases
<1>3. e \in Databases BY <1>1 DEF Databases
<1>4. \A h \in Heights : e.height[h] = IF h = nHeight[b] THEN [block |-> b, val |-> b] ELSE d.height[h]
  BY <1>1, <1>2 DEF Databases
<1> HIDE DEF e
<1>5. Holds(e, b)
  <2> SUFFICES ASSUME NEW a \in Chain(b) PROVE e.height[nHeight[a]].block = a BY DEF Holds
  <2>1. CASE a = b BY SMTT(30), <1>1, <1>4, <2>1
  <2>2. CASE a \in Chain(Parent(b))
    <3>1. a \in Blocks /\ nHeight[a] < nHeight[b] BY <2>2, ParentIs, ChainType
    <3>2. nHeight[a] \in Heights /\ nHeight[a] # nHeight[b] BY SMTT(30), <3>1, HeightsOf
    <3> QED BY <1>4, <2>2, <3>2 DEF Holds
  <2> QED BY <2>1, <2>2, ParentIs
<1>6. Holds(e, e.best)
  <2>1. Under(d.best, b) BY <1>1, ParentIs, UnderTransitive
  <2>2. Chain(d.best) \subseteq Chain(b) BY <1>1, <2>1, ChainTransitive DEF Under, Chain
  <2> QED BY <1>2, <1>5, <2>2 DEF Holds
<1>7. Sound(e) BY SMTT(30), <1>1, <1>2, <1>4, <1>6 DEF Sound
<1>8. \A h \in Heights : d.height[h].block # NULL => e.height[h].block # NULL BY SMTT(30), <1>1, <1>4
<1> QED BY <1>2, <1>3, <1>5, <1>7, <1>8 DEF e

(* Commit of a best block whose chain the height index holds. *)
LEMMA CommitSound ==
  ASSUME NEW d \in Databases, Sound(d), NEW m \in BlocksOrNull, Holds(d, m)
  PROVE  LET e == Commit(d, m, m) IN
         /\ e \in Databases /\ Sound(e) /\ Holds(e, m)
         /\ e.height = d.height /\ e.hash = d.hash
         /\ e.best = IF m = NULL THEN d.best ELSE m
<1> DEFINE e == Commit(d, m, m)
<1>1. CASE m = NULL BY <1>1 DEF Commit
<1>2. CASE m # NULL
  <2>1. e = [d EXCEPT !.best = m, !.muhash = m] BY <1>2 DEF Commit
  <2>2. /\ e \in Databases /\ e.best = m /\ e.muhash = m
        /\ e.height = d.height /\ e.hash = d.hash
    BY <2>1 DEF Databases, States
  <2> HIDE DEF e
  <2>3. Holds(e, m) BY <2>2 DEF Holds
  <2> QED BY <1>2, <2>2, <2>3 DEF Sound, e
<1> QED BY <1>1, <1>2

(* Rewind keeps what it leaves in the hash index. *)
LEMMA CopySound ==
  ASSUME NEW d \in Databases, Sound(d), NEW new \in Blocks, NEW current \in Blocks,
         Holds(d, current)
  PROVE  LET e == CopyHeightIndexToHashIndex(d, new, current) IN
         /\ e \in Databases /\ Sound(e) /\ e.height = d.height /\ e.best = d.best
         /\ \A b \in Blocks : d.hash[b] = b => e.hash[b] = b
         /\ \A a \in Chain(current) : nHeight[a] >= nHeight[new] => e.hash[a] = a
<1> DEFINE e == CopyHeightIndexToHashIndex(d, new, current)
           Copied(b) == nHeight[b] \in nHeight[new]..nHeight[current]
                          /\ d.height[nHeight[b]].block = b
<1>1. e = [d EXCEPT !.hash = [b \in Blocks |->
             IF Copied(b) THEN d.height[nHeight[b]].val ELSE d.hash[b]]]
  BY DEF CopyHeightIndexToHashIndex
<1>2. /\ e.height = d.height /\ e.best = d.best /\ e.muhash = d.muhash
      /\ e.hash = [b \in Blocks |-> IF Copied(b) THEN d.height[nHeight[b]].val ELSE d.hash[b]]
  BY <1>1 DEF Databases
<1>3. \A b \in Blocks : e.hash[b] = IF Copied(b) THEN b ELSE d.hash[b]
  BY <1>2, HeightsOf DEF Sound
<1>4. e \in Databases BY SMTT(30), <1>1, HeightsOf DEF Databases
<1> HIDE DEF e, Copied
<1>5. Sound(e) BY <1>2, <1>3 DEF Sound, Holds
<1>6. \A b \in Blocks : d.hash[b] = b => e.hash[b] = b BY <1>3
<1>7. ASSUME NEW a \in Chain(current), nHeight[a] >= nHeight[new] PROVE e.hash[a] = a
  <2>1. a \in Ancestors[current] /\ a \in Blocks
    BY AncestorsAreBlocks, TreeAssumption DEF Chain
  <2>2. a = current \/ nHeight[a] < nHeight[current] BY <2>1, AncestorsHeight
  <2>3. nHeight[a] \in nHeight[new]..nHeight[current] BY SMTT(30), <1>7, <2>1, <2>2, TreeAssumption
  <2>4. Copied(a) BY <2>3 DEF Copied, Holds
  <2> QED BY <1>3, <2>1, <2>4
<1> QED BY <1>2, <1>4, <1>5, <1>6, <1>7 DEF e

-----------------------------------------------------------------------------
(* The queue of callbacks *)

LEMMA EventsAre ==
  ASSUME NEW q \in Seq(Events), NEW i \in DOMAIN q
  PROVE  q[i].type \in {"connected", "flushed", "sync"}
         /\ (q[i].type # "sync" => q[i].block \in Blocks)
<1>1. q[i] \in Events BY SMTT(30)
<1> QED BY SMTT(30), <1>1 DEF Events

LEMMA ConcatIs ==
  ASSUME NEW q \in Seq(Events), NEW c \in Seq(Events)
  PROVE  /\ q \o c \in Seq(Events) /\ Len(q \o c) = Len(q) + Len(c)
         /\ Len(q) \in Nat /\ Len(c) \in Nat
         /\ DOMAIN q = 1..Len(q) /\ DOMAIN (q \o c) = 1..(Len(q) + Len(c))
         /\ \A i \in 1..Len(q) : (q \o c)[i] = q[i]
         /\ \A i \in (Len(q) + 1)..(Len(q) + Len(c)) : (q \o c)[i] = c[i - Len(q)]
  BY SMTT(30)

LEMMA AppendIs ==
  ASSUME NEW q \in Seq(Events), NEW e \in Events
  PROVE  /\ Append(q, e) \in Seq(Events) /\ Len(Append(q, e)) = Len(q) + 1 /\ Len(q) \in Nat
         /\ DOMAIN q = 1..Len(q) /\ DOMAIN Append(q, e) = 1..(Len(q) + 1)
         /\ \A i \in 1..Len(q) : Append(q, e)[i] = q[i]
         /\ Append(q, e)[Len(q) + 1] = e
  BY SMTT(30)

LEMMA TailIs ==
  ASSUME NEW q \in Seq(Events), q # <<>>
  PROVE  /\ Tail(q) \in Seq(Events) /\ Len(Tail(q)) = Len(q) - 1 /\ Len(q) \in Nat \ {0}
         /\ DOMAIN q = 1..Len(q) /\ DOMAIN Tail(q) = 1..(Len(q) - 1)
         /\ \A i \in 1..(Len(q) - 1) : Tail(q)[i] = q[i + 1]
         /\ Head(q) = q[1]
  BY SMTT(30)

(* A callback that connects no block is appended. *)
LEMMA AppendQueue ==
  ASSUME pending \in Seq(Events), NEW e \in Events, e.type # "connected",
         pending' = Append(pending, e), Queue, tip' = tip
  PROVE  /\ Queue' /\ pending' \in Seq(Events)
         /\ \A i \in DOMAIN pending : i \in DOMAIN pending' /\ pending'[i] = pending[i]
         /\ \A i \in DOMAIN pending' :
              i \in DOMAIN pending \/ (i = Len(pending) + 1 /\ pending'[i] = e)
         /\ \A i : IsConnected(i)' <=> IsConnected(i)
         /\ \A i, j : NoneBetween(i, j)' <=> NoneBetween(i, j)
         /\ \A t, n : Leads(t, n) => Leads(t, n)'
<1>1. /\ Len(pending') = Len(pending) + 1 /\ Len(pending) \in Nat
      /\ DOMAIN pending = 1..Len(pending) /\ DOMAIN pending' = 1..(Len(pending) + 1)
      /\ \A i \in 1..Len(pending) : pending'[i] = pending[i]
      /\ pending'[Len(pending) + 1] = e /\ pending' \in Seq(Events)
  BY AppendIs
<1>2. \A i : IsConnected(i)' <=> IsConnected(i)
  BY SMTT(30), <1>1 DEF IsConnected
<1>3. \A i : IsConnected(i) => i \in DOMAIN pending BY DEF IsConnected
<1>4. \A i, j : NoneBetween(i, j)' <=> NoneBetween(i, j)
  BY SMTT(30), <1>1, <1>2, <1>3 DEF NoneBetween
<1>5. \A t, n : Leads(t, n) => Leads(t, n)'
  BY <1>1, <1>2, <1>3, <1>4 DEF Leads
<1>6. ASSUME NEW i \in DOMAIN pending', IsConnected(i)', NoneBetween(i, Len(pending) + 1)'
      PROVE  tip \in Chain(pending'[i].block)
  <2>1. i \in DOMAIN pending /\ IsConnected(i) /\ i < Len(pending) + 1
    BY SMTT(30), <1>1, <1>2, <1>3, <1>6
  <2>2. NoneBetween(i, Len(pending) + 1)
    BY SMTT(30), <1>1, <1>2, <1>3, <1>6 DEF NoneBetween
  <2> QED BY <1>1, <2>1, <2>2 DEF Leads, Queue
<1>7. Queue' BY <1>1, <1>2, <1>3, <1>4, <1>6 DEF Queue, Leads, Chain
<1> QED BY SMTT(30), <1>1, <1>2, <1>4, <1>5, <1>7

(* The first callback is taken from the queue. *)
LEMMA PopQueue ==
  ASSUME pending \in Seq(Events), pending # <<>>, pending' = Tail(pending), Queue, tip' = tip
  PROVE  /\ Queue' /\ pending' \in Seq(Events)
         /\ \A i \in DOMAIN pending' :
              i + 1 \in DOMAIN pending /\ i \in Nat \ {0} /\ pending'[i] = pending[i + 1]
         /\ \A i \in DOMAIN pending : i # 1 => i - 1 \in DOMAIN pending' /\ i \in Nat \ {0}
         /\ \A i \in Nat \ {0} : IsConnected(i)' <=> IsConnected(i + 1)
         /\ \A i \in Nat, j \in Nat : NoneBetween(i, j)' <=> NoneBetween(i + 1, j + 1)
         /\ \A t : \A n \in Nat : Leads(t, n + 1) => Leads(t, n)'
<1>1. /\ Len(pending') = Len(pending) - 1 /\ Len(pending) \in Nat \ {0}
      /\ DOMAIN pending = 1..Len(pending) /\ DOMAIN pending' = 1..(Len(pending) - 1)
      /\ \A i \in 1..(Len(pending) - 1) : pending'[i] = pending[i + 1]
      /\ pending' \in Seq(Events)
  BY TailIs
<1>2. \A i \in Nat \ {0} : IsConnected(i)' <=> IsConnected(i + 1)
  BY SMTT(30), <1>1 DEF IsConnected
<1>3. ASSUME NEW i \in Nat, NEW j \in Nat
      PROVE  NoneBetween(i, j)' <=> NoneBetween(i + 1, j + 1)
  <2>1. ASSUME NoneBetween(i, j)', NEW k \in DOMAIN pending, i + 1 < k, k < j + 1
        PROVE  ~IsConnected(k)
    <3>1. k - 1 \in DOMAIN pending' /\ k - 1 \in Nat \ {0} /\ i < k - 1 /\ k - 1 < j
          /\ (k - 1) + 1 = k
      BY SMTT(30), <1>1, <2>1
    <3>2. ~IsConnected(k - 1)' BY <2>1, <3>1 DEF NoneBetween
    <3>3. ~IsConnected((k - 1) + 1) BY <1>2, <3>1, <3>2
    <3> QED BY <3>1, <3>3
  <2>2. ASSUME NoneBetween(i + 1, j + 1), NEW k \in DOMAIN pending', i < k, k < j
        PROVE  ~IsConnected(k)'
    <3>1. k + 1 \in DOMAIN pending /\ k \in Nat \ {0} /\ i + 1 < k + 1 /\ k + 1 < j + 1
      BY SMTT(30), <1>1, <2>2
    <3> QED BY <1>2, <2>2, <3>1 DEF NoneBetween
  <2> QED BY <2>1, <2>2 DEF NoneBetween
<1>4. ASSUME NEW t, NEW n \in Nat, Leads(t, n + 1), NEW i \in DOMAIN pending',
             IsConnected(i)', i < n, NoneBetween(i, n)'
      PROVE  t \in Chain(pending'[i].block)
  <2>1. /\ i + 1 \in DOMAIN pending /\ i \in Nat \ {0} /\ i + 1 < n + 1
        /\ pending'[i] = pending[i + 1]
    BY SMTT(30), <1>1, <1>4
  <2>2. IsConnected(i + 1) /\ NoneBetween(i + 1, n + 1) BY <1>2, <1>3, <1>4, <2>1
  <2> QED BY <1>4, <2>1, <2>2 DEF Leads
<1>5. \A t : \A n \in Nat : Leads(t, n + 1) => Leads(t, n)' BY <1>4 DEF Leads, Chain
<1>6. ASSUME NEW i \in DOMAIN pending', NEW j \in DOMAIN pending', IsConnected(i)',
             IsConnected(j)', i < j, NoneBetween(i, j)'
      PROVE  Parent(pending'[j].block) \in Chain(pending'[i].block)
  <2>1. /\ i + 1 \in DOMAIN pending /\ i \in Nat \ {0} /\ i + 1 < j + 1
        /\ pending'[i] = pending[i + 1]
        /\ j + 1 \in DOMAIN pending /\ j \in Nat \ {0} /\ pending'[j] = pending[j + 1]
    BY SMTT(30), <1>1, <1>6
  <2>2. IsConnected(i + 1) /\ IsConnected(j + 1) /\ NoneBetween(i + 1, j + 1)
    BY <1>2, <1>3, <1>6, <2>1
  <2> QED BY <2>1, <2>2 DEF Queue
<1>7. Leads(tip, Len(pending) + 1)'
  <2>1. PICK t, n : t = tip /\ n = Len(pending) OBVIOUS
  <2>2. Leads(t, n + 1) /\ n \in Nat BY <1>1, <2>1 DEF Queue
  <2>3. Leads(t, n)' BY <1>5, <2>2
  <2>4. t = tip' /\ n = Len(pending') + 1 BY SMTT(30), <1>1, <2>1
  <2> QED BY <2>3, <2>4 DEF Leads
<1>8. Queue' BY <1>6, <1>7 DEF Queue, Parent, Chain
<1>9. \A i \in DOMAIN pending' :
        i + 1 \in DOMAIN pending /\ i \in Nat \ {0} /\ pending'[i] = pending[i + 1]
  BY SMTT(30), <1>1
<1>10. \A i \in DOMAIN pending : i # 1 => i - 1 \in DOMAIN pending' /\ i \in Nat \ {0}
  BY SMTT(30), <1>1
<1> QED BY <1>1, <1>2, <1>3, <1>5, <1>8, <1>9, <1>10

(* It is not about the index: a block that does not fit is skipped. *)
LEMMA PopSkipped ==
  ASSUME pending \in Seq(Events), pending # <<>>, pending' = Tail(pending), Queue, tip' = tip,
         Heading' = Heading, IsConnected(1) => ~Under(Parent(pending[1].block), Heading)
  PROVE  /\ \A t : \A n \in Nat : Fits(t, n + 1) => Fits(t, n)'
         /\ Following => Following'
<1>1. /\ Len(pending') = Len(pending) - 1 /\ Len(pending) \in Nat \ {0}
      /\ DOMAIN pending = 1..Len(pending) /\ DOMAIN pending' = 1..(Len(pending) - 1)
  BY TailIs
<1>2. /\ \A i \in DOMAIN pending' :
           i + 1 \in DOMAIN pending /\ i \in Nat \ {0} /\ pending'[i] = pending[i + 1]
      /\ \A i \in DOMAIN pending : i # 1 => i - 1 \in DOMAIN pending' /\ i \in Nat \ {0}
      /\ \A i \in Nat \ {0} : IsConnected(i)' <=> IsConnected(i + 1)
      /\ \A i \in Nat, j \in Nat : NoneBetween(i, j)' <=> NoneBetween(i + 1, j + 1)
  BY PopQueue
<1>3. ASSUME NEW t, NEW n \in Nat, Fits(t, n + 1) PROVE Fits(t, n)'
  <2>1. CASE Under(t, Heading)
    <3>1. Under(t, Heading') BY <2>1
    <3> QED BY <3>1 DEF Fits, Under
  <2>2. CASE ~Under(t, Heading)
    <3>1. PICK i \in DOMAIN pending :
            IsConnected(i) /\ i < n + 1 /\ Under(Parent(pending[i].block), Heading)
      BY <1>3, <2>2 DEF Fits
    <3>2. i # 1 BY <3>1
    <3>3. i - 1 \in DOMAIN pending' /\ i - 1 \in Nat \ {0} /\ (i - 1) + 1 = i /\ i - 1 < n
      BY SMTT(30), <1>1, <1>2, <3>1, <3>2
    <3>4. IsConnected(i - 1)' /\ pending'[i - 1] = pending[i] BY <1>2, <3>1, <3>3
    <3>5. Under(Parent(pending'[i - 1].block), Heading') BY <3>1, <3>4
    <3> QED BY <3>3, <3>4, <3>5 DEF Fits, Under, Parent
  <2> QED BY <2>1, <2>2
<1>4. ASSUME Following, Heading' = NULL, NEW i \in DOMAIN pending'
      PROVE  /\ IsConnected(i)' /\ NoneBetween(0, i)' => pending'[i].block = Genesis
             /\ pending'[i].type = "flushed" => ~NoneBetween(0, i)'
  <2>1. 1 \in DOMAIN pending /\ NoneBetween(0, 1) BY SMTT(30), <1>1 DEF NoneBetween
  <2>2. ~IsConnected(1)
    <3> SUFFICES ASSUME IsConnected(1) PROVE FALSE OBVIOUS
    <3>1. pending[1].block = Genesis BY <1>4, <2>1 DEF Following
    <3> QED BY <3>1 DEF Under, Parent
  <2>3. i + 1 \in DOMAIN pending /\ i \in Nat \ {0} /\ pending'[i] = pending[i + 1]
        /\ (IsConnected(i)' <=> IsConnected(i + 1))
    BY <1>2
  <2>4. NoneBetween(0, i)' <=> NoneBetween(0 + 1, i + 1) BY <1>2, <2>3
  <2>5. NoneBetween(1, i + 1) <=> NoneBetween(0, i + 1) BY SMTT(30), <1>1, <2>2 DEF NoneBetween
  <2> QED BY SMTT(30), <1>4, <2>3, <2>4, <2>5 DEF Following
<1>5. ASSUME Following PROVE Fits(tip, Len(pending) + 1)'
  <2>1. PICK t, n : t = tip /\ n = Len(pending) OBVIOUS
  <2>2. Fits(t, n + 1) /\ n \in Nat BY <1>1, <1>5, <2>1 DEF Following
  <2>3. Fits(t, n)' BY <1>3, <2>2
  <2>4. t = tip' /\ n = Len(pending') + 1 BY SMTT(30), <1>1, <2>1
  <2> QED BY <2>3, <2>4 DEF Fits
<1> QED BY <1>3, <1>4, <1>5 DEF Following

(* The block fits: the callbacks after it start from there. *)
LEMMA PopTaken ==
  ASSUME pending \in Seq(Events), pending # <<>>, pending' = Tail(pending), Queue, tip' = tip,
         IsConnected(1), Heading' = pending[1].block
  PROVE  /\ \A t : \A n \in Nat \ {0} : Leads(t, n + 1) => Fits(t, n)'
         /\ Following'
<1>1. /\ Len(pending') = Len(pending) - 1 /\ Len(pending) \in Nat \ {0}
      /\ DOMAIN pending = 1..Len(pending) /\ DOMAIN pending' = 1..(Len(pending) - 1)
  BY TailIs
<1>2. /\ \A i \in DOMAIN pending' :
           i + 1 \in DOMAIN pending /\ i \in Nat \ {0} /\ pending'[i] = pending[i + 1]
      /\ \A i \in DOMAIN pending : i # 1 => i - 1 \in DOMAIN pending' /\ i \in Nat \ {0}
      /\ \A i \in Nat \ {0} : IsConnected(i)' <=> IsConnected(i + 1)
  BY PopQueue
<1>3. 1 \in DOMAIN pending /\ pending[1].block \in Blocks /\ pending[1].block # NULL
  BY <1>1, EventsAre, TreeAssumption DEF IsConnected
<1>4. ASSUME NEW t, NEW n \in Nat \ {0}, Leads(t, n + 1) PROVE Fits(t, n)'
  <2> DEFINE S == {j \in DOMAIN pending : IsConnected(j) /\ 1 < j /\ j < n + 1}
  <2>1. CASE S = {}
    <3>1. NoneBetween(1, n + 1) BY <2>1 DEF NoneBetween
    <3>2. Under(t, pending[1].block) BY SMTT(30), <1>3, <1>4, <3>1 DEF Leads, Under
    <3>3. Under(t, Heading') BY <3>2
    <3> QED BY <3>3 DEF Fits, Under
  <2>2. CASE S # {}
    <3>1. S \in SUBSET Nat BY SMTT(30), <1>1
    <3>2. PICK j \in S : \A k \in S : j <= k BY <2>2, <3>1, LeastNumber
    <3>3. NoneBetween(1, j)
      <4> SUFFICES ASSUME NEW k \in DOMAIN pending, 1 < k, k < j, IsConnected(k) PROVE FALSE
        BY DEF NoneBetween
      <4>1. k \in S BY SMTT(30), <1>1, <3>2
      <4> HIDE DEF S
      <4>2. j <= k /\ j \in Nat /\ k \in Nat BY <3>1, <3>2, <4>1
      <4> QED BY SMTT(30), <4>2
    <3>4. Parent(pending[j].block) \in Chain(pending[1].block) BY <1>3, <3>2, <3>3 DEF Queue
    <3>5. j \in 1..Len(pending) /\ 1 < j /\ j < n + 1 /\ IsConnected(j) BY <1>1
    <3>6. j - 1 \in DOMAIN pending' /\ j - 1 \in Nat \ {0} /\ (j - 1) + 1 = j /\ j - 1 < n
      BY SMTT(30), <1>1, <3>5
    <3>7. IsConnected(j - 1)' /\ pending'[j - 1] = pending[j] BY <1>2, <3>5, <3>6
    <3>8. Under(Parent(pending'[j - 1].block), Heading') BY <3>4, <3>7 DEF Under
    <3> QED BY <3>6, <3>7, <3>8 DEF Fits, Under, Parent
  <2> QED BY <2>1, <2>2
<1>5. Fits(tip, Len(pending) + 1)'
  <2>1. PICK t, n : t = tip /\ n = Len(pending) OBVIOUS
  <2>2. Leads(t, n + 1) /\ n \in Nat \ {0} BY <1>1, <2>1 DEF Queue
  <2>3. Fits(t, n)' BY <1>4, <2>2
  <2>4. t = tip' /\ n = Len(pending') + 1 BY SMTT(30), <1>1, <2>1
  <2> QED BY <2>3, <2>4 DEF Fits
<1> QED BY <1>3, <1>4, <1>5 DEF Following

LEMMA NextInt == ASSUME NEW i \in Int, NEW j \in Int, i <= j, ~(i < j) PROVE i = j
  BY SMTT(30)

(* The chain changes: the blocks it connects are appended. *)
LEMMA ConcatQueue ==
  ASSUME pending \in Seq(Events), tip \in BlocksOrNull, Heading \in BlocksOrNull,
         NEW t \in Blocks, tip' = t, pending' = pending \o Connected(tip, t), Queue,
         Heading' = Heading
  PROVE  /\ Queue' /\ pending' \in Seq(Events) /\ (Following => Following')
         /\ \A i \in DOMAIN pending : i \in DOMAIN pending' /\ pending'[i] = pending[i]
         /\ \A i \in DOMAIN pending' : i \in DOMAIN pending \/ pending'[i].type = "connected"
         /\ \A s : \A n \in DOMAIN pending : /\ Leads(s, n) => Leads(s, n)'
                                             /\ Fits(s, n) => Fits(s, n)'
         /\ (tip # NULL /\ \A i \in DOMAIN pending : IsConnected(i) => pending[i].block # Genesis)
            => \A i \in DOMAIN pending' : IsConnected(i)' => pending'[i].block # Genesis
<1>0. PICK c, m, k : c = Connected(tip, t) /\ m = Len(pending) /\ k = Len(c) OBVIOUS
<1>1. /\ c \in Seq(Events)
      /\ \A i \in DOMAIN c : c[i].type = "connected" /\ c[i].block \in Blocks
      /\ Len(c) = 0 => Under(t, tip)
      /\ Len(c) > 0 => /\ c[Len(c)].block = t /\ Under(Parent(c[1].block), tip)
                       /\ tip = NULL => c[1].block = Genesis
      /\ \A i \in DOMAIN c : c[i].block = Genesis => tip = NULL
      /\ \A i \in DOMAIN c : i # 1 => c[i - 1].block = Parent(c[i].block)
  <2>1. Connects(c, tip, t) BY <1>0, ConnectedIs
  <2> QED BY <2>1 DEF Connects
<1>2. /\ pending' \in Seq(Events) /\ Len(pending') = m + k /\ m \in Nat /\ k \in Nat
      /\ DOMAIN pending = 1..m /\ DOMAIN pending' = 1..(m + k) /\ DOMAIN c = 1..k
      /\ \A i \in 1..m : pending'[i] = pending[i]
      /\ \A i \in (m + 1)..(m + k) : pending'[i] = c[i - m]
  BY <1>0, <1>1, ConcatIs
<1>3. \A i : IsConnected(i)' <=> (IsConnected(i) \/ i \in (m + 1)..(m + k))
  <2> SUFFICES ASSUME NEW i PROVE IsConnected(i)' <=> (IsConnected(i) \/ i \in (m + 1)..(m + k))
    OBVIOUS
  <2>1. CASE i \in 1..m BY SMTT(30), <1>2, <2>1 DEF IsConnected
  <2>2. CASE i \in (m + 1)..(m + k)
    <3>1. i - m \in DOMAIN c /\ i \in 1..(m + k) BY SMTT(30), <1>2, <2>2
    <3>2. c[i - m].type = "connected" BY <1>1, <3>1
    <3> QED BY <1>2, <2>2, <3>1, <3>2 DEF IsConnected
  <2>3. CASE i \notin 1..(m + k)
    <3>1. i \notin 1..m /\ i \notin (m + 1)..(m + k) BY SMTT(30), <1>2, <2>3
    <3> QED BY <1>2, <2>3, <3>1 DEF IsConnected
  <2>4. i \in 1..(m + k) => i \in 1..m \/ i \in (m + 1)..(m + k) BY SMTT(30), <1>2
  <2> QED BY <2>1, <2>2, <2>3, <2>4
<1>4. \A i : IsConnected(i) => i \in 1..m BY <1>2 DEF IsConnected
<1>5. ASSUME NEW i, NEW j \in 1..(m + 1) PROVE NoneBetween(i, j)' <=> NoneBetween(i, j)
  <2>1. \A x \in DOMAIN pending' : x < j => x \in DOMAIN pending /\ x \notin (m + 1)..(m + k)
    BY SMTT(30), <1>2
  <2>2. \A x \in DOMAIN pending : x \in DOMAIN pending' BY SMTT(30), <1>2
  <2> QED BY <1>3, <2>1, <2>2 DEF NoneBetween
<1>6. ASSUME NEW s, NEW n \in 1..m, Leads(s, n) PROVE Leads(s, n)'
  <2> SUFFICES ASSUME NEW i \in DOMAIN pending', IsConnected(i)', i < n, NoneBetween(i, n)'
               PROVE  s \in Chain(pending'[i].block)
    BY DEF Leads, Chain
  <2>1. i \in 1..m BY SMTT(30), <1>2
  <2>2. IsConnected(i) /\ NoneBetween(i, n) /\ pending'[i] = pending[i]
    BY SMTT(30), <1>2, <1>3, <1>5, <2>1
  <2> QED BY <1>2, <1>6, <2>1, <2>2 DEF Leads
<1>7. ASSUME NEW s, NEW n \in 1..m, Fits(s, n) PROVE Fits(s, n)'
  <2>1. CASE Under(s, Heading)
    <3>1. Under(s, Heading') BY <2>1
    <3> QED BY <3>1 DEF Fits, Under
  <2>2. CASE ~Under(s, Heading)
    <3>1. PICK i \in DOMAIN pending :
            IsConnected(i) /\ i < n /\ Under(Parent(pending[i].block), Heading)
      BY <1>7, <2>2 DEF Fits
    <3>2. i \in DOMAIN pending' /\ IsConnected(i)' /\ pending'[i] = pending[i] BY SMTT(30), <1>2, <1>3, <3>1
    <3>3. Under(Parent(pending'[i].block), Heading') BY <3>1, <3>2
    <3> QED BY <3>1, <3>2, <3>3 DEF Fits, Under, Parent
  <2> QED BY <2>1, <2>2
<1>8. ASSUME k > 0 PROVE m + k \in DOMAIN pending' /\ IsConnected(m + k)' /\ pending'[m + k].block = t
                         /\ m + 1 \in DOMAIN pending' /\ IsConnected(m + 1)'
                         /\ pending'[m + 1] = c[1]
  <2>1. m + k \in (m + 1)..(m + k) /\ m + 1 \in (m + 1)..(m + k) /\ (m + k) - m = k /\ (m + 1) - m = 1
    BY SMTT(30), <1>2, <1>8
  <2>2. pending'[m + k] = c[k] /\ pending'[m + 1] = c[1] BY <1>2, <2>1
  <2>3. c[k].block = t BY <1>0, <1>1, <1>8
  <2>4. m + k \in 1..(m + k) /\ m + 1 \in 1..(m + k) BY SMTT(30), <1>2, <1>8
  <2> QED BY <1>2, <1>3, <2>1, <2>2, <2>3, <2>4
<1>9. ASSUME NEW i \in DOMAIN pending', NEW j \in DOMAIN pending', IsConnected(i)',
             IsConnected(j)', i < j, NoneBetween(i, j)'
      PROVE  Parent(pending'[j].block) \in Chain(pending'[i].block)
  <2>1. i \in 1..(m + k) /\ j \in 1..(m + k) BY <1>2
  <2>2. CASE j <= m
    <3>1. i \in 1..m /\ j \in 1..m BY SMTT(30), <1>2, <1>9, <2>1, <2>2
    <3>2. IsConnected(i) /\ IsConnected(j) /\ NoneBetween(i, j) BY SMTT(30), <1>2, <1>3, <1>5, <1>9, <3>1
    <3> QED BY <1>2, <1>9, <3>1, <3>2 DEF Queue
  <2>3. CASE j = m + 1
    <3>1. i \in 1..m /\ m + 1 \in 1..(m + 1) /\ k > 0 BY SMTT(30), <1>2, <1>9, <2>1, <2>3
    <3>2. IsConnected(i) /\ NoneBetween(i, m + 1) BY SMTT(30), <1>2, <1>3, <1>5, <1>9, <2>3, <3>1
    <3>3. tip \in Chain(pending[i].block) BY SMTT(30), <1>0, <1>2, <3>1, <3>2 DEF Queue, Leads
    <3>4. pending[i].block \in Blocks BY <1>2, <3>1, <3>2, EventsAre DEF IsConnected
    <3>5. tip \in Blocks /\ tip # NULL BY <3>3, <3>4, ChainType, TreeAssumption DEF BlocksOrNull
    <3>6. 1 \in DOMAIN c BY SMTT(30), <1>2, <3>1
    <3>7. Under(Parent(c[1].block), tip) /\ Parent(c[1].block) # NULL
      BY <1>0, <1>1, <3>1, <3>5, <3>6, ParentIs
    <3>8. Parent(c[1].block) \in Chain(tip) BY <3>7 DEF Under
    <3>9. Parent(c[1].block) \in Chain(pending[i].block)
      BY <3>3, <3>4, <3>8, ChainTransitive DEF BlocksOrNull
    <3> QED BY <1>2, <1>8, <2>3, <3>1, <3>9
  <2>4. CASE j > m + 1
    <3>1. j - 1 \in (m + 1)..(m + k) /\ j - 1 \in DOMAIN pending' /\ j \in (m + 1)..(m + k)
          /\ j - m \in 1..k /\ j - m # 1 /\ (j - m) - 1 = (j - 1) - m
      BY SMTT(30), <1>2, <2>1, <2>4
    <3>2. i = j - 1
      <4>1. ~(i < j - 1)
        <5>1. IsConnected(j - 1)' /\ j - 1 < j BY SMTT(30), <1>2, <1>3, <2>1, <3>1
        <5> QED BY <1>9, <3>1, <5>1 DEF NoneBetween
      <4>2. i \in Int /\ j - 1 \in Int /\ i <= j - 1 BY SMTT(30), <1>9, <2>1
      <4> QED BY <4>1, <4>2, NextInt
    <3>3. pending'[j] = c[j - m] /\ pending'[i] = c[(j - m) - 1] BY <1>2, <3>1, <3>2
    <3>4. Parent(pending'[j].block) = pending'[i].block BY <1>1, <1>2, <3>1, <3>3
    <3>5. pending'[i].block \in Blocks BY <1>2, <1>9, EventsAre DEF IsConnected
    <3> QED BY <3>4, <3>5, ChainType, TreeAssumption DEF BlocksOrNull
  <2>5. m \in Nat /\ j \in Int BY SMTT(30), <1>2, <2>1
  <2>6. j <= m \/ j = m + 1 \/ j > m + 1 BY SMTT(30), <2>5
  <2> QED BY <2>2, <2>3, <2>4, <2>6
<1>10. ASSUME NEW i \in DOMAIN pending', IsConnected(i)', NoneBetween(i, Len(pending) + 1)'
       PROVE  t \in Chain(pending'[i].block)
  <2>1. i \in 1..(m + k) BY <1>2
  <2>2. CASE k = 0
    <3>1. i \in 1..m /\ m + 1 \in 1..(m + 1) /\ Len(pending') + 1 = m + 1 /\ i < m + 1
      BY SMTT(30), <1>2, <2>1, <2>2
    <3>2. NoneBetween(i, m + 1)
      BY SMTT(30), <1>2, <1>3, <1>10, <3>1 DEF NoneBetween
    <3>3. IsConnected(i) BY SMTT(30), <1>2, <1>3, <1>10, <3>1
    <3>4. tip \in Chain(pending[i].block) BY <1>0, <1>2, <3>1, <3>2, <3>3 DEF Queue, Leads
    <3>5. pending[i].block \in Blocks BY <1>2, <3>1, <3>3, EventsAre DEF IsConnected
    <3>6. t \in Chain(tip) BY <1>0, <1>1, <2>2, TreeAssumption DEF Under
    <3>7. t \in Chain(pending[i].block) BY <3>4, <3>5, <3>6, ChainTransitive DEF BlocksOrNull
    <3> QED BY <1>2, <3>1, <3>7
  <2>3. CASE k > 0
    <3>1. i = m + k
      <4>1. m + k < Len(pending') + 1 BY SMTT(30), <1>2
      <4>2. m + k \in DOMAIN pending' /\ IsConnected(m + k)' BY <1>8, <2>3
      <4>3. ~(i < m + k) BY <1>10, <4>1, <4>2 DEF NoneBetween
      <4>4. m \in Nat /\ k \in Nat BY <1>2
      <4> QED BY SMTT(30), <2>1, <4>3, <4>4
    <3> QED BY <1>8, <2>3, <3>1, ChainType, TreeAssumption DEF BlocksOrNull
  <2> QED BY SMTT(30), <1>2, <2>2, <2>3
<1>11. Queue' BY <1>9, <1>10 DEF Queue, Leads, Parent, Chain
<1>12. ASSUME tip # NULL, \A i \in DOMAIN pending : IsConnected(i) => pending[i].block # Genesis,
              NEW i \in DOMAIN pending', IsConnected(i)'
       PROVE  pending'[i].block # Genesis
  <2>1. CASE i \in 1..m BY SMTT(30), <1>2, <1>3, <1>12, <2>1
  <2>2. CASE i \in (m + 1)..(m + k)
    <3>1. i - m \in DOMAIN c BY SMTT(30), <1>2, <2>2
    <3> QED BY <1>1, <1>2, <1>12, <2>2, <3>1
  <2> QED BY SMTT(30), <1>2, <2>1, <2>2
<1>13. \A i \in DOMAIN pending' : i \in DOMAIN pending \/ pending'[i].type = "connected"
  BY SMTT(30), <1>2, <1>3 DEF IsConnected
<1>14. ASSUME Following PROVE Fits(tip, Len(pending) + 1)'
  <2>1. CASE \E i \in DOMAIN pending :
               IsConnected(i) /\ i < m + 1 /\ Under(Parent(pending[i].block), Heading)
    <3>1. PICK i \in DOMAIN pending : IsConnected(i) /\ Under(Parent(pending[i].block), Heading)
      BY <2>1
    <3>2. i \in DOMAIN pending' /\ IsConnected(i)' /\ pending'[i] = pending[i]
          /\ i < Len(pending') + 1
      BY SMTT(30), <1>2, <1>3, <3>1
    <3>3. Under(Parent(pending'[i].block), Heading') BY <3>1, <3>2
    <3> QED BY <3>2, <3>3 DEF Fits, Under, Parent
  <2>2. CASE Under(tip, Heading) /\ k = 0
    <3>1. Under(t, Heading') BY <1>0, <1>1, <2>2, UnderTransitive
    <3> QED BY <3>1 DEF Fits, Under
  <2>3. CASE Under(tip, Heading) /\ k > 0
    <3>1. Under(Parent(c[1].block), Heading) BY <1>0, <1>1, <2>3, UnderTransitive
    <3>2. Under(Parent(pending'[m + 1].block), Heading') BY <1>8, <2>3, <3>1
    <3>3. m + 1 < Len(pending') + 1 BY SMTT(30), <1>2, <2>3
    <3> QED BY <1>8, <2>3, <3>2, <3>3 DEF Fits, Under, Parent
  <2>4. k = 0 \/ k > 0 BY SMTT(30), <1>2
  <2> QED BY <1>0, <1>14, <2>1, <2>2, <2>3, <2>4 DEF Following, Fits
<1>15. ASSUME Following, Heading' = NULL, NEW i \in DOMAIN pending'
       PROVE  /\ IsConnected(i)' /\ NoneBetween(0, i)' => pending'[i].block = Genesis
              /\ pending'[i].type = "flushed" => ~NoneBetween(0, i)'
  <2>1. CASE i \in 1..m
    <3>1. i \in 1..(m + 1) BY SMTT(30), <1>2, <2>1
    <3> QED BY <1>2, <1>3, <1>5, <1>15, <2>1, <3>1 DEF Following, IsConnected
  <2>2. CASE i \notin 1..m
    <3>1. i \in (m + 1)..(m + k) /\ k > 0 BY SMTT(30), <1>2, <2>2
    <3>2. IsConnected(i)' BY <1>3, <3>1
    <3>3. pending'[i].type # "flushed" BY <3>2 DEF IsConnected
    <3>4. ASSUME NoneBetween(0, i)' PROVE pending'[i].block = Genesis
      <4>1. m + 1 \in DOMAIN pending' /\ IsConnected(m + 1)' BY <1>8, <3>1
      <4>2. 0 < m + 1 /\ m + 1 \in Int /\ i \in Int /\ m + 1 <= i BY SMTT(30), <1>2, <3>1
      <4>3. i = m + 1
        <5>1. ~(m + 1 < i) BY <3>4, <4>1, <4>2 DEF NoneBetween
        <5> QED BY <4>2, <5>1, NextInt
      <4>4. NoneBetween(0, m + 1)
        <5>1. m + 1 \in 1..(m + 1) BY SMTT(30), <1>2
        <5> QED BY <1>5, <3>4, <4>3, <5>1
      <4>5. Under(tip, Heading)
        <5> SUFFICES ASSUME NEW j \in DOMAIN pending, IsConnected(j), j < m + 1 PROVE FALSE
          BY <1>0, <1>15 DEF Following, Fits
        <5>1. 0 < j BY SMTT(30), <1>2
        <5> QED BY <4>4, <5>1 DEF NoneBetween
      <4>6. tip = NULL BY <1>15, <4>5 DEF Under, Chain
      <4> QED BY <1>0, <1>1, <1>8, <3>1, <4>3, <4>6
    <3> QED BY <3>3, <3>4
  <2> QED BY <2>1, <2>2
<1>16. Following => Following' BY <1>14, <1>15 DEF Following
<1> QED BY SMTT(30), <1>2, <1>6, <1>7, <1>11, <1>12, <1>13, <1>16

-----------------------------------------------------------------------------
(* The steps *)

LEMMA NoEvents == <<>> \in Seq(Events) /\ DOMAIN <<>> = {}
<1>1. <<>> \in Seq(Events) /\ Len(<<>>) = 0 BY SMTT(30)
<1>2. DOMAIN <<>> = 1..Len(<<>>) BY SMTT(30), <1>1
<1> QED BY SMTT(30), <1>1, <1>2

LEMMA InitIInv == Init => IInv
<1> SUFFICES ASSUME Init PROVE IInv OBVIOUS
<1>1. PICK t \in BlocksOrNull : tip = t /\ known = Chain(t) /\ disk = [tip |-> t, known |-> Chain(t)]
  BY DEF Init
<1>2. NULL \in BlocksOrNull /\ NULL \in States /\ Chain(NULL) = {}
  BY DEF BlocksOrNull, States, Chain
<1>3. TypeOK
  <2>1. Chain(t) \subseteq Blocks BY <1>1, ChainType
  <2>2. db \in Databases BY <1>2 DEF Init, Databases
  <2>3. reader \in [pc : {"idle", "wait", "true"}, block : BlocksOrNull]
    BY <1>2 DEF Init, NoReader
  <2>4. pending \in Seq(Events) BY NoEvents DEF Init
  <2>5. /\ tip \in BlocksOrNull /\ known \in SUBSET Blocks
        /\ disk \in [tip : BlocksOrNull, known : SUBSET Blocks]
    BY <1>1, <2>1
  <2>6. changes \in 0..MaxTipChanges /\ stops \in 0..MaxStops
    <3>1. changes = 0 /\ stops = 0 BY DEF Init
    <3> QED BY SMTT(30), <3>1, IndexAssumption
  <2> QED BY <1>2, <2>2, <2>3, <2>4, <2>5, <2>6 DEF Init, TypeOK
<1>4. Sound(db) BY <1>2 DEF Init, Sound, Holds
<1> QED BY <1>3, <1>4 DEF Init, IInv, AtRest, Running, CallbacksDoNotFail

(* The process ends. *)
LEMMA EndedStep ==
  ASSUME IInv, NEW why \in {"", "current_tip", "genesis"}, Ended(why),
         UNCHANGED <<disk, changes, db>>, stops' \in 0..MaxStops
  PROVE  IInv'
<1>1. TypeOK'
  <2>1. NULL \in BlocksOrNull /\ NULL \in States /\ NoReader \in [pc : {"idle", "wait", "true"}, block : BlocksOrNull]
    BY DEF BlocksOrNull, States, NoReader
  <2>2. pending' \in Seq(Events) BY NoEvents DEF Ended
  <2>3. /\ tip' \in BlocksOrNull /\ known' \in SUBSET Blocks
        /\ disk' \in [tip : BlocksOrNull, known : SUBSET Blocks]
    BY DEF Ended, IInv, TypeOK
  <2>4. db' \in Databases /\ changes' \in 0..MaxTipChanges BY DEF IInv, TypeOK
  <2> QED BY <2>1, <2>2, <2>3, <2>4 DEF TypeOK, Ended
<1> QED BY <1>1 DEF IInv, Ended, Sound, Holds, AtRest, Running, CallbacksDoNotFail, NoReader

LEMMA StopStep == ASSUME IInv, Crash \/ Exit PROVE IInv'
<1>1. Ended("") /\ UNCHANGED <<disk, changes, db>> BY DEF Crash, Exit
<1>2. stops' \in 0..MaxStops
  <2>1. stops \in 0..MaxStops BY DEF IInv, TypeOK
  <2>2. CASE Crash
    <3>1. stops < MaxStops /\ stops' = stops + 1 BY <2>2 DEF Crash
    <3> QED BY SMTT(30), <2>1, <3>1, IndexAssumption
  <2>3. CASE Exit BY <2>1, <2>3 DEF Exit
  <2> QED BY <2>2, <2>3
<1> QED BY <1>1, <1>2, EndedStep

LEMMA FailStep ==
  ASSUME IInv, NEW why \in {"", "current_tip", "genesis"}, Fail(why) PROVE IInv'
<1>1. stops \in 0..MaxStops BY DEF IInv, TypeOK
<1> QED BY <1>1, EndedStep DEF Fail

LEMMA StartStep == ASSUME IInv, Start PROVE IInv'
<1>1. /\ node = "down" /\ AtRest /\ TypeOK /\ Sound(db)
      /\ UNCHANGED <<tip, known, disk, changes, pending, db, syncPc, pindex, cbPc, cbBlock, reader, failed, stops>>
  BY DEF Start, IInv, chainVars, syncVars, cbVars
<1>2. CASE node' = "refused" /\ UNCHANGED <<m_best_block_index, m_synced, m_muhash>>
  <2>1. TypeOK' BY <1>1, <1>2 DEF TypeOK
  <2>2. Sound(db)' /\ AtRest' /\ CallbacksDoNotFail'
    BY <1>1, <1>2 DEF Sound, Holds, AtRest, CallbacksDoNotFail, IInv, NoReader
  <2> QED BY <1>2, <2>1, <2>2 DEF IInv, Running
<1>3. CASE /\ node' = "up" /\ m_best_block_index' = db.best /\ m_muhash' = db.muhash
           /\ m_synced' = (db.best = tip)
  <2>1. db.best \in BlocksOrNull /\ db.muhash = db.best /\ Holds(db, db.best)
    BY <1>1 DEF TypeOK, Databases, Sound
  <2>2. TypeOK' BY <1>1, <1>3, <2>1 DEF TypeOK, States
  <2>3. Sound(db)' /\ CallbacksDoNotFail' BY <1>1 DEF Sound, Holds, CallbacksDoNotFail, IInv
  <2>4. Position'
    BY <1>1, <1>3, <2>1, ChainType DEF Position, AtRest, Holds, Under
  <2>5. Queue' /\ Promised'
    BY SMTT(30), <1>1 DEF Queue, Leads, Promised, AtRest, NoReader, IsConnected
  <2>6. m_synced' => Following'
    <3> SUFFICES ASSUME m_synced' PROVE Following' OBVIOUS
    <3>1. tip' = db.best /\ Heading' = db.best /\ pending' = <<>>
      BY <1>1, <1>3 DEF Heading, AtRest
    <3>2. Under(tip', Heading') BY <2>1, <3>1, ChainType
    <3> QED BY SMTT(30), <3>1, <3>2 DEF Following, Fits, Under
  <2> QED BY <1>3, <2>2, <2>3, <2>4, <2>5, <2>6 DEF IInv, Running
<1> QED BY <1>2, <1>3 DEF Start

-----------------------------------------------------------------------------
(* What a step that leaves the queue, the chain and the index alone keeps. *)

LEMMA QueueSame ==
  ASSUME UNCHANGED <<pending, tip>>
  PROVE  /\ Queue => Queue'
         /\ \A t, n : Leads(t, n) => Leads(t, n)'
         /\ Heading' = Heading => (Following => Following')
                                  /\ \A t, n : Fits(t, n) => Fits(t, n)'
<1>1. \A i : IsConnected(i)' <=> IsConnected(i) BY DEF IsConnected
<1>2. \A i, j : NoneBetween(i, j)' <=> NoneBetween(i, j) BY <1>1 DEF NoneBetween
<1>3. \A t, n : Leads(t, n) => Leads(t, n)' BY <1>1, <1>2 DEF Leads, Chain
<1>4. Queue => Queue' BY <1>1, <1>2 DEF Queue, Leads, Chain, Parent
<1>5. ASSUME Heading' = Heading, NEW t, NEW n, Fits(t, n) PROVE Fits(t, n)'
  <2>1. CASE Under(t, Heading)
    <3>1. Under(t, Heading') BY <1>5, <2>1
    <3> QED BY <3>1 DEF Fits, Under
  <2>2. CASE ~Under(t, Heading)
    <3>1. PICK i \in DOMAIN pending :
            IsConnected(i) /\ i < n /\ Under(Parent(pending[i].block), Heading)
      BY <1>5, <2>2 DEF Fits
    <3>2. i \in DOMAIN pending' /\ IsConnected(i)' /\ Under(Parent(pending'[i].block), Heading')
      BY <1>1, <1>5, <3>1
    <3> QED BY <3>1, <3>2 DEF Fits, Under, Parent
  <2> QED BY <2>1, <2>2
<1>6. ASSUME Heading' = Heading, Following PROVE Following'
  <2>1. Fits(tip, Len(pending) + 1)'
    <3>1. PICK t, n : t = tip /\ n = Len(pending) + 1 OBVIOUS
    <3>2. Fits(t, n)' BY <1>5, <1>6, <3>1 DEF Following
    <3>3. t = tip' /\ n = Len(pending') + 1 BY <3>1
    <3> QED BY <3>2, <3>3 DEF Fits
  <2> QED BY <1>1, <1>2, <1>6, <2>1 DEF Following
<1> QED BY <1>3, <1>4, <1>5, <1>6

LEMMA PromisedSame ==
  ASSUME TypeOK, Promised, UNCHANGED <<pending, tip, reader, m_synced>>, Heading' = Heading \/ ~m_synced,
         \A b \in Blocks : Kept(b) => Kept(b)'
  PROVE  Promised'
<1>1. PICK rb : rb = reader.block OBVIOUS
<1>2. reader.pc # "idle" => rb \in Blocks
  BY <1>1 DEF TypeOK, Promised, BlocksOrNull
<1>3. reader'.block = rb /\ reader'.pc = reader.pc BY <1>1
<1>4. reader.pc = "true" => Kept(reader.block)'
  <2>1. reader.pc = "true" => Kept(rb)' BY <1>1, <1>2 DEF Promised
  <2> QED BY <1>3, <2>1 DEF Kept
<1>5. ASSUME reader.pc = "wait", NEW i \in DOMAIN pending, pending[i].type = "sync"
      PROVE  Kept(reader.block)' \/ (Leads(reader.block, i)' /\ Fits(reader.block, i)')
  <2>1. Heading' = Heading BY <1>5 DEF Promised
  <2>2. Kept(rb) \/ (Leads(rb, i) /\ Fits(rb, i)) BY <1>1, <1>5 DEF Promised
  <2>3. Kept(rb)' \/ (Leads(rb, i)' /\ Fits(rb, i)')
    BY <1>2, <1>5, <2>1, <2>2, QueueSame
  <2> QED BY <1>3, <2>3 DEF Kept, Leads, Fits
<1> QED BY <1>1, <1>3, <1>4, <1>5 DEF Promised

LEMMA KeptSame ==
  ASSUME UNCHANGED <<m_muhash, db>> PROVE \A b \in Blocks : Kept(b) => Kept(b)'
  BY DEF Kept

LEMMA PositionSame ==
  ASSUME Position, UNCHANGED <<m_best_block_index, m_synced, m_muhash, db, syncPc, pindex, cbPc, cbBlock>>,
         tip' = tip \/ (tip' # NULL /\ CsMainFree)
  PROVE  Position'
<1>1. tip' = tip => (Rewinding => Rewinding') BY DEF Rewinding, NextSyncBlock
<1> QED BY <1>1 DEF Position, Holds, Under, CsMainFree

LEMMA FlushBlockIndexStep == ASSUME IInv, FlushBlockIndex PROVE IInv'
<1>1. /\ UNCHANGED <<node, tip, known, changes, pending, indexVars, syncVars, cbVars, reader, failed, stops>>
      /\ disk' = [disk EXCEPT !.known = known]
  BY DEF FlushBlockIndex
<1> USE DEF indexVars, syncVars, cbVars
<1>2. TypeOK' BY <1>1 DEF IInv, TypeOK
<1>3. Sound(db)' /\ CallbacksDoNotFail' /\ (AtRest => AtRest') /\ Heading' = Heading
  BY <1>1 DEF IInv, Sound, Holds, CallbacksDoNotFail, AtRest, Heading
<1>4. Running' => Running BY <1>1 DEF Running
<1>5. ASSUME Running PROVE Position' /\ Queue' /\ (m_synced' => Following') /\ Promised'
  BY <1>1, <1>3, <1>5, PositionSame, QueueSame, PromisedSame, KeptSame DEF IInv
<1> QED BY <1>1, <1>2, <1>3, <1>4, <1>5 DEF IInv

LEMMA StartBackgroundSyncStep == ASSUME IInv, StartBackgroundSync PROVE IInv'
<1>1. /\ node = "up" /\ syncPc = "off"
      /\ syncPc' = (IF m_synced THEN "done" ELSE "loop") /\ pindex' = m_best_block_index
      /\ UNCHANGED <<node, chainVars, pending, indexVars, cbVars, reader, failed, stops>>
  BY DEF StartBackgroundSync
<1> USE DEF indexVars, chainVars, cbVars
<1>2. TypeOK /\ Sound(db) /\ Position /\ Queue /\ (m_synced => Following) /\ Promised
  BY <1>1 DEF IInv, Running
<1>3. TypeOK' BY <1>1, <1>2 DEF TypeOK
<1>4. Sound(db)' /\ CallbacksDoNotFail' /\ Heading' = Heading
  BY <1>1 DEF IInv, Sound, Holds, CallbacksDoNotFail, Heading
<1>5. Position' BY <1>1, <1>2 DEF Position, Holds, Under
<1>6. Queue' /\ (m_synced' => Following') /\ Promised'
  BY <1>1, <1>2, <1>4, QueueSame, PromisedSame, KeptSame
<1> QED BY <1>1, <1>3, <1>4, <1>5, <1>6 DEF IInv

(* A callback that connects no block is queued. *)
LEMMA FitsAppend ==
  ASSUME pending \in Seq(Events), NEW e \in Events, e.type # "connected",
         pending' = Append(pending, e), Queue, tip' = tip, Heading' = Heading
  PROVE  /\ \A t, n : Fits(t, n) => Fits(t, n)'
         /\ Following /\ (e.type = "flushed" => tip # NULL) => Following'
<1>1. /\ Len(pending') = Len(pending) + 1 /\ Len(pending) \in Nat
      /\ DOMAIN pending = 1..Len(pending) /\ DOMAIN pending' = 1..(Len(pending) + 1)
  BY AppendIs
<1>2. /\ \A i \in DOMAIN pending : i \in DOMAIN pending' /\ pending'[i] = pending[i]
      /\ \A i \in DOMAIN pending' :
           i \in DOMAIN pending \/ (i = Len(pending) + 1 /\ pending'[i] = e)
      /\ \A i : IsConnected(i)' <=> IsConnected(i)
      /\ \A i, j : NoneBetween(i, j)' <=> NoneBetween(i, j)
  BY AppendQueue
<1>3. ASSUME NEW t, NEW n, Fits(t, n) PROVE Fits(t, n)'
  <2>1. CASE Under(t, Heading)
    <3>1. Under(t, Heading') BY <2>1
    <3> QED BY <3>1 DEF Fits, Under
  <2>2. CASE ~Under(t, Heading)
    <3>1. PICK i \in DOMAIN pending :
            IsConnected(i) /\ i < n /\ Under(Parent(pending[i].block), Heading)
      BY <1>3, <2>2 DEF Fits
    <3>2. i \in DOMAIN pending' /\ IsConnected(i)' /\ Under(Parent(pending'[i].block), Heading')
      BY <1>2, <3>1
    <3> QED BY <3>1, <3>2 DEF Fits, Under, Parent
  <2> QED BY <2>1, <2>2
<1>4. ASSUME Following PROVE Fits(tip, Len(pending) + 1)'
  <2>1. PICK t, n : t = tip /\ n = Len(pending) + 1 OBVIOUS
  <2>2. Fits(t, n)' BY <1>3, <1>4, <2>1 DEF Following
  <2>3. t = tip' /\ n < Len(pending') + 1 /\ n \in Nat /\ Len(pending') + 1 \in Nat BY SMTT(30), <1>1, <2>1
  <2>4. \A i \in DOMAIN pending' : i < n => i < Len(pending') + 1 BY SMTT(30), <1>1, <2>3
  <2> QED BY <2>2, <2>3, <2>4 DEF Fits
<1>5. ASSUME Following, e.type = "flushed" => tip # NULL, Heading' = NULL, NEW i \in DOMAIN pending'
      PROVE  /\ IsConnected(i)' /\ NoneBetween(0, i)' => pending'[i].block = Genesis
             /\ pending'[i].type = "flushed" => ~NoneBetween(0, i)'
  <2>1. CASE i \in DOMAIN pending BY <1>2, <1>5, <2>1 DEF Following
  <2>2. CASE i = Len(pending) + 1 /\ pending'[i] = e
    <3>1. ~IsConnected(i)' BY <2>2 DEF IsConnected
    <3>2. ASSUME e.type = "flushed" PROVE ~NoneBetween(0, i)
      <4>1. ~Under(tip, Heading) BY <1>5, <3>2 DEF Under, Chain
      <4>2. PICK j \in DOMAIN pending : IsConnected(j) /\ j < Len(pending) + 1
        BY <1>5, <4>1 DEF Following, Fits
      <4>3. 0 < j BY SMTT(30), <1>1
      <4> QED BY <2>2, <4>2, <4>3 DEF NoneBetween
    <3> QED BY <1>2, <2>2, <3>1, <3>2
  <2> QED BY <1>2, <2>1, <2>2
<1> QED BY <1>3, <1>4, <1>5 DEF Following

LEMMA PromisedAppend ==
  ASSUME TypeOK, Queue, Promised, NEW e \in Events, e.type = "flushed",
         pending' = Append(pending, e), tip' = tip, Heading' = Heading,
         UNCHANGED <<reader, m_synced, m_muhash, db>>
  PROVE  Promised'
<1>0. pending \in Seq(Events) BY DEF TypeOK
<1>1. PICK rb : rb = reader.block OBVIOUS
<1>2. reader.pc # "idle" => rb \in Blocks
  BY <1>1 DEF TypeOK, Promised, BlocksOrNull
<1>3. reader'.block = rb /\ reader'.pc = reader.pc BY <1>1
<1>4. Kept(rb) <=> Kept(rb)' BY DEF Kept
<1>5. reader.pc = "true" => Kept(reader.block)' BY <1>1, <1>3, <1>4 DEF Kept, Promised
<1>6. /\ \A i \in DOMAIN pending : i \in DOMAIN pending' /\ pending'[i] = pending[i]
      /\ \A i \in DOMAIN pending' :
           i \in DOMAIN pending \/ (i = Len(pending) + 1 /\ pending'[i] = e)
      /\ \A t, n : Leads(t, n) => Leads(t, n)'
  BY <1>0, AppendQueue
<1>7. \A t, n : Fits(t, n) => Fits(t, n)' BY <1>0, FitsAppend
<1>8. \A i \in DOMAIN pending' : pending'[i].type = "sync" => i \in DOMAIN pending /\ pending[i].type = "sync"
  BY <1>6
<1>9. ASSUME reader.pc = "wait", NEW i \in DOMAIN pending', pending'[i].type = "sync"
      PROVE  Kept(reader.block)' \/ (Leads(reader.block, i)' /\ Fits(reader.block, i)')
  <2>1. Kept(rb) \/ (Leads(rb, i) /\ Fits(rb, i)) BY <1>1, <1>8, <1>9 DEF Promised
  <2>2. Kept(rb)' \/ (Leads(rb, i)' /\ Fits(rb, i)') BY <1>4, <1>6, <1>7, <2>1
  <2> QED BY <1>3, <2>2 DEF Kept, Leads, Fits
<1> QED BY <1>1, <1>3, <1>5, <1>8, <1>9 DEF Promised

(* FlushStateToDisk, and Shutdown when there is a chain. *)
LEMMA FlushedStep ==
  ASSUME IInv, node = "up", node' \in {"up", "stopping"}, tip # NULL, stops' \in 0..MaxStops,
         disk' = [tip |-> tip, known |-> known],
         pending' = Append(pending, [type |-> "flushed", block |-> tip]),
         UNCHANGED <<tip, known, changes, indexVars, syncVars, cbVars, reader, failed>>
  PROVE  IInv'
<1> USE DEF indexVars, syncVars, cbVars
<1>1. PICK e : e = [type |-> "flushed", block |-> tip] OBVIOUS
<1>2. TypeOK /\ Sound(db) /\ Position /\ Queue /\ (m_synced => Following) /\ Promised /\ tip \in Blocks
  BY DEF IInv, Running, TypeOK, BlocksOrNull
<1>3. e \in Events /\ e.type = "flushed" /\ pending \in Seq(Events) BY <1>1, <1>2 DEF Events, TypeOK
<1>4. Queue' /\ pending' \in Seq(Events) BY <1>1, <1>2, <1>3, AppendQueue
<1>5. TypeOK' BY <1>2, <1>4 DEF TypeOK
<1>6. Sound(db)' /\ CallbacksDoNotFail' /\ Heading' = Heading
  BY <1>2 DEF IInv, Sound, Holds, CallbacksDoNotFail, Heading
<1>7. Position' BY <1>2, PositionSame
<1>8. m_synced' => Following' BY <1>1, <1>2, <1>3, <1>6, FitsAppend
<1>9. Promised' BY <1>1, <1>2, <1>3, <1>6, PromisedAppend
<1> QED BY <1>4, <1>5, <1>6, <1>7, <1>8, <1>9 DEF IInv

LEMMA FlushStateToDiskStep == ASSUME IInv, FlushStateToDisk PROVE IInv'
<1>1. stops' \in 0..MaxStops BY DEF IInv, TypeOK, FlushStateToDisk
<1> QED BY <1>1, FlushedStep DEF FlushStateToDisk

LEMMA ShutdownStep == ASSUME IInv, Shutdown PROVE IInv'
<1>1. /\ node = "up" /\ node' = "stopping" /\ stops < MaxStops /\ stops' = stops + 1
      /\ UNCHANGED <<tip, known, changes, indexVars, syncVars, cbVars, reader, failed>>
  BY DEF Shutdown
<1>2. stops' \in 0..MaxStops
  <2>1. stops \in 0..MaxStops BY DEF IInv, TypeOK
  <2> QED BY SMTT(30), <1>1, <2>1, IndexAssumption
<1>3. CASE tip # NULL BY <1>1, <1>2, <1>3, FlushedStep DEF Shutdown
<1>4. CASE tip = NULL
  <2> USE DEF indexVars, syncVars, cbVars
  <2>1. UNCHANGED <<disk, pending>> BY <1>4 DEF Shutdown
  <2>2. TypeOK' BY <1>1, <1>2, <2>1 DEF IInv, TypeOK
  <2>3. Sound(db)' /\ CallbacksDoNotFail' /\ Heading' = Heading
    BY <1>1 DEF IInv, Sound, Holds, CallbacksDoNotFail, Heading
  <2>4. Position' /\ Queue' /\ (m_synced' => Following') /\ Promised'
    BY <1>1, <2>1, <2>3, PositionSame, QueueSame, PromisedSame, KeptSame DEF IInv, Running
  <2> QED BY <1>1, <2>2, <2>3, <2>4 DEF IInv
<1> QED BY <1>3, <1>4

LEMMA ChangeTipStep == ASSUME IInv, NEW t \in Blocks, ChangeTip(t) PROVE IInv'
<1>1. /\ node = "up" /\ CsMainFree /\ changes < MaxTipChanges /\ changes' = changes + 1
      /\ tip' = t /\ known' = known \cup Chain(t) /\ pending' = pending \o Connected(tip, t)
      /\ UNCHANGED <<node, disk, m_best_block_index, m_synced, m_muhash, db, syncPc, pindex,
                     cbPc, cbBlock, reader, failed, stops>>
  BY DEF ChangeTip, indexVars, syncVars, cbVars
<1>2. TypeOK /\ Sound(db) /\ Position /\ Queue /\ (m_synced => Following) /\ Promised
      /\ CallbacksDoNotFail
  BY <1>1 DEF IInv, Running
<1>3. /\ pending \in Seq(Events) /\ tip \in BlocksOrNull /\ Heading \in BlocksOrNull
      /\ Heading' = Heading
  BY <1>1, <1>2 DEF TypeOK, Heading
<1>4. /\ Queue' /\ pending' \in Seq(Events) /\ (Following => Following')
      /\ \A i \in DOMAIN pending : i \in DOMAIN pending' /\ pending'[i] = pending[i]
      /\ \A i \in DOMAIN pending' : i \in DOMAIN pending \/ pending'[i].type = "connected"
      /\ \A s : \A n \in DOMAIN pending : /\ Leads(s, n) => Leads(s, n)'
                                          /\ Fits(s, n) => Fits(s, n)'
  BY <1>1, <1>2, <1>3, ConcatQueue
<1>5. TypeOK'
  <2>1. t \in BlocksOrNull /\ Chain(t) \subseteq Blocks BY ChainType DEF BlocksOrNull
  <2>2. changes' \in 0..MaxTipChanges
    <3>1. changes \in 0..MaxTipChanges BY <1>2 DEF TypeOK
    <3> QED BY SMTT(30), <1>1, <3>1, IndexAssumption
  <2>3. known' \in SUBSET Blocks BY <1>1, <1>2, <2>1 DEF TypeOK
  <2> QED BY <1>1, <1>2, <1>4, <2>1, <2>2, <2>3 DEF TypeOK
<1>6. Sound(db)' /\ CallbacksDoNotFail' BY <1>1, <1>2 DEF Sound, Holds, CallbacksDoNotFail
<1>7. Position' BY <1>1, <1>2, TreeAssumption, PositionSame
<1>8. Promised'
  <2>1. PICK rb : rb = reader.block OBVIOUS
  <2>2. reader'.block = rb /\ reader'.pc = reader.pc BY <1>1, <2>1
  <2>3. Kept(rb) <=> Kept(rb)' BY <1>1 DEF Kept
  <2>4. reader.pc = "true" => Kept(reader.block)' BY <1>2, <2>1, <2>2, <2>3 DEF Kept, Promised
  <2>5. \A i \in DOMAIN pending' :
          pending'[i].type = "sync" => i \in DOMAIN pending /\ pending[i].type = "sync"
    BY <1>4
  <2>6. ASSUME reader.pc = "wait", NEW i \in DOMAIN pending', pending'[i].type = "sync"
        PROVE  Kept(reader.block)' \/ (Leads(reader.block, i)' /\ Fits(reader.block, i)')
    <3>1. Kept(rb) \/ (Leads(rb, i) /\ Fits(rb, i)) BY <1>2, <2>1, <2>5, <2>6 DEF Promised
    <3>2. Kept(rb)' \/ (Leads(rb, i)' /\ Fits(rb, i)') BY <1>4, <2>3, <2>5, <2>6, <3>1
    <3> QED BY <2>2, <3>2 DEF Kept, Leads, Fits
  <2> QED BY <1>1, <1>2, <2>1, <2>2, <2>4, <2>5, <2>6 DEF Promised
<1> QED BY <1>1, <1>2, <1>4, <1>5, <1>6, <1>7, <1>8 DEF IInv, Running
===============================================================================

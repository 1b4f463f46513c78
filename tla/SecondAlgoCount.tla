--------------------------- MODULE SecondAlgoCount ---------------------------
(***************************************************************************)
(* CBlockIndex::nSecondAlgoCount, the cached number of second-algorithm    *)
(* blocks (version bit 30) since the dual-algorithm activation, and the    *)
(* schedule of GetDualAlgoWorkRequired that is computed from it.           *)
(*                                                                         *)
(* The count lives in memory only.  BlockManager sets it when a header is  *)
(* added, and LoadBlockIndex rebuilds it after a start; until it has done  *)
(* so for a block, the count of that block is unknown (-1) and the         *)
(* difficulty code walks the chain instead.                                *)
(***************************************************************************)
EXTENDS BlockTree

CONSTANTS
  nDualAlgoActivationHeight,
  SecondAlgo             \* the blocks with BLOCK_VERSION_QHASH in their nVersion

(* GetDualAlgoWorkRequired asserts nActHeight > 0. *)
ASSUME SecondAlgoAssumption ==
  nDualAlgoActivationHeight \in Nat \ {0} /\ SecondAlgo \subseteq Blocks

VARIABLES
  index,                 \* m_block_index
  disk,                  \* the block index database
  nSecondAlgoCount,
  toLoad                 \* what LoadBlockIndex has not come to yet

vars == <<index, disk, nSecondAlgoCount, toLoad>>

Unknown == -1
IsSecondAlgo(b) == IF b \in SecondAlgo THEN 1 ELSE 0

(* At start-up the index holds what the database holds, at first nothing:  *)
(* LoadGenesisBlock adds Genesis like any other block.                     *)
Init ==
  /\ index = {} /\ disk = {} /\ toLoad = {}
  /\ nSecondAlgoCount = [b \in Blocks |-> Unknown]

(* Mutant: the activation block itself is left out. *)
CountAfterActivation(b) ==
  IF nHeight[b] <= nDualAlgoActivationHeight THEN 0
  ELSE LET prev == IF b = Genesis THEN 0 ELSE nSecondAlgoCount[pprev[b]]
       IN  IF prev < 0 THEN Unknown ELSE prev + IsSecondAlgo(b)

ComputeSecondAlgoCount(b) ==
  IF nHeight[b] < nDualAlgoActivationHeight THEN 0
  ELSE LET prev == IF b = Genesis THEN 0 ELSE nSecondAlgoCount[pprev[b]]
       IN  IF prev < 0 THEN Unknown ELSE prev + IsSecondAlgo(b)

(* A header whose parent is in the index (AcceptBlockHeader). *)
AddToBlockIndex(b) ==
  /\ toLoad = {} /\ b \notin index
  /\ b # Genesis => pprev[b] \in index
  /\ index' = index \cup {b}
  /\ nSecondAlgoCount' = [nSecondAlgoCount EXCEPT ![b] = ComputeSecondAlgoCount(b)]
  /\ UNCHANGED <<disk, toLoad>>

(* All of m_dirty_blockindex in one batch. *)
WriteBlockIndexDB ==
  /\ toLoad = {} /\ disk # index
  /\ disk' = index
  /\ UNCHANGED <<index, nSecondAlgoCount, toLoad>>

(* The node stops, cleanly or not and perhaps while it loads, and starts   *)
(* again: LoadBlockIndexGuts reads the entries, without a count.           *)
Restart ==
  /\ index' = disk /\ toLoad' = disk
  /\ nSecondAlgoCount' = [b \in Blocks |-> Unknown]
  /\ UNCHANGED disk

(* vSortedByHeight: blocks of one height come in any order. *)
SortedFirst(b) == b \in toLoad /\ \A c \in toLoad : nHeight[b] <= nHeight[c]

(* One turn of the loop in LoadBlockIndex. *)
LoadBlockIndex(b) ==
  /\ SortedFirst(b)
  /\ nSecondAlgoCount' = [nSecondAlgoCount EXCEPT ![b] = ComputeSecondAlgoCount(b)]
  /\ toLoad' = toLoad \ {b}
  /\ UNCHANGED <<index, disk>>

Next ==
  \/ \E b \in Blocks : AddToBlockIndex(b) \/ LoadBlockIndex(b)
  \/ WriteBlockIndexDB
  \/ Restart

Spec == Init /\ [][Next]_vars

-----------------------------------------------------------------------------
(* The difficulty code *)

(* The second-algorithm blocks from the activation up to b. *)
CountedBlocks(b) ==
  {x \in Ancestors[b] : nHeight[x] >= nDualAlgoActivationHeight /\ x \in SecondAlgo}

(* Mutant: an unknown count is used as it is. *)
CachedCount(b) == nSecondAlgoCount[b]

(* nQhashCount: the cached count, or else a walk down the chain. *)
QhashCount(b) ==
  IF nSecondAlgoCount[b] < 0 THEN Cardinality(CountedBlocks(b)) ELSE nSecondAlgoCount[b]

nTotal(b) == nHeight[b] - (nDualAlgoActivationHeight - 1)

(* The schedule index k of the next block of an algorithm on top of b. *)
nHeightDiff(b, fQhash) == IF fQhash THEN QhashCount(b) ELSE nTotal(b) - QhashCount(b)

-----------------------------------------------------------------------------
TypeOK ==
  /\ index \subseteq Blocks /\ disk \subseteq Blocks /\ toLoad \subseteq index
  /\ nSecondAlgoCount \in [Blocks -> Int]

(* "the schedule only counts blocks of the SAME algorithm": on top of a    *)
(* block after the activation an algorithm's schedule index has grown by   *)
(* one if that block is its own, and is unchanged if not, whether the      *)
(* counts of the block and of its parent come from AddToBlockIndex, from   *)
(* LoadBlockIndex or from the walk.                                        *)
ScheduleCountsOwnBlocks ==
  \A b \in index \ {Genesis} : nHeight[b] >= nDualAlgoActivationHeight =>
    \A fQhash \in BOOLEAN :
      nHeightDiff(b, fQhash) = nHeightDiff(pprev[b], fQhash)
                               + IF (b \in SecondAlgo) = fQhash THEN 1 ELSE 0

(* "walk the chain then, which yields exactly the same value": a count     *)
(* that is not -1 is what the walk would yield.                            *)
CachedIsWalked ==
  \A b \in index : nSecondAlgoCount[b] # Unknown =>
                     nSecondAlgoCount[b] = Cardinality(CountedBlocks(b))

(* "rebuild in height order, the parent is always processed before its     *)
(* children": once LoadBlockIndex is done every count is known, so the     *)
(* walk is left to indexes that BlockManager did not build.                *)
KnownWhenLoaded == toLoad = {} => \A b \in index : nSecondAlgoCount[b] # Unknown

-----------------------------------------------------------------------------
(* The inductive invariant: the index and the database are closed under    *)
(* parents, and the blocks that are loaded already are so too.             *)
IInv ==
  /\ TypeOK
  /\ ClosedUnderParent(index) /\ ClosedUnderParent(disk)
  /\ ClosedUnderParent(index \ toLoad)
  /\ \A b \in index \ toLoad : nSecondAlgoCount[b] = Cardinality(CountedBlocks(b))
  /\ \A b \in toLoad : nSecondAlgoCount[b] = Unknown
===============================================================================

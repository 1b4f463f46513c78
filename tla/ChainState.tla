------------------------------ MODULE ChainState ------------------------------
(***************************************************************************)
(* The block tree and the choice of the active chain (Chainstate,          *)
(* ChainstateManager and BlockManager in validation.cpp and                *)
(* node/blockstorage.cpp), for one chainstate without a UTXO snapshot.     *)
(*                                                                         *)
(* Two locks matter.  m_chainstate_mutex is held by one ActivateBestChain  *)
(* or one InvalidateBlock at a time, for its whole duration.  cs_main is   *)
(* taken and released several times meanwhile, and every other operation   *)
(* (headers, blocks, reconsiderblock, preciousblock, pruning) takes only   *)
(* cs_main, so it may run between two critical sections of the holder of   *)
(* m_chainstate_mutex.  ActivateBestChain is cut into small steps inside   *)
(* its critical section; nothing else is enabled there (see CsMainFree).   *)
(*                                                                         *)
(* A block is an element of Blocks: its header (parent, proof of work) and *)
(* its validity are constants, what the node knows of it is state.         *)
(***************************************************************************)
EXTENDS BlockTree

CONSTANTS
  nChainWork,
  Address,              \* where the CBlockIndex lives: the last tie breaker
  BadContext,           \* blocks that fail ContextualCheckBlock
  BadConnect,           \* blocks that fail ConnectBlock
  SuspiciousReorgDepth, \* -suspiciousreorgdepth, 0 is off
  MinBlocksToKeep,      \* MIN_BLOCKS_TO_KEEP
  PruneAfterHeight,     \* nPruneAfterHeight of the chain parameters
  ReconsiderAny,        \* may reconsiderblock name a descendant of a failed block?
  Commands,             \* the operator commands and faults considered
  MaxCommands           \* bound: how many of them a behaviour has

ASSUME WorkAssumption ==
  /\ nChainWork \in [Blocks -> Nat]
  /\ \A b \in Blocks \ {Genesis} : nChainWork[b] > nChainWork[pprev[b]]
  /\ Address \in [Blocks -> Nat]
  /\ \A a, b \in Blocks : Address[a] = Address[b] => a = b

ASSUME ParameterAssumption ==
  /\ BadContext \subseteq Blocks /\ BadConnect \subseteq Blocks
  /\ Genesis \notin BadContext \cup BadConnect
  /\ SuspiciousReorgDepth \in Nat \ {1}
  /\ MinBlocksToKeep \in Nat /\ PruneAfterHeight \in Nat \ {0} /\ MaxCommands \in Nat
  /\ ReconsiderAny \in BOOLEAN
  /\ Commands \subseteq {"precious", "invalidate", "reconsider", "prune",
                         "shutdown", "system error"}

VARIABLES
  index,        \* m_block_index
  valid,        \* nStatus & BLOCK_VALID_MASK
  nTx,          \* blocks with nTx > 0
  nChainTx,     \* blocks with nChainTx > 0
  haveData, haveUndo,       \* BLOCK_HAVE_DATA, BLOCK_HAVE_UNDO
  failedValid, failedChild, \* BLOCK_FAILED_VALID, BLOCK_FAILED_CHILD
  failedBlocks, \* m_failed_blocks
  nSequenceId, nBlockSequenceId, nBlockReverseSequenceId,
  nLastPreciousChainwork,
  tip,          \* m_chain.Tip(): it determines m_chain
  candidates,   \* setBlockIndexCandidates
  unlinked,     \* the blocks that are values of m_blocks_unlinked
  bestHeader,   \* m_best_header
  lastStored,   \* the block in the newest block file
  abcPc, pindexMostWork, starting_tip, pindexOldTip, blocks_connected,
  invPc, invBlock, to_mark_failed, byWork,  \* byWork: candidate_blocks_by_work
  pending,      \* some caller is waiting to run ActivateBestChain
  interrupt,    \* m_interrupt: shutdown requested, by the operator or FatalError
  commands

indexVars == <<index, valid, nTx, nChainTx, haveData, haveUndo, lastStored>>
failVars == <<failedValid, failedChild, failedBlocks>>
seqVars == <<nSequenceId, nBlockSequenceId, nBlockReverseSequenceId,
             nLastPreciousChainwork>>
chainVars == <<tip, candidates, unlinked, bestHeader>>
abcVars == <<abcPc, pindexMostWork, starting_tip, pindexOldTip, blocks_connected>>
invVars == <<invPc, invBlock, to_mark_failed, byWork>>
ctlVars == <<pending, interrupt, commands>>
vars == <<indexVars, failVars, seqVars, chainVars, abcVars, invVars, ctlVars>>

BLOCK_VALID_UNKNOWN == 0
BLOCK_VALID_TREE == 2
BLOCK_VALID_TRANSACTIONS == 3
BLOCK_VALID_SCRIPTS == 5

(* m_chain.Contains *)
Contains(b) == b \in Ancestors[tip]

failed == failedValid \cup failedChild

IsValid(b, nUpTo) == b \notin failed /\ valid[b] >= nUpTo

(* CBlockIndexWorkComparator: a sorts before b, i.e. a is the worse tip. *)
WorseBy(seq, a, b) ==
  \/ nChainWork[a] < nChainWork[b]
  \/ nChainWork[a] = nChainWork[b] /\ seq[a] > seq[b]
  \/ nChainWork[a] = nChainWork[b] /\ seq[a] = seq[b] /\ Address[a] > Address[b]

Worse(a, b) == WorseBy(nSequenceId, a, b)

CsMainFree == abcPc \in {"idle", "lock"}
MutexFree == abcPc = "idle" /\ invPc = "idle"

Init ==
  /\ index = {Genesis} /\ nTx = {Genesis} /\ nChainTx = {Genesis}
  /\ haveData = {Genesis} /\ haveUndo = {} /\ lastStored = Genesis
  /\ valid = [b \in Blocks |-> IF b = Genesis THEN BLOCK_VALID_TRANSACTIONS
                                              ELSE BLOCK_VALID_UNKNOWN]
  /\ failedValid = {} /\ failedChild = {} /\ failedBlocks = {}
  /\ nSequenceId = [b \in Blocks |-> IF b = Genesis THEN 1 ELSE 0]
  /\ nBlockSequenceId = 2 /\ nBlockReverseSequenceId = -1
  /\ nLastPreciousChainwork = 0
  /\ tip = Genesis /\ candidates = {Genesis} /\ unlinked = {}
  /\ bestHeader = Genesis
  /\ abcPc = "idle" /\ pindexMostWork = NULL /\ starting_tip = NULL
  /\ pindexOldTip = NULL /\ blocks_connected = FALSE
  /\ invPc = "idle" /\ invBlock = NULL /\ to_mark_failed = NULL /\ byWork = {}
  /\ pending = FALSE /\ interrupt = FALSE /\ commands = MaxCommands

-----------------------------------------------------------------------------
(* Headers and blocks arrive: ProcessNewBlockHeaders and ProcessNewBlock.  *)

(* The m_failed_blocks entries AcceptBlockHeader finds below the parent.   *)
FailedBelow(b) ==
  IF IsValid(pprev[b], BLOCK_VALID_SCRIPTS)
  THEN {} ELSE failedBlocks \cap Ancestors[pprev[b]]

(* The checks of AcceptBlockHeader on a header that is not in the index    *)
(* yet: the parent is known and not marked failed.                         *)
NewHeader(b) ==
  b \in Blocks \ index /\ pprev[b] \in index /\ pprev[b] \notin failed

(* AddToBlockIndex, for a block that may be in the index already. *)
AddToBlockIndex(b) ==
  /\ index' = index \cup {b}
  /\ bestHeader' = IF b \notin index /\ nChainWork[bestHeader] < nChainWork[b]
                   THEN b ELSE bestHeader

RaiseValidity(b, nUpTo) ==
  IF b \notin failed /\ valid[b] < nUpTo THEN [valid EXCEPT ![b] = nUpTo] ELSE valid

(* AcceptBlockHeader refuses a header below which it finds a failed block, *)
(* and marks the blocks between the two.                                   *)
RejectHeader(b) ==
  /\ CsMainFree /\ NewHeader(b)
  /\ \E f \in FailedBelow(b) :
       failedChild' = failedChild \cup (Ancestors[pprev[b]] \ Ancestors[f])
  /\ UNCHANGED <<indexVars, failedValid, failedBlocks, seqVars, chainVars,
                 abcVars, invVars, ctlVars>>

ProcessNewBlockHeaders(b) ==
  /\ CsMainFree /\ NewHeader(b) /\ FailedBelow(b) = {}
  /\ AddToBlockIndex(b)
  /\ valid' = RaiseValidity(b, BLOCK_VALID_TREE)
  /\ UNCHANGED <<nTx, nChainTx, haveData, haveUndo, lastStored, failVars, seqVars,
                 tip, candidates, unlinked, abcVars, invVars, ctlVars>>

(* Mutant: a block whose data is stored already is stored again. *)
WantBlockAgain(b, fRequested) ==
  \/ b \in index /\ b \notin failed
  \/ NewHeader(b) /\ FailedBelow(b) = {}

(* What AcceptBlock asks of a block before it looks at its transactions. *)
WantBlock(b, fRequested) ==
  /\ \/ b \in index /\ b \notin failed
     \/ NewHeader(b) /\ FailedBelow(b) = {}
  /\ b \notin haveData
  /\ \/ fRequested
     \/ /\ b \notin nTx
        /\ nChainWork[b] >= nChainWork[tip]
        /\ nHeight[b] <= nHeight[tip] + MinBlocksToKeep

(* AcceptBlock when ContextualCheckBlock fails (ProcessNewBlock itself     *)
(* drops a block that fails CheckBlock).                                   *)
AcceptBadBlock(b, fRequested) ==
  /\ CsMainFree /\ WantBlock(b, fRequested) /\ b \in BadContext
  /\ AddToBlockIndex(b)
  /\ valid' = RaiseValidity(b, BLOCK_VALID_TREE)
  /\ failedValid' = failedValid \cup {b}
  /\ UNCHANGED <<nTx, nChainTx, haveData, haveUndo, lastStored, failedChild,
                 failedBlocks, seqVars, tip, candidates, unlinked, abcVars,
                 invVars, ctlVars>>

(* b and the blocks above it that wait only for b: what the queue of       *)
(* ReceivedBlockTransactions goes through.                                 *)
Linkable(b) ==
  {d \in Blocks : b \in Ancestors[d] /\ Ancestors[d] \ Ancestors[b] \subseteq unlinked}

(* The queue is breadth first: parents before children, siblings in the    *)
(* order in which they became unlinked, here any order.                    *)
SequenceIds(L) ==
  {s \in [L -> nBlockSequenceId .. nBlockSequenceId + Cardinality(L) - 1] :
     \A a, b \in L : (a # b => s[a] # s[b]) /\ (nHeight[a] < nHeight[b] => s[a] < s[b])}

HasLinkedParent(b) == b # Genesis => pprev[b] \in nChainTx

ReceivedBlockTransactions(b) ==
  /\ nTx' = nTx \cup {b}
  /\ haveData' = haveData \cup {b}
  /\ lastStored' = b
  /\ valid' = RaiseValidity(b, BLOCK_VALID_TRANSACTIONS)
  /\ \/ /\ HasLinkedParent(b)
        /\ LET L == Linkable(b) IN \E s \in SequenceIds(L) :
             /\ nChainTx' = nChainTx \cup L
             /\ nSequenceId' = [d \in Blocks |-> IF d \in L THEN s[d] ELSE nSequenceId[d]]
             /\ nBlockSequenceId' = nBlockSequenceId + Cardinality(L)
             /\ candidates' = candidates \cup {d \in L : ~WorseBy(nSequenceId', d, tip)}
             /\ unlinked' = unlinked \ (L \ {b})
     \/ /\ ~HasLinkedParent(b)
        /\ unlinked' = IF pprev[b] \in failed THEN unlinked ELSE unlinked \cup {b}
        /\ nChainTx' = nChainTx \ {b}
        /\ UNCHANGED <<nSequenceId, nBlockSequenceId, candidates>>

(* ProcessNewBlock with a block that AcceptBlock stores.  The caller goes  *)
(* on to ActivateBestChain, without cs_main in between.                    *)
ProcessNewBlock(b, fRequested) ==
  /\ CsMainFree /\ WantBlock(b, fRequested) /\ b \notin BadContext
  /\ AddToBlockIndex(b)
  /\ ReceivedBlockTransactions(b)
  /\ pending' = TRUE
  /\ UNCHANGED <<haveUndo, failVars, nBlockReverseSequenceId,
                 nLastPreciousChainwork, tip, abcVars, invVars, interrupt, commands>>

-----------------------------------------------------------------------------
(* ActivateBestChain *)

(* Leaving ActivateBestChain gives up its locals and m_chainstate_mutex. *)
ABCReturn ==
  /\ abcPc' = "idle" /\ pindexMostWork' = NULL /\ starting_tip' = NULL
  /\ pindexOldTip' = NULL /\ blocks_connected' = FALSE

FatalError == interrupt' = TRUE

Command(kind) == kind \in Commands /\ commands > 0 /\ commands' = commands - 1

(* ProcessNewBlock, the RPCs and start-up call it; a caller that has just  *)
(* changed the block tree always does (pending), others may at any time.   *)
ABCBegin ==
  /\ MutexFree
  /\ abcPc' = "lock"
  /\ pending' = FALSE
  /\ UNCHANGED <<indexVars, failVars, seqVars, chainVars, pindexMostWork,
                 starting_tip, pindexOldTip, blocks_connected, invVars,
                 interrupt, commands>>

ABCLock ==
  /\ abcPc = "lock"
  /\ abcPc' = "find"
  /\ starting_tip' = tip
  /\ blocks_connected' = FALSE
  /\ UNCHANGED <<indexVars, failVars, seqVars, chainVars, pindexMostWork,
                 pindexOldTip, invVars, ctlVars>>

(* Mutant: nothing is deleted. *)
PruneNoCandidates(set, seq, newTip) == set

PruneBlockIndexCandidates(set, seq, newTip) == {c \in set : ~WorseBy(seq, c, newTip)}

IsBest(b) == b \in candidates /\ \A c \in candidates : ~Worse(b, c)

(* The blocks FindMostWorkChain walks over, and those that disqualify b. *)
PathTo(b) == Ancestors[b] \ Ancestors[tip]

(* Mutant: the failure flags are not looked at. *)
UnusableMissing(b) == {x \in PathTo(b) : x \notin haveData}

Unusable(b) == {x \in PathTo(b) : x \in failed \/ x \notin haveData}

(* Mutant: the end of the chain stays in the set. *)
ErasedBelow(pindexNew, pindexTest) ==
  (Ancestors[pindexNew] \ Ancestors[pindexTest]) \ {pindexNew}

(* "Remove the entire chain from the set." *)
ErasedChain(pindexNew, pindexTest) ==
  (Ancestors[pindexNew] \ Ancestors[pindexTest]) \cup {pindexTest}

(* Mutant: what waits for a missing block is forgotten. *)
ForgetUnlinked(above) == unlinked

(* "If we're missing data, then add back to m_blocks_unlinked".  The multimap *)
(* may get a pair it already holds.  Whoever erases a pair goes over the      *)
(* whole range of its key, so that whether a pair is present is exact here;   *)
(* a second copy only makes ReceivedBlockTransactions give the block another, *)
(* later nSequenceId, and needs a block that was pruned.                      *)
AddBackUnlinked(above) == unlinked \cup above

(* One turn of the loop in FindMostWorkChain. *)
FindMostWorkChain ==
  /\ abcPc = "find" /\ pindexMostWork = NULL
  /\ \E pindexNew \in candidates :
       /\ IsBest(pindexNew)
       /\ \/ /\ Unusable(pindexNew) = {}
             /\ pindexMostWork' = pindexNew
             /\ UNCHANGED <<failedChild, candidates, unlinked>>
          \/ \E pindexTest \in Unusable(pindexNew) :
             /\ Unusable(pindexNew) \subseteq Ancestors[pindexTest]
             /\ LET above == Ancestors[pindexNew] \ Ancestors[pindexTest]
                IN  /\ candidates' = candidates \ ErasedChain(pindexNew, pindexTest)
                    /\ IF pindexTest \in failed
                       THEN failedChild' = failedChild \cup above /\ UNCHANGED unlinked
                       ELSE unlinked' = AddBackUnlinked(above) /\ UNCHANGED failedChild
             /\ UNCHANGED pindexMostWork
  /\ UNCHANGED <<indexVars, failedValid, failedBlocks, seqVars, tip, bestHeader,
                 abcPc, starting_tip, pindexOldTip, blocks_connected, invVars, ctlVars>>

(* "Whether we have anything to do at all." *)
ABCNothingToDo ==
  /\ abcPc = "find"
  /\ pindexMostWork = tip \/ (pindexMostWork = NULL /\ candidates = {})
  /\ IF blocks_connected /\ pindexMostWork # tip /\ ~interrupt
     THEN /\ abcPc' = "lock"
          /\ UNCHANGED <<pindexMostWork, starting_tip, pindexOldTip, blocks_connected>>
     ELSE ABCReturn
  /\ UNCHANGED <<indexVars, failVars, seqVars, chainVars, invVars, ctlVars>>

(* The length of the reorganisation ActivateBestChainStep is about to do. *)
ReorgLength(from, to) == Cardinality(Ancestors[from] \ Ancestors[to])

(* Mutant: one block too many is allowed. *)
IsSuspiciousOffByOne(from, to) ==
  SuspiciousReorgDepth > 0 /\ ReorgLength(from, to) > SuspiciousReorgDepth

IsSuspicious(from, to) ==
  SuspiciousReorgDepth > 0 /\ ReorgLength(from, to) >= SuspiciousReorgDepth

ReadyToStep == abcPc = "find" /\ pindexMostWork \notin {NULL, tip}

SuspiciousReorg ==
  /\ ReadyToStep /\ IsSuspicious(tip, pindexMostWork)
  /\ ABCReturn /\ FatalError
  /\ UNCHANGED <<indexVars, failVars, seqVars, chainVars, invVars, pending, commands>>

ABCStepBegin ==
  /\ ReadyToStep /\ ~IsSuspicious(tip, pindexMostWork)
  /\ abcPc' = "step"
  /\ pindexOldTip' = tip
  /\ UNCHANGED <<indexVars, failVars, seqVars, chainVars, pindexMostWork,
                 starting_tip, blocks_connected, invVars, ctlVars>>

(* Mutant: no loop until there is progress. *)
ABCStepEndAtOnce(newTip, mostWork) ==
  IF newTip # mostWork /\ ~interrupt
  THEN /\ abcPc' = "lock" /\ pindexMostWork' = mostWork /\ blocks_connected' = TRUE
       /\ starting_tip' = NULL /\ pindexOldTip' = NULL
  ELSE ABCReturn

(* The end of ActivateBestChainStep: go round the inner loop while the tip *)
(* is worse than at the start of the critical section, otherwise unlock    *)
(* cs_main and stop unless there is more to connect.                       *)
ABCStepEnd(newTip, mostWork) ==
  IF WorseBy(nSequenceId, newTip, starting_tip)
  THEN /\ abcPc' = "find" /\ pindexMostWork' = mostWork /\ blocks_connected' = TRUE
       /\ UNCHANGED <<starting_tip, pindexOldTip>>
  ELSE IF newTip # mostWork /\ ~interrupt
  THEN /\ abcPc' = "lock" /\ pindexMostWork' = mostWork /\ blocks_connected' = TRUE
       /\ starting_tip' = NULL /\ pindexOldTip' = NULL
  ELSE ABCReturn

(* DisconnectTip needs the block and its undo data. *)
CanDisconnectTip == tip \in haveData \cap haveUndo

ABCDisconnect ==
  /\ abcPc = "step" /\ tip \notin Ancestors[pindexMostWork]
  /\ CanDisconnectTip
  /\ tip' = pprev[tip]
  /\ UNCHANGED <<indexVars, failVars, seqVars, candidates, unlinked, bestHeader,
                 abcVars, invVars, ctlVars>>

ABCCannotDisconnect ==
  /\ abcPc = "step" /\ tip \notin Ancestors[pindexMostWork]
  /\ ~CanDisconnectTip
  /\ ABCReturn /\ FatalError
  /\ UNCHANGED <<indexVars, failVars, seqVars, chainVars, invVars, pending, commands>>

(* A block or its undo data cannot be read or written: the tip stays where *)
(* the step has brought it and the node asks to be shut down.              *)
ABCSystemError ==
  /\ abcPc = "step" /\ Command("system error")
  /\ ABCReturn /\ FatalError
  /\ UNCHANGED <<indexVars, failVars, seqVars, chainVars, invVars, pending>>

(* The block after the tip on the way to b. *)
IsNext(x, b) == x \in Ancestors[b] \ Ancestors[tip] /\ pprev[x] = tip

(* ConnectTip and PruneBlockIndexCandidates *)
ABCConnect(x) ==
  /\ abcPc = "step" /\ IsNext(x, pindexMostWork) /\ tip \in Ancestors[pindexMostWork]
  /\ x \notin BadConnect
  /\ haveUndo' = haveUndo \cup {x}
  /\ valid' = RaiseValidity(x, BLOCK_VALID_SCRIPTS)
  /\ tip' = x
  /\ candidates' = PruneBlockIndexCandidates(candidates, nSequenceId, x)
  /\ IF x = pindexMostWork \/ nChainWork[x] > nChainWork[pindexOldTip]
     THEN ABCStepEnd(x, pindexMostWork)
     ELSE UNCHANGED abcVars
  /\ UNCHANGED <<index, nTx, nChainTx, haveData, lastStored, failVars, seqVars,
                 unlinked, bestHeader, invVars, ctlVars>>

(* m_best_header after InvalidChainFound(b) *)
InvalidChainFound(b) == IF b \in Ancestors[bestHeader] THEN tip ELSE bestHeader

(* Mutant: the block is not marked as failed. *)
FailedUnmarked(x) == failedValid

(* InvalidBlockFound: nStatus |= BLOCK_FAILED_VALID *)
InvalidBlockFound(x) == failedValid \cup {x}

(* ConnectTip when ConnectBlock refuses the block. *)
ABCConnectInvalid(x) ==
  /\ abcPc = "step" /\ IsNext(x, pindexMostWork) /\ tip \in Ancestors[pindexMostWork]
  /\ x \in BadConnect
  /\ failedValid' = InvalidBlockFound(x)
  /\ failedBlocks' = failedBlocks \cup {x}
  /\ candidates' = candidates \ {x}
  /\ bestHeader' = InvalidChainFound(x)
  /\ ABCStepEnd(tip, NULL)
  /\ UNCHANGED <<indexVars, failedChild, seqVars, tip, unlinked, invVars, ctlVars>>

-----------------------------------------------------------------------------
(* The operator's commands.  Each is followed by ActivateBestChain. *)

PreciousCandidates(b, seq) ==
  IF IsValid(b, BLOCK_VALID_TRANSACTIONS) /\ b \in nChainTx
  THEN PruneBlockIndexCandidates(candidates \cup {b}, seq, tip)
  ELSE candidates \ {b}

PreciousBlock(b) ==
  /\ CsMainFree /\ Command("precious")
  /\ b \in index /\ nChainWork[b] >= nChainWork[tip]
  /\ LET id == IF nChainWork[tip] > nLastPreciousChainwork
               THEN -1 ELSE nBlockReverseSequenceId
     IN  /\ nSequenceId' = [nSequenceId EXCEPT ![b] = id]
         /\ nBlockReverseSequenceId' = id - 1
  /\ nLastPreciousChainwork' = nChainWork[tip]
  /\ candidates' = PreciousCandidates(b, nSequenceId')
  /\ pending' = TRUE
  /\ UNCHANGED <<indexVars, failVars, nBlockSequenceId, tip, unlinked, bestHeader,
                 abcVars, invVars, interrupt>>

(* Blocks that may be put into setBlockIndexCandidates. *)
Eligible(b) == IsValid(b, BLOCK_VALID_TRANSACTIONS) /\ b \in nChainTx

InvBegin(b) ==
  /\ MutexFree /\ Command("invalidate")
  /\ b \in index \ {Genesis}
  /\ invPc' = "loop" /\ invBlock' = b /\ to_mark_failed' = b
  /\ byWork' = {c \in index : ~Contains(c) /\ ~Worse(c, pprev[b]) /\ Eligible(c)}
  /\ UNCHANGED <<indexVars, failVars, seqVars, chainVars, abcVars, pending, interrupt>>

(* Mutant: the RPC leaves it at that. *)
InvReturnOnly ==
  /\ invPc' = "idle" /\ invBlock' = NULL /\ to_mark_failed' = NULL /\ byWork' = {}
  /\ UNCHANGED pending

(* The RPC calls ActivateBestChain when InvalidateBlock has returned. *)
InvReturn ==
  /\ invPc' = "idle" /\ invBlock' = NULL /\ to_mark_failed' = NULL /\ byWork' = {}
  /\ pending' = TRUE

(* One turn of the loop in InvalidateBlock, a critical section of its own. *)
InvDisconnect ==
  /\ invPc = "loop" /\ ~interrupt /\ Contains(invBlock)
  /\ CanDisconnectTip
  /\ LET prev == pprev[tip]
         found == {c \in byWork : ~Worse(c, prev)}
         relabel == {prev} \cap {to_mark_failed} \cap failedValid
     IN  /\ tip' = prev
         /\ failedValid' = (failedValid \cup {tip}) \ relabel
         /\ failedChild' = failedChild \cup relabel
         /\ candidates' = (candidates \ {tip}) \cup {prev} \cup found
         /\ byWork' = byWork \ found
  /\ to_mark_failed' = tip
  /\ UNCHANGED <<indexVars, failedBlocks, seqVars, unlinked, bestHeader, abcVars,
                 invPc, invBlock, ctlVars>>

InvCannotDisconnect ==
  /\ invPc = "loop" /\ ~interrupt /\ Contains(invBlock)
  /\ ~CanDisconnectTip
  /\ InvReturn
  /\ UNCHANGED <<indexVars, failVars, seqVars, chainVars, abcVars, interrupt, commands>>

(* Mutant: blocks that arrived meanwhile are not looked for. *)
NoLateCandidates == {}

(* "If any new blocks somehow arrived while we were disconnecting" *)
LateCandidates == {b \in index : Eligible(b) /\ ~Worse(b, tip)}

InvFinal ==
  /\ invPc = "loop" /\ (interrupt \/ ~Contains(invBlock))
  /\ IF Contains(to_mark_failed)
     THEN UNCHANGED <<failedValid, failedBlocks, candidates, bestHeader>>
     ELSE /\ failedValid' = failedValid \cup {to_mark_failed}
          /\ failedBlocks' = failedBlocks \cup {to_mark_failed}
          /\ candidates' = (candidates \cup LateCandidates) \ {to_mark_failed}
          /\ bestHeader' = InvalidChainFound(to_mark_failed)
  /\ InvReturn
  /\ UNCHANGED <<indexVars, failedChild, seqVars, tip, unlinked, abcVars, interrupt,
                 commands>>

Descendants(b) == {d \in Blocks : b \in Ancestors[d]}

(* Mutant: the flags of the descendants are left alone. *)
ClearedBelow(b) == Ancestors[b]

(* The blocks that lose their failure flags. *)
Cleared(b) == Descendants(b) \cup Ancestors[b]

(* reconsiderblock: cs_main is enough, it may come in the middle of        *)
(* InvalidateBlock or between two critical sections of ActivateBestChain.  *)
ResetBlockFailureFlags(b) ==
  /\ CsMainFree /\ Command("reconsider")
  /\ b \in index
  /\ ReconsiderAny \/ (Ancestors[b] \ {b}) \cap failed = {}
  /\ LET up == Descendants(b) \cap failed
     IN  /\ failedValid' = failedValid \ Cleared(b)
         /\ failedChild' = failedChild \ Cleared(b)
         /\ failedBlocks' = failedBlocks \ ((up \cup Ancestors[b]) \cap failed)
         /\ candidates' = candidates \cup
              {d \in up : /\ valid[d] >= BLOCK_VALID_TRANSACTIONS /\ d \in nChainTx
                          /\ Worse(tip, d)}
  /\ pending' = TRUE
  /\ UNCHANGED <<indexVars, seqVars, tip, unlinked, bestHeader, abcVars, invVars,
                 interrupt>>

(* pruneblockchain up to a height, one block to a block file: the newest   *)
(* file and the last MIN_BLOCKS_TO_KEEP heights are kept.                  *)
PruneBlockFilesManual(nManualPruneHeight) ==
  /\ CsMainFree /\ Command("prune")
  /\ nHeight[tip] >= PruneAfterHeight /\ nManualPruneHeight <= nHeight[tip]
  /\ LET maxPrune == IF nHeight[tip] > MinBlocksToKeep
                     THEN nHeight[tip] - MinBlocksToKeep ELSE 0
         pruned == {b \in haveData \ {lastStored} :
                      nHeight[b] <= nManualPruneHeight /\ nHeight[b] <= maxPrune}
     IN  /\ haveData' = haveData \ pruned
         /\ haveUndo' = haveUndo \ pruned
         /\ unlinked' = unlinked \ pruned
  /\ UNCHANGED <<index, valid, nTx, nChainTx, lastStored, failVars, seqVars, tip,
                 candidates, bestHeader, abcVars, invVars, pending, interrupt>>

RequestShutdown ==
  /\ ~interrupt /\ Command("shutdown")
  /\ interrupt' = TRUE
  /\ UNCHANGED <<indexVars, failVars, seqVars, chainVars, abcVars, invVars, pending>>

(* Mutant: only blocks with more work than the tip are candidates. *)
LoadBetterCandidates(eligible, seq) == {b \in eligible : nChainWork[b] > nChainWork[tip]}

(* LoadBlockIndex puts every eligible block into setBlockIndexCandidates,  *)
(* LoadChainTip takes out what is worse than the tip.                      *)
LoadCandidates(eligible, seq) == PruneBlockIndexCandidates(eligible, seq, tip)

(* Shutdown writes the block index and the tip; the next start reads them  *)
(* back (LoadBlockIndex, LoadChainTip) and ImportBlocks then calls         *)
(* ActivateBestChain.  Nothing else survives.                              *)
Restart ==
  /\ interrupt /\ MutexFree
  /\ nChainTx' = {b \in nTx : Ancestors[b] \subseteq nTx}
  /\ unlinked' = {b \in nTx \ {Genesis} : pprev[b] \notin nChainTx'}
  /\ failedChild' = failedChild \cup
                      {b \in index \ failed : Ancestors[b] \cap failed # {}}
  /\ failedBlocks' = {}
  /\ nSequenceId' = [b \in Blocks |-> 0]
  /\ nBlockSequenceId' = 1 /\ nBlockReverseSequenceId' = -1
  /\ nLastPreciousChainwork' = 0
  /\ candidates' = LoadCandidates({b \in nChainTx' \ (failedValid \cup failedChild') :
                                     valid[b] >= BLOCK_VALID_TRANSACTIONS}, nSequenceId')
  /\ bestHeader' \in {b \in index \ (failedValid \cup failedChild') :
                        \A c \in index \ (failedValid \cup failedChild') :
                           ~WorseBy(nSequenceId', b, c)}
  /\ interrupt' = FALSE /\ pending' = TRUE
  /\ UNCHANGED <<index, valid, nTx, haveData, haveUndo, lastStored, failedValid, tip,
                 abcVars, invVars, commands>>

-----------------------------------------------------------------------------
Network ==
  \E b \in Blocks :
    \/ RejectHeader(b)
    \/ ProcessNewBlockHeaders(b)
    \/ \E fRequested \in BOOLEAN : AcceptBadBlock(b, fRequested)
    \/ \E fRequested \in BOOLEAN : ProcessNewBlock(b, fRequested)

ABCStep ==
  \/ ABCLock
  \/ FindMostWorkChain
  \/ ABCNothingToDo
  \/ SuspiciousReorg
  \/ ABCStepBegin
  \/ ABCDisconnect
  \/ ABCCannotDisconnect
  \/ \E x \in Blocks : ABCConnect(x)
  \/ \E x \in Blocks : ABCConnectInvalid(x)

InvStep == InvDisconnect \/ InvCannotDisconnect \/ InvFinal

Operator ==
  \/ \E b \in Blocks : PreciousBlock(b)
  \/ \E b \in Blocks : InvBegin(b)
  \/ \E b \in Blocks : ResetBlockFailureFlags(b)
  \/ \E h \in {nHeight[b] : b \in Blocks \ {Genesis}} : PruneBlockFilesManual(h)
  \/ RequestShutdown

Next == Network \/ ABCBegin \/ ABCStep \/ ABCSystemError \/ InvStep \/ Operator \/ Restart

(* A caller that holds a lock runs on, a caller that waits for             *)
(* m_chainstate_mutex gets it in the end, and a node that is asked to stop *)
(* stops and is started again.                                             *)
Fairness ==
  /\ WF_vars(ABCStep)
  /\ WF_vars(InvStep)
  /\ WF_vars(pending /\ ABCBegin)
  /\ WF_vars(Restart)

Spec == Init /\ [][Next]_vars /\ Fairness

-----------------------------------------------------------------------------
IndexTypeOK ==
  /\ index \subseteq Blocks /\ Genesis \in index
  /\ valid \in [Blocks -> {BLOCK_VALID_UNKNOWN, BLOCK_VALID_TREE,
                           BLOCK_VALID_TRANSACTIONS, BLOCK_VALID_SCRIPTS}]
  /\ nTx \subseteq index /\ nChainTx \subseteq nTx
  /\ haveData \subseteq nTx /\ haveUndo \subseteq haveData /\ lastStored \in nTx
  /\ failedValid \subseteq index /\ failedChild \subseteq index
  /\ failedBlocks \subseteq index

SequenceTypeOK ==
  /\ nSequenceId \in [Blocks -> Int]
  /\ nBlockSequenceId \in Nat /\ nBlockReverseSequenceId \in Int
  /\ nLastPreciousChainwork \in Nat

ChainTypeOK ==
  /\ tip \in index /\ candidates \subseteq index /\ unlinked \subseteq index
  /\ bestHeader \in index

LocalsTypeOK ==
  /\ abcPc \in {"idle", "lock", "find", "step"}
  /\ pindexMostWork \in index \cup {NULL} /\ starting_tip \in index \cup {NULL}
  /\ pindexOldTip \in index \cup {NULL}
  /\ invPc \in {"idle", "loop"} /\ invBlock \in index \cup {NULL}
  /\ to_mark_failed \in index \cup {NULL} /\ byWork \subseteq index

ControlTypeOK ==
  /\ blocks_connected \in BOOLEAN /\ pending \in BOOLEAN /\ interrupt \in BOOLEAN
  /\ commands \in 0 .. MaxCommands

(* Types: the block tree's flags and the locals of the two long operations *)
(* (ActivateBestChain, InvalidateBlock) stay within their ranges.          *)
TypeOK == IndexTypeOK /\ SequenceTypeOK /\ ChainTypeOK /\ LocalsTypeOK /\ ControlTypeOK

(* A block could be the next tip: everything below it has been received,   *)
(* nothing below it is invalid, and what is not in the active chain can    *)
(* still be read from disk.                                                *)
Connectable(b) ==
  b \in nChainTx /\ Ancestors[b] \cap failedValid = {} /\ PathTo(b) \subseteq haveData

(* Another thread can take cs_main, no InvalidateBlock is half way, and    *)
(* what pruning keeps below the tip is there: InvalidateBlock has not just *)
(* given up at a pruned block, where it returns without any repair.        *)
Settled == CsMainFree /\ invPc = "idle" /\ (tip = Genesis \/ CanDisconnectTip)

(* CheckBlockIndex, on setBlockIndexCandidates: in a settled state every   *)
(* connectable block that is not worse than the tip is a candidate.        *)
(* Candidates come and go in TryAddBlockIndexCandidate, FindMostWorkChain, *)
(* PruneBlockIndexCandidates, InvalidateBlock and ResetBlockFailureFlags.  *)
CandidatesComplete ==
  Settled /\ ~interrupt =>
    \A b \in index : Connectable(b) /\ ~Worse(b, tip) => b \in candidates

(* CheckBlockIndex, the converse: a candidate is never worse than the tip  *)
(* and has all its ancestors' transactions (the assertion in               *)
(* FindMostWorkChain), and PruneBlockIndexCandidates never empties the set. *)
CandidatesSound ==
  CsMainFree => /\ candidates # {}
                /\ \A c \in candidates : ~Worse(c, tip) /\ c \in nChainTx

(* CheckBlockIndex: "The failed mask cannot be set for blocks without      *)
(* invalid parents", whatever mix of ConnectBlock failures, header         *)
(* refusals, invalidateblock, reconsiderblock and restarts set it.         *)
FailedHasCause == \A b \in failed : Ancestors[b] \cap failedValid # {}

(* CheckBlockIndex, on m_blocks_unlinked, for a chain nothing in which has *)
(* failed: a stored block that waits for a block below it, because that    *)
(* was never received or because it has been pruned, is there and will be  *)
(* found again when the gap closes; a block that waits for nothing is not  *)
(* there.                                                                  *)
UnlinkedBlocks ==
  Settled =>
    \A b \in haveData :
      Ancestors[b] \cap failedValid = {} =>
        /\ b \in unlinked => ~(Ancestors[b] \subseteq haveData)
        /\ \/ b \in unlinked
           \/ b \in nChainTx /\ (PathTo(b) \subseteq haveData \/ Worse(b, tip) \/ b \in candidates)

(* FindMostWorkChain relies on "all blocks in it are valid already": every *)
(* block of the active chain passed ConnectBlock and is marked so, and no  *)
(* later event marks it failed.                                            *)
ActiveChainValid ==
  \A b \in Ancestors[tip] \ {Genesis} :
    /\ valid[b] = BLOCK_VALID_SCRIPTS /\ b \notin failed
    /\ b \in nChainTx /\ b \notin BadConnect \cup BadContext

Quiet == MutexFree /\ ~pending /\ ~interrupt

NoBetterTip == \A b \in index : Connectable(b) => ~Worse(tip, b)

(* What ActivateBestChain is for: when nobody is activating, about to      *)
(* activate or shutting down, no connectable block is a better tip.        *)
TipIsBest == Quiet => NoBetterTip

(* The same up to ties, also when preciousblock reorders blocks of equal   *)
(* work: no connectable block has more work than the tip.                  *)
TipHasMostWork == Quiet => \A b \in index : Connectable(b) => nChainWork[b] <= nChainWork[tip]

(* "We absolutely may not unlock cs_main until we've made forward          *)
(* progress": other threads never see ActivateBestChain leave a tip that   *)
(* is worse than the one it found, except on a fatal error.                *)
UnlockOnlyWithProgress ==
  [][~CsMainFree /\ CsMainFree' /\ ~interrupt' => ~Worse(tip', starting_tip)]_vars

(* setBlockIndexCandidates is ordered by nSequenceId: a block that is in   *)
(* the set is never numbered anew by ReceivedBlockTransactions, or the set *)
(* would be searched in the wrong order (PreciousBlock takes the block out *)
(* first).                                                                 *)
CandidateKeysStable ==
  [][nBlockSequenceId' > nBlockSequenceId =>
       \A b \in candidates : nSequenceId'[b] = nSequenceId[b]]_vars

(* A reorganisation that ActivateBestChainStep carries out takes fewer     *)
(* than -suspiciousreorgdepth blocks off the chain it started from.        *)
ReorgWithinDepth ==
  abcPc = "step" /\ SuspiciousReorgDepth > 0 =>
    ReorgLength(pindexOldTip, tip) < SuspiciousReorgDepth

(* ActivateBestChain always returns: FindMostWorkChain, the loop until     *)
(* progress is made and the loop until the best tip is reached all end.    *)
ABCReturns == abcPc # "idle" ~> abcPc = "idle"

(* A block that was stored gets its turn: after ProcessNewBlock the node   *)
(* comes to rest on a best tip, unless it is asked to stop meanwhile.      *)
BlockIsConsidered == pending ~> (interrupt \/ (Quiet /\ NoBetterTip))

-----------------------------------------------------------------------------
(* The inductive invariant behind ActiveChainValid and ReorgWithinDepth. *)

(* What the block index keeps: known headers and linked blocks are closed  *)
(* under parents, only linked blocks become candidates, and Genesis is     *)
(* linked and never failed.                                                *)
TreeInv ==
  /\ ClosedUnderParent(index) /\ ClosedUnderParent(nChainTx) /\ Genesis \in nChainTx
  /\ unlinked \subseteq nTx /\ nTx \cap BadContext = {}
  /\ candidates \subseteq nChainTx /\ byWork \subseteq nChainTx
  /\ failedBlocks \subseteq failed /\ Genesis \notin failed

(* What ActivateBestChain and InvalidateBlock rely on in their locals. *)
LocalsInv ==
  /\ abcPc = "idle" \/ invPc = "idle"
  /\ abcPc = "idle" => pindexMostWork = NULL
  /\ abcPc = "step" => pindexMostWork # NULL /\ pindexOldTip # NULL
  /\ invPc = "idle" => byWork = {}
  /\ invPc = "loop" => invBlock \in Blocks \ {Genesis} /\ to_mark_failed \in Blocks

(* The chain ActivateBestChain has chosen stays connectable while it works *)
(* towards it, also over the moments in which cs_main is free: no header,  *)
(* pruning or reconsiderblock in between takes it away.                    *)
MostWorkConnectable ==
  /\ pindexMostWork # NULL =>
       /\ pindexMostWork \in nChainTx
       /\ PathTo(pindexMostWork) \cap failed = {}
       /\ PathTo(pindexMostWork) \subseteq haveData
  /\ abcPc = "lock" /\ pindexMostWork # NULL => tip \in Ancestors[pindexMostWork]

(* The step keeps everything the old tip and the new one share. *)
ForkKept ==
  abcPc = "step" =>
    /\ Ancestors[pindexOldTip] \cap Ancestors[pindexMostWork] \subseteq Ancestors[tip]
    /\ ~IsSuspicious(pindexOldTip, pindexMostWork)

IInv == TypeOK /\ TreeInv /\ LocalsInv /\ MostWorkConnectable /\ ForkKept /\ ActiveChainValid

-----------------------------------------------------------------------------
(* The inductive invariants behind CandidatesSound, CandidatesComplete,    *)
(* TipIsBest, UnlockOnlyWithProgress and UnlinkedBlocks.                   *)

(* Without pruning nothing that was stored goes away: what the node has    *)
(* received it has, the active chain can be disconnected, and a block      *)
(* waits in m_blocks_unlinked or is linked, not both.                      *)
DataInv ==
  /\ haveData = nTx /\ Ancestors[tip] \ {Genesis} \subseteq haveUndo
  /\ \A b \in nTx : valid[b] >= BLOCK_VALID_TRANSACTIONS
  /\ unlinked \cap nChainTx = {} /\ nBlockSequenceId >= 1

(* No reason against b as a tip has been found, nor will be. *)
Sound(b) == b \in nChainTx /\ Ancestors[b] \cap (failed \cup BadConnect) = {}

(* setBlockIndexCandidates lacks no usable block from r upwards, and r is  *)
(* in it and stays: r can only be pushed out by a better tip.              *)
Anchor(r) ==
  /\ r \in candidates /\ Sound(r)
  /\ \A b \in nChainTx \ failed : ~Worse(b, r) => b \in candidates

(* The set is never emptied: it has an anchor, or InvalidateBlock is       *)
(* taking blocks off and has just put the new tip in.                      *)
AnchorInv ==
  /\ \A c \in candidates : ~Worse(c, tip)
  /\ \/ \E r \in Blocks : Anchor(r)
     \/ invPc = "loop" /\ tip \in candidates /\ ~Contains(to_mark_failed)
  /\ invPc = "loop" => to_mark_failed = invBlock \/ ~Contains(to_mark_failed)

(* Where the anchor is.  While ActivateBestChain is away from the tip it   *)
(* started from, that tip is the anchor, until the chosen chain has        *)
(* overtaken it.                                                           *)
AnchoredAt ==
  /\ CsMainFree => Anchor(tip)
  /\ abcPc = "find" => Anchor(starting_tip)
  /\ abcPc = "step" => \/ Anchor(starting_tip)
                       \/ tip \in Ancestors[pindexMostWork] /\ Anchor(tip)
  /\ ~CsMainFree => /\ starting_tip \in Blocks /\ Sound(starting_tip)
                    /\ pindexMostWork # NULL => ~Worse(pindexMostWork, starting_tip)

(* No candidate is better than the tip of a node at rest, nor than the     *)
(* chain ActivateBestChain has chosen, unless something has arrived since. *)
BestInv ==
  /\ abcPc = "idle" => \A c \in candidates : ~Worse(tip, c)
  /\ pindexMostWork # NULL => \A c \in candidates : ~Worse(pindexMostWork, c)

CandInv ==
  /\ DataInv /\ AnchorInv
  /\ ~interrupt /\ invPc = "idle" => AnchoredAt
  /\ ~interrupt /\ invPc = "idle" /\ ~pending => BestInv

(* A stored block on a chain without failures waits in m_blocks_unlinked   *)
(* or is linked, and it is linked once nothing below it is missing.        *)
LinkInv ==
  \A b \in nTx :
    Ancestors[b] \cap failedValid = {} =>
      /\ b \in unlinked \cup nChainTx
      /\ Ancestors[b] \subseteq nTx => b \in nChainTx

-----------------------------------------------------------------------------
(* Statements of the repository's comments, messages and help texts that   *)
(* the code does not keep.                                                 *)

(* The suspicious reorganisation message: "local policy allows %d blocks", *)
(* one less than the depth: what other threads see ActivateBestChain do is *)
(* never a longer reorganisation than that.                                *)
VisibleReorgWithinDepth ==
  [][CsMainFree' /\ abcPc = "step" /\ SuspiciousReorgDepth > 0 /\ ~interrupt' =>
       ReorgLength(starting_tip, tip') < SuspiciousReorgDepth]_vars

=============================================================================

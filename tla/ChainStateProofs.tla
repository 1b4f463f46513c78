--------------------------- MODULE ChainStateProofs ---------------------------
(***************************************************************************)
(* Proofs about ChainState, for every block tree and every choice of the   *)
(* parameters: what IInv says of whole chains, that the steps of           *)
(* ActivateBestChain, received headers and blocks, the operator's commands *)
(* and restarts keep it, what follows from it, the causes of failure       *)
(* flags, and the bookkeeping of a node that does not prune.               *)
(***************************************************************************)
EXTENDS ChainState, BlockTreeProofs, FiniteSetTheorems

(* A leaf that names no prover is left to Zenon. *)
USE ZenonT(30)

-----------------------------------------------------------------------------
(* What the inductive invariant says of whole chains *)

(* Chains of known headers are known, chains of linked blocks are linked. *)
LEMMA ChainsClosed ==
  ASSUME TypeOK, TreeInv
  PROVE  /\ \A b \in index : Ancestors[b] \subseteq index
         /\ \A b \in nChainTx : Ancestors[b] \subseteq nChainTx
  BY AncestorsLeast DEF TypeOK, IndexTypeOK, TreeInv

(* No block of the active chain is failed, unlinked or unknown. *)
LEMMA ActiveChainGood ==
  ASSUME IInv, NEW b \in Ancestors[tip]
  PROVE  b \notin failed /\ b \in nChainTx /\ b \in index /\ b \in Blocks
  BY DEF IInv, TypeOK, IndexTypeOK, ChainTypeOK, TreeInv, ActiveChainValid

(* Everything below the chosen chain is linked and not failed. *)
LEMMA MostWorkGood ==
  ASSUME IInv, pindexMostWork # NULL, NEW b \in Ancestors[pindexMostWork]
  PROVE  b \in Blocks /\ b \notin failed /\ b \in nChainTx
<1>1. b \in nChainTx BY ChainsClosed DEF IInv, MostWorkConnectable
<1>2. b \notin failed
  <2>1. CASE b \in Ancestors[tip] BY <2>1, ActiveChainGood
  <2>2. CASE b \notin Ancestors[tip] BY <2>2 DEF IInv, MostWorkConnectable, PathTo
  <2> QED BY <2>1, <2>2
<1> QED BY <1>1, <1>2 DEF IInv, TypeOK, IndexTypeOK

(* Marking what lies above a failed block never reaches a chain without    *)
(* failed blocks (AcceptBlockHeader and FindMostWorkChain mark so).        *)
LEMMA MarkedAboveFailed ==
  ASSUME NEW c \in Blocks, NEW d \in Blocks, NEW f \in Ancestors[d],
         f \notin Ancestors[c]
  PROVE  (Ancestors[d] \ Ancestors[f]) \cap Ancestors[c] = {}
<1> SUFFICES ASSUME NEW x \in Ancestors[d] \ Ancestors[f], x \in Ancestors[c] PROVE FALSE
  OBVIOUS
<1>1. f \in Ancestors[x] BY AncestorsComparable
<1> QED BY <1>1, AncestorsTransitive

-----------------------------------------------------------------------------
(* IInv holds initially. *)
LEMMA InitIInv == Init => IInv
<1> SUFFICES ASSUME Init PROVE IInv OBVIOUS
<1> USE DEF Init
<1>1. TypeOK
  <2>1. valid \in [Blocks -> {BLOCK_VALID_UNKNOWN, BLOCK_VALID_TREE,
                              BLOCK_VALID_TRANSACTIONS, BLOCK_VALID_SCRIPTS}]
    OBVIOUS
  <2>2. nSequenceId \in [Blocks -> Int] BY SMTT(30)
  <2>3. commands \in 0 .. MaxCommands /\ nBlockSequenceId \in Nat
        /\ nBlockReverseSequenceId \in Int /\ nLastPreciousChainwork \in Nat
    <3>1. MaxCommands \in Nat BY ParameterAssumption
    <3>2. commands = MaxCommands /\ nBlockSequenceId = 2 /\ nBlockReverseSequenceId = -1
          /\ nLastPreciousChainwork = 0
      BY ZenonT(30)
    <3> HIDE DEF Init
    <3> QED BY SMTT(30), <3>1, <3>2
  <2>4. pending \in BOOLEAN /\ interrupt \in BOOLEAN /\ blocks_connected \in BOOLEAN
    BY ZenonT(30)
  <2> QED BY <2>1, <2>2, <2>3, <2>4, TreeAssumption
     DEF TypeOK, IndexTypeOK, SequenceTypeOK, ChainTypeOK, LocalsTypeOK, ControlTypeOK
<1>2. TreeInv BY ParameterAssumption DEF TreeInv, ClosedUnderParent, failed
<1>3. LocalsInv /\ MostWorkConnectable /\ ForkKept
  BY DEF LocalsInv, MostWorkConnectable, ForkKept
<1>4. ActiveChainValid BY AncestorsOfGenesis DEF ActiveChainValid
<1> QED BY <1>1, <1>2, <1>3, <1>4 DEF IInv

-----------------------------------------------------------------------------
(* IInv is kept by every step. *)

(* All of IInv but the types of the flags and of the command counter. *)
Core ==
  /\ IndexTypeOK /\ SequenceTypeOK /\ ChainTypeOK /\ LocalsTypeOK
  /\ TreeInv /\ LocalsInv /\ MostWorkConnectable /\ ForkKept /\ ActiveChainValid

LEMMA ControlStep == ControlTypeOK /\ [Next]_vars => ControlTypeOK'
<1> SUFFICES ASSUME ControlTypeOK, [Next]_vars PROVE ControlTypeOK' OBVIOUS
<1>1. MaxCommands \in Nat BY ParameterAssumption
<1>2. ASSUME NEW kind, Command(kind) PROVE commands' \in 0 .. MaxCommands
  <2>1. commands \in 0 .. MaxCommands /\ commands > 0 /\ commands' = commands - 1
    BY <1>2 DEF ControlTypeOK, Command
  <2> QED BY SMTT(30), <1>1, <2>1
<1> USE DEF ControlTypeOK, ctlVars, abcVars
<1>3. CASE Network
  BY <1>3 DEF Network, RejectHeader, ProcessNewBlockHeaders, AcceptBadBlock,
     ProcessNewBlock
<1>4. CASE ABCBegin BY <1>4 DEF ABCBegin
<1>5. ASSUME NEW x, NEW y, ABCStepEnd(x, y), UNCHANGED ctlVars PROVE ControlTypeOK'
  BY <1>5 DEF ABCStepEnd, ABCReturn
<1>6. CASE ABCStep
  <2>1. CASE ABCLock BY <2>1 DEF ABCLock
  <2>2. CASE FindMostWorkChain BY <2>2 DEF FindMostWorkChain
  <2>3. CASE ABCNothingToDo BY <2>3 DEF ABCNothingToDo, ABCReturn
  <2>4. CASE SuspiciousReorg BY <2>4 DEF SuspiciousReorg, ABCReturn, FatalError
  <2>5. CASE ABCStepBegin BY <2>5 DEF ABCStepBegin
  <2>6. CASE ABCDisconnect BY <2>6 DEF ABCDisconnect
  <2>7. CASE ABCCannotDisconnect
    BY <2>7 DEF ABCCannotDisconnect, ABCReturn, FatalError
  <2>8. CASE \E x \in Blocks : ABCConnect(x) BY <1>5, <2>8 DEF ABCConnect
  <2>9. CASE \E x \in Blocks : ABCConnectInvalid(x)
    BY <1>5, <2>9 DEF ABCConnectInvalid
  <2> QED BY <1>6, <2>1, <2>2, <2>3, <2>4, <2>5, <2>6, <2>7, <2>8, <2>9 DEF ABCStep
<1>7. CASE ABCSystemError BY <1>2, <1>7 DEF ABCSystemError, ABCReturn, FatalError
<1>8. CASE InvStep
  BY <1>8 DEF InvStep, InvDisconnect, InvCannotDisconnect, InvFinal, InvReturn
<1>9. CASE Operator
  BY <1>2, <1>9 DEF Operator, PreciousBlock, InvBegin, ResetBlockFailureFlags,
     PruneBlockFilesManual, RequestShutdown
<1>10. CASE Restart BY <1>10 DEF Restart
<1>11. CASE UNCHANGED vars BY <1>11 DEF vars
<1> QED BY <1>3, <1>4, <1>6, <1>7, <1>8, <1>9, <1>10, <1>11 DEF Next

(* Steps that leave the block tree and the active chain alone. *)
LEMMA TreeUnchanged ==
  ASSUME IInv, UNCHANGED <<indexVars, failVars, seqVars, chainVars>>
  PROVE  /\ IndexTypeOK' /\ SequenceTypeOK' /\ ChainTypeOK' /\ ActiveChainValid'
         /\ byWork' \subseteq byWork => TreeInv'
         /\ UNCHANGED abcVars => MostWorkConnectable' /\ ForkKept'
         /\ UNCHANGED abcVars /\ UNCHANGED invVars => LocalsTypeOK' /\ LocalsInv'
<1> USE DEF IInv, TypeOK, indexVars, failVars, seqVars, chainVars
<1>1. IndexTypeOK' BY DEF IndexTypeOK
<1>2. SequenceTypeOK' BY DEF SequenceTypeOK
<1>3. ChainTypeOK' BY DEF ChainTypeOK
<1>4. ActiveChainValid' BY DEF ActiveChainValid, failed
<1>5. byWork' \subseteq byWork => TreeInv' BY DEF TreeInv, ClosedUnderParent, failed
<1>6. UNCHANGED abcVars => MostWorkConnectable' /\ ForkKept'
  BY DEF MostWorkConnectable, ForkKept, IsSuspicious, ReorgLength, PathTo, failed, abcVars
<1>7. UNCHANGED abcVars /\ UNCHANGED invVars => LocalsTypeOK' /\ LocalsInv'
  BY DEF LocalsTypeOK, LocalsInv, abcVars, invVars
<1> QED BY <1>1, <1>2, <1>3, <1>4, <1>5, <1>6, <1>7

(* Leaving ActivateBestChain without touching the tree. *)
LEMMA ReturnCore ==
  ASSUME IInv, ABCReturn, UNCHANGED <<indexVars, failVars, seqVars, chainVars, invVars>>
  PROVE  Core'
<1>1. IndexTypeOK' /\ SequenceTypeOK' /\ ChainTypeOK' /\ ActiveChainValid' /\ TreeInv'
  BY TreeUnchanged DEF invVars
<1>2. LocalsTypeOK' /\ LocalsInv'
  BY DEF IInv, TypeOK, LocalsTypeOK, LocalsInv, ABCReturn, invVars, indexVars
<1>3. MostWorkConnectable' /\ ForkKept' BY DEF MostWorkConnectable, ForkKept, ABCReturn
<1> QED BY <1>1, <1>2, <1>3 DEF Core

LEMMA ABCBeginCore == IInv /\ ABCBegin => Core'
<1> SUFFICES ASSUME IInv, ABCBegin PROVE Core' OBVIOUS
<1> USE DEF ABCBegin, MutexFree
<1>1. IndexTypeOK' /\ SequenceTypeOK' /\ ChainTypeOK' /\ ActiveChainValid' /\ TreeInv'
  BY TreeUnchanged DEF invVars
<1>2. LocalsTypeOK' /\ LocalsInv'
  BY DEF IInv, TypeOK, LocalsTypeOK, LocalsInv, invVars, indexVars
<1>3. MostWorkConnectable' /\ ForkKept'
  BY DEF IInv, LocalsInv, MostWorkConnectable, ForkKept
<1> QED BY <1>1, <1>2, <1>3 DEF Core

LEMMA ABCLockCore == IInv /\ ABCLock => Core'
<1> SUFFICES ASSUME IInv, ABCLock PROVE Core' OBVIOUS
<1> USE DEF ABCLock
<1>1. IndexTypeOK' /\ SequenceTypeOK' /\ ChainTypeOK' /\ ActiveChainValid' /\ TreeInv'
  BY TreeUnchanged DEF invVars
<1>2. LocalsTypeOK' /\ LocalsInv'
  BY DEF IInv, TypeOK, LocalsTypeOK, ChainTypeOK, LocalsInv, invVars, indexVars
<1>3. MostWorkConnectable' /\ ForkKept'
  BY DEF IInv, MostWorkConnectable, ForkKept, PathTo, failed, indexVars, failVars, chainVars
<1> QED BY <1>1, <1>2, <1>3 DEF Core

LEMMA ABCNothingToDoCore == IInv /\ ABCNothingToDo => Core'
<1> SUFFICES ASSUME IInv, ABCNothingToDo PROVE Core' OBVIOUS
<1> USE DEF ABCNothingToDo
<1>1. CASE ABCReturn BY <1>1, ReturnCore
<1>2. CASE ~ABCReturn
  <2>1. /\ abcPc = "find" /\ abcPc' = "lock" /\ pindexMostWork = NULL
        /\ UNCHANGED <<pindexMostWork, starting_tip, pindexOldTip, blocks_connected>>
    BY <1>2
  <2>2. IndexTypeOK' /\ SequenceTypeOK' /\ ChainTypeOK' /\ ActiveChainValid' /\ TreeInv'
    BY TreeUnchanged DEF invVars
  <2>3. LocalsTypeOK' /\ LocalsInv'
    BY <2>1 DEF IInv, TypeOK, LocalsTypeOK, LocalsInv, invVars, indexVars
  <2>4. MostWorkConnectable' /\ ForkKept' BY <2>1 DEF MostWorkConnectable, ForkKept
  <2> QED BY <2>2, <2>3, <2>4 DEF Core
<1> QED BY <1>1, <1>2

LEMMA ABCStepBeginCore == IInv /\ ABCStepBegin => Core'
<1> SUFFICES ASSUME IInv, ABCStepBegin PROVE Core' OBVIOUS
<1> USE DEF ABCStepBegin, ReadyToStep
<1>1. IndexTypeOK' /\ SequenceTypeOK' /\ ChainTypeOK' /\ ActiveChainValid' /\ TreeInv'
  BY TreeUnchanged DEF invVars
<1>2. tip \in Blocks /\ tip # NULL
  BY TreeAssumption DEF IInv, TypeOK, IndexTypeOK, ChainTypeOK
<1>3. LocalsTypeOK' /\ LocalsInv'
  BY <1>2 DEF IInv, TypeOK, LocalsTypeOK, ChainTypeOK, LocalsInv, invVars, indexVars
<1>4. MostWorkConnectable'
  BY DEF IInv, MostWorkConnectable, PathTo, failed, indexVars, failVars, chainVars
<1>5. ForkKept' BY DEF ForkKept, IsSuspicious, ReorgLength, chainVars
<1> QED BY <1>1, <1>3, <1>4, <1>5 DEF Core

LEMMA AbortCore ==
  IInv /\ (SuspiciousReorg \/ ABCCannotDisconnect \/ ABCSystemError) => Core'
  BY ReturnCore DEF SuspiciousReorg, ABCCannotDisconnect, ABCSystemError

LEMMA RequestShutdownCore == IInv /\ RequestShutdown => Core'
  BY TreeUnchanged DEF RequestShutdown, Core, invVars

LEMMA FindMostWorkChainCore == IInv /\ FindMostWorkChain => Core'
<1> SUFFICES ASSUME IInv, FindMostWorkChain PROVE Core' OBVIOUS
<1> USE DEF FindMostWorkChain
<1>0. abcPc = "find" /\ pindexMostWork = NULL /\ UNCHANGED <<indexVars, failedValid,
        failedBlocks, seqVars, tip, bestHeader, abcPc, starting_tip, pindexOldTip,
        blocks_connected, invVars, ctlVars>>
  OBVIOUS
<1>1. PICK pindexNew \in candidates :
        \/ /\ Unusable(pindexNew) = {} /\ pindexMostWork' = pindexNew
           /\ UNCHANGED <<failedChild, candidates, unlinked>>
        \/ /\ UNCHANGED pindexMostWork
           /\ \E pindexTest \in Unusable(pindexNew) :
                LET above == Ancestors[pindexNew] \ Ancestors[pindexTest]
                IN  /\ candidates' \subseteq candidates
                    /\ \/ /\ pindexTest \in failed /\ UNCHANGED unlinked
                          /\ failedChild' = failedChild \cup above
                       \/ unlinked' = unlinked \cup above /\ UNCHANGED failedChild
  BY DEF ErasedChain, AddBackUnlinked
<1> HIDE DEF FindMostWorkChain
<1>2. pindexNew \in nChainTx /\ pindexNew \in Blocks /\ pindexNew # NULL /\ tip \in Blocks
      /\ Ancestors[pindexNew] \subseteq nChainTx /\ pindexNew \in index
  BY ChainsClosed, TreeAssumption DEF IInv, TypeOK, IndexTypeOK, ChainTypeOK, TreeInv
<1>3. CASE /\ Unusable(pindexNew) = {} /\ pindexMostWork' = pindexNew
           /\ UNCHANGED <<failedChild, candidates, unlinked>>
  <2>1. UNCHANGED <<indexVars, failVars, seqVars, chainVars>>
    BY <1>0, <1>3 DEF failVars, chainVars
  <2>2. IndexTypeOK' /\ SequenceTypeOK' /\ ChainTypeOK' /\ ActiveChainValid' /\ TreeInv'
    BY <1>0, <2>1, TreeUnchanged DEF invVars
  <2>3. LocalsTypeOK' /\ LocalsInv'
    BY <1>0, <1>2, <1>3
    DEF IInv, TypeOK, LocalsTypeOK, LocalsInv, invVars, indexVars
  <2>4. MostWorkConnectable'
    BY <1>0, <1>2, <1>3 DEF MostWorkConnectable, Unusable, PathTo, failed, indexVars
  <2>5. ForkKept' BY <1>0 DEF ForkKept
  <2> QED BY <2>2, <2>3, <2>4, <2>5 DEF Core
<1>4. ASSUME UNCHANGED pindexMostWork, NEW pindexTest \in Unusable(pindexNew),
             candidates' \subseteq candidates,
             \/ /\ pindexTest \in failed /\ UNCHANGED unlinked
                /\ failedChild' = failedChild \cup (Ancestors[pindexNew] \ Ancestors[pindexTest])
             \/ /\ unlinked' = unlinked \cup (Ancestors[pindexNew] \ Ancestors[pindexTest])
                /\ UNCHANGED failedChild
      PROVE  Core'
  <2>1. /\ pindexTest \in Ancestors[pindexNew] /\ pindexTest \notin Ancestors[tip]
        /\ pindexTest \in Blocks
    BY <1>2, AncestorsAreBlocks DEF Unusable, PathTo
  <2>2. (Ancestors[pindexNew] \ Ancestors[pindexTest]) \cap Ancestors[tip] = {}
    BY <1>2, <2>1, MarkedAboveFailed
  <2>3. Genesis \in Ancestors[pindexTest] BY <2>1, GenesisIsAncestor
  <2>4. IndexTypeOK'
    BY <1>0, <1>2, <1>4 DEF IInv, TypeOK, IndexTypeOK, indexVars
  <2>5. SequenceTypeOK' BY <1>0 DEF IInv, TypeOK, SequenceTypeOK, seqVars
  <2>6. ChainTypeOK'
    BY <1>0, <1>2, <1>4 DEF IInv, TypeOK, IndexTypeOK, ChainTypeOK, indexVars
  <2>7. LocalsTypeOK' /\ LocalsInv'
    BY <1>0, <1>4 DEF IInv, TypeOK, LocalsTypeOK, LocalsInv, invVars, indexVars
  <2>8. TreeInv'
    BY <1>0, <1>2, <1>4, <2>3
    DEF IInv, TypeOK, IndexTypeOK, TreeInv, ClosedUnderParent, failed, indexVars, invVars
  <2>9. MostWorkConnectable' /\ ForkKept'
    BY <1>0, <1>4 DEF MostWorkConnectable, ForkKept
  <2>10. ActiveChainValid'
    BY <1>0, <1>4, <2>2 DEF IInv, ActiveChainValid, failed, indexVars
  <2> QED BY <2>4, <2>5, <2>6, <2>7, <2>8, <2>9, <2>10 DEF Core
<1> QED BY <1>1, <1>3, <1>4

LEMMA ABCDisconnectCore == IInv /\ ABCDisconnect => Core'
<1> SUFFICES ASSUME IInv, ABCDisconnect PROVE Core' OBVIOUS
<1>0. /\ abcPc = "step" /\ tip \notin Ancestors[pindexMostWork] /\ tip' = pprev[tip]
      /\ UNCHANGED <<indexVars, failVars, seqVars, candidates, unlinked, bestHeader,
                     abcVars, invVars>>
  BY DEF ABCDisconnect
<1>1. tip \in Blocks /\ pindexMostWork \in Blocks /\ pindexMostWork # NULL
  BY <1>0 DEF IInv, TypeOK, IndexTypeOK, ChainTypeOK, LocalsTypeOK, LocalsInv
<1>2. tip # Genesis BY <1>0, <1>1, GenesisIsAncestor
<1>3. tip' \in Blocks /\ Ancestors[tip] = {tip} \cup Ancestors[tip']
  BY <1>0, <1>1, <1>2, AncestorsUnfold
<1>4. tip' \in index
  BY <1>0, <1>1, <1>3, AncestorsAreBlocks, ChainsClosed
  DEF IInv, TypeOK, ChainTypeOK
<1>5. IndexTypeOK' /\ SequenceTypeOK' /\ ChainTypeOK'
  BY <1>0, <1>4
  DEF IInv, TypeOK, IndexTypeOK, SequenceTypeOK, ChainTypeOK, indexVars,
              failVars, seqVars
<1>6. LocalsTypeOK' /\ LocalsInv'
  BY <1>0 DEF IInv, TypeOK, LocalsTypeOK, LocalsInv, abcVars, invVars, indexVars
<1>7. TreeInv'
  BY <1>0 DEF IInv, TreeInv, ClosedUnderParent, failed, indexVars, failVars, invVars
<1>8. PathTo(pindexMostWork)' = PathTo(pindexMostWork)
  BY <1>0, <1>3 DEF PathTo, abcVars
<1>9. MostWorkConnectable'
  BY <1>0, <1>8 DEF IInv, MostWorkConnectable, failed, abcVars, indexVars, failVars
<1>10. ForkKept'
  BY <1>0, <1>3 DEF IInv, ForkKept, IsSuspicious, ReorgLength, abcVars
<1>11. ActiveChainValid'
  BY <1>0, <1>3 DEF IInv, ActiveChainValid, failed, indexVars, failVars
<1> QED BY <1>5, <1>6, <1>7, <1>9, <1>10, <1>11 DEF Core

(* What ActivateBestChain's locals are after a step that ends. *)
LEMMA StepEndLocals ==
  ASSUME IInv, abcPc = "step", NEW newTip, NEW mostWork \in index \cup {NULL},
         ABCStepEnd(newTip, mostWork), UNCHANGED <<index, invVars>>
  PROVE  /\ LocalsTypeOK' /\ LocalsInv' /\ abcPc' # "step"
         /\ pindexMostWork' \in {mostWork, NULL}
<1> USE DEF ABCStepEnd, ABCReturn
<1>1. /\ abcPc' \in {"idle", "lock", "find"} /\ (abcPc' = "idle" => pindexMostWork' = NULL)
      /\ pindexMostWork' \in {mostWork, NULL}
      /\ starting_tip' \in {starting_tip, NULL} /\ pindexOldTip' \in {pindexOldTip, NULL}
  BY ZenonT(30)
<1> HIDE DEF ABCStepEnd, ABCReturn
<1>2. LocalsTypeOK' /\ LocalsInv'
  BY <1>1 DEF IInv, TypeOK, LocalsTypeOK, LocalsInv, invVars
<1> QED BY <1>1, <1>2

(* The validity of a block after RaiseValidity. *)
LEMMA RaiseValidityType ==
  ASSUME IndexTypeOK, NEW b \in Blocks,
         NEW n \in {BLOCK_VALID_TREE, BLOCK_VALID_TRANSACTIONS, BLOCK_VALID_SCRIPTS}
  PROVE  /\ RaiseValidity(b, n) \in [Blocks -> {BLOCK_VALID_UNKNOWN, BLOCK_VALID_TREE,
                                       BLOCK_VALID_TRANSACTIONS, BLOCK_VALID_SCRIPTS}]
         /\ \A c \in Blocks : valid[c] = BLOCK_VALID_SCRIPTS =>
                                RaiseValidity(b, n)[c] = BLOCK_VALID_SCRIPTS
         /\ b \notin failed /\ n = BLOCK_VALID_SCRIPTS =>
              RaiseValidity(b, n)[b] = BLOCK_VALID_SCRIPTS
  BY SMTT(30) DEF RaiseValidity, IndexTypeOK, BLOCK_VALID_UNKNOWN, BLOCK_VALID_TREE,
         BLOCK_VALID_TRANSACTIONS, BLOCK_VALID_SCRIPTS

LEMMA ABCConnectCore == ASSUME IInv, NEW x \in Blocks, ABCConnect(x) PROVE Core'
<1>0. /\ abcPc = "step" /\ x \in Ancestors[pindexMostWork] \ Ancestors[tip]
      /\ pprev[x] = tip /\ tip \in Ancestors[pindexMostWork] /\ x \notin BadConnect
      /\ haveUndo' = haveUndo \cup {x} /\ valid' = RaiseValidity(x, BLOCK_VALID_SCRIPTS)
      /\ tip' = x /\ candidates' \subseteq candidates
      /\ UNCHANGED <<index, nTx, nChainTx, haveData, lastStored, failVars, seqVars,
                     unlinked, bestHeader, invVars>>
      /\ ABCStepEnd(x, pindexMostWork) \/ UNCHANGED abcVars
  BY DEF ABCConnect, IsNext, PruneBlockIndexCandidates
<1>1. tip \in Blocks /\ pindexMostWork \in Blocks /\ pindexMostWork # NULL /\ x # Genesis
  BY <1>0, GenesisIsAncestor
  DEF IInv, TypeOK, IndexTypeOK, ChainTypeOK, LocalsTypeOK, LocalsInv
<1>2. tip' = x /\ Ancestors[tip'] = {x} \cup Ancestors[tip]
  BY <1>0, <1>1, AncestorsUnfold
<1>3. x \notin failed /\ x \in nChainTx /\ x \in nTx /\ x \in index
  BY <1>0, <1>1, MostWorkGood DEF IInv, TypeOK, IndexTypeOK
<1>4. x \in haveData BY <1>0, <1>1 DEF IInv, MostWorkConnectable, PathTo
<1>5. IndexTypeOK'
  BY <1>0, <1>3, <1>4, RaiseValidityType DEF IInv, TypeOK, IndexTypeOK, failVars
<1>6. candidates' \subseteq candidates BY <1>0
<1>7. SequenceTypeOK' /\ ChainTypeOK'
  BY <1>0, <1>3, <1>6 DEF IInv, TypeOK, SequenceTypeOK, ChainTypeOK, seqVars
<1>8. TreeInv'
  BY <1>0, <1>6 DEF IInv, TreeInv, ClosedUnderParent, failed, failVars, invVars
<1>9. ActiveChainValid'
  <2>1. x \notin BadContext BY <1>0, <1>3 DEF IInv, TreeInv
  <2>2. \A b \in Ancestors[tip'] \ {Genesis} : valid'[b] = BLOCK_VALID_SCRIPTS
    BY <1>0, <1>1, <1>2, <1>3, RaiseValidityType, AncestorsAreBlocks
    DEF IInv, TypeOK, ActiveChainValid
  <2> QED BY <1>0, <1>2, <1>3, <2>1, <2>2 DEF IInv, ActiveChainValid, failed, failVars
<1>10. PathTo(pindexMostWork)' \subseteq Ancestors[pindexMostWork'] \ Ancestors[tip]
  BY <1>0, <1>2 DEF PathTo
<1>11. CASE ABCStepEnd(x, pindexMostWork)
  <2>1. /\ LocalsTypeOK' /\ LocalsInv' /\ abcPc' # "step"
        /\ pindexMostWork' \in {pindexMostWork, NULL}
    BY <1>0, <1>11, StepEndLocals DEF IInv, TypeOK, LocalsTypeOK
  <2>2. MostWorkConnectable'
    BY <1>0, <1>1, <1>2, <1>10, <2>1
    DEF IInv, MostWorkConnectable, PathTo, failed, failVars
  <2>3. ForkKept' BY <1>0, <2>1 DEF ForkKept
  <2> QED BY <1>5, <1>7, <1>8, <1>9, <2>1, <2>2, <2>3 DEF Core
<1>12. CASE UNCHANGED abcVars
  <2>1. LocalsTypeOK' /\ LocalsInv'
    BY <1>0, <1>12 DEF IInv, TypeOK, LocalsTypeOK, LocalsInv, abcVars, invVars
  <2>2. MostWorkConnectable'
    BY <1>0, <1>1, <1>2, <1>10, <1>12
    DEF IInv, MostWorkConnectable, PathTo, failed, failVars, abcVars
  <2>3. ForkKept'
    BY <1>0, <1>2, <1>12 DEF IInv, ForkKept, IsSuspicious, ReorgLength, abcVars
  <2> QED BY <1>5, <1>7, <1>8, <1>9, <2>1, <2>2, <2>3 DEF Core
<1> QED BY <1>0, <1>11, <1>12

LEMMA ABCConnectInvalidCore == ASSUME IInv, NEW x \in Blocks, ABCConnectInvalid(x) PROVE Core'
<1>0. /\ abcPc = "step" /\ x \in Ancestors[pindexMostWork] \ Ancestors[tip]
      /\ tip \in Ancestors[pindexMostWork]
      /\ failedValid' = failedValid \cup {x} /\ failedBlocks' = failedBlocks \cup {x}
      /\ candidates' = candidates \ {x} /\ bestHeader' \in {tip, bestHeader}
      /\ ABCStepEnd(tip, NULL)
      /\ UNCHANGED <<indexVars, failedChild, seqVars, tip, unlinked, invVars>>
  BY DEF ABCConnectInvalid, IsNext, InvalidBlockFound, InvalidChainFound
<1>1. tip \in Blocks /\ pindexMostWork \in Blocks /\ pindexMostWork # NULL
  BY <1>0 DEF IInv, TypeOK, IndexTypeOK, ChainTypeOK, LocalsTypeOK, LocalsInv
<1>2. x \in index /\ x # Genesis
  BY <1>0, <1>1, GenesisIsAncestor, MostWorkGood DEF IInv, TypeOK, IndexTypeOK
<1>3. IndexTypeOK' /\ SequenceTypeOK'
  BY <1>0, <1>2 DEF IInv, TypeOK, IndexTypeOK, SequenceTypeOK, indexVars, seqVars,
              InvalidBlockFound
<1>4. ChainTypeOK' BY <1>0 DEF IInv, TypeOK, ChainTypeOK, InvalidChainFound, indexVars
<1>5. TreeInv'
  BY <1>0, <1>2
  DEF IInv, TreeInv, ClosedUnderParent, failed, InvalidBlockFound, indexVars,
              invVars
<1>6. LocalsTypeOK' /\ LocalsInv' /\ abcPc' # "step" /\ pindexMostWork' = NULL
  BY <1>0, StepEndLocals DEF indexVars
<1>7. MostWorkConnectable' /\ ForkKept'
  BY <1>0, <1>6 DEF MostWorkConnectable, ForkKept
<1>8. ActiveChainValid'
  BY <1>0 DEF IInv, ActiveChainValid, failed, InvalidBlockFound, indexVars
<1> QED BY <1>3, <1>4, <1>5, <1>6, <1>7, <1>8 DEF Core

-----------------------------------------------------------------------------
(* A chain without failed blocks stays so when AcceptBlockHeader marks the *)
(* blocks above a failed one.                                              *)
LEMMA RejectHeaderCore == ASSUME IInv, NEW b \in Blocks, RejectHeader(b) PROVE Core'
<1>0. /\ pprev[b] \in index
      /\ UNCHANGED <<indexVars, failedValid, failedBlocks, seqVars, chainVars, abcVars, invVars>>
  BY DEF RejectHeader, NewHeader
<1>1. PICK f \in failedBlocks \cap Ancestors[pprev[b]] :
        failedChild' = failedChild \cup (Ancestors[pprev[b]] \ Ancestors[f])
  BY DEF RejectHeader, FailedBelow
<1>2. pprev[b] \in Blocks /\ f \in Blocks /\ f \in failed /\ tip \in Blocks
  BY <1>0, AncestorsAreBlocks DEF IInv, TypeOK, IndexTypeOK, ChainTypeOK, TreeInv
<1>3. Ancestors[pprev[b]] \subseteq index BY <1>0, ChainsClosed DEF IInv
<1>4. (Ancestors[pprev[b]] \ Ancestors[f]) \cap Ancestors[tip] = {}
  BY <1>0, <1>2, ActiveChainGood, MarkedAboveFailed
<1>5. pindexMostWork # NULL =>
        (Ancestors[pprev[b]] \ Ancestors[f]) \cap Ancestors[pindexMostWork] = {}
  BY <1>0, <1>2, MostWorkGood, MarkedAboveFailed
  DEF IInv, TypeOK, IndexTypeOK, LocalsTypeOK
<1>6. Genesis \in Ancestors[f] BY <1>0, <1>2, GenesisIsAncestor
<1>7. IndexTypeOK' BY <1>0, <1>1, <1>3 DEF IInv, TypeOK, IndexTypeOK, indexVars
<1>8. SequenceTypeOK' /\ ChainTypeOK' /\ LocalsTypeOK' /\ LocalsInv'
  BY <1>0 DEF IInv, TypeOK, SequenceTypeOK, ChainTypeOK, LocalsTypeOK, LocalsInv, indexVars,
         seqVars, chainVars, abcVars, invVars
<1>9. TreeInv'
  BY <1>0, <1>1, <1>6
  DEF IInv, TreeInv, ClosedUnderParent, failed, indexVars, chainVars, invVars
<1>10. MostWorkConnectable'
  BY <1>0, <1>1, <1>5
  DEF IInv, MostWorkConnectable, PathTo, failed, indexVars, chainVars, abcVars
<1>11. ForkKept'
  BY <1>0 DEF IInv, ForkKept, IsSuspicious, ReorgLength, chainVars, abcVars
<1>12. ActiveChainValid'
  BY <1>0, <1>1, <1>4 DEF IInv, ActiveChainValid, failed, indexVars, chainVars
<1> QED BY <1>7, <1>8, <1>9, <1>10, <1>11, <1>12 DEF Core

(* What a header adds to the index. *)
LEMMA AddToBlockIndexFacts ==
  ASSUME IInv, NEW b \in Blocks, AddToBlockIndex(b),
         b \in index \/ NewHeader(b)
  PROVE  /\ index' = index \cup {b} /\ index' \subseteq Blocks /\ bestHeader' \in index'
         /\ ClosedUnderParent(index')
  BY DEF AddToBlockIndex, NewHeader, IInv, TypeOK, IndexTypeOK, ChainTypeOK, TreeInv,
         ClosedUnderParent

LEMMA ProcessNewBlockHeadersCore ==
  ASSUME IInv, NEW b \in Blocks, ProcessNewBlockHeaders(b) PROVE Core'
<1>0. /\ AddToBlockIndex(b) /\ NewHeader(b)
      /\ valid' = RaiseValidity(b, BLOCK_VALID_TREE)
      /\ UNCHANGED <<nTx, nChainTx, haveData, haveUndo, lastStored, failVars, seqVars,
                     tip, candidates, unlinked, abcVars, invVars>>
  BY DEF ProcessNewBlockHeaders
<1>1. /\ index' = index \cup {b} /\ index' \subseteq Blocks /\ bestHeader' \in index'
      /\ ClosedUnderParent(index')
  BY <1>0, AddToBlockIndexFacts
<1>2. IndexTypeOK'
  BY <1>0, <1>1, RaiseValidityType DEF IInv, TypeOK, IndexTypeOK, failVars
<1>3. SequenceTypeOK' /\ ChainTypeOK' /\ LocalsTypeOK' /\ LocalsInv'
  BY <1>0, <1>1
  DEF IInv, TypeOK, SequenceTypeOK, ChainTypeOK, LocalsTypeOK, LocalsInv, seqVars,
         abcVars, invVars
<1>4. TreeInv'
  BY <1>0, <1>1 DEF IInv, TreeInv, ClosedUnderParent, failed, failVars, invVars
<1>5. MostWorkConnectable'
  BY <1>0 DEF IInv, MostWorkConnectable, PathTo, failed, failVars, abcVars
<1>6. ForkKept' BY <1>0 DEF IInv, ForkKept, IsSuspicious, ReorgLength, abcVars
<1>7. ActiveChainValid'
  BY <1>0, RaiseValidityType, ActiveChainGood
  DEF IInv, TypeOK, ActiveChainValid, failed, failVars
<1> QED BY <1>2, <1>3, <1>4, <1>5, <1>6, <1>7 DEF Core

LEMMA AcceptBadBlockCore ==
  ASSUME IInv, NEW b \in Blocks, NEW r, AcceptBadBlock(b, r) PROVE Core'
<1>0. /\ AddToBlockIndex(b) /\ (b \in index \/ NewHeader(b))
      /\ b \in BadContext /\ b \notin haveData
      /\ valid' = RaiseValidity(b, BLOCK_VALID_TREE) /\ failedValid' = failedValid \cup {b}
      /\ UNCHANGED <<nTx, nChainTx, haveData, haveUndo, lastStored, failedChild,
                     failedBlocks, seqVars, tip, candidates, unlinked, abcVars, invVars>>
  BY DEF AcceptBadBlock, WantBlock
<1>1. /\ index' = index \cup {b} /\ index' \subseteq Blocks /\ bestHeader' \in index'
      /\ ClosedUnderParent(index')
  BY <1>0, AddToBlockIndexFacts
<1>2. b # Genesis /\ b \notin nChainTx
  BY <1>0, ParameterAssumption DEF IInv, TypeOK, IndexTypeOK, TreeInv
<1>3. IndexTypeOK'
  BY <1>0, <1>1, RaiseValidityType DEF IInv, TypeOK, IndexTypeOK
<1>4. SequenceTypeOK' /\ ChainTypeOK' /\ LocalsTypeOK' /\ LocalsInv'
  BY <1>0, <1>1
  DEF IInv, TypeOK, SequenceTypeOK, ChainTypeOK, LocalsTypeOK, LocalsInv, seqVars,
         abcVars, invVars
<1>5. TreeInv'
  BY <1>0, <1>1, <1>2 DEF IInv, TreeInv, ClosedUnderParent, failed, invVars
<1>6. MostWorkConnectable'
  BY <1>0, <1>2, MostWorkGood DEF IInv, MostWorkConnectable, PathTo, failed, abcVars
<1>7. ForkKept' BY <1>0 DEF IInv, ForkKept, IsSuspicious, ReorgLength, abcVars
<1>8. ActiveChainValid'
  BY <1>0, <1>2, RaiseValidityType, ActiveChainGood
  DEF IInv, TypeOK, ActiveChainValid, failed
<1> QED BY <1>3, <1>4, <1>5, <1>6, <1>7, <1>8 DEF Core

(* The queue of ReceivedBlockTransactions links a set of stored blocks     *)
(* that hangs together.                                                    *)
LEMMA LinkableFacts ==
  ASSUME IInv, NEW b \in Blocks, HasLinkedParent(b)
  PROVE  /\ Linkable(b) \subseteq {b} \cup unlinked
         /\ ClosedUnderParent(nChainTx \cup Linkable(b))
         /\ Cardinality(Linkable(b)) \in Nat
<1> USE DEF Linkable
<1>1. Linkable(b) \subseteq {b} \cup unlinked
  <2> SUFFICES ASSUME NEW d \in Linkable(b), d # b PROVE d \in unlinked OBVIOUS
  <2>1. d \in Blocks /\ nHeight[d] \in Nat /\ nHeight[b] \in Nat BY TreeAssumption
  <2>2. nHeight[b] < nHeight[d] BY <2>1, AncestorsHeight
  <2>3. d \notin Ancestors[b] BY SMTT(30), <2>1, <2>2, AncestorsHeight
  <2> QED BY <2>1, <2>3, AncestorsAreBlocks
<1>2. ClosedUnderParent(nChainTx \cup Linkable(b))
  <2> SUFFICES ASSUME NEW d \in (nChainTx \cup Linkable(b)) \ {Genesis}
               PROVE  pprev[d] \in nChainTx \cup Linkable(b)
    BY DEF ClosedUnderParent
  <2>1. CASE d \in nChainTx BY <2>1 DEF IInv, TreeInv, ClosedUnderParent
  <2>2. CASE d = b BY <2>2 DEF HasLinkedParent
  <2>3. CASE d \in Linkable(b) /\ d # b
    BY SMTT(30), <2>3, AncestorsUnfold
  <2> QED BY <2>1, <2>2, <2>3
<1>3. Cardinality(Linkable(b)) \in Nat
  <2>1. IsFiniteSet(Linkable(b)) BY TreeAssumption, FS_Subset
  <2> QED BY <2>1, FS_CardinalityType
<1> QED BY <1>1, <1>2, <1>3

LEMMA ProcessNewBlockCore ==
  ASSUME IInv, NEW b \in Blocks, NEW r, ProcessNewBlock(b, r) PROVE Core'
<1> USE DEF ProcessNewBlock, WantBlock, ReceivedBlockTransactions
<1>1. /\ index' = index \cup {b} /\ index' \subseteq Blocks /\ bestHeader' \in index'
      /\ ClosedUnderParent(index')
  BY AddToBlockIndexFacts
<1>2. /\ nTx' = nTx \cup {b} /\ haveData' = haveData \cup {b} /\ lastStored' = b
      /\ valid' = RaiseValidity(b, BLOCK_VALID_TRANSACTIONS)
      /\ UNCHANGED <<haveUndo, failVars, nBlockReverseSequenceId,
                     nLastPreciousChainwork, tip, abcVars, invVars>>
  BY ZenonT(30)
<1>3. /\ nChainTx \subseteq nChainTx' /\ nChainTx' \subseteq nTx' /\ ClosedUnderParent(nChainTx')
      /\ unlinked' \subseteq unlinked \cup {b}
      /\ candidates' \subseteq nChainTx'
      /\ nSequenceId' \in [Blocks -> Int] /\ nBlockSequenceId' \in Nat
  <2>0. nChainTx \subseteq nTx /\ unlinked \subseteq nTx /\ candidates \subseteq nChainTx
        /\ nSequenceId \in [Blocks -> Int] /\ nBlockSequenceId \in Nat
    BY DEF IInv, TypeOK, IndexTypeOK, SequenceTypeOK, TreeInv
  <2>1. CASE HasLinkedParent(b)
    <3>1. /\ Linkable(b) \subseteq {b} \cup unlinked
          /\ ClosedUnderParent(nChainTx \cup Linkable(b))
          /\ Cardinality(Linkable(b)) \in Nat
      BY <2>1, LinkableFacts
    <3>2. PICK s \in SequenceIds(Linkable(b)) :
             /\ nChainTx' = nChainTx \cup Linkable(b)
             /\ nSequenceId' = [d \in Blocks |-> IF d \in Linkable(b) THEN s[d]
                                                 ELSE nSequenceId[d]]
             /\ nBlockSequenceId' = nBlockSequenceId + Cardinality(Linkable(b))
             /\ candidates' = candidates \cup
                                {d \in Linkable(b) : ~WorseBy(nSequenceId', d, tip)}
             /\ unlinked' = unlinked \ (Linkable(b) \ {b})
      BY <2>1
    <3> HIDE DEF ProcessNewBlock, ReceivedBlockTransactions
    <3>3. \A d \in Linkable(b) : s[d] \in Int
      BY SMTT(30), <2>0, <3>1, <3>2 DEF SequenceIds
    <3>4. nSequenceId' \in [Blocks -> Int] BY <2>0, <3>2, <3>3
    <3>5. nBlockSequenceId' \in Nat
      <4>1. nBlockSequenceId' = nBlockSequenceId + Cardinality(Linkable(b)) BY <3>2
      <4> QED BY SMTT(30), <2>0, <3>1, <4>1
    <3> QED BY <1>2, <2>0, <3>1, <3>2, <3>4, <3>5
  <2>2. CASE ~HasLinkedParent(b)
    <3>1. b \notin nChainTx
      BY <2>2 DEF HasLinkedParent, IInv, TreeInv, ClosedUnderParent
    <3>2. nChainTx' = nChainTx /\ unlinked' \subseteq unlinked \cup {b}
          /\ UNCHANGED <<nSequenceId, nBlockSequenceId, candidates>>
      BY <2>2, <3>1
    <3> QED BY <1>2, <2>0, <3>2 DEF IInv, TreeInv
  <2> QED BY <2>1, <2>2
<1>4. b \notin BadContext BY ZenonT(40)
<1> HIDE DEF ProcessNewBlock, WantBlock, ReceivedBlockTransactions
<1>5. IndexTypeOK'
  BY <1>1, <1>2, <1>3, RaiseValidityType DEF IInv, TypeOK, IndexTypeOK, failVars
<1>6. SequenceTypeOK' BY <1>2, <1>3 DEF IInv, TypeOK, SequenceTypeOK
<1>7. ChainTypeOK'
  BY <1>1, <1>2, <1>3 DEF IInv, TypeOK, IndexTypeOK, ChainTypeOK, TreeInv
<1>8. LocalsTypeOK' /\ LocalsInv'
  BY <1>1, <1>2 DEF IInv, TypeOK, LocalsTypeOK, LocalsInv, abcVars, invVars
<1>9. TreeInv'
  BY <1>1, <1>2, <1>3, <1>4 DEF IInv, TreeInv, failed, failVars, invVars
<1>10. MostWorkConnectable'
  BY <1>2, <1>3 DEF IInv, MostWorkConnectable, PathTo, failed, failVars, abcVars
<1>11. ForkKept' BY <1>2 DEF IInv, ForkKept, IsSuspicious, ReorgLength, abcVars
<1>12. ActiveChainValid'
  BY <1>2, <1>3, RaiseValidityType, ActiveChainGood
  DEF IInv, TypeOK, ActiveChainValid, failed, failVars
<1> QED BY <1>5, <1>6, <1>7, <1>8, <1>9, <1>10, <1>11, <1>12 DEF Core

LEMMA PreciousBlockCore == ASSUME IInv, NEW b \in Blocks, PreciousBlock(b) PROVE Core'
<1>0. /\ \E id \in {-1, nBlockReverseSequenceId} :
           nSequenceId' = [nSequenceId EXCEPT ![b] = id] /\ nBlockReverseSequenceId' = id - 1
      /\ nLastPreciousChainwork' = nChainWork[tip]
      /\ candidates' = PreciousCandidates(b, nSequenceId')
      /\ UNCHANGED <<indexVars, failVars, nBlockSequenceId, tip, unlinked, bestHeader,
                     abcVars, invVars>>
  BY DEF PreciousBlock
<1>1. candidates' \subseteq nChainTx
  BY <1>0 DEF PreciousCandidates, PruneBlockIndexCandidates, IInv, TreeInv
<1>2. SequenceTypeOK'
  <2>1. nBlockReverseSequenceId \in Int /\ tip \in Blocks
        /\ nSequenceId \in [Blocks -> Int] /\ nBlockSequenceId \in Nat
    BY <1>0 DEF IInv, TypeOK, SequenceTypeOK, IndexTypeOK, ChainTypeOK
  <2>2. PICK id \in {-1, nBlockReverseSequenceId} :
          nSequenceId' = [nSequenceId EXCEPT ![b] = id] /\ nBlockReverseSequenceId' = id - 1
    BY <1>0
  <2>3. nLastPreciousChainwork' = nChainWork[tip] /\ UNCHANGED nBlockSequenceId BY <1>0
  <2>4. nSequenceId' \in [Blocks -> Int] /\ nBlockReverseSequenceId' \in Int
    BY SMTT(30), <1>0, <2>1, <2>2
  <2>5. nLastPreciousChainwork' \in Nat BY SMTT(30), <1>0, <2>1, <2>3, WorkAssumption
  <2> QED BY <2>1, <2>3, <2>4, <2>5 DEF SequenceTypeOK
<1>3. IndexTypeOK' BY <1>0 DEF IInv, TypeOK, IndexTypeOK, indexVars, failVars
<1>4. ChainTypeOK' /\ LocalsTypeOK' /\ LocalsInv'
  BY <1>0, <1>1
  DEF IInv, TypeOK, IndexTypeOK, ChainTypeOK, LocalsTypeOK, LocalsInv, indexVars,
              abcVars, invVars
<1>5. TreeInv'
  BY <1>0, <1>1
  DEF IInv, TreeInv, ClosedUnderParent, failed, indexVars, failVars, invVars
<1>6. MostWorkConnectable' /\ ForkKept'
  BY <1>0
  DEF IInv, MostWorkConnectable, ForkKept, IsSuspicious, ReorgLength, PathTo, failed,
         indexVars, failVars, abcVars
<1>7. ActiveChainValid' BY <1>0 DEF IInv, ActiveChainValid, failed, indexVars, failVars
<1> QED BY <1>2, <1>3, <1>4, <1>5, <1>6, <1>7 DEF Core

LEMMA InvBeginCore == ASSUME IInv, NEW b \in Blocks, InvBegin(b) PROVE Core'
<1>0. /\ MutexFree /\ b \in index \ {Genesis}
      /\ invPc' = "loop" /\ invBlock' = b /\ to_mark_failed' = b
      /\ byWork' \subseteq index /\ byWork' \subseteq nChainTx
      /\ UNCHANGED <<indexVars, failVars, seqVars, chainVars, abcVars>>
  BY DEF InvBegin, Eligible
<1>1. byWork' \subseteq nChainTx BY <1>0 DEF Eligible
<1>2. IndexTypeOK' /\ SequenceTypeOK' /\ ChainTypeOK' /\ ActiveChainValid'
      /\ MostWorkConnectable' /\ ForkKept'
  BY <1>0, TreeUnchanged
<1>3. LocalsTypeOK' /\ LocalsInv'
  BY <1>0, <1>1
  DEF IInv, TypeOK, IndexTypeOK, LocalsTypeOK, LocalsInv, MutexFree, indexVars, abcVars
<1>4. TreeInv'
  BY <1>0, <1>1 DEF IInv, TreeInv, ClosedUnderParent, failed, indexVars, failVars, chainVars
<1> QED BY <1>2, <1>3, <1>4 DEF Core

(* A turn of the loop in InvalidateBlock marks the block it takes off the  *)
(* chain; it never relabels a block, since no block below the tip is       *)
(* marked as failed.                                                       *)
LEMMA InvDisconnectCore == ASSUME IInv, InvDisconnect PROVE Core'
<1>0. /\ invPc = "loop" /\ invBlock \in Ancestors[tip]
      /\ tip' = pprev[tip] /\ to_mark_failed' = tip
      /\ \E relabel \in SUBSET ({tip'} \cap failedValid) :
           /\ failedValid' = (failedValid \cup {tip}) \ relabel
           /\ failedChild' = failedChild \cup relabel
      /\ \E found \in SUBSET byWork :
           /\ candidates' = (candidates \ {tip}) \cup {tip'} \cup found
           /\ byWork' = byWork \ found
      /\ UNCHANGED <<indexVars, failedBlocks, seqVars, unlinked, bestHeader, abcVars,
                     invPc, invBlock>>
  BY DEF InvDisconnect, Contains
<1>1. tip \in Blocks /\ invBlock \in Blocks \ {Genesis} /\ tip # Genesis
  BY <1>0, AncestorsOfGenesis DEF IInv, TypeOK, IndexTypeOK, ChainTypeOK, LocalsInv
<1>2. tip' = pprev[tip] /\ tip' \in Blocks /\ Ancestors[tip] = {tip} \cup Ancestors[tip']
  BY <1>0, <1>1, AncestorsUnfold
<1>3. tip \notin Ancestors[tip']
  <2>1. nHeight[tip] = nHeight[tip'] + 1 /\ nHeight[tip'] \in Nat
    BY <1>0, <1>1, <1>2, TreeAssumption
  <2>2. nHeight[tip] # nHeight[tip'] /\ ~(nHeight[tip] < nHeight[tip']) BY SMTT(30), <1>0, <2>1
  <2> QED BY <1>2, <2>2, AncestorsHeight
<1>4. tip' \in index /\ tip' \in nChainTx /\ tip' \notin failed /\ tip \in index
  BY <1>0, <1>1, <1>2, AncestorsAreBlocks, ActiveChainGood
<1>5. failedValid' = failedValid \cup {tip} /\ failedChild' = failedChild
  BY <1>0, <1>2, <1>4 DEF failed
<1>6. candidates' \subseteq nChainTx /\ byWork' \subseteq byWork
  BY <1>0, <1>2, <1>4 DEF IInv, TreeInv
<1>7. IndexTypeOK'
  BY <1>0, <1>4, <1>5 DEF IInv, TypeOK, IndexTypeOK, indexVars
<1>8. SequenceTypeOK' /\ ChainTypeOK'
  BY <1>0, <1>4, <1>6
  DEF IInv, TypeOK, IndexTypeOK, SequenceTypeOK, ChainTypeOK, indexVars, seqVars
<1>9. LocalsTypeOK' /\ LocalsInv'
  BY <1>0, <1>1, <1>4, <1>6
  DEF IInv, TypeOK, LocalsTypeOK, LocalsInv, indexVars, abcVars
<1>10. TreeInv'
  BY <1>0, <1>1, <1>5, <1>6 DEF IInv, TreeInv, ClosedUnderParent, failed, indexVars
<1>11. MostWorkConnectable' /\ ForkKept'
  BY <1>0 DEF IInv, LocalsInv, MostWorkConnectable, ForkKept, abcVars
<1>12. ActiveChainValid'
  BY <1>0, <1>2, <1>3, <1>5 DEF IInv, ActiveChainValid, failed, indexVars
<1> QED BY <1>7, <1>8, <1>9, <1>10, <1>11, <1>12 DEF Core

LEMMA InvCannotDisconnectCore == ASSUME IInv, InvCannotDisconnect PROVE Core'
<1>0. /\ invPc = "loop" /\ invPc' = "idle" /\ invBlock' = NULL
      /\ to_mark_failed' = NULL /\ byWork' = {}
      /\ UNCHANGED <<indexVars, failVars, seqVars, chainVars, abcVars>>
  BY DEF InvCannotDisconnect, InvReturn
<1>1. IndexTypeOK' /\ SequenceTypeOK' /\ ChainTypeOK' /\ ActiveChainValid'
      /\ MostWorkConnectable' /\ ForkKept' /\ TreeInv'
  BY <1>0, TreeUnchanged
<1>2. LocalsTypeOK' /\ LocalsInv'
  BY <1>0 DEF IInv, TypeOK, LocalsTypeOK, LocalsInv, indexVars, abcVars
<1> QED BY <1>1, <1>2 DEF Core

LEMMA InvFinalCore == ASSUME IInv, InvFinal PROVE Core'
<1>0. /\ invPc = "loop" /\ invPc' = "idle" /\ invBlock' = NULL
      /\ to_mark_failed' = NULL /\ byWork' = {}
      /\ UNCHANGED <<indexVars, failedChild, seqVars, tip, unlinked, abcVars>>
  BY DEF InvFinal, InvReturn
<1>1. LocalsTypeOK' /\ LocalsInv' /\ MostWorkConnectable' /\ ForkKept'
  BY <1>0 DEF IInv, TypeOK, LocalsTypeOK, LocalsInv, MostWorkConnectable, ForkKept, indexVars,
         abcVars
<1>2. CASE UNCHANGED <<failedValid, failedBlocks, candidates, bestHeader>>
  BY <1>0, <1>1, <1>2, TreeUnchanged DEF Core, failVars, chainVars
<1>3. CASE /\ to_mark_failed \notin Ancestors[tip]
           /\ failedValid' = failedValid \cup {to_mark_failed}
           /\ failedBlocks' = failedBlocks \cup {to_mark_failed}
           /\ candidates' = (candidates \cup LateCandidates) \ {to_mark_failed}
           /\ bestHeader' \in {tip, bestHeader}
  <2>1. tip \in Blocks /\ to_mark_failed \in index /\ to_mark_failed # Genesis
    BY SMTT(40), <1>0, <1>3, GenesisIsAncestor, TreeAssumption
    DEF IInv, TypeOK, IndexTypeOK, ChainTypeOK, LocalsTypeOK, LocalsInv
  <2>2. candidates' \subseteq nChainTx
    BY <1>0, <1>3 DEF LateCandidates, Eligible, IInv, TreeInv
  <2>3. IndexTypeOK' /\ SequenceTypeOK'
    BY <1>0, <1>3, <2>1
    DEF IInv, TypeOK, IndexTypeOK, SequenceTypeOK, indexVars, seqVars
  <2>4. ChainTypeOK'
    BY <1>0, <1>3, <2>2 DEF IInv, TypeOK, IndexTypeOK, ChainTypeOK, indexVars
  <2>5. TreeInv'
    BY <1>0, <1>3, <2>1, <2>2
    DEF IInv, TreeInv, ClosedUnderParent, failed, indexVars
  <2>6. ActiveChainValid'
    BY <1>0, <1>3 DEF IInv, ActiveChainValid, failed, indexVars
  <2> QED BY <1>1, <2>3, <2>4, <2>5, <2>6 DEF Core
<1> QED BY <1>2, <1>3 DEF InvFinal, Contains, InvalidChainFound

LEMMA ResetBlockFailureFlagsCore ==
  ASSUME IInv, NEW b \in Blocks, ResetBlockFailureFlags(b) PROVE Core'
<1>0. /\ failedValid' = failedValid \ Cleared(b) /\ failedChild' = failedChild \ Cleared(b)
      /\ failedBlocks' = failedBlocks \
                           (((Descendants(b) \cap failed) \cup Ancestors[b]) \cap failed)
      /\ candidates' \subseteq candidates \cup nChainTx
      /\ UNCHANGED <<indexVars, seqVars, tip, unlinked, bestHeader, abcVars, invVars>>
  BY DEF ResetBlockFailureFlags
<1>1. failed' \subseteq failed /\ candidates' \subseteq nChainTx
  BY <1>0 DEF failed, IInv, TreeInv
<1>2. failedBlocks' \subseteq failed'
  BY <1>0, AncestorsAreBlocks
  DEF failed, Cleared, Descendants, IInv, TypeOK, IndexTypeOK, TreeInv
<1>3. IndexTypeOK' BY <1>0 DEF IInv, TypeOK, IndexTypeOK, indexVars
<1>4. SequenceTypeOK' /\ ChainTypeOK'
  BY <1>0, <1>1
  DEF IInv, TypeOK, IndexTypeOK, SequenceTypeOK, ChainTypeOK, indexVars, seqVars
<1>5. LocalsTypeOK' /\ LocalsInv'
  BY <1>0 DEF IInv, TypeOK, LocalsTypeOK, LocalsInv, indexVars, abcVars, invVars
<1>6. TreeInv'
  BY <1>0, <1>1, <1>2 DEF IInv, TreeInv, ClosedUnderParent, indexVars, invVars
<1>7. MostWorkConnectable'
  BY <1>0, <1>1 DEF IInv, MostWorkConnectable, PathTo, indexVars, abcVars
<1>8. ForkKept' BY <1>0 DEF IInv, ForkKept, IsSuspicious, ReorgLength, abcVars
<1>9. ActiveChainValid' BY <1>0, <1>1 DEF IInv, ActiveChainValid, indexVars
<1> QED BY <1>3, <1>4, <1>5, <1>6, <1>7, <1>8, <1>9 DEF Core

(* Pruning stays below the tip, so it never takes a block of the chosen    *)
(* chain: between two critical sections of ActivateBestChain that chain    *)
(* continues the active one.                                               *)
LEMMA PruneBlockFilesManualCore ==
  ASSUME IInv, NEW h, PruneBlockFilesManual(h) PROVE Core'
<1> DEFINE maxPrune == IF nHeight[tip] > MinBlocksToKeep
                       THEN nHeight[tip] - MinBlocksToKeep ELSE 0
           P == {b \in haveData \ {lastStored} : nHeight[b] <= h /\ nHeight[b] <= maxPrune}
<1>0. haveData' = haveData \ P /\ haveUndo' = haveUndo \ P /\ unlinked' = unlinked \ P
  BY DEF PruneBlockFilesManual
<1>1. PICK pruned \in SUBSET haveData :
        /\ haveData' = haveData \ pruned /\ haveUndo' = haveUndo \ pruned
        /\ unlinked' = unlinked \ pruned
        /\ \A b \in pruned : nHeight[b] <= maxPrune
  <2>1. P \in SUBSET haveData /\ \A b \in P : nHeight[b] <= maxPrune OBVIOUS
  <2> HIDE DEF P, maxPrune
  <2> QED BY <1>0, <2>1
<1>2. tip \in Blocks /\ nHeight[tip] \in Nat /\ MinBlocksToKeep \in Nat
  BY TreeAssumption, ParameterAssumption DEF IInv, TypeOK, IndexTypeOK, ChainTypeOK
<1>3. CsMainFree BY DEF PruneBlockFilesManual
<1>4. \A b \in pruned : nHeight[b] <= nHeight[tip]
  <2> SUFFICES ASSUME NEW b \in pruned PROVE nHeight[b] <= nHeight[tip] OBVIOUS
  <2>1. nHeight[b] \in Nat BY TreeAssumption DEF IInv, TypeOK, IndexTypeOK
  <2> QED BY SMTT(30), <1>1, <1>2, <2>1
<1>5. pindexMostWork # NULL => PathTo(pindexMostWork) \cap pruned = {}
  <2> SUFFICES ASSUME pindexMostWork # NULL, NEW b \in PathTo(pindexMostWork), b \in pruned
               PROVE  FALSE
    OBVIOUS
  <2>1. abcPc = "lock" BY <1>3 DEF CsMainFree, IInv, LocalsInv
  <2>2. tip \in Ancestors[pindexMostWork] /\ pindexMostWork \in Blocks
    BY <2>1 DEF IInv, TypeOK, IndexTypeOK, LocalsTypeOK, MostWorkConnectable
  <2>3. b \in Ancestors[pindexMostWork] /\ b \notin Ancestors[tip] BY DEF PathTo
  <2>4. b \in Blocks /\ tip \in Ancestors[b] /\ tip # b
    BY <1>2, <2>2, <2>3, AncestorsComparable, AncestorsAreBlocks
  <2>5. nHeight[tip] < nHeight[b] BY <2>4, AncestorsHeight
  <2>6. nHeight[b] \in Nat BY <2>4, TreeAssumption
  <2> QED BY SMTT(30), <1>2, <1>4, <2>5, <2>6
<1>6. UNCHANGED <<index, valid, nTx, nChainTx, lastStored, failVars, seqVars, tip,
                  candidates, bestHeader, abcVars, invVars>>
  BY DEF PruneBlockFilesManual
<1> HIDE DEF P
<1>7. IndexTypeOK' BY <1>1, <1>6 DEF IInv, TypeOK, IndexTypeOK, failVars
<1>8. SequenceTypeOK' /\ ChainTypeOK' /\ LocalsTypeOK' /\ LocalsInv'
  BY <1>1, <1>6
  DEF IInv, TypeOK, SequenceTypeOK, ChainTypeOK, LocalsTypeOK, LocalsInv,
                    seqVars, abcVars, invVars
<1>9. TreeInv'
  BY <1>1, <1>6 DEF IInv, TreeInv, ClosedUnderParent, failed, failVars, invVars
<1>10. MostWorkConnectable'
  BY <1>1, <1>5, <1>6
  DEF IInv, MostWorkConnectable, PathTo, failed, failVars, abcVars
<1>11. ForkKept' BY <1>6 DEF IInv, ForkKept, IsSuspicious, ReorgLength, abcVars
<1>12. ActiveChainValid' BY <1>6 DEF IInv, ActiveChainValid, failed, failVars
<1> QED BY <1>7, <1>8, <1>9, <1>10, <1>11, <1>12 DEF Core

LEMMA RestartCore == ASSUME IInv, Restart PROVE Core'
<1>0. /\ abcPc = "idle" /\ invPc = "idle"
      /\ nChainTx' = {b \in nTx : Ancestors[b] \subseteq nTx}
      /\ unlinked' \subseteq nTx
      /\ failedChild' = failedChild \cup
                          {b \in index \ failed : Ancestors[b] \cap failed # {}}
      /\ failedBlocks' = {}
      /\ nSequenceId' = [b \in Blocks |-> 0]
      /\ nBlockSequenceId' = 1 /\ nBlockReverseSequenceId' = -1
      /\ nLastPreciousChainwork' = 0
      /\ candidates' \subseteq nChainTx' /\ bestHeader' \in index
      /\ UNCHANGED <<index, valid, nTx, haveData, haveUndo, lastStored, failedValid, tip,
                     abcVars, invVars>>
  BY DEF Restart, MutexFree, LoadCandidates, PruneBlockIndexCandidates
<1>1. nChainTx \subseteq nChainTx' /\ nChainTx' \subseteq nTx /\ ClosedUnderParent(nChainTx')
  <2>1. nChainTx \subseteq nTx /\ nTx \subseteq Blocks BY <1>0 DEF IInv, TypeOK, IndexTypeOK
  <2>2. nChainTx \subseteq nChainTx' BY <1>0, <2>1, ChainsClosed DEF IInv
  <2>3. ClosedUnderParent(nChainTx')
    <3> SUFFICES ASSUME NEW x \in nChainTx' \ {Genesis} PROVE pprev[x] \in nChainTx'
      BY <1>0 DEF ClosedUnderParent
    <3>1. x \in Blocks /\ Ancestors[x] \subseteq nTx BY <1>0, <2>1
    <3>2. pprev[x] \in Ancestors[x] /\ Ancestors[pprev[x]] \subseteq Ancestors[x]
      BY <1>0, <3>1, AncestorsUnfold, AncestorsAreBlocks
    <3> QED BY <1>0, <3>1, <3>2
  <2> QED BY <1>0, <2>1, <2>2, <2>3
<1>2. tip \in Blocks
      /\ \A b \in Ancestors[tip] : Ancestors[b] \cap failed = {} /\ b \in index
  <2>1. tip \in Blocks BY <1>0 DEF IInv, TypeOK, IndexTypeOK, ChainTypeOK
  <2> QED BY <2>1, AncestorsTransitive, ActiveChainGood
<1>3. Ancestors[tip] \cap failed' = {}
  BY <1>0, <1>2, ActiveChainGood DEF failed
<1>4. failed \subseteq failed' /\ failed' \subseteq index /\ Genesis \notin failed'
  BY <1>0, <1>2, <1>3, GenesisIsAncestor DEF failed, IInv, TypeOK, IndexTypeOK
<1>5. candidates' \subseteq nChainTx' /\ unlinked' \subseteq nTx
  BY <1>0
<1>6. IndexTypeOK'
  BY <1>0, <1>1, <1>4 DEF failed, IInv, TypeOK, IndexTypeOK
<1>7. SequenceTypeOK'
  <2>1. /\ nSequenceId' = [b \in Blocks |-> 0]
        /\ nBlockSequenceId' = 1 /\ nBlockReverseSequenceId' = -1
        /\ nLastPreciousChainwork' = 0
    BY <1>0
  <2> QED BY SMTT(30), <2>1 DEF SequenceTypeOK
<1>8. ChainTypeOK'
  BY <1>0, <1>1, <1>5 DEF IInv, TypeOK, IndexTypeOK, ChainTypeOK
<1>9. LocalsTypeOK' /\ LocalsInv'
  BY <1>0 DEF IInv, TypeOK, LocalsTypeOK, LocalsInv, abcVars, invVars
<1>10. TreeInv'
  BY <1>0, <1>1, <1>4, <1>5 DEF IInv, TreeInv, LocalsInv, invVars
<1>11. MostWorkConnectable' /\ ForkKept'
  BY <1>0 DEF IInv, LocalsInv, MostWorkConnectable, ForkKept, abcVars
<1>12. ActiveChainValid'
  BY <1>0, <1>1, <1>3 DEF IInv, ActiveChainValid
<1> QED BY <1>6, <1>7, <1>8, <1>9, <1>10, <1>11, <1>12 DEF Core

(* Every step, of whichever thread, keeps the inductive invariant. *)
LEMMA IInvStep == IInv /\ [Next]_vars => IInv'
<1> SUFFICES ASSUME IInv, [Next]_vars PROVE IInv' OBVIOUS
<1>1. Core'
  <2>1. CASE Network
    BY <2>1, RejectHeaderCore, ProcessNewBlockHeadersCore, AcceptBadBlockCore,
       ProcessNewBlockCore DEF Network
  <2>2. CASE ABCBegin BY <2>2, ABCBeginCore
  <2>3. CASE ABCStep
    BY <2>3, ABCLockCore, FindMostWorkChainCore, ABCNothingToDoCore, ABCStepBeginCore,
       AbortCore, ABCDisconnectCore, ABCConnectCore, ABCConnectInvalidCore DEF ABCStep
  <2>4. CASE ABCSystemError BY <2>4, AbortCore
  <2>5. CASE InvStep
    BY <2>5, InvDisconnectCore, InvCannotDisconnectCore, InvFinalCore DEF InvStep
  <2>6. CASE Operator
    BY <2>6, PreciousBlockCore, InvBeginCore, ResetBlockFailureFlagsCore,
       PruneBlockFilesManualCore, RequestShutdownCore DEF Operator
  <2>7. CASE Restart BY <2>7, RestartCore
  <2>8. CASE UNCHANGED vars BY <2>8, TreeUnchanged DEF vars, Core, invVars
  <2> QED BY <2>1, <2>2, <2>3, <2>4, <2>5, <2>6, <2>7, <2>8 DEF Next
<1>2. ControlTypeOK' BY ControlStep DEF IInv, TypeOK
<1> QED BY <1>1, <1>2 DEF Core, IInv, TypeOK

(* The inductive invariant holds in every reachable state of the node. *)
THEOREM Invariance == Spec => []IInv
<1> QED BY InitIInv, IInvStep, PTL DEF Spec

(* Every flag of the block index and every local of ActivateBestChain and  *)
(* InvalidateBlock stays within its range.                                 *)
THEOREM TypeCorrect == Spec => []TypeOK
<1>1. IInv => TypeOK BY DEF IInv
<1> QED BY <1>1, Invariance, PTL

(* The active chain consists of blocks that ConnectBlock accepted, and no  *)
(* message, command, pruning or restart ever marks one of them as failed.  *)
THEOREM ActiveChainIsValid == Spec => []ActiveChainValid
<1>1. IInv => ActiveChainValid BY DEF IInv
<1> QED BY <1>1, Invariance, PTL

(* The chain that FindMostWorkChain has chosen can be connected until      *)
(* ActivateBestChain gives it up, even though cs_main is free in between.  *)
THEOREM ChosenChainStaysConnectable == Spec => []MostWorkConnectable
<1>1. IInv => MostWorkConnectable BY DEF IInv
<1> QED BY <1>1, Invariance, PTL

(* A step of ActivateBestChain takes fewer than -suspiciousreorgdepth      *)
(* blocks off the chain it started from.                                   *)
THEOREM ReorgIsBounded == Spec => []ReorgWithinDepth
<1>1. IInv => ReorgWithinDepth
  <2> SUFFICES ASSUME IInv, abcPc = "step", SuspiciousReorgDepth > 0
               PROVE  ReorgLength(pindexOldTip, tip) < SuspiciousReorgDepth
    BY DEF ReorgWithinDepth
  <2> DEFINE lost == Ancestors[pindexOldTip] \ Ancestors[tip]
             planned == Ancestors[pindexOldTip] \ Ancestors[pindexMostWork]
  <2>1. pindexOldTip \in Blocks
    BY DEF IInv, TypeOK, IndexTypeOK, LocalsTypeOK, LocalsInv
  <2>2. lost \subseteq planned /\ planned \subseteq Blocks
    BY <2>1, AncestorsAreBlocks DEF IInv, ForkKept
  <2>3. IsFiniteSet(planned) BY <2>2, TreeAssumption, FS_Subset
  <2> HIDE DEF lost, planned
  <2>4. Cardinality(lost) <= Cardinality(planned) /\ IsFiniteSet(lost)
    BY <2>2, <2>3, FS_Subset
  <2>5. Cardinality(lost) \in Nat /\ Cardinality(planned) \in Nat
    BY <2>3, <2>4, FS_CardinalityType
  <2>6. SuspiciousReorgDepth \in Nat BY ParameterAssumption
  <2>7. ~(Cardinality(planned) >= SuspiciousReorgDepth)
    BY DEF IInv, ForkKept, IsSuspicious, ReorgLength, planned
  <2>8. Cardinality(lost) < SuspiciousReorgDepth BY SMTT(30), <2>4, <2>5, <2>6, <2>7
  <2> QED BY <2>8 DEF ReorgLength, lost
<1> QED BY <1>1, Invariance, PTL

-----------------------------------------------------------------------------
(* Failure flags and their causes *)

(* Flags that were there keep their cause when BLOCK_FAILED_VALID is only  *)
(* added, so only the new flags need one.                                  *)
LEMMA CauseKept ==
  ASSUME FailedHasCause, failedValid \subseteq failedValid',
         \A b \in failed' \ failed : Ancestors[b] \cap failedValid' # {}
  PROVE  FailedHasCause'
  BY DEF FailedHasCause

(* What lies above a failed block has a cause. *)
LEMMA CauseAbove ==
  ASSUME IInv, FailedHasCause, NEW b \in Blocks, NEW f \in failed, f \in Ancestors[b]
  PROVE  Ancestors[b] \cap failedValid # {}
  BY AncestorsTransitive DEF FailedHasCause

(* So has what AcceptBlockHeader and FindMostWorkChain mark, the blocks of *)
(* a chain above a failed one.                                             *)
LEMMA CauseBetween ==
  ASSUME IInv, FailedHasCause, NEW b \in Blocks, NEW f \in failed, f \in Ancestors[b],
         NEW x \in Ancestors[b] \ Ancestors[f]
  PROVE  Ancestors[x] \cap failedValid # {}
<1>1. x \in Blocks BY AncestorsAreBlocks
<1>2. f \in Ancestors[x] BY AncestorsComparable
<1> QED BY <1>1, <1>2, CauseAbove

(* reconsiderblock on a block without a failed proper ancestor: a cause is *)
(* cleared only together with everything above it.                         *)
LEMMA ReconsiderKeepsCause ==
  ASSUME IInv, FailedHasCause, ReconsiderAny = FALSE \/ "reconsider" \notin Commands,
         NEW b \in Blocks, ResetBlockFailureFlags(b)
  PROVE  FailedHasCause'
<1> SUFFICES ASSUME NEW d \in failed' PROVE Ancestors[d] \cap failedValid' # {}
  BY DEF FailedHasCause
<1>1. /\ failedValid' = failedValid \ Cleared(b) /\ failedChild' = failedChild \ Cleared(b)
      /\ (Ancestors[b] \ {b}) \cap failed = {}
  BY DEF ResetBlockFailureFlags, Command
<1>2. d \in failed /\ d \notin Cleared(b) BY <1>1 DEF failed
<1>3. d \in Blocks BY <1>2 DEF IInv, TypeOK, IndexTypeOK, failed
<1>4. PICK a \in Ancestors[d] : a \in failedValid BY <1>2 DEF FailedHasCause
<1>5. a \in Blocks BY <1>3, <1>4, AncestorsAreBlocks
<1>6. b \notin Ancestors[a]
  <2>1. b \notin Ancestors[d] BY <1>2, <1>3 DEF Cleared, Descendants
  <2> QED BY <1>3, <1>4, <2>1, AncestorsTransitive
<1>7. a \notin Ancestors[b]
  <2>1. a # b BY <1>5, <1>6, AncestorsAreBlocks
  <2> QED BY <1>1, <1>4, <2>1 DEF failed
<1> QED BY <1>1, <1>4, <1>6, <1>7 DEF Cleared, Descendants

(* InvalidateBlock marks a block it has taken off the chain; the relabelling *)
(* finds nothing to relabel, because the active chain has no failed block.  *)
LEMMA InvDisconnectKeepsCause ==
  ASSUME IInv, FailedHasCause, InvDisconnect PROVE FailedHasCause'
<1> DEFINE relabel == {pprev[tip]} \cap {to_mark_failed} \cap failedValid
<1>1. /\ failedValid' = (failedValid \cup {tip}) \ relabel
      /\ failedChild' = failedChild \cup relabel
  BY DEF InvDisconnect
<1>2. tip \in Blocks /\ tip # Genesis
  <2>1. invBlock \in Blocks \ {Genesis} /\ invBlock \in Ancestors[tip]
    BY DEF IInv, LocalsInv, InvDisconnect, Contains
  <2> QED BY <2>1, AncestorsOfGenesis DEF IInv, TypeOK, IndexTypeOK, ChainTypeOK
<1>3. pprev[tip] \in Ancestors[tip]
  BY <1>2, AncestorsUnfold, AncestorsAreBlocks
<1>4. relabel = {}
  BY <1>3 DEF IInv, ActiveChainValid, TreeInv, failed
<1>5. Ancestors[tip] \cap failedValid' # {}
  BY <1>1, <1>2, <1>4, AncestorsAreBlocks
<1> QED BY <1>1, <1>4, <1>5, CauseKept DEF failed

(* The steps that add flags. *)
LEMMA MarkingKeepsCause ==
  ASSUME IInv, FailedHasCause,
         \/ \E b \in Blocks : RejectHeader(b)
         \/ \E b \in Blocks : \E fRequested \in BOOLEAN : AcceptBadBlock(b, fRequested)
         \/ FindMostWorkChain
         \/ \E x \in Blocks : ABCConnectInvalid(x)
         \/ InvFinal
         \/ Restart
  PROVE  FailedHasCause'
<1>0. failed \subseteq Blocks /\ failedBlocks \subseteq failed /\ candidates \subseteq Blocks
      /\ index \subseteq Blocks
  BY DEF IInv, TypeOK, IndexTypeOK, ChainTypeOK, TreeInv, failed
<1>1. ASSUME NEW b \in Blocks, RejectHeader(b) PROVE FailedHasCause'
  <2>1. PICK f \in FailedBelow(b) :
           failedChild' = failedChild \cup (Ancestors[pprev[b]] \ Ancestors[f])
    BY <1>1 DEF RejectHeader
  <2>2. f \in failed /\ f \in Ancestors[pprev[b]] BY <1>0, <2>1 DEF FailedBelow
  <2>3. pprev[b] \in Blocks BY <1>0, <1>1 DEF RejectHeader, NewHeader
  <2>4. failedValid' = failedValid BY <1>1 DEF RejectHeader
  <2> QED BY <2>1, <2>2, <2>3, <2>4, CauseBetween, CauseKept DEF failed
<1>2. ASSUME NEW b \in Blocks, NEW fRequested \in BOOLEAN, AcceptBadBlock(b, fRequested)
      PROVE  FailedHasCause'
  <2>1. failedValid' = failedValid \cup {b} /\ failedChild' = failedChild
    BY <1>2 DEF AcceptBadBlock
  <2> QED BY <2>1, CauseKept, AncestorsAreBlocks DEF failed
<1>3. CASE FindMostWorkChain
  <2>1. failedValid' = failedValid BY <1>3 DEF FindMostWorkChain
  <2>2. PICK pindexNew \in candidates :
          \/ UNCHANGED failedChild
          \/ \E pindexTest \in Unusable(pindexNew) :
               /\ pindexTest \in failed
               /\ failedChild' = failedChild \cup (Ancestors[pindexNew] \ Ancestors[pindexTest])
    BY <1>3 DEF FindMostWorkChain
  <2>3. CASE UNCHANGED failedChild BY <2>1, <2>3, CauseKept DEF failed
  <2>4. ASSUME NEW pindexTest \in Unusable(pindexNew), pindexTest \in failed,
               failedChild' = failedChild \cup (Ancestors[pindexNew] \ Ancestors[pindexTest])
        PROVE  FailedHasCause'
    <3>1. pindexNew \in Blocks /\ pindexTest \in Ancestors[pindexNew]
      BY <1>0, <2>4 DEF Unusable, PathTo
    <3> QED BY <2>1, <2>4, <3>1, CauseBetween, CauseKept DEF failed
  <2> QED BY <2>2, <2>3, <2>4
<1>4. ASSUME NEW x \in Blocks, ABCConnectInvalid(x) PROVE FailedHasCause'
  <2>1. failedValid' = failedValid \cup {x} /\ failedChild' = failedChild
    BY <1>4 DEF ABCConnectInvalid, InvalidBlockFound
  <2> QED BY <2>1, CauseKept, AncestorsAreBlocks DEF failed
<1>5. CASE InvFinal
  <2>1. to_mark_failed \in Blocks BY <1>5 DEF InvFinal, IInv, LocalsInv
  <2>2. failedChild' = failedChild
        /\ (failedValid' = failedValid \/ failedValid' = failedValid \cup {to_mark_failed})
    BY <1>5 DEF InvFinal
  <2> QED BY <2>1, <2>2, CauseKept, AncestorsAreBlocks DEF failed
<1>6. CASE Restart
  <2>1. /\ failedValid' = failedValid
        /\ failedChild' = failedChild \cup
                            {b \in index \ failed : Ancestors[b] \cap failed # {}}
    BY <1>6 DEF Restart
  <2>2. ASSUME NEW b \in index, Ancestors[b] \cap failed # {}
        PROVE  Ancestors[b] \cap failedValid # {}
    BY <1>0, <2>2, CauseAbove
  <2> QED BY <2>1, <2>2, CauseKept DEF failed
<1> QED BY <1>1, <1>2, <1>3, <1>4, <1>5, <1>6

(* Every other step leaves the flags alone. *)
LEMMA FlagsUntouched ==
  ASSUME FailedHasCause, UNCHANGED <<failedValid, failedChild>> PROVE FailedHasCause'
  BY DEF FailedHasCause, failed

LEMMA CauseStep ==
  ASSUME ReconsiderAny = FALSE \/ "reconsider" \notin Commands
  PROVE  IInv /\ FailedHasCause /\ [Next]_vars => FailedHasCause'
<1> SUFFICES ASSUME IInv, FailedHasCause, [Next]_vars PROVE FailedHasCause' OBVIOUS
<1>1. CASE Network
  <2>1. ASSUME NEW b \in Blocks, ProcessNewBlockHeaders(b) PROVE FailedHasCause'
    BY <2>1, FlagsUntouched DEF ProcessNewBlockHeaders, failVars
  <2>2. ASSUME NEW b \in Blocks, NEW fRequested \in BOOLEAN, ProcessNewBlock(b, fRequested)
        PROVE  FailedHasCause'
    BY <2>2, FlagsUntouched DEF ProcessNewBlock, failVars
  <2> QED BY <1>1, <2>1, <2>2, MarkingKeepsCause DEF Network
<1>2. CASE ABCBegin BY <1>2, FlagsUntouched DEF ABCBegin, failVars
<1>3. CASE ABCStep
  <2>1. CASE ABCLock \/ ABCNothingToDo \/ SuspiciousReorg \/ ABCStepBegin
             \/ ABCDisconnect \/ ABCCannotDisconnect
    BY <2>1, FlagsUntouched DEF ABCLock, ABCNothingToDo, SuspiciousReorg, ABCStepBegin,
       ABCDisconnect, ABCCannotDisconnect, failVars
  <2>2. ASSUME NEW x \in Blocks, ABCConnect(x) PROVE FailedHasCause'
    BY <2>2, FlagsUntouched DEF ABCConnect, failVars
  <2> QED BY <1>3, <2>1, <2>2, MarkingKeepsCause DEF ABCStep
<1>4. CASE ABCSystemError BY <1>4, FlagsUntouched DEF ABCSystemError, failVars
<1>5. CASE InvStep
  <2>1. CASE InvCannotDisconnect BY <2>1, FlagsUntouched DEF InvCannotDisconnect, failVars
  <2> QED BY <1>5, <2>1, InvDisconnectKeepsCause, MarkingKeepsCause DEF InvStep
<1>6. CASE Operator
  <2>1. ASSUME NEW b \in Blocks, PreciousBlock(b) \/ InvBegin(b) PROVE FailedHasCause'
    BY <2>1, FlagsUntouched DEF PreciousBlock, InvBegin, failVars
  <2>2. ASSUME NEW h, PruneBlockFilesManual(h) PROVE FailedHasCause'
    BY <2>2, FlagsUntouched DEF PruneBlockFilesManual, failVars
  <2>3. CASE RequestShutdown BY <2>3, FlagsUntouched DEF RequestShutdown, failVars
  <2> QED BY <1>6, <2>1, <2>2, <2>3, ReconsiderKeepsCause DEF Operator
<1>7. CASE Restart BY <1>7, MarkingKeepsCause
<1>8. CASE UNCHANGED vars BY <1>8, FlagsUntouched DEF vars, failVars
<1> QED BY <1>1, <1>2, <1>3, <1>4, <1>5, <1>6, <1>7, <1>8 DEF Next

(* Every failure flag has a cause below it, whatever mix of refused        *)
(* headers and blocks, invalidateblock, reconsiderblock and restarts set   *)
(* it, as long as reconsiderblock, if it is used at all, names blocks      *)
(* without a failed ancestor.                                              *)
THEOREM FailuresHaveCauses ==
  ReconsiderAny = FALSE \/ "reconsider" \notin Commands => (Spec => []FailedHasCause)
<1> SUFFICES ASSUME ReconsiderAny = FALSE \/ "reconsider" \notin Commands
             PROVE  Spec => []FailedHasCause
  BY Zenon
<1>1. Init => FailedHasCause BY DEF Init, FailedHasCause, failed
<1>2. IInv /\ FailedHasCause /\ [Next]_vars => FailedHasCause' BY CauseStep
<1> QED BY <1>1, <1>2, Invariance, PTL DEF Spec

-----------------------------------------------------------------------------
(* A node that does not prune *)

LEMMA InitData == Init => DataInv
<1> SUFFICES ASSUME Init PROVE DataInv OBVIOUS
<1>1. Ancestors[tip] = {Genesis} BY AncestorsOfGenesis DEF Init
<1>2. valid[Genesis] = BLOCK_VALID_TRANSACTIONS BY TreeAssumption DEF Init
<1>3. nTx = {Genesis} /\ haveData = nTx /\ unlinked = {} /\ nBlockSequenceId = 2 BY DEF Init
<1> QED BY SMTT(30), <1>1, <1>2, <1>3 DEF DataInv, BLOCK_VALID_TRANSACTIONS

(* The steps that leave the stored blocks alone. *)
LEMMA DataKept ==
  ASSUME DataInv, UNCHANGED <<haveData, nTx, haveUndo, unlinked, nChainTx, valid,
                              nBlockSequenceId>>,
         Ancestors[tip'] \subseteq Ancestors[tip]
  PROVE  DataInv'
  BY DEF DataInv

(* Validity levels only rise. *)
LEMMA RaiseValidityKeeps ==
  ASSUME IndexTypeOK, NEW b \in Blocks, NEW n \in {2, 3, 5}, NEW c \in Blocks,
         valid[c] >= BLOCK_VALID_TRANSACTIONS
  PROVE  RaiseValidity(b, n)[c] >= BLOCK_VALID_TRANSACTIONS
  BY SMTT(30) DEF RaiseValidity, IndexTypeOK, BLOCK_VALID_UNKNOWN, BLOCK_VALID_TREE,
         BLOCK_VALID_TRANSACTIONS, BLOCK_VALID_SCRIPTS

LEMMA RaiseValidityReaches ==
  ASSUME IndexTypeOK, NEW b \in Blocks, b \notin failed
  PROVE  RaiseValidity(b, BLOCK_VALID_TRANSACTIONS)[b] >= BLOCK_VALID_TRANSACTIONS
  BY SMTT(30) DEF RaiseValidity, IndexTypeOK, BLOCK_VALID_UNKNOWN, BLOCK_VALID_TREE,
         BLOCK_VALID_TRANSACTIONS, BLOCK_VALID_SCRIPTS

(* Everything linked is there, so only failures make FindMostWorkChain     *)
(* give up a candidate.                                                    *)
LEMMA UnusableIsFailed ==
  ASSUME IInv, DataInv, NEW b \in nChainTx PROVE Unusable(b) \subseteq failed
  BY ChainsClosed DEF Unusable, PathTo, DataInv, IInv, TypeOK, IndexTypeOK

(* What ReceivedBlockTransactions links has not been linked before. *)
LEMMA LinkedAnew ==
  ASSUME IInv, DataInv, NEW b \in Blocks, b \notin haveData, HasLinkedParent(b)
  PROVE  Linkable(b) \cap nChainTx = {}
<1>1. Linkable(b) \subseteq {b} \cup unlinked BY LinkableFacts
<1>2. b \notin nChainTx BY DEF DataInv, IInv, TypeOK, IndexTypeOK
<1> QED BY <1>1, <1>2 DEF DataInv

(* The block that DisconnectTip needs is there. *)
LEMMA CanDisconnect ==
  ASSUME IInv, DataInv, tip # Genesis PROVE CanDisconnectTip
  BY AncestorsAreBlocks DEF IInv, TypeOK, IndexTypeOK, ChainTypeOK, DataInv, CanDisconnectTip

(* A block that ProcessNewBlock stores is linked with what waits for it,   *)
(* or waits itself.                                                        *)
LEMMA ProcessNewBlockLinks ==
  ASSUME IInv, NEW b \in Blocks, NEW r, ProcessNewBlock(b, r)
  PROVE  /\ b \notin haveData /\ b \notin failed /\ CsMainFree
         /\ nTx' = nTx \cup {b} /\ haveData' = haveData \cup {b}
         /\ valid' = RaiseValidity(b, BLOCK_VALID_TRANSACTIONS)
         /\ pending' = TRUE
         /\ UNCHANGED <<haveUndo, failVars, tip, abcVars, invVars, interrupt>>
         /\ \/ /\ HasLinkedParent(b)
               /\ \E s \in SequenceIds(Linkable(b)) :
                    /\ nChainTx' = nChainTx \cup Linkable(b)
                    /\ nSequenceId' = [d \in Blocks |-> IF d \in Linkable(b) THEN s[d]
                                                        ELSE nSequenceId[d]]
                    /\ nBlockSequenceId' = nBlockSequenceId + Cardinality(Linkable(b))
                    /\ candidates' = candidates \cup
                                       {d \in Linkable(b) : ~WorseBy(nSequenceId', d, tip)}
                    /\ unlinked' = unlinked \ (Linkable(b) \ {b})
            \/ /\ ~HasLinkedParent(b)
               /\ unlinked' = IF pprev[b] \in failed THEN unlinked ELSE unlinked \cup {b}
               /\ nChainTx' = nChainTx
               /\ UNCHANGED <<nSequenceId, nBlockSequenceId, candidates>>
<1>0. b \in index \/ b \in Blocks \ index OBVIOUS
<1>1. /\ b \notin haveData /\ b \notin failed /\ CsMainFree
      /\ nTx' = nTx \cup {b} /\ haveData' = haveData \cup {b}
      /\ valid' = RaiseValidity(b, BLOCK_VALID_TRANSACTIONS)
      /\ pending' = TRUE
      /\ UNCHANGED <<haveUndo, failVars, tip, abcVars, invVars, interrupt>>
  <2>1. WantBlock(b, r) /\ ReceivedBlockTransactions(b) BY DEF ProcessNewBlock
  <2>2. b \notin haveData /\ ((b \in index /\ b \notin failed) \/ b \in Blocks \ index)
    BY <2>1 DEF WantBlock, NewHeader
  <2>3. failed \subseteq index BY DEF IInv, TypeOK, IndexTypeOK, failed
  <2> QED BY <2>1, <2>2, <2>3 DEF ProcessNewBlock, ReceivedBlockTransactions
<1>2. CASE HasLinkedParent(b)
  BY <1>1, <1>2 DEF ProcessNewBlock, ReceivedBlockTransactions
<1>3. CASE ~HasLinkedParent(b)
  <2>1. b \notin nChainTx
    BY <1>3 DEF HasLinkedParent, IInv, TreeInv, ClosedUnderParent
  <2>2. /\ unlinked' = IF pprev[b] \in failed THEN unlinked ELSE unlinked \cup {b}
        /\ nChainTx' = nChainTx
        /\ UNCHANGED <<nSequenceId, nBlockSequenceId, candidates>>
    BY <1>3, <2>1 DEF ProcessNewBlock, ReceivedBlockTransactions
  <2> QED BY <1>1, <1>3, <2>2
<1> QED BY <1>2, <1>3

LEMMA ProcessNewBlockData ==
  ASSUME IInv, DataInv, NEW b \in Blocks, NEW r, ProcessNewBlock(b, r) PROVE DataInv'
<1>1. /\ b \notin haveData /\ b \notin failed
      /\ nTx' = nTx \cup {b} /\ haveData' = haveData \cup {b}
      /\ valid' = RaiseValidity(b, BLOCK_VALID_TRANSACTIONS)
      /\ UNCHANGED <<haveUndo, tip>>
  BY ProcessNewBlockLinks
<1>2. haveData' = nTx' /\ Ancestors[tip'] \ {Genesis} \subseteq haveUndo'
  BY <1>1 DEF DataInv
<1>3. \A c \in nTx' : valid'[c] >= BLOCK_VALID_TRANSACTIONS
  <2>1. IndexTypeOK /\ nTx \subseteq Blocks BY DEF IInv, TypeOK, IndexTypeOK
  <2>2. RaiseValidity(b, BLOCK_VALID_TRANSACTIONS)[b] >= BLOCK_VALID_TRANSACTIONS
    BY <1>1, <2>1, RaiseValidityReaches
  <2>3. \A c \in nTx : RaiseValidity(b, BLOCK_VALID_TRANSACTIONS)[c] >= BLOCK_VALID_TRANSACTIONS
    <3>1. BLOCK_VALID_TRANSACTIONS \in {2, 3, 5} BY DEF BLOCK_VALID_TRANSACTIONS
    <3> QED BY <2>1, <3>1, RaiseValidityKeeps DEF DataInv
  <2> QED BY <1>1, <2>2, <2>3
<1>4. unlinked' \cap nChainTx' = {} /\ nBlockSequenceId' >= 1
  <2>0. b \notin nChainTx /\ unlinked \cap nChainTx = {} /\ nBlockSequenceId >= 1
        /\ nBlockSequenceId \in Nat /\ b \notin unlinked
    BY <1>1 DEF DataInv, IInv, TypeOK, IndexTypeOK, SequenceTypeOK, TreeInv
  <2>1. CASE HasLinkedParent(b)
    <3>1. /\ nChainTx' = nChainTx \cup Linkable(b)
          /\ nBlockSequenceId' = nBlockSequenceId + Cardinality(Linkable(b))
          /\ unlinked' = unlinked \ (Linkable(b) \ {b})
      BY <2>1, ProcessNewBlockLinks
    <3>2. Cardinality(Linkable(b)) \in Nat BY <2>1, LinkableFacts
    <3>3. nBlockSequenceId' >= 1 BY SMTT(30), <2>0, <3>1, <3>2
    <3> QED BY <2>0, <3>1, <3>3
  <2>2. CASE ~HasLinkedParent(b)
    <3>1. /\ unlinked' \subseteq unlinked \cup {b} /\ nChainTx' = nChainTx
          /\ nBlockSequenceId' = nBlockSequenceId
      BY <2>2, ProcessNewBlockLinks
    <3> QED BY <2>0, <3>1
  <2> QED BY <2>1, <2>2
<1> QED BY <1>2, <1>3, <1>4 DEF DataInv

LEMMA ConnectData ==
  ASSUME IInv, DataInv, NEW x \in Blocks, ABCConnect(x) PROVE DataInv'
<1>1. /\ abcPc = "step" /\ x \in Ancestors[pindexMostWork] \ Ancestors[tip]
      /\ pprev[x] = tip /\ haveUndo' = haveUndo \cup {x}
      /\ valid' = RaiseValidity(x, BLOCK_VALID_SCRIPTS) /\ tip' = x
      /\ UNCHANGED <<nTx, nChainTx, haveData, unlinked, nBlockSequenceId>>
  BY DEF ABCConnect, IsNext, seqVars
<1>2. tip \in Blocks /\ pindexMostWork \in Blocks /\ x # Genesis
  BY <1>1, GenesisIsAncestor
  DEF IInv, TypeOK, IndexTypeOK, ChainTypeOK, LocalsTypeOK, LocalsInv
<1>3. Ancestors[tip'] = {x} \cup Ancestors[tip] BY <1>1, <1>2, AncestorsUnfold
<1>4. \A c \in nTx : valid'[c] >= BLOCK_VALID_TRANSACTIONS
  <2>1. IndexTypeOK /\ nTx \subseteq Blocks BY DEF IInv, TypeOK, IndexTypeOK
  <2>2. BLOCK_VALID_SCRIPTS \in {2, 3, 5} BY DEF BLOCK_VALID_SCRIPTS
  <2> QED BY <1>1, <2>1, <2>2, RaiseValidityKeeps DEF DataInv
<1> QED BY <1>1, <1>3, <1>4 DEF DataInv

LEMMA RestartData == ASSUME IInv, DataInv, Restart PROVE DataInv'
<1>1. /\ nChainTx' = {b \in nTx : Ancestors[b] \subseteq nTx}
      /\ unlinked' = {b \in nTx \ {Genesis} : pprev[b] \notin nChainTx'}
      /\ nBlockSequenceId' = 1
      /\ UNCHANGED <<valid, nTx, haveData, haveUndo, tip>>
  BY DEF Restart
<1>2. unlinked' \cap nChainTx' = {}
  <2> SUFFICES ASSUME NEW b \in unlinked', b \in nChainTx' PROVE FALSE OBVIOUS
  <2>1. b \in nTx \ {Genesis} /\ pprev[b] \notin nChainTx' /\ Ancestors[b] \subseteq nTx
    BY <1>1
  <2>2. b \in Blocks BY <2>1 DEF IInv, TypeOK, IndexTypeOK
  <2>3. pprev[b] \in Ancestors[b] /\ Ancestors[pprev[b]] \subseteq Ancestors[b]
    BY <2>1, <2>2, AncestorsUnfold, AncestorsAreBlocks
  <2> QED BY <1>1, <2>1, <2>3
<1> QED BY SMTT(30), <1>1, <1>2 DEF DataInv

(* One turn of FindMostWorkChain: the best candidate is taken, or it has a *)
(* failed block below it and its chain is marked and erased.               *)
LEMMA FindOutcome ==
  ASSUME IInv, DataInv, FindMostWorkChain
  PROVE  \E n \in candidates :
           /\ IsBest(n)
           /\ \/ /\ pindexMostWork' = n
                 /\ UNCHANGED <<failedChild, candidates, unlinked>>
              \/ \E t \in Ancestors[n] \ Ancestors[tip] :
                   /\ t \in failed /\ UNCHANGED <<pindexMostWork, unlinked>>
                   /\ failedChild' = failedChild \cup (Ancestors[n] \ Ancestors[t])
                   /\ candidates' = candidates \ ErasedChain(n, t)
<1>1. PICK n \in candidates :
        /\ IsBest(n)
        /\ \/ /\ pindexMostWork' = n
              /\ UNCHANGED <<failedChild, candidates, unlinked>>
           \/ \E t \in Unusable(n) :
                /\ candidates' = candidates \ ErasedChain(n, t)
                /\ t \in failed => /\ failedChild' = failedChild \cup (Ancestors[n] \ Ancestors[t])
                                   /\ UNCHANGED unlinked
                /\ UNCHANGED pindexMostWork
  BY DEF FindMostWorkChain
<1>2. Unusable(n) \subseteq failed /\ Unusable(n) \subseteq Ancestors[n] \ Ancestors[tip]
  BY UnusableIsFailed DEF IInv, TreeInv, Unusable, PathTo
<1> QED BY <1>1, <1>2

(* Without pruning, every step keeps DataInv. *)
LEMMA DataStep ==
  ASSUME "prune" \notin Commands PROVE IInv /\ DataInv /\ [Next]_vars => DataInv'
<1> SUFFICES ASSUME IInv, DataInv, [Next]_vars PROVE DataInv' OBVIOUS
<1>0. tip \in Blocks BY DEF IInv, TypeOK, IndexTypeOK, ChainTypeOK
<1>1. CASE Network
  <2>1. ASSUME NEW b \in Blocks, RejectHeader(b) PROVE DataInv'
    BY <2>1, DataKept DEF RejectHeader, indexVars, seqVars, chainVars
  <2>2. ASSUME NEW b \in Blocks, NEW n \in {2, 3, 5}, valid' = RaiseValidity(b, n),
               UNCHANGED <<nTx, nChainTx, haveData, haveUndo, seqVars, tip, unlinked>>
        PROVE  DataInv'
    <3>1. IndexTypeOK /\ nTx \subseteq Blocks BY DEF IInv, TypeOK, IndexTypeOK
    <3>2. \A c \in nTx : valid'[c] >= BLOCK_VALID_TRANSACTIONS
      BY <2>2, <3>1, RaiseValidityKeeps DEF DataInv
    <3> QED BY <2>2, <3>2 DEF DataInv, seqVars
  <2>3. ASSUME NEW b \in Blocks, ProcessNewBlockHeaders(b) PROVE DataInv'
    BY <2>2, <2>3 DEF ProcessNewBlockHeaders, BLOCK_VALID_TREE
  <2>4. ASSUME NEW b \in Blocks, NEW r \in BOOLEAN, AcceptBadBlock(b, r) PROVE DataInv'
    BY <2>2, <2>4 DEF AcceptBadBlock, BLOCK_VALID_TREE
  <2> QED BY <1>1, <2>1, <2>3, <2>4, ProcessNewBlockData DEF Network
<1>2. CASE ABCBegin BY <1>2, DataKept DEF ABCBegin, indexVars, seqVars, chainVars
<1>3. CASE ABCStep
  <2>1. CASE ABCLock \/ ABCNothingToDo \/ SuspiciousReorg \/ ABCStepBegin
             \/ ABCCannotDisconnect
    BY <2>1, DataKept DEF ABCLock, ABCNothingToDo, SuspiciousReorg, ABCStepBegin,
       ABCCannotDisconnect, indexVars, seqVars, chainVars
  <2>2. CASE FindMostWorkChain
    <3>1. UNCHANGED <<indexVars, seqVars, tip>> BY <2>2 DEF FindMostWorkChain
    <3>2. UNCHANGED unlinked BY <2>2, FindOutcome
    <3> QED BY <3>1, <3>2, DataKept DEF indexVars, seqVars
  <2>3. CASE ABCDisconnect
    <3>1. /\ tip \notin Ancestors[pindexMostWork] /\ tip' = pprev[tip] /\ abcPc = "step"
          /\ UNCHANGED <<indexVars, seqVars, unlinked>>
      BY <2>3 DEF ABCDisconnect
    <3>2. tip # Genesis
      BY <3>1, GenesisIsAncestor DEF IInv, TypeOK, IndexTypeOK, LocalsTypeOK, LocalsInv
    <3>3. Ancestors[tip'] \subseteq Ancestors[tip] BY <1>0, <3>1, <3>2, AncestorsUnfold
    <3> QED BY <3>1, <3>3, DataKept DEF indexVars, seqVars
  <2>4. ASSUME NEW x \in Blocks, ABCConnectInvalid(x) PROVE DataInv'
    BY <2>4, DataKept DEF ABCConnectInvalid, indexVars, seqVars
  <2> QED BY <1>3, <2>1, <2>2, <2>3, <2>4, ConnectData DEF ABCStep
<1>4. CASE ABCSystemError BY <1>4, DataKept DEF ABCSystemError, indexVars, seqVars, chainVars
<1>5. CASE InvStep
  <2>1. CASE InvDisconnect
    <3>1. /\ tip' = pprev[tip] /\ invBlock \in Ancestors[tip] /\ invPc = "loop"
          /\ UNCHANGED <<indexVars, seqVars, unlinked>>
      BY <2>1 DEF InvDisconnect, Contains
    <3>2. tip # Genesis BY <3>1, AncestorsOfGenesis DEF IInv, LocalsInv
    <3>3. Ancestors[tip'] \subseteq Ancestors[tip] BY <1>0, <3>1, <3>2, AncestorsUnfold
    <3> QED BY <3>1, <3>3, DataKept DEF indexVars, seqVars
  <2>2. CASE InvCannotDisconnect \/ InvFinal
    BY <2>2, DataKept DEF InvCannotDisconnect, InvFinal, indexVars, seqVars, chainVars
  <2> QED BY <1>5, <2>1, <2>2 DEF InvStep
<1>6. CASE Operator
  <2>1. ASSUME NEW b \in Blocks, PreciousBlock(b) \/ InvBegin(b) \/ ResetBlockFailureFlags(b)
        PROVE  DataInv'
    BY <2>1, DataKept DEF PreciousBlock, InvBegin, ResetBlockFailureFlags, indexVars, seqVars,
       chainVars
  <2>2. ASSUME NEW h, PruneBlockFilesManual(h) PROVE DataInv'
    BY <2>2 DEF PruneBlockFilesManual, Command
  <2>3. CASE RequestShutdown BY <2>3, DataKept DEF RequestShutdown, indexVars, seqVars, chainVars
  <2> QED BY <1>6, <2>1, <2>2, <2>3 DEF Operator
<1>7. CASE Restart BY <1>7, RestartData
<1>8. CASE UNCHANGED vars BY <1>8, DataKept DEF vars, indexVars, seqVars, chainVars
<1> QED BY <1>1, <1>2, <1>3, <1>4, <1>5, <1>6, <1>7, <1>8 DEF Next

(* A node without pruning loses nothing it has stored. *)
LEMMA DataInvariance == "prune" \notin Commands => (Spec => []DataInv)
<1> SUFFICES ASSUME "prune" \notin Commands PROVE Spec => []DataInv OBVIOUS
<1>1. IInv /\ DataInv /\ [Next]_vars => DataInv' BY DataStep
<1> QED BY <1>1, InitData, Invariance, PTL DEF Spec

(* ReceivedBlockTransactions numbers only blocks it links, and those are   *)
(* not in setBlockIndexCandidates yet; a restart counts from one again.    *)
LEMMA KeysStep ==
  ASSUME IInv, DataInv, [Next]_vars, nBlockSequenceId' > nBlockSequenceId
  PROVE  \A b \in candidates : nSequenceId'[b] = nSequenceId[b]
<1>0. nBlockSequenceId \in Nat /\ nBlockSequenceId >= 1 /\ nBlockSequenceId' # nBlockSequenceId
  BY SMTT(30) DEF IInv, TypeOK, SequenceTypeOK, DataInv
<1>1. CASE Network
  <2>1. ASSUME NEW b \in Blocks, RejectHeader(b) \/ ProcessNewBlockHeaders(b) PROVE FALSE
    BY <1>0, <2>1 DEF RejectHeader, ProcessNewBlockHeaders, seqVars
  <2>2. ASSUME NEW b \in Blocks, NEW r \in BOOLEAN, AcceptBadBlock(b, r) PROVE FALSE
    BY <1>0, <2>2 DEF AcceptBadBlock, seqVars
  <2>3. ASSUME NEW b \in Blocks, NEW r \in BOOLEAN, ProcessNewBlock(b, r)
        PROVE  \A c \in candidates : nSequenceId'[c] = nSequenceId[c]
    <3>1. b \notin haveData /\ HasLinkedParent(b) BY <1>0, <2>3, ProcessNewBlockLinks
    <3>2. PICK s : nSequenceId' = [d \in Blocks |-> IF d \in Linkable(b) THEN s[d]
                                                   ELSE nSequenceId[d]]
      BY <2>3, <3>1, ProcessNewBlockLinks
    <3>3. candidates \cap Linkable(b) = {} /\ candidates \subseteq Blocks
      BY <3>1, LinkedAnew DEF IInv, TypeOK, IndexTypeOK, TreeInv
    <3> QED BY <3>2, <3>3
  <2> QED BY <1>1, <2>1, <2>2, <2>3 DEF Network
<1>2. CASE ABCBegin \/ ABCSystemError BY <1>0, <1>2 DEF ABCBegin, ABCSystemError, seqVars
<1>3. CASE ABCStep
  BY <1>0, <1>3 DEF ABCStep, ABCLock, FindMostWorkChain, ABCNothingToDo, SuspiciousReorg,
     ABCStepBegin, ABCDisconnect, ABCCannotDisconnect, ABCConnect, ABCConnectInvalid, seqVars
<1>4. CASE InvStep
  BY <1>0, <1>4 DEF InvStep, InvDisconnect, InvCannotDisconnect, InvFinal, seqVars
<1>5. CASE Operator
  BY <1>0, <1>5 DEF Operator, PreciousBlock, InvBegin, ResetBlockFailureFlags,
     PruneBlockFilesManual, RequestShutdown, seqVars
<1>6. CASE Restart
  <2>1. nBlockSequenceId' = 1 BY <1>6 DEF Restart
  <2> QED BY SMTT(30), <1>0, <2>1
<1>7. CASE UNCHANGED vars BY <1>0, <1>7 DEF vars, seqVars
<1> QED BY <1>1, <1>2, <1>3, <1>4, <1>5, <1>6, <1>7 DEF Next

(* Without pruning, no block in setBlockIndexCandidates, which is ordered  *)
(* by nSequenceId, gets a new number from ReceivedBlockTransactions.       *)
THEOREM KeysAreStable == "prune" \notin Commands => (Spec => CandidateKeysStable)
<1> SUFFICES ASSUME "prune" \notin Commands PROVE Spec => CandidateKeysStable OBVIOUS
<1>1. IInv /\ DataInv /\ [Next]_vars =>
        [nBlockSequenceId' > nBlockSequenceId =>
           \A b \in candidates : nSequenceId'[b] = nSequenceId[b]]_vars
  BY KeysStep
<1>2. Spec => []DataInv BY DataInvariance
<1> QED BY <1>1, <1>2, Invariance, PTL DEF Spec, CandidateKeysStable

-----------------------------------------------------------------------------
(* m_blocks_unlinked *)

(* The steps that store nothing. *)
LEMMA LinkKept ==
  ASSUME LinkInv, UNCHANGED <<nTx, unlinked, nChainTx>>, failedValid \subseteq failedValid'
  PROVE  LinkInv'
  BY DEF LinkInv

(* A stored block closes the gaps that wait for it only. *)
LEMMA ProcessNewBlockLink ==
  ASSUME IInv, DataInv, FailedHasCause, LinkInv, NEW b \in Blocks, NEW r, ProcessNewBlock(b, r)
  PROVE  LinkInv'
<1>1. b \notin nTx /\ nTx' = nTx \cup {b} /\ failedValid' = failedValid
  <2>1. b \notin haveData /\ nTx' = nTx \cup {b} /\ UNCHANGED failVars
    BY ProcessNewBlockLinks
  <2> QED BY <2>1 DEF DataInv, failVars
<1>2. nTx \subseteq Blocks /\ nChainTx \subseteq nTx /\ \A c \in nChainTx : Ancestors[c] \subseteq nChainTx
  BY ChainsClosed DEF IInv, TypeOK, IndexTypeOK
<1> SUFFICES ASSUME NEW q \in nTx', Ancestors[q] \cap failedValid = {}
             PROVE  /\ q \in unlinked' \cup nChainTx'
                    /\ Ancestors[q] \subseteq nTx' => q \in nChainTx'
  BY <1>1 DEF LinkInv
<1>3. q \in Blocks BY <1>1, <1>2
<1>4. \A a \in Ancestors[q] : a \in Blocks /\ Ancestors[a] \cap failedValid = {}
  BY <1>3, AncestorsAreBlocks, AncestorsTransitive
<1>5. CASE HasLinkedParent(b)
  <2>1. nChainTx' = nChainTx \cup Linkable(b) /\ unlinked' = unlinked \ (Linkable(b) \ {b})
    BY <1>5, ProcessNewBlockLinks
  <2>2. b \in Linkable(b) BY AncestorsAreBlocks DEF Linkable
  <2>3. q \in unlinked' \cup nChainTx' BY <1>1, <2>1, <2>2 DEF LinkInv
  <2>4. ASSUME Ancestors[q] \subseteq nTx' PROVE q \in nChainTx'
    <3>1. CASE b \notin Ancestors[q]
      <4>1. Ancestors[q] \subseteq nTx BY <1>1, <2>4, <3>1
      <4>2. q \in nTx BY <1>3, <4>1, AncestorsAreBlocks
      <4> QED BY <2>1, <4>1, <4>2 DEF LinkInv
    <3>2. CASE b \in Ancestors[q]
      <4>1. ASSUME NEW a \in Ancestors[q] \ Ancestors[b] PROVE a \in unlinked
        <5>1. a # b /\ a \in nTx BY <1>1, <2>4, <4>1, AncestorsAreBlocks
        <5>2. b \in Ancestors[a] BY <1>3, <3>2, <4>1, AncestorsComparable
        <5>3. a \notin nChainTx BY <1>1, <1>2, <5>2
        <5> QED BY <1>4, <5>1, <5>3 DEF LinkInv
      <4>2. q \in Linkable(b) BY <1>3, <3>2, <4>1 DEF Linkable
      <4> QED BY <2>1, <4>2
    <3> QED BY <3>1, <3>2
  <2> QED BY <2>3, <2>4
<1>6. CASE ~HasLinkedParent(b)
  <2>1. /\ unlinked' = IF pprev[b] \in failed THEN unlinked ELSE unlinked \cup {b}
        /\ nChainTx' = nChainTx
    BY <1>6, ProcessNewBlockLinks
  <2>2. b # Genesis /\ pprev[b] \notin nChainTx BY <1>6 DEF HasLinkedParent
  <2>3. pprev[b] \in Blocks /\ Ancestors[b] = {b} \cup Ancestors[pprev[b]]
        /\ pprev[b] \in Ancestors[pprev[b]]
    BY <2>2, AncestorsUnfold, AncestorsAreBlocks
  <2>4. q \in unlinked' \cup nChainTx'
    <3>1. CASE q # b BY <1>1, <2>1, <3>1 DEF LinkInv
    <3>2. CASE q = b
      <4>1. pprev[b] \notin failed BY <1>4, <2>3, <3>2 DEF FailedHasCause
      <4> QED BY <2>1, <3>2, <4>1
    <3> QED BY <3>1, <3>2
  <2>5. ASSUME Ancestors[q] \subseteq nTx' PROVE q \in nChainTx'
    <3>1. CASE b \notin Ancestors[q]
      <4>1. Ancestors[q] \subseteq nTx BY <1>1, <2>5, <3>1
      <4>2. q \in nTx BY <1>3, <4>1, AncestorsAreBlocks
      <4> QED BY <2>1, <4>1, <4>2 DEF LinkInv
    <3>2. CASE b \in Ancestors[q]
      <4>1. Ancestors[b] \subseteq Ancestors[q] BY <1>3, <3>2, AncestorsTransitive
      <4>2. b \notin Ancestors[pprev[b]]
        <5>1. nHeight[b] = nHeight[pprev[b]] + 1 /\ nHeight[pprev[b]] \in Nat
          BY <2>2, <2>3, TreeAssumption
        <5>2. b # pprev[b] /\ ~(nHeight[b] < nHeight[pprev[b]]) BY SMTT(30), <5>1
        <5> QED BY <2>3, <5>2, AncestorsHeight
      <4>3. Ancestors[pprev[b]] \subseteq nTx BY <1>1, <2>3, <2>5, <4>1, <4>2
      <4>4. pprev[b] \in nTx /\ Ancestors[pprev[b]] \cap failedValid = {}
        BY <2>3, <4>1, <4>3
      <4> QED BY <2>2, <4>3, <4>4 DEF LinkInv
    <3> QED BY <3>1, <3>2
  <2> QED BY <2>4, <2>5
<1> QED BY <1>5, <1>6

(* After a restart every stored block is linked or waits for its parent. *)
LEMMA RestartLink == ASSUME IInv, Restart PROVE LinkInv'
<1>1. /\ nChainTx' = {b \in nTx : Ancestors[b] \subseteq nTx}
      /\ unlinked' = {b \in nTx \ {Genesis} : pprev[b] \notin nChainTx'}
      /\ nTx' = nTx
  BY DEF Restart
<1> SUFFICES ASSUME NEW q \in nTx
             PROVE  /\ q \in unlinked' \cup nChainTx'
                    /\ Ancestors[q] \subseteq nTx => q \in nChainTx'
  BY <1>1 DEF LinkInv
<1>2. q \in Blocks BY DEF IInv, TypeOK, IndexTypeOK
<1>3. CASE q = Genesis BY <1>1, <1>3, AncestorsOfGenesis
<1>4. CASE q # Genesis
  <2>1. Ancestors[q] = {q} \cup Ancestors[pprev[q]] BY <1>2, <1>4, AncestorsUnfold
  <2> QED BY <1>1, <1>4, <2>1
<1> QED BY <1>3, <1>4

(* Without pruning and reconsiderblock, every step keeps LinkInv. *)
LEMMA LinkStep ==
  ASSUME "reconsider" \notin Commands, "prune" \notin Commands
  PROVE  IInv /\ DataInv /\ FailedHasCause /\ LinkInv /\ [Next]_vars => LinkInv'
<1> SUFFICES ASSUME IInv, DataInv, FailedHasCause, LinkInv, [Next]_vars PROVE LinkInv' OBVIOUS
<1>1. CASE Network
  <2>1. ASSUME NEW b \in Blocks, RejectHeader(b) \/ ProcessNewBlockHeaders(b) PROVE LinkInv'
    BY <2>1, LinkKept DEF RejectHeader, ProcessNewBlockHeaders, indexVars, failVars, chainVars
  <2>2. ASSUME NEW b \in Blocks, NEW r \in BOOLEAN, AcceptBadBlock(b, r) PROVE LinkInv'
    BY <2>2, LinkKept DEF AcceptBadBlock
  <2> QED BY <1>1, <2>1, <2>2, ProcessNewBlockLink DEF Network
<1>2. CASE ABCBegin \/ ABCSystemError
  BY <1>2, LinkKept DEF ABCBegin, ABCSystemError, indexVars, failVars, chainVars
<1>3. CASE ABCStep
  <2>1. CASE ABCLock \/ ABCNothingToDo \/ SuspiciousReorg \/ ABCStepBegin
             \/ ABCDisconnect \/ ABCCannotDisconnect
    BY <2>1, LinkKept DEF ABCLock, ABCNothingToDo, SuspiciousReorg, ABCStepBegin,
       ABCDisconnect, ABCCannotDisconnect, indexVars, failVars, chainVars
  <2>2. CASE FindMostWorkChain
    <3>1. UNCHANGED <<indexVars, failedValid>> BY <2>2 DEF FindMostWorkChain
    <3>2. UNCHANGED unlinked BY <2>2, FindOutcome
    <3> QED BY <3>1, <3>2, LinkKept DEF indexVars
  <2>3. ASSUME NEW x \in Blocks, ABCConnect(x) PROVE LinkInv'
    BY <2>3, LinkKept DEF ABCConnect, failVars
  <2>4. ASSUME NEW x \in Blocks, ABCConnectInvalid(x) PROVE LinkInv'
    BY <2>4, LinkKept DEF ABCConnectInvalid, InvalidBlockFound, indexVars
  <2> QED BY <1>3, <2>1, <2>2, <2>3, <2>4 DEF ABCStep
<1>4. CASE InvStep
  <2>1. CASE InvDisconnect
    <3>1. /\ tip' = pprev[tip] /\ invBlock \in Ancestors[tip] /\ invPc = "loop"
          /\ UNCHANGED <<indexVars, unlinked>>
          /\ \E relabel \in SUBSET ({pprev[tip]} \cap failedValid) :
               failedValid' = (failedValid \cup {tip}) \ relabel
      BY <2>1 DEF InvDisconnect, Contains
    <3>2. tip \in Blocks /\ tip # Genesis
      BY <3>1, AncestorsOfGenesis
      DEF IInv, TypeOK, IndexTypeOK, ChainTypeOK, LocalsInv
    <3>3. pprev[tip] \in Ancestors[tip] BY <3>2, AncestorsUnfold, AncestorsAreBlocks
    <3>4. pprev[tip] \notin failedValid BY <3>3, ActiveChainGood DEF failed
    <3>5. failedValid \subseteq failedValid' BY <3>1, <3>4
    <3> QED BY <3>1, <3>5, LinkKept DEF indexVars
  <2>2. CASE InvCannotDisconnect
    BY <2>2, LinkKept DEF InvCannotDisconnect, indexVars, failVars, chainVars
  <2>3. CASE InvFinal BY <2>3, LinkKept DEF InvFinal, indexVars
  <2> QED BY <1>4, <2>1, <2>2, <2>3 DEF InvStep
<1>5. CASE Operator
  <2>1. ASSUME NEW b \in Blocks, PreciousBlock(b) \/ InvBegin(b) PROVE LinkInv'
    BY <2>1, LinkKept DEF PreciousBlock, InvBegin, indexVars, failVars, chainVars
  <2>2. ASSUME NEW b \in Blocks, ResetBlockFailureFlags(b) PROVE LinkInv'
    BY <2>2 DEF ResetBlockFailureFlags, Command
  <2>3. ASSUME NEW h, PruneBlockFilesManual(h) PROVE LinkInv'
    BY <2>3 DEF PruneBlockFilesManual, Command
  <2>4. CASE RequestShutdown
    BY <2>4, LinkKept DEF RequestShutdown, indexVars, failVars, chainVars
  <2> QED BY <1>5, <2>1, <2>2, <2>3, <2>4 DEF Operator
<1>6. CASE Restart BY <1>6, RestartLink
<1>7. CASE UNCHANGED vars BY <1>7, LinkKept DEF vars, indexVars, failVars, chainVars
<1> QED BY <1>1, <1>2, <1>3, <1>4, <1>5, <1>6, <1>7 DEF Next

(* On a node that neither prunes nor reconsiders, a stored block on a      *)
(* chain without failures is in m_blocks_unlinked exactly while something  *)
(* below it is missing: ReceivedBlockTransactions finds it when the gap    *)
(* closes, in whatever order the blocks come and over restarts.            *)
THEOREM UnlinkedIsExact ==
  "prune" \notin Commands /\ "reconsider" \notin Commands => (Spec => []UnlinkedBlocks)
<1> SUFFICES ASSUME "prune" \notin Commands, "reconsider" \notin Commands
             PROVE  Spec => []UnlinkedBlocks
  OBVIOUS
<1>1. Init => LinkInv
  <2> SUFFICES ASSUME Init PROVE LinkInv OBVIOUS
  <2>1. nTx = {Genesis} /\ nChainTx = {Genesis} BY DEF Init
  <2> QED BY <2>1 DEF LinkInv
<1>2. IInv /\ DataInv /\ FailedHasCause /\ LinkInv /\ [Next]_vars => LinkInv' BY LinkStep
<1>3. IInv /\ DataInv /\ LinkInv => UnlinkedBlocks
  <2> SUFFICES ASSUME IInv, DataInv, LinkInv, NEW b \in haveData,
                      Ancestors[b] \cap failedValid = {}
               PROVE  /\ b \in unlinked => ~(Ancestors[b] \subseteq haveData)
                      /\ b \in unlinked \/ (b \in nChainTx /\ PathTo(b) \subseteq haveData)
    BY DEF UnlinkedBlocks
  <2>1. haveData = nTx /\ unlinked \cap nChainTx = {} /\ nChainTx \subseteq nTx
    BY DEF DataInv, IInv, TypeOK, IndexTypeOK
  <2>2. b \in nChainTx => PathTo(b) \subseteq haveData
    BY <2>1, ChainsClosed DEF IInv, PathTo
  <2> QED BY <2>1, <2>2 DEF LinkInv
<1>4. Spec => []FailedHasCause BY FailuresHaveCauses
<1>5. Spec => []DataInv BY DataInvariance
<1> QED BY <1>1, <1>2, <1>3, <1>4, <1>5, Invariance, PTL DEF Spec
===============================================================================

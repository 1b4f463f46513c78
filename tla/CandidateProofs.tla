---------------------------- MODULE CandidateProofs ----------------------------
(***************************************************************************)
(* Proofs about setBlockIndexCandidates, for every block tree: the order   *)
(* of the set, the anchor that keeps it from losing the best chain, and    *)
(* that ActivateBestChain finds that chain.                                *)
(***************************************************************************)
EXTENDS ChainStateProofs

(* A leaf that names no prover is left to Zenon. *)
USE ZenonT(30)

-----------------------------------------------------------------------------
(* The order of setBlockIndexCandidates *)

(* CBlockIndexWorkComparator is a strict order: "not worse" is transitive, *)
(* of two blocks one is not worse, and only a block itself is neither      *)
(* worse nor better.                                                       *)
LEMMA NotWorseTransitive ==
  ASSUME NEW seq \in [Blocks -> Int], NEW a \in Blocks, NEW b \in Blocks, NEW c \in Blocks,
         ~WorseBy(seq, a, b), ~WorseBy(seq, b, c)
  PROVE  ~WorseBy(seq, a, c)
<1>1. /\ nChainWork[a] \in Int /\ nChainWork[b] \in Int /\ nChainWork[c] \in Int
      /\ Address[a] \in Int /\ Address[b] \in Int /\ Address[c] \in Int
      /\ seq[a] \in Int /\ seq[b] \in Int /\ seq[c] \in Int
  BY SMTT(30), WorkAssumption
<1> QED BY SMTT(40), <1>1 DEF WorseBy

LEMMA WorseIsStrict ==
  ASSUME NEW seq \in [Blocks -> Int], NEW a \in Blocks, NEW b \in Blocks
  PROVE  /\ ~WorseBy(seq, a, a)
         /\ WorseBy(seq, a, b) => ~WorseBy(seq, b, a)
         /\ a # b => WorseBy(seq, a, b) \/ WorseBy(seq, b, a)
<1>1. /\ nChainWork[a] \in Int /\ nChainWork[b] \in Int
      /\ Address[a] \in Int /\ Address[b] \in Int /\ seq[a] \in Int /\ seq[b] \in Int
      /\ a # b => Address[a] # Address[b]
  BY SMTT(30), WorkAssumption
<1> QED BY SMTT(40), <1>1 DEF WorseBy

(* A block has more work than every other block of its chain. *)
LEMMA AncestorsHaveLessWork ==
  ASSUME NEW b \in Blocks, NEW a \in Ancestors[b], a # b PROVE nChainWork[a] < nChainWork[b]
<1> DEFINE S == {x \in Ancestors[b] : x = b \/ nChainWork[x] < nChainWork[b]}
<1>1. S \in SUBSET Blocks /\ b \in S BY AncestorsAreBlocks
<1>2. ClosedUnderParent(S)
  <2> SUFFICES ASSUME NEW x \in S \ {Genesis} PROVE pprev[x] \in S BY DEF ClosedUnderParent
  <2>1. x \in Blocks /\ pprev[x] \in Ancestors[b]
    BY <1>1, AncestorsClosed DEF ClosedUnderParent
  <2>2. pprev[x] \in Blocks BY <2>1, TreeAssumption
  <2>3. nChainWork[x] > nChainWork[pprev[x]] /\ nChainWork[pprev[x]] \in Nat
        /\ nChainWork[x] \in Nat /\ nChainWork[b] \in Nat
    BY <2>1, <2>2, WorkAssumption
  <2> QED BY SMTT(30), <2>1, <2>3
<1>3. Ancestors[b] \subseteq S BY <1>1, <1>2, AncestorsLeast
<1> QED BY <1>3

LEMMA AncestorIsWorse ==
  ASSUME NEW seq \in [Blocks -> Int], NEW b \in Blocks, NEW a \in Ancestors[b]
  PROVE  ~WorseBy(seq, b, a)
<1>1. CASE a = b BY <1>1, WorseIsStrict
<1>2. CASE a # b
  <2>1. a \in Blocks /\ nChainWork[a] < nChainWork[b] BY <1>2, AncestorsAreBlocks, AncestorsHaveLessWork
  <2>2. WorseBy(seq, a, b) BY <2>1 DEF WorseBy
  <2> QED BY <2>1, <2>2, WorseIsStrict
<1> QED BY <1>1, <1>2

-----------------------------------------------------------------------------
(* What keeps an anchor of setBlockIndexCandidates *)

(* Anchor, for given values of the variables. *)
AnchorBy(r, C, N, F, seq) ==
  /\ r \in C /\ r \in N /\ Ancestors[r] \cap (F \cup BadConnect) = {}
  /\ \A b \in N \ F : ~WorseBy(seq, b, r) => b \in C

(* A better block of a sound chain is an anchor too. *)
LEMMA AnchorBetter ==
  ASSUME NEW N \in SUBSET Blocks, NEW F, NEW C, NEW seq \in [Blocks -> Int],
         NEW r \in Blocks, AnchorBy(r, C, N, F, seq),
         NEW y \in N, Ancestors[y] \cap (F \cup BadConnect) = {}, ~WorseBy(seq, y, r)
  PROVE  AnchorBy(y, C, N, F, seq)
<1>1. y \in Blocks /\ y \in N \ F BY AncestorsAreBlocks
<1>2. y \in C BY <1>1 DEF AnchorBy
<1>3. ASSUME NEW b \in N \ F, ~WorseBy(seq, b, y) PROVE b \in C
  <2>1. ~WorseBy(seq, b, r) BY <1>1, <1>3, NotWorseTransitive
  <2> QED BY <2>1 DEF AnchorBy
<1> QED BY <1>2, <1>3 DEF AnchorBy

(* PruneBlockIndexCandidates by a tip that is not better keeps it. *)
LEMMA AnchorPruned ==
  ASSUME NEW N \in SUBSET Blocks, NEW F, NEW C, NEW seq \in [Blocks -> Int],
         NEW r \in Blocks, AnchorBy(r, C, N, F, seq), NEW x \in Blocks, ~WorseBy(seq, r, x)
  PROVE  AnchorBy(r, {c \in C : ~WorseBy(seq, c, x)}, N, F, seq)
<1>1. ASSUME NEW b \in N \ F, ~WorseBy(seq, b, r)
      PROVE  b \in {c \in C : ~WorseBy(seq, c, x)}
  <2>1. ~WorseBy(seq, b, x) BY <1>1, NotWorseTransitive
  <2>2. b \in C BY <1>1 DEF AnchorBy
  <2> QED BY <2>1, <2>2
<1> QED BY <1>1 DEF AnchorBy

(* So does marking blocks as failed that are not on its chain, and taking  *)
(* failed blocks out of the set.                                           *)
LEMMA AnchorMarked ==
  ASSUME NEW N, NEW F, NEW C, NEW seq, NEW r \in Blocks, AnchorBy(r, C, N, F, seq),
         NEW F2, F \subseteq F2, Ancestors[r] \cap F2 = {}, NEW C2, C \ F2 \subseteq C2
  PROVE  AnchorBy(r, C2, N, F2, seq)
<1>1. r \notin F2 BY AncestorsAreBlocks
<1> QED BY <1>1 DEF AnchorBy

(* Linking more blocks keeps it, as those not worse than the tip are added *)
(* to the set and the others keep their sequence numbers.                  *)
LEMMA AnchorLinked ==
  ASSUME NEW N \in SUBSET Blocks, NEW F, NEW C, NEW seq \in [Blocks -> Int],
         NEW r \in Blocks, AnchorBy(r, C, N, F, seq),
         NEW N2 \in SUBSET Blocks, N \subseteq N2, NEW seq2 \in [Blocks -> Int],
         \A d \in N : seq2[d] = seq[d],
         NEW t \in N, ~WorseBy(seq, r, t),
         NEW C2, C \subseteq C2, \A d \in N2 \ N : WorseBy(seq2, d, t) \/ d \in C2
  PROVE  AnchorBy(r, C2, N2, F, seq2)
<1>1. r \in N BY DEF AnchorBy
<1>2. ~WorseBy(seq2, r, t) BY <1>1 DEF WorseBy
<1>3. ASSUME NEW b \in N2 \ F, ~WorseBy(seq2, b, r) PROVE b \in C2
  <2>1. CASE b \in N
    <3>1. ~WorseBy(seq, b, r) BY <1>1, <1>3, <2>1 DEF WorseBy
    <3> QED BY <1>3, <2>1, <3>1 DEF AnchorBy
  <2>2. CASE b \notin N
    <3>1. ~WorseBy(seq2, b, t) BY <1>2, <1>3, NotWorseTransitive
    <3> QED BY <1>3, <2>2, <3>1
  <2> QED BY <2>1, <2>2
<1> QED BY <1>3 DEF AnchorBy

(* Clearing failure flags keeps it, as the blocks that are better than the *)
(* tip and lose their flag are added to the set.                           *)
LEMMA AnchorCleared ==
  ASSUME NEW N \in SUBSET Blocks, NEW F, NEW C, NEW seq \in [Blocks -> Int],
         NEW r \in Blocks, AnchorBy(r, C, N, F, seq),
         NEW t \in Blocks, t \notin F, ~WorseBy(seq, r, t),
         NEW F2 \in SUBSET F, NEW C2, C \subseteq C2,
         \A d \in N \cap (F \ F2) : WorseBy(seq, t, d) => d \in C2
  PROVE  AnchorBy(r, C2, N, F2, seq)
<1>1. ASSUME NEW b \in N \ F2, ~WorseBy(seq, b, r) PROVE b \in C2
  <2>1. CASE b \notin F BY <1>1, <2>1 DEF AnchorBy
  <2>2. CASE b \in F
    <3>1. ~WorseBy(seq, b, t) BY <1>1, NotWorseTransitive
    <3>2. b # t BY <2>2
    <3>3. WorseBy(seq, t, b) BY <3>1, <3>2, WorseIsStrict
    <3> QED BY <1>1, <2>2, <3>3
  <2> QED BY <2>1, <2>2
<1> QED BY <1>1 DEF AnchorBy

LEMMA AnchorForm ==
  ASSUME NEW r PROVE Anchor(r) <=> AnchorBy(r, candidates, nChainTx, failed, nSequenceId)
  BY DEF Anchor, AnchorBy, Sound, Worse

LEMMA AnchorFormNext ==
  /\ \A r : Anchor(r)' <=> AnchorBy(r, candidates', nChainTx', failed', nSequenceId')
  /\ Anchor(tip)' <=> AnchorBy(tip', candidates', nChainTx', failed', nSequenceId')
  /\ Anchor(starting_tip)' <=>
       AnchorBy(starting_tip', candidates', nChainTx', failed', nSequenceId')
  BY DEF Anchor, AnchorBy, Sound, Worse

-----------------------------------------------------------------------------
(* setBlockIndexCandidates on a node that neither prunes nor uses          *)
(* preciousblock                                                           *)

(* CandInv without its first conjunct, and what a step does to anchors. *)
CandRest ==
  /\ AnchorInv
  /\ ~interrupt /\ invPc = "idle" => AnchoredAt
  /\ ~interrupt /\ invPc = "idle" /\ ~pending => BestInv

NoneWorse == \A c \in candidates : ~WorseBy(nSequenceId, c, tip)

AnchorsCarry ==
  \A r \in Blocks : AnchorBy(r, candidates, nChainTx, failed, nSequenceId) =>
                      AnchorBy(r, candidates', nChainTx', failed', nSequenceId')

LEMMA Basics ==
  ASSUME IInv
  PROVE  /\ tip \in Blocks /\ tip \in nChainTx /\ nSequenceId \in [Blocks -> Int]
         /\ nChainTx \in SUBSET Blocks /\ candidates \subseteq nChainTx
         /\ candidates \subseteq Blocks /\ failed \subseteq Blocks
         /\ Ancestors[tip] \cap (failed \cup BadConnect) = {}
<1>1. tip \in Blocks /\ nSequenceId \in [Blocks -> Int] /\ nChainTx \in SUBSET Blocks
      /\ candidates \subseteq nChainTx /\ failed \subseteq Blocks
  BY DEF IInv, TypeOK, IndexTypeOK, SequenceTypeOK, ChainTypeOK, TreeInv, failed
<1>2. tip \in nChainTx BY <1>1, ActiveChainGood, AncestorsAreBlocks
<1>3. Genesis \notin BadConnect BY ParameterAssumption
<1>4. Ancestors[tip] \cap (failed \cup BadConnect) = {}
  BY <1>3, ActiveChainGood DEF IInv, ActiveChainValid
<1> QED BY <1>1, <1>2, <1>4

(* The set is not empty while ActivateBestChain looks at it, and in fact   *)
(* at no time.                                                             *)
LEMMA NeverEmpty == ASSUME AnchorInv PROVE candidates # {} /\ NoneWorse
  BY DEF AnchorInv, Anchor, NoneWorse, Worse

LEMMA AnchorInvKept ==
  ASSUME AnchorInv, UNCHANGED <<tip, invPc, invBlock, to_mark_failed>>, NoneWorse', AnchorsCarry,
         invPc = "loop" => candidates \subseteq candidates'
  PROVE  AnchorInv'
<1>1. \A c \in candidates' : ~Worse(c, tip)' BY DEF NoneWorse, Worse
<1>2. CASE \E r \in Blocks : Anchor(r)
  <2>1. PICK r \in Blocks : Anchor(r) BY <1>2
  <2>2. AnchorBy(r, candidates, nChainTx, failed, nSequenceId) BY <2>1, AnchorForm
  <2>3. AnchorBy(r, candidates', nChainTx', failed', nSequenceId') BY <2>2 DEF AnchorsCarry
  <2>4. Anchor(r)' BY <2>3, AnchorFormNext
  <2>5. \E q \in Blocks : Anchor(q)' BY <2>4
  <2> QED BY <1>1, <2>5 DEF AnchorInv, Contains
<1>3. CASE invPc = "loop" /\ tip \in candidates /\ ~Contains(to_mark_failed)
  BY <1>1, <1>3 DEF AnchorInv, Contains
<1> QED BY <1>2, <1>3 DEF AnchorInv

(* The steps of others while nobody is inside ActivateBestChainStep. *)
LEMMA OthersKeep ==
  ASSUME IInv, CandRest, CsMainFree, UNCHANGED <<tip, abcVars, invVars, interrupt>>,
         NoneWorse', AnchorsCarry, candidates \subseteq candidates',
         pending' = TRUE \/ UNCHANGED <<candidates, nSequenceId, pending>>
  PROVE  CandRest'
<1>0. tip \in Blocks BY Basics
<1>1. AnchorInv' BY AnchorInvKept DEF CandRest, invVars
<1>2. CASE interrupt' \/ invPc' # "idle" BY <1>1, <1>2 DEF CandRest
<1>3. CASE ~interrupt' /\ invPc' = "idle"
  <2>1. ~interrupt /\ invPc = "idle" BY <1>3 DEF invVars
  <2>2. Anchor(tip) BY <2>1 DEF CandRest, AnchoredAt
  <2>3. AnchorBy(tip', candidates', nChainTx', failed', nSequenceId')
    BY <1>0, <2>2, AnchorForm DEF AnchorsCarry
  <2>4. Anchor(tip)' BY <2>3, AnchorFormNext
  <2>5. CsMainFree' BY DEF CsMainFree, abcVars
  <2>6. abcPc' \notin {"find", "step"} BY <2>5 DEF CsMainFree
  <2>7. AnchoredAt' BY <2>4, <2>5, <2>6 DEF AnchoredAt
  <2>8. CASE pending' = TRUE BY <1>1, <2>7, <2>8 DEF CandRest
  <2>9. CASE UNCHANGED <<candidates, nSequenceId, pending>>
    <3>1. ~pending => BestInv BY <2>1 DEF CandRest
    <3>2. BestInv => BestInv' BY <2>9 DEF BestInv, Worse, abcVars
    <3> QED BY <1>1, <2>7, <2>9, <3>1, <3>2 DEF CandRest
  <2> QED BY <2>8, <2>9
<1> QED BY <1>2, <1>3

(* Marking blocks above a failed one, or a block that is not linked. *)
LEMMA MarkingCarries ==
  ASSUME IInv, UNCHANGED <<nChainTx, nSequenceId>>, failed \subseteq failed',
         candidates \ failed' \subseteq candidates',
         \A r \in nChainTx : Ancestors[r] \cap (failed \cup BadConnect) = {} =>
                               Ancestors[r] \cap failed' = {}
  PROVE  AnchorsCarry
<1> SUFFICES ASSUME NEW r \in Blocks,
                    AnchorBy(r, candidates, nChainTx, failed, nSequenceId)
             PROVE  AnchorBy(r, candidates', nChainTx', failed', nSequenceId')
  BY DEF AnchorsCarry
<1>1. Ancestors[r] \cap failed' = {} BY DEF AnchorBy
<1>2. AnchorBy(r, candidates', nChainTx, failed', nSequenceId) BY <1>1, AnchorMarked
<1> QED BY <1>2

LEMMA RejectHeaderCand ==
  ASSUME IInv, DataInv, CandRest, NEW b \in Blocks, RejectHeader(b) PROVE CandRest'
<1>0. /\ pprev[b] \in index /\ CsMainFree
      /\ UNCHANGED <<indexVars, failedValid, seqVars, chainVars, abcVars, invVars, ctlVars>>
  BY DEF RejectHeader, NewHeader
<1>1. PICK f \in failedBlocks \cap Ancestors[pprev[b]] :
        failedChild' = failedChild \cup (Ancestors[pprev[b]] \ Ancestors[f])
  BY DEF RejectHeader, FailedBelow
<1>2. pprev[b] \in Blocks /\ f \in failed /\ nChainTx \subseteq Blocks
  BY <1>0 DEF IInv, TypeOK, IndexTypeOK, TreeInv
<1>3. failed' = failed \cup (Ancestors[pprev[b]] \ Ancestors[f]) BY <1>0, <1>1 DEF failed
<1>4. ASSUME NEW r \in nChainTx, Ancestors[r] \cap (failed \cup BadConnect) = {}
      PROVE  Ancestors[r] \cap failed' = {}
  <2>1. f \notin Ancestors[r] BY <1>2, <1>4
  <2>2. (Ancestors[pprev[b]] \ Ancestors[f]) \cap Ancestors[r] = {}
    BY <1>2, <2>1, MarkedAboveFailed
  <2> QED BY <1>3, <1>4, <2>2
<1>5. AnchorsCarry BY <1>0, <1>3, <1>4, MarkingCarries DEF indexVars, seqVars, chainVars
<1>6. NoneWorse' BY <1>0, NeverEmpty DEF NoneWorse, CandRest, chainVars, seqVars
<1> QED BY <1>0, <1>5, <1>6, OthersKeep DEF chainVars, seqVars, ctlVars

LEMMA ProcessNewBlockHeadersCand ==
  ASSUME IInv, DataInv, CandRest, NEW b \in Blocks, ProcessNewBlockHeaders(b) PROVE CandRest'
<1>0. /\ CsMainFree
      /\ UNCHANGED <<nTx, nChainTx, failVars, seqVars, tip, candidates, abcVars, invVars, ctlVars>>
  BY DEF ProcessNewBlockHeaders
<1>1. AnchorsCarry BY <1>0 DEF AnchorsCarry, failVars, seqVars, failed
<1>2. NoneWorse' BY <1>0, NeverEmpty DEF NoneWorse, CandRest, seqVars
<1> QED BY <1>0, <1>1, <1>2, OthersKeep DEF seqVars, ctlVars

LEMMA AcceptBadBlockCand ==
  ASSUME IInv, DataInv, CandRest, NEW b \in Blocks, NEW r, AcceptBadBlock(b, r) PROVE CandRest'
<1>0. /\ CsMainFree /\ b \notin haveData /\ failedValid' = failedValid \cup {b}
      /\ UNCHANGED <<nChainTx, failedChild, seqVars, tip, candidates, abcVars, invVars, ctlVars>>
  BY DEF AcceptBadBlock, WantBlock
<1>1. failed' = failed \cup {b} BY <1>0 DEF failed
<1>2. b \notin nChainTx BY <1>0 DEF DataInv, IInv, TypeOK, IndexTypeOK
<1>3. \A q \in nChainTx : b \notin Ancestors[q] BY <1>2, ChainsClosed DEF IInv
<1>4. AnchorsCarry BY <1>0, <1>1, <1>3, MarkingCarries DEF seqVars
<1>5. NoneWorse' BY <1>0, NeverEmpty DEF NoneWorse, CandRest, seqVars
<1> QED BY <1>0, <1>4, <1>5, OthersKeep DEF seqVars, ctlVars

LEMMA ProcessNewBlockCand ==
  ASSUME IInv, IInv', DataInv, CandRest, NEW b \in Blocks, NEW q, ProcessNewBlock(b, q)
  PROVE  CandRest'
<1>0. b \notin haveData /\ CsMainFree /\ pending' = TRUE
      /\ UNCHANGED <<failVars, tip, abcVars, invVars, interrupt>>
  BY ProcessNewBlockLinks
<1>1. NoneWorse BY NeverEmpty DEF CandRest
<1>2. CASE HasLinkedParent(b)
  <2> DEFINE L == Linkable(b)
  <2>1. PICK s \in SequenceIds(L) :
          /\ nChainTx' = nChainTx \cup L
          /\ nSequenceId' = [d \in Blocks |-> IF d \in L THEN s[d] ELSE nSequenceId[d]]
          /\ candidates' = candidates \cup {d \in L : ~WorseBy(nSequenceId', d, tip)}
    BY <1>2, ProcessNewBlockLinks
  <2>2. L \in SUBSET Blocks BY DEF Linkable
  <2>3. L \cap nChainTx = {} BY <1>0, <1>2, LinkedAnew
  <2> HIDE DEF L
  <2>4. nSequenceId' \in [Blocks -> Int] BY DEF IInv, TypeOK, SequenceTypeOK
  <2>5. \A d \in nChainTx : nSequenceId'[d] = nSequenceId[d] BY <2>1, <2>3, Basics
  <2>6. AnchorsCarry
    <3> SUFFICES ASSUME NEW r \in Blocks,
                        AnchorBy(r, candidates, nChainTx, failed, nSequenceId)
                 PROVE  AnchorBy(r, candidates', nChainTx', failed', nSequenceId')
      BY DEF AnchorsCarry
    <3>1. ~WorseBy(nSequenceId, r, tip) BY <1>1 DEF AnchorBy, NoneWorse
    <3>2. \A d \in nChainTx' \ nChainTx : WorseBy(nSequenceId', d, tip) \/ d \in candidates'
      BY <2>1
    <3>3. nChainTx' \in SUBSET Blocks /\ nChainTx \subseteq nChainTx'
          /\ candidates \subseteq candidates'
      BY <2>1, <2>2, Basics
    <3>4. nChainTx \in SUBSET Blocks /\ tip \in nChainTx /\ nSequenceId \in [Blocks -> Int]
      BY Basics
    <3>5. AnchorBy(r, candidates', nChainTx', failed, nSequenceId')
      BY <2>4, <2>5, <3>1, <3>2, <3>3, <3>4, AnchorLinked
    <3>6. failed' = failed BY <1>0 DEF failVars, failed
    <3> QED BY <3>5, <3>6
  <2>7. NoneWorse'
    <3> SUFFICES ASSUME NEW c \in candidates' PROVE ~WorseBy(nSequenceId', c, tip)
      BY <1>0 DEF NoneWorse
    <3>1. CASE c \in candidates
      <4>1. c \in nChainTx /\ tip \in nChainTx /\ ~WorseBy(nSequenceId, c, tip)
        BY <1>1, <3>1, Basics DEF NoneWorse
      <4> QED BY <2>5, <4>1 DEF WorseBy
    <3>2. CASE c \notin candidates BY <2>1, <3>2
    <3> QED BY <3>1, <3>2
  <2>8. candidates \subseteq candidates' BY <2>1
  <2> QED BY <1>0, <2>6, <2>7, <2>8, OthersKeep
<1>3. CASE ~HasLinkedParent(b)
  <2>1. UNCHANGED <<nChainTx, nSequenceId, candidates>> BY <1>3, ProcessNewBlockLinks
  <2>2. AnchorsCarry BY <1>0, <2>1 DEF AnchorsCarry, failVars, failed
  <2>3. NoneWorse' BY <1>0, <1>1, <2>1 DEF NoneWorse
  <2> QED BY <1>0, <2>1, <2>2, <2>3, OthersKeep
<1> QED BY <1>2, <1>3

(* reconsiderblock puts back what it clears and what is better than the    *)
(* tip; that is enough, as nothing below the block is failed.              *)
LEMMA ResetBlockFailureFlagsCand ==
  ASSUME ReconsiderAny = FALSE, IInv, DataInv, CandRest, NEW b \in Blocks,
         ResetBlockFailureFlags(b)
  PROVE  CandRest'
<1>0. /\ CsMainFree /\ (Ancestors[b] \ {b}) \cap failed = {} /\ pending' = TRUE
      /\ failedValid' = failedValid \ Cleared(b) /\ failedChild' = failedChild \ Cleared(b)
      /\ candidates' = candidates \cup
           {d \in Descendants(b) \cap failed :
              valid[d] >= BLOCK_VALID_TRANSACTIONS /\ d \in nChainTx /\ Worse(tip, d)}
      /\ UNCHANGED <<indexVars, seqVars, tip, abcVars, invVars, interrupt>>
  BY DEF ResetBlockFailureFlags
<1>1. NoneWorse BY NeverEmpty DEF CandRest
<1>2. failed' = failed \ Cleared(b) BY <1>0 DEF failed
<1>3. failed \cap Cleared(b) \subseteq Descendants(b)
  BY <1>0, AncestorsAreBlocks DEF Cleared, Descendants
<1>4. \A d \in nChainTx \cap (failed \ failed') : WorseBy(nSequenceId, tip, d) => d \in candidates'
  BY <1>0, <1>2, <1>3 DEF Worse, DataInv, IInv, TypeOK, IndexTypeOK
<1>5. tip \notin failed /\ failed' \in SUBSET failed /\ candidates \subseteq candidates'
  BY <1>0, <1>2, Basics, AncestorsAreBlocks
<1>6. AnchorsCarry
  <2> SUFFICES ASSUME NEW r \in Blocks,
                      AnchorBy(r, candidates, nChainTx, failed, nSequenceId)
               PROVE  AnchorBy(r, candidates', nChainTx', failed', nSequenceId')
    BY DEF AnchorsCarry
  <2>1. ~WorseBy(nSequenceId, r, tip) BY <1>1 DEF AnchorBy, NoneWorse
  <2>2. AnchorBy(r, candidates', nChainTx, failed', nSequenceId)
    BY <1>4, <1>5, <2>1, Basics, AnchorCleared
  <2> QED BY <1>0, <2>2 DEF indexVars, seqVars
<1>7. NoneWorse'
  <2>1. \A c \in candidates' : ~WorseBy(nSequenceId, c, tip)
    BY <1>0, <1>1, Basics, WorseIsStrict DEF NoneWorse, Worse
  <2> QED BY <1>0, <2>1 DEF NoneWorse, seqVars
<1> QED BY <1>0, <1>5, <1>6, <1>7, OthersKeep

(* Steps that leave the set and the tip alone. *)
LEMMA SetUntouched ==
  ASSUME IInv, CandRest, UNCHANGED <<tip, candidates, nChainTx, nSequenceId, failVars>>
  PROVE  /\ AnchorsCarry /\ NoneWorse'
         /\ UNCHANGED <<invPc, invBlock, to_mark_failed>> => AnchorInv'
         /\ \A r : Anchor(r) => AnchorBy(r, candidates', nChainTx', failed', nSequenceId')
<1>1. failed' = failed BY DEF failVars, failed
<1>2. AnchorsCarry BY <1>1 DEF AnchorsCarry
<1>3. NoneWorse' BY NeverEmpty DEF NoneWorse, CandRest
<1>4. ASSUME UNCHANGED <<invPc, invBlock, to_mark_failed>> PROVE AnchorInv'
  BY <1>2, <1>3, <1>4, AnchorInvKept DEF CandRest
<1>5. \A r : Anchor(r) => AnchorBy(r, candidates', nChainTx', failed', nSequenceId')
  BY <1>1, AnchorForm
<1> QED BY <1>2, <1>3, <1>4, <1>5

(* A node that is asked to stop, by the operator or by a fatal error. *)
LEMMA HaltCand ==
  IInv /\ CandRest /\ (SuspiciousReorg \/ ABCCannotDisconnect \/ ABCSystemError \/ RequestShutdown)
    => CandRest'
<1> SUFFICES ASSUME IInv, CandRest,
                    SuspiciousReorg \/ ABCCannotDisconnect \/ ABCSystemError \/ RequestShutdown
             PROVE  CandRest'
  OBVIOUS
<1>1. interrupt' = TRUE /\ UNCHANGED <<indexVars, failVars, seqVars, chainVars, invVars>>
  BY ZenonT(30)
  DEF SuspiciousReorg, ABCCannotDisconnect, ABCSystemError, RequestShutdown, FatalError
<1>2. AnchorInv' BY <1>1, SetUntouched DEF indexVars, seqVars, chainVars, invVars
<1> QED BY <1>1, <1>2 DEF CandRest

LEMMA ABCBeginCand == ASSUME IInv, CandRest, ABCBegin PROVE CandRest'
<1>1. /\ abcPc = "idle" /\ invPc = "idle" /\ abcPc' = "lock"
      /\ UNCHANGED <<indexVars, failVars, seqVars, chainVars, invVars, pindexMostWork, interrupt>>
  BY DEF ABCBegin, MutexFree
<1>2. /\ AnchorInv'
      /\ \A r : Anchor(r) => AnchorBy(r, candidates', nChainTx', failed', nSequenceId')
  BY <1>1, SetUntouched DEF indexVars, seqVars, chainVars, invVars
<1>3. ASSUME ~interrupt PROVE AnchoredAt'
  <2>1. Anchor(tip) BY <1>1, <1>3 DEF CandRest, AnchoredAt, CsMainFree
  <2>2. Anchor(tip)' BY <1>1, <1>2, <2>1, AnchorFormNext DEF chainVars
  <2> QED BY <1>1, <2>2 DEF AnchoredAt, CsMainFree
<1>4. BestInv' BY <1>1 DEF BestInv, IInv, LocalsInv
<1> QED BY <1>1, <1>2, <1>3, <1>4 DEF CandRest

LEMMA ABCLockCand == ASSUME IInv, CandRest, ABCLock PROVE CandRest'
<1>1. /\ abcPc = "lock" /\ abcPc' = "find" /\ starting_tip' = tip
      /\ UNCHANGED <<indexVars, failVars, seqVars, chainVars, invVars, pindexMostWork, ctlVars>>
  BY DEF ABCLock
<1>2. /\ AnchorInv'
      /\ \A r : Anchor(r) => AnchorBy(r, candidates', nChainTx', failed', nSequenceId')
  BY <1>1, SetUntouched DEF indexVars, seqVars, chainVars, invVars
<1>3. ASSUME ~interrupt, invPc = "idle" PROVE AnchoredAt'
  <2>1. Anchor(tip) BY <1>1, <1>3 DEF CandRest, AnchoredAt, CsMainFree
  <2>2. AnchorBy(starting_tip', candidates', nChainTx', failed', nSequenceId')
    BY <1>1, <1>2, <2>1
  <2>3. Anchor(starting_tip)' BY <2>2, AnchorFormNext
  <2>4. starting_tip' \in Blocks BY <1>1, Basics
  <2>5. Sound(starting_tip)' BY <2>2 DEF Sound, AnchorBy
  <2>6. pindexMostWork' # NULL => ~Worse(pindexMostWork, starting_tip)'
    <3> SUFFICES ASSUME pindexMostWork # NULL
                 PROVE  ~WorseBy(nSequenceId, pindexMostWork, tip)
      BY <1>1 DEF Worse, seqVars
    <3>1. tip \in Ancestors[pindexMostWork] /\ pindexMostWork \in Blocks
      BY <1>1 DEF IInv, TypeOK, IndexTypeOK, LocalsTypeOK, MostWorkConnectable
    <3> QED BY <3>1, Basics, AncestorIsWorse
  <2> QED BY <1>1, <2>3, <2>4, <2>5, <2>6 DEF AnchoredAt, CsMainFree
<1>4. BestInv => BestInv' BY <1>1 DEF BestInv, Worse, chainVars, seqVars
<1> QED BY <1>1, <1>2, <1>3, <1>4 DEF CandRest, ctlVars, invVars

LEMMA ABCStepBeginCand == ASSUME IInv, CandRest, ABCStepBegin PROVE CandRest'
<1>1. /\ abcPc = "find" /\ abcPc' = "step"
      /\ UNCHANGED <<indexVars, failVars, seqVars, chainVars, invVars, pindexMostWork,
                     starting_tip, ctlVars>>
  BY DEF ABCStepBegin, ReadyToStep
<1>2. /\ AnchorInv'
      /\ \A r : Anchor(r) => AnchorBy(r, candidates', nChainTx', failed', nSequenceId')
  BY <1>1, SetUntouched DEF indexVars, seqVars, chainVars, invVars
<1>3. ASSUME ~interrupt, invPc = "idle" PROVE AnchoredAt'
  <2>1. /\ Anchor(starting_tip) /\ starting_tip \in Blocks /\ Sound(starting_tip)
        /\ pindexMostWork # NULL => ~Worse(pindexMostWork, starting_tip)
    BY <1>1, <1>3 DEF CandRest, AnchoredAt, CsMainFree
  <2>2. Anchor(starting_tip)' BY <1>1, <1>2, <2>1, AnchorFormNext
  <2>3. Sound(starting_tip)' BY <2>2 DEF Sound, Anchor
  <2>4. pindexMostWork' # NULL => ~Worse(pindexMostWork, starting_tip)'
    BY <1>1, <2>1 DEF Worse, seqVars
  <2> QED BY <1>1, <2>1, <2>2, <2>3, <2>4 DEF AnchoredAt, CsMainFree
<1>4. BestInv => BestInv' BY <1>1 DEF BestInv, Worse, chainVars, seqVars
<1> QED BY <1>1, <1>2, <1>3, <1>4 DEF CandRest, ctlVars, invVars

(* "Whether we have anything to do at all": with candidates there, only    *)
(* when the chosen tip is the tip.                                         *)
LEMMA NothingToDoFacts ==
  ASSUME IInv, CandRest, ABCNothingToDo
  PROVE  /\ abcPc = "find" /\ invPc = "idle" /\ pindexMostWork = tip /\ ABCReturn
         /\ UNCHANGED <<indexVars, failVars, seqVars, chainVars, invVars, ctlVars>>
<1>1. candidates # {} BY NeverEmpty DEF CandRest
<1>2. abcPc = "find" /\ pindexMostWork = tip BY <1>1 DEF ABCNothingToDo
<1>3. ABCReturn /\ UNCHANGED <<indexVars, failVars, seqVars, chainVars, invVars, ctlVars>>
  BY <1>2 DEF ABCNothingToDo
<1>4. abcPc # "idle" BY <1>2
<1>5. invPc = "idle" BY <1>4 DEF IInv, LocalsInv
<1> QED BY <1>2, <1>3, <1>5

(* The tip is an anchor once it is not worse than the one at the start. *)
LEMMA TipAnchor ==
  ASSUME IInv, NEW s \in Blocks, Anchor(s), ~Worse(tip, s) PROVE Anchor(tip)
<1>1. AnchorBy(s, candidates, nChainTx, failed, nSequenceId) BY AnchorForm
<1>2. ~WorseBy(nSequenceId, tip, s) BY DEF Worse
<1>3. AnchorBy(tip, candidates, nChainTx, failed, nSequenceId)
  BY <1>1, <1>2, Basics, AnchorBetter
<1> QED BY <1>3, AnchorForm

LEMMA ABCNothingToDoCand == ASSUME IInv, CandRest, ABCNothingToDo PROVE CandRest'
<1>1. /\ abcPc = "find" /\ invPc = "idle" /\ pindexMostWork = tip
      /\ abcPc' = "idle" /\ pindexMostWork' = NULL
      /\ UNCHANGED <<indexVars, failVars, seqVars, chainVars, invVars, ctlVars>>
  BY NothingToDoFacts DEF ABCReturn
<1>2. /\ AnchorInv'
      /\ \A r : Anchor(r) => AnchorBy(r, candidates', nChainTx', failed', nSequenceId')
  BY <1>1, SetUntouched DEF indexVars, seqVars, chainVars, invVars
<1>3. ASSUME ~interrupt PROVE AnchoredAt'
  <2>1. tip # NULL BY Basics, TreeAssumption
  <2>2. Anchor(starting_tip) /\ starting_tip \in Blocks /\ ~Worse(tip, starting_tip)
    BY <1>1, <1>3, <2>1 DEF CandRest, AnchoredAt, CsMainFree
  <2>3. Anchor(tip) BY <2>2, TipAnchor
  <2>4. Anchor(tip)' BY <1>1, <1>2, <2>3, AnchorFormNext DEF chainVars
  <2> QED BY <1>1, <2>4 DEF AnchoredAt, CsMainFree
<1>4. BestInv => BestInv'
  <2>1. tip # NULL BY Basics, TreeAssumption
  <2> QED BY <1>1, <2>1 DEF BestInv, Worse, chainVars, seqVars
<1> QED BY <1>1, <1>2, <1>3, <1>4 DEF CandRest, ctlVars, invVars

(* FindMostWorkChain takes a candidate that is not worse than the anchor,  *)
(* or erases failed blocks only.                                           *)
LEMMA FindMostWorkChainCand ==
  ASSUME IInv, DataInv, CandRest, FindMostWorkChain PROVE CandRest'
<1>0. /\ abcPc = "find" /\ abcPc' = "find" /\ pindexMostWork = NULL
      /\ UNCHANGED <<nChainTx, nSequenceId, failedValid, failedBlocks, tip, starting_tip, invVars,
                     interrupt, pending>>
  BY DEF FindMostWorkChain, indexVars, seqVars, ctlVars
<1>1. invPc = "idle"
  <2>1. abcPc # "idle" BY <1>0
  <2> QED BY <2>1 DEF IInv, LocalsInv
<1>2. PICK n \in candidates :
        /\ IsBest(n)
        /\ \/ /\ pindexMostWork' = n
              /\ UNCHANGED <<failedChild, candidates>>
           \/ \E t \in Ancestors[n] \ Ancestors[tip] :
                /\ t \in failed /\ UNCHANGED pindexMostWork
                /\ failedChild' = failedChild \cup (Ancestors[n] \ Ancestors[t])
                /\ candidates' = candidates \ ErasedChain(n, t)
  BY FindOutcome
<1>3. NoneWorse BY NeverEmpty DEF CandRest
<1>4. AnchorsCarry /\ candidates' \subseteq candidates
  <2>1. CASE UNCHANGED <<failedChild, candidates>>
    BY <1>0, <2>1 DEF AnchorsCarry, failed
  <2>2. ASSUME NEW t \in Ancestors[n] \ Ancestors[tip], t \in failed,
               failedChild' = failedChild \cup (Ancestors[n] \ Ancestors[t]),
               candidates' = candidates \ ErasedChain(n, t)
        PROVE  AnchorsCarry /\ candidates' \subseteq candidates
    <3>1. n \in Blocks /\ nChainTx \subseteq Blocks BY Basics
    <3>2. failed' = failed \cup (Ancestors[n] \ Ancestors[t]) BY <1>0, <2>2 DEF failed
    <3>3. ErasedChain(n, t) \subseteq failed' BY <2>2, <3>2 DEF ErasedChain
    <3>4. ASSUME NEW r \in nChainTx, Ancestors[r] \cap (failed \cup BadConnect) = {}
          PROVE  Ancestors[r] \cap failed' = {}
      <4>1. t \notin Ancestors[r] BY <2>2, <3>4
      <4>2. (Ancestors[n] \ Ancestors[t]) \cap Ancestors[r] = {}
        BY <3>1, <4>1, MarkedAboveFailed
      <4> QED BY <3>2, <3>4, <4>2
    <3>5. candidates \ failed' \subseteq candidates' BY <2>2, <3>3
    <3> QED BY <1>0, <2>2, <3>2, <3>4, <3>5, MarkingCarries
  <2> QED BY <1>2, <2>1, <2>2
<1>5. NoneWorse' BY <1>0, <1>3, <1>4 DEF NoneWorse
<1>6. AnchorInv' BY <1>0, <1>1, <1>4, <1>5, AnchorInvKept DEF CandRest, invVars
<1>7. pindexMostWork' = NULL \/ (pindexMostWork' = n /\ UNCHANGED candidates)
  BY <1>0, <1>2
<1>8. ASSUME ~interrupt PROVE AnchoredAt'
  <2>1. Anchor(starting_tip) /\ starting_tip \in Blocks
    BY <1>0, <1>1, <1>8 DEF CandRest, AnchoredAt, CsMainFree
  <2>2. AnchorBy(starting_tip', candidates', nChainTx', failed', nSequenceId')
    BY <1>0, <1>4, <2>1, AnchorForm DEF AnchorsCarry
  <2>3. Anchor(starting_tip)' BY <2>2, AnchorFormNext
  <2>4. Sound(starting_tip)' BY <2>2 DEF Sound, AnchorBy
  <2>5. starting_tip \in candidates BY <2>1 DEF Anchor
  <2>6. pindexMostWork' # NULL => ~Worse(pindexMostWork, starting_tip)'
    BY <1>0, <1>2, <1>7, <2>5 DEF IsBest, Worse
  <2> QED BY <1>0, <2>1, <2>3, <2>4, <2>6 DEF AnchoredAt, CsMainFree
<1>9. BestInv' BY <1>0, <1>2, <1>7 DEF BestInv, IsBest, Worse
<1> QED BY <1>0, <1>6, <1>8, <1>9 DEF CandRest

(* The tip of a chain is better than what is below it, so a lower tip      *)
(* makes no candidate worse than the tip.                                  *)
LEMMA LowerTip ==
  ASSUME IInv, NoneWorse, NEW t \in Ancestors[tip]
  PROVE  \A c \in candidates : ~WorseBy(nSequenceId, c, t)
<1> SUFFICES ASSUME NEW c \in candidates PROVE ~WorseBy(nSequenceId, c, t) OBVIOUS
<1>1. tip \in Blocks /\ c \in Blocks /\ nSequenceId \in [Blocks -> Int] /\ t \in Blocks
  BY Basics, AncestorsAreBlocks
<1>2. ~WorseBy(nSequenceId, c, tip) BY DEF NoneWorse
<1>3. ~WorseBy(nSequenceId, tip, t) BY <1>1, AncestorIsWorse
<1> QED BY <1>1, <1>2, <1>3, NotWorseTransitive

(* While blocks are disconnected the tip at the start is the anchor. *)
LEMMA ABCDisconnectCand == ASSUME IInv, CandRest, ABCDisconnect PROVE CandRest'
<1>0. /\ abcPc = "step" /\ tip \notin Ancestors[pindexMostWork] /\ tip' = pprev[tip]
      /\ UNCHANGED <<nChainTx, nSequenceId, failVars, candidates, abcVars, invVars, ctlVars>>
  BY DEF ABCDisconnect, indexVars, seqVars
<1>1. invPc = "idle" /\ tip \in Blocks /\ tip # Genesis
  <2>1. abcPc # "idle" BY <1>0
  <2>2. pindexMostWork \in Blocks
    BY <1>0 DEF IInv, TypeOK, IndexTypeOK, LocalsTypeOK, LocalsInv
  <2>3. invPc = "idle" BY <2>1 DEF IInv, LocalsInv
  <2> QED BY <1>0, <2>2, <2>3, Basics, GenesisIsAncestor
<1>2. tip' \in Ancestors[tip] BY <1>0, <1>1, AncestorsUnfold, AncestorsAreBlocks
<1>3. NoneWorse BY NeverEmpty DEF CandRest
<1>4. NoneWorse' BY <1>0, <1>2, <1>3, LowerTip DEF NoneWorse
<1>5. failed' = failed BY <1>0 DEF failVars, failed
<1>6. \A r : Anchor(r) => Anchor(r)' BY <1>0, <1>5, AnchorForm, AnchorFormNext
<1>7. AnchorInv'
  <2>1. \E r \in Blocks : Anchor(r) BY <1>1 DEF CandRest, AnchorInv
  <2>2. \E r \in Blocks : Anchor(r)' BY <1>6, <2>1
  <2>3. \A c \in candidates' : ~Worse(c, tip)' BY <1>4 DEF NoneWorse, Worse
  <2>4. invPc' # "loop" BY <1>0, <1>1 DEF invVars
  <2> QED BY <2>2, <2>3, <2>4 DEF AnchorInv
<1>8. ASSUME ~interrupt PROVE AnchoredAt'
  <2>1. /\ Anchor(starting_tip) /\ starting_tip \in Blocks
        /\ pindexMostWork # NULL => ~Worse(pindexMostWork, starting_tip)
    BY <1>0, <1>1, <1>8 DEF CandRest, AnchoredAt, CsMainFree
  <2>2. AnchorBy(starting_tip', candidates', nChainTx', failed', nSequenceId')
    BY <1>0, <1>5, <2>1, AnchorForm DEF abcVars
  <2>3. Anchor(starting_tip)' /\ Sound(starting_tip)'
    BY <2>2, AnchorFormNext DEF Sound, AnchorBy
  <2>4. pindexMostWork' # NULL => ~Worse(pindexMostWork, starting_tip)'
    BY <1>0, <2>1 DEF Worse, abcVars
  <2>5. abcPc' = "step" /\ starting_tip' \in Blocks BY <1>0, <2>1 DEF abcVars
  <2> QED BY <2>3, <2>4, <2>5 DEF AnchoredAt, CsMainFree
<1>9. BestInv => BestInv' BY <1>0 DEF BestInv, Worse, abcVars
<1> QED BY <1>0, <1>1, <1>7, <1>8, <1>9 DEF CandRest, ctlVars, invVars

(* How ActivateBestChainStep ends, seen from its locals. *)
LEMMA StepEndOutcome ==
  ASSUME NEW newTip, NEW mostWork, ABCStepEnd(newTip, mostWork)
  PROVE  \/ /\ WorseBy(nSequenceId, newTip, starting_tip)
            /\ abcPc' = "find" /\ pindexMostWork' = mostWork /\ UNCHANGED starting_tip
         \/ /\ ~WorseBy(nSequenceId, newTip, starting_tip)
            /\ abcPc' = "lock" /\ pindexMostWork' = mostWork
         \/ /\ ~WorseBy(nSequenceId, newTip, starting_tip)
            /\ newTip = mostWork \/ interrupt
            /\ abcPc' = "idle" /\ pindexMostWork' = NULL
  BY DEF ABCStepEnd, ABCReturn

(* What ConnectTip and PruneBlockIndexCandidates do to anchors. *)
LEMMA ConnectAnchors ==
  ASSUME IInv, NEW x \in Blocks, ABCConnect(x)
  PROVE  /\ abcPc = "step" /\ invPc = "idle" /\ tip' = x /\ x \in Ancestors[pindexMostWork]
         /\ pindexMostWork \in Blocks /\ pindexMostWork # NULL
         /\ candidates' = {c \in candidates : ~WorseBy(nSequenceId, c, x)}
         /\ UNCHANGED <<nChainTx, nSequenceId, failVars, invVars, ctlVars>>
         /\ ABCStepEnd(x, pindexMostWork) \/ UNCHANGED abcVars
         /\ ~WorseBy(nSequenceId, x, tip)
         /\ \A r \in Blocks : /\ Anchor(r) /\ ~WorseBy(nSequenceId, r, x) => Anchor(r)'
                              /\ Anchor(r) /\ ~WorseBy(nSequenceId, x, r) => Anchor(x)'
<1>0. /\ abcPc = "step" /\ x \in Ancestors[pindexMostWork] \ Ancestors[tip]
      /\ pprev[x] = tip /\ x \notin BadConnect /\ tip' = x
      /\ candidates' = {c \in candidates : ~WorseBy(nSequenceId, c, x)}
      /\ UNCHANGED <<nChainTx, nSequenceId, failVars, invVars, ctlVars>>
      /\ ABCStepEnd(x, pindexMostWork) \/ UNCHANGED abcVars
  BY DEF ABCConnect, IsNext, PruneBlockIndexCandidates, seqVars
<1>1. invPc = "idle" /\ pindexMostWork \in Blocks /\ pindexMostWork # NULL
  <2>1. abcPc # "idle" BY <1>0
  <2>2. pindexMostWork \in Blocks /\ pindexMostWork # NULL
    BY <1>0 DEF IInv, TypeOK, IndexTypeOK, LocalsTypeOK, LocalsInv
  <2>3. invPc = "idle" BY <2>1 DEF IInv, LocalsInv
  <2> QED BY <2>2, <2>3
<1>2. x # Genesis BY <1>0, Basics, GenesisIsAncestor
<1>3. Ancestors[x] = {x} \cup Ancestors[tip] BY <1>0, <1>2, AncestorsUnfold
<1>4. x \in nChainTx /\ x \notin failed BY <1>0, <1>1, MostWorkGood
<1>5. Ancestors[x] \cap (failed \cup BadConnect) = {} BY <1>0, <1>3, <1>4, Basics
<1>6. tip \in Ancestors[x] BY <1>3, Basics, AncestorsAreBlocks
<1>7. ~WorseBy(nSequenceId, x, tip) BY <1>6, Basics, AncestorIsWorse
<1>8. failed' = failed BY <1>0 DEF failVars, failed
<1>9. ASSUME NEW r \in Blocks, Anchor(r), ~WorseBy(nSequenceId, r, x) PROVE Anchor(r)'
  <2>1. AnchorBy(r, candidates, nChainTx, failed, nSequenceId) BY <1>9, AnchorForm
  <2>2. AnchorBy(r, {c \in candidates : ~WorseBy(nSequenceId, c, x)}, nChainTx, failed,
                 nSequenceId)
    BY SMTT(40), <1>9, <2>1, Basics, AnchorPruned
  <2>3. AnchorBy(r, candidates', nChainTx', failed', nSequenceId') BY <1>0, <1>8, <2>2
  <2> QED BY <2>3, AnchorFormNext
<1>10. ASSUME NEW r \in Blocks, Anchor(r), ~WorseBy(nSequenceId, x, r) PROVE Anchor(x)'
  <2>1. AnchorBy(r, candidates, nChainTx, failed, nSequenceId) BY <1>10, AnchorForm
  <2>2. AnchorBy(x, candidates, nChainTx, failed, nSequenceId)
    BY <1>4, <1>5, <1>10, <2>1, Basics, AnchorBetter
  <2>3. Anchor(x) /\ ~WorseBy(nSequenceId, x, x) BY <2>2, AnchorForm, Basics, WorseIsStrict
  <2> QED BY <1>9, <2>3
<1> QED BY <1>0, <1>1, <1>7, <1>9, <1>10

(* While the chosen chain is connected the tip at the start stays the      *)
(* anchor, until the new tip has overtaken it and becomes one itself.      *)
LEMMA ABCConnectCand == ASSUME IInv, CandRest, NEW x \in Blocks, ABCConnect(x) PROVE CandRest'
<1>1. /\ abcPc = "step" /\ invPc = "idle" /\ tip' = x /\ x \in Ancestors[pindexMostWork]
      /\ pindexMostWork \in Blocks /\ pindexMostWork # NULL
      /\ candidates' = {c \in candidates : ~WorseBy(nSequenceId, c, x)}
      /\ UNCHANGED <<nChainTx, nSequenceId, failVars, invVars, ctlVars>>
      /\ ABCStepEnd(x, pindexMostWork) \/ UNCHANGED abcVars
      /\ ~WorseBy(nSequenceId, x, tip)
  BY ConnectAnchors
<1>2. \A r \in Blocks : /\ Anchor(r) /\ ~WorseBy(nSequenceId, r, x) => Anchor(r)'
                        /\ Anchor(r) /\ ~WorseBy(nSequenceId, x, r) => Anchor(x)'
  BY ConnectAnchors
<1>3. AnchorInv'
  <2>1. PICK r \in Blocks : Anchor(r) BY <1>1 DEF CandRest, AnchorInv
  <2>2. ~WorseBy(nSequenceId, r, x) \/ ~WorseBy(nSequenceId, x, r) BY Basics, WorseIsStrict
  <2>3. \E q \in Blocks : Anchor(q)' BY <1>2, <2>1, <2>2
  <2>4. \A c \in candidates' : ~Worse(c, tip)' BY <1>1 DEF Worse
  <2>5. invPc' # "loop" BY <1>1 DEF invVars
  <2> QED BY <2>3, <2>4, <2>5 DEF AnchorInv
<1>4. ASSUME ~interrupt PROVE AnchoredAt'
  <2>1. PICK s \in Blocks : s = starting_tip BY <1>1, <1>4 DEF CandRest, AnchoredAt, CsMainFree
  <2>2. Sound(s) /\ ~Worse(pindexMostWork, s) /\ (Anchor(s) \/ Anchor(tip))
    BY <1>1, <1>4, <2>1 DEF CandRest, AnchoredAt, CsMainFree
  <2>3. ASSUME ~WorseBy(nSequenceId, x, s) PROVE Anchor(x)'
    BY <1>1, <1>2, <2>2, <2>3, Basics
  <2>4. ASSUME WorseBy(nSequenceId, x, s) PROVE Anchor(s)'
    <3>1. ~WorseBy(nSequenceId, s, x) BY <2>4, Basics, WorseIsStrict
    <3>2. CASE Anchor(s) BY <1>2, <3>1, <3>2
    <3>3. CASE Anchor(tip)
      <4>1. ~WorseBy(nSequenceId, s, tip) BY <1>1, <3>1, Basics, NotWorseTransitive
      <4>2. AnchorBy(tip, candidates, nChainTx, failed, nSequenceId) BY <3>3, AnchorForm
      <4>3. s \in nChainTx /\ Ancestors[s] \cap (failed \cup BadConnect) = {} BY <2>2 DEF Sound
      <4>4. AnchorBy(s, candidates, nChainTx, failed, nSequenceId)
        BY <4>1, <4>2, <4>3, Basics, AnchorBetter
      <4> QED BY <1>2, <3>1, <4>4, AnchorForm
    <3> QED BY <2>2, <3>2, <3>3
  <2>5. Anchor(x)' => Anchor(tip)' BY <1>1, AnchorFormNext
  <2>6. ASSUME starting_tip' = s, pindexMostWork' = pindexMostWork
        PROVE  /\ Anchor(s)' => Anchor(starting_tip)'
               /\ Sound(starting_tip)' /\ ~Worse(pindexMostWork, starting_tip)'
               /\ starting_tip' \in Blocks
    <3>1. Sound(starting_tip)' BY <1>1, <2>2, <2>6 DEF Sound, failed, failVars
    <3>2. ~Worse(pindexMostWork, starting_tip)' BY <1>1, <2>2, <2>6 DEF Worse
    <3> QED BY <2>6, <3>1, <3>2, AnchorFormNext
  <2>7. CASE ABCStepEnd(x, pindexMostWork)
    <3>1. CASE WorseBy(nSequenceId, x, s)
      <4>1. abcPc' = "find" /\ starting_tip' = s /\ pindexMostWork' = pindexMostWork
        BY <2>1, <2>7, <3>1, StepEndOutcome
      <4> QED BY <2>4, <2>6, <3>1, <4>1 DEF AnchoredAt, CsMainFree
    <3>2. CASE ~WorseBy(nSequenceId, x, s)
      <4>1. abcPc' \in {"idle", "lock"} BY <2>1, <2>7, <3>2, StepEndOutcome
      <4>2. abcPc' \notin {"find", "step"} BY <4>1
      <4> QED BY <2>3, <2>5, <3>2, <4>1, <4>2 DEF AnchoredAt, CsMainFree
    <3> QED BY <3>1, <3>2
  <2>8. CASE UNCHANGED abcVars
    <3>1. abcPc' = "step" /\ starting_tip' = s /\ pindexMostWork' = pindexMostWork
      BY <1>1, <2>1, <2>8 DEF abcVars
    <3>2. tip' \in Ancestors[pindexMostWork'] BY <1>1, <3>1
    <3> QED BY <2>3, <2>4, <2>5, <2>6, <3>1, <3>2 DEF AnchoredAt, CsMainFree
  <2> QED BY <1>1, <2>7, <2>8
<1>5. ASSUME ~interrupt, BestInv PROVE BestInv'
  <2>1. \A c \in candidates' : ~WorseBy(nSequenceId, pindexMostWork, c)
    BY <1>1, <1>5 DEF BestInv, Worse
  <2>2. CASE ABCStepEnd(x, pindexMostWork)
    <3>1. /\ abcPc' = "idle" => x = pindexMostWork
          /\ pindexMostWork' \in {pindexMostWork, NULL}
      BY <1>5, <2>2, StepEndOutcome
    <3> QED BY <1>1, <2>1, <3>1 DEF BestInv, Worse
  <2>3. CASE UNCHANGED abcVars
    BY <1>1, <2>1, <2>3 DEF BestInv, Worse, abcVars
  <2> QED BY <1>1, <2>2, <2>3
<1> QED BY <1>1, <1>3, <1>4, <1>5 DEF CandRest, ctlVars, invVars

(* A block that ConnectBlock refuses is on the chain of no anchor. *)
LEMMA ABCConnectInvalidCand ==
  ASSUME IInv, CandRest, NEW x \in Blocks, ABCConnectInvalid(x) PROVE CandRest'
<1>0. /\ abcPc = "step" /\ x \in BadConnect /\ ABCStepEnd(tip, NULL)
      /\ failedValid' = failedValid \cup {x} /\ candidates' = candidates \ {x}
      /\ UNCHANGED <<nChainTx, nSequenceId, failedChild, tip, invVars, ctlVars>>
  BY DEF ABCConnectInvalid, InvalidBlockFound, indexVars, seqVars
<1>1. invPc = "idle"
  <2>1. abcPc # "idle" BY <1>0
  <2> QED BY <2>1 DEF IInv, LocalsInv
<1>2. failed' = failed \cup {x} BY <1>0 DEF failed
<1>3. AnchorsCarry BY <1>0, <1>2, MarkingCarries
<1>4. NoneWorse' BY <1>0, NeverEmpty DEF NoneWorse, CandRest
<1>5. AnchorInv' BY <1>0, <1>1, <1>3, <1>4, AnchorInvKept DEF CandRest, invVars
<1>6. tip # NULL BY Basics, TreeAssumption
<1>7. ASSUME ~interrupt PROVE AnchoredAt' /\ BestInv'
  <2>1. PICK s \in Blocks : s = starting_tip BY <1>0, <1>1, <1>7 DEF CandRest, AnchoredAt, CsMainFree
  <2>2. Sound(s) /\ (Anchor(s) \/ Anchor(tip))
    BY <1>0, <1>1, <1>7, <2>1 DEF CandRest, AnchoredAt, CsMainFree
  <2>3. CASE WorseBy(nSequenceId, tip, s)
    <3>1. abcPc' = "find" /\ starting_tip' = s /\ pindexMostWork' = NULL
      BY <1>0, <2>1, <2>3, StepEndOutcome
    <3>2. AnchorBy(s, candidates, nChainTx, failed, nSequenceId)
      <4>1. CASE Anchor(s) BY <4>1, AnchorForm
      <4>2. CASE Anchor(tip)
        <5>1. ~WorseBy(nSequenceId, s, tip) BY <2>3, Basics, WorseIsStrict
        <5>2. AnchorBy(tip, candidates, nChainTx, failed, nSequenceId) BY <4>2, AnchorForm
        <5>3. s \in nChainTx /\ Ancestors[s] \cap (failed \cup BadConnect) = {} BY <2>2 DEF Sound
        <5> QED BY <5>1, <5>2, <5>3, Basics, AnchorBetter
      <4> QED BY <2>2, <4>1, <4>2
    <3>3. AnchorBy(starting_tip', candidates', nChainTx', failed', nSequenceId')
      BY <1>3, <3>1, <3>2 DEF AnchorsCarry
    <3>4. Anchor(starting_tip)' /\ Sound(starting_tip)'
      BY <3>3, AnchorFormNext DEF AnchorBy, Sound
    <3> QED BY <3>1, <3>4 DEF AnchoredAt, BestInv, CsMainFree
  <2>4. CASE ~WorseBy(nSequenceId, tip, s)
    <3>1. abcPc' = "lock" /\ pindexMostWork' = NULL
      BY <1>0, <1>6, <1>7, <2>1, <2>4, StepEndOutcome
    <3>2. Anchor(tip) BY <2>2, <2>4, TipAnchor DEF Worse
    <3>3. AnchorBy(tip', candidates', nChainTx', failed', nSequenceId')
      BY <1>0, <1>3, <3>2, AnchorForm, Basics DEF AnchorsCarry
    <3>4. Anchor(tip)' BY <3>3, AnchorFormNext
    <3> QED BY <3>1, <3>4 DEF AnchoredAt, BestInv, CsMainFree
  <2> QED BY <2>3, <2>4
<1> QED BY <1>0, <1>5, <1>7 DEF CandRest, ctlVars

LEMMA InvBeginCand == ASSUME IInv, CandRest, NEW b \in Blocks, InvBegin(b) PROVE CandRest'
<1>1. /\ invPc = "idle" /\ invPc' = "loop" /\ invBlock' = b /\ to_mark_failed' = b
      /\ UNCHANGED <<indexVars, failVars, seqVars, chainVars>>
  BY DEF InvBegin, MutexFree
<1>2. NoneWorse' /\ \A r : Anchor(r) => Anchor(r)'
  BY <1>1, SetUntouched, AnchorFormNext DEF indexVars, seqVars, chainVars
<1>3. invPc # "loop" BY <1>1
<1>4. \E r \in Blocks : Anchor(r)' BY <1>2, <1>3 DEF CandRest, AnchorInv
<1>5. \A c \in candidates' : ~Worse(c, tip)' BY <1>2 DEF NoneWorse, Worse
<1>6. AnchorInv' BY <1>1, <1>4, <1>5 DEF AnchorInv
<1> QED BY <1>1, <1>6 DEF CandRest

(* A turn of the loop in InvalidateBlock puts the new tip into the set. *)
LEMMA InvDisconnectCand == ASSUME IInv, CandRest, InvDisconnect PROVE CandRest'
<1>0. /\ invPc = "loop" /\ invBlock \in Ancestors[tip] /\ tip' = pprev[tip]
      /\ to_mark_failed' = tip /\ UNCHANGED <<nSequenceId, invPc>>
      /\ candidates' = (candidates \ {tip}) \cup {pprev[tip]} \cup
                         {c \in byWork : ~Worse(c, pprev[tip])}
  BY DEF InvDisconnect, Contains, seqVars
<1>1. tip \in Blocks /\ tip # Genesis
  BY <1>0, AncestorsOfGenesis, Basics DEF IInv, LocalsInv
<1>2. pprev[tip] \in Ancestors[tip] /\ pprev[tip] \in Blocks
  BY <1>1, AncestorsUnfold, AncestorsAreBlocks
<1>3. tip \notin Ancestors[pprev[tip]]
  <2>1. nHeight[tip] = nHeight[pprev[tip]] + 1 /\ nHeight[pprev[tip]] \in Nat
    BY <1>1, <1>2, TreeAssumption
  <2>2. tip # pprev[tip] /\ ~(nHeight[tip] < nHeight[pprev[tip]]) BY SMTT(30), <2>1
  <2> QED BY <1>2, <2>2, AncestorsHeight
<1>4. NoneWorse BY NeverEmpty DEF CandRest
<1>5. \A c \in candidates' : ~WorseBy(nSequenceId, c, pprev[tip])
  BY SMTT(40), <1>0, <1>2, <1>4, LowerTip, WorseIsStrict, Basics DEF Worse
<1>6. \A c \in candidates' : ~Worse(c, tip)' BY <1>0, <1>5 DEF Worse
<1>7. tip' \in candidates' /\ ~Contains(to_mark_failed)' BY <1>0, <1>3 DEF Contains
<1>8. AnchorInv' BY <1>0, <1>6, <1>7 DEF AnchorInv
<1> QED BY <1>0, <1>8 DEF CandRest

(* InvalidateBlock ends with every block that may follow in the set; or it *)
(* was interrupted before it took off any block.                           *)
LEMMA InvFinalCand == ASSUME IInv, IInv', DataInv, CandRest, InvFinal PROVE CandRest'
<1>0. /\ invPc = "loop" /\ invPc' = "idle" /\ pending' = TRUE
      /\ interrupt \/ ~Contains(invBlock)
      /\ UNCHANGED <<indexVars, failedChild, seqVars, tip, abcVars, interrupt>>
  BY DEF InvFinal, InvReturn
<1>1. NoneWorse BY NeverEmpty DEF CandRest
<1>2. invPc # "idle" BY <1>0
<1>3. abcPc = "idle" /\ abcPc' = "idle" BY <1>0, <1>2 DEF IInv, LocalsInv, abcVars
<1>4. CASE Contains(to_mark_failed)
  <2>1. UNCHANGED <<failedValid, candidates>> BY <1>4 DEF InvFinal
  <2>2. to_mark_failed = invBlock /\ \E r \in Blocks : Anchor(r)
    BY <1>0, <1>4 DEF CandRest, AnchorInv
  <2>3. interrupt' = TRUE BY <1>0, <1>4, <2>2 DEF IInv, TypeOK, ControlTypeOK
  <2>4. failed' = failed BY <1>0, <2>1 DEF failed
  <2>5. \E r \in Blocks : Anchor(r)'
    BY <1>0, <2>1, <2>2, <2>4, AnchorForm, AnchorFormNext DEF indexVars, seqVars
  <2>6. \A c \in candidates' : ~Worse(c, tip)'
    BY <1>0, <1>1, <2>1 DEF NoneWorse, Worse, seqVars
  <2>7. AnchorInv' BY <1>0, <2>5, <2>6 DEF AnchorInv
  <2> QED BY <2>3, <2>7 DEF CandRest
<1>5. CASE ~Contains(to_mark_failed)
  <2>1. /\ failedValid' = failedValid \cup {to_mark_failed}
        /\ candidates' = (candidates \cup LateCandidates) \ {to_mark_failed}
    BY <1>5 DEF InvFinal
  <2>2. failed' = failed \cup {to_mark_failed} BY <1>0, <2>1 DEF failed
  <2>3. to_mark_failed \notin Ancestors[tip] BY <1>5 DEF Contains
  <2>4. \A b \in nChainTx \ failed : ~WorseBy(nSequenceId, b, tip) => b \in LateCandidates
    BY DEF LateCandidates, Eligible, IsValid, Worse, DataInv, IInv, TypeOK, IndexTypeOK
  <2>5. \A b \in nChainTx \ failed' : ~WorseBy(nSequenceId, b, tip) => b \in candidates'
    BY <2>1, <2>2, <2>4
  <2>6. Ancestors[tip] \cap (failed' \cup BadConnect) = {} BY <2>2, <2>3, Basics
  <2>7. tip \in nChainTx \ failed' /\ ~WorseBy(nSequenceId, tip, tip)
    BY <2>6, Basics, AncestorsAreBlocks, WorseIsStrict
  <2>8. AnchorBy(tip', candidates', nChainTx', failed', nSequenceId')
    BY <1>0, <2>5, <2>6, <2>7 DEF AnchorBy, indexVars, seqVars
  <2>9. Anchor(tip)' BY <2>8, AnchorFormNext
  <2>10. \A c \in candidates' : ~Worse(c, tip)'
    BY <1>0, <1>1, <2>1 DEF NoneWorse, Worse, LateCandidates, seqVars
  <2>11. \E r \in Blocks : Anchor(r)'
    <3>1. tip' \in Blocks BY <1>0, Basics
    <3>2. PICK t \in Blocks : t = tip' BY <3>1
    <3>3. Anchor(t)' BY <2>8, <3>2, AnchorFormNext
    <3> QED BY <3>3
  <2>12. AnchorInv' BY <1>0, <2>10, <2>11 DEF AnchorInv
  <2>13. AnchoredAt' BY <1>3, <2>9 DEF AnchoredAt, CsMainFree
  <2> QED BY <1>0, <2>12, <2>13 DEF CandRest
<1> QED BY <1>4, <1>5

(* LoadBlockIndex and LoadChainTip fill the set anew around the tip. *)
LEMMA RestartCand == ASSUME IInv, IInv', DataInv, Restart PROVE CandRest'
<1>0. /\ abcPc = "idle" /\ invPc = "idle" /\ pending' = TRUE
      /\ nSequenceId' = [b \in Blocks |-> 0]
      /\ candidates' = {b \in {c \in nChainTx' \ (failedValid \cup failedChild') :
                                 valid[c] >= BLOCK_VALID_TRANSACTIONS} :
                          ~WorseBy(nSequenceId', b, tip)}
      /\ UNCHANGED <<nTx, valid, failedValid, tip, abcVars, invVars>>
  BY DEF Restart, MutexFree, LoadCandidates, PruneBlockIndexCandidates
<1>1. failed' = failedValid \cup failedChild' BY <1>0 DEF failed
<1>2. nChainTx' \subseteq nTx BY <1>0 DEF IInv, TypeOK, IndexTypeOK
<1>3. candidates' = {b \in nChainTx' \ failed' : ~WorseBy(nSequenceId', b, tip)}
  BY <1>0, <1>1, <1>2 DEF DataInv
<1>4. Genesis \notin BadConnect BY ParameterAssumption
<1>5. /\ tip \in Blocks /\ tip \in nChainTx' /\ tip \notin failed'
      /\ Ancestors[tip] \cap (failed' \cup BadConnect) = {}
      /\ nSequenceId' \in [Blocks -> Int]
  <2>1. tip \in Blocks BY Basics
  <2>2. \A b \in Ancestors[tip] : b \notin failed' /\ b \in nChainTx' /\ b \notin BadConnect
    BY <1>0, <1>4 DEF IInv, TreeInv, ActiveChainValid
  <2>3. nSequenceId' \in [Blocks -> Int] BY DEF IInv, TypeOK, SequenceTypeOK
  <2> QED BY <2>1, <2>2, <2>3, AncestorsAreBlocks
<1>6. ~WorseBy(nSequenceId', tip, tip) BY <1>5, WorseIsStrict
<1>7. AnchorBy(tip', candidates', nChainTx', failed', nSequenceId')
  BY <1>0, <1>3, <1>5, <1>6 DEF AnchorBy
<1>8. Anchor(tip)' BY <1>7, AnchorFormNext
<1>9. \A c \in candidates' : ~Worse(c, tip)' BY <1>0, <1>3 DEF Worse
<1>10. \E r \in Blocks : Anchor(r)'
  <2>1. PICK t \in Blocks : t = tip' BY <1>0, <1>5
  <2>2. Anchor(t)' BY <1>7, <2>1, AnchorFormNext
  <2> QED BY <2>2
<1>11. invPc' = "idle" /\ abcPc' = "idle" BY <1>0 DEF invVars, abcVars
<1>12. AnchorInv' BY <1>9, <1>10, <1>11 DEF AnchorInv
<1>13. AnchoredAt' BY <1>8, <1>11 DEF AnchoredAt, CsMainFree
<1> QED BY <1>0, <1>12, <1>13 DEF CandRest

LEMMA InitCand == Init => CandRest
<1> SUFFICES ASSUME Init PROVE CandRest OBVIOUS
<1>0. IInv BY InitIInv
<1>1. /\ tip = Genesis /\ candidates = {Genesis} /\ nChainTx = {Genesis} /\ failed = {}
      /\ abcPc = "idle" /\ invPc = "idle" /\ pindexMostWork = NULL
  BY DEF Init, failed
<1>2. ~Worse(Genesis, Genesis) BY <1>0, <1>1, Basics, WorseIsStrict DEF Worse
<1>3. Anchor(tip) BY <1>0, <1>1, Basics DEF Anchor, Sound
<1>4. AnchorInv BY <1>0, <1>1, <1>2, <1>3, Basics DEF AnchorInv
<1>5. AnchoredAt BY <1>1, <1>3 DEF AnchoredAt, CsMainFree
<1>6. BestInv BY <1>1, <1>2 DEF BestInv
<1> QED BY <1>4, <1>5, <1>6 DEF CandRest

(* The commands the theorems about the set leave out. *)
OrdinaryCommands ==
  "prune" \notin Commands /\ "precious" \notin Commands /\ ReconsiderAny = FALSE

LEMMA CandStep ==
  ASSUME OrdinaryCommands
  PROVE  IInv /\ IInv' /\ DataInv /\ CandRest /\ [Next]_vars => CandRest'
<1> SUFFICES ASSUME IInv, IInv', DataInv, CandRest, [Next]_vars PROVE CandRest' OBVIOUS
<1>1. CASE Network
  BY <1>1, RejectHeaderCand, ProcessNewBlockHeadersCand, AcceptBadBlockCand,
     ProcessNewBlockCand DEF Network
<1>2. CASE ABCBegin BY <1>2, ABCBeginCand
<1>3. CASE ABCStep
  BY <1>3, ABCLockCand, FindMostWorkChainCand, ABCNothingToDoCand, HaltCand,
     ABCStepBeginCand, ABCDisconnectCand, ABCConnectCand, ABCConnectInvalidCand DEF ABCStep
<1>4. CASE ABCSystemError BY <1>4, HaltCand
<1>5. CASE InvStep
  <2>1. ~InvCannotDisconnect
    <3> SUFFICES ASSUME InvCannotDisconnect PROVE FALSE OBVIOUS
    <3>1. invPc = "loop" /\ invBlock \in Ancestors[tip] /\ ~CanDisconnectTip
      BY DEF InvCannotDisconnect, Contains
    <3>2. tip # Genesis BY <3>1, AncestorsOfGenesis DEF IInv, LocalsInv
    <3> QED BY <3>1, <3>2, CanDisconnect
  <2> QED BY <1>5, <2>1, InvDisconnectCand, InvFinalCand DEF InvStep
<1>6. CASE Operator
  <2>1. ASSUME NEW b \in Blocks PROVE ~PreciousBlock(b)
    BY DEF PreciousBlock, Command, OrdinaryCommands
  <2>2. ASSUME NEW h PROVE ~PruneBlockFilesManual(h)
    BY DEF PruneBlockFilesManual, Command, OrdinaryCommands
  <2>3. ASSUME NEW b \in Blocks, ResetBlockFailureFlags(b) PROVE CandRest'
    BY <2>3, ResetBlockFailureFlagsCand DEF OrdinaryCommands
  <2> QED BY <1>6, <2>1, <2>2, <2>3, InvBeginCand, HaltCand DEF Operator
<1>7. CASE Restart BY <1>7, RestartCand
<1>8. CASE UNCHANGED vars
  <2>1. UNCHANGED <<tip, candidates, nChainTx, nSequenceId, failVars, invPc, invBlock,
                    to_mark_failed, abcVars, interrupt, pending>>
    BY <1>8 DEF vars, indexVars, seqVars, chainVars, invVars, ctlVars
  <2>2. AnchorInv' BY <2>1, SetUntouched
  <2>3. AnchoredAt => AnchoredAt'
    BY <2>1 DEF AnchoredAt, Anchor, Sound, Worse, CsMainFree, failed, failVars, abcVars
  <2>4. BestInv => BestInv' BY <2>1 DEF BestInv, Worse, abcVars
  <2> QED BY <2>1, <2>2, <2>3, <2>4 DEF CandRest
<1> QED BY <1>1, <1>2, <1>3, <1>4, <1>5, <1>6, <1>7, <1>8 DEF Next

(* The inductive invariant of the set holds in every reachable state of a  *)
(* node that neither prunes nor uses preciousblock, and whose              *)
(* reconsiderblock names blocks without a failed ancestor.                 *)
THEOREM CandInvariance == OrdinaryCommands => (Spec => []CandInv)
<1> SUFFICES ASSUME OrdinaryCommands PROVE Spec => []CandInv OBVIOUS
<1>1. IInv /\ IInv' /\ DataInv /\ CandRest /\ [Next]_vars => CandRest' BY CandStep
<1>2. Spec => []DataInv BY DataInvariance DEF OrdinaryCommands
<1>3. DataInv /\ CandRest => CandInv BY DEF CandInv, CandRest
<1> QED BY <1>1, <1>2, <1>3, InitCand, Invariance, PTL DEF Spec

(* setBlockIndexCandidates is never empty when another thread can look at  *)
(* it, and holds only linked blocks that are not worse than the tip.       *)
THEOREM SetIsSound == OrdinaryCommands => (Spec => []CandidatesSound)
<1> SUFFICES ASSUME OrdinaryCommands PROVE Spec => []CandidatesSound OBVIOUS
<1>1. IInv /\ CandInv => CandidatesSound
  <2> SUFFICES ASSUME IInv, CandInv PROVE CandidatesSound OBVIOUS
  <2>1. candidates # {} /\ NoneWorse BY NeverEmpty DEF CandInv
  <2> QED BY <2>1, Basics DEF CandidatesSound, NoneWorse, Worse
<1>2. Spec => []CandInv BY CandInvariance
<1> QED BY <1>1, <1>2, Invariance, PTL

(* A block below which nothing has failed is not marked. *)
LEMMA ConnectableUnmarked ==
  ASSUME IInv, FailedHasCause, NEW b \in index, Connectable(b)
  PROVE  b \in Blocks /\ b \in nChainTx \ failed
  BY DEF Connectable, FailedHasCause, IInv, TypeOK, IndexTypeOK

(* Every block that could be connected and is not worse than the tip is in *)
(* setBlockIndexCandidates whenever another thread can look, except within *)
(* InvalidateBlock: no message, failure, command or restart loses one.     *)
THEOREM SetIsComplete == OrdinaryCommands => (Spec => []CandidatesComplete)
<1> SUFFICES ASSUME OrdinaryCommands PROVE Spec => []CandidatesComplete OBVIOUS
<1>1. IInv /\ FailedHasCause /\ CandInv => CandidatesComplete
  <2> SUFFICES ASSUME IInv, FailedHasCause, CandInv, Settled, ~interrupt, NEW b \in index,
                      Connectable(b), ~Worse(b, tip)
               PROVE  b \in candidates
    BY DEF CandidatesComplete
  <2>1. Anchor(tip) BY DEF CandInv, Settled, AnchoredAt
  <2>2. b \in nChainTx \ failed BY ConnectableUnmarked
  <2> QED BY <2>1, <2>2 DEF Anchor
<1>2. Spec => []CandInv BY CandInvariance
<1>3. Spec => []FailedHasCause BY FailuresHaveCauses DEF OrdinaryCommands
<1> QED BY <1>1, <1>2, <1>3, Invariance, PTL

LEMMA RestIsBest ==
  ASSUME IInv, FailedHasCause, CandInv, Quiet PROVE NoBetterTip
<1> SUFFICES ASSUME NEW b \in index, Connectable(b), Worse(tip, b) PROVE FALSE
  BY DEF NoBetterTip
<1>1. abcPc = "idle" /\ invPc = "idle" /\ ~pending /\ ~interrupt BY DEF Quiet, MutexFree
<1>2. Anchor(tip) /\ \A c \in candidates : ~Worse(tip, c)
  BY <1>1 DEF CandInv, AnchoredAt, BestInv, CsMainFree
<1>3. b \in Blocks /\ b \in nChainTx \ failed BY ConnectableUnmarked
<1>4. ~Worse(b, tip) BY <1>3, Basics, WorseIsStrict DEF Worse
<1> QED BY <1>2, <1>3, <1>4 DEF Anchor

(* When nobody is activating, about to activate or shutting down, no       *)
(* connectable block is a better tip: ActivateBestChain stops only at the  *)
(* best, and whoever adds something better calls it again.                 *)
THEOREM BestTipAtRest == OrdinaryCommands => (Spec => []TipIsBest)
<1> SUFFICES ASSUME OrdinaryCommands PROVE Spec => []TipIsBest OBVIOUS
<1>1. IInv /\ FailedHasCause /\ CandInv => TipIsBest BY RestIsBest DEF TipIsBest
<1>2. Spec => []CandInv BY CandInvariance
<1>3. Spec => []FailedHasCause BY FailuresHaveCauses DEF OrdinaryCommands
<1> QED BY <1>1, <1>2, <1>3, Invariance, PTL

(* Leaving the critical section of ActivateBestChain *)
LEMMA ProgressStep ==
  ASSUME IInv, CandInv, [Next]_vars, ~CsMainFree, CsMainFree', ~interrupt'
  PROVE  ~WorseBy(nSequenceId, tip', starting_tip)
<1>0. /\ abcPc \notin {"idle", "lock"} /\ abcPc' \in {"idle", "lock"} /\ CandRest
      /\ abcPc' # abcPc /\ ~MutexFree /\ invPc = "idle" /\ tip \in Blocks
  BY Basics DEF CsMainFree, CandInv, CandRest, MutexFree, IInv, LocalsInv
<1>1. CASE Network
  BY <1>1 DEF Network, RejectHeader, ProcessNewBlockHeaders, AcceptBadBlock, ProcessNewBlock
<1>2. CASE ABCBegin \/ Restart BY <1>0, <1>2 DEF ABCBegin, Restart
<1>3. CASE ABCStep
  <2>1. CASE ABCLock BY <1>0, <2>1 DEF ABCLock
  <2>2. CASE FindMostWorkChain BY <1>0, <2>2 DEF FindMostWorkChain
  <2>3. CASE ABCNothingToDo
    <3>1. pindexMostWork = tip /\ tip' = tip /\ interrupt' = interrupt
      BY <1>0, <2>3, NothingToDoFacts DEF chainVars, ctlVars
    <3>2. tip # NULL BY <1>0, TreeAssumption
    <3>3. AnchoredAt BY <1>0, <3>1 DEF CandRest
    <3>4. ~Worse(pindexMostWork, starting_tip) BY <3>1, <3>2, <3>3 DEF AnchoredAt
    <3> QED BY <3>1, <3>4 DEF Worse
  <2>4. CASE SuspiciousReorg \/ ABCCannotDisconnect
    BY <2>4 DEF SuspiciousReorg, ABCCannotDisconnect, FatalError
  <2>5. CASE ABCStepBegin BY <1>0, <2>5 DEF ABCStepBegin
  <2>6. CASE ABCDisconnect BY <1>0, <2>6 DEF ABCDisconnect, abcVars
  <2>7. ASSUME NEW x \in Blocks, ABCConnect(x)
        PROVE  ~WorseBy(nSequenceId, tip', starting_tip)
    <3>1. tip' = x /\ (ABCStepEnd(x, pindexMostWork) \/ UNCHANGED abcVars)
      BY <2>7, ConnectAnchors
    <3>2. ABCStepEnd(x, pindexMostWork) BY <1>0, <3>1 DEF abcVars
    <3> QED BY <1>0, <3>1, <3>2, StepEndOutcome
  <2>8. ASSUME NEW x \in Blocks, ABCConnectInvalid(x)
        PROVE  ~WorseBy(nSequenceId, tip', starting_tip)
    <3>1. tip' = tip /\ ABCStepEnd(tip, NULL) BY <2>8 DEF ABCConnectInvalid
    <3> QED BY <1>0, <3>1, StepEndOutcome
  <2> QED BY <1>3, <2>1, <2>2, <2>3, <2>4, <2>5, <2>6, <2>7, <2>8 DEF ABCStep
<1>4. CASE ABCSystemError BY <1>4 DEF ABCSystemError, FatalError
<1>5. CASE InvStep
  BY <1>0, <1>5 DEF InvStep, InvDisconnect, InvCannotDisconnect, InvFinal
<1>6. CASE Operator
  BY <1>0, <1>6 DEF Operator, PreciousBlock, InvBegin, ResetBlockFailureFlags,
     PruneBlockFilesManual, RequestShutdown
<1>7. CASE UNCHANGED vars BY <1>0, <1>7 DEF vars, abcVars
<1> QED BY <1>1, <1>2, <1>3, <1>4, <1>5, <1>6, <1>7 DEF Next

(* ActivateBestChain never lets go of cs_main with a tip that is worse     *)
(* than the one it found, whatever it disconnected and failed to connect   *)
(* in between, except when the node is stopped by a fatal error.           *)
THEOREM ProgressBeforeUnlock == OrdinaryCommands => (Spec => UnlockOnlyWithProgress)
<1> SUFFICES ASSUME OrdinaryCommands PROVE Spec => UnlockOnlyWithProgress OBVIOUS
<1>1. IInv /\ CandInv /\ [Next]_vars =>
        [~CsMainFree /\ CsMainFree' /\ ~interrupt' => ~Worse(tip', starting_tip)]_vars
  BY ProgressStep DEF Worse
<1>2. Spec => []CandInv BY CandInvariance
<1> QED BY <1>1, <1>2, Invariance, PTL DEF Spec, UnlockOnlyWithProgress
===============================================================================

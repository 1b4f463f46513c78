-------------------------- MODULE DualAlgoDifficulty --------------------------
(***************************************************************************)
(* The required target of a header: GetNextWorkRequired on the networks    *)
(* with an ASERT anchor, before and after the dual-algorithm activation,   *)
(* on top of the block index of SecondAlgoCount.  The anchor is Genesis,   *)
(* as on the main network of RCPU; on its test network, which has the rule *)
(* fPowAllowMinDifficultyBlocks, block 280 takes its place and ASERT       *)
(* starts 21 blocks later.  The header fields that drive it (nTime and the *)
(* version bit) are chosen first; a header is accepted only with the nBits *)
(* that GetNextWorkRequired asks for at that moment.                       *)
(***************************************************************************)
EXTENDS SecondAlgoCount, ArithUint

CONSTANTS
  nPowTargetSpacing, nDualAlgoTargetSpacing, nASERTHalfLife,
  nMedianTimeSpan,
  PowLimitBits,          \* params.powLimit, as a compact number
  AnchorBits,            \* asertAnchorParams.nBits of the networks considered
  Timelines,             \* the times of the blocks, in seconds since nPrevBlockTime
  NoBits

ASSUME DifficultyAssumption ==
  /\ nPowTargetSpacing \in Nat \ {0} /\ nDualAlgoTargetSpacing \in Nat \ {0}
  /\ nASERTHalfLife \in Nat \ {0} /\ nMedianTimeSpan \in Nat \ {0}
  /\ Timelines \subseteq [Blocks -> Nat]
  /\ PowLimitBits \in Compacts /\ ~ IsZero(SetCompact(PowLimitBits))
  /\ AnchorBits \subseteq Compacts

VARIABLES
  nTime,
  nBits,                 \* of the blocks in the index
  asertAnchorParams,     \* its nBits; the anchor is Genesis, nPrevBlockTime is 0
  fPowAllowMinDifficultyBlocks

params == <<asertAnchorParams, fPowAllowMinDifficultyBlocks>>
difficultyVars == <<vars, nTime, nBits, params>>

powLimit == SetCompact(PowLimitBits)

-----------------------------------------------------------------------------
(* CalculateASERT *)

(* Mutant: the fraction of a negative exponent is cut off, not completed. *)
ExponentTruncated(time_delta) ==
  LET abs  == IF time_delta < 0 THEN -time_delta ELSE time_delta
      q    == abs \div nASERTHalfLife
      r1   == (abs % nASERTHalfLife) * 256
      f    == (r1 \div nASERTHalfLife) * 256
                + (((r1 % nASERTHalfLife) * 256) \div nASERTHalfLife)
  IN  [shifts |-> IF time_delta < 0 THEN -q ELSE q, frac |-> f]

(* exponent = (time_delta * 65536) / nHalfLife, rounded towards zero, as   *)
(* shifts = exponent >> 16 and frac = uint16_t(exponent).  The division is *)
(* done in two steps of eight bits.                                        *)
Exponent(time_delta) ==
  LET abs  == IF time_delta < 0 THEN -time_delta ELSE time_delta
      q    == abs \div nASERTHalfLife
      r1   == (abs % nASERTHalfLife) * 256
      f    == (r1 \div nASERTHalfLife) * 256
                + (((r1 % nASERTHalfLife) * 256) \div nASERTHalfLife)
  IN  IF time_delta >= 0 THEN [shifts |-> q, frac |-> f]
      ELSE IF f = 0 THEN [shifts |-> -q, frac |-> 0]
      ELSE [shifts |-> -q - 1, frac |-> 65536 - f]

(* 195766423245049, 971821376 and 5127, and 2^47, in 64 bits. *)
Coefficient1 == From(<<249, 208, 29, 108, 12, 178>>, 8)
Coefficient2 == From(<<64, 209, 236, 57>>, 8)
Coefficient3 == Small(5127, 8)
Half == ShiftLeft(Small(1, 8), 47)

(* 2^16 times the approximation of 2^(frac / 2^16), in uint64_t. *)
Factor(frac) ==
  LET x   == Times(Coefficient1, frac)
      xx  == Times(Times(Coefficient2, frac), frac)
      xxx == Times(Times(Times(Coefficient3, frac), frac), frac)
      sum == Plus(Plus(x, xx), Plus(xxx, Half))
  IN  65536 + sum[7] + 256 * sum[8]

(* Mutant: the bits that the shift to the left drops are not missed. *)
ShiftedUnchecked(n, shifts) ==
  IF shifts > 512 THEN From(powLimit, 64)
  ELSE IF shifts < -512 THEN Small(1, 64)
  ELSE IF shifts <= 0 THEN ShiftRight(n, -shifts) ELSE ShiftLeft(n, shifts)

(* nextTarget512 after the shift. *)
Shifted(n, shifts) ==
  IF shifts > 512 THEN From(powLimit, 64)
  ELSE IF shifts < -512 THEN Small(1, 64)
  ELSE IF shifts <= 0 THEN ShiftRight(n, -shifts)
  ELSE LET left == ShiftLeft(n, shifts)
       IN  IF ShiftRight(left, shifts) # n THEN From(powLimit, 64) ELSE left

(* Mutant: zero is let through. *)
ClampedAbove(n) == IF Less(From(powLimit, 64), n) THEN powLimit ELSE From(n, 32)

Clamped(n) ==
  IF Less(From(powLimit, 64), n) THEN powLimit
  ELSE IF IsZero(n) THEN Small(1, 32) ELSE From(n, 32)

(* Times are uint32_t and heights int, so the tests for an overflow of     *)
(* int64_t are never true and are left out.                                *)
CalculateASERT(refTarget, spacing, nTimeDiff, k) ==
  LET e == Exponent(nTimeDiff - spacing * (k + 1))
  IN  Clamped(Shifted(Times(From(refTarget, 64), Factor(e.frac)), e.shifts - 16))

-----------------------------------------------------------------------------
(* GetNextWorkRequired *)

(* The special rule of the test network, the same in both branches. *)
MinDifficultyAllowed(pindexLast, time) ==
  fPowAllowMinDifficultyBlocks /\ time > nTime[pindexLast] + 2 * nPowTargetSpacing

GetNextASERTWorkRequired(pindexPrev, time) ==
  IF MinDifficultyAllowed(pindexPrev, time) THEN GetCompact(powLimit)
  ELSE GetCompact(CalculateASERT(SetCompact(asertAnchorParams), nPowTargetSpacing,
                                 nTime[pindexPrev], nHeight[pindexPrev]))

Anchor(pindexLast) ==
  CHOOSE a \in Ancestors[pindexLast] : nHeight[a] = nDualAlgoActivationHeight - 1

(* Twice the difficulty of the last block before the activation. *)
RefTarget(pindexAnchor) ==
  LET half == ShiftRight(SetCompact(nBits[pindexAnchor]), 1)
  IN  IF IsZero(half) THEN Small(1, 32)
      ELSE IF Less(powLimit, half) THEN powLimit ELSE half

GetDualAlgoWorkRequired(pindexLast, time, fQhash) ==
  LET pindexAnchor == Anchor(pindexLast)
  IN  IF MinDifficultyAllowed(pindexLast, time) THEN GetCompact(powLimit)
      ELSE GetCompact(CalculateASERT(RefTarget(pindexAnchor), nDualAlgoTargetSpacing,
                                     nTime[pindexLast] - nTime[pindexAnchor],
                                     nHeightDiff(pindexLast, fQhash)))

GetNextWorkRequired(pindexLast, time, fQhash) ==
  IF nHeight[pindexLast] + 1 >= nDualAlgoActivationHeight
    THEN GetDualAlgoWorkRequired(pindexLast, time, fQhash)
    ELSE GetNextASERTWorkRequired(pindexLast, time)

(* What the header b is asked for. *)
Required(b) == GetNextWorkRequired(pprev[b], nTime[b], b \in SecondAlgo)

-----------------------------------------------------------------------------
(* The middle one of the times of the last nMedianTimeSpan blocks, the     *)
(* later of the two middle ones when their number is even.                 *)
GetMedianTimePast(b) ==
  LET last == {a \in Ancestors[b] : nHeight[a] > nHeight[b] - nMedianTimeSpan}
      half == Cardinality(last) \div 2
  IN  CHOOSE t \in {nTime[a] : a \in last} :
        /\ Cardinality({a \in last : nTime[a] < t}) <= half
        /\ Cardinality({a \in last : nTime[a] <= t}) > half

(* bad-diffbits and time-too-old; Genesis is added without these checks. *)
ContextualCheckBlockHeader(b) ==
  b # Genesis => nTime[b] > GetMedianTimePast(pprev[b])

DifficultyInit ==
  /\ Init
  /\ nTime \in Timelines /\ nBits = [b \in Blocks |-> NoBits]
  /\ asertAnchorParams \in AnchorBits /\ fPowAllowMinDifficultyBlocks \in BOOLEAN

AcceptBlockHeader(b) ==
  /\ AddToBlockIndex(b)
  /\ ContextualCheckBlockHeader(b)
  /\ nBits' = [nBits EXCEPT ![b] = IF b = Genesis THEN asertAnchorParams ELSE Required(b)]
  /\ UNCHANGED <<nTime, params>>

(* The header fields of a block are stored with it. *)
DifficultyRestart ==
  /\ Restart
  /\ nBits' = [b \in Blocks |-> IF b \in disk THEN nBits[b] ELSE NoBits]
  /\ UNCHANGED <<nTime, params>>

DifficultyNext ==
  \/ \E b \in Blocks : AcceptBlockHeader(b)
  \/ DifficultyRestart
  \/ /\ WriteBlockIndexDB \/ \E b \in Blocks : LoadBlockIndex(b)
     /\ UNCHANGED <<nTime, nBits, params>>

DifficultySpec == DifficultyInit /\ [][DifficultyNext]_difficultyVars

-----------------------------------------------------------------------------
Headers == index \ {Genesis}
target(b) == SetCompact(nBits[b])

(* "The exact nBits of every block is still enforced against the formula"  *)
(* (PermittedDifficultyTransition): whenever the formula is evaluated      *)
(* again for a block of the index, while LoadBlockIndex has not come to    *)
(* its parent and after it has, it asks for the nBits the block was        *)
(* accepted with.  Nodes that restart and nodes that do not agree.         *)
BitsAreReproducible == \A b \in Headers : nBits[b] = Required(b)

(* "Check range": no header is asked for a target that CheckProofOfWork    *)
(* refuses (zero, out of 256 bits or above powLimit) however early or late *)
(* its chain is; CalculateASERT asserts the same of its refTarget.         *)
TargetsInRange ==
  \A b \in Headers : /\ ~ Overflows(nBits[b])
                     /\ ~ IsZero(target(b)) /\ AtMost(target(b), powLimit)

(* How far the schedule of the algorithm of b is behind when b is mined,   *)
(* the refTarget and the spacing it is computed with.                      *)
Delta(b) == LET p == pprev[b] IN
  IF nHeight[b] >= nDualAlgoActivationHeight
    THEN nTime[p] - nTime[Anchor(p)] - nDualAlgoTargetSpacing * (nHeightDiff(p, b \in SecondAlgo) + 1)
    ELSE nTime[p] - nPowTargetSpacing * (nHeight[p] + 1)
Ref(b) ==
  IF nHeight[b] >= nDualAlgoActivationHeight THEN RefTarget(Anchor(pprev[b]))
  ELSE SetCompact(asertAnchorParams)
Scheduled == {b \in Headers : ~ MinDifficultyAllowed(pprev[b], nTime[b])}

(* "difficulty is cut in half. Doubled if blocks are ahead of schedule"    *)
(* (chainparams): of two blocks with the same anchor target, on whichever  *)
(* branches, of whichever algorithm, the one whose schedule is further     *)
(* behind is never harder; on schedule the target is the anchor's.         *)
BehindIsEasier ==
  \A b \in Scheduled :
    /\ Delta(b) = 0 => nBits[b] = GetCompact(Ref(b))
    /\ \A c \in Scheduled :
         Ref(b) = Ref(c) /\ Delta(b) <= Delta(c) => AtMost(target(b), target(c))

(* "For every [nHalfLife] seconds ahead of or behind schedule we get, we   *)
(* double or halve the difficulty": take the schedule of a header, as it   *)
(* is and one half-life earlier.  Another half-life later the header would *)
(* be asked for twice the target, up to the bit the shift drops and the    *)
(* limits 1 and powLimit; never for more.  It may be less only where the   *)
(* half-life spans the moment at which the chain is on schedule, because   *)
(* the exponent is rounded towards zero on both sides of it.               *)
HalfLifeDoubles ==
  \A b \in Scheduled : \A d \in {Delta(b), Delta(b) - nASERTHalfLife} :
    LET ASERT(delta) == CalculateASERT(Ref(b), 0, delta, 0)
        now   == ShiftLeft(ASERT(d), 1)
        next  == Plus(now, Small(1, 32))
        later == ASERT(d + nASERTHalfLife)
    IN  /\ AtMost(later, next)
        /\ d >= 0 \/ d + nASERTHalfLife <= 0 =>
             \/ later \in {now, next}
             \/ later = powLimit /\ AtMost(powLimit, next)
             \/ d < 0 /\ later = Small(1, 32) /\ now = Small(2, 32)

-----------------------------------------------------------------------------
(* The inductive invariant for BitsAreReproducible: what is on disk is in  *)
(* the index, so its headers have been checked there.                      *)
BitsInv ==
  /\ IInv /\ disk \subseteq index /\ DOMAIN nBits = Blocks
  /\ BitsAreReproducible

(* The inductive invariant for TargetsInRange: a block of the index can be *)
(* the anchor of later ones, so its nBits must be a number SetCompact can  *)
(* read.  The blocks below the activation height get theirs from ASERT.    *)
RangeInv ==
  /\ BitsInv
  /\ nTime \in Timelines /\ asertAnchorParams \in AnchorBits
  /\ \A b \in index : nBits[b] \in Compacts
===============================================================================

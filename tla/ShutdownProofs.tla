----------------------------- MODULE ShutdownProofs -----------------------------
(***************************************************************************)
(* What survives the end of the process, orderly or by a crash:            *)
(*   - ReplayBlocks makes the coins exact from every mixture of old and    *)
(*     new coins, and FlushStateToDisk writes and unlinks in an order that *)
(*     leaves a database it can start from, whatever the blocks and        *)
(*     wherever a crash comes;                                             *)
(*   - the callbacks of a SingleThreadedSchedulerClient, for any number of *)
(*     producers, service threads and callbacks: they run one at a time,   *)
(*     in order, and none is forgotten at shutdown.                        *)
(***************************************************************************)
EXTENDS CoinsRecovery, SchedulerClient, BlockTreeProofs

(* A leaf that names no prover is left to Zenon. *)
USE ZenonT(30)

-----------------------------------------------------------------------------
(* CoinsRecovery: the blocks of a part of a chain that touch an outpoint *)

TouchedIn(S, o) == {b \in S : Touching(b, o) # {}}

(* A block of greatest height among some of a chain exists. *)
LEMMA HighestIs ==
  ASSUME NEW x \in Blocks, NEW T \in SUBSET Ancestors[x], T # {}
  PROVE  Highest(T) \in T /\ \A a \in T : nHeight[a] <= nHeight[Highest(T)]
<1>1. Ancestors[x] \subseteq Blocks BY AncestorsAreBlocks
<1>2. \A a \in T : a \in Blocks /\ nHeight[a] \in Nat BY <1>1, TreeAssumption
<1> DEFINE H == {n \in Nat : \A a \in T : nHeight[a] <= n}
<1>3. nHeight[x] \in H
  <2>1. nHeight[x] \in Nat BY TreeAssumption
  <2>2. \A a \in T : a # x => nHeight[a] < nHeight[x] BY AncestorsHeight
  <2> QED BY SMTT(30), <2>1, <2>2, <1>2
<1>4. PICK n \in H : \A m \in H : n <= m
  <2>1. H \in SUBSET Nat /\ H # {} BY <1>3
  <2> QED BY <2>1, LeastNumber
<1>5. PICK b \in T : nHeight[b] = n
  <2> SUFFICES ASSUME \A a \in T : nHeight[a] # n PROVE FALSE OBVIOUS
  <2>1. \A a \in T : nHeight[a] <= n - 1 BY SMTT(30), <1>2, <1>4
  <2>2. PICK a \in T : TRUE OBVIOUS
  <2>3. n - 1 \in Nat BY SMTT(30), <2>1, <2>2, <1>2, <1>4
  <2>4. n - 1 \in H BY <2>1, <2>3
  <2> QED BY SMTT(30), <2>4, <1>4
<1>6. \A a \in T : nHeight[a] <= nHeight[b] BY <1>4, <1>5
<1> QED BY <1>5, <1>6 DEF Highest

(* So does one of least height. *)
LEMMA LowestIs ==
  ASSUME NEW T \in SUBSET Blocks, T # {}
  PROVE  Lowest(T) \in T /\ \A a \in T : nHeight[Lowest(T)] <= nHeight[a]
<1> DEFINE H == {nHeight[a] : a \in T}
<1>1. H \in SUBSET Nat /\ H # {} BY SMTT(30), TreeAssumption
<1>2. PICK n \in H : \A m \in H : n <= m BY <1>1, LeastNumber
<1>3. \E b \in T : \A a \in T : nHeight[b] <= nHeight[a] BY <1>2
<1> QED BY <1>3 DEF Lowest

(* What the two loops leave for an outpoint. *)
LEMMA ForwardAt ==
  ASSUME NEW S, NEW c, NEW o \in Outpoints
  PROVE  RolledForward(S, c)[o] = IF TouchedIn(S, o) = {} THEN c[o]
                                  ELSE After(Highest(TouchedIn(S, o)), o)
  BY DEF RolledForward, TouchedIn

LEMMA BackAt ==
  ASSUME NEW S, NEW c, NEW o \in Outpoints
  PROVE  RolledBack(S, c)[o] = IF TouchedIn(S, o) = {} THEN c[o]
                               ELSE Before(Lowest(TouchedIn(S, o)), o)
  BY DEF RolledBack, TouchedIn

(* The genesis block touches nothing. *)
LEMMA GenesisUntouched == ASSUME NEW o PROVE Touching(Genesis, o) = {}
<1>1. DOMAIN vtx[Genesis] = {} BY SMTT(30), RecoveryAssumption
<1> QED BY <1>1 DEF Touching

(* The chain of x in two parts: the upper part S, the lower part R. *)
Parts(x, S, R) ==
  /\ S \subseteq Ancestors[x] /\ R \subseteq Ancestors[x] /\ Genesis \notin S
  /\ Ancestors[x] \subseteq S \cup R \cup {Genesis}
  /\ \A a \in R, b \in S : nHeight[a] < nHeight[b]

(* Rolling the upper part forward gives the coins of the chain wherever it *)
(* touches an outpoint; the others are as the lower part left them.        *)
LEMMA TouchedParts ==
  ASSUME NEW x \in Blocks, NEW S, NEW R, Parts(x, S, R), NEW o
  PROVE  TouchedIn(Ancestors[x], o) = TouchedIn(S, o) \cup TouchedIn(R, o)
  BY GenesisUntouched DEF Parts, TouchedIn

LEMMA ForwardUntouched ==
  ASSUME NEW x \in Blocks, NEW S, NEW R, Parts(x, S, R), NEW o \in Outpoints,
         TouchedIn(S, o) = {}
  PROVE  UtxoAt[x][o] = RolledForward(R, NoCoins)[o]
<1>1. UtxoAt[x][o] = RolledForward(Ancestors[x], NoCoins)[o] BY DEF UtxoAt
<1>2. TouchedIn(Ancestors[x], o) = TouchedIn(R, o) BY SMTT(30), TouchedParts
<1> QED BY SMTT(30), <1>1, <1>2, ForwardAt

LEMMA ForwardTouched ==
  ASSUME NEW x \in Blocks, NEW S, NEW R, Parts(x, S, R), NEW c, NEW o \in Outpoints,
         TouchedIn(S, o) # {}
  PROVE  RolledForward(S, c)[o] = UtxoAt[x][o]
<1> DEFINE all == TouchedIn(Ancestors[x], o)
           h == Highest(TouchedIn(S, o))
           k == Highest(all)
<1>1. UtxoAt[x][o] = RolledForward(Ancestors[x], NoCoins)[o] BY DEF UtxoAt
<1>2. all = TouchedIn(S, o) \cup TouchedIn(R, o) BY SMTT(30), TouchedParts
<1>3. TouchedIn(S, o) \in SUBSET Ancestors[x] /\ all \in SUBSET Ancestors[x] /\ all # {}
  BY <1>2 DEF TouchedIn, Parts
<1>4. h \in TouchedIn(S, o) /\ \A a \in TouchedIn(S, o) : nHeight[a] <= nHeight[h]
  BY <1>3, HighestIs
<1>5. k \in all /\ \A a \in all : nHeight[a] <= nHeight[k] BY <1>3, HighestIs
<1>6. h \in all /\ h \in Ancestors[x] /\ k \in Ancestors[x] BY <1>2, <1>3, <1>4, <1>5
<1>7. nHeight[h] \in Nat /\ nHeight[k] \in Nat BY <1>6, AncestorsAreBlocks, TreeAssumption
<1>8. nHeight[h] <= nHeight[k] BY <1>5, <1>6
<1>9. k \in TouchedIn(S, o)
  <2>1. SUFFICES ASSUME k \in TouchedIn(R, o) PROVE FALSE BY <1>2, <1>5
  <2>2. nHeight[k] < nHeight[h] BY <2>1, <1>4 DEF TouchedIn, Parts
  <2> QED BY SMTT(30), <2>2, <1>7, <1>8
<1>10. nHeight[h] = nHeight[k] BY SMTT(30), <1>4, <1>7, <1>8, <1>9
<1>11. h = k BY <1>6, <1>8, <1>10, AncestorsOrdered
<1> QED BY SMTT(30), <1>1, <1>3, <1>11, ForwardAt

(* The undo data of the first block that touches an outpoint hold its coin *)
(* as the chain below left it: an output that is not spent was not there.  *)
LEMMA BeforeIs ==
  ASSUME NEW b \in Blocks \ {Genesis}, NEW o \in Outpoints, Touching(b, o) # {}
  PROVE  Before(b, o) = UtxoAt[pprev[b]][o]
<1> DEFINE i == Min(Touching(b, o))
<1>1. vtx[b] \in Seq([vin : SUBSET Outpoints, vout : SUBSET Outpoints])
  BY RecoveryAssumption
<1>2. DOMAIN vtx[b] \subseteq Nat BY SMTT(30), <1>1
<1>3. Touching(b, o) \in SUBSET Nat BY <1>2 DEF Touching
<1>4. \E n \in Touching(b, o) : \A m \in Touching(b, o) : n <= m BY <1>3, LeastNumber
<1>5. i \in Touching(b, o) BY <1>4 DEF Min
<1>6. i \in DOMAIN vtx[b] /\ (o \in vtx[b][i].vin \/ o \in vtx[b][i].vout)
  BY <1>5 DEF Touching
<1>7. CASE o \in vtx[b][i].vin BY <1>7 DEF Before
<1>8. CASE o \notin vtx[b][i].vin
  <2>1. UtxoAt[pprev[b]][o] = NoCoin BY <1>6, <1>8, ValidBlocks
  <2> QED BY <1>8, <2>1 DEF Before
<1> QED BY <1>7, <1>8

(* Rolling the upper part back gives the coins of the lower part wherever  *)
(* it touches an outpoint.                                                 *)
LEMMA BackParts ==
  ASSUME NEW x \in Blocks, NEW S, NEW R, Parts(x, S, R), NEW c, NEW o \in Outpoints,
         TouchedIn(S, o) # {}
  PROVE  RolledBack(S, c)[o] = RolledForward(R, NoCoins)[o]
<1> DEFINE l == Lowest(TouchedIn(S, o))
<1>1. Ancestors[x] \subseteq Blocks BY AncestorsAreBlocks
<1>2. TouchedIn(S, o) \in SUBSET Blocks BY <1>1 DEF TouchedIn, Parts
<1>3. l \in TouchedIn(S, o) /\ \A a \in TouchedIn(S, o) : nHeight[l] <= nHeight[a]
  BY <1>2, LowestIs
<1>4. l \in S /\ l \in Ancestors[x] /\ l \in Blocks \ {Genesis} /\ Touching(l, o) # {}
  BY <1>1, <1>3 DEF TouchedIn, Parts
<1>5. pprev[l] \in Blocks /\ Ancestors[l] = {l} \cup Ancestors[pprev[l]]
  BY <1>4, AncestorsUnfold
<1>6. Ancestors[l] \subseteq Ancestors[x] BY <1>4, AncestorsTransitive
<1>7. l \notin Ancestors[pprev[l]]
  <2>1. SUFFICES ASSUME l \in Ancestors[pprev[l]] PROVE FALSE OBVIOUS
  <2>2. nHeight[pprev[l]] \in Nat /\ nHeight[l] = nHeight[pprev[l]] + 1
    BY <1>4, <1>5, TreeAssumption
  <2>3. l # pprev[l] BY SMTT(30), <2>2
  <2>4. nHeight[l] < nHeight[pprev[l]] BY <2>1, <2>3, <1>5, AncestorsHeight
  <2> QED BY SMTT(30), <2>2, <2>4
<1>8. TouchedIn(Ancestors[pprev[l]], o) \subseteq TouchedIn(R, o)
  <2> SUFFICES ASSUME NEW a \in TouchedIn(Ancestors[pprev[l]], o) PROVE a \in TouchedIn(R, o)
    OBVIOUS
  <2>1. a \in Ancestors[pprev[l]] /\ Touching(a, o) # {} BY DEF TouchedIn
  <2>2. a \in Ancestors[l] /\ a # l BY <2>1, <1>5, <1>7
  <2>3. nHeight[a] < nHeight[l] BY <2>2, <1>4, AncestorsHeight
  <2>4. nHeight[a] \in Nat /\ nHeight[l] \in Nat
    BY <2>2, <1>1, <1>4, <1>6, TreeAssumption
  <2>5. a \notin TouchedIn(S, o) BY SMTT(30), <1>3, <2>3, <2>4
  <2>6. a # Genesis BY <2>1, GenesisUntouched
  <2> QED BY <2>1, <2>2, <2>5, <2>6, <1>6 DEF Parts, TouchedIn
<1>9. TouchedIn(R, o) \subseteq TouchedIn(Ancestors[pprev[l]], o)
  <2> SUFFICES ASSUME NEW a \in R PROVE a \in Ancestors[pprev[l]] BY DEF TouchedIn
  <2>1. a \in Ancestors[x] /\ nHeight[a] < nHeight[l] BY <1>4 DEF Parts
  <2>2. nHeight[a] \in Nat /\ nHeight[l] \in Nat BY <2>1, <1>1, <1>4, TreeAssumption
  <2>3. a \in Ancestors[l] /\ a # l BY SMTT(30), <2>1, <2>2, <1>4, AncestorsOrdered
  <2> QED BY <2>3, <1>5
<1>10. UtxoAt[pprev[l]][o] = RolledForward(R, NoCoins)[o]
  <2>1. TouchedIn(Ancestors[pprev[l]], o) = TouchedIn(R, o) BY <1>8, <1>9
  <2>2. UtxoAt[pprev[l]][o] = RolledForward(Ancestors[pprev[l]], NoCoins)[o]
    BY <1>5 DEF UtxoAt
  <2> QED BY SMTT(30), <2>1, <2>2, ForwardAt
<1> QED BY SMTT(30), <1>4, <1>10, BeforeIs, BackAt

-----------------------------------------------------------------------------
(* One block, and ReplayBlocks *)

LEMMA ForwardIsMap ==
  ASSUME NEW S, NEW c, NEW d \in CoinMaps,
         \A o \in Outpoints : RolledForward(S, c)[o] = d[o]
  PROVE  RolledForward(S, c) = d
  BY DEF RolledForward, CoinMaps

LEMMA BackIsMap ==
  ASSUME NEW S, NEW c, NEW d \in CoinMaps,
         \A o \in Outpoints : RolledBack(S, c)[o] = d[o]
  PROVE  RolledBack(S, c) = d
  BY DEF RolledBack, CoinMaps

LEMMA UtxoIsMap == ASSUME NEW b \in Blocks PROVE UtxoAt[b] \in CoinMaps
<1>1. \A o \in Outpoints : UtxoAt[b][o] \in Nat
  <2> SUFFICES ASSUME NEW o \in Outpoints PROVE UtxoAt[b][o] \in Nat OBVIOUS
  <2> DEFINE T == TouchedIn(Ancestors[b], o)
  <2>1. UtxoAt[b][o] = IF T = {} THEN NoCoins[o] ELSE After(Highest(T), o)
    BY ForwardAt DEF UtxoAt
  <2>2. T \in SUBSET Ancestors[b] BY DEF TouchedIn
  <2>3. T # {} => Highest(T) \in Blocks BY <2>2, HighestIs, AncestorsAreBlocks
  <2>4. T # {} => After(Highest(T), o) \in Nat BY <2>3, TreeAssumption DEF After, NoCoin
  <2> QED BY SMTT(30), <2>1, <2>4 DEF NoCoins, NoCoin
<1>2. UtxoAt[b] = RolledForward(Ancestors[b], NoCoins) BY DEF UtxoAt
<1> QED BY <1>1, <1>2 DEF RolledForward, CoinMaps

(* The genesis block has no coins. *)
LEMMA UtxoOfGenesis == UtxoAt[Genesis] = NoCoins
<1>1. Genesis \in Blocks /\ Ancestors[Genesis] = {Genesis}
  BY TreeAssumption, AncestorsOfGenesis
<1>2. \A o \in Outpoints : TouchedIn({Genesis}, o) = {} BY GenesisUntouched DEF TouchedIn
<1>3. \A o \in Outpoints : RolledForward({Genesis}, NoCoins)[o] = NoCoins[o]
  BY <1>2, ForwardAt
<1>4. NoCoins \in CoinMaps BY DEF NoCoins, CoinMaps, NoCoin
<1>5. UtxoAt[Genesis] = RolledForward({Genesis}, NoCoins) BY <1>1 DEF UtxoAt
<1> QED BY <1>3, <1>4, <1>5, ForwardIsMap

LEMMA OneBlock ==
  ASSUME NEW b \in Blocks \ {Genesis} PROVE Parts(b, {b}, Ancestors[pprev[b]])
<1>1. pprev[b] \in Blocks /\ Ancestors[b] = {b} \cup Ancestors[pprev[b]] BY AncestorsUnfold
<1>2. nHeight[pprev[b]] \in Nat /\ nHeight[b] = nHeight[pprev[b]] + 1
  BY <1>1, TreeAssumption
<1>3. ASSUME NEW a \in Ancestors[pprev[b]] PROVE nHeight[a] < nHeight[b]
  <2>1. nHeight[a] \in Nat BY <1>1, AncestorsAreBlocks, TreeAssumption
  <2>2. a # pprev[b] => nHeight[a] < nHeight[pprev[b]] BY <1>1, AncestorsHeight
  <2> QED BY SMTT(30), <1>2, <2>1, <2>2
<1> QED BY <1>1, <1>3 DEF Parts

(* RollforwardBlock and DisconnectBlock lead from the coins of a block's   *)
(* parent to its own, and back.                                            *)
LEMMA ConnectIsExact ==
  ASSUME NEW b \in Blocks \ {Genesis}
  PROVE  RollforwardBlock(b, UtxoAt[pprev[b]]) = UtxoAt[b]
<1> DEFINE S == {b}
           R == Ancestors[pprev[b]]
           c == UtxoAt[pprev[b]]
<1>1. pprev[b] \in Blocks BY AncestorsUnfold
<1>2. Parts(b, S, R) BY OneBlock
<1>3. ASSUME NEW o \in Outpoints PROVE RolledForward(S, c)[o] = UtxoAt[b][o]
  <2>1. c[o] = RolledForward(R, NoCoins)[o] BY <1>1 DEF UtxoAt
  <2> HIDE DEF S, R, c
  <2>2. CASE TouchedIn(S, o) = {}
    <3>1. RolledForward(S, c)[o] = c[o] BY <2>2, ForwardAt
    <3>2. UtxoAt[b][o] = RolledForward(R, NoCoins)[o] BY SMTT(30), <1>2, <2>2, ForwardUntouched
    <3> QED BY <2>1, <3>1, <3>2
  <2>3. CASE TouchedIn(S, o) # {} BY SMTT(30), <1>2, <2>3, ForwardTouched
  <2> QED BY <2>2, <2>3
<1> QED BY SMTT(30), <1>3, UtxoIsMap, ForwardIsMap DEF RollforwardBlock

LEMMA DisconnectIsExact ==
  ASSUME NEW b \in Blocks \ {Genesis}
  PROVE  DisconnectBlock(b, UtxoAt[b]) = UtxoAt[pprev[b]]
<1> DEFINE S == {b}
           R == Ancestors[pprev[b]]
<1>1. pprev[b] \in Blocks BY AncestorsUnfold
<1>2. Parts(b, S, R) BY OneBlock
<1>3. ASSUME NEW o \in Outpoints PROVE RolledBack(S, UtxoAt[b])[o] = UtxoAt[pprev[b]][o]
  <2>1. UtxoAt[pprev[b]][o] = RolledForward(R, NoCoins)[o] BY <1>1 DEF UtxoAt
  <2> HIDE DEF S, R
  <2>2. CASE TouchedIn(S, o) = {}
    <3>1. RolledBack(S, UtxoAt[b])[o] = UtxoAt[b][o] BY <2>2, BackAt
    <3>2. UtxoAt[b][o] = RolledForward(R, NoCoins)[o] BY SMTT(30), <1>2, <2>2, ForwardUntouched
    <3> QED BY <2>1, <3>1, <3>2
  <2>3. CASE TouchedIn(S, o) # {} BY SMTT(30), <1>2, <2>1, <2>3, BackParts
  <2> QED BY <2>2, <2>3
<1> QED BY SMTT(30), <1>1, <1>3, UtxoIsMap, BackIsMap DEF DisconnectBlock

(* Where two chains meet, each is what they share and a part above it. *)
LEMMA Fork ==
  ASSUME NEW x \in Blocks, NEW y \in Blocks
  PROVE  Parts(x, Above(x, y) \ {Genesis}, Ancestors[x] \cap Ancestors[y])
<1>1. x # NULL /\ y # NULL BY TreeAssumption
<1>2. Above(x, y) = Ancestors[x] \ Ancestors[y] BY <1>1 DEF Above
<1>3. ASSUME NEW a \in Ancestors[x] \cap Ancestors[y], NEW b \in Ancestors[x] \ Ancestors[y]
      PROVE  nHeight[a] < nHeight[b]
  <2>1. a \in Blocks /\ b \in Blocks BY AncestorsAreBlocks
  <2>2. nHeight[a] \in Nat /\ nHeight[b] \in Nat BY <2>1, TreeAssumption
  <2>3. SUFFICES ASSUME nHeight[b] <= nHeight[a] PROVE FALSE BY SMTT(30), <2>2
  <2>4. b \in Ancestors[a] BY <2>3, AncestorsOrdered
  <2>5. Ancestors[a] \subseteq Ancestors[y] BY AncestorsTransitive
  <2> QED BY <2>4, <2>5
<1> QED BY <1>2, <1>3 DEF Parts

(* ReplayBlocks ends in the coins of the new tip, from every mixture of    *)
(* its coins and those of the old tip.                                     *)
LEMMA ReplayIsExact ==
  ASSUME NEW new \in Blocks, NEW old \in Blocks \cup {NULL}, NEW c,
         \A o \in Outpoints : c[o] \in {UtxoOf(old)[o], UtxoAt[new][o]}
  PROVE  Replay(old, new, c) = UtxoAt[new]
<1> DEFINE S == Above(new, old) \ {Genesis}
           B == Above(old, new) \ {Genesis}
<1>1. new # NULL BY TreeAssumption
<1>2. ASSUME NEW o \in Outpoints PROVE Replay(old, new, c)[o] = UtxoAt[new][o]
  <2>1. CASE old = NULL
    <3>1. B = {} /\ S = Ancestors[new] \ {Genesis} BY <1>1, <2>1 DEF Above
    <3>2. Parts(new, S, {}) BY <3>1 DEF Parts
    <3>3. TouchedIn({}, o) = {} /\ TouchedIn(B, o) = {} BY <3>1 DEF TouchedIn
    <3> HIDE DEF S, B
    <3>4. RolledBack(B, c)[o] = c[o] BY <3>3, BackAt
    <3>5. TouchedIn(S, o) = {} => UtxoAt[new][o] = NoCoins[o]
      <4>1. RolledForward({}, NoCoins)[o] = NoCoins[o] BY <3>3, ForwardAt
      <4> QED BY SMTT(30), <3>2, <4>1, ForwardUntouched
    <3>6. TouchedIn(S, o) = {} => c[o] = NoCoins[o] BY <3>5, <2>1 DEF UtxoOf
    <3>7. RolledForward(S, RolledBack(B, c))[o] = UtxoAt[new][o]
      <4> DEFINE d == RolledBack(B, c)
      <4>1. d[o] = c[o] BY <3>4
      <4> SUFFICES RolledForward(S, d)[o] = UtxoAt[new][o] OBVIOUS
      <4> HIDE DEF d
      <4>2. CASE TouchedIn(S, o) = {}
        <5>1. RolledForward(S, d)[o] = d[o] BY <4>2, ForwardAt
        <5> QED BY <4>1, <4>2, <5>1, <3>5, <3>6
      <4>3. CASE TouchedIn(S, o) # {} BY SMTT(30), <4>3, <3>2, ForwardTouched
      <4> QED BY <4>2, <4>3
    <3> QED BY <3>7 DEF Replay, S, B
  <2>2. CASE old # NULL
    <3> DEFINE R == Ancestors[new] \cap Ancestors[old]
               f == RolledForward(R, NoCoins)[o]
    <3>1. old \in Blocks /\ UtxoOf(old) = UtxoAt[old] BY <2>2 DEF UtxoOf
    <3>2. Parts(new, S, R) BY <3>1, Fork
    <3>3. Parts(old, B, R)
      <4>1. R = Ancestors[old] \cap Ancestors[new] OBVIOUS
      <4> QED BY <4>1, <3>1, Fork
    <3> HIDE DEF S, B, R
    <3>4. TouchedIn(S, o) = {} => UtxoAt[new][o] = f BY SMTT(30), <3>2, ForwardUntouched
    <3>5. TouchedIn(B, o) = {} => UtxoAt[old][o] = f BY SMTT(30), <3>1, <3>3, ForwardUntouched
    <3>6. c[o] \in {UtxoAt[old][o], UtxoAt[new][o]} BY <3>1
    <3>7. TouchedIn(S, o) = {} => RolledBack(B, c)[o] = f
      <4>1. CASE TouchedIn(B, o) = {}
        <5>1. RolledBack(B, c)[o] = c[o] BY <4>1, BackAt
        <5> QED BY <4>1, <5>1, <3>4, <3>5, <3>6
      <4>2. CASE TouchedIn(B, o) # {} BY SMTT(30), <4>2, <3>1, <3>3, BackParts
      <4> QED BY <4>1, <4>2
    <3>8. RolledForward(S, RolledBack(B, c))[o] = UtxoAt[new][o]
      <4> DEFINE d == RolledBack(B, c)
      <4>1. TouchedIn(S, o) = {} => d[o] = f BY <3>7
      <4> SUFFICES RolledForward(S, d)[o] = UtxoAt[new][o] OBVIOUS
      <4> HIDE DEF d
      <4>2. CASE TouchedIn(S, o) = {}
        <5>1. RolledForward(S, d)[o] = d[o] BY <4>2, ForwardAt
        <5> QED BY <4>1, <4>2, <5>1, <3>4
      <4>3. CASE TouchedIn(S, o) # {} BY SMTT(30), <4>3, <3>2, ForwardTouched
      <4> QED BY <4>2, <4>3
    <3> QED BY <3>8 DEF Replay, S, B
  <2> QED BY <2>1, <2>2
<1> QED BY SMTT(30), <1>2, UtxoIsMap, ForwardIsMap DEF Replay

-----------------------------------------------------------------------------
(* What a replay would read, as the tip moves *)

LEMMA ItemsAre ==
  ASSUME NEW b
  PROVE  /\ b \in Blocks => Data(b) \in Items /\ Undo(b) \in Items
         /\ Data(b)[1] = "data" /\ Data(b)[2] = b /\ Undo(b)[1] = "undo" /\ Undo(b)[2] = b
         /\ \A S : /\ Data(b) \in {"data", "undo"} \X S <=> b \in S
                   /\ Undo(b) \in {"data", "undo"} \X S <=> b \in S
  BY DEF Items, Data, Undo

(* From a block to itself there is nothing to read. *)
LEMMA NothingToRead == ASSUME NEW b PROVE ReplayReads(b, b) = {}
  BY DEF ReplayReads, Above

(* Only blocks are read. *)
LEMMA ReadsAreItems ==
  ASSUME NEW old \in Blocks \cup {NULL}, NEW new \in Blocks \cup {NULL}
  PROVE  ReplayReads(old, new) \subseteq Items
<1>1. Above(old, new) \subseteq Blocks /\ Above(new, old) \subseteq Blocks
  BY AncestorsAreBlocks DEF Above
<1> QED BY SMTT(30), <1>1, ItemsAre DEF ReplayReads

(* A connected block adds its data to what is read, a disconnected one its *)
(* data and undo data.                                                     *)
LEMMA ReadsOfConnected ==
  ASSUME NEW b \in Blocks, NEW old, NEW p, p = IF b = Genesis THEN NULL ELSE pprev[b]
  PROVE  ReplayReads(old, b) \subseteq ReplayReads(old, p) \cup {Data(b)}
<1>1. b # NULL BY TreeAssumption
<1>2. Above(b, old) \subseteq {b} \cup Above(p, old) /\ Above(old, b) \subseteq Above(old, p)
  <2>1. CASE b = Genesis
    BY <1>1, <2>1, AncestorsOfGenesis DEF Above
  <2>2. CASE b # Genesis
    <3>1. p \in Blocks /\ Ancestors[b] = {b} \cup Ancestors[p] BY <2>2, AncestorsUnfold
    <3>2. p # NULL BY <3>1, TreeAssumption
    <3> QED BY <1>1, <3>1, <3>2 DEF Above
  <2> QED BY <2>1, <2>2
<1> QED BY <1>2 DEF ReplayReads

LEMMA ReadsOfDisconnected ==
  ASSUME NEW b \in Blocks \ {Genesis}, NEW old
  PROVE  ReplayReads(old, pprev[b]) \subseteq ReplayReads(old, b) \cup {Data(b), Undo(b)}
<1>1. pprev[b] \in Blocks /\ Ancestors[b] = {b} \cup Ancestors[pprev[b]] BY AncestorsUnfold
<1>2. b # NULL /\ pprev[b] # NULL BY <1>1, TreeAssumption
<1>3. /\ Above(pprev[b], old) \subseteq Above(b, old)
      /\ Above(old, pprev[b]) \subseteq {b} \cup Above(old, b)
  BY <1>1, <1>2 DEF Above
<1> QED BY <1>3 DEF ReplayReads

-----------------------------------------------------------------------------
(* Init, and the steps of the running node *)

LEMMA InitIInv == Init => IInv
<1> SUFFICES ASSUME Init PROVE IInv OBVIOUS
<1> USE DEF Init, GenesisIndex, NoIndex
<1>1. Genesis \in Blocks BY TreeAssumption
<1>2. TypeOK
  <2>1. NoCoins \in CoinMaps BY DEF NoCoins, CoinMaps, NoCoin
  <2> QED BY SMTT(30), <1>1, <2>1, ItemsAre, RecoveryAssumption DEF TypeOK, Locations
<1>3. IndexSound(treeDb) /\ DatabaseInv
  BY DEF IndexSound, ClosedUnderParent, DatabaseInv, UtxoOf
<1>4. RunningInv
  <2>1. ReplayReads(NULL, NULL) = {} BY NothingToRead
  <2> QED BY <2>1, ItemsAre DEF RunningInv, IndexSound, ClosedUnderParent, UtxoOf
<1> QED BY <1>2, <1>3, <1>4 DEF IInv, NodeRuns

(* A step that writes neither database and removes nothing from the files. *)
LEMMA DatabaseKept ==
  ASSUME DatabaseInv, IndexSound(treeDb), db' = db, treeDb' = treeDb, files \subseteq files'
  PROVE  DatabaseInv' /\ IndexSound(treeDb)'
<1>1. IndexSound(treeDb)' BY DEF IndexSound
<1>2. DatabaseInv' BY DEF DatabaseInv, UtxoOf, OutOfReach, ReplayReads
<1> QED BY <1>1, <1>2

LEMMA AcceptBlockStep ==
  ASSUME IInv, NEW b \in Blocks, AcceptBlock(b) PROVE IInv'
<1> USE DEF AcceptBlock
<1>1. TypeOK /\ RunningInv /\ DatabaseInv /\ IndexSound(treeDb) BY DEF IInv, NodeRuns
<1>2. TypeOK' BY SMTT(30), <1>1, ItemsAre DEF TypeOK
<1>3. DatabaseInv' /\ IndexSound(treeDb)' BY <1>1, DatabaseKept
<1>4. unlink = {} /\ db.heads = <<>> BY <1>1 DEF RunningInv
<1>5. IndexSound(index)'
  <2>1. index.status \subseteq ({"data", "undo"} \X index.blocks) \cap files
    BY <1>1 DEF RunningInv, IndexSound
  <2>2. ClosedUnderParent(index.blocks \cup {b})
    BY <1>1 DEF RunningInv, IndexSound, ClosedUnderParent
  <2> QED BY <2>1, <2>2, ItemsAre DEF IndexSound
<1>6. ReplayReads(db.best, tip) \ index.status = {} BY <1>1, <1>4 DEF RunningInv
<1>7. RunningInv'
  <2>1. (ReplayReads(db.best, tip) \ index.status)' = {} BY <1>6 DEF ReplayReads
  <2> QED BY <1>1, <1>4, <1>5, <2>1 DEF RunningInv, UtxoOf
<1> QED BY <1>2, <1>3, <1>7 DEF IInv, NodeRuns

LEMMA ConnectTipStep ==
  ASSUME IInv, NEW b \in Blocks, ConnectTip(b) PROVE IInv'
<1> USE DEF ConnectTip
<1>1. TypeOK /\ RunningInv /\ DatabaseInv /\ IndexSound(treeDb) BY DEF IInv, NodeRuns
<1> DEFINE new == IF b = Genesis THEN {} ELSE {Undo(b)}
<1>2. /\ index' = [index EXCEPT !.status = @ \cup new] /\ files' = files \cup new
      /\ index'.blocks = index.blocks /\ index'.status = index.status \cup new
  BY <1>1 DEF TypeOK
<1>3. b \in index.blocks /\ b # NULL
  BY <1>1, ItemsAre, TreeAssumption DEF RunningInv, IndexSound
<1>4. unlink = {} /\ db.heads = <<>> BY <1>1 DEF RunningInv
<1>5. coins' = UtxoAt[b]
  <2>1. CASE b = Genesis
    <3>1. coins = UtxoAt[b] BY <1>1, <2>1, UtxoOfGenesis DEF RunningInv, UtxoOf
    <3>2. UtxoAt[b] \in CoinMaps BY UtxoIsMap
    <3>3. \A o \in Outpoints : TouchedIn({b}, o) = {} BY <2>1, GenesisUntouched DEF TouchedIn
    <3>4. \A o \in Outpoints : RolledForward({b}, coins)[o] = UtxoAt[b][o]
      BY <3>1, <3>3, ForwardAt
    <3> QED BY <3>2, <3>4, ForwardIsMap DEF RollforwardBlock
  <2>2. CASE b # Genesis
    <3>1. tip = pprev[b] /\ tip # NULL BY <2>2, TreeAssumption
    <3>2. coins = UtxoAt[pprev[b]] BY <1>1, <3>1 DEF RunningInv, UtxoOf
    <3> QED BY <2>2, <3>2, ConnectIsExact
  <2> QED BY <2>1, <2>2
<1>6. TypeOK'
  <2>1. coins' \in CoinMaps BY <1>5, UtxoIsMap
  <2>2. new \subseteq Items BY ItemsAre
  <2> QED BY SMTT(30), <1>1, <1>2, <2>1, <2>2 DEF TypeOK
<1>7. DatabaseInv' /\ IndexSound(treeDb)' BY <1>1, <1>2, DatabaseKept
<1>8. IndexSound(index)'
  <2>1. index.status \subseteq ({"data", "undo"} \X index.blocks) \cap files
    BY <1>1 DEF RunningInv, IndexSound
  <2>2. new \subseteq {"data", "undo"} \X index.blocks BY SMTT(30), <1>3, ItemsAre
  <2> QED BY <1>1, <1>2, <2>1, <2>2 DEF RunningInv, IndexSound
<1>9. (ReplayReads(db.best, tip) \ index.status)' = {}
  <2>1. ReplayReads(db.best, tip) \ index.status = {} BY <1>1, <1>4 DEF RunningInv
  <2>2. ReplayReads(db.best, b) \subseteq ReplayReads(db.best, tip) \cup {Data(b)}
    BY ReadsOfConnected
  <2>3. ReplayReads(db.best, b) \ (index.status \cup new) = {} BY <2>1, <2>2
  <2> QED BY <1>2, <2>3 DEF ReplayReads
<1>10. RunningInv'
  <2>1. coins' = UtxoOf(tip)' /\ tip' # NULL BY <1>3, <1>5 DEF UtxoOf
  <2>2. {tip, db.best}' \subseteq index'.blocks \cup {NULL} BY <1>1, <1>2, <1>3 DEF RunningInv
  <2> QED BY <1>4, <1>8, <1>9, <2>1, <2>2 DEF RunningInv
<1> QED BY <1>6, <1>7, <1>10 DEF IInv, NodeRuns

LEMMA DisconnectTipStep ==
  ASSUME IInv, DisconnectTip PROVE IInv'
<1> USE DEF DisconnectTip
<1>1. TypeOK /\ RunningInv /\ DatabaseInv /\ IndexSound(treeDb) BY DEF IInv, NodeRuns
<1>2. tip \in Blocks \ {Genesis} /\ tip # NULL BY <1>1 DEF TypeOK
<1>3. pprev[tip] \in Blocks /\ pprev[tip] # NULL BY <1>2, TreeAssumption
<1>4. unlink = {} /\ db.heads = <<>> BY <1>1 DEF RunningInv
<1>5. coins' = UtxoAt[pprev[tip]]
  <2>1. coins = UtxoAt[tip] BY <1>1, <1>2 DEF RunningInv, UtxoOf
  <2> QED BY <1>2, <2>1, DisconnectIsExact
<1>6. TypeOK'
  <2>1. coins' \in CoinMaps BY <1>3, <1>5, UtxoIsMap
  <2> QED BY <1>1, <1>3, <2>1 DEF TypeOK
<1>7. DatabaseInv' /\ IndexSound(treeDb)' BY <1>1, DatabaseKept
<1>8. IndexSound(index)' BY <1>1 DEF RunningInv, IndexSound
<1>9. (ReplayReads(db.best, tip) \ index.status)' = {}
  <2>1. ReplayReads(db.best, tip) \ index.status = {} BY <1>1, <1>4 DEF RunningInv
  <2>2. ReplayReads(db.best, pprev[tip])
          \subseteq ReplayReads(db.best, tip) \cup {Data(tip), Undo(tip)}
    BY <1>2, ReadsOfDisconnected
  <2>3. ReplayReads(db.best, pprev[tip]) \ index.status = {} BY <2>1, <2>2
  <2> QED BY <2>3 DEF ReplayReads
<1>10. RunningInv'
  <2>1. coins' = UtxoOf(tip)' /\ tip' # NULL BY <1>3, <1>5 DEF UtxoOf
  <2>2. tip \in index.blocks /\ ClosedUnderParent(index.blocks)
    BY <1>1, <1>2 DEF RunningInv, IndexSound
  <2>3. {tip, db.best}' \subseteq index'.blocks \cup {NULL}
    BY <1>1, <1>2, <2>2 DEF RunningInv, ClosedUnderParent
  <2> QED BY <1>4, <1>8, <1>9, <2>1, <2>3 DEF RunningInv
<1> QED BY <1>6, <1>7, <1>10 DEF IInv, NodeRuns

-----------------------------------------------------------------------------
(* The steps of FlushStateToDisk *)

LEMMA FlushStep ==
  ASSUME IInv, NEW S \in SUBSET (index.status \cap OutOfReach(tip)), FlushStateToDisk(S)
  PROVE  IInv'
<1> USE DEF FlushStateToDisk
<1>1. TypeOK /\ RunningInv /\ DatabaseInv /\ IndexSound(treeDb) BY DEF IInv, NodeRuns
<1>2. index'.blocks = index.blocks /\ index'.status = index.status \ S BY <1>1 DEF TypeOK
<1>3. unlink = {} /\ db.heads = <<>> BY <1>1 DEF RunningInv
<1>4. TypeOK' BY <1>1, <1>2 DEF TypeOK, Locations
<1>5. DatabaseInv' /\ IndexSound(treeDb)' BY <1>1, DatabaseKept
<1>6. IndexSound(index)' BY <1>1, <1>2 DEF RunningInv, IndexSound
<1>7. (ReplayReads(db.best, tip) \ index.status)' \subseteq unlink'
  <2>1. ReplayReads(db.best, tip) \ index.status = {} BY <1>1, <1>3 DEF RunningInv
  <2>2. ReplayReads(db.best, tip) \ (index.status \ S) \subseteq S BY <2>1
  <2> QED BY <1>2, <2>2 DEF ReplayReads
<1>8. (unlink \subseteq OutOfReach(tip) \ index.status)' BY <1>2 DEF OutOfReach
<1>9. RunningInv'
  <2>1. coins' = UtxoOf(tip)' BY <1>1 DEF RunningInv, UtxoOf
  <2>2. {tip, db.best}' \subseteq index'.blocks \cup {NULL} BY <1>1, <1>2 DEF RunningInv
  <2> QED BY <1>3, <1>6, <1>7, <1>8, <2>1, <2>2 DEF RunningInv
<1> QED BY <1>4, <1>5, <1>9 DEF IInv, NodeRuns

LEMMA WriteBlockIndexDBStep ==
  ASSUME IInv, WriteBlockIndexDB PROVE IInv'
<1> USE DEF WriteBlockIndexDB
<1>1. TypeOK /\ RunningInv /\ DatabaseInv /\ IndexSound(treeDb) BY DEF IInv, NodeRuns
<1>2. db.heads = <<>> /\ tip # NULL BY <1>1 DEF RunningInv
<1>3. phase' \in {"run", "unlink", "coins"} /\ (phase' # "unlink" => unlink = {}) OBVIOUS
<1>4. TypeOK' BY <1>1, <1>3 DEF TypeOK, Locations
<1>5. IndexSound(treeDb)' /\ IndexSound(index)' BY <1>1 DEF RunningInv, IndexSound
<1>6. DatabaseInv'
  <2>1. db.best \in index.blocks \cup {NULL} BY <1>1 DEF RunningInv
  <2> QED BY <1>1, <1>2, <2>1 DEF DatabaseInv, UtxoOf
<1>7. RunningInv'
  <2>1. coins' = UtxoOf(tip)' BY <1>1 DEF RunningInv, UtxoOf
  <2>2. {tip, db.best}' \subseteq index'.blocks \cup {NULL} BY <1>1 DEF RunningInv
  <2>3. (unlink \subseteq OutOfReach(tip) \ index.status)' BY <1>1 DEF RunningInv, OutOfReach
  <2>4. (ReplayReads(db.best, tip) \ index.status)' \subseteq unlink'
    BY <1>1, <1>2 DEF RunningInv, ReplayReads
  <2>5. (ReplayReads(db.best, tip) \ index.status)' \subseteq OutOfReach(tip)'
    BY <2>3, <2>4
  <2> QED BY <1>2, <1>3, <1>5, <2>1, <2>2, <2>3, <2>4, <2>5 DEF RunningInv
<1> QED BY <1>3, <1>4, <1>5, <1>6, <1>7 DEF IInv, NodeRuns

LEMMA UnlinkPrunedFilesStep ==
  ASSUME IInv, UnlinkPrunedFiles PROVE IInv'
<1> USE DEF UnlinkPrunedFiles
<1>1. TypeOK /\ RunningInv /\ DatabaseInv /\ IndexSound(treeDb) BY DEF IInv, NodeRuns
<1>2. db.heads = <<>> /\ tip # NULL /\ treeDb = index BY <1>1 DEF RunningInv
<1>3. unlink \cap index.status = {} BY <1>1 DEF RunningInv
<1>4. TypeOK' BY <1>1 DEF TypeOK, Locations
<1>5. IndexSound(treeDb)' /\ IndexSound(index)'
  BY <1>1, <1>2, <1>3 DEF RunningInv, IndexSound
<1>6. DatabaseInv' BY <1>1, <1>2 DEF DatabaseInv, UtxoOf
<1>7. RunningInv'
  <2>1. coins' = UtxoOf(tip)' BY <1>1 DEF RunningInv, UtxoOf
  <2>2. {tip, db.best}' \subseteq index'.blocks \cup {NULL} BY <1>1 DEF RunningInv
  <2>3. (ReplayReads(db.best, tip) \ index.status)' \subseteq OutOfReach(tip)'
    BY <1>1, <1>2 DEF RunningInv, ReplayReads, OutOfReach
  <2> QED BY <1>2, <1>5, <2>1, <2>2, <2>3 DEF RunningInv
<1> QED BY <1>4, <1>5, <1>6, <1>7 DEF IInv, NodeRuns

-----------------------------------------------------------------------------
(* The batches of coins *)

(* The transition a batch belongs to: to the tip, from the block of the    *)
(* last complete flush.                                                    *)
LEMMA Transition ==
  ASSUME IInv, Writing
  PROVE  /\ tip \in treeDb.blocks /\ tip \in Blocks /\ coins = UtxoAt[tip]
         /\ old_tip \in treeDb.blocks \cup {NULL} /\ old_tip \in Blocks \cup {NULL}
         /\ \A o \in Outpoints : db.coins[o] \in {UtxoOf(old_tip)[o], UtxoAt[tip][o]}
         /\ ReplayReads(old_tip, tip) \ (treeDb.status \cap files) \subseteq OutOfReach(tip)
<1> USE DEF Writing
<1>1. TypeOK /\ RunningInv /\ DatabaseInv /\ IndexSound(treeDb) BY DEF IInv, NodeRuns
<1>2. tip # NULL /\ tip \in Blocks /\ coins = UtxoAt[tip]
  BY <1>1 DEF RunningInv, UtxoOf, TypeOK
<1>3. CASE db.heads = <<>>
  <2>1. old_tip = db.best BY <1>3 DEF old_tip
  <2>2. phase = "coins" /\ treeDb = index BY <1>1, <1>3 DEF RunningInv
  <2>3. db.best \in treeDb.blocks \cup {NULL} /\ db.coins = UtxoOf(db.best)
    BY <1>1, <1>3 DEF DatabaseInv
  <2>4. tip \in treeDb.blocks BY <1>1, <1>2, <2>2 DEF RunningInv
  <2>5. ReplayReads(db.best, tip) \ index.status \subseteq OutOfReach(tip)
    BY <1>1, <1>3, <2>2 DEF RunningInv
  <2>6. index.status \subseteq files BY <1>1 DEF RunningInv, IndexSound
  <2>7. db.best \in Blocks \cup {NULL} BY <1>1 DEF TypeOK
  <2> QED BY <1>2, <2>1, <2>2, <2>3, <2>4, <2>5, <2>6, <2>7
<1>4. CASE db.heads # <<>>
  <2>1. db.best = NULL /\ db.heads[1] = tip BY <1>1, <1>4 DEF RunningInv, TypeOK
  <2>2. old_tip = db.heads[2] BY <1>4, <2>1 DEF old_tip
  <2>3. db.heads[2] \in Blocks \cup {NULL} BY <1>1, <1>4 DEF TypeOK
  <2> QED BY <1>1, <1>2, <1>4, <2>1, <2>2, <2>3 DEF DatabaseInv
<1> QED BY <1>3, <1>4

LEMMA WritePartialBatchStep ==
  ASSUME IInv, NEW S \in SUBSET DIRTY, WritePartialBatch(S) PROVE IInv'
<1>1. TypeOK /\ RunningInv /\ DatabaseInv /\ IndexSound(treeDb)
  BY DEF IInv, NodeRuns, WritePartialBatch, Writing
<1> PICK old : old = old_tip OBVIOUS
<1>2. /\ tip \in treeDb.blocks /\ tip \in Blocks /\ coins = UtxoAt[tip]
      /\ old \in treeDb.blocks \cup {NULL} /\ old \in Blocks \cup {NULL}
      /\ \A o \in Outpoints : db.coins[o] \in {UtxoOf(old)[o], UtxoAt[tip][o]}
      /\ ReplayReads(old, tip) \ (treeDb.status \cap files) \subseteq OutOfReach(tip)
  BY Transition DEF WritePartialBatch
<1>3. /\ phase \in {"coins", "replay"} /\ UNCHANGED <<phase, tip, coins, index, unlink, treeDb>>
      /\ UNCHANGED <<files, crashes>>
      /\ db' = [coins |-> Written(S), best |-> NULL, heads |-> <<tip, old>>]
  BY DEF WritePartialBatch, Writing
<1>4. tip # NULL BY <1>2, TreeAssumption
<1>5. <<tip, old>> # <<>> OBVIOUS
<1>6. /\ db'.best = NULL /\ db'.heads = <<tip, old>> /\ db'.heads # <<>>
      /\ db'.heads[1] = tip /\ db'.heads[2] = old /\ db'.coins = Written(S)
  BY <1>3, <1>5
<1>7. Written(S) \in CoinMaps BY <1>1 DEF Written, TypeOK, CoinMaps
<1>8. TypeOK' BY <1>1, <1>2, <1>3, <1>7 DEF TypeOK
<1>9. IndexSound(treeDb)' /\ IndexSound(index)' BY <1>1, <1>3 DEF RunningInv, IndexSound
<1>10. DatabaseInv'
  <2>1. \A o \in Outpoints : Written(S)[o] \in {UtxoOf(old)[o], UtxoAt[tip][o]}
    BY <1>2 DEF Written
  <2>2. UtxoOf(db'.heads[2]) = UtxoOf(old) BY <1>6 DEF UtxoOf
  <2>3. /\ ReplayReads(db'.heads[2], db'.heads[1]) = ReplayReads(old, tip)
        /\ OutOfReach(db'.heads[1]) = OutOfReach(tip)
    BY <1>6 DEF ReplayReads, OutOfReach
  <2> QED BY <1>2, <1>3, <1>6, <2>1, <2>2, <2>3
          DEF DatabaseInv, UtxoOf, ReplayReads, OutOfReach
<1>11. RunningInv'
  <2>1. coins' = UtxoOf(tip)' BY <1>2, <1>3, <1>4 DEF UtxoOf
  <2>2. unlink = {} BY <1>1, <1>3 DEF RunningInv
  <2>3. {tip, db.best}' \subseteq index'.blocks \cup {NULL} BY <1>1, <1>3, <1>6 DEF RunningInv
  <2>4. phase = "coins" => treeDb' = index' BY <1>1, <1>3 DEF RunningInv
  <2> QED BY <1>3, <1>4, <1>6, <1>9, <2>1, <2>2, <2>3, <2>4 DEF RunningInv
<1> QED BY <1>8, <1>9, <1>10, <1>11, <1>3 DEF IInv, NodeRuns

LEMMA WriteFinalBatchStep ==
  ASSUME IInv, WriteFinalBatch PROVE IInv'
<1>1. TypeOK /\ RunningInv /\ DatabaseInv /\ IndexSound(treeDb)
  BY DEF IInv, NodeRuns, WriteFinalBatch, Writing
<1>2. tip \in treeDb.blocks /\ tip \in Blocks /\ coins = UtxoAt[tip]
  BY Transition DEF WriteFinalBatch
<1>3. /\ phase \in {"coins", "replay"} /\ phase' = "run"
      /\ UNCHANGED <<tip, coins, index, unlink, treeDb, files, crashes>>
      /\ db' = [coins |-> coins, best |-> tip, heads |-> <<>>]
  BY DEF WriteFinalBatch, Writing
<1>4. tip # NULL BY <1>2, TreeAssumption
<1>5. TypeOK' BY <1>1, <1>2, <1>3 DEF TypeOK, Locations
<1>6. IndexSound(treeDb)' /\ IndexSound(index)' BY <1>1, <1>3 DEF RunningInv, IndexSound
<1>7. DatabaseInv' BY <1>2, <1>3, <1>4 DEF DatabaseInv, UtxoOf
<1>8. RunningInv'
  <2>1. coins' = UtxoOf(tip)' BY <1>2, <1>3, <1>4 DEF UtxoOf
  <2>2. unlink = {} BY <1>1, <1>3 DEF RunningInv
  <2>3. {tip, db.best}' \subseteq index'.blocks \cup {NULL} BY <1>1, <1>3 DEF RunningInv
  <2>4. ReplayReads(tip, tip) = {} BY NothingToRead
  <2>5. (ReplayReads(db.best, tip) \ index.status)' = {} BY <1>3, <2>4 DEF ReplayReads
  <2> QED BY <1>3, <1>4, <1>6, <2>1, <2>2, <2>3, <2>5 DEF RunningInv
<1> QED BY <1>3, <1>5, <1>6, <1>7, <1>8 DEF IInv, NodeRuns

-----------------------------------------------------------------------------
(* Crash and start-up *)

LEMMA CrashStep ==
  ASSUME IInv, Crash PROVE IInv'
<1> USE DEF Crash
<1>1. TypeOK /\ DatabaseInv /\ IndexSound(treeDb) BY DEF IInv
<1>2. TypeOK'
  <2>1. NoCoins \in CoinMaps BY DEF NoCoins, CoinMaps, NoCoin
  <2>2. NoIndex \in [blocks : SUBSET Blocks, status : SUBSET Items] BY DEF NoIndex
  <2>3. crashes + 1 \in 0..MaxCrashes BY SMTT(30), <1>1, RecoveryAssumption DEF TypeOK
  <2> QED BY <1>1, <2>1, <2>2, <2>3 DEF TypeOK, Locations
<1>3. DatabaseInv' /\ IndexSound(treeDb)' BY <1>1, DatabaseKept
<1> QED BY <1>2, <1>3 DEF IInv, NodeRuns

LEMMA LoadChainstateStep ==
  ASSUME IInv, LoadChainstate PROVE IInv'
<1>1. TypeOK /\ DatabaseInv /\ IndexSound(treeDb) /\ unlink = {}
  BY DEF IInv, NodeRuns, LoadChainstate
<1> PICK L : L = LoadedIndex OBVIOUS
<1>2. /\ index' = L /\ files' = files \cup (L.status \ treeDb.status)
      /\ UNCHANGED <<unlink, db, treeDb, crashes>>
  BY DEF LoadChainstate
<1>3. L \in [blocks : SUBSET Blocks, status : SUBSET Items]
  <2>1. Genesis \in Blocks BY TreeAssumption
  <2> QED BY SMTT(30), <1>1, <2>1, ItemsAre DEF TypeOK, LoadedIndex, GenesisIndex
<1>4. DatabaseInv' /\ IndexSound(treeDb)' BY <1>1, <1>2, DatabaseKept
<1>5. IndexSound(index)'
  <2>1. ClosedUnderParent(L.blocks)
    BY <1>1 DEF LoadedIndex, GenesisIndex, IndexSound, ClosedUnderParent
  <2>2. L.status \subseteq {"data", "undo"} \X L.blocks
    BY SMTT(30), <1>1, ItemsAre DEF LoadedIndex, GenesisIndex, IndexSound
  <2>3. L.status \subseteq files' BY <1>1, <1>2 DEF IndexSound
  <2> QED BY <1>2, <2>1, <2>2, <2>3 DEF IndexSound
<1>6. CASE phase' = "failed" /\ UNCHANGED <<tip, coins>>
  <2>1. TypeOK' BY <1>1, <1>2, <1>3, <1>6 DEF TypeOK, Locations
  <2> QED BY <1>1, <1>2, <1>4, <1>6, <2>1 DEF IInv, NodeRuns
<1>7. CASE ~CannotLoad /\ db.heads = <<>> /\ phase' = "run" /\ tip' = db.best /\ coins' = db.coins
  <2>1. TypeOK' BY <1>1, <1>2, <1>3, <1>7 DEF TypeOK, Locations
  <2>2. db.best \in L.blocks \cup {NULL} BY <1>7 DEF CannotLoad
  <2>3. coins' = UtxoOf(tip)' BY <1>1, <1>7 DEF DatabaseInv, UtxoOf
  <2>4. ReplayReads(db.best, db.best) = {} BY NothingToRead
  <2>5. (ReplayReads(db.best, tip) \ index.status)' = {} BY <1>2, <1>7, <2>4 DEF ReplayReads
  <2>6. RunningInv' BY <1>1, <1>2, <1>5, <1>7, <2>2, <2>3, <2>5 DEF RunningInv
  <2> QED BY <1>4, <1>7, <2>1, <2>6 DEF IInv, NodeRuns
<1>8. CASE /\ ~CannotLoad /\ db.heads # <<>> /\ phase' = "replay" /\ tip' = db.heads[1]
           /\ coins' = Replay(db.heads[2], db.heads[1], db.coins)
  <2> PICK new, old : new = db.heads[1] /\ old = db.heads[2] OBVIOUS
  <2>1. new \in Blocks /\ old \in Blocks \cup {NULL} /\ db.best = NULL
    BY <1>1, <1>8 DEF TypeOK
  <2>2. \A o \in Outpoints : db.coins[o] \in {UtxoOf(old)[o], UtxoAt[new][o]}
    BY <1>1, <1>8 DEF DatabaseInv
  <2>3. coins' = UtxoAt[new] BY <1>8, <2>1, <2>2, ReplayIsExact
  <2>4. coins' \in CoinMaps BY <2>1, <2>3, UtxoIsMap
  <2>5. TypeOK' BY <1>1, <1>2, <1>3, <1>8, <2>1, <2>4 DEF TypeOK, Locations
  <2>6. new \in L.blocks /\ new # NULL BY <1>8, <2>1, TreeAssumption DEF CannotLoad
  <2>7. coins' = UtxoOf(tip)' BY <1>8, <2>3, <2>6 DEF UtxoOf
  <2>8. RunningInv' BY <1>1, <1>2, <1>5, <1>8, <2>1, <2>6, <2>7 DEF RunningInv
  <2> QED BY <1>4, <1>8, <2>5, <2>8 DEF IInv, NodeRuns
<1> QED BY <1>6, <1>7, <1>8 DEF LoadChainstate

-----------------------------------------------------------------------------
(* The invariant, and what it says *)

LEMMA StutterStep ==
  ASSUME IInv, UNCHANGED vars PROVE IInv'
  BY DEF vars, IInv, TypeOK, IndexSound, DatabaseInv, NodeRuns, RunningInv, UtxoOf,
         OutOfReach, ReplayReads

LEMMA StepIInv == IInv /\ [Next]_vars => IInv'
<1> SUFFICES ASSUME IInv, [Next]_vars PROVE IInv' OBVIOUS
<1>1. CASE \E b \in Blocks : AcceptBlock(b) \/ ConnectTip(b)
  BY <1>1, AcceptBlockStep, ConnectTipStep
<1>2. CASE DisconnectTip BY <1>2, DisconnectTipStep
<1>3. CASE \E h \in {nHeight[b] : b \in Blocks} : FlushStateToDisk(Prunable(h))
  <2>1. PICK h \in {nHeight[b] : b \in Blocks} : FlushStateToDisk(Prunable(h)) BY <1>3
  <2> PICK S : S = Prunable(h) OBVIOUS
  <2>2. TypeOK BY DEF IInv
  <2>3. S \in SUBSET (index.status \cap OutOfReach(tip))
    BY <2>2 DEF Prunable, OutOfReach, TypeOK
  <2>4. FlushStateToDisk(S) BY <2>1 DEF FlushStateToDisk
  <2> QED BY <2>3, <2>4, FlushStep
<1>4. CASE FlushStateToDisk({}) BY <1>4, FlushStep
<1>5. CASE WriteBlockIndexDB BY <1>5, WriteBlockIndexDBStep
<1>6. CASE UnlinkPrunedFiles BY <1>6, UnlinkPrunedFilesStep
<1>7. CASE \E S \in SUBSET DIRTY : WritePartialBatch(S) BY <1>7, WritePartialBatchStep
<1>8. CASE WriteFinalBatch BY <1>8, WriteFinalBatchStep
<1>9. CASE Crash BY <1>9, CrashStep
<1>10. CASE LoadChainstate BY <1>10, LoadChainstateStep
<1>11. CASE UNCHANGED vars BY <1>11, StutterStep
<1> QED BY <1>1, <1>2, <1>3, <1>4, <1>5, <1>6, <1>7, <1>8, <1>9, <1>10, <1>11 DEF Next

LEMMA Invariance == Spec => []IInv
  BY InitIInv, StepIInv, PTL DEF Spec

LEMMA IInvSays == IInv => UtxoOfTip /\ DatabaseRecoverable
<1> SUFFICES ASSUME IInv PROVE UtxoOfTip /\ DatabaseRecoverable OBVIOUS
<1>1. TypeOK /\ DatabaseInv BY DEF IInv
<1>2. UtxoOfTip BY DEF IInv, NodeRuns, RunningInv, UtxoOf, UtxoOfTip
<1>3. Writing => HeadsMatch BY DEF IInv, NodeRuns, RunningInv, Writing, HeadsMatch
<1>4. CASE db.heads = <<>>
  <2>1. db.best # NULL => db.best \in treeDb.blocks /\ db.coins = UtxoAt[db.best]
    BY <1>1, <1>4 DEF DatabaseInv, UtxoOf
  <2> QED BY <1>2, <1>3, <1>4, <2>1 DEF DatabaseRecoverable
<1>5. CASE db.heads # <<>>
  <2> PICK new, old : new = db.heads[1] /\ old = db.heads[2] OBVIOUS
  <2>1. new \in Blocks /\ old \in Blocks \cup {NULL} BY <1>1, <1>5 DEF TypeOK
  <2>2. /\ new \in treeDb.blocks /\ old \in treeDb.blocks \cup {NULL}
        /\ \A o \in Outpoints : db.coins[o] \in {UtxoOf(old)[o], UtxoAt[new][o]}
        /\ ReplayReads(old, new) \ (treeDb.status \cap files) \subseteq OutOfReach(new)
    BY <1>1, <1>5 DEF DatabaseInv
  <2>3. Replay(old, new, db.coins) = UtxoAt[new] BY <2>1, <2>2, ReplayIsExact
  <2>4. \A i \in ReplayReads(old, new) \ (treeDb.status \cap files) :
           nHeight[i[2]] + MIN_BLOCKS_TO_KEEP <= nHeight[new]
    BY <2>2 DEF OutOfReach
  <2>5. {new, old} \subseteq treeDb.blocks \cup {NULL} BY <2>2
  <2> QED BY <1>2, <1>3, <1>5, <2>3, <2>4, <2>5 DEF DatabaseRecoverable
<1> QED BY <1>4, <1>5

(* The coins of a running node are those of its tip: after blocks were     *)
(* connected and disconnected in any order, and after any crash in         *)
(* FlushStateToDisk or in ReplayBlocks, on every tree of valid blocks and  *)
(* for every way to split the coins into batches.                          *)
THEOREM CoinsOfTip == Spec => []UtxoOfTip
  BY Invariance, IInvSays, PTL

(* At no point does a crash leave a database that ReplayBlocks could not   *)
(* repair, but for the blocks that pruning may take from a tip that is     *)
(* MIN_BLOCKS_TO_KEEP or more above them; and BatchWrite's assertion on    *)
(* the heads never fires.                                                  *)
THEOREM AlwaysRecoverable == Spec => []DatabaseRecoverable
  BY Invariance, IInvSays, PTL

-----------------------------------------------------------------------------
(* SchedulerClient *)

Places == ClientPlaces \cup ServicePlaces \cup MainPlaces \cup {"idle"}
InCallback == {"callback", "finish"}
Scheduling == {"maybe", "schedule", "process"}
Tasks == {"process", "periodic"}

ClientTypes ==
  /\ m_callbacks_pending \in Seq(Callbacks) /\ m_are_callbacks_running \in BOOLEAN
  /\ taskQueue \in Seq(Tasks) /\ stopRequested \in BOOLEAN /\ issued \in Nat
  /\ pc \in [AllThreads -> Places] /\ running \in [AllThreads -> Seq(Callbacks)]

(* m_are_callbacks_running is held by the one thread inside ProcessQueue. *)
Locked ==
  /\ \A s, t \in AllThreads : pc[s] \in InCallback /\ pc[t] \in InCallback => s = t
  /\ m_are_callbacks_running <=> \E t \in AllThreads : pc[t] \in InCallback
  /\ \A t \in AllThreads : pc[t] = "callback" => running[t] # <<>>

(* After the join only the main thread is left. *)
Joined ==
  pc[Main] \notin {"running", "stop", "join"} =>
    /\ \A s \in Services : pc[s] = "stopped"
    /\ \A p \in Producers : pc[p] = "idle"

(* The last two callbacks are the ones of the main thread. *)
Numbered ==
  /\ pc[Main] \in {"running", "stop", "join", "flush"} => issued <= MaxAdded
  /\ pc[Main] \notin {"unregister", "down"} => issued <= MaxAdded + 1

(* The inductive invariant. *)
ClientInv == ClientTypes /\ Locked /\ Joined /\ Numbered /\ NeverForgotten /\ FlushIsComplete

(* What a step does to the serial queue. *)
Simulates == [Serial!Next]_(Serial!queueVars)

-----------------------------------------------------------------------------

LEMMA ClientStart == SchedulerInit => ClientInv /\ Serial!Init
<1> SUFFICES ASSUME SchedulerInit PROVE ClientInv /\ Serial!Init OBVIOUS
<1>1. Main \in AllThreads /\ \A t \in AllThreads : pc[t] \in {"running", "service", "idle", "empty"}
  BY DEF SchedulerInit, Home, AllThreads
<1>2. pc[Main] = "running" BY <1>1 DEF SchedulerInit
<1>3. ClientTypes
  <2>1. pc \in [AllThreads -> Places]
    BY <1>1 DEF SchedulerInit, Places, ClientPlaces, ServicePlaces, MainPlaces
  <2>2. <<>> \in Seq(Tasks) /\ <<"periodic">> \in Seq(Tasks) BY SMTT(30) DEF Tasks
  <2>3. taskQueue \in Seq(Tasks) BY <2>2 DEF SchedulerInit
  <2>4. <<>> \in Seq(Callbacks) BY SMTT(30)
  <2>5. running \in [AllThreads -> Seq(Callbacks)] BY <2>4 DEF SchedulerInit
  <2> QED BY <2>1, <2>3, <2>4, <2>5 DEF SchedulerInit, ClientTypes
<1>4. Locked BY <1>1 DEF SchedulerInit, Locked, InCallback
<1>5. Joined /\ Numbered /\ NeverForgotten /\ FlushIsComplete
  BY SMTT(30), <1>2, SchedulerAssumption DEF SchedulerInit, Joined, Numbered, NeverForgotten, FlushIsComplete
<1>6. Current = <<>> BY <1>1 DEF Current, Busy
<1>7. Closed = FALSE BY SMTT(30), <1>2 DEF Closed
<1>8. Serial!Init BY <1>6, <1>7 DEF Serial!Init, SchedulerInit
<1> QED BY <1>3, <1>4, <1>5, <1>8 DEF ClientInv

(* A step before EmptyQueue has returned, as the serial queue sees it. *)
LEMMA OpenStep ==
  ASSUME ~Closed, ~Closed',
         \/ m_callbacks_pending' = m_callbacks_pending /\ Current' = Current
         \/ /\ \E f \in Callbacks : m_callbacks_pending' = Append(m_callbacks_pending, f)
            /\ Current' = Current
         \/ /\ Current = <<>> /\ m_callbacks_pending # <<>>
            /\ Current' = <<Head(m_callbacks_pending)>>
            /\ m_callbacks_pending' = Tail(m_callbacks_pending)
         \/ Current # <<>> /\ Current' = <<>> /\ m_callbacks_pending' = m_callbacks_pending
  PROVE  Simulates
<1>1. Closed = FALSE /\ Closed' = FALSE BY SMTT(30) DEF Closed
<1>2. /\ (IF Closed THEN <<>> ELSE m_callbacks_pending) = m_callbacks_pending
      /\ (IF Closed THEN <<>> ELSE m_callbacks_pending)' = m_callbacks_pending'
  BY <1>1
<1>3. CASE m_callbacks_pending' = m_callbacks_pending /\ Current' = Current
  BY <1>1, <1>2, <1>3 DEF Simulates, Serial!queueVars
<1>4. CASE /\ \E f \in Callbacks : m_callbacks_pending' = Append(m_callbacks_pending, f)
           /\ Current' = Current
  BY <1>1, <1>2, <1>4 DEF Simulates, Serial!Next, Serial!Add
<1>5. CASE /\ Current = <<>> /\ m_callbacks_pending # <<>>
           /\ Current' = <<Head(m_callbacks_pending)>>
           /\ m_callbacks_pending' = Tail(m_callbacks_pending)
  BY <1>1, <1>2, <1>5 DEF Simulates, Serial!Next, Serial!Begin
<1>6. CASE Current # <<>> /\ Current' = <<>> /\ m_callbacks_pending' = m_callbacks_pending
  BY <1>1, <1>2, <1>6 DEF Simulates, Serial!Next, Serial!End
<1> QED BY <1>3, <1>4, <1>5, <1>6

(* A step in which no thread enters or leaves a callback, and the client   *)
(* is left alone.                                                          *)
LEMMA OnlyMovesKeep ==
  ASSUME ClientInv, UNCHANGED <<m_callbacks_pending, m_are_callbacks_running, running, issued>>,
         pc' \in [AllThreads -> Places], taskQueue' \in Seq(Tasks), stopRequested' \in BOOLEAN,
         \A t \in AllThreads : \/ pc'[t] = pc[t]
                               \/ pc[t] \notin InCallback /\ pc'[t] \notin InCallback,
         Joined', Numbered', NeverForgotten', FlushIsComplete'
  PROVE  ClientInv' /\ Current' = Current /\ (~Closed /\ ~Closed' => Simulates)
<1>1. ClientTypes' BY DEF ClientInv, ClientTypes
<1>2. Locked' BY DEF ClientInv, Locked, InCallback
<1>3. Busy' = Busy BY DEF Busy, InCallback
<1>4. Current' = Current BY SMTT(30), <1>3 DEF Current
<1> QED BY <1>1, <1>2, <1>4, OpenStep DEF ClientInv

(* The threads that notify_one may wake. *)
LEMMA WakeFacts ==
  ASSUME NEW p \in [AllThreads -> Places], NEW q \in Wake(p)
  PROVE  /\ q \in [AllThreads -> Places]
         /\ \A t \in AllThreads :
              \/ q[t] = p[t]
              \/ /\ t \in Services /\ p[t] \in {"wait", "wait_until", "due"}
                 /\ q[t] \in {"service", "due"}
<1>1. CASE q = p BY <1>1
<1>2. CASE \E s \in Services : /\ p[s] \in {"wait", "wait_until", "due"}
                               /\ q = [p EXCEPT ![s] = IF @ = "due" THEN "due" ELSE "service"]
  BY <1>2 DEF AllThreads, Places, ServicePlaces
<1> QED BY <1>1, <1>2 DEF Wake

(* While another thread than the main one is at work, the main thread has  *)
(* not got past the join.                                                  *)
LEMMA NotJoined ==
  ASSUME ClientInv, NEW t \in AllThreads, t # Main, pc[t] \notin {"stopped", "idle"}
  PROVE  pc[Main] \in {"running", "stop", "join"}
  BY DEF ClientInv, Joined, AllThreads

LEMMA HomeFacts ==
  ASSUME NEW t \in AllThreads
  PROVE  /\ Home(t) \in Places \ (InCallback \cup Scheduling \cup {"last", "unregister", "down"})
         /\ Home(Main) = "empty"
  BY SchedulerAssumption
     DEF Home, AllThreads, Places, InCallback, Scheduling, ServicePlaces, MainPlaces, ClientPlaces

-----------------------------------------------------------------------------
(* SingleThreadedSchedulerClient *)

(* The callback goes to the end of the queue and its thread to             *)
(* MaybeScheduleProcessQueue.                                              *)
LEMMA AddToProcessQueueKeeps ==
  ASSUME ClientInv, NEW t \in AllThreads, AddToProcessQueue(t) PROVE ClientInv' /\ Simulates
<1>0. /\ issued' = issued + 1 /\ m_callbacks_pending' = Append(m_callbacks_pending, issued + 1)
      /\ pc' = [pc EXCEPT ![t] = "maybe"] /\ pc[t] \in {"idle", "flush"}
      /\ UNCHANGED <<m_are_callbacks_running, taskQueue, stopRequested, running>>
  BY DEF AddToProcessQueue, Goto
<1>1. issued \in Nat /\ MaxAdded \in Nat /\ pc \in [AllThreads -> Places] /\ Main \in AllThreads
  BY SchedulerAssumption DEF ClientInv, ClientTypes, AllThreads
<1>2. /\ issued <= MaxAdded
      /\ t # Main => pc[Main] \in {"running", "stop", "join"} /\ issued < MaxAdded
  BY <1>1, SchedulerAssumption DEF AddToProcessQueue, ClientInv, Numbered, AllThreads
<1>3. issued + 1 \in Callbacks BY SMTT(30), <1>1, <1>2 DEF Callbacks
<1>4. "maybe" \in Places BY DEF Places, ClientPlaces
<1>5. ClientTypes' BY SMTT(30), <1>0, <1>1, <1>3, <1>4 DEF ClientInv, ClientTypes
<1>6. Locked' BY <1>0, <1>1 DEF ClientInv, Locked, InCallback
<1>7. Joined' /\ Numbered' /\ FlushIsComplete' /\ ~Closed /\ ~Closed'
  <2>1. CASE t = Main
    <3>1. pc[Main] = "flush" BY <2>1, SchedulerAssumption DEF AddToProcessQueue
    <3>2. issued' <= MaxAdded + 1 BY SMTT(30), <1>0, <1>1, <1>2
    <3> QED BY <1>0, <1>1, <2>1, <3>1, <3>2, SchedulerAssumption
        DEF ClientInv, Joined, Numbered, FlushIsComplete, Closed, AllThreads
  <2>2. CASE t # Main
    <3>1. pc'[Main] = pc[Main] BY <1>0, <1>1, <2>2
    <3> QED BY SMTT(30), <1>0, <1>1, <1>2, <2>2, <3>1 DEF Joined, Numbered, FlushIsComplete, Closed
  <2> QED BY <2>1, <2>2
<1>8. NeverForgotten' BY <1>0, <1>1 DEF NeverForgotten
<1>9. Current' = Current
  <2>1. Busy' = Busy BY <1>0, <1>1 DEF Busy
  <2> QED BY SMTT(30), <1>0, <2>1 DEF Current
<1>10. Simulates BY <1>0, <1>3, <1>7, <1>9, OpenStep
<1> QED BY <1>5, <1>6, <1>7, <1>8, <1>10 DEF ClientInv

LEMMA MaybeKeeps ==
  ASSUME ClientInv, NEW t \in AllThreads, MaybeScheduleProcessQueue(t) PROVE ClientInv' /\ Simulates
<1>0. /\ pc[t] = "maybe" /\ OnlyMoves
      /\ pc' = [pc EXCEPT ![t] = IF m_are_callbacks_running \/ m_callbacks_pending = <<>>
                                 THEN Home(t) ELSE "schedule"]
  BY DEF MaybeScheduleProcessQueue, Goto
<1>1. pc \in [AllThreads -> Places] /\ Main \in AllThreads BY DEF ClientInv, ClientTypes, AllThreads
<1>2. pc' \in [AllThreads -> Places] BY <1>0, <1>1, HomeFacts DEF Places, ClientPlaces
<1>3. \A u \in AllThreads : pc'[u] = pc[u] \/ (u = t /\ pc'[u] \in {Home(t), "schedule"})
  BY <1>0, <1>1
<1>4. Joined' /\ Numbered' /\ FlushIsComplete' /\ ~Closed /\ ~Closed'
  <2>1. CASE t = Main
    BY <1>0, <1>1, <1>3, <2>1, HomeFacts, SchedulerAssumption
    DEF ClientInv, Joined, Numbered, FlushIsComplete, Closed, AllThreads, Places, Scheduling, InCallback, OnlyMoves
  <2>2. CASE t # Main
    BY <1>0, <1>1, <1>3, <2>2, NotJoined
    DEF ClientInv, Joined, Numbered, FlushIsComplete, Closed, OnlyMoves
  <2> QED BY <2>1, <2>2
<1>5. NeverForgotten'
  BY <1>0, <1>1 DEF NeverForgotten, ClientInv, OnlyMoves, clientVars
<1>6. \A u \in AllThreads : \/ pc'[u] = pc[u]
                            \/ pc[u] \notin InCallback /\ pc'[u] \notin InCallback
  BY <1>0, <1>1, <1>3, HomeFacts DEF InCallback
<1> QED BY <1>0, <1>2, <1>4, <1>5, <1>6, OnlyMovesKeep DEF OnlyMoves, clientVars, ClientInv, ClientTypes

(* Only one thread at a time gets into a callback, and it takes the oldest. *)
LEMMA ProcessQueueKeeps ==
  ASSUME ClientInv, NEW t \in AllThreads, ProcessQueue(t) PROVE ClientInv' /\ Simulates
<1>0. pc[t] = "process" /\ UNCHANGED <<taskQueue, stopRequested, issued>> BY DEF ProcessQueue
<1>1. pc \in [AllThreads -> Places] /\ Main \in AllThreads BY DEF ClientInv, ClientTypes, AllThreads
<1>2. CASE m_are_callbacks_running \/ m_callbacks_pending = <<>>
  <2>1. /\ pc' = [pc EXCEPT ![t] = Home(t)]
        /\ UNCHANGED <<m_callbacks_pending, m_are_callbacks_running, running>>
    BY <1>2 DEF ProcessQueue, Goto, clientVars
  <2>2. pc' \in [AllThreads -> Places] BY <1>1, <2>1, HomeFacts
  <2>3. Joined' /\ Numbered' /\ FlushIsComplete' /\ ~Closed /\ ~Closed'
    <3>1. CASE t = Main
      BY <1>0, <1>1, <2>1, <3>1, HomeFacts, SchedulerAssumption
      DEF ClientInv, Joined, Numbered, FlushIsComplete, Closed, AllThreads
    <3>2. CASE t # Main
      BY <1>0, <1>1, <2>1, <3>2, NotJoined DEF ClientInv, Joined, Numbered, FlushIsComplete, Closed
    <3> QED BY <3>1, <3>2
  <2>4. NeverForgotten' BY <1>2, <2>1 DEF NeverForgotten
  <2>5. \A u \in AllThreads : \/ pc'[u] = pc[u]
                              \/ pc[u] \notin InCallback /\ pc'[u] \notin InCallback
    BY <1>0, <1>1, <2>1, HomeFacts DEF InCallback
  <2> QED BY <1>0, <2>1, <2>2, <2>3, <2>4, <2>5, OnlyMovesKeep DEF ClientInv, ClientTypes
<1>3. CASE ~m_are_callbacks_running /\ m_callbacks_pending # <<>>
  <2>1. /\ m_are_callbacks_running' = TRUE
        /\ running' = [running EXCEPT ![t] = <<Head(m_callbacks_pending)>>]
        /\ m_callbacks_pending' = Tail(m_callbacks_pending)
        /\ pc' = [pc EXCEPT ![t] = "callback"]
    BY <1>3 DEF ProcessQueue, Goto
  <2>2. Head(m_callbacks_pending) \in Callbacks /\ Tail(m_callbacks_pending) \in Seq(Callbacks)
    BY SMTT(30), <1>3 DEF ClientInv, ClientTypes
  <2>3. \A u \in AllThreads : pc[u] \notin InCallback BY <1>3 DEF ClientInv, Locked
  <2>4. \A u \in AllThreads : u # t => pc'[u] = pc[u] BY <1>1, <2>1
  <2>5. pc'[t] = "callback" /\ running'[t] = <<Head(m_callbacks_pending)>>
    BY <1>1, <2>1 DEF ClientInv, ClientTypes
  <2>6. ClientTypes'
    <3>1. pc' \in [AllThreads -> Places] BY <1>1, <2>1 DEF Places, ClientPlaces
    <3>2. <<Head(m_callbacks_pending)>> \in Seq(Callbacks) BY SMTT(30), <2>2
    <3>3. running' \in [AllThreads -> Seq(Callbacks)] BY <2>1, <3>2 DEF ClientInv, ClientTypes
    <3> QED BY <1>0, <2>1, <2>2, <3>1, <3>3 DEF ClientInv, ClientTypes
  <2>7. Locked'
    <3>1. \A u \in AllThreads : pc'[u] \in InCallback <=> u = t
      BY <2>3, <2>4, <2>5 DEF InCallback
    <3>2. running'[t] # <<>> BY SMTT(30), <2>5
    <3>3. \A u \in AllThreads : pc'[u] = "callback" => running'[u] # <<>>
      BY <3>1, <3>2 DEF InCallback
    <3> QED BY <2>1, <3>1, <3>3 DEF Locked
  <2>8. Joined' /\ Numbered' /\ FlushIsComplete' /\ ~Closed /\ ~Closed'
    <3>1. CASE t = Main
      BY <1>0, <1>1, <2>1, <3>1, SchedulerAssumption
      DEF ClientInv, Joined, Numbered, FlushIsComplete, Closed, AllThreads
    <3>2. CASE t # Main
      BY <1>0, <1>1, <2>1, <3>2, NotJoined DEF ClientInv, Joined, Numbered, FlushIsComplete, Closed
    <3> QED BY <3>1, <3>2
  <2>9. NeverForgotten' BY <2>1 DEF NeverForgotten
  <2>10. Current = <<>> BY <2>3 DEF Current, Busy, InCallback
  <2>11. Busy' = {t} BY <2>3, <2>4, <2>5 DEF Busy, InCallback
  <2>12. Current' = <<Head(m_callbacks_pending)>> BY <2>5, <2>11 DEF Current
  <2>13. Simulates
    BY <1>3, <2>1, <2>8, <2>10, <2>12, OpenStep
  <2> QED BY <2>6, <2>7, <2>8, <2>9, <2>13 DEF ClientInv
<1> QED BY <1>2, <1>3 DEF ClientInv, ClientTypes

LEMMA CallbackKeeps ==
  ASSUME ClientInv, NEW t \in AllThreads, Callback(t) PROVE ClientInv' /\ Simulates
<1>0. /\ pc[t] = "callback" /\ pc' = [pc EXCEPT ![t] = "finish"]
      /\ running' = [running EXCEPT ![t] = <<>>]
      /\ UNCHANGED <<m_callbacks_pending, m_are_callbacks_running, taskQueue,
                     stopRequested, issued>>
  BY DEF Callback, Goto, clientVars
<1>1. pc \in [AllThreads -> Places] /\ Main \in AllThreads BY DEF ClientInv, ClientTypes, AllThreads
<1>2. \A u \in AllThreads : pc[u] \in InCallback <=> u = t
  BY <1>0 DEF ClientInv, Locked, InCallback
<1>3. \A u \in AllThreads : (pc'[u] \in InCallback <=> u = t) /\ pc'[u] # "callback"
  BY <1>0, <1>1, <1>2 DEF InCallback
<1>4. m_are_callbacks_running BY <1>2 DEF ClientInv, Locked
<1>5. ClientTypes'
  <2>1. pc' \in [AllThreads -> Places] BY <1>0, <1>1 DEF Places, ClientPlaces
  <2>2. <<>> \in Seq(Callbacks) BY SMTT(30)
  <2>3. running' \in [AllThreads -> Seq(Callbacks)] BY <1>0, <2>2 DEF ClientInv, ClientTypes
  <2> QED BY <1>0, <2>1, <2>3 DEF ClientInv, ClientTypes
<1>6. Locked' BY <1>0, <1>3, <1>4 DEF Locked
<1>7. Joined' /\ Numbered' /\ FlushIsComplete' /\ ~Closed /\ ~Closed'
  <2>1. CASE t = Main
    BY <1>0, <1>1, <2>1, SchedulerAssumption
    DEF ClientInv, Joined, Numbered, FlushIsComplete, Closed, AllThreads
  <2>2. CASE t # Main
    BY <1>0, <1>1, <2>2, NotJoined DEF ClientInv, Joined, Numbered, FlushIsComplete, Closed
  <2> QED BY <2>1, <2>2
<1>8. NeverForgotten' BY <1>0, <1>4 DEF NeverForgotten
<1>9. Busy = {t} BY <1>0, <1>2 DEF Busy, InCallback
<1>10. Current # <<>>
  <2>1. running[t] # <<>> BY <1>0 DEF ClientInv, Locked
  <2> QED BY <1>9, <2>1 DEF Current
<1>11. Current' = <<>> BY <1>3 DEF Current, Busy
<1>12. Simulates BY <1>0, <1>7, <1>10, <1>11, OpenStep
<1> QED BY <1>5, <1>6, <1>7, <1>8, <1>12 DEF ClientInv

(* The flag is given up and the thread goes to MaybeScheduleProcessQueue. *)
LEMMA FinishKeeps ==
  ASSUME ClientInv, NEW t \in AllThreads, Finish(t) PROVE ClientInv' /\ Simulates
<1>0. /\ pc[t] = "finish" /\ pc' = [pc EXCEPT ![t] = "maybe"]
      /\ m_are_callbacks_running' = FALSE
      /\ UNCHANGED <<m_callbacks_pending, taskQueue, stopRequested, running, issued>>
  BY DEF Finish, Goto
<1>1. pc \in [AllThreads -> Places] /\ Main \in AllThreads BY DEF ClientInv, ClientTypes, AllThreads
<1>2. \A u \in AllThreads : pc[u] \in InCallback <=> u = t
  BY <1>0 DEF ClientInv, Locked, InCallback
<1>3. \A u \in AllThreads : pc'[u] \notin InCallback
  BY <1>0, <1>1, <1>2 DEF InCallback
<1>4. ClientTypes' BY <1>0, <1>1 DEF ClientInv, ClientTypes, Places, ClientPlaces
<1>5. Locked' BY <1>0, <1>3 DEF Locked, InCallback
<1>6. Joined' /\ Numbered' /\ FlushIsComplete' /\ ~Closed /\ ~Closed'
  <2>1. CASE t = Main
    BY <1>0, <1>1, <2>1, SchedulerAssumption
    DEF ClientInv, Joined, Numbered, FlushIsComplete, Closed, AllThreads
  <2>2. CASE t # Main
    BY <1>0, <1>1, <2>2, NotJoined DEF ClientInv, Joined, Numbered, FlushIsComplete, Closed
  <2> QED BY <2>1, <2>2
<1>7. NeverForgotten' BY <1>0, <1>1 DEF NeverForgotten
<1>8. Busy' = {} /\ Busy = {} BY <1>0, <1>2, <1>3 DEF Busy, InCallback
<1>9. Current' = Current BY <1>8 DEF Current
<1>10. Simulates BY <1>0, <1>6, <1>9, OpenStep
<1> QED BY <1>4, <1>5, <1>6, <1>7, <1>10 DEF ClientInv

-----------------------------------------------------------------------------
(* CScheduler *)

(* What is at each place of a queue put together of two. *)
LEMMA Concatenation ==
  ASSUME NEW T, NEW s \in Seq(T), NEW t \in Seq(T)
  PROVE  /\ s \o t \in Seq(T) /\ Len(s \o t) = Len(s) + Len(t)
         /\ \A i \in 1..(Len(s) + Len(t)) :
              (s \o t)[i] = IF i <= Len(s) THEN s[i] ELSE t[i - Len(s)]
  BY SMTT(30)

(* What happens to ProcessQueue tasks in the queue. *)
LEMMA TaskFacts ==
  ASSUME NEW q \in Seq(Tasks)
  PROVE  /\ \A n \in 0..Len(q) :
              LET r == SubSeq(q, 1, n) \o <<"process">> \o SubSeq(q, n + 1, Len(q))
              IN  r \in Seq(Tasks) /\ "process" \in Range(r)
         /\ Append(q, "periodic") \in Seq(Tasks)
         /\ "process" \in Range(q) => "process" \in Range(Append(q, "periodic"))
         /\ q # <<>> => /\ Head(q) \in Tasks /\ Tail(q) \in Seq(Tasks)
                        /\ "process" \in Range(q) =>
                             Head(q) = "process" \/ "process" \in Range(Tail(q))
<1>1. ASSUME NEW n \in 0..Len(q)
      PROVE  LET r == SubSeq(q, 1, n) \o <<"process">> \o SubSeq(q, n + 1, Len(q))
             IN  r \in Seq(Tasks) /\ "process" \in Range(r)
  <2> DEFINE a == SubSeq(q, 1, n)
             b == SubSeq(q, n + 1, Len(q))
             m == <<"process">>
  <2>1. a \in Seq(Tasks) /\ Len(a) = n BY SMTT(30)
  <2>2. b \in Seq(Tasks) BY SMTT(30)
  <2>3. m \in Seq(Tasks) /\ Len(m) = 1 /\ m[1] = "process" BY SMTT(30) DEF Tasks
  <2>4. SUFFICES a \o m \o b \in Seq(Tasks) /\ "process" \in Range(a \o m \o b)
    BY Zenon
  <2> HIDE DEF a, b, m
  <2>5. a \o m \in Seq(Tasks) /\ Len(a \o m) = n + 1 /\ (a \o m)[n + 1] = "process"
    <3>1. a \o m \in Seq(Tasks) /\ Len(a \o m) = Len(a) + Len(m)
      BY <2>1, <2>3, Concatenation
    <3>2. \A i \in 1..(Len(a) + Len(m)) :
            (a \o m)[i] = IF i <= Len(a) THEN a[i] ELSE m[i - Len(a)]
      BY <2>1, <2>3, Concatenation
    <3>3. n + 1 \in 1..(Len(a) + Len(m)) /\ ~(n + 1 <= Len(a)) /\ (n + 1) - Len(a) = 1
      BY SMTT(30), <2>1, <2>3
    <3>4. (a \o m)[n + 1] = m[1] BY <3>2, <3>3
    <3> QED BY <2>1, <2>3, <3>1, <3>4
  <2>6. /\ a \o m \o b \in Seq(Tasks) /\ n + 1 \in DOMAIN (a \o m \o b)
        /\ (a \o m \o b)[n + 1] = "process"
    BY SMTT(30), <2>2, <2>5
  <2> QED BY <2>6 DEF Range
<1>2. Append(q, "periodic") \in Seq(Tasks) BY SMTT(30) DEF Tasks
<1>3. ASSUME NEW i \in DOMAIN q, q[i] = "process"
      PROVE  "process" \in Range(Append(q, "periodic"))
  <2>1. i \in DOMAIN Append(q, "periodic") /\ Append(q, "periodic")[i] = "process"
    BY SMTT(30), <1>3
  <2> QED BY <2>1 DEF Range
<1>4. ASSUME q # <<>> PROVE Head(q) \in Tasks /\ Tail(q) \in Seq(Tasks) BY SMTT(30), <1>4
<1>5. ASSUME q # <<>>, NEW i \in DOMAIN q, q[i] = "process", Head(q) # "process"
      PROVE  "process" \in Range(Tail(q))
  <2>1. i \in 2..Len(q) BY SMTT(30), <1>5
  <2>2. i - 1 \in DOMAIN Tail(q) /\ Tail(q)[i - 1] = "process" BY SMTT(30), <1>5, <2>1
  <2> QED BY <2>2 DEF Range
<1> QED BY <1>1, <1>2, <1>3, <1>4, <1>5 DEF Range

(* A thread at work that stays outside callbacks, and perhaps wakes one    *)
(* that waits.                                                             *)
LEMMA TaskKeeps ==
  ASSUME ClientInv, NEW t \in AllThreads, pc[t] \notin InCallback \cup {"stopped", "idle"},
         UNCHANGED <<m_callbacks_pending, m_are_callbacks_running, running, issued,
                     stopRequested>>,
         taskQueue' \in Seq(Tasks), pc' \in [AllThreads -> Places], pc'[t] \notin InCallback,
         \A u \in AllThreads \ {t} :
           \/ pc'[u] = pc[u]
           \/ /\ u \in Services /\ pc[u] \in {"wait", "wait_until", "due"}
              /\ pc'[u] \in {"service", "due"},
         t = Main => /\ pc[Main] \in ClientPlaces \cup {"empty"}
                     /\ pc'[Main] \in ClientPlaces \cup {"empty"},
         NeverForgotten'
  PROVE  ClientInv' /\ Simulates
<1>1. Main \in AllThreads BY DEF AllThreads
<1>2. Joined' /\ Numbered' /\ FlushIsComplete' /\ ~Closed /\ ~Closed'
  <2>1. CASE t = Main
    <3>1. Joined
      BY DEF ClientInv
    <3>2. /\ \A s \in Services : pc[s] = "stopped" /\ pc'[s] = pc[s]
          /\ \A p \in Producers : pc[p] = "idle" /\ pc'[p] = pc[p]
      BY <2>1, <3>1, SchedulerAssumption DEF Joined, ClientPlaces, AllThreads
    <3> QED BY <2>1, <3>2 DEF ClientInv, Joined, Numbered, FlushIsComplete, Closed, ClientPlaces
  <2>2. CASE t # Main
    <3>1. pc'[Main] = pc[Main] BY <1>1, <2>2, SchedulerAssumption
    <3>2. pc[Main] \in {"running", "stop", "join"} BY <2>2, NotJoined
    <3> QED BY <3>1, <3>2 DEF ClientInv, Joined, Numbered, FlushIsComplete, Closed
  <2> QED BY <2>1, <2>2
<1>3. \A u \in AllThreads : \/ pc'[u] = pc[u]
                            \/ pc[u] \notin InCallback /\ pc'[u] \notin InCallback
  BY DEF InCallback
<1>4. stopRequested' \in BOOLEAN BY DEF ClientInv, ClientTypes
<1> QED BY <1>2, <1>3, <1>4, OnlyMovesKeep

(* No thread leaves MaybeScheduleProcessQueue or a task, and no task is    *)
(* lost.                                                                   *)
LEMMA StillScheduled ==
  ASSUME NeverForgotten,
         UNCHANGED <<m_callbacks_pending, m_are_callbacks_running, stopRequested>>,
         "process" \in Range(taskQueue) => "process" \in Range(taskQueue'),
         \A u \in AllThreads : pc[u] \in Scheduling => pc'[u] = pc[u]
  PROVE  NeverForgotten'
  BY DEF NeverForgotten, Scheduling

LEMMA ScheduleKeeps ==
  ASSUME ClientInv, NEW t \in AllThreads, Schedule(t) PROVE ClientInv' /\ Simulates
<1>1. /\ pc[t] = "schedule" /\ pc' = [pc EXCEPT ![t] = "notify"]
      /\ UNCHANGED <<m_callbacks_pending, m_are_callbacks_running, stopRequested, running, issued>>
  BY DEF Schedule, Goto, clientVars
<1>2. taskQueue' \in Seq(Tasks) /\ "process" \in Range(taskQueue')
  BY TaskFacts DEF Schedule, Scheduled, ClientInv, ClientTypes
<1>3. NeverForgotten' BY <1>2 DEF NeverForgotten
<1> QED BY <1>1, <1>2, <1>3, TaskKeeps DEF ClientInv, ClientTypes, Places, ClientPlaces, InCallback

LEMMA NotifyKeeps ==
  ASSUME ClientInv, NEW t \in AllThreads, Notify(t) PROVE ClientInv' /\ Simulates
<1> DEFINE p == [pc EXCEPT ![t] = Home(t)]
<1>1. pc[t] = "notify" /\ pc' \in Wake(p) /\ OnlyMoves BY DEF Notify
<1>2. p \in [AllThreads -> Places] /\ p[t] = Home(t) /\ \A u \in AllThreads \ {t} : p[u] = pc[u]
  BY HomeFacts DEF ClientInv, ClientTypes
<1> HIDE DEF p
<1>3. /\ pc' \in [AllThreads -> Places]
      /\ \A u \in AllThreads : \/ pc'[u] = p[u]
                               \/ /\ u \in Services /\ p[u] \in {"wait", "wait_until", "due"}
                                  /\ pc'[u] \in {"service", "due"}
  BY <1>1, <1>2, WakeFacts
<1>4. pc'[t] = Home(t)
  BY <1>2, <1>3 DEF Home
<1>5. NeverForgotten'
  BY <1>1, <1>2, <1>3, StillScheduled DEF ClientInv, OnlyMoves, clientVars, Scheduling
<1> QED BY <1>1, <1>2, <1>3, <1>4, <1>5, HomeFacts, TaskKeeps
    DEF ClientInv, ClientTypes, OnlyMoves, clientVars, ClientPlaces, InCallback

LEMMA ServiceKeeps ==
  ASSUME ClientInv, NEW s \in Services, Service(s) PROVE ClientInv' /\ Simulates
<1>0. s \in AllThreads /\ s # Main BY SchedulerAssumption DEF AllThreads
<1>1. pc[s] = "service" /\ OnlyMoves BY DEF Service
<1>2. /\ pc' \in [AllThreads -> Places] /\ pc'[s] \notin InCallback
      /\ \A u \in AllThreads \ {s} :
           \/ pc'[u] = pc[u]
           \/ /\ u \in Services /\ pc[u] \in {"wait", "wait_until", "due"}
              /\ pc'[u] \in {"service", "due"}
  <2>1. CASE stopRequested
    <3> DEFINE p == [pc EXCEPT ![s] = "stopped"]
    <3>1. pc' \in Wake(p) BY <2>1 DEF Service
    <3>2. p \in [AllThreads -> Places] /\ p[s] = "stopped" /\ \A u \in AllThreads \ {s} : p[u] = pc[u]
      BY <1>0 DEF ClientInv, ClientTypes, Places, ServicePlaces
    <3> HIDE DEF p
    <3>3. /\ pc' \in [AllThreads -> Places]
          /\ \A u \in AllThreads : \/ pc'[u] = p[u]
                                   \/ /\ u \in Services /\ p[u] \in {"wait", "wait_until", "due"}
                                      /\ pc'[u] \in {"service", "due"}
      BY <3>1, <3>2, WakeFacts
    <3> QED BY <1>0, <3>2, <3>3 DEF InCallback
  <2>2. CASE ~stopRequested
    <3>1. PICK x \in {"wait", "due", "wait_until"} : pc' = [pc EXCEPT ![s] = x]
      BY <2>2 DEF Service, Goto
    <3> QED BY <1>0, <3>1 DEF ClientInv, ClientTypes, Places, ServicePlaces, InCallback
  <2> QED BY <2>1, <2>2
<1>3. NeverForgotten'
  BY <1>0, <1>1, <1>2, StillScheduled DEF ClientInv, OnlyMoves, clientVars, Scheduling
<1> QED BY <1>0, <1>1, <1>2, <1>3, TaskKeeps DEF ClientInv, ClientTypes, OnlyMoves, clientVars, InCallback

LEMMA WaitKeeps ==
  ASSUME ClientInv, NEW s \in Services, TimeComes(s) \/ ServiceWakes(s) PROVE ClientInv' /\ Simulates
<1>0. s \in AllThreads /\ s # Main BY SchedulerAssumption DEF AllThreads
<1>1. /\ pc[s] \in {"wait", "wait_until"} /\ OnlyMoves
      /\ \E x \in {"service", "due"} : pc' = [pc EXCEPT ![s] = x]
  BY DEF TimeComes, ServiceWakes, Sleeping, Goto
<1>2. /\ pc' \in [AllThreads -> Places] /\ pc'[s] \in {"service", "due"}
      /\ \A u \in AllThreads \ {s} : pc'[u] = pc[u]
  BY <1>0, <1>1 DEF ClientInv, ClientTypes, Places, ServicePlaces
<1>3. NeverForgotten'
  BY <1>0, <1>1, <1>2, StillScheduled DEF ClientInv, OnlyMoves, clientVars, Scheduling
<1> QED BY <1>0, <1>1, <1>2, <1>3, TaskKeeps DEF ClientInv, ClientTypes, OnlyMoves, clientVars, InCallback

(* A ProcessQueue task that leaves the queue is in the hands of a thread. *)
LEMMA TakeTaskKeeps ==
  ASSUME ClientInv, NEW s \in Services, TakeTask(s) PROVE ClientInv' /\ Simulates
<1>0. s \in AllThreads /\ s # Main BY SchedulerAssumption DEF AllThreads
<1>1. /\ pc[s] = "due"
      /\ UNCHANGED <<m_callbacks_pending, m_are_callbacks_running, stopRequested, running, issued>>
  BY DEF TakeTask, clientVars
<1>2. pc \in [AllThreads -> Places] /\ taskQueue \in Seq(Tasks) /\ NeverForgotten BY DEF ClientInv, ClientTypes
<1>3. PICK x \in {"service", "process", "periodic"} :
        /\ pc' = [pc EXCEPT ![s] = x] /\ taskQueue' \in Seq(Tasks)
        /\ "process" \in Range(taskQueue) => x = "process" \/ "process" \in Range(taskQueue')
  <2>1. CASE stopRequested \/ taskQueue = <<>>
    BY <1>2, <2>1 DEF TakeTask, Goto
  <2>2. CASE ~(stopRequested \/ taskQueue = <<>>)
    <3>1. pc' = [pc EXCEPT ![s] = Head(taskQueue)] /\ taskQueue' = Tail(taskQueue)
      BY <2>2 DEF TakeTask, Goto
    <3>2. /\ Head(taskQueue) \in Tasks /\ Tail(taskQueue) \in Seq(Tasks)
          /\ "process" \in Range(taskQueue) =>
               Head(taskQueue) = "process" \/ "process" \in Range(Tail(taskQueue))
      BY <1>2, <2>2, TaskFacts
    <3> QED BY <3>1, <3>2 DEF Tasks
  <2> QED BY <2>1, <2>2
<1>4. /\ pc' \in [AllThreads -> Places] /\ pc'[s] = x
      /\ \A u \in AllThreads \ {s} : pc'[u] = pc[u]
  BY <1>0, <1>2, <1>3 DEF Places, ServicePlaces, ClientPlaces
<1>5. NeverForgotten'
  <2>1. CASE x = "process" BY <1>0, <1>4, <2>1 DEF NeverForgotten
  <2>2. CASE x # "process"
    BY <1>1, <1>2, <1>3, <1>4, <2>2, StillScheduled DEF Scheduling
  <2> QED BY <2>1, <2>2
<1> QED BY <1>0, <1>1, <1>3, <1>4, <1>5, TaskKeeps DEF InCallback

LEMMA RepeatKeeps ==
  ASSUME ClientInv, NEW s \in Services, Repeat(s) PROVE ClientInv' /\ Simulates
<1>0. s \in AllThreads /\ s # Main BY SchedulerAssumption DEF AllThreads
<1>1. /\ pc[s] = "periodic" /\ pc' = [pc EXCEPT ![s] = "notify"]
      /\ taskQueue' = Append(taskQueue, "periodic")
      /\ UNCHANGED <<m_callbacks_pending, m_are_callbacks_running, stopRequested, running, issued>>
  BY DEF Repeat, Goto, clientVars
<1>2. /\ taskQueue' \in Seq(Tasks)
      /\ "process" \in Range(taskQueue) => "process" \in Range(taskQueue')
  BY <1>1, TaskFacts DEF ClientInv, ClientTypes
<1>3. /\ pc' \in [AllThreads -> Places] /\ pc'[s] = "notify"
      /\ \A u \in AllThreads \ {s} : pc'[u] = pc[u]
  BY <1>0, <1>1 DEF ClientInv, ClientTypes, Places, ClientPlaces
<1>4. NeverForgotten' BY <1>1, <1>2, <1>3, StillScheduled DEF ClientInv, Scheduling
<1> QED BY <1>0, <1>1, <1>2, <1>3, <1>4, TaskKeeps DEF InCallback

-----------------------------------------------------------------------------
(* Shutdown *)

LEMMA StopKeeps == ASSUME ClientInv, Stop \/ StopNotify PROVE ClientInv' /\ Simulates
<1>0. Main \in AllThreads /\ pc \in [AllThreads -> Places] BY DEF AllThreads, ClientInv, ClientTypes
<1>1. /\ UNCHANGED <<m_callbacks_pending, m_are_callbacks_running, running, issued, taskQueue>>
      /\ stopRequested' \in BOOLEAN /\ (stopRequested' = stopRequested \/ stopRequested')
  BY DEF Stop, StopNotify, OnlyMoves, clientVars, ClientInv, ClientTypes
<1>2. /\ pc[Main] \in {"running", "stop"} /\ pc'[Main] \in {"stop", "join"}
      /\ pc' \in [AllThreads -> Places]
      /\ \A u \in AllThreads \ {Main} :
           \/ pc'[u] = pc[u]
           \/ pc[u] \in {"wait", "wait_until"} /\ pc'[u] = "service"
  <2>1. CASE Stop BY <1>0, <2>1 DEF Stop, Goto, Places, MainPlaces
  <2>2. CASE StopNotify
    BY <1>0, <2>2 DEF StopNotify, Sleeping, Places, MainPlaces, ServicePlaces
  <2> QED BY <2>1, <2>2
<1>3. Joined' /\ Numbered' /\ FlushIsComplete' /\ ~Closed /\ ~Closed'
  BY <1>1, <1>2 DEF ClientInv, Joined, Numbered, FlushIsComplete, Closed
<1>4. NeverForgotten'
  <2>1. CASE stopRequested' BY <2>1 DEF NeverForgotten
  <2>2. CASE stopRequested' = stopRequested
    BY <1>1, <1>2, <2>2, StillScheduled DEF ClientInv, Scheduling
  <2> QED BY <1>1, <2>1, <2>2
<1>5. \A u \in AllThreads : \/ pc'[u] = pc[u]
                            \/ pc[u] \notin InCallback /\ pc'[u] \notin InCallback
  BY <1>2 DEF InCallback
<1> QED BY <1>1, <1>2, <1>3, <1>4, <1>5, OnlyMovesKeep DEF ClientInv, ClientTypes

LEMMA JoinKeeps == ASSUME ClientInv, Join PROVE ClientInv' /\ Simulates
<1>0. Main \in AllThreads /\ pc \in [AllThreads -> Places] BY DEF AllThreads, ClientInv, ClientTypes
<1>1. /\ pc[Main] = "join" /\ pc' = [pc EXCEPT ![Main] = "flush"] /\ OnlyMoves
      /\ \A s \in Services : pc[s] = "stopped"
      /\ \A p \in Producers : pc[p] = "idle"
  BY DEF Join, Goto
<1>2. /\ pc' \in [AllThreads -> Places] /\ pc'[Main] = "flush"
      /\ \A u \in AllThreads \ {Main} : pc'[u] = pc[u]
  BY <1>0, <1>1 DEF Places, MainPlaces
<1>3. Joined' BY <1>1, <1>2, SchedulerAssumption DEF Joined, AllThreads
<1>4. Numbered' /\ FlushIsComplete' /\ ~Closed /\ ~Closed'
  BY <1>1, <1>2 DEF ClientInv, Numbered, FlushIsComplete, Closed, OnlyMoves
<1>5. NeverForgotten'
  BY <1>1, <1>2, StillScheduled DEF ClientInv, OnlyMoves, clientVars, Scheduling
<1>6. \A u \in AllThreads : \/ pc'[u] = pc[u]
                            \/ pc[u] \notin InCallback /\ pc'[u] \notin InCallback
  BY <1>1, <1>2 DEF InCallback
<1> QED BY <1>1, <1>2, <1>3, <1>4, <1>5, <1>6, OnlyMovesKeep DEF ClientInv, ClientTypes, OnlyMoves, clientVars

(* EmptyQueue ends when nothing waits; nobody but the main thread could be *)
(* in a callback then.                                                     *)
LEMMA EmptyQueueKeeps == ASSUME ClientInv, EmptyQueue PROVE ClientInv' /\ Simulates
<1>0. Main \in AllThreads /\ pc \in [AllThreads -> Places] BY DEF AllThreads, ClientInv, ClientTypes
<1>1. /\ pc[Main] = "empty" /\ OnlyMoves
      /\ pc' = [pc EXCEPT ![Main] = IF m_callbacks_pending = <<>> THEN "last" ELSE "process"]
  BY DEF EmptyQueue, Goto
<1>2. /\ pc' \in [AllThreads -> Places]
      /\ pc'[Main] = IF m_callbacks_pending = <<>> THEN "last" ELSE "process"
      /\ \A u \in AllThreads \ {Main} : pc'[u] = pc[u]
  BY <1>0, <1>1 DEF Places, MainPlaces, ClientPlaces
<1>3. /\ \A s \in Services : pc[s] = "stopped"
      /\ \A p \in Producers : pc[p] = "idle"
  BY <1>1 DEF ClientInv, Joined
<1>4. ~m_are_callbacks_running
  BY <1>1, <1>3 DEF ClientInv, Locked, InCallback, AllThreads
<1>5. Joined' BY <1>2, <1>3, SchedulerAssumption DEF Joined, AllThreads
<1>6. Numbered' /\ FlushIsComplete'
  <2>1. pc'[Main] \in {"last", "process"} /\ (pc'[Main] = "last" => m_callbacks_pending = <<>>)
    BY <1>2
  <2> QED BY <1>1, <1>4, <2>1 DEF ClientInv, Numbered, FlushIsComplete, OnlyMoves, clientVars
<1>7. NeverForgotten'
  BY <1>1, <1>2, StillScheduled DEF ClientInv, OnlyMoves, clientVars, Scheduling
<1>8. \A u \in AllThreads : \/ pc'[u] = pc[u]
                            \/ pc[u] \notin InCallback /\ pc'[u] \notin InCallback
  BY <1>1, <1>2 DEF InCallback
<1>9. ClientInv' /\ Current' = Current /\ (~Closed /\ ~Closed' => Simulates)
  BY <1>1, <1>2, <1>5, <1>6, <1>7, <1>8, OnlyMovesKeep DEF ClientInv, ClientTypes, OnlyMoves, clientVars
<1>10. ~Closed BY <1>1 DEF Closed
<1>11. CASE m_callbacks_pending # <<>>
  <2>1. ~Closed' BY <1>2, <1>11 DEF Closed
  <2> QED BY <1>9, <1>10, <2>1
<1>12. CASE m_callbacks_pending = <<>>
  <2>1. Closed' BY <1>2, <1>12 DEF Closed
  <2>2. Current = <<>>
    BY <1>1, <1>3 DEF Current, Busy, AllThreads
  <2>3. Serial!Close BY <1>9, <1>10, <1>12, <2>1, <2>2 DEF Serial!Close
  <2> QED BY <1>9, <2>3 DEF Simulates, Serial!Next
<1> QED BY <1>11, <1>12

(* After that the serial queue is closed, and nothing happens to it. *)
LEMMA ClosedKeeps ==
  ASSUME ClientInv, FlushAgain \/ UnregisterBackgroundSignalScheduler PROVE ClientInv' /\ Simulates
<1>0. Main \in AllThreads /\ pc \in [AllThreads -> Places] /\ issued \in Nat /\ MaxAdded \in Nat
  BY SchedulerAssumption DEF AllThreads, ClientInv, ClientTypes
<1>1. /\ pc[Main] \in {"last", "unregister"}
      /\ pc' = [pc EXCEPT ![Main] = IF pc[Main] = "last" THEN "unregister" ELSE "down"]
      /\ UNCHANGED <<m_are_callbacks_running, stopRequested, running>>
  BY DEF FlushAgain, UnregisterBackgroundSignalScheduler, Goto
<1>2. /\ pc' \in [AllThreads -> Places] /\ pc'[Main] \in {"unregister", "down"}
      /\ \A u \in AllThreads \ {Main} : pc'[u] = pc[u]
  BY <1>0, <1>1 DEF Places, MainPlaces
<1>3. /\ \A s \in Services : pc[s] = "stopped"
      /\ \A p \in Producers : pc[p] = "idle"
  BY <1>1 DEF ClientInv, Joined
<1>4. \A u \in AllThreads : pc[u] \notin InCallback /\ pc'[u] \notin InCallback
  BY <1>1, <1>2, <1>3 DEF AllThreads, InCallback
<1>5. ASSUME FlushAgain
      PROVE  /\ m_callbacks_pending' \in Seq(Callbacks) /\ taskQueue' \in Seq(Tasks) /\ issued' \in Nat
             /\ Numbered' /\ NeverForgotten' /\ FlushIsComplete'
  <2>1. /\ pc[Main] = "last" /\ pc'[Main] = "unregister" /\ issued' = issued + 1
        /\ m_callbacks_pending' = Append(m_callbacks_pending, issued + 1)
        /\ taskQueue' \in Scheduled(taskQueue)
    BY <1>0, <1>5 DEF FlushAgain, Goto
  <2>2. issued <= MaxAdded + 1 /\ m_callbacks_pending = <<>> /\ ~m_are_callbacks_running
    BY <2>1 DEF ClientInv, Numbered, FlushIsComplete
  <2>3. m_callbacks_pending' \in Seq(Callbacks) /\ m_callbacks_pending' = <<issued'>> /\ issued' \in Nat
    BY SMTT(30), <1>0, <2>1, <2>2 DEF Callbacks
  <2>4. taskQueue' \in Seq(Tasks) /\ "process" \in Range(taskQueue')
    BY <2>1, TaskFacts DEF Scheduled, ClientInv, ClientTypes
  <2> QED BY <1>1, <2>1, <2>2, <2>3, <2>4 DEF Numbered, NeverForgotten, FlushIsComplete
<1>6. ASSUME UnregisterBackgroundSignalScheduler
      PROVE  /\ m_callbacks_pending' \in Seq(Callbacks) /\ taskQueue' \in Seq(Tasks) /\ issued' \in Nat
             /\ Numbered' /\ NeverForgotten' /\ FlushIsComplete'
  <2>1. /\ pc'[Main] = "down" /\ issued' = issued
        /\ m_callbacks_pending' = <<>> /\ taskQueue' = <<>>
    BY <1>0, <1>6 DEF UnregisterBackgroundSignalScheduler, Goto
  <2>2. <<>> \in Seq(Callbacks) /\ <<>> \in Seq(Tasks) BY SMTT(30)
  <2> QED BY <1>0, <2>1, <2>2 DEF Numbered, NeverForgotten, FlushIsComplete
<1>7. /\ m_callbacks_pending' \in Seq(Callbacks) /\ taskQueue' \in Seq(Tasks) /\ issued' \in Nat
      /\ Numbered' /\ NeverForgotten' /\ FlushIsComplete'
  BY <1>5, <1>6
<1>8. ClientTypes' BY <1>1, <1>2, <1>7 DEF ClientInv, ClientTypes
<1>9. Locked' BY <1>1, <1>4 DEF ClientInv, Locked, InCallback
<1>10. Joined' BY <1>2, <1>3, SchedulerAssumption DEF Joined, AllThreads
<1>11. Current = <<>> /\ Current' = <<>> BY <1>4 DEF Current, Busy, InCallback
<1>12. Closed /\ Closed' BY <1>1, <1>2 DEF Closed
<1>13. Simulates BY <1>11, <1>12 DEF Simulates, Serial!queueVars
<1> QED BY <1>7, <1>8, <1>9, <1>10, <1>13 DEF ClientInv

-----------------------------------------------------------------------------

(* Every step, of whichever thread, keeps the invariant and is a step of   *)
(* the serial queue or leaves it alone.                                    *)
LEMMA ClientStep == ClientInv /\ [SchedulerNext]_schedulerVars => ClientInv' /\ Simulates
<1> SUFFICES ASSUME ClientInv, [SchedulerNext]_schedulerVars PROVE ClientInv' /\ Simulates OBVIOUS
<1>1. ASSUME NEW t \in AllThreads, Run(t) PROVE ClientInv' /\ Simulates
  BY <1>1, MaybeKeeps, ScheduleKeeps, NotifyKeeps, ProcessQueueKeeps, CallbackKeeps,
     FinishKeeps, ServiceKeeps, WaitKeeps, TakeTaskKeeps, RepeatKeeps, StopKeeps, JoinKeeps,
     AddToProcessQueueKeeps, EmptyQueueKeeps, ClosedKeeps DEF Run
<1>2. ASSUME NEW p \in Producers, AddToProcessQueue(p) PROVE ClientInv' /\ Simulates
  BY <1>2, AddToProcessQueueKeeps DEF AllThreads
<1>3. ASSUME NEW s \in Services, ServiceWakes(s) PROVE ClientInv' /\ Simulates
  BY <1>3, WaitKeeps
<1>4. CASE Stop BY <1>4, StopKeeps
<1>5. CASE UNCHANGED schedulerVars
  <2>1. UNCHANGED <<m_callbacks_pending, m_are_callbacks_running, running, issued, pc,
                    taskQueue, stopRequested>>
    BY <1>5 DEF schedulerVars, clientVars
  <2>2. Joined' /\ Numbered' /\ NeverForgotten' /\ FlushIsComplete'
    BY <2>1 DEF ClientInv, Joined, Numbered, NeverForgotten, FlushIsComplete
  <2>3. ClientInv' /\ Current' = Current
    BY <2>1, <2>2, OnlyMovesKeep DEF ClientInv, ClientTypes
  <2>4. UNCHANGED Serial!queueVars BY <2>1, <2>3 DEF Serial!queueVars, Closed
  <2> QED BY <2>3, <2>4 DEF Simulates
<1> QED BY <1>1, <1>2, <1>3, <1>4, <1>5 DEF SchedulerNext

LEMMA ClientInvariance == SchedulerSpec => []ClientInv
<1>1. ClientInv /\ [SchedulerNext]_schedulerVars => ClientInv' BY ClientStep
<1> QED BY <1>1, ClientStart, PTL DEF SchedulerSpec

(* No callback is left behind: while one waits and none runs, a task that  *)
(* will run it is in the scheduler or about to be.                         *)
THEOREM NothingForgotten == SchedulerSpec => []NeverForgotten
<1>1. ClientInv => NeverForgotten BY DEF ClientInv
<1> QED BY <1>1, ClientInvariance, PTL

(* When Shutdown has emptied the queue, nothing waits and nothing runs;    *)
(* the callback of the flush after that is all that is dropped.            *)
THEOREM ShutdownRunsAll == SchedulerSpec => []FlushIsComplete
<1>1. ClientInv => FlushIsComplete BY DEF ClientInv
<1> QED BY <1>1, ClientInvariance, PTL

(* m_are_callbacks_running keeps callbacks apart, however many threads     *)
(* serve the scheduler.                                                    *)
THEOREM Mutex == SchedulerSpec => []OneAtATime
<1>1. ClientInv => OneAtATime BY DEF ClientInv, Locked, OneAtATime, Busy, InCallback
<1> QED BY <1>1, ClientInvariance, PTL

(* The safety half of ImplementsCallbackQueue: callbacks run one at a      *)
(* time, in the order in which they were added, and each of them once, and *)
(* EmptyQueue of Shutdown returns only when none waits or runs.            *)
THEOREM SerialExecution == SchedulerSpec => Serial!Safety
<1>1. ClientInv /\ [SchedulerNext]_schedulerVars => Simulates BY ClientStep
<1>2. SchedulerInit => Serial!Init BY ClientStart
<1> QED BY <1>1, <1>2, ClientInvariance, PTL DEF SchedulerSpec, Serial!Safety, Simulates

=============================================================================

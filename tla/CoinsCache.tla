------------------------------ MODULE CoinsCache ------------------------------
(***************************************************************************)
(* The coin views (coins.cpp): CoinsTip, a CCoinsViewCache over the coins  *)
(* database, and the temporary CCoinsViewCache that ConnectTip and         *)
(* DisconnectTip put on top of it.  cs_main is held throughout, so the     *)
(* operations do not interleave; what can go wrong is the bookkeeping of   *)
(* the DIRTY and FRESH flags over long sequences of them.                  *)
(***************************************************************************)
EXTENDS Integers, FiniteSets

CONSTANTS
  COutPoints,
  Coins,        \* unspent coins that AddCoin keeps
  Unspendable,  \* coins AddCoin drops: unspendable scripts and fee outputs
  SPENT,        \* Coin::IsSpent
  ABSENT,       \* no entry in cacheCoins
  Hashes, NoHash,
  DynamicMemoryUsage   \* of a coin

ASSUME CoinAssumption ==
  /\ SPENT \notin Coins /\ ABSENT \notin Coins /\ SPENT # ABSENT
  /\ Coins \cap Unspendable = {} /\ NoHash \notin Hashes
  /\ IsFiniteSet(COutPoints)
  /\ DynamicMemoryUsage \in [Coins \cup Unspendable \cup {SPENT, ABSENT} -> Nat]
  /\ DynamicMemoryUsage[SPENT] = 0 /\ DynamicMemoryUsage[ABSENT] = 0

VARIABLES
  coinsDb, dbBest,       \* CCoinsViewDB: what is stored, and DB_BEST_BLOCK
  coinsTip, tipBest,     \* CoinsTip: cacheCoins with its flags, and hashBlock
  view, viewBest,   \* the temporary view
  open              \* is there a temporary view?

cacheVars == <<coinsDb, dbBest, coinsTip, tipBest, view, viewBest, open>>

(* A cache: for every outpoint the coin of its entry (ABSENT if there is   *)
(* none), the outpoints with each flag, and cachedCoinsUsage.              *)
Cache(coins, dirty, fresh, usage) ==
  [coins |-> coins, DIRTY |-> dirty, FRESH |-> fresh, cachedCoinsUsage |-> usage]

Empty == Cache([o \in COutPoints |-> ABSENT], {}, {}, 0)

(* What a cache shows its user, given what its base shows. *)
Get(cache, base) ==
  [o \in COutPoints |-> IF cache.coins[o] = ABSENT THEN base[o] ELSE cache.coins[o]]

TipCoins == Get(coinsTip, coinsDb)
ViewCoins == Get(view, TipCoins)

(* GetBestBlock: a null hashBlock is read from the base. *)
Best(own, base) == IF own = NoHash THEN base ELSE own

TipBest == Best(tipBest, dbBest)
ViewBest == Best(viewBest, TipBest)

(* The bytes that the coins of the outpoints in S take, and their number:  *)
(* the sum over S of DynamicMemoryUsage.                                   *)
Memory(coins, S) == UNION {{o} \X (1..DynamicMemoryUsage[coins[o]]) : o \in S}

Usage(coins, S) == Cardinality(Memory(coins, S))

-----------------------------------------------------------------------------
(* CCoinsViewCache *)

(* Mutant: the copy is not counted. *)
FetchCoinUncounted(cache, base, o) ==
  IF cache.coins[o] # ABSENT \/ base[o] = SPENT
  THEN cache
  ELSE Cache([cache.coins EXCEPT ![o] = base[o]], cache.DIRTY, cache.FRESH,
             cache.cachedCoinsUsage)

(* FetchCoin: a miss is filled from the base.  The base's GetCoin is false *)
(* for a spent coin, so the entry is never marked FRESH here.              *)
FetchCoin(cache, base, o) ==
  IF cache.coins[o] # ABSENT \/ base[o] = SPENT
  THEN cache
  ELSE Cache([cache.coins EXCEPT ![o] = base[o]], cache.DIRTY, cache.FRESH,
             cache.cachedCoinsUsage + DynamicMemoryUsage[base[o]])

AddCoin(cache, o, coin, possible_overwrite) ==
  IF coin \in Unspendable THEN cache
  ELSE Cache([cache.coins EXCEPT ![o] = coin],
             cache.DIRTY \cup {o},
             IF ~possible_overwrite /\ o \notin cache.DIRTY
             THEN cache.FRESH \cup {o} ELSE cache.FRESH,
             (cache.cachedCoinsUsage - DynamicMemoryUsage[cache.coins[o]])
               + DynamicMemoryUsage[coin])

Erase(cache, o) ==
  Cache([cache.coins EXCEPT ![o] = ABSENT], cache.DIRTY \ {o}, cache.FRESH \ {o},
        cache.cachedCoinsUsage - DynamicMemoryUsage[cache.coins[o]])

(* SpendCoin, once FetchCoin has been called. *)
SpendCoin(cache, o) ==
  IF cache.coins[o] = ABSENT THEN cache
  ELSE IF o \in cache.FRESH THEN Erase(cache, o)
  ELSE Cache([cache.coins EXCEPT ![o] = SPENT], cache.DIRTY \cup {o}, cache.FRESH,
             cache.cachedCoinsUsage - DynamicMemoryUsage[cache.coins[o]])

(* The entries of child that BatchWrite deletes from the parent because    *)
(* the grandparent has no such coin, and those it does not pass on at all. *)
Deleted(parent, child) ==
  {o \in child.DIRTY : parent.coins[o] # ABSENT /\ o \in parent.FRESH
                       /\ child.coins[o] = SPENT}
Ignored(parent, child) ==
  {o \in child.DIRTY : parent.coins[o] = ABSENT /\ o \in child.FRESH
                       /\ child.coins[o] = SPENT}
WrittenEntries(parent, child) == child.DIRTY \ (Deleted(parent, child) \cup Ignored(parent, child))

(* Mutant: what is FRESH in the child becomes FRESH in any parent entry. *)
PassOnFresh(parent, child) == WrittenEntries(parent, child) \cap child.FRESH

(* "We can mark it FRESH in the parent if it was FRESH in the child", but  *)
(* only when the parent had no entry.                                      *)
MarkedFresh(parent, child) ==
  {o \in WrittenEntries(parent, child) \cap child.FRESH : parent.coins[o] = ABSENT}

(* BatchWrite into a cache. *)
BatchWrite(parent, child) ==
  LET deleted == Deleted(parent, child)
      written == WrittenEntries(parent, child)
  IN  Cache([o \in COutPoints |-> IF o \in deleted THEN ABSENT
                                  ELSE IF o \in written THEN child.coins[o]
                                  ELSE parent.coins[o]],
            (parent.DIRTY \ deleted) \cup written,
            (parent.FRESH \ deleted) \cup MarkedFresh(parent, child),
            (parent.cachedCoinsUsage - Usage(parent.coins, deleted \cup written))
              + Usage(child.coins, written))

(* CCoinsViewDB::BatchWrite *)
DBBatchWrite(child) ==
  [o \in COutPoints |-> IF o \in child.DIRTY THEN child.coins[o] ELSE coinsDb[o]]

(* Sync, after the write: spent entries go, the others lose their flags. *)
Synced(cache) ==
  LET spent == {o \in COutPoints : cache.coins[o] = SPENT}
  IN  Cache([o \in COutPoints |-> IF o \in spent THEN ABSENT ELSE cache.coins[o]],
            {}, {}, cache.cachedCoinsUsage - Usage(cache.coins, spent))

(* Mutant: entries with flags are dropped too. *)
UncacheAny(cache, o) == Erase(cache, o)

Uncache(cache, o) ==
  IF cache.coins[o] # ABSENT /\ o \notin cache.DIRTY \cup cache.FRESH
  THEN Erase(cache, o) ELSE cache

-----------------------------------------------------------------------------
CacheInit ==
  /\ coinsDb = [o \in COutPoints |-> SPENT] /\ dbBest = NoHash
  /\ coinsTip = Empty /\ tipBest = NoHash
  /\ view = Empty /\ viewBest = NoHash /\ open = FALSE

(* A coin is looked up in CoinsTip, for the mempool or an RPC. *)
LookUp(o) ==
  /\ ~open
  /\ coinsTip' = FetchCoin(coinsTip, coinsDb, o)
  /\ UNCHANGED <<coinsDb, dbBest, tipBest, view, viewBest, open>>

(* A transaction was not accepted to the mempool: its coins are dropped. *)
UncacheTip(o) ==
  /\ ~open
  /\ coinsTip' = Uncache(coinsTip, o)
  /\ UNCHANGED <<coinsDb, dbBest, tipBest, view, viewBest, open>>

(* ConnectTip, DisconnectTip: CCoinsViewCache view(&CoinsTip()). *)
BeginView ==
  /\ ~open
  /\ open' = TRUE /\ view' = Empty /\ viewBest' = NoHash
  /\ UNCHANGED <<coinsDb, dbBest, coinsTip, tipBest>>

(* A miss in the view goes through CoinsTip, which keeps a copy. *)
FetchThrough(o) == IF view.coins[o] = ABSENT THEN FetchCoin(coinsTip, coinsDb, o) ELSE coinsTip

(* HaveCoin, GetCoin or AccessCoin on the view. *)
LookUpInView(o) ==
  /\ open
  /\ coinsTip' = FetchThrough(o)
  /\ view' = FetchCoin(view, TipCoins, o)
  /\ UNCHANGED <<coinsDb, dbBest, tipBest, viewBest, open>>

(* AddCoins, ApplyTxInUndo: possible_overwrite is false only where the     *)
(* caller has made sure that there is no such unspent coin (the BIP30      *)
(* check, or HaveCoin).                                                    *)
AddCoinToView(o, coin, possible_overwrite) ==
  /\ open
  /\ ~possible_overwrite => ViewCoins[o] = SPENT
  /\ view' = AddCoin(view, o, coin, possible_overwrite)
  /\ UNCHANGED <<coinsDb, dbBest, coinsTip, tipBest, viewBest, open>>

SpendCoinInView(o) ==
  /\ open
  /\ coinsTip' = FetchThrough(o)
  /\ view' = SpendCoin(FetchCoin(view, TipCoins, o), o)
  /\ UNCHANGED <<coinsDb, dbBest, tipBest, viewBest, open>>

(* The end of ConnectBlock and of DisconnectBlock. *)
SetBestBlock(b) ==
  /\ open /\ viewBest' = b
  /\ UNCHANGED <<coinsDb, dbBest, coinsTip, tipBest, view, open>>

(* view.Flush(), after a block that set the best block. *)
FlushView ==
  /\ open /\ viewBest # NoHash
  /\ coinsTip' = BatchWrite(coinsTip, view) /\ tipBest' = viewBest
  /\ view' = Empty /\ viewBest' = NoHash /\ open' = FALSE
  /\ UNCHANGED <<coinsDb, dbBest>>

(* ConnectBlock failed: the view goes out of scope. *)
DropView ==
  /\ open
  /\ view' = Empty /\ viewBest' = NoHash /\ open' = FALSE
  /\ UNCHANGED <<coinsDb, dbBest, coinsTip, tipBest>>

(* FlushStateToDisk, when it writes the coins: CoinsTip().Flush().         *)
FlushTip ==
  /\ ~open /\ TipBest # NoHash
  /\ coinsDb' = DBBatchWrite(coinsTip) /\ dbBest' = TipBest
  /\ coinsTip' = Empty /\ tipBest' = TipBest
  /\ UNCHANGED <<view, viewBest, open>>

(* CoinsTip().Sync() *)
SyncTip ==
  /\ ~open /\ TipBest # NoHash
  /\ coinsDb' = DBBatchWrite(coinsTip) /\ dbBest' = TipBest
  /\ coinsTip' = Synced(coinsTip) /\ tipBest' = TipBest
  /\ UNCHANGED <<view, viewBest, open>>

(* The process ends, orderly or not, and starts with empty caches. *)
Restart ==
  /\ coinsTip' = Empty /\ tipBest' = NoHash
  /\ view' = Empty /\ viewBest' = NoHash /\ open' = FALSE
  /\ UNCHANGED <<coinsDb, dbBest>>

CacheNext ==
  \/ BeginView \/ FlushView \/ DropView \/ FlushTip \/ SyncTip \/ Restart
  \/ \E o \in COutPoints :
       \/ LookUp(o) \/ UncacheTip(o) \/ LookUpInView(o) \/ SpendCoinInView(o)
       \/ \E c \in Coins \cup Unspendable, possible_overwrite \in BOOLEAN :
            AddCoinToView(o, c, possible_overwrite)
  \/ \E b \in Hashes : SetBestBlock(b)

CacheSpec == CacheInit /\ [][CacheNext]_cacheVars

-----------------------------------------------------------------------------
IsCache(cache) ==
  /\ cache.coins \in [COutPoints -> Coins \cup {SPENT, ABSENT}]
  /\ cache.DIRTY \subseteq COutPoints /\ cache.FRESH \subseteq COutPoints

(* Types: entries and flags of both caches are what coins.h declares; a    *)
(* fee output or an unspendable one is never among the coins (AddCoin).    *)
CacheTypeOK ==
  /\ coinsDb \in [COutPoints -> Coins \cup {SPENT}] /\ dbBest \in Hashes \cup {NoHash}
  /\ IsCache(coinsTip) /\ tipBest \in Hashes \cup {NoHash}
  /\ IsCache(view) /\ viewBest \in Hashes \cup {NoHash}
  /\ open \in BOOLEAN

(* FRESH means "the parent cache does not have this coin or that it is a   *)
(* spent coin in the parent cache"; an entry that is not DIRTY is what the *)
(* parent has; only entries have flags.                                    *)
FlagsCorrect(cache, base) ==
  \A o \in COutPoints :
    /\ o \in cache.FRESH => base[o] = SPENT
    /\ o \notin cache.DIRTY /\ cache.coins[o] # ABSENT => cache.coins[o] = base[o]
    /\ o \in cache.DIRTY \cup cache.FRESH => cache.coins[o] # ABSENT

(* "Marking a coin as FRESH when it exists unspent in the parent cache     *)
(* will cause a consensus failure" and so will a missing DIRTY: both flags *)
(* are right in both caches, whatever adds, spends, flushes, syncs and     *)
(* drops came before.                                                      *)
FlagsAreCorrect ==
  /\ FlagsCorrect(coinsTip, coinsDb) /\ FlagsCorrect(view, TipCoins)
  /\ (~open => view = Empty /\ viewBest = NoHash)

(* SanityCheck, "Only 5 combinations are possible", and one of the five    *)
(* (spent, FRESH, not DIRTY) is not reached: an entry is unspent and not   *)
(* FRESH unless DIRTY, or spent, DIRTY and not FRESH.                      *)
Sane(cache) ==
  \A o \in COutPoints : cache.coins[o] # ABSENT =>
    /\ cache.coins[o] = SPENT => o \in cache.DIRTY \ cache.FRESH
    /\ o \in cache.FRESH => o \in cache.DIRTY

EntriesAreSane == Sane(coinsTip) /\ Sane(view)

(* SanityCheck: cachedCoinsUsage is the memory of the cached coins, which  *)
(* decides when FlushStateToDisk flushes.                                  *)
UsageIsExact ==
  /\ coinsTip.cachedCoinsUsage = Usage(coinsTip.coins, COutPoints)
  /\ view.cachedCoinsUsage = Usage(view.coins, COutPoints)

(* "FRESH flag misapplied to coin that exists in parent cache": BatchWrite *)
(* never throws.                                                           *)
FlushNeverThrows ==
  \A o \in view.DIRTY \cap view.FRESH : coinsTip.coins[o] \in {ABSENT, SPENT}

(* The caches implement a set of unspent outputs: a reader of the view, of *)
(* CoinsTip or of the database after a flush sees exactly what was added   *)
(* and not spent, and a dropped view leaves no trace.                      *)
Abstract ==
  INSTANCE UtxoSet WITH disk <- [coins |-> coinsDb, best |-> dbBest],
                        utxo <- [coins |-> TipCoins, best |-> TipBest],
                        work <- [coins |-> ViewCoins, best |-> ViewBest]

ImplementsUtxoSet == Abstract!Spec
===============================================================================

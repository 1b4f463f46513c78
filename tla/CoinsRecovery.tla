---------------------------- MODULE CoinsRecovery ----------------------------
(***************************************************************************)
(* What survives a crash of the process: FlushStateToDisk writes the block *)
(* index, unlinks pruned files and writes the coins in several batches,    *)
(* each of which is atomic; ReplayBlocks repairs a coins database that was *)
(* left between two batches.  A crash may come between any two writes,     *)
(* also while a replay writes its own batches.                             *)
(*                                                                         *)
(* CoinsCache models the flags of the cache; here CoinsTip is the map it   *)
(* shows, and a DIRTY entry is one that differs from the database.         *)
(***************************************************************************)
EXTENDS BlockTree, Sequences, FiniteSetsExt

CONSTANTS
  Outpoints,
  vtx,                \* the transactions of a block, each with its vin and vout
  MIN_BLOCKS_TO_KEEP,
  MaxUnflushed,       \* blocks the chain may gain between two flushes
  MaxCrashes

(* A coin is known by its nHeight; 0 stands for an output that is not there. *)
NoCoin == 0
CoinMaps == [Outpoints -> Nat]
NoCoins == [o \in Outpoints |-> NoCoin]

ASSUME RecoveryAssumption ==
  /\ vtx \in [Blocks -> Seq([vin : SUBSET Outpoints, vout : SUBSET Outpoints])]
  /\ vtx[Genesis] = <<>>
  /\ MIN_BLOCKS_TO_KEEP \in Nat /\ MaxUnflushed \in Nat /\ MaxCrashes \in Nat

VARIABLES
  phase,         \* "run", the place in FlushStateToDisk or start-up, "down", "failed"
  tip,        \* m_chain.Tip()
  coins,      \* CoinsTip(), or the cache of ReplayBlocks
  index,      \* m_block_index: the blocks, and which of their data the files hold
  unlink,     \* setFilesToPrune
  db,         \* the coins database
  treeDb,     \* the block index database
  files,      \* the block and undo files
  crashes

vars == <<phase, tip, coins, index, unlink, db, treeDb, files, crashes>>

(* BLOCK_HAVE_DATA and BLOCK_HAVE_UNDO of a block, and the data they stand for. *)
Data(b) == <<"data", b>>
Undo(b) == <<"undo", b>>
Items == {"data", "undo"} \X Blocks

Locations == {"run", "index", "unlink", "coins", "replay", "down", "failed"}

(* The variables hold values of their types (CChain, CCoinsMap, CBlockIndex *)
(* flags, DB_BEST_BLOCK and DB_HEAD_BLOCKS).                                *)
TypeOK ==
  /\ phase \in Locations /\ tip \in Blocks \cup {NULL}
  /\ coins \in CoinMaps
  /\ db \in [coins : CoinMaps, best : Blocks \cup {NULL},
             heads : {<<>>} \cup (Blocks \X (Blocks \cup {NULL}))]
  /\ db.best = NULL \/ db.heads = <<>>
  /\ {index, treeDb} \subseteq [blocks : SUBSET Blocks, status : SUBSET Items]
  /\ unlink \subseteq Items /\ files \subseteq Items
  /\ crashes \in 0..MaxCrashes

-----------------------------------------------------------------------------
(* The effect of blocks on a set of coins.  The loops over transactions    *)
(* and over blocks overwrite one coin after the other, so that the last    *)
(* one to touch an outpoint decides.                                       *)

(* The transactions of b that spend or make o. *)
Touching(b, o) ==
  {i \in DOMAIN vtx[b] : o \in vtx[b][i].vin \cup vtx[b][i].vout}

(* SpendCoin of the inputs, AddCoins of the outputs, in the order of the   *)
(* transactions.                                                           *)
After(b, o) ==
  IF o \in vtx[b][Max(Touching(b, o))].vout THEN nHeight[b] ELSE NoCoin

Highest(S) == CHOOSE b \in S : \A a \in S : nHeight[a] <= nHeight[b]
Lowest(S) == CHOOSE b \in S : \A a \in S : nHeight[b] <= nHeight[a]

(* RollforwardBlock of the blocks S of a chain, the lowest one first. *)
RolledForward(S, c) ==
  [o \in Outpoints |->
     LET T == {b \in S : Touching(b, o) # {}}
     IN IF T = {} THEN c[o] ELSE After(Highest(T), o)]

RollforwardBlock(b, c) == RolledForward({b}, c)

(* The unspent outputs after the chain that ends in b. *)
UtxoAt == [b \in Blocks |-> RolledForward(Ancestors[b], NoCoins)]

(* DisconnectBlock undoes the transactions in reverse order.  Of each, the *)
(* outputs are spent first, then ApplyTxInUndo restores the inputs from    *)
(* the undo data, which hold the coins as ConnectBlock found them.  It     *)
(* goes on when an output is missing or an input already there.            *)
Before(b, o) ==
  IF o \in vtx[b][Min(Touching(b, o))].vin THEN UtxoAt[pprev[b]][o] ELSE NoCoin

(* DisconnectBlock of the blocks S of a chain, the highest one first. *)
RolledBack(S, c) ==
  [o \in Outpoints |->
     LET T == {b \in S : Touching(b, o) # {}}
     IN IF T = {} THEN c[o] ELSE Before(Lowest(T), o)]

DisconnectBlock(b, c) == RolledBack({b}, c)

(* The blocks pass ConnectBlock, which refuses one that makes an output    *)
(* that is there already (BIP30; where it does not look, BIP34 makes the   *)
(* transactions of different blocks differ).                               *)
ASSUME ValidBlocks ==
  \A b \in Blocks \ {Genesis} : \A i \in DOMAIN vtx[b] :
     \A o \in vtx[b][i].vout : UtxoAt[pprev[b]][o] = NoCoin

(* Blocks of the chain that ends in b, without those of the chain of a;    *)
(* the path of a null block is empty.                                      *)
Above(b, a) ==
  IF b = NULL THEN {} ELSE Ancestors[b] \ (IF a = NULL THEN {} ELSE Ancestors[a])

(* The two loops of ReplayBlocks.  A null old tip means that nothing has   *)
(* been written before: the genesis block is never rolled forward.         *)

(* Mutant: the old branch is not rolled back. *)
ReplayForwardOnly(old, new, c) == RolledForward(Above(new, old) \ {Genesis}, c)

Replay(old, new, c) ==
  RolledForward(Above(new, old) \ {Genesis}, RolledBack(Above(old, new) \ {Genesis}, c))

(* What the loops read: blocks of both branches, undo data of the old one. *)
ReplayReads(old, new) ==
  {Data(b) : b \in (Above(new, old) \cup Above(old, new)) \ {Genesis}}
    \cup {Undo(b) : b \in Above(old, new) \ {Genesis}}

-----------------------------------------------------------------------------
(* The running node *)

GenesisIndex == [blocks |-> {Genesis}, status |-> {Data(Genesis)}]
NoIndex == [blocks |-> {}, status |-> {}]

(* A first start: LoadGenesisBlock has stored the genesis block. *)
Init ==
  /\ phase = "run" /\ tip = NULL /\ coins = NoCoins
  /\ index = GenesisIndex /\ files = {Data(Genesis)} /\ treeDb = NoIndex
  /\ unlink = {} /\ crashes = 0
  /\ db = [coins |-> NoCoins, best |-> NULL, heads |-> <<>>]

(* AcceptBlock: SaveBlockToDisk and ReceivedBlockTransactions. *)
AcceptBlock(b) ==
  /\ phase = "run" /\ b # Genesis /\ pprev[b] \in index.blocks /\ Data(b) \notin index.status
  /\ index' = [blocks |-> index.blocks \cup {b}, status |-> index.status \cup {Data(b)}]
  /\ files' = files \cup {Data(b)}
  /\ UNCHANGED <<phase, tip, coins, unlink, db, treeDb, crashes>>

(* How far the chain to b has moved on from what the coins database holds. *)
Unflushed(b) == Cardinality(Above(b, db.best))

(* ConnectTip: ConnectBlock writes the undo data unless they are there.    *)
(* For the genesis block it only sets the best block.                      *)
ConnectTip(b) ==
  /\ phase = "run" /\ Data(b) \in index.status /\ Unflushed(b) <= MaxUnflushed
  /\ tip = (IF b = Genesis THEN NULL ELSE pprev[b])
  /\ tip' = b /\ coins' = RollforwardBlock(b, coins)
  /\ LET new == IF b = Genesis THEN {} ELSE {Undo(b)}
     IN /\ index' = [index EXCEPT !.status = @ \cup new]
        /\ files' = files \cup new
  /\ UNCHANGED <<phase, unlink, db, treeDb, crashes>>

(* DisconnectTip needs the block and its undo data. *)
DisconnectTip ==
  /\ phase = "run" /\ tip \notin {NULL, Genesis} /\ {Data(tip), Undo(tip)} \subseteq index.status
  /\ tip' = pprev[tip] /\ coins' = DisconnectBlock(tip, coins)
  /\ UNCHANGED <<phase, index, unlink, db, treeDb, files, crashes>>

-----------------------------------------------------------------------------
(* FlushStateToDisk.  cs_main is held throughout. *)

(* FindFilesToPruneManual (a file holds one block) clears the flags of     *)
(* what is at or below a height and outside the last MIN_BLOCKS_TO_KEEP.   *)
Prunable(height) ==
  {i \in index.status : /\ nHeight[i[2]] <= height
                        /\ nHeight[i[2]] + MIN_BLOCKS_TO_KEEP <= nHeight[tip]}

FlushStateToDisk(S) ==
  /\ phase = "run" /\ tip # NULL
  /\ unlink' = S /\ index' = [index EXCEPT !.status = @ \ S]
  /\ phase' = "index"
  /\ UNCHANGED <<tip, coins, db, treeDb, files, crashes>>

(* A periodic write stops after the index; a full flush, which pruning     *)
(* forces, goes on to the coins.                                           *)
WriteBlockIndexDB ==
  /\ phase = "index" /\ treeDb' = index
  /\ phase' \in (IF unlink = {} THEN {"run", "coins"} ELSE {"unlink"})
  /\ UNCHANGED <<tip, coins, index, unlink, db, files, crashes>>

UnlinkPrunedFiles ==
  /\ phase = "unlink" /\ files' = files \ unlink /\ unlink' = {} /\ phase' = "coins"
  /\ UNCHANGED <<tip, coins, index, db, treeDb, crashes>>

-----------------------------------------------------------------------------
(* CCoinsViewDB::BatchWrite, called by Flush of CoinsTip and of the cache  *)
(* of ReplayBlocks; hashBlock is the tip.                                  *)

Writing == phase \in {"coins", "replay"}
DIRTY == {o \in Outpoints : coins[o] # db.coins[o]}

(* Mutant: an interrupted transition is forgotten when it is replayed. *)
old_tipForgotten == db.best

old_tip == IF db.best = NULL /\ db.heads # <<>> THEN db.heads[2] ELSE db.best

(* assert(old_heads[0] == hashBlock) *)
HeadsMatch == db.best = NULL /\ db.heads # <<>> => db.heads[1] = tip

Written(S) == [o \in Outpoints |-> IF o \in S THEN coins[o] ELSE db.coins[o]]

(* The first batch carries the transition marker with its coins.  Which    *)
(* coins it holds depends on the order of the hash map and on its size.    *)
WritePartialBatch(S) ==
  /\ Writing /\ HeadsMatch /\ S # {}
  /\ db' = [coins |-> Written(S), best |-> NULL, heads |-> <<tip, old_tip>>]
  /\ UNCHANGED <<phase, tip, coins, index, unlink, treeDb, files, crashes>>

WriteFinalBatch ==
  /\ Writing /\ HeadsMatch
  /\ db' = [coins |-> coins, best |-> tip, heads |-> <<>>]
  /\ phase' = "run"
  /\ UNCHANGED <<tip, coins, index, unlink, treeDb, files, crashes>>

-----------------------------------------------------------------------------
(* Crash and start-up *)

Crash ==
  /\ phase \notin {"down", "failed"} /\ crashes < MaxCrashes
  /\ phase' = "down" /\ crashes' = crashes + 1
  /\ tip' = NULL /\ coins' = NoCoins /\ index' = NoIndex /\ unlink' = {}
  /\ UNCHANGED <<db, treeDb, files>>

(* LoadBlockIndex, and LoadGenesisBlock if the index is empty. *)
LoadedIndex == IF Genesis \in treeDb.blocks THEN treeDb ELSE GenesisIndex

(* ReplayBlocks returns false, or LoadChainTip does not find the best block. *)
CannotLoad ==
  IF db.heads = <<>>
  THEN db.best \notin LoadedIndex.blocks \cup {NULL}
  ELSE LET new == db.heads[1]
           old == db.heads[2]
       IN \/ new \notin LoadedIndex.blocks
          \/ old \notin LoadedIndex.blocks \cup {NULL}
          \/ ~(ReplayReads(old, new) \subseteq LoadedIndex.status \cap files)

(* Mutant: a database without a best block is not loaded. *)
LoadChainstateConsistentOnly ==
  /\ phase = "down" /\ db.heads = <<>> /\ index' = LoadedIndex
  /\ files' = files \cup (LoadedIndex.status \ treeDb.status)
  /\ phase' = "run" /\ tip' = db.best /\ coins' = db.coins
  /\ UNCHANGED <<unlink, db, treeDb, crashes>>

LoadChainstate ==
  /\ phase = "down" /\ index' = LoadedIndex
  /\ files' = files \cup (LoadedIndex.status \ treeDb.status)
  /\ \/ CannotLoad /\ phase' = "failed" /\ UNCHANGED <<tip, coins>>
     \/ /\ ~CannotLoad /\ db.heads = <<>>
        /\ phase' = "run" /\ tip' = db.best /\ coins' = db.coins
     \/ /\ ~CannotLoad /\ db.heads # <<>>
        /\ phase' = "replay" /\ tip' = db.heads[1]
        /\ coins' = Replay(db.heads[2], db.heads[1], db.coins)
  /\ UNCHANGED <<unlink, db, treeDb, crashes>>

Next ==
  \/ \E b \in Blocks : AcceptBlock(b) \/ ConnectTip(b)
  \/ DisconnectTip
  \/ \E h \in {nHeight[b] : b \in Blocks} : FlushStateToDisk(Prunable(h))
  \/ FlushStateToDisk({})
  \/ WriteBlockIndexDB \/ UnlinkPrunedFiles
  \/ \E S \in SUBSET DIRTY : WritePartialBatch(S)
  \/ WriteFinalBatch
  \/ Crash \/ LoadChainstate

(* A process that is inside FlushStateToDisk or start-up goes on, and a node *)
(* that went down is started again.                                          *)
Fairness ==
  /\ WF_vars(WriteBlockIndexDB) /\ WF_vars(UnlinkPrunedFiles)
  /\ WF_vars(WriteFinalBatch) /\ WF_vars(LoadChainstate)

Spec == Init /\ [][Next]_vars /\ Fairness

-----------------------------------------------------------------------------
(* Properties *)

(* The coins of a running node are those of its tip, also after any number *)
(* of crashes and replays and while coins are being written: ReplayBlocks  *)
(* makes the set exact from every mixture of old and new coins.            *)
UtxoOfTip == phase \notin {"down", "failed"} /\ tip # NULL => coins = UtxoAt[tip]

(* A crash at this very moment can be recovered from: LoadChainTip and     *)
(* ReplayBlocks know the blocks they are sent to, every block and undo     *)
(* record they would read is indexed and in the files, and the replay ends *)
(* in the coins of the block the interrupted flush was heading for.  The   *)
(* one exception is a record that pruning may take: MIN_BLOCKS_TO_KEEP or  *)
(* more below the new tip, hence none if fewer blocks were connected since *)
(* the last flush.  And nothing but the replay of an interrupted           *)
(* transition writes to its database, or assert(old_heads[0] == hashBlock) *)
(* of BatchWrite would fire.                                               *)
DatabaseRecoverable ==
  /\ Writing => HeadsMatch
  /\ IF db.heads = <<>>
     THEN db.best # NULL => db.best \in treeDb.blocks /\ db.coins = UtxoAt[db.best]
     ELSE LET new == db.heads[1]
              old == db.heads[2]
          IN /\ {new, old} \subseteq treeDb.blocks \cup {NULL}
             /\ Replay(old, new, db.coins) = UtxoAt[new]
             /\ \A i \in ReplayReads(old, new) \ (treeDb.status \cap files) :
                   nHeight[i[2]] + MIN_BLOCKS_TO_KEEP <= nHeight[new]

(* A node that crashed is running again or has refused to start, however   *)
(* often it crashes while it recovers.                                     *)
ComesBackUp == phase = "down" ~> phase \in {"run", "failed"}
-----------------------------------------------------------------------------
(* The inductive invariant behind UtxoOfTip and DatabaseRecoverable *)

(* A first start has no coins. *)
UtxoOf(b) == IF b = NULL THEN NoCoins ELSE UtxoAt[b]

(* What is at or below the height that pruning may take at tip b. *)
OutOfReach(b) == {i \in Items : nHeight[i[2]] + MIN_BLOCKS_TO_KEEP <= nHeight[b]}

NodeRuns == phase \notin {"down", "failed"}

(* The index has the parents of its blocks, and no flag for a block it     *)
(* does not know or for a record the files do not hold.                    *)
IndexSound(i) ==
  /\ ClosedUnderParent(i.blocks)
  /\ i.status \subseteq ({"data", "undo"} \X i.blocks) \cap files

(* While a transition is in the database, every coin is the one of the old *)
(* tip or the one of the new tip.                                          *)
DatabaseInv ==
  IF db.heads = <<>>
  THEN db.best \in treeDb.blocks \cup {NULL} /\ db.coins = UtxoOf(db.best)
  ELSE LET new == db.heads[1]
           old == db.heads[2]
       IN /\ new \in treeDb.blocks /\ old \in treeDb.blocks \cup {NULL}
          /\ \A o \in Outpoints : db.coins[o] \in {UtxoOf(old)[o], UtxoAt[new][o]}
          /\ ReplayReads(old, new) \ (treeDb.status \cap files) \subseteq OutOfReach(new)

(* The running node has on record what a replay from the last flush to its *)
(* tip would read, up to what the flush that is under way prunes.          *)
RunningInv ==
  /\ IndexSound(index) /\ coins = UtxoOf(tip)
  /\ {tip, db.best} \subseteq index.blocks \cup {NULL}
  /\ tip = NULL => phase = "run" /\ db.best = NULL
  /\ phase = "replay" => db.heads # <<>>
  /\ db.heads # <<>> => phase \in {"coins", "replay"} /\ db.heads[1] = tip
  /\ phase \in {"unlink", "coins"} => treeDb = index
  /\ unlink \subseteq OutOfReach(tip) \ index.status
  /\ phase \notin {"index", "unlink"} => unlink = {}
  /\ db.heads = <<>> =>
        LET missing == ReplayReads(db.best, tip) \ index.status
        IN IF phase \in {"run", "index"} THEN missing \subseteq unlink
                                         ELSE missing \subseteq OutOfReach(tip)

IInv ==
  /\ TypeOK /\ IndexSound(treeDb) /\ DatabaseInv
  /\ NodeRuns => RunningInv
  /\ ~NodeRuns => unlink = {}
===============================================================================

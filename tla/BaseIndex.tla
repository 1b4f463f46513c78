------------------------------ MODULE BaseIndex -------------------------------
(***************************************************************************)
(* An index of the chain that is kept beside the node: BaseIndex           *)
(* (index/base.cpp) with CoinStatsIndex (index/coinstatsindex.cpp), whose  *)
(* in-memory state m_muhash has to follow the chain block by block.  The   *)
(* sync thread catches up with the chain; then the validation callbacks    *)
(* take over.  The node reorganises, flushes, shuts down and crashes at    *)
(* any time.  The callbacks arrive in order and one at a time              *)
(* (CallbackQueue).                                                        *)
(*                                                                         *)
(* m_muhash and the index entries are modelled by the block whose UTXO set *)
(* they describe, or Corrupt when a block was applied to another set than  *)
(* its parent's.  Blocks are always readable: pruning is not modelled.     *)
(***************************************************************************)
EXTENDS BlockTree, Sequences

CONSTANTS
  Corrupt,
  MaxTipChanges, MaxStops    \* changes of the chain; shutdowns and crashes

ASSUME IndexAssumption ==
  /\ Corrupt \notin Blocks \cup {NULL}
  /\ MaxTipChanges \in Nat /\ MaxStops \in Nat

VARIABLES
  node,                \* "up", "stopping", "down", "refused" (an Init failed)
  tip, known,          \* the chain's tip and the block index
  disk,                \* what of these two the node has flushed
  pending,             \* callbacks on their way
  m_best_block_index, m_synced, m_muhash,
  db,                  \* the index's database
  syncPc, pindex,      \* ThreadSync
  cbPc, cbBlock,       \* BlockConnected
  reader,              \* a caller of BlockUntilSyncedToCurrentChain
  failed,              \* which assertion or fatal error ended the node last
  changes, stops

chainVars == <<tip, known, disk, changes>>
indexVars == <<m_best_block_index, m_synced, m_muhash, db>>
syncVars == <<syncPc, pindex>>
cbVars == <<cbPc, cbBlock>>
vars == <<node, chainVars, pending, indexVars, syncVars, cbVars, reader, failed, stops>>

BlocksOrNull == Blocks \cup {NULL}
States == BlocksOrNull \cup {Corrupt}
Parent(b) == IF b = Genesis THEN NULL ELSE pprev[b]
Chain(b) == IF b = NULL THEN {} ELSE Ancestors[b]
Heights == {nHeight[b] : b \in Blocks}
Events == [type : {"connected", "flushed"}, block : Blocks] \cup {[type |-> "sync"]}

Databases ==
  [best : BlocksOrNull, muhash : States,
   height : [Heights -> [block : BlocksOrNull, val : States]], hash : [Blocks -> States]]

(* The variables hold values of their types; the blocks of the queued      *)
(* callbacks of CMainSignals are blocks of the tree.                       *)
TypeOK ==
  /\ node \in {"up", "stopping", "down", "refused"}
  /\ tip \in BlocksOrNull /\ known \in SUBSET Blocks
  /\ disk \in [tip : BlocksOrNull, known : SUBSET Blocks]
  /\ pending \in Seq(Events)
  /\ m_best_block_index \in BlocksOrNull /\ m_synced \in BOOLEAN /\ m_muhash \in States
  /\ db \in Databases
  /\ syncPc \in {"off", "loop", "rewind", "write", "append", "done"} /\ pindex \in BlocksOrNull
  /\ cbPc \in {"idle", "rewind", "append", "best"} /\ cbBlock \in BlocksOrNull
  /\ reader \in [pc : {"idle", "wait", "true"}, block : BlocksOrNull]
  /\ failed \in {"", "current_tip", "new_tip", "fatal", "genesis", "null"}
  /\ changes \in 0..MaxTipChanges /\ stops \in 0..MaxStops

NoReader == [pc |-> "idle", block |-> NULL]

(* The index is enabled on a node that has any chain, or none yet. *)
Init ==
  /\ node = "down" /\ failed = "" /\ changes = 0 /\ stops = 0
  /\ \E t \in BlocksOrNull :
       tip = t /\ known = Chain(t) /\ disk = [tip |-> t, known |-> Chain(t)]
  /\ pending = <<>> /\ reader = NoReader
  /\ m_best_block_index = NULL /\ m_synced = FALSE /\ m_muhash = NULL
  /\ db = [best |-> NULL, muhash |-> NULL,
           height |-> [h \in Heights |-> [block |-> NULL, val |-> NULL]],
           hash |-> [b \in Blocks |-> NULL]]
  /\ syncPc = "off" /\ pindex = NULL /\ cbPc = "idle" /\ cbBlock = NULL

-----------------------------------------------------------------------------
(* CoinStatsIndex *)

(* LookUpOne: the value stored for b, NULL if there is none. *)
LookUpOne(d, b) ==
  IF d.height[nHeight[b]].block = b THEN d.height[nHeight[b]].val
  ELSE IF d.height[nHeight[b]].block = NULL THEN NULL ELSE d.hash[b]

(* CustomAppend refuses a block whose parent it does not find. *)
CanAppend(b) ==
  b # Genesis =>
    LET p == db.height[nHeight[b] - 1].block IN
    p # NULL /\ (p # pprev[b] => db.hash[pprev[b]] # NULL)

CustomAppend(b) ==
  LET val == IF m_muhash = Parent(b) THEN b ELSE Corrupt IN
  /\ m_muhash' = val
  /\ db' = [db EXCEPT !.height[nHeight[b]] = [block |-> b, val |-> val]]

(* Mutant: the height of the current tip is left out. *)
CopyHeightIndexToHashIndexShort(d, new, current) ==
  [d EXCEPT !.hash = [b \in Blocks |->
     IF nHeight[b] \in nHeight[new]..(nHeight[current] - 1) /\ d.height[nHeight[b]].block = b
     THEN d.height[nHeight[b]].val ELSE d.hash[b]]]

CopyHeightIndexToHashIndex(d, new, current) ==
  [d EXCEPT !.hash = [b \in Blocks |->
     IF nHeight[b] \in nHeight[new]..nHeight[current] /\ d.height[nHeight[b]].block = b
     THEN d.height[nHeight[b]].val ELSE d.hash[b]]]

(* ReverseBlock, from current down to new. *)
Reversed(current, new) == IF m_muhash = current THEN new ELSE Corrupt

(* Commit, with CustomCommit, when the best block is best. *)
Commit(d, best, muhash) ==
  IF best = NULL THEN d ELSE [d EXCEPT !.best = best, !.muhash = muhash]

-----------------------------------------------------------------------------
(* The node around the index *)

GetAncestor(b, h) ==
  LET A == {a \in Chain(b) : nHeight[a] = h} IN IF A = {} THEN NULL ELSE CHOOSE a \in A : TRUE

Height(b) == IF b = NULL THEN -1 ELSE nHeight[b]

(* FindFork: the last block that two chains have in common. *)
FindFork(s, t) ==
  LET F == Chain(s) \cap Chain(t) IN
  IF F = {} THEN NULL ELSE CHOOSE f \in F : \A a \in F : nHeight[a] <= nHeight[f]

(* The blocks of chain t after its fork from chain s, as callbacks. *)
Connected(s, t) ==
  LET fork == Height(FindFork(s, t)) IN
  [i \in 1..(Height(t) - fork) |->
     [type |-> "connected", block |-> GetAncestor(t, fork + i)]]

(* The sync thread holds cs_main all through Rewind. *)
CsMainFree == syncPc # "rewind"

(* One critical section of ActivateBestChain, or of InvalidateBlock when t *)
(* is on the chain: the chain changes and the callbacks are queued.        *)
ChangeTip(t) ==
  /\ node = "up" /\ CsMainFree /\ changes < MaxTipChanges /\ t # tip
  /\ changes' = changes + 1 /\ tip' = t /\ known' = known \cup Chain(t)
  /\ pending' = pending \o Connected(tip, t)
  /\ UNCHANGED <<node, disk, indexVars, syncVars, cbVars, reader, failed, stops>>

(* FlushStateToDisk: the block index alone, or with the coins. *)
FlushBlockIndex ==
  /\ node = "up" /\ CsMainFree /\ disk.known # known
  /\ disk' = [disk EXCEPT !.known = known]
  /\ UNCHANGED <<node, tip, known, changes, pending, indexVars, syncVars, cbVars, reader,
                 failed, stops>>

FlushStateToDisk ==
  /\ node = "up" /\ CsMainFree /\ tip # NULL /\ disk # [tip |-> tip, known |-> known]
  /\ disk' = [tip |-> tip, known |-> known]
  /\ pending' = Append(pending, [type |-> "flushed", block |-> tip])
  /\ UNCHANGED <<node, tip, known, changes, indexVars, syncVars, cbVars, reader, failed, stops>>

(* The process ends: what is not on disk is gone. *)
Ended(why) ==
  /\ node' = "down" /\ failed' = why
  /\ tip' = disk.tip /\ known' = disk.known
  /\ pending' = <<>> /\ reader' = NoReader
  /\ m_best_block_index' = NULL /\ m_synced' = FALSE /\ m_muhash' = NULL
  /\ syncPc' = "off" /\ pindex' = NULL /\ cbPc' = "idle" /\ cbBlock' = NULL

Crash ==
  /\ node \in {"up", "stopping"} /\ stops < MaxStops /\ stops' = stops + 1
  /\ Ended("") /\ UNCHANGED <<disk, changes, db>>

(* Interrupt and Shutdown, up to its first flush; the second one finds     *)
(* nothing new, and its callback is dropped.                               *)
Shutdown ==
  /\ node = "up" /\ CsMainFree /\ stops < MaxStops /\ stops' = stops + 1
  /\ node' = "stopping"
  /\ IF tip = NULL THEN UNCHANGED <<disk, pending>>
     ELSE /\ disk' = [tip |-> tip, known |-> known]
          /\ pending' = Append(pending, [type |-> "flushed", block |-> tip])
  /\ UNCHANGED <<tip, known, changes, indexVars, syncVars, cbVars, reader, failed>>

(* FlushBackgroundCallbacks is done and the sync thread is joined. *)
Exit ==
  /\ node = "stopping" /\ pending = <<>> /\ cbPc = "idle" /\ syncPc \in {"off", "done"}
  /\ Ended("") /\ UNCHANGED <<disk, changes, db, stops>>

-----------------------------------------------------------------------------
(* BaseIndex *)

(* Mutant: an index on the chain counts as synced. *)
StartOnChain ==
  /\ node = "down"
  /\ IF db.best # NULL /\ (db.best \notin known \/ LookUpOne(db, db.best) # db.muhash)
     THEN node' = "refused" /\ UNCHANGED <<m_best_block_index, m_synced, m_muhash>>
     ELSE /\ node' = "up"
          /\ m_best_block_index' = db.best /\ m_muhash' = db.muhash
          /\ m_synced' = (db.best = tip \/ db.best \in Chain(tip))
  /\ UNCHANGED <<chainVars, pending, db, syncVars, cbVars, reader, failed, stops>>

(* BaseIndex::Init and CoinStatsIndex::CustomInit. *)
Start ==
  /\ node = "down"
  /\ IF db.best # NULL /\ (db.best \notin known \/ LookUpOne(db, db.best) # db.muhash)
     THEN node' = "refused" /\ UNCHANGED <<m_best_block_index, m_synced, m_muhash>>
     ELSE /\ node' = "up"
          /\ m_best_block_index' = db.best /\ m_muhash' = db.muhash
          /\ m_synced' = (db.best = tip)
  /\ UNCHANGED <<chainVars, pending, db, syncVars, cbVars, reader, failed, stops>>

StartBackgroundSync ==
  /\ node = "up" /\ syncPc = "off"
  /\ syncPc' = (IF m_synced THEN "done" ELSE "loop") /\ pindex' = m_best_block_index
  /\ UNCHANGED <<node, chainVars, pending, indexVars, cbVars, reader, failed, stops>>

NextSyncBlock(b) == GetAncestor(tip, Height(FindFork(b, tip)) + 1)

Fail(why) == Ended(why) /\ UNCHANGED <<disk, changes, db, stops>>

(* ThreadSync up to the release of cs_main. *)
SyncInterrupted ==
  /\ syncPc = "loop" /\ node = "stopping"
  /\ m_best_block_index' = pindex /\ db' = Commit(db, pindex, m_muhash) /\ syncPc' = "done"
  /\ UNCHANGED <<node, chainVars, pending, m_synced, m_muhash, pindex, cbVars, reader, failed,
                 stops>>

SyncFinished ==
  /\ syncPc = "loop" /\ node = "up" /\ NextSyncBlock(pindex) = NULL
  /\ m_best_block_index' = pindex /\ m_synced' = TRUE
  /\ db' = Commit(db, pindex, m_muhash) /\ syncPc' = "done"
  /\ UNCHANGED <<node, chainVars, pending, m_muhash, pindex, cbVars, reader, failed, stops>>

SyncNext ==
  LET next == NextSyncBlock(pindex) IN
  /\ syncPc = "loop" /\ node = "up" /\ next # NULL /\ Parent(next) = pindex
  /\ pindex' = next /\ syncPc' = "write"
  /\ UNCHANGED <<node, chainVars, pending, indexVars, cbVars, reader, failed, stops>>

(* The assertions of Rewind; the first one fails when the sync thread has   *)
(* appended blocks since it last set the best block.                       *)
RewindAsserts(current, new) ==
  IF current # m_best_block_index THEN "current_tip"
  ELSE IF new \notin Chain(current) THEN "new_tip" ELSE ""

(* Rewind as far as the batch of hash entries that CustomRewind writes. *)
SyncRewind ==
  LET next == NextSyncBlock(pindex)
      new == Parent(next)
  IN
  /\ syncPc = "loop" /\ node = "up" /\ next # NULL /\ new # pindex
  /\ IF RewindAsserts(pindex, new) # "" THEN Fail(RewindAsserts(pindex, new))
     ELSE /\ db' = CopyHeightIndexToHashIndex(db, new, pindex) /\ syncPc' = "rewind"
          /\ UNCHANGED <<node, chainVars, pending, m_best_block_index, m_synced, m_muhash,
                         pindex, cbVars, reader, failed, stops>>

(* The rest of Rewind: ReverseBlock, SetBestBlockIndex, Commit. *)
SyncRewindCommit ==
  LET next == NextSyncBlock(pindex)
      new == Parent(next)
  IN
  /\ syncPc = "rewind" /\ syncPc' = "write" /\ pindex' = next
  /\ m_muhash' = Reversed(pindex, new) /\ m_best_block_index' = new
  /\ db' = Commit(db, new, m_muhash')
  /\ UNCHANGED <<node, chainVars, pending, m_synced, cbVars, reader, failed, stops>>

(* Mutant: the block about to be appended counts as indexed. *)
SyncWriteAhead ==
  /\ syncPc = "write" /\ syncPc' = "append"
  /\ \/ UNCHANGED indexVars
     \/ /\ m_best_block_index' = pindex
        /\ db' = Commit(db, pindex, m_muhash)
        /\ UNCHANGED <<m_synced, m_muhash>>
  /\ UNCHANGED <<node, chainVars, pending, pindex, cbVars, reader, failed, stops>>

(* Every SYNC_LOCATOR_WRITE_INTERVAL. *)
SyncWrite ==
  /\ syncPc = "write" /\ syncPc' = "append"
  /\ \/ UNCHANGED indexVars
     \/ /\ m_best_block_index' = Parent(pindex)
        /\ db' = Commit(db, Parent(pindex), m_muhash)
        /\ UNCHANGED <<m_synced, m_muhash>>
  /\ UNCHANGED <<node, chainVars, pending, pindex, cbVars, reader, failed, stops>>

SyncAppend ==
  /\ syncPc = "append"
  /\ IF ~CanAppend(pindex) THEN Fail("fatal")
     ELSE /\ CustomAppend(pindex) /\ syncPc' = "loop"
          /\ UNCHANGED <<node, chainVars, pending, m_best_block_index, m_synced, pindex, cbVars,
                         reader, failed, stops>>

-----------------------------------------------------------------------------
(* The callbacks, on the scheduler's thread *)

Running == node \in {"up", "stopping"}
Callback(type) == Running /\ cbPc = "idle" /\ pending # <<>> /\ Head(pending).type = type

(* Mutants: callbacks are not held back until the index is synced; blocks  *)
(* that do not fit are not ignored.                                        *)
IgnoredUnlessFits(b) ==
  m_best_block_index # NULL /\ GetAncestor(m_best_block_index, nHeight[b] - 1) # Parent(b)
IgnoredUnlessSynced(b) == ~m_synced

(* BlockConnected returns at once, or goes on to Rewind or CustomAppend. *)
Ignored(b) ==
  \/ ~m_synced
  \/ m_best_block_index # NULL /\ GetAncestor(m_best_block_index, nHeight[b] - 1) # Parent(b)

(* It fails when the first block ever is not the genesis block; a genesis  *)
(* block connected again would make Rewind read the height of a null       *)
(* pointer.                                                                *)
BlockConnected ==
  LET b == Head(pending).block
      best == m_best_block_index
  IN
  /\ Callback("connected")
  /\ IF ~Ignored(b) /\ (best = NULL) # (b = Genesis)
     THEN Fail(IF best = NULL THEN "fatal" ELSE "genesis")
     ELSE IF ~Ignored(b) /\ best # Parent(b) /\ RewindAsserts(best, Parent(b)) # ""
     THEN Fail(RewindAsserts(best, Parent(b)))
     ELSE /\ pending' = Tail(pending)
          /\ IF Ignored(b) THEN UNCHANGED <<cbVars, db>>
             ELSE /\ cbBlock' = b
                  /\ cbPc' = (IF best = Parent(b) THEN "append" ELSE "rewind")
                  /\ db' = IF best = Parent(b) THEN db
                           ELSE CopyHeightIndexToHashIndex(db, Parent(b), best)
          /\ UNCHANGED <<node, chainVars, m_best_block_index, m_synced, m_muhash, syncVars,
                         reader, failed, stops>>

(* The rest of Rewind: ReverseBlock, SetBestBlockIndex, Commit. *)
BlockConnectedRewind ==
  LET new == Parent(cbBlock) IN
  /\ cbPc = "rewind" /\ cbPc' = "append"
  /\ m_muhash' = Reversed(m_best_block_index, new) /\ m_best_block_index' = new
  /\ db' = Commit(db, new, m_muhash')
  /\ UNCHANGED <<node, chainVars, pending, m_synced, syncVars, cbBlock, reader, failed, stops>>

BlockConnectedAppend ==
  /\ cbPc = "append"
  /\ IF ~CanAppend(cbBlock) THEN Fail("fatal")
     ELSE /\ CustomAppend(cbBlock) /\ cbPc' = "best"
          /\ UNCHANGED <<node, chainVars, pending, m_best_block_index, m_synced, syncVars,
                         cbBlock, reader, failed, stops>>

BlockConnectedBest ==
  /\ cbPc = "best" /\ cbPc' = "idle" /\ cbBlock' = NULL /\ m_best_block_index' = cbBlock
  /\ UNCHANGED <<node, chainVars, pending, m_synced, m_muhash, db, syncVars, reader, failed,
                 stops>>

ChainStateFlushed ==
  LET b == Head(pending).block IN
  /\ Callback("flushed")
  /\ IF m_synced /\ m_best_block_index = NULL THEN Fail("null")
     ELSE /\ pending' = Tail(pending)
          /\ db' = IF m_synced /\ b \in Chain(m_best_block_index)
                   THEN Commit(db, m_best_block_index, m_muhash) ELSE db
          /\ UNCHANGED <<node, chainVars, m_best_block_index, m_synced, m_muhash, syncVars,
                         cbVars, reader, failed, stops>>

-----------------------------------------------------------------------------
(* BlockUntilSyncedToCurrentChain, for a chain with blocks in an index     *)
(* that has some: the caller is told that the tip of this moment is there. *)

BlockUntilSyncedToCurrentChain ==
  /\ node = "up" /\ reader.pc = "idle" /\ m_synced /\ NULL \notin {tip, m_best_block_index}
  /\ IF tip \in Chain(m_best_block_index)
     THEN reader' = [pc |-> "true", block |-> tip] /\ UNCHANGED pending
     ELSE /\ reader' = [pc |-> "wait", block |-> tip]
          /\ pending' = Append(pending, [type |-> "sync"])
  /\ UNCHANGED <<node, chainVars, indexVars, syncVars, cbVars, failed, stops>>

SyncWithValidationInterfaceQueue ==
  /\ Callback("sync") /\ pending' = Tail(pending)
  /\ reader' = [reader EXCEPT !.pc = "true"]
  /\ UNCHANGED <<node, chainVars, indexVars, syncVars, cbVars, failed, stops>>

-----------------------------------------------------------------------------

ThreadSync ==
  \/ SyncInterrupted \/ SyncFinished \/ SyncNext \/ SyncRewind \/ SyncRewindCommit
  \/ SyncWrite \/ SyncAppend

Callbacks ==
  \/ BlockConnected \/ BlockConnectedRewind \/ BlockConnectedAppend
  \/ BlockConnectedBest \/ ChainStateFlushed \/ SyncWithValidationInterfaceQueue

Next ==
  \/ \E t \in Blocks : ChangeTip(t)
  \/ FlushBlockIndex \/ FlushStateToDisk \/ Crash \/ Shutdown \/ Exit
  \/ Start \/ StartBackgroundSync \/ ThreadSync \/ Callbacks
  \/ BlockUntilSyncedToCurrentChain

(* The threads run; the node is started again. *)
Fairness ==
  /\ WF_vars(ThreadSync) /\ WF_vars(Callbacks)
  /\ WF_vars(Start) /\ WF_vars(StartBackgroundSync) /\ WF_vars(Exit)

Spec == Init /\ [][Next]_vars /\ Fairness

-----------------------------------------------------------------------------
(* Properties *)

(* Every value in the index is the one of its block, and so is the state   *)
(* in memory: blocks are appended and reversed in the order of the chain,  *)
(* whoever does it and wherever the process ended before.                  *)
EntriesAreRight ==
  /\ m_muhash # Corrupt
  /\ \A b \in Blocks : LookUpOne(db, b) \in {NULL, b} /\ db.hash[b] \in {NULL, b}

(* DB_MUHASH and DB_BEST_BLOCK describe the same block, and that block is  *)
(* in the index: after any end of the process CustomInit accepts what it   *)
(* finds.                                                                  *)
CommitIsConsistent == db.best # NULL => db.muhash = db.best /\ LookUpOne(db, db.best) = db.best

(* What BlockUntilSyncedToCurrentChain promises: the tip of the call is in *)
(* the index, and stays there across reorganisations.                      *)
SyncedIsServed == reader.pc = "true" => LookUpOne(db, reader.block) = reader.block

(* A callback never finds the index where it cannot go on: Rewind is asked *)
(* for an ancestor, CustomAppend finds the parent, and a flush finds a best *)
(* block.  One assertion of the sync thread's Rewind can fail; and on a    *)
(* node that crashed before it ever flushed a tip, but after Rewind had    *)
(* committed, the genesis block is connected to an index that has it.      *)
CallbacksDoNotFail == failed \in {"", "current_tip", "genesis"}

(* Once the chain is at rest, an index that runs contains all of it. *)
CatchesUp == <>[](node = "up" => tip \in {NULL} \cup Chain(m_best_block_index))

-----------------------------------------------------------------------------
(* The inductive invariant.  At any time one of the sync thread and the    *)
(* callbacks moves the index, and m_muhash is where it stands.             *)

Under(a, b) == a = NULL \/ a \in Chain(b)

(* The height index holds the chain of b. *)
Holds(d, b) == \A a \in Chain(b) : d.height[nHeight[a]].block = a

Sound(d) ==
  /\ \A h \in Heights : /\ d.height[h].val = d.height[h].block
                        /\ d.height[h].block # NULL => nHeight[d.height[h].block] = h
  /\ \A b \in Blocks : d.hash[b] \in {NULL, b}
  /\ d.muhash = d.best /\ Holds(d, d.best)

AtRest ==
  /\ m_best_block_index = NULL /\ ~m_synced /\ m_muhash = NULL
  /\ syncPc = "off" /\ cbPc = "idle" /\ pending = <<>> /\ reader = NoReader

(* Between the two writes of the sync thread's Rewind: what is about to    *)
(* leave the chain is in the hash index.                                   *)
Rewinding ==
  LET next == NextSyncBlock(pindex) IN
  /\ next # NULL /\ Parent(next) \in Chain(pindex)
  /\ \A a \in Chain(pindex) : nHeight[a] >= nHeight[Parent(next)] => db.hash[a] = a

Position ==
  /\ m_muhash \in BlocksOrNull /\ Holds(db, m_muhash) /\ Under(db.best, m_muhash)
  /\ ~m_synced /\ m_muhash = NULL => tip # NULL
  /\ m_synced => syncPc \in {"off", "done"}
  /\ syncPc \in {"loop", "rewind"} => m_muhash = pindex
  /\ syncPc = "rewind" => Rewinding
  /\ syncPc \in {"write", "append"} => pindex # NULL /\ m_muhash = Parent(pindex)
  /\ syncPc \in {"off", "done"} /\ cbPc # "best" => m_muhash = m_best_block_index
  /\ cbPc # "idle" => m_synced /\ cbBlock # NULL
  /\ cbPc = "rewind" =>
       /\ Parent(cbBlock) \in Chain(m_best_block_index)
       /\ \A a \in Chain(m_best_block_index) :
            nHeight[a] >= nHeight[Parent(cbBlock)] => db.hash[a] = a
  /\ cbPc \in {"append", "best"} => m_best_block_index = Parent(cbBlock)
  /\ cbPc = "best" => m_muhash = cbBlock

(* The blocks that are connected by the queue: each on the chain of the    *)
(* one before, the tip on the chain of the last one.                       *)
IsConnected(i) == i \in DOMAIN pending /\ pending[i].type = "connected"
NoneBetween(i, j) == \A k \in DOMAIN pending : i < k /\ k < j => ~IsConnected(k)

Leads(t, n) ==
  \A i \in DOMAIN pending :
    IsConnected(i) /\ i < n /\ NoneBetween(i, n) => t \in Chain(pending[i].block)

Queue ==
  /\ \A i, j \in DOMAIN pending :
       IsConnected(i) /\ IsConnected(j) /\ i < j /\ NoneBetween(i, j) =>
         Parent(pending[j].block) \in Chain(pending[i].block)
  /\ Leads(tip, Len(pending) + 1)

(* Where the callback under way leaves the index, and that the queue from  *)
(* there up to n leads to t.                                               *)
Heading == IF cbPc = "idle" THEN m_best_block_index ELSE cbBlock
Fits(t, n) ==
  \/ Under(t, Heading)
  \/ \E i \in DOMAIN pending :
       IsConnected(i) /\ i < n /\ Under(Parent(pending[i].block), Heading)

Following ==
  /\ Fits(tip, Len(pending) + 1)
  /\ Heading = NULL =>
       \A i \in DOMAIN pending :
         /\ IsConnected(i) /\ NoneBetween(0, i) => pending[i].block = Genesis
         /\ pending[i].type = "flushed" => ~NoneBetween(0, i)

(* A block stays in the index: it is on the chain or in the hash index. *)
Kept(b) ==
  \/ b \in Chain(m_muhash)
  \/ db.hash[b] = b /\ db.height[nHeight[b]].block # NULL

Promised ==
  /\ reader.pc # "idle" => reader.block # NULL
  /\ reader.pc = "idle" => \A i \in DOMAIN pending : pending[i].type # "sync"
  /\ reader.pc = "wait" => m_synced
  /\ reader.pc = "true" => Kept(reader.block)
  /\ reader.pc = "wait" =>
       \A i \in DOMAIN pending :
         pending[i].type = "sync" =>
           Kept(reader.block) \/ (Leads(reader.block, i) /\ Fits(reader.block, i))

IInv ==
  /\ TypeOK /\ Sound(db) /\ CallbacksDoNotFail
  /\ node \in {"down", "refused"} => AtRest
  /\ Running => Position /\ Queue /\ (m_synced => Following) /\ Promised

(* On a node that has a chain. *)
HasChain ==
  /\ tip # NULL /\ disk.tip # NULL /\ failed # "genesis"
  /\ m_synced => m_best_block_index # NULL
  /\ \A i \in DOMAIN pending : IsConnected(i) => pending[i].block # Genesis
===============================================================================

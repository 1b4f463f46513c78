# A TLA+ verification of RCPU Core

RCPU Core is a Bitcoin Core 27 derivative with RandomX and Etchash proof of work,
per-algorithm ASERT difficulty and confidential transactions. This directory holds
TLA+ modules that model its chain state, coin caches, crash recovery, difficulty rules,
proof-of-work caches, script check queue, callback scheduler and chain indexes,
configurations that check them with TLC, and proofs that TLAPS checks. Paths such as
`validation.cpp` are below `src/src/` of the repository. `PROJECT.json` maps every
definition to the lines it models.

## 1. Inventory

| Part | State | Operations | What makes it hard |
|---|---|---|---|
| Chain state (`validation.cpp`) | block index with status flags, active chain, `setBlockIndexCandidates`, `m_failed_blocks`, `m_best_header`, sequence numbers | header and block acceptance, `ActivateBestChain`, `InvalidateBlock`, `ResetBlockFailureFlags`, `PreciousBlock`, start-up | `cs_main` is released in the middle of long operations; blocks come in any order; six functions change the candidate set; some of the state is lost at shutdown |
| Block files (`node/blockstorage.cpp`) | `BLOCK_HAVE_DATA`, `BLOCK_HAVE_UNDO`, `m_blocks_unlinked`, files | store, prune, load the index | data disappears under blocks that are candidates or wait for a parent |
| Coin views (`coins.cpp`, `txdb.cpp`) | database, `CoinsTip`, temporary view, DIRTY and FRESH | look-up, `AddCoin`, `SpendCoin`, `BatchWrite`, `Flush`, `Sync`, `Uncache` | a wrong flag shows only several operations later; a crash between partial batches |
| RandomX caches (`pow.cpp`) | four LRU caches, building threads, `g_isIBDFinished` | `GetVM`, `CreateFastVM`, `StopRandomXThreads` | double-checked locking, a one-time switch, threads that run before they are registered |
| Etchash cache (`pow.cpp`) | one LRU cache | `GetEtchashCache` | `contains` followed by `get` |
| Dual-algorithm count (`pow.cpp`, `chain.h`) | `nSecondAlgoCount` | `ComputeSecondAlgoCount` and its two callers | not stored; rebuilt in height order |
| Difficulty (`pow.cpp`, `arith_uint256.cpp`) | none | ASERT, dual algorithm, minimum-difficulty rule | fixed-point arithmetic in 64, 256 and 512 bits at the edges |
| Flush and recovery (`validation.cpp`, `txdb.cpp`) | `DB_HEAD_BLOCKS`, `DB_BEST_BLOCK` | `FlushStateToDisk`, `ReplayBlocks` | order of writes over three stores |
| Script check queue (`checkqueue.h`) | queue, counters | `Add`, `Loop`, `Wait` | lost wake-ups, early completion |
| Confidential validation (`confidential_validation.cpp`, `blind.cpp`) | none | balance and proof checks | explicit and blinded values mixed |
| Scheduler (`scheduler.cpp`) | task queue, callbacks of a client | enqueue, run, drain, stop | order of callbacks across threads, a callback left behind |
| Indexes (`index/base.cpp`, `index/coinstatsindex.cpp`) | best block, synced flag, running hash, database | sync thread, callbacks, rewind, commit, start | switch from catching up to following; index and node are flushed at different times |
| Requests, orphans, header sync | per-peer maps | announce, expire, receive | timeouts against late answers |
| Mempool and reorganisations | entries, disconnect pool | accept, remove, resurrect | a consistent pool after a reorganisation |

The last two rows and the confidential checks have no module yet. The other parts (message
handling, connections, wallet, RPC, scripts, user interfaces) are listed in
`PROJECT.json` with the reason they are not modelled; see also section 5.

## 2. Modules

| Module | Models |
|---|---|
| `BlockTree` | the tree of all blocks that may ever be seen; `Ancestors` |
| `ChainState` | `Chainstate`, `ChainstateManager` and the flags of `BlockManager` |
| `UtxoSet` | abstract specification: a set of unspent outputs with a working copy and a disk copy |
| `CoinsCache` | database, `CoinsTip` and temporary view; refines `UtxoSet` |
| `LRUCache` | the LRU template of `pow.cpp`: a list of nodes that `get` splices to the front |
| `RandomXCache` | `GetVM`, `CreateFastVM`, `StopRandomXThreads` |
| `EtchashCache` | `GetEtchashCache` |
| `SecondAlgoCount` | `nSecondAlgoCount` and the schedule index computed from it |
| `ArithUint` | `base_uint` and the compact encoding of targets, on sequences of bytes |
| `DualAlgoDifficulty` | `GetNextWorkRequired`, `GetDualAlgoWorkRequired`, `CalculateASERT`; composed with `SecondAlgoCount` |
| `CoinsRecovery` | `FlushStateToDisk`, `CCoinsViewDB::BatchWrite`, `ReplayBlocks`, crashes |
| `CheckQueue` | `CCheckQueue` and `CCheckQueueControl` |
| `CallbackQueue` | abstract specification: callbacks run one at a time, in order, each once |
| `SchedulerClient` | `CScheduler` with a `SingleThreadedSchedulerClient`; refines `CallbackQueue` |
| `BaseIndex` | `BaseIndex` with `CoinStatsIndex` beside a node that moves, flushes and crashes |
| `BlockTreeProofs` | facts about `Ancestors` |
| `ChainStateProofs`, `CandidateProofs` | theorems about `ChainState`; the second has those about the candidate set |
| `ValidationProofs` | theorems about `CheckQueue`, `CoinsCache`, `LRUCache`, `EtchashCache` and `RandomXCache` |
| `PowProofs` | theorems about `SecondAlgoCount`, `ArithUint` and `DualAlgoDifficulty` |
| `ShutdownProofs` | theorems about `CoinsRecovery` and `SchedulerClient` |
| `IndexQueueProofs`, `BaseIndexProofs` | theorems about `BaseIndex`; the first has the lemmas about the queue of callbacks |
| `MC*` | instances for TLC |

### ChainState

The tree, the work of its blocks and the sets of invalid blocks are constants:
`BadContext` fails `ContextualCheckBlock`, `BadConnect` fails `ConnectBlock`. One action is
one critical section of `cs_main`, or one step inside a section where the section is
long: `ABCStepBegin`, `ABCDisconnect`, `ABCConnect` and `ABCConnectInvalid` are the parts of
`ActivateBestChainStep`, and `CsMainFree` is false between them, so nobody else moves
there. `InvalidateBlock` frees `cs_main` after every disconnected block (`InvDisconnect`)
and in `InvFinal` cleans up. `pending` says that some caller is about to call
`ActivateBestChain` (it stored a block, or an RPC does it last); a call may also come at any
other moment.

| Source | Action |
|---|---|
| `AcceptBlockHeader`, `AddToBlockIndex` | `RejectHeader`, `ProcessNewBlockHeaders` |
| `AcceptBlock`, `ReceivedBlockTransactions` | `ProcessNewBlock`, `AcceptBadBlock` |
| `ActivateBestChain`, `FindMostWorkChain` | `ABCBegin`, `ABCLock`, `FindMostWorkChain`, `ABCNothingToDo` |
| `ActivateBestChainStep` | `SuspiciousReorg`, `ABCStepBegin`, `ABCDisconnect`, `ABCCannotDisconnect`, `ABCConnect`, `ABCConnectInvalid`, `ABCSystemError` |
| `InvalidateBlock` | `InvBegin`, `InvDisconnect`, `InvCannotDisconnect`, `InvFinal` |
| `ResetBlockFailureFlags`, `PreciousBlock` | actions of the same names |
| `PruneBlockFilesManual` | action of the same name |
| Shutdown, `LoadBlockIndex`, `LoadChainTip` | `RequestShutdown`, `Restart` |

Abstractions. The address that breaks ties in `CBlockIndexWorkComparator` is a constant, also
over restarts. The multimap `m_blocks_unlinked` is a set: every erasure walks the whole range
of its key, so whether a pair is present is exact. `FindMostWorkChain` can insert a pair a second time, after
pruning; `ReceivedBlockTransactions` then links the block twice in one walk and gives it a later `nSequenceId`, inside
`setBlockIndexCandidates`, which the set does not show. `CandidateKeysStable`, the property this would touch, is not
claimed with pruning anyway. A block file holds one block, and
pruning is manual. A shutdown writes the whole block index. Left out: `m_best_invalid`,
`MinimumChainWork`, mutated blocks, the snapshot chain state, and disk errors after
`view.Flush`. The interrupt that a `blockTip` notification may return behaves like
`m_interrupt`. `InvalidChainFound(vpindexToConnect.front())` changes nothing after
`InvalidBlockFound` has run, and has no action.

### CoinsCache

`cs_main` is held throughout, so the operations do not interleave. A cache is a record of
coins, DIRTY and FRESH sets and `cachedCoinsUsage`, which counts the bytes of the scripts in
it: `Usage` is the number of pairs of an outpoint and a byte of its script. The FRESH branch of `FetchCoin` cannot be
taken, because `GetCoin` of every base is false for a spent coin; hence the fifth of
the five combinations that `SanityCheck` allows (spent, FRESH, not DIRTY) is not
reached and `Ignored` is always empty. `AddCoin` with `possible_overwrite` false is called
only where the BIP30 check or `HaveCoin` has excluded an unspent coin; this is its
guard. `Sync` is an operation of the class that is called from tests only. A write
to the database is one step; `CoinsRecovery` has its parts.

### RandomXCache, EtchashCache, LRUCache

A step is one access to an LRU cache or one critical section of `rx_caches_mutex`; building
an object happens between steps, and an object is known by who built it. `FastIsBuilt`
says that a light VM handed out after the initial download leads to the fast VM of its
epoch, unless a thread of that epoch failed, or one is done and the cache is full of
other epochs. Three facts of the code stand behind the exceptions and beside the
property: a fast VM is not rebuilt after a failed allocation, nor after its
eviction, as long as the light VM is cached; finished threads stay in `g_rx_threads` until
shutdown; the LRU orders of fast VMs and data sets may differ, so that up to twice
`-randomxvmcachesize` data sets are alive.

### SecondAlgoCount

A restart may happen at any step and finds on disk what the last batch wrote. Blocks of
one height are loaded in any order. `CountedBlocks` is the walk of
`GetDualAlgoWorkRequired`, as a set.

### DualAlgoDifficulty, ArithUint

Numbers have their real width: 8 bytes for `int64_t`, 32 for `arith_uint256` and 64 for
`arith_uint512`, and what does not fit is lost as in the code. The instance uses the
constants of `kernel/chainparams.cpp` (300 and 600 seconds, half-life 172800, median of 11, the
real `powLimit`). A number is a function on its byte positions, and the carries of an addition
or a product are defined position by position, so that bounds on them can be proved. The
operators were compared with an independent computation on 889 random samples. `DifficultySpec` gives every header of `SecondAlgoCount` a time and an `nBits`; its steps
are steps of `SecondAlgoCount`, so the theorems about the counts carry over.

Left out: the branches for `int64_t` overflow (not reached with 32-bit times and `int`
heights), the pre-ASERT retarget, `fPowNoRetargeting`, `PermittedDifficultyTransition`,
checkpoints, version checks and the limit on future times. The branch `shifts < -512` is
in the model; no timeline of the instance reaches it.

### CoinsRecovery

One step of `FlushStateToDisk` is one write: the batch of the block index, the unlinking of
pruned files, each partial batch of coins, and the last one; `ReplayBlocks` ends with such
batches too. A stored block is in its file at once. When a flush is due is left open, so it may come at any time. The fault is a crash of the process
between any two writes; what was handed to the operating system survives. A power failure
that loses or reorders such writes is not modelled.

`RollforwardBlock` and `DisconnectBlock` are loops over transactions and outputs, and `ReplayBlocks`
is a loop over blocks. The model states what the loops compute for each output: the last
transaction that touches it decides (`After`), or, going back, the first one (`Before`). This is
the form the proofs need. `MCCoinsRecovery` has the loops themselves (`ConnectTx`, `DisconnectTx`,
`vprevout`, `Ascending`), and its assumption `LoopsAgree`, which TLC evaluates at the start of the
run, says that the two agree on every part of a chain and from every set of coins.
`ValidBlocks` says that no block makes an output that is there already, which `ConnectBlock`
checks (BIP30).

Two facts of the code limit what can be claimed. Pruned files are unlinked before the coins
are written. If more than `MIN_BLOCKS_TO_KEEP` blocks were connected since the last flush, a
crash between partial batches leaves a database that `ReplayBlocks` cannot repair, because
a block it needs is gone. The node then stops with a message, which `ComesBackUp` allows, and
`DatabaseRecoverable` speaks of the other case only. And if the genesis block is pruned before
the first flush, a crash leaves a database without a tip. Write errors are left out; the
code logs a failing `FlushChainstateBlockFile` and goes on.

### CheckQueue

A step is one critical section of `m_mutex`, one notification made outside of it, or the
execution of a batch. Condition variables lose notifications nobody waits for and may wake a
thread without one. Checks are elements of a set, some of which fail. The guard of
`CCheckQueueControl` makes the rounds follow each other.

### SchedulerClient, CallbackQueue

`CallbackQueue` states the comment above `SingleThreadedSchedulerClient`: callbacks run in order, one at a
time, and each added callback is run. `init.cpp` starts one service thread; the model has any
number, since the class does not rely on there being one. The shutdown sequence
(`stop`, join, `FlushBackgroundCallbacks`, which is `EmptyQueue`) and a task that re-schedules itself
(`scheduleEvery`) are part of it. Times are left out: a scheduled task may become due at any
moment.

`Shutdown` flushes once more after that, when the joined service thread can no longer run anything. The flush adds
a callback and schedules `ProcessQueue` (`FlushAgain`); `UnregisterBackgroundSignalScheduler` then drops both. So the
abstract queue is closed when `EmptyQueue` returns (`Close`, which needs it empty and idle), and
`FlushIsComplete` says that this one callback is all that is ever dropped.

### BaseIndex

The node connects and disconnects blocks, flushes, shuts down and crashes; the index follows
through callbacks that arrive in order (`CallbackQueue`). `m_muhash` and the entries are known by
the block whose set of unspent outputs they describe, or are `Corrupt`. `ThreadSync` reads
the next block, writes, rewinds and commits in separate steps. The last check of `ThreadSync` and
its commit are one step because they hold `cs_main`, and `CustomAppend`
is one because it takes `cs_main` before it touches `m_muhash`. The rewind of the sync thread is two steps,
the batch of `CustomRewind` (`SyncRewind`) and the running hash with the commit
(`SyncRewindCommit`): `cs_main` is held over both, so the chain stands still (`CsMainFree`), but a crash may come
between the two writes. The second flush of `Shutdown` finds nothing new and its callback is dropped. Blocks are always
readable; prune locks are left out. `failed` names the fatal error or the assertion that
ended the node. Two of them can happen. One is the assertion in the sync thread's rewind
(`"current_tip"`). The other needs a new node: its index has followed the first blocks and a
rewind has committed, the block index is on disk, but no tip was ever flushed, and the
process crashes. It starts again without a tip, with an index that has the genesis block;
the genesis block is connected a second time, and the callback rewinds to its null
parent (`"genesis"`). `NoGenesisOnChain` shows that a node which has a chain never gets there.

## 3. Runs

All blocks of the trees `Fork`, `Long`, `Wide`, `Heavy` and `Short` (`MCChainState`) may arrive in any
order, header first or with data, requested or not.

| Run | Instance | Checks | States |
|---|---|---|---|
| `chain_network` | Long, B2 fails `ConnectBlock`, one fatal error | `UnlockOnlyWithProgress`, `CandidateKeysStable`, `ABCReturns`, `BlockIsConsidered` | 102 thousand |
| `chain_operator` | Short, A2 fails `ContextualCheckBlock`, two of invalidate, reconsider, precious, shutdown | `CandidatesComplete`, `CandidatesSound`, `FailedHasCause`, `ActiveChainValid`, `TipIsBest` | 343 thousand |
| `chain_stop` | Short, B2 has the most work and fails `ConnectBlock`, depth limit 2, two of shutdown, fatal error, prune, invalidate | `CandidatesComplete`, `UnlinkedBlocks`, `ReorgWithinDepth` | 272 thousand |
| `coins` | 2 outpoints, 2 coins, 1 fee output, 2 blocks | `FlagsAreCorrect`, `UsageIsExact`, `ImplementsUtxoSet` | 92 thousand |
| `recovery` | 6 blocks in 2 branches, 3 outpoints, 2 blocks kept, 3 unflushed, 2 crashes | `UtxoOfTip`, `DatabaseRecoverable`, `ComesBackUp` | 490 thousand |
| `randomx` | 2 callers, 2 epochs, capacity 1, failing allocations, shutdown | `NoThreadOutlivesStop`, `EntriesAreStable`, `FastIsBuilt` | 428 thousand |
| `etchash` | 3 verifiers, 3 epochs, capacity 2 | `GetNeverThrows`, `NeverGeneratedTwice` | 69 thousand |
| `second_algo` | 8 blocks, activation at height 2; 5 timelines, 3 anchor targets, minimum difficulty on and off | `CachedIsWalked`, `BitsAreReproducible`, `TargetsInRange`, `BehindIsEasier`, `HalfLifeDoubles` | 8 thousand |
| `check_queue` | 2 workers, 4 checks, 1 fails, batches of 2, 2 rounds | `TodoIsExact`, `ResultIsRight`, `WaitReturns`, `WorkersStop` | 95 thousand |
| `scheduler` | 2 producers, 2 service threads, 3 callbacks, a repeating task | `NeverForgotten`, `FlushIsComplete`, `ImplementsCallbackQueue` | 83 thousand |
| `index` | 5 blocks in 2 branches, 2 changes of the chain, 1 shutdown or crash | `EntriesAreRight`, `CommitIsConsistent`, `SyncedIsServed`, `CallbacksDoNotFail`, `CatchesUp` | 400 thousand |
| `v_reconsider` | Fork, `reconsiderblock` on any block | `TipIsBest`, which fails | |

Further invariants are defined in the modules and hold on these instances, but are not
in the configurations: the type invariants, `TipIsBest` and the candidate invariants in
`chain_network`, `ActiveChainValid` in `chain_stop`,
`EntriesAreSane`, `FlushNeverThrows`, `ScheduleCountsOwnBlocks`, `KnownWhenLoaded`, `CountersAreExact`, `OneAtATime`
and `MostWorkConnectable`. Those of them that are proved are listed in section 4.

Bounds. Two branches of two blocks make room for a reorganisation in either direction, an
invalid block on top of a branch, and blocks that arrive before their parents; the Long
tree of `chain_network` adds a longer branch with an invalid block in its middle, two blocks
above which a header is refused. `MaxCommands` = 2 lets any two operator commands overlap. The
configurations of the two runs with commands are chosen to finish in minutes. Larger or
other instances were run once, without an error:

| Instance | Properties of | States |
|---|---|---|
| Fork, A2 fails `ContextualCheckBlock`, B3 fails `ConnectBlock` | `chain_operator` | 1.39 million |
| the same, B2 fails `ConnectBlock` | `chain_operator` | 1.42 million |
| Short, B2 fails `ConnectBlock` | `chain_operator` | 623 thousand |
| Fork, B3 fails `ContextualCheckBlock` | `chain_stop` | 1.00 million |
| Fork, B3 fails `ConnectBlock` | `chain_stop` | 2.07 million |
| Short, B2 fails `ConnectBlock`, precious as a fifth command | `chain_stop` | 642 thousand |
| Wide (Long with a sibling C2 of B2) | `chain_network` | 644 thousand |
| Wide without B4, precious as a command | `chain_network` | 593 thousand |

Two outpoints show that operations on one
leave the other alone; one outpoint already has every flag combination. Three epochs on a
capacity of two let one verifier evict what another has just looked up. `MaxThreads` bounds
the threads started in one behaviour: a call starts only when a thread is left for it.
`randomx` was also run with a capacity of two and no failing allocation (78 thousand states).
`recovery` has one block more between flushes than pruning keeps, so that both cases of
`DatabaseRecoverable` occur, and a second crash to hit the replay. Two rounds of `check_queue` let a
worker that is late in the first meet the second. `index` was also run with three changes
of the chain and no crash (898 thousand states), and its inductive invariant with three
changes and two crashes (7.5 million).

`preciousblock` may be among the two commands of `chain_operator`. At a third call on the tip
the candidate set is no longer complete (`MCChainState_v_precious.cfg`); with an invalid
block (`Short`, B2) it may even become empty, where `PruneBlockIndexCandidates` asserts that it
is not. What remains true is that no better block than the tip is known when the node is at
rest, up to ties: `TipHasMostWork` (`MCChainState_precious.cfg`, 727 thousand states). It is
claimed without pruning only; deep pruning together with invalidate and precious breaks it.

`ReconsiderAny` = FALSE restricts `reconsiderblock` to blocks without a failed ancestor;
without the restriction the ancestors' flags are cleared too, and neither `TipIsBest`
(`v_reconsider`) nor `FailedHasCause` holds, since other descendants of these ancestors keep
`BLOCK_FAILED_CHILD`.

`chain_stop` uses a `-suspiciousreorgdepth` that keeps the reorganisations of `ActivateBestChain`
within `MIN_BLOCKS_TO_KEEP`; `invalidateblock` may go deeper and then gives up at a pruned block.
It returns there without the repair of the candidate set that `InvFinal` stands for, and
the node may rest on a worse tip, so `TipIsBest` is not claimed in this run (without
invalidate it holds). `CandidatesComplete` and `UnlinkedBlocks` are claimed in states that are
`Settled`: the tip is one that could be disconnected, which is always so without pruning or
without such a deep disconnection. `UnlinkedBlocks` is about chains nothing in which has failed
(see the table below). The default of the option is 0, no limit. Then
`ActivateBestChain` may also meet a pruned block. `MCChainState_prune_deep.cfg` (206 thousand states)
is that case; the active chain stays valid and the chosen chain connectable, as the
theorems say in general. A pruned block may still be a candidate there; downloaded again
it is renumbered inside the ordered set, so `CandidatesSound` and `CandidateKeysStable` are
claimed without pruning only.

`HalfLifeDoubles` is exact except over a half-life that spans the on-schedule moment: the
exponent is rounded towards zero on both sides, so the target there grows by up to
1/65536 less than twice.

### Disagreements between comments and code

`v_reconsider` checks one statement of the repository and finds a behaviour of the code that
does not keep it; `PROJECT.json` has the quotation. Others that came up, with the file
or the state of the model that shows them:

| Statement | What the code does | Where |
|---|---|---|
| `reconsiderblock` reconsiders ancestors for activation | clears their flags, does not make them candidates | `v_reconsider` |
| a reorganisation of the suspicious depth stops the node | the steps of one critical section add up to more | `MCChainState_v_depth.cfg` |
| every block at least as good as the tip is a candidate | a third `preciousblock` call, on the tip, numbers it worse than before | `MCChainState_v_precious.cfg` |
| `assert(current_tip == m_best_block_index)` (`index/base.cpp:239`) | fails in the sync thread when the chain is reorganised after blocks were appended since the last commit | `BaseIndex`, `failed = "current_tip"` |
| a locator is stored because the block index may be behind (`index/base.h`) | `Init` looks up its first hash only and refuses to start if the node lost that block | `BaseIndex`, `node = "refused"` |
| a block below which nothing is missing "cannot be in m_blocks_unlinked" (`CheckBlockIndex`, `validation.cpp:5436`) | a block stored under a failed parent is not put there (`validation.cpp:3752`), so when the gap below it closes, what waits above it is not linked and stays in the set; after `reconsiderblock` a stored block may be in no set at all | five blocks in a row, stored in the order second, fourth, third, first, the second invalidated before the third comes |
| `BlockConnected` makes sure that "block connects to an ancestor of the current best block" (`index/base.cpp:286`) before it rewinds to its parent | the genesis block passes the test, as it has no parent and the best block no ancestor at height -1, and `Rewind` is called with null | `BaseIndex`, `failed = "genesis"` |
| `gettxoutsetinfo` reports the set at the given block | the number of confidential outputs is that of the current tip (`index/coinstatsindex.cpp:364`) | read in the code, not in the model |

Lesser ones are in the notes of the hazards in `PROJECT.json`: the candidate set while
`InvalidateBlock` runs, the failure flags it leaves on disconnected blocks, blocks
stored under a failed parent, the fallback of `m_best_header`, the null best block of an index
right after a first start (the model has no reader then).

### Fairness

- `ChainState`: weak fairness of a started activation or invalidation (a thread that holds a
  lock runs on), of a waiting `ActivateBestChain` call (the mutex is released by everybody
  who takes it), and of `Restart` (a node asked to stop stops, and is started again).
- `RandomXCache`: weak fairness of every call, every building thread and the join.
- `CoinsRecovery`: a process inside `FlushStateToDisk` goes on, and a node that went down is
  started again. The number of crashes is bounded.
- `CheckQueue`: weak fairness of every thread inside `Loop`, of notifications that are due, and of
  the master's `Wait` and destructor. Nobody has to call `Add`, and no spurious wake-up is
  needed for progress.
- `SchedulerClient`: weak fairness of every thread's next step.
- `BaseIndex`: weak fairness of the sync thread, of the delivery of callbacks
  (`CallbackQueue`'s liveness), of a shutdown that has begun, and of the next start.

The arrival of blocks, commands, failures, crashes, flushes and the end of the initial
download are not fair.

## 4. Proofs

All theorems hold for every tree, work function, set of invalid blocks, set of
outpoints, number of threads and callbacks that meets the named assumptions
(`TreeAssumption`, `WorkAssumption`, `ParameterAssumption`, `CoinAssumption`, `RecoveryAssumption`, `ValidBlocks`,
`RandomXAssumption`, `EtchashAssumption`, `SecondAlgoAssumption`, `DifficultyAssumption`, `CheckQueueAssumption`,
`SchedulerAssumption`, `IndexAssumption`). TLC evaluates them in the runs. `BlockTreeProofs` supplies the
facts about `Ancestors`, among them that a chain has one block at every height. Every
inductive invariant below is defined beside its component and was checked with TLC
before it was proved. Most leaves are first-order steps and are left to Zenon, which the
modules say once (`USE ZenonT(30)`); a leaf that needs arithmetic, or sequences or records
taken apart, names the SMT solver.

### ChainStateProofs, CandidateProofs

- `TypeCorrect`, `ActiveChainIsValid`, `ChosenChainStaysConnectable`, `ReorgIsBounded`. `ActiveChainValid` is not
  inductive: that a block is connected only if nothing below it failed depends on the
  chosen chain. `IInv` adds that the index and the linked blocks are closed under
  parents (`TreeInv`), what the locals mean at each place (`LocalsInv`), that the path to
  `pindexMostWork` is linked, stored and not failed, also while `cs_main` is free
  (`MostWorkConnectable`), and that a step keeps what the old and the new tip share (`ForkKept`),
  from which the bound on its length follows.
- `FailuresHaveCauses` adds `FailedHasCause` to it. It holds if `ReconsiderAny` = FALSE, or if there is no
  reconsider command; otherwise `v_reconsider` applies.
- `KeysAreStable` (no block is renumbered inside the ordered set), without pruning. `DataInv`
  says that what was received stays; a candidate has its data, so it cannot be received
  anew.
- `UnlinkedIsExact`, without pruning and `reconsiderblock`. `LinkInv` says that a stored block on a
  chain without failures waits in `m_blocks_unlinked` or is linked, and is linked once nothing
  below it is missing. The lemma behind it is about the queue of
  `ReceivedBlockTransactions`: it links everything that the new block was missing to, and
  leaves no one behind.
- `CandInvariance`, `SetIsSound`, `SetIsComplete`, `BestTipAtRest` and `ProgressBeforeUnlock`, under
  `OrdinaryCommands`: no pruning, no `preciousblock`, and `reconsiderblock` only on blocks without a
  failed ancestor. These are the cases in which section 3 shows the properties to fail or
  to be weaker, so the hypothesis is not for convenience. `CandidatesComplete` speaks of
  states in which `cs_main` is free, and the set is out of date in between. The invariant
  therefore says where it is complete: an *anchor* is a candidate that cannot turn out
  invalid and above which no usable block is missing from the set. `AnchorInv`: there
  always is one, or `InvalidateBlock` is in its loop and has put the new tip in. `AnchoredAt`: it is
  the tip when `cs_main` is free; while `ActivateBestChain` is away from the tip it started from, that
  tip is the anchor, until the chosen chain has overtaken it. `BestInv`: with nothing pending, no
  candidate is better than the tip or than the chosen chain. That a set with an
  anchor survives `PruneBlockIndexCandidates` and the erasures of `FindMostWorkChain` is what makes
  the step proofs go through; `UnlockOnlyWithProgress` follows from the same facts.

### ValidationProofs

- `TodoExact` and `WaitIsRight`. That `Wait` gives the right answer at the end depends on all that
  happened to a check before. The invariant says that `nTodo` counts the checks in the
  queue and in the hands of threads, each in one place (`Counting`, `InHand`), that a
  thread which ran a failing check knows it (`Executed`), that a failing check is outstanding or
  recorded in `fAllOk` (`Recorded`), that `fAllOk` is false only if some check fails
  (`NoFalseAlarm`), and that the destructor comes last (`StopIsLast`).
- `TypeCorrect`, `FlagsStayCorrect`, `EntriesStaySane`, `NoMisappliedFresh`, and `Refinement`: `CacheSpec` implements
  `UtxoSet` when `utxo` is what `CoinsTip` shows and `work` what the view shows. Every step preserves
  the invariant and simulates an abstract step or a stutter.
- `UsageStaysExact`: `cachedCoinsUsage` after any sequence of operations. An operation on one outpoint
  changes the memory of this outpoint only, and the memory of different outpoints is
  disjoint.
- The lemmas about `LRUCache` say what `get` and `insert` leave behind: a list without two nodes of
  one key and not longer than the capacity, in which a key keeps its value until it is
  evicted.
- `EntryStaysUntilGet` and `GeneratedOnce` (`EtchashCache`). What a verifier found stays while it
  holds the mutex, so `get` never throws; and an epoch that is in the cache is not generated
  again, for any number of verifiers and any capacity. `EtchashInv` says that at most one
  verifier is inside the section, and what it knows of the cache at each line.
- `FirstBuiltStays` (`RandomXCache`): none of the four caches ever gets a second object for a key it
  has. `CachesInv` says that the caches are in order and that whoever looks for a VM or builds one
  has an epoch; the rest follows from the lemmas, as an insertion leaves a present key alone.
- `ThreadsStop`: a running RandomX thread is in the vector, being joined, or in the hands of its
  starter, and after the swap there is no starter (`RandomXInv`).

### ShutdownProofs

- `CoinsOfTip` and `AlwaysRecoverable`. The heart is `ReplayIsExact`: from every mixture of the coins of the
  old and of the new tip, rolling the blocks of the old branch back and those of the
  new branch forward gives the coins of the new tip, output by output, because the last
  block that touches an output decides. The invariant says that between partial batches
  the database is such a mixture (`DatabaseInv`), and that what a replay from the last
  flush would read is on record, up to what the current flush prunes (`RunningInv`).
  Crashes may come between any two writes and in any number.
- `NothingForgotten`, `ShutdownRunsAll`, `Mutex` and `SerialExecution`, the safety half of the refinement of
  `CallbackQueue`. The invariant adds to the types that `m_are_callbacks_running` is held by the one
  thread inside `ProcessQueue` (`Locked`), that only the main thread is left after the join
  (`Joined`), and a bound on the number of callbacks for each place of
  the main thread (`Numbered`). Until `EmptyQueue` returns the mapping is the plain queue
  (`OpenStep`); from then on the abstract queue is closed and stutters (`ClosedKeeps`).

### PowProofs

- `CountIsTheWalk`, `CountsAreKnown`, `SchedulesAreIndependent`: the cached count of second-algorithm blocks.
- `BitsReproducible`: the formula gives the `nBits` a header was accepted with whenever it is
  evaluated again, since it depends on the count only through `CountIsTheWalk`.
- `TargetsStayInRange`: for every timeline, anchor, spacing and half-life, no header is asked for a
  target that is zero, above `powLimit` or out of 256 bits. `RangeInv` adds that every `nBits` is a
  compact number without sign (`Compacts`). The lemmas are about the byte arithmetic:
  additions and shifts stay within bytes, `GetCompact` of a number yields a member of
  `Compacts` that decodes to no more than the number and to zero only if it was zero, and
  decoding fits in 256 bits. `DifficultyAssumption` asks that `powLimit` itself is given in
  this form and is not zero, which `kernel/chainparams.cpp` satisfies.

### IndexQueueProofs, BaseIndexProofs

- `EntriesRight`, `CommitConsistent`, `SyncedServed`, `NoCallbackFails`, for every tree and any number of
  reorganisations, flushes, shutdowns and crashes. At any time either the sync thread or the
  callbacks move the index. The invariant says where it stands: the running hash belongs
  to the block of the thread's place in its loop, between the two writes of a rewind too (`Position`), the queued callbacks lead from
  the block of the index to the tip one block at a time, or are such that they will be ignored
  (`Queue`, `Following`), and a caller that was promised a block will find it, by height or by
  hash, after every rewind (`Promised`).
- `NoGenesisOnChain`: if the node has a chain when it first starts, the callbacks never fail.

### Only model-checked

- The liveness properties, the liveness half of `ImplementsCallbackQueue` included: fairness and
  ENABLED are out of the prover's reach.
- `BehindIsEasier` and `HalfLifeDoubles`: they compare values of byte sequences, and the value of
  a sequence is a sum over its length, about which nothing can be shown without
  induction over data.
- `CandidatesComplete` with pruning and `TipHasMostWork` with `preciousblock`: the first is true only
  in `Settled` states, the second only without pruning, and the anchor of the proof does
  not survive renumbered candidates or an `InvalidateBlock` that gives up.

## 5. Not modelled

- Transaction requests, orphans, header synchronisation, version bits and the pool of
  disconnected transactions have state and can be modelled; they are in the plan.
- Message handling, connections, the mempool's ancestor bookkeeping and the wallet are large
  components with policy of their own. They meet the modelled part only through calls
  that are actions here.
- Hash functions, confidential proofs and scripts are sequential computations on bytes
  without interleavings, and out of TLC's reach.
- Power failures, full disks and unreadable files; automatic pruning's choice of files;
  assumeutxo snapshots.
- The larger part of the repository by lines is `qt/locale/*.ts`, the translations of
  the graphical interface. They are data without behaviour, and no definition refers to them.

## 6. Plan

1. `TxRequest` against the abstract tracker of its fuzz test; then `TxOrphanage` and `HeadersSync`.
2. `DisconnectedTransactions`, automatic pruning and block files, `VersionBits`, the control
   of the confidential balance check.
3. Prune locks and unreadable blocks in `BaseIndex`; `ChainState`'s tip changes as its node.
4. Proofs: the candidate set with pruning but without `invalidateblock`; `TipHasMostWork` with
   `preciousblock`.

## 7. How to run

    tlc -config MCChainState_network.cfg MCChainState
    tlapm ChainStateProofs.tla

The configurations `MCChainState_precious`, `_prune_deep`, `_v_depth` and `_v_precious` are not among
the runs of `PROJECT.json`; the text above says what they show.

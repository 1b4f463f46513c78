----------------------------- MODULE RandomXCache -----------------------------
(***************************************************************************)
(* The caches of RandomX virtual machines (pow.cpp: GetVM, CreateFastVM,   *)
(* StopRandomXThreads).  Callers are the threads that verify or compute a  *)
(* hash: message handling, block loading, the mining RPCs.  A caller that  *)
(* finds no VM for its epoch builds a light one; once the initial block    *)
(* download is over it also starts a thread that builds the 2 GB data set  *)
(* and a fast VM.                                                          *)
(*                                                                         *)
(* Each step is one access to a cache, or one critical section of          *)
(* rx_caches_mutex: a section looks a key up and inserts it if it is       *)
(* missing, and nothing but such sections and clear() changes the keys.    *)
(* A built object is known by the thread that built it.                    *)
(***************************************************************************)
EXTENDS LRUCache, FiniteSets

CONSTANTS Callers,            \* threads that call GetVM
          RandomXEpochs,      \* values of GetEpoch
          CacheSize,          \* -randomxvmcachesize
          FastMode,           \* -randomxfastmode
          MayFail,            \* allocations may fail
          MaxThreads,         \* bound: threads started in a behaviour
          Nothing

VMThreads == 1..MaxThreads

(* Places in GetVM and in CreateFastVM. *)
CallerLabels ==
  {"idle", "fast", "light", "cache", "init", "create", "spawn", "register", "hash"}
ThreadLabels == {"new", "dataset", "init", "vm", "done", "failed"}
Ended == {"done", "failed"}

ASSUME RandomXAssumption ==
  /\ CacheSize \in Nat \ {0} /\ FastMode \in BOOLEAN /\ MayFail \in BOOLEAN
  /\ Nothing \notin RandomXEpochs

VARIABLES
  g_isIBDFinished, allowed,                       \* allowed: allowFlag has been used
  cache_rx_cache, cache_rx_vm_light, cache_rx_vm_fast, cache_rx_dataset,
  caller, nEpoch, started,                        \* a caller in GetVM
  thread, threadEpoch,                            \* a thread in CreateFastVM
  g_rx_threads, joining,                          \* threads to join, being joined
  shutdown                                        \* "no", "joining", "stopped"

caches == <<cache_rx_cache, cache_rx_vm_light, cache_rx_vm_fast, cache_rx_dataset>>
callers == <<caller, nEpoch, started>>
threads == <<thread, threadEpoch>>
stop == <<g_rx_threads, joining, shutdown>>
randomxVars == <<g_isIBDFinished, allowed, caches, callers, threads, stop>>

RandomXInit ==
  /\ g_isIBDFinished = FALSE /\ allowed = FALSE
  /\ cache_rx_cache = <<>> /\ cache_rx_vm_light = <<>>
  /\ cache_rx_vm_fast = <<>> /\ cache_rx_dataset = <<>>
  /\ caller = [c \in Callers |-> "idle"] /\ nEpoch = [c \in Callers |-> Nothing]
  /\ thread = [t \in VMThreads |-> "new"] /\ threadEpoch = [t \in VMThreads |-> Nothing]
  /\ started = [c \in Callers |-> Nothing]
  /\ g_rx_threads = {} /\ joining = {} /\ shutdown = "no"

CallerGoes(c, label) == caller' = [caller EXCEPT ![c] = label]

(* Mutant: what was built meanwhile is replaced. *)
TryInsertAlways(cache, key, val) == insert(cache, CacheSize, key, val)

(* A critical section: keep the entry that is there, or insert. *)
TryInsert(cache, key, val) ==
  IF contains(cache, key) THEN Touched(cache, key)
  ELSE insert(cache, CacheSize, key, val)

-----------------------------------------------------------------------------
(* IsInitialBlockDownload latches. *)
FinishIBD ==
  /\ ~g_isIBDFinished /\ g_isIBDFinished' = TRUE
  /\ UNCHANGED <<allowed, caches, callers, threads, stop>>

(* VMThreads never started, but for those the running calls may start. *)
ThreadLeft ==
  Cardinality({t \in VMThreads : thread[t] = "new"}) >
    Cardinality({c \in Callers : caller[c] \notin {"idle", "hash", "register"}})

(* Mutant: the light VMs are kept. *)
CallOnlyFlag(c, e) ==
  /\ shutdown = "no" /\ caller[c] = "idle" /\ ThreadLeft
  /\ nEpoch' = [nEpoch EXCEPT ![c] = e] /\ CallerGoes(c, "fast")
  /\ allowed' = (allowed \/ g_isIBDFinished)
  /\ UNCHANGED <<g_isIBDFinished, caches, started, threads, stop>>

(* GetVM is called.  The first call after the initial block download       *)
(* forgets the light VMs, so that each is built again together with a fast *)
(* one.                                                                    *)
CallGetVM(c, e) ==
  /\ shutdown = "no" /\ caller[c] = "idle" /\ ThreadLeft
  /\ nEpoch' = [nEpoch EXCEPT ![c] = e] /\ CallerGoes(c, "fast")
  /\ allowed' = (allowed \/ g_isIBDFinished)
  /\ cache_rx_vm_light' = IF g_isIBDFinished /\ ~allowed /\ FastMode THEN <<>>
                          ELSE cache_rx_vm_light
  /\ UNCHANGED <<g_isIBDFinished, cache_rx_cache, cache_rx_vm_fast, cache_rx_dataset,
                 started, threads, stop>>

(* The two lookups are two steps. *)
LookUpFast(c) ==
  /\ caller[c] = "fast"
  /\ cache_rx_vm_fast' = Touched(cache_rx_vm_fast, nEpoch[c])
  /\ CallerGoes(c, IF contains(cache_rx_vm_fast, nEpoch[c]) THEN "hash" ELSE "light")
  /\ UNCHANGED <<g_isIBDFinished, allowed, cache_rx_cache, cache_rx_vm_light,
                 cache_rx_dataset, nEpoch, started, threads, stop>>

LookUpLight(c) ==
  /\ caller[c] = "light"
  /\ cache_rx_vm_light' = Touched(cache_rx_vm_light, nEpoch[c])
  /\ CallerGoes(c, IF contains(cache_rx_vm_light, nEpoch[c]) THEN "hash" ELSE "cache")
  /\ UNCHANGED <<g_isIBDFinished, allowed, cache_rx_cache, cache_rx_vm_fast,
                 cache_rx_dataset, nEpoch, started, threads, stop>>

LookUpCache(c) ==
  /\ caller[c] = "cache"
  /\ cache_rx_cache' = Touched(cache_rx_cache, nEpoch[c])
  /\ CallerGoes(c, IF contains(cache_rx_cache, nEpoch[c]) THEN "create" ELSE "init")
  /\ UNCHANGED <<g_isIBDFinished, allowed, cache_rx_vm_light, cache_rx_vm_fast,
                 cache_rx_dataset, nEpoch, started, threads, stop>>

(* randomx_alloc_cache or randomx_create_vm failed: nullopt. *)
AllocFailed(c) ==
  /\ MayFail /\ caller[c] \in {"init", "create"}
  /\ CallerGoes(c, "idle") /\ nEpoch' = [nEpoch EXCEPT ![c] = Nothing]
  /\ UNCHANGED <<g_isIBDFinished, allowed, caches, started, threads, stop>>

(* randomx_init_cache is over. *)
InsertCache(c) ==
  /\ caller[c] = "init"
  /\ cache_rx_cache' = TryInsert(cache_rx_cache, nEpoch[c], c)
  /\ CallerGoes(c, "create")
  /\ UNCHANGED <<g_isIBDFinished, allowed, cache_rx_vm_light, cache_rx_vm_fast,
                 cache_rx_dataset, nEpoch, started, threads, stop>>

(* randomx_create_vm is over.  Who finds a light VM of another caller      *)
(* leaves the fast one to that caller.                                     *)
InsertLight(c) ==
  /\ caller[c] = "create"
  /\ cache_rx_vm_light' = TryInsert(cache_rx_vm_light, nEpoch[c], c)
  /\ CallerGoes(c, IF contains(cache_rx_vm_light, nEpoch[c]) THEN "hash" ELSE "spawn")
  /\ UNCHANGED <<g_isIBDFinished, allowed, cache_rx_cache, cache_rx_vm_fast,
                 cache_rx_dataset, nEpoch, started, threads, stop>>

(* std::thread t(CreateFastVM, ...) *)
StartThread(c, t) ==
  /\ caller[c] = "spawn" /\ g_isIBDFinished /\ FastMode
  /\ thread[t] = "new" /\ \A u \in 1..(t-1) : thread[u] # "new"
  /\ thread' = [thread EXCEPT ![t] = "dataset"]
  /\ threadEpoch' = [threadEpoch EXCEPT ![t] = nEpoch[c]]
  /\ started' = [started EXCEPT ![c] = t] /\ CallerGoes(c, "register")
  /\ UNCHANGED <<g_isIBDFinished, allowed, caches, nEpoch, stop>>

NoThread(c) ==
  /\ caller[c] = "spawn" /\ ~(g_isIBDFinished /\ FastMode)
  /\ CallerGoes(c, "hash")
  /\ UNCHANGED <<g_isIBDFinished, allowed, caches, nEpoch, started, threads, stop>>

(* LOCK(g_rx_threads_mutex); push_back *)
Register(c) ==
  /\ caller[c] = "register"
  /\ g_rx_threads' = g_rx_threads \cup {started[c]}
  /\ started' = [started EXCEPT ![c] = Nothing] /\ CallerGoes(c, "hash")
  /\ UNCHANGED <<g_isIBDFinished, allowed, caches, nEpoch, threads, joining, shutdown>>

(* The caller hashes with the VM and drops its reference. *)
CheckProofOfWorkRandomX(c) ==
  /\ caller[c] = "hash"
  /\ CallerGoes(c, "idle") /\ nEpoch' = [nEpoch EXCEPT ![c] = Nothing]
  /\ UNCHANGED <<g_isIBDFinished, allowed, caches, started, threads, stop>>

GetVM(c) ==
  \/ LookUpFast(c) \/ LookUpLight(c) \/ LookUpCache(c) \/ AllocFailed(c)
  \/ InsertCache(c) \/ InsertLight(c) \/ NoThread(c) \/ Register(c) \/ CheckProofOfWorkRandomX(c)
  \/ \E t \in VMThreads : StartThread(c, t)

-----------------------------------------------------------------------------
LookUpDataset(t) ==
  /\ thread[t] = "dataset"
  /\ cache_rx_dataset' = Touched(cache_rx_dataset, threadEpoch[t])
  /\ thread' = [thread EXCEPT ![t] = IF contains(cache_rx_dataset, threadEpoch[t])
                                     THEN "vm" ELSE "init"]
  /\ UNCHANGED <<g_isIBDFinished, allowed, cache_rx_cache, cache_rx_vm_light,
                 cache_rx_vm_fast, callers, threadEpoch, stop>>

(* randomx_init_dataset is over. *)
InsertDataset(t) ==
  /\ thread[t] = "init"
  /\ cache_rx_dataset' = TryInsert(cache_rx_dataset, threadEpoch[t], t)
  /\ thread' = [thread EXCEPT ![t] = "vm"]
  /\ UNCHANGED <<g_isIBDFinished, allowed, cache_rx_cache, cache_rx_vm_light,
                 cache_rx_vm_fast, callers, threadEpoch, stop>>

InsertFast(t) ==
  /\ thread[t] = "vm"
  /\ cache_rx_vm_fast' = TryInsert(cache_rx_vm_fast, threadEpoch[t], t)
  /\ thread' = [thread EXCEPT ![t] = "done"]
  /\ UNCHANGED <<g_isIBDFinished, allowed, cache_rx_cache, cache_rx_vm_light,
                 cache_rx_dataset, callers, threadEpoch, stop>>

(* randomx_alloc_dataset or randomx_create_vm failed. *)
ThreadFailed(t) ==
  /\ MayFail /\ thread[t] \in {"init", "vm"}
  /\ thread' = [thread EXCEPT ![t] = "failed"]
  /\ UNCHANGED <<g_isIBDFinished, allowed, caches, callers, threadEpoch, stop>>

CreateFastVM(t) ==
  LookUpDataset(t) \/ InsertDataset(t) \/ InsertFast(t) \/ ThreadFailed(t)

-----------------------------------------------------------------------------
(* Mutant: callers may still be running. *)
SwapThreadsEarly ==
  /\ shutdown = "no" /\ shutdown' = "joining"
  /\ joining' = g_rx_threads /\ g_rx_threads' = {}
  /\ UNCHANGED <<g_isIBDFinished, allowed, caches, callers, threads>>

(* Shutdown stops the RPC server, the network threads and the block        *)
(* loading thread before it calls StopRandomXThreads, which takes the      *)
(* threads from the vector ...                                             *)
SwapThreads ==
  /\ shutdown = "no" /\ \A c \in Callers : caller[c] = "idle"
  /\ shutdown' = "joining"
  /\ joining' = g_rx_threads /\ g_rx_threads' = {}
  /\ UNCHANGED <<g_isIBDFinished, allowed, caches, callers, threads>>

(* ... and joins them. *)
JoinThreads ==
  /\ shutdown = "joining" /\ \A t \in joining : thread[t] \in Ended
  /\ joining' = {} /\ shutdown' = "stopped"
  /\ UNCHANGED <<g_isIBDFinished, allowed, caches, callers, threads, g_rx_threads>>

(* The process is over. *)
Stopped == shutdown = "stopped" /\ UNCHANGED randomxVars

RandomXNext ==
  \/ FinishIBD \/ SwapThreads \/ JoinThreads \/ Stopped
  \/ \E c \in Callers : GetVM(c) \/ \E e \in RandomXEpochs : CallGetVM(c, e)
  \/ \E t \in VMThreads : CreateFastVM(t)

(* A thread that is in GetVM or in CreateFastVM keeps running, and         *)
(* Shutdown, which is waiting in join, goes on when it can.                *)
RandomXFairness ==
  /\ \A c \in Callers : WF_randomxVars(GetVM(c))
  /\ \A t \in VMThreads : WF_randomxVars(CreateFastVM(t))
  /\ WF_randomxVars(JoinThreads)

RandomXSpec == RandomXInit /\ [][RandomXNext]_randomxVars /\ RandomXFairness

-----------------------------------------------------------------------------
Caches(Builders) == LRU(RandomXEpochs, Builders, CacheSize)

(* Types, and no cache is ever larger than -randomxvmcachesize. *)
RandomXTypeOK ==
  /\ {g_isIBDFinished, allowed} \subseteq BOOLEAN
  /\ cache_rx_cache \in Caches(Callers) /\ cache_rx_vm_light \in Caches(Callers)
  /\ cache_rx_dataset \in Caches(VMThreads) /\ cache_rx_vm_fast \in Caches(VMThreads)
  /\ caller \in [Callers -> CallerLabels]
  /\ nEpoch \in [Callers -> RandomXEpochs \cup {Nothing}]
  /\ started \in [Callers -> VMThreads \cup {Nothing}]
  /\ thread \in [VMThreads -> ThreadLabels]
  /\ threadEpoch \in [VMThreads -> RandomXEpochs \cup {Nothing}]
  /\ g_rx_threads \subseteq VMThreads /\ joining \subseteq VMThreads
  /\ shutdown \in {"no", "joining", "stopped"}

Running(t) == thread[t] \notin {"new"} \cup Ended

(* "Tracked so Shutdown() can join them before the static caches above are *)
(* destroyed": when StopRandomXThreads has returned no thread is in        *)
(* CreateFastVM and no thread that was not joined is left in the vector,   *)
(* although a thread runs before it is registered.                         *)
NoThreadOutlivesStop ==
  shutdown = "stopped" =>
    g_rx_threads = {} /\ \A t \in VMThreads : ~Running(t)

(* The double-checked locking works: an object in a cache is not replaced  *)
(* by another one of the same epoch, built at the same time.               *)
EntriesAreStable ==
  [][/\ Stable(cache_rx_cache, cache_rx_cache')
     /\ Stable(cache_rx_vm_light, cache_rx_vm_light')
     /\ Stable(cache_rx_vm_fast, cache_rx_vm_fast')
     /\ Stable(cache_rx_dataset, cache_rx_dataset')]_randomxVars

(* "clear the light mode caches to trigger building fast mode vms": after  *)
(* the switch an epoch with a light VM comes to have a fast one, whatever  *)
(* calls were under way when the initial block download ended.  The only   *)
(* excuses are a building thread that failed, and a fast VM that was built *)
(* and then had to make room in a full cache.                              *)
FastIsBuilt ==
  \A e \in RandomXEpochs :
    (allowed /\ FastMode /\ contains(cache_rx_vm_light, e)) ~>
      \/ contains(cache_rx_vm_fast, e)
      \/ \E t \in VMThreads : threadEpoch[t] = e /\ thread[t] = "failed"
      \/ /\ Len(cache_rx_vm_fast) = CacheSize
         /\ \E t \in VMThreads : threadEpoch[t] = e /\ thread[t] = "done"

-----------------------------------------------------------------------------
(* An inductive invariant for NoThreadOutlivesStop: a running thread is in *)
(* the vector, is being joined, or is in the hands of the caller that      *)
(* started it; once the vector is swapped out no caller is left to start   *)
(* or register one.                                                        *)
ThreadsTracked ==
  \A t \in VMThreads : Running(t) =>
    t \in g_rx_threads \cup joining \/ \E c \in Callers : caller[c] = "register" /\ started[c] = t

NoCallerAfterSwap ==
  /\ shutdown # "no" => g_rx_threads = {} /\ \A c \in Callers : caller[c] = "idle"
  /\ shutdown # "joining" => joining = {}

RandomXInv ==
  /\ caller \in [Callers -> CallerLabels] /\ thread \in [VMThreads -> ThreadLabels]
  /\ started \in [Callers -> VMThreads \cup {Nothing}]
  /\ ThreadsTracked /\ NoCallerAfterSwap

(* An inductive invariant for EntriesAreStable: every cache holds an epoch *)
(* once, and who looks for a VM or builds one has an epoch.                *)
CachesInv ==
  /\ caller \in [Callers -> CallerLabels] /\ thread \in [VMThreads -> ThreadLabels]
  /\ nEpoch \in [Callers -> RandomXEpochs \cup {Nothing}]
  /\ threadEpoch \in [VMThreads -> RandomXEpochs \cup {Nothing}]
  /\ cache_rx_cache \in Caches(Callers) /\ cache_rx_vm_light \in Caches(Callers)
  /\ cache_rx_dataset \in Caches(VMThreads) /\ cache_rx_vm_fast \in Caches(VMThreads)
  /\ \A c \in Callers : caller[c] # "idle" => nEpoch[c] \in RandomXEpochs
  /\ \A t \in VMThreads : Running(t) => threadEpoch[t] \in RandomXEpochs
===============================================================================

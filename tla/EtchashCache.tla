----------------------------- MODULE EtchashCache -----------------------------
(***************************************************************************)
(* GetEtchashCache of pow.cpp: verifiers that share two per-epoch caches.  *)
(* The LRU cache locks each of its operations by itself; the sequence      *)
(* contains, get or generate and insert is held together by                *)
(* g_etchash_cache_gen alone.                                              *)
(***************************************************************************)
EXTENDS LRUCache

CONSTANTS Verifiers,    \* threads that verify an Etchash block
          EtchashEpochs, \* values of GetEtchashEpoch
          Capacity,     \* of g_etchash_caches
          NoVerifier, NoEpoch

ASSUME EtchashAssumption == Capacity \in Nat \ {0} /\ NoVerifier \notin Verifiers

VARIABLES g_etchash_caches, g_etchash_cache_gen, verifier, epoch

etchashVars == <<g_etchash_caches, g_etchash_cache_gen, verifier, epoch>>

EtchashInit ==
  /\ g_etchash_caches = <<>> /\ g_etchash_cache_gen = NoVerifier
  /\ verifier = [v \in Verifiers |-> "idle"] /\ epoch = [v \in Verifiers |-> NoEpoch]

(* A call in a mode that needs the hash. *)
CheckProofOfWorkEtchash(v, e) ==
  /\ verifier[v] = "idle"
  /\ verifier' = [verifier EXCEPT ![v] = "lock"] /\ epoch' = [epoch EXCEPT ![v] = e]
  /\ UNCHANGED <<g_etchash_caches, g_etchash_cache_gen>>

(* Mutant: no mutex. *)
LockNothing(v) ==
  /\ verifier[v] = "lock" /\ verifier' = [verifier EXCEPT ![v] = "contains"]
  /\ UNCHANGED <<g_etchash_caches, g_etchash_cache_gen, epoch>>

Lock(v) ==
  /\ verifier[v] = "lock" /\ g_etchash_cache_gen = NoVerifier
  /\ g_etchash_cache_gen' = v /\ verifier' = [verifier EXCEPT ![v] = "contains"]
  /\ UNCHANGED <<g_etchash_caches, epoch>>

ContainsEpoch(v) ==
  /\ verifier[v] = "contains"
  /\ verifier' = [verifier EXCEPT ![v] = IF contains(g_etchash_caches, epoch[v]) THEN "get"
                                         ELSE "generate"]
  /\ UNCHANGED <<g_etchash_caches, g_etchash_cache_gen, epoch>>

(* get() throws out_of_range for an absent key. *)
GetEpoch(v) ==
  /\ verifier[v] = "get"
  /\ g_etchash_caches' = Touched(g_etchash_caches, epoch[v])
  /\ g_etchash_cache_gen' = NoVerifier
  /\ verifier' = [verifier EXCEPT ![v] = IF contains(g_etchash_caches, epoch[v]) THEN "hash"
                                         ELSE "threw"]
  /\ UNCHANGED epoch

(* GenerateCache takes O(100ms); then the insert, and the lock goes. *)
InsertGenerated(v) ==
  /\ verifier[v] = "generate"
  /\ g_etchash_caches' = insert(g_etchash_caches, Capacity, epoch[v], v)
  /\ g_etchash_cache_gen' = NoVerifier
  /\ verifier' = [verifier EXCEPT ![v] = "hash"]
  /\ UNCHANGED epoch

(* The hash is computed from the shared entry, outside the lock. *)
HashimotoLight(v) ==
  /\ verifier[v] = "hash"
  /\ verifier' = [verifier EXCEPT ![v] = "idle"] /\ epoch' = [epoch EXCEPT ![v] = NoEpoch]
  /\ UNCHANGED <<g_etchash_caches, g_etchash_cache_gen>>

Verify(v) == Lock(v) \/ ContainsEpoch(v) \/ GetEpoch(v) \/ InsertGenerated(v) \/ HashimotoLight(v)

EtchashNext ==
  \E v \in Verifiers : \/ Verify(v)
                      \/ \E e \in EtchashEpochs : CheckProofOfWorkEtchash(v, e)

EtchashSpec == EtchashInit /\ [][EtchashNext]_etchashVars

-----------------------------------------------------------------------------
(* The check-then-get of GetEtchashCache never meets an eviction in        *)
(* between: LRUCache::get's out_of_range does not reach the caller.        *)
GetNeverThrows == \A v \in Verifiers : verifier[v] # "threw"

(* "Serializes cache generation so concurrent verifiers do not build the   *)
(* same epoch twice": a generated cache never replaces one of its epoch.   *)
NeverGeneratedTwice ==
  [][Stable(g_etchash_caches, g_etchash_caches')]_etchashVars

-----------------------------------------------------------------------------
(* The inductive invariant: who is between Lock and the end holds the      *)
(* mutex, what contains() said is still so, and the cache is in order.     *)
Inside(v) == verifier[v] \in {"contains", "get", "generate"}

EtchashInv ==
  /\ verifier \in [Verifiers -> {"idle", "lock", "contains", "get", "generate", "hash"}]
  /\ epoch \in [Verifiers -> EtchashEpochs \cup {NoEpoch}]
  /\ g_etchash_caches \in LRU(EtchashEpochs, Verifiers, Capacity)
  /\ \A v \in Verifiers :
       /\ Inside(v) => g_etchash_cache_gen = v
       /\ verifier[v] = "get" => contains(g_etchash_caches, epoch[v])
       /\ verifier[v] = "generate" => ~contains(g_etchash_caches, epoch[v])
       /\ verifier[v] # "idle" => epoch[v] \in EtchashEpochs
===============================================================================

---------------------------- MODULE ValidationProofs ----------------------------
(***************************************************************************)
(* What the validation of a block works with:                              *)
(*   - CCheckQueue for any number of workers, checks, blocks and any batch *)
(*     size: the accounting of nTodo is exact and Wait returns the         *)
(*     conjunction of the checks;                                          *)
(*   - the caches of coins, for every set of outpoints, coins and blocks:  *)
(*     their flags are right, the memory they count is exact, and they     *)
(*     implement a set of unspent outputs;                                 *)
(*   - the LRU cache, for any keys, values and capacity, and the Etchash   *)
(*     caches, for any number of verifiers and epochs;                     *)
(*   - the caches of RandomX virtual machines and the threads that build   *)
(*     them, for any number of callers, epochs and threads.                *)
(***************************************************************************)
EXTENDS CheckQueue, CoinsCache, EtchashCache, RandomXCache, FiniteSetTheorems, TLAPS

(* A leaf that names no prover is left to Zenon. *)
USE ZenonT(30)

-----------------------------------------------------------------------------
(* CheckQueue *)

Out(q, b) == q \cup UNION {b[t] : t \in CheckThreads}

Disjoint(q, b) ==
  /\ \A t \in CheckThreads : b[t] \cap q = {}
  /\ \A t, u \in CheckThreads : t # u => b[t] \cap b[u] = {}

(* nTodo is the size of what is queued and in hand. *)
Counting(q, b, n) == n = Cardinality(Out(q, b)) /\ Disjoint(q, b)

(* Until Wait returns, a failing check is still outstanding or has been    *)
(* recorded in fAllOk.                                                     *)
Recorded(q, b, ok) ==
  place[Master] \notin QuietPlaces => \A c \in added \cap Failing : c \in Out(q, b) \/ ~ok

CheckTypes ==
  /\ queue \subseteq Checks /\ added \subseteq Checks /\ Out(queue, batch) \subseteq added
  /\ fAllOk \in BOOLEAN /\ m_request_stop \in BOOLEAN /\ result \in BOOLEAN
  /\ place \in [CheckThreads -> MasterPlaces \cup WorkerPlaces]
  /\ place[Master] \in MasterPlaces /\ \A w \in Workers : place[w] \in WorkerPlaces
  /\ batch \in [CheckThreads -> SUBSET Checks] /\ fOk \in [CheckThreads -> BOOLEAN]
  /\ rounds \in 0..MaxRounds

InHand == \A t \in CheckThreads : batch[t] # {} => place[t] \in {"work", "lock"}

Executed == \A t \in CheckThreads : place[t] = "lock" /\ batch[t] \cap Failing # {} => ~fOk[t]

NoFalseAlarm ==
  /\ ~fAllOk => added \cap Failing # {}
  /\ \A t \in CheckThreads : batch[t] # {} /\ ~fOk[t] => added \cap Failing # {}

StopIsLast == m_request_stop => place[Master] \in {"stop", "join", "joined"}

(* The inductive invariant. *)
CheckInv ==
  /\ CheckTypes /\ Counting(queue, batch, nTodo) /\ InHand /\ Executed
  /\ Recorded(queue, batch, fAllOk) /\ NoFalseAlarm
  /\ StopIsLast /\ ResultIsRight

-----------------------------------------------------------------------------
(* Batches *)

(* Membership in Out, without the union. *)
LEMMA OutMember ==
  ASSUME NEW q, NEW b, NEW c
  PROVE  c \in Out(q, b) <=> (c \in q \/ \E t \in CheckThreads : c \in b[t])
BY DEF Out

(* A thread that accounts for its batch. *)
LEMMA CountDone ==
  ASSUME NEW q \in SUBSET Checks, NEW b \in [CheckThreads -> SUBSET Checks], NEW n,
         NEW t \in CheckThreads, Counting(q, b, n)
  PROVE  /\ Counting(q, [b EXCEPT ![t] = {}], n - Cardinality(b[t]))
         /\ n \in Nat
<1> DEFINE d == [b EXCEPT ![t] = {}]
<1>1. Out(q, b) \subseteq Checks /\ b[t] \subseteq Out(q, b)
  BY DEF Out
<1>2. IsFiniteSet(Out(q, b))
  BY <1>1, FS_Subset, CheckQueueAssumption
<1>3. Disjoint(q, d)
  BY DEF Counting, Disjoint
<1>4. Out(q, d) = Out(q, b) \ b[t]
  <2>1. ASSUME NEW c PROVE c \in Out(q, d) <=> c \in Out(q, b) \ b[t]
    <3>1. c \in Out(q, d) <=> (c \in q \/ \E u \in CheckThreads : c \in d[u])
      <4> HIDE DEF d
      <4> QED BY OutMember
    <3>2. c \in Out(q, b) <=> (c \in q \/ \E u \in CheckThreads : c \in b[u])
      BY OutMember
    <3>3. \A u \in CheckThreads : d[u] = IF u = t THEN {} ELSE b[u]
      OBVIOUS
    <3>4. c \in q => c \notin b[t]
      BY DEF Counting, Disjoint
    <3>5. \A u \in CheckThreads : u # t /\ c \in b[u] => c \notin b[t]
      BY DEF Counting, Disjoint
    <3> QED BY <3>1, <3>2, <3>3, <3>4, <3>5
  <2> QED BY <2>1
<1>5. Out(q, b) \cap b[t] = b[t]
  BY <1>1
<1>6. Cardinality(Out(q, d)) = n - Cardinality(b[t])
  BY <1>2, <1>4, <1>5, FS_Difference DEF Counting
<1>7. n \in Nat
  BY <1>2, FS_CardinalityType DEF Counting
<1> QED BY <1>3, <1>6, <1>7 DEF Counting

(* A thread that takes a batch. *)
LEMMA OutTake ==
  ASSUME NEW q, NEW d, NEW e, NEW t \in CheckThreads, e[t] \subseteq q,
         d[t] = {}, \A u \in CheckThreads : u = t \/ d[u] = e[u]
  PROVE  \A c : c \in Out(q \ e[t], e) <=> c \in Out(q, d)
<1>1. ASSUME NEW c PROVE c \in Out(q \ e[t], e) <=> c \in Out(q, d)
  <2>1. c \in Out(q, d) <=> (c \in q \/ \E u \in CheckThreads : c \in d[u])
    BY SMTT(30), OutMember
  <2>2. c \in Out(q \ e[t], e) <=> (c \in q \ e[t] \/ \E u \in CheckThreads : c \in e[u])
    BY SMTT(30), OutMember
  <2> QED BY <2>1, <2>2
<1> QED BY <1>1

LEMMA CountTake ==
  ASSUME NEW q, NEW d, NEW e, NEW n, NEW t \in CheckThreads, e[t] \subseteq q,
         d[t] = {}, \A u \in CheckThreads : u = t \/ d[u] = e[u],
         Counting(q, d, n)
  PROVE  Counting(q \ e[t], e, n)
<1>1. Disjoint(q \ e[t], e)
  BY DEF Counting, Disjoint
<1>2. \A c : c \in Out(q \ e[t], e) <=> c \in Out(q, d)
  BY OutTake
<1>3. Out(q \ e[t], e) = Out(q, d)
  BY <1>2
<1> QED BY <1>1, <1>3 DEF Counting

(* The master adds checks. *)
LEMMA CountAdd ==
  ASSUME NEW q \in SUBSET Checks, NEW b \in [CheckThreads -> SUBSET Checks], NEW n,
         NEW S \in SUBSET (Checks \ Out(q, b)), Counting(q, b, n)
  PROVE  /\ Counting(q \cup S, b, n + Cardinality(S))
         /\ Out(q \cup S, b) = Out(q, b) \cup S
<1>1. Out(q \cup S, b) = Out(q, b) \cup S
  BY DEF Out
<1>2. IsFiniteSet(Out(q, b)) /\ IsFiniteSet(S)
  <2>1. Out(q, b) \subseteq Checks
    BY SMTT(30) DEF Out
  <2> QED BY <2>1, FS_Subset, CheckQueueAssumption
<1>3. Out(q, b) \cap S = {}
  OBVIOUS
<1>4. Cardinality(Out(q, b) \cup S) = Cardinality(Out(q, b)) + Cardinality(S) - 0
  BY <1>2, <1>3, FS_Union, FS_EmptySet
<1>5. Cardinality(Out(q, b)) \in Nat /\ Cardinality(S) \in Nat
  BY <1>2, FS_CardinalityType
<1>6. \A t \in CheckThreads : b[t] \cap S = {}
  BY SMTT(30) DEF Out
<1>7. Disjoint(q \cup S, b)
  BY <1>6 DEF Counting, Disjoint
<1>8. Cardinality(Out(q, b) \cup S) = n + Cardinality(S)
  BY SMTT(30), <1>4, <1>5 DEF Counting
<1>9. Cardinality(Out(q \cup S, b)) = n + Cardinality(S)
  BY <1>1, <1>8
<1> QED BY <1>1, <1>7, <1>9 DEF Counting

-----------------------------------------------------------------------------
(* A turn of Loop, from the end of the clean-up on *)

(* What the clean-up leaves for the rest of the critical section. *)
Turn(t, ok, todo, places) ==
  /\ place[t] \in {"lock", "woken"}
  /\ ok \in BOOLEAN
  /\ Counting(queue, [batch EXCEPT ![t] = {}], todo)
  /\ Recorded(queue, [batch EXCEPT ![t] = {}], ok)
  /\ ~ok => added \cap Failing # {}
  /\ place[Master] \in QuietPlaces => ok /\ todo = 0
  /\ places \in [CheckThreads -> MasterPlaces \cup WorkerPlaces]
  /\ \A u \in CheckThreads : \/ places[u] = place[u]
                             \/ u = Master /\ place[u] = "wait" /\ places[u] = "woken"

(* Emptying a batch leaves less outstanding. *)
LEMMA OutShrinks ==
  ASSUME NEW q, NEW b \in [CheckThreads -> SUBSET Checks], NEW t \in CheckThreads
  PROVE  Out(q, [b EXCEPT ![t] = {}]) \subseteq Out(q, b)
BY DEF Out

LEMMA ReturnKeeps ==
  ASSUME CheckInv, NEW t \in CheckThreads, NEW ok, NEW todo, NEW total, NEW idle, NEW places,
         Turn(t, ok, todo, places), Return(t, ok, todo, total, idle, places)
  PROVE  CheckInv'
<1> DEFINE d == [batch EXCEPT ![t] = {}]
<1>1. t = Master /\ queue = {} /\ todo = 0 /\ ~m_request_stop
  BY DEF Return
<1>2. /\ queue' = queue /\ batch' = d /\ nTodo' = 0 /\ fAllOk' = TRUE /\ result' = ok
      /\ place' = [places EXCEPT ![t] = "idle"] /\ added' = added /\ fOk' = fOk
      /\ m_request_stop' = m_request_stop /\ rounds' = rounds
  BY <1>1 DEF Return
<1>3. d \in [CheckThreads -> SUBSET Checks] /\ Out(queue, d) \subseteq Out(queue, batch)
  BY OutShrinks DEF CheckInv, CheckTypes
<1>4. Out(queue, d) = {}
  <2>1. IsFiniteSet(Out(queue, d))
    <3>1. Out(queue, d) \subseteq Checks
      BY <1>3 DEF CheckInv, CheckTypes
    <3> QED BY <3>1, FS_Subset, CheckQueueAssumption
  <2>2. Cardinality(Out(queue, d)) = 0
    BY <1>1 DEF Turn, Counting
  <2> QED BY <2>1, <2>2, FS_EmptySet
<1>5. place' \in [CheckThreads -> MasterPlaces \cup WorkerPlaces] /\ place'[Master] = "idle"
  BY <1>1, <1>2 DEF Turn, MasterPlaces, CheckThreads
<1>6. \A u \in CheckThreads : d[u] = {}
  BY <1>4 DEF Out
<1> HIDE DEF d
<1>7. ok <=> (added \cap Failing = {})
  <2>1. place[Master] \notin QuietPlaces
    BY <1>1 DEF Turn, QuietPlaces
  <2>2. ok => \A c \in added \cap Failing : FALSE
    BY <1>4, <2>1 DEF Turn, Recorded, d
  <2> QED BY <2>2 DEF Turn
<1>8. CheckTypes'
  <2>1. \A w \in Workers : place'[w] \in WorkerPlaces
    BY <1>1, <1>2, <1>5, CheckQueueAssumption DEF Turn, CheckInv, CheckTypes, CheckThreads
  <2>2. Out(queue', batch') \subseteq added'
    BY <1>2, <1>4
  <2> QED BY <1>2, <1>3, <1>5, <2>1, <2>2 DEF CheckTypes, CheckInv, MasterPlaces, Turn
<1>9. Counting(queue, batch, nTodo)'
  <2>1. Counting(queue, d, 0)
    BY <1>1 DEF Turn, d
  <2> QED BY <1>2, <2>1 DEF Counting, Out, Disjoint
<1>10. InHand' /\ Executed'
  BY <1>2, <1>6 DEF InHand, Executed
<1>11. Recorded(queue, batch, fAllOk)'
  BY <1>5 DEF Recorded, QuietPlaces
<1>12. NoFalseAlarm'
  BY <1>2, <1>6 DEF NoFalseAlarm
<1>13. StopIsLast'
  BY <1>1, <1>2 DEF StopIsLast
<1>14. ResultIsRight'
  <2>1. Outstanding' = {}
    BY <1>2, <1>4 DEF Outstanding, Out
  <2> QED BY <1>2, <1>7, <2>1 DEF ResultIsRight
<1> QED BY <1>8, <1>9, <1>10, <1>11, <1>12, <1>13, <1>14 DEF CheckInv

(* A turn that does not end Wait leaves the master in or out of its round. *)
LEMMA PlacesKept ==
  ASSUME CheckInv, NEW t \in CheckThreads, NEW ok, NEW todo, NEW places, NEW p,
         Turn(t, ok, todo, places), place' = [places EXCEPT ![t] = p],
         p \in {"wait", "work", "done"}, t = Master => p # "done"
  PROVE  /\ place' \in [CheckThreads -> MasterPlaces \cup WorkerPlaces]
         /\ place'[Master] \in MasterPlaces /\ \A w \in Workers : place'[w] \in WorkerPlaces
         /\ place'[Master] \in QuietPlaces <=> place[Master] \in QuietPlaces
         /\ place[Master] \in {"stop", "join", "joined"} => place'[Master] = place[Master]
         /\ place'[t] = p
         /\ \A u \in CheckThreads \ {t} :
              place[u] \in {"work", "lock"} \/ place'[u] \in {"work", "lock"} => place'[u] = place[u]
<1>1. place' \in [CheckThreads -> MasterPlaces \cup WorkerPlaces]
  BY DEF Turn, MasterPlaces, WorkerPlaces, LoopPlaces
<1>2. place'[t] = p /\ \A u \in CheckThreads \ {t} : place'[u] = places[u]
  BY DEF Turn
<1>3. Master \in CheckThreads /\ Workers \subseteq CheckThreads /\ Master \notin Workers
  BY CheckQueueAssumption DEF CheckThreads
<1>4. place'[Master] \in MasterPlaces /\ \A w \in Workers : place'[w] \in WorkerPlaces
  BY SMTT(30), <1>2, <1>3 DEF Turn, CheckInv, CheckTypes, MasterPlaces, WorkerPlaces, LoopPlaces
<1>5. place'[Master] \in QuietPlaces <=> place[Master] \in QuietPlaces
  BY <1>2, <1>3 DEF Turn, QuietPlaces
<1>6. place[Master] \in {"stop", "join", "joined"} => place'[Master] = place[Master]
  BY <1>2, <1>3 DEF Turn
<1>7. \A u \in CheckThreads \ {t} :
        place[u] \in {"work", "lock"} \/ place'[u] \in {"work", "lock"} => place'[u] = place[u]
  BY <1>2 DEF Turn
<1> QED BY <1>1, <1>2, <1>4, <1>5, <1>6, <1>7

(* The thread sleeps or ends. *)
LEMMA SettleKeeps ==
  ASSUME CheckInv, NEW t \in CheckThreads, NEW ok, NEW todo, NEW places, NEW p,
         Turn(t, ok, todo, places), place' = [places EXCEPT ![t] = p],
         p \in {"wait", "done"}, t = Master => p # "done",
         queue' = queue, batch' = [batch EXCEPT ![t] = {}], nTodo' = todo, fAllOk' = ok,
         UNCHANGED <<m_request_stop, fOk, added, result, rounds>>
  PROVE  CheckInv'
<1> DEFINE d == [batch EXCEPT ![t] = {}]
<1>1. d \in [CheckThreads -> SUBSET Checks] /\ Out(queue, d) \subseteq Out(queue, batch)
  BY OutShrinks DEF CheckInv, CheckTypes
<1>2. \A u \in CheckThreads : d[u] = IF u = t THEN {} ELSE batch[u]
  BY DEF CheckInv, CheckTypes
<1>3. batch' = d
  OBVIOUS
<1> HIDE DEF d
<1>4. /\ place' \in [CheckThreads -> MasterPlaces \cup WorkerPlaces]
      /\ place'[Master] \in MasterPlaces /\ \A w \in Workers : place'[w] \in WorkerPlaces
      /\ place'[Master] \in QuietPlaces <=> place[Master] \in QuietPlaces
      /\ place[Master] \in {"stop", "join", "joined"} => place'[Master] = place[Master]
      /\ place'[t] = p
      /\ \A u \in CheckThreads \ {t} :
           place[u] \in {"work", "lock"} \/ place'[u] \in {"work", "lock"} => place'[u] = place[u]
  BY PlacesKept
<1>5. CheckTypes'
  <2>1. Out(queue', batch') \subseteq added'
    BY <1>1, <1>3 DEF CheckInv, CheckTypes
  <2>2. fAllOk' \in BOOLEAN /\ m_request_stop' \in BOOLEAN /\ result' \in BOOLEAN
        /\ fOk' \in [CheckThreads -> BOOLEAN]
    BY DEF CheckInv, CheckTypes, Turn
  <2> QED BY <1>1, <1>3, <1>4, <2>1, <2>2 DEF CheckTypes, CheckInv
<1>6. Counting(queue, batch, nTodo)'
  <2>1. Counting(queue, d, todo)
    BY DEF Turn, d
  <2> QED BY <1>3, <2>1 DEF Counting, Out, Disjoint
<1>7. InHand'
  BY <1>2, <1>3, <1>4 DEF InHand, CheckInv
<1>8. Executed'
  <2>1. SUFFICES ASSUME NEW u \in CheckThreads, place'[u] = "lock", batch'[u] \cap Failing # {}
                 PROVE  ~fOk'[u]
    BY DEF Executed
  <2>2. u # t /\ place[u] = "lock" /\ batch'[u] = batch[u]
    BY <1>2, <1>3, <1>4, <2>1
  <2> QED BY <2>1, <2>2 DEF CheckInv, Executed
<1>9. Recorded(queue, batch, fAllOk)'
  <2>1. Recorded(queue, d, ok)
    BY DEF Turn, d
  <2>2. Out(queue', batch') = Out(queue, d) /\ fAllOk' = ok /\ added' = added
    BY <1>3
  <2>3. SUFFICES ASSUME place'[Master] \notin QuietPlaces,
                        NEW c \in added \cap Failing
                 PROVE  c \in Out(queue', batch') \/ ~fAllOk'
    BY <2>2 DEF Recorded, Out
  <2>4. c \in Out(queue, d) \/ ~ok
    BY <1>4, <2>1, <2>3 DEF Recorded
  <2>5. ok = FALSE => fAllOk' = FALSE
    BY <2>2
  <2>6. ok = TRUE \/ ok = FALSE
    BY DEF Turn
  <2>7. c \in Out(queue, d) => c \in Out(queue', batch')
    BY <2>2
  <2> QED BY <2>4, <2>5, <2>6, <2>7
<1>10. NoFalseAlarm'
  <2>1. ~fAllOk' => added' \cap Failing # {}
    BY DEF Turn
  <2>2. ASSUME NEW u \in CheckThreads, batch'[u] # {}, ~fOk'[u]
        PROVE  added' \cap Failing # {}
    <3>1. batch'[u] = batch[u]
      BY <1>2, <1>3, <2>2
    <3> QED BY <2>2, <3>1 DEF CheckInv, NoFalseAlarm
  <2> QED BY <2>1, <2>2 DEF NoFalseAlarm
<1>11. StopIsLast'
  BY <1>4 DEF CheckInv, StopIsLast
<1>12. ResultIsRight'
  <2>1. SUFFICES ASSUME place[Master] \in QuietPlaces
                 PROVE  ResultIsRight'
    BY <1>4 DEF ResultIsRight
  <2>2. Outstanding = {} /\ (result <=> (added \cap Failing = {}))
    BY <2>1 DEF CheckInv, ResultIsRight
  <2>3. Outstanding' = {}
    <3>1. Outstanding' = Out(queue, d)
      BY <1>3 DEF Outstanding, Out
    <3>2. Out(queue, batch) = {}
      BY <2>2 DEF Outstanding, Out
    <3> QED BY <1>1, <3>1, <3>2
  <2>4. fAllOk' /\ nTodo' = 0
    BY <2>1 DEF Turn
  <2> QED BY <2>2, <2>3, <2>4 DEF ResultIsRight
<1> QED BY <1>5, <1>6, <1>7, <1>8, <1>9, <1>10, <1>11, <1>12 DEF CheckInv

(* A batch in hand counts like the same checks in the queue. *)
LEMMA TakeCounts ==
  ASSUME CheckInv, NEW t \in CheckThreads, NEW todo, NEW S, S \in SUBSET queue,
         Counting(queue, [batch EXCEPT ![t] = {}], todo)
  PROVE  /\ Counting(queue \ S, [batch EXCEPT ![t] = S], todo)
         /\ Out(queue \ S, [batch EXCEPT ![t] = S]) = Out(queue, [batch EXCEPT ![t] = {}])
<1> DEFINE d == [batch EXCEPT ![t] = {}]
           e == [batch EXCEPT ![t] = S]
<1>1. d[t] = {} /\ e[t] = S /\ \A u \in CheckThreads : u = t \/ d[u] = e[u]
  BY DEF CheckInv, CheckTypes
<1>2. Counting(queue, d, todo) /\ S \subseteq queue
  OBVIOUS
<1> HIDE DEF d, e
<1>3. e[t] \subseteq queue
  BY <1>1, <1>2
<1>4. Counting(queue \ e[t], e, todo)
  BY <1>1, <1>2, <1>3, CountTake
<1>5. \A c : c \in Out(queue \ e[t], e) <=> c \in Out(queue, d)
  BY <1>1, <1>3, OutTake
<1>6. Out(queue \ e[t], e) = Out(queue, d)
  BY <1>5
<1> QED BY <1>1, <1>4, <1>6 DEF d, e

(* The thread takes a batch. *)
LEMMA TakeKeeps ==
  ASSUME CheckInv, NEW t \in CheckThreads, NEW ok, NEW todo, NEW total, NEW idle, NEW places,
         Turn(t, ok, todo, places), Take(t, ok, todo, total, idle, places)
  PROVE  CheckInv'
<1>1. PICK S \in kSubset(nNow(total, idle), queue) :
        queue' = queue \ S /\ batch' = [batch EXCEPT ![t] = S]
  BY DEF Take
<1>2. S \in SUBSET queue
  BY <1>1 DEF kSubset
<1>3. /\ nTodo' = todo /\ fAllOk' = ok /\ fOk' = [fOk EXCEPT ![t] = ok]
      /\ place' = [places EXCEPT ![t] = "work"] /\ added' = added /\ result' = result
      /\ m_request_stop' = m_request_stop /\ rounds' = rounds
  BY DEF Take
<1> DEFINE d == [batch EXCEPT ![t] = {}]
           e == [batch EXCEPT ![t] = S]
<1>4. Counting(queue \ S, e, todo) /\ Out(queue \ S, e) = Out(queue, d)
  BY <1>2, TakeCounts DEF Turn
<1>5. Out(queue, d) \subseteq Out(queue, batch)
  BY OutShrinks DEF CheckInv, CheckTypes
<1>6. e \in [CheckThreads -> SUBSET Checks] /\ e[t] = S
      /\ \A u \in CheckThreads \ {t} : e[u] = batch[u]
  BY <1>2 DEF CheckInv, CheckTypes
<1>7. batch' = e
  BY <1>1
<1> HIDE DEF d, e
<1>8. /\ place' \in [CheckThreads -> MasterPlaces \cup WorkerPlaces]
      /\ place'[Master] \in MasterPlaces /\ \A w \in Workers : place'[w] \in WorkerPlaces
      /\ place'[Master] \in QuietPlaces <=> place[Master] \in QuietPlaces
      /\ place[Master] \in {"stop", "join", "joined"} => place'[Master] = place[Master]
      /\ place'[t] = "work"
      /\ \A u \in CheckThreads \ {t} :
           place[u] \in {"work", "lock"} \/ place'[u] \in {"work", "lock"} => place'[u] = place[u]
  BY <1>3, PlacesKept
<1>9. place[Master] \notin QuietPlaces
  <2>1. queue # {}
    BY DEF Take
  <2> QED BY <2>1 DEF CheckInv, ResultIsRight, Outstanding
<1>10. /\ fOk' \in [CheckThreads -> BOOLEAN] /\ fOk'[t] = ok
       /\ \A u \in CheckThreads \ {t} : fOk'[u] = fOk[u]
  BY <1>3 DEF CheckInv, CheckTypes, Turn
<1>11. CheckTypes'
  <2>1. Out(queue', batch') \subseteq added'
    BY <1>1, <1>3, <1>4, <1>5, <1>7 DEF CheckInv, CheckTypes
  <2>2. fAllOk' \in BOOLEAN /\ m_request_stop' \in BOOLEAN /\ result' \in BOOLEAN
    BY <1>3 DEF CheckInv, CheckTypes, Turn
  <2> QED BY <1>1, <1>3, <1>6, <1>7, <1>8, <1>10, <2>1, <2>2 DEF CheckTypes, CheckInv
<1>12. Counting(queue, batch, nTodo)'
  <2>1. queue' = queue \ S /\ batch' = e /\ nTodo' = todo
    BY <1>1, <1>3, <1>7
  <2> QED BY <2>1, <1>4 DEF Counting, Out, Disjoint
<1>13. InHand'
  BY <1>6, <1>7, <1>8 DEF InHand, CheckInv
<1>14. Executed'
  <2>1. SUFFICES ASSUME NEW u \in CheckThreads, place'[u] = "lock", batch'[u] \cap Failing # {}
                 PROVE  ~fOk'[u]
    BY DEF Executed
  <2>2. u # t /\ place[u] = "lock" /\ batch'[u] = batch[u] /\ fOk'[u] = fOk[u]
    BY <1>6, <1>7, <1>8, <1>10, <2>1
  <2>3. fOk[u] = FALSE
    BY <2>1, <2>2 DEF CheckInv, Executed, CheckTypes
  <2> QED BY <2>2, <2>3
<1>15. Recorded(queue, batch, fAllOk)'
  <2>1. SUFFICES ASSUME NEW c \in added \cap Failing
                 PROVE  c \in Out(queue', batch') \/ ~fAllOk'
    BY <1>3 DEF Recorded, Out
  <2>2. c \in Out(queue, d) \/ ~ok
    BY <1>9, <2>1 DEF Turn, Recorded, d
  <2>3. ok = FALSE => fAllOk' = FALSE
    BY <1>3
  <2>4. ok = TRUE \/ ok = FALSE
    BY DEF Turn
  <2>5. c \in Out(queue, d) => c \in Out(queue', batch')
    BY <1>1, <1>4, <1>7
  <2> QED BY <2>2, <2>3, <2>4, <2>5
<1>16. NoFalseAlarm'
  <2>1. ~ok => added' \cap Failing # {}
    BY <1>3 DEF Turn
  <2>2. ok = TRUE \/ ok = FALSE
    BY DEF Turn
  <2>3. ok = TRUE => fAllOk' = TRUE
    BY <1>3
  <2>4. ~fAllOk' => added' \cap Failing # {}
    BY <2>1, <2>2, <2>3
  <2>5. ASSUME NEW u \in CheckThreads, batch'[u] # {}, ~fOk'[u]
        PROVE  added' \cap Failing # {}
    <3>1. CASE u = t
      <4>1. fOk'[u] = ok
        BY <1>10, <3>1
      <4>2. ok = TRUE => fOk'[u] = TRUE
        BY <4>1
      <4> QED BY <2>1, <2>2, <2>5, <4>2
    <3>2. CASE u # t
      <4>1. batch'[u] = batch[u] /\ fOk'[u] = fOk[u]
        BY <1>6, <1>7, <1>10, <3>2
      <4>2. fOk[u] = FALSE
        BY <2>5, <4>1 DEF CheckInv, CheckTypes
      <4> QED BY <1>3, <2>5, <4>1, <4>2 DEF CheckInv, NoFalseAlarm
    <3> QED BY <3>1, <3>2
  <2> QED BY <2>4, <2>5 DEF NoFalseAlarm
<1>17. StopIsLast'
  BY <1>3, <1>8 DEF CheckInv, StopIsLast
<1>18. ResultIsRight'
  BY <1>8, <1>9 DEF ResultIsRight
<1> QED BY <1>11, <1>12, <1>13, <1>14, <1>15, <1>16, <1>17, <1>18 DEF CheckInv

(* The rest of the critical section, whatever it does. *)
LEMMA ContinueKeeps ==
  ASSUME CheckInv, NEW t \in CheckThreads, NEW ok, NEW todo, NEW total, NEW idle, NEW places,
         Turn(t, ok, todo, places), Continue(t, ok, todo, total, idle, places)
  PROVE  CheckInv'
<1>1. CASE Return(t, ok, todo, total, idle, places)
  BY <1>1, ReturnKeeps
<1>2. CASE Sleep(t, ok, todo, total, idle, places)
  BY <1>2, SettleKeeps DEF Sleep
<1>3. CASE Take(t, ok, todo, total, idle, places)
  BY <1>3, TakeKeeps
<1>4. CASE Leave(t, ok, todo, total, idle, places)
  <2>1. t # Master
    BY <1>4 DEF Leave, Turn, CheckInv, StopIsLast
  <2> QED BY <1>4, <2>1, SettleKeeps DEF Leave
<1> QED BY <1>1, <1>2, <1>3, <1>4 DEF Continue

(* Enter, Resume and CleanUp reach that point in a consistent state. *)
LEMMA EmptyBatchTurn ==
  ASSUME CheckInv, NEW t \in CheckThreads, place[t] \in {"lock", "woken"}, batch[t] = {}
  PROVE  Turn(t, fAllOk, nTodo, place)
<1>1. [batch EXCEPT ![t] = {}] = batch
  BY DEF CheckInv, CheckTypes
<1>2. Counting(queue, [batch EXCEPT ![t] = {}], nTodo)
  BY <1>1 DEF CheckInv
<1>3. Recorded(queue, [batch EXCEPT ![t] = {}], fAllOk)
  BY <1>1 DEF CheckInv
<1>4. ~fAllOk => added \cap Failing # {}
  BY DEF CheckInv, NoFalseAlarm
<1>5. place[Master] \in QuietPlaces => fAllOk /\ nTodo = 0
  BY DEF CheckInv, ResultIsRight
<1>6. place \in [CheckThreads -> MasterPlaces \cup WorkerPlaces] /\ fAllOk \in BOOLEAN
  BY DEF CheckInv, CheckTypes
<1> QED BY <1>2, <1>3, <1>4, <1>5, <1>6 DEF Turn

LEMMA FullBatchTurn ==
  ASSUME CheckInv, NEW t \in CheckThreads, place[t] = "lock", batch[t] # {}
  PROVE  LET todo == nTodo - Cardinality(batch[t])
         IN Turn(t, fAllOk /\ fOk[t], todo,
                 IF todo = 0 /\ t # Master THEN WakeAll({Master}) ELSE place)
<1> DEFINE todo == nTodo - Cardinality(batch[t])
           ok == fAllOk /\ fOk[t]
           places == IF todo = 0 /\ t # Master THEN WakeAll({Master}) ELSE place
           d == [batch EXCEPT ![t] = {}]
<1>1. Counting(queue, d, todo)
  <2>1. queue \in SUBSET Checks /\ batch \in [CheckThreads -> SUBSET Checks]
        /\ Counting(queue, batch, nTodo)
    BY DEF CheckInv, CheckTypes
  <2> QED BY <2>1, CountDone
<1>2. places \in [CheckThreads -> MasterPlaces \cup WorkerPlaces]
      /\ \A u \in CheckThreads : \/ places[u] = place[u]
                                 \/ u = Master /\ place[u] = "wait" /\ places[u] = "woken"
  <2>1. CASE places = place
    BY <2>1 DEF CheckInv, CheckTypes
  <2>2. CASE places = WakeAll({Master})
    <3>1. place \in [CheckThreads -> MasterPlaces \cup WorkerPlaces]
      BY DEF CheckInv, CheckTypes
    <3> QED BY <2>2, <3>1 DEF WakeAll, Waiting, MasterPlaces, LoopPlaces
  <2> QED BY <2>1, <2>2
<1>3. fAllOk \in BOOLEAN /\ fOk[t] \in BOOLEAN
  BY DEF CheckInv, CheckTypes
<1>4. ~ok => added \cap Failing # {}
  BY <1>3 DEF CheckInv, NoFalseAlarm
<1>5. place[Master] \notin QuietPlaces
  <2>1. Outstanding # {}
    BY DEF Outstanding
  <2> QED BY <2>1 DEF CheckInv, ResultIsRight
<1>6. Recorded(queue, d, ok)
  <2>1. SUFFICES ASSUME NEW c \in added \cap Failing
                 PROVE  c \in Out(queue, d) \/ ~ok
    BY DEF Recorded
  <2>2. c \in Out(queue, batch) \/ ~fAllOk
    BY <1>5, <2>1 DEF CheckInv, Recorded
  <2>3. c \in batch[t] => ~fOk[t]
    <3>1. c \in batch[t] => batch[t] \cap Failing # {}
      BY <2>1
    <3> QED BY <3>1 DEF CheckInv, Executed
  <2>4. c \in Out(queue, batch) => c \in batch[t] \/ c \in Out(queue, d)
    BY DEF Out, CheckInv, CheckTypes
  <2> QED BY <2>2, <2>3, <2>4
<1>7. ok \in BOOLEAN
  BY <1>3
<1> QED BY <1>1, <1>2, <1>4, <1>5, <1>6, <1>7 DEF Turn

-----------------------------------------------------------------------------
(* Steps *)

(* Threads without a batch move; nothing else changes. *)
LEMMA MoveKeeps ==
  ASSUME CheckInv, UNCHANGED <<queue, nTodo, fAllOk, batch, fOk, added, result, rounds>>,
         place' \in [CheckThreads -> MasterPlaces \cup WorkerPlaces],
         place'[Master] \in MasterPlaces, \A w \in Workers : place'[w] \in WorkerPlaces,
         place'[Master] \in QuietPlaces <=> place[Master] \in QuietPlaces,
         \A u \in CheckThreads : place'[u] = place[u] \/ place[u] \notin {"work", "lock"},
         m_request_stop' \in BOOLEAN,
         m_request_stop' => place'[Master] \in {"stop", "join", "joined"}
  PROVE  CheckInv'
<1>1. CheckTypes'
  BY DEF CheckInv, CheckTypes, Out
<1>2. Counting(queue, batch, nTodo)'
  BY DEF CheckInv, Counting, Out, Disjoint
<1>3. \A u \in CheckThreads : place'[u] # place[u] => batch[u] = {}
  BY DEF CheckInv, InHand
<1>4. InHand'
  BY <1>3 DEF CheckInv, InHand
<1>5. Executed'
  BY <1>3 DEF CheckInv, Executed
<1>6. Recorded(queue, batch, fAllOk)'
  BY DEF CheckInv, Recorded, Out
<1>7. NoFalseAlarm' /\ StopIsLast'
  BY DEF CheckInv, NoFalseAlarm, StopIsLast
<1>8. ResultIsRight'
  BY DEF CheckInv, ResultIsRight, Outstanding
<1> QED BY <1>1, <1>2, <1>4, <1>5, <1>6, <1>7, <1>8 DEF CheckInv

(* Execution of a batch. *)
LEMMA WorkKeeps ==
  ASSUME CheckInv, NEW t \in CheckThreads, Work(t)
  PROVE  CheckInv'
<1>1. /\ place[t] = "work" /\ place' = [place EXCEPT ![t] = "lock"]
      /\ fOk' = [fOk EXCEPT ![t] = fOk[t] /\ batch[t] \cap Failing = {}]
      /\ UNCHANGED <<queue, nTodo, fAllOk, m_request_stop, batch, added, result, rounds>>
  BY DEF Work, queueVars
<1>2. /\ place \in [CheckThreads -> MasterPlaces \cup WorkerPlaces] /\ fOk \in [CheckThreads -> BOOLEAN]
      /\ place[Master] \in MasterPlaces /\ \A w \in Workers : place[w] \in WorkerPlaces
  BY DEF CheckInv, CheckTypes
<1>3. /\ place' \in [CheckThreads -> MasterPlaces \cup WorkerPlaces] /\ place'[t] = "lock"
      /\ \A u \in CheckThreads \ {t} : place'[u] = place[u]
      /\ place'[Master] \in MasterPlaces /\ \A w \in Workers : place'[w] \in WorkerPlaces
  BY <1>1, <1>2 DEF MasterPlaces, WorkerPlaces, LoopPlaces, CheckThreads
<1>4. fOk' \in [CheckThreads -> BOOLEAN] /\ \A u \in CheckThreads \ {t} : fOk'[u] = fOk[u]
  BY <1>1, <1>2
<1>5. fOk'[t] <=> (fOk[t] /\ batch[t] \cap Failing = {})
  BY <1>1, <1>2
<1>6. place'[Master] \in QuietPlaces <=> place[Master] \in QuietPlaces
  BY <1>1, <1>3 DEF QuietPlaces, CheckThreads
<1>7. CheckTypes'
  <2>1. Out(queue, batch)' = Out(queue, batch)
    BY <1>1 DEF Out
  <2> QED BY <1>1, <1>3, <1>4, <2>1 DEF CheckInv, CheckTypes
<1>8. Counting(queue, batch, nTodo)'
  BY <1>1 DEF CheckInv, Counting, Out, Disjoint
<1>9. InHand'
  BY <1>1, <1>3 DEF CheckInv, InHand
<1>10. Executed'
  <2>1. SUFFICES ASSUME NEW u \in CheckThreads, place'[u] = "lock", batch[u] \cap Failing # {}
                 PROVE  ~fOk'[u]
    BY <1>1 DEF Executed
  <2>2. CASE u = t
    BY <1>5, <2>1, <2>2
  <2>3. CASE u # t
    <3>1. place[u] = "lock" /\ fOk'[u] = fOk[u]
      BY <1>3, <1>4, <2>1, <2>3
    <3>2. fOk[u] = FALSE
      BY <1>2, <2>1, <3>1 DEF CheckInv, Executed
    <3> QED BY <3>1, <3>2
  <2> QED BY <2>2, <2>3
<1>11. Recorded(queue, batch, fAllOk)'
  BY <1>1, <1>6 DEF CheckInv, Recorded, Out
<1>12. NoFalseAlarm'
  <2>1. ~fAllOk' => added' \cap Failing # {}
    BY <1>1 DEF CheckInv, NoFalseAlarm
  <2>2. ASSUME NEW u \in CheckThreads, batch'[u] # {}, ~fOk'[u]
        PROVE  added' \cap Failing # {}
    <3>1. batch'[u] = batch[u] /\ added' = added
      BY <1>1
    <3>2. CASE ~fOk[u]
      BY <2>2, <3>1, <3>2 DEF CheckInv, NoFalseAlarm
    <3>3. CASE fOk[u]
      <4>1. u = t
        BY <1>2, <1>4, <2>2, <3>3
      <4>2. batch[t] \cap Failing # {}
        BY <1>5, <2>2, <3>3, <4>1
      <4>3. batch[t] \subseteq added
        BY DEF CheckInv, CheckTypes, Out
      <4> QED BY <3>1, <4>2, <4>3
    <3> QED BY <3>2, <3>3
  <2> QED BY <2>1, <2>2 DEF NoFalseAlarm
<1>13. StopIsLast'
  BY <1>1, <1>3 DEF CheckInv, StopIsLast, CheckThreads
<1>14. ResultIsRight'
  BY <1>1, <1>6 DEF CheckInv, ResultIsRight, Outstanding
<1> QED BY <1>7, <1>8, <1>9, <1>10, <1>11, <1>12, <1>13, <1>14 DEF CheckInv

(* Add: the new checks are not outstanding, and the round is open. *)
LEMMA AddKeeps ==
  ASSUME CheckInv, NEW S \in SUBSET (Checks \ added), Add(S)
  PROVE  CheckInv'
<1>1. /\ place[Master] = "adding" /\ queue' = queue \cup S /\ nTodo' = nTodo + Cardinality(S)
      /\ added' = added \cup S
      /\ UNCHANGED <<fAllOk, m_request_stop, batch, fOk, result, rounds>>
  BY DEF Add
<1>2. \E p \in {"notify_one", "notify_all"} : place' = [place EXCEPT ![Master] = p]
  BY DEF Add
<1>3. /\ place \in [CheckThreads -> MasterPlaces \cup WorkerPlaces] /\ Master \notin Workers
      /\ place[Master] \in MasterPlaces /\ \A w \in Workers : place[w] \in WorkerPlaces
  BY CheckQueueAssumption DEF CheckInv, CheckTypes
<1>4. /\ place' \in [CheckThreads -> MasterPlaces \cup WorkerPlaces]
      /\ place'[Master] \in {"notify_one", "notify_all"}
      /\ \A u \in CheckThreads \ {Master} : place'[u] = place[u]
      /\ place'[Master] \in MasterPlaces /\ \A w \in Workers : place'[w] \in WorkerPlaces
  BY <1>2, <1>3 DEF MasterPlaces, CheckThreads
<1>5. /\ Counting(queue \cup S, batch, nTodo + Cardinality(S))
      /\ Out(queue \cup S, batch) = Out(queue, batch) \cup S
  <2>1. queue \in SUBSET Checks /\ batch \in [CheckThreads -> SUBSET Checks]
        /\ Counting(queue, batch, nTodo) /\ Out(queue, batch) \subseteq added
    BY DEF CheckInv, CheckTypes
  <2>2. S \in SUBSET (Checks \ Out(queue, batch))
    BY <2>1
  <2>3. \A n : Counting(queue, batch, n) => Counting(queue \cup S, batch, n + Cardinality(S))
    BY <2>1, <2>2, CountAdd
  <2>4. Out(queue \cup S, batch) = Out(queue, batch) \cup S
    BY DEF Out
  <2> QED BY <2>1, <2>3, <2>4
<1>6. place[Master] \notin QuietPlaces /\ place'[Master] \notin QuietPlaces /\ batch[Master] = {}
  BY <1>1, <1>4 DEF QuietPlaces, CheckInv, InHand, CheckThreads
<1>7. Out(queue', batch') = Out(queue, batch) \cup S
  BY <1>1, <1>5
<1>8. CheckTypes'
  <2>1. queue' \subseteq Checks /\ added' \subseteq Checks /\ Out(queue', batch') \subseteq added'
    BY <1>1, <1>7 DEF CheckInv, CheckTypes
  <2> QED BY <1>1, <1>4, <2>1 DEF CheckInv, CheckTypes
<1>9. Counting(queue, batch, nTodo)'
  BY <1>1, <1>5 DEF Counting, Out, Disjoint
<1>10. InHand'
  BY <1>1, <1>4, <1>6 DEF CheckInv, InHand
<1>11. Executed'
  <2>1. SUFFICES ASSUME NEW u \in CheckThreads, place'[u] = "lock", batch[u] \cap Failing # {}
                 PROVE  ~fOk[u]
    BY <1>1 DEF Executed
  <2>2. place[u] = "lock"
    BY <1>4, <2>1
  <2> QED BY <2>1, <2>2 DEF CheckInv, Executed
<1>12. Recorded(queue, batch, fAllOk)'
  <2>1. SUFFICES ASSUME NEW c \in added' \cap Failing
                 PROVE  c \in Out(queue', batch') \/ ~fAllOk'
    BY DEF Recorded, Out
  <2>2. CASE c \in S
    BY <1>7, <2>2
  <2>3. CASE c \notin S
    <3>1. c \in added \cap Failing
      BY <1>1, <2>1, <2>3
    <3>2. c \in Out(queue, batch) \/ ~fAllOk
      BY <1>6, <3>1 DEF CheckInv, Recorded
    <3>3. c \in Out(queue, batch) => c \in Out(queue', batch')
      BY <1>7
    <3> QED BY <1>1, <3>2, <3>3
  <2> QED BY <2>2, <2>3
<1>13. NoFalseAlarm'
  <2>1. added \cap Failing # {} => added' \cap Failing # {}
    BY <1>1
  <2> QED BY <1>1, <2>1 DEF CheckInv, NoFalseAlarm
<1>14. StopIsLast'
  BY <1>1 DEF CheckInv, StopIsLast
<1>15. ResultIsRight'
  BY <1>6 DEF ResultIsRight
<1> QED BY <1>8, <1>9, <1>10, <1>11, <1>12, <1>13, <1>14, <1>15 DEF CheckInv

(* A new round starts from a quiet queue. *)
LEMMA ControlKeeps ==
  ASSUME CheckInv, Control
  PROVE  CheckInv'
<1>1. /\ place[Master] = "idle" /\ place' = [place EXCEPT ![Master] = "adding"] /\ added' = {}
      /\ rounds < MaxRounds /\ rounds' = rounds + 1
      /\ UNCHANGED <<queue, nTodo, fAllOk, m_request_stop, batch, fOk, result>>
  BY DEF Control, queueVars
<1>2. /\ place \in [CheckThreads -> MasterPlaces \cup WorkerPlaces] /\ Master \notin Workers
      /\ place[Master] \in MasterPlaces /\ \A w \in Workers : place[w] \in WorkerPlaces
      /\ rounds \in 0..MaxRounds
  BY CheckQueueAssumption DEF CheckInv, CheckTypes
<1>3. /\ place' \in [CheckThreads -> MasterPlaces \cup WorkerPlaces] /\ place'[Master] = "adding"
      /\ \A u \in CheckThreads \ {Master} : place'[u] = place[u]
      /\ place'[Master] \in MasterPlaces /\ \A w \in Workers : place'[w] \in WorkerPlaces
      /\ rounds' \in 0..MaxRounds
  BY SMTT(30), <1>1, <1>2, CheckQueueAssumption DEF MasterPlaces, CheckThreads
<1>4. place[Master] \in QuietPlaces
  BY <1>1 DEF QuietPlaces
<1>5. Outstanding = {} /\ fAllOk
  BY <1>4 DEF CheckInv, ResultIsRight
<1>6. Out(queue, batch) = {} /\ \A u \in CheckThreads : batch[u] = {}
  BY <1>5 DEF Outstanding, Out
<1>7. Out(queue', batch') = {}
  BY <1>1, <1>6
<1>8. CheckTypes'
  BY <1>1, <1>3, <1>7 DEF CheckInv, CheckTypes
<1>9. Counting(queue, batch, nTodo)'
  BY <1>1 DEF CheckInv, Counting, Out, Disjoint
<1>10. InHand' /\ Executed'
  BY <1>1, <1>6 DEF InHand, Executed
<1>11. Recorded(queue, batch, fAllOk)'
  BY <1>1 DEF Recorded
<1>12. NoFalseAlarm'
  BY <1>1, <1>5, <1>6 DEF NoFalseAlarm
<1>13. StopIsLast'
  BY <1>1 DEF CheckInv, StopIsLast
<1>14. ResultIsRight'
  BY <1>3 DEF ResultIsRight, QuietPlaces
<1> QED BY <1>8, <1>9, <1>10, <1>11, <1>12, <1>13, <1>14 DEF CheckInv

(* Notifications, Wait, and the steps of the destructor. *)
LEMMA MovesKeep ==
  ASSUME CheckInv,
         \/ NotifyOne \/ NotifyAll \/ Wait \/ RequestStop \/ DestructorNotify \/ DestructorJoin
         \/ \E t \in CheckThreads : SpuriousWake(t)
  PROVE  CheckInv'
<1>1. /\ place \in [CheckThreads -> MasterPlaces \cup WorkerPlaces] /\ m_request_stop \in BOOLEAN
      /\ place[Master] \in MasterPlaces /\ \A w \in Workers : place[w] \in WorkerPlaces
      /\ m_request_stop => place[Master] \in {"stop", "join", "joined"}
  BY DEF CheckInv, CheckTypes, StopIsLast
<1>2. CheckThreads = Workers \cup {Master} /\ Master \notin Workers
  BY CheckQueueAssumption DEF CheckThreads
<1>3. CASE NotifyOne
  <2>1. \E W \in SUBSET Waiting(Workers) :
          place' = [u \in CheckThreads |-> IF u = Master THEN "adding" ELSE IF u \in W THEN "woken" ELSE place[u]]
    <3>1. CASE Waiting(Workers) = {}
      <4>1. place' = [u \in CheckThreads |-> IF u = Master THEN "adding" ELSE IF u \in {} THEN "woken" ELSE place[u]]
        BY <1>1, <1>2, <1>3, <3>1 DEF NotifyOne
      <4>2. {} \in SUBSET Waiting(Workers)
        OBVIOUS
      <4> QED BY <4>1, <4>2
    <3>2. CASE Waiting(Workers) # {}
      <4>1. PICK w \in Waiting(Workers) : place' = [place EXCEPT ![Master] = "adding", ![w] = "woken"]
        BY <1>3, <3>2 DEF NotifyOne
      <4>2. place' = [u \in CheckThreads |-> IF u = Master THEN "adding" ELSE IF u \in {w} THEN "woken" ELSE place[u]]
        BY <1>1, <1>2, <4>1 DEF Waiting
      <4> QED BY <4>2
    <3> QED BY <3>1, <3>2
  <2>2. place[Master] = "notify_one"
        /\ UNCHANGED <<queue, nTodo, fAllOk, batch, fOk, added, result, rounds, m_request_stop>>
    BY <1>3 DEF NotifyOne, queueVars
  <2>3. \A W \in SUBSET Waiting(Workers) : \A u \in W : u \in Workers /\ place[u] = "wait"
    BY DEF Waiting
  <2> QED BY SMTT(30), <1>1, <1>2, <2>1, <2>2, <2>3, MoveKeeps
        DEF MasterPlaces, WorkerPlaces, LoopPlaces, QuietPlaces
<1>4. CASE NotifyAll
  BY <1>1, <1>2, <1>4, MoveKeeps
    DEF NotifyAll, WakeAll, Waiting, queueVars, MasterPlaces, WorkerPlaces, LoopPlaces, QuietPlaces
<1>5. CASE Wait
  BY <1>1, <1>2, <1>5, MoveKeeps
    DEF Wait, queueVars, MasterPlaces, WorkerPlaces, LoopPlaces, QuietPlaces
<1>6. CASE RequestStop
  BY <1>1, <1>2, <1>6, MoveKeeps
    DEF RequestStop, MasterPlaces, WorkerPlaces, LoopPlaces, QuietPlaces
<1>7. CASE DestructorNotify
  BY <1>1, <1>2, <1>7, MoveKeeps
    DEF DestructorNotify, WakeAll, Waiting, queueVars, MasterPlaces, WorkerPlaces, LoopPlaces, QuietPlaces
<1>8. CASE DestructorJoin
  BY <1>1, <1>2, <1>8, MoveKeeps
    DEF DestructorJoin, queueVars, MasterPlaces, WorkerPlaces, LoopPlaces, QuietPlaces
<1>9. ASSUME NEW t \in CheckThreads, SpuriousWake(t) PROVE CheckInv'
  BY <1>1, <1>2, <1>9, MoveKeeps
    DEF SpuriousWake, queueVars, MasterPlaces, WorkerPlaces, LoopPlaces, QuietPlaces
<1> QED BY <1>3, <1>4, <1>5, <1>6, <1>7, <1>8, <1>9

LEMMA CheckStart == CheckInit => CheckInv
<1> SUFFICES ASSUME CheckInit PROVE CheckInv
  OBVIOUS
<1>1. /\ queue = {} /\ nTodo = 0 /\ fAllOk = TRUE /\ m_request_stop = FALSE /\ added = {}
      /\ result = TRUE /\ rounds = 0 /\ batch = [t \in CheckThreads |-> {}]
      /\ fOk = [t \in CheckThreads |-> TRUE]
      /\ place = [t \in CheckThreads |-> IF t = Master THEN "idle" ELSE "lock"]
  BY DEF CheckInit
<1>2. Out(queue, batch) = {} /\ Outstanding = {} /\ \A t \in CheckThreads : batch[t] = {}
  BY <1>1 DEF Out, Outstanding
<1>3. place[Master] = "idle" /\ \A w \in Workers : place[w] = "lock"
  BY <1>1, CheckQueueAssumption DEF CheckThreads
<1>4. CheckTypes
  <2>1. place \in [CheckThreads -> MasterPlaces \cup WorkerPlaces]
    BY <1>1 DEF MasterPlaces, WorkerPlaces, LoopPlaces
  <2>2. place[Master] \in MasterPlaces /\ \A w \in Workers : place[w] \in WorkerPlaces
    BY <1>3 DEF MasterPlaces, WorkerPlaces, LoopPlaces
  <2>3. rounds \in 0..MaxRounds /\ Out(queue, batch) \subseteq added
    BY SMTT(30), <1>1, <1>2, CheckQueueAssumption
  <2>4. batch \in [CheckThreads -> SUBSET Checks] /\ fOk \in [CheckThreads -> BOOLEAN]
    BY <1>1
  <2>5. queue \subseteq Checks /\ added \subseteq Checks
    BY <1>1
  <2> QED BY <1>1, <2>1, <2>2, <2>3, <2>4, <2>5 DEF CheckTypes
<1>5. Counting(queue, batch, nTodo)
  BY <1>1, <1>2, FS_EmptySet DEF Counting, Disjoint
<1>6. InHand /\ Executed
  BY <1>2 DEF InHand, Executed
<1>7. Recorded(queue, batch, fAllOk)
  BY <1>1 DEF Recorded
<1>8. NoFalseAlarm /\ StopIsLast
  BY <1>1, <1>2 DEF NoFalseAlarm, StopIsLast
<1>9. ResultIsRight
  BY <1>1, <1>2 DEF ResultIsRight
<1> QED BY <1>4, <1>5, <1>6, <1>7, <1>8, <1>9 DEF CheckInv

LEMMA CheckStep == CheckInv /\ [CheckNext]_checkVars => CheckInv'
<1> SUFFICES ASSUME CheckInv, [CheckNext]_checkVars PROVE CheckInv'
  OBVIOUS
<1>1. CASE Control
  BY <1>1, ControlKeeps
<1>2. CASE \/ NotifyOne \/ NotifyAll \/ Wait \/ RequestStop \/ DestructorNotify \/ DestructorJoin
           \/ \E t \in CheckThreads : SpuriousWake(t)
  BY <1>2, MovesKeep
<1>3. ASSUME NEW S \in SUBSET (Checks \ added) \ {{}}, Add(S) PROVE CheckInv'
  BY <1>3, AddKeeps
<1>4. ASSUME NEW t \in CheckThreads, Loop(t) PROVE CheckInv'
  <2>1. CASE Enter(t)
    BY <2>1, EmptyBatchTurn, ContinueKeeps DEF Enter
  <2>2. CASE CleanUp(t)
    BY <2>2, FullBatchTurn, ContinueKeeps DEF CleanUp
  <2>3. CASE Resume(t)
    <3>1. place[t] = "woken" /\ batch[t] = {}
      BY <2>3 DEF Resume, CheckInv, InHand
    <3> QED BY <2>3, <3>1, EmptyBatchTurn, ContinueKeeps DEF Resume
  <2>4. CASE Work(t)
    BY <2>4, WorkKeeps
  <2> QED BY <1>4, <2>1, <2>2, <2>3, <2>4 DEF Loop
<1>5. CASE UNCHANGED checkVars
  <2>1. UNCHANGED <<queue, nTodo, fAllOk, m_request_stop, place, batch, fOk, added, result, rounds>>
    BY <1>5 DEF checkVars, queueVars
  <2> QED BY <2>1, MoveKeeps DEF CheckInv, CheckTypes, StopIsLast
<1> QED BY <1>1, <1>2, <1>3, <1>4, <1>5 DEF CheckNext

-----------------------------------------------------------------------------

(* nTodo is exact in every state of CCheckQueue: a check is neither lost,  *)
(* nor counted twice, nor handed to two threads.                           *)
THEOREM TodoExact == CheckSpec => []TodoIsExact
<1>1. CheckInv => TodoIsExact
  BY DEF CheckInv, Counting, Disjoint, Out, TodoIsExact, Outstanding
<1> QED BY <1>1, CheckStart, CheckStep, PTL DEF CheckSpec

(* CCheckQueue::Wait returns only when every check of the block has been   *)
(* dealt with, and returns true exactly if none of them fails.             *)
THEOREM WaitIsRight == CheckSpec => []ResultIsRight
<1>1. CheckInv => ResultIsRight
  BY DEF CheckInv
<1> QED BY <1>1, CheckStart, CheckStep, PTL DEF CheckSpec

-----------------------------------------------------------------------------
(* The operations on one cache over a base *)

BaseMaps == [COutPoints -> Coins \cup {SPENT}]

(* A cache that is typed, correct over its base and sane. *)
Good(cache, base) == IsCache(cache) /\ FlagsCorrect(cache, base) /\ Sane(cache)

(* An empty cache shows its base. *)
LEMMA EmptyGood ==
  ASSUME NEW base \in BaseMaps PROVE Good(Empty, base) /\ Get(Empty, base) = base
  BY CoinAssumption
  DEF Good, Empty, Cache, IsCache, FlagsCorrect, Sane, Get, BaseMaps

(* What a typed cache shows is a coin map. *)
LEMMA GetType ==
  ASSUME NEW base \in BaseMaps, NEW cache, IsCache(cache) PROVE Get(cache, base) \in BaseMaps
  BY DEF IsCache, Get, BaseMaps

(* FetchCoin keeps the flags right and changes nothing that is shown. *)
LEMMA FetchGood ==
  ASSUME NEW base \in BaseMaps, NEW cache, Good(cache, base), NEW o \in COutPoints
  PROVE  /\ Good(FetchCoin(cache, base, o), base)
         /\ Get(FetchCoin(cache, base, o), base) = Get(cache, base)
         /\ FetchCoin(cache, base, o).coins[o] = ABSENT => base[o] = SPENT
  BY CoinAssumption
  DEF Good, FetchCoin, Cache, IsCache, FlagsCorrect, Sane, Get, BaseMaps

(* So does Uncache. *)
LEMMA UncacheGood ==
  ASSUME NEW base \in BaseMaps, NEW cache, Good(cache, base), NEW o \in COutPoints
  PROVE  /\ Good(Uncache(cache, o), base)
         /\ Get(Uncache(cache, o), base) = Get(cache, base)
  BY CoinAssumption
  DEF Good, Uncache, Erase, Cache, IsCache, FlagsCorrect, Sane, Get, BaseMaps

(* AddCoin shows the coin, unless it is one that is dropped. *)
LEMMA AddGood ==
  ASSUME NEW base \in BaseMaps, NEW cache, Good(cache, base), NEW o \in COutPoints,
         NEW coin \in Coins \cup Unspendable, NEW possible_overwrite \in BOOLEAN,
         ~possible_overwrite => Get(cache, base)[o] = SPENT
  PROVE  /\ Good(AddCoin(cache, o, coin, possible_overwrite), base)
         /\ Get(AddCoin(cache, o, coin, possible_overwrite), base) =
              IF coin \in Unspendable THEN Get(cache, base)
              ELSE [Get(cache, base) EXCEPT ![o] = coin]
<1>1. CASE coin \in Unspendable BY <1>1 DEF AddCoin
<1>2. CASE coin \notin Unspendable
  BY <1>2, CoinAssumption
  DEF Good, AddCoin, Cache, IsCache, FlagsCorrect, Sane, Get, BaseMaps
<1> QED BY <1>1, <1>2

(* SpendCoin shows that the coin is spent. *)
LEMMA SpendGood ==
  ASSUME NEW base \in BaseMaps, NEW cache, Good(cache, base), NEW o \in COutPoints,
         cache.coins[o] = ABSENT => base[o] = SPENT
  PROVE  /\ Good(SpendCoin(cache, o), base)
         /\ Get(SpendCoin(cache, o), base) = [Get(cache, base) EXCEPT ![o] = SPENT]
  BY CoinAssumption
  DEF Good, SpendCoin, Erase, Cache, IsCache, FlagsCorrect, Sane, Get, BaseMaps

(* BatchWrite makes the parent show what the child showed, and leaves the  *)
(* parent's flags right with respect to the grandparent.                   *)
LEMMA BatchWriteGood ==
  ASSUME NEW base \in BaseMaps, NEW parent, Good(parent, base),
         NEW child, Good(child, Get(parent, base))
  PROVE  /\ Good(BatchWrite(parent, child), base)
         /\ Get(BatchWrite(parent, child), base) = Get(child, Get(parent, base))
<1> DEFINE new == BatchWrite(parent, child)
           deleted == Deleted(parent, child)
           written == WrittenEntries(parent, child)
<1>1. /\ new.coins = [o \in COutPoints |-> IF o \in deleted THEN ABSENT
                                           ELSE IF o \in written THEN child.coins[o]
                                           ELSE parent.coins[o]]
      /\ new.DIRTY = (parent.DIRTY \ deleted) \cup written
      /\ new.FRESH = (parent.FRESH \ deleted) \cup MarkedFresh(parent, child)
  BY DEF BatchWrite, Cache
<1> HIDE DEF new
<1> SUFFICES Good(new, base) /\ Get(new, base) = Get(child, Get(parent, base))
  BY DEF new
<1>2. IsCache(new)
  BY SMTT(30), <1>1 DEF Good, IsCache, WrittenEntries, MarkedFresh
<1>3. ASSUME NEW o \in COutPoints
      PROVE  /\ o \in new.FRESH => base[o] = SPENT
             /\ o \notin new.DIRTY /\ new.coins[o] # ABSENT => new.coins[o] = base[o]
             /\ o \in new.DIRTY \cup new.FRESH => new.coins[o] # ABSENT
             /\ new.coins[o] = SPENT => o \in new.DIRTY \ new.FRESH
             /\ o \in new.FRESH => o \in new.DIRTY
             /\ (IF new.coins[o] = ABSENT THEN base[o] ELSE new.coins[o]) =
                  Get(child, Get(parent, base))[o]
  BY SMTT(30), <1>1, <1>3, CoinAssumption
  DEF Good, IsCache, FlagsCorrect, Sane, Get, BaseMaps, Deleted, Ignored, WrittenEntries,
      MarkedFresh
<1>4. FlagsCorrect(new, base) BY <1>3 DEF FlagsCorrect
<1>5. Sane(new) BY <1>3 DEF Sane
<1>6. Get(new, base) = Get(child, Get(parent, base)) BY <1>3 DEF Get
<1> QED BY <1>2, <1>4, <1>5, <1>6 DEF Good

(* The database stores what CoinsTip shows. *)
LEMMA DBBatchWriteGood ==
  ASSUME coinsDb \in BaseMaps, Good(coinsTip, coinsDb) PROVE DBBatchWrite(coinsTip) = TipCoins
  BY DEF Good, DBBatchWrite, TipCoins, Get, FlagsCorrect, IsCache

(* After Sync the cache agrees with the database it was written to. *)
LEMMA SyncedGood ==
  ASSUME coinsDb \in BaseMaps, Good(coinsTip, coinsDb)
  PROVE  Good(Synced(coinsTip), TipCoins) /\ Get(Synced(coinsTip), TipCoins) = TipCoins
<1> DEFINE new == Synced(coinsTip)
<1>1. /\ new.coins = [o \in COutPoints |-> IF coinsTip.coins[o] = SPENT THEN ABSENT
                                           ELSE coinsTip.coins[o]]
      /\ new.DIRTY = {} /\ new.FRESH = {}
  BY DEF Synced, Cache
<1> HIDE DEF new
<1>2. Good(new, TipCoins) /\ Get(new, TipCoins) = TipCoins
  BY SMTT(30), <1>1, CoinAssumption DEF Good, IsCache, FlagsCorrect, Sane, TipCoins, Get, BaseMaps
<1> QED BY <1>2 DEF new

-----------------------------------------------------------------------------
(* The inductive invariant *)
CacheInv == CacheTypeOK /\ FlagsAreCorrect /\ EntriesAreSane

LEMMA IInvGood ==
  CacheInv <=> /\ coinsDb \in BaseMaps /\ Good(coinsTip, coinsDb) /\ Good(view, TipCoins)
               /\ dbBest \in Hashes \cup {NoHash} /\ tipBest \in Hashes \cup {NoHash}
               /\ viewBest \in Hashes \cup {NoHash} /\ open \in BOOLEAN
               /\ ~open => view = Empty /\ viewBest = NoHash
  BY DEF CacheInv, CacheTypeOK, FlagsAreCorrect, EntriesAreSane, Good, BaseMaps

LEMMA IInvNext ==
  ASSUME coinsDb' \in BaseMaps, Good(coinsTip', coinsDb'), Good(view', TipCoins'),
         dbBest' \in Hashes \cup {NoHash}, tipBest' \in Hashes \cup {NoHash},
         viewBest' \in Hashes \cup {NoHash}, open' \in BOOLEAN,
         ~open' => view' = Empty /\ viewBest' = NoHash
  PROVE  CacheInv'
  BY DEF CacheInv, CacheTypeOK, FlagsAreCorrect, EntriesAreSane, Good, BaseMaps

LEMMA InitInv == CacheInit => CacheInv
<1> SUFFICES ASSUME CacheInit PROVE CacheInv OBVIOUS
<1> USE DEF CacheInit
<1>1. coinsDb \in BaseMaps BY DEF BaseMaps
<1>2. Good(coinsTip, coinsDb) /\ TipCoins = coinsDb BY <1>1, EmptyGood DEF TipCoins
<1>3. Good(view, TipCoins) BY <1>1, <1>2, EmptyGood
<1> QED BY <1>1, <1>2, <1>3, IInvGood

-----------------------------------------------------------------------------
(* Every step keeps the invariant and is a step of UtxoSet, or no step. *)

SimulatesUtxo == [Abstract!Next]_(Abstract!vars)

AbstractUnchanged ==
  UNCHANGED <<coinsDb, dbBest, TipCoins, TipBest, ViewCoins, ViewBest, open>>

LEMMA UnchangedSimulates == AbstractUnchanged => SimulatesUtxo
  BY DEF AbstractUnchanged, SimulatesUtxo, Abstract!vars

LEMMA LookUpStep == ASSUME CacheInv, NEW o \in COutPoints, LookUp(o) PROVE CacheInv' /\ SimulatesUtxo
<1> USE IInvGood, IInvNext DEF LookUp
<1>1. Good(coinsTip', coinsDb') /\ TipCoins' = TipCoins BY FetchGood DEF TipCoins
<1>2. CacheInv'
  <2>1. Good(view', TipCoins') BY <1>1
  <2> QED BY <1>1, <2>1
<1>3. AbstractUnchanged BY <1>1 DEF AbstractUnchanged, TipBest, ViewCoins, ViewBest
<1> QED BY <1>2, <1>3, UnchangedSimulates

LEMMA UncacheTipStep == ASSUME CacheInv, NEW o \in COutPoints, UncacheTip(o) PROVE CacheInv' /\ SimulatesUtxo
<1> USE IInvGood, IInvNext DEF UncacheTip
<1>1. Good(coinsTip', coinsDb') /\ TipCoins' = TipCoins BY UncacheGood DEF TipCoins
<1>2. CacheInv'
  <2>1. Good(view', TipCoins') BY <1>1
  <2> QED BY <1>1, <2>1
<1>3. AbstractUnchanged BY <1>1 DEF AbstractUnchanged, TipBest, ViewCoins, ViewBest
<1> QED BY <1>2, <1>3, UnchangedSimulates

(* A read through the view leaves both views as they are. *)
LEMMA ReadThrough ==
  ASSUME CacheInv, NEW o \in COutPoints, coinsTip' = FetchThrough(o), UNCHANGED coinsDb
  PROVE  Good(coinsTip', coinsDb') /\ TipCoins' = TipCoins /\ TipCoins \in BaseMaps
<1> USE IInvGood DEF FetchThrough
<1>1. TipCoins \in BaseMaps BY GetType DEF TipCoins, Good
<1>2. CASE coinsTip' = coinsTip BY <1>1, <1>2 DEF TipCoins
<1>3. CASE coinsTip' = FetchCoin(coinsTip, coinsDb, o) BY <1>1, <1>3, FetchGood DEF TipCoins
<1> QED BY <1>2, <1>3

LEMMA LookUpInViewStep ==
  ASSUME CacheInv, NEW o \in COutPoints, LookUpInView(o) PROVE CacheInv' /\ SimulatesUtxo
<1> USE IInvGood, IInvNext DEF LookUpInView
<1>1. Good(coinsTip', coinsDb') /\ TipCoins' = TipCoins /\ TipCoins \in BaseMaps BY ReadThrough
<1>2. Good(view', TipCoins') /\ ViewCoins' = ViewCoins BY <1>1, FetchGood DEF ViewCoins
<1>3. CacheInv' BY <1>1, <1>2
<1>4. AbstractUnchanged BY <1>1, <1>2 DEF AbstractUnchanged, TipBest, ViewBest
<1> QED BY <1>3, <1>4, UnchangedSimulates

LEMMA SpendCoinInViewStep ==
  ASSUME CacheInv, NEW o \in COutPoints, SpendCoinInView(o) PROVE CacheInv' /\ SimulatesUtxo
<1> USE IInvGood, IInvNext DEF SpendCoinInView
<1>1. Good(coinsTip', coinsDb') /\ TipCoins' = TipCoins /\ TipCoins \in BaseMaps BY ReadThrough
<1> DEFINE fetched == FetchCoin(view, TipCoins, o)
<1>2. /\ Good(fetched, TipCoins) /\ Get(fetched, TipCoins) = ViewCoins
      /\ fetched.coins[o] = ABSENT => TipCoins[o] = SPENT
  BY <1>1, FetchGood DEF ViewCoins
<1>3. view' = SpendCoin(fetched, o) OBVIOUS
<1> HIDE DEF fetched
<1>4. Good(view', TipCoins') /\ ViewCoins' = [ViewCoins EXCEPT ![o] = SPENT]
  BY SMTT(30), <1>1, <1>2, <1>3, SpendGood DEF ViewCoins
<1>5. CacheInv' BY <1>1, <1>4
<1>6. Abstract!Spend(o) BY SMTT(30), <1>1, <1>4 DEF Abstract!Spend, TipBest, ViewBest
<1> QED BY <1>5, <1>6 DEF SimulatesUtxo, Abstract!Next

LEMMA AddCoinToViewStep ==
  ASSUME CacheInv, NEW o \in COutPoints, NEW c \in Coins \cup Unspendable,
         NEW possible_overwrite \in BOOLEAN, AddCoinToView(o, c, possible_overwrite)
  PROVE  CacheInv' /\ SimulatesUtxo
<1> USE IInvGood, IInvNext DEF AddCoinToView
<1>1. TipCoins \in BaseMaps /\ TipCoins' = TipCoins BY GetType DEF TipCoins, Good
<1>2. /\ Good(view', TipCoins')
      /\ ViewCoins' = IF c \in Unspendable THEN ViewCoins ELSE [ViewCoins EXCEPT ![o] = c]
  BY SMTT(30), <1>1, AddGood DEF ViewCoins
<1>3. CacheInv' BY <1>1, <1>2
<1>4. CASE c \in Unspendable
  <2>1. AbstractUnchanged BY <1>1, <1>2, <1>4 DEF AbstractUnchanged, TipBest, ViewBest
  <2> QED BY <1>3, <2>1, UnchangedSimulates
<1>5. CASE c \notin Unspendable
  <2>1. Abstract!Add(o, c) BY SMTT(30), <1>1, <1>2, <1>5 DEF Abstract!Add, TipBest, ViewBest
  <2> QED BY <1>3, <1>5, <2>1 DEF SimulatesUtxo, Abstract!Next
<1> QED BY <1>4, <1>5

LEMMA SetBestBlockStep ==
  ASSUME CacheInv, NEW b \in Hashes, SetBestBlock(b) PROVE CacheInv' /\ SimulatesUtxo
<1> USE IInvGood, IInvNext DEF SetBestBlock
<1>1. TipCoins' = TipCoins /\ ViewCoins' = ViewCoins /\ TipBest' = TipBest
  BY DEF TipCoins, ViewCoins, TipBest
<1>2. CacheInv' BY <1>1
<1>3. ViewBest' = b BY CoinAssumption DEF ViewBest, Best
<1>4. Abstract!SetBest(b) BY SMTT(30), <1>1, <1>3 DEF Abstract!SetBest
<1> QED BY <1>2, <1>4 DEF SimulatesUtxo, Abstract!Next

LEMMA BeginViewStep == ASSUME CacheInv, BeginView PROVE CacheInv' /\ SimulatesUtxo
<1> USE IInvGood, IInvNext DEF BeginView
<1>1. /\ TipCoins' = TipCoins /\ ViewCoins' = ViewCoins
      /\ TipBest' = TipBest /\ ViewBest' = ViewBest
  BY DEF TipCoins, ViewCoins, TipBest, ViewBest
<1>2. CacheInv' BY <1>1
<1>3. Abstract!Begin BY <1>1 DEF Abstract!Begin
<1> QED BY <1>2, <1>3 DEF SimulatesUtxo, Abstract!Next

LEMMA FlushViewStep == ASSUME CacheInv, FlushView PROVE CacheInv' /\ SimulatesUtxo
<1> USE IInvGood, IInvNext DEF FlushView
<1>1. Good(coinsTip', coinsDb') /\ TipCoins' = ViewCoins BY BatchWriteGood DEF TipCoins, ViewCoins
<1>2. TipCoins' \in BaseMaps BY <1>1, GetType DEF TipCoins, Good
<1>3. Good(view', TipCoins') /\ ViewCoins' = ViewCoins
  BY <1>1, <1>2, EmptyGood DEF ViewCoins
<1>4. TipBest' = ViewBest /\ ViewBest' = ViewBest BY DEF TipBest, ViewBest, Best
<1>5. CacheInv' BY <1>1, <1>3
<1>6. Abstract!Commit BY <1>1, <1>3, <1>4 DEF Abstract!Commit
<1> QED BY <1>5, <1>6 DEF SimulatesUtxo, Abstract!Next

LEMMA DropViewStep == ASSUME CacheInv, DropView PROVE CacheInv' /\ SimulatesUtxo
<1> USE IInvGood, IInvNext DEF DropView
<1>1. TipCoins \in BaseMaps /\ TipCoins' = TipCoins /\ TipBest' = TipBest
  BY GetType DEF TipCoins, TipBest, Good
<1>2. Good(view', TipCoins') /\ ViewCoins' = TipCoins BY <1>1, EmptyGood DEF ViewCoins
<1>3. ViewBest' = TipBest BY <1>1 DEF ViewBest, Best
<1>4. CacheInv' BY <1>1, <1>2
<1>5. Abstract!Abort BY <1>1, <1>2, <1>3 DEF Abstract!Abort
<1> QED BY <1>4, <1>5 DEF SimulatesUtxo, Abstract!Next

(* Both ways to write CoinsTip leave it showing what it showed. *)
LEMMA WriteStep ==
  ASSUME CacheInv, ~open, TipBest # NoHash, Good(coinsTip', TipCoins), Get(coinsTip', TipCoins) = TipCoins,
         coinsDb' = DBBatchWrite(coinsTip), dbBest' = TipBest, tipBest' = TipBest,
         UNCHANGED <<view, viewBest, open>>
  PROVE  CacheInv' /\ SimulatesUtxo
<1> USE IInvGood, IInvNext
<1>1. coinsDb' = TipCoins /\ TipCoins \in BaseMaps
  BY DBBatchWriteGood, GetType DEF TipCoins, Good
<1>2. TipCoins' = TipCoins /\ ViewCoins' = ViewCoins BY <1>1 DEF TipCoins, ViewCoins
<1>3. TipBest' = TipBest /\ ViewBest' = ViewBest BY DEF TipBest, ViewBest, Best
<1>4. TipBest \in Hashes \cup {NoHash} BY DEF TipBest, Best
<1>5. CacheInv' BY <1>1, <1>2, <1>4
<1>6. Abstract!Write BY <1>1, <1>2, <1>3 DEF Abstract!Write
<1> QED BY <1>5, <1>6 DEF SimulatesUtxo, Abstract!Next

LEMMA FlushTipStep == ASSUME CacheInv, FlushTip PROVE CacheInv' /\ SimulatesUtxo
<1>1. TipCoins \in BaseMaps BY IInvGood, GetType DEF TipCoins, Good
<1>2. Good(coinsTip', TipCoins) /\ Get(coinsTip', TipCoins) = TipCoins
  BY <1>1, EmptyGood DEF FlushTip
<1> QED BY <1>2, WriteStep DEF FlushTip

LEMMA SyncTipStep == ASSUME CacheInv, SyncTip PROVE CacheInv' /\ SimulatesUtxo
<1>1. Good(coinsTip', TipCoins) /\ Get(coinsTip', TipCoins) = TipCoins
  BY IInvGood, SyncedGood DEF SyncTip
<1> QED BY <1>1, WriteStep DEF SyncTip

LEMMA RestartStep == ASSUME CacheInv, Restart PROVE CacheInv' /\ SimulatesUtxo
<1> USE IInvGood, IInvNext DEF Restart
<1>1. Good(coinsTip', coinsDb') /\ TipCoins' = coinsDb BY EmptyGood DEF TipCoins
<1>2. Good(view', TipCoins') /\ ViewCoins' = coinsDb BY <1>1, EmptyGood DEF ViewCoins
<1>3. TipBest' = dbBest /\ ViewBest' = dbBest BY DEF TipBest, ViewBest, Best
<1>4. CacheInv' BY <1>1, <1>2
<1>5. Abstract!Restart BY <1>1, <1>2, <1>3 DEF Abstract!Restart
<1> QED BY <1>4, <1>5 DEF SimulatesUtxo, Abstract!Next

LEMMA StepKeepsInvAndSimulates == CacheInv /\ [CacheNext]_cacheVars => CacheInv' /\ SimulatesUtxo
<1> SUFFICES ASSUME CacheInv, [CacheNext]_cacheVars PROVE CacheInv' /\ SimulatesUtxo OBVIOUS
<1>1. CASE BeginView BY <1>1, BeginViewStep
<1>2. CASE FlushView BY <1>2, FlushViewStep
<1>3. CASE DropView BY <1>3, DropViewStep
<1>4. CASE FlushTip BY <1>4, FlushTipStep
<1>5. CASE SyncTip BY <1>5, SyncTipStep
<1>6. CASE Restart BY <1>6, RestartStep
<1>7. ASSUME NEW o \in COutPoints, LookUp(o) PROVE CacheInv' /\ SimulatesUtxo BY <1>7, LookUpStep
<1>8. ASSUME NEW o \in COutPoints, UncacheTip(o) PROVE CacheInv' /\ SimulatesUtxo
  BY <1>8, UncacheTipStep
<1>9. ASSUME NEW o \in COutPoints, LookUpInView(o) PROVE CacheInv' /\ SimulatesUtxo
  BY <1>9, LookUpInViewStep
<1>10. ASSUME NEW o \in COutPoints, SpendCoinInView(o) PROVE CacheInv' /\ SimulatesUtxo
  BY <1>10, SpendCoinInViewStep
<1>11. ASSUME NEW o \in COutPoints, NEW c \in Coins \cup Unspendable,
              NEW possible_overwrite \in BOOLEAN, AddCoinToView(o, c, possible_overwrite)
       PROVE CacheInv' /\ SimulatesUtxo
  BY <1>11, AddCoinToViewStep
<1>12. ASSUME NEW b \in Hashes, SetBestBlock(b) PROVE CacheInv' /\ SimulatesUtxo
  BY <1>12, SetBestBlockStep
<1>13. CASE UNCHANGED cacheVars
  <2>1. AbstractUnchanged
    BY <1>13 DEF cacheVars, AbstractUnchanged, TipCoins, TipBest, ViewCoins, ViewBest
  <2>2. CacheInv' BY <1>13, IInvGood, IInvNext DEF cacheVars, TipCoins
  <2> QED BY <2>1, <2>2, UnchangedSimulates
<1> QED
  BY <1>1, <1>2, <1>3, <1>4, <1>5, <1>6, <1>7, <1>8, <1>9, <1>10, <1>11, <1>12, <1>13
  DEF CacheNext

-----------------------------------------------------------------------------
(* The inductive invariant holds of every state of the two caches. *)
THEOREM CacheInvariance == CacheSpec => []CacheInv
<1>1. CacheInv /\ [CacheNext]_cacheVars => CacheInv' BY StepKeepsInvAndSimulates
<1> QED BY <1>1, InitInv, PTL DEF CacheSpec

(* The caches and the database hold values of the types coins.h gives them *)
(* and no unspendable output (AddCoin).                                    *)
THEOREM TypeCorrect == CacheSpec => []CacheTypeOK
<1>1. CacheInv => CacheTypeOK BY DEF CacheInv
<1> QED BY <1>1, CacheInvariance, PTL

(* DIRTY and FRESH are right in both caches in every state: what coins.h   *)
(* calls a consensus failure never happens.                                *)
THEOREM FlagsStayCorrect == CacheSpec => []FlagsAreCorrect
<1>1. CacheInv => FlagsAreCorrect BY DEF CacheInv
<1> QED BY <1>1, CacheInvariance, PTL

(* SanityCheck's combinations of flags are the only ones. *)
THEOREM EntriesStaySane == CacheSpec => []EntriesAreSane
<1>1. CacheInv => EntriesAreSane BY DEF CacheInv
<1> QED BY <1>1, CacheInvariance, PTL

(* BatchWrite never meets a FRESH entry whose coin is unspent in the       *)
(* parent: its logic_error is unreachable.                                 *)
THEOREM NoMisappliedFresh == CacheSpec => []FlushNeverThrows
<1>1. CacheInv => FlushNeverThrows
  <2> SUFFICES ASSUME CacheInv, NEW o \in view.DIRTY \cap view.FRESH
               PROVE  coinsTip.coins[o] \in {ABSENT, SPENT}
    BY DEF FlushNeverThrows
  <2>1. o \in COutPoints BY IInvGood DEF Good, IsCache
  <2>2. TipCoins[o] = SPENT BY <2>1, IInvGood DEF Good, FlagsCorrect
  <2> QED BY <2>1, <2>2 DEF TipCoins, Get
<1> QED BY <1>1, CacheInvariance, PTL

LEMMA InitSimulates == CacheInit => Abstract!Init
<1> SUFFICES ASSUME CacheInit PROVE Abstract!Init OBVIOUS
<1> USE DEF CacheInit
<1>1. coinsDb \in BaseMaps BY DEF BaseMaps
<1>2. TipCoins = coinsDb BY <1>1, EmptyGood DEF TipCoins
<1>3. ViewCoins = coinsDb BY <1>1, <1>2, EmptyGood DEF ViewCoins
<1>4. TipBest = dbBest /\ ViewBest = dbBest BY DEF TipBest, ViewBest, Best
<1> QED BY <1>2, <1>3, <1>4 DEF Abstract!Init

(* A reader of the view, of CoinsTip or of the database sees the outputs   *)
(* that were added and not spent, after any sequence of reads, flushes,    *)
(* dropped views and restarts: the caches implement UtxoSet.               *)
THEOREM Refinement == CacheSpec => ImplementsUtxoSet
<1>1. CacheInv /\ [CacheNext]_cacheVars => [Abstract!Next]_(Abstract!vars)
  BY StepKeepsInvAndSimulates DEF SimulatesUtxo
<1> QED BY <1>1, InitSimulates, CacheInvariance, PTL DEF CacheSpec, ImplementsUtxoSet, Abstract!Spec

-----------------------------------------------------------------------------
(* cachedCoinsUsage *)

EntryMaps == [COutPoints -> Coins \cup {SPENT, ABSENT}]

LEMMA SizesAreNat ==
  ASSUME NEW held \in EntryMaps, NEW o \in COutPoints
  PROVE  DynamicMemoryUsage[held[o]] \in Nat
  BY CoinAssumption DEF EntryMaps

(* One entry takes as many bytes as its coin. *)
LEMMA UsageOfOne ==
  ASSUME NEW held \in EntryMaps, NEW o \in COutPoints
  PROVE  /\ IsFiniteSet({o} \X (1..DynamicMemoryUsage[held[o]]))
         /\ Usage(held, {o}) = DynamicMemoryUsage[held[o]]
<1> DEFINE n == DynamicMemoryUsage[held[o]]
<1>1. n \in Nat BY SizesAreNat
<1>2. Memory(held, {o}) = {o} \X (1..n) BY DEF Memory
<1> HIDE DEF n
<1>3. IsFiniteSet(1..n) /\ Cardinality(1..n) = n BY SMTT(30), <1>1, FS_Interval
<1>4. IsFiniteSet({o}) /\ Cardinality({o}) = 1 BY FS_Singleton
<1>5. IsFiniteSet({o} \X (1..n)) /\ Cardinality({o} \X (1..n)) = 1 * n
  <2> DEFINE I == 1..n
  <2> HIDE DEF I
  <2>1. IsFiniteSet({o} \X I) /\ Cardinality({o} \X I) = Cardinality({o}) * Cardinality(I)
    BY <1>3, <1>4, FS_Product DEF I
  <2> QED BY <1>3, <1>4, <2>1 DEF I
<1>6. Cardinality({o} \X (1..n)) = n
  <2>1. 1 * n = n BY SMTT(30), <1>1
  <2> QED BY <1>5, <2>1
<1>7. Usage(held, {o}) = n BY <1>2, <1>6 DEF Usage
<1> QED BY <1>5, <1>7 DEF n

LEMMA MemoryIsFinite ==
  ASSUME NEW held \in EntryMaps, NEW S \in SUBSET COutPoints
  PROVE  IsFiniteSet(Memory(held, S)) /\ Usage(held, S) \in Nat
<1> DEFINE cell == [o \in S |-> {o} \X (1..DynamicMemoryUsage[held[o]])]
           cells == {cell[o] : o \in S}
<1>1. IsFiniteSet(S) BY CoinAssumption, FS_Subset
<1>2. cell \in Surjection(S, cells) BY DEF Surjection
<1>3. \A o \in S : IsFiniteSet(cell[o]) BY UsageOfOne
<1>4. Memory(held, S) = UNION cells BY DEF Memory
<1> HIDE DEF cell
<1>5. IsFiniteSet(cells) BY <1>1, <1>2, FS_Surjection
<1>6. IsFiniteSet(UNION cells) BY <1>3, <1>5, FS_UNION
<1> QED BY <1>4, <1>6, FS_CardinalityType DEF Usage

(* Disjoint sets of entries add up. *)
LEMMA UsageAddsUp ==
  ASSUME NEW held \in EntryMaps, NEW S \in SUBSET COutPoints, NEW T \in SUBSET COutPoints,
         S \cap T = {}
  PROVE  Usage(held, S \cup T) = Usage(held, S) + Usage(held, T)
<1>1. IsFiniteSet(Memory(held, S)) /\ IsFiniteSet(Memory(held, T)) BY MemoryIsFinite
<1>2. Memory(held, S \cup T) = Memory(held, S) \cup Memory(held, T) BY DEF Memory
<1>3. Memory(held, S) \cap Memory(held, T) = {} BY SMTT(30) DEF Memory
<1> DEFINE A == Memory(held, S)
           B == Memory(held, T)
<1>4. Cardinality(A \cup B) = Cardinality(A) + Cardinality(B) - Cardinality(A \cap B)
  BY <1>1, FS_Union
<1>5. Cardinality(A \cap B) = 0 BY <1>3, FS_EmptySet
<1>6. Cardinality(A) \in Nat /\ Cardinality(B) \in Nat BY <1>1, FS_CardinalityType
<1>7. Cardinality(A \cup B) = Cardinality(A) + Cardinality(B)
  <2> HIDE DEF A, B
  <2> QED BY SMTT(30), <1>4, <1>5, <1>6
<1> QED BY <1>2, <1>7 DEF Usage

(* Only the coins of the entries in question count. *)
LEMMA UsageOfSame ==
  ASSUME NEW c1 \in EntryMaps, NEW c2 \in EntryMaps, NEW S \in SUBSET COutPoints,
         \A o \in S : c1[o] = c2[o]
  PROVE  Usage(c1, S) = Usage(c2, S)
  BY DEF Usage, Memory

(* An entry that is absent or spent takes no memory. *)
LEMMA UsageOfNone ==
  ASSUME NEW held \in EntryMaps, NEW S \in SUBSET COutPoints,
         \A o \in S : held[o] \in {ABSENT, SPENT}
  PROVE  Usage(held, S) = 0
<1>1. \A o \in S : 1..DynamicMemoryUsage[held[o]] = {} BY SMTT(30), CoinAssumption
<1>2. Memory(held, S) = {} BY <1>1 DEF Memory
<1> QED BY <1>2, FS_EmptySet DEF Usage

(* Replacing one coin changes the total by the difference of the two. *)
LEMMA UsageOfUpdate ==
  ASSUME NEW held \in EntryMaps, NEW o \in COutPoints, NEW c \in Coins \cup {SPENT, ABSENT}
  PROVE  Usage([held EXCEPT ![o] = c], COutPoints) =
           (Usage(held, COutPoints) - DynamicMemoryUsage[held[o]]) + DynamicMemoryUsage[c]
<1> DEFINE new == [held EXCEPT ![o] = c]
           rest == COutPoints \ {o}
<1>1. new \in EntryMaps /\ new[o] = c BY DEF EntryMaps
<1>2. \A p \in rest : new[p] = held[p] BY DEF EntryMaps
<1> HIDE DEF new
<1>3. Usage(new, rest) = Usage(held, rest) BY <1>1, <1>2, UsageOfSame
<1>4. rest \cup {o} = COutPoints /\ rest \cap {o} = {} OBVIOUS
<1>5. /\ Usage(new, COutPoints) = Usage(new, rest) + Usage(new, {o})
      /\ Usage(held, COutPoints) = Usage(held, rest) + Usage(held, {o})
  BY SMTT(30), <1>1, <1>4, UsageAddsUp
<1>6. /\ Usage(new, {o}) = DynamicMemoryUsage[c]
      /\ Usage(held, {o}) = DynamicMemoryUsage[held[o]]
  BY <1>1, UsageOfOne
<1>7. /\ DynamicMemoryUsage[c] \in Nat /\ DynamicMemoryUsage[held[o]] \in Nat
      /\ Usage(held, rest) \in Nat
  BY <1>1, SizesAreNat, MemoryIsFinite
<1> QED BY SMTT(30), <1>3, <1>5, <1>6, <1>7 DEF new

Counted(cache) == cache.cachedCoinsUsage = Usage(cache.coins, COutPoints)

LEMMA EmptyCounted == Counted(Empty)
<1>1. Empty.coins \in EntryMaps /\ \A o \in COutPoints : Empty.coins[o] = ABSENT
  BY DEF Empty, Cache, EntryMaps
<1>2. Usage(Empty.coins, COutPoints) = 0 BY <1>1, UsageOfNone
<1> QED BY <1>2 DEF Counted, Empty, Cache

LEMMA FetchCounted ==
  ASSUME NEW base \in BaseMaps, NEW cache, IsCache(cache), Counted(cache), NEW o \in COutPoints
  PROVE  Counted(FetchCoin(cache, base, o))
<1>1. cache.coins \in EntryMaps /\ base[o] \in Coins \cup {SPENT, ABSENT}
  BY DEF IsCache, EntryMaps, BaseMaps
<1>2. CASE cache.coins[o] # ABSENT \/ base[o] = SPENT BY <1>2 DEF FetchCoin
<1>3. CASE ~(cache.coins[o] # ABSENT \/ base[o] = SPENT)
  <2> DEFINE new == FetchCoin(cache, base, o)
  <2>1. /\ new.coins = [cache.coins EXCEPT ![o] = base[o]]
        /\ new.cachedCoinsUsage = cache.cachedCoinsUsage + DynamicMemoryUsage[base[o]]
    BY <1>3 DEF FetchCoin, Cache
  <2>2. DynamicMemoryUsage[cache.coins[o]] = 0 BY <1>3, CoinAssumption
  <2>3. Usage(cache.coins, COutPoints) \in Nat BY <1>1, MemoryIsFinite
  <2>4. Usage(new.coins, COutPoints) =
          (Usage(cache.coins, COutPoints) - 0) + DynamicMemoryUsage[base[o]]
    BY SMTT(30), <1>1, <2>1, <2>2, UsageOfUpdate
  <2> HIDE DEF new
  <2>5. Counted(new) BY SMTT(30), <2>1, <2>3, <2>4 DEF Counted
  <2> QED BY <2>5 DEF new
<1> QED BY <1>2, <1>3

LEMMA AddCounted ==
  ASSUME NEW cache, IsCache(cache), Counted(cache), NEW o \in COutPoints,
         NEW coin \in Coins \cup Unspendable, NEW possible_overwrite \in BOOLEAN
  PROVE  Counted(AddCoin(cache, o, coin, possible_overwrite))
<1>1. cache.coins \in EntryMaps BY DEF IsCache, EntryMaps
<1>2. CASE coin \in Unspendable BY <1>2 DEF AddCoin
<1>3. CASE coin \notin Unspendable
  <2> DEFINE new == AddCoin(cache, o, coin, possible_overwrite)
  <2>1. /\ new.coins = [cache.coins EXCEPT ![o] = coin]
        /\ new.cachedCoinsUsage =
             (cache.cachedCoinsUsage - DynamicMemoryUsage[cache.coins[o]])
               + DynamicMemoryUsage[coin]
    BY <1>3 DEF AddCoin, Cache
  <2>2. Counted(new) BY SMTT(30), <1>1, <1>3, <2>1, UsageOfUpdate DEF Counted
  <2> QED BY <2>2
<1> QED BY <1>2, <1>3

(* An entry that is erased or spent is no longer counted. *)
LEMMA DropCounted ==
  ASSUME NEW cache, IsCache(cache), Counted(cache), NEW o \in COutPoints,
         NEW c \in {ABSENT, SPENT}, NEW new, new.coins = [cache.coins EXCEPT ![o] = c],
         new.cachedCoinsUsage = cache.cachedCoinsUsage - DynamicMemoryUsage[cache.coins[o]]
  PROVE  Counted(new)
<1>1. cache.coins \in EntryMaps BY DEF IsCache, EntryMaps
<1>2. DynamicMemoryUsage[c] = 0 BY CoinAssumption
<1>3. Usage(cache.coins, COutPoints) \in Nat /\ DynamicMemoryUsage[cache.coins[o]] \in Nat
  BY <1>1, MemoryIsFinite, SizesAreNat
<1>4. Usage(new.coins, COutPoints) =
        (Usage(cache.coins, COutPoints) - DynamicMemoryUsage[cache.coins[o]]) + 0
  BY SMTT(30), <1>1, <1>2, UsageOfUpdate
<1> QED BY SMTT(30), <1>3, <1>4 DEF Counted

LEMMA EraseCounted ==
  ASSUME NEW cache, IsCache(cache), Counted(cache), NEW o \in COutPoints
  PROVE  Counted(Erase(cache, o)) /\ Counted(Uncache(cache, o)) /\ Counted(SpendCoin(cache, o))
<1>1. Counted(Erase(cache, o))
  <2>1. /\ Erase(cache, o).coins = [cache.coins EXCEPT ![o] = ABSENT]
        /\ Erase(cache, o).cachedCoinsUsage =
             cache.cachedCoinsUsage - DynamicMemoryUsage[cache.coins[o]]
    BY DEF Erase, Cache
  <2> QED BY <2>1, DropCounted
<1>2. Counted(Uncache(cache, o)) BY <1>1 DEF Uncache
<1>3. CASE cache.coins[o] = ABSENT \/ o \in cache.FRESH BY <1>1, <1>2, <1>3 DEF SpendCoin
<1>4. CASE ~(cache.coins[o] = ABSENT \/ o \in cache.FRESH)
  <2>1. /\ SpendCoin(cache, o).coins = [cache.coins EXCEPT ![o] = SPENT]
        /\ SpendCoin(cache, o).cachedCoinsUsage =
             cache.cachedCoinsUsage - DynamicMemoryUsage[cache.coins[o]]
    BY <1>4 DEF SpendCoin, Cache
  <2>2. Counted(SpendCoin(cache, o)) BY <2>1, DropCounted
  <2> QED BY <1>1, <1>2, <2>2
<1> QED BY <1>3, <1>4

(* Exchanging the coins of a set of entries: BatchWrite and Sync *)
LEMMA UsageOfExchange ==
  ASSUME NEW c1 \in EntryMaps, NEW c2 \in EntryMaps, NEW S \in SUBSET COutPoints,
         \A o \in COutPoints \ S : c1[o] = c2[o]
  PROVE  Usage(c2, COutPoints) = (Usage(c1, COutPoints) - Usage(c1, S)) + Usage(c2, S)
<1> DEFINE rest == COutPoints \ S
<1>1. rest \cup S = COutPoints /\ rest \cap S = {} OBVIOUS
<1>2. /\ Usage(c1, COutPoints) = Usage(c1, rest) + Usage(c1, S)
      /\ Usage(c2, COutPoints) = Usage(c2, rest) + Usage(c2, S)
  BY SMTT(30), <1>1, UsageAddsUp
<1>3. Usage(c2, rest) = Usage(c1, rest) BY UsageOfSame
<1>4. Usage(c1, rest) \in Nat /\ Usage(c1, S) \in Nat /\ Usage(c2, S) \in Nat
  BY MemoryIsFinite
<1> QED BY SMTT(30), <1>2, <1>3, <1>4

LEMMA BatchWriteCounted ==
  ASSUME NEW parent, IsCache(parent), Counted(parent), NEW child, IsCache(child)
  PROVE  Counted(BatchWrite(parent, child))
<1> DEFINE new == BatchWrite(parent, child)
           deleted == Deleted(parent, child)
           written == WrittenEntries(parent, child)
<1>1. /\ new.coins = [o \in COutPoints |-> IF o \in deleted THEN ABSENT
                                           ELSE IF o \in written THEN child.coins[o]
                                           ELSE parent.coins[o]]
      /\ new.cachedCoinsUsage =
           (parent.cachedCoinsUsage - Usage(parent.coins, deleted \cup written))
             + Usage(child.coins, written)
  BY DEF BatchWrite, Cache
<1>2. /\ deleted \subseteq COutPoints /\ written \subseteq COutPoints
      /\ deleted \cap written = {}
  BY DEF Deleted, WrittenEntries, IsCache
<1> HIDE DEF new, deleted, written
<1>3. parent.coins \in EntryMaps /\ child.coins \in EntryMaps /\ new.coins \in EntryMaps
  BY <1>1 DEF IsCache, EntryMaps
<1>4. Usage(new.coins, deleted) = 0 BY <1>1, <1>2, <1>3, UsageOfNone
<1>5. Usage(new.coins, written) = Usage(child.coins, written)
  BY <1>1, <1>2, <1>3, UsageOfSame
<1>6. Usage(new.coins, deleted \cup written) =
        Usage(new.coins, deleted) + Usage(new.coins, written)
  BY <1>2, <1>3, UsageAddsUp
<1>7. Usage(new.coins, COutPoints) =
        (Usage(parent.coins, COutPoints) - Usage(parent.coins, deleted \cup written))
          + Usage(new.coins, deleted \cup written)
  BY SMTT(30), <1>1, <1>2, <1>3, UsageOfExchange
<1>8. Usage(child.coins, written) \in Nat BY <1>2, <1>3, MemoryIsFinite
<1>9. Usage(new.coins, deleted \cup written) = Usage(child.coins, written)
  BY SMTT(30), <1>4, <1>5, <1>6, <1>8
<1>10. Counted(new) BY <1>1, <1>7, <1>9 DEF Counted
<1> QED BY <1>10 DEF new

LEMMA SyncedCounted ==
  ASSUME NEW cache, IsCache(cache), Counted(cache) PROVE Counted(Synced(cache))
<1> DEFINE new == Synced(cache)
           spent == {o \in COutPoints : cache.coins[o] = SPENT}
<1>1. /\ new.coins = [o \in COutPoints |-> IF o \in spent THEN ABSENT ELSE cache.coins[o]]
      /\ new.cachedCoinsUsage = cache.cachedCoinsUsage - Usage(cache.coins, spent)
  BY DEF Synced, Cache
<1>2. spent \subseteq COutPoints /\ \A o \in spent : cache.coins[o] = SPENT OBVIOUS
<1> HIDE DEF new, spent
<1>3. cache.coins \in EntryMaps /\ new.coins \in EntryMaps
  BY <1>1 DEF IsCache, EntryMaps
<1>4. Usage(new.coins, spent) = 0 /\ Usage(cache.coins, spent) = 0
  BY <1>1, <1>2, <1>3, UsageOfNone
<1>5. Usage(new.coins, COutPoints) =
        (Usage(cache.coins, COutPoints) - Usage(cache.coins, spent)) + Usage(new.coins, spent)
  BY SMTT(30), <1>1, <1>2, <1>3, UsageOfExchange
<1>6. Usage(cache.coins, COutPoints) \in Nat BY <1>3, MemoryIsFinite
<1>7. Counted(new) BY SMTT(30), <1>1, <1>4, <1>5, <1>6 DEF Counted
<1> QED BY <1>7 DEF new

LEMMA UsageStep == CacheInv /\ UsageIsExact /\ [CacheNext]_cacheVars => UsageIsExact'
<1> SUFFICES ASSUME CacheInv, UsageIsExact, [CacheNext]_cacheVars PROVE Counted(coinsTip') /\ Counted(view')
  BY DEF UsageIsExact, Counted
<1>0. /\ Counted(coinsTip) /\ Counted(view) /\ Counted(Empty) /\ IsCache(coinsTip) /\ IsCache(view)
      /\ coinsDb \in BaseMaps /\ TipCoins \in BaseMaps
  BY EmptyCounted, IInvGood, GetType DEF UsageIsExact, Counted, Good, TipCoins
<1>1. \A o \in COutPoints : Counted(FetchThrough(o))
  BY <1>0, FetchCounted DEF FetchThrough
<1>2. CASE BeginView \/ DropView \/ FlushTip \/ Restart
  BY <1>0, <1>2 DEF BeginView, DropView, FlushTip, Restart
<1>3. CASE FlushView BY <1>0, <1>3, BatchWriteCounted DEF FlushView
<1>4. CASE SyncTip BY <1>0, <1>4, SyncedCounted DEF SyncTip
<1>5. ASSUME NEW o \in COutPoints, LookUp(o) \/ UncacheTip(o)
      PROVE  Counted(coinsTip') /\ Counted(view')
  BY <1>0, <1>5, FetchCounted, EraseCounted DEF LookUp, UncacheTip
<1>6. ASSUME NEW o \in COutPoints, LookUpInView(o) PROVE Counted(coinsTip') /\ Counted(view')
  BY <1>0, <1>1, <1>6, FetchCounted DEF LookUpInView
<1>7. ASSUME NEW o \in COutPoints, SpendCoinInView(o) PROVE Counted(coinsTip') /\ Counted(view')
  <2> DEFINE fetched == FetchCoin(view, TipCoins, o)
  <2>1. Counted(fetched) BY <1>0, FetchCounted
  <2>2. IsCache(fetched) BY <1>0, IInvGood, FetchGood DEF Good
  <2>3. coinsTip' = FetchThrough(o) /\ view' = SpendCoin(fetched, o) BY <1>7 DEF SpendCoinInView
  <2> HIDE DEF fetched
  <2> QED BY <1>1, <2>1, <2>2, <2>3, EraseCounted
<1>8. ASSUME NEW o \in COutPoints, NEW c \in Coins \cup Unspendable,
             NEW possible_overwrite \in BOOLEAN, AddCoinToView(o, c, possible_overwrite)
      PROVE  Counted(coinsTip') /\ Counted(view')
  BY <1>0, <1>8, AddCounted DEF AddCoinToView
<1>9. ASSUME NEW b \in Hashes, SetBestBlock(b) PROVE Counted(coinsTip') /\ Counted(view')
  BY <1>0, <1>9 DEF SetBestBlock
<1>10. CASE UNCHANGED cacheVars BY <1>0, <1>10 DEF cacheVars
<1> QED BY <1>2, <1>3, <1>4, <1>5, <1>6, <1>7, <1>8, <1>9, <1>10 DEF CacheNext

(* cachedCoinsUsage of both caches is what SanityCheck adds up, after any  *)
(* sequence of operations: the flush threshold is compared with the truth. *)
THEOREM UsageStaysExact == CacheSpec => []UsageIsExact
<1>1. CacheInit => UsageIsExact BY EmptyCounted DEF CacheInit, UsageIsExact, Counted
<1> QED BY <1>1, UsageStep, CacheInvariance, PTL DEF CacheSpec

-----------------------------------------------------------------------------
(* LRUCache *)

LEMMA ElementIs == ASSUME NEW R, NEW s \in Seq(R), NEW i \in 1..Len(s) PROVE s[i] \in R
  BY SMTT(30)

(* The place of a key is unique, so Node finds it. *)
LEMMA NodeIs ==
  ASSUME NEW K, NEW V, NEW n \in Nat, NEW s \in LRU(K, V, n), NEW i \in 1..Len(s)
  PROVE  /\ Node(s, s[i].key) = i /\ value(s, s[i].key) = s[i].value
         /\ s[i].key \in keys(s) /\ s[i] \in [key : K, value : V]
<1>1. s \in Seq([key : K, value : V]) /\ \A a, b \in 1..Len(s) : s[a].key = s[b].key => a = b
  BY DEF LRU
<1>2. DOMAIN s = 1..Len(s) BY SMTT(30), <1>1
<1>3. Node(s, s[i].key) = i BY <1>1, <1>2 DEF Node
<1>4. s[i].key \in keys(s) BY <1>2 DEF keys
<1>5. s[i] \in [key : K, value : V] BY Zenon, <1>1, ElementIs
<1> QED BY <1>3, <1>4, <1>5 DEF value

LEMMA KeyAt ==
  ASSUME NEW K, NEW V, NEW n \in Nat, NEW s \in LRU(K, V, n), NEW e \in keys(s)
  PROVE  \E i \in 1..Len(s) : e = s[i].key /\ value(s, e) = s[i].value
<1>1. DOMAIN s = 1..Len(s) BY SMTT(30) DEF LRU
<1>2. PICK i \in 1..Len(s) : e = s[i].key BY <1>1 DEF keys
<1> QED BY SMTT(30), <1>2, NodeIs

SameNodes(s, t) ==
  /\ Len(t) = Len(s)
  /\ \A i \in 1..Len(s) : \E j \in 1..Len(s) : t[i] = s[j]
  /\ \A j \in 1..Len(s) : \E i \in 1..Len(s) : t[i] = s[j]

(* splice keeps every entry. *)
LEMMA SplicedIs ==
  ASSUME NEW K, NEW V, NEW n \in Nat, NEW s \in LRU(K, V, n), NEW it \in 1..Len(s)
  PROVE  Spliced(s, it) \in LRU(K, V, n) /\ SameNodes(s, Spliced(s, it))
<1> DEFINE t == Spliced(s, it)
           R == [key : K, value : V]
<1>1. /\ s \in Seq(R) /\ Len(s) \in Nat /\ Len(s) <= n
      /\ \A a, b \in 1..Len(s) : s[a].key = s[b].key => a = b
  BY SMTT(30) DEF LRU
<1>2. \A i \in 1..Len(s) : t[i] = IF i = 1 THEN s[it] ELSE IF i <= it THEN s[i - 1] ELSE s[i]
  BY DEF Spliced
<1> HIDE DEF R
<1>3. \A i \in 1..Len(s) : s[i] \in R BY <1>1, ElementIs
<1>4. \A i \in 1..Len(s) : t[i] \in R BY SMTT(30), <1>1, <1>2, <1>3
<1>5. t \in [1..Len(s) -> R] BY <1>4 DEF Spliced
<1>6. t \in Seq(R) /\ Len(t) = Len(s) BY SMTT(30), <1>1, <1>5
<1>7. ASSUME NEW i \in 1..Len(s) PROVE \E j \in 1..Len(s) : t[i] = s[j]
  <2>1. CASE i = 1 BY <1>2, <2>1
  <2>2. CASE i # 1 /\ i <= it
    <3>1. i - 1 \in 1..Len(s) BY SMTT(30), <1>1, <2>2
    <3> QED BY <1>2, <2>2, <3>1
  <2>3. CASE i # 1 /\ ~(i <= it) BY <1>2, <2>3
  <2> QED BY <2>1, <2>2, <2>3
<1>8. ASSUME NEW j \in 1..Len(s) PROVE \E i \in 1..Len(s) : t[i] = s[j]
  <2>1. CASE j = it
    <3>1. 1 \in 1..Len(s) BY SMTT(30), <1>1
    <3> QED BY <1>2, <2>1, <3>1
  <2>2. CASE j < it
    <3>1. j + 1 \in 1..Len(s) /\ j + 1 # 1 /\ j + 1 <= it /\ (j + 1) - 1 = j BY SMTT(30), <1>1, <2>2
    <3> QED BY <1>2, <3>1
  <2>3. CASE j > it
    <3>1. j # 1 /\ ~(j <= it) BY SMTT(30), <1>1, <2>3
    <3> QED BY <1>2, <3>1
  <2> QED BY SMTT(30), <1>1, <2>1, <2>2, <2>3
<1>9. ASSUME NEW a \in 1..Len(s), NEW b \in 1..Len(s), t[a].key = t[b].key PROVE a = b
  <2> DEFINE From1(i) == IF i = 1 THEN it ELSE IF i <= it THEN i - 1 ELSE i
  <2>1. \A i \in 1..Len(s) : From1(i) \in 1..Len(s) /\ t[i] = s[From1(i)] BY SMTT(30), <1>1, <1>2
  <2>2. From1(a) = From1(b)
    <3> HIDE DEF From1, t
    <3> QED BY <1>1, <1>9, <2>1
  <2> QED BY SMTT(30), <1>1, <2>2
<1> HIDE DEF t
<1>10. t \in LRU(K, V, n) BY <1>1, <1>6, <1>9 DEF LRU, R
<1> QED BY <1>6, <1>7, <1>8, <1>10 DEF t, SameNodes

LEMMA SameEntries ==
  ASSUME NEW K, NEW V, NEW n \in Nat, NEW s \in LRU(K, V, n), NEW t \in LRU(K, V, n),
         SameNodes(s, t)
  PROVE  keys(t) = keys(s) /\ \A e \in keys(s) : value(t, e) = value(s, e)
<1>1. ASSUME NEW e \in keys(s) PROVE e \in keys(t) /\ value(t, e) = value(s, e)
  <2>1. PICK j \in 1..Len(s) : e = s[j].key /\ value(s, e) = s[j].value BY SMTT(30), KeyAt
  <2>2. PICK i \in 1..Len(t) : t[i] = s[j] BY <2>1 DEF SameNodes
  <2>3. t[i].key \in keys(t) /\ value(t, t[i].key) = t[i].value BY SMTT(30), <2>2, NodeIs
  <2> QED BY <2>1, <2>2, <2>3
<1>2. ASSUME NEW e \in keys(t) PROVE e \in keys(s)
  <2>1. PICK i \in 1..Len(t) : e = t[i].key BY SMTT(30), KeyAt
  <2>2. PICK j \in 1..Len(s) : t[i] = s[j] BY <2>1 DEF SameNodes
  <2>3. s[j].key \in keys(s) BY <2>2, NodeIs
  <2> QED BY <2>1, <2>2, <2>3
<1> QED BY <1>1, <1>2

(* get and try_get change the order only. *)
LEMMA TouchedIs ==
  ASSUME NEW K, NEW V, NEW n \in Nat, NEW s \in LRU(K, V, n), NEW key
  PROVE  /\ Touched(s, key) \in LRU(K, V, n)
         /\ keys(Touched(s, key)) = keys(s)
         /\ \A e \in keys(s) : value(Touched(s, key), e) = value(s, e)
<1>1. CASE key \notin keys(s) BY <1>1 DEF Touched, contains
<1>2. CASE key \in keys(s)
  <2>1. PICK it \in 1..Len(s) : key = s[it].key BY SMTT(30), <1>2, KeyAt
  <2>2. Touched(s, key) = Spliced(s, it) BY SMTT(30), <1>2, <2>1, NodeIs DEF Touched, contains
  <2>3. Spliced(s, it) \in LRU(K, V, n) /\ SameNodes(s, Spliced(s, it))
    BY <2>1, SplicedIs
  <2>4. /\ keys(Spliced(s, it)) = keys(s)
        /\ \A e \in keys(s) : value(Spliced(s, it), e) = value(s, e)
    BY SMTT(30), <2>3, SameEntries
  <2> QED BY <2>2, <2>3, <2>4
<1> QED BY <1>1, <1>2

(* A new key: what stays keeps its value. *)
LEMMA InsertIs ==
  ASSUME NEW K, NEW V, NEW n \in Nat \ {0}, NEW s \in LRU(K, V, n),
         NEW key \in K, NEW val \in V, key \notin keys(s)
  PROVE  /\ insert(s, n, key, val) \in LRU(K, V, n)
         /\ \A e \in keys(s) \cap keys(insert(s, n, key, val)) :
              value(insert(s, n, key, val), e) = value(s, e)
<1> DEFINE t == insert(s, n, key, val)
           p == <<Entry(key, val)>> \o s
           R == [key : K, value : V]
<1>1. /\ s \in Seq(R) /\ Len(s) \in Nat /\ Len(s) <= n
      /\ \A a, b \in 1..Len(s) : s[a].key = s[b].key => a = b
  BY SMTT(30) DEF LRU
<1>2. Entry(key, val) \in R /\ Entry(key, val).key = key BY DEF Entry
<1>3. p \in Seq(R) /\ Len(p) = Len(s) + 1 BY SMTT(30), <1>1, <1>2
<1>4. p[1] = Entry(key, val) /\ \A i \in 2..Len(p) : p[i] = s[i - 1] BY SMTT(30), <1>1, <1>2, <1>3
<1>5. t = IF Len(p) > n THEN SubSeq(p, 1, Len(p) - 1) ELSE p BY DEF insert, contains
<1> HIDE DEF p, R
<1>6. /\ t \in Seq(R) /\ Len(t) <= n /\ Len(t) <= Len(p) /\ Len(t) \in Nat
      /\ \A i \in 1..Len(t) : t[i] = p[i]
  <2>1. CASE Len(p) > n
    <3>1. t = SubSeq(p, 1, Len(p) - 1) BY <1>5, <2>1
    <3>2. Len(p) - 1 \in Nat /\ Len(p) - 1 <= n BY SMTT(30), <1>1, <1>3
    <3>3. \A i \in 1..(Len(p) - 1) : p[i] \in R BY SMTT(30), <1>1, <1>3
    <3>4. t \in Seq(R) /\ Len(t) = Len(p) - 1 /\ \A i \in 1..(Len(p) - 1) : t[i] = p[i]
      BY SMTT(30), <1>1, <1>3, <3>1, <3>2, <3>3
    <3> QED BY SMTT(30), <1>1, <1>3, <3>2, <3>4
  <2>2. CASE ~(Len(p) > n) BY SMTT(30), <1>1, <1>3, <1>5, <2>2
  <2> QED BY <2>1, <2>2
<1> HIDE DEF t
<1>7. ASSUME NEW i \in 1..Len(t)
      PROVE  \/ i = 1 /\ t[i].key = key
             \/ i - 1 \in 1..Len(s) /\ t[i] = s[i - 1] /\ t[i].key # key
  <2>1. CASE i = 1 BY <1>2, <1>4, <1>6, <2>1
  <2>2. CASE i # 1
    <3>1. i \in 2..Len(p) /\ i - 1 \in 1..Len(s) BY SMTT(30), <1>1, <1>3, <1>6, <2>2
    <3>2. t[i] = s[i - 1] BY <1>4, <1>6, <3>1
    <3> QED BY SMTT(30), <3>1, <3>2, NodeIs
  <2> QED BY <2>1, <2>2
<1>8. ASSUME NEW a \in 1..Len(t), NEW b \in 1..Len(t), t[a].key = t[b].key PROVE a = b
  <2>1. CASE a = 1 \/ b = 1 BY SMTT(30), <1>7, <1>8, <2>1
  <2>2. CASE a # 1 /\ b # 1
    <3>1. a - 1 = b - 1 BY <1>1, <1>7, <1>8, <2>2
    <3> QED BY SMTT(30), <1>6, <3>1
  <2> QED BY <2>1, <2>2
<1>9. t \in LRU(K, V, n) BY <1>6, <1>8 DEF LRU, R
<1>10. ASSUME NEW e \in keys(s), e \in keys(t) PROVE value(t, e) = value(s, e)
  <2>1. PICK i \in 1..Len(t) : e = t[i].key /\ value(t, e) = t[i].value BY SMTT(30), <1>9, <1>10, KeyAt
  <2>2. i - 1 \in 1..Len(s) /\ t[i] = s[i - 1] BY <1>7, <2>1
  <2> QED BY SMTT(30), <2>1, <2>2, NodeIs
<1> QED BY <1>9, <1>10 DEF t

-----------------------------------------------------------------------------
(* EtchashCache *)

LEMMA EtchashStart == EtchashInit => EtchashInv
<1> SUFFICES ASSUME EtchashInit PROVE EtchashInv OBVIOUS
<1>1. <<>> \in LRU(EtchashEpochs, Verifiers, Capacity) BY SMTT(30), EtchashAssumption DEF LRU
<1> QED BY <1>1 DEF EtchashInit, EtchashInv, Inside

(* A step that leaves the cache alone. *)
LEMMA EtchashKept ==
  ASSUME EtchashInv, UNCHANGED g_etchash_caches, NEW v \in Verifiers,
         \/ \E e \in EtchashEpochs : CheckProofOfWorkEtchash(v, e)
         \/ Lock(v) \/ ContainsEpoch(v) \/ HashimotoLight(v)
  PROVE  EtchashInv'
<1> USE EtchashAssumption DEF EtchashInv, Inside
<1>1. ASSUME NEW e \in EtchashEpochs, CheckProofOfWorkEtchash(v, e) PROVE EtchashInv'
  BY <1>1 DEF CheckProofOfWorkEtchash
<1>2. CASE Lock(v) BY <1>2 DEF Lock
<1>3. CASE ContainsEpoch(v) BY <1>3 DEF ContainsEpoch
<1>4. CASE HashimotoLight(v) BY <1>4 DEF HashimotoLight
<1> QED BY <1>1, <1>2, <1>3, <1>4

LEMMA EtchashGet ==
  ASSUME EtchashInv, NEW v \in Verifiers, GetEpoch(v)
  PROVE  EtchashInv' /\ Stable(g_etchash_caches, g_etchash_caches')
<1>1. /\ g_etchash_caches' \in LRU(EtchashEpochs, Verifiers, Capacity)
      /\ keys(g_etchash_caches') = keys(g_etchash_caches)
      /\ \A e \in keys(g_etchash_caches) : value(g_etchash_caches', e) = value(g_etchash_caches, e)
  BY SMTT(30), EtchashAssumption, TouchedIs DEF EtchashInv, GetEpoch
<1>2. Stable(g_etchash_caches, g_etchash_caches') BY <1>1 DEF Stable
<1>3. EtchashInv' BY <1>1, EtchashAssumption DEF EtchashInv, Inside, GetEpoch, contains
<1> QED BY <1>2, <1>3

LEMMA EtchashInsert ==
  ASSUME EtchashInv, NEW v \in Verifiers, InsertGenerated(v)
  PROVE  EtchashInv' /\ Stable(g_etchash_caches, g_etchash_caches')
<1>1. epoch[v] \in EtchashEpochs /\ epoch[v] \notin keys(g_etchash_caches)
  BY DEF EtchashInv, InsertGenerated, contains
<1>2. /\ g_etchash_caches' \in LRU(EtchashEpochs, Verifiers, Capacity)
      /\ \A e \in keys(g_etchash_caches) \cap keys(g_etchash_caches') :
           value(g_etchash_caches', e) = value(g_etchash_caches, e)
  BY SMTT(30), <1>1, EtchashAssumption, InsertIs DEF EtchashInv, InsertGenerated
<1>3. Stable(g_etchash_caches, g_etchash_caches') BY <1>2 DEF Stable
<1>4. \A u \in Verifiers : verifier[u] \in {"contains", "get", "generate"} => u = v
  BY DEF EtchashInv, Inside, InsertGenerated
<1>5. EtchashInv' BY <1>2, <1>4, EtchashAssumption DEF EtchashInv, Inside, InsertGenerated
<1> QED BY <1>3, <1>5

LEMMA StableIfSame == ASSUME NEW s PROVE Stable(s, s) BY DEF Stable

LEMMA EtchashStep ==
  EtchashInv /\ [EtchashNext]_etchashVars =>
    EtchashInv' /\ Stable(g_etchash_caches, g_etchash_caches')
<1> SUFFICES ASSUME EtchashInv, [EtchashNext]_etchashVars
             PROVE  EtchashInv' /\ Stable(g_etchash_caches, g_etchash_caches')
  OBVIOUS
<1>1. ASSUME NEW v \in Verifiers,
             \/ \E e \in EtchashEpochs : CheckProofOfWorkEtchash(v, e)
             \/ Lock(v) \/ ContainsEpoch(v) \/ HashimotoLight(v)
      PROVE  EtchashInv' /\ Stable(g_etchash_caches, g_etchash_caches')
  <2>1. UNCHANGED g_etchash_caches
    BY <1>1 DEF CheckProofOfWorkEtchash, Lock, ContainsEpoch, HashimotoLight
  <2> QED BY <1>1, <2>1, EtchashKept, StableIfSame
<1>2. ASSUME NEW v \in Verifiers, GetEpoch(v)
      PROVE  EtchashInv' /\ Stable(g_etchash_caches, g_etchash_caches')
  BY <1>2, EtchashGet
<1>3. ASSUME NEW v \in Verifiers, InsertGenerated(v)
      PROVE  EtchashInv' /\ Stable(g_etchash_caches, g_etchash_caches')
  BY <1>3, EtchashInsert
<1>4. CASE UNCHANGED etchashVars
  <2>1. EtchashInv' BY <1>4 DEF etchashVars, EtchashInv, Inside
  <2> QED BY <1>4, <2>1, StableIfSame DEF etchashVars
<1> QED BY <1>1, <1>2, <1>3, <1>4 DEF EtchashNext, Verify

(* Between contains() and get() no other verifier evicts the epoch, since  *)
(* every insert is made under g_etchash_cache_gen.                         *)
THEOREM EntryStaysUntilGet == EtchashSpec => []GetNeverThrows
<1>1. EtchashInv => GetNeverThrows BY DEF EtchashInv, GetNeverThrows
<1> QED BY <1>1, EtchashStart, EtchashStep, PTL DEF EtchashSpec

(* Who generates the cache of an epoch does so while no other one is in    *)
(* the LRU cache, and what is there is moved or evicted, never replaced.   *)
THEOREM GeneratedOnce == EtchashSpec => NeverGeneratedTwice
<1>1. EtchashInv /\ [EtchashNext]_etchashVars =>
        [Stable(g_etchash_caches, g_etchash_caches')]_etchashVars
  BY EtchashStep
<1> QED BY <1>1, EtchashStart, EtchashStep, PTL DEF EtchashSpec, NeverGeneratedTwice

-----------------------------------------------------------------------------
(* RandomXCache: the caches *)

LEMMA TryInsertIs ==
  ASSUME NEW V, NEW s \in Caches(V), NEW key \in RandomXEpochs, NEW val \in V
  PROVE  TryInsert(s, key, val) \in Caches(V) /\ Stable(s, TryInsert(s, key, val))
<1> USE RandomXAssumption DEF Caches, Stable
<1>1. CASE contains(s, key) BY SMTT(30), <1>1, TouchedIs DEF TryInsert
<1>2. CASE ~contains(s, key) BY SMTT(30), <1>2, InsertIs DEF TryInsert, contains
<1> QED BY <1>1, <1>2

LEMMA LookUpIs ==
  ASSUME NEW V, NEW s \in Caches(V), NEW key
  PROVE  Touched(s, key) \in Caches(V) /\ Stable(s, Touched(s, key))
  BY SMTT(30), TouchedIs, RandomXAssumption DEF Caches, Stable

LEMMA ClearIs == ASSUME NEW V, NEW s PROVE <<>> \in Caches(V) /\ Stable(s, <<>>)
<1>1. <<>> \in Caches(V) BY SMTT(30), RandomXAssumption DEF Caches, LRU
<1>2. keys(<<>>) = {} BY SMTT(30) DEF keys
<1> QED BY <1>1, <1>2 DEF Stable

(* The caches after a step. *)
CachesStep ==
  /\ cache_rx_cache' \in Caches(Callers) /\ cache_rx_vm_light' \in Caches(Callers)
  /\ cache_rx_dataset' \in Caches(VMThreads) /\ cache_rx_vm_fast' \in Caches(VMThreads)
  /\ Stable(cache_rx_cache, cache_rx_cache') /\ Stable(cache_rx_vm_light, cache_rx_vm_light')
  /\ Stable(cache_rx_vm_fast, cache_rx_vm_fast') /\ Stable(cache_rx_dataset, cache_rx_dataset')

LEMMA CachesSame == ASSUME CachesInv, UNCHANGED caches PROVE CachesStep
  BY StableIfSame DEF CachesInv, CachesStep, caches

LEMMA GetVMCaches == ASSUME CachesInv, NEW c \in Callers, GetVM(c) PROVE CachesStep
<1> USE DEF CachesInv, CachesStep
<1>1. CASE LookUpFast(c) BY <1>1, LookUpIs, StableIfSame DEF LookUpFast
<1>2. CASE LookUpLight(c) BY <1>2, LookUpIs, StableIfSame DEF LookUpLight
<1>3. CASE LookUpCache(c) BY <1>3, LookUpIs, StableIfSame DEF LookUpCache
<1>4. CASE InsertCache(c) BY <1>4, TryInsertIs, StableIfSame DEF InsertCache
<1>5. CASE InsertLight(c) BY <1>5, TryInsertIs, StableIfSame DEF InsertLight
<1>6. CASE UNCHANGED caches BY <1>6, CachesSame
<1> QED
  BY <1>1, <1>2, <1>3, <1>4, <1>5, <1>6, GetVM(c)
  DEF GetVM, AllocFailed, NoThread, Register, CheckProofOfWorkRandomX, StartThread

LEMMA CreateFastVMCaches == ASSUME CachesInv, NEW t \in VMThreads, CreateFastVM(t) PROVE CachesStep
<1> USE DEF CachesInv, CachesStep, Running, Ended
<1>1. CASE LookUpDataset(t) BY <1>1, LookUpIs, StableIfSame DEF LookUpDataset
<1>2. CASE InsertDataset(t) BY <1>2, TryInsertIs, StableIfSame DEF InsertDataset
<1>3. CASE InsertFast(t) BY <1>3, TryInsertIs, StableIfSame DEF InsertFast
<1>4. CASE ThreadFailed(t) BY <1>4, CachesSame DEF ThreadFailed
<1> QED BY <1>1, <1>2, <1>3, <1>4, CreateFastVM(t) DEF CreateFastVM

(* Who has an epoch after a step. *)
LEMMA CallerEpochs ==
  ASSUME CachesInv, CachesStep, NEW c \in Callers, NEW label \in CallerLabels, CallerGoes(c, label),
         NEW e \in RandomXEpochs \cup {Nothing}, nEpoch' = [nEpoch EXCEPT ![c] = e],
         label = "idle" \/ e \in RandomXEpochs, UNCHANGED threads
  PROVE  CachesInv'
  BY DEF CachesInv, CachesStep, CallerGoes, threads, Running

LEMMA ThreadEpochs ==
  ASSUME CachesInv, CachesStep, NEW t \in VMThreads, NEW label \in ThreadLabels,
         thread' = [thread EXCEPT ![t] = label],
         NEW e \in RandomXEpochs, threadEpoch' = [threadEpoch EXCEPT ![t] = e],
         caller' \in [Callers -> CallerLabels], UNCHANGED nEpoch,
         \A c \in Callers : caller[c] = "idle" => caller'[c] = "idle"
  PROVE  CachesInv'
  BY DEF CachesInv, CachesStep, Running

LEMMA CachesSteps ==
  CachesInv /\ [RandomXNext]_randomxVars => CachesInv' /\ CachesStep
<1> SUFFICES ASSUME CachesInv, [RandomXNext]_randomxVars PROVE CachesInv' /\ CachesStep OBVIOUS
<1>1. ASSUME NEW c \in Callers, NEW e \in RandomXEpochs, CallGetVM(c, e) PROVE CachesInv' /\ CachesStep
  <2>1. CachesStep BY <1>1, ClearIs, StableIfSame DEF CallGetVM, CachesInv, CachesStep
  <2>2. UNCHANGED threads /\ CallerGoes(c, "fast") /\ nEpoch' = [nEpoch EXCEPT ![c] = e]
    BY <1>1 DEF CallGetVM
  <2> QED BY Zenon, <2>1, <2>2, CallerEpochs DEF CallerLabels
<1>2. ASSUME NEW c \in Callers, GetVM(c) PROVE CachesInv' /\ CachesStep
  <2>1. CachesStep BY <1>2, GetVMCaches
  <2>2. CASE \E t \in VMThreads : StartThread(c, t)
    <3>1. PICK t \in VMThreads : StartThread(c, t) BY <2>2
    <3> QED BY Zenon, <2>1, <3>1, ThreadEpochs DEF StartThread, CachesInv, CallerGoes, ThreadLabels, CallerLabels
  <2>3. CASE ~ \E t \in VMThreads : StartThread(c, t)
    <3>1. \E label \in CallerLabels : /\ CallerGoes(c, label)
                                      /\ UNCHANGED nEpoch \/ (label = "idle" /\ nEpoch' = [nEpoch EXCEPT ![c] = Nothing])
      BY <1>2, <2>3 DEF GetVM, LookUpFast, LookUpLight, LookUpCache, InsertCache, InsertLight,
        AllocFailed, NoThread, Register, CheckProofOfWorkRandomX, CallerLabels
    <3>2. UNCHANGED threads /\ caller[c] # "idle"
      BY <1>2, <2>3 DEF GetVM, LookUpFast, LookUpLight, LookUpCache, InsertCache, InsertLight,
        AllocFailed, NoThread, Register, CheckProofOfWorkRandomX
    <3>3. PICK label \in CallerLabels : /\ CallerGoes(c, label)
                                        /\ UNCHANGED nEpoch \/ (label = "idle" /\ nEpoch' = [nEpoch EXCEPT ![c] = Nothing])
      BY <3>1
    <3>4. CASE UNCHANGED nEpoch
      <4>1. nEpoch' = [nEpoch EXCEPT ![c] = nEpoch[c]] /\ nEpoch[c] \in RandomXEpochs
        BY <3>2, <3>4 DEF CachesInv
      <4> QED BY Zenon, <2>1, <3>2, <3>3, <4>1, CallerEpochs
    <3>5. CASE label = "idle" /\ nEpoch' = [nEpoch EXCEPT ![c] = Nothing]
      BY Zenon, <2>1, <3>2, <3>3, <3>5, CallerEpochs
    <3> QED BY <2>1, <3>3, <3>4, <3>5
  <2> QED BY <2>1, <2>2, <2>3
<1>3. ASSUME NEW t \in VMThreads, CreateFastVM(t) PROVE CachesInv' /\ CachesStep
  <2>1. CachesStep BY <1>3, CreateFastVMCaches
  <2>2. /\ \E label \in ThreadLabels : thread' = [thread EXCEPT ![t] = label]
        /\ UNCHANGED <<callers, threadEpoch>> /\ Running(t)
    BY <1>3 DEF CreateFastVM, LookUpDataset, InsertDataset, InsertFast, ThreadFailed, ThreadLabels, Running, Ended
  <2>3. threadEpoch[t] \in RandomXEpochs /\ threadEpoch' = [threadEpoch EXCEPT ![t] = threadEpoch[t]]
    BY <2>2 DEF CachesInv
  <2>4. caller' \in [Callers -> CallerLabels] /\ UNCHANGED <<caller, nEpoch>>
    BY <2>2 DEF callers, CachesInv
  <2> QED BY Zenon, <2>1, <2>2, <2>3, <2>4, ThreadEpochs
<1>4. CASE UNCHANGED <<caches, callers, threads>>
  <2>1. CachesInv' BY <1>4 DEF caches, callers, threads, CachesInv, Running
  <2> QED BY <1>4, <2>1, CachesSame
<1>5. CASE FinishIBD \/ SwapThreads \/ JoinThreads \/ UNCHANGED randomxVars
  BY <1>4, <1>5, Zenon DEF FinishIBD, SwapThreads, JoinThreads, randomxVars
<1> QED BY <1>1, <1>2, <1>3, <1>5 DEF RandomXNext, Stopped

LEMMA CachesStart == RandomXInit => CachesInv
  BY ClearIs DEF RandomXInit, CachesInv, CallerLabels, ThreadLabels, Running

(* Two threads may build an object of the same epoch at the same time, and *)
(* the first to come back wins: nothing in a cache is replaced.            *)
THEOREM FirstBuiltStays == RandomXSpec => EntriesAreStable
<1>1. CachesInv /\ [RandomXNext]_randomxVars =>
        [/\ Stable(cache_rx_cache, cache_rx_cache')
         /\ Stable(cache_rx_vm_light, cache_rx_vm_light')
         /\ Stable(cache_rx_vm_fast, cache_rx_vm_fast')
         /\ Stable(cache_rx_dataset, cache_rx_dataset')]_randomxVars
  BY CachesSteps DEF CachesStep
<1> QED BY <1>1, CachesStart, CachesSteps, PTL DEF RandomXSpec, EntriesAreStable

-----------------------------------------------------------------------------
(* RandomXCache: the threads *)

USE DEF CallerLabels, ThreadLabels

LEMMA RandomXStart == RandomXInit => RandomXInv
  BY DEF RandomXInit, RandomXInv, ThreadsTracked, NoCallerAfterSwap, Running

(* A step of a caller that neither starts nor registers a thread. *)
LEMMA CallerStep ==
  ASSUME RandomXInv, NEW c \in Callers, NEW label \in CallerLabels, caller[c] # "register",
         shutdown # "no" => caller[c] # "idle", CallerGoes(c, label),
         UNCHANGED <<started, threads, stop>>
  PROVE  RandomXInv'
<1> USE DEF RandomXInv, CallerGoes, threads, stop
<1>1. caller' \in [Callers -> CallerLabels] OBVIOUS
<1>2. ThreadsTracked' BY <1>1 DEF ThreadsTracked, Running
<1>3. NoCallerAfterSwap' BY DEF NoCallerAfterSwap
<1> QED BY <1>1, <1>2, <1>3

LEMMA StartThreadStep ==
  ASSUME RandomXInv, NEW c \in Callers, NEW t \in VMThreads, StartThread(c, t) PROVE RandomXInv'
<1> USE DEF RandomXInv, CallerGoes, StartThread, stop
<1>1. /\ caller' \in [Callers -> CallerLabels] /\ thread' \in [VMThreads -> ThreadLabels]
      /\ started' \in [Callers -> VMThreads \cup {Nothing}]
  OBVIOUS
<1>2. ThreadsTracked' BY SMTT(60), <1>1 DEF ThreadsTracked, Running
<1>3. NoCallerAfterSwap' BY DEF NoCallerAfterSwap
<1> QED BY <1>1, <1>2, <1>3

LEMMA RegisterStep == ASSUME RandomXInv, NEW c \in Callers, Register(c) PROVE RandomXInv'
<1> USE DEF RandomXInv, CallerGoes, Register, threads
<1>1. /\ caller' \in [Callers -> CallerLabels] /\ thread' \in [VMThreads -> ThreadLabels]
      /\ started' \in [Callers -> VMThreads \cup {Nothing}]
  OBVIOUS
<1>2. ThreadsTracked' BY <1>1 DEF ThreadsTracked, Running
<1>3. NoCallerAfterSwap' BY DEF NoCallerAfterSwap
<1> QED BY <1>1, <1>2, <1>3

LEMMA GetVMStep == ASSUME RandomXInv, NEW c \in Callers, GetVM(c) PROVE RandomXInv'
<1>1. CASE LookUpFast(c) BY <1>1, CallerStep DEF LookUpFast
<1>2. CASE LookUpLight(c) BY <1>2, CallerStep DEF LookUpLight
<1>3. CASE LookUpCache(c) BY <1>3, CallerStep DEF LookUpCache
<1>4. CASE AllocFailed(c) BY <1>4, CallerStep DEF AllocFailed
<1>5. CASE InsertCache(c) BY <1>5, CallerStep DEF InsertCache
<1>6. CASE InsertLight(c) BY <1>6, CallerStep DEF InsertLight
<1>7. CASE NoThread(c) BY <1>7, CallerStep DEF NoThread
<1>8. CASE CheckProofOfWorkRandomX(c) BY <1>8, CallerStep DEF CheckProofOfWorkRandomX
<1>9. CASE Register(c) BY <1>9, RegisterStep
<1>10. ASSUME NEW t \in VMThreads, StartThread(c, t) PROVE RandomXInv' BY <1>10, StartThreadStep
<1> QED
  BY <1>1, <1>2, <1>3, <1>4, <1>5, <1>6, <1>7, <1>8, <1>9, <1>10, GetVM(c) DEF GetVM

LEMMA CreateFastVMStep == ASSUME RandomXInv, NEW t \in VMThreads, CreateFastVM(t) PROVE RandomXInv'
<1>1. PICK label \in ThreadLabels : thread' = [thread EXCEPT ![t] = label]
  BY DEF CreateFastVM, LookUpDataset, InsertDataset, InsertFast, ThreadFailed
<1>2. Running(t) /\ UNCHANGED <<callers, stop>>
  BY DEF CreateFastVM, LookUpDataset, InsertDataset, InsertFast, ThreadFailed, Running, Ended
<1> USE DEF RandomXInv, callers, stop
<1>3. thread' \in [VMThreads -> ThreadLabels] BY <1>1
<1>4. ThreadsTracked' BY <1>1, <1>2 DEF ThreadsTracked, Running
<1>5. NoCallerAfterSwap' BY <1>2 DEF NoCallerAfterSwap
<1> QED BY <1>2, <1>3, <1>4, <1>5

(* Nothing the invariant speaks of has changed. *)
LEMMA RandomXStutter == ASSUME RandomXInv, UNCHANGED <<callers, threads, stop>> PROVE RandomXInv'
  BY DEF RandomXInv, ThreadsTracked, NoCallerAfterSwap, Running, callers, threads, stop

LEMMA RandomXStep == RandomXInv /\ [RandomXNext]_randomxVars => RandomXInv'
<1> SUFFICES ASSUME RandomXInv, [RandomXNext]_randomxVars PROVE RandomXInv' OBVIOUS
<1>1. ASSUME NEW c \in Callers, NEW e \in RandomXEpochs, CallGetVM(c, e) PROVE RandomXInv'
  BY <1>1, CallerStep DEF CallGetVM
<1>2. ASSUME NEW c \in Callers, GetVM(c) PROVE RandomXInv' BY <1>2, GetVMStep
<1>3. ASSUME NEW t \in VMThreads, CreateFastVM(t) PROVE RandomXInv' BY <1>3, CreateFastVMStep
<1>4. CASE FinishIBD
  <2>1. UNCHANGED <<callers, threads, stop>> BY <1>4, Zenon DEF FinishIBD
  <2> QED BY <2>1, RandomXStutter
<1>5. CASE SwapThreads
  BY <1>5 DEF SwapThreads, RandomXInv, ThreadsTracked, NoCallerAfterSwap, Running, callers, threads
<1>6. CASE JoinThreads
  <2> USE DEF JoinThreads, RandomXInv, callers, threads
  <2>1. \A t \in VMThreads : ~Running(t)
    BY <1>6 DEF ThreadsTracked, NoCallerAfterSwap, Running
  <2> QED BY <1>6, <2>1 DEF ThreadsTracked, NoCallerAfterSwap, Running
<1>7. CASE UNCHANGED randomxVars BY <1>7, RandomXStutter DEF randomxVars
<1> QED BY <1>1, <1>2, <1>3, <1>4, <1>5, <1>6, <1>7 DEF RandomXNext, Stopped

(* When StopRandomXThreads has returned, no thread is left that could use  *)
(* the static caches, and the vector holds no thread that was not joined.  *)
THEOREM ThreadsStop == RandomXSpec => []NoThreadOutlivesStop
<1>1. RandomXInv => NoThreadOutlivesStop
  BY DEF RandomXInv, ThreadsTracked, NoCallerAfterSwap, NoThreadOutlivesStop, Running
<1> QED BY <1>1, RandomXStart, RandomXStep, PTL DEF RandomXSpec

=============================================================================

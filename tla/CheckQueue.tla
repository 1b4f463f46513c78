------------------------------ MODULE CheckQueue ------------------------------
(***************************************************************************)
(* CCheckQueue (checkqueue.h): the script checks of a block are shared     *)
(* between worker threads and the thread that connects the block (the      *)
(* master), which joins in Wait and returns whether all of them passed.    *)
(* A step is one critical section of m_mutex, one notification made        *)
(* outside it, or the execution of a batch.                                *)
(***************************************************************************)
EXTENDS Integers, FiniteSetsExt

CONSTANTS
  Workers, Master,
  Checks,         \* the checks a block may need
  Failing,        \* those that return false
  nBatchSize,
  MaxRounds       \* blocks connected

ASSUME CheckQueueAssumption ==
  /\ Master \notin Workers /\ IsFiniteSet(Workers) /\ IsFiniteSet(Checks)
  /\ Failing \subseteq Checks
  /\ nBatchSize \in Nat \ {0} /\ MaxRounds \in Nat

CheckThreads == Workers \cup {Master}

VARIABLES
  queue,            \* the order does not matter, so a set
  nIdle, nTotal, fAllOk, nTodo, m_request_stop,
  place,
  batch,            \* the checks a thread took in its last turn; nNow is their number
  fOk,
  added,            \* all checks of this round
  result,           \* did the last Wait return true?
  rounds

queueVars == <<queue, nIdle, nTotal, fAllOk, nTodo, m_request_stop>>
checkVars == <<queueVars, place, batch, fOk, added, result, rounds>>

(* Where a thread is: outside Loop ("idle" and "adding" without and with a *)
(* CCheckQueueControl, the notifications of Add and of the destructor,     *)
(* join), about to lock m_mutex at the top of the loop, inside             *)
(* condition_variable::wait before and after a notification, working.      *)
LoopPlaces == {"lock", "wait", "woken", "work"}
MasterPlaces ==
  {"idle", "adding", "notify_one", "notify_all", "stop", "join", "joined"} \cup LoopPlaces
WorkerPlaces == LoopPlaces \cup {"done"}

(* The types of the fields of CCheckQueue and of the locals of Loop; the   *)
(* unsigned nTodo and the counters never go below zero.                    *)
CheckTypeOK ==
  /\ queue \subseteq Checks /\ added \subseteq Checks
  /\ nTodo \in Nat /\ nIdle \in Nat /\ nTotal \in Nat
  /\ fAllOk \in BOOLEAN /\ m_request_stop \in BOOLEAN /\ result \in BOOLEAN
  /\ place \in [CheckThreads -> MasterPlaces \cup WorkerPlaces]
  /\ place[Master] \in MasterPlaces /\ \A w \in Workers : place[w] \in WorkerPlaces
  /\ batch \in [CheckThreads -> SUBSET Checks] /\ fOk \in [CheckThreads -> BOOLEAN]
  /\ rounds \in 0..MaxRounds

CheckInit ==
  /\ queue = {} /\ nIdle = 0 /\ nTotal = 0 /\ fAllOk = TRUE /\ nTodo = 0
  /\ m_request_stop = FALSE
  /\ place = [t \in CheckThreads |-> IF t = Master THEN "idle" ELSE "lock"]
  /\ batch = [t \in CheckThreads |-> {}] /\ fOk = [t \in CheckThreads |-> TRUE]
  /\ added = {} /\ result = TRUE /\ rounds = 0

-----------------------------------------------------------------------------
(* Waiting and waking *)

Waiting(S) == {t \in S : place[t] = "wait"}

(* notify_all *)
WakeAll(S) == [t \in CheckThreads |-> IF t \in Waiting(S) THEN "woken" ELSE place[t]]

(* A condition variable may also wake a thread without a notification. *)
SpuriousWake(t) ==
  /\ place[t] = "wait" /\ place' = [place EXCEPT ![t] = "woken"]
  /\ UNCHANGED <<queueVars, batch, fOk, added, result, rounds>>

-----------------------------------------------------------------------------
(* The master: CCheckQueueControl, Add, and the destructor *)

Control ==
  /\ place[Master] = "idle" /\ rounds < MaxRounds
  /\ place' = [place EXCEPT ![Master] = "adding"] /\ rounds' = rounds + 1 /\ added' = {}
  /\ UNCHANGED <<queueVars, batch, fOk, result>>

(* An empty vector is ignored.  The notification follows the unlock. *)
Add(S) ==
  /\ place[Master] = "adding"
  /\ queue' = queue \cup S /\ nTodo' = nTodo + Cardinality(S) /\ added' = added \cup S
  /\ place' = [place EXCEPT ![Master] = IF Cardinality(S) = 1 THEN "notify_one" ELSE "notify_all"]
  /\ UNCHANGED <<nIdle, nTotal, fAllOk, m_request_stop, batch, fOk, result, rounds>>

NotifyOne ==
  /\ place[Master] = "notify_one"
  /\ IF Waiting(Workers) = {}
     THEN place' = [place EXCEPT ![Master] = "adding"]
     ELSE \E w \in Waiting(Workers) :
            place' = [place EXCEPT ![Master] = "adding", ![w] = "woken"]
  /\ UNCHANGED <<queueVars, batch, fOk, added, result, rounds>>

NotifyAll ==
  /\ place[Master] = "notify_all"
  /\ place' = [WakeAll(Workers) EXCEPT ![Master] = "adding"]
  /\ UNCHANGED <<queueVars, batch, fOk, added, result, rounds>>

(* Called by the owner, or by the destructor of the control if not yet done. *)
Wait ==
  /\ place[Master] = "adding" /\ place' = [place EXCEPT ![Master] = "lock"]
  /\ UNCHANGED <<queueVars, batch, fOk, added, result, rounds>>

(* ~CCheckQueue: set the flag, notify, join. *)
RequestStop ==
  /\ place[Master] = "idle" /\ m_request_stop' = TRUE
  /\ place' = [place EXCEPT ![Master] = "stop"]
  /\ UNCHANGED <<queue, nIdle, nTotal, fAllOk, nTodo, batch, fOk, added, result, rounds>>

(* Mutant: one worker is notified. *)
DestructorNotifyOne ==
  /\ place[Master] = "stop"
  /\ IF Waiting(Workers) = {}
     THEN place' = [place EXCEPT ![Master] = "join"]
     ELSE \E w \in Waiting(Workers) : place' = [place EXCEPT ![Master] = "join", ![w] = "woken"]
  /\ UNCHANGED <<queueVars, batch, fOk, added, result, rounds>>

DestructorNotify ==
  /\ place[Master] = "stop" /\ place' = [WakeAll(Workers) EXCEPT ![Master] = "join"]
  /\ UNCHANGED <<queueVars, batch, fOk, added, result, rounds>>

DestructorJoin ==
  /\ place[Master] = "join" /\ \A w \in Workers : place[w] = "done"
  /\ place' = [place EXCEPT ![Master] = "joined"]
  /\ UNCHANGED <<queueVars, batch, fOk, added, result, rounds>>

-----------------------------------------------------------------------------
(* Loop *)

(* How many checks to take now. *)
nNow(total, idle) ==
  LET share == Cardinality(queue) \div (total + idle + 1)
  IN Max({1, Min({nBatchSize, share})})

(* From the while loop to the end of the critical section or of Loop, with *)
(* the counters and places as the code before it left them.                *)
Return(t, ok, todo, total, idle, places) ==
  /\ t = Master /\ queue = {} /\ ~m_request_stop /\ todo = 0
  /\ nTotal' = total - 1 /\ result' = ok /\ fAllOk' = TRUE
  /\ nTodo' = todo /\ nIdle' = idle
  /\ place' = [places EXCEPT ![t] = "idle"]
  /\ batch' = [batch EXCEPT ![t] = {}]
  /\ UNCHANGED <<queue, m_request_stop, fOk, added, rounds>>

Sleep(t, ok, todo, total, idle, places) ==
  /\ queue = {} /\ ~m_request_stop /\ ~(t = Master /\ todo = 0)
  /\ nIdle' = idle + 1 /\ fAllOk' = ok /\ nTodo' = todo /\ nTotal' = total
  /\ place' = [places EXCEPT ![t] = "wait"]
  /\ batch' = [batch EXCEPT ![t] = {}]
  /\ UNCHANGED <<queue, m_request_stop, fOk, added, result, rounds>>

(* Mutant: the checks taken stay in the queue. *)
TakeCopies(t, ok, todo, total, idle, places) ==
  /\ queue # {} /\ ~m_request_stop
  /\ \E S \in kSubset(nNow(total, idle), queue) :
        batch' = [batch EXCEPT ![t] = S]
  /\ fOk' = [fOk EXCEPT ![t] = ok]
  /\ nIdle' = idle /\ fAllOk' = ok /\ nTodo' = todo /\ nTotal' = total
  /\ place' = [places EXCEPT ![t] = "work"]
  /\ UNCHANGED <<queue, m_request_stop, added, result, rounds>>

Take(t, ok, todo, total, idle, places) ==
  /\ queue # {} /\ ~m_request_stop
  /\ \E S \in kSubset(nNow(total, idle), queue) :
        queue' = queue \ S /\ batch' = [batch EXCEPT ![t] = S]
  /\ fOk' = [fOk EXCEPT ![t] = ok]
  /\ nIdle' = idle /\ fAllOk' = ok /\ nTodo' = todo /\ nTotal' = total
  /\ place' = [places EXCEPT ![t] = "work"]
  /\ UNCHANGED <<m_request_stop, added, result, rounds>>

Leave(t, ok, todo, total, idle, places) ==
  /\ m_request_stop
  /\ nIdle' = idle /\ fAllOk' = ok /\ nTodo' = todo /\ nTotal' = total
  /\ place' = [places EXCEPT ![t] = "done"]
  /\ batch' = [batch EXCEPT ![t] = {}]
  /\ UNCHANGED <<queue, m_request_stop, fOk, added, result, rounds>>

Continue(t, ok, todo, total, idle, places) ==
  \/ Return(t, ok, todo, total, idle, places)
  \/ Sleep(t, ok, todo, total, idle, places)
  \/ Take(t, ok, todo, total, idle, places)
  \/ Leave(t, ok, todo, total, idle, places)

(* The first turn of a call. *)
Enter(t) ==
  /\ place[t] = "lock" /\ batch[t] = {}
  /\ Continue(t, fAllOk, nTodo, nTotal + 1, nIdle, place)

(* Mutant: the last worker does not notify the master. *)
CleanUpSilently(t) ==
  /\ place[t] = "lock" /\ batch[t] # {}
  /\ Continue(t, fAllOk /\ fOk[t], nTodo - Cardinality(batch[t]), nTotal, nIdle, place)

(* Mutant: the result of the batch is not merged. *)
CleanUpForgets(t) ==
  /\ place[t] = "lock" /\ batch[t] # {}
  /\ LET todo == nTodo - Cardinality(batch[t])
     IN Continue(t, fAllOk, todo, nTotal, nIdle,
                 IF todo = 0 /\ t # Master THEN WakeAll({Master}) ELSE place)

(* A later turn first accounts for the batch of the previous one; the      *)
(* worker that finishes the last check notifies the master.                *)
CleanUp(t) ==
  /\ place[t] = "lock" /\ batch[t] # {}
  /\ LET todo == nTodo - Cardinality(batch[t])
     IN Continue(t, fAllOk /\ fOk[t], todo, nTotal, nIdle,
                 IF todo = 0 /\ t # Master THEN WakeAll({Master}) ELSE place)

(* wait returns with m_mutex held again. *)
Resume(t) ==
  /\ place[t] = "woken" /\ Continue(t, fAllOk, nTodo, nTotal, nIdle - 1, place)

(* The checks run until one fails. *)
Work(t) ==
  /\ place[t] = "work" /\ place' = [place EXCEPT ![t] = "lock"]
  /\ fOk' = [fOk EXCEPT ![t] = @ /\ batch[t] \cap Failing = {}]
  /\ UNCHANGED <<queueVars, batch, added, result, rounds>>

-----------------------------------------------------------------------------

Loop(t) == Enter(t) \/ CleanUp(t) \/ Resume(t) \/ Work(t)

CheckNext ==
  \/ Control \/ NotifyOne \/ NotifyAll \/ Wait
  \/ \E S \in SUBSET (Checks \ added) \ {{}} : Add(S)
  \/ RequestStop \/ DestructorNotify \/ DestructorJoin
  \/ \E t \in CheckThreads : Loop(t) \/ SpuriousWake(t)

(* Running threads keep running, and a control that was created is waited  *)
(* for at the latest by its destructor.                                    *)
CheckFairness ==
  /\ \A t \in CheckThreads : WF_checkVars(Loop(t))
  /\ WF_checkVars(NotifyOne) /\ WF_checkVars(NotifyAll)
  /\ WF_checkVars(DestructorNotify) /\ WF_checkVars(DestructorJoin)
  /\ WF_checkVars(Wait)

CheckSpec == CheckInit /\ [][CheckNext]_checkVars /\ CheckFairness

-----------------------------------------------------------------------------
(* Properties *)

(* The master is outside a round: Wait has returned or was never called. *)
QuietPlaces == {"idle", "stop", "join", "joined"}

Outstanding == queue \cup UNION {batch[t] : t \in CheckThreads}

(* nTodo counts the checks that wait in the queue or are in the hands of a *)
(* thread, each of them once; a check is never handed out twice.           *)
TodoIsExact ==
  /\ nTodo = Cardinality(Outstanding)
  /\ \A t \in CheckThreads : batch[t] \cap queue = {}
  /\ \A t, u \in CheckThreads : t # u => batch[t] \cap batch[u] = {}

(* Wait returns neither early nor with a wrong answer: at its return every *)
(* check of the round has been dealt with, the answer is true exactly if   *)
(* none of them fails, and the queue is as new for the next block.         *)
ResultIsRight ==
  place[Master] \in QuietPlaces =>
    /\ result <=> (added \cap Failing = {})
    /\ Outstanding = {} /\ nTodo = 0 /\ fAllOk

(* nIdle is the number of threads in wait and nTotal of threads inside     *)
(* Loop: the share computed from them never divides by a wrong number.     *)
CountersAreExact ==
  /\ nIdle = Cardinality({t \in CheckThreads : place[t] \in {"wait", "woken"}})
  /\ ~m_request_stop =>
       nTotal = Cardinality({t \in CheckThreads :
                               \/ place[t] \in {"wait", "woken", "work"}
                               \/ place[t] = "lock" /\ batch[t] # {}})

(* No wake-up is lost: once Wait is called, it returns. *)
WaitReturns == place[Master] = "lock" ~> place[Master] = "idle"

(* The destructor ends: every worker sees m_request_stop. *)
WorkersStop == m_request_stop ~> place[Master] = "joined"
===============================================================================

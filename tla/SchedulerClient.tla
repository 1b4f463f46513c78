--------------------------- MODULE SchedulerClient ----------------------------
(***************************************************************************)
(* CScheduler::serviceQueue and SingleThreadedSchedulerClient              *)
(* (scheduler.cpp), which carry the notifications of validation to their   *)
(* subscribers.  Threads of validation add callbacks; one or more service  *)
(* threads run the ProcessQueue tasks.  A step is one critical section of  *)
(* newTaskMutex or m_callbacks_mutex, or one notification.                 *)
(***************************************************************************)
EXTENDS Naturals, Sequences, FiniteSets, Functions

CONSTANTS
  Producers, Services,
  Main,             \* the thread that shuts the node down
  MaxAdded          \* callbacks the producers add

ASSUME SchedulerAssumption ==
  /\ Producers \cap Services = {} /\ Main \notin Producers \cup Services
  /\ MaxAdded \in Nat

VARIABLES
  m_callbacks_pending, m_are_callbacks_running,
  taskQueue,        \* "process" (ProcessQueue) and "periodic" (scheduleEvery), by time
  stopRequested,
  pc,
  running,          \* the callbacks in execution, by thread
  issued            \* callbacks issued so far, numbered

clientVars == <<m_callbacks_pending, m_are_callbacks_running>>
schedulerVars == <<clientVars, taskQueue, stopRequested, pc, running, issued>>

AllThreads == Producers \cup Services \cup {Main}
Callbacks == 1..(MaxAdded + 2)    \* two are of Shutdown itself

(* Inside the client: about to check in MaybeScheduleProcessQueue, to      *)
(* schedule, to notify; about to enter ProcessQueue, in the callback, and  *)
(* at the end of it.  Inside serviceQueue: at the head of the loops, in    *)
(* wait, in wait_until before and after the time of the first task, and in *)
(* a periodic task.  The main thread: see Shutdown below.                  *)
ClientPlaces == {"maybe", "schedule", "notify", "process", "callback", "finish"}
ServicePlaces == {"service", "wait", "wait_until", "due", "periodic", "stopped"}
MainPlaces == {"running", "stop", "join", "flush", "empty", "last", "unregister", "down"}
Home(t) == IF t \in Services THEN "service" ELSE IF t = Main THEN "empty" ELSE "idle"

SchedulerTypeOK ==
  /\ m_callbacks_pending \in Seq(Callbacks) /\ m_are_callbacks_running \in BOOLEAN
  /\ taskQueue \in Seq({"process", "periodic"}) /\ stopRequested \in BOOLEAN
  /\ issued \in 0..(MaxAdded + 2)
  /\ pc \in [AllThreads -> ClientPlaces \cup ServicePlaces \cup MainPlaces \cup {"idle"}]
  /\ running \in [AllThreads -> {<<>>} \cup {<<f>> : f \in Callbacks}]

SchedulerInit ==
  /\ m_callbacks_pending = <<>> /\ m_are_callbacks_running = FALSE
  /\ taskQueue \in {<<>>, <<"periodic">>} /\ stopRequested = FALSE /\ issued = 0
  /\ pc = [t \in AllThreads |-> IF t = Main THEN "running" ELSE Home(t)]
  /\ running = [t \in AllThreads |-> <<>>]

Goto(t, place) == pc' = [pc EXCEPT ![t] = place]
OnlyMoves == UNCHANGED <<clientVars, taskQueue, stopRequested, running, issued>>

-----------------------------------------------------------------------------
(* SingleThreadedSchedulerClient *)

(* AddToProcessQueue, up to its call of MaybeScheduleProcessQueue: by a    *)
(* producer until Shutdown has joined it, and by the first                 *)
(* ForceFlushStateToDisk of Shutdown itself.                               *)
AddToProcessQueue(t) ==
  /\ \/ t \in Producers /\ pc[t] = "idle" /\ issued < MaxAdded
        /\ pc[Main] \in {"running", "stop", "join"}
     \/ t = Main /\ pc[t] = "flush"
  /\ issued' = issued + 1
  /\ m_callbacks_pending' = Append(m_callbacks_pending, issued + 1)
  /\ Goto(t, "maybe")
  /\ UNCHANGED <<m_are_callbacks_running, taskQueue, stopRequested, running>>

MaybeScheduleProcessQueue(t) ==
  /\ pc[t] = "maybe"
  /\ Goto(t, IF m_are_callbacks_running \/ m_callbacks_pending = <<>>
             THEN Home(t) ELSE "schedule")
  /\ OnlyMoves

ProcessQueue(t) ==
  /\ pc[t] = "process"
  /\ IF m_are_callbacks_running \/ m_callbacks_pending = <<>>
     THEN /\ Goto(t, Home(t))
          /\ UNCHANGED <<clientVars, running>>
     ELSE /\ m_are_callbacks_running' = TRUE
          /\ running' = [running EXCEPT ![t] = <<Head(m_callbacks_pending)>>]
          /\ m_callbacks_pending' = Tail(m_callbacks_pending)
          /\ Goto(t, "callback")
  /\ UNCHANGED <<taskQueue, stopRequested, issued>>

Callback(t) ==
  /\ pc[t] = "callback" /\ Goto(t, "finish")
  /\ running' = [running EXCEPT ![t] = <<>>]
  /\ UNCHANGED <<clientVars, taskQueue, stopRequested, issued>>

(* Mutant: the rest is not rescheduled. *)
FinishAlone(t) ==
  /\ pc[t] = "finish" /\ Goto(t, Home(t))
  /\ m_are_callbacks_running' = FALSE
  /\ UNCHANGED <<m_callbacks_pending, taskQueue, stopRequested, running, issued>>

(* ~RAIICallbacksRunning: the flag is cleared and the rest rescheduled. *)
Finish(t) ==
  /\ pc[t] = "finish" /\ Goto(t, "maybe")
  /\ m_are_callbacks_running' = FALSE
  /\ UNCHANGED <<m_callbacks_pending, taskQueue, stopRequested, running, issued>>

-----------------------------------------------------------------------------
(* CScheduler *)

(* The new task is for now: it goes behind the ProcessQueue tasks that are *)
(* there, and before or behind the periodic one, as that one's time is to  *)
(* come or has come.                                                       *)
Scheduled(q) ==
  {SubSeq(q, 1, n) \o <<"process">> \o SubSeq(q, n + 1, Len(q)) :
     n \in {k \in 0..Len(q) : "process" \notin Range(SubSeq(q, k + 1, Len(q)))}}

Schedule(t) ==
  /\ pc[t] = "schedule" /\ Goto(t, "notify") /\ taskQueue' \in Scheduled(taskQueue)
  /\ UNCHANGED <<clientVars, stopRequested, running, issued>>

(* notify_one wakes some thread on newTaskScheduled; one whose wait has    *)
(* already timed out may take the notification too.                        *)
Sleeping == {s \in Services : pc[s] \in {"wait", "wait_until"}}
Wake(p) ==
  LET waiters == {s \in Services : p[s] \in {"wait", "wait_until", "due"}} IN
  IF waiters = {} THEN {p}
  ELSE {[p EXCEPT ![s] = IF @ = "due" THEN "due" ELSE "service"] : s \in waiters}

(* Mutant: nobody is woken. *)
NotifyNobody(t) ==
  /\ pc[t] = "notify" /\ Goto(t, Home(t)) /\ OnlyMoves

Notify(t) ==
  /\ pc[t] = "notify" /\ pc' \in Wake([pc EXCEPT ![t] = Home(t)]) /\ OnlyMoves

(* serviceQueue with newTaskMutex held, at the head of its loops.  Tasks   *)
(* up to a ProcessQueue task are due, so wait_until times out at once; the *)
(* mutex is released in between all the same.                              *)
Service(s) ==
  /\ pc[s] = "service"
  /\ IF stopRequested THEN pc' \in Wake([pc EXCEPT ![s] = "stopped"])
     ELSE Goto(s, IF taskQueue = <<>> THEN "wait"
                  ELSE IF "process" \in Range(taskQueue) THEN "due" ELSE "wait_until")
  /\ OnlyMoves

(* The time of the periodic task comes, for a thread waiting for it. *)
TimeComes(s) ==
  /\ pc[s] = "wait_until" /\ Goto(s, "due") /\ OnlyMoves

(* After the timeout: the first task is taken, whatever it is by now; if   *)
(* other threads emptied the queue, the loop starts again.                 *)
TakeTask(s) ==
  /\ pc[s] = "due"
  /\ IF stopRequested \/ taskQueue = <<>>
     THEN Goto(s, "service") /\ UNCHANGED taskQueue
     ELSE Goto(s, Head(taskQueue)) /\ taskQueue' = Tail(taskQueue)
  /\ UNCHANGED <<clientVars, stopRequested, running, issued>>

(* Repeat: the periodic task has run and schedules itself again. *)
Repeat(s) ==
  /\ pc[s] = "periodic" /\ Goto(s, "notify") /\ taskQueue' = Append(taskQueue, "periodic")
  /\ UNCHANGED <<clientVars, stopRequested, running, issued>>

ServiceWakes(s) ==
  /\ s \in Sleeping /\ Goto(s, "service") /\ OnlyMoves

-----------------------------------------------------------------------------
(* Shutdown: stop() the scheduler, join it and the threads that produce,   *)
(* flush, and EmptyQueue; then flush once more, for nobody: "Any future    *)
(* callbacks will be dropped."                                             *)

Stop ==
  /\ pc[Main] = "running" /\ Goto(Main, "stop") /\ stopRequested' = TRUE
  /\ UNCHANGED <<clientVars, taskQueue, running, issued>>

StopNotify ==
  /\ pc[Main] = "stop"
  /\ pc' = [t \in AllThreads |-> IF t = Main THEN "join"
                                 ELSE IF t \in Sleeping THEN "service" ELSE pc[t]]
  /\ OnlyMoves

Join ==
  /\ pc[Main] = "join" /\ \A s \in Services : pc[s] = "stopped"
  /\ \A p \in Producers : pc[p] = "idle"
  /\ Goto(Main, "flush") /\ OnlyMoves

(* Mutant: the queue is not looked at. *)
EmptyQueueOnce ==
  /\ pc[Main] = "empty" /\ Goto(Main, "last") /\ OnlyMoves

(* The condition of EmptyQueue's loop around ProcessQueue. *)
EmptyQueue ==
  /\ pc[Main] = "empty"
  /\ Goto(Main, IF m_callbacks_pending = <<>> THEN "last" ELSE "process")
  /\ OnlyMoves

(* The second ForceFlushStateToDisk, with all of AddToProcessQueue: no     *)
(* other thread is left, so it is one step and wakes nobody, and           *)
(* m_are_callbacks_running is false.                                       *)
FlushAgain ==
  /\ pc[Main] = "last" /\ Goto(Main, "unregister")
  /\ issued' = issued + 1
  /\ m_callbacks_pending' = Append(m_callbacks_pending, issued + 1)
  /\ taskQueue' \in Scheduled(taskQueue)
  /\ UNCHANGED <<m_are_callbacks_running, stopRequested, running>>

(* The client and the scheduler are destroyed with what they hold. *)
UnregisterBackgroundSignalScheduler ==
  /\ pc[Main] = "unregister" /\ Goto(Main, "down")
  /\ m_callbacks_pending' = <<>> /\ taskQueue' = <<>>
  /\ UNCHANGED <<m_are_callbacks_running, stopRequested, running, issued>>

-----------------------------------------------------------------------------

Run(t) ==
  \/ MaybeScheduleProcessQueue(t) \/ Schedule(t) \/ Notify(t)
  \/ ProcessQueue(t) \/ Callback(t) \/ Finish(t)
  \/ t \in Services /\ (Service(t) \/ TimeComes(t) \/ TakeTask(t) \/ Repeat(t))
  \/ t = Main /\ (\/ StopNotify \/ Join \/ AddToProcessQueue(t) \/ EmptyQueue
                  \/ FlushAgain \/ UnregisterBackgroundSignalScheduler)

SchedulerNext ==
  \/ \E t \in AllThreads : Run(t)
  \/ \E p \in Producers : AddToProcessQueue(p)
  \/ \E s \in Services : ServiceWakes(s)
  \/ Stop

(* Threads that are not blocked keep running; a task's time comes. *)
SchedulerFairness == \A t \in AllThreads : WF_schedulerVars(Run(t))

SchedulerSpec == SchedulerInit /\ [][SchedulerNext]_schedulerVars /\ SchedulerFairness

-----------------------------------------------------------------------------
(* Properties *)

Busy == {t \in AllThreads : pc[t] = "callback"}
Current == IF Busy = {} THEN <<>> ELSE running[CHOOSE t \in Busy : TRUE]

(* EmptyQueue has returned: the queue is closed. *)
Closed == pc[Main] \in {"last", "unregister", "down"}

(* The client implements the serial queue of its documentation: callbacks  *)
(* run one at a time, in the order they were added, each once, across any  *)
(* number of service threads, lost or spurious wake-ups, superfluous       *)
(* ProcessQueue tasks and stop().  Every callback added before             *)
(* FlushBackgroundCallbacks of Shutdown returns is run; the one of the     *)
(* flush after that is not.                                                *)
Serial == INSTANCE CallbackQueue WITH
  waiting <- IF Closed THEN <<>> ELSE m_callbacks_pending, current <- Current,
  closed <- Closed
ImplementsCallbackQueue == Serial!Spec

(* No two callbacks run at a time: m_are_callbacks_running is a lock. *)
OneAtATime == \A s, t \in Busy : s = t

(* Whenever a callback waits and none runs, somebody is about to schedule  *)
(* or to run ProcessQueue: m_are_callbacks_running never hides work.       *)
NeverForgotten ==
  m_callbacks_pending # <<>> /\ ~m_are_callbacks_running /\ ~stopRequested =>
    \/ "process" \in Range(taskQueue)
    \/ \E t \in AllThreads : pc[t] \in {"maybe", "schedule", "process"}

(* FlushBackgroundCallbacks of Shutdown leaves nothing behind, and what is *)
(* dropped with the client is the last callback alone: the one of the      *)
(* second flush.                                                           *)
FlushIsComplete ==
  /\ pc[Main] = "last" => m_callbacks_pending = <<>> /\ ~m_are_callbacks_running
  /\ pc[Main] = "unregister" => m_callbacks_pending = <<issued>> /\ ~m_are_callbacks_running
===============================================================================

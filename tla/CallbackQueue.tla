---------------------------- MODULE CallbackQueue -----------------------------
(***************************************************************************)
(* What SingleThreadedSchedulerClient promises (scheduler.h): callbacks    *)
(* are executed one at a time, in the order in which they were added, each *)
(* of them once, and none is forgotten that was added before the queue is  *)
(* closed.  It is closed when nothing waits and nothing runs.              *)
(***************************************************************************)
EXTENDS Sequences

CONSTANT Callbacks

VARIABLES
  waiting,    \* added and not begun
  current,    \* the callback in execution, in a sequence of length at most one
  closed      \* what is added from now on is dropped

queueVars == <<waiting, current, closed>>

Init == waiting = <<>> /\ current = <<>> /\ closed = FALSE

Add(f) == ~closed /\ waiting' = Append(waiting, f) /\ UNCHANGED <<current, closed>>

Begin ==
  /\ current = <<>> /\ waiting # <<>>
  /\ current' = <<Head(waiting)>> /\ waiting' = Tail(waiting) /\ UNCHANGED closed

End == current # <<>> /\ current' = <<>> /\ UNCHANGED <<waiting, closed>>

Close ==
  /\ waiting = <<>> /\ current = <<>> /\ ~closed
  /\ closed' = TRUE /\ UNCHANGED <<waiting, current>>

Next == (\E f \in Callbacks : Add(f)) \/ Begin \/ End \/ Close

Safety == Init /\ [][Next]_queueVars

Spec == Safety /\ WF_queueVars(Begin) /\ WF_queueVars(End)
===============================================================================

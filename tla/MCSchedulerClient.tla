--------------------------- MODULE MCSchedulerClient --------------------------
(* Two validation threads, two service threads and shutdown. *)
EXTENDS SchedulerClient
===============================================================================

----------------------------- MODULE MCCheckQueue -----------------------------
(* Two workers, and blocks with up to four checks of which one fails. *)
EXTENDS CheckQueue
===============================================================================

---------------------------- MODULE MCRandomXCache ----------------------------
(* Model values for RandomXCache. *)
EXTENDS RandomXCache

CONSTANTS c1, c2, e1, e2

TwoCallers == {c1, c2}
TwoEpochs == {e1, e2}
===============================================================================

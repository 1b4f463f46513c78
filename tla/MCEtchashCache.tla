---------------------------- MODULE MCEtchashCache ----------------------------
(* Model values for EtchashCache. *)
EXTENDS EtchashCache

CONSTANTS v1, v2, v3, e1, e2, e3

ThreeVerifiers == {v1, v2, v3}
ThreeEpochs == {e1, e2, e3}
===============================================================================

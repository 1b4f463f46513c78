-------------------------------- MODULE UtxoSet --------------------------------
(***************************************************************************)
(* What the stack of coin views promises: a set of unspent outputs with    *)
(* the block it belongs to, a working copy that is committed or dropped as *)
(* a whole, and a copy on disk.  An output that does not exist is SPENT.   *)
(***************************************************************************)
CONSTANTS COutPoints, Coins, SPENT, Hashes, NoHash

VARIABLES disk, utxo, work, open

vars == <<disk, utxo, work, open>>

Views == [coins : [COutPoints -> Coins \cup {SPENT}], best : Hashes \cup {NoHash}]

Init ==
  /\ disk = [coins |-> [o \in COutPoints |-> SPENT], best |-> NoHash]
  /\ utxo = disk /\ work = disk /\ open = FALSE

(* A block is about to be connected or disconnected. *)
Begin == ~open /\ open' = TRUE /\ UNCHANGED <<disk, utxo, work>>

(* The working copy gains, loses or replaces an output, or is given a block. *)
Add(o, c) ==
  open /\ work' = [work EXCEPT !.coins[o] = c] /\ UNCHANGED <<disk, utxo, open>>

Spend(o) ==
  open /\ work' = [work EXCEPT !.coins[o] = SPENT] /\ UNCHANGED <<disk, utxo, open>>

SetBest(b) == open /\ work' = [work EXCEPT !.best = b] /\ UNCHANGED <<disk, utxo, open>>

Commit == open /\ open' = FALSE /\ utxo' = work /\ UNCHANGED <<disk, work>>

Abort == open /\ open' = FALSE /\ work' = utxo /\ UNCHANGED <<disk, utxo>>

Write == ~open /\ disk' = utxo /\ UNCHANGED <<utxo, work, open>>

(* The process stops and starts again from the disk. *)
Restart == utxo' = disk /\ work' = disk /\ open' = FALSE /\ UNCHANGED disk

Next ==
  \/ Begin \/ Commit \/ Abort \/ Write \/ Restart
  \/ \E o \in COutPoints : Spend(o) \/ \E c \in Coins : Add(o, c)
  \/ \E b \in Hashes : SetBest(b)

Spec == Init /\ [][Next]_vars
===============================================================================

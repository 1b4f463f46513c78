--------------------------- MODULE MCCoinsRecovery ---------------------------
(***************************************************************************)
(* G - A1 - A2 - A3   The transaction that makes x is in A1 and, at        *)
(*   \ B1 - B2        another height, in B2, where its output is spent at  *)
(*                    once; y is made on both branches, w on one.          *)
(***************************************************************************)
EXTENDS CoinsRecovery, SequencesExt

CONSTANTS G, A1, A2, A3, B1, B2, w, x, y

MCBlocks == {G, A1, A2, A3, B1, B2}
MCpprev == (A1 :> G) @@ (A2 :> A1) @@ (A3 :> A2) @@ (B1 :> G) @@ (B2 :> B1)
MCnHeight == (G :> 0) @@ (A1 :> 1) @@ (B1 :> 1) @@ (A2 :> 2) @@ (B2 :> 2) @@ (A3 :> 3)

Tx(in, out) == [vin |-> in, vout |-> out]
MCvtx ==
  (G :> <<>>) @@ (A1 :> <<Tx({}, {x})>>) @@ (A2 :> <<Tx({x}, {y})>>)
    @@ (A3 :> <<Tx({y}, {x})>>)
    @@ (B1 :> <<Tx({}, {w})>>) @@ (B2 :> <<Tx({}, {x}), Tx({x, w}, {y})>>)

-----------------------------------------------------------------------------
(* The loops as they are written, transaction by transaction and block by  *)
(* block.                                                                  *)

ConnectTx(c, tx, height) ==
  [o \in Outpoints |-> IF o \in tx.vout THEN height
                       ELSE IF o \in tx.vin THEN NoCoin ELSE c[o]]

ConnectTxs(b, txs, c) == FoldLeft(LAMBDA acc, tx : ConnectTx(acc, tx, nHeight[b]), c, txs)

(* CTxUndo: the coins transaction i of b spent, as ConnectBlock wrote them. *)
vprevout(b, i) == ConnectTxs(b, SubSeq(vtx[b], 1, i - 1), UtxoAt[pprev[b]])

DisconnectTx(c, tx, undo) ==
  [o \in Outpoints |-> IF o \in tx.vin THEN undo[o]
                       ELSE IF o \in tx.vout THEN NoCoin ELSE c[o]]

DisconnectTxs(b, c) ==
  FoldRightDomain(LAMBDA i, acc : DisconnectTx(acc, vtx[b][i], vprevout(b, i)), vtx[b], c)

Ascending(S) == SetToSortSeq(S, LAMBDA x1, x2 : nHeight[x1] < nHeight[x2])

(* On every part of a chain, and from every set of coins, CoinsRecovery's  *)
(* RolledForward and RolledBack are what the loops compute.                *)
ASSUME LoopsAgree ==
  \A old, new \in Blocks : \A c \in [Outpoints -> {NoCoin} \cup {nHeight[b] : b \in Blocks}] :
     LET S == Above(new, old) \ {Genesis}
     IN /\ RolledForward(S, c)
             = FoldLeft(LAMBDA acc, b : ConnectTxs(b, vtx[b], acc), c, Ascending(S))
        /\ RolledBack(S, c) = FoldRight(DisconnectTxs, Ascending(S), c)
===============================================================================

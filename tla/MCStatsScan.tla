----------------------------- MODULE MCStatsScan -----------------------------
(***************************************************************************)
(* StatsScan over a small block tree.  The scan covers heights 1 to 3; the *)
(* node may leave b3 for c3 until b3 is finalized:                         *)
(*                                                                         *)
(*   g - b1 - b2 - b3 - b4 - b5                                            *)
(*             `-- c3 - c4 - c5                                            *)
(***************************************************************************)
EXTENDS StatsScan

Branches == {<<"g", "b1", "b2", "b3", "b4", "b5">>, <<"g", "b1", "b2", "c3", "c4", "c5">>}
MCChains == {SubSeq(c, 1, n) : c \in Branches, n \in 1..6}
MCBlock == UNION {ToSet(c) : c \in Branches}

Spend(o) == [prev |-> o, path |-> "ScriptNums"]
Tx(inputs, outputs) == [coinbase |-> FALSE, inputs |-> inputs, outputs |-> outputs]
Coinbase(kind) == [coinbase |-> TRUE, inputs |-> << >>, outputs |-> <<kind>>]

\* Spends from before the scan, within a block and across blocks, and a
\* reused key.
MCTxs == [b \in MCBlock |->
    CASE b = "b1" -> <<Coinbase("k1"), Tx(<<Spend(<<0, 1>>)>>, <<"k2", Other>>)>>
      [] b = "b2" -> <<Coinbase("k2"), Tx(<<Spend(<<11, 1>>)>>, <<"k3">>)>>
      [] b = "b3" -> <<Coinbase(Other), Tx(<<Spend(<<12, 2>>), Spend(<<31, 1>>)>>, <<"k1">>)>>
      [] b = "c3" -> <<Coinbase("k5"), Tx(<<Spend(<<22, 1>>)>>, <<Other>>)>>
      [] OTHER -> <<Coinbase(Other)>>]

MCFirstTxid == [b \in MCBlock |->
    CASE b = "g" -> 1 [] b = "b1" -> 11 [] b = "b2" -> 21 [] b = "b3" -> 31
      [] b = "c3" -> 41 [] b = "b4" -> 51 [] b = "c4" -> 61 [] b = "b5" -> 71 [] b = "c5" -> 81]
=============================================================================

--------------------------- MODULE MCLightIndexer ---------------------------
(***************************************************************************)
(* A block tree for LightIndexer whose contents go through the indexing    *)
(* algorithm of P2trApply: what a block indexes, how many slots it uses    *)
(* and what it spends all come from its transactions.                      *)
(*                                                                         *)
(*   g - b1 - b2 - b3 - b4 - b5                                            *)
(*             |    `- c4 - c5        one block deep                       *)
(*             `- d3 - d4 - d5        two blocks deep                      *)
(***************************************************************************)
EXTENDS LightIndexer

A == INSTANCE P2trApply WITH Other <- "other", Nums <- "nums"

MCChainOf(l) == [i \in 1..6 |-> <<"g", "b1", "b2", l[1], l[2], l[3]>>[i]]
Branches == {MCChainOf(<<"b3", "b4", "b5">>), MCChainOf(<<"b3", "c4", "c5">>),
             MCChainOf(<<"d3", "d4", "d5">>)}
MCChains == {SubSeq(c, 1, n) : c \in Branches, n \in 1..6}
MCBlock == UNION {{c[i] : i \in 1..6} : c \in Branches}
MCHeight == [b \in MCBlock |-> (CHOOSE p \in Branches \X (1..6) : p[1][p[2]] = b)[2] - 1]
MCParent == [b \in MCBlock |->
    IF b = "g" THEN NoBlock
    ELSE LET p == CHOOSE p \in Branches \X (1..6) : p[1][p[2]] = b IN p[1][p[2] - 1]]

Tx(inputs, outputs, tweak) == [inputs |-> inputs, outputs |-> outputs, tweak |-> tweak]
Coinbase == Tx(<< >>, <<"cb">>, FALSE)

\* Spends within a block, from the block before, across a window, of an
\* output below the emit start, and of outputs that are not indexed.
MCTxs == [b \in MCBlock |->
    CASE b = "g"  -> <<Tx(<< >>, <<"k0", "k0">>, TRUE)>>
      [] b = "b1" -> <<Coinbase, Tx(<<<<1, 1>>>>, <<"k1", "other", "k2">>, TRUE)>>
      [] b = "b2" -> <<Coinbase, Tx(<<<<12, 1>>>>, <<"k1">>, TRUE),
                       Tx(<<<<22, 1>>>>, <<"nums", "k3">>, TRUE)>>
      [] b = "b3" -> <<Coinbase, Tx(<<<<12, 3>>, <<21, 1>>>>, <<"k4">>, TRUE)>>
      [] b = "b4" -> <<Tx(<<<<23, 2>>>>, <<"k5", "k6">>, TRUE)>>
      [] b = "c4" -> <<Tx(<<<<32, 1>>>>, <<"k5">>, TRUE)>>
      [] b = "b5" -> <<Tx(<<<<41, 1>>>>, <<"k7">>, FALSE)>>
      [] b = "c5" -> <<Tx(<<<<23, 2>>>>, <<"other">>, FALSE)>>
      [] b = "d3" -> <<Tx(<<<<23, 2>>>>, <<"k4">>, TRUE)>>
      [] b = "d4" -> <<Tx(<<<<12, 3>>>>, <<"k5">>, TRUE)>>
      [] b = "d5" -> <<Coinbase>>]

\* A txid is unique to its transaction: the ordinal of the block, then its
\* place in the block.
FirstTxid == [b \in MCBlock |->
    CASE b = "g" -> 1 [] b = "b1" -> 11 [] b = "b2" -> 21 [] b = "b3" -> 31
      [] b = "b4" -> 41 [] b = "b5" -> 51 [] b = "c4" -> 61 [] b = "c5" -> 71
      [] b = "d3" -> 81 [] b = "d4" -> 91 [] b = "d5" -> 101]

Decoded == [b \in MCBlock |->
    A!ApplyTxs(A!Restored(0, FALSE), MCHeight[b], FirstTxid[b], MCTxs[b])]

MCIndexed == [b \in MCBlock |-> Decoded[b].created]
MCSlots == [b \in MCBlock |-> Decoded[b].slots]
MCInputs == [b \in MCBlock |->
    UNION {A!ToSet(MCTxs[b][i].inputs) : i \in 1..Len(MCTxs[b])}]
MCOutpoint == UNION {MCInputs[b] \cup {MCIndexed[b][i].outpoint : i \in 1..Len(MCIndexed[b])} :
                         b \in MCBlock}
=============================================================================

---------------------------- MODULE MCLightServer ----------------------------
(***************************************************************************)
(* LightServer over two chains, with requests that read one block, a       *)
(* range, and a range with cut-through at the served tip and at an         *)
(* explicit tip, within the range asked for and short of it.               *)
(*                                                                         *)
(*   g - b1 - b2 - b3 - b4                                                 *)
(*         `- d2 - d3 - d4                                                 *)
(***************************************************************************)
EXTENDS LightServer

Branches == {<<"g", "b1", "b2", "b3", "b4">>, <<"g", "b1", "d2", "d3", "d4">>}
MCBlock == UNION {{c[i] : i \in 1..5} : c \in Branches}
MCHeight == [b \in MCBlock |-> (CHOOSE p \in Branches \X (1..5) : p[1][p[2]] = b)[2] - 1]
MCParent == [b \in MCBlock |->
    IF b = "g" THEN NoBlock
    ELSE LET p == CHOOSE p \in Branches \X (1..5) : p[1][p[2]] = b IN p[1][p[2] - 1]]
MCChains == {SubSeq(c, 1, n) : c \in Branches, n \in 1..5}

\* b1, b2, b3 and d2 index their two P2TR outputs; b2 spends o11 and an
\* output of its own, b3 spends o12 and o21, b4 spends o32, d3 spends o11.
Out(o, s) == [outpoint |-> o, slot |-> s]
MCOutpoint == {"o11", "o12", "o21", "o22", "o31", "o32", "p21", "p22"}
MCIndexed == [b \in MCBlock |->
    CASE b = "b1" -> <<Out("o11", 0), Out("o12", 1)>>
      [] b = "b2" -> <<Out("o21", 0), Out("o22", 1)>>
      [] b = "b3" -> <<Out("o31", 0), Out("o32", 1)>>
      [] b = "d2" -> <<Out("p21", 0), Out("p22", 1)>>
      [] OTHER -> << >>]
MCSlots == [b \in MCBlock |-> Len(MCIndexed[b])]
MCInputs == [b \in MCBlock |->
    CASE b = "b2" -> {"o11", "o22"} [] b = "b3" -> {"o12", "o21"}
      [] b = "b4" -> {"o32"} [] b = "d3" -> {"o11", "p21"} [] OTHER -> {}]

Request(kind, start, count, cut, cut_tip) ==
    [kind |-> kind, start |-> start, count |-> count,
     cutthrough_start |-> cut, cutthrough_tip |-> cut_tip]

MCRequests ==
    {Request("tip", 1, 1, None, None), Request("single", 2, 1, None, None),
     Request("single", 1, 1, 1, None), Request("range", 1, 3, 1, None),
     Request("range", 1, 2, 1, 2), Request("range", 1, 3, 1, 2),
     Request("range", 0, 2, None, None)}
=============================================================================

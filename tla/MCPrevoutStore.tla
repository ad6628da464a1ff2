--------------------------- MODULE MCPrevoutStore ---------------------------
(***************************************************************************)
(* Scripts for PrevoutStore: every kind classify_script tells apart, keys  *)
(* chosen so that two inputs can cancel, and output lists with and without *)
(* a taproot output.                                                       *)
(***************************************************************************)
EXTENDS PrevoutStore

MCScript(kind, key) == [kind |-> kind, key |-> key]

MCFundings ==
    {<<MCScript("p2tr", 1), MCScript("p2wpkh", -1), MCScript("v2", 0), MCScript("op_return", 0)>>,
     <<MCScript("p2pkh", -1), MCScript("p2sh", 1)>>,
     <<MCScript("p2tr", 1), MCScript("p2wsh", 4)>>,
     <<MCScript("v1", 0), MCScript("other", 0), MCScript("p2tr", 0)>>}

MCOutputs == {<<MCScript("p2tr", 5)>>, <<MCScript("p2wpkh", -5)>>}
=============================================================================

--------------------------- MODULE MCServedLedger ---------------------------
(***************************************************************************)
(* What a served block is made of: the indexed ledger and its filtered     *)
(* responses (ServedLedger), the bit stream its spent UIDs travel in       *)
(* (SpentIdCodec), the byte formats of undo data and range responses       *)
(* (Framing), and the prevout store that finds scan points for sources     *)
(* without undo data (PrevoutStore).  They share no variable: a behaviour  *)
(* picks one of them and the others rest in one of their initial states,   *)
(* which visits every reachable state of each.                             *)
(***************************************************************************)
EXTENDS ServedLedger, SpentIdCodec, Framing, MCPrevoutStore

VARIABLE part    \* the one that moves

StoreRests == start = 2 /\ chain[1][1].outputs = CHOOSE outputs \in Fundings : TRUE
FramingRests == format = "range" /\ content = << >>

\* Script lengths around the boundary of the one-byte form, scripts that look
\* like hex digits, counts and scripts that look like a line end; and
\* messages around the boundary of a byte.
Filled(n, byte) == [i \in 1..n |-> byte]
Output(script) == [value_sat |-> LittleEndian(300, 8), script_pubkey |-> script]
Small == {Output(<< >>), Output(<<10>>)}
MCUndoData ==
    {<< << >> >> \o txs : txs \in
        {<< >>} \cup {<<tx>> : tx \in UNION {[1..n -> Small] : n \in 1..2}}
        \cup {<< <<Output(Filled(252, 48))>> >>,
              << <<Output(Filled(253, 97)), Output(<<10>>)>> >>,
              [i \in 1..9 |-> <<Output(<<10>>)>>]}}
MCMessages == {<< >>, <<7>>, Filled(256, 7)}

WireInit ==
    /\ Init /\ CodecInit /\ StoreInit /\ FramingInit
    /\ part \in {"ledger", "codec", "framing", "store"}
    /\ part # "ledger" => state.tracking
    /\ part # "store" => StoreRests
    /\ part # "framing" => FramingRests

WireNext ==
    /\ UNCHANGED part
    /\ \/ part = "ledger" /\ Next /\ UNCHANGED <<codecVars, framingVars, storeVars>>
       \/ part = "codec" /\ CodecNext /\ UNCHANGED <<vars, framingVars, storeVars>>
       \/ part = "framing" /\ FramingNext /\ UNCHANGED <<vars, codecVars, storeVars>>
       \/ part = "store" /\ StoreNext /\ UNCHANGED <<vars, codecVars, framingVars>>

WireSpec == WireInit /\ [][WireNext]_<<part, vars, codecVars, framingVars, storeVars>>
=============================================================================

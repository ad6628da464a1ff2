----------------------------- MODULE TaprootPath -----------------------------
(***************************************************************************)
(* How the two halves of the repository read the witness of a taproot      *)
(* spend: classify_p2tr_spend (stats/src/transaction.rs) and               *)
(* taproot_script_path_internal_key (light-server/src/sp_tweak.rs), which  *)
(* decides whether the output key counts for a silent payment.             *)
(*                                                                         *)
(* A witness item is [annex, shape, nums]: it starts with 0x50, it has the *)
(* length of a control block, and bytes 1..33 are the NUMS point H.  A     *)
(* state is one witness stack, grown item by item.                         *)
(***************************************************************************)
EXTENDS Naturals, Sequences

CONSTANT MaxItems   \* longest stack

Item == {i \in [annex : BOOLEAN, shape : BOOLEAN, nums : BOOLEAN] : i.nums => i.shape}

VARIABLE witness

WitnessInit == witness = <<>>
Push == Len(witness) < MaxItems /\ \E i \in Item : witness' = Append(witness, i)

WitnessSpec == WitnessInit /\ [][Push]_witness

\* Variant: an annex is recognised only next to another item of the script.
StrippedLong(w) ==
    IF Len(w) > 2 /\ w[Len(w)].annex THEN SubSeq(w, 1, Len(w) - 1) ELSE w

\* The stack without its annex.
Stripped(w) == IF w # <<>> /\ w[Len(w)].annex THEN SubSeq(w, 1, Len(w) - 1) ELSE w

\* classify_p2tr_spend.
SpendPath(w) ==
    LET s == Stripped(w)
    IN  IF Len(s) < 2 \/ ~s[Len(s)].shape THEN "Key"
        ELSE IF s[Len(s)].nums THEN "ScriptNums" ELSE "ScriptNonNums"

\* extract_p2tr_input_pubkey: the key is left out when the last item, read
\* as a control block, has the NUMS internal key.
LeavesKeyOut(w) == Len(w) >= 2 /\ w[Len(w)].shape /\ w[Len(w)].nums

----------------------------------------------------------------------------
\* BIP341: with two or more items, a last one starting with 0x50 is the annex.
Annexed(w) == Len(w) >= 2 /\ w[Len(w)].annex

\* Stacks a valid spend can have: a signature, or a script and its control
\* block under any number of inputs, with or without an annex.
KeySpend(w) == Len(w) = IF Annexed(w) THEN 2 ELSE 1
ScriptSpend(w) ==
    LET n == IF Annexed(w) THEN Len(w) - 1 ELSE Len(w)
    IN  n >= 2 /\ w[n].shape /\ ~w[n].annex

(* The stats scanner reads every valid taproot spend as BIP341 does: a     *)
(* lone signature is a key spend whatever byte it starts with and with or  *)
(* without an annex, and a script spend is NUMS exactly when its control   *)
(* block, before any annex, has the NUMS key (classify_p2tr_spend).  The   *)
(* silent-payment path leaves an input's key out for the same spends       *)
(* (taproot_script_path_internal_key), where there is no annex.            *)
PathAsConsensus ==
    /\ KeySpend(witness) => SpendPath(witness) = "Key"
    /\ ScriptSpend(witness) =>
         LET n == IF Annexed(witness) THEN Len(witness) - 1 ELSE Len(witness)
         IN  SpendPath(witness) = IF witness[n].nums THEN "ScriptNums" ELSE "ScriptNonNums"
    /\ (KeySpend(witness) \/ ScriptSpend(witness)) /\ ~Annexed(witness) =>
         (LeavesKeyOut(witness) <=> SpendPath(witness) = "ScriptNums")
=============================================================================

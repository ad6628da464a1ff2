--------------------------- MODULE SilentPayments ---------------------------
(***************************************************************************)
(* The BIP352 scan point of a transaction, and the two ways the light      *)
(* server finds the prevouts it needs: Bitcoin Core's undo data            *)
(* (light_indexer.rs) and compact entries of a local store                 *)
(* (prevout_store.rs).                                                     *)
(*                                                                         *)
(* A script is [kind, key].  A public key is an integer k # 0 and -k its   *)
(* negation, so a sum of keys is an integer and 0 is the point at          *)
(* infinity; the x-only key of a taproot script is lifted to its even      *)
(* point, the positive k (0: no point has it).  A hash identifies what it  *)
(* hashes, so "hash160 of k is the expected hash" is k = key.  An input is *)
(* [prev, redeem, shown, nums]: its outpoint, the key of the P2WPKH redeem *)
(* script it pushes, the compressed key it shows where the extractor looks *)
(* for one (Absent when there is none), and whether it is a taproot script *)
(* path under the NUMS internal key.                                       *)
(***************************************************************************)
EXTENDS Integers, Sequences, FiniteSetsExt

CONSTANTS
    Absent,     \* Option::None
    UndoError   \* Err of compute_sp_tweak_from_undo

----------------------------------------------------------------------------
(* classify_script and the context each path keeps of a prevout.           *)

Keyed == {"p2pkh", "p2sh", "p2wpkh"}

\* Spendable kinds that no path takes a key from.
Keyless == {"p2wsh", "v1", "other"}

Script == [kind : Keyed \cup Keyless \cup {"p2tr", "v2", "op_return"}, key : Int]

\* prevout_info_from_spent_txout: the script an undo record describes; its
\* error for a taproot key off the curve is in UndoRefused.
PrevoutOfScript(s) ==
    CASE s.kind \in Keyed \cup {"p2tr", "v2"} -> s
      [] OTHER -> [kind |-> "other", key |-> 0]

\* Variant: scripts without a key are not stored.
CompactKeyed(s) ==
    IF (s.kind = "p2tr" /\ s.key = 0) \/ s.kind \notin Keyed \cup {"p2tr", "v2"}
    THEN Absent ELSE s

\* compact_prevout_script: what the store keeps of an output, Absent when it
\* keeps nothing: provably unspendable, or a taproot key off the curve.
Compact(s) ==
    CASE s.kind = "op_return" \/ (s.kind = "p2tr" /\ s.key = 0) -> Absent
      [] s.kind \in Keyless -> [kind |-> "non_eligible", key |-> 0]
      [] OTHER -> s

\* EncodedPrevoutEntry::new: a kind byte, and a payload of the kind's length.
PayloadLen(kind) ==
    CASE kind \in Keyed -> 20
      [] kind = "p2tr" -> 32
      [] kind = "v2" -> 1
      [] kind = "non_eligible" -> 0

EncodeEntry(c) == [len |-> 1 + PayloadLen(c.kind), kind |-> c.kind, payload |-> c.key]

\* An entry of the v1 layout, with an unused u64 before the kind byte.
EncodeLegacy(c) == [len |-> 9 + PayloadLen(c.kind), kind |-> c.kind, payload |-> c.key]

\* decode_prevout_entry: the layout is told from the length alone, and the
\* payload must then have its kind's length.
HeaderLen(entry) ==
    CASE entry.len \in {1, 2, 21, 33} -> 1
      [] entry.len \in {9 + 20, 9 + 32} -> 9

DecodeEntry(entry) ==
    CASE entry.len - HeaderLen(entry) = PayloadLen(entry.kind) ->
           [kind |-> entry.kind, key |-> entry.payload]

\* prevout_info_from_compact.
PrevoutOfCompact(c) ==
    IF c.kind = "non_eligible" THEN [kind |-> "other", key |-> 0] ELSE c

----------------------------------------------------------------------------
(* compute_tx_scan_point.                                                  *)

\* extract_bip352_input_pubkey: the key an input contributes, or Absent.  A
\* key with the expected hash is a point, since a signature was verified with
\* it: InvalidCompressedInputPublicKey has no valid spend to meet.
EligibleKey(input, prevout) ==
    CASE prevout.kind = "p2tr" -> IF input.nums THEN Absent ELSE prevout.key
      [] prevout.kind \in {"p2pkh", "p2wpkh"} ->
           IF input.shown = prevout.key THEN prevout.key ELSE Absent
      [] prevout.kind = "p2sh" ->
           IF input.redeem = prevout.key /\ input.shown = input.redeem
           THEN prevout.key ELSE Absent
      [] OTHER -> Absent

\* Outpoints are <<txid, vout>>, compared as their serialisation is.
OutpointBefore(o, p) == o[1] < p[1] \/ (o[1] = p[1] /\ o[2] < p[2])
SmallestOutpoint(inputs) ==
    CHOOSE o \in {inputs[i].prev : i \in DOMAIN inputs} :
        \A i \in DOMAIN inputs : ~OutpointBefore(inputs[i].prev, o)

\* The scan point of the non-coinbase inputs, given the prevout of each
\* (Absent when unknown).  input_hash * A is determined by the smallest
\* outpoint and the sum A.  Absent covers every status but Computed.
ScanPoint(inputs, prevout) ==
    LET eligible == {i \in DOMAIN inputs : EligibleKey(inputs[i], prevout[i]) # Absent}
        sum == MapThenSumSet(LAMBDA i : EligibleKey(inputs[i], prevout[i]), eligible)
    IN  IF \/ inputs = <<>>
           \/ \E i \in DOMAIN inputs : prevout[i] = Absent
           \/ \E i \in DOMAIN inputs : prevout[i].kind = "v2"
           \/ eligible = {} \/ sum = 0
        THEN Absent
        ELSE [outpoint |-> SmallestOutpoint(inputs), sum |-> sum]

CreatesP2tr(tx) == \E v \in DOMAIN tx.outputs : tx.outputs[v].kind = "p2tr"

\* The entry of the n-th transaction in the undo data of a block, if both
\* exist: the data starts with a slot for the coinbase, so indexes agree.
UndoEntry(data, n) == IF data # Absent /\ n \in DOMAIN data THEN data[n] ELSE Absent

\* No entry, an entry whose count is not that of the inputs, or one with a
\* taproot key off the curve.
UndoRefused(inputs, undo) ==
    \/ undo = Absent
    \/ DOMAIN undo # DOMAIN inputs
    \/ \E i \in DOMAIN undo : undo[i].kind = "p2tr" /\ undo[i].key = 0

\* Variant: the inputs are zipped with the entries without comparing counts.
UndoTweakZipped(tx, undo) ==
    LET zipped == DOMAIN tx.inputs \cap DOMAIN undo
    IN  IF ~CreatesP2tr(tx) \/ tx.inputs = <<>> THEN Absent
        ELSE IF undo = Absent THEN UndoError
        ELSE ScanPoint([i \in zipped |-> tx.inputs[i]], [i \in zipped |-> PrevoutOfScript(undo[i])])

\* compute_sp_tweak_from_undo: only for a transaction with a taproot output
\* that is not the coinbase; undo[i] is the script its i-th input spends.
UndoTweak(tx, undo) ==
    IF ~CreatesP2tr(tx) \/ tx.inputs = <<>> THEN Absent
    ELSE IF UndoRefused(tx.inputs, undo) THEN UndoError
    ELSE ScanPoint(tx.inputs, [i \in DOMAIN tx.inputs |-> PrevoutOfScript(undo[i])])
=============================================================================

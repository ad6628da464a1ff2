------------------------------ MODULE P2trApply ------------------------------
(***************************************************************************)
(* apply_block_with_stats (p2tr_indexer.rs): how one decoded block turns   *)
(* into UIDs, a stored light block and spend entries.  The algorithm is    *)
(* the code's: a loop over the transactions, inputs before outputs.        *)
(*                                                                         *)
(* A transaction is [inputs, outputs, tweak]; an output is its kind: Other *)
(* (not P2TR), Nums (a P2TR output flagged NUMS) or a P2TR output key.     *)
(* An outpoint is <<txid, vout>>, a txid the transaction's ordinal.        *)
(***************************************************************************)
EXTENDS Integers, Sequences, FiniteSets, SequencesExt

CONSTANTS Other, Nums   \* output kinds that are not plain P2TR outputs

IsP2tr(kind) == kind # Other

\* new() starts tracking seen keys; restore_at_uid(uid), the only
\* constructor the indexer binary uses, does not.
Restored(uid, tracking) ==
    [next_uid |-> uid, spend |-> << >>, tracking |-> tracking, seen |-> {}]
-----------------------------------------------------------------------------
(* apply_block_with_stats *)

Drop(m, o) == [p \in DOMAIN m \ {o} |-> m[p]]
Put(m, o, v) == [p \in DOMAIN m \cup {o} |-> IF p = o THEN v ELSE m[p]]

\* The UID the first P2TR output of the next block gets.
FirstUid(s) == s.next_uid + 1

\* Variant: UIDs count indexed outputs only.
DenseUid(acc) == acc.first_uid + Len(acc.outputs)

\* The UID of the P2TR output that takes the next slot.
SlotUid(acc) == acc.first_uid + acc.slots

\* Variant: only indexed outputs count as seen.
SeenIfIndexed(acc, kind, tweak) ==
    IF acc.tracking /\ tweak THEN acc.seen \cup {kind} ELSE acc.seen

\* Keys seen after an output: every P2TR output counts, indexed or not.
SeenAfter(acc, kind, tweak) == IF acc.tracking THEN acc.seen \cup {kind} ELSE acc.seen

\* An input whose outpoint is in the spend map becomes a spend entry and
\* leaves the map; any other input is ignored.
ApplyInput(acc, outpoint) ==
    IF outpoint \in DOMAIN acc.spend
    THEN [acc EXCEPT
            !.spend = Drop(@, outpoint),
            !.spends = Append(@, [uid |-> acc.spend[outpoint].uid,
                                  creation_height |-> acc.spend[outpoint].height])]
    ELSE acc

\* A P2TR output takes the next slot.  It is indexed unless it is NUMS or its
\* transaction has no tweak; only indexed outputs enter the dense list.
ApplyOutput(acc, height, txid, tweak, vout, kind) ==
    LET reused == acc.tracking /\ kind \in acc.seen
        slotted == [acc EXCEPT !.slots = @ + 1, !.seen = SeenAfter(acc, kind, tweak)]
    IN  IF ~IsP2tr(kind) THEN acc
        ELSE IF kind = Nums \/ ~tweak
        THEN [slotted EXCEPT !.skipped_outputs = Append(@, acc.slots)]
        ELSE [slotted EXCEPT
                !.outputs = Append(@, [key |-> kind, reused |-> reused]),
                !.tx_outputs = @ + 1,
                !.created = Append(@, [outpoint |-> <<txid, vout>>, slot |-> acc.slots]),
                !.spend = Put(@, <<txid, vout>>,
                              [uid    |-> SlotUid(acc),
                               height |-> height,
                               index  |-> Len(acc.outputs) + 1])]

\* The inputs of a transaction, then its outputs.
ApplyTxInputs(acc, tx) ==
    LET after[n \in 0..Len(tx.inputs)] ==
            IF n = 0 THEN acc ELSE ApplyInput(after[n - 1], tx.inputs[n])
    IN  after[Len(tx.inputs)]

ApplyTxOutputs(acc, height, txid, tx) ==
    LET after[v \in 0..Len(tx.outputs)] ==
            IF v = 0 THEN acc
            ELSE ApplyOutput(after[v - 1], height, txid, tx.tweak, v, tx.outputs[v])
    IN  after[Len(tx.outputs)]

\* The tweak of a transaction is a value of its own: the txid stands for it.
TweakEntry(acc, txid) == [output_count |-> acc.tx_outputs, tweak |-> txid]

\* Variant: only transactions without any P2TR output are marked skipped.
ApplyTxSkipsNoP2tr(acc, height, txid, tx_index, tx) ==
    LET spent == ApplyTxInputs([acc EXCEPT !.tx_outputs = 0], tx)
        done == ApplyTxOutputs(spent, height, txid, tx)
    IN  CASE done.tx_outputs > 0 -> [done EXCEPT !.tweaks = Append(@, TweakEntry(done, txid))]
          [] done.slots = acc.slots -> [done EXCEPT !.skipped_txs = @ \cup {tx_index}]
          [] OTHER -> done

\* One transaction: its inputs, its outputs, then either a tweak entry or a
\* bit in the skipped-transaction bitmap.
ApplyTx(acc, height, txid, tx_index, tx) ==
    LET spent == ApplyTxInputs([acc EXCEPT !.tx_outputs = 0], tx)
        done == ApplyTxOutputs(spent, height, txid, tx)
    IN  IF done.tx_outputs > 0
        THEN [done EXCEPT !.tweaks = Append(@, TweakEntry(done, txid))]
        ELSE [done EXCEPT !.skipped_txs = @ \cup {tx_index}]

\* The accumulators of a block.
BlockStart(s) ==
    [first_uid |-> FirstUid(s), spend |-> s.spend, tracking |-> s.tracking, seen |-> s.seen,
     slots |-> 0, tx_outputs |-> 0, outputs |-> << >>, spends |-> << >>, created |-> << >>,
     tweaks |-> << >>, skipped_txs |-> {}, skipped_outputs |-> << >>]

\* The whole block; first_txid numbers its transactions.
ApplyTxs(s, height, first_txid, txs) ==
    LET after[n \in 0..Len(txs)] ==
            IF n = 0 THEN BlockStart(s)
            ELSE ApplyTx(after[n - 1], height, first_txid + n - 1, n - 1, txs[n])
    IN  after[Len(txs)]

\* next_uid moves past the slots the block used.
StateAfter(s, acc) ==
    [s EXCEPT !.spend = acc.spend, !.seen = acc.seen,
              !.next_uid = IF acc.slots > 0 THEN acc.first_uid + acc.slots - 1 ELSE @]

StoredBlock(acc, txs) ==
    [first_uid |-> acc.first_uid, tx_count |-> Len(txs), tweaks |-> acc.tweaks,
     skipped_txs |-> acc.skipped_txs, skipped_outputs |-> acc.skipped_outputs,
     outputs |-> acc.outputs, spends |-> acc.spends, slots |-> acc.slots]
=============================================================================

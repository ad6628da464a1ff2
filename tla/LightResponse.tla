---------------------------- MODULE LightResponse ----------------------------
(***************************************************************************)
(* Deriving the served LightBlock from a StoredLightBlock (index.rs), and  *)
(* how a client walks the result (README, "Client output scanning").       *)
(*                                                                         *)
(* A stored block has tx_count, skipped_txs (the bitmap, as a set of       *)
(* transaction indexes), tweaks, a dense output list and spend entries.    *)
(* Truncated output hashes are represented by the output keys, and the     *)
(* spent-ID stream by the ascending list SpentIdCodec encodes.             *)
(***************************************************************************)
EXTENDS CutThrough, Sequences, FiniteSets, SequencesExt

\* derive_stored_tweak_tx_indexes: the transactions that have a tweak entry,
\* in order.
TweakTxs(tx_count, skipped_txs) == SetToSortSeq((0..(tx_count - 1)) \ skipped_txs, <)

\* encode_spent_ids sorts the UIDs.
SortedUids(spends) == SortSeq([i \in DOMAIN spends |-> spends[i].uid], <)

\* Variant: a transaction that loses all its outputs keeps its bitmap bit.
KeepGroupUnmarked(acc, kept, tweak, tx_index) ==
    [acc EXCEPT !.tweaks = IF kept = << >> THEN @
                           ELSE Append(@, [output_count |-> Len(kept), tweak |-> tweak])]

\* A tweak entry survives with the outputs that are kept, or its
\* transaction joins the skipped bitmap.
KeepGroup(acc, kept, tweak, tx_index) ==
    IF kept = << >> THEN [acc EXCEPT !.skipped_txs = @ \cup {tx_index}]
    ELSE [acc EXCEPT !.tweaks = Append(@, [output_count |-> Len(kept), tweak |-> tweak])]

\* to_filtered_response_input (and, with no filter, to_response_input).
Filtered(s, height, f) ==
    LET txs == TweakTxs(s.tx_count, s.skipped_txs)
        group(acc, i) ==
            LET end == acc.cursor + s.tweaks[i].output_count
                kept == SelectSeq(SubSeq(s.outputs, acc.cursor + 1, end),
                                  LAMBDA o : ~OmitOutput(height, o, f))
            IN  KeepGroup([acc EXCEPT !.cursor = end,
                                      !.keys = @ \o [k \in DOMAIN kept |-> kept[k].key]],
                          kept, s.tweaks[i].tweak, txs[i])
        start == [cursor |-> 0, keys |-> << >>, tweaks |-> << >>, skipped_txs |-> s.skipped_txs]
        done == FoldLeftDomain(group, start, s.tweaks)
    IN  [first_uid |-> s.first_uid, tx_count |-> s.tx_count,
         skipped_txs |-> done.skipped_txs, tweaks |-> done.tweaks, keys |-> done.keys,
         spent_uids |-> SortedUids(SelectSeq(s.spends, LAMBDA e : ~OmitSpend(height, e, f)))]

\* validate_light_block_input: the response would be refused otherwise.
Servable(r) ==
    /\ r.tx_count = Cardinality(r.skipped_txs) + Len(r.tweaks)
    /\ FoldLeft(LAMBDA n, t : n + t.output_count, 0, r.tweaks) = Len(r.keys)
    /\ \A i, j \in DOMAIN r.spent_uids : i < j => r.spent_uids[i] < r.spent_uids[j]

\* A client's walk: for each transaction that is not skipped the next tweak
\* entry, and as many keys as it declares.
ClientWalk(r) ==
    LET txs == TweakTxs(r.tx_count, r.skipped_txs)
        offset(i) == FoldLeft(LAMBDA n, t : n + t.output_count, 0, SubSeq(r.tweaks, 1, i - 1))
    IN  [i \in 1..Len(r.tweaks) |->
            [tx_index |-> txs[i], tweak |-> r.tweaks[i].tweak,
             keys |-> SubSeq(r.keys, offset(i) + 1, offset(i) + r.tweaks[i].output_count)]]
=============================================================================

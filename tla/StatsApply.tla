------------------------------ MODULE StatsApply ------------------------------
(***************************************************************************)
(* The serial, stateful stage of the stats scanner (stats/src/scan.rs,     *)
(* `scan`): one prepared block updates the scanner state and yields one    *)
(* row.  A prepared transaction is [coinbase, inputs, outputs]; an input   *)
(* names the outpoint it spends and the P2TR path its witness shows; an    *)
(* output is its kind, Other or a P2TR key.  An outpoint is <<txid, vout>>.*)
(*                                                                         *)
(* Hashes are injective: the XOR of event hashes is the symmetric          *)
(* difference of the sets of events.                                       *)
(***************************************************************************)
EXTENDS Integers, Sequences, FiniteSets, SequencesExt, FiniteSetsExt

CONSTANTS
    Other,    \* an output that is not P2TR
    Window    \* --utxo-hash-window, 0 disables the hash

ASSUME WindowAssumption == Window \in Nat

\* Counters of a run (Stats) and of a block (PerBlock).
PathCounters == {"p2tr_keypath_spends", "p2tr_scriptpath_spends", "p2tr_nums_spends",
                 "p2tr_sp_eligible_spends"}
RowCounters == {"spends", "outputs", "p2tr_outputs", "p2tr_reused", "p2tr_spends", "nonsp_txs",
                "nonsp_tx_outputs"} \cup PathCounters
RunCounters == RowCounters \cup {"same_tx_spends", "same_block_spends",
                                 "p2tr_same_tx_spends", "p2tr_same_block_spends"}

Bump(counts, cs) == [c \in DOMAIN counts |-> counts[c] + IF c \in cs THEN 1 ELSE 0]

\* StatsScannerState::new.
NewState ==
    [last_id |-> 0, utxo |-> << >>, seen |-> {}, missing |-> 0,
     stats |-> [c \in RunCounters |-> 0], window |-> << >>, acc |-> {}, events |-> {}]

\* PerBlock::default.
NewBlock == [counts |-> [c \in RowCounters |-> 0], spent_uids |-> << >>, p2tr_spent_uids |-> << >>]

Xor(S, T) == SymDiff(S, T)

\* add_output and remove_output of the rolling hash.
Event(s, e) == IF Window = 0 THEN s ELSE [s EXCEPT !.events = Xor(@, {e})]

\* Variant: the entry stays in the UTXO map.
TakeKeeps(s, prev) == s

\* utxo.remove.
Take(s, prev) == [s EXCEPT !.utxo = [o \in DOMAIN @ \ {prev} |-> @[o]]]

\* SpendContext: ids are dense, so they tell what was created since the
\* transaction or the block began.
Context(id, tx_start, block_start) ==
    IF id > tx_start THEN "SameTx"
    ELSE IF id > block_start THEN "SameBlock" ELSE "Earlier"

\* Stats::record_spend.
RunSpend(ctx) ==
    {"spends"} \cup {c \in {"same_tx_spends"} : ctx = "SameTx"}
               \cup {c \in {"same_block_spends"} : ctx = "SameBlock"}

\* record_p2tr_spend, of both; the run counts the context too.
PathSpend(path) ==
    {"p2tr_spends"}
    \cup CASE path = "Key" -> {"p2tr_keypath_spends", "p2tr_sp_eligible_spends"}
           [] path = "ScriptNonNums" -> {"p2tr_scriptpath_spends", "p2tr_sp_eligible_spends"}
           [] path = "ScriptNums" -> {"p2tr_scriptpath_spends", "p2tr_nums_spends"}
RunP2trSpend(path, ctx) ==
    PathSpend(path) \cup {c \in {"p2tr_same_tx_spends"} : ctx = "SameTx"}
                    \cup {c \in {"p2tr_same_block_spends"} : ctx = "SameBlock"}

\* Variant: every spent UID also counts as one of a P2TR output.
RecordSpendUidAll(b, uid, is_p2tr) ==
    [b EXCEPT !.counts = Bump(@, {"spends"}), !.spent_uids = Append(@, uid),
              !.p2tr_spent_uids = Append(@, uid)]

\* record_spend_uid.
RecordSpendUid(b, uid, is_p2tr) ==
    [b EXCEPT !.counts = Bump(@, {"spends"}), !.spent_uids = Append(@, uid),
              !.p2tr_spent_uids = IF is_p2tr THEN Append(@, uid) ELSE @]

\* One input: its prevout leaves the UTXO map, or predates the scan.  The
\* accumulator a is the scanner state and the PerBlock.
ApplyInput(a, input, tx_start, block_start) ==
    IF input.prev \in DOMAIN a.state.utxo
    THEN LET entry == a.state.utxo[input.prev]
             p2tr == entry.kind # Other
             ctx == Context(entry.id, tx_start, block_start)
             taken == Event(Take(a.state, input.prev), <<"rem", entry.id>>)
             block == RecordSpendUid(a.block, entry.id, p2tr)
         IN  [state |-> [taken EXCEPT !.stats =
                  Bump(@, RunSpend(ctx) \cup IF p2tr THEN RunP2trSpend(input.path, ctx) ELSE {})],
              block |-> [block EXCEPT !.counts = Bump(@, IF p2tr THEN PathSpend(input.path) ELSE {})]]
    ELSE [a EXCEPT !.state.missing = @ + 1]

\* Variant: a prevout from before the scan does not count as non-P2TR.
NonSpIgnoresMissing(s, tx) ==
    LET known == {i \in DOMAIN tx.inputs : tx.inputs[i].prev \in DOMAIN s.utxo}
        p2tr == {i \in known : s.utxo[tx.inputs[i].prev].kind # Other}
    IN  /\ ~tx.coinbase /\ p2tr # {} /\ p2tr = known
        /\ \A i \in p2tr : tx.inputs[i].path = "ScriptNums"

\* tx_is_nonsp: P2TR inputs only, all of them NUMS script-path spends.
NonSp(s, tx) ==
    LET p2tr == {i \in DOMAIN tx.inputs : /\ tx.inputs[i].prev \in DOMAIN s.utxo
                                          /\ s.utxo[tx.inputs[i].prev].kind # Other}
    IN  /\ ~tx.coinbase /\ p2tr # {} /\ p2tr = DOMAIN tx.inputs
        /\ \A i \in p2tr : tx.inputs[i].path = "ScriptNums"

\* record_output, of the run and of the block alike.
OutputCounters(kind, reused, nonsp) ==
    {"outputs"} \cup {c \in {"p2tr_outputs"} : kind # Other}
                \cup {c \in {"p2tr_reused"} : kind # Other /\ reused}
                \cup {c \in {"nonsp_tx_outputs"} : nonsp}

\* One output: the next global id, a UTXO entry, and reuse of its key.
ApplyOutput(a, op, kind, nonsp) ==
    LET s == a.state
        id == s.last_id + 1
        counters == OutputCounters(kind, kind \in s.seen, nonsp)
    IN  [state |-> Event([s EXCEPT
                     !.last_id = id,
                     !.seen = IF kind = Other THEN @ ELSE @ \cup {kind},
                     !.stats = Bump(@, counters),
                     !.utxo = [o \in DOMAIN @ \cup {op} |->
                                  IF o = op THEN [id |-> id, kind |-> kind] ELSE @[o]]],
                   <<"add", id>>),
         block |-> [a.block EXCEPT !.counts = Bump(@, counters)]]

\* The inputs of a transaction, then its outputs.
ApplyTxInputs(a, tx, block_start) ==
    LET after[n \in 0..Len(tx.inputs)] ==
            IF n = 0 THEN a
            ELSE ApplyInput(after[n - 1], tx.inputs[n], a.state.last_id, block_start)
    IN  after[Len(tx.inputs)]

ApplyTxOutputs(a, txid, tx, nonsp) ==
    LET after[v \in 0..Len(tx.outputs)] ==
            IF v = 0 THEN a ELSE ApplyOutput(after[v - 1], <<txid, v>>, tx.outputs[v], nonsp)
    IN  after[Len(tx.outputs)]

\* nonsp_txs, of the run and of the block.
CountTx(a, nonsp) ==
    [state |-> [a.state EXCEPT !.stats = Bump(@, {c \in {"nonsp_txs"} : nonsp})],
     block |-> [a.block EXCEPT !.counts = Bump(@, {c \in {"nonsp_txs"} : nonsp})]]

\* One transaction; whether it is non-SP is decided before its inputs leave
\* the UTXO map.
ApplyTx(a, txid, tx, block_start) ==
    LET nonsp == NonSp(a.state, tx)
        spent == IF tx.coinbase THEN a ELSE ApplyTxInputs(a, tx, block_start)
    IN  ApplyTxOutputs(CountTx(spent, nonsp), txid, tx, nonsp)

\* Variant: the block that falls out of the window stays in the accumulator.
FinalizeBlockKeeps(s) ==
    IF Window = 0 THEN s
    ELSE [s EXCEPT !.events = {}, !.acc = Xor(@, s.events),
                   !.window = IF Len(@) < Window THEN Append(@, s.events)
                              ELSE Append(Tail(@), s.events)]

\* finalize_block: the block enters the window, and its oldest may leave it.
FinalizeBlock(s) ==
    IF Window = 0 THEN s
    ELSE LET added == Xor(s.acc, s.events)
         IN  IF Len(s.window) < Window
             THEN [s EXCEPT !.events = {}, !.acc = added, !.window = Append(@, s.events)]
             ELSE [s EXCEPT !.events = {}, !.acc = Xor(added, Head(s.window)),
                            !.window = Append(Tail(@), s.events)]

\* All transactions of a block, the first of which has number first_txid.
ApplyTxs(s, first_txid, txs) ==
    LET after[n \in 0..Len(txs)] ==
            IF n = 0 THEN [state |-> s, block |-> NewBlock]
            ELSE ApplyTx(after[n - 1], first_txid + n - 1, txs[n], s.last_id)
    IN  after[Len(txs)]

\* The state after a block, and its PerBlock.
ApplyBlock(s, first_txid, txs) ==
    LET done == ApplyTxs(s, first_txid, txs) IN [done EXCEPT !.state = FinalizeBlock(@)]

\* The BlockStats row (measure_sorted_uid_encoding, drain_into): what a
\* UidEstimate is made of are the spent UIDs and the last id; the output
\* count is the growth of the ids.
RowOf(height, hash, before, after) ==
    [height |-> height, hash |-> hash, last_global_id |-> after.state.last_id,
     utxo_hash |-> after.state.acc,
     spent_uids |-> after.block.spent_uids, p2tr_spent_uids |-> after.block.p2tr_spent_uids,
     counts |-> [after.block.counts EXCEPT !["outputs"] = after.state.last_id - before.last_id]]
=============================================================================

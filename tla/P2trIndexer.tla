----------------------------- MODULE P2trIndexer -----------------------------
(***************************************************************************)
(* The in-memory indexer state (P2trIndexerState) fed with every small     *)
(* valid ledger, against reference definitions that do not replay the      *)
(* loop: client-side UIDs, the unspent indexed outputs, the spends of a    *)
(* block, the wire invariants of a stored block, and key reuse.            *)
(***************************************************************************)
EXTENDS P2trApply

CONSTANTS
    Keys,          \* P2TR x-only keys
    MaxBlocks,     \* bound on applied blocks
    MaxTxs,        \* bound on transactions of the ledger, coinbases aside
    MaxInputs,     \* bound on inputs of a transaction
    MaxOutputs     \* bound on outputs of a transaction

VARIABLES
    state,         \* P2trIndexerState: next_uid, outpoint_to_spend, seen keys
    ledger,        \* transactions in chain order, those of the next block last
    ends,          \* how many of them each applied block ends with
    stored         \* the stored light block of each applied block

vars == <<state, ledger, ends, stored>>
-----------------------------------------------------------------------------
(* The ledger that produces blocks *)

\* Outpoints created and spent by a list of transactions.
Created(txs) == UNION {{t} \X DOMAIN txs[t].outputs : t \in DOMAIN txs}
Spent(txs) == UNION {ToSet(txs[t].inputs) : t \in DOMAIN txs}

OutputLists == UNION {[1..n -> Keys \cup {Other, Nums}] : n \in 1..MaxOutputs}

\* Transactions valid after the list txs: they spend existing, unspent
\* outputs, each once (inputs from before the ledger are left out), and only
\* one with a P2TR output can have a tweak (compute_sp_tweak_from_undo).
ValidTxs(txs) ==
    LET unspent == Created(txs) \ Spent(txs)
        inputs == {i \in UNION {[1..n -> unspent] : n \in 0..MaxInputs} : IsInjective(i)}
    IN  {tx \in [inputs : inputs, outputs : OutputLists, tweak : BOOLEAN] :
            tx.tweak => \E v \in DOMAIN tx.outputs : IsP2tr(tx.outputs[v])}

\* The first transaction of a block never has a tweak; its output may be P2TR.
Coinbases == {[inputs |-> << >>, outputs |-> <<o>>, tweak |-> FALSE] : o \in Keys \cup {Other}}

\* The last transaction of block h, and all of them.
End(h) == IF h = 0 THEN 0 ELSE ends[h]
TxsOf(h) == (End(h - 1) + 1)..End(h)

\* P2trIndexerState::new tracks seen keys, restore_at_uid does not.
Init ==
    /\ \E tracking \in BOOLEAN : state = Restored(0, tracking)
    /\ ledger = << >>
    /\ ends = << >>
    /\ stored = << >>

\* The next block starts with its coinbase.
MineBlock ==
    /\ Len(ends) < MaxBlocks
    /\ Len(ledger) = End(Len(ends))
    /\ \E c \in Coinbases : ledger' = Append(ledger, c)
    /\ UNCHANGED <<state, ends, stored>>

\* It may hold more transactions, and a later one may spend an earlier one.
MineTx ==
    /\ Len(ledger) > End(Len(ends))
    /\ Len(ledger) - Len(ends) <= MaxTxs
    /\ \E tx \in ValidTxs(ledger) : ledger' = Append(ledger, tx)
    /\ UNCHANGED <<state, ends, stored>>

\* apply_block.
ApplyBlock ==
    /\ Len(ledger) > End(Len(ends))
    /\ LET first == End(Len(ends)) + 1
           txs == SubSeq(ledger, first, Len(ledger))
           acc == ApplyTxs(state, Len(ends) + 1, first, txs)
       IN  /\ state' = StateAfter(state, acc)
           /\ stored' = Append(stored, StoredBlock(acc, txs))
    /\ ends' = Append(ends, Len(ledger))
    /\ UNCHANGED ledger

Next == MineBlock \/ MineTx \/ ApplyBlock

Spec == Init /\ [][Next]_vars
-----------------------------------------------------------------------------
(* What the algorithm should compute, stated without replaying it *)

Heights == 1..Len(ends)

\* Outputs of block h, and which come first.
OutputsOf(h) == UNION {{t} \X DOMAIN ledger[t].outputs : t \in TxsOf(h)}
Before(p, q) == p[1] < q[1] \/ (p[1] = q[1] /\ p[2] < q[2])
KindAt(o) == ledger[o[1]].outputs[o[2]]
P2trAt(h) == {o \in OutputsOf(h) : IsP2tr(KindAt(o))}
IndexedAt(h) == {o \in P2trAt(h) : KindAt(o) # Nums /\ ledger[o[1]].tweak}

\* The UID a client computes from the full block: firstUid plus the number
\* of native P2TR outputs before the output.
ClientUid(h, o) == stored[h].first_uid + Cardinality({q \in P2trAt(h) : Before(q, o)})

\* The place of an indexed output in the dense list of its block.
DenseIndex(h, o) == 1 + Cardinality({q \in IndexedAt(h) : Before(q, o)})

\* The key of output o was seen in an earlier one.
SeenBefore(o) ==
    \E h \in Heights : \E q \in P2trAt(h) : Before(q, o) /\ KindAt(q) = KindAt(o)

SpentAt(h) == UNION {ToSet(ledger[t].inputs) : t \in TxsOf(h)}
SpentHeight(o) == {h \in Heights : o \in SpentAt(h)}

\* Spends resolve exactly, at every distance and inside one block
\* (apply_block_with_stats).  The entries of a block are the UIDs of the
\* indexed outputs its inputs consume, as every client computes them from the
\* full block, and none is listed twice, which the spent-ID encoder would
\* refuse; the spend map keeps exactly the indexed, unspent outputs, each
\* with that UID and its position in the dense stored list.
SpendsExact ==
    /\ \A h \in Heights :
          /\ ToSet(stored[h].spends) =
               UNION {{[uid |-> ClientUid(k, o), creation_height |-> k] :
                          o \in IndexedAt(k) \cap SpentAt(h)} : k \in Heights}
          /\ IsInjective([i \in DOMAIN stored[h].spends |-> stored[h].spends[i].uid])
    /\ DOMAIN state.spend =
          (UNION {IndexedAt(h) : h \in Heights}) \ (UNION {SpentAt(h) : h \in Heights})
    /\ \A h \in Heights : \A o \in IndexedAt(h) \cap DOMAIN state.spend :
          state.spend[o] = [uid |-> ClientUid(h, o), height |-> h, index |-> DenseIndex(h, o)]

\* The outputs that tweak entries announce.
OutputCount(tweaks) ==
    LET count[n \in 0..Len(tweaks)] ==
            IF n = 0 THEN 0 ELSE count[n - 1] + tweaks[n].output_count
    IN  count[Len(tweaks)]

\* The stored block keeps the wire invariants of the README: one tweak entry
\* per transaction that is not skipped, tweak output counts that cover the
\* dense output list exactly, and slots split between indexed and skipped.
StoredWellFormed ==
    \A h \in Heights :
        LET s == stored[h] IN
        /\ s.tx_count = Cardinality(TxsOf(h))
        /\ Len(s.tweaks) = s.tx_count - Cardinality(s.skipped_txs)
        /\ OutputCount(s.tweaks) = Len(s.outputs)
        /\ \A i \in DOMAIN s.tweaks : s.tweaks[i].output_count > 0
        /\ s.slots = Len(s.outputs) + Len(s.skipped_outputs)
        /\ s.skipped_txs = {t - End(h - 1) - 1 : t \in {t \in TxsOf(h) :
                                \A o \in IndexedAt(h) : o[1] # t}}
        /\ h + 1 \in Heights => stored[h + 1].first_uid = s.first_uid + s.slots

\* The stored reuse flag of output o of block h.
Flagged(h, o) == stored[h].outputs[DenseIndex(h, o)].reused

\* With a state from new(), which the block fixtures and the tests use, every
\* stored output whose key appeared in an earlier P2TR output, indexed or not,
\* carries the flag that `filter_reuse` relies on, and no other does
\* (apply_block_with_stats).
ReuseFlagged ==
    state.tracking => \A h \in Heights : \A o \in IndexedAt(h) : Flagged(h, o) <=> SeenBefore(o)

\* light-indexer always builds its state with restore_at_uid.
ServiceSpec == Init /\ ~state.tracking /\ [][Next]_vars

\* "Reuse detection ... still exist[s] as storage metadata": in the state
\* light-indexer runs with, a stored output carries the flag exactly when its
\* key was seen before (restore_at_uid).
ReuseDetected ==
    \A h \in Heights : \A o \in IndexedAt(h) : Flagged(h, o) <=> SeenBefore(o)
=============================================================================

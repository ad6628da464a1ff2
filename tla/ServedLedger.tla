---------------------------- MODULE ServedLedger ----------------------------
(***************************************************************************)
(* The server's response filters over every small ledger P2trIndexer       *)
(* indexes: whatever boundary, tip and reuse filter a request names, what  *)
(* the client recovers is compared with the ledger itself.                 *)
(***************************************************************************)
EXTENDS P2trIndexer, LightResponse

\* The stored block of height h once the archive has reached height Len(ends):
\* mark_spent_outputs has filled in the spent heights.
IndexedPosition(h, i) ==
    CHOOSE o \in IndexedAt(h) : DenseIndex(h, o) = i

Marked(h) ==
    [stored[h] EXCEPT !.outputs =
        [i \in DOMAIN @ |->
            LET S == SpentHeight(IndexedPosition(h, i))
            IN  [key |-> @[i].key, reused |-> @[i].reused,
                 spent_height |-> IF S = {} THEN NeverSpent ELSE CHOOSE k \in S : TRUE]]]

Filters ==
    [cutthrough_start : {None}, cutthrough_tip : {None}, filter_reuse : BOOLEAN]
    \cup {f \in [cutthrough_start : Heights, cutthrough_tip : Heights,
                 filter_reuse : BOOLEAN] : f.cutthrough_start <= f.cutthrough_tip}

\* Whether the indexed output o of block h should reach a client.
Wanted(h, o, f) ==
    /\ ~(f.filter_reuse /\ state.tracking /\ SeenBefore(o))
    /\ ~(/\ f.cutthrough_start # None /\ h >= f.cutthrough_start
         /\ \E k \in SpentHeight(o) : k <= f.cutthrough_tip)

\* For every filter the response passes its own validation, and a client
\* that walks bitmap, tweaks and dense keys together pairs each transaction
\* with its own tweak and exactly its wanted outputs, in order, although the
\* filter removed outputs and whole transactions (to_filtered_response_input).
WalkRecovers ==
    \A h \in Heights : LET marked == Marked(h) IN \A f \in Filters :
        LET r == Filtered(marked, h, f)
            all == {o \in IndexedAt(h) : Wanted(h, o, f)}
            vouts(t) == SetToSortSeq({o[2] : o \in {o \in all : o[1] = t}}, <)
            keys(t) == [n \in DOMAIN vouts(t) |-> KindAt(<<t, vouts(t)[n]>>)]
            served == SetToSortSeq({o[1] : o \in all}, <)
        IN  /\ Servable(r)
            /\ ClientWalk(r) = [n \in DOMAIN served |->
                   [tx_index |-> served[n] - End(h - 1) - 1, tweak |-> served[n],
                    keys |-> keys(served[n])]]

\* Cut-through loses nothing: a client that reads all blocks from the
\* boundary s to one fixed tip t ends with exactly the indexed outputs that
\* are unspent at t, and learns exactly the spends of outputs older than s
\* (should_omit_stored_output and should_omit_stored_spend agree).
CutThroughBalances ==
    LET marked == [h \in Heights |-> Marked(h)] IN
    \A s \in Heights : \A t \in s..Len(ends) :
        LET f == [cutthrough_start |-> s, cutthrough_tip |-> t, filter_reuse |-> FALSE]
            outputs == UNION {{o \in IndexedAt(h) : \A k \in SpentHeight(o) : k > t} : h \in s..t}
            spends == UNION {{<<h, o>> : o \in {o \in IndexedAt(h) :
                                 \E k \in SpentHeight(o) : k \in s..t}} : h \in 1..(s - 1)}
            kept == FoldLeft(LAMBDA n, h : n + Len(Filtered(marked[h], h, f).keys),
                             0, [i \in 1..(t - s + 1) |-> s + i - 1])
        IN  /\ kept = Cardinality(outputs)
            /\ UNION {ToSet(Filtered(marked[h], h, f).spent_uids) : h \in s..t}
                   = {ClientUid(x[1], x[2]) : x \in spends}
=============================================================================

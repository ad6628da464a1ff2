----------------------------- MODULE UidEstimate -----------------------------
(***************************************************************************)
(* What the scanner estimates for the spent UIDs of a block under several  *)
(* codes, and the totals it keeps of a run (stats/src/block.rs,            *)
(* measure_sorted_uid_stream; histogram.rs).  Nothing is encoded: the      *)
(* estimates are formulas, compared here with streams that are: the codecs *)
(* of the light server, and Rice, escaped Rice and Elias-Fano codes that   *)
(* are written out below.                                                  *)
(***************************************************************************)
EXTENDS IntegerCodecs

CONSTANTS
    RiceKs,        \* 0..32, the Rice parameters tried
    EscapedKs,     \* 0..16, those tried with an escape
    Thresholds,    \* ESCAPED_RICE_THRESHOLDS
    KOverhead,     \* PER_BLOCK_RICE_K_OVERHEAD_BITS
    UidSamples,    \* UIDs a block may spend
    Anchors,       \* values of block_anchor_last_uid
    MaxUids,       \* bound on the spends of a block
    MaxMeasured    \* bound on measured blocks

ASSUME EstimateAssumption ==
    /\ 0 \in EscapedKs /\ EscapedKs \subseteq RiceKs /\ RiceKs \subseteq Nat
    /\ \A a \in Anchors, u \in UidSamples : u <= a /\ a < 2^Width

VARIABLES
    measured,      \* blocks so far: UIDs, anchor and SortedUidBlockEstimate
    uid_stats      \* SortedUidCodecStats of the run

estimateVars == <<measured, uid_stats>>

-----------------------------------------------------------------------------
(* The cost of one value.                                                  *)

\* Variant: a value of exactly 128 still takes one byte.
Leb128LenShort(v) == 1 + Cardinality({i \in 1..(Width \div 7) : v > 2^(7 * i)})

\* leb128_len_u64: shifts by seven until the rest is below 0x80.
Leb128Len(v) == 1 + Cardinality({i \in 1..(Width \div 7) : v >= 2^(7 * i)})

\* rice_bits, elias_delta_bits.
RiceBits(v, k) == v \div 2^k + 1 + k
EliasDeltaBits(v) == BitLength(v) + 2 * BitLength(BitLength(v)) - 1

\* CodecValueCosts::new; Elias delta has no code for zero.
Costs(v, zeroable) ==
    [leb128 |-> Leb128Len(v),
     elias |-> EliasDeltaBits(IF zeroable THEN v + 1 ELSE v),
     rice |-> [k \in RiceKs |-> RiceBits(v, k)],
     escaped |-> [c \in Thresholds \X EscapedKs |->
                     1 + IF v < c[1] THEN RiceBits(v, c[2]) ELSE 8 * Leb128Len(v)]]

\* elias_fano_bits.
EliasFanoBits(universe, n) ==
    LET lower == IF universe <= n THEN 0 ELSE BitLength(universe \div n) - 1
    IN  n * lower + n + universe \div 2^lower + 1

-----------------------------------------------------------------------------
(* CodecEstimate and Log2Hist.                                             *)

EmptyHist == [zeros |-> 0, buckets |-> [k \in 0..(Width - 1) |-> 0], sum |-> 0, max |-> 0]

NoEstimate ==
    [values |-> 0, leb128 |-> 0, elias |-> 0, rice |-> [k \in RiceKs |-> 0],
     escaped |-> [c \in Thresholds \X EscapedKs |-> 0], hist |-> EmptyHist]

\* add_costs_no_hist.
AddCosts(e, c) ==
    [e EXCEPT !.values = @ + 1, !.leb128 = @ + c.leb128, !.elias = @ + c.elias,
              !.rice = [k \in RiceKs |-> @[k] + c.rice[k]],
              !.escaped = [i \in Thresholds \X EscapedKs |-> @[i] + c.escaped[i]]]

\* Log2Hist::record.
Recorded(hist, v) ==
    [hist EXCEPT !.sum = @ + v, !.max = IF v > @ THEN v ELSE @,
                 !.zeros = IF v = 0 THEN @ + 1 ELSE @,
                 !.buckets = [k \in DOMAIN @ |->
                                 @[k] + IF v > 0 /\ k = BitLength(v) - 1 THEN 1 ELSE 0]]

\* add_costs.
AddValue(e, v, c) == [AddCosts(e, c) EXCEPT !.hist = Recorded(@, v)]

\* best_rice, best_escaped_rice: the first of the cheapest choices.
BestRice(e) ==
    LET bits == Min({e.rice[k] : k \in RiceKs})
    IN  IF e.values = 0 THEN [k |-> 0, bits |-> 0]
        ELSE [k |-> Min({k \in RiceKs : e.rice[k] = bits}), bits |-> bits]
BestEscapedRice(e) == Min({e.escaped[i] : i \in DOMAIN e.escaped})

\* Log2Hist::percentile for p = num / den.
Percentile(hist, num, den) ==
    LET count == hist.zeros + MapThenSumSet(LAMBDA k : hist.buckets[k], DOMAIN hist.buckets)
        target == (num * count + den - 1) \div den
        upto(k) == hist.zeros + MapThenSumSet(LAMBDA j : hist.buckets[j], 0..k)
        reached == {k \in DOMAIN hist.buckets : upto(k) >= target}
    IN  IF count = 0 \/ hist.zeros >= target THEN 0
        ELSE IF reached = {} THEN hist.max ELSE 2^(Min(reached) + 1) - 1

-----------------------------------------------------------------------------
NoUidStats ==
    [blocks_with_spends |-> 0, ef_bits |-> 0, delta_rice |-> 0, combined_rice |-> 0,
     first_offsets |-> NoEstimate, deltas |-> NoEstimate, combined |-> NoEstimate]

NoBlockEstimate ==
    [values |-> 0, leb128 |-> 0, rice_k |-> 0, rice_bits |-> 0, elias |-> 0, ef_bits |-> 0]

\* measure_sorted_uid_stream of a block with spends: the row's estimate and
\* the run's totals.
Measure(uids, anchor, stats) ==
    LET sorted == SortSeq(uids, <)
        n == Len(sorted)
        offset == anchor - sorted[1]
        offsetCosts == Costs(offset, TRUE)
        deltas == [i \in 1..(n - 1) |-> sorted[i + 1] - sorted[i]]
        addCosts(e, d) == AddCosts(e, Costs(d, FALSE))
        addValue(e, d) == AddValue(e, d, Costs(d, FALSE))
        block_deltas == FoldLeft(addCosts, NoEstimate, deltas)
        block_combined == FoldLeft(addCosts, AddCosts(NoEstimate, offsetCosts), deltas)
        ef_bits == 64 + EliasFanoBits(sorted[n] - sorted[1] + 1, n)
        best == BestRice(block_combined)
    IN  [row |-> [values |-> n, leb128 |-> block_combined.leb128, rice_k |-> best.k,
                  rice_bits |-> best.bits, elias |-> block_combined.elias, ef_bits |-> ef_bits],
         stats |-> [blocks_with_spends |-> stats.blocks_with_spends + 1,
                    ef_bits |-> stats.ef_bits + ef_bits,
                    delta_rice |-> stats.delta_rice
                        + IF n > 1 THEN BestRice(block_deltas).bits + KOverhead ELSE 0,
                    combined_rice |-> stats.combined_rice + best.bits + KOverhead,
                    first_offsets |-> AddValue(stats.first_offsets, offset, offsetCosts),
                    deltas |-> FoldLeft(addValue, stats.deltas, deltas),
                    combined |-> FoldLeft(addValue, AddValue(stats.combined, offset, offsetCosts),
                                          deltas)]]

EstimateInit == measured = << >> /\ uid_stats = NoUidStats

\* A block that spends nothing leaves the totals alone.
MeasureNothing ==
    /\ Len(measured) < MaxMeasured
    /\ measured' = Append(measured, [uids |-> << >>, anchor |-> 0, row |-> NoBlockEstimate])
    /\ UNCHANGED uid_stats

MeasureBlock ==
    /\ Len(measured) < MaxMeasured
    /\ \E uids \in UNION {[1..n -> UidSamples] : n \in 1..MaxUids}, anchor \in Anchors :
          /\ IsInjective(uids)
          /\ LET m == Measure(uids, anchor, uid_stats)
             IN  /\ measured' = Append(measured, [uids |-> uids, anchor |-> anchor, row |-> m.row])
                 /\ uid_stats' = m.stats

EstimateNext == MeasureNothing \/ MeasureBlock
-----------------------------------------------------------------------------
(* Reference: the streams themselves.                                      *)

Sum(values) == FoldLeft(LAMBDA a, b : a + b, 0, values)

\* The values a block's stream holds: distance of the smallest UID from the
\* anchor, then differences.
ValuesOf(m) ==
    LET sorted == SortSeq(m.uids, <)
    IN  [i \in DOMAIN sorted |-> IF i = 1 THEN m.anchor - sorted[1] ELSE sorted[i] - sorted[i - 1]]

EliasStream(m) ==
    FlattenSeq([i \in DOMAIN m.uids |->
        EncodeOne(IF i = 1 THEN ValuesOf(m)[1] + 1 ELSE ValuesOf(m)[i])])
Leb128Stream(m) == FlattenSeq([i \in DOMAIN m.uids |-> Leb128(ValuesOf(m)[i])])

\* A Rice code: the quotient in unary, then the k low bits.  An escaped one
\* starts with a flag and has the bytes of a large value instead.
Ones(n) == [i \in 1..n |-> 1]
RiceCode(v, k) == Ones(v \div 2^k) \o <<0>> \o Bits(v, k)
EscapedCode(v, t, k) ==
    IF v < t THEN <<0>> \o RiceCode(v, k)
    ELSE <<1>> \o FlattenSeq([i \in DOMAIN Leb128(v) |-> Bits(Leb128(v)[i], 8)])

RiceStream(values, k) == FlattenSeq([i \in DOMAIN values |-> RiceCode(values[i], k)])
EscapedStream(values, t, k) == FlattenSeq([i \in DOMAIN values |-> EscapedCode(values[i], t, k)])

DecodeRice(bits, k, count) ==
    LET step(acc, i) ==
            LET stop == Min({p \in acc.next..Len(bits) : bits[p] = 0})
                v == (stop - acc.next) * 2^k + Value(SubSeq(bits, stop + 1, stop + k))
            IN  [values |-> Append(acc.values, v), next |-> stop + k + 1]
    IN  FoldLeftDomain(step, [values |-> << >>, next |-> 1], Zeros(count)).values

\* An Elias-Fano code of a block's UIDs above the smallest: the low bits of
\* each, and the buckets of the high ones in unary.
LowLength(m) ==
    LET universe == Max(ToSet(m.uids)) - Min(ToSet(m.uids)) + 1
    IN  Max({0} \cup {l \in 1..Width : Len(m.uids) * 2^l <= universe})
EliasFano(m) ==
    LET l == LowLength(m)
        offsets == {u - Min(ToSet(m.uids)) : u \in ToSet(m.uids)}
        bucket(b) == {x \in offsets : x \div 2^l = b - 1}
    IN  [low |-> FlattenSeq([i \in DOMAIN m.uids |-> Bits(SetToSortSeq(offsets, <)[i], l)]),
         high |-> FlattenSeq([b \in 1..(Max(offsets) \div 2^l + 1) |->
                                 Ones(Cardinality(bucket(b))) \o <<0>>])]
DecodeEliasFano(code, base, l) ==
    LET ones == SetToSortSeq({p \in DOMAIN code.high : code.high[p] = 1}, <)
    IN  [i \in DOMAIN ones |->
            base + (ones[i] - i) * 2^l + Value(SubSeq(code.low, (i - 1) * l + 1, i * l))]

Spending == SelectSeq(measured, LAMBDA m : m.uids # << >>)
AllValues == FlattenSeq([i \in DOMAIN Spending |-> ValuesOf(Spending[i])])

(* The estimates of a row but the Elias-delta one are the lengths of       *)
(* streams that decode to its UIDs, on both sides of the length boundaries *)
(* and with a first offset of zero; for Elias-Fano it may be one bit more. *)
(* The Rice parameter is the best one.  The totals of the run are those of *)
(* its blocks, choosing k per block is never worse than one k for the run, *)
(* and a percentile is never below the true one nor more than twice it     *)
(* (measure_sorted_uid_stream, best_rice, Log2Hist).                       *)
EstimatesExact ==
    /\ \A i \in DOMAIN Spending :
          LET m == Spending[i]
              values == ValuesOf(m)
              rice == RiceStream(values, m.row.rice_k)
              code == EliasFano(m)
          IN  /\ m.row.leb128 = Len(Leb128Stream(m))
              /\ DecodeLeb128(Leb128Stream(m), m.row.values) = values
              /\ DecodeEliasFano(code, Min(ToSet(m.uids)), LowLength(m)) = SortSeq(m.uids, <)
              /\ m.row.ef_bits - 64 - Len(code.low) - Len(code.high) \in {0, 1}
              /\ m.row.rice_bits = Len(rice)
              /\ DecodeRice(rice, m.row.rice_k, m.row.values) = values
              /\ \A k \in RiceKs : m.row.rice_bits <= Len(RiceStream(values, k))
    /\ uid_stats.blocks_with_spends = Len(Spending)
    /\ uid_stats.combined.values = Len(AllValues)
    /\ uid_stats.first_offsets.values + uid_stats.deltas.values = Len(AllValues)
    /\ uid_stats.combined.elias = Sum([i \in DOMAIN Spending |-> Spending[i].row.elias])
    /\ uid_stats.combined.leb128 = Sum([i \in DOMAIN Spending |-> Spending[i].row.leb128])
    /\ uid_stats.combined_rice - KOverhead * Len(Spending) <= BestRice(uid_stats.combined).bits
    /\ AllValues # << >> =>
          /\ BestEscapedRice(uid_stats.combined) =
                Min({Len(EscapedStream(AllValues, t, k)) : t \in Thresholds, k \in EscapedKs})
          /\ \A num \in {5, 9} :
                LET sorted == SortSeq(AllValues, <)
                    true == sorted[(num * Len(sorted) + 9) \div 10]
                    p == Percentile(uid_stats.combined.hist, num, 10)
                IN  true <= p /\ p <= 2 * true

EstimateSpec == EstimateInit /\ [][EstimateNext]_estimateVars

(* "Elias-delta is charged directly", on value + 1 where zero is valid:    *)
(* the Elias-delta estimate of a row is the length of the stream that      *)
(* encode_one writes for its values (elias_delta_bits).                    *)
EliasChargedDirectly ==
    \A i \in DOMAIN Spending : Spending[i].row.elias = Len(EliasStream(Spending[i]))
=============================================================================

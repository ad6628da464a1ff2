---------------------------- MODULE SpentIdCodec ----------------------------
(***************************************************************************)
(* The spent-UID stream of a LightBlock: sorted UIDs as first + 1 and      *)
(* positive deltas (index.rs), Elias-delta coded and padded with zero bits *)
(* to a whole byte.  A block's stream is encoded, possibly cut short on    *)
(* its way, and decoded with the spent_count that travels beside it.       *)
(***************************************************************************)
EXTENDS IntegerCodecs

CONSTANT MaxIds   \* bound on the spends of a block

ASSUME SpendsAssumption == MaxIds \in Nat

Uids == 0..(2^Width - 1)

\* Variant: the first value is the UID itself.
DeltasPlain(ids) ==
    [i \in DOMAIN ids |-> IF i = 1 THEN ids[1] ELSE ids[i] - ids[i - 1]]

\* The values that are coded: first + 1, then differences.
Deltas(ids) ==
    [i \in DOMAIN ids |-> IF i = 1 THEN ids[1] + 1 ELSE ids[i] - ids[i - 1]]

\* checked_add on the first value, value > 0 on the others.
Encodable(values) == \A i \in DOMAIN values : 0 < values[i] /\ values[i] < 2^Width

\* encode_spent_ids_elias_delta_ascending_absolute.
Encode(ids) ==
    LET values == Deltas(SortSeq(ids, <))
    IN  IF ~Encodable(values) THEN Failed
        ELSE [count |-> Len(values),
              bits |-> ToBytes(FlattenSeq([i \in DOMAIN values |-> EncodeOne(values[i])]))]

\* decode_spent_ids_elias_delta_ascending_absolute: undo the differences; an
\* empty stream must have no bytes, and no UID may overflow.
Decode(count, bits) ==
    IF count = 0 THEN IF bits = << >> THEN << >> ELSE Failed
    ELSE LET values == DecodeValues(bits, count)
             ids == [i \in 1..count |->
                        FoldLeft(LAMBDA a, b : a + b, 0, SubSeq(values, 1, i)) - 1]
         IN  IF values = Failed THEN Failed
             ELSE IF \E i \in 1..count : ids[i] \notin Uids THEN Failed ELSE ids
-----------------------------------------------------------------------------
VARIABLES
    stage,   \* "idle", "spends", "sent", "received", "decoded"
    ids,     \* UIDs a block spends, in block order
    wire,    \* spent_count and spent_ids
    result   \* what the client decodes

codecVars == <<stage, ids, wire, result>>

CodecInit ==
    /\ stage = "idle" /\ ids = << >>
    /\ wire = Failed /\ result = Failed

\* A block spends some outputs.
Spends ==
    /\ stage = "idle"
    /\ ids' \in UNION {[1..n -> Uids] : n \in 0..MaxIds}
    /\ stage' = "spends"
    /\ UNCHANGED <<wire, result>>

\* to_filtered_response_input encodes the spends it keeps.
Send ==
    /\ stage = "spends"
    /\ wire' = Encode(ids)
    /\ stage' = IF wire' = Failed THEN "decoded" ELSE "sent"
    /\ UNCHANGED <<ids, result>>

\* The stream arrives with only its first n bytes, or the count beside it is
\* one too large.
Cut(n) ==
    /\ stage = "sent"
    /\ 8 * n < Len(wire.bits)
    /\ wire' = [wire EXCEPT !.bits = SubSeq(wire.bits, 1, 8 * n)]
    /\ stage' = "received"
    /\ UNCHANGED <<ids, result>>

Miscount ==
    /\ stage = "sent"
    /\ wire' = [wire EXCEPT !.count = @ + 1]
    /\ stage' = "received"
    /\ UNCHANGED <<ids, result>>

\* validate_light_block_input and the client decode the stream.
Receive ==
    /\ stage \in {"sent", "received"}
    /\ result' = Decode(wire.count, wire.bits)
    /\ stage' = "decoded"
    /\ UNCHANGED <<ids, wire>>

CodecNext == Spends \/ Send \/ (\E n \in 0..(MaxIds * Width) : Cut(n)) \/ Miscount \/ Receive

-----------------------------------------------------------------------------
Distinct == \A i, j \in DOMAIN ids : i # j => ids[i] # ids[j]

\* The stream has been delivered as it was encoded.
Intact == wire # Failed /\ wire = Encode(ids)

\* An intact stream decodes to the block's spends in ascending order, at
\* every boundary of the code lengths (encode_one, decode_one); and encoding
\* refuses exactly a repeated UID, and a smallest UID with no successor in
\* the word.
RoundTrip ==
    stage = "decoded" =>
        /\ wire = Failed <=> ~Distinct \/ ids = <<2^Width - 1>>
        /\ Intact => result = SortSeq(ids, <)

\* A stream that lost bytes, or that is read with too large a count, never
\* passes for a complete one: zero padding decodes to nothing.
DamageDetected == stage = "decoded" /\ wire # Failed /\ ~Intact => result = Failed
=============================================================================

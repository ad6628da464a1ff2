--------------------------- MODULE IntegerCodecs ---------------------------
(***************************************************************************)
(* The integer codes of the light server: Elias delta, most significant    *)
(* bit first (codec/elias_delta.rs), and LEB128 (codec/leb128.rs).  A      *)
(* stream of bits is a sequence of 0 and 1, a stream of bytes a sequence   *)
(* of 0..255.  Words have Width bits (64 in the code).                     *)
(***************************************************************************)
EXTENDS Integers, Sequences, FiniteSetsExt, SequencesExt

CONSTANTS
    Width,    \* bits of a word
    Failed    \* Err

ASSUME CodecAssumption == Width \in Nat \ {0}

\* The n low bits of v, most significant first (push_bits).
Bits(v, n) == [i \in 1..n |-> (v \div 2^(n - i)) % 2]

Value(bits) == FoldLeft(LAMBDA v, b : 2 * v + b, 0, bits)

\* 64 - leading_zeros.
BitLength(v) == CHOOSE n \in 1..(Width + 1) : 2^(n - 1) <= v /\ v < 2^n

Zeros(n) == [i \in 1..n |-> 0]

\* encode_one: length of the length in unary, the length, the value without
\* its leading one.
EncodeOne(v) ==
    LET n == BitLength(v)
        l == BitLength(n)
    IN  Zeros(l - 1) \o Bits(n, l) \o Bits(v - 2^(n - 1), n - 1)

\* Variant: a full byte of padding after a stream that ends on a byte.
ToBytesExtra(bits) == bits \o Zeros(8 - (Len(bits) % 8))

\* BitWriter::into_bytes: zero bits up to the next byte boundary.
ToBytes(bits) == bits \o Zeros((8 - (Len(bits) % 8)) % 8)

\* decode_one at position pos: the value and the next position, or Failed
\* when the stream ends or the length is not that of a word.
DecodeOne(bits, pos) ==
    LET ones == {p \in pos..Len(bits) : bits[p] = 1}
        first == CHOOSE p \in ones : \A q \in ones : p <= q
        zeros == first - pos
        n == 2^zeros + Value(SubSeq(bits, first + 1, first + zeros))
        end == first + zeros + n - 1
    IN  IF ones = {} \/ first + zeros > Len(bits) THEN Failed
        ELSE IF n > Width \/ end > Len(bits) THEN Failed
        ELSE [value |-> 2^(n - 1) + Value(SubSeq(bits, first + zeros + 1, end)), next |-> end + 1]

\* decode_elias_delta_values: count values, or Failed.
DecodeValues(bits, count) ==
    LET step(acc, i) ==
            IF acc = Failed THEN Failed
            ELSE LET d == DecodeOne(bits, acc.next)
                 IN  IF d = Failed THEN Failed
                     ELSE [values |-> Append(acc.values, d.value), next |-> d.next]
        done == FoldLeftDomain(step, [values |-> << >>, next |-> 1], Zeros(count))
    IN  IF done = Failed THEN Failed ELSE done.values

\* leb128.rs, encode_one: groups of seven bits, the lowest first, the top
\* bit set on all but the last.
Leb128(v) ==
    LET groups == Max({1} \cup {g \in 1..(Width \div 7 + 1) : v >= 2^(7 * (g - 1))})
        group(i) == (v \div 2^(7 * (i - 1))) % 128
    IN  [i \in 1..groups |-> group(i) + IF i < groups THEN 128 ELSE 0]

\* decode_leb128_values: count values, or Failed when the stream ends or a
\* value has too many groups.
DecodeLeb128(bytes, count) ==
    LET last(from) == {i \in from..Len(bytes) : bytes[i] < 128}
        step(acc, i) ==
            IF acc = Failed \/ last(acc.next) = {} THEN Failed
            ELSE LET end == Min(last(acc.next))
                     v == FoldRight(LAMBDA b, high : 128 * high + (b % 128),
                                    SubSeq(bytes, acc.next, end), 0)
                 IN  IF 7 * (end - acc.next) >= Width THEN Failed
                     ELSE [values |-> Append(acc.values, v), next |-> end + 1]
        done == FoldLeftDomain(step, [values |-> << >>, next |-> 1], Zeros(count))
    IN  IF done = Failed THEN Failed ELSE done.values
=============================================================================

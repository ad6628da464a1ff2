------------------------------ MODULE Framing ------------------------------
(***************************************************************************)
(* Two byte formats that are read with a cursor: the undo data of a block, *)
(* counts as CompactSize and spent outputs as CTxOut (core/src/block.rs),  *)
(* which a node may also answer as hex text (sources/src/rest.rs), and the *)
(* body of a range response, messages after their lengths                  *)
(* (light-server/src/range.rs).  A payload is written, may be damaged on   *)
(* its way, and is read.  A stream of bytes is a sequence of 0..255; a     *)
(* reader answers the value and the position after it, or Failed.  An      *)
(* amount is its eight bytes.                                              *)
(***************************************************************************)
EXTENDS IntegerCodecs

CONSTANTS
    UndoData,      \* undo data of blocks; the first entry is the coinbase's
    Messages,      \* encoded light blocks
    MaxMessages,   \* bound on the messages of a range
    Unread         \* the payload is still on its way

ASSUME FramingAssumption ==
    /\ MaxMessages \in Nat
    /\ \A txs \in UndoData : txs # << >> /\ txs[1] = << >>

\* n as size bytes, the lowest first, and back (to_le_bytes, from_le_bytes).
LittleEndian(n, size) == [i \in 1..size |-> IF i > 4 THEN 0 ELSE (n \div 256^(i - 1)) % 256]
FromLittleEndian(bytes) == FoldRight(LAMBDA b, high : 256 * high + b, bytes, 0)

\* Cursor::read_exact.
ReadExact(bytes, pos, size) ==
    IF pos + size - 1 > Len(bytes) THEN Failed
    ELSE [value |-> SubSeq(bytes, pos, pos + size - 1), next |-> pos + size]

\* count items, one after the other; the first that fails fails them all.
RECURSIVE ReadItems(_, _, _, _)
ReadItems(Read(_, _), bytes, pos, count) ==
    IF count = 0 THEN [value |-> << >>, next |-> pos]
    ELSE LET item == Read(bytes, pos) IN
         IF item = Failed THEN Failed
         ELSE LET rest == ReadItems(Read, bytes, item.next, count - 1)
              IN  IF rest = Failed THEN Failed
                  ELSE [rest EXCEPT !.value = <<item.value>> \o @]

\* Nothing is left behind the last item.
Complete(bytes, read) ==
    IF read = Failed \/ read.next # Len(bytes) + 1 THEN Failed ELSE read.value
-----------------------------------------------------------------------------
(* The undo payload of /rest/spenttxouts *)

\* Variant: 253 is refused in three bytes.
NeedsFormStrict(bytes) ==
    IF Len(bytes) = 2 THEN FromLittleEndian(bytes) > 253
    ELSE \E i \in (Len(bytes) \div 2 + 1)..Len(bytes) : bytes[i] # 0

\* The value does not fit in the form before: >= 0xfd, > 0xffff, > 0xffffffff.
NeedsForm(bytes) ==
    IF Len(bytes) = 2 THEN FromLittleEndian(bytes) >= 253
    ELSE \E i \in (Len(bytes) \div 2 + 1)..Len(bytes) : bytes[i] # 0

\* read_compact_size: one byte below 0xfd, or two, four or eight bytes after
\* a marker.
CompactSize(bytes, pos) ==
    IF pos > Len(bytes) THEN Failed
    ELSE IF bytes[pos] < 253 THEN [value |-> bytes[pos], next |-> pos + 1]
    ELSE LET read == ReadExact(bytes, pos + 1, 2^(bytes[pos] - 252))
         IN  IF read = Failed THEN Failed
             ELSE IF ~NeedsForm(read.value) THEN Failed
             ELSE [read EXCEPT !.value = FromLittleEndian(@)]

\* A CTxOut: read_txout_value refuses a negative amount, read_raw_script
\* takes the script after its length.
SpentTxOut(bytes, pos) ==
    LET amount == ReadExact(bytes, pos, 8)
        len == CompactSize(bytes, amount.next)
        script == ReadExact(bytes, len.next, len.value)
    IN  IF amount = Failed THEN Failed
        ELSE IF amount.value[8] >= 128 \/ len = Failed THEN Failed
        ELSE IF script = Failed THEN Failed
        ELSE [value |-> [value_sat |-> amount.value,
                         script_pubkey |-> script.value],
              next  |-> script.next]

\* A count and as many items.
Counted(Read(_, _), bytes, pos) ==
    LET count == CompactSize(bytes, pos)
    IN  IF count = Failed THEN Failed ELSE ReadItems(Read, bytes, count.next, count.value)

SpentTxOuts(bytes, pos) == Counted(SpentTxOut, bytes, pos)

\* decode_spent_txouts_payload.
DecodeUndo(bytes) == Complete(bytes, Counted(SpentTxOuts, bytes, 1))

\* What the node writes: sizes in their shortest form.
WriteSize(n) == IF n < 253 THEN <<n>> ELSE <<253>> \o LittleEndian(n, 2)
WriteTxOut(o) == o.value_sat \o WriteSize(Len(o.script_pubkey)) \o o.script_pubkey
WriteInputs(tx) == WriteSize(Len(tx)) \o FlattenSeq([i \in DOMAIN tx |-> WriteTxOut(tx[i])])
WriteUndo(txs) == WriteSize(Len(txs)) \o FlattenSeq([i \in DOMAIN txs |-> WriteInputs(txs[i])])

\* Hex text of bytes, in lower case, and back.
Digit(n) == IF n < 10 THEN 48 + n ELSE 87 + n
WriteHex(bytes) ==
    [i \in 1..(2 * Len(bytes)) |->
        LET byte == bytes[(i + 1) \div 2] IN Digit(IF i % 2 = 1 THEN byte \div 16 ELSE byte % 16)]
Nibble(c) == IF c < 58 THEN c - 48 ELSE (c - 55) % 32
FromHex(text) ==
    [i \in 1..(Len(text) \div 2) |-> 16 * Nibble(text[2 * i - 1]) + Nibble(text[2 * i])]

HexDigits == (48..57) \cup (65..70) \cup (97..102)
Whitespace == {9, 10, 12, 13, 32}

\* decode_rest_binary_or_hex: what looks like hex text is read as hex text.
DecodeRest(bytes) ==
    LET kept == {i \in DOMAIN bytes : bytes[i] \notin Whitespace}
        text == IF kept = {} THEN << >> ELSE SubSeq(bytes, Min(kept), Max(kept))
    IN  IF text # << >> /\ Len(text) % 2 = 0 /\ ToSet(text) \subseteq HexDigits
        THEN FromHex(text) ELSE bytes
-----------------------------------------------------------------------------
(* The range frame *)

RangeMagic == <<66, 68, 83, 82>>   \* "BDSR"
RangeVersion == 1

\* frame_range.
FrameRange(messages) ==
    RangeMagic \o LittleEndian(RangeVersion, 2) \o LittleEndian(Len(messages), 4)
      \o FlattenSeq([i \in DOMAIN messages |->
             LittleEndian(Len(messages[i]), 4) \o messages[i]])

\* One message after its length.
RangeItem(bytes, pos) ==
    LET len == ReadExact(bytes, pos, 4)
    IN  IF len = Failed THEN Failed
        ELSE ReadExact(bytes, len.next, FromLittleEndian(len.value))

\* parse_range.
ParseRange(bytes) ==
    IF Len(bytes) < 10 THEN Failed
    ELSE IF SubSeq(bytes, 1, 4) # RangeMagic
            \/ FromLittleEndian(SubSeq(bytes, 5, 6)) # RangeVersion THEN Failed
    ELSE Complete(bytes,
             ReadItems(RangeItem, bytes, 11, FromLittleEndian(SubSeq(bytes, 7, 10))))
-----------------------------------------------------------------------------
VARIABLES
    format,    \* "undo", "hex" for undo data as hex text, "range"
    content,   \* what is written
    payload,   \* its bytes on the way
    intact,    \* the bytes are still those that were written
    parsed     \* what is read

framingVars == <<format, content, payload, intact, parsed>>

Ranges == UNION {[1..n -> Messages] : n \in 0..MaxMessages}

FramingInit ==
    /\ format \in {"undo", "hex", "range"}
    /\ content \in (IF format = "range" THEN Ranges ELSE UndoData)
    /\ payload = CASE format = "undo" -> WriteUndo(content)
                   [] format = "hex" -> Append(WriteHex(WriteUndo(content)), 10)
                   [] format = "range" -> FrameRange(content)
    /\ intact = TRUE
    /\ parsed = Unread

Damage(bytes) ==
    /\ intact /\ parsed = Unread
    /\ payload' = bytes
    /\ intact' = FALSE
    /\ UNCHANGED <<format, content, parsed>>

\* The line end after hex text is no part of it.
Needed == IF format = "hex" THEN Len(payload) - 1 ELSE Len(payload)

\* The transfer ends early, or brings bytes of something else.
CutShort == \E n \in 0..(Needed - 1) : Damage(SubSeq(payload, 1, n))
RunOn == Damage(Append(payload, 0))

\* A byte of the range header changed.
HeaderChanged ==
    /\ format = "range"
    /\ \E i \in 1..10 : Damage([payload EXCEPT ![i] = @ + 1])

\* The transaction count in a longer form than it needs.
WideSize ==
    /\ format = "undo"
    /\ \E size \in {2, 4, 8} :
           Damage(<<CASE size = 2 -> 253 [] size = 4 -> 254 [] size = 8 -> 255>>
                    \o LittleEndian(Len(content), size) \o Tail(payload))

\* The last spent output has its sign bit set.
NegativeValue ==
    /\ format = "undo"
    /\ Len(content) > 1 /\ Last(content) # << >>
    /\ LET tail == Len(WriteTxOut(Last(Last(content))))
       IN  Damage([payload EXCEPT ![Len(payload) - tail + 8] = @ + 128])

ReadPayload ==
    /\ parsed = Unread
    /\ parsed' = IF format = "range" THEN ParseRange(payload) ELSE DecodeUndo(DecodeRest(payload))
    /\ UNCHANGED <<format, content, payload, intact>>

FramingNext == CutShort \/ RunOn \/ HeaderChanged \/ WideSize \/ NegativeValue \/ ReadPayload

\* Undo data and range bodies are read back exactly as they were written, at
\* the lengths where a size takes one more byte too, and no truncated,
\* prolonged or altered payload passes for a complete one; binary undo data
\* is never taken for hex text, whatever it holds, and hex text never for
\* binary data (decode_spent_txouts_payload, decode_rest_binary_or_hex,
\* parse_range).
FramesExact == parsed # Unread => parsed = IF intact THEN content ELSE Failed
=============================================================================

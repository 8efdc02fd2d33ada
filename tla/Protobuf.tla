------------------------------- MODULE Protobuf -------------------------------
(***************************************************************************)
(* Protobuf as this program writes and reads it, on bytes: varints, fields *)
(* of the four wire types that are not rejected, and the walk from field   *)
(* to field that five decoders each have a copy of (mesh_data.c,           *)
(* mesh_user.c, and three in phone_encode.c).                              *)
(***************************************************************************)
EXTENDS Naturals, Sequences, FiniteSetsExt

CONSTANTS
    VARINT_BITS,    \* bits of a varint's value, 64
    WORD_BITS       \* bits of a field number and of a uint32_t, 32

\* A field number is read out of a varint into a word.
ASSUME BitsAssumption ==
    /\ VARINT_BITS \in Nat
    /\ WORD_BITS \in 8 .. VARINT_BITS

Byte  == 0 .. 255
Group == 128    \* seven bits to a byte, the eighth says that more follow

WIRE_VARINT  == 0
WIRE_FIXED64 == 1
WIRE_LEN     == 2
WIRE_FIXED32 == 5

TwoTo[n \in Nat] == IF n = 0 THEN 1 ELSE 2 * TwoTo[n - 1]

Word(value) == value % TwoTo[WORD_BITS]

-----------------------------------------------------------------------------
(* Writing: pb_write.c, and the copies in mesh_encode.c *)

\* raw_varint, write_varint: seven bits at a time, the low ones first.
Varint[value \in Nat] ==
    IF value < Group THEN <<value>>
    ELSE <<(value % Group) + Group>> \o Varint[value \div Group]

Tag(num, wire) == Varint[8 * num + wire]

\* A seeded fault: a uint32_t as a big endian machine keeps it.
FourBytesBig(value) ==
    <<(value \div 16777216) % 256, (value \div 65536) % 256, (value \div 256) % 256, value % 256>>

\* A uint32_t, low byte first.
FourBytes(value) ==
    <<value % 256, (value \div 256) % 256, (value \div 65536) % 256, (value \div 16777216) % 256>>

VarintField(num, value)  == Tag(num, WIRE_VARINT) \o Varint[value]
BytesField(num, bytes)   == Tag(num, WIRE_LEN) \o Varint[Len(bytes)] \o bytes
Fixed32Field(num, value) == Tag(num, WIRE_FIXED32) \o FourBytes(value)

-----------------------------------------------------------------------------
(* Reading *)

Malformed == [ok |-> FALSE]

(* read_varint: nothing when the bytes end before the varint does, or when *)
(* it goes on past the bits of the value.  Of its last byte the bits that  *)
(* no longer fit are shifted out.                                          *)
ReadVarint(buf, pos) ==
    LET ends == {i \in pos .. Len(buf) : buf[i] < Group}
        end  == Min(ends)
        value[i \in pos .. end] == IF i = end THEN buf[i] ELSE buf[i] - Group + Group * value[i + 1]
    IN  IF ends = {} \/ 7 * (end - pos) >= VARINT_BITS THEN Malformed
        ELSE [ok |-> TRUE, value |-> value[pos] % TwoTo[VARINT_BITS], next |-> end + 1]

\* A seeded fault: a field that ends with its buffer, however long it says it is.
TakeWhatIsLeft(buf, num, wire, from, size) ==
    [ok |-> TRUE, num |-> num, wire |-> wire, value |-> 0,
     from |-> from, next |-> Min({from + size, Len(buf) + 1})]

\* A field's size bytes from a place on, if so many are left.
Take(buf, num, wire, from, size) ==
    IF size > Len(buf) + 1 - from THEN Malformed
    ELSE [ok |-> TRUE, num |-> num, wire |-> wire, value |-> 0, from |-> from, next |-> from + size]

\* A seeded fault: every fixed field passed over as one of 64 bits.
Eights(wire) == 8

FixedSize(wire) == IF wire = WIRE_FIXED32 THEN 4 ELSE 8

\* A field of that number and wire type, whose value begins at from.
FieldOf(buf, num, wire, from) ==
    LET varint == ReadVarint(buf, from)
    IN  IF num = 0 \/ wire \notin {WIRE_VARINT, WIRE_FIXED64, WIRE_LEN, WIRE_FIXED32} THEN Malformed
        ELSE IF wire \in {WIRE_FIXED32, WIRE_FIXED64} THEN Take(buf, num, wire, from, FixedSize(wire))
        ELSE IF ~varint.ok THEN Malformed
        ELSE IF wire = WIRE_LEN THEN Take(buf, num, wire, varint.next, varint.value)
        ELSE [ok |-> TRUE, num |-> num, wire |-> wire, value |-> varint.value,
              from |-> from, next |-> varint.next]

(* One field at pos: its number and wire type, the value of a varint, and  *)
(* where the bytes of any other begin and what follows it begins.          *)
Field(buf, pos) ==
    LET tag == ReadVarint(buf, pos)
    IN  IF ~tag.ok THEN Malformed ELSE FieldOf(buf, Word(tag.value \div 8), tag.value % 8, tag.next)

Prepended(field, walk) == [walk EXCEPT !.fields = <<field>> \o @]

(* The loop of a decoder over its buffer: the fields it gets to, and       *)
(* whether it reaches the end.                                             *)
Walk(buf) ==
    LET rest[pos \in 1 .. Len(buf) + 1] ==
            IF pos = Len(buf) + 1 THEN [ok |-> TRUE, fields |-> <<>>]
            ELSE LET field == Field(buf, pos)
                 IN  IF field.ok THEN Prepended(field, rest[field.next])
                                 ELSE [ok |-> FALSE, fields |-> <<>>]
    IN  rest[1]

Content(buf, field) == SubSeq(buf, field.from, field.next - 1)

\* What a fixed32 holds.
FourByteValue(bytes) == bytes[1] + 256 * (bytes[2] + 256 * (bytes[3] + 256 * bytes[4]))

(* The field of that number and a wire type of wires in a sequence of      *)
(* fields, in a set of its own: a later one overrules an earlier one.      *)
LastField(fields, num, wires) ==
    LET places == {i \in DOMAIN fields : fields[i].num = num /\ fields[i].wire \in wires}
    IN  IF places = {} THEN {} ELSE {fields[Max(places)]}

=============================================================================

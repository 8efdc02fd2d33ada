-------------------------- MODULE MeshCodec_proofs --------------------------
(***************************************************************************)
(* Proofs about MeshCodec, for any fields a sender offers, wrapped into    *)
(* any others however deep, and any names, keys and headers.  The          *)
(* invariant is that the bytes hold the message sent: its fields lie one   *)
(* after the other in them.                                                *)
(***************************************************************************)
EXTENDS MeshCodec, Protobuf_proofs

-----------------------------------------------------------------------------
(* A field is read as it was written *)

\* What follows the tag of a field.
Behind(field) ==
    CASE field.wire = WIRE_VARINT  -> Varint[field.value]
      [] field.wire = WIRE_FIXED32 -> FourBytes(field.value)
      [] field.wire = WIRE_FIXED64 -> FourBytes(field.value) \o FourBytes(0)
      [] field.wire = WIRE_LEN     -> Varint[Len(field.bytes)] \o field.bytes

LEMMA BehindTypes ==
    ASSUME NEW field, Writable(field)
    PROVE  /\ field.wire = 0 => Behind(field) = Varint[field.value]
           /\ field.wire = 5 => Behind(field) = FourBytes(field.value)
           /\ field.wire = 1 => Behind(field) = FourBytes(field.value) \o FourBytes(0)
           /\ field.wire = 2 => Behind(field) = Varint[Len(field.bytes)] \o field.bytes
           /\ Behind(field) \in Seq(Byte)
<1>1. /\ field.wire = 0 => Behind(field) = Varint[field.value]
      /\ field.wire = 5 => Behind(field) = FourBytes(field.value)
      /\ field.wire = 1 => Behind(field) = FourBytes(field.value) \o FourBytes(0)
      /\ field.wire = 2 => Behind(field) = Varint[Len(field.bytes)] \o field.bytes
    <2>1. ASSUME field.wire = 0 PROVE Behind(field) = Varint[field.value]
        BY <2>1, WireTypes DEF Behind
    <2>2. ASSUME field.wire = 5 PROVE Behind(field) = FourBytes(field.value)
        BY <2>2, WireTypes DEF Behind
    <2>3. ASSUME field.wire = 1 PROVE Behind(field) = FourBytes(field.value) \o FourBytes(0)
        BY <2>3, WireTypes DEF Behind
    <2>4. ASSUME field.wire = 2 PROVE Behind(field) = Varint[Len(field.bytes)] \o field.bytes
        <3>1. /\ field.wire = WIRE_LEN /\ field.wire # WIRE_VARINT
              /\ field.wire # WIRE_FIXED32 /\ field.wire # WIRE_FIXED64
            BY <2>4, WireTypes
        <3>2. QED
            BY <3>1, Zenon DEF Behind
    <2>5. QED
        BY <2>1, <2>2, <2>3, <2>4
<1>2. /\ field.value \in Nat /\ field.bytes \in Seq(Byte)
      /\ field.wire \in {0, 5, 1, 2}
    BY WireTypes DEF Writable
<1>3. /\ Varint[field.value] \in Seq(Byte)
      /\ Varint[Len(field.bytes)] \in Seq(Byte)
    <2>1. Len(field.bytes) \in Nat
        BY <1>2
    <2>2. QED
        BY <1>2, <2>1, VarintDef
<1>4. FourBytes(field.value) \in Seq(Byte) /\ FourBytes(0) \in Seq(Byte)
    BY <1>2, FourBytesAreBytes
<1>5. /\ FourBytes(field.value) \o FourBytes(0) \in Seq(Byte)
      /\ Varint[Len(field.bytes)] \o field.bytes \in Seq(Byte)
    BY <1>2, <1>3, <1>4
<1>6. QED
    BY <1>1, <1>2, <1>3, <1>4, <1>5

LEMMA EncodedIsTagged ==
    ASSUME NEW field, Writable(field)
    PROVE  /\ Encoded(field) = Varint[8 * field.num + field.wire] \o Behind(field)
           /\ 8 * field.num + field.wire \in Nat
           /\ Varint[8 * field.num + field.wire] \in Seq(Byte)
           /\ Encoded(field) \in Seq(Byte)
           /\ Len(Encoded(field)) \in Nat /\ Len(Encoded(field)) >= 1
<1> DEFINE tag == Varint[8 * field.num + field.wire]
<1>1. field.wire \in {0, 5, 1, 2} /\ field.num \in Nat /\ field.value \in Nat /\ field.bytes \in Seq(Byte)
    BY WireTypes DEF Writable
<1>2. 8 * field.num + field.wire \in Nat
    BY <1>1, SMT
<1>3. tag \in Seq(Byte) /\ Len(tag) \in Nat /\ Len(tag) >= 1
    BY <1>2, VarintDef, VarintShape
<1>4. Behind(field) \in Seq(Byte)
    BY BehindTypes
<1>4a. Tag(field.num, field.wire) = tag
    BY DEF Tag
<1> HIDE DEF tag
<1>5. Encoded(field) = tag \o Behind(field)
    <2>1. CASE field.wire = 0
        <3>1. Encoded(field) = VarintField(field.num, field.value)
            BY <2>1, WireTypes DEF Encoded
        <3>2. QED
            BY <1>4a, <2>1, <3>1, BehindTypes, WireTypes DEF VarintField
    <2>2. CASE field.wire = 5
        <3>1. Encoded(field) = Fixed32Field(field.num, field.value)
            BY <2>2, WireTypes DEF Encoded
        <3>2. QED
            BY <1>4a, <2>2, <3>1, BehindTypes, WireTypes DEF Fixed32Field
    <2>3. CASE field.wire = 1
        <3>1. FourBytes(field.value) \in Seq(Byte) /\ FourBytes(0) \in Seq(Byte)
            BY <1>1, FourBytesAreBytes
        <3>2. Encoded(field) = (tag \o FourBytes(field.value)) \o FourBytes(0)
            BY <1>4a, <2>3, WireTypes DEF Encoded
        <3>3. (tag \o FourBytes(field.value)) \o FourBytes(0) = tag \o (FourBytes(field.value) \o FourBytes(0))
            BY <1>3, <3>1, BytesAssociate
        <3>4. QED
            BY <2>3, <3>2, <3>3, BehindTypes
    <2>4. CASE field.wire = 2
        <3> DEFINE size == Varint[Len(field.bytes)]
        <3>1. size \in Seq(Byte)
            <4>1. Len(field.bytes) \in Nat
                BY <1>1
            <4>2. QED
                BY <4>1, VarintDef
        <3>2. Encoded(field) = BytesField(field.num, field.bytes)
            BY <2>4, WireTypes DEF Encoded
        <3>3. BytesField(field.num, field.bytes) = (tag \o size) \o field.bytes
            BY <1>4a, <2>4, WireTypes DEF BytesField
        <3>4. (tag \o size) \o field.bytes = tag \o (size \o field.bytes)
            BY <1>1, <1>3, <3>1, BytesAssociate
        <3>5. Behind(field) = size \o field.bytes
            BY <2>4, BehindTypes
        <3>6. QED
            BY <3>2, <3>3, <3>4, <3>5
    <2>5. QED
        BY <1>1, <2>1, <2>2, <2>3, <2>4
<1>6. tag \o Behind(field) \in Seq(Byte) /\ Len(tag \o Behind(field)) = Len(tag) + Len(Behind(field))
      /\ Len(Behind(field)) \in Nat
    BY <1>3, <1>4
<1>7. Len(Encoded(field)) \in Nat /\ Len(Encoded(field)) >= 1
    BY <1>3, <1>5, <1>6, SMT
<1>8. QED
    BY <1>2, <1>3, <1>5, <1>6, <1>7 DEF tag

\* Behind its tag, a field.
LEMMA FieldBehindTag ==
    ASSUME NEW b \in Seq(Byte), NEW pos \in 1 .. Len(b), NEW field, Writable(field),
           At(b, pos, Varint[8 * field.num + field.wire])
    PROVE  LET from == pos + Len(Varint[8 * field.num + field.wire])
           IN  /\ from \in 1 .. Len(b) + 1
               /\ Field(b, pos) = FieldOf(b, field.num, field.wire, from)
<1> DEFINE tag  == 8 * field.num + field.wire
           from == pos + Len(Varint[tag])
<1>1. /\ field.num \in Nat /\ field.num # 0 /\ field.wire \in {0, 1, 2, 5}
      /\ 8 * field.num + 7 < TwoTo[WORD_BITS]
    BY WireTypes DEF Writable
<1>2. TwoTo[WORD_BITS] <= TwoTo[VARINT_BITS] /\ TwoTo[WORD_BITS] \in Nat /\ TwoTo[VARINT_BITS] \in Nat
    <2>1. WORD_BITS \in Nat /\ VARINT_BITS \in Nat /\ WORD_BITS <= VARINT_BITS
        BY BitsAssumption, SMT
    <2>2. QED
        BY <2>1, TwoToGrows, TwoToPositive
<1>3. tag \in Nat /\ tag < TwoTo[VARINT_BITS] /\ tag \div 8 = field.num /\ tag % 8 = field.wire
    BY <1>1, <1>2, TagNumbers
<1>4. At(b, pos, Varint[tag])
    OBVIOUS
<1>5. pos \in 1 .. Len(b) + 1
    BY SMT
<1> HIDE DEF tag
<1>6. ReadVarint(b, pos) = [ok |-> TRUE, value |-> tag, next |-> from]
    BY <1>3, <1>4, <1>5, ReadVarintAt
<1>7. Word(tag \div 8) = field.num
    <2>1. field.num < TwoTo[WORD_BITS]
        BY <1>1, <1>2, SMT
    <2>2. field.num % TwoTo[WORD_BITS] = field.num
        BY <1>1, <1>2, <2>1, SmallModulo
    <2>3. QED
        BY <1>3, <2>2 DEF Word
<1>8. Field(b, pos) = FieldOf(b, field.num, field.wire, from)
    BY <1>3, <1>6, <1>7 DEF Field
<1>9. from \in 1 .. Len(b) + 1
    <2>1. LET varint == ReadVarint(b, pos) IN varint.ok => varint.next \in pos + 1 .. Len(b) + 1
        BY <1>5, ReadVarintInside
    <2>2. from \in pos + 1 .. Len(b) + 1
        BY <1>6, <2>1
    <2>3. QED
        BY <2>2, SMT
<1>10. QED
    BY <1>8, <1>9 DEF tag

\* A field as it was written, found at pos.
IsRead(got, field, b, pos) ==
    /\ got.ok /\ got.num = field.num /\ got.wire = field.wire
    /\ got.next = pos + Len(Encoded(field))
    /\ field.wire = 0 => got.value = field.value
    /\ field.wire = 5 => Content(b, got) = FourBytes(field.value)
    /\ field.wire = 2 => Content(b, got) = field.bytes

LEMMA FieldAt ==
    ASSUME NEW b \in Seq(Byte), NEW pos \in 1 .. Len(b), NEW field, Writable(field),
           At(b, pos, Encoded(field))
    PROVE  IsRead(Field(b, pos), field, b, pos)
<1> DEFINE tag  == Varint[8 * field.num + field.wire]
           from == pos + Len(tag)
           body == Behind(field)
           got  == Field(b, pos)
<1>1. /\ Encoded(field) = tag \o body /\ tag \in Seq(Byte) /\ body \in Seq(Byte)
      /\ pos \in Nat \ {0}
    <2>1. pos \in Nat \ {0}
        BY SMT
    <2>2. QED
        BY <2>1, EncodedIsTagged, BehindTypes
<1>2. /\ field.num \in Nat /\ field.num # 0 /\ field.wire \in {0, 1, 2, 5}
      /\ field.value \in Nat /\ field.bytes \in Seq(Byte)
      /\ field.wire = 0 => field.value < TwoTo[VARINT_BITS]
      /\ Len(field.bytes) < TwoTo[VARINT_BITS]
      /\ Len(field.bytes) \in Nat
    BY WireTypes DEF Writable
<1> HIDE DEF tag, body
<1>3. At(b, pos, tag) /\ At(b, from, body)
    BY <1>1, AtParts
<1>4. from \in 1 .. Len(b) + 1 /\ got = FieldOf(b, field.num, field.wire, from)
    BY <1>3, FieldBehindTag DEF tag
<1>5. Len(Encoded(field)) = Len(tag) + Len(body) /\ Len(tag) \in Nat /\ Len(body) \in Nat
    BY <1>1, ConcatProperties
<1>6. pos + Len(Encoded(field)) = from + Len(body) /\ from \in Nat \ {0} /\ from + Len(body) <= Len(b) + 1
    BY <1>1, <1>3, <1>4, <1>5, SMT DEF At
<1> HIDE DEF from, got
<1>7. CASE field.wire = 0
    <2>1. body = Varint[field.value]
        BY <1>7, BehindTypes DEF body
    <2>2. ReadVarint(b, from) = [ok |-> TRUE, value |-> field.value, next |-> from + Len(body)]
        BY <1>2, <1>3, <1>4, <1>7, <2>1, ReadVarintAt
    <2>3. got = [ok |-> TRUE, num |-> field.num, wire |-> 0, value |-> field.value,
                 from |-> from, next |-> from + Len(body)]
        <3>1. FieldOf(b, field.num, 0, from) =
                  IF ~ReadVarint(b, from).ok THEN Malformed
                  ELSE [ok |-> TRUE, num |-> field.num, wire |-> 0, value |-> ReadVarint(b, from).value,
                        from |-> from, next |-> ReadVarint(b, from).next]
            BY <1>2, FieldOfTypes
        <3>2. QED
            BY <1>4, <1>7, <2>2, <3>1
    <2>4. QED
        BY <1>6, <1>7, <2>3 DEF IsRead, got
<1>8. CASE field.wire = 5
    <2>1. body = FourBytes(field.value) /\ Len(body) = 4
        BY <1>2, <1>8, BehindTypes, FourBytesAreBytes DEF body
    <2>2. got = [ok |-> TRUE, num |-> field.num, wire |-> 5, value |-> 0,
                 from |-> from, next |-> from + 4]
        <3>1. got = Take(b, field.num, 5, from, 4)
            BY <1>2, <1>4, <1>8, FieldOfTypes
        <3>2. from + 4 <= Len(b) + 1 /\ from \in Nat \ {0}
            BY <1>6, <2>1
        <3>3. Take(b, field.num, 5, from, 4) = Whole(field.num, 5, from, 4)
            BY <3>2, TakeWhole
        <3>4. QED
            BY <3>1, <3>3 DEF Whole
    <2>3. Content(b, got) = body
        <3>1. got.from = from /\ got.next = from + Len(body)
            BY <2>1, <2>2
        <3>2. QED
            BY <1>1, <1>3, <1>6, <3>1, ContentAt
    <2>4. QED
        BY <1>6, <1>8, <2>1, <2>2, <2>3 DEF IsRead, got
<1>9. CASE field.wire = 1
    <2>1. Len(body) = 8
        BY <1>2, <1>9, BehindTypes, EightBytes DEF body
    <2>2. got = [ok |-> TRUE, num |-> field.num, wire |-> 1, value |-> 0,
                 from |-> from, next |-> from + 8]
        <3>1. got = Take(b, field.num, 1, from, 8)
            BY <1>2, <1>4, <1>9, FieldOfTypes
        <3>2. from + 8 <= Len(b) + 1 /\ from \in Nat \ {0}
            BY <1>6, <2>1
        <3>3. Take(b, field.num, 1, from, 8) = Whole(field.num, 1, from, 8)
            BY <3>2, TakeWhole
        <3>4. QED
            BY <3>1, <3>3 DEF Whole
    <2>3. QED
        BY <1>6, <1>9, <2>1, <2>2 DEF IsRead, got
<1>10. CASE field.wire = 2
    <2> DEFINE size  == Varint[Len(field.bytes)]
               start == from + Len(size)
    <2>1. body = size \o field.bytes /\ size \in Seq(Byte)
        BY <1>2, <1>10, BehindTypes, VarintDef DEF body
    <2> HIDE DEF size
    <2>2. At(b, from, size) /\ At(b, start, field.bytes)
        BY <1>2, <1>3, <1>6, <2>1, AtParts
    <2>3. ReadVarint(b, from) = [ok |-> TRUE, value |-> Len(field.bytes), next |-> start]
        BY <1>2, <1>4, <2>2, ReadVarintAt DEF size
    <2>4. Len(body) = Len(size) + Len(field.bytes) /\ Len(size) \in Nat
        BY <1>2, <2>1, ConcatProperties
    <2>5. /\ start + Len(field.bytes) = from + Len(body) /\ start \in Nat \ {0}
          /\ start + Len(field.bytes) <= Len(b) + 1
        <3> DEFINE n == Len(field.bytes)
                   k == Len(size)
                   l == Len(body)
        <3>1. l = k + n /\ k \in Nat /\ n \in Nat /\ from \in Nat /\ from # 0 /\ from + l <= Len(b) + 1
            BY <1>2, <1>6, <2>4
        <3> HIDE DEF n, k, l
        <3>2. (from + k) + n = from + l /\ from + k \in Nat \ {0}
            BY <3>1, SMT
        <3>3. QED
            BY <3>1, <3>2 DEF n, k, l
    <2> HIDE DEF start
    <2>6. got = [ok |-> TRUE, num |-> field.num, wire |-> 2, value |-> 0,
                 from |-> start, next |-> start + Len(field.bytes)]
        <3>1. got = Take(b, field.num, 2, start, Len(field.bytes))
            <4>1. FieldOf(b, field.num, 2, from) =
                      IF ~ReadVarint(b, from).ok THEN Malformed
                      ELSE Take(b, field.num, 2, ReadVarint(b, from).next, ReadVarint(b, from).value)
                BY <1>2, FieldOfTypes
            <4>2. QED
                BY <1>4, <1>10, <2>3, <4>1
        <3>2. start + Len(field.bytes) <= Len(b) + 1 /\ Len(field.bytes) \in Nat
            BY <1>2, <2>5
        <3> DEFINE n == Len(field.bytes)
        <3>3. n \in Nat /\ start + n <= Len(b) + 1 /\ start \in Nat \ {0}
            BY <2>5, <3>2
        <3> HIDE DEF n
        <3>4. Take(b, field.num, 2, start, n) = Whole(field.num, 2, start, n)
            BY <3>3, TakeWhole
        <3>5. QED
            BY <3>1, <3>4 DEF n, Whole
    <2>7. Content(b, got) = field.bytes
        BY <1>2, <2>2, <2>5, <2>6, ContentAt
    <2>8. QED
        BY <1>6, <1>10, <2>5, <2>6, <2>7 DEF IsRead, got
<1>11. QED
    BY <1>2, <1>7, <1>8, <1>9, <1>10

\* Half a field is no field.
LEMMA FieldCut ==
    ASSUME NEW b \in Seq(Byte), NEW pos \in 1 .. Len(b), NEW field, Writable(field),
           Cut(b, pos, Encoded(field))
    PROVE  ~Field(b, pos).ok
<1> DEFINE tag  == Varint[8 * field.num + field.wire]
           from == pos + Len(tag)
           body == Behind(field)
<1>1. /\ Encoded(field) = tag \o body /\ tag \in Seq(Byte) /\ body \in Seq(Byte)
      /\ pos \in Nat \ {0} /\ pos \in 1 .. Len(b) + 1 /\ 8 * field.num + field.wire \in Nat
    <2>1. pos \in Nat \ {0} /\ pos \in 1 .. Len(b) + 1
        BY SMT
    <2>2. QED
        BY <2>1, EncodedIsTagged, BehindTypes
<1>2. /\ field.num \in Nat /\ field.num # 0 /\ field.wire \in {0, 1, 2, 5}
      /\ field.value \in Nat /\ field.bytes \in Seq(Byte)
      /\ Len(field.bytes) < TwoTo[VARINT_BITS] /\ Len(field.bytes) \in Nat
    BY WireTypes DEF Writable
<1>3. ~Malformed.ok
    BY DEF Malformed
<1>4. CASE Cut(b, pos, tag)
    <2>1. ReadVarint(b, pos) = Malformed
        BY <1>1, <1>4, ReadVarintCut
    <2>2. QED
        BY <1>3, <2>1 DEF Field
<1> HIDE DEF tag, body
<1>5. CASE At(b, pos, tag) /\ Cut(b, from, body)
    <2>1. from \in 1 .. Len(b) + 1 /\ Field(b, pos) = FieldOf(b, field.num, field.wire, from)
        BY <1>5, FieldBehindTag DEF tag
    <2>2. from \in Nat \ {0} /\ Len(b) + 1 < from + Len(body)
        BY <1>5, <2>1, SMT DEF Cut
    <2> HIDE DEF from
    <2>3. CASE field.wire = 0
        <3>1. ReadVarint(b, from) = Malformed
            BY <1>2, <1>5, <2>1, <2>3, BehindTypes, ReadVarintCut DEF body
        <3>2. QED
            BY <1>2, <1>3, <2>1, <2>3, <3>1, FieldOfTypes
    <2>4. CASE field.wire = 5
        <3>1. Len(body) = 4
            BY <1>2, <2>4, BehindTypes, FourBytesAreBytes DEF body
        <3>2. Field(b, pos) = Malformed
            BY <1>2, <2>1, <2>2, <2>4, <3>1, FieldOfTypes, TakeHalf
        <3>3. QED
            BY <1>3, <3>2
    <2>5. CASE field.wire = 1
        <3>1. Len(body) = 8
            BY <1>2, <2>5, BehindTypes, EightBytes DEF body
        <3>2. Field(b, pos) = Malformed
            BY <1>2, <2>1, <2>2, <2>5, <3>1, FieldOfTypes, TakeHalf
        <3>3. QED
            BY <1>3, <3>2
    <2>6. CASE field.wire = 2
        <3> DEFINE size  == Varint[Len(field.bytes)]
                   start == from + Len(size)
        <3>1. body = size \o field.bytes /\ size \in Seq(Byte)
            BY <1>2, <2>6, BehindTypes, VarintDef DEF body
        <3>2. CASE Cut(b, from, size)
            <4>1. ReadVarint(b, from) = Malformed
                BY <1>2, <2>1, <3>2, ReadVarintCut
            <4>2. QED
                BY <1>2, <1>3, <2>1, <2>6, <4>1, FieldOfTypes
        <3>3. CASE At(b, from, size) /\ Cut(b, start, field.bytes)
            <4>1. ReadVarint(b, from) = [ok |-> TRUE, value |-> Len(field.bytes), next |-> start]
                BY <1>2, <2>1, <3>3, ReadVarintAt
            <4>2. Field(b, pos) = Take(b, field.num, 2, start, Len(field.bytes))
                BY <1>2, <2>1, <2>6, <4>1, FieldOfTypes
            <4> HIDE DEF size
            <4>3. start \in Nat \ {0} /\ Len(b) + 1 < start + Len(field.bytes)
                <5>1. Len(size) \in Nat
                    BY <3>1
                <5>2. QED
                    BY <2>2, <3>3, <5>1, SMT DEF Cut
            <4>4. Field(b, pos) = Malformed
                BY <1>2, <4>2, <4>3, TakeHalf
            <4>5. QED
                BY <1>3, <4>4
        <3> HIDE DEF size
        <3>4. QED
            BY <1>2, <1>5, <2>2, <3>1, <3>2, <3>3, CutParts
    <2>7. QED
        BY <1>2, <2>3, <2>4, <2>5, <2>6
<1>6. QED
    BY <1>1, <1>4, <1>5, CutParts

-----------------------------------------------------------------------------
(* Messages that lie in their bytes, field after field *)

IsList(message) == \E S : message \in Seq(S)

\* The fields of a message one after the other, end[i] the last byte of the i-th.
LaidOut(message, bytes, end) ==
    /\ end \in [0 .. Len(message) -> Nat]
    /\ end[0] = 0 /\ end[Len(message)] = Len(bytes)
    /\ \A i \in 1 .. Len(message) :
           /\ Writable(message[i])
           /\ end[i] = end[i - 1] + Len(Encoded(message[i]))
           /\ At(bytes, end[i - 1] + 1, Encoded(message[i]))

Holds(message, bytes) ==
    /\ IsList(message) /\ bytes \in Seq(Byte)
    /\ \E end : LaidOut(message, bytes, end)

LEMMA ListLen ==
    ASSUME NEW message, IsList(message)
    PROVE  Len(message) \in Nat /\ DOMAIN message = 1 .. Len(message)
<1>1. PICK S : message \in Seq(S)
    BY DEF IsList
<1>2. QED
    BY <1>1

LEMMA NoFieldsHeld == Holds(<<>>, <<>>)
<1> DEFINE end == [i \in 0 .. 0 |-> 0]
<1>1. Len(<<>>) = 0 /\ <<>> \in Seq({}) /\ <<>> \in Seq(Byte)
    OBVIOUS
<1>2. end \in [0 .. 0 -> Nat] /\ end[0] = 0
    BY SMT
<1>3. 1 .. 0 = {}
    BY SMT
<1>4. LaidOut(<<>>, <<>>, end)
    BY <1>1, <1>2, <1>3 DEF LaidOut
<1> HIDE DEF end
<1>5. QED
    BY <1>1, <1>4 DEF Holds, IsList

LEMMA FieldHeld ==
    ASSUME NEW message, NEW bytes, Holds(message, bytes), NEW field, Writable(field)
    PROVE  Holds(Append(message, field), bytes \o Encoded(field))
<1> DEFINE n    == Len(message)
           more == Append(message, field)
           code == Encoded(field)
           all  == bytes \o code
<1>1. PICK S : message \in Seq(S)
    BY DEF Holds, IsList
<1>2. PICK end : LaidOut(message, bytes, end)
    BY DEF Holds
<1>3. bytes \in Seq(Byte) /\ code \in Seq(Byte) /\ n \in Nat
    BY <1>1, EncodedIsTagged DEF Holds
<1>4. more \in Seq(S \cup {field}) /\ Len(more) = n + 1 /\ more[n + 1] = field
      /\ \A i \in 1 .. n : more[i] = message[i]
    BY <1>1
<1> HIDE DEF code
<1>5. all \in Seq(Byte) /\ Len(all) = Len(bytes) + Len(code) /\ Len(code) \in Nat /\ Len(bytes) \in Nat
      /\ \A i \in 1 .. Len(bytes) + Len(code) :
             all[i] = IF i <= Len(bytes) THEN bytes[i] ELSE code[i - Len(bytes)]
    BY <1>3, ConcatProperties
<1> DEFINE last == [i \in 0 .. n + 1 |-> IF i = n + 1 THEN Len(bytes) + Len(code) ELSE end[i]]
<1>6. /\ end \in [0 .. n -> Nat] /\ end[0] = 0 /\ end[n] = Len(bytes)
      /\ \A i \in 1 .. n :
             /\ Writable(message[i])
             /\ end[i] = end[i - 1] + Len(Encoded(message[i]))
             /\ At(bytes, end[i - 1] + 1, Encoded(message[i]))
    BY <1>2 DEF LaidOut
<1> HIDE DEF n, more, all
<1>7. \A i \in 0 .. n + 1 : i \in 0 .. n \/ i = n + 1
    BY <1>3, SMT
<1>8. last \in [0 .. n + 1 -> Nat]
    <2>1. Len(bytes) + Len(code) \in Nat
        BY <1>5
    <2>2. ASSUME NEW i \in 0 .. n + 1 PROVE last[i] \in Nat
        BY <1>6, <1>7, <2>1
    <2>3. QED
        BY <2>2
<1>9. last[0] = 0 /\ last[n + 1] = Len(all) /\ \A i \in 0 .. n : last[i] = end[i]
    <2>1. 0 \in 0 .. n + 1 /\ n + 1 \in 0 .. n + 1 /\ 0 # n + 1
        BY <1>3, SMT
    <2>2. \A i \in 0 .. n : i \in 0 .. n + 1 /\ i # n + 1
        BY <1>3, SMT
    <2>3. 0 \in 0 .. n
        BY <1>3, SMT
    <2>4. QED
        BY <1>5, <1>6, <2>1, <2>2, <2>3
<1> HIDE DEF last
<1>10. ASSUME NEW i \in 1 .. n + 1
       PROVE  /\ Writable(more[i])
              /\ last[i] = last[i - 1] + Len(Encoded(more[i]))
              /\ At(all, last[i - 1] + 1, Encoded(more[i]))
    <2>1. CASE i = n + 1
        <3>1. i - 1 = n /\ n \in 0 .. n
            BY <1>3, <2>1, SMT
        <3>2. last[i - 1] = Len(bytes) /\ last[i] = Len(all) /\ more[i] = field
            BY <1>4, <1>6, <1>9, <2>1, <3>1
        <3>3. At(all, Len(bytes) + 1, code)
            <4>1. (Len(bytes) + 1) + Len(code) <= Len(all) + 1
                BY <1>5, SMT
            <4>2. ASSUME NEW j \in 1 .. Len(code) PROVE all[(Len(bytes) + 1) + j - 1] = code[j]
                <5> DEFINE k == (Len(bytes) + 1) + j - 1
                <5>1. k \in 1 .. Len(bytes) + Len(code) /\ ~(k <= Len(bytes)) /\ k - Len(bytes) = j
                    BY <1>5, SMT
                <5> HIDE DEF k
                <5>2. all[k] = code[j]
                    BY <1>5, <5>1
                <5>3. QED
                    BY <5>2 DEF k
            <4>3. QED
                BY <4>1, <4>2 DEF At
        <3>4. QED
            BY <1>5, <3>2, <3>3 DEF code
    <2>2. CASE i # n + 1
        <3>1. i \in 1 .. n /\ i - 1 \in 0 .. n /\ i \in 0 .. n
            BY <1>3, <2>2, SMT
        <3> DEFINE p == end[i - 1] + 1
                   s == Encoded(message[i])
        <3>2. last[i - 1] = end[i - 1] /\ last[i] = end[i] /\ more[i] = message[i]
            BY <1>4, <1>9, <3>1
        <3>3. Writable(message[i]) /\ end[i] = end[i - 1] + Len(s) /\ At(bytes, p, s)
            BY <1>6, <3>1
        <3>4. s \in Seq(Byte) /\ Len(s) \in Nat
            BY <3>3, EncodedIsTagged
        <3>5. p \in Nat /\ p >= 1
            BY <1>6, <3>1, SMT
        <3> HIDE DEF p, s
        <3>6. At(all, p, s)
            <4>1. p + Len(s) <= Len(bytes) + 1 /\ \A j \in 1 .. Len(s) : bytes[p + j - 1] = s[j]
                BY <3>3 DEF At
            <4>2. p + Len(s) <= Len(all) + 1
                BY <1>5, <3>4, <3>5, <4>1, SMT
            <4>3. ASSUME NEW j \in 1 .. Len(s) PROVE all[p + j - 1] = s[j]
                <5> DEFINE k == p + j - 1
                <5>1. k \in 1 .. Len(bytes) + Len(code) /\ k <= Len(bytes)
                    BY <1>5, <3>4, <3>5, <4>1, SMT
                <5>2. bytes[k] = s[j]
                    BY <4>1
                <5> HIDE DEF k
                <5>3. all[k] = s[j]
                    BY <1>5, <5>1, <5>2
                <5>4. QED
                    BY <5>3 DEF k
            <4>4. QED
                BY <4>2, <4>3 DEF At
        <3>7. QED
            BY <3>2, <3>3, <3>6 DEF p, s
    <2>3. QED
        BY <2>1, <2>2
<1>11. LaidOut(more, all, last)
    BY <1>4, <1>8, <1>9, <1>10 DEF LaidOut
<1>12. Holds(more, all)
    BY <1>4, <1>5, <1>11 DEF Holds, IsList
<1>13. QED
    BY <1>12 DEF more, all, code

\* A message of one field.
LEMMA OneFieldHeld ==
    ASSUME NEW field, Writable(field)
    PROVE  Holds(<<field>>, Encoded(field))
<1>1. Holds(Append(<<>>, field), <<>> \o Encoded(field))
    BY NoFieldsHeld, FieldHeld
<1>2. Append(<<>>, field) = <<field>>
    OBVIOUS
<1>3. <<>> \o Encoded(field) = Encoded(field)
    BY EncodedIsTagged, ConcatEmptySeq
<1>4. QED
    BY <1>1, <1>2, <1>3

\* A walk finds the fields of the message, each as it was written.
WalksAs(walk, message, b) ==
    /\ walk.ok
    /\ Len(walk.fields) = Len(message) /\ DOMAIN walk.fields = 1 .. Len(message)
    /\ \A i \in 1 .. Len(message) :
           /\ Writable(message[i])
           /\ \E pos \in 1 .. Len(b) : IsRead(walk.fields[i], message[i], b, pos)

LEMMA PlacesOfFields ==
    ASSUME NEW message, IsList(message), NEW b \in Seq(Byte), NEW end, LaidOut(message, b, end),
           NEW i \in 1 .. Len(message)
    PROVE  /\ i - 1 \in 0 .. Len(message) /\ i \in 0 .. Len(message)
           /\ end[i - 1] \in Nat /\ end[i] \in Nat
           /\ end[i - 1] + 1 \in 1 .. Len(b) /\ end[i] \in end[i - 1] + 1 .. Len(b)
           /\ end[i] = end[i - 1] + Len(Encoded(message[i]))
<1> DEFINE k == Len(Encoded(message[i]))
           p == end[i - 1]
           q == end[i]
<1>1. Len(message) \in Nat
    BY ListLen
<1>2. i - 1 \in 0 .. Len(message) /\ i \in 0 .. Len(message)
    BY <1>1, SMT
<1>3. /\ p \in Nat /\ q \in Nat /\ q = p + k
      /\ Writable(message[i]) /\ (p + 1) + k <= Len(b) + 1
    BY <1>2 DEF LaidOut, At
<1>4. k \in Nat /\ k >= 1 /\ Len(b) \in Nat
    BY <1>3, EncodedIsTagged
<1>5. q = p + k
    BY <1>3
<1> HIDE DEF p, k, q
<1>6. p + 1 \in 1 .. Len(b) /\ q \in p + 1 .. Len(b)
    BY <1>3, <1>4, <1>5, SMT
<1>7. QED
    BY <1>2, <1>3, <1>5, <1>6 DEF p, q, k

LEMMA WalkOfMessage ==
    ASSUME NEW message, NEW b, Holds(message, b)
    PROVE  WalksAs(Walk(b), message, b)
<1> DEFINE n == Len(message)
           N == Len(b) + 1
<1>1. b \in Seq(Byte) /\ IsList(message) /\ n \in Nat /\ N \in Nat
    BY ListLen, SMT DEF Holds
<1>2. PICK end : LaidOut(message, b, end)
    BY DEF Holds
<1>3. PICK rest \in [1 .. Len(b) + 1 -> Walks(b)] :
          /\ Walk(b) = rest[1]
          /\ rest[Len(b) + 1] = [ok |-> TRUE, fields |-> <<>>]
          /\ \A pos \in 1 .. Len(b) :
                 IF Field(b, pos).ok
                 THEN /\ Field(b, pos).next \in pos + 1 .. Len(b) + 1
                      /\ rest[pos].ok = rest[Field(b, pos).next].ok
                      /\ rest[pos].fields = <<Field(b, pos)>> \o rest[Field(b, pos).next].fields
                 ELSE rest[pos] = [ok |-> FALSE, fields |-> <<>>]
    BY <1>1, WalkUnfolds
<1>4. ASSUME NEW i \in 1 .. n
      PROVE  /\ i - 1 \in 0 .. n /\ i \in 0 .. n /\ end[i - 1] + 1 \in 1 .. Len(b)
             /\ Writable(message[i])
             /\ IsRead(Field(b, end[i - 1] + 1), message[i], b, end[i - 1] + 1)
             /\ Field(b, end[i - 1] + 1).next = end[i] + 1
    <2> DEFINE pos == end[i - 1] + 1
               k   == Len(Encoded(message[i]))
    <2>1. /\ i - 1 \in 0 .. n /\ i \in 0 .. n /\ end[i - 1] \in Nat /\ end[i] = end[i - 1] + k
          /\ pos \in 1 .. Len(b)
        BY <1>1, <1>2, PlacesOfFields
    <2>2. Writable(message[i]) /\ At(b, pos, Encoded(message[i]))
        BY <1>2 DEF LaidOut
    <2>3. IsRead(Field(b, pos), message[i], b, pos)
        BY <1>1, <2>1, <2>2, FieldAt
    <2>4. Field(b, pos).next = pos + k
        BY <2>3 DEF IsRead
    <2>5. k \in Nat
        BY <2>2, EncodedIsTagged
    <2>6. pos + k = end[i] + 1
        BY <2>1, <2>5, SMT
    <2>7. QED
        BY <2>1, <2>2, <2>3, <2>4, <2>6
\* from the last field back
<1> DEFINE Found(j) == rest[end[n - j] + 1]
           P(j) == /\ Found(j).ok = TRUE
                   /\ Found(j).fields \in Seq(FieldsIn(b)) /\ Len(Found(j).fields) = j
                   /\ \A i \in 1 .. j : Found(j).fields[i] = Field(b, end[n - j + i - 1] + 1)
           S == {j \in Nat : j <= n => P(j)}
<1>5. 0 \in S
    <2>1. end[n] + 1 = Len(b) + 1
        BY <1>2 DEF LaidOut
    <2>2. n - 0 = n
        BY <1>1, SMT
    <2>3. Found(0) = [ok |-> TRUE, fields |-> <<>>]
        BY <1>3, <2>1, <2>2
    <2>4. 1 .. 0 = {} /\ <<>> \in Seq(FieldsIn(b)) /\ Len(<<>>) = 0
        BY SMT
    <2>5. P(0)
        BY <2>3, <2>4
    <2>6. QED
        BY <2>5
<1>6. ASSUME NEW j \in Nat, j \in S PROVE j + 1 \in S
    <2>0. j + 1 \in Nat
        BY SMT
    <2> SUFFICES ASSUME j + 1 <= n PROVE P(j + 1)
        BY <2>0
    <2> DEFINE k == n - j
               pos == end[k - 1] + 1
               field == Field(b, pos)
    <2>1. k \in 1 .. n /\ n - (j + 1) = k - 1 /\ j <= n
        BY <1>1, SMT
    <2>2. P(j)
        BY <1>6, <2>1
    <2>3. pos \in 1 .. Len(b) /\ field.ok /\ field.next = end[k] + 1
        BY <1>4, <2>1 DEF IsRead
    <2>4. /\ rest[pos].ok = rest[end[k] + 1].ok
          /\ rest[pos].fields = <<field>> \o rest[end[k] + 1].fields
          /\ field \in FieldsIn(b)
        BY <1>3, <2>3 DEF FieldsIn
    <2>5. Found(j + 1) = rest[pos]
        BY <2>1
    <2> DEFINE fs == rest[end[k] + 1].fields
    <2>6. rest[end[k] + 1].ok = TRUE /\ fs \in Seq(FieldsIn(b)) /\ Len(fs) = j
          /\ \A i \in 1 .. j : fs[i] = Field(b, end[k + i - 1] + 1)
        BY <2>2
    <2> HIDE DEF fs, field
    <2>7. <<field>> \in Seq(FieldsIn(b)) /\ Len(<<field>>) = 1
        BY <2>4
    <2> DEFINE longer == <<field>> \o fs
    <2>8. /\ longer \in Seq(FieldsIn(b)) /\ Len(longer) = j + 1
          /\ \A i \in 1 .. j + 1 : longer[i] = IF i = 1 THEN field ELSE fs[i - 1]
        BY <2>4, <2>6
    <2> HIDE DEF longer
    <2>9. ASSUME NEW i \in 1 .. j + 1
          PROVE  longer[i] = Field(b, end[n - (j + 1) + i - 1] + 1)
        <3>1. CASE i = 1
            <4>1. n - (j + 1) + i - 1 = k - 1
                BY <1>1, <2>1, <3>1, SMT
            <4>2. QED
                BY <2>8, <3>1, <4>1 DEF field
        <3>2. CASE i # 1
            <4>1. i - 1 \in 1 .. j /\ k + (i - 1) - 1 = n - (j + 1) + i - 1
                BY <1>1, <2>1, <3>2, SMT
            <4>2. longer[i] = fs[i - 1]
                BY <2>8, <3>2
            <4>3. fs[i - 1] = Field(b, end[k + (i - 1) - 1] + 1)
                BY <2>6, <4>1
            <4>4. QED
                BY <4>1, <4>2, <4>3
        <3>3. QED
            BY <3>1, <3>2
    <2>10. Found(j + 1).fields = longer /\ Found(j + 1).ok = TRUE
        BY <2>4, <2>5, <2>6 DEF longer, fs
    <2>11. QED
        BY <2>8, <2>9, <2>10
<1> HIDE DEF S
<1>7. \A j \in Nat : j \in S
    BY <1>5, <1>6, StepInduction
<1>8. P(n)
    BY <1>1, <1>7 DEF S
<1>9. Found(n) = Walk(b)
    <2>1. end[0] + 1 = 1 /\ n - n = 0
        BY <1>1, <1>2, SMT DEF LaidOut
    <2>2. QED
        BY <1>3, <2>1
<1>10. ASSUME NEW i \in 1 .. n
       PROVE  IsRead(Walk(b).fields[i], message[i], b, end[i - 1] + 1)
    <2>1. n - n + i - 1 = i - 1
        BY <1>1, SMT
    <2>2. Walk(b).fields[i] = Field(b, end[i - 1] + 1)
        BY <1>8, <1>9, <2>1
    <2>3. QED
        BY <1>4, <2>2
<1>11. Walk(b).ok /\ Len(Walk(b).fields) = n /\ DOMAIN Walk(b).fields = 1 .. n
    <2>1. Walk(b).fields \in Seq(FieldsIn(b)) /\ Len(Walk(b).fields) = n /\ Walk(b).ok
        BY <1>8, <1>9
    <2>2. QED
        BY <2>1
<1>12. QED
    BY <1>4, <1>10, <1>11 DEF WalksAs

-----------------------------------------------------------------------------
(* The last of several fields *)

LEMMA GreatestOfPlaces ==
    ASSUME NEW n \in Nat, NEW T, T \subseteq 1 .. n, T # {}
    PROVE  Max(T) \in T
<1> DEFINE U == {n - i : i \in T}
<1>1. U \subseteq Nat /\ U # {}
    <2>1. \A i \in 1 .. n : n - i \in Nat
        BY SMT
    <2>2. QED
        BY <2>1
<1>2. PICK u \in U : \A v \in U : u <= v
    BY <1>1, LeastOfNats
<1>3. PICK i \in T : u = n - i
    BY <1>2
<1>4. ASSUME NEW j \in T PROVE i >= j
    <2>1. n - i <= n - j
        BY <1>2, <1>3
    <2>2. i \in 1 .. n /\ j \in 1 .. n
        OBVIOUS
    <2>3. QED
        BY <2>1, <2>2, SMT
<1>5. QED
    BY <1>4 DEF Max

Alike(fs, ms, n) ==
    /\ DOMAIN fs = 1 .. n /\ DOMAIN ms = 1 .. n
    /\ \A i \in 1 .. n : fs[i].num = ms[i].num /\ fs[i].wire = ms[i].wire

LastAlike(fs, ms, n, num, wires) ==
    \/ LastField(fs, num, wires) = {} /\ LastField(ms, num, wires) = {}
    \/ \E i \in 1 .. n :
           /\ ms[i].num = num /\ ms[i].wire \in wires
           /\ LastField(fs, num, wires) = {fs[i]} /\ LastField(ms, num, wires) = {ms[i]}

\* Of two lists alike, the last fields of a kind are in the same place.
LEMMA LastFieldAlike ==
    ASSUME NEW n \in Nat, NEW fs, NEW ms, Alike(fs, ms, n), NEW num, NEW wires
    PROVE  LastAlike(fs, ms, n, num, wires)
<1> DEFINE T == {i \in 1 .. n : ms[i].num = num /\ ms[i].wire \in wires}
<1>1. {i \in DOMAIN fs : fs[i].num = num /\ fs[i].wire \in wires} = T
    BY DEF Alike
<1>2. {i \in DOMAIN ms : ms[i].num = num /\ ms[i].wire \in wires} = T
    BY DEF Alike
<1>3. /\ LastField(fs, num, wires) = IF T = {} THEN {} ELSE {fs[Max(T)]}
      /\ LastField(ms, num, wires) = IF T = {} THEN {} ELSE {ms[Max(T)]}
    BY <1>1, <1>2 DEF LastField
<1>4. T # {} => Max(T) \in T
    BY GreatestOfPlaces
<1>5. QED
    BY <1>3, <1>4 DEF LastAlike

\* What is found is what was meant.
LastRead(found, meant, message, num, wires, b) ==
    \/ found = {} /\ meant = {}
    \/ \E f, m : /\ found = {f} /\ meant = {m} /\ m.num = num /\ m.wire \in wires
                 /\ \E i \in 1 .. Len(message) : m = message[i]
                 /\ Writable(m)
                 /\ \E pos \in 1 .. Len(b) : IsRead(f, m, b, pos)

LEMMA LastFieldRead ==
    ASSUME NEW message, NEW b, Holds(message, b), NEW num, NEW wires
    PROVE  LastRead(LastField(Walk(b).fields, num, wires), LastField(message, num, wires),
                    message, num, wires, b)
<1> DEFINE n == Len(message)
           fs == Walk(b).fields
<1>1. n \in Nat /\ DOMAIN message = 1 .. n
    BY ListLen DEF Holds
<1>2. /\ DOMAIN fs = 1 .. n
      /\ \A i \in 1 .. n : Writable(message[i]) /\ \E pos \in 1 .. Len(b) : IsRead(fs[i], message[i], b, pos)
    BY WalkOfMessage DEF WalksAs
<1> HIDE DEF n, fs
<1>3. Alike(fs, message, n)
    BY <1>1, <1>2 DEF IsRead, Alike
<1>4. LastAlike(fs, message, n, num, wires)
    BY <1>1, <1>3, LastFieldAlike
<1>5. QED
    BY <1>2, <1>4 DEF LastAlike, LastRead, fs, n

-----------------------------------------------------------------------------
(* What is sent lies in the bytes *)

CodecInv ==
    /\ depth \in 0 .. Len(WrapIn)
    /\ Holds(sent, buf)

LEMMA CodecInitially == CodecInit => CodecInv
<1>1. Len(WrapIn) \in Nat
    BY SenderAssumption
<1>2. 0 \in 0 .. Len(WrapIn)
    BY <1>1, SMT
<1>3. QED
    BY <1>2, NoFieldsHeld DEF CodecInit, CodecInv

\* A message of some bytes, wrapped into a field.
Wrapped(num, bytes, message) == [Bytes(num, bytes) EXCEPT !.inner = message]

LEMMA WrappedFields ==
    ASSUME NEW num, NEW bytes, NEW message
    PROVE  /\ Wrapped(num, bytes, message).num = num
           /\ Wrapped(num, bytes, message).wire = 2
           /\ Wrapped(num, bytes, message).value = 0
           /\ Wrapped(num, bytes, message).bytes = bytes
           /\ Wrapped(num, bytes, message).inner = message
BY WireTypes DEF Wrapped, Bytes, Meaning

LEMMA WrappedIsWritable ==
    ASSUME NEW i \in DOMAIN WrapIn, NEW bytes \in Seq(Byte), Sayable(BytesField(WrapIn[i], bytes)), NEW message
    PROVE  /\ Writable(Wrapped(WrapIn[i], bytes, message))
           /\ Encoded(Wrapped(WrapIn[i], bytes, message)) = BytesField(WrapIn[i], bytes)
<1> DEFINE field == Wrapped(WrapIn[i], bytes, message)
           num   == WrapIn[i]
<1>1. /\ field.num = num /\ field.wire = 2 /\ field.value = 0 /\ field.bytes = bytes
    BY WrappedFields
<1>2. num \in Nat \ {0} /\ 8 * num + 7 < TwoTo[WORD_BITS]
    <2>1. Writable(Bytes(num, <<>>))
        BY SenderAssumption
    <2>2. Bytes(num, <<>>).num = num
        BY DEF Bytes, Meaning
    <2>3. QED
        BY <2>1, <2>2 DEF Writable
<1> HIDE DEF field, num
<1>3. Encoded(field) = BytesField(num, bytes)
    BY <1>1, WireTypes DEF Encoded
<1>4. Len(bytes) < TwoTo[VARINT_BITS]
    <2> DEFINE s == Tag(num, WIRE_LEN) \o Varint[Len(bytes)]
    <2>1. 8 * num + WIRE_LEN \in Nat /\ Len(bytes) \in Nat
        BY <1>2, WireTypes, SMT
    <2>2. Tag(num, WIRE_LEN) \in Seq(Byte) /\ Varint[Len(bytes)] \in Seq(Byte)
        BY <2>1, VarintDef DEF Tag
    <2>3. s \in Seq(Byte)
        BY <2>2
    <2>4. BytesField(num, bytes) = s \o bytes
        BY DEF BytesField
    <2> HIDE DEF s
    <2>5. Len(s \o bytes) = Len(s) + Len(bytes) /\ Len(s) \in Nat
        BY <2>3, ConcatProperties
    <2>6. Len(s) + Len(bytes) < TwoTo[VARINT_BITS] /\ TwoTo[VARINT_BITS] \in Nat
        BY <2>4, <2>5, TwoToPositive, BitsAssumption DEF Sayable, num
    <2>7. QED
        BY <2>1, <2>5, <2>6, SMT
<1>5. Writable(field)
    <2>1. 0 \div 65536 < 65536
        BY SMT
    <2>2. QED
        BY <1>1, <1>2, <1>4, <2>1, WireTypes DEF Writable
<1>6. QED
    BY <1>3, <1>5 DEF field, num

LEMMA CodecStep == CodecInv /\ [CodecNext]_codecVars => CodecInv'
<1> SUFFICES ASSUME CodecInv, [CodecNext]_codecVars PROVE CodecInv'
    OBVIOUS
<1>1. /\ depth \in 0 .. Len(WrapIn) /\ Holds(sent, buf) /\ buf \in Seq(Byte)
      /\ WrapIn \in Seq(Nat) /\ Len(WrapIn) \in Nat /\ DOMAIN WrapIn = 1 .. Len(WrapIn)
      /\ DOMAIN Offered = 1 .. Len(WrapIn) + 1
    BY SenderAssumption DEF CodecInv, Holds
<1>2. ASSUME NEW field \in Offered[depth + 1], AddField(field) PROVE CodecInv'
    <2>1. depth + 1 \in DOMAIN Offered
        BY <1>1, SMT
    <2>2. Writable(field)
        BY <2>1, SenderAssumption
    <2>3. Holds(Append(sent, field), buf \o Encoded(field))
        BY <1>1, <2>2, FieldHeld
    <2>4. sent' = Append(sent, field) /\ buf' = buf \o Encoded(field) /\ depth' = depth
        BY <1>2 DEF AddField
    <2>5. QED
        BY <1>1, <2>3, <2>4 DEF CodecInv
<1>3. CASE Wrap
    <2> DEFINE i == depth + 1
    <2>1. /\ depth < Len(WrapIn) /\ depth' = i /\ Sayable(BytesField(WrapIn[i], buf))
          /\ sent' = <<Wrapped(WrapIn[i], buf, sent)>> /\ buf' = BytesField(WrapIn[i], buf)
        BY <1>3 DEF Wrap, Wrapped
    <2>2. i \in DOMAIN WrapIn /\ i \in 0 .. Len(WrapIn)
        BY <1>1, <2>1, SMT
    <2> HIDE DEF i
    <2> DEFINE field == Wrapped(WrapIn[i], buf, sent)
    <2>3. Writable(field) /\ Encoded(field) = BytesField(WrapIn[i], buf)
        BY <1>1, <2>1, <2>2, WrappedIsWritable
    <2>4. Holds(<<field>>, Encoded(field))
        BY <2>3, OneFieldHeld
    <2>5. QED
        BY <2>1, <2>2, <2>3, <2>4 DEF CodecInv
<1>4. CASE UNCHANGED codecVars
    BY <1>1, <1>4 DEF codecVars, CodecInv
<1>5. QED
    BY <1>2, <1>3, <1>4 DEF CodecNext

LEMMA CodecAlways == CodecSpec => []CodecInv
BY CodecInitially, CodecStep, PTL DEF CodecSpec

-----------------------------------------------------------------------------
(* Decoding *)

\* The bytes of a field read are those written.
LEMMA OneOf == ASSUME NEW x PROVE (CHOOSE v \in {x} : TRUE) = x
OBVIOUS

LEMMA DecodedWhole ==
    ASSUME NEW message, NEW b, Holds(message, b)
    PROVE  LET data == MeshDataParse(b)
               Word32(values) == {Word(v) : v \in values}
           IN  /\ data.ok
               /\ data.portnum = OrElse(Word32(Meant(message, 1, {WIRE_VARINT})), 0)
               /\ data.payload = OrElse({f.bytes : f \in LastField(message, 2, {WIRE_LEN})}, <<>>)
<1> DEFINE walk  == Walk(b)
           port  == LastField(walk.fields, 1, {WIRE_VARINT})
           mport == LastField(message, 1, {WIRE_VARINT})
           load  == LastField(walk.fields, 2, {WIRE_LEN})
           mload == LastField(message, 2, {WIRE_LEN})
<1>1. walk.ok
    BY WalkOfMessage DEF WalksAs
<1>2. \/ port = {} /\ mport = {}
      \/ \E f, m : port = {f} /\ mport = {m} /\ f.value = m.value
    <2>1. \/ port = {} /\ mport = {}
          \/ \E f, m : /\ port = {f} /\ mport = {m} /\ m.wire \in {WIRE_VARINT}
                       /\ \E pos \in 1 .. Len(b) : IsRead(f, m, b, pos)
        <3>1. LastRead(port, mport, message, 1, {WIRE_VARINT}, b)
            BY LastFieldRead
        <3>2. QED
            BY <3>1 DEF LastRead
    <2>2. QED
        BY <2>1, WireTypes DEF IsRead
<1>3. \/ load = {} /\ mload = {}
      \/ \E f, m : load = {f} /\ mload = {m} /\ Content(b, f) = m.bytes
    <2>1. \/ load = {} /\ mload = {}
          \/ \E f, m : /\ load = {f} /\ mload = {m} /\ m.wire \in {WIRE_LEN}
                       /\ \E pos \in 1 .. Len(b) : IsRead(f, m, b, pos)
        <3>1. LastRead(load, mload, message, 2, {WIRE_LEN}, b)
            BY LastFieldRead
        <3>2. QED
            BY <3>1 DEF LastRead
    <2>2. QED
        BY <2>1, WireTypes DEF IsRead
<1> DEFINE data == MeshDataParse(b)
<1>4. data = [ok      |-> walk.ok,
              portnum |-> IF port = {} THEN 0 ELSE Word((CHOOSE f \in port : TRUE).value),
              payload |-> IF load = {} THEN <<>> ELSE Content(b, CHOOSE f \in load : TRUE)]
    BY DEF MeshDataParse, DataIn
<1> HIDE DEF data, port, load, mport, mload
<1>5. data.portnum = OrElse({Word(v) : v \in {f.value : f \in mport}}, 0)
    <2>1. CASE port = {} /\ mport = {}
        BY <1>4, <2>1 DEF OrElse
    <2>2. ASSUME NEW f, NEW m, port = {f}, mport = {m}, f.value = m.value
          PROVE  data.portnum = OrElse({Word(v) : v \in {g.value : g \in mport}}, 0)
        <3>1. {Word(v) : v \in {g.value : g \in mport}} = {Word(m.value)}
            BY <2>2
        <3>2. OrElse({Word(m.value)}, 0) = Word(m.value)
            BY OneOf DEF OrElse
        <3>3. data.portnum = Word((CHOOSE g \in {f} : TRUE).value)
            BY <1>4, <2>2
        <3>4. (CHOOSE g \in {f} : TRUE) = f
            BY OneOf
        <3>5. QED
            BY <2>2, <3>1, <3>2, <3>3, <3>4
    <2>3. QED
        BY <1>2, <2>1, <2>2
<1>6. data.payload = OrElse({f.bytes : f \in mload}, <<>>)
    <2>1. CASE load = {} /\ mload = {}
        BY <1>4, <2>1 DEF OrElse
    <2>2. ASSUME NEW f, NEW m, load = {f}, mload = {m}, Content(b, f) = m.bytes
          PROVE  data.payload = OrElse({g.bytes : g \in mload}, <<>>)
        <3>1. {g.bytes : g \in mload} = {m.bytes}
            BY <2>2
        <3>2. OrElse({m.bytes}, <<>>) = m.bytes
            BY OneOf DEF OrElse
        <3>3. data.payload = Content(b, CHOOSE g \in {f} : TRUE)
            BY <1>4, <2>2
        <3>4. (CHOOSE g \in {f} : TRUE) = f
            BY OneOf
        <3>5. QED
            BY <2>2, <3>1, <3>2, <3>3, <3>4
    <2>3. QED
        BY <1>3, <2>1, <2>2
<1>7. data.ok
    BY <1>1, <1>4
<1>8. QED
    BY <1>5, <1>6, <1>7 DEF data, mport, mload, Meant

\* A varint of the last field of a kind.
LEMMA LastVarintRead ==
    ASSUME NEW message, NEW b, Holds(message, b), NEW num
    PROVE  {f.value : f \in LastField(Walk(b).fields, num, {WIRE_VARINT})}
               = Meant(message, num, {WIRE_VARINT})
<1> DEFINE found == LastField(Walk(b).fields, num, {WIRE_VARINT})
           meant == LastField(message, num, {WIRE_VARINT})
<1>1. \/ found = {} /\ meant = {}
      \/ \E f, m : /\ found = {f} /\ meant = {m} /\ m.wire \in {WIRE_VARINT}
                   /\ \E pos \in 1 .. Len(b) : IsRead(f, m, b, pos)
    <2>1. LastRead(found, meant, message, num, {WIRE_VARINT}, b)
        BY LastFieldRead
    <2>2. QED
        BY <2>1 DEF LastRead
<1>2. \/ found = {} /\ meant = {}
      \/ \E f, m : found = {f} /\ meant = {m} /\ f.value = m.value
    BY <1>1, WireTypes DEF IsRead
<1> HIDE DEF found, meant
<1>3. {f.value : f \in found} = {f.value : f \in meant}
    BY <1>2
<1>4. QED
    BY <1>3 DEF found, meant, Meant

(* What a sender meant for a decoder is what it finds, whatever else the   *)
(* message holds, in whatever order and however often (mesh_data.c:37,     *)
(* mesh_user.c:47, phone_encode.c:367).                                    *)
THEOREM AlwaysDecodedAsSent == CodecSpec => []DecodedAsSent
<1>1. ASSUME CodecInv PROVE DecodedAsSent
    <2> DEFINE Word32(values) == {Word(v) : v \in values}
               walk == Walk(buf)
               data == MeshDataParse(buf)
               user == MeshUserParse(buf)
    <2>1. Holds(sent, buf)
        BY <1>1 DEF CodecInv
    <2>2. /\ data.ok
          /\ data.portnum = OrElse(Word32(Meant(sent, 1, {WIRE_VARINT})), 0)
          /\ data.payload = OrElse({f.bytes : f \in LastField(sent, 2, {WIRE_LEN})}, <<>>)
        BY <2>1, DecodedWhole
    <2>3. walk.ok
        BY <2>1, WalkOfMessage DEF WalksAs
    <2> DEFINE hw == LastField(walk.fields, 5, {WIRE_VARINT})
    <2>4. user.ok = walk.ok /\ user.hw_model = IF hw = {} THEN 0 ELSE Word((CHOOSE f \in hw : TRUE).value)
        BY DEF MeshUserParse, UserIn
    <2>5. {f.value : f \in hw} = Meant(sent, 5, {WIRE_VARINT})
        BY <2>1, LastVarintRead
    <2>6. \/ hw = {}
          \/ \E f : hw = {f}
        BY DEF LastField
    <2> HIDE DEF hw, user
    <2>7. user.hw_model = OrElse(Word32({f.value : f \in hw}), 0)
        <3>1. CASE hw = {}
            BY <2>4, <3>1 DEF OrElse
        <3>2. ASSUME NEW f, hw = {f} PROVE user.hw_model = OrElse(Word32({g.value : g \in hw}), 0)
            <4>1. Word32({g.value : g \in hw}) = {Word(f.value)}
                BY <3>2
            <4>2. OrElse({Word(f.value)}, 0) = Word(f.value)
                BY OneOf DEF OrElse
            <4>3. (CHOOSE g \in hw : TRUE) = f
                BY <3>2, OneOf
            <4>4. QED
                BY <2>4, <3>2, <4>1, <4>2, <4>3
        <3>3. QED
            BY <2>6, <3>1, <3>2
    <2>8. WantConfigId(buf) = Word32(Meant(sent, 3, {WIRE_VARINT}))
        <3> DEFINE id == LastField(walk.fields, 3, {WIRE_VARINT})
        <3>1. WantConfigId(buf) = {Word(f.value) : f \in id}
            BY <2>3 DEF WantConfigId
        <3>2. {f.value : f \in id} = Meant(sent, 3, {WIRE_VARINT})
            BY <2>1, LastVarintRead
        <3> HIDE DEF id
        <3>3. {Word(f.value) : f \in id} = Word32({f.value : f \in id})
            OBVIOUS
        <3>4. QED
            BY <3>1, <3>2, <3>3
    <2>9. QED
        BY <2>2, <2>3, <2>4, <2>5, <2>7, <2>8 DEF DecodedAsSent, user
<1>2. QED
    BY <1>1, CodecAlways, PTL

-----------------------------------------------------------------------------
(* Names *)

LEMMA SmallerOfTwo ==
    ASSUME NEW a \in Nat, NEW c \in Nat
    PROVE  Min({a, c}) \in Nat /\ Min({a, c}) <= a /\ Min({a, c}) <= c
<1>1. CASE a <= c
    <2>1. a \in {a, c} /\ \A y \in {a, c} : a <= y
        BY <1>1
    <2>2. Min({a, c}) \in {a, c} /\ \A y \in {a, c} : Min({a, c}) <= y
        BY <2>1, Zenon DEF Min
    <2>3. QED
        BY <2>2
<1>2. CASE ~(a <= c)
    <2>1. c \in {a, c} /\ \A y \in {a, c} : c <= y
        BY <1>2
    <2>2. Min({a, c}) \in {a, c} /\ \A y \in {a, c} : Min({a, c}) <= y
        BY <2>1, Zenon DEF Min
    <2>3. QED
        BY <2>2
<1>3. QED
    BY <1>1, <1>2

FitsItsArray(name, cap) == Len(name) < cap /\ \A i \in DOMAIN name : name[i] \in 32 .. 126

LEMMA NoNameFits == ASSUME NEW cap \in Nat \ {0} PROVE FitsItsArray(<<>>, cap)
BY DEF FitsItsArray

LEMMA CopiedNameFits ==
    ASSUME NEW cap \in Nat \ {0}, NEW name \in Seq(Byte)
    PROVE  FitsItsArray(CopyName(cap, name), cap)
<1> DEFINE n == Min({Len(name), cap - 1})
<1>1. n \in Nat /\ n <= Len(name) /\ n < cap
    <2>1. Len(name) \in Nat /\ cap - 1 \in Nat
        OBVIOUS
    <2>2. n \in Nat /\ n <= Len(name) /\ n <= cap - 1
        BY <2>1, SmallerOfTwo
    <2> HIDE DEF n
    <2>3. QED
        BY <2>2, SMT
<1>2. CopyName(cap, name) = [i \in 1 .. n |-> Printable(name[i])]
    BY DEF CopyName
<1> HIDE DEF n
<1>3. \A i \in 1 .. n : Printable(name[i]) \in 32 .. 126
    BY DEF Printable
<1>4. CopyName(cap, name) \in Seq(32 .. 126) /\ Len(CopyName(cap, name)) = n
      /\ DOMAIN CopyName(cap, name) = 1 .. n
    BY <1>1, <1>2, <1>3
<1>5. QED
    BY <1>1, <1>2, <1>3, <1>4 DEF FitsItsArray

\* What a decoder takes out of a field it came to is bytes of its buffer.
LEMMA ContentIsBytes ==
    ASSUME NEW b \in Seq(Byte), NEW field \in FieldsIn(b)
    PROVE  Content(b, field) \in Seq(Byte)
<1>1. field.from \in 2 .. Len(b) + 1 /\ field.next \in field.from .. Len(b) + 1
    BY WalkStaysInside
<1> DEFINE from == field.from
           last == field.next - 1
<1>2. from \in Nat /\ last \in Nat /\ from >= 1 /\ last <= Len(b)
    BY <1>1, SMT
<1> HIDE DEF from, last
<1>3. \A i \in from .. last : b[i] \in Byte
    BY <1>2, SMT
<1>4. SubSeq(b, from, last) \in Seq(Byte)
    BY <1>2, SMT
<1>5. QED
    BY <1>4 DEF Content, from, last

LEMMA LastFieldIn ==
    ASSUME NEW S, NEW fields \in Seq(S), NEW num, NEW wires
    PROVE  LastField(fields, num, wires) \subseteq S
<1> DEFINE T == {i \in DOMAIN fields : fields[i].num = num /\ fields[i].wire \in wires}
<1>1. LastField(fields, num, wires) = IF T = {} THEN {} ELSE {fields[Max(T)]}
    BY DEF LastField
<1>2. Len(fields) \in Nat /\ T \subseteq 1 .. Len(fields) /\ \A i \in 1 .. Len(fields) : fields[i] \in S
    OBVIOUS
<1> HIDE DEF T
<1>3. ASSUME T # {} PROVE fields[Max(T)] \in S
    BY <1>2, <1>3, GreatestOfPlaces
<1>4. QED
    BY <1>1, <1>3

LEMMA FieldNameFits ==
    ASSUME NEW b \in Seq(Byte), NEW num, NEW cap \in Nat \ {0}
    PROVE  LET name == LastField(Walk(b).fields, num, {WIRE_LEN})
           IN  FitsItsArray(IF name = {} THEN <<>> ELSE CopyName(cap, Content(b, CHOOSE f \in name : TRUE)), cap)
<1> DEFINE name == LastField(Walk(b).fields, num, {WIRE_LEN})
<1>1. name \subseteq FieldsIn(b)
    BY WalkStaysInside, LastFieldIn
<1> HIDE DEF name
<1>2. CASE name = {}
    BY <1>2, NoNameFits DEF name
<1>3. CASE name # {}
    <2> DEFINE f == CHOOSE g \in name : TRUE
    <2>1. f \in name
        BY <1>3
    <2> HIDE DEF f
    <2>2. Content(b, f) \in Seq(Byte)
        BY <1>1, <2>1, ContentIsBytes
    <2>3. FitsItsArray(CopyName(cap, Content(b, f)), cap)
        BY <2>2, CopiedNameFits
    <2>4. QED
        BY <1>3, <2>3 DEF f, name
<1>4. QED
    BY <1>2, <1>3

LEMMA UserFits ==
    ASSUME NEW b \in Seq(Byte)
    PROVE  /\ FitsItsArray(MeshUserParse(b).id, MESH_USER_ID_MAX)
           /\ FitsItsArray(MeshUserParse(b).long_name, MESH_USER_LONG_NAME_MAX)
           /\ FitsItsArray(MeshUserParse(b).short_name, MESH_USER_SHORT_NAME_MAX)
<1> DEFINE Name(num, cap) ==
               LET name == LastField(Walk(b).fields, num, {WIRE_LEN})
               IN  IF name = {} THEN <<>> ELSE CopyName(cap, Content(b, CHOOSE f \in name : TRUE))
<1>1. /\ MeshUserParse(b).id = Name(1, MESH_USER_ID_MAX)
      /\ MeshUserParse(b).long_name = Name(2, MESH_USER_LONG_NAME_MAX)
      /\ MeshUserParse(b).short_name = Name(3, MESH_USER_SHORT_NAME_MAX)
    BY DEF MeshUserParse, UserIn
<1>2. \A num, cap : cap \in Nat \ {0} => FitsItsArray(Name(num, cap), cap)
    BY FieldNameFits
<1> HIDE DEF Name
<1>3. QED
    BY <1>1, <1>2, NamesAssumption

LEMMA PrefixIsBytes ==
    ASSUME NEW b \in Seq(Byte), NEW n \in 0 .. Len(b)
    PROVE  /\ SubSeq(b, 1, n) \in Seq(Byte) /\ Len(SubSeq(b, 1, n)) = n
           /\ \A i \in 1 .. n : SubSeq(b, 1, n)[i] = b[i]
<1>1. \A i \in 1 .. n : i \in 1 .. Len(b) /\ b[i] \in Byte
    BY SMT
<1>2. QED
    BY <1>1, SMT

(* Whatever a node calls itself, and wherever the message is cut, a name   *)
(* has room in its array for the terminator and can be drawn               *)
(* (mesh_user.c:35).                                                       *)
THEOREM UserNamesAlwaysSafe == CodecSpec => []UserNamesSafe
<1>1. ASSUME CodecInv PROVE UserNamesSafe
    <2>1. buf \in Seq(Byte)
        BY <1>1 DEF CodecInv, Holds
    <2> SUFFICES ASSUME NEW n \in 0 .. Len(buf)
                 PROVE  /\ FitsItsArray(MeshUserParse(SubSeq(buf, 1, n)).id, MESH_USER_ID_MAX)
                        /\ FitsItsArray(MeshUserParse(SubSeq(buf, 1, n)).long_name, MESH_USER_LONG_NAME_MAX)
                        /\ FitsItsArray(MeshUserParse(SubSeq(buf, 1, n)).short_name, MESH_USER_SHORT_NAME_MAX)
        BY DEF UserNamesSafe, FitsItsArray
    <2>2. QED
        BY <2>1, PrefixIsBytes, UserFits
<1>2. QED
    BY <1>1, CodecAlways, PTL

-----------------------------------------------------------------------------
(* Cut short *)

\* Where the fields of a message end, as CutsAreTold reckons it.
Reckoned(end, message) ==
    [k \in 0 .. Len(message) |-> IF k = 0 THEN 0 ELSE end[k - 1] + Len(Encoded(message[k]))]

Ends(message) == CHOOSE end : end = Reckoned(end, message)

LEMMA EndsAreLaidOut ==
    ASSUME NEW message, NEW b, Holds(message, b)
    PROVE  LaidOut(message, b, Ends(message))
<1> DEFINE m == Len(message)
           e == Ends(message)
<1>1. b \in Seq(Byte) /\ IsList(message) /\ m \in Nat
    BY ListLen DEF Holds
<1>2. PICK end : LaidOut(message, b, end)
    BY DEF Holds
<1>3. /\ end \in [0 .. m -> Nat] /\ end[0] = 0
      /\ \A i \in 1 .. m : end[i] = end[i - 1] + Len(Encoded(message[i]))
    BY <1>2 DEF LaidOut
<1>4. \A k \in 0 .. m : k # 0 => k \in 1 .. m
    BY <1>1, SMT
<1>5. end = Reckoned(end, message)
    <2>1. \A k \in 0 .. m : end[k] = IF k = 0 THEN 0 ELSE end[k - 1] + Len(Encoded(message[k]))
        BY <1>3, <1>4
    <2>2. end = [k \in 0 .. m |-> end[k]]
        BY <1>3
    <2>3. QED
        BY <2>1, <2>2 DEF Reckoned
<1>6. e = Reckoned(e, message)
    BY <1>5, Zenon DEF Ends
<1> HIDE DEF e, m
<1>7. \A k \in 0 .. m : e[k] = IF k = 0 THEN 0 ELSE e[k - 1] + Len(Encoded(message[k]))
    BY <1>6, Zenon DEF Reckoned, m
<1> DEFINE S == {k \in Nat : k <= m => e[k] = end[k]}
<1>8. 0 \in S
    <2>1. 0 \in 0 .. m
        BY <1>1, SMT
    <2>2. QED
        BY <1>3, <1>7, <2>1
<1>9. ASSUME NEW k \in Nat, k \in S PROVE k + 1 \in S
    <2>1. k + 1 \in Nat
        BY SMT
    <2> SUFFICES ASSUME k + 1 <= m PROVE e[k + 1] = end[k + 1]
        BY <2>1
    <2>2. k + 1 \in 0 .. m /\ k + 1 \in 1 .. m /\ k + 1 # 0 /\ (k + 1) - 1 = k /\ k <= m
        BY <1>1, SMT
    <2>3. e[k] = end[k]
        BY <1>9, <2>2
    <2>4. QED
        BY <1>3, <1>7, <2>2, <2>3
<1> HIDE DEF S
<1>10. \A k \in Nat : k \in S
    BY <1>8, <1>9, StepInduction
<1>11. \A k \in 0 .. m : e[k] = end[k]
    <2>1. \A k \in 0 .. m : k \in Nat /\ k <= m
        BY <1>1, SMT
    <2>2. QED
        BY <1>10, <2>1 DEF S
<1>12. e = end
    <2>1. e = [k \in 0 .. m |-> e[k]]
        BY <1>6, Zenon DEF Reckoned, m
    <2>2. end = [k \in 0 .. m |-> end[k]]
        BY <1>3
    <2>3. [k \in 0 .. m |-> e[k]] = [k \in 0 .. m |-> end[k]]
        BY <1>11
    <2>4. QED
        BY <2>1, <2>2, <2>3
<1>13. QED
    BY <1>2, <1>12 DEF e

\* A field of the whole message, in what a cut has left of it.
LEMMA FieldLeft ==
    ASSUME NEW message, NEW b, Holds(message, b), NEW end, LaidOut(message, b, end),
           NEW i \in 1 .. Len(message), NEW n \in 0 .. Len(b), end[i - 1] < n
    PROVE  LET c   == SubSeq(b, 1, n)
               pos == end[i - 1] + 1
           IN  /\ pos \in 1 .. Len(c)
               /\ end[i] <= n => Field(c, pos).ok /\ Field(c, pos).next = end[i] + 1
               /\ n < end[i]  => ~Field(c, pos).ok
<1> DEFINE c   == SubSeq(b, 1, n)
           pos == end[i - 1] + 1
           enc == Encoded(message[i])
           k   == Len(enc)
<1>1. b \in Seq(Byte) /\ IsList(message)
    BY DEF Holds
<1>2. c \in Seq(Byte) /\ Len(c) = n /\ \A j \in 1 .. n : c[j] = b[j]
    BY <1>1, PrefixIsBytes
<1>3. /\ end[i - 1] \in Nat /\ end[i] \in Nat /\ end[i] = end[i - 1] + k /\ end[i] <= Len(b)
    <2>1. /\ end[i - 1] \in Nat /\ end[i] \in Nat /\ end[i] \in end[i - 1] + 1 .. Len(b)
          /\ end[i] = end[i - 1] + k
        BY <1>1, PlacesOfFields
    <2>2. QED
        BY <1>1, <2>1, SMT
<1>4. Writable(message[i]) /\ At(b, pos, enc)
    BY DEF LaidOut
<1>5. k \in Nat
    BY <1>4, EncodedIsTagged
<1>6. \A j \in 1 .. k : b[pos + j - 1] = enc[j]
    BY <1>4 DEF At
<1> HIDE DEF c, enc, k
<1>7. pos \in 1 .. Len(c) /\ pos \in Nat /\ pos + k = end[i] + 1 /\ n \in Nat
    BY <1>2, <1>3, <1>5, SMT
<1> HIDE DEF pos
<1>8. ASSUME end[i] <= n
      PROVE  Field(c, pos).ok /\ Field(c, pos).next = end[i] + 1
    <2> DEFINE e == end[i]
    <2>0. e \in Nat /\ e <= n /\ pos + k = e + 1
        BY <1>3, <1>7, <1>8
    <2> HIDE DEF e
    <2>a. pos + k <= Len(c) + 1
        BY <1>2, <1>5, <1>7, <2>0, SMT
    <2>b. \A j \in 1 .. k : pos + j - 1 \in 1 .. n
        BY <1>5, <1>7, <2>0, SMT
    <2>1. pos + k <= Len(c) + 1 /\ \A j \in 1 .. k : pos + j - 1 \in 1 .. n
        BY <2>a, <2>b
    <2>2. At(c, pos, enc)
        BY <1>2, <1>6, <2>1 DEF At, k
    <2>3. IsRead(Field(c, pos), message[i], c, pos)
        BY <1>2, <1>4, <1>7, <2>2, FieldAt DEF enc
    <2>4. QED
        BY <1>7, <2>3 DEF IsRead, enc, k
<1>9. ASSUME n < end[i]
      PROVE  ~Field(c, pos).ok
    <2>1. /\ pos <= Len(c) + 1 /\ Len(c) + 1 < pos + k
          /\ \A j \in 1 .. Len(c) + 1 - pos : pos + j - 1 \in 1 .. n /\ j \in 1 .. k
        BY <1>2, <1>3, <1>5, <1>7, <1>9, SMT
    <2>2. Cut(c, pos, enc)
        BY <1>2, <1>6, <2>1 DEF Cut, k
    <2>3. QED
        BY <1>2, <1>4, <1>7, <2>2, FieldCut DEF enc
<1>10. QED
    BY <1>7, <1>8, <1>9 DEF c, pos

LEMMA WalkOfCut ==
    ASSUME NEW message, NEW b, Holds(message, b), NEW end, LaidOut(message, b, end), NEW n \in 0 .. Len(b)
    PROVE  Walk(SubSeq(b, 1, n)).ok <=> \E k \in 0 .. Len(message) : n = end[k]
<1> DEFINE m == Len(message)
           c == SubSeq(b, 1, n)
<1>1. b \in Seq(Byte) /\ IsList(message) /\ m \in Nat /\ Len(b) \in Nat /\ n \in Nat /\ n <= Len(b)
    <2>1. b \in Seq(Byte) /\ IsList(message) /\ m \in Nat
        BY ListLen DEF Holds
    <2>2. QED
        BY <2>1, SMT
<1>2. c \in Seq(Byte) /\ Len(c) = n
    BY <1>1, PrefixIsBytes
<1>3. end[0] = 0 /\ end[m] = Len(b) /\ \A k \in 0 .. m : end[k] \in Nat
    BY DEF LaidOut
<1>4. ASSUME NEW i \in 1 .. m, end[i - 1] < n
      PROVE  /\ end[i - 1] + 1 \in 1 .. n
             /\ end[i] <= n => Field(c, end[i - 1] + 1).ok /\ Field(c, end[i - 1] + 1).next = end[i] + 1
             /\ n < end[i]  => ~Field(c, end[i - 1] + 1).ok
    BY <1>2, <1>4, FieldLeft
<1>5. \A i \in 1 .. m : end[i - 1] < end[i]
    <2> SUFFICES ASSUME NEW i \in 1 .. m PROVE end[i - 1] < end[i]
        OBVIOUS
    <2>1. end[i - 1] \in Nat /\ end[i] \in end[i - 1] + 1 .. Len(b)
        BY <1>1, PlacesOfFields
    <2>2. QED
        BY <1>1, <2>1, SMT
<1> HIDE DEF c
<1>6. PICK rest \in [1 .. Len(c) + 1 -> Walks(c)] :
          /\ Walk(c) = rest[1]
          /\ rest[Len(c) + 1] = [ok |-> TRUE, fields |-> <<>>]
          /\ \A pos \in 1 .. Len(c) :
                 IF Field(c, pos).ok
                 THEN /\ Field(c, pos).next \in pos + 1 .. Len(c) + 1
                      /\ rest[pos].ok = rest[Field(c, pos).next].ok
                      /\ rest[pos].fields = <<Field(c, pos)>> \o rest[Field(c, pos).next].fields
                 ELSE rest[pos] = [ok |-> FALSE, fields |-> <<>>]
    BY <1>2, WalkUnfolds
<1>7. ASSUME NEW pos \in 1 .. n
      PROVE  rest[pos].ok = IF Field(c, pos).ok THEN rest[Field(c, pos).next].ok ELSE FALSE
    <2>1. pos \in 1 .. Len(c)
        BY <1>2
    <2>2. CASE Field(c, pos).ok
        BY <1>6, <2>1, <2>2
    <2>3. CASE ~Field(c, pos).ok
        <3>1. rest[pos] = [ok |-> FALSE, fields |-> <<>>]
            BY <1>6, <2>1, <2>3
        <3>2. QED
            BY <2>3, <3>1
    <2>4. QED
        BY <2>2, <2>3
<1> HIDE DEF m
\* the walk comes by the end of every field that is left
<1> DEFINE S == {k \in Nat : k <= m /\ end[k] <= n => rest[1].ok = rest[end[k] + 1].ok}
<1>8. 0 \in S
    BY <1>3
<1>9. ASSUME NEW k \in Nat, k \in S PROVE k + 1 \in S
    <2>1. k + 1 \in Nat
        BY SMT
    <2> SUFFICES ASSUME k + 1 <= m, end[k + 1] <= n PROVE rest[1].ok = rest[end[k + 1] + 1].ok
        BY <2>1
    <2>2. k + 1 \in 1 .. m /\ (k + 1) - 1 = k /\ k <= m /\ k \in 0 .. m /\ k + 1 \in 0 .. m
        BY <1>1, SMT
    <2>3. end[k] < end[k + 1] /\ end[k] \in Nat /\ end[k + 1] \in Nat
        BY <1>3, <1>5, <2>2
    <2>4. end[k] < n
        BY <1>1, <2>3, SMT
    <2>5. rest[1].ok = rest[end[k] + 1].ok
        BY <1>1, <1>9, <2>2, <2>3, <2>4
    <2>6. /\ end[k] + 1 \in 1 .. n
          /\ Field(c, end[k] + 1).ok /\ Field(c, end[k] + 1).next = end[k + 1] + 1
        BY <1>4, <2>2, <2>4
    <2>7. rest[end[k] + 1].ok = rest[end[k + 1] + 1].ok
        BY <1>7, <2>6
    <2>8. QED
        BY <2>5, <2>7
<1> HIDE DEF S
<1>10. \A k \in Nat : k \in S
    BY <1>8, <1>9, StepInduction
<1>11. ASSUME NEW k \in 0 .. m, end[k] <= n PROVE Walk(c).ok = rest[end[k] + 1].ok
    <2>1. k \in Nat /\ k <= m
        BY <1>1, SMT
    <2>2. rest[1].ok = rest[end[k] + 1].ok
        BY <1>10, <1>11, <2>1 DEF S
    <2>3. QED
        BY <1>6, <2>2
<1>12. ASSUME NEW k \in 0 .. m, n = end[k] PROVE Walk(c).ok
    <2>1. end[k] <= n /\ end[k] + 1 = Len(c) + 1
        BY <1>1, <1>2, <1>12, SMT
    <2>2. rest[end[k] + 1].ok
        BY <1>6, <2>1
    <2>3. QED
        BY <1>11, <2>1, <2>2
<1>13. ASSUME Walk(c).ok, \A k \in 0 .. m : n # end[k] PROVE FALSE
    <2> DEFINE T == {k \in Nat : k <= m => end[k] < n}
    <2>1. 0 \in T
        <3>1. 0 \in 0 .. m
            BY <1>1, SMT
        <3>2. n # 0
            BY <1>3, <1>13, <3>1
        <3>3. 0 < n
            BY <1>1, <3>2, SMT
        <3>4. QED
            BY <1>3, <3>3
    <2>2. ASSUME NEW k \in Nat, k \in T PROVE k + 1 \in T
        <3>1. k + 1 \in Nat
            BY SMT
        <3> SUFFICES ASSUME k + 1 <= m PROVE end[k + 1] < n
            BY <3>1
        <3>2. k + 1 \in 1 .. m /\ (k + 1) - 1 = k /\ k <= m /\ k \in 0 .. m /\ k + 1 \in 0 .. m
            BY <1>1, SMT
        <3>3. end[k] < n /\ end[k] \in Nat /\ end[k + 1] \in Nat /\ n # end[k + 1]
            BY <1>3, <1>13, <2>2, <3>2
        <3>4. ASSUME n < end[k + 1] PROVE FALSE
            <4>1. end[k] + 1 \in 1 .. n /\ ~Field(c, end[k] + 1).ok
                BY <1>4, <3>2, <3>3, <3>4
            <4>2. rest[end[k] + 1].ok = FALSE
                BY <1>7, <4>1
            <4>3. end[k] <= n
                BY <1>1, <3>3, SMT
            <4>4. QED
                BY <1>11, <1>13, <3>2, <4>2, <4>3
        <3>5. QED
            BY <1>1, <3>3, <3>4, SMT
    <2> HIDE DEF T
    <2>3. \A k \in Nat : k \in T
        BY <2>1, <2>2, StepInduction
    <2>4. end[m] < n
        BY <1>1, <2>3 DEF T
    <2>5. QED
        BY <1>1, <1>3, <2>4, SMT
<1>14. QED
    BY <1>12, <1>13 DEF c, m

(* A message cut short anywhere but between two fields is told from a      *)
(* whole one, and one cut between two is a message of the fields before    *)
(* (mesh_data.c:47, mesh_user.c:56, phone_encode.c:183).                   *)
THEOREM CutsAlwaysTold == CodecSpec => []CutsAreTold
<1>1. ASSUME CodecInv PROVE CutsAreTold
    <2>1. Holds(sent, buf)
        BY <1>1 DEF CodecInv
    <2>2. LaidOut(sent, buf, Ends(sent))
        BY <2>1, EndsAreLaidOut
    <2>3. \A n \in 0 .. Len(buf) :
              Walk(SubSeq(buf, 1, n)).ok <=> \E k \in 0 .. Len(sent) : n = Ends(sent)[k]
        BY <2>1, <2>2, WalkOfCut
    <2>4. QED
        BY <2>3 DEF CutsAreTold, Ends, Reckoned
<1>2. QED
    BY <1>1, CodecAlways, PTL

-----------------------------------------------------------------------------
(* Bits *)

FromBits(a, b, c, d, e, f, g, h) ==
    a + 2 * b + 4 * c + 8 * d + 16 * e + 32 * f + 64 * g + 128 * h

LEMMA BitsOfByte ==
    ASSUME NEW x \in Byte
    PROVE  x = FromBits(x % 2, (x \div 2) % 2, (x \div 4) % 2, (x \div 8) % 2,
                        (x \div 16) % 2, (x \div 32) % 2, (x \div 64) % 2, (x \div 128) % 2)
BY SMT DEF Byte, FromBits

LEMMA BitsRead ==
    ASSUME NEW a \in 0 .. 1, NEW b \in 0 .. 1, NEW c \in 0 .. 1, NEW d \in 0 .. 1,
           NEW e \in 0 .. 1, NEW f \in 0 .. 1, NEW g \in 0 .. 1, NEW h \in 0 .. 1
    PROVE  LET x == FromBits(a, b, c, d, e, f, g, h)
           IN  /\ x \in Byte
               /\ x % 2 = a /\ (x \div 2) % 2 = b /\ (x \div 4) % 2 = c /\ (x \div 8) % 2 = d
               /\ (x \div 16) % 2 = e /\ (x \div 32) % 2 = f /\ (x \div 64) % 2 = g /\ (x \div 128) % 2 = h
BY SMT DEF Byte, FromBits

LEMMA OddOfBits ==
    ASSUME NEW p \in Nat, NEW q \in Nat
    PROVE  /\ (p + q) % 2 \in 0 .. 1 /\ p % 2 \in 0 .. 1
           /\ (p + q) % 2 = ((p % 2) + (q % 2)) % 2
BY SMT

\* a bit set twice is as it was
LEMMA OddTwice ==
    ASSUME NEW p \in 0 .. 1, NEW q \in 0 .. 1
    PROVE  /\ (((p + q) % 2) + q) % 2 = p
           /\ (p + ((p + q) % 2)) % 2 = q
BY SMT

Place == {1, 2, 4, 8, 16, 32, 64, 128}
BitAt(x, place) == (x \div place) % 2

LEMMA SameBits ==
    ASSUME NEW x \in Byte, NEW y \in Byte, \A place \in Place : BitAt(x, place) = BitAt(y, place)
    PROVE  x = y
<1>1. x \in Nat /\ y \in Nat /\ x \div 1 = x /\ y \div 1 = y
    BY SMT DEF Byte
<1>2. /\ x % 2 = y % 2 /\ (x \div 2) % 2 = (y \div 2) % 2 /\ (x \div 4) % 2 = (y \div 4) % 2
      /\ (x \div 8) % 2 = (y \div 8) % 2 /\ (x \div 16) % 2 = (y \div 16) % 2
      /\ (x \div 32) % 2 = (y \div 32) % 2 /\ (x \div 64) % 2 = (y \div 64) % 2
      /\ (x \div 128) % 2 = (y \div 128) % 2
    BY <1>1 DEF Place, BitAt
<1>3. QED
    BY <1>2, BitsOfByte

LEMMA XorBits ==
    ASSUME NEW x \in Byte, NEW y \in Byte
    PROVE  /\ Xor(x, y) \in Byte
           /\ \A place \in Place : BitAt(Xor(x, y), place) = (BitAt(x, place) + BitAt(y, place)) % 2
<1> DEFINE Odd(place) == (x \div place + y \div place) % 2
<1>1. \A place \in Place : /\ Odd(place) \in 0 .. 1
                           /\ Odd(place) = (BitAt(x, place) + BitAt(y, place)) % 2
    <2> SUFFICES ASSUME NEW place \in Place
                 PROVE  /\ Odd(place) \in 0 .. 1
                        /\ Odd(place) = (BitAt(x, place) + BitAt(y, place)) % 2
        OBVIOUS
    <2>1. x \in Nat /\ y \in Nat /\ place \in Nat \ {0}
        BY SMT DEF Byte, Place
    <2>2. x \div place \in Nat /\ y \div place \in Nat
        BY <2>1, SMT DEF Byte, Place
    <2>3. QED
        BY <2>2, OddOfBits DEF BitAt
<1>2. Xor(x, y) = FromBits(Odd(1), Odd(2), Odd(4), Odd(8), Odd(16), Odd(32), Odd(64), Odd(128))
    BY DEF Xor, FromBits
<1> HIDE DEF Odd
<1> DEFINE r == Xor(x, y)
<1>3. /\ r \in Byte
      /\ r % 2 = Odd(1) /\ (r \div 2) % 2 = Odd(2) /\ (r \div 4) % 2 = Odd(4) /\ (r \div 8) % 2 = Odd(8)
      /\ (r \div 16) % 2 = Odd(16) /\ (r \div 32) % 2 = Odd(32)
      /\ (r \div 64) % 2 = Odd(64) /\ (r \div 128) % 2 = Odd(128)
    <2>1. /\ Odd(1) \in 0 .. 1 /\ Odd(2) \in 0 .. 1 /\ Odd(4) \in 0 .. 1 /\ Odd(8) \in 0 .. 1
          /\ Odd(16) \in 0 .. 1 /\ Odd(32) \in 0 .. 1 /\ Odd(64) \in 0 .. 1 /\ Odd(128) \in 0 .. 1
        BY <1>1 DEF Place
    <2>2. QED
        BY <1>2, <2>1, BitsRead
<1> HIDE DEF r
<1>4. r \div 1 = r
    BY <1>3, SMT DEF Byte
<1>5. \A place \in Place : BitAt(r, place) = Odd(place)
    BY <1>3, <1>4 DEF Place, BitAt
<1>6. QED
    BY <1>1, <1>3, <1>5 DEF r

LEMMA BitIsBit == ASSUME NEW x \in Byte, NEW place \in Place PROVE BitAt(x, place) \in 0 .. 1
BY SMT DEF Byte, Place, BitAt

\* What is added twice is gone, on either side.
LEMMA XorTwice ==
    ASSUME NEW x \in Byte, NEW y \in Byte
    PROVE  Xor(Xor(x, y), y) = x /\ Xor(x, Xor(x, y)) = y
<1> DEFINE r == Xor(x, y)
<1>1. r \in Byte /\ Xor(r, y) \in Byte /\ Xor(x, r) \in Byte
    BY XorBits
<1>2. ASSUME NEW place \in Place
      PROVE  BitAt(Xor(r, y), place) = BitAt(x, place) /\ BitAt(Xor(x, r), place) = BitAt(y, place)
    <2>1. BitAt(x, place) \in 0 .. 1 /\ BitAt(y, place) \in 0 .. 1
        BY BitIsBit
    <2>2. BitAt(r, place) = (BitAt(x, place) + BitAt(y, place)) % 2
        BY XorBits
    <2> HIDE DEF r
    <2>3. /\ BitAt(Xor(r, y), place) = (BitAt(r, place) + BitAt(y, place)) % 2
          /\ BitAt(Xor(x, r), place) = (BitAt(x, place) + BitAt(r, place)) % 2
        BY <1>1, XorBits
    <2>4. QED
        BY <2>1, <2>2, <2>3, OddTwice
<1> HIDE DEF r
<1>3. Xor(r, y) = x /\ Xor(x, r) = y
    BY <1>1, <1>2, SameBits
<1>4. QED
    BY <1>3 DEF r

LEMMA XorDiffers ==
    ASSUME NEW x \in Byte, NEW y \in Byte, NEW z \in Byte, y # z
    PROVE  Xor(x, y) # Xor(x, z)
BY XorTwice

-----------------------------------------------------------------------------
(* Hashes *)

Hashing(hash, bytes) ==
    [i \in 0 .. Len(bytes) |-> IF i = 0 THEN 0 ELSE Xor(hash[i - 1], bytes[i])]

LEMMA HashExists ==
    ASSUME NEW bytes \in Seq(Byte)
    PROVE  \E hash : hash = Hashing(hash, bytes)
<1> DEFINE n      == Len(bytes)
           Base   == {i \in Nat : i = 0 \/ i > n}
           start  == [i \in Nat |-> 0]
           before == [i \in Nat |-> i - 1]
           step   == [x \in Nat \X Byte |-> Xor(x[2], bytes[x[1]])]
<1>0. n \in Nat
    OBVIOUS
<1>1. \A i \in Nat \ Base : before[i] \in Nat /\ before[i] < i
    BY SMT
<1>2. \A i \in Nat : i \in Base => start[i] \in Byte
    BY SMT DEF Byte
<1>3. ASSUME NEW i \in Nat, NEW x \in Byte, i \notin Base PROVE step[<<i, x>>] = Xor(x, bytes[i]) /\ step[<<i, x>>] \in Byte
    <2>1. i \in 1 .. n
        BY <1>0, <1>3, SMT
    <2>2. bytes[i] \in Byte
        BY <2>1
    <2>3. Xor(x, bytes[i]) \in Byte
        BY <2>2, XorBits
    <2>4. QED
        BY <2>3
<1> HIDE DEF n, Base, start, before, step
<1>4. PICK f \in [Nat -> Byte] : f = Unfolded(f, Nat, Base, start, before, step)
    BY <1>1, <1>2, <1>3, TypedRecursion
<1>5. \A i \in Nat : f[i] = IF i \in Base THEN start[i] ELSE step[<<i, f[before[i]]>>]
    BY <1>4, Zenon DEF Unfolded
<1> DEFINE hash == [i \in 0 .. n |-> f[i]]
<1>6. ASSUME NEW i \in 0 .. n PROVE f[i] = IF i = 0 THEN 0 ELSE Xor(f[i - 1], bytes[i])
    <2>1. i \in Nat /\ (i # 0 => i - 1 \in Nat /\ ~(i > n))
        BY <1>0, SMT
    <2>2. CASE i = 0
        BY <1>5, <2>1, <2>2 DEF Base, start
    <2>3. CASE i # 0
        <3>1. i \notin Base /\ before[i] = i - 1 /\ f[i - 1] \in Byte
            BY <1>4, <2>1, <2>3 DEF Base, before
        <3>2. QED
            BY <1>3, <1>5, <2>1, <2>3, <3>1
    <2>4. QED
        BY <2>2, <2>3
<1>7. \A i \in 0 .. n : i # 0 => i - 1 \in 0 .. n
    BY <1>0, SMT
<1>8. hash = Hashing(hash, bytes)
    <2>1. \A i \in 0 .. n : hash[i] = f[i]
        OBVIOUS
    <2>2. \A i \in 0 .. n : f[i] = IF i = 0 THEN 0 ELSE Xor(hash[i - 1], bytes[i])
        BY <1>6, <1>7, <2>1
    <2>3. QED
        BY <2>2 DEF Hashing, n
<1>9. QED
    BY <1>8

LEMMA XorHashUnfolds ==
    ASSUME NEW bytes \in Seq(Byte)
    PROVE  \E hash : /\ XorHash(bytes) = hash[Len(bytes)]
                     /\ hash[0] = 0
                     /\ \A i \in 0 .. Len(bytes) : hash[i] \in Byte
                     /\ \A i \in 1 .. Len(bytes) : hash[i] = Xor(hash[i - 1], bytes[i])
<1> DEFINE n    == Len(bytes)
           hash == CHOOSE h : h = Hashing(h, bytes)
<1>0. n \in Nat
    OBVIOUS
<1>1. hash = Hashing(hash, bytes)
    BY HashExists
<1>2. XorHash(bytes) = hash[n]
    BY Zenon DEF XorHash, Hashing
<1> HIDE DEF hash
<1>3. \A i \in 0 .. n : hash[i] = IF i = 0 THEN 0 ELSE Xor(hash[i - 1], bytes[i])
    BY <1>1, Zenon DEF Hashing
<1> HIDE DEF n
<1>4. hash[0] = 0 /\ \A i \in 1 .. n : hash[i] = Xor(hash[i - 1], bytes[i])
    <2>1. 0 \in 0 .. n /\ \A i \in 1 .. n : i \in 0 .. n /\ i # 0
        BY <1>0, SMT
    <2>2. QED
        BY <1>3, <2>1
<1> DEFINE S == {i \in Nat : i <= n => hash[i] \in Byte}
<1>5. 0 \in S
    BY <1>4, SMT DEF Byte
<1>6. ASSUME NEW i \in Nat, i \in S PROVE i + 1 \in S
    <2>1. i + 1 \in Nat
        BY SMT
    <2> SUFFICES ASSUME i + 1 <= n PROVE hash[i + 1] \in Byte
        BY <2>1
    <2>2. i + 1 \in 1 .. n /\ (i + 1) - 1 = i /\ i <= n
        BY <1>0, SMT
    <2>3. hash[i] \in Byte /\ bytes[i + 1] \in Byte
        BY <1>6, <2>2 DEF n
    <2>4. QED
        BY <1>4, <2>2, <2>3, XorBits
<1> HIDE DEF S
<1>7. \A i \in Nat : i \in S
    BY <1>5, <1>6, StepInduction
<1>8. \A i \in 0 .. n : hash[i] \in Byte
    <2>1. \A i \in 0 .. n : i \in Nat /\ i <= n
        BY <1>0, SMT
    <2>2. QED
        BY <1>7, <2>1 DEF S
<1>9. QED
    BY <1>2, <1>4, <1>8 DEF n

\* Keys that differ in their last byte have hashes that differ.
LEMMA LastByteTells ==
    ASSUME NEW s \in Seq(Byte), NEW t \in Seq(Byte), Len(s) = Len(t), Len(s) >= 1,
           \A i \in 1 .. Len(s) - 1 : s[i] = t[i], s[Len(s)] # t[Len(s)]
    PROVE  XorHash(s) \in Byte /\ XorHash(t) \in Byte /\ XorHash(s) # XorHash(t)
<1> DEFINE n == Len(s)
<1>0. n \in Nat /\ n >= 1 /\ n \in 1 .. n /\ n - 1 \in Nat /\ n - 1 \in 0 .. n /\ n \in 0 .. n
    BY SMT
<1>1. PICK g : /\ XorHash(s) = g[n] /\ g[0] = 0
               /\ \A i \in 0 .. n : g[i] \in Byte
               /\ \A i \in 1 .. n : g[i] = Xor(g[i - 1], s[i])
    BY XorHashUnfolds
<1>2. PICK h : /\ XorHash(t) = h[n] /\ h[0] = 0
               /\ \A i \in 0 .. n : h[i] \in Byte
               /\ \A i \in 1 .. n : h[i] = Xor(h[i - 1], t[i])
    BY XorHashUnfolds
<1>3. s[n] \in Byte /\ t[n] \in Byte
    BY <1>0
<1> DEFINE S == {i \in Nat : i <= n - 1 => g[i] = h[i]}
<1>4. 0 \in S
    BY <1>1, <1>2
<1>5. ASSUME NEW i \in Nat, i \in S PROVE i + 1 \in S
    <2>1. i + 1 \in Nat
        BY SMT
    <2> SUFFICES ASSUME i + 1 <= n - 1 PROVE g[i + 1] = h[i + 1]
        BY <2>1
    <2>2. i + 1 \in 1 .. n /\ i + 1 \in 1 .. n - 1 /\ (i + 1) - 1 = i /\ i <= n - 1
        BY <1>0, SMT
    <2>3. g[i] = h[i] /\ s[i + 1] = t[i + 1]
        BY <1>5, <2>2
    <2>4. QED
        BY <1>1, <1>2, <2>2, <2>3
<1> HIDE DEF S
<1>6. \A i \in Nat : i \in S
    BY <1>4, <1>5, StepInduction
<1>7. g[n - 1] = h[n - 1]
    BY <1>0, <1>6 DEF S
<1>8. g[n] = Xor(g[n - 1], s[n]) /\ h[n] = Xor(g[n - 1], t[n]) /\ g[n - 1] \in Byte
    BY <1>0, <1>1, <1>2, <1>7
<1>9. g[n] # h[n]
    BY <1>3, <1>8, XorDiffers
<1>10. QED
    BY <1>0, <1>1, <1>2, <1>9

-----------------------------------------------------------------------------
(* The message in a frame *)

LEMMA BitsEnough ==
    /\ TwoTo[8] = 256 /\ TwoTo[0] = 1
    /\ TwoTo[WORD_BITS] \in Nat /\ TwoTo[WORD_BITS] >= 256
    /\ TwoTo[VARINT_BITS] \in Nat /\ TwoTo[VARINT_BITS] >= 256
<1>1. TwoTo[0] = 1 /\ TwoTo[1] = 2
    <2>1. TwoTo[0] = 1 /\ TwoTo[0 + 1] = 2 * TwoTo[0]
        BY TwoToDef
    <2>2. 0 + 1 = 1
        BY SMT
    <2>3. QED
        BY <2>1, <2>2
<1>2. TwoTo[8] = 256
    <2>1. TwoTo[1 + 7] = 128 * TwoTo[1]
        BY TwoToSeven
    <2>2. 1 + 7 = 8
        BY SMT
    <2>3. QED
        BY <1>1, <2>1, <2>2
<1>3. WORD_BITS \in Nat /\ VARINT_BITS \in Nat /\ 8 <= WORD_BITS /\ 8 <= VARINT_BITS
    BY BitsAssumption, SMT
<1>4. TwoTo[8] <= TwoTo[WORD_BITS] /\ TwoTo[8] <= TwoTo[VARINT_BITS]
    BY <1>3, TwoToGrows
<1>5. TwoTo[WORD_BITS] \in Nat /\ TwoTo[VARINT_BITS] \in Nat
    BY <1>3, TwoToPositive
<1>6. QED
    BY <1>1, <1>2, <1>4, <1>5, SMT

LEMMA ShortVarint ==
    ASSUME NEW v \in Nat
    PROVE  /\ v < 128 => Varint[v] = <<v>>
           /\ 128 <= v /\ v < 256 => Len(Varint[v]) = 2
<1>1. ASSUME NEW u \in Nat, u < 128 PROVE Varint[u] = <<u>>
    BY <1>1, VarintDef DEF Group
<1>2. ASSUME 128 <= v, v < 256 PROVE Len(Varint[v]) = 2
    <2>1. v \div 128 = 1
        BY <1>2, SMT
    <2>2. Varint[1] = <<1>>
        BY <1>1
    <2>3. Varint[v] = <<(v % 128) + 128>> \o <<1>>
        <3>1. v >= 128
            BY <1>2, SMT
        <3>2. Varint[v] = <<(v % 128) + 128>> \o Varint[v \div 128]
            BY <3>1, VarintDef
        <3>3. QED
            BY <2>1, <2>2, <3>2
    <2>4. QED
        BY <2>3
<1>3. QED
    BY <1>1, <1>2

TextPort       == Scalar(1, 1)
TextField(text) == Bytes(2, text)
TextMessage(text) == IF text = <<>> THEN <<TextPort>> ELSE Append(<<TextPort>>, TextField(text))

LEMMA TextFields ==
    ASSUME NEW text
    PROVE  /\ TextPort.num = 1 /\ TextPort.wire = 0 /\ TextPort.value = 1 /\ TextPort.bytes = <<>>
           /\ TextField(text).num = 2 /\ TextField(text).wire = 2 /\ TextField(text).value = 0
           /\ TextField(text).bytes = text
BY WireTypes DEF TextPort, TextField, Scalar, Bytes, Meaning

LEMMA TextIsWritable ==
    ASSUME NEW text \in Seq(Byte), Len(text) < 256
    PROVE  /\ Writable(TextPort) /\ Writable(TextField(text))
           /\ Encoded(TextPort) = VarintField(1, 1)
           /\ Encoded(TextField(text)) = BytesField(2, text)
<1> DEFINE p == TextPort
           t == TextField(text)
<1>1. /\ p.num = 1 /\ p.wire = 0 /\ p.value = 1 /\ p.bytes = <<>>
      /\ t.num = 2 /\ t.wire = 2 /\ t.value = 0 /\ t.bytes = text
    BY TextFields
<1> HIDE DEF p, t
<1>2. Encoded(p) = VarintField(1, 1) /\ Encoded(t) = BytesField(2, text)
    BY <1>1, WireTypes DEF Encoded
<1>3. Writable(p)
    <2>1. <<>> \in Seq(Byte) /\ Len(<<>>) = 0
        OBVIOUS
    <2>2. 8 * 1 + 7 < TwoTo[WORD_BITS] /\ 1 < TwoTo[VARINT_BITS] /\ 0 < TwoTo[VARINT_BITS]
        BY BitsEnough, SMT
    <2>3. QED
        BY <1>1, <2>1, <2>2, WireTypes DEF Writable
<1>4. Writable(t)
    <2>1. 8 * 2 + 7 < TwoTo[WORD_BITS] /\ Len(text) < TwoTo[VARINT_BITS] /\ 0 \div 65536 < 65536
        <3>1. Len(text) \in Nat
            OBVIOUS
        <3>2. QED
            BY <3>1, BitsEnough, SMT
    <2>2. QED
        BY <1>1, <2>1, WireTypes DEF Writable
<1>5. QED
    BY <1>2, <1>3, <1>4 DEF p, t

LEMMA TextIsHeld ==
    ASSUME NEW text \in Seq(Byte), Len(text) < 256
    PROVE  Holds(TextMessage(text), EncodeData(1, text))
<1>1. /\ Writable(TextPort) /\ Writable(TextField(text))
      /\ Encoded(TextPort) = VarintField(1, 1)
      /\ Encoded(TextField(text)) = BytesField(2, text)
    BY TextIsWritable
<1>2. Holds(<<TextPort>>, VarintField(1, 1))
    BY <1>1, OneFieldHeld
<1>3. VarintField(1, 1) \in Seq(Byte)
    BY <1>2 DEF Holds
<1>4. CASE text = <<>>
    <2>1. EncodeData(1, text) = VarintField(1, 1) \o <<>>
        BY <1>4 DEF EncodeData
    <2>2. VarintField(1, 1) \o <<>> = VarintField(1, 1)
        BY <1>3
    <2>3. QED
        BY <1>2, <1>4, <2>1, <2>2 DEF TextMessage
<1>5. CASE text # <<>>
    <2>1. EncodeData(1, text) = VarintField(1, 1) \o BytesField(2, text)
        BY <1>5 DEF EncodeData
    <2>2. Holds(Append(<<TextPort>>, TextField(text)), VarintField(1, 1) \o Encoded(TextField(text)))
        BY <1>1, <1>2, FieldHeld
    <2>3. QED
        BY <1>1, <1>5, <2>1, <2>2 DEF TextMessage
<1>6. QED
    BY <1>4, <1>5

LEMMA OnlyPlace == ASSUME NEW i \in Nat PROVE Max({i}) = i
<1>1. i \in {i} /\ \A y \in {i} : i >= y
    OBVIOUS
<1>2. Max({i}) \in {i}
    BY <1>1, Zenon DEF Max
<1>3. QED
    BY <1>2

LEMMA TextMeant ==
    ASSUME NEW text \in Seq(Byte)
    PROVE  /\ LastField(TextMessage(text), 1, {WIRE_VARINT}) = {TextPort}
           /\ LastField(TextMessage(text), 2, {WIRE_LEN}) = IF text = <<>> THEN {} ELSE {TextField(text)}
<1> DEFINE p == TextPort
           t == TextField(text)
           m == TextMessage(text)
           T(num, wire) == {i \in DOMAIN m : m[i].num = num /\ m[i].wire \in {wire}}
<1>1. p.num = 1 /\ p.wire = 0 /\ t.num = 2 /\ t.wire = 2
    BY TextFields
<1>2. \A num, wire : LastField(m, num, {wire}) = IF T(num, wire) = {} THEN {} ELSE {m[Max(T(num, wire))]}
    BY DEF LastField
<1>3. WIRE_VARINT = 0 /\ WIRE_LEN = 2 /\ Max({1}) = 1 /\ Max({2}) = 2
    BY OnlyPlace, WireTypes
<1>4. CASE text = <<>>
    <2>1. m = <<p>>
        BY <1>4 DEF TextMessage
    <2> HIDE DEF p, m
    <2>2. DOMAIN m = {1} /\ m[1] = p
        BY <2>1
    <2>3. T(1, 0) = {1} /\ T(2, 2) = {}
        BY <1>1, <2>2
    <2> HIDE DEF T
    <2>4. LastField(m, 1, {0}) = {p} /\ LastField(m, 2, {2}) = {}
        <3>1. LastField(m, 1, {0}) = IF T(1, 0) = {} THEN {} ELSE {m[Max(T(1, 0))]}
            BY <1>2
        <3>2. LastField(m, 2, {2}) = IF T(2, 2) = {} THEN {} ELSE {m[Max(T(2, 2))]}
            BY <1>2
        <3>3. {1} # {}
            OBVIOUS
        <3>4. QED
            BY <1>3, <2>2, <2>3, <3>1, <3>2, <3>3
    <2>5. QED
        BY <1>3, <1>4, <2>4 DEF p, m
<1>5. CASE text # <<>>
    <2>1. m = Append(<<p>>, t)
        BY <1>5 DEF TextMessage
    <2> HIDE DEF p, t, m
    <2>2. <<p>> \in Seq({p, t}) /\ Len(<<p>>) = 1 /\ <<p>>[1] = p
        OBVIOUS
    <2>3. DOMAIN m = {1, 2} /\ m[1] = p /\ m[2] = t
        <3>1. m \in Seq({p, t}) /\ Len(m) = 2 /\ m[1] = p /\ m[2] = t
            BY <2>1, <2>2
        <3>2. DOMAIN m = 1 .. 2 /\ 1 .. 2 = {1, 2}
            BY <3>1, SMT
        <3>3. QED
            BY <3>1, <3>2
    <2>4. T(1, 0) = {1} /\ T(2, 2) = {2}
        BY <1>1, <2>3
    <2> HIDE DEF T
    <2>5. LastField(m, 1, {0}) = {p} /\ LastField(m, 2, {2}) = {t}
        <3>1. LastField(m, 1, {0}) = IF T(1, 0) = {} THEN {} ELSE {m[Max(T(1, 0))]}
            BY <1>2
        <3>2. LastField(m, 2, {2}) = IF T(2, 2) = {} THEN {} ELSE {m[Max(T(2, 2))]}
            BY <1>2
        <3>3. {1} # {} /\ {2} # {}
            OBVIOUS
        <3>4. QED
            BY <1>3, <2>3, <2>4, <3>1, <3>2, <3>3
    <2>6. QED
        BY <1>3, <1>5, <2>5 DEF p, t, m
<1>6. QED
    BY <1>4, <1>5

LEMMA TextDecoded ==
    ASSUME NEW text \in Seq(Byte), Len(text) < 256
    PROVE  LET data == MeshDataParse(EncodeData(1, text))
           IN  data.ok /\ data.portnum = 1 /\ data.payload = text
<1> DEFINE m == TextMessage(text)
           b == EncodeData(1, text)
           data == MeshDataParse(b)
           Word32(values) == {Word(v) : v \in values}
<1>1. Holds(m, b)
    BY TextIsHeld
<1> HIDE DEF m, b
<1>2. /\ data.ok
      /\ data.portnum = OrElse(Word32(Meant(m, 1, {WIRE_VARINT})), 0)
      /\ data.payload = OrElse({f.bytes : f \in LastField(m, 2, {WIRE_LEN})}, <<>>)
    BY <1>1, DecodedWhole
<1> HIDE DEF data
<1>3. data.portnum = 1
    <2>1. Meant(m, 1, {WIRE_VARINT}) = {1}
        <3>1. LastField(m, 1, {WIRE_VARINT}) = {TextPort}
            BY TextMeant DEF m
        <3>2. TextPort.value = 1
            BY TextFields
        <3>3. {f.value : f \in {TextPort}} = {1}
            BY <3>2
        <3>4. QED
            BY <3>1, <3>3 DEF Meant
    <2>2. Word(1) = 1
        <3>1. 1 % TwoTo[WORD_BITS] = 1
            <4> DEFINE w == TwoTo[WORD_BITS]
            <4>1. w \in Nat /\ w > 1
                BY BitsEnough, SMT
            <4> HIDE DEF w
            <4>2. 1 % w = 1
                BY <4>1, SmallModulo
            <4>3. QED
                BY <4>2 DEF w
        <3>2. QED
            BY <3>1 DEF Word
    <2>3. Word32(Meant(m, 1, {WIRE_VARINT})) = {1}
        BY <2>1, <2>2
    <2>4. OrElse({1}, 0) = 1
        BY OneOf DEF OrElse
    <2>5. QED
        BY <1>2, <2>3, <2>4
<1>4. data.payload = text
    <2>1. LastField(m, 2, {WIRE_LEN}) = IF text = <<>> THEN {} ELSE {TextField(text)}
        BY TextMeant DEF m
    <2>2. CASE text = <<>>
        <3>1. {f.bytes : f \in LastField(m, 2, {WIRE_LEN})} = {}
            BY <2>1, <2>2
        <3>2. QED
            BY <1>2, <2>2, <3>1 DEF OrElse
    <2>3. CASE text # <<>>
        <3>1. {f.bytes : f \in LastField(m, 2, {WIRE_LEN})} = {text}
            BY <2>1, <2>3, TextFields
        <3>2. OrElse({text}, <<>>) = text
            BY OneOf DEF OrElse
        <3>3. QED
            BY <1>2, <3>1, <3>2
    <2>4. QED
        BY <2>2, <2>3
<1>5. QED
    BY <1>2, <1>3, <1>4 DEF data, b

\* How long the message of a text is.
LEMMA TextLength ==
    ASSUME NEW text \in Seq(Byte), Len(text) < 256
    PROVE  /\ EncodeData(1, text) \in Seq(Byte)
           /\ text = <<>> => Len(EncodeData(1, text)) = 2
           /\ text # <<>> => Len(EncodeData(1, text)) = 3 + Len(Varint[Len(text)]) + Len(text)
           /\ Len(Varint[Len(text)]) \in 1 .. 2
           /\ 128 <= Len(text) => Len(Varint[Len(text)]) = 2
<1> DEFINE n == Len(text)
           s == VarintField(1, 1)
           v == Varint[n]
<1>1. n \in Nat /\ n < 256
    OBVIOUS
<1> HIDE DEF n
<1>2. Len(v) \in 1 .. 2 /\ (128 <= n => Len(v) = 2) /\ v \in Seq(Byte)
    <2>1. CASE n < 128
        <3>1. v = <<n>>
            BY <1>1, <2>1, ShortVarint
        <3>2. n \in Byte /\ ~(128 <= n)
            BY <1>1, <2>1, SMT DEF Byte
        <3>3. QED
            BY <3>1, <3>2
    <2>2. CASE 128 <= n
        <3>1. Len(v) = 2
            BY <1>1, <2>2, ShortVarint
        <3>2. v \in Seq(Byte)
            BY <1>1, VarintDef
        <3>3. QED
            BY <3>1, <3>2
    <2>3. QED
        BY <1>1, <2>1, <2>2, SMT
<1>3. s = <<8>> \o <<1>>
    <2>1. 8 * 1 + 0 = 8
        BY SMT
    <2>2. Varint[8] = <<8>> /\ Varint[1] = <<1>>
        BY ShortVarint
    <2>3. QED
        BY <2>1, <2>2, WireTypes DEF VarintField, Tag
<1>4. s \in Seq(Byte) /\ Len(s) = 2
    <2>1. <<8>> \in Seq(Byte) /\ Len(<<8>>) = 1 /\ <<1>> \in Seq(Byte) /\ Len(<<1>>) = 1
        BY DEF Byte
    <2>2. <<8>> \o <<1>> \in Seq(Byte) /\ Len(<<8>> \o <<1>>) = 1 + 1
        BY <2>1, ConcatProperties
    <2>3. 1 + 1 = 2
        BY SMT
    <2>4. QED
        BY <1>3, <2>2, <2>3, Zenon
<1> HIDE DEF s, v
<1>5. BytesField(2, text) = <<18>> \o v \o text
    <2>1. 8 * 2 + 2 = 18
        BY SMT
    <2>2. Varint[18] = <<18>>
        BY ShortVarint
    <2>3. QED
        BY <2>1, <2>2, WireTypes DEF BytesField, Tag, v, n
<1>6. <<18>> \o v \o text \in Seq(Byte) /\ Len(<<18>> \o v \o text) = 1 + Len(v) + n
    <2>1. <<18>> \in Seq(Byte) /\ Len(<<18>>) = 1
        BY DEF Byte
    <2>2. <<18>> \o v \in Seq(Byte) /\ Len(<<18>> \o v) = 1 + Len(v)
        BY <1>2, <2>1
    <2>3. QED
        BY <2>2 DEF n
<1>7. CASE text = <<>>
    <2>1. EncodeData(1, text) = s \o <<>>
        BY <1>7 DEF EncodeData, s
    <2>2. s \o <<>> = s
        BY <1>4
    <2>3. QED
        BY <1>2, <1>4, <1>7, <2>1, <2>2 DEF v, n
<1>8. CASE text # <<>>
    <2> DEFINE q == <<18>> \o v \o text
    <2>1. EncodeData(1, text) = s \o q
        <3>1. EncodeData(1, text) = VarintField(1, 1) \o BytesField(2, text)
            BY <1>8 DEF EncodeData
        <3>2. QED
            BY <1>5, <3>1 DEF s
    <2> HIDE DEF q
    <2>2. s \o q \in Seq(Byte) /\ Len(s \o q) = 2 + Len(q)
        <3>1. q \in Seq(Byte)
            BY <1>6 DEF q
        <3>2. s \o q \in Seq(Byte) /\ Len(s \o q) = Len(s) + Len(q)
            BY <1>4, <3>1, ConcatProperties
        <3>3. QED
            BY <1>4, <3>2
    <2>3. Len(q) = 1 + Len(v) + n
        BY <1>6 DEF q
    <2>4. Len(s \o q) = 3 + Len(v) + n
        BY <1>1, <1>2, <2>2, <2>3, SMT
    <2>5. QED
        BY <1>2, <1>8, <2>1, <2>2, <2>4 DEF v, n
<1>9. QED
    BY <1>7, <1>8

-----------------------------------------------------------------------------
(* The frame *)

LEMMA DefaultKey ==
    /\ DefaultPsk \in Seq(Byte) /\ Len(DefaultPsk) = 16 /\ DOMAIN DefaultPsk = 1 .. 16 /\ DefaultPsk[16] = 1
    /\ \A i \in 1 .. 16 : DefaultPsk[i] \in Byte
<1>1. /\ 212 \in Byte /\ 241 \in Byte /\ 187 \in Byte /\ 58 \in Byte /\ 32 \in Byte /\ 41 \in Byte
      /\ 7 \in Byte /\ 89 \in Byte /\ 240 \in Byte /\ 188 \in Byte /\ 255 \in Byte /\ 171 \in Byte
      /\ 207 \in Byte /\ 78 \in Byte /\ 105 \in Byte /\ 1 \in Byte
    BY SMT DEF Byte
<1>2. DefaultPsk \in Seq(Byte) /\ Len(DefaultPsk) = 16 /\ DefaultPsk[16] = 1
    BY <1>1 DEF DefaultPsk
<1>3. DOMAIN DefaultPsk = 1 .. 16
    BY <1>2
<1>4. \A i \in 1 .. 16 : DefaultPsk[i] \in Byte
    BY <1>2, ElementOfSeq, Zenon
<1>5. QED
    BY <1>2, <1>3, <1>4

LEMMA ExpandedKey ==
    ASSUME NEW index \in 1 .. 255
    PROVE  /\ ExpandPsk(index) \in Seq(Byte) /\ Len(ExpandPsk(index)) = 16
           /\ ExpandPsk(index)[16] = index
           /\ \A i \in 1 .. 15 : ExpandPsk(index)[i] = DefaultPsk[i]
<1>1. (1 + index - 1) % 256 = index /\ index \in Byte
    BY SMT DEF Byte
<1>2. ExpandPsk(index) = [DefaultPsk EXCEPT ![16] = index]
    BY <1>1, DefaultKey DEF ExpandPsk
<1>3. /\ DOMAIN ExpandPsk(index) = 1 .. 16
      /\ \A i \in 1 .. 16 : ExpandPsk(index)[i] = IF i = 16 THEN index ELSE DefaultPsk[i]
    BY <1>2, DefaultKey
<1>4. ExpandPsk(index) = [i \in 1 .. 16 |-> IF i = 16 THEN index ELSE DefaultPsk[i]]
    BY <1>2, DefaultKey
<1>5. \A i \in 1 .. 16 : (IF i = 16 THEN index ELSE DefaultPsk[i]) \in Byte
    BY <1>1, DefaultKey
<1>6. ExpandPsk(index) \in Seq(Byte) /\ Len(ExpandPsk(index)) = 16
    BY <1>4, <1>5
<1>7. QED
    BY <1>3, <1>6, SMT

LEMMA PadIsByte ==
    ASSUME NEW index \in 1 .. 255, NEW id \in Nat, NEW from \in Nat, NEW i \in Nat
    PROVE  Pad(ExpandPsk(index), Nonce(id, from), i) \in Byte
<1> DEFINE z == <<0, 0, 0, 0>>
           a == FourBytes(id)
           b == FourBytes(from)
           n == Nonce(id, from)
<1>1. a \in Seq(Byte) /\ Len(a) = 4 /\ b \in Seq(Byte) /\ Len(b) = 4
    BY FourBytesAreBytes
<1>2. z \in Seq(Byte) /\ Len(z) = 4
    BY DEF Byte
<1>3. n = ((a \o z) \o b) \o z
    BY DEF Nonce
<1> HIDE DEF a, b, z, n
<1>4. a \o z \in Seq(Byte) /\ Len(a \o z) = 8
    <2>1. a \o z \in Seq(Byte) /\ Len(a \o z) = Len(a) + Len(z)
        BY <1>1, <1>2, ConcatProperties
    <2>2. QED
        BY <1>1, <1>2, <2>1
<1>5. (a \o z) \o b \in Seq(Byte) /\ Len((a \o z) \o b) = 12
    <2>1. (a \o z) \o b \in Seq(Byte) /\ Len((a \o z) \o b) = Len(a \o z) + Len(b)
        BY <1>1, <1>4, ConcatProperties
    <2>2. QED
        BY <1>1, <1>4, <2>1
<1>6. n \in Seq(Byte) /\ Len(n) = 16
    <2>1. n \in Seq(Byte) /\ Len(n) = Len((a \o z) \o b) + Len(z)
        BY <1>2, <1>3, <1>5, ConcatProperties
    <2>2. QED
        BY <1>2, <1>5, <2>1
<1>7. n[1] \in Nat /\ n[9] \in Nat /\ n[10] \in Nat
    <2>1. \A j \in 1 .. 16 : n[j] \in Byte
        BY <1>6, ElementOfSeq, Zenon
    <2>2. 1 \in 1 .. 16 /\ 9 \in 1 .. 16 /\ 10 \in 1 .. 16 /\ Byte \subseteq Nat
        BY SMT DEF Byte
    <2>3. QED
        BY <2>1, <2>2
<1>8. ExpandPsk(index)[16] \in Nat
    <2>1. ExpandPsk(index)[16] = index
        BY ExpandedKey
    <2>2. index \in Nat
        BY SMT
    <2>3. QED
        BY <2>1, <2>2
<1> DEFINE k == ExpandPsk(index)[16]
           p == n[1]
           q == n[9]
           r == n[10]
<1>9. Pad(ExpandPsk(index), n, i) = (k + 3 * p + 5 * q + 7 * r + 11 * i) % 256
    BY DEF Pad
<1>10. k \in Nat /\ p \in Nat /\ q \in Nat /\ r \in Nat
    BY <1>7, <1>8
<1> HIDE DEF k, p, q, r
<1>11. (k + 3 * p + 5 * q + 7 * r + 11 * i) % 256 \in Byte
    BY <1>10, SMT DEF Byte
<1>12. QED
    BY <1>9, <1>11 DEF n

LEMMA XcryptTwice ==
    ASSUME NEW index \in 1 .. 255, NEW id \in Nat, NEW from \in Nat, NEW bytes \in Seq(Byte)
    PROVE  LET other == Xcrypt(ExpandPsk(index), id, from, bytes)
           IN  /\ other \in Seq(Byte) /\ Len(other) = Len(bytes)
               /\ Xcrypt(ExpandPsk(index), id, from, other) = bytes
<1> DEFINE pad(i) == Pad(ExpandPsk(index), Nonce(id, from), i)
           n      == Len(bytes)
           other  == Xcrypt(ExpandPsk(index), id, from, bytes)
<1>1. n \in Nat /\ DOMAIN bytes = 1 .. n /\ \A i \in 1 .. n : i \in Nat /\ bytes[i] \in Byte
    BY SMT
<1>2. \A i \in 1 .. n : pad(i) \in Byte
    BY <1>1, PadIsByte
<1>3. /\ other = [i \in 1 .. n |-> Xor(bytes[i], pad(i))]
      /\ \A s : DOMAIN s = 1 .. n =>
             Xcrypt(ExpandPsk(index), id, from, s) = [i \in 1 .. n |-> Xor(s[i], pad(i))]
    BY <1>1 DEF Xcrypt
<1> HIDE DEF pad, other
<1>4. \A i \in 1 .. n : Xor(bytes[i], pad(i)) \in Byte /\ Xor(Xor(bytes[i], pad(i)), pad(i)) = bytes[i]
    BY <1>1, <1>2, XorBits, XorTwice
<1>5. other \in Seq(Byte) /\ Len(other) = n /\ DOMAIN other = 1 .. n
    BY <1>1, <1>3, <1>4
<1>6. Xcrypt(ExpandPsk(index), id, from, other) = [i \in 1 .. n |-> bytes[i]]
    <2>1. Xcrypt(ExpandPsk(index), id, from, other) = [i \in 1 .. n |-> Xor(other[i], pad(i))]
        BY <1>3, <1>5
    <2>2. \A i \in 1 .. n : Xor(other[i], pad(i)) = bytes[i]
        BY <1>3, <1>4
    <2>3. QED
        BY <2>1, <2>2
<1>7. bytes = [i \in 1 .. n |-> bytes[i]]
    BY <1>1
<1>8. QED
    BY <1>5, <1>6, <1>7 DEF other

LEMMA HashTellsKeys ==
    ASSUME NEW index \in 1 .. 255, NEW other \in 1 .. 255
    PROVE  /\ ChannelHash(ChannelName, ExpandPsk(index)) \in Byte
           /\ index # other => ChannelHash(ChannelName, ExpandPsk(index))
                                   # ChannelHash(ChannelName, ExpandPsk(other))
<1> DEFINE s == ExpandPsk(index)
           t == ExpandPsk(other)
<1>1. /\ s \in Seq(Byte) /\ Len(s) = 16 /\ s[16] = index
      /\ t \in Seq(Byte) /\ Len(t) = 16 /\ t[16] = other
      /\ \A i \in 1 .. 15 : s[i] = t[i]
    <2> HIDE DEF s, t
    <2>1. s \in Seq(Byte) /\ Len(s) = 16 /\ s[16] = index /\ \A i \in 1 .. 15 : s[i] = DefaultPsk[i]
        BY ExpandedKey DEF s
    <2>2. t \in Seq(Byte) /\ Len(t) = 16 /\ t[16] = other /\ \A i \in 1 .. 15 : t[i] = DefaultPsk[i]
        BY ExpandedKey DEF t
    <2>3. QED
        BY <2>1, <2>2
<1> HIDE DEF s, t
<1>2. ChannelName \in Seq(Byte)
    BY FrameAssumption
<1>3. \A bytes \in Seq(Byte) : XorHash(bytes) \in Byte
    <2> SUFFICES ASSUME NEW bytes \in Seq(Byte) PROVE XorHash(bytes) \in Byte
        OBVIOUS
    <2>1. PICK hash : XorHash(bytes) = hash[Len(bytes)] /\ \A i \in 0 .. Len(bytes) : hash[i] \in Byte
        BY XorHashUnfolds
    <2>2. Len(bytes) \in 0 .. Len(bytes)
        BY SMT
    <2>3. QED
        BY <2>1, <2>2
<1>4. XorHash(ChannelName) \in Byte /\ XorHash(s) \in Byte /\ XorHash(t) \in Byte
    BY <1>1, <1>2, <1>3
<1>5. ASSUME index # other PROVE XorHash(s) # XorHash(t)
    <2>1. 16 - 1 = 15 /\ 16 >= 1
        BY SMT
    <2>2. Len(s) = Len(t) /\ Len(s) >= 1 /\ s[Len(s)] # t[Len(s)] /\ \A i \in 1 .. Len(s) - 1 : s[i] = t[i]
        BY <1>1, <1>5, <2>1
    <2>3. QED
        BY <1>1, <2>2, LastByteTells
<1>6. Xor(XorHash(ChannelName), XorHash(s)) \in Byte
    BY <1>4, XorBits
<1>7. ASSUME index # other
      PROVE  Xor(XorHash(ChannelName), XorHash(s)) # Xor(XorHash(ChannelName), XorHash(t))
    BY <1>4, <1>5, <1>7, XorDiffers
<1>8. QED
    BY <1>6, <1>7 DEF ChannelHash, s, t

\* The four parts of a header and what follows, in their places.
IsLaid(frame, a, b, c, d, rest) ==
    /\ frame \in Seq(Byte) /\ Len(frame) = 16 + Len(rest)
    /\ \A i \in 1 .. 4 : /\ frame[i] = a[i] /\ frame[4 + i] = b[i]
                         /\ frame[8 + i] = c[i] /\ frame[12 + i] = d[i]
    /\ \A i \in 1 .. Len(rest) : frame[16 + i] = rest[i]

LEMMA PartsOfFrame ==
    ASSUME NEW a \in Seq(Byte), NEW b \in Seq(Byte), NEW c \in Seq(Byte), NEW d \in Seq(Byte),
           NEW rest \in Seq(Byte), Len(a) = 4, Len(b) = 4, Len(c) = 4, Len(d) = 4
    PROVE  IsLaid((((a \o b) \o c) \o d) \o rest, a, b, c, d, rest)
<1> DEFINE ab == a \o b
           abc == ab \o c
           head == abc \o d
           frame == head \o rest
<1>1. /\ ab \in Seq(Byte) /\ Len(ab) = 8
      /\ \A i \in 1 .. 8 : ab[i] = IF i <= 4 THEN a[i] ELSE b[i - 4]
    <2>1. /\ ab \in Seq(Byte) /\ Len(ab) = Len(a) + Len(b)
          /\ \A i \in 1 .. Len(a) + Len(b) : ab[i] = IF i <= Len(a) THEN a[i] ELSE b[i - Len(a)]
        BY ConcatProperties
    <2> HIDE DEF ab
    <2>2. 4 + 4 = 8
        BY SMT
    <2>3. QED
        BY <2>1, <2>2
<1> HIDE DEF ab
<1>2. /\ abc \in Seq(Byte) /\ Len(abc) = 12
      /\ \A i \in 1 .. 12 : abc[i] = IF i <= 8 THEN ab[i] ELSE c[i - 8]
    <2>1. /\ abc \in Seq(Byte) /\ Len(abc) = Len(ab) + Len(c)
          /\ \A i \in 1 .. Len(ab) + Len(c) : abc[i] = IF i <= Len(ab) THEN ab[i] ELSE c[i - Len(ab)]
        BY <1>1, ConcatProperties
    <2> HIDE DEF abc
    <2>2. 8 + 4 = 12
        BY SMT
    <2>3. QED
        BY <1>1, <2>1, <2>2
<1> HIDE DEF abc
<1>3. /\ head \in Seq(Byte) /\ Len(head) = 16
      /\ \A i \in 1 .. 16 : head[i] = IF i <= 12 THEN abc[i] ELSE d[i - 12]
    <2>1. /\ head \in Seq(Byte) /\ Len(head) = Len(abc) + Len(d)
          /\ \A i \in 1 .. Len(abc) + Len(d) : head[i] = IF i <= Len(abc) THEN abc[i] ELSE d[i - Len(abc)]
        BY <1>2, ConcatProperties
    <2> HIDE DEF head
    <2>2. 12 + 4 = 16
        BY SMT
    <2>3. QED
        BY <1>2, <2>1, <2>2
<1> HIDE DEF head
<1>4. /\ frame \in Seq(Byte) /\ Len(frame) = 16 + Len(rest) /\ Len(rest) \in Nat
      /\ \A i \in 1 .. 16 + Len(rest) : frame[i] = IF i <= 16 THEN head[i] ELSE rest[i - 16]
    <2>1. /\ frame \in Seq(Byte) /\ Len(frame) = Len(head) + Len(rest)
          /\ \A i \in 1 .. Len(head) + Len(rest) : frame[i] = IF i <= Len(head) THEN head[i] ELSE rest[i - Len(head)]
        BY <1>3, ConcatProperties
    <2> HIDE DEF frame
    <2>3. QED
        BY <1>3, <2>1
<1> HIDE DEF frame
<1> DEFINE n == Len(rest)
<1>5. n \in Nat
    BY <1>4
<1>6. ASSUME NEW i \in 1 .. 4
      PROVE  /\ frame[i] = a[i] /\ frame[4 + i] = b[i] /\ frame[8 + i] = c[i] /\ frame[12 + i] = d[i]
    <2> HIDE DEF n
    <2>1. \A j \in 1 .. 16 : j \in 1 .. 16 + n /\ j <= 16
        BY <1>5, SMT
    <2>2. \A j \in 1 .. 16 : frame[j] = head[j]
        BY <1>4, <2>1 DEF n
    <2>3. /\ i \in 1 .. 16 /\ 4 + i \in 1 .. 16 /\ 8 + i \in 1 .. 16 /\ 12 + i \in 1 .. 16
          /\ i \in 1 .. 12 /\ 4 + i \in 1 .. 12 /\ 8 + i \in 1 .. 12 /\ ~(12 + i <= 12)
          /\ i <= 12 /\ 4 + i <= 12 /\ 8 + i <= 12
          /\ i \in 1 .. 8 /\ 4 + i \in 1 .. 8 /\ i <= 8 /\ 4 + i <= 8 /\ ~(8 + i <= 8)
          /\ i <= 4 /\ ~(4 + i <= 4)
          /\ (4 + i) - 4 = i /\ (8 + i) - 8 = i /\ (12 + i) - 12 = i
        BY SMT
    <2>4. frame[i] = head[i] /\ frame[4 + i] = head[4 + i] /\ frame[8 + i] = head[8 + i] /\ frame[12 + i] = head[12 + i]
        BY <2>2, <2>3
    <2>5. head[i] = abc[i] /\ head[4 + i] = abc[4 + i] /\ head[8 + i] = abc[8 + i] /\ head[12 + i] = d[i]
        BY <1>3, <2>3
    <2>6. abc[i] = ab[i] /\ abc[4 + i] = ab[4 + i] /\ abc[8 + i] = c[i]
        BY <1>2, <2>3
    <2>7. ab[i] = a[i] /\ ab[4 + i] = b[i]
        BY <1>1, <2>3
    <2>8. QED
        BY <2>4, <2>5, <2>6, <2>7
<1>7. ASSUME NEW i \in 1 .. n PROVE frame[16 + i] = rest[i]
    <2> HIDE DEF n
    <2>1. 16 + i \in 1 .. 16 + n /\ ~(16 + i <= 16) /\ (16 + i) - 16 = i
        BY <1>5, SMT
    <2>2. QED
        BY <1>4, <2>1 DEF n
<1>8. QED
    BY <1>4, <1>6, <1>7 DEF frame, head, abc, ab, IsLaid

LEMMA SentHeader ==
    ASSUME NEW params \in TxParams
    PROVE  /\ DOMAIN params \ {"key"} = {"to", "from", "id", "hop_limit", "hop_start", "want_ack"}
           /\ params.to \in Nat /\ params.to \div 65536 < 65536
           /\ params.from \in Nat /\ params.from \div 65536 < 65536
           /\ params.id \in Nat /\ params.id \div 65536 < 65536
           /\ params.hop_limit \in 0 .. 7 /\ params.hop_start \in 0 .. 7
           /\ params.want_ack \in BOOLEAN /\ params.key \in 1 .. 255
<1> DEFINE W == {v \in Nat : v \div 65536 < 65536}
<1>1. params \in [to : W, from : W, id : W, hop_limit : 0 .. 7, hop_start : 0 .. 7,
                  want_ack : BOOLEAN, key : 1 .. 255]
    BY FrameAssumption
<1>2. params.to \in W /\ params.from \in W /\ params.id \in W
    <2> HIDE DEF W
    <2>1. QED
        BY <1>1
<1>3. DOMAIN params = {"to", "from", "id", "hop_limit", "hop_start", "want_ack", "key"}
    <2> HIDE DEF W
    <2>1. QED
        BY <1>1
<1>4. /\ params.hop_limit \in 0 .. 7 /\ params.hop_start \in 0 .. 7
      /\ params.want_ack \in BOOLEAN /\ params.key \in 1 .. 255
    <2> HIDE DEF W
    <2>1. QED
        BY <1>1
<1>5. DOMAIN params \ {"key"} = {"to", "from", "id", "hop_limit", "hop_start", "want_ack"}
    BY <1>3
<1>6. QED
    BY <1>2, <1>4, <1>5

LEMMA FlagsRead ==
    ASSUME NEW params \in TxParams
    PROVE  /\ Flags(params) \in Byte
           /\ Flags(params) % 8 = params.hop_limit
           /\ Flags(params) \div 32 = params.hop_start
           /\ ((Flags(params) \div 8) % 2 = 1) = params.want_ack
<1> DEFINE l == params.hop_limit
           s == params.hop_start
           k == IF params.want_ack THEN 8 ELSE 0
<1>1. l \in 0 .. 7 /\ s \in 0 .. 7 /\ params.want_ack \in BOOLEAN
    BY SentHeader
<1>2. k \in {0, 8} /\ (k = 8 <=> params.want_ack)
    OBVIOUS
<1>3. Flags(params) = (l % 8) + k + 32 * (s % 8)
    BY DEF Flags
<1> HIDE DEF l, s, k
<1> DEFINE f == (l % 8) + k + 32 * (s % 8)
<1>4. /\ f \in Byte /\ f % 8 = l /\ f \div 32 = s
      /\ ((f \div 8) % 2 = 1 <=> k = 8)
    BY <1>1, <1>2, SMT DEF Byte
<1> HIDE DEF f
<1>5. ((f \div 8) % 2 = 1) = params.want_ack
    BY <1>1, <1>2, <1>4, Zenon
<1>6. QED
    BY <1>3, <1>4, <1>5 DEF f, l, s

FourAt(frame, k, v) == \A i \in 1 .. 4 : frame[k + i] = FourBytes(v)[i]

LEMMA FourOfFrame ==
    ASSUME NEW frame \in Seq(Byte), NEW k \in {0, 4, 8}, Len(frame) >= 16, NEW v \in Nat, v \div 65536 < 65536,
           FourAt(frame, k, v)
    PROVE  FourByteValue(SubSeq(frame, k + 1, k + 4)) = v
<1> DEFINE part == SubSeq(frame, k + 1, k + 4)
<1>1. /\ \A i \in 1 .. 4 : k + i \in 1 .. Len(frame)
      /\ k \in Nat
    BY SMT
<1>2. part[1] = frame[k + 1] /\ part[2] = frame[k + 2] /\ part[3] = frame[k + 3] /\ part[4] = frame[k + 4]
    BY <1>1, SMT
<1> HIDE DEF part
<1>3. 1 \in 1 .. 4 /\ 2 \in 1 .. 4 /\ 3 \in 1 .. 4 /\ 4 \in 1 .. 4
    BY SMT
<1>4. /\ part[1] = FourBytes(v)[1] /\ part[2] = FourBytes(v)[2]
      /\ part[3] = FourBytes(v)[3] /\ part[4] = FourBytes(v)[4]
    BY <1>2, <1>3 DEF FourAt
<1>5. FourByteValue(part) = FourByteValue(FourBytes(v))
    BY <1>4 DEF FourByteValue
<1>6. QED
    BY <1>5, FourBytesValue DEF part

\* A frame of a text: its header and its message, told apart again.
Carries(frame, params, text) ==
    /\ frame \in Seq(Byte) /\ Len(frame) \in 16 .. MESH_MAX_PAYLOAD
    /\ \A h \in DOMAIN params \ {"key"} : HeaderParse(frame)[h] = params[h]
    /\ HeaderParse(frame).id = params.id /\ HeaderParse(frame).from = params.from
    /\ HeaderParse(frame).channel = ChannelHash(ChannelName, ExpandPsk(params.key))
    /\ SubSeq(frame, MESH_HEADER_LEN + 1, Len(frame))
           = Xcrypt(ExpandPsk(params.key), params.id, params.from, EncodeData(1, text))

\* what follows the header
LEMMA Tail17 ==
    ASSUME NEW frame \in Seq(Byte)
    PROVE  /\ Len(SubSeq(frame, 17, Len(frame))) = IF 17 <= Len(frame) THEN Len(frame) - 17 + 1 ELSE 0
           /\ \A i \in 1 .. Len(frame) - 17 + 1 :
                 SubSeq(frame, 17, Len(frame))[i] = frame[17 + i - 1]
           /\ SubSeq(frame, 17, Len(frame)) \in Seq(Byte)
<1> DEFINE n == Len(frame)
<1>1. n \in Nat
    OBVIOUS
<1>2. \A i \in 17 .. n : frame[i] \in Byte
    <2>1. TAKE i \in 17 .. n
    <2>2. i \in 1 .. n
        BY <1>1, <2>1, SMT
    <2>3. QED
        BY <2>2, ElementOfSeq
<1> HIDE DEF n
<1>3. n \in Int /\ 17 \in Int
    BY <1>1
<1>4. /\ SubSeq(frame, 17, n) \in Seq(Byte)
      /\ Len(SubSeq(frame, 17, n)) = IF 17 <= n THEN n - 17 + 1 ELSE 0
      /\ \A i \in 1 .. n - 17 + 1 : SubSeq(frame, 17, n)[i] = frame[17 + i - 1]
    BY <1>2, <1>3, SubSeqProperties
<1>5. QED
    BY <1>4 DEF n

LEMMA HeaderRead ==
    ASSUME NEW params \in TxParams, NEW rest \in Seq(Byte), Len(rest) <= MESH_MAX_PAYLOAD - 16
    PROVE  LET frame == EncodeHeader(params) \o rest
           IN  /\ frame \in Seq(Byte) /\ Len(frame) = 16 + Len(rest)
               /\ HeaderParse(frame) =
                      [to |-> params.to, from |-> params.from, id |-> params.id,
                       hop_limit |-> params.hop_limit, hop_start |-> params.hop_start,
                       want_ack |-> params.want_ack,
                       channel |-> ChannelHash(ChannelName, ExpandPsk(params.key))]
               /\ SubSeq(frame, 17, Len(frame)) = rest
<1> DEFINE a == FourBytes(params.to)
           b == FourBytes(params.from)
           c == FourBytes(params.id)
           hash == ChannelHash(ChannelName, ExpandPsk(params.key))
           flags == Flags(params)
           d == <<flags, hash, 0, 0>>
           frame == (((a \o b) \o c) \o d) \o rest
<1>0. EncodeHeader(params) \o rest = frame
    BY DEF EncodeHeader
<1>1. /\ a \in Seq(Byte) /\ Len(a) = 4 /\ b \in Seq(Byte) /\ Len(b) = 4
      /\ c \in Seq(Byte) /\ Len(c) = 4
    BY SentHeader, FourBytesAreBytes
<1>2. hash \in Byte /\ flags \in Byte /\ 0 \in Byte
    <2>1. params.key \in 1 .. 255
        BY SentHeader
    <2>2. hash \in Byte
        BY <2>1, HashTellsKeys
    <2>3. 0 \in Byte
        BY SMT DEF Byte
    <2>4. QED
        BY <2>2, <2>3, FlagsRead
<1> HIDE DEF hash, flags
<1>3. d \in Seq(Byte) /\ Len(d) = 4 /\ d[1] = flags /\ d[2] = hash
    BY <1>2
<1> HIDE DEF a, b, c, d
<1>4. /\ frame \in Seq(Byte) /\ Len(frame) = 16 + Len(rest)
      /\ \A i \in 1 .. 4 : /\ frame[i] = a[i] /\ frame[4 + i] = b[i]
                           /\ frame[8 + i] = c[i] /\ frame[12 + i] = d[i]
      /\ \A i \in 1 .. Len(rest) : frame[16 + i] = rest[i]
    <2>1. IsLaid(frame, a, b, c, d, rest)
        BY <1>1, <1>3, PartsOfFrame
    <2> HIDE DEF frame
    <2>2. QED
        BY <2>1 DEF IsLaid
<1> HIDE DEF frame
<1>5. Len(rest) \in Nat /\ Len(frame) >= 16
    <2>1. Len(rest) \in Nat
        OBVIOUS
    <2>2. QED
        BY <1>4, <2>1, SMT
<1>6. FourByteValue(SubSeq(frame, 1, 4)) = params.to
    <2>1. FourAt(frame, 0, params.to)
        <3>1. \A i \in 1 .. 4 : 0 + i = i
            BY SMT
        <3>2. QED
            BY <1>4, <3>1 DEF a, FourAt
    <2> DEFINE v == params.to
    <2>a. 0 \in {0, 4, 8} /\ v \in Nat /\ v \div 65536 < 65536 /\ frame \in Seq(Byte) /\ Len(frame) >= 16
        BY <1>4, <1>5, SentHeader
    <2> HIDE DEF v
    <2>b. FourAt(frame, 0, v)
        BY <2>1 DEF v
    <2>c. FourByteValue(SubSeq(frame, 0 + 1, 0 + 4)) = v
        BY <2>a, <2>b, FourOfFrame
    <2>2. FourByteValue(SubSeq(frame, 0 + 1, 0 + 4)) = params.to
        BY <2>c DEF v
    <2>3. 0 + 1 = 1 /\ 0 + 4 = 4
        BY SMT
    <2>4. QED
        BY <2>2, <2>3
<1>7. FourByteValue(SubSeq(frame, 5, 8)) = params.from
    <2>1. FourAt(frame, 4, params.from)
        BY <1>4 DEF b, FourAt
    <2> DEFINE v == params.from
    <2>a. 4 \in {0, 4, 8} /\ v \in Nat /\ v \div 65536 < 65536 /\ frame \in Seq(Byte) /\ Len(frame) >= 16
        BY <1>4, <1>5, SentHeader
    <2> HIDE DEF v
    <2>b. FourAt(frame, 4, v)
        BY <2>1 DEF v
    <2>c. FourByteValue(SubSeq(frame, 4 + 1, 4 + 4)) = v
        BY <2>a, <2>b, FourOfFrame
    <2>2. FourByteValue(SubSeq(frame, 4 + 1, 4 + 4)) = params.from
        BY <2>c DEF v
    <2>3. 4 + 1 = 5 /\ 4 + 4 = 8
        BY SMT
    <2>4. QED
        BY <2>2, <2>3
<1>8. FourByteValue(SubSeq(frame, 9, 12)) = params.id
    <2>1. FourAt(frame, 8, params.id)
        BY <1>4 DEF c, FourAt
    <2> DEFINE v == params.id
    <2>a. 8 \in {0, 4, 8} /\ v \in Nat /\ v \div 65536 < 65536 /\ frame \in Seq(Byte) /\ Len(frame) >= 16
        BY <1>4, <1>5, SentHeader
    <2> HIDE DEF v
    <2>b. FourAt(frame, 8, v)
        BY <2>1 DEF v
    <2>c. FourByteValue(SubSeq(frame, 8 + 1, 8 + 4)) = v
        BY <2>a, <2>b, FourOfFrame
    <2>2. FourByteValue(SubSeq(frame, 8 + 1, 8 + 4)) = params.id
        BY <2>c DEF v
    <2>3. 8 + 1 = 9 /\ 8 + 4 = 12
        BY SMT
    <2>4. QED
        BY <2>2, <2>3
<1>9. frame[13] = flags /\ frame[14] = hash
    <2>1. 1 \in 1 .. 4 /\ 2 \in 1 .. 4 /\ 12 + 1 = 13 /\ 12 + 2 = 14
        BY SMT
    <2>2. frame[12 + 1] = d[1] /\ frame[12 + 2] = d[2]
        BY <1>4, <2>1
    <2>3. QED
        BY <1>3, <2>1, <2>2
<1>10. flags % 8 = params.hop_limit /\ flags \div 32 = params.hop_start
       /\ ((flags \div 8) % 2 = 1) = params.want_ack
    BY FlagsRead DEF flags
<1>11. HeaderParse(frame) =
          [to |-> params.to, from |-> params.from, id |-> params.id,
           hop_limit |-> params.hop_limit, hop_start |-> params.hop_start,
           want_ack |-> params.want_ack, channel |-> hash]
    BY <1>6, <1>7, <1>8, <1>9, <1>10, Zenon DEF HeaderParse
<1>12. SubSeq(frame, 17, Len(frame)) = rest
    <2> DEFINE n == Len(rest)
               part == SubSeq(frame, 17, Len(frame))
    <2>1. n \in Nat /\ Len(frame) = 16 + n
        BY <1>4, <1>5
    <2>2. /\ Len(part) = n
          /\ \A i \in 1 .. n : part[i] = frame[16 + i]
          /\ part \in Seq(Byte)
        <3> HIDE DEF n
        <3>1. frame \in Seq(Byte)
            BY <1>4
        <3>2. /\ Len(part) = IF 17 <= Len(frame) THEN Len(frame) - 17 + 1 ELSE 0
              /\ \A i \in 1 .. Len(frame) - 17 + 1 : part[i] = frame[17 + i - 1]
              /\ part \in Seq(Byte)
            BY <3>1, Tail17, Zenon
        <3>3. (IF 17 <= Len(frame) THEN Len(frame) - 17 + 1 ELSE 0) = n
            BY <2>1, SMT
        <3>4. \A i \in 1 .. n : i \in 1 .. Len(frame) - 17 + 1 /\ 17 + i - 1 = 16 + i
            BY <2>1, SMT
        <3> HIDE DEF part
        <3>5. QED
            BY <3>2, <3>3, <3>4
    <2> HIDE DEF part
    <2>3. \A i \in 1 .. n : part[i] = rest[i]
        BY <1>4, <2>2
    <2>4. part = rest
        BY <2>2, <2>3, SeqEqual DEF n
    <2>5. QED
        BY <2>4 DEF part
<1>13. QED
    BY <1>0, <1>4, <1>11, <1>12 DEF hash

LEMMA TextCarried ==
    ASSUME NEW params \in TxParams, NEW text \in Seq(Byte), Len(text) <= MaxTextLen
    PROVE  Carries(EncodeFrame(params, text), params, text)
<1> DEFINE plain == EncodeData(1, text)
           cipher == Xcrypt(ExpandPsk(params.key), params.id, params.from, plain)
           frame == EncodeHeader(params) \o cipher
           n == Len(text)
<1>1. n \in Nat /\ n <= 234 /\ n < 256 /\ MESH_MAX_PAYLOAD = 255 /\ MESH_HEADER_LEN = 16
    <2>1. MaxTextLen = 234 /\ MESH_MAX_PAYLOAD = 255 /\ MESH_HEADER_LEN = 16
        BY SMT DEF MaxTextLen, MESH_MAX_PAYLOAD, MESH_HEADER_LEN
    <2>2. n \in Nat
        OBVIOUS
    <2> HIDE DEF n
    <2>3. n <= 234
        BY <2>1 DEF n
    <2>4. n < 256
        BY <2>2, <2>3, SMT
    <2>5. QED
        BY <2>1, <2>2, <2>3, <2>4
<1>2. plain \in Seq(Byte) /\ Len(plain) \in Nat /\ Len(plain) <= 239
    <2> HIDE DEF plain
    <2>1. /\ plain \in Seq(Byte) /\ (text = <<>> => Len(plain) = 2)
          /\ (text # <<>> => Len(plain) = 3 + Len(Varint[n]) + n) /\ Len(Varint[n]) \in 1 .. 2
        BY <1>1, TextLength DEF plain
    <2> DEFINE v == Len(Varint[n])
    <2> HIDE DEF v, n
    <2>2. v \in 1 .. 2
        BY <2>1 DEF v
    <2>3. 3 + v + n <= 239 /\ 3 + v + n \in Nat
        BY <1>1, <2>2, SMT
    <2>4. text # <<>> => Len(plain) = 3 + v + n
        BY <2>1 DEF v
    <2>5. CASE text = <<>>
        <3>1. plain \in Seq(Byte) /\ Len(plain) = 2
            BY <2>1, <2>5, Zenon
        <3>2. QED
            BY <3>1
    <2>6. CASE text # <<>>
        BY <2>1, <2>3, <2>4, <2>6, SMT
    <2>7. QED
        BY <2>5, <2>6
<1>3. /\ params.key \in 1 .. 255 /\ params.id \in Nat /\ params.from \in Nat
    BY SentHeader
<1> HIDE DEF plain
<1>4. cipher \in Seq(Byte) /\ Len(cipher) = Len(plain)
    BY <1>2, <1>3, XcryptTwice
<1> HIDE DEF cipher
<1>5. Len(cipher) <= MESH_MAX_PAYLOAD - 16
    BY <1>1, <1>2, <1>4, SMT
<1>6. /\ frame \in Seq(Byte) /\ Len(frame) = 16 + Len(cipher)
      /\ HeaderParse(frame) =
             [to |-> params.to, from |-> params.from, id |-> params.id,
              hop_limit |-> params.hop_limit, hop_start |-> params.hop_start,
              want_ack |-> params.want_ack,
              channel |-> ChannelHash(ChannelName, ExpandPsk(params.key))]
      /\ SubSeq(frame, 17, Len(frame)) = cipher
    BY <1>4, <1>5, HeaderRead
<1>7. EncodeFrame(params, text) = frame
    <2>1. ~(MESH_HEADER_LEN + Len(plain) > MESH_MAX_PAYLOAD)
        BY <1>1, <1>2, SMT
    <2>2. QED
        BY <2>1 DEF EncodeFrame, plain, cipher
<1> HIDE DEF frame
<1>8. Len(frame) \in 16 .. MESH_MAX_PAYLOAD /\ MESH_HEADER_LEN + 1 = 17
    <2> DEFINE k == Len(frame)
               q == Len(plain)
    <2>1. k = 16 + q /\ q \in Nat /\ q <= 239
        BY <1>2, <1>4, <1>6
    <2> HIDE DEF k, q
    <2>2. k \in 16 .. 255 /\ 16 + 1 = 17
        BY <2>1, SMT
    <2>3. QED
        BY <1>1, <2>2 DEF k
<1>9. DOMAIN params \ {"key"} = {"to", "from", "id", "hop_limit", "hop_start", "want_ack"}
    BY SentHeader
<1>10. \A h \in DOMAIN params \ {"key"} : HeaderParse(frame)[h] = params[h]
    BY <1>6, <1>9
<1>11. /\ HeaderParse(frame).id = params.id /\ HeaderParse(frame).from = params.from
       /\ HeaderParse(frame).channel = ChannelHash(ChannelName, ExpandPsk(params.key))
    BY <1>6
<1>12. QED
    BY <1>6, <1>7, <1>8, <1>10, <1>11 DEF Carries, cipher, plain

LEMMA TextOpened ==
    ASSUME NEW params \in TxParams, NEW text \in Seq(Byte), Len(text) <= MaxTextLen
    PROVE  LET got == DecodeFrame(EncodeFrame(params, text), params.key)
           IN  /\ got.result = "OK" /\ got.data.payload = text
               /\ \A h \in DOMAIN params \ {"key"} : got.header[h] = params[h]
<1> DEFINE frame == EncodeFrame(params, text)
           key    == ExpandPsk(params.key)
           plain  == EncodeData(1, text)
           cipher == SubSeq(frame, MESH_HEADER_LEN + 1, Len(frame))
           data   == MeshDataParse(plain)
           got    == DecodeFrame(frame, params.key)
           header == HeaderParse(frame)
<1>1. Carries(frame, params, text)
    BY TextCarried
<1>2. data.ok /\ data.portnum = 1 /\ data.payload = text /\ plain \in Seq(Byte)
    <2>1. Len(text) < 256
        <3>1. MaxTextLen = 234 /\ Len(text) \in Nat
            BY SMT DEF MaxTextLen, MESH_MAX_PAYLOAD, MESH_HEADER_LEN
        <3>2. QED
            BY <3>1, SMT
    <2>2. QED
        BY <2>1, TextDecoded, TextLength
<1>3. params.key \in 1 .. 255 /\ params.id \in Nat /\ params.from \in Nat
    BY SentHeader
<1> HIDE DEF frame, data, plain
<1>4. /\ Len(frame) \in 16 .. MESH_MAX_PAYLOAD
      /\ \A h \in DOMAIN params \ {"key"} : header[h] = params[h]
      /\ header.id = params.id /\ header.from = params.from
      /\ header.channel = ChannelHash(ChannelName, key)
      /\ cipher = Xcrypt(key, params.id, params.from, plain)
    BY <1>1 DEF Carries, plain
<1>5. Xcrypt(key, params.id, params.from, cipher) = plain
    <2>1. Xcrypt(key, params.id, params.from, Xcrypt(key, params.id, params.from, plain)) = plain
        <3>1. plain \in Seq(Byte)
            BY <1>2
        <3> HIDE DEF cipher
        <3>2. QED
            BY <1>3, <3>1, XcryptTwice, Zenon
    <2> HIDE DEF cipher, key
    <2>2. QED
        BY <1>4, <2>1
<1> HIDE DEF header, cipher, key
<1>6. ~(Len(frame) < MESH_HEADER_LEN \/ Len(frame) - MESH_HEADER_LEN > MESH_MAX_PAYLOAD)
    <2>1. MESH_HEADER_LEN = 16 /\ MESH_MAX_PAYLOAD = 255
        BY DEF MESH_HEADER_LEN, MESH_MAX_PAYLOAD
    <2> DEFINE k == Len(frame)
    <2>2. k \in 16 .. 255
        BY <1>4, <2>1
    <2> HIDE DEF k
    <2>3. ~(k < 16 \/ k - 16 > 255)
        BY <2>2, SMT
    <2>4. QED
        BY <2>1, <2>3 DEF k
<1>7. got = Opened(header, MeshDataParse(Xcrypt(key, header.id, header.from, cipher)))
    BY <1>4, <1>6, Zenon DEF DecodeFrame, header, cipher, key
<1>8. got = Opened(header, data)
    BY <1>4, <1>5, <1>7 DEF data
<1> HIDE DEF got
<1>9. got = [result |-> "OK", header |-> header, data |-> data]
    BY <1>2, <1>8 DEF Opened
<1>10. QED
    BY <1>2, <1>4, <1>9 DEF got, frame

LEMMA TextNotOpened ==
    ASSUME NEW params \in TxParams, NEW other \in TxParams, other.key # params.key,
           NEW text \in Seq(Byte), Len(text) <= MaxTextLen
    PROVE  DecodeFrame(EncodeFrame(params, text), other.key).result = "CHANNEL_MISMATCH"
<1> DEFINE frame == EncodeFrame(params, text)
           header == HeaderParse(frame)
<1>1. Carries(frame, params, text)
    BY TextCarried
<1> HIDE DEF frame
<1>2. /\ Len(frame) \in 16 .. MESH_MAX_PAYLOAD
      /\ header.channel = ChannelHash(ChannelName, ExpandPsk(params.key))
    BY <1>1 DEF Carries
<1>3. ChannelHash(ChannelName, ExpandPsk(params.key)) # ChannelHash(ChannelName, ExpandPsk(other.key))
    <2>1. params.key \in 1 .. 255 /\ other.key \in 1 .. 255
        BY SentHeader
    <2>2. QED
        BY <2>1, HashTellsKeys
<1> HIDE DEF header
<1>4. ~(Len(frame) < MESH_HEADER_LEN \/ Len(frame) - MESH_HEADER_LEN > MESH_MAX_PAYLOAD)
    <2>1. MESH_HEADER_LEN = 16 /\ MESH_MAX_PAYLOAD = 255
        BY DEF MESH_HEADER_LEN, MESH_MAX_PAYLOAD
    <2> DEFINE k == Len(frame)
    <2>2. k \in 16 .. 255
        BY <1>2, <2>1
    <2> HIDE DEF k
    <2>3. ~(k < 16 \/ k - 16 > 255)
        BY <2>2, SMT
    <2>4. QED
        BY <2>1, <2>3 DEF k
<1>5. header.channel # ChannelHash(ChannelName, ExpandPsk(other.key))
    BY <1>2, <1>3
<1>6. DecodeFrame(frame, other.key) = [result |-> "CHANNEL_MISMATCH", header |-> header]
    BY <1>4, <1>5, Zenon DEF DecodeFrame, header
<1>7. QED
    BY <1>6 DEF frame

LEMMA LongestText ==
    ASSUME NEW params \in TxParams, NEW n \in {MaxTextLen, MaxTextLen + 1}
    PROVE  EncodeFrame(params, [i \in 1 .. n |-> 65]) # <<>> <=> n <= MaxTextLen
<1> DEFINE text == [i \in 1 .. n |-> 65]
           plain == EncodeData(1, text)
<1>1. MaxTextLen = 234 /\ MESH_HEADER_LEN = 16 /\ MESH_MAX_PAYLOAD = 255
    BY SMT DEF MaxTextLen, MESH_MAX_PAYLOAD, MESH_HEADER_LEN
<1>2. n \in {234, 235} /\ n \in Nat
    BY <1>1, SMT
<1>3. text \in Seq(Byte) /\ Len(text) = n
    <2>1. 65 \in Byte
        BY SMT DEF Byte
    <2>2. QED
        BY <1>2, <2>1
<1> HIDE DEF text
<1>4. CASE n = 234
    <2>1. Len(text) <= MaxTextLen
        BY <1>1, <1>3, <1>4
    <2>2. Carries(EncodeFrame(params, text), params, text)
        BY <1>3, <2>1, TextCarried
    <2>3. Len(EncodeFrame(params, text)) \in 16 .. 255
        BY <1>1, <2>2 DEF Carries
    <2>4. EncodeFrame(params, text) # <<>>
        <3>1. Len(<<>>) = 0 /\ 0 \notin 16 .. 255
            BY SMT
        <3>2. QED
            BY <2>3, <3>1
    <2>5. QED
        BY <1>1, <1>4, <2>4 DEF text
<1>5. CASE n = 235
    <2>1. text # <<>> /\ Len(text) < 256 /\ 128 <= Len(text)
        <3>1. Len(<<>>) = 0 /\ Len(text) = 235
            BY <1>3, <1>5
        <3>2. QED
            BY <3>1
    <2>2. Len(plain) = 3 + Len(Varint[Len(text)]) + Len(text) /\ Len(Varint[Len(text)]) = 2
        BY <1>3, <2>1, TextLength
    <2> HIDE DEF plain
    <2>3. Len(plain) = 240
        BY <1>3, <1>5, <2>2
    <2>4. MESH_HEADER_LEN + Len(plain) > MESH_MAX_PAYLOAD
        BY <1>1, <2>3
    <2>5. EncodeFrame(params, text) = <<>>
        BY <2>4 DEF EncodeFrame, plain
    <2>6. QED
        BY <1>1, <1>5, <2>5 DEF text
<1>6. QED
    BY <1>2, <1>4, <1>5

(* A text of any bytes comes out of a frame as it went in, with its        *)
(* header, to who has the key, and to no other key index; and the longest  *)
(* text announced is the longest that fits (mesh_encode.c:128,             *)
(* mesh_decode.c:33).                                                      *)
THEOREM TextsAlwaysRoundTrip == CodecSpec => []TextRoundTrip
<1>1. ASSUME CodecInv PROVE TextRoundTrip
    <2>1. buf \in Seq(Byte)
        BY <1>1 DEF CodecInv, Holds
    <2>2. ASSUME Len(buf) <= MaxTextLen, NEW params \in TxParams
          PROVE  LET frame == EncodeFrame(params, buf)
                     got   == DecodeFrame(frame, params.key)
                 IN  /\ got.result = "OK"
                     /\ got.data.payload = buf
                     /\ \A h \in DOMAIN params \ {"key"} : got.header[h] = params[h]
                     /\ \A other \in TxParams :
                            other.key # params.key =>
                                DecodeFrame(frame, other.key).result = "CHANNEL_MISMATCH"
        <3>1. \A other \in TxParams :
                  other.key # params.key =>
                      DecodeFrame(EncodeFrame(params, buf), other.key).result = "CHANNEL_MISMATCH"
            BY <2>1, <2>2, TextNotOpened
        <3>2. QED
            BY <2>1, <2>2, <3>1, TextOpened
    <2>3. QED
        BY <2>2, LongestText DEF TextRoundTrip
<1>2. QED
    BY <1>1, CodecAlways, PTL

-----------------------------------------------------------------------------
(* Messages in messages *)

\* A field of a message at some depth was offered there, or holds a message of T.
Placed(field, d, T) ==
    \/ field \in Offered[d + 1]
    \/ d # 0 /\ field.num = WrapIn[d] /\ <<field.inner, field.bytes, d - 1>> \in T

\* Messages with their bytes and depth, and with each the messages in it.
Closed(T) ==
    \A t \in T : /\ Holds(t[1], t[2]) /\ t[3] \in 0 .. Len(WrapIn)
                 /\ \A i \in 1 .. Len(t[1]) : Placed(t[1][i], t[3], T)

NestInv == \E T : Closed(T) /\ <<sent, buf, depth>> \in T

LEMMA NestInitially == CodecInit => NestInv
<1> SUFFICES ASSUME CodecInit PROVE NestInv
    OBVIOUS
<1> DEFINE T == {<<(<<>>), (<<>>), 0>>}
<1>1. CodecInv
    BY CodecInitially
<1>2. sent = <<>> /\ buf = <<>> /\ depth = 0
    BY DEF CodecInit
<1>3. Len(<<>>) = 0 /\ 1 .. 0 = {}
    BY SMT
<1>4. Closed(T)
    <2> SUFFICES ASSUME NEW t \in T
                 PROVE  /\ Holds(t[1], t[2]) /\ t[3] \in 0 .. Len(WrapIn)
                        /\ \A i \in 1 .. Len(t[1]) : Placed(t[1][i], t[3], T)
        BY Zenon DEF Closed
    <2>1. t[1] = <<>> /\ t[2] = <<>> /\ t[3] = 0
        OBVIOUS
    <2>2. Holds(<<>>, <<>>) /\ 0 \in 0 .. Len(WrapIn)
        BY <1>1, <1>2 DEF CodecInv
    <2> HIDE DEF T
    <2>3. QED
        BY <1>3, <2>1, <2>2
<1>5. <<sent, buf, depth>> \in T
    BY <1>2
<1> HIDE DEF T
<1>6. QED
    BY <1>4, <1>5 DEF NestInv

\* One more message, all of whose fields have their place.
LEMMA NestGrows ==
    ASSUME NEW T, Closed(T), NEW message, NEW bytes, NEW d \in 0 .. Len(WrapIn), Holds(message, bytes),
           \A i \in 1 .. Len(message) : Placed(message[i], d, T)
    PROVE  \E U : Closed(U) /\ <<message, bytes, d>> \in U
<1> DEFINE new == <<message, bytes, d>>
           U == T \cup {new}
<1>1. ASSUME NEW field, NEW e, Placed(field, e, T) PROVE Placed(field, e, U)
    BY <1>1 DEF Placed
<1>2. new[1] = message /\ new[2] = bytes /\ new[3] = d /\ new \in U
    OBVIOUS
<1> HIDE DEF new
<1>3. Closed(U)
    <2> SUFFICES ASSUME NEW t \in U
                 PROVE  /\ Holds(t[1], t[2]) /\ t[3] \in 0 .. Len(WrapIn)
                        /\ \A i \in 1 .. Len(t[1]) : Placed(t[1][i], t[3], U)
        BY Zenon DEF Closed
    <2>1. CASE t \in T
        <3>1. /\ Holds(t[1], t[2]) /\ t[3] \in 0 .. Len(WrapIn)
              /\ \A i \in 1 .. Len(t[1]) : Placed(t[1][i], t[3], T)
            BY <2>1, Zenon DEF Closed
        <3> HIDE DEF U
        <3>2. QED
            BY <1>1, <3>1
    <2>2. CASE t = new
        <3> HIDE DEF U
        <3>1. QED
            BY <1>1, <1>2, <2>2
    <2>3. QED
        BY <2>1, <2>2
<1>4. QED
    BY <1>2, <1>3, Zenon DEF new

LEMMA NestStep == CodecInv /\ CodecInv' /\ NestInv /\ [CodecNext]_codecVars => NestInv'
<1> SUFFICES ASSUME CodecInv, CodecInv', NestInv, [CodecNext]_codecVars PROVE NestInv'
    OBVIOUS
<1>1. PICK T : Closed(T) /\ <<sent, buf, depth>> \in T
    BY DEF NestInv
<1>2. /\ Holds(sent, buf) /\ depth \in 0 .. Len(WrapIn)
      /\ \A i \in 1 .. Len(sent) : Placed(sent[i], depth, T)
    <2> DEFINE t == <<sent, buf, depth>>
    <2>1. t \in T /\ t[1] = sent /\ t[2] = buf /\ t[3] = depth
        BY <1>1
    <2> HIDE DEF t
    <2>2. /\ Holds(t[1], t[2]) /\ t[3] \in 0 .. Len(WrapIn)
          /\ \A i \in 1 .. Len(t[1]) : Placed(t[1][i], t[3], T)
        BY <1>1, <2>1, Zenon DEF Closed
    <2>3. QED
        BY <2>1, <2>2
<1>3. Holds(sent', buf') /\ depth' \in 0 .. Len(WrapIn)
    BY DEF CodecInv
<1>4. ASSUME NEW field \in Offered[depth + 1], AddField(field) PROVE NestInv'
    <2>1. sent' = Append(sent, field) /\ depth' = depth
        BY <1>4 DEF AddField
    <2>2. PICK S : sent \in Seq(S)
        BY <1>2 DEF Holds, IsList
    <2>3. \A i \in 1 .. Len(sent') : sent'[i] = field \/ (i \in 1 .. Len(sent) /\ sent'[i] = sent[i])
        <3>1. sent \in Seq(S \cup {field})
            BY <2>2
        <3>2. /\ Len(sent') = Len(sent) + 1 /\ Len(sent) \in Nat /\ sent'[Len(sent) + 1] = field
              /\ \A i \in 1 .. Len(sent) : sent'[i] = sent[i]
            BY <2>1, <3>1, AppendProperties
        <3>3. \A i \in 1 .. Len(sent) + 1 : i = Len(sent) + 1 \/ i \in 1 .. Len(sent)
            BY <3>2, SMT
        <3>4. QED
            BY <3>2, <3>3
    <2>4. Placed(field, depth, T)
        BY <1>4, Zenon DEF Placed
    <2>5. \A i \in 1 .. Len(sent') : Placed(sent'[i], depth', T)
        BY <1>2, <2>1, <2>3, <2>4
    <2>6. \E U : Closed(U) /\ <<sent', buf', depth'>> \in U
        BY <1>1, <1>3, <2>5, NestGrows
    <2>7. QED
        BY <2>6 DEF NestInv, Closed, Placed, Holds, LaidOut, IsList
<1>5. CASE Wrap
    <2> DEFINE field == Wrapped(WrapIn[depth + 1], buf, sent)
    <2>1. depth' = depth + 1 /\ sent' = <<field>>
        BY <1>5 DEF Wrap, Wrapped
    <2>2. field.num = WrapIn[depth + 1] /\ field.bytes = buf /\ field.inner = sent
        BY WrappedFields
    <2> HIDE DEF field
    <2>3. Len(sent') = 1 /\ sent'[1] = field /\ \A i \in 1 .. 1 : i = 1
        BY <2>1
    <2>4. depth' # 0 /\ depth' - 1 = depth
        BY <1>2, <2>1, SMT
    <2>5. Placed(field, depth', T)
        BY <1>1, <2>1, <2>2, <2>4 DEF Placed
    <2>6. \A i \in 1 .. Len(sent') : Placed(sent'[i], depth', T)
        BY <2>3, <2>5
    <2>7. \E U : Closed(U) /\ <<sent', buf', depth'>> \in U
        BY <1>1, <1>3, <2>6, NestGrows
    <2>8. QED
        BY <2>7 DEF NestInv, Closed, Placed, Holds, LaidOut, IsList
<1>6. CASE UNCHANGED codecVars
    <2>1. sent' = sent /\ buf' = buf /\ depth' = depth
        BY <1>6 DEF codecVars
    <2>2. <<sent', buf', depth'>> \in T
        BY <1>1, <2>1
    <2>3. QED
        BY <1>1, <2>2 DEF NestInv, Closed, Placed, Holds, LaidOut, IsList
<1>7. QED
    BY <1>4, <1>5, <1>6 DEF CodecNext

LEMMA NestAlways == CodecSpec => []NestInv
BY NestInitially, NestStep, CodecAlways, PTL DEF CodecSpec

-----------------------------------------------------------------------------
(* The request *)

LEMMA ScanBytesRead ==
    ASSUME NEW message, NEW b, Holds(message, b), NEW num
    PROVE  ScanBytes(b, num) = {f.bytes : f \in LastField(message, num, {WIRE_LEN})}
<1> DEFINE found == LastField(Walk(b).fields, num, {WIRE_LEN})
           meant == LastField(message, num, {WIRE_LEN})
<1>1. Walk(b).ok
    BY WalkOfMessage DEF WalksAs
<1>2. ScanBytes(b, num) = {Content(b, f) : f \in found}
    BY <1>1 DEF ScanBytes
<1>3. LastRead(found, meant, message, num, {WIRE_LEN}, b)
    BY LastFieldRead
<1> HIDE DEF found, meant
<1>4. \/ found = {} /\ meant = {}
      \/ \E f, m : found = {f} /\ meant = {m} /\ Content(b, f) = m.bytes
    BY <1>3, WireTypes DEF LastRead, IsRead
<1>5. {Content(b, f) : f \in found} = {f.bytes : f \in meant}
    BY <1>4
<1>6. QED
    BY <1>2, <1>5 DEF meant

LEMMA ScanValueRead ==
    ASSUME NEW message, NEW b, Holds(message, b), NEW num
    PROVE  ScanValue(b, num) = Meant(message, num, {WIRE_VARINT, WIRE_FIXED32})
<1> DEFINE wires == {WIRE_VARINT, WIRE_FIXED32}
           found == LastField(Walk(b).fields, num, wires)
           meant == LastField(message, num, wires)
           Value(f) == IF f.wire = WIRE_VARINT THEN f.value ELSE FourByteValue(Content(b, f))
<1>1. Walk(b).ok
    BY WalkOfMessage DEF WalksAs
<1>2. ScanValue(b, num) = {Value(f) : f \in found}
    BY <1>1 DEF ScanValue
<1>3. LastRead(found, meant, message, num, wires, b)
    BY LastFieldRead
<1>4. ASSUME NEW f, NEW m, m.wire \in wires, Writable(m), NEW pos, IsRead(f, m, b, pos)
      PROVE  Value(f) = m.value
    <2>1. f.wire = m.wire
        BY <1>4 DEF IsRead
    <2>2. CASE m.wire = 0
        BY <1>4, <2>1, <2>2, WireTypes DEF IsRead
    <2>3. CASE m.wire = 5
        <3>1. Content(b, f) = FourBytes(m.value)
            BY <1>4, <2>3 DEF IsRead
        <3>2. m.value \in Nat /\ m.value \div 65536 < 65536
            BY <1>4, <2>3, WireTypes DEF Writable
        <3>3. FourByteValue(FourBytes(m.value)) = m.value
            BY <3>2, FourBytesValue
        <3>4. f.wire # WIRE_VARINT
            BY <2>1, <2>3, WireTypes
        <3>5. QED
            BY <3>1, <3>3, <3>4
    <2>4. QED
        BY <1>4, <2>2, <2>3, WireTypes
<1> HIDE DEF found, meant, wires, Value
<1>5. \/ found = {} /\ meant = {}
      \/ \E f, m : found = {f} /\ meant = {m} /\ Value(f) = m.value
    <2>1. CASE found = {} /\ meant = {}
        BY <2>1
    <2>2. ASSUME NEW f, NEW m, found = {f}, meant = {m}, m.wire \in wires, Writable(m),
                 \E pos \in 1 .. Len(b) : IsRead(f, m, b, pos)
          PROVE  \E g, h : found = {g} /\ meant = {h} /\ Value(g) = h.value
        BY <1>4, <2>2
    <2>3. QED
        BY <1>3, <2>1, <2>2, Zenon DEF LastRead
<1>6. {Value(f) : f \in found} = {f.value : f \in meant}
    BY <1>5
<1>7. QED
    BY <1>2, <1>6 DEF meant, wires, Meant

\* The number of a message's first field is found, and 0 if it has none.
LEMMA FirstFieldRead ==
    ASSUME NEW message, NEW b, Holds(message, b)
    PROVE  IF message = <<>> THEN b = <<>> ELSE FirstField(b) = message[1].num /\ message[1].num # 0
<1>1. b \in Seq(Byte) /\ IsList(message) /\ Len(message) \in Nat /\ DOMAIN message = 1 .. Len(message)
    BY ListLen DEF Holds
<1>2. PICK end : LaidOut(message, b, end)
    BY DEF Holds
<1>3. CASE message = <<>>
    <2>1. Len(message) = 0
        BY <1>3
    <2>2. Len(b) = 0
        BY <1>2, <2>1 DEF LaidOut
    <2>3. QED
        BY <1>1, <1>3, <2>2, EmptySeq
<1>4. CASE message # <<>>
    <2>1. Len(message) # 0
        <3>1. PICK S : message \in Seq(S)
            BY <1>1 DEF IsList
        <3>2. QED
            BY <1>4, <3>1, EmptySeq
    <2>2. 1 \in 1 .. Len(message) /\ 1 - 1 = 0
        BY <1>1, <2>1, SMT
    <2> DEFINE field == message[1]
               tag   == 8 * field.num + field.wire
    <2>3. end[0] = 0 /\ Writable(field) /\ At(b, end[0] + 1, Encoded(field))
        BY <1>2, <2>2 DEF LaidOut
    <2> HIDE DEF field
    <2>4. At(b, 1, Encoded(field))
        BY <2>3
    <2>5. /\ Encoded(field) = Varint[tag] \o Behind(field) /\ tag \in Nat /\ Varint[tag] \in Seq(Byte)
          /\ Behind(field) \in Seq(Byte)
        BY <2>3, EncodedIsTagged, BehindTypes
    <2>6. At(b, 1, Varint[tag])
        BY <1>1, <2>4, <2>5, AtParts
    <2>7. /\ field.num \in Nat /\ field.num # 0 /\ field.wire \in {0, 1, 2, 5}
          /\ 8 * field.num + 7 < TwoTo[WORD_BITS]
        BY <2>3, WireTypes DEF Writable
    <2>8. TwoTo[WORD_BITS] <= TwoTo[VARINT_BITS] /\ TwoTo[WORD_BITS] \in Nat /\ TwoTo[VARINT_BITS] \in Nat
        <3>1. WORD_BITS \in Nat /\ VARINT_BITS \in Nat /\ WORD_BITS <= VARINT_BITS
            BY BitsAssumption, SMT
        <3>2. QED
            BY <3>1, TwoToGrows, TwoToPositive
    <2>9. tag < TwoTo[VARINT_BITS] /\ tag \div 8 = field.num
        BY <2>7, <2>8, TagNumbers
    <2>10. 1 \in 1 .. Len(b) + 1
        BY <1>1, SMT
    <2> HIDE DEF tag
    <2>11. ReadVarint(b, 1) = [ok |-> TRUE, value |-> tag, next |-> 1 + Len(Varint[tag])]
        BY <1>1, <2>5, <2>6, <2>9, <2>10, ReadVarintAt
    <2>12. Word(tag \div 8) = field.num
        <3>1. field.num < TwoTo[WORD_BITS]
            BY <2>7, <2>8, SMT
        <3>2. field.num % TwoTo[WORD_BITS] = field.num
            BY <2>7, <2>8, <3>1, SmallModulo
        <3>3. QED
            BY <2>9, <3>2 DEF Word
    <2>13. FirstField(b) = field.num
        BY <2>11, <2>12 DEF FirstField
    <2>14. QED
        BY <1>4, <2>7, <2>13 DEF field
<1>5. QED
    BY <1>3, <1>4

LEMMA NoFirstField == FirstField(<<>>) = 0
<1> DEFINE ends == {i \in 1 .. Len(<<>>) : <<>>[i] < Group}
<1>1. ends = {}
    <2>1. Len(<<>>) = 0 /\ 1 .. 0 = {}
        BY SMT
    <2>2. QED
        BY <2>1
<1>2. ~ReadVarint(<<>>, 1).ok
    <2>1. ReadVarint(<<>>, 1) = Malformed
        BY <1>1 DEF ReadVarint
    <2>2. QED
        BY <2>1 DEF Malformed
<1>3. QED
    BY <1>2 DEF FirstField

LEMMA WithinOne ==
    ASSUME NEW b, NEW num
    PROVE  /\ Within({b}, ScanBytes, num) = ScanBytes(b, num)
           /\ Within({b}, ScanValue, num) = ScanValue(b, num)
           /\ Within({}, ScanBytes, num) = {}
           /\ Within({}, ScanValue, num) = {}
BY DEF Within

LEMMA InnerOfOne ==
    ASSUME NEW m, NEW num
    PROVE  /\ Inner({m}, num) = {f.inner : f \in LastField(m, num, {WIRE_LEN})}
           /\ MeantWithin({m}, num) = Meant(m, num, {WIRE_VARINT, WIRE_FIXED32})
           /\ Inner({}, num) = {}
           /\ MeantWithin({}, num) = {}
BY DEF Inner, MeantWithin

\* What is found in a field that only holds messages, and the message put there.
Entered(found, meant, d, num, T) ==
    \/ found = {} /\ meant = {}
    \/ /\ d # 0 /\ WrapIn[d] = num
       /\ \E m, b : found = {b} /\ meant = {m} /\ <<m, b, d - 1>> \in T

LEMMA InT ==
    ASSUME NEW T, Closed(T), NEW m, NEW b, NEW d, <<m, b, d>> \in T
    PROVE  /\ Holds(m, b) /\ d \in 0 .. Len(WrapIn)
           /\ \A i \in 1 .. Len(m) : Placed(m[i], d, T)
<1> DEFINE t == <<m, b, d>>
<1>1. t \in T /\ t[1] = m /\ t[2] = b /\ t[3] = d
    OBVIOUS
<1> HIDE DEF t
<1>2. /\ Holds(t[1], t[2]) /\ t[3] \in 0 .. Len(WrapIn)
      /\ \A i \in 1 .. Len(t[1]) : Placed(t[1][i], t[3], T)
    BY <1>1, Zenon DEF Closed
<1>3. QED
    BY <1>1, <1>2

LEMMA Enter ==
    ASSUME NEW T, Closed(T), NEW m, NEW b, NEW d, <<m, b, d>> \in T, NEW num,
           \A field \in Offered[d + 1] : field.wire = WIRE_LEN => field.num # num
    PROVE  Entered(ScanBytes(b, num), Inner({m}, num), d, num, T)
<1> DEFINE found == LastField(Walk(b).fields, num, {WIRE_LEN})
           meant == LastField(m, num, {WIRE_LEN})
<1>1. Holds(m, b) /\ \A i \in 1 .. Len(m) : Placed(m[i], d, T)
    BY InT
<1>2. ScanBytes(b, num) = {f.bytes : f \in meant} /\ Inner({m}, num) = {f.inner : f \in meant}
    BY <1>1, ScanBytesRead, InnerOfOne
<1>3. LastRead(found, meant, m, num, {WIRE_LEN}, b)
    BY <1>1, LastFieldRead
<1> HIDE DEF found, meant
<1>4. CASE meant = {}
    <2>1. ScanBytes(b, num) = {} /\ Inner({m}, num) = {}
        BY <1>2, <1>4
    <2>2. QED
        BY <2>1 DEF Entered
<1>5. CASE meant # {}
    <2>1. PICK f : meant = {f} /\ f.num = num /\ f.wire = WIRE_LEN /\ Placed(f, d, T)
        BY <1>1, <1>3, <1>5, Zenon DEF LastRead
    <2>2. d # 0 /\ WrapIn[d] = num /\ <<f.inner, f.bytes, d - 1>> \in T
        BY <2>1, Zenon DEF Placed
    <2>3. ScanBytes(b, num) = {f.bytes} /\ Inner({m}, num) = {f.inner}
        BY <1>2, <2>1
    <2>4. QED
        BY <2>2, <2>3, Zenon DEF Entered
<1>6. QED
    BY <1>4, <1>5

\* What a sender meant, of two fields at most one of which is there.
LEMMA OneMeant ==
    ASSUME NEW m, NEW num
    PROVE  \/ MeantWithin({m}, num) = {}
           \/ \E x : MeantWithin({m}, num) = {x}
<1> DEFINE found == LastField(m, num, {WIRE_VARINT, WIRE_FIXED32})
<1>1. found = {} \/ \E f : found = {f}
    BY DEF LastField
<1>2. MeantWithin({m}, num) = {f.value : f \in found}
    BY InnerOfOne DEF Meant
<1> HIDE DEF found
<1>3. CASE found = {}
    BY <1>2, <1>3
<1>4. ASSUME NEW f, found = {f} PROVE MeantWithin({m}, num) = {f.value}
    BY <1>2, <1>4
<1>5. QED
    BY <1>1, <1>3, <1>4

Wanted(values) == values \notin {{}, {0}}

LEMMA WantedRead ==
    ASSUME NEW values, values = {} \/ \E x : values = {x}
    PROVE  (OrElse(values, 0) # 0) = Wanted(values)
<1>1. CASE values = {}
    BY <1>1 DEF OrElse, Wanted
<1>2. ASSUME NEW x, values = {x} PROVE (OrElse(values, 0) # 0) = Wanted(values)
    <2>1. OrElse({x}, 0) = x
        BY OneOf DEF OrElse
    <2>2. Wanted({x}) = (x # 0)
        BY DEF Wanted
    <2>3. QED
        BY <1>2, <2>1, <2>2
<1>3. QED
    BY <1>1, <1>2

\* The request meant, by the packet, its Data and the message in it.
RequestMeant(packet, data, payload) ==
    IF payload = <<>> \/ MeantWithin(data, 1) # {6} THEN NothingAsked
    ELSE [admin_field   |-> payload[1].num,
          want_response |-> Wanted(MeantWithin(data, 3)),
          packet_id     |-> Word(OrElse(MeantWithin(packet, 6), 0)),
          from          |-> Word(OrElse(MeantWithin(packet, 1), 0))]

LEMMA NothingIn ==
    ASSUME NEW packet, NEW data, OrElse(Within(data, ScanBytes, 2), <<>>) = <<>>
    PROVE  RequestIn(packet, data) = NothingAsked
BY NoFirstField DEF RequestIn

LEMMA RequestRead ==
    ASSUME NEW m1, NEW b1, NEW m2, NEW b2, NEW m3, NEW b3, Holds(m1, b1), Holds(m2, b2), Holds(m3, b3),
           ScanBytes(b2, 2) = {b3}
    PROVE  RequestIn({b1}, {b2}) = RequestMeant({m1}, {m2}, m3)
<1>1. /\ Within({b2}, ScanValue, 1) = MeantWithin({m2}, 1)
      /\ Within({b2}, ScanValue, 3) = MeantWithin({m2}, 3)
      /\ Within({b1}, ScanValue, 6) = MeantWithin({m1}, 6)
      /\ Within({b1}, ScanValue, 1) = MeantWithin({m1}, 1)
    <2>1. ASSUME NEW m, NEW b, Holds(m, b), NEW num
          PROVE  Within({b}, ScanValue, num) = MeantWithin({m}, num)
        <3>1. Within({b}, ScanValue, num) = ScanValue(b, num)
            BY WithinOne
        <3>2. MeantWithin({m}, num) = Meant(m, num, {WIRE_VARINT, WIRE_FIXED32})
            BY InnerOfOne
        <3>3. QED
            BY <2>1, <3>1, <3>2, ScanValueRead
    <2>2. QED
        BY <2>1
<1>2. OrElse(Within({b2}, ScanBytes, 2), <<>>) = b3
    BY WithinOne, OneOf DEF OrElse
<1>3. CASE m3 = <<>>
    <2>1. b3 = <<>>
        BY <1>3, FirstFieldRead
    <2>2. QED
        BY <1>2, <1>3, <2>1, NothingIn DEF RequestMeant
<1>4. CASE m3 # <<>>
    <2>1. FirstField(b3) = m3[1].num /\ m3[1].num # 0
        BY <1>4, FirstFieldRead
    <2>2. (OrElse(MeantWithin({m2}, 3), 0) # 0) = Wanted(MeantWithin({m2}, 3))
        BY OneMeant, WantedRead
    <2> DEFINE port == MeantWithin({m2}, 1)
               want == MeantWithin({m2}, 3)
    <2>3. RequestIn({b1}, {b2}) =
              IF port # {6} \/ m3[1].num = 0 THEN NothingAsked
              ELSE [admin_field   |-> m3[1].num,
                    want_response |-> OrElse(want, 0) # 0,
                    packet_id     |-> Word(OrElse(MeantWithin({m1}, 6), 0)),
                    from          |-> Word(OrElse(MeantWithin({m1}, 1), 0))]
        BY <1>1, <1>2, <2>1, Zenon DEF RequestIn
    <2> HIDE DEF port, want
    <2>4. QED
        BY <1>4, <2>1, <2>2, <2>3, Zenon DEF RequestMeant, port, want
<1>5. QED
    BY <1>3, <1>4

(* The admin request found three messages deep is the one that was put     *)
(* there, and none is found where none was: whatever else the messages     *)
(* hold, and however deep they are (phone_encode.c:312).                   *)
THEOREM AdminAlwaysDecodedAsSent == CodecSpec => []AdminDecodedAsSent
<1>1. ASSUME NestInv PROVE AdminDecodedAsSent
    <2>1. PICK T : Closed(T) /\ <<sent, buf, depth>> \in T
        BY <1>1 DEF NestInv
    <2> DEFINE packet  == Inner({sent}, 1)
               data    == Inner(packet, 4)
               payload == OrElse(Inner(data, 2), <<>>)
               found   == ScanBytes(buf, 1)
               within  == Within(found, ScanBytes, 4)
    <2>2. AdminRequest(buf) = RequestIn(found, within)
        BY DEF AdminRequest
    <2> SUFFICES RequestIn(found, within) = RequestMeant(packet, data, payload)
        BY <2>2 DEF AdminDecodedAsSent, RequestMeant, Wanted
    <2>3. \A d \in 0 .. Len(WrapIn) : \A field \in Offered[d + 1] :
              field.wire = WIRE_LEN => field.num # 1 /\ field.num # 4 /\ (d # 0 => field.num # 2)
        <3>1. Len(WrapIn) \in Nat /\ DOMAIN Offered = 1 .. Len(WrapIn) + 1
            BY SenderAssumption
        <3>2. \A d \in 0 .. Len(WrapIn) : d + 1 \in 1 .. Len(WrapIn) + 1 /\ (d # 0 => d + 1 > 1)
            BY <3>1, SMT
        <3>3. QED
            BY <3>1, <3>2, EnvelopeAssumption
    <2>4. Entered(found, packet, depth, 1, T)
        <3>1. depth \in 0 .. Len(WrapIn)
            BY <2>1, InT
        <3>2. \A field \in Offered[depth + 1] : field.wire = WIRE_LEN => field.num # 1
            BY <2>3, <3>1
        <3>3. QED
            BY <2>1, <3>2, Enter
    <2>5. ASSUME within = {}, data = {} PROVE RequestIn(found, within) = RequestMeant(packet, data, payload)
        <3> HIDE DEF found, packet, within, data
        <3>1. OrElse({}, <<>>) = <<>>
            BY DEF OrElse
        <3>2. OrElse(Within(within, ScanBytes, 2), <<>>) = <<>> /\ payload = <<>>
            BY <2>5, <3>1, WithinOne, InnerOfOne
        <3> HIDE DEF payload
        <3>3. QED
            BY <3>2, NothingIn DEF RequestMeant
    <2>6. CASE found = {} /\ packet = {}
        <3>1. within = {} /\ data = {}
            BY <2>6, WithinOne, InnerOfOne
        <3>2. QED
            BY <2>5, <3>1
    <2>7. ASSUME NEW m1, NEW b1, found = {b1}, packet = {m1}, <<m1, b1, depth - 1>> \in T
          PROVE  RequestIn(found, within) = RequestMeant(packet, data, payload)
        <3> DEFINE e == depth - 1
        <3>1. Holds(m1, b1) /\ e \in 0 .. Len(WrapIn)
            BY <2>1, <2>7, InT
        <3>2. within = ScanBytes(b1, 4) /\ data = Inner({m1}, 4)
            BY <2>7, WithinOne
        <3> HIDE DEF found, packet, within, data
        <3>3. Entered(within, data, e, 4, T)
            <4>1. \A field \in Offered[e + 1] : field.wire = WIRE_LEN => field.num # 4
                BY <2>3, <3>1
            <4> HIDE DEF e
            <4>2. <<m1, b1, e>> \in T
                BY <2>7 DEF e
            <4>3. QED
                BY <2>1, <3>2, <4>1, <4>2, Enter
        <3> HIDE DEF e
        <3>4. ASSUME NEW m2, NEW b2, e # 0, WrapIn[e] = 4, within = {b2}, data = {m2}, <<m2, b2, e - 1>> \in T
              PROVE  RequestIn(found, within) = RequestMeant(packet, data, payload)
            <4> DEFINE g == e - 1
            <4>1. Holds(m2, b2) /\ g \in 0 .. Len(WrapIn)
                BY <2>1, <3>4, InT
            <4>2. g # 0
                <5>1. Len(WrapIn) \in Nat /\ WrapIn \in Seq(Nat)
                    BY SenderAssumption
                <5>2. CASE e = 1
                    <6>1. Len(WrapIn) # 0
                        BY <3>1, <5>1, <5>2, SMT
                    <6>2. WrapIn # <<>>
                        BY <5>1, <6>1, EmptySeq
                    <6>3. QED
                        BY <3>4, <5>2, <6>2, EnvelopeAssumption
                <5>3. CASE e # 1
                    BY <3>1, <5>1, <5>3, SMT
                <5>4. QED
                    BY <5>2, <5>3
            <4>3. Entered(ScanBytes(b2, 2), Inner({m2}, 2), g, 2, T)
                <5>1. \A field \in Offered[g + 1] : field.wire = WIRE_LEN => field.num # 2
                    BY <2>3, <4>1, <4>2
                <5> HIDE DEF g
                <5>2. <<m2, b2, g>> \in T
                    BY <3>4 DEF g
                <5>3. QED
                    BY <2>1, <5>1, <5>2, Enter
            <4> HIDE DEF g
            <4>4. CASE ScanBytes(b2, 2) = {} /\ Inner({m2}, 2) = {}
                <5>1. OrElse({}, <<>>) = <<>>
                    BY DEF OrElse
                <5>2. OrElse(Within(within, ScanBytes, 2), <<>>) = <<>> /\ payload = <<>>
                    BY <3>4, <4>4, <5>1, WithinOne
                <5> HIDE DEF payload
                <5>3. QED
                    BY <5>2, NothingIn DEF RequestMeant
            <4>5. ASSUME NEW m3, NEW b3, ScanBytes(b2, 2) = {b3}, Inner({m2}, 2) = {m3}, <<m3, b3, g - 1>> \in T
                  PROVE  RequestIn(found, within) = RequestMeant(packet, data, payload)
                <5>1. payload = m3
                    BY <3>4, <4>5, OneOf DEF OrElse
                <5>2. Holds(m3, b3)
                    BY <2>1, <4>5, InT
                <5> HIDE DEF payload
                <5>3. RequestIn({b1}, {b2}) = RequestMeant({m1}, {m2}, m3)
                    BY <3>1, <4>1, <4>5, <5>2, RequestRead
                <5>4. QED
                    BY <2>7, <3>4, <5>1, <5>3
            <4>6. QED
                BY <4>3, <4>4, <4>5, Zenon DEF Entered
        <3>5. QED
            BY <2>5, <3>3, <3>4, Zenon DEF Entered
    <2>8. QED
        BY <2>4, <2>6, <2>7, Zenon DEF Entered
<1>2. QED
    BY <1>1, NestAlways, PTL

=============================================================================

------------------------------ MODULE MeshCodec ------------------------------
(***************************************************************************)
(* What the decoders make of the bytes they are given.  A sender builds a  *)
(* message field by field and wraps it into a field of another message, as *)
(* a ToRadio holds a MeshPacket that holds a Data that holds an            *)
(* AdminMessage: sent is the message as it was meant, buf the bytes it     *)
(* became.  Every decoder reads whatever there is: mesh_data.c,            *)
(* mesh_user.c, the decoders of phone_encode.c; and a text takes the way   *)
(* through a whole frame, mesh_encode.c to mesh_decode.c.                  *)
(***************************************************************************)
EXTENDS Protobuf

CONSTANTS
    MESH_USER_ID_MAX, MESH_USER_LONG_NAME_MAX, MESH_USER_SHORT_NAME_MAX,  \* 16, 41, 6
    ChannelName,    \* the bytes of the primary channel's name
    WrapIn,         \* bound: the field each level is wrapped into, innermost first
    Offered,        \* bound: for each level, the fields a sender may add
    MaxFields,      \* bound: for each level, how many there are at most
    TxParams        \* bound: headers a text is sent with

\* An array of a name has room for its terminator.
ASSUME NamesAssumption ==
    {MESH_USER_ID_MAX, MESH_USER_LONG_NAME_MAX, MESH_USER_SHORT_NAME_MAX} \subseteq Nat \ {0}

VARIABLES
    depth,  \* how often the message has been wrapped
    sent,   \* the outermost message as meant, its fields in order
    buf     \* its bytes

codecVars == <<depth, sent, buf>>

-----------------------------------------------------------------------------
(* The sender.  A field that holds a message keeps it beside its bytes.    *)

Meaning(num, wire, value, bytes) ==
    [num |-> num, wire |-> wire, value |-> value, bytes |-> bytes, inner |-> <<>>]

Scalar(num, value)  == Meaning(num, WIRE_VARINT, value, <<>>)
Fixed32(num, value) == Meaning(num, WIRE_FIXED32, value, <<>>)
Fixed64(num, value) == Meaning(num, WIRE_FIXED64, value, <<>>)
Bytes(num, bytes)   == Meaning(num, WIRE_LEN, 0, bytes)

Encoded(field) ==
    CASE field.wire = WIRE_VARINT  -> VarintField(field.num, field.value)
      [] field.wire = WIRE_FIXED32 -> Fixed32Field(field.num, field.value)
      [] field.wire = WIRE_FIXED64 -> Tag(field.num, WIRE_FIXED64) \o FourBytes(field.value) \o FourBytes(0)
      [] field.wire = WIRE_LEN     -> BytesField(field.num, field.bytes)

(* What a sender can write: a tag is a uint32_t, a varint has the bits of  *)
(* its type, a fixed field 32 of them (told by halves, since TLC's         *)
(* integers have 32 bits with the sign), and other bytes are bytes.        *)
Writable(field) ==
    /\ field.num \in Nat \ {0} /\ 8 * field.num + 7 < TwoTo[WORD_BITS]
    /\ field.wire \in {WIRE_VARINT, WIRE_FIXED32, WIRE_FIXED64, WIRE_LEN}
    /\ field.value \in Nat
    /\ field.wire = WIRE_VARINT => field.value < TwoTo[VARINT_BITS]
    /\ field.wire # WIRE_VARINT => field.value \div 65536 < 65536
    /\ field.bytes \in Seq(Byte) /\ Len(field.bytes) < TwoTo[VARINT_BITS]

\* No message is longer than a length field can say.
Sayable(bytes) == Len(bytes) < TwoTo[VARINT_BITS]

ASSUME SenderAssumption ==
    /\ WrapIn \in Seq(Nat)
    /\ \A i \in DOMAIN WrapIn : Writable(Bytes(WrapIn[i], <<>>))
    /\ DOMAIN Offered = 1 .. Len(WrapIn) + 1
    /\ \A i \in DOMAIN Offered : \A field \in Offered[i] :
           /\ Writable(field)
           /\ field = Meaning(field.num, field.wire, field.value, field.bytes)

(* A request is looked for three messages deep (num 1, 4, 2).  Whatever is *)
(* offered in those fields is a message, never loose bytes, except for the *)
(* payload of an innermost Data, which then is in nothing.                 *)
ASSUME EnvelopeAssumption ==
    /\ WrapIn # <<>> => WrapIn[1] # 4
    /\ \A i \in DOMAIN Offered : \A field \in Offered[i] :
           field.wire = WIRE_LEN => field.num \notin {1, 4} /\ (i > 1 => field.num # 2)

CodecInit == depth = 0 /\ sent = <<>> /\ buf = <<>>

AddField(field) ==
    /\ Len(sent) < MaxFields[depth + 1]
    /\ sent' = Append(sent, field)
    /\ Sayable(buf \o Encoded(field))
    /\ buf' = buf \o Encoded(field)
    /\ UNCHANGED depth

Wrap ==
    /\ depth < Len(WrapIn)
    /\ Sayable(BytesField(WrapIn[depth + 1], buf))
    /\ depth' = depth + 1
    /\ sent' = <<[Bytes(WrapIn[depth + 1], buf) EXCEPT !.inner = sent]>>
    /\ buf' = BytesField(WrapIn[depth + 1], buf)

CodecNext == (\E field \in Offered[depth + 1] : AddField(field)) \/ Wrap

CodecSpec == CodecInit /\ [][CodecNext]_codecVars

-----------------------------------------------------------------------------
(* The mesh's decoders *)

DataIn(bytes, walk) ==
    LET portnum == LastField(walk.fields, 1, {WIRE_VARINT})
        payload == LastField(walk.fields, 2, {WIRE_LEN})
    IN  [ok      |-> walk.ok,
         portnum |-> IF portnum = {} THEN 0 ELSE Word((CHOOSE f \in portnum : TRUE).value),
         payload |-> IF payload = {} THEN <<>> ELSE Content(bytes, CHOOSE f \in payload : TRUE)]

\* mesh_data_parse.  What it has found by then stays when it gives up.
MeshDataParse(bytes) == DataIn(bytes, Walk(bytes))

Printable(byte) == IF byte \in 32 .. 126 THEN byte ELSE 46

\* A seeded fault: the terminator's place forgotten.
CopyNameFull(cap, name) == [i \in 1 .. Min({Len(name), cap}) |-> Printable(name[i])]

\* copy_name: cut to leave room for the terminator, with dots for the rest.
CopyName(cap, name) == [i \in 1 .. Min({Len(name), cap - 1}) |-> Printable(name[i])]

UserIn(bytes, walk) ==
    LET hw == LastField(walk.fields, 5, {WIRE_VARINT})
        Name(num, cap) ==
            LET name == LastField(walk.fields, num, {WIRE_LEN})
            IN  IF name = {} THEN <<>> ELSE CopyName(cap, Content(bytes, CHOOSE f \in name : TRUE))
    IN  [ok         |-> walk.ok,
         hw_model   |-> IF hw = {} THEN 0 ELSE Word((CHOOSE f \in hw : TRUE).value),
         id         |-> Name(1, MESH_USER_ID_MAX),
         long_name  |-> Name(2, MESH_USER_LONG_NAME_MAX),
         short_name |-> Name(3, MESH_USER_SHORT_NAME_MAX)]

\* mesh_user_parse; a name is known when it is not empty.
MeshUserParse(bytes) == UserIn(bytes, Walk(bytes))

-----------------------------------------------------------------------------
(* The phone's decoders.  A scan yields a set: what it found, or nothing.  *)

ScanBytes(bytes, num) ==
    LET walk == Walk(bytes)
    IN  IF walk.ok THEN {Content(bytes, f) : f \in LastField(walk.fields, num, {WIRE_LEN})} ELSE {}

\* A seeded fault: every integer taken for a varint.
ScanVarint(bytes, num) ==
    LET walk == Walk(bytes)
    IN  IF walk.ok THEN {f.value : f \in LastField(walk.fields, num, {WIRE_VARINT})} ELSE {}

ScanValue(bytes, num) ==
    LET walk == Walk(bytes)
        Value(f) == IF f.wire = WIRE_VARINT THEN f.value ELSE FourByteValue(Content(bytes, f))
    IN  IF walk.ok THEN {Value(f) : f \in LastField(walk.fields, num, {WIRE_VARINT, WIRE_FIXED32})}
        ELSE {}

FirstField(bytes) ==
    LET tag == ReadVarint(bytes, 1) IN IF tag.ok THEN Word(tag.value \div 8) ELSE 0

NothingAsked == [admin_field |-> 0, want_response |-> FALSE, packet_id |-> 0, from |-> 0]

Within(messages, Scan(_, _), num) == UNION {Scan(m, num) : m \in messages}
OrElse(found, default) == IF found = {} THEN default ELSE CHOOSE value \in found : TRUE

\* The request in a packet's Data, if its port is the admin port.
RequestIn(packet, data) ==
    LET field == FirstField(OrElse(Within(data, ScanBytes, 2), <<>>))
    IN  IF Within(data, ScanValue, 1) # {6} \/ field = 0 THEN NothingAsked
        ELSE [admin_field   |-> field,
              want_response |-> OrElse(Within(data, ScanValue, 3), 0) # 0,
              packet_id     |-> Word(OrElse(Within(packet, ScanValue, 6), 0)),
              from          |-> Word(OrElse(Within(packet, ScanValue, 1), 0))]

\* phone_decode_get_owner_request_why: packet, decoded, the admin port, its payload.
AdminRequest(bytes) ==
    LET packet == ScanBytes(bytes, 1) IN RequestIn(packet, Within(packet, ScanBytes, 4))

\* phone_decode_want_config_id takes a varint only.
WantConfigId(bytes) ==
    LET walk == Walk(bytes)
    IN  IF walk.ok THEN {Word(f.value) : f \in LastField(walk.fields, 3, {WIRE_VARINT})} ELSE {}

-----------------------------------------------------------------------------
(* Frames *)

MESH_HEADER_LEN  == 16
MESH_MAX_PAYLOAD == 255

\* mesh_encode_data: as everywhere, nothing for a zero or for no bytes.
EncodeData(portnum, payload) ==
    (IF portnum = 0 THEN <<>> ELSE VarintField(1, portnum))
    \o (IF payload = <<>> THEN <<>> ELSE BytesField(2, payload))

MaxTextLen == MESH_MAX_PAYLOAD - MESH_HEADER_LEN - 5

DefaultPsk ==
    <<212, 241, 187, 58, 32, 41, 7, 89, 240, 188, 255, 171, 207, 78, 105, 1>>

\* mesh_channel_expand_psk of a key index other than 0.
ExpandPsk(index) == [DefaultPsk EXCEPT ![16] = (@ + index - 1) % 256]

\* C's ^ of two bytes: a bit is set where one of theirs is and not the other.
Xor(a, b) ==
    LET Odd(place) == (a \div place + b \div place) % 2
    IN  Odd(1) + 2 * Odd(2) + 4 * Odd(4) + 8 * Odd(8)
        + 16 * Odd(16) + 32 * Odd(32) + 64 * Odd(64) + 128 * Odd(128)

XorHash(bytes) ==
    LET hash[i \in 0 .. Len(bytes)] == IF i = 0 THEN 0 ELSE Xor(hash[i - 1], bytes[i])
    IN  hash[Len(bytes)]

ChannelHash(name, key) == Xor(XorHash(name), XorHash(key))

Flags(params) ==
    (params.hop_limit % 8) + (IF params.want_ack THEN 8 ELSE 0) + 32 * (params.hop_start % 8)

EncodeHeader(params) ==
    FourBytes(params.to) \o FourBytes(params.from) \o FourBytes(params.id)
    \o <<Flags(params), ChannelHash(ChannelName, ExpandPsk(params.key)), 0, 0>>

HeaderParse(frame) ==
    [to        |-> FourByteValue(SubSeq(frame, 1, 4)),
     from      |-> FourByteValue(SubSeq(frame, 5, 8)),
     id        |-> FourByteValue(SubSeq(frame, 9, 12)),
     hop_limit |-> frame[13] % 8,
     hop_start |-> frame[13] \div 32,
     want_ack  |-> (frame[13] \div 8) % 2 = 1,
     channel   |-> frame[14]]

Nonce(packet_id, from_node) ==
    FourBytes(packet_id) \o <<0, 0, 0, 0>> \o FourBytes(from_node) \o <<0, 0, 0, 0>>

\* AES-CTR: some pad of key, nonce and place.
Pad(key, nonce, i) == (key[16] + 3 * nonce[1] + 5 * nonce[9] + 7 * nonce[10] + 11 * i) % 256

Xcrypt(key, packet_id, from_node, bytes) ==
    LET nonce == Nonce(packet_id, from_node)
    IN  [i \in DOMAIN bytes |-> Xor(bytes[i], Pad(key, nonce, i))]

(* A header that is sent: three numbers of 32 bits, two of three bits in   *)
(* one byte with a flag; and a key index that encrypts (0 would not).      *)
ASSUME FrameAssumption ==
    LET Word32 == {v \in Nat : v \div 65536 < 65536}
    IN  /\ ChannelName \in Seq(Byte)
        /\ TxParams \subseteq [to : Word32, from : Word32, id : Word32, hop_limit : 0 .. 7,
                              hop_start : 0 .. 7, want_ack : BOOLEAN, key : 1 .. 255]

\* mesh_encode_frame; nothing when it would be too long.
EncodeFrame(params, text) ==
    LET plaintext == EncodeData(1, text)
    IN  IF MESH_HEADER_LEN + Len(plaintext) > MESH_MAX_PAYLOAD THEN <<>>
        ELSE EncodeHeader(params) \o Xcrypt(ExpandPsk(params.key), params.id, params.from, plaintext)

\* What a frame on the right channel holds.
Opened(header, data) ==
    [result |-> IF ~data.ok THEN "BAD_PROTOBUF"
                ELSE IF data.portnum \notin {1, 4} THEN "NOT_TEXT" ELSE "OK",
     header |-> header,
     data   |-> data]

\* mesh_decode_frame, on the channel of that name with that key.
DecodeFrame(frame, key) ==
    LET header     == HeaderParse(frame)
        ciphertext == SubSeq(frame, MESH_HEADER_LEN + 1, Len(frame))
    IN  IF Len(frame) < MESH_HEADER_LEN \/ Len(frame) - MESH_HEADER_LEN > MESH_MAX_PAYLOAD
        THEN [result |-> "TOO_SHORT"]
        ELSE IF header.channel # ChannelHash(ChannelName, ExpandPsk(key))
        THEN [result |-> "CHANNEL_MISMATCH", header |-> header]
        ELSE Opened(header, MeshDataParse(Xcrypt(ExpandPsk(key), header.id, header.from, ciphertext)))

-----------------------------------------------------------------------------
(* Properties.  What is meant is read off sent, never off the bytes.       *)

Meant(message, num, wires) == {f.value : f \in LastField(message, num, wires)}
Inner(messages, num) == UNION {{f.inner : f \in LastField(m, num, {WIRE_LEN})} : m \in messages}
MeantWithin(messages, num) == UNION {Meant(m, num, {WIRE_VARINT, WIRE_FIXED32}) : m \in messages}

(* Each decoder finds what the sender meant for it, of several fields with *)
(* one number the last, and passes over all it does not know, whatever     *)
(* the others are and in whatever order: the Data of a frame, the User of  *)
(* a node, the nonce of a want_config_id.                                  *)
DecodedAsSent ==
    LET data == MeshDataParse(buf)
        user == MeshUserParse(buf)
        Word32(values) == {Word(v) : v \in values}
    IN  /\ data.ok /\ user.ok
        /\ data.portnum = OrElse(Word32(Meant(sent, 1, {WIRE_VARINT})), 0)
        /\ data.payload = OrElse({f.bytes : f \in LastField(sent, 2, {WIRE_LEN})}, <<>>)
        /\ user.hw_model = OrElse(Word32(Meant(sent, 5, {WIRE_VARINT})), 0)
        /\ WantConfigId(buf) = Word32(Meant(sent, 3, {WIRE_VARINT}))

(* A message cut short anywhere is told from a whole one, except where it  *)
(* is cut between two fields: what is left is then a message.  No decoder  *)
(* reads past the end on the way, and none takes half a field for one.     *)
CutsAreTold ==
    LET end[k \in 0 .. Len(sent)] == IF k = 0 THEN 0 ELSE end[k - 1] + Len(Encoded(sent[k]))
    IN  \A n \in 0 .. Len(buf) :
            Walk(SubSeq(buf, 1, n)).ok <=> \E k \in 0 .. Len(sent) : n = end[k]

(* The admin request found three messages deep is the one that was put     *)
(* there, with the response it wants, its packet and its sender; and none  *)
(* is found where none was sent (phone_encode.c:312).                      *)
AdminDecodedAsSent ==
    LET packet  == Inner({sent}, 1)
        data    == Inner(packet, 4)
        payload == OrElse(Inner(data, 2), <<>>)
        request == AdminRequest(buf)
    IN  IF payload = <<>> \/ MeantWithin(data, 1) # {6} THEN request = NothingAsked
        ELSE request = [admin_field   |-> payload[1].num,
                        want_response |-> MeantWithin(data, 3) \notin {{}, {0}},
                        packet_id     |-> Word(OrElse(MeantWithin(packet, 6), 0)),
                        from          |-> Word(OrElse(MeantWithin(packet, 1), 0))]

(* Whatever a node calls itself, and however the message ends: a name fits *)
(* its array with the terminator and can be drawn (mesh_user.c:35).        *)
UserNamesSafe ==
    \A n \in 0 .. Len(buf) :
        LET user == MeshUserParse(SubSeq(buf, 1, n))
            Safe(name, cap) == Len(name) < cap /\ \A i \in DOMAIN name : name[i] \in 32 .. 126
        IN  /\ Safe(user.id, MESH_USER_ID_MAX)
            /\ Safe(user.long_name, MESH_USER_LONG_NAME_MAX)
            /\ Safe(user.short_name, MESH_USER_SHORT_NAME_MAX)

(* A text of any bytes comes back from a frame as it was sent, with its    *)
(* header, to who has the key; for another key index it is someone else's  *)
(* channel.  And the longest text announced is the longest that fits.      *)
TextRoundTrip ==
    depth = 0 /\ Len(buf) <= MaxTextLen =>
    /\ \A params \in TxParams :
           LET frame == EncodeFrame(params, buf)
               got   == DecodeFrame(frame, params.key)
           IN  /\ got.result = "OK"
               /\ got.data.payload = buf
               /\ \A h \in DOMAIN params \ {"key"} : got.header[h] = params[h]
               /\ \A other \in TxParams :
                      other.key # params.key =>
                          DecodeFrame(frame, other.key).result = "CHANNEL_MISMATCH"
    /\ buf = <<>> =>
           \A params \in TxParams, n \in {MaxTextLen, MaxTextLen + 1} :
               EncodeFrame(params, [i \in 1 .. n |-> 65]) # <<>> <=> n <= MaxTextLen

=============================================================================

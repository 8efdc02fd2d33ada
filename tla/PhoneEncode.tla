----------------------------- MODULE PhoneEncode -----------------------------
(***************************************************************************)
(* How long the messages to the phone come out.  The encoders build every  *)
(* message inside out, each level in a buffer of fixed size on the stack;  *)
(* a level that outgrows its buffer makes the encoder return 0, and the    *)
(* handshake then sends nothing of the reply.  Nothing else can fail in    *)
(* them, so of a message its lengths are kept: src/src/proto/pb_write.c,   *)
(* the encoders of src/src/proto/phone_encode.c, and push.                 *)
(***************************************************************************)
EXTENDS Handshake

CONSTANT HANDSHAKE_MAX_MESSAGE  \* a reply's buffer and FromRadio's value, 192

ASSUME MessageAssumption == HANDSHAKE_MAX_MESSAGE \in Nat

MESH_CONFIG_LONG_NAME_MAX    == 41  \* each with the terminator
MESH_CONFIG_SHORT_NAME_MAX   == 6
MESH_CONFIG_CHANNEL_NAME_MAX == 12
PHONE_LONG_NAME_MAX          == 40
PHONE_SHORT_NAME_MAX         == 8
PHONE_SESSION_PASSKEY_LEN    == 8

-----------------------------------------------------------------------------
(* PbWriter: what each field adds *)

\* Seven bits to a byte; all values here have at most 32.
VarintLen(v) ==
    IF v < 128 THEN 1
    ELSE IF v < 16384 THEN 2
    ELSE IF v < 2097152 THEN 3
    ELSE IF v < 268435456 THEN 4
    ELSE 5

TagLen(field) == VarintLen(8 * field)

VarintFieldAlwaysLen(field, v) == TagLen(field) + VarintLen(v)

\* proto3: a zero is left out, and so are an empty string and no bytes.
VarintFieldLen(field, v)    == IF v = 0 THEN 0 ELSE VarintFieldAlwaysLen(field, v)
SubmessageLen(field, len)   == TagLen(field) + VarintLen(len) + len
BytesFieldLen(field, len)   == IF len = 0 THEN 0 ELSE SubmessageLen(field, len)
Fixed32FieldAlwaysLen(field) == TagLen(field) + 4
Fixed32FieldLen(field, v)   == IF v = 0 THEN 0 ELSE Fixed32FieldAlwaysLen(field)

\* pb_writer_ok of the outermost level: a FromRadio field around inner bytes.
FromRadioLen(field, inner) ==
    LET len == SubmessageLen(field, inner) IN IF len <= HANDSHAKE_MAX_MESSAGE THEN len ELSE 0

-----------------------------------------------------------------------------
(* The identity the wire is told, from the configuration.  The buffers of  *)
(* strncpy cut a long name of 40, which the configuration allows, to 39.   *)

AtMost(n, limit) == IF n <= limit THEN n ELSE limit

PhoneIdentity(config) ==
    [node_num   |-> config.node_num,
     id         |-> 9,      \* "!" and eight digits
     long_name  |-> AtMost(config.long_name, PHONE_LONG_NAME_MAX - 1),
     short_name |-> AtMost(config.short_name, PHONE_SHORT_NAME_MAX - 1),
     hw_model   |-> 0]

UserLen(id) ==
    BytesFieldLen(1, id.id) + BytesFieldLen(2, id.long_name) + BytesFieldLen(3, id.short_name)
    + VarintFieldLen(5, id.hw_model)

MyNodeInfoLen(id) ==
    LET inner == VarintFieldAlwaysLen(1, id.node_num) + VarintFieldLen(11, 30200)
                 + BytesFieldLen(12, 4) + BytesFieldLen(13, 18)
    IN  IF inner <= 64 THEN FromRadioLen(3, inner) ELSE 0

\* A seeded fault: a User buffer sized for an unnamed node.
NodeInfoSmallUser(id) ==
    LET user  == UserLen(id)
        inner == VarintFieldAlwaysLen(1, id.node_num) + SubmessageLen(2, user)
    IN  IF user <= 48 /\ inner <= 128 THEN FromRadioLen(4, inner) ELSE 0

NodeInfoLen(id) ==
    LET user  == UserLen(id)
        inner == VarintFieldAlwaysLen(1, id.node_num) + SubmessageLen(2, user)
    IN  IF user <= 96 /\ inner <= 128 THEN FromRadioLen(4, inner) ELSE 0

ConfigCompleteLen(nonce) == VarintFieldAlwaysLen(7, nonce)

\* The version string has five characters.
MetadataLen(id) ==
    LET body == BytesFieldLen(1, 5) + VarintFieldLen(2, 23) + VarintFieldAlwaysLen(5, 1)
                + VarintFieldLen(9, id.hw_model)
    IN  IF body <= 64 THEN FromRadioLen(13, body) ELSE 0

PrimaryChannelLen(name) ==
    LET settings == BytesFieldLen(2, 1) + BytesFieldLen(3, name)
        body     == SubmessageLen(2, settings) + VarintFieldAlwaysLen(3, 1)
    IN  IF settings <= 64 /\ body <= 96 THEN FromRadioLen(10, body) ELSE 0

EmptyChannelLen(index) ==
    LET body == VarintFieldLen(1, index) IN IF body <= 32 THEN FromRadioLen(10, body) ELSE 0

\* encode_variant with no body.
VariantLen(outer, variant) ==
    LET wrapper == SubmessageLen(variant, 0) IN IF wrapper <= 96 THEN FromRadioLen(outer, wrapper) ELSE 0

LoraConfigLen(channel_num) ==
    LET lora == VarintFieldAlwaysLen(1, 1) + VarintFieldAlwaysLen(2, 0) + VarintFieldAlwaysLen(7, 1)
                + VarintFieldAlwaysLen(9, 0) + VarintFieldLen(11, channel_num)
        body == SubmessageLen(6, lora)
    IN  IF lora <= 64 /\ body <= 96 THEN FromRadioLen(5, body) ELSE 0

DeviceUiLen == FromRadioLen(17, 0)

-----------------------------------------------------------------------------
(* Answers to admin requests.  A request is its packet id and its sender.  *)

DataLen(payload, request) ==
    VarintFieldAlwaysLen(1, 6) + BytesFieldLen(2, payload) + Fixed32FieldLen(6, request.packet_id)

\* wrap_admin_packet; the owner's answer ends in the same way.
AdminPacketLen(request, data) ==
    LET packet == Fixed32FieldAlwaysLen(1) + Fixed32FieldLen(2, request.from) + SubmessageLen(4, data)
                  + Fixed32FieldLen(6, request.packet_id)
    IN  IF data <= 160 /\ packet <= 192 THEN FromRadioLen(2, packet) ELSE 0

OwnerResponseLen(id, request) ==
    LET user  == UserLen(id)
        admin == SubmessageLen(4, user) + BytesFieldLen(101, PHONE_SESSION_PASSKEY_LEN)
    IN  IF user <= 96 /\ admin <= 128 THEN AdminPacketLen(request, DataLen(admin, request)) ELSE 0

EmptyStringResponseLen(field, request) ==
    LET admin == SubmessageLen(field, 0) + BytesFieldLen(101, PHONE_SESSION_PASSKEY_LEN)
    IN  IF admin <= 128 THEN AdminPacketLen(request, DataLen(admin, request)) ELSE 0

RoutingAckLen(request) == AdminPacketLen(request, DataLen(0, request))

-----------------------------------------------------------------------------
(* The length of the FromRadio message m of a reply, 0 if it is not built *)
MessageLen(config, request, m) ==
    LET id == PhoneIdentity(config)
    IN  CASE m.kind = "my_info"            -> MyNodeInfoLen(id)
          [] m.kind = "deviceuiConfig"     -> DeviceUiLen
          [] m.kind = "node_info"          -> NodeInfoLen(id)
          [] m.kind = "metadata"           -> MetadataLen(id)
          [] m.kind = "channel"            -> IF m.n = 0 THEN PrimaryChannelLen(config.channel_name)
                                              ELSE EmptyChannelLen(m.n)
          [] m.kind = "config"             -> IF m.n = 6 THEN LoraConfigLen(config.channel_num)
                                              ELSE VariantLen(5, m.n)
          [] m.kind = "moduleConfig"       -> VariantLen(9, m.n)
          [] m.kind = "config_complete_id" -> ConfigCompleteLen(m.n)
          [] m.kind = "owner_response"     -> OwnerResponseLen(id, request)
          [] m.kind = "canned_response"    -> EmptyStringResponseLen(11, request)
          [] m.kind = "ringtone_response"  -> EmptyStringResponseLen(15, request)
          [] m.kind = "routing_ack"        -> RoutingAckLen(request)

\* handshake.c, push: what makes it drop the reply it is building.
Pushed(len) == len > 0 /\ len <= HANDSHAKE_MAX_MESSAGE

=============================================================================

------------------------------ MODULE Handshake ------------------------------
(***************************************************************************)
(* handshake_handle_to_radio: what one ToRadio write does to the handshake *)
(* stage, and the FromRadio messages it is answered with, in order.        *)
(* src/src/ble/meshtastic_handshake.c.                                     *)
(*                                                                         *)
(* A write is reduced to what the decoders find in it, a message to the    *)
(* FromRadio field it carries and that field's own number.                 *)
(***************************************************************************)
EXTENDS Naturals, Sequences

CONSTANTS
    CHANNEL_SLOTS,          \* PHONE_CHANNEL_SLOTS, 8
    CONFIG_VARIANTS,        \* PHONE_CONFIG_VARIANTS, 10
    MODULECONFIG_VARIANTS,  \* PHONE_MODULECONFIG_VARIANTS, 13
    STAGE_TWO_REPEATS,      \* 4
    HANDSHAKE_MAX_REPLIES   \* slots of HandshakeReply.messages, 36

ASSUME RepliesAssumption ==
    /\ CHANNEL_SLOTS \in Nat
    /\ CONFIG_VARIANTS \in Nat
    /\ MODULECONFIG_VARIANTS \in Nat
    /\ STAGE_TWO_REPEATS \in Nat
    /\ HANDSHAKE_MAX_REPLIES \in Nat
    /\ 5 + CHANNEL_SLOTS + CONFIG_VARIANTS + MODULECONFIG_VARIANTS <= HANDSHAKE_MAX_REPLIES
    /\ 2 * STAGE_TWO_REPEATS <= HANDSHAKE_MAX_REPLIES

PHONE_NONCE_CONFIG    == 69420
PHONE_NONCE_NODE_INFO == 69421
OtherNonce            == 7      \* any nonce that names neither stage
NoNonce               == 0      \* phone_decode_want_config_id found none

HandshakeStage == {"Idle", "ConfigRequested", "NodeInfoRequested", "Complete"}

\* A FromRadio message of kind k, its index, variant or nonce being n.
Msg(k, n) == [kind |-> k, n |-> n]

MyInfo           == Msg("my_info", 0)
DeviceUi         == Msg("deviceuiConfig", 0)
NodeInfo         == Msg("node_info", 0)
Metadata         == Msg("metadata", 0)
Channel(slot)    == Msg("channel", slot)
Config(v)        == Msg("config", v)
ModuleConfig(v)  == Msg("moduleConfig", v)
ConfigComplete(nonce) == Msg("config_complete_id", nonce)
AdminReply(answer)    == Msg(answer, 0)

AdminField  == {"get_owner", "get_canned", "get_ringtone", "setter"}
AdminAnswer == {"owner_response", "canned_response", "ringtone_response", "routing_ack"}

FromRadio ==
    {MyInfo, DeviceUi, NodeInfo, Metadata}
    \cup {Channel(slot) : slot \in 0 .. CHANNEL_SLOTS - 1}
    \cup {Config(v) : v \in 1 .. CONFIG_VARIANTS}
    \cup {ModuleConfig(v) : v \in 1 .. MODULECONFIG_VARIANTS}
    \cup {ConfigComplete(PHONE_NONCE_CONFIG), ConfigComplete(PHONE_NONCE_NODE_INFO)}
    \cup {AdminReply(a) : a \in AdminAnswer}

\* A zero-length FromRadio value.
Empty == Msg("empty", 0)

(* What the decoders make of a ToRadio write.  They look for a             *)
(* want_config_id and for an admin packet one without the other, so a      *)
(* write may have either, neither (a heartbeat, a disconnect, an encrypted *)
(* packet, a malformed write), or both, although ToRadio is a oneof.       *)
Write(nonce, field, want_response) ==
    [want_config |-> nonce, admin |-> field, want_response |-> want_response]

WantConfig(nonce)           == Write(nonce, "none", FALSE)
Admin(field, want_response) == Write(NoNonce, field, want_response)
Heartbeat                   == WantConfig(NoNonce)

WantedNonce == {NoNonce, OtherNonce, PHONE_NONCE_CONFIG, PHONE_NONCE_NODE_INFO}

ToRadio ==
    {WantConfig(n) : n \in WantedNonce}
    \cup {Write(n, f, r) : n \in WantedNonce, f \in AdminField, r \in BOOLEAN}

StageOneReply ==
    <<MyInfo, DeviceUi, NodeInfo, Metadata>>
    \o [i \in 1 .. CHANNEL_SLOTS |-> Channel(i - 1)]
    \o [v \in 1 .. CONFIG_VARIANTS |-> Config(v)]
    \o [v \in 1 .. MODULECONFIG_VARIANTS |-> ModuleConfig(v)]
    \o <<ConfigComplete(PHONE_NONCE_CONFIG)>>

StageTwoReply ==
    [i \in 1 .. STAGE_TWO_REPEATS |-> NodeInfo]
    \o [i \in 1 .. STAGE_TWO_REPEATS |-> ConfigComplete(PHONE_NONCE_NODE_INFO)]

\* phone_encode_admin_reply: getters are answered, setters acknowledged.
AnswerTo(field) ==
    CASE field = "get_owner"    -> "owner_response"
      [] field = "get_canned"   -> "canned_response"
      [] field = "get_ringtone" -> "ringtone_response"
      [] OTHER                  -> "routing_ack"

\* The reply to write w, an admin request before a nonce; the empty sequence
\* when nothing is sent.
ReplyTo(w) ==
    CASE w.admin # "none" -> IF w.want_response THEN <<AdminReply(AnswerTo(w.admin))>> ELSE <<>>
      [] w.admin = "none" /\ w.want_config = PHONE_NONCE_CONFIG    -> StageOneReply
      [] w.admin = "none" /\ w.want_config = PHONE_NONCE_NODE_INFO -> StageTwoReply
      [] OTHER -> <<>>

\* The stage after write w.  Only a stage request moves it, from any stage.
StageAfter(stage, w) ==
    CASE w.admin = "none" /\ w.want_config = PHONE_NONCE_CONFIG    -> "ConfigRequested"
      [] w.admin = "none" /\ w.want_config = PHONE_NONCE_NODE_INFO -> "Complete"
      [] OTHER -> stage

=============================================================================

------------------------------ MODULE MeshConfig ------------------------------
(***************************************************************************)
(* The one record of what this node is, its defaults and its setters:      *)
(* src/src/model/mesh_config.c.  Of a name only its length is kept.        *)
(***************************************************************************)
EXTENDS PhoneEncode, LoraConfig

CONSTANTS
    NodeNums,   \* bound: node numbers the BLE address may give
    MaxTyped    \* bound: printable characters of a name typed by the user

ASSUME NodeNumsAssumption == \A n \in NodeNums : n \in Nat /\ n <= 2147483647
ASSUME TypedAssumption    == MaxTyped \in Nat

VARIABLE config     \* MeshConfig, its fields with a fixed value left out

\* A seeded fault: room for the terminator forgotten.
CopyFull(cap, typed) == AtMost(typed, cap)

(* copy_printable: what is typed loses its unprintable characters and is   *)
(* cut to leave room for the terminator.                                   *)
CopyPrintable(cap, typed) == AtMost(typed, cap - 1)

\* "Flipper xxxx" and "Fxxx"; the channel number is a literal of its own.
MeshConfigDefaults(node_num) ==
    [node_num     |-> node_num,
     long_name    |-> 12,
     short_name   |-> 4,
     channel_name |-> CopyPrintable(MESH_CONFIG_CHANNEL_NAME_MAX, Len(LongFast)),
     channel_num  |-> 20]

ConfigInit == \E node_num \in NodeNums : config = MeshConfigDefaults(node_num)

\* mesh_config_set_long_name and _short_name: an empty name is refused.
SetLongName(typed) ==
    /\ CopyPrintable(MESH_CONFIG_LONG_NAME_MAX, typed) > 0
    /\ config' = [config EXCEPT !.long_name = CopyPrintable(MESH_CONFIG_LONG_NAME_MAX, typed)]

SetShortName(typed) ==
    /\ CopyPrintable(MESH_CONFIG_SHORT_NAME_MAX, typed) > 0
    /\ config' = [config EXCEPT !.short_name = CopyPrintable(MESH_CONFIG_SHORT_NAME_MAX, typed)]

ConfigNext == \E typed \in 0 .. MaxTyped : SetLongName(typed) \/ SetShortName(typed)

ConfigSpec == ConfigInit /\ [][ConfigNext]_config

\* mesh_config_valid.
MeshConfigValid ==
    /\ config.node_num > 0
    /\ config.node_num <= 2147483647
    /\ config.long_name \in 1 .. MESH_CONFIG_LONG_NAME_MAX - 1
    /\ config.short_name \in 1 .. MESH_CONFIG_SHORT_NAME_MAX - 1
    /\ config.channel_name \in 1 .. MESH_CONFIG_CHANNEL_NAME_MAX - 1

-----------------------------------------------------------------------------
(* Properties *)

(* A valid record stays valid whatever is typed, by the same rules a       *)
(* stored record would be judged: named, and every name terminated inside  *)
(* its array (mesh_config.c:66).  A record with node number 0, which an    *)
(* address of the right bytes would give, is invalid from the start; its   *)
(* node number is never set again.                                         *)
ConfigStaysValid == config.node_num > 0 => MeshConfigValid

Request == [packet_id : {0, 1}, from : {0, 1}]

(* Whatever the names are set to, every message of every reply is built    *)
(* and pushed.  One buffer too small anywhere, and push (handshake.c:99)   *)
(* would drop the whole stage and leave the phone waiting for it.          *)
RepliesFit ==
    \A w \in ToRadio, request \in Request :
        \A i \in DOMAIN ReplyTo(w) : Pushed(MessageLen(config, request, ReplyTo(w)[i]))

(* The phone is told the channel number the radio is tuned to.  One is the *)
(* literal 20 of the record (mesh_config.c:48), the other a hash of the    *)
(* channel's name modulo the slots of the band, counted from zero.  And    *)
(* whatever slot a name falls into, its channel lies inside the band with  *)
(* both edges, and the synthesiser is set to its middle without rounding.  *)
TunedAsTold ==
    /\ config.channel_num = UsSlot(LongFast) + 1
    /\ \A slot \in 0 .. UsNumSlots - 1 :
           LET khz == UsFrequency(slot)
           IN  /\ khz - LORA_LONGFAST_BW \div 2 >= LORA_US_FREQ_START
               /\ khz + LORA_LONGFAST_BW \div 2 <= LORA_US_FREQ_END
               /\ FreqToPll(khz) % 131072 = 0
               /\ (FreqToPll(khz) \div 131072) * 125 = khz
    /\ ~LdroRequired(LORA_LONGFAST_SF, LORA_LONGFAST_BW)

=============================================================================

---------------------------- MODULE MCReceivePath ----------------------------
(***************************************************************************)
(* Instances of ReceivePath for TLC: three nodes for a table of two.       *)
(***************************************************************************)
EXTENDS ReceivePath

Heard(node, result, portnum, text, user, rssi, hop_start) ==
    [from |-> node, result |-> result, portnum |-> portnum, text |-> text,
     user |-> user, rssi |-> rssi, hop_start |-> hop_start, hop_limit |-> 1]

(* Of each node: a relayed text, a text that does not say how far it came, *)
(* a NODEINFO, and a frame of another channel; and a frame too short.      *)
SmallFrames ==
    UNION { { Heard(node, "ok", "text", "hi", NoUser, 1, 3),
              Heard(node, "ok", "nodeinfo", "none", [long_name |-> "Ann", short_name |-> NoName], 2, 0),
              Heard(node, "channel_mismatch", "none", "none", NoUser, 2, 2) } : node \in 1 .. 3 }
    \cup { NoFrame }

UpSinceBoot == {0}
AboutToWrap == {TICK_RANGE - 2}

=============================================================================

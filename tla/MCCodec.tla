------------------------------- MODULE MCCodec -------------------------------
(***************************************************************************)
(* The codecs on small instances: the configuration whose lengths the      *)
(* encoders must hold, and the messages the decoders must read.  The two   *)
(* share nothing, so one rests at its start while the other is explored.   *)
(***************************************************************************)
EXTENDS MeshConfig, MeshCodec

\* Fields no decoder knows.
Unknown == {Bytes(9, <<7, 130, 65>>), Fixed64(8, 7)}

\* Innermost first: an AdminMessage, or a Data or a User; a Data; a MeshPacket; a ToRadio.
MCWrapIn    == <<2, 4, 1>>
MCMaxFields == <<2, 3, 3, 2>>
MCOffered ==
    <<{Scalar(1, 262), Scalar(3, 1), Scalar(5, 300), Bytes(2, <<65, 7, 66>>),
       Bytes(3, <<31, 127, 126>>), Fixed32(6, 9)},
      {Scalar(1, 6), Scalar(1, 262), Scalar(3, 1)} \cup Unknown,
      {Fixed32(6, 258), Fixed32(1, 5)},
      {Scalar(3, 255)}>>

MCTxParams ==
    {[to |-> 7, from |-> 513, id |-> 258, hop_limit |-> 3, hop_start |-> 7,
      want_ack |-> ack, key |-> key] : ack \in BOOLEAN, key \in {1, 200}}

NothingSent == depth = 0 /\ sent = <<>>
NothingTyped == \E n \in NodeNums : n > 0 /\ config = MeshConfigDefaults(n)

Init == ConfigInit /\ CodecInit

Next ==
    \/ ConfigNext /\ NothingSent /\ UNCHANGED codecVars
    \/ CodecNext /\ NothingTyped /\ UNCHANGED config

Spec == Init /\ [][Next]_<<config, codecVars>>

=============================================================================

------------------------- MODULE MCMeshtasticService -------------------------
(***************************************************************************)
(* Instances of MeshtasticService for TLC: which writes the phone makes.   *)
(***************************************************************************)
EXTENDS MeshtasticService

\* Both stages, a getter, a setter that wants no answer, a heartbeat, and a
\* stage one request with a getter beside it, which empties the ring unanswered.
AllKindsOfWrite ==
    { WantConfig(PHONE_NONCE_CONFIG), WantConfig(PHONE_NONCE_NODE_INFO), Heartbeat,
      Admin("get_owner", TRUE), Admin("setter", FALSE),
      Write(PHONE_NONCE_CONFIG, "get_owner", TRUE) }

\* What the two stages need, as docs/phone-protocol.md lays them out.
StageWrites ==
    { WantConfig(PHONE_NONCE_CONFIG), WantConfig(PHONE_NONCE_NODE_INFO),
      WantConfig(OtherNonce), Admin("get_canned", TRUE) }

Stored == {TRUE}
StoredOrRefused == {TRUE, FALSE}

=============================================================================

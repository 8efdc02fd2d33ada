---------------------- MODULE MeshtasticService_proofs ----------------------
(***************************************************************************)
(* Proofs about MeshtasticService, for every number of channels, config    *)
(* variants and repeats, every depth that holds a stage one reply, and any *)
(* number of writes in any order; and about what it answers with: that     *)
(* MeshConfig's record stays valid and tells where the radio is tuned to,  *)
(* and that every message of every reply is built from it if a buffer      *)
(* holds at least 100 bytes (it holds 192), its lengths those of the bytes *)
(* that are written.                                                       *)
(***************************************************************************)
EXTENDS MeshtasticService, MeshConfig, FromRadioQueue_proofs, Protobuf_proofs

-----------------------------------------------------------------------------
(* What a reply consists of *)

\* The stage one reply is a sequence of messages of a known length.
LEMMA StageOneMessages ==
    /\ StageOneReply \in Seq(FromRadio)
    /\ Len(StageOneReply) = 5 + CHANNEL_SLOTS + CONFIG_VARIANTS + MODULECONFIG_VARIANTS
    /\ Len(StageOneReply) <= HANDSHAKE_MAX_REPLIES
<1> DEFINE body     == <<MyInfo, DeviceUi, NodeInfo, Metadata>>
           channels == [i \in 1 .. CHANNEL_SLOTS |-> Channel(i - 1)]
           configs  == [v \in 1 .. CONFIG_VARIANTS |-> Config(v)]
           modules  == [v \in 1 .. MODULECONFIG_VARIANTS |-> ModuleConfig(v)]
           complete == <<ConfigComplete(PHONE_NONCE_CONFIG)>>
<1>1. body \in Seq(FromRadio) /\ Len(body) = 4
    BY SMT DEF FromRadio
<1>2. channels \in Seq(FromRadio) /\ Len(channels) = CHANNEL_SLOTS
    <2>1. \A i \in 1 .. CHANNEL_SLOTS : i - 1 \in 0 .. CHANNEL_SLOTS - 1
        BY RepliesAssumption, SMT
    <2>2. \A i \in 1 .. CHANNEL_SLOTS : Channel(i - 1) \in FromRadio
        BY <2>1 DEF FromRadio
    <2>3. QED
        BY <2>2, RepliesAssumption, SMT
<1>3. configs \in Seq(FromRadio) /\ Len(configs) = CONFIG_VARIANTS
    <2>1. \A v \in 1 .. CONFIG_VARIANTS : Config(v) \in FromRadio
        BY DEF FromRadio
    <2>2. QED
        BY <2>1, RepliesAssumption, SMT
<1>4. modules \in Seq(FromRadio) /\ Len(modules) = MODULECONFIG_VARIANTS
    <2>1. \A v \in 1 .. MODULECONFIG_VARIANTS : ModuleConfig(v) \in FromRadio
        BY DEF FromRadio
    <2>2. QED
        BY <2>1, RepliesAssumption, SMT
<1>5. complete \in Seq(FromRadio) /\ Len(complete) = 1
    BY SMT DEF FromRadio
<1> HIDE DEF body, channels, configs, modules, complete
<1>6. body \o channels \in Seq(FromRadio) /\ Len(body \o channels) = 4 + CHANNEL_SLOTS
    <2>1. /\ body \o channels \in Seq(FromRadio)
          /\ Len(body \o channels) = Len(body) + Len(channels)
        BY <1>1, <1>2, ConcatProperties
    <2>2. QED
        BY <1>1, <1>2, <2>1
<1>7. /\ (body \o channels) \o configs \in Seq(FromRadio)
      /\ Len((body \o channels) \o configs) = 4 + CHANNEL_SLOTS + CONFIG_VARIANTS
    BY <1>3, <1>6, ConcatProperties
<1>8. /\ ((body \o channels) \o configs) \o modules \in Seq(FromRadio)
      /\ Len(((body \o channels) \o configs) \o modules)
            = 4 + CHANNEL_SLOTS + CONFIG_VARIANTS + MODULECONFIG_VARIANTS
    BY <1>4, <1>7, ConcatProperties
<1>9. /\ (((body \o channels) \o configs) \o modules) \o complete \in Seq(FromRadio)
      /\ Len((((body \o channels) \o configs) \o modules) \o complete)
            = 4 + CHANNEL_SLOTS + CONFIG_VARIANTS + MODULECONFIG_VARIANTS + 1
    <2>1. /\ (((body \o channels) \o configs) \o modules) \o complete \in Seq(FromRadio)
          /\ Len((((body \o channels) \o configs) \o modules) \o complete)
                = Len(((body \o channels) \o configs) \o modules) + Len(complete)
        BY <1>5, <1>8, ConcatProperties
    <2>2. QED
        BY <1>5, <1>8, <2>1
<1>10. StageOneReply = (((body \o channels) \o configs) \o modules) \o complete
    BY DEF StageOneReply, body, channels, configs, modules, complete
<1>11. Len(StageOneReply) = 5 + CHANNEL_SLOTS + CONFIG_VARIANTS + MODULECONFIG_VARIANTS
    BY <1>9, <1>10, RepliesAssumption, SMT
<1>12. QED
    BY <1>9, <1>10, <1>11, RepliesAssumption, SMT

\* Whatever is written, the reply is a sequence of messages that fits.
LEMMA ReplyMessages ==
    ASSUME NEW w \in ToRadio
    PROVE  ReplyTo(w) \in Seq(FromRadio) /\ Len(ReplyTo(w)) <= HANDSHAKE_MAX_REPLIES
<1>1. StageTwoReply \in Seq(FromRadio) /\ Len(StageTwoReply) <= HANDSHAKE_MAX_REPLIES
    <2> DEFINE infos     == [i \in 1 .. STAGE_TWO_REPEATS |-> NodeInfo]
               completes == [i \in 1 .. STAGE_TWO_REPEATS |-> ConfigComplete(PHONE_NONCE_NODE_INFO)]
    <2>1. NodeInfo \in FromRadio /\ ConfigComplete(PHONE_NONCE_NODE_INFO) \in FromRadio
        BY DEF FromRadio
    <2>2. infos \in Seq(FromRadio) /\ Len(infos) = STAGE_TWO_REPEATS
        BY <2>1, RepliesAssumption, SMT
    <2>3. completes \in Seq(FromRadio) /\ Len(completes) = STAGE_TWO_REPEATS
        BY <2>1, RepliesAssumption, SMT
    <2> HIDE DEF infos, completes
    <2>4. infos \o completes \in Seq(FromRadio) /\ Len(infos \o completes) = 2 * STAGE_TWO_REPEATS
        <3>1. /\ infos \o completes \in Seq(FromRadio)
              /\ Len(infos \o completes) = Len(infos) + Len(completes)
            BY <2>2, <2>3, ConcatProperties
        <3>2. QED
            BY <2>2, <2>3, <3>1, RepliesAssumption, SMT
    <2>5. QED
        BY <2>4, RepliesAssumption DEF StageTwoReply, infos, completes
<1>2. <<>> \in Seq(FromRadio) /\ Len(<<>>) <= HANDSHAKE_MAX_REPLIES
    BY RepliesAssumption, SMT
<1>3. /\ <<AdminReply(AnswerTo(w.admin))>> \in Seq(FromRadio)
      /\ Len(<<AdminReply(AnswerTo(w.admin))>>) <= HANDSHAKE_MAX_REPLIES
    <2>1. AnswerTo(w.admin) \in AdminAnswer
        BY DEF AnswerTo, AdminAnswer
    <2>2. AdminReply(AnswerTo(w.admin)) \in FromRadio
        BY <2>1 DEF FromRadio
    <2>3. QED
        BY <2>2, RepliesAssumption, SMT
<1>4. QED
    BY <1>1, <1>2, <1>3, StageOneMessages DEF ReplyTo

-----------------------------------------------------------------------------
(* The replies *)

\* The stage one reply is a sequence of messages, short enough for the ring.
LEMMA StageOneReplyType ==
    /\ StageOneReply \in Seq(FromRadio)
    /\ Len(StageOneReply) <= QUEUE_DEPTH
    /\ Len(StageOneReply) <= HANDSHAKE_MAX_REPLIES
BY StageOneMessages, DepthHoldsStageOne

\* A write that asks for stage one, and for nothing else, gets the stage one reply.
LEMMA StageOneAnswer ==
    ASSUME NEW w \in ToRadio, w.want_config = PHONE_NONCE_CONFIG, w.admin = "none"
    PROVE  ReplyTo(w) = StageOneReply
<1> HIDE DEF StageOneReply
<1>1. PHONE_NONCE_CONFIG # PHONE_NONCE_NODE_INFO
    BY SMT DEF PHONE_NONCE_CONFIG, PHONE_NONCE_NODE_INFO
<1>2. QED
    BY <1>1 DEF ReplyTo

-----------------------------------------------------------------------------
(* Types and control *)

\* The types of the variables the service adds to the queue.
WorkerTypeOK ==
    /\ write_queue \in Seq(ToRadio) /\ Len(write_queue) <= WRITE_QUEUE_DEPTH
    /\ worker \in {"get", "handle", "respond", "reply", "due", "drain"}
    /\ write \in ToRadio
    /\ reply \in Seq(FromRadio) /\ Len(reply) <= HANDSHAKE_MAX_REPLIES
    /\ stage \in HandshakeStage

LEMMA WorkerTypeStep == WorkerTypeOK /\ [Next]_serviceVars => WorkerTypeOK'
<1> SUFFICES ASSUME WorkerTypeOK, [Next]_serviceVars
             PROVE  WorkerTypeOK'
    OBVIOUS
<1> USE DEF WorkerTypeOK
<1>1. ASSUME UNCHANGED <<write_queue, write, reply, stage>>,
             worker' \in {"get", "handle", "respond", "reply", "due", "drain"}
      PROVE  WorkerTypeOK'
    BY <1>1
<1>2. ASSUME NEW w \in Writes, ToRadioWritten(w)
      PROVE  WorkerTypeOK'
    <2>1. w \in ToRadio
        BY ServiceAssumption
    <2>2. Append(write_queue, w) \in Seq(ToRadio) /\ Len(Append(write_queue, w)) = Len(write_queue) + 1
        BY <2>1, AppendProperties
    <2>3. Len(write_queue) \in Nat /\ WRITE_QUEUE_DEPTH \in Nat
        BY LenProperties, ServiceAssumption
    <2>4. write_queue' \in Seq(ToRadio) /\ Len(write_queue') <= WRITE_QUEUE_DEPTH
        BY <1>2, <2>2, <2>3, SMT DEF ToRadioWritten
    <2>5. QED
        BY <1>2, <2>4 DEF ToRadioWritten, workerVars
<1>3. CASE GetWrite
    <2>1. /\ Head(write_queue) \in ToRadio /\ Tail(write_queue) \in Seq(ToRadio)
          /\ Len(Tail(write_queue)) = Len(write_queue) - 1
        BY <1>3, HeadTailProperties DEF GetWrite
    <2>2. Len(write_queue) \in Nat /\ WRITE_QUEUE_DEPTH \in Nat
        BY LenProperties, ServiceAssumption
    <2>3. Len(Tail(write_queue)) <= WRITE_QUEUE_DEPTH
        BY <2>1, <2>2, SMT
    <2>4. QED
        BY <1>3, <2>1, <2>3 DEF GetWrite
<1>4. CASE Respond
    <2>1. ReplyTo(write) \in Seq(FromRadio) /\ Len(ReplyTo(write)) <= HANDSHAKE_MAX_REPLIES
        BY ReplyMessages
    <2>2. StageAfter(stage, write) \in HandshakeStage
        BY DEF StageAfter, HandshakeStage
    <2>3. QED
        BY <1>4, <2>1, <2>2 DEF Respond
<1>5. CASE QueueReply
    <2>1. Tail(reply) \in Seq(FromRadio) /\ Len(Tail(reply)) = Len(reply) - 1
        BY <1>5, HeadTailProperties DEF QueueReply
    <2>2. Len(reply) \in Nat /\ HANDSHAKE_MAX_REPLIES \in Nat
        BY LenProperties, RepliesAssumption
    <2>3. Len(Tail(reply)) <= HANDSHAKE_MAX_REPLIES
        BY <2>1, <2>2, SMT
    <2>4. QED
        BY <1>5, <2>1, <2>3 DEF QueueReply
<1>6. CASE UNCHANGED serviceVars
    BY <1>6 DEF serviceVars, workerVars
<1>7. CASE Connect \/ Disconnect \/ IntervalElapses
    BY <1>7 DEF Connect, Disconnect, IntervalElapses, workerVars
<1>8. CASE GetTimeout \/ BeginHandling \/ EndHandling \/ BeginDrain \/ NothingDue \/ Publish \/ EndDrain
    BY <1>8 DEF GetTimeout, BeginHandling, EndHandling, BeginDrain, NothingDue, Publish, EndDrain, workerVars
<1>9. QED
    BY <1>2, <1>3, <1>4, <1>5, <1>6, <1>7, <1>8 DEF Next, Phone, Worker

LEMMA WorkerTypes == Spec => []WorkerTypeOK
<1>1. Init => WorkerTypeOK
    <2>1. Heartbeat \in ToRadio
        BY DEF Heartbeat, WantConfig, WantedNonce, ToRadio
    <2>2. /\ <<>> \in Seq(ToRadio) /\ <<>> \in Seq(FromRadio) /\ Len(<<>>) = 0
        BY SMT
    <2>3. 0 <= WRITE_QUEUE_DEPTH /\ 0 <= HANDSHAKE_MAX_REPLIES
        BY ServiceAssumption, RepliesAssumption, SMT
    <2>4. QED
        BY <2>1, <2>2, <2>3 DEF Init, WorkerTypeOK, HandshakeStage
<1>2. QED
    BY <1>1, WorkerTypeStep, PTL DEF Spec

(* Whatever the phone does, the service drives the ring only by the steps  *)
(* of FromRadioQueue, with no caller of queue() inside a drain step.       *)
THEOREM ServiceImplementsQueue == Spec => ServiceUsesQueue
<1>1. Init => QueueInit
    BY DEF Init
<1>2. WorkerTypeOK /\ [Next]_serviceVars => [QueueNext]_queueVars
    <2> SUFFICES ASSUME WorkerTypeOK, [Next]_serviceVars
                 PROVE  [QueueNext]_queueVars
        OBVIOUS
    <2>1. CASE QueueReply
        <3>1. Head(reply) \in Message
            BY <2>1, HeadTailProperties, QueueUseAssumption DEF QueueReply, WorkerTypeOK
        <3>2. Enqueue(Head(reply)) \/ Refuse(Head(reply))
            BY <2>1 DEF QueueReply
        <3>3. QED
            BY <3>1, <3>2 DEF QueueNext
    <2>2. CASE BeginHandling
        BY <2>2 DEF BeginHandling, QueueNext
    <2>3. CASE BeginDrain \/ EndDrain
        BY <2>3 DEF BeginDrain, EndDrain, QueueNext, DrainStep
    <2>4. CASE Publish
        <3>1. PICK stored \in StackOutcome : UpdateFromRadio(stored) \/ UpdateFromNum(stored)
            BY <2>4 DEF Publish
        <3>2. stored \in BOOLEAN
            BY ServiceAssumption
        <3>3. QED
            BY <3>1, <3>2 DEF QueueNext, DrainStep
    <2>5. CASE GetWrite \/ GetTimeout \/ Respond \/ EndHandling \/ NothingDue
        BY <2>5 DEF GetWrite, GetTimeout, Respond, EndHandling, NothingDue
    <2>6. CASE Connect \/ Disconnect \/ IntervalElapses
        BY <2>6 DEF Connect, Disconnect, IntervalElapses
    <2>7. ASSUME NEW w \in Writes, ToRadioWritten(w)
          PROVE  UNCHANGED queueVars
        BY <2>7 DEF ToRadioWritten
    <2>8. CASE UNCHANGED serviceVars
        BY <2>8 DEF serviceVars
    <2>9. QED
        BY <2>1, <2>2, <2>3, <2>4, <2>5, <2>6, <2>7, <2>8 DEF Next, Phone, Worker
<1>3. QED
    BY <1>1, <1>2, WorkerTypes, PTL DEF Spec, ServiceUsesQueue, QueueSpec

(* The worker is the only caller of queue() in the service, so what holds  *)
(* of the queue under that condition holds of the service unconditionally: *)
(* messages leave in the order they entered, each offered before it is     *)
(* dropped, none lost or repeated, whatever the phone writes and whenever  *)
(* it comes and goes.                                                      *)
THEOREM ServiceImplementsOutbox == Spec => OutboxSpec
<1>1. QueueSpec => OutboxSpec
    BY QueueUseAssumption, RingImplementsOutbox
<1>2. QED
    BY <1>1, ServiceImplementsQueue DEF ServiceUsesQueue

\* The message a drain step consumes is the one it gave to the stack.
THEOREM ServiceConsumesPublished == Spec => []ConsumesWhatWasPublished
<1>1. QueueSpec => []ConsumesWhatWasPublished
    BY QueueUseAssumption, PublishedThenConsumed
<1>2. QED
    BY <1>1, ServiceImplementsQueue DEF ServiceUsesQueue

-----------------------------------------------------------------------------
(* The stage one reply in the ring *)

\* Queueing the next reply moves it from the rest to the ring.
LEMMA AppendMovesHead ==
    ASSUME NEW S, NEW s \in Seq(S), NEW t \in Seq(S), t # <<>>
    PROVE  Append(s, Head(t)) \o Tail(t) = s \o t
<1>1. /\ Head(t) \in S /\ Tail(t) \in Seq(S) /\ Len(Tail(t)) = Len(t) - 1
      /\ \A i \in 1 .. Len(Tail(t)) : Tail(t)[i] = t[i + 1]
    BY HeadTailProperties
<1>2. /\ Append(s, Head(t)) \in Seq(S) /\ Len(Append(s, Head(t))) = Len(s) + 1
      /\ \A i \in 1 .. Len(s) : Append(s, Head(t))[i] = s[i]
      /\ Append(s, Head(t))[Len(s) + 1] = t[1]
    <2>1. Head(t) = t[1]
        BY SMT
    <2>2. QED
        BY <1>1, <2>1, AppendProperties
<1>3. Len(s) \in Nat /\ Len(t) \in Nat \ {0}
    BY LenProperties, EmptySeq
<1> DEFINE moved == Append(s, Head(t)) \o Tail(t)
           whole == s \o t
<1>4. /\ moved \in Seq(S) /\ Len(moved) = Len(s) + Len(t)
      /\ \A i \in 1 .. Len(s) + Len(t) :
            moved[i] = IF i <= Len(s) + 1 THEN Append(s, Head(t))[i]
                                          ELSE Tail(t)[i - (Len(s) + 1)]
    <2>1. (Len(s) + 1) + (Len(t) - 1) = Len(s) + Len(t)
        BY <1>3, SMT
    <2>2. QED
        BY <1>1, <1>2, <2>1, ConcatProperties
<1>5. /\ whole \in Seq(S) /\ Len(whole) = Len(s) + Len(t)
      /\ \A i \in 1 .. Len(s) + Len(t) : whole[i] = IF i <= Len(s) THEN s[i] ELSE t[i - Len(s)]
    BY ConcatProperties
<1> HIDE DEF moved, whole
<1>6. ASSUME NEW i \in 1 .. Len(s) + Len(t)
      PROVE  moved[i] = whole[i]
    <2>1. CASE i <= Len(s)
        <3>1. i \in 1 .. Len(s) /\ i <= Len(s) + 1
            BY <1>3, <2>1, SMT
        <3>2. QED
            BY <1>2, <1>4, <1>5, <3>1, <2>1
    <2>2. CASE i = Len(s) + 1
        <3>1. ~(i <= Len(s)) /\ i <= Len(s) + 1 /\ i - Len(s) = 1
            BY <1>3, <2>2, SMT
        <3>2. QED
            BY <1>2, <1>4, <1>5, <2>2, <3>1
    <2>3. CASE i > Len(s) + 1
        <3>1. /\ ~(i <= Len(s)) /\ ~(i <= Len(s) + 1)
              /\ i - (Len(s) + 1) \in 1 .. Len(t) - 1
              /\ (i - (Len(s) + 1)) + 1 = i - Len(s)
            BY <1>3, <2>3, SMT
        <3>2. Tail(t)[i - (Len(s) + 1)] = t[i - Len(s)]
            BY <1>1, <3>1
        <3>3. QED
            BY <1>4, <1>5, <3>1, <3>2
    <2>4. QED
        BY <1>3, <2>1, <2>2, <2>3, SMT
<1>7. moved = whole
    BY <1>4, <1>5, <1>6, SeqEqual
<1>8. QED
    BY <1>7 DEF moved, whole

(* StageOneIntact is not inductive by itself: it starts from a ring that   *)
(* BeginHandling emptied and that nothing has filled since.                *)
StageOneInv ==
    /\ StageOneIntact
    /\ Answering(PHONE_NONCE_CONFIG) /\ worker = "respond" => pending = 0

LEMMA StageOneStep ==
    ASSUME TypeOK, RingInv, RingInv', WorkerTypeOK, StageOneInv, [Next]_serviceVars
    PROVE  StageOneInv'
<1> USE DEF StageOneInv, StageOneIntact, Answering
<1>1. ASSUME worker' \notin {"respond", "reply"}
      PROVE  StageOneInv'
    BY <1>1
<1>2. ASSUME UNCHANGED <<queueVars, worker, write, reply>>
      PROVE  StageOneInv'
    <2>1. Contents' = Contents
        BY <1>2, ContentsUnchanged DEF queueVars
    <2>2. pending' = pending
        BY <1>2 DEF queueVars, ringVars
    <2>3. QED
        BY <1>2, <2>1, <2>2
<1>3. CASE BeginHandling
    <2>1. worker' = "respond" /\ write' = write
        BY <1>3 DEF BeginHandling
    <2>2. write.want_config = PHONE_NONCE_CONFIG => pending' = 0
        BY <1>3 DEF BeginHandling, Reset
    <2>3. QED
        BY <2>1, <2>2
<1>4. CASE Respond
    <2>1. worker = "respond" /\ worker' = "reply" /\ write' = write /\ reply' = ReplyTo(write)
        BY <1>4 DEF Respond
    <2>2. ASSUME write.want_config = PHONE_NONCE_CONFIG, write.admin = "none"
          PROVE  Contents' \o reply' = StageOneReply
        <3>1. pending = 0
            BY <2>1, <2>2
        <3>2. Contents' = <<>>
            <4>1. Contents' = Contents
                BY <1>4, ContentsUnchanged DEF Respond, queueVars
            <4>2. QED
                BY <3>1, <4>1, ContentsEmpty
        <3>3. reply' = StageOneReply
            BY <2>1, <2>2, StageOneAnswer DEF WorkerTypeOK
        <3>4. QED
            BY <3>2, <3>3, StageOneReplyType, ConcatEmptySeq
    <2>3. QED
        BY <2>1, <2>2
<1>5. CASE QueueReply
    <2>1. worker = "reply" /\ worker' = worker /\ write' = write /\ reply' = Tail(reply) /\ reply # <<>>
        BY <1>5 DEF QueueReply
    <2>2. ASSUME write.want_config = PHONE_NONCE_CONFIG, write.admin = "none"
          PROVE  Contents' \o reply' = StageOneReply
        <3>1. Contents \o reply = StageOneReply
            BY <2>1, <2>2
        <3>2. Contents \in Seq(FromRadio) /\ Len(Contents) = pending /\ reply \in Seq(FromRadio)
            BY ContentsType, QueueUseAssumption DEF WorkerTypeOK
        <3>3. pending < QUEUE_DEPTH
            <4>1. pending + Len(reply) <= QUEUE_DEPTH
                BY <3>1, <3>2, ConcatProperties, StageOneReplyType
            <4>2. Len(reply) \in Nat \ {0} /\ pending \in Nat /\ QUEUE_DEPTH \in Nat
                BY <2>1, <3>2, EmptySeq, LenProperties, DepthAssumption
            <4>3. QED
                BY <4>1, <4>2, SMT
        <3>4. ~(pending >= QUEUE_DEPTH)
            BY <3>3, DepthAssumption, SMT DEF TypeOK
        <3>5. Enqueue(Head(reply)) /\ Head(reply) \in Message
            <4>1. Head(reply) \in FromRadio
                BY <2>1, <3>2, HeadTailProperties
            <4>2. QED
                BY <1>5, <3>4, <4>1, QueueUseAssumption DEF QueueReply, Refuse
        <3>6. Contents' = Append(Contents, Head(reply))
            BY <3>5, EnqueueAppends
        <3>7. QED
            BY <2>1, <3>1, <3>2, <3>6, AppendMovesHead
    <2>3. QED
        BY <2>1, <2>2
<1>6. CASE GetWrite \/ GetTimeout \/ EndHandling \/ BeginDrain \/ NothingDue \/ EndDrain
    BY <1>1, <1>6 DEF GetWrite, GetTimeout, EndHandling, BeginDrain, NothingDue, EndDrain
<1>7. CASE Publish
    BY <1>1, <1>7 DEF Publish, workerVars
<1>8. CASE Connect \/ Disconnect \/ IntervalElapses
    BY <1>2, <1>8 DEF Connect, Disconnect, IntervalElapses, workerVars
<1>9. ASSUME NEW w \in Writes, ToRadioWritten(w)
      PROVE  StageOneInv'
    BY <1>2, <1>9 DEF ToRadioWritten, workerVars
<1>10. CASE UNCHANGED serviceVars
    BY <1>2, <1>10 DEF serviceVars, workerVars
<1>11. QED
    BY <1>3, <1>4, <1>5, <1>6, <1>7, <1>8, <1>9, <1>10 DEF Next, Phone, Worker

(* A stage one reply is never truncated, reordered or mixed with what an   *)
(* earlier session left in the ring, whatever is written and whenever.     *)
THEOREM StageOneNeverTruncated == Spec => []StageOneIntact
<1>1. Init => StageOneInv
    BY DEF Init, StageOneInv, StageOneIntact, Answering
<1>2. QueueSpec => [](TypeOK /\ RingInv)
    BY QueueTypeCorrect, RingInvInitially, RingInvStep, PTL DEF QueueSpec
<1>3. Spec => [](TypeOK /\ RingInv /\ WorkerTypeOK)
    BY <1>2, ServiceImplementsQueue, WorkerTypes, PTL DEF ServiceUsesQueue
<1>4. TypeOK /\ RingInv /\ RingInv' /\ WorkerTypeOK /\ StageOneInv /\ [Next]_serviceVars
        => StageOneInv'
    BY StageOneStep
<1>5. StageOneInv => StageOneIntact
    BY DEF StageOneInv
<1>6. QED
    BY <1>1, <1>3, <1>4, <1>5, PTL DEF Spec

-----------------------------------------------------------------------------
(* Types *)

\* What WorkerTypeOK leaves out, and that nothing is handled but writes made.
PhoneTypeOK ==
    /\ write_queue \in Seq(Writes)
    /\ write \in Writes \cup {Heartbeat}
    /\ drain_due \in BOOLEAN
    /\ connected \in BOOLEAN
    /\ writes_made \in Nat /\ writes_made <= MaxWrites
    /\ connections \in Nat /\ connections <= MaxConnections

LEMMA PhoneTypeInitially == Init => PhoneTypeOK
<1>1. <<>> \in Seq(Writes) /\ 0 \in Nat /\ 0 <= MaxWrites /\ 0 <= MaxConnections
    BY ServiceAssumption, SMT
<1>2. QED
    BY <1>1 DEF Init, PhoneTypeOK

LEMMA PhoneTypeStep == PhoneTypeOK /\ [Next]_serviceVars => PhoneTypeOK'
<1> SUFFICES ASSUME PhoneTypeOK, [Next]_serviceVars
             PROVE  PhoneTypeOK'
    OBVIOUS
<1> USE DEF PhoneTypeOK, phoneVars, workerVars
<1>1. ASSUME NEW w \in Writes, ToRadioWritten(w)
      PROVE  PhoneTypeOK'
    <2>1. write_queue' \in Seq(Writes)
        BY <1>1, AppendProperties DEF ToRadioWritten
    <2>2. writes_made' \in Nat /\ writes_made' <= MaxWrites
        BY <1>1, ServiceAssumption, SMT DEF ToRadioWritten
    <2>3. QED
        BY <1>1, <2>1, <2>2 DEF ToRadioWritten
<1>2. CASE GetWrite
    <2>1. Head(write_queue) \in Writes /\ Tail(write_queue) \in Seq(Writes)
        BY <1>2, HeadTailProperties DEF GetWrite
    <2>2. QED
        BY <1>2, <2>1 DEF GetWrite
<1>3. CASE Connect
    <2>1. connections' \in Nat /\ connections' <= MaxConnections
        BY <1>3, ServiceAssumption, SMT DEF Connect
    <2>2. QED
        BY <1>3, <2>1 DEF Connect
<1>4. CASE Disconnect \/ IntervalElapses
    BY <1>4 DEF Disconnect, IntervalElapses
<1>5. CASE GetTimeout \/ BeginHandling \/ Respond \/ QueueReply \/ EndHandling
    BY <1>5 DEF GetTimeout, BeginHandling, Respond, QueueReply, EndHandling
<1>6. CASE BeginDrain \/ NothingDue \/ Publish \/ EndDrain
    BY <1>6 DEF BeginDrain, NothingDue, Publish, EndDrain
<1>7. CASE UNCHANGED serviceVars
    BY <1>7 DEF serviceVars
<1>8. QED
    BY <1>1, <1>2, <1>3, <1>4, <1>5, <1>6, <1>7 DEF Next, Phone, Worker

(* No index of the ring leaves it, no reply outgrows its array and the     *)
(* write queue its depth, whatever the phone writes and whenever.          *)
THEOREM ServiceTypeCorrect == Spec => []ServiceTypeOK
<1>1. Spec => []TypeOK
    BY ServiceImplementsQueue, QueueTypeCorrect, PTL DEF ServiceUsesQueue
<1>2. TypeOK /\ WorkerTypeOK /\ PhoneTypeOK => ServiceTypeOK
    <2> SUFFICES ASSUME TypeOK, WorkerTypeOK, PhoneTypeOK PROVE ServiceTypeOK
        OBVIOUS
    <2>1. writes_made \in 0 .. MaxWrites /\ connections \in 0 .. MaxConnections
        BY ServiceAssumption, SMT DEF PhoneTypeOK
    <2>2. QED
        BY <2>1 DEF WorkerTypeOK, PhoneTypeOK, ServiceTypeOK
<1>3. QED
    BY <1>1, <1>2, WorkerTypes, PhoneTypeInitially, PhoneTypeStep, PTL DEF Spec

-----------------------------------------------------------------------------
(* The configuration *)

ConfigInv ==
    /\ config.node_num <= 2147483647
    /\ config \in [node_num     : Nat,
                   long_name    : 1 .. 40,
                   short_name   : 1 .. 5,
                   channel_name : 1 .. 11,
                   channel_num  : {20}]

-----------------------------------------------------------------------------
(* The record *)

\* A copy never fills its array.
LEMMA CopyLeavesRoom ==
    ASSUME NEW cap \in Nat \ {0}, NEW typed \in Nat
    PROVE  CopyPrintable(cap, typed) \in 0 .. cap - 1
BY SMT DEF CopyPrintable, AtMost

LEMMA ConfigInitially == ConfigInit => ConfigInv
<1> SUFFICES ASSUME NEW node_num \in NodeNums, config = MeshConfigDefaults(node_num)
             PROVE  ConfigInv
    BY DEF ConfigInit
<1>1. node_num \in Nat /\ node_num <= 2147483647
    BY NodeNumsAssumption
<1>2. CopyPrintable(MESH_CONFIG_CHANNEL_NAME_MAX, Len(LongFast)) = 8
    <2>1. Len(LongFast) = 8
        BY DEF LongFast
    <2>2. QED
        BY <2>1, SMT DEF CopyPrintable, AtMost, MESH_CONFIG_CHANNEL_NAME_MAX
<1>3. QED
    BY <1>1, <1>2, SMT DEF ConfigInv, MeshConfigDefaults

LEMMA ConfigStep == ConfigInv /\ [ConfigNext]_config => ConfigInv'
<1> SUFFICES ASSUME ConfigInv, ConfigNext PROVE ConfigInv'
    BY DEF ConfigInv
<1>1. PICK typed \in 0 .. MaxTyped : SetLongName(typed) \/ SetShortName(typed)
    BY DEF ConfigNext
<1>2. typed \in Nat
    BY TypedAssumption, SMT
<1>3. CASE SetLongName(typed)
    <2>1. CopyPrintable(MESH_CONFIG_LONG_NAME_MAX, typed) \in 1 .. 40
        BY <1>2, <1>3, SMT DEF SetLongName, CopyPrintable, AtMost, MESH_CONFIG_LONG_NAME_MAX
    <2>2. QED
        BY <1>3, <2>1 DEF SetLongName, ConfigInv
<1>4. CASE SetShortName(typed)
    <2>1. CopyPrintable(MESH_CONFIG_SHORT_NAME_MAX, typed) \in 1 .. 5
        BY <1>2, <1>4, SMT DEF SetShortName, CopyPrintable, AtMost, MESH_CONFIG_SHORT_NAME_MAX
    <2>2. QED
        BY <1>4, <2>1 DEF SetShortName, ConfigInv
<1>5. QED
    BY <1>1, <1>3, <1>4

(* The record is valid whatever is typed, by the rules of                  *)
(* mesh_config_valid, unless the address gave it node number 0.            *)
THEOREM ConfigAlwaysValid == ConfigSpec => []ConfigStaysValid
<1>1. ConfigInv => ConfigStaysValid
    BY SMT DEF ConfigInv, ConfigStaysValid, MeshConfigValid, MESH_CONFIG_LONG_NAME_MAX,
               MESH_CONFIG_SHORT_NAME_MAX, MESH_CONFIG_CHANNEL_NAME_MAX
<1>2. QED
    BY ConfigInitially, ConfigStep, <1>1, PTL DEF ConfigSpec

-----------------------------------------------------------------------------
(* The encoders *)

\* A reply's buffer holds the longest message.
RoomEnough == HANDSHAKE_MAX_MESSAGE >= 100

LEMMA VarintLens ==
    ASSUME NEW v \in Nat
    PROVE  /\ VarintLen(v) \in Nat /\ VarintLen(v) >= 1 /\ VarintLen(v) <= 5
           /\ v < 128 => VarintLen(v) = 1
           /\ v < 16384 => VarintLen(v) <= 2
BY SMT DEF VarintLen

\* A field's tag takes one byte for the first fifteen numbers, two up to 2047.
LEMMA TagLens ==
    ASSUME NEW field \in Nat
    PROVE  /\ TagLen(field) \in Nat /\ TagLen(field) >= 1 /\ TagLen(field) <= 5
           /\ field < 16 => TagLen(field) = 1
           /\ field < 2048 => TagLen(field) <= 2
<1>1. 8 * field \in Nat /\ (field < 16 => 8 * field < 128) /\ (field < 2048 => 8 * field < 16384)
    BY SMT
<1>2. QED
    BY <1>1, VarintLens DEF TagLen

\* Some bytes wrapped in a field take two to ten more.
LEMMA SubmessageLens ==
    ASSUME NEW field \in Nat, NEW len \in Nat
    PROVE  /\ SubmessageLen(field, len) \in Nat
           /\ SubmessageLen(field, len) >= len + 2
           /\ SubmessageLen(field, len) <= len + 10
           /\ field < 16 /\ len < 128 => SubmessageLen(field, len) = len + 2
           /\ field < 2048 /\ len < 128 => SubmessageLen(field, len) <= len + 3
BY VarintLens, TagLens DEF SubmessageLen

\* The lengths of fields with the small numbers the messages use.
LEMMA VarintFields ==
    ASSUME NEW field \in Nat, field < 16, NEW v \in Nat
    PROVE  /\ VarintFieldAlwaysLen(field, v) \in Nat
           /\ VarintFieldAlwaysLen(field, v) >= 2
           /\ VarintFieldAlwaysLen(field, v) <= 6
           /\ v < 128 => VarintFieldAlwaysLen(field, v) = 2
           /\ VarintFieldLen(field, v) \in Nat
           /\ VarintFieldLen(field, v) <= 6
<1>1. /\ TagLen(field) = 1
      /\ VarintLen(v) \in Nat /\ VarintLen(v) >= 1 /\ VarintLen(v) <= 5
      /\ v < 128 => VarintLen(v) = 1
    BY TagLens, VarintLens
<1>2. QED
    BY <1>1, SMT DEF VarintFieldAlwaysLen, VarintFieldLen

LEMMA BytesFields ==
    ASSUME NEW field \in Nat, field < 16, NEW n \in Nat, n < 128
    PROVE  BytesFieldLen(field, n) \in Nat /\ BytesFieldLen(field, n) <= n + 2
<1>1. SubmessageLen(field, n) = n + 2
    BY SubmessageLens
<1>2. QED
    BY <1>1, SMT DEF BytesFieldLen

LEMMA Fixed32Fields ==
    ASSUME NEW field \in Nat, field < 16, NEW v \in Nat
    PROVE  /\ Fixed32FieldAlwaysLen(field) = 5
           /\ Fixed32FieldLen(field, v) \in Nat
           /\ Fixed32FieldLen(field, v) <= 5
<1>1. TagLen(field) = 1
    BY TagLens
<1>2. QED
    BY <1>1, SMT DEF Fixed32FieldAlwaysLen, Fixed32FieldLen

\* The outermost level holds 97 bytes at least.
LEMMA FromRadioFits ==
    ASSUME RoomEnough, NEW field \in Nat, field < 2048, NEW len \in Nat, len <= 97
    PROVE  Pushed(FromRadioLen(field, len))
<1>1. SubmessageLen(field, len) \in Nat /\ SubmessageLen(field, len) >= 2 /\ SubmessageLen(field, len) <= 100
    BY SubmessageLens
<1>2. QED
    BY <1>1, MessageAssumption, SMT DEF RoomEnough, FromRadioLen, Pushed

IsIdentity(id) ==
    /\ id.node_num \in Nat
    /\ id.id = 9
    /\ id.long_name \in Nat /\ id.long_name <= 39
    /\ id.short_name \in Nat /\ id.short_name <= 5
    /\ id.hw_model = 0

LEMMA IdentityType == ASSUME ConfigInv PROVE IsIdentity(PhoneIdentity(config))
<1>1. /\ AtMost(config.long_name, PHONE_LONG_NAME_MAX - 1) \in Nat
      /\ AtMost(config.long_name, PHONE_LONG_NAME_MAX - 1) <= 39
      /\ AtMost(config.short_name, PHONE_SHORT_NAME_MAX - 1) \in Nat
      /\ AtMost(config.short_name, PHONE_SHORT_NAME_MAX - 1) <= 5
    BY SMT DEF ConfigInv, AtMost, PHONE_LONG_NAME_MAX, PHONE_SHORT_NAME_MAX
<1>2. QED
    BY <1>1 DEF PhoneIdentity, IsIdentity, ConfigInv

LEMMA UserFits ==
    ASSUME NEW id, IsIdentity(id)
    PROVE  UserLen(id) \in Nat /\ UserLen(id) <= 59
<1>1. BytesFieldLen(1, 9) \in Nat /\ BytesFieldLen(1, 9) <= 11
    BY BytesFields
<1>2. \A n \in Nat : n <= 39 => BytesFieldLen(2, n) \in Nat /\ BytesFieldLen(2, n) <= 41
    BY BytesFields
<1>3. \A n \in Nat : n <= 5 => BytesFieldLen(3, n) \in Nat /\ BytesFieldLen(3, n) <= 7
    BY BytesFields
<1>4. VarintFieldLen(5, id.hw_model) = 0
    BY DEF IsIdentity, VarintFieldLen
<1>5. /\ BytesFieldLen(1, id.id) \in Nat /\ BytesFieldLen(1, id.id) <= 11
      /\ BytesFieldLen(2, id.long_name) \in Nat /\ BytesFieldLen(2, id.long_name) <= 41
      /\ BytesFieldLen(3, id.short_name) \in Nat /\ BytesFieldLen(3, id.short_name) <= 7
    BY <1>1, <1>2, <1>3 DEF IsIdentity
<1>6. QED
    BY <1>4, <1>5, SMT DEF UserLen

LEMMA NodeNumField ==
    ASSUME NEW id, IsIdentity(id)
    PROVE  VarintFieldAlwaysLen(1, id.node_num) \in Nat /\ VarintFieldAlwaysLen(1, id.node_num) <= 6
<1>1. \A n \in Nat : VarintFieldAlwaysLen(1, n) \in Nat /\ VarintFieldAlwaysLen(1, n) <= 6
    BY VarintFields
<1>2. QED
    BY <1>1 DEF IsIdentity

LEMMA MyNodeInfoFits ==
    ASSUME RoomEnough, NEW id, IsIdentity(id)
    PROVE  Pushed(MyNodeInfoLen(id))
<1> DEFINE inner == VarintFieldAlwaysLen(1, id.node_num) + VarintFieldLen(11, 30200)
                    + BytesFieldLen(12, 4) + BytesFieldLen(13, 18)
<1>1. /\ VarintFieldAlwaysLen(1, id.node_num) \in Nat /\ VarintFieldAlwaysLen(1, id.node_num) <= 6
      /\ VarintFieldLen(11, 30200) \in Nat /\ VarintFieldLen(11, 30200) <= 6
    <2>1. VarintFieldAlwaysLen(1, id.node_num) \in Nat /\ VarintFieldAlwaysLen(1, id.node_num) <= 6
        BY NodeNumField
    <2>2. VarintFieldLen(11, 30200) \in Nat /\ VarintFieldLen(11, 30200) <= 6
        BY VarintFields
    <2>3. QED
        BY <2>1, <2>2
<1>2. /\ BytesFieldLen(12, 4) \in Nat /\ BytesFieldLen(12, 4) <= 6
      /\ BytesFieldLen(13, 18) \in Nat /\ BytesFieldLen(13, 18) <= 20
    <2>1. BytesFieldLen(12, 4) \in Nat /\ BytesFieldLen(12, 4) <= 6
        BY BytesFields
    <2>2. BytesFieldLen(13, 18) \in Nat /\ BytesFieldLen(13, 18) <= 20
        BY BytesFields
    <2>3. QED
        BY <2>1, <2>2
<1>3. inner \in Nat /\ inner <= 38
    BY <1>1, <1>2, SMT
<1> HIDE DEF inner
<1>4. Pushed(FromRadioLen(3, inner))
    BY <1>3, FromRadioFits
<1>5. MyNodeInfoLen(id) = FromRadioLen(3, inner)
    BY <1>3, SMT DEF MyNodeInfoLen, inner
<1>6. QED
    BY <1>4, <1>5

LEMMA NodeInfoFits ==
    ASSUME RoomEnough, NEW id, IsIdentity(id)
    PROVE  Pushed(NodeInfoLen(id))
<1> DEFINE inner == VarintFieldAlwaysLen(1, id.node_num) + SubmessageLen(2, UserLen(id))
<1>1. UserLen(id) \in Nat /\ UserLen(id) <= 59
    BY UserFits
<1>2. SubmessageLen(2, UserLen(id)) \in Nat /\ SubmessageLen(2, UserLen(id)) <= 61
    BY <1>1, SubmessageLens
<1>3. VarintFieldAlwaysLen(1, id.node_num) \in Nat /\ VarintFieldAlwaysLen(1, id.node_num) <= 6
    BY NodeNumField
<1>4. inner \in Nat /\ inner <= 67
    BY <1>2, <1>3, SMT
<1> HIDE DEF inner
<1>5. Pushed(FromRadioLen(4, inner))
    BY <1>4, FromRadioFits
<1>6. NodeInfoLen(id) = FromRadioLen(4, inner)
    BY <1>1, <1>4, SMT DEF NodeInfoLen, inner
<1>7. QED
    BY <1>5, <1>6

LEMMA MetadataFits ==
    ASSUME RoomEnough, NEW id, IsIdentity(id)
    PROVE  Pushed(MetadataLen(id))
<1> DEFINE body == BytesFieldLen(1, 5) + VarintFieldLen(2, 23) + VarintFieldAlwaysLen(5, 1)
                   + VarintFieldLen(9, id.hw_model)
<1>1. BytesFieldLen(1, 5) \in Nat /\ BytesFieldLen(1, 5) <= 7
    BY BytesFields
<1>2. /\ VarintFieldLen(2, 23) \in Nat /\ VarintFieldLen(2, 23) <= 6
      /\ VarintFieldAlwaysLen(5, 1) \in Nat /\ VarintFieldAlwaysLen(5, 1) <= 6
    <2>1. VarintFieldLen(2, 23) \in Nat /\ VarintFieldLen(2, 23) <= 6
        BY VarintFields
    <2>2. VarintFieldAlwaysLen(5, 1) \in Nat /\ VarintFieldAlwaysLen(5, 1) <= 6
        BY VarintFields
    <2>3. QED
        BY <2>1, <2>2
<1>3. VarintFieldLen(9, id.hw_model) = 0
    BY DEF IsIdentity, VarintFieldLen
<1>4. body \in Nat /\ body <= 19
    BY <1>1, <1>2, <1>3, SMT
<1> HIDE DEF body
<1>5. Pushed(FromRadioLen(13, body))
    BY <1>4, FromRadioFits
<1>6. MetadataLen(id) = FromRadioLen(13, body)
    BY <1>4, SMT DEF MetadataLen, body
<1>7. QED
    BY <1>5, <1>6

LEMMA ChannelFits ==
    ASSUME RoomEnough, NEW name \in Nat, name <= 11
    PROVE  Pushed(PrimaryChannelLen(name))
<1> DEFINE settings == BytesFieldLen(2, 1) + BytesFieldLen(3, name)
           body     == SubmessageLen(2, settings) + VarintFieldAlwaysLen(3, 1)
<1>1. /\ BytesFieldLen(2, 1) \in Nat /\ BytesFieldLen(2, 1) <= 3
      /\ BytesFieldLen(3, name) \in Nat /\ BytesFieldLen(3, name) <= 13
    <2>1. BytesFieldLen(2, 1) \in Nat /\ BytesFieldLen(2, 1) <= 3
        BY BytesFields
    <2>2. BytesFieldLen(3, name) \in Nat /\ BytesFieldLen(3, name) <= 13
        BY BytesFields
    <2>3. QED
        BY <2>1, <2>2
<1>2. settings \in Nat /\ settings <= 16
    BY <1>1, SMT
<1> HIDE DEF settings
<1>3. SubmessageLen(2, settings) \in Nat /\ SubmessageLen(2, settings) <= 18
    BY <1>2, SubmessageLens
<1>4. VarintFieldAlwaysLen(3, 1) \in Nat /\ VarintFieldAlwaysLen(3, 1) <= 6
    BY VarintFields
<1>5. body \in Nat /\ body <= 24
    BY <1>3, <1>4, SMT
<1> HIDE DEF body
<1>6. Pushed(FromRadioLen(10, body))
    BY <1>5, FromRadioFits
<1>7. PrimaryChannelLen(name) = FromRadioLen(10, body)
    BY <1>2, <1>5, SMT DEF PrimaryChannelLen, body, settings
<1>8. QED
    BY <1>6, <1>7

LEMMA EmptyChannelFits ==
    ASSUME RoomEnough, NEW index \in Nat
    PROVE  Pushed(EmptyChannelLen(index))
<1>1. VarintFieldLen(1, index) \in Nat /\ VarintFieldLen(1, index) <= 6
    BY VarintFields
<1>2. Pushed(FromRadioLen(10, VarintFieldLen(1, index)))
    BY <1>1, FromRadioFits
<1>3. EmptyChannelLen(index) = FromRadioLen(10, VarintFieldLen(1, index))
    BY <1>1, SMT DEF EmptyChannelLen
<1>4. QED
    BY <1>2, <1>3

LEMMA VariantFits ==
    ASSUME RoomEnough, NEW outer \in Nat, outer < 16, NEW variant \in Nat
    PROVE  Pushed(VariantLen(outer, variant))
<1>1. SubmessageLen(variant, 0) \in Nat /\ SubmessageLen(variant, 0) <= 10
    BY SubmessageLens
<1>2. Pushed(FromRadioLen(outer, SubmessageLen(variant, 0)))
    BY <1>1, FromRadioFits
<1>3. VariantLen(outer, variant) = FromRadioLen(outer, SubmessageLen(variant, 0))
    BY <1>1, SMT DEF VariantLen
<1>4. QED
    BY <1>2, <1>3

LEMMA LoraConfigFits ==
    ASSUME RoomEnough, NEW channel_num \in Nat
    PROVE  Pushed(LoraConfigLen(channel_num))
<1> DEFINE lora == VarintFieldAlwaysLen(1, 1) + VarintFieldAlwaysLen(2, 0) + VarintFieldAlwaysLen(7, 1)
                   + VarintFieldAlwaysLen(9, 0) + VarintFieldLen(11, channel_num)
           body == SubmessageLen(6, lora)
<1>1. /\ VarintFieldAlwaysLen(1, 1) \in Nat /\ VarintFieldAlwaysLen(1, 1) <= 6
      /\ VarintFieldAlwaysLen(2, 0) \in Nat /\ VarintFieldAlwaysLen(2, 0) <= 6
      /\ VarintFieldAlwaysLen(7, 1) \in Nat /\ VarintFieldAlwaysLen(7, 1) <= 6
      /\ VarintFieldAlwaysLen(9, 0) \in Nat /\ VarintFieldAlwaysLen(9, 0) <= 6
      /\ VarintFieldLen(11, channel_num) \in Nat /\ VarintFieldLen(11, channel_num) <= 6
    <2>1. VarintFieldAlwaysLen(1, 1) \in Nat /\ VarintFieldAlwaysLen(1, 1) <= 6
        BY VarintFields
    <2>2. VarintFieldAlwaysLen(2, 0) \in Nat /\ VarintFieldAlwaysLen(2, 0) <= 6
        BY VarintFields
    <2>3. VarintFieldAlwaysLen(7, 1) \in Nat /\ VarintFieldAlwaysLen(7, 1) <= 6
        BY VarintFields
    <2>4. VarintFieldAlwaysLen(9, 0) \in Nat /\ VarintFieldAlwaysLen(9, 0) <= 6
        BY VarintFields
    <2>5. VarintFieldLen(11, channel_num) \in Nat /\ VarintFieldLen(11, channel_num) <= 6
        BY VarintFields
    <2>6. QED
        BY <2>1, <2>2, <2>3, <2>4, <2>5
<1>2. lora \in Nat /\ lora <= 30
    BY <1>1, SMT
<1> HIDE DEF lora
<1>3. body \in Nat /\ body <= 40
    BY <1>2, SubmessageLens
<1> HIDE DEF body
<1>4. Pushed(FromRadioLen(5, body))
    BY <1>3, FromRadioFits
<1>5. LoraConfigLen(channel_num) = FromRadioLen(5, body)
    BY <1>2, <1>3, SMT DEF LoraConfigLen, body, lora
<1>6. QED
    BY <1>4, <1>5

\* The answers to admin requests, from the inside out.
LEMMA AdminPacketFits ==
    ASSUME RoomEnough, NEW request \in Request, NEW payload \in Nat, payload <= 72
    PROVE  Pushed(AdminPacketLen(request, DataLen(payload, request)))
<1> DEFINE data   == DataLen(payload, request)
           packet == Fixed32FieldAlwaysLen(1) + Fixed32FieldLen(2, request.from) + SubmessageLen(4, data)
                     + Fixed32FieldLen(6, request.packet_id)
<1>1. request.from \in Nat /\ request.packet_id \in Nat
    BY SMT DEF Request
<1>2. /\ Fixed32FieldAlwaysLen(1) = 5
      /\ Fixed32FieldLen(2, request.from) \in Nat /\ Fixed32FieldLen(2, request.from) <= 5
      /\ Fixed32FieldLen(6, request.packet_id) \in Nat /\ Fixed32FieldLen(6, request.packet_id) <= 5
    <2>1. \A v \in Nat : Fixed32FieldLen(2, v) \in Nat /\ Fixed32FieldLen(2, v) <= 5
        BY Fixed32Fields
    <2>2. \A v \in Nat : Fixed32FieldLen(6, v) \in Nat /\ Fixed32FieldLen(6, v) <= 5
        BY Fixed32Fields
    <2>3. Fixed32FieldAlwaysLen(1) = 5
        BY Fixed32Fields
    <2>4. QED
        BY <1>1, <2>1, <2>2, <2>3
<1>3. data \in Nat /\ data <= 81
    <2>1. VarintFieldAlwaysLen(1, 6) = 2
        BY VarintFields
    <2>2. BytesFieldLen(2, payload) \in Nat /\ BytesFieldLen(2, payload) <= payload + 2
        BY BytesFields
    <2>3. QED
        BY <1>2, <2>1, <2>2, SMT DEF DataLen
<1> HIDE DEF data
<1>4. SubmessageLen(4, data) = data + 2
    BY <1>3, SubmessageLens
<1>5. packet \in Nat /\ packet <= 98
    BY <1>2, <1>3, <1>4, SMT
<1> HIDE DEF packet
<1>6. SubmessageLen(2, packet) = packet + 2
    BY <1>5, SubmessageLens
<1>7. Pushed(FromRadioLen(2, packet))
    BY <1>5, <1>6, MessageAssumption, SMT DEF RoomEnough, FromRadioLen, Pushed
<1>8. AdminPacketLen(request, data) = FromRadioLen(2, packet)
    BY <1>3, <1>5, SMT DEF AdminPacketLen, packet
<1>9. QED
    BY <1>7, <1>8 DEF data

\* The passkey's field has a tag of two bytes.
LEMMA PasskeyLen ==
    /\ BytesFieldLen(101, PHONE_SESSION_PASSKEY_LEN) \in Nat
    /\ BytesFieldLen(101, PHONE_SESSION_PASSKEY_LEN) <= 11
BY SubmessageLens DEF BytesFieldLen, PHONE_SESSION_PASSKEY_LEN

LEMMA OwnerResponseFits ==
    ASSUME RoomEnough, NEW id, IsIdentity(id), NEW request \in Request
    PROVE  Pushed(OwnerResponseLen(id, request))
<1> DEFINE admin == SubmessageLen(4, UserLen(id)) + BytesFieldLen(101, PHONE_SESSION_PASSKEY_LEN)
<1>1. UserLen(id) \in Nat /\ UserLen(id) <= 59
    BY UserFits
<1>2. SubmessageLen(4, UserLen(id)) \in Nat /\ SubmessageLen(4, UserLen(id)) <= 61
    BY <1>1, SubmessageLens
<1>3. admin \in Nat /\ admin <= 72
    BY <1>2, PasskeyLen, SMT
<1> HIDE DEF admin
<1>4. Pushed(AdminPacketLen(request, DataLen(admin, request)))
    BY <1>3, AdminPacketFits
<1>5. OwnerResponseLen(id, request) = AdminPacketLen(request, DataLen(admin, request))
    BY <1>1, <1>3, SMT DEF OwnerResponseLen, admin
<1>6. QED
    BY <1>4, <1>5

LEMMA EmptyStringResponseFits ==
    ASSUME RoomEnough, NEW field \in Nat, field < 16, NEW request \in Request
    PROVE  Pushed(EmptyStringResponseLen(field, request))
<1> DEFINE admin == SubmessageLen(field, 0) + BytesFieldLen(101, PHONE_SESSION_PASSKEY_LEN)
<1>1. SubmessageLen(field, 0) \in Nat /\ SubmessageLen(field, 0) <= 2
    BY SubmessageLens
<1>2. admin \in Nat /\ admin <= 13
    BY <1>1, PasskeyLen, SMT
<1> HIDE DEF admin
<1>3. Pushed(AdminPacketLen(request, DataLen(admin, request)))
    BY <1>2, AdminPacketFits
<1>4. EmptyStringResponseLen(field, request) = AdminPacketLen(request, DataLen(admin, request))
    BY <1>2, SMT DEF EmptyStringResponseLen, admin
<1>5. QED
    BY <1>3, <1>4

LEMMA RoutingAckFits ==
    ASSUME RoomEnough, NEW request \in Request
    PROVE  Pushed(RoutingAckLen(request))
BY AdminPacketFits DEF RoutingAckLen

LEMMA ConfigCompleteFits ==
    ASSUME RoomEnough, NEW nonce \in Nat
    PROVE  Pushed(ConfigCompleteLen(nonce))
<1>1. /\ VarintFieldAlwaysLen(7, nonce) \in Nat
      /\ VarintFieldAlwaysLen(7, nonce) >= 2
      /\ VarintFieldAlwaysLen(7, nonce) <= 6
    BY VarintFields
<1>2. QED
    BY <1>1, MessageAssumption, SMT DEF RoomEnough, ConfigCompleteLen, Pushed

-----------------------------------------------------------------------------
(* The replies *)

\* Every message there is of a reply is built.
LEMMA MessagesFit ==
    ASSUME RoomEnough, ConfigInv, NEW request \in Request, NEW m \in FromRadio
    PROVE  Pushed(MessageLen(config, request, m))
<1> DEFINE id == PhoneIdentity(config)
<1>1. IsIdentity(id)
    BY IdentityType
<1> HIDE DEF id
<1>2. CASE m = MyInfo
    BY <1>1, <1>2, MyNodeInfoFits DEF MessageLen, MyInfo, Msg, id
<1>3. CASE m = DeviceUi
    <2>1. Pushed(DeviceUiLen)
        BY FromRadioFits DEF DeviceUiLen
    <2>2. QED
        BY <1>3, <2>1 DEF MessageLen, DeviceUi, Msg
<1>4. CASE m = NodeInfo
    BY <1>1, <1>4, NodeInfoFits DEF MessageLen, NodeInfo, Msg, id
<1>5. CASE m = Metadata
    BY <1>1, <1>5, MetadataFits DEF MessageLen, Metadata, Msg, id
<1>6. ASSUME NEW slot \in 0 .. CHANNEL_SLOTS - 1, m = Channel(slot)
      PROVE  Pushed(MessageLen(config, request, m))
    <2>1. slot \in Nat /\ config.channel_name \in Nat /\ config.channel_name <= 11
        BY RepliesAssumption, SMT DEF ConfigInv
    <2>2. Pushed(PrimaryChannelLen(config.channel_name)) /\ Pushed(EmptyChannelLen(slot))
        BY <2>1, ChannelFits, EmptyChannelFits
    <2>3. m.kind = "channel" /\ m.n = slot
        BY <1>6 DEF Channel, Msg
    <2>4. MessageLen(config, request, m)
              = IF m.n = 0 THEN PrimaryChannelLen(config.channel_name) ELSE EmptyChannelLen(m.n)
        BY <2>3 DEF MessageLen
    <2>5. QED
        BY <2>2, <2>3, <2>4
<1>7. ASSUME NEW v \in 1 .. CONFIG_VARIANTS, m = Config(v)
      PROVE  Pushed(MessageLen(config, request, m))
    <2>1. v \in Nat /\ config.channel_num \in Nat
        BY RepliesAssumption, SMT DEF ConfigInv
    <2>2. Pushed(LoraConfigLen(config.channel_num)) /\ Pushed(VariantLen(5, v))
        BY <2>1, LoraConfigFits, VariantFits
    <2>3. m.kind = "config" /\ m.n = v
        BY <1>7 DEF Config, Msg
    <2>4. MessageLen(config, request, m)
              = IF m.n = 6 THEN LoraConfigLen(config.channel_num) ELSE VariantLen(5, m.n)
        BY <2>3 DEF MessageLen
    <2>5. QED
        BY <2>2, <2>3, <2>4
<1>8. ASSUME NEW v \in 1 .. MODULECONFIG_VARIANTS, m = ModuleConfig(v)
      PROVE  Pushed(MessageLen(config, request, m))
    <2>1. v \in Nat
        BY RepliesAssumption, SMT
    <2>2. Pushed(VariantLen(9, v))
        BY <2>1, VariantFits
    <2>3. QED
        BY <1>8, <2>2 DEF MessageLen, ModuleConfig, Msg
<1>9. ASSUME NEW nonce \in {PHONE_NONCE_CONFIG, PHONE_NONCE_NODE_INFO}, m = ConfigComplete(nonce)
      PROVE  Pushed(MessageLen(config, request, m))
    <2>1. nonce \in Nat
        BY SMT DEF PHONE_NONCE_CONFIG, PHONE_NONCE_NODE_INFO
    <2>2. Pushed(ConfigCompleteLen(nonce))
        BY <2>1, ConfigCompleteFits
    <2>3. QED
        BY <1>9, <2>2 DEF MessageLen, ConfigComplete, Msg
<1>10. ASSUME NEW a \in AdminAnswer, m = AdminReply(a)
       PROVE  Pushed(MessageLen(config, request, m))
    <2>1. /\ Pushed(OwnerResponseLen(id, request))
          /\ Pushed(EmptyStringResponseLen(11, request))
          /\ Pushed(EmptyStringResponseLen(15, request))
          /\ Pushed(RoutingAckLen(request))
        BY <1>1, OwnerResponseFits, EmptyStringResponseFits, RoutingAckFits
    <2>2. m.kind = a
        BY <1>10 DEF AdminReply, Msg
    <2>3. QED
        BY <2>1, <2>2 DEF AdminAnswer, MessageLen, id
<1>11. QED
    BY <1>2, <1>3, <1>4, <1>5, <1>6, <1>7, <1>8, <1>9, <1>10 DEF FromRadio

\* A reply holds nothing else.
LEMMA RepliesHoldMessages ==
    ASSUME NEW w \in ToRadio, NEW i \in DOMAIN ReplyTo(w)
    PROVE  ReplyTo(w)[i] \in FromRadio
<1>1. ReplyTo(w) \in Seq(FromRadio)
    BY ReplyMessages
<1> HIDE DEF ReplyTo
<1>2. QED
    BY <1>1, SMT

(* With at least 100 bytes for a message, no encoder ever fails and push   *)
(* never drops a reply (handshake.c:99).                                   *)
THEOREM RepliesAlwaysFit ==
    ASSUME RoomEnough
    PROVE  ConfigSpec => []RepliesFit
<1>1. ConfigInv => RepliesFit
    BY MessagesFit, RepliesHoldMessages DEF RepliesFit
<1>2. QED
    BY ConfigInitially, ConfigStep, <1>1, PTL DEF ConfigSpec

-----------------------------------------------------------------------------

(* Where the radio is tuned to *)

\* What the hash of a name is defined to be: its own unfolding.
Hashed(h, name) ==
    [i \in 0 .. Len(name) |->
        IF i = 0 THEN [hi |-> 0, lo |-> 5381] ELSE HashStep(h[i - 1], name[i])]

LEMMA HashUnfolds ==
    ASSUME NEW name, NEW witness, witness = Hashed(witness, name)
    PROVE  \E hash : hash = Hashed(hash, name) /\ LoraHash(name) = hash[Len(name)]
<1> DEFINE hash == CHOOSE h : h = Hashed(h, name)
<1>1. hash = Hashed(hash, name)
    OBVIOUS
<1>2. LoraHash(name) = hash[Len(name)]
    BY DEF LoraHash, Hashed
<1>3. QED
    BY <1>1, <1>2

\* The hashes of the beginnings of "LongFast".
LongFastHash ==
    [i \in 0 .. 8 |->
        CASE i = 0 -> [hi |-> 0,     lo |-> 5381]
          [] i = 1 -> [hi |-> 2,     lo |-> 46577]
          [] i = 2 -> [hi |-> 89,    lo |-> 29824]
          [] i = 3 -> [hi |-> 2952,  lo |-> 1262]
          [] i = 4 -> [hi |-> 31880, lo |-> 41749]
          [] i = 5 -> [hi |-> 3485,  lo |-> 1531]
          [] i = 6 -> [hi |-> 49469, lo |-> 50620]
          [] i = 7 -> [hi |-> 59638, lo |-> 32175]
          [] OTHER -> [hi |-> 1990,  lo |-> 13315]]

LEMMA LongFastHashSteps ==
    LongFastHash = Hashed(LongFastHash, LongFast)
<1>1. Len(LongFast) = 8
    BY DEF LongFast
<1>2. /\ LongFast[1] = 76  /\ LongFast[2] = 111 /\ LongFast[3] = 110 /\ LongFast[4] = 103
      /\ LongFast[5] = 70  /\ LongFast[6] = 97  /\ LongFast[7] = 115 /\ LongFast[8] = 116
    BY DEF LongFast
<1>3. /\ HashStep([hi |-> 0, lo |-> 5381], 76)      = [hi |-> 2, lo |-> 46577]
      /\ HashStep([hi |-> 2, lo |-> 46577], 111)    = [hi |-> 89, lo |-> 29824]
      /\ HashStep([hi |-> 89, lo |-> 29824], 110)   = [hi |-> 2952, lo |-> 1262]
      /\ HashStep([hi |-> 2952, lo |-> 1262], 103)  = [hi |-> 31880, lo |-> 41749]
      /\ HashStep([hi |-> 31880, lo |-> 41749], 70) = [hi |-> 3485, lo |-> 1531]
      /\ HashStep([hi |-> 3485, lo |-> 1531], 97)   = [hi |-> 49469, lo |-> 50620]
      /\ HashStep([hi |-> 49469, lo |-> 50620], 115) = [hi |-> 59638, lo |-> 32175]
      /\ HashStep([hi |-> 59638, lo |-> 32175], 116) = [hi |-> 1990, lo |-> 13315]
    BY SMT DEF HashStep
<1>4. ASSUME NEW i \in 1 .. 8
      PROVE  LongFastHash[i] = HashStep(LongFastHash[i - 1], LongFast[i])
    BY <1>2, <1>3, SMT DEF LongFastHash
<1>5. LongFastHash[0] = [hi |-> 0, lo |-> 5381]
    BY DEF LongFastHash
<1>6. LongFastHash = [i \in 0 .. 8 |-> LongFastHash[i]]
    BY DEF LongFastHash
<1>7. QED
    BY <1>1, <1>4, <1>5, <1>6, SMT DEF Hashed

LEMMA LongFastSlot == UsSlot(LongFast) = 19
<1>1. PICK hash : hash = Hashed(hash, LongFast) /\ LoraHash(LongFast) = hash[Len(LongFast)]
    BY LongFastHashSteps, HashUnfolds
<1>2. Len(LongFast) = 8
    BY DEF LongFast
<1>3. \A i \in 0 .. 8 : hash[i] = LongFastHash[i]
    <2>1. ASSUME NEW i \in 1 .. 8, hash[i - 1] = LongFastHash[i - 1]
          PROVE  hash[i] = LongFastHash[i]
        BY <1>1, <1>2, <2>1, LongFastHashSteps, SMT DEF Hashed
    <2>2. hash[0] = LongFastHash[0]
        BY <1>1, <1>2, LongFastHashSteps, SMT DEF Hashed
    <2> HIDE DEF LongFastHash
    <2>3. hash[1] = LongFastHash[1] /\ hash[2] = LongFastHash[2]
        BY <2>1, <2>2, SMT
    <2>4. hash[3] = LongFastHash[3] /\ hash[4] = LongFastHash[4]
        BY <2>1, <2>3, SMT
    <2>5. hash[5] = LongFastHash[5] /\ hash[6] = LongFastHash[6]
        BY <2>1, <2>4, SMT
    <2>6. hash[7] = LongFastHash[7] /\ hash[8] = LongFastHash[8]
        BY <2>1, <2>5, SMT
    <2>7. QED
        BY <2>2, <2>3, <2>4, <2>5, <2>6, SMT
<1>4. LoraHash(LongFast) = [hi |-> 1990, lo |-> 13315]
    BY <1>1, <1>2, <1>3, SMT DEF LongFastHash
<1>5. UsNumSlots = 104
    BY SMT DEF UsNumSlots, NumFreqSlots, SlotWidth, LORA_US_FREQ_START, LORA_US_FREQ_END,
               LORA_STD_SPACING, LORA_STD_PADDING, LORA_LONGFAST_BW
<1>6. QED
    BY <1>4, <1>5, SMT DEF UsSlot

\* Every slot of the band: its frequency, and the synthesiser's word.
LEMMA SlotsInBand ==
    ASSUME NEW slot \in 0 .. UsNumSlots - 1
    PROVE  LET khz == UsFrequency(slot)
           IN  /\ khz - LORA_LONGFAST_BW \div 2 >= LORA_US_FREQ_START
               /\ khz + LORA_LONGFAST_BW \div 2 <= LORA_US_FREQ_END
               /\ FreqToPll(khz) % 131072 = 0
               /\ (FreqToPll(khz) \div 131072) * 125 = khz
<1>1. UsNumSlots = 104
    BY SMT DEF UsNumSlots, NumFreqSlots, SlotWidth, LORA_US_FREQ_START, LORA_US_FREQ_END,
               LORA_STD_SPACING, LORA_STD_PADDING, LORA_LONGFAST_BW
<1>2. slot \in Nat /\ slot <= 103
    BY <1>1, SMT
<1>3. UsFrequency(slot) = 125 * (7217 + 2 * slot)
    BY <1>2, SMT DEF UsFrequency, SlotFrequency, SlotWidth, LORA_US_FREQ_START,
                     LORA_STD_SPACING, LORA_STD_PADDING, LORA_LONGFAST_BW
<1>4. FreqToPll(UsFrequency(slot)) = 131072 * (7217 + 2 * slot)
    BY <1>2, <1>3, SMT DEF FreqToPll
<1>5. QED
    BY <1>2, <1>3, <1>4, SMT DEF LORA_US_FREQ_START, LORA_US_FREQ_END, LORA_LONGFAST_BW

(* The channel number in the record is the slot the hash of the channel's  *)
(* name falls into, counted from one, and every slot's channel lies inside *)
(* the band and is tuned to without rounding (mesh_config.c:48,            *)
(* lora_config.c:57).                                                      *)
THEOREM TunedAsTheyAreTold == ConfigSpec => []TunedAsTold
<1>1. ConfigInv => TunedAsTold
    <2>1. ~LdroRequired(LORA_LONGFAST_SF, LORA_LONGFAST_BW)
        BY SMT DEF LdroRequired, LORA_LONGFAST_SF, LORA_LONGFAST_BW
    <2>2. ConfigInv => config.channel_num = 20
        BY DEF ConfigInv
    <2>3. QED
        BY <2>1, <2>2, LongFastSlot, SlotsInBand, SMT DEF TunedAsTold
<1>2. QED
    BY ConfigInitially, ConfigStep, <1>1, PTL DEF ConfigSpec

-----------------------------------------------------------------------------
(* Lengths and bytes *)

LEMMA JoinedLen ==
    ASSUME NEW a \in Seq(Byte), NEW b \in Seq(Byte)
    PROVE  a \o b \in Seq(Byte) /\ Len(a \o b) = Len(a) + Len(b)
OBVIOUS

LEMMA VarintBytes ==
    /\ \A v \in Nat : Varint[v] \in Seq(Byte)
    /\ \A v \in Nat : v < 128 => Varint[v] = <<v>>
<1> SUFFICES ASSUME NEW v \in Nat
             PROVE  Varint[v] \in Seq(Byte) /\ (v < 128 => Varint[v] = <<v>>)
    OBVIOUS
<1>1. QED
    BY VarintDef

LEMMA LongerByOne ==
    ASSUME NEW v \in Nat, v >= 128
    PROVE  /\ v \div 128 \in Nat
           /\ Len(Varint[v \div 128]) \in Nat
           /\ Len(Varint[v]) = 1 + Len(Varint[v \div 128])
<1> DEFINE byte == (v % 128) + 128
           rest == Varint[v \div 128]
<1>1. v \div 128 \in Nat /\ byte \in Byte /\ Varint[v] = <<byte>> \o rest
    BY VarintDef
<1>2. rest \in Seq(Byte)
    <2>1. v \div 128 \in Nat
        BY <1>1
    <2>2. QED
        BY <2>1, VarintDef
<1> HIDE DEF byte, rest
<1>3. Len(<<byte>> \o rest) = 1 + Len(rest) /\ Len(rest) \in Nat
    BY <1>1, <1>2
<1>4. QED
    BY <1>1, <1>3 DEF rest

\* No value of the encoders has more than 32 bits; 35 fit into five bytes.
LEMMA VarintLenOfBytes ==
    ASSUME NEW v \in Nat, (v \div 65536) \div 65536 < 8
    PROVE  Len(Varint[v]) = VarintLen(v)
<1>1. ASSUME NEW n \in Nat, n < 128 PROVE Len(Varint[n]) = 1
    <2>1. Varint[n] = <<n>>
        BY <1>1, VarintBytes
    <2>2. QED
        BY <2>1
<1>2. ASSUME NEW n \in Nat, 128 <= n, n < 16384 PROVE Len(Varint[n]) = 2
    <2>1. n \div 128 < 128 /\ n \div 128 \in Nat /\ n >= 128
        BY <1>2, SMT
    <2>2. Len(Varint[n \div 128]) = 1
        BY <1>1, <2>1, SMT
    <2>3. Len(Varint[n]) = 1 + Len(Varint[n \div 128])
        BY <2>1, LongerByOne, SMT
    <2>4. QED
        BY <2>2, <2>3, SMT
<1>3. ASSUME NEW n \in Nat, 16384 <= n, n < 2097152 PROVE Len(Varint[n]) = 3
    <2>1. 128 <= n \div 128 /\ n \div 128 < 16384 /\ n \div 128 \in Nat /\ n >= 128
        BY <1>3, SMT
    <2>2. Len(Varint[n \div 128]) = 2
        BY <1>2, <2>1, SMT
    <2>3. Len(Varint[n]) = 1 + Len(Varint[n \div 128])
        BY <2>1, LongerByOne, SMT
    <2>4. QED
        BY <2>2, <2>3, SMT
<1>4. ASSUME NEW n \in Nat, 2097152 <= n, n < 268435456 PROVE Len(Varint[n]) = 4
    <2>1. 16384 <= n \div 128 /\ n \div 128 < 2097152 /\ n \div 128 \in Nat /\ n >= 128
        BY <1>4, SMT
    <2>2. Len(Varint[n \div 128]) = 3
        BY <1>3, <2>1, SMT
    <2>3. Len(Varint[n]) = 1 + Len(Varint[n \div 128])
        BY <2>1, LongerByOne, SMT
    <2>4. QED
        BY <2>2, <2>3, SMT
<1>5. ASSUME 268435456 <= v PROVE Len(Varint[v]) = 5
    <2>1. 2097152 <= v \div 128 /\ v \div 128 < 268435456 /\ v \div 128 \in Nat /\ v >= 128
        BY <1>5, SMT
    <2>2. Len(Varint[v \div 128]) = 4
        BY <1>4, <2>1, SMT
    <2>3. Len(Varint[v]) = 1 + Len(Varint[v \div 128])
        BY <2>1, LongerByOne, SMT
    <2>4. QED
        BY <2>2, <2>3, SMT
<1> DEFINE len == Len(Varint[v])
<1>6. /\ v < 128 => len = 1
      /\ 128 <= v /\ v < 16384 => len = 2
      /\ 16384 <= v /\ v < 2097152 => len = 3
      /\ 2097152 <= v /\ v < 268435456 => len = 4
      /\ 268435456 <= v => len = 5
    BY <1>1, <1>2, <1>3, <1>4, <1>5, SMT
<1> HIDE DEF len
<1>7. len = VarintLen(v)
    BY <1>6, SMT DEF VarintLen
<1>8. QED
    BY <1>7 DEF len

\* Numbers of 32 bits, and those that leave room for a wire type in a tag.
Word32   == {v \in Nat : v \div 65536 < 65536}
FieldNum == {num \in Nat : num \div 65536 < 8192}

LEMMA TagLenOfBytes ==
    ASSUME NEW num \in FieldNum, NEW wire \in 0 .. 7
    PROVE  Tag(num, wire) \in Seq(Byte) /\ Len(Tag(num, wire)) = TagLen(num)
<1> DEFINE tag == 8 * num + wire
<1>1. tag \in Nat /\ (tag \div 65536) \div 65536 < 8 /\ VarintLen(tag) = VarintLen(8 * num)
    BY SMT DEF VarintLen, FieldNum
<1> HIDE DEF tag
<1>2. Varint[tag] \in Seq(Byte)
    BY <1>1, VarintBytes
<1>3. Len(Varint[tag]) = VarintLen(tag)
    BY <1>1, VarintLenOfBytes
<1>4. QED
    BY <1>1, <1>2, <1>3 DEF Tag, TagLen, tag

(* The lengths the encoders are counted with are those of the bytes that   *)
(* are written, for every field number and every value of 32 bits: what    *)
(* RepliesFit adds up is what pb_write.c puts into a buffer.               *)
THEOREM LengthsAreOfBytes ==
    ASSUME NEW num \in FieldNum, NEW v \in Word32, NEW bytes \in Seq(Byte), Len(bytes) \in Word32
    PROVE  /\ Len(VarintField(num, v)) = VarintFieldAlwaysLen(num, v)
           /\ Len(BytesField(num, bytes)) = SubmessageLen(num, Len(bytes))
           /\ Len(Fixed32Field(num, v)) = Fixed32FieldAlwaysLen(num)
<1> DEFINE n == Len(bytes)
<1>1. v \in Nat /\ n \in Nat
    BY DEF Word32
<1> HIDE DEF n
<1>2. (v \div 65536) \div 65536 < 8 /\ (n \div 65536) \div 65536 < 8
    <2>1. n \in Word32
        BY DEF n
    <2>2. QED
        BY <1>1, <2>1, SMT DEF Word32
<1>3. /\ Varint[v] \in Seq(Byte) /\ Len(Varint[v]) = VarintLen(v)
      /\ Varint[n] \in Seq(Byte) /\ Len(Varint[n]) = VarintLen(n)
    <2>1. Varint[v] \in Seq(Byte) /\ Varint[n] \in Seq(Byte)
        BY <1>1, VarintBytes
    <2>2. Len(Varint[v]) = VarintLen(v)
        BY <1>1, <1>2, VarintLenOfBytes
    <2>3. Len(Varint[n]) = VarintLen(n)
        BY <1>1, <1>2, VarintLenOfBytes
    <2>4. QED
        BY <2>1, <2>2, <2>3
<1>4. \A wire \in 0 .. 7 : Tag(num, wire) \in Seq(Byte) /\ Len(Tag(num, wire)) = TagLen(num)
    BY TagLenOfBytes
<1>5. WIRE_VARINT \in 0 .. 7 /\ WIRE_LEN \in 0 .. 7 /\ WIRE_FIXED32 \in 0 .. 7
    BY SMT DEF WIRE_VARINT, WIRE_LEN, WIRE_FIXED32
<1>6. FourBytes(v) \in Seq(Byte) /\ Len(FourBytes(v)) = 4
    BY <1>1, FourBytesAreBytes
<1> DEFINE t0 == Tag(num, WIRE_VARINT)
           t2 == Tag(num, WIRE_LEN)
           t5 == Tag(num, WIRE_FIXED32)
           four == FourBytes(v)
           value == Varint[v]
           length == Varint[n]
<1>7. /\ t0 \in Seq(Byte) /\ Len(t0) = TagLen(num)
      /\ t2 \in Seq(Byte) /\ Len(t2) = TagLen(num)
      /\ t5 \in Seq(Byte) /\ Len(t5) = TagLen(num)
    BY <1>4, <1>5
<1> HIDE DEF t0, t2, t5, four, value, length
<1>8. Len(VarintField(num, v)) = VarintFieldAlwaysLen(num, v)
    <2>1. Len(t0 \o value) = TagLen(num) + VarintLen(v)
        <3>1. t0 \in Seq(Byte) /\ value \in Seq(Byte) /\ Len(value) = VarintLen(v)
            BY <1>3, <1>7 DEF value
        <3>2. Len(t0 \o value) = Len(t0) + Len(value)
            BY <3>1, JoinedLen
        <3>3. QED
            BY <1>7, <3>1, <3>2
    <2>2. QED
        BY <2>1 DEF VarintField, VarintFieldAlwaysLen, t0, value
<1>9. Len(Fixed32Field(num, v)) = Fixed32FieldAlwaysLen(num)
    <2>1. Len(t5 \o four) = TagLen(num) + 4
        <3>1. t5 \in Seq(Byte) /\ four \in Seq(Byte) /\ Len(four) = 4
            BY <1>6, <1>7 DEF four
        <3>2. Len(t5 \o four) = Len(t5) + Len(four)
            BY <3>1, JoinedLen
        <3>3. QED
            BY <1>7, <3>1, <3>2
    <2>2. QED
        BY <2>1 DEF Fixed32Field, Fixed32FieldAlwaysLen, t5, four
<1>10. Len(BytesField(num, bytes)) = SubmessageLen(num, Len(bytes))
    <2>1. t2 \o length \in Seq(Byte) /\ Len(t2 \o length) = TagLen(num) + VarintLen(n)
        <3>1. t2 \in Seq(Byte) /\ length \in Seq(Byte) /\ Len(length) = VarintLen(n)
            BY <1>3, <1>7 DEF length
        <3>2. t2 \o length \in Seq(Byte) /\ Len(t2 \o length) = Len(t2) + Len(length)
            BY <3>1, JoinedLen
        <3>3. QED
            BY <1>7, <3>1, <3>2
    <2>2. Len(t2 \o length \o bytes) = TagLen(num) + VarintLen(n) + n
        BY <2>1, JoinedLen DEF n
    <2>3. QED
        BY <2>2 DEF BytesField, SubmessageLen, t2, length, n
<1>11. QED
    BY <1>8, <1>9, <1>10

=============================================================================

-------------------------- MODULE MeshtasticService --------------------------
(***************************************************************************)
(* The BLE service in operation: the stack thread delivering ToRadio       *)
(* writes, the worker thread answering them and pacing the outbound queue, *)
(* and a phone that connects, writes and goes away as it pleases.          *)
(* src/src/ble/meshtastic_service.c.                                       *)
(*                                                                         *)
(*   phone --write--> stack thread --write_queue--> worker                 *)
(*   worker --handshake--> reply --queue()--> ring --drain_step--> GATT    *)
(***************************************************************************)
EXTENDS Handshake, FromRadioQueue

CONSTANTS
    WRITE_QUEUE_DEPTH,  \* 4
    Writes,             \* the ToRadio writes this phone may make
    StackOutcome,       \* outcomes of a characteristic update: stored or not
    MaxWrites,          \* bound: writes made in a behaviour
    MaxConnections      \* bound: connections made in a behaviour

\* What the queue carries here; queue() has no caller outside the worker.
ASSUME QueueUseAssumption ==
    /\ Message = FromRadio
    /\ NoMessage = Empty
    /\ ForeignCaller = FALSE

ASSUME ServiceAssumption ==
    /\ WRITE_QUEUE_DEPTH \in Nat \ {0}
    /\ Writes \subseteq ToRadio
    /\ StackOutcome \subseteq BOOLEAN
    /\ MaxWrites \in Nat
    /\ MaxConnections \in Nat

\* "Deep enough to hold a whole stage one reply" (service.c:36).
ASSUME DepthHoldsStageOne ==
    5 + CHANNEL_SLOTS + CONFIG_VARIANTS + MODULECONFIG_VARIANTS <= QUEUE_DEPTH

VARIABLES
    write_queue,    \* service->write_queue: writes copied by the stack thread
    worker,         \* where ble_worker's loop is
    write,          \* ble_worker's local copy of the write being handled
    reply,          \* the messages of service->reply still to be queued
    stage,          \* service->handshake.stage
    drain_due,      \* furi_get_tick() has reached drain_due_tick
    connected,      \* a phone is connected
    writes_made,    \* counts to MaxWrites
    connections     \* counts to MaxConnections

workerVars  == <<worker, write, reply>>
phoneVars   == <<connected, writes_made, connections>>
serviceVars == <<queueVars, workerVars, phoneVars, write_queue, stage, drain_due>>

Init ==
    /\ QueueInit
    /\ write_queue = <<>>
    /\ worker = "get"
    /\ write = Heartbeat
    /\ reply = <<>>
    /\ stage = "Idle"
    /\ drain_due = FALSE
    /\ connected = FALSE
    /\ writes_made = 0
    /\ connections = 0

-----------------------------------------------------------------------------
(* Seeded faults, as in FromRadioQueue. *)

\* The event handler without the write queue's own limit.
WrittenUnchecked(w) ==
    /\ connected
    /\ writes_made < MaxWrites
    /\ writes_made' = writes_made + 1
    /\ write_queue' = Append(write_queue, w)
    /\ UNCHANGED <<queueVars, workerVars, connected, connections, stage, drain_due>>

\* A stage one request answered on top of what the last session left.
BeginWithoutReset ==
    /\ worker = "handle"
    /\ worker' = "respond"
    /\ UNCHANGED <<queueVars, phoneVars, write_queue, write, reply, stage, drain_due>>

\* A reset that forgets the two indices.
BeginResettingCountOnly ==
    /\ worker = "handle"
    /\ pending' = IF write.want_config = PHONE_NONCE_CONFIG THEN 0 ELSE pending
    /\ worker' = "respond"
    /\ UNCHANGED <<queue, head, tail, batchVars, stepVars, gattVars,
                   phoneVars, write_queue, write, reply, stage, drain_due>>

\* A new session that discards the writes waiting behind it as well.
BeginDiscardingWrites ==
    /\ worker = "handle"
    /\ IF write.want_config = PHONE_NONCE_CONFIG
       THEN Reset /\ write_queue' = <<>> ELSE UNCHANGED <<queueVars, write_queue>>
    /\ worker' = "respond"
    /\ UNCHANGED <<phoneVars, write, reply, stage, drain_due>>

-----------------------------------------------------------------------------
(* The phone.  Neither end of a connection is told to the service: the     *)
(* event handler looks at attribute writes only.                           *)

Connect ==
    /\ ~connected
    /\ connections < MaxConnections
    /\ connected' = TRUE
    /\ connections' = connections + 1
    /\ UNCHANGED <<queueVars, workerVars, writes_made, write_queue, stage, drain_due>>

Disconnect ==
    /\ connected
    /\ connected' = FALSE
    /\ UNCHANGED <<queueVars, workerVars, writes_made, connections, write_queue, stage, drain_due>>

(* gatt_event_handler on the stack thread: the write is copied and posted  *)
(* without waiting.  When the queue is full it is lost, acknowledged to    *)
(* the phone all the same.                                                 *)
ToRadioWritten(w) ==
    /\ connected
    /\ writes_made < MaxWrites
    /\ writes_made' = writes_made + 1
    /\ write_queue' = IF Len(write_queue) < WRITE_QUEUE_DEPTH
                      THEN Append(write_queue, w) ELSE write_queue
    /\ UNCHANGED <<queueVars, workerVars, connected, connections, stage, drain_due>>

-----------------------------------------------------------------------------
(* ble_worker: one iteration takes a write if there is one, answers it,    *)
(* then makes a drain step if one is due.                                  *)

GetWrite ==
    /\ worker = "get"
    /\ write_queue # <<>>
    /\ write' = Head(write_queue)
    /\ write_queue' = Tail(write_queue)
    /\ worker' = "handle"
    /\ UNCHANGED <<queueVars, phoneVars, reply, stage, drain_due>>

\* WORKER_POLL_MS passed and nothing was written.
GetTimeout ==
    /\ worker = "get"
    /\ write_queue = <<>>
    /\ worker' = "due"
    /\ UNCHANGED <<queueVars, phoneVars, write_queue, write, reply, stage, drain_due>>

(* handle_to_radio, first part: a stage one request empties the ring. *)
BeginHandling ==
    /\ worker = "handle"
    /\ IF write.want_config = PHONE_NONCE_CONFIG THEN Reset ELSE UNCHANGED queueVars
    /\ worker' = "respond"
    /\ UNCHANGED <<phoneVars, write_queue, write, reply, stage, drain_due>>

(* handle_to_radio, second part: the handshake fills service->reply. *)
Respond ==
    /\ worker = "respond"
    /\ reply' = ReplyTo(write)
    /\ stage' = StageAfter(stage, write)
    /\ worker' = "reply"
    /\ UNCHANGED <<queueVars, phoneVars, write_queue, write, drain_due>>

(* handle_to_radio, the loop over the replies: each is queued, or dropped  *)
(* and logged when the ring is full.  Queueing makes the drain due now.    *)
QueueReply ==
    /\ worker = "reply"
    /\ reply # <<>>
    /\ \/ Enqueue(Head(reply)) /\ drain_due' = TRUE
       \/ Refuse(Head(reply)) /\ UNCHANGED drain_due
    /\ reply' = Tail(reply)
    /\ UNCHANGED <<phoneVars, write_queue, worker, write, stage>>

EndHandling ==
    /\ worker = "reply"
    /\ reply = <<>>
    /\ worker' = "due"
    /\ UNCHANGED <<queueVars, phoneVars, write_queue, write, reply, stage, drain_due>>

(* The due check, and drain_step's first critical section if it is due.    *)
(* The next step is put one DRAIN_INTERVAL_MS off.                         *)
BeginDrain ==
    /\ worker = "due"
    /\ drain_due
    /\ DrainBegin
    /\ drain_due' = FALSE
    /\ worker' = "drain"
    /\ UNCHANGED <<phoneVars, write_queue, write, reply, stage>>

NothingDue ==
    /\ worker = "due"
    /\ ~(drain_active /\ drain_due)
    /\ worker' = "get"
    /\ UNCHANGED <<queueVars, phoneVars, write_queue, write, reply, stage, drain_due>>

Publish ==
    /\ worker = "drain"
    /\ \E stored \in StackOutcome : UpdateFromRadio(stored) \/ UpdateFromNum(stored)
    /\ UNCHANGED <<workerVars, phoneVars, write_queue, stage, drain_due>>

EndDrain ==
    /\ worker = "drain"
    /\ DrainAdvance
    /\ worker' = "get"
    /\ UNCHANGED <<phoneVars, write_queue, write, reply, stage, drain_due>>

Worker ==
    \/ GetWrite \/ GetTimeout
    \/ BeginHandling \/ Respond \/ QueueReply \/ EndHandling
    \/ BeginDrain \/ NothingDue \/ Publish \/ EndDrain

\* DRAIN_INTERVAL_MS goes by.
IntervalElapses ==
    /\ ~drain_due
    /\ drain_due' = TRUE
    /\ UNCHANGED <<queueVars, workerVars, phoneVars, write_queue, stage>>

-----------------------------------------------------------------------------
Phone == Connect \/ Disconnect \/ \E w \in Writes : ToRadioWritten(w)

Next == Phone \/ Worker \/ IntervalElapses

Spec == Init /\ [][Next]_serviceVars

(* The worker loops for ever and is never blocked by the phone, and time   *)
(* passes.  Nothing is assumed of the phone or of the stack's answers.     *)
Fairness == WF_serviceVars(Worker) /\ WF_serviceVars(IntervalElapses)

FairSpec == Spec /\ Fairness

-----------------------------------------------------------------------------
(* Properties *)

ServiceTypeOK ==
    /\ TypeOK
    /\ write_queue \in Seq(Writes) /\ Len(write_queue) <= WRITE_QUEUE_DEPTH
    /\ worker \in {"get", "handle", "respond", "reply", "due", "drain"}
    /\ write \in Writes \cup {Heartbeat}
    /\ reply \in Seq(FromRadio) /\ Len(reply) <= HANDSHAKE_MAX_REPLIES
    /\ stage \in HandshakeStage
    /\ drain_due \in BOOLEAN
    /\ connected \in BOOLEAN
    /\ writes_made \in 0 .. MaxWrites
    /\ connections \in 0 .. MaxConnections

\* The handshake answers a nonce unless it finds an admin request beside it.
Answering(nonce) ==
    /\ worker \in {"respond", "reply"}
    /\ write.want_config = nonce
    /\ write.admin = "none"

Publishing(m)    == Published /\ offered = m

(* A stage one reply reaches the ring whole and alone: at every moment of  *)
(* the queueing loop, what is in the ring followed by what is still to be  *)
(* queued is exactly the sequence the client assumes the shape of.  So it  *)
(* is never truncated ("reply 31 of 36 dropped", service.c:472), and no    *)
(* message an earlier session left behind is mixed into it.                *)
StageOneIntact ==
    Answering(PHONE_NONCE_CONFIG) /\ worker = "reply" => Contents \o reply = StageOneReply

(* The service drives the ring only in the ways the queue component        *)
(* allows: no queueing and no reset in the middle of a drain step.         *)
ServiceUsesQueue == QueueSpec

(* Every stage one request is followed by its config_complete_id being     *)
(* published, unless a newer stage one request takes its place, whatever   *)
(* else the phone writes and whichever updates the stack refuses.          *)
StageOneCompletes ==
    Answering(PHONE_NONCE_CONFIG) ~>
        \/ Publishing(ConfigComplete(PHONE_NONCE_CONFIG))
        \/ worker = "handle" /\ write.want_config = PHONE_NONCE_CONFIG

(* A batch ends: once anything is queued the empty value is published in   *)
(* the end, which "is how the phone learns to stop" (service.c:369).       *)
BatchEndsEmpty == drain_active ~> Publishing(Empty)

(* A write the stack thread posted is handled: whatever stands before it   *)
(* in the write queue, and however full the ring is, its turn comes.       *)
WritesGetHandled ==
    \A w \in Writes :
        (\E i \in DOMAIN write_queue : write_queue[i] = w) ~> (worker = "handle" /\ write = w)

(* "Each message is queued STAGE_TWO_REPEATS times, not once"              *)
(* (handshake.c:163): when a stage two reply has been queued, the ring     *)
(* ends with all of it.                                                    *)
StageTwoRepeated ==
    Answering(PHONE_NONCE_NODE_INFO) /\ worker = "reply" /\ reply = <<>> =>
        /\ pending >= 2 * STAGE_TWO_REPEATS
        /\ SubSeq(Contents, pending - 2 * STAGE_TWO_REPEATS + 1, pending) = StageTwoReply

=============================================================================

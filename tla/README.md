# Verification of meshtastic-flipper

TLA+ models of the Flipper Zero Meshtastic application, checked with TLC; what
matters most about the outbound BLE queue, the service around it, the receive
path, the two lifecycles, the node's configuration and the codecs is proved with
TLAPS, and with it every invariant and action property a run checks. Paths below are relative to the
repository (`src/ble/meshtastic_service.c` and so on); line numbers are those of
the commit modelled. `service.c` and `handshake.c` are short for
`meshtastic_service.c` and `meshtastic_handshake.c`.

## 1. The system

The application listens to a LoRa mesh through an SX1262 module, shows what it
hears on the screen, and poses as a Meshtastic device to a phone over Bluetooth
LE. Four threads touch its state:

| thread | runs | state it changes |
|---|---|---|
| radio thread | `radio_thread` in `app.c` | the model, under `app->mutex` |
| main loop | `mesh_app_run` in `app.c` | `page`, `scroll`, the life of everything else |
| GUI thread | `app_view_draw`, the input callback | the input queue, the statistics snapshot; nothing in the model. Takes either mutex only if it is free |
| BLE worker | `ble_worker` in `service.c` | handshake, outbound ring, GATT values |
| BLE stack | `gatt_event_handler` and the GATT data callbacks | the write queue, copies out of the ring |

(The last is a system thread that calls into the service.)

### Inventory

**Outbound queue and drain** (`service.c`). State: a ring of 40 messages
(`queue`, `head`, `tail`, `pending`), `drain_active`, `doorbell_rung`, the GATT
values FromRadio and FromNum. Operations: `meshtastic_ble_service_queue`,
`drain_step` with `publish_head`, the data callbacks `from_radio_data` and
`from_num_data`, the reset at a stage one request. Hard because a phone's reads
are invisible to an application: a message is published, left for an interval
and then consumed, in two critical sections with a call into the stack between
them. Correct when the indices agree, no message is stranded with the worker
disarmed, what is consumed is what was published, each batch rings once and ends
in an empty value.

**Drain pacing** (`service.c`). State: `drain_due_tick`, the tick counter.
Operations: the worker's poll and due check, `queue()` making the drain due.
Hard because of the wrap of a 32-bit counter and because two places move the due
tick. Correct when an armed drain keeps its pace and a message stays readable
for its interval.

**Handshake** (`handshake.c`). State: the stage. Operation:
`handshake_handle_to_radio`, which turns a write into a reply of up to 36
messages. Correct when each request gets the sequence the client expects.

**ToRadio writes and worker loop** (`service.c`). State: a write queue of four,
the worker's place in its loop, the reply being queued. Operations:
`gatt_event_handler`, `ble_worker`, `handle_to_radio`. Hard because a phone may
disconnect, reconnect and write at any moment of a drain, and neither end of a
connection is told to the service. Correct when a stage one reply is queued
whole, and every request is in the end answered.

**Message ring** (`message_ring.c`) and **node roster** (`node_roster.c`). State:
the last 16 texts; the last 32 nodes with what is known of each. Correct when a
reader sees the newest texts and the most recently heard nodes in order, each
entry telling only what was heard from its own node.

**Receive path and page navigation** (`app.c`, `mesh_event.c`, `app_view.c`).
State: counters, the page and the scroll position. Hard because the GUI thread
may not wait for the mutex, and so draws in the middle of an update. Correct when
a draw shows a list that was once true and starts on a row that exists.

**Application lifecycle** (`app.c`). State: what is allocated, `running`, the
input queue. Operations: `mesh_app_alloc`, `_run`, `_free`, the radio thread's
loop, the input and exit callbacks. **BLE profile and service lifecycle**
(`meshtastic_profile.c`, `service.c`). State: the profile the Flipper runs, the
service's allocations, `worker_running`, the statistics and their snapshot.
Operations: `meshtastic_ble_start`, `_stop`, the service's `_alloc`, `_free` and
`_stats`. Hard because each may fail halfway and nothing but order protects the
threads that hold pointers. Correct when nothing is freed in use, and the Flipper
gets its default profile back.

**Radio driver** (`sx126x.c`, `source_radio.c`). SPI transactions, reception by
polling interrupt flags, bring-up with several steps that may fail.

**Phone protocol codec** (`phone_encode.c`, `pb_write.c`). No state. Encoders
build each message inside out in buffers on the stack and fail when one is too
small; decoders find an admin request three messages deep. Correct when every
reply is built whatever the node is called, and a request is found exactly where
there is one.

**Mesh frame codec** (`mesh_header.c`, `mesh_data.c`, `mesh_user.c`,
`mesh_channel.c`, `mesh_encode.c`, `mesh_decode.c`) and **encryption**
(`mesh_crypto.c`, a vendored AES). No state. Correct when what was sent is what
is decoded, a cut message is told from a whole one, and a name from the air can
be drawn.

**Mesh configuration** (`mesh_config.c`). State: the record of the node's
identity. **LoRa parameters** (`lora_config.c`). No state: slots and frequencies.
Correct when the record stays valid and the phone is told the channel the radio
is on.

**Screens** (layout of text) and **host tests and build**: no state of their own.

## 2. Modules

| module | models | built on |
|---|---|---|
| `Outbox` | what the outbound side promises: a bounded first-in first-out list whose oldest message is offered, then dropped | |
| `FromRadioQueue` | the ring, `queue()`, the reset, `drain_step` step by step, the doorbell | refines `Outbox` |
| `DrainPacing` | ticks, due tick, the worker's poll | extends `FromRadioQueue` |
| `Handshake` | stage and reply to each kind of write | |
| `PhoneEncode` | how long each message of a reply comes out, level by level | extends `Handshake` |
| `LoraConfig` | channel hash, slots, frequencies, synthesiser word | |
| `MeshConfig` | the configuration record and its setters | extends `PhoneEncode`, `LoraConfig` |
| `Protobuf` | varints and fields in bytes, written and read | |
| `MeshCodec` | the decoders, the frame there and back, a sender that builds messages | extends `Protobuf` |
| `MeshtasticService` | stack thread, write queue, worker loop, `handle_to_radio`, a phone | extends `Handshake`, `FromRadioQueue`; refines `FromRadioQueue` and, through it, `Outbox` |
| `MessageRing`, `NodeRoster` | the two tables and their readers, as operators | |
| `ReceivePath` | radio thread, main loop, draws with and without the mutex | extends both |
| `RadioDriver` | the SX1262 driver and the frame source: bring-up, polling, letting go | |
| `AppLifecycle` | main thread from alloc to free, radio thread, input and exit callbacks | extends `RadioDriver` |
| `BleLifecycle` | the profile and its service from start to stop: main thread, worker, event handler, draws of the statistics | |
| `MCFromRadioQueue`, `MCMeshtasticService`, `MCReceivePath`, `MCCodec` | instances for TLC | |
| `FromRadioQueue_proofs`, `DrainPacing_proofs`, `MeshtasticService_proofs`, `Protobuf_proofs`, `MeshCodec_proofs`, `ReceivePath_proofs`, `AppLifecycle_proofs`, `BleLifecycle_proofs` | theorems and their lemmas | each extends the module it is named after; `FromRadioQueue_proofs` extends `MCFromRadioQueue`, whose counter of doorbells it speaks of; `MeshtasticService_proofs` also holds what is proved of what the service answers with, `Handshake`, `PhoneEncode` and `MeshConfig`, and so extends `Protobuf_proofs` too; `MeshCodec_proofs` extends `Protobuf_proofs` |

### How they correspond to the code

*`FromRadioQueue`.* The variables of the ring and the batch have the names of the
fields. `drain_pc` is the place inside `drain_step`: `DrainBegin` is its first
critical section (350-358), `UpdateFromRadio` and `UpdateFromNum` the two
characteristic updates of `publish_head`, each of which calls back a data
callback and may be refused by the stack, `DrainAdvance` the second critical
section (360-381). `Enqueue` and `Refuse` are the two outcomes of `queue()`,
`Reset` the block at 466-481. A message is opaque; the arguments `queue()`
rejects (empty, too long) never come from the only caller. `ForeignCaller` says
whether a thread other than the worker may call `queue()`: the code has no such
caller today, and a comment at 401-403 wants there to be one.

*`DrainPacing`.* One unit of time is a worker poll of 50 ms. `NotBefore` is the
signed comparison of line 683, `Later` the addition of line 684. Updates finish
within one unit. `owed`, `rearmed` and `waited` observe; they guard nothing.

*`Handshake`.* A write is what the decoders find in it: a nonce, an admin
request, both or neither. `handle_to_radio` looks for the nonce and the handshake
for the admin request first, so a stage one request with an admin request beside
it empties the ring and gets the other's answer. A message is the FromRadio field it carries with the number
that tells it from others of its kind. The handshake's four stages and its order
of tests are kept. An encoder that runs out of room would make the whole reply
fail; that none does is the matter of `PhoneEncode`.

*`PhoneEncode`.* Of a message only its lengths are kept, since nothing else can
make an encoder fail. `VarintLen`, `TagLen` and the `...FieldLen` operators are
`pb_write.c`; each message's operator has the levels of its encoder and the size
of the buffer of each level. `MessageLen` gives the length of every message of
every reply of `Handshake`, so the two modules together say whether a reply goes
out. The lengths of fixed texts (version, PlatformIO name, device id) are
literals.

*`LoraConfig`.* Numbers are kilohertz where the code has floats of megahertz, all
of them whole kilohertz below 2^24. The 32-bit hash is two halves of 16 bits, and
the product with 2^25 is split, as TLC's integers have 32 bits.

*`MeshConfig`.* Of a name the length is kept. `ConfigInit` is any node number the
Bluetooth address may give, 0 among them: `mesh_app_alloc` does not look, and
the record is then invalid from the start. `SetLongName` and `SetShortName` model the setters,
which nothing in the application calls yet.

*`Protobuf`, `MeshCodec`.* Bytes, fields and walks as the code has them. The same
loop stands in five functions (`mesh_data.c`, `mesh_user.c`, three in
`phone_encode.c`); `Walk` is that loop once, its result the fields it got to and
whether it reached the end, and each decoder is a choice among these fields. The
differences are kept: `mesh_data_parse` and `mesh_user_parse` leave what they
found before a malformed field, the phone's decoders find nothing then;
`scan_field` compares numbers in 64 bits and takes a fixed32 for a value, the
others do not. The sender is external: `AddField` and `Wrap` build a message
field by field and put it into a field of another. Both keep to what can be
written: `Writable` says which fields (a tag is a `uint32_t`, a varint has so many
bits), `Sayable` that a message is no longer than a length field can say. What is
offered in the three fields a request is looked for in is a message and not loose
bytes (`EnvelopeAssumption`), since `AdminDecodedAsSent` speaks of messages in
messages. AES is external: `Pad` is some function of key, nonce and place. `Xor`
is the `^` of two bytes, bit by bit. What a loop of the code computes is a
recursive function here (`Varint`, `ReadVarint`, `Walk`, `XorHash`), which the
theorems can speak of.

*`MeshtasticService`.* `worker` is the place in the loop of `ble_worker`; each
action from `GetWrite` to `EndDrain` is one call or critical section of it.
`drain_due` stands for the comparison that `DrainPacing` models in full: it is
set by `queue()` and by the passing of an interval, and cleared by a step. A
write to a full write queue is lost, as the put without a timeout loses it. The
session passkey, the configuration record and the log lines are left out.

*`NodeRoster`.* The table is the sequence of its entries in slot order.
`last_seen` is compared as a plain number and `hops_away` taken in eight bits, as
the code does. `snr` goes the way of `rssi` and `has_name` that of the names.

*`ReceivePath`.* The critical section of `radio_thread` is five steps, because a
draw whose try-lock fails reads between them; the filling of a slot and the
moving of head and count are two. Two things are coarser than the code: the slot
is filled at once, and a draw reads at one moment. The page and the scroll
position move without the mutex, so `Turn`/`ResetScroll` and
`ScrollDown`/`CountRows`/`ClampScroll` are separate steps. For a moment between
them a draw may find the position past the last row and show an empty page,
until the redraw that ends the handling of the input; the property
`ScrollWithinRows` is about what remains after that.

*`RadioDriver`.* Each transaction on the SPI bus is a step that may fail, and the
chip may finish receiving a frame between any two of them, over the one before.
Frames are numbers in the order of arrival. The dozen commands of
`sx126x_configure_lora` are one step, as any of them failing has one effect.
`start_pc` and `poll_pc` are the places inside `radio_start` and `radio_poll`;
nothing but `ctx->running` stands between the two. Once the session is closed a
transaction reads anything (`Junk`, any flags). The count of CRC errors and the
signal values are left out.

*`AppLifecycle`.* `main` is the place of the main thread, `thread` that of
`radio_thread`, whose work on a frame is `ReceivePath`'s matter and is reduced to
noting the frame. `live` is what is allocated. `gui_remove_view_port` is external:
it is taken to wait for a callback in progress, since otherwise freeing the input
queue right after it would free it under that callback. The loader's callback is
two steps, the flag and the post. Starting and stopping the BLE profile is
`BleLifecycle`'s matter; the two modules share no variable, since the Bluetooth
side is started before the view port is shown and stopped after it is removed.

*`BleLifecycle`.* `main` is the place of the main thread in `meshtastic_ble_start`,
`meshtastic_ble_stop` and what they make the Bt service call; a failed start of
the profile is external and taken to leave no profile running, as that service
stops one before it starts the other. `worker` keeps the loop of `ble_worker`
with its two looks at the flag; `handle_to_radio` is reduced to at most one
message per write and the ring to its counts, which are written in the two
places and the order of the code. Removing the view port and unregistering the
event handler are external and taken to wait for a callback in progress. A
characteristic that cannot be added is left out, as the code does not look.

Sections or comments headed *seeded fault* mark altered copies of definitions. No
specification uses them; each names a plausible mistake that the property listed
with it must refute.

## 3. What is checked

| run | what it shows | states |
|---|---|---|
| `queue` | with `queue()` called by any thread at any moment of a drain step: `RingCoherent`, `NeverStranded`, `BellCoversBatch`, `OneDoorbellPerBatch`, and a published message is the one consumed (`PublishedNotReplaced`) | 16 thousand |
| `pacing` | wherever the tick counter stands when it wraps: an armed drain steps at the first poll at which it is due, an interval later at most (`DrainKeepsPace`); a message stays readable for a whole interval unless a reply is queued while it is, and the messages after it do again (`UndisturbedReadingWindow`) | 130 thousand |
| `service_safety` | four writes of every kind over two connections: a stage one reply reaches the ring whole and alone (`StageOneIntact`), what is consumed was published (`ConsumesWhatWasPublished`), and the service refines the queue and the outbox (`ServiceUsesQueue`, `OutboxSpec`) | 750 thousand |
| `service_live` | with updates refused at will: stage one ends with its completion marker or is superseded (`StageOneCompletes`), a batch ends with the empty value (`BatchEndsEmpty`), a posted write is handled (`WritesGetHandled`) | 42 thousand |
| `receive` | four frames of every kind from three nodes: a draw with the mutex shows the newest texts (`MessagesAreLatest`) and the most recently heard nodes in order (`RosterIsRecency`), each with its own history (`RosterTellsHistory`); the position stays on a row (`ScrollWithinRows`) | 2.2 million |
| `lifecycle` | every step of the bring-up failing at will, key presses, an exit request at any moment, frames between any two transactions: nothing freed is in use (`NobodyUsesFreed`), no frame is invented although the session is ended under the thread that polls it (`TakenWereReceived`), none is taken twice or out of order unless the chip refused to clear its flags (`TakenOnce`), the bus is let go after any failure (`BusReleased`), an exit that was heard ends the application (`ExitEnds`) | 320 thousand |
| `ble` | writes, draws and every failure of the start at any moment: nothing of the service is freed under a thread at work on it (`ServiceOutlivesUsers`), the statistics are of one moment (`SnapshotAddsUp`), an application told to leave ends with the default profile (`StopRestores`) | 107 thousand |
| `codec` | names of every length: a valid record stays valid (`ConfigStaysValid`), every message of every reply is built (`RepliesFit`), the phone is told the radio's channel (`TunedAsTold`). Messages of every shape up to four deep: each decoder finds what was meant for it (`DecodedAsSent`, `AdminDecodedAsSent`), a cut is told (`CutsAreTold`), names can be drawn (`UserNamesSafe`), a text comes back from a frame (`TextRoundTrip`) | 30 thousand |

Two runs expect a violation of something a comment says:

| run | what the code says | what it does |
|---|---|---|
| `service_stage_two` | "Each message is queued STAGE_TWO_REPEATS times, not once" (handshake.c:163) | stage two does not empty the ring; handled while stage one drains, only what fits is queued and the end, the completion marker, is dropped. With the code's own numbers |
| `receive_torn_draw` | a draw without the lock shows "slightly stale model data" (app_view.c:383) | on a full ring it may show the newest text in the place of the oldest, a list that never was |

and two runs a defect:

| run | what happens |
|---|---|
| `receive_wrap` | the tick counter wraps (49.7 days after boot), `node_roster.c` compares the ticks as plain numbers, and the node just heard ranks last and is the next to be evicted |
| `ble_failed_start` | when the Meshtastic profile does not start, the Bt service has stopped the default one; `app->ble` is NULL, `mesh_app_free` restores the default profile only `if(app->ble)` (app.c:180), and the application ends with no profile running |

### Bounds

- *Depth of the ring*: 3 instead of 40 in `queue` and `pacing` (empty, partly
  full, full and wrapped all occur; the proofs cover every depth). In
  `service_safety` and `service_live` the handshake is shrunk with the ring: one
  channel, no variants, a stage one reply of 6 in a ring of 7, so two replies do
  not fit, which is the relation 36 and 40 have. `service_stage_two` uses 8, 10,
  13, 4, 36 and 40.
- *Time*: an interval of 3 units instead of 7 and a counter of 16 values; the
  counter starts at every value, so the wrap falls at every point of a batch.
  One message suffices, as nothing in `DrainPacing` looks at what is sent.
- *Phone*: two or four writes (`MaxWrites`) over one or two connections
  (`MaxConnections`), with a write queue of 2. Two writes are enough for one to
  find the other's reply draining; four fill the write queue behind them.
- *Receive*: tables of 2 and three nodes, four frames (`MaxFrames`): enough to
  fill, wrap, evict and hear again an evicted node. Frames arrive at least one
  tick apart. In `receive` and `receive_torn_draw` the device was just booted, so
  the counter does not wrap.

- *Lifecycle*: two frames (`MaxFrames`), an input queue of 2 and three key presses
  (`MaxInputs`): the queue fills, with the GUI waiting behind it, before and after
  the main loop has left.

- *BLE lifecycle*: a write queue of 2 and four writes (`MaxWrites`): it overflows,
  and writes arrive before, during and after the worker has left. The counters of
  the statistics are bounded by the writes.
- *Codec*: the numbers of the code for slots, variants, repeats, buffers and the
  lengths of configured names, which may be typed up to two characters longer
  than the longest kept (`MaxTyped`); of the node numbers the one that takes the
  most bytes and 0 (`NodeNums`). Varints have 16 bits instead of 64 and words 8 instead
  of 32, so that values lose bits at both widths in messages of a few bytes;
  names from the air have arrays of 3 and 2, so that texts of two and three bytes
  are shorter than, as long as and longer than what is kept. `WrapIn`, `Offered`
  and `MaxFields` say what a sender may build: two fields, wrapped as a ToRadio
  wraps an admin message, with up to three fields beside it in each level, among
  them unknown numbers, every wire type, and repeated and contradicting values.
  `TxParams` has two keys and both acknowledgement flags. The record and the
  message share nothing, so one rests at its start while the other is explored.
  `TunedAsTold` has no parameters but the record.

Deadlock is checked in every run but `lifecycle`, `ble` and `ble_failed_start`,
where the application ends, and `codec`, where a message is at some point
complete.

### Fairness

`service_live` assumes weak fairness of the worker, which loops for
ever, waits at most 50 ms for a write and takes the mutex only against short
critical sections, and weak fairness of `IntervalElapses`, the passing of time.
Nothing is assumed of the phone, which may fall silent, and the stack may refuse
every update. That a call into the stack returns is part of the worker's
fairness. `lifecycle` assumes weak fairness of the two threads and of callbacks
that can go on, and nothing of the user, the loader or the air. `ble` assumes weak
fairness of the main thread, the worker, the put of a handler that has begun and
a draw that has begun: none of them waits for anything but a critical section
shorter than its own, or for the one the code joins. Whether the user quits, the
phone writes or the screen is drawn is left open.

`ExitEnds` has one exception in its statement, and it occurs: once the main loop
has left, nobody takes events out of the input queue, and an input callback that
finds it full waits for ever (app.c:21) while `mesh_app_free` waits for the GUI.
Eight events in the time of a stop and a join are needed; each key press posts
three.

## 4. What is proved

For every depth of a ring, queue or table, every set of messages, every number of
channels, variants, repeats, frames, key presses and writes, and behaviours of any
length:

| theorem | says |
|---|---|
| `QueueTypeCorrect` | `TypeOK`: no index leaves the ring |
| `RingStaysCoherent` | `RingCoherent`, with callers on any thread |
| `MessagesNeverStranded` | `NeverStranded`, with callers on any thread |
| `BatchAlwaysRung` | `BellCoversBatch`, with callers on any thread |
| `PublishedNeverReplaced` | `PublishedNotReplaced`, with callers on any thread |
| `OneDoorbellRung` | `OneDoorbellPerBatch`, with callers on any thread |
| `PublishedThenConsumed` | `ConsumesWhatWasPublished`, if the worker is the only caller |
| `RingImplementsOutbox` | `QueueSpec => OutboxSpec`, if the worker is the only caller |
| `ServiceImplementsQueue` | `Spec => QueueSpec` for the whole service: the theorems above hold of it |
| `ServiceImplementsOutbox` | `Spec => OutboxSpec` for the whole service: its messages leave in the order they entered, each offered before it is dropped |
| `ServiceConsumesPublished` | `ConsumesWhatWasPublished` for the whole service |
| `StageOneNeverTruncated` | `StageOneIntact`: whatever was left in the ring and whatever is written, a stage one reply is queued whole and alone |
| `PacingImplementsQueue` | `Spec => QueueSpec` for the paced drain: the theorems about the queue hold of it |
| `DrainAlwaysPaced` | `DrainKeepsPace`, for any interval and range of the tick counter |
| `ReadingWindowKept` | `UndisturbedReadingWindow`, if the worker is the only caller |
| `PositionOnRow` | `ScrollWithinRows`: a position settles on a row that exists, although the rows are counted while the lists change |
| `MessagesShown` | `MessagesAreLatest`: a draw with the mutex shows the newest texts, newest first |
| `RosterByRecency` | `RosterIsRecency`: the node list is that of the most recently heard nodes, in order, each once - if the tick counter does not wrap |
| `NodesListedOnce` | wherever the tick counter stands and also across its wrap: no node is listed twice, none that was not heard, the one heard last is listed, and one is missing only from a full table |
| `RosterTold` | `RosterTellsHistory`: an entry tells what was heard from its node since it came into the table - under the same condition, and if no frame survived more hops than it was sent with |
| `NothingFreedUnderThreads` | `NobodyUsesFreed`: the radio thread and the GUI's callbacks find what they work on allocated |
| `FramesAreReal` | `TakenWereReceived`: although the session is ended under the polling thread, no frame is invented |
| `FramesTakenOnce` | `TakenOnce`: no frame is taken in twice or out of order unless the chip refused to clear its flags |
| `BusIsReleased` | `BusReleased`: whichever step of the bring-up failed, the bus is let go |
| `NothingFreedInUse` | `ServiceOutlivesUsers`: likewise for the worker, the event handler and the statistics |
| `StatisticsAddUp` | `SnapshotAddsUp` |
| `EndedIsRestored` | the safety half of `StopRestores`: where the Meshtastic profile ran, an application that has ended has brought the default one back |
| `ConfigAlwaysValid` | `ConfigStaysValid`: whatever is typed, the record stays valid unless its node number is 0 |
| `RepliesAlwaysFit` | `RepliesFit`, if a message may have 100 bytes (it may have 192) |
| `LengthsAreOfBytes` | the lengths `RepliesFit` is counted with are those of the bytes `Protobuf` writes, for every field number and 32-bit value |
| `TunedAsTheyAreTold` | `TunedAsTold`: the channel number the phone is told is the radio's, and every slot lies in the band and is tuned to without rounding |
| `WalkStaysInside` | whatever the bytes are, each field a decoder's loop gets to lies inside them and behind where it was looked for |
| `AlwaysDecodedAsSent` | `DecodedAsSent`: of any fields in any order, however often, each decoder finds what was meant for it |
| `CutsAlwaysTold` | `CutsAreTold`: a cut message is accepted if and only if it was cut between two fields |
| `AdminAlwaysDecodedAsSent` | `AdminDecodedAsSent`, for messages wrapped to any depth |
| `UserNamesAlwaysSafe` | `UserNamesSafe`, for arrays of any size |
| `TextsAlwaysRoundTrip` | `TextRoundTrip`: any text that fits comes out of its frame, under any header, and out of no other key index's channel |
| `PacingTypeCorrect`, `ServiceTypeCorrect`, `ReceiveTypeCorrect`, `LifecycleTypeCorrect`, `BleTypeCorrect` | the type invariants of the other state machines |

*Assumptions.* `DepthAssumption` (the ring has a slot), `NoMessageAssumption`,
`CallerAssumption`; `PacingAssumption` (the counter's range is even and more than
twice the interval and a poll: 2^32 ms against 350); `RingCapacityAssumption`,
`RosterCapacityAssumption` and `ReceiveAssumption` for the receive path; for the service `RepliesAssumption` (a reply fits the array of
the handshake: 36), `DepthHoldsStageOne` (a stage one reply fits the ring:
36 <= 40) and `QueueUseAssumption` (the queue carries FromRadio messages and the
worker alone calls `queue()`); for the configuration `NodeNumsAssumption` (the
address gives 31 bits); for the codec `BitsAssumption` (a word has at
least 8 bits and no more than a varint: 32 and 64), `NamesAssumption` (an array of
a name has room for its terminator), `SenderAssumption` (fields offered can be
written), `EnvelopeAssumption` and `FrameAssumption` (a header has three 32-bit
numbers, two of three bits and a flag; the key index is not 0, which would mean no
encryption). The runs evaluate them all. Three things are
hypotheses of single theorems: the 100 bytes of `RepliesAlwaysFit`; `NoWrap`, that
the frames end before the tick counter wraps, without which `RosterIsRecency` is
false, as run `receive_wrap` shows; and `HopsSurvive`, that a frame's hop limit
does not exceed the hops it started with where those are given ("hop_start is what
the sender set; hop_limit is what survived the trip", node_roster.c:54), without
which the difference of eight bits is not the distance (section 5).

*Argument.* `RingCoherent` alone is about the sequence `Contents`; the inductive
form `RingInv` says it slot by slot (head is `pending` places after tail, and the
slots between hold messages), which lets each action be checked with arithmetic
on `SlotAfter`: the lemmas `SlotAfterNext` and `SlotAfterInjective` say that
stepping round the ring meets no slot twice. `NeverStranded` and the doorbell
property need one another's companion facts inside a drain step, where the flag
has been raised and the message not consumed; `BatchInv` adds these. That a batch
rings only once is seen from the flag too: raised, it says that the batch has rung
or that the step under way is about to, and `BellsInv` tells the two apart by the
place in the step and its local `ring`.
`PublishedNotReplaced` needs `RingInv`: a ring with room stores at another slot than
the oldest message's.
`RingImplementsOutbox` rests on two lemmas about `Contents`: `Enqueue` appends to
it, `DrainAdvance` takes its tail; every other step leaves it, and the
consumption is an abstract `Drop` by `ConsumesWhatWasPublished`. For the service,
`WorkerTypeOK` carries the type of the reply, each action of the worker is an
action or a stutter of the queue, and `StageOneInv` strengthens `StageOneIntact`
with the place before the loop, where the ring is empty because the reset has
just emptied it: from there each iteration moves the head of `reply` to the end of
`Contents`, and finds room because the whole sequence fits the ring. As the worker
is the only caller of `queue()` there (`QueueUseAssumption`), the refinement of the
outbox carries over. `PhoneTypeOK` completes the types: nothing is handled that
the phone did not write.

For the pacing, five lemmas reduce the wrapping counter to one correction
(`LaterWithin`) and the signed comparison to ahead or come (`NotBeforeWithin`,
which needs the range to exceed twice the interval: `PacingAssumption`). `PaceInv`
then places the due tick: an interval less what has been waited ahead, or here, or
one unit back with the worker still to look. `WindowInv` says that while a message
is owed time and nothing has been queued, the debt and the due tick run out
together.

For the receive path `RowInv` says that a number of rows counted too early is at
worst too small, so a position clamped to it is on a row. That rests on the lists:
an operation of the roster or the ring never shortens its table, since the slot it
picks is one of the table or the next free one. A full roster has an oldest entry
to give up (`OldestInTable`), the least place among those of the least time.

`MessagesAreLatest` speaks of ranks: the i-th row is the text with i - 1 newer
ones. `RankExists` says that a finite set of numbers has an element of each rank;
pushing a text gives it rank 0 and moves every other one down. `MessagesInv` says
that the ring shows (`Shows`) the texts among the frames taken in, and between the
filling of a slot and the moving of head and count, that it half shows the new
one (`HalfShows`).

`RosterInv` ties the table to a function of the history alone: `Tells` says that
the table's times are the numbers of the frames each node was last heard in,
counted from the tick before the first one (`Start`), that no node is in it twice,
and that a node not in it was heard before all that are, the table being full.
Eviction keeps this because the entry given up is the oldest; the order of a view
and its length then follow by counting ranks, and `NoWrap` is what makes the
comparison of times that of the numbers. `HistoryInv` adds what the entries say:
the frames of a node's stay (`StayIn`) are counted, and the last of them that
teaches a signal, a name or a distance gives its value; a stay ends exactly when
the node is given up, so an entry made anew in an old slot starts from nothing.
Between `observe` and `set_user` an entry has counted a frame whose name it does
not tell yet, and the invariant says that too.

`NodesListedOnce` is what is left of this when the counter wraps and the order of
times with it. `Lists`, its invariant, does not look at a time: whichever entry is
given up, the sender's is written where no other entry of it is (`SlotChosen`).

For the two lifecycles `OrderInv` says where the main thread can be while another
thread is at work and what is allocated when it is there; each other thread
leaves it alone because none but the main one frees. `FrameInv` adds that the
session is open while the flag says that the application runs and the radio
thread is past its start, so a frame taken after the second look at the flag was
read from the chip; and that a flag of the chip means a frame in its buffer.
`OnceInv` orders the frames: what has been taken in came before the frame in the
chip's buffer while a flag is up, and before the frame in hand from its reading to
its acceptance - or is that very frame, if its clear was refused. Outside an open
session it claims nothing, and need not, as nothing is accepted there. `SessionInv`
says when the session can be open and what a closed one still claims.
`EndedIsRestored` needs `OrderInv` only. In `BleLifecycle`, `CountInv` adds what the worker holds between two counters and a draw between two
reads, with the mutex that keeps them apart.

`ConfigInv` bounds the lengths of the names. `RepliesAlwaysFit` then goes level by
level: lemmas bound what a tag, a varint, a field and a submessage add, one lemma
for each encoder finds each of its buffers large enough, and the lemmas about
replies say which messages one can consist of. `LengthsAreOfBytes` ties the two
accounts of `pb_write.c`, one by length and one by byte, to each other. `TunedAsTheyAreTold` unfolds the
hash over the eight characters of the name, a lemma for each step, so that the
arithmetic left has one unknown, the slot.

The codec's theorems are inductions over bytes. The library's induction theorems
take an operator, which the provers cannot be given; so `Protobuf_proofs` states
induction on a *set* of numbers (`StrongInduction`, from the well-foundedness of
the naturals) and recursion on a function given as a *value*: one that is its own
unfolding, where each unfolding looks at smaller numbers only. `Varint`,
`ReadVarint`, `Walk` and the hash are instances. `At` and its kin say that bytes
lie at a place of a buffer, whole or cut short by its end; where a varint lies, it
is read back, and where it is cut, nothing is; the same then for a field and, one
after the other, for a message. `CodecInv` says that this is so of what has been
sent: the bytes hold the message (`Holds`), which is to say that there are the
places its fields end at (`LaidOut`). From it a walk finds the fields meant, and
`LastField` commutes with that; the names and the cuts follow, the latter with a
walk over the part of the message in front of the cut. `NestInv` is needed for the
messages in messages: there is a set of messages with their bytes and depth in
which, with each message, each of its fields was offered or wraps a message of the
set. It says of each level what `CodecInv` says of the outermost, so the decoder
can be followed down. For a frame, a byte is the sum of its bits, `Xor` taken twice
gives it back, and keys of different index differ in one byte and therefore in
their hash.

*Not provable here.* Liveness under fairness (`BatchEndsEmpty`,
`StageOneCompletes`, `WritesGetHandled`, `ExitEnds`, `StopRestores`) stays with
TLC, on the instances of section 3. Every invariant and action property of a
passing run is stated by a theorem.

## 5. Observed and not checked

- `meshtastic_ble_service_free` frees the write queue (service.c:744) before it
  unregisters the handler that posts to it (745). `ServiceOutlivesUsers` leaves
  this gap out, and the model lets a post in it do nothing.
- `signal_callback` is never unset and works in two steps; between them, or after
  the main loop has left, the input queue may be freed. The model lets the post do
  nothing then.
- The result of `clear_irq` is not looked at (sx126x.c:387); a frame read under
  the flags of an earlier one may be a damaged one. `sx126x_end` leaves the chip
  receiving and the CC1101's select pin configured.
- FromNum's value is `pending`. The comment at service.c:235 says it has to
  change to wake the phone; two batches of one size ring with one value.
- `is_connected` (service.h) is true once stage two was answered, without stage
  one and after the phone has left.
- A message whose update the stack refused is consumed like any other.
- A text heard through several relays takes a slot of the message ring each time.
- `queue()` "must stay callable from the radio thread too" (service.c:402). With
  callers on any thread the ring stays coherent, nothing is stranded and what was
  published is what is consumed (`PublishedNotReplaced`); but
  `ConsumesWhatWasPublished` needs the worker to be the only caller: the count
  that decides what is consumed is read after the publish (362), so a message
  queued between the publish and the advance of a step past empty is consumed
  unpublished. The worker is the only caller today.
- `handshake_reset` has no caller, so the stage outlives the phone that reached
  it ("Call when the phone disconnects", handshake.h:91). No step depends on it.
- A reply queued during a batch makes the drain due at once, so the message being
  read is replaced before its interval is over, though "the drain publishes each
  queued message for one interval" (handshake.c:165). `UndisturbedReadingWindow`
  says that each such reply cuts short the window of one message at most.
- A configured long name of 40 characters, which is valid, reaches the phone cut
  to 39: the identity's array has 40 bytes with the terminator (phone_encode.h:65).
  Its comment says that mesh.proto caps names at 40.
- The comment above `read_varint` says that a value above 64 bits is rejected
  (mesh_data.c:15); of a ten-byte varint the excess bits are dropped. Values come
  out modulo 2^64 in the model as well.
- `mesh_data_parse` cuts a port number to 32 bits, the admin decoder compares all
  64: the two disagree on a port number no sender uses.
- `hop_start` minus `hop_limit` is taken in eight bits, so a header with a limit
  above its start gives a distance of more than 248 hops.
- The setters and the validity check of `mesh_config.c` and all of `mesh_encode.c`
  are called by the host tests only.

## 6. Not modelled, and what is left

Left, in order of what it would tell:

1. *Composition.* `AppLifecycle` and `BleLifecycle` as one application, with an
   exit request during the start of the profile; and an abstract frame source
   (each frame at most once, between start and stop) that `RadioDriver` is shown
   to implement where clears are accepted.
2. *Proofs.* That an entry counts the frames of its node's stay across the wrap of
   the counter as well.
3. *Receive path.* The filling of a slot byte by byte, which a draw may see; the
   redraw at a moment of its own in each of several reads.

*Partly modelled.* The receive path leaves out what is drawn from the model. The
radio driver leaves out the count of CRC errors, the signal values and the
individual commands of the configuration, any of which failing has one effect.
Of encryption the nonce and the use of the key stream are modelled, the cipher is
not.

*Left out for good.* AES, which is a vendored library (`lib/tiny-AES-c`); the
layout of screens, which keeps no state and decides nothing; the text of log
lines; the host tests and build files, which were read for what they expect of
the code.

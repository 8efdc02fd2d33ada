--------------------------- MODULE FromRadioQueue ---------------------------
(***************************************************************************)
(* The outbound half of the BLE service: the ring of FromRadio messages,   *)
(* drain_step with its two critical sections and the publish between them, *)
(* and the doorbell.  src/src/ble/meshtastic_service.c.                    *)
(*                                                                         *)
(* The ring is shared state under service->mutex; each action below is one *)
(* critical section, or one call into the Bluetooth stack made without the *)
(* mutex.  The stack may refuse either update, and the code goes on.       *)
(***************************************************************************)
EXTENDS Integers, Sequences

CONSTANTS
    QUEUE_DEPTH,    \* number of ring slots, 40 in the code
    Message,        \* FromRadio messages: 1 to QUEUE_MESSAGE_MAX bytes long
    NoMessage,      \* a zero-length value; also a slot never written
    ForeignCaller   \* may a thread other than the worker call queue()?

ASSUME DepthAssumption == QUEUE_DEPTH \in Nat \ {0}
ASSUME NoMessageAssumption == NoMessage \notin Message
ASSUME CallerAssumption == ForeignCaller \in BOOLEAN

VARIABLES
    queue,          \* service->queue, the ring's slots
    head,           \* slot the next queued message goes to
    tail,           \* slot of the oldest message
    pending,        \* number of messages queued and not consumed
    drain_active,   \* the worker has a batch to walk
    doorbell_rung,  \* FromNum was notified for the current batch
    drain_pc,       \* where the worker is inside drain_step
    ring,           \* drain_step's local: this step rings the doorbell
    offered,        \* read_scratch: what from_radio_data last gave the stack
    from_radio,     \* the FromRadio value a phone's read returns
    from_num        \* the FromNum value last notified

ringVars  == <<queue, head, tail, pending>>
batchVars == <<drain_active, doorbell_rung>>
stepVars  == <<drain_pc, ring>>
gattVars  == <<offered, from_radio, from_num>>
queueVars == <<ringVars, batchVars, stepVars, gattVars>>

Slot  == 0 .. QUEUE_DEPTH - 1
Value == Message \cup {NoMessage}

\* The slot d places after slot s, round the ring.
SlotAfter(s, d) == (s + d) % QUEUE_DEPTH
NextSlot(s) == SlotAfter(s, 1)

QueueInit ==
    /\ queue = [s \in Slot |-> NoMessage]
    /\ head = 0
    /\ tail = 0
    /\ pending = 0
    /\ drain_active = FALSE
    /\ doorbell_rung = FALSE
    /\ drain_pc = "idle"
    /\ ring = FALSE
    /\ offered = NoMessage
    /\ from_radio = NoMessage
    /\ from_num = 0

-----------------------------------------------------------------------------
(* Seeded faults.  Each is an operator below with one mistake in it; a     *)
(* property is trusted only if TLC refutes it for one of them.             *)

\* from_radio_data without its test for an empty ring.
UncheckedValue == queue[tail]

\* queue() without its test for a full ring.
EnqueueUnchecked(m) ==
    /\ queue' = [queue EXCEPT ![head] = m]
    /\ head' = NextSlot(head)
    /\ pending' = pending + 1
    /\ drain_active' = TRUE
    /\ UNCHANGED <<tail, doorbell_rung, stepVars, gattVars>>

\* queue() leaving it to someone else to arm the worker.
EnqueueUnarmed(m) ==
    /\ pending < QUEUE_DEPTH
    /\ queue' = [queue EXCEPT ![head] = m]
    /\ head' = NextSlot(head)
    /\ pending' = pending + 1
    /\ UNCHANGED <<tail, batchVars, stepVars, gattVars>>

\* A drain step that publishes what follows the message it will consume.
UpdateAfterAdvancing(stored) ==
    /\ drain_pc = "from_radio"
    /\ offered' = IF pending > 1 THEN queue[NextSlot(tail)] ELSE NoMessage
    /\ from_radio' = IF stored THEN offered' ELSE from_radio
    /\ drain_pc' = IF ring THEN "from_num" ELSE "advance"
    /\ UNCHANGED <<ringVars, batchVars, ring, from_num>>

\* drain_step ringing for every message.
DrainBeginRinging ==
    /\ drain_pc = "idle"
    /\ drain_active
    /\ ring' = (pending > 0)
    /\ doorbell_rung' = (doorbell_rung \/ pending > 0)
    /\ drain_pc' = "from_radio"
    /\ UNCHANGED <<ringVars, drain_active, gattVars>>

\* The second critical section moving the tail of an empty ring too.
AdvanceUnchecked ==
    /\ drain_pc = "advance"
    /\ tail' = NextSlot(tail)
    /\ pending' = IF pending > 0 THEN pending - 1 ELSE 0
    /\ drain_active' = (pending > 0)
    /\ doorbell_rung' = (pending > 0 /\ doorbell_rung)
    /\ drain_pc' = "idle"
    /\ UNCHANGED <<queue, head, ring, gattVars>>

\* The second critical section deciding by what was published before it.
AdvanceOnStaleValue ==
    /\ drain_pc = "advance"
    /\ tail' = IF pending > 0 THEN NextSlot(tail) ELSE tail
    /\ pending' = IF pending > 0 THEN pending - 1 ELSE 0
    /\ drain_active' = (offered # NoMessage)
    /\ doorbell_rung' = (offered # NoMessage /\ doorbell_rung)
    /\ drain_pc' = "idle"
    /\ UNCHANGED <<queue, head, ring, gattVars>>

\* The second critical section not lowering the doorbell flag.
AdvanceKeepingBell ==
    /\ drain_pc = "advance"
    /\ tail' = IF pending > 0 THEN NextSlot(tail) ELSE tail
    /\ pending' = IF pending > 0 THEN pending - 1 ELSE 0
    /\ drain_active' = (pending > 0)
    /\ drain_pc' = "idle"
    /\ UNCHANGED <<queue, head, doorbell_rung, ring, gattVars>>

\* The second critical section stopping with the last message.
AdvanceStoppingEarly ==
    /\ drain_pc = "advance"
    /\ tail' = IF pending > 0 THEN NextSlot(tail) ELSE tail
    /\ pending' = IF pending > 0 THEN pending - 1 ELSE 0
    /\ drain_active' = (pending > 1)
    /\ doorbell_rung' = (pending > 1 /\ doorbell_rung)
    /\ drain_pc' = "idle"
    /\ UNCHANGED <<queue, head, ring, gattVars>>

-----------------------------------------------------------------------------
(* What a phone may read, and what may be queued *)

\* What from_radio_data copies: the oldest message, or nothing.
CurrentValue == IF pending = 0 THEN NoMessage ELSE queue[tail]

(* meshtastic_ble_service_queue *)

\* Only the worker itself may be in drain_step while others call queue().
MayCallQueue == ForeignCaller \/ drain_pc = "idle"

\* Room left: the message is stored and the worker armed.
Enqueue(m) ==
    /\ MayCallQueue
    /\ pending < QUEUE_DEPTH
    /\ queue' = [queue EXCEPT ![head] = m]
    /\ head' = NextSlot(head)
    /\ pending' = pending + 1
    /\ drain_active' = TRUE
    /\ UNCHANGED <<tail, doorbell_rung, stepVars, gattVars>>

\* No room: queue() returns false and the message is gone.
Refuse(m) ==
    /\ MayCallQueue
    /\ pending >= QUEUE_DEPTH
    /\ UNCHANGED queueVars

(* A stage one request discards what an earlier session left behind.  It   *)
(* is handled on the worker, so never in the middle of a drain step.       *)
Reset ==
    /\ drain_pc = "idle"
    /\ head' = 0
    /\ tail' = 0
    /\ pending' = 0
    /\ drain_active' = FALSE
    /\ doorbell_rung' = FALSE
    /\ UNCHANGED <<queue, stepVars, gattVars>>

-----------------------------------------------------------------------------
(* drain_step and publish_head, on the worker *)

\* First critical section: does this step ring the doorbell?
DrainBegin ==
    /\ drain_pc = "idle"
    /\ drain_active
    /\ ring' = (~doorbell_rung /\ pending > 0)
    /\ doorbell_rung' = (doorbell_rung \/ pending > 0)
    /\ drain_pc' = "from_radio"
    /\ UNCHANGED <<ringVars, drain_active, gattVars>>

(* ble_gatt_characteristic_update(from_radio): the value is copied out of  *)
(* the ring under the mutex; the stack then stores it or refuses it.       *)
UpdateFromRadio(stored) ==
    /\ drain_pc = "from_radio"
    /\ offered' = CurrentValue
    /\ from_radio' = IF stored THEN CurrentValue ELSE from_radio
    /\ drain_pc' = IF ring THEN "from_num" ELSE "advance"
    /\ UNCHANGED <<ringVars, batchVars, ring, from_num>>

\* ble_gatt_characteristic_update(from_num): the value is pending.
UpdateFromNum(stored) ==
    /\ drain_pc = "from_num"
    /\ from_num' = IF stored THEN pending ELSE from_num
    /\ drain_pc' = "advance"
    /\ UNCHANGED <<ringVars, batchVars, ring, offered, from_radio>>

(* Second critical section: consume the oldest message, if there is one,   *)
(* and go on for one step past empty, so that empty is published too.      *)
DrainAdvance ==
    /\ drain_pc = "advance"
    /\ tail' = IF pending > 0 THEN NextSlot(tail) ELSE tail
    /\ pending' = IF pending > 0 THEN pending - 1 ELSE 0
    /\ drain_active' = (pending > 0)
    /\ doorbell_rung' = (pending > 0 /\ doorbell_rung)
    /\ drain_pc' = "idle"
    /\ UNCHANGED <<queue, head, ring, gattVars>>

DrainStep ==
    \/ DrainBegin
    \/ \E stored \in BOOLEAN : UpdateFromRadio(stored)
    \/ \E stored \in BOOLEAN : UpdateFromNum(stored)
    \/ DrainAdvance

QueueNext ==
    \/ \E m \in Message : Enqueue(m) \/ Refuse(m)
    \/ Reset
    \/ DrainStep

QueueSpec == QueueInit /\ [][QueueNext]_queueVars

-----------------------------------------------------------------------------
(* Properties *)

\* The messages queued and not consumed, oldest first.
Contents == [i \in 1 .. pending |-> queue[SlotAfter(tail, i - 1)]]

\* The worker has given a value to the stack and not yet consumed it.
Published == drain_pc \in {"from_num", "advance"}

TypeOK ==
    /\ queue \in [Slot -> Value]
    /\ head \in Slot
    /\ tail \in Slot
    /\ pending \in 0 .. QUEUE_DEPTH
    /\ drain_active \in BOOLEAN
    /\ doorbell_rung \in BOOLEAN
    /\ drain_pc \in {"idle", "from_radio", "from_num", "advance"}
    /\ ring \in BOOLEAN
    /\ offered \in Value
    /\ from_radio \in Value
    /\ from_num \in 0 .. QUEUE_DEPTH

(* The three ring indices never disagree, and every slot between tail and  *)
(* head holds a message some caller stored: from_radio_data never copies a *)
(* slot that was not written.  Enqueue, reset and drain_step each move     *)
(* only some of the indices, from different threads.                       *)
RingCoherent ==
    /\ head = SlotAfter(tail, pending)
    /\ \A i \in 1 .. pending : Contents[i] \in Message

(* A queued message is never left behind with the worker disarmed: nothing *)
(* but the next queue() call would ever publish it.  drain_step decides to *)
(* stop in one critical section while queue() arms in another.             *)
NeverStranded == pending > 0 => drain_active

(* The message drain_step consumes is the one it gave to the stack.  The   *)
(* value is read in one critical section and the index advanced in         *)
(* another ("publish before advancing", service.c:348).                    *)
ConsumesWhatWasPublished == Published => offered = CurrentValue

(* While the worker is between the publish and the advance, any thread may *)
(* queue: the message it published is still the one it will consume, never *)
(* overwritten in its slot.  Only a step past empty, which published       *)
(* nothing, can consume a message the phone was not offered.               *)
PublishedNotReplaced == Published /\ offered # NoMessage => offered = CurrentValue

(* The doorbell flag belongs to the batch in progress: it is down whenever *)
(* no batch is, so the next batch rings; and no message is consumed in a   *)
(* batch that did not ring.                                                *)
BellCoversBatch ==
    /\ ~drain_active => ~doorbell_rung
    /\ Published /\ pending > 0 => doorbell_rung

(* The ring implements the abstract outbox: first in first out, nothing    *)
(* lost, repeated or dropped without having been offered.                  *)
O == INSTANCE Outbox WITH
    Capacity <- QUEUE_DEPTH, outbox <- Contents, fresh <- Published

OutboxSpec == O!Spec

=============================================================================

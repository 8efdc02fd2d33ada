----------------------------- MODULE DrainPacing -----------------------------
(***************************************************************************)
(* When the drain steps happen: furi_get_tick(), drain_due_tick and the    *)
(* worker's polling loop on top of FromRadioQueue.                         *)
(* src/src/ble/meshtastic_service.c.                                       *)
(*                                                                         *)
(* A phone's reads are invisible, so a message is readable only while it   *)
(* is the published value.  How long that lasts is decided by the due      *)
(* tick, which drain_step's caller moves one interval on and queue() moves *)
(* back to the present.  Ticks are counted modulo TICK_RANGE and compared  *)
(* as a signed difference.  One unit of time is WORKER_POLL_MS.            *)
(***************************************************************************)
EXTENDS FromRadioQueue

CONSTANTS
    DRAIN_INTERVAL,     \* DRAIN_INTERVAL_MS, 7 units in the code
    TICK_RANGE          \* furi_get_tick() wraps here, 2^32 ms in the code

ASSUME PacingAssumption ==
    /\ DRAIN_INTERVAL \in Nat \ {0}
    /\ TICK_RANGE \in Nat
    /\ TICK_RANGE > 2 * (DRAIN_INTERVAL + 1)
    /\ TICK_RANGE % 2 = 0

VARIABLES
    now,            \* furi_get_tick()
    drain_due_tick, \* service->drain_due_tick
    polled,         \* the worker has been round its loop in this unit of time
    owed,           \* time the published message is still to stay readable
    rearmed,        \* a reply was queued since that message was published
    waited          \* time since the drain was last armed or stepped

clockVars  == <<now, drain_due_tick, polled>>
watchVars  == <<owed, rearmed, waited>>
pacingVars == <<queueVars, clockVars, watchVars>>

(* Seeded faults, as in FromRadioQueue. *)

\* The due check without the signed difference.
PlainNotBefore(a, b) == a >= b

\* A tick counter taken to be unbounded.
UnwrappedLater(t, d) == t + d

\* A drain step that does not put the next one off.
StepUnpaced ==
    /\ drain_active
    /\ DrainBegin
    /\ polled' = TRUE
    /\ waited' = 0
    /\ UNCHANGED <<now, drain_due_tick, owed, rearmed>>

\* (int32_t)(a - b) >= 0
NotBefore(a, b) == (a - b) % TICK_RANGE < TICK_RANGE \div 2

Later(t, d) == (t + d) % TICK_RANGE

Due == drain_active /\ NotBefore(now, drain_due_tick)

Init ==
    /\ QueueInit
    /\ now \in 0 .. TICK_RANGE - 1      \* the device may have been up for weeks
    /\ drain_due_tick = 0
    /\ polled = FALSE
    /\ owed = 0
    /\ rearmed = FALSE
    /\ waited = 0

\* The worker queues a reply, and with it makes the drain due at once.
QueueReply(m) ==
    /\ Enqueue(m)
    /\ drain_due_tick' = now
    /\ rearmed' = TRUE
    /\ waited' = 0
    /\ UNCHANGED <<now, polled, owed>>

\* A new session owes the old one's message nothing.
NewSession ==
    /\ Reset
    /\ owed' = 0
    /\ UNCHANGED <<clockVars, rearmed, waited>>

\* The due check of ble_worker, with drain_step's first critical section.
StepWhenDue ==
    /\ Due
    /\ DrainBegin
    /\ drain_due_tick' = Later(now, DRAIN_INTERVAL)
    /\ polled' = TRUE
    /\ waited' = 0
    /\ UNCHANGED <<now, owed, rearmed>>

NothingDue ==
    /\ drain_pc = "idle"
    /\ ~polled
    /\ ~Due
    /\ polled' = TRUE
    /\ UNCHANGED <<queueVars, now, drain_due_tick, watchVars>>

Publish ==
    /\ \E stored \in BOOLEAN : UpdateFromRadio(stored)
    /\ owed' = IF CurrentValue = NoMessage THEN 0 ELSE DRAIN_INTERVAL
    /\ rearmed' = FALSE
    /\ UNCHANGED <<clockVars, waited>>

FinishStep ==
    /\ DrainAdvance \/ \E stored \in BOOLEAN : UpdateFromNum(stored)
    /\ UNCHANGED <<clockVars, watchVars>>

\* Time passes once the worker has been round its loop.
Tick ==
    /\ drain_pc = "idle"
    /\ polled
    /\ now' = Later(now, 1)
    /\ polled' = FALSE
    /\ owed' = IF owed > 0 THEN owed - 1 ELSE 0
    /\ waited' = IF drain_active THEN waited + 1 ELSE 0
    /\ UNCHANGED <<queueVars, drain_due_tick, rearmed>>

Next ==
    \/ \E m \in Message : QueueReply(m)
    \/ NewSession
    \/ StepWhenDue
    \/ NothingDue
    \/ Publish
    \/ FinishStep
    \/ Tick

Spec == Init /\ [][Next]_pacingVars

-----------------------------------------------------------------------------
(* Properties *)

PacingTypeOK ==
    /\ TypeOK
    /\ now \in 0 .. TICK_RANGE - 1
    /\ drain_due_tick \in 0 .. TICK_RANGE - 1
    /\ polled \in BOOLEAN
    /\ owed \in 0 .. DRAIN_INTERVAL
    /\ rearmed \in BOOLEAN
    /\ waited \in Nat

(* A message stays readable for a whole interval, the margin the interval  *)
(* was chosen for (service.c:631-656), unless a reply is queued while it   *)
(* is the published value: queue() makes the next step due at once.  That  *)
(* cuts this one window short; those of the messages after it are whole    *)
(* again, wherever the tick counter happens to wrap.                       *)
UndisturbedReadingWindow == [][Publish => owed = 0 \/ rearmed]_pacingVars

(* An armed drain makes its next step at the first poll at which it is     *)
(* due, an interval after the last one at the latest, wherever the tick    *)
(* counter happens to wrap.                                                *)
DrainKeepsPace == drain_active => waited <= DRAIN_INTERVAL

=============================================================================

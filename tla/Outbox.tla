------------------------------- MODULE Outbox -------------------------------
(***************************************************************************)
(* What the FromRadio side of the BLE service promises the phone,          *)
(* independently of rings, indices and locks.                              *)
(*                                                                         *)
(* A phone can only read one GATT value at a time, and the application     *)
(* never sees the read.  So the service keeps a bounded first-in first-out *)
(* list of messages, offers the oldest one to the Bluetooth stack, and     *)
(* only then drops that very message.  When there is nothing left it       *)
(* offers the empty value, by which the phone learns to stop reading.      *)
(***************************************************************************)
EXTENDS Naturals, Sequences

CONSTANTS
    Message,    \* the FromRadio messages the service may be asked to send
    NoMessage,  \* the empty value: what a read of a drained queue returns
    Capacity    \* how many messages the outbox can hold

VARIABLES
    outbox,     \* messages accepted and not yet dropped, oldest first
    offered,    \* the value last handed to the Bluetooth stack
    fresh       \* offered was taken from this outbox and is not yet dropped

vars == <<outbox, offered, fresh>>

Oldest == IF outbox = <<>> THEN NoMessage ELSE Head(outbox)

Init ==
    /\ outbox = <<>>
    /\ offered = NoMessage
    /\ fresh = FALSE

(* A message is accepted behind all the others, if there is room. *)
Accept ==
    /\ Len(outbox) < Capacity
    /\ \E m \in Message : outbox' = Append(outbox, m)
    /\ UNCHANGED <<offered, fresh>>

(* The oldest message, or the empty value, becomes the offered value. *)
Offer ==
    /\ ~fresh
    /\ offered' = Oldest
    /\ fresh' = TRUE
    /\ UNCHANGED outbox

(* What was offered is dropped, and nothing else can be: a message leaves  *)
(* the outbox only when it is the one that was offered.                    *)
Drop ==
    /\ fresh
    /\ offered = Oldest
    /\ outbox' = IF outbox = <<>> THEN <<>> ELSE Tail(outbox)
    /\ fresh' = FALSE
    /\ UNCHANGED offered

(* A new session discards everything, but never between offer and drop. *)
Clear ==
    /\ ~fresh
    /\ outbox' = <<>>
    /\ UNCHANGED <<offered, fresh>>

Next == Accept \/ Offer \/ Drop \/ Clear

Spec == Init /\ [][Next]_vars

=============================================================================

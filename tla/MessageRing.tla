----------------------------- MODULE MessageRing -----------------------------
(***************************************************************************)
(* The ring of received text messages, newest first to its readers.        *)
(* src/src/model/message_ring.c.                                           *)
(*                                                                         *)
(* A push is two steps, because a draw that could not get the lock may     *)
(* read between them: the slot is filled, then head and count move on.     *)
(***************************************************************************)
EXTENDS Integers, Sequences

CONSTANT MESSAGE_RING_CAPACITY      \* 16 in the code

ASSUME RingCapacityAssumption == MESSAGE_RING_CAPACITY \in Nat \ {0}

NoMessageYet == [from |-> 0, text |-> "none"]

EmptyRing ==
    [items |-> [slot \in 0 .. MESSAGE_RING_CAPACITY - 1 |-> NoMessageYet],
     count |-> 0,
     head  |-> 0]

\* A seeded fault: whatever decodes is kept.
IsDecoded(event) == event.result = "ok"

\* Only successfully decoded text is kept.
IsText(event) == event.result = "ok" /\ event.portnum = "text"

MessageOf(event) == [from |-> event.from, text |-> event.text]

RingFilled(ring, event) == [ring EXCEPT !.items[ring.head] = MessageOf(event)]

\* A seeded fault: the count runs past the capacity.
RingUncapped(ring) ==
    [ring EXCEPT !.head = (ring.head + 1) % MESSAGE_RING_CAPACITY, !.count = @ + 1]

RingAdvanced(ring) ==
    [ring EXCEPT
        !.head  = (ring.head + 1) % MESSAGE_RING_CAPACITY,
        !.count = IF ring.count < MESSAGE_RING_CAPACITY THEN @ + 1 ELSE @]

\* message_ring_get: index 0 is the newest.
RingGet(ring, index) ==
    ring.items[(ring.head + MESSAGE_RING_CAPACITY - 1 - index) % MESSAGE_RING_CAPACITY]

\* What a reader of the whole ring sees.
RingView(ring) == [i \in 1 .. ring.count |-> RingGet(ring, i - 1)]

=============================================================================

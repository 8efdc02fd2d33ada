------------------------ MODULE FromRadioQueue_proofs ------------------------
(***************************************************************************)
(* Proofs about FromRadioQueue, for every depth, message set and, except   *)
(* where noted, for callers of queue() on any thread.                      *)
(***************************************************************************)
EXTENDS MCFromRadioQueue, SequenceTheorems, TLAPS

-----------------------------------------------------------------------------
(* Arithmetic of the ring *)

\* Going d places round the ring from a slot ends in a slot.
LEMMA SlotAfterType ==
    ASSUME NEW s \in Nat, NEW d \in Nat
    PROVE  SlotAfter(s, d) \in Slot
BY DepthAssumption, SMT DEF SlotAfter, Slot

\* The first slot and the slot after a slot are slots.
LEMMA NextSlotType ==
    /\ 0 \in Slot
    /\ \A s \in Slot : NextSlot(s) \in Slot
<1>1. 0 \in Slot /\ \A s \in Slot : s \in Nat
    BY DepthAssumption, SMT DEF Slot
<1>2. QED
    BY <1>1, SlotAfterType DEF NextSlot

(* Within one turn of the ring, going round is at most one subtraction.    *)
(* The remaining facts follow from this without division.                  *)
LEMMA SlotAfterWithin ==
    ASSUME NEW s \in Slot, NEW d \in 0 .. QUEUE_DEPTH
    PROVE  SlotAfter(s, d) = IF s + d >= QUEUE_DEPTH THEN s + d - QUEUE_DEPTH ELSE s + d
BY DepthAssumption, SMT DEF SlotAfter, Slot

\* Going d places and then one more is going d + 1 places, in either order.
LEMMA SlotAfterNext ==
    ASSUME NEW s \in Slot, NEW d \in 0 .. QUEUE_DEPTH - 1
    PROVE  /\ NextSlot(SlotAfter(s, d)) = SlotAfter(s, d + 1)
           /\ SlotAfter(NextSlot(s), d) = SlotAfter(s, d + 1)
<1>1. 1 \in 0 .. QUEUE_DEPTH /\ d \in 0 .. QUEUE_DEPTH /\ d + 1 \in 0 .. QUEUE_DEPTH
    BY DepthAssumption, SMT
<1>2. SlotAfter(s, d) \in Slot /\ SlotAfter(s, 1) \in Slot
    <2>1. s \in Nat /\ d \in Nat /\ 1 \in Nat
        BY DepthAssumption, SMT DEF Slot
    <2>2. QED
        BY <2>1, SlotAfterType
<1>3. SlotAfter(s, d) = IF s + d >= QUEUE_DEPTH THEN s + d - QUEUE_DEPTH ELSE s + d
    BY <1>1, SlotAfterWithin
<1>4. SlotAfter(s, d + 1) = IF s + (d + 1) >= QUEUE_DEPTH
                            THEN s + (d + 1) - QUEUE_DEPTH ELSE s + (d + 1)
    BY <1>1, SlotAfterWithin
<1>5. SlotAfter(s, 1) = IF s + 1 >= QUEUE_DEPTH THEN s + 1 - QUEUE_DEPTH ELSE s + 1
    BY <1>1, SlotAfterWithin
<1>6. SlotAfter(SlotAfter(s, d), 1) = SlotAfter(s, d + 1)
    <2>1. SlotAfter(SlotAfter(s, d), 1) =
            IF SlotAfter(s, d) + 1 >= QUEUE_DEPTH
            THEN SlotAfter(s, d) + 1 - QUEUE_DEPTH ELSE SlotAfter(s, d) + 1
        BY <1>1, <1>2, SlotAfterWithin
    <2>2. QED
        BY <2>1, <1>3, <1>4, DepthAssumption, SMT DEF Slot
<1>7. SlotAfter(SlotAfter(s, 1), d) = SlotAfter(s, d + 1)
    <2>1. SlotAfter(SlotAfter(s, 1), d) =
            IF SlotAfter(s, 1) + d >= QUEUE_DEPTH
            THEN SlotAfter(s, 1) + d - QUEUE_DEPTH ELSE SlotAfter(s, 1) + d
        BY <1>1, <1>2, SlotAfterWithin
    <2>2. QED
        BY <2>1, <1>4, <1>5, DepthAssumption, SMT DEF Slot
<1>8. QED
    BY <1>6, <1>7 DEF NextSlot

\* Going no places, or from slot 0, changes nothing.
LEMMA SlotAfterZero ==
    ASSUME NEW s \in Slot
    PROVE  SlotAfter(s, 0) = s /\ SlotAfter(0, s) = s
BY DepthAssumption, SMT DEF SlotAfter, Slot

(* Distances below QUEUE_DEPTH reach different slots: a message stored at  *)
(* the head overwrites none of the pending ones.                           *)
LEMMA SlotAfterInjective ==
    ASSUME NEW s \in Slot, NEW c \in 0 .. QUEUE_DEPTH - 1, NEW d \in 0 .. QUEUE_DEPTH - 1,
           c # d
    PROVE  SlotAfter(s, c) # SlotAfter(s, d)
<1>1. c \in 0 .. QUEUE_DEPTH /\ d \in 0 .. QUEUE_DEPTH
    BY DepthAssumption, SMT
<1>2. /\ SlotAfter(s, c) = IF s + c >= QUEUE_DEPTH THEN s + c - QUEUE_DEPTH ELSE s + c
      /\ SlotAfter(s, d) = IF s + d >= QUEUE_DEPTH THEN s + d - QUEUE_DEPTH ELSE s + d
    BY <1>1, SlotAfterWithin
<1>3. QED
    BY <1>2, DepthAssumption, SMT DEF Slot

-----------------------------------------------------------------------------
(* Type correctness *)

(* Every variable of the queue keeps its type: no index leaves the ring    *)
(* and pending never exceeds the depth, whoever calls queue() and when.    *)
THEOREM QueueTypeCorrect == QueueSpec => []TypeOK
<1>1. QueueInit => TypeOK
    <2>1. 0 \in Slot /\ 0 \in 0 .. QUEUE_DEPTH
        BY DepthAssumption, SMT DEF Slot
    <2>2. QED
        BY <2>1 DEF QueueInit, TypeOK, Value
<1>2. TypeOK /\ [QueueNext]_queueVars => TypeOK'
    <2> SUFFICES ASSUME TypeOK, [QueueNext]_queueVars
                 PROVE  TypeOK'
        OBVIOUS
    <2> USE DEF TypeOK, ringVars, batchVars, stepVars, gattVars
    <2>1. ASSUME NEW m \in Message, Enqueue(m)
          PROVE  TypeOK'
        <3>1. head' \in Slot
            BY <2>1, NextSlotType DEF Enqueue
        <3>2. pending' \in 0 .. QUEUE_DEPTH
            BY <2>1, DepthAssumption, SMT DEF Enqueue
        <3>3. QED
            BY <2>1, <3>1, <3>2 DEF Enqueue, Value
    <2>2. ASSUME NEW m \in Message, Refuse(m)
          PROVE  TypeOK'
        BY <2>2 DEF Refuse, queueVars
    <2>3. CASE Reset
        <3>1. 0 \in 0 .. QUEUE_DEPTH
            BY DepthAssumption, SMT
        <3>2. QED
            BY <2>3, <3>1, NextSlotType DEF Reset
    <2>4. CASE DrainBegin
        BY <2>4 DEF DrainBegin
    <2>5. CurrentValue \in Value
        BY DEF CurrentValue, Value
    <2>6. ASSUME NEW stored \in BOOLEAN, UpdateFromRadio(stored)
          PROVE  TypeOK'
        BY <2>5, <2>6 DEF UpdateFromRadio
    <2>7. ASSUME NEW stored \in BOOLEAN, UpdateFromNum(stored)
          PROVE  TypeOK'
        BY <2>7 DEF UpdateFromNum
    <2>8. CASE DrainAdvance
        <3>1. tail' \in Slot
            BY <2>8, NextSlotType DEF DrainAdvance
        <3>2. pending' \in 0 .. QUEUE_DEPTH
            BY <2>8, DepthAssumption, SMT DEF DrainAdvance
        <3>3. QED
            BY <2>8, <3>1, <3>2 DEF DrainAdvance
    <2>9. CASE UNCHANGED queueVars
        BY <2>9 DEF queueVars
    <2>10. QED
        BY <2>1, <2>2, <2>3, <2>4, <2>6, <2>7, <2>8, <2>9 DEF QueueNext, DrainStep
<1>3. QED
    BY <1>1, <1>2, PTL DEF QueueSpec


-----------------------------------------------------------------------------
(* The ring indices *)

\* Every pending slot holds a message; RingCoherent without Contents.
PendingAreMessages ==
    \A i \in 0 .. QUEUE_DEPTH - 1 : i < pending => queue[SlotAfter(tail, i)] \in Message

RingInv == head = SlotAfter(tail, pending) /\ PendingAreMessages

\* RingInv says of the slots what RingCoherent says of the contents.
LEMMA RingInvCoherent == TypeOK /\ RingInv => RingCoherent
<1> SUFFICES ASSUME TypeOK, RingInv, NEW i \in 1 .. pending
             PROVE  Contents[i] \in Message
    BY DEF RingCoherent, RingInv
<1>1. i - 1 \in 0 .. QUEUE_DEPTH - 1 /\ i - 1 < pending
    BY DepthAssumption, SMT DEF TypeOK
<1>2. Contents[i] = queue[SlotAfter(tail, i - 1)]
    BY DEF Contents
<1>3. QED
    BY <1>1, <1>2 DEF RingInv, PendingAreMessages

\* Storing at the head, advancing the tail and emptying all keep RingInv.
LEMMA RingInvStep == TypeOK /\ RingInv /\ [QueueNext]_queueVars => RingInv'
<1> SUFFICES ASSUME TypeOK, RingInv, [QueueNext]_queueVars
             PROVE  RingInv'
    OBVIOUS
<1> USE DEF RingInv, PendingAreMessages
<1>1. ASSUME UNCHANGED ringVars
      PROVE  RingInv'
    BY <1>1 DEF ringVars
<1>2. ASSUME NEW m \in Message, Enqueue(m)
      PROVE  RingInv'
    <2>1. /\ pending \in 0 .. QUEUE_DEPTH - 1 /\ pending' = pending + 1
          /\ tail' = tail /\ tail \in Slot
        BY <1>2, DepthAssumption, SMT DEF Enqueue, TypeOK
    <2>2. head' = SlotAfter(tail', pending')
        BY <1>2, <2>1, SlotAfterNext DEF Enqueue
    <2>3. ASSUME NEW i \in 0 .. QUEUE_DEPTH - 1, i < pending'
          PROVE  queue'[SlotAfter(tail', i)] \in Message
        <3>1. SlotAfter(tail, i) \in Slot /\ head \in Slot
            <4>1. tail \in Nat /\ i \in Nat
                BY <2>1, DepthAssumption, SMT DEF Slot
            <4>2. QED
                BY <4>1, SlotAfterType DEF TypeOK
        <3>2. queue' = [queue EXCEPT ![head] = m] /\ DOMAIN queue = Slot
            BY <1>2 DEF Enqueue, TypeOK
        <3>3. CASE i = pending
            BY <3>1, <3>2, <3>3, <2>1 DEF TypeOK
        <3>4. CASE i # pending
            <4>1. i < pending
                BY <2>1, <2>3, <3>4, DepthAssumption, SMT
            <4>2. SlotAfter(tail, i) # head
                BY <2>1, <3>4, SlotAfterInjective
            <4>3. QED
                BY <4>1, <4>2, <3>1, <3>2, <2>1
        <3>5. QED
            BY <3>3, <3>4
    <2>4. QED
        BY <2>2, <2>3
<1>3. CASE Reset
    <2>1. head' = 0 /\ tail' = 0 /\ pending' = 0
        BY <1>3 DEF Reset
    <2>2. SlotAfter(0, 0) = 0
        BY NextSlotType, SlotAfterZero
    <2>3. ASSUME NEW i \in 0 .. QUEUE_DEPTH - 1 PROVE ~(i < 0)
        BY DepthAssumption, SMT
    <2>4. QED
        BY <2>1, <2>2, <2>3
<1>4. CASE DrainAdvance
    <2>1. CASE pending = 0
        <3>1. UNCHANGED ringVars
            BY <1>4, <2>1 DEF DrainAdvance, ringVars
        <3>2. QED
            BY <3>1, <1>1
    <2>2. CASE pending # 0
        <3>1. /\ pending > 0 /\ pending - 1 \in 0 .. QUEUE_DEPTH - 1
              /\ (pending - 1) + 1 = pending
            BY <2>2, DepthAssumption, SMT DEF TypeOK
        <3>2. /\ tail' = NextSlot(tail) /\ pending' = pending - 1
              /\ head' = head /\ queue' = queue /\ tail \in Slot
            BY <1>4, <3>1 DEF DrainAdvance, TypeOK
        <3>3. head' = SlotAfter(tail', pending')
            BY <3>1, <3>2, SlotAfterNext
        <3>4. ASSUME NEW i \in 0 .. QUEUE_DEPTH - 1, i < pending'
              PROVE  queue'[SlotAfter(tail', i)] \in Message
            <4>1. SlotAfter(tail', i) = SlotAfter(tail, i + 1)
                BY <3>2, SlotAfterNext
            <4>2. i + 1 \in 0 .. QUEUE_DEPTH - 1 /\ i + 1 < pending
                BY <3>1, <3>2, <3>4, DepthAssumption, SMT DEF TypeOK
            <4>3. QED
                BY <3>2, <4>1, <4>2
        <3>5. QED
            BY <3>3, <3>4
    <2>3. QED
        BY <2>1, <2>2
<1>5. QED
    BY <1>1, <1>2, <1>3, <1>4
    DEF QueueNext, DrainStep, queueVars, Refuse, DrainBegin, UpdateFromRadio, UpdateFromNum

LEMMA RingInvInitially == QueueInit => RingInv
<1>1. 0 = SlotAfter(0, 0)
    BY NextSlotType, SlotAfterZero
<1>2. \A i \in 0 .. QUEUE_DEPTH - 1 : ~(i < 0)
    BY DepthAssumption, SMT
<1>3. QED
    BY <1>1, <1>2 DEF QueueInit, RingInv, PendingAreMessages

(* head, tail and pending never disagree, and no slot is published that    *)
(* holds no message, for any depth and for callers on any thread.          *)
THEOREM RingStaysCoherent == QueueSpec => []RingCoherent
BY RingInvInitially, RingInvStep, RingInvCoherent, QueueTypeCorrect, PTL DEF QueueSpec

-----------------------------------------------------------------------------
(* The batch *)

(* BellCoversBatch is not inductive: it must also be known that the worker *)
(* is inside drain_step only while a batch is under way and has rung, and  *)
(* that a batch with nothing pending is one that rang for what it sent.    *)
BatchInv ==
    /\ NeverStranded
    /\ ~drain_active => ~doorbell_rung
    /\ drain_pc # "idle" => drain_active /\ doorbell_rung
    /\ drain_active /\ pending = 0 => doorbell_rung

LEMMA BatchInvStep == TypeOK /\ BatchInv /\ [QueueNext]_queueVars => BatchInv'
<1> SUFFICES ASSUME TypeOK, BatchInv, [QueueNext]_queueVars
             PROVE  BatchInv'
    OBVIOUS
<1> USE DEF BatchInv, NeverStranded
<1>1. ASSUME NEW m \in Message, Enqueue(m)
      PROVE  BatchInv'
    <2>1. pending' > 0 /\ pending' # 0
        BY <1>1, SMT DEF Enqueue, TypeOK
    <2>2. drain_active' = TRUE /\ doorbell_rung' = doorbell_rung /\ drain_pc' = drain_pc
        BY <1>1 DEF Enqueue, stepVars
    <2>3. QED
        BY <2>1, <2>2
<1>2. CASE Reset
    <2>1. pending' = 0 /\ ~(pending' > 0) /\ ~drain_active' /\ ~doorbell_rung'
          /\ drain_pc' = "idle"
        BY <1>2, SMT DEF Reset, stepVars
    <2>2. QED
        BY <2>1
<1>3. CASE DrainBegin
    <2>1. pending > 0 \/ pending = 0
        BY SMT DEF TypeOK
    <2>2. drain_active /\ drain_active' = drain_active /\ pending' = pending /\ doorbell_rung'
        BY <1>3, <2>1 DEF DrainBegin, ringVars
    <2>3. QED
        BY <2>2
<1>4. ASSUME NEW stored \in BOOLEAN, UpdateFromRadio(stored) \/ UpdateFromNum(stored)
      PROVE  BatchInv'
    <2>1. drain_pc # "idle" /\ UNCHANGED <<pending, drain_active, doorbell_rung>>
        BY <1>4 DEF UpdateFromRadio, UpdateFromNum, ringVars, batchVars
    <2>2. QED
        BY <2>1
<1>5. CASE DrainAdvance
    <2>1. drain_pc # "idle" /\ drain_pc' = "idle"
        BY <1>5 DEF DrainAdvance
    <2>2. drain_active /\ doorbell_rung
        BY <2>1
    <2>3. CASE pending > 0
        BY <1>5, <2>1, <2>2, <2>3 DEF DrainAdvance
    <2>4. CASE ~(pending > 0)
        <3>1. pending' = 0 /\ ~drain_active' /\ ~doorbell_rung'
            BY <1>5, <2>4 DEF DrainAdvance
        <3>2. ~(0 > 0)
            BY SMT
        <3>3. QED
            BY <2>1, <3>1, <3>2
    <2>5. QED
        BY <2>3, <2>4
<1>6. CASE UNCHANGED queueVars
    BY <1>6 DEF queueVars, ringVars, batchVars, stepVars
<1>7. ASSUME NEW m \in Message, Refuse(m)
      PROVE  BatchInv'
    BY <1>6, <1>7 DEF Refuse
<1>8. QED
    BY <1>1, <1>2, <1>3, <1>4, <1>5, <1>6, <1>7 DEF QueueNext, DrainStep

LEMMA BatchInvariant == QueueSpec => []BatchInv
<1>1. QueueInit => BatchInv
    <2>1. ~(0 > 0)
        BY SMT
    <2>2. QED
        BY <2>1 DEF QueueInit, BatchInv, NeverStranded
<1>2. QED
    BY <1>1, BatchInvStep, QueueTypeCorrect, PTL DEF QueueSpec

(* A queued message is never left with the drain disarmed, for any depth   *)
(* and any callers.                                                        *)
THEOREM MessagesNeverStranded == QueueSpec => []NeverStranded
<1>1. BatchInv => NeverStranded
    BY DEF BatchInv
<1>2. QED
    BY <1>1, BatchInvariant, PTL

(* Every batch has rung before it consumes anything, and the bell is armed *)
(* again as soon as no batch is under way.                                 *)
THEOREM BatchAlwaysRung == QueueSpec => []BellCoversBatch
<1>1. BatchInv => BellCoversBatch
    BY DEF BatchInv, BellCoversBatch, Published
<1>2. QED
    BY <1>1, BatchInvariant, PTL

-----------------------------------------------------------------------------
(* The doorbells counted *)

\* Counting the doorbells takes nothing from the queue.
LEMMA CountedQueue == MCSpec => QueueSpec
<1>1. MCInit => QueueInit
    BY DEF MCInit
<1>2. [MCNext]_mcVars => [QueueNext]_queueVars
    BY DEF MCNext, mcVars
<1>3. QED
    BY <1>1, <1>2, PTL DEF MCSpec, QueueSpec

\* This step of the worker is to ring, and has not yet.
ToRing == drain_pc \in {"from_radio", "from_num"} /\ ring

(* The flag says that the batch has rung or that the step under way will:  *)
(* which of the two, only the place in the step and the local ring tell.   *)
BellsInv ==
    /\ bells \in {0, 1}
    /\ drain_pc = "from_num" => ring
    /\ doorbell_rung /\ ~ToRing => bells = 1
    /\ ~doorbell_rung \/ ToRing => bells = 0

LEMMA BellsInitially == MCInit => BellsInv
BY DEF MCInit, QueueInit, BellsInv, ToRing

LEMMA BellsStep == BatchInv /\ TypeOK /\ BellsInv /\ [MCNext]_mcVars => BellsInv'
<1> SUFFICES ASSUME BatchInv, TypeOK, BellsInv, [MCNext]_mcVars
             PROVE  BellsInv'
    OBVIOUS
<1> DEFINE Counted == bells' = IF BatchEnds THEN 0
                               ELSE IF drain_pc = "from_num" /\ drain_pc' # "from_num" THEN bells + 1
                               ELSE bells
<1>1. MCNext => Counted
    BY DEF MCNext
<1> HIDE DEF Counted
<1>4. ASSUME NEW m \in Message, Enqueue(m), Counted
      PROVE  BellsInv'
    <2>1. drain_active' /\ UNCHANGED <<doorbell_rung, drain_pc, ring>>
        BY <1>4 DEF Enqueue, stepVars
    <2>2. ~BatchEnds
        BY <2>1 DEF BatchEnds, Reset
    <2>3. bells' = bells
        BY <1>4, <2>1, <2>2 DEF Counted
    <2>4. QED
        BY <2>1, <2>3 DEF BellsInv, ToRing
<1>5. ASSUME NEW m \in Message, Refuse(m), Counted
      PROVE  BellsInv'
    <2>1. UNCHANGED <<drain_active, doorbell_rung, drain_pc, ring>>
        BY <1>5 DEF Refuse, queueVars, batchVars, stepVars
    <2>2. BatchEnds => ~doorbell_rung /\ drain_pc = "idle"
        BY <2>1 DEF BatchEnds, Reset
    <2>3. bells' = bells
        BY <1>5, <2>1, <2>2 DEF Counted, BellsInv
    <2>4. QED
        BY <2>1, <2>3 DEF BellsInv, ToRing
<1>6. CASE Reset /\ Counted
    BY <1>6 DEF Reset, Counted, BatchEnds, stepVars, BellsInv, ToRing
<1>7. CASE DrainBegin /\ Counted
    <2>1. ~BatchEnds /\ bells' = bells
        BY <1>7 DEF DrainBegin, BatchEnds, Reset, Counted
    <2>2. ring' => ~doorbell_rung
        BY <1>7 DEF DrainBegin
    <2>3. doorbell_rung \/ pending > 0
        <3>1. pending = 0 \/ pending > 0
            BY DepthAssumption, SMT DEF TypeOK
        <3>2. QED
            BY <1>7, <3>1 DEF DrainBegin, BatchInv
    <2>4. doorbell_rung' /\ (~ring' => doorbell_rung)
        BY <1>7, <2>3 DEF DrainBegin
    <2>5. drain_pc = "idle" /\ drain_pc' = "from_radio"
        BY <1>7 DEF DrainBegin
    <2>6. QED
        BY <2>1, <2>2, <2>4, <2>5 DEF BellsInv, ToRing
<1>8. ASSUME NEW stored \in BOOLEAN, UpdateFromRadio(stored), Counted
      PROVE  BellsInv'
    <2>1. ~BatchEnds /\ bells' = bells
        BY <1>8 DEF UpdateFromRadio, batchVars, BatchEnds, Reset, Counted
    <2>2. QED
        BY <1>8, <2>1 DEF UpdateFromRadio, batchVars, BellsInv, ToRing
<1>9. ASSUME NEW stored \in BOOLEAN, UpdateFromNum(stored), Counted
      PROVE  BellsInv'
    <2>1. ~BatchEnds /\ bells = 0 /\ doorbell_rung
        BY <1>9 DEF UpdateFromNum, batchVars, BatchEnds, Reset, BellsInv, ToRing, BatchInv
    <2>2. bells' = 0 + 1
        BY <1>9, <2>1 DEF UpdateFromNum, Counted
    <2>3. bells' = 1
        BY <2>2, SMT
    <2>4. QED
        BY <1>9, <2>1, <2>3 DEF UpdateFromNum, batchVars, BellsInv, ToRing
<1>10. CASE DrainAdvance /\ Counted
    <2>1. bells = 1 /\ drain_active /\ drain_pc' = "idle"
        BY <1>10 DEF DrainAdvance, BellsInv, ToRing, BatchInv
    <2>2. CASE pending > 0
        <3>1. drain_active' /\ doorbell_rung'
            BY <1>10, <2>2 DEF DrainAdvance, BatchInv
        <3>2. ~BatchEnds
            BY <1>10, <3>1 DEF BatchEnds, Reset, DrainAdvance
        <3>3. bells' = 1
            BY <1>10, <2>1, <3>2 DEF DrainAdvance, Counted
        <3>4. QED
            BY <2>1, <3>1, <3>3 DEF BellsInv, ToRing
    <2>3. CASE ~(pending > 0)
        <3>1. ~drain_active' /\ ~doorbell_rung'
            BY <1>10, <2>3 DEF DrainAdvance
        <3>2. bells' = 0
            BY <1>10, <2>1, <3>1 DEF BatchEnds, Counted
        <3>3. QED
            BY <2>1, <3>1, <3>2 DEF BellsInv, ToRing
    <2>4. QED
        BY <2>2, <2>3
<1>11. CASE UNCHANGED mcVars
    BY <1>11 DEF mcVars, queueVars, batchVars, stepVars, BellsInv, ToRing
<1>12. QED
    BY <1>1, <1>4, <1>5, <1>6, <1>7, <1>8, <1>9, <1>10, <1>11 DEF MCNext, QueueNext, DrainStep

(* However many messages join a batch, and from whichever thread, it rings *)
(* once, and has rung before its first message is consumed.                *)
THEOREM OneDoorbellRung == MCSpec => []OneDoorbellPerBatch
<1>1. BatchInv /\ BellsInv => OneDoorbellPerBatch
    <2> SUFFICES ASSUME BatchInv, BellsInv
                 PROVE  OneDoorbellPerBatch
        OBVIOUS
    <2>1. bells <= 1
        BY SMT DEF BellsInv
    <2>2. drain_pc = "advance" => bells = 1
        BY DEF BatchInv, BellsInv, ToRing
    <2>3. QED
        BY <2>1, <2>2 DEF OneDoorbellPerBatch
<1>2. QED
    BY <1>1, CountedQueue, QueueTypeCorrect, BatchInvariant, BellsInitially, BellsStep, PTL DEF MCSpec

-----------------------------------------------------------------------------
(* Publish, then consume *)

LEMMA ConsumesStep ==
    ASSUME ForeignCaller = FALSE
    PROVE  ConsumesWhatWasPublished /\ [QueueNext]_queueVars => ConsumesWhatWasPublished'
<1> SUFFICES ASSUME ConsumesWhatWasPublished, [QueueNext]_queueVars
             PROVE  ConsumesWhatWasPublished'
    OBVIOUS
<1> USE DEF ConsumesWhatWasPublished, Published
<1>1. ASSUME NEW m \in Message, Enqueue(m)
      PROVE  ConsumesWhatWasPublished'
    BY <1>1 DEF Enqueue, MayCallQueue, stepVars
<1>2. CASE Reset
    BY <1>2 DEF Reset, stepVars
<1>3. CASE DrainBegin
    BY <1>3 DEF DrainBegin
<1>4. ASSUME NEW stored \in BOOLEAN, UpdateFromRadio(stored)
      PROVE  ConsumesWhatWasPublished'
    BY <1>4 DEF UpdateFromRadio, CurrentValue, ringVars
<1>5. ASSUME NEW stored \in BOOLEAN, UpdateFromNum(stored)
      PROVE  ConsumesWhatWasPublished'
    BY <1>5 DEF UpdateFromNum, CurrentValue, ringVars
<1>6. CASE DrainAdvance
    BY <1>6 DEF DrainAdvance
<1>7. CASE UNCHANGED queueVars
    BY <1>7 DEF queueVars, ringVars, stepVars, gattVars, CurrentValue
<1>8. ASSUME NEW m \in Message, Refuse(m)
      PROVE  ConsumesWhatWasPublished'
    BY <1>7, <1>8 DEF Refuse
<1>9. QED
    BY <1>1, <1>2, <1>3, <1>4, <1>5, <1>6, <1>7, <1>8 DEF QueueNext, DrainStep

(* When queue() is called on the worker only, as it is in this code, the   *)
(* message consumed is always the one that was given to the stack.         *)
THEOREM PublishedThenConsumed ==
    ASSUME ForeignCaller = FALSE
    PROVE  QueueSpec => []ConsumesWhatWasPublished
<1>1. QueueInit => ConsumesWhatWasPublished
    BY DEF QueueInit, ConsumesWhatWasPublished, Published
<1>2. QED
    BY <1>1, ConsumesStep, PTL DEF QueueSpec

\* A message stored at the head leaves the oldest one where it is.
LEMMA EnqueueKeepsOldest ==
    ASSUME TypeOK, RingInv, NEW m \in Message, Enqueue(m), pending # 0
    PROVE  CurrentValue' = CurrentValue
<1>1. /\ pending \in 0 .. QUEUE_DEPTH - 1 /\ 0 \in 0 .. QUEUE_DEPTH - 1
      /\ pending' = pending + 1 /\ pending' # 0
    BY DepthAssumption, SMT DEF Enqueue, TypeOK
<1>2. head # tail
    <2>1. SlotAfter(tail, pending) # SlotAfter(tail, 0)
        BY <1>1, SlotAfterInjective DEF TypeOK
    <2>2. QED
        BY <2>1, SlotAfterZero DEF RingInv, TypeOK
<1>3. queue'[tail] = queue[tail] /\ tail' = tail
    BY <1>2 DEF Enqueue, TypeOK
<1>4. QED
    BY <1>1, <1>3 DEF CurrentValue

LEMMA NotReplacedStep ==
    TypeOK /\ RingInv /\ PublishedNotReplaced /\ [QueueNext]_queueVars => PublishedNotReplaced'
<1> SUFFICES ASSUME TypeOK, RingInv, PublishedNotReplaced, [QueueNext]_queueVars
             PROVE  PublishedNotReplaced'
    OBVIOUS
<1> USE DEF PublishedNotReplaced, Published
<1>1. ASSUME NEW m \in Message, Enqueue(m)
      PROVE  PublishedNotReplaced'
    <2>1. offered' = offered /\ drain_pc' = drain_pc
        BY <1>1 DEF Enqueue, stepVars, gattVars
    <2>2. Published /\ offered # NoMessage => pending # 0
        BY DEF CurrentValue
    <2>3. QED
        BY <1>1, <2>1, <2>2, EnqueueKeepsOldest
<1>2. CASE Reset
    BY <1>2 DEF Reset, stepVars
<1>3. CASE DrainBegin \/ DrainAdvance
    BY <1>3 DEF DrainBegin, DrainAdvance
<1>4. ASSUME NEW stored \in BOOLEAN, UpdateFromRadio(stored)
      PROVE  PublishedNotReplaced'
    BY <1>4 DEF UpdateFromRadio, CurrentValue, ringVars
<1>5. ASSUME NEW stored \in BOOLEAN, UpdateFromNum(stored)
      PROVE  PublishedNotReplaced'
    BY <1>5 DEF UpdateFromNum, CurrentValue, ringVars
<1>6. CASE UNCHANGED queueVars
    BY <1>6 DEF queueVars, ringVars, stepVars, gattVars, CurrentValue
<1>7. QED
    BY <1>1, <1>2, <1>3, <1>4, <1>5, <1>6 DEF QueueNext, DrainStep, Refuse

(* With callers of queue() on any thread, between the publish and the      *)
(* advance too: a published message is the one consumed.                   *)
THEOREM PublishedNeverReplaced == QueueSpec => []PublishedNotReplaced
<1>1. QueueInit => PublishedNotReplaced
    BY DEF QueueInit, PublishedNotReplaced, Published
<1>2. QED
    BY <1>1, NotReplacedStep, RingInvInitially, RingInvStep, QueueTypeCorrect, PTL DEF QueueSpec

-----------------------------------------------------------------------------
(* The ring implements the outbox *)

\* The contents are a sequence of messages, as long as pending says.
LEMMA ContentsType ==
    ASSUME TypeOK, RingInv
    PROVE  Contents \in Seq(Message) /\ Len(Contents) = pending
<1>1. pending \in Nat
    BY DepthAssumption, SMT DEF TypeOK
<1>2. \A i \in 1 .. pending : Contents[i] \in Message
    BY RingInvCoherent DEF RingCoherent
<1>3. Contents = [i \in 1 .. pending |-> Contents[i]]
    BY DEF Contents
<1>4. QED
    BY <1>1, <1>2, <1>3, SMT

\* With nothing pending the contents are the empty sequence.
LEMMA ContentsEmpty ==
    ASSUME TypeOK, RingInv
    PROVE  Contents = <<>> <=> pending = 0
<1>1. pending \in Nat
    BY DepthAssumption, SMT DEF TypeOK
<1>2. QED
    BY <1>1, ContentsType, SMT

\* The value published is the head of the contents.
LEMMA OldestIsCurrentValue ==
    ASSUME TypeOK, RingInv
    PROVE  O!Oldest = CurrentValue
<1>1. CASE pending = 0
    BY <1>1, ContentsEmpty DEF O!Oldest, CurrentValue
<1>2. CASE pending # 0
    <2>1. 1 \in 1 .. pending
        BY <1>2, DepthAssumption, SMT DEF TypeOK
    <2>2. Contents[1] = queue[SlotAfter(tail, 0)]
        BY <2>1, SMT DEF Contents
    <2>3. SlotAfter(tail, 0) = tail
        BY SlotAfterZero DEF TypeOK
    <2>4. Head(Contents) = Contents[1]
        BY <1>2, ContentsType, ContentsEmpty, SMT
    <2>5. QED
        BY <1>2, <2>2, <2>3, <2>4, ContentsEmpty DEF O!Oldest, CurrentValue
<1>3. QED
    BY <1>1, <1>2

\* Storing a message at the head appends it to the contents.
LEMMA EnqueueAppends ==
    ASSUME TypeOK, RingInv, NEW m \in Message, Enqueue(m)
    PROVE  Contents' = Append(Contents, m)
<1>1. /\ pending \in 0 .. QUEUE_DEPTH - 1 /\ pending \in Nat /\ pending' = pending + 1
      /\ tail' = tail /\ tail \in Slot /\ head \in Slot
      /\ queue' = [queue EXCEPT ![head] = m] /\ DOMAIN queue = Slot
    BY DepthAssumption, SMT DEF Enqueue, TypeOK
<1>2. Contents' = [i \in 1 .. pending + 1 |-> queue'[SlotAfter(tail, i - 1)]]
    BY <1>1 DEF Contents
<1>3. Append(Contents, m) = [i \in 1 .. pending + 1 |-> IF i = pending + 1 THEN m ELSE Contents[i]]
    <2>1. /\ Append(Contents, m) \in Seq(Message)
          /\ Len(Append(Contents, m)) = pending + 1
          /\ \A i \in 1 .. pending : Append(Contents, m)[i] = Contents[i]
          /\ Append(Contents, m)[pending + 1] = m
        BY ContentsType, AppendProperties
    <2>2. Append(Contents, m) \in [1 .. pending + 1 -> Message]
        BY <2>1, LenProperties
    <2>3. \A i \in 1 .. pending + 1 : i # pending + 1 => i \in 1 .. pending
        BY <1>1, SMT
    <2>4. QED
        BY <2>1, <2>2, <2>3
<1>4. ASSUME NEW i \in 1 .. pending + 1
      PROVE  queue'[SlotAfter(tail, i - 1)] = IF i = pending + 1 THEN m ELSE Contents[i]
    <2>1. i - 1 \in 0 .. QUEUE_DEPTH - 1 /\ i - 1 \in Nat /\ tail \in Nat
        BY <1>1, DepthAssumption, SMT DEF Slot
    <2>2. SlotAfter(tail, i - 1) \in Slot
        BY <2>1, SlotAfterType
    <2>3. CASE i = pending + 1
        <3>1. i - 1 = pending
            BY <1>1, <2>3, SMT
        <3>2. SlotAfter(tail, i - 1) = head
            BY <3>1 DEF RingInv
        <3>3. QED
            BY <1>1, <2>3, <3>2
    <2>4. CASE i # pending + 1
        <3>1. i \in 1 .. pending /\ i - 1 # pending
            BY <1>1, <2>4, SMT
        <3>2. SlotAfter(tail, i - 1) # head
            BY <1>1, <2>1, <3>1, SlotAfterInjective DEF RingInv
        <3>3. Contents[i] = queue[SlotAfter(tail, i - 1)]
            BY <3>1 DEF Contents
        <3>4. QED
            BY <1>1, <2>2, <2>4, <3>2, <3>3
    <2>5. QED
        BY <2>3, <2>4
<1>5. QED
    BY <1>2, <1>3, <1>4

\* Advancing the tail drops the first message of the contents.
LEMMA AdvanceDropsFirst ==
    ASSUME TypeOK, RingInv, DrainAdvance
    PROVE  Contents' = IF Contents = <<>> THEN <<>> ELSE Tail(Contents)
<1>1. CASE pending = 0
    <2>1. UNCHANGED <<queue, tail, pending>>
        BY <1>1, SMT DEF DrainAdvance
    <2>2. QED
        BY <1>1, <2>1, ContentsEmpty DEF Contents
<1>2. CASE pending # 0
    <2>1. /\ pending \in 1 .. QUEUE_DEPTH /\ pending' = pending - 1
          /\ tail' = NextSlot(tail) /\ queue' = queue /\ tail \in Slot
        BY <1>2, DepthAssumption, SMT DEF DrainAdvance, TypeOK
    <2>2. Contents' = [i \in 1 .. pending - 1 |-> queue[SlotAfter(NextSlot(tail), i - 1)]]
        BY <2>1 DEF Contents
    <2>3. Tail(Contents) = [i \in 1 .. pending - 1 |-> Contents[i + 1]]
        <3>1. Contents # <<>>
            BY <1>2, ContentsEmpty
        <3>2. /\ Tail(Contents) \in Seq(Message)
              /\ Len(Tail(Contents)) = pending - 1
              /\ \A i \in 1 .. pending - 1 : Tail(Contents)[i] = Contents[i + 1]
            BY <3>1, ContentsType, HeadTailProperties
        <3>3. Tail(Contents) \in [1 .. pending - 1 -> Message]
            BY <3>2, LenProperties
        <3>4. QED
            BY <3>2, <3>3
    <2>4. ASSUME NEW i \in 1 .. pending - 1
          PROVE  queue[SlotAfter(NextSlot(tail), i - 1)] = Contents[i + 1]
        <3>1. /\ i - 1 \in 0 .. QUEUE_DEPTH - 1 /\ (i - 1) + 1 = i
              /\ i + 1 \in 1 .. pending /\ (i + 1) - 1 = i
            BY <2>1, DepthAssumption, SMT
        <3>2. SlotAfter(NextSlot(tail), i - 1) = SlotAfter(tail, i)
            BY <2>1, <3>1, SlotAfterNext
        <3>3. QED
            BY <3>1, <3>2 DEF Contents
    <2>5. Contents' = Tail(Contents)
        BY <2>2, <2>3, <2>4
    <2>6. QED
        BY <1>2, <2>5, ContentsEmpty
<1>3. QED
    BY <1>1, <1>2

\* Where nothing of the ring moves, the contents stay.
LEMMA ContentsUnchanged == UNCHANGED ringVars => Contents' = Contents
BY DEF ringVars, Contents

\* One step of the queue is one step of the outbox, or changes nothing in it.
LEMMA OutboxStep ==
    ASSUME TypeOK, TypeOK', RingInv, RingInv', ConsumesWhatWasPublished,
           ForeignCaller = FALSE, [QueueNext]_queueVars
    PROVE  [O!Next]_(O!vars)
<1> USE DEF O!vars
<1>1. ASSUME NEW m \in Message, Enqueue(m)
      PROVE  O!Accept
    <2>1. Contents' = Append(Contents, m)
        BY <1>1, EnqueueAppends
    <2>2. Len(Contents) < QUEUE_DEPTH
        BY <1>1, ContentsType, DepthAssumption, SMT DEF Enqueue, TypeOK
    <2>3. offered' = offered /\ Published' = Published
        BY <1>1 DEF Enqueue, Published, stepVars, gattVars
    <2>4. QED
        BY <2>1, <2>2, <2>3 DEF O!Accept
<1>2. ASSUME Reset
      PROVE  O!Clear
    <2>1. Contents' = <<>>
        <3>1. Contents' = [i \in 1 .. 0 |-> queue'[SlotAfter(tail', i - 1)]]
            BY <1>2 DEF Reset, Contents
        <3>2. QED
            BY <3>1, SMT
    <2>2. ~Published /\ Published' = Published /\ offered' = offered
        BY <1>2 DEF Reset, Published, stepVars, gattVars
    <2>3. QED
        BY <2>1, <2>2 DEF O!Clear
<1>3. ASSUME DrainBegin
      PROVE  UNCHANGED O!vars
    <2>1. Published' = Published /\ offered' = offered /\ UNCHANGED ringVars
        BY <1>3 DEF DrainBegin, Published, gattVars
    <2>2. QED
        BY <2>1, ContentsUnchanged
<1>4. ASSUME NEW stored \in BOOLEAN, UpdateFromRadio(stored)
      PROVE  O!Offer
    <2>1. ~Published /\ Published' /\ UNCHANGED ringVars
        BY <1>4 DEF UpdateFromRadio, Published
    <2>2. offered' = O!Oldest
        BY <1>4, OldestIsCurrentValue DEF UpdateFromRadio
    <2>3. QED
        BY <2>1, <2>2, ContentsUnchanged DEF O!Offer
<1>5. ASSUME NEW stored \in BOOLEAN, UpdateFromNum(stored)
      PROVE  UNCHANGED O!vars
    <2>1. Published /\ Published' /\ offered' = offered /\ UNCHANGED ringVars
        BY <1>5 DEF UpdateFromNum, Published
    <2>2. QED
        BY <2>1, ContentsUnchanged
<1>6. ASSUME DrainAdvance
      PROVE  O!Drop
    <2>1. Published /\ ~Published' /\ offered' = offered
        BY <1>6 DEF DrainAdvance, Published, gattVars
    <2>2. offered = O!Oldest
        BY <2>1, OldestIsCurrentValue DEF ConsumesWhatWasPublished
    <2>3. Contents' = IF Contents = <<>> THEN <<>> ELSE Tail(Contents)
        BY <1>6, AdvanceDropsFirst
    <2>4. QED
        BY <2>1, <2>2, <2>3 DEF O!Drop
<1>7. ASSUME UNCHANGED queueVars
      PROVE  UNCHANGED O!vars
    <2>1. UNCHANGED ringVars /\ offered' = offered /\ Published' = Published
        BY <1>7 DEF queueVars, stepVars, gattVars, Published
    <2>2. QED
        BY <2>1, ContentsUnchanged
<1>8. ASSUME NEW m \in Message, Refuse(m)
      PROVE  UNCHANGED queueVars
    BY <1>8 DEF Refuse
<1>9. QED
    BY <1>1, <1>2, <1>3, <1>4, <1>5, <1>6, <1>7, <1>8 DEF QueueNext, DrainStep, O!Next

(* The ring, with queue() called on the worker only, implements the        *)
(* abstract outbox: messages leave it in the order they entered, each      *)
(* offered to the stack before it is dropped, none lost or repeated.       *)
THEOREM RingImplementsOutbox ==
    ASSUME ForeignCaller = FALSE
    PROVE  QueueSpec => OutboxSpec
<1>1. QueueInit => O!Init
    <2>1. SUFFICES ASSUME QueueInit PROVE O!Init
        OBVIOUS
    <2>2. pending = 0
        BY <2>1 DEF QueueInit
    <2>3. Contents = <<>>
        BY <2>2, SMT DEF Contents
    <2>4. QED
        BY <2>1, <2>3 DEF QueueInit, O!Init, Published
<1>2. TypeOK /\ TypeOK' /\ RingInv /\ RingInv' /\ ConsumesWhatWasPublished
        /\ [QueueNext]_queueVars => [O!Next]_(O!vars)
    BY OutboxStep
<1>3. QueueSpec => []RingInv
    BY RingInvInitially, RingInvStep, QueueTypeCorrect, PTL DEF QueueSpec
<1>4. QED
    BY <1>1, <1>2, <1>3, QueueTypeCorrect, PublishedThenConsumed, PTL
    DEF QueueSpec, OutboxSpec, O!Spec

=============================================================================

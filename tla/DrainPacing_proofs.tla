-------------------------- MODULE DrainPacing_proofs --------------------------
(***************************************************************************)
(* Proofs about DrainPacing, for any interval, any range of the tick       *)
(* counter that is long enough to compare two ticks an interval apart, and *)
(* any tick at which the device may stand.                                 *)
(***************************************************************************)
EXTENDS DrainPacing, FromRadioQueue_proofs

-----------------------------------------------------------------------------
(* The tick counter *)

TickType == 0 .. TICK_RANGE - 1

\* Within one turn of the counter a remainder is at most one correction.
LEMMA TickRemainder ==
    /\ \A x \in TickType : x % TICK_RANGE = x
    /\ \A x \in TICK_RANGE .. 2 * TICK_RANGE - 1 : x % TICK_RANGE = x - TICK_RANGE
    /\ \A x \in (-TICK_RANGE) .. (-1) : x % TICK_RANGE = x + TICK_RANGE
<1>1. TICK_RANGE \in Nat \ {0}
    BY PacingAssumption, SMT
<1>2. ASSUME NEW x \in TickType PROVE x % TICK_RANGE = x
    BY <1>1, SMT DEF TickType
<1>3. ASSUME NEW x \in TICK_RANGE .. 2 * TICK_RANGE - 1 PROVE x % TICK_RANGE = x - TICK_RANGE
    BY <1>1, SMT
<1>4. ASSUME NEW x \in (-TICK_RANGE) .. (-1) PROVE x % TICK_RANGE = x + TICK_RANGE
    BY <1>1, SMT
<1>5. QED
    BY <1>2, <1>3, <1>4

LEMMA LaterWithin ==
    ASSUME NEW t \in TickType, NEW d \in 0 .. DRAIN_INTERVAL
    PROVE  /\ Later(t, d) = IF t + d < TICK_RANGE THEN t + d ELSE t + d - TICK_RANGE
           /\ Later(t, d) \in TickType
<1>1. CASE t + d < TICK_RANGE
    <2>1. t + d \in TickType
        BY <1>1, PacingAssumption, SMT DEF TickType
    <2>2. QED
        BY <1>1, <2>1, TickRemainder DEF Later
<1>2. CASE ~(t + d < TICK_RANGE)
    <2>1. t + d \in TICK_RANGE .. 2 * TICK_RANGE - 1 /\ t + d - TICK_RANGE \in TickType
        BY <1>2, PacingAssumption, SMT DEF TickType
    <2>2. \A x \in TICK_RANGE .. 2 * TICK_RANGE - 1 : x % TICK_RANGE = x - TICK_RANGE
        BY TickRemainder
    <2>3. (t + d) % TICK_RANGE = (t + d) - TICK_RANGE
        BY <2>1, <2>2, Zenon
    <2>4. (t + d) - TICK_RANGE = t + d - TICK_RANGE
        BY PacingAssumption, SMT DEF TickType
    <2>5. QED
        BY <1>2, <2>1, <2>3, <2>4, Zenon DEF Later
<1>3. QED
    BY <1>1, <1>2

\* One unit of time brings a later tick one unit closer.
LEMMA LaterAfterTick ==
    ASSUME NEW t \in TickType, NEW d \in 1 .. DRAIN_INTERVAL
    PROVE  Later(Later(t, 1), d - 1) = Later(t, d)
<1> DEFINE u == Later(t, 1)
<1>1. 1 \in 0 .. DRAIN_INTERVAL /\ d \in 0 .. DRAIN_INTERVAL /\ d - 1 \in 0 .. DRAIN_INTERVAL
    BY PacingAssumption, SMT
<1>2. u \in TickType /\ u = IF t + 1 < TICK_RANGE THEN t + 1 ELSE t + 1 - TICK_RANGE
    BY <1>1, LaterWithin
<1>3. Later(t, d) = IF t + d < TICK_RANGE THEN t + d ELSE t + d - TICK_RANGE
    BY <1>1, LaterWithin
<1> HIDE DEF u
<1>4. Later(u, d - 1) = IF u + (d - 1) < TICK_RANGE THEN u + (d - 1) ELSE u + (d - 1) - TICK_RANGE
    BY <1>1, <1>2, LaterWithin
<1>5. Later(u, d - 1) = Later(t, d)
    BY <1>2, <1>3, <1>4, PacingAssumption, SMT DEF TickType
<1>6. QED
    BY <1>5 DEF u

\* The signed difference tells a tick ahead from one that has come.
LEMMA NotBeforeWithin ==
    ASSUME NEW t \in TickType
    PROVE  /\ NotBefore(t, t)
           /\ NotBefore(Later(t, 1), t)
           /\ \A d \in 1 .. DRAIN_INTERVAL : ~NotBefore(t, Later(t, d))
<1> DEFINE half == TICK_RANGE \div 2
<1>1. half \in Nat /\ 2 * half = TICK_RANGE /\ half > DRAIN_INTERVAL + 1
    BY PacingAssumption, SMT
<1> HIDE DEF half
<1>2. NotBefore(t, t)
    <2>1. t - t = 0 /\ 0 \in TickType /\ 0 < half
        BY <1>1, PacingAssumption, SMT DEF TickType
    <2>2. 0 % TICK_RANGE = 0
        BY <2>1, TickRemainder
    <2>3. QED
        BY <2>1, <2>2 DEF NotBefore, half
<1>3. NotBefore(Later(t, 1), t)
    <2>1. 1 \in 0 .. DRAIN_INTERVAL /\ 1 < half /\ 1 \in TickType
        BY <1>1, PacingAssumption, SMT DEF TickType
    <2>2. Later(t, 1) = IF t + 1 < TICK_RANGE THEN t + 1 ELSE t + 1 - TICK_RANGE
        BY <2>1, LaterWithin
    <2>3. Later(t, 1) - t = 1 \/ Later(t, 1) - t = 1 - TICK_RANGE
        BY <2>2, PacingAssumption, SMT DEF TickType
    <2>4. 1 - TICK_RANGE \in (-TICK_RANGE) .. (-1) /\ (1 - TICK_RANGE) + TICK_RANGE = 1
        BY PacingAssumption, SMT
    <2>5. 1 % TICK_RANGE = 1 /\ (1 - TICK_RANGE) % TICK_RANGE = 1
        BY <2>1, <2>4, TickRemainder
    <2>6. QED
        BY <2>1, <2>3, <2>5 DEF NotBefore, half
<1>4. ASSUME NEW d \in 1 .. DRAIN_INTERVAL PROVE ~NotBefore(t, Later(t, d))
    <2>1. d \in 0 .. DRAIN_INTERVAL /\ TICK_RANGE - d \in TickType /\ ~(TICK_RANGE - d < half)
        BY <1>1, PacingAssumption, SMT DEF TickType
    <2>2. Later(t, d) = IF t + d < TICK_RANGE THEN t + d ELSE t + d - TICK_RANGE
        BY <2>1, LaterWithin
    <2>3. t - Later(t, d) = -d \/ t - Later(t, d) = TICK_RANGE - d
        BY <2>2, PacingAssumption, SMT DEF TickType
    <2>4. -d \in (-TICK_RANGE) .. (-1) /\ (-d) + TICK_RANGE = TICK_RANGE - d
        BY PacingAssumption, SMT
    <2>5. (-d) % TICK_RANGE = TICK_RANGE - d /\ (TICK_RANGE - d) % TICK_RANGE = TICK_RANGE - d
        BY <2>1, <2>4, TickRemainder
    <2>6. QED
        BY <2>1, <2>3, <2>5 DEF NotBefore, half
<1>5. QED
    BY <1>2, <1>3, <1>4

-----------------------------------------------------------------------------
(* The queue under the clock *)

LEMMA PacingStepIsQueueStep == [Next]_pacingVars => [QueueNext]_queueVars
<1> SUFFICES ASSUME [Next]_pacingVars PROVE [QueueNext]_queueVars
    OBVIOUS
<1>1. ASSUME NEW m \in Message, QueueReply(m) PROVE QueueNext
    BY <1>1 DEF QueueReply, QueueNext
<1>2. CASE NewSession
    BY <1>2 DEF NewSession, QueueNext
<1>3. CASE StepWhenDue
    BY <1>3 DEF StepWhenDue, QueueNext, DrainStep
<1>4. CASE Publish
    BY <1>4 DEF Publish, QueueNext, DrainStep
<1>5. CASE FinishStep
    BY <1>5 DEF FinishStep, QueueNext, DrainStep
<1>6. CASE NothingDue \/ Tick
    BY <1>6 DEF NothingDue, Tick
<1>7. CASE UNCHANGED pacingVars
    BY <1>7 DEF pacingVars
<1>8. QED
    BY <1>1, <1>2, <1>3, <1>4, <1>5, <1>6, <1>7 DEF Next

(* Pacing the drain takes nothing from the queue: what holds of it however *)
(* its steps are timed holds of it paced.                                  *)
THEOREM PacingImplementsQueue == Spec => QueueSpec
<1>1. Init => QueueInit
    BY DEF Init
<1>2. QED
    BY <1>1, PacingStepIsQueueStep, PTL DEF Spec, QueueSpec

ClockTypeOK ==
    /\ now \in TickType
    /\ drain_due_tick \in TickType
    /\ polled \in BOOLEAN
    /\ owed \in 0 .. DRAIN_INTERVAL
    /\ rearmed \in BOOLEAN
    /\ waited \in Nat

LEMMA ClockTypeInitially == Init => ClockTypeOK
<1>1. 0 \in TickType /\ 0 \in 0 .. DRAIN_INTERVAL /\ 0 \in Nat
    BY PacingAssumption, SMT DEF TickType
<1>2. QED
    BY <1>1, Zenon DEF Init, ClockTypeOK, TickType

LEMMA ClockTypeStep == ClockTypeOK /\ [Next]_pacingVars => ClockTypeOK'
<1> SUFFICES ASSUME ClockTypeOK, [Next]_pacingVars PROVE ClockTypeOK'
    OBVIOUS
<1> USE DEF ClockTypeOK
<1>1. 1 \in 0 .. DRAIN_INTERVAL /\ DRAIN_INTERVAL \in 0 .. DRAIN_INTERVAL /\ 0 \in 0 .. DRAIN_INTERVAL
    BY PacingAssumption, SMT
<1>2. Later(now, 1) \in TickType /\ Later(now, DRAIN_INTERVAL) \in TickType
    BY <1>1, LaterWithin
<1>3. ASSUME NEW m \in Message, QueueReply(m) PROVE ClockTypeOK'
    BY <1>3 DEF QueueReply
<1>4. CASE NewSession
    BY <1>1, <1>4 DEF NewSession, clockVars
<1>5. CASE StepWhenDue
    BY <1>2, <1>5 DEF StepWhenDue
<1>6. CASE NothingDue
    BY <1>6 DEF NothingDue, watchVars
<1>7. CASE Publish
    BY <1>1, <1>7 DEF Publish, clockVars
<1>8. CASE FinishStep
    BY <1>8 DEF FinishStep, clockVars, watchVars
<1>9. CASE Tick
    <2>1. owed' \in 0 .. DRAIN_INTERVAL /\ waited' \in Nat
        BY <1>9, PacingAssumption, SMT DEF Tick
    <2>2. QED
        BY <1>2, <1>9, <2>1 DEF Tick
<1>10. CASE UNCHANGED pacingVars
    BY <1>10 DEF pacingVars, clockVars, watchVars
<1>11. QED
    BY <1>3, <1>4, <1>5, <1>6, <1>7, <1>8, <1>9, <1>10 DEF Next

\* The types of the ring and of the clock.
THEOREM PacingTypeCorrect == Spec => []PacingTypeOK
<1>1. TypeOK /\ ClockTypeOK => PacingTypeOK
    BY DEF PacingTypeOK, ClockTypeOK, TickType
<1>2. Spec => []ClockTypeOK
    BY ClockTypeInitially, ClockTypeStep, PTL DEF Spec
<1>3. QED
    BY <1>1, <1>2, PacingImplementsQueue, QueueTypeCorrect, PTL

-----------------------------------------------------------------------------
(* The pace *)

(* DrainKeepsPace is not inductive: how far the due tick is ahead must be   *)
(* known too.  An interval less what has been waited; or the drain was      *)
(* armed at this tick, or at the one before and the worker is to look.      *)
PaceInv ==
    drain_active \/ drain_pc # "idle" =>
        \/ /\ waited \in 0 .. DRAIN_INTERVAL
           /\ drain_due_tick = Later(now, DRAIN_INTERVAL - waited)
           /\ waited = DRAIN_INTERVAL => ~polled
        \/ drain_due_tick = now /\ waited = 0
        \/ now = Later(drain_due_tick, 1) /\ waited = 1 /\ ~polled

LEMMA PaceInitially == Init => PaceInv
BY DEF Init, QueueInit, PaceInv

LEMMA PaceStep == ClockTypeOK /\ PaceInv /\ [Next]_pacingVars => PaceInv'
<1> SUFFICES ASSUME ClockTypeOK, PaceInv, [Next]_pacingVars PROVE PaceInv'
    OBVIOUS
<1>1. 0 \in 0 .. DRAIN_INTERVAL /\ DRAIN_INTERVAL - 0 = DRAIN_INTERVAL /\ 0 # DRAIN_INTERVAL
    BY PacingAssumption, SMT
<1>2. now \in TickType /\ drain_due_tick \in TickType
    BY DEF ClockTypeOK
<1>3. Later(now, 0) = now
    <2>1. now + 0 = now
        BY <1>2, PacingAssumption, SMT DEF TickType
    <2>2. QED
        BY <1>2, <2>1, TickRemainder, Zenon DEF Later
<1>4. ASSUME NEW m \in Message, QueueReply(m) PROVE PaceInv'
    BY <1>4 DEF QueueReply, PaceInv
<1>5. CASE NewSession
    BY <1>5 DEF NewSession, Reset, stepVars, PaceInv
<1>6. CASE StepWhenDue
    BY <1>1, <1>6 DEF StepWhenDue, PaceInv
<1>7. CASE NothingDue
    <2>1. drain_active => waited \in 0 .. DRAIN_INTERVAL - 1
                       /\ drain_due_tick = Later(now, DRAIN_INTERVAL - waited)
        <3>1. HAVE drain_active
        <3>2. ~NotBefore(now, drain_due_tick)
            BY <1>7, <3>1 DEF NothingDue, Due
        <3>3. drain_due_tick # now /\ now # Later(drain_due_tick, 1)
            BY <1>2, <3>2, NotBeforeWithin
        <3>4. waited \in 0 .. DRAIN_INTERVAL /\ drain_due_tick = Later(now, DRAIN_INTERVAL - waited)
            BY <3>1, <3>3 DEF PaceInv
        <3>5. waited # DRAIN_INTERVAL
            <4>1. DRAIN_INTERVAL - DRAIN_INTERVAL = 0
                BY PacingAssumption, SMT
            <4>2. QED
                BY <1>3, <3>3, <3>4, <4>1
        <3>6. waited \in 0 .. DRAIN_INTERVAL - 1
            BY <3>4, <3>5, PacingAssumption, SMT
        <3>7. QED
            BY <3>4, <3>6
    <2>2. waited \in 0 .. DRAIN_INTERVAL - 1 => waited \in 0 .. DRAIN_INTERVAL /\ waited # DRAIN_INTERVAL
        BY PacingAssumption, SMT
    <2>3. UNCHANGED <<drain_active, drain_pc, now, drain_due_tick, waited>> /\ drain_pc = "idle"
        BY <1>7 DEF NothingDue, queueVars, batchVars, stepVars, watchVars
    <2>4. QED
        BY <2>1, <2>2, <2>3 DEF PaceInv
<1>8. CASE Publish
    BY <1>8 DEF Publish, UpdateFromRadio, batchVars, clockVars, PaceInv
<1>9. CASE FinishStep
    <2>1. drain_pc # "idle"
        BY <1>9 DEF FinishStep, DrainAdvance, UpdateFromNum
    <2>2. UNCHANGED <<now, drain_due_tick, polled, waited>>
        BY <1>9 DEF FinishStep, clockVars, watchVars
    <2>3. QED
        BY <2>1, <2>2 DEF PaceInv
<1>10. CASE Tick
    <2>1. /\ drain_pc = "idle" /\ polled /\ ~polled'
          /\ now' = Later(now, 1)
          /\ waited' = IF drain_active THEN waited + 1 ELSE 0
          /\ UNCHANGED <<drain_active, drain_pc, drain_due_tick>>
        BY <1>10 DEF Tick, queueVars, batchVars, stepVars
    <2>2. CASE ~drain_active
        BY <2>1, <2>2 DEF PaceInv
    <2>3. CASE drain_active /\ drain_due_tick = now /\ waited = 0
        <3>1. waited' = 1
            BY <2>1, <2>3, SMT
        <3>2. QED
            BY <2>1, <2>3, <3>1 DEF PaceInv
    <2>4. CASE drain_active /\ waited \in 0 .. DRAIN_INTERVAL - 1
                            /\ drain_due_tick = Later(now, DRAIN_INTERVAL - waited)
        <3>1. /\ DRAIN_INTERVAL - waited \in 1 .. DRAIN_INTERVAL
              /\ (DRAIN_INTERVAL - waited) - 1 = DRAIN_INTERVAL - (waited + 1)
              /\ waited + 1 \in 0 .. DRAIN_INTERVAL
            BY <2>4, PacingAssumption, SMT
        <3>2. Later(Later(now, 1), (DRAIN_INTERVAL - waited) - 1) = Later(now, DRAIN_INTERVAL - waited)
            BY <1>2, <3>1, LaterAfterTick
        <3>3. drain_due_tick' = Later(now', DRAIN_INTERVAL - (waited + 1))
            BY <2>1, <2>4, <3>1, <3>2
        <3>4. QED
            BY <2>1, <2>4, <3>1, <3>3 DEF PaceInv
    <2>5. waited \in 0 .. DRAIN_INTERVAL /\ waited # DRAIN_INTERVAL => waited \in 0 .. DRAIN_INTERVAL - 1
        BY PacingAssumption, SMT
    <2>6. QED
        BY <2>1, <2>2, <2>3, <2>4, <2>5 DEF PaceInv
<1>11. CASE UNCHANGED pacingVars
    BY <1>11 DEF pacingVars, queueVars, batchVars, stepVars, clockVars, watchVars, PaceInv
<1>12. QED
    BY <1>4, <1>5, <1>6, <1>7, <1>8, <1>9, <1>10, <1>11 DEF Next

(* An armed drain makes its next step when it is due, after whichever      *)
(* arming, refill or new session, and wherever the tick counter wraps.     *)
THEOREM DrainAlwaysPaced == Spec => []DrainKeepsPace
<1>1. PaceInv => DrainKeepsPace
    BY PacingAssumption, SMT DEF PaceInv, DrainKeepsPace
<1>2. QED
    BY <1>1, PaceInitially, PaceStep, ClockTypeInitially, ClockTypeStep, PTL DEF Spec

-----------------------------------------------------------------------------
(* The reading window *)

(* While a message is owed time and nobody has queued since, the next step *)
(* is due just when the debt is paid; and a step under way is due again an *)
(* interval later, since nobody but the worker queues.                     *)
WindowInv ==
    /\ drain_pc # "idle" => drain_due_tick = Later(now, DRAIN_INTERVAL)
    /\ owed > 0 /\ ~rearmed => drain_due_tick = Later(now, owed) /\ drain_pc # "from_radio"

LEMMA WindowInitially == Init => WindowInv
<1>1. ~(0 > 0)
    BY SMT
<1>2. QED
    BY <1>1 DEF Init, QueueInit, WindowInv

LEMMA WindowStep ==
    ASSUME ForeignCaller = FALSE
    PROVE  ClockTypeOK /\ WindowInv /\ [Next]_pacingVars => WindowInv'
<1> SUFFICES ASSUME ClockTypeOK, WindowInv, [Next]_pacingVars PROVE WindowInv'
    OBVIOUS
<1>1. now \in TickType /\ drain_due_tick \in TickType /\ owed \in 0 .. DRAIN_INTERVAL
    BY DEF ClockTypeOK
<1>2. ASSUME NEW m \in Message, QueueReply(m) PROVE WindowInv'
    BY <1>2 DEF QueueReply, Enqueue, MayCallQueue, stepVars, WindowInv
<1>3. CASE NewSession
    <2>1. ~(0 > 0)
        BY SMT
    <2>2. QED
        BY <1>3, <2>1 DEF NewSession, Reset, stepVars, clockVars, WindowInv
<1>4. CASE StepWhenDue
    <2>1. NotBefore(now, drain_due_tick)
        BY <1>4 DEF StepWhenDue, Due
    <2>2. owed > 0 => owed \in 1 .. DRAIN_INTERVAL
        BY <1>1, SMT
    <2>3. ~(owed > 0 /\ ~rearmed)
        BY <1>1, <2>1, <2>2, NotBeforeWithin DEF WindowInv
    <2>4. QED
        BY <1>4, <2>3 DEF StepWhenDue, WindowInv
<1>5. CASE NothingDue
    BY <1>5 DEF NothingDue, queueVars, stepVars, watchVars, WindowInv
<1>6. CASE Publish
    <2>1. drain_due_tick = Later(now, DRAIN_INTERVAL) /\ UNCHANGED <<now, drain_due_tick>>
        BY <1>6 DEF Publish, UpdateFromRadio, clockVars, WindowInv
    <2>2. owed' = 0 \/ owed' = DRAIN_INTERVAL
        BY <1>6 DEF Publish
    <2>3. drain_pc' # "from_radio" /\ ~(0 > 0)
        BY <1>6, SMT DEF Publish, UpdateFromRadio
    <2>4. QED
        BY <2>1, <2>2, <2>3 DEF WindowInv
<1>7. CASE FinishStep
    <2>1. drain_pc # "idle" /\ drain_pc' # "from_radio"
        BY <1>7 DEF FinishStep, DrainAdvance, UpdateFromNum
    <2>2. QED
        BY <1>7, <2>1 DEF FinishStep, clockVars, watchVars, WindowInv
<1>8. CASE Tick
    <2>1. /\ drain_pc = "idle" /\ drain_pc' = "idle"
          /\ now' = Later(now, 1)
          /\ owed' = IF owed > 0 THEN owed - 1 ELSE 0
          /\ UNCHANGED <<drain_due_tick, rearmed>>
        BY <1>8 DEF Tick, queueVars, stepVars
    <2>2. owed' > 0 => owed > 0 /\ owed \in 1 .. DRAIN_INTERVAL /\ owed' = owed - 1
        BY <1>1, <2>1, SMT
    <2>3. owed' > 0 /\ ~rearmed => drain_due_tick = Later(Later(now, 1), owed - 1)
        BY <1>1, <2>2, LaterAfterTick DEF WindowInv
    <2>4. QED
        BY <2>1, <2>2, <2>3 DEF WindowInv
<1>9. CASE UNCHANGED pacingVars
    BY <1>9 DEF pacingVars, queueVars, stepVars, clockVars, watchVars, WindowInv
<1>10. QED
    BY <1>2, <1>3, <1>4, <1>5, <1>6, <1>7, <1>8, <1>9 DEF Next

(* What is published stays readable for a whole interval, if the worker is *)
(* the only caller of queue() and nobody queues in the meantime.           *)
THEOREM ReadingWindowKept ==
    ASSUME ForeignCaller = FALSE
    PROVE  Spec => UndisturbedReadingWindow
<1>1. ClockTypeOK /\ WindowInv /\ [Next]_pacingVars => [Publish => owed = 0 \/ rearmed]_pacingVars
    <2> SUFFICES ASSUME ClockTypeOK, WindowInv, Publish PROVE owed = 0 \/ rearmed
        OBVIOUS
    <2>1. drain_pc = "from_radio"
        BY DEF Publish, UpdateFromRadio
    <2>2. ~(owed > 0) => owed = 0
        BY SMT DEF ClockTypeOK
    <2>3. QED
        BY <2>1, <2>2 DEF WindowInv
<1>2. QED
    BY <1>1, WindowInitially, WindowStep, ClockTypeInitially, ClockTypeStep, PTL
       DEF Spec, UndisturbedReadingWindow

=============================================================================

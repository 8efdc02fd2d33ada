-------------------------- MODULE AppLifecycle_proofs --------------------------
(***************************************************************************)
(* Proofs about AppLifecycle, for any number of frames, key presses and    *)
(* places in the input queue: nothing is freed under a thread that uses    *)
(* it, no frame is taken in that the radio did not receive, none is taken  *)
(* twice unless the chip refused to clear its flags, and the bus is let go *)
(* whichever step of the bring-up failed.                                  *)
(***************************************************************************)
EXTENDS AppLifecycle, TLAPS

-----------------------------------------------------------------------------
(* The order of starting and stopping *)

BeforeThread == {"alloc", "listen", "show", "run", "start"}
ThreadMayRun == {"loop", "leave", "stop", "end", "join"}
Whole        == {"listen", "show", "run", "start", "hide", "free_queue"} \cup ThreadMayRun

(* Why the order of the steps is enough: where the main thread can be      *)
(* while another is at work, and what is allocated when it is there.       *)
OrderInv ==
    /\ main \in Whole => live = {"app", "source", "queue"}
    /\ main \in BeforeThread => thread = "none" /\ poll_pc = "none"
    /\ thread \notin {"none", "done"} => main \in ThreadMayRun
    /\ shown => main \in {"run", "start", "hide"} \cup ThreadMayRun
    /\ gui = "posting" => shown
    /\ gui \in {"idle", "posting"}

LEMMA OrderInitially == Init => OrderInv
BY DEF Init, DriverInit, OrderInv, BeforeThread, ThreadMayRun, Whole

\* A step of the main thread, one case for each.
LEMMA OrderMainStep ==
    ASSUME OrderInv, Main
    PROVE  OrderInv'
<1> USE DEF OrderInv, BeforeThread, ThreadMayRun, Whole, MainStep, driverVars, pollVars, threadVars, guiVars, appVars
<1>1. CASE Alloc
    BY <1>1 DEF Alloc
<1>2. CASE Listen \/ Show \/ EnterRun
    BY <1>2 DEF Listen, Show, EnterRun
<1>3. CASE StartSource
    BY <1>3 DEF StartSource, Start, Begin, Probe, Configure, StartRx, GiveUp
<1>4. CASE StartThread
    BY <1>4 DEF StartThread
<1>5. CASE HandleInput \/ NoInput \/ Leave
    BY <1>5 DEF HandleInput, NoInput, Leave
<1>6. CASE StopSource
    BY <1>6 DEF StopSource, LowerRunning, EndSession
<1>7. CASE JoinThread
    BY <1>7 DEF JoinThread
<1>8. CASE Hide
    BY <1>8 DEF Hide
<1>9. CASE FreeQueue \/ FreeSource \/ FreeApp
    BY <1>9 DEF FreeQueue, FreeSource, FreeApp, EndSession
<1>10. QED
    BY <1>1, <1>2, <1>3, <1>4, <1>5, <1>6, <1>7, <1>8, <1>9 DEF Main

\* The radio thread never comes to life by itself.
LEMMA OrderThreadStep ==
    ASSUME OrderInv, RadioThread
    PROVE  OrderInv'
<1>1. thread \notin {"none", "done"} /\ UNCHANGED <<main, live, gui, shown>>
    BY DEF RadioThread, While, Polling, GotNothing, GotFrame, Take, ThreadStep, guiVars, appVars
<1>2. QED
    BY <1>1 DEF OrderInv, BeforeThread, ThreadMayRun

\* A callback begins while the view port is shown.
LEMMA OrderOtherStep ==
    ASSUME OrderInv, Callbacks \/ (\E key \in Key : Press(key)) \/ RequestExit \/ Air \/ UNCHANGED vars
    PROVE  OrderInv'
<1>1. UNCHANGED <<main, live, thread, poll_pc, shown>>
    BY DEF Callbacks, PostInput, PostExit, Press, RequestExit, Air, Receive, GuiStep, vars,
           driverVars, pollVars, threadVars, appVars
<1>2. \/ gui' = gui
      \/ gui' = "idle"
      \/ gui' = "posting" /\ shown
    BY DEF Callbacks, PostInput, PostExit, Press, RequestExit, Air, GuiStep, vars, guiVars
<1>3. QED
    BY <1>1, <1>2 DEF OrderInv

LEMMA OrderInvariant == Spec => []OrderInv
<1>1. OrderInv /\ [Next]_vars => OrderInv'
    BY OrderMainStep, OrderThreadStep, OrderOtherStep DEF Next
<1>2. QED
    BY OrderInitially, <1>1, PTL DEF Spec

(* Nothing is freed under the radio thread or a callback of the GUI.       *)
THEOREM NothingFreedUnderThreads == Spec => []NobodyUsesFreed
<1>1. OrderInv => NobodyUsesFreed
    BY DEF OrderInv, ThreadMayRun, Whole, NobodyUsesFreed
<1>2. QED
    BY OrderInvariant, <1>1, PTL

-----------------------------------------------------------------------------
(* The frames *)

\* Places of radio_start at which the session is open.
Open == {"probe", "configure", "start_rx", "started"}

\* Frame f is among the first n.
Received(f, n) == f \in Nat /\ f > 0 /\ f <= n

(* While the session is open, what is read out is a frame that came; and   *)
(* it is open while the flag says that the application runs.  A flag of    *)
(* the chip means there is a frame in its buffer.                          *)
FrameInv ==
    /\ arrived \in Nat
    /\ irq # {} => Received(rx_buffer, arrived)
    /\ app_running => main \in {"start", "loop", "leave"}
    /\ thread \notin {"none", "done"} => start_pc = "started"
    /\ main \in {"alloc", "listen", "show", "run"} => start_pc = "idle"
    /\ start_pc \in Open /\ main \in {"start", "loop", "leave"} => started
    /\ started /\ poll_pc = "locate" => Received(rx_buffer, arrived)
    /\ started /\ poll_pc \in {"read", "clear", "frame"} => Received(frame, arrived)
    /\ started /\ thread = "check" => Received(frame, arrived)
    /\ \A f \in taken : Received(f, arrived)

LEMMA FrameInitially == Init => FrameInv
BY DEF Init, DriverInit, FrameInv, Open

\* The main thread opens the session before there is a radio thread.
LEMMA FrameMainStep ==
    ASSUME OrderInv, FrameInv, Main
    PROVE  FrameInv'
<1> USE DEF FrameInv, Open, MainStep, driverVars, chipVars, sessionVars, pollVars, threadVars, guiVars, appVars
<1>1. CASE Alloc \/ Listen \/ Show \/ EnterRun
    BY <1>1 DEF Alloc, Listen, Show, EnterRun
<1>2. CASE StartSource
    <2>1. thread = "none" /\ poll_pc = "none"
        BY <1>2 DEF StartSource, OrderInv, BeforeThread
    <2>2. UNCHANGED <<main, thread, taken, app_running, rx_buffer, arrived, poll_pc, frame>>
        BY <1>2 DEF StartSource, Start, Begin, Probe, Configure, StartRx, GiveUp
    <2>3. irq' = irq \/ irq' = {}
        BY <1>2 DEF StartSource, Start, Begin, Probe, Configure, StartRx, GiveUp
    <2>4. main \in {"start", "loop", "leave"} /\ start_pc' \in Open => started'
        BY <1>2, <2>1 DEF StartSource, Start, Begin, Probe, Configure, StartRx, GiveUp
    <2>5. main = "start"
        BY <1>2 DEF StartSource
    <2>6. QED
        BY <2>1, <2>2, <2>3, <2>4, <2>5
<1>3. CASE StartThread
    BY <1>3 DEF StartThread
<1>4. CASE HandleInput \/ NoInput \/ Leave
    BY <1>4 DEF HandleInput, NoInput, Leave
<1>5. CASE StopSource
    BY <1>5 DEF StopSource, LowerRunning, EndSession, End
<1>6. CASE JoinThread \/ Hide \/ FreeQueue \/ FreeSource \/ FreeApp
    BY <1>6 DEF JoinThread, Hide, FreeQueue, FreeSource, FreeApp, EndSession, End
<1>7. QED
    BY <1>1, <1>2, <1>3, <1>4, <1>5, <1>6 DEF Main

\* A poll reads a frame that came, or the session is closed.
LEMMA FramePollStep ==
    ASSUME FrameInv, Polling
    PROVE  FrameInv'
<1> USE DEF FrameInv, Polling, ThreadStep, PollStep, chipVars, sessionVars, guiVars, appVars
<1>1. CASE EnterPoll
    BY <1>1 DEF EnterPoll
<1>2. CASE ReadIrq
    BY <1>2 DEF ReadIrq
<1>3. CASE Locate
    BY <1>3 DEF Locate
<1>4. CASE ReadBuffer
    BY <1>4 DEF ReadBuffer
<1>5. CASE ReadFails
    BY <1>5 DEF ReadFails
<1>6. ASSUME NEW accepted \in BOOLEAN, Deliver(accepted) \/ Drop(accepted)
      PROVE  FrameInv'
    BY <1>6 DEF Deliver, Drop, Clear
<1>7. CASE Slice
    BY <1>7 DEF Slice
<1>8. QED
    BY <1>1, <1>2, <1>3, <1>4, <1>5, <1>6, <1>7 DEF Poll

\* Looked at again before the frame is taken in, the flag tells the session open.
LEMMA FrameThreadStep ==
    ASSUME OrderInv, FrameInv, RadioThread
    PROVE  FrameInv'
<1> USE DEF FrameInv, Open, ThreadStep, PollStep, driverVars, chipVars, sessionVars, pollVars, guiVars, appVars
<1>1. CASE While
    BY <1>1 DEF While, CallPoll
<1>2. CASE Polling
    BY <1>2, FramePollStep
<1>3. CASE GotNothing
    BY <1>3 DEF GotNothing, PollReturns
<1>4. CASE GotFrame
    BY <1>4 DEF GotFrame, PollReturns
<1>5. CASE Take
    <2>1. thread = "check" /\ app_running => Received(frame, arrived)
        OBVIOUS
    <2>2. taken' = taken \/ (app_running /\ taken' = taken \cup {frame})
        BY <1>5 DEF Take
    <2>3. QED
        BY <1>5, <2>1, <2>2 DEF Take
<1>6. QED
    BY <1>1, <1>2, <1>3, <1>4, <1>5 DEF RadioThread

\* A frame that came stays one that came.
LEMMA FrameOtherStep ==
    ASSUME FrameInv, Callbacks \/ (\E key \in Key : Press(key)) \/ RequestExit \/ Air \/ UNCHANGED vars
    PROVE  FrameInv'
<1>1. UNCHANGED <<main, thread, taken, started, start_pc, poll_pc, frame>>
    BY DEF Callbacks, PostInput, PostExit, Press, RequestExit, Air, Receive, GuiStep, vars,
           driverVars, sessionVars, pollVars, threadVars
<1>2. app_running' => app_running
    BY DEF Callbacks, PostInput, PostExit, Press, RequestExit, Air, GuiStep, vars
<1>3. \/ UNCHANGED <<arrived, irq, rx_buffer>>
      \/ arrived' = arrived + 1 /\ rx_buffer' = arrived + 1
    BY DEF Callbacks, PostInput, PostExit, Press, RequestExit, Air, Receive, GuiStep, vars,
           driverVars, chipVars
<1>4. \A f : Received(f, arrived) => Received(f, arrived + 1)
    BY SMT DEF FrameInv, Received
<1>5. arrived + 1 \in Nat /\ Received(arrived + 1, arrived + 1)
    BY SMT DEF FrameInv, Received
<1>6. QED
    BY <1>1, <1>2, <1>3, <1>4, <1>5 DEF FrameInv

LEMMA FrameInvariant == Spec => []FrameInv
<1>1. OrderInv /\ FrameInv /\ [Next]_vars => FrameInv'
    BY FrameMainStep, FrameThreadStep, FrameOtherStep DEF Next
<1>2. QED
    BY OrderInvariant, FrameInitially, <1>1, PTL DEF Spec

(* Although the session is ended under the thread that polls it, no frame  *)
(* is taken in that the radio did not receive.                             *)
THEOREM FramesAreReal == Spec => []TakenWereReceived
<1>1. FrameInv => TakenWereReceived
    BY SMT DEF FrameInv, Received, TakenWereReceived
<1>2. QED
    BY FrameInvariant, <1>1, PTL

(* Each frame once.  What was taken in is older than what the chip has to  *)
(* offer and than what is being read out, or is that very frame because    *)
(* the chip refused to clear its flags.                                    *)
TakenBefore(f, g) == f < g \/ (f = g /\ f \in uncleared)

AllTakenBefore(g) == \A f \in taken : TakenBefore(f, g)

OnceInv ==
    /\ rx_buffer \in Nat /\ frame \in Nat /\ rx_buffer <= arrived
    /\ thread = "none" => taken = {}
    /\ thread \in {"while", "check"} => poll_pc = "none"
    /\ started =>
         /\ irq # {} \/ poll_pc = "locate" => AllTakenBefore(rx_buffer)
         /\ poll_pc \in {"read", "clear", "frame"} \/ thread = "check" => AllTakenBefore(frame)
         /\ poll_pc \in {"read", "clear"} => frame <= rx_buffer
         /\ (poll_pc = "frame" \/ thread = "check") /\ irq # {} => TakenBefore(frame, rx_buffer)

LEMMA OnceInitially == Init => OnceInv
BY SMT DEF Init, DriverInit, OnceInv, Junk

\* Nothing has been taken in when the main thread opens the session.
LEMMA OnceMainStep ==
    ASSUME OrderInv, FrameInv, OnceInv, Main
    PROVE  OnceInv'
<1> USE DEF OnceInv, AllTakenBefore, TakenBefore, MainStep, driverVars, chipVars, sessionVars, pollVars,
        threadVars, guiVars, appVars
<1>1. CASE Alloc \/ Listen \/ Show \/ EnterRun
    BY <1>1 DEF Alloc, Listen, Show, EnterRun
<1>2. CASE StartSource
    <2>1. thread = "none" /\ poll_pc = "none" /\ taken = {}
        BY <1>2 DEF StartSource, OrderInv, BeforeThread
    <2>2. UNCHANGED <<thread, taken, rx_buffer, arrived, poll_pc, frame, uncleared>>
        BY <1>2 DEF StartSource, Start, Begin, Probe, Configure, StartRx, GiveUp
    <2>3. QED
        BY <2>1, <2>2
<1>3. CASE StartThread
    <2>1. thread = "none" /\ poll_pc = "none" /\ taken = {}
        BY <1>3 DEF StartThread, OrderInv, BeforeThread
    <2>2. QED
        BY <1>3, <2>1 DEF StartThread
<1>4. CASE HandleInput \/ NoInput \/ Leave
    BY <1>4 DEF HandleInput, NoInput, Leave
<1>5. CASE StopSource
    BY <1>5 DEF StopSource, LowerRunning, EndSession, End
<1>6. CASE JoinThread \/ Hide \/ FreeQueue \/ FreeSource \/ FreeApp
    BY <1>6 DEF JoinThread, Hide, FreeQueue, FreeSource, FreeApp, EndSession, End
<1>7. QED
    BY <1>1, <1>2, <1>3, <1>4, <1>5, <1>6 DEF Main

\* What a poll reads out while the session is open is newer, or came again.
LEMMA OncePollStep ==
    ASSUME FrameInv, OnceInv, Polling
    PROVE  OnceInv'
<1> USE DEF OnceInv, AllTakenBefore, TakenBefore, Polling, ThreadStep, PollStep, chipVars, sessionVars,
        guiVars, appVars
<1>1. CASE EnterPoll
    BY <1>1 DEF EnterPoll
<1>2. CASE ReadIrq
    BY <1>2 DEF ReadIrq
<1>3. CASE Locate
    BY <1>3, SMT DEF Locate, Junk
<1>4. CASE ReadBuffer
    BY <1>4 DEF ReadBuffer, Junk
<1>5. CASE ReadFails
    BY <1>5 DEF ReadFails
<1>6. ASSUME NEW accepted \in BOOLEAN, Deliver(accepted)
      PROVE  OnceInv'
    BY <1>6, SMT DEF Deliver, Clear
<1>7. ASSUME NEW accepted \in BOOLEAN, Drop(accepted)
      PROVE  OnceInv'
    BY <1>7 DEF Drop, Clear
<1>8. CASE Slice
    BY <1>8 DEF Slice
<1>9. QED
    BY <1>1, <1>2, <1>3, <1>4, <1>5, <1>6, <1>7, <1>8 DEF Poll

LEMMA OnceThreadStep ==
    ASSUME OrderInv, FrameInv, OnceInv, RadioThread
    PROVE  OnceInv'
<1> USE DEF OnceInv, AllTakenBefore, TakenBefore, ThreadStep, PollStep, driverVars, chipVars, sessionVars,
        pollVars, guiVars, appVars
<1>1. CASE While
    BY <1>1 DEF While, CallPoll
<1>2. CASE Polling
    BY <1>2, OncePollStep
<1>3. CASE GotNothing
    BY <1>3 DEF GotNothing, PollReturns
<1>4. CASE GotFrame
    BY <1>4 DEF GotFrame, PollReturns
<1>5. CASE Take
    BY <1>5 DEF Take
<1>6. QED
    BY <1>1, <1>2, <1>3, <1>4, <1>5 DEF RadioThread

\* A new frame comes after all there have been.
LEMMA OnceOtherStep ==
    ASSUME FrameInv, OnceInv, Callbacks \/ (\E key \in Key : Press(key)) \/ RequestExit \/ Air \/ UNCHANGED vars
    PROVE  OnceInv'
<1> USE DEF OnceInv, AllTakenBefore, TakenBefore
<1>1. UNCHANGED <<thread, taken, started, poll_pc, frame, uncleared>>
    BY DEF Callbacks, PostInput, PostExit, Press, RequestExit, Air, Receive, GuiStep, vars,
           driverVars, sessionVars, pollVars, threadVars
<1>2. \/ UNCHANGED <<arrived, irq, rx_buffer>>
      \/ arrived' = arrived + 1 /\ rx_buffer' = arrived + 1
    BY DEF Callbacks, PostInput, PostExit, Press, RequestExit, Air, Receive, GuiStep, vars,
           driverVars, chipVars
<1>3. CASE UNCHANGED <<arrived, irq, rx_buffer>>
    BY <1>1, <1>3
<1>4. CASE arrived' = arrived + 1 /\ rx_buffer' = arrived + 1
    <2>1. \A f \in taken : f < arrived + 1
        BY SMT DEF FrameInv, Received
    <2>2. started /\ (poll_pc = "frame" \/ thread = "check") => frame < arrived + 1
        BY SMT DEF FrameInv, Received
    <2>3. started /\ poll_pc \in {"read", "clear"} => frame <= arrived + 1
        BY SMT DEF FrameInv
    <2>4. arrived + 1 \in Nat /\ arrived + 1 <= arrived + 1
        BY SMT DEF FrameInv
    <2>5. QED
        BY <1>1, <1>4, <2>1, <2>2, <2>3, <2>4
<1>5. QED
    BY <1>2, <1>3, <1>4

(* A frame is taken in once, and frames in the order they came, whatever   *)
(* the chip receives between two transactions of a poll, unless the chip   *)
(* refused to clear its flags.                                             *)
THEOREM FramesTakenOnce == Spec => []TakenOnce
<1>1. OrderInv /\ FrameInv /\ OnceInv /\ [Next]_vars => OnceInv'
    BY OnceMainStep, OnceThreadStep, OnceOtherStep DEF Next
<1>2. FrameInv /\ OnceInv => TakenOnce
    <2> SUFFICES ASSUME FrameInv, OnceInv, thread = "check", app_running
                 PROVE  \A f \in taken : f < frame \/ (f = frame /\ f \in uncleared)
        BY DEF TakenOnce
    <2>1. start_pc = "started" /\ main \in {"start", "loop", "leave"}
        BY DEF FrameInv
    <2>2. started
        BY <2>1 DEF FrameInv, Open
    <2>3. QED
        BY <2>2 DEF OnceInv, AllTakenBefore, TakenBefore
<1>3. QED
    BY OrderInvariant, FrameInvariant, OnceInitially, <1>1, <1>2, PTL DEF Spec

-----------------------------------------------------------------------------
(* The bus *)

(* The session is open only between a begin that succeeded and a stop, and *)
(* a source that is not running has no session to end.                     *)
SessionInv ==
    /\ ~started => claimed \subseteq {"nss_cc1101"}
    /\ start_pc \in {"idle", "failed"} => ~started
    /\ main \in {"alloc", "listen", "show", "run"} => start_pc = "idle"
    /\ main \in {"loop", "leave", "stop"} => start_pc \in {"started", "failed"}
    /\ start_pc = "started" /\ main \in {"start", "loop", "leave", "stop"} => ctx_running
    /\ main \in {"join", "hide", "free_queue", "free_source", "free_app", "ended"} => ~started

LEMMA SessionInitially == Init => SessionInv
BY DEF Init, DriverInit, SessionInv

LEMMA SessionStep == SessionInv /\ [Next]_vars => SessionInv'
<1> SUFFICES ASSUME SessionInv, [Next]_vars
             PROVE  SessionInv'
    OBVIOUS
<1> USE DEF SessionInv, MainStep, driverVars, sessionVars
<1>1. CASE Alloc \/ Listen \/ Show \/ EnterRun
    BY <1>1 DEF Alloc, Listen, Show, EnterRun
<1>2. CASE StartSource
    BY <1>2 DEF StartSource, Start, Begin, Probe, Configure, StartRx, GiveUp, End
<1>3. CASE StartThread
    BY <1>3 DEF StartThread
<1>4. CASE HandleInput \/ NoInput \/ Leave
    BY <1>4 DEF HandleInput, NoInput, Leave
<1>5. CASE StopSource
    BY <1>5 DEF StopSource, LowerRunning, EndSession, End
<1>6. CASE JoinThread \/ Hide \/ FreeQueue \/ FreeSource \/ FreeApp
    BY <1>6 DEF JoinThread, Hide, FreeQueue, FreeSource, FreeApp, EndSession, End
<1>7. CASE RadioThread
    <2>1. UNCHANGED <<main, sessionVars>>
        BY <1>7 DEF RadioThread, While, Polling, GotNothing, GotFrame, Take, ThreadStep, CallPoll, PollReturns,
                    Poll, EnterPoll, ReadIrq, Locate, ReadBuffer, ReadFails, Deliver, Drop, Slice
    <2>2. QED
        BY <2>1
<1>8. CASE Callbacks \/ (\E key \in Key : Press(key)) \/ RequestExit \/ Air \/ UNCHANGED vars
    <2>1. UNCHANGED <<main, sessionVars>>
        BY <1>8 DEF Callbacks, PostInput, PostExit, Press, RequestExit, Air, Receive, GuiStep, vars
    <2>2. QED
        BY <2>1
<1>9. QED
    BY <1>1, <1>2, <1>3, <1>4, <1>5, <1>6, <1>7, <1>8 DEF Next, Main

(* Whichever step of the bring-up failed, and however the application      *)
(* ended, the bus is let go.                                               *)
THEOREM BusIsReleased == Spec => []BusReleased
<1>1. SessionInv => BusReleased
    BY DEF SessionInv, BusReleased
<1>2. QED
    BY SessionInitially, SessionStep, <1>1, PTL DEF Spec

-----------------------------------------------------------------------------
(* Types *)

AppTypeOK ==
    /\ LifecycleTypeOK
    /\ input_queue \in Seq(Key)
    /\ event \in Key
    /\ rx_buffer \in 0 .. MaxFrames

LEMMA AppTypeInitially == Init => AppTypeOK
<1>1. ASSUME Init
      PROVE  input_queue \in Seq(Key) /\ Len(input_queue) <= INPUT_QUEUE
    BY <1>1, InputAssumption, SMT DEF Init
<1>2. QED
    BY <1>1, InputAssumption, FramesAssumption, SMT
       DEF Init, DriverInit, AppTypeOK, LifecycleTypeOK, Key, Junk

LEMMA AppTypeMainStep ==
    ASSUME AppTypeOK, Main
    PROVE  AppTypeOK'
<1> USE DEF AppTypeOK, LifecycleTypeOK, MainStep, driverVars, chipVars, sessionVars, pollVars, guiVars, appVars
<1>1. CASE Alloc \/ Listen \/ Show \/ EnterRun
    BY <1>1 DEF Alloc, Listen, Show, EnterRun
<1>2. CASE StartSource
    BY <1>2 DEF StartSource, Start, Begin, Probe, Configure, StartRx, GiveUp, End
<1>3. CASE StartThread
    BY <1>3 DEF StartThread
<1>4. CASE HandleInput
    <2>1. input_queue' \in Seq(Key) /\ Len(input_queue') <= INPUT_QUEUE
        BY <1>4, InputAssumption, SMT DEF HandleInput
    <2>2. QED
        BY <1>4, <2>1 DEF HandleInput
<1>5. CASE NoInput \/ Leave
    BY <1>5 DEF NoInput, Leave
<1>6. CASE StopSource
    BY <1>6 DEF StopSource, LowerRunning, EndSession, End
<1>7. CASE JoinThread \/ Hide \/ FreeQueue \/ FreeSource \/ FreeApp
    BY <1>7 DEF JoinThread, Hide, FreeQueue, FreeSource, FreeApp, EndSession, End
<1>8. QED
    BY <1>1, <1>2, <1>3, <1>4, <1>5, <1>6, <1>7 DEF Main

LEMMA AppTypeThreadStep ==
    ASSUME AppTypeOK, RadioThread
    PROVE  AppTypeOK'
<1>1. /\ UNCHANGED <<arrived, rx_buffer, claimed, live, input_queue, event, inputs>>
      /\ irq' \in {irq, {}}
      /\ frame' \in {frame, rx_buffer, Junk}
    BY DEF RadioThread, While, Polling, GotNothing, GotFrame, Take, ThreadStep, CallPoll, PollReturns,
           Poll, EnterPoll, ReadIrq, Locate, ReadBuffer, ReadFails, Deliver, Drop, Slice, Clear,
           driverVars, chipVars, sessionVars, pollVars, guiVars, appVars
<1>2. Junk \in 0 .. MaxFrames
    BY FramesAssumption, SMT DEF Junk
<1>3. QED
    BY <1>1, <1>2 DEF AppTypeOK, LifecycleTypeOK

LEMMA AppTypeOtherStep ==
    ASSUME AppTypeOK, Callbacks \/ (\E key \in Key : Press(key)) \/ RequestExit \/ Air \/ UNCHANGED vars
    PROVE  AppTypeOK'
<1> USE DEF AppTypeOK, LifecycleTypeOK
<1>1. \A key \in Key : Len(input_queue) < INPUT_QUEUE =>
          /\ Append(input_queue, key) \in Seq(Key)
          /\ Len(Append(input_queue, key)) <= INPUT_QUEUE
    BY InputAssumption, SMT
<1>2. CASE PostInput
    BY <1>1, <1>2 DEF PostInput, GuiStep, driverVars, chipVars, sessionVars, pollVars, appVars, Key
<1>3. CASE PostExit
    BY <1>1, <1>3 DEF PostExit, driverVars, chipVars, sessionVars, pollVars, guiVars, appVars, Key
<1>4. ASSUME NEW key \in Key, Press(key)
      PROVE  AppTypeOK'
    <2>1. inputs' \in 0 .. MaxInputs
        BY <1>4, InputAssumption, SMT DEF Press
    <2>2. QED
        BY <1>4, <2>1 DEF Press, GuiStep, driverVars, chipVars, sessionVars, pollVars, appVars
<1>5. CASE RequestExit
    BY <1>5 DEF RequestExit, driverVars, chipVars, sessionVars, pollVars, guiVars, appVars
<1>6. CASE Air
    <2>1. arrived' \in 0 .. MaxFrames /\ rx_buffer' \in 0 .. MaxFrames
        BY <1>6, FramesAssumption, SMT DEF Air, Receive
    <2>2. irq' \subseteq Flag
        BY <1>6 DEF Air, Receive, Flag
    <2>3. QED
        BY <1>6, <2>1, <2>2 DEF Air, Receive, sessionVars, pollVars, guiVars, appVars
<1>7. CASE UNCHANGED vars
    BY <1>7 DEF vars, driverVars, chipVars, sessionVars, pollVars, guiVars, appVars
<1>8. QED
    BY <1>2, <1>3, <1>4, <1>5, <1>6, <1>7 DEF Callbacks

\* The types; in particular the input queue never holds more than its places.
THEOREM LifecycleTypeCorrect == Spec => []LifecycleTypeOK
<1>1. AppTypeOK /\ [Next]_vars => AppTypeOK'
    BY AppTypeMainStep, AppTypeThreadStep, AppTypeOtherStep DEF Next
<1>2. AppTypeOK => LifecycleTypeOK
    BY DEF AppTypeOK
<1>3. QED
    BY AppTypeInitially, <1>1, <1>2, PTL DEF Spec

=============================================================================

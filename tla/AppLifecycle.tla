---------------------------- MODULE AppLifecycle ----------------------------
(***************************************************************************)
(* The application from mesh_app_alloc to mesh_app_free: the main thread,  *)
(* the radio thread it starts and joins, the GUI thread that draws and     *)
(* posts input, and the loader that asks it to exit.  src/src/app.c.       *)
(*                                                                         *)
(* What the frames do to the model is ReceivePath's matter; here they are  *)
(* only noted as they are taken in.                                        *)
(***************************************************************************)
EXTENDS RadioDriver

CONSTANTS
    INPUT_QUEUE,    \* places in app->input_queue, 8 in the code
    MaxInputs       \* bound: input events in a behaviour

ASSUME InputAssumption == INPUT_QUEUE \in Nat \ {0} /\ MaxInputs \in Nat

VARIABLES
    main,           \* where the main thread is
    app_running,    \* app->running
    thread,         \* where radio_thread is
    taken,          \* history: frames the radio thread took into the model
    live,           \* what is allocated
    input_queue,    \* app->input_queue
    gui,            \* what the GUI thread is doing with the view port
    event,          \* the input event it is posting
    shown,          \* the view port is registered with the GUI
    signals,        \* the signal callback is set
    loader,         \* where the loader's exit request is
    inputs          \* counts to MaxInputs

threadVars == <<thread, taken>>
guiVars    == <<gui, event, inputs>>
appVars    == <<live, shown, signals>>
vars == <<driverVars, threadVars, guiVars, appVars, main, app_running, input_queue, loader>>

Key == {"back", "other"}

Init ==
    /\ DriverInit
    /\ main = "alloc"
    /\ app_running = FALSE
    /\ thread = "none"
    /\ taken = {}
    /\ live = {}
    /\ input_queue = <<>>
    /\ gui = "idle"
    /\ event = "other"
    /\ shown = FALSE
    /\ signals = FALSE
    /\ loader = "idle"
    /\ inputs = 0

-----------------------------------------------------------------------------
(* The main thread *)

MainStep(here, next) ==
    /\ main = here
    /\ main' = next
    /\ UNCHANGED <<threadVars, guiVars, loader>>

\* mesh_app_alloc, up to the view port and its queue.
Alloc ==
    /\ MainStep("alloc", "listen")
    /\ live' = {"app", "source", "queue"}
    /\ UNCHANGED <<driverVars, shown, signals, app_running, input_queue>>

Listen ==
    /\ MainStep("listen", "show")
    /\ signals' = TRUE
    /\ UNCHANGED <<driverVars, live, shown, app_running, input_queue>>

Show ==
    /\ MainStep("show", "run")
    /\ shown' = TRUE
    /\ UNCHANGED <<driverVars, live, signals, app_running, input_queue>>

\* mesh_app_run begins.
EnterRun ==
    /\ MainStep("run", "start")
    /\ app_running' = TRUE
    /\ UNCHANGED <<driverVars, appVars, input_queue>>

StartSource ==
    /\ MainStep("start", "start")
    /\ Start
    /\ UNCHANGED <<appVars, app_running, input_queue>>

\* The radio thread is started either way; without a radio it returns at once.
StartThread ==
    /\ main = "start"
    /\ start_pc \in {"started", "failed"}
    /\ main' = "loop"
    /\ thread' = IF start_pc = "started" THEN "while" ELSE "done"
    /\ UNCHANGED <<driverVars, taken, guiVars, appVars, app_running, input_queue, loader>>

\* An input event is taken; a back press leaves the loop.
HandleInput ==
    /\ input_queue # <<>>
    /\ MainStep("loop", IF Head(input_queue) = "back" THEN "leave" ELSE "loop")
    /\ input_queue' = Tail(input_queue)
    /\ UNCHANGED <<driverVars, appVars, app_running>>

\* No input for UI_REFRESH_MS: the loop looks whether it was asked to exit.
NoInput ==
    /\ input_queue = <<>>
    /\ ~app_running
    /\ MainStep("loop", "leave")
    /\ UNCHANGED <<driverVars, appVars, app_running, input_queue>>

Leave ==
    /\ MainStep("leave", "stop")
    /\ app_running' = FALSE
    /\ UNCHANGED <<driverVars, appVars, input_queue>>

\* source->stop, which does nothing for a source that is not running.
StopSource ==
    /\ \/ ctx_running /\ LowerRunning /\ MainStep("stop", "end")
       \/ ~ctx_running /\ UNCHANGED driverVars /\ MainStep("stop", "join")
       \/ EndSession /\ MainStep("end", "join")
    /\ UNCHANGED <<appVars, app_running, input_queue>>

\* A seeded fault: a main thread that does not wait for the radio thread.
JoinNobody ==
    /\ MainStep("join", "hide")
    /\ UNCHANGED <<driverVars, appVars, app_running, input_queue>>

JoinThread ==
    /\ thread = "done"
    /\ MainStep("join", "hide")
    /\ UNCHANGED <<driverVars, appVars, app_running, input_queue>>

(* gui_remove_view_port waits for a callback in progress: what follows     *)
(* frees the queue that callback may be posting to.                        *)
Hide ==
    /\ gui = "idle"
    /\ MainStep("hide", "free_queue")
    /\ shown' = FALSE
    /\ UNCHANGED <<driverVars, live, signals, app_running, input_queue>>

FreeQueue ==
    /\ MainStep("free_queue", "free_source")
    /\ live' = live \ {"queue"}
    /\ UNCHANGED <<driverVars, shown, signals, app_running, input_queue>>

FreeSource ==
    /\ MainStep("free_source", "free_app")
    /\ EndSession
    /\ live' = live \ {"source"}
    /\ UNCHANGED <<shown, signals, app_running, input_queue>>

FreeApp ==
    /\ MainStep("free_app", "ended")
    /\ live' = live \ {"app"}
    /\ UNCHANGED <<driverVars, shown, signals, app_running, input_queue>>

Main ==
    \/ Alloc \/ Listen \/ Show
    \/ EnterRun \/ StartSource \/ StartThread
    \/ HandleInput \/ NoInput
    \/ Leave \/ StopSource \/ JoinThread
    \/ Hide \/ FreeQueue \/ FreeSource \/ FreeApp

-----------------------------------------------------------------------------
(* radio_thread *)

ThreadStep(here, next) ==
    /\ thread = here
    /\ thread' = next
    /\ UNCHANGED <<guiVars, appVars, main, app_running, input_queue, loader>>

\* A seeded fault: a loop without its condition.
WhileTrue ==
    /\ ThreadStep("while", "poll")
    /\ CallPoll
    /\ UNCHANGED taken

\* while(app->running)
While ==
    /\ IF app_running THEN ThreadStep("while", "poll") /\ CallPoll
                      ELSE ThreadStep("while", "done") /\ UNCHANGED driverVars
    /\ UNCHANGED taken

Polling ==
    /\ ThreadStep("poll", "poll")
    /\ Poll
    /\ UNCHANGED taken

GotNothing ==
    /\ ThreadStep("poll", "while")
    /\ PollReturns("nothing")
    /\ UNCHANGED taken

GotFrame ==
    /\ ThreadStep("poll", "check")
    /\ PollReturns("frame")
    /\ UNCHANGED taken

\* A seeded fault: a frame taken in without looking at the flag again.
TakeUnchecked ==
    /\ ThreadStep("check", "while")
    /\ taken' = taken \cup {frame}
    /\ UNCHANGED driverVars

\* if(!app->running) break, and otherwise the frame is taken in.
Take ==
    /\ \/ app_running /\ ThreadStep("check", "while") /\ taken' = taken \cup {frame}
       \/ ~app_running /\ ThreadStep("check", "done") /\ UNCHANGED taken
    /\ UNCHANGED driverVars

RadioThread == While \/ Polling \/ GotNothing \/ GotFrame \/ Take

-----------------------------------------------------------------------------
(* The GUI thread, the loader and the air *)

GuiStep(here, next) ==
    /\ gui = here
    /\ gui' = next
    /\ UNCHANGED <<driverVars, threadVars, appVars, main, app_running, loader>>

\* The user presses a key while the view port is shown.
Press(key) ==
    /\ shown
    /\ inputs < MaxInputs
    /\ GuiStep("idle", "posting")
    /\ event' = key
    /\ inputs' = inputs + 1
    /\ UNCHANGED input_queue

\* A seeded fault: a callback that does not wait for a free place.
PostUnchecked ==
    /\ GuiStep("posting", "idle")
    /\ input_queue' = Append(input_queue, event)
    /\ event' = "other"
    /\ UNCHANGED inputs

\* input_callback waits for ever for a place in the queue.
PostInput ==
    /\ Len(input_queue) < INPUT_QUEUE
    /\ GuiStep("posting", "idle")
    /\ input_queue' = Append(input_queue, event)
    /\ event' = "other"
    /\ UNCHANGED inputs

\* signal_callback on the loader's thread: first the flag...
RequestExit ==
    /\ loader = "idle"
    /\ signals
    /\ main # "ended"
    /\ loader' = "posting"
    /\ app_running' = FALSE
    /\ UNCHANGED <<driverVars, threadVars, guiVars, appVars, main, input_queue>>

\* ... then a back press, if there is room for one.
PostExit ==
    /\ loader = "posting"
    /\ loader' = "done"
    /\ input_queue' = IF Len(input_queue) < INPUT_QUEUE /\ "queue" \in live
                      THEN Append(input_queue, "back") ELSE input_queue
    /\ UNCHANGED <<driverVars, threadVars, guiVars, appVars, main, app_running>>

Air ==
    /\ \E intact \in BOOLEAN : Receive(intact)
    /\ UNCHANGED <<threadVars, guiVars, appVars, main, app_running, input_queue, loader>>

Callbacks == PostInput \/ PostExit

Next ==
    \/ Main
    \/ RadioThread
    \/ Callbacks
    \/ \E key \in Key : Press(key)
    \/ RequestExit
    \/ Air

Spec == Init /\ [][Next]_vars

(* Both threads keep being scheduled and a callback that can go on does.   *)
(* Nothing is assumed of the user, the loader or the air.                  *)
Fairness == WF_vars(Main) /\ WF_vars(RadioThread) /\ WF_vars(PostInput) /\ WF_vars(PostExit)

FairSpec == Spec /\ Fairness

-----------------------------------------------------------------------------
(* Properties *)

LifecycleTypeOK ==
    /\ irq \subseteq Flag
    /\ claimed \subseteq Pin
    /\ arrived \in 0 .. MaxFrames
    /\ frame \in 0 .. MaxFrames
    /\ live \subseteq {"app", "source", "queue"}
    /\ Len(input_queue) <= INPUT_QUEUE
    /\ inputs \in 0 .. MaxInputs

(* Nobody is at work on what has been freed: the radio thread on the       *)
(* source and the application, the GUI thread on the queue it posts to;    *)
(* and nothing the GUI may call back into is freed while it may.  No lock  *)
(* guards this: only the order of stopping, joining and freeing does.      *)
NobodyUsesFreed ==
    /\ thread \notin {"none", "done"} => {"app", "source"} \subseteq live
    /\ gui = "posting" => "queue" \in live
    /\ shown => {"app", "queue"} \subseteq live

(* No frame is taken in that the radio did not receive.  source->stop ends *)
(* the SPI session while the radio thread may be reading from it, and what *)
(* is read then is anything; that it is not shown rests on the flag being  *)
(* lowered before and looked at after.                                     *)
TakenWereReceived == taken \subseteq 1 .. arrived

(* A frame is taken in once, and frames in the order they came, unless the *)
(* chip refused to clear its flags after the frame had been read: the      *)
(* driver does not look, and reads the same frame again.                   *)
TakenOnce ==
    thread = "check" /\ app_running =>
        \A f \in taken : f < frame \/ (f = frame /\ f \in uncleared)

(* "Release GPIO and SPI.  Safe to call after a failed begin" (sx126x.h):  *)
(* whichever step of the bring-up failed, and however the application      *)
(* ended, the bus is let go; only the CC1101's select stays parked.        *)
BusReleased ==
    start_pc = "failed" \/ main \in {"join", "hide", "ended"} =>
        ~started /\ claimed \subseteq {"nss_cc1101"}

\* Nobody will take anything out of the input queue any more.
InputBlocked ==
    /\ gui = "posting"
    /\ Len(input_queue) = INPUT_QUEUE
    /\ main \notin {"alloc", "listen", "show", "run", "start", "loop"}

\* A back press is waiting, or the loop's next look will see the request.
ExitHeard ==
    \/ \E i \in DOMAIN input_queue : input_queue[i] = "back"
    \/ main = "loop" /\ ~app_running

(* An exit that was heard is carried through to the end, whatever the      *)
(* radio thread is doing, unless the GUI's input callback waits for a      *)
(* place in a queue that nobody empties any more.                          *)
ExitEnds == ExitHeard ~> main = "ended" \/ InputBlocked

=============================================================================

----------------------------- MODULE BleLifecycle -----------------------------
(***************************************************************************)
(* The Bluetooth side from meshtastic_ble_start to meshtastic_ble_stop:    *)
(* the Flipper switches from its default profile to the Meshtastic one and *)
(* back, and the service that profile owns is built and taken apart around *)
(* a worker thread, the stack's event handler and the screen that shows    *)
(* its statistics.  src/src/ble/meshtastic_profile.c, and the ends of      *)
(* src/src/ble/meshtastic_service.c.                                       *)
(*                                                                         *)
(* What the worker does with a write is MeshtasticService's matter; here   *)
(* it queues at most one message, and of the ring only counts remain.      *)
(***************************************************************************)
EXTENDS Naturals

CONSTANTS
    WRITE_QUEUE_DEPTH,  \* 4
    MaxWrites           \* bound: writes delivered to the event handler

ASSUME DepthAssumption == WRITE_QUEUE_DEPTH \in Nat \ {0}
ASSUME BoundAssumption == MaxWrites \in Nat

VARIABLES
    main,           \* where the main thread is, in a call of its own or the Bt service's
    profile,        \* the Bluetooth profile the Flipper runs
    ble_state,      \* what the screens say of it
    ble,            \* app->ble is a service
    live,           \* what the service has allocated
    registered,     \* gatt_event_handler is registered with the dispatcher
    worker_running, \* service->worker_running
    worker,         \* where ble_worker is
    waiting,        \* writes in service->write_queue
    handler,        \* the stack thread is inside gatt_event_handler
    mutex,          \* who holds service->mutex
    count,          \* stat_queued, pending and stat_drained
    shown,          \* the view port is registered with the GUI
    draw,           \* where the GUI thread's draw_phone is
    snapshot,       \* service->snapshot
    writes          \* counts to MaxWrites

serviceVars == <<live, registered, worker_running>>
workerVars  == <<worker, count>>
stackVars   == <<handler, writes>>
guiVars     == <<draw, snapshot>>
radioVars   == <<profile, ble_state>>
vars == <<main, radioVars, ble, serviceVars, workerVars, waiting, stackVars, mutex, guiVars, shown>>

MeshBleState == {"Idle", "Advertising", "Unsupported", "ProfileFailed"}
Holder       == {"nobody", "worker", "gui"}
NoCount      == [queued |-> 0, pending |-> 0, drained |-> 0]

Init ==
    /\ main = "start"
    /\ profile = "default"
    /\ ble_state = "Idle"
    /\ ble = FALSE
    /\ live = {}
    /\ registered = FALSE
    /\ worker_running = FALSE
    /\ worker = "none"
    /\ waiting = 0
    /\ handler = "idle"
    /\ mutex = "nobody"
    /\ count = NoCount
    /\ shown = FALSE
    /\ draw = "idle"
    /\ snapshot = NoCount
    /\ writes = 0

-----------------------------------------------------------------------------
(* The main thread: meshtastic_ble_start *)

MainStep(here, next) ==
    /\ main = here
    /\ main' = next
    /\ UNCHANGED <<stackVars, guiVars, mutex, count>>

\* The second core is not alive or has no GATT: the profile is left alone.
Unsupported ==
    /\ MainStep("start", "show")
    /\ ble_state' = "Unsupported"
    /\ UNCHANGED <<profile, ble, serviceVars, worker, waiting, shown>>

\* bt_profile_start stops the running profile before it starts another.
StopDefault ==
    /\ MainStep("start", "alloc")
    /\ profile' = "none"
    /\ UNCHANGED <<ble_state, ble, serviceVars, worker, waiting, shown>>

(* profile_start, as far as the GATT service.  When that cannot be added   *)
(* everything is freed again and the application goes on without a phone.  *)
AllocService ==
    /\ \/ MainStep("alloc", "start_worker") /\ live' = {"service", "mutex"} /\ UNCHANGED ble_state
       \/ MainStep("alloc", "show") /\ ble_state' = "ProfileFailed" /\ UNCHANGED live
    /\ UNCHANGED <<profile, ble, registered, worker_running, worker, waiting, shown>>

StartWorker ==
    /\ MainStep("start_worker", "register")
    /\ live' = live \cup {"write_queue", "worker"}
    /\ worker_running' = TRUE
    /\ worker' = "while"
    /\ UNCHANGED <<radioVars, ble, registered, waiting, shown>>

RegisterHandler ==
    /\ MainStep("register", "advertise")
    /\ registered' = TRUE
    /\ profile' = "meshtastic"
    /\ UNCHANGED <<ble_state, ble, live, worker_running, worker, waiting, shown>>

\* Advertising is started whatever the settings say, and its state kept.
Advertise ==
    /\ MainStep("advertise", "show")
    /\ ble_state' \in {"Advertising", "ProfileFailed"}
    /\ ble' = TRUE
    /\ UNCHANGED <<profile, serviceVars, worker, waiting, shown>>

\* The rest of mesh_app_alloc: the draw callback is set, the view port shown.
Show ==
    /\ MainStep("show", "run")
    /\ shown' = TRUE
    /\ UNCHANGED <<radioVars, ble, serviceVars, worker, waiting>>

\* mesh_app_run, which is AppLifecycle's matter, ends some time or never.
Quit ==
    /\ MainStep("run", "hide")
    /\ UNCHANGED <<radioVars, ble, serviceVars, worker, waiting, shown>>

-----------------------------------------------------------------------------
(* The main thread: mesh_app_free, and in it meshtastic_ble_stop *)

\* gui_remove_view_port: no further draw begins.
Hide ==
    /\ MainStep("hide", "wait_draw")
    /\ shown' = FALSE
    /\ UNCHANGED <<radioVars, ble, serviceVars, worker, waiting>>

\* A seeded fault: an application that stops Bluetooth under the screen.
LetDraw ==
    /\ MainStep("wait_draw", IF ble THEN "lower" ELSE "ended")
    /\ UNCHANGED <<radioVars, ble, serviceVars, worker, waiting, shown>>

\* It returns when none is in progress.  Without a service nothing else is undone.
WaitDraw ==
    /\ draw = "idle"
    /\ MainStep("wait_draw", IF ble THEN "lower" ELSE "ended")
    /\ UNCHANGED <<radioVars, ble, serviceVars, worker, waiting, shown>>

\* A seeded fault: a join without telling the worker to end.
JoinUntold ==
    /\ MainStep("lower", "join")
    /\ UNCHANGED <<radioVars, ble, serviceVars, worker, waiting, shown>>

\* meshtastic_ble_service_free
LowerFlag ==
    /\ MainStep("lower", "join")
    /\ worker_running' = FALSE
    /\ UNCHANGED <<radioVars, ble, live, registered, worker, waiting, shown>>

JoinWorker ==
    /\ worker = "ended"
    /\ MainStep("join", "free_queue")
    /\ live' = live \ {"worker"}
    /\ UNCHANGED <<radioVars, ble, registered, worker_running, worker, waiting, shown>>

\* The writes nobody took go with the queue.
FreeQueue ==
    /\ MainStep("free_queue", "unregister")
    /\ live' = live \ {"write_queue"}
    /\ waiting' = 0
    /\ UNCHANGED <<radioVars, ble, registered, worker_running, worker, shown>>

\* Taken to wait for a handler in progress, like removing the view port.
Unregister ==
    /\ handler = "idle"
    /\ MainStep("unregister", "delete")
    /\ registered' = FALSE
    /\ UNCHANGED <<radioVars, ble, live, worker_running, worker, waiting, shown>>

\* Characteristics, service and mutex, and with them the profile.
DeleteService ==
    /\ MainStep("delete", "restore")
    /\ live' = {}
    /\ profile' = "none"
    /\ UNCHANGED <<ble_state, ble, registered, worker_running, worker, waiting, shown>>

\* bt_profile_restore_default goes on to start the default profile.
RestoreDefault ==
    /\ MainStep("restore", "ended")
    /\ profile' = "default"
    /\ ble_state' = "Idle"
    /\ UNCHANGED <<ble, serviceVars, worker, waiting, shown>>

Main ==
    \/ Unsupported \/ StopDefault \/ AllocService \/ StartWorker
    \/ RegisterHandler \/ Advertise \/ Show
    \/ Hide \/ WaitDraw \/ LowerFlag \/ JoinWorker \/ FreeQueue
    \/ Unregister \/ DeleteService \/ RestoreDefault

-----------------------------------------------------------------------------
(* ble_worker *)

WorkerStep(here, next) ==
    /\ worker = here
    /\ worker' = next
    /\ UNCHANGED <<main, radioVars, ble, serviceVars, stackVars, guiVars, shown>>

\* while(worker_running)
While ==
    /\ WorkerStep("while", IF worker_running THEN "get" ELSE "ended")
    /\ UNCHANGED <<waiting, mutex, count>>

\* A write, or WORKER_POLL_MS without one.
Get ==
    /\ WorkerStep("get", IF waiting > 0 THEN "got" ELSE "check")
    /\ waiting' = IF waiting > 0 THEN waiting - 1 ELSE 0
    /\ UNCHANGED <<mutex, count>>

\* if(!worker_running) break, before the write and before the drain.
LookAtFlag ==
    /\ \/ WorkerStep("got", IF worker_running THEN "handle" ELSE "ended")
       \/ WorkerStep("check", IF worker_running THEN "due" ELSE "ended")
    /\ UNCHANGED <<waiting, mutex, count>>

\* handle_to_radio: a new session empties the ring, a critical section of its own.
ResetRing ==
    /\ mutex = "nobody"
    /\ WorkerStep("handle", "answer")
    /\ count' = [count EXCEPT !.pending = 0]
    /\ UNCHANGED <<waiting, mutex>>

KeepRing == WorkerStep("handle", "answer") /\ UNCHANGED <<waiting, mutex, count>>

NoAnswer == WorkerStep("answer", "check") /\ UNCHANGED <<waiting, mutex, count>>

\* queue(): the message is counted twice, under the mutex.
CountPending ==
    /\ mutex = "nobody"
    /\ WorkerStep("answer", "queueing")
    /\ mutex' = "worker"
    /\ count' = [count EXCEPT !.pending = @ + 1]
    /\ UNCHANGED waiting

CountQueued ==
    /\ WorkerStep("queueing", "check")
    /\ mutex' = "nobody"
    /\ count' = [count EXCEPT !.queued = @ + 1]
    /\ UNCHANGED waiting

NothingDue ==
    /\ mutex = "nobody"
    /\ WorkerStep("due", "while")
    /\ UNCHANGED <<waiting, mutex, count>>

\* drain_step: likewise when a message is consumed.
UncountPending ==
    /\ mutex = "nobody"
    /\ count.pending > 0
    /\ WorkerStep("due", "draining")
    /\ mutex' = "worker"
    /\ count' = [count EXCEPT !.pending = @ - 1]
    /\ UNCHANGED waiting

CountDrained ==
    /\ WorkerStep("draining", "while")
    /\ mutex' = "nobody"
    /\ count' = [count EXCEPT !.drained = @ + 1]
    /\ UNCHANGED waiting

Worker ==
    \/ While \/ Get \/ LookAtFlag
    \/ ResetRing \/ KeepRing \/ NoAnswer \/ CountPending \/ CountQueued
    \/ NothingDue \/ UncountPending \/ CountDrained

-----------------------------------------------------------------------------
(* The stack thread and the GUI thread *)

\* gatt_event_handler has recognised a write to ToRadio and copied it.
Written ==
    /\ registered
    /\ handler = "idle"
    /\ writes < MaxWrites
    /\ handler' = "posting"
    /\ writes' = writes + 1
    /\ UNCHANGED <<main, radioVars, ble, serviceVars, workerVars, waiting, mutex, guiVars, shown>>

\* A seeded fault: a queue that takes every write.
PostAlways ==
    /\ handler = "posting"
    /\ handler' = "idle"
    /\ waiting' = IF "write_queue" \in live THEN waiting + 1 ELSE waiting
    /\ UNCHANGED <<main, radioVars, ble, serviceVars, workerVars, writes, mutex, guiVars, shown>>

\* A put that does not wait: a write that finds no room is lost.
Post ==
    /\ handler = "posting"
    /\ handler' = "idle"
    /\ waiting' = IF "write_queue" \in live /\ waiting < WRITE_QUEUE_DEPTH
                  THEN waiting + 1 ELSE waiting
    /\ UNCHANGED <<main, radioVars, ble, serviceVars, workerVars, writes, mutex, guiVars, shown>>

GuiStep(here, next) ==
    /\ draw = here
    /\ draw' = next
    /\ UNCHANGED <<main, radioVars, ble, serviceVars, workerVars, waiting, stackVars, shown>>

\* draw_phone asks for the statistics if there is a service.
Draw ==
    /\ shown
    /\ ble
    /\ GuiStep("idle", "stats")
    /\ UNCHANGED <<snapshot, mutex>>

\* A seeded fault: the counters gathered whether or not the lock was taken.
GatherAnyway ==
    /\ GuiStep("stats", "copying")
    /\ mutex' = IF mutex = "nobody" THEN "gui" ELSE mutex
    /\ snapshot' = [snapshot EXCEPT !.queued = count.queued]

(* meshtastic_ble_service_stats: a try-lock, and the counters one by one   *)
(* under it; with the lock busy the last snapshot serves.                  *)
TryLock ==
    \/ /\ mutex = "nobody"
       /\ GuiStep("stats", "copying")
       /\ mutex' = "gui"
       /\ snapshot' = [snapshot EXCEPT !.queued = count.queued]
    \/ /\ mutex # "nobody"
       /\ GuiStep("stats", "idle")
       /\ UNCHANGED <<mutex, snapshot>>

Gather ==
    /\ GuiStep("copying", "idle")
    /\ mutex' = "nobody"
    /\ snapshot' = [snapshot EXCEPT !.pending = count.pending, !.drained = count.drained]

Gui == TryLock \/ Gather

-----------------------------------------------------------------------------
Next == Main \/ Quit \/ Worker \/ Written \/ Post \/ Draw \/ Gui

Spec == Init /\ [][Next]_vars

(* Every thread keeps being scheduled.  The user may never quit, the phone *)
(* never write, the GUI never draw.                                        *)
Fairness == WF_vars(Main) /\ WF_vars(Worker) /\ WF_vars(Post) /\ WF_vars(Gui)

FairSpec == Spec /\ Fairness

-----------------------------------------------------------------------------
(* Properties *)

BleTypeOK ==
    /\ profile \in {"default", "none", "meshtastic"}
    /\ ble_state \in MeshBleState
    /\ ble \in BOOLEAN
    /\ live \subseteq {"service", "mutex", "write_queue", "worker"}
    /\ registered \in BOOLEAN
    /\ worker_running \in BOOLEAN
    /\ waiting \in 0 .. WRITE_QUEUE_DEPTH
    /\ mutex \in Holder
    /\ count \in [queued : Nat, pending : Nat, drained : Nat]
    /\ snapshot \in [queued : Nat, pending : Nat, drained : Nat]
    /\ shown \in BOOLEAN
    /\ writes \in 0 .. MaxWrites

(* Nothing of the service is freed under a thread at work on it: the       *)
(* worker, a draw of the statistics, the stack's event handler.  No lock   *)
(* says so, only the order of the steps.  One gap is left: the write queue *)
(* is freed (service.c:744) before the handler that posts to it is         *)
(* unregistered (745), and a write that arrives between posts to nothing.  *)
ServiceOutlivesUsers ==
    /\ worker \notin {"none", "ended"} => {"service", "mutex", "write_queue"} \subseteq live
    /\ draw # "idle" => {"service", "mutex"} \subseteq live
    /\ registered => {"service", "mutex"} \subseteq live
    /\ handler = "posting" => "write_queue" \in live \/ main = "unregister"

(* The statistics are those of one moment, although they are gathered      *)
(* counter by counter while the worker counts, and shown from the old      *)
(* snapshot when the lock is busy: what was drained and what is pending    *)
(* never add up to more than what was queued.                              *)
SnapshotAddsUp ==
    draw = "idle" => snapshot.pending + snapshot.drained <= snapshot.queued

(* "Restoring the default profile is not optional" (profile.c:205): once   *)
(* the application that runs the service is told to leave, it ends, with   *)
(* the default profile running, whatever the phone goes on writing and     *)
(* however often the screen is drawn.                                      *)
StopRestores ==
    main = "hide" /\ ble ~> main = "ended" /\ profile = "default" /\ ble_state = "Idle"

(* "Failing to restore leaves the Flipper unable to pair with its own      *)
(* companion app, so the exit path matters as much as the entry path"      *)
(* (profile.h:7): the application never ends without the default profile.  *)
EndsWithDefault == main = "ended" => profile = "default"

=============================================================================

-------------------------- MODULE BleLifecycle_proofs --------------------------
(***************************************************************************)
(* Proofs about BleLifecycle, for every depth of the write queue and any   *)
(* number of writes: nothing of the service is freed under a thread that   *)
(* uses it, the statistics shown are those of one moment, and where the    *)
(* Meshtastic profile ran the Flipper is left as it was found.             *)
(***************************************************************************)
EXTENDS BleLifecycle, TLAPS

MainPlace ==
    {"start", "alloc", "start_worker", "register", "advertise", "show", "run", "hide", "wait_draw",
     "lower", "join", "free_queue", "unregister", "delete", "restore", "ended"}
WorkerPlace ==
    {"none", "while", "get", "got", "check", "handle", "answer", "queueing", "due", "draining", "ended"}

PlacesOK ==
    /\ main \in MainPlace
    /\ worker \in WorkerPlace
    /\ handler \in {"idle", "posting"}
    /\ draw \in {"idle", "stats", "copying"}
    /\ ble \in BOOLEAN
    /\ registered \in BOOLEAN
    /\ shown \in BOOLEAN

(* Why the order of the steps is enough.  No thread but the main one       *)
(* frees anything, so it is enough to say where the main thread can be     *)
(* while another is at work, and what is allocated when it is there.       *)
Building    == {"start_worker", "register", "advertise"}
Serving     == {"show", "run", "hide", "wait_draw"}
WithQueue   == main \in {"register", "advertise", "lower", "join", "free_queue"} \/ (main \in Serving /\ ble)
WithService == WithQueue \/ main \in {"start_worker", "unregister", "delete"}

OrderInv ==
    /\ WithQueue => "write_queue" \in live
    /\ WithService => {"service", "mutex"} \subseteq live
    /\ worker \notin {"none", "ended"} => WithQueue /\ main # "free_queue"
    /\ draw # "idle" => ble /\ main \in {"run", "hide", "wait_draw"}
    /\ shown => main \in {"run", "hide"}
    /\ registered => (WithQueue /\ main # "register") \/ main = "unregister"
    /\ handler = "posting" => registered
    /\ main \in {"start", "alloc", "start_worker"} => worker = "none"
    /\ main \in {"start", "alloc"} \cup Building => ~ble

LEMMA OrderInitially == Init => PlacesOK /\ OrderInv
BY DEF Init, PlacesOK, OrderInv, MainPlace, WorkerPlace, WithQueue, WithService, Building, Serving

\* A step of the main thread, one case for each.
LEMMA OrderMainStep ==
    ASSUME PlacesOK, OrderInv, Main \/ Quit
    PROVE  PlacesOK' /\ OrderInv'
<1> USE DEF PlacesOK, OrderInv, MainPlace, WorkerPlace, WithQueue, WithService, Building, Serving, MainStep,
        radioVars, serviceVars, stackVars, guiVars
<1>1. CASE Unsupported
    BY <1>1 DEF Unsupported
<1>2. CASE StopDefault
    BY <1>2 DEF StopDefault
<1>3. CASE AllocService
    BY <1>3 DEF AllocService
<1>4. CASE StartWorker
    BY <1>4 DEF StartWorker
<1>5. CASE RegisterHandler
    BY <1>5 DEF RegisterHandler
<1>6. CASE Advertise
    BY <1>6 DEF Advertise
<1>7. CASE Show
    BY <1>7 DEF Show
<1>8. CASE Quit
    BY <1>8 DEF Quit
<1>9. CASE Hide
    BY <1>9 DEF Hide
<1>10. CASE WaitDraw
    BY <1>10 DEF WaitDraw
<1>11. CASE LowerFlag
    BY <1>11 DEF LowerFlag
<1>12. CASE JoinWorker
    BY <1>12 DEF JoinWorker
<1>13. CASE FreeQueue
    BY <1>13 DEF FreeQueue
<1>14. CASE Unregister
    BY <1>14 DEF Unregister
<1>15. CASE DeleteService
    BY <1>15 DEF DeleteService
<1>16. CASE RestoreDefault
    BY <1>16 DEF RestoreDefault
<1>17. QED
    BY <1>1, <1>2, <1>3, <1>4, <1>5, <1>6, <1>7, <1>8, <1>9, <1>10, <1>11, <1>12, <1>13, <1>14,
       <1>15, <1>16 DEF Main

\* The worker never comes to life by itself, and touches nothing but counts.
LEMMA OrderWorkerStep ==
    ASSUME PlacesOK, OrderInv, Worker
    PROVE  PlacesOK' /\ OrderInv'
<1>1. /\ worker' \in WorkerPlace
      /\ worker \notin {"none", "ended"}
      /\ UNCHANGED <<main, ble, live, registered, handler, draw, shown>>
    BY DEF PlacesOK, WorkerPlace, Worker, WorkerStep, While, Get, LookAtFlag, ResetRing, KeepRing,
           NoAnswer, CountPending, CountQueued, NothingDue, UncountPending, CountDrained,
           radioVars, serviceVars, stackVars, guiVars
<1>2. PlacesOK'
    BY <1>1 DEF PlacesOK
<1>3. WithQueue' = WithQueue /\ WithService' = WithService
    BY <1>1 DEF WithQueue, WithService
<1>4. QED
    BY <1>1, <1>2, <1>3 DEF OrderInv

\* A handler begins while it is registered, a draw while it is shown.
LEMMA OrderOtherStep ==
    ASSUME PlacesOK, OrderInv, Written \/ Post \/ Draw \/ Gui \/ UNCHANGED vars
    PROVE  PlacesOK' /\ OrderInv'
<1> USE DEF PlacesOK, OrderInv, WithQueue, WithService, Building, Serving, radioVars, serviceVars, workerVars,
        stackVars, guiVars
<1>1. CASE Written
    BY <1>1 DEF Written
<1>2. CASE Post
    BY <1>2 DEF Post
<1>3. CASE Draw
    BY <1>3 DEF Draw, GuiStep
<1>4. CASE Gui
    BY <1>4 DEF Gui, TryLock, Gather, GuiStep
<1>5. CASE UNCHANGED vars
    BY <1>5 DEF vars
<1>6. QED
    BY <1>1, <1>2, <1>3, <1>4, <1>5

LEMMA OrderInvariant == Spec => [](PlacesOK /\ OrderInv)
<1>1. PlacesOK /\ OrderInv /\ [Next]_vars => (PlacesOK /\ OrderInv)'
    BY OrderMainStep, OrderWorkerStep, OrderOtherStep DEF Next
<1>2. QED
    BY OrderInitially, <1>1, PTL DEF Spec

(* Nothing is freed under the worker, a draw or the event handler, except  *)
(* in the one gap between service.c:744 and 745.                           *)
THEOREM NothingFreedInUse == Spec => []ServiceOutlivesUsers
<1>1. PlacesOK /\ OrderInv => ServiceOutlivesUsers
    BY DEF PlacesOK, OrderInv, WithQueue, WithService, Building, Serving, ServiceOutlivesUsers
<1>2. QED
    BY OrderInvariant, <1>1, PTL

-----------------------------------------------------------------------------
(* The statistics *)

Counts == [queued : Nat, pending : Nat, drained : Nat]

(* The counters disagree only while the worker is between two of them, and *)
(* it holds the mutex then; a draw holds it while it gathers.              *)
CountInv ==
    /\ count \in Counts
    /\ snapshot \in Counts
    /\ mutex = "worker" <=> worker \in {"queueing", "draining"}
    /\ mutex = "gui" <=> draw = "copying"
    /\ worker = "queueing" => count.pending + count.drained <= count.queued + 1
    /\ worker = "draining" => count.pending + count.drained + 1 <= count.queued
    /\ worker \notin {"queueing", "draining"} => count.pending + count.drained <= count.queued
    /\ draw = "copying" => snapshot.queued = count.queued
    /\ draw # "copying" => snapshot.pending + snapshot.drained <= snapshot.queued

LEMMA CountInitially == Init => CountInv
BY SMT DEF Init, CountInv, Counts, NoCount

\* Of the main thread's steps only the worker's start moves another place.
LEMMA CountMainStep ==
    ASSUME PlacesOK, OrderInv, CountInv, Main \/ Quit
    PROVE  CountInv'
<1>1. UNCHANGED <<count, snapshot, mutex, draw>>
    BY DEF Main, Quit, Unsupported, StopDefault, AllocService, StartWorker, RegisterHandler, Advertise,
           Show, Hide, WaitDraw, LowerFlag, JoinWorker, FreeQueue, Unregister, DeleteService,
           RestoreDefault, MainStep, guiVars
<1>2. \/ worker' = worker
      \/ worker = "none" /\ worker' = "while"
    BY DEF OrderInv, Main, Quit, Unsupported, StopDefault, AllocService, StartWorker, RegisterHandler,
           Advertise, Show, Hide, WaitDraw, LowerFlag, JoinWorker, FreeQueue, Unregister, DeleteService,
           RestoreDefault, MainStep
<1>3. QED
    BY <1>1, <1>2 DEF CountInv

LEMMA CountWorkerStep ==
    ASSUME CountInv, Worker
    PROVE  CountInv'
<1> USE DEF CountInv, Counts, WorkerStep, guiVars
<1>1. CASE While \/ Get \/ LookAtFlag \/ KeepRing \/ NoAnswer \/ NothingDue
    BY <1>1, SMT DEF While, Get, LookAtFlag, KeepRing, NoAnswer, NothingDue
<1>2. CASE ResetRing
    BY <1>2, SMT DEF ResetRing
<1>3. CASE CountPending
    BY <1>3, SMT DEF CountPending
<1>4. CASE CountQueued
    BY <1>4, SMT DEF CountQueued
<1>5. CASE UncountPending
    BY <1>5, SMT DEF UncountPending
<1>6. CASE CountDrained
    BY <1>6, SMT DEF CountDrained
<1>7. QED
    BY <1>1, <1>2, <1>3, <1>4, <1>5, <1>6 DEF Worker

LEMMA CountOtherStep ==
    ASSUME CountInv, Written \/ Post \/ Draw \/ Gui \/ UNCHANGED vars
    PROVE  CountInv'
<1> USE DEF CountInv, Counts, workerVars, guiVars
<1>1. CASE Written \/ Post \/ UNCHANGED vars
    BY <1>1 DEF Written, Post, vars
<1>2. CASE Draw
    BY <1>2 DEF Draw, GuiStep
<1>3. CASE TryLock
    BY <1>3, SMT DEF TryLock, GuiStep
<1>4. CASE Gather
    <2>1. /\ draw = "copying" /\ draw' = "idle"
          /\ mutex = "gui" /\ mutex' = "nobody"
          /\ UNCHANGED <<worker, count>>
          /\ worker \notin {"queueing", "draining"}
        BY <1>4 DEF Gather, GuiStep
    <2>2. /\ snapshot' \in Counts
          /\ snapshot'.queued = count.queued
          /\ snapshot'.pending = count.pending
          /\ snapshot'.drained = count.drained
        BY <1>4, <2>1 DEF Gather
    <2>3. QED
        BY <2>1, <2>2, SMT
<1>5. QED
    BY <1>1, <1>2, <1>3, <1>4 DEF Gui

(* Gathered under the mutex or shown again as they were, the statistics    *)
(* add up.                                                                 *)
THEOREM StatisticsAddUp == Spec => []SnapshotAddsUp
<1>1. PlacesOK /\ OrderInv /\ CountInv /\ [Next]_vars => CountInv'
    BY CountMainStep, CountWorkerStep, CountOtherStep DEF Next
<1>2. CountInv => SnapshotAddsUp
    BY DEF CountInv, SnapshotAddsUp
<1>3. QED
    BY OrderInvariant, CountInitially, <1>1, <1>2, PTL DEF Spec

-----------------------------------------------------------------------------
(* Types, and what the application leaves behind *)

\* The types of the variables that PlacesOK and CountInv leave out.
ServiceParts == {"service", "mutex", "write_queue", "worker"}

BleRestOK ==
    /\ profile \in {"default", "none", "meshtastic"}
    /\ ble_state \in MeshBleState
    /\ live \subseteq ServiceParts
    /\ worker_running \in BOOLEAN
    /\ waiting \in Nat /\ waiting <= WRITE_QUEUE_DEPTH
    /\ mutex \in Holder
    /\ writes \in Nat /\ writes <= MaxWrites

LEMMA RestInitially == Init => BleRestOK
<1>1. 0 \in Nat /\ 0 <= WRITE_QUEUE_DEPTH /\ 0 <= MaxWrites
    BY DepthAssumption, BoundAssumption, SMT
<1>2. QED
    BY <1>1 DEF Init, BleRestOK, MeshBleState, Holder

LEMMA RestMainStep ==
    ASSUME BleRestOK, Main \/ Quit
    PROVE  BleRestOK'
<1> USE DEF BleRestOK, MeshBleState, MainStep, radioVars, serviceVars, stackVars
<1>1. CASE Unsupported \/ StopDefault \/ AllocService \/ StartWorker
    <2>1. live' \subseteq ServiceParts
        BY <1>1 DEF Unsupported, StopDefault, AllocService, StartWorker, ServiceParts
    <2>2. QED
        BY <1>1, <2>1 DEF Unsupported, StopDefault, AllocService, StartWorker
<1>2. CASE RegisterHandler \/ Advertise \/ Show \/ Quit \/ Hide \/ WaitDraw \/ LowerFlag
    BY <1>2 DEF RegisterHandler, Advertise, Show, Quit, Hide, WaitDraw, LowerFlag
<1>3. CASE JoinWorker \/ FreeQueue
    <2>1. live' \subseteq ServiceParts
        BY <1>3 DEF JoinWorker, FreeQueue
    <2>2. 0 <= WRITE_QUEUE_DEPTH
        BY DepthAssumption, SMT
    <2>3. QED
        BY <1>3, <2>1, <2>2 DEF JoinWorker, FreeQueue
<1>4. CASE Unregister \/ DeleteService \/ RestoreDefault
    BY <1>4 DEF Unregister, DeleteService, RestoreDefault
<1>5. QED
    BY <1>1, <1>2, <1>3, <1>4 DEF Main

LEMMA RestWorkerStep ==
    ASSUME BleRestOK, Worker
    PROVE  BleRestOK'
<1>1. /\ UNCHANGED <<profile, ble_state, live, worker_running, writes>>
      /\ mutex' \in Holder
    BY DEF BleRestOK, Holder, Worker, WorkerStep, While, Get, LookAtFlag, ResetRing, KeepRing, NoAnswer,
           CountPending, CountQueued, NothingDue, UncountPending, CountDrained, radioVars, serviceVars, stackVars
<1>2. waiting' \in Nat /\ waiting' <= WRITE_QUEUE_DEPTH
    <2>1. waiting \in Nat /\ waiting <= WRITE_QUEUE_DEPTH /\ WRITE_QUEUE_DEPTH \in Nat
        BY DepthAssumption DEF BleRestOK
    <2>2. waiting' = waiting \/ (waiting > 0 /\ waiting' = waiting - 1) \/ waiting' = 0
        BY DEF Worker, While, Get, LookAtFlag, ResetRing, KeepRing, NoAnswer,
               CountPending, CountQueued, NothingDue, UncountPending, CountDrained
    <2>3. QED
        BY <2>1, <2>2, SMT
<1>3. QED
    BY <1>1, <1>2 DEF BleRestOK

LEMMA RestOtherStep ==
    ASSUME BleRestOK, Written \/ Post \/ Draw \/ Gui \/ UNCHANGED vars
    PROVE  BleRestOK'
<1> USE DEF BleRestOK, radioVars, serviceVars, workerVars, stackVars
<1>1. CASE Written
    BY <1>1, BoundAssumption, SMT DEF Written
<1>2. CASE Post
    <2>1. waiting' \in Nat /\ waiting' <= WRITE_QUEUE_DEPTH
        BY <1>2, DepthAssumption, SMT DEF Post
    <2>2. QED
        BY <1>2, <2>1 DEF Post
<1>3. CASE Draw \/ Gui
    BY <1>3 DEF Draw, Gui, TryLock, Gather, GuiStep, Holder
<1>4. CASE UNCHANGED vars
    BY <1>4 DEF vars
<1>5. QED
    BY <1>1, <1>2, <1>3, <1>4

(* The write queue never holds more than it has room for, however the      *)
(* writes of the phone fall between the steps of start and stop.           *)
THEOREM BleTypeCorrect == Spec => []BleTypeOK
<1>1. PlacesOK /\ OrderInv /\ CountInv /\ [Next]_vars => CountInv'
    BY CountMainStep, CountWorkerStep, CountOtherStep DEF Next
<1>2. BleRestOK /\ [Next]_vars => BleRestOK'
    BY RestMainStep, RestWorkerStep, RestOtherStep DEF Next
<1>3. PlacesOK /\ CountInv /\ BleRestOK => BleTypeOK
    <2> SUFFICES ASSUME PlacesOK, CountInv, BleRestOK PROVE BleTypeOK
        OBVIOUS
    <2>1. waiting \in 0 .. WRITE_QUEUE_DEPTH /\ writes \in 0 .. MaxWrites
        BY DepthAssumption, BoundAssumption, SMT DEF BleRestOK
    <2>2. QED
        BY <2>1 DEF PlacesOK, CountInv, Counts, BleRestOK, BleTypeOK, ServiceParts
<1>4. QED
    BY OrderInvariant, CountInitially, RestInitially, <1>1, <1>2, <1>3, PTL DEF Spec

\* Bluetooth as the application found it.
AsFound == profile = "default" /\ ble_state = "Idle"

(* An application that ran the service ends with the default profile: the  *)
(* safety half of StopRestores.  That it does end needs fairness.          *)
THEOREM EndedIsRestored == Spec => [](main = "ended" /\ ble => AsFound)
<1> DEFINE Inv == main = "ended" /\ ble => AsFound
<1>1. Init => Inv
    BY DEF Init
<1>2. ASSUME PlacesOK, OrderInv, Inv, Main \/ Quit PROVE Inv'
    <2> USE DEF AsFound, MainStep, radioVars
    <2>1. CASE Unsupported \/ StopDefault \/ AllocService \/ StartWorker \/ RegisterHandler \/ Advertise \/ Show
        BY <2>1 DEF Unsupported, StopDefault, AllocService, StartWorker, RegisterHandler, Advertise, Show
    <2>2. CASE Quit \/ Hide \/ WaitDraw \/ LowerFlag \/ JoinWorker \/ FreeQueue \/ Unregister \/ DeleteService
        BY <2>2 DEF Quit, Hide, WaitDraw, LowerFlag, JoinWorker, FreeQueue, Unregister, DeleteService
    <2>3. CASE RestoreDefault
        BY <2>3 DEF RestoreDefault
    <2>4. QED
        BY <1>2, <2>1, <2>2, <2>3 DEF Main
<1>3. ASSUME Inv, Worker \/ Written \/ Post \/ Draw \/ Gui \/ UNCHANGED vars PROVE Inv'
    <2>1. UNCHANGED <<main, ble, profile, ble_state>>
        BY <1>3 DEF Worker, WorkerStep, While, Get, LookAtFlag, ResetRing, KeepRing, NoAnswer, CountPending,
               CountQueued, NothingDue, UncountPending, CountDrained, Written, Post, Draw, Gui, TryLock, Gather,
               GuiStep, radioVars, vars
    <2>2. QED
        BY <1>3, <2>1 DEF AsFound
<1>4. PlacesOK /\ OrderInv /\ Inv /\ [Next]_vars => Inv'
    BY <1>2, <1>3 DEF Next
<1>5. QED
    BY OrderInvariant, <1>1, <1>4, PTL DEF Spec

=============================================================================

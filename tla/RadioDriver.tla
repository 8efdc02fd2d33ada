---------------------------- MODULE RadioDriver ----------------------------
(***************************************************************************)
(* The SX1262 as a frame source: bringing it up, reading frames out of it  *)
(* by polling its interrupt flags, and letting go of it.                   *)
(* src/src/radio/source_radio.c, src/src/radio/sx126x.c.                   *)
(*                                                                         *)
(* start and stop are called by one thread, poll by another, with nothing  *)
(* between them but ctx->running.  Each transaction on the bus is a step   *)
(* and may fail; the chip goes on receiving between any two of them.       *)
(* Frames are numbered as they arrive.                                     *)
(***************************************************************************)
EXTENDS Naturals, Sequences

CONSTANT MaxFrames      \* bound: frames that arrive in a behaviour

ASSUME FramesAssumption == MaxFrames \in Nat

VARIABLES
    receiving,      \* the chip is in continuous receive
    irq,            \* its interrupt flags
    rx_buffer,      \* the last frame it wrote to its buffer
    arrived,        \* frames it has received, counts to MaxFrames
    started,        \* radio->started: the SPI handle is initialised
    claimed,        \* pins the driver has configured
    ctx_running,    \* ctx->running
    start_pc,       \* where radio_start is
    poll_pc,        \* where radio_poll is
    frame,          \* the frame being read out
    uncleared       \* history: frames read out whose flags stayed up

chipVars   == <<receiving, irq, rx_buffer, arrived>>
sessionVars == <<started, claimed, ctx_running, start_pc>>
pollVars   == <<poll_pc, frame, uncleared>>
driverVars == <<chipVars, sessionVars, pollVars>>

Flag == {"rx_done", "error"}        \* error: CRC_ERR or HEADER_ERR
Pin  == {"nss_lora", "nss_cc1101", "reset", "ant_sw", "busy", "dio1"}
Junk == 0                           \* what a bus that is not ours reads as

DriverInit ==
    /\ receiving = FALSE
    /\ irq = {}
    /\ rx_buffer = Junk
    /\ arrived = 0
    /\ started = FALSE
    /\ claimed = {}
    /\ ctx_running = FALSE
    /\ start_pc = "idle"
    /\ poll_pc = "none"
    /\ frame = Junk
    /\ uncleared = {}

\* The chip has received a frame, intact or not, over whatever it held.
Receive(intact) ==
    /\ receiving
    /\ arrived < MaxFrames
    /\ arrived' = arrived + 1
    /\ rx_buffer' = arrived + 1
    /\ irq' = irq \cup {"rx_done"} \cup (IF intact THEN {} ELSE {"error"})
    /\ UNCHANGED <<receiving, sessionVars, pollVars>>

-----------------------------------------------------------------------------
(* radio_start and radio_stop *)

\* sx126x_end: the CC1101's chip select stays parked.
End ==
    /\ started' = FALSE
    /\ claimed' = IF started THEN claimed \cap {"nss_cc1101"} ELSE claimed

\* sx126x_begin, up to the end of the hardware reset.
Begin ==
    /\ start_pc = "idle"
    /\ claimed' = Pin
    /\ started' = TRUE
    /\ receiving' = FALSE
    /\ irq' = {}
    /\ start_pc' = "probe"
    /\ UNCHANGED <<rx_buffer, arrived, ctx_running, pollVars>>

\* A seeded fault: a failed step that leaves the bus to be cleaned up later.
GiveUpHolding ==
    /\ start_pc \in {"probe", "configure", "start_rx"}
    /\ start_pc' = "failed"
    /\ UNCHANGED <<chipVars, started, claimed, ctx_running, pollVars>>

\* One of the steps fails, and radio_start returns false.
GiveUp ==
    /\ start_pc \in {"probe", "configure", "start_rx"}
    /\ End
    /\ start_pc' = "failed"
    /\ UNCHANGED <<chipVars, ctx_running, pollVars>>

\* BUSY falls, standby is accepted, and the status is not a floating bus.
Probe ==
    /\ start_pc = "probe"
    /\ start_pc' = "configure"
    /\ UNCHANGED <<chipVars, started, claimed, ctx_running, pollVars>>

\* sx126x_configure_lora: a dozen commands, the last of which clears the flags.
Configure ==
    /\ start_pc = "configure"
    /\ irq' = {}
    /\ start_pc' = "start_rx"
    /\ UNCHANGED <<receiving, rx_buffer, arrived, started, claimed, ctx_running, pollVars>>

StartRx ==
    /\ start_pc = "start_rx"
    /\ receiving' = TRUE
    /\ ctx_running' = TRUE
    /\ start_pc' = "started"
    /\ UNCHANGED <<irq, rx_buffer, arrived, started, claimed, pollVars>>

Start == Begin \/ Probe \/ Configure \/ StartRx \/ GiveUp

\* radio_stop: the flag first, then the session.  The chip is left receiving.
LowerRunning ==
    /\ ctx_running' = FALSE
    /\ UNCHANGED <<chipVars, started, claimed, start_pc, pollVars>>

EndSession ==
    /\ End
    /\ UNCHANGED <<chipVars, ctx_running, start_pc, pollVars>>

-----------------------------------------------------------------------------
(* radio_poll and sx126x_poll_rx, on the thread that polls *)

PollStep(here, next) ==
    /\ poll_pc = here
    /\ poll_pc' = next

\* radio_poll is called.
EnterPoll ==
    /\ PollStep("enter", IF ctx_running THEN "irq" ELSE "nothing")
    /\ UNCHANGED <<chipVars, sessionVars, frame, uncleared>>

\* get_irq_status; the flags of a closed session are anything.
ReadIrq ==
    /\ \E flags \in SUBSET Flag :
          /\ started => flags = irq
          /\ PollStep("irq", CASE flags = {}         -> "slice"
                               [] "error" \in flags  -> "drop"
                               [] OTHER              -> "locate")
    /\ UNCHANGED <<chipVars, sessionVars, frame, uncleared>>

\* Length and place of the packet; its signal is read with them.
Locate ==
    /\ PollStep("locate", "read")
    /\ frame' = IF started THEN rx_buffer ELSE Junk
    /\ UNCHANGED <<chipVars, sessionVars, uncleared>>

ReadBuffer ==
    /\ PollStep("read", "clear")
    /\ frame' = IF started THEN frame ELSE Junk
    /\ UNCHANGED <<chipVars, sessionVars, uncleared>>

\* The transaction fails: nothing was read, or what was read is given up.
ReadFails ==
    /\ \/ PollStep("irq", "slice")
       \/ PollStep("locate", "drop")
       \/ PollStep("read", "drop")
    /\ UNCHANGED <<chipVars, sessionVars, frame, uncleared>>

\* clear_irq, whose result nobody looks at.  It clears every flag there is.
Clear(accepted) == irq' = IF accepted /\ started THEN {} ELSE irq

\* A seeded fault: the flags left up after a frame was read out.
DeliverUncleared(accepted) ==
    /\ PollStep("clear", "frame")
    /\ UNCHANGED <<chipVars, sessionVars, frame, uncleared>>

Deliver(accepted) ==
    /\ PollStep("clear", "frame")
    /\ Clear(accepted)
    /\ uncleared' = IF accepted THEN uncleared ELSE uncleared \cup {frame}
    /\ UNCHANGED <<receiving, rx_buffer, arrived, sessionVars, frame>>

Drop(accepted) ==
    /\ PollStep("drop", "slice")
    /\ Clear(accepted)
    /\ UNCHANGED <<receiving, rx_buffer, arrived, sessionVars, frame, uncleared>>

\* Nothing this time: wait a slice, unless stopped or out of time.
Slice ==
    /\ \/ PollStep("slice", "nothing")
       \/ ctx_running /\ PollStep("slice", "irq")
    /\ UNCHANGED <<chipVars, sessionVars, frame, uncleared>>

Poll ==
    \/ EnterPoll
    \/ ReadIrq \/ Locate \/ ReadBuffer \/ ReadFails
    \/ \E accepted \in BOOLEAN : Deliver(accepted) \/ Drop(accepted)
    \/ Slice

\* What poll returns to its caller: a frame, or nothing.
PollReturns(what) ==
    /\ PollStep(what, "none")
    /\ UNCHANGED <<chipVars, sessionVars, frame, uncleared>>

CallPoll ==
    /\ PollStep("none", "enter")
    /\ UNCHANGED <<chipVars, sessionVars, frame, uncleared>>

=============================================================================

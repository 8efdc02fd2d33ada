-------------------------- MODULE MCFromRadioQueue --------------------------
(***************************************************************************)
(* FromRadioQueue for TLC, with a counter of the doorbells rung since the  *)
(* batch in progress began.  The counter observes; it guards nothing.      *)
(***************************************************************************)
EXTENDS FromRadioQueue

VARIABLE bells      \* FromNum updates made since the batch began

mcVars == <<queueVars, bells>>

\* A batch ends when the worker disarms the drain or a new session begins.
BatchEnds == (drain_active /\ ~drain_active') \/ Reset

MCInit == QueueInit /\ bells = 0

MCNext ==
    /\ QueueNext
    /\ bells' = IF BatchEnds THEN 0
                ELSE IF drain_pc = "from_num" /\ drain_pc' # "from_num" THEN bells + 1
                ELSE bells

MCSpec == MCInit /\ [][MCNext]_mcVars

(* "One notification per batch is what the protocol wants" (service.c:97): *)
(* a batch rings at most once, however many messages join it while it is   *)
(* being drained, and has rung before its first message is consumed.       *)
OneDoorbellPerBatch ==
    /\ bells <= 1
    /\ drain_pc = "advance" /\ offered # NoMessage => bells = 1

=============================================================================

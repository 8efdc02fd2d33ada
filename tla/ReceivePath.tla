----------------------------- MODULE ReceivePath -----------------------------
(***************************************************************************)
(* The receive side of the application: the radio thread takes a frame     *)
(* through the model under app->mutex, the main loop turns pages and       *)
(* scrolls, and the GUI thread draws what it finds.                        *)
(* src/src/app.c, src/src/model/mesh_event.c, src/src/ui/app_view.c.       *)
(*                                                                         *)
(* The radio thread's critical section is a sequence of steps, because a   *)
(* draw takes the mutex only if it is free and reads on if it is not.      *)
(***************************************************************************)
EXTENDS MessageRing, NodeRoster

CONSTANTS
    Frame,          \* frames as decoded: see FrameAssumption
    TICK_RANGE,     \* furi_get_tick() wraps here
    InitialTicks,   \* how long the device may have been up
    MaxFrames       \* bound: frames received in a behaviour

Result == {"ok", "too_short", "channel_mismatch", "bad_protobuf", "not_text"}
Portnum == {"text", "nodeinfo", "other", "none"}

(* What mesh_decode_frame and mesh_event_from_decoded make of a frame.     *)
(* The sender is known whenever the header parsed, even if nothing else    *)
(* did; user is the parsed User of a NODEINFO, or NoUser.                  *)
NoUser == [long_name |-> NoName, short_name |-> NoName]

ASSUME FrameAssumption == \A f \in Frame :
    /\ f.from \in Nat /\ f.result \in Result /\ f.portnum \in Portnum
    /\ f.result = "too_short" => f.from = NoNode
    /\ f.result \in {"too_short", "channel_mismatch"} => f.portnum = "none"
    /\ f.result = "ok" => f.portnum \in {"text", "nodeinfo"}
    /\ f.hop_start \in 0 .. 7 /\ f.hop_limit \in 0 .. 7

ASSUME ReceiveAssumption ==
    /\ TICK_RANGE \in Nat \ {0}
    /\ InitialTicks \subseteq 0 .. TICK_RANGE - 1
    /\ MaxFrames \in Nat

VARIABLES
    messages,       \* app->messages
    roster,         \* app->roster
    counters,       \* app->counters
    total_frames,   \* app->total_frames
    radio,          \* where radio_thread is
    rx_event,       \* app->rx_event: the frame being taken in
    now,            \* furi_get_tick()
    page,           \* app->page
    scroll,         \* app->scroll
    ui,             \* where mesh_app_run's loop is
    rows,           \* clamp_scroll's local: the rows it counted
    heard           \* history: the frames taken in so far, in order

modelVars == <<messages, roster, counters, total_frames>>
radioVars == <<radio, rx_event, now, heard>>
viewVars  == <<page, scroll, ui, rows>>
vars      == <<modelVars, radioVars, viewVars>>

PageHome == 0
PageMessages == 1
PageNodesHeard == 2
PageNodesSignal == 3
PageCount == 6

NoFrame ==
    [from |-> NoNode, result |-> "too_short", portnum |-> "none", text |-> "none",
     user |-> NoUser, rssi |-> 0, hop_start |-> 0, hop_limit |-> 0]

Init ==
    /\ messages = EmptyRing
    /\ roster = <<>>
    /\ counters = [r \in Result |-> 0]
    /\ total_frames = 0
    /\ radio = "poll"
    /\ rx_event = NoFrame
    /\ now \in InitialTicks
    /\ page = PageHome
    /\ scroll = 0
    /\ ui = "wait"
    /\ rows = 0
    /\ heard = <<>>

-----------------------------------------------------------------------------
(* radio_thread *)

\* app->source->poll delivers a frame.  A frame takes longer than a tick.
Poll(frame) ==
    /\ radio = "poll"
    /\ Len(heard) < MaxFrames
    /\ rx_event' = frame
    /\ now' = (now + 1) % TICK_RANGE
    /\ radio' = "acquire"
    /\ UNCHANGED <<modelVars, viewVars, heard>>

\* The mutex is taken and the frame counted.
CountFrame ==
    /\ radio = "acquire"
    /\ total_frames' = total_frames + 1
    /\ counters' = [counters EXCEPT ![rx_event.result] = @ + 1]
    /\ radio' = "push"
    /\ UNCHANGED <<messages, roster, rx_event, now, heard, viewVars>>

\* message_ring_push, up to the filling of the slot.
FillSlot ==
    /\ radio = "push"
    /\ IsText(rx_event)
    /\ messages' = RingFilled(messages, rx_event)
    /\ radio' = "advance"
    /\ UNCHANGED <<roster, counters, total_frames, rx_event, now, heard, viewVars>>

\* message_ring_push of anything else.
IgnoreEvent ==
    /\ radio = "push"
    /\ ~IsText(rx_event)
    /\ radio' = "observe"
    /\ UNCHANGED <<modelVars, rx_event, now, heard, viewVars>>

AdvanceRing ==
    /\ radio = "advance"
    /\ messages' = RingAdvanced(messages)
    /\ radio' = "observe"
    /\ UNCHANGED <<roster, counters, total_frames, rx_event, now, heard, viewVars>>

ObserveNode ==
    /\ radio = "observe"
    /\ roster' = Observed(roster, rx_event, now)
    /\ radio' = "name"
    /\ UNCHANGED <<messages, counters, total_frames, rx_event, now, heard, viewVars>>

\* A NODEINFO names its sender; the mutex is released either way.
NameNode ==
    /\ radio = "name"
    /\ roster' = IF rx_event.result = "ok" /\ rx_event.portnum = "nodeinfo"
                 THEN UserSet(roster, rx_event.from, rx_event.user, now) ELSE roster
    /\ radio' = "poll"
    /\ heard' = Append(heard, rx_event)
    /\ UNCHANGED <<messages, counters, total_frames, rx_event, now, viewVars>>

RadioThread ==
    \/ \E frame \in Frame : Poll(frame)
    \/ CountFrame
    \/ FillSlot \/ IgnoreEvent \/ AdvanceRing
    \/ ObserveNode
    \/ NameNode

-----------------------------------------------------------------------------
(* mesh_app_run's loop.  It changes page and scroll without the mutex, one *)
(* after the other, and counts the rows under a try-lock, so at any point  *)
(* of the radio thread's critical section.                                 *)

\* app_view_row_count
Rows(p) ==
    CASE p = PageMessages -> messages.count
      [] p \in {PageNodesHeard, PageNodesSignal} -> Len(roster)
      [] OTHER -> 0

\* Left and right: the page first, then the scroll position.
Turn(step) ==
    /\ ui = "wait"
    /\ page' = (page + step) % PageCount
    /\ ui' = "turned"
    /\ UNCHANGED <<modelVars, radioVars, scroll, rows>>

ResetScroll ==
    /\ ui = "turned"
    /\ scroll' = 0
    /\ ui' = "wait"
    /\ UNCHANGED <<modelVars, radioVars, page, rows>>

ScrollUp ==
    /\ ui = "wait"
    /\ scroll > 0
    /\ scroll' = scroll - 1
    /\ UNCHANGED <<modelVars, radioVars, page, ui, rows>>

\* Down: one row on, wherever that is, and then clamp_scroll.
ScrollDown ==
    /\ ui = "wait"
    /\ scroll' = scroll + 1
    /\ ui' = "count"
    /\ UNCHANGED <<modelVars, radioVars, page, rows>>

CountRows ==
    /\ ui = "count"
    /\ rows' = Rows(page)
    /\ ui' = "clamp"
    /\ UNCHANGED <<modelVars, radioVars, page, scroll>>

\* A seeded fault: a clamp to the number of rows.
ClampToCount ==
    /\ ui = "clamp"
    /\ scroll' = IF scroll > rows THEN rows ELSE scroll
    /\ rows' = 0
    /\ ui' = "wait"
    /\ UNCHANGED <<modelVars, radioVars, page>>

ClampScroll ==
    /\ ui = "clamp"
    /\ scroll' = IF rows = 0 THEN 0 ELSE IF scroll >= rows THEN rows - 1 ELSE scroll
    /\ rows' = 0
    /\ ui' = "wait"
    /\ UNCHANGED <<modelVars, radioVars, page>>

MainLoop ==
    \/ Turn(1) \/ Turn(PageCount - 1) \/ ResetScroll
    \/ ScrollUp
    \/ ScrollDown \/ CountRows \/ ClampScroll

Next == RadioThread \/ MainLoop

Spec == Init /\ [][Next]_vars

-----------------------------------------------------------------------------
(* Properties.  They compare what a draw shows with the history of frames. *)

\* The radio thread does not hold app->mutex: a draw can take it.
MutexFree == radio \in {"poll", "acquire"}

ReceiveTypeOK ==
    /\ messages.count \in 0 .. MESSAGE_RING_CAPACITY
    /\ messages.head \in 0 .. MESSAGE_RING_CAPACITY - 1
    /\ Len(roster) <= NODE_ROSTER_CAPACITY
    /\ total_frames \in 0 .. MaxFrames
    /\ now \in 0 .. TICK_RANGE - 1
    /\ page \in 0 .. PageCount - 1
    /\ scroll \in Nat
    /\ ui \in {"wait", "turned", "count", "clamp"}

Smaller(a, b) == IF a < b THEN a ELSE b

TextsIn(frames) == {k \in 1 .. Len(frames) : frames[k].result = "ok" /\ frames[k].portnum = "text"}

\* The text that i - 1 newer ones follow.
NthNewest(texts, i) == CHOOSE k \in {l \in texts : Cardinality({m \in texts : m > l}) = i - 1} : TRUE

\* The newest texts among the frames, newest first, as many as the ring holds.
LatestTexts(frames) ==
    [i \in 1 .. Smaller(Cardinality(TextsIn(frames)), MESSAGE_RING_CAPACITY) |->
        MessageOf(frames[NthNewest(TextsIn(frames), i)])]

(* A draw that holds the mutex shows the newest messages, newest first,    *)
(* however often the ring has wrapped and whatever undecodable, foreign    *)
(* and NODEINFO frames came between them.                                  *)
MessagesAreLatest == MutexFree => RingView(messages) = LatestTexts(heard)

\* The frames taken in, with the one being taken in.
Arrived == IF MutexFree THEN heard ELSE Append(heard, rx_event)

(* "Drawing the frame with slightly stale model data is correct"           *)
(* (app_view.c:384): a draw without the mutex shows the message list as it *)
(* stood after some number of the frames that have arrived.                *)
DrawIsAtWorstStale ==
    \E n \in 0 .. Len(Arrived) : RingView(messages) = LatestTexts(SubSeq(Arrived, 1, n))

Senders(n) == {heard[k].from : k \in 1 .. n} \ {NoNode}

\* The last of the first n frames that came from node.
LastHeard(node, n) ==
    CHOOSE k \in 1 .. n : heard[k].from = node /\ \A l \in k + 1 .. n : heard[l].from # node

\* How many nodes were heard more recently than node, after n frames.
Rank(node, n) == Cardinality({m \in Senders(n) : LastHeard(m, n) > LastHeard(node, n)})

\* The node is among the most recently heard after n frames.
Kept(node, n) == node \in Senders(n) /\ Rank(node, n) < NODE_ROSTER_CAPACITY

(* "The least recently heard node is evicted" and "index 0 is the most     *)
(* recently heard node" (node_roster.h:52,76): the node list is the list   *)
(* of the most recently heard nodes, in that order, each of them once.     *)
RosterIsRecency ==
    MutexFree =>
        /\ Len(roster) = Smaller(Cardinality(Senders(Len(heard))), NODE_ROSTER_CAPACITY)
        /\ \A i \in DOMAIN roster :
              LET node == RosterView(roster)[i].node_num
              IN  Kept(node, Len(heard)) /\ Rank(node, Len(heard)) = i - 1

\* The frames from node since it last came into the table.
Stay(node) ==
    {k \in 1 .. Len(heard) : heard[k].from = node
                             /\ \A n \in k .. Len(heard) : Kept(node, n)}

Newest(frames) == CHOOSE k \in frames : \A l \in frames : l <= k

Learned(frames, Teaches(_), Field(_), nothing) ==
    LET teaching == {k \in frames : Teaches(heard[k])}
    IN  IF teaching = {} THEN nothing ELSE Field(heard[Newest(teaching)])

GivesLongName(f) == f.result = "ok" /\ f.portnum = "nodeinfo" /\ f.user.long_name # NoName
LongNameOf(f)    == f.user.long_name
HasHops(f)       == f.hop_start > 0
HopsOf(f)        == f.hop_start - f.hop_limit

(* Each entry tells what was last heard from its node since it came into   *)
(* the table: the last signal, the last name given, the last distance, the *)
(* number of frames; nothing of a node that held the slot before it.       *)
RosterTellsHistory ==
    MutexFree => \A i \in DOMAIN roster :
        LET entry == roster[i]
            stay  == Stay(entry.node_num)
        IN  /\ entry.packets = Cardinality(stay)
            /\ entry.rssi = heard[Newest(stay)].rssi
            /\ entry.long_name = Learned(stay, GivesLongName, LongNameOf, NoName)
            /\ entry.has_hops => entry.hops_away = Learned(stay, HasHops, HopsOf, 0)
            /\ entry.has_hops <=> \E k \in stay : HasHops(heard[k])

(* Once an input has been handled the first row drawn is a row there is,   *)
(* although the rows are counted without waiting for the mutex, after the  *)
(* position has moved, and keep growing after they were counted.           *)
ScrollWithinRows == ui = "wait" /\ scroll > 0 => scroll < Rows(page)

=============================================================================

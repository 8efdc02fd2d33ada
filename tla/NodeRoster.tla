------------------------------ MODULE NodeRoster ------------------------------
(***************************************************************************)
(* The table of heard nodes: found by number, the least recently seen      *)
(* entry given up when the table is full, ranked by time when read.        *)
(* src/src/model/node_roster.c.                                            *)
(*                                                                         *)
(* The table is the sequence of its entries in slot order, so its length   *)
(* is roster->count.  last_seen is the tick counter, which wraps; it is    *)
(* compared as a plain number, as the code does.                           *)
(***************************************************************************)
EXTENDS Integers, Sequences, FiniteSets

CONSTANT NODE_ROSTER_CAPACITY       \* 32 in the code

ASSUME RosterCapacityAssumption == NODE_ROSTER_CAPACITY \in Nat \ {0}

NoNode == 0         \* not a valid sender: the header could not be parsed
NoName == "none"

\* An entry cleared by memset and given its number.
NewEntry(node) ==
    [node_num |-> node, rssi |-> 0, packets |-> 0, last_seen |-> 0,
     long_name |-> NoName, short_name |-> NoName,
     hops_away |-> 0, has_hops |-> FALSE]

\* find
Slots(roster, node) == {i \in DOMAIN roster : roster[i].node_num = node}
Known(roster, node) == Slots(roster, node) # {}
Find(roster, node)  == CHOOSE i \in Slots(roster, node) : \A j \in Slots(roster, node) : i <= j

\* A seeded fault: the table used as a ring.
OldestBySlot(roster) == 1

\* oldest: the first of the entries seen least recently.
Oldest(roster) ==
    CHOOSE i \in DOMAIN roster : \A j \in DOMAIN roster :
        \/ roster[i].last_seen < roster[j].last_seen
        \/ roster[i].last_seen = roster[j].last_seen /\ i <= j

\* Where the entry for node is, or is to be made.
SlotFor(roster, node) ==
    IF Known(roster, node) THEN Find(roster, node)
    ELSE IF Len(roster) < NODE_ROSTER_CAPACITY THEN Len(roster) + 1
    ELSE Oldest(roster)

\* A seeded fault: the entry given up is renumbered and not cleared.
EntryRenumbered(roster, node) ==
    IF Known(roster, node) THEN roster[Find(roster, node)]
    ELSE IF Len(roster) < NODE_ROSTER_CAPACITY THEN NewEntry(node)
    ELSE [roster[Oldest(roster)] EXCEPT !.node_num = node]

EntryFor(roster, node) ==
    IF Known(roster, node) THEN roster[Find(roster, node)] ELSE NewEntry(node)

Put(roster, slot, entry) ==
    [i \in DOMAIN roster \cup {slot} |-> IF i = slot THEN entry ELSE roster[i]]

\* Both hop fields zero is not taken for a direct neighbour; uint8_t arithmetic.
WithHops(entry, event) ==
    IF event.hop_start > 0
    THEN [entry EXCEPT !.hops_away = (event.hop_start - event.hop_limit) % 256, !.has_hops = TRUE]
    ELSE entry

\* node_roster_observe
Observed(roster, event, now) ==
    IF event.from = NoNode THEN roster
    ELSE Put(roster, SlotFor(roster, event.from),
             WithHops([EntryFor(roster, event.from) EXCEPT
                         !.rssi = event.rssi, !.last_seen = now, !.packets = @ + 1],
                      event))

WithUser(entry, user) ==
    [entry EXCEPT
        !.long_name  = IF user.long_name  = NoName THEN @ ELSE user.long_name,
        !.short_name = IF user.short_name = NoName THEN @ ELSE user.short_name]

\* node_roster_set_user: an entry made here is seen now, a known one is not.
UserSet(roster, node, user, now) ==
    IF node = NoNode THEN roster
    ELSE LET entry == IF Known(roster, node) THEN EntryFor(roster, node)
                      ELSE [NewEntry(node) EXCEPT !.last_seen = now]
         IN  Put(roster, SlotFor(roster, node), WithUser(entry, user))

\* node_roster_get: the entry that exactly index others rank ahead of.
RanksAhead(roster, j, i) ==
    \/ roster[j].last_seen > roster[i].last_seen
    \/ roster[j].last_seen = roster[i].last_seen /\ j < i

RosterGet(roster, index) ==
    roster[CHOOSE i \in DOMAIN roster :
             Cardinality({j \in DOMAIN roster \ {i} : RanksAhead(roster, j, i)}) = index]

\* What a reader of the whole table sees, most recently heard first.
RosterView(roster) == [i \in DOMAIN roster |-> RosterGet(roster, i - 1)]

=============================================================================

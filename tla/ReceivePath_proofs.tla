-------------------------- MODULE ReceivePath_proofs --------------------------
(***************************************************************************)
(* Proofs about ReceivePath, for tables of any capacity, any frames and    *)
(* any number of them: a scroll position settles on a row that exists,     *)
(* although the rows are counted while the lists change; a draw with the   *)
(* mutex shows the newest texts, and the nodes most recently heard in      *)
(* order, each once and with what was heard from it and from no other.     *)
(***************************************************************************)
EXTENDS ReceivePath, SequenceTheorems, FiniteSetTheorems, WellFoundedInduction, TLAPS

-----------------------------------------------------------------------------
(* The roster's table *)

EntryFields ==
    {"node_num", "rssi", "packets", "last_seen", "long_name", "short_name", "hops_away", "has_hops"}

IsEntry(e) == EntryFields \subseteq DOMAIN e /\ e.last_seen \in Nat

\* A table of n entries.
IsTable(table, n) ==
    /\ n \in Nat /\ n <= NODE_ROSTER_CAPACITY
    /\ Len(table) = n
    /\ DOMAIN table = 1 .. n
    /\ \A i \in 1 .. n : IsEntry(table[i])

IsRoster(table) == \E n \in Nat : IsTable(table, n)

LEMMA LeastOfNats ==
    ASSUME NEW T, T \subseteq Nat, T # {}
    PROVE  \E x \in T : \A y \in T : x <= y
<1>1. \E x \in T : \A y \in T : ~ (<<y, x>> \in OpToRel(<, Nat))
    BY NatLessThanWellFounded, WFMin, Zenon
<1>2. PICK x \in T : \A y \in T : ~ (<<y, x>> \in OpToRel(<, Nat))
    BY <1>1
<1>3. ASSUME NEW y \in T PROVE x <= y
    <2>1. <<y, x>> \in Nat \X Nat
        OBVIOUS
    <2>2. ~(y < x)
        BY <1>2, <2>1 DEF OpToRel
    <2>3. QED
        BY <2>2, SMT
<1>4. QED
    BY <1>3

\* A function on 1 .. n is a sequence of n.
LEMMA LenOfTable ==
    ASSUME NEW n \in Nat, NEW S, NEW table \in [1 .. n -> S]
    PROVE  Len(table) = n
<1>1. table \in Seq(S)
    BY SeqDef
<1>2. Len(table) \in Nat /\ DOMAIN table = 1 .. Len(table)
    BY <1>1, LenProperties
<1>3. QED
    BY <1>2, SMT

\* There is an entry to give up in every full table.
LEMMA OldestInTable ==
    ASSUME NEW table, NEW n \in Nat, n > 0, IsTable(table, n)
    PROVE  /\ Oldest(table) \in 1 .. n
           /\ \A i \in 1 .. n : table[Oldest(table)].last_seen <= table[i].last_seen
<1> DEFINE Seen == {table[i].last_seen : i \in 1 .. n}
<1>1. Seen \subseteq Nat /\ Seen # {}
    <2>1. 1 \in 1 .. n
        BY SMT
    <2>2. QED
        BY <2>1 DEF IsTable, IsEntry
<1>2. PICK t \in Seen : \A u \in Seen : t <= u
    BY <1>1, LeastOfNats
<1> DEFINE First == {i \in 1 .. n : table[i].last_seen = t}
<1>3. First \subseteq Nat /\ First # {}
    BY <1>2
<1>4. PICK i \in First : \A j \in First : i <= j
    BY <1>3, LeastOfNats
<1>5. ASSUME NEW j \in 1 .. n
      PROVE  \/ table[i].last_seen < table[j].last_seen
             \/ table[i].last_seen = table[j].last_seen /\ i <= j
    <2>1. table[i].last_seen = t /\ t \in Nat /\ table[j].last_seen \in Nat /\ t <= table[j].last_seen
        BY <1>1, <1>2, <1>4, <1>5
    <2>2. table[j].last_seen = t => i <= j
        BY <1>4
    <2>3. QED
        BY <2>1, <2>2, SMT
<1>6. i \in DOMAIN table /\ DOMAIN table = 1 .. n
    BY <1>4 DEF IsTable
<1>7. /\ Oldest(table) \in DOMAIN table
      /\ \A j \in DOMAIN table :
            \/ table[Oldest(table)].last_seen < table[j].last_seen
            \/ table[Oldest(table)].last_seen = table[j].last_seen /\ Oldest(table) <= j
    BY <1>5, <1>6, Zenon DEF Oldest
<1>8. \A j \in 1 .. n : table[j].last_seen \in Nat
    BY DEF IsTable, IsEntry
<1>9. QED
    BY <1>6, <1>7, <1>8, SMT

\* A slot to put an entry in: one of the table or the next, if there is one.
LEMMA SlotInTable ==
    ASSUME NEW table, NEW n \in Nat, IsTable(table, n), NEW node
    PROVE  /\ Known(table, node) => Find(table, node) \in 1 .. n
           /\ \/ SlotFor(table, node) \in 1 .. n
              \/ SlotFor(table, node) = n + 1 /\ n + 1 <= NODE_ROSTER_CAPACITY
<1>1. Slots(table, node) \subseteq 1 .. n
    BY DEF Slots, IsTable
<1>2. Known(table, node) => Find(table, node) \in 1 .. n
    <2>1. HAVE Known(table, node)
    <2>2. Slots(table, node) # {} /\ Slots(table, node) \subseteq Nat
        BY <1>1, <2>1 DEF Known
    <2>3. \E i \in Slots(table, node) : \A j \in Slots(table, node) : i <= j
        BY <2>2, LeastOfNats
    <2>4. Find(table, node) \in Slots(table, node)
        BY <2>3, Zenon DEF Find
    <2>5. QED
        BY <1>1, <2>4
<1>3. CASE Known(table, node)
    BY <1>2, <1>3 DEF SlotFor
<1>4. CASE ~Known(table, node) /\ n < NODE_ROSTER_CAPACITY
    BY <1>2, <1>4, RosterCapacityAssumption, SMT DEF SlotFor, IsTable
<1>5. CASE ~Known(table, node) /\ ~(n < NODE_ROSTER_CAPACITY)
    <2>1. n > 0
        BY <1>5, RosterCapacityAssumption, SMT
    <2>2. SlotFor(table, node) = Oldest(table)
        BY <1>5 DEF SlotFor, IsTable
    <2>3. QED
        BY <1>2, <2>1, <2>2, OldestInTable
<1>6. QED
    BY <1>3, <1>4, <1>5

\* Putting an entry into such a slot changes that slot, and never shortens
\* the table.
LEMMA PutInTable ==
    ASSUME NEW table, NEW n \in Nat, IsTable(table, n),
           NEW slot, slot \in 1 .. n \/ (slot = n + 1 /\ n + 1 <= NODE_ROSTER_CAPACITY),
           NEW entry, IsEntry(entry)
    PROVE  LET m   == IF slot = n + 1 THEN n + 1 ELSE n
               new == Put(table, slot, entry)
           IN  /\ IsTable(new, m)
               /\ \A i \in 1 .. m : new[i] = IF i = slot THEN entry ELSE table[i]
<1> DEFINE m == IF slot = n + 1 THEN n + 1 ELSE n
           new == Put(table, slot, entry)
<1>1. m \in Nat /\ m >= n /\ m <= NODE_ROSTER_CAPACITY
    BY SMT DEF IsTable
<1>2. DOMAIN table \cup {slot} = 1 .. m
    <2>1. DOMAIN table = 1 .. n
        BY DEF IsTable
    <2>2. QED
        BY <2>1, SMT
<1>3. new = [i \in 1 .. m |-> IF i = slot THEN entry ELSE table[i]]
    BY <1>2 DEF Put
<1>4. DOMAIN new = 1 .. m
    BY <1>3
<1>5. ASSUME NEW i \in 1 .. m PROVE IsEntry(new[i])
    <2>1. i = slot \/ i \in 1 .. n
        BY <1>1, SMT
    <2>2. new[i] = IF i = slot THEN entry ELSE table[i]
        BY <1>3
    <2>3. QED
        BY <2>1, <2>2 DEF IsTable
<1> DEFINE S == {new[i] : i \in 1 .. m}
<1>6. new \in [1 .. m -> S]
    BY <1>3
<1>7. Len(new) = m
    BY <1>1, <1>6, LenOfTable
<1>8. IsTable(new, m)
    BY <1>1, <1>4, <1>5, <1>7 DEF IsTable
<1>9. QED
    BY <1>3, <1>8

LEMMA PutGrows ==
    ASSUME NEW table, NEW n \in Nat, IsTable(table, n),
           NEW slot, slot \in 1 .. n \/ (slot = n + 1 /\ n + 1 <= NODE_ROSTER_CAPACITY),
           NEW entry, IsEntry(entry)
    PROVE  IsRoster(Put(table, slot, entry)) /\ Len(Put(table, slot, entry)) >= n
<1> DEFINE m == IF slot = n + 1 THEN n + 1 ELSE n
<1>1. IsTable(Put(table, slot, entry), m)
    BY PutInTable
<1>2. m \in Nat /\ m >= n
    BY SMT
<1>3. QED
    BY <1>1, <1>2 DEF IsRoster, IsTable

LEMMA EntryForIsEntry ==
    ASSUME NEW table, NEW n \in Nat, IsTable(table, n), NEW node
    PROVE  IsEntry(EntryFor(table, node)) /\ IsEntry(NewEntry(node))
<1>1. IsEntry(NewEntry(node))
    BY DEF IsEntry, EntryFields, NewEntry
<1>2. Known(table, node) => Find(table, node) \in 1 .. n
    BY SlotInTable
<1>3. QED
    BY <1>1, <1>2 DEF EntryFor, IsTable

\* Neither operation of the roster shortens it, or makes it too long.
LEMMA ObservedGrows ==
    ASSUME NEW table, IsRoster(table), NEW event, NEW time \in Nat
    PROVE  IsRoster(Observed(table, event, time)) /\ Len(Observed(table, event, time)) >= Len(table)
<1>1. PICK n \in Nat : IsTable(table, n)
    BY DEF IsRoster
<1>2. Len(table) = n
    BY <1>1 DEF IsTable
<1> DEFINE old   == EntryFor(table, event.from)
           seen  == [old EXCEPT !.rssi = event.rssi, !.last_seen = time, !.packets = @ + 1]
           entry == WithHops(seen, event)
<1>3. CASE event.from = NoNode
    BY <1>2, <1>3, SMT DEF Observed
<1>4. CASE event.from # NoNode
    <2>1. IsEntry(old)
        BY <1>1, EntryForIsEntry
    <2>2. IsEntry(seen)
        BY <2>1 DEF IsEntry, EntryFields
    <2>3. IsEntry(entry)
        BY <2>2 DEF IsEntry, EntryFields, WithHops
    <2>4. Observed(table, event, time) = Put(table, SlotFor(table, event.from), entry)
        BY <1>4 DEF Observed
    <2>5. QED
        BY <1>1, <1>2, <2>3, <2>4, SlotInTable, PutGrows
<1>5. QED
    BY <1>3, <1>4

LEMMA UserSetGrows ==
    ASSUME NEW table, IsRoster(table), NEW node, NEW user, NEW time \in Nat
    PROVE  IsRoster(UserSet(table, node, user, time)) /\ Len(UserSet(table, node, user, time)) >= Len(table)
<1>1. PICK n \in Nat : IsTable(table, n)
    BY DEF IsRoster
<1>2. Len(table) = n
    BY <1>1 DEF IsTable
<1> DEFINE old   == IF Known(table, node) THEN EntryFor(table, node)
                    ELSE [NewEntry(node) EXCEPT !.last_seen = time]
           entry == WithUser(old, user)
<1>3. CASE node = NoNode
    BY <1>2, <1>3, SMT DEF UserSet
<1>4. CASE node # NoNode
    <2>1. IsEntry([NewEntry(node) EXCEPT !.last_seen = time])
        BY DEF IsEntry, EntryFields, NewEntry
    <2>2. IsEntry(old)
        BY <1>1, <2>1, EntryForIsEntry
    <2>3. IsEntry(entry)
        BY <2>2 DEF IsEntry, EntryFields, WithUser
    <2>4. UserSet(table, node, user, time) = Put(table, SlotFor(table, node), entry)
        BY <1>4 DEF UserSet
    <2>5. QED
        BY <1>1, <1>2, <2>3, <2>4, SlotInTable, PutGrows
<1>5. QED
    BY <1>3, <1>4

-----------------------------------------------------------------------------
(* The message ring *)

IsRing(ring) ==
    /\ {"count", "head"} \subseteq DOMAIN ring
    /\ ring.count \in Nat /\ ring.count <= MESSAGE_RING_CAPACITY
    /\ ring.head \in Nat /\ ring.head < MESSAGE_RING_CAPACITY

LEMMA RingGrows ==
    ASSUME NEW ring, IsRing(ring), NEW event
    PROVE  /\ IsRing(RingFilled(ring, event)) /\ RingFilled(ring, event).count = ring.count
           /\ IsRing(RingAdvanced(ring)) /\ RingAdvanced(ring).count >= ring.count
<1>1. IsRing(RingFilled(ring, event)) /\ RingFilled(ring, event).count = ring.count
    BY DEF IsRing, RingFilled
<1> DEFINE next == RingAdvanced(ring)
<1>2. /\ DOMAIN next = DOMAIN ring
      /\ next.head = (ring.head + 1) % MESSAGE_RING_CAPACITY
      /\ next.count = IF ring.count < MESSAGE_RING_CAPACITY THEN ring.count + 1 ELSE ring.count
    BY DEF IsRing, RingAdvanced
<1>3. IsRing(next) /\ next.count >= ring.count
    BY <1>2, RingCapacityAssumption, SMT DEF IsRing
<1>4. QED
    BY <1>1, <1>3

-----------------------------------------------------------------------------
(* The position *)

(* The lists only grow, so a number of rows counted too early is at worst  *)
(* too small, and a position clamped to it is on a row.                    *)
RowInv ==
    /\ IsRoster(roster)
    /\ IsRing(messages)
    /\ now \in Nat
    /\ scroll \in Nat
    /\ rows \in Nat
    /\ ui \in {"wait", "turned", "count", "clamp"}
    /\ ui = "clamp" => rows <= Rows(page)
    /\ ui = "wait" /\ scroll > 0 => scroll < Rows(page)

LEMMA RowsAreNat ==
    ASSUME IsRoster(roster), IsRing(messages), NEW p
    PROVE  Rows(p) \in Nat
<1>1. Len(roster) \in Nat /\ messages.count \in Nat
    BY DEF IsRoster, IsTable, IsRing
<1>2. QED
    BY <1>1 DEF Rows

LEMMA RowsInitially == Init => RowInv
<1> SUFFICES ASSUME Init PROVE RowInv
    OBVIOUS
<1>1. IsTable(<<>>, 0)
    BY RosterCapacityAssumption, SMT DEF IsTable
<1>2. IsRoster(roster)
    BY <1>1 DEF Init, IsRoster
<1>3. IsRing(messages)
    BY RingCapacityAssumption, SMT DEF Init, EmptyRing, IsRing
<1>4. now \in Nat
    BY ReceiveAssumption DEF Init
<1>5. QED
    BY <1>2, <1>3, <1>4 DEF Init, RowInv

\* Whatever the radio thread does, no page loses a row.
LEMMA RadioKeepsRows ==
    ASSUME RowInv, RadioThread
    PROVE  /\ IsRoster(roster') /\ IsRing(messages') /\ now' \in Nat
           /\ Len(roster') >= Len(roster)
           /\ messages'.count >= messages.count
           /\ UNCHANGED viewVars
<1>1. Len(roster) \in Nat /\ messages.count \in Nat
    BY DEF RowInv, IsRoster, IsTable, IsRing
<1>2. ASSUME NEW frame \in Frame, Poll(frame)
      PROVE  /\ now' \in Nat
             /\ UNCHANGED <<roster, messages, viewVars>>
    BY <1>2, ReceiveAssumption, SMT DEF Poll, modelVars, RowInv
<1>3. CASE CountFrame \/ IgnoreEvent
    BY <1>1, <1>3, SMT DEF CountFrame, IgnoreEvent, modelVars, RowInv
<1>4. CASE FillSlot
    <2>1. messages' = RingFilled(messages, rx_event) /\ UNCHANGED <<roster, now, viewVars>>
        BY <1>4 DEF FillSlot
    <2>2. IsRing(messages') /\ messages'.count = messages.count
        BY <2>1, RingGrows DEF RowInv
    <2>3. QED
        BY <1>1, <2>1, <2>2, SMT DEF RowInv
<1>5. CASE AdvanceRing
    BY <1>1, <1>5, RingGrows, SMT DEF AdvanceRing, RowInv
<1>6. CASE ObserveNode
    BY <1>1, <1>6, ObservedGrows, SMT DEF ObserveNode, RowInv
<1>7. CASE NameNode
    BY <1>1, <1>7, UserSetGrows, SMT DEF NameNode, RowInv
<1>8. QED
    BY <1>1, <1>2, <1>3, <1>4, <1>5, <1>6, <1>7, SMT DEF RadioThread, RowInv

LEMMA RowsRadioStep ==
    ASSUME RowInv, RadioThread
    PROVE  RowInv'
<1>1. /\ IsRoster(roster') /\ IsRing(messages') /\ now' \in Nat
      /\ UNCHANGED <<page, scroll, ui, rows>>
    BY RadioKeepsRows DEF viewVars
<1>2. Rows(page) \in Nat /\ Rows(page)' \in Nat /\ Rows(page)' >= Rows(page)
    <2>1. Rows(page) \in Nat
        BY RowsAreNat DEF RowInv
    <2>2. Len(roster) \in Nat /\ Len(roster') \in Nat /\ messages.count \in Nat /\ messages'.count \in Nat
        BY <1>1 DEF RowInv, IsRoster, IsTable, IsRing
    <2>3. QED
        BY <1>1, <2>1, <2>2, RadioKeepsRows, SMT DEF Rows
<1>3. QED
    BY <1>1, <1>2, SMT DEF RowInv

LEMMA RowsViewStep ==
    ASSUME RowInv, MainLoop \/ UNCHANGED vars
    PROVE  RowInv'
<1> DEFINE here == Rows(page)
<1>1. UNCHANGED <<roster, messages, now>>
    BY DEF MainLoop, Turn, ResetScroll, ScrollUp, ScrollDown, CountRows, ClampScroll, vars, modelVars, radioVars
<1>2. IsRoster(roster)' /\ IsRing(messages)' /\ now' \in Nat /\ here \in Nat
    BY <1>1, RowsAreNat DEF RowInv
<1>3. page' = page => Rows(page)' = here
    BY <1>1 DEF Rows
<1> HIDE DEF here
<1>4. CASE Turn(1) \/ Turn(PageCount - 1) \/ ResetScroll
    BY <1>2, <1>4 DEF RowInv, Turn, ResetScroll
<1>5. CASE ScrollUp
    BY <1>2, <1>3, <1>5, SMT DEF RowInv, ScrollUp, here
<1>6. CASE ScrollDown
    BY <1>2, <1>6 DEF RowInv, ScrollDown
<1>7. CASE CountRows
    BY <1>2, <1>3, <1>7 DEF RowInv, CountRows, here
<1>8. CASE ClampScroll
    BY <1>2, <1>3, <1>8, SMT DEF RowInv, ClampScroll, here
<1>9. CASE UNCHANGED vars
    BY <1>2, <1>3, <1>9 DEF RowInv, vars, viewVars, here
<1>10. QED
    BY <1>4, <1>5, <1>6, <1>7, <1>8, <1>9 DEF MainLoop

(* Once an input has been handled the position is on a row, although the   *)
(* rows are counted at any point of the radio thread's critical section.   *)
THEOREM PositionOnRow == Spec => []ScrollWithinRows
<1>1. RowInv /\ [Next]_vars => RowInv'
    BY RowsRadioStep, RowsViewStep DEF Next
<1>2. RowInv => ScrollWithinRows
    BY DEF RowInv, ScrollWithinRows
<1>3. QED
    BY RowsInitially, <1>1, <1>2, PTL DEF Spec

-----------------------------------------------------------------------------
(* Ranks *)

\* The elements that R puts ahead of k.
AheadIn(S, R, k) == {m \in S : <<m, k>> \in R}

(* Ranking a finite set by a strict order leaves no rank out: of n         *)
(* elements one is first, one has one ahead of it, and so on.              *)
LEMMA RankExists ==
    ASSUME NEW S, IsFiniteSet(S), NEW R,
           \A a \in S : <<a, a>> \notin R,
           \A a, b \in S : a # b => <<a, b>> \in R \/ <<b, a>> \in R,
           \A a, b, c \in S : <<a, b>> \in R /\ <<b, c>> \in R => <<a, c>> \in R,
           NEW i \in 0 .. Cardinality(S) - 1
    PROVE  \E k \in S : Cardinality(AheadIn(S, R, k)) = i
<1> DEFINE n        == Cardinality(S)
           Ahead(k) == {m \in S : <<m, k>> \in R}
           rank     == [k \in S |-> Cardinality(Ahead(k))]
           T        == 0 .. n - 1
<1>1. n \in Nat
    BY FS_CardinalityType
<1>2. ASSUME NEW k \in S
      PROVE  IsFiniteSet(Ahead(k)) /\ Cardinality(Ahead(k)) \in Nat
    <2>1. IsFiniteSet(Ahead(k))
        BY FS_Subset
    <2>2. QED
        BY <2>1, FS_CardinalityType
<1>3. ASSUME NEW a \in S, NEW b \in S, <<a, b>> \in R
      PROVE  Cardinality(Ahead(a)) < Cardinality(Ahead(b))
    <2>1. a \notin Ahead(a)
        OBVIOUS
    <2>2. Cardinality(Ahead(a) \cup {a}) = Cardinality(Ahead(a)) + 1
        BY <1>2, <2>1, FS_AddElement
    <2>3. Ahead(a) \cup {a} \subseteq Ahead(b)
        BY <1>3
    <2>4. Cardinality(Ahead(a) \cup {a}) <= Cardinality(Ahead(b))
        BY <1>2, <2>3, FS_Subset
    <2>5. Cardinality(Ahead(a)) \in Nat /\ Cardinality(Ahead(b)) \in Nat
        BY <1>2
    <2> HIDE DEF Ahead
    <2>6. QED
        BY <2>2, <2>4, <2>5, SMT
<1>4. ASSUME NEW k \in S
      PROVE  Cardinality(Ahead(k)) \in T
    <2>1. k \notin Ahead(k)
        OBVIOUS
    <2>2. Cardinality(Ahead(k) \cup {k}) = Cardinality(Ahead(k)) + 1
        BY <1>2, <2>1, FS_AddElement
    <2>3. Ahead(k) \cup {k} \subseteq S
        OBVIOUS
    <2>4. Cardinality(Ahead(k) \cup {k}) <= n
        BY <2>3, FS_Subset
    <2>5. Cardinality(Ahead(k)) \in Nat
        BY <1>2
    <2> HIDE DEF Ahead, n
    <2>6. QED
        BY <1>1, <2>2, <2>4, <2>5, SMT
<1>5. rank \in Injection(S, T)
    <2>1. rank \in [S -> T]
        BY <1>4
    <2>2. ASSUME NEW a \in S, NEW b \in S, a # b
          PROVE  rank[a] # rank[b]
        <3>1. <<a, b>> \in R \/ <<b, a>> \in R
            BY <2>2
        <3>2. Cardinality(Ahead(a)) < Cardinality(Ahead(b)) \/ Cardinality(Ahead(b)) < Cardinality(Ahead(a))
            BY <1>3, <3>1
        <3>3. Cardinality(Ahead(a)) \in Nat /\ Cardinality(Ahead(b)) \in Nat
            BY <1>2
        <3>4. Cardinality(Ahead(a)) # Cardinality(Ahead(b))
            <4> HIDE DEF Ahead
            <4>1. QED
                BY <3>2, <3>3, SMT
        <3>5. QED
            BY <3>4
    <2>3. QED
        BY <2>1, <2>2 DEF Injection, IsInjective
<1>6. IsFiniteSet(T) /\ Cardinality(T) = n
    <2>1. 0 \in Int /\ n - 1 \in Int /\ (IF 0 > n - 1 THEN 0 ELSE n - 1 - 0 + 1) = n
        BY <1>1, SMT
    <2>2. QED
        BY <2>1, FS_Interval
<1>7. rank \in Surjection(S, T)
    BY <1>5, <1>6, FS_Injection
<1>8. PICK k \in S : rank[k] = i
    BY <1>7 DEF Surjection
<1>9. QED
    BY <1>8 DEF AheadIn


-----------------------------------------------------------------------------
(* The history *)

LEMMA Appended ==
    ASSUME NEW h \in Seq(Frame), NEW f \in Frame
    PROVE  /\ Append(h, f) \in Seq(Frame)
           /\ Len(h) \in Nat /\ Len(Append(h, f)) = Len(h) + 1
           /\ Append(h, f)[Len(h) + 1] = f
           /\ \A k \in 1 .. Len(h) : Append(h, f)[k] = h[k]
BY SMT

LEMMA TextsType ==
    ASSUME NEW h \in Seq(Frame)
    PROVE  /\ TextsIn(h) \subseteq 1 .. Len(h)
           /\ IsFiniteSet(TextsIn(h))
           /\ Cardinality(TextsIn(h)) \in Nat
<1>1. TextsIn(h) \subseteq 1 .. Len(h)
    BY DEF TextsIn
<1>2. IsFiniteSet(1 .. Len(h))
    BY LenProperties, FS_Interval
<1>3. QED
    BY <1>1, <1>2, FS_Subset, FS_CardinalityType

LEMMA NthNewestExists ==
    ASSUME NEW S, S \subseteq Nat, IsFiniteSet(S), NEW i \in 1 .. Cardinality(S)
    PROVE  NthNewest(S, i) \in S
<1> DEFINE R == {p \in S \X S : p[1] > p[2]}
<1>1. \A a, b \in S : <<a, b>> \in R <=> a > b
    OBVIOUS
<1>2. /\ \A a \in S : <<a, a>> \notin R
      /\ \A a, b \in S : a # b => <<a, b>> \in R \/ <<b, a>> \in R
      /\ \A a, b, c \in S : <<a, b>> \in R /\ <<b, c>> \in R => <<a, c>> \in R
    <2> HIDE DEF R
    <2>1. QED
        BY <1>1, SMT
<1> HIDE DEF R
<1>3. i - 1 \in 0 .. Cardinality(S) - 1
    BY FS_CardinalityType, SMT
<1>4. PICK k \in S : Cardinality(AheadIn(S, R, k)) = i - 1
    BY <1>2, <1>3, RankExists
<1>5. AheadIn(S, R, k) = {m \in S : m > k}
    BY <1>1 DEF AheadIn
<1>6. k \in {l \in S : Cardinality({m \in S : m > l}) = i - 1}
    BY <1>4, <1>5
<1>7. QED
    BY <1>6 DEF NthNewest

\* A text becomes the newest; the others move one place on.
LEMMA TextAppended ==
    ASSUME NEW h \in Seq(Frame), NEW f \in Frame, IsText(f)
    PROVE  LET old == TextsIn(h)
               new == TextsIn(Append(h, f))
           IN  /\ Cardinality(new) = Cardinality(old) + 1
               /\ NthNewest(new, 1) = Len(h) + 1
               /\ \A i \in 1 .. Cardinality(old) : NthNewest(new, i + 1) = NthNewest(old, i)
<1> DEFINE old  == TextsIn(h)
           new  == TextsIn(Append(h, f))
           last == Len(h) + 1
           Later(S, l) == {m \in S : m > l}
<1>1. old \subseteq 1 .. Len(h) /\ IsFiniteSet(old) /\ Cardinality(old) \in Nat /\ Len(h) \in Nat
    BY TextsType, LenProperties
<1>2. new = old \cup {last}
    BY Appended, SMT DEF TextsIn, IsText
<1>3. last \notin old /\ \A l \in old : l < last
    BY <1>1, SMT
<1>4. Cardinality(new) = Cardinality(old) + 1
    BY <1>1, <1>2, <1>3, FS_AddElement
<1> HIDE DEF old, new
<1>5. Later(new, last) = {} /\ Cardinality({}) = 0
    <2>1. \A l \in new : ~(l > last)
        BY <1>1, <1>2, <1>3, SMT
    <2>2. QED
        BY <2>1, FS_EmptySet, Zenon
<1>6. ASSUME NEW l \in old
      PROVE  /\ Cardinality(Later(old, l)) \in Nat
             /\ Cardinality(Later(new, l)) = Cardinality(Later(old, l)) + 1
    <2>1. Later(new, l) = Later(old, l) \cup {last} /\ last \notin Later(old, l)
        BY <1>1, <1>2, <1>3, SMT
    <2>2. IsFiniteSet(Later(old, l))
        BY <1>1, FS_Subset
    <2>3. Cardinality(Later(old, l) \cup {last}) = Cardinality(Later(old, l)) + 1
        BY <2>1, <2>2, FS_AddElement
    <2>4. QED
        BY <2>1, <2>2, <2>3, FS_CardinalityType
<1> HIDE DEF Later
<1>7. NthNewest(new, 1) = last
    <2>1. {l \in new : Cardinality(Later(new, l)) = 0} = {last}
        <3>1. \A l \in old : Cardinality(Later(new, l)) # 0
            BY <1>6, SMT
        <3>2. QED
            BY <1>2, <1>5, <3>1
    <2>2. 1 - 1 = 0
        BY SMT
    <2>3. NthNewest(new, 1) = CHOOSE k \in {last} : TRUE
        BY <2>1, <2>2 DEF NthNewest, Later
    <2>4. QED
        BY <2>3
<1>8. ASSUME NEW i \in 1 .. Cardinality(old)
      PROVE  NthNewest(new, i + 1) = NthNewest(old, i)
    <2>1. (i + 1) - 1 = i /\ i # 0
        BY SMT
    <2>2. \A l \in old : Cardinality(Later(new, l)) = i <=> Cardinality(Later(old, l)) = i - 1
        BY <1>6, SMT
    <2>3. {l \in new : Cardinality(Later(new, l)) = i} = {l \in old : Cardinality(Later(old, l)) = i - 1}
        BY <1>2, <1>5, <2>1, <2>2
    <2>4. QED
        BY <2>1, <2>3 DEF NthNewest, Later
<1>9. QED
    BY <1>4, <1>7, <1>8 DEF old, new

LEMMA OtherAppended ==
    ASSUME NEW h \in Seq(Frame), NEW f \in Frame, ~IsText(f)
    PROVE  TextsIn(Append(h, f)) = TextsIn(h)
BY Appended, SMT DEF TextsIn, IsText

-----------------------------------------------------------------------------
(* What the ring shows *)

IsFullRing(ring) ==
    /\ {"items", "count", "head"} \subseteq DOMAIN ring
    /\ DOMAIN ring.items = 0 .. MESSAGE_RING_CAPACITY - 1
    /\ ring.count \in 0 .. MESSAGE_RING_CAPACITY
    /\ ring.head \in 0 .. MESSAGE_RING_CAPACITY - 1

\* The place in which RingGet looks for the message of an index.
PlaceOf(head, index) == (head + MESSAGE_RING_CAPACITY - 1 - index) % MESSAGE_RING_CAPACITY

\* Within one turn of the ring a remainder is at most one subtraction.
LEMMA RingRemainder ==
    /\ \A x \in 0 .. MESSAGE_RING_CAPACITY - 1 : x % MESSAGE_RING_CAPACITY = x
    /\ \A x \in MESSAGE_RING_CAPACITY .. 2 * MESSAGE_RING_CAPACITY - 1 :
           x % MESSAGE_RING_CAPACITY = x - MESSAGE_RING_CAPACITY
BY RingCapacityAssumption, SMT

(* Once head has moved on, the slot it stood at is the first place, every  *)
(* place follows the one before it, and the slot was none of these unless  *)
(* the ring is all read.                                                   *)
LEMMA PlaceAfterAdvance ==
    ASSUME NEW head \in 0 .. MESSAGE_RING_CAPACITY - 1
    PROVE  LET next == (head + 1) % MESSAGE_RING_CAPACITY
           IN  /\ next \in 0 .. MESSAGE_RING_CAPACITY - 1
               /\ PlaceOf(next, 0) = head
               /\ \A i \in 1 .. MESSAGE_RING_CAPACITY - 1 :
                      /\ PlaceOf(next, i) = PlaceOf(head, i - 1)
                      /\ PlaceOf(head, i - 1) \in 0 .. MESSAGE_RING_CAPACITY - 1
                      /\ PlaceOf(head, i - 1) # head
<1> DEFINE C    == MESSAGE_RING_CAPACITY
           next == (head + 1) % C
<1>1. C \in Nat /\ C > 0
    BY RingCapacityAssumption
<1>2. /\ \A x \in 0 .. C - 1 : x % C = x
      /\ \A x \in C .. 2 * C - 1 : x % C = x - C
    BY RingRemainder
<1> HIDE DEF C
<1>3. head \in 0 .. C - 1
    BY DEF C
<1>4. next = IF head + 1 < C THEN head + 1 ELSE 0
    <2>1. head + 1 \in 0 .. C - 1 \/ (head + 1 = C /\ C \in C .. 2 * C - 1 /\ C - C = 0)
        BY <1>1, <1>3, SMT
    <2>2. head + 1 \in 0 .. C - 1 => head + 1 < C
        BY <1>1, SMT
    <2>3. head + 1 = C => ~(head + 1 < C)
        BY <1>1, SMT
    <2>4. QED
        BY <1>2, <2>1, <2>2, <2>3
<1> HIDE DEF next
<1>5. ASSUME NEW h \in 0 .. C - 1, NEW i \in 0 .. C - 1
      PROVE  PlaceOf(h, i) = IF i < h THEN h - (i + 1) ELSE (h + C) - (i + 1)
    <2> DEFINE x == h + C - 1 - i
    <2>1. x \in Int /\ x = (h + C) - (i + 1)
        BY <1>1, SMT
    <2>2. PlaceOf(h, i) = x % C
        BY DEF PlaceOf, C
    <2> HIDE DEF x
    <2>3. CASE i < h
        <3>1. x \in C .. 2 * C - 1 /\ x - C = h - (i + 1)
            BY <1>1, <2>1, <2>3, SMT
        <3>2. QED
            BY <1>2, <2>2, <2>3, <3>1
    <2>4. CASE ~(i < h)
        <3>1. x \in 0 .. C - 1
            BY <1>1, <2>1, <2>4, SMT
        <3>2. QED
            BY <1>2, <2>1, <2>2, <2>4, <3>1
    <2>5. QED
        BY <2>3, <2>4
<1>6. next \in 0 .. C - 1 /\ PlaceOf(next, 0) = head
    <2>1. next \in 0 .. C - 1 /\ 0 \in 0 .. C - 1
        BY <1>1, <1>3, <1>4, SMT
    <2>2. PlaceOf(next, 0) = IF 0 < next THEN next - (0 + 1) ELSE (next + C) - (0 + 1)
        BY <1>5, <2>1
    <2>3. QED
        BY <1>1, <1>3, <1>4, <2>1, <2>2, SMT
<1>7. ASSUME NEW i \in 1 .. C - 1
      PROVE  PlaceOf(next, i) = PlaceOf(head, i - 1) /\ PlaceOf(head, i - 1) \in 0 .. C - 1 /\ PlaceOf(head, i - 1) # head
    <2>1. i \in 0 .. C - 1 /\ i - 1 \in 0 .. C - 1
        BY <1>1, SMT
    <2>2. PlaceOf(next, i) = IF i < next THEN next - (i + 1) ELSE (next + C) - (i + 1)
        BY <1>5, <1>6, <2>1
    <2>3. PlaceOf(head, i - 1) = IF i - 1 < head THEN head - ((i - 1) + 1) ELSE (head + C) - ((i - 1) + 1)
        BY <1>3, <1>5, <2>1
    <2>4. QED
        BY <1>1, <1>3, <1>4, <2>2, <2>3, SMT
<1>8. QED
    BY <1>6, <1>7 DEF next, C

\* RingGet of a ring that had a slot filled and moved its head on.
LEMMA GetAfterPush ==
    ASSUME NEW ring, IsFullRing(ring), NEW event
    PROVE  LET filled   == RingFilled(ring, event)
               advanced == RingAdvanced(ring)
           IN  /\ IsFullRing(filled) /\ filled.count = ring.count
               /\ filled.items[filled.head] = MessageOf(event)
               /\ \A i \in 1 .. MESSAGE_RING_CAPACITY - 1 : RingGet(filled, i - 1) = RingGet(ring, i - 1)
               /\ IsFullRing(advanced)
               /\ advanced.count = IF ring.count < MESSAGE_RING_CAPACITY THEN ring.count + 1 ELSE ring.count
               /\ RingGet(advanced, 0) = ring.items[ring.head]
               /\ \A i \in 1 .. MESSAGE_RING_CAPACITY - 1 : RingGet(advanced, i) = RingGet(ring, i - 1)
<1> DEFINE filled   == RingFilled(ring, event)
           advanced == RingAdvanced(ring)
           head     == ring.head
           next     == (head + 1) % MESSAGE_RING_CAPACITY
<1>1. \A r, i : RingGet(r, i) = r.items[PlaceOf(r.head, i)]
    BY DEF RingGet, PlaceOf
<1>2. head \in 0 .. MESSAGE_RING_CAPACITY - 1 /\ DOMAIN ring.items = 0 .. MESSAGE_RING_CAPACITY - 1
    BY DEF IsFullRing
<1>3. /\ DOMAIN filled = DOMAIN ring
      /\ filled.items = [ring.items EXCEPT ![head] = MessageOf(event)]
      /\ filled.count = ring.count
      /\ filled.head = head
    BY DEF IsFullRing, RingFilled
<1>4. /\ DOMAIN advanced = DOMAIN ring
      /\ advanced.items = ring.items
      /\ advanced.head = next
      /\ advanced.count = IF ring.count < MESSAGE_RING_CAPACITY THEN ring.count + 1 ELSE ring.count
    BY DEF IsFullRing, RingAdvanced
<1> HIDE DEF filled, advanced
<1>5. /\ next \in 0 .. MESSAGE_RING_CAPACITY - 1
      /\ PlaceOf(next, 0) = head
      /\ \A i \in 1 .. MESSAGE_RING_CAPACITY - 1 :
             /\ PlaceOf(next, i) = PlaceOf(head, i - 1)
             /\ PlaceOf(head, i - 1) \in 0 .. MESSAGE_RING_CAPACITY - 1
             /\ PlaceOf(head, i - 1) # head
    BY <1>2, PlaceAfterAdvance
<1> HIDE DEF head, next
<1>6. DOMAIN filled.items = 0 .. MESSAGE_RING_CAPACITY - 1 /\ filled.items[head] = MessageOf(event)
    BY <1>2, <1>3
<1>7. \A i \in 1 .. MESSAGE_RING_CAPACITY - 1 : RingGet(filled, i - 1) = RingGet(ring, i - 1)
    <2>1. TAKE i \in 1 .. MESSAGE_RING_CAPACITY - 1
    <2>2. PlaceOf(head, i - 1) \in DOMAIN ring.items /\ PlaceOf(head, i - 1) # head
        BY <1>2, <1>5
    <2>3. filled.items[PlaceOf(head, i - 1)] = ring.items[PlaceOf(head, i - 1)]
        BY <1>3, <2>2
    <2>4. QED
        BY <1>1, <1>3, <2>3 DEF head
<1>8. IsFullRing(filled)
    BY <1>2, <1>3, <1>6 DEF IsFullRing, head
<1>9. advanced.count \in 0 .. MESSAGE_RING_CAPACITY
    BY <1>4, RingCapacityAssumption, SMT DEF IsFullRing
<1>10. IsFullRing(advanced)
    BY <1>2, <1>4, <1>5, <1>9 DEF IsFullRing
<1>11. RingGet(advanced, 0) = ring.items[head]
    BY <1>1, <1>4, <1>5
<1>12. \A i \in 1 .. MESSAGE_RING_CAPACITY - 1 : RingGet(advanced, i) = RingGet(ring, i - 1)
    BY <1>1, <1>4, <1>5 DEF head
<1>13. QED
    BY <1>3, <1>4, <1>6, <1>7, <1>8, <1>10, <1>11, <1>12 DEF filled, advanced, head

\* The ith newest text of some frames, and how many of them a ring shows.
NthText(frames, i) == MessageOf(frames[NthNewest(TextsIn(frames), i)])
TextsShown(frames) == Smaller(Cardinality(TextsIn(frames)), MESSAGE_RING_CAPACITY)

Shows(ring, frames) ==
    /\ ring.count = TextsShown(frames)
    /\ \A i \in 1 .. ring.count : RingGet(ring, i - 1) = NthText(frames, i)

\* A ring whose next slot is filled still shows all but its oldest message.
HalfShows(ring, frames, event) ==
    /\ ring.items[ring.head] = MessageOf(event)
    /\ ring.count = TextsShown(frames)
    /\ \A i \in 1 .. Smaller(ring.count, MESSAGE_RING_CAPACITY - 1) : RingGet(ring, i - 1) = NthText(frames, i)

LEMMA NthTextKept ==
    ASSUME NEW h \in Seq(Frame), NEW f \in Frame, NEW i \in 1 .. Cardinality(TextsIn(h))
    PROVE  /\ IsText(f) => NthText(Append(h, f), i + 1) = NthText(h, i)
           /\ ~IsText(f) => NthText(Append(h, f), i) = NthText(h, i)
<1> DEFINE k == NthNewest(TextsIn(h), i)
<1>1. k \in 1 .. Len(h)
    <2>1. TextsIn(h) \subseteq 1 .. Len(h) /\ IsFiniteSet(TextsIn(h)) /\ TextsIn(h) \subseteq Nat
        BY TextsType, SMT
    <2>2. k \in TextsIn(h)
        BY <2>1, NthNewestExists
    <2>3. QED
        BY <2>1, <2>2
<1>2. Append(h, f)[k] = h[k]
    BY <1>1, Appended
<1>3. IsText(f) => NthNewest(TextsIn(Append(h, f)), i + 1) = k
    BY TextAppended
<1>4. ~IsText(f) => NthNewest(TextsIn(Append(h, f)), i) = k
    BY OtherAppended
<1>5. QED
    BY <1>2, <1>3, <1>4 DEF NthText

LEMMA ShowsFilled ==
    ASSUME NEW ring, IsFullRing(ring), NEW h, NEW f, Shows(ring, h)
    PROVE  HalfShows(RingFilled(ring, f), h, f)
<1> DEFINE filled == RingFilled(ring, f)
<1>1. /\ filled.count = ring.count
      /\ filled.items[filled.head] = MessageOf(f)
      /\ \A i \in 1 .. MESSAGE_RING_CAPACITY - 1 : RingGet(filled, i - 1) = RingGet(ring, i - 1)
    BY GetAfterPush
<1> HIDE DEF filled
<1>2. \A i \in 1 .. Smaller(ring.count, MESSAGE_RING_CAPACITY - 1) :
          i \in 1 .. MESSAGE_RING_CAPACITY - 1 /\ i \in 1 .. ring.count
    BY RingCapacityAssumption, SMT DEF Smaller, IsFullRing
<1>3. HalfShows(filled, h, f)
    BY <1>1, <1>2 DEF Shows, HalfShows
<1>4. QED
    BY <1>3 DEF filled

LEMMA HalfShowsAdvanced ==
    ASSUME NEW ring, IsFullRing(ring), NEW h \in Seq(Frame), NEW f \in Frame, IsText(f), HalfShows(ring, h, f)
    PROVE  Shows(RingAdvanced(ring), Append(h, f))
<1> DEFINE advanced == RingAdvanced(ring)
           C        == MESSAGE_RING_CAPACITY
           c        == Cardinality(TextsIn(h))
<1>1. /\ advanced.count = IF ring.count < C THEN ring.count + 1 ELSE ring.count
      /\ RingGet(advanced, 0) = ring.items[ring.head]
      /\ \A i \in 1 .. C - 1 : RingGet(advanced, i) = RingGet(ring, i - 1)
    BY GetAfterPush
<1> HIDE DEF advanced
<1>2. c \in Nat /\ Cardinality(TextsIn(Append(h, f))) = c + 1 /\ C \in Nat /\ C > 0
    BY TextsType, TextAppended, RingCapacityAssumption
<1>3. ring.count = Smaller(c, C)
    BY DEF HalfShows, TextsShown
<1> HIDE DEF c, C
<1>4. advanced.count = Smaller(c + 1, C)
    BY <1>1, <1>2, <1>3, SMT DEF Smaller
<1>5. RingGet(advanced, 0) = NthText(Append(h, f), 1)
    <2>1. NthNewest(TextsIn(Append(h, f)), 1) = Len(h) + 1 /\ Append(h, f)[Len(h) + 1] = f
        BY TextAppended, Appended
    <2>2. RingGet(advanced, 0) = MessageOf(f)
        BY <1>1 DEF HalfShows
    <2>3. QED
        BY <2>1, <2>2 DEF NthText
<1>6. ASSUME NEW i \in 1 .. advanced.count
      PROVE  RingGet(advanced, i - 1) = NthText(Append(h, f), i)
    <2>1. CASE i = 1
        BY <1>5, <2>1, SMT
    <2>2. CASE i # 1
        <3>1. /\ i - 1 \in 1 .. C - 1
              /\ i - 1 \in 1 .. Smaller(ring.count, C - 1)
              /\ i - 1 \in 1 .. c
              /\ (i - 1) + 1 = i
            BY <1>2, <1>3, <1>4, <2>2, SMT DEF Smaller
        <3>2. RingGet(advanced, i - 1) = RingGet(ring, (i - 1) - 1)
            BY <1>1, <3>1
        <3>3. RingGet(ring, (i - 1) - 1) = NthText(h, i - 1)
            BY <3>1 DEF HalfShows, C
        <3>4. NthText(Append(h, f), (i - 1) + 1) = NthText(h, i - 1)
            BY <3>1, NthTextKept DEF c
        <3>5. QED
            BY <3>1, <3>2, <3>3, <3>4
    <2>3. QED
        BY <2>1, <2>2
<1>7. QED
    BY <1>2, <1>4, <1>6 DEF Shows, TextsShown, advanced, C

LEMMA ShowsOther ==
    ASSUME NEW ring, IsFullRing(ring), NEW h \in Seq(Frame), NEW f \in Frame, ~IsText(f), Shows(ring, h)
    PROVE  Shows(ring, Append(h, f))
<1>1. TextsShown(Append(h, f)) = TextsShown(h)
    BY OtherAppended DEF TextsShown
<1>2. \A i \in 1 .. ring.count : i \in 1 .. Cardinality(TextsIn(h))
    BY TextsType, RingCapacityAssumption, SMT DEF Shows, TextsShown, Smaller
<1>3. QED
    BY <1>1, <1>2, NthTextKept DEF Shows

(* Up to the push the ring shows the frames taken in before, and after it  *)
(* the one being taken in as well; in between its next slot is filled.     *)
MessagesInv ==
    /\ IsFullRing(messages)
    /\ heard \in Seq(Frame)
    /\ radio # "poll" => rx_event \in Frame
    /\ radio \in {"poll", "acquire", "push", "advance", "observe", "name"}
    /\ radio \in {"poll", "acquire", "push"} => Shows(messages, heard)
    /\ radio = "advance" => IsText(rx_event) /\ HalfShows(messages, heard, rx_event)
    /\ radio \in {"observe", "name"} => Shows(messages, Append(heard, rx_event))

LEMMA MessagesInitially == Init => MessagesInv
<1> SUFFICES ASSUME Init PROVE MessagesInv
    OBVIOUS
<1>1. heard \in Seq(Frame) /\ Len(heard) = 0
    BY EmptySeq DEF Init
<1>2. IsFullRing(messages) /\ messages.count = 0
    BY RingCapacityAssumption, SMT DEF Init, EmptyRing, IsFullRing
<1>3. TextsIn(heard) = {}
    BY <1>1, SMT DEF TextsIn
<1>4. TextsShown(heard) = 0
    <2>1. Cardinality(TextsIn(heard)) = 0
        BY <1>3, FS_EmptySet
    <2>2. QED
        BY <2>1, RingCapacityAssumption, SMT DEF TextsShown, Smaller
<1>5. Shows(messages, heard)
    BY <1>2, <1>4, SMT DEF Shows
<1>6. QED
    BY <1>1, <1>2, <1>5 DEF Init, MessagesInv

LEMMA MessagesStep == MessagesInv /\ [Next]_vars => MessagesInv'
<1> SUFFICES ASSUME MessagesInv, [Next]_vars PROVE MessagesInv'
    OBVIOUS
<1>1. ASSUME NEW frame \in Frame, Poll(frame) PROVE MessagesInv'
    BY <1>1 DEF Poll, modelVars, MessagesInv
<1>2. CASE CountFrame
    BY <1>2 DEF CountFrame, MessagesInv
<1>3. CASE FillSlot
    <2>1. IsFullRing(messages') /\ HalfShows(messages', heard, rx_event)
        BY <1>3, ShowsFilled, GetAfterPush DEF FillSlot, MessagesInv
    <2>2. QED
        BY <1>3, <2>1 DEF FillSlot, MessagesInv
<1>4. CASE IgnoreEvent
    <2>1. rx_event \in Frame /\ heard \in Seq(Frame) /\ IsFullRing(messages) /\ Shows(messages, heard) /\ ~IsText(rx_event)
        BY <1>4 DEF IgnoreEvent, MessagesInv
    <2>2. Shows(messages, Append(heard, rx_event))
        BY <2>1, ShowsOther
    <2>3. QED
        BY <1>4, <2>2 DEF IgnoreEvent, modelVars, MessagesInv
<1>5. CASE AdvanceRing
    <2>1. rx_event \in Frame /\ heard \in Seq(Frame) /\ IsFullRing(messages) /\ IsText(rx_event)
          /\ HalfShows(messages, heard, rx_event)
        BY <1>5 DEF AdvanceRing, MessagesInv
    <2>2. IsFullRing(messages') /\ Shows(messages', Append(heard, rx_event))
        BY <1>5, <2>1, HalfShowsAdvanced, GetAfterPush DEF AdvanceRing
    <2>3. QED
        BY <1>5, <2>2 DEF AdvanceRing, MessagesInv
<1>6. CASE ObserveNode
    BY <1>6 DEF ObserveNode, MessagesInv
<1>7. CASE NameNode
    <2>1. heard' = Append(heard, rx_event) /\ heard' \in Seq(Frame)
        BY <1>7, Appended DEF NameNode, MessagesInv
    <2>2. QED
        BY <1>7, <2>1 DEF NameNode, MessagesInv
<1>8. CASE MainLoop \/ UNCHANGED vars
    <2>1. UNCHANGED <<messages, heard, rx_event, radio>>
        BY <1>8 DEF MainLoop, Turn, ResetScroll, ScrollUp, ScrollDown, CountRows, ClampScroll, vars, modelVars, radioVars
    <2>2. QED
        BY <2>1 DEF MessagesInv
<1>9. QED
    BY <1>1, <1>2, <1>3, <1>4, <1>5, <1>6, <1>7, <1>8 DEF Next, RadioThread

LEMMA MessagesInvariant == Spec => []MessagesInv
BY MessagesInitially, MessagesStep, PTL DEF Spec

(* A draw that holds the mutex shows the newest texts, newest first,       *)
(* however often a ring of whatever capacity has wrapped.                  *)
THEOREM MessagesShown == Spec => []MessagesAreLatest
<1>1. MessagesInv => MessagesAreLatest
    <2> SUFFICES ASSUME MessagesInv, MutexFree PROVE RingView(messages) = LatestTexts(heard)
        BY DEF MessagesAreLatest
    <2>1. Shows(messages, heard)
        BY DEF MessagesInv, MutexFree
    <2>2. QED
        BY <2>1 DEF Shows, RingView, LatestTexts, NthText, TextsShown
<1>2. QED
    BY MessagesInvariant, <1>1, PTL

-----------------------------------------------------------------------------
(* The node list by recency *)

SendersIn(h, n) == {h[k].from : k \in 1 .. n} \ {NoNode}

\* Frame k is the last of the first n that came from node.
IsLast(h, node, n, k) == k \in 1 .. n /\ h[k].from = node /\ \A l \in k + 1 .. n : h[l].from # node

LastIn(h, node, n) ==
    CHOOSE k \in 1 .. n : h[k].from = node /\ \A l \in k + 1 .. n : h[l].from # node

LEMMA LastIs ==
    ASSUME NEW h, NEW n \in Nat, NEW node, NEW k, IsLast(h, node, n, k)
    PROVE  LastIn(h, node, n) = k
<1> DEFINE last == LastIn(h, node, n)
<1>1. last \in 1 .. n /\ h[last].from = node /\ \A l \in last + 1 .. n : h[l].from # node
    BY DEF IsLast, LastIn
<1> HIDE DEF last
<1>2. ~(last < k) /\ ~(k < last)
    <2>1. last < k => k \in last + 1 .. n
        BY <1>1, SMT DEF IsLast
    <2>2. k < last => last \in k + 1 .. n
        BY <1>1, SMT DEF IsLast
    <2>3. QED
        BY <1>1, <2>1, <2>2 DEF IsLast
<1>3. last = k
    BY <1>1, <1>2, SMT DEF IsLast
<1>4. QED
    BY <1>3 DEF last

LEMMA LastFound ==
    ASSUME NEW h, NEW n \in Nat, NEW node \in SendersIn(h, n)
    PROVE  IsLast(h, node, n, LastIn(h, node, n))
<1> DEFINE from == {k \in 1 .. n : h[k].from = node}
           T    == {n - k : k \in from}
<1>1. from # {} /\ from \subseteq 1 .. n
    BY DEF SendersIn
<1>2. T # {} /\ T \subseteq Nat
    <2>1. \A k \in from : n - k \in Nat
        BY <1>1, SMT
    <2>2. QED
        BY <1>1, <2>1
<1>3. PICK x \in T : \A y \in T : x <= y
    BY <1>2, LeastOfNats
<1>4. PICK k \in from : x = n - k
    BY <1>3
<1>5. ASSUME NEW l \in k + 1 .. n PROVE h[l].from # node
    <2>1. l \in 1 .. n /\ ~(n - k <= n - l)
        BY <1>1, <1>4, SMT
    <2>2. l \notin from
        BY <1>3, <1>4, <2>1
    <2>3. QED
        BY <2>1, <2>2
<1>6. IsLast(h, node, n, k)
    BY <1>4, <1>5 DEF IsLast
<1>7. QED
    BY <1>6, LastIs

\* Of two nodes the one was heard last before the other.
LEMMA LastsDiffer ==
    ASSUME NEW h, NEW n \in Nat, NEW a \in SendersIn(h, n), NEW b \in SendersIn(h, n),
           LastIn(h, a, n) = LastIn(h, b, n)
    PROVE  a = b
BY LastFound DEF IsLast

\* What was heard of a frame's sender, and of the others, once it arrived.
LEMMA LastAppended ==
    ASSUME NEW h \in Seq(Frame), NEW f \in Frame
    PROVE  LET n   == Len(h)
               new == Append(h, f)
           IN  /\ SendersIn(new, n + 1) = SendersIn(h, n) \cup ({f.from} \ {NoNode})
               /\ LastIn(new, f.from, n + 1) = n + 1
               /\ \A m \in SendersIn(h, n) : m # f.from => LastIn(new, m, n + 1) = LastIn(h, m, n)
<1> DEFINE n   == Len(h)
           new == Append(h, f)
<1>1. n \in Nat /\ new[n + 1] = f /\ \A k \in 1 .. n : new[k] = h[k]
    BY Appended
<1> HIDE DEF n, new
<1>2. SendersIn(new, n + 1) = SendersIn(h, n) \cup ({f.from} \ {NoNode})
    <2>1. 1 .. n + 1 = (1 .. n) \cup {n + 1}
        BY <1>1, SMT
    <2>2. {new[k].from : k \in 1 .. n + 1} = {h[k].from : k \in 1 .. n} \cup {f.from}
        BY <1>1, <2>1
    <2>3. QED
        BY <2>2 DEF SendersIn
<1>3. LastIn(new, f.from, n + 1) = n + 1
    <2>1. n + 1 \in 1 .. n + 1 /\ (n + 1) + 1 .. n + 1 = {} /\ n + 1 \in Nat
        BY <1>1, SMT
    <2>2. IsLast(new, f.from, n + 1, n + 1)
        BY <1>1, <2>1 DEF IsLast
    <2>3. QED
        BY <2>1, <2>2, LastIs
<1>4. ASSUME NEW m \in SendersIn(h, n), m # f.from
      PROVE  LastIn(new, m, n + 1) = LastIn(h, m, n)
    <2> DEFINE k == LastIn(h, m, n)
    <2>1. k \in 1 .. n /\ h[k].from = m /\ \A l \in k + 1 .. n : h[l].from # m
        BY <1>1, LastFound DEF IsLast
    <2> HIDE DEF k
    <2>2. k \in 1 .. n + 1 /\ n + 1 \in Nat /\ \A l \in k + 1 .. n + 1 : l = n + 1 \/ (l \in k + 1 .. n /\ l \in 1 .. n)
        BY <1>1, <2>1, SMT
    <2>3. IsLast(new, m, n + 1, k)
        BY <1>1, <1>4, <2>1, <2>2 DEF IsLast
    <2>4. LastIn(new, m, n + 1) = k
        BY <2>2, <2>3, LastIs
    <2>5. QED
        BY <2>4 DEF k
<1>5. QED
    BY <1>2, <1>3, <1>4 DEF n, new

\* When each node was last heard: the number of its last frame.
LastHeardIn(h) == [m \in SendersIn(h, Len(h)) |-> LastIn(h, m, Len(h))]

HeardAt(last, node, n) == [m \in DOMAIN last \cup {node} |-> IF m = node THEN n ELSE last[m]]

LEMMA LastHeardType ==
    ASSUME NEW h, Len(h) \in Nat
    PROVE  LET last == LastHeardIn(h)
           IN  /\ DOMAIN last = SendersIn(h, Len(h))
               /\ \A m \in DOMAIN last : last[m] \in 1 .. Len(h)
               /\ \A a, b \in DOMAIN last : last[a] = last[b] => a = b
BY LastFound, LastsDiffer DEF LastHeardIn, IsLast

LEMMA LastHeardAppended ==
    ASSUME NEW h \in Seq(Frame), NEW f \in Frame
    PROVE  LastHeardIn(Append(h, f)) =
              IF f.from = NoNode THEN LastHeardIn(h)
              ELSE HeardAt(LastHeardIn(h), f.from, Len(h) + 1)
<1> DEFINE n    == Len(h)
           new  == Append(h, f)
           old  == SendersIn(h, n)
<1>1. Len(new) = n + 1
    BY Appended
<1>2. /\ SendersIn(new, n + 1) = old \cup ({f.from} \ {NoNode})
      /\ LastIn(new, f.from, n + 1) = n + 1
      /\ \A m \in old : m # f.from => LastIn(new, m, n + 1) = LastIn(h, m, n)
    BY LastAppended
<1>3. LastHeardIn(new) = [m \in SendersIn(new, n + 1) |-> LastIn(new, m, n + 1)]
    BY <1>1 DEF LastHeardIn
<1>4. LastHeardIn(h) = [m \in old |-> LastIn(h, m, n)]
    BY DEF LastHeardIn
<1>5. CASE f.from = NoNode
    <2>1. NoNode \notin old
        BY DEF SendersIn
    <2>2. SendersIn(new, n + 1) = old /\ \A m \in old : LastIn(new, m, n + 1) = LastIn(h, m, n)
        BY <1>2, <1>5, <2>1
    <2> HIDE DEF old, n, new
    <2>3. LastHeardIn(new) = LastHeardIn(h)
        BY <1>3, <1>4, <2>2
    <2>4. QED
        BY <1>5, <2>3 DEF new
<1>6. CASE f.from # NoNode
    <2>1. SendersIn(new, n + 1) = old \cup {f.from}
        BY <1>2, <1>6
    <2> HIDE DEF old, n, new
    <2>2. LastHeardIn(new) = HeardAt(LastHeardIn(h), f.from, n + 1)
        BY <1>2, <1>3, <1>4, <2>1 DEF HeardAt
    <2>3. QED
        BY <1>6, <2>2 DEF new, n
<1>7. QED
    BY <1>5, <1>6

LEMMA FindsNode ==
    ASSUME NEW table, NEW n, DOMAIN table = 1 .. n, n \in Nat, NEW node, Known(table, node)
    PROVE  Find(table, node) \in 1 .. n /\ table[Find(table, node)].node_num = node
<1>1. Slots(table, node) # {} /\ Slots(table, node) \subseteq Nat
    BY DEF Known, Slots
<1>2. \E i \in Slots(table, node) : \A j \in Slots(table, node) : i <= j
    BY <1>1, LeastOfNats
<1>3. Find(table, node) \in Slots(table, node)
    BY <1>2, Zenon DEF Find
<1>4. QED
    BY <1>3 DEF Slots

\* What the slot chosen for a node holds.
LEMMA SlotChosen ==
    ASSUME NEW table, NEW n \in Nat, IsTable(table, n), NEW node
    PROVE  LET slot == SlotFor(table, node)
           IN  \/ slot \in 1 .. n /\ slot = Find(table, node) /\ Known(table, node) /\ table[slot].node_num = node
               \/ slot = n + 1 /\ n < NODE_ROSTER_CAPACITY /\ \A i \in 1 .. n : table[i].node_num # node
               \/ /\ slot \in 1 .. n /\ n = NODE_ROSTER_CAPACITY
                  /\ \A i \in 1 .. n : table[i].node_num # node
                  /\ \A i \in 1 .. n : table[slot].last_seen <= table[i].last_seen
<1>1. DOMAIN table = 1 .. n /\ Len(table) = n /\ n <= NODE_ROSTER_CAPACITY /\ NODE_ROSTER_CAPACITY \in Nat \ {0}
    BY RosterCapacityAssumption DEF IsTable
<1>2. CASE Known(table, node)
    <2>1. Find(table, node) \in 1 .. n /\ table[Find(table, node)].node_num = node
        BY <1>1, <1>2, FindsNode
    <2>5. QED
        BY <1>2, <2>1 DEF SlotFor
<1>3. CASE ~Known(table, node)
    <2>1. \A i \in 1 .. n : table[i].node_num # node
        BY <1>1, <1>3 DEF Known, Slots
    <2>2. CASE n < NODE_ROSTER_CAPACITY
        BY <1>1, <1>3, <2>1, <2>2 DEF SlotFor
    <2>3. CASE ~(n < NODE_ROSTER_CAPACITY)
        <3>1. n > 0 /\ n = NODE_ROSTER_CAPACITY
            BY <1>1, <2>3, SMT
        <3>2. SlotFor(table, node) = Oldest(table)
            BY <1>1, <1>3, <2>3 DEF SlotFor
        <3>3. Oldest(table) \in 1 .. n /\ \A i \in 1 .. n : table[Oldest(table)].last_seen <= table[i].last_seen
            BY <3>1, OldestInTable
        <3>4. QED
            BY <2>1, <3>1, <3>2, <3>3
    <2>4. QED
        BY <2>2, <2>3
<1>4. QED
    BY <1>2, <1>3

(* The table tells of each node in it when it was last heard, counted from *)
(* base; a node that is not in it was heard before all that are, and then  *)
(* the table is full.                                                      *)
Tells(table, last, base) ==
    /\ \A i, j \in DOMAIN table : table[i].node_num = table[j].node_num => i = j
    /\ \A i \in DOMAIN table :
          /\ table[i].node_num \in DOMAIN last
          /\ table[i].last_seen = base + last[table[i].node_num]
    /\ \A m \in DOMAIN last :
          \/ \E i \in DOMAIN table : table[i].node_num = m
          \/ /\ Len(table) = NODE_ROSTER_CAPACITY
             /\ \A i \in DOMAIN table : last[m] < last[table[i].node_num]

\* Frames are numbered, and each is of one node.
IsHeard(last, n) ==
    /\ \A m \in DOMAIN last : last[m] \in 1 .. n
    /\ \A a, b \in DOMAIN last : last[a] = last[b] => a = b

\* Writing down the sender of a frame where the roster writes it down.
LEMMA ToldOfSender ==
    ASSUME NEW table, NEW k \in Nat, IsTable(table, k), NEW base \in Int, NEW n \in Nat,
           NEW last, IsHeard(last, n), Tells(table, last, base), NEW node,
           NEW entry, IsEntry(entry), entry.node_num = node, entry.last_seen = base + (n + 1)
    PROVE  /\ Tells(Put(table, SlotFor(table, node), entry), HeardAt(last, node, n + 1), base)
           /\ Known(Put(table, SlotFor(table, node), entry), node)
<1> DEFINE slot == SlotFor(table, node)
           new  == Put(table, slot, entry)
           next == HeardAt(last, node, n + 1)
           m    == IF slot = k + 1 THEN k + 1 ELSE k
<1>1. /\ DOMAIN table = 1 .. k /\ Len(table) = k /\ k <= NODE_ROSTER_CAPACITY
      /\ NODE_ROSTER_CAPACITY \in Nat \ {0}
    BY RosterCapacityAssumption DEF IsTable
<1>2. \/ slot \in 1 .. k /\ table[slot].node_num = node
      \/ slot = k + 1 /\ k < NODE_ROSTER_CAPACITY /\ \A i \in 1 .. k : table[i].node_num # node
      \/ /\ slot \in 1 .. k /\ k = NODE_ROSTER_CAPACITY
         /\ \A i \in 1 .. k : table[i].node_num # node
         /\ \A i \in 1 .. k : table[slot].last_seen <= table[i].last_seen
    BY SlotChosen
<1>3. slot \in 1 .. k \/ (slot = k + 1 /\ k + 1 <= NODE_ROSTER_CAPACITY)
    <2> HIDE DEF slot
    <2>1. QED
        BY <1>1, <1>2, SMT
<1>4. IsTable(new, m) /\ \A i \in 1 .. m : new[i] = IF i = slot THEN entry ELSE table[i]
    BY <1>3, PutInTable
<1>5. /\ DOMAIN next = DOMAIN last \cup {node} /\ next[node] = n + 1
      /\ \A a \in DOMAIN last : a # node => next[a] = last[a]
    BY DEF HeardAt
<1> HIDE DEF slot, new, next
<1>6. /\ slot \in 1 .. m
      /\ \A i \in 1 .. m : i # slot => i \in 1 .. k
      /\ \A i \in 1 .. k : i \in 1 .. m
    BY <1>3, SMT
<1>7. DOMAIN new = 1 .. m /\ Len(new) = m
    BY <1>4 DEF IsTable
<1> HIDE DEF m
\* The sender is in no other slot.
<1>8. \A i \in 1 .. m : i # slot => table[i].node_num # node
    BY <1>1, <1>2, <1>6 DEF Tells
<1>9. \A i, j \in DOMAIN new : new[i].node_num = new[j].node_num => i = j
    BY <1>1, <1>4, <1>6, <1>7, <1>8 DEF Tells
<1>10. ASSUME NEW i \in DOMAIN new
       PROVE  new[i].node_num \in DOMAIN next /\ new[i].last_seen = base + next[new[i].node_num]
    <2>1. CASE i = slot
        BY <1>4, <1>5, <1>7, <2>1
    <2>2. CASE i # slot
        <3>1. new[i] = table[i] /\ i \in DOMAIN table /\ table[i].node_num # node
            BY <1>1, <1>4, <1>6, <1>7, <1>8, <2>2
        <3>2. table[i].node_num \in DOMAIN last /\ table[i].last_seen = base + last[table[i].node_num]
            BY <3>1 DEF Tells
        <3>3. QED
            BY <1>5, <3>1, <3>2
    <2>3. QED
        BY <2>1, <2>2
\* A node that was in the table is in it, or was in the oldest slot.
<1>11. ASSUME NEW a \in DOMAIN last, a # node, ~ \E i \in DOMAIN new : new[i].node_num = a
       PROVE  Len(new) = NODE_ROSTER_CAPACITY /\ \A i \in DOMAIN new : next[a] < next[new[i].node_num]
    <2>1. next[a] = last[a] /\ last[a] \in Nat /\ last[a] < n + 1
        BY <1>5, <1>11, SMT DEF IsHeard
    <2>2. ASSUME \A i \in 1 .. k : i # slot => last[a] < last[table[i].node_num]
          PROVE  \A i \in DOMAIN new : next[a] < next[new[i].node_num]
        <3> SUFFICES ASSUME NEW i \in DOMAIN new PROVE next[a] < next[new[i].node_num]
            OBVIOUS
        <3>1. CASE i = slot
            BY <1>4, <1>5, <1>7, <2>1, <3>1
        <3>2. CASE i # slot
            <4>1. i \in 1 .. k /\ new[i] = table[i] /\ table[i].node_num # node /\ table[i].node_num \in DOMAIN last
                BY <1>1, <1>4, <1>6, <1>7, <1>8, <3>2 DEF Tells
            <4>2. next[new[i].node_num] = last[table[i].node_num]
                BY <1>5, <4>1
            <4>3. QED
                BY <2>1, <2>2, <3>2, <4>1, <4>2
        <3>3. QED
            BY <3>1, <3>2
    <2>3. CASE \E i \in DOMAIN table : table[i].node_num = a
        <3>1. PICK s \in DOMAIN table : table[s].node_num = a
            BY <2>3
        <3>2. s = slot
            BY <1>1, <1>4, <1>6, <1>7, <1>11, <3>1
        <3>3. /\ slot \in 1 .. k /\ k = NODE_ROSTER_CAPACITY
              /\ \A i \in 1 .. k : table[slot].last_seen <= table[i].last_seen
            BY <1>1, <1>2, <1>11, <3>1, <3>2, SMT
        <3>4. ASSUME NEW i \in 1 .. k, i # slot PROVE last[a] < last[table[i].node_num]
            <4>1. /\ table[i].node_num \in DOMAIN last /\ table[i].last_seen = base + last[table[i].node_num]
                  /\ table[slot].last_seen = base + last[a]
                  /\ table[i].node_num # a
                BY <1>1, <3>1, <3>2, <3>4 DEF Tells
            <4>2. last[a] # last[table[i].node_num]
                BY <1>11, <4>1 DEF IsHeard
            <4>3. last[table[i].node_num] \in 1 .. n
                BY <4>1 DEF IsHeard
            <4>4. table[slot].last_seen <= table[i].last_seen
                BY <3>3, <3>4
            <4>5. QED
                BY <2>1, <4>1, <4>2, <4>3, <4>4, SMT
        <3>5. m = NODE_ROSTER_CAPACITY
            BY <3>3, SMT DEF m
        <3>6. QED
            BY <1>7, <2>2, <3>4, <3>5
    <2>4. CASE ~ \E i \in DOMAIN table : table[i].node_num = a
        <3>1. Len(table) = NODE_ROSTER_CAPACITY /\ \A i \in DOMAIN table : last[a] < last[table[i].node_num]
            BY <1>11, <2>4 DEF Tells
        <3>2. slot # k + 1
            BY <1>1, <1>2, <3>1, SMT
        <3>3. m = NODE_ROSTER_CAPACITY
            BY <1>1, <3>1, <3>2 DEF m
        <3>4. QED
            BY <1>1, <1>7, <2>2, <3>1, <3>3
    <2>5. QED
        BY <2>3, <2>4
<1>12. \E i \in DOMAIN new : new[i].node_num = node
    BY <1>4, <1>6, <1>7
<1>13. Tells(new, next, base)
    BY <1>5, <1>9, <1>10, <1>11, <1>12 DEF Tells
<1>14. Known(new, node)
    BY <1>12 DEF Known, Slots
<1>15. QED
    BY <1>13, <1>14 DEF new, next, slot

LEMMA ObservedTells ==
    ASSUME NEW table, IsRoster(table), NEW h \in Seq(Frame), NEW f \in Frame,
           NEW base \in Nat, Tells(table, LastHeardIn(h), base)
    PROVE  LET new == Observed(table, f, base + (Len(h) + 1))
           IN  /\ Tells(new, LastHeardIn(Append(h, f)), base)
               /\ f.from # NoNode => Known(new, f.from)
<1> DEFINE time  == base + (Len(h) + 1)
           old   == EntryFor(table, f.from)
           seen  == [old EXCEPT !.rssi = f.rssi, !.last_seen = time, !.packets = @ + 1]
           entry == WithHops(seen, f)
           last  == LastHeardIn(h)
<1>1. PICK k \in Nat : IsTable(table, k)
    BY DEF IsRoster
<1>2. CASE f.from = NoNode
    BY <1>2, LastHeardAppended DEF Observed
<1>3. CASE f.from # NoNode
    <2>1. Len(h) \in Nat /\ time \in Nat
        BY LenProperties, SMT
    <2>2. IsHeard(last, Len(h))
        BY <2>1, LastHeardType DEF IsHeard
    <2>3. IsEntry(old) /\ old.node_num = f.from
        <3>1. IsEntry(old)
            BY <1>1, EntryForIsEntry
        <3>2. Known(table, f.from) => table[Find(table, f.from)].node_num = f.from
            BY <1>1, FindsNode DEF IsTable
        <3>3. old.node_num = f.from
            BY <3>2 DEF EntryFor, NewEntry
        <3>4. QED
            BY <3>1, <3>3
    <2> HIDE DEF old, time
    <2>4. IsEntry(seen) /\ seen.node_num = f.from /\ seen.last_seen = time
        BY <2>1, <2>3 DEF IsEntry, EntryFields
    <2> HIDE DEF seen
    <2>5. IsEntry(entry) /\ entry.node_num = f.from /\ entry.last_seen = time
        BY <2>1, <2>4 DEF IsEntry, EntryFields, WithHops
    <2>6. Observed(table, f, time) = Put(table, SlotFor(table, f.from), entry)
        BY <1>3 DEF Observed, entry, seen, old
    <2> HIDE DEF entry, last
    <2>7. LastHeardIn(Append(h, f)) = HeardAt(last, f.from, Len(h) + 1)
        BY <1>3, LastHeardAppended DEF last
    <2>8. /\ Tells(Put(table, SlotFor(table, f.from), entry), HeardAt(last, f.from, Len(h) + 1), base)
          /\ Known(Put(table, SlotFor(table, f.from), entry), f.from)
        <3>1. entry.last_seen = base + (Len(h) + 1) /\ IsEntry(entry) /\ entry.node_num = f.from
            BY <2>5 DEF time
        <3>2. Tells(table, last, base) /\ IsTable(table, k) /\ base \in Int
            BY <1>1, SMT DEF last
        <3>3. QED
            BY <2>1, <2>2, <3>1, <3>2, ToldOfSender
    <2>9. QED
        BY <2>6, <2>7, <2>8 DEF time
<1>4. QED
    BY <1>2, <1>3

\* To name a node that is known changes its entry's names.
LEMMA NamedEntries ==
    ASSUME NEW table, NEW k \in Nat, IsTable(table, k), NEW node, node # NoNode, Known(table, node), NEW user, NEW time
    PROVE  LET new == UserSet(table, node, user, time)
           IN  /\ IsTable(new, k)
               /\ \A i \in 1 .. k :
                     new[i] = IF i = Find(table, node) THEN WithUser(table[i], user) ELSE table[i]
<1> DEFINE slot  == Find(table, node)
           entry == WithUser(table[slot], user)
           new   == UserSet(table, node, user, time)
<1>1. slot \in 1 .. k
    BY SlotInTable
<1>2. IsEntry(table[slot])
    BY <1>1 DEF IsTable
<1>3. new = Put(table, slot, entry)
    BY DEF UserSet, SlotFor, EntryFor
<1>4. IsEntry(entry)
    BY <1>2 DEF IsEntry, EntryFields, WithUser
<1> HIDE DEF slot, entry, new
<1> DEFINE m == IF slot = k + 1 THEN k + 1 ELSE k
<1>5. /\ IsTable(Put(table, slot, entry), m)
      /\ \A i \in 1 .. m : Put(table, slot, entry)[i] = IF i = slot THEN entry ELSE table[i]
    <2>1. slot \in 1 .. k \/ (slot = k + 1 /\ k + 1 <= NODE_ROSTER_CAPACITY)
        BY <1>1
    <2>2. QED
        BY <1>4, <2>1, PutInTable
<1>6. m = k
    BY <1>1, SMT
<1>7. IsTable(new, k) /\ \A i \in 1 .. k : new[i] = IF i = slot THEN entry ELSE table[i]
    BY <1>3, <1>5, <1>6
<1>8. QED
    BY <1>7 DEF new, slot, entry

LEMMA NamedTells ==
    ASSUME NEW table, IsRoster(table), NEW node, node = NoNode \/ Known(table, node), NEW user, NEW time,
           NEW last, NEW base, Tells(table, last, base)
    PROVE  Tells(UserSet(table, node, user, time), last, base)
<1> DEFINE new == UserSet(table, node, user, time)
<1>1. PICK k \in Nat : IsTable(table, k)
    BY DEF IsRoster
<1>2. CASE node = NoNode
    BY <1>2 DEF UserSet
<1>3. CASE node # NoNode
    <2>1. /\ IsTable(new, k)
          /\ \A i \in 1 .. k : new[i] = IF i = Find(table, node) THEN WithUser(table[i], user) ELSE table[i]
        BY <1>1, <1>3, NamedEntries
    <2> HIDE DEF new
    <2>2. \A i \in 1 .. k : new[i].node_num = table[i].node_num /\ new[i].last_seen = table[i].last_seen
        BY <1>1, <2>1 DEF WithUser, IsTable, IsEntry, EntryFields
    <2>3. DOMAIN new = DOMAIN table /\ DOMAIN table = 1 .. k /\ Len(new) = Len(table)
        BY <1>1, <2>1 DEF IsTable
    <2>4. Tells(new, last, base)
        BY <2>2, <2>3 DEF Tells
    <2>5. QED
        BY <2>4 DEF new
<1>4. QED
    BY <1>2, <1>3

(* The tick counter does not wrap while these frames arrive: the code      *)
(* compares ticks as plain numbers, so what follows needs it.              *)
NoWrap == \A t \in InitialTicks : t + MaxFrames < TICK_RANGE

\* The tick before the first frame.
Start == IF radio = "poll" THEN now - Len(heard) ELSE now - Len(heard) - 1

RosterInv ==
    /\ IsRoster(roster)
    /\ now \in Nat
    /\ Start \in InitialTicks
    /\ Len(heard) <= MaxFrames
    /\ radio # "poll" => Len(heard) < MaxFrames
    /\ radio # "name" => Tells(roster, LastHeardIn(heard), Start)
    /\ radio = "name" =>
          /\ Tells(roster, LastHeardIn(Append(heard, rx_event)), Start)
          /\ rx_event.from # NoNode => Known(roster, rx_event.from)

LEMMA RosterInitially == Init => RosterInv
<1> SUFFICES ASSUME Init PROVE RosterInv
    OBVIOUS
<1>1. RowInv
    BY RowsInitially
<1>2. roster = <<>> /\ DOMAIN roster = {} /\ Len(heard) = 0 /\ radio = "poll"
    BY SMT DEF Init
<1>3. Start \in InitialTicks
    BY <1>1, <1>2, SMT DEF Start, Init, RowInv
<1>4. DOMAIN LastHeardIn(heard) = {}
    <2>1. SendersIn(heard, 0) = {}
        BY SMT DEF SendersIn
    <2>2. QED
        BY <1>2, <2>1 DEF LastHeardIn
<1>5. Tells(roster, LastHeardIn(heard), Start)
    BY <1>2, <1>4 DEF Tells
<1>6. Len(heard) <= MaxFrames
    BY <1>2, ReceiveAssumption, SMT
<1>7. QED
    BY <1>1, <1>2, <1>3, <1>5, <1>6 DEF RosterInv, RowInv

LEMMA RosterStep ==
    ASSUME NoWrap, MessagesInv, RosterInv, [Next]_vars
    PROVE  RosterInv'
<1>1. heard \in Seq(Frame) /\ Len(heard) \in Nat /\ now \in Nat /\ MaxFrames \in Nat
    BY LenProperties, ReceiveAssumption DEF MessagesInv, RosterInv
<1>2. Start \in Nat /\ Start + MaxFrames < TICK_RANGE /\ TICK_RANGE \in Nat
    BY ReceiveAssumption, SMT DEF NoWrap, RosterInv
<1>3. ASSUME NEW frame \in Frame, Poll(frame) PROVE RosterInv'
    <2>1. /\ radio = "poll" /\ radio' = "acquire" /\ Len(heard) < MaxFrames
          /\ now' = (now + 1) % TICK_RANGE
          /\ UNCHANGED <<roster, heard>>
        BY <1>3 DEF Poll, modelVars
    <2>2. now + 1 = Start + (Len(heard) + 1)
        BY <1>1, <2>1, SMT DEF Start
    <2>3. now + 1 < TICK_RANGE
        BY <1>1, <1>2, <2>1, <2>2, SMT
    <2>4. now' = now + 1
        BY <1>1, <1>2, <2>1, <2>3, SMT
    <2>5. Start' = Start
        BY <1>1, <2>1, <2>4, SMT DEF Start
    <2>6. QED
        BY <1>1, <2>1, <2>4, <2>5 DEF RosterInv
<1>4. CASE CountFrame \/ FillSlot \/ IgnoreEvent \/ AdvanceRing
    <2>1. /\ radio # "poll" /\ radio' # "poll" /\ radio # "name" /\ radio' # "name"
          /\ UNCHANGED <<roster, heard, now>>
        BY <1>4 DEF CountFrame, FillSlot, IgnoreEvent, AdvanceRing, modelVars
    <2>2. Start' = Start
        BY <2>1 DEF Start
    <2>3. QED
        BY <2>1, <2>2 DEF RosterInv
<1>5. CASE ObserveNode
    <2>1. /\ radio = "observe" /\ radio' = "name" /\ UNCHANGED <<heard, now, rx_event>>
          /\ roster' = Observed(roster, rx_event, now)
          /\ rx_event \in Frame
        BY <1>5 DEF ObserveNode, MessagesInv
    <2>2. Start' = Start
        BY <2>1 DEF Start
    <2>3. now = Start + (Len(heard) + 1)
        BY <1>1, <2>1, SMT DEF Start
    <2>4. IsRoster(roster')
        BY <2>1, ObservedGrows DEF RosterInv
    <2>5. Tells(roster, LastHeardIn(heard), Start) /\ IsRoster(roster)
        BY <2>1 DEF RosterInv
    <2>6. /\ Tells(roster', LastHeardIn(Append(heard, rx_event)), Start)
          /\ rx_event.from # NoNode => Known(roster', rx_event.from)
        BY <1>1, <1>2, <2>1, <2>3, <2>5, ObservedTells
    <2>7. QED
        BY <2>1, <2>2, <2>4, <2>6 DEF RosterInv
<1>6. CASE NameNode
    <2>1. /\ radio = "name" /\ radio' = "poll" /\ UNCHANGED now
          /\ heard' = Append(heard, rx_event) /\ rx_event \in Frame
          /\ \/ roster' = roster
             \/ roster' = UserSet(roster, rx_event.from, rx_event.user, now)
        BY <1>6 DEF NameNode, MessagesInv
    <2>2. Len(heard') = Len(heard) + 1 /\ Len(heard) < MaxFrames
        BY <1>1, <2>1, Appended DEF RosterInv
    <2>3. Start' = Start
        BY <1>1, <2>1, <2>2, SMT DEF Start
    <2>4. IsRoster(roster')
        BY <2>1, UserSetGrows DEF RosterInv
    <2>5. Tells(roster', LastHeardIn(heard'), Start)
        BY <2>1, NamedTells DEF RosterInv
    <2>6. Len(heard') <= MaxFrames
        BY <1>1, <2>2, SMT
    <2>7. QED
        BY <2>1, <2>3, <2>4, <2>5, <2>6 DEF RosterInv
<1>7. CASE MainLoop \/ UNCHANGED vars
    <2>1. UNCHANGED <<roster, heard, now, rx_event, radio>>
        BY <1>7 DEF MainLoop, Turn, ResetScroll, ScrollUp, ScrollDown, CountRows, ClampScroll, vars, modelVars, radioVars
    <2>2. Start' = Start
        BY <2>1 DEF Start
    <2>3. QED
        BY <2>1, <2>2 DEF RosterInv
<1>8. QED
    BY <1>3, <1>4, <1>5, <1>6, <1>7 DEF Next, RadioThread

\* An injection counts the same.
LEMMA CountImage ==
    ASSUME NEW S, IsFiniteSet(S), NEW g, \A a, b \in S : g[a] = g[b] => a = b
    PROVE  LET T == {g[a] : a \in S} IN IsFiniteSet(T) /\ Cardinality(T) = Cardinality(S)
<1> DEFINE T == {g[a] : a \in S}
           f == [a \in S |-> g[a]]
<1>1. f \in Injection(S, T) /\ f \in Surjection(S, T)
    BY DEF Injection, IsInjective, Surjection
<1>2. QED
    BY <1>1, FS_Surjection

\* The slots whose nodes were heard after that of slot s.
HeardAfter(table, last, s) == {j \in DOMAIN table : last[table[j].node_num] > last[table[s].node_num]}

\* The order of the table: by time last seen, no two alike.
LEMMA TableOrder ==
    ASSUME NEW table, NEW k \in Nat, IsTable(table, k), NEW base \in Nat, NEW n \in Nat,
           NEW last, IsHeard(last, n), Tells(table, last, base), NEW i \in 0 .. k - 1
    PROVE  \E s \in 1 .. k :
               /\ RosterGet(table, i) = table[s]
               /\ Cardinality(HeardAfter(table, last, s)) = i
<1> DEFINE S       == 1 .. k
           time(j) == last[table[j].node_num]
           R       == {p \in S \X S : time(p[1]) > time(p[2])}
<1>1. DOMAIN table = S
    BY DEF IsTable
<1>2. \A j \in S : time(j) \in Nat /\ table[j].last_seen = base + time(j)
    BY <1>1 DEF Tells, IsHeard
<1>3. \A a, b \in S : time(a) = time(b) => a = b
    BY <1>1 DEF Tells, IsHeard
<1>4. \A a, b \in S : <<a, b>> \in R <=> time(a) > time(b)
    OBVIOUS
<1>5. IsFiniteSet(S) /\ Cardinality(S) = k
    <2>1. 1 \in Int /\ k \in Int /\ (IF 1 > k THEN 0 ELSE k - 1 + 1) = k
        BY SMT
    <2>2. QED
        BY <2>1, FS_Interval
<1> HIDE DEF time, R
<1>6. /\ \A a \in S : <<a, a>> \notin R
      /\ \A a, b \in S : a # b => <<a, b>> \in R \/ <<b, a>> \in R
      /\ \A a, b, c \in S : <<a, b>> \in R /\ <<b, c>> \in R => <<a, c>> \in R
    <2>1. \A a \in S : <<a, a>> \notin R
        BY <1>2, <1>4, SMT
    <2>2. \A a, b \in S : a # b => <<a, b>> \in R \/ <<b, a>> \in R
        BY <1>2, <1>3, <1>4, SMT
    <2>3. \A a, b, c \in S : <<a, b>> \in R /\ <<b, c>> \in R => <<a, c>> \in R
        BY <1>2, <1>4, SMT
    <2>4. QED
        BY <2>1, <2>2, <2>3
<1>7. \E s \in S : Cardinality(AheadIn(S, R, s)) = i
    <2>1. i \in 0 .. Cardinality(S) - 1
        BY <1>5
    <2>2. QED
        BY <1>5, <1>6, <2>1, RankExists
<1>8. ASSUME NEW s \in S
      PROVE  /\ AheadIn(S, R, s) = {j \in DOMAIN table \ {s} : RanksAhead(table, j, s)}
             /\ AheadIn(S, R, s) = {j \in S : time(j) > time(s)}
    <2>1. AheadIn(S, R, s) = {j \in S : time(j) > time(s)}
        BY <1>4 DEF AheadIn
    <2>2. ASSUME NEW j \in S
          PROVE  (j # s /\ RanksAhead(table, j, s)) <=> time(j) > time(s)
        <3>1. time(j) \in Nat /\ time(s) \in Nat /\ (time(j) = time(s) => j = s)
            BY <1>2, <1>3
        <3>2. table[j].last_seen = base + time(j) /\ table[s].last_seen = base + time(s)
            BY <1>2
        <3>3. QED
            BY <3>1, <3>2, SMT DEF RanksAhead
    <2>3. QED
        BY <1>1, <2>1, <2>2
<1> DEFINE s == CHOOSE x \in DOMAIN table : Cardinality({j \in DOMAIN table \ {x} : RanksAhead(table, j, x)}) = i
<1>9. s \in S /\ Cardinality({j \in DOMAIN table \ {s} : RanksAhead(table, j, s)}) = i
    BY <1>1, <1>7, <1>8
<1>10. RosterGet(table, i) = table[s]
    BY DEF RosterGet
<1> HIDE DEF s
<1>11. Cardinality({j \in S : time(j) > time(s)}) = i
    BY <1>8, <1>9
<1>12. QED
    BY <1>1, <1>9, <1>10, <1>11 DEF time, HeardAfter

LEMMA SendersFinite ==
    ASSUME NEW h, NEW n \in Nat
    PROVE  IsFiniteSet(SendersIn(h, n))
<1> DEFINE all  == {h[l].from : l \in 1 .. n}
           from == [l \in 1 .. n |-> h[l].from]
<1>1. IsFiniteSet(1 .. n)
    BY FS_Interval
<1>2. from \in Surjection(1 .. n, all)
    BY DEF Surjection
<1>3. IsFiniteSet(all)
    BY <1>1, <1>2, FS_Surjection
<1>4. SendersIn(h, n) \subseteq all
    BY DEF SendersIn
<1>5. QED
    BY <1>3, <1>4, FS_Subset

\* Rank and Kept, of any history.
RankIn(h, node, n) == Cardinality({m \in SendersIn(h, n) : LastIn(h, m, n) > LastIn(h, node, n)})

KeptIn(h, node, n) == node \in SendersIn(h, n) /\ RankIn(h, node, n) < NODE_ROSTER_CAPACITY

\* A table that tells of its nodes when they were last heard.
IsHistory(h, table, k, base) ==
    /\ Len(h) \in Nat
    /\ IsTable(table, k)
    /\ Tells(table, LastHeardIn(h), base)

LEMMA TableOfNodes ==
    ASSUME NEW h, NEW table, NEW k \in Nat, NEW base, IsHistory(h, table, k, base)
    PROVE  LET last == LastHeardIn(h)
               S    == SendersIn(h, Len(h))
           IN  /\ DOMAIN table = 1 .. k /\ Len(table) = k
               /\ IsFiniteSet(1 .. k) /\ Cardinality(1 .. k) = k
               /\ DOMAIN last = S /\ IsHeard(last, Len(h))
               /\ \A m \in S : LastIn(h, m, Len(h)) = last[m] /\ last[m] \in Nat
               /\ \A i, j \in 1 .. k : table[i].node_num = table[j].node_num => i = j
               /\ \A i \in 1 .. k : table[i].node_num \in S
               /\ \A m \in S : \/ \E i \in 1 .. k : table[i].node_num = m
                               \/ /\ k = NODE_ROSTER_CAPACITY
                                  /\ \A i \in 1 .. k : last[m] < last[table[i].node_num]
<1> DEFINE last == LastHeardIn(h)
           S    == SendersIn(h, Len(h))
<1>1. Len(h) \in Nat /\ IsTable(table, k) /\ Tells(table, last, base)
    BY DEF IsHistory
<1>2. DOMAIN table = 1 .. k /\ Len(table) = k
    BY <1>1 DEF IsTable
<1>3. IsFiniteSet(1 .. k) /\ Cardinality(1 .. k) = k
    <2>1. 1 \in Int /\ k \in Int /\ (IF 1 > k THEN 0 ELSE k - 1 + 1) = k
        BY SMT
    <2>2. QED
        BY <2>1, FS_Interval
<1>4. DOMAIN last = S /\ IsHeard(last, Len(h))
    BY <1>1, LastHeardType DEF IsHeard
<1>5. \A m \in S : LastIn(h, m, Len(h)) = last[m]
    BY DEF LastHeardIn
<1> HIDE DEF last, S
<1>6. \A m \in S : last[m] \in Nat
    BY <1>1, <1>4, SMT DEF IsHeard
<1>7. /\ \A i, j \in 1 .. k : table[i].node_num = table[j].node_num => i = j
      /\ \A i \in 1 .. k : table[i].node_num \in S
      /\ \A m \in S : \/ \E i \in 1 .. k : table[i].node_num = m
                      \/ /\ k = NODE_ROSTER_CAPACITY
                         /\ \A i \in 1 .. k : last[m] < last[table[i].node_num]
    BY <1>1, <1>2, <1>4 DEF Tells
<1>8. QED
    BY <1>2, <1>3, <1>4, <1>5, <1>6, <1>7 DEF last, S

\* A node ranks where its slot does: nobody outside the table comes before.
LEMMA RankOfSlot ==
    ASSUME NEW h, NEW table, NEW k \in Nat, NEW base, IsHistory(h, table, k, base), NEW s \in 1 .. k
    PROVE  /\ RankIn(h, table[s].node_num, Len(h)) = Cardinality(HeardAfter(table, LastHeardIn(h), s))
           /\ Cardinality(HeardAfter(table, LastHeardIn(h), s)) < k
<1> DEFINE n      == Len(h)
           last   == LastHeardIn(h)
           S      == SendersIn(h, n)
           nodes  == [j \in 1 .. k |-> table[j].node_num]
           node   == table[s].node_num
           before == HeardAfter(table, last, s)
<1>1. /\ DOMAIN table = 1 .. k
      /\ IsFiniteSet(1 .. k) /\ Cardinality(1 .. k) = k
      /\ \A m \in S : LastIn(h, m, n) = last[m] /\ last[m] \in Nat
      /\ \A i, j \in 1 .. k : nodes[i] = nodes[j] => i = j
      /\ \A i \in 1 .. k : nodes[i] \in S /\ nodes[i] = table[i].node_num
      /\ \A m \in S : (\E i \in 1 .. k : nodes[i] = m) \/ (\A i \in 1 .. k : last[m] < last[nodes[i]])
    BY TableOfNodes
<1> HIDE DEF n, last, S, nodes
<1>2. node = nodes[s] /\ node \in S
    BY <1>1
<1> HIDE DEF node
<1>3. before = {j \in 1 .. k : last[nodes[j]] > last[node]}
    BY <1>1, <1>2 DEF HeardAfter, node
<1> HIDE DEF before
<1>4. s \notin before
    BY <1>1, <1>2, <1>3, SMT
<1>5. IsFiniteSet(before) /\ Cardinality(before) < k
    <2>1. IsFiniteSet(before) /\ Cardinality(before) \in Nat
        BY <1>1, <1>3, FS_Subset, FS_CardinalityType
    <2>2. Cardinality(before \cup {s}) = Cardinality(before) + 1
        BY <1>4, <2>1, FS_AddElement
    <2>3. before \cup {s} \subseteq 1 .. k
        BY <1>3
    <2>4. Cardinality(before \cup {s}) <= k
        BY <1>1, <2>3, FS_Subset
    <2>5. QED
        BY <2>1, <2>2, <2>4, SMT
<1>6. {m \in S : LastIn(h, m, n) > LastIn(h, node, n)} = {nodes[j] : j \in before}
    <2>1. ASSUME NEW m \in S, last[m] > last[node] PROVE \E j \in before : m = nodes[j]
        <3>1. ~(last[m] < last[node])
            BY <1>1, <1>2, <2>1, SMT
        <3>2. QED
            BY <1>1, <1>2, <1>3, <2>1, <3>1
    <2>2. \A j \in before : nodes[j] \in S /\ last[nodes[j]] > last[node]
        BY <1>1, <1>3
    <2>3. QED
        BY <1>1, <1>2, <2>1, <2>2
<1>7. Cardinality({nodes[j] : j \in before}) = Cardinality(before)
    <2>1. \A a, b \in before : nodes[a] = nodes[b] => a = b
        BY <1>1, <1>3
    <2>2. QED
        BY <1>5, <2>1, CountImage
<1>8. RankIn(h, node, n) = Cardinality(before)
    BY <1>6, <1>7 DEF RankIn, S
<1>9. QED
    BY <1>5, <1>8 DEF node, n, last, before

\* The table holds the nodes that are kept.
LEMMA KeptIsKnown ==
    ASSUME NEW h, NEW table, NEW k \in Nat, NEW base, IsHistory(h, table, k, base), NEW node
    PROVE  KeptIn(h, node, Len(h)) <=> Known(table, node)
<1> DEFINE n     == Len(h)
           last  == LastHeardIn(h)
           S     == SendersIn(h, n)
           C     == NODE_ROSTER_CAPACITY
           nodes == [j \in 1 .. k |-> table[j].node_num]
<1>1. /\ DOMAIN table = 1 .. k
      /\ IsFiniteSet(1 .. k) /\ Cardinality(1 .. k) = k
      /\ \A m \in S : LastIn(h, m, n) = last[m] /\ last[m] \in Nat
      /\ \A i, j \in 1 .. k : nodes[i] = nodes[j] => i = j
      /\ \A i \in 1 .. k : nodes[i] \in S /\ nodes[i] = table[i].node_num
      /\ \A m \in S : (\E i \in 1 .. k : nodes[i] = m) \/ (k = C /\ \A i \in 1 .. k : last[m] < last[nodes[i]])
    BY TableOfNodes
<1>2. k <= C /\ C \in Nat /\ n \in Nat
    BY RosterCapacityAssumption DEF IsHistory, IsTable
<1>3. ASSUME NEW s \in 1 .. k, table[s].node_num = node PROVE KeptIn(h, node, n)
    <2>1. RankIn(h, node, n) < k /\ RankIn(h, node, n) \in Nat
        <3>1. RankIn(h, node, n) = Cardinality(HeardAfter(table, last, s)) /\ Cardinality(HeardAfter(table, last, s)) < k
            BY <1>3, RankOfSlot
        <3>2. HeardAfter(table, last, s) \subseteq 1 .. k
            BY <1>1 DEF HeardAfter
        <3>3. IsFiniteSet(HeardAfter(table, last, s))
            BY <1>1, <3>2, FS_Subset
        <3>4. QED
            BY <3>1, <3>3, FS_CardinalityType
    <2>2. node \in S
        BY <1>1, <1>3
    <2> HIDE DEF n, S, C
    <2>3. RankIn(h, node, n) < C
        BY <1>2, <2>1, SMT
    <2>4. QED
        BY <2>2, <2>3 DEF KeptIn, S, C
<1>4. ASSUME node \in S, ~ \E s \in 1 .. k : table[s].node_num = node PROVE ~KeptIn(h, node, n)
    <2> DEFINE T == {nodes[j] : j \in 1 .. k}
               A == {m \in S : LastIn(h, m, n) > LastIn(h, node, n)}
    <2>1. k = C /\ \A i \in 1 .. k : last[node] < last[nodes[i]]
        BY <1>1, <1>4
    <2>2. IsFiniteSet(S)
        BY <1>2, SendersFinite
    <2> HIDE DEF n, last, S, C, nodes
    <2>3. Cardinality(T) = k /\ IsFiniteSet(T)
        BY <1>1, CountImage
    <2>4. T \subseteq A
        <3>1. \A i \in 1 .. k : last[nodes[i]] \in Nat /\ last[node] \in Nat /\ last[nodes[i]] > last[node]
            BY <1>1, <1>4, <2>1, SMT
        <3>2. QED
            BY <1>1, <1>4, <3>1
    <2>5. IsFiniteSet(A) /\ Cardinality(A) \in Nat
        BY <2>2, FS_Subset, FS_CardinalityType
    <2>6. Cardinality(T) <= Cardinality(A)
        BY <2>4, <2>5, FS_Subset
    <2>7. RankIn(h, node, n) = Cardinality(A)
        BY DEF RankIn, S
    <2> HIDE DEF A, T
    <2>8. ~(RankIn(h, node, n) < C)
        BY <1>2, <2>1, <2>3, <2>5, <2>6, <2>7, SMT
    <2>9. QED
        BY <2>8 DEF KeptIn, C
<1>5. Known(table, node) <=> \E s \in 1 .. k : table[s].node_num = node
    BY <1>1 DEF Known, Slots
<1>6. QED
    BY <1>3, <1>4, <1>5 DEF KeptIn

LEMMA TellsRecency ==
    ASSUME NEW k \in Nat, NEW base \in Nat, IsHistory(heard, roster, k, base)
    PROVE  /\ Len(roster) = Smaller(Cardinality(Senders(Len(heard))), NODE_ROSTER_CAPACITY)
           /\ \A i \in DOMAIN roster :
                 LET node == RosterView(roster)[i].node_num
                 IN  Kept(node, Len(heard)) /\ Rank(node, Len(heard)) = i - 1
<1> DEFINE n     == Len(heard)
           last  == LastHeardIn(heard)
           S     == SendersIn(heard, n)
           C     == NODE_ROSTER_CAPACITY
           nodes == [j \in 1 .. k |-> roster[j].node_num]
           T     == {nodes[i] : i \in 1 .. k}
<1>1. n \in Nat /\ IsTable(roster, k) /\ Tells(roster, last, base)
    BY DEF IsHistory
<1>2. k <= C /\ C \in Nat
    BY <1>1, RosterCapacityAssumption DEF IsTable
<1>3. /\ DOMAIN roster = 1 .. k /\ Len(roster) = k
      /\ IsFiniteSet(1 .. k) /\ Cardinality(1 .. k) = k
      /\ IsHeard(last, n)
      /\ \A i, j \in 1 .. k : nodes[i] = nodes[j] => i = j
      /\ \A i \in 1 .. k : nodes[i] \in S
      /\ \A m \in S : (\E i \in 1 .. k : nodes[i] = m) \/ k = C
    BY TableOfNodes
<1>4. S = Senders(n) /\ \A node : RankIn(heard, node, n) = Rank(node, n) /\ (KeptIn(heard, node, n) <=> Kept(node, n))
    BY DEF Senders, SendersIn, LastHeard, LastIn, Rank, RankIn, Kept, KeptIn
<1>5. IsFiniteSet(S) /\ Cardinality(S) \in Nat
    BY <1>1, SendersFinite, FS_CardinalityType
<1> HIDE DEF n, last, S, C, nodes
<1>6. Cardinality(T) = k
    BY <1>3, CountImage
<1>7. Len(roster) = Smaller(Cardinality(S), C)
    <2>1. T \subseteq S
        BY <1>3
    <2>2. CASE T = S
        <3>1. Cardinality(S) = k
            BY <1>6, <2>2
        <3>2. QED
            BY <1>2, <1>3, <3>1, SMT DEF Smaller
    <2>3. CASE T # S
        <3>1. k = C
            BY <1>3, <2>1, <2>3
        <3>2. k <= Cardinality(S)
            BY <1>5, <1>6, <2>1, FS_Subset
        <3>3. QED
            BY <1>2, <1>3, <1>5, <3>1, <3>2, SMT DEF Smaller
    <2>4. QED
        BY <2>2, <2>3
<1>8. ASSUME NEW i \in 1 .. k
      PROVE  LET node == RosterView(roster)[i].node_num
             IN  Kept(node, n) /\ Rank(node, n) = i - 1
    <2> DEFINE node == RosterView(roster)[i].node_num
    <2>1. i - 1 \in 0 .. k - 1
        BY SMT
    <2>2. PICK s \in 1 .. k :
              /\ RosterGet(roster, i - 1) = roster[s]
              /\ Cardinality(HeardAfter(roster, last, s)) = i - 1
        BY <1>1, <1>3, <2>1, TableOrder
    <2>3. node = roster[s].node_num
        BY <1>3, <2>2 DEF RosterView
    <2> HIDE DEF node
    <2>4. RankIn(heard, node, n) = i - 1
        BY <2>2, <2>3, RankOfSlot DEF n, last
    <2>5. Known(roster, node)
        BY <1>3, <2>3 DEF Known, Slots
    <2>6. KeptIn(heard, node, n)
        BY <2>5, KeptIsKnown DEF n
    <2>7. QED
        BY <1>4, <2>4, <2>6 DEF node
<1>9. QED
    BY <1>3, <1>4, <1>7, <1>8 DEF n, C

(* The node list is the list of the most recently heard nodes, in that     *)
(* order, each of them once, for a table of any capacity and however often *)
(* the least recently heard node was given up - as long as the tick        *)
(* counter does not wrap.                                                  *)
THEOREM RosterByRecency == ASSUME NoWrap PROVE Spec => []RosterIsRecency
<1>1. MessagesInv /\ RosterInv /\ [Next]_vars => RosterInv'
    BY RosterStep
<1>2. MessagesInv /\ RosterInv => RosterIsRecency
    <2> SUFFICES ASSUME MessagesInv, RosterInv, MutexFree PROVE RosterIsRecency
        BY DEF RosterIsRecency
    <2>1. Len(heard) \in Nat
        BY LenProperties DEF MessagesInv
    <2>2. IsRoster(roster) /\ Tells(roster, LastHeardIn(heard), Start)
        BY DEF RosterInv, MutexFree
    <2>3. PICK k \in Nat : IsHistory(heard, roster, k, Start)
        BY <2>1, <2>2 DEF IsRoster, IsHistory
    <2>4. Start \in Nat
        BY ReceiveAssumption, SMT DEF RosterInv
    <2>5. QED
        BY <2>3, <2>4, TellsRecency DEF RosterIsRecency
<1>3. QED
    BY RosterInitially, MessagesInvariant, <1>1, <1>2, PTL DEF Spec

-----------------------------------------------------------------------------
(* What the entries tell *)

StayIn(h, node) ==
    {k \in 1 .. Len(h) : h[k].from = node /\ \A n \in k .. Len(h) : KeptIn(h, node, n)}

\* What was kept after n frames does not depend on later ones.
LEMMA KeptBefore ==
    ASSUME NEW h \in Seq(Frame), NEW f \in Frame, NEW node, NEW n \in 0 .. Len(h)
    PROVE  KeptIn(Append(h, f), node, n) <=> KeptIn(h, node, n)
<1> DEFINE new == Append(h, f)
           S   == SendersIn(h, n)
<1>1. n \in Nat /\ \A k \in 1 .. n : new[k] = h[k]
    <2>1. \A k \in 1 .. n : k \in 1 .. Len(h)
        BY LenProperties, SMT
    <2>2. QED
        BY <2>1, Appended
<1> HIDE DEF new
<1>2. SendersIn(new, n) = S
    BY <1>1 DEF SendersIn
<1>3. ASSUME NEW m \in S PROVE LastIn(new, m, n) = LastIn(h, m, n)
    <2> DEFINE k == LastIn(h, m, n)
    <2>1. IsLast(h, m, n, k)
        BY <1>1, LastFound
    <2> HIDE DEF k
    <2>2. \A l \in k + 1 .. n : l \in 1 .. n
        BY <1>1, <2>1, SMT DEF IsLast
    <2>3. IsLast(new, m, n, k)
        BY <1>1, <2>1, <2>2 DEF IsLast
    <2>4. LastIn(new, m, n) = k
        BY <1>1, <2>3, LastIs
    <2>5. QED
        BY <2>4 DEF k
<1> HIDE DEF S
<1>4. ASSUME node \in S PROVE RankIn(new, node, n) = RankIn(h, node, n)
    <2>1. {m \in S : LastIn(new, m, n) > LastIn(new, node, n)} = {m \in S : LastIn(h, m, n) > LastIn(h, node, n)}
        BY <1>3, <1>4
    <2>2. QED
        BY <1>2, <2>1 DEF RankIn, S
<1>5. QED
    BY <1>2, <1>4 DEF KeptIn, new, S

\* A node that is kept stays, and a frame of its own counts.
LEMMA StayAppended ==
    ASSUME NEW h \in Seq(Frame), NEW f \in Frame, NEW node, KeptIn(Append(h, f), node, Len(h) + 1)
    PROVE  StayIn(Append(h, f), node) = StayIn(h, node) \cup (IF f.from = node THEN {Len(h) + 1} ELSE {})
<1> DEFINE new == Append(h, f)
           N   == Len(h) + 1
<1>1. Len(h) \in Nat /\ Len(new) = N /\ new[N] = f /\ \A k \in 1 .. Len(h) : new[k] = h[k]
    BY Appended
<1>2. \A n \in 0 .. Len(h) : KeptIn(new, node, n) <=> KeptIn(h, node, n)
    BY KeptBefore
<1>3. KeptIn(new, node, N)
    OBVIOUS
<1> HIDE DEF new
<1>4. ASSUME NEW k \in 1 .. Len(h)
      PROVE  k \in StayIn(new, node) <=> k \in StayIn(h, node)
    <2>1. k \in 1 .. N /\ new[k] = h[k]
        BY <1>1, SMT
    <2>2. k .. N = (k .. Len(h)) \cup {N} /\ \A n \in k .. Len(h) : n \in 0 .. Len(h)
        BY <1>1, SMT
    <2>3. (\A n \in k .. N : KeptIn(new, node, n)) <=> (\A n \in k .. Len(h) : KeptIn(h, node, n))
        BY <1>2, <1>3, <2>2
    <2>4. QED
        BY <1>1, <2>1, <2>3 DEF StayIn
<1>5. N \in StayIn(new, node) <=> f.from = node
    <2>1. N \in 1 .. N /\ N .. N = {N}
        BY <1>1, SMT
    <2>2. QED
        BY <1>1, <1>3, <2>1 DEF StayIn
<1>6. StayIn(new, node) \subseteq (1 .. Len(h)) \cup {N} /\ StayIn(h, node) \subseteq 1 .. Len(h) /\ N \notin 1 .. Len(h)
    <2>1. 1 .. N = (1 .. Len(h)) \cup {N} /\ N \notin 1 .. Len(h)
        BY <1>1, SMT
    <2>2. QED
        BY <1>1, <2>1 DEF StayIn
<1> HIDE DEF N
<1>7. QED
    BY <1>4, <1>5, <1>6 DEF new, N

LEMMA NoStay ==
    ASSUME NEW h, Len(h) \in Nat, NEW node, ~KeptIn(h, node, Len(h))
    PROVE  StayIn(h, node) = {}
<1>1. \A k \in 1 .. Len(h) : Len(h) \in k .. Len(h)
    BY SMT
<1>2. QED
    BY <1>1 DEF StayIn

LEMMA NewestOf ==
    ASSUME NEW n \in Nat, NEW frames, frames \subseteq 1 .. n
    PROVE  /\ n \in frames => Newest(frames) = n
           /\ frames # {} => Newest(frames) \in frames
<1>1. ASSUME frames # {} PROVE \E k \in frames : \A l \in frames : l <= k
    <2> DEFINE T == {n - k : k \in frames}
    <2>1. T # {} /\ T \subseteq Nat
        <3>1. \A k \in frames : n - k \in Nat
            BY SMT
        <3>2. QED
            BY <1>1, <3>1
    <2>2. PICK x \in T : \A y \in T : x <= y
        BY <2>1, LeastOfNats
    <2>3. PICK k \in frames : x = n - k
        BY <2>2
    <2>4. ASSUME NEW l \in frames PROVE l <= k
        <3>1. x <= n - l
            BY <2>2
        <3>2. k \in 1 .. n /\ l \in 1 .. n
            OBVIOUS
        <3>3. QED
            BY <2>3, <3>1, <3>2, SMT
    <2>5. QED
        BY <2>4
<1>2. frames # {} => Newest(frames) \in frames /\ \A l \in frames : l <= Newest(frames)
    BY <1>1, Zenon DEF Newest
<1> DEFINE newest == Newest(frames)
<1> HIDE DEF newest
<1>3. n \in frames => newest = n
    <2>1. n \in frames => newest \in 1 .. n /\ n <= newest
        BY <1>2 DEF newest
    <2>2. QED
        BY <2>1, SMT
<1>4. QED
    BY <1>2, <1>3 DEF newest

NamesIn(h, frames) == {k \in frames : GivesLongName(h[k])}
HopsIn(h, frames)  == {k \in frames : HasHops(h[k])}

\* The last long name given among the frames.
LongNameIn(h, frames) ==
    IF NamesIn(h, frames) = {} THEN NoName ELSE h[Newest(NamesIn(h, frames))].user.long_name

\* All but the name of what an entry tells of its node's frames.
Counted(e, h, stay) ==
    /\ e.packets = Cardinality(stay)
    /\ stay # {} => e.rssi = h[Newest(stay)].rssi
    /\ e.has_hops \in BOOLEAN
    /\ e.has_hops <=> HopsIn(h, stay) # {}
    /\ e.has_hops => e.hops_away = HopsOf(h[Newest(HopsIn(h, stay))])

\* Frames keep their numbers.
LEMMA CountedBefore ==
    ASSUME NEW h \in Seq(Frame), NEW f \in Frame, NEW stay, stay \subseteq 1 .. Len(h), NEW e
    PROVE  /\ Counted(e, h, stay) => Counted(e, Append(h, f), stay)
           /\ LongNameIn(Append(h, f), stay) = LongNameIn(h, stay)
<1> DEFINE new == Append(h, f)
<1>1. Len(h) \in Nat /\ \A k \in stay : new[k] = h[k]
    BY Appended
<1> HIDE DEF new
<1>2. NamesIn(new, stay) = NamesIn(h, stay) /\ NamesIn(h, stay) \subseteq stay
    BY <1>1 DEF NamesIn
<1>3. HopsIn(new, stay) = HopsIn(h, stay) /\ HopsIn(h, stay) \subseteq stay
    BY <1>1 DEF HopsIn
<1>4. NamesIn(h, stay) # {} => Newest(NamesIn(h, stay)) \in stay
    BY <1>1, <1>2, NewestOf
<1>5. HopsIn(h, stay) # {} => Newest(HopsIn(h, stay)) \in stay
    BY <1>1, <1>3, NewestOf
<1>6. stay # {} => Newest(stay) \in stay
    BY <1>1, NewestOf
<1>7. Counted(e, h, stay) => Counted(e, new, stay)
    BY <1>1, <1>3, <1>5, <1>6 DEF Counted
<1>8. LongNameIn(new, stay) = LongNameIn(h, stay)
    BY <1>1, <1>2, <1>4 DEF LongNameIn
<1>9. QED
    BY <1>7, <1>8 DEF new

\* A further frame of a node, and the name it may give.
LEMMA NameOfNext ==
    ASSUME NEW h, NEW n \in Nat, NEW stay, stay \subseteq 1 .. n
    PROVE  LongNameIn(h, stay \cup {n + 1}) =
              IF GivesLongName(h[n + 1]) THEN h[n + 1].user.long_name ELSE LongNameIn(h, stay)
<1> DEFINE all == stay \cup {n + 1}
<1>1. all \subseteq 1 .. n + 1 /\ n + 1 \in Nat
    BY SMT
<1>2. CASE GivesLongName(h[n + 1])
    <2>1. n + 1 \in NamesIn(h, all) /\ NamesIn(h, all) \subseteq 1 .. n + 1
        BY <1>1, <1>2 DEF NamesIn
    <2>2. Newest(NamesIn(h, all)) = n + 1
        BY <1>1, <2>1, NewestOf
    <2>3. QED
        BY <1>2, <2>1, <2>2 DEF LongNameIn
<1>3. CASE ~GivesLongName(h[n + 1])
    <2>1. NamesIn(h, all) = NamesIn(h, stay)
        BY <1>3 DEF NamesIn
    <2>2. QED
        BY <1>3, <2>1 DEF LongNameIn
<1>4. QED
    BY <1>2, <1>3

\* hop_start is what the sender set, hop_limit what survived the trip.
HopsSurvive == \A f \in Frame : f.hop_limit <= f.hop_start \/ f.hop_start = 0

LEMMA CountedNext ==
    ASSUME HopsSurvive,
           NEW h \in Seq(Frame), NEW f \in Frame, NEW stay, stay \subseteq 1 .. Len(h),
           NEW e, IsEntry(e), Counted(e, h, stay), NEW time
    PROVE  Counted(WithHops([e EXCEPT !.rssi = f.rssi, !.last_seen = time, !.packets = @ + 1], f),
                   Append(h, f), stay \cup {Len(h) + 1})
<1> DEFINE seen == [e EXCEPT !.rssi = f.rssi, !.last_seen = time, !.packets = @ + 1]
           next == WithHops(seen, f)
           N    == Len(h) + 1
           new  == Append(h, f)
           all  == stay \cup {N}
<1>1. Len(h) \in Nat /\ N \in Nat /\ new[N] = f
    BY Appended
<1>2. f.hop_start \in Nat /\ f.hop_start <= 7 /\ f.hop_limit \in Nat
    BY FrameAssumption, SMT
<1>3. Counted(e, new, stay)
    BY CountedBefore
<1>4. /\ next.packets = e.packets + 1
      /\ next.rssi = f.rssi
      /\ next.has_hops = IF HasHops(f) THEN TRUE ELSE e.has_hops
      /\ next.hops_away = IF HasHops(f) THEN (f.hop_start - f.hop_limit) % 256 ELSE e.hops_away
    BY DEF IsEntry, EntryFields, WithHops, HasHops
<1> HIDE DEF next, new
<1>5. N \notin stay /\ all \subseteq 1 .. N
    <2>1. N \notin 1 .. Len(h) /\ 1 .. N = (1 .. Len(h)) \cup {N}
        BY <1>1, SMT
    <2>2. QED
        BY <2>1
<1>6. next.packets = Cardinality(all)
    <2>1. IsFiniteSet(stay)
        <3>1. IsFiniteSet(1 .. Len(h))
            BY <1>1, FS_Interval
        <3>2. QED
            BY <3>1, FS_Subset
    <2>2. Cardinality(all) = Cardinality(stay) + 1
        BY <1>5, <2>1, FS_AddElement
    <2>3. QED
        BY <1>3, <1>4, <2>2 DEF Counted
<1>7. next.rssi = new[Newest(all)].rssi
    BY <1>1, <1>4, <1>5, NewestOf
<1>8. ASSUME HasHops(f) PROVE Counted(next, new, all)
    <2>1. N \in HopsIn(new, all) /\ HopsIn(new, all) \subseteq 1 .. N
        BY <1>1, <1>5, <1>8 DEF HopsIn
    <2>2. Newest(HopsIn(new, all)) = N
        BY <1>1, <2>1, NewestOf
    <2>3. (f.hop_start - f.hop_limit) % 256 = f.hop_start - f.hop_limit
        BY <1>2, <1>8, SMT DEF HopsSurvive, HasHops
    <2>4. QED
        BY <1>1, <1>4, <1>6, <1>7, <1>8, <2>1, <2>2, <2>3 DEF Counted, HopsOf
<1>9. ASSUME ~HasHops(f) PROVE Counted(next, new, all)
    <2>1. HopsIn(new, all) = HopsIn(new, stay)
        BY <1>1, <1>9 DEF HopsIn
    <2>2. QED
        BY <1>3, <1>4, <1>6, <1>7, <1>9, <2>1 DEF Counted
<1>10. QED
    BY <1>8, <1>9 DEF next, new

(* Each entry tells of the frames its node sent since it came into the     *)
(* table, and the last name given in the first n of them.                  *)
EntriesTold(table, h, n) ==
    \A i \in DOMAIN table :
        LET stay == StayIn(h, table[i].node_num)
        IN  /\ stay # {}
            /\ Counted(table[i], h, stay)
            /\ table[i].long_name = LongNameIn(h, stay \cap (1 .. n))

\* What the roster counts a frame on: what it holds of the node, or nothing.
LEMMA EntryForTold ==
    ASSUME NEW h, NEW table, NEW k \in Nat, NEW base, IsHistory(h, table, k, base),
           EntriesTold(table, h, Len(h)), NEW node
    PROVE  LET e    == EntryFor(table, node)
               stay == StayIn(h, node)
           IN  IsEntry(e) /\ Counted(e, h, stay) /\ e.long_name = LongNameIn(h, stay)
<1> DEFINE e    == EntryFor(table, node)
           stay == StayIn(h, node)
<1>1. IsTable(table, k) /\ DOMAIN table = 1 .. k /\ Len(h) \in Nat
    BY DEF IsHistory, IsTable
<1>2. IsEntry(e)
    BY <1>1, EntryForIsEntry
<1>3. CASE Known(table, node)
    <2>1. Find(table, node) \in DOMAIN table /\ table[Find(table, node)].node_num = node
        BY <1>1, <1>3, FindsNode
    <2>2. e = table[Find(table, node)]
        BY <1>3 DEF EntryFor
    <2>3. stay \cap (1 .. Len(h)) = stay
        BY DEF StayIn
    <2> HIDE DEF e, stay
    <2>4. Counted(e, h, stay) /\ e.long_name = LongNameIn(h, stay)
        BY <2>1, <2>2, <2>3 DEF EntriesTold, stay
    <2>5. QED
        BY <1>2, <2>4 DEF e, stay
<1>4. CASE ~Known(table, node)
    <2>1. e = NewEntry(node)
        BY <1>4 DEF EntryFor
    <2>2. stay = {}
        BY <1>1, <1>4, KeptIsKnown, NoStay
    <2>3. Cardinality({}) = 0
        BY FS_EmptySet
    <2>4. NamesIn(h, {}) = {} /\ HopsIn(h, {}) = {}
        BY DEF NamesIn, HopsIn
    <2>5. Counted(NewEntry(node), h, {}) /\ NewEntry(node).long_name = LongNameIn(h, {})
        BY <2>3, <2>4 DEF Counted, NewEntry, LongNameIn
    <2>6. QED
        BY <1>2, <2>1, <2>2, <2>5
<1>5. QED
    BY <1>3, <1>4

LEMMA OthersTold ==
    ASSUME NEW h \in Seq(Frame), NEW f \in Frame, NEW node, f.from # node,
           KeptIn(Append(h, f), node, Len(h) + 1), NEW e, StayIn(h, node) # {},
           Counted(e, h, StayIn(h, node)), e.long_name = LongNameIn(h, StayIn(h, node) \cap (1 .. Len(h)))
    PROVE  LET stay == StayIn(Append(h, f), node)
           IN  /\ stay # {}
               /\ Counted(e, Append(h, f), stay)
               /\ e.long_name = LongNameIn(Append(h, f), stay \cap (1 .. Len(h)))
<1> DEFINE stay == StayIn(h, node)
<1>1. StayIn(Append(h, f), node) = stay
    <2>1. StayIn(Append(h, f), node) = stay \cup (IF f.from = node THEN {Len(h) + 1} ELSE {})
        BY StayAppended
    <2>2. QED
        BY <2>1
<1>2. stay \subseteq 1 .. Len(h) /\ stay \cap (1 .. Len(h)) = stay
    BY DEF StayIn
<1>3. /\ Counted(e, h, stay) => Counted(e, Append(h, f), stay)
      /\ LongNameIn(Append(h, f), stay) = LongNameIn(h, stay)
    BY <1>2, CountedBefore
<1> HIDE DEF stay
<1>4. /\ stay # {} /\ Counted(e, Append(h, f), stay)
      /\ e.long_name = LongNameIn(Append(h, f), stay \cap (1 .. Len(h)))
    BY <1>2, <1>3 DEF stay
<1>5. QED
    BY <1>1, <1>4

LEMMA SenderTold ==
    ASSUME HopsSurvive, NEW h \in Seq(Frame), NEW f \in Frame, KeptIn(Append(h, f), f.from, Len(h) + 1),
           NEW e, IsEntry(e), Counted(e, h, StayIn(h, f.from)), e.long_name = LongNameIn(h, StayIn(h, f.from)),
           NEW time
    PROVE  LET new  == WithHops([e EXCEPT !.rssi = f.rssi, !.last_seen = time, !.packets = @ + 1], f)
               stay == StayIn(Append(h, f), f.from)
           IN  /\ stay # {}
               /\ Counted(new, Append(h, f), stay)
               /\ new.long_name = LongNameIn(Append(h, f), stay \cap (1 .. Len(h)))
<1> DEFINE new  == WithHops([e EXCEPT !.rssi = f.rssi, !.last_seen = time, !.packets = @ + 1], f)
           stay == StayIn(h, f.from)
           all  == stay \cup {Len(h) + 1}
<1>1. stay \subseteq 1 .. Len(h)
    BY DEF StayIn
<1>2. StayIn(Append(h, f), f.from) = all
    BY StayAppended
<1> HIDE DEF stay
<1>3. Counted(new, Append(h, f), all)
    BY <1>1, CountedNext DEF stay
<1>4. all # {} /\ all \cap (1 .. Len(h)) = stay
    <2>1. Len(h) + 1 \notin 1 .. Len(h)
        BY LenProperties, SMT
    <2>2. QED
        BY <1>1, <2>1
<1>5. new.long_name = e.long_name
    BY DEF IsEntry, EntryFields, WithHops
<1>6. LongNameIn(Append(h, f), stay) = LongNameIn(h, stay)
    BY <1>1, CountedBefore
<1> HIDE DEF new, all
<1>7. /\ all # {} /\ Counted(new, Append(h, f), all)
      /\ new.long_name = LongNameIn(Append(h, f), all \cap (1 .. Len(h)))
    BY <1>3, <1>4, <1>5, <1>6 DEF stay
<1>8. QED
    BY <1>2, <1>7 DEF new

LEMMA ObservedTold ==
    ASSUME HopsSurvive, NEW h \in Seq(Frame), NEW f \in Frame, NEW table, NEW k \in Nat, NEW base \in Nat,
           IsHistory(h, table, k, base), EntriesTold(table, h, Len(h))
    PROVE  EntriesTold(Observed(table, f, base + (Len(h) + 1)), Append(h, f), Len(h))
<1> DEFINE new   == Observed(table, f, base + (Len(h) + 1))
           after == Append(h, f)
<1>1. IsTable(table, k) /\ IsRoster(table) /\ Tells(table, LastHeardIn(h), base) /\ DOMAIN table = 1 .. k
    BY DEF IsHistory, IsRoster, IsTable
<1>2. Len(h) \in Nat /\ Len(after) = Len(h) + 1 /\ Len(after) \in Nat
    BY Appended, SMT
<1>3. Tells(new, LastHeardIn(after), base)
    BY <1>1, ObservedTells
<1>4. PICK m \in Nat : IsTable(new, m)
    BY <1>1, <1>2, ObservedGrows DEF IsRoster
<1>5. IsHistory(after, new, m, base) /\ DOMAIN new = 1 .. m
    BY <1>2, <1>3, <1>4 DEF IsHistory, IsTable
<1> HIDE DEF after
<1>6. ASSUME NEW i \in DOMAIN new
      PROVE  KeptIn(after, new[i].node_num, Len(h) + 1)
    <2>1. Known(new, new[i].node_num)
        BY DEF Known, Slots
    <2> HIDE DEF new
    <2>2. KeptIn(after, new[i].node_num, Len(after))
        BY <1>5, <2>1, KeptIsKnown
    <2>3. QED
        BY <1>2, <2>2
<1>7. \A i, j \in DOMAIN new : new[i].node_num = new[j].node_num => i = j
    BY <1>3 DEF Tells
<1>8. ASSUME NEW i \in DOMAIN table, new[i] = table[i], i \in DOMAIN new, f.from # table[i].node_num
      PROVE  LET stay == StayIn(after, new[i].node_num)
             IN  /\ stay # {}
                 /\ Counted(new[i], after, stay)
                 /\ new[i].long_name = LongNameIn(after, stay \cap (1 .. Len(h)))
    <2> DEFINE e == table[i]
    <2> HIDE DEF new
    <2>1. StayIn(h, e.node_num) # {} /\ Counted(e, h, StayIn(h, e.node_num))
          /\ e.long_name = LongNameIn(h, StayIn(h, e.node_num) \cap (1 .. Len(h)))
        BY DEF EntriesTold
    <2>2. KeptIn(after, e.node_num, Len(h) + 1) /\ f.from # e.node_num
        BY <1>6, <1>8
    <2> HIDE DEF e
    <2>3. LET stay == StayIn(after, e.node_num)
          IN  /\ stay # {}
              /\ Counted(e, after, stay)
              /\ e.long_name = LongNameIn(after, stay \cap (1 .. Len(h)))
        BY <2>1, <2>2, OthersTold DEF after
    <2>4. QED
        BY <1>8, <2>3 DEF e
<1>9. CASE f.from = NoNode
    <2>1. new = table
        BY <1>9 DEF Observed
    <2>2. \A i \in DOMAIN table : f.from # table[i].node_num
        BY <1>1, <1>9 DEF Tells, LastHeardIn, SendersIn
    <2> HIDE DEF new
    <2>3. EntriesTold(new, after, Len(h))
        BY <1>8, <2>1, <2>2 DEF EntriesTold
    <2>4. QED
        BY <2>3 DEF new, after
<1>10. CASE f.from # NoNode
    <2> DEFINE time  == base + (Len(h) + 1)
               e     == EntryFor(table, f.from)
               entry == WithHops([e EXCEPT !.rssi = f.rssi, !.last_seen = time, !.packets = @ + 1], f)
               slot  == SlotFor(table, f.from)
    <2>1. new = Put(table, slot, entry)
        BY <1>10 DEF Observed
    <2>2. \A i \in DOMAIN new : new[i] = IF i = slot THEN entry ELSE table[i]
        BY <2>1 DEF Put
    <2>3. slot \in DOMAIN new /\ \A i \in DOMAIN new : i # slot => i \in DOMAIN table
        BY <2>1 DEF Put
    <2>4. IsEntry(e) /\ Counted(e, h, StayIn(h, f.from)) /\ e.long_name = LongNameIn(h, StayIn(h, f.from))
        BY EntryForTold
    <2>5. e.node_num = f.from
        <3>1. Known(table, f.from) => table[Find(table, f.from)].node_num = f.from
            BY <1>1, FindsNode
        <3>2. QED
            BY <3>1 DEF EntryFor, NewEntry
    <2> HIDE DEF new, slot, e, time
    <2>6. entry.node_num = f.from
        BY <2>4, <2>5 DEF IsEntry, EntryFields, WithHops
    <2>7. new[slot] = entry /\ new[slot].node_num = f.from
        BY <2>2, <2>3, <2>6
    <2>8. LET stay == StayIn(after, new[slot].node_num)
          IN  /\ stay # {}
              /\ Counted(new[slot], after, stay)
              /\ new[slot].long_name = LongNameIn(after, stay \cap (1 .. Len(h)))
        <3>1. KeptIn(Append(h, f), f.from, Len(h) + 1)
            BY <1>6, <2>3, <2>7 DEF after
        <3>2. LET stay == StayIn(after, f.from)
              IN  /\ stay # {}
                  /\ Counted(entry, after, stay)
                  /\ entry.long_name = LongNameIn(after, stay \cap (1 .. Len(h)))
            BY <2>4, <3>1, SenderTold DEF after
        <3>3. QED
            BY <2>7, <3>2
    <2> HIDE DEF entry
    <2>9. ASSUME NEW i \in DOMAIN new, i # slot
          PROVE  new[i] = table[i] /\ i \in DOMAIN table /\ f.from # table[i].node_num
        <3>1. new[i] = table[i] /\ i \in DOMAIN table
            BY <2>2, <2>3, <2>9
        <3>2. new[i].node_num # f.from
            BY <1>7, <2>3, <2>7, <2>9
        <3>3. QED
            BY <3>1, <3>2
    <2>10. EntriesTold(new, after, Len(h))
        BY <1>8, <2>8, <2>9 DEF EntriesTold
    <2>11. QED
        BY <2>10 DEF new, after
<1>11. QED
    BY <1>9, <1>10

\* The name a NODEINFO gives completes what its sender's entry tells.
LEMMA NamedTold ==
    ASSUME NEW h \in Seq(Frame), NEW f \in Frame, NEW table, NEW k \in Nat, NEW base,
           IsHistory(Append(h, f), table, k, base), EntriesTold(table, Append(h, f), Len(h)),
           NEW new,
           \A i \in 1 .. k :
               new[i] = IF f.result = "ok" /\ f.portnum = "nodeinfo" /\ f.from = table[i].node_num
                        THEN WithUser(table[i], f.user) ELSE table[i],
           DOMAIN new = 1 .. k
    PROVE  EntriesTold(new, Append(h, f), Len(h) + 1)
<1> DEFINE after == Append(h, f)
           N     == Len(h) + 1
<1>1. Len(h) \in Nat /\ Len(after) = N /\ after[N] = f
    BY Appended
<1>2. IsTable(table, k) /\ DOMAIN table = 1 .. k
    BY DEF IsHistory, IsTable
<1> HIDE DEF after
<1>3. SUFFICES ASSUME NEW i \in 1 .. k
               PROVE  LET stay == StayIn(after, new[i].node_num)
                      IN  /\ stay # {}
                          /\ Counted(new[i], after, stay)
                          /\ new[i].long_name = LongNameIn(after, stay \cap (1 .. N))
    BY DEF EntriesTold, after
<1> DEFINE old  == table[i]
           node == old.node_num
           stay == StayIn(after, node)
<1>4. IsEntry(old)
    BY <1>2 DEF IsTable
<1>5. stay # {} /\ Counted(old, after, stay) /\ old.long_name = LongNameIn(after, stay \cap (1 .. Len(h)))
    BY <1>2 DEF EntriesTold, after
<1>6. stay \subseteq 1 .. N /\ 1 .. N = (1 .. Len(h)) \cup {N}
    <2>1. 1 .. N = (1 .. Len(h)) \cup {N}
        BY <1>1, SMT
    <2>2. QED
        BY <1>1, <2>1 DEF StayIn
<1>7. N \in stay <=> f.from = node
    <2>1. KeptIn(after, node, N)
        <3>1. Known(table, node)
            BY <1>2 DEF Known, Slots
        <3>2. KeptIn(after, node, Len(after))
            BY <3>1, KeptIsKnown DEF after
        <3>3. QED
            BY <1>1, <3>2
    <2>2. N \in 1 .. N /\ N .. N = {N}
        BY <1>1, SMT
    <2>3. QED
        BY <1>1, <2>1, <2>2 DEF StayIn
<1>8. new[i] = IF f.result = "ok" /\ f.portnum = "nodeinfo" /\ f.from = node THEN WithUser(old, f.user) ELSE old
    OBVIOUS
<1> HIDE DEF old
<1>9. /\ new[i].node_num = node /\ new[i].packets = old.packets /\ new[i].rssi = old.rssi
      /\ new[i].has_hops = old.has_hops /\ new[i].hops_away = old.hops_away
      /\ new[i].long_name = IF GivesLongName(f) /\ f.from = node THEN f.user.long_name ELSE old.long_name
    BY <1>4, <1>8 DEF IsEntry, EntryFields, WithUser, GivesLongName
<1> HIDE DEF node, stay
<1>10. Counted(new[i], after, stay)
    BY <1>5, <1>9 DEF Counted
<1>11. new[i].long_name = LongNameIn(after, stay \cap (1 .. N))
    <2> DEFINE earlier == stay \cap (1 .. Len(h))
    <2>1. CASE f.from = node
        <3>1. stay \cap (1 .. N) = earlier \cup {N} /\ earlier \subseteq 1 .. Len(h)
            BY <1>6, <1>7, <2>1
        <3> HIDE DEF earlier
        <3>2. LongNameIn(after, earlier \cup {N}) =
                  IF GivesLongName(after[N]) THEN after[N].user.long_name ELSE LongNameIn(after, earlier)
            BY <1>1, <3>1, NameOfNext
        <3>3. QED
            BY <1>1, <1>5, <1>9, <2>1, <3>1, <3>2 DEF earlier
    <2>2. CASE f.from # node
        <3>1. stay \cap (1 .. N) = earlier
            BY <1>6, <1>7, <2>2
        <3>2. QED
            BY <1>5, <1>9, <2>2, <3>1
    <2>3. QED
        BY <2>1, <2>2
<1>12. QED
    BY <1>5, <1>9, <1>10, <1>11 DEF stay

(* While a frame is being taken in, its sender's entry has counted it and  *)
(* does not yet tell the name it gives.                                    *)
HistoryInv ==
    /\ radio # "name" => EntriesTold(roster, heard, Len(heard))
    /\ radio = "name" => EntriesTold(roster, Append(heard, rx_event), Len(heard))

LEMMA HistoryInitially == Init => HistoryInv
<1> SUFFICES ASSUME Init PROVE HistoryInv
    OBVIOUS
<1>1. DOMAIN roster = {} /\ radio = "poll"
    BY SMT DEF Init
<1>2. QED
    BY <1>1 DEF HistoryInv, EntriesTold

LEMMA HistoryStep ==
    ASSUME HopsSurvive, MessagesInv, RosterInv, HistoryInv, [Next]_vars
    PROVE  HistoryInv'
<1>1. heard \in Seq(Frame) /\ Len(heard) \in Nat /\ Start \in Nat
    BY LenProperties, ReceiveAssumption, SMT DEF MessagesInv, RosterInv
<1>2. CASE radio # "name" /\ radio' # "name" /\ UNCHANGED <<roster, heard>>
    BY <1>2 DEF HistoryInv
<1>3. CASE radio = "name" /\ radio' = "name" /\ UNCHANGED <<roster, heard, rx_event>>
    BY <1>3 DEF HistoryInv
<1>4. CASE ObserveNode
    <2>1. /\ radio = "observe" /\ radio' = "name" /\ UNCHANGED <<heard, now, rx_event>>
          /\ roster' = Observed(roster, rx_event, now)
          /\ rx_event \in Frame
        BY <1>4 DEF ObserveNode, MessagesInv
    <2>2. now = Start + (Len(heard) + 1)
        BY <1>1, <2>1, SMT DEF Start, RosterInv
    <2>3. PICK k \in Nat : IsHistory(heard, roster, k, Start)
        BY <1>1, <2>1 DEF RosterInv, IsHistory, IsRoster
    <2>4. EntriesTold(roster, heard, Len(heard))
        BY <2>1 DEF HistoryInv
    <2>5. EntriesTold(roster', Append(heard, rx_event), Len(heard))
        BY <1>1, <2>1, <2>2, <2>3, <2>4, ObservedTold
    <2>6. QED
        BY <2>1, <2>5 DEF HistoryInv
<1>5. CASE NameNode
    <2>1. /\ radio = "name" /\ radio' = "poll"
          /\ heard' = Append(heard, rx_event) /\ rx_event \in Frame
          /\ roster' = IF rx_event.result = "ok" /\ rx_event.portnum = "nodeinfo"
                       THEN UserSet(roster, rx_event.from, rx_event.user, now) ELSE roster
        BY <1>5 DEF NameNode, MessagesInv
    <2>2. Len(heard') = Len(heard) + 1 /\ Len(Append(heard, rx_event)) \in Nat
        BY <1>1, <2>1, Appended, SMT
    <2>3. PICK k \in Nat : IsHistory(Append(heard, rx_event), roster, k, Start)
        BY <2>1, <2>2 DEF RosterInv, IsHistory, IsRoster
    <2>4. EntriesTold(roster, Append(heard, rx_event), Len(heard))
        BY <2>1 DEF HistoryInv
    <2>5. /\ IsTable(roster, k)
          /\ DOMAIN roster = 1 .. k
          /\ \A i, j \in 1 .. k : roster[i].node_num = roster[j].node_num => i = j
          /\ \A i \in 1 .. k : roster[i].node_num # NoNode
        <3>1. IsTable(roster, k) /\ DOMAIN roster = 1 .. k
            BY <2>3 DEF IsHistory, IsTable
        <3>2. Tells(roster, LastHeardIn(Append(heard, rx_event)), Start)
            BY <2>3 DEF IsHistory
        <3>3. NoNode \notin DOMAIN LastHeardIn(Append(heard, rx_event))
            BY DEF LastHeardIn, SendersIn
        <3>4. QED
            BY <3>1, <3>2, <3>3 DEF Tells
    <2> DEFINE named == rx_event.result = "ok" /\ rx_event.portnum = "nodeinfo"
    <2>6. /\ DOMAIN roster' = 1 .. k
          /\ \A i \in 1 .. k :
                roster'[i] = IF named /\ rx_event.from = roster[i].node_num
                             THEN WithUser(roster[i], rx_event.user) ELSE roster[i]
        <3>1. CASE ~named
            BY <2>1, <2>5, <3>1
        <3>2. CASE named /\ rx_event.from = NoNode
            BY <2>1, <2>5, <3>2 DEF UserSet
        <3>3. CASE named /\ rx_event.from # NoNode
            <4>1. Known(roster, rx_event.from)
                BY <2>1, <3>3 DEF RosterInv
            <4>2. Find(roster, rx_event.from) \in 1 .. k
                  /\ roster[Find(roster, rx_event.from)].node_num = rx_event.from
                BY <2>5, <4>1, FindsNode
            <4>3. /\ IsTable(roster', k)
                  /\ \A i \in 1 .. k : roster'[i] = IF i = Find(roster, rx_event.from)
                                                    THEN WithUser(roster[i], rx_event.user) ELSE roster[i]
                BY <2>1, <2>5, <3>3, <4>1, NamedEntries
            <4>4. \A i \in 1 .. k : i = Find(roster, rx_event.from) <=> rx_event.from = roster[i].node_num
                BY <2>5, <4>2
            <4>5. QED
                BY <3>3, <4>3, <4>4 DEF IsTable
        <3>4. QED
            BY <3>1, <3>2, <3>3
    <2>7. EntriesTold(roster', Append(heard, rx_event), Len(heard) + 1)
        BY <1>1, <2>1, <2>3, <2>4, <2>6, NamedTold
    <2>8. QED
        BY <2>1, <2>2, <2>7 DEF HistoryInv
<1>6. CASE RadioThread /\ ~ObserveNode /\ ~NameNode
    BY <1>2, <1>6 DEF RadioThread, Poll, CountFrame, FillSlot, IgnoreEvent, AdvanceRing, modelVars
<1>7. CASE MainLoop \/ UNCHANGED vars
    <2>1. UNCHANGED <<roster, heard, rx_event, radio>>
        BY <1>7 DEF MainLoop, Turn, ResetScroll, ScrollUp, ScrollDown, CountRows, ClampScroll, vars, modelVars, radioVars
    <2>2. QED
        BY <1>2, <1>3, <2>1
<1>8. QED
    BY <1>4, <1>5, <1>6, <1>7 DEF Next

(* Each entry tells what was last heard from its node since it came into   *)
(* the table, and nothing of a node that held the slot before it, however  *)
(* often nodes come, go and come back - as long as the tick counter does   *)
(* not wrap and no frame survived more hops than its sender set.           *)
THEOREM RosterTold == ASSUME NoWrap, HopsSurvive PROVE Spec => []RosterTellsHistory
<1>1. MessagesInv /\ RosterInv /\ [Next]_vars => RosterInv'
    BY RosterStep
<1>2. MessagesInv /\ RosterInv /\ HistoryInv /\ [Next]_vars => HistoryInv'
    BY HistoryStep
<1>3. MessagesInv /\ HistoryInv => RosterTellsHistory
    <2> SUFFICES ASSUME MessagesInv, HistoryInv, MutexFree PROVE RosterTellsHistory
        BY DEF RosterTellsHistory
    <2>1. Len(heard) \in Nat /\ EntriesTold(roster, heard, Len(heard))
        BY LenProperties DEF MessagesInv, HistoryInv, MutexFree
    <2>2. ASSUME NEW node PROVE Stay(node) = StayIn(heard, node) /\ Stay(node) \cap (1 .. Len(heard)) = Stay(node)
        <3>1. \A n : KeptIn(heard, node, n) <=> Kept(node, n)
            BY DEF Senders, SendersIn, LastHeard, LastIn, Rank, RankIn, Kept, KeptIn
        <3>2. QED
            BY <3>1 DEF Stay, StayIn
    <2>3. ASSUME NEW i \in DOMAIN roster
          PROVE  LET entry == roster[i]
                     stay  == Stay(entry.node_num)
                 IN  /\ entry.packets = Cardinality(stay)
                     /\ entry.rssi = heard[Newest(stay)].rssi
                     /\ entry.long_name = Learned(stay, GivesLongName, LongNameOf, NoName)
                     /\ entry.has_hops => entry.hops_away = Learned(stay, HasHops, HopsOf, 0)
                     /\ entry.has_hops <=> \E k \in stay : HasHops(heard[k])
        <3> DEFINE entry == roster[i]
                   stay  == Stay(entry.node_num)
        <3>1. stay # {} /\ Counted(entry, heard, stay) /\ entry.long_name = LongNameIn(heard, stay)
            BY <2>1, <2>2 DEF EntriesTold
        <3> HIDE DEF entry, stay
        <3>2. entry.packets = Cardinality(stay) /\ entry.rssi = heard[Newest(stay)].rssi
            BY <3>1 DEF Counted
        <3>3. entry.long_name = Learned(stay, GivesLongName, LongNameOf, NoName)
            BY <3>1 DEF Learned, LongNameIn, NamesIn, LongNameOf
        <3>4. entry.has_hops => entry.hops_away = Learned(stay, HasHops, HopsOf, 0)
            BY <3>1 DEF Learned, Counted, HopsIn
        <3>5. entry.has_hops <=> \E k \in stay : HasHops(heard[k])
            BY <3>1 DEF Counted, HopsIn
        <3>6. QED
            BY <3>2, <3>3, <3>4, <3>5 DEF entry, stay
    <2>4. QED
        BY <2>3 DEF RosterTellsHistory
<1>4. QED
    BY RosterInitially, HistoryInitially, MessagesInvariant, <1>1, <1>2, <1>3, PTL DEF Spec

-----------------------------------------------------------------------------
(* Who is in the node list, whatever the clock says *)

Listed(table, node) == \E i \in DOMAIN table : table[i].node_num = node

(* No node is listed twice and none that was not heard; the node heard     *)
(* last is listed; one that is missing was given up by a full table.       *)
Lists(table, h) ==
    /\ \A i, j \in DOMAIN table : table[i].node_num = table[j].node_num => i = j
    /\ \A i \in DOMAIN table : table[i].node_num \in SendersIn(h, Len(h))
    /\ \A node \in SendersIn(h, Len(h)) : Listed(table, node) \/ Len(table) = NODE_ROSTER_CAPACITY
    /\ Len(h) > 0 /\ h[Len(h)].from # NoNode => Listed(table, h[Len(h)].from)

\* The entry of a frame's sender is written where no other entry of it is.
LEMMA PutLists ==
    ASSUME NEW table, NEW k \in Nat, IsTable(table, k), NEW h, Lists(table, h),
           NEW node, NEW entry, IsEntry(entry), entry.node_num = node
    PROVE  LET new == Put(table, SlotFor(table, node), entry)
           IN  /\ \A i, j \in DOMAIN new : new[i].node_num = new[j].node_num => i = j
               /\ \A i \in DOMAIN new : new[i].node_num \in SendersIn(h, Len(h)) \cup {node}
               /\ \A m \in SendersIn(h, Len(h)) : Listed(new, m) \/ Len(new) = NODE_ROSTER_CAPACITY
               /\ Listed(new, node)
<1> DEFINE slot == SlotFor(table, node)
           new  == Put(table, slot, entry)
           m    == IF slot = k + 1 THEN k + 1 ELSE k
<1>1. /\ DOMAIN table = 1 .. k /\ Len(table) = k /\ k <= NODE_ROSTER_CAPACITY
      /\ NODE_ROSTER_CAPACITY \in Nat \ {0}
    BY RosterCapacityAssumption DEF IsTable
<1>2. \/ slot \in 1 .. k /\ table[slot].node_num = node
      \/ slot = k + 1 /\ k < NODE_ROSTER_CAPACITY /\ \A i \in 1 .. k : table[i].node_num # node
      \/ slot \in 1 .. k /\ k = NODE_ROSTER_CAPACITY /\ \A i \in 1 .. k : table[i].node_num # node
    BY SlotChosen
<1>3. slot \in 1 .. k \/ (slot = k + 1 /\ k + 1 <= NODE_ROSTER_CAPACITY)
    <2> HIDE DEF slot
    <2>1. QED
        BY <1>1, <1>2, SMT
<1>4. IsTable(new, m) /\ \A i \in 1 .. m : new[i] = IF i = slot THEN entry ELSE table[i]
    BY <1>3, PutInTable
<1> HIDE DEF slot, new
<1>5. /\ slot \in 1 .. m
      /\ \A i \in 1 .. m : i # slot => i \in 1 .. k
      /\ \A i \in 1 .. k : i \in 1 .. m
    BY <1>3, SMT
<1>6. DOMAIN new = 1 .. m /\ Len(new) = m
    BY <1>4 DEF IsTable
<1>7. slot \in 1 .. k => m = k
    BY SMT
<1> HIDE DEF m
<1>8. \A i \in 1 .. m : i # slot => table[i].node_num # node
    BY <1>1, <1>2, <1>5 DEF Lists
<1>9. \A i, j \in DOMAIN new : new[i].node_num = new[j].node_num => i = j
    BY <1>1, <1>4, <1>5, <1>6, <1>8 DEF Lists
<1>10. \A i \in DOMAIN new : new[i].node_num \in SendersIn(h, Len(h)) \cup {node}
    BY <1>1, <1>4, <1>5, <1>6 DEF Lists
<1>11. Listed(new, node)
    BY <1>4, <1>5, <1>6 DEF Listed
<1>12. ASSUME NEW a \in SendersIn(h, Len(h)), ~Listed(new, a)
       PROVE  Len(new) = NODE_ROSTER_CAPACITY
    <2>1. CASE Len(table) = NODE_ROSTER_CAPACITY
        <3>1. k = NODE_ROSTER_CAPACITY /\ slot # k + 1
            BY <1>1, <1>3, <2>1, SMT
        <3>2. m = k
            BY <1>3, <1>7, <3>1
        <3>3. QED
            BY <1>6, <3>1, <3>2
    <2>2. CASE Listed(table, a)
        <3>1. PICK i \in 1 .. k : table[i].node_num = a
            BY <1>1, <2>2 DEF Listed
        <3>2. i = slot /\ a # node
            BY <1>4, <1>5, <1>6, <1>11, <1>12, <3>1 DEF Listed
        <3>3. k = NODE_ROSTER_CAPACITY /\ slot \in 1 .. k
            <4>1. slot \in 1 .. k /\ table[slot].node_num # node
                BY <3>1, <3>2
            <4>2. slot # k + 1
                BY <4>1, SMT
            <4>3. QED
                BY <1>2, <4>1, <4>2
        <3>4. QED
            BY <1>6, <1>7, <3>3
    <2>3. QED
        BY <2>1, <2>2 DEF Lists
<1>13. QED
    BY <1>9, <1>10, <1>11, <1>12 DEF new, slot

LEMMA ObservedLists ==
    ASSUME NEW table, IsRoster(table), NEW h \in Seq(Frame), NEW f \in Frame,
           NEW time \in Nat, Lists(table, h)
    PROVE  Lists(Observed(table, f, time), Append(h, f))
<1> DEFINE old   == EntryFor(table, f.from)
           seen  == [old EXCEPT !.rssi = f.rssi, !.last_seen = time, !.packets = @ + 1]
           entry == WithHops(seen, f)
           new   == Append(h, f)
<1>1. PICK k \in Nat : IsTable(table, k)
    BY DEF IsRoster
<1>2. /\ Len(h) \in Nat /\ Len(new) = Len(h) + 1 /\ new[Len(h) + 1] = f
      /\ SendersIn(new, Len(h) + 1) = SendersIn(h, Len(h)) \cup ({f.from} \ {NoNode})
    BY Appended, LastAppended
<1> HIDE DEF new
<1>3. CASE f.from = NoNode
    <2>1. Observed(table, f, time) = table
        BY <1>3 DEF Observed
    <2>2. SendersIn(new, Len(new)) = SendersIn(h, Len(h)) /\ new[Len(new)].from = NoNode
        BY <1>2, <1>3 DEF SendersIn
    <2>3. Lists(table, new)
        BY <2>2 DEF Lists
    <2>4. QED
        BY <2>1, <2>3 DEF new
<1>4. CASE f.from # NoNode
    <2>1. IsEntry(old) /\ old.node_num = f.from
        <3>1. IsEntry(old)
            BY <1>1, EntryForIsEntry
        <3>2. Known(table, f.from) => table[Find(table, f.from)].node_num = f.from
            BY <1>1, FindsNode DEF IsTable
        <3>3. QED
            BY <3>1, <3>2 DEF EntryFor, NewEntry
    <2> HIDE DEF old
    <2>2. IsEntry(seen) /\ seen.node_num = f.from
        BY <2>1 DEF IsEntry, EntryFields
    <2> HIDE DEF seen
    <2>3. IsEntry(entry) /\ entry.node_num = f.from
        BY <2>2 DEF IsEntry, EntryFields, WithHops
    <2>4. Observed(table, f, time) = Put(table, SlotFor(table, f.from), entry)
        BY <1>4 DEF Observed, entry, seen, old
    <2> HIDE DEF entry
    <2> DEFINE put == Put(table, SlotFor(table, f.from), entry)
    <2>5. /\ \A i, j \in DOMAIN put : put[i].node_num = put[j].node_num => i = j
          /\ \A i \in DOMAIN put : put[i].node_num \in SendersIn(h, Len(h)) \cup {f.from}
          /\ \A m \in SendersIn(h, Len(h)) : Listed(put, m) \/ Len(put) = NODE_ROSTER_CAPACITY
          /\ Listed(put, f.from)
        BY <1>1, <2>3, PutLists
    <2> HIDE DEF put
    <2>6. SendersIn(new, Len(new)) = SendersIn(h, Len(h)) \cup {f.from} /\ new[Len(new)] = f
        BY <1>2, <1>4
    <2>7. Lists(put, new)
        BY <2>5, <2>6 DEF Lists
    <2>8. QED
        BY <2>4, <2>7 DEF put, new
<1>5. QED
    BY <1>3, <1>4

\* To name a node that is listed leaves the list of nodes alone.
LEMMA NamedLists ==
    ASSUME NEW table, IsRoster(table), NEW node, node = NoNode \/ Listed(table, node),
           NEW user, NEW time, NEW h, Lists(table, h)
    PROVE  Lists(UserSet(table, node, user, time), h)
<1> DEFINE new == UserSet(table, node, user, time)
<1>1. PICK k \in Nat : IsTable(table, k)
    BY DEF IsRoster
<1>2. CASE node = NoNode
    BY <1>2 DEF UserSet
<1>3. CASE node # NoNode
    <2>1. Known(table, node)
        BY <1>3 DEF Known, Slots, Listed
    <2>2. /\ IsTable(new, k)
          /\ \A i \in 1 .. k : new[i] = IF i = Find(table, node) THEN WithUser(table[i], user) ELSE table[i]
        BY <1>1, <1>3, <2>1, NamedEntries
    <2> HIDE DEF new
    <2>3. \A i \in 1 .. k : new[i].node_num = table[i].node_num
        BY <1>1, <2>2 DEF WithUser, IsTable, IsEntry, EntryFields
    <2>4. DOMAIN new = DOMAIN table /\ DOMAIN table = 1 .. k /\ Len(new) = Len(table)
        BY <1>1, <2>2 DEF IsTable
    <2>5. \A m : Listed(new, m) <=> Listed(table, m)
        BY <2>3, <2>4 DEF Listed
    <2>6. Lists(new, h)
        BY <2>3, <2>4, <2>5 DEF Lists
    <2>7. QED
        BY <2>6 DEF new
<1>4. QED
    BY <1>2, <1>3

ListedInv ==
    /\ radio # "name" => Lists(roster, heard)
    /\ radio = "name" => Lists(roster, Append(heard, rx_event))

LEMMA ListedInitially == Init => ListedInv
<1> SUFFICES ASSUME Init PROVE ListedInv
    OBVIOUS
<1>1. DOMAIN roster = {} /\ Len(heard) = 0 /\ radio = "poll"
    BY SMT DEF Init
<1>2. SendersIn(heard, 0) = {}
    BY SMT DEF SendersIn
<1>3. ~(Len(heard) > 0)
    BY <1>1, SMT
<1>4. Lists(roster, heard)
    BY <1>1, <1>2, <1>3 DEF Lists
<1>5. QED
    BY <1>1, <1>4 DEF ListedInv

LEMMA ListedStep ==
    ASSUME RowInv, MessagesInv, ListedInv, [Next]_vars
    PROVE  ListedInv'
<1>1. heard \in Seq(Frame) /\ IsRoster(roster) /\ now \in Nat
    BY DEF MessagesInv, RowInv
<1>2. ASSUME NEW frame \in Frame, Poll(frame) PROVE ListedInv'
    BY <1>2 DEF Poll, ListedInv, modelVars
<1>3. CASE CountFrame \/ FillSlot \/ IgnoreEvent \/ AdvanceRing
    BY <1>3 DEF CountFrame, FillSlot, IgnoreEvent, AdvanceRing, ListedInv, modelVars
<1>4. CASE ObserveNode
    <2>1. /\ radio = "observe" /\ radio' = "name" /\ UNCHANGED <<heard, rx_event>>
          /\ roster' = Observed(roster, rx_event, now)
          /\ rx_event \in Frame
        BY <1>4 DEF ObserveNode, MessagesInv
    <2>2. Lists(roster, heard)
        BY <2>1 DEF ListedInv
    <2>3. Lists(roster', Append(heard, rx_event))
        BY <1>1, <2>1, <2>2, ObservedLists
    <2>4. QED
        BY <2>1, <2>3 DEF ListedInv
<1>5. CASE NameNode
    <2>1. /\ radio = "name" /\ radio' = "poll"
          /\ heard' = Append(heard, rx_event) /\ rx_event \in Frame
          /\ \/ roster' = roster
             \/ roster' = UserSet(roster, rx_event.from, rx_event.user, now)
        BY <1>5 DEF NameNode, MessagesInv
    <2>2. Lists(roster, heard')
        BY <2>1 DEF ListedInv
    <2>3. Len(heard') > 0 /\ heard'[Len(heard')] = rx_event
        <3>1. Len(heard) \in Nat /\ Len(heard') = Len(heard) + 1 /\ heard'[Len(heard) + 1] = rx_event
            BY <1>1, <2>1, Appended
        <3>2. QED
            BY <3>1, SMT
    <2>4. rx_event.from = NoNode \/ Listed(roster, rx_event.from)
        BY <2>2, <2>3 DEF Lists
    <2>5. Lists(roster', heard')
        BY <1>1, <2>1, <2>2, <2>4, NamedLists
    <2>6. QED
        BY <2>1, <2>5 DEF ListedInv
<1>6. CASE MainLoop \/ UNCHANGED vars
    <2>1. UNCHANGED <<roster, heard, rx_event, radio>>
        BY <1>6 DEF MainLoop, Turn, ResetScroll, ScrollUp, ScrollDown, CountRows, ClampScroll, vars, modelVars, radioVars
    <2>2. QED
        BY <2>1 DEF ListedInv
<1>7. QED
    BY <1>2, <1>3, <1>4, <1>5, <1>6 DEF Next, RadioThread

(* Also across the wrap of the tick counter, where the order of the list   *)
(* is lost and the wrong node given up, no node is listed twice, none that *)
(* was not heard, and the one just heard is; while there is room, every    *)
(* node heard is listed.                                                   *)
THEOREM NodesListedOnce == Spec => [](MutexFree => Lists(roster, heard))
<1>1. RowInv /\ [Next]_vars => RowInv'
    BY RowsRadioStep, RowsViewStep DEF Next
<1>2. RowInv /\ MessagesInv /\ ListedInv /\ [Next]_vars => ListedInv'
    BY ListedStep
<1>3. ListedInv => (MutexFree => Lists(roster, heard))
    BY DEF ListedInv, MutexFree
<1>4. QED
    BY RowsInitially, MessagesInvariant, ListedInitially, <1>1, <1>2, <1>3, PTL DEF Spec

-----------------------------------------------------------------------------
(* Types *)

\* A frame is counted when the mutex is taken for it, before it is history.
CountInv ==
    /\ Len(heard) <= MaxFrames
    /\ radio # "poll" => Len(heard) < MaxFrames
    /\ total_frames = IF MutexFree THEN Len(heard) ELSE Len(heard) + 1
    /\ now \in 0 .. TICK_RANGE - 1
    /\ page \in 0 .. PageCount - 1

LEMMA CountInitially == Init => CountInv
<1> SUFFICES ASSUME Init PROVE CountInv
    OBVIOUS
<1>1. Len(heard) = 0 /\ radio = "poll" /\ total_frames = 0 /\ page = 0
    BY SMT DEF Init, PageHome
<1>2. now \in 0 .. TICK_RANGE - 1
    BY ReceiveAssumption DEF Init
<1>3. QED
    BY <1>1, <1>2, ReceiveAssumption, SMT DEF CountInv, MutexFree, PageCount

LEMMA CountStep ==
    ASSUME MessagesInv, CountInv, [Next]_vars
    PROVE  CountInv'
<1>1. heard \in Seq(Frame) /\ Len(heard) \in Nat /\ MaxFrames \in Nat /\ TICK_RANGE \in Nat \ {0}
    BY LenProperties, ReceiveAssumption DEF MessagesInv
<1>2. ASSUME NEW frame \in Frame, Poll(frame) PROVE CountInv'
    <2>1. now' \in 0 .. TICK_RANGE - 1
        BY <1>1, <1>2, SMT DEF Poll, CountInv
    <2>2. QED
        BY <1>2, <2>1 DEF Poll, CountInv, modelVars, viewVars, MutexFree
<1>3. CASE CountFrame
    BY <1>3 DEF CountFrame, CountInv, viewVars, MutexFree
<1>4. CASE FillSlot \/ IgnoreEvent \/ AdvanceRing \/ ObserveNode
    BY <1>4 DEF FillSlot, IgnoreEvent, AdvanceRing, ObserveNode, CountInv, modelVars, viewVars, MutexFree
<1>5. CASE NameNode
    <2>1. Len(heard') = Len(heard) + 1 /\ radio = "name" /\ radio' = "poll"
          /\ UNCHANGED <<total_frames, now, page>>
        BY <1>5, Appended DEF NameNode, viewVars, MessagesInv
    <2>2. QED
        BY <1>1, <2>1, SMT DEF CountInv, MutexFree
<1>6. CASE Turn(1) \/ Turn(PageCount - 1)
    <2>1. page' \in 0 .. PageCount - 1
        BY <1>6, SMT DEF Turn, CountInv, PageCount
    <2>2. QED
        BY <1>6, <2>1 DEF Turn, CountInv, modelVars, radioVars, MutexFree
<1>7. CASE ResetScroll \/ ScrollUp \/ ScrollDown \/ CountRows \/ ClampScroll \/ UNCHANGED vars
    <2>1. UNCHANGED <<heard, radio, total_frames, now, page>>
        BY <1>7 DEF ResetScroll, ScrollUp, ScrollDown, CountRows, ClampScroll, vars, modelVars, radioVars, viewVars
    <2>2. QED
        BY <2>1 DEF CountInv, MutexFree
<1>8. QED
    BY <1>2, <1>3, <1>4, <1>5, <1>6, <1>7 DEF Next, RadioThread, MainLoop

(* The ring and the table stay within their arrays, the frame counter      *)
(* counts no frame twice, and the page is one there is.                    *)
THEOREM ReceiveTypeCorrect == Spec => []ReceiveTypeOK
<1>1. RowInv /\ [Next]_vars => RowInv'
    BY RowsRadioStep, RowsViewStep DEF Next
<1>2. MessagesInv /\ CountInv /\ [Next]_vars => CountInv'
    BY CountStep
<1>3. RowInv /\ MessagesInv /\ CountInv => ReceiveTypeOK
    <2> SUFFICES ASSUME RowInv, MessagesInv, CountInv PROVE ReceiveTypeOK
        OBVIOUS
    <2>1. messages.count \in 0 .. MESSAGE_RING_CAPACITY /\ messages.head \in 0 .. MESSAGE_RING_CAPACITY - 1
        BY RingCapacityAssumption, SMT DEF RowInv, IsRing
    <2>2. Len(roster) <= NODE_ROSTER_CAPACITY
        BY DEF RowInv, IsRoster, IsTable
    <2>3. total_frames \in 0 .. MaxFrames
        <3>1. Len(heard) \in Nat
            BY LenProperties DEF MessagesInv
        <3>2. QED
            BY <3>1, ReceiveAssumption, SMT DEF CountInv, MutexFree
    <2>4. QED
        BY <2>1, <2>2, <2>3 DEF ReceiveTypeOK, RowInv, CountInv
<1>4. QED
    BY RowsInitially, MessagesInvariant, CountInitially, <1>1, <1>2, <1>3, PTL DEF Spec

=============================================================================

--------------------------- MODULE LinkDiagramProofs ---------------------------
(***************************************************************************)
(* Theorems about a redraw: for any number of events and devices, in any   *)
(* order of the hash tables, the links are the right ones.                 *)
(***************************************************************************)
EXTENDS LinkDiagram, FiniteSetTheorems, SequenceTheorems, TLAPS

addr(ed) == ed.event.parsed.device_address

(* The boxes: no two in one row, and each of a device that is drawn.       *)
BoxesAreApart ==
    /\ IsFiniteSet(events_diagram)
    /\ \A x, y \in events_diagram : x.row = y.row => x = y
    /\ \A x \in events_diagram : x.event.has_device => addr(x) \in devices_hash
    /\ pc = "events" =>
          \A x \in events_diagram :
              x.row \in Nat /\ x.row <= Cardinality(events_diagram)

InputIsShown ==
    /\ devices_hash \subseteq Address
    /\ \A k \in 1..Len(events_list) :
          events_list[k].has_device =>
              events_list[k].parsed.device_address \in devices_hash

(* The columns of the devices whose turn was. *)
ColumnsAreDrawn ==
    /\ pc = "events" => DOMAIN devices_diagram = {}
    /\ pc = "devices" => DOMAIN devices_diagram = devices_hash \ todo
    /\ pc \notin {"events", "devices"} => DOMAIN devices_diagram = devices_hash
    /\ devices_diagram \in [DOMAIN devices_diagram -> 1..Cardinality(Address)]

NothingIsLinked ==
    pc \in {"events", "devices"} =>
        DOMAIN links = {} /\ DOMAIN device_connection = {} /\ dd = NoColumn

(* How device a stands when the events V of its connection events have     *)
(* been visited: the one waiting, if any, is the odd one out.              *)
pairs_in(L, ed) == {l \in DOMAIN L : l.kind = "pair" /\ ed.row \in l.rows}
once_in(L, S) == \E l \in S : S = {l} /\ L[l] = 1

PairedOff(a, V, table, L) ==
    /\ a \in DOMAIN table <=> Cardinality(V) % 2 = 1
    /\ a \in DOMAIN table => table[a] \in V
    /\ \A ed \in V : IF a \in DOMAIN table /\ table[a] = ed
                     THEN pairs_in(L, ed) = {} ELSE once_in(L, pairs_in(L, ed))

VisitedArePairedOff ==
    pc = "connections" =>
        /\ \A l \in DOMAIN links : l.kind = "pair"
        /\ \A l \in DOMAIN links, x \in todo : x.row \notin l.rows
        /\ \A a \in devices_hash :
              PairedOff(a, connectionsOf(a) \ todo, device_connection, links)

(* The second loop has its column; before it draws, all are paired off.    *)
CompletionIsReady ==
    /\ pc \in {"connections", "complete"} =>
          (DOMAIN device_connection # {} => dd # NoColumn)
    /\ pc = "complete" =>
          /\ todo \subseteq DOMAIN device_connection
          /\ \A l \in DOMAIN links : l.kind \in {"pair", "open"}
          /\ drawn("open") = {} =>
                \A a \in devices_hash :
                    PairedOff(a, connectionsOf(a), device_connection, links)

(* The third loop: the events visited have their arrows, the others none.  *)
arrows_in(L, ed) ==
    {l \in DOMAIN L : l.kind \in {"to_device", "from_device"} /\ l.rows = {ed.row}}

HasItsArrow(ed, L, columns) ==
    /\ once_in(L, arrows_in(L, ed))
    /\ \A l \in arrows_in(L, ed) : l.column = columns[addr(ed)]

VisitedHaveArrows ==
    pc \in {"comunications", "done"} =>
        /\ pc = "done" => todo = {}
        /\ \A ed \in events_diagram :
              IF has_arrow(ed) /\ ed \notin todo
              THEN HasItsArrow(ed, links, devices_diagram)
              ELSE arrows_in(links, ed) = {}

LinkInv ==
    /\ TypeOK
    /\ InputIsShown
    /\ BoxesAreApart
    /\ ColumnsAreDrawn
    /\ NothingIsLinked
    /\ PairsJoinOneDevice
    /\ VisitedArePairedOff
    /\ CompletionIsReady
    /\ VisitedHaveArrows
-----------------------------------------------------------------------------
(* Drawing a link adds it to those there are. *)
Link(kind, rows, column) == [kind |-> kind, rows |-> rows, column |-> column]
Adding(L, l) == L (+) SetToBag({l})

Adds(L, l0, M) ==
    /\ DOMAIN M = DOMAIN L \cup {l0}
    /\ \A l \in DOMAIN L : l # l0 => M[l] = L[l]
    /\ l0 \notin DOMAIN L => M[l0] = 1

LEMMA DrawingAdds ==
    ASSUME NEW L, NEW l0, NEW M, IsABag(L), M = Adding(L, l0)
    PROVE  IsABag(M) /\ Adds(L, l0, M)
<1> DEFINE B  == SetToBag({l0})
<1>1. M = L (+) B
  BY DEF Adding
<1>2. DOMAIN B = {l0} /\ B[l0] = 1
  BY DEF SetToBag
<1>3. L \in [DOMAIN L -> {n \in Nat : n > 0}]
  BY DEF IsABag
<1> HIDE DEF B
<1>4. /\ DOMAIN M = DOMAIN L \cup {l0}
      /\ \A l \in DOMAIN L \cup {l0} :
            M[l] = (IF l \in DOMAIN L THEN L[l] ELSE 0)
                        + (IF l \in {l0} THEN 1 ELSE 0)
  BY <1>1, <1>2 DEF (+)
<1>5. M = [l \in DOMAIN L \cup {l0} |-> M[l]]
  BY <1>1, <1>2 DEF (+)
<1>6. ASSUME NEW l \in DOMAIN L \cup {l0}
      PROVE  /\ M[l] \in {n \in Nat : n > 0}
             /\ l \in DOMAIN L /\ l # l0 => M[l] = L[l]
             /\ l = l0 /\ l \notin DOMAIN L => M[l] = 1
  <2>1. l \in DOMAIN L => L[l] \in Nat /\ L[l] > 0
    BY <1>3
  <2>2. M[l] = (IF l \in DOMAIN L THEN L[l] ELSE 0)
                    + (IF l = l0 THEN 1 ELSE 0)
    BY <1>4
  <2>3. QED
    BY <2>1, <2>2
<1>7. M \in [DOMAIN M -> {n \in Nat : n > 0}]
  BY <1>4, <1>5, <1>6
<1>8. IsABag(M)
  BY <1>7 DEF IsABag
<1>9. QED
  BY <1>4, <1>6, <1>8 DEF Adds

(* The input of a redraw is a sequence of events of devices that are shown. *)
LEMMA ShownAreEvents ==
    ASSUME NEW s \in ShownEvents
    PROVE  \E n \in Nat :
              /\ DOMAIN s = 1..n /\ Len(s) = n
              /\ \A k \in 1..n :
                    /\ s[k].parsed \in Parsed
                    /\ s[k].has_device <=> s[k].parsed.device_address # NoAddress
<1> DEFINE shown(n, p) ==
             [k \in 1..n |-> [seq_number |-> n - k,
                              has_device |-> p[k].device_address # NoAddress,
                              parsed     |-> p[k]]]
<1>1. PICK n \in 0..MaxShown : \E p \in [1..n -> Parsed] : s = shown(n, p)
  BY DEF ShownEvents
<1>2. PICK p \in [1..n -> Parsed] : s = shown(n, p)
  BY <1>1
<1>3. DOMAIN s = 1..n
  BY <1>2
<1> DEFINE S == {s[k] : k \in 1..n}
<1>4. n \in Nat /\ s \in [1..n -> S]
  BY <1>1, <1>2, <1>3, BoundAssumption
<1>5. Len(s) = n
  <2>1. s \in Seq(S)
    BY <1>4
  <2>2. DOMAIN s = 1..Len(s) /\ Len(s) \in Nat
    BY <2>1, LenProperties
  <2>3. QED
    BY <1>3, <1>4, <2>2
<1>6. \A k \in 1..n : /\ s[k].parsed \in Parsed
                      /\ s[k].has_device <=> s[k].parsed.device_address # NoAddress
  BY <1>2
<1>7. QED
  BY <1>3, <1>4, <1>5, <1>6

LEMMA RedrawStart == Init => LinkInv
<1> SUFFICES ASSUME Init PROVE LinkInv
  OBVIOUS
<1>1. /\ pc = "events" /\ todo = 1..Len(events_list) /\ events_diagram = {}
      /\ DOMAIN devices_diagram = {} /\ DOMAIN device_connection = {}
      /\ dd = 0 /\ links = EmptyBag /\ devices_hash \subseteq Address
  BY DEF Init, NoColumn
<1>2. DOMAIN links = {} /\ IsABag(links)
  BY <1>1 DEF EmptyBag, SetToBag, IsABag
<1>3. Cardinality(Address) \in Nat
  BY AddressAssumption, FS_CardinalityType
<1>4. InputIsShown
  <2>1. PICK n \in Nat : DOMAIN events_list = 1..n /\ Len(events_list) = n
    BY ShownAreEvents DEF Init
  <2>2. QED
    BY <1>1, <2>1 DEF Init, InputIsShown
<1>5. BoxesAreApart
  BY <1>1, FS_EmptySet DEF BoxesAreApart
<1>6. ColumnsAreDrawn
  BY <1>1 DEF ColumnsAreDrawn, Init
<1>7. TypeOK
  BY <1>1, <1>2, <1>3 DEF TypeOK
<1>8. PairsJoinOneDevice
  BY <1>2 DEF PairsJoinOneDevice, drawn, BagToSet
<1>9. QED
  BY <1>1, <1>2, <1>4, <1>5, <1>6, <1>7, <1>8 DEF LinkInv, NothingIsLinked, NoColumn,
     VisitedArePairedOff, CompletionIsReady, VisitedHaveArrows
-----------------------------------------------------------------------------
(* Boxes and time lines. *)

LEMMA MakeEventKeeps ==
    ASSUME LinkInv, MakeEvent
    PROVE  LinkInv'
<1> DEFINE i == Cardinality(events_diagram) + 1
           box == [event |-> events_list[i], row |-> i]
<1>1. /\ pc = "events" /\ pc' = "events" /\ i \in todo /\ todo' = todo \ {i}
      /\ events_diagram' = events_diagram \cup {box}
      /\ UNCHANGED <<events_list, devices_hash, devices_diagram, device_connection, e, dd, links>>
  BY DEF MakeEvent, input
<1>2. /\ IsFiniteSet(events_diagram) /\ Cardinality(events_diagram) \in Nat
      /\ \A x, y \in events_diagram : x.row = y.row => x = y
      /\ \A x \in events_diagram : x.event.has_device => addr(x) \in devices_hash
      /\ \A x \in events_diagram :
            x.row \in Nat /\ x.row <= Cardinality(events_diagram)
  BY <1>1, FS_CardinalityType DEF LinkInv, BoxesAreApart
<1>3. todo \subseteq 1..Len(events_list) /\ i \in 1..Len(events_list)
  BY <1>1 DEF LinkInv, TypeOK
<1>4. /\ box.row = i /\ box.event = events_list[i]
      /\ box.event.has_device => addr(box) \in devices_hash
  BY <1>3 DEF LinkInv, InputIsShown, addr
<1>5. box \notin events_diagram
  BY <1>2, <1>4
<1>6. /\ IsFiniteSet(events_diagram') /\ Cardinality(events_diagram') = i
  BY <1>1, <1>2, <1>5, FS_AddElement
<1> HIDE DEF box
<1>7. \A x \in events_diagram' : x \in events_diagram \/ x = box
  BY <1>1
<1>8. \A x \in events_diagram : x.row # i /\ x.row \in Nat /\ x.row <= i
  BY <1>2
<1>9. i \in Nat
  BY <1>2
<1> HIDE DEF i
<1>10. \A x, y \in events_diagram' : x.row = y.row => x = y
  BY <1>2, <1>4, <1>7, <1>8
<1>11. \A x \in events_diagram' : x.event.has_device => addr(x) \in devices_hash
  BY <1>2, <1>4, <1>7
<1>12. \A x \in events_diagram' : x.row \in Nat /\ x.row <= i
  BY <1>4, <1>7, <1>8, <1>9
<1>13. BoxesAreApart'
  BY <1>1, <1>6, <1>10, <1>11, <1>12 DEF BoxesAreApart, addr
<1>14. TypeOK'
  BY <1>1 DEF LinkInv, TypeOK
<1>15. InputIsShown' /\ ColumnsAreDrawn'
  BY <1>1 DEF LinkInv, InputIsShown, ColumnsAreDrawn
<1>16. (/\ NothingIsLinked /\ PairsJoinOneDevice /\ VisitedArePairedOff
        /\ CompletionIsReady /\ VisitedHaveArrows)'
  BY <1>1 DEF LinkInv, NothingIsLinked, PairsJoinOneDevice, VisitedArePairedOff,
     CompletionIsReady, VisitedHaveArrows, drawn, BagToSet
<1>17. QED
  BY <1>13, <1>14, <1>15, <1>16 DEF LinkInv

LEMMA EventsMadeKeeps ==
    ASSUME LinkInv, EventsMade
    PROVE  LinkInv'
<1>1. /\ pc = "events" /\ pc' = "devices" /\ todo' = devices_hash
      /\ UNCHANGED <<events_list, devices_hash, events_diagram, devices_diagram, device_connection, e, dd, links>>
  BY DEF EventsMade, boxes, input
<1>2. TypeOK' /\ InputIsShown' /\ BoxesAreApart' /\ ColumnsAreDrawn'
  BY <1>1 DEF LinkInv, TypeOK, InputIsShown, BoxesAreApart, ColumnsAreDrawn, addr
<1>3. (/\ NothingIsLinked /\ PairsJoinOneDevice /\ VisitedArePairedOff
       /\ CompletionIsReady /\ VisitedHaveArrows)'
  BY <1>1 DEF LinkInv, NothingIsLinked, PairsJoinOneDevice, VisitedArePairedOff,
     CompletionIsReady, VisitedHaveArrows, drawn, BagToSet
<1>4. QED
  BY <1>2, <1>3 DEF LinkInv

LEMMA MakeTimelineKeeps ==
    ASSUME LinkInv, NEW a \in Address, make_device_timeline(a)
    PROVE  LinkInv'
<1> DEFINE D == DOMAIN devices_diagram
           N == Cardinality(Address)
<1>1. /\ pc = "devices" /\ pc' = "devices" /\ a \in todo /\ todo' = todo \ {a}
      /\ devices_diagram' = With(devices_diagram, a, next_column)
      /\ UNCHANGED <<events_list, devices_hash, events_diagram, device_connection, e, dd, links>>
  BY DEF make_device_timeline, input
<1>2. /\ D = devices_hash \ todo /\ D \subseteq Address /\ a \notin D
      /\ todo \subseteq devices_hash /\ devices_diagram \in [D -> 1..N]
  BY <1>1 DEF LinkInv, TypeOK, ColumnsAreDrawn, InputIsShown
<1>3. next_column \in 1..N
  <2>1. IsFiniteSet(D) /\ Cardinality(D) \in Nat /\ N \in Nat
    BY <1>2, AddressAssumption, FS_Subset, FS_CardinalityType
  <2>2. Cardinality(D \cup {a}) = Cardinality(D) + 1
    BY <1>2, <2>1, FS_AddElement
  <2>3. Cardinality(D \cup {a}) <= N
    BY <1>2, AddressAssumption, FS_Subset
  <2>4. QED
    BY <2>1, <2>2, <2>3 DEF next_column
<1>4. /\ DOMAIN devices_diagram' = D \cup {a}
      /\ devices_diagram' \in [D \cup {a} -> 1..N]
  BY <1>1, <1>2, <1>3 DEF With
<1>5. D \cup {a} = devices_hash \ todo'
  BY <1>1, <1>2
<1>6. ColumnsAreDrawn'
  BY <1>1, <1>4, <1>5 DEF ColumnsAreDrawn
<1>7. TypeOK' /\ InputIsShown' /\ BoxesAreApart'
  BY <1>1, <1>4, <1>5 DEF LinkInv, TypeOK, InputIsShown, BoxesAreApart, addr
<1>8. (/\ NothingIsLinked /\ PairsJoinOneDevice /\ VisitedArePairedOff
       /\ CompletionIsReady /\ VisitedHaveArrows)'
  BY <1>1 DEF LinkInv, NothingIsLinked, PairsJoinOneDevice, VisitedArePairedOff,
     CompletionIsReady, VisitedHaveArrows, drawn, BagToSet
<1>9. QED
  BY <1>6, <1>7, <1>8 DEF LinkInv
-----------------------------------------------------------------------------
(* The first link loop. *)
LEMMA DevicesMadeKeeps ==
    ASSUME LinkInv, DevicesMade
    PROVE  LinkInv'
<1>1. /\ pc = "devices" /\ pc' = "connections" /\ todo = {} /\ todo' = events_diagram
      /\ UNCHANGED <<events_list, devices_hash, events_diagram, devices_diagram, device_connection, e, dd, links>>
  BY DEF DevicesMade, boxes, input
<1>2. DOMAIN links = {} /\ DOMAIN device_connection = {}
  BY <1>1 DEF LinkInv, NothingIsLinked
<1>3. TypeOK' /\ InputIsShown' /\ BoxesAreApart' /\ ColumnsAreDrawn'
  BY <1>1 DEF LinkInv, TypeOK, InputIsShown, BoxesAreApart, ColumnsAreDrawn, addr
<1>4. PairsJoinOneDevice'
  BY <1>1, <1>2 DEF PairsJoinOneDevice, drawn, BagToSet
<1>5. VisitedArePairedOff'
  <2>1. ASSUME NEW a
        PROVE  PairedOff(a, {}, device_connection, links)
    <3>1. Cardinality({}) % 2 # 1
      BY FS_EmptySet
    <3>2. QED
      BY <1>2, <3>1 DEF PairedOff
  <2>2. \A a : connectionsOf(a)' \ events_diagram = {}
    BY <1>1 DEF connectionsOf, boxesOf
  <2>3. \A a \in devices_hash :
            PairedOff(a, connectionsOf(a)' \ todo', device_connection, links)
    BY <1>1, <2>1, <2>2
  <2>4. QED
    BY <1>1, <1>2, <2>3 DEF VisitedArePairedOff
<1>6. NothingIsLinked' /\ CompletionIsReady' /\ VisitedHaveArrows'
  BY <1>1, <1>2 DEF NothingIsLinked, CompletionIsReady, VisitedHaveArrows
<1>7. QED
  BY <1>3, <1>4, <1>5, <1>6 DEF LinkInv

(* The column that the first loop looks up. *)
LEMMA LookedUpIsColumn ==
    ASSUME LinkInv, pc \notin {"events", "devices"}, NEW ed \in events_diagram
    PROVE  /\ looked_up(ed) \in 0..Cardinality(Address)
           /\ dd # NoColumn \/ ed.event.has_device => looked_up(ed) # NoColumn
           /\ ed.event.has_device => /\ addr(ed) \in devices_hash
                                     /\ addr(ed) \in DOMAIN devices_diagram
                                     /\ looked_up(ed) = devices_diagram[addr(ed)]
<1>1. /\ DOMAIN devices_diagram = devices_hash
      /\ devices_diagram \in [DOMAIN devices_diagram -> 1..Cardinality(Address)]
      /\ dd \in 0..Cardinality(Address)
  BY DEF LinkInv, ColumnsAreDrawn, TypeOK
<1>2. Cardinality(Address) \in Nat
  BY AddressAssumption, FS_CardinalityType
<1>3. CASE ed.event.has_device
  <2>1. addr(ed) \in devices_hash
    BY <1>3 DEF LinkInv, BoxesAreApart
  <2>2. looked_up(ed) = devices_diagram[addr(ed)]
    BY <1>3 DEF looked_up, addr
  <2>3. devices_diagram[addr(ed)] \in 1..Cardinality(Address)
    BY <1>1, <2>1
  <2>4. QED
    BY <1>1, <1>2, <2>1, <2>2, <2>3 DEF NoColumn
<1>4. CASE ~ed.event.has_device
  BY <1>1, <1>4 DEF looked_up
<1>5. QED
  BY <1>3, <1>4

(* What a turn of the first loop leaves as it was. *)
LEMMA ConnectionLinkFrame ==
    ASSUME LinkInv, NEW ed \in events_diagram, ConnectionLink(ed)
    PROVE  /\ pc = "connections" /\ pc' = "connections" /\ ed \in todo
           /\ todo' = todo \ {ed} /\ dd' = looked_up(ed)
           /\ UNCHANGED <<events_list, devices_hash, events_diagram, devices_diagram>>
           /\ InputIsShown' /\ BoxesAreApart' /\ ColumnsAreDrawn'
           /\ NothingIsLinked' /\ VisitedHaveArrows'
           /\ \A a : connectionsOf(a)' = connectionsOf(a)
<1>1. /\ pc = "connections" /\ pc' = "connections" /\ ed \in todo
      /\ todo' = todo \ {ed} /\ dd' = looked_up(ed)
      /\ UNCHANGED <<events_list, devices_hash, events_diagram, devices_diagram>>
  BY DEF ConnectionLink, boxes, input
<1>2. InputIsShown' /\ BoxesAreApart' /\ ColumnsAreDrawn'
  BY <1>1 DEF LinkInv, InputIsShown, BoxesAreApart, ColumnsAreDrawn, addr
<1>3. NothingIsLinked' /\ VisitedHaveArrows'
  BY <1>1 DEF NothingIsLinked, VisitedHaveArrows
<1>4. \A a : connectionsOf(a)' = connectionsOf(a)
  BY <1>1 DEF connectionsOf, boxesOf
<1>5. QED
  BY <1>1, <1>2, <1>3, <1>4

(* An event that is no connection event of a device changes nothing. *)
LEMMA NoLinkKeeps ==
    ASSUME LinkInv, NEW ed \in events_diagram, ConnectionLink(ed),
           ~(ed.event.has_device /\ ed.event.parsed.is_device_connection),
           UNCHANGED <<device_connection, links>>
    PROVE  LinkInv'
<1>1. /\ pc = "connections" /\ pc' = "connections" /\ ed \in todo
      /\ todo' = todo \ {ed} /\ dd' = looked_up(ed)
      /\ UNCHANGED <<events_list, devices_hash, events_diagram, devices_diagram>>
      /\ \A a : connectionsOf(a)' = connectionsOf(a)
  BY ConnectionLinkFrame
<1>2. /\ looked_up(ed) \in 0..Cardinality(Address)
      /\ dd # NoColumn => looked_up(ed) # NoColumn
  BY <1>1, LookedUpIsColumn
<1>3. TypeOK'
  BY <1>1, <1>2 DEF LinkInv, TypeOK
<1>4. PairsJoinOneDevice'
  BY <1>1 DEF LinkInv, PairsJoinOneDevice, drawn, BagToSet
<1>5. \A a : connectionsOf(a)' \ todo' = connectionsOf(a) \ todo
  BY <1>1 DEF connectionsOf, boxesOf
<1>6. VisitedArePairedOff'
  <2>1. /\ \A l \in DOMAIN links : l.kind = "pair"
        /\ \A l \in DOMAIN links, x \in todo : x.row \notin l.rows
        /\ \A a \in devices_hash :
              PairedOff(a, connectionsOf(a)' \ todo', device_connection, links)
    BY <1>1, <1>5 DEF LinkInv, VisitedArePairedOff
  <2>2. QED
    BY <1>1, <2>1 DEF VisitedArePairedOff
<1>7. CompletionIsReady'
  BY <1>1, <1>2 DEF LinkInv, CompletionIsReady
<1>8. QED
  BY <1>3, <1>4, <1>6, <1>7, ConnectionLinkFrame DEF LinkInv
(* One more event makes an even number odd, and an odd one even. *)
LEMMA OneMoreFlips ==
    ASSUME NEW V, IsFiniteSet(V), NEW x, x \notin V
    PROVE  Cardinality(V \cup {x}) % 2 = 1 <=> ~(Cardinality(V) % 2 = 1)
<1>1. Cardinality(V) \in Nat /\ Cardinality(V \cup {x}) = Cardinality(V) + 1
  BY FS_AddElement, FS_CardinalityType
<1>2. QED
  BY <1>1

(* The visited connection events of each device after a turn for ed.       *)
LEMMA OneMoreVisited ==
    ASSUME LinkInv, NEW ed \in events_diagram, ConnectionLink(ed),
           ed.event.has_device /\ ed.event.parsed.is_device_connection,
           NEW b
    PROVE  /\ ed \notin connectionsOf(b) \ todo
           /\ IsFiniteSet(connectionsOf(b) \ todo)
           /\ connectionsOf(b)' \ todo' =
                 IF b = addr(ed) THEN (connectionsOf(b) \ todo) \cup {ed}
                                 ELSE connectionsOf(b) \ todo
<1>1. /\ ed \in todo /\ todo' = todo \ {ed} /\ connectionsOf(b)' = connectionsOf(b)
  BY ConnectionLinkFrame
<1>2. connectionsOf(b) \subseteq events_diagram /\ IsFiniteSet(events_diagram)
  BY DEF LinkInv, BoxesAreApart, connectionsOf, boxesOf
<1>3. ed \in connectionsOf(b) <=> b = addr(ed)
  BY DEF connectionsOf, boxesOf, addr
<1>4. IsFiniteSet(connectionsOf(b) \ todo)
  BY <1>2, FS_Subset
<1>5. QED
  BY <1>1, <1>3, <1>4

(* A connection event waits when none of its device does. *)
LEMMA WaitingKeeps ==
    ASSUME LinkInv, NEW ed \in events_diagram, ConnectionLink(ed),
           ed.event.has_device /\ ed.event.parsed.is_device_connection,
           waiting(addr(ed)) = {},
           device_connection' = With(device_connection, addr(ed), ed),
           UNCHANGED links
    PROVE  LinkInv'
<1> DEFINE a == addr(ed)
<1>1. /\ pc = "connections" /\ pc' = "connections" /\ ed \in todo
      /\ todo' = todo \ {ed} /\ dd' = looked_up(ed)
      /\ UNCHANGED <<events_list, devices_hash, events_diagram, devices_diagram>>
      /\ \A b : connectionsOf(b)' = connectionsOf(b)
  BY ConnectionLinkFrame
<1>2. /\ looked_up(ed) \in 0..Cardinality(Address) /\ looked_up(ed) # NoColumn
      /\ a \in devices_hash
  BY <1>1, LookedUpIsColumn
<1>3. a \notin DOMAIN device_connection
  BY DEF waiting
<1>4. /\ DOMAIN device_connection' = DOMAIN device_connection \cup {a}
      /\ device_connection'[a] = ed
      /\ \A b \in DOMAIN device_connection :
            b # a => device_connection'[b] = device_connection[b]
  BY DEF With
<1>5. /\ \A l \in DOMAIN links : l.kind = "pair"
      /\ \A l \in DOMAIN links, x \in todo : x.row \notin l.rows
      /\ \A b \in devices_hash :
            PairedOff(b, connectionsOf(b) \ todo, device_connection, links)
  BY <1>1 DEF LinkInv, VisitedArePairedOff
<1> HIDE DEF a
<1>6. pairs_in(links, ed) = {}
  BY <1>1, <1>5 DEF pairs_in
<1>7. ASSUME NEW b \in devices_hash
      PROVE  PairedOff(b, connectionsOf(b)' \ todo', device_connection', links)
  <2>1. PICK V : V = connectionsOf(b) \ todo
    OBVIOUS
  <2>2. PICK W : W = connectionsOf(b)' \ todo'
    OBVIOUS
  <2>3. PairedOff(b, V, device_connection, links)
    BY <1>5, <2>1
  <2>4. ed \notin V /\ IsFiniteSet(V) /\ W = IF b = a THEN V \cup {ed} ELSE V
    BY <2>1, <2>2, OneMoreVisited DEF a
  <2>5. CASE b = a
    <3>1. ~(Cardinality(V) % 2 = 1) /\ \A x \in V : once_in(links, pairs_in(links, x))
      BY <1>3, <2>3, <2>5 DEF PairedOff
    <3>2. Cardinality(W) % 2 = 1
      BY <2>4, <2>5, <3>1, OneMoreFlips
    <3>3. \A x \in W : x = ed \/ (x # ed /\ x \in V)
      BY <2>4, <2>5
    <3>4. b \in DOMAIN device_connection' /\ device_connection'[b] = ed /\ ed \in W
      BY <1>4, <2>4, <2>5
    <3>5. PairedOff(b, W, device_connection', links)
      BY <1>6, <3>1, <3>2, <3>3, <3>4 DEF PairedOff
    <3>6. QED
      BY <2>2, <3>5
  <2>6. CASE b # a
    <3>1. /\ b \in DOMAIN device_connection' <=> b \in DOMAIN device_connection
          /\ b \in DOMAIN device_connection => device_connection'[b] = device_connection[b]
          /\ W = V
      BY <1>4, <2>4, <2>6
    <3>2. PairedOff(b, W, device_connection', links)
      BY <2>3, <3>1 DEF PairedOff
    <3>3. QED
      BY <2>2, <3>2
  <2>7. QED
    BY <2>5, <2>6
<1>8. /\ \A l \in DOMAIN links' : l.kind = "pair"
      /\ \A l \in DOMAIN links', x \in todo' : x.row \notin l.rows
  BY <1>1, <1>5
<1>9. VisitedArePairedOff'
  BY <1>1, <1>7, <1>8 DEF VisitedArePairedOff
<1>10. TypeOK'
  BY <1>1, <1>2, <1>4 DEF LinkInv, TypeOK
<1>11. PairsJoinOneDevice'
  BY <1>1 DEF LinkInv, PairsJoinOneDevice, drawn, BagToSet
<1>12. CompletionIsReady'
  BY <1>1, <1>2 DEF CompletionIsReady
<1>13. QED
  BY <1>9, <1>10, <1>11, <1>12, ConnectionLinkFrame DEF LinkInv
(* A connection event is linked with the one of its device that waits.  It *)
(* is in no pair yet, and neither is the one that waits.                   *)
LEMMA PairAdds ==
    ASSUME LinkInv, NEW ed \in events_diagram, ConnectionLink(ed),
           ed.event.has_device /\ ed.event.parsed.is_device_connection,
           NEW d \in waiting(addr(ed)),
           draw("pair", {ed.row, device_connection[d].row}, dd'),
           device_connection' = Without(device_connection, d)
    PROVE  /\ d = addr(ed) /\ d \in DOMAIN device_connection
           /\ d \in devices_hash /\ d \in DOMAIN devices_diagram
           /\ ed \in connectionsOf(d) /\ pairs_in(links, ed) = {}
           /\ looked_up(ed) \in 0..Cardinality(Address) /\ looked_up(ed) # NoColumn
           /\ looked_up(ed) = devices_diagram[d]
           /\ \E w \in events_diagram :
                 /\ w = device_connection[d] /\ addr(w) = d /\ pairs_in(links, w) = {}
                 /\ w \in connectionsOf(d) \ todo /\ w # ed /\ w.row # ed.row
                 /\ \E l0 : /\ IsABag(links') /\ Adds(links, l0, links')
                            /\ l0.kind = "pair" /\ l0.rows = {ed.row, w.row}
                            /\ l0.column = dd'
<1>1. /\ pc = "connections" /\ pc' = "connections" /\ ed \in todo
      /\ todo' = todo \ {ed} /\ dd' = looked_up(ed)
      /\ UNCHANGED <<events_list, devices_hash, events_diagram, devices_diagram>>
      /\ \A b : connectionsOf(b)' = connectionsOf(b)
  BY ConnectionLinkFrame
<1>2. d = addr(ed) /\ d \in DOMAIN device_connection
  BY DEF waiting
<1>3. /\ looked_up(ed) \in 0..Cardinality(Address) /\ looked_up(ed) # NoColumn
      /\ d \in devices_hash /\ d \in DOMAIN devices_diagram
      /\ looked_up(ed) = devices_diagram[d]
  BY <1>1, <1>2, LookedUpIsColumn
<1>4. /\ DOMAIN device_connection' = DOMAIN device_connection \ {d}
      /\ \A b \in DOMAIN device_connection :
            b # d => device_connection'[b] = device_connection[b]
  BY DEF Without
<1>5. /\ \A l \in DOMAIN links : l.kind = "pair"
      /\ \A l \in DOMAIN links, x \in todo : x.row \notin l.rows
      /\ \A b \in devices_hash :
            PairedOff(b, connectionsOf(b) \ todo, device_connection, links)
  BY <1>1 DEF LinkInv, VisitedArePairedOff
<1>6. PICK w : w = device_connection[d]
  OBVIOUS
<1>7. /\ w \in connectionsOf(d) \ todo /\ pairs_in(links, w) = {}
  <2>1. w \in connectionsOf(d) \ todo
    BY <1>2, <1>3, <1>5, <1>6 DEF PairedOff
  <2>2. PairedOff(d, connectionsOf(d) \ todo, device_connection, links)
    BY <1>3, <1>5
  <2>3. QED
    BY <1>2, <1>6, <2>1, <2>2 DEF PairedOff
<1>8. /\ w \in events_diagram /\ addr(w) = d /\ w # ed /\ w.row # ed.row
      /\ w \in connectionsOf(d) /\ ed \in connectionsOf(d)
      /\ \A x, y \in events_diagram : x.row = y.row => x = y
  <2>1. /\ w \in events_diagram /\ addr(w) = d /\ w # ed
        /\ w \in connectionsOf(d) /\ ed \in connectionsOf(d)
    BY <1>1, <1>2, <1>7 DEF connectionsOf, boxesOf, addr
  <2>2. \A x, y \in events_diagram : x.row = y.row => x = y
    BY DEF LinkInv, BoxesAreApart
  <2>3. QED
    BY <2>1, <2>2
<1>9. PICK column : column = dd'
  OBVIOUS
<1> DEFINE l0 == Link("pair", {ed.row, w.row}, column)
<1>10. IsABag(links') /\ Adds(links, l0, links')
  <2>1. IsABag(links)
    BY DEF LinkInv, TypeOK
  <2>2. PICK rows : rows = {ed.row, w.row}
    OBVIOUS
  <2>3. draw("pair", rows, column)
    <3>1. links' = links (+) SetToBag({[kind   |-> "pair",
                                        rows   |-> {ed.row, device_connection[d].row},
                                        column |-> dd']})
      BY DEF draw
    <3>2. QED
      BY <1>6, <1>9, <2>2, <3>1 DEF draw
  <2>4. links' = Adding(links, l0)
    BY <2>2, <2>3 DEF draw, Link, Adding
  <2> HIDE DEF l0
  <2>5. QED
    BY <2>1, <2>4, DrawingAdds
<1>11. l0.kind = "pair" /\ l0.rows = {ed.row, w.row} /\ l0.column = dd'
  BY <1>9 DEF Link
<1>12. pairs_in(links, ed) = {}
  BY <1>1, <1>5 DEF pairs_in
<1> HIDE DEF l0
<1>13. QED
  BY <1>2, <1>3, <1>6, <1>7, <1>8, <1>10, <1>11, <1>12

LEMMA PairKeeps ==
    ASSUME LinkInv, NEW ed \in events_diagram, ConnectionLink(ed),
           ed.event.has_device /\ ed.event.parsed.is_device_connection,
           NEW d \in waiting(addr(ed)),
           draw("pair", {ed.row, device_connection[d].row}, dd'),
           device_connection' = Without(device_connection, d)
    PROVE  LinkInv'
<1>1. /\ pc = "connections" /\ pc' = "connections" /\ ed \in todo
      /\ todo' = todo \ {ed} /\ dd' = looked_up(ed)
      /\ UNCHANGED <<events_list, devices_hash, events_diagram, devices_diagram>>
      /\ \A b : connectionsOf(b)' = connectionsOf(b)
  BY ConnectionLinkFrame
<1>2. d = addr(ed) /\ d \in DOMAIN device_connection
  BY PairAdds
<1>3. /\ looked_up(ed) \in 0..Cardinality(Address) /\ looked_up(ed) # NoColumn
      /\ d \in devices_hash /\ d \in DOMAIN devices_diagram
      /\ looked_up(ed) = devices_diagram[d]
      /\ ed \in connectionsOf(d) /\ pairs_in(links, ed) = {}
  BY PairAdds
<1>4. /\ DOMAIN device_connection' = DOMAIN device_connection \ {d}
      /\ \A b \in DOMAIN device_connection :
            b # d => device_connection'[b] = device_connection[b]
  BY DEF Without
<1>5. /\ \A l \in DOMAIN links : l.kind = "pair"
      /\ \A l \in DOMAIN links, x \in todo : x.row \notin l.rows
      /\ \A b \in devices_hash :
            PairedOff(b, connectionsOf(b) \ todo, device_connection, links)
  BY <1>1 DEF LinkInv, VisitedArePairedOff
<1>6. PICK w \in events_diagram :
          /\ w = device_connection[d] /\ addr(w) = d /\ pairs_in(links, w) = {}
          /\ w \in connectionsOf(d) \ todo /\ w # ed /\ w.row # ed.row
          /\ \E l0 : /\ IsABag(links') /\ Adds(links, l0, links')
                     /\ l0.kind = "pair" /\ l0.rows = {ed.row, w.row}
                     /\ l0.column = dd'
  BY PairAdds
<1>7. PICK l0 : /\ IsABag(links') /\ Adds(links, l0, links')
                /\ l0.kind = "pair" /\ l0.rows = {ed.row, w.row}
                /\ l0.column = dd'
  BY <1>6
<1>8. /\ w.row # ed.row /\ w # ed /\ w \in connectionsOf(d) /\ ed \in connectionsOf(d)
      /\ addr(w) = d /\ w \notin todo /\ w = device_connection[d]
      /\ \A x, y \in events_diagram : x.row = y.row => x = y
  BY <1>3, <1>6 DEF LinkInv, BoxesAreApart
<1>9. /\ IsABag(links') /\ DOMAIN links' = DOMAIN links \cup {l0}
      /\ \A l \in DOMAIN links : l # l0 => links'[l] = links[l]
      /\ l0 \notin DOMAIN links => links'[l0] = 1
  BY <1>7 DEF Adds
<1>10. l0.kind = "pair" /\ l0.rows = {ed.row, w.row} /\ l0.column = dd'
  BY <1>7
<1>11. l0 \notin DOMAIN links
  BY <1>1, <1>5, <1>10
<1>12. links'[l0] = 1 /\ \A l \in DOMAIN links : links'[l] = links[l] /\ l # l0
  BY <1>9, <1>11
<1>13. pairs_in(links', ed) = {l0} /\ pairs_in(links', w) = {l0}
  BY <1>3, <1>6, <1>9, <1>10 DEF pairs_in
<1>14. once_in(links', {l0})
  BY <1>12 DEF once_in
<1>15. ASSUME NEW x \in events_diagram, x # ed, x # w
       PROVE  /\ pairs_in(links', x) = pairs_in(links, x)
              /\ once_in(links, pairs_in(links, x)) => once_in(links', pairs_in(links', x))
  <2>1. x.row \notin l0.rows
    BY <1>8, <1>10, <1>15
  <2>2. pairs_in(links', x) = pairs_in(links, x)
    BY <1>9, <2>1 DEF pairs_in
  <2>3. pairs_in(links, x) \subseteq DOMAIN links
    BY DEF pairs_in
  <2>4. QED
    BY <1>12, <2>2, <2>3 DEF once_in
<1>16. ASSUME NEW b \in devices_hash
       PROVE  PairedOff(b, connectionsOf(b)' \ todo', device_connection', links')
  <2>1. PICK V : V = connectionsOf(b) \ todo
    OBVIOUS
  <2>2. PICK W : W = connectionsOf(b)' \ todo'
    OBVIOUS
  <2>3. PairedOff(b, V, device_connection, links)
    BY <1>5, <2>1
  <2>4. ed \notin V /\ IsFiniteSet(V) /\ W = IF b = d THEN V \cup {ed} ELSE V
    BY <1>2, <2>1, <2>2, OneMoreVisited
  <2>5. V \subseteq events_diagram
    BY <2>1 DEF connectionsOf, boxesOf
  <2>6. CASE b = d
    <3>1. /\ Cardinality(V) % 2 = 1
          /\ \A x \in V : x # w => once_in(links, pairs_in(links, x))
      BY <1>2, <1>8, <2>3, <2>6 DEF PairedOff
    <3>2. ~(Cardinality(W) % 2 = 1)
      BY <2>4, <2>6, <3>1, OneMoreFlips
    <3>3. b \notin DOMAIN device_connection'
      BY <1>4, <2>6
    <3>4. ASSUME NEW x \in W
          PROVE  once_in(links', pairs_in(links', x))
      <4>1. CASE x = ed \/ x = w
        BY <1>13, <1>14, <4>1
      <4>2. CASE x # ed /\ x # w
        <5>1. x \in V /\ x \in events_diagram
          BY <2>4, <2>5, <2>6, <4>2
        <5>2. QED
          BY <1>15, <3>1, <4>2, <5>1
      <4>3. QED
        BY <4>1, <4>2
    <3>5. PairedOff(b, W, device_connection', links')
      BY <3>2, <3>3, <3>4 DEF PairedOff
    <3>6. QED
      BY <2>2, <3>5
  <2>7. CASE b # d
    <3>1. /\ b \in DOMAIN device_connection' <=> b \in DOMAIN device_connection
          /\ b \in DOMAIN device_connection => device_connection'[b] = device_connection[b]
          /\ W = V
      BY <1>4, <2>4, <2>7
    <3>2. ASSUME NEW x \in V
          PROVE  /\ pairs_in(links', x) = pairs_in(links, x)
                 /\ once_in(links, pairs_in(links, x)) => once_in(links', pairs_in(links', x))
      <4>1. addr(x) = b
        BY <2>1 DEF connectionsOf, boxesOf, addr
      <4>2. x # ed /\ x # w
        BY <1>2, <1>8, <2>7, <4>1
      <4>3. QED
        BY <1>15, <2>5, <4>2
    <3>3. PairedOff(b, W, device_connection', links')
      BY <2>3, <3>1, <3>2 DEF PairedOff
    <3>4. QED
      BY <2>2, <3>3
  <2>8. QED
    BY <2>6, <2>7
<1>17. VisitedArePairedOff'
  <2>1. \A l \in DOMAIN links' : l.kind = "pair"
    BY <1>5, <1>9, <1>10
  <2>2. ASSUME NEW l \in DOMAIN links', NEW x \in todo'
        PROVE  x.row \notin l.rows
    <3>1. x \in todo /\ x # ed /\ x \in events_diagram /\ x # w
      BY <1>1, <1>8 DEF LinkInv, TypeOK
    <3>2. CASE l \in DOMAIN links
      BY <1>5, <3>1, <3>2
    <3>3. CASE l = l0
      BY <1>8, <1>10, <3>1, <3>3
    <3>4. QED
      BY <1>9, <3>2, <3>3
  <2>3. QED
    BY <1>1, <1>16, <2>1, <2>2 DEF VisitedArePairedOff
<1>18. TypeOK'
  BY <1>1, <1>3, <1>4, <1>9 DEF LinkInv, TypeOK
<1>19. PairsJoinOneDevice'
  <2>1. SUFFICES ASSUME NEW l \in DOMAIN links', l.kind = "pair"
                 PROVE  \E a \in DOMAIN devices_diagram' :
                           /\ l.column = devices_diagram'[a]
                           /\ Cardinality(l.rows) = 2
                           /\ l.rows \subseteq {x.row : x \in connectionsOf(a)'}
    BY DEF PairsJoinOneDevice, drawn, BagToSet
  <2>2. CASE l \in DOMAIN links
    <3>1. PICK a \in DOMAIN devices_diagram :
              /\ l.column = devices_diagram[a]
              /\ Cardinality(l.rows) = 2
              /\ l.rows \subseteq {x.row : x \in connectionsOf(a)}
      BY <2>1, <2>2 DEF LinkInv, PairsJoinOneDevice, drawn, BagToSet
    <3>2. connectionsOf(a)' = connectionsOf(a)
      BY <1>1 DEF connectionsOf, boxesOf
    <3>3. QED
      BY <1>1, <3>1, <3>2
  <2>3. CASE l = l0
    <3>1. Cardinality({ed.row, w.row}) = 2
      <4>1. /\ IsFiniteSet({ed.row}) /\ Cardinality({ed.row}) = 1
        BY FS_Singleton
      <4>2. {ed.row, w.row} = {ed.row} \cup {w.row} /\ w.row \notin {ed.row}
        BY <1>8
      <4>3. QED
        <5>1. Cardinality({ed.row} \cup {w.row}) = 1 + 1
          BY <4>1, <4>2, FS_AddElement
        <5>2. QED
          BY <4>2, <5>1
    <3>2. connectionsOf(d)' = connectionsOf(d)
      BY <1>1 DEF connectionsOf, boxesOf
    <3>3. l.column = devices_diagram'[d] /\ d \in DOMAIN devices_diagram'
      BY <1>1, <1>3, <1>10, <2>3
    <3>4. l.rows \subseteq {x.row : x \in connectionsOf(d)'}
      BY <1>8, <1>10, <2>3, <3>2
    <3>5. QED
      BY <1>10, <2>3, <3>1, <3>3, <3>4
  <2>4. QED
    BY <1>9, <2>2, <2>3
<1>20. CompletionIsReady'
  BY <1>1, <1>3 DEF CompletionIsReady
<1>21. QED
  BY <1>17, <1>18, <1>19, <1>20, ConnectionLinkFrame DEF LinkInv

LEMMA ConnectionLinkKeeps ==
    ASSUME LinkInv, NEW ed \in events_diagram, ConnectionLink(ed)
    PROVE  LinkInv'
<1>1. CASE /\ ~(ed.event.has_device /\ ed.event.parsed.is_device_connection)
           /\ UNCHANGED <<device_connection, links>>
  BY <1>1, NoLinkKeeps
<1>2. CASE /\ ed.event.has_device /\ ed.event.parsed.is_device_connection
           /\ \E b \in waiting(addr(ed)) :
                 /\ draw("pair", {ed.row, device_connection[b].row}, dd')
                 /\ device_connection' = Without(device_connection, b)
  BY <1>2, PairKeeps
<1>3. CASE /\ ed.event.has_device /\ ed.event.parsed.is_device_connection
           /\ waiting(addr(ed)) = {}
           /\ device_connection' = With(device_connection, addr(ed), ed)
           /\ UNCHANGED links
  BY <1>3, WaitingKeeps
<1>4. QED
  BY <1>1, <1>2, <1>3 DEF ConnectionLink, addr
LEMMA ConnectionsMadeKeeps ==
    ASSUME LinkInv, ConnectionsMade
    PROVE  LinkInv'
<1>1. /\ pc = "connections" /\ pc' = "complete" /\ todo = {}
      /\ todo' = DOMAIN device_connection
      /\ UNCHANGED <<events_list, devices_hash, events_diagram, devices_diagram,
                     device_connection, e, dd, links>>
  BY DEF ConnectionsMade, boxes, input
<1>2. /\ \A l \in DOMAIN links : l.kind = "pair"
      /\ \A a \in devices_hash :
            PairedOff(a, connectionsOf(a), device_connection, links)
  <2>1. \A a : connectionsOf(a) \ todo = connectionsOf(a)
    BY <1>1
  <2>2. QED
    BY <1>1, <2>1 DEF LinkInv, VisitedArePairedOff
<1>3. TypeOK' /\ InputIsShown' /\ BoxesAreApart' /\ ColumnsAreDrawn'
  BY <1>1 DEF LinkInv, TypeOK, InputIsShown, BoxesAreApart, ColumnsAreDrawn, addr
<1>4. PairsJoinOneDevice'
  BY <1>1 DEF LinkInv, PairsJoinOneDevice, drawn, BagToSet, connectionsOf, boxesOf
<1>5. CompletionIsReady'
  <2>1. \A a : connectionsOf(a)' = connectionsOf(a)
    BY <1>1 DEF connectionsOf, boxesOf
  <2>2. \A a \in devices_hash :
            PairedOff(a, connectionsOf(a)', device_connection, links)
    BY <1>2, <2>1
  <2>3. QED
    BY <1>1, <1>2, <2>2 DEF LinkInv, CompletionIsReady
<1>6. NothingIsLinked' /\ VisitedArePairedOff' /\ VisitedHaveArrows'
  BY <1>1 DEF NothingIsLinked, VisitedArePairedOff, VisitedHaveArrows
<1>7. QED
  BY <1>3, <1>4, <1>5, <1>6 DEF LinkInv
-----------------------------------------------------------------------------
(* A turn of the second loop adds an open link, and the iterator stays in  *)
(* the table.                                                              *)
LEMMA CompleteLinkAdds ==
    ASSUME LinkInv, NEW a \in Address, CompleteLink(a)
    PROVE  /\ pc = "complete" /\ pc' = "complete" /\ a \in todo
           /\ todo' \subseteq todo \ {a}
           /\ UNCHANGED <<events_list, devices_hash, events_diagram, devices_diagram, dd>>
           /\ IsABag(links')
           /\ \E gone : /\ todo' \subseteq todo \ gone
                        /\ DOMAIN device_connection' = DOMAIN device_connection \ gone
           /\ \A b \in DOMAIN device_connection' :
                 device_connection'[b] = device_connection[b]
           /\ \E l0 : /\ Adds(links, l0, links') /\ l0.kind = "open"
                      /\ l0.rows = {device_connection[a].row}
<1>1. PICK gone : gone = waiting(e.parsed.device_address)
  OBVIOUS
<1>2. PICK l0 : l0 = Link("open", {device_connection[a].row}, dd)
  OBVIOUS
<1>3. /\ pc = "complete" /\ pc' = "complete" /\ a \in todo
      /\ DOMAIN device_connection' = DOMAIN device_connection \ gone
      /\ \A b \in DOMAIN device_connection' :
            device_connection'[b] = device_connection[b]
      /\ UNCHANGED <<events_list, devices_hash, events_diagram, devices_diagram, dd>>
  BY <1>1 DEF CompleteLink, boxes, input
<1>4. todo' \subseteq todo \ gone /\ todo' \subseteq todo \ {a}
  BY <1>1 DEF CompleteLink, iterator_after
<1>5. IsABag(links') /\ Adds(links, l0, links')
  <2>1. links' = Adding(links, l0)
    BY <1>2 DEF CompleteLink, draw, Link, Adding
  <2>2. IsABag(links)
    BY DEF LinkInv, TypeOK
  <2>3. QED
    BY <2>1, <2>2, DrawingAdds
<1>6. l0.kind = "open" /\ l0.rows = {device_connection[a].row}
  BY <1>2 DEF Link
<1>7. QED
  BY <1>3, <1>4, <1>5, <1>6

(* The second link loop: what it draws pairs nothing and points nowhere,   *)
(* and the iterator never returns a key that was removed.                  *)
LEMMA CompleteLinkKeeps ==
    ASSUME LinkInv, NEW a \in Address, CompleteLink(a)
    PROVE  LinkInv'
<1> DEFINE D == DOMAIN device_connection
<1>1. /\ pc = "complete" /\ pc' = "complete" /\ a \in todo
      /\ UNCHANGED <<events_list, devices_hash, events_diagram, devices_diagram, dd>>
      /\ IsABag(links')
  BY CompleteLinkAdds
<1>2. PICK gone : todo' \subseteq todo \ gone /\ DOMAIN device_connection' = D \ gone
  BY CompleteLinkAdds
<1>3. PICK l0 : Adds(links, l0, links') /\ l0.kind = "open"
  BY CompleteLinkAdds
<1>4. DOMAIN links' = DOMAIN links \cup {l0} /\ l0.kind = "open"
  BY <1>3 DEF Adds
<1>5. /\ todo \subseteq D /\ (D # {} => dd # NoColumn)
      /\ \A l \in DOMAIN links : l.kind \in {"pair", "open"}
  BY <1>1 DEF LinkInv, CompletionIsReady
<1>6. TypeOK'
  <2>1. todo' \subseteq devices_hash /\ D \ gone \subseteq devices_hash
    BY <1>1, <1>2 DEF LinkInv, TypeOK
  <2>2. QED
    BY <1>1, <1>2, <2>1 DEF LinkInv, TypeOK
<1>7. PairsJoinOneDevice'
  <2>1. SUFFICES ASSUME NEW l \in DOMAIN links', l.kind = "pair"
                 PROVE  \E b \in DOMAIN devices_diagram' :
                           /\ l.column = devices_diagram'[b]
                           /\ Cardinality(l.rows) = 2
                           /\ l.rows \subseteq {x.row : x \in connectionsOf(b)'}
    BY DEF PairsJoinOneDevice, drawn, BagToSet
  <2>2. PICK b \in DOMAIN devices_diagram :
            /\ l.column = devices_diagram[b]
            /\ Cardinality(l.rows) = 2
            /\ l.rows \subseteq {x.row : x \in connectionsOf(b)}
    BY <1>4, <2>1 DEF LinkInv, PairsJoinOneDevice, drawn, BagToSet
  <2>3. connectionsOf(b)' = connectionsOf(b)
    BY <1>1 DEF connectionsOf, boxesOf
  <2>4. QED
    BY <1>1, <2>2, <2>3
<1>8. CompletionIsReady'
  <2>1. /\ D \ gone # {} => dd # NoColumn
        /\ todo' \subseteq D \ gone
        /\ \A l \in DOMAIN links' : l.kind \in {"pair", "open"}
    BY <1>2, <1>4, <1>5
  <2>2. drawn("open")' # {}
    BY <1>4 DEF drawn, BagToSet
  <2>3. QED
    BY <1>1, <1>2, <2>1, <2>2 DEF CompletionIsReady
<1>9. (/\ InputIsShown /\ BoxesAreApart /\ ColumnsAreDrawn /\ NothingIsLinked
        /\ VisitedArePairedOff /\ VisitedHaveArrows)'
  BY <1>1 DEF LinkInv, InputIsShown, BoxesAreApart, ColumnsAreDrawn, addr,
     NothingIsLinked, VisitedArePairedOff, VisitedHaveArrows
<1>10. QED
  BY <1>6, <1>7, <1>8, <1>9 DEF LinkInv

LEMMA ConnectionsCompletedKeeps ==
    ASSUME LinkInv, ConnectionsCompleted
    PROVE  LinkInv'
<1>1. /\ pc = "complete" /\ pc' = "comunications" /\ todo = {}
      /\ todo' = events_diagram
      /\ UNCHANGED <<events_list, devices_hash, events_diagram, devices_diagram,
                     device_connection, e, dd, links>>
  BY DEF ConnectionsCompleted, boxes, input
<1>2. \A l \in DOMAIN links : l.kind \in {"pair", "open"}
  BY <1>1 DEF LinkInv, CompletionIsReady
<1>3. \A x : arrows_in(links, x) = {}
  BY <1>2 DEF arrows_in
<1>4. TypeOK' /\ InputIsShown' /\ BoxesAreApart' /\ ColumnsAreDrawn'
  BY <1>1 DEF LinkInv, TypeOK, InputIsShown, BoxesAreApart, ColumnsAreDrawn, addr
<1>5. PairsJoinOneDevice'
  BY <1>1 DEF LinkInv, PairsJoinOneDevice, drawn, BagToSet, connectionsOf, boxesOf
<1>6. VisitedHaveArrows'
  BY <1>1, <1>3 DEF VisitedHaveArrows
<1>7. NothingIsLinked' /\ VisitedArePairedOff' /\ CompletionIsReady'
  BY <1>1 DEF NothingIsLinked, VisitedArePairedOff, CompletionIsReady
<1>8. QED
  BY <1>4, <1>5, <1>6, <1>7 DEF LinkInv
-----------------------------------------------------------------------------
(* The third link loop. *)
LEMMA ComunicationLinkAdds ==
    ASSUME LinkInv, NEW ed \in events_diagram, ComunicationLink(ed), has_arrow(ed)
    PROVE  /\ IsABag(links')
           /\ \E l0 : /\ Adds(links, l0, links')
                      /\ l0.kind \in {"to_device", "from_device"}
                      /\ l0.rows = {ed.row}
                      /\ l0.column = devices_diagram[addr(ed)]
<1>1. PICK l0 : l0 = Link(direction(ed), {ed.row}, devices_diagram[addr(ed)])
  OBVIOUS
<1>2. links' = Adding(links, l0)
  BY <1>1 DEF ComunicationLink, draw, Link, Adding, addr
<1>3. IsABag(links)
  BY DEF LinkInv, TypeOK
<1>4. IsABag(links') /\ Adds(links, l0, links')
  BY <1>2, <1>3, DrawingAdds
<1>5. /\ l0.kind \in {"to_device", "from_device"} /\ l0.rows = {ed.row}
      /\ l0.column = devices_diagram[addr(ed)]
  BY <1>1 DEF Link, direction
<1>6. QED
  BY <1>4, <1>5

LEMMA ComunicationLinkKeeps ==
    ASSUME LinkInv, NEW ed \in events_diagram, ComunicationLink(ed)
    PROVE  LinkInv'
<1>1. /\ pc = "comunications" /\ pc' = "comunications"
      /\ ed \in todo /\ todo' = todo \ {ed}
      /\ UNCHANGED <<events_list, devices_hash, events_diagram, devices_diagram,
                     device_connection, e, dd>>
  BY DEF ComunicationLink, boxes, input
<1>2. /\ arrows_in(links, ed) = {}
      /\ \A x \in events_diagram :
            IF has_arrow(x) /\ x \notin todo
            THEN HasItsArrow(x, links, devices_diagram)
            ELSE arrows_in(links, x) = {}
  BY <1>1 DEF LinkInv, VisitedHaveArrows
<1>3. (/\ InputIsShown /\ BoxesAreApart /\ ColumnsAreDrawn /\ NothingIsLinked
       /\ VisitedArePairedOff /\ CompletionIsReady)'
  BY <1>1 DEF LinkInv, InputIsShown, BoxesAreApart, ColumnsAreDrawn, addr,
     NothingIsLinked, VisitedArePairedOff, CompletionIsReady
<1>4. CASE ~has_arrow(ed)
  <2>1. links' = links
    BY <1>4 DEF ComunicationLink
  <2>2. TypeOK'
    BY <1>1, <2>1 DEF LinkInv, TypeOK
  <2>3. PairsJoinOneDevice'
    BY <1>1, <2>1 DEF LinkInv, PairsJoinOneDevice, drawn, BagToSet, connectionsOf, boxesOf
  <2>4. VisitedHaveArrows'
    BY <1>1, <1>2, <1>4, <2>1 DEF VisitedHaveArrows
  <2>5. QED
    BY <1>3, <2>2, <2>3, <2>4 DEF LinkInv
<1>5. CASE has_arrow(ed)
  <2>1. PICK l0 : /\ Adds(links, l0, links')
                  /\ l0.kind \in {"to_device", "from_device"}
                  /\ l0.rows = {ed.row}
                  /\ l0.column = devices_diagram[addr(ed)]
    BY <1>5, ComunicationLinkAdds
  <2>2. IsABag(links') /\ Adds(links, l0, links')
    BY <1>5, <2>1, ComunicationLinkAdds
  <2>3. /\ l0.kind \in {"to_device", "from_device"} /\ l0.rows = {ed.row}
        /\ l0.column = devices_diagram[addr(ed)]
    BY <2>1
  <2>4. l0 \notin DOMAIN links
    BY <1>2, <2>3 DEF arrows_in
  <2>5. /\ DOMAIN links' = DOMAIN links \cup {l0} /\ links'[l0] = 1
        /\ \A l \in DOMAIN links : links'[l] = links[l]
    BY <2>2, <2>4 DEF Adds
  <2>6. HasItsArrow(ed, links', devices_diagram)
    <3>1. arrows_in(links', ed) = {l0}
      BY <1>2, <2>3, <2>5 DEF arrows_in
    <3>2. QED
      BY <2>3, <2>5, <3>1 DEF HasItsArrow, once_in
  <2>7. ASSUME NEW x \in events_diagram, x # ed
        PROVE  /\ arrows_in(links', x) = arrows_in(links, x)
               /\ HasItsArrow(x, links, devices_diagram)
                     => HasItsArrow(x, links', devices_diagram)
    <3>1. x.row # ed.row
      BY <2>7 DEF LinkInv, BoxesAreApart
    <3>2. arrows_in(links', x) = arrows_in(links, x)
      BY <2>3, <2>5, <3>1 DEF arrows_in
    <3>3. arrows_in(links, x) \subseteq DOMAIN links
      BY DEF arrows_in
    <3>4. once_in(links, arrows_in(links, x)) => once_in(links', arrows_in(links', x))
      BY <2>5, <3>2, <3>3 DEF once_in
    <3>5. QED
      BY <3>2, <3>4 DEF HasItsArrow
  <2>8. VisitedHaveArrows'
    <3>1. ASSUME NEW x \in events_diagram
          PROVE  IF has_arrow(x) /\ x \notin todo'
                 THEN HasItsArrow(x, links', devices_diagram)
                 ELSE arrows_in(links', x) = {}
      <4>1. CASE x = ed
        BY <1>1, <1>5, <2>6, <4>1
      <4>2. CASE x # ed
        BY <1>1, <1>2, <2>7, <4>2
      <4>3. QED
        BY <4>1, <4>2
    <3>2. QED
      BY <1>1, <3>1 DEF VisitedHaveArrows
  <2>9. TypeOK'
    BY <1>1, <2>2 DEF LinkInv, TypeOK
  <2>10. PairsJoinOneDevice'
    <3>1. \A l \in DOMAIN links' : l.kind = "pair" => l \in DOMAIN links
      BY <2>3, <2>5
    <3>2. \A b : connectionsOf(b)' = connectionsOf(b)
      BY <1>1 DEF connectionsOf, boxesOf
    <3>3. QED
      BY <1>1, <3>1, <3>2 DEF LinkInv, PairsJoinOneDevice, drawn, BagToSet
  <2>11. QED
    BY <1>3, <2>8, <2>9, <2>10 DEF LinkInv
<1>6. QED
  BY <1>4, <1>5

LEMMA ComunicationsMadeKeeps ==
    ASSUME LinkInv, ComunicationsMade
    PROVE  LinkInv'
<1>1. /\ pc = "comunications" /\ pc' = "done" /\ todo = {}
      /\ UNCHANGED <<events_list, devices_hash, events_diagram, devices_diagram,
                     todo, device_connection, e, dd, links>>
  BY DEF ComunicationsMade, boxes, input
<1>2. TypeOK' /\ InputIsShown' /\ BoxesAreApart' /\ ColumnsAreDrawn'
  BY <1>1 DEF LinkInv, TypeOK, InputIsShown, BoxesAreApart, ColumnsAreDrawn, addr
<1>3. PairsJoinOneDevice'
  BY <1>1 DEF LinkInv, PairsJoinOneDevice, drawn, BagToSet, connectionsOf, boxesOf
<1>4. VisitedHaveArrows'
  BY <1>1 DEF LinkInv, VisitedHaveArrows
<1>5. NothingIsLinked' /\ VisitedArePairedOff' /\ CompletionIsReady'
  BY <1>1 DEF NothingIsLinked, VisitedArePairedOff, CompletionIsReady
<1>6. QED
  BY <1>2, <1>3, <1>4, <1>5 DEF LinkInv
-----------------------------------------------------------------------------
LEMMA LinkStep == LinkInv /\ [Next]_vars => LinkInv'
<1> SUFFICES ASSUME LinkInv, [Next]_vars PROVE LinkInv'
  OBVIOUS
<1>1. CASE Next
  BY <1>1, MakeEventKeeps, EventsMadeKeeps, MakeTimelineKeeps, DevicesMadeKeeps,
     ConnectionLinkKeeps, ConnectionsMadeKeeps, CompleteLinkKeeps,
     ConnectionsCompletedKeeps, ComunicationLinkKeeps, ComunicationsMadeKeeps DEF Next
<1>2. CASE UNCHANGED vars
  <2>1. UNCHANGED <<events_list, devices_hash, events_diagram, devices_diagram, pc,
                    todo, device_connection, e, dd, links>>
    BY <1>2 DEF vars, boxes, input
  <2>2. \A b : connectionsOf(b)' = connectionsOf(b)
    BY <2>1 DEF connectionsOf, boxesOf
  <2>3. TypeOK' /\ InputIsShown' /\ BoxesAreApart' /\ ColumnsAreDrawn'
    BY <2>1 DEF LinkInv, TypeOK, InputIsShown, BoxesAreApart, ColumnsAreDrawn, addr
  <2>4. NothingIsLinked' /\ VisitedHaveArrows'
    BY <2>1 DEF LinkInv, NothingIsLinked, VisitedHaveArrows
  <2>5. PairsJoinOneDevice'
    BY <2>1, <2>2 DEF LinkInv, PairsJoinOneDevice, drawn, BagToSet
  <2>6. VisitedArePairedOff'
    BY <2>1, <2>2 DEF LinkInv, VisitedArePairedOff
  <2>7. CompletionIsReady'
    BY <2>1, <2>2 DEF LinkInv, CompletionIsReady, drawn, BagToSet
  <2>8. QED
    BY <2>3, <2>4, <2>5, <2>6, <2>7 DEF LinkInv
<1>3. QED
  BY <1>1, <1>2

LEMMA LinkInvariant == Spec => []LinkInv
  BY RedrawStart, LinkStep, PTL DEF Spec

(* Every variable keeps its type; a loop's iterator returns only what is   *)
(* in the table it walks.                                                  *)
THEOREM LinkTypeCorrect == Spec => []TypeOK
<1>1. LinkInv => TypeOK
  BY DEF LinkInv
<1>2. QED
  BY <1>1, LinkInvariant, PTL

(* A connection link joins two connection events of one device, in that    *)
(* device's column, in any order of the hash table.                        *)
THEOREM LinkPairsOneDevice == Spec => []PairsJoinOneDevice
<1>1. LinkInv => PairsJoinOneDevice
  BY DEF LinkInv
<1>2. QED
  BY <1>1, LinkInvariant, PTL

(* After the first loop a device waits if and only if its connection       *)
(* events are odd in number, and every other one is in exactly one pair.   *)
THEOREM LinkPairsOffConnections == Spec => []ConnectionsArePairedOff
<1>1. ASSUME LinkInv PROVE ConnectionsArePairedOff
  <2>1. SUFFICES ASSUME pc = "complete", BagToSet(links) = drawn("pair"),
                        NEW a \in devices_hash
                 PROVE  /\ a \in DOMAIN device_connection
                              <=> Cardinality(connectionsOf(a)) % 2 = 1
                        /\ \A ed \in connectionsOf(a) :
                              IF a \in DOMAIN device_connection /\ device_connection[a] = ed
                              THEN pairsOf(ed) = {} ELSE drawn_once(pairsOf(ed))
    BY DEF ConnectionsArePairedOff
  <2>2. drawn("open") = {}
    BY <2>1 DEF drawn, BagToSet
  <2>3. PairedOff(a, connectionsOf(a), device_connection, links)
    BY <1>1, <2>1, <2>2 DEF LinkInv, CompletionIsReady
  <2>4. \A ed : pairsOf(ed) = pairs_in(links, ed)
    BY DEF pairsOf, pairs_in, drawn, BagToSet
  <2>5. \A S : drawn_once(S) <=> once_in(links, S)
    BY DEF drawn_once, once_in
  <2>6. QED
    BY <2>3, <2>4, <2>5 DEF PairedOff
<1>2. QED
  BY <1>1, LinkInvariant, PTL

(* The second loop never draws in a column that was not looked up.         *)
THEOREM LinkCompletesInColumn == Spec => []CompletionHasColumn
<1>1. LinkInv => CompletionHasColumn
  BY DEF LinkInv, CompletionIsReady, CompletionHasColumn
<1>2. QED
  BY <1>1, LinkInvariant, PTL

(* When the redraw is over, every event with a device that is no           *)
(* connection event has exactly one arrow, in its device's column, and no  *)
(* other event has one.                                                    *)
THEOREM LinkDrawsEveryArrow == Spec => []EveryEventHasItsArrow
<1>1. ASSUME LinkInv PROVE EveryEventHasItsArrow
  <2>1. SUFFICES ASSUME pc = "done", NEW ed \in events_diagram
                 PROVE  IF ed.event.has_device /\ ~ed.event.parsed.is_device_connection
                        THEN /\ drawn_once(arrowsOf(ed))
                             /\ \A l \in arrowsOf(ed) : l.column =
                                    devices_diagram[ed.event.parsed.device_address]
                        ELSE arrowsOf(ed) = {}
    BY DEF EveryEventHasItsArrow
  <2>2. IF has_arrow(ed) THEN HasItsArrow(ed, links, devices_diagram)
                         ELSE arrows_in(links, ed) = {}
    BY <1>1, <2>1 DEF LinkInv, VisitedHaveArrows
  <2>3. arrowsOf(ed) = arrows_in(links, ed)
    BY DEF arrowsOf, arrows_in, drawn, BagToSet
  <2>4. \A S : drawn_once(S) <=> once_in(links, S)
    BY DEF drawn_once, once_in
  <2>5. QED
    BY <2>2, <2>3, <2>4 DEF has_arrow, HasItsArrow, addr
<1>2. QED
  BY <1>1, LinkInvariant, PTL
-----------------------------------------------------------------------------
(* The diagram that is promised, link by link. *)

(* A box is the event of its row, and every event gets one.                *)
RowsAreEvents ==
    /\ DOMAIN events_list = 1..Len(events_list)
    /\ \A k \in 1..Len(events_list) :
          /\ events_list[k].has_device <=>
                events_list[k].parsed.device_address # NoAddress
          /\ \/ pc = "events" /\ k \in todo
             \/ \E x \in events_diagram : x.row = k
    /\ \A x \in events_diagram :
          x.row \in 1..Len(events_list) /\ x.event = events_list[x.row]

(* From the first loop on, at most one connection event of a device is in  *)
(* no pair.                                                                *)
AtMostOneIsLeft ==
    pc \in {"complete", "comunications", "done"} =>
        \A a \in devices_hash : \A x, y \in connectionsOf(a) :
            pairs_in(links, x) = {} /\ pairs_in(links, y) = {} => x = y

(* What the second loop has still to visit has no open link.               *)
VisitedAreOpen ==
    pc = "complete" =>
        /\ \A a \in DOMAIN device_connection :
              PairedOff(a, connectionsOf(a), device_connection, links)
        /\ \A l \in DOMAIN links, a \in todo :
              l.kind = "open" => device_connection[a].row \notin l.rows

PromiseInv ==
    /\ LinkInv
    /\ RowsAreEvents
    /\ AtMostOneIsLeft
    /\ VisitedAreOpen

LEMMA PromiseInvStart == Init => PromiseInv
<1> SUFFICES ASSUME Init PROVE PromiseInv
  OBVIOUS
<1>1. PICK n \in Nat :
          /\ DOMAIN events_list = 1..n /\ Len(events_list) = n
          /\ \A k \in 1..n : events_list[k].has_device <=>
                               events_list[k].parsed.device_address # NoAddress
  BY ShownAreEvents DEF Init
<1>2. pc = "events" /\ todo = 1..Len(events_list) /\ events_diagram = {}
  BY DEF Init
<1>3. QED
  BY <1>1, <1>2, RedrawStart DEF PromiseInv, RowsAreEvents, AtMostOneIsLeft, VisitedAreOpen

LEMMA RowsStay ==
    ASSUME RowsAreEvents, LinkInv, [Next]_vars
    PROVE  RowsAreEvents'
<1>1. CASE MakeEvent
  <2> DEFINE i == Cardinality(events_diagram) + 1
             box == [event |-> events_list[i], row |-> i]
  <2>1. /\ pc = "events" /\ pc' = "events" /\ i \in todo /\ todo' = todo \ {i}
        /\ events_diagram' = events_diagram \cup {box} /\ events_list' = events_list
    BY <1>1 DEF MakeEvent, input
  <2>2. i \in 1..Len(events_list) /\ box.row = i /\ box.event = events_list[i]
    BY <2>1 DEF LinkInv, TypeOK
  <2> HIDE DEF box, i
  <2>3. ASSUME NEW k \in 1..Len(events_list)
        PROVE  k \in todo' \/ \E x \in events_diagram' : x.row = k
    BY <2>1, <2>2, <2>3 DEF RowsAreEvents
  <2>4. \A x \in events_diagram' :
            x.row \in 1..Len(events_list) /\ x.event = events_list[x.row]
    BY <2>1, <2>2 DEF RowsAreEvents
  <2>5. QED
    BY <2>1, <2>3, <2>4 DEF RowsAreEvents
<1>2. CASE EventsMade
  BY <1>2 DEF EventsMade, boxes, input, RowsAreEvents
<1>3. CASE ~MakeEvent /\ ~EventsMade
  <2>1. /\ UNCHANGED <<events_list, events_diagram>>
        /\ pc # "events" \/ UNCHANGED <<pc, todo>>
    BY <1>3 DEF Next, vars, boxes, input, make_device_timeline, DevicesMade,
       ConnectionLink, ConnectionsMade, CompleteLink, ConnectionsCompleted,
       ComunicationLink, ComunicationsMade
  <2>2. QED
    BY <2>1 DEF RowsAreEvents
<1>4. QED
  BY <1>1, <1>2, <1>3


(* Drawing something else than a pair leaves the pairs as they are. *)
LEMMA PairsStay ==
    ASSUME NEW L, NEW l0, NEW M, Adds(L, l0, M), l0.kind # "pair"
    PROVE  /\ \A x : pairs_in(M, x) = pairs_in(L, x)
           /\ \A x : once_in(L, pairs_in(L, x)) => once_in(M, pairs_in(M, x))
<1>1. /\ DOMAIN M = DOMAIN L \cup {l0}
      /\ \A l \in DOMAIN L : l # l0 => M[l] = L[l]
  BY DEF Adds
<1>2. ASSUME NEW x PROVE pairs_in(M, x) = pairs_in(L, x)
  BY <1>1 DEF pairs_in
<1>3. ASSUME NEW x, once_in(L, pairs_in(L, x)) PROVE once_in(M, pairs_in(M, x))
  <2>1. \A l \in pairs_in(L, x) : M[l] = L[l]
    BY <1>1 DEF pairs_in
  <2>2. QED
    BY <1>2, <1>3, <2>1 DEF once_in
<1>4. QED
  BY <1>2, <1>3

(* At the end of the first loop only the event that waits is in no pair. *)
LEMMA OneIsLeft ==
    ASSUME NEW a, NEW V, NEW table, NEW L, PairedOff(a, V, table, L),
           NEW x \in V, NEW y \in V,
           pairs_in(L, x) = {}, pairs_in(L, y) = {}
    PROVE  x = y
<1>1. ~once_in(L, pairs_in(L, x)) /\ ~once_in(L, pairs_in(L, y))
  BY DEF once_in
<1>2. QED
  BY <1>1 DEF PairedOff

LEMMA OneStaysLeft ==
    ASSUME PromiseInv, [Next]_vars
    PROVE  AtMostOneIsLeft'
<1>1. CASE ConnectionsMade
  <2>1. /\ pc = "connections" /\ todo = {}
        /\ UNCHANGED <<devices_hash, events_diagram, links>>
    BY <1>1 DEF ConnectionsMade, boxes, input
  <2>2. ASSUME NEW a \in devices_hash, NEW x \in connectionsOf(a), NEW y \in connectionsOf(a),
               pairs_in(links, x) = {}, pairs_in(links, y) = {}
        PROVE  x = y
    <3>1. PICK V : V = connectionsOf(a) \ todo
      OBVIOUS
    <3>2. PairedOff(a, V, device_connection, links) /\ x \in V /\ y \in V
      BY <2>1, <3>1 DEF PromiseInv, LinkInv, VisitedArePairedOff
    <3>3. QED
      BY <2>2, <3>2, OneIsLeft
  <2>3. \A a : connectionsOf(a)' = connectionsOf(a)
    BY <2>1 DEF connectionsOf, boxesOf
  <2>4. QED
    BY <2>1, <2>2, <2>3 DEF AtMostOneIsLeft
<1>2. ASSUME pc \in {"complete", "comunications", "done"},
             UNCHANGED <<devices_hash, events_diagram>>,
             \A x : pairs_in(links', x) = pairs_in(links, x)
      PROVE  AtMostOneIsLeft'
  <2>1. \A a : connectionsOf(a)' = connectionsOf(a)
    BY <1>2 DEF connectionsOf, boxesOf
  <2>2. QED
    BY <1>2, <2>1 DEF PromiseInv, AtMostOneIsLeft
<1>3. ASSUME NEW a \in Address, CompleteLink(a)
      PROVE  AtMostOneIsLeft'
  <2>1. pc = "complete" /\ UNCHANGED <<devices_hash, events_diagram>>
    BY <1>3 DEF CompleteLink, boxes, input
  <2>2. PICK l0 : Adds(links, l0, links') /\ l0.kind = "open"
    BY <1>3, CompleteLinkAdds DEF PromiseInv
  <2>3. QED
    BY <1>2, <2>1, <2>2, PairsStay
<1>4. ASSUME NEW ed \in events_diagram, ComunicationLink(ed)
      PROVE  AtMostOneIsLeft'
  <2>1. pc = "comunications" /\ UNCHANGED <<devices_hash, events_diagram>>
    BY <1>4 DEF ComunicationLink, boxes, input
  <2>2. CASE has_arrow(ed)
    <3>1. PICK l0 : /\ Adds(links, l0, links')
                    /\ l0.kind \in {"to_device", "from_device"}
      BY <1>4, <2>2, ComunicationLinkAdds DEF PromiseInv
    <3>2. QED
      BY <1>2, <2>1, <3>1, PairsStay
  <2>3. CASE ~has_arrow(ed)
    <3>1. links' = links
      BY <1>4, <2>3 DEF ComunicationLink
    <3>2. QED
      BY <1>2, <2>1, <3>1
  <2>4. QED
    BY <2>2, <2>3
<1>5. CASE ConnectionsCompleted \/ ComunicationsMade \/ UNCHANGED vars
  <2>1. /\ UNCHANGED <<devices_hash, events_diagram, links>>
        /\ pc' \in {"complete", "comunications", "done"} =>
              pc \in {"complete", "comunications", "done"}
    BY <1>5 DEF ConnectionsCompleted, ComunicationsMade, vars, boxes, input
  <2>2. CASE pc \in {"complete", "comunications", "done"}
    BY <1>2, <2>1, <2>2
  <2>3. CASE pc \notin {"complete", "comunications", "done"}
    BY <2>1, <2>3 DEF AtMostOneIsLeft
  <2>4. QED
    BY <2>2, <2>3
<1>6. CASE \/ MakeEvent \/ EventsMade \/ DevicesMade
           \/ \E a \in Address : make_device_timeline(a)
           \/ \E ed \in events_diagram : ConnectionLink(ed)
  <2>1. pc' \in {"events", "devices", "connections"}
    BY <1>6 DEF MakeEvent, EventsMade, DevicesMade, make_device_timeline, ConnectionLink
  <2>2. QED
    BY <2>1 DEF AtMostOneIsLeft
<1>7. QED
  BY <1>1, <1>3, <1>4, <1>5, <1>6 DEF Next

LEMMA OpenStayVisited ==
    ASSUME PromiseInv, [Next]_vars
    PROVE  VisitedAreOpen'
<1>1. CASE ConnectionsMade
  <2>1. /\ pc = "connections" /\ todo = {}
        /\ UNCHANGED <<devices_hash, events_diagram, device_connection, links>>
    BY <1>1 DEF ConnectionsMade, boxes, input
  <2>2. \A a \in DOMAIN device_connection :
            PairedOff(a, connectionsOf(a), device_connection, links)
    <3>1. \A a : connectionsOf(a) \ todo = connectionsOf(a)
      BY <2>1
    <3>2. \A a \in devices_hash :
              PairedOff(a, connectionsOf(a), device_connection, links)
      BY <2>1, <3>1 DEF PromiseInv, LinkInv, VisitedArePairedOff
    <3>3. QED
      BY <3>2 DEF PromiseInv, LinkInv, TypeOK
  <2>3. \A l \in DOMAIN links : l.kind # "open"
    BY <2>1 DEF PromiseInv, LinkInv, VisitedArePairedOff
  <2>4. \A a : connectionsOf(a)' = connectionsOf(a)
    BY <2>1 DEF connectionsOf, boxesOf
  <2>5. \A a \in DOMAIN device_connection :
            PairedOff(a, connectionsOf(a)', device_connection, links)
    BY <2>2, <2>4
  <2>6. QED
    BY <2>1, <2>3, <2>5 DEF VisitedAreOpen
<1>2. ASSUME NEW a \in Address, CompleteLink(a)
      PROVE  VisitedAreOpen'
  <2>1. PICK gone : /\ todo' \subseteq todo \ gone
                    /\ DOMAIN device_connection' = DOMAIN device_connection \ gone
    BY <1>2, CompleteLinkAdds DEF PromiseInv
  <2>2. PICK l0 : /\ Adds(links, l0, links') /\ l0.kind = "open"
                  /\ l0.rows = {device_connection[a].row}
    BY <1>2, CompleteLinkAdds DEF PromiseInv
  <2>3. /\ pc = "complete" /\ pc' = "complete" /\ a \in todo
        /\ todo' \subseteq todo \ gone
        /\ todo' \subseteq todo \ {a}
        /\ DOMAIN device_connection' = DOMAIN device_connection \ gone
        /\ \A b \in DOMAIN device_connection' :
              device_connection'[b] = device_connection[b]
        /\ UNCHANGED events_diagram
        /\ Adds(links, l0, links') /\ l0.kind = "open"
        /\ l0.rows = {device_connection[a].row}
    BY <1>2, <2>1, <2>2, CompleteLinkAdds DEF PromiseInv
  <2>4. /\ \A b \in DOMAIN device_connection :
              PairedOff(b, connectionsOf(b), device_connection, links)
        /\ \A l \in DOMAIN links, b \in todo :
              l.kind = "open" => device_connection[b].row \notin l.rows
        /\ todo \subseteq DOMAIN device_connection
    BY <2>3 DEF PromiseInv, VisitedAreOpen, LinkInv, CompletionIsReady
  <2>5. ASSUME NEW b \in DOMAIN device_connection'
        PROVE  PairedOff(b, connectionsOf(b)', device_connection', links')
    <3>1. connectionsOf(b)' = connectionsOf(b)
      BY <2>3 DEF connectionsOf, boxesOf
    <3>2. PICK V : V = connectionsOf(b)
      OBVIOUS
    <3>3. PairedOff(b, V, device_connection, links)
      BY <2>3, <2>4, <3>2
    <3>4. /\ \A x : pairs_in(links', x) = pairs_in(links, x)
          /\ \A x : once_in(links, pairs_in(links, x)) => once_in(links', pairs_in(links', x))
      BY <2>3, PairsStay
    <3>5. b \in DOMAIN device_connection /\ device_connection'[b] = device_connection[b]
      BY <2>3
    <3>6. PairedOff(b, V, device_connection', links')
      BY <3>3, <3>4, <3>5 DEF PairedOff
    <3>7. QED
      BY <3>1, <3>2, <3>6
  <2>6. ASSUME NEW l \in DOMAIN links', NEW b \in todo', l.kind = "open"
        PROVE  device_connection'[b].row \notin l.rows
    <3>1. /\ b \in todo /\ b # a /\ device_connection'[b] = device_connection[b]
          /\ a \in DOMAIN device_connection /\ b \in DOMAIN device_connection
      BY <2>3, <2>4
    <3>2. CASE l \in DOMAIN links
      BY <2>4, <2>6, <3>1, <3>2
    <3>3. CASE l = l0
      <4>1. device_connection[a] \in connectionsOf(a) /\ device_connection[b] \in connectionsOf(b)
        BY <2>4, <3>1 DEF PairedOff
      <4>2. device_connection[a].row # device_connection[b].row
        BY <3>1, <4>1 DEF connectionsOf, boxesOf, PromiseInv, LinkInv, BoxesAreApart
      <4>3. QED
        BY <2>3, <3>1, <3>3, <4>2
    <3>4. QED
      BY <2>3, <3>2, <3>3 DEF Adds
  <2>7. QED
    BY <2>3, <2>5, <2>6 DEF VisitedAreOpen
<1>3. CASE UNCHANGED vars
  <2>1. UNCHANGED <<pc, todo, events_diagram, device_connection, links>>
    BY <1>3 DEF vars, boxes
  <2>2. \A a : connectionsOf(a)' = connectionsOf(a)
    BY <2>1 DEF connectionsOf, boxesOf
  <2>3. QED
    BY <2>1, <2>2 DEF PromiseInv, VisitedAreOpen
<1>4. CASE \/ MakeEvent \/ EventsMade \/ DevicesMade
           \/ \E a \in Address : make_device_timeline(a)
           \/ \E ed \in events_diagram : ConnectionLink(ed) \/ ComunicationLink(ed)
           \/ ConnectionsCompleted \/ ComunicationsMade
  <2>1. pc' # "complete"
    BY <1>4 DEF MakeEvent, EventsMade, DevicesMade, make_device_timeline, ConnectionLink,
       ComunicationLink, ConnectionsCompleted, ComunicationsMade
  <2>2. QED
    BY <2>1 DEF VisitedAreOpen
<1>5. QED
  BY <1>1, <1>2, <1>3, <1>4 DEF Next

LEMMA PromiseInvariant == Spec => []PromiseInv
<1>1. PromiseInv /\ [Next]_vars => PromiseInv'
  BY LinkStep, RowsStay, OneStaysLeft, OpenStayVisited DEF PromiseInv
<1>2. QED
  BY <1>1, PromiseInvStart, PTL DEF Spec

-----------------------------------------------------------------------------
(* The refinement mapping.  A box is the shown row of its number.          *)
shown_row(x) == [row        |-> x.row,
                 device     |-> addr(x),
                 connection |-> x.event.parsed.is_device_connection]

arrows_at(L, k) ==
    {l \in DOMAIN L : l.kind \in {"to_device", "from_device"} /\ l.rows = {k}}

count_in(L, S) == IF S = {} THEN 0 ELSE IF once_in(L, S) THEN 1 ELSE 2

LEMMA BoxesAreShown ==
    ASSUME PromiseInv
    PROVE  /\ \A x \in events_diagram :
                 /\ shown_row(x) \in shown_rows
                 /\ x.row \in DOMAIN events_list
                 /\ x.event.has_device <=> addr(x) # NoAddress
           /\ pc # "events" =>
                 \A r \in shown_rows : \E x \in events_diagram : r = shown_row(x)
<1>1. /\ DOMAIN events_list = 1..Len(events_list)
      /\ \A x \in events_diagram :
            x.row \in 1..Len(events_list) /\ x.event = events_list[x.row]
      /\ \A k \in 1..Len(events_list) :
            /\ events_list[k].has_device <=>
                  events_list[k].parsed.device_address # NoAddress
            /\ pc # "events" => \E x \in events_diagram : x.row = k
  BY DEF PromiseInv, RowsAreEvents
<1>2. ASSUME NEW x \in events_diagram
      PROVE  /\ shown_row(x) \in shown_rows
             /\ x.row \in DOMAIN events_list
             /\ x.event.has_device <=> addr(x) # NoAddress
  BY <1>1 DEF shown_row, shown_rows, addr
<1>3. ASSUME pc # "events", NEW r \in shown_rows
      PROVE  \E x \in events_diagram : r = shown_row(x)
  <2>1. PICK k \in 1..Len(events_list) :
            r = [row        |-> k,
                 device     |-> events_list[k].parsed.device_address,
                 connection |-> events_list[k].parsed.is_device_connection]
    BY <1>1 DEF shown_rows
  <2>2. PICK x \in events_diagram : x.row = k
    BY <1>1, <1>3
  <2>3. x.event = events_list[k]
    BY <1>1, <2>2
  <2>4. QED
    BY <2>1, <2>2, <2>3 DEF shown_row, addr
<1>4. QED
  BY <1>2, <1>3

LEMMA JoinedIsPaired ==
    \A x : Promise!joined(shown_row(x)) <=> pairs_in(links, x) # {}
BY DEF Promise!joined, shown_row, paired_rows, drawn, BagToSet, pairs_in

LEMMA CountsAreCopies ==
    /\ arrow_counts = [k \in DOMAIN events_list |-> count_in(links, arrows_at(links, k))]
    /\ arrow_counts' = [k \in DOMAIN events_list' |-> count_in(links', arrows_at(links', k))]
<1>1. /\ \A k : {l \in drawn("to_device") \cup drawn("from_device") : l.rows = {k}}
                    = arrows_at(links, k)
      /\ \A S : copies(S) = count_in(links, S)
  BY DEF drawn, BagToSet, arrows_at, copies, count_in, drawn_once, once_in
<1>2. /\ \A k : {l \in drawn("to_device")' \cup drawn("from_device")' : l.rows = {k}}
                    = arrows_at(links', k)
      /\ \A S : copies(S)' = count_in(links', S)
  BY DEF drawn, BagToSet, arrows_at, copies, count_in, drawn_once, once_in
<1>3. arrow_counts = [k \in DOMAIN events_list |-> count_in(links, arrows_at(links, k))]
  BY <1>1 DEF arrow_counts
<1>4. arrow_counts' = [k \in DOMAIN events_list' |-> count_in(links', arrows_at(links', k))]
  BY <1>2 DEF arrow_counts
<1>5. QED
  BY <1>3, <1>4

LEMMA PromiseStart == Init => Promise!Init
<1> SUFFICES ASSUME Init PROVE Promise!Init
  OBVIOUS
<1>1. PICK n \in Nat :
          /\ DOMAIN events_list = 1..n
          /\ \A k \in 1..n : events_list[k].parsed \in Parsed
  BY ShownAreEvents DEF Init
<1>2. links = EmptyBag /\ pc = "events"
  BY DEF Init
<1>3. DOMAIN links = {}
  BY <1>2 DEF EmptyBag, SetToBag
<1>4. shown_rows \in SUBSET Promise!Row
  BY <1>1, ParsedAssumption DEF shown_rows, Promise!Row
<1>5. {r.row : r \in shown_rows} = DOMAIN events_list
  <2>1. ASSUME NEW k \in DOMAIN events_list PROVE \E r \in shown_rows : r.row = k
    <3>1. PICK r : r = [row        |-> k,
                        device     |-> events_list[k].parsed.device_address,
                        connection |-> events_list[k].parsed.is_device_connection]
      OBVIOUS
    <3>2. r \in shown_rows /\ r.row = k
      BY <3>1 DEF shown_rows
    <3>3. QED
      BY <3>2
  <2>2. \A r \in shown_rows : r.row \in DOMAIN events_list
    BY DEF shown_rows
  <2>3. QED
    BY <2>1, <2>2
<1>6. \A k \in DOMAIN events_list : count_in(links, arrows_at(links, k)) = 0
  BY <1>3 DEF count_in, arrows_at
<1>7. arrow_counts = [r \in {r.row : r \in shown_rows} |-> 0]
  BY <1>5, <1>6, CountsAreCopies
<1>8. paired_rows = {} /\ open_rows = {}
  BY <1>3 DEF paired_rows, open_rows, drawn, BagToSet
<1>9. QED
  BY <1>2, <1>4, <1>7, <1>8 DEF Promise!Init

(* What draws nothing and does not end the redraw is a stuttering step. *)
LEMMA PromiseStutters ==
    ASSUME UNCHANGED <<events_list, links>>, (pc = "done") <=> (pc' = "done")
    PROVE  UNCHANGED Promise!vars
<1>1. shown_rows' = shown_rows
  BY DEF shown_rows
<1>2. arrow_counts' = arrow_counts
  BY CountsAreCopies
<1>3. paired_rows' = paired_rows /\ open_rows' = open_rows
  BY DEF paired_rows, open_rows, drawn, BagToSet
<1>4. QED
  BY <1>1, <1>2, <1>3 DEF Promise!vars

(* What a link changes in the picture, by its kind. *)
LEMMA LinkIsDrawn ==
    ASSUME NEW l0, Adds(links, l0, links'), events_list' = events_list
    PROVE  /\ shown_rows' = shown_rows
           /\ l0.kind = "pair" => paired_rows' = paired_rows \cup {l0.rows}
           /\ l0.kind # "pair" => paired_rows' = paired_rows
           /\ l0.kind = "open" => open_rows' = open_rows \cup l0.rows
           /\ l0.kind # "open" => open_rows' = open_rows
           /\ l0.kind \notin {"to_device", "from_device"} => arrow_counts' = arrow_counts
<1>1. DOMAIN links' = DOMAIN links \cup {l0}
  BY DEF Adds
<1>2. shown_rows' = shown_rows
  BY DEF shown_rows
<1>3. /\ paired_rows = {l.rows : l \in {l \in DOMAIN links : l.kind = "pair"}}
      /\ paired_rows' = {l.rows : l \in {l \in DOMAIN links' : l.kind = "pair"}}
      /\ open_rows = UNION {l.rows : l \in {l \in DOMAIN links : l.kind = "open"}}
      /\ open_rows' = UNION {l.rows : l \in {l \in DOMAIN links' : l.kind = "open"}}
  BY DEF paired_rows, open_rows, drawn, BagToSet
<1>4. /\ l0.kind = "pair" => paired_rows' = paired_rows \cup {l0.rows}
      /\ l0.kind # "pair" => paired_rows' = paired_rows
  BY <1>1, <1>3
<1>5. /\ l0.kind = "open" => open_rows' = open_rows \cup l0.rows
      /\ l0.kind # "open" => open_rows' = open_rows
  BY <1>1, <1>3
<1>6. ASSUME l0.kind \notin {"to_device", "from_device"}
      PROVE  arrow_counts' = arrow_counts
  <2>1. ASSUME NEW i
        PROVE  count_in(links', arrows_at(links', i)) = count_in(links, arrows_at(links, i))
    <3>1. arrows_at(links', i) = arrows_at(links, i)
      BY <1>1, <1>6 DEF arrows_at
    <3>2. \A l \in arrows_at(links, i) : links'[l] = links[l]
      BY <1>6 DEF Adds, arrows_at
    <3>3. QED
      BY <3>1, <3>2 DEF count_in, once_in
  <2>2. QED
    BY <2>1, CountsAreCopies
<1>7. QED
  BY <1>2, <1>4, <1>5, <1>6

LEMMA PairIsJoin ==
    ASSUME PromiseInv, NEW ed \in events_diagram, ConnectionLink(ed),
           ed.event.has_device /\ ed.event.parsed.is_device_connection,
           NEW d \in waiting(addr(ed)),
           draw("pair", {ed.row, device_connection[d].row}, dd'),
           device_connection' = Without(device_connection, d)
    PROVE  Promise!Next
<1>1. LinkInv
  BY DEF PromiseInv
<1>2. PICK w \in events_diagram :
          /\ w = device_connection[d] /\ addr(w) = d /\ pairs_in(links, w) = {}
          /\ w \in connectionsOf(d) \ todo /\ w # ed /\ w.row # ed.row
          /\ \E l0 : /\ IsABag(links') /\ Adds(links, l0, links')
                     /\ l0.kind = "pair" /\ l0.rows = {ed.row, w.row}
                     /\ l0.column = dd'
  BY <1>1, PairAdds
<1>3. d = addr(ed) /\ pairs_in(links, ed) = {}
  BY <1>1, PairAdds
<1>4. PICK l0 : Adds(links, l0, links') /\ l0.kind = "pair" /\ l0.rows = {ed.row, w.row}
  BY <1>2
<1>5. pc = "connections" /\ pc' = "connections" /\ events_list' = events_list
  BY DEF ConnectionLink, boxes, input
<1>6. /\ shown_rows' = shown_rows /\ paired_rows' = paired_rows \cup {{ed.row, w.row}}
      /\ open_rows' = open_rows /\ arrow_counts' = arrow_counts
  BY <1>4, <1>5, LinkIsDrawn
<1>7. /\ shown_row(ed) \in shown_rows /\ shown_row(w) \in shown_rows
      /\ addr(ed) # NoAddress
  BY BoxesAreShown
<1>8. w.event.parsed.is_device_connection
  BY <1>2 DEF connectionsOf
<1>9. {shown_row(ed), shown_row(w)} \subseteq Promise!connections
  BY <1>2, <1>3, <1>7, <1>8 DEF Promise!connections, shown_row
<1>10. ~Promise!joined(shown_row(ed)) /\ ~Promise!joined(shown_row(w))
  BY <1>2, <1>3, JoinedIsPaired
<1>11. /\ shown_row(ed) # shown_row(w) /\ shown_row(ed).device = shown_row(w).device
       /\ shown_row(ed).row = ed.row /\ shown_row(w).row = w.row
  BY <1>2, <1>3 DEF shown_row
<1>12. Promise!Join(shown_row(ed), shown_row(w))
  BY <1>5, <1>6, <1>9, <1>10, <1>11 DEF Promise!Join
<1>13. QED
  BY <1>7, <1>12 DEF Promise!Next

LEMMA CompleteIsLeave ==
    ASSUME PromiseInv, NEW a \in Address, CompleteLink(a)
    PROVE  Promise!Next
<1>1. LinkInv
  BY DEF PromiseInv
<1>2. pc = "complete" /\ pc' = "complete" /\ a \in todo /\ events_list' = events_list
  BY <1>1, CompleteLinkAdds
<1>3. PICK x : x = device_connection[a]
  OBVIOUS
<1>4. PICK l0 : Adds(links, l0, links') /\ l0.kind = "open" /\ l0.rows = {x.row}
  BY <1>1, <1>3, CompleteLinkAdds
<1>5. /\ shown_rows' = shown_rows /\ paired_rows' = paired_rows
      /\ open_rows' = open_rows \cup {x.row} /\ arrow_counts' = arrow_counts
  BY <1>2, <1>4, LinkIsDrawn
<1>6. a \in DOMAIN device_connection
  BY <1>1, <1>2 DEF LinkInv, CompletionIsReady
<1>7. PICK V : V = connectionsOf(a)
  OBVIOUS
<1>8. PairedOff(a, V, device_connection, links)
  BY <1>2, <1>6, <1>7 DEF PromiseInv, VisitedAreOpen
<1>9. /\ x \in V /\ pairs_in(links, x) = {}
      /\ \A y \in V : y # x => pairs_in(links, y) # {}
  BY <1>3, <1>6, <1>8 DEF PairedOff, once_in
<1>10. /\ x \in events_diagram /\ addr(x) = a /\ x.event.has_device
       /\ x.event.parsed.is_device_connection
  BY <1>7, <1>9 DEF connectionsOf, boxesOf, addr
<1>11. /\ shown_row(x) \in shown_rows /\ addr(x) # NoAddress
       /\ \A r \in shown_rows : \E y \in events_diagram : r = shown_row(y)
       /\ \A y \in events_diagram : y.event.has_device <=> addr(y) # NoAddress
  BY <1>2, <1>10, BoxesAreShown
<1>12. shown_row(x) \in Promise!connections /\ shown_row(x).row = x.row
  BY <1>10, <1>11 DEF Promise!connections, shown_row
<1>13. x.row \notin open_rows
  <2>1. \A l \in DOMAIN links : l.kind = "open" => x.row \notin l.rows
    BY <1>2, <1>3 DEF PromiseInv, VisitedAreOpen
  <2>2. QED
    BY <2>1 DEF open_rows, drawn, BagToSet
<1>14. ASSUME NEW r \in Promise!connections, r.device = shown_row(x).device
       PROVE  Promise!joined(r) <=> r # shown_row(x)
  <2>1. r \in shown_rows /\ r.device # NoAddress /\ r.connection
    BY DEF Promise!connections
  <2>2. PICK y \in events_diagram : r = shown_row(y)
    BY <1>11, <2>1
  <2>3. y \in V
    BY <1>7, <1>10, <1>11, <1>14, <2>1, <2>2 DEF connectionsOf, boxesOf, shown_row, addr
  <2>4. y = x <=> shown_row(y) = shown_row(x)
    BY <1>1, <1>10 DEF LinkInv, BoxesAreApart, shown_row
  <2>5. Promise!joined(shown_row(y)) <=> pairs_in(links, y) # {}
    BY JoinedIsPaired
  <2>6. QED
    BY <1>9, <2>2, <2>3, <2>4, <2>5
<1>15. Promise!Leave(shown_row(x))
  BY <1>2, <1>5, <1>12, <1>13, <1>14 DEF Promise!Leave
<1>16. QED
  BY <1>11, <1>15 DEF Promise!Next

LEMMA ArrowIsDrawn ==
    ASSUME PromiseInv, NEW ed \in events_diagram, ComunicationLink(ed), has_arrow(ed)
    PROVE  Promise!Next
<1>1. LinkInv
  BY DEF PromiseInv
<1>2. /\ pc = "comunications" /\ pc' = "comunications" /\ ed \in todo
      /\ events_list' = events_list
  BY DEF ComunicationLink, boxes, input
<1>3. PICK l0 : /\ Adds(links, l0, links')
                /\ l0.kind \in {"to_device", "from_device"} /\ l0.rows = {ed.row}
  BY <1>1, ComunicationLinkAdds
<1>4. /\ shown_rows' = shown_rows /\ paired_rows' = paired_rows /\ open_rows' = open_rows
  BY <1>2, <1>3, LinkIsDrawn
<1>5. /\ shown_row(ed) \in shown_rows /\ ed.row \in DOMAIN events_list
      /\ addr(ed) # NoAddress
  BY BoxesAreShown DEF has_arrow
<1>6. shown_row(ed) \in Promise!traffic /\ shown_row(ed).row = ed.row
  BY <1>5 DEF Promise!traffic, shown_row, has_arrow
<1>7. arrows_at(links, ed.row) = {}
  <2>1. arrows_in(links, ed) = {}
    BY <1>1, <1>2 DEF LinkInv, VisitedHaveArrows
  <2>2. QED
    BY <2>1 DEF arrows_in, arrows_at
<1>8. /\ DOMAIN links' = DOMAIN links \cup {l0} /\ l0 \notin DOMAIN links
      /\ links'[l0] = 1 /\ \A l \in DOMAIN links : links'[l] = links[l]
  BY <1>3, <1>7 DEF Adds, arrows_at
<1>9. count_in(links, arrows_at(links, ed.row)) = 0
  BY <1>7 DEF count_in
<1>10. count_in(links', arrows_at(links', ed.row)) = 1
  <2>1. arrows_at(links', ed.row) = {l0}
    BY <1>3, <1>7, <1>8 DEF arrows_at
  <2>2. QED
    BY <1>8, <2>1 DEF count_in, once_in
<1>11. ASSUME NEW i, i # ed.row
       PROVE  count_in(links', arrows_at(links', i)) = count_in(links, arrows_at(links, i))
  <2>1. arrows_at(links', i) = arrows_at(links, i)
    BY <1>3, <1>8, <1>11 DEF arrows_at
  <2>2. \A l \in arrows_at(links, i) : links'[l] = links[l]
    BY <1>8 DEF arrows_at
  <2>3. QED
    BY <2>1, <2>2 DEF count_in, once_in
<1>12. arrow_counts[ed.row] = 0 /\ arrow_counts' = [arrow_counts EXCEPT ![ed.row] = 1]
  BY <1>2, <1>5, <1>9, <1>10, <1>11, CountsAreCopies
<1>13. Promise!DrawArrow(shown_row(ed))
  BY <1>2, <1>4, <1>6, <1>12 DEF Promise!DrawArrow
<1>14. QED
  BY <1>5, <1>13 DEF Promise!Next

LEMMA DoneIsFinish ==
    ASSUME PromiseInv, ComunicationsMade
    PROVE  Promise!Next
<1>1. LinkInv
  BY DEF PromiseInv
<1>2. /\ pc = "comunications" /\ pc' = "done" /\ todo = {}
      /\ UNCHANGED <<events_list, links>>
  BY DEF ComunicationsMade, boxes, input
<1>3. /\ shown_rows' = shown_rows /\ paired_rows' = paired_rows
      /\ open_rows' = open_rows /\ arrow_counts' = arrow_counts
  <2>1. shown_rows' = shown_rows /\ arrow_counts' = arrow_counts
    BY <1>2, CountsAreCopies DEF shown_rows
  <2>2. QED
    BY <1>2, <2>1 DEF paired_rows, open_rows, drawn, BagToSet
<1>4. /\ \A r \in shown_rows : \E x \in events_diagram : r = shown_row(x)
      /\ \A x \in events_diagram : /\ x.event.has_device <=> addr(x) # NoAddress
                                  /\ x.row \in DOMAIN events_list
  BY <1>2, BoxesAreShown
<1>5. ASSUME NEW r \in Promise!traffic
      PROVE  arrow_counts[r.row] = 1
  <2>1. r \in shown_rows /\ r.device # NoAddress /\ ~r.connection
    BY DEF Promise!traffic
  <2>2. PICK x \in events_diagram : r = shown_row(x)
    BY <1>4, <2>1
  <2>3. has_arrow(x) /\ r.row = x.row
    BY <1>4, <2>1, <2>2 DEF has_arrow, shown_row
  <2>4. once_in(links, arrows_in(links, x))
    BY <1>1, <1>2, <2>3 DEF LinkInv, VisitedHaveArrows, HasItsArrow
  <2>5. arrows_in(links, x) = arrows_at(links, x.row)
    BY DEF arrows_in, arrows_at
  <2>6. count_in(links, arrows_at(links, x.row)) = 1
    BY <2>4, <2>5 DEF count_in, once_in
  <2>7. QED
    BY <1>4, <2>3, <2>6, CountsAreCopies
<1>6. ASSUME NEW r \in Promise!connections, NEW q \in Promise!connections,
             r.device = q.device, ~Promise!joined(r), ~Promise!joined(q)
      PROVE  r = q
  <2>1. /\ r \in shown_rows /\ r.device # NoAddress /\ r.connection
        /\ q \in shown_rows /\ q.device # NoAddress /\ q.connection
    BY DEF Promise!connections
  <2>2. PICK x \in events_diagram : r = shown_row(x)
    BY <1>4, <2>1
  <2>3. PICK y \in events_diagram : q = shown_row(y)
    BY <1>4, <2>1
  <2>4. PICK a : a = addr(x)
    OBVIOUS
  <2>5. x \in connectionsOf(a) /\ y \in connectionsOf(a)
    BY <1>4, <1>6, <2>1, <2>2, <2>3, <2>4 DEF connectionsOf, boxesOf, shown_row, addr
  <2>6. a \in devices_hash
    BY <1>1, <2>4, <2>5 DEF connectionsOf, boxesOf, LinkInv, BoxesAreApart, addr
  <2>7. pairs_in(links, x) = {} /\ pairs_in(links, y) = {}
    BY <1>6, <2>2, <2>3, JoinedIsPaired
  <2>8. x = y
    BY <1>2, <2>5, <2>6, <2>7 DEF PromiseInv, AtMostOneIsLeft
  <2>9. QED
    BY <2>2, <2>3, <2>8
<1>7. Promise!Finish
  BY <1>2, <1>3, <1>5, <1>6 DEF Promise!Finish
<1>8. QED
  BY <1>7 DEF Promise!Next

LEMMA PromiseStep ==
    PromiseInv /\ [Next]_vars => [Promise!Next]_(Promise!vars)
<1> SUFFICES ASSUME PromiseInv, [Next]_vars PROVE [Promise!Next]_(Promise!vars)
  OBVIOUS
<1>1. CASE \/ MakeEvent \/ EventsMade \/ DevicesMade \/ ConnectionsMade
           \/ ConnectionsCompleted \/ UNCHANGED vars
           \/ \E a \in Address : make_device_timeline(a)
  <2>1. UNCHANGED <<events_list, links>> /\ ((pc = "done") <=> (pc' = "done"))
    BY <1>1 DEF MakeEvent, EventsMade, DevicesMade, ConnectionsMade,
       ConnectionsCompleted, make_device_timeline, vars, boxes, input
  <2>2. QED
    BY <2>1, PromiseStutters
<1>2. ASSUME NEW ed \in events_diagram, ConnectionLink(ed)
      PROVE  [Promise!Next]_(Promise!vars)
  <2>1. pc = "connections" /\ pc' = "connections" /\ events_list' = events_list
    BY <1>2 DEF ConnectionLink, boxes, input
  <2>2. CASE links' = links
    BY <2>1, <2>2, PromiseStutters
  <2>3. CASE links' # links
    <3>1. /\ ed.event.has_device /\ ed.event.parsed.is_device_connection
          /\ \E b \in waiting(addr(ed)) :
                /\ draw("pair", {ed.row, device_connection[b].row}, dd')
                /\ device_connection' = Without(device_connection, b)
      BY <1>2, <2>3 DEF ConnectionLink, addr
    <3>2. QED
      BY <1>2, <3>1, PairIsJoin
  <2>4. QED
    BY <2>2, <2>3
<1>3. ASSUME NEW ed \in events_diagram, ComunicationLink(ed)
      PROVE  [Promise!Next]_(Promise!vars)
  <2>1. CASE has_arrow(ed)
    BY <1>3, <2>1, ArrowIsDrawn
  <2>2. CASE ~has_arrow(ed)
    <3>1. UNCHANGED <<events_list, links>> /\ pc = "comunications" /\ pc' = "comunications"
      BY <1>3, <2>2 DEF ComunicationLink, boxes, input
    <3>2. QED
      BY <3>1, PromiseStutters
  <2>3. QED
    BY <2>1, <2>2
<1>4. QED
  BY <1>1, <1>2, <1>3, CompleteIsLeave, DoneIsFinish DEF Next

(* The safety part of ImplementsSequenceDiagram: for any number of events  *)
(* and devices and any order of the hash tables, what the three loops draw *)
(* is, link by link, what a redraw promises, and the redraw is over only   *)
(* when nothing is left out.                                               *)
THEOREM LinkDrawsThePromise == Spec => Promise!Init /\ [][Promise!Next]_(Promise!vars)
BY PromiseStart, PromiseInvariant, PromiseStep, PTL DEF Spec

===============================================================================

----------------------------- MODULE LinkDiagram -----------------------------
(***************************************************************************)
(* One redraw: make_all_events (event_diagram.c) gives each shown event a  *)
(* row, make_all_devices_timeline (device_diagram.c) gives each shown      *)
(* device a column, and make_all_links (link_diagram.c) joins them.  The   *)
(* link loops walk hash tables, so the order in which they meet the events *)
(* and devices is any order.  Each action is one turn of one loop.         *)
(***************************************************************************)
EXTENDS EventObject, Sequences, FiniteSets, Bags

CONSTANTS
    Parsed,     \* what the parsers can leave in an event
    MaxShown    \* bound of the model: events in one redraw

ASSUME ParsedAssumption ==
    \A p \in Parsed : /\ p.device_address \in Address \cup {NoAddress}
                      /\ p.is_device_connection \in BOOLEAN
ASSUME BoundAssumption == MaxShown \in Nat
ASSUME AddressAssumption == IsFiniteSet(Address)

VARIABLES
    events_list,        \* the events to draw, newest first
    devices_hash,       \* the devices to draw
    events_diagram,     \* the boxes drawn: an event and its row
    devices_diagram,    \* the column of each device drawn
    pc,                 \* the loop that runs
    todo,               \* what its iterator has still to return
    device_connection,  \* by device, a connection box waiting for its pair
    e,                  \* the event the first link loop visited last
    dd,                 \* the column it looked up last, or NoColumn
    links               \* the links drawn, counted

input == <<events_list, devices_hash>>
boxes == <<input, events_diagram, devices_diagram>>
vars == <<boxes, pc, todo, device_connection, e, dd, links>>

NoColumn == 0       \* dd before the first look-up: not initialised
NoEvent == [seq_number |-> -1, has_device |-> FALSE,
            parsed |-> [device_address |-> NoAddress]]

(* The shown events of a store that has filtered any of its events out: a  *)
(* descending choice of numbers matters no more than its length.           *)
ShownEvents ==
    UNION {{[i \in 1..n |-> [seq_number |-> n - i,
                             has_device |-> p[i].device_address # NoAddress,
                             parsed     |-> p[i]]] : p \in [1..n -> Parsed]}
           : n \in 0..MaxShown}

(* EventStore shows that every shown event's device is shown too. *)
Init ==
    /\ events_list \in ShownEvents
    /\ devices_hash \in SUBSET Address
    /\ \A i \in DOMAIN events_list :
          events_list[i].has_device =>
              events_list[i].parsed.device_address \in devices_hash
    /\ events_diagram = {}
    /\ devices_diagram = [a \in {} |-> NoColumn]
    /\ pc = "events"
    /\ todo = 1..Len(events_list)
    /\ device_connection = [a \in {} |-> NoEvent]
    /\ e = NoEvent
    /\ dd = NoColumn
    /\ links = EmptyBag

-----------------------------------------------------------------------------
(* Boxes and time lines. *)

(* make_all_events: the array is walked by index, a row for each event. *)
MakeEvent ==
    LET i == Cardinality(events_diagram) + 1
    IN  /\ pc = "events"
        /\ i \in todo
        /\ events_diagram' = events_diagram \cup
                                 {[event |-> events_list[i], row |-> i]}
        /\ todo' = todo \ {i}
        /\ UNCHANGED <<input, devices_diagram, pc, device_connection,
                       e, dd, links>>

EventsMade ==
    /\ pc = "events"
    /\ todo = {}
    /\ pc' = "devices"
    /\ todo' = devices_hash
    /\ UNCHANGED <<boxes, device_connection, e, dd, links>>

With(table, a, value) ==
    [b \in DOMAIN table \cup {a} |-> IF b = a THEN value ELSE table[b]]

(* The column of the next time line: p.x moves right after each of them.   *)
next_column_advanced == Cardinality(DOMAIN devices_diagram) + 2  \* mutation
next_column == Cardinality(DOMAIN devices_diagram) + 1

(* make_all_devices_timeline: columns from left to right in the order of   *)
(* the hash table.                                                         *)
make_device_timeline(a) ==
    /\ pc = "devices"
    /\ a \in todo
    /\ devices_diagram' = With(devices_diagram, a, next_column)
    /\ todo' = todo \ {a}
    /\ UNCHANGED <<input, events_diagram, pc, device_connection, e, dd, links>>

DevicesMade ==
    /\ pc = "devices"
    /\ todo = {}
    /\ pc' = "connections"
    /\ todo' = events_diagram
    /\ UNCHANGED <<boxes, device_connection, e, dd, links>>

-----------------------------------------------------------------------------
(* make_all_connection_links. *)

draw(kind, rows, column) ==
    links' = links (+) SetToBag({[kind   |-> kind,
                                  rows   |-> rows,
                                  column |-> column]})

KeepsPaired(table, a) == table  \* mutation: the pair is not removed
Without(table, a) == [b \in DOMAIN table \ {a} |-> table[b]]

(* The device whose box waits for the next connection event of a. *)
waiting_for_any(a) == DOMAIN device_connection  \* mutation: lookup by no key
waiting(a) == DOMAIN device_connection \cap {a}

(* What dd holds once the first loop has visited ed. *)
looked_up_late(ed) ==  \* mutation: looked up for communications only
    IF ed.event.has_device /\ ~ed.event.parsed.is_device_connection
    THEN devices_diagram[ed.event.parsed.device_address] ELSE dd
looked_up(ed) ==
    IF ed.event.has_device
    THEN devices_diagram[ed.event.parsed.device_address] ELSE dd

(* The first loop.  A connection or disconnection waits for the next one   *)
(* of its device that the iterator returns and is linked with it.          *)
ConnectionLink(ed) ==
    LET a == ed.event.parsed.device_address
        connects == ed.event.has_device /\ ed.event.parsed.is_device_connection
    IN  /\ pc = "connections"
        /\ ed \in todo
        /\ todo' = todo \ {ed}
        /\ e' = ed.event
        /\ dd' = looked_up(ed)
        /\ \/ /\ ~connects
              /\ UNCHANGED <<device_connection, links>>
           \/ /\ connects
              /\ \E b \in waiting(a) :
                    /\ draw("pair", {ed.row, device_connection[b].row}, dd')
                    /\ device_connection' = Without(device_connection, b)
           \/ /\ connects
              /\ waiting(a) = {}
              /\ device_connection' = With(device_connection, a, ed)
              /\ UNCHANGED links
        /\ UNCHANGED <<boxes, pc>>

ConnectionsMade ==
    /\ pc = "connections"
    /\ todo = {}
    /\ pc' = "complete"
    /\ todo' = DOMAIN device_connection
    /\ UNCHANGED <<boxes, device_connection, e, dd, links>>

(* Where the iterator of the second loop can stand after a turn for a that *)
(* removed the key gone: a removal under the iterator makes GLib stop the  *)
(* loop, or, built without its run-time checks, go on with what remains.   *)
iterator_after(a, gone) ==
    IF gone = {} THEN {todo \ {a}} ELSE {{}, todo \ ({a} \cup gone)}

complete_again(a) ==  \* mutation: the iterator starts anew, nothing is drawn
    LET kept == DOMAIN device_connection \ waiting(e.parsed.device_address)
    IN  /\ pc = "complete"
        /\ a \in todo
        /\ todo' = kept
        /\ device_connection' = [b \in kept |-> device_connection[b]]
        /\ UNCHANGED <<boxes, pc, e, dd, links>>

(* The second loop, for the devices left waiting.  It draws in the column  *)
(* dd and removes the key of the event e, both left over from the first    *)
(* loop.                                                                   *)
CompleteLink(a) ==
    LET gone == waiting(e.parsed.device_address)
    IN  /\ pc = "complete"
        /\ a \in todo
        /\ draw("open", {device_connection[a].row}, dd)
        /\ todo' \in iterator_after(a, gone)
        /\ device_connection' = [b \in DOMAIN device_connection \ gone |->
                                    device_connection[b]]
        /\ UNCHANGED <<boxes, pc, e, dd>>

ConnectionsCompleted ==
    /\ pc = "complete"
    /\ todo = {}
    /\ pc' = "comunications"
    /\ todo' = events_diagram
    /\ UNCHANGED <<boxes, device_connection, e, dd, links>>

-----------------------------------------------------------------------------
(* make_all_comunication_links: an arrow between every other event with a  *)
(* device and the time line of the device; an input or a control message   *)
(* points at the time line, anything else away from it.                    *)
direction(ed) ==
    IF ed.event.parsed.comunication_type \in {"EVENT_INPUT", "EVENT_CONNECTION"}
    THEN "to_device" ELSE "from_device"

has_arrow_always(ed) == ed.event.has_device  \* mutation: connections too
has_arrow(ed) ==
    ed.event.has_device /\ ~ed.event.parsed.is_device_connection

ComunicationLink(ed) ==
    /\ pc = "comunications"
    /\ ed \in todo
    /\ todo' = todo \ {ed}
    /\ IF has_arrow(ed)
       THEN draw(direction(ed), {ed.row},
                 devices_diagram[ed.event.parsed.device_address])
       ELSE UNCHANGED links
    /\ UNCHANGED <<boxes, pc, device_connection, e, dd>>

ComunicationsMade ==
    /\ pc = "comunications"
    /\ todo = {}
    /\ pc' = "done"
    /\ UNCHANGED <<boxes, todo, device_connection, e, dd, links>>

-----------------------------------------------------------------------------
Next ==
    \/ MakeEvent
    \/ EventsMade
    \/ \E a \in Address : make_device_timeline(a)
    \/ DevicesMade
    \/ \E ed \in events_diagram : ConnectionLink(ed)
    \/ ConnectionsMade
    \/ \E a \in Address : CompleteLink(a)
    \/ ConnectionsCompleted
    \/ \E ed \in events_diagram : ComunicationLink(ed)
    \/ ComunicationsMade

(* The redraw is straight-line code of the main loop: it goes on running. *)
Spec == Init /\ [][Next]_vars /\ WF_vars(Next)

-----------------------------------------------------------------------------
boxesOf(a) == {ed \in events_diagram :
                  /\ ed.event.has_device
                  /\ ed.event.parsed.device_address = a}

connectionsOf(a) ==
    {ed \in boxesOf(a) : ed.event.parsed.is_device_connection}

drawn(kind) == {l \in BagToSet(links) : l.kind = kind}

(* The links of S are a single one, drawn once. *)
drawn_once(S) == \E l \in S : S = {l} /\ links[l] = 1

(* How many links of S are drawn: none, one, or more than one. *)
copies(S) == IF S = {} THEN 0 ELSE IF drawn_once(S) THEN 1 ELSE 2

TypeOK ==
    /\ pc \in {"events", "devices", "connections", "complete",
               "comunications", "done"}
    /\ pc = "events" => todo \subseteq 1..Len(events_list)
    /\ pc \in {"devices", "complete"} => todo \subseteq devices_hash
    /\ pc \in {"connections", "comunications", "done"} => todo \subseteq events_diagram
    /\ DOMAIN devices_diagram \subseteq devices_hash
    /\ DOMAIN device_connection \subseteq devices_hash
    /\ dd \in 0..Cardinality(Address)
    /\ IsABag(links)

arrowsOf(ed) ==
    {l \in drawn("to_device") \cup drawn("from_device") : l.rows = {ed.row}}
pairsOf(ed) == {l \in drawn("pair") : ed.row \in l.rows}

(* A connection link (link_diagram.c, add_connection_link) joins two       *)
(* connection events of one device, in the column of that device, in       *)
(* whatever order the hash table returns the events.                       *)
PairsJoinOneDevice ==
    \A l \in drawn("pair") :
        \E a \in DOMAIN devices_diagram :
            /\ l.column = devices_diagram[a]
            /\ Cardinality(l.rows) = 2
            /\ l.rows \subseteq {ed.row : ed \in connectionsOf(a)}

(* Between the two connection loops a device waits if and only if it has   *)
(* an odd number of connection events, and each of its other connection    *)
(* events is in exactly one pair.                                          *)
ConnectionsArePairedOff ==
    pc = "complete" /\ BagToSet(links) = drawn("pair") =>
        \A a \in devices_hash :
            /\ a \in DOMAIN device_connection
                  <=> Cardinality(connectionsOf(a)) % 2 = 1
            /\ \A ed \in connectionsOf(a) :
                  IF a \in DOMAIN device_connection /\ device_connection[a] = ed
                  THEN pairsOf(ed) = {} ELSE drawn_once(pairsOf(ed))

(* The second loop uses dd without ever setting it: it never runs before   *)
(* the first loop has looked a column up.                                  *)
CompletionHasColumn ==
    pc = "complete" /\ todo # {} => dd # NoColumn

(* When the redraw is over, every event with a device that is not a        *)
(* connection event has exactly one arrow, in the column of its device,    *)
(* and a connection event has none.                                        *)
EveryEventHasItsArrow ==
    pc = "done" =>
        \A ed \in events_diagram :
            IF ed.event.has_device /\ ~ed.event.parsed.is_device_connection
            THEN /\ drawn_once(arrowsOf(ed))
                 /\ \A l \in arrowsOf(ed) : l.column =
                        devices_diagram[ed.event.parsed.device_address]
            ELSE arrowsOf(ed) = {}

(* Every redraw ends, with the iterator invalidated under it or not. *)
RedrawEnds == <>(pc = "done")

(* The diagram that the loops draw, seen as what a redraw promises. *)
shown_rows ==
    {[row        |-> i,
      device     |-> events_list[i].parsed.device_address,
      connection |-> events_list[i].parsed.is_device_connection]
        : i \in DOMAIN events_list}

arrow_counts ==
    [i \in DOMAIN events_list |->
        copies({l \in drawn("to_device") \cup drawn("from_device") : l.rows = {i}})]

paired_rows == {l.rows : l \in drawn("pair")}
open_rows == UNION {l.rows : l \in drawn("open")}

Promise == INSTANCE SequenceDiagram WITH
    Device   <- Address,
    NoDevice <- NoAddress,
    rows     <- shown_rows,
    arrows   <- arrow_counts,
    pairs    <- paired_rows,
    open     <- open_rows,
    done     <- pc = "done"

(* The three link loops, each over a hash table in any order and one of    *)
(* them over a table that it changes, draw what a redraw promises, link by *)
(* link, and end.                                                          *)
ImplementsSequenceDiagram == Promise!Spec

(* "complete draw connection link" (link_diagram.c:271): a connection that *)
(* has no second event is completed in the column of its own device.       *)
OpenConnectionsAreCompleted ==
    pc = "done" =>
        \A a \in devices_hash :
            Cardinality(connectionsOf(a)) % 2 = 1 =>
                \E l \in drawn("open") :
                    /\ l.column = devices_diagram[a]
                    /\ l.rows \subseteq {ed.row : ed \in connectionsOf(a)}
=============================================================================

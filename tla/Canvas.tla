-------------------------------- MODULE Canvas --------------------------------
(***************************************************************************)
(* The event boxes on the canvas and what a click on one does              *)
(* (event_diagram.c, on_clear in diagram.c, event_detail.c), between the   *)
(* redraws that the event store asks for.                                  *)
(*                                                                         *)
(* Every redraw frees all the boxes and allocates new ones, while the      *)
(* click handler keeps the address of the box it highlighted last in       *)
(* static variables that no redraw resets.  The model therefore keeps the  *)
(* memory cell of each box: a new box may be given any free cell, that of  *)
(* an old one among them.                                                  *)
(***************************************************************************)
EXTENDS EventStore

CONSTANTS
    Item,       \* memory cells for the boxes of one redraw
    NoItem,     \* the null item
    NoEvent     \* the null event; in the details pane: nothing shown yet

ASSUME ItemAssumption == NoItem \notin Item

VARIABLES
    box,             \* the boxes of the last redraw, by cell
    selected_event,  \* the box the handler highlighted last
    last_item,       \* the box whose press waits for its release
    last_event,      \* the event of the box pressed last
    details          \* the event whose texts the details pane shows

selection == <<selected_event, last_item, last_event>>
vars == <<storeVars, box, selection, details>>

NoBoxes == [i \in {} |-> NoEvent]

Init ==
    /\ StoreInit
    /\ box = NoBoxes
    /\ selected_event = NoItem
    /\ last_item = NoItem
    /\ last_event = NoEvent
    /\ details = NoEvent

-----------------------------------------------------------------------------
(* The colours, by class: the two tables for monitor packets, indexed by   *)
(* the packet's type, and one pair for the control channel.                *)
ColourClass(e) ==
    IF e.parsed.socket = "monitor" THEN e.parsed.type ELSE "control"

get_event_bg_color(e) ==
    [table |-> "event_bg_color", class |-> ColourClass(e)]

get_event_selected_bg_color(e) ==
    [table |-> "event_selected_bg_color", class |-> ColourClass(e)]

(* The box of one event as a redraw makes it. *)
make_event(e) == [event |-> e, colour |-> get_event_bg_color(e)]

make_without_clear(evs) ==  \* mutation: the old boxes are not removed
    \E cell \in Injection(evs, Item) :
        box' = [i \in {cell[e] : e \in evs} |->
                    make_event(CHOOSE e \in evs : cell[e] = i)] @@ box

(* on_clear frees the old boxes, then each drawn event gets a cell. *)
make_all_events(evs) ==
    \E cell \in Injection(evs, Item) :
        box' = [i \in {cell[e] : e \in evs} |->
                    make_event(CHOOSE e \in evs : cell[e] = i)]

(* The canvas after a store operation: a crash in the dump leaves it.      *)
redraw ==
    IF process' = "running" THEN make_all_events(events_list')
                            ELSE UNCHANGED box

-----------------------------------------------------------------------------
(* A parsed event enters the store, with the redraw that follows.  The     *)
(* event_t that leaves the array to make room is not freed: the handler    *)
(* may read it through last_event however long ago it left.                *)
AddEvent(p) ==
    /\ data_dumped_add_event(p)
    /\ redraw
    /\ UNCHANGED <<selection, details>>

(* The filter dialog is confirmed. *)
FilterChange(checks) ==
    /\ ApplyFilter(checks)
    /\ redraw
    /\ UNCHANGED <<selection, details>>

(* The cells after g_object_set on the box selected before.  Its cell may  *)
(* belong to a box of a later redraw by now, which is then repainted in    *)
(* the colour of an event it does not show.                                *)
Unselected ==
    IF selected_event \in DOMAIN box
    THEN [box EXCEPT ![selected_event].colour = get_event_bg_color(last_event)]
    ELSE box

show_event_details(e) == details' = e

select_forgets(i) ==  \* mutation: selected_event is not set
    LET e == box[i].event IN
    /\ box' = [Unselected EXCEPT ![i].colour = get_event_selected_bg_color(e)]
    /\ show_event_details(e)
    /\ UNCHANGED <<process, selected_event>>

select_keeps_old(i) ==  \* mutation: the box left keeps its highlight
    LET e == box[i].event IN
    /\ box' = [box EXCEPT ![i].colour = get_event_selected_bg_color(e)]
    /\ selected_event' = i
    /\ show_event_details(e)
    /\ UNCHANGED process

select_updates_early(i) ==  \* mutation: last_event is set before it is used
    LET e == box[i].event
        unselected == IF selected_event \in DOMAIN box
                      THEN [box EXCEPT ![selected_event].colour =
                                           get_event_bg_color(e)]
                      ELSE box
    IN  /\ box' = [unselected EXCEPT
                       ![i].colour = get_event_selected_bg_color(e)]
        /\ selected_event' = i
        /\ show_event_details(e)
        /\ UNCHANGED process

(* A press on a box that is not waiting for its release. *)
Select(i) ==
    LET e == box[i].event IN
    /\ box' = [Unselected EXCEPT ![i].colour = get_event_selected_bg_color(e)]
    /\ selected_event' = i
    /\ show_event_details(e)
    /\ UNCHANGED process

(* The box selected before is gone and its cell is not one of the boxes    *)
(* now drawn: g_object_set works on freed memory, to no effect (Select),   *)
(* or not survived.                                                        *)
SelectCrashes ==
    /\ selected_event # NoItem
    /\ selected_event \notin DOMAIN box
    /\ process' = "crashed"
    /\ UNCHANGED <<box, selected_event, details>>

storeRest == <<stored, devices, drawn>>

(* GDK_BUTTON_PRESS of the left button on box i. *)
PressBox(i) ==
    /\ process = "running"
    /\ i \in DOMAIN box
    /\ \/ /\ i # last_item
          /\ Select(i) \/ SelectCrashes
       \/ /\ i = last_item
          /\ UNCHANGED <<process, box, selected_event, details>>
    /\ IF process' = "running"
       THEN last_item' = i /\ last_event' = box[i].event
       ELSE UNCHANGED <<last_item, last_event>>
    /\ UNCHANGED storeRest

(* GDK_BUTTON_RELEASE over any box.  A release elsewhere on the canvas, or *)
(* after a redraw took the box away, reaches no handler.                   *)
ReleaseBox ==
    /\ process = "running"
    /\ box # NoBoxes
    /\ last_item # NoItem
    /\ last_item' = NoItem
    /\ UNCHANGED <<storeVars, box, selected_event, last_event, details>>

Next ==
    \/ \E p \in Parsed : AddEvent(p)
    \/ \E S \in SUBSET connected_devices :
          \E checks \in [S -> BOOLEAN] : FilterChange(checks)
    \/ \E i \in Item : PressBox(i)
    \/ ReleaseBox

Spec == Init /\ [][Next]_vars

-----------------------------------------------------------------------------
Colour(e) == {get_event_bg_color(e), get_event_selected_bg_color(e)}

Highlighted(i) == box[i].colour.table = "event_selected_bg_color"

(* The boxes and the click handler's statics (event_diagram.c). *)
TypeOK ==
    /\ StoreTypeOK
    /\ DOMAIN box \subseteq Item
    /\ \A i \in DOMAIN box :
          /\ box[i].event \in Event
          /\ box[i].colour \in
                [table : {"event_bg_color", "event_selected_bg_color"},
                 class : {"control"} \cup {p.type : p \in Parsed}]
    /\ selected_event \in Item \cup {NoItem}
    /\ last_item \in {NoItem, selected_event}
    /\ last_event \in Event \cup {NoEvent}
    /\ details \in Event \cup {NoEvent}

(* The canvas shows the view of the store, one box for each event, and     *)
(* none is lost to a cell given out twice (make_all_events): the boxes of  *)
(* an older redraw never stay behind.                                      *)
BoxesShowTheView ==
    /\ {box[i].event : i \in DOMAIN box} = events_list
    /\ Cardinality(DOMAIN box) = Cardinality(events_list)

(* Whatever redraws happened between the clicks, a highlighted box is the  *)
(* one the handler selected last, it has its own colour, and it is the     *)
(* event in the details pane: no redraw brings a highlight back on a box   *)
(* that reuses the cell of the old one, and a press ignored because the    *)
(* cell is last_item's is never a press on a highlighted box of another    *)
(* event (on_event_box_clicked, show_event_details).                       *)
HighlightIsSelection ==
    \A i \in DOMAIN box : Highlighted(i) =>
        /\ i = selected_event
        /\ box[i].colour = get_event_selected_bg_color(box[i].event)
        /\ last_event = box[i].event
        /\ details = box[i].event

(* Moving the selection gives the box it leaves its own colour back, that  *)
(* of its event's type and not of the box clicked now.                     *)
SelectionMovesCleanly ==
    [][\A i \in DOMAIN box \cap DOMAIN box' :
         /\ Highlighted(i)
         /\ box'[i].event = box[i].event
         /\ ~Highlighted(i)'
         => box'[i].colour = get_event_bg_color(box[i].event)]_vars

(* What the two tables of event_diagram.c say beside each entry (:69, :79): *)
(* a box has a colour of its own event's type.                             *)
BoxHasItsTypesColour ==
    \A i \in DOMAIN box : box[i].colour \in Colour(box[i].event)
===============================================================================

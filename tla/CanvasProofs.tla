------------------------------ MODULE CanvasProofs ------------------------------
(***************************************************************************)
(* Theorems about the event boxes and the click handler's statics, for     *)
(* every set of memory cells, any number of redraws and any clicks.        *)
(***************************************************************************)
EXTENDS Canvas, EventStoreProofs, FiniteSetTheorems

-----------------------------------------------------------------------------
(* The invariant: what the properties need beside each other is that the   *)
(* statics change together, so a cell that is remembered comes with an     *)
(* event that is.                                                          *)

BoxColour ==
    [table : {"event_bg_color", "event_selected_bg_color"},
     class : {"control"} \cup {p.type : p \in Parsed}]

BoxesAreWhole == box \in [DOMAIN box -> [event : Event, colour : BoxColour]]

SelectedHasEvent == selected_event # NoItem => last_event \in Event

CanvasInv ==
    /\ StoreInv
    /\ TypeOK
    /\ BoxesAreWhole
    /\ SelectedHasEvent
    /\ BoxesShowTheView
    /\ HighlightIsSelection
    /\ IsFiniteSet(events_list)

-----------------------------------------------------------------------------
LEMMA ColoursOfEvent ==
    ASSUME NEW e \in Event
    PROVE  /\ get_event_bg_color(e) \in BoxColour
           /\ get_event_bg_color(e).table = "event_bg_color"
           /\ get_event_selected_bg_color(e) \in BoxColour
           /\ get_event_selected_bg_color(e).table = "event_selected_bg_color"
<1>1. e.parsed \in Parsed
  BY DEF Event
<1>2. ColourClass(e) \in {"control"} \cup {p.type : p \in Parsed}
  BY <1>1 DEF ColourClass
<1>3. QED
  BY <1>2 DEF get_event_bg_color, get_event_selected_bg_color, BoxColour

(* A redraw gives every event of the view its own box, in its own colour.  *)
LEMMA RedrawMakesBoxes ==
    ASSUME NEW evs, evs \subseteq Event, IsFiniteSet(evs),
           make_all_events(evs)
    PROVE  /\ DOMAIN box' \subseteq Item
           /\ BoxesAreWhole'
           /\ {box'[i].event : i \in DOMAIN box'} = evs
           /\ Cardinality(DOMAIN box') = Cardinality(evs)
           /\ \A i \in DOMAIN box' :
                 box'[i].colour = get_event_bg_color(box'[i].event)
<1>1. PICK cell \in Injection(evs, Item) :
          box' = [i \in {cell[e] : e \in evs} |->
                     make_event(CHOOSE e \in evs : cell[e] = i)]
  BY DEF make_all_events
<1> DEFINE D == {cell[e] : e \in evs}
           of(i) == CHOOSE e \in evs : cell[e] = i
<1>2. /\ cell \in [evs -> Item]
      /\ \A a, b \in evs : cell[a] = cell[b] => a = b
  BY DEF Injection, IsInjective
<1>3. \A i \in D : of(i) \in evs /\ cell[of(i)] = i
  OBVIOUS
<1>4. \A e \in evs : cell[e] \in D /\ of(cell[e]) = e
  BY <1>2, <1>3
<1>5. DOMAIN box' = D /\ \A i \in D : box'[i] = make_event(of(i))
  BY <1>1
<1> HIDE DEF D, of
<1>6. \A i \in D : /\ box'[i].event = of(i)
                   /\ box'[i].colour = get_event_bg_color(of(i))
                   /\ box'[i] \in [event : Event, colour : BoxColour]
  BY <1>3, <1>5, ColoursOfEvent DEF make_event
<1>7. D \subseteq Item
  BY <1>2 DEF D
<1>8. {box'[i].event : i \in D} = evs
  BY <1>3, <1>4, <1>6
<1>9. box' \in [D -> [event : Event, colour : BoxColour]]
  BY <1>1, <1>6 DEF D
<1>10. Cardinality(D) = Cardinality(evs)
  <2>1. cell \in Bijection(evs, D)
    <3>1. cell \in [evs -> D]
      BY <1>2, <1>4
    <3>2. \A i \in D : \E e \in evs : cell[e] = i
      BY <1>3
    <3>3. QED
      BY <1>2, <3>1, <3>2 DEF Bijection, Injection, IsInjective, Surjection
  <2>2. QED
    BY <2>1, FS_Bijection DEF ExistsBijection
<1>11. QED
  BY <1>5, <1>6, <1>7, <1>8, <1>9, <1>10 DEF BoxesAreWhole

(* A view is a part of the stored events, of which there are finitely many.*)
LEMMA ViewIsFinite ==
    ASSUME NEW s \in Seq(Event), NEW view \in SUBSET ToSet(s)
    PROVE  IsFiniteSet(view)
<1>1. /\ Len(s) \in Nat
      /\ s \in [1..Len(s) -> Event]
      /\ DOMAIN s = 1..Len(s)
  BY LenProperties
<1>2. s \in Surjection(1..Len(s), ToSet(s))
  BY <1>1 DEF Surjection, ToSet
<1>3. IsFiniteSet(1..Len(s))
  BY <1>1, FS_Interval
<1>4. IsFiniteSet(ToSet(s))
  BY <1>2, <1>3, FS_Surjection
<1>5. QED
  BY <1>4, FS_Subset

-----------------------------------------------------------------------------
LEMMA InitEstablishesCanvasInv == Init => CanvasInv
<1> SUFFICES ASSUME Init PROVE CanvasInv
  OBVIOUS
<1>1. StoreInv /\ events_list = {}
  BY StoreInitEstablishesInv DEF Init, StoreInit
<1>2. DOMAIN box = {} /\ box \in [{} -> [event : Event, colour : BoxColour]]
  BY DEF Init, NoBoxes
<1>3. IsFiniteSet({})
  BY FS_EmptySet
<1>4. QED
  BY <1>1, <1>2, <1>3
     DEF Init, CanvasInv, StoreInv, TypeOK, BoxesAreWhole, SelectedHasEvent,
         BoxesShowTheView, HighlightIsSelection

(* The operations of the store, with the redraw that follows them: no box  *)
(* is highlighted afterwards.                                              *)
LEMMA RedrawKeepsCanvasInv ==
    ASSUME CanvasInv, StoreInv', redraw,
           process' = "crashed" => UNCHANGED drawn,
           UNCHANGED <<selection, details>>
    PROVE  CanvasInv'
<1>1. UNCHANGED <<selected_event, last_item, last_event, details>>
  BY DEF selection
<1>2. CASE process' = "running"
  <2>1. IsFiniteSet(events_list')
    <3>1. events' \in Seq(Event) /\ events_list' \in SUBSET ToSet(events')
      BY <1>2 DEF StoreInv, StoreTypeOK, DiagramIsCurrent
    <3>2. QED
      BY <3>1, ViewIsFinite
  <2>2. events_list' \subseteq Event
    BY DEF StoreInv, StoreTypeOK
  <2>3. /\ DOMAIN box' \subseteq Item
        /\ BoxesAreWhole'
        /\ {box'[i].event : i \in DOMAIN box'} = events_list'
        /\ Cardinality(DOMAIN box') = Cardinality(events_list')
        /\ \A i \in DOMAIN box' :
              box'[i].colour = get_event_bg_color(box'[i].event)
    BY <1>2, <2>1, <2>2, RedrawMakesBoxes DEF redraw
  <2>4. \A i \in DOMAIN box' :
           box'[i].event \in Event /\ box'[i].colour \in BoxColour
    BY <2>3 DEF BoxesAreWhole
  <2>5. \A i \in DOMAIN box' : box'[i].colour.table = "event_bg_color"
    BY <2>3, <2>4, ColoursOfEvent
  <2>6. TypeOK'
    BY <1>1, <2>3, <2>4 DEF CanvasInv, TypeOK, StoreInv, BoxColour
  <2>7. HighlightIsSelection'
    BY <2>5 DEF HighlightIsSelection, Highlighted
  <2>8. QED
    BY <1>1, <2>1, <2>3, <2>6, <2>7
       DEF CanvasInv, SelectedHasEvent, BoxesShowTheView
<1>3. CASE process' = "crashed"
  <2>1. UNCHANGED box /\ UNCHANGED events_list
    BY <1>3 DEF redraw, drawn
  <2>2. QED
    BY <1>1, <2>1
       DEF CanvasInv, TypeOK, StoreInv, BoxesAreWhole, SelectedHasEvent,
           BoxesShowTheView, HighlightIsSelection, Highlighted
<1>4. QED
  BY <1>2, <1>3 DEF StoreInv, StoreTypeOK

LEMMA AddEventKeepsCanvasInv ==
    ASSUME CanvasInv, NEW p \in Parsed, AddEvent(p)
    PROVE  CanvasInv'
<1>1. StoreInv'
  BY AddEventKeepsInv DEF AddEvent, CanvasInv
<1>2. process' = "crashed" => UNCHANGED drawn
  BY DEF AddEvent, data_dumped_add_event, data_dumped_update
<1>3. QED
  BY <1>1, <1>2, RedrawKeepsCanvasInv DEF AddEvent

LEMMA FilterChangeKeepsCanvasInv ==
    ASSUME CanvasInv, NEW checks, DOMAIN checks \subseteq connected_devices,
           FilterChange(checks)
    PROVE  CanvasInv'
<1>1. StoreInv'
  BY ApplyFilterKeepsInv DEF FilterChange, CanvasInv
<1>2. process' = "crashed" => UNCHANGED drawn
  BY DEF FilterChange, ApplyFilter, data_dumped_update
<1>3. QED
  BY <1>1, <1>2, RedrawKeepsCanvasInv DEF FilterChange

(* A press or a release changes no event and no cell, only colours.        *)
LEMMA ClickKeepsStoreInv ==
    ASSUME StoreInv, UNCHANGED storeRest, process' \in {process, "crashed"}
    PROVE  StoreInv' /\ UNCHANGED events_list
<1>1. UNCHANGED <<events, events_size, event_count, connected_devices,
                  devices_filter, events_list, devices_hash>>
  BY DEF storeRest, stored, devices, drawn
<1>2. process' \in {"running", "crashed"}
      /\ (process' = "running" => process = "running")
  BY DEF StoreInv, StoreTypeOK
<1>3. QED
  BY <1>1, <1>2
     DEF StoreInv, StoreTypeOK, StoreWindow, FilterIsKnown,
         StoredDevicesAreKnown, DiagramIsCurrent, EveryShownEventHasItsTimeline

(* What a press leaves in the boxes. *)
LEMMA SelectPaints ==
    ASSUME CanvasInv, NEW i \in DOMAIN box, Select(i)
    PROVE  /\ DOMAIN box' = DOMAIN box
           /\ BoxesAreWhole'
           /\ \A j \in DOMAIN box : box'[j].event = box[j].event
           /\ box'[i].colour = get_event_selected_bg_color(box[i].event)
           /\ \A j \in DOMAIN box \ {i} :
                 box'[j].colour = IF j = selected_event
                                  THEN get_event_bg_color(last_event)
                                  ELSE box[j].colour
<1> DEFINE e == box[i].event
           mid == Unselected
<1>1. /\ box \in [DOMAIN box -> [event : Event, colour : BoxColour]]
      /\ e \in Event
  BY DEF CanvasInv, BoxesAreWhole
<1>2. box' = [mid EXCEPT ![i].colour = get_event_selected_bg_color(e)]
  BY DEF Select
<1>3. selected_event \in DOMAIN box => get_event_bg_color(last_event) \in BoxColour
  BY ColoursOfEvent, ItemAssumption DEF CanvasInv, SelectedHasEvent, TypeOK
<1>4. /\ mid \in [DOMAIN box -> [event : Event, colour : BoxColour]]
      /\ \A j \in DOMAIN box :
            /\ mid[j].event = box[j].event
            /\ mid[j].colour = IF j = selected_event
                               THEN get_event_bg_color(last_event)
                               ELSE box[j].colour
  <2>1. CASE selected_event \in DOMAIN box
    <3> DEFINE b == get_event_bg_color(last_event)
    <3>1. mid = [box EXCEPT ![selected_event].colour = b]
      BY <2>1 DEF Unselected
    <3>2. b \in BoxColour
      BY <1>3, <2>1
    <3> HIDE DEF mid, b
    <3>3. QED
      BY <1>1, <2>1, <3>1, <3>2 DEF b
  <2>2. CASE selected_event \notin DOMAIN box
    BY <1>1, <2>2 DEF Unselected
  <2>3. QED
    BY <2>1, <2>2
<1> DEFINE c == get_event_selected_bg_color(e)
<1>5. c \in BoxColour
  BY <1>1, ColoursOfEvent
<1> HIDE DEF mid, c
<1>6. box' = [mid EXCEPT ![i].colour = c]
  BY <1>2 DEF c
<1>7. /\ box' \in [DOMAIN box -> [event : Event, colour : BoxColour]]
      /\ DOMAIN box' = DOMAIN box
      /\ \A j \in DOMAIN box : box'[j].event = mid[j].event
      /\ box'[i].colour = c
      /\ \A j \in DOMAIN box \ {i} : box'[j].colour = mid[j].colour
  BY <1>4, <1>5, <1>6
<1>8. QED
  BY <1>4, <1>7 DEF BoxesAreWhole, c

LEMMA PressKeepsCanvasInv ==
    ASSUME CanvasInv, NEW i \in Item, PressBox(i)
    PROVE  CanvasInv'
<1>1. /\ process = "running"
      /\ i \in DOMAIN box
      /\ UNCHANGED storeRest
      /\ process' \in {process, "crashed"}
  BY DEF PressBox, Select, SelectCrashes
<1>2. StoreInv' /\ UNCHANGED events_list
  BY <1>1, ClickKeepsStoreInv DEF CanvasInv
<1>3. box[i].event \in Event
  BY <1>1 DEF CanvasInv, TypeOK
<1>4. CASE Select(i)
  <2>1. /\ process' = "running" /\ selected_event' = i
        /\ last_item' = i /\ last_event' = box[i].event
        /\ details' = box[i].event
    BY <1>1, <1>4 DEF PressBox, Select, show_event_details
  <2>2. /\ DOMAIN box' = DOMAIN box
        /\ BoxesAreWhole'
        /\ \A j \in DOMAIN box : box'[j].event = box[j].event
        /\ box'[i].colour = get_event_selected_bg_color(box[i].event)
        /\ \A j \in DOMAIN box \ {i} :
              box'[j].colour = IF j = selected_event
                               THEN get_event_bg_color(last_event)
                               ELSE box[j].colour
    BY <1>1, <1>4, SelectPaints
  <2>3. \A j \in DOMAIN box' :
           box'[j].event \in Event /\ box'[j].colour \in BoxColour
    BY <2>2 DEF BoxesAreWhole
  <2>4. TypeOK'
    BY <1>2, <1>3, <2>1, <2>2, <2>3
       DEF CanvasInv, TypeOK, StoreInv, BoxColour
  <2>5. BoxesShowTheView'
    BY <1>2, <2>2 DEF CanvasInv, BoxesShowTheView
  <2>6. ASSUME NEW j \in DOMAIN box, j # i
        PROVE  box'[j].colour.table # "event_selected_bg_color"
    <3>1. CASE j = selected_event
      <4>1. last_event \in Event
        BY <3>1, ItemAssumption DEF CanvasInv, SelectedHasEvent, TypeOK
      <4>2. QED
        BY <2>2, <2>6, <3>1, <4>1, ColoursOfEvent
    <3>2. CASE j # selected_event
      BY <2>2, <2>6, <3>2 DEF CanvasInv, HighlightIsSelection, Highlighted
    <3>3. QED
      BY <3>1, <3>2
  <2>7. HighlightIsSelection'
    BY <1>1, <2>1, <2>2, <2>6 DEF HighlightIsSelection, Highlighted
  <2>8. QED
    BY <1>2, <1>3, <2>1, <2>2, <2>4, <2>5, <2>7
       DEF CanvasInv, SelectedHasEvent
<1>5. CASE SelectCrashes
  <2>1. UNCHANGED <<box, selected_event, last_item, last_event, details>>
    BY <1>5 DEF SelectCrashes, PressBox
  <2>2. QED
    BY <1>2, <2>1
       DEF CanvasInv, TypeOK, StoreInv, BoxesAreWhole, SelectedHasEvent,
           BoxesShowTheView, HighlightIsSelection, Highlighted
<1>6. CASE i = last_item /\ UNCHANGED <<process, box, selected_event, details>>
  <2>1. last_item' = i /\ last_event' = box[i].event /\ i = selected_event
    BY <1>1, <1>6, ItemAssumption DEF PressBox, CanvasInv, TypeOK
  <2>2. TypeOK'
    BY <1>2, <1>3, <1>6, <2>1 DEF CanvasInv, TypeOK, StoreInv
  <2>3. HighlightIsSelection'
    BY <1>6, <2>1 DEF CanvasInv, HighlightIsSelection, Highlighted
  <2>4. QED
    BY <1>2, <1>3, <1>6, <2>1, <2>2, <2>3
       DEF CanvasInv, BoxesAreWhole, SelectedHasEvent, BoxesShowTheView
<1>7. QED
  BY <1>4, <1>5, <1>6 DEF PressBox

LEMMA ReleaseKeepsCanvasInv ==
    ASSUME CanvasInv, ReleaseBox
    PROVE  CanvasInv'
<1>1. StoreInv' /\ UNCHANGED events_list
  BY StoreStutterKeepsInv DEF ReleaseBox, CanvasInv, storeVars, drawn
<1>2. QED
  BY <1>1
     DEF ReleaseBox, CanvasInv, TypeOK, StoreInv, BoxesAreWhole,
         SelectedHasEvent, BoxesShowTheView, HighlightIsSelection, Highlighted

LEMMA StepKeepsCanvasInv == CanvasInv /\ [Next]_vars => CanvasInv'
<1> SUFFICES ASSUME CanvasInv, [Next]_vars PROVE CanvasInv'
  OBVIOUS
<1>1. CASE \E p \in Parsed : AddEvent(p)
  BY <1>1, AddEventKeepsCanvasInv
<1>2. ASSUME NEW S \in SUBSET connected_devices,
             NEW checks \in [S -> BOOLEAN], FilterChange(checks)
      PROVE  CanvasInv'
  BY <1>2, FilterChangeKeepsCanvasInv
<1>3. CASE \E i \in Item : PressBox(i)
  BY <1>3, PressKeepsCanvasInv
<1>4. CASE ReleaseBox
  BY <1>4, ReleaseKeepsCanvasInv
<1>5. CASE UNCHANGED vars
  <2>1. StoreInv' /\ UNCHANGED events_list
    BY <1>5, StoreStutterKeepsInv DEF vars, CanvasInv, storeVars, drawn
  <2>2. QED
    BY <1>5, <2>1
       DEF vars, selection, CanvasInv, TypeOK, StoreInv, BoxesAreWhole,
           SelectedHasEvent, BoxesShowTheView, HighlightIsSelection, Highlighted
<1>6. QED
  BY <1>1, <1>2, <1>3, <1>4, <1>5 DEF Next

LEMMA CanvasInvHolds == Spec => []CanvasInv
BY InitEstablishesCanvasInv, StepKeepsCanvasInv, PTL DEF Spec

-----------------------------------------------------------------------------
(* The boxes and the handler's statics stay within their ranges; the box   *)
(* that waits for its release is the selected one.                         *)
THEOREM CanvasTypeCorrect == Spec => []TypeOK
<1>1. CanvasInv => TypeOK
  BY DEF CanvasInv
<1>2. QED
  BY CanvasInvHolds, <1>1, PTL

(* One box for each event of the view, whatever cells the boxes are given. *)
THEOREM CanvasShowsTheView == Spec => []BoxesShowTheView
<1>1. CanvasInv => BoxesShowTheView
  BY DEF CanvasInv
<1>2. QED
  BY CanvasInvHolds, <1>1, PTL

(* A highlighted box is the selected one and its event is in the details   *)
(* pane, however many redraws and clicks came between.                     *)
THEOREM CanvasHighlightsSelection == Spec => []HighlightIsSelection
<1>1. CanvasInv => HighlightIsSelection
  BY DEF CanvasInv
<1>2. QED
  BY CanvasInvHolds, <1>1, PTL

(* A box that loses the highlight gets the colour of its own event back.   *)
THEOREM CanvasMovesSelectionCleanly == Spec => SelectionMovesCleanly
<1> DEFINE Moves ==
      \A i \in DOMAIN box \cap DOMAIN box' :
         /\ Highlighted(i)
         /\ box'[i].event = box[i].event
         /\ ~Highlighted(i)'
         => box'[i].colour = get_event_bg_color(box[i].event)
<1>1. CanvasInv /\ [Next]_vars => [Moves]_vars
  <2> SUFFICES ASSUME CanvasInv, Next,
                      NEW i \in DOMAIN box \cap DOMAIN box',
                      Highlighted(i), box'[i].event = box[i].event,
                      ~Highlighted(i)'
               PROVE  box'[i].colour = get_event_bg_color(box[i].event)
    BY DEF Highlighted
  <2>1. ASSUME redraw, StoreInv'
        PROVE  box'[i].colour = get_event_bg_color(box[i].event)
    <3>1. CASE process' = "running"
      <4>1. /\ events' \in Seq(Event)
            /\ events_list' \in SUBSET ToSet(events')
            /\ events_list' \subseteq Event
        BY <2>1, <3>1 DEF StoreInv, StoreTypeOK, DiagramIsCurrent
      <4>2. IsFiniteSet(events_list')
        BY <4>1, ViewIsFinite
      <4>3. QED
        BY <2>1, <3>1, <4>1, <4>2, RedrawMakesBoxes DEF redraw
    <3>2. CASE UNCHANGED box
      BY <3>2 DEF Highlighted
    <3>3. QED
      BY <2>1, <3>1, <3>2 DEF redraw
  <2>2. ASSUME NEW p \in Parsed, AddEvent(p)
        PROVE  box'[i].colour = get_event_bg_color(box[i].event)
    BY <2>1, <2>2, AddEventKeepsInv DEF AddEvent, CanvasInv
  <2>3. ASSUME NEW S \in SUBSET connected_devices,
               NEW checks \in [S -> BOOLEAN], FilterChange(checks)
        PROVE  box'[i].colour = get_event_bg_color(box[i].event)
    BY <2>1, <2>3, ApplyFilterKeepsInv DEF FilterChange, CanvasInv
  <2>4. ASSUME NEW j \in Item, PressBox(j)
        PROVE  box'[i].colour = get_event_bg_color(box[i].event)
    <3>1. i = selected_event /\ last_event = box[i].event
      BY DEF CanvasInv, HighlightIsSelection
    <3>2. CASE Select(j)
      <4>1. j \in DOMAIN box
        BY <2>4 DEF PressBox
      <4>2. i # j
        <5>1. box[j].event \in Event
          BY <4>1 DEF CanvasInv, TypeOK
        <5>2. QED
          BY <3>2, <4>1, <5>1, SelectPaints, ColoursOfEvent DEF Highlighted
      <4>3. QED
        BY <3>1, <3>2, <4>1, <4>2, SelectPaints
    <3>3. CASE UNCHANGED box
      BY <3>3 DEF Highlighted
    <3>4. QED
      BY <2>4, <3>2, <3>3 DEF PressBox, SelectCrashes
  <2>5. CASE ReleaseBox
    BY <2>5 DEF ReleaseBox, Highlighted
  <2>6. QED
    BY <2>2, <2>3, <2>4, <2>5 DEF Next
<1>2. QED
  BY CanvasInvHolds, <1>1, PTL DEF Spec, SelectionMovesCleanly
=============================================================================

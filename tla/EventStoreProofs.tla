--------------------------- MODULE EventStoreProofs ---------------------------
(***************************************************************************)
(* Theorems about the event store, for every set of addresses, every       *)
(* events_limit and any number of events.                                  *)
(***************************************************************************)
EXTENDS EventStore, SequenceTheorems, TLAPS

(* Adding an event at the limit drops the last one and moves the others up *)
(* by one place.                                                           *)
LEMMA ConsRemoveLast ==
    ASSUME NEW S, NEW s \in Seq(S), NEW e \in S, s # <<>>
    PROVE  /\ Cons(e, RemoveAt(s, Len(s))) \in Seq(S)
           /\ Len(Cons(e, RemoveAt(s, Len(s)))) = Len(s)
           /\ \A i \in 1..Len(s) : Cons(e, RemoveAt(s, Len(s)))[i]
                                      = IF i = 1 THEN e ELSE s[i - 1]
<1> DEFINE n == Len(s)
           front == SubSeq(s, 1, n - 1)
<1>1. n \in Nat \ {0}
  BY EmptySeq
<1>2. \A i \in 1..n : s[i] \in S
  BY ElementOfSeq
<1>3. /\ front \in Seq(S)
      /\ Len(front) = n - 1
      /\ \A i \in 1..(n - 1) : front[i] = s[i]
  <2> HIDE DEF n
  <2>1. 1 \in Int /\ n - 1 \in Int /\ \A i \in 1..(n - 1) : s[i] \in S
    BY <1>1, <1>2
  <2>2. QED
    BY <1>1, <2>1, SubSeqProperties
<1>4. SubSeq(s, n + 1, n) = <<>>
  BY <1>1, SubSeqEmpty
<1>5. RemoveAt(s, n) = front
  BY <1>3, <1>4, ConcatEmptySeq DEF RemoveAt
<1>6. QED
  <2> HIDE DEF n, front
  <2>1. <<e>> \in Seq(S) /\ Len(<<e>>) = 1 /\ <<e>>[1] = e
    OBVIOUS
  <2>2. Cons(e, RemoveAt(s, n)) = <<e>> \o front
    BY <1>5 DEF Cons
  <2>3. /\ Cons(e, RemoveAt(s, n)) \in Seq(S)
        /\ Len(Cons(e, RemoveAt(s, n))) = n
        /\ \A i \in 1..n : Cons(e, RemoveAt(s, n))[i]
                              = IF i = 1 THEN e ELSE s[i - 1]
    BY <1>1, <1>3, <2>1, <2>2, ConcatProperties
  <2>4. QED
    BY <2>3 DEF n

LEMMA ConsProperties ==
    ASSUME NEW S, NEW s \in Seq(S), NEW e \in S
    PROVE  /\ Cons(e, s) \in Seq(S)
           /\ Len(Cons(e, s)) = Len(s) + 1
           /\ \A i \in 1..(Len(s) + 1) : Cons(e, s)[i]
                                            = IF i = 1 THEN e ELSE s[i - 1]
BY DEF Cons

-----------------------------------------------------------------------------
(* The inductive invariant: the window alone does not say that the filter  *)
(* table names known devices only, which is what puts the device of every  *)
(* shown event among the time lines.                                       *)
FilterIsKnown == devices_filter \subseteq connected_devices

(* Every stored event that names a device names a known one. *)
StoredDevicesAreKnown ==
    \A i \in 1..Len(events) :
        /\ events[i].has_device =
               (events[i].parsed.device_address # NoAddress)
        /\ events[i].has_device =>
               events[i].parsed.device_address \in connected_devices

StoreInv ==
    /\ StoreTypeOK
    /\ StoreWindow
    /\ FilterIsKnown
    /\ StoredDevicesAreKnown
    /\ DiagramIsCurrent
    /\ EveryShownEventHasItsTimeline

(* What a redraw leaves behind, whatever the handler did before it. *)
LEMMA UpdateEstablishesView ==
    ASSUME StoreTypeOK, EveryShownEventHasItsTimeline,
           events' \in Seq(Event), events_size' = Len(events'),
           connected_devices' \subseteq Address,
           FilterIsKnown',
           data_dumped_update
    PROVE  /\ process' \in {"running", "crashed"}
           /\ events_list' \subseteq Event
           /\ devices_hash' \subseteq Address
           /\ DiagramIsCurrent'
           /\ EveryShownEventHasItsTimeline'
<1>1. CASE /\ process' = "crashed"
           /\ UNCHANGED drawn
  BY <1>1 DEF drawn, StoreTypeOK, DiagramIsCurrent,
              EveryShownEventHasItsTimeline
<1>2. CASE /\ diagram_update(
                  filter_events(events', events_size', devices_filter'),
                  filter_devices(connected_devices', devices_filter'))
           /\ UNCHANGED process
  <2>1. /\ devices_hash' = connected_devices' \cap devices_filter'
        /\ events_list' = {events'[i] : i \in {j \in 1..Len(events') :
                               filter_event_by_device(events'[j], devices_filter')}}
    BY <1>2 DEF diagram_update, filter_devices, filter_events
  <2>2. DOMAIN events' = 1..Len(events')
    BY LenProperties
  <2>3. \A i \in 1..Len(events') : events'[i] \in Event
    BY ElementOfSeq
  <2>4. events_list' = {x \in ToSet(events') :
            x.has_device => x.parsed.device_address \in devices_hash'}
    <3>1. ASSUME NEW x \in ToSet(events')
          PROVE  x.has_device =>
                   (x.parsed.device_address \in devices_hash'
                      <=> x.parsed.device_address \in devices_filter')
      BY <2>1 DEF FilterIsKnown
    <3>2. ToSet(events') = {events'[i] : i \in 1..Len(events')}
      BY <2>2 DEF ToSet
    <3>3. QED
      BY <2>1, <3>1, <3>2 DEF filter_event_by_device
  <2>5. events_list' \subseteq Event /\ devices_hash' \subseteq Address
    BY <2>1, <2>3
  <2>6. process' \in {"running", "crashed"}
    BY <1>2 DEF StoreTypeOK
  <2>7. EveryShownEventHasItsTimeline'
    BY <2>4 DEF EveryShownEventHasItsTimeline
  <2>8. DiagramIsCurrent'
    BY <2>1, <2>4 DEF DiagramIsCurrent
  <2>9. QED
    BY <2>5, <2>6, <2>7, <2>8
<1>3. QED
  BY <1>1, <1>2 DEF data_dumped_update

(* Storing an event shifts the window by one, whether or not it is full. *)
LEMMA PrependShiftsWindow ==
    ASSUME StoreTypeOK, StoreWindow,
           NEW e \in Event, e.seq_number = event_count,
           event_count' = event_count + 1, prepend_event(e)
    PROVE  /\ events' \in Seq(Event)
           /\ events_size' \in 0..EventsLimit
           /\ StoreWindow'
           /\ Len(events') = IF Len(events) = EventsLimit THEN Len(events)
                                                         ELSE Len(events) + 1
           /\ \A i \in 1..Len(events') :
                 events'[i] = IF i = 1 THEN e ELSE events[i - 1]
<1>1. events \in Seq(Event) /\ Len(events) \in Nat /\ event_count \in Nat
  BY LenProperties, BoundAssumption DEF StoreTypeOK
<1>2. /\ events' \in Seq(Event)
      /\ Len(events') = IF Len(events) = EventsLimit THEN Len(events)
                                                    ELSE Len(events) + 1
      /\ \A i \in 1..Len(events') :
            events'[i] = IF i = 1 THEN e ELSE events[i - 1]
  <2>1. CASE events_size = EventsLimit
    <3>1. events # <<>>
      BY <1>1, <2>1, LimitAssumption, EmptySeq DEF StoreWindow
    <3>2. events' = Cons(e, RemoveAt(events, Len(events)))
      BY <2>1 DEF prepend_event, StoreWindow
    <3>3. /\ events' \in Seq(Event)
          /\ Len(events') = Len(events)
          /\ \A i \in 1..Len(events) :
                events'[i] = IF i = 1 THEN e ELSE events[i - 1]
      <4> DEFINE t == Cons(e, RemoveAt(events, Len(events)))
      <4>1. t \in Seq(Event) /\ Len(t) = Len(events)
        BY <1>1, <3>1, ConsRemoveLast
      <4>2. \A i \in 1..Len(events) :
               t[i] = IF i = 1 THEN e ELSE events[i - 1]
        BY <1>1, <3>1, ConsRemoveLast
      <4> HIDE DEF t
      <4>3. QED
        BY <3>2, <4>1, <4>2 DEF t
    <3>4. Len(events) = EventsLimit
      BY <2>1 DEF StoreWindow
    <3>5. QED
      BY <3>3, <3>4
  <2>2. CASE events_size # EventsLimit
    <3>1. events' = Cons(e, events)
      BY <2>2 DEF prepend_event
    <3>2. /\ events' \in Seq(Event)
          /\ Len(events') = Len(events) + 1
          /\ \A i \in 1..Len(events') :
                events'[i] = IF i = 1 THEN e ELSE events[i - 1]
      <4>1. /\ Cons(e, events) \in Seq(Event)
            /\ Len(Cons(e, events)) = Len(events) + 1
        BY <1>1, ConsProperties
      <4>2. \A i \in 1..(Len(events) + 1) :
               Cons(e, events)[i] = IF i = 1 THEN e ELSE events[i - 1]
        BY <1>1, ConsProperties
      <4>3. QED
        BY <3>1, <4>1, <4>2
    <3>3. Len(events) # EventsLimit
      BY <2>2 DEF StoreWindow
    <3>4. QED
      BY <3>2, <3>3
  <2>3. QED
    BY <2>1, <2>2
<1>3. /\ events_size = Len(events)
      /\ events_size = IF event_count < EventsLimit THEN event_count
                                                    ELSE EventsLimit
      /\ \A i \in 1..Len(events) : events[i].seq_number = event_count - i
  BY DEF StoreWindow
<1>4. EventsLimit \in Nat \ {0}
  BY LimitAssumption
<1>5. events_size' = Len(events') /\ events_size' \in 0..EventsLimit
  BY <1>1, <1>2, <1>3, <1>4 DEF prepend_event
<1>6. events_size' = IF event_count' < EventsLimit THEN event_count'
                                                  ELSE EventsLimit
  <2>1. CASE event_count < EventsLimit
    <3>1. Len(events') = event_count + 1
      BY <1>1, <1>2, <1>3, <1>4, <2>1
    <3>2. QED
      BY <1>1, <1>4, <1>5, <2>1, <3>1
  <2>2. CASE ~(event_count < EventsLimit)
    <3>1. Len(events') = EventsLimit
      BY <1>1, <1>2, <1>3, <1>4, <2>2
    <3>2. QED
      BY <1>1, <1>4, <1>5, <2>2, <3>1
  <2>3. QED
    BY <2>1, <2>2
<1>7. ASSUME NEW i \in 1..Len(events')
      PROVE  events'[i].seq_number = event_count' - i
  <2>1. CASE i = 1
    BY <1>1, <1>2, <2>1
  <2>2. CASE i # 1
    <3>1. i \in Int /\ i - 1 \in 1..Len(events)
      BY <1>1, <1>2, <2>2
    <3>2. events[i - 1].seq_number = event_count - (i - 1)
      BY <1>3, <3>1
    <3>3. QED
      BY <1>1, <1>2, <2>2, <3>1, <3>2
  <2>3. QED
    BY <2>1, <2>2
<1>8. QED
  BY <1>2, <1>5, <1>6, <1>7 DEF StoreWindow

(* An arriving event keeps the invariant. *)
LEMMA AddEventKeepsInv ==
    ASSUME StoreInv, NEW p \in Parsed, data_dumped_add_event(p)
    PROVE  StoreInv'
<1> DEFINE a == p.device_address
           e == [seq_number |-> event_count,
                 has_device |-> a # NoAddress,
                 parsed     |-> p]
<1> USE DEF StoreInv
<1>1. /\ event_count < MaxEventCount
      /\ event_count' = event_count + 1
      /\ prepend_event(e)
      /\ search_device_in_event(e)
      /\ data_dumped_update
  BY DEF data_dumped_add_event
<1>2. e \in Event /\ e.seq_number = event_count
  BY BoundAssumption DEF Event, StoreTypeOK
<1>3. e.has_device => a \in Address
  BY ParsedAssumption
<1>4. e.parsed.device_address = a
  OBVIOUS
<1> HIDE DEF e, a
<1>5. /\ events' \in Seq(Event)
      /\ events_size' \in 0..EventsLimit
      /\ StoreWindow'
  BY <1>1, <1>2, PrependShiftsWindow
<1>6. connected_devices' \subseteq Address /\ FilterIsKnown'
  BY <1>1, <1>3, <1>4 DEF search_device_in_event, filter_set_active_device,
                          FilterIsKnown, StoreTypeOK, devices
<1>7. events_size' = Len(events')
  BY <1>5 DEF StoreWindow
<1>8. /\ process' \in {"running", "crashed"}
      /\ events_list' \subseteq Event
      /\ devices_hash' \subseteq Address
      /\ DiagramIsCurrent'
      /\ EveryShownEventHasItsTimeline'
  BY <1>1, <1>5, <1>6, <1>7, UpdateEstablishesView
<1>9. event_count' \in 0..MaxEventCount
  BY <1>1, BoundAssumption DEF StoreTypeOK
<1>10. StoredDevicesAreKnown'
  <2>1. /\ connected_devices \subseteq connected_devices'
        /\ e.has_device => a \in connected_devices'
    BY <1>1, <1>4 DEF search_device_in_event, devices
  <2>2. e.has_device = (a # NoAddress)
    BY DEF e
  <2>3. ASSUME NEW i \in 1..Len(events')
        PROVE  \/ events'[i] = e
               \/ \E j \in 1..Len(events) : events'[i] = events[j]
    <3>1. /\ Len(events) \in Nat
          /\ Len(events') \in {Len(events), Len(events) + 1}
          /\ events'[i] = IF i = 1 THEN e ELSE events[i - 1]
      BY <1>1, <1>2, PrependShiftsWindow, LenProperties DEF StoreTypeOK
    <3>2. i # 1 => i - 1 \in 1..Len(events)
      BY <3>1
    <3>3. QED
      BY <3>1, <3>2
  <2>4. QED
    BY <1>4, <2>1, <2>2, <2>3 DEF StoredDevicesAreKnown
<1>11. QED
  BY <1>5, <1>6, <1>8, <1>9, <1>10 DEF StoreTypeOK, FilterIsKnown

(* A confirmed dialog keeps the invariant, as long as its boxes name known *)
(* devices.                                                                *)
LEMMA ApplyFilterKeepsInv ==
    ASSUME StoreInv, NEW checks, DOMAIN checks \subseteq connected_devices,
           ApplyFilter(checks)
    PROVE  StoreInv'
<1> USE DEF StoreInv
<1>1. /\ devices_filter' =
             filter_set_active_device({a \in DOMAIN checks : checks[a]},
                                      {a \in DOMAIN checks : ~checks[a]})
      /\ UNCHANGED <<stored, connected_devices>>
      /\ data_dumped_update
  BY DEF ApplyFilter
<1>2. /\ events' = events
      /\ events_size' = events_size
      /\ event_count' = event_count
      /\ connected_devices' = connected_devices
  BY <1>1 DEF stored
<1>3. FilterIsKnown'
  <2>1. {a \in DOMAIN checks : checks[a]} \subseteq connected_devices
    OBVIOUS
  <2>2. QED
    BY <1>1, <1>2, <2>1 DEF FilterIsKnown, filter_set_active_device
<1>4. StoreWindow'
  BY <1>2 DEF StoreWindow
<1>5. /\ process' \in {"running", "crashed"}
      /\ events_list' \subseteq Event
      /\ devices_hash' \subseteq Address
      /\ DiagramIsCurrent'
      /\ EveryShownEventHasItsTimeline'
  <2>1. /\ events' \in Seq(Event)
        /\ events_size' = Len(events')
        /\ connected_devices' \subseteq Address
    BY <1>2 DEF StoreTypeOK, StoreWindow
  <2>2. QED
    BY <1>1, <1>3, <2>1, UpdateEstablishesView
<1>6. StoreTypeOK'
  BY <1>2, <1>3, <1>5 DEF StoreTypeOK, FilterIsKnown
<1>7. StoredDevicesAreKnown'
  BY <1>2 DEF StoredDevicesAreKnown
<1>8. QED
  BY <1>3, <1>4, <1>5, <1>6, <1>7

LEMMA StoreInitEstablishesInv == StoreInit => StoreInv
<1> SUFFICES ASSUME StoreInit PROVE StoreInv
  OBVIOUS
<1> USE DEF StoreInit
<1>1. events \in Seq(Event) /\ Len(events) = 0
  BY EmptySeq
<1>2. StoreTypeOK
  BY <1>1, LimitAssumption, BoundAssumption DEF StoreTypeOK
<1>3. StoreWindow
  BY <1>1, LimitAssumption DEF StoreWindow
<1>4. ToSet(events) = {}
  BY DEF ToSet
<1>5. QED
  BY <1>1, <1>2, <1>3, <1>4
     DEF StoreInv, FilterIsKnown, StoredDevicesAreKnown, DiagramIsCurrent,
         EveryShownEventHasItsTimeline

LEMMA StoreStutterKeepsInv == StoreInv /\ UNCHANGED storeVars => StoreInv'
BY DEF StoreInv, StoreTypeOK, StoreWindow, FilterIsKnown,
       StoredDevicesAreKnown, DiagramIsCurrent, EveryShownEventHasItsTimeline,
       storeVars, stored, devices, drawn

LEMMA StoreStepKeepsInv == StoreInv /\ [StoreNext]_storeVars => StoreInv'
<1> SUFFICES ASSUME StoreInv, [StoreNext]_storeVars PROVE StoreInv'
  OBVIOUS
<1>1. CASE \E p \in Parsed : data_dumped_add_event(p)
  BY <1>1, AddEventKeepsInv
<1>2. ASSUME NEW S \in SUBSET connected_devices,
             NEW checks \in [S -> BOOLEAN], ApplyFilter(checks)
      PROVE  StoreInv'
  BY <1>2, ApplyFilterKeepsInv
<1>3. CASE UNCHANGED storeVars
  BY <1>3, StoreStutterKeepsInv
<1>4. QED
  BY <1>1, <1>2, <1>3 DEF StoreNext

LEMMA StoreInvHolds == StoreSpec => []StoreInv
BY StoreInitEstablishesInv, StoreStepKeepsInv, PTL DEF StoreSpec

(* The values of the store stay within their ranges. *)
THEOREM StoreTypeCorrect == StoreSpec => []StoreTypeOK
<1>1. StoreInv => StoreTypeOK
  BY DEF StoreInv
<1>2. QED
  BY StoreInvHolds, <1>1, PTL

(* The store holds the newest events_limit events, without a gap. *)
THEOREM StoreKeepsWindow == StoreSpec => []StoreWindow
<1>1. StoreInv => StoreWindow
  BY DEF StoreInv
<1>2. QED
  BY StoreInvHolds, <1>1, PTL

(* The diagram never shows an old image of the store or of the filter. *)
THEOREM StoreIsDrawn == StoreSpec => []DiagramIsCurrent
<1>1. StoreInv => DiagramIsCurrent
  BY DEF StoreInv
<1>2. QED
  BY StoreInvHolds, <1>1, PTL

(* The look-up of a shown event's device among the time lines never fails. *)
THEOREM StoreDrawsTimelines == StoreSpec => []EveryShownEventHasItsTimeline
<1>1. StoreInv => EveryShownEventHasItsTimeline
  BY DEF StoreInv
<1>2. QED
  BY StoreInvHolds, <1>1, PTL

(* No event switches a device off, or a known device on. *)
THEOREM StoreTrafficKeepsFilter == StoreSpec => TrafficKeepsFilter
<1>1. ASSUME StoreInv, [StoreNext]_storeVars, event_count' # event_count
      PROVE  /\ devices_filter \subseteq devices_filter'
             /\ (devices_filter' \ devices_filter) \cap connected_devices = {}
  <2>1. PICK p \in Parsed : data_dumped_add_event(p)
    BY <1>1 DEF StoreNext, ApplyFilter, storeVars, stored
  <2>2. QED
    BY <2>1 DEF data_dumped_add_event, search_device_in_event,
                filter_set_active_device, devices
<1>2. StoreInv /\ [StoreNext]_storeVars =>
        [event_count' # event_count =>
            /\ devices_filter \subseteq devices_filter'
            /\ (devices_filter' \ devices_filter) \cap connected_devices = {}
        ]_storeVars
  BY <1>1
<1>3. QED
  BY StoreInvHolds, <1>2, PTL DEF StoreSpec, TrafficKeepsFilter

-----------------------------------------------------------------------------
(* The refinement. *)

recent == {events[i] : i \in 1..Len(events)}

(* Keeping the numbers above event_count - EventsLimit is what removing    *)
(* the last element of a full array does.                                  *)
LEMMA RecentShifts ==
    ASSUME StoreTypeOK, StoreWindow,
           NEW e \in Event, e.seq_number = event_count,
           event_count' = event_count + 1, prepend_event(e)
    PROVE  recent' = {x \in recent \cup {e} :
                         x.seq_number > event_count - EventsLimit}
<1> DEFINE n == Len(events)
           m == Len(events')
<1>1. /\ n \in Nat /\ event_count \in Nat /\ EventsLimit \in Nat \ {0}
      /\ n <= EventsLimit
      /\ \A i \in 1..n : events[i].seq_number = event_count - i
  BY LenProperties, LimitAssumption, BoundAssumption
     DEF StoreTypeOK, StoreWindow
<1>2. /\ m = IF n = EventsLimit THEN n ELSE n + 1
      /\ \A i \in 1..m : events'[i] = IF i = 1 THEN e ELSE events[i - 1]
  BY PrependShiftsWindow
<1>3. recent = {events[i] : i \in 1..n} /\ recent' = {events'[i] : i \in 1..m}
  BY DEF recent
<1> HIDE DEF n, m
<1>4. ASSUME NEW i \in 1..m
      PROVE  /\ events'[i] \in recent \cup {e}
             /\ events'[i].seq_number > event_count - EventsLimit
  <2>1. CASE i = 1
    BY <1>1, <1>2, <2>1
  <2>2. CASE i # 1
    <3>1. i \in Int /\ i - 1 \in 1..n /\ i - 1 < EventsLimit
      BY <1>1, <1>2, <2>2
    <3>2. events'[i] = events[i - 1]
      BY <1>2, <2>2
    <3>3. events[i - 1].seq_number = event_count - (i - 1)
      BY <1>1, <3>1
    <3>4. QED
      BY <1>1, <1>3, <3>1, <3>2, <3>3
  <2>3. QED
    BY <2>1, <2>2
<1>5. ASSUME NEW i \in 1..n,
             events[i].seq_number > event_count - EventsLimit
      PROVE  events[i] \in recent'
  <2>1. i \in Int /\ i < EventsLimit
    BY <1>1, <1>5
  <2>2. i + 1 \in 1..m
    BY <1>1, <1>2, <2>1
  <2>3. events'[i + 1] = events[i]
    BY <1>1, <1>2, <2>1, <2>2
  <2>4. QED
    BY <1>3, <2>2, <2>3
<1>6. e \in recent'
  <2>1. 1 \in 1..m
    BY <1>1, <1>2
  <2>2. QED
    BY <1>2, <1>3, <2>1
<1>7. QED
  BY <1>3, <1>4, <1>5, <1>6

(* A redraw is a Refresh of the log. *)
LEMMA UpdateIsRefresh ==
    ASSUME StoreInv, StoreInv', data_dumped_update, process = "running"
    PROVE  Promise!Refresh
<1>1. CASE process' = "crashed" /\ UNCHANGED drawn
  BY <1>1 DEF drawn, Promise!Refresh
<1>2. CASE UNCHANGED process
  <2>1. events_list' = {x \in recent' :
            x.has_device => x.parsed.device_address \in devices_hash'}
    <3>1. DOMAIN events' = 1..Len(events')
      BY LenProperties DEF StoreInv, StoreTypeOK
    <3>2. recent' = ToSet(events')
      BY <3>1 DEF recent, ToSet
    <3>3. QED
      BY <1>2, <3>2 DEF StoreInv, DiagramIsCurrent
  <2>2. devices_hash' = connected_devices' \cap devices_filter'
    BY <1>2 DEF StoreInv, DiagramIsCurrent
  <2>3. ASSUME NEW x \in recent'
        PROVE  (x.has_device => x.parsed.device_address \in devices_hash')
                 <=> ({x.parsed.device_address} \ {NoAddress})
                       \cap (connected_devices' \ devices_filter') = {}
    <3>1. PICK i \in 1..Len(events') : x = events'[i]
      BY DEF recent
    <3>2. /\ x.has_device = (x.parsed.device_address # NoAddress)
          /\ x.has_device => x.parsed.device_address \in connected_devices'
      BY <3>1 DEF StoreInv, StoredDevicesAreKnown
    <3>3. QED
      BY <2>2, <3>2
  <2>4. QED
    BY <1>2, <2>1, <2>3 DEF Promise!Refresh, Promise!AddressesOf, recent
<1>3. QED
  BY <1>1, <1>2 DEF data_dumped_update

LEMMA AddEventIsLog ==
    ASSUME StoreInv, StoreInv', NEW p \in Parsed, data_dumped_add_event(p)
    PROVE  Promise!Log(p)
<1> DEFINE a == p.device_address
           e == [seq_number |-> event_count,
                 has_device |-> a # NoAddress,
                 parsed     |-> p]
<1>1. /\ process = "running"
      /\ event_count < MaxEventCount
      /\ event_count' = event_count + 1
      /\ prepend_event(e)
      /\ search_device_in_event(e)
      /\ data_dumped_update
  BY DEF data_dumped_add_event
<1>2. e \in Event /\ e.seq_number = event_count
  BY BoundAssumption DEF Event, StoreInv, StoreTypeOK
<1>3. recent' = {x \in recent \cup {e} :
                    x.seq_number > event_count - EventsLimit}
  <2> HIDE DEF e
  <2>1. QED
    BY <1>1, <1>2, RecentShifts DEF StoreInv
<1>4. /\ connected_devices' = connected_devices \cup ({a} \ {NoAddress})
      /\ connected_devices' \ devices_filter'
            = connected_devices \ devices_filter
  BY <1>1 DEF search_device_in_event, filter_set_active_device, devices
<1>5. Promise!Refresh
  BY <1>1, UpdateIsRefresh
<1>6. QED
  BY <1>1, <1>3, <1>4, <1>5 DEF Promise!Log, Promise!AddressesOf, recent

LEMMA ApplyFilterIsHide ==
    ASSUME StoreInv, StoreInv',
           NEW checks, ApplyFilter(checks)
    PROVE  \E H \in SUBSET connected_devices : Promise!Hide(H)
<1> DEFINE H == connected_devices' \ devices_filter'
<1>1. /\ process = "running"
      /\ UNCHANGED <<events, event_count, connected_devices>>
      /\ data_dumped_update
  BY DEF ApplyFilter, stored
<1>2. H \in SUBSET connected_devices
  BY <1>1
<1>3. Promise!Refresh
  BY <1>1, UpdateIsRefresh
<1>4. Promise!Hide(H)
  BY <1>1, <1>3 DEF Promise!Hide
<1>5. QED
  BY <1>2, <1>4

(* The array, its length counter and the filter table implement the event  *)
(* log: the newest events_limit events are kept, and what is on the screen *)
(* is exactly the kept events of the devices the user has not hidden.      *)
THEOREM StoreImplementsEventLog == StoreSpec => ImplementsEventLog
<1>1. StoreInit => Promise!Init
  <2> SUFFICES ASSUME StoreInit PROVE Promise!Init
    OBVIOUS
  <2>1. 1..Len(events) = {}
    BY EmptySeq DEF StoreInit
  <2>2. QED
    BY <2>1 DEF StoreInit, Promise!Init
<1>2. /\ StoreInv /\ StoreInv' /\ [StoreNext]_storeVars
      => [Promise!Next]_Promise!vars
  <2> SUFFICES ASSUME StoreInv, StoreInv', [StoreNext]_storeVars
               PROVE  [Promise!Next]_Promise!vars
    OBVIOUS
  <2>1. CASE \E p \in Parsed : data_dumped_add_event(p)
    BY <2>1, AddEventIsLog DEF Promise!Next
  <2>2. ASSUME NEW S \in SUBSET connected_devices,
               NEW checks \in [S -> BOOLEAN], ApplyFilter(checks)
        PROVE  Promise!Next
    BY <2>2, ApplyFilterIsHide DEF Promise!Next
  <2>3. CASE UNCHANGED storeVars
    BY <2>3 DEF storeVars, stored, devices, drawn, Promise!vars
  <2>4. QED
    BY <2>1, <2>2, <2>3 DEF StoreNext
<1>3. QED
  BY StoreInvHolds, <1>1, <1>2, PTL
     DEF StoreSpec, ImplementsEventLog, Promise!Spec
=============================================================================

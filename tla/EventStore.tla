------------------------------ MODULE EventStore ------------------------------
(***************************************************************************)
(* The event store of bluez-traffic (data_dumped.c), the filter it runs    *)
(* before every redraw (filter.c) and the view the diagram keeps of it     *)
(* (diagram.c).                                                            *)
(*                                                                         *)
(* The program is one GLib main loop, so a handler runs to its end before  *)
(* another starts: each operation of the store is one action, from its     *)
(* entry to the redraw it ends with.  What the packet parsers wrote into   *)
(* an event is a member of the constant set Parsed; only its address       *)
(* matters here.                                                           *)
(***************************************************************************)
EXTENDS EventObject, Sequences, SequencesExt

CONSTANTS
    Parsed,         \* the contents a parser can leave in an event
    EventsLimit,    \* events_limit: MAX_EVENTS_STORAGE, 200 in main.c
    MaxEventCount   \* bound of the model: events that ever arrive

ASSUME ParsedAssumption ==
    \A p \in Parsed : p.device_address \in Address \cup {NoAddress}
ASSUME LimitAssumption == EventsLimit \in Nat \ {0}
ASSUME BoundAssumption == MaxEventCount \in Nat

VARIABLES
    process,            \* "running", or "crashed" by the value filter() returns
    events,             \* the GArray of stored events, newest first
    events_size,        \* the length the code keeps beside the array
    event_count,        \* the next sequence number
    connected_devices,  \* every address ever seen; nothing removes one
    devices_filter,     \* the addresses the user has not switched off
    events_list,        \* the events the diagram drew last
    devices_hash        \* the devices whose time lines it drew last

stored == <<events, events_size, event_count>>
devices == <<connected_devices, devices_filter>>
drawn == <<events_list, devices_hash>>
storeVars == <<process, stored, devices, drawn>>

-----------------------------------------------------------------------------
(* data_dumped_init and filter_init, and the first, empty diagram. *)
StoreInit ==
    /\ process = "running"
    /\ events = <<>>
    /\ events_size = 0
    /\ event_count = 0
    /\ connected_devices = {}
    /\ devices_filter = {}
    /\ events_list = {}
    /\ devices_hash = {}

-----------------------------------------------------------------------------
(* The filter. *)

(* The filter table after the addresses in on are switched on and those in *)
(* off are switched off.                                                   *)
filter_set_active_device(on, off) == (devices_filter \cup on) \ off

filter_devices(devs, active) == devs \cap active

filter_event_never(e, active) == TRUE  \* mutation: the filter is not asked
filter_event_by_device(e, active) ==
    e.has_device => e.parsed.device_address \in active

(* The filtered array keeps the order of the stored one, which the         *)
(* sequence numbers give back: a set loses nothing.                        *)
filter_events(evs, size, active) ==
    {evs[i] : i \in {j \in 1..size : filter_event_by_device(evs[j], active)}}

-----------------------------------------------------------------------------
(* The redraw. *)

diagram_update(evs, devs) ==
    /\ events_list' = evs
    /\ devices_hash' = devs

update_with_old_filter ==  \* mutation: redrawn before the filter is set
    /\ diagram_update(filter_events(events', events_size', devices_filter),
                      filter_devices(connected_devices', devices_filter))
    /\ UNCHANGED process

(* filter() ends without a return statement, so what its caller reads is   *)
(* undefined: gcc hands over the filtered data at -O0, and at -O1 and -O2  *)
(* the number of filtered events, which crashes the caller as soon as it   *)
(* is used as a pointer.  Both outcomes are steps of the model.            *)
data_dumped_update ==
    \/ /\ diagram_update(filter_events(events', events_size', devices_filter'),
                         filter_devices(connected_devices', devices_filter'))
       /\ UNCHANGED process
    \/ /\ process' = "crashed"
       /\ UNCHANGED drawn

-----------------------------------------------------------------------------
(* The operations. *)

search_without_lookup(e) ==  \* mutation: a known device is added again
    LET a == e.parsed.device_address IN
    IF e.has_device
    THEN /\ connected_devices' = connected_devices \cup {a}
         /\ devices_filter' = filter_set_active_device({a}, {})
    ELSE UNCHANGED devices

search_device_in_event(e) ==
    LET a == e.parsed.device_address IN
    IF e.has_device /\ a \notin connected_devices
    THEN /\ connected_devices' = connected_devices \cup {a}
         /\ devices_filter' = filter_set_active_device({a}, {})
    ELSE UNCHANGED devices

prepend_drops_newest(e) ==  \* mutation: the wrong end makes room
    /\ events' = Cons(e, IF events_size = EventsLimit THEN RemoveAt(events, 1)
                                                     ELSE events)
    /\ events_size' = Len(events')

prepend_past_limit(e) ==  \* mutation: one event too many is kept
    /\ events' = Cons(e, IF events_size > EventsLimit
                         THEN RemoveAt(events, events_size) ELSE events)
    /\ events_size' = Len(events')

prepend_early(e) ==  \* mutation: room is made one event too early
    /\ events' = Cons(e, IF events_size = EventsLimit - 1
                         THEN RemoveAt(events, events_size) ELSE events)
    /\ events_size' = Len(events')

(* The array and its length once e is stored: at the limit the last        *)
(* element makes room for it.                                              *)
prepend_event(e) ==
    IF events_size = EventsLimit
    THEN /\ events' = Cons(e, RemoveAt(events, events_size))
         /\ UNCHANGED events_size
    ELSE /\ events' = Cons(e, events)
         /\ events_size' = events_size + 1

data_dumped_add_event(p) ==
    LET e == [seq_number |-> event_count,
              has_device |-> p.device_address # NoAddress,
              parsed     |-> p]
    IN  /\ process = "running"
        /\ event_count < MaxEventCount
        /\ event_count' = event_count + 1
        /\ prepend_event(e)
        /\ search_device_in_event(e)
        /\ data_dumped_update

apply_only_off(checks) ==  \* mutation: ticked boxes are not passed on
    /\ process = "running"
    /\ devices_filter' = devices_filter \ {a \in DOMAIN checks : ~checks[a]}
    /\ UNCHANGED <<stored, connected_devices>>
    /\ data_dumped_update

(* What a confirmed dialog does to the store: filter_set_active_device for *)
(* every device of checks, then one redraw.                                *)
ApplyFilter(checks) ==
    /\ process = "running"
    /\ devices_filter' =
           filter_set_active_device({a \in DOMAIN checks : checks[a]},
                                    {a \in DOMAIN checks : ~checks[a]})
    /\ UNCHANGED <<stored, connected_devices>>
    /\ data_dumped_update

StoreNext ==
    \/ \E p \in Parsed : data_dumped_add_event(p)
    \/ \E S \in SUBSET connected_devices :
          \E checks \in [S -> BOOLEAN] : ApplyFilter(checks)

StoreSpec == StoreInit /\ [][StoreNext]_storeVars

-----------------------------------------------------------------------------
Event == [seq_number : Nat, has_device : BOOLEAN, parsed : Parsed]

(* The values the store can hold (data_dumped.c, filter.c, diagram.c). *)
StoreTypeOK ==
    /\ process \in {"running", "crashed"}
    /\ events \in Seq(Event)
    /\ events_size \in 0..EventsLimit
    /\ event_count \in 0..MaxEventCount
    /\ connected_devices \subseteq Address
    /\ devices_filter \subseteq Address
    /\ events_list \subseteq Event
    /\ devices_hash \subseteq Address

(* The store holds exactly the newest events_limit events, newest first,   *)
(* with no gap in their numbers, and its length counter agrees with the    *)
(* array (data_dumped_add_event removes by that counter).                  *)
StoreWindow ==
    /\ events_size = Len(events)
    /\ events_size = IF event_count < EventsLimit THEN event_count
                                                  ELSE EventsLimit
    /\ \A i \in 1..Len(events) : events[i].seq_number = event_count - i

(* A redraw is never forgotten: while the program runs, what the diagram   *)
(* shows is the filtered image of the store as it is now, whatever mix of  *)
(* arrivals and filter changes led here.                                   *)
DiagramIsCurrent ==
    process = "running" =>
        /\ devices_hash = connected_devices \cap devices_filter
        /\ events_list = {e \in ToSet(events) :
               e.has_device => e.parsed.device_address \in devices_hash}

(* The link drawing code looks the device of every shown event up among    *)
(* the drawn time lines and uses the result unchecked                      *)
(* (link_diagram.c, make_all_comunication_links): it must be there, also   *)
(* for a device all of whose older events have left the store.             *)
EveryShownEventHasItsTimeline ==
    \A e \in events_list :
        e.has_device => e.parsed.device_address \in devices_hash

(* A device that is known and switched off stays off however much traffic  *)
(* it goes on producing: adding an event switches on only a new device     *)
(* (search_device_in_event), and no event switches a device off.           *)
TrafficKeepsFilter ==
    [][event_count' # event_count =>
          /\ devices_filter \subseteq devices_filter'
          /\ (devices_filter' \ devices_filter) \cap connected_devices = {}
      ]_storeVars

-----------------------------------------------------------------------------
(* The store seen as the event log it promises to be. *)
Promise == INSTANCE EventLog WITH
    Limit    <- EventsLimit,
    MaxCount <- MaxEventCount,
    alive    <- process = "running",
    count    <- event_count,
    recent   <- {events[i] : i \in 1..Len(events)},
    seen     <- connected_devices,
    hidden   <- connected_devices \ devices_filter,
    view     <- events_list

(* The store implements the log: its array, length counter and filter      *)
(* table keep exactly what EventLog promises, step by step.                *)
ImplementsEventLog == Promise!Spec
=============================================================================

# A TLA+ development of bluez-traffic

bluez-traffic shows the traffic between the Linux Bluetooth kernel and its
devices as a sequence diagram. It opens the two HCI sockets of the kernel (the
*control* channel with management messages and the *monitor* channel with raw
HCI packets), turns each message into an event, keeps the newest 200 events,
filters them by device and redraws a GTK canvas after every change. All paths
below are relative to the repository; the C sources are in `src/src/`.

The program is one thread: a GLib main loop that runs a handler to its end
before it starts another. What interleaves are whole handlers: two socket
callbacks, the menu and the dialog, which is not modal. The exception is the
kernel, which queues messages at any time, so the reading loop of the socket
callback is modelled message by message; and the redraw, whose loops walk hash
tables in an order nobody chooses, is modelled turn by turn.

## Inventory

| Component | Source | State | Operations | Hard part |
|---|---|---|---|---|
| event store | `data_dumped.c` | `events`, `events_size`, `event_count`, `connected_devices` | `data_dumped_add_event`, `data_dumped_update` | eviction by a counter kept beside the array; first sight of a device |
| filter | `filter.c` | `devices_filter`, the filtered copies | `filter_set_active_device`, `filter` | `filter()` has no return statement |
| filter dialog | `device_filter_dialog.c` | the dialog, `devices_check` | open, toggle, response | not modal: its boxes are older than the store |
| diagram | `diagram.c` | the data of the last redraw | `diagram_update` | must never show a past store |
| event boxes, time lines | `event_diagram.c`, `device_diagram.c` | tables of boxes and columns, the selected box | `make_all_events`, `make_all_devices_timeline`, click | pointers to removed canvas items |
| links | `link_diagram.c` | locals shared by two loops | `make_all_links` | hash order, a table changed under its iterator, stale locals |
| control channel | `control.c` | two sockets and their watches | `control_tracing`, `data_callback`, 20 handlers | hang-ups, runts, lengths in 16 bits |
| monitor packets | `packet.c`, `parser.c` | none that is read back | `packet_monitor`, 5 parsers | no length checks, an 8-bit opcode |
| hexadecimal dump | `packet.c` | one line array, the text so far | `packet_hexdump_to_string` | an uninitialised array reused for every line |
| main program | `main.c` | the main loop and its sources | start-up, iterations, end | failure to open a channel; callbacks installed before the window |
| main window | `UI.c` | window and canvas | quit, close | a destroy handler that runs inside itself |
| detail pane | `event_detail.c` | the texts of one event | show details | keeps what later redraws remove |

How they interact: `main` calls `control_tracing`, which installs
`data_callback` twice, then initialises the store and the window.
`data_callback` calls `packet_control` or `packet_monitor`; these create an
event, let a handler or a parser fill it in and call `data_dumped_add_event`,
which stores it, may make its device known (and active in the filter), and ends
in `data_dumped_update`: filter, then the callback of the diagram, which clears
the canvas and draws boxes, time lines and links. The dialog reads the known
devices when it is opened and, on its response, writes the filter and calls
`data_dumped_update` too.

What makes each component correct:

- *store*: exactly the newest events, in order; each device known once.
- *filter and diagram*: the screen is the filtered store, after every operation.
- *dialog*: what the user ticked is what is shown, and nothing else changes.
- *links*: one arrow per message, connection events paired within one device,
  and a redraw that ends.
- *capture*: per-channel order, no message lost, and no field of an event read
  that nobody wrote.
- *canvas and detail pane*: what is highlighted is what was clicked last and
  what the pane shows, whatever redraws came in between.
- *dump*: every byte once, at its place, and nothing of the line before.
- *main loop and window*: nothing is drawn without a canvas, the user has a
  turn however busy the sockets are, and leaving ends the program.
- *the whole*: what the kernel sent is on the screen, unless the user hid it or
  it is too old.

## Modules

| Module | Stands for | Built on |
|---|---|---|
| `EventObject` | the event a parser fills in; `"unwritten"` is a field of the malloc'ed record nobody wrote | |
| `EventLog` | the abstract promise of the store: sets, no array, no counter, no filter table | |
| `EventStore` | `data_dumped.c`, `filter.c`, what `diagram.c` keeps | `EventObject`, refines `EventLog` |
| `DeviceFilterDialog` | the dialog over the store | `EventStore` |
| `LinkDiagram` | one redraw, loop by loop | `EventObject` |
| `MgmtMessages` | the handlers of `control.c` as functions from message and event to event | `EventObject` |
| `HciPackets` | `packet.c` and `parser.c` as functions to sets of events | `EventObject` |
| `Capture` | sockets, watches, `data_callback`, start-up, over the store | `EventStore`, `MgmtMessages`, `HciPackets` |
| `SequenceDiagram` | the abstract promise of a redraw: arrows and pairs in any order | refined by `LinkDiagram` |
| `Canvas` | the boxes' memory cells and colours, the click handler, the detail pane | `EventStore` |
| `HexDump` | the loops of the dump | |
| `MainLoop` | `main.c`, `UI.c`, the iterations of the GLib main loop, the ways out | |
| `Program` | capture and dialog as callbacks of one loop, on one store | `Capture`, an instance of `DeviceFilterDialog` |
| `EventStoreProofs`, `DeviceFilterDialogProofs`, `LinkDiagramProofs`, `CaptureProofs`, `CanvasProofs`, `HexDumpProofs`, `MainLoopProofs`, `ProgramProofs` | the theorems | the modules they are named after; the store's theorems carry those of the four modules on the store |
| `MC...` | constants for TLC | |

Definitions keep the names of the C functions they model. A definition marked
"mutation" is never used by a specification: it is a wrong variant of the
definition below it, used to see that a property would notice the error.

### State and actions against the code

- `EventStore`. `events` is the GArray, newest first, `events_size` the counter
  the code keeps beside it. `data_dumped_add_event(p)` is the whole C function:
  number, eviction, discovery of the device, redraw. `ApplyFilter(checks)` is
  what a response does to the store. `events_list` and `devices_hash` are the
  two statics of `diagram.c`; the first is kept as a set, because filtering
  keeps the order and the sequence numbers give it back. `process` becomes
  `"crashed"` in the second disjunct of `data_dumped_update`: `filter()` has no
  return statement, and what its caller reads depends on the build (with gcc
  the right pointer at -O0, the number of filtered events at -O2). Both
  outcomes are possible at every redraw.
- `DeviceFilterDialog`. `devices_check` is the hash table of check boxes,
  `Toggle` is GTK's handling of a click on one. The response applies the boxes,
  redraws, and only then destroys dialog and table; if the redraw crashes the
  dialog is still there.
- `LinkDiagram`. `pc` names the loop, `todo` what its iterator has still to
  return. A connection event waits in `device_connection` for the next of its
  device. The loop `complete` reads `dd` and `e` as the first loop left them
  (`NoColumn` is an uninitialised `dd`). It removes a key under its own
  iterator: GLib then stops the loop, or goes on when built without its checks,
  and `iterator_after` has both.
- `MgmtMessages` and `HciPackets`. A message is its channel, opcode, the
  address its payload names and a length class: shorter than the structure its
  handler reads, ending after its header, whole, or longer than a buffer of the
  program (`NameOverruns`, the two names of Local Name Changed in `name[128]`,
  `control.c:256`; `DumpOverruns`, ACL data of 977 to 1 028 bytes in the dump's
  4 096). A text is unwritten, empty
  or not. A parser does not look at the length, so from a packet that ends
  early it can read any address (`payload_address`): the receive buffer holds
  earlier messages. The opcode of `parser_command` is taken modulo 256, the
  length left over in `mgmt_auth_failed` modulo 65536.
- `Capture`. `socket[c]` holds the time stamps of the queued messages,
  `arrivals` the messages themselves. `data_callback(c)` enters the reading
  loop, `Receive`, `ReceiveRunt` and `Drained` are its turns, `RemoveWatch` the
  early return on a hang-up. `CrashInHandler` is the other outcome of reading
  64 kB past the receive buffer or of writing past the end of a text or a dump;
  `CrashOfDamage` is the same later, when something else uses the memory that
  was overwritten. Both are choices: the build may also show no harm at all.
  The kernel (`Arrive`, `HangUp`) acts at any
  time. A removed watch does not close its socket: the descriptor stays open
  and the kernel goes on queueing.
- `SequenceDiagram`. `Join` and `DrawArrow` may happen in any order; `Finish`
  needs everything drawn. Which connection event is left over, and what becomes
  of it, is not promised, because the code does not keep it (`open_links`).
- `Canvas`. `box` maps the memory cells of the last redraw to event and colour.
  A redraw frees all of them and takes any free cells for the new ones
  (`make_all_events`), so that a cell of an old box may come back. The statics
  `selected_event`, `last_item` and `last_event` of `event_diagram.c` survive.
  `PressBox` is the branch of a press: ignored on `last_item`, otherwise the box
  before gets the colour of `last_event` back and the new one its highlight.
  `SelectCrashes` is the write through a pointer to a freed item that no new
  box took over; `Select` is the outcome in which it does no harm.
- `HexDump`. A cell of `str` holds the place of the byte it shows. `ByteTurn`
  and `BlankTurn` are the turns of the two loops; where the frame ends is open
  until `BytesDone`, so one behaviour stands for the frames of every length.
- `MainLoop`. `sources` is the order of attachment, `pending` the sources an
  iteration has collected and not dispatched, which it does in that order. `code` is the stack of statements of
  `on_destroy_event`: `DestroyWindow` pushes the handler again, because the
  destroy signal is connected to it. The parsing of a message is `Receive`,
  with a crash as a possible outcome; its traffic is unbounded. A crash that
  comes later than its message is not repeated here: each property of this
  module either stops at a crash or is met by one.
- `Program` extends `Capture` and adds the dialog on the same store: a step is
  one of the capture that leaves the dialog alone (`MessagesFlow`) or one of the
  user's (`UserActs`), enabled only when no socket is being read
  (`clicks_are_handled`).

## Runs

| Run | Specification | Bounds | States | What it shows |
|---|---|---|---|---|
| `event_store` | `EventStore!StoreSpec` | 3 addresses, 5 events, room for 3 | 2 771 | window, currency of the diagram, traffic never overrides the filter, refinement of `EventLog` |
| `device_filter_dialog` | `DeviceFilterDialog!Spec` | 3 addresses, a few events | 2 387 | boxes name known devices, the filter follows the user only, closing applies, refinement of the store |
| `link_diagram` | `LinkDiagram!Spec` | 2 addresses, 4 shown events | 773 721 | pairing in any hash order, one arrow per event, an initialised column, the redraw ends, refinement of `SequenceDiagram` |
| `open_links` | same | 2 shown events | | violated, see below |
| `capture` | `Program!ProgramSpec` | 2 channels, 2 addresses, 3 messages of 6 kinds, room for 2, the dialog used without limit | 321 645 | channel order, what was taken off a socket is on the screen, every message gets there, only a message that overruns a buffer costs others, the dialog is undisturbed |
| `capture_messages` | `Capture!Spec` | 1 message of every kind and length | 8 497 | what the drawing code reads was written; connections name a device; addresses are the message's own |
| `create_connection` | same | 1 message | | violated, see below |
| `root_needed` | same | 1 message | | violated, see below |
| `canvas` | `Canvas!Spec` | 4 events of 3 kinds, room for 2, 3 cells | 22 016 | the boxes are the view, the highlight is the selection and the pane, moving it restores the right colour |
| `canvas_colours` | same | same | | violated, see below |
| `main_loop` | `MainLoop!Spec` | unbounded traffic, 2 inputs | 12 329 | no drawing without a canvas, clean closing, the user is served, leaving ends the program |
| `hex_dump` | `HexDump!Spec` | every frame up to 1 028 bytes | 10 756 | every line shows its bytes, the dump is complete, and up to what length it fits |

Why the bounds are enough. *Store*: eviction starts with the fourth event and
happens twice, so an event whose device has left the array entirely occurs;
three addresses make an event of a hidden, of a shown and of a new device
possible in one state. Addresses are symmetric there. *Redraw*: four events on
two devices give a device with two pairs, with a pair and an open connection,
and both devices open at once; time lines, pairs and arrows of different
devices do not influence each other beyond `dd` and `e`, which two devices
show. *Capture*: eviction happens with the third message, two messages can be
queued on one socket while the other is read, and a runt can be before or
behind a message; the dialog can be opened, used and confirmed any number of
times between them, and one device is discovered while it is open. Properties
of a single message need one message only, and there every opcode is tried.
*Canvas*: with one cell more than a redraw needs, the cell of the selected box
can be left free, be given to another event or to the same one; two packet
types of the monitor and the control channel have different colours; four
events push the selected one out of a store of two. Cells are symmetric.
*Main loop*: of the traffic only whether a socket is empty matters, so nothing
is bounded there. Two inputs make a click and a quit, or quitting twice, wait
together, and the handler cannot nest deeper than the window's one destruction.
*Dump*: 1 028 bytes is the largest frame `data_callback` can receive
(`HCI_MAX_FRAME_SIZE`); the lengths a handler can compute by a 16-bit wrap read
past the receive buffer and are a crash in `Capture`. `DumpFits` says where the
4 096 bytes of the dump's buffer end: at a frame of 976 bytes, less than the
buffer for receiving holds, and what is longer may crash in `Capture`, too. One
such message, one whose length wraps and one ordinary one of either channel are
the messages of `capture`.
`MaxEventCount`, `MaxArrivals` and `MaxShown` are bounds of the model, named as
such where they are declared; the limit of the store is the code's own
constant 200 made small. TLC does not report a deadlock in the runs that say so:
when no message is left to come the program waits.

### What the properties excuse

A crash is an outcome wherever the code's behaviour is undefined, and the
models go on to say what holds all the same. No property says that the program
does not crash: whether it does is the build's choice, and nothing in the
repository promises it. So

- `DiagramIsCurrent`, `ScreenIsComplete` and what is shown speak of a program
  that is running. `StoreWindow`, `EveryShownEventHasItsTimeline`,
  `ChannelOrder` and `LostOnlyToOverruns` hold after a crash as well.
- `LostOnlyToOverruns` confines the damage: until the first Authentication
  Failed, or the first message longer than a buffer of an event, is taken off a
  socket, nothing that was taken is lost, crash or not.
- `MessagesReachTheScreen` allows a crash, and for the socket that hung up the
  loss of its queue. The other socket's messages must still get through.
- `AddressIsOwn` and `TextsAreWritten` state the exceptions the code makes: an
  HCI event that ends after its header, the type of an unknown opcode, the name
  of New Settings.
- `ClosingIsClean` is about the close button. The Quit item runs the handler
  inside itself, with a warning and a use of a freed diagram; `MainLoop` has
  these as outcomes, `QuitEnds` needs only that the program ends.
- `UserIsServed` and `QuitEnds` have a reading that ends as their condition.
- `DumpFits` is the exact limit of the dump's buffer, which is below what the
  receive buffer holds.

### What disagrees with the code's own words

- `open_links`: `link_diagram.c:271` says "complete draw connection link", but
  the loop draws with the column and removes the key of whatever event the
  loop before it met last. With an open connection of one device and an event
  of another, the open connection is drawn at the wrong time line.
- `create_connection`: `parser.c:54` says "It's a device connection", but the
  parser is never called: `parser_command` (`parser.c:89`) takes a 16-bit
  opcode as `uint8_t`, so 0x0405 arrives as 0x05. Both HCI command parsers are
  dead code.
- `canvas_colours`: `event_diagram.c:72` says of an entry of the colour table
  "MONITOR_EVENT_PKT", but a box of that type can have the colour of another:
  `selected_event` (`event_diagram.c:140`) is reset by no redraw, and the click
  after one repaints whatever box has that address by then.
- `root_needed`: `README:52` says "It's necessary be root to run this tool",
  and `control_tracing` means to give up when a channel cannot be opened, but
  the failure is -1 in an unsigned integer and the test is for zero. The
  program runs and traces nothing.

### Fairness

`Capture` assumes weak fairness of `control_tracing` (straight-line start-up)
and of each channel's callback: GLib polls both descriptors in every turn of
the main loop and dispatches all watches that are ready, and a callback that
has started runs on. Nothing is assumed of the kernel: messages and hang-ups
may come or not. `Program` keeps these assumptions for the same steps, and the user
owes it nothing: his clicks never disable a callback, which stays ready while
the dialog is used. `MessagesReachTheScreen` allows a hang-up, after which the
callback leaves the queue unread, and a crash. It rests on the bound on
arrivals: a reading always ends there.
`MainLoop` has no such bound. It assumes weak fairness of the program's next
step only: one thread that goes on. Nothing is assumed of the kernel, which may
keep both sockets busy for ever, and so `UserIsServed` and `QuitEnds` carry
their condition, that a reading always ends some time (`ReadingEnds`):
`data_callback` reads until its socket is empty, and a kernel that queued for
ever faster than a redraw takes would keep the window waiting. Under it the
order in which GLib dispatches what an iteration collected is enough: no
fairness between the sources is assumed.
`LinkDiagram` assumes weak fairness of its next step: a redraw is straight-line
code. The other specifications have no fairness; they state safety only.

## Proofs

TLAPS checks the theorems below for every value of the constants. What they
assume of these is stated in the modules and evaluated by TLC in every run:
`NoAddressAssumption` (the empty string is no address), `ParsedAssumption` (an
event names an address or none, and is a connection event or not), `LimitAssumption` (the store has room for at
least one event), `MessageAssumption` (what the kernel queues is a control
message, a monitor packet or a runt: every opcode of the code, every length its
handlers tell apart, any 16-bit code), `ParserAssumption` (the set of parsed
events contains what the parsers make of these messages; it only ties the
store's constant to the capture's), `ItemAssumption` (a null pointer is no
box), `AddressAssumption` (a redraw shows finitely many devices), and that the
bounds are numbers, the arrivals no more than the events that are counted. No
theorem has a hypothesis beyond the specification. The assumptions leave every
constant as general as the code does: any number of messages, events, devices,
cells, bytes and inputs.

`CaptureImplementsEventStore` needs no run of its own: `ImplementsDialog` checks
the same of the capture with its dialog. Every safety property of a passing run
is a theorem; of the refinement of `SequenceDiagram` it is the safety part.

### Store and dialog

`EventStoreProofs`: `StoreTypeCorrect`, `StoreKeepsWindow`, `StoreIsDrawn`,
`StoreDrawsTimelines`, `StoreTrafficKeepsFilter`, `StoreImplementsEventLog`.
The properties are not inductive one by one. That the diagram is current needs
that devices of stored events are known (otherwise an event could be drawn
whose device is not among the drawn ones), and this needs that eviction takes
exactly the last element, so that what is stored was added. The invariant is

    StoreInv == StoreTypeOK /\ StoreWindow /\ FilterIsKnown
                /\ StoredDevicesAreKnown /\ DiagramIsCurrent
                /\ EveryShownEventHasItsTimeline

A lemma on sequences (`ConsRemoveLast`) says what prepending to the array
without its last element gives at each index; `PrependShiftsWindow` lifts it to
the window, `UpdateEstablishesView` says what a redraw establishes from any
filter, and one lemma per operation (`AddEventKeepsInv`, `ApplyFilterKeepsInv`)
combines them. The refinement maps the array to the set of its elements and the
filter to its complement among the known devices. `RecentShifts` shows that
eviction by position is the abstract eviction by age, `AddEventIsLog` and
`ApplyFilterIsHide` that each step is the abstract one; a crash of the redraw
is the abstract end of the program.

`DeviceFilterDialogProofs`: the dialog's own invariant is small (its boxes name
known devices, which only grow). From it every step of the dialog is a step of
the store or leaves it alone (`DialogImplementsEventStore`), so type
correctness and the refinement of the event log follow from the store's
theorems (`DialogTypeCorrect`, `DialogImplementsEventLog`).
`DialogBoxesAreKnown`, `DialogFilterFollowsUser` and `DialogClosingApplies` are
proved step by step.

### Capture

`CaptureProofs` goes from the single message to the two sockets. First, the
handlers and parsers, branch by branch: `DispatchSays` and `MonitorPacketSays`
say what each leaves in the event, `ParsedFromSays` combines them, and
`CommandsAreNotParsed` shows that the opcode, cut to 8 bits, is never one the
command parser knows. The properties of a stored event (`CaptureWritesArrowType`,
`CaptureNamesConnections`, `CaptureKeepsOwnAddress`, `CaptureWritesTexts`) then
need only that a stored event was made of the message whose time stamp it
carries (`StoredAreParsed`).

Second, the sockets. Channel order is not inductive: that the event stored next
is the youngest of its channel needs that the queue is sorted
(`QueuesAreOrdered`), that whatever was taken off it is older than what waits
(`OldestIsTaken`), and that what is stored was taken (`StoredAreTaken`).
`MessagesAreAccountedFor` says where each message is: queued, a runt, in the
store, or pushed out together with everything older of its channel. After a
crash it says so only if no dangerous message was taken (`Endangered`), because
a handler that crashes loses its message, and one can crash only on such a
message or on the damage of an earlier one (`DamageIsDanger`); this is what
`CaptureLosesOnlyToOverruns` needs, and a crash of the redraw, which comes after
the event is stored, keeps it. Together with the store's invariant these are
`CaptureInv`. `CaptureImplementsEventStore`
follows step by step (a crash in a handler is a filter change that changes nothing
and crashes), and `CaptureImplementsEventLog` from the store's theorem.

### Program

`ProgramProofs`: `ProgramTypeCorrect`, `ProgramKeepsChannelOrder`,
`ProgramScreenIsComplete`, `ProgramLosesOnlyToOverruns`,
`ProgramImplementsDialog`. The dialog is an
instance; `DialogAdds` and `DialogApplies` show that its operations on the store
are the store's. The invariant is `CaptureInv` with the dialog's boxes. That the
screen is complete puts the parts together: `MessagesAreAccountedFor` finds the
message in the store, and the currency of the diagram, from `StoreInv`, puts it
on the screen unless its device is off. An event is there once because the order
of its channel leaves no second event of the message.

### Canvas

`CanvasProofs`: `CanvasTypeCorrect`, `CanvasShowsTheView`,
`CanvasHighlightsSelection`, `CanvasMovesSelectionCleanly`. `RedrawMakesBoxes`
says what a redraw makes of any injection of the events into cells. The
highlight's invariant needs that a remembered cell comes with a remembered event
(`SelectedHasEvent`) and that colours come from the two tables
(`BoxesAreWhole`): a redraw highlights nothing, so a highlight after it is the
work of a click after it.

### Hexadecimal dump

`HexDumpProofs`: `DumpShowsTheBytes`, `DumpIsComplete`, `DumpFitsItsBuffer`, for
a frame of any length. The line in the making is the interesting part:
`WrittenCellsAreRight` claims only the cells whose turn was, by their place in
the line (`slot`), and nothing of the others, which may still hold the line
before. The rest is the arithmetic of lines of 16 bytes.

### Main loop

`MainLoopProofs`: `MainLoopTypeCorrect`, `MainLoopDrawsOnLiveCanvas`,
`MainLoopClosesCleanly`. The way out is a walk through the statements of
`on_destroy_event`, and the invariant lists its stages: what is left to run, and
how far window, diagram and loop have come by then (`Quits`, `Closes`,
`Closed`). That nothing is drawn without a canvas rests on `GdkIsLast`, the
order of the two calls in `main`: the window system is the last of the sources,
so an iteration that gets to the user's input has no socket left to dispatch
(`GdkEndsIteration`), and the loop does not begin another one once it was quit.

### Redraw

`LinkDiagramProofs`: `LinkTypeCorrect`, `LinkPairsOneDevice`,
`LinkPairsOffConnections`, `LinkCompletesInColumn`, `LinkDrawsEveryArrow`, for
any number of events and devices and any order of the iterators. Between two
turns of the first loop `PairedOff` says how a device stands with those of its
connection events that were visited: it waits if they are odd in number, the
one waiting is in no pair and every other in exactly one. Each turn flips the
parity (`OneMoreFlips`), and rows are told apart by `BoxesAreApart`, so a new
link touches no event but its own. The second loop keeps its column because the
first looked one up before anything could wait (`CompletionIsReady`), and
whatever its iterator does it draws neither a pair nor an arrow, which leaves
`VisitedHaveArrows` to the third loop alone. These parts are `LinkInv`.

`LinkDrawsThePromise` is the refinement of `SequenceDiagram` without its
fairness: every step of the loops is one of the promise or draws nothing. It
needs more than `LinkInv` (`PromiseInv`): that the boxes are the events, row by
row (`RowsAreEvents`), so that nothing is left out when the redraw is over; that
the second loop still has in its table, unpaired and not yet drawn open, whatever
its iterator can return (`VisitedAreOpen`); and that a device has at most one
event in no pair from then on (`AtMostOneIsLeft`). `PairIsJoin`,
`CompleteIsLeave`, `ArrowIsDrawn` and `DoneIsFinish` map the steps that change
the picture; `PromiseStutters` covers the others.

### Only model-checked

- The liveness properties `RedrawEnds`, `MessagesReachTheScreen`, `UserIsServed`
  and `QuitEnds`: the prover does not treat fairness.
- The liveness in `ImplementsSequenceDiagram`, that the promised diagram is
  finished; its safety is `LinkDrawsThePromise`.

## Not modelled

- *Texts, positions, fonts, the tables of names and of attributes*: layout
  without state. A text is kept as written or not; the attributes of an event
  are written once, before it is stored, and only shown.
- *Construction of widgets* (`UI_init`, `create_diagram`, `event_details_init`,
  the menus) beyond the existence of window and canvas, and GTK's repainting.
- *Monitor packets of types beyond the program's eight*: the colour of a box is
  looked up without a check (`event_diagram.c:110`), and what lies behind the
  table is the linker's choice.
- *What an overrun changes short of a crash*: other fields of the event or
  another object's memory, by the layout of the build and the allocator. The
  models have the event as its handler wrote it, or the crash.
- *Memory*: evicted events, filter records and the table of open connections
  are never freed. The models have no memory to run out of.
- *`adapters_filter`, `index_list`*: written, never read.
- *Time stamps*: the kernel sends one with every message of these sockets; the
  model takes the order of arrival.
- *The canvas during a reading*: clicks and redraws are handlers that run to
  their end, so `Canvas` stands on the store and not on the sockets; composing
  it with `Program` adds states and no behaviour the click handler can tell
  apart.

## Plan

1. The seam between the store and the redraw: that what `EventStore` hands to
   the diagram is, in every reachable state, an input that `LinkDiagram` starts
   from, so that the theorems about one redraw hold of every redraw of a
   capture. `EveryShownEventHasItsTimeline` is the part of it that matters.
2. The seam between the store and the boxes in `Canvas` for a store driven by
   sockets and dialog: the refinement of the store by `Program` is there, and
   `Canvas` needs only the store's steps.
3. Consequences of `EventLog` and `SequenceDiagram` that a reader would ask for
   (the log never shows an event twice; pairs are disjoint), proved of the
   abstract specifications, so that they come with the refinements.

-------------------------------- MODULE Capture --------------------------------
(***************************************************************************)
(* From the kernel to the store: the two HCI sockets (control.c), the      *)
(* callbacks the GLib main loop runs when one of them is readable, and     *)
(* what each message becomes (packet.c, parser.c) before it reaches        *)
(* data_dumped_add_event.                                                  *)
(*                                                                         *)
(* data_callback empties its socket in a loop.  The kernel goes on         *)
(* queueing messages meanwhile, but nothing else of the program runs until *)
(* the loop finds the socket empty: a turn of that loop is one action.     *)
(***************************************************************************)
EXTENDS EventStore, MgmtMessages, HciPackets

CONSTANTS
    Message,    \* what the kernel can send
    MaxArrivals \* bound of the model: messages the kernel sends

(* A message of the control channel is shorter than the structure its      *)
(* handler reads or holds it; a packet of the monitor channel can end      *)
(* after its header, too.  Some are too long for a buffer of the program.  *)
(* Some bytes stand where a parser reads an address.  A runt is shorter    *)
(* than the header and has none of this.                                   *)
ControlMessage ==
    {m \in [channel : {"control"}, runt : {FALSE}, opcode : ControlOpcode,
            code : {0}, size : {"short", "full", "long"}, address : Address] :
        m.size = "long" => NameOverruns(m)}

MonitorPacket ==
    {m \in [channel : {"monitor"}, runt : {FALSE}, opcode : MonitorOpcode,
            code : Uint16, size : {"short", "header", "full", "long"},
            address : Address] :
        m.size = "long" => DumpOverruns(m)}

Runt ==
    [channel : Channel, runt : {TRUE}, opcode : {"UNKNOWN"}, code : {0},
     size : {"short"}, address : {NoAddress}]

ASSUME MessageAssumption ==
    Message \subseteq ControlMessage \cup MonitorPacket \cup Runt
ASSUME ArrivalsAssumption ==
    MaxArrivals \in Nat /\ MaxArrivals <= MaxEventCount

VARIABLES
    main,       \* "starting", "running" in the main loop, or "exited"
    watch,      \* the GLib watch of each channel
    hangup,     \* has the kernel reported an error or hang-up of the socket?
    socket,     \* the messages queued on each socket, by time stamp
    arrivals,   \* every message sent so far, in order
    reading     \* the channel data_callback is emptying, or "none"

kernel == <<hangup, arrivals>>
captureVars == <<main, watch, kernel, socket, reading, storeVars>>

Init ==
    /\ StoreInit
    /\ main = "starting"
    /\ watch = [c \in Channel |-> "none"]
    /\ hangup = [c \in Channel |-> FALSE]
    /\ socket = [c \in Channel |-> <<>>]
    /\ arrivals = <<>>
    /\ reading = "none"

-----------------------------------------------------------------------------
(* Start-up. *)

(* A channel that cannot be opened gives -1, which an unsigned int holds   *)
(* as its largest value.                                                   *)
open_channel(opened) == IF opened THEN "source" ELSE "UINT_MAX"

(* control_tracing gives up when a watch is zero; main exits when it does. *)
control_tracing ==
    /\ main = "starting"
    /\ \E opened \in SUBSET Channel :
          LET id == [c \in Channel |-> open_channel(c \in opened)]
          IN  IF \E c \in Channel : id[c] = "zero"
              THEN main' = "exited" /\ UNCHANGED watch
              ELSE /\ main' = "running"
                   /\ watch' = [c \in Channel |-> IF c \in opened THEN "on"
                                                                 ELSE "failed"]
    /\ UNCHANGED <<kernel, socket, reading, storeVars>>

-----------------------------------------------------------------------------
(* The kernel. *)

Arrive(m) ==
    /\ watch[m.channel] \in {"on", "removed"}
    /\ Len(arrivals) < MaxArrivals
    /\ arrivals' = Append(arrivals, m)
    /\ socket' = [socket EXCEPT ![m.channel] = Append(@, Len(arrivals) + 1)]
    /\ UNCHANGED <<main, watch, hangup, reading, storeVars>>

HangUp(c) ==
    /\ watch[c] = "on"
    /\ ~hangup[c]
    /\ hangup' = [hangup EXCEPT ![c] = TRUE]
    /\ UNCHANGED <<main, watch, socket, arrivals, reading, storeVars>>

-----------------------------------------------------------------------------
(* data_callback. *)

idle == main = "running" /\ process = "running" /\ reading = "none"

(* A callback that sees an error or a hang-up returns FALSE, and GLib      *)
(* removes the watch with whatever was still queued.                       *)
RemoveWatch(c) ==
    /\ idle
    /\ watch[c] = "on"
    /\ hangup[c]
    /\ watch' = [watch EXCEPT ![c] = "removed"]
    /\ UNCHANGED <<main, kernel, socket, reading, storeVars>>

data_callback(c) ==
    /\ idle
    /\ watch[c] = "on"
    /\ ~hangup[c]
    /\ socket[c] # <<>>
    /\ reading' = c
    /\ UNCHANGED <<main, watch, kernel, socket, storeVars>>

packet_control(m, tv) ==
    {[control_message(m, create_event_object) EXCEPT !.socket = "control",
                                                     !.tv = tv]}

parsed_from(m, tv) ==
    IF m.channel = "control" THEN packet_control(m, tv)
    ELSE {[e EXCEPT !.socket = "monitor", !.tv = tv]
             : e \in packet_monitor(m, create_event_object)}

(* Parsed has whatever the handlers and parsers make of a message. *)
ASSUME ParserAssumption ==
    \A m \in Message, tv \in 1..MaxArrivals :
        ~m.runt => parsed_from(m, tv) \subseteq Parsed

take_newest(c) ==  \* mutation: the other end of the queue
    [first |-> Last(socket[c]), rest |-> Front(socket[c])]

(* The next message of the socket: the oldest. *)
take(c) == [first |-> Head(socket[c]), rest |-> Tail(socket[c])]

runt_flushes(c) ==  \* mutation: what is queued behind a runt is dropped
    /\ process = "running"
    /\ reading = c
    /\ socket[c] # <<>>
    /\ arrivals[take(c).first].runt
    /\ socket' = [socket EXCEPT ![c] = <<>>]
    /\ reading' = "none"
    /\ UNCHANGED <<main, watch, kernel, storeVars>>

queued(k) == \E c \in Channel : k \in ToSet(socket[c])
taken(k) == ~queued(k) /\ ~arrivals[k].runt

(* Has a message that was taken overwritten memory that is not its own?    *)
(* Whatever uses that memory afterwards may crash, if nothing did at once. *)
overruns(m) == NameOverruns(m) \/ DumpOverruns(m)
damaged == \E k \in 1..Len(arrivals) : taken(k) /\ overruns(arrivals[k])

(* A message shorter than the header ends the loop. *)
ReceiveRunt(c) ==
    /\ process = "running"
    /\ reading = c
    /\ socket[c] # <<>>
    /\ LET t == take(c)
       IN  /\ arrivals[t.first].runt
           /\ socket' = [socket EXCEPT ![c] = t.rest]
    /\ reading' = "none"
    /\ UNCHANGED <<main, watch, kernel, storeVars>>

receive_without_redraw(c) ==  \* mutation: the redraw waits for the last message
    /\ process = "running"
    /\ reading = c
    /\ socket[c] # <<>>
    /\ ~arrivals[take(c).first].runt
    /\ socket' = [socket EXCEPT ![c] = take(c).rest]
    /\ \E p \in parsed_from(arrivals[take(c).first], take(c).first) :
          LET e == [seq_number |-> event_count,
                    has_device |-> p.device_address # NoAddress,
                    parsed     |-> p]
          IN  prepend_event(e) /\ search_device_in_event(e)
    /\ event_count' = event_count + 1
    /\ UNCHANGED <<main, watch, kernel, reading, process, drawn>>

(* A whole message is taken, parsed and stored, with the redraw that ends  *)
(* data_dumped_add_event.                                                  *)
Receive(c) ==
    /\ reading = c
    /\ socket[c] # <<>>
    /\ LET t == take(c)
           m == arrivals[t.first]
       IN  /\ ~m.runt
           /\ socket' = [socket EXCEPT ![c] = t.rest]
           /\ \E p \in parsed_from(m, t.first) : data_dumped_add_event(p)
    /\ UNCHANGED <<main, watch, kernel, reading>>

(* The message never reaches the store: its dump reads past the receive    *)
(* buffer, or its text or dump is written past the end of the event, or an *)
(* earlier one was.                                                        *)
CrashInHandler(c) ==
    /\ process = "running"
    /\ reading = c
    /\ socket[c] # <<>>
    /\ LET t == take(c)
           m == arrivals[t.first]
       IN  /\ ~m.runt
           /\ ReadsPastFrame(m) \/ overruns(m) \/ damaged
           /\ socket' = [socket EXCEPT ![c] = t.rest]
    /\ process' = "crashed"
    /\ UNCHANGED <<main, watch, kernel, reading, stored, devices, drawn>>

(* The same elsewhere in the program, in an attribute that is shown or a   *)
(* piece of memory that is asked for.                                      *)
CrashOfDamage ==
    /\ process = "running"
    /\ damaged
    /\ process' = "crashed"
    /\ UNCHANGED <<main, watch, kernel, socket, reading, stored, devices, drawn>>

drained_returns_FALSE(c) ==  \* mutation: GLib removes the watch
    /\ process = "running"
    /\ reading = c
    /\ socket[c] = <<>>
    /\ reading' = "none"
    /\ watch' = [watch EXCEPT ![c] = "removed"]
    /\ UNCHANGED <<main, kernel, socket, storeVars>>

(* recvmsg finds nothing: back to the main loop. *)
Drained(c) ==
    /\ process = "running"
    /\ reading = c
    /\ socket[c] = <<>>
    /\ reading' = "none"
    /\ UNCHANGED <<main, watch, kernel, socket, storeVars>>

Callback(c) ==
    \/ RemoveWatch(c)
    \/ data_callback(c)
    \/ ReceiveRunt(c)
    \/ Receive(c)
    \/ CrashInHandler(c)
    \/ Drained(c)

Next ==
    \/ control_tracing
    \/ \E m \in Message : Arrive(m)
    \/ \E c \in Channel : HangUp(c) \/ Callback(c)
    \/ CrashOfDamage

(* GLib polls both sockets and dispatches every watch that is ready, and a *)
(* callback that has started runs on.                                      *)
Fairness == WF_captureVars(control_tracing)
            /\ \A c \in Channel : WF_captureVars(Callback(c))

Spec == Init /\ [][Next]_captureVars /\ Fairness

-----------------------------------------------------------------------------
(* The main loop, the watches and the sockets (control.c). *)
TypeOK ==
    /\ StoreTypeOK
    /\ main \in {"starting", "running", "exited"}
    /\ watch \in [Channel -> {"none", "on", "removed", "failed"}]
    /\ hangup \in [Channel -> BOOLEAN]
    /\ arrivals \in Seq(Message)
    /\ socket \in [Channel -> Seq(1..Len(arrivals))]
    /\ reading \in Channel \cup {"none"}

(* The diagram is a sequence diagram: whatever the interleaving of the two *)
(* callbacks, the stored events of one channel are in the order in which   *)
(* the kernel sent their messages, and none is stored twice.               *)
ChannelOrder ==
    \A i, j \in 1..Len(events) :
        i < j /\ events[i].parsed.socket = events[j].parsed.socket =>
            events[i].parsed.tv > events[j].parsed.tv

(* The link drawing code reads comunication_type of every shown event that *)
(* names a device and is no connection event (link_diagram.c, line 139):   *)
(* some handler wrote it.                                                  *)
ArrowTypeIsWritten ==
    \A i \in 1..Len(events) :
        LET p == events[i].parsed IN
        p.device_address # NoAddress /\ ~p.is_device_connection =>
            p.comunication_type # "unwritten"

(* A connection event always names its device: make_all_connection_links   *)
(* pairs such events by address.                                           *)
ConnectionNamesDevice ==
    \A i \in 1..Len(events) :
        events[i].parsed.is_device_connection => events[i].has_device

(* An event that names a device was made of a whole message that names it: *)
(* what an earlier message left in the receive buffer where this one has   *)
(* ended shows up only in an HCI event packet that ends after its header.  *)
AddressIsOwn ==
    \A i \in 1..Len(events) :
        LET p == events[i].parsed
            m == arrivals[p.tv]
        IN  p.device_address # NoAddress =>
               \/ p.device_address = m.address /\ m.size \notin {"short", "header"}
               \/ m.opcode = "EVENT_PKT" /\ m.size = "header"

(* The box and the detail pane print both texts of every event: they were  *)
(* written, but for the type of an unknown control message and the name of *)
(* New Settings, which control.c leaves as malloc gave them.               *)
TextsAreWritten ==
    \A i \in 1..Len(events) :
        LET p == events[i].parsed
            m == arrivals[p.tv]
        IN  /\ p.type_str = "unwritten" <=> m.opcode = "UNKNOWN"
            /\ p.name = "unwritten" <=>
                  m.opcode = "NEW_SETTINGS" /\ m.size = "full"

inStore(k) == \E e \in ToSet(events) : e.parsed.tv = k

leftFullStore(k) ==
    /\ event_count > EventsLimit
    /\ \A e \in ToSet(events) :
          e.parsed.socket = arrivals[k].channel => e.parsed.tv > k

(* Authentication Failed, whose length wraps, and what is longer than the  *)
(* buffers of an event.                                                    *)
isDangerous(m) == m.opcode = "AUTH_FAILED" \/ m.size = "long"

(* No other message costs the user one: as long as none of these was taken *)
(* off a socket, whatever was is in the store or was pushed out by later   *)
(* ones, also when the program has crashed (a redraw comes after the event *)
(* is stored, and no other handler reads or writes where it must not).     *)
LostOnlyToOverruns ==
    \/ \E k \in 1..Len(arrivals) : taken(k) /\ isDangerous(arrivals[k])
    \/ \A k \in 1..Len(arrivals) : taken(k) => inStore(k) \/ leftFullStore(k)

(* The sockets drive the store only through its own operations: whatever   *)
(* the kernel sends, data_callback adds whole events with their redraw, or *)
(* the program stops (a crash in a handler is one of the crashes of a      *)
(* store that is redrawn).                                                 *)
ImplementsEventStore == StoreSpec

(* "It's a device connection" (parser.c, line 54): the HCI command that    *)
(* creates a connection is a connection event of its device.               *)
CreateConnectionIsConnection ==
    \A i \in 1..Len(events) :
        LET m == arrivals[events[i].parsed.tv] IN
        /\ m.opcode = "COMMAND_PKT"
        /\ m.code = BT_HCI_CMD_CREATE_CONN
        /\ m.size = "full"
        => events[i].parsed.is_device_connection

(* "It's necessary be root to run this tool" (README, line 52): the main   *)
(* loop runs only once both channels, which only root can open, are open.  *)
RunsOnlyWhenTracing ==
    main = "running" => \A c \in Channel : watch[c] # "failed"
=============================================================================

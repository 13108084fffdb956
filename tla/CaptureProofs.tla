----------------------------- MODULE CaptureProofs -----------------------------
(***************************************************************************)
(* Theorems about the capture of messages, for every set of messages the   *)
(* kernel may send, in any number and any interleaving of the callbacks.   *)
(***************************************************************************)
EXTENDS Capture, EventStoreProofs

(* The event names the device m names, or none.                            *)
OwnAddress(m, p) ==
    \/ p.device_address = NoAddress
    \/ p.device_address = m.address /\ m.size \notin {"short", "header"}
    \/ m.opcode = "EVENT_PKT" /\ m.size = "header" /\ p.device_address \in Address

(* What p says of the message m it was made of. *)
SaysOf(m, p) ==
    /\ p \in [socket               : {m.channel},
              tv                   : Int,
              device_address       : Address \cup {NoAddress},
              is_device_connection : BOOLEAN,
              comunication_type    : ComunicationType,
              type_str             : Text,
              name                 : Text]
    /\ OwnAddress(m, p)
    /\ p.is_device_connection => p.device_address # NoAddress
    /\ p.device_address # NoAddress => p.comunication_type # "unwritten"
    /\ p.type_str = "unwritten" <=> m.opcode = "UNKNOWN"
    /\ p.name = "unwritten" <=> m.opcode = "NEW_SETTINGS" /\ m.size = "full"

(* What any handler of control.c leaves in a fresh event. *)
LEMMA DispatchSays ==
    ASSUME NEW m \in ControlMessage
    PROVE  LET q == dispatch(m, create_event_object) IN
           /\ q \in [socket               : {"unwritten"},
                     tv                   : {0},
                     device_address       : {NoAddress, m.address},
                     is_device_connection : BOOLEAN,
                     comunication_type    : {"unwritten"},
                     type_str             : Text,
                     name                 : Text]
           /\ q.device_address = NoAddress \/ m.size # "short"
           /\ q.is_device_connection => q.device_address = m.address
           /\ q.type_str = "unwritten" <=> m.opcode = "UNKNOWN"
           /\ q.name = "unwritten" <=>
                 m.opcode = "NEW_SETTINGS" /\ m.size = "full"
<1> DEFINE e == create_event_object
           q == dispatch(m, e)
           settings == [e EXCEPT !.type_str = "text"]
<1>1. /\ m.opcode \in ControlOpcode
      /\ m.size \in {"short", "full"} \/ m.opcode = "LOCAL_NAME_CHANGED"
  BY DEF ControlMessage, NameOverruns
<1>2. CASE m.opcode \in {"INDEX_ADDED", "INDEX_REMOVED"}
  <2>1. q = shown(e, "text", "empty")
    BY <1>2 DEF dispatch, mgmt_index_added, mgmt_index_removed
  <2>2. QED
    BY <1>2, <2>1 DEF shown, create_event_object, Text
<1>3. CASE m.opcode = "UNKNOWN"
  <2>1. q = unknown(e)
    BY <1>3 DEF dispatch
  <2>2. QED
    BY <1>3, <2>1 DEF unknown, create_event_object, Text
<1>4. CASE m.opcode = "NEW_SETTINGS"
  <2>1. q = sized(m, e, settings)
    BY <1>4 DEF dispatch, mgmt_new_settings
  <2>2. QED
    BY <1>1, <1>4, <2>1 DEF sized, shown, create_event_object, Text
<1>5. CASE m.opcode \in {"CONTROLLER_ERROR", "CLASS_OF_DEV_CHANGED",
                         "LOCAL_NAME_CHANGED", "DISCOVERING"}
  <2>1. q = anonymous(m, e)
    BY <1>5 DEF dispatch, mgmt_controller_error, mgmt_class_of_dev_changed,
                mgmt_local_name_changed, mgmt_discovering
  <2>2. QED
    BY <1>5, <2>1 DEF anonymous, sized, shown, create_event_object, Text
<1>6. CASE m.opcode \in {"DEVICE_CONNECTED", "DEVICE_DISCONNECTED"}
  <2>1. q = connection(m, e)
    BY <1>6 DEF dispatch, mgmt_device_connected, mgmt_device_disconnected
  <2>2. QED
    BY <1>6, <2>1 DEF connection, about, sized, shown, create_event_object, Text
<1>7. CASE m.opcode \in {"NEW_LINK_KEY", "NEW_LONG_TERM_KEY", "CONNECT_FAILED",
                         "PIN_CODE_REQUEST", "USER_CONFIRM_REQUEST",
                         "USER_PASSKEY_REQUEST", "AUTH_FAILED",
                         "DEVICE_FOUND", "DEVICE_BLOCKED", "DEVICE_UNBLOCKED",
                         "DEVICE_UNPAIRED"}
  <2>1. q = addressed(m, e)
    BY <1>7 DEF dispatch, mgmt_new_link_key, mgmt_new_long_term_key,
                mgmt_connect_failed, mgmt_pin_code_request,
                mgmt_user_confirm_request, mgmt_user_passkey_request,
                mgmt_auth_failed, mgmt_device_found, mgmt_device_blocked,
                mgmt_device_unblocked, mgmt_device_unpaired
  <2>2. QED
    BY <1>7, <2>1 DEF addressed, about, sized, shown, create_event_object, Text
<1>8. QED
  BY <1>1, <1>2, <1>3, <1>4, <1>5, <1>6, <1>7 DEF ControlOpcode

LEMMA ControlMessageSays ==
    ASSUME NEW m \in ControlMessage, NEW tv \in Int,
           NEW p \in packet_control(m, tv)
    PROVE  SaysOf(m, p) /\ p.tv = tv
<1> DEFINE q == dispatch(m, create_event_object)
<1>1. p = [[q EXCEPT !.comunication_type = "EVENT_CONNECTION"]
              EXCEPT !.socket = "control", !.tv = tv]
  BY DEF packet_control, control_message
<1>2. /\ m.address \in Address /\ m.channel = "control"
      /\ m.address # NoAddress /\ m.size # "header"
  BY NoAddressAssumption DEF ControlMessage
<1>3. /\ q \in [socket               : {"unwritten"},
                tv                   : {0},
                device_address       : {NoAddress, m.address},
                is_device_connection : BOOLEAN,
                comunication_type    : {"unwritten"},
                type_str             : Text,
                name                 : Text]
      /\ q.device_address = NoAddress \/ m.size # "short"
      /\ q.is_device_connection => q.device_address = m.address
      /\ q.type_str = "unwritten" <=> m.opcode = "UNKNOWN"
      /\ q.name = "unwritten" <=> m.opcode = "NEW_SETTINGS" /\ m.size = "full"
  BY DispatchSays
<1> HIDE DEF q
<1>4. QED
  BY <1>1, <1>2, <1>3 DEF SaysOf, OwnAddress, ComunicationType

(* The eight bits parser_command keeps of an opcode never name one of the  *)
(* commands it parses, so a command leaves the event as it was.            *)
LEMMA CommandsAreNotParsed ==
    ASSUME NEW m \in MonitorPacket, NEW e
    PROVE  packet_hci_command(m, e)
              = {IF m.size = "short" THEN e ELSE described(e)}
<1>1. m.code \in Int
  <2>1. m.code \in Uint16
    BY DEF MonitorPacket
  <2>2. Uint16 \subseteq Int
    BY DEF Uint16
  <2>3. QED
    BY <2>1, <2>2
<1>2. \A n \in Int : n % 256 \in 0..255
  OBVIOUS
<1>3. parser_command(m, described(e), m.code % 256) = {described(e)}
  <2>1. m.code % 256 \notin {1029, 1033}
    BY <1>1, <1>2
  <2>2. QED
    BY <2>1 DEF parser_command, BT_HCI_CMD_CREATE_CONN,
                BT_HCI_CMD_ACCEPT_CONN_REQUEST
<1>4. QED
  BY <1>3 DEF packet_hci_command

(* A parsed HCI event takes an address from the packet, or none. *)
LEMMA HciEventSays ==
    ASSUME NEW m \in MonitorPacket, NEW e,
           NEW q \in parser_event(m, e, m.code)
    PROVE  \/ q = e
           \/ \E a \in payload_address(m) : q = [e EXCEPT !.device_address = a]
BY DEF parser_event, parser_hci_evt_inquiry_result,
       parser_hci_evt_ext_inquiry_result, parser_hci_evt_conn_complete

LEMMA MonitorPacketSays ==
    ASSUME NEW m \in MonitorPacket, NEW tv \in Int,
           NEW q \in packet_monitor(m, create_event_object)
    PROVE  SaysOf(m, [q EXCEPT !.socket = "monitor", !.tv = tv])
<1> DEFINE e == empty_texts(create_event_object)
           p == [q EXCEPT !.socket = "monitor", !.tv = tv]
<1>1. /\ m.opcode \in MonitorOpcode
      /\ m.size \in {"short", "header", "full", "long"}
      /\ m.size = "long" => m.opcode # "EVENT_PKT"
      /\ m.address \in Address
      /\ m.channel = "monitor"
  BY DEF MonitorPacket, DumpOverruns
<1>2. m.opcode \notin {"UNKNOWN", "NEW_SETTINGS"}
  BY <1>1 DEF MonitorOpcode
<1>3. e \in [socket               : {"unwritten"},
             tv                   : {0},
             device_address       : {NoAddress},
             is_device_connection : {FALSE},
             comunication_type    : {"unwritten"},
             type_str             : {"empty"},
             name                 : {"empty"}]
  BY DEF empty_texts, create_event_object
<1> HIDE DEF e
<1>4. CASE m.opcode = "EVENT_PKT"
  <2>1. q \in packet_hci_event(m, e)
    BY <1>4 DEF packet_monitor, e
  <2>2. CASE m.size = "short"
    <3>1. q = output(e)
      BY <2>1, <2>2 DEF packet_hci_event
    <3>2. QED
      BY <1>1, <1>2, <1>3, <3>1
         DEF SaysOf, OwnAddress, output, ComunicationType, Text
  <2>3. CASE m.size # "short"
    <3> DEFINE d == described(output(e))
    <3>1. q \in parser_event(m, d, m.code)
      BY <2>1, <2>3 DEF packet_hci_event
    <3>2. \/ q = d
          \/ \E a \in payload_address(m) : q = [d EXCEPT !.device_address = a]
      <4> HIDE DEF d
      <4>1. QED
        BY <3>1, HciEventSays
    <3>3. d = [e EXCEPT !.comunication_type = "EVENT_OUTPUT",
                        !.type_str = "text", !.name = "text"]
      BY <1>3 DEF described, output
    <3> HIDE DEF d
    <3>4. payload_address(m) \subseteq Address
          /\ (m.size = "full" => payload_address(m) = {m.address})
      BY <1>1 DEF payload_address
    <3>5. QED
      BY <1>1, <1>2, <1>3, <1>4, <2>3, <3>2, <3>3, <3>4, NoAddressAssumption
         DEF SaysOf, OwnAddress, ComunicationType, Text
  <2>4. QED
    BY <2>2, <2>3
<1>5. CASE m.opcode # "EVENT_PKT"
  <2>1. q \in {e, described(e), typed(e), typed(output(e)),
               described(output(e))}
    BY <1>1, <1>5, CommandsAreNotParsed
       DEF packet_monitor, packet_hci_acldata, packet_hci_scodata,
           MonitorOpcode, e
  <2>2. /\ q \in [socket               : {"unwritten"},
                  tv                   : {0},
                  device_address       : {NoAddress},
                  is_device_connection : {FALSE},
                  comunication_type    : {"unwritten", "EVENT_OUTPUT"},
                  type_str             : {"empty", "text"},
                  name                 : {"empty", "text"}]
    <3>1. CASE q = e
      BY <1>3, <3>1
    <3>2. CASE q = described(e)
      BY <1>3, <3>2 DEF described
    <3>3. CASE q = typed(e)
      BY <1>3, <3>3 DEF typed
    <3>4. CASE q = typed(output(e))
      BY <1>3, <3>4 DEF typed, output
    <3>5. CASE q = described(output(e))
      BY <1>3, <3>5 DEF described, output
    <3>6. QED
      BY <2>1, <3>1, <3>2, <3>3, <3>4, <3>5
  <2>3. QED
    BY <1>1, <1>2, <2>2 DEF SaysOf, OwnAddress, ComunicationType, Text
<1>6. QED
  BY <1>4, <1>5

(* Whatever a whole message becomes, it says no more than the message.     *)
LEMMA ParsedFromSays ==
    ASSUME NEW m \in Message, ~m.runt, NEW tv \in Int,
           NEW p \in parsed_from(m, tv)
    PROVE  SaysOf(m, p) /\ p.tv = tv /\ p.socket = m.channel
<1>1. m \in ControlMessage \cup MonitorPacket
  BY MessageAssumption DEF Runt
<1>2. CASE m \in ControlMessage
  <2>1. p \in packet_control(m, tv)
    BY <1>2 DEF ControlMessage, parsed_from
  <2>2. SaysOf(m, p) /\ p.tv = tv
    BY <1>2, <2>1, ControlMessageSays
  <2>3. QED
    BY <2>2 DEF SaysOf
<1>3. CASE m \in MonitorPacket
  <2>1. PICK q \in packet_monitor(m, create_event_object) :
                p = [q EXCEPT !.socket = "monitor", !.tv = tv]
    <3>1. m.channel = "monitor"
      BY <1>3 DEF MonitorPacket
    <3>2. p \in {[q EXCEPT !.socket = "monitor", !.tv = tv]
                   : q \in packet_monitor(m, create_event_object)}
      BY <3>1 DEF parsed_from
    <3>3. QED
      BY <3>2
  <2>2. SaysOf(m, p)
    BY <1>3, <2>1, MonitorPacketSays
  <2>3. p.tv = tv
    BY <2>1, <2>2 DEF SaysOf
  <2>4. QED
    BY <2>2, <2>3 DEF SaysOf
<1>4. QED
  BY <1>1, <1>2, <1>3

-----------------------------------------------------------------------------
(* The invariant, part by part. *)

(* A stored event was made of the message whose time stamp it carries. *)
madeOfArrival(p) ==
    /\ p.tv \in 1..Len(arrivals)
    /\ ~arrivals[p.tv].runt
    /\ p \in parsed_from(arrivals[p.tv], p.tv)

StoredAreParsed == \A i \in 1..Len(events) : madeOfArrival(events[i].parsed)

(* A queue holds messages of its channel, the oldest first. *)
QueuesAreOrdered ==
    \A c \in Channel : \A i \in 1..Len(socket[c]) :
        /\ arrivals[socket[c][i]].channel = c
        /\ \A j \in 1..Len(socket[c]) : i < j => socket[c][i] < socket[c][j]

waits(k) ==
    \E i \in 1..Len(socket[arrivals[k].channel]) :
        socket[arrivals[k].channel][i] = k

(* What was taken off a socket is older than all that waits there. *)
OldestIsTaken ==
    \A k \in 1..Len(arrivals) :
        ~waits(k) =>
            \A i \in 1..Len(socket[arrivals[k].channel]) :
                k < socket[arrivals[k].channel][i]

StoredAreTaken == \A i \in 1..Len(events) : ~waits(events[i].parsed.tv)

(* Message k is in the store, or it was there and all older messages of    *)
(* its channel have left with it; only a crash loses it, and there is none *)
(* but in a redraw before a dangerous message was taken.                   *)
kept(k) == \E i \in 1..Len(events) : events[i].parsed.tv = k

leftStore(k) ==
    /\ event_count > EventsLimit
    /\ \A i \in 1..Len(events) :
          events[i].parsed.socket = arrivals[k].channel =>
              events[i].parsed.tv > k

Endangered ==
    \E k \in 1..Len(arrivals) :
        ~waits(k) /\ ~arrivals[k].runt /\ isDangerous(arrivals[k])

MessagesAreAccountedFor ==
    process = "running" \/ ~Endangered =>
        \A k \in 1..Len(arrivals) :
            waits(k) \/ arrivals[k].runt \/ kept(k) \/ leftStore(k)

(* The bound of the model on arrivals, which ParserAssumption is about. *)
ArrivalsAreBounded == Len(arrivals) <= MaxArrivals

CaptureInv ==
    /\ StoreInv
    /\ TypeOK
    /\ ArrivalsAreBounded
    /\ StoredAreParsed
    /\ QueuesAreOrdered
    /\ OldestIsTaken
    /\ StoredAreTaken
    /\ ChannelOrder
    /\ MessagesAreAccountedFor

-----------------------------------------------------------------------------
(* Queues. *)

LEMMA MessagesHaveChannels ==
    \A m \in Message : m.channel \in Channel
<1> SUFFICES ASSUME NEW m \in Message PROVE m.channel \in Channel
  OBVIOUS
<1>1. CASE m \in ControlMessage
  BY <1>1 DEF ControlMessage, Channel
<1>2. CASE m \in MonitorPacket
  BY <1>2 DEF MonitorPacket, Channel
<1>3. CASE m \in Runt
  BY <1>3 DEF Runt
<1>4. QED
  BY <1>1, <1>2, <1>3, MessageAssumption

(* What TypeOK says of each queue and each arrival. *)
LEMMA QueueTypes ==
    ASSUME TypeOK
    PROVE  /\ Len(arrivals) \in Nat
           /\ \A k \in 1..Len(arrivals) :
                 arrivals[k] \in Message /\ arrivals[k].channel \in Channel
           /\ \A c \in Channel :
                 /\ socket[c] \in Seq(1..Len(arrivals))
                 /\ Len(socket[c]) \in Nat
                 /\ \A i \in 1..Len(socket[c]) : socket[c][i] \in 1..Len(arrivals)
<1>1. arrivals \in Seq(Message) /\ socket \in [Channel -> Seq(1..Len(arrivals))]
  BY DEF TypeOK
<1>2. Len(arrivals) \in Nat
  BY <1>1, LenProperties
<1>3. \A k \in 1..Len(arrivals) : arrivals[k] \in Message
  BY <1>1, ElementOfSeq
<1>4. \A c \in Channel : socket[c] \in Seq(1..Len(arrivals))
  BY <1>1
<1>5. \A c \in Channel : Len(socket[c]) \in Nat
  BY <1>4, LenProperties
<1>6. \A c \in Channel : \A i \in 1..Len(socket[c]) :
         socket[c][i] \in 1..Len(arrivals)
  BY <1>4, ElementOfSeq
<1>7. QED
  BY <1>2, <1>3, <1>4, <1>5, <1>6, MessagesHaveChannels

(* A callback takes the oldest message of its channel that is still there, *)
(* and the queues stay ordered.                                            *)
LEMMA TakingKeepsQueues ==
    ASSUME TypeOK, QueuesAreOrdered, OldestIsTaken,
           NEW c \in Channel, socket[c] # <<>>,
           NEW k, k = Head(socket[c]),
           socket' = [socket EXCEPT ![c] = Tail(socket[c])],
           arrivals' = arrivals
    PROVE  /\ k \in 1..Len(arrivals)
           /\ arrivals[k].channel = c
           /\ socket' \in [Channel -> Seq(1..Len(arrivals'))]
           /\ QueuesAreOrdered'
           /\ OldestIsTaken'
           /\ \A j \in 1..Len(arrivals) : waits(j)' <=> waits(j) /\ j # k
           /\ \A j \in 1..Len(arrivals) :
                 arrivals[j].channel = c /\ ~waits(j) => j < k
<1> DEFINE s == socket[c]
           n == Len(s)
           N == Len(arrivals)
<1>1. /\ N \in Nat
      /\ \A j \in 1..N : arrivals[j].channel \in Channel
      /\ \A d \in Channel : /\ socket[d] \in Seq(1..N)
                            /\ Len(socket[d]) \in Nat
                            /\ \A i \in 1..Len(socket[d]) : socket[d][i] \in 1..N
  BY QueueTypes
<1>2. n \in Nat /\ n > 0
  BY <1>1, EmptySeq
<1>3. /\ Tail(s) \in Seq(1..N)
      /\ Len(Tail(s)) = n - 1
      /\ \A i \in 1..(n - 1) : Tail(s)[i] = s[i + 1]
  <2>1. s \in Seq(1..N) /\ s # <<>>
    BY <1>1
  <2> HIDE DEF s, N
  <2>2. /\ Tail(s) \in Seq(1..N)
        /\ Len(Tail(s)) = Len(s) - 1
        /\ \A i \in 1..Len(Tail(s)) : Tail(s)[i] = s[i + 1]
    BY <2>1, HeadTailProperties
  <2>3. QED
    BY <2>2
<1>4. k = s[1]
  OBVIOUS
<1>5. socket \in [Channel -> Seq(1..N)]
  BY DEF TypeOK
<1>6. /\ socket' \in [Channel -> Seq(1..N)]
      /\ socket'[c] = Tail(s)
      /\ \A d \in Channel \ {c} : socket'[d] = socket[d]
  BY <1>3, <1>5
<1>7. /\ \A i \in 1..n : /\ arrivals[s[i]].channel = c
                         /\ \A j \in 1..n : i < j => s[i] < s[j]
      /\ \A i \in 1..n : s[i] \in 1..N
  BY <1>1 DEF QueuesAreOrdered
<1>8. k \in 1..N /\ arrivals[k].channel = c
  <2>1. 1 \in 1..n
    BY <1>2
  <2>2. QED
    BY <1>4, <1>7, <2>1
<1> HIDE DEF s, n
<1>9. QueuesAreOrdered'
  <2> SUFFICES ASSUME NEW d \in Channel, NEW i \in 1..Len(socket'[d])
               PROVE  /\ arrivals[socket'[d][i]].channel = d
                      /\ \A j \in 1..Len(socket'[d]) :
                            i < j => socket'[d][i] < socket'[d][j]
    BY DEF QueuesAreOrdered
  <2>1. CASE d = c
    <3>1. /\ Len(socket'[d]) = n - 1
          /\ \A j \in 1..(n - 1) : socket'[d][j] = s[j + 1]
      BY <1>3, <1>6, <2>1
    <3>2. i \in 1..(n - 1) /\ i + 1 \in 1..n
      BY <1>2, <3>1
    <3>3. \A j \in 1..(n - 1) : j + 1 \in 1..n /\ (i < j => i + 1 < j + 1)
      BY <1>2, <3>2
    <3>4. arrivals[socket'[d][i]].channel = d
      BY <1>7, <2>1, <3>1, <3>2
    <3>5. \A j \in 1..(n - 1) : i < j => s[i + 1] < s[j + 1]
      BY <1>7, <3>2, <3>3
    <3>6. QED
      BY <3>1, <3>2, <3>4, <3>5
  <2>2. CASE d # c
    <3>1. socket'[d] = socket[d]
      BY <1>6, <2>2
    <3>2. QED
      BY <3>1 DEF QueuesAreOrdered
  <2>3. QED
    BY <2>1, <2>2
<1>10. ASSUME NEW j \in 1..N
       PROVE  waits(j)' <=> waits(j) /\ j # k
  <2>1. CASE arrivals[j].channel # c
    <3>1. socket'[arrivals[j].channel] = socket[arrivals[j].channel]
      BY <1>1, <1>6, <2>1
    <3>2. j # k
      BY <1>8, <2>1
    <3>3. QED
      BY <3>1, <3>2 DEF waits
  <2>2. CASE arrivals[j].channel = c
    <3>1. waits(j)' <=> \E i \in 1..(n - 1) : s[i + 1] = j
      <4>1. waits(j)' <=> \E i \in 1..Len(Tail(s)) : Tail(s)[i] = j
        BY <1>6, <2>2 DEF waits
      <4>2. QED
        BY <1>3, <4>1
    <3>2. waits(j) <=> \E i \in 1..n : s[i] = j
      BY <2>2 DEF waits, s, n
    <3>3. ASSUME NEW i \in 1..(n - 1), s[i + 1] = j
          PROVE  waits(j) /\ j # k
      <4>1. 1 \in 1..n /\ i + 1 \in 1..n /\ 1 < i + 1
        BY <1>2
      <4>2. s[1] < s[i + 1] /\ s[1] \in 1..N
        BY <1>7, <4>1
      <4>3. QED
        BY <1>4, <3>2, <3>3, <4>1, <4>2
    <3>4. ASSUME NEW i \in 1..n, s[i] = j, j # k
          PROVE  waits(j)'
      <4>1. i # 1
        BY <1>4, <3>4
      <4>2. i - 1 \in 1..(n - 1) /\ (i - 1) + 1 = i
        BY <1>2, <4>1
      <4>3. QED
        BY <3>1, <3>4, <4>2
    <3>5. QED
      BY <3>1, <3>2, <3>3, <3>4
  <2>3. QED
    BY <2>1, <2>2
<1>11. ASSUME NEW j \in 1..N, arrivals[j].channel = c, ~waits(j)
       PROVE  j < k
  <2>1. \A i \in 1..n : j < s[i]
    BY <1>11 DEF OldestIsTaken, s, n
  <2>2. 1 \in 1..n
    BY <1>2
  <2>3. QED
    BY <1>4, <2>1, <2>2
<1>12. OldestIsTaken'
  <2> SUFFICES ASSUME NEW j \in 1..N, ~waits(j)',
                      NEW i \in 1..Len(socket'[arrivals[j].channel])
               PROVE  j < socket'[arrivals[j].channel][i]
    BY DEF OldestIsTaken
  <2>1. CASE arrivals[j].channel # c
    <3>1. socket'[arrivals[j].channel] = socket[arrivals[j].channel]
      BY <1>1, <1>6, <2>1
    <3>2. ~waits(j)
      BY <3>1 DEF waits
    <3>3. QED
      BY <3>1, <3>2 DEF OldestIsTaken
  <2>2. CASE arrivals[j].channel = c
    <3>1. /\ i \in 1..(n - 1) /\ i + 1 \in 1..n /\ 1 \in 1..n
          /\ socket'[arrivals[j].channel][i] = s[i + 1]
      <4>1. socket'[arrivals[j].channel] = Tail(s) /\ Len(Tail(s)) = n - 1
        BY <1>3, <1>6, <2>2
      <4>2. i \in 1..(n - 1)
        BY <4>1
      <4>3. i + 1 \in 1..n /\ 1 \in 1..n
        BY <1>2, <4>2
      <4>4. Tail(s)[i] = s[i + 1]
        BY <1>3, <4>2
      <4>5. QED
        BY <4>1, <4>2, <4>3, <4>4
    <3>2. k < s[i + 1]
      BY <1>4, <1>7, <3>1
    <3>3. j = k \/ j < k
      BY <1>10, <1>11, <2>2
    <3>4. k \in Int /\ j \in Int /\ s[i + 1] \in Int
      BY <1>7, <1>8, <3>1
    <3>5. QED
      BY <3>1, <3>2, <3>3, <3>4
  <2>3. QED
    BY <2>1, <2>2
<1>13. QED
  BY <1>6, <1>8, <1>9, <1>10, <1>11, <1>12

-----------------------------------------------------------------------------
(* The invariant holds initially, and each action keeps it. *)

LEMMA InitEstablishesCaptureInv == Init => CaptureInv
<1> SUFFICES ASSUME Init PROVE CaptureInv
  OBVIOUS
<1>1. StoreInv
  BY StoreInitEstablishesInv DEF Init
<1>2. Len(arrivals) = 0 /\ arrivals \in Seq(Message)
  BY EmptySeq DEF Init
<1>3. socket \in [Channel -> Seq(1..Len(arrivals))]
  <2>1. <<>> \in Seq(1..Len(arrivals))
    BY EmptySeq
  <2>2. QED
    BY <2>1 DEF Init
<1>4. TypeOK
  BY <1>1, <1>2, <1>3 DEF Init, TypeOK, StoreInv
<1>5. 1..Len(events) = {} /\ 1..Len(arrivals) = {}
  BY <1>2, EmptySeq DEF Init, StoreInit
<1>6. ArrivalsAreBounded
  BY <1>2, ArrivalsAssumption DEF ArrivalsAreBounded
<1>7. QueuesAreOrdered
  <2>1. \A c \in Channel : 1..Len(socket[c]) = {}
    BY EmptySeq DEF Init
  <2>2. QED
    BY <2>1 DEF QueuesAreOrdered
<1>8. QED
  BY <1>1, <1>4, <1>5, <1>6, <1>7
     DEF CaptureInv, StoredAreParsed, OldestIsTaken, StoredAreTaken,
         ChannelOrder, MessagesAreAccountedFor

(* A step that leaves the stored events, the queues and the arrivals alone. *)
LEMMA SameEventsKeepCaptureInv ==
    ASSUME CaptureInv, StoreInv', UNCHANGED <<stored, socket, arrivals>>,
           process' = "running" => process = "running",
           main' \in {"starting", "running", "exited"},
           watch' \in [Channel -> {"none", "on", "removed", "failed"}],
           hangup' \in [Channel -> BOOLEAN],
           reading' \in Channel \cup {"none"}
    PROVE  CaptureInv'
<1>1. UNCHANGED <<events, event_count>> /\ UNCHANGED <<socket, arrivals>>
  BY DEF stored
<1>2. TypeOK'
  BY <1>1 DEF CaptureInv, TypeOK, StoreInv
<1>3. ArrivalsAreBounded' /\ StoredAreParsed' /\ ChannelOrder'
  BY <1>1 DEF CaptureInv, ArrivalsAreBounded, StoredAreParsed, madeOfArrival,
              ChannelOrder
<1>4. QueuesAreOrdered' /\ OldestIsTaken' /\ StoredAreTaken'
  BY <1>1 DEF CaptureInv, QueuesAreOrdered, OldestIsTaken, StoredAreTaken, waits
<1>5. MessagesAreAccountedFor'
  BY <1>1 DEF CaptureInv, MessagesAreAccountedFor, Endangered, isDangerous,
              waits, kept, leftStore
<1>6. QED
  BY <1>2, <1>3, <1>4, <1>5 DEF CaptureInv

(* A step that leaves the whole store alone, too. *)
LEMMA SameStoreKeepsCaptureInv ==
    ASSUME CaptureInv, UNCHANGED <<storeVars, socket, arrivals>>,
           main' \in {"starting", "running", "exited"},
           watch' \in [Channel -> {"none", "on", "removed", "failed"}],
           hangup' \in [Channel -> BOOLEAN],
           reading' \in Channel \cup {"none"}
    PROVE  CaptureInv'
<1>1. UNCHANGED process /\ UNCHANGED <<stored, socket, arrivals>>
  BY DEF storeVars
<1>2. StoreInv'
  BY StoreStutterKeepsInv DEF CaptureInv
<1>3. QED
  BY <1>1, <1>2, SameEventsKeepCaptureInv

LEMMA TracingKeepsCaptureInv ==
    ASSUME CaptureInv, control_tracing
    PROVE  CaptureInv'
<1>1. /\ main' \in {"starting", "running", "exited"}
      /\ watch' \in [Channel -> {"none", "on", "removed", "failed"}]
  BY DEF control_tracing, CaptureInv, TypeOK
<1>2. UNCHANGED <<kernel, socket, reading, storeVars>>
  BY DEF control_tracing
<1>3. QED
  BY <1>1, <1>2, SameStoreKeepsCaptureInv DEF CaptureInv, TypeOK, kernel

LEMMA HangUpKeepsCaptureInv ==
    ASSUME CaptureInv, NEW c \in Channel, HangUp(c)
    PROVE  CaptureInv'
<1>1. hangup' \in [Channel -> BOOLEAN]
  BY DEF HangUp, CaptureInv, TypeOK
<1>2. QED
  BY <1>1, SameStoreKeepsCaptureInv DEF HangUp, CaptureInv, TypeOK

LEMMA RemoveWatchKeepsCaptureInv ==
    ASSUME CaptureInv, NEW c \in Channel, RemoveWatch(c)
    PROVE  CaptureInv'
<1>1. watch' \in [Channel -> {"none", "on", "removed", "failed"}]
  BY DEF RemoveWatch, CaptureInv, TypeOK
<1>2. QED
  BY <1>1, SameStoreKeepsCaptureInv DEF RemoveWatch, CaptureInv, TypeOK, kernel

LEMMA CallbackKeepsCaptureInv ==
    ASSUME CaptureInv, NEW c \in Channel, data_callback(c)
    PROVE  CaptureInv'
BY SameStoreKeepsCaptureInv DEF data_callback, CaptureInv, TypeOK, kernel

LEMMA DrainedKeepsCaptureInv ==
    ASSUME CaptureInv, NEW c \in Channel, Drained(c)
    PROVE  CaptureInv'
BY SameStoreKeepsCaptureInv DEF Drained, CaptureInv, TypeOK, kernel

(* A message that arrives is the youngest of its queue. *)
LEMMA ArriveKeepsCaptureInv ==
    ASSUME CaptureInv, NEW m \in Message, Arrive(m)
    PROVE  CaptureInv'
<1> DEFINE N == Len(arrivals)
           d == m.channel
<1>1. /\ N < MaxArrivals
      /\ arrivals' = Append(arrivals, m)
      /\ socket' = [socket EXCEPT ![d] = Append(@, N + 1)]
      /\ UNCHANGED <<main, watch, hangup, reading, storeVars>>
  BY DEF Arrive
<1>2. UNCHANGED <<process, events, event_count>>
  BY <1>1 DEF storeVars, stored
<1>3. /\ N \in Nat
      /\ \A k \in 1..N : arrivals[k].channel \in Channel
      /\ \A c \in Channel : /\ socket[c] \in Seq(1..N)
                            /\ Len(socket[c]) \in Nat
                            /\ \A i \in 1..Len(socket[c]) : socket[c][i] \in 1..N
  BY QueueTypes DEF CaptureInv
<1>4. d \in Channel
  BY MessagesHaveChannels
<1>5. arrivals \in Seq(Message) /\ socket \in [Channel -> Seq(1..N)]
  BY DEF CaptureInv, TypeOK
<1>6. /\ arrivals' \in Seq(Message)
      /\ Len(arrivals') = N + 1
      /\ \A k \in 1..N : arrivals'[k] = arrivals[k]
      /\ arrivals'[N + 1] = m
  BY <1>1, <1>5
<1>7. ArrivalsAreBounded'
  BY <1>1, <1>3, <1>6, ArrivalsAssumption DEF ArrivalsAreBounded
<1> HIDE DEF N, d
<1>8. /\ \A c \in Channel \ {d} : socket'[c] = socket[c]
      /\ Len(socket'[d]) = Len(socket[d]) + 1
      /\ \A i \in 1..Len(socket[d]) : socket'[d][i] = socket[d][i]
      /\ socket'[d][Len(socket[d]) + 1] = N + 1
  <2>1. /\ \A c \in Channel \ {d} : socket'[c] = socket[c]
        /\ socket'[d] = Append(socket[d], N + 1)
    BY <1>1, <1>4, <1>5
  <2>2. socket[d] \in Seq(1..N)
    BY <1>3, <1>4
  <2>3. QED
    BY <2>1, <2>2
<1>9. socket' \in [Channel -> Seq(1..(N + 1))]
  <2>1. \A c \in Channel : socket[c] \in Seq(1..(N + 1))
    <3>1. 1..N \subseteq 1..(N + 1)
      BY <1>3
    <3>2. QED
      BY <1>3, <3>1, SeqMonotonic
  <2>2. N + 1 \in 1..(N + 1)
    BY <1>3
  <2>3. Append(socket[d], N + 1) \in Seq(1..(N + 1))
    BY <1>4, <2>1, <2>2
  <2>4. QED
    BY <1>1, <1>5, <2>1, <2>3
<1>10. ASSUME NEW k \in 1..N
       PROVE  waits(k)' <=> waits(k)
  <2>1. arrivals'[k] = arrivals[k] /\ arrivals[k].channel \in Channel
    BY <1>3, <1>6
  <2>2. CASE arrivals[k].channel # d
    BY <1>8, <2>1, <2>2 DEF waits
  <2>3. CASE arrivals[k].channel = d
    <3>1. N + 1 # k
      BY <1>3
    <3>2. waits(k)' <=> \E i \in 1..(Len(socket[d]) + 1) : socket'[d][i] = k
      BY <1>8, <2>1, <2>3 DEF waits
    <3>3. Len(socket[d]) \in Nat
      BY <1>3, <1>4
    <3>4. \A i \in 1..(Len(socket[d]) + 1) :
             i \in 1..Len(socket[d]) \/ i = Len(socket[d]) + 1
      BY <3>3
    <3>5. \A i \in 1..Len(socket[d]) : i \in 1..(Len(socket[d]) + 1)
      BY <3>3
    <3>6. waits(k) <=> \E i \in 1..Len(socket[d]) : socket[d][i] = k
      BY <2>3 DEF waits
    <3>7. QED
      BY <1>8, <3>1, <3>2, <3>4, <3>5, <3>6
  <2>4. QED
    BY <2>2, <2>3
<1>11. ASSUME NEW k, k = N + 1
       PROVE  waits(k)'
  <2>1. Len(socket[d]) + 1 \in 1..Len(socket'[d])
    BY <1>3, <1>4, <1>8
  <2>2. arrivals'[k].channel = d
    BY <1>6, <1>11 DEF d
  <2>3. QED
    BY <1>8, <1>11, <2>1, <2>2 DEF waits
<1>12. \A k \in 1..(N + 1) : k \in 1..N \/ k = N + 1
  BY <1>3
<1>13. /\ StoreInv'
       /\ TypeOK'
  <2>1. StoreInv'
    BY <1>1, StoreStutterKeepsInv DEF CaptureInv
  <2>2. QED
    BY <1>1, <1>6, <1>9, <2>1 DEF CaptureInv, TypeOK, StoreInv
<1>14. StoredAreParsed' /\ StoredAreTaken' /\ ChannelOrder'
  <2>1. ASSUME NEW p, madeOfArrival(p), ~waits(p.tv)
        PROVE  madeOfArrival(p)' /\ ~waits(p.tv)'
    <3>1. p.tv \in 1..N /\ p.tv \in 1..(N + 1)
      BY <1>3, <2>1 DEF madeOfArrival, N
    <3>2. arrivals'[p.tv] = arrivals[p.tv]
      BY <1>6, <3>1
    <3>3. ~waits(p.tv)'
      BY <1>10, <2>1, <3>1
    <3>4. QED
      BY <1>6, <2>1, <3>1, <3>2, <3>3 DEF madeOfArrival
  <2>2. \A i \in 1..Len(events) :
            madeOfArrival(events[i].parsed) /\ ~waits(events[i].parsed.tv)
    BY DEF CaptureInv, StoredAreParsed, StoredAreTaken
  <2>3. ASSUME NEW i \in 1..Len(events'), NEW p, p = events'[i].parsed
        PROVE  madeOfArrival(p)' /\ ~waits(p.tv)'
    <3>1. madeOfArrival(p) /\ ~waits(p.tv)
      BY <1>2, <2>2, <2>3
    <3>2. QED
      BY <2>1, <3>1
  <2>4. StoredAreParsed' /\ StoredAreTaken'
    BY <2>3 DEF StoredAreParsed, StoredAreTaken, madeOfArrival, waits
  <2>5. ChannelOrder'
    BY <1>2 DEF CaptureInv, ChannelOrder
  <2>6. QED
    BY <2>4, <2>5
<1>15. QueuesAreOrdered'
  <2> SUFFICES ASSUME NEW c \in Channel, NEW i \in 1..Len(socket'[c])
               PROVE  /\ arrivals'[socket'[c][i]].channel = c
                      /\ \A j \in 1..Len(socket'[c]) :
                            i < j => socket'[c][i] < socket'[c][j]
    BY DEF QueuesAreOrdered
  <2>1. /\ Len(socket[c]) \in Nat
        /\ \A j \in 1..Len(socket[c]) :
              /\ socket[c][j] \in 1..N
              /\ arrivals[socket[c][j]].channel = c
              /\ \A l \in 1..Len(socket[c]) : j < l => socket[c][j] < socket[c][l]
    BY <1>3 DEF CaptureInv, QueuesAreOrdered
  <2>2. \A j \in 1..Len(socket[c]) :
            arrivals'[socket[c][j]] = arrivals[socket[c][j]]
    BY <1>6, <2>1
  <2>3. CASE c # d
    BY <1>8, <2>1, <2>2, <2>3
  <2>4. CASE c = d
    <3> DEFINE n == Len(socket[c])
    <3>1. /\ Len(socket'[c]) = n + 1
          /\ \A j \in 1..n : socket'[c][j] = socket[c][j]
          /\ socket'[c][n + 1] = N + 1
      BY <1>8, <2>4
    <3>2. n \in Nat
      BY <2>1
    <3> HIDE DEF n
    <3>3. \A j \in 1..(n + 1) : j \in 1..n \/ j = n + 1
      BY <3>2
    <3>4. i \in 1..n \/ i = n + 1
      BY <3>1, <3>3
    <3>5. arrivals'[socket'[c][i]].channel = c
      <4>1. CASE i \in 1..n
        BY <2>1, <2>2, <3>1, <4>1 DEF n
      <4>2. CASE i = n + 1
        BY <1>6, <2>4, <3>1, <4>2 DEF d
      <4>3. QED
        BY <3>4, <4>1, <4>2
    <3>6. ASSUME NEW j \in 1..(n + 1), i < j
          PROVE  socket'[c][i] < socket'[c][j]
      <4>1. i \in 1..n
        BY <3>2, <3>4, <3>6
      <4>2. socket'[c][i] = socket[c][i] /\ socket[c][i] \in 1..N
        BY <2>1, <3>1, <4>1 DEF n
      <4>3. CASE j \in 1..n
        BY <2>1, <3>1, <3>6, <4>1, <4>2, <4>3 DEF n
      <4>4. CASE j = n + 1
        <5>1. socket'[c][j] = N + 1
          BY <3>1, <4>4
        <5>2. socket[c][i] < N + 1
          BY <1>3, <4>2
        <5>3. QED
          BY <4>2, <5>1, <5>2
      <4>5. QED
        BY <3>3, <4>3, <4>4
    <3>7. QED
      BY <3>1, <3>5, <3>6
  <2>5. QED
    BY <2>3, <2>4
<1>16. OldestIsTaken'
  <2> SUFFICES ASSUME NEW k \in 1..(N + 1), ~waits(k)',
                      NEW i \in 1..Len(socket'[arrivals'[k].channel])
               PROVE  k < socket'[arrivals'[k].channel][i]
    BY <1>6 DEF OldestIsTaken
  <2> DEFINE c == arrivals[k].channel
  <2>1. k \in 1..N
    BY <1>11, <1>12
  <2>2. /\ arrivals'[k].channel = c
        /\ c \in Channel
        /\ ~waits(k)
    BY <1>3, <1>6, <1>10, <2>1
  <2>3. \A j \in 1..Len(socket[c]) : k < socket[c][j]
    BY <2>1, <2>2 DEF CaptureInv, OldestIsTaken, N
  <2> HIDE DEF c
  <2>4. CASE c # d
    BY <1>8, <2>2, <2>3, <2>4
  <2>5. CASE c = d
    <3>1. Len(socket[c]) \in Nat /\ i \in 1..(Len(socket[c]) + 1)
      BY <1>3, <1>8, <2>2, <2>5
    <3>2. CASE i = Len(socket[c]) + 1
      <4>1. socket'[c][i] = N + 1
        BY <1>8, <2>5, <3>2
      <4>2. k < N + 1
        BY <1>3, <2>1
      <4>3. QED
        BY <2>2, <4>1, <4>2
    <3>3. CASE i # Len(socket[c]) + 1
      <4>1. i \in 1..Len(socket[c])
        BY <3>1, <3>3
      <4>2. QED
        BY <1>8, <2>2, <2>3, <2>5, <4>1
    <3>4. QED
      BY <3>2, <3>3
  <2>6. QED
    BY <2>4, <2>5
<1>17. MessagesAreAccountedFor'
  <2> SUFFICES ASSUME process' = "running" \/ ~Endangered', NEW k \in 1..(N + 1)
               PROVE  waits(k)' \/ arrivals'[k].runt \/ kept(k)' \/ leftStore(k)'
    BY <1>6 DEF MessagesAreAccountedFor
  <2>0. process = "running" \/ ~Endangered
    <3>1. ASSUME NEW j \in 1..N, ~waits(j), ~arrivals[j].runt,
                 isDangerous(arrivals[j])
          PROVE  Endangered'
      <4>1. arrivals'[j] = arrivals[j] /\ ~waits(j)'
        BY <1>6, <1>10, <3>1
      <4>2. j \in 1..Len(arrivals')
        BY <1>3, <1>6
      <4>3. isDangerous(arrivals'[j])
        BY <3>1, <4>1 DEF isDangerous
      <4>4. QED
        BY <3>1, <4>1, <4>2, <4>3 DEF Endangered, isDangerous
    <3>2. QED
      BY <1>2, <3>1 DEF Endangered, N
  <2>1. CASE k = N + 1
    BY <1>11, <2>1
  <2>2. CASE k \in 1..N
    <3>1. waits(k) \/ arrivals[k].runt \/ kept(k) \/ leftStore(k)
      BY <2>0, <2>2 DEF CaptureInv, MessagesAreAccountedFor, N
    <3>2. arrivals'[k] = arrivals[k]
      BY <1>6, <2>2
    <3>3. kept(k)' <=> kept(k)
      BY <1>2 DEF kept
    <3>4. leftStore(k)' <=> leftStore(k)
      BY <1>2, <3>2 DEF leftStore
    <3>5. QED
      BY <1>10, <2>2, <3>1, <3>2, <3>3, <3>4
  <2>3. QED
    BY <1>12, <2>1, <2>2
<1>18. QED
  BY <1>7, <1>13, <1>14, <1>15, <1>16, <1>17 DEF CaptureInv

(* A message taken off its queue and not stored: a runt, or one whose      *)
(* handler crashed the program.                                            *)
LEMMA DroppingKeepsCaptureInv ==
    ASSUME CaptureInv, StoreInv',
           NEW c \in Channel, socket[c] # <<>>,
           socket' = [socket EXCEPT ![c] = Tail(socket[c])],
           UNCHANGED <<main, watch, kernel, stored>>,
           reading' \in Channel \cup {"none"},
           IF arrivals[Head(socket[c])].runt
           THEN process' = process
           ELSE /\ process' = "crashed"
                /\ isDangerous(arrivals[Head(socket[c])]) \/ Endangered
    PROVE  CaptureInv'
<1> PICK k : k = Head(socket[c])
  OBVIOUS
<1>1. UNCHANGED <<hangup, arrivals, events, event_count>>
  BY DEF kernel, stored
<1>2. /\ k \in 1..Len(arrivals)
      /\ socket' \in [Channel -> Seq(1..Len(arrivals'))]
      /\ QueuesAreOrdered'
      /\ OldestIsTaken'
      /\ \A j \in 1..Len(arrivals) : waits(j)' <=> waits(j) /\ j # k
  BY <1>1, TakingKeepsQueues DEF CaptureInv
<1>3. TypeOK' /\ ArrivalsAreBounded'
  BY <1>1, <1>2 DEF CaptureInv, TypeOK, ArrivalsAreBounded, StoreInv
<1>4. StoredAreParsed' /\ ChannelOrder'
  BY <1>1 DEF CaptureInv, StoredAreParsed, madeOfArrival, ChannelOrder
<1>5. StoredAreTaken'
  <2>1. ASSUME NEW j, \E i \in 1..Len(events) : events[i].parsed.tv = j
        PROVE  ~waits(j)'
    BY <1>2, <2>1 DEF CaptureInv, StoredAreParsed, madeOfArrival, StoredAreTaken
  <2>2. QED
    BY <1>1, <2>1 DEF StoredAreTaken, waits
<1>6. MessagesAreAccountedFor'
  <2> SUFFICES ASSUME process' = "running" \/ ~Endangered',
                      NEW j \in 1..Len(arrivals)
               PROVE  waits(j)' \/ arrivals'[j].runt \/ kept(j)' \/ leftStore(j)'
    BY <1>1 DEF MessagesAreAccountedFor
  <2>0. Endangered => Endangered'
    <3>1. ASSUME NEW i \in 1..Len(arrivals), ~waits(i), ~arrivals[i].runt,
                 isDangerous(arrivals[i])
          PROVE  Endangered'
      <4>1. ~waits(i)'
        BY <1>2, <3>1
      <4>2. QED
        BY <1>1, <3>1, <4>1 DEF Endangered, isDangerous
    <3>2. QED
      BY <3>1 DEF Endangered
  <2>1. arrivals[k].runt /\ (process = "running" \/ ~Endangered)
    <3>1. CASE arrivals[k].runt
      BY <2>0, <3>1
    <3>2. CASE ~arrivals[k].runt
      <4>1. process' = "crashed" /\ (isDangerous(arrivals[k]) \/ Endangered)
        BY <3>2
      <4>2. isDangerous(arrivals[k]) => Endangered'
        BY <1>1, <1>2, <3>2 DEF Endangered, isDangerous
      <4>3. QED
        BY <2>0, <4>1, <4>2
    <3>3. QED
      BY <3>1, <3>2
  <2>2. waits(j) \/ arrivals[j].runt \/ kept(j) \/ leftStore(j)
    BY <2>1 DEF CaptureInv, MessagesAreAccountedFor
  <2>3. (kept(j)' <=> kept(j)) /\ (leftStore(j)' <=> leftStore(j))
    BY <1>1 DEF kept, leftStore
  <2>4. QED
    BY <1>1, <1>2, <2>1, <2>2, <2>3
<1>7. QED
  BY <1>2, <1>3, <1>4, <1>5, <1>6 DEF CaptureInv

LEMMA RuntKeepsCaptureInv ==
    ASSUME CaptureInv, NEW c \in Channel, ReceiveRunt(c)
    PROVE  CaptureInv'
<1>1. /\ process = "running"
      /\ socket[c] # <<>>
      /\ arrivals[Head(socket[c])].runt
      /\ socket' = [socket EXCEPT ![c] = Tail(socket[c])]
      /\ reading' = "none"
      /\ UNCHANGED <<main, watch, kernel, storeVars>>
  BY DEF ReceiveRunt, take
<1>2. StoreInv'
  BY <1>1, StoreStutterKeepsInv DEF CaptureInv
<1>3. UNCHANGED stored /\ UNCHANGED process
  BY <1>1 DEF storeVars
<1>4. reading' \in Channel \cup {"none"}
  BY <1>1
<1>5. QED
  BY <1>1, <1>2, <1>3, <1>4, DroppingKeepsCaptureInv

(* A message waits in the queue of its own channel or in none. *)
LEMMA QueuedWaits ==
    ASSUME CaptureInv, NEW k \in 1..Len(arrivals)
    PROVE  queued(k) <=> waits(k)
<1>1. \A c \in Channel :
         ToSet(socket[c]) = {socket[c][i] : i \in 1..Len(socket[c])}
  <2> SUFFICES ASSUME NEW c \in Channel
               PROVE  DOMAIN socket[c] = 1..Len(socket[c])
    BY DEF ToSet
  <2>1. socket[c] \in Seq(1..Len(arrivals))
    BY QueueTypes DEF CaptureInv
  <2>2. QED
    BY <2>1, LenProperties
<1>2. arrivals[k].channel \in Channel
  BY QueueTypes DEF CaptureInv
<1>3. waits(k) => queued(k)
  BY <1>1, <1>2 DEF queued, waits
<1>4. ASSUME NEW c \in Channel, NEW i \in 1..Len(socket[c]), socket[c][i] = k
      PROVE  waits(k)
  <2>1. arrivals[k].channel = c
    BY <1>4 DEF CaptureInv, QueuesAreOrdered
  <2>2. QED
    BY <1>4, <2>1 DEF waits
<1>5. QED
  BY <1>1, <1>3, <1>4 DEF queued

LEMMA DamageIsDanger == CaptureInv /\ damaged => Endangered
<1> SUFFICES ASSUME CaptureInv,
                    NEW k \in 1..Len(arrivals), taken(k), overruns(arrivals[k])
             PROVE  Endangered
  BY DEF damaged
<1>1. ~waits(k) /\ ~arrivals[k].runt
  BY QueuedWaits DEF taken
<1>2. isDangerous(arrivals[k])
  BY DEF overruns, NameOverruns, DumpOverruns, isDangerous
<1>3. QED
  BY <1>1, <1>2 DEF Endangered

LEMMA CrashKeepsCaptureInv ==
    ASSUME CaptureInv, NEW c \in Channel, CrashInHandler(c)
    PROVE  CaptureInv'
<1>1. /\ socket[c] # <<>>
      /\ socket' = [socket EXCEPT ![c] = Tail(socket[c])]
      /\ process' = "crashed"
      /\ UNCHANGED <<main, watch, kernel, reading, stored, devices, drawn>>
  BY DEF CrashInHandler, take
<1>2. StoreInv'
  BY <1>1
     DEF CaptureInv, StoreInv, StoreTypeOK, StoreWindow, FilterIsKnown,
         StoredDevicesAreKnown, DiagramIsCurrent,
         EveryShownEventHasItsTimeline, stored, devices, drawn
<1>3. reading' \in Channel \cup {"none"}
  BY <1>1 DEF CaptureInv, TypeOK
<1>4. /\ ~arrivals[Head(socket[c])].runt
      /\ isDangerous(arrivals[Head(socket[c])]) \/ Endangered
  BY DamageIsDanger
     DEF CrashInHandler, take, overruns, ReadsPastFrame, NameOverruns,
         DumpOverruns, isDangerous
<1>5. QED
  BY <1>1, <1>2, <1>3, <1>4, DroppingKeepsCaptureInv

LEMMA DamageKeepsCaptureInv ==
    ASSUME CaptureInv, CrashOfDamage
    PROVE  CaptureInv'
<1>1. /\ process' = "crashed"
      /\ UNCHANGED <<main, watch, kernel, socket, reading, stored, devices, drawn>>
  BY DEF CrashOfDamage
<1>2. StoreInv'
  BY <1>1
     DEF CaptureInv, StoreInv, StoreTypeOK, StoreWindow, FilterIsKnown,
         StoredDevicesAreKnown, DiagramIsCurrent,
         EveryShownEventHasItsTimeline, stored, devices, drawn
<1>3. QED
  BY <1>1, <1>2, SameEventsKeepCaptureInv DEF CaptureInv, TypeOK, kernel

(* A whole message is the youngest event of its channel in the store: all  *)
(* that was taken before it is older.                                      *)
LEMMA ReceiveKeepsCaptureInv ==
    ASSUME CaptureInv, NEW c \in Channel, Receive(c)
    PROVE  CaptureInv'
<1> PICK k : k = Head(socket[c])
  OBVIOUS
<1> DEFINE m == arrivals[k]
           n == Len(events)
<1>1. /\ socket[c] # <<>>
      /\ ~m.runt
      /\ socket' = [socket EXCEPT ![c] = Tail(socket[c])]
      /\ \E p \in parsed_from(m, k) : data_dumped_add_event(p)
      /\ UNCHANGED <<main, watch, kernel, reading>>
  BY DEF Receive, take
<1>2. UNCHANGED <<hangup, arrivals>>
  BY <1>1 DEF kernel
<1>3. /\ k \in 1..Len(arrivals)
      /\ arrivals[k].channel = c
      /\ socket' \in [Channel -> Seq(1..Len(arrivals'))]
      /\ QueuesAreOrdered'
      /\ OldestIsTaken'
      /\ \A j \in 1..Len(arrivals) : waits(j)' <=> waits(j) /\ j # k
      /\ \A j \in 1..Len(arrivals) :
            arrivals[j].channel = c /\ ~waits(j) => j < k
  BY <1>1, <1>2, TakingKeepsQueues DEF CaptureInv
<1>4. Len(arrivals) \in Nat /\ m \in Message
  BY <1>3, QueueTypes DEF CaptureInv
<1>5. k \in 1..MaxArrivals
  BY <1>3, <1>4, ArrivalsAssumption DEF CaptureInv, ArrivalsAreBounded
<1> HIDE DEF m
<1>6. PICK p \in parsed_from(m, k) : data_dumped_add_event(p)
  BY <1>1
<1>7. p \in Parsed
  BY <1>1, <1>4, <1>5, <1>6, ParserAssumption
<1>8. p.tv = k /\ p.socket = c
  BY <1>1, <1>3, <1>4, <1>5, <1>6, ParsedFromSays DEF m
<1> DEFINE e == [seq_number |-> event_count,
                 has_device |-> p.device_address # NoAddress,
                 parsed     |-> p]
<1>9. /\ process = "running"
      /\ event_count' = event_count + 1
      /\ prepend_event(e)
  BY <1>6 DEF data_dumped_add_event
<1>10. StoreInv'
  BY <1>6, <1>7, AddEventKeepsInv DEF CaptureInv
<1>11. n \in Nat /\ event_count \in Nat /\ EventsLimit \in Nat \ {0}
  BY LenProperties, LimitAssumption, BoundAssumption
     DEF CaptureInv, StoreInv, StoreTypeOK
<1>12. /\ Len(events') = IF n = EventsLimit THEN n ELSE n + 1
       /\ \A i \in 1..Len(events') :
             events'[i] = IF i = 1 THEN e ELSE events[i - 1]
  <2>1. e \in Event /\ e.seq_number = event_count
    BY <1>7, <1>11 DEF Event
  <2> HIDE DEF e
  <2>2. QED
    BY <1>9, <2>1, PrependShiftsWindow DEF CaptureInv, StoreInv
<1>13. e.parsed = p
  OBVIOUS
<1>14. n = IF event_count < EventsLimit THEN event_count ELSE EventsLimit
  BY DEF CaptureInv, StoreInv, StoreWindow
<1> HIDE DEF e, n
(* The new array, element by element. *)
<1>15. /\ 1 \in 1..Len(events') /\ events'[1].parsed = p
       /\ \A i \in 1..Len(events') : i # 1 =>
             i - 1 \in 1..n /\ events'[i].parsed = events[i - 1].parsed
       /\ \A i \in 1..n : i # EventsLimit =>
             i + 1 \in 1..Len(events') /\ events'[i + 1].parsed = events[i].parsed
  <2>1. 1 \in 1..Len(events') /\ events'[1].parsed = p
    BY <1>11, <1>12, <1>13
  <2>2. ASSUME NEW i \in 1..Len(events'), i # 1
        PROVE  i - 1 \in 1..n /\ events'[i].parsed = events[i - 1].parsed
    <3>1. i - 1 \in 1..n
      BY <1>11, <1>12, <2>2
    <3>2. QED
      BY <1>12, <2>2, <3>1
  <2>3. ASSUME NEW i \in 1..n, i # EventsLimit
        PROVE  i + 1 \in 1..Len(events') /\ events'[i + 1].parsed = events[i].parsed
    <3>1. i + 1 \in 1..Len(events') /\ i + 1 # 1 /\ (i + 1) - 1 = i
      BY <1>11, <1>12, <1>14, <2>3
    <3>2. QED
      BY <1>12, <3>1
  <2>4. QED
    BY <2>1, <2>2, <2>3
(* What is known of the events that were there. *)
<1>16. ASSUME NEW i \in 1..n
       PROVE  /\ madeOfArrival(events[i].parsed)
              /\ events[i].parsed.tv \in 1..Len(arrivals)
              /\ events[i].parsed.tv # k
              /\ ~waits(events[i].parsed.tv)
              /\ events[i].parsed.socket = c => events[i].parsed.tv < k
  <2> DEFINE q == events[i].parsed
  <2>1. madeOfArrival(q) /\ ~waits(q.tv)
    BY DEF CaptureInv, StoredAreParsed, StoredAreTaken, n
  <2> HIDE DEF q
  <2>2. /\ q.tv \in 1..Len(arrivals)
        /\ ~arrivals[q.tv].runt
        /\ q \in parsed_from(arrivals[q.tv], q.tv)
    BY <2>1 DEF madeOfArrival
  <2>3. arrivals[q.tv] \in Message /\ q.tv \in Int
    BY <2>2, QueueTypes DEF CaptureInv
  <2>4. q.socket = arrivals[q.tv].channel
    BY <2>2, <2>3, ParsedFromSays
  <2>5. waits(k)
    <3>1. 1 \in 1..Len(socket[c]) /\ socket[c][1] = k
      BY <1>1, QueueTypes, EmptySeq DEF CaptureInv
    <3>2. QED
      BY <1>3, <3>1 DEF waits
  <2>6. QED
    BY <1>3, <2>1, <2>2, <2>4, <2>5 DEF q
<1>17. TypeOK' /\ ArrivalsAreBounded'
  BY <1>1, <1>2, <1>3, <1>10
     DEF CaptureInv, TypeOK, ArrivalsAreBounded, StoreInv, kernel
<1>18. StoredAreParsed' /\ StoredAreTaken'
  <2>1. ASSUME NEW i \in 1..Len(events'), NEW q, q = events'[i].parsed
        PROVE  madeOfArrival(q)' /\ ~waits(q.tv)'
    <3>1. CASE i = 1
      <4>1. q = p /\ q.tv = k
        BY <1>8, <1>15, <2>1, <3>1
      <4>2. madeOfArrival(q)'
        BY <1>1, <1>2, <1>3, <1>6, <4>1 DEF madeOfArrival, m
      <4>3. ~waits(k)'
        BY <1>3
      <4>4. QED
        BY <4>1, <4>2, <4>3
    <3>2. CASE i # 1
      <4>1. i - 1 \in 1..n /\ q = events[i - 1].parsed
        BY <1>15, <2>1, <3>2
      <4>2. madeOfArrival(q) /\ q.tv \in 1..Len(arrivals) /\ ~waits(q.tv)
        BY <1>16, <4>1
      <4>3. QED
        BY <1>2, <1>3, <4>2 DEF madeOfArrival
    <3>3. QED
      BY <3>1, <3>2
  <2>2. QED
    BY <2>1 DEF StoredAreParsed, StoredAreTaken, madeOfArrival, waits
<1>19. ChannelOrder'
  <2> SUFFICES ASSUME NEW i \in 1..Len(events'), NEW j \in 1..Len(events'),
                      i < j,
                      events'[i].parsed.socket = events'[j].parsed.socket
               PROVE  events'[i].parsed.tv > events'[j].parsed.tv
    BY DEF ChannelOrder
  <2>1. j # 1 /\ j - 1 \in 1..n /\ events'[j].parsed = events[j - 1].parsed
    BY <1>15
  <2>2. CASE i = 1
    <3>1. events'[i].parsed.tv = k /\ events[j - 1].parsed.socket = c
      BY <1>8, <1>15, <2>1, <2>2
    <3>2. events[j - 1].parsed.tv < k /\ events[j - 1].parsed.tv \in Int
      BY <1>16, <2>1, <3>1
    <3>3. QED
      BY <1>5, <2>1, <3>1, <3>2
  <2>3. CASE i # 1
    <3>1. /\ i - 1 \in 1..n /\ i - 1 < j - 1
          /\ events'[i].parsed = events[i - 1].parsed
      BY <1>15, <2>3
    <3>2. QED
      BY <2>1, <3>1 DEF CaptureInv, ChannelOrder, n
  <2>4. QED
    BY <2>2, <2>3
<1>20. MessagesAreAccountedFor'
  <2> SUFFICES ASSUME NEW j \in 1..Len(arrivals)
               PROVE  waits(j)' \/ arrivals'[j].runt \/ kept(j)' \/ leftStore(j)'
    BY <1>2 DEF MessagesAreAccountedFor
  <2>1. waits(j) \/ arrivals[j].runt \/ kept(j) \/ leftStore(j)
    BY <1>9 DEF CaptureInv, MessagesAreAccountedFor
  <2>2. CASE j = k
    <3>1. kept(k)'
      BY <1>8, <1>15 DEF kept
    <3>2. QED
      BY <2>2, <3>1
  <2>3. CASE waits(j) /\ j # k
    BY <1>3, <2>3
  <2>4. CASE arrivals[j].runt
    BY <1>2, <2>4
  <2>5. CASE kept(j)
    <3>1. PICK i \in 1..n : events[i].parsed.tv = j
      BY <2>5 DEF kept, n
    <3>2. CASE i # EventsLimit
      <4>1. i + 1 \in 1..Len(events') /\ events'[i + 1].parsed.tv = j
        BY <1>15, <3>1, <3>2
      <4>2. kept(j)'
        BY <4>1 DEF kept
      <4>3. QED
        BY <4>2
    <3>3. CASE i = EventsLimit
      <4>1. /\ n = EventsLimit /\ event_count' > EventsLimit
            /\ Len(events') = n
        BY <1>9, <1>11, <1>12, <1>14, <3>3
      <4>2. events[i].parsed.socket = arrivals[j].channel
        <5>1. madeOfArrival(events[i].parsed)
          BY <1>16
        <5>2. QED
          BY <3>1, <5>1, QueueTypes, ParsedFromSays
             DEF CaptureInv, madeOfArrival
      <4>3. ASSUME NEW l \in 1..Len(events'),
                   events'[l].parsed.socket = arrivals[j].channel
            PROVE  events'[l].parsed.tv > j
        <5>1. CASE l = 1
          <6>1. events'[l].parsed.tv = k /\ arrivals[j].channel = c
            BY <1>8, <1>15, <4>3, <5>1
          <6>2. j < k
            BY <1>16, <3>1, <4>2, <6>1
          <6>3. QED
            BY <1>5, <6>1, <6>2
        <5>2. CASE l # 1
          <6>1. /\ l - 1 \in 1..n /\ l - 1 < i
                /\ events'[l].parsed = events[l - 1].parsed
            BY <1>15, <3>3, <4>1, <5>2
          <6>2. QED
            BY <3>1, <4>2, <4>3, <6>1 DEF CaptureInv, ChannelOrder, n
        <5>3. QED
          BY <5>1, <5>2
      <4>4. leftStore(j)'
        BY <1>2, <4>1, <4>3 DEF leftStore
      <4>5. QED
        BY <4>4
    <3>4. QED
      BY <3>2, <3>3
  <2>6. CASE leftStore(j) /\ ~waits(j)
    <3>1. event_count' > EventsLimit
      BY <1>9, <1>11, <2>6 DEF leftStore
    <3>2. ASSUME NEW l \in 1..Len(events'),
                 events'[l].parsed.socket = arrivals[j].channel
          PROVE  events'[l].parsed.tv > j
      <4>1. CASE l = 1
        <5>1. events'[l].parsed.tv = k /\ arrivals[j].channel = c
          BY <1>8, <1>15, <3>2, <4>1
        <5>2. j < k
          BY <1>3, <2>6, <5>1
        <5>3. QED
          BY <1>5, <5>1, <5>2
      <4>2. CASE l # 1
        <5>1. l - 1 \in 1..n /\ events'[l].parsed = events[l - 1].parsed
          BY <1>15, <4>2
        <5>2. QED
          BY <2>6, <3>2, <5>1 DEF leftStore, n
      <4>3. QED
        BY <4>1, <4>2
    <3>3. leftStore(j)'
      BY <1>2, <3>1, <3>2 DEF leftStore
    <3>4. QED
      BY <3>3
  <2>7. QED
    BY <2>1, <2>2, <2>3, <2>4, <2>5, <2>6
<1>21. QED
  BY <1>3, <1>10, <1>17, <1>18, <1>19, <1>20 DEF CaptureInv

LEMMA NextKeepsCaptureInv == CaptureInv /\ [Next]_captureVars => CaptureInv'
<1> SUFFICES ASSUME CaptureInv, [Next]_captureVars PROVE CaptureInv'
  OBVIOUS
<1>1. CASE control_tracing
  BY <1>1, TracingKeepsCaptureInv
<1>2. CASE \E m \in Message : Arrive(m)
  BY <1>2, ArriveKeepsCaptureInv
<1>3. CASE \E c \in Channel : HangUp(c)
  BY <1>3, HangUpKeepsCaptureInv
<1>4. CASE \E c \in Channel : Callback(c)
  <2> PICK c \in Channel : Callback(c)
    BY <1>4
  <2>1. CASE RemoveWatch(c)
    BY <2>1, RemoveWatchKeepsCaptureInv
  <2>2. CASE data_callback(c)
    BY <2>2, CallbackKeepsCaptureInv
  <2>3. CASE ReceiveRunt(c)
    BY <2>3, RuntKeepsCaptureInv
  <2>4. CASE Receive(c)
    BY <2>4, ReceiveKeepsCaptureInv
  <2>5. CASE CrashInHandler(c)
    BY <2>5, CrashKeepsCaptureInv
  <2>6. CASE Drained(c)
    BY <2>6, DrainedKeepsCaptureInv
  <2>7. QED
    BY <2>1, <2>2, <2>3, <2>4, <2>5, <2>6 DEF Callback
<1>5. CASE UNCHANGED captureVars
  BY <1>5, SameStoreKeepsCaptureInv DEF captureVars, kernel, CaptureInv, TypeOK
<1>6. QED
  BY <1>1, <1>2, <1>3, <1>4, <1>5, DamageKeepsCaptureInv DEF Next

LEMMA CaptureInvHolds == Spec => []CaptureInv
BY InitEstablishesCaptureInv, NextKeepsCaptureInv, PTL DEF Spec

-----------------------------------------------------------------------------
(* What follows. *)

(* The sockets, the watches, the main loop and the store stay within the   *)
(* values the model gives them.                                            *)
THEOREM CaptureTypeCorrect == Spec => []TypeOK
<1>1. CaptureInv => TypeOK
  BY DEF CaptureInv
<1>2. QED
  BY CaptureInvHolds, <1>1, PTL

(* However the readings of the two sockets interleave, the stored events   *)
(* of a channel are in the order in which the kernel sent their messages.  *)
THEOREM CaptureKeepsChannelOrder == Spec => []ChannelOrder
<1>1. CaptureInv => ChannelOrder
  BY DEF CaptureInv
<1>2. QED
  BY CaptureInvHolds, <1>1, PTL

LEMMA AccountedIsNotLost == CaptureInv => LostOnlyToOverruns
<1> SUFFICES ASSUME CaptureInv,
                    ~\E j \in 1..Len(arrivals) :
                        taken(j) /\ isDangerous(arrivals[j]),
                    NEW k \in 1..Len(arrivals), taken(k)
             PROVE  inStore(k) \/ leftFullStore(k)
  BY DEF LostOnlyToOverruns
<1>1. ~Endangered
  BY QueuedWaits DEF Endangered, taken
<1>2. ~waits(k) /\ ~arrivals[k].runt
  BY QueuedWaits DEF taken
<1>3. kept(k) \/ leftStore(k)
  BY <1>1, <1>2 DEF CaptureInv, MessagesAreAccountedFor
<1>4. ToSet(events) = {events[i] : i \in 1..Len(events)}
  <2>1. events \in Seq(Event)
    BY DEF CaptureInv, TypeOK, StoreTypeOK
  <2>2. QED
    BY <2>1, LenProperties DEF ToSet
<1>5. QED
  BY <1>3, <1>4 DEF kept, leftStore, inStore, leftFullStore

(* What a stored event says, and of which message.                         *)
LEMMA StoredEventSays ==
    ASSUME CaptureInv, NEW i \in 1..Len(events)
    PROVE  /\ SaysOf(arrivals[events[i].parsed.tv], events[i].parsed)
           /\ events[i].has_device =
                 (events[i].parsed.device_address # NoAddress)
<1> DEFINE p == events[i].parsed
           m == arrivals[p.tv]
<1>1. madeOfArrival(p)
  BY DEF CaptureInv, StoredAreParsed
<1> HIDE DEF p
<1>2. p.tv \in 1..Len(arrivals) /\ ~m.runt /\ p \in parsed_from(m, p.tv)
  BY <1>1 DEF madeOfArrival
<1>3. m \in Message /\ p.tv \in Int
  BY <1>2, QueueTypes DEF CaptureInv
<1> HIDE DEF m
<1>4. SaysOf(m, p)
  BY <1>2, <1>3, ParsedFromSays
<1>5. events[i].has_device = (p.device_address # NoAddress)
  BY DEF CaptureInv, StoreInv, StoredDevicesAreKnown, p
<1>6. QED
  BY <1>4, <1>5 DEF p, m

(* The link drawing code never reads a comunication_type nobody wrote.     *)
THEOREM CaptureWritesArrowType == Spec => []ArrowTypeIsWritten
<1>1. CaptureInv => ArrowTypeIsWritten
  BY StoredEventSays DEF ArrowTypeIsWritten, SaysOf
<1>2. QED
  BY CaptureInvHolds, <1>1, PTL

(* A connection event can be paired by its address.                        *)
THEOREM CaptureNamesConnections == Spec => []ConnectionNamesDevice
<1>1. CaptureInv => ConnectionNamesDevice
  BY StoredEventSays DEF ConnectionNamesDevice, SaysOf
<1>2. QED
  BY CaptureInvHolds, <1>1, PTL

(* No event takes its address from another message or from beyond the end  *)
(* of its own, but one of an HCI event packet that ends after its header.  *)
THEOREM CaptureKeepsOwnAddress == Spec => []AddressIsOwn
<1>1. CaptureInv => AddressIsOwn
  BY StoredEventSays DEF AddressIsOwn, SaysOf, OwnAddress
<1>2. QED
  BY CaptureInvHolds, <1>1, PTL

(* The texts the screen prints were written, with the two exceptions the   *)
(* property names.                                                         *)
THEOREM CaptureWritesTexts == Spec => []TextsAreWritten
<1>1. CaptureInv => TextsAreWritten
  BY StoredEventSays DEF TextsAreWritten, SaysOf
<1>2. QED
  BY CaptureInvHolds, <1>1, PTL

(* A crash loses nothing that was taken before a message that overruns a   *)
(* buffer: every other one reaches the store.                              *)
THEOREM CaptureLosesOnlyToOverruns == Spec => []LostOnlyToOverruns
<1>1. CaptureInv => LostOnlyToOverruns
  BY AccountedIsNotLost
<1>2. QED
  BY CaptureInvHolds, <1>1, PTL

-----------------------------------------------------------------------------
(* The refinement. *)

(* A crash on a message is what the redraw of an unchanged store may do.   *)
LEMMA CrashIsStoreStep ==
    ASSUME CrashOfDamage \/ \E c \in Channel : CrashInHandler(c)
    PROVE  StoreNext
<1> DEFINE checks == [a \in {} |-> TRUE]
<1>1. /\ process = "running" /\ process' = "crashed"
      /\ UNCHANGED <<stored, devices, drawn>>
  BY DEF CrashInHandler, CrashOfDamage
<1>2. data_dumped_update
  BY <1>1 DEF data_dumped_update
<1>3. ApplyFilter(checks)
  <2>1. DOMAIN checks = {}
    OBVIOUS
  <2>2. devices_filter' = filter_set_active_device(
                              {a \in DOMAIN checks : checks[a]},
                              {a \in DOMAIN checks : ~checks[a]})
    BY <1>1, <2>1 DEF filter_set_active_device, devices
  <2>3. QED
    BY <1>1, <1>2, <2>2 DEF ApplyFilter, devices
<1>4. {} \in SUBSET connected_devices /\ checks \in [{} -> BOOLEAN]
  OBVIOUS
<1>5. QED
  BY <1>3, <1>4 DEF StoreNext

LEMMA ReceiveAddsParsed ==
    ASSUME CaptureInv, NEW c \in Channel, Receive(c)
    PROVE  \E p \in Parsed : data_dumped_add_event(p)
<1> PICK k : k = Head(socket[c])
  OBVIOUS
<1>1. /\ socket[c] # <<>>
      /\ ~arrivals[k].runt
      /\ \E p \in parsed_from(arrivals[k], k) : data_dumped_add_event(p)
  BY DEF Receive, take
<1>2. socket[c] \in Seq(1..Len(arrivals)) /\ Len(arrivals) \in Nat
  BY QueueTypes DEF CaptureInv
<1>3. k \in 1..Len(arrivals)
  BY <1>1, <1>2, HeadTailProperties
<1>4. k \in 1..MaxArrivals /\ arrivals[k] \in Message
  BY <1>2, <1>3, QueueTypes, ArrivalsAssumption
     DEF CaptureInv, ArrivalsAreBounded
<1>5. parsed_from(arrivals[k], k) \subseteq Parsed
  BY <1>1, <1>4, ParserAssumption
<1>6. QED
  BY <1>1, <1>5

LEMMA NextIsStoreStep ==
    ASSUME CaptureInv, [Next]_captureVars
    PROVE  [StoreNext]_storeVars
<1>1. CASE \E c \in Channel : Receive(c)
  BY <1>1, ReceiveAddsParsed DEF StoreNext
<1>2. CASE CrashOfDamage \/ \E c \in Channel : CrashInHandler(c)
  BY <1>2, CrashIsStoreStep
<1>3. CASE control_tracing
  BY <1>3 DEF control_tracing
<1>4. CASE \E m \in Message : Arrive(m)
  BY <1>4 DEF Arrive
<1>5. CASE \E c \in Channel :
              HangUp(c) \/ RemoveWatch(c) \/ data_callback(c)
              \/ ReceiveRunt(c) \/ Drained(c)
  BY <1>5 DEF HangUp, RemoveWatch, data_callback, ReceiveRunt, Drained
<1>6. CASE UNCHANGED captureVars
  BY <1>6 DEF captureVars
<1>7. QED
  BY <1>1, <1>2, <1>3, <1>4, <1>5, <1>6 DEF Next, Callback

(* Whatever the kernel sends and however the callbacks interleave, the     *)
(* store is driven through its own operations only, each with its redraw.  *)
THEOREM CaptureImplementsEventStore == Spec => ImplementsEventStore
<1>1. Init => StoreInit
  BY DEF Init
<1>2. CaptureInv /\ [Next]_captureVars => [StoreNext]_storeVars
  BY NextIsStoreStep
<1>3. QED
  BY CaptureInvHolds, <1>1, <1>2, PTL
     DEF Spec, ImplementsEventStore, StoreSpec

(* So the events the sockets bring are logged as EventLog promises.        *)
THEOREM CaptureImplementsEventLog == Spec => ImplementsEventLog
BY CaptureImplementsEventStore, StoreImplementsEventLog, PTL
   DEF ImplementsEventStore
=============================================================================

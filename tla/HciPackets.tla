------------------------------ MODULE HciPackets ------------------------------
(***************************************************************************)
(* The packets of the monitor channel (packet.c and parser.c): the events  *)
(* a packet m can become.  A packet is "short" when it does not even hold  *)
(* its HCI header, "header" when it ends after it and "full" otherwise;    *)
(* "long" when it has more than 976 bytes, which only ACL data can have.   *)
(***************************************************************************)
EXTENDS EventObject

BT_HCI_CMD_CREATE_CONN         == 1029  \* 0x0405
BT_HCI_CMD_ACCEPT_CONN_REQUEST == 1033  \* 0x0409
BT_HCI_EVT_INQUIRY_RESULT      == 2     \* 0x02
BT_HCI_EVT_CONN_COMPLETE       == 3     \* 0x03
BT_HCI_EVT_EXT_INQUIRY_RESULT  == 47    \* 0x2f

Uint16 == 0..65535      \* of an HCI opcode or event code in a packet

MonitorOpcode ==
    {"NEW_INDEX", "DEL_INDEX", "COMMAND_PKT", "EVENT_PKT", "ACL_TX_PKT",
     "ACL_RX_PKT", "SCO_TX_PKT", "SCO_RX_PKT"}

payload_elsewhere(m) ==  \* mutation: the address of another offset
    IF m.size = "full" THEN Address \ {m.address} ELSE Address

(* The address a parser reads from the payload.  No parser looks at the    *)
(* length: from a packet that ends before it, it reads what an earlier     *)
(* message, or nothing at all, left in the receive buffer.                 *)
payload_address(m) == IF m.size = "full" THEN {m.address} ELSE Address

-----------------------------------------------------------------------------
(* parser.c.  The parameter opcode of parser_command is a uint8_t.         *)

parser_hci_cmd_create_conn(m, e) ==
    {[e EXCEPT !.is_device_connection = TRUE, !.device_address = a]
        : a \in payload_address(m)}

parser_hci_cmd_accept_conn_request(m, e) ==
    {[e EXCEPT !.is_device_connection = TRUE, !.device_address = a]
        : a \in payload_address(m)}

parser_command(m, e, opcode) ==
    CASE opcode = BT_HCI_CMD_CREATE_CONN -> parser_hci_cmd_create_conn(m, e)
      [] opcode = BT_HCI_CMD_ACCEPT_CONN_REQUEST ->
            parser_hci_cmd_accept_conn_request(m, e)
      [] OTHER -> {e}

parser_hci_evt_inquiry_result(m, e) ==
    {[e EXCEPT !.device_address = a] : a \in payload_address(m)}

parser_hci_evt_ext_inquiry_result(m, e) ==
    {[e EXCEPT !.device_address = a] : a \in payload_address(m)}

parser_hci_evt_conn_complete(m, e) ==
    {[e EXCEPT !.device_address = a] : a \in payload_address(m)}

parser_event(m, e, opcode) ==
    CASE opcode = BT_HCI_EVT_INQUIRY_RESULT ->
            parser_hci_evt_inquiry_result(m, e)
      [] opcode = BT_HCI_EVT_EXT_INQUIRY_RESULT ->
            parser_hci_evt_ext_inquiry_result(m, e)
      [] opcode = BT_HCI_EVT_CONN_COMPLETE ->
            parser_hci_evt_conn_complete(m, e)
      [] OTHER -> {e}

-----------------------------------------------------------------------------
(* packet.c.  A malformed command or event keeps its empty texts, malformed *)
(* data gets a type; only events and ACL data say which way they went.      *)

described(e) == [e EXCEPT !.type_str = "text", !.name = "text"]
typed(e) == [e EXCEPT !.type_str = "text"]
output(e) == [e EXCEPT !.comunication_type = "EVENT_OUTPUT"]

packet_hci_command(m, e) ==
    IF m.size = "short" THEN {e}
    ELSE parser_command(m, described(e), m.code % 256)

event_without_type(m, e) ==  \* mutation: comunication_type is not set
    IF m.size = "short" THEN {e}
    ELSE parser_event(m, described(e), m.code)
packet_hci_event(m, e) ==
    IF m.size = "short" THEN {output(e)}
    ELSE parser_event(m, described(output(e)), m.code)

packet_hci_acldata(m, e) ==
    IF m.size = "short" THEN {typed(output(e))} ELSE {described(output(e))}

packet_hci_scodata(m, e) ==
    IF m.size = "short" THEN {typed(e)} ELSE {described(e)}

texts_left_out(e) == e  \* mutation: no text until the handler writes one
empty_texts(e) == [e EXCEPT !.type_str = "empty", !.name = "empty"]

(* The outcomes of packet_monitor before it stores the event.  New Index   *)
(* also copies the packet into index_list, which nothing reads.            *)
packet_monitor(m, e) ==
    CASE m.opcode = "COMMAND_PKT" -> packet_hci_command(m, empty_texts(e))
      [] m.opcode = "EVENT_PKT" -> packet_hci_event(m, empty_texts(e))
      [] m.opcode \in {"ACL_TX_PKT", "ACL_RX_PKT"} ->
            packet_hci_acldata(m, empty_texts(e))
      [] m.opcode \in {"SCO_TX_PKT", "SCO_RX_PKT"} ->
            packet_hci_scodata(m, empty_texts(e))
      [] OTHER -> {empty_texts(e)}

(* Does the dump of the packet go past the end of its buffer?  One of 976  *)
(* bytes still fits (HexDump, DumpFits).                                   *)
DumpOverruns(m) == m.opcode \in {"ACL_TX_PKT", "ACL_RX_PKT"} /\ m.size = "long"
=============================================================================

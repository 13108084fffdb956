------------------------------ MODULE MCCapture ------------------------------
(* Capture on two channels and two addresses. *)
EXTENDS Capture, TLC

MCParsed == ParsedUpTo(MaxArrivals)

message(channel, opcode, code, size, address) ==
    [channel |-> channel, runt |-> FALSE, opcode |-> opcode, code |-> code,
     size |-> size, address |-> address]

Runts ==
    {[channel |-> c, runt |-> TRUE, opcode |-> "UNKNOWN", code |-> 0,
      size |-> "short", address |-> NoAddress] : c \in Channel}

(* Every opcode, in every length the handlers tell apart. *)
EveryMessage ==
    {message("control", o, 0, s, a) :
        o \in ControlOpcode, s \in {"short", "full"}, a \in Address}
    \cup
    {message("monitor", o, 0, s, a) :
        o \in MonitorOpcode \ {"COMMAND_PKT", "EVENT_PKT"},
        s \in {"short", "header", "full"}, a \in Address}
    \cup
    {message("monitor", "COMMAND_PKT", c, s, a) :
        c \in {BT_HCI_CMD_CREATE_CONN, BT_HCI_CMD_ACCEPT_CONN_REQUEST, 1030},
        s \in {"short", "header", "full"}, a \in Address}
    \cup
    {message("monitor", "EVENT_PKT", c, s, a) :
        c \in {BT_HCI_EVT_INQUIRY_RESULT, BT_HCI_EVT_CONN_COMPLETE,
               BT_HCI_EVT_EXT_INQUIRY_RESULT, 14},
        s \in {"short", "header", "full"}, a \in Address}
    \cup
    {message("control", "LOCAL_NAME_CHANGED", 0, "long", a) : a \in Address}
    \cup
    {message("monitor", o, 0, "long", a) :
        o \in {"ACL_TX_PKT", "ACL_RX_PKT"}, a \in Address}
    \cup Runts
=============================================================================

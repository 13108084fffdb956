------------------------------- MODULE MCProgram -------------------------------
(* The program with a few messages of different effect and a dialog over *)
(* them.                                                                 *)
EXTENDS Program, TLC

message(channel, opcode, code, size, address) ==
    [channel |-> channel, runt |-> FALSE, opcode |-> opcode, code |-> code,
     size |-> size, address |-> address]

One == CHOOSE a \in Address : TRUE
Other == CHOOSE a \in Address : a # One

MCMessage ==
    {message("control", "DEVICE_CONNECTED", 0, "full", Other),
     message("control", "AUTH_FAILED", 0, "full", One),
     message("monitor", "EVENT_PKT", BT_HCI_EVT_CONN_COMPLETE,
             "full", One),
     message("monitor", "ACL_RX_PKT", 0, "long", One)}
    \cup
    {[channel |-> c, runt |-> TRUE, opcode |-> "UNKNOWN", code |-> 0,
      size |-> "short", address |-> NoAddress] : c \in Channel}

(* What the handlers and parsers make of them. *)
MCParsed == UNION {parsed_from(m, tv) :
                      m \in {n \in MCMessage : ~n.runt}, tv \in 1..MaxArrivals}
=============================================================================

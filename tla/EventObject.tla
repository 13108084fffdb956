----------------------------- MODULE EventObject -----------------------------
(***************************************************************************)
(* The object a parser fills in for each message (struct event_t in        *)
(* data_dumped.h, create_event_object in data_dumped.c).  It comes from    *)
(* malloc: a field nobody writes holds whatever the memory held, which is  *)
(* the value "unwritten" here.  A text is kept as empty or not.            *)
(***************************************************************************)
EXTENDS Integers

CONSTANTS
    Address,    \* the Bluetooth addresses that can appear in a message
    NoAddress   \* the empty string in event_t.device_address

ASSUME NoAddressAssumption == NoAddress \notin Address

Text == {"unwritten", "empty", "text"}

ComunicationType ==
    {"unwritten", "EVENT_INPUT", "EVENT_OUTPUT", "EVENT_CONNECTION"}

Channel == {"control", "monitor"}

create_event_object ==
    [socket               |-> "unwritten",
     tv                   |-> 0,
     device_address       |-> NoAddress,
     is_device_connection |-> FALSE,
     comunication_type    |-> "unwritten",
     type_str             |-> "unwritten",
     name                 |-> "unwritten"]

(* What an event can hold when the kernel has sent n messages: the time    *)
(* stamp of a message is its place in the order of arrival.                *)
ParsedUpTo(n) ==
    [socket               : Channel,
     tv                   : 1..n,
     device_address       : Address \cup {NoAddress},
     is_device_connection : BOOLEAN,
     comunication_type    : ComunicationType,
     type_str             : Text,
     name                 : Text]
=============================================================================

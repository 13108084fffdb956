----------------------------- MODULE MCLinkDiagram -----------------------------
(* LinkDiagram on a few events of a few devices. *)
EXTENDS LinkDiagram, TLC

(* What an event can hold: no device, a connection or disconnection of a   *)
(* device, or traffic with it in either direction.                         *)
MCParsed ==
    [device_address : {NoAddress}, is_device_connection : {FALSE},
     comunication_type : {"EVENT_OUTPUT"}]
    \cup
    [device_address : Address, is_device_connection : {TRUE},
     comunication_type : {"EVENT_CONNECTION"}]
    \cup
    [device_address : Address, is_device_connection : {FALSE},
     comunication_type : {"EVENT_INPUT", "EVENT_OUTPUT"}]

Symmetry == Permutations(Address)
=============================================================================

------------------------------- MODULE MCCanvas -------------------------------
(* Canvas with a device that has monitor packets of two types and control   *)
(* messages, room for two events, and one cell more than a redraw needs.    *)
EXTENDS Canvas, TLC

CONSTANT Device     \* the one address of the model

MCAddress == {Device}

MCParsed ==
    {[device_address |-> Device, socket |-> "monitor", type |-> "command"],
     [device_address |-> Device, socket |-> "monitor", type |-> "event"],
     [device_address |-> NoAddress, socket |-> "control", type |-> "other"]}

Symmetry == Permutations(Item)
=============================================================================

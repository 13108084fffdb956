----------------------------- MODULE MCEventStore -----------------------------
(* EventStore on three addresses, with room for three events. *)
EXTENDS EventStore, TLC

MCParsed == [device_address : Address \cup {NoAddress}]

Symmetry == Permutations(Address)
=============================================================================

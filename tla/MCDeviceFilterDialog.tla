------------------------- MODULE MCDeviceFilterDialog -------------------------
(* The store with its dialog on three addresses. *)
EXTENDS DeviceFilterDialog, TLC

MCParsed == [device_address : Address \cup {NoAddress}]

Symmetry == Permutations(Address)
=============================================================================

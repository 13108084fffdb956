------------------------------- MODULE MCHexDump -------------------------------
(* The dump of every frame up to the size of the receive buffer. *)
EXTENDS HexDump
=============================================================================

------------------------------ MODULE MCMainLoop ------------------------------
(* The main loop with a user who acts a few times and unbounded traffic. *)
EXTENDS MainLoop
=============================================================================

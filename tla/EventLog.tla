------------------------------- MODULE EventLog -------------------------------
(***************************************************************************)
(* What the event store promises the user: the newest Limit events are     *)
(* kept, every address ever seen is known, and the view is those kept      *)
(* events whose device the user has not hidden.  No array, no length and   *)
(* no filter table: an event is old by its number alone.                   *)
(***************************************************************************)
EXTENDS Integers

CONSTANTS
    Parsed,     \* the contents of an event
    NoAddress,  \* the address of an event that names no device
    Limit,      \* how many events are kept
    MaxCount    \* how many events ever arrive

VARIABLES
    alive,   \* the program has not crashed
    count,   \* events logged so far
    recent,  \* the kept events
    seen,    \* the known devices
    hidden,  \* the devices the user has switched off
    view     \* the events on the screen

vars == <<alive, count, recent, seen, hidden, view>>

AddressesOf(p) == {p.device_address} \ {NoAddress}

Init ==
    /\ alive = TRUE
    /\ count = 0
    /\ recent = {}
    /\ seen = {}
    /\ hidden = {}
    /\ view = {}

(* The view follows the log, or the program ends and the screen freezes. *)
Refresh ==
    \/ /\ view' = {e \in recent' : AddressesOf(e.parsed) \cap hidden' = {}}
       /\ UNCHANGED alive
    \/ /\ alive' = FALSE
       /\ UNCHANGED view

Log(p) ==
    LET e == [seq_number |-> count,
              has_device |-> p.device_address # NoAddress,
              parsed     |-> p]
    IN  /\ alive
        /\ count < MaxCount
        /\ count' = count + 1
        /\ recent' = {x \in recent \cup {e} : x.seq_number > count - Limit}
        /\ seen' = seen \cup AddressesOf(p)
        /\ UNCHANGED hidden
        /\ Refresh

Hide(H) ==
    /\ alive
    /\ hidden' = H
    /\ UNCHANGED <<count, recent, seen>>
    /\ Refresh

Next ==
    \/ \E p \in Parsed : Log(p)
    \/ \E H \in SUBSET seen : Hide(H)

Spec == Init /\ [][Next]_vars
=============================================================================

---------------------------- MODULE SequenceDiagram ----------------------------
(***************************************************************************)
(* What a redraw promises (diagram_update, diagram.c): the sequence        *)
(* diagram of the shown events, drawn link by link in any order.  An event *)
(* of a device gets one arrow, the connection events of a device are       *)
(* joined two by two as far as they go, and the diagram is done only when  *)
(* nothing is left out.  LinkDiagram implements it.                        *)
(*                                                                         *)
(* The one connection event that may be left over is not promised to be    *)
(* completed, nor in which column: that is what the code does.             *)
(***************************************************************************)
EXTENDS Naturals, FiniteSets

CONSTANTS
    Device,     \* the devices that can have a time line
    NoDevice    \* an event of no device

VARIABLES
    rows,       \* the shown events: the row and device of each, and whether
                \* it is a connection event
    arrows,     \* how many arrows each row has
    pairs,      \* the rows joined, two by two
    open,       \* the rows drawn as connections without an end
    done        \* is the diagram complete?

vars == <<rows, arrows, pairs, open, done>>

Row == [row : Nat, device : Device \cup {NoDevice}, connection : BOOLEAN]

traffic == {r \in rows : r.device # NoDevice /\ ~r.connection}
connections == {r \in rows : r.device # NoDevice /\ r.connection}
joined(r) == \E p \in pairs : r.row \in p

Init ==
    /\ rows \in SUBSET Row
    /\ arrows = [r \in {s.row : s \in rows} |-> 0]
    /\ pairs = {}
    /\ open = {}
    /\ done = FALSE

DrawArrow(r) ==
    /\ ~done
    /\ r \in traffic
    /\ arrows[r.row] = 0
    /\ arrows' = [arrows EXCEPT ![r.row] = 1]
    /\ UNCHANGED <<rows, pairs, open, done>>

Join(r, s) ==
    /\ ~done
    /\ {r, s} \subseteq connections
    /\ r # s
    /\ r.device = s.device
    /\ ~joined(r) /\ ~joined(s)
    /\ pairs' = pairs \cup {{r.row, s.row}}
    /\ UNCHANGED <<rows, arrows, open, done>>

(* A connection event left over when the rest of its device's are joined. *)
Leave(r) ==
    /\ ~done
    /\ r \in connections
    /\ r.row \notin open
    /\ \A s \in connections : s.device = r.device => (joined(s) <=> s # r)
    /\ open' = open \cup {r.row}
    /\ UNCHANGED <<rows, arrows, pairs, done>>

Finish ==
    /\ ~done
    /\ \A r \in traffic : arrows[r.row] = 1
    /\ \A r, s \in connections :
          r.device = s.device /\ ~joined(r) /\ ~joined(s) => r = s
    /\ done' = TRUE
    /\ UNCHANGED <<rows, arrows, pairs, open>>

Next ==
    \/ \E r \in rows : DrawArrow(r) \/ Leave(r)
    \/ \E r, s \in rows : Join(r, s)
    \/ Finish

Spec == Init /\ [][Next]_vars /\ WF_vars(Next)
=============================================================================

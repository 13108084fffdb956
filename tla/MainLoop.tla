------------------------------- MODULE MainLoop -------------------------------
(***************************************************************************)
(* The program around the store: the start-up in main.c and UI_init        *)
(* (UI.c), the iterations of the GLib main loop over the two sockets and   *)
(* the window system, and the two ways out of it.                          *)
(*                                                                         *)
(* Each iteration collects the sources that are ready and dispatches every *)
(* one of them, in the order in which they were attached, before the loop  *)
(* looks whether it was told to quit.  A socket's callback draws for every *)
(* message and returns only when it finds the socket empty.  The kernel's  *)
(* traffic is unbounded: of a socket only whether it holds a message is    *)
(* kept.                                                                   *)
(***************************************************************************)
EXTENDS Naturals, Sequences, SequencesExt

CONSTANT MaxInput   \* bound of the model: what the user does in all

ASSUME InputAssumption == MaxInput \in Nat

VARIABLES
    main,        \* how far main() is: "starting", "tracing", "ready",
                 \* "looping", "returned", or "exited" by gtk_init
    process,     \* "running" or "crashed"
    sources,     \* the sources of the loop, as attached
    pending,     \* those this iteration has still to dispatch, a set
    is_running,  \* what g_main_quit clears
    queued,      \* does the socket of a channel hold a message?
    hangup,      \* has the kernel reported an error or hang-up of it?
    reading,     \* the channel data_callback is emptying, or "none"
    gdk,         \* the input waiting in the connection to the X server
    inputs,      \* how often the user did something
    asked,       \* the input handled last, or "none"
    code,        \* the statements on_destroy_event has still to run
    window,      \* "none", "alive", "in_destruction" or "gone"
    diagram,     \* the canvas widget: "none", "alive" or "gone"
    stray        \* was gtk_widget_destroy called on a widget that is gone?

loop == <<sources, pending, is_running>>
kernel == <<queued, hangup>>
user == <<gdk, inputs, asked>>
widgets == <<window, diagram, stray>>
vars == <<main, process, loop, kernel, reading, user, code, widgets>>

Channel == {"monitor", "control"}
Input == {"click", "quit", "close"}

Init ==
    /\ main = "starting"
    /\ process = "running"
    /\ sources = <<>>
    /\ pending = {}
    /\ is_running = FALSE
    /\ queued = [c \in Channel |-> FALSE]
    /\ hangup = [c \in Channel |-> FALSE]
    /\ reading = "none"
    /\ gdk = <<>>
    /\ inputs = 0
    /\ asked = "none"
    /\ code = <<>>
    /\ window = "none"
    /\ diagram = "none"
    /\ stray = FALSE

-----------------------------------------------------------------------------
(* Start-up. *)

ui_before_tracing(s) == <<s>> \o sources  \* mutation: UI_init runs first

(* A new source goes to the end of the list. *)
attach(s) == Append(sources, s)

(* The watches main starts with: the monitor's is opened first. *)
watches == {<<>>, <<"monitor">>, <<"control">>, <<"monitor", "control">>}

(* A channel that cannot be opened gets no watch, and main goes on. *)
control_tracing ==
    /\ main = "starting"
    /\ main' = "tracing"
    /\ sources' \in watches
    /\ UNCHANGED <<process, pending, is_running, kernel, reading, user, code,
                   widgets>>

(* gtk_init exits the program when there is no display. *)
UI_init ==
    /\ main = "tracing"
    /\ \/ /\ main' = "ready"
          /\ sources' = attach("gdk")
          /\ window' = "alive"
          /\ diagram' = "alive"
       \/ /\ main' = "exited"
          /\ UNCHANGED <<sources, window, diagram>>
    /\ UNCHANGED <<process, pending, is_running, kernel, reading, user, code,
                   stray>>

g_main_loop_run ==
    /\ main = "ready"
    /\ main' = "looping"
    /\ is_running' = TRUE
    /\ UNCHANGED <<process, sources, pending, kernel, reading, user, code,
                   widgets>>

-----------------------------------------------------------------------------
(* What goes on around the program. *)

Arrive(c) ==
    /\ c \in ToSet(sources)
    /\ queued' = [queued EXCEPT ![c] = TRUE]
    /\ UNCHANGED <<main, process, loop, hangup, reading, user, code, widgets>>

HangUp(c) ==
    /\ c \in ToSet(sources)
    /\ hangup' = [hangup EXCEPT ![c] = TRUE]
    /\ UNCHANGED <<main, process, loop, queued, reading, user, code, widgets>>

(* A click on a box or a menu, the Quit item, or the button that closes    *)
(* the window.                                                             *)
UserActs(i) ==
    /\ window = "alive"
    /\ inputs < MaxInput
    /\ inputs' = inputs + 1
    /\ gdk' = Append(gdk, i)
    /\ UNCHANGED <<main, process, loop, kernel, reading, asked, code, widgets>>

-----------------------------------------------------------------------------
(* An iteration of the main loop. *)

ready(s) == IF s = "gdk" THEN gdk # <<>> ELSE queued[s] \/ hangup[s]

sockets_first ==  \* mutation: the watches have a higher priority
    LET channels == {c \in ToSet(sources) \cap Channel : ready(c)}
    IN  IF channels # {} THEN channels ELSE {s \in ToSet(sources) : ready(s)}

(* All these sources have the default priority. *)
collected == {s \in ToSet(sources) : ready(s)}

free == process = "running" /\ main = "looping" /\ reading = "none" /\ code = <<>>

Iterate ==
    /\ free
    /\ pending = {}
    /\ is_running
    /\ pending' = collected
    /\ pending' # {}
    /\ UNCHANGED <<main, process, sources, is_running, kernel, reading, user,
                   code, widgets>>

(* g_main_loop_run returns, and main with it. *)
Return ==
    /\ free
    /\ pending = {}
    /\ ~is_running
    /\ main' = "returned"
    /\ UNCHANGED <<process, loop, kernel, reading, user, code, widgets>>

(* The source at place k is the first of those that are pending. *)
is_next(k) ==
    /\ sources[k] \in pending
    /\ \A l \in 1..(k - 1) : sources[l] \notin pending

dispatch(s) ==
    /\ free
    /\ \E k \in DOMAIN sources : sources[k] = s /\ is_next(k)
    /\ pending' = pending \ {s}

RemoveWatch(c) ==
    /\ dispatch(c)
    /\ hangup[c]
    /\ \E k \in DOMAIN sources :
          sources[k] = c /\ sources' = RemoveAt(sources, k)
    /\ UNCHANGED <<main, process, is_running, kernel, reading, user, code,
                   widgets>>

data_callback(c) ==
    /\ dispatch(c)
    /\ ~hangup[c]
    /\ reading' = c
    /\ UNCHANGED <<main, process, sources, is_running, kernel, user, code,
                   widgets>>

(* A message is taken, parsed and drawn, a crash being possible (Capture). *)
(* It may not be the last one.                                             *)
Receive(c) ==
    /\ process = "running"
    /\ reading = c
    /\ queued[c]
    /\ \E more \in BOOLEAN : queued' = [queued EXCEPT ![c] = more]
    /\ process' \in {"running", "crashed"}
    /\ UNCHANGED <<main, loop, hangup, reading, user, code, widgets>>

(* The socket is empty, or the message taken was a runt. *)
EndReading(c) ==
    /\ process = "running"
    /\ reading = c
    /\ IF queued[c] THEN \E more \in BOOLEAN :
                             queued' = [queued EXCEPT ![c] = more]
                    ELSE UNCHANGED queued
    /\ reading' = "none"
    /\ UNCHANGED <<main, process, loop, hangup, user, code, widgets>>

-----------------------------------------------------------------------------
(* Quitting. *)

(* on_destroy_event with destroy_widgets in it.  gtk_main_quit, the last   *)
(* statement, only complains: no gtk_main runs.                            *)
handler_never_quits == <<"destroy_window", "destroy_diagram">>  \* mutation

destroys_window_twice ==  \* mutation
    <<"destroy_window", "destroy_window", "destroy_diagram", "g_main_quit">>
on_destroy_event == <<"destroy_window", "destroy_diagram", "g_main_quit">>

delete_event_connected ==  \* mutation: the handler answers this one too
    on_destroy_event \o <<"destroy_window">>

(* GTK answers the close button with the destruction of the window. *)
delete_event == <<"destroy_window">>

(* One event of the X connection is handled; what is addressed to a window *)
(* that is gone is dropped.                                                *)
gdk_event_dispatch ==
    /\ dispatch("gdk")
    /\ gdk' = Tail(gdk)
    /\ asked' = Head(gdk)
    /\ code' = CASE window # "alive"     -> <<>>
                 [] Head(gdk) = "click" -> <<>>
                 [] Head(gdk) = "quit"  -> on_destroy_event
                 [] Head(gdk) = "close" -> delete_event
    /\ UNCHANGED <<main, process, sources, is_running, kernel, reading, inputs,
                   widgets>>

runs(statement) ==
    /\ process = "running"
    /\ code # <<>>
    /\ Head(code) = statement

(* gtk_widget_destroy(window) emits "destroy", which runs on_destroy_event *)
(* (again, when it came from there), before the window and all it contains *)
(* go.  On a window in destruction it does nothing.                        *)
DestroyWindow ==
    /\ runs("destroy_window")
    /\ \/ /\ window = "alive"
          /\ window' = "in_destruction"
          /\ code' = on_destroy_event \o <<"window_gone">> \o Tail(code)
       \/ /\ window = "in_destruction"
          /\ code' = Tail(code)
          /\ UNCHANGED window
    /\ UNCHANGED <<main, process, loop, kernel, reading, user, diagram, stray>>

WindowGone ==
    /\ runs("window_gone")
    /\ window' = "gone"
    /\ diagram' = "gone"
    /\ code' = Tail(code)
    /\ UNCHANGED <<main, process, loop, kernel, reading, user, stray>>

(* gtk_widget_destroy(diagram); for a diagram that is gone it is a warning *)
(* or a crash.                                                             *)
DestroyDiagram ==
    /\ runs("destroy_diagram")
    /\ code' = Tail(code)
    /\ diagram' = "gone"
    /\ stray' = (stray \/ diagram = "gone")
    /\ \/ UNCHANGED process
       \/ diagram = "gone" /\ process' = "crashed"
    /\ UNCHANGED <<main, loop, kernel, reading, user, window>>

g_main_quit ==
    /\ runs("g_main_quit")
    /\ code' = Tail(code)
    /\ is_running' = FALSE
    /\ UNCHANGED <<main, process, sources, pending, kernel, reading, user,
                   widgets>>

-----------------------------------------------------------------------------
StartUp == control_tracing \/ UI_init \/ g_main_loop_run

Callback(c) ==
    RemoveWatch(c) \/ data_callback(c) \/ Receive(c) \/ EndReading(c)

Quitting == DestroyWindow \/ WindowGone \/ DestroyDiagram \/ g_main_quit

Program ==
    \/ StartUp
    \/ Iterate
    \/ Return
    \/ \E c \in Channel : Callback(c)
    \/ gdk_event_dispatch
    \/ Quitting

Next ==
    \/ Program
    \/ \E c \in Channel : Arrive(c) \/ HangUp(c)
    \/ \E i \in Input : UserActs(i)

(* The program goes on; kernel and user owe it nothing. *)
Spec == Init /\ [][Next]_vars /\ WF_vars(Program)

-----------------------------------------------------------------------------
Statement == {"destroy_window", "destroy_diagram", "g_main_quit", "window_gone"}
Source == Channel \cup {"gdk"}

(* The loop, its sources and the widgets (main.c, UI.c).  Two calls of the *)
(* handler are the most that are ever nested.                              *)
TypeOK ==
    /\ main \in {"starting", "tracing", "ready", "looping", "returned", "exited"}
    /\ process \in {"running", "crashed"}
    /\ sources \in Seq(Source) /\ IsInjective(sources)
    /\ pending \subseteq ToSet(sources)
    /\ is_running \in BOOLEAN
    /\ queued \in [Channel -> BOOLEAN]
    /\ hangup \in [Channel -> BOOLEAN]
    /\ reading \in Channel \cup {"none"}
    /\ gdk \in Seq(Input)
    /\ inputs \in 0..MaxInput
    /\ asked \in Input \cup {"none"}
    /\ code \in Seq(Statement) /\ Len(code) <= 6
    /\ window \in {"none", "alive", "in_destruction", "gone"}
    /\ diagram \in {"none", "alive", "gone"}
    /\ stray \in BOOLEAN

(* A callback draws on the canvas only while there is one: neither before  *)
(* UI_init has made it, though the watches exist by then, nor between the  *)
(* destruction of the canvas and the end of the loop, though the iteration *)
(* that handles Quit goes on to dispatch every source it collected.  It is *)
(* main's order, control_tracing before UI_init, that puts the sockets     *)
(* before the window system.                                               *)
DrawsOnLiveCanvas == reading # "none" => diagram = "alive"

(* Closing the window by its button never passes a widget that is gone to  *)
(* GTK: only the Quit item, whose handler runs a second time inside the    *)
(* first, comes back to a diagram that the second one destroyed.           *)
ClosingIsClean == stray => asked = "quit"

(* The user is served although both sockets stay busy: an input that waits *)
(* is handled, so long as the reading of a socket always ends some time    *)
(* (data_callback reads until it finds the socket empty, and a kernel that *)
(* always queues faster keeps it there).                                   *)
ReadingEnds == []<>(reading = "none")
Stopped == process = "crashed" \/ main \in {"returned", "exited"}
UserIsServed == ReadingEnds => (gdk # <<>> ~> gdk = <<>> \/ Stopped)

(* Quit and the close button end the program: g_main_quit reaches the loop *)
(* that main runs, under the same condition.                               *)
QuitEnds ==
    ReadingEnds =>
        ((\E i \in DOMAIN gdk : gdk[i] \in {"quit", "close"}) ~> Stopped)
=============================================================================

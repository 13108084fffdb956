-------------------------------- MODULE Program --------------------------------
(***************************************************************************)
(* The running program: the capture of messages (Capture) and the filter   *)
(* dialog (DeviceFilterDialog) on one event store.                         *)
(*                                                                         *)
(* Both are callbacks of one main loop.  The user's clicks are handled     *)
(* between two readings of the sockets and never during one: a reading     *)
(* keeps the dialog on the screen as it is until its socket is empty.      *)
(***************************************************************************)
EXTENDS Capture

VARIABLES device_filters_dialog, devices_check      \* of DeviceFilterDialog

Dialog == INSTANCE DeviceFilterDialog

captureRest == <<main, watch, kernel, socket, reading>>
dialog == <<device_filters_dialog, devices_check>>
programVars == <<captureVars, dialog>>

ProgramInit == Init /\ Dialog!Init

(* The main loop waits for input. *)
clicks_are_handled == idle

UserActs ==
    /\ clicks_are_handled
    /\ \/ Dialog!create_device_filters_dialog
       \/ \E a \in Address : Dialog!Toggle(a)
       \/ Dialog!on_device_dialog_response
    /\ UNCHANGED captureRest

MessagesFlow == Next /\ UNCHANGED dialog

ProgramNext == MessagesFlow \/ UserActs

(* The program's side of the sockets goes on, whatever the user does. *)
ProgramSpec ==
    /\ ProgramInit
    /\ [][ProgramNext]_programVars
    /\ WF_programVars(control_tracing /\ UNCHANGED dialog)
    /\ \A c \in Channel : WF_programVars(Callback(c) /\ UNCHANGED dialog)

-----------------------------------------------------------------------------
(* All the state of the two parts. *)
ProgramTypeOK == TypeOK /\ Dialog!TypeOK

(* The events made of message k that are on the screen. *)
onScreen(k) == {e \in events_list : e.parsed.tv = k}

hiddenByUser(k) ==
    \E e \in ToSet(events) :
        /\ e.parsed.tv = k
        /\ e.has_device
        /\ e.parsed.device_address \in connected_devices \ devices_filter

(* What the user sees is what the kernel sent: whenever the program runs,  *)
(* every whole message it has taken off a socket is on the screen exactly  *)
(* once, unless the user has switched its device off or enough later ones  *)
(* have pushed it out of the store.                                        *)
ScreenIsComplete ==
    process = "running" =>
        \A k \in DOMAIN arrivals :
            /\ Cardinality(onScreen(k)) <= 1
            /\ taken(k) => \/ onScreen(k) # {}
                           \/ hiddenByUser(k)
                           \/ leftFullStore(k)

(* A message that arrives reaches the screen, however the user works on    *)
(* the dialog meanwhile, unless it is hidden or pushed out, and a runt is  *)
(* at least taken off its socket: a callback loses its watch only to a     *)
(* hang-up, and only a crash stops it (data_callback).                     *)
MessagesReachTheScreen ==
    \A k \in 1..MaxArrivals :
        k \in DOMAIN arrivals ~>
            /\ k \in DOMAIN arrivals
            /\ \/ onScreen(k) # {}
               \/ arrivals[k].runt /\ ~queued(k)
               \/ hiddenByUser(k)
               \/ leftFullStore(k)
               \/ hangup[arrivals[k].channel]
               \/ process = "crashed"

(* The dialog does not notice where the events come from: the program with *)
(* its sockets behaves as the dialog over an arbitrary stream of events,   *)
(* but for a crash that a message brings about.                            *)
ImplementsDialog ==
    /\ Dialog!Init
    /\ [][\/ Dialog!Next
          \/ /\ process' = "crashed"
             /\ UNCHANGED <<stored, devices, drawn, dialog>>]_(Dialog!vars)
===============================================================================

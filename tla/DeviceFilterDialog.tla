-------------------------- MODULE DeviceFilterDialog --------------------------
(***************************************************************************)
(* The device filter dialog (device_filter_dialog.c) on top of the event   *)
(* store.  The dialog is not modal: it shows the devices known when it was *)
(* opened, and events, with new devices among them, go on arriving while   *)
(* the user works on its check boxes.                                      *)
(***************************************************************************)
EXTENDS EventStore

VARIABLES
    device_filters_dialog,  \* is the dialog on the screen?
    devices_check           \* the state of each check box, by address

dialog == <<device_filters_dialog, devices_check>>
vars == <<storeVars, dialog>>

(* The hash table of a closed dialog: no check box. *)
NoChecks == [a \in {} |-> FALSE]

Init ==
    /\ StoreInit
    /\ device_filters_dialog = FALSE
    /\ devices_check = NoChecks

-----------------------------------------------------------------------------
(* The item of the Filters menu; choosing it while the dialog is open does *)
(* nothing.  Every box starts as filter_is_device_active says.             *)
create_device_filters_dialog ==
    /\ process = "running"
    /\ ~device_filters_dialog
    /\ device_filters_dialog' = TRUE
    /\ devices_check' = [a \in connected_devices |-> a \in devices_filter]
    /\ UNCHANGED storeVars

(* The user clicks one box.  Nothing of the program runs: GTK keeps the    *)
(* state of the box.                                                       *)
Toggle(a) ==
    /\ process = "running"
    /\ a \in DOMAIN devices_check
    /\ devices_check' = [devices_check EXCEPT ![a] = ~@]
    /\ UNCHANGED <<storeVars, device_filters_dialog>>

response_keeps_boxes ==  \* mutation: the table of boxes is not reset
    /\ device_filters_dialog
    /\ ApplyFilter(devices_check)
    /\ device_filters_dialog' = (process' = "crashed")
    /\ UNCHANGED devices_check

response_without_redraw ==  \* mutation: no data_dumped_update
    /\ process = "running"
    /\ device_filters_dialog
    /\ devices_filter' =
           filter_set_active_device(
               {a \in DOMAIN devices_check : devices_check[a]},
               {a \in DOMAIN devices_check : ~devices_check[a]})
    /\ UNCHANGED <<process, stored, connected_devices, drawn>>
    /\ device_filters_dialog' = FALSE
    /\ devices_check' = NoChecks

(* OK, Escape and the close button all emit "response".  The boxes go to   *)
(* the filter and the diagram is redrawn before the dialog is destroyed:   *)
(* when the redraw crashes, the dialog is still there.                     *)
on_device_dialog_response ==
    /\ device_filters_dialog
    /\ ApplyFilter(devices_check)
    /\ IF process' = "running"
       THEN /\ device_filters_dialog' = FALSE
            /\ devices_check' = NoChecks
       ELSE UNCHANGED dialog

AddEvent(p) ==
    /\ data_dumped_add_event(p)
    /\ UNCHANGED dialog

Next ==
    \/ \E p \in Parsed : AddEvent(p)
    \/ create_device_filters_dialog
    \/ \E a \in Address : Toggle(a)
    \/ on_device_dialog_response

Spec == Init /\ [][Next]_vars

-----------------------------------------------------------------------------
(* The dialog and its boxes (device_filter_dialog.c, the two statics). *)
TypeOK ==
    /\ StoreTypeOK
    /\ device_filters_dialog \in BOOLEAN
    /\ DOMAIN devices_check \subseteq Address
    /\ devices_check \in [DOMAIN devices_check -> BOOLEAN]

(* The response handler looks every box's address up among the connected   *)
(* devices and hands the result to the filter unchecked: whatever arrived  *)
(* while the dialog was open, each box still names a known device.         *)
BoxesNameKnownDevices ==
    /\ DOMAIN devices_check \subseteq connected_devices
    /\ ~device_filters_dialog => devices_check = NoChecks

(* The filter only follows the user: a device is switched off only by its  *)
(* unticked box, and switched on only by its ticked box or because this    *)
(* very step discovered it.  In particular a device discovered while the   *)
(* dialog was open keeps its place when the dialog is confirmed, and a     *)
(* device switched off is not switched on again by its own traffic.        *)
FilterFollowsUser ==
    [][\A a \in Address :
         /\ a \in devices_filter /\ a \notin devices_filter' =>
              a \in DOMAIN devices_check /\ ~devices_check[a]
         /\ a \notin devices_filter /\ a \in devices_filter' =>
              \/ a \in DOMAIN devices_check /\ devices_check[a]
              \/ a \in connected_devices' \ connected_devices
      ]_vars

(* Closing the dialog applies it: once a running program has no dialog any *)
(* more, the filter agrees with every box as the user left it.             *)
ClosingApplies ==
    [][device_filters_dialog /\ ~device_filters_dialog' =>
         \A a \in DOMAIN devices_check :
             (a \in devices_filter') = devices_check[a]
      ]_vars

(* The dialog drives the store only through the store's own operations. *)
ImplementsEventStore == StoreSpec
=============================================================================

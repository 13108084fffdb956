----------------------- MODULE DeviceFilterDialogProofs -----------------------
(***************************************************************************)
(* Theorems about the store together with its filter dialog.  The dialog   *)
(* is shown to use the store only through the store's own operations, so   *)
(* every theorem of EventStoreProofs holds of the whole.                   *)
(***************************************************************************)
EXTENDS DeviceFilterDialog, EventStoreProofs

(* The invariant: response may be driven by any boxes whatever as long as  *)
(* they name known devices, which needs nothing else of the store.         *)
DialogInv ==
    /\ BoxesNameKnownDevices
    /\ devices_check \in [DOMAIN devices_check -> BOOLEAN]
    /\ device_filters_dialog \in BOOLEAN

LEMMA DialogInitEstablishesInv == Init => DialogInv
BY DEF Init, DialogInv, BoxesNameKnownDevices, NoChecks

LEMMA DialogStepKeepsInv == DialogInv /\ [Next]_vars => DialogInv'
<1> SUFFICES ASSUME DialogInv, [Next]_vars PROVE DialogInv'
  OBVIOUS
<1> USE DEF DialogInv, BoxesNameKnownDevices
<1>1. ASSUME NEW p \in Parsed, AddEvent(p) PROVE DialogInv'
  <2>1. connected_devices \subseteq connected_devices' /\ UNCHANGED dialog
    BY <1>1 DEF AddEvent, data_dumped_add_event, search_device_in_event,
                devices
  <2>2. QED
    BY <2>1 DEF dialog
<1>2. CASE create_device_filters_dialog
  BY <1>2 DEF create_device_filters_dialog, storeVars, devices
<1>3. ASSUME NEW a \in Address, Toggle(a) PROVE DialogInv'
  <2>1. /\ DOMAIN devices_check' = DOMAIN devices_check
        /\ devices_check' \in [DOMAIN devices_check -> BOOLEAN]
    BY <1>3 DEF Toggle
  <2>2. a \in DOMAIN devices_check /\ device_filters_dialog
    BY <1>3 DEF Toggle, NoChecks
  <2>3. QED
    BY <1>3, <2>1, <2>2 DEF Toggle, storeVars, devices
<1>4. CASE on_device_dialog_response
  BY <1>4 DEF on_device_dialog_response, ApplyFilter, NoChecks, dialog
<1>5. CASE UNCHANGED vars
  BY <1>5 DEF vars, storeVars, devices, dialog
<1>6. QED
  BY <1>1, <1>2, <1>3, <1>4, <1>5 DEF Next

LEMMA DialogInvHolds == Spec => []DialogInv
BY DialogInitEstablishesInv, DialogStepKeepsInv, PTL DEF Spec

(* Whatever arrives while the dialog is open, its boxes name known devices. *)
THEOREM DialogBoxesAreKnown == Spec => []BoxesNameKnownDevices
<1>1. DialogInv => BoxesNameKnownDevices
  BY DEF DialogInv
<1>2. QED
  BY DialogInvHolds, <1>1, PTL

(* The dialog drives the store through the store's operations only. *)
THEOREM DialogImplementsEventStore == Spec => ImplementsEventStore
<1>1. Init => StoreInit
  BY DEF Init
<1>2. DialogInv /\ [Next]_vars => [StoreNext]_storeVars
  <2> SUFFICES ASSUME DialogInv, [Next]_vars PROVE [StoreNext]_storeVars
    OBVIOUS
  <2>1. CASE on_device_dialog_response
    <3>1. ApplyFilter(devices_check)
      BY <2>1 DEF on_device_dialog_response
    <3>2. /\ DOMAIN devices_check \in SUBSET connected_devices
          /\ devices_check \in [DOMAIN devices_check -> BOOLEAN]
      BY DEF DialogInv, BoxesNameKnownDevices
    <3>3. QED
      BY <3>1, <3>2 DEF StoreNext
  <2>2. QED
    BY <2>1 DEF Next, AddEvent, create_device_filters_dialog, Toggle,
                StoreNext, vars
<1>3. QED
  BY DialogInvHolds, <1>1, <1>2, PTL DEF Spec, StoreSpec, ImplementsEventStore

(* The values of the store and of the dialog stay within their ranges. *)
THEOREM DialogTypeCorrect == Spec => []TypeOK
<1>1. StoreTypeOK /\ DialogInv => TypeOK
  BY DEF DialogInv, BoxesNameKnownDevices, StoreTypeOK, TypeOK
<1>2. QED
  BY DialogImplementsEventStore, StoreTypeCorrect, DialogInvHolds, <1>1, PTL
     DEF ImplementsEventStore

(* The composed program, dialog included, implements the event log. *)
THEOREM DialogImplementsEventLog == Spec => ImplementsEventLog
BY DialogImplementsEventStore, StoreImplementsEventLog, PTL
   DEF ImplementsEventStore

(* A device is switched off only by its unticked box, and on only by its   *)
(* ticked box or by being discovered in that very step.                    *)
THEOREM DialogFilterFollowsUser == Spec => FilterFollowsUser
<1> DEFINE Follows ==
      \A a \in Address :
         /\ a \in devices_filter /\ a \notin devices_filter' =>
              a \in DOMAIN devices_check /\ ~devices_check[a]
         /\ a \notin devices_filter /\ a \in devices_filter' =>
              \/ a \in DOMAIN devices_check /\ devices_check[a]
              \/ a \in connected_devices' \ connected_devices
<1>1. [Next]_vars => [Follows]_vars
  <2> SUFFICES ASSUME Next PROVE Follows
    OBVIOUS
  <2>1. ASSUME NEW p \in Parsed, AddEvent(p) PROVE Follows
    BY <2>1 DEF AddEvent, data_dumped_add_event, search_device_in_event,
                filter_set_active_device, devices
  <2>2. CASE on_device_dialog_response
    BY <2>2 DEF on_device_dialog_response, ApplyFilter,
                filter_set_active_device
  <2>3. CASE UNCHANGED storeVars
    BY <2>3 DEF storeVars, devices
  <2>4. QED
    BY <2>1, <2>2, <2>3 DEF Next, create_device_filters_dialog, Toggle
<1>2. QED
  BY <1>1, PTL DEF Spec, FilterFollowsUser

(* Closing the dialog leaves the filter as its boxes say, whatever was     *)
(* added since it was opened.                                              *)
THEOREM DialogClosingApplies == Spec => ClosingApplies
<1> DEFINE Applied ==
      device_filters_dialog /\ ~device_filters_dialog' =>
         \A a \in DOMAIN devices_check :
             (a \in devices_filter') = devices_check[a]
<1>1. DialogInv /\ [Next]_vars => [Applied]_vars
  <2> SUFFICES ASSUME DialogInv, Next, device_filters_dialog,
                      ~device_filters_dialog',
                      NEW a \in DOMAIN devices_check
               PROVE  (a \in devices_filter') = devices_check[a]
    OBVIOUS
  <2>1. CASE on_device_dialog_response
    <3>1. devices_filter' =
             (devices_filter \cup {b \in DOMAIN devices_check : devices_check[b]})
                \ {b \in DOMAIN devices_check : ~devices_check[b]}
      BY <2>1 DEF on_device_dialog_response, ApplyFilter,
                  filter_set_active_device
    <3>2. devices_check[a] \in BOOLEAN
      BY DEF DialogInv
    <3>3. QED
      BY <3>1, <3>2
  <2>2. CASE UNCHANGED device_filters_dialog
    BY <2>2
  <2>3. QED
    BY <2>1, <2>2 DEF Next, AddEvent, create_device_filters_dialog, Toggle,
                      dialog
<1>2. QED
  BY DialogInvHolds, <1>1, PTL DEF Spec, ClosingApplies
=============================================================================

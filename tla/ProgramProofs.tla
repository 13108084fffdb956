----------------------------- MODULE ProgramProofs -----------------------------
(***************************************************************************)
(* Theorems about the whole program: the sockets, the store and the dialog *)
(* together.  The capture brings its invariant from CaptureProofs; the     *)
(* dialog adds that its boxes name known devices.                          *)
(***************************************************************************)
EXTENDS Program, CaptureProofs, FiniteSetTheorems

ProgramInv ==
    /\ CaptureInv
    /\ Dialog!BoxesNameKnownDevices
    /\ device_filters_dialog \in BOOLEAN
    /\ devices_check \in [DOMAIN devices_check -> BOOLEAN]

-----------------------------------------------------------------------------
(* The dialog works on the store of the program: its copies of the store's *)
(* operations are the store's.                                             *)

LEMMA DialogUpdates == Dialog!data_dumped_update <=> data_dumped_update
BY DEF data_dumped_update, diagram_update, filter_events, filter_devices,
       filter_event_by_device, drawn,
       Dialog!data_dumped_update, Dialog!diagram_update,
       Dialog!filter_events, Dialog!filter_devices,
       Dialog!filter_event_by_device, Dialog!drawn

LEMMA DialogApplies ==
    ASSUME NEW checks
    PROVE  Dialog!ApplyFilter(checks) <=> ApplyFilter(checks)
BY DialogUpdates
   DEF ApplyFilter, filter_set_active_device, stored,
       Dialog!ApplyFilter, Dialog!filter_set_active_device, Dialog!stored

LEMMA DialogAdds ==
    ASSUME NEW p, data_dumped_add_event(p)
    PROVE  Dialog!data_dumped_add_event(p)
<1>1. ASSUME NEW e PROVE Dialog!prepend_event(e) <=> prepend_event(e)
  BY DEF prepend_event, Cons, RemoveAt,
         Dialog!prepend_event, Dialog!Cons, Dialog!RemoveAt
<1>2. ASSUME NEW e
      PROVE  Dialog!search_device_in_event(e) <=> search_device_in_event(e)
  BY DEF search_device_in_event, filter_set_active_device, devices,
         Dialog!search_device_in_event, Dialog!filter_set_active_device,
         Dialog!devices
<1>3. QED
  BY <1>1, <1>2, DialogUpdates
     DEF data_dumped_add_event, Dialog!data_dumped_add_event

LEMMA DialogVariables ==
    /\ UNCHANGED Dialog!storeVars <=> UNCHANGED storeVars
    /\ UNCHANGED Dialog!dialog <=> UNCHANGED dialog
    /\ UNCHANGED Dialog!vars <=> UNCHANGED <<storeVars, dialog>>
BY DEF storeVars, stored, devices, drawn, dialog,
       Dialog!vars, Dialog!storeVars, Dialog!stored, Dialog!devices,
       Dialog!drawn, Dialog!dialog

-----------------------------------------------------------------------------
LEMMA ProgramInitEstablishesInv == ProgramInit => ProgramInv
BY InitEstablishesCaptureInv
   DEF ProgramInit, ProgramInv, Dialog!Init, Dialog!BoxesNameKnownDevices,
       Dialog!NoChecks

(* While messages flow, the boxes stay as they are and no device is lost. *)
LEMMA FlowKeepsProgramInv ==
    ASSUME ProgramInv, [Next]_captureVars, UNCHANGED dialog
    PROVE  ProgramInv'
<1>1. CaptureInv'
  BY NextKeepsCaptureInv DEF ProgramInv
<1>2. [StoreNext]_storeVars
  BY NextIsStoreStep DEF ProgramInv
<1>3. connected_devices \subseteq connected_devices'
  BY <1>2 DEF StoreNext, data_dumped_add_event, search_device_in_event,
              ApplyFilter, storeVars, devices
<1>4. QED
  BY <1>1, <1>3 DEF ProgramInv, Dialog!BoxesNameKnownDevices, Dialog!NoChecks,
                    dialog

(* The user's clicks leave the sockets alone.                              *)
LEMMA ClickKeepsProgramInv ==
    ASSUME ProgramInv, UserActs
    PROVE  ProgramInv'
<1>1. /\ UNCHANGED captureRest
      /\ UNCHANGED <<socket, arrivals>>
      /\ main' \in {"starting", "running", "exited"}
      /\ watch' \in [Channel -> {"none", "on", "removed", "failed"}]
      /\ hangup' \in [Channel -> BOOLEAN]
      /\ reading' \in Channel \cup {"none"}
  BY DEF UserActs, captureRest, kernel, ProgramInv, CaptureInv, TypeOK
<1>2. ASSUME UNCHANGED storeVars
      PROVE  CaptureInv' /\ connected_devices' = connected_devices
  BY <1>1, <1>2, SameStoreKeepsCaptureInv DEF ProgramInv, storeVars, devices
<1>3. CASE Dialog!create_device_filters_dialog
  BY <1>2, <1>3, DialogVariables
     DEF Dialog!create_device_filters_dialog, Dialog!BoxesNameKnownDevices,
         ProgramInv
<1>4. ASSUME NEW a \in Address, Dialog!Toggle(a)
      PROVE  ProgramInv'
  <2>1. CaptureInv' /\ connected_devices' = connected_devices
    BY <1>2, <1>4, DialogVariables DEF Dialog!Toggle
  <2>2. /\ DOMAIN devices_check' = DOMAIN devices_check
        /\ devices_check' \in [DOMAIN devices_check -> BOOLEAN]
    BY <1>4 DEF Dialog!Toggle, ProgramInv
  <2>3. device_filters_dialog /\ UNCHANGED device_filters_dialog
    BY <1>4 DEF Dialog!Toggle, Dialog!NoChecks, ProgramInv,
                Dialog!BoxesNameKnownDevices
  <2>4. QED
    BY <2>1, <2>2, <2>3 DEF ProgramInv, Dialog!BoxesNameKnownDevices
<1>5. CASE Dialog!on_device_dialog_response
  <2>1. ApplyFilter(devices_check)
    BY <1>5, DialogApplies DEF Dialog!on_device_dialog_response
  <2>2. DOMAIN devices_check \subseteq connected_devices
    BY DEF ProgramInv, Dialog!BoxesNameKnownDevices
  <2>3. /\ StoreInv'
        /\ UNCHANGED <<stored, connected_devices>>
        /\ process = "running"
    BY <2>1, <2>2, ApplyFilterKeepsInv DEF ApplyFilter, ProgramInv, CaptureInv
  <2>4. CaptureInv'
    BY <1>1, <2>3, SameEventsKeepCaptureInv DEF ProgramInv
  <2>5. QED
    BY <1>5, <2>3, <2>4
       DEF Dialog!on_device_dialog_response, Dialog!BoxesNameKnownDevices,
           Dialog!NoChecks, Dialog!dialog, ProgramInv
<1>6. QED
  BY <1>3, <1>4, <1>5 DEF UserActs

LEMMA ProgramStepKeepsInv ==
    ProgramInv /\ [ProgramNext]_programVars => ProgramInv'
<1> SUFFICES ASSUME ProgramInv, [ProgramNext]_programVars PROVE ProgramInv'
  OBVIOUS
<1>1. CASE MessagesFlow
  BY <1>1, FlowKeepsProgramInv DEF MessagesFlow
<1>2. CASE UserActs
  BY <1>2, ClickKeepsProgramInv
<1>3. CASE UNCHANGED programVars
  BY <1>3, FlowKeepsProgramInv DEF programVars
<1>4. QED
  BY <1>1, <1>2, <1>3 DEF ProgramNext

LEMMA ProgramInvHolds == ProgramSpec => []ProgramInv
BY ProgramInitEstablishesInv, ProgramStepKeepsInv, PTL DEF ProgramSpec

-----------------------------------------------------------------------------
(* All the state of the program stays within its ranges.                   *)
THEOREM ProgramTypeCorrect == ProgramSpec => []ProgramTypeOK
<1>1. ProgramInv => ProgramTypeOK
  <2> SUFFICES ASSUME ProgramInv PROVE ProgramTypeOK
    OBVIOUS
  <2>1. TypeOK /\ StoreTypeOK
    BY DEF ProgramInv, CaptureInv, TypeOK
  <2>2. Dialog!StoreTypeOK
    BY <2>1 DEF StoreTypeOK, Event, Dialog!StoreTypeOK, Dialog!Event
  <2>3. DOMAIN devices_check \subseteq Address
    BY <2>1 DEF ProgramInv, Dialog!BoxesNameKnownDevices, StoreTypeOK
  <2>4. QED
    BY <2>1, <2>2, <2>3 DEF ProgramInv, ProgramTypeOK, Dialog!TypeOK
<1>2. QED
  BY ProgramInvHolds, <1>1, PTL

(* The user's clicks between two readings do not disturb the order of the  *)
(* stored events of a channel.                                             *)
THEOREM ProgramKeepsChannelOrder == ProgramSpec => []ChannelOrder
<1>1. ProgramInv => ChannelOrder
  BY DEF ProgramInv, CaptureInv
<1>2. QED
  BY ProgramInvHolds, <1>1, PTL

(* A message is made into one event at most. *)
LEMMA OneEventPerMessage ==
    ASSUME CaptureInv,
           NEW i \in 1..Len(events), NEW j \in 1..Len(events),
           events[i].parsed.tv = events[j].parsed.tv
    PROVE  i = j
<1> DEFINE k == events[i].parsed.tv
<1>1. madeOfArrival(events[i].parsed)
  BY DEF CaptureInv, StoredAreParsed
<1>2. k \in Int
  BY <1>1 DEF madeOfArrival
<1>3. events[i].parsed.socket = arrivals[k].channel
  BY StoredEventSays DEF SaysOf
<1>4. events[j].parsed.socket = arrivals[k].channel
  BY StoredEventSays DEF SaysOf
<1> HIDE DEF k
<1>5. ~(i < j) /\ ~(j < i)
  BY <1>2, <1>3, <1>4 DEF CaptureInv, ChannelOrder, k
<1>6. QED
  BY <1>5

(* Whatever the user does on the dialog while messages come in: what has   *)
(* been taken off a socket is on the screen exactly once, unless its       *)
(* device is switched off or later events have pushed it out.              *)
THEOREM ProgramScreenIsComplete == ProgramSpec => []ScreenIsComplete
<1>1. ProgramInv => ScreenIsComplete
  <2> SUFFICES ASSUME ProgramInv, process = "running",
                      NEW k \in DOMAIN arrivals
               PROVE  /\ Cardinality(onScreen(k)) <= 1
                      /\ taken(k) => \/ onScreen(k) # {}
                                     \/ hiddenByUser(k)
                                     \/ leftFullStore(k)
    BY DEF ScreenIsComplete
  <2>1. CaptureInv /\ StoreInv
    BY DEF ProgramInv, CaptureInv
  <2>2. arrivals \in Seq(Message) /\ events \in Seq(Event)
    BY <2>1 DEF CaptureInv, TypeOK, StoreTypeOK
  <2>3. k \in 1..Len(arrivals)
    BY <2>2, LenProperties
  <2>4. ToSet(events) = {events[i] : i \in 1..Len(events)}
    BY <2>2, LenProperties DEF ToSet
  <2>5. /\ devices_hash = connected_devices \cap devices_filter
        /\ events_list = {e \in ToSet(events) :
               e.has_device => e.parsed.device_address \in devices_hash}
    BY <2>1 DEF StoreInv, DiagramIsCurrent
  <2>6. Cardinality(onScreen(k)) <= 1
    <3>1. \A e, f \in onScreen(k) : e = f
      BY <2>1, <2>4, <2>5, OneEventPerMessage DEF onScreen
    <3>2. onScreen(k) = {} \/ \E e : onScreen(k) = {e}
      BY <3>1
    <3>3. Cardinality({}) = 0
      BY FS_EmptySet
    <3>4. \A e : Cardinality({e}) = 1
      BY FS_Singleton
    <3>5. QED
      BY <3>2, <3>3, <3>4
  <2>7. ASSUME taken(k)
        PROVE  onScreen(k) # {} \/ hiddenByUser(k) \/ leftFullStore(k)
    <3>1. ~waits(k) /\ ~arrivals[k].runt
      BY <2>1, <2>3, <2>7, QueuedWaits DEF taken
    <3>2. kept(k) \/ leftStore(k)
      BY <2>1, <2>3, <3>1 DEF CaptureInv, MessagesAreAccountedFor
    <3>3. CASE kept(k)
      <4>1. PICK i \in 1..Len(events) : events[i].parsed.tv = k
        BY <3>3 DEF kept
      <4>2. events[i].has_device =>
                events[i].parsed.device_address \in connected_devices
        BY <2>1 DEF StoreInv, StoredDevicesAreKnown
      <4>3. events[i] \in ToSet(events)
        BY <2>4
      <4>4. CASE events[i].has_device =>
                     events[i].parsed.device_address \in devices_hash
        BY <2>5, <4>1, <4>3, <4>4 DEF onScreen
      <4>5. CASE /\ events[i].has_device
                 /\ events[i].parsed.device_address \notin devices_hash
        BY <2>5, <4>1, <4>2, <4>3, <4>5 DEF hiddenByUser
      <4>6. QED
        BY <4>4, <4>5
    <3>4. CASE leftStore(k)
      BY <2>4, <3>4 DEF leftStore, leftFullStore
    <3>5. QED
      BY <3>2, <3>3, <3>4
  <2>8. QED
    BY <2>6, <2>7
<1>2. QED
  BY ProgramInvHolds, <1>1, PTL

(* Nor do the user's clicks cost a message, or a crash one that was stored *)
(* before it.                                                              *)
THEOREM ProgramLosesOnlyToOverruns == ProgramSpec => []LostOnlyToOverruns
<1>1. ProgramInv => LostOnlyToOverruns
  BY AccountedIsNotLost DEF ProgramInv
<1>2. QED
  BY ProgramInvHolds, <1>1, PTL

(* The dialog cannot tell the sockets from any other source of events, but *)
(* for a crash that a message brings about; so its own theorems hold of    *)
(* the program as long as none does.                                       *)
THEOREM ProgramImplementsDialog == ProgramSpec => ImplementsDialog
<1> DEFINE Crash == /\ process' = "crashed"
                    /\ UNCHANGED <<stored, devices, drawn, dialog>>
<1>1. ProgramInit => Dialog!Init
  BY DEF ProgramInit
<1>2. ProgramInv /\ [ProgramNext]_programVars
      => [Dialog!Next \/ Crash]_(Dialog!vars)
  <2> SUFFICES ASSUME ProgramInv, [ProgramNext]_programVars
               PROVE  Dialog!Next \/ Crash \/ UNCHANGED Dialog!vars
    OBVIOUS
  <2>1. ASSUME MessagesFlow, NEW c \in Channel, Receive(c)
        PROVE  Dialog!Next
    <3>1. PICK p \in Parsed : data_dumped_add_event(p)
      BY <2>1, ReceiveAddsParsed DEF ProgramInv
    <3>2. Dialog!AddEvent(p)
      BY <2>1, <3>1, DialogAdds, DialogVariables
         DEF Dialog!AddEvent, MessagesFlow
    <3>3. QED
      BY <3>2 DEF Dialog!Next
  <2>2. ASSUME MessagesFlow,
               CrashOfDamage \/ \E c \in Channel : CrashInHandler(c)
        PROVE  Crash
    BY <2>2 DEF CrashInHandler, CrashOfDamage, MessagesFlow
  <2>3. ASSUME UNCHANGED dialog, UNCHANGED storeVars
        PROVE  UNCHANGED Dialog!vars
    BY <2>3, DialogVariables
  <2>4. CASE MessagesFlow
    BY <2>1, <2>2, <2>3, <2>4
       DEF MessagesFlow, Next, Callback, control_tracing, Arrive, HangUp,
           RemoveWatch, data_callback, ReceiveRunt, Drained
  <2>5. CASE UserActs
    BY <2>5 DEF UserActs, Dialog!Next
  <2>6. CASE UNCHANGED programVars
    BY <2>3, <2>6 DEF programVars, captureVars
  <2>7. QED
    BY <2>4, <2>5, <2>6 DEF ProgramNext
<1>3. QED
  BY ProgramInvHolds, <1>1, <1>2, PTL DEF ProgramSpec, ImplementsDialog
=============================================================================

----------------------------- MODULE MgmtMessages -----------------------------
(***************************************************************************)
(* The messages of the control channel (control.c): what each handler      *)
(* writes into the event e for a message m.  A message carries its opcode, *)
(* the address its payload names and its length: "short" when the payload  *)
(* is smaller than the structure the handler reads, "long" when it tells   *)
(* of a name too long for the event.                                       *)
(***************************************************************************)
EXTENDS EventObject

shown(e, title, detail) == [e EXCEPT !.type_str = title, !.name = detail]

(* The check at the head of every handler but the first two. *)
sized(m, e, parsed) == IF m.size = "short" THEN shown(e, "text", "empty")
                                           ELSE parsed

about(m, e) == [shown(e, "text", "text") EXCEPT !.device_address = m.address]

anonymous(m, e) == sized(m, e, shown(e, "text", "text"))
addressed(m, e) == sized(m, e, about(m, e))

(* Device Connected and Device Disconnected are connection events. *)
connection(m, e) ==
    sized(m, e, [about(m, e) EXCEPT !.is_device_connection = TRUE])

-----------------------------------------------------------------------------
mgmt_index_added(m, e)          == shown(e, "text", "empty")
mgmt_index_removed(m, e)        == shown(e, "text", "empty")
mgmt_controller_error(m, e)     == anonymous(m, e)
mgmt_new_settings(m, e)         == sized(m, e, [e EXCEPT !.type_str = "text"])
mgmt_class_of_dev_changed(m, e) == anonymous(m, e)
mgmt_new_link_key(m, e)         == addressed(m, e)
mgmt_local_name_changed(m, e)   == anonymous(m, e)
mgmt_new_long_term_key(m, e)    == addressed(m, e)
connected_unsized(m, e) ==  \* mutation: marked before the length is checked
    [sized(m, e, about(m, e)) EXCEPT !.is_device_connection = TRUE]
mgmt_device_connected(m, e)     == connection(m, e)
mgmt_device_disconnected(m, e)  == connection(m, e)
mgmt_connect_failed(m, e)       == addressed(m, e)
mgmt_pin_code_request(m, e)     == addressed(m, e)
mgmt_user_confirm_request(m, e) == addressed(m, e)
mgmt_user_passkey_request(m, e) == addressed(m, e)
mgmt_auth_failed(m, e)          == addressed(m, e)
mgmt_device_found(m, e)         == addressed(m, e)
mgmt_discovering(m, e)          == anonymous(m, e)
mgmt_device_blocked(m, e)       == addressed(m, e)
mgmt_device_unblocked(m, e)     == addressed(m, e)
mgmt_device_unpaired(m, e)      == addressed(m, e)

ControlOpcode ==
    {"INDEX_ADDED", "INDEX_REMOVED", "CONTROLLER_ERROR", "NEW_SETTINGS",
     "CLASS_OF_DEV_CHANGED", "LOCAL_NAME_CHANGED", "NEW_LINK_KEY",
     "NEW_LONG_TERM_KEY", "DEVICE_CONNECTED", "DEVICE_DISCONNECTED",
     "CONNECT_FAILED", "PIN_CODE_REQUEST", "USER_CONFIRM_REQUEST",
     "USER_PASSKEY_REQUEST", "AUTH_FAILED", "DEVICE_FOUND", "DISCOVERING",
     "DEVICE_BLOCKED", "DEVICE_UNBLOCKED", "DEVICE_UNPAIRED", "UNKNOWN"}

(* An opcode without a handler leaves the type unwritten. *)
unknown(e) == [e EXCEPT !.name = "text"]

dispatch(m, e) ==
    CASE m.opcode = "INDEX_ADDED"          -> mgmt_index_added(m, e)
      [] m.opcode = "INDEX_REMOVED"        -> mgmt_index_removed(m, e)
      [] m.opcode = "CONTROLLER_ERROR"     -> mgmt_controller_error(m, e)
      [] m.opcode = "NEW_SETTINGS"         -> mgmt_new_settings(m, e)
      [] m.opcode = "CLASS_OF_DEV_CHANGED" -> mgmt_class_of_dev_changed(m, e)
      [] m.opcode = "LOCAL_NAME_CHANGED"   -> mgmt_local_name_changed(m, e)
      [] m.opcode = "NEW_LINK_KEY"         -> mgmt_new_link_key(m, e)
      [] m.opcode = "NEW_LONG_TERM_KEY"    -> mgmt_new_long_term_key(m, e)
      [] m.opcode = "DEVICE_CONNECTED"     -> mgmt_device_connected(m, e)
      [] m.opcode = "DEVICE_DISCONNECTED"  -> mgmt_device_disconnected(m, e)
      [] m.opcode = "CONNECT_FAILED"       -> mgmt_connect_failed(m, e)
      [] m.opcode = "PIN_CODE_REQUEST"     -> mgmt_pin_code_request(m, e)
      [] m.opcode = "USER_CONFIRM_REQUEST" -> mgmt_user_confirm_request(m, e)
      [] m.opcode = "USER_PASSKEY_REQUEST" -> mgmt_user_passkey_request(m, e)
      [] m.opcode = "AUTH_FAILED"          -> mgmt_auth_failed(m, e)
      [] m.opcode = "DEVICE_FOUND"         -> mgmt_device_found(m, e)
      [] m.opcode = "DISCOVERING"          -> mgmt_discovering(m, e)
      [] m.opcode = "DEVICE_BLOCKED"       -> mgmt_device_blocked(m, e)
      [] m.opcode = "DEVICE_UNBLOCKED"     -> mgmt_device_unblocked(m, e)
      [] m.opcode = "DEVICE_UNPAIRED"      -> mgmt_device_unpaired(m, e)
      [] m.opcode = "UNKNOWN"              -> unknown(e)

control_message(m, e) ==
    [dispatch(m, e) EXCEPT !.comunication_type = "EVENT_CONNECTION"]

-----------------------------------------------------------------------------
(* What a handler reads and writes past the end of. *)

FrameSize == 1028       \* HCI_MAX_FRAME_SIZE, the buffer of data_callback
AuthFailedSize == 8     \* sizeof(struct mgmt_ev_auth_failed)

(* The length is a uint16_t, and mgmt_auth_failed takes the size of its    *)
(* structure off it twice; the kernel sends the structure and no more.     *)
auth_failed_rest == (AuthFailedSize - 2 * AuthFailedSize) % 65536

connected_wraps(m) ==  \* mutation: the same slip in another handler
    m.opcode \in {"AUTH_FAILED", "DEVICE_CONNECTED"} /\ m.size = "full"

(* Does the handler read past the end of the receive buffer?  What it then *)
(* finds is outside the program: it may print it or it may crash.          *)
ReadsPastFrame(m) ==
    /\ m.opcode = "AUTH_FAILED"
    /\ m.size = "full"
    /\ auth_failed_rest > FrameSize

(* The kernel's two names make a text of up to 262 characters in name[128] *)
(* of the event.  A "long" one has more than 135 and reaches the pointer   *)
(* attributes, which is used next.                                         *)
NameOverruns(m) == m.opcode = "LOCAL_NAME_CHANGED" /\ m.size = "long"
=============================================================================

---------------------------- MODULE DevicesUser32 ----------------------------
(***************************************************************************)
(* The input devices of the Windows build (devices_user32.cpp) with the    *)
(* window procedure that calls them (window_user32.cpp): while hardware    *)
(* input is on the window is told of raw input devices that arrive and go  *)
(* and of their input; otherwise keys and buttons are those of the window, *)
(* reported as device 0.                                                   *)
(*                                                                         *)
(* The message loop runs on the window's thread, the switches on the       *)
(* console's, and a message posted before a switch is handled after it: a  *)
(* device that came before the raw input was unregistered is added though  *)
(* hardware input is off, one that went is removed though it was lost with *)
(* all of them.  A switch comes between two handlers of the window here.   *)
(* The code does not see to that ("which thread are we executing this in?  *)
(* it should be the same one as for add/remove_device"): what the two do   *)
(* to the vector at the same time is left out.                             *)
(***************************************************************************)
EXTENDS Devices

CONSTANTS
    Handles,        \* raw input devices
    HandleType,     \* Handles -> "RIM_TYPEMOUSE", "RIM_TYPEKEYBOARD" or "RIM_TYPEHID"
    ScanCodes,      \* scan codes
    ScanName,       \* ScanCodes -> the button of sc_to_button, or INVALID
    VirtualName,    \* the button of vk_to_button for any of them
    max_player,     \* largest id of a device
    MaxChanges32,   \* bound: arrivals and removals
    MaxSwitches32,  \* bound: calls of the switches
    MaxQueue32      \* bound: inputs wait while ui has this many messages to pop

ASSUME HandlesAssumption == IsFiniteSet(Handles)
ASSUME NamesAssumption == ScanName \in [ScanCodes -> Button] /\ VirtualName \in Button

VARIABLES
    plugged,        \* Handles there are
    messages,       \* WM_INPUT_DEVICE_CHANGE messages the window has not got yet
    registered,     \* RegisterRawInputDevices is in force
    hardware32,     \* hardware_input
    devices32,      \* the vector of handle and id
    formats,        \* the vector of formats: the handle each was read from
    next_id32,
    io32, known32,  \* devices.cpp with the queue to ui, and what ui made of it
    alive32,        \* between create_subsystem and destroy_subsystem
    overlapped32,   \* history: hardware input was switched off with messages under way
    broken32,       \* a device was removed that is not in devices: nothing is known of the vectors
    changes32, switches32

u32World == <<plugged, changes32>>
u32Devices == <<devices32, formats, next_id32>>
u32Switch == <<registered, hardware32, alive32, overlapped32, switches32>>
u32Vars == <<u32World, messages, u32Devices, u32Switch, io32, known32, broken32>>

\* RIDEV_DEVNOTIFY: the window is told of every device there is, then of changes.
RegisterRawInputDevices(there) ==
    LET handles == SetToSeq(there)
    IN [i \in 1 .. Cardinality(there) |-> [change |-> "GIDC_ARRIVAL", handle |-> handles[i]]]

\* create_subsystem, with hardware input on or off.
U32Init ==
    /\ plugged \in SUBSET Handles
    /\ hardware32 \in {0, 1}
    /\ registered = (hardware32 = 1)
    /\ messages = IF registered THEN RegisterRawInputDevices(plugged) ELSE <<>>
    /\ devices32 = <<>>
    /\ formats = <<>>
    /\ next_id32 = 1
    /\ io32 = found_device(NoDevices, 0)
    /\ known32 = <<>>
    /\ alive32 = TRUE
    /\ overlapped32 = FALSE
    /\ broken32 = FALSE
    /\ changes32 = 0
    /\ switches32 = 0

-----------------------------------------------------------------------------
(* The scan code names the button, or else the virtual key.                *)

get_button32(scan_code) == IF ScanName[scan_code] # INVALID THEN ScanName[scan_code] ELSE VirtualName

-----------------------------------------------------------------------------
(* The world.                                                              *)

Change32(there, change, handle) ==
    /\ changes32 < MaxChanges32
    /\ plugged' = there
    /\ messages' = IF registered THEN Append(messages, [change |-> change, handle |-> handle]) ELSE messages
    /\ changes32' = changes32 + 1
    /\ UNCHANGED <<u32Devices, u32Switch, io32, known32, broken32>>

Arrive(h) == h \notin plugged /\ Change32(plugged \cup {h}, "GIDC_ARRIVAL", h)
Leave(h) == h \in plugged /\ Change32(plugged \ {h}, "GIDC_REMOVAL", h)

-----------------------------------------------------------------------------
(* WM_INPUT_DEVICE_CHANGE.                                                 *)

\* Where the device is, or 0.
IndexOf(h) ==
    LET found == {i \in 1 .. Len(devices32) : devices32[i].handle = h}
    IN IF found = {} THEN 0 ELSE CHOOSE i \in found : \A j \in found : i <= j

\* What is read of a device: of a hid device the fields of its reports, of the others
\* nothing.  Only whose it is matters.
FormatOf(h) == h

\* Device(handle) takes the next id, also when devices has the handle already (an
\* assert of the code).  Every type is found with one source, without a path.
add_device32(h) ==
    /\ next_id32 <= max_player
    /\ devices32' = Append(devices32, [handle |-> h, id |-> next_id32])
    /\ formats' = Append(formats, FormatOf(h))
    /\ next_id32' = next_id32 + 1
    /\ io32' = add_source(found_device(io32, next_id32), next_id32, "")
    /\ UNCHANGED broken32

\* A device that was never added is not found, an assert of the code, and the end of
\* the vector is read and erased.
remove_device32(h) ==
    LET i == IndexOf(h)
    IN \/ /\ i # 0
          /\ io32' = lost_device(io32, devices32[i].id)
          /\ formats' = RemoveAt(formats, i)
          /\ devices32' = RemoveAt(devices32, i)
          /\ UNCHANGED <<next_id32, broken32>>
       \/ /\ i = 0
          /\ broken32' = TRUE
          /\ UNCHANGED <<u32Devices, io32>>

\* What the asserts of both demand: a device is added once and removed when it was
\* added.
Expected(m) == (IndexOf(m.handle) = 0) = (m.change = "GIDC_ARRIVAL")

WM_INPUT_DEVICE_CHANGE ==
    /\ alive32
    /\ messages # <<>>
    /\ \/ Head(messages).change = "GIDC_ARRIVAL" /\ add_device32(Head(messages).handle)
       \/ Head(messages).change = "GIDC_REMOVAL" /\ remove_device32(Head(messages).handle)
    /\ messages' = Tail(messages)
    /\ UNCHANGED <<u32World, u32Switch, known32>>

-----------------------------------------------------------------------------
(* Inputs.                                                                 *)

Dispatch32(input) ==
    /\ alive32
    /\ Len(io32.queue) < MaxQueue32
    /\ io32' = dispatch(io32, input)
    /\ UNCHANGED <<u32World, messages, u32Devices, u32Switch, known32, broken32>>

\* WM_INPUT of a device that is in devices; of others it is ignored, and the fields
\* of a hid device are read and thrown away.
KnownInput(h) == registered /\ h \in plugged /\ IndexOf(h) # 0
process_mouse(h, button, down) ==
    KnownInput(h) /\ HandleType[h] = "RIM_TYPEMOUSE" /\ Dispatch32(ButtonStateInput(devices32[IndexOf(h)].id, button, down))
process_keyboard(h, scan_code, down) ==
    KnownInput(h) /\ HandleType[h] = "RIM_TYPEKEYBOARD" /\ Dispatch32(ButtonStateInput(devices32[IndexOf(h)].id, get_button32(scan_code), down))

\* key_down, key_up, syskey_down, syskey_up.
key32(scan_code, down) == hardware32 = 0 /\ Dispatch32(ButtonStateInput(0, get_button32(scan_code), down))

\* lbutton, mbutton and rbutton, down and up.
button32(button, down) == hardware32 = 0 /\ Dispatch32(ButtonStateInput(0, button, down))

key_character32(scan_code) == Dispatch32(KeyCharacterInput(0, ScanName[scan_code]))
mouse_move == Dispatch32(CursorMoveInput(0))

WinProc ==
    \/ WM_INPUT_DEVICE_CHANGE
    \/ \E h \in Handles, b \in Buttons, down \in BOOLEAN : process_mouse(h, b, down)
    \/ \E h \in Handles, s \in ScanCodes, down \in BOOLEAN : process_keyboard(h, s, down)
    \/ \E s \in ScanCodes, down \in BOOLEAN : key32(s, down)
    \/ \E b \in Buttons, down \in BOOLEAN : button32(b, down)
    \/ \E s \in ScanCodes : key_character32(s)
    \/ mouse_move

-----------------------------------------------------------------------------
(* Switching.                                                              *)

start_hardware_input32 ==
    /\ registered' = TRUE
    /\ messages' = messages \o RegisterRawInputDevices(plugged)
    /\ UNCHANGED <<devices32, formats, overlapped32>>

\* The devices are reported as lost, the newest first: what there is after n of them.
Losing ==
    LET losing[n \in 0 .. Len(devices32)] ==
            IF n = 0 THEN io32 ELSE lost_device(losing[n - 1], devices32[Len(devices32) - n + 1].id)
    IN losing

\* Mutant: the oldest device is not reported as lost.
LoseAllButOldest == IF devices32 = <<>> THEN io32 ELSE Losing[Len(devices32) - 1]

\* All of them.
LoseAll == Losing[Len(devices32)]

\* The devices are cleared; the formats stay, and so do the messages under way.
stop_hardware_input32 ==
    /\ registered' = FALSE
    /\ devices32' = <<>>
    /\ overlapped32' = (overlapped32 \/ messages # <<>>)
    /\ UNCHANGED <<formats, messages>>

AsSwitched == UNCHANGED <<registered, messages, devices32, formats, overlapped32>>

disable_hardware_input32(then_gone) ==
    /\ switches32 < MaxSwitches32
    /\ alive32
    /\ IF hardware32 # 0 THEN stop_hardware_input32 ELSE AsSwitched
    /\ LET io == IF hardware32 # 0 THEN LoseAll ELSE io32
       IN io32' = IF then_gone THEN lost_device(io, 0) ELSE io
    /\ hardware32' = 0
    /\ alive32' = ~then_gone
    /\ switches32' = switches32 + 1
    /\ UNCHANGED <<u32World, next_id32, known32, broken32>>

enable_hardware_input32 ==
    /\ switches32 < MaxSwitches32
    /\ alive32
    /\ IF hardware32 # 1 THEN start_hardware_input32 ELSE AsSwitched
    /\ hardware32' = 1
    /\ switches32' = switches32 + 1
    /\ UNCHANGED <<u32World, next_id32, io32, known32, alive32, broken32>>

toggle_hardware_input32 == IF hardware32 = 0 THEN enable_hardware_input32 ELSE disable_hardware_input32(FALSE)
destroy_subsystem32 == disable_hardware_input32(TRUE)

Pop32 ==
    /\ io32.queue # <<>>
    /\ known32' = Take(known32, Head(io32.queue))
    /\ io32' = [io32 EXCEPT !.queue = Tail(@)]
    /\ UNCHANGED <<u32World, messages, u32Devices, u32Switch, broken32>>

\* Nothing is said of what comes after undefined behaviour.
U32Next ==
    /\ ~broken32
    /\ \/ \E h \in Handles : Arrive(h) \/ Leave(h)
       \/ WinProc
       \/ enable_hardware_input32
       \/ disable_hardware_input32(FALSE)
       \/ toggle_hardware_input32
       \/ destroy_subsystem32
       \/ Pop32

U32Spec == U32Init /\ [][U32Next]_u32Vars

-----------------------------------------------------------------------------
(* Properties.                                                             *)

(* ui accepts every message, and what ui will know is device 0 and the     *)
(* devices of the vector, with the levels devices.cpp keeps of each: also  *)
(* after hardware input was switched off with keys held down or with       *)
(* messages to the window under way, and on again.  Unless it was switched *)
(* off with messages under way, the window is told of changes that fit the *)
(* devices there are (the asserts of add_device and remove_device, "device *)
(* has already been added!" and "device was never added before removal!"), *)
(* so the end of the vector is not erased, and no device is left while     *)
(* hardware input is off.  Nothing is said of the devices after the end of *)
(* the vector was erased.                                                  *)
U32DevicesMatch ==
    LET settled == Settled(known32, io32.queue)
    IN /\ ~broken32 =>
            /\ AllAccepted(known32, io32.queue)
            /\ DOMAIN settled = {d.id : d \in ToSet(devices32)} \cup (IF alive32 THEN {0} ELSE {})
            /\ \A d \in DOMAIN settled : settled[d].level = io32.values[d + 1]
       /\ ~overlapped32 =>
            /\ messages # <<>> /\ alive32 => Expected(Head(messages))
            /\ ~broken32
            /\ hardware32 = 0 => devices32 = <<>>

=============================================================================

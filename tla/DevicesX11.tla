----------------------------- MODULE DevicesX11 ------------------------------
(***************************************************************************)
(* The input devices of the X11 build (devices_x11.cpp): the window's      *)
(* thread reports its events as device 0, the console switches hardware    *)
(* input on and off, and while it is on a thread of its own watches        *)
(* /dev/input, opens the event files of interest and reads them.           *)
(*                                                                         *)
(* poll returns a set of descriptors; the thread's loop is modelled one    *)
(* descriptor at a time, so every order of what poll reports is covered.   *)
(*                                                                         *)
(* A device that is found makes device_values longer, on the thread that   *)
(* watches, and the window's thread may be half way through dispatch: it   *)
(* holds a reference into the array that is freed.                         *)
(*                                                                         *)
(* Left out: more than nine open event files, for which fds has no room,   *)
(* and what is read of a device that is gone while its input is still to   *)
(* be read (read returns -1, and n / sizeof input[0] is then huge).        *)
(***************************************************************************)
EXTENDS Devices, Integers

CONSTANTS
    Nodes,          \* names under /dev/input that start with "event"
    ModelOf,        \* Nodes -> vendor and product of the device behind a node
    TypeOf,         \* Nodes -> what find_event_type makes of its capabilities
    Keycodes,       \* key codes of the X server and of the kernel
    NameOf,         \* Keycodes -> the button, INVALID for a code of no interest
    Callers,        \* threads that call the console callbacks or the destructor
    Limits,         \* bounds, one of which holds: changes under /dev/input, calls of the
                    \* callbacks and inputs
    MaxQueue        \* bound: inputs wait while ui has this many messages to pop

VARIABLES
    fs,             \* Nodes -> "absent", "locked" (not readable yet) or "readable"
    watching,       \* inotify_add_watch is done
    notes,          \* inotify events not read yet; early: from before scandir
    hardware_input, \* -1 while a caller holds it
    call,           \* Callers -> what the caller is in
    hup,            \* interupt_pipe[1] is closed
    thread,         \* where event_watch is
    names,          \* what scandir returned and scan_events has still to open
    event_infos,    \* paths seen: status and device id
    devices,        \* id -> vendor and product, number of events
    events,         \* open event files, in order
    next_id,
    io,             \* devices.cpp and the queue to ui
    known,          \* what ui made of the messages it popped
    dispatching,    \* the input the window's thread is in dispatch with, <<>> if none
    torn,           \* history: codes of device 0 whose level was stored in the freed array last
    limit,          \* the bounds
    plugs, calls, inputs

ASSUME LimitsAssumption == \A l \in Limits : l.plugs \in Nat /\ l.calls \in Nat /\ l.inputs \in Nat

x11Watch == <<fs, watching, notes, plugs>>
x11Thread == <<hup, thread, names, event_infos, devices, events, next_id>>
x11Calls == <<hardware_input, call, calls>>
x11Ui == <<known, torn, limit, inputs>>
x11Vars == <<x11Watch, x11Thread, x11Calls, io, dispatching, x11Ui>>

\* create_subsystem reports the window's own device; the console callbacks exist.
X11Init ==
    /\ fs \in [Nodes -> {"absent", "readable"}]
    /\ watching = FALSE
    /\ notes = <<>>
    /\ hardware_input = 0
    /\ call = [c \in Callers |-> [op |-> "idle"]]
    /\ hup = FALSE
    /\ thread = "none"
    /\ names = {}
    /\ event_infos = <<>>
    /\ devices = <<>>
    /\ events = <<>>
    /\ next_id = 1
    /\ io = found_device(NoDevices, 0)
    /\ known = <<>>
    /\ dispatching = <<>>
    /\ torn = {}
    /\ limit \in Limits
    /\ plugs = 0
    /\ calls = 0
    /\ inputs = 0

-----------------------------------------------------------------------------
(* Tables.  get_button and code_to_button name a button for a code; only   *)
(* that some codes have none matters here.                                 *)

get_button(code) == NameOf[code]
code_to_button(code) == NameOf[code]

\* find_event_type: the capabilities decide, in this order.
EventTypes == <<"Gamepad", "Touch", "Keyboard", "Mouse">>
find_event_type(n) == IF TypeOf[n] \in ToSet(EventTypes) THEN TypeOf[n] ELSE "Unknown"

-----------------------------------------------------------------------------
(* The world: nodes come, become readable and go.                          *)

Change(n, from, to, mask) ==
    /\ plugs < limit.plugs
    /\ fs[n] \in from
    /\ fs' = [fs EXCEPT ![n] = to]
    /\ notes' = IF watching THEN Append(notes, [mask |-> mask, node |-> n, early |-> thread = "watch"]) ELSE notes
    /\ plugs' = plugs + 1
    /\ UNCHANGED <<watching, x11Calls, hup, thread, names, event_infos, devices, next_id, io, dispatching, x11Ui>>

Plug(n) == (Change(n, {"absent"}, "locked", "IN_CREATE") \/ Change(n, {"absent"}, "readable", "IN_CREATE")) /\ UNCHANGED events
Permit(n) == Change(n, {"locked"}, "readable", "IN_ATTRIB") /\ UNCHANGED events
\* A descriptor of a device that is gone stays open; reading it fails.
Unplug(n) ==
    /\ Change(n, {"locked", "readable"}, "absent", "IN_DELETE")
    /\ events' = [i \in DOMAIN events |-> IF events[i].fd = n THEN [events[i] EXCEPT !.alive = FALSE] ELSE events[i]]

-----------------------------------------------------------------------------
(* Opening and closing.  w holds what these functions get by reference:    *)
(* the infos, the devices, the events, the id counter and io.  The array   *)
(* of device_values moves when a device takes the next id.                 *)

World == [infos |-> event_infos, devices |-> devices, events |-> events, next_id |-> next_id, io |-> io]

Become(w) ==
    /\ event_infos' = w.infos
    /\ devices' = w.devices
    /\ events' = w.events
    /\ next_id' = w.next_id
    /\ io' = w.io
    /\ dispatching' = IF dispatching # <<>> /\ w.next_id # next_id THEN [dispatching EXCEPT !.freed = TRUE] ELSE dispatching

SetInfo(infos, n, info) == [m \in DOMAIN infos \cup {n} |-> IF m = n THEN info ELSE infos[m]]

Failed == [status |-> "Failed", id |-> 0]

get_or_create_device(w, model) ==
    IF \E d \in DOMAIN w.devices : w.devices[d].model = model
    THEN w
    ELSE [w EXCEPT !.devices = [d \in DOMAIN @ \cup {w.next_id} |->
                                    IF d = w.next_id THEN [model |-> model, event_count |-> 0] ELSE @[d]],
                   !.next_id = @ + 1,
                   !.io = found_device(@, w.next_id)]

\* open fails for a node that is gone or not readable yet.
try_open_event(w, n) ==
    LET v == get_or_create_device(w, ModelOf[n])
        d == CHOOSE e \in DOMAIN v.devices : v.devices[e].model = ModelOf[n]
    IN IF fs[n] # "readable" THEN [w EXCEPT !.infos = SetInfo(@, n, Failed)]
       ELSE IF find_event_type(n) = "Unknown"
       THEN [w EXCEPT !.infos = SetInfo(@, n, [status |-> "Uninteresting", id |-> 0])]
       ELSE [v EXCEPT !.events = Append(@, [fd |-> n, id |-> d, type |-> find_event_type(n), alive |-> TRUE]),
                      !.devices[d].event_count = @ + 1,
                      !.io = add_source(@, d, n),
                      !.infos = SetInfo(@, n, [status |-> "Open", id |-> d])]

\* close_event looks its event up by the id of the device: of a device with several
\* events it closes the first.
close_event(w, n) ==
    LET d == w.infos[n].id
        i == SelectInSeq(w.events, LAMBDA e : e.id = d)
        v == [w EXCEPT !.io = remove_source(@, d, n),
                       !.devices[d].event_count = @ - 1,
                       !.events = RemoveAt(@, i)]
    IN IF v.devices[d].event_count <= 0
       THEN [v EXCEPT !.io = lost_device(@, d), !.devices = Restrict(@, DOMAIN @ \ {d})]
       ELSE v

Forget(w, n) == [w EXCEPT !.infos = Restrict(@, DOMAIN @ \ {n})]

-----------------------------------------------------------------------------
(* event_watch.                                                            *)

\* inotify_add_watch; the thread ends if it cannot watch.
StartWatch ==
    /\ thread = "start"
    /\ notes' = <<>>
    /\ event_infos' = <<>>
    /\ devices' = <<>>
    /\ events' = <<>>
    /\ \/ thread' = "watch" /\ watching' = TRUE
       \/ thread' = "ended" /\ UNCHANGED watching
    /\ UNCHANGED <<fs, plugs, hup, names, next_id, x11Calls, io, dispatching, x11Ui>>

scandir ==
    /\ thread = "watch"
    /\ thread' = "scan"
    /\ names' = {n \in Nodes : fs[n] # "absent"}
    /\ UNCHANGED <<x11Watch, hup, event_infos, devices, events, next_id, x11Calls, io, dispatching, x11Ui>>

scan_events(n) ==
    /\ thread = "scan"
    /\ n \in names
    /\ names' = names \ {n}
    /\ Become(try_open_event(World, n))
    /\ UNCHANGED <<x11Watch, hup, thread, x11Calls, x11Ui>>

EnterLoop ==
    /\ thread = "scan"
    /\ names = {}
    /\ thread' = "poll"
    /\ UNCHANGED <<x11Watch, hup, names, event_infos, devices, events, next_id, x11Calls, io, dispatching, x11Ui>>

\* The messages of one inotify event, in the order the masks are tested.  What
\* scan_events met or missed already is left alone ("congratulations :tada: you
\* found a data race").
OnCreate(w, n) == IF n \in DOMAIN w.infos THEN w ELSE try_open_event(w, n)
OnDelete(w, n) ==
    IF n \notin DOMAIN w.infos THEN w
    ELSE IF w.infos[n].status = "Open" THEN Forget(close_event(w, n), n)
    ELSE Forget(w, n)
OnAttrib(w, n) == IF n \in DOMAIN w.infos /\ w.infos[n].status = "Failed" THEN try_open_event(w, n) ELSE w

ReadNotes ==
    /\ thread = "poll"
    /\ notes # <<>>
    /\ LET note == Head(notes) IN
       Become(CASE note.mask = "IN_CREATE" -> OnCreate(World, note.node)
                [] note.mask = "IN_DELETE" -> OnDelete(World, note.node)
                [] note.mask = "IN_ATTRIB" -> OnAttrib(World, note.node))
    /\ notes' = Tail(notes)
    /\ UNCHANGED <<fs, watching, plugs, hup, thread, names, x11Calls, x11Ui>>

InputLeft == inputs < limit.inputs /\ inputs' = inputs + 1

\* EV_KEY of any device; EV_ABS of a gamepad, as a tilt or a trigger.
ReadEvent(i, input) ==
    /\ thread = "poll"
    /\ i \in DOMAIN events
    /\ events[i].alive
    /\ Len(io.queue) < MaxQueue
    /\ \/ \E code \in Keycodes, down \in BOOLEAN :
             /\ code_to_button(code) # INVALID
             /\ input = ButtonStateInput(events[i].id, code_to_button(code), down)
       \/ \E axis \in Axes, level \in Levels :
             /\ events[i].type = "Gamepad"
             /\ input \in {AxisTiltInput(events[i].id, axis, level), AxisTriggerInput(events[i].id, axis, level)}
    /\ io' = dispatch(io, input)
    /\ InputLeft
    /\ UNCHANGED <<x11Watch, x11Thread, x11Calls, dispatching, known, torn, limit>>

\* POLLHUP: leave the loop, then close what is open and end.
Hangup ==
    /\ thread = "poll"
    /\ hup
    /\ thread' = "close"
    /\ UNCHANGED <<x11Watch, hup, names, event_infos, devices, events, next_id, x11Calls, io, dispatching, x11Ui>>

CloseAll(n) ==
    /\ thread = "close"
    /\ n \in DOMAIN event_infos
    /\ Become(Forget(IF event_infos[n].status = "Open" THEN close_event(World, n) ELSE World, n))
    /\ UNCHANGED <<x11Watch, hup, thread, names, x11Calls, x11Ui>>

EndWatch ==
    /\ thread = "close"
    /\ event_infos = <<>>
    /\ thread' = "ended"
    /\ watching' = FALSE
    /\ notes' = <<>>
    /\ UNCHANGED <<fs, plugs, hup, names, event_infos, devices, events, next_id, x11Calls, io, dispatching, x11Ui>>

-----------------------------------------------------------------------------
(* Switching.  lock_state_variable spins until the value is not -1.        *)

lock_state_variable(c, op) ==
    /\ calls < limit.calls
    /\ call[c].op = "idle"
    /\ hardware_input # -1
    /\ calls' = calls + 1
    /\ call' = [call EXCEPT ![c] = [op |-> op, was |-> hardware_input]]
    /\ hardware_input' = -1
    /\ UNCHANGED <<x11Watch, x11Thread, io, dispatching, x11Ui>>

\* The value the call will store.
Target(c) ==
    CASE call[c].op \in {"enable"} -> 1
      [] call[c].op \in {"disable", "destroy"} -> 0
      [] call[c].op = "toggle" -> 1 - call[c].was

start_hardware_input(c) ==
    /\ call[c].op \notin {"idle", "join", "gone"}
    /\ Target(c) = 1 /\ call[c].was # 1
    /\ hup' = FALSE
    /\ thread' = "start"
    /\ hardware_input' = 1
    /\ call' = [call EXCEPT ![c] = [op |-> "idle"]]
    /\ UNCHANGED <<x11Watch, names, event_infos, devices, events, next_id, calls, io, dispatching, x11Ui>>

\* Mutant: the pipe is left open.
stop_hardware_input_open(c) ==
    /\ call[c].op \notin {"idle", "join", "gone"}
    /\ Target(c) = 0 /\ call[c].was # 0
    /\ call' = [call EXCEPT ![c] = [op |-> "join", from |-> call[c].op]]
    /\ UNCHANGED <<hup, x11Watch, thread, names, event_infos, devices, events, next_id, hardware_input, calls, io, dispatching, x11Ui>>

\* The pipe is closed and the thread joined.
stop_hardware_input(c) ==
    /\ call[c].op \notin {"idle", "join", "gone"}
    /\ Target(c) = 0 /\ call[c].was # 0
    /\ hup' = TRUE
    /\ call' = [call EXCEPT ![c] = [op |-> "join", from |-> call[c].op]]
    /\ UNCHANGED <<x11Watch, thread, names, event_infos, devices, events, next_id, hardware_input, calls, io, dispatching, x11Ui>>

\* The destructor reports the window's device as lost when the thread is gone.
Farewell(op) == IF op = "destroy" THEN lost_device(io, 0) ELSE io

Join(c) ==
    /\ call[c].op = "join"
    /\ thread = "ended"
    /\ thread' = "none"
    /\ hardware_input' = 0
    /\ call' = [call EXCEPT ![c] = [op |-> IF call[c].from = "destroy" THEN "gone" ELSE "idle"]]
    /\ io' = Farewell(call[c].from)
    /\ UNCHANGED <<x11Watch, hup, names, event_infos, devices, events, next_id, calls, dispatching, x11Ui>>

NothingToSwitch(c) ==
    /\ call[c].op \in {"enable", "disable", "destroy"}
    /\ Target(c) = call[c].was
    /\ hardware_input' = Target(c)
    /\ call' = [call EXCEPT ![c] = [op |-> IF call[c].op = "destroy" THEN "gone" ELSE "idle"]]
    /\ io' = Farewell(call[c].op)
    /\ UNCHANGED <<x11Watch, x11Thread, calls, dispatching, x11Ui>>

\* The callbacks run on the console's thread, which is gone before devices is
\* destroyed, on the window's thread.
MayCall(c, op) ==
    /\ \A d \in Callers : call[d].op # "gone"
    /\ op = "destroy" => dispatching = <<>> /\ \A d \in Callers : call[d].op = "idle"

Switch(c) ==
    \/ \E op \in {"enable", "disable", "toggle", "destroy"} : MayCall(c, op) /\ lock_state_variable(c, op)
    \/ start_hardware_input(c)
    \/ stop_hardware_input(c)
    \/ Join(c)
    \/ NothingToSwitch(c)

-----------------------------------------------------------------------------
(* The window's thread: keys and buttons are left to the hardware while it *)
(* is on (or changing); characters and motion are not.                     *)

WindowMay ==
    /\ \A c \in Callers : call[c].op \notin {"gone", "destroy"} /\ (call[c].op = "join" => call[c].from # "destroy")
    /\ Len(io.queue) < MaxQueue
    /\ dispatching = <<>>

\* dispatch takes a reference to the values of the device.
WindowDispatch(input) ==
    /\ WindowMay
    /\ InputLeft
    /\ dispatching' = [input |-> input, freed |-> FALSE]
    /\ UNCHANGED <<x11Watch, x11Thread, x11Calls, io, known, torn, limit>>

\* It compares, stores and notifies.
Dispatched ==
    /\ dispatching # <<>> /\ ~dispatching.freed
    /\ io' = dispatch(io, dispatching.input)
    /\ dispatching' = <<>>
    /\ torn' = IF io' = io THEN torn ELSE torn \ {dispatching.input.code}
    /\ UNCHANGED <<x11Watch, x11Thread, x11Calls, known, limit, inputs>>

\* The values are freed: any level may be what it compares with, and the one it
\* stores is lost.
DispatchedTorn ==
    /\ dispatching # <<>> /\ dispatching.freed
    /\ \/ UNCHANGED <<io, torn>>
       \/ io' = Notify(io, dispatching.input) /\ torn' = torn \cup {dispatching.input.code}
    /\ dispatching' = <<>>
    /\ UNCHANGED <<x11Watch, x11Thread, x11Calls, known, limit, inputs>>

\* Inputs of which dispatch remembers nothing.
WindowNotify(input) ==
    /\ WindowMay
    /\ InputLeft
    /\ io' = dispatch(io, input)
    /\ UNCHANGED <<x11Watch, x11Thread, x11Calls, dispatching, known, torn, limit>>

button_press(button) == hardware_input = 0 /\ WindowDispatch(ButtonStateInput(0, button, TRUE))
button_release(button) == hardware_input = 0 /\ WindowDispatch(ButtonStateInput(0, button, FALSE))
key_press(code) == hardware_input = 0 /\ WindowDispatch(ButtonStateInput(0, get_button(code), TRUE))
key_release(code) == hardware_input = 0 /\ WindowDispatch(ButtonStateInput(0, get_button(code), FALSE))
key_character(code) == WindowNotify(KeyCharacterInput(0, get_button(code)))
motion_notify == WindowNotify(CursorMoveInput(0))

\* One turn of the input loop of hid::update.
Pop ==
    /\ io.queue # <<>>
    /\ known' = Take(known, Head(io.queue))
    /\ io' = [io EXCEPT !.queue = Tail(@)]
    /\ UNCHANGED <<x11Watch, x11Thread, x11Calls, dispatching, torn, limit, inputs>>

X11Thread ==
    \/ StartWatch \/ scandir \/ EnterLoop \/ ReadNotes \/ Hangup \/ EndWatch
    \/ \E n \in Nodes : scan_events(n) \/ CloseAll(n)

X11Inputs ==
    \/ \E i \in DOMAIN events, b \in Button \cup Axes, l \in Levels, st \in {"AXIS_TILT", "AXIS_TRIGGER", "BUTTON_DOWN", "BUTTON_UP"} :
          ReadEvent(i, [type |-> "Input", id |-> events[i].id, state |-> st, code |-> b, level |-> l])
    \/ \E b \in Buttons : button_press(b) \/ button_release(b)
    \/ \E c \in Keycodes : key_press(c) \/ key_release(c) \/ key_character(c)
    \/ motion_notify

X11Next ==
    \/ X11Thread
    \/ X11Inputs
    \/ Dispatched \/ DispatchedTorn
    \/ Pop
    \/ \E c \in Callers : Switch(c)
    \/ \E n \in Nodes : Plug(n) \/ Permit(n) \/ Unplug(n)

-----------------------------------------------------------------------------
(* Properties.                                                             *)

OpenOf(d) == {n \in DOMAIN event_infos : event_infos[n].status = "Open" /\ event_infos[n].id = d}

\* What "found a data race" asserts of the next event.
Awaited(note) == (note.node \in DOMAIN event_infos) = (note.mask # "IN_CREATE")

\* What is known of a node when every event was read.
StatusOf(n) == IF fs[n] = "locked" THEN "Failed" ELSE IF find_event_type(n) = "Unknown" THEN "Uninteresting" ELSE "Open"

(* ui and the devices agree, whatever the console, the window and          *)
(* /dev/input do meanwhile.  Every message finds ui in a state that takes  *)
(* it: a device is found once before anything else is said of it and is    *)
(* not spoken of after it is lost.  What ui will know is what the thread   *)
(* has open: one device per vendor and product with a source for each of   *)
(* its event files, and event_count counts them; when hardware input is    *)
(* off only the window's device is left.  What is open is what there is    *)
(* once every event of inotify was read: nodes that changed between the    *)
(* watch and the scan, and those whose permissions came late, are met; and *)
(* only an event from before the scan is met or missed already (the        *)
(* asserts "found a data race").  And ui's picture of every button and     *)
(* axis is the one dispatch compares with, so suppressing repeats never    *)
(* hides a change, but for buttons of the window's device whose level was  *)
(* stored while device_values moved to a new place, until they change      *)
(* again (devices_x11.cpp, try_open_event, close_event and event_watch;    *)
(* devices.cpp, found_device and dispatch).                                *)
X11UiAgrees ==
    LET settled == Settled(known, io.queue)
        none == thread \in {"none", "start"}
    IN /\ AllAccepted(known, io.queue)
       /\ DOMAIN settled \ {0} = IF none THEN {} ELSE DOMAIN devices
       /\ none \/ \A d \in DOMAIN devices :
                      /\ settled[d].sources = OpenOf(d)
                      /\ devices[d].event_count = Cardinality(OpenOf(d))
                      /\ devices[d].event_count = Cardinality({i \in DOMAIN events : events[i].id = d})
       /\ thread = "poll" /\ notes = <<>> =>
             /\ DOMAIN event_infos = {n \in Nodes : fs[n] # "absent"}
             /\ \A n \in DOMAIN event_infos : event_infos[n].status = StatusOf(n)
       /\ thread = "poll" /\ notes # <<>> => Head(notes).early \/ Awaited(Head(notes))
       /\ hardware_input = 0 => thread = "none"
       /\ \A d \in DOMAIN settled, c \in Code : settled[d].level[c] = io.values[d + 1][c] \/ (d = 0 /\ c \in torn)

(* A call that stops hardware input returns: the thread leaves poll and    *)
(* closes everything (devices_x11.cpp, stop_hardware_input).               *)
X11StopReturns == \A c \in Callers : (call[c].op = "join") ~> (call[c].op # "join")

(* The thread that watches /dev/input serves ui: what it says of devices   *)
(* agrees with what it has open, and it can be stopped at any time         *)
(* (devices_x11.cpp, device_watch and stop_hardware_input).                *)
X11Serves == []X11UiAgrees /\ X11StopReturns

=============================================================================

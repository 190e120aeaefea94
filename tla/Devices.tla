------------------------------- MODULE Devices -------------------------------
(***************************************************************************)
(* engine::hid::devices: the part every backend shares (devices.cpp), the  *)
(* input records it passes on (input.hpp), and what the other end, the     *)
(* input loop of hid::update, asserts of each message it pops.             *)
(*                                                                         *)
(* A backend (DevicesX11, DevicesUser32) keeps one value of these          *)
(* operators: io = [values |-> device_values, queue |-> queue_input].  The *)
(* queue is a FIFO without a bound; PageQueue looks inside.                *)
(***************************************************************************)
EXTENDS Naturals, Sequences, FiniteSets, Functions, SequencesExt

CONSTANTS
    Buttons,    \* the codes a backend can report
    Axes,       \* the tilt and trigger axes
    Levels,     \* values of an axis; 0 is the rest position
    INVALID     \* Button::INVALID

ASSUME LevelsAssumption == 0 \in Levels /\ Levels \subseteq Nat
ASSUME InvalidAssumption == INVALID \notin Buttons \cup Axes /\ Buttons \cap Axes = {}

\* Input::Button: button_states has a bit for INVALID too.
Button == Buttons \cup {INVALID}
Code == Button \cup Axes

\* The constructors of Input; the payloads of CURSOR_MOVE and KEY_CHARACTER are
\* not told apart.
AxisTiltInput(id, axis, level) == [type |-> "Input", id |-> id, state |-> "AXIS_TILT", code |-> axis, level |-> level]
AxisTriggerInput(id, axis, level) == [type |-> "Input", id |-> id, state |-> "AXIS_TRIGGER", code |-> axis, level |-> level]
ButtonStateInput(id, button, down) ==
    [type |-> "Input", id |-> id, state |-> IF down THEN "BUTTON_DOWN" ELSE "BUTTON_UP", code |-> button, level |-> 0]
KeyCharacterInput(id, button) == [type |-> "Input", id |-> id, state |-> "KEY_CHARACTER", code |-> button, level |-> 0]
CursorMoveInput(id) == [type |-> "Input", id |-> id, state |-> "CURSOR_MOVE", code |-> INVALID, level |-> 0]

\* DeviceValues{}: every axis at rest and every button up.  A button that is down
\* has level 1.
DeviceValues == [c \in Code |-> 0]

NoDevices == [values |-> <<>>, queue |-> <<>>]

Notify(io, m) == [io EXCEPT !.queue = Append(@, m)]

\* device_values is indexed by id, from 0; the sequence from 1.
found_device(io, id) ==
    LET missing == (id + 1) - Len(io.values)
        fresh == [i \in 1 .. (IF missing > 0 THEN missing ELSE 0) |-> DeviceValues]
    IN Notify([io EXCEPT !.values = @ \o fresh], [type |-> "DeviceFound", id |-> id])

lost_device(io, id) ==
    LET reset == IF id < Len(io.values) THEN [io EXCEPT !.values[id + 1] = DeviceValues] ELSE io
    IN Notify(reset, [type |-> "DeviceLost", id |-> id])

add_source(io, id, path) == Notify(io, [type |-> "AddSource", id |-> id, path |-> path])
remove_source(io, id, path) == Notify(io, [type |-> "RemoveSource", id |-> id, path |-> path])

\* What dispatch compares an input with and stores: nothing for the two states
\* that fall to the default label.
Remembered(input) == input.state \in {"AXIS_TILT", "AXIS_TRIGGER", "BUTTON_DOWN", "BUTTON_UP"}
LevelOf(input) == IF input.state = "BUTTON_DOWN" THEN 1 ELSE input.level

dispatch(io, input) ==
    LET slot == IF input.id < Len(io.values) THEN input.id + 1 ELSE 1
        old == io.values[slot][input.code]
    IN IF ~Remembered(input) THEN Notify(io, input)
       ELSE IF old = LevelOf(input) THEN io
       ELSE Notify([io EXCEPT !.values[slot][input.code] = LevelOf(input)], input)

-----------------------------------------------------------------------------
(* The other end.  known maps each device ui has a row for to the paths of *)
(* its sources and to the level of each code as the inputs told it.        *)

\* The row add_device of ui.cpp makes.
FreshRow == [sources |-> {}, level |-> DeviceValues]

\* The asserts of the input handlers of hid::update: a device is added once, every
\* other message is for a device that has a row (find_device), a source is added
\* once and removed when it is there.
Accepts(known, m) ==
    CASE m.type = "DeviceFound" -> m.id \notin DOMAIN known
      [] m.type = "AddSource" -> m.id \in DOMAIN known /\ m.path \notin known[m.id].sources
      [] m.type = "RemoveSource" -> m.id \in DOMAIN known /\ m.path \in known[m.id].sources
      [] OTHER -> m.id \in DOMAIN known

\* What the handlers make of devices and device_sources.
Take(known, m) ==
    CASE m.type = "DeviceFound" -> [d \in DOMAIN known \cup {m.id} |-> IF d = m.id THEN FreshRow ELSE known[d]]
      [] m.type = "DeviceLost" -> Restrict(known, DOMAIN known \ {m.id})
      [] m.type = "AddSource" -> [known EXCEPT ![m.id].sources = @ \cup {m.path}]
      [] m.type = "RemoveSource" -> [known EXCEPT ![m.id].sources = @ \ {m.path}]
      [] OTHER -> IF Remembered(m) THEN [known EXCEPT ![m.id].level[m.code] = LevelOf(m)] ELSE known

\* What ui knows after each message of the queue.
Course(known, queue) ==
    LET course[n \in 0 .. Len(queue)] == IF n = 0 THEN known ELSE Take(course[n - 1], queue[n])
    IN course

\* Every message of the queue is accepted when its turn comes.
AllAccepted(known, queue) ==
    LET course == Course(known, queue)
    IN \A n \in 1 .. Len(queue) : Accepts(course[n - 1], queue[n])

\* What ui knows once it has popped everything.
Settled(known, queue) == Course(known, queue)[Len(queue)]

=============================================================================

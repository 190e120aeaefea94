------------------------------ MODULE MCInput -------------------------------
(***************************************************************************)
(* Small instances of what handles input: Ui, the devices of either build  *)
(* and the application around them.  A behaviour is about one of them, its *)
(* subject; what they owe each other is stated in Devices.                 *)
(***************************************************************************)
EXTENDS DevicesX11, DevicesUser32, Ui, Application

VARIABLE subject

inputVars == <<subject, x11Vars, u32Vars, uiVars, appVars>>

\* Event files of one device, and of another if there is a third.
NodeModel == [n \in Nodes |-> IF n = "event2" THEN "pad" ELSE "mouse"]
NodeType == [n \in Nodes |-> CASE n = "event0" -> "Gamepad" [] n = "event1" -> "Keyboard" [] OTHER -> "Other"]
CodeName == [c \in Keycodes |-> IF c = 1 THEN "KEY" ELSE INVALID]

\* Devices that come and go, get their permissions late or change while hardware
\* input is switched; callers that stop it at once, with one that starts it again;
\* inputs of the hardware and of the window.
FewOf == {
    [plugs |-> 3, calls |-> 1, inputs |-> 0],
    [plugs |-> 2, calls |-> 2, inputs |-> 0],
    [plugs |-> 0, calls |-> 4, inputs |-> 0],
    [plugs |-> 1, calls |-> 1, inputs |-> 3],
    [plugs |-> 0, calls |-> 2, inputs |-> 1]}

TypeOfHandle == [h \in Handles |-> IF h = "h1" THEN "RIM_TYPEMOUSE" ELSE "RIM_TYPEKEYBOARD"]
ScanButton == [s \in ScanCodes |-> IF s = 1 THEN "KEY" ELSE INVALID]

\* Two mappings of one button for one context, a mapping of an axis for the other.
MappingUser == [m \in UiMappings |-> IF m = "m3" THEN "c2" ELSE "c1"]
MappingCodes == [m \in UiMappings |-> IF m = "m3" THEN {"AXIS"} ELSE {"KEY"}]
CodeKind == [c \in Buttons \cup Axes |-> IF c = "KEY" THEN "ButtonPress" ELSE "AxisTilt"]

Press(m) == [type |-> "AddFilter", mapping |-> m, code |-> "KEY", kind |-> "ButtonPress"]
Tilt(m) == [type |-> "AddFilter", mapping |-> m, code |-> "AXIS", kind |-> "AxisTilt"]
New(c) == [type |-> "AddContext", context |-> c, states |-> <<"s1", "s2">>]
BindTo(c, s, m) == [type |-> "Bind", context |-> c, state |-> s, mapping |-> m, callback |-> s]

Startups == {
    <<>>,
    <<Press("m1"), Press("m2"), New("c1"), BindTo("c1", "s1", "m1"), BindTo("c1", "s2", "m2")>>,
    <<Press("m1"), Tilt("m3"), New("c1"), BindTo("c1", "s1", "m1"), New("c2"), BindTo("c2", "s1", "m3")>>}

NoSpace == <<"no space">>
ObserverTypes == [c \in Commands |-> IF c = "toggle" THEN <<>> ELSE <<"bool">>]
SomeLines ==
    {[command |-> "toggle", words |-> NoSpace],
     [command |-> "toggle", words |-> <<>>],
     [command |-> "set", words |-> <<"bool", "unparsed">>],
     [command |-> "set", words |-> <<"double">>],
     [command |-> "unknown", words |-> <<>>]}

Init ==
    /\ subject \in {"x11", "user32", "ui", "application"}
    /\ X11Init /\ (subject # "x11" => fs = [n \in Nodes |-> "absent"] /\ limit.calls = 4)
    /\ U32Init /\ (subject # "user32" => plugged = {} /\ hardware32 = 0)
    /\ UiInit /\ (subject # "ui" => queue = <<>>)
    /\ AppInit /\ (subject # "application" => observers = {})

Next ==
    /\ UNCHANGED subject
    /\ \/ subject = "x11" /\ X11Next /\ UNCHANGED <<u32Vars, uiVars, appVars>>
       \/ subject = "user32" /\ U32Next /\ UNCHANGED <<x11Vars, uiVars, appVars>>
       \/ subject = "ui" /\ UiNext /\ UNCHANGED <<x11Vars, u32Vars, appVars>>
       \/ subject = "application" /\ AppNext /\ UNCHANGED <<x11Vars, u32Vars, uiVars>>

Fairness ==
    /\ WF_x11Vars(subject = "x11" /\ X11Thread)
    /\ \A c \in Callers : WF_x11Vars(subject = "x11" /\ Join(c))
    /\ WF_appVars(subject = "application" /\ message_loop)
    /\ WF_appVars(subject = "application" /\ AppDestructor)
    /\ WF_appVars(subject = "application" /\ ReaderThread)

Spec == Init /\ [][Next]_inputVars /\ Fairness

=============================================================================

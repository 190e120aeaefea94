--------------------------------- MODULE Ui ----------------------------------
(***************************************************************************)
(* engine::hid::ui (ui.cpp): contexts whose active state decides which     *)
(* mappings the devices of the context have.  Clients post messages, the   *)
(* devices post theirs, the console asks for a list, and hid::update, on   *)
(* one thread, handles first all messages, then gives every context that   *)
(* lost them its device mappings back, then all input messages.            *)
(*                                                                         *)
(* The vectors of ui.cpp are sets of tuples here: a device mapping is a    *)
(* set of <<device, code, filter, callback>>, and so on; only the contexts *)
(* keep an order.  A callback and its data are one value.                  *)
(***************************************************************************)
EXTENDS Devices

CONSTANTS
    UiDevices,      \* ids the devices report
    UiWired,        \* ids that are never lost
    UiPaths,        \* paths of sources
    UiContexts, UiStates,
    UiMappings,
    UiCodes,        \* UiMappings -> the codes the client puts filters on
    UiUser,         \* UiMappings -> the context that binds the mapping
    UiKind,         \* Buttons \cup Axes -> the kind of filter the client gives a code
    NoContext,      \* engine::Token{}
    UiStartups,     \* what a client may post before the first update
    MaxPosts,       \* bound: messages of client and console after that
    MaxReports,     \* bound: messages of the devices
    MaxWaiting      \* bound: messages waiting in a queue

\* The client gives a code filters of a kind its inputs can meet, and no two mappings
\* of different contexts, or of one state, share a code.
ASSUME UiKindAssumption ==
    \A c \in Buttons \cup Axes :
        UiKind[c] \in IF c \in Buttons THEN {"ButtonPress", "ButtonRelease"} ELSE {"AxisMove", "AxisTilt"}
ASSUME UiCodesAssumption ==
    /\ \A m \in UiMappings : UiCodes[m] # {} /\ UiCodes[m] \subseteq Buttons \cup Axes
    /\ \A m, n \in UiMappings : UiUser[m] # UiUser[n] => UiCodes[m] \cap UiCodes[n] = {}
ASSUME UiStatesAssumption == IsFiniteSet(UiStates) /\ UiStates # {} /\ NoContext \notin UiContexts

VARIABLES
    ui,             \* what update works on
    queue,          \* messages of the client and the console
    queue_input,    \* messages of the devices
    phase,          \* where update is: "messages" or "input"
    query,          \* callback_print_devices: "idle", "half" posted or "waiting"
    posts, reports  \* bounds

uiVars == <<ui, queue, queue_input, phase, query, posts, reports>>

\* ok turns FALSE when a debug_assert fails; called is what the last input called.
UiAtStart ==
    [devices |-> {}, device_mappings |-> {}, device_sources |-> {}, filters |-> <<>>,
     mapping_entities |-> {}, mappings |-> {}, contexts |-> <<>>,
     default |-> NoContext, ready |-> 0, called |-> {}, ok |-> TRUE]

\* The devices report their device 0 when they are created.
UiInit ==
    /\ ui = UiAtStart
    /\ queue \in UiStartups
    /\ queue_input = <<[type |-> "DeviceFound", id |-> 0]>>
    /\ phase = "messages"
    /\ query = "idle"
    /\ posts = 0
    /\ reports = 0

Require(u, condition) == [u EXCEPT !.ok = @ /\ condition]

-----------------------------------------------------------------------------
(* Devices and mappings.                                                   *)

find_device(u, d) == Require(u, d \in u.devices)

add_device(u, d) == [Require(u, d \notin u.devices) EXCEPT !.devices = @ \cup {d}]

remove_device(u, d) ==
    [find_device(u, d) EXCEPT !.devices = @ \ {d},
                              !.device_mappings = {m \in @ : m[1] # d},
                              !.device_sources = {s \in @ : s[1] # d}]

\* filters.emplace under next_available_filter, which is never given twice; then
\* add_or_find_mapping and the filter goes where none was.
AddFilter(u, x) ==
    [Require(u, \A m \in u.mappings : <<m[1], m[2]>> # <<x.mapping, x.code>>) EXCEPT
        !.filters = Append(@, x.kind),
        !.mapping_entities = @ \cup {x.mapping},
        !.mappings = @ \cup {<<x.mapping, x.code, Len(u.filters) + 1>>}]

-----------------------------------------------------------------------------
(* Contexts: the name, the active state, whether the devices have the      *)
(* mappings of that state, what is bound to the states, the devices.       *)

Context(asset, states) ==
    [asset |-> asset, active |-> Head(states), has_device_mappings |-> FALSE,
     states |-> states, bound |-> {}, devices |-> {}]

find_context(u, asset) == SelectInSeq(u.contexts, LAMBDA c : c.asset = asset)

\* Context::find, of a state.
HasState(context, state) == state \in Range(context.states)

\* What the active state of a context gives its devices: code, filter, callback.
ActiveFilters(u, context) ==
    UNION {{<<m[2], m[3], b[3]>> : m \in {n \in u.mappings : n[1] = b[2]}} :
              b \in {c \in context.bound : c[1] = context.active}}

\* The device mappings these are in: device, code, filter, callback.
Rows(u, context) == {<<d, f[1], f[2], f[3]>> : d \in context.devices, f \in ActiveFilters(u, context)}

\* Setting and clearing walk the devices of the context (each must have a row:
\* find_device) and the bound mappings (each must exist: find_mapping).
Walkable(u, context) ==
    /\ context.devices \subseteq u.devices
    /\ {b[2] : b \in {c \in context.bound : c[1] = context.active}} \subseteq u.mapping_entities

set_device_mappings(u, i) ==
    LET context == u.contexts[i]
        active == ActiveFilters(u, context)
        conflict == \/ \E f, g \in active : f # g /\ f[1] = g[1]
                    \/ \E f \in active, m \in u.device_mappings : m[1] \in context.devices /\ m[2] = f[1]
    IN [Require(u, ~context.has_device_mappings /\ Walkable(u, context) /\ (conflict => context.devices = {})) EXCEPT
            !.contexts[i].has_device_mappings = TRUE,
            !.device_mappings = @ \cup Rows(u, context)]

clear_device_mappings(u, i) ==
    LET context == u.contexts[i]
        active == ActiveFilters(u, context)
        sane == \A d \in context.devices, f \in active : \E m \in u.device_mappings : m[1] = d /\ m[2] = f[1] /\ m[3] = f[2]
    IN [Require(u, context.has_device_mappings /\ Walkable(u, context) /\ sane) EXCEPT
            !.contexts[i].has_device_mappings = FALSE,
            !.device_mappings = {m \in @ : ~(m[1] \in context.devices /\ \E f \in active : f[1] = m[2])}]

\* Mutant: the devices keep their mappings while the context changes.
ClearNever(u, i) == [u EXCEPT !.contexts[i].has_device_mappings = FALSE]

\* What most handlers do before they change a context.
ClearIfSet(u, i) == IF u.contexts[i].has_device_mappings THEN clear_device_mappings(u, i) ELSE u

\* The device mappings must be cleared when the state is the active one.
Untouched(context, state) == context.has_device_mappings => state # context.active

add_mapping(u, i, x) ==
    [Require(u, /\ Untouched(u.contexts[i], x.state) /\ HasState(u.contexts[i], x.state)
                /\ \A b \in u.contexts[i].bound : <<b[1], b[2]>> # <<x.state, x.mapping>>) EXCEPT
        !.contexts[i].bound = @ \cup {<<x.state, x.mapping, x.callback>>}]

remove_mapping(u, i, x) ==
    [Require(u, /\ Untouched(u.contexts[i], x.state) /\ HasState(u.contexts[i], x.state)
                /\ \E b \in u.contexts[i].bound : <<b[1], b[2]>> = <<x.state, x.mapping>>) EXCEPT
        !.contexts[i].bound = {b \in @ : <<b[1], b[2]>> # <<x.state, x.mapping>>}]

context_add_device(u, i, d) ==
    [Require(u, /\ ~u.contexts[i].has_device_mappings
                /\ d \in u.devices \ u.contexts[i].devices) EXCEPT !.contexts[i].devices = @ \cup {d}]

context_remove_device(u, i, d) ==
    [Require(u, /\ ~u.contexts[i].has_device_mappings
                /\ d \in u.devices \cap u.contexts[i].devices) EXCEPT !.contexts[i].devices = @ \ {d}]

set_active(u, i, state) ==
    [Require(u, ~u.contexts[i].has_device_mappings /\ HasState(u.contexts[i], state)) EXCEPT !.contexts[i].active = state]

-----------------------------------------------------------------------------
(* The handlers of messages.                                               *)

\* The first context becomes the default one and gets every device there is.
AddContext(u, x) ==
    LET first == u.contexts = <<>>
        context == [Context(x.context, x.states) EXCEPT !.devices = IF first THEN u.devices ELSE {}]
    IN [Require(u, find_context(u, x.context) = 0) EXCEPT
            !.contexts = Append(@, context),
            !.default = IF first THEN x.context ELSE @]

\* The oldest of the other contexts becomes the default; it does not get the devices.
RemoveContext(u, x) ==
    LET i == find_context(u, x.context)
        v == [ClearIfSet(u, i) EXCEPT !.contexts = RemoveAt(@, i)]
    IN IF x.context # u.default THEN v
       ELSE [v EXCEPT !.default = IF v.contexts = <<>> THEN NoContext ELSE v.contexts[1].asset]

AddDevice(u, x) == LET i == find_context(u, x.context) IN context_add_device(ClearIfSet(u, i), i, x.id)
RemoveDevice(u, x) == LET i == find_context(u, x.context) IN context_remove_device(ClearIfSet(u, i), i, x.id)
SetState(u, x) == LET i == find_context(u, x.context) IN set_active(ClearIfSet(u, i), i, x.state)

ClearIfActive(u, i, state) == IF u.contexts[i].active = state THEN ClearIfSet(u, i) ELSE u
Bind(u, x) == LET i == find_context(u, x.context) IN add_mapping(ClearIfActive(u, i, x.state), i, x)
Unbind(u, x) == LET i == find_context(u, x.context) IN remove_mapping(ClearIfActive(u, i, x.state), i, x)

\* Both answers are copies; what the console thread waits for is their number.
Query(u) == [u EXCEPT !.ready = @ + 1]

Handle(u, x) ==
    IF x.type \in {"AddDevice", "RemoveDevice", "Bind", "Unbind", "SetState", "RemoveContext"} /\ find_context(u, x.context) = 0
    THEN Require(u, FALSE)
    ELSE CASE x.type = "AddFilter" -> AddFilter(u, x)
           [] x.type = "AddContext" -> AddContext(u, x)
           [] x.type = "RemoveContext" -> RemoveContext(u, x)
           [] x.type = "AddDevice" -> AddDevice(u, x)
           [] x.type = "RemoveDevice" -> RemoveDevice(u, x)
           [] x.type = "Bind" -> Bind(u, x)
           [] x.type = "Unbind" -> Unbind(u, x)
           [] x.type = "SetState" -> SetState(u, x)
           [] x.type \in {"QueryDevices", "QueryContexts"} -> Query(u)

-----------------------------------------------------------------------------
(* The handlers of input messages.                                         *)

DeviceFound(u, x) ==
    LET v == add_device(u, x.id)
        i == find_context(v, v.default)
    IN IF u.default = NoContext THEN v
       ELSE set_device_mappings(context_add_device(clear_device_mappings(v, i), i, x.id), i)

leave_device(u, i, d) ==
    IF d \notin u.contexts[i].devices THEN u
    ELSE set_device_mappings(context_remove_device(clear_device_mappings(u, i), i, d), i)

\* The contexts, one after the other.
Leaving(u, d) ==
    LET leaving[n \in 0 .. Len(u.contexts)] == IF n = 0 THEN u ELSE leave_device(leaving[n - 1], n, d)
    IN leaving

DeviceLost(u, x) == remove_device(Leaving(u, x.id)[Len(u.contexts)], x.id)

AddSource(u, x) ==
    [Require(u, <<x.id, x.path>> \notin u.device_sources) EXCEPT !.device_sources = @ \cup {<<x.id, x.path>>}]
RemoveSource(u, x) ==
    [Require(u, <<x.id, x.path>> \in u.device_sources) EXCEPT !.device_sources = @ \ {<<x.id, x.path>>}]

\* A press calls with 1 on the way down and 0 on the way up, a release the other way
\* round; a tilt or a move calls twice, with values that are not told apart here.
HandleButton(kind, state) == {IF (kind = "ButtonPress") = (state = "BUTTON_DOWN") THEN 1 ELSE 0}
HandleAxisTilt == {"min", "max"}
HandleAxisMove == {"x", "y"}

\* What an input with this filter calls; a filter of another kind than the input's
\* is "unknown filter", which is unreachable.
Calls(kind, state) ==
    CASE state \in {"BUTTON_DOWN", "BUTTON_UP"} /\ kind \in {"ButtonPress", "ButtonRelease"} -> HandleButton(kind, state)
      [] state = "AXIS_TILT" /\ kind = "AxisTilt" -> HandleAxisTilt
      [] state = "CURSOR_MOVE" /\ kind = "AxisMove" -> HandleAxisMove
      [] OTHER -> {}

Input(u, x) ==
    LET rows == {m \in u.device_mappings : m[1] = x.id /\ m[2] = x.code}
        calls(m) == {<<m[4], value>> : value \in Calls(u.filters[m[3]], x.state)}
    IN IF x.state \in {"AXIS_TRIGGER", "KEY_CHARACTER"} THEN u
       ELSE [Require(u, \A m \in rows : calls(m) # {}) EXCEPT !.called = UNION {calls(m) : m \in rows}]

HandleInput(u, x) ==
    IF x.type # "DeviceFound" /\ x.id \notin u.devices THEN Require(u, FALSE)
    ELSE CASE x.type = "DeviceFound" -> DeviceFound(u, x)
           [] x.type = "DeviceLost" -> DeviceLost(u, x)
           [] x.type = "AddSource" -> AddSource(u, x)
           [] x.type = "RemoveSource" -> RemoveSource(u, x)
           [] x.type = "Input" -> Input(u, x)

-----------------------------------------------------------------------------
(* update, one message at a time.                                          *)

HandleMessage ==
    /\ phase = "messages"
    /\ queue # <<>>
    /\ ui' = [Handle(ui, Head(queue)) EXCEPT !.called = {}]
    /\ queue' = Tail(queue)
    /\ UNCHANGED <<queue_input, phase, query, posts, reports>>

SetIfCleared(u, i) == IF u.contexts[i].has_device_mappings THEN u ELSE set_device_mappings(u, i)

Setting(u) ==
    LET setting[n \in 0 .. Len(u.contexts)] == IF n = 0 THEN u ELSE SetIfCleared(setting[n - 1], n)
    IN setting

SetAll(u) == Setting(u)[Len(u.contexts)]

SetContexts ==
    /\ phase = "messages"
    /\ queue = <<>>
    /\ ui' = SetAll([ui EXCEPT !.called = {}])
    /\ phase' = "input"
    /\ UNCHANGED <<queue, queue_input, query, posts, reports>>

HandleInputMessage ==
    /\ phase = "input"
    /\ queue_input # <<>>
    /\ ui' = HandleInput([ui EXCEPT !.called = {}], Head(queue_input))
    /\ queue_input' = Tail(queue_input)
    /\ UNCHANGED <<queue, phase, query, posts, reports>>

EndUpdate ==
    /\ phase = "input"
    /\ queue_input = <<>>
    /\ queue # <<>>
    /\ phase' = "messages"
    /\ ui' = [ui EXCEPT !.called = {}]
    /\ UNCHANGED <<queue, queue_input, query, posts, reports>>

UiUpdate == HandleMessage \/ SetContexts \/ HandleInputMessage \/ EndUpdate

-----------------------------------------------------------------------------
(* The client.                                                             *)

UiIds == UiDevices \cup {0}
FilterKinds == {"ButtonPress", "ButtonRelease", "AxisMove", "AxisTilt"}

UiMessage ==
    [type : {"AddFilter"}, mapping : UiMappings, code : Buttons \cup Axes, kind : FilterKinds]
        \cup [type : {"AddContext"}, context : UiContexts, states : Seq(UiStates)]
        \cup [type : {"RemoveContext"}, context : UiContexts]
        \cup [type : {"AddDevice", "RemoveDevice"}, context : UiContexts, id : UiIds]
        \cup [type : {"SetState"}, context : UiContexts, state : UiStates]
        \cup [type : {"Bind"}, context : UiContexts, state : UiStates, mapping : UiMappings, callback : UiStates]
        \cup [type : {"Unbind"}, context : UiContexts, state : UiStates, mapping : UiMappings]
        \cup [type : {"QueryDevices", "QueryContexts"}]

HasContext(u, c) == find_context(u, c) # 0
ContextOf(u, c) == u.contexts[find_context(u, c)]
BoundTo(u, c, s) == {b[2] : b \in {e \in ContextOf(u, c).bound : e[1] = s}}
BoundAnywhere(u) == {b[2] : b \in UNION {u.contexts[i].bound : i \in DOMAIN u.contexts}}
Filled(u, m) == {n[2] : n \in {e \in u.mappings : e[1] = m}}

\* What a client that knows what it has posted may post when ui is u.  A mapping is filled
\* before it is bound; devices that may be lost at any time are left to the default context.
Fits(u, x) ==
    /\ x.type = "AddFilter" =>
          /\ x.code \in UiCodes[x.mapping] \ Filled(u, x.mapping)
          /\ x.kind = UiKind[x.code]
          /\ x.mapping \notin BoundAnywhere(u)
    /\ x.type = "AddContext" => ~HasContext(u, x.context) /\ Range(x.states) = UiStates
    /\ x.type \in {"RemoveContext", "SetState", "Bind", "Unbind", "AddDevice", "RemoveDevice"} => HasContext(u, x.context)
    /\ x.type = "Bind" =>
          /\ UiUser[x.mapping] = x.context
          /\ Filled(u, x.mapping) = UiCodes[x.mapping]
          /\ x.mapping \notin BoundTo(u, x.context, x.state)
          /\ \A n \in BoundTo(u, x.context, x.state) : UiCodes[n] \cap UiCodes[x.mapping] = {}
    /\ x.type = "Unbind" => x.mapping \in BoundTo(u, x.context, x.state)
    /\ x.type = "AddDevice" => x.id \in (UiWired \cap u.devices) \ ContextOf(u, x.context).devices
    /\ x.type = "RemoveDevice" => x.id \in UiWired \cap ContextOf(u, x.context).devices

\* What ui is after each of the messages, if nothing else happens.
UiCourse(u, messages) ==
    LET course[n \in 0 .. Len(messages)] == IF n = 0 THEN u ELSE Handle(course[n - 1], messages[n])
    IN course

ASSUME UiStartupsAssumption ==
    \A startup \in UiStartups :
        /\ startup \in Seq(UiMessage)
        /\ \A n \in 1 .. Len(startup) : Fits(UiCourse(UiAtStart, startup)[n - 1], startup[n])

\* What ui is when all that is posted is handled.
Posted == UiCourse(ui, queue)[Len(queue)]

post(p, x) ==
    /\ Fits(p, x)
    /\ queue' = Append(queue, x)
    /\ posts' = posts + 1
    /\ UNCHANGED <<ui, queue_input, phase, query, reports>>

\* post_add_axis_move, post_add_axis_tilt, post_add_button_press and _release.
post_add_filter(p, m, c) == post(p, [type |-> "AddFilter", mapping |-> m, code |-> c, kind |-> UiKind[c]])
post_add_context(p, c) == post(p, [type |-> "AddContext", context |-> c, states |-> SetToSeq(UiStates)])
post_remove_context(p, c) == post(p, [type |-> "RemoveContext", context |-> c])
post_set_state(p, c, s) == post(p, [type |-> "SetState", context |-> c, state |-> s])
post_bind(p, c, s, m) == post(p, [type |-> "Bind", context |-> c, state |-> s, mapping |-> m, callback |-> s])
post_unbind(p, c, s, m) == post(p, [type |-> "Unbind", context |-> c, state |-> s, mapping |-> m])
post_add_device(p, c, d) == post(p, [type |-> "AddDevice", context |-> c, id |-> d])
post_remove_device(p, c, d) == post(p, [type |-> "RemoveDevice", context |-> c, id |-> d])

UiClient ==
    /\ posts < MaxPosts
    /\ Len(queue) < MaxWaiting
    /\ LET p == Posted IN
       \/ \E m \in UiMappings, c \in Buttons \cup Axes : post_add_filter(p, m, c)
       \/ \E c \in UiContexts :
             \/ post_add_context(p, c)
             \/ post_remove_context(p, c)
             \/ \E s \in UiStates :
                   \/ post_set_state(p, c, s)
                   \/ \E m \in UiMappings : post_bind(p, c, s, m) \/ post_unbind(p, c, s, m)
             \/ \E d \in UiIds : post_add_device(p, c, d) \/ post_remove_device(p, c, d)

-----------------------------------------------------------------------------
(* The devices: any messages ui has the rows for (DevicesX11 and           *)
(* DevicesUser32 show that theirs are).                                    *)

KnownBy(u) == [d \in u.devices |-> [sources |-> {s[2] : s \in {r \in u.device_sources : r[1] = d}}, level |-> DeviceValues]]
Known == Settled(KnownBy(ui), queue_input)

report(k, m) ==
    /\ Accepts(k, m)
    /\ queue_input' = Append(queue_input, m)
    /\ reports' = reports + 1
    /\ UNCHANGED <<ui, queue, phase, query, posts>>

notify_device_found(k, d) == report(k, [type |-> "DeviceFound", id |-> d])
notify_device_lost(k, d) == d \notin UiWired /\ report(k, [type |-> "DeviceLost", id |-> d])
notify_add_source(k, d, p) == report(k, [type |-> "AddSource", id |-> d, path |-> p])
notify_remove_source(k, d, p) == report(k, [type |-> "RemoveSource", id |-> d, path |-> p])
notify_input(k, m) == report(k, m)

UiReports ==
    /\ reports < MaxReports
    /\ Len(queue_input) < MaxWaiting
    /\ LET k == Known IN
       \E d \in UiDevices :
          \/ notify_device_found(k, d)
          \/ notify_device_lost(k, d)
          \/ \E p \in UiPaths : notify_add_source(k, d, p) \/ notify_remove_source(k, d, p)
          \/ \E b \in Buttons, down \in BOOLEAN : notify_input(k, ButtonStateInput(d, b, down))
          \/ \E a \in Axes : notify_input(k, IF UiKind[a] = "AxisMove" THEN [CursorMoveInput(d) EXCEPT !.code = a]
                                             ELSE AxisTiltInput(d, a, 1))

-----------------------------------------------------------------------------
(* The console: two queries, then it spins until both are answered.        *)

post_query_devices ==
    /\ query = "idle"
    /\ posts + 2 <= MaxPosts
    /\ posts' = posts + 2
    /\ queue' = Append(queue, [type |-> "QueryDevices"])
    /\ query' = "half"
    /\ UNCHANGED <<ui, queue_input, phase, reports>>

post_query_contexts ==
    /\ query = "half"
    /\ queue' = Append(queue, [type |-> "QueryContexts"])
    /\ query' = "waiting"
    /\ UNCHANGED <<ui, queue_input, phase, posts, reports>>

callback_print_devices ==
    /\ query = "waiting"
    /\ ui.ready >= 2
    /\ query' = "done"
    /\ UNCHANGED <<ui, queue, queue_input, phase, posts, reports>>

UiConsole == post_query_devices \/ post_query_contexts \/ callback_print_devices

UiNext == UiUpdate \/ UiClient \/ UiReports \/ UiConsole

UiSpec == UiInit /\ [][UiNext]_uiVars

-----------------------------------------------------------------------------
(* Properties.                                                             *)

(* While inputs are handled every device has exactly the filters that the  *)
(* active states of the contexts it is in bind, with their callbacks: none *)
(* stays from a state that was left, a context that was removed or a       *)
(* binding that was undone, and none is missing.  No debug_assert fails on *)
(* the way: mappings are set and cleared in turns and what is cleared is   *)
(* what was set, for clients that complete a mapping before they bind it,  *)
(* whatever devices are found and lost between their messages (ui.cpp,     *)
(* set_device_mappings and clear_device_mappings).                         *)
UiFiltersMatch ==
    /\ ui.ok
    /\ phase = "input" =>
        ui.device_mappings = UNION {Rows(ui, ui.contexts[i]) : i \in DOMAIN ui.contexts}

=============================================================================

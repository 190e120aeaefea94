-------------------------------- MODULE Mixer --------------------------------
(***************************************************************************)
(* The animation mixer (mixer.cpp): characters and models play actions of  *)
(* armatures and objects.  Assets and entities come in two queues, which   *)
(* update drains one after the other while other threads keep posting;     *)
(* then every playback moves a frame on and every component posts what it  *)
(* shows.                                                                  *)
(*                                                                         *)
(* An action is a record of its length, with what it shows left out;       *)
(* its frames are their numbers.  An object has one key more than that, as *)
(* the assertion at mixer.cpp:208 has it.  An update may crash: where it   *)
(* divides by the length of an action that has none, where it looks into   *)
(* the action of a component whose source does not have the one that was   *)
(* asked for, and, in a build with assertions, where it finds a playback   *)
(* finished already.  What is said of messages for entities and assets     *)
(* that are not there is that of a build without assertions: nothing       *)
(* happens.  Armatures and objects are referred to by their assets: the    *)
(* code's pointers into the table of sources are invalid after the table   *)
(* has grown, so that is about sources that are registered before they are *)
(* used.                                                                   *)
(***************************************************************************)
EXTENDS Integers, Sequences, FiniteSets

CONSTANTS
    MixerScripts,   \* what may be posted, as sequences of messages
    MaxFrames       \* bound: calls of update

VARIABLES
    sources,        \* armatures and objects by asset, with their actions
    components,     \* Characters and Models by entity
    mixers,         \* Playbacks and ObjectPlaybacks by Mixer
    next_mixer_key,
    queues,         \* queue_assets and queue_entities
    draining,       \* the queue that update is at
    shown,          \* what the last update posted, by entity
    finishes,       \* the entities of the onFinish calls of the last update
    fault,          \* why update has crashed, if it has
    mscript,        \* what is still to be posted
    frames,         \* the updates that have ended
    asked,          \* ghost: the action a component was last given and when
    left            \* ghost: how many components were removed with a mixer

mixerVars == <<sources, components, mixers, next_mixer_key, queues, draining, shown, finishes, fault, mscript, frames, asked, left>>

invalid_mixer == -1
nullptr == "nullptr"

MixerMessages == UNION {{script[i] : i \in DOMAIN script} : script \in MixerScripts}

\* The messages carry what their types say: actions have a length, and
\* nullptr is the name of none.
ASSUME MixerAssumption ==
    /\ MixerScripts \subseteq Seq(MixerMessages)
    /\ \A x \in MixerMessages :
         /\ x.type \in {"armature", "object"} =>
               nullptr \notin DOMAIN x.actions /\ \A a \in DOMAIN x.actions : x.actions[a].length \in Nat
         /\ x.type = "UpdateAction" => x.repetative \in BOOLEAN

Character(armature) == [type |-> "Character", source |-> armature, mixer |-> invalid_mixer]
Model(object) == [type |-> "Model", source |-> object, mixer |-> invalid_mixer]

Playback(source, action, repeat) ==
    [type |-> "Playback", source |-> source, action |-> action, repeat |-> repeat, finished |-> FALSE, framei |-> 0]
ObjectPlayback(source, action, repeat) ==
    [type |-> "ObjectPlayback", source |-> source, action |-> action, repeat |-> repeat, finished |-> FALSE, framei |-> 0]

ActionOf(x) == sources[x.source].actions[x.action]
Without(f, key) == [x \in DOMAIN f \ {key} |-> f[x]]
Stored(f, key, value) == [x \in DOMAIN f \cup {key} |-> IF x = key THEN value ELSE f[x]]
StoredOnce(f, key, value) == IF key \in DOMAIN f THEN f ELSE Stored(f, key, value)

-----------------------------------------------------------------------------
(* Messages.  A component is erased without the mixer it plays.            *)

RegisterSource(x) ==
    /\ sources' = StoredOnce(sources, x.asset, [type |-> x.type, actions |-> x.actions])
    /\ UNCHANGED <<components, mixers, next_mixer_key, asked, left>>

AddComponent(x, type, component) ==
    LET isSource == x.source \in DOMAIN sources /\ sources[x.source].type = type
    IN /\ components' = IF isSource THEN StoredOnce(components, x.entity, component) ELSE components
       /\ UNCHANGED <<sources, mixers, next_mixer_key, asked, left>>

MakePlayback(component, action, repeat) ==
    IF component.type = "Character" THEN Playback(component.source, action, repeat)
    ELSE ObjectPlayback(component.source, action, repeat)

\* set_action that keeps the mixer of before.
set_action_keeps(x) ==
    LET component == components[x.entity]
        action == IF x.name \in DOMAIN sources[component.source].actions THEN x.name ELSE nullptr
    IN /\ mixers' = Stored(mixers, next_mixer_key, MakePlayback(component, action, x.repetative))
       /\ components' = [components EXCEPT ![x.entity].mixer = next_mixer_key]
       /\ next_mixer_key' = next_mixer_key + 1
       /\ asked' = Stored(asked, x.entity, [action |-> action, repeat |-> x.repetative, since |-> frames])
       /\ UNCHANGED <<sources, left>>

set_action(x) ==
    LET component == components[x.entity]
        action == IF x.name \in DOMAIN sources[component.source].actions THEN x.name ELSE nullptr
    IN /\ mixers' = Stored(Without(mixers, component.mixer), next_mixer_key,
                           MakePlayback(component, action, x.repetative))
       /\ components' = [components EXCEPT ![x.entity].mixer = next_mixer_key]
       /\ next_mixer_key' = next_mixer_key + 1
       /\ asked' = Stored(asked, x.entity, [action |-> action, repeat |-> x.repetative, since |-> frames])
       /\ UNCHANGED <<sources, left>>

RemoveComponent(x) ==
    /\ components' = Without(components, x.entity) /\ asked' = Without(asked, x.entity)
    /\ left' = IF components[x.entity].mixer = invalid_mixer THEN left ELSE left + 1
    /\ UNCHANGED <<sources, mixers, next_mixer_key>>

Nowhere(x) == x.entity \notin DOMAIN components /\ UNCHANGED <<sources, components, mixers, next_mixer_key, asked, left>>

ProcessEntity(x) ==
    \/ x.type = "AddCharacter" /\ AddComponent(x, "armature", Character(x.source))
    \/ x.type = "AddModel" /\ AddComponent(x, "object", Model(x.source))
    \/ x.type = "UpdateAction" /\ x.entity \in DOMAIN components /\ set_action(x)
    \/ x.type = "Remove" /\ x.entity \in DOMAIN components /\ RemoveComponent(x)
    \/ x.type \in {"UpdateAction", "Remove"} /\ Nowhere(x)

-----------------------------------------------------------------------------
(* A frame.                                                                *)

\* A playback that is not to be repeated is finished and starts again.
PlaybackUpdate(x) ==
    IF x.action = nullptr THEN x
    ELSE LET length == ActionOf(x).length
             over == x.framei + 1 >= length
         IN [x EXCEPT !.framei = (@ + 1) % length, !.finished = @ \/ (over /\ ~x.repeat)]

ObjectPlaybackUpdate(x) ==
    IF x.action = nullptr THEN x
    ELSE LET length == ActionOf(x).length
         IN CASE x.framei + 1 < length -> [x EXCEPT !.framei = @ + 1]
              [] x.framei + 1 >= length /\ x.repeat -> [x EXCEPT !.framei = (@ + 1) % length]
              [] OTHER -> [x EXCEPT !.finished = TRUE, !.framei = length]

MixerUpdate(x) == IF x.type = "Playback" THEN PlaybackUpdate(x) ELSE ObjectPlaybackUpdate(x)

\* What x % 0 does, for an action of no length.
Divides(x) == x.action # nullptr /\ ActionOf(x).length = 0 /\ (x.type = "Playback" \/ x.repeat)

\* The matrices of the joints, and the key of an object: what a frame shows.
PoseOf(x) == <<x.action, x.framei>>

Playing(cs, type) == {e \in DOMAIN cs : cs[e].type = type /\ cs[e].mixer # invalid_mixer}

\* The pallet, and the movements if the action has any; a model posts the
\* translation of its frame, and drops a playback that has finished.
finalizeShown(played) ==
    [e \in Playing(components, "Character") \cup Playing(components, "Model") |->
        PoseOf(played[components[e].mixer])]

finalizeFinished(played, type) == {e \in Playing(components, type) : played[components[e].mixer].finished}

\* debug_assert(!finished): a playback that finishes is dropped, unless no component has it.
Overdue == {m \in DOMAIN mixers : mixers[m].type = "ObjectPlayback" /\ mixers[m].finished}

\* extract_position_movement and extract_translation look into the action.
Dereferences == {e \in DOMAIN components : components[e].mixer # invalid_mixer /\ mixers[components[e].mixer].action = nullptr}

Finalize(played) ==
    LET over == finalizeFinished(played, "Model")
        dropped == {components[e].mixer : e \in over}
    IN /\ shown' = finalizeShown(played)
       /\ finishes' = finalizeFinished(played, "Character")
       /\ mixers' = [m \in DOMAIN played \ dropped |-> played[m]]
       /\ components' = [e \in DOMAIN components |->
                            IF e \in over THEN [components[e] EXCEPT !.mixer = invalid_mixer] ELSE components[e]]

MixerCrashes ==
    /\ \/ fault' = "division" /\ \E m \in DOMAIN mixers : Divides(mixers[m])
       \/ fault' = "assertion" /\ Overdue # {}
       \/ fault' = "action" /\ Dereferences # {} /\ \A m \in DOMAIN mixers : ~Divides(mixers[m])
    /\ UNCHANGED <<draining, frames, shown, finishes, mixers, components>>

MixerEnds ==
    /\ Dereferences = {} /\ \A m \in DOMAIN mixers : ~Divides(mixers[m])
    /\ Finalize([m \in DOMAIN mixers |-> MixerUpdate(mixers[m])])
    /\ frames' = frames + 1 /\ draining' = "assets" /\ UNCHANGED fault

MixerFrame ==
    /\ draining = "frame" /\ frames < MaxFrames /\ fault = nullptr
    /\ MixerCrashes \/ MixerEnds
    /\ UNCHANGED <<sources, next_mixer_key, queues, mscript, asked, left>>

-----------------------------------------------------------------------------

MixerInit ==
    /\ sources = <<>> /\ components = <<>> /\ mixers = <<>> /\ next_mixer_key = 0
    /\ queues = [assets |-> <<>>, entities |-> <<>>] /\ draining = "assets"
    /\ shown = <<>> /\ finishes = {} /\ fault = nullptr
    /\ mscript \in MixerScripts /\ frames = 0 /\ asked = <<>> /\ left = 0

Drain(q, next, Process(_)) ==
    /\ draining = q /\ fault = nullptr
    /\ \/ /\ queues[q] # <<>>
          /\ Process(Head(queues[q]))
          /\ queues' = [queues EXCEPT ![q] = Tail(@)] /\ UNCHANGED draining
       \/ /\ queues[q] = <<>>
          /\ draining' = next /\ UNCHANGED <<queues, sources, components, mixers, next_mixer_key, asked, left>>
    /\ UNCHANGED <<shown, finishes, fault, mscript, frames>>

DrainAssets == frames < MaxFrames /\ Drain("assets", "entities", RegisterSource)
DrainEntities == Drain("entities", "frame", ProcessEntity)

QueueOf(x) == IF x.type \in {"armature", "object"} THEN "assets" ELSE "entities"

post ==
    /\ mscript # <<>> /\ mscript' = Tail(mscript)
    /\ queues' = [queues EXCEPT ![QueueOf(Head(mscript))] = Append(@, Head(mscript))]
    /\ UNCHANGED <<sources, components, mixers, next_mixer_key, draining, shown, finishes, fault, frames, asked, left>>

MixerNext == DrainAssets \/ DrainEntities \/ MixerFrame \/ post

MixerSpec == MixerInit /\ [][MixerNext]_mixerVars

-----------------------------------------------------------------------------
(* Properties.                                                             *)

\* The frame an entity should be at: it moves a frame on in every update
\* since it was given its action.
FrameDue(type, a, length, ticks) ==
    IF type = "Model" /\ ~a.repeat /\ ticks >= length THEN length ELSE ticks % length

\* However actions, updates and removals interleave: no two components play
\* the same mixer, a component plays the action it was last given at the
\* frame that its age gives, a model that has come to the end of an action
\* played once plays nothing, so that no update finds it finished, and every
\* other playback is what a removed component left behind (mixer.cpp
\* set_action, update, finalize).
PlaybacksDue ==
    /\ \A e, f \in DOMAIN components :
           components[e].mixer # invalid_mixer /\ components[e].mixer = components[f].mixer => e = f
    /\ \A e \in DOMAIN components :
           LET c == components[e]
               x == mixers[c.mixer]
               ticks == frames - asked[e].since
               length == sources[c.source].actions[asked[e].action].length
           IN \/ c.mixer = invalid_mixer /\ e \notin DOMAIN asked
              \/ c.mixer = invalid_mixer /\ c.type = "Model" /\ ~asked[e].repeat /\ ticks >= length
              \/ /\ c.mixer # invalid_mixer /\ x.action = asked[e].action
                 /\ c.type = "Model" => ~x.finished
                 /\ x.action # nullptr /\ length > 0 =>
                       /\ x.framei = FrameDue(c.type, asked[e], length, ticks)
                       /\ x.finished <=> (~x.repeat /\ ticks >= length)
    /\ Cardinality(DOMAIN mixers) = left + Cardinality(Playing(components, "Character") \cup Playing(components, "Model"))

\* No update goes by while a component is to play an action that its armature
\* or object does not have: the next one crashes (mixer.cpp:162, 172, 227).
\* And only there it does, or because some action has no length, or on the
\* assertion that a playback is not finished (mixer.cpp:199), which only one
\* that a removed component left behind can fail.
CrashesExplained ==
    /\ \A e \in DOMAIN asked : asked[e].action = nullptr => asked[e].since = frames
    /\ fault = "action" => \E e \in DOMAIN asked : asked[e].action = nullptr
    /\ fault = "division" => \E s \in DOMAIN sources : \E n \in DOMAIN sources[s].actions : sources[s].actions[n].length = 0
    /\ fault = "assertion" => \E m \in Overdue : \A e \in DOMAIN components : components[e].mixer # m

\* Both, in every state up to the one that an update crashed in, and in that.
MixerPlays == PlaybacksDue /\ CrashesExplained

=============================================================================

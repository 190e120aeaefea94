------------------------------- MODULE Physics -------------------------------
(***************************************************************************)
(* The simulation of physics.cpp: cameras, which are moved by direct calls *)
(* and kept inside the bounds, and objects, which are changed by messages  *)
(* that the owner of the simulation reads in update_start.                 *)
(*                                                                         *)
(* The three coordinates are treated alike and one stands for them; an     *)
(* orientation is 1 or -1 and turns a movement around.                     *)
(***************************************************************************)
EXTENDS Integers, Sequences, FiniteSets

CONSTANTS
    PhysicsScripts, \* what may be called, as sequences of calls
    CameraCells,    \* utility::static_storage<10, Camera>
    Unbounded       \* std::numeric_limits<float>::max()

VARIABLES
    physics,        \* bounds, cameras, objects, and queue_entities
    cameraPosts,    \* the translation last posted to the viewer, by camera
    matrixPosts,    \* what the last update_finish posted to the renderer
    pcalls          \* the calls still to be made

physicsVars == <<physics, cameraPosts, matrixPosts, pcalls>>

PhysicsCalls == UNION {{script[i] : i \in DOMAIN script} : script \in PhysicsScripts}

\* The arguments have their types, and bounds are what set asserts of them.
ASSUME PhysicsAssumption ==
    /\ Unbounded \in Nat
    /\ PhysicsScripts \subseteq Seq(PhysicsCalls)
    /\ \A x \in PhysicsCalls :
         /\ x.type = "set" => x.bounds \in Int \X Int /\ x.bounds[1] <= x.bounds[2]
         /\ x.type = "add" => x.position \in Int /\ x.bounded \in BOOLEAN
         /\ x.type = "update" => x.movement \in Int

object_t(position, orientation) == [position |-> position, orientation |-> orientation]

-----------------------------------------------------------------------------
(* Cameras.                                                                *)

Clamped(x, b) == IF x < b[1] THEN b[1] ELSE IF x > b[2] THEN b[2] ELSE x

CameraUpdate(camera, movement, b) ==
    [camera EXCEPT !.position = IF camera.bounded THEN Clamped(@ + movement, b) ELSE @ + movement]

\* Every camera of cs is updated and its translation posted.
UpdateCameras(p, cs, movement) ==
    LET cameras == [c \in DOMAIN p.cameras |->
                       IF c \in cs THEN CameraUpdate(p.cameras[c], movement, p.bounds) ELSE p.cameras[c]]
    IN /\ physics' = [p EXCEPT !.cameras = cameras]
       /\ cameraPosts' = [c \in DOMAIN cameraPosts \cup cs |->
                              IF c \in cs THEN cameras[c].position ELSE cameraPosts[c]]

\* set that leaves the cameras where they are.
SetForgetsCameras(b) == physics' = [physics EXCEPT !.bounds = b] /\ UNCHANGED cameraPosts

set(b) == UpdateCameras([physics EXCEPT !.bounds = b], DOMAIN physics.cameras, 0)

EmplaceCamera(cameras, id, camera) ==
    [c \in DOMAIN cameras \cup {id} |-> IF c = id THEN camera ELSE cameras[c]]

\* A camera that is known, or one too many, is not emplaced; a known one is
\* snapped all the same.
add(id, position, bounded) ==
    LET isNew == id \notin DOMAIN physics.cameras /\ Cardinality(DOMAIN physics.cameras) < CameraCells
        camera == [bounded |-> bounded, position |-> position]
        p == IF isNew THEN [physics EXCEPT !.cameras = EmplaceCamera(@, id, camera)] ELSE physics
    IN UpdateCameras(p, {id} \cap DOMAIN p.cameras, 0)

updateCamera(id, movement) == UpdateCameras(physics, {id} \cap DOMAIN physics.cameras, movement)

-----------------------------------------------------------------------------
(* Objects.                                                                *)

EmplaceObject(objects, id, object) ==
    [e \in DOMAIN objects \cup {id} |-> IF e \in DOMAIN objects THEN objects[e] ELSE object]

\* What is asserted before the emplace is that the object exists already.
AddObject(objects, x) ==
    IF x.entity \notin DOMAIN objects THEN objects
    ELSE EmplaceObject(objects, x.entity, object_t(x.transform[1], x.transform[2]))

RemoveObject(objects, x) == [e \in DOMAIN objects \ {x.entity} |-> objects[e]]

PhysicsMoved(objects, x) ==
    IF x.entity \notin DOMAIN objects THEN objects
    ELSE [objects EXCEPT ![x.entity].position = @ + x.movement * objects[x.entity].orientation]

Turned(objects, x) ==
    IF x.entity \notin DOMAIN objects THEN objects
    ELSE [objects EXCEPT ![x.entity].orientation = @ * x.movement]

Transformed(objects, x) ==
    IF x.entity \notin DOMAIN objects THEN objects ELSE [objects EXCEPT ![x.entity] = object_t(x.transform[1], x.transform[2])]

ProcessPhysics(objects, x) ==
    CASE x.type = "AddObject" -> AddObject(objects, x)
      [] x.type = "Remove" -> RemoveObject(objects, x)
      [] x.type = "UpdateMovement" -> PhysicsMoved(objects, x)
      [] x.type = "UpdateOrientationMovement" -> Turned(objects, x)
      [] x.type = "UpdateTransform" -> Transformed(objects, x)

\* One turn of the loop: the posting threads may post between two turns.
update_start ==
    /\ physics.queue # <<>>
    /\ physics' = [physics EXCEPT !.objects = ProcessPhysics(@, Head(physics.queue)), !.queue = Tail(@)]
    /\ UNCHANGED <<cameraPosts, matrixPosts, pcalls>>

update_finish ==
    LET objects == physics.objects
    IN /\ matrixPosts' = {<<e, objects[e].position, objects[e].orientation>> : e \in DOMAIN objects}
       /\ UNCHANGED <<physics, cameraPosts, pcalls>>

PhysicsPosted(p, x) == [p EXCEPT !.queue = Append(@, x)]

-----------------------------------------------------------------------------

PhysicsInit ==
    /\ physics = [bounds |-> <<-Unbounded, Unbounded>>, cameras |-> <<>>, objects |-> <<>>, queue |-> <<>>]
    /\ cameraPosts = <<>> /\ matrixPosts = {}
    /\ pcalls \in PhysicsScripts

PhysicsCall ==
    /\ pcalls # <<>> /\ pcalls' = Tail(pcalls) /\ UNCHANGED matrixPosts
    /\ LET x == Head(pcalls)
       IN \/ x.type = "set" /\ set(x.bounds)
          \/ x.type = "add" /\ add(x.id, x.position, x.bounded)
          \/ x.type = "update" /\ updateCamera(x.id, x.movement)
          \/ x.type \notin {"set", "add", "update"} /\ physics' = PhysicsPosted(physics, x) /\ UNCHANGED cameraPosts

PhysicsNext == PhysicsCall \/ update_start \/ update_finish

PhysicsSpec == PhysicsInit /\ [][PhysicsNext]_physicsVars

-----------------------------------------------------------------------------
(* Properties.                                                             *)

\* Whatever the cameras and the bounds went through, a bounded camera is
\* inside the bounds of now, and the viewer was last told where every camera
\* is: set and add snap (physics.cpp set, add, Camera::update).
CamerasInBounds ==
    \A c \in DOMAIN physics.cameras :
        LET camera == physics.cameras[c]
        IN /\ camera.bounded => physics.bounds[1] <= camera.position /\ camera.position <= physics.bounds[2]
           /\ cameraPosts[c] = camera.position

=============================================================================

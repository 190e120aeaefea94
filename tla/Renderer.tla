------------------------------- MODULE Renderer ------------------------------
(***************************************************************************)
(* engine::graphics::renderer (renderer.cpp): any thread posts messages,   *)
(* the game's thread sets the event once a frame, and the render thread,   *)
(* which runs one of the two OpenGL renderers, handles the messages that   *)
(* are there and draws.  The queues are those of PageQueue, whose promise  *)
(* is a FIFO.                                                              *)
(*                                                                         *)
(* scene is what the messages ask for, by value and in the order they are  *)
(* posted: it has no cells, no pointers and no threads.                    *)
(***************************************************************************)
EXTENDS RendererOpenGL30, RendererOpenGL12

CONSTANTS
    RendererPosters,    \* threads that post
    RendererScripts,    \* what they may post: a set of [type, scripts] records
    MaxUnread           \* bound: messages of theirs that wait for the render thread

\* Everything that is posted.
RendererMessages == UNION {Range(s.scripts[p]) : p \in RendererPosters, s \in RendererScripts}

ASSUME ScriptsAssumption ==
    \A s \in RendererScripts :
        s.type \in {"OPENGL_1_2", "OPENGL_3_0"} /\ s.scripts \in [RendererPosters -> Seq(RendererMessages)]

VARIABLES
    rtype,      \* renderer::Type
    message_queue, queue_select,
    entitytoggle,
    active, event,
    rpc,        \* where the render thread is
    gl,         \* the containers of the render thread
    drawn,      \* what the last frame drew
    answers,    \* what callback_select was called with
    scripts,    \* what is left to post
    scene,      \* what has been asked for
    destructor  \* where ~renderer is

rendererVars == <<rtype, message_queue, queue_select, entitytoggle, active, event, rpc, gl, drawn, answers, scripts, scene, destructor>>

NoScene == [meshes |-> <<>>, classes |-> <<>>, shaders |-> {}, textures |-> {}, materials |-> <<>>,
            objects |-> <<>>, flags |-> <<>>]

RendererInit ==
    /\ \E s \in RendererScripts : rtype = s.type /\ scripts = s.scripts
    /\ message_queue = <<>> /\ queue_select = <<>>
    /\ entitytoggle = 0
    /\ active = 1 /\ event = FALSE
    /\ rpc = "setup"
    /\ gl = SceneOf
    /\ drawn = {} /\ answers = <<>>
    /\ scene = NoScene
    /\ destructor = "no"

-----------------------------------------------------------------------------
(* What the messages mean.                                                 *)

Flags(s, e) == IF e \in DOMAIN s.flags THEN s.flags[e] ELSE {}

Asked(s, x) ==
    CASE x.type \in {"RegisterMesh", "RegisterCharacter"} -> [s EXCEPT !.meshes = Put(@, x.asset, x.mesh)]
      [] x.type = "RegisterMaterial" -> [s EXCEPT !.classes = Put(@, x.asset, [diffuse |-> x.diffuse, shader |-> x.shader])]
      [] x.type = "RegisterShader" -> [s EXCEPT !.shaders = IF x.links THEN @ \cup {x.asset} ELSE @]
      [] x.type = "RegisterTexture" -> [s EXCEPT !.textures = @ \cup {x.asset}]
      [] x.type = "Unregister" -> [s EXCEPT !.meshes = Drop(@, x.asset), !.classes = Drop(@, x.asset),
                                            !.shaders = @ \ {x.asset}, !.textures = @ \ {x.asset}]
      [] x.type = "CreateMaterialInstance" -> [s EXCEPT !.materials = Put(@, x.entity, x)]
      [] x.type = "Destroy" -> [s EXCEPT !.materials = Drop(@, x.entity)]
      [] x.type = "AddMeshObject" -> [s EXCEPT !.objects = Put(@, x.entity, x)]
      [] x.type = "UpdateModelviewMatrix" -> [s EXCEPT !.objects[x.entity].matrix = x.matrix]
      [] x.type = "Remove" -> [s EXCEPT !.objects = Drop(@, x.entity)]
      [] x.type = "MakeHighlighted" -> [s EXCEPT !.flags = Put(@, x.entity, Flags(s, x.entity) \cup {"highlighted_t"})]
      [] x.type = "MakeSelect" -> [s EXCEPT !.flags = Put(@, x.entity, Flags(s, x.entity) \cup {"selected_t"})]
      [] x.type = "MakeDehighlighted" -> [s EXCEPT !.flags = Put(@, x.entity, Flags(s, x.entity) \ {"highlighted_t"})]
      [] x.type = "MakeDeselect" -> [s EXCEPT !.flags = Put(@, x.entity, Flags(s, x.entity) \ {"selected_t"})]
      [] OTHER -> s

Class(s, x) == IF x.material \in DOMAIN s.materials THEN s.materials[x.material].materialclass ELSE NoToken

\* The diffuse colour, from the class or from the material.
Diffuse(s, x) ==
    IF x.material \notin DOMAIN s.materials THEN NoToken
    ELSE IF Class(s, x) \in DOMAIN s.classes /\ s.classes[Class(s, x)].diffuse # NoToken THEN s.classes[Class(s, x)].diffuse
    ELSE s.materials[x.material].diffuse

ShaderOf(s, x) == IF Class(s, x) \in DOMAIN s.classes THEN s.classes[Class(s, x)].shader ELSE NoToken

Picture(s) ==
    LET object(e) == s.objects[e]
    IN IF rtype = "OPENGL_1_2"
       THEN {[entity |-> e, matrix |-> object(e).matrix, mesh |-> s.meshes[object(e).mesh],
              look |-> Diffuse(s, object(e))] : e \in DOMAIN s.objects}
       ELSE {[entity |-> e, matrix |-> object(e).matrix, mesh |-> s.meshes[object(e).mesh],
              look |-> [diffuse |-> Diffuse(s, object(e)),
                        textures |-> s.materials[object(e).material].textures \cap s.textures,
                        shader |-> ShaderOf(s, object(e))],
              flags |-> Flags(s, e)] : e \in {d \in DOMAIN s.objects : ShaderOf(s, object(d)) \in s.shaders}}

-----------------------------------------------------------------------------
(* The other threads.                                                      *)

\* All the post_ functions, toggle_down, toggle_up and post_select.
PostNext(p) ==
    /\ scripts[p] # <<>>
    /\ Len(message_queue) < MaxUnread
    /\ scripts' = [scripts EXCEPT ![p] = Tail(@)]
    /\ LET x == Head(scripts[p]) IN
       CASE x.type = "toggle_down" ->
              entitytoggle' = entitytoggle + 1 /\ UNCHANGED <<message_queue, queue_select, scene>>
         [] x.type = "toggle_up" ->
              entitytoggle' = entitytoggle - 1 /\ UNCHANGED <<message_queue, queue_select, scene>>
         [] x.type = "select" ->
              queue_select' = Append(queue_select, x) /\ UNCHANGED <<message_queue, entitytoggle, scene>>
         [] OTHER ->
              /\ message_queue' = Append(message_queue, x)
              /\ scene' = Asked(scene, x)
              /\ UNCHANGED <<queue_select, entitytoggle>>
    /\ UNCHANGED <<rtype, active, event, rpc, gl, drawn, answers, destructor>>

\* update(renderer).
update ==
    /\ destructor = "no"
    /\ ~event
    /\ event' = TRUE
    /\ UNCHANGED <<rtype, message_queue, queue_select, entitytoggle, active, rpc, gl, drawn, answers, scripts, scene, destructor>>

\* ~renderer, when no other thread uses it any more.
DestructorStore ==
    /\ destructor = "no"
    /\ \A p \in RendererPosters : scripts[p] = <<>>
    /\ active' = 0
    /\ destructor' = "set"
    /\ UNCHANGED <<rtype, message_queue, queue_select, entitytoggle, event, rpc, gl, drawn, answers, scripts, scene>>

\* Mutant: the render thread is not woken.
DestructorSetForgotten ==
    /\ destructor = "set"
    /\ destructor' = "join"
    /\ UNCHANGED <<rtype, message_queue, queue_select, entitytoggle, active, event, rpc, gl, drawn, answers, scripts, scene>>

DestructorSet ==
    /\ destructor = "set"
    /\ event' = TRUE
    /\ destructor' = "join"
    /\ UNCHANGED <<rtype, message_queue, queue_select, entitytoggle, active, rpc, gl, drawn, answers, scripts, scene>>

DestructorJoin ==
    /\ destructor = "join"
    /\ rpc = "done"
    /\ destructor' = "returned"
    /\ UNCHANGED <<rtype, message_queue, queue_select, entitytoggle, active, event, rpc, gl, drawn, answers, scripts, scene>>

-----------------------------------------------------------------------------
(* The render thread.                                                      *)

render_setup ==
    /\ rpc = "setup"
    /\ rpc' = "wait"
    /\ message_queue' = IF rtype = "OPENGL_3_0" THEN Append(message_queue, EntityShader) ELSE message_queue
    /\ UNCHANGED <<rtype, queue_select, entitytoggle, active, event, gl, drawn, answers, scripts, scene, destructor>>

Wait ==
    /\ rpc = "wait" /\ event
    /\ rpc' = "reset"
    /\ UNCHANGED <<rtype, message_queue, queue_select, entitytoggle, active, event, gl, drawn, answers, scripts, scene, destructor>>

Reset ==
    /\ rpc = "reset"
    /\ event' = FALSE
    /\ rpc' = "test"
    /\ UNCHANGED <<rtype, message_queue, queue_select, entitytoggle, active, gl, drawn, answers, scripts, scene, destructor>>

TestActive ==
    /\ rpc = "test"
    /\ rpc' = IF active = 1 THEN "poll" ELSE "teardown"
    /\ UNCHANGED <<rtype, message_queue, queue_select, entitytoggle, active, event, gl, drawn, answers, scripts, scene, destructor>>

\* poll_queues, one message.
PollMessage ==
    /\ rpc = "poll" /\ message_queue # <<>>
    /\ message_queue' = Tail(message_queue)
    /\ gl' = IF rtype = "OPENGL_3_0" THEN ProcessMessage30(gl, Head(message_queue)) ELSE ProcessMessage12(gl, Head(message_queue))
    /\ UNCHANGED <<rtype, queue_select, entitytoggle, active, event, rpc, drawn, answers, scripts, scene, destructor>>

\* The end of poll_queues; without a framebuffer the frame ends here, too.
PollEnd ==
    /\ rpc = "poll" /\ message_queue = <<>>
    /\ gl' = IF rtype = "OPENGL_3_0" THEN maybe_resize_framebuffer30(gl) ELSE maybe_resize_framebuffer12(gl)
    /\ rpc' = IF gl'.framebuffer[1] = 0 \/ gl'.framebuffer[2] = 0 THEN "wait" ELSE "select"
    /\ UNCHANGED <<rtype, message_queue, queue_select, entitytoggle, active, event, drawn, answers, scripts, scene, destructor>>

\* The entity buffer has been drawn; one of the selects is answered.
Answer ==
    /\ rpc = "select" /\ queue_select # <<>>
    /\ queue_select' = Tail(queue_select)
    /\ LET x == Head(queue_select) IN
       \E entity \in IF rtype = "OPENGL_3_0" THEN get_entity_at_screen30(gl, x.x, x.y) ELSE get_entity_at_screen12(gl, x.x, x.y) :
           answers' = Append(answers, <<x.entity, entity>>)
    /\ UNCHANGED <<rtype, message_queue, entitytoggle, active, event, rpc, gl, drawn, scripts, scene, destructor>>

\* The rest of render_update.
Draw ==
    /\ rpc = "select" /\ queue_select = <<>>
    /\ drawn' = IF rtype = "OPENGL_3_0" THEN render_update30(gl) ELSE render_update12(gl)
    /\ rpc' = "drawn"
    /\ UNCHANGED <<rtype, message_queue, queue_select, entitytoggle, active, event, gl, answers, scripts, scene, destructor>>

\* The buffers are swapped.
Swap ==
    /\ rpc = "drawn"
    /\ rpc' = "wait"
    /\ UNCHANGED <<rtype, message_queue, queue_select, entitytoggle, active, event, gl, drawn, answers, scripts, scene, destructor>>

render_teardown ==
    /\ rpc = "teardown"
    /\ rpc' = "done"
    /\ UNCHANGED <<rtype, message_queue, queue_select, entitytoggle, active, event, gl, drawn, answers, scripts, scene, destructor>>

RenderThread ==
    \/ render_setup \/ Wait \/ Reset \/ TestActive
    \/ PollMessage \/ PollEnd \/ Answer \/ Draw \/ Swap \/ render_teardown

RendererNext ==
    \/ \E p \in RendererPosters : PostNext(p)
    \/ update \/ DestructorStore \/ DestructorSet \/ DestructorJoin
    \/ RenderThread

RendererSpec == RendererInit /\ [][RendererNext]_rendererVars

-----------------------------------------------------------------------------
(* What the posting threads keep to, together: the code asserts most of it *)
(* where a message is handled, and the scene says what it means where it   *)
(* is posted.                                                              *)

Calls == {"toggle_down", "toggle_up", "select"}

MessageTypes ==
    {"AddDisplay", "RemoveDisplay", "UpdateDisplayCamera2D", "UpdateDisplayCamera3D", "UpdateDisplayViewport",
     "RegisterMesh", "RegisterCharacter", "RegisterMaterial", "RegisterShader", "RegisterTexture", "Unregister",
     "CreateMaterialInstance", "Destroy", "AddMeshObject", "Remove", "UpdateCharacterSkinning", "UpdateModelviewMatrix",
     "MakeObstruction", "MakeSelectable", "MakeTransparent",
     "MakeHighlighted", "MakeSelect", "MakeDehighlighted", "MakeDeselect", "MakeClearSelection"}

\* A token that names something, and nothing in the scene or of the renderer's own.
Unused(s, asset) ==
    asset \notin DOMAIN s.meshes \cup DOMAIN s.classes \cup s.shaders \cup s.textures \cup {NoToken, entity_shader_asset}

\* Assets are registered once, except that OpenGL 1.2 lets a mesh be replaced by a mesh and
\* a class by a class; they are unregistered when no object uses them; OpenGL 3.0 draws with
\* shaders and OpenGL 1.2 without; and there is room.
Fits(s, x) ==
    /\ x.type \in MessageTypes
    /\ x.type \in {"RegisterMesh", "RegisterCharacter"} =>
          \/ Unused(s, x.asset) /\ Cardinality(DOMAIN s.meshes) < MeshCells
          \/ rtype = "OPENGL_1_2" /\ x.type = "RegisterMesh" /\ x.asset \in DOMAIN s.meshes
    /\ x.type = "RegisterMaterial" =>
          /\ Unused(s, x.asset) \/ (rtype = "OPENGL_1_2" /\ x.asset \in DOMAIN s.classes)
          /\ x.shader # entity_shader_asset
          /\ (x.shader = NoToken) <=> (rtype = "OPENGL_1_2")
    /\ x.type = "RegisterShader" => x.links \in BOOLEAN /\ (x.links => Unused(s, x.asset))
    /\ x.type = "RegisterTexture" => Unused(s, x.asset)
    /\ x.type = "Unregister" => x.asset # entity_shader_asset /\ \A e \in DOMAIN s.objects : s.objects[e].mesh # x.asset
    /\ x.type = "AddMeshObject" =>
          /\ {"mesh", "material", "matrix"} \subseteq DOMAIN x
          /\ x.mesh \in DOMAIN s.meshes
          /\ x.entity \in DOMAIN s.objects \/ Cardinality(DOMAIN s.objects) < ObjectCells

\* What is posted fits what has been asked for.
Mannerly ==
    \A p \in RendererPosters :
        PostNext(p) => Head(scripts[p]).type \in Calls \/ Fits(scene, Head(scripts[p]))

-----------------------------------------------------------------------------
(* Properties.                                                             *)

\* A frame that is drawn when nothing is left to handle shows what was asked for: every
\* object with the transform, the mesh, the colour and the textures of the last messages
\* about them, although components keep pointers into cells that are freed and used again
\* (AddMeshObject, Remove, Unregister, and replace in OpenGL 1.2).
RendererDrawsScene ==
    rpc = "drawn" /\ message_queue = <<>> => drawn = Picture(scene)

\* Once ~renderer is called it returns: the render thread does not sleep through it,
\* whatever it was about to do when active was cleared and the event set.
RendererStops == (destructor = "set") ~> (destructor = "returned")

=============================================================================

-------------------------------- MODULE Viewer -------------------------------
(***************************************************************************)
(* engine::graphics::viewer (viewer.cpp): a tree of splits and frames that *)
(* divides the window, and cameras bound to the frames.  Clients post      *)
(* messages, the window's thread tells the dimension through an exchange   *)
(* queue, and update, on the game's thread, turns them into displays of    *)
(* the renderer, message by message, while the renderer handles them.      *)
(*                                                                         *)
(* Clients add children to splits, and to a place that has had none:       *)
(* add_child asserts it, though removing a node leaves its name there.     *)
(* That there is room for ten nodes of a kind is left out.                 *)
(***************************************************************************)
EXTENDS Renderer

CONSTANTS
    ViewerScripts,      \* what the client may post: sequences of messages
    Dimensions,         \* the sequence of dimensions the window gets
    RootFrame           \* engine::graphics::root_frame

VARIABLES
    queue_messages, queue_resize,
    view,           \* nodes, cameras, projections, viewports and dimension
    vpc,            \* where update is
    rebuild,        \* rebuild_viewports and rebuild_matrices
    notifications,  \* what update still has to post to the renderer
    vscript,        \* what is left to post
    resized,        \* how many of Dimensions the window has had
    built,          \* ghost: the view when the displays were rebuilt last
    unseen          \* ghost: what was added or removed since, and the matrices of what

viewerVars == <<queue_messages, queue_resize, view, vpc, rebuild, notifications, vscript, resized, built, unseen>>

ViewerInit ==
    /\ queue_messages = <<>> /\ queue_resize = <<>>
    /\ view = [nodes |-> RootFrame :> [type |-> "Root", children |-> <<NoToken>>],
               cameras |-> <<>>, projections |-> <<>>, viewports |-> <<>>, dimension |-> <<0, 0>>]
    /\ vpc = "idle"
    /\ rebuild = {}
    /\ notifications = <<>>
    /\ vscript \in ViewerScripts
    /\ resized = 0
    /\ built = view
    /\ unseen = [places |-> {}, matrices |-> {}]

-----------------------------------------------------------------------------
(* ProcessMessage.  A frame has a camera, a split two children by slot.    *)

Frames == {"DynamicFrame", "FixedFrame"}

AddCamera(v, x) ==
    [v EXCEPT !.cameras = Put(@, x.entity, [projection_3d |-> x.projection_3d, projection_2d |-> x.projection_2d,
                                            rotation |-> x.rotation, translation |-> x.translation])]

add_child(v, x) == [v EXCEPT !.nodes[x.parent].children[x.slot + 1] = x.asset]

\* nodes.emplace refuses an asset that is there.
AddNode(v, x, node) ==
    IF x.parent \notin DOMAIN v.nodes THEN v
    ELSE [add_child(v, x) EXCEPT !.nodes = IF x.asset \in DOMAIN @ THEN @ ELSE Put(@, x.asset, node)]

AddFrame(v, x) == AddNode(v, x, [type |-> x.frame, camera |-> NoToken])
AddSplit(v, x) == AddNode(v, x, [type |-> x.split, children |-> <<NoToken, NoToken>>])

\* projections.emplace for an orthographic one, replace for a perspective.
AddProjection(v, x) ==
    IF x.type = "AddProjectionOrthographic" /\ x.asset \in DOMAIN v.projections THEN v
    ELSE [v EXCEPT !.projections = Put(@, x.asset, [kind |-> IF x.type = "AddProjectionOrthographic" THEN "Orthographic" ELSE "Perspective",
                                                    data |-> x.data])]

bind_camera_to_frame(v, frame, camera) == [v EXCEPT !.nodes[frame].camera = camera]
unbind_camera_from_frame(v, frame) == [v EXCEPT !.nodes[frame].camera = NoToken]

Bind(v, x) == IF x.frame \notin DOMAIN v.nodes THEN v ELSE bind_camera_to_frame(v, x.frame, x.camera)
Unbind(v, x) == IF x.frame \notin DOMAIN v.nodes THEN v ELSE unbind_camera_from_frame(v, x.frame)

RemoveCamera(v, x) == [v EXCEPT !.cameras = Drop(@, x.entity)]
RemoveProjection(v, x) == [v EXCEPT !.projections = Drop(@, x.asset)]

\* Frames and splits alike; the parent keeps the name of its child.
RemoveNode(v, x) == [v EXCEPT !.nodes = Drop(@, x.asset)]

update_camera(c, x) ==
    CASE x.type = "UpdateCameraProjection" -> [c EXCEPT !.projection_3d = x.projection_3d, !.projection_2d = x.projection_2d]
      [] x.type = "UpdateCameraRotate" -> [c EXCEPT !.rotation = @ + x.rotation]
      [] x.type = "UpdateCameraRotation" -> [c EXCEPT !.rotation = x.rotation]
      [] x.type = "UpdateCameraTranslate" -> [c EXCEPT !.translation = @ + x.translation]
      [] x.type = "UpdateCameraTranslation" -> [c EXCEPT !.translation = x.translation]

UpdateCamera(v, x) ==
    IF x.entity \notin DOMAIN v.cameras THEN v ELSE [v EXCEPT !.cameras[x.entity] = update_camera(@, x)]

ViewerMessage(v, x) ==
    CASE x.type = "AddCamera" -> AddCamera(v, x)
      [] x.type = "AddFrame" -> AddFrame(v, x)
      [] x.type = "AddSplit" -> AddSplit(v, x)
      [] x.type \in {"AddProjectionOrthographic", "AddProjectionPerspective"} -> AddProjection(v, x)
      [] x.type = "Bind" -> Bind(v, x)
      [] x.type = "Unbind" -> Unbind(v, x)
      [] x.type = "RemoveCamera" -> RemoveCamera(v, x)
      [] x.type = "RemoveProjection" -> RemoveProjection(v, x)
      [] x.type \in {"RemoveFrame", "RemoveSplit"} -> RemoveNode(v, x)
      [] OTHER -> UpdateCamera(v, x)

\* What a message makes update rebuild.
Rebuilds(v, x) ==
    CASE x.type \in {"Bind", "Unbind"} /\ x.frame \in DOMAIN v.nodes -> {"viewports"}
      [] x.type \in {"UpdateCameraProjection", "UpdateCameraRotate", "UpdateCameraRotation",
                     "UpdateCameraTranslate", "UpdateCameraTranslation"} /\ x.entity \in DOMAIN v.cameras -> {"matrices"}
      [] OTHER -> {}

-----------------------------------------------------------------------------
(* Viewports and matrices.                                                 *)

\* The areas of the two children: bottom and top, left and right.
horizontal_split(a) ==
    LET half == a[4] \div 2 IN <<<<a[1], a[2] + half, a[3], a[4] - half>>, <<a[1], a[2], a[3], half>>>>
vertical_split(a) ==
    LET half == a[3] \div 2 IN <<<<a[1], a[2], half, a[4]>>, <<a[1] + half, a[2], a[3] - half, a[4]>>>>

\* The viewports below a node that has the area a, in the order they are found.
RECURSIVE BuildViewports(_, _, _)
BuildViewports(v, n, a) ==
    IF n \notin DOMAIN v.nodes THEN <<>>
    ELSE LET node == v.nodes[n]
         IN CASE node.type \in Frames -> <<[asset |-> n, area |-> a, camera |-> node.camera]>>
              [] node.type = "Root" -> BuildViewports(v, node.children[1], a)
              [] node.type = "HorizontalSplit" ->
                   BuildViewports(v, node.children[1], horizontal_split(a)[1]) \o BuildViewports(v, node.children[2], horizontal_split(a)[2])
              [] node.type = "VerticalSplit" ->
                   BuildViewports(v, node.children[1], vertical_split(a)[1]) \o BuildViewports(v, node.children[2], vertical_split(a)[2])

build_viewports(v) == [v EXCEPT !.viewports = BuildViewports(v, RootFrame, <<0, 0, v.dimension[1], v.dimension[2]>>)]

\* A matrix is what it is made of; without the projection it is the identity.
ProjectionOf(v, p) == IF p \in DOMAIN v.projections THEN v.projections[p].data ELSE "identity"
KindOf(v, p) == IF p \in DOMAIN v.projections THEN v.projections[p].kind ELSE "none"

\* A perspective in 2D fails, and leaves the matrix as it was made: uninitialized.
extract_camera_matrices_2d(v, viewport) ==
    LET p == v.cameras[viewport.camera].projection_2d
    IN [projection |-> IF KindOf(v, p) = "Perspective" THEN "uninitialized" ELSE ProjectionOf(v, p),
        size |-> <<viewport.area[3], viewport.area[4]>>]

\* The inverse of an orthographic one is not made at all.
extract_camera_matrices_3d(v, viewport) ==
    LET camera == v.cameras[viewport.camera]
        p == camera.projection_3d
    IN [projection |-> ProjectionOf(v, p),
        inv_projection |-> IF KindOf(v, p) = "Orthographic" THEN "uninitialized" ELSE ProjectionOf(v, p),
        size |-> <<viewport.area[3], viewport.area[4]>>,
        view |-> <<camera.rotation, camera.translation>>]

\* Viewports without a camera (an assertion, too) get nothing.
WithCamera(v) == SelectSeq(v.viewports, LAMBDA w : w.camera \in DOMAIN v.cameras)

RemoveDisplays(v) ==
    [i \in 1 .. Len(v.viewports) |-> [type |-> "RemoveDisplay", asset |-> v.viewports[i].asset]]

AddDisplays(v) ==
    [i \in 1 .. Len(WithCamera(v)) |->
        LET w == WithCamera(v)[i]
        IN [type |-> "AddDisplay", asset |-> w.asset, viewport |-> w.area,
            camera_2d |-> extract_camera_matrices_2d(v, w), camera_3d |-> extract_camera_matrices_3d(v, w)]]

\* Mutant: only the matrices in 3D are told.
UpdateDisplaysIn3D(v) ==
    FlattenSeq([i \in 1 .. Len(WithCamera(v)) |->
        LET w == WithCamera(v)[i]
        IN <<[type |-> "UpdateDisplayCamera3D", asset |-> w.asset, camera_3d |-> extract_camera_matrices_3d(v, w)]>>])

UpdateDisplays(v) ==
    FlattenSeq([i \in 1 .. Len(WithCamera(v)) |->
        LET w == WithCamera(v)[i]
        IN <<[type |-> "UpdateDisplayCamera3D", asset |-> w.asset, camera_3d |-> extract_camera_matrices_3d(v, w)],
             [type |-> "UpdateDisplayCamera2D", asset |-> w.asset, camera_2d |-> extract_camera_matrices_2d(v, w)]>>])

-----------------------------------------------------------------------------
(* The client, the window and update.                                      *)

ViewerPost ==
    /\ vscript # <<>>
    /\ Len(queue_messages) < MaxUnread
    /\ queue_messages' = Append(queue_messages, Head(vscript))
    /\ vscript' = Tail(vscript)
    /\ UNCHANGED <<queue_resize, view, vpc, rebuild, notifications, resized, built, unseen>>

\* An exchange queue keeps the latest.
notify_resize ==
    /\ resized < Len(Dimensions)
    /\ queue_resize' = <<Dimensions[resized + 1]>>
    /\ resized' = resized + 1
    /\ UNCHANGED <<queue_messages, view, vpc, rebuild, notifications, vscript, built, unseen>>

ViewerUpdate ==
    /\ vpc = "idle"
    /\ queue_messages # <<>> \/ queue_resize # <<>>
    /\ vpc' = "messages"
    /\ rebuild' = {}
    /\ UNCHANGED <<queue_messages, queue_resize, view, notifications, vscript, resized, built, unseen>>

\* Adding and removing makes update rebuild nothing.
Adding == {"AddCamera", "AddFrame", "AddSplit", "AddProjectionOrthographic", "AddProjectionPerspective",
           "RemoveCamera", "RemoveFrame", "RemoveSplit", "RemoveProjection"}

Unseen(v, x) ==
    CASE x.type \in {"AddCamera", "RemoveCamera"} ->
            [places |-> IF x.type = "AddCamera" /\ x.entity \in DOMAIN v.cameras THEN {} ELSE {x.entity}, matrices |-> {x.entity}]
      [] x.type \in {"AddFrame", "AddSplit", "RemoveFrame", "RemoveSplit"} -> [places |-> {x.asset}, matrices |-> {}]
      [] x.type \in Adding -> [places |-> {}, matrices |-> {x.asset}]
      [] OTHER -> [places |-> {}, matrices |-> {}]

ReadMessage ==
    /\ vpc = "messages" /\ queue_messages # <<>>
    /\ queue_messages' = Tail(queue_messages)
    /\ view' = ViewerMessage(view, Head(queue_messages))
    /\ rebuild' = rebuild \cup Rebuilds(view, Head(queue_messages))
    /\ LET u == Unseen(view, Head(queue_messages))
       IN unseen' = [places |-> unseen.places \cup u.places, matrices |-> unseen.matrices \cup u.matrices]
    /\ UNCHANGED <<queue_resize, vpc, notifications, vscript, resized, built>>

\* The dimension is read, and then it is clear what to tell the renderer.
ReadResize ==
    /\ vpc = "messages" /\ queue_messages = <<>>
    /\ LET told == IF queue_resize = <<>> THEN view ELSE [view EXCEPT !.dimension = Head(queue_resize)]
           what == IF queue_resize = <<>> THEN rebuild ELSE rebuild \cup {"viewports"}
           again == build_viewports(told)
       IN /\ view' = IF "viewports" \in what THEN again ELSE told
          /\ notifications' = CASE "viewports" \in what -> RemoveDisplays(view) \o AddDisplays(again)
                                [] "viewports" \notin what /\ "matrices" \in what -> UpdateDisplays(told)
                                [] OTHER -> <<>>
          /\ built' = IF "viewports" \in what THEN again ELSE built
          /\ unseen' = CASE "viewports" \in what -> [places |-> {}, matrices |-> {}]
                         [] "viewports" \notin what /\ "matrices" \in what -> [unseen EXCEPT !.matrices = {}]
                         [] OTHER -> unseen
    /\ queue_resize' = <<>>
    /\ vpc' = "notify"
    /\ rebuild' = {}
    /\ UNCHANGED <<queue_messages, vscript, resized>>

NotifyEnd ==
    /\ vpc = "notify" /\ notifications = <<>>
    /\ vpc' = "idle"
    /\ UNCHANGED <<queue_messages, queue_resize, view, rebuild, notifications, vscript, resized, built, unseen>>

\* One of the post_ functions of the renderer.
Notify ==
    /\ vpc = "notify" /\ notifications # <<>>
    /\ Len(message_queue) < MaxUnread
    /\ message_queue' = Append(message_queue, Head(notifications))
    /\ notifications' = Tail(notifications)
    /\ UNCHANGED <<queue_messages, queue_resize, view, vpc, rebuild, vscript, resized, built, unseen>>
    /\ UNCHANGED <<rtype, queue_select, entitytoggle, active, event, rpc, gl, drawn, answers, scripts, scene, destructor>>

ViewerStep == ViewerPost \/ notify_resize \/ ViewerUpdate \/ ReadMessage \/ ReadResize \/ NotifyEnd

-----------------------------------------------------------------------------
(* Properties.                                                             *)

\* The window has a dimension and everything that was posted has been handled.
ViewerSettled ==
    /\ resized > 0
    /\ vpc = "idle" /\ queue_messages = <<>> /\ queue_resize = <<>>
    /\ message_queue = <<>>

\* The parent of a node and its place there.
ParentOf(v, n) == {<<p, i>> \in UNION {{<<q, i>> : i \in 1 .. 2} : q \in DOMAIN v.nodes} :
                      v.nodes[p].type \notin Frames /\ i <= Len(v.nodes[p].children) /\ v.nodes[p].children[i] = n}

\* Whether the pixel x, y is in the area.
Inside(a, x, y) == a[1] <= x /\ x < a[1] + a[3] /\ a[2] <= y /\ y < a[2] + a[4]

\* The frames that a path of existing nodes leads to.
RECURSIVE Reached(_, _)
Reached(v, n) ==
    \/ n = RootFrame
    \/ \E p \in ParentOf(v, n) : Reached(v, p[1])

BoundFrames(v) == {n \in DOMAIN v.nodes : v.nodes[n].type \in Frames /\ v.nodes[n].camera \in DOMAIN v.cameras /\ Reached(v, n)}

\* Every place of the tree is taken, and every frame has a camera.
EveryFrameBound(v) ==
    \A n \in DOMAIN v.nodes :
        IF v.nodes[n].type \in Frames THEN v.nodes[n].camera \in DOMAIN v.cameras
        ELSE \A i \in 1 .. Len(v.nodes[n].children) : v.nodes[n].children[i] \in DOMAIN v.nodes

\* What rebuilt displays show: no pixel of the window is in two of them, and every pixel is
\* in one if every frame has a camera.
Tiled(v) ==
    LET shown == DOMAIN gl.displays
        area(f) == gl.displays[f].viewport
        pixels == (0 .. v.dimension[1] - 1) \X (0 .. v.dimension[2] - 1)
    IN /\ shown = BoundFrames(v)
       /\ \A p \in pixels :
              LET over == {f \in shown : Inside(area(f), p[1], p[2])}
              IN Cardinality(over) <= 1 /\ (EveryFrameBound(v) => over # {})

\* The display of a frame shows what the camera and its projections are now, if none was
\* added or removed since the matrices were made.
Current(f) ==
    LET camera == view.cameras[view.nodes[f].camera]
        display == gl.displays[f]
        p2 == camera.projection_2d
        p3 == camera.projection_3d
    IN /\ p2 \notin unseen.matrices /\ KindOf(view, p2) # "Perspective" => display.camera_2d.projection = ProjectionOf(view, p2)
       /\ p3 \notin unseen.matrices =>
              /\ display.camera_3d.projection = ProjectionOf(view, p3)
              /\ KindOf(view, p3) # "Orthographic" => display.camera_3d.inv_projection = ProjectionOf(view, p3)
       /\ display.camera_3d.view = <<camera.rotation, camera.translation>>
       /\ {display.camera_2d.size, display.camera_3d.size} = {<<display.viewport[3], display.viewport[4]>>}

(* When everything that was posted has been handled by update and by the   *)
(* renderer, the displays of the renderer are the frames with a camera, as *)
(* they were when a frame was bound or unbound or the window resized last: *)
(* as they are now, unless a node or a camera was added or removed since,  *)
(* which makes update rebuild nothing.  Each shows what its camera is now, *)
(* unless the camera or its projection was added, replaced or removed      *)
(* since then and since a camera was changed: no update is lost between    *)
(* rebuild_viewports, which replaces the displays, and rebuild_matrices,   *)
(* which changes them, and none reaches a display that is gone             *)
(* (viewer.cpp, update).  What a perspective is in 2D, and the inverse of  *)
(* an orthographic projection in 3D, are not initialized.                  *)
ViewerShows ==
    ViewerSettled =>
        /\ Tiled(built)
        /\ unseen.places = {} => BoundFrames(built) = BoundFrames(view)
        /\ \A f \in DOMAIN gl.displays \cap DOMAIN view.nodes :
               LET c == view.nodes[f].camera
               IN c \in DOMAIN view.cameras \ unseen.matrices /\ f \notin unseen.places => Current(f)

=============================================================================

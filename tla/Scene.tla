-------------------------------- MODULE Scene --------------------------------
(***************************************************************************)
(* What the render thread draws from: the global containers that           *)
(* renderer_opengl_30.cpp and renderer_opengl_12.cpp both define, in one   *)
(* record.  Containers are functions of their keys; where other containers *)
(* keep pointers into one (meshes, transforms) its elements have the cells *)
(* of a fragmentation for addresses.                                       *)
(***************************************************************************)
EXTENDS Storages, FiniteSets, FiniteSetsExt

CONSTANTS
    MeshCells,      \* bound: utility::static_storage<100, mesh_t>
    ObjectCells     \* bound: utility::static_storage<600, object_modelview>

ASSUME CellsAssumption == MeshCells \in Nat /\ ObjectCells \in Nat

\* engine::Token{}.
NoToken == "none"

Put(f, key, value) == [k \in DOMAIN f \cup {key} |-> IF k = key THEN value ELSE f[k]]
Drop(f, key) == [k \in DOMAIN f \ {key} |-> f[k]]

\* unreachable turns TRUE when a debug_unreachable is reached.
SceneOf ==
    [displays |-> <<>>, resize |-> FALSE, framebuffer |-> <<0, 0>>,
     resources |-> <<>>, meshes |-> FragmentationOf(MeshCells),
     materials |-> <<>>,
     objects |-> <<>>, modelviews |-> FragmentationOf(ObjectCells),
     components |-> <<>>, selectable |-> <<>>, updateable |-> <<>>, selected |-> <<>>,
     unreachable |-> FALSE]

-----------------------------------------------------------------------------
(* Displays.                                                               *)

display_t(x) == [viewport |-> x.viewport, camera_2d |-> x.camera_2d, camera_3d |-> x.camera_3d]

update_display_camera_2d(gl, x) == [gl EXCEPT !.displays[x.asset].camera_2d = x.camera_2d]
update_display_camera_3d(gl, x) == [gl EXCEPT !.displays[x.asset].camera_3d = x.camera_3d]
update_display_viewport(gl, x) ==
    [gl EXCEPT !.displays[x.asset].viewport = x.viewport, !.resize = TRUE]

\* The framebuffer is as large as the displays reach; a viewport is x, y, width, height.
Extent(gl) ==
    LET views == {gl.displays[a].viewport : a \in DOMAIN gl.displays}
    IN <<Max({v[1] + v[3] : v \in views} \cup {0}), Max({v[2] + v[4] : v \in views} \cup {0})>>

-----------------------------------------------------------------------------
(* Resources.  A mesh is in a cell, and resources says in which.           *)

mesh_t(gl, asset, data) ==
    IF gl.meshes.size = MeshCells THEN gl
    ELSE [gl EXCEPT !.resources = Put(@, asset, [type |-> "mesh_t", index |-> NextIndex(gl.meshes)]),
                    !.meshes = EmplaceCell(@, data)]

erase_resource(gl, asset) ==
    [gl EXCEPT !.resources = Drop(@, asset),
               !.meshes = IF gl.resources[asset].type = "mesh_t" THEN EraseCell(@, gl.resources[asset].index) ELSE @]

Resource(gl, asset, type) == asset \in DOMAIN gl.resources /\ gl.resources[asset].type = type

-----------------------------------------------------------------------------
(* Objects, the transforms of entities, and the components drawn with      *)
(* them.  No message makes a Character: components are MeshObjects.        *)

object_modelview(gl, entity, matrix) ==
    IF gl.modelviews.size = ObjectCells THEN gl
    ELSE [gl EXCEPT !.objects = Put(@, entity, NextIndex(gl.modelviews)),
                    !.modelviews = EmplaceCell(@, matrix)]

erase_object(gl, entity) ==
    [gl EXCEPT !.objects = Drop(@, entity), !.modelviews = EraseCell(@, gl.objects[entity])]

update_modelview(gl, x) == [gl EXCEPT !.modelviews.cells[gl.objects[x.entity] + 1] = x.matrix]

MeshObject(gl, x) ==
    [object |-> gl.objects[x.entity], mesh |-> gl.resources[x.mesh].index, material |-> x.material]

\* Only a Character can be selectable.
add_selectable_color(gl, entity, color) == [gl EXCEPT !.unreachable = TRUE]
set_selectable_color(gl, entity, color) == [gl EXCEPT !.selectable[entity] = color]

update_matrixpallet(gl, x) == [gl EXCEPT !.updateable[x.entity] = x.matrix_pallet]

SelectedAs(gl, entity) == IF entity \in DOMAIN gl.selected THEN gl.selected[entity] ELSE {}

\* selected_components.emplace asserts that the entity has none of the type yet.
emplace_selected(gl, entity, type) == [gl EXCEPT !.selected = Put(@, entity, SelectedAs(gl, entity) \cup {type})]

erase_selected(gl, entity, type) ==
    LET left == SelectedAs(gl, entity) \ {type}
    IN [gl EXCEPT !.selected = IF left = {} THEN Drop(@, entity) ELSE Put(@, entity, left)]

\* The pointers of a component, followed.
Transform(gl, component) == gl.modelviews.cells[component.object + 1]
Shape(gl, component) == gl.meshes.cells[component.mesh + 1]

=============================================================================

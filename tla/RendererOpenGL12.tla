-------------------------- MODULE RendererOpenGL12 ---------------------------
(***************************************************************************)
(* The OpenGL 1.2 renderer (renderer_opengl_12.cpp), which has neither     *)
(* shaders nor textures: meshes and material classes that are registered   *)
(* again replace the old ones, and every component is drawn.               *)
(***************************************************************************)
EXTENDS Scene

-----------------------------------------------------------------------------
(* ProcessMessage.                                                         *)

Displays12(gl, x) ==
    CASE x.type = "AddDisplay" ->
           [gl EXCEPT !.displays = IF x.asset \in DOMAIN @ THEN @ ELSE Put(@, x.asset, display_t(x)), !.resize = TRUE]
      [] x.type # "AddDisplay" /\ x.asset \notin DOMAIN gl.displays -> gl
      [] x.type = "RemoveDisplay" /\ x.asset \in DOMAIN gl.displays ->
           [gl EXCEPT !.displays = Drop(@, x.asset), !.resize = TRUE]
      [] x.type = "UpdateDisplayCamera2D" /\ x.asset \in DOMAIN gl.displays -> update_display_camera_2d(gl, x)
      [] x.type = "UpdateDisplayCamera3D" /\ x.asset \in DOMAIN gl.displays -> update_display_camera_3d(gl, x)
      [] x.type = "UpdateDisplayViewport" /\ x.asset \in DOMAIN gl.displays -> update_display_viewport(gl, x)

\* UnorderedCollection::replace: the old resource gives up its cell first.
Replaceable(gl, asset) == IF asset \in DOMAIN gl.resources THEN erase_resource(gl, asset) ELSE gl

RegisterCharacter12(gl, x) == IF x.asset \in DOMAIN gl.resources THEN gl ELSE mesh_t(gl, x.asset, x.mesh)

ColorClass12(x) == [type |-> "ColorClass", diffuse |-> x.diffuse]
DefaultClass == [type |-> "DefaultClass"]

RegisterMaterial12(gl, x) ==
    IF x.shader # NoToken THEN gl
    ELSE [Replaceable(gl, x.asset) EXCEPT
            !.resources = Put(@, x.asset, IF x.diffuse # NoToken THEN ColorClass12(x) ELSE DefaultClass)]

RegisterMesh12(gl, x) == mesh_t(Replaceable(gl, x.asset), x.asset, x.mesh)

Unregister12(gl, x) == IF x.asset \notin DOMAIN gl.resources THEN gl ELSE erase_resource(gl, x.asset)

ColorMaterial(x) == [diffuse |-> x.diffuse, materialclass |-> x.materialclass]

Materials12(gl, x) ==
    [gl EXCEPT !.materials = IF x.type = "Destroy" THEN Drop(@, x.entity) ELSE Put(@, x.entity, ColorMaterial(x))]

AddMeshObject12(gl, x) ==
    LET freed == IF x.entity \in DOMAIN gl.objects THEN erase_object(gl, x.entity) ELSE gl
        moved == object_modelview(freed, x.entity, x.matrix)
    IN IF ~Resource(gl, x.mesh, "mesh_t") THEN moved
       ELSE [moved EXCEPT !.components = Put(@, x.entity, MeshObject(moved, x))]

\* MakeObstruction, MakeSelectable and MakeTransparent.
Selectable12(gl, x) ==
    LET color == IF x.type = "MakeObstruction" THEN NoToken ELSE x.entity
    IN CASE x.type = "MakeTransparent" -> [gl EXCEPT !.selectable = Drop(@, x.entity)]
         [] x.type # "MakeTransparent" /\ x.entity \in DOMAIN gl.selectable -> set_selectable_color(gl, x.entity, color)
         [] x.type # "MakeTransparent" /\ x.entity \notin DOMAIN gl.selectable \cup DOMAIN gl.components -> gl
         [] OTHER -> add_selectable_color(gl, x.entity, color)

Selected12(gl, x) ==
    CASE x.type = "MakeHighlighted" -> emplace_selected(gl, x.entity, "highlighted_t")
      [] x.type = "MakeSelect" -> emplace_selected(gl, x.entity, "selected_t")
      [] x.type = "MakeDehighlighted" -> erase_selected(gl, x.entity, "highlighted_t")
      [] x.type = "MakeDeselect" -> erase_selected(gl, x.entity, "selected_t")

Remove12(gl, x) ==
    IF x.entity \notin DOMAIN gl.components THEN gl
    ELSE LET bare == [gl EXCEPT !.selectable = Drop(@, x.entity), !.updateable = Drop(@, x.entity),
                                !.components = Drop(@, x.entity)]
         IN IF x.entity \in DOMAIN gl.objects THEN erase_object(bare, x.entity) ELSE bare

Update12(gl, x) ==
    CASE x.type = "UpdateCharacterSkinning" ->
           IF x.entity \notin DOMAIN gl.updateable THEN gl ELSE update_matrixpallet(gl, x)
      [] x.type = "UpdateModelviewMatrix" ->
           IF x.entity \notin DOMAIN gl.objects THEN gl ELSE update_modelview(gl, x)

\* Shaders and textures are "not supported".
ProcessMessage12(gl, x) ==
    CASE x.type \in {"AddDisplay", "RemoveDisplay", "UpdateDisplayCamera2D", "UpdateDisplayCamera3D", "UpdateDisplayViewport"} ->
           Displays12(gl, x)
      [] x.type = "RegisterCharacter" -> RegisterCharacter12(gl, x)
      [] x.type = "RegisterMesh" -> RegisterMesh12(gl, x)
      [] x.type = "RegisterMaterial" -> RegisterMaterial12(gl, x)
      [] x.type \in {"RegisterShader", "RegisterTexture"} -> gl
      [] x.type = "Unregister" -> Unregister12(gl, x)
      [] x.type \in {"CreateMaterialInstance", "Destroy"} -> Materials12(gl, x)
      [] x.type = "AddMeshObject" -> AddMeshObject12(gl, x)
      [] x.type \in {"MakeObstruction", "MakeSelectable", "MakeTransparent"} -> Selectable12(gl, x)
      [] x.type \in {"MakeHighlighted", "MakeSelect", "MakeDehighlighted", "MakeDeselect"} -> Selected12(gl, x)
      [] x.type = "MakeClearSelection" -> [gl EXCEPT !.unreachable = TRUE]
      [] x.type = "Remove" -> Remove12(gl, x)
      [] x.type \in {"UpdateCharacterSkinning", "UpdateModelviewMatrix"} -> Update12(gl, x)

maybe_resize_framebuffer12(gl) ==
    IF gl.resize THEN [gl EXCEPT !.resize = FALSE, !.framebuffer = Extent(gl)] ELSE gl

-----------------------------------------------------------------------------
(* A frame.                                                                *)

EntityBuffer12(gl) == {NoToken} \cup DOMAIN gl.selectable

get_entity_at_screen12(gl, sx, sy) ==
    LET y == gl.framebuffer[2] - 1 - sy
    IN IF sx >= 0 /\ y >= 0 /\ sx < gl.framebuffer[1] /\ y < gl.framebuffer[2] THEN EntityBuffer12(gl) ELSE {NoToken}

\* The colour of the class, if it has one, or else of the material.
MaterialOf12(gl, component) ==
    CASE component.material \notin DOMAIN gl.materials -> NoToken
      [] OTHER -> LET material == gl.materials[component.material]
                  IN IF Resource(gl, material.materialclass, "ColorClass")
                     THEN gl.resources[material.materialclass].diffuse ELSE material.diffuse

\* Highlighted and selected Characters would have a colour of their own, MeshObjects have not.
render_update12(gl) ==
    {[entity |-> e, matrix |-> Transform(gl, gl.components[e]), mesh |-> Shape(gl, gl.components[e]),
      look |-> MaterialOf12(gl, gl.components[e])] : e \in DOMAIN gl.components}

=============================================================================

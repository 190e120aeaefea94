-------------------------- MODULE RendererOpenGL30 ---------------------------
(***************************************************************************)
(* The OpenGL 3.0 renderer (renderer_opengl_30.cpp): what a message does   *)
(* to the scene, and what a frame draws of it.  A shader that does not     *)
(* compile or link is a property of its data.                              *)
(***************************************************************************)
EXTENDS Scene

entity_shader_asset == "_entity_"

\* What initialize_builtin_shaders posts.
EntityShader == [type |-> "RegisterShader", asset |-> entity_shader_asset, links |-> TRUE]

-----------------------------------------------------------------------------
(* ProcessMessage.                                                         *)

AddDisplay30(gl, x) ==
    [gl EXCEPT !.displays = IF x.asset \in DOMAIN @ THEN @ ELSE Put(@, x.asset, display_t(x)),
               !.resize = TRUE]

RemoveDisplay30(gl, x) ==
    IF x.asset \notin DOMAIN gl.displays THEN gl
    ELSE [gl EXCEPT !.displays = Drop(@, x.asset), !.resize = TRUE]

UpdateDisplay30(gl, x) ==
    IF x.asset \notin DOMAIN gl.displays THEN gl
    ELSE CASE x.type = "UpdateDisplayCamera2D" -> update_display_camera_2d(gl, x)
           [] x.type = "UpdateDisplayCamera3D" -> update_display_camera_3d(gl, x)
           [] x.type = "UpdateDisplayViewport" -> update_display_viewport(gl, x)

\* resources.emplace refuses an asset that is there.
emplace_resource(gl, asset, resource) ==
    IF asset \in DOMAIN gl.resources THEN gl ELSE [gl EXCEPT !.resources = Put(@, asset, resource)]

RegisterMesh30(gl, x) == IF x.asset \in DOMAIN gl.resources THEN gl ELSE mesh_t(gl, x.asset, x.mesh)

ColorClass30(x) == [type |-> "ColorClass", diffuse |-> x.diffuse, shader |-> x.shader]
ShaderClass(x) == [type |-> "ShaderClass", shader |-> x.shader]

RegisterMaterial30(gl, x) ==
    IF x.shader = NoToken THEN gl
    ELSE emplace_resource(gl, x.asset, IF x.diffuse # NoToken THEN ColorClass30(x) ELSE ShaderClass(x))

\* The resource is made first, and erased again where the shader turns out bad.
create_shader(gl, x) ==
    IF x.asset \in DOMAIN gl.resources \/ ~x.links THEN gl
    ELSE emplace_resource(gl, x.asset, [type |-> "Shader"])

RegisterTexture30(gl, x) == emplace_resource(gl, x.asset, [type |-> "Texture"])

Unregister30(gl, x) == IF x.asset \notin DOMAIN gl.resources THEN gl ELSE erase_resource(gl, x.asset)

ShaderMaterial(x) == [diffuse |-> x.diffuse, textures |-> x.textures, materialclass |-> x.materialclass]

CreateMaterialInstance30(gl, x) == [gl EXCEPT !.materials = Put(@, x.entity, ShaderMaterial(x))]

Destroy30(gl, x) == [gl EXCEPT !.materials = Drop(@, x.entity)]

\* The transform is replaced first; without the mesh a component there was stays.
AddMeshObject30(gl, x) ==
    LET freed == IF x.entity \in DOMAIN gl.objects THEN erase_object(gl, x.entity) ELSE gl
        moved == object_modelview(freed, x.entity, x.matrix)
    IN IF ~Resource(gl, x.mesh, "mesh_t") THEN moved
       ELSE [moved EXCEPT !.components = Put(@, x.entity, MeshObject(moved, x))]

\* MakeObstruction and MakeSelectable; MakeTransparent takes either back.
MakeSelectable30(gl, x) ==
    LET color == IF x.type = "MakeObstruction" THEN NoToken ELSE x.entity
    IN CASE x.entity \in DOMAIN gl.selectable -> set_selectable_color(gl, x.entity, color)
         [] x.entity \notin DOMAIN gl.selectable /\ x.entity \notin DOMAIN gl.components -> gl
         [] OTHER -> add_selectable_color(gl, x.entity, color)

MakeTransparent30(gl, x) == [gl EXCEPT !.selectable = Drop(@, x.entity)]

Selected30(gl, x) ==
    CASE x.type = "MakeHighlighted" -> emplace_selected(gl, x.entity, "highlighted_t")
      [] x.type = "MakeSelect" -> emplace_selected(gl, x.entity, "selected_t")
      [] x.type = "MakeDehighlighted" -> erase_selected(gl, x.entity, "highlighted_t")
      [] x.type = "MakeDeselect" -> erase_selected(gl, x.entity, "selected_t")

\* Mutant: the transform of the entity stays behind.
Remove30KeepsObject(gl, x) ==
    IF x.entity \notin DOMAIN gl.components THEN gl
    ELSE [gl EXCEPT !.modelviews = EraseCell(@, gl.objects[x.entity]), !.objects = Drop(@, x.entity)]

\* What selected_components has of the entity stays.
Remove30(gl, x) ==
    IF x.entity \notin DOMAIN gl.components THEN gl
    ELSE LET bare == [gl EXCEPT !.selectable = Drop(@, x.entity), !.updateable = Drop(@, x.entity),
                                !.components = Drop(@, x.entity)]
         IN IF x.entity \in DOMAIN gl.objects THEN erase_object(bare, x.entity) ELSE bare

UpdateCharacterSkinning30(gl, x) ==
    IF x.entity \notin DOMAIN gl.updateable THEN gl ELSE update_matrixpallet(gl, x)

UpdateModelviewMatrix30(gl, x) == IF x.entity \notin DOMAIN gl.objects THEN gl ELSE update_modelview(gl, x)

ProcessMessage30(gl, x) ==
    CASE x.type = "AddDisplay" -> AddDisplay30(gl, x)
      [] x.type = "RemoveDisplay" -> RemoveDisplay30(gl, x)
      [] x.type \in {"UpdateDisplayCamera2D", "UpdateDisplayCamera3D", "UpdateDisplayViewport"} -> UpdateDisplay30(gl, x)
      [] x.type \in {"RegisterCharacter", "RegisterMesh"} -> RegisterMesh30(gl, x)
      [] x.type = "RegisterMaterial" -> RegisterMaterial30(gl, x)
      [] x.type = "RegisterShader" -> create_shader(gl, x)
      [] x.type = "RegisterTexture" -> RegisterTexture30(gl, x)
      [] x.type = "Unregister" -> Unregister30(gl, x)
      [] x.type = "CreateMaterialInstance" -> CreateMaterialInstance30(gl, x)
      [] x.type = "Destroy" -> Destroy30(gl, x)
      [] x.type = "AddMeshObject" -> AddMeshObject30(gl, x)
      [] x.type \in {"MakeObstruction", "MakeSelectable"} -> MakeSelectable30(gl, x)
      [] x.type = "MakeTransparent" -> MakeTransparent30(gl, x)
      [] x.type \in {"MakeHighlighted", "MakeSelect", "MakeDehighlighted", "MakeDeselect"} -> Selected30(gl, x)
      [] x.type = "MakeClearSelection" -> [gl EXCEPT !.unreachable = TRUE]
      [] x.type = "Remove" -> Remove30(gl, x)
      [] x.type = "UpdateCharacterSkinning" -> UpdateCharacterSkinning30(gl, x)
      [] x.type = "UpdateModelviewMatrix" -> UpdateModelviewMatrix30(gl, x)

\* After the last message, and the new buffers.
maybe_resize_framebuffer30(gl) ==
    IF gl.resize THEN [gl EXCEPT !.resize = FALSE, !.framebuffer = Extent(gl)] ELSE gl

-----------------------------------------------------------------------------
(* A frame.                                                                *)

\* Entities whose colour a pixel may have: the null entity where nothing is.
EntityBuffer30(gl) ==
    IF Resource(gl, entity_shader_asset, "Shader") THEN {NoToken} \cup DOMAIN gl.selectable ELSE {NoToken}

\* Outside of the framebuffer there is no entity; rows are counted from the other side.
get_entity_at_screen30(gl, sx, sy) ==
    LET y == gl.framebuffer[2] - 1 - sy
    IN IF sx >= 0 /\ y >= 0 /\ sx < gl.framebuffer[1] /\ y < gl.framebuffer[2] THEN EntityBuffer30(gl) ELSE {NoToken}

\* The class of a material gives the shader, and a colour class the colour.
MaterialOf30(gl, component) ==
    IF component.material \notin DOMAIN gl.materials THEN [diffuse |-> NoToken, textures |-> {}, shader |-> NoToken]
    ELSE LET material == gl.materials[component.material]
             textures == {t \in material.textures : Resource(gl, t, "Texture")}
         IN CASE Resource(gl, material.materialclass, "ColorClass") ->
                   [diffuse |-> gl.resources[material.materialclass].diffuse, textures |-> textures,
                    shader |-> gl.resources[material.materialclass].shader]
              [] Resource(gl, material.materialclass, "ShaderClass") ->
                   [diffuse |-> material.diffuse, textures |-> textures,
                    shader |-> gl.resources[material.materialclass].shader]
              [] OTHER -> [diffuse |-> material.diffuse, textures |-> textures, shader |-> NoToken]

\* Components whose shader is not there (yet) are not drawn.
render_update30(gl) ==
    {[entity |-> e, matrix |-> Transform(gl, gl.components[e]), mesh |-> Shape(gl, gl.components[e]),
      look |-> MaterialOf30(gl, gl.components[e]), flags |-> SelectedAs(gl, e)] :
        e \in {d \in DOMAIN gl.components : Resource(gl, MaterialOf30(gl, gl.components[d]).shader, "Shader")}}

=============================================================================

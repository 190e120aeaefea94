----------------------------- MODULE MCGraphics ------------------------------
(***************************************************************************)
(* Instances of Collection, of Renderer and of Viewer with the renderer    *)
(* behind it.  A behaviour is about one of them, its subject; the others   *)
(* rest.                                                                   *)
(***************************************************************************)
EXTENDS Collection, Viewer

VARIABLE subject

\* Static storage that is full while there are keys left, heaps that grow twice or once.
RoomIn == [s \in CollectionStorages |-> [t \in CollectionTypes |-> IF s = "static" THEN 2 ELSE IF t = 1 THEN 3 ELSE 1]]

graphicsVars == <<collectionVars, rendererVars, viewerVars, subject>>

-----------------------------------------------------------------------------
(* What is posted to the renderer, by two threads.                         *)

Mesh(a, d) == [type |-> "RegisterMesh", asset |-> a, mesh |-> d]
Shader(a, ok) == [type |-> "RegisterShader", asset |-> a, links |-> ok]
Material(a, c, s) == [type |-> "RegisterMaterial", asset |-> a, diffuse |-> c, shader |-> s]
Instance(e, k) ==
    [type |-> "CreateMaterialInstance", entity |-> e, diffuse |-> "white", textures |-> {"t1", "t2"}, materialclass |-> k]
Object(e, m, k, x) == [type |-> "AddMeshObject", entity |-> e, mesh |-> m, material |-> k, matrix |-> x]
To(t, e) == [type |-> t, entity |-> e]
Of(t, a) == [type |-> t, asset |-> a]
Move(e, x) == [type |-> "UpdateModelviewMatrix", entity |-> e, matrix |-> x]
Display(a) == [type |-> "AddDisplay", asset |-> a, viewport |-> <<0, 0, 2, 2>>, camera_2d |-> "c", camera_3d |-> "c"]

Script(a, b) == [p \in RendererPosters |-> IF p = "game" THEN a ELSE b]
Silence == Script(<<>>, <<>>)

Look(s) == <<Display("d"), Material("k", "red", s), Instance("i", "k"), Mesh("m1", "square"), Object("e1", "m1", "i", 1)>>

\* An object is replaced, and removed before its mesh.
Replaced ==
    <<To("MakeHighlighted", "e1"), Object("e1", "m1", "i", 2), To("MakeDehighlighted", "e1"),
      To("Remove", "e1"), Of("Unregister", "m1")>>

\* Another thread's objects come into the cells that are left.
Second ==
    <<Mesh("m2", "circle"), Object("e2", "m2", "i", 3), Move("e2", 4), To("Remove", "e2"), Of("Unregister", "m2"),
      [Mesh("m3", "cube") EXCEPT !.type = "RegisterCharacter"], Object("e3", "m3", "i", 5)>>

Textured ==
    <<Of("RegisterTexture", "t1"), To("Destroy", "i"), Material("k2", NoToken, "s"), Instance("i", "k2"),
      Of("Unregister", "t1"), Of("Unregister", "k2")>>

Pick ==
    <<[type |-> "select", x |-> 0, y |-> 0, entity |-> "e1"], [type |-> "toggle_down"], To("MakeSelect", "e1"),
      [type |-> "select", x |-> 5, y |-> 0, entity |-> "e1"], To("MakeDeselect", "e1"), [type |-> "toggle_up"],
      To("MakeSelectable", "e9"), To("MakeObstruction", "e9"), To("MakeTransparent", "e9")>>

SomeScripts ==
    {[type |-> "OPENGL_3_0", scripts |-> Script(<<Shader("s", TRUE)>> \o Look("s") \o Replaced, Second)],
     [type |-> "OPENGL_3_0", scripts |-> Script(<<Shader("s", FALSE), Shader("s", TRUE)>> \o Look("s") \o Textured, Pick)],
     [type |-> "OPENGL_1_2", scripts |-> Script(Look(NoToken) \o Replaced, Second)],
     [type |-> "OPENGL_1_2", scripts |-> Script(Look(NoToken) \o <<Mesh("m1", "cone"), Material("k", "blue", NoToken)>>, Pick)],
     [type |-> "OPENGL_1_2", scripts |-> Silence], [type |-> "OPENGL_3_0", scripts |-> Silence]}

-----------------------------------------------------------------------------
(* What is posted to the viewer.                                           *)

Projection(t, a, d) == [type |-> t, asset |-> a, data |-> d]
Camera(e, p, q) == [type |-> "AddCamera", entity |-> e, projection_2d |-> p, projection_3d |-> q, rotation |-> 0, translation |-> 0]
Split(a, t, p, i) == [type |-> "AddSplit", asset |-> a, split |-> t, parent |-> p, slot |-> i]
Frame(a, t, p, i) == [type |-> "AddFrame", asset |-> a, frame |-> t, parent |-> p, slot |-> i]
BindTo(f, c) == [type |-> "Bind", frame |-> f, camera |-> c]
UnbindOf(f) == [type |-> "Unbind", frame |-> f]
Turn(t, e, x) == [type |-> t, entity |-> e, rotation |-> x, translation |-> x]
Reproject(e, p, q) == [type |-> "UpdateCameraProjection", entity |-> e, projection_2d |-> p, projection_3d |-> q]

Cameras ==
    <<Projection("AddProjectionOrthographic", "p", "flat"), Projection("AddProjectionPerspective", "q", "deep"),
      Camera("c1", "p", "q"), Camera("c2", "p", "none")>>

SomeViews ==
    {<<>>,
     Cameras \o
     <<Split("h", "HorizontalSplit", RootFrame, 0), Frame("f1", "DynamicFrame", "h", 0), Frame("f2", "FixedFrame", "h", 1),
       BindTo("f1", "c1"), Turn("UpdateCameraTranslate", "c1", 1), BindTo("f2", "c2"),
       Turn("UpdateCameraRotation", "c2", 2), UnbindOf("f1"), Of("RemoveFrame", "f1"), To("RemoveCamera", "c1")>>,
     Cameras \o
     <<Frame("f0", "DynamicFrame", "nowhere", 0), Split("v", "VerticalSplit", RootFrame, 0), Split("h", "HorizontalSplit", "v", 1),
       Frame("f1", "DynamicFrame", "v", 0), Frame("f2", "DynamicFrame", "h", 0), Frame("f3", "FixedFrame", "h", 1),
       BindTo("f3", "c1"), BindTo("f1", "c1"), BindTo("f2", "c2"), UnbindOf("f9"),
       Turn("UpdateCameraRotate", "c1", 1), Turn("UpdateCameraTranslation", "c1", 3)>>,
     Cameras \o
     <<Frame("f1", "DynamicFrame", RootFrame, 0), BindTo("f1", "c2"), Projection("AddProjectionPerspective", "r", "wide"),
       Reproject("c2", "q", "r"), Turn("UpdateCameraRotate", "c9", 1), UnbindOf("f1"), Of("RemoveProjection", "r"),
       Projection("AddProjectionOrthographic", "p", "again"), BindTo("f1", "c1")>>,
     \* Cameras, projections and frames that come and go under the displays.
     Cameras \o
     <<Frame("f1", "DynamicFrame", RootFrame, 0), BindTo("f1", "c1"), To("RemoveCamera", "c1"), Camera("c1", "q", "p"),
       Turn("UpdateCameraRotate", "c1", 1), Of("RemoveProjection", "q"), Projection("AddProjectionPerspective", "p", "bent"),
       Turn("UpdateCameraTranslate", "c2", 1), Of("RemoveFrame", "f1")>>,
     <<Split("h", "HorizontalSplit", RootFrame, 0), Frame("f1", "DynamicFrame", "h", 0), BindTo("f1", "c1")>> \o
     Cameras \o
     <<Turn("UpdateCameraRotate", "c1", 1), Frame("f2", "DynamicFrame", "h", 1), BindTo("f2", "c2"),
       Of("RemoveSplit", "h"), Turn("UpdateCameraTranslate", "c2", 2), UnbindOf("f2")>>}

SomeDimensions == <<<<3, 3>>, <<5, 2>>>>

-----------------------------------------------------------------------------

Init ==
    /\ subject \in {"collection", "renderer", "viewer"}
    /\ CollectionInit /\ RendererInit /\ ViewerInit
    /\ subject # "collection" => ckind = "single" /\ cstorage = "static"
    /\ subject = "renderer" <=> scripts # Silence
    /\ subject = "viewer" <=> vscript # <<>>
    /\ subject # "renderer" => rtype = "OPENGL_3_0"

Next ==
    \/ subject = "collection" /\ CollectionNext /\ UNCHANGED <<rendererVars, viewerVars, subject>>
    \/ subject = "renderer" /\ RendererNext /\ UNCHANGED <<collectionVars, viewerVars, subject>>
    \/ subject = "viewer" /\ (update \/ RenderThread) /\ UNCHANGED <<collectionVars, viewerVars, subject>>
    \/ subject = "viewer" /\ ViewerStep /\ UNCHANGED <<collectionVars, rendererVars, subject>>
    \/ subject = "viewer" /\ Notify /\ UNCHANGED <<collectionVars, subject>>

\* The render thread is scheduled, and so is the thread that is in ~renderer.
Spec ==
    /\ Init /\ [][Next]_graphicsVars
    /\ WF_rendererVars(subject = "renderer" /\ RenderThread)
    /\ WF_rendererVars(DestructorSet) /\ WF_rendererVars(DestructorJoin)

=============================================================================

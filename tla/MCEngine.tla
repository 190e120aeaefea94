------------------------------ MODULE MCEngine -------------------------------
(***************************************************************************)
(* Instances of the engine's other parts, which share no state.  A         *)
(* behaviour is about one of them, its subject; the others rest.           *)
(***************************************************************************)
EXTENDS SystemKernel32, Libraries, Mixer, Physics, ExchangeQueue, Containers, Sync, Holders, Pointers, Text,
        Tables, Overflow, Gui

VARIABLE subject

-----------------------------------------------------------------------------
(* What is asked of system_kernel32: one client's calls, in order.         *)

CallRegister(a, p) == [call |-> "register_directory", alias |-> a, path |-> p, parent |-> working_directory]
CallUnregister(a) == [call |-> "unregister_directory", alias |-> a]
CallTemporary(a) == [call |-> "register_temporary_directory", alias |-> a]
CallRead(i, d, n, m) == [call |-> "read", id |-> i, directory |-> d, name |-> n, watch |-> TRUE, report_missing |-> m]
CallScan(i, d, r) == [call |-> "scan", id |-> i, directory |-> d, watch |-> TRUE, recurse |-> r]
CallWrite(d, p, n, o) == [call |-> "write", directory |-> d, path |-> p, name |-> n, create |-> TRUE, overwrite |-> o]
CallRemove(i) == [call |-> "remove_watch", id |-> i]

SomeCalls ==
    {<<>>,
     <<CallRead("r1", working_directory, "f", TRUE), CallWrite(working_directory, "w", "f", TRUE), CallScan("s1", working_directory, TRUE)>>,
     <<CallRegister("sub", "s"), CallScan("s1", "sub", FALSE), CallRead("r1", "sub", "g", FALSE),
       CallWrite("sub", "s", "g", TRUE), CallUnregister("sub"), CallRemove("s1")>>,
     <<CallTemporary("tmp"), CallRead("r1", "tmp", "h", TRUE), CallWrite("tmp", "t", "h", FALSE), CallRemove("r1"),
       CallUnregister("tmp")>>,
     <<CallTemporary("tmp"), CallRead("r1", "tmp", "h", TRUE), CallUnregister("tmp"), CallRemove("r1")>>,
     <<CallRegister("sub", "s"), CallRead("r1", "sub", "g", TRUE), CallRemove("r1"), CallRead("r2", "sub", "g", TRUE),
       CallWrite("sub", "s", "g", TRUE)>>}

TreeBelow == {<<"s", "w">>}
TreeFiles == {<<"w", "e">>, <<"w", "f">>, <<"s", "g">>}

-----------------------------------------------------------------------------
(* Two libraries with files of one stem.                                   *)

FileStems == "a.txt" :> "a" @@ "a.png" :> "a" @@ "a" :> NoStem
OneDisk == "A" :> {"a.txt", "a"} @@ "B" :> {"a.png"}
SomeDisks == {OneDisk, "A" :> {"a.txt", "a.png"} @@ "B" :> {"a"}}
SomeListings == {<<"a", "a.png", "a.txt">>}
SomeChanges == {<<"A", "a.txt">>, <<"B", "a">>}

-----------------------------------------------------------------------------
(* What is posted to the mixer and called in physics.                      *)

Length(n, k) == n :> [length |-> k, moves |-> TRUE]
Play(e, n, r) == [type |-> "UpdateAction", entity |-> e, name |-> n, repetative |-> r]
Added(t, e, a) == [type |-> t, entity |-> e, source |-> a]
Asset(t, a, x) == [type |-> t, asset |-> a, actions |-> x]
Gone(e) == [type |-> "Remove", entity |-> e]

SomeMixes ==
    {<<>>,
     <<Asset("armature", "a", Length("walk", 2) @@ Length("run", 3)), Added("AddCharacter", "e", "a"),
       Play("e", "walk", FALSE), Play("e", "run", TRUE), Gone("e")>>,
     <<Asset("object", "o", Length("walk", 2) @@ Length("run", 1)), Added("AddModel", "m", "o"), Added("AddCharacter", "e", "o"),
       Play("m", "walk", FALSE), Play("m", "run", TRUE), Play("m", "none", TRUE), Gone("m"), Added("AddModel", "m", "o")>>,
     <<Asset("object", "o", Length("walk", 2) @@ Length("still", 0)), Added("AddModel", "m", "o"), Play("m", "walk", FALSE),
       Gone("m"), Added("AddModel", "m", "o"), Play("m", "still", TRUE)>>}

CameraAt(c, x, b) == [type |-> "add", id |-> c, position |-> x, bounded |-> b]
Bounds(x, y) == [type |-> "set", bounds |-> <<x, y>>]

SomePhysics ==
    {<<>>,
     <<CameraAt("c", 5, TRUE), Bounds(0, 3), CameraAt("d", 7, FALSE), CameraAt("f", 7, TRUE),
       [type |-> "update", id |-> "c", movement |-> -4], [type |-> "AddObject", entity |-> "e", transform |-> <<1, 1>>],
       [type |-> "UpdateMovement", entity |-> "e", movement |-> 2], Bounds(1, 2)>>}

-----------------------------------------------------------------------------
(* The kinds of containers, the shapes of what is written as text, and the *)
(* ranges of tokens that are registered.                                   *)

SomeKinds == {<<"vector", TRUE>>, <<"vector", FALSE>>, <<"array", TRUE>>, <<"array", FALSE>>}

Flag == Simple("bool")
Number == Simple("number")
Choice == Simple("enum")
Letters == Simple("string")
Inner == Class(<<"a">>, <<Number>>)
NoMembers == Class(<<>>, <<>>)

SomeJsonShapes ==
    {Flag, Number, Choice, Letters, RangeOf(Number), RangeOf(RangeOf(Choice)), TupleShape(<<Number, Flag>>), Inner, NoMembers,
     Class(<<"a", "address">>, <<Number, Number>>), Class(<<"a", "b">>, <<Class(<<"address">>, <<Letters>>), RangeOf(Number)>>)}
SomeIniShapes ==
    {Inner, Class(<<"a", "address">>, <<Number, Choice>>), Class(<<"a", "b">>, <<Flag, Inner>>),
     Class(<<"b">>, <<Class(<<"b">>, <<Letters>>)>>), Class(<<"a", "b">>, <<Letters, Class(<<"c">>, <<Inner>>)>>)}

TokensFrom(t, k) == [from |-> t, count |-> k]
HashTokens == TokensFrom(0, 4)
SomeRanges == {TokensFrom(4, 2), TokensFrom(6, 2), TokensFrom(6, 0), TokensFrom(5, 2)}
SomeStrings == <<"(one)", "(two)">>

-----------------------------------------------------------------------------
(* A screen with one window: a text that closes it, two tabs, and a pager  *)
(* with a list in one page and two panels in the other.                    *)

Sized(h, w) == [d \in Dims |-> IF d = "height" THEN h ELSE w]
GroupOf(layout, h, w) ==
    [parent |-> Screen, kind |-> "Group", layout |-> layout, type |-> Sized(h, w), margin |-> Sized(<<0, 0>>, <<0, 0>>),
     gravity |-> Sized("START", "START"), size |-> Sized(0, 0), text |-> 0, action |-> "none", target |-> NoView,
     observe |-> "none"]
PanelOf(kind, h, w, size) == [GroupOf("none", h, w) EXCEPT !.kind = kind, !.size = size]
TextOf(n) == [GroupOf("none", "WRAP", "WRAP") EXCEPT !.kind = "Text", !.text = n]
In(view, group) == [view EXCEPT !.parent = group]
On(view, action, target) == [view EXCEPT !.action = action, !.target = target]

OneWindow ==
    <<In([GroupOf("VERTICAL", "PARENT", "PARENT") EXCEPT !.margin = Sized(<<1, 2>>, <<3, 1>>)], Screen),
      On(In([TextOf(2) EXCEPT !.observe = "text", !.gravity = Sized("START", "CENTRE")], 2), "close", 2),
      In(GroupOf("HORIZONTAL", "WRAP", "WRAP"), 2),
      On(In(PanelOf("Color", "FIXED", "FIXED", Sized(5, 7)), 4), "tab", 8),
      On(In([PanelOf("Color", "FIXED", "FIXED", Sized(3, 7)) EXCEPT !.gravity = Sized("END", "END")], 4), "tab", 9),
      In(GroupOf("RELATIVE", "PARENT", "PARENT"), 2),
      In([GroupOf("VERTICAL", "WRAP", "WRAP") EXCEPT !.observe = "list", !.gravity = Sized("END", "END")], 7),
      In(GroupOf("HORIZONTAL", "PARENT", "PARENT"), 7),
      On(In(PanelOf("Texture", "PARENT", "FIXED", Sized(0, 9)), 9), "selection", 9),
      On(In(PanelOf("Color", "PARENT", "PARENT", Sized(0, 0)), 9), "close", 9)>>
OneItem == [TextOf(1) EXCEPT !.margin = Sized(<<1, 0>>, <<0, 0>>)]

MessageOf(t, v, i, text, texts) == [type |-> t, view |-> v, interaction |-> i, text |-> text, texts |-> texts, made |-> 0]
With(v, i) == MessageOf("Interaction", v, i, 0, <<>>)
Says(text) == MessageOf("Text", Screen, "none", text, <<>>)
Lists(texts) == MessageOf("List", Screen, "none", 0, texts)
SomeMessages ==
    {MessageOf("Reload", Screen, "none", 0, <<>>), Says(4), Lists(<<1, 3>>), Lists(<<2>>), Lists(<<3, 1, 2>>),
     With(3, "RELEASE"), With(5, "RELEASE"), With(6, "RELEASE"), With(10, "PRESS"), With(11, "RELEASE")}

-----------------------------------------------------------------------------

fileVars == <<kernel32Vars, libraryVars>>
simulationVars == <<mixerVars, physicsVars, guiVars>>
threadedVars == <<exchangeVars, syncVars, pointerVars>>
valueVars == <<containerVars, holderVars, textVars, tableVars, sum>>
engineVars == <<fileVars, simulationVars, threadedVars, valueVars, subject>>

\* Parts that rest begin in one of their initial states only.
EngineInit ==
    /\ subject \in {"kernel32", "libraries", "mixer", "physics", "exchange", "event", "threads", "pointers",
                    "containers", "holders", "text", "tables", "overflow", "gui"}
    /\ TextInit
    /\ subject # "text" => job.format = "json" /\ job.shape = NoMembers /\ job.as = NoMembers /\ job.room = 5
    /\ Kernel32Init /\ (subject = "kernel32" <=> calls # <<>>)
    /\ LibrariesInit /\ (subject # "libraries" => disk = OneDisk)
    /\ MixerInit /\ (subject = "mixer" <=> mscript # <<>>)
    /\ PhysicsInit /\ (subject = "physics" <=> pcalls # <<>>)
    /\ SyncInit /\ (subject # "event" => event.platform = "pthread" /\ ~event.manual /\ ~event.is_set)
    /\ ContainersInit /\ (subject # "containers" => box.a = NewContainer(<<"vector", TRUE>>))
    /\ HoldersInit /\ (subject # "holders" => holder.kind = "variant")
    /\ ExchangeInit /\ PointersInit /\ TablesInit /\ OverflowInit /\ GuiInit

EngineNext ==
    \/ subject = "kernel32" /\ Kernel32Next /\ UNCHANGED <<subject, libraryVars, simulationVars, threadedVars, valueVars>>
    \/ subject = "libraries" /\ LibrariesNext /\ UNCHANGED <<subject, kernel32Vars, simulationVars, threadedVars, valueVars>>
    \/ subject = "mixer" /\ MixerNext /\ UNCHANGED <<subject, fileVars, physicsVars, guiVars, threadedVars, valueVars>>
    \/ subject = "physics" /\ PhysicsNext /\ UNCHANGED <<subject, fileVars, mixerVars, guiVars, threadedVars, valueVars>>
    \/ subject = "gui" /\ GuiNext /\ UNCHANGED <<subject, fileVars, mixerVars, physicsVars, threadedVars, valueVars>>
    \/ /\ subject = "exchange" /\ ExchangeNext
       /\ UNCHANGED <<subject, syncVars, pointerVars, fileVars, simulationVars, valueVars>>
    \/ /\ \/ subject = "event" /\ EventNext
          \/ subject = "threads" /\ ThreadNext
       /\ UNCHANGED <<subject, exchangeVars, pointerVars, fileVars, simulationVars, valueVars>>
    \/ /\ subject = "pointers" /\ PointersNext
       /\ UNCHANGED <<subject, exchangeVars, syncVars, fileVars, simulationVars, valueVars>>
    \/ /\ \/ subject = "containers" /\ ContainersNext /\ UNCHANGED <<holderVars, textVars, tableVars, sum>>
          \/ subject = "holders" /\ HoldersNext /\ UNCHANGED <<containerVars, textVars, tableVars, sum>>
          \/ subject = "text" /\ TextNext /\ UNCHANGED <<containerVars, holderVars, tableVars, sum>>
          \/ subject = "tables" /\ TablesNext /\ UNCHANGED <<containerVars, holderVars, textVars, sum>>
          \/ subject = "overflow" /\ OverflowNext /\ UNCHANGED <<containerVars, holderVars, textVars, tableVars>>
       /\ UNCHANGED <<subject, fileVars, simulationVars, threadedVars>>

EngineSpec == EngineInit /\ [][EngineNext]_engineVars

=============================================================================

--------------------------- MODULE Renderer_proofs ---------------------------
(***************************************************************************)
(* Proofs about the renderer: what both OpenGL renderers keep in their     *)
(* containers, with its cells and the pointers into them, is what has been *)
(* asked for as far as the messages are handled, and the messages that     *)
(* wait lead to the rest.                                                  *)
(***************************************************************************)
EXTENDS Renderer, FiniteSetTheorems, FunctionTheorems, TLAPS

-----------------------------------------------------------------------------
(* When the containers of the render thread, g, match a scene, s.          *)

\* f is the table of a fragmentation with N cells, of which these are in use.
Table(f, used, N) ==
    /\ f = [size |-> f.size, indices |-> f.indices, cells |-> f.cells]
    /\ f.size \in 0 .. N
    /\ f.indices \in [1 .. N -> 0 .. N - 1]
    /\ f.cells = [i \in 1 .. N |-> f.cells[i]]
    /\ used \subseteq 0 .. N - 1
    /\ Cardinality(used) = f.size
    /\ {f.indices[i] : i \in f.size + 1 .. N} = (0 .. N - 1) \ used
    /\ \A i, j \in f.size + 1 .. N : f.indices[i] = f.indices[j] => i = j

\* The fragmentation has the values, each in its cell.
Keeps(f, at, values, N) ==
    /\ IsFiniteSet(DOMAIN values)
    /\ at \in [DOMAIN values -> 0 .. N - 1]
    /\ \A k, l \in DOMAIN values : at[k] = at[l] => k = l
    /\ \A k \in DOMAIN values : f.cells[at[k] + 1] = values[k]
    /\ Table(f, {at[k] : k \in DOMAIN values}, N)

\* The fields of the containers, and of a scene.
SceneFields ==
    {"displays", "resize", "framebuffer", "resources", "meshes", "materials", "objects", "modelviews",
     "components", "selectable", "updateable", "selected", "unreachable"}

SceneParts == {"meshes", "classes", "shaders", "textures", "materials", "objects", "flags"}

\* The assets whose resources are of these types.
Names(g, types) == {a \in DOMAIN g.resources : g.resources[a].type \in types}

MeshAt(g) == [a \in Names(g, {"mesh_t"}) |-> g.resources[a].index]

\* Every mesh is in the cell that its resource says.
MeshesMatch(g, s) ==
    /\ DOMAIN s.meshes = Names(g, {"mesh_t"})
    /\ Keeps(g.meshes, MeshAt(g), s.meshes, MeshCells)

Matrices(s) == [e \in DOMAIN s.objects |-> s.objects[e].matrix]

\* Every component points to the transform of its entity and to the cell of its mesh.
ComponentsMatch(g, s) ==
    /\ s.objects = [e \in DOMAIN s.objects |-> s.objects[e]]
    /\ DOMAIN g.components = DOMAIN s.objects
    /\ \A e \in DOMAIN s.objects :
          /\ {"mesh", "material", "matrix"} \subseteq DOMAIN s.objects[e]
          /\ s.objects[e].mesh \in DOMAIN s.meshes
          /\ g.components[e] = [object |-> g.objects[e], mesh |-> g.resources[s.objects[e].mesh].index,
                                material |-> s.objects[e].material]

ObjectsMatch(g, s) ==
    /\ Keeps(g.modelviews, g.objects, Matrices(s), ObjectCells)
    /\ ComponentsMatch(g, s)

Shapes(g, s) ==
    /\ DOMAIN g = SceneFields
    /\ DOMAIN s = SceneParts

\* OpenGL 3.0 keeps classes, shaders and textures among its resources, and draws flags.
Classes30(g, s) ==
    /\ DOMAIN s.classes = Names(g, {"ColorClass", "ShaderClass"})
    /\ \A a \in DOMAIN s.classes :
          /\ g.resources[a].shader = s.classes[a].shader
          /\ IF s.classes[a].diffuse = NoToken THEN g.resources[a].type = "ShaderClass"
             ELSE g.resources[a].type = "ColorClass" /\ g.resources[a].diffuse = s.classes[a].diffuse
          /\ s.classes[a].shader # entity_shader_asset

Rest30(g, s) ==
    /\ Names(g, {"Shader"}) \ {entity_shader_asset} = s.shaders
    /\ Names(g, {"Texture"}) = s.textures
    /\ DOMAIN g.resources = Names(g, {"mesh_t", "ColorClass", "ShaderClass", "Shader", "Texture"})
    /\ NoToken \notin DOMAIN g.resources
    /\ entity_shader_asset \in DOMAIN g.resources => g.resources[entity_shader_asset].type = "Shader"

Materials30(g, s) ==
    /\ DOMAIN g.materials = DOMAIN s.materials
    /\ \A i \in DOMAIN s.materials : g.materials[i] = ShaderMaterial(s.materials[i])

FlagsMatch(g, s) ==
    \A e \in DOMAIN g.selected \cup DOMAIN s.flags : SelectedAs(g, e) = Flags(s, e)

Matches30(g, s) ==
    Shapes(g, s) /\ MeshesMatch(g, s) /\ ObjectsMatch(g, s) /\ Classes30(g, s) /\ Rest30(g, s) /\ Materials30(g, s) /\ FlagsMatch(g, s)

\* OpenGL 1.2 has meshes and classes only.
Classes12(g, s) ==
    /\ DOMAIN s.classes = Names(g, {"ColorClass", "DefaultClass"})
    /\ \A a \in DOMAIN s.classes :
          IF s.classes[a].diffuse = NoToken THEN g.resources[a].type = "DefaultClass"
          ELSE g.resources[a].type = "ColorClass" /\ g.resources[a].diffuse = s.classes[a].diffuse

Rest12(g, s) ==
    /\ DOMAIN g.resources = Names(g, {"mesh_t", "ColorClass", "DefaultClass"})
    /\ NoToken \notin DOMAIN g.resources

Materials12Match(g, s) ==
    /\ DOMAIN g.materials = DOMAIN s.materials
    /\ \A i \in DOMAIN s.materials : g.materials[i] = ColorMaterial(s.materials[i])

Matches12(g, s) ==
    Shapes(g, s) /\ MeshesMatch(g, s) /\ ObjectsMatch(g, s) /\ Classes12(g, s) /\ Rest12(g, s) /\ Materials12Match(g, s)

\* What a message in the queue asks for: nothing, where render_setup posted it.
Meant(s, x) == IF x = EntityShader THEN s ELSE Asked(s, x)

-----------------------------------------------------------------------------
(* Functions.                                                              *)

LEMMA PutDomain ==
    ASSUME NEW f, NEW k, NEW v
    PROVE  DOMAIN Put(f, k, v) = DOMAIN f \cup {k}
BY DEF Put

LEMMA PutNew ==
    ASSUME NEW f, NEW k, NEW v
    PROVE  Put(f, k, v)[k] = v
BY DEF Put

LEMMA PutOld ==
    ASSUME NEW f, NEW k, NEW v, NEW x \in DOMAIN f, x # k
    PROVE  Put(f, k, v)[x] = f[x]
BY DEF Put

LEMMA DropIs ==
    ASSUME NEW f, NEW k
    PROVE  /\ DOMAIN Drop(f, k) = DOMAIN f \ {k}
           /\ \A x \in DOMAIN f : x # k => Drop(f, k)[x] = f[x]
BY DEF Drop

-----------------------------------------------------------------------------
(* Fragmentations: which cells are in use.                                 *)

LEMMA TableCapacity ==
    ASSUME NEW f, NEW used, NEW N \in Nat, Table(f, used, N)
    PROVE  /\ capacity(f) = N
           /\ FreeIndices(f) = (0 .. N - 1) \ used
           /\ IsFiniteSet(used)
<1>1. capacity(f) = N
  BY DEF Table, capacity
<1>2. IsFiniteSet(used)
  <2>1. used \in SUBSET (0 .. N - 1)
    BY DEF Table
  <2>2. IsFiniteSet(0 .. N - 1)
    BY FS_Interval
  <2> QED BY <2>1, <2>2, FS_Subset
<1> QED BY <1>1, <1>2 DEF Table, FreeIndices

LEMMA TableFull ==
    ASSUME NEW f, NEW used, NEW N \in Nat, Table(f, used, N), Cardinality(used) < N
    PROVE  f.size # N /\ NextIndex(f) \in (0 .. N - 1) \ used
<1>1. f.size \in 0 .. N /\ f.size < N
  BY DEF Table
<1>2. f.size + 1 \in f.size + 1 .. N
  BY <1>1
<1> QED BY <1>1, <1>2 DEF Table, NextIndex

LEMMA TableEmplace ==
    ASSUME NEW f, NEW used, NEW N \in Nat, NEW v, Table(f, used, N), Cardinality(used) < N
    PROVE  /\ Table(EmplaceCell(f, v), used \cup {NextIndex(f)}, N)
           /\ EmplaceCell(f, v).cells = [f.cells EXCEPT ![NextIndex(f) + 1] = v]
<1> DEFINE n == NextIndex(f)  g == EmplaceCell(f, v)
<1>1. f.size < N /\ f.size \in Nat /\ n \in (0 .. N - 1) \ used
  <2>1. f.size \in 0 .. N /\ Cardinality(used) = f.size
    BY DEF Table
  <2> QED BY <2>1, TableFull
<1>2. g = [size |-> f.size + 1, indices |-> f.indices, cells |-> [f.cells EXCEPT ![n + 1] = v]]
  <2> HIDE DEF n
  <2>1. f = [size |-> f.size, indices |-> f.indices, cells |-> f.cells]
    BY DEF Table
  <2>2. g = [f EXCEPT !.size = @ + 1, !.cells[n + 1] = v]
    BY DEF EmplaceCell, n
  <2> HIDE DEF g
  <2> QED BY <2>1, <2>2
<1>3. Cardinality(used \cup {n}) = f.size + 1
  BY <1>1, TableCapacity, FS_AddElement DEF Table
<1>4. f.indices[f.size + 1] = n
  BY DEF NextIndex
<1>5. {f.indices[i] : i \in f.size + 1 + 1 .. N} = (0 .. N - 1) \ (used \cup {n})
  <2>1. {f.indices[i] : i \in f.size + 1 .. N} = (0 .. N - 1) \ used /\ \A i, j \in f.size + 1 .. N : f.indices[i] = f.indices[j] => i = j
    BY DEF Table
  <2>2. f.size + 1 .. N = (f.size + 1 + 1 .. N) \cup {f.size + 1} /\ f.size + 1 \notin f.size + 1 + 1 .. N
    BY <1>1
  <2> HIDE DEF n, g
  <2> QED BY <2>1, <2>2, <1>4
<1>6. \A i, j \in f.size + 1 + 1 .. N : f.indices[i] = f.indices[j] => i = j
  BY <1>1 DEF Table
<1>7. f.indices \in [1 .. N -> 0 .. N - 1] /\ used \subseteq 0 .. N - 1 /\ f.cells = [i \in 1 .. N |-> f.cells[i]]
  BY DEF Table
<1> HIDE DEF n, g
<1>8. g.cells = [i \in 1 .. N |-> g.cells[i]] /\ g.cells[n + 1] = v
  <2>1. g.cells = [f.cells EXCEPT ![n + 1] = v] /\ DOMAIN f.cells = 1 .. N /\ n + 1 \in 1 .. N
    BY <1>1, <1>2, <1>7
  <2> QED BY <2>1
<1>9. g.cells = [f.cells EXCEPT ![n + 1] = v]
  BY <1>2
<1>10. g = [size |-> g.size, indices |-> g.indices, cells |-> g.cells] /\ g.size = f.size + 1 /\ g.indices = f.indices
  BY <1>2
<1>11. Table(g, used \cup {n}, N)
  BY <1>1, <1>3, <1>5, <1>6, <1>7, <1>8, <1>10 DEF Table
<1> QED BY <1>9, <1>11 DEF n, g

LEMMA TableErase ==
    ASSUME NEW f, NEW used, NEW N \in Nat, NEW x \in used, Table(f, used, N)
    PROVE  /\ Table(EraseCell(f, x), used \ {x}, N)
           /\ NextIndex(EraseCell(f, x)) = x
           /\ Cardinality(used \ {x}) < N
           /\ \A i \in 0 .. N - 1 : i # x => EraseCell(f, x).cells[i + 1] = f.cells[i + 1]
<1> DEFINE g == EraseCell(f, x)
<1>1. x \notin FreeIndices(f) /\ IsFiniteSet(used) /\ x \in 0 .. N - 1
  <2>1. FreeIndices(f) = (0 .. N - 1) \ used /\ IsFiniteSet(used)
    BY TableCapacity
  <2>2. used \subseteq 0 .. N - 1
    BY DEF Table
  <2> QED BY <2>1, <2>2
<1>2. g = [size |-> f.size - 1, indices |-> [f.indices EXCEPT ![f.size] = x], cells |-> [f.cells EXCEPT ![x + 1] = NoElement]]
  BY <1>1 DEF EraseCell
<1>3. Cardinality(used \ {x}) = f.size - 1 /\ Cardinality(used) = f.size /\ f.size \in 0 .. N
  <2>1. Cardinality(used \ {x}) = Cardinality(used) - 1
    BY <1>1, FS_RemoveElement
  <2> QED BY <2>1 DEF Table
<1>4. f.size > 0
  <2>1. Cardinality(used \ {x}) \in Nat
    BY <1>1, FS_RemoveElement, FS_CardinalityType
  <2> QED BY <2>1, <1>3
<1> HIDE DEF g
<1>5. g.size = f.size - 1 /\ g.indices = [f.indices EXCEPT ![f.size] = x] /\ g.cells = [f.cells EXCEPT ![x + 1] = NoElement]
  BY <1>2
<1>6. f.indices \in [1 .. N -> 0 .. N - 1] /\ used \subseteq 0 .. N - 1 /\ f.cells = [i \in 1 .. N |-> f.cells[i]]
  BY DEF Table
<1>7. g.indices \in [1 .. N -> 0 .. N - 1] /\ g.indices[f.size] = x /\ \A i \in f.size + 1 .. N : g.indices[i] = f.indices[i]
  BY <1>1, <1>3, <1>4, <1>5, <1>6
<1>8. g.size + 1 .. N = (f.size + 1 .. N) \cup {f.size} /\ g.size + 1 = f.size
  BY <1>3, <1>4, <1>5
<1>9. {f.indices[i] : i \in f.size + 1 .. N} = (0 .. N - 1) \ used /\ \A i, j \in f.size + 1 .. N : f.indices[i] = f.indices[j] => i = j
  BY DEF Table
<1>10. {g.indices[i] : i \in g.size + 1 .. N} = (0 .. N - 1) \ (used \ {x})
  <2>1. {g.indices[i] : i \in f.size + 1 .. N} = (0 .. N - 1) \ used
    BY <1>7, <1>9
  <2>2. {g.indices[i] : i \in g.size + 1 .. N} = {g.indices[i] : i \in f.size + 1 .. N} \cup {x}
    BY <1>7, <1>8
  <2> QED BY <2>1, <2>2, <1>1
<1>11. \A i, j \in g.size + 1 .. N : g.indices[i] = g.indices[j] => i = j
  <2>1. \A i \in f.size + 1 .. N : g.indices[i] # x
    BY <1>7, <1>9
  <2> QED BY <2>1, <1>7, <1>8, <1>9
<1>12. g.cells = [i \in 1 .. N |-> g.cells[i]]
  <2>1. g.cells = [f.cells EXCEPT ![x + 1] = NoElement] /\ DOMAIN f.cells = 1 .. N
    BY <1>5, <1>6
  <2> QED BY <2>1
<1>13. \A i \in 0 .. N - 1 : i # x => g.cells[i + 1] = f.cells[i + 1]
  BY <1>1, <1>5, <1>6
<1>14. g = [size |-> g.size, indices |-> g.indices, cells |-> g.cells]
  BY <1>2
<1>15. Table(g, used \ {x}, N)
  <2>1. g.size \in 0 .. N /\ Cardinality(used \ {x}) = g.size
    BY <1>3, <1>4, <1>5
  <2>2. used \ {x} \subseteq 0 .. N - 1 /\ g.indices \in [1 .. N -> 0 .. N - 1]
    BY <1>6, <1>7
  <2> QED BY <2>1, <2>2, <1>10, <1>11, <1>12, <1>14 DEF Table
<1>16. NextIndex(g) = x
  BY <1>7, <1>8 DEF NextIndex
<1> QED BY <1>3, <1>13, <1>15, <1>16 DEF g

-----------------------------------------------------------------------------
(* Values that are kept in the cells of a fragmentation.                   *)

\* The cells that are in use.
Cells(at, values) == {at[k] : k \in DOMAIN values}

LEMMA CellsCount ==
    ASSUME NEW f, NEW at, NEW values, NEW N \in Nat, Keeps(f, at, values, N)
    PROVE  IsFiniteSet(Cells(at, values)) /\ Cardinality(Cells(at, values)) = Cardinality(DOMAIN values)
<1>1. IsFiniteSet(DOMAIN values) /\ at \in [DOMAIN values -> 0 .. N - 1] /\ \A k, l \in DOMAIN values : at[k] = at[l] => k = l
  BY DEF Keeps
<1>2. at \in Bijection(DOMAIN values, Cells(at, values))
  BY <1>1 DEF Bijection, Injection, Surjection, IsInjective, Cells
<1>3. ExistsBijection(DOMAIN values, Cells(at, values))
  BY <1>2 DEF ExistsBijection
<1> QED BY <1>1, <1>3, FS_Bijection

LEMMA KeepsEmplace ==
    ASSUME NEW f, NEW at, NEW values, NEW N \in Nat, NEW k, NEW val, Keeps(f, at, values, N),
           k \notin DOMAIN values, Cardinality(DOMAIN values) < N
    PROVE  /\ f.size # N
           /\ Keeps(EmplaceCell(f, val), Put(at, k, NextIndex(f)), Put(values, k, val), N)
<1> DEFINE used == Cells(at, values)  n == NextIndex(f)  g == EmplaceCell(f, val)  bt == Put(at, k, n)  w == Put(values, k, val)
<1>1. Table(f, used, N) /\ Cardinality(used) < N
  BY CellsCount DEF Keeps, Cells
<1>2. f.size # N /\ n \in (0 .. N - 1) \ used
  BY <1>1, TableFull
<1>3. /\ Table(g, used \cup {n}, N)
      /\ g.cells[n + 1] = val
      /\ \A i \in 0 .. N - 1 : i # n => g.cells[i + 1] = f.cells[i + 1]
  <2>1. Table(g, used \cup {n}, N) /\ g.cells = [f.cells EXCEPT ![n + 1] = val]
    <3> HIDE DEF used
    <3> QED BY <1>1, TableEmplace
  <2>2. f.cells = [i \in 1 .. N |-> f.cells[i]]
    BY <1>1 DEF Table
  <2>3. DOMAIN f.cells = 1 .. N /\ n + 1 \in 1 .. N
    BY <1>2, <2>2
  <2> HIDE DEF g, n, used
  <2> QED BY <2>1, <2>3, <1>2
<1>4. at \in [DOMAIN values -> 0 .. N - 1] /\ (\A x, y \in DOMAIN values : at[x] = at[y] => x = y) /\ (\A x \in DOMAIN values : f.cells[at[x] + 1] = values[x])
  BY DEF Keeps
<1>6. DOMAIN w = DOMAIN values \cup {k} /\ w[k] = val /\ \A x \in DOMAIN values : w[x] = values[x]
  <2>1. \A x \in DOMAIN values : x # k
    OBVIOUS
  <2>2. DOMAIN w = DOMAIN values \cup {k}
    BY PutDomain
  <2>3. w[k] = val
    BY PutNew
  <2>4. \A x \in DOMAIN values : w[x] = values[x]
    BY <2>1, PutOld
  <2> QED BY <2>2, <2>3, <2>4
<1>5. IsFiniteSet(DOMAIN w)
  <2>1. IsFiniteSet(DOMAIN values)
    BY DEF Keeps
  <2> QED BY <2>1, <1>6, FS_AddElement
<1>7. bt[k] = n /\ \A x \in DOMAIN values : bt[x] = at[x]
  <2>1. DOMAIN at = DOMAIN values /\ \A x \in DOMAIN values : x # k
    BY <1>4
  <2>2. bt[k] = n
    BY PutNew
  <2>3. \A x \in DOMAIN values : bt[x] = at[x]
    BY <2>1, PutOld
  <2> QED BY <2>2, <2>3
<1>8. bt \in [DOMAIN w -> 0 .. N - 1]
  <2>1. bt = [x \in DOMAIN values \cup {k} |-> IF x = k THEN n ELSE at[x]]
    BY <1>4 DEF Put
  <2> HIDE DEF bt, n, w
  <2> QED BY <2>1, <1>2, <1>4, <1>6
<1>9. \A x \in DOMAIN values : at[x] \in used
  BY DEF Cells
<1>10. {bt[x] : x \in DOMAIN w} = used \cup {n}
  <2> HIDE DEF bt, n, w
  <2> QED BY <1>6, <1>7 DEF Cells
<1> HIDE DEF used, n, g, bt, w
<1>11. \A x, y \in DOMAIN w : bt[x] = bt[y] => x = y
  BY <1>2, <1>4, <1>6, <1>7, <1>9
<1>12. \A x \in DOMAIN w : g.cells[bt[x] + 1] = w[x]
  BY <1>2, <1>3, <1>4, <1>6, <1>7, <1>9
<1>13. Keeps(g, bt, w, N)
  BY <1>3, <1>5, <1>8, <1>10, <1>11, <1>12 DEF Keeps
<1> QED BY <1>2, <1>13 DEF g, bt, w, n

\* The cell that was left is the next to be used.
LEMMA KeepsErase ==
    ASSUME NEW f, NEW at, NEW values, NEW N \in Nat, NEW k \in DOMAIN values, Keeps(f, at, values, N)
    PROVE  /\ Keeps(EraseCell(f, at[k]), Drop(at, k), Drop(values, k), N)
           /\ NextIndex(EraseCell(f, at[k])) = at[k]
           /\ Cardinality(DOMAIN values \ {k}) < N
<1> DEFINE used == Cells(at, values)  n == at[k]  g == EraseCell(f, n)  bt == Drop(at, k)  w == Drop(values, k)
<1>1. Table(f, used, N) /\ n \in used
  BY DEF Keeps, Cells
<1>2. /\ Table(g, used \ {n}, N)
      /\ NextIndex(g) = n
      /\ Cardinality(used \ {n}) < N
      /\ \A i \in 0 .. N - 1 : i # n => g.cells[i + 1] = f.cells[i + 1]
  BY <1>1, TableErase
<1>3. at \in [DOMAIN values -> 0 .. N - 1] /\ (\A x, y \in DOMAIN values : at[x] = at[y] => x = y) /\ (\A x \in DOMAIN values : f.cells[at[x] + 1] = values[x])
  BY DEF Keeps
<1>4. DOMAIN w = DOMAIN values \ {k} /\ \A x \in DOMAIN values : x # k => w[x] = values[x]
  BY DropIs
<1>5. bt = [x \in DOMAIN values \ {k} |-> at[x]]
  BY <1>3 DEF Drop
<1>6. IsFiniteSet(DOMAIN values) /\ IsFiniteSet(DOMAIN w)
  BY <1>4, FS_RemoveElement DEF Keeps
<1>7. {bt[x] : x \in DOMAIN w} = used \ {n}
  <2> HIDE DEF bt, n, w
  <2>1. \A x \in DOMAIN w : bt[x] = at[x] /\ x # k /\ x \in DOMAIN values
    BY <1>4, <1>5
  <2>2. used \ {n} = {at[x] : x \in DOMAIN values \ {k}}
    BY <1>3 DEF Cells, n
  <2> QED BY <2>1, <2>2, <1>4
<1>8. Cardinality(DOMAIN values \ {k}) < N
  <2>1. Cardinality(DOMAIN values \ {k}) = Cardinality(DOMAIN values) - 1
    BY <1>6, FS_RemoveElement
  <2>2. Cardinality(used \ {n}) = Cardinality(used) - 1 /\ Cardinality(used) = Cardinality(DOMAIN values)
    <3>1. IsFiniteSet(used) /\ Cardinality(used) = Cardinality(DOMAIN values)
      BY CellsCount
    <3> HIDE DEF used, n
    <3> QED BY <3>1, <1>1, FS_RemoveElement
  <2> HIDE DEF used, n
  <2> QED BY <2>1, <2>2, <1>2
<1> HIDE DEF used, n, g, bt, w
<1>9. bt \in [DOMAIN w -> 0 .. N - 1] /\ \A x, y \in DOMAIN w : bt[x] = bt[y] => x = y
  BY <1>3, <1>4, <1>5
<1>10. \A x \in DOMAIN w : bt[x] # n /\ bt[x] = at[x] /\ at[x] \in 0 .. N - 1 /\ w[x] = values[x] /\ f.cells[at[x] + 1] = values[x]
  BY <1>3, <1>4, <1>5 DEF n
<1>11. \A x \in DOMAIN w : g.cells[bt[x] + 1] = w[x]
  BY <1>2, <1>10
<1>12. Keeps(g, bt, w, N)
  BY <1>2, <1>6, <1>7, <1>9, <1>11 DEF Keeps
<1> QED BY <1>2, <1>8, <1>12 DEF g, bt, w, n

LEMMA CellsWritten ==
    ASSUME NEW n, NEW indices, NEW d, NEW c, NEW f, f = [size |-> n, indices |-> indices, cells |-> d]
    PROVE  [f EXCEPT !.cells = c] = [size |-> n, indices |-> indices, cells |-> c]
OBVIOUS

LEMMA KeepsWrite ==
    ASSUME NEW f, NEW at, NEW values, NEW N \in Nat, NEW k \in DOMAIN values, NEW v, Keeps(f, at, values, N),
           NEW w, DOMAIN w = DOMAIN values, w[k] = v, \A x \in DOMAIN values : x # k => w[x] = values[x]
    PROVE  Keeps([f EXCEPT !.cells[at[k] + 1] = v], at, w, N)
<1> DEFINE used == Cells(at, values)  g == [f EXCEPT !.cells[at[k] + 1] = v]
<1>1. Table(f, used, N)
  BY DEF Keeps, Cells
<1>2. at \in [DOMAIN values -> 0 .. N - 1] /\ (\A x, y \in DOMAIN values : at[x] = at[y] => x = y) /\ (\A x \in DOMAIN values : f.cells[at[x] + 1] = values[x])
  BY DEF Keeps
<1>3. f = [size |-> f.size, indices |-> f.indices, cells |-> f.cells] /\ f.cells = [i \in 1 .. N |-> f.cells[i]]
  BY <1>1 DEF Table
<1>4. g = [size |-> f.size, indices |-> f.indices, cells |-> [f.cells EXCEPT ![at[k] + 1] = v]]
  <2> DEFINE c == [f.cells EXCEPT ![at[k] + 1] = v]
  <2>1. g = [f EXCEPT !.cells = c]
    OBVIOUS
  <2> HIDE DEF c, g
  <2>2. [f EXCEPT !.cells = c] = [size |-> f.size, indices |-> f.indices, cells |-> c]
    BY <1>3, CellsWritten
  <2>3. g = [size |-> f.size, indices |-> f.indices, cells |-> c]
    BY <2>1, <2>2
  <2> QED BY <2>3 DEF c
<1> HIDE DEF g
<1>5. g.size = f.size /\ g.indices = f.indices /\ g.cells = [f.cells EXCEPT ![at[k] + 1] = v]
  BY <1>4
<1>6. DOMAIN f.cells = 1 .. N /\ at[k] + 1 \in 1 .. N
  BY <1>2, <1>3
<1>7. g.cells = [i \in 1 .. N |-> g.cells[i]] /\ g.cells[at[k] + 1] = v
  BY <1>5, <1>6
<1>8. \A x \in DOMAIN values : x # k => g.cells[at[x] + 1] = f.cells[at[x] + 1]
  BY <1>2, <1>5, <1>6
<1>9. Table(g, used, N)
  <2>1. g = [size |-> g.size, indices |-> g.indices, cells |-> g.cells]
    BY <1>4
  <2> HIDE DEF used
  <2>2. /\ f.size \in 0 .. N
        /\ f.indices \in [1 .. N -> 0 .. N - 1]
        /\ used \subseteq 0 .. N - 1
        /\ Cardinality(used) = f.size
        /\ {f.indices[i] : i \in f.size + 1 .. N} = (0 .. N - 1) \ used
        /\ \A i, j \in f.size + 1 .. N : f.indices[i] = f.indices[j] => i = j
    BY <1>1 DEF Table
  <2>3. g.cells = [i \in 1 .. N |-> g.cells[i]]
    BY <1>7
  <2> DEFINE rest(indices, n) == {indices[i] : i \in n + 1 .. N}
  <2>4. rest(g.indices, g.size) = (0 .. N - 1) \ used
    <3>1. rest(f.indices, f.size) = (0 .. N - 1) \ used
      BY <2>2
    <3> HIDE DEF rest
    <3> QED BY <3>1, <1>5
  <2>5. \A i, j \in g.size + 1 .. N : g.indices[i] = g.indices[j] => i = j
    BY <2>2, <1>5
  <2>6. g.size \in 0 .. N /\ Cardinality(used) = g.size /\ g.indices \in [1 .. N -> 0 .. N - 1]
    BY <2>2, <1>5
  <2> QED BY <2>1, <2>2, <2>3, <2>4, <2>5, <2>6 DEF Table
<1>10. {at[x] : x \in DOMAIN w} = used /\ IsFiniteSet(DOMAIN w)
  BY DEF Cells, Keeps
<1>11. \A x \in DOMAIN w : g.cells[at[x] + 1] = w[x]
  BY <1>2, <1>7, <1>8
<1> QED BY <1>2, <1>9, <1>10, <1>11 DEF Keeps, g

-----------------------------------------------------------------------------
(* Meshes and objects, which both renderers keep alike.                    *)

\* g and h have the same fields, and in these the same; what a frame is drawn from.
Same(g, h, fields) == DOMAIN h = DOMAIN g /\ \A k \in fields : h[k] = g[k]
Looks == {"resources", "meshes", "materials", "objects", "modelviews", "components", "selected"}

LEMMA KeepsSame ==
    ASSUME NEW f, NEW at, NEW values, NEW N, Keeps(f, at, values, N),
           NEW bt, NEW w, DOMAIN w = DOMAIN values, bt \in [DOMAIN values -> 0 .. N - 1],
           \A k \in DOMAIN values : bt[k] = at[k] /\ w[k] = values[k]
    PROVE  Keeps(f, bt, w, N)
<1>1. {bt[k] : k \in DOMAIN w} = {at[k] : k \in DOMAIN values}
  OBVIOUS
<1> QED BY <1>1 DEF Keeps

LEMMA ObjectsKept ==
    ASSUME NEW g, NEW s, NEW h, NEW z, ObjectsMatch(g, s),
           h.modelviews = g.modelviews, h.objects = g.objects, h.components = g.components, z.objects = s.objects,
           \A e \in DOMAIN s.objects : s.objects[e].mesh \in DOMAIN s.meshes =>
               s.objects[e].mesh \in DOMAIN z.meshes /\ h.resources[s.objects[e].mesh].index = g.resources[s.objects[e].mesh].index
    PROVE  ObjectsMatch(h, z)
<1>1. Keeps(h.modelviews, h.objects, Matrices(z), ObjectCells)
  BY DEF ObjectsMatch, Matrices
<1>2. ComponentsMatch(h, z)
  <2>1. /\ s.objects = [e \in DOMAIN s.objects |-> s.objects[e]]
        /\ DOMAIN g.components = DOMAIN s.objects
    BY DEF ObjectsMatch, ComponentsMatch
  <2>2. \A e \in DOMAIN s.objects :
          /\ {"mesh", "material", "matrix"} \subseteq DOMAIN s.objects[e]
          /\ s.objects[e].mesh \in DOMAIN s.meshes
          /\ g.components[e] = [object |-> g.objects[e], mesh |-> g.resources[s.objects[e].mesh].index,
                                material |-> s.objects[e].material]
    BY DEF ObjectsMatch, ComponentsMatch
  <2>3. z.objects = [e \in DOMAIN z.objects |-> z.objects[e]] /\ DOMAIN h.components = DOMAIN z.objects
    BY <2>1
  <2>4. \A e \in DOMAIN z.objects :
          /\ {"mesh", "material", "matrix"} \subseteq DOMAIN z.objects[e]
          /\ z.objects[e].mesh \in DOMAIN z.meshes
          /\ h.components[e] = [object |-> h.objects[e], mesh |-> h.resources[z.objects[e].mesh].index,
                                material |-> z.objects[e].material]
    BY <2>2
  <2> QED BY <2>3, <2>4 DEF ComponentsMatch
<1> QED BY <1>1, <1>2 DEF ObjectsMatch

\* What does not touch meshes, whatever else becomes of the resources.
LEMMA MeshesKept ==
    ASSUME NEW g, NEW s, NEW h, NEW z, MeshesMatch(g, s),
           h.meshes = g.meshes,
           Names(h, {"mesh_t"}) = Names(g, {"mesh_t"}),
           \A a \in DOMAIN s.meshes : h.resources[a].index = g.resources[a].index,
           DOMAIN z.meshes = DOMAIN s.meshes, \A a \in DOMAIN s.meshes : z.meshes[a] = s.meshes[a]
    PROVE  MeshesMatch(h, z)
<1>1. Keeps(g.meshes, MeshAt(g), s.meshes, MeshCells) /\ DOMAIN s.meshes = Names(g, {"mesh_t"})
  BY DEF MeshesMatch
<1>2. MeshAt(h) = MeshAt(g)
  BY <1>1 DEF MeshAt
<1>3. Keeps(h.meshes, MeshAt(h), z.meshes, MeshCells)
  <2>1. MeshAt(h) \in [DOMAIN s.meshes -> 0 .. MeshCells - 1]
    BY <1>1, <1>2 DEF Keeps
  <2> QED BY <2>1, <1>1, <1>2, KeepsSame
<1>4. MeshesMatch(h, z)
  BY <1>1, <1>3 DEF MeshesMatch
<1> QED BY <1>4

LEMMA CommonKept ==
    ASSUME NEW g, NEW s, NEW h, NEW z, MeshesMatch(g, s), ObjectsMatch(g, s),
           h.meshes = g.meshes, h.modelviews = g.modelviews, h.objects = g.objects, h.components = g.components,
           Names(h, {"mesh_t"}) = Names(g, {"mesh_t"}),
           \A a \in DOMAIN s.meshes : h.resources[a].index = g.resources[a].index,
           DOMAIN z.meshes = DOMAIN s.meshes, \A a \in DOMAIN s.meshes : z.meshes[a] = s.meshes[a],
           z.objects = s.objects
    PROVE  MeshesMatch(h, z) /\ ObjectsMatch(h, z)
<1>1. MeshesMatch(h, z)
  BY MeshesKept
<1>2. ObjectsMatch(h, z)
  BY ObjectsKept
<1> QED BY <1>1, <1>2

LEMMA MeshMade ==
    ASSUME NEW g, NEW a, NEW d, DOMAIN g = SceneFields, g.meshes.size # MeshCells
    PROVE  /\ Same(g, mesh_t(g, a, d), Looks \ {"resources", "meshes"})
           /\ mesh_t(g, a, d).resources = Put(g.resources, a, [type |-> "mesh_t", index |-> NextIndex(g.meshes)])
           /\ mesh_t(g, a, d).meshes = EmplaceCell(g.meshes, d)
BY DEF Same, Looks, mesh_t, SceneFields

LEMMA MeshErased ==
    ASSUME NEW g, NEW a, DOMAIN g = SceneFields
    PROVE  /\ Same(g, erase_resource(g, a), Looks \ {"resources", "meshes"})
           /\ erase_resource(g, a).resources = Drop(g.resources, a)
           /\ erase_resource(g, a).meshes = IF g.resources[a].type = "mesh_t" THEN EraseCell(g.meshes, g.resources[a].index) ELSE g.meshes
BY DEF Same, Looks, erase_resource, SceneFields

LEMMA NamesPut ==
    ASSUME NEW g, NEW h, NEW a, NEW r, NEW types, h.resources = Put(g.resources, a, r)
    PROVE  Names(h, types) = IF r.type \in types THEN Names(g, types) \cup {a} ELSE Names(g, types) \ {a}
BY DEF Names, Put

LEMMA NamesDrop ==
    ASSUME NEW g, NEW h, NEW a, NEW types, h.resources = Drop(g.resources, a)
    PROVE  Names(h, types) = Names(g, types) \ {a}
BY DEF Names, Drop

LEMMA NamesIn ==
    ASSUME NEW g, NEW types, NEW a \in Names(g, types)
    PROVE  a \in DOMAIN g.resources /\ g.resources[a].type \in types
BY DEF Names

\* A mesh that is new.
LEMMA MeshAdded ==
    ASSUME NEW g, NEW s, NEW a, NEW d, NEW z, MeshesMatch(g, s), ObjectsMatch(g, s), DOMAIN g = SceneFields,
           a \notin DOMAIN g.resources, Cardinality(DOMAIN s.meshes) < MeshCells,
           z.meshes = Put(s.meshes, a, d), z.objects = s.objects
    PROVE  /\ g.meshes.size # MeshCells
           /\ MeshesMatch(mesh_t(g, a, d), z)
           /\ ObjectsMatch(mesh_t(g, a, d), z)
<1> DEFINE h == mesh_t(g, a, d)  n == NextIndex(g.meshes)  r == [type |-> "mesh_t", index |-> n]
<1>0. MeshCells \in Nat
  BY CellsAssumption
<1>1. Keeps(g.meshes, MeshAt(g), s.meshes, MeshCells) /\ DOMAIN s.meshes = Names(g, {"mesh_t"})
  BY DEF MeshesMatch
<1>2. a \notin DOMAIN s.meshes
  BY <1>1, NamesIn
<1>3. g.meshes.size # MeshCells /\ Keeps(EmplaceCell(g.meshes, d), Put(MeshAt(g), a, n), Put(s.meshes, a, d), MeshCells)
  BY <1>0, <1>1, <1>2, KeepsEmplace
<1>4. Same(g, h, Looks \ {"resources", "meshes"}) /\ h.resources = Put(g.resources, a, r) /\ h.meshes = EmplaceCell(g.meshes, d)
  BY <1>3, MeshMade
<1> HIDE DEF h, n
<1>5. r.type = "mesh_t" /\ r.index = n
  OBVIOUS
<1> HIDE DEF r
<1>6. Names(h, {"mesh_t"}) = DOMAIN s.meshes \cup {a}
  BY <1>1, <1>4, <1>5, NamesPut
<1>7. \A b \in DOMAIN s.meshes : h.resources[b].index = g.resources[b].index
  <2> SUFFICES ASSUME NEW b \in DOMAIN s.meshes PROVE h.resources[b] = g.resources[b]
    OBVIOUS
  <2>1. b \in DOMAIN g.resources /\ b # a
    BY <1>1, <1>2, NamesIn
  <2> QED BY <2>1, <1>4, PutOld
<1>8. h.resources[a] = r
  BY <1>4, PutNew
<1>9. MeshAt(h) = Put(MeshAt(g), a, n)
  BY <1>1, <1>2, <1>5, <1>6, <1>7, <1>8 DEF MeshAt, Put
<1>10. DOMAIN z.meshes = DOMAIN s.meshes \cup {a}
  BY DEF Put
<1>11. MeshesMatch(h, z)
  BY <1>3, <1>4, <1>6, <1>9, <1>10 DEF MeshesMatch
<1>12. h.objects = g.objects /\ h.modelviews = g.modelviews /\ h.components = g.components
  BY <1>4 DEF Same, Looks
<1>13. ObjectsMatch(h, z)
  <2> SUFFICES ASSUME NEW e \in DOMAIN s.objects, s.objects[e].mesh \in DOMAIN s.meshes
               PROVE  s.objects[e].mesh \in DOMAIN z.meshes /\ h.resources[s.objects[e].mesh].index = g.resources[s.objects[e].mesh].index
    BY <1>12, ObjectsKept
  <2> QED BY <1>7, <1>10
<1> QED BY <1>3, <1>11, <1>13 DEF h

\* A mesh that is replaced comes into the cell of the old one, so that components show it.
LEMMA MeshReplaced ==
    ASSUME NEW g, NEW s, NEW a, NEW d, NEW z, MeshesMatch(g, s), ObjectsMatch(g, s), DOMAIN g = SceneFields,
           a \in DOMAIN s.meshes, z.meshes = Put(s.meshes, a, d), z.objects = s.objects
    PROVE  LET h == mesh_t(erase_resource(g, a), a, d)
           IN  /\ erase_resource(g, a).meshes.size # MeshCells
               /\ MeshesMatch(h, z)
               /\ ObjectsMatch(h, z)
<1> DEFINE f == erase_resource(g, a)  h == mesh_t(f, a, d)  n == g.resources[a].index  r == [type |-> "mesh_t", index |-> n]
<1>0. MeshCells \in Nat
  BY CellsAssumption
<1>1. Keeps(g.meshes, MeshAt(g), s.meshes, MeshCells) /\ DOMAIN s.meshes = Names(g, {"mesh_t"})
  BY DEF MeshesMatch
<1>2. a \in DOMAIN g.resources /\ g.resources[a].type = "mesh_t" /\ MeshAt(g)[a] = n
  BY <1>1, NamesIn DEF MeshAt
<1>3. Same(g, f, Looks \ {"resources", "meshes"}) /\ f.resources = Drop(g.resources, a) /\ f.meshes = EraseCell(g.meshes, n)
  BY <1>2, MeshErased
<1>4. /\ Keeps(f.meshes, Drop(MeshAt(g), a), Drop(s.meshes, a), MeshCells)
      /\ NextIndex(f.meshes) = n
      /\ Cardinality(DOMAIN s.meshes \ {a}) < MeshCells
  <2> DEFINE k == MeshAt(g)[a]
  <2>1. /\ Keeps(EraseCell(g.meshes, k), Drop(MeshAt(g), a), Drop(s.meshes, a), MeshCells)
        /\ NextIndex(EraseCell(g.meshes, k)) = k
        /\ Cardinality(DOMAIN s.meshes \ {a}) < MeshCells
    BY <1>0, <1>1, KeepsErase
  <2>2. k = n
    BY <1>2
  <2> HIDE DEF f, n, k
  <2>3. f.meshes = EraseCell(g.meshes, k)
    BY <2>2, <1>3
  <2> QED BY <2>1, <2>2, <2>3
<1>5. DOMAIN Drop(s.meshes, a) = DOMAIN s.meshes \ {a}
  BY DropIs
<1>6. f.meshes.size # MeshCells /\ Keeps(EmplaceCell(f.meshes, d), Put(Drop(MeshAt(g), a), a, n), Put(Drop(s.meshes, a), a, d), MeshCells)
  <2>1. a \notin DOMAIN Drop(s.meshes, a) /\ Cardinality(DOMAIN Drop(s.meshes, a)) < MeshCells
    BY <1>4, <1>5
  <2> HIDE DEF f, n
  <2> QED BY <2>1, <1>0, <1>4, KeepsEmplace
<1>7. DOMAIN f = SceneFields
  BY <1>3 DEF Same
<1>8. Same(f, h, Looks \ {"resources", "meshes"}) /\ h.resources = Put(f.resources, a, r) /\ h.meshes = EmplaceCell(f.meshes, d)
  <2> HIDE DEF f, n
  <2> QED BY <1>4, <1>6, <1>7, MeshMade
<1> HIDE DEF f, h, n
<1>9. r.type = "mesh_t" /\ r.index = n
  OBVIOUS
<1> HIDE DEF r
<1>10. Names(h, {"mesh_t"}) = DOMAIN s.meshes
  <2>1. Names(f, {"mesh_t"}) = DOMAIN s.meshes \ {a}
    <3>1. f.resources = Drop(g.resources, a)
      BY <1>3
    <3>2. Names(f, {"mesh_t"}) = Names(g, {"mesh_t"}) \ {a}
      BY <3>1 DEF Names, Drop
    <3> QED BY <3>2, <1>1
  <2>2. Names(h, {"mesh_t"}) = Names(f, {"mesh_t"}) \cup {a}
    BY <1>8, <1>9, NamesPut
  <2> QED BY <2>1, <2>2
<1>11. \A b \in DOMAIN s.meshes : h.resources[b].index = g.resources[b].index
  <2> SUFFICES ASSUME NEW b \in DOMAIN s.meshes PROVE h.resources[b].index = g.resources[b].index
    OBVIOUS
  <2>1. CASE b = a
    <3>1. h.resources[a] = r
      BY <1>8, PutNew
    <3> QED BY <2>1, <3>1, <1>9 DEF n
  <2>2. CASE b # a
    <3>1. b \in DOMAIN g.resources
      BY <1>1, NamesIn
    <3>2. b \in DOMAIN f.resources /\ f.resources[b] = g.resources[b]
      BY <2>2, <3>1, <1>3 DEF Drop
    <3> QED BY <2>2, <3>2, <1>8, PutOld
  <2> QED BY <2>1, <2>2
<1>12. Keeps(h.meshes, MeshAt(h), z.meshes, MeshCells) /\ DOMAIN z.meshes = DOMAIN s.meshes
  <2> DEFINE w == Put(Drop(s.meshes, a), a, d)  bt == Put(Drop(MeshAt(g), a), a, n)
  <2>1. DOMAIN w = DOMAIN s.meshes /\ DOMAIN z.meshes = DOMAIN s.meshes
    BY DEF Put, Drop
  <2>2. \A b \in DOMAIN s.meshes : z.meshes[b] = w[b]
    BY DEF Put, Drop
  <2>3. \A b \in DOMAIN s.meshes : MeshAt(h)[b] = MeshAt(g)[b]
    BY <1>1, <1>10, <1>11 DEF MeshAt
  <2>4. \A b \in DOMAIN s.meshes : bt[b] = MeshAt(g)[b]
    <3>1. DOMAIN MeshAt(g) = DOMAIN s.meshes
      BY <1>1 DEF MeshAt
    <3> QED BY <3>1, <1>2 DEF Put, Drop
  <2>5. MeshAt(h) \in [DOMAIN s.meshes -> 0 .. MeshCells - 1]
    <3>1. MeshAt(h) = [b \in DOMAIN s.meshes |-> h.resources[b].index]
      BY <1>10 DEF MeshAt
    <3>2. MeshAt(g) \in [DOMAIN s.meshes -> 0 .. MeshCells - 1]
      BY <1>1 DEF Keeps
    <3> QED BY <3>1, <3>2, <2>3
  <2> HIDE DEF w, bt
  <2>6. Keeps(h.meshes, bt, w, MeshCells)
    BY <1>6, <1>8 DEF w, bt
  <2> QED BY <2>1, <2>2, <2>3, <2>4, <2>5, <2>6, KeepsSame
<1>13. MeshesMatch(h, z)
  BY <1>10, <1>12 DEF MeshesMatch
<1>14. h.objects = g.objects /\ h.modelviews = g.modelviews /\ h.components = g.components
  BY <1>3, <1>8 DEF Same, Looks
<1>15. ObjectsMatch(h, z)
  <2> SUFFICES ASSUME NEW e \in DOMAIN s.objects, s.objects[e].mesh \in DOMAIN s.meshes
               PROVE  s.objects[e].mesh \in DOMAIN z.meshes /\ h.resources[s.objects[e].mesh].index = g.resources[s.objects[e].mesh].index
    BY <1>14, ObjectsKept
  <2> QED BY <1>11, <1>12
<1> QED BY <1>6, <1>13, <1>15 DEF h, f

\* A mesh that no object has is unregistered.
LEMMA MeshDropped ==
    ASSUME NEW g, NEW s, NEW a, NEW z, MeshesMatch(g, s), ObjectsMatch(g, s), DOMAIN g = SceneFields,
           a \in DOMAIN s.meshes, \A e \in DOMAIN s.objects : s.objects[e].mesh # a,
           z.meshes = Drop(s.meshes, a), z.objects = s.objects
    PROVE  MeshesMatch(erase_resource(g, a), z) /\ ObjectsMatch(erase_resource(g, a), z)
<1> DEFINE h == erase_resource(g, a)  n == g.resources[a].index
<1>0. MeshCells \in Nat
  BY CellsAssumption
<1>1. Keeps(g.meshes, MeshAt(g), s.meshes, MeshCells) /\ DOMAIN s.meshes = Names(g, {"mesh_t"})
  BY DEF MeshesMatch
<1>2. a \in DOMAIN g.resources /\ g.resources[a].type = "mesh_t" /\ MeshAt(g)[a] = n
  BY <1>1, NamesIn DEF MeshAt
<1>3. Same(g, h, Looks \ {"resources", "meshes"}) /\ h.resources = Drop(g.resources, a) /\ h.meshes = EraseCell(g.meshes, n)
  BY <1>2, MeshErased
<1>4. Keeps(h.meshes, Drop(MeshAt(g), a), Drop(s.meshes, a), MeshCells)
  <2>1. Keeps(EraseCell(g.meshes, MeshAt(g)[a]), Drop(MeshAt(g), a), Drop(s.meshes, a), MeshCells)
    BY <1>0, <1>1, KeepsErase
  <2> HIDE DEF h, n
  <2> QED BY <2>1, <1>2, <1>3
<1> HIDE DEF h, n
<1>5. Names(h, {"mesh_t"}) = DOMAIN s.meshes \ {a} /\ DOMAIN z.meshes = DOMAIN s.meshes \ {a}
  <2>1. Names(h, {"mesh_t"}) = DOMAIN s.meshes \ {a}
    BY <1>1, <1>3, NamesDrop
  <2> QED BY <2>1 DEF Drop
<1>6. \A b \in DOMAIN z.meshes : h.resources[b] = g.resources[b]
  <2> SUFFICES ASSUME NEW b \in DOMAIN z.meshes PROVE h.resources[b] = g.resources[b]
    OBVIOUS
  <2>1. b \in DOMAIN g.resources /\ b # a
    BY <1>1, <1>5, NamesIn
  <2> QED BY <2>1, <1>3 DEF Drop
<1>7. MeshAt(h) = Drop(MeshAt(g), a)
  BY <1>1, <1>5, <1>6 DEF MeshAt, Drop
<1>8. MeshesMatch(h, z)
  BY <1>4, <1>5, <1>7 DEF MeshesMatch
<1>9. h.objects = g.objects /\ h.modelviews = g.modelviews /\ h.components = g.components
  BY <1>3 DEF Same, Looks
<1>10. ObjectsMatch(h, z)
  <2> SUFFICES ASSUME NEW e \in DOMAIN s.objects, s.objects[e].mesh \in DOMAIN s.meshes
               PROVE  s.objects[e].mesh \in DOMAIN z.meshes /\ h.resources[s.objects[e].mesh].index = g.resources[s.objects[e].mesh].index
    BY <1>9, ObjectsKept
  <2> QED BY <1>5, <1>6
<1> QED BY <1>8, <1>10 DEF h

\* The transform that an entity gets, in place of one it may have.
Placed(g, e, m) == object_modelview(IF e \in DOMAIN g.objects THEN erase_object(g, e) ELSE g, e, m)

LEMMA ObjectMade ==
    ASSUME NEW g, NEW e, NEW m, DOMAIN g = SceneFields, g.modelviews.size # ObjectCells
    PROVE  /\ Same(g, object_modelview(g, e, m), Looks \ {"objects", "modelviews"})
           /\ object_modelview(g, e, m).objects = Put(g.objects, e, NextIndex(g.modelviews))
           /\ object_modelview(g, e, m).modelviews = EmplaceCell(g.modelviews, m)
BY DEF Same, Looks, object_modelview, SceneFields

LEMMA ObjectErased ==
    ASSUME NEW g, NEW e, DOMAIN g = SceneFields
    PROVE  /\ Same(g, erase_object(g, e), Looks \ {"objects", "modelviews"})
           /\ erase_object(g, e).objects = Drop(g.objects, e)
           /\ erase_object(g, e).modelviews = EraseCell(g.modelviews, g.objects[e])
BY DEF Same, Looks, erase_object, SceneFields

LEMMA ObjectsDomain ==
    ASSUME NEW g, NEW s, ObjectsMatch(g, s)
    PROVE  /\ DOMAIN Matrices(s) = DOMAIN s.objects
           /\ DOMAIN g.objects = DOMAIN s.objects
           /\ DOMAIN g.components = DOMAIN s.objects
           /\ Keeps(g.modelviews, g.objects, Matrices(s), ObjectCells)
BY DEF ObjectsMatch, ComponentsMatch, Matrices, Keeps

\* What h has for g is the transform, and nothing else has moved.
PlacedWell(g, s, e, m, h) ==
    /\ Same(g, h, Looks \ {"objects", "modelviews"})
    /\ \A d \in DOMAIN s.objects : d # e => h.objects[d] = g.objects[d]
    /\ \E w : /\ DOMAIN w = DOMAIN s.objects \cup {e}
              /\ w[e] = m
              /\ \A d \in DOMAIN s.objects : d # e => w[d] = s.objects[d].matrix
              /\ Keeps(h.modelviews, h.objects, w, ObjectCells)

LEMMA ObjectPlaced ==
    ASSUME NEW g, NEW s, NEW e, NEW m, ObjectsMatch(g, s), DOMAIN g = SceneFields,
           e \in DOMAIN s.objects \/ Cardinality(DOMAIN s.objects) < ObjectCells
    PROVE  PlacedWell(g, s, e, m, Placed(g, e, m))
<1> DEFINE h == Placed(g, e, m)  mats == Matrices(s)
<1>0. ObjectCells \in Nat
  BY CellsAssumption
<1>1. /\ DOMAIN mats = DOMAIN s.objects
      /\ DOMAIN g.objects = DOMAIN s.objects
      /\ Keeps(g.modelviews, g.objects, mats, ObjectCells)
  BY ObjectsDomain
<1>2. \A d \in DOMAIN s.objects : mats[d] = s.objects[d].matrix
  BY DEF Matrices
<1>3. CASE e \notin DOMAIN s.objects
  <2> DEFINE w == Put(mats, e, m)
  <2>1. h = object_modelview(g, e, m)
    BY <1>1, <1>3 DEF Placed
  <2> HIDE DEF mats, h
  <2>2. g.modelviews.size # ObjectCells /\ Keeps(EmplaceCell(g.modelviews, m), Put(g.objects, e, NextIndex(g.modelviews)), w, ObjectCells)
    BY <1>0, <1>1, <1>3, KeepsEmplace
  <2>3. /\ Same(g, h, Looks \ {"objects", "modelviews"})
        /\ h.objects = Put(g.objects, e, NextIndex(g.modelviews))
        /\ h.modelviews = EmplaceCell(g.modelviews, m)
    BY <2>1, <2>2, ObjectMade
  <2>4. \A d \in DOMAIN s.objects : d # e => h.objects[d] = g.objects[d]
    BY <1>1, <2>3, PutOld
  <2>5. DOMAIN w = DOMAIN s.objects \cup {e}
    BY <1>1 DEF Put
  <2>6. w[e] = m
    BY PutNew
  <2>7. \A d \in DOMAIN s.objects : d # e => w[d] = s.objects[d].matrix
    BY <1>1, <1>2, PutOld
  <2>8. Keeps(h.modelviews, h.objects, w, ObjectCells)
    BY <2>2, <2>3
  <2> HIDE DEF w
  <2> QED BY <2>3, <2>4, <2>5, <2>6, <2>7, <2>8 DEF h, PlacedWell
<1>4. CASE e \in DOMAIN s.objects
  <2> DEFINE f == erase_object(g, e)  n == g.objects[e]  w == Put(Drop(mats, e), e, m)
  <2>1. h = object_modelview(f, e, m)
    BY <1>1, <1>4 DEF Placed
  <2>2. /\ Same(g, f, Looks \ {"objects", "modelviews"})
        /\ f.objects = Drop(g.objects, e)
        /\ f.modelviews = EraseCell(g.modelviews, n)
    BY ObjectErased
  <2> HIDE DEF mats, h, f, n
  <2>3. /\ Keeps(EraseCell(g.modelviews, g.objects[e]), Drop(g.objects, e), Drop(mats, e), ObjectCells)
        /\ Cardinality(DOMAIN mats \ {e}) < ObjectCells
    BY <1>0, <1>1, <1>4, KeepsErase
  <2>4. Keeps(f.modelviews, f.objects, Drop(mats, e), ObjectCells)
    BY <2>2, <2>3 DEF n
  <2>5. DOMAIN Drop(mats, e) = DOMAIN s.objects \ {e} /\ DOMAIN f.objects = DOMAIN s.objects \ {e}
    BY <1>1, <2>2 DEF Drop
  <2>6. f.modelviews.size # ObjectCells /\ Keeps(EmplaceCell(f.modelviews, m), Put(f.objects, e, NextIndex(f.modelviews)), w, ObjectCells)
    <3>1. e \notin DOMAIN Drop(mats, e) /\ Cardinality(DOMAIN Drop(mats, e)) < ObjectCells
      BY <1>1, <2>3, <2>5
    <3> QED BY <3>1, <1>0, <2>4, KeepsEmplace
  <2>7. DOMAIN f = SceneFields
    BY <2>2 DEF Same
  <2>8. /\ Same(f, h, Looks \ {"objects", "modelviews"})
        /\ h.objects = Put(f.objects, e, NextIndex(f.modelviews))
        /\ h.modelviews = EmplaceCell(f.modelviews, m)
    BY <2>1, <2>6, <2>7, ObjectMade
  <2>9. Same(g, h, Looks \ {"objects", "modelviews"})
    BY <2>2, <2>8 DEF Same
  <2>10. \A d \in DOMAIN s.objects : d # e => h.objects[d] = g.objects[d]
    BY <1>1, <2>2, <2>8 DEF Put, Drop
  <2>11. DOMAIN w = DOMAIN s.objects \cup {e}
    BY <2>5, <1>4 DEF Put
  <2>12. w[e] = m
    BY PutNew
  <2>13. \A d \in DOMAIN s.objects : d # e => w[d] = s.objects[d].matrix
    BY <1>1, <1>2 DEF Put, Drop
  <2>14. Keeps(h.modelviews, h.objects, w, ObjectCells)
    BY <2>6, <2>8
  <2> HIDE DEF w
  <2> QED BY <2>9, <2>10, <2>11, <2>12, <2>13, <2>14 DEF h, PlacedWell
<1> QED BY <1>3, <1>4

\* A component of the entity, with its transform and a mesh there is.
Component(g, x) ==
    LET moved == Placed(g, x.entity, x.matrix)
    IN [moved EXCEPT !.components = Put(@, x.entity, MeshObject(moved, x))]

LEMMA ComponentAdded ==
    ASSUME NEW g, NEW s, NEW x, NEW z, MeshesMatch(g, s), ObjectsMatch(g, s), DOMAIN g = SceneFields,
           {"mesh", "material", "matrix"} \subseteq DOMAIN x, x.mesh \in DOMAIN s.meshes,
           x.entity \in DOMAIN s.objects \/ Cardinality(DOMAIN s.objects) < ObjectCells,
           z.meshes = s.meshes, z.objects = Put(s.objects, x.entity, x)
    PROVE  /\ Same(g, Component(g, x), Looks \ {"objects", "modelviews", "components"})
           /\ MeshesMatch(Component(g, x), z)
           /\ ObjectsMatch(Component(g, x), z)
<1> DEFINE e == x.entity  f == Placed(g, e, x.matrix)  h == Component(g, x)
<1>0. PlacedWell(g, s, e, x.matrix, f)
  BY ObjectPlaced
<1>1. /\ Same(g, f, Looks \ {"objects", "modelviews"})
      /\ \A d \in DOMAIN s.objects : d # e => f.objects[d] = g.objects[d]
  BY <1>0 DEF PlacedWell
<1>2. PICK w : /\ DOMAIN w = DOMAIN s.objects \cup {e}
               /\ w[e] = x.matrix
               /\ \A d \in DOMAIN s.objects : d # e => w[d] = s.objects[d].matrix
               /\ Keeps(f.modelviews, f.objects, w, ObjectCells)
  BY <1>0 DEF PlacedWell
<1>3. h = [f EXCEPT !.components = Put(@, e, MeshObject(f, x))]
  BY DEF Component
<1> HIDE DEF e, f, h
<1>4. /\ Same(f, h, Looks \ {"components"})
      /\ h.components = Put(f.components, e, MeshObject(f, x))
  <2>1. DOMAIN f = SceneFields
    BY <1>1 DEF Same
  <2> QED BY <2>1, <1>3 DEF Same, Looks, SceneFields
<1>5. /\ Same(g, h, Looks \ {"objects", "modelviews", "components"})
      /\ h.resources = g.resources /\ f.resources = g.resources /\ h.meshes = g.meshes
      /\ h.objects = f.objects /\ h.modelviews = f.modelviews
      /\ f.components = g.components
  BY <1>1, <1>4 DEF Same, Looks
<1>6. MeshesMatch(h, z)
  <2>1. Names(h, {"mesh_t"}) = Names(g, {"mesh_t"})
    BY <1>5 DEF Names
  <2> QED BY <2>1, <1>5, MeshesKept
<1>7. Keeps(h.modelviews, h.objects, Matrices(z), ObjectCells)
  <2>1. DOMAIN Matrices(z) = DOMAIN w /\ \A d \in DOMAIN w : Matrices(z)[d] = w[d]
    <3>1. DOMAIN z.objects = DOMAIN w /\ z.objects[e] = x /\ \A d \in DOMAIN s.objects : d # e => z.objects[d] = s.objects[d]
      BY <1>2 DEF Put, e
    <3> QED BY <3>1, <1>2 DEF Matrices
  <2>2. f.objects \in [DOMAIN w -> 0 .. ObjectCells - 1]
    BY <1>2 DEF Keeps
  <2> QED BY <2>1, <2>2, <1>2, <1>5, KeepsSame
<1>8. ComponentsMatch(h, z)
  <2>1. ComponentsMatch(g, s)
    BY DEF ObjectsMatch
  <2>2. DOMAIN z.objects = DOMAIN s.objects \cup {e} /\ z.objects[e] = x /\ \A d \in DOMAIN s.objects : d # e => z.objects[d] = s.objects[d]
    BY DEF Put, e
  <2>3. z.objects = [d \in DOMAIN z.objects |-> z.objects[d]]
    BY DEF Put
  <2>4. DOMAIN h.components = DOMAIN z.objects
    BY <2>1, <2>2, <1>4, <1>5 DEF ComponentsMatch, Put
  <2>5. h.components[e] = MeshObject(f, x)
    BY <1>4, PutNew
  <2>6. h.components[e] = [object |-> h.objects[e], mesh |-> h.resources[z.objects[e].mesh].index, material |-> z.objects[e].material]
    BY <2>2, <2>5, <1>5 DEF MeshObject, e
  <2>7. \A d \in DOMAIN s.objects : d # e => h.components[d] = g.components[d]
    BY <2>1, <1>4, <1>5, PutOld DEF ComponentsMatch
  <2>8. \A d \in DOMAIN s.objects : d # e =>
           h.components[d] = [object |-> h.objects[d], mesh |-> h.resources[z.objects[d].mesh].index, material |-> z.objects[d].material]
    BY <2>1, <2>2, <2>7, <1>1, <1>5 DEF ComponentsMatch
  <2>9. \A d \in DOMAIN z.objects : {"mesh", "material", "matrix"} \subseteq DOMAIN z.objects[d] /\ z.objects[d].mesh \in DOMAIN z.meshes
    BY <2>1, <2>2 DEF ComponentsMatch
  <2> QED BY <2>2, <2>3, <2>4, <2>6, <2>8, <2>9 DEF ComponentsMatch
<1>9. ObjectsMatch(h, z)
  BY <1>7, <1>8 DEF ObjectsMatch
<1> QED BY <1>5, <1>6, <1>9 DEF h

LEMMA ObjectUpdated ==
    ASSUME NEW g, NEW s, NEW x, NEW z, MeshesMatch(g, s), ObjectsMatch(g, s), DOMAIN g = SceneFields,
           x.entity \in DOMAIN s.objects,
           z.meshes = s.meshes, z.objects = [s.objects EXCEPT ![x.entity].matrix = x.matrix]
    PROVE  /\ Same(g, update_modelview(g, x), Looks \ {"modelviews"})
           /\ MeshesMatch(update_modelview(g, x), z)
           /\ ObjectsMatch(update_modelview(g, x), z)
<1> DEFINE e == x.entity  h == update_modelview(g, x)
<1>0. ObjectCells \in Nat
  BY CellsAssumption
<1>1. /\ Same(g, h, Looks \ {"modelviews"})
      /\ h.modelviews = [g.modelviews EXCEPT !.cells[g.objects[e] + 1] = x.matrix]
  BY DEF update_modelview, Same, Looks, SceneFields
<1> HIDE DEF e, h
<1>2. h.resources = g.resources /\ h.meshes = g.meshes /\ h.objects = g.objects /\ h.components = g.components
  BY <1>1 DEF Same, Looks
<1>3. MeshesMatch(h, z)
  <2>1. Names(h, {"mesh_t"}) = Names(g, {"mesh_t"})
    BY <1>2 DEF Names
  <2> QED BY <2>1, <1>2, MeshesKept
<1>4. ComponentsMatch(g, s)
  BY DEF ObjectsMatch
<1>5. s.objects = [d \in DOMAIN s.objects |-> s.objects[d]] /\ e \in DOMAIN s.objects
  BY <1>4 DEF ComponentsMatch, e
<1>6. /\ DOMAIN z.objects = DOMAIN s.objects
      /\ z.objects[e] = [s.objects[e] EXCEPT !.matrix = x.matrix]
      /\ \A d \in DOMAIN s.objects : d # e => z.objects[d] = s.objects[d]
      /\ z.objects = [d \in DOMAIN z.objects |-> z.objects[d]]
  BY <1>5 DEF e
<1>7. /\ {"mesh", "material", "matrix"} \subseteq DOMAIN z.objects[e]
      /\ z.objects[e].matrix = x.matrix
      /\ z.objects[e].mesh = s.objects[e].mesh /\ z.objects[e].material = s.objects[e].material
  <2>1. {"mesh", "material", "matrix"} \subseteq DOMAIN s.objects[e]
    BY <1>4, <1>5 DEF ComponentsMatch
  <2> QED BY <2>1, <1>6
<1>8. Keeps(h.modelviews, h.objects, Matrices(z), ObjectCells)
  <2>1. Keeps(g.modelviews, g.objects, Matrices(s), ObjectCells) /\ DOMAIN Matrices(s) = DOMAIN s.objects
    BY ObjectsDomain
  <2>2. DOMAIN Matrices(z) = DOMAIN Matrices(s)
    BY <1>6 DEF Matrices
  <2>3. Matrices(z)[e] = x.matrix
    BY <1>5, <1>6, <1>7 DEF Matrices
  <2>4. \A d \in DOMAIN Matrices(s) : d # e => Matrices(z)[d] = Matrices(s)[d]
    BY <1>6 DEF Matrices
  <2>5. Keeps([g.modelviews EXCEPT !.cells[g.objects[e] + 1] = x.matrix], g.objects, Matrices(z), ObjectCells)
    BY <1>0, <1>5, <2>1, <2>2, <2>3, <2>4, KeepsWrite
  <2> QED BY <2>5, <1>1, <1>2
<1>9. ComponentsMatch(h, z)
  <2>1. DOMAIN h.components = DOMAIN z.objects
    BY <1>2, <1>4, <1>6 DEF ComponentsMatch
  <2>2. ASSUME NEW d \in DOMAIN s.objects
        PROVE  /\ {"mesh", "material", "matrix"} \subseteq DOMAIN z.objects[d]
               /\ z.objects[d].mesh = s.objects[d].mesh /\ z.objects[d].material = s.objects[d].material
    <3>1. CASE d = e
      BY <3>1, <1>7
    <3>2. CASE d # e
      BY <3>2, <1>4, <1>6 DEF ComponentsMatch
    <3> QED BY <3>1, <3>2
  <2>3. ASSUME NEW d \in DOMAIN s.objects
        PROVE  /\ z.objects[d].mesh \in DOMAIN z.meshes
               /\ h.components[d] = [object |-> h.objects[d], mesh |-> h.resources[z.objects[d].mesh].index, material |-> z.objects[d].material]
    BY <2>2, <1>2, <1>4 DEF ComponentsMatch
  <2> QED BY <2>1, <2>2, <2>3, <1>6 DEF ComponentsMatch
<1>10. ObjectsMatch(h, z)
  BY <1>8, <1>9 DEF ObjectsMatch
<1> QED BY <1>1, <1>3, <1>10 DEF h

\* The entity loses its component, and its transform.
LEMMA ObjectRemoved ==
    ASSUME NEW g, NEW s, NEW e, NEW h, NEW z, MeshesMatch(g, s), ObjectsMatch(g, s), DOMAIN g = SceneFields,
           e \in DOMAIN s.objects,
           h = erase_object([g EXCEPT !.selectable = Drop(@, e), !.updateable = Drop(@, e), !.components = Drop(@, e)], e),
           z.meshes = s.meshes, z.objects = Drop(s.objects, e)
    PROVE  /\ Same(g, h, Looks \ {"objects", "modelviews", "components"})
           /\ MeshesMatch(h, z)
           /\ ObjectsMatch(h, z)
<1>0. ObjectCells \in Nat
  BY CellsAssumption
<1>1. /\ Same(g, h, Looks \ {"objects", "modelviews", "components"})
      /\ h.objects = Drop(g.objects, e)
      /\ h.modelviews = EraseCell(g.modelviews, g.objects[e])
      /\ h.components = Drop(g.components, e)
  BY DEF erase_object, Same, Looks, SceneFields
<1>2. h.resources = g.resources /\ h.meshes = g.meshes
  BY <1>1 DEF Same, Looks
<1>3. MeshesMatch(h, z)
  <2>1. Names(h, {"mesh_t"}) = Names(g, {"mesh_t"})
    BY <1>2 DEF Names
  <2> QED BY <2>1, <1>2, MeshesKept
<1>4. ComponentsMatch(g, s)
  BY DEF ObjectsMatch
<1>5. /\ DOMAIN z.objects = DOMAIN s.objects \ {e}
      /\ \A d \in DOMAIN z.objects : z.objects[d] = s.objects[d]
      /\ z.objects = [d \in DOMAIN z.objects |-> z.objects[d]]
  BY DEF Drop
<1>6. Keeps(h.modelviews, h.objects, Matrices(z), ObjectCells)
  <2>1. Keeps(g.modelviews, g.objects, Matrices(s), ObjectCells) /\ e \in DOMAIN Matrices(s) /\ DOMAIN Matrices(s) = DOMAIN s.objects
    BY ObjectsDomain
  <2>2. Keeps(EraseCell(g.modelviews, g.objects[e]), Drop(g.objects, e), Drop(Matrices(s), e), ObjectCells)
    BY <1>0, <2>1, KeepsErase
  <2>3. Drop(Matrices(s), e) = Matrices(z)
    BY <1>5 DEF Drop, Matrices
  <2> QED BY <2>2, <2>3, <1>1
<1>7. ComponentsMatch(h, z)
  <2>1. DOMAIN h.components = DOMAIN z.objects
    BY <1>1, <1>4, <1>5 DEF ComponentsMatch, Drop
  <2>2. \A d \in DOMAIN z.objects : h.components[d] = g.components[d]
    BY <1>1, <1>4, <1>5 DEF ComponentsMatch, Drop
  <2>3. \A d \in DOMAIN z.objects : h.objects[d] = g.objects[d]
    <3>1. DOMAIN g.objects = DOMAIN s.objects
      BY ObjectsDomain
    <3> QED BY <3>1, <1>1, <1>5 DEF Drop
  <2>4. ASSUME NEW d \in DOMAIN z.objects
        PROVE  /\ {"mesh", "material", "matrix"} \subseteq DOMAIN z.objects[d]
               /\ z.objects[d].mesh \in DOMAIN z.meshes
               /\ h.components[d] = [object |-> h.objects[d], mesh |-> h.resources[z.objects[d].mesh].index, material |-> z.objects[d].material]
    BY <2>2, <2>3, <1>2, <1>4, <1>5 DEF ComponentsMatch
  <2> QED BY <2>1, <2>4, <1>5 DEF ComponentsMatch
<1>8. ObjectsMatch(h, z)
  BY <1>6, <1>7 DEF ObjectsMatch
<1> QED BY <1>1, <1>3, <1>8

-----------------------------------------------------------------------------
(* OpenGL 3.0: what a message does keeps to what it means.                 *)

\* The assets and the materials of the renderer, apart from its meshes.
LEMMA ResourcesKept30 ==
    ASSUME NEW g, NEW s, NEW h, NEW z, Classes30(g, s), Rest30(g, s), h.resources = g.resources,
           z.classes = s.classes, z.shaders = s.shaders, z.textures = s.textures
    PROVE  Classes30(h, z) /\ Rest30(h, z)
BY DEF Classes30, Rest30, Names

LEMMA MaterialsKept30 ==
    ASSUME NEW g, NEW s, NEW h, NEW z, Materials30(g, s), h.materials = g.materials, z.materials = s.materials
    PROVE  Materials30(h, z)
BY DEF Materials30

LEMMA FlagsKept ==
    ASSUME NEW g, NEW s, NEW h, NEW z, FlagsMatch(g, s), h.selected = g.selected, z.flags = s.flags
    PROVE  FlagsMatch(h, z)
BY DEF FlagsMatch, SelectedAs, Flags

LEMMA RestKept30 ==
    ASSUME NEW g, NEW s, NEW h, NEW z, Matches30(g, s),
           Same(g, h, {"resources", "materials", "selected"}),
           Same(s, z, {"classes", "shaders", "textures", "materials", "flags"})
    PROVE  Shapes(h, z) /\ Classes30(h, z) /\ Rest30(h, z) /\ Materials30(h, z) /\ FlagsMatch(h, z)
<1>1. h.resources = g.resources /\ h.materials = g.materials /\ h.selected = g.selected /\ DOMAIN h = DOMAIN g
  BY DEF Same
<1>2. /\ z.classes = s.classes /\ z.shaders = s.shaders /\ z.textures = s.textures
      /\ z.materials = s.materials /\ z.flags = s.flags /\ DOMAIN z = DOMAIN s
  BY DEF Same
<1>3. Shapes(g, s) /\ Classes30(g, s) /\ Rest30(g, s) /\ Materials30(g, s) /\ FlagsMatch(g, s)
  BY DEF Matches30
<1>4. Shapes(h, z)
  BY <1>1, <1>2, <1>3 DEF Shapes
<1> QED BY <1>1, <1>2, <1>3, <1>4, ResourcesKept30, MaterialsKept30, FlagsKept

LEMMA CommonSame ==
    ASSUME NEW g, NEW s, NEW h, NEW z, MeshesMatch(g, s), ObjectsMatch(g, s),
           h.resources = g.resources, h.meshes = g.meshes, h.modelviews = g.modelviews, h.objects = g.objects,
           h.components = g.components, z.meshes = s.meshes, z.objects = s.objects
    PROVE  MeshesMatch(h, z) /\ ObjectsMatch(h, z)
<1>1. Names(h, {"mesh_t"}) = Names(g, {"mesh_t"})
  BY DEF Names
<1> QED BY <1>1, CommonKept

\* Displays, the selectable, and what nothing is done about.
LEMMA Unseen30 ==
    ASSUME NEW g, NEW s, NEW h, Matches30(g, s), Same(g, h, Looks)
    PROVE  Matches30(h, s)
<1>1. Same(g, h, {"resources", "materials", "selected"}) /\ Same(s, s, {"classes", "shaders", "textures", "materials", "flags"})
  BY DEF Same, Looks
<1>2. Shapes(h, s) /\ Classes30(h, s) /\ Rest30(h, s) /\ Materials30(h, s) /\ FlagsMatch(h, s)
  BY <1>1, RestKept30
<1>3. MeshesMatch(h, s) /\ ObjectsMatch(h, s)
  BY CommonSame DEF Same, Looks, Matches30
<1> QED BY <1>2, <1>3 DEF Matches30

\* The messages that change nothing a frame shows.
UnseenTypes ==
    {"AddDisplay", "RemoveDisplay", "UpdateDisplayCamera2D", "UpdateDisplayCamera3D", "UpdateDisplayViewport",
     "UpdateCharacterSkinning", "MakeObstruction", "MakeSelectable", "MakeTransparent", "MakeClearSelection"}

LEMMA UnseenMessage30 ==
    ASSUME NEW g, NEW s, NEW x, Matches30(g, s), x.type \in UnseenTypes
    PROVE  Matches30(ProcessMessage30(g, x), Asked(s, x))
<1>1. Asked(s, x) = s
  BY DEF Asked, UnseenTypes
<1>2. DOMAIN g = SceneFields
  BY DEF Matches30, Shapes
<1>3. Same(g, ProcessMessage30(g, x), Looks)
  <2>1. CASE x.type = "AddDisplay"
    <3>1. ProcessMessage30(g, x) = AddDisplay30(g, x)
      BY <2>1 DEF ProcessMessage30
    <3> QED BY <1>2, <3>1 DEF AddDisplay30, Same, Looks, SceneFields
  <2>2. CASE x.type = "RemoveDisplay"
    <3>1. ProcessMessage30(g, x) = RemoveDisplay30(g, x)
      BY <2>2 DEF ProcessMessage30
    <3> QED BY <1>2, <3>1 DEF RemoveDisplay30, Same, Looks, SceneFields
  <2>3. CASE x.type \in {"UpdateDisplayCamera2D", "UpdateDisplayCamera3D", "UpdateDisplayViewport"}
    <3>1. ProcessMessage30(g, x) = UpdateDisplay30(g, x)
      BY <2>3 DEF ProcessMessage30
    <3> QED BY <1>2, <2>3, <3>1
            DEF UpdateDisplay30, update_display_camera_2d, update_display_camera_3d, update_display_viewport, Same, Looks, SceneFields
  <2>4. CASE x.type = "UpdateCharacterSkinning"
    <3>1. ProcessMessage30(g, x) = UpdateCharacterSkinning30(g, x)
      BY <2>4 DEF ProcessMessage30
    <3> QED BY <1>2, <3>1 DEF UpdateCharacterSkinning30, update_matrixpallet, Same, Looks, SceneFields
  <2>5. CASE x.type \in {"MakeObstruction", "MakeSelectable"}
    <3>1. ProcessMessage30(g, x) = MakeSelectable30(g, x)
      BY <2>5 DEF ProcessMessage30
    <3> QED BY <1>2, <3>1 DEF MakeSelectable30, set_selectable_color, add_selectable_color, Same, Looks, SceneFields
  <2>6. CASE x.type = "MakeTransparent"
    <3>1. ProcessMessage30(g, x) = MakeTransparent30(g, x)
      BY <2>6 DEF ProcessMessage30
    <3> QED BY <1>2, <3>1 DEF MakeTransparent30, Same, Looks, SceneFields
  <2>7. CASE x.type = "MakeClearSelection"
    <3>1. ProcessMessage30(g, x) = [g EXCEPT !.unreachable = TRUE]
      BY <2>7 DEF ProcessMessage30
    <3> QED BY <1>2, <3>1 DEF Same, Looks, SceneFields
  <2> QED BY <2>1, <2>2, <2>3, <2>4, <2>5, <2>6, <2>7 DEF UnseenTypes
<1> QED BY <1>1, <1>3, Unseen30

\* Assets have different names.
LEMMA UnusedAsset30 ==
    ASSUME NEW g, NEW s, NEW a, Matches30(g, s), Unused(s, a)
    PROVE  a \notin DOMAIN g.resources /\ a # entity_shader_asset /\ a # NoToken
<1>1. /\ DOMAIN s.meshes = Names(g, {"mesh_t"})
      /\ DOMAIN s.classes = Names(g, {"ColorClass", "ShaderClass"})
      /\ Names(g, {"Shader"}) \ {entity_shader_asset} = s.shaders
      /\ Names(g, {"Texture"}) = s.textures
      /\ DOMAIN g.resources = Names(g, {"mesh_t", "ColorClass", "ShaderClass", "Shader", "Texture"})
  BY DEF Matches30, MeshesMatch, Classes30, Rest30
<1>2. a # entity_shader_asset /\ a # NoToken
  BY DEF Unused
<1> QED BY <1>1, <1>2 DEF Names, Unused

\* z is s but for what x asks for.
Means(s, x, z) ==
    /\ x.type \in {"RegisterMesh", "RegisterCharacter"} =>
         Same(s, z, SceneParts \ {"meshes"}) /\ z.meshes = Put(s.meshes, x.asset, x.mesh)
    /\ x.type = "RegisterMaterial" =>
         /\ Same(s, z, SceneParts \ {"classes"})
         /\ z.classes = Put(s.classes, x.asset, [diffuse |-> x.diffuse, shader |-> x.shader])
    /\ x.type = "RegisterShader" =>
         /\ Same(s, z, SceneParts \ {"shaders"})
         /\ z.shaders = IF x.links THEN s.shaders \cup {x.asset} ELSE s.shaders
    /\ x.type = "RegisterTexture" =>
         Same(s, z, SceneParts \ {"textures"}) /\ z.textures = s.textures \cup {x.asset}
    /\ x.type = "Unregister" =>
         /\ Same(s, z, {"materials", "objects", "flags"})
         /\ z.meshes = Drop(s.meshes, x.asset) /\ z.classes = Drop(s.classes, x.asset)
         /\ z.shaders = s.shaders \ {x.asset} /\ z.textures = s.textures \ {x.asset}
    /\ x.type = "CreateMaterialInstance" =>
         Same(s, z, SceneParts \ {"materials"}) /\ z.materials = Put(s.materials, x.entity, x)
    /\ x.type = "Destroy" =>
         Same(s, z, SceneParts \ {"materials"}) /\ z.materials = Drop(s.materials, x.entity)
    /\ x.type = "AddMeshObject" =>
         Same(s, z, SceneParts \ {"objects"}) /\ z.objects = Put(s.objects, x.entity, x)
    /\ x.type = "UpdateModelviewMatrix" =>
         /\ Same(s, z, SceneParts \ {"objects"})
         /\ z.objects = [s.objects EXCEPT ![x.entity].matrix = x.matrix]
    /\ x.type = "Remove" =>
         Same(s, z, SceneParts \ {"objects"}) /\ z.objects = Drop(s.objects, x.entity)

LEMMA SceneSame ==
    ASSUME NEW s, NEW x, DOMAIN s = SceneParts
    PROVE  Means(s, x, Asked(s, x))
<1>1. CASE x.type \in {"RegisterMesh", "RegisterCharacter"}
  BY <1>1 DEF Asked, Means, Same, SceneParts
<1>2. CASE x.type = "RegisterMaterial"
  BY <1>2 DEF Asked, Means, Same, SceneParts
<1>3. CASE x.type = "RegisterShader"
  BY <1>3 DEF Asked, Means, Same, SceneParts
<1>4. CASE x.type = "RegisterTexture"
  BY <1>4 DEF Asked, Means, Same, SceneParts
<1>5. CASE x.type = "Unregister"
  <2>1. Asked(s, x) = [s EXCEPT !.meshes = Drop(@, x.asset), !.classes = Drop(@, x.asset),
                                !.shaders = @ \ {x.asset}, !.textures = @ \ {x.asset}]
    BY <1>5 DEF Asked
  <2> QED BY <1>5, <2>1 DEF Means, Same, SceneParts
<1>6. CASE x.type \in {"CreateMaterialInstance", "Destroy"}
  BY <1>6 DEF Asked, Means, Same, SceneParts
<1>7. CASE x.type \in {"AddMeshObject", "UpdateModelviewMatrix", "Remove"}
  BY <1>7 DEF Asked, Means, Same, SceneParts
<1>8. CASE x.type \notin {"RegisterMesh", "RegisterCharacter", "RegisterMaterial", "RegisterShader", "RegisterTexture", "Unregister",
                         "CreateMaterialInstance", "Destroy", "AddMeshObject", "UpdateModelviewMatrix", "Remove"}
  BY <1>8 DEF Means
<1> QED BY <1>1, <1>2, <1>3, <1>4, <1>5, <1>6, <1>7, <1>8

LEMMA MeshMessage30 ==
    ASSUME NEW g, NEW s, NEW x, Matches30(g, s), Fits(s, x), rtype = "OPENGL_3_0",
           x.type \in {"RegisterMesh", "RegisterCharacter"}
    PROVE  Matches30(ProcessMessage30(g, x), Asked(s, x))
<1> DEFINE a == x.asset  h == ProcessMessage30(g, x)  z == Asked(s, x)
<1>1. Unused(s, a) /\ Cardinality(DOMAIN s.meshes) < MeshCells
  BY DEF Fits
<1>2. a \notin DOMAIN g.resources /\ a # entity_shader_asset /\ a # NoToken
  BY <1>1, UnusedAsset30
<1>3. DOMAIN g = SceneFields /\ DOMAIN s = SceneParts
  BY DEF Matches30, Shapes, SceneParts
<1>4. h = mesh_t(g, a, x.mesh)
  BY <1>2 DEF ProcessMessage30, RegisterMesh30
<1>5. Same(s, z, SceneParts \ {"meshes"}) /\ z.meshes = Put(s.meshes, a, x.mesh)
  <2>1. Means(s, x, z)
    BY <1>3, SceneSame
  <2> HIDE DEF z
  <2> QED BY <2>1 DEF Means
<1>6. MeshesMatch(g, s) /\ ObjectsMatch(g, s) /\ Classes30(g, s) /\ Rest30(g, s) /\ Materials30(g, s) /\ FlagsMatch(g, s)
  BY DEF Matches30
<1> HIDE DEF h, z, a
<1>7. z.objects = s.objects /\ z.classes = s.classes /\ z.shaders = s.shaders /\ z.textures = s.textures
      /\ z.materials = s.materials /\ z.flags = s.flags /\ DOMAIN z = SceneParts
  BY <1>3, <1>5 DEF Same, SceneParts
<1>8. g.meshes.size # MeshCells /\ MeshesMatch(h, z) /\ ObjectsMatch(h, z)
  BY <1>1, <1>2, <1>3, <1>4, <1>5, <1>6, <1>7, MeshAdded
<1>9. PICK r : r.type = "mesh_t" /\ h.resources = Put(g.resources, a, r)
  <2>1. h.resources = Put(g.resources, a, [type |-> "mesh_t", index |-> NextIndex(g.meshes)])
    BY <1>3, <1>4, <1>8, MeshMade
  <2> QED BY <2>1
<1>10. h.materials = g.materials /\ h.selected = g.selected /\ DOMAIN h = SceneFields
  <2>1. Same(g, h, Looks \ {"resources", "meshes"})
    BY <1>3, <1>4, <1>8, MeshMade
  <2> QED BY <2>1, <1>3 DEF Same, Looks
<1>11. /\ Names(h, {"ColorClass", "ShaderClass"}) = Names(g, {"ColorClass", "ShaderClass"})
       /\ Names(h, {"Shader"}) = Names(g, {"Shader"})
       /\ Names(h, {"Texture"}) = Names(g, {"Texture"})
       /\ Names(h, {"mesh_t", "ColorClass", "ShaderClass", "Shader", "Texture"})
            = Names(g, {"mesh_t", "ColorClass", "ShaderClass", "Shader", "Texture"}) \cup {a}
       /\ DOMAIN h.resources = DOMAIN g.resources \cup {a}
       /\ \A b \in DOMAIN g.resources : h.resources[b] = g.resources[b]
  BY <1>2, <1>9 DEF Names, Put
<1>12. Classes30(h, z)
  BY <1>6, <1>7, <1>11, NamesIn DEF Classes30
<1>13. Rest30(h, z)
  BY <1>2, <1>6, <1>7, <1>11 DEF Rest30
<1>14. Materials30(h, z) /\ FlagsMatch(h, z)
  BY <1>6, <1>7, <1>10, MaterialsKept30, FlagsKept
<1>15. Shapes(h, z)
  BY <1>7, <1>10 DEF Shapes, SceneParts
<1> QED BY <1>8, <1>12, <1>13, <1>14, <1>15 DEF Matches30, h, z

\* A class, a shader or a texture that is new.
LEMMA Emplaced30 ==
    ASSUME NEW g, NEW s, NEW a, NEW r, NEW z, Matches30(g, s), a \notin DOMAIN g.resources, a # NoToken,
           r.type \in {"ColorClass", "ShaderClass", "Shader", "Texture"},
           a = entity_shader_asset => r.type = "Shader",
           DOMAIN z = DOMAIN s, z.meshes = s.meshes, z.objects = s.objects, z.materials = s.materials, z.flags = s.flags,
           z.classes = s.classes \/ (r.type \in {"ColorClass", "ShaderClass"} /\ DOMAIN z.classes = DOMAIN s.classes \cup {a}),
           \A b \in DOMAIN s.classes : z.classes[b] = s.classes[b],
           r.type \in {"ColorClass", "ShaderClass"} =>
               /\ a \in DOMAIN z.classes
               /\ r.shader = z.classes[a].shader
               /\ IF z.classes[a].diffuse = NoToken THEN r.type = "ShaderClass"
                  ELSE r.type = "ColorClass" /\ r.diffuse = z.classes[a].diffuse
               /\ z.classes[a].shader # entity_shader_asset,
           z.shaders = IF r.type = "Shader" /\ a # entity_shader_asset THEN s.shaders \cup {a} ELSE s.shaders,
           z.textures = IF r.type = "Texture" THEN s.textures \cup {a} ELSE s.textures
    PROVE  Matches30(emplace_resource(g, a, r), z)
<1> DEFINE h == emplace_resource(g, a, r)
<1>1. MeshesMatch(g, s) /\ ObjectsMatch(g, s) /\ Classes30(g, s) /\ Rest30(g, s) /\ Materials30(g, s) /\ FlagsMatch(g, s) /\ Shapes(g, s)
  BY DEF Matches30
<1>2. Same(g, h, Looks \ {"resources"}) /\ h.resources = Put(g.resources, a, r)
  BY <1>1 DEF Shapes, SceneFields, Same, Looks, emplace_resource
<1> HIDE DEF h
<1>3. /\ h.meshes = g.meshes /\ h.modelviews = g.modelviews /\ h.objects = g.objects /\ h.components = g.components
      /\ h.materials = g.materials /\ h.selected = g.selected /\ DOMAIN h = DOMAIN g
  BY <1>2 DEF Same, Looks
<1>4. /\ DOMAIN h.resources = DOMAIN g.resources \cup {a}
      /\ \A b \in DOMAIN g.resources : h.resources[b] = g.resources[b]
      /\ h.resources[a] = r
  BY <1>2 DEF Put
<1>5. \A types : Names(h, types) = IF r.type \in types THEN Names(g, types) \cup {a} ELSE Names(g, types)
  BY <1>4 DEF Names
<1>6. MeshesMatch(h, z) /\ ObjectsMatch(h, z)
  <2>1. Names(h, {"mesh_t"}) = Names(g, {"mesh_t"})
    BY <1>5
  <2>2. \A b \in DOMAIN s.meshes : h.resources[b].index = g.resources[b].index
    BY <1>1, <1>4, NamesIn DEF MeshesMatch
  <2> QED BY <1>1, <1>3, <2>1, <2>2, CommonKept
<1>7. Classes30(h, z)
  <2>1. DOMAIN z.classes = Names(h, {"ColorClass", "ShaderClass"})
    <3>1. Names(h, {"ColorClass", "ShaderClass"}) =
             IF r.type \in {"ColorClass", "ShaderClass"} THEN DOMAIN s.classes \cup {a} ELSE DOMAIN s.classes
      BY <1>1, <1>5 DEF Classes30
    <3> QED BY <3>1
  <2>2. \A b \in DOMAIN s.classes : b # a /\ h.resources[b] = g.resources[b]
    BY <1>1, <1>4, NamesIn DEF Classes30
  <2>3. \A b \in DOMAIN s.classes :
          /\ h.resources[b].shader = z.classes[b].shader
          /\ IF z.classes[b].diffuse = NoToken THEN h.resources[b].type = "ShaderClass"
             ELSE h.resources[b].type = "ColorClass" /\ h.resources[b].diffuse = z.classes[b].diffuse
          /\ z.classes[b].shader # entity_shader_asset
    BY <1>1, <2>2 DEF Classes30
  <2>4. \A b \in DOMAIN z.classes : b \in DOMAIN s.classes \/ (b = a /\ r.type \in {"ColorClass", "ShaderClass"})
    OBVIOUS
  <2> QED BY <1>4, <2>1, <2>3, <2>4 DEF Classes30
<1>8. Rest30(h, z)
  <2>1. Names(h, {"Shader"}) \ {entity_shader_asset} = z.shaders
    <3>1. Names(h, {"Shader"}) = IF r.type = "Shader" THEN Names(g, {"Shader"}) \cup {a} ELSE Names(g, {"Shader"})
      BY <1>5
    <3>2. Names(g, {"Shader"}) \ {entity_shader_asset} = s.shaders
      BY <1>1 DEF Rest30
    <3> QED BY <3>1, <3>2
  <2>2. Names(h, {"Texture"}) = z.textures
    <3>1. Names(h, {"Texture"}) = IF r.type = "Texture" THEN Names(g, {"Texture"}) \cup {a} ELSE Names(g, {"Texture"})
      BY <1>5
    <3> QED BY <3>1, <1>1 DEF Rest30
  <2>3. DOMAIN h.resources = Names(h, {"mesh_t", "ColorClass", "ShaderClass", "Shader", "Texture"})
    <3>1. Names(h, {"mesh_t", "ColorClass", "ShaderClass", "Shader", "Texture"})
            = Names(g, {"mesh_t", "ColorClass", "ShaderClass", "Shader", "Texture"}) \cup {a}
      BY <1>5
    <3> QED BY <3>1, <1>1, <1>4 DEF Rest30
  <2>4. NoToken \notin DOMAIN h.resources /\ (entity_shader_asset \in DOMAIN h.resources => h.resources[entity_shader_asset].type = "Shader")
    BY <1>1, <1>4 DEF Rest30
  <2> QED BY <2>1, <2>2, <2>3, <2>4 DEF Rest30
<1>9. Materials30(h, z) /\ FlagsMatch(h, z)
  BY <1>1, <1>3, MaterialsKept30, FlagsKept
<1>10. Shapes(h, z)
  BY <1>1, <1>3 DEF Shapes
<1> QED BY <1>6, <1>7, <1>8, <1>9, <1>10 DEF Matches30, h

LEMMA MaterialMessage30 ==
    ASSUME NEW g, NEW s, NEW x, Matches30(g, s), Fits(s, x), rtype = "OPENGL_3_0", x.type = "RegisterMaterial"
    PROVE  Matches30(ProcessMessage30(g, x), Asked(s, x))
<1> DEFINE a == x.asset  z == Asked(s, x)  r == IF x.diffuse # NoToken THEN ColorClass30(x) ELSE ShaderClass(x)
<1>1. Unused(s, a) /\ x.shader # entity_shader_asset /\ x.shader # NoToken
  BY DEF Fits
<1>2. a \notin DOMAIN g.resources /\ a # entity_shader_asset /\ a # NoToken
  BY <1>1, UnusedAsset30
<1>3. ProcessMessage30(g, x) = emplace_resource(g, a, r)
  BY <1>1 DEF ProcessMessage30, RegisterMaterial30
<1>4. DOMAIN s = SceneParts
  BY DEF Matches30, Shapes, SceneParts
<1>5. Means(s, x, z)
  BY <1>4, SceneSame
<1> HIDE DEF z
<1>6. Same(s, z, SceneParts \ {"classes"}) /\ z.classes = Put(s.classes, a, [diffuse |-> x.diffuse, shader |-> x.shader])
  BY <1>5 DEF Means
<1>7. /\ r.type \in {"ColorClass", "ShaderClass"} /\ r.shader = x.shader
      /\ IF x.diffuse = NoToken THEN r.type = "ShaderClass" ELSE r.type = "ColorClass" /\ r.diffuse = x.diffuse
  BY DEF ColorClass30, ShaderClass
<1> HIDE DEF a, r
<1>8. a \notin DOMAIN s.classes
  BY <1>1 DEF Unused
<1>9. /\ DOMAIN z.classes = DOMAIN s.classes \cup {a}
      /\ \A b \in DOMAIN s.classes : z.classes[b] = s.classes[b]
      /\ z.classes[a] = [diffuse |-> x.diffuse, shader |-> x.shader]
  BY <1>6, <1>8 DEF Put
<1>10. z.classes[a].diffuse = x.diffuse /\ z.classes[a].shader = x.shader
  BY <1>9
<1>11. /\ DOMAIN z = DOMAIN s /\ z.meshes = s.meshes /\ z.objects = s.objects /\ z.materials = s.materials
       /\ z.flags = s.flags /\ z.shaders = s.shaders /\ z.textures = s.textures
  BY <1>6 DEF Same, SceneParts
<1>12. Matches30(emplace_resource(g, a, r), z)
  <2>1. /\ a \in DOMAIN z.classes /\ r.shader = z.classes[a].shader /\ z.classes[a].shader # entity_shader_asset
        /\ IF z.classes[a].diffuse = NoToken THEN r.type = "ShaderClass"
           ELSE r.type = "ColorClass" /\ r.diffuse = z.classes[a].diffuse
    BY <1>1, <1>7, <1>9, <1>10
  <2>2. z.shaders = IF r.type = "Shader" /\ a # entity_shader_asset THEN s.shaders \cup {a} ELSE s.shaders
    BY <1>7, <1>11
  <2>3. z.textures = IF r.type = "Texture" THEN s.textures \cup {a} ELSE s.textures
    BY <1>7, <1>11
  <2> QED BY <2>1, <2>2, <2>3, <1>2, <1>7, <1>9, <1>11, Emplaced30
<1> QED BY <1>3, <1>12 DEF z

\* A shader that does not link is not there.
LEMMA ShaderMessage30 ==
    ASSUME NEW g, NEW s, NEW x, Matches30(g, s), Fits(s, x), rtype = "OPENGL_3_0", x.type = "RegisterShader"
    PROVE  Matches30(ProcessMessage30(g, x), Asked(s, x))
<1> DEFINE a == x.asset  z == Asked(s, x)  r == [type |-> "Shader"]
<1>1. x.links \in BOOLEAN /\ (x.links => Unused(s, a))
  BY DEF Fits
<1>2. ProcessMessage30(g, x) = create_shader(g, x)
  BY DEF ProcessMessage30
<1>3. DOMAIN s = SceneParts
  BY DEF Matches30, Shapes, SceneParts
<1>4. Means(s, x, z)
  BY <1>3, SceneSame
<1> HIDE DEF z
<1>5. Same(s, z, SceneParts \ {"shaders"}) /\ z.shaders = IF x.links THEN s.shaders \cup {a} ELSE s.shaders
  BY <1>4 DEF Means
<1>6. /\ DOMAIN z = DOMAIN s /\ z.meshes = s.meshes /\ z.objects = s.objects /\ z.materials = s.materials
      /\ z.flags = s.flags /\ z.classes = s.classes /\ z.textures = s.textures
  BY <1>5 DEF Same, SceneParts
<1>7. CASE x.links
  <2>1. a \notin DOMAIN g.resources /\ a # entity_shader_asset /\ a # NoToken
    BY <1>1, <1>7, UnusedAsset30
  <2>2. ProcessMessage30(g, x) = emplace_resource(g, a, r)
    BY <1>2, <1>7, <2>1 DEF create_shader
  <2>3. r.type = "Shader" /\ z.shaders = s.shaders \cup {a}
    BY <1>5, <1>7
  <2> HIDE DEF r, a
  <2>4. Matches30(emplace_resource(g, a, r), z)
    BY <2>1, <2>3, <1>6, Emplaced30
  <2> QED BY <2>2, <2>4 DEF z
<1>8. CASE ~x.links
  <2>1. ProcessMessage30(g, x) = g
    BY <1>2, <1>8 DEF create_shader
  <2>2. Same(s, z, {"classes", "shaders", "textures", "materials", "flags"}) /\ Same(g, g, {"resources", "materials", "selected"})
    BY <1>5, <1>6, <1>8 DEF Same
  <2>3. MeshesMatch(g, z) /\ ObjectsMatch(g, z)
    BY <1>6, CommonSame DEF Matches30
  <2> QED BY <2>1, <2>2, <2>3, RestKept30 DEF Matches30, z
<1> QED BY <1>1, <1>7, <1>8

LEMMA EntityShaderMessage30 ==
    ASSUME NEW g, NEW s, Matches30(g, s)
    PROVE  Matches30(ProcessMessage30(g, EntityShader), s)
<1> DEFINE a == entity_shader_asset  r == [type |-> "Shader"]
<1>1. ProcessMessage30(g, EntityShader) = IF a \in DOMAIN g.resources THEN g ELSE emplace_resource(g, a, r)
  BY DEF ProcessMessage30, create_shader, EntityShader
<1>2. CASE a \in DOMAIN g.resources
  BY <1>1, <1>2
<1>3. CASE a \notin DOMAIN g.resources
  <2>1. r.type = "Shader" /\ a # NoToken
    BY DEF entity_shader_asset, NoToken
  <2> HIDE DEF r
  <2>2. Matches30(emplace_resource(g, a, r), s)
    BY <2>1, <1>3, Emplaced30
  <2> QED BY <2>2, <1>1, <1>3
<1> QED BY <1>2, <1>3

LEMMA TextureMessage30 ==
    ASSUME NEW g, NEW s, NEW x, Matches30(g, s), Fits(s, x), rtype = "OPENGL_3_0", x.type = "RegisterTexture"
    PROVE  Matches30(ProcessMessage30(g, x), Asked(s, x))
<1> DEFINE a == x.asset  z == Asked(s, x)  r == [type |-> "Texture"]
<1>1. Unused(s, a)
  BY DEF Fits
<1>2. a \notin DOMAIN g.resources /\ a # entity_shader_asset /\ a # NoToken
  BY <1>1, UnusedAsset30
<1>3. ProcessMessage30(g, x) = emplace_resource(g, a, r)
  BY DEF ProcessMessage30, RegisterTexture30
<1>4. DOMAIN s = SceneParts
  BY DEF Matches30, Shapes, SceneParts
<1>5. Means(s, x, z)
  BY <1>4, SceneSame
<1> HIDE DEF z
<1>6. Same(s, z, SceneParts \ {"textures"}) /\ z.textures = s.textures \cup {a}
  BY <1>5 DEF Means
<1>7. /\ DOMAIN z = DOMAIN s /\ z.meshes = s.meshes /\ z.objects = s.objects /\ z.materials = s.materials
      /\ z.flags = s.flags /\ z.classes = s.classes /\ z.shaders = s.shaders
  BY <1>6 DEF Same, SceneParts
<1>8. r.type = "Texture"
  OBVIOUS
<1> HIDE DEF a, r
<1>9. Matches30(emplace_resource(g, a, r), z)
  BY <1>2, <1>6, <1>7, <1>8, Emplaced30
<1> QED BY <1>3, <1>9 DEF z

\* What is unregistered is gone, and nothing else.
LEMMA UnregisterMessage30 ==
    ASSUME NEW g, NEW s, NEW x, Matches30(g, s), Fits(s, x), rtype = "OPENGL_3_0", x.type = "Unregister"
    PROVE  Matches30(ProcessMessage30(g, x), Asked(s, x))
<1> DEFINE a == x.asset  h == ProcessMessage30(g, x)  z == Asked(s, x)
<1>1. a # entity_shader_asset /\ \A e \in DOMAIN s.objects : s.objects[e].mesh # a
  BY DEF Fits
<1>2. h = IF a \notin DOMAIN g.resources THEN g ELSE erase_resource(g, a)
  BY DEF ProcessMessage30, Unregister30
<1>3. DOMAIN g = SceneFields /\ DOMAIN s = SceneParts
  BY DEF Matches30, Shapes, SceneParts
<1>4. Means(s, x, z)
  BY <1>3, SceneSame
<1>5. MeshesMatch(g, s) /\ ObjectsMatch(g, s) /\ Classes30(g, s) /\ Rest30(g, s) /\ Materials30(g, s) /\ FlagsMatch(g, s)
  BY DEF Matches30
<1> HIDE DEF h, z
<1>6. /\ Same(s, z, {"materials", "objects", "flags"})
      /\ z.meshes = Drop(s.meshes, a) /\ z.classes = Drop(s.classes, a)
      /\ z.shaders = s.shaders \ {a} /\ z.textures = s.textures \ {a}
  BY <1>4 DEF Means
<1>7. z.materials = s.materials /\ z.objects = s.objects /\ z.flags = s.flags /\ DOMAIN z = SceneParts
  BY <1>3, <1>6 DEF Same
<1> HIDE DEF a
<1>8. /\ Same(g, h, Looks \ {"resources", "meshes"})
      /\ DOMAIN h.resources = DOMAIN g.resources \ {a}
      /\ \A b \in DOMAIN h.resources : h.resources[b] = g.resources[b]
      /\ (a \notin DOMAIN g.resources \/ g.resources[a].type # "mesh_t") => h.meshes = g.meshes
  <2>1. CASE a \notin DOMAIN g.resources
    BY <2>1, <1>2 DEF Same
  <2>2. CASE a \in DOMAIN g.resources
    <3>1. h = erase_resource(g, a)
      BY <2>2, <1>2
    <3>2. /\ Same(g, h, Looks \ {"resources", "meshes"})
          /\ h.resources = Drop(g.resources, a)
          /\ h.meshes = IF g.resources[a].type = "mesh_t" THEN EraseCell(g.meshes, g.resources[a].index) ELSE g.meshes
      BY <3>1, <1>3, MeshErased
    <3> QED BY <2>2, <3>2 DEF Drop
  <2> QED BY <2>1, <2>2
<1>9. \A types : Names(h, types) = Names(g, types) \ {a}
  BY <1>8 DEF Names
<1>10. MeshesMatch(h, z) /\ ObjectsMatch(h, z)
  <2>1. CASE a \in DOMAIN s.meshes
    <3>1. a \in DOMAIN g.resources
      BY <2>1, <1>5, NamesIn DEF MeshesMatch
    <3>2. h = erase_resource(g, a)
      BY <3>1, <1>2
    <3> QED BY <2>1, <3>2, <1>1, <1>3, <1>5, <1>6, <1>7, MeshDropped
  <2>2. CASE a \notin DOMAIN s.meshes
    <3>1. DOMAIN s.meshes = Names(g, {"mesh_t"})
      BY <1>5 DEF MeshesMatch
    <3>2. Names(h, {"mesh_t"}) = Names(g, {"mesh_t"})
      BY <2>2, <3>1, <1>9
    <3>3. h.meshes = g.meshes
      BY <2>2, <3>1, <1>8 DEF Names
    <3>4. \A b \in DOMAIN s.meshes : h.resources[b].index = g.resources[b].index
      BY <2>2, <3>1, <1>8, NamesIn
    <3>5. DOMAIN z.meshes = DOMAIN s.meshes /\ \A b \in DOMAIN s.meshes : z.meshes[b] = s.meshes[b]
      BY <2>2, <1>6 DEF Drop
    <3>6. h.modelviews = g.modelviews /\ h.objects = g.objects /\ h.components = g.components
      BY <1>8 DEF Same, Looks
    <3> QED BY <3>2, <3>3, <3>4, <3>5, <3>6, <1>5, <1>7, CommonKept
  <2> QED BY <2>1, <2>2
<1>11. Classes30(h, z)
  <2>1. DOMAIN z.classes = DOMAIN s.classes \ {a} /\ \A b \in DOMAIN z.classes : z.classes[b] = s.classes[b]
    BY <1>6 DEF Drop
  <2>2. DOMAIN s.classes = Names(g, {"ColorClass", "ShaderClass"})
    BY <1>5 DEF Classes30
  <2>3. DOMAIN z.classes = Names(h, {"ColorClass", "ShaderClass"})
    BY <2>1, <2>2, <1>9
  <2>4. \A b \in DOMAIN z.classes : h.resources[b] = g.resources[b]
    BY <2>1, <2>2, <1>8, NamesIn
  <2> QED BY <2>1, <2>3, <2>4, <1>5 DEF Classes30
<1>12. Rest30(h, z)
  <2>1. Names(h, {"Shader"}) \ {entity_shader_asset} = z.shaders /\ Names(h, {"Texture"}) = z.textures
    BY <1>5, <1>6, <1>9 DEF Rest30
  <2>2. DOMAIN h.resources = Names(h, {"mesh_t", "ColorClass", "ShaderClass", "Shader", "Texture"})
    BY <1>5, <1>8, <1>9 DEF Rest30
  <2>3. NoToken \notin DOMAIN h.resources /\ (entity_shader_asset \in DOMAIN h.resources => h.resources[entity_shader_asset].type = "Shader")
    BY <1>5, <1>8 DEF Rest30
  <2> QED BY <2>1, <2>2, <2>3 DEF Rest30
<1>13. Materials30(h, z) /\ FlagsMatch(h, z)
  <2>1. h.materials = g.materials /\ h.selected = g.selected
    BY <1>8 DEF Same, Looks
  <2> QED BY <2>1, <1>5, <1>7, MaterialsKept30, FlagsKept
<1>14. Shapes(h, z)
  BY <1>3, <1>7, <1>8 DEF Shapes, SceneParts, Same
<1> QED BY <1>10, <1>11, <1>12, <1>13, <1>14 DEF Matches30, h, z

LEMMA InstanceMessage30 ==
    ASSUME NEW g, NEW s, NEW x, Matches30(g, s), x.type \in {"CreateMaterialInstance", "Destroy"}
    PROVE  Matches30(ProcessMessage30(g, x), Asked(s, x))
<1> DEFINE h == ProcessMessage30(g, x)  z == Asked(s, x)
<1>1. DOMAIN g = SceneFields /\ DOMAIN s = SceneParts
  BY DEF Matches30, Shapes, SceneParts
<1>2. Means(s, x, z)
  BY <1>1, SceneSame
<1>3. Same(g, h, Looks \ {"materials"}) /\ h.materials = IF x.type = "Destroy" THEN Drop(g.materials, x.entity) ELSE Put(g.materials, x.entity, ShaderMaterial(x))
  <2>1. CASE x.type = "CreateMaterialInstance"
    <3>1. h = CreateMaterialInstance30(g, x)
      BY <2>1 DEF ProcessMessage30
    <3> HIDE DEF h
    <3> QED BY <2>1, <3>1, <1>1 DEF CreateMaterialInstance30, Same, Looks, SceneFields
  <2>2. CASE x.type = "Destroy"
    <3>1. h = Destroy30(g, x)
      BY <2>2 DEF ProcessMessage30
    <3> HIDE DEF h
    <3> QED BY <2>2, <3>1, <1>1 DEF Destroy30, Same, Looks, SceneFields
  <2> QED BY <2>1, <2>2
<1> HIDE DEF h, z
<1>4. Same(s, z, SceneParts \ {"materials"}) /\ z.materials = IF x.type = "Destroy" THEN Drop(s.materials, x.entity) ELSE Put(s.materials, x.entity, x)
  BY <1>2 DEF Means
<1>5. /\ h.resources = g.resources /\ h.meshes = g.meshes /\ h.modelviews = g.modelviews /\ h.objects = g.objects
      /\ h.components = g.components /\ h.selected = g.selected /\ DOMAIN h = SceneFields
  BY <1>1, <1>3 DEF Same, Looks
<1>6. /\ z.meshes = s.meshes /\ z.objects = s.objects /\ z.classes = s.classes /\ z.shaders = s.shaders
      /\ z.textures = s.textures /\ z.flags = s.flags /\ DOMAIN z = SceneParts
  BY <1>1, <1>4 DEF Same, SceneParts
<1>7. MeshesMatch(h, z) /\ ObjectsMatch(h, z)
  BY <1>5, <1>6, CommonSame DEF Matches30
<1>8. Classes30(h, z) /\ Rest30(h, z)
  BY <1>5, <1>6, ResourcesKept30 DEF Matches30
<1>9. FlagsMatch(h, z)
  BY <1>5, <1>6, FlagsKept DEF Matches30
<1>10. Materials30(h, z)
  <2>1. DOMAIN g.materials = DOMAIN s.materials /\ \A i \in DOMAIN s.materials : g.materials[i] = ShaderMaterial(s.materials[i])
    BY DEF Matches30, Materials30
  <2>2. CASE x.type = "Destroy"
    <3>1. h.materials = Drop(g.materials, x.entity) /\ z.materials = Drop(s.materials, x.entity)
      BY <2>2, <1>3, <1>4
    <3> QED BY <2>1, <3>1 DEF Materials30, Drop
  <2>3. CASE x.type # "Destroy"
    <3>1. h.materials = Put(g.materials, x.entity, ShaderMaterial(x)) /\ z.materials = Put(s.materials, x.entity, x)
      BY <2>3, <1>3, <1>4
    <3>2. \A i \in DOMAIN z.materials : h.materials[i] = IF i = x.entity THEN ShaderMaterial(x) ELSE g.materials[i]
      BY <2>1, <3>1 DEF Put
    <3>3. DOMAIN h.materials = DOMAIN z.materials
      BY <2>1, <3>1 DEF Put
    <3>4. \A i \in DOMAIN z.materials : z.materials[i] = IF i = x.entity THEN x ELSE s.materials[i]
      BY <3>1 DEF Put
    <3>5. \A i \in DOMAIN z.materials : i # x.entity => i \in DOMAIN s.materials
      BY <3>1 DEF Put
    <3> QED BY <2>1, <3>2, <3>3, <3>4, <3>5 DEF Materials30
  <2> QED BY <2>2, <2>3
<1>11. Shapes(h, z)
  BY <1>5, <1>6 DEF Shapes, SceneParts
<1> QED BY <1>7, <1>8, <1>9, <1>10, <1>11 DEF Matches30, h, z

\* The messages about objects, for both renderers.
LEMMA AddMessage ==
    ASSUME NEW g, NEW s, NEW x, MeshesMatch(g, s), ObjectsMatch(g, s), DOMAIN g = SceneFields, DOMAIN s = SceneParts,
           Fits(s, x), x.type = "AddMeshObject"
    PROVE  /\ Resource(g, x.mesh, "mesh_t")
           /\ Same(g, Component(g, x), Looks \ {"objects", "modelviews", "components"})
           /\ Same(s, Asked(s, x), SceneParts \ {"objects"})
           /\ MeshesMatch(Component(g, x), Asked(s, x))
           /\ ObjectsMatch(Component(g, x), Asked(s, x))
<1> DEFINE z == Asked(s, x)
<1>1. /\ {"mesh", "material", "matrix"} \subseteq DOMAIN x
      /\ x.mesh \in DOMAIN s.meshes
      /\ x.entity \in DOMAIN s.objects \/ Cardinality(DOMAIN s.objects) < ObjectCells
  BY DEF Fits
<1>2. Resource(g, x.mesh, "mesh_t")
  <2>1. x.mesh \in Names(g, {"mesh_t"})
    BY <1>1 DEF MeshesMatch
  <2> QED BY <2>1 DEF Names, Resource
<1>3. Means(s, x, z)
  BY SceneSame
<1> HIDE DEF z
<1>4. Same(s, z, SceneParts \ {"objects"}) /\ z.objects = Put(s.objects, x.entity, x)
  BY <1>3 DEF Means
<1>5. z.meshes = s.meshes
  BY <1>4 DEF Same, SceneParts
<1>6. /\ Same(g, Component(g, x), Looks \ {"objects", "modelviews", "components"})
      /\ MeshesMatch(Component(g, x), z)
      /\ ObjectsMatch(Component(g, x), z)
  BY <1>1, <1>4, <1>5, ComponentAdded
<1> QED BY <1>2, <1>4, <1>6 DEF z

LEMMA UpdateMessage ==
    ASSUME NEW g, NEW s, NEW x, NEW h, MeshesMatch(g, s), ObjectsMatch(g, s), DOMAIN g = SceneFields, DOMAIN s = SceneParts,
           x.type = "UpdateModelviewMatrix", h = IF x.entity \notin DOMAIN g.objects THEN g ELSE update_modelview(g, x)
    PROVE  /\ Same(g, h, Looks \ {"objects", "modelviews", "components"})
           /\ Same(s, Asked(s, x), SceneParts \ {"objects"})
           /\ MeshesMatch(h, Asked(s, x))
           /\ ObjectsMatch(h, Asked(s, x))
<1> DEFINE z == Asked(s, x)
<1>1. Means(s, x, z)
  BY SceneSame
<1> HIDE DEF z
<1>2. Same(s, z, SceneParts \ {"objects"}) /\ z.objects = [s.objects EXCEPT ![x.entity].matrix = x.matrix]
  BY <1>1 DEF Means
<1>3. z.meshes = s.meshes
  BY <1>2 DEF Same, SceneParts
<1>4. DOMAIN g.objects = DOMAIN s.objects
  BY ObjectsDomain
<1>5. CASE x.entity \in DOMAIN s.objects
  <2>1. h = update_modelview(g, x)
    BY <1>4, <1>5
  <2>2. /\ Same(g, update_modelview(g, x), Looks \ {"modelviews"})
        /\ MeshesMatch(update_modelview(g, x), z)
        /\ ObjectsMatch(update_modelview(g, x), z)
    BY <1>2, <1>3, <1>5, ObjectUpdated
  <2> QED BY <2>1, <2>2, <1>2 DEF z, Same
<1>6. CASE x.entity \notin DOMAIN s.objects
  <2>1. h = g
    BY <1>4, <1>6
  <2>2. s.objects = [e \in DOMAIN s.objects |-> s.objects[e]]
    BY DEF ObjectsMatch, ComponentsMatch
  <2>3. z.objects = s.objects
    BY <2>2, <1>2, <1>6
  <2>4. MeshesMatch(h, z) /\ ObjectsMatch(h, z)
    BY <2>1, <2>3, <1>3, CommonSame
  <2> QED BY <2>1, <2>4, <1>2 DEF z, Same
<1> QED BY <1>5, <1>6

LEMMA RemoveMessage ==
    ASSUME NEW g, NEW s, NEW x, NEW h, MeshesMatch(g, s), ObjectsMatch(g, s), DOMAIN g = SceneFields, DOMAIN s = SceneParts,
           x.type = "Remove",
           h = IF x.entity \notin DOMAIN g.components THEN g
               ELSE LET bare == [g EXCEPT !.selectable = Drop(@, x.entity), !.updateable = Drop(@, x.entity),
                                          !.components = Drop(@, x.entity)]
                    IN IF x.entity \in DOMAIN g.objects THEN erase_object(bare, x.entity) ELSE bare
    PROVE  /\ Same(g, h, Looks \ {"objects", "modelviews", "components"})
           /\ Same(s, Asked(s, x), SceneParts \ {"objects"})
           /\ MeshesMatch(h, Asked(s, x))
           /\ ObjectsMatch(h, Asked(s, x))
<1> DEFINE z == Asked(s, x)  e == x.entity
<1>1. Means(s, x, z)
  BY SceneSame
<1> HIDE DEF z
<1>2. Same(s, z, SceneParts \ {"objects"}) /\ z.objects = Drop(s.objects, e)
  BY <1>1 DEF Means
<1>3. z.meshes = s.meshes
  BY <1>2 DEF Same, SceneParts
<1>4. DOMAIN g.objects = DOMAIN s.objects /\ DOMAIN g.components = DOMAIN s.objects
  BY ObjectsDomain
<1>5. CASE e \in DOMAIN s.objects
  <2>1. h = erase_object([g EXCEPT !.selectable = Drop(@, e), !.updateable = Drop(@, e), !.components = Drop(@, e)], e)
    BY <1>4, <1>5
  <2> HIDE DEF e
  <2>2. Same(g, h, Looks \ {"objects", "modelviews", "components"}) /\ MeshesMatch(h, z) /\ ObjectsMatch(h, z)
    BY <2>1, <1>2, <1>3, <1>5, ObjectRemoved
  <2> QED BY <2>2, <1>2 DEF z
<1>6. CASE e \notin DOMAIN s.objects
  <2>1. h = g
    BY <1>4, <1>6
  <2>2. s.objects = [d \in DOMAIN s.objects |-> s.objects[d]]
    BY DEF ObjectsMatch, ComponentsMatch
  <2> HIDE DEF e
  <2>3. z.objects = s.objects
    <3>1. Drop(s.objects, e) = [d \in DOMAIN s.objects |-> s.objects[d]]
      BY <1>6 DEF Drop
    <3> QED BY <3>1, <2>2, <1>2
  <2>4. MeshesMatch(h, z) /\ ObjectsMatch(h, z)
    BY <2>1, <2>3, <1>3, CommonSame
  <2> QED BY <2>1, <2>4, <1>2 DEF z, Same
<1> QED BY <1>5, <1>6

LEMMA ObjectMessage30 ==
    ASSUME NEW g, NEW s, NEW x, Matches30(g, s), Fits(s, x), x.type \in {"AddMeshObject", "UpdateModelviewMatrix", "Remove"}
    PROVE  Matches30(ProcessMessage30(g, x), Asked(s, x))
<1> DEFINE h == ProcessMessage30(g, x)  z == Asked(s, x)
<1>1. DOMAIN g = SceneFields /\ DOMAIN s = SceneParts /\ MeshesMatch(g, s) /\ ObjectsMatch(g, s)
  BY DEF Matches30, Shapes, SceneParts
<1>2. /\ Same(g, h, Looks \ {"objects", "modelviews", "components"})
      /\ Same(s, z, SceneParts \ {"objects"})
      /\ MeshesMatch(h, z) /\ ObjectsMatch(h, z)
  <2>1. CASE x.type = "AddMeshObject"
    <3>1. /\ Resource(g, x.mesh, "mesh_t")
          /\ Same(g, Component(g, x), Looks \ {"objects", "modelviews", "components"})
          /\ Same(s, z, SceneParts \ {"objects"})
          /\ MeshesMatch(Component(g, x), z) /\ ObjectsMatch(Component(g, x), z)
      BY <1>1, <2>1, AddMessage
    <3>2. h = AddMeshObject30(g, x)
      BY <2>1 DEF ProcessMessage30
    <3>3. h = Component(g, x)
      BY <3>1, <3>2 DEF AddMeshObject30, Component, Placed
    <3> QED BY <3>1, <3>3
  <2>2. CASE x.type = "UpdateModelviewMatrix"
    <3>1. h = UpdateModelviewMatrix30(g, x)
      BY <2>2 DEF ProcessMessage30
    <3>2. h = IF x.entity \notin DOMAIN g.objects THEN g ELSE update_modelview(g, x)
      BY <3>1 DEF UpdateModelviewMatrix30
    <3> HIDE DEF h
    <3> QED BY <1>1, <2>2, <3>2, UpdateMessage
  <2>3. CASE x.type = "Remove"
    <3>1. h = Remove30(g, x)
      BY <2>3 DEF ProcessMessage30
    <3>2. h = IF x.entity \notin DOMAIN g.components THEN g
               ELSE LET bare == [g EXCEPT !.selectable = Drop(@, x.entity), !.updateable = Drop(@, x.entity),
                                          !.components = Drop(@, x.entity)]
                    IN IF x.entity \in DOMAIN g.objects THEN erase_object(bare, x.entity) ELSE bare
      BY <3>1 DEF Remove30
    <3> HIDE DEF h
    <3> QED BY <1>1, <2>3, <3>2, RemoveMessage
  <2> QED BY <2>1, <2>2, <2>3
<1> HIDE DEF h, z
<1>3. Same(g, h, {"resources", "materials", "selected"}) /\ Same(s, z, {"classes", "shaders", "textures", "materials", "flags"})
  BY <1>2 DEF Same, Looks, SceneParts
<1>4. Shapes(h, z) /\ Classes30(h, z) /\ Rest30(h, z) /\ Materials30(h, z) /\ FlagsMatch(h, z)
  BY <1>3, RestKept30
<1> QED BY <1>2, <1>4 DEF Matches30, h, z

\* What is remembered of an entity stays when it has no component any more.
LEMMA FlagMessage30 ==
    ASSUME NEW g, NEW s, NEW x, Matches30(g, s), x.type \in {"MakeHighlighted", "MakeSelect", "MakeDehighlighted", "MakeDeselect"}
    PROVE  Matches30(ProcessMessage30(g, x), Asked(s, x))
<1> DEFINE h == ProcessMessage30(g, x)  z == Asked(s, x)  e == x.entity
<1>1. DOMAIN g = SceneFields /\ DOMAIN s = SceneParts
  BY DEF Matches30, Shapes, SceneParts
<1>2. \A d : SelectedAs(g, d) = Flags(s, d)
  BY DEF Matches30, FlagsMatch, SelectedAs, Flags
<1>3. PICK set : /\ z = [s EXCEPT !.flags = Put(s.flags, e, set)]
                 /\ \/ h = [g EXCEPT !.selected = Put(g.selected, e, set)]
                    \/ set = {} /\ h = [g EXCEPT !.selected = Drop(g.selected, e)]
  <2>1. h = Selected30(g, x)
    BY DEF ProcessMessage30
  <2>2. CASE x.type = "MakeHighlighted"
    <3>1. h = emplace_selected(g, e, "highlighted_t") /\ z = [s EXCEPT !.flags = Put(s.flags, e, Flags(s, e) \cup {"highlighted_t"})]
      BY <2>1, <2>2 DEF Selected30, Asked
    <3> HIDE DEF h, z, e
    <3> QED BY <3>1, <1>2 DEF emplace_selected
  <2>3. CASE x.type = "MakeSelect"
    <3>1. h = emplace_selected(g, e, "selected_t") /\ z = [s EXCEPT !.flags = Put(s.flags, e, Flags(s, e) \cup {"selected_t"})]
      BY <2>1, <2>3 DEF Selected30, Asked
    <3> HIDE DEF h, z, e
    <3> QED BY <3>1, <1>2 DEF emplace_selected
  <2>4. CASE x.type = "MakeDehighlighted"
    <3>1. h = erase_selected(g, e, "highlighted_t") /\ z = [s EXCEPT !.flags = Put(s.flags, e, Flags(s, e) \ {"highlighted_t"})]
      BY <2>1, <2>4 DEF Selected30, Asked
    <3> HIDE DEF h, z, e
    <3> QED BY <3>1, <1>2 DEF erase_selected
  <2>5. CASE x.type = "MakeDeselect"
    <3>1. h = erase_selected(g, e, "selected_t") /\ z = [s EXCEPT !.flags = Put(s.flags, e, Flags(s, e) \ {"selected_t"})]
      BY <2>1, <2>5 DEF Selected30, Asked
    <3> HIDE DEF h, z, e
    <3> QED BY <3>1, <1>2 DEF erase_selected
  <2> QED BY <2>2, <2>3, <2>4, <2>5
<1> HIDE DEF h, z, e
<1>4. /\ Same(g, h, Looks \ {"selected"})
      /\ h.selected = Put(g.selected, e, set) \/ (set = {} /\ h.selected = Drop(g.selected, e))
  BY <1>1, <1>3 DEF Same, Looks, SceneFields
<1>5. Same(s, z, SceneParts \ {"flags"}) /\ z.flags = Put(s.flags, e, set)
  BY <1>1, <1>3 DEF Same, SceneParts
<1>6. /\ h.resources = g.resources /\ h.meshes = g.meshes /\ h.modelviews = g.modelviews /\ h.objects = g.objects
      /\ h.components = g.components /\ h.materials = g.materials /\ DOMAIN h = SceneFields
  BY <1>1, <1>4 DEF Same, Looks
<1>7. /\ z.meshes = s.meshes /\ z.objects = s.objects /\ z.classes = s.classes /\ z.shaders = s.shaders
      /\ z.textures = s.textures /\ z.materials = s.materials /\ DOMAIN z = SceneParts
  BY <1>1, <1>5 DEF Same, SceneParts
<1>8. MeshesMatch(h, z) /\ ObjectsMatch(h, z)
  BY <1>6, <1>7, CommonSame DEF Matches30
<1>9. Classes30(h, z) /\ Rest30(h, z) /\ Materials30(h, z)
  BY <1>6, <1>7, ResourcesKept30, MaterialsKept30 DEF Matches30
<1>10. FlagsMatch(h, z)
  <2> SUFFICES ASSUME NEW d PROVE SelectedAs(h, d) = Flags(z, d)
    BY DEF FlagsMatch
  <2>1. CASE d = e
    BY <2>1, <1>4, <1>5 DEF SelectedAs, Flags, Put, Drop
  <2>2. CASE d # e
    <3>1. SelectedAs(h, d) = SelectedAs(g, d)
      BY <2>2, <1>4 DEF SelectedAs, Put, Drop
    <3>2. Flags(z, d) = Flags(s, d)
      BY <2>2, <1>5 DEF Flags, Put
    <3> QED BY <3>1, <3>2, <1>2
  <2> QED BY <2>1, <2>2
<1>11. Shapes(h, z)
  BY <1>6, <1>7 DEF Shapes, SceneParts
<1> QED BY <1>8, <1>9, <1>10, <1>11 DEF Matches30, h, z

LEMMA Message30 ==
    ASSUME NEW g, NEW s, NEW x, Matches30(g, s), x = EntityShader \/ Fits(s, x), rtype = "OPENGL_3_0"
    PROVE  Matches30(ProcessMessage30(g, x), Meant(s, x))
<1>1. CASE x = EntityShader
  BY <1>1, EntityShaderMessage30 DEF Meant
<1>2. CASE x # EntityShader /\ Fits(s, x)
  <2>1. x.type \in MessageTypes
    BY <1>2 DEF Fits
  <2>2. Matches30(ProcessMessage30(g, x), Asked(s, x))
    <3>1. CASE x.type \in UnseenTypes
      BY <3>1, UnseenMessage30
    <3>2. CASE x.type \in {"RegisterMesh", "RegisterCharacter"}
      BY <3>2, <1>2, MeshMessage30
    <3>3. CASE x.type = "RegisterMaterial"
      BY <3>3, <1>2, MaterialMessage30
    <3>4. CASE x.type = "RegisterShader"
      BY <3>4, <1>2, ShaderMessage30
    <3>5. CASE x.type = "RegisterTexture"
      BY <3>5, <1>2, TextureMessage30
    <3>6. CASE x.type = "Unregister"
      BY <3>6, <1>2, UnregisterMessage30
    <3>7. CASE x.type \in {"CreateMaterialInstance", "Destroy"}
      BY <3>7, InstanceMessage30
    <3>8. CASE x.type \in {"AddMeshObject", "UpdateModelviewMatrix", "Remove"}
      BY <3>8, <1>2, ObjectMessage30
    <3>9. CASE x.type \in {"MakeHighlighted", "MakeSelect", "MakeDehighlighted", "MakeDeselect"}
      BY <3>9, FlagMessage30
    <3> QED BY <2>1, <3>1, <3>2, <3>3, <3>4, <3>5, <3>6, <3>7, <3>8, <3>9 DEF MessageTypes, UnseenTypes
  <2> QED BY <2>2, <1>2 DEF Meant
<1> QED BY <1>1, <1>2

-----------------------------------------------------------------------------
(* OpenGL 1.2: what a message does keeps to what it means.                 *)

LEMMA RestKept12 ==
    ASSUME NEW g, NEW s, NEW h, NEW z, Matches12(g, s), DOMAIN h = DOMAIN g, DOMAIN z = DOMAIN s,
           h.resources = g.resources, h.materials = g.materials, z.classes = s.classes, z.materials = s.materials
    PROVE  Shapes(h, z) /\ Classes12(h, z) /\ Rest12(h, z) /\ Materials12Match(h, z)
<1>1. Shapes(h, z)
  BY DEF Matches12, Shapes
<1>2. Classes12(h, z)
  BY DEF Matches12, Classes12, Names
<1>3. Rest12(h, z)
  BY DEF Matches12, Rest12, Names
<1>4. Materials12Match(h, z)
  BY DEF Matches12, Materials12Match
<1> QED BY <1>1, <1>2, <1>3, <1>4

\* Displays, the selectable, flags, shaders and textures.
LEMMA Unseen12 ==
    ASSUME NEW g, NEW s, NEW h, NEW z, Matches12(g, s), Same(g, h, Looks \ {"selected"}),
           Same(s, z, {"meshes", "classes", "materials", "objects"})
    PROVE  Matches12(h, z)
<1>1. /\ DOMAIN h = DOMAIN g /\ h.resources = g.resources /\ h.materials = g.materials /\ h.meshes = g.meshes
      /\ h.modelviews = g.modelviews /\ h.objects = g.objects /\ h.components = g.components
  BY DEF Same, Looks
<1>2. DOMAIN z = DOMAIN s /\ z.meshes = s.meshes /\ z.classes = s.classes /\ z.materials = s.materials /\ z.objects = s.objects
  BY DEF Same
<1>3. MeshesMatch(h, z) /\ ObjectsMatch(h, z)
  BY <1>1, <1>2, CommonSame DEF Matches12
<1> QED BY <1>1, <1>2, <1>3, RestKept12 DEF Matches12

UnseenTypes12 ==
    UnseenTypes \cup {"RegisterShader", "RegisterTexture", "MakeHighlighted", "MakeSelect", "MakeDehighlighted", "MakeDeselect"}

LEMMA UnseenMessage12 ==
    ASSUME NEW g, NEW s, NEW x, Matches12(g, s), x.type \in UnseenTypes12
    PROVE  Matches12(ProcessMessage12(g, x), Asked(s, x))
<1>1. DOMAIN g = SceneFields /\ DOMAIN s = SceneParts
  BY DEF Matches12, Shapes, SceneParts
<1>2. Same(s, Asked(s, x), {"meshes", "classes", "materials", "objects"})
  <2>1. CASE x.type \in UnseenTypes
    BY <2>1 DEF Asked, UnseenTypes, Same
  <2>2. CASE x.type \in {"RegisterShader", "RegisterTexture"}
    BY <1>1, <2>2 DEF Asked, Same, SceneParts
  <2>3. CASE x.type \in {"MakeHighlighted", "MakeSelect", "MakeDehighlighted", "MakeDeselect"}
    BY <1>1, <2>3 DEF Asked, Same, SceneParts
  <2> QED BY <2>1, <2>2, <2>3 DEF UnseenTypes12
<1>3. Same(g, ProcessMessage12(g, x), Looks \ {"selected"})
  <2>1. CASE x.type \in {"AddDisplay", "RemoveDisplay", "UpdateDisplayCamera2D", "UpdateDisplayCamera3D", "UpdateDisplayViewport"}
    <3>1. ProcessMessage12(g, x) = Displays12(g, x)
      BY <2>1 DEF ProcessMessage12
    <3>2. CASE x.type = "AddDisplay"
      BY <1>1, <3>1, <3>2 DEF Displays12, Same, Looks, SceneFields
    <3>3. CASE x.type # "AddDisplay"
      BY <1>1, <2>1, <3>1, <3>3
         DEF Displays12, update_display_camera_2d, update_display_camera_3d, update_display_viewport, Same, Looks, SceneFields
    <3> QED BY <3>2, <3>3
  <2>2. CASE x.type = "UpdateCharacterSkinning"
    <3>1. ProcessMessage12(g, x) = Update12(g, x)
      BY <2>2 DEF ProcessMessage12
    <3> QED BY <1>1, <2>2, <3>1 DEF Update12, update_matrixpallet, Same, Looks, SceneFields
  <2>3. CASE x.type \in {"MakeObstruction", "MakeSelectable", "MakeTransparent"}
    <3>1. ProcessMessage12(g, x) = Selectable12(g, x)
      BY <2>3 DEF ProcessMessage12
    <3> QED BY <1>1, <2>3, <3>1 DEF Selectable12, set_selectable_color, add_selectable_color, Same, Looks, SceneFields
  <2>4. CASE x.type = "MakeClearSelection"
    <3>1. ProcessMessage12(g, x) = [g EXCEPT !.unreachable = TRUE]
      BY <2>4 DEF ProcessMessage12
    <3> QED BY <1>1, <3>1 DEF Same, Looks, SceneFields
  <2>5. CASE x.type \in {"RegisterShader", "RegisterTexture"}
    <3>1. ProcessMessage12(g, x) = g
      BY <2>5 DEF ProcessMessage12
    <3> QED BY <3>1 DEF Same
  <2>6. CASE x.type \in {"MakeHighlighted", "MakeSelect", "MakeDehighlighted", "MakeDeselect"}
    <3>1. ProcessMessage12(g, x) = Selected12(g, x)
      BY <2>6 DEF ProcessMessage12
    <3> QED BY <1>1, <2>6, <3>1 DEF Selected12, emplace_selected, erase_selected, Same, Looks, SceneFields
  <2> QED BY <2>1, <2>2, <2>3, <2>4, <2>5, <2>6 DEF UnseenTypes12, UnseenTypes
<1> QED BY <1>2, <1>3, Unseen12

LEMMA UnusedAsset12 ==
    ASSUME NEW g, NEW s, NEW a, Matches12(g, s), Unused(s, a)
    PROVE  a \notin DOMAIN g.resources /\ a # NoToken
<1>1. /\ DOMAIN s.meshes = Names(g, {"mesh_t"})
      /\ DOMAIN s.classes = Names(g, {"ColorClass", "DefaultClass"})
      /\ DOMAIN g.resources = Names(g, {"mesh_t", "ColorClass", "DefaultClass"})
  BY DEF Matches12, MeshesMatch, Classes12, Rest12
<1>2. a # NoToken
  BY DEF Unused
<1> QED BY <1>1, <1>2 DEF Names, Unused

\* A resource in place of the one that had its name: a mesh for a mesh, a class for a class.
Replaced12(g, s, a, r, h, z) ==
    /\ a # NoToken /\ r.type \in {"mesh_t", "ColorClass", "DefaultClass"}
    /\ DOMAIN h = DOMAIN g /\ DOMAIN z = DOMAIN s /\ h.materials = g.materials /\ z.materials = s.materials
    /\ DOMAIN h.resources = DOMAIN g.resources \cup {a} /\ h.resources[a] = r
    /\ \A b \in DOMAIN g.resources : b # a => h.resources[b] = g.resources[b]
    /\ DOMAIN z.classes = IF r.type = "mesh_t" THEN DOMAIN s.classes ELSE DOMAIN s.classes \cup {a}
    /\ \A b \in DOMAIN s.classes : b # a => z.classes[b] = s.classes[b]
    /\ r.type = "mesh_t" => a \notin DOMAIN s.classes
    /\ r.type # "mesh_t" => IF z.classes[a].diffuse = NoToken THEN r.type = "DefaultClass"
                            ELSE r.type = "ColorClass" /\ r.diffuse = z.classes[a].diffuse

LEMMA RestReplaced12 ==
    ASSUME NEW g, NEW s, NEW a, NEW r, NEW h, NEW z, Matches12(g, s), Replaced12(g, s, a, r, h, z)
    PROVE  Shapes(h, z) /\ Classes12(h, z) /\ Rest12(h, z) /\ Materials12Match(h, z)
<1> USE DEF Replaced12
<1>1. Shapes(g, s) /\ Classes12(g, s) /\ Rest12(g, s) /\ Materials12Match(g, s)
  BY DEF Matches12
<1>2. \A types : Names(h, types) = IF r.type \in types THEN Names(g, types) \cup {a} ELSE Names(g, types) \ {a}
  BY DEF Names
<1>3. Shapes(h, z) /\ Materials12Match(h, z)
  BY <1>1 DEF Shapes, Materials12Match
<1>4. Rest12(h, z)
  <2>1. Names(h, {"mesh_t", "ColorClass", "DefaultClass"}) = Names(g, {"mesh_t", "ColorClass", "DefaultClass"}) \cup {a}
    BY <1>2
  <2> QED BY <2>1, <1>1 DEF Rest12
<1>5. Classes12(h, z)
  <2>1. DOMAIN s.classes = Names(g, {"ColorClass", "DefaultClass"})
    BY <1>1 DEF Classes12
  <2>2. DOMAIN z.classes = Names(h, {"ColorClass", "DefaultClass"})
    <3>1. CASE r.type = "mesh_t"
      <4>1. Names(h, {"ColorClass", "DefaultClass"}) = Names(g, {"ColorClass", "DefaultClass"}) \ {a}
        BY <3>1, <1>2
      <4> QED BY <2>1, <3>1, <4>1
    <3>2. CASE r.type # "mesh_t"
      <4>1. Names(h, {"ColorClass", "DefaultClass"}) = Names(g, {"ColorClass", "DefaultClass"}) \cup {a}
        BY <3>2, <1>2
      <4> QED BY <2>1, <3>2, <4>1
    <3> QED BY <3>1, <3>2
  <2>3. ASSUME NEW b \in DOMAIN z.classes
        PROVE  IF z.classes[b].diffuse = NoToken THEN h.resources[b].type = "DefaultClass"
               ELSE h.resources[b].type = "ColorClass" /\ h.resources[b].diffuse = z.classes[b].diffuse
    <3>1. CASE b = a
      <4>1. r.type # "mesh_t"
        BY <3>1
      <4> QED BY <3>1, <4>1
    <3>2. CASE b # a
      <4>1. b \in DOMAIN s.classes
        BY <3>2
      <4>2. b \in DOMAIN g.resources
        BY <4>1, <2>1, NamesIn
      <4>3. h.resources[b] = g.resources[b] /\ z.classes[b] = s.classes[b]
        BY <3>2, <4>1, <4>2
      <4> QED BY <4>1, <4>3, <1>1 DEF Classes12
    <3> QED BY <3>1, <3>2
  <2> QED BY <2>2, <2>3 DEF Classes12
<1> QED BY <1>3, <1>4, <1>5

LEMMA MeshMessage12 ==
    ASSUME NEW g, NEW s, NEW x, Matches12(g, s), Fits(s, x), x.type \in {"RegisterMesh", "RegisterCharacter"}
    PROVE  Matches12(ProcessMessage12(g, x), Asked(s, x))
<1> DEFINE a == x.asset  h == ProcessMessage12(g, x)  z == Asked(s, x)
<1>1. DOMAIN g = SceneFields /\ DOMAIN s = SceneParts /\ MeshesMatch(g, s) /\ ObjectsMatch(g, s)
  BY DEF Matches12, Shapes, SceneParts
<1>2. Means(s, x, z)
  BY <1>1, SceneSame
<1>3. \/ Unused(s, a) /\ Cardinality(DOMAIN s.meshes) < MeshCells
      \/ x.type = "RegisterMesh" /\ a \in DOMAIN s.meshes
  BY DEF Fits
<1>4. h = IF x.type = "RegisterCharacter" THEN RegisterCharacter12(g, x) ELSE RegisterMesh12(g, x)
  BY DEF ProcessMessage12
<1> HIDE DEF h, z
<1>5. Same(s, z, SceneParts \ {"meshes"}) /\ z.meshes = Put(s.meshes, a, x.mesh)
  BY <1>2 DEF Means
<1>6. z.objects = s.objects /\ z.classes = s.classes /\ z.materials = s.materials /\ DOMAIN z = DOMAIN s
  BY <1>5 DEF Same, SceneParts
<1> HIDE DEF a
<1>7. /\ MeshesMatch(h, z) /\ ObjectsMatch(h, z)
      /\ h.materials = g.materials /\ DOMAIN h = DOMAIN g
      /\ a # NoToken /\ a \notin DOMAIN s.classes
      /\ DOMAIN h.resources = DOMAIN g.resources \cup {a}
      /\ h.resources[a].type = "mesh_t"
      /\ \A b \in DOMAIN g.resources : b # a => h.resources[b] = g.resources[b]
  <2>1. CASE Unused(s, a) /\ Cardinality(DOMAIN s.meshes) < MeshCells
    <3>1. a \notin DOMAIN g.resources /\ a # NoToken
      BY <2>1, UnusedAsset12
    <3>2. a \notin DOMAIN s.classes
      BY <2>1 DEF Unused
    <3>3. h = mesh_t(g, a, x.mesh)
      BY <3>1, <1>4 DEF RegisterCharacter12, RegisterMesh12, Replaceable, a
    <3>4. g.meshes.size # MeshCells /\ MeshesMatch(h, z) /\ ObjectsMatch(h, z)
      BY <1>1, <1>5, <1>6, <2>1, <3>1, <3>3, MeshAdded
    <3>5. Same(g, h, Looks \ {"resources", "meshes"}) /\ h.resources = Put(g.resources, a, [type |-> "mesh_t", index |-> NextIndex(g.meshes)])
      BY <1>1, <3>3, <3>4, MeshMade
    <3>6. h.materials = g.materials /\ DOMAIN h = DOMAIN g
      BY <3>5 DEF Same, Looks
    <3>7. /\ DOMAIN h.resources = DOMAIN g.resources \cup {a}
          /\ h.resources[a].type = "mesh_t"
          /\ \A b \in DOMAIN g.resources : b # a => h.resources[b] = g.resources[b]
      BY <3>5 DEF Put
    <3> QED BY <3>1, <3>2, <3>4, <3>6, <3>7
  <2>2. CASE x.type = "RegisterMesh" /\ a \in DOMAIN s.meshes
    <3> DEFINE f == erase_resource(g, a)
    <3>1. a \in DOMAIN g.resources /\ g.resources[a].type = "mesh_t"
      BY <1>1, <2>2, NamesIn DEF MeshesMatch
    <3>2. a # NoToken /\ a \notin DOMAIN s.classes
      BY <3>1 DEF Matches12, Rest12, Classes12, Names
    <3>3. h = mesh_t(f, a, x.mesh)
      BY <1>4, <2>2, <3>1 DEF RegisterMesh12, Replaceable, a
    <3>4. /\ f.meshes.size # MeshCells
          /\ MeshesMatch(mesh_t(f, a, x.mesh), z) /\ ObjectsMatch(mesh_t(f, a, x.mesh), z)
      BY <1>1, <1>5, <1>6, <2>2, MeshReplaced
    <3>5. Same(g, f, Looks \ {"resources", "meshes"}) /\ f.resources = Drop(g.resources, a)
      BY <1>1, MeshErased
    <3> HIDE DEF f
    <3>6. DOMAIN f = SceneFields
      BY <1>1, <3>5 DEF Same
    <3>7. Same(f, h, Looks \ {"resources", "meshes"}) /\ h.resources = Put(f.resources, a, [type |-> "mesh_t", index |-> NextIndex(f.meshes)])
      BY <3>3, <3>4, <3>6, MeshMade
    <3>8. h.materials = g.materials /\ DOMAIN h = DOMAIN g
      BY <3>5, <3>7 DEF Same, Looks
    <3>9. /\ DOMAIN h.resources = DOMAIN g.resources \cup {a}
          /\ h.resources[a].type = "mesh_t"
          /\ \A b \in DOMAIN g.resources : b # a => h.resources[b] = g.resources[b]
      BY <3>5, <3>7 DEF Put, Drop
    <3> QED BY <3>2, <3>3, <3>4, <3>8, <3>9
  <2> QED BY <1>3, <2>1, <2>2
<1>8. PICK r : r = h.resources[a] /\ r.type = "mesh_t"
  BY <1>7
<1>9. Shapes(h, z) /\ Classes12(h, z) /\ Rest12(h, z) /\ Materials12Match(h, z)
  <2>1. DOMAIN z.classes = IF r.type = "mesh_t" THEN DOMAIN s.classes ELSE DOMAIN s.classes \cup {a}
    BY <1>6, <1>8
  <2>2. \A b \in DOMAIN s.classes : b # a => z.classes[b] = s.classes[b]
    BY <1>6
  <2>3. r.type \in {"mesh_t", "ColorClass", "DefaultClass"}
    BY <1>8
  <2>4. r.type = "mesh_t" => a \notin DOMAIN s.classes
    BY <1>7
  <2>5. r.type # "mesh_t" => IF z.classes[a].diffuse = NoToken THEN r.type = "DefaultClass"
                             ELSE r.type = "ColorClass" /\ r.diffuse = z.classes[a].diffuse
    BY <1>8
  <2>6. a # NoToken /\ DOMAIN h = DOMAIN g /\ DOMAIN z = DOMAIN s /\ h.materials = g.materials /\ z.materials = s.materials
    BY <1>6, <1>7
  <2>7. /\ DOMAIN h.resources = DOMAIN g.resources \cup {a} /\ h.resources[a] = r
        /\ \A b \in DOMAIN g.resources : b # a => h.resources[b] = g.resources[b]
    BY <1>7, <1>8
  <2>8. Replaced12(g, s, a, r, h, z)
    BY <2>1, <2>2, <2>3, <2>4, <2>5, <2>6, <2>7 DEF Replaced12
  <2> QED BY <2>8, RestReplaced12
<1> QED BY <1>7, <1>9 DEF Matches12, h, z

LEMMA MaterialMessage12 ==
    ASSUME NEW g, NEW s, NEW x, Matches12(g, s), Fits(s, x), rtype = "OPENGL_1_2", x.type = "RegisterMaterial"
    PROVE  Matches12(ProcessMessage12(g, x), Asked(s, x))
<1> DEFINE a == x.asset  h == ProcessMessage12(g, x)  z == Asked(s, x)  r == IF x.diffuse # NoToken THEN ColorClass12(x) ELSE DefaultClass
<1>1. DOMAIN g = SceneFields /\ DOMAIN s = SceneParts /\ MeshesMatch(g, s) /\ ObjectsMatch(g, s) /\ Classes12(g, s) /\ Rest12(g, s)
  BY DEF Matches12, Shapes, SceneParts
<1>2. Means(s, x, z)
  BY <1>1, SceneSame
<1>3. (Unused(s, a) \/ a \in DOMAIN s.classes) /\ x.shader = NoToken
  BY DEF Fits
<1>4. h = [Replaceable(g, a) EXCEPT !.resources = Put(@, a, r)]
  BY <1>3 DEF ProcessMessage12, RegisterMaterial12
<1>5. r.type \in {"ColorClass", "DefaultClass"} /\ IF x.diffuse = NoToken THEN r.type = "DefaultClass" ELSE r.type = "ColorClass" /\ r.diffuse = x.diffuse
  BY DEF ColorClass12, DefaultClass
<1> HIDE DEF h, z, r
<1>6. Same(s, z, SceneParts \ {"classes"}) /\ z.classes = Put(s.classes, a, [diffuse |-> x.diffuse, shader |-> x.shader])
  BY <1>2 DEF Means
<1> HIDE DEF a
<1>7. z.meshes = s.meshes /\ z.objects = s.objects /\ z.materials = s.materials /\ DOMAIN z = DOMAIN s
  BY <1>6 DEF Same, SceneParts
<1>8. /\ DOMAIN z.classes = DOMAIN s.classes \cup {a}
      /\ \A b \in DOMAIN s.classes : b # a => z.classes[b] = s.classes[b]
      /\ z.classes[a].diffuse = x.diffuse
  BY <1>6 DEF Put
<1>9. a # NoToken /\ a \notin Names(g, {"mesh_t"})
  <2>1. CASE Unused(s, a)
    BY <2>1, UnusedAsset12 DEF Names
  <2>2. CASE a \in DOMAIN s.classes
    BY <2>2, <1>1 DEF Classes12, Rest12, Names
  <2> QED BY <2>1, <2>2, <1>3
<1>10. /\ Same(g, h, Looks \ {"resources"})
       /\ DOMAIN h.resources = DOMAIN g.resources \cup {a}
       /\ h.resources[a] = r
       /\ \A b \in DOMAIN g.resources : b # a => h.resources[b] = g.resources[b]
  <2>1. CASE a \notin DOMAIN g.resources
    <3>1. h = [g EXCEPT !.resources = Put(g.resources, a, r)]
      BY <2>1, <1>4 DEF Replaceable
    <3>2. Same(g, h, Looks \ {"resources"}) /\ h.resources = Put(g.resources, a, r)
      BY <3>1, <1>1 DEF Same, Looks, SceneFields
    <3> QED BY <3>2 DEF Put
  <2>2. CASE a \in DOMAIN g.resources
    <3> DEFINE f == erase_resource(g, a)
    <3>1. h = [f EXCEPT !.resources = Put(f.resources, a, r)]
      BY <2>2, <1>4 DEF Replaceable
    <3>2. g.resources[a].type # "mesh_t"
      BY <2>2, <1>9 DEF Names
    <3>3. Same(g, f, Looks \ {"resources", "meshes"}) /\ f.resources = Drop(g.resources, a) /\ f.meshes = g.meshes
      BY <3>2, <1>1, MeshErased
    <3> HIDE DEF f
    <3>4. DOMAIN f = SceneFields
      BY <3>3, <1>1 DEF Same
    <3>5. Same(f, h, Looks \ {"resources"}) /\ h.resources = Put(f.resources, a, r)
      BY <3>1, <3>4 DEF Same, Looks, SceneFields
    <3>6. Same(g, h, Looks \ {"resources"})
      BY <3>3, <3>5 DEF Same, Looks
    <3>7. DOMAIN f.resources = DOMAIN g.resources \ {a} /\ \A b \in DOMAIN g.resources : b # a => f.resources[b] = g.resources[b]
      BY <3>3 DEF Drop
    <3>8. /\ DOMAIN h.resources = DOMAIN f.resources \cup {a}
          /\ h.resources[a] = r
          /\ \A b \in DOMAIN f.resources : b # a => h.resources[b] = f.resources[b]
      BY <3>5 DEF Put
    <3> QED BY <2>2, <3>6, <3>7, <3>8
  <2> QED BY <2>1, <2>2
<1>11. /\ h.materials = g.materials /\ DOMAIN h = DOMAIN g /\ h.meshes = g.meshes /\ h.modelviews = g.modelviews
       /\ h.objects = g.objects /\ h.components = g.components
  BY <1>10 DEF Same, Looks
<1>12. MeshesMatch(h, z) /\ ObjectsMatch(h, z)
  <2>1. Names(h, {"mesh_t"}) = Names(g, {"mesh_t"})
    BY <1>5, <1>9, <1>10 DEF Names
  <2>2. \A b \in DOMAIN s.meshes : h.resources[b].index = g.resources[b].index
    <3>1. DOMAIN s.meshes = Names(g, {"mesh_t"})
      BY <1>1 DEF MeshesMatch
    <3> QED BY <3>1, <1>9, <1>10, NamesIn
  <2> QED BY <1>1, <1>7, <1>11, <2>1, <2>2, CommonKept
<1>13. Shapes(h, z) /\ Classes12(h, z) /\ Rest12(h, z) /\ Materials12Match(h, z)
  <2>1. r.type # "mesh_t" /\ r.type \in {"mesh_t", "ColorClass", "DefaultClass"}
    BY <1>5
  <2>2. Replaced12(g, s, a, r, h, z)
    BY <2>1, <1>5, <1>7, <1>8, <1>9, <1>10, <1>11 DEF Replaced12
  <2> QED BY <2>2, RestReplaced12
<1> QED BY <1>12, <1>13 DEF Matches12, h, z

LEMMA UnregisterMessage12 ==
    ASSUME NEW g, NEW s, NEW x, Matches12(g, s), Fits(s, x), x.type = "Unregister"
    PROVE  Matches12(ProcessMessage12(g, x), Asked(s, x))
<1> DEFINE a == x.asset  h == ProcessMessage12(g, x)  z == Asked(s, x)
<1>1. \A e \in DOMAIN s.objects : s.objects[e].mesh # a
  BY DEF Fits
<1>2. h = IF a \notin DOMAIN g.resources THEN g ELSE erase_resource(g, a)
  BY DEF ProcessMessage12, Unregister12
<1>3. DOMAIN g = SceneFields /\ DOMAIN s = SceneParts
  BY DEF Matches12, Shapes, SceneParts
<1>4. Means(s, x, z)
  BY <1>3, SceneSame
<1>5. MeshesMatch(g, s) /\ ObjectsMatch(g, s) /\ Classes12(g, s) /\ Rest12(g, s) /\ Materials12Match(g, s)
  BY DEF Matches12
<1> HIDE DEF h, z
<1>6. Same(s, z, {"materials", "objects", "flags"}) /\ z.meshes = Drop(s.meshes, a) /\ z.classes = Drop(s.classes, a)
  BY <1>4 DEF Means
<1>7. z.materials = s.materials /\ z.objects = s.objects /\ DOMAIN z = SceneParts
  BY <1>3, <1>6 DEF Same
<1> HIDE DEF a
<1>8. /\ Same(g, h, Looks \ {"resources", "meshes"})
      /\ DOMAIN h.resources = DOMAIN g.resources \ {a}
      /\ \A b \in DOMAIN h.resources : h.resources[b] = g.resources[b]
      /\ (a \notin DOMAIN g.resources \/ g.resources[a].type # "mesh_t") => h.meshes = g.meshes
  <2>1. CASE a \notin DOMAIN g.resources
    BY <2>1, <1>2 DEF Same
  <2>2. CASE a \in DOMAIN g.resources
    <3>1. h = erase_resource(g, a)
      BY <2>2, <1>2
    <3>2. /\ Same(g, h, Looks \ {"resources", "meshes"})
          /\ h.resources = Drop(g.resources, a)
          /\ h.meshes = IF g.resources[a].type = "mesh_t" THEN EraseCell(g.meshes, g.resources[a].index) ELSE g.meshes
      BY <3>1, <1>3, MeshErased
    <3> QED BY <2>2, <3>2 DEF Drop
  <2> QED BY <2>1, <2>2
<1>9. \A types : Names(h, types) = Names(g, types) \ {a}
  BY <1>8 DEF Names
<1>10. MeshesMatch(h, z) /\ ObjectsMatch(h, z)
  <2>1. CASE a \in DOMAIN s.meshes
    <3>1. a \in DOMAIN g.resources
      BY <2>1, <1>5, NamesIn DEF MeshesMatch
    <3>2. h = erase_resource(g, a)
      BY <3>1, <1>2
    <3> QED BY <2>1, <3>2, <1>1, <1>3, <1>5, <1>6, <1>7, MeshDropped
  <2>2. CASE a \notin DOMAIN s.meshes
    <3>1. DOMAIN s.meshes = Names(g, {"mesh_t"})
      BY <1>5 DEF MeshesMatch
    <3>2. Names(h, {"mesh_t"}) = Names(g, {"mesh_t"})
      BY <2>2, <3>1, <1>9
    <3>3. h.meshes = g.meshes
      BY <2>2, <3>1, <1>8 DEF Names
    <3>4. \A b \in DOMAIN s.meshes : h.resources[b].index = g.resources[b].index
      BY <2>2, <3>1, <1>8, NamesIn
    <3>5. DOMAIN z.meshes = DOMAIN s.meshes /\ \A b \in DOMAIN s.meshes : z.meshes[b] = s.meshes[b]
      BY <2>2, <1>6 DEF Drop
    <3>6. h.modelviews = g.modelviews /\ h.objects = g.objects /\ h.components = g.components
      BY <1>8 DEF Same, Looks
    <3> QED BY <3>2, <3>3, <3>4, <3>5, <3>6, <1>5, <1>7, CommonKept
  <2> QED BY <2>1, <2>2
<1>11. Classes12(h, z)
  <2>1. DOMAIN z.classes = DOMAIN s.classes \ {a} /\ \A b \in DOMAIN z.classes : z.classes[b] = s.classes[b]
    BY <1>6 DEF Drop
  <2>2. DOMAIN s.classes = Names(g, {"ColorClass", "DefaultClass"})
    BY <1>5 DEF Classes12
  <2>3. DOMAIN z.classes = Names(h, {"ColorClass", "DefaultClass"})
    BY <2>1, <2>2, <1>9
  <2>4. \A b \in DOMAIN z.classes : h.resources[b] = g.resources[b]
    BY <2>1, <2>2, <1>8, NamesIn
  <2> QED BY <2>1, <2>3, <2>4, <1>5 DEF Classes12
<1>12. Rest12(h, z)
  BY <1>5, <1>8, <1>9 DEF Rest12
<1>13. Materials12Match(h, z)
  <2>1. h.materials = g.materials
    BY <1>8 DEF Same, Looks
  <2> QED BY <2>1, <1>5, <1>7 DEF Materials12Match
<1>14. Shapes(h, z)
  BY <1>3, <1>7, <1>8 DEF Shapes, SceneParts, Same
<1> QED BY <1>10, <1>11, <1>12, <1>13, <1>14 DEF Matches12, h, z

LEMMA InstanceMessage12 ==
    ASSUME NEW g, NEW s, NEW x, Matches12(g, s), x.type \in {"CreateMaterialInstance", "Destroy"}
    PROVE  Matches12(ProcessMessage12(g, x), Asked(s, x))
<1> DEFINE h == ProcessMessage12(g, x)  z == Asked(s, x)
<1>1. DOMAIN g = SceneFields /\ DOMAIN s = SceneParts
  BY DEF Matches12, Shapes, SceneParts
<1>2. Means(s, x, z)
  BY <1>1, SceneSame
<1>3. Same(g, h, Looks \ {"materials"}) /\ h.materials = IF x.type = "Destroy" THEN Drop(g.materials, x.entity) ELSE Put(g.materials, x.entity, ColorMaterial(x))
  <2>1. h = Materials12(g, x)
    BY DEF ProcessMessage12
  <2> HIDE DEF h
  <2> QED BY <2>1, <1>1 DEF Materials12, Same, Looks, SceneFields
<1> HIDE DEF h, z
<1>4. Same(s, z, SceneParts \ {"materials"}) /\ z.materials = IF x.type = "Destroy" THEN Drop(s.materials, x.entity) ELSE Put(s.materials, x.entity, x)
  BY <1>2 DEF Means
<1>5. /\ h.resources = g.resources /\ h.meshes = g.meshes /\ h.modelviews = g.modelviews /\ h.objects = g.objects
      /\ h.components = g.components /\ DOMAIN h = SceneFields
  BY <1>1, <1>3 DEF Same, Looks
<1>6. z.meshes = s.meshes /\ z.objects = s.objects /\ z.classes = s.classes /\ DOMAIN z = SceneParts
  BY <1>1, <1>4 DEF Same, SceneParts
<1>7. MeshesMatch(h, z) /\ ObjectsMatch(h, z)
  BY <1>5, <1>6, CommonSame DEF Matches12
<1>8. Classes12(h, z) /\ Rest12(h, z)
  BY <1>5, <1>6 DEF Matches12, Classes12, Rest12, Names
<1>9. Materials12Match(h, z)
  <2>1. DOMAIN g.materials = DOMAIN s.materials /\ \A i \in DOMAIN s.materials : g.materials[i] = ColorMaterial(s.materials[i])
    BY DEF Matches12, Materials12Match
  <2>2. CASE x.type = "Destroy"
    <3>1. h.materials = Drop(g.materials, x.entity) /\ z.materials = Drop(s.materials, x.entity)
      BY <2>2, <1>3, <1>4
    <3> QED BY <2>1, <3>1 DEF Materials12Match, Drop
  <2>3. CASE x.type # "Destroy"
    <3>1. h.materials = Put(g.materials, x.entity, ColorMaterial(x)) /\ z.materials = Put(s.materials, x.entity, x)
      BY <2>3, <1>3, <1>4
    <3>2. \A i \in DOMAIN z.materials : h.materials[i] = IF i = x.entity THEN ColorMaterial(x) ELSE g.materials[i]
      BY <2>1, <3>1 DEF Put
    <3>3. DOMAIN h.materials = DOMAIN z.materials
      BY <2>1, <3>1 DEF Put
    <3>4. \A i \in DOMAIN z.materials : z.materials[i] = IF i = x.entity THEN x ELSE s.materials[i]
      BY <3>1 DEF Put
    <3>5. \A i \in DOMAIN z.materials : i # x.entity => i \in DOMAIN s.materials
      BY <3>1 DEF Put
    <3> QED BY <2>1, <3>2, <3>3, <3>4, <3>5 DEF Materials12Match
  <2> QED BY <2>2, <2>3
<1>10. Shapes(h, z)
  BY <1>5, <1>6 DEF Shapes, SceneParts
<1> QED BY <1>7, <1>8, <1>9, <1>10 DEF Matches12, h, z

LEMMA ObjectMessage12 ==
    ASSUME NEW g, NEW s, NEW x, Matches12(g, s), Fits(s, x), x.type \in {"AddMeshObject", "UpdateModelviewMatrix", "Remove"}
    PROVE  Matches12(ProcessMessage12(g, x), Asked(s, x))
<1> DEFINE h == ProcessMessage12(g, x)  z == Asked(s, x)
<1>1. DOMAIN g = SceneFields /\ DOMAIN s = SceneParts /\ MeshesMatch(g, s) /\ ObjectsMatch(g, s)
  BY DEF Matches12, Shapes, SceneParts
<1>2. /\ Same(g, h, Looks \ {"objects", "modelviews", "components"})
      /\ Same(s, z, SceneParts \ {"objects"})
      /\ MeshesMatch(h, z) /\ ObjectsMatch(h, z)
  <2>1. CASE x.type = "AddMeshObject"
    <3>1. /\ Resource(g, x.mesh, "mesh_t")
          /\ Same(g, Component(g, x), Looks \ {"objects", "modelviews", "components"})
          /\ Same(s, z, SceneParts \ {"objects"})
          /\ MeshesMatch(Component(g, x), z) /\ ObjectsMatch(Component(g, x), z)
      BY <1>1, <2>1, AddMessage
    <3>2. h = AddMeshObject12(g, x)
      BY <2>1 DEF ProcessMessage12
    <3>3. h = Component(g, x)
      BY <3>1, <3>2 DEF AddMeshObject12, Component, Placed
    <3> QED BY <3>1, <3>3
  <2>2. CASE x.type = "UpdateModelviewMatrix"
    <3>1. h = IF x.entity \notin DOMAIN g.objects THEN g ELSE update_modelview(g, x)
      BY <2>2 DEF ProcessMessage12, Update12
    <3> HIDE DEF h
    <3> QED BY <1>1, <2>2, <3>1, UpdateMessage
  <2>3. CASE x.type = "Remove"
    <3>1. h = Remove12(g, x)
      BY <2>3 DEF ProcessMessage12
    <3>2. h = IF x.entity \notin DOMAIN g.components THEN g
               ELSE LET bare == [g EXCEPT !.selectable = Drop(@, x.entity), !.updateable = Drop(@, x.entity),
                                          !.components = Drop(@, x.entity)]
                    IN IF x.entity \in DOMAIN g.objects THEN erase_object(bare, x.entity) ELSE bare
      BY <3>1 DEF Remove12
    <3> HIDE DEF h
    <3> QED BY <1>1, <2>3, <3>2, RemoveMessage
  <2> QED BY <2>1, <2>2, <2>3
<1> HIDE DEF h, z
<1>3. /\ DOMAIN h = DOMAIN g /\ DOMAIN z = DOMAIN s /\ h.resources = g.resources /\ h.materials = g.materials
      /\ z.classes = s.classes /\ z.materials = s.materials
  BY <1>2 DEF Same, Looks, SceneParts
<1>4. Shapes(h, z) /\ Classes12(h, z) /\ Rest12(h, z) /\ Materials12Match(h, z)
  BY <1>3, RestKept12
<1> QED BY <1>2, <1>4 DEF Matches12, h, z

LEMMA Message12 ==
    ASSUME NEW g, NEW s, NEW x, Matches12(g, s), Fits(s, x), rtype = "OPENGL_1_2"
    PROVE  Matches12(ProcessMessage12(g, x), Asked(s, x))
<1>1. x.type \in MessageTypes
  BY DEF Fits
<1>2. CASE x.type \in UnseenTypes12
  BY <1>2, UnseenMessage12
<1>3. CASE x.type \in {"RegisterMesh", "RegisterCharacter"}
  BY <1>3, MeshMessage12
<1>4. CASE x.type = "RegisterMaterial"
  BY <1>4, MaterialMessage12
<1>5. CASE x.type = "Unregister"
  BY <1>5, UnregisterMessage12
<1>6. CASE x.type \in {"CreateMaterialInstance", "Destroy"}
  BY <1>6, InstanceMessage12
<1>7. CASE x.type \in {"AddMeshObject", "UpdateModelviewMatrix", "Remove"}
  BY <1>7, ObjectMessage12
<1> QED BY <1>1, <1>2, <1>3, <1>4, <1>5, <1>6, <1>7 DEF MessageTypes, UnseenTypes12, UnseenTypes

-----------------------------------------------------------------------------
(* A frame of containers that match the scene is the picture of it.        *)

\* Where an object is, and what form it has: its pointers lead to the right cells.
LEMMA ObjectSeen ==
    ASSUME NEW g, NEW s, MeshesMatch(g, s), ObjectsMatch(g, s), NEW e \in DOMAIN s.objects
    PROVE  /\ Transform(g, g.components[e]) = s.objects[e].matrix
           /\ Shape(g, g.components[e]) = s.meshes[s.objects[e].mesh]
           /\ g.components[e].material = s.objects[e].material
<1>1. /\ s.objects[e].mesh \in DOMAIN s.meshes
      /\ g.components[e] = [object |-> g.objects[e], mesh |-> g.resources[s.objects[e].mesh].index,
                            material |-> s.objects[e].material]
  BY DEF ObjectsMatch, ComponentsMatch
<1>2. g.modelviews.cells[g.objects[e] + 1] = s.objects[e].matrix
  <2>1. e \in DOMAIN Matrices(s) /\ Matrices(s)[e] = s.objects[e].matrix /\ Keeps(g.modelviews, g.objects, Matrices(s), ObjectCells)
    BY DEF Matrices, ObjectsMatch
  <2> QED BY <2>1 DEF Keeps
<1>3. g.meshes.cells[g.resources[s.objects[e].mesh].index + 1] = s.meshes[s.objects[e].mesh]
  <2>1. DOMAIN s.meshes = Names(g, {"mesh_t"}) /\ Keeps(g.meshes, MeshAt(g), s.meshes, MeshCells)
    BY DEF MeshesMatch
  <2>2. g.meshes.cells[MeshAt(g)[s.objects[e].mesh] + 1] = s.meshes[s.objects[e].mesh]
    BY <1>1, <2>1 DEF Keeps
  <2>3. MeshAt(g)[s.objects[e].mesh] = g.resources[s.objects[e].mesh].index
    BY <1>1, <2>1 DEF MeshAt
  <2> QED BY <2>2, <2>3
<1> QED BY <1>1, <1>2, <1>3 DEF Transform, Shape

LEMMA MaterialSeen30 ==
    ASSUME NEW g, NEW s, NEW o, NEW c, Classes30(g, s), Rest30(g, s), Materials30(g, s), c.material = o.material
    PROVE  /\ MaterialOf30(g, c) = [diffuse |-> Diffuse(s, o),
                                    textures |-> IF o.material \in DOMAIN s.materials THEN s.materials[o.material].textures \cap s.textures ELSE {},
                                    shader |-> ShaderOf(s, o)]
           /\ Resource(g, ShaderOf(s, o), "Shader") <=> ShaderOf(s, o) \in s.shaders
           /\ ShaderOf(s, o) \in s.shaders => o.material \in DOMAIN s.materials
<1>1. /\ NoToken \notin DOMAIN g.resources
      /\ Names(g, {"Shader"}) \ {entity_shader_asset} = s.shaders
      /\ Names(g, {"Texture"}) = s.textures
  BY DEF Rest30
<1>2. /\ DOMAIN s.classes = Names(g, {"ColorClass", "ShaderClass"})
      /\ \A a \in DOMAIN s.classes :
            /\ g.resources[a].shader = s.classes[a].shader
            /\ IF s.classes[a].diffuse = NoToken THEN g.resources[a].type = "ShaderClass"
               ELSE g.resources[a].type = "ColorClass" /\ g.resources[a].diffuse = s.classes[a].diffuse
            /\ s.classes[a].shader # entity_shader_asset
  BY DEF Classes30
<1>3. NoToken \notin DOMAIN s.classes /\ NoToken \notin s.shaders
  BY <1>1, <1>2, NamesIn
<1>4. ShaderOf(s, o) # entity_shader_asset
  BY <1>2 DEF ShaderOf, NoToken, entity_shader_asset
<1>5. Resource(g, ShaderOf(s, o), "Shader") <=> ShaderOf(s, o) \in s.shaders
  BY <1>1, <1>4 DEF Resource, Names
<1>6. CASE o.material \notin DOMAIN s.materials
  <2>1. Class(s, o) = NoToken /\ ShaderOf(s, o) = NoToken /\ Diffuse(s, o) = NoToken
    BY <1>3, <1>6 DEF Class, ShaderOf, Diffuse
  <2>2. MaterialOf30(g, c) = [diffuse |-> NoToken, textures |-> {}, shader |-> NoToken]
    BY <1>6 DEF MaterialOf30, Materials30
  <2> QED BY <2>1, <2>2, <1>3, <1>5, <1>6
<1>7. CASE o.material \in DOMAIN s.materials
  <2> DEFINE m == s.materials[o.material]  k == m.materialclass
  <2>1. /\ o.material \in DOMAIN g.materials
        /\ g.materials[o.material].diffuse = m.diffuse /\ g.materials[o.material].textures = m.textures
        /\ g.materials[o.material].materialclass = k
    <3>1. o.material \in DOMAIN g.materials /\ g.materials[o.material] = ShaderMaterial(s.materials[o.material])
      BY <1>7 DEF Materials30
    <3> QED BY <3>1 DEF ShaderMaterial
  <2>2. Class(s, o) = k
    BY <1>7 DEF Class
  <2> HIDE DEF k
  <2>3. {t \in m.textures : Resource(g, t, "Texture")} = m.textures \cap s.textures
    BY <1>1 DEF Resource, Names
  <2>4. CASE k \in DOMAIN s.classes
    <3>1. k \in DOMAIN g.resources /\ g.resources[k].shader = s.classes[k].shader /\ ShaderOf(s, o) = s.classes[k].shader
      BY <2>2, <2>4, <1>2, NamesIn DEF ShaderOf
    <3>2. CASE s.classes[k].diffuse = NoToken
      <4>1. Resource(g, k, "ShaderClass") /\ ~Resource(g, k, "ColorClass")
        BY <3>1, <3>2, <2>4, <1>2 DEF Resource
      <4>2. Diffuse(s, o) = m.diffuse
        BY <3>2, <2>2, <1>7 DEF Diffuse
      <4>3. MaterialOf30(g, c) = [diffuse |-> m.diffuse, textures |-> m.textures \cap s.textures, shader |-> g.resources[k].shader]
        BY <4>1, <2>1, <2>3 DEF MaterialOf30
      <4> QED BY <4>2, <4>3, <3>1, <1>5, <1>7
    <3>3. CASE s.classes[k].diffuse # NoToken
      <4>1. Resource(g, k, "ColorClass") /\ g.resources[k].diffuse = s.classes[k].diffuse
        BY <3>1, <3>3, <2>4, <1>2 DEF Resource
      <4>2. Diffuse(s, o) = s.classes[k].diffuse
        BY <3>3, <2>2, <2>4, <1>7 DEF Diffuse
      <4>3. MaterialOf30(g, c) = [diffuse |-> g.resources[k].diffuse, textures |-> m.textures \cap s.textures, shader |-> g.resources[k].shader]
        <5>1. ~Resource(g, k, "ShaderClass")
          BY <4>1 DEF Resource
        <5> QED BY <5>1, <4>1, <2>1, <2>3 DEF MaterialOf30
      <4> QED BY <4>1, <4>2, <4>3, <3>1, <1>5, <1>7
    <3> QED BY <3>2, <3>3
  <2>5. CASE k \notin DOMAIN s.classes
    <3>1. ~Resource(g, k, "ColorClass") /\ ~Resource(g, k, "ShaderClass")
      BY <2>5, <1>2 DEF Resource, Names
    <3>2. Diffuse(s, o) = m.diffuse /\ ShaderOf(s, o) = NoToken
      BY <2>2, <2>5, <1>7 DEF Diffuse, ShaderOf
    <3>3. MaterialOf30(g, c) = [diffuse |-> m.diffuse, textures |-> m.textures \cap s.textures, shader |-> NoToken]
      BY <3>1, <2>1, <2>3 DEF MaterialOf30
    <3> QED BY <3>2, <3>3, <1>5, <1>7
  <2> QED BY <2>4, <2>5
<1> QED BY <1>6, <1>7

LEMMA Picture30 ==
    ASSUME NEW g, NEW s, Matches30(g, s), rtype = "OPENGL_3_0"
    PROVE  render_update30(g) = Picture(s)
<1> DEFINE o(e) == s.objects[e]
           A == {d \in DOMAIN g.components : Resource(g, MaterialOf30(g, g.components[d]).shader, "Shader")}
           B == {d \in DOMAIN s.objects : ShaderOf(s, o(d)) \in s.shaders}
           F(e) == [entity |-> e, matrix |-> Transform(g, g.components[e]), mesh |-> Shape(g, g.components[e]),
                    look |-> MaterialOf30(g, g.components[e]), flags |-> SelectedAs(g, e)]
           G(e) == [entity |-> e, matrix |-> o(e).matrix, mesh |-> s.meshes[o(e).mesh],
                    look |-> [diffuse |-> Diffuse(s, o(e)),
                              textures |-> s.materials[o(e).material].textures \cap s.textures,
                              shader |-> ShaderOf(s, o(e))],
                    flags |-> Flags(s, e)]
<1>1. render_update30(g) = {F(e) : e \in A} /\ Picture(s) = {G(e) : e \in B}
  BY DEF render_update30, Picture
<1>2. MeshesMatch(g, s) /\ ObjectsMatch(g, s) /\ Classes30(g, s) /\ Rest30(g, s) /\ Materials30(g, s) /\ FlagsMatch(g, s)
  BY DEF Matches30
<1>3. DOMAIN g.components = DOMAIN s.objects
  BY <1>2, ObjectsDomain
<1>4. ASSUME NEW e \in DOMAIN s.objects
      PROVE  /\ Resource(g, MaterialOf30(g, g.components[e]).shader, "Shader") <=> ShaderOf(s, o(e)) \in s.shaders
             /\ ShaderOf(s, o(e)) \in s.shaders => F(e) = G(e)
  <2>1. /\ Transform(g, g.components[e]) = o(e).matrix
        /\ Shape(g, g.components[e]) = s.meshes[o(e).mesh]
        /\ g.components[e].material = o(e).material
    BY <1>2, ObjectSeen
  <2> DEFINE c == g.components[e]  p == o(e)
  <2> HIDE DEF c, p
  <2>2. c.material = p.material
    BY <2>1 DEF c, p
  <2>3. /\ MaterialOf30(g, c) = [diffuse |-> Diffuse(s, p),
                                 textures |-> IF p.material \in DOMAIN s.materials THEN s.materials[p.material].textures \cap s.textures ELSE {},
                                 shader |-> ShaderOf(s, p)]
        /\ Resource(g, ShaderOf(s, p), "Shader") <=> ShaderOf(s, p) \in s.shaders
        /\ ShaderOf(s, p) \in s.shaders => p.material \in DOMAIN s.materials
    BY <1>2, <2>2, MaterialSeen30
  <2>4. SelectedAs(g, e) = Flags(s, e)
    BY <1>2 DEF FlagsMatch, SelectedAs, Flags
  <2>5. MaterialOf30(g, c).shader = ShaderOf(s, p)
    BY <2>3
  <2> QED BY <2>1, <2>3, <2>4, <2>5 DEF c, p
<1>5. A = B
  BY <1>3, <1>4
<1>6. \A e \in A : F(e) = G(e)
  BY <1>4, <1>5
<1> HIDE DEF A, B, F, G
<1> QED BY <1>1, <1>5, <1>6

LEMMA MaterialSeen12 ==
    ASSUME NEW g, NEW s, NEW o, NEW c, Classes12(g, s), Materials12Match(g, s), c.material = o.material
    PROVE  MaterialOf12(g, c) = Diffuse(s, o)
<1>1. /\ DOMAIN s.classes = Names(g, {"ColorClass", "DefaultClass"})
      /\ \A a \in DOMAIN s.classes :
            IF s.classes[a].diffuse = NoToken THEN g.resources[a].type = "DefaultClass"
            ELSE g.resources[a].type = "ColorClass" /\ g.resources[a].diffuse = s.classes[a].diffuse
  BY DEF Classes12
<1>2. CASE o.material \notin DOMAIN s.materials
  BY <1>2 DEF MaterialOf12, Materials12Match, Diffuse
<1>3. CASE o.material \in DOMAIN s.materials
  <2> DEFINE m == s.materials[o.material]  k == m.materialclass
  <2>1. /\ o.material \in DOMAIN g.materials
        /\ g.materials[o.material].diffuse = m.diffuse
        /\ g.materials[o.material].materialclass = k
    <3>1. o.material \in DOMAIN g.materials /\ g.materials[o.material] = ColorMaterial(s.materials[o.material])
      BY <1>3 DEF Materials12Match
    <3> QED BY <3>1 DEF ColorMaterial
  <2>2. Class(s, o) = k
    BY <1>3 DEF Class
  <2> HIDE DEF k
  <2>3. Resource(g, k, "ColorClass") <=> k \in DOMAIN s.classes /\ s.classes[k].diffuse # NoToken
    BY <1>1 DEF Resource, Names
  <2>4. CASE Resource(g, k, "ColorClass")
    BY <2>1, <2>2, <2>3, <2>4, <1>1, <1>3 DEF MaterialOf12, Diffuse
  <2>5. CASE ~Resource(g, k, "ColorClass")
    BY <2>1, <2>2, <2>3, <2>5, <1>3 DEF MaterialOf12, Diffuse
  <2> QED BY <2>4, <2>5
<1> QED BY <1>2, <1>3

LEMMA Picture12 ==
    ASSUME NEW g, NEW s, Matches12(g, s), rtype = "OPENGL_1_2"
    PROVE  render_update12(g) = Picture(s)
<1> DEFINE o(e) == s.objects[e]
           F(e) == [entity |-> e, matrix |-> Transform(g, g.components[e]), mesh |-> Shape(g, g.components[e]),
                    look |-> MaterialOf12(g, g.components[e])]
           G(e) == [entity |-> e, matrix |-> o(e).matrix, mesh |-> s.meshes[o(e).mesh], look |-> Diffuse(s, o(e))]
<1>1. render_update12(g) = {F(e) : e \in DOMAIN g.components} /\ Picture(s) = {G(e) : e \in DOMAIN s.objects}
  BY DEF render_update12, Picture
<1>2. MeshesMatch(g, s) /\ ObjectsMatch(g, s) /\ Classes12(g, s) /\ Materials12Match(g, s)
  BY DEF Matches12
<1>3. DOMAIN g.components = DOMAIN s.objects
  BY <1>2, ObjectsDomain
<1>4. ASSUME NEW e \in DOMAIN s.objects PROVE F(e) = G(e)
  <2>1. /\ Transform(g, g.components[e]) = o(e).matrix
        /\ Shape(g, g.components[e]) = s.meshes[o(e).mesh]
        /\ g.components[e].material = o(e).material
    BY <1>2, ObjectSeen
  <2>2. MaterialOf12(g, g.components[e]) = Diffuse(s, o(e))
    BY <1>2, <2>1, MaterialSeen12
  <2> QED BY <2>1, <2>2
<1> HIDE DEF F, G
<1> QED BY <1>1, <1>3, <1>4

-----------------------------------------------------------------------------
(* The messages that wait lead from what the render thread has to what has *)
(* been asked for.                                                         *)

\* The same for the renderer that runs.
Matches(g, s) == IF rtype = "OPENGL_3_0" THEN Matches30(g, s) ELSE Matches12(g, s)

Handled(g, x) == IF rtype = "OPENGL_3_0" THEN ProcessMessage30(g, x) ELSE ProcessMessage12(g, x)

Expected(s, x) == Fits(s, x) \/ (rtype = "OPENGL_3_0" /\ x = EntityShader)

\* course[n] is what is asked for by the first n of them.
Course(course, queue, g, s) ==
    /\ Matches(g, course[0])
    /\ \A n \in 1 .. Len(queue) :
          Expected(course[n - 1], queue[n]) /\ course[n] = Meant(course[n - 1], queue[n])
    /\ course[Len(queue)] = s

Posted == RendererMessages \cup {EntityShader}

TypesOK ==
    /\ rtype \in {"OPENGL_1_2", "OPENGL_3_0"}
    /\ message_queue \in Seq(Posted)
    /\ scripts \in [RendererPosters -> Seq(RendererMessages)]

\* The inductive invariant.
RendererInv ==
    /\ TypesOK
    /\ \E course : Course(course, message_queue, gl, scene)
    /\ RendererDrawsScene

LEMMA Handling ==
    ASSUME NEW g, NEW s, NEW x, Matches(g, s), Expected(s, x), rtype \in {"OPENGL_1_2", "OPENGL_3_0"}
    PROVE  Matches(Handled(g, x), Meant(s, x))
<1>1. CASE rtype = "OPENGL_3_0"
  BY <1>1, Message30 DEF Matches, Handled, Expected
<1>2. CASE rtype = "OPENGL_1_2"
  <2>1. Fits(s, x) /\ Matches12(g, s)
    BY <1>2 DEF Expected, Matches
  <2>2. x # EntityShader
    <3>1. CASE x.type = "RegisterShader"
      <4>1. x.links => x.asset # entity_shader_asset
        BY <2>1, <3>1 DEF Fits, Unused
      <4> QED BY <4>1 DEF EntityShader
    <3>2. CASE x.type # "RegisterShader"
      BY <3>2 DEF EntityShader
    <3> QED BY <3>1, <3>2
  <2>3. Matches12(ProcessMessage12(g, x), Asked(s, x))
    BY <1>2, <2>1, Message12
  <2> QED BY <1>2, <2>2, <2>3 DEF Matches, Handled, Meant
<1> QED BY <1>1, <1>2

LEMMA FitsIsAsked ==
    ASSUME NEW s, NEW x, Fits(s, x)
    PROVE  Meant(s, x) = Asked(s, x)
<1>1. x # EntityShader
  <2>1. CASE x.type = "RegisterShader"
    <3>1. x.links => x.asset # entity_shader_asset
      BY <2>1 DEF Fits, Unused
    <3> QED BY <3>1 DEF EntityShader
  <2>2. CASE x.type # "RegisterShader"
    BY <2>2 DEF EntityShader
  <2> QED BY <2>1, <2>2
<1> QED BY <1>1 DEF Meant

LEMMA CourseAppend ==
    ASSUME NEW S, NEW q \in Seq(S), NEW x \in S, NEW g, NEW s, NEW c, Course(c, q, g, s), Expected(s, x)
    PROVE  \E d : Course(d, Append(q, x), g, Meant(s, x))
<1> DEFINE n == Len(q)  r == Append(q, x)  d == [i \in 0 .. n + 1 |-> IF i = n + 1 THEN Meant(s, x) ELSE c[i]]
<1>1. n \in Nat /\ Len(r) = n + 1 /\ r[n + 1] = x /\ \A i \in 1 .. n : r[i] = q[i]
  OBVIOUS
<1>2. d[n + 1] = Meant(s, x) /\ \A i \in 0 .. n : d[i] = c[i]
  BY <1>1
<1> HIDE DEF d, r
<1>3. /\ Matches(g, c[0]) /\ c[n] = s
      /\ \A i \in 1 .. n : Expected(c[i - 1], q[i]) /\ c[i] = Meant(c[i - 1], q[i])
  BY DEF Course
<1> HIDE DEF n
<1>4. Matches(g, d[0])
  BY <1>1, <1>2, <1>3
<1>5. ASSUME NEW i \in 1 .. n + 1
      PROVE  Expected(d[i - 1], r[i]) /\ d[i] = Meant(d[i - 1], r[i])
  <2>1. CASE i = n + 1
    <3>1. i - 1 = n /\ d[i - 1] = s /\ r[i] = x
      BY <2>1, <1>1, <1>2, <1>3
    <3> QED BY <2>1, <3>1, <1>2
  <2>2. CASE i # n + 1
    <3>1. i \in 1 .. n /\ i - 1 \in 0 .. n /\ i \in 0 .. n
      BY <2>2, <1>1
    <3> QED BY <3>1, <1>1, <1>2, <1>3
  <2> QED BY <2>1, <2>2
<1>6. Course(d, r, g, Meant(s, x))
  BY <1>1, <1>2, <1>4, <1>5 DEF Course
<1> QED BY <1>6 DEF r

LEMMA CourseTail ==
    ASSUME NEW S, NEW q \in Seq(S), q # <<>>, NEW g, NEW s, NEW c, Course(c, q, g, s),
           rtype \in {"OPENGL_1_2", "OPENGL_3_0"}
    PROVE  \E d : Course(d, Tail(q), Handled(g, Head(q)), s)
<1> DEFINE n == Len(q)  r == Tail(q)  d == [i \in 0 .. n - 1 |-> c[i + 1]]
<1>1. n \in Nat \ {0} /\ Len(r) = n - 1 /\ Head(q) = q[1] /\ \A i \in 1 .. n - 1 : r[i] = q[i + 1]
  OBVIOUS
<1>2. \A i \in 0 .. n - 1 : d[i] = c[i + 1]
  BY <1>1
<1> HIDE DEF d, r
<1>3. /\ Matches(g, c[0]) /\ c[n] = s
      /\ \A i \in 1 .. n : Expected(c[i - 1], q[i]) /\ c[i] = Meant(c[i - 1], q[i])
  BY DEF Course
<1> HIDE DEF n
<1>4. Matches(Handled(g, Head(q)), d[0])
  <2>1. Expected(c[0], q[1]) /\ c[1] = Meant(c[0], q[1]) /\ d[0] = c[1]
    BY <1>1, <1>2, <1>3
  <2> QED BY <2>1, <1>1, <1>3, Handling
<1>5. ASSUME NEW i \in 1 .. n - 1
      PROVE  Expected(d[i - 1], r[i]) /\ d[i] = Meant(d[i - 1], r[i])
  <2>1. i + 1 \in 1 .. n /\ i - 1 \in 0 .. n - 1 /\ i \in 0 .. n - 1 /\ (i - 1) + 1 = i /\ (i + 1) - 1 = i
    BY <1>1
  <2>2. d[i - 1] = c[i] /\ d[i] = c[i + 1] /\ r[i] = q[i + 1]
    BY <2>1, <1>1, <1>2
  <2>3. Expected(c[i], q[i + 1]) /\ c[i + 1] = Meant(c[i], q[i + 1])
    BY <2>1, <1>3
  <2> QED BY <2>2, <2>3
<1>6. d[Len(r)] = s
  BY <1>1, <1>2, <1>3
<1>7. Course(d, r, Handled(g, Head(q)), s)
  BY <1>1, <1>4, <1>5, <1>6 DEF Course
<1> QED BY <1>7 DEF r

\* Buffers of another size.
LEMMA ResizeKept ==
    ASSUME NEW g, NEW s, Matches(g, s), NEW h,
           h = g \/ (\E v : h = [g EXCEPT !.resize = FALSE, !.framebuffer = v])
    PROVE  Matches(h, s)
<1>1. DOMAIN g = SceneFields
  BY DEF Matches, Matches30, Matches12, Shapes
<1>2. Same(g, h, Looks)
  BY <1>1 DEF Same, Looks, SceneFields
<1>3. CASE rtype = "OPENGL_3_0"
  BY <1>2, <1>3, Unseen30 DEF Matches
<1>4. CASE rtype # "OPENGL_3_0"
  <2>1. Same(g, h, Looks \ {"selected"}) /\ Same(s, s, {"meshes", "classes", "materials", "objects"})
    BY <1>2 DEF Same
  <2> QED BY <2>1, <1>4, Unseen12 DEF Matches
<1> QED BY <1>3, <1>4

-----------------------------------------------------------------------------
(* The beginning: nothing, for either renderer.                            *)

LEMMA KeepsNothing ==
    ASSUME NEW N \in Nat, NEW at, DOMAIN at = {}, NEW values, DOMAIN values = {}, at = [k \in {} |-> at[k]]
    PROVE  Keeps(FragmentationOf(N), at, values, N)
<1> DEFINE f == FragmentationOf(N)
<1>1. f.size = 0 /\ f.indices = [i \in 1 .. N |-> i - 1] /\ f.cells = [i \in 1 .. N |-> NoElement]
  BY DEF FragmentationOf
<1>2. f = [size |-> f.size, indices |-> f.indices, cells |-> f.cells]
  BY DEF FragmentationOf
<1> HIDE DEF f
<1>3. {f.indices[i] : i \in f.size + 1 .. N} = 0 .. N - 1
  <2>1. \A i \in 1 .. N : f.indices[i] = i - 1
    BY <1>1
  <2>2. ASSUME NEW j \in 0 .. N - 1 PROVE \E i \in 1 .. N : f.indices[i] = j
    <3>1. j + 1 \in 1 .. N /\ f.indices[j + 1] = j
      BY <2>1
    <3> QED BY <3>1
  <2>3. f.size + 1 .. N = 1 .. N
    BY <1>1
  <2>4. \A i \in 1 .. N : f.indices[i] \in 0 .. N - 1
    BY <2>1
  <2> QED BY <2>2, <2>3, <2>4
<1>4. \A i, j \in f.size + 1 .. N : f.indices[i] = f.indices[j] => i = j
  BY <1>1
<1>5. Cardinality({}) = 0 /\ IsFiniteSet({})
  BY FS_EmptySet
<1>6. Table(f, {}, N)
  <2>1. f.indices \in [1 .. N -> 0 .. N - 1] /\ f.cells = [i \in 1 .. N |-> f.cells[i]] /\ f.size \in 0 .. N
    BY <1>1
  <2> QED BY <2>1, <1>1, <1>2, <1>3, <1>4, <1>5 DEF Table
<1>7. {at[k] : k \in DOMAIN values} = {}
  OBVIOUS
<1> QED BY <1>5, <1>6, <1>7 DEF Keeps, f

LEMMA NothingMatches ==
    Matches(SceneOf, NoScene)
<1> DEFINE g == SceneOf  s == NoScene
<1>1. /\ DOMAIN g = SceneFields /\ g.resources = <<>> /\ g.materials = <<>> /\ g.objects = <<>> /\ g.components = <<>>
      /\ g.selected = <<>> /\ g.meshes = FragmentationOf(MeshCells) /\ g.modelviews = FragmentationOf(ObjectCells)
  BY DEF SceneOf, SceneFields
<1>2. /\ DOMAIN s = SceneParts /\ s.meshes = <<>> /\ s.classes = <<>> /\ s.shaders = {} /\ s.textures = {}
      /\ s.materials = <<>> /\ s.objects = <<>> /\ s.flags = <<>>
  BY DEF NoScene, SceneParts
<1>3. DOMAIN <<>> = {} /\ <<>> = [k \in {} |-> <<>>[k]]
  OBVIOUS
<1> HIDE DEF g, s
<1>4. \A types : Names(g, types) = {}
  BY <1>1, <1>3 DEF Names
<1>5. MeshesMatch(g, s)
  <2>1. DOMAIN MeshAt(g) = {} /\ MeshAt(g) = [k \in {} |-> MeshAt(g)[k]]
    BY <1>4 DEF MeshAt
  <2>2. Keeps(g.meshes, MeshAt(g), s.meshes, MeshCells)
    BY <2>1, <1>1, <1>2, <1>3, CellsAssumption, KeepsNothing
  <2> QED BY <2>2, <1>2, <1>3, <1>4 DEF MeshesMatch
<1>6. ObjectsMatch(g, s)
  <2>1. DOMAIN Matrices(s) = {}
    BY <1>2, <1>3 DEF Matrices
  <2>2. Keeps(g.modelviews, g.objects, Matrices(s), ObjectCells)
    BY <2>1, <1>1, <1>3, CellsAssumption, KeepsNothing
  <2>3. ComponentsMatch(g, s)
    BY <1>1, <1>2, <1>3 DEF ComponentsMatch
  <2> QED BY <2>2, <2>3 DEF ObjectsMatch
<1>7. Shapes(g, s)
  BY <1>1, <1>2 DEF Shapes, SceneParts
<1>8. Matches30(g, s)
  <2>1. Classes30(g, s)
    BY <1>2, <1>3, <1>4 DEF Classes30
  <2>2. Rest30(g, s)
    BY <1>1, <1>2, <1>3, <1>4 DEF Rest30
  <2>3. Materials30(g, s)
    BY <1>1, <1>2, <1>3 DEF Materials30
  <2>4. FlagsMatch(g, s)
    BY <1>1, <1>2, <1>3 DEF FlagsMatch
  <2> QED BY <2>1, <2>2, <2>3, <2>4, <1>5, <1>6, <1>7 DEF Matches30
<1>9. Matches12(g, s)
  <2>1. Classes12(g, s)
    BY <1>2, <1>3, <1>4 DEF Classes12
  <2>2. Rest12(g, s)
    BY <1>1, <1>3, <1>4 DEF Rest12
  <2>3. Materials12Match(g, s)
    BY <1>1, <1>2, <1>3 DEF Materials12Match
  <2> QED BY <2>1, <2>2, <2>3, <1>5, <1>6, <1>7 DEF Matches12
<1> QED BY <1>8, <1>9 DEF Matches, g, s

-----------------------------------------------------------------------------
(* The steps of the threads.                                               *)

LEMMA RendererStarts ==
    RendererInit => RendererInv
<1> SUFFICES ASSUME RendererInit PROVE RendererInv
  OBVIOUS
<1>1. TypesOK
  <2>1. PICK t \in RendererScripts : rtype = t.type /\ scripts = t.scripts
    BY DEF RendererInit
  <2>2. message_queue = <<>>
    BY DEF RendererInit
  <2> QED BY <2>1, <2>2, ScriptsAssumption DEF TypesOK
<1>2. \E course : Course(course, message_queue, gl, scene)
  <2>1. message_queue = <<>> /\ gl = SceneOf /\ scene = NoScene
    BY DEF RendererInit
  <2> DEFINE c == [n \in {0} |-> NoScene]
  <2>2. c[0] = NoScene
    OBVIOUS
  <2> HIDE DEF c
  <2>3. Len(<<>>) = 0 /\ 1 .. 0 = {}
    OBVIOUS
  <2>4. Course(c, <<>>, SceneOf, NoScene)
    BY <2>2, <2>3, NothingMatches DEF Course
  <2> QED BY <2>1, <2>4
<1>3. RendererDrawsScene
  BY DEF RendererInit, RendererDrawsScene
<1> QED BY <1>1, <1>2, <1>3 DEF RendererInv

\* What depends on the type only.
LEMMA TypeKept ==
    ASSUME rtype' = rtype
    PROVE  /\ \A s : Picture(s)' = Picture(s)
           /\ \A c, q, g, s : Course(c, q, g, s) => Course(c, q, g, s)'
<1>1. \A s, x : Expected(s, x) => Expected(s, x)'
  BY DEF Expected, Fits, Unused
<1>2. \A g, s : Matches(g, s)' = Matches(g, s)
  BY DEF Matches
<1>3. \A s : Picture(s)' = Picture(s)
  BY DEF Picture
<1> QED BY <1>1, <1>2, <1>3 DEF Course

LEMMA RendererSteps ==
    RendererInv /\ [RendererNext]_rendererVars /\ [Mannerly]_rendererVars => RendererInv'
<1> SUFFICES ASSUME RendererInv, [RendererNext]_rendererVars, [Mannerly]_rendererVars
             PROVE  RendererInv'
  OBVIOUS
<1>1. TypesOK /\ RendererDrawsScene
  BY DEF RendererInv
<1>2. PICK course : Course(course, message_queue, gl, scene)
  BY DEF RendererInv
<1>3. rtype' = rtype
  BY DEF RendererNext, RenderThread, rendererVars, PostNext, update, DestructorStore, DestructorSet, DestructorJoin,
         render_setup, Wait, Reset, TestActive, PollMessage, PollEnd, Answer, Draw, Swap, render_teardown
<1>4. ASSUME UNCHANGED <<message_queue, gl, scene>>, scripts' \in [RendererPosters -> Seq(RendererMessages)], RendererDrawsScene'
      PROVE  RendererInv'
  <2>1. Course(course, message_queue, gl, scene)'
    BY <1>2, <1>3, <1>4, TypeKept DEF Course
  <2>2. TypesOK'
    BY <1>1, <1>3, <1>4 DEF TypesOK
  <2> QED BY <2>1, <2>2, <1>4 DEF RendererInv
\* Steps that leave the queue and the containers alone, and do not end a frame.
<1>5. ASSUME UNCHANGED <<message_queue, gl, scene, drawn>>, scripts' = scripts, rpc' = rpc \/ rpc' # "drawn"
      PROVE  RendererInv'
  <2>1. RendererDrawsScene'
    BY <1>1, <1>3, <1>5, TypeKept DEF RendererDrawsScene
  <2> QED BY <2>1, <1>1, <1>4, <1>5 DEF TypesOK
<1>6. CASE UNCHANGED rendererVars
  BY <1>5, <1>6 DEF rendererVars
<1>7. ASSUME NEW p \in RendererPosters, PostNext(p) PROVE RendererInv'
  <2> DEFINE x == Head(scripts[p])
  <2>1. /\ scripts[p] # <<>> /\ scripts' = [scripts EXCEPT ![p] = Tail(@)]
        /\ gl' = gl /\ rpc' = rpc /\ drawn' = drawn
    BY <1>7 DEF PostNext
  <2>2. scripts \in [RendererPosters -> Seq(RendererMessages)]
    BY <1>1 DEF TypesOK
  <2>3. x \in RendererMessages /\ scripts' \in [RendererPosters -> Seq(RendererMessages)]
    BY <2>1, <2>2
  <2>4. x.type \in Calls \/ Fits(scene, x)
    <3>1. CASE Mannerly
      BY <3>1, <1>7 DEF Mannerly
    <3>2. CASE UNCHANGED rendererVars
      <4>1. scripts[p] = Tail(scripts[p])
        BY <3>2, <2>1, <2>2 DEF rendererVars
      <4>2. scripts[p] \in Seq(RendererMessages) /\ Len(Tail(scripts[p])) # Len(scripts[p])
        BY <2>1, <2>2
      <4> QED BY <4>1, <4>2
    <3> QED BY <3>1, <3>2
  <2>5. CASE x.type \in Calls
    <3>1. UNCHANGED <<message_queue, scene>>
      BY <1>7, <2>5 DEF PostNext, Calls
    <3>2. RendererDrawsScene'
      BY <3>1, <2>1, <1>1, <1>3, TypeKept DEF RendererDrawsScene
    <3> QED BY <3>1, <3>2, <2>1, <2>3, <1>4
  <2>6. CASE x.type \notin Calls
    <3>1. message_queue' = Append(message_queue, x) /\ scene' = Asked(scene, x)
      BY <1>7, <2>6 DEF PostNext, Calls
    <3>2. message_queue \in Seq(Posted) /\ x \in Posted
      BY <1>1, <2>3 DEF TypesOK, Posted
    <3> HIDE DEF x
    <3>3. Fits(scene, x)
      BY <2>4, <2>6
    <3>4. Expected(scene, x) /\ scene' = Meant(scene, x)
      BY <3>1, <3>3, FitsIsAsked DEF Expected
    <3>5. PICK d : Course(d, Append(message_queue, x), gl, Meant(scene, x))
      BY <3>2, <3>4, <1>2, CourseAppend
    <3>6. Course(d, message_queue, gl, scene)'
      BY <3>1, <3>4, <3>5, <2>1, <1>3, TypeKept DEF Course
    <3>7. TypesOK'
      BY <3>1, <3>2, <2>3, <1>1, <1>3 DEF TypesOK
    <3>8. message_queue' # <<>>
      BY <3>1, <3>2
    <3>9. RendererDrawsScene'
      BY <3>8 DEF RendererDrawsScene
    <3> QED BY <3>6, <3>7, <3>9 DEF RendererInv
  <2> QED BY <2>5, <2>6
<1>8. CASE update \/ DestructorStore \/ DestructorSet \/ DestructorJoin
  BY <1>5, <1>8 DEF update, DestructorStore, DestructorSet, DestructorJoin
<1>9. CASE render_setup
  <2>1. /\ rpc' = "wait" /\ scene' = scene /\ gl' = gl /\ scripts' = scripts /\ drawn' = drawn
        /\ message_queue' = IF rtype = "OPENGL_3_0" THEN Append(message_queue, EntityShader) ELSE message_queue
    BY <1>9 DEF render_setup
  <2>2. CASE rtype # "OPENGL_3_0"
    BY <2>1, <2>2, <1>5
  <2>3. CASE rtype = "OPENGL_3_0"
    <3>1. message_queue \in Seq(Posted) /\ EntityShader \in Posted
      BY <1>1 DEF TypesOK, Posted
    <3>2. Expected(scene, EntityShader) /\ Meant(scene, EntityShader) = scene
      BY <2>3 DEF Expected, Meant
    <3>3. PICK d : Course(d, Append(message_queue, EntityShader), gl, Meant(scene, EntityShader))
      BY <3>1, <3>2, <1>2, CourseAppend
    <3>4. Course(d, message_queue, gl, scene)'
      BY <2>1, <2>3, <3>2, <3>3, <1>3, TypeKept DEF Course
    <3>5. TypesOK'
      BY <2>1, <2>3, <3>1, <1>1, <1>3 DEF TypesOK
    <3>6. RendererDrawsScene'
      BY <2>1 DEF RendererDrawsScene
    <3> QED BY <3>4, <3>5, <3>6 DEF RendererInv
  <2> QED BY <2>2, <2>3
<1>10. CASE Wait \/ Reset \/ TestActive \/ Answer \/ Swap \/ render_teardown
  BY <1>5, <1>10 DEF Wait, Reset, TestActive, Answer, Swap, render_teardown
<1>11. CASE PollMessage
  <2>1. /\ rpc = "poll" /\ rpc' = rpc /\ message_queue # <<>> /\ message_queue' = Tail(message_queue)
        /\ scene' = scene /\ scripts' = scripts
        /\ gl' = Handled(gl, Head(message_queue))
    BY <1>11 DEF PollMessage, Handled
  <2>2. message_queue \in Seq(Posted) /\ rtype \in {"OPENGL_1_2", "OPENGL_3_0"}
    BY <1>1 DEF TypesOK
  <2>3. PICK d : Course(d, Tail(message_queue), Handled(gl, Head(message_queue)), scene)
    BY <2>1, <2>2, <1>2, CourseTail
  <2>4. Course(d, message_queue, gl, scene)'
    BY <2>1, <2>3, <1>3, TypeKept DEF Course
  <2>5. TypesOK'
    BY <2>1, <2>2, <1>1, <1>3 DEF TypesOK
  <2>6. RendererDrawsScene'
    BY <2>1 DEF RendererDrawsScene
  <2> QED BY <2>4, <2>5, <2>6 DEF RendererInv
<1>12. CASE PollEnd
  <2>1. /\ rpc' \in {"wait", "select"} /\ message_queue' = message_queue /\ scene' = scene /\ scripts' = scripts
        /\ gl' = gl \/ \E v : gl' = [gl EXCEPT !.resize = FALSE, !.framebuffer = v]
    BY <1>12 DEF PollEnd, maybe_resize_framebuffer30, maybe_resize_framebuffer12
  <2>2. Matches(gl, course[0])
    BY <1>2 DEF Course
  <2>3. Matches(gl', course[0])
    BY <2>1, <2>2, ResizeKept
  <2>4. Course(course, message_queue, gl', scene)
    BY <2>3, <1>2 DEF Course
  <2>5. Course(course, message_queue, gl, scene)'
    BY <2>1, <2>4, <1>3, TypeKept DEF Course
  <2>6. TypesOK'
    BY <2>1, <1>1, <1>3 DEF TypesOK
  <2>7. RendererDrawsScene'
    BY <2>1 DEF RendererDrawsScene
  <2> QED BY <2>5, <2>6, <2>7 DEF RendererInv
\* What is drawn when no message waits.
<1>13. CASE Draw
  <2>1. /\ UNCHANGED <<message_queue, gl, scene, scripts>>
        /\ drawn' = IF rtype = "OPENGL_3_0" THEN render_update30(gl) ELSE render_update12(gl)
    BY <1>13 DEF Draw
  <2>2. message_queue = <<>> => drawn' = Picture(scene)
    <3> SUFFICES ASSUME message_queue = <<>> PROVE drawn' = Picture(scene)
      OBVIOUS
    <3>1. Len(message_queue) = 0
      OBVIOUS
    <3>2. Matches(gl, scene)
      BY <3>1, <1>2 DEF Course
    <3>3. CASE rtype = "OPENGL_3_0"
      BY <3>2, <3>3, <2>1, Picture30 DEF Matches
    <3>4. CASE rtype = "OPENGL_1_2"
      BY <3>2, <3>4, <2>1, Picture12 DEF Matches
    <3> QED BY <3>3, <3>4, <1>1 DEF TypesOK
  <2>3. RendererDrawsScene'
    BY <2>1, <2>2, <1>3, TypeKept DEF RendererDrawsScene
  <2> QED BY <2>1, <2>3, <1>1, <1>4 DEF TypesOK
<1> QED BY <1>6, <1>7, <1>8, <1>9, <1>10, <1>11, <1>12, <1>13 DEF RendererNext, RenderThread

\* Both renderers draw what was asked for, for any number of threads, messages, assets and
\* cells: components follow their pointers into cells that AddMeshObject, Remove, Unregister
\* and replace free and use again, and messages wait in the queue while others are posted.
THEOREM RendererCorrect ==
    RendererSpec /\ [][Mannerly]_rendererVars => []RendererDrawsScene
<1>1. RendererInit => RendererInv
  BY RendererStarts
<1>2. RendererInv /\ [RendererNext]_rendererVars /\ [Mannerly]_rendererVars => RendererInv'
  BY RendererSteps
<1>3. RendererInv => RendererDrawsScene
  BY DEF RendererInv
<1> QED BY <1>1, <1>2, <1>3, PTL DEF RendererSpec

=============================================================================

--------------------------- MODULE Devices_proofs ---------------------------
(***************************************************************************)
(* Proofs about the devices of the Windows build and about ui.  Whatever   *)
(* is plugged in or out, however often hardware input is switched, and     *)
(* whatever inputs and window messages come in between, what ui knows of   *)
(* the devices once it has handled its queue is what the backend has.      *)
(* Whatever clients post and backends report, the devices have the         *)
(* filters of the active states of their contexts.                         *)
(***************************************************************************)
EXTENDS DevicesUser32, Ui, Integers, FiniteSetTheorems, FunctionTheorems, SequenceTheorems, WellFoundedInduction, TLAPS

-----------------------------------------------------------------------------
(* What ui makes of a queue of messages.                                   *)

\* The smallest number of a set: what stands for an induction.
LEMMA LeastOf ==
    ASSUME NEW T, T \subseteq Nat, T # {}
    PROVE  \E x \in T : \A y \in T : x <= y
<1> DEFINE below == {ss \in Nat \X Nat : ss[1] < ss[2]}
<1>1. IsWellFoundedOn(below, Nat)
  BY NatLessThanWellFounded, Zenon DEF OpToRel
<1>2. PICK x \in T : \A y \in T : ~ (<<y, x>> \in below)
  <2> HIDE DEF below
  <2> QED BY <1>1, WFMin
<1>3. \A y \in T : ~ (y < x)
  BY <1>2
<1> QED BY <1>3

\* f is what ui knows after each of the first n messages.
IsCourse(f, known, ms, n) ==
    f = [k \in 0 .. n |-> IF k = 0 THEN known ELSE Take(f[k - 1], ms[k])]

LEMMA CourseExists ==
    ASSUME NEW known, NEW ms, NEW n \in Nat
    PROVE  \E f : IsCourse(f, known, ms, n)
<1> DEFINE T == {m \in Nat : ~\E f : IsCourse(f, known, ms, m)}
<1>1. SUFFICES ASSUME T # {} PROVE FALSE
  OBVIOUS
<1>2. PICK m \in T : \A l \in T : m <= l
  BY <1>1, LeastOf
<1>3. CASE m = 0
  <2> DEFINE f == [k \in {0} |-> known]
  <2>1. 0 .. 0 = {0}
    OBVIOUS
  <2>2. f = [k \in 0 .. 0 |-> IF k = 0 THEN known ELSE Take(f[k - 1], ms[k])]
    BY <2>1
  <2>3. IsCourse(f, known, ms, 0)
    BY <2>2, Zenon DEF IsCourse
  <2> QED BY <1>2, <1>3, <2>3
<1>4. CASE m # 0
  <2>1. m \in Nat /\ m - 1 \in Nat /\ m - 1 \notin T
    BY <1>2, <1>4
  <2>2. PICK g : IsCourse(g, known, ms, m - 1)
    BY <2>1
  <2> DEFINE f == [k \in 0 .. m |-> IF k = m THEN Take(g[m - 1], ms[m]) ELSE g[k]]
  <2>3. g = [k \in 0 .. m - 1 |-> IF k = 0 THEN known ELSE Take(g[k - 1], ms[k])]
    BY <2>2, Zenon DEF IsCourse
  <2>4. ASSUME NEW k \in 0 .. m
        PROVE  f[k] = IF k = 0 THEN known ELSE Take(f[k - 1], ms[k])
    <3>1. CASE k = m
      <4>1. k - 1 \in 0 .. m /\ k - 1 # m /\ k # 0
        BY <1>4, <2>1, <3>1
      <4>2. f[k - 1] = g[m - 1]
        BY <3>1, <4>1
      <4> QED BY <3>1, <4>1, <4>2
    <3>2. CASE k # m /\ k = 0
      <4>1. 0 \in 0 .. m - 1
        BY <2>1
      <4>2. g[0] = known
        BY <2>3, <4>1
      <4> QED BY <3>2, <4>2
    <3>3. CASE k # m /\ k # 0
      <4>1. k \in 0 .. m - 1 /\ k - 1 \in 0 .. m /\ k - 1 # m /\ k # 0
        BY <2>1, <3>3
      <4>2. g[k] = Take(g[k - 1], ms[k])
        BY <2>3, <4>1
      <4>3. f[k - 1] = g[k - 1] /\ f[k] = g[k]
        BY <3>3, <4>1
      <4> QED BY <4>1, <4>2, <4>3
    <3> QED BY <3>1, <3>2, <3>3
  <2>5. f = [k \in 0 .. m |-> f[k]]
    OBVIOUS
  <2> HIDE DEF f
  <2>6. f = [k \in 0 .. m |-> IF k = 0 THEN known ELSE Take(f[k - 1], ms[k])]
    BY <2>4, <2>5, Zenon
  <2>7. IsCourse(f, known, ms, m)
    BY <2>6, Zenon DEF IsCourse
  <2> QED BY <1>2, <2>7
<1> QED BY <1>3, <1>4

\* f has the rows after each of the first n messages.
Continues(f, ms, n) == \A k \in 1 .. n : f[k] = Take(f[k - 1], ms[k])

LEMMA CourseIs ==
    ASSUME NEW known, NEW ms, Len(ms) \in Nat
    PROVE  Course(known, ms)[0] = known /\ Continues(Course(known, ms), ms, Len(ms))
<1> DEFINE n == Len(ms)
           f == CHOOSE g : IsCourse(g, known, ms, n)
<1>1. IsCourse(f, known, ms, n)
  <2> HIDE DEF n
  <2>1. n \in Nat
    BY DEF n
  <2>2. \E g : IsCourse(g, known, ms, n)
    BY <2>1, CourseExists
  <2> QED BY <2>2, Zenon
<1>2. Course(known, ms) = f
  BY Zenon DEF Course, IsCourse
<1> HIDE DEF f
<1>3. f = [k \in 0 .. n |-> IF k = 0 THEN known ELSE Take(f[k - 1], ms[k])]
  BY <1>1, Zenon DEF IsCourse
<1>4. 0 \in 0 .. n /\ \A k \in 1 .. n : k \in 0 .. n /\ k # 0
  OBVIOUS
<1> HIDE DEF n
<1>5. \A k \in 0 .. n : f[k] = IF k = 0 THEN known ELSE Take(f[k - 1], ms[k])
  BY <1>3
<1>6. f[0] = known
  BY <1>4, <1>5
<1>7. \A k \in 1 .. n : f[k] = Take(f[k - 1], ms[k])
  BY <1>4, <1>5
<1> QED BY <1>2, <1>6, <1>7 DEF n, Continues

\* Two that take the same messages from the same rows have the same rows after each.
LEMMA CoursesAgree ==
    ASSUME NEW f, NEW g, NEW ms, NEW n \in Nat, f[0] = g[0],
           Continues(f, ms, n), Continues(g, ms, n)
    PROVE  \A k \in 0 .. n : f[k] = g[k]
<1> USE DEF Continues
<1> DEFINE T == {m \in Nat : m <= n /\ f[m] # g[m]}
<1>1. SUFFICES ASSUME T # {} PROVE FALSE
  OBVIOUS
<1>2. PICK m \in T : \A l \in T : m <= l
  BY <1>1, LeastOf
<1>3. m \in 1 .. n /\ m - 1 \in Nat /\ m - 1 <= n
  BY <1>2
<1>4. m - 1 \notin T
  BY <1>2, <1>3
<1>5. f[m - 1] = g[m - 1]
  BY <1>3, <1>4
<1>6. f[m] = g[m]
  BY <1>3, <1>5
<1> QED BY <1>2, <1>6

\* Every message is accepted, and in the end ui has rows.
Told(known, ms, rows) ==
    /\ \A k \in 1 .. Len(ms) : Accepts(Course(known, ms)[k - 1], ms[k])
    /\ Course(known, ms)[Len(ms)] = rows

LEMMA ToldIs ==
    ASSUME NEW known, NEW ms
    PROVE  Told(known, ms, Settled(known, ms)) <=> AllAccepted(known, ms)
BY Zenon DEF Told, Settled, AllAccepted

LEMMA TellOne ==
    ASSUME NEW S, NEW known, NEW ms \in Seq(S), NEW rows, NEW m \in S,
           Told(known, ms, rows), Accepts(rows, m)
    PROVE  Told(known, Append(ms, m), Take(rows, m))
<1> DEFINE n == Len(ms)
           q == Append(ms, m)
           f == Course(known, ms)
           g == Course(known, q)
<1>1. n \in Nat /\ Len(q) = n + 1 /\ q[n + 1] = m /\ \A k \in 1 .. n : q[k] = ms[k]
  OBVIOUS
<1>2. f[0] = known /\ Continues(f, ms, n)
  BY <1>1, CourseIs
<1> HIDE DEF q, n
<1>3. g[0] = known /\ Continues(g, q, n + 1)
  <2>1. Len(q) \in Nat
    BY <1>1
  <2>2. g[0] = known /\ Continues(g, q, Len(q))
    BY <2>1, CourseIs
  <2> QED BY <1>1, <2>2
<1>4. (\A k \in 1 .. n : Accepts(f[k - 1], ms[k])) /\ f[n] = rows
  BY DEF Told, n
<1> HIDE DEF f, g
<1>5. Continues(f, q, n)
  BY <1>1, <1>2 DEF Continues
<1>6. Continues(g, q, n)
  BY <1>1, <1>3 DEF Continues
<1>7. \A k \in 0 .. n : f[k] = g[k]
  BY <1>1, <1>2, <1>3, <1>5, <1>6, CoursesAgree
<1>8. g[n] = rows
  BY <1>1, <1>4, <1>7
<1>9. g[n + 1] = Take(rows, m)
  <2>1. n + 1 \in 1 .. n + 1 /\ (n + 1) - 1 = n
    BY <1>1
  <2>2. g[n + 1] = Take(g[(n + 1) - 1], q[n + 1])
    BY <1>3, <2>1 DEF Continues
  <2> QED BY <1>1, <1>8, <2>1, <2>2
<1>10. \A k \in 1 .. n + 1 : Accepts(g[k - 1], q[k])
  <2> TAKE k \in 1 .. n + 1
  <2>1. CASE k = n + 1
    <3>1. k - 1 = n
      BY <1>1, <2>1
    <3> QED BY <1>1, <1>8, <2>1, <3>1
  <2>2. CASE k # n + 1
    <3>1. k \in 1 .. n /\ k - 1 \in 0 .. n
      BY <1>1, <2>2
    <3> QED BY <1>1, <1>4, <1>7, <3>1
  <2> QED BY <2>1, <2>2
<1>11. Len(q) = n + 1
  BY <1>1
<1>12. Told(known, q, Take(rows, m))
  BY <1>9, <1>10, <1>11 DEF Told, g
<1> QED BY <1>12 DEF q

LEMMA PopOne ==
    ASSUME NEW S, NEW known, NEW ms \in Seq(S), NEW rows, ms # <<>>,
           Told(known, ms, rows)
    PROVE  Told(Take(known, Head(ms)), Tail(ms), rows)
<1> DEFINE n == Len(ms)
           q == Tail(ms)
           next == Take(known, Head(ms))
           f == Course(known, ms)
           g == Course(next, q)
           h == [k \in 0 .. n - 1 |-> f[k + 1]]
<1>1. n \in Nat /\ n > 0 /\ Len(q) = n - 1 /\ Head(ms) = ms[1] /\ \A k \in 1 .. n - 1 : q[k] = ms[k + 1]
  OBVIOUS
<1>2. f[0] = known /\ Continues(f, ms, n)
  BY <1>1, CourseIs
<1> HIDE DEF q, n
<1>3. g[0] = next /\ Continues(g, q, n - 1)
  <2>1. Len(q) \in Nat
    BY <1>1
  <2>2. g[0] = next /\ Continues(g, q, Len(q))
    BY <2>1, CourseIs
  <2> QED BY <1>1, <2>2
<1>4. (\A k \in 1 .. n : Accepts(f[k - 1], ms[k])) /\ f[n] = rows
  BY DEF Told, n
<1> HIDE DEF f, g, next
<1>5. f[1] = next
  <2>1. 1 \in 1 .. n /\ 1 - 1 = 0
    BY <1>1
  <2> QED BY <1>1, <1>2, <2>1 DEF Continues, next
<1>6. h[0] = next
  BY <1>1, <1>5 DEF h
<1>7. ASSUME NEW k \in 1 .. n - 1
      PROVE  h[k] = Take(h[k - 1], q[k])
  <2>1. k + 1 \in 1 .. n /\ (k + 1) - 1 = k /\ k \in 0 .. n - 1 /\ k - 1 \in 0 .. n - 1 /\ (k - 1) + 1 = k
    BY <1>1
  <2>2. h[k] = f[k + 1] /\ h[k - 1] = f[k]
    BY <2>1 DEF h
  <2>3. f[k + 1] = Take(f[k], ms[k + 1])
    BY <1>2, <2>1 DEF Continues
  <2> QED BY <1>1, <2>2, <2>3
<1>8. ASSUME NEW k \in 0 .. n - 1
      PROVE  h[k] = f[k + 1]
  OBVIOUS
<1> HIDE DEF h
<1>9. n - 1 \in Nat /\ Continues(h, q, n - 1)
  BY <1>1, <1>7 DEF Continues
<1>10. \A k \in 0 .. n - 1 : g[k] = h[k]
  BY <1>3, <1>6, <1>9, CoursesAgree
<1>11. g[n - 1] = rows
  <2>1. n - 1 \in 0 .. n - 1 /\ (n - 1) + 1 = n
    BY <1>1
  <2> QED BY <1>4, <1>8, <1>10, <2>1
<1>12. \A k \in 1 .. n - 1 : Accepts(g[k - 1], q[k])
  <2> TAKE k \in 1 .. n - 1
  <2>1. k - 1 \in 0 .. n - 1 /\ (k - 1) + 1 = k /\ k + 1 \in 1 .. n /\ (k + 1) - 1 = k
    BY <1>1
  <2>2. g[k - 1] = f[k]
    BY <1>8, <1>10, <2>1
  <2>3. Accepts(f[k], ms[k + 1])
    BY <1>4, <2>1
  <2> QED BY <1>1, <2>2, <2>3
<1>13. Told(next, q, rows)
  <2>1. Len(q) = n - 1
    BY <1>1
  <2> QED BY <1>11, <1>12, <2>1 DEF Told, g
<1> QED BY <1>13 DEF q, next

-----------------------------------------------------------------------------
(* What devices.cpp keeps agrees with what ui will know.                   *)

InputState == {"AXIS_TILT", "AXIS_TRIGGER", "BUTTON_DOWN", "BUTTON_UP", "KEY_CHARACTER", "CURSOR_MOVE"}
Row == [sources : SUBSET {""}, level : [Code -> Nat]]
Message ==
    [type : {"DeviceFound", "DeviceLost"}, id : Nat]
        \cup [type : {"AddSource"}, id : Nat, path : {""}]
        \cup [type : {"Input"}, id : Nat, state : InputState, code : Code, level : Nat]
InputMessage == [type : {"Input"}, id : Nat, state : InputState, code : Code, level : Nat]

\* In the end ui has rows, those of the devices of ids, with the levels of values.
AgreesWith(known, values, ms, ids, rows) ==
    /\ values \in Seq([Code -> Nat])
    /\ ms \in Seq(Message)
    /\ ids \subseteq Nat
    /\ \A d \in ids : d < Len(values)
    /\ rows \in [ids -> Row]
    /\ Told(known, ms, rows)
    /\ \A d \in ids : rows[d].level = values[d + 1]

Agrees(known, io, ids) ==
    /\ io = [values |-> io.values, queue |-> io.queue]
    /\ \E rows : AgreesWith(known, io.values, io.queue, ids, rows)

\* u has n values and agrees with rows of which those of bare have no sources.
Tells(known, u, n, ids, bare) ==
    \E values, ms, rows :
        /\ u = [values |-> values, queue |-> ms]
        /\ Len(values) = n
        /\ AgreesWith(known, values, ms, ids, rows)
        /\ \A d \in bare : rows[d].sources = {}

LEMMA TellsAgrees ==
    ASSUME NEW known, NEW u, NEW n, NEW ids, NEW bare, Tells(known, u, n, ids, bare)
    PROVE  Agrees(known, u, ids) /\ Len(u.values) = n
<1>1. PICK values, ms, rows :
          u = [values |-> values, queue |-> ms] /\ Len(values) = n /\ AgreesWith(known, values, ms, ids, rows)
  BY DEF Tells
<1> QED BY <1>1 DEF Agrees

LEMMA NotifyIs ==
    ASSUME NEW values, NEW ms, NEW m
    PROVE  Notify([values |-> values, queue |-> ms], m) = [values |-> values, queue |-> Append(ms, m)]
BY DEF Notify

LEMMA WithValues ==
    ASSUME NEW values, NEW ms, NEW other
    PROVE  [[values |-> values, queue |-> ms] EXCEPT !.values = other] = [values |-> other, queue |-> ms]
OBVIOUS

LEMMA AppendStays ==
    ASSUME NEW S, NEW s \in Seq(S), NEW e \in S
    PROVE  Append(s, e) \in Seq(S)
OBVIOUS

LEMMA PutAt ==
    ASSUME NEW S, NEW s \in Seq(S), NEW i \in 1 .. Len(s), NEW e \in S
    PROVE  /\ [s EXCEPT ![i] = e] \in Seq(S) /\ Len([s EXCEPT ![i] = e]) = Len(s)
           /\ \A k \in 1 .. Len(s) : [s EXCEPT ![i] = e][k] = IF k = i THEN e ELSE s[k]
OBVIOUS

LEMMA MessagesOfDevices ==
    ASSUME NEW id \in Nat
    PROVE  /\ [type |-> "DeviceFound", id |-> id] \in Message
           /\ [type |-> "DeviceLost", id |-> id] \in Message
           /\ [type |-> "AddSource", id |-> id, path |-> ""] \in Message
BY DEF Message

LEMMA WithSource ==
    ASSUME NEW row \in Row
    PROVE  /\ [row EXCEPT !.sources = @ \cup {""}] \in Row
           /\ [row EXCEPT !.sources = @ \cup {""}].level = row.level
BY DEF Row

LEMMA LevelsAtRest == DeviceValues \in [Code -> Nat] /\ FreshRow \in Row /\ FreshRow.sources = {} /\ FreshRow.level = DeviceValues
BY DEF DeviceValues, FreshRow, Row

\* A new row is accepted and is at rest.
LEMMA FoundTells ==
    ASSUME NEW known, NEW values, NEW ms, NEW ids, NEW rows, NEW id, id = Len(values),
           AgreesWith(known, values, ms, ids, rows)
    PROVE  Tells(known, found_device([values |-> values, queue |-> ms], id), id + 1, ids \cup {id}, {id})
<1> DEFINE m == [type |-> "DeviceFound", id |-> id]
           v == Append(values, DeviceValues)
           more == [d \in ids \cup {id} |-> IF d = id THEN FreshRow ELSE rows[d]]
<1>1. /\ values \in Seq([Code -> Nat]) /\ ms \in Seq(Message) /\ ids \subseteq Nat
      /\ \A d \in ids : d < Len(values)
      /\ rows \in [ids -> Row] /\ Told(known, ms, rows) /\ \A d \in ids : rows[d].level = values[d + 1]
  BY DEF AgreesWith
<1>2. id \in Nat /\ m \in Message
  <2>1. id \in Nat
    BY <1>1
  <2> QED BY <2>1, MessagesOfDevices
<1>3. id \notin ids
  BY <1>1, <1>2
<1>4. v \in Seq([Code -> Nat]) /\ Len(v) = id + 1 /\ v[id + 1] = DeviceValues /\ \A i \in 1 .. id : v[i] = values[i]
  BY <1>1, LevelsAtRest
<1>5. Accepts(rows, m) /\ Take(rows, m) = more
  <2>1. DOMAIN rows = ids
    BY <1>1
  <2>2. m.type = "DeviceFound" /\ m.id = id
    OBVIOUS
  <2> HIDE DEF m
  <2>3. Accepts(rows, m)
    BY <1>3, <2>1, <2>2 DEF Accepts
  <2>4. Take(rows, m) = [d \in DOMAIN rows \cup {m.id} |-> IF d = m.id THEN FreshRow ELSE rows[d]]
    BY <2>2 DEF Take
  <2> QED BY <2>1, <2>2, <2>3, <2>4
<1>6. Told(known, Append(ms, m), more)
  <2> HIDE DEF m, more
  <2>1. Told(known, Append(ms, m), Take(rows, m))
    BY <1>1, <1>2, <1>5, TellOne
  <2> QED BY <1>5, <2>1
<1>7. more \in [ids \cup {id} -> Row] /\ \A d \in ids \cup {id} : more[d].level = v[d + 1] /\ d \in Nat /\ d < id + 1
  <2>1. more \in [ids \cup {id} -> Row]
    BY <1>1, LevelsAtRest
  <2>2. ASSUME NEW d \in ids \cup {id}
        PROVE  more[d].level = v[d + 1] /\ d \in Nat /\ d < id + 1
    <3>1. CASE d = id
      <4>1. more[d] = FreshRow
        BY <3>1
      <4> HIDE DEF v, more
      <4> QED BY <1>2, <1>4, <3>1, <4>1, LevelsAtRest
    <3>2. CASE d # id
      <4>1. d \in ids /\ more[d] = rows[d]
        BY <3>2
      <4> HIDE DEF v, more
      <4>2. d \in Nat /\ d < id /\ d + 1 \in 1 .. id
        BY <1>1, <1>2, <4>1
      <4>3. rows[d].level = values[d + 1]
        BY <1>1, <4>1
      <4>4. v[d + 1] = values[d + 1]
        BY <1>4, <4>2
      <4>5. d < id + 1
        BY <1>2, <4>2
      <4> QED BY <4>1, <4>2, <4>3, <4>4, <4>5
    <3> QED BY <3>1, <3>2
  <2> QED BY <2>1, <2>2
<1>8. Append(ms, m) \in Seq(Message)
  BY <1>1, <1>2, AppendStays
<1>9. AgreesWith(known, v, Append(ms, m), ids \cup {id}, more)
  <2> HIDE DEF v, m, more
  <2> QED BY <1>4, <1>6, <1>7, <1>8 DEF AgreesWith
<1>10. found_device([values |-> values, queue |-> ms], id) = [values |-> v, queue |-> Append(ms, m)]
  <2> DEFINE fresh == [i \in 1 .. (IF (id + 1) - Len(values) > 0 THEN (id + 1) - Len(values) ELSE 0) |-> DeviceValues]
             io == [values |-> values, queue |-> ms]
  <2>1. fresh = <<DeviceValues>>
    <3>1. (IF (id + 1) - Len(values) > 0 THEN (id + 1) - Len(values) ELSE 0) = 1
      BY <1>2
    <3>2. fresh = [i \in 1 .. 1 |-> DeviceValues]
      BY <3>1
    <3> QED BY <3>2
  <2>2. values \o fresh = v
    <3>1. values \o <<DeviceValues>> = Append(values, DeviceValues)
      BY <1>1, LevelsAtRest
    <3> HIDE DEF fresh
    <3> QED BY <2>1, <3>1
  <2>3. found_device(io, id) = Notify([io EXCEPT !.values = values \o fresh], m)
    BY DEF found_device
  <2>4. [io EXCEPT !.values = values \o fresh] = [values |-> values \o fresh, queue |-> ms]
    <3> DEFINE joined == values \o fresh
    <3> HIDE DEF joined
    <3>1. [io EXCEPT !.values = joined] = [values |-> joined, queue |-> ms]
      BY WithValues
    <3> QED BY <3>1 DEF joined
  <2>5. Notify([values |-> v, queue |-> ms], m) = [values |-> v, queue |-> Append(ms, m)]
    <3> HIDE DEF v, m
    <3> QED BY NotifyIs
  <2> HIDE DEF fresh, m, v
  <2> QED BY <2>2, <2>3, <2>4, <2>5
<1>11. more[id].sources = {}
  BY LevelsAtRest
<1> DEFINE q == Append(ms, m)
           given == ids \cup {id}
<1> HIDE DEF more, v, q, given
<1>12. AgreesWith(known, v, q, given, more)
  BY <1>9 DEF q, given
<1>13. Tells(known, found_device([values |-> values, queue |-> ms], id), id + 1, given, {id})
  BY <1>4, <1>10, <1>11, <1>12 DEF Tells, q
<1> QED BY <1>13 DEF given

\* The row of a device without its source gets one.
LEMMA SourceTells ==
    ASSUME NEW known, NEW values, NEW ms, NEW ids, NEW rows, NEW id \in ids, rows[id].sources = {},
           AgreesWith(known, values, ms, ids, rows)
    PROVE  Tells(known, add_source([values |-> values, queue |-> ms], id, ""), Len(values), ids, {})
<1> DEFINE m == [type |-> "AddSource", id |-> id, path |-> ""]
<1>1. /\ values \in Seq([Code -> Nat]) /\ ms \in Seq(Message) /\ ids \subseteq Nat
      /\ \A d \in ids : d < Len(values)
      /\ rows \in [ids -> Row] /\ Told(known, ms, rows) /\ \A d \in ids : rows[d].level = values[d + 1]
  BY DEF AgreesWith
<1>2. m \in Message /\ m.type = "AddSource" /\ m.id = id /\ m.path = ""
  <2>1. id \in Nat
    BY <1>1
  <2> QED BY <2>1, MessagesOfDevices
<1>3. add_source([values |-> values, queue |-> ms], id, "") = [values |-> values, queue |-> Append(ms, m)]
  <2> HIDE DEF m
  <2>1. add_source([values |-> values, queue |-> ms], id, "") = Notify([values |-> values, queue |-> ms], m)
    BY DEF add_source, m
  <2> QED BY <2>1, NotifyIs
<1> HIDE DEF m
<1>4. Accepts(rows, m)
  BY <1>1, <1>2 DEF Accepts
<1>5. Take(rows, m) = [rows EXCEPT ![id].sources = @ \cup {""}]
  BY <1>2 DEF Take
<1>6. Take(rows, m) \in [ids -> Row] /\ \A d \in ids : Take(rows, m)[d].level = rows[d].level
  <2> DEFINE row == [rows[id] EXCEPT !.sources = @ \cup {""}]
  <2>1. rows[id] \in Row
    BY <1>1
  <2>2. row \in Row /\ row.level = rows[id].level
    BY <2>1, WithSource
  <2>3. Take(rows, m) = [rows EXCEPT ![id] = row]
    BY <1>5
  <2> HIDE DEF row
  <2> QED BY <1>1, <2>2, <2>3
<1>7. Told(known, Append(ms, m), Take(rows, m))
  BY <1>1, <1>2, <1>4, TellOne
<1>8. Append(ms, m) \in Seq(Message)
  BY <1>1, <1>2, AppendStays
<1>9. AgreesWith(known, values, Append(ms, m), ids, Take(rows, m))
  BY <1>1, <1>6, <1>7, <1>8 DEF AgreesWith
<1> DEFINE q == Append(ms, m)
<1> HIDE DEF q
<1> QED BY <1>3, <1>9 DEF q, Tells

\* The row of a device that is lost goes; the others stay, whatever its values are now.
LEMMA LostTells ==
    ASSUME NEW known, NEW values, NEW ms, NEW ids, NEW rows, NEW id \in ids,
           AgreesWith(known, values, ms, ids, rows)
    PROVE  Tells(known, lost_device([values |-> values, queue |-> ms], id), Len(values), ids \ {id}, {})
<1> DEFINE m == [type |-> "DeviceLost", id |-> id]
           v == [values EXCEPT ![id + 1] = DeviceValues]
           fewer == [d \in ids \ {id} |-> rows[d]]
<1>1. /\ values \in Seq([Code -> Nat]) /\ ms \in Seq(Message) /\ ids \subseteq Nat
      /\ \A d \in ids : d < Len(values)
      /\ rows \in [ids -> Row] /\ Told(known, ms, rows) /\ \A d \in ids : rows[d].level = values[d + 1]
  BY DEF AgreesWith
<1>2. m \in Message /\ m.type = "DeviceLost" /\ m.id = id
  <2>1. id \in Nat
    BY <1>1
  <2> QED BY <2>1, MessagesOfDevices
<1>3. /\ v \in Seq([Code -> Nat]) /\ Len(v) = Len(values)
      /\ \A d \in ids \ {id} : v[d + 1] = values[d + 1]
  <2>1. \A d \in ids : d \in Nat /\ d + 1 \in 1 .. Len(values)
    BY <1>1
  <2>2. id + 1 \in 1 .. Len(values) /\ \A d \in ids \ {id} : d + 1 # id + 1
    BY <2>1
  <2>3. /\ v \in Seq([Code -> Nat]) /\ Len(v) = Len(values)
        /\ \A k \in 1 .. Len(values) : v[k] = IF k = id + 1 THEN DeviceValues ELSE values[k]
    BY <1>1, <2>2, LevelsAtRest, PutAt
  <2> HIDE DEF v
  <2> QED BY <2>1, <2>2, <2>3
<1>4. lost_device([values |-> values, queue |-> ms], id) = [values |-> v, queue |-> Append(ms, m)]
  <2> DEFINE io == [values |-> values, queue |-> ms]
  <2>1. id < Len(values) /\ io.values = values
    BY <1>1
  <2>2. lost_device(io, id) = Notify([io EXCEPT !.values = v], m)
    BY <2>1 DEF lost_device
  <2>3. [io EXCEPT !.values = v] = [values |-> v, queue |-> ms]
    <3> HIDE DEF v
    <3> QED BY WithValues
  <2> HIDE DEF m, v
  <2> QED BY <2>2, <2>3, NotifyIs
<1> HIDE DEF m, v
<1>5. Accepts(rows, m) /\ Take(rows, m) = fewer
  <2>1. DOMAIN rows = ids
    BY <1>1
  <2>2. Accepts(rows, m)
    BY <1>2, <2>1 DEF Accepts
  <2>3. Take(rows, m) = Restrict(rows, DOMAIN rows \ {m.id})
    BY <1>2 DEF Take
  <2> QED BY <1>2, <2>1, <2>2, <2>3 DEF Restrict
<1>6. fewer \in [ids \ {id} -> Row] /\ \A d \in ids \ {id} : fewer[d] = rows[d]
  BY <1>1
<1> HIDE DEF fewer
<1>7. Told(known, Append(ms, m), fewer)
  <2>1. Told(known, Append(ms, m), Take(rows, m))
    BY <1>1, <1>2, <1>5, TellOne
  <2> QED BY <1>5, <2>1
<1>8. Append(ms, m) \in Seq(Message)
  BY <1>1, <1>2, AppendStays
<1>9. AgreesWith(known, v, Append(ms, m), ids \ {id}, fewer)
  BY <1>1, <1>3, <1>6, <1>7, <1>8 DEF AgreesWith
<1> DEFINE q == Append(ms, m)
<1> HIDE DEF q
<1> QED BY <1>3, <1>4, <1>9 DEF q, Tells

\* An input that changes nothing is not passed on; one that does changes both sides.
LEMMA InputTells ==
    ASSUME NEW known, NEW values, NEW ms, NEW ids, NEW rows, NEW input \in InputMessage, input.id \in ids,
           AgreesWith(known, values, ms, ids, rows)
    PROVE  Tells(known, dispatch([values |-> values, queue |-> ms], input), Len(values), ids, {})
<1> DEFINE id == input.id
           io == [values |-> values, queue |-> ms]
           level == LevelOf(input)
<1>1. /\ values \in Seq([Code -> Nat]) /\ ms \in Seq(Message) /\ ids \subseteq Nat
      /\ \A d \in ids : d < Len(values)
      /\ rows \in [ids -> Row] /\ Told(known, ms, rows) /\ \A d \in ids : rows[d].level = values[d + 1]
  BY DEF AgreesWith
<1>2. input \in Message /\ input.type = "Input" /\ input.code \in Code /\ level \in Nat
  BY DEF InputMessage, Message, LevelOf
<1>3. id \in Nat /\ id < Len(values) /\ id + 1 \in 1 .. Len(values)
  <2>1. id \in ids
    OBVIOUS
  <2> HIDE DEF id, io, level
  <2>2. id \in Nat /\ id < Len(values)
    BY <1>1, <2>1
  <2>3. Len(values) \in Nat
    BY <1>1
  <2> QED BY <2>2, <2>3
<1>4. Accepts(rows, input)
  <2>1. DOMAIN rows = ids
    BY <1>1
  <2> QED BY <1>2, <2>1 DEF Accepts
<1>5. Append(ms, input) \in Seq(Message)
  BY <1>1, <1>2, AppendStays
<1>6. Told(known, Append(ms, input), Take(rows, input))
  BY <1>1, <1>2, <1>4, TellOne
<1>7. CASE ~Remembered(input)
  <2>1. dispatch(io, input) = Notify(io, input)
    BY <1>7, Zenon DEF dispatch
  <2>2. Notify(io, input) = [values |-> values, queue |-> Append(ms, input)]
    BY NotifyIs
  <2>3. Take(rows, input) = rows
    BY <1>2, <1>7 DEF Take
  <2>4. AgreesWith(known, values, Append(ms, input), ids, rows)
    BY <1>1, <1>5, <1>6, <2>3 DEF AgreesWith
  <2> DEFINE q == Append(ms, input)
  <2> HIDE DEF q
  <2> QED BY <2>1, <2>2, <2>4 DEF q, Tells
<1>8. CASE Remembered(input) /\ values[id + 1][input.code] = level
  <2>1. dispatch(io, input) = io
    BY <1>3, <1>8 DEF dispatch
  <2> QED BY <2>1 DEF Tells
<1>9. CASE Remembered(input) /\ values[id + 1][input.code] # level
  <2> DEFINE v == [values EXCEPT ![id + 1] = [values[id + 1] EXCEPT ![input.code] = level]]
             row == [rows[id] EXCEPT !.level = [rows[id].level EXCEPT ![input.code] = level]]
             others == [rows EXCEPT ![id] = row]
  <2>1. dispatch(io, input) = Notify([io EXCEPT !.values = v], input)
    BY <1>3, <1>9 DEF dispatch
  <2>2. [io EXCEPT !.values = v] = [values |-> v, queue |-> ms]
    <3> HIDE DEF v
    <3> QED BY WithValues
  <2>3. Notify([values |-> v, queue |-> ms], input) = [values |-> v, queue |-> Append(ms, input)]
    <3> HIDE DEF v
    <3> QED BY NotifyIs
  <2>4. Take(rows, input) = others
    BY <1>2, <1>9 DEF Take
  <2>5. rows[id] \in Row
    BY <1>1
  <2>6. values[id + 1] \in [Code -> Nat] /\ rows[id].level = values[id + 1]
    BY <1>1, <1>3
  <2> DEFINE column == [values[id + 1] EXCEPT ![input.code] = level]
  <2>7. column \in [Code -> Nat]
    BY <1>2, <2>6
  <2>8. row \in Row /\ row.level = column
    <3>1. row = [rows[id] EXCEPT !.level = column]
      BY <2>6
    <3> HIDE DEF row, column
    <3> QED BY <2>5, <2>7, <3>1 DEF Row
  <2>9. v = [values EXCEPT ![id + 1] = column]
    OBVIOUS
  <2> HIDE DEF row, column
  <2>10. others \in [ids -> Row] /\ \A d \in ids : others[d] = IF d = id THEN row ELSE rows[d]
    BY <1>1, <2>8
  <2> HIDE DEF v, others
  <2>11. v \in Seq([Code -> Nat]) /\ Len(v) = Len(values) /\ \A d \in ids : v[d + 1] = IF d = id THEN column ELSE values[d + 1]
    <3>1. \A d \in ids : d \in Nat /\ d + 1 \in 1 .. Len(values)
      <4>1. Len(values) \in Nat /\ \A d \in ids : d \in Nat /\ d < Len(values)
        BY <1>1, <1>3
      <4> DEFINE n == Len(values)
      <4> HIDE DEF n, id, io, level
      <4>2. n \in Nat /\ \A d \in ids : d \in Nat /\ d < n
        BY <4>1 DEF n
      <4>3. \A d \in ids : d \in Nat /\ d + 1 \in 1 .. n
        BY <4>2
      <4> QED BY <4>3 DEF n
    <3>2. id + 1 \in 1 .. Len(values) /\ \A d \in ids : d # id => d + 1 # id + 1
      BY <1>3, <3>1
    <3>3. /\ v \in Seq([Code -> Nat]) /\ Len(v) = Len(values)
          /\ \A k \in 1 .. Len(values) : v[k] = IF k = id + 1 THEN column ELSE values[k]
      <4> HIDE DEF id
      <4> QED BY <1>1, <2>7, <2>9, <3>2, PutAt
    <3> QED BY <3>1, <3>2, <3>3
  <2>12. \A d \in ids : others[d].level = v[d + 1]
    BY <1>1, <2>8, <2>10, <2>11
  <2>13. AgreesWith(known, v, Append(ms, input), ids, others)
    BY <1>1, <1>5, <1>6, <2>4, <2>10, <2>11, <2>12 DEF AgreesWith
  <2> DEFINE q == Append(ms, input)
  <2> HIDE DEF q
  <2> QED BY <2>1, <2>2, <2>3, <2>11, <2>13 DEF q, Tells
<1> QED BY <1>7, <1>8, <1>9

\* What has been popped no longer has to be told.
LEMMA PopTells ==
    ASSUME NEW known, NEW values, NEW ms, NEW ids, NEW rows, ms # <<>>,
           AgreesWith(known, values, ms, ids, rows)
    PROVE  AgreesWith(Take(known, Head(ms)), values, Tail(ms), ids, rows)
<1>1. ms \in Seq(Message) /\ Told(known, ms, rows)
  BY DEF AgreesWith
<1>2. Told(Take(known, Head(ms)), Tail(ms), rows)
  BY <1>1, PopOne
<1>3. Tail(ms) \in Seq(Message)
  BY <1>1
<1> QED BY <1>2, <1>3 DEF AgreesWith

-----------------------------------------------------------------------------
(* The devices of the vector.                                              *)

DeviceRecord == [handle : Handles, id : Nat]

\* No id is there twice, and ids are given out in order.
DevicesShape(devices, next) ==
    /\ devices \in Seq(DeviceRecord)
    /\ next \in Nat /\ next > 0
    /\ \A i \in 1 .. Len(devices) : devices[i].id > 0 /\ devices[i].id < next
    /\ \A i, j \in 1 .. Len(devices) : i # j => devices[i].id # devices[j].id

\* No handle is there twice.
HandlesDistinct(devices) == \A i, j \in 1 .. Len(devices) : i # j => devices[i].handle # devices[j].handle

HandlesOf(devices) == {devices[i].handle : i \in 1 .. Len(devices)}
IdsOf(devices) == {devices[i].id : i \in 1 .. Len(devices)}
Zero(alive) == IF alive THEN {0} ELSE {}

LEMMA IndexIs ==
    ASSUME NEW h, DevicesShape(devices32, next_id32)
    PROVE  /\ h \notin HandlesOf(devices32) => IndexOf(h) = 0
           /\ h \in HandlesOf(devices32) => IndexOf(h) \in 1 .. Len(devices32) /\ devices32[IndexOf(h)].handle = h
<1> DEFINE found == {i \in 1 .. Len(devices32) : devices32[i].handle = h}
<1>1. Len(devices32) \in Nat
  BY DEF DevicesShape
<1>2. found = {} <=> h \notin HandlesOf(devices32)
  BY DEF HandlesOf
<1>3. IndexOf(h) = IF found = {} THEN 0 ELSE CHOOSE i \in found : \A j \in found : i <= j
  BY DEF IndexOf
<1>4. CASE found = {}
  BY <1>2, <1>3, <1>4
<1>5. CASE found # {}
  <2>1. found \subseteq Nat
    BY <1>1
  <2>2. \E i \in found : \A j \in found : i <= j
    <3> HIDE DEF found
    <3> QED BY <1>5, <2>1, LeastOf
  <2>3. (CHOOSE i \in found : \A j \in found : i <= j) \in found
    <3> HIDE DEF found
    <3> QED BY <2>2
  <2>4. IndexOf(h) \in found
    <3> HIDE DEF found
    <3> QED BY <1>3, <1>5, <2>3
  <2> QED BY <1>2, <1>5, <2>4
<1> QED BY <1>4, <1>5

LEMMA Concatenated ==
    ASSUME NEW S, NEW s \in Seq(S), NEW t \in Seq(S)
    PROVE  /\ s \o t \in Seq(S) /\ Len(s \o t) = Len(s) + Len(t)
           /\ \A k \in 1 .. Len(s) + Len(t) : (s \o t)[k] = IF k <= Len(s) THEN s[k] ELSE t[k - Len(s)]
OBVIOUS

LEMMA RemovedAt ==
    ASSUME NEW S, NEW s \in Seq(S), NEW i \in 1 .. Len(s)
    PROVE  /\ RemoveAt(s, i) \in Seq(S)
           /\ Len(RemoveAt(s, i)) = Len(s) - 1
           /\ \A k \in 1 .. Len(s) - 1 : RemoveAt(s, i)[k] = s[IF k < i THEN k ELSE k + 1]
<1> DEFINE a == SubSeq(s, 1, i - 1)
           b == SubSeq(s, i + 1, Len(s))
<1>1. a \in Seq(S) /\ Len(a) = i - 1 /\ \A k \in 1 .. i - 1 : a[k] = s[k]
  OBVIOUS
<1>2. b \in Seq(S) /\ Len(b) = Len(s) - i /\ \A k \in 1 .. Len(s) - i : b[k] = s[k + i]
  OBVIOUS
<1> HIDE DEF a, b
<1>3. /\ a \o b \in Seq(S) /\ Len(a \o b) = Len(s) - 1
      /\ \A k \in 1 .. Len(s) - 1 : (a \o b)[k] = IF k <= i - 1 THEN a[k] ELSE b[k - (i - 1)]
  <2>0. a \in Seq(S) /\ b \in Seq(S)
    BY <1>1, <1>2
  <2>1. a \o b \in Seq(S) /\ Len(a \o b) = Len(a) + Len(b)
    BY <2>0, Concatenated
  <2>2. \A k \in 1 .. Len(a) + Len(b) : (a \o b)[k] = IF k <= Len(a) THEN a[k] ELSE b[k - Len(a)]
    BY <2>0, Concatenated
  <2>3. Len(s) \in Nat /\ i \in Nat /\ Len(a) + Len(b) = Len(s) - 1
    BY <1>1, <1>2
  <2> QED BY <1>1, <2>1, <2>2, <2>3
<1>4. ASSUME NEW k \in 1 .. Len(s) - 1
      PROVE  (a \o b)[k] = s[IF k < i THEN k ELSE k + 1]
  <2>1. CASE k < i
    BY <1>1, <1>3, <2>1
  <2>2. CASE ~(k < i)
    <3>1. k - (i - 1) \in 1 .. Len(s) - i /\ (k - (i - 1)) + i = k + 1 /\ ~(k <= i - 1)
      BY <2>2
    <3> QED BY <1>2, <1>3, <2>2, <3>1
  <2> QED BY <2>1, <2>2
<1>5. RemoveAt(s, i) = a \o b
  BY DEF RemoveAt, a, b
<1> QED BY <1>3, <1>4, <1>5

DeviceOf(h, id) == [handle |-> h, id |-> id]
IsAdded(more, devices, h, next) == more = Append(devices, DeviceOf(h, next))

LEMMA DeviceAdded ==
    ASSUME NEW devices, NEW next, DevicesShape(devices, next), NEW h \in Handles,
           NEW more, IsAdded(more, devices, h, next)
    PROVE  /\ DevicesShape(more, next + 1)
           /\ HandlesOf(more) = HandlesOf(devices) \cup {h}
           /\ IdsOf(more) = IdsOf(devices) \cup {next}
           /\ HandlesDistinct(devices) /\ h \notin HandlesOf(devices) => HandlesDistinct(more)
<1> DEFINE d == DeviceOf(h, next)
           n == Len(devices)
<1>1. devices \in Seq(DeviceRecord) /\ next \in Nat /\ next > 0 /\ n \in Nat
  BY DEF DevicesShape
<1>2. d \in DeviceRecord /\ d.handle = h /\ d.id = next
  BY <1>1 DEF DeviceRecord, DeviceOf
<1>0. more = Append(devices, d)
  BY DEF IsAdded
<1> HIDE DEF d
<1>3. more \in Seq(DeviceRecord) /\ Len(more) = n + 1 /\ more[n + 1] = d /\ \A i \in 1 .. n : more[i] = devices[i]
  BY <1>0, <1>1, <1>2
<1>4. \A i \in 1 .. n : devices[i] \in DeviceRecord /\ devices[i].id > 0 /\ devices[i].id < next /\ devices[i].id \in Nat
  <2>1. \A i \in 1 .. n : devices[i].id > 0 /\ devices[i].id < next
    BY DEF DevicesShape
  <2>2. \A i \in 1 .. n : devices[i] \in DeviceRecord
    BY <1>1
  <2>3. \A i \in 1 .. n : devices[i].id \in Nat
    BY <2>2 DEF DeviceRecord
  <2> QED BY <2>1, <2>2, <2>3
<1>5. \A i, j \in 1 .. n : i # j => devices[i].id # devices[j].id
  BY DEF DevicesShape
<1>6. h \notin HandlesOf(devices) => \A i \in 1 .. n : devices[i].handle # h
  BY DEF HandlesOf
<1>14. HandlesDistinct(devices) => \A i, j \in 1 .. n : i # j => devices[i].handle # devices[j].handle
  BY DEF HandlesDistinct
<1> HIDE DEF n
<1>7. \A i \in 1 .. n + 1 : i = n + 1 \/ i \in 1 .. n
  BY <1>1
<1>8. ASSUME NEW i \in 1 .. n + 1
      PROVE  more[i].id > 0 /\ more[i].id < next + 1
  BY <1>1, <1>2, <1>3, <1>4, <1>7
<1>9. ASSUME NEW i \in 1 .. n + 1, NEW j \in 1 .. n + 1, i # j
      PROVE  more[i].id # more[j].id
  <2>1. CASE i = n + 1
    <3>1. j \in 1 .. n /\ more[j] = devices[j] /\ more[i] = d
      BY <1>3, <1>7, <1>9, <2>1
    <3> QED BY <1>1, <1>2, <1>4, <3>1
  <2>2. CASE j = n + 1
    <3>1. i \in 1 .. n /\ more[i] = devices[i] /\ more[j] = d
      BY <1>3, <1>7, <1>9, <2>2
    <3> QED BY <1>1, <1>2, <1>4, <3>1
  <2>3. CASE i # n + 1 /\ j # n + 1
    <3>1. i \in 1 .. n /\ j \in 1 .. n /\ more[i] = devices[i] /\ more[j] = devices[j]
      BY <1>3, <1>7, <2>3
    <3> QED BY <1>5, <1>9, <3>1
  <2> QED BY <2>1, <2>2, <2>3
<1>15. ASSUME HandlesDistinct(devices), h \notin HandlesOf(devices), NEW i \in 1 .. n + 1, NEW j \in 1 .. n + 1, i # j
       PROVE  more[i].handle # more[j].handle
  <2>1. CASE i = n + 1
    <3>1. j \in 1 .. n /\ more[j] = devices[j] /\ more[i] = d
      BY <1>3, <1>7, <1>15, <2>1
    <3> QED BY <1>2, <1>6, <1>15, <3>1
  <2>2. CASE j = n + 1
    <3>1. i \in 1 .. n /\ more[i] = devices[i] /\ more[j] = d
      BY <1>3, <1>7, <1>15, <2>2
    <3> QED BY <1>2, <1>6, <1>15, <3>1
  <2>3. CASE i # n + 1 /\ j # n + 1
    <3>1. i \in 1 .. n /\ j \in 1 .. n /\ more[i] = devices[i] /\ more[j] = devices[j]
      BY <1>3, <1>7, <2>3
    <3> QED BY <1>14, <1>15, <3>1
  <2> QED BY <2>1, <2>2, <2>3
<1>10. n + 1 \in 1 .. n + 1 /\ \A i \in 1 .. n : i \in 1 .. n + 1
  BY <1>1
<1>11. HandlesOf(more) = HandlesOf(devices) \cup {h}
  <2>1. HandlesOf(more) = {more[i].handle : i \in 1 .. n + 1} /\ HandlesOf(devices) = {devices[i].handle : i \in 1 .. n}
    BY <1>3 DEF HandlesOf, n
  <2> QED BY <1>2, <1>3, <1>7, <1>10, <2>1
<1>12. IdsOf(more) = IdsOf(devices) \cup {next}
  <2>1. IdsOf(more) = {more[i].id : i \in 1 .. n + 1} /\ IdsOf(devices) = {devices[i].id : i \in 1 .. n}
    BY <1>3 DEF IdsOf, n
  <2> QED BY <1>2, <1>3, <1>7, <1>10, <2>1
<1>13. DevicesShape(more, next + 1)
  BY <1>1, <1>3, <1>8, <1>9 DEF DevicesShape
<1>16. HandlesDistinct(devices) /\ h \notin HandlesOf(devices) => HandlesDistinct(more)
  <2>1. Len(more) = n + 1
    BY <1>3
  <2> QED BY <1>15, <2>1 DEF HandlesDistinct
<1> QED BY <1>11, <1>12, <1>13, <1>16

LEMMA DeviceRemoved ==
    ASSUME NEW devices, NEW next, DevicesShape(devices, next), NEW i \in 1 .. Len(devices)
    PROVE  /\ DevicesShape(RemoveAt(devices, i), next)
           /\ IdsOf(RemoveAt(devices, i)) = IdsOf(devices) \ {devices[i].id}
           /\ HandlesDistinct(devices) =>
                /\ HandlesDistinct(RemoveAt(devices, i))
                /\ HandlesOf(RemoveAt(devices, i)) = HandlesOf(devices) \ {devices[i].handle}
<1> DEFINE fewer == RemoveAt(devices, i)
           n == Len(devices)
           was(k) == IF k < i THEN k ELSE k + 1
<1>1. devices \in Seq(DeviceRecord) /\ next \in Nat /\ next > 0 /\ n \in Nat
  BY DEF DevicesShape
<1>2. fewer \in Seq(DeviceRecord) /\ Len(fewer) = n - 1 /\ \A k \in 1 .. n - 1 : fewer[k] = devices[was(k)]
  BY <1>1, RemovedAt
<1>3. \A k \in 1 .. n : devices[k].id > 0 /\ devices[k].id < next
  BY DEF DevicesShape
<1>4. \A k, j \in 1 .. n : k # j => devices[k].id # devices[j].id
  BY DEF DevicesShape
<1>14. HandlesDistinct(devices) => \A k, j \in 1 .. n : k # j => devices[k].handle # devices[j].handle
  BY DEF HandlesDistinct
<1>5. \A k \in 1 .. n - 1 : was(k) \in 1 .. n /\ was(k) # i
  BY <1>1
<1>6. \A k, j \in 1 .. n - 1 : k # j => was(k) # was(j)
  BY <1>1
<1>7. \A j \in 1 .. n : j # i => \E k \in 1 .. n - 1 : j = was(k)
  <2> TAKE j \in 1 .. n
  <2>1. CASE j < i
    <3>1. j \in 1 .. n - 1 /\ j = was(j)
      BY <1>1, <2>1
    <3> QED BY <3>1
  <2>2. CASE j > i
    <3>1. j - 1 \in 1 .. n - 1 /\ j = was(j - 1)
      BY <1>1, <2>2
    <3> QED BY <3>1
  <2> QED BY <1>1, <2>1, <2>2
<1>8. i \in 1 .. n
  OBVIOUS
<1> HIDE DEF fewer, n, was
<1>9. \A k \in 1 .. n - 1 : fewer[k].id > 0 /\ fewer[k].id < next
  BY <1>2, <1>3, <1>5
<1>10. \A k, j \in 1 .. n - 1 : k # j => fewer[k].id # fewer[j].id
  BY <1>2, <1>4, <1>5, <1>6
<1>15. ASSUME HandlesDistinct(devices)
       PROVE  HandlesDistinct(fewer)
  <2>1. \A k, j \in 1 .. n - 1 : k # j => fewer[k].handle # fewer[j].handle
    BY <1>2, <1>5, <1>6, <1>14, <1>15
  <2>2. Len(fewer) = n - 1
    BY <1>2
  <2> QED BY <2>1, <2>2 DEF HandlesDistinct
<1>11. ASSUME HandlesDistinct(devices)
       PROVE  HandlesOf(fewer) = HandlesOf(devices) \ {devices[i].handle}
  <2>1. HandlesOf(fewer) = {fewer[k].handle : k \in 1 .. n - 1} /\ HandlesOf(devices) = {devices[k].handle : k \in 1 .. n}
    BY <1>2 DEF HandlesOf, n
  <2>2. ASSUME NEW k \in 1 .. n - 1
        PROVE  fewer[k].handle \in HandlesOf(devices) /\ fewer[k].handle # devices[i].handle
    <3>1. fewer[k] = devices[was(k)] /\ was(k) \in 1 .. n /\ was(k) # i
      BY <1>2, <1>5
    <3> QED BY <1>8, <1>11, <1>14, <2>1, <3>1
  <2>3. ASSUME NEW j \in 1 .. n, devices[j].handle # devices[i].handle
        PROVE  devices[j].handle \in HandlesOf(fewer)
    <3>1. PICK k \in 1 .. n - 1 : j = was(k)
      BY <1>7, <2>3
    <3>2. fewer[k] = devices[j]
      BY <1>2, <3>1
    <3> QED BY <2>1, <3>2
  <2> QED BY <2>1, <2>2, <2>3
<1>12. IdsOf(fewer) = IdsOf(devices) \ {devices[i].id}
  <2>1. IdsOf(fewer) = {fewer[k].id : k \in 1 .. n - 1} /\ IdsOf(devices) = {devices[k].id : k \in 1 .. n}
    BY <1>2 DEF IdsOf, n
  <2>2. ASSUME NEW k \in 1 .. n - 1
        PROVE  fewer[k].id \in IdsOf(devices) /\ fewer[k].id # devices[i].id
    <3>1. fewer[k] = devices[was(k)] /\ was(k) \in 1 .. n /\ was(k) # i
      BY <1>2, <1>5
    <3> QED BY <1>4, <1>8, <2>1, <3>1
  <2>3. ASSUME NEW j \in 1 .. n, devices[j].id # devices[i].id
        PROVE  devices[j].id \in IdsOf(fewer)
    <3>1. PICK k \in 1 .. n - 1 : j = was(k)
      BY <1>7, <2>3
    <3>2. fewer[k] = devices[j]
      BY <1>2, <3>1
    <3> QED BY <2>1, <3>2
  <2> QED BY <2>1, <2>2, <2>3
<1>13. DevicesShape(fewer, next)
  BY <1>1, <1>2, <1>9, <1>10 DEF DevicesShape
<1> QED BY <1>11, <1>12, <1>13, <1>15 DEF fewer

-----------------------------------------------------------------------------
(* The messages that the window has not got yet.                           *)

Change == [change : {"GIDC_ARRIVAL", "GIDC_REMOVAL"}, handle : Handles]

\* p is what is plugged in after each of the messages.
Foreseen(p, changes, first, last) ==
    /\ p[0] = first
    /\ p[Len(changes)] = last
    /\ \A k \in 1 .. Len(changes) :
        IF changes[k].change = "GIDC_ARRIVAL"
        THEN changes[k].handle \notin p[k - 1] /\ p[k] = p[k - 1] \cup {changes[k].handle}
        ELSE changes[k].handle \in p[k - 1] /\ p[k] = p[k - 1] \ {changes[k].handle}

Follows(changes, first, last) == \E p : Foreseen(p, changes, first, last)

LEMMA NothingFollows ==
    ASSUME NEW first
    PROVE  Follows(<<>>, first, first)
<1> DEFINE p == [k \in {0} |-> first]
<1>1. Len(<<>>) = 0 /\ p[0] = first
  OBVIOUS
<1>2. Foreseen(p, <<>>, first, first)
  BY <1>1 DEF Foreseen
<1> QED BY <1>2 DEF Follows

LEMMA OneMoreFollows ==
    ASSUME NEW changes \in Seq(Change), NEW first, NEW last, Follows(changes, first, last), NEW c \in Change, NEW then,
           IF c.change = "GIDC_ARRIVAL" THEN c.handle \notin last /\ then = last \cup {c.handle}
                                        ELSE c.handle \in last /\ then = last \ {c.handle}
    PROVE  Append(changes, c) \in Seq(Change) /\ Follows(Append(changes, c), first, then)
<1> DEFINE n == Len(changes)
           more == Append(changes, c)
<1>1. PICK p : Foreseen(p, changes, first, last)
  BY DEF Follows
<1> DEFINE q == [k \in 0 .. n + 1 |-> IF k = n + 1 THEN then ELSE p[k]]
<1>2. n \in Nat /\ more \in Seq(Change) /\ Len(more) = n + 1 /\ more[n + 1] = c /\ \A k \in 1 .. n : more[k] = changes[k]
  BY AppendStays
<1> HIDE DEF more
<1>3. p[0] = first /\ p[n] = last
  BY <1>1 DEF Foreseen
<1>4. q[n + 1] = then /\ \A k \in 0 .. n : q[k] = p[k]
  BY <1>2
<1> HIDE DEF q
<1>5. q[0] = first /\ q[n] = last
  <2> HIDE DEF n
  <2> QED BY <1>2, <1>3, <1>4
<1>6. ASSUME NEW k \in 1 .. n + 1
      PROVE  IF more[k].change = "GIDC_ARRIVAL"
             THEN more[k].handle \notin q[k - 1] /\ q[k] = q[k - 1] \cup {more[k].handle}
             ELSE more[k].handle \in q[k - 1] /\ q[k] = q[k - 1] \ {more[k].handle}
  <2>1. CASE k = n + 1
    <3>1. k - 1 = n /\ more[k] = c /\ q[k] = then
      BY <1>2, <1>4, <2>1
    <3> QED BY <1>5, <3>1
  <2>2. CASE k # n + 1
    <3>1. k \in 1 .. n /\ k - 1 \in 0 .. n /\ k \in 0 .. n
      BY <1>2, <2>2
    <3>2. more[k] = changes[k] /\ q[k] = p[k] /\ q[k - 1] = p[k - 1]
      BY <1>2, <1>4, <3>1
    <3> QED BY <1>1, <3>1, <3>2 DEF Foreseen
  <2> QED BY <2>1, <2>2
<1>7. Foreseen(q, more, first, then)
  <2>1. Len(more) = n + 1
    BY <1>2
  <2> QED BY <1>4, <1>5, <1>6, <2>1 DEF Foreseen
<1>8. more \in Seq(Change) /\ Follows(more, first, then)
  BY <1>2, <1>7 DEF Follows
<1> QED BY <1>8 DEF more

LEMMA RestFollows ==
    ASSUME NEW changes \in Seq(Change), NEW first, NEW last, Follows(changes, first, last), changes # <<>>
    PROVE  /\ Tail(changes) \in Seq(Change)
           /\ Head(changes) \in Change
           /\ IF Head(changes).change = "GIDC_ARRIVAL"
              THEN Head(changes).handle \notin first /\ Follows(Tail(changes), first \cup {Head(changes).handle}, last)
              ELSE Head(changes).handle \in first /\ Follows(Tail(changes), first \ {Head(changes).handle}, last)
<1> DEFINE n == Len(changes)
           rest == Tail(changes)
           c == changes[1]
<1>1. PICK p : Foreseen(p, changes, first, last)
  BY DEF Follows
<1> DEFINE q == [k \in 0 .. n - 1 |-> p[k + 1]]
<1>2. /\ n \in Nat /\ n > 0 /\ rest \in Seq(Change) /\ Len(rest) = n - 1 /\ \A k \in 1 .. n - 1 : rest[k] = changes[k + 1]
      /\ Head(changes) = c /\ c \in Change
  OBVIOUS
<1>3. p[0] = first /\ p[n] = last
  BY <1>1 DEF Foreseen
<1>4. \A k \in 1 .. n : IF changes[k].change = "GIDC_ARRIVAL"
                        THEN changes[k].handle \notin p[k - 1] /\ p[k] = p[k - 1] \cup {changes[k].handle}
                        ELSE changes[k].handle \in p[k - 1] /\ p[k] = p[k - 1] \ {changes[k].handle}
  BY <1>1 DEF Foreseen
<1>5. \A k \in 0 .. n - 1 : q[k] = p[k + 1]
  OBVIOUS
<1> HIDE DEF q, rest, n
<1>6. q[n - 1] = last /\ q[0] = p[1]
  <2>1. n - 1 \in 0 .. n - 1 /\ (n - 1) + 1 = n /\ 0 \in 0 .. n - 1 /\ 0 + 1 = 1
    BY <1>2
  <2> QED BY <1>3, <1>5, <2>1
<1>7. IF c.change = "GIDC_ARRIVAL" THEN c.handle \notin first /\ p[1] = first \cup {c.handle}
                                   ELSE c.handle \in first /\ p[1] = first \ {c.handle}
  <2>1. 1 \in 1 .. n /\ 1 - 1 = 0
    BY <1>2
  <2> QED BY <1>3, <1>4, <2>1
<1>8. ASSUME NEW k \in 1 .. n - 1
      PROVE  IF rest[k].change = "GIDC_ARRIVAL"
             THEN rest[k].handle \notin q[k - 1] /\ q[k] = q[k - 1] \cup {rest[k].handle}
             ELSE rest[k].handle \in q[k - 1] /\ q[k] = q[k - 1] \ {rest[k].handle}
  <2>1. k + 1 \in 1 .. n /\ (k + 1) - 1 = k /\ k \in 0 .. n - 1 /\ k - 1 \in 0 .. n - 1 /\ (k - 1) + 1 = k
    BY <1>2
  <2>2. rest[k] = changes[k + 1] /\ q[k] = p[k + 1] /\ q[k - 1] = p[k]
    BY <1>2, <1>5, <2>1
  <2>3. IF changes[k + 1].change = "GIDC_ARRIVAL"
        THEN changes[k + 1].handle \notin p[k] /\ p[k + 1] = p[k] \cup {changes[k + 1].handle}
        ELSE changes[k + 1].handle \in p[k] /\ p[k + 1] = p[k] \ {changes[k + 1].handle}
    BY <1>4, <2>1
  <2> QED BY <2>2, <2>3
<1>9. Foreseen(q, rest, p[1], last)
  <2>1. Len(rest) = n - 1
    BY <1>2
  <2> QED BY <1>6, <1>8, <2>1 DEF Foreseen
<1>10. Follows(rest, p[1], last)
  BY <1>9 DEF Follows
<1>11. CASE c.change = "GIDC_ARRIVAL"
  BY <1>2, <1>7, <1>10, <1>11 DEF rest
<1>12. CASE c.change # "GIDC_ARRIVAL"
  BY <1>2, <1>7, <1>10, <1>12 DEF rest
<1> QED BY <1>11, <1>12

\* RegisterRawInputDevices tells of each device there is, once.
LEMMA RegisteredFollows ==
    ASSUME NEW there, there \subseteq Handles
    PROVE  RegisterRawInputDevices(there) \in Seq(Change) /\ Follows(RegisterRawInputDevices(there), {}, there)
<1> DEFINE n == Cardinality(there)
           s == SetToSeq(there)
           changes == [i \in 1 .. n |-> [change |-> "GIDC_ARRIVAL", handle |-> s[i]]]
           p == [k \in 0 .. n |-> {s[i] : i \in 1 .. k}]
<1>1. IsFiniteSet(there)
  BY HandlesAssumption, FS_Subset
<1>2. n \in Nat
  BY <1>1, FS_CardinalityType
<1>3. \E f \in [1 .. n -> there] : IsInjective(f)
  <2> HIDE DEF n
  <2>1. ExistsBijection(1 .. n, there)
    BY <1>1, FS_CardinalityType DEF n
  <2>2. PICK f : f \in Bijection(1 .. n, there)
    BY <2>1, Fun_ExistsBij
  <2>3. f \in Injection(1 .. n, there)
    BY <2>2, Fun_BijectionProperties
  <2> QED BY <2>3 DEF Injection
<1>4. s \in [1 .. n -> there] /\ IsInjective(s)
  <2>1. s = CHOOSE f \in [1 .. n -> there] : IsInjective(f)
    BY DEF SetToSeq
  <2> HIDE DEF s, n
  <2> QED BY <1>3, <2>1
<1> HIDE DEF s
<1>5. s \in Injection(1 .. n, there)
  BY <1>4 DEF Injection
<1>6. s \in Surjection(1 .. n, there)
  <2>1. Cardinality(1 .. n) = Cardinality(there)
    <3> HIDE DEF n
    <3>1. Cardinality(1 .. n) = n
      BY <1>2, FS_Interval
    <3> QED BY <3>1 DEF n
  <2> HIDE DEF n
  <2> QED BY <1>1, <1>5, <2>1, FS_Injection
<1> HIDE DEF n
<1>7. /\ \A x, y \in 1 .. n : s[x] = s[y] => x = y
      /\ \A x \in there : \E i \in 1 .. n : s[i] = x
      /\ \A i \in 1 .. n : s[i] \in Handles
  <2>1. \A x, y \in 1 .. n : s[x] = s[y] => x = y
    BY <1>5, Fun_InjectionProperties
  <2>2. \A x \in there : \E i \in 1 .. n : s[i] = x
    <3> HIDE DEF changes, p
    <3> QED BY <1>6 DEF Surjection
  <2>3. \A i \in 1 .. n : s[i] \in Handles
    BY <1>4
  <2> QED BY <2>1, <2>2, <2>3
<1>8. RegisterRawInputDevices(there) = changes
  BY DEF RegisterRawInputDevices, n, s
<1>9. changes \in Seq(Change) /\ Len(changes) = n /\ \A k \in 1 .. n : changes[k].change = "GIDC_ARRIVAL" /\ changes[k].handle = s[k]
  BY <1>2, <1>7 DEF Change
<1>10. \A k \in 0 .. n : p[k] = {s[i] : i \in 1 .. k}
  OBVIOUS
<1> HIDE DEF changes, p
<1>11. p[0] = {} /\ p[n] = there
  <2>1. 0 \in 0 .. n /\ n \in 0 .. n /\ 1 .. 0 = {}
    BY <1>2
  <2>2. \A i \in 1 .. n : s[i] \in there
    BY <1>4
  <2>3. p[n] = {s[i] : i \in 1 .. n} /\ p[0] = {s[i] : i \in 1 .. 0}
    BY <1>10, <2>1
  <2>4. {s[i] : i \in 1 .. n} = there
    BY <1>7, <2>2
  <2> QED BY <2>1, <2>3, <2>4
<1>12. ASSUME NEW k \in 1 .. n
       PROVE  changes[k].handle \notin p[k - 1] /\ p[k] = p[k - 1] \cup {changes[k].handle}
  <2>1. k \in 0 .. n /\ k - 1 \in 0 .. n /\ 1 .. k = (1 .. k - 1) \cup {k} /\ k \notin 1 .. k - 1 /\ \A i \in 1 .. k : i \in 1 .. n
    BY <1>2
  <2>2. p[k] = {s[i] : i \in 1 .. k} /\ p[k - 1] = {s[i] : i \in 1 .. k - 1}
    BY <1>10, <2>1
  <2>3. p[k] = p[k - 1] \cup {s[k]}
    BY <2>1, <2>2
  <2>4. s[k] \notin p[k - 1]
    BY <1>7, <2>1, <2>2
  <2> QED BY <1>9, <2>3, <2>4
<1>13. Foreseen(p, changes, {}, there)
  BY <1>9, <1>11, <1>12 DEF Foreseen
<1>14. Follows(changes, {}, there)
  BY <1>13 DEF Follows
<1> QED BY <1>8, <1>9, <1>14

-----------------------------------------------------------------------------
(* Losing all devices.                                                     *)

\* f is io32 after each of the first n devices was lost.
IsLosing(f, n) ==
    f = [k \in 0 .. n |-> IF k = 0 THEN io32 ELSE lost_device(f[k - 1], devices32[Len(devices32) - k + 1].id)]

LEMMA LosingExists ==
    ASSUME NEW n \in Nat
    PROVE  \E f : IsLosing(f, n)
<1> DEFINE T == {m \in Nat : ~\E f : IsLosing(f, m)}
           lost(io, k) == lost_device(io, devices32[Len(devices32) - k + 1].id)
<1>0. \A f, m : IsLosing(f, m) <=> f = [k \in 0 .. m |-> IF k = 0 THEN io32 ELSE lost(f[k - 1], k)]
  BY Zenon DEF IsLosing
<1> HIDE DEF lost
<1>1. SUFFICES ASSUME T # {} PROVE FALSE
  OBVIOUS
<1>2. PICK m \in T : \A l \in T : m <= l
  BY <1>1, LeastOf
<1>3. CASE m = 0
  <2> DEFINE f == [k \in {0} |-> io32]
  <2>1. 0 .. 0 = {0}
    OBVIOUS
  <2>2. f = [k \in 0 .. 0 |-> IF k = 0 THEN io32 ELSE lost(f[k - 1], k)]
    BY <2>1
  <2>3. IsLosing(f, 0)
    BY <1>0, <2>2, Zenon
  <2> QED BY <1>2, <1>3, <2>3
<1>4. CASE m # 0
  <2>1. m \in Nat /\ m - 1 \in Nat /\ m - 1 \notin T
    BY <1>2, <1>4
  <2>2. PICK g : IsLosing(g, m - 1)
    BY <2>1
  <2> DEFINE f == [k \in 0 .. m |-> IF k = m THEN lost(g[m - 1], m) ELSE g[k]]
  <2>3. g = [k \in 0 .. m - 1 |-> IF k = 0 THEN io32 ELSE lost(g[k - 1], k)]
    BY <1>0, <2>2, Zenon
  <2>4. ASSUME NEW k \in 0 .. m
        PROVE  f[k] = IF k = 0 THEN io32 ELSE lost(f[k - 1], k)
    <3>1. CASE k = m
      <4>1. k - 1 \in 0 .. m /\ k - 1 # m /\ k # 0
        BY <1>4, <2>1, <3>1
      <4>2. f[k - 1] = g[m - 1]
        BY <3>1, <4>1
      <4> QED BY <3>1, <4>1, <4>2
    <3>2. CASE k # m /\ k = 0
      <4>1. 0 \in 0 .. m - 1
        BY <2>1
      <4>2. g[0] = io32
        BY <2>3, <4>1
      <4> QED BY <3>2, <4>2
    <3>3. CASE k # m /\ k # 0
      <4>1. k \in 0 .. m - 1 /\ k - 1 \in 0 .. m /\ k - 1 # m /\ k # 0
        BY <2>1, <3>3
      <4>2. g[k] = lost(g[k - 1], k)
        BY <2>3, <4>1
      <4>3. f[k - 1] = g[k - 1] /\ f[k] = g[k]
        BY <3>3, <4>1
      <4> QED BY <4>1, <4>2, <4>3
    <3> QED BY <3>1, <3>2, <3>3
  <2>5. f = [k \in 0 .. m |-> f[k]]
    OBVIOUS
  <2> HIDE DEF f
  <2>6. f = [k \in 0 .. m |-> IF k = 0 THEN io32 ELSE lost(f[k - 1], k)]
    BY <2>4, <2>5, Zenon
  <2>7. IsLosing(f, m)
    BY <1>0, <2>6, Zenon
  <2> QED BY <1>2, <2>7
<1> QED BY <1>3, <1>4

LEMMA LosingIs ==
    ASSUME Len(devices32) \in Nat
    PROVE  /\ Losing[0] = io32
           /\ \A k \in 1 .. Len(devices32) : Losing[k] = lost_device(Losing[k - 1], devices32[Len(devices32) - k + 1].id)
<1> DEFINE n == Len(devices32)
           f == CHOOSE g : IsLosing(g, n)
           lost(io, k) == lost_device(io, devices32[Len(devices32) - k + 1].id)
<1>1. IsLosing(f, n)
  <2> HIDE DEF n
  <2>1. n \in Nat
    BY DEF n
  <2>2. \E g : IsLosing(g, n)
    BY <2>1, LosingExists
  <2> QED BY <2>2, Zenon
<1>2. Losing = f
  BY Zenon DEF Losing, IsLosing
<1> HIDE DEF f
<1>3. f = [k \in 0 .. n |-> IF k = 0 THEN io32 ELSE lost(f[k - 1], k)]
  BY <1>1, Zenon DEF IsLosing
<1>4. 0 \in 0 .. n /\ \A k \in 1 .. n : k \in 0 .. n /\ k # 0
  OBVIOUS
<1> HIDE DEF n, lost
<1>5. \A k \in 0 .. n : f[k] = IF k = 0 THEN io32 ELSE lost(f[k - 1], k)
  BY <1>3
<1>6. f[0] = io32
  BY <1>4, <1>5
<1>7. \A k \in 1 .. n : f[k] = lost(f[k - 1], k)
  BY <1>4, <1>5
<1>8. \A k \in 1 .. n : f[k] = lost_device(f[k - 1], devices32[Len(devices32) - k + 1].id)
  BY <1>7 DEF lost
<1> QED BY <1>2, <1>6, <1>8 DEF n

\* The first m devices.
IdsUpTo(m) == {devices32[i].id : i \in 1 .. m}

LEMMA LostKeeps ==
    ASSUME NEW known, NEW io, NEW ids, NEW id \in ids, Agrees(known, io, ids)
    PROVE  Agrees(known, lost_device(io, id), ids \ {id}) /\ Len(lost_device(io, id).values) = Len(io.values)
<1>1. io = [values |-> io.values, queue |-> io.queue]
  BY DEF Agrees
<1>2. PICK rows : AgreesWith(known, io.values, io.queue, ids, rows)
  BY DEF Agrees
<1> DEFINE values == io.values
           ms == io.queue
<1>3. io = [values |-> values, queue |-> ms]
  BY <1>1
<1>4. AgreesWith(known, values, ms, ids, rows)
  BY <1>2
<1> HIDE DEF values, ms
<1>5. Tells(known, lost_device([values |-> values, queue |-> ms], id), Len(values), ids \ {id}, {})
  BY <1>4, LostTells
<1>6. Tells(known, lost_device(io, id), Len(values), ids \ {id}, {})
  BY <1>3, <1>5
<1> QED BY <1>6, TellsAgrees DEF values

LEMMA LoseAllKeeps ==
    ASSUME DevicesShape(devices32, next_id32), NEW known, NEW rest, rest \subseteq {0},
           Agrees(known, io32, IdsOf(devices32) \cup rest)
    PROVE  Agrees(known, LoseAll, rest) /\ Len(LoseAll.values) = Len(io32.values)
<1> DEFINE n == Len(devices32)
           Good(k) == Agrees(known, Losing[k], IdsUpTo(n - k) \cup rest) /\ Len(Losing[k].values) = Len(io32.values)
           T == {k \in 0 .. n : ~Good(k)}
<1>1. n \in Nat
  BY DEF DevicesShape
<1>2. Losing[0] = io32 /\ \A k \in 1 .. n : Losing[k] = lost_device(Losing[k - 1], devices32[n - k + 1].id)
  BY <1>1, LosingIs
<1>3. \A i \in 1 .. n : devices32[i].id > 0
  BY DEF DevicesShape
<1>4. \A i, j \in 1 .. n : i # j => devices32[i].id # devices32[j].id
  BY DEF DevicesShape
<1> HIDE DEF n
<1>5. T = {}
  <2>1. SUFFICES ASSUME T # {} PROVE FALSE
    OBVIOUS
  <2>2. T \subseteq Nat
    BY <1>1
  <2>3. PICK k \in T : \A j \in T : k <= j
    <3> HIDE DEF T
    <3> QED BY <2>1, <2>2, LeastOf
  <2>4. k \in 0 .. n /\ ~Good(k)
    OBVIOUS
  <2>5. CASE k = 0
    <3>1. n - 0 = n
      BY <1>1
    <3>2. IdsUpTo(n) = IdsOf(devices32)
      BY DEF IdsUpTo, IdsOf, n
    <3>3. Good(0)
      BY <1>2, <3>1, <3>2
    <3> QED BY <2>4, <2>5, <3>3
  <2>6. CASE k # 0
    <3> DEFINE i == n - k + 1
               ids == IdsUpTo(i) \cup rest
    <3>1. k - 1 \in 0 .. n /\ ~(k <= k - 1) /\ k \in 1 .. n /\ i \in 1 .. n /\ n - (k - 1) = i /\ n - k = i - 1 /\ i \in Nat
      BY <1>1, <2>4, <2>6
    <3>2. Good(k - 1)
      BY <2>3, <3>1
    <3> HIDE DEF i
    <3>3. Agrees(known, Losing[k - 1], ids)
      BY <3>1, <3>2
    <3>4. devices32[i].id \in IdsUpTo(i)
      BY <3>1 DEF IdsUpTo
    <3>5. IdsUpTo(i) \ {devices32[i].id} = IdsUpTo(i - 1)
      <4>1. 1 .. i = (1 .. i - 1) \cup {i} /\ i \notin 1 .. i - 1 /\ \A j \in 1 .. i - 1 : j \in 1 .. n /\ j # i
        BY <1>1, <3>1
      <4>2. \A j \in 1 .. i - 1 : devices32[j].id # devices32[i].id
        BY <1>4, <3>1, <4>1
      <4> QED BY <4>1, <4>2 DEF IdsUpTo
    <3>6. devices32[i].id # 0
      BY <1>3, <3>1
    <3>7. ids \ {devices32[i].id} = IdsUpTo(i - 1) \cup rest
      BY <3>5, <3>6
    <3>8. /\ Agrees(known, lost_device(Losing[k - 1], devices32[i].id), ids \ {devices32[i].id})
          /\ Len(lost_device(Losing[k - 1], devices32[i].id).values) = Len(Losing[k - 1].values)
      <4> DEFINE io == Losing[k - 1]
                 id == devices32[i].id
      <4>1. id \in ids /\ Agrees(known, io, ids)
        BY <3>3, <3>4
      <4> HIDE DEF io, id, ids
      <4>2. Agrees(known, lost_device(io, id), ids \ {id}) /\ Len(lost_device(io, id).values) = Len(io.values)
        BY <4>1, LostKeeps
      <4> QED BY <4>2 DEF io, id
    <3>9. Losing[k] = lost_device(Losing[k - 1], devices32[i].id)
      BY <1>2, <3>1 DEF i
    <3>10. Good(k)
      BY <3>1, <3>2, <3>7, <3>8, <3>9
    <3> QED BY <2>4, <3>10
  <2> QED BY <2>5, <2>6
<1>6. Good(n)
  <2>1. n \in 0 .. n
    BY <1>1
  <2> QED BY <1>5, <2>1
<1>7. IdsUpTo(n - n) = {}
  <2>1. 1 .. n - n = {}
    BY <1>1
  <2> QED BY <2>1 DEF IdsUpTo
<1>8. LoseAll = Losing[n]
  BY DEF LoseAll, n
<1> QED BY <1>6, <1>7, <1>8

LEMMA AddedKeeps ==
    ASSUME NEW known, NEW io, NEW ids, NEW id, id = Len(io.values), Agrees(known, io, ids)
    PROVE  /\ Agrees(known, add_source(found_device(io, id), id, ""), ids \cup {id})
           /\ Len(add_source(found_device(io, id), id, "").values) = Len(io.values) + 1
<1>1. io = [values |-> io.values, queue |-> io.queue]
  BY DEF Agrees
<1>2. PICK rows : AgreesWith(known, io.values, io.queue, ids, rows)
  BY DEF Agrees
<1> DEFINE values == io.values
           ms == io.queue
           given == ids \cup {id}
<1>3. io = [values |-> values, queue |-> ms] /\ AgreesWith(known, values, ms, ids, rows) /\ id = Len(values)
  BY <1>1, <1>2
<1> HIDE DEF values, ms
<1>4. Tells(known, found_device([values |-> values, queue |-> ms], id), id + 1, ids \cup {id}, {id})
  BY <1>3, FoundTells
<1>5. id \in given /\ given = ids \cup {id}
  OBVIOUS
<1> HIDE DEF given
<1>6. Tells(known, found_device(io, id), id + 1, given, {id})
  BY <1>3, <1>4, <1>5
<1>7. PICK v, q, others :
          /\ found_device(io, id) = [values |-> v, queue |-> q]
          /\ Len(v) = id + 1
          /\ AgreesWith(known, v, q, given, others)
          /\ others[id].sources = {}
  BY <1>6 DEF Tells
<1>8. Tells(known, add_source([values |-> v, queue |-> q], id, ""), Len(v), given, {})
  BY <1>5, <1>7, SourceTells
<1>9. Tells(known, add_source(found_device(io, id), id, ""), Len(values) + 1, given, {})
  BY <1>3, <1>7, <1>8
<1> QED BY <1>9, TellsAgrees DEF given, values

LEMMA FirstFound == Agrees(<<>>, found_device(NoDevices, 0), {0}) /\ Len(found_device(NoDevices, 0).values) = 1
<1> DEFINE none == [d \in {} |-> FreshRow]
<1>1. AgreesWith(<<>>, <<>>, <<>>, {}, none)
  <2>1. none \in [{} -> Row] /\ none = <<>>
    OBVIOUS
  <2>2. Course(<<>>, <<>>)[0] = <<>>
    BY CourseIs
  <2>3. Told(<<>>, <<>>, none)
    BY <2>1, <2>2 DEF Told
  <2> HIDE DEF none
  <2>4. <<>> \in Seq([Code -> Nat]) /\ <<>> \in Seq(Message) /\ {} \subseteq Nat
    OBVIOUS
  <2> QED BY <2>1, <2>3, <2>4, Zenon DEF AgreesWith
<1> HIDE DEF none
<1>2. Len(<<>>) = 0 /\ {} \cup {0} = {0} /\ 0 + 1 = 1
  OBVIOUS
<1>3. Tells(<<>>, found_device([values |-> <<>>, queue |-> <<>>], 0), 0 + 1, {} \cup {0}, {0})
  BY <1>1, <1>2, FoundTells
<1>4. Tells(<<>>, found_device(NoDevices, 0), 1, {0}, {0})
  BY <1>2, <1>3, Zenon DEF NoDevices
<1> QED BY <1>4, TellsAgrees

LEMMA InputKeeps ==
    ASSUME NEW known, NEW io, NEW ids, NEW input \in InputMessage, input.id \in ids, Agrees(known, io, ids)
    PROVE  Agrees(known, dispatch(io, input), ids) /\ Len(dispatch(io, input).values) = Len(io.values)
<1>1. io = [values |-> io.values, queue |-> io.queue]
  BY DEF Agrees
<1>2. PICK rows : AgreesWith(known, io.values, io.queue, ids, rows)
  BY DEF Agrees
<1> DEFINE values == io.values
           ms == io.queue
<1>3. io = [values |-> values, queue |-> ms] /\ AgreesWith(known, values, ms, ids, rows)
  BY <1>1, <1>2
<1> HIDE DEF values, ms
<1>4. Tells(known, dispatch([values |-> values, queue |-> ms], input), Len(values), ids, {})
  BY <1>3, InputTells
<1>5. Tells(known, dispatch(io, input), Len(values), ids, {})
  BY <1>3, <1>4
<1> QED BY <1>5, TellsAgrees DEF values

LEMMA PopKeeps ==
    ASSUME NEW known, NEW io, NEW ids, io.queue # <<>>, Agrees(known, io, ids)
    PROVE  /\ Agrees(Take(known, Head(io.queue)), [io EXCEPT !.queue = Tail(@)], ids)
           /\ [io EXCEPT !.queue = Tail(@)].values = io.values
<1>1. io = [values |-> io.values, queue |-> io.queue]
  BY DEF Agrees
<1>2. PICK rows : AgreesWith(known, io.values, io.queue, ids, rows)
  BY DEF Agrees
<1> DEFINE values == io.values
           ms == io.queue
           rest == Tail(ms)
<1>3. io = [values |-> values, queue |-> ms] /\ AgreesWith(known, values, ms, ids, rows) /\ ms # <<>>
  BY <1>1, <1>2
<1> HIDE DEF values, ms
<1>4. AgreesWith(Take(known, Head(ms)), values, rest, ids, rows)
  BY <1>3, PopTells
<1>5. [io EXCEPT !.queue = Tail(@)] = [values |-> values, queue |-> rest]
  <2>1. [io EXCEPT !.queue = Tail(@)] = [io EXCEPT !.queue = rest]
    BY DEF ms
  <2> HIDE DEF rest
  <2> QED BY <1>3, <2>1
<1> HIDE DEF rest
<1>6. Agrees(Take(known, Head(ms)), [values |-> values, queue |-> rest], ids)
  BY <1>4 DEF Agrees
<1> QED BY <1>5, <1>6 DEF ms, values

-----------------------------------------------------------------------------
(* The invariant.                                                          *)

\* What devices.cpp keeps agrees with what ui will know, of the devices there are.
DevicesAgree ==
    /\ DevicesShape(devices32, next_id32)
    /\ Agrees(known32, io32, IdsOf(devices32) \cup Zero(alive32))
    /\ Len(io32.values) = next_id32

SwitchesSound ==
    /\ hardware32 \in {0, 1}
    /\ registered = IF hardware32 = 1 THEN TRUE ELSE FALSE
    /\ plugged \subseteq Handles
    /\ messages \in Seq(Change)

\* Until hardware input is switched off with messages under way, there are devices
\* and messages about them only while it is on, and the messages lead from the
\* devices of the vector to those that are plugged in.
ChangesForeseen ==
    ~overlapped32 =>
        /\ ~broken32
        /\ HandlesDistinct(devices32)
        /\ hardware32 = 0 => devices32 = <<>> /\ messages = <<>>
        /\ registered => Follows(messages, HandlesOf(devices32), plugged)

U32Inv == DevicesAgree /\ SwitchesSound /\ ChangesForeseen

LEMMA NoneOf == HandlesOf(<<>>) = {} /\ IdsOf(<<>>) = {} /\ HandlesDistinct(<<>>)
BY DEF HandlesOf, IdsOf, HandlesDistinct

LEMMA NoDevicesShape ==
    ASSUME NEW next \in Nat, next > 0
    PROVE  DevicesShape(<<>>, next)
<1>1. <<>> \in Seq(DeviceRecord) /\ Len(<<>>) = 0 /\ 1 .. 0 = {}
  OBVIOUS
<1> QED BY <1>1 DEF DevicesShape

LEMMA U32InitSound == U32Init => U32Inv
<1> SUFFICES ASSUME U32Init PROVE U32Inv
  OBVIOUS
<1>1. DevicesAgree
  <2>1. DevicesShape(devices32, next_id32)
    BY NoDevicesShape DEF U32Init
  <2>2. IdsOf(devices32) \cup Zero(alive32) = {0}
    BY NoneOf DEF U32Init, Zero
  <2>3. io32 = found_device(NoDevices, 0) /\ known32 = <<>> /\ next_id32 = 1
    BY DEF U32Init
  <2> QED BY <2>1, <2>2, <2>3, FirstFound DEF DevicesAgree
<1>2. plugged \subseteq Handles /\ devices32 = <<>> /\ hardware32 \in {0, 1} /\ registered = (IF hardware32 = 1 THEN TRUE ELSE FALSE)
      /\ messages = (IF registered THEN RegisterRawInputDevices(plugged) ELSE <<>>) /\ ~broken32
  BY DEF U32Init
<1>3. CASE registered
  <2>1. messages = RegisterRawInputDevices(plugged)
    BY <1>2, <1>3
  <2>2. messages \in Seq(Change) /\ Follows(messages, HandlesOf(devices32), plugged)
    BY <1>2, <2>1, NoneOf, RegisteredFollows
  <2>3. SwitchesSound
    BY <1>2, <2>2 DEF SwitchesSound
  <2>4. hardware32 # 0
    BY <1>2, <1>3
  <2>5. ChangesForeseen
    BY <1>2, <2>2, <2>4, NoneOf DEF ChangesForeseen
  <2> QED BY <1>1, <2>3, <2>5 DEF U32Inv
<1>4. CASE ~registered
  <2>1. messages = <<>> /\ <<>> \in Seq(Change)
    BY <1>2, <1>4
  <2> QED BY <1>1, <1>2, <1>4, <2>1, NoneOf DEF U32Inv, ChangesForeseen, SwitchesSound
<1> QED BY <1>3, <1>4

\* A device arrives or goes.
LEMMA Change32Keeps ==
    ASSUME U32Inv, NEW there, NEW change, NEW h \in Handles, Change32(there, change, h),
           \/ h \notin plugged /\ there = plugged \cup {h} /\ change = "GIDC_ARRIVAL"
           \/ h \in plugged /\ there = plugged \ {h} /\ change = "GIDC_REMOVAL"
    PROVE  U32Inv'
<1>1. /\ plugged' = there
      /\ messages' = IF registered THEN Append(messages, [change |-> change, handle |-> h]) ELSE messages
      /\ UNCHANGED <<devices32, next_id32, registered, hardware32, alive32, overlapped32, broken32, io32, known32>>
  BY DEF Change32, u32Devices, u32Switch
<1>2. DevicesAgree'
  BY <1>1 DEF U32Inv, DevicesAgree
<1>3. plugged \subseteq Handles /\ messages \in Seq(Change) /\ there \subseteq Handles
  BY DEF U32Inv, SwitchesSound
<1>4. CASE registered
  <2> DEFINE c == [change |-> change, handle |-> h]
  <2>1. c \in Change /\ c.change = change /\ c.handle = h
    BY DEF Change
  <2>2. messages' = Append(messages, c)
    BY <1>1, <1>4
  <2> HIDE DEF c
  <2>3. IF c.change = "GIDC_ARRIVAL" THEN c.handle \notin plugged /\ there = plugged \cup {c.handle}
                                     ELSE c.handle \in plugged /\ there = plugged \ {c.handle}
    BY <2>1
  <2>4. messages' \in Seq(Change)
    BY <1>3, <2>1, <2>2
  <2>5. Follows(messages, HandlesOf(devices32), plugged) => Follows(messages', HandlesOf(devices32), there)
    BY <1>3, <2>1, <2>2, <2>3, OneMoreFollows
  <2>6. SwitchesSound'
    BY <1>1, <1>3, <2>4 DEF U32Inv, SwitchesSound
  <2>7. hardware32 # 0
    BY <1>4 DEF U32Inv, SwitchesSound
  <2>8. ChangesForeseen'
    BY <1>1, <1>4, <2>5, <2>7 DEF U32Inv, ChangesForeseen
  <2> QED BY <1>2, <2>6, <2>8 DEF U32Inv
<1>5. CASE ~registered
  <2>1. messages' = messages
    BY <1>1, <1>5
  <2> QED BY <1>1, <1>2, <1>3, <1>5, <2>1 DEF U32Inv, SwitchesSound, ChangesForeseen
<1>6. registered \in BOOLEAN
  BY DEF U32Inv, SwitchesSound
<1> QED BY <1>4, <1>5, <1>6

\* The window gets a message.
LEMMA DeviceChangeKeeps == U32Inv /\ WM_INPUT_DEVICE_CHANGE => U32Inv'
<1> SUFFICES ASSUME U32Inv, WM_INPUT_DEVICE_CHANGE PROVE U32Inv'
  OBVIOUS
<1> DEFINE m == Head(messages)
           h == m.handle
           rest == Tail(messages)
           handles == HandlesOf(devices32)
<1>1. /\ messages # <<>> /\ messages' = rest
      /\ UNCHANGED <<plugged, registered, hardware32, alive32, overlapped32, known32>>
  BY DEF WM_INPUT_DEVICE_CHANGE, u32World, u32Switch
<1>2. DevicesShape(devices32, next_id32) /\ Len(io32.values) = next_id32
      /\ Agrees(known32, io32, IdsOf(devices32) \cup Zero(alive32))
  BY DEF U32Inv, DevicesAgree
<1>3. rest \in Seq(Change) /\ m \in Change
  <2>1. messages \in Seq(Change)
    BY DEF U32Inv, SwitchesSound
  <2> QED BY <1>1, <2>1
<1>4. h \in Handles /\ (m.change = "GIDC_ARRIVAL" \/ m.change = "GIDC_REMOVAL")
  BY <1>3 DEF Change
<1>5. SwitchesSound'
  BY <1>1, <1>3 DEF U32Inv, SwitchesSound
<1>6. ASSUME ~overlapped32
      PROVE  /\ ~broken32 /\ HandlesDistinct(devices32) /\ hardware32 # 0
             /\ IF m.change = "GIDC_ARRIVAL"
                THEN h \notin handles /\ Follows(rest, handles \cup {h}, plugged)
                ELSE h \in handles /\ Follows(rest, handles \ {h}, plugged)
  <2>1. ~broken32 /\ HandlesDistinct(devices32) /\ hardware32 # 0 /\ (registered => Follows(messages, handles, plugged))
    BY <1>1, <1>6 DEF U32Inv, ChangesForeseen
  <2>2. registered /\ messages \in Seq(Change)
    BY <2>1 DEF U32Inv, SwitchesSound
  <2>3. Follows(messages, handles, plugged)
    BY <2>1, <2>2
  <2> HIDE DEF handles
  <2> QED BY <1>1, <2>1, <2>2, <2>3, RestFollows
<1>7. \/ m.change = "GIDC_ARRIVAL" /\ add_device32(h)
      \/ m.change = "GIDC_REMOVAL" /\ remove_device32(h)
  BY DEF WM_INPUT_DEVICE_CHANGE
<1> HIDE DEF m, h, rest, handles
<1>8. CASE m.change = "GIDC_ARRIVAL" /\ add_device32(h)
  <2>1. /\ devices32' = Append(devices32, DeviceOf(h, next_id32))
        /\ next_id32' = next_id32 + 1
        /\ io32' = add_source(found_device(io32, next_id32), next_id32, "")
        /\ broken32' = broken32
    BY <1>8 DEF add_device32, DeviceOf
  <2>2. /\ DevicesShape(devices32', next_id32 + 1)
        /\ HandlesOf(devices32') = handles \cup {h}
        /\ IdsOf(devices32') = IdsOf(devices32) \cup {next_id32}
        /\ HandlesDistinct(devices32) /\ h \notin handles => HandlesDistinct(devices32')
    <3> DEFINE more == devices32'
    <3>1. IsAdded(more, devices32, h, next_id32) /\ h \in Handles
      BY <1>4, <2>1 DEF IsAdded
    <3> HIDE DEF more
    <3>2. /\ DevicesShape(more, next_id32 + 1)
          /\ HandlesOf(more) = HandlesOf(devices32) \cup {h}
          /\ IdsOf(more) = IdsOf(devices32) \cup {next_id32}
          /\ HandlesDistinct(devices32) /\ h \notin HandlesOf(devices32) => HandlesDistinct(more)
      <4>1. DevicesShape(devices32, next_id32)
        BY <1>2
      <4> QED BY <4>1, <3>1, DeviceAdded
    <3> QED BY <3>2 DEF more, handles
  <2> DEFINE ids == IdsOf(devices32) \cup Zero(alive32)
  <2>3. Agrees(known32, io32', ids \cup {next_id32}) /\ Len(io32'.values) = Len(io32.values) + 1
    <3> HIDE DEF ids
    <3> QED BY <1>2, <2>1, AddedKeeps DEF ids
  <2>4. ids \cup {next_id32} = IdsOf(devices32') \cup Zero(alive32)
    BY <2>2
  <2> HIDE DEF ids
  <2>5. DevicesAgree'
    BY <1>1, <1>2, <2>1, <2>2, <2>3, <2>4 DEF DevicesAgree
  <2>6. ChangesForeseen'
    <3> SUFFICES ASSUME ~overlapped32
                 PROVE  /\ ~broken32' /\ HandlesDistinct(devices32') /\ hardware32' # 0
                        /\ Follows(messages', HandlesOf(devices32'), plugged')
      BY <1>1 DEF ChangesForeseen
    <3> QED BY <1>1, <1>6, <1>8, <2>1, <2>2
  <2> QED BY <1>5, <2>5, <2>6 DEF U32Inv
<1>9. CASE m.change = "GIDC_REMOVAL" /\ remove_device32(h) /\ IndexOf(h) # 0
  <2> DEFINE i == IndexOf(h)
             id == devices32[i].id
             ids == IdsOf(devices32) \cup Zero(alive32)
  <2>1. /\ io32' = lost_device(io32, id)
        /\ devices32' = RemoveAt(devices32, i)
        /\ next_id32' = next_id32
        /\ broken32' = broken32
    BY <1>9 DEF remove_device32
  <2>2. i \in 1 .. Len(devices32) /\ devices32[i].handle = h
    BY <1>2, <1>9, IndexIs
  <2> HIDE DEF i
  <2>3. /\ DevicesShape(devices32', next_id32)
        /\ IdsOf(devices32') = IdsOf(devices32) \ {id}
        /\ HandlesDistinct(devices32) => HandlesDistinct(devices32') /\ HandlesOf(devices32') = handles \ {h}
    BY <1>2, <2>1, <2>2, DeviceRemoved DEF handles
  <2>4. id \in IdsOf(devices32) /\ id # 0
    BY <1>2, <2>2 DEF IdsOf, DevicesShape
  <2>5. id \in ids /\ ids \ {id} = IdsOf(devices32') \cup Zero(alive32)
    BY <2>3, <2>4 DEF Zero
  <2> HIDE DEF id
  <2>6. Agrees(known32, io32', ids \ {id}) /\ Len(io32'.values) = Len(io32.values)
    <3>1. Agrees(known32, io32, ids) /\ id \in ids
      BY <1>2, <2>5
    <3> HIDE DEF ids
    <3>2. Agrees(known32, lost_device(io32, id), ids \ {id}) /\ Len(lost_device(io32, id).values) = Len(io32.values)
      BY <3>1, LostKeeps
    <3> QED BY <2>1, <3>2
  <2> HIDE DEF ids
  <2>7. DevicesAgree'
    BY <1>1, <1>2, <2>1, <2>3, <2>5, <2>6 DEF DevicesAgree
  <2>8. ChangesForeseen'
    <3> SUFFICES ASSUME ~overlapped32
                 PROVE  /\ ~broken32' /\ HandlesDistinct(devices32') /\ hardware32' # 0
                        /\ Follows(messages', HandlesOf(devices32'), plugged')
      BY <1>1 DEF ChangesForeseen
    <3> QED BY <1>1, <1>6, <1>9, <2>1, <2>3
  <2> QED BY <1>5, <2>7, <2>8 DEF U32Inv
<1>10. CASE m.change = "GIDC_REMOVAL" /\ remove_device32(h) /\ IndexOf(h) = 0
  <2>1. UNCHANGED <<devices32, next_id32, io32>>
    BY <1>10 DEF remove_device32, u32Devices
  <2>2. DevicesAgree'
    BY <1>1, <2>1 DEF U32Inv, DevicesAgree
  <2>3. overlapped32
    <3>1. h \notin handles
      <4>1. h \in handles => IndexOf(h) \in 1 .. Len(devices32)
        BY <1>2, IndexIs DEF handles
      <4>2. Len(devices32) \in Nat
        BY <1>2 DEF DevicesShape
      <4> QED BY <1>10, <4>1, <4>2
    <3> QED BY <1>6, <1>10, <3>1
  <2>4. ChangesForeseen'
    BY <1>1, <2>3 DEF ChangesForeseen
  <2> QED BY <1>5, <2>2, <2>4 DEF U32Inv
<1> QED BY <1>7, <1>8, <1>9, <1>10

\* An input of a device that ui knows.
LEMMA Dispatch32Keeps ==
    ASSUME U32Inv, NEW input \in InputMessage, Dispatch32(input), input.id \in IdsOf(devices32) \cup {0}
    PROVE  U32Inv'
<1>1. /\ alive32 /\ io32' = dispatch(io32, input)
      /\ UNCHANGED <<plugged, messages, devices32, next_id32, registered, hardware32, alive32, overlapped32, broken32, known32>>
  BY DEF Dispatch32, u32World, u32Devices, u32Switch
<1>2. input.id \in IdsOf(devices32) \cup Zero(alive32)
  BY <1>1 DEF Zero
<1>3. DevicesShape(devices32, next_id32) /\ Len(io32.values) = next_id32
      /\ Agrees(known32, io32, IdsOf(devices32) \cup Zero(alive32))
  BY DEF U32Inv, DevicesAgree
<1>4. Agrees(known32, io32', IdsOf(devices32) \cup Zero(alive32)) /\ Len(io32'.values) = next_id32
  <2> DEFINE ids == IdsOf(devices32) \cup Zero(alive32)
  <2>1. input.id \in ids /\ Agrees(known32, io32, ids)
    BY <1>2, <1>3
  <2> HIDE DEF ids
  <2>2. Agrees(known32, dispatch(io32, input), ids) /\ Len(dispatch(io32, input).values) = Len(io32.values)
    BY <2>1, InputKeeps
  <2> QED BY <1>1, <1>3, <2>2 DEF ids
<1>5. DevicesAgree'
  BY <1>1, <1>3, <1>4 DEF DevicesAgree
<1>6. SwitchesSound' /\ ChangesForeseen'
  BY <1>1 DEF U32Inv, SwitchesSound, ChangesForeseen
<1> QED BY <1>5, <1>6 DEF U32Inv

LEMMA InputsOf ==
    ASSUME NEW id \in Nat, NEW button \in Button, NEW down \in BOOLEAN
    PROVE  /\ ButtonStateInput(id, button, down) \in InputMessage /\ ButtonStateInput(id, button, down).id = id
           /\ KeyCharacterInput(id, button) \in InputMessage /\ KeyCharacterInput(id, button).id = id
           /\ CursorMoveInput(id) \in InputMessage /\ CursorMoveInput(id).id = id
<1>1. button \in Code /\ INVALID \in Code
  BY DEF Code, Button
<1>2. ButtonStateInput(id, button, down) \in InputMessage /\ ButtonStateInput(id, button, down).id = id
  <2>1. CASE down
    BY <1>1, <2>1 DEF InputMessage, InputState, ButtonStateInput
  <2>2. CASE ~down
    BY <1>1, <2>2 DEF InputMessage, InputState, ButtonStateInput
  <2> QED BY <2>1, <2>2
<1>3. KeyCharacterInput(id, button) \in InputMessage /\ KeyCharacterInput(id, button).id = id
  BY <1>1 DEF InputMessage, InputState, KeyCharacterInput
<1>4. CursorMoveInput(id) \in InputMessage /\ CursorMoveInput(id).id = id
  BY <1>1 DEF InputMessage, InputState, CursorMoveInput
<1> QED BY <1>2, <1>3, <1>4

LEMMA KnownInputIs ==
    ASSUME U32Inv, NEW h, KnownInput(h)
    PROVE  devices32[IndexOf(h)].id \in Nat /\ devices32[IndexOf(h)].id \in IdsOf(devices32)
<1>1. DevicesShape(devices32, next_id32) /\ IndexOf(h) # 0
  BY DEF U32Inv, DevicesAgree, KnownInput
<1>2. IndexOf(h) \in 1 .. Len(devices32)
  BY <1>1, IndexIs
<1>3. devices32[IndexOf(h)] \in DeviceRecord
  BY <1>1, <1>2 DEF DevicesShape
<1> QED BY <1>2, <1>3 DEF IdsOf, DeviceRecord

LEMMA ButtonOf ==
    ASSUME NEW s \in ScanCodes
    PROVE  get_button32(s) \in Button /\ ScanName[s] \in Button
BY NamesAssumption DEF get_button32

LEMMA WinProcKeeps == U32Inv /\ WinProc => U32Inv'
<1> SUFFICES ASSUME U32Inv, WinProc PROVE U32Inv'
  OBVIOUS
<1>1. CASE WM_INPUT_DEVICE_CHANGE
  BY <1>1, DeviceChangeKeeps
<1>2. ASSUME NEW h \in Handles, NEW b \in Buttons, NEW down \in BOOLEAN, process_mouse(h, b, down)
      PROVE  U32Inv'
  <2> DEFINE id == devices32[IndexOf(h)].id
  <2>1. KnownInput(h) /\ Dispatch32(ButtonStateInput(id, b, down))
    BY <1>2 DEF process_mouse
  <2>2. id \in Nat /\ id \in IdsOf(devices32)
    BY <2>1, KnownInputIs
  <2>3. b \in Button
    BY DEF Button
  <2> HIDE DEF id
  <2>4. ButtonStateInput(id, b, down) \in InputMessage /\ ButtonStateInput(id, b, down).id = id
    BY <2>2, <2>3, InputsOf
  <2> DEFINE input == ButtonStateInput(id, b, down)
  <2>5. input \in InputMessage /\ Dispatch32(input) /\ input.id \in IdsOf(devices32) \cup {0}
    BY <2>1, <2>2, <2>4
  <2> HIDE DEF input
  <2> QED BY <2>5, Dispatch32Keeps
<1>3. ASSUME NEW h \in Handles, NEW s \in ScanCodes, NEW down \in BOOLEAN, process_keyboard(h, s, down)
      PROVE  U32Inv'
  <2> DEFINE id == devices32[IndexOf(h)].id
             b == get_button32(s)
  <2>1. KnownInput(h) /\ Dispatch32(ButtonStateInput(id, b, down))
    BY <1>3 DEF process_keyboard
  <2>2. id \in Nat /\ id \in IdsOf(devices32)
    BY <2>1, KnownInputIs
  <2>3. b \in Button
    BY ButtonOf
  <2> HIDE DEF id, b
  <2>4. ButtonStateInput(id, b, down) \in InputMessage /\ ButtonStateInput(id, b, down).id = id
    BY <2>2, <2>3, InputsOf
  <2> DEFINE input == ButtonStateInput(id, b, down)
  <2>5. input \in InputMessage /\ Dispatch32(input) /\ input.id \in IdsOf(devices32) \cup {0}
    BY <2>1, <2>2, <2>4
  <2> HIDE DEF input
  <2> QED BY <2>5, Dispatch32Keeps
<1>4. ASSUME NEW b \in Button, NEW down \in BOOLEAN, Dispatch32(ButtonStateInput(0, b, down))
      PROVE  U32Inv'
  <2> DEFINE input == ButtonStateInput(0, b, down)
  <2>1. input \in InputMessage /\ Dispatch32(input) /\ input.id \in IdsOf(devices32) \cup {0}
    BY <1>4, InputsOf
  <2> HIDE DEF input
  <2> QED BY <2>1, Dispatch32Keeps
<1>5. ASSUME NEW s \in ScanCodes, NEW down \in BOOLEAN, key32(s, down)
      PROVE  U32Inv'
  BY <1>4, <1>5, ButtonOf DEF key32
<1>6. ASSUME NEW b \in Buttons, NEW down \in BOOLEAN, button32(b, down)
      PROVE  U32Inv'
  BY <1>4, <1>6 DEF button32, Button
<1>7. ASSUME NEW s \in ScanCodes, key_character32(s)
      PROVE  U32Inv'
  <2> DEFINE input == KeyCharacterInput(0, ScanName[s])
  <2>1. input \in InputMessage /\ Dispatch32(input) /\ input.id \in IdsOf(devices32) \cup {0}
    BY <1>7, InputsOf, ButtonOf DEF key_character32
  <2> HIDE DEF input
  <2> QED BY <2>1, Dispatch32Keeps
<1>8. CASE mouse_move
  <2> DEFINE input == CursorMoveInput(0)
  <2>1. INVALID \in Button
    BY DEF Button
  <2>2. input \in InputMessage /\ Dispatch32(input) /\ input.id \in IdsOf(devices32) \cup {0}
    BY <1>8, <2>1, InputsOf DEF mouse_move
  <2> HIDE DEF input
  <2> QED BY <2>2, Dispatch32Keeps
<1> QED BY <1>1, <1>2, <1>3, <1>5, <1>6, <1>7, <1>8, Zenon DEF WinProc

LEMMA EnableKeeps == U32Inv /\ enable_hardware_input32 => U32Inv'
<1> SUFFICES ASSUME U32Inv, enable_hardware_input32 PROVE U32Inv'
  OBVIOUS
<1>1. /\ hardware32' = 1 /\ UNCHANGED <<plugged, next_id32, io32, known32, alive32, broken32>>
      /\ IF hardware32 # 1 THEN start_hardware_input32 ELSE AsSwitched
  BY DEF enable_hardware_input32, u32World
<1>2. CASE hardware32 = 1
  <2>1. UNCHANGED <<plugged, next_id32, io32, known32, alive32, broken32, registered, messages, devices32, overlapped32, hardware32>>
    BY <1>1, <1>2 DEF AsSwitched
  <2>2. DevicesAgree'
    BY <2>1 DEF U32Inv, DevicesAgree
  <2>3. SwitchesSound' /\ ChangesForeseen'
    BY <2>1 DEF U32Inv, SwitchesSound, ChangesForeseen
  <2> QED BY <2>2, <2>3 DEF U32Inv
<1>3. CASE hardware32 # 1
  <2> DEFINE told == RegisterRawInputDevices(plugged)
  <2>1. registered' = TRUE /\ messages' = messages \o told /\ devices32' = devices32 /\ overlapped32' = overlapped32
    BY <1>1, <1>3 DEF start_hardware_input32
  <2>2. plugged \subseteq Handles /\ messages \in Seq(Change) /\ hardware32 = 0
    BY <1>3 DEF U32Inv, SwitchesSound
  <2>3. told \in Seq(Change) /\ Follows(told, {}, plugged)
    BY <2>2, RegisteredFollows
  <2> HIDE DEF told
  <2>4. DevicesAgree'
    BY <1>1, <2>1 DEF U32Inv, DevicesAgree
  <2>5. SwitchesSound'
    <3>1. messages' \in Seq(Change)
      BY <2>1, <2>2, <2>3
    <3> QED BY <1>1, <2>1, <2>2, <3>1 DEF SwitchesSound
  <2>6. ChangesForeseen'
    <3> SUFFICES ASSUME ~overlapped32
                 PROVE  ~broken32' /\ HandlesDistinct(devices32') /\ Follows(messages', HandlesOf(devices32'), plugged')
      BY <1>1, <2>1 DEF ChangesForeseen
    <3>1. ~broken32 /\ devices32 = <<>> /\ messages = <<>>
      BY <2>2 DEF U32Inv, ChangesForeseen
    <3>2. messages' = told
      BY <2>1, <2>3, <3>1
    <3> QED BY <1>1, <2>1, <2>3, <3>1, <3>2, NoneOf
  <2> QED BY <2>4, <2>5, <2>6 DEF U32Inv
<1> QED BY <1>2, <1>3

LEMMA DisableKeeps ==
    ASSUME U32Inv, NEW then_gone \in BOOLEAN, disable_hardware_input32(then_gone)
    PROVE  U32Inv'
<1> DEFINE io == IF hardware32 # 0 THEN LoseAll ELSE io32
<1>1. /\ alive32 /\ hardware32' = 0 /\ alive32' = ~then_gone
      /\ UNCHANGED <<plugged, next_id32, known32, broken32>>
      /\ io32' = IF then_gone THEN lost_device(io, 0) ELSE io
      /\ IF hardware32 # 0 THEN stop_hardware_input32 ELSE AsSwitched
  BY DEF disable_hardware_input32, u32World
<1>2. DevicesShape(devices32, next_id32) /\ Len(io32.values) = next_id32
      /\ Agrees(known32, io32, IdsOf(devices32) \cup Zero(alive32))
  BY DEF U32Inv, DevicesAgree
<1>3. Zero(alive32) = {0} /\ Zero(FALSE) = {}
  BY <1>1 DEF Zero
<1>4. /\ Agrees(known32, io, IdsOf(devices32') \cup {0}) /\ Len(io.values) = next_id32
      /\ DevicesShape(devices32', next_id32) /\ registered' = FALSE /\ messages' = messages
  <2>1. CASE hardware32 # 0
    <3>1. Agrees(known32, LoseAll, {0}) /\ Len(LoseAll.values) = Len(io32.values)
      BY <1>2, <1>3, LoseAllKeeps
    <3>2. devices32' = <<>> /\ registered' = FALSE /\ messages' = messages
      BY <1>1, <2>1 DEF stop_hardware_input32
    <3>3. DevicesShape(<<>>, next_id32)
      BY <1>2, NoDevicesShape DEF DevicesShape
    <3> QED BY <1>2, <2>1, <3>1, <3>2, <3>3, NoneOf
  <2>2. CASE hardware32 = 0
    <3>1. registered = FALSE
      BY <2>2 DEF U32Inv, SwitchesSound
    <3>2. UNCHANGED <<registered, messages, devices32>>
      BY <1>1, <2>2 DEF AsSwitched
    <3> QED BY <1>2, <1>3, <2>2, <3>1, <3>2
  <2> QED BY <2>1, <2>2
<1> HIDE DEF io
<1>5. Agrees(known32, io32', IdsOf(devices32') \cup Zero(alive32')) /\ Len(io32'.values) = next_id32
  <2> DEFINE ids == IdsOf(devices32') \cup {0}
  <2>1. Agrees(known32, io, ids) /\ 0 \in ids
    BY <1>4
  <2>2. CASE then_gone
    <3>1. 0 \notin IdsOf(devices32')
      BY <1>4 DEF DevicesShape, IdsOf
    <3>2. ids \ {0} = IdsOf(devices32') \cup Zero(alive32')
      BY <1>1, <2>2, <3>1 DEF Zero
    <3> HIDE DEF ids
    <3>3. Agrees(known32, lost_device(io, 0), ids \ {0}) /\ Len(lost_device(io, 0).values) = Len(io.values)
      BY <2>1, LostKeeps
    <3> QED BY <1>1, <1>4, <2>2, <3>2, <3>3
  <2>3. CASE ~then_gone
    <3>1. ids = IdsOf(devices32') \cup Zero(alive32')
      BY <1>1, <2>3 DEF Zero
    <3> HIDE DEF ids
    <3> QED BY <1>1, <1>4, <2>1, <2>3, <3>1
  <2> QED BY <2>2, <2>3
<1>6. DevicesAgree'
  BY <1>1, <1>4, <1>5 DEF DevicesAgree
<1>7. SwitchesSound'
  <2>1. hardware32' \in {0, 1} /\ hardware32' # 1
    BY <1>1
  <2>2. plugged \subseteq Handles /\ messages \in Seq(Change)
    BY DEF U32Inv, SwitchesSound
  <2> QED BY <1>1, <1>4, <2>1, <2>2 DEF SwitchesSound
<1>8. ChangesForeseen'
  <2>1. CASE hardware32 # 0
    <3>1. devices32' = <<>> /\ overlapped32' = (overlapped32 \/ messages # <<>>)
      BY <1>1, <2>1 DEF stop_hardware_input32
    <3>2. ~overlapped32' => messages = <<>> /\ ~broken32
      BY <3>1 DEF U32Inv, ChangesForeseen
    <3> QED BY <1>1, <1>4, <3>1, <3>2, NoneOf DEF ChangesForeseen
  <2>2. CASE hardware32 = 0
    <3>1. UNCHANGED <<registered, messages, devices32, overlapped32>> /\ hardware32' = hardware32
      BY <1>1, <2>2 DEF AsSwitched
    <3> QED BY <1>1, <3>1 DEF U32Inv, ChangesForeseen
  <2> QED BY <2>1, <2>2
<1> QED BY <1>6, <1>7, <1>8 DEF U32Inv

LEMMA Pop32Keeps == U32Inv /\ Pop32 => U32Inv'
<1> SUFFICES ASSUME U32Inv, Pop32 PROVE U32Inv'
  OBVIOUS
<1> DEFINE u == [io32 EXCEPT !.queue = Tail(@)]
           ids == IdsOf(devices32) \cup Zero(alive32)
           known == Take(known32, Head(io32.queue))
<1>1. /\ io32.queue # <<>> /\ known32' = known /\ io32' = u
      /\ UNCHANGED <<plugged, messages, devices32, next_id32, registered, hardware32, alive32, overlapped32, broken32>>
  BY DEF Pop32, u32World, u32Devices, u32Switch
<1>2. DevicesShape(devices32, next_id32) /\ Len(io32.values) = next_id32 /\ Agrees(known32, io32, ids)
  BY DEF U32Inv, DevicesAgree
<1>3. Agrees(known, u, ids) /\ u.values = io32.values
  <2> HIDE DEF ids
  <2> QED BY <1>1, <1>2, PopKeeps
<1> HIDE DEF u, known
<1>4. DevicesAgree'
  BY <1>1, <1>2, <1>3 DEF DevicesAgree
<1>5. SwitchesSound' /\ ChangesForeseen'
  BY <1>1 DEF U32Inv, SwitchesSound, ChangesForeseen
<1> QED BY <1>4, <1>5 DEF U32Inv

LEMMA U32NextSound == U32Inv /\ [U32Next]_u32Vars => U32Inv'
<1> SUFFICES ASSUME U32Inv, [U32Next]_u32Vars PROVE U32Inv'
  OBVIOUS
<1>1. ASSUME NEW h \in Handles, Arrive(h)
      PROVE  U32Inv'
  BY <1>1, Change32Keeps DEF Arrive
<1>2. ASSUME NEW h \in Handles, Leave(h)
      PROVE  U32Inv'
  BY <1>2, Change32Keeps DEF Leave
<1>3. CASE WinProc
  BY <1>3, WinProcKeeps
<1>4. CASE enable_hardware_input32
  BY <1>4, EnableKeeps
<1>5. CASE disable_hardware_input32(FALSE)
  BY <1>5, DisableKeeps
<1>6. CASE toggle_hardware_input32
  BY <1>6, EnableKeeps, DisableKeeps DEF toggle_hardware_input32
<1>7. CASE destroy_subsystem32
  BY <1>7, DisableKeeps DEF destroy_subsystem32
<1>8. CASE Pop32
  BY <1>8, Pop32Keeps
<1>9. CASE UNCHANGED u32Vars
  <2>1. UNCHANGED <<plugged, messages, devices32, next_id32, registered, hardware32, alive32, overlapped32, broken32, io32, known32>>
    BY <1>9 DEF u32Vars, u32World, u32Devices, u32Switch
  <2>2. DevicesAgree'
    BY <2>1 DEF U32Inv, DevicesAgree
  <2>3. SwitchesSound' /\ ChangesForeseen'
    BY <2>1 DEF U32Inv, SwitchesSound, ChangesForeseen
  <2> QED BY <2>2, <2>3 DEF U32Inv
<1> QED BY <1>1, <1>2, <1>3, <1>4, <1>5, <1>6, <1>7, <1>8, <1>9, Zenon DEF U32Next

LEMMA U32InvMatches == U32Inv => U32DevicesMatch
<1> SUFFICES ASSUME U32Inv PROVE U32DevicesMatch
  OBVIOUS
<1>1. DevicesShape(devices32, next_id32) /\ Agrees(known32, io32, IdsOf(devices32) \cup Zero(alive32))
  BY DEF U32Inv, DevicesAgree
<1>2. ASSUME ~overlapped32
      PROVE  /\ messages # <<>> /\ alive32 => Expected(Head(messages))
             /\ ~broken32
             /\ hardware32 = 0 => devices32 = <<>>
  <2> SUFFICES ASSUME messages # <<>> PROVE Expected(Head(messages))
    BY <1>2 DEF U32Inv, ChangesForeseen
  <2>1. hardware32 # 0
    BY <1>2 DEF U32Inv, ChangesForeseen
  <2>2. registered /\ messages \in Seq(Change)
    BY <2>1 DEF U32Inv, SwitchesSound
  <2>3. Follows(messages, HandlesOf(devices32), plugged)
    BY <1>2, <2>2 DEF U32Inv, ChangesForeseen
  <2> DEFINE m == Head(messages)
  <2>4. m \in Change /\ IF m.change = "GIDC_ARRIVAL" THEN m.handle \notin HandlesOf(devices32) ELSE m.handle \in HandlesOf(devices32)
    BY <2>2, <2>3, RestFollows
  <2> HIDE DEF m
  <2>5. IndexOf(m.handle) = 0 <=> m.handle \notin HandlesOf(devices32)
    <3>1. Len(devices32) \in Nat
      BY <1>1 DEF DevicesShape
    <3>2. IndexOf(m.handle) \in 1 .. Len(devices32) => IndexOf(m.handle) # 0
      BY <3>1
    <3> QED BY <1>1, <3>2, IndexIs
  <2> QED BY <2>4, <2>5 DEF Expected, m
<1> DEFINE settled == Settled(known32, io32.queue)
           ids == IdsOf(devices32) \cup Zero(alive32)
<1>3. PICK rows : AgreesWith(known32, io32.values, io32.queue, ids, rows)
  BY <1>1 DEF Agrees
<1>4. Told(known32, io32.queue, rows) /\ rows \in [ids -> Row] /\ \A d \in ids : rows[d].level = io32.values[d + 1]
  BY <1>3 DEF AgreesWith
<1>5. settled = rows
  BY <1>4 DEF Told, Settled
<1>6. AllAccepted(known32, io32.queue)
  <2>1. Told(known32, io32.queue, Settled(known32, io32.queue))
    BY <1>4, <1>5
  <2> QED BY <2>1, ToldIs
<1>7. DOMAIN settled = {d.id : d \in ToSet(devices32)} \cup (IF alive32 THEN {0} ELSE {})
  <2>1. DOMAIN devices32 = 1 .. Len(devices32)
    BY <1>1 DEF DevicesShape
  <2>2. {d.id : d \in ToSet(devices32)} = IdsOf(devices32)
    BY <2>1 DEF ToSet, IdsOf
  <2>3. DOMAIN settled = ids
    <3> HIDE DEF settled
    <3> QED BY <1>4, <1>5
  <2> QED BY <2>2, <2>3 DEF Zero
<1>8. \A d \in DOMAIN settled : settled[d].level = io32.values[d + 1]
  <2> HIDE DEF settled, ids
  <2> QED BY <1>4, <1>5
<1> QED BY <1>2, <1>6, <1>7, <1>8 DEF U32DevicesMatch

(* Whatever devices come and go while hardware input is switched, with     *)
(* messages to the window under way or not, ui accepts every message and   *)
(* ends with what devices.cpp keeps, until a device that was never added   *)
(* is removed; and that, a device added twice or one left while hardware   *)
(* input is off takes a switch with messages under way.  For any number of *)
(* devices, changes and switches (U32DevicesMatch).                        *)
THEOREM U32DevicesCorrect == U32Spec => []U32DevicesMatch
<1>1. U32Init => U32Inv
  BY U32InitSound
<1>2. U32Inv /\ [U32Next]_u32Vars => U32Inv'
  BY U32NextSound
<1>3. U32Inv => U32DevicesMatch
  BY U32InvMatches
<1> QED BY <1>1, <1>2, <1>3, PTL DEF U32Spec

-----------------------------------------------------------------------------
(* What ui keeps.                                                          *)

UiFields ==
    {"devices", "device_mappings", "device_sources", "filters", "mapping_entities", "mappings", "contexts",
     "default", "ready", "called", "ok"}

ContextRecord ==
    [asset : UiContexts, active : UiStates, has_device_mappings : BOOLEAN, states : Seq(UiStates),
     bound : SUBSET (UiStates \X UiMappings \X UiStates), devices : SUBSET UiIds]

\* A context binds mappings of its own, those of one state with different codes.
ContextSound(u, c) ==
    /\ Range(c.states) = UiStates
    /\ c.devices \subseteq u.devices
    /\ \A b \in c.bound : UiUser[b[2]] = c.asset /\ b[2] \in u.mapping_entities
    /\ \A a, b \in c.bound : a[1] = b[1] /\ a # b => UiCodes[a[2]] \cap UiCodes[b[2]] = {}

ContextsSound(u) ==
    /\ u.contexts \in Seq(ContextRecord)
    /\ \A i, j \in DOMAIN u.contexts : u.contexts[i].asset = u.contexts[j].asset => i = j
    /\ \A i \in DOMAIN u.contexts : ContextSound(u, u.contexts[i])
    /\ u.default = IF u.contexts = <<>> THEN NoContext ELSE u.contexts[1].asset

MappingsSound(u) ==
    /\ u.filters \in Seq(FilterKinds)
    /\ u.mappings \subseteq UiMappings \X (Buttons \cup Axes) \X Nat
    /\ \A m \in u.mappings :
          /\ m[1] \in u.mapping_entities
          /\ m[2] \in UiCodes[m[1]]
          /\ m[3] \in 1 .. Len(u.filters) /\ u.filters[m[3]] = UiKind[m[2]]
    /\ \A m, n \in u.mappings : m[1] = n[1] /\ m[2] = n[2] => m = n

DevicesSound(u) ==
    /\ u.devices \subseteq UiIds
    /\ u.device_sources \subseteq u.devices \X UiPaths

\* The devices have the filters of those contexts that have set them.
RowsSound(u) ==
    u.device_mappings =
        UNION {Rows(u, u.contexts[i]) : i \in {j \in DOMAIN u.contexts : u.contexts[j].has_device_mappings}}

Sound(u) ==
    /\ DOMAIN u = UiFields
    /\ ContextsSound(u)
    /\ MappingsSound(u)
    /\ DevicesSound(u)
    /\ RowsSound(u)
    /\ u.ok = TRUE

AllSet(u) == \A i \in DOMAIN u.contexts : u.contexts[i].has_device_mappings

\* What the devices report.
UiReport ==
    [type : {"DeviceFound"}, id : UiIds]
        \cup [type : {"DeviceLost"}, id : UiIds \ UiWired]
        \cup [type : {"AddSource", "RemoveSource"}, id : UiIds, path : UiPaths]
        \cup [type : {"Input"}, id : UiIds, state : {"BUTTON_DOWN", "BUTTON_UP"}, code : Buttons, level : {0}]
        \cup [type : {"Input"}, id : UiIds, state : {"AXIS_TILT"}, code : {a \in Axes : UiKind[a] = "AxisTilt"}, level : {1}]
        \cup [type : {"Input"}, id : UiIds, state : {"CURSOR_MOVE"}, code : {a \in Axes : UiKind[a] = "AxisMove"}, level : {0}]

\* The messages that wait will each be what the client may post, or the devices report,
\* when their turn comes.
QueueFits(u, waiting) ==
    /\ waiting \in Seq(UiMessage)
    /\ \A n \in 1 .. Len(waiting) : Fits(UiCourse(u, waiting)[n - 1], waiting[n])

UiInv ==
    /\ Sound(ui)
    /\ phase \in {"messages", "input"}
    /\ phase = "input" => AllSet(ui)
    /\ QueueFits(ui, queue)
    /\ queue_input \in Seq(UiReport)
    /\ AllAccepted(KnownBy(ui), queue_input)

-----------------------------------------------------------------------------
(* What the contexts give their devices.                                   *)

Gives(u, c, d, b, m) ==
    d \in c.devices /\ b \in c.bound /\ m \in u.mappings /\ b[1] = c.active /\ m[1] = b[2]

LEMMA ActiveIs ==
    ASSUME NEW u, NEW c, NEW f
    PROVE  f \in ActiveFilters(u, c) <=> \E b \in c.bound, m \in u.mappings :
               b[1] = c.active /\ m[1] = b[2] /\ f = <<m[2], m[3], b[3]>>
BY DEF ActiveFilters

LEMMA RowIs ==
    ASSUME NEW u, NEW c, NEW r
    PROVE  r \in Rows(u, c) <=> \E d, b, m : Gives(u, c, d, b, m) /\ r = <<d, m[2], m[3], b[3]>>
<1>1. ASSUME r \in Rows(u, c)
      PROVE  \E d, b, m : Gives(u, c, d, b, m) /\ r = <<d, m[2], m[3], b[3]>>
  <2>1. PICK d \in c.devices, f \in ActiveFilters(u, c) : r = <<d, f[1], f[2], f[3]>>
    BY <1>1 DEF Rows
  <2>2. PICK b \in c.bound, m \in u.mappings : b[1] = c.active /\ m[1] = b[2] /\ f = <<m[2], m[3], b[3]>>
    BY ActiveIs
  <2>3. r = <<d, m[2], m[3], b[3]>>
    BY <2>1, <2>2
  <2> QED BY <2>2, <2>3 DEF Gives
<1>2. ASSUME NEW d, NEW b, NEW m, Gives(u, c, d, b, m), r = <<d, m[2], m[3], b[3]>>
      PROVE  r \in Rows(u, c)
  <2> DEFINE f == <<m[2], m[3], b[3]>>
  <2>1. f \in ActiveFilters(u, c)
    BY <1>2, ActiveIs DEF Gives
  <2>2. r = <<d, f[1], f[2], f[3]>> /\ d \in c.devices
    BY <1>2 DEF Gives
  <2> HIDE DEF f
  <2> QED BY <2>1, <2>2 DEF Rows
<1> QED BY <1>1, <1>2

\* What is given depends on the mappings, and of a context on these fields.
LEMMA RowsDepend ==
    ASSUME NEW u, NEW v, NEW c, NEW d, v.mappings = u.mappings,
           d.devices = c.devices, d.active = c.active, d.bound = c.bound
    PROVE  Rows(v, d) = Rows(u, c) /\ ActiveFilters(v, d) = ActiveFilters(u, c)
BY DEF Rows, ActiveFilters

LEMMA HeldIs ==
    ASSUME NEW u, NEW r
    PROVE  RowsSound(u) => (r \in u.device_mappings <=>
               \E i \in DOMAIN u.contexts : u.contexts[i].has_device_mappings /\ r \in Rows(u, u.contexts[i]))
BY DEF RowsSound

LEMMA RowsHeld ==
    ASSUME NEW u,
           \A r : r \in u.device_mappings <=>
               \E i \in DOMAIN u.contexts : u.contexts[i].has_device_mappings /\ r \in Rows(u, u.contexts[i])
    PROVE  RowsSound(u)
<1> DEFINE all == UNION {Rows(u, u.contexts[i]) : i \in {j \in DOMAIN u.contexts : u.contexts[j].has_device_mappings}}
<1>1. \A r : r \in all <=> \E i \in DOMAIN u.contexts : u.contexts[i].has_device_mappings /\ r \in Rows(u, u.contexts[i])
  OBVIOUS
<1> HIDE DEF all
<1>2. u.device_mappings = all
  BY <1>1
<1> QED BY <1>2 DEF RowsSound, all

-----------------------------------------------------------------------------
(* Sequences of contexts.                                                  *)

LEMMA ContextPut ==
    ASSUME NEW s \in Seq(ContextRecord), NEW i \in DOMAIN s, NEW c \in ContextRecord
    PROVE  /\ [s EXCEPT ![i] = c] \in Seq(ContextRecord)
           /\ DOMAIN [s EXCEPT ![i] = c] = DOMAIN s
           /\ Len([s EXCEPT ![i] = c]) = Len(s)
           /\ [s EXCEPT ![i] = c][i] = c
           /\ \A j \in DOMAIN s : j # i => [s EXCEPT ![i] = c][j] = s[j]
<1>1. DOMAIN s = 1 .. Len(s) /\ Len(s) \in Nat
  OBVIOUS
<1>2. i \in 1 .. Len(s)
  BY <1>1
<1> QED BY <1>1, <1>2, ExceptSeq

LEMMA ContextAt ==
    ASSUME NEW s \in Seq(ContextRecord), NEW i \in DOMAIN s
    PROVE  s[i] \in ContextRecord
OBVIOUS

\* The index of a context, or 0.
LEMMA FindIs ==
    ASSUME NEW u, NEW a, ContextsSound(u)
    PROVE  /\ find_context(u, a) = 0 => \A i \in DOMAIN u.contexts : u.contexts[i].asset # a
           /\ find_context(u, a) # 0 => find_context(u, a) \in DOMAIN u.contexts /\ u.contexts[find_context(u, a)].asset = a
           /\ \A i \in DOMAIN u.contexts : u.contexts[i].asset = a => find_context(u, a) = i
<1> DEFINE I == {i \in 1 .. Len(u.contexts) : u.contexts[i].asset = a}
<1>1. u.contexts \in Seq(ContextRecord) /\ \A i, j \in DOMAIN u.contexts : u.contexts[i].asset = u.contexts[j].asset => i = j
  BY DEF ContextsSound
<1>2. DOMAIN u.contexts = 1 .. Len(u.contexts) /\ Len(u.contexts) \in Nat
  BY <1>1
<1>3. find_context(u, a) = IF I # {} THEN Min(I) ELSE 0
  BY DEF find_context, SelectInSeq
<1>4. ASSUME NEW i \in I
      PROVE  Min(I) = i
  <2>1. I = {i}
    BY <1>1, <1>2
  <2>2. i \in Nat
    BY <1>2
  <2> HIDE DEF I
  <2> QED BY <2>1, <2>2 DEF Min
<1>5. \A i \in I : i \in DOMAIN u.contexts /\ i # 0 /\ u.contexts[i].asset = a
  BY <1>2
<1>6. \A i \in DOMAIN u.contexts : u.contexts[i].asset = a => i \in I
  BY <1>2
<1> HIDE DEF I
<1> QED BY <1>3, <1>4, <1>5, <1>6

-----------------------------------------------------------------------------
(* A context is changed, and its device mappings with it.                  *)

\* v has what u has, in all but these fields.
Others(u, v, fields) == DOMAIN v = UiFields /\ \A k \in UiFields \ fields : v[k] = u[k]

LEMMA RequireIs ==
    ASSUME NEW u, NEW condition \in BOOLEAN, DOMAIN u = UiFields
    PROVE  /\ Others(u, Require(u, condition), {"ok"})
           /\ u.ok = TRUE /\ condition => Require(u, condition).ok = TRUE
BY DEF Require, Others, UiFields

\* Mappings of two contexts, or of one state, have no code in common.
LEMMA CodesApart ==
    ASSUME NEW u, Sound(u), NEW i \in DOMAIN u.contexts, NEW j \in DOMAIN u.contexts,
           NEW a \in u.contexts[i].bound, NEW b \in u.contexts[j].bound, i # j \/ (a[1] = b[1] /\ a # b)
    PROVE  UiCodes[a[2]] \cap UiCodes[b[2]] = {}
<1>1. ContextSound(u, u.contexts[i]) /\ ContextSound(u, u.contexts[j])
  BY DEF Sound, ContextsSound
<1>2. CASE i # j
  <2>1. u.contexts[i].asset # u.contexts[j].asset
    BY <1>2 DEF Sound, ContextsSound
  <2>2. UiUser[a[2]] # UiUser[b[2]]
    BY <1>1, <2>1 DEF ContextSound
  <2>3. a[2] \in UiMappings /\ b[2] \in UiMappings
    <3>1. u.contexts[i] \in ContextRecord /\ u.contexts[j] \in ContextRecord
      BY ContextAt DEF Sound, ContextsSound
    <3> QED BY <3>1 DEF ContextRecord
  <2> QED BY <2>2, <2>3, UiCodesAssumption
<1>3. CASE i = j
  BY <1>1, <1>3 DEF ContextSound
<1> QED BY <1>2, <1>3

\* The code of a row is one of its mapping's.
LEMMA CodeOfRow ==
    ASSUME NEW u, Sound(u), NEW c, NEW d, NEW b, NEW m, Gives(u, c, d, b, m)
    PROVE  m[2] \in UiCodes[b[2]] /\ m[1] = b[2]
BY DEF Gives, Sound, MappingsSound

LEMMA ContextReplaced ==
    ASSUME NEW u, Sound(u), NEW i \in DOMAIN u.contexts, NEW c \in ContextRecord,
           c.asset = u.contexts[i].asset, ContextSound(u, c),
           NEW v, Others(u, v, {"contexts", "device_mappings", "called", "ready"}), v.contexts = [u.contexts EXCEPT ![i] = c],
           \A r : r \in v.device_mappings <=>
               \/ \E j \in DOMAIN u.contexts : j # i /\ u.contexts[j].has_device_mappings /\ r \in Rows(u, u.contexts[j])
               \/ c.has_device_mappings /\ r \in Rows(u, c)
    PROVE  Sound(v)
<1>1. /\ v.devices = u.devices /\ v.device_sources = u.device_sources /\ v.filters = u.filters
      /\ v.mapping_entities = u.mapping_entities /\ v.mappings = u.mappings /\ v.default = u.default /\ v.ok = u.ok
      /\ DOMAIN v = UiFields
  BY DEF Others, UiFields
<1>2. /\ v.contexts \in Seq(ContextRecord) /\ DOMAIN v.contexts = DOMAIN u.contexts /\ Len(v.contexts) = Len(u.contexts)
      /\ v.contexts[i] = c /\ \A j \in DOMAIN u.contexts : j # i => v.contexts[j] = u.contexts[j]
  <2>1. u.contexts \in Seq(ContextRecord)
    BY DEF Sound, ContextsSound
  <2> QED BY <2>1, ContextPut
<1>3. ContextsSound(v)
  <2>1. \A j \in DOMAIN v.contexts : ContextSound(u, v.contexts[j]) /\ v.contexts[j].asset = u.contexts[j].asset
    BY <1>2 DEF Sound, ContextsSound
  <2>2. \A j \in DOMAIN v.contexts : ContextSound(v, v.contexts[j])
    BY <1>1, <2>1 DEF ContextSound
  <2>3. v.default = IF v.contexts = <<>> THEN NoContext ELSE v.contexts[1].asset
    <3>1. u.contexts \in Seq(ContextRecord) /\ u.default = IF u.contexts = <<>> THEN NoContext ELSE u.contexts[1].asset
      BY DEF Sound, ContextsSound
    <3>2. u.contexts # <<>> /\ v.contexts # <<>> /\ 1 \in DOMAIN u.contexts
      BY <3>1, <1>2
    <3> QED BY <3>1, <3>2, <1>1, <1>2, <2>1
  <2>4. \A j, k \in DOMAIN v.contexts : v.contexts[j].asset = v.contexts[k].asset => j = k
    BY <2>1, <1>2 DEF Sound, ContextsSound
  <2> QED BY <1>2, <2>2, <2>3, <2>4 DEF ContextsSound
<1>4. MappingsSound(v) /\ DevicesSound(v)
  BY <1>1 DEF Sound, MappingsSound, DevicesSound
<1>5. RowsSound(v)
  <2>1. \A x : Rows(v, x) = Rows(u, x)
    BY <1>1, RowsDepend
  <2>2. \A r : r \in v.device_mappings <=>
            \E j \in DOMAIN v.contexts : v.contexts[j].has_device_mappings /\ r \in Rows(v, v.contexts[j])
    BY <1>2, <2>1
  <2> QED BY <2>2, RowsHeld
<1> QED BY <1>1, <1>3, <1>4, <1>5 DEF Sound

\* A change of a context that its devices do not notice.
LEMMA ContextChanged ==
    ASSUME NEW u, Sound(u), NEW i \in DOMAIN u.contexts, NEW c \in ContextRecord,
           c.asset = u.contexts[i].asset, ContextSound(u, c),
           c.has_device_mappings = u.contexts[i].has_device_mappings,
           c.has_device_mappings => Rows(u, c) = Rows(u, u.contexts[i]),
           NEW v, Others(u, v, {"contexts", "called", "ready"}), v.contexts = [u.contexts EXCEPT ![i] = c]
    PROVE  Sound(v)
<1>1. v.device_mappings = u.device_mappings /\ Others(u, v, {"contexts", "device_mappings", "called", "ready"})
  BY DEF Others, UiFields
<1>2. \A r : r \in u.device_mappings <=>
           \E j \in DOMAIN u.contexts : u.contexts[j].has_device_mappings /\ r \in Rows(u, u.contexts[j])
  BY HeldIs DEF Sound
<1>3. \A r : r \in v.device_mappings <=>
               \/ \E j \in DOMAIN u.contexts : j # i /\ u.contexts[j].has_device_mappings /\ r \in Rows(u, u.contexts[j])
               \/ c.has_device_mappings /\ r \in Rows(u, c)
  BY <1>1, <1>2
<1> QED BY <1>1, <1>3, ContextReplaced

\* A context and whether its devices have its mappings.
Given(c) == [c EXCEPT !.has_device_mappings = TRUE]
Taken(c) == [c EXCEPT !.has_device_mappings = FALSE]

Switched(u, c, d) ==
    /\ d \in ContextRecord /\ d.asset = c.asset /\ d.bound = c.bound /\ d.active = c.active
    /\ d.states = c.states /\ d.devices = c.devices
    /\ ContextSound(u, c) => ContextSound(u, d)
    /\ Rows(u, d) = Rows(u, c)

LEMMA SwitchedIs ==
    ASSUME NEW u, NEW c \in ContextRecord
    PROVE  /\ Switched(u, c, Given(c)) /\ Given(c).has_device_mappings
           /\ Switched(u, c, Taken(c)) /\ ~Taken(c).has_device_mappings
<1>1. ASSUME NEW d \in {Given(c), Taken(c)}
      PROVE  Switched(u, c, d)
  <2>1. d \in ContextRecord /\ d.asset = c.asset /\ d.bound = c.bound /\ d.active = c.active
        /\ d.states = c.states /\ d.devices = c.devices
    BY DEF Given, Taken, ContextRecord
  <2>2. ContextSound(u, c) => ContextSound(u, d)
    BY <2>1 DEF ContextSound
  <2>3. Rows(u, d) = Rows(u, c)
    BY <2>1, RowsDepend
  <2> QED BY <2>1, <2>2, <2>3 DEF Switched
<1>2. Given(c).has_device_mappings /\ ~Taken(c).has_device_mappings
  BY DEF Given, Taken, ContextRecord
<1> QED BY <1>1, <1>2

LEMMA MappingsCleared ==
    ASSUME NEW u, Sound(u), NEW i \in DOMAIN u.contexts, u.contexts[i].has_device_mappings
    PROVE  /\ Sound(clear_device_mappings(u, i))
           /\ Others(u, clear_device_mappings(u, i), {"contexts", "device_mappings"})
           /\ clear_device_mappings(u, i).contexts = [u.contexts EXCEPT ![i] = Taken(u.contexts[i])]
<1> DEFINE c == u.contexts[i]
           active == ActiveFilters(u, c)
           sane == \A d \in c.devices, f \in active : \E m \in u.device_mappings : m[1] = d /\ m[2] = f[1] /\ m[3] = f[2]
           v == clear_device_mappings(u, i)
           held == {m \in u.device_mappings : ~(m[1] \in c.devices /\ \E f \in active : f[1] = m[2])}
<1>1. c \in ContextRecord /\ ContextSound(u, c) /\ DOMAIN u = UiFields /\ u.ok = TRUE
  BY ContextAt DEF Sound, ContextsSound
<1>2. \A r : r \in u.device_mappings <=>
           \E j \in DOMAIN u.contexts : u.contexts[j].has_device_mappings /\ r \in Rows(u, u.contexts[j])
  BY HeldIs DEF Sound
<1>3. Walkable(u, c)
  BY <1>1 DEF Walkable, ContextSound
<1>4. sane
  <2> SUFFICES ASSUME NEW d \in c.devices, NEW f \in active
               PROVE  \E m \in u.device_mappings : m[1] = d /\ m[2] = f[1] /\ m[3] = f[2]
    OBVIOUS
  <2> DEFINE m == <<d, f[1], f[2], f[3]>>
  <2>1. m \in Rows(u, c)
    BY DEF Rows
  <2>2. m \in u.device_mappings
    BY <1>2, <2>1
  <2> QED BY <2>2
<1>5. v = [Require(u, c.has_device_mappings /\ Walkable(u, c) /\ sane) EXCEPT
              !.contexts[i].has_device_mappings = FALSE, !.device_mappings = held]
  BY <1>1 DEF clear_device_mappings, Require, UiFields
<1> HIDE DEF sane, held, active, v
<1>6. v.contexts = [u.contexts EXCEPT ![i] = Taken(c)] /\ v.device_mappings = held
      /\ Others(u, v, {"contexts", "device_mappings"})
  BY <1>1, <1>3, <1>4, <1>5 DEF Require, Taken, Others, UiFields
<1>7. Others(u, v, {"contexts", "device_mappings", "called", "ready"})
  BY <1>6 DEF Others
<1>8. \A r : r \in held <=>
           \E j \in DOMAIN u.contexts : j # i /\ u.contexts[j].has_device_mappings /\ r \in Rows(u, u.contexts[j])
  <2>1. ASSUME NEW r \in held
        PROVE  \E j \in DOMAIN u.contexts : j # i /\ u.contexts[j].has_device_mappings /\ r \in Rows(u, u.contexts[j])
    <3>1. r \in u.device_mappings /\ ~(r[1] \in c.devices /\ \E f \in active : f[1] = r[2])
      BY DEF held
    <3>2. PICK j \in DOMAIN u.contexts : u.contexts[j].has_device_mappings /\ r \in Rows(u, u.contexts[j])
      BY <1>2, <3>1
    <3>3. ASSUME r \in Rows(u, c) PROVE FALSE
      <4>1. PICK d \in c.devices, f \in active : r = <<d, f[1], f[2], f[3]>>
        BY <3>3 DEF Rows, active
      <4> QED BY <3>1, <4>1
    <3> QED BY <3>2, <3>3
  <2>2. ASSUME NEW r, NEW j \in DOMAIN u.contexts, j # i, u.contexts[j].has_device_mappings, r \in Rows(u, u.contexts[j])
        PROVE  r \in held
    <3>1. r \in u.device_mappings
      BY <1>2, <2>2
    <3>2. PICK d, b, m : Gives(u, u.contexts[j], d, b, m) /\ r = <<d, m[2], m[3], b[3]>>
      BY <2>2, RowIs
    <3>3. ASSUME NEW f \in active, f[1] = r[2] PROVE FALSE
      <4>1. PICK a \in c.bound, n \in u.mappings : a[1] = c.active /\ n[1] = a[2] /\ f = <<n[2], n[3], a[3]>>
        BY <3>3, ActiveIs DEF active
      <4>2. n[2] = m[2]
        BY <3>2, <3>3, <4>1
      <4>3. n[2] \in UiCodes[a[2]]
        BY <4>1 DEF Sound, MappingsSound
      <4>4. m[2] \in UiCodes[b[2]] /\ b \in u.contexts[j].bound
        BY <3>2, CodeOfRow DEF Gives
      <4> QED BY <4>2, <4>3, <4>4, <2>2, CodesApart
    <3> QED BY <3>1, <3>3 DEF held
  <2> QED BY <2>1, <2>2
<1>9. Taken(c) \in ContextRecord /\ ContextSound(u, Taken(c))
      /\ Taken(c).asset = c.asset /\ ~Taken(c).has_device_mappings
  BY <1>1, SwitchedIs DEF Switched
<1>10. Sound(v)
  BY <1>6, <1>7, <1>8, <1>9, ContextReplaced
<1> QED BY <1>6, <1>10 DEF v

LEMMA MappingsSet ==
    ASSUME NEW u, Sound(u), NEW i \in DOMAIN u.contexts, ~u.contexts[i].has_device_mappings
    PROVE  /\ Sound(set_device_mappings(u, i))
           /\ Others(u, set_device_mappings(u, i), {"contexts", "device_mappings"})
           /\ set_device_mappings(u, i).contexts = [u.contexts EXCEPT ![i] = Given(u.contexts[i])]
<1> DEFINE c == u.contexts[i]
           active == ActiveFilters(u, c)
           conflict == \/ \E f, g \in active : f # g /\ f[1] = g[1]
                       \/ \E f \in active, m \in u.device_mappings : m[1] \in c.devices /\ m[2] = f[1]
           v == set_device_mappings(u, i)
           held == u.device_mappings \cup Rows(u, c)
<1>1. c \in ContextRecord /\ ContextSound(u, c) /\ DOMAIN u = UiFields /\ u.ok = TRUE
  BY ContextAt DEF Sound, ContextsSound
<1>2. \A r : r \in u.device_mappings <=>
           \E j \in DOMAIN u.contexts : u.contexts[j].has_device_mappings /\ r \in Rows(u, u.contexts[j])
  BY HeldIs DEF Sound
<1>3. Walkable(u, c)
  BY <1>1 DEF Walkable, ContextSound
<1>4. ~conflict
  <2>1. ASSUME NEW f \in active, NEW g \in active, f[1] = g[1] PROVE f = g
    <3>1. PICK a \in c.bound, n \in u.mappings : a[1] = c.active /\ n[1] = a[2] /\ f = <<n[2], n[3], a[3]>>
      BY <2>1, ActiveIs
    <3>2. PICK b \in c.bound, m \in u.mappings : b[1] = c.active /\ m[1] = b[2] /\ g = <<m[2], m[3], b[3]>>
      BY <2>1, ActiveIs
    <3>3. n[2] = m[2] /\ n[2] \in UiCodes[a[2]] /\ m[2] \in UiCodes[b[2]]
      BY <3>1, <3>2, <2>1 DEF Sound, MappingsSound
    <3>4. a = b
      BY <3>1, <3>2, <3>3, CodesApart
    <3>5. n = m
      BY <3>1, <3>2, <3>3, <3>4 DEF Sound, MappingsSound
    <3> QED BY <3>1, <3>2, <3>4, <3>5
  <2>2. ASSUME NEW f \in active, NEW r \in u.device_mappings, r[2] = f[1] PROVE FALSE
    <3>1. PICK j \in DOMAIN u.contexts : u.contexts[j].has_device_mappings /\ r \in Rows(u, u.contexts[j])
      BY <1>2
    <3>2. PICK d, b, m : Gives(u, u.contexts[j], d, b, m) /\ r = <<d, m[2], m[3], b[3]>>
      BY <3>1, RowIs
    <3>3. PICK a \in c.bound, n \in u.mappings : a[1] = c.active /\ n[1] = a[2] /\ f = <<n[2], n[3], a[3]>>
      BY <2>2, ActiveIs
    <3>4. n[2] = m[2] /\ n[2] \in UiCodes[a[2]]
      BY <3>2, <3>3, <2>2 DEF Sound, MappingsSound
    <3>5. m[2] \in UiCodes[b[2]] /\ b \in u.contexts[j].bound
      BY <3>2, CodeOfRow DEF Gives
    <3>6. j # i
      BY <3>1
    <3> QED BY <3>4, <3>5, <3>6, CodesApart
  <2> QED BY <2>1, <2>2
<1>5. v = [Require(u, ~c.has_device_mappings /\ Walkable(u, c) /\ (conflict => c.devices = {})) EXCEPT
              !.contexts[i].has_device_mappings = TRUE, !.device_mappings = held]
  BY <1>1 DEF set_device_mappings, Require, UiFields
<1> HIDE DEF conflict, held, active, v
<1>6. v.contexts = [u.contexts EXCEPT ![i] = Given(c)] /\ v.device_mappings = held
      /\ Others(u, v, {"contexts", "device_mappings"})
  BY <1>1, <1>3, <1>4, <1>5 DEF Require, Given, Others, UiFields
<1>7. Others(u, v, {"contexts", "device_mappings", "called", "ready"})
  BY <1>6 DEF Others
<1>8. Given(c) \in ContextRecord /\ ContextSound(u, Given(c))
      /\ Given(c).asset = c.asset /\ Given(c).has_device_mappings
      /\ Rows(u, Given(c)) = Rows(u, c)
  BY <1>1, SwitchedIs DEF Switched
<1>9. \A r : r \in held <=>
               \/ \E j \in DOMAIN u.contexts : j # i /\ u.contexts[j].has_device_mappings /\ r \in Rows(u, u.contexts[j])
               \/ r \in Rows(u, c)
  BY <1>2 DEF held
<1>10. Sound(v)
  <2> HIDE DEF c
  <2> QED BY <1>6, <1>7, <1>8, <1>9, ContextReplaced DEF c
<1> QED BY <1>6, <1>10 DEF v

-----------------------------------------------------------------------------
(* The operations on one context.                                          *)

\* v is u with c for the context i.
Replaces(u, v, i, c) ==
    /\ Others(u, v, {"contexts", "device_mappings"})
    /\ v.contexts = [u.contexts EXCEPT ![i] = c]

LEMMA ContextOfSound ==
    ASSUME NEW u, Sound(u), NEW i \in DOMAIN u.contexts
    PROVE  /\ u.contexts[i] \in ContextRecord /\ ContextSound(u, u.contexts[i])
           /\ DOMAIN u = UiFields /\ u.ok = TRUE /\ u.contexts \in Seq(ContextRecord)
           /\ u.contexts[i].devices \subseteq u.devices /\ u.devices \subseteq UiIds
BY ContextAt DEF Sound, ContextsSound, ContextSound, DevicesSound

\* One replacement after the other.
LEMMA ReplacesTwice ==
    ASSUME NEW u, NEW w, NEW v, NEW i, NEW c, NEW d, Sound(u), i \in DOMAIN u.contexts, c \in ContextRecord,
           Replaces(u, w, i, c), Replaces(w, v, i, d), d \in ContextRecord
    PROVE  Replaces(u, v, i, d)
<1>1. Others(u, v, {"contexts", "device_mappings"})
  BY DEF Replaces, Others
<1>2. v.contexts = [[u.contexts EXCEPT ![i] = c] EXCEPT ![i] = d]
  BY DEF Replaces
<1>3. v.contexts = [u.contexts EXCEPT ![i] = d]
  BY <1>2, ContextOfSound
<1> QED BY <1>1, <1>3 DEF Replaces

LEMMA ReplacesIs ==
    ASSUME NEW u, NEW v, NEW i, NEW c, Sound(u), i \in DOMAIN u.contexts, c \in ContextRecord, Replaces(u, v, i, c)
    PROVE  /\ DOMAIN v.contexts = DOMAIN u.contexts /\ v.contexts \in Seq(ContextRecord) /\ Len(v.contexts) = Len(u.contexts)
           /\ v.contexts[i] = c /\ \A j \in DOMAIN u.contexts : j # i => v.contexts[j] = u.contexts[j]
           /\ v.devices = u.devices /\ v.device_sources = u.device_sources /\ v.filters = u.filters
           /\ v.mapping_entities = u.mapping_entities /\ v.mappings = u.mappings /\ v.default = u.default
<1>1. u.contexts \in Seq(ContextRecord)
  BY DEF Sound, ContextsSound
<1> QED BY <1>1, ContextPut DEF Replaces, Others, UiFields

LEMMA ContextCleared ==
    ASSUME NEW u, Sound(u), NEW i \in DOMAIN u.contexts
    PROVE  Sound(ClearIfSet(u, i)) /\ Replaces(u, ClearIfSet(u, i), i, Taken(u.contexts[i]))
<1>1. CASE u.contexts[i].has_device_mappings
  BY <1>1, MappingsCleared DEF ClearIfSet, Replaces
<1>2. CASE ~u.contexts[i].has_device_mappings
  <2>1. u.contexts[i] \in ContextRecord /\ u.contexts \in Seq(ContextRecord)
    BY ContextOfSound
  <2>2. Taken(u.contexts[i]) = u.contexts[i]
    BY <1>2, <2>1 DEF Taken, ContextRecord
  <2>3. u.contexts = [u.contexts EXCEPT ![i] = u.contexts[i]]
    BY <2>1
  <2>4. ClearIfSet(u, i) = u
    BY <1>2 DEF ClearIfSet
  <2> QED BY <2>2, <2>3, <2>4 DEF Replaces, Others, Sound
<1> QED BY <1>1, <1>2

LEMMA DeviceIn ==
    ASSUME NEW u, Sound(u), NEW i \in DOMAIN u.contexts, ~u.contexts[i].has_device_mappings,
           NEW d \in u.devices, d \notin u.contexts[i].devices
    PROVE  LET c == [u.contexts[i] EXCEPT !.devices = @ \cup {d}]
           IN  c \in ContextRecord /\ Sound(context_add_device(u, i, d)) /\ Replaces(u, context_add_device(u, i, d), i, c)
<1> DEFINE c == [u.contexts[i] EXCEPT !.devices = @ \cup {d}]  v == context_add_device(u, i, d)
<1>1. u.contexts[i] \in ContextRecord /\ ContextSound(u, u.contexts[i]) /\ DOMAIN u = UiFields /\ u.ok = TRUE /\ d \in UiIds
  BY ContextOfSound
<1>2. c \in ContextRecord /\ c.asset = u.contexts[i].asset /\ ContextSound(u, c)
      /\ ~c.has_device_mappings /\ c.has_device_mappings = u.contexts[i].has_device_mappings
  BY <1>1 DEF ContextRecord, ContextSound
<1>3. v.contexts = [u.contexts EXCEPT ![i] = c] /\ Others(u, v, {"contexts"})
  BY <1>1 DEF context_add_device, Require, Others, UiFields
<1> HIDE DEF c, v
<1>4. Sound(v)
  <2>1. Others(u, v, {"contexts", "called", "ready"})
    BY <1>3 DEF Others
  <2> QED BY <1>2, <1>3, <2>1, ContextChanged
<1>5. Replaces(u, v, i, c)
  BY <1>3 DEF Replaces, Others
<1> QED BY <1>2, <1>4, <1>5 DEF c, v

LEMMA DeviceOut ==
    ASSUME NEW u, Sound(u), NEW i \in DOMAIN u.contexts, ~u.contexts[i].has_device_mappings,
           NEW d \in u.contexts[i].devices
    PROVE  LET c == [u.contexts[i] EXCEPT !.devices = @ \ {d}]
           IN  c \in ContextRecord /\ Sound(context_remove_device(u, i, d)) /\ Replaces(u, context_remove_device(u, i, d), i, c)
<1> DEFINE c == [u.contexts[i] EXCEPT !.devices = @ \ {d}]  v == context_remove_device(u, i, d)
<1>1. u.contexts[i] \in ContextRecord /\ ContextSound(u, u.contexts[i]) /\ DOMAIN u = UiFields /\ u.ok = TRUE /\ d \in u.devices
  BY ContextOfSound
<1>2. c \in ContextRecord /\ c.asset = u.contexts[i].asset /\ ContextSound(u, c)
      /\ ~c.has_device_mappings /\ c.has_device_mappings = u.contexts[i].has_device_mappings
  BY <1>1 DEF ContextRecord, ContextSound
<1>3. v.contexts = [u.contexts EXCEPT ![i] = c] /\ Others(u, v, {"contexts"})
  BY <1>1 DEF context_remove_device, Require, Others, UiFields
<1> HIDE DEF c, v
<1>4. Sound(v)
  <2>1. Others(u, v, {"contexts", "called", "ready"})
    BY <1>3 DEF Others
  <2> QED BY <1>2, <1>3, <2>1, ContextChanged
<1>5. Replaces(u, v, i, c)
  BY <1>3 DEF Replaces, Others
<1> QED BY <1>2, <1>4, <1>5 DEF c, v

LEMMA StateSet ==
    ASSUME NEW u, Sound(u), NEW i \in DOMAIN u.contexts, ~u.contexts[i].has_device_mappings, NEW s \in UiStates
    PROVE  LET c == [u.contexts[i] EXCEPT !.active = s]
           IN  c \in ContextRecord /\ Sound(set_active(u, i, s)) /\ Replaces(u, set_active(u, i, s), i, c)
<1> DEFINE c == [u.contexts[i] EXCEPT !.active = s]  v == set_active(u, i, s)
<1>1. u.contexts[i] \in ContextRecord /\ ContextSound(u, u.contexts[i]) /\ DOMAIN u = UiFields /\ u.ok = TRUE
  BY ContextOfSound
<1>2. c \in ContextRecord /\ c.asset = u.contexts[i].asset /\ ContextSound(u, c)
      /\ ~c.has_device_mappings /\ c.has_device_mappings = u.contexts[i].has_device_mappings
  BY <1>1 DEF ContextRecord, ContextSound
<1>3. HasState(u.contexts[i], s)
  BY <1>1 DEF HasState, ContextSound
<1>4. v.contexts = [u.contexts EXCEPT ![i] = c] /\ Others(u, v, {"contexts"})
  BY <1>1, <1>3 DEF set_active, Require, Others, UiFields
<1> HIDE DEF c, v
<1>5. Sound(v)
  <2>1. Others(u, v, {"contexts", "called", "ready"})
    BY <1>4 DEF Others
  <2> QED BY <1>2, <1>4, <2>1, ContextChanged
<1>6. Replaces(u, v, i, c)
  BY <1>4 DEF Replaces, Others
<1> QED BY <1>2, <1>5, <1>6 DEF c, v

\* A binding for another state than the active one gives nothing.
LEMMA OtherState ==
    ASSUME NEW u, NEW c, NEW d, d.devices = c.devices, d.active = c.active,
           \A b : b[1] = c.active => (b \in d.bound <=> b \in c.bound)
    PROVE  Rows(u, d) = Rows(u, c)
<1>1. \A e, b, m : Gives(u, d, e, b, m) <=> Gives(u, c, e, b, m)
  BY DEF Gives
<1>2. \A r : r \in Rows(u, d) <=> r \in Rows(u, c)
  BY <1>1, RowIs
<1> QED BY <1>2 DEF Rows

LEMMA MappingAdded ==
    ASSUME NEW u, Sound(u), NEW i \in DOMAIN u.contexts, NEW x, x.state \in UiStates, x.mapping \in UiMappings, x.callback \in UiStates,
           u.contexts[i].has_device_mappings => x.state # u.contexts[i].active,
           UiUser[x.mapping] = u.contexts[i].asset, x.mapping \in u.mapping_entities,
           \A b \in u.contexts[i].bound : b[1] = x.state => b[2] # x.mapping /\ UiCodes[b[2]] \cap UiCodes[x.mapping] = {}
    PROVE  LET c == [u.contexts[i] EXCEPT !.bound = @ \cup {<<x.state, x.mapping, x.callback>>}]
           IN  c \in ContextRecord /\ Sound(add_mapping(u, i, x)) /\ Replaces(u, add_mapping(u, i, x), i, c)
<1> DEFINE e == <<x.state, x.mapping, x.callback>>
           c == [u.contexts[i] EXCEPT !.bound = @ \cup {e}]
           v == add_mapping(u, i, x)
<1>1. u.contexts[i] \in ContextRecord /\ ContextSound(u, u.contexts[i]) /\ DOMAIN u = UiFields /\ u.ok = TRUE
  BY ContextOfSound
<1>2. /\ c \in ContextRecord /\ c.asset = u.contexts[i].asset /\ c.has_device_mappings = u.contexts[i].has_device_mappings
      /\ c.bound = u.contexts[i].bound \cup {e} /\ c.devices = u.contexts[i].devices /\ c.active = u.contexts[i].active
      /\ c.states = u.contexts[i].states
  BY <1>1 DEF ContextRecord
<1>3. ContextSound(u, c)
  <2>1. \A b \in c.bound : UiUser[b[2]] = c.asset /\ b[2] \in u.mapping_entities
    BY <1>1, <1>2 DEF ContextSound
  <2>2. \A a, b \in c.bound : a[1] = b[1] /\ a # b => UiCodes[a[2]] \cap UiCodes[b[2]] = {}
    <3> HIDE DEF c
    <3>1. e[1] = x.state /\ e[2] = x.mapping
      OBVIOUS
    <3> HIDE DEF e
    <3> QED BY <1>1, <1>2, <3>1 DEF ContextSound
  <2> QED BY <1>1, <1>2, <2>1, <2>2 DEF ContextSound
<1>4. HasState(u.contexts[i], x.state) /\ Untouched(u.contexts[i], x.state)
  BY <1>1 DEF HasState, ContextSound, Untouched
<1>5. \A b \in u.contexts[i].bound : <<b[1], b[2]>> # <<x.state, x.mapping>>
  OBVIOUS
<1>6. v.contexts = [u.contexts EXCEPT ![i] = c] /\ Others(u, v, {"contexts"})
  BY <1>1, <1>4, <1>5 DEF add_mapping, Require, Others, UiFields
<1>7. c.has_device_mappings => Rows(u, c) = Rows(u, u.contexts[i])
  <2> SUFFICES ASSUME c.has_device_mappings PROVE Rows(u, c) = Rows(u, u.contexts[i])
    OBVIOUS
  <2>1. e[1] # c.active
    BY <1>2
  <2> HIDE DEF c, e
  <2> QED BY <1>2, <2>1, OtherState
<1> HIDE DEF c, v
<1>8. Sound(v)
  <2>1. Others(u, v, {"contexts", "called", "ready"})
    BY <1>6 DEF Others
  <2> QED BY <1>2, <1>3, <1>6, <1>7, <2>1, ContextChanged
<1>9. Replaces(u, v, i, c)
  BY <1>6 DEF Replaces, Others
<1> QED BY <1>2, <1>8, <1>9 DEF c, v

LEMMA MappingRemoved ==
    ASSUME NEW u, Sound(u), NEW i \in DOMAIN u.contexts, NEW x, x.state \in UiStates, x.mapping \in UiMappings,
           u.contexts[i].has_device_mappings => x.state # u.contexts[i].active,
           \E b \in u.contexts[i].bound : b[1] = x.state /\ b[2] = x.mapping
    PROVE  LET c == [u.contexts[i] EXCEPT !.bound = {b \in @ : <<b[1], b[2]>> # <<x.state, x.mapping>>}]
           IN  c \in ContextRecord /\ Sound(remove_mapping(u, i, x)) /\ Replaces(u, remove_mapping(u, i, x), i, c)
<1> DEFINE less == {b \in u.contexts[i].bound : <<b[1], b[2]>> # <<x.state, x.mapping>>}
           c == [u.contexts[i] EXCEPT !.bound = {b \in @ : <<b[1], b[2]>> # <<x.state, x.mapping>>}]
           v == remove_mapping(u, i, x)
<1>1. u.contexts[i] \in ContextRecord /\ ContextSound(u, u.contexts[i]) /\ DOMAIN u = UiFields /\ u.ok = TRUE
  BY ContextOfSound
<1>2. /\ c \in ContextRecord /\ c.asset = u.contexts[i].asset /\ c.has_device_mappings = u.contexts[i].has_device_mappings
      /\ c.bound = less /\ c.devices = u.contexts[i].devices /\ c.active = u.contexts[i].active
      /\ c.states = u.contexts[i].states
  BY <1>1 DEF ContextRecord
<1>3. ContextSound(u, c)
  BY <1>1, <1>2 DEF ContextSound
<1>4. HasState(u.contexts[i], x.state) /\ Untouched(u.contexts[i], x.state)
  BY <1>1 DEF HasState, ContextSound, Untouched
<1>5. \E b \in u.contexts[i].bound : <<b[1], b[2]>> = <<x.state, x.mapping>>
  OBVIOUS
<1>6. v.contexts = [u.contexts EXCEPT ![i] = c] /\ Others(u, v, {"contexts"})
  BY <1>1, <1>4, <1>5 DEF remove_mapping, Require, Others, UiFields
<1>7. c.has_device_mappings => Rows(u, c) = Rows(u, u.contexts[i])
  <2> SUFFICES ASSUME c.has_device_mappings PROVE Rows(u, c) = Rows(u, u.contexts[i])
    OBVIOUS
  <2>1. \A b : b[1] = c.active => (b \in less <=> b \in u.contexts[i].bound)
    BY <1>2
  <2> HIDE DEF c, less
  <2> QED BY <1>2, <2>1, OtherState
<1> HIDE DEF c, v
<1>8. Sound(v)
  <2>1. Others(u, v, {"contexts", "called", "ready"})
    BY <1>6 DEF Others
  <2> QED BY <1>2, <1>3, <1>6, <1>7, <2>1, ContextChanged
<1>9. Replaces(u, v, i, c)
  BY <1>6 DEF Replaces, Others
<1> QED BY <1>2, <1>8, <1>9 DEF c, v

-----------------------------------------------------------------------------
(* The messages of the client, one by one.                                 *)

LEMMA UiMessageIs ==
    ASSUME NEW x \in UiMessage
    PROVE  /\ x.type \in {"AddFilter", "AddContext", "RemoveContext", "AddDevice", "RemoveDevice", "SetState", "Bind",
                          "Unbind", "QueryDevices", "QueryContexts"}
           /\ x.type = "AddFilter" => x.mapping \in UiMappings /\ x.code \in Buttons \cup Axes /\ x.kind \in FilterKinds
           /\ x.type = "AddContext" => x.context \in UiContexts /\ x.states \in Seq(UiStates)
           /\ x.type \in {"RemoveContext", "AddDevice", "RemoveDevice", "SetState", "Bind", "Unbind"} => x.context \in UiContexts
           /\ x.type \in {"AddDevice", "RemoveDevice"} => x.id \in UiIds
           /\ x.type \in {"SetState", "Bind", "Unbind"} => x.state \in UiStates
           /\ x.type \in {"Bind", "Unbind"} => x.mapping \in UiMappings
           /\ x.type = "Bind" => x.callback \in UiStates
BY DEF UiMessage

\* The messages for one context, and what they make of what is bound in it and of its devices.
ContextTypes == {"AddDevice", "RemoveDevice", "SetState", "Bind", "Unbind"}

BoundBy(x, bound) ==
    IF x.type = "Bind" THEN bound \cup {<<x.state, x.mapping, x.callback>>}
    ELSE IF x.type = "Unbind" THEN {b \in bound : <<b[1], b[2]>> # <<x.state, x.mapping>>}
    ELSE bound

DevicesBy(x, devices) ==
    IF x.type = "AddDevice" THEN devices \cup {x.id}
    ELSE IF x.type = "RemoveDevice" THEN devices \ {x.id}
    ELSE devices

\* v is what x, a message for the context i, makes of u.
OnContext(u, x, i, v) ==
    \E c \in ContextRecord :
        /\ c.asset = u.contexts[i].asset
        /\ c.bound = BoundBy(x, u.contexts[i].bound)
        /\ c.devices = DevicesBy(x, u.contexts[i].devices)
        /\ Replaces(u, v, i, c)

LEMMA ContextHas ==
    ASSUME NEW u, Sound(u), NEW a, HasContext(u, a)
    PROVE  find_context(u, a) \in DOMAIN u.contexts /\ ContextOf(u, a) = u.contexts[find_context(u, a)] /\ ContextOf(u, a).asset = a
BY FindIs DEF Sound, HasContext, ContextOf

\* The context once its device mappings are cleared.
LEMMA ClearedIs ==
    ASSUME NEW u, Sound(u), NEW i \in DOMAIN u.contexts, NEW w, w = ClearIfSet(u, i)
    PROVE  /\ Sound(w) /\ i \in DOMAIN w.contexts /\ w.contexts[i] \in ContextRecord /\ ~w.contexts[i].has_device_mappings
           /\ Replaces(u, w, i, w.contexts[i])
           /\ w.contexts[i].asset = u.contexts[i].asset /\ w.contexts[i].bound = u.contexts[i].bound
           /\ w.contexts[i].devices = u.contexts[i].devices /\ w.contexts[i].active = u.contexts[i].active
           /\ w.devices = u.devices /\ w.mapping_entities = u.mapping_entities
<1> DEFINE c == Taken(u.contexts[i])
<1>1. Sound(w) /\ Replaces(u, w, i, c)
  BY ContextCleared
<1>2. c \in ContextRecord /\ ~c.has_device_mappings /\ c.asset = u.contexts[i].asset /\ c.bound = u.contexts[i].bound
      /\ c.devices = u.contexts[i].devices /\ c.active = u.contexts[i].active
  <2>1. u.contexts[i] \in ContextRecord
    BY ContextOfSound
  <2> QED BY <2>1, SwitchedIs DEF Switched
<1> HIDE DEF c
<1>3. DOMAIN w.contexts = DOMAIN u.contexts /\ w.contexts[i] = c /\ w.devices = u.devices /\ w.mapping_entities = u.mapping_entities
  BY <1>1, <1>2, ReplacesIs
<1> QED BY <1>1, <1>2, <1>3

LEMMA AddDeviceKeeps ==
    ASSUME NEW u, Sound(u), NEW x \in UiMessage, x.type = "AddDevice", Fits(u, x), NEW i, i = find_context(u, x.context)
    PROVE  Sound(AddDevice(u, x)) /\ OnContext(u, x, i, AddDevice(u, x))
<1> DEFINE w == ClearIfSet(u, i)  c == [w.contexts[i] EXCEPT !.devices = @ \cup {x.id}]
<1>1. i \in DOMAIN u.contexts /\ x.id \in u.devices /\ x.id \notin u.contexts[i].devices
  BY ContextHas DEF Fits
<1>2. /\ Sound(w) /\ i \in DOMAIN w.contexts /\ w.contexts[i] \in ContextRecord /\ ~w.contexts[i].has_device_mappings
      /\ Replaces(u, w, i, w.contexts[i]) /\ w.contexts[i].asset = u.contexts[i].asset /\ w.contexts[i].bound = u.contexts[i].bound
      /\ w.contexts[i].devices = u.contexts[i].devices /\ w.devices = u.devices
  BY <1>1, ClearedIs
<1>3. AddDevice(u, x) = context_add_device(w, i, x.id)
  BY DEF AddDevice
<1> HIDE DEF w
<1>4. c \in ContextRecord /\ Sound(AddDevice(u, x)) /\ Replaces(w, AddDevice(u, x), i, c)
  BY <1>1, <1>2, <1>3, DeviceIn
<1>5. c.asset = u.contexts[i].asset /\ c.bound = u.contexts[i].bound /\ c.devices = u.contexts[i].devices \cup {x.id}
  BY <1>2 DEF ContextRecord
<1> HIDE DEF c
<1>6. Replaces(u, AddDevice(u, x), i, c)
  BY <1>1, <1>2, <1>4, ReplacesTwice
<1>7. c.bound = BoundBy(x, u.contexts[i].bound) /\ c.devices = DevicesBy(x, u.contexts[i].devices)
  BY <1>5 DEF BoundBy, DevicesBy
<1> QED BY <1>4, <1>5, <1>6, <1>7 DEF OnContext

LEMMA RemoveDeviceKeeps ==
    ASSUME NEW u, Sound(u), NEW x \in UiMessage, x.type = "RemoveDevice", Fits(u, x), NEW i, i = find_context(u, x.context)
    PROVE  Sound(RemoveDevice(u, x)) /\ OnContext(u, x, i, RemoveDevice(u, x))
<1> DEFINE w == ClearIfSet(u, i)  c == [w.contexts[i] EXCEPT !.devices = @ \ {x.id}]
<1>1. i \in DOMAIN u.contexts /\ x.id \in u.contexts[i].devices
  BY ContextHas DEF Fits
<1>2. /\ Sound(w) /\ i \in DOMAIN w.contexts /\ w.contexts[i] \in ContextRecord /\ ~w.contexts[i].has_device_mappings
      /\ Replaces(u, w, i, w.contexts[i]) /\ w.contexts[i].asset = u.contexts[i].asset /\ w.contexts[i].bound = u.contexts[i].bound
      /\ w.contexts[i].devices = u.contexts[i].devices
  BY <1>1, ClearedIs
<1>3. RemoveDevice(u, x) = context_remove_device(w, i, x.id)
  BY DEF RemoveDevice
<1> HIDE DEF w
<1>4. c \in ContextRecord /\ Sound(RemoveDevice(u, x)) /\ Replaces(w, RemoveDevice(u, x), i, c)
  BY <1>1, <1>2, <1>3, DeviceOut
<1>5. c.asset = u.contexts[i].asset /\ c.bound = u.contexts[i].bound /\ c.devices = u.contexts[i].devices \ {x.id}
  BY <1>2 DEF ContextRecord
<1> HIDE DEF c
<1>6. Replaces(u, RemoveDevice(u, x), i, c)
  BY <1>1, <1>2, <1>4, ReplacesTwice
<1>7. c.bound = BoundBy(x, u.contexts[i].bound) /\ c.devices = DevicesBy(x, u.contexts[i].devices)
  BY <1>5 DEF BoundBy, DevicesBy
<1> QED BY <1>4, <1>5, <1>6, <1>7 DEF OnContext

LEMMA SetStateKeeps ==
    ASSUME NEW u, Sound(u), NEW x \in UiMessage, x.type = "SetState", Fits(u, x), NEW i, i = find_context(u, x.context)
    PROVE  Sound(SetState(u, x)) /\ OnContext(u, x, i, SetState(u, x))
<1> DEFINE w == ClearIfSet(u, i)  c == [w.contexts[i] EXCEPT !.active = x.state]
<1>1. i \in DOMAIN u.contexts /\ x.state \in UiStates
  BY ContextHas, UiMessageIs DEF Fits
<1>2. /\ Sound(w) /\ i \in DOMAIN w.contexts /\ w.contexts[i] \in ContextRecord /\ ~w.contexts[i].has_device_mappings
      /\ Replaces(u, w, i, w.contexts[i]) /\ w.contexts[i].asset = u.contexts[i].asset /\ w.contexts[i].bound = u.contexts[i].bound
      /\ w.contexts[i].devices = u.contexts[i].devices
  BY <1>1, ClearedIs
<1>3. SetState(u, x) = set_active(w, i, x.state)
  BY DEF SetState
<1> HIDE DEF w
<1>4. c \in ContextRecord /\ Sound(SetState(u, x)) /\ Replaces(w, SetState(u, x), i, c)
  BY <1>1, <1>2, <1>3, StateSet
<1>5. c.asset = u.contexts[i].asset /\ c.bound = u.contexts[i].bound /\ c.devices = u.contexts[i].devices
  BY <1>2 DEF ContextRecord
<1> HIDE DEF c
<1>6. Replaces(u, SetState(u, x), i, c)
  BY <1>1, <1>2, <1>4, ReplacesTwice
<1>7. c.bound = BoundBy(x, u.contexts[i].bound) /\ c.devices = DevicesBy(x, u.contexts[i].devices)
  BY <1>5 DEF BoundBy, DevicesBy
<1> QED BY <1>4, <1>5, <1>6, <1>7 DEF OnContext

\* When the state is not the active one the device mappings may stay.
LEMMA ClearedIfActive ==
    ASSUME NEW u, Sound(u), NEW i \in DOMAIN u.contexts, NEW s, NEW w, w = ClearIfActive(u, i, s)
    PROVE  /\ Sound(w) /\ i \in DOMAIN w.contexts /\ w.contexts[i] \in ContextRecord
           /\ w.contexts[i].has_device_mappings => s # w.contexts[i].active
           /\ Replaces(u, w, i, w.contexts[i])
           /\ w.contexts[i].asset = u.contexts[i].asset /\ w.contexts[i].bound = u.contexts[i].bound
           /\ w.contexts[i].devices = u.contexts[i].devices /\ w.mapping_entities = u.mapping_entities
<1>1. CASE u.contexts[i].active = s
  <2>1. w = ClearIfSet(u, i)
    BY <1>1 DEF ClearIfActive
  <2> QED BY <2>1, ClearedIs
<1>2. CASE u.contexts[i].active # s
  <2>1. w = u
    BY <1>2 DEF ClearIfActive
  <2>2. u.contexts[i] \in ContextRecord /\ u.contexts \in Seq(ContextRecord) /\ DOMAIN u = UiFields
    BY ContextOfSound
  <2>3. u.contexts = [u.contexts EXCEPT ![i] = u.contexts[i]]
    BY <2>2
  <2> QED BY <1>2, <2>1, <2>2, <2>3 DEF Replaces, Others
<1> QED BY <1>1, <1>2

\* A mapping that is filled is there.
LEMMA FilledIs ==
    ASSUME NEW u, Sound(u), NEW m \in UiMappings, Filled(u, m) = UiCodes[m]
    PROVE  m \in u.mapping_entities
<1>1. PICK c : c \in Filled(u, m)
  BY UiCodesAssumption
<1>2. PICK e \in u.mappings : e[1] = m
  BY <1>1 DEF Filled
<1> QED BY <1>2 DEF Sound, MappingsSound

LEMMA BindKeeps ==
    ASSUME NEW u, Sound(u), NEW x \in UiMessage, x.type = "Bind", Fits(u, x), NEW i, i = find_context(u, x.context)
    PROVE  Sound(Bind(u, x)) /\ OnContext(u, x, i, Bind(u, x))
<1> DEFINE w == ClearIfActive(u, i, x.state)
           c == [w.contexts[i] EXCEPT !.bound = @ \cup {<<x.state, x.mapping, x.callback>>}]
<1>1. x.state \in UiStates /\ x.mapping \in UiMappings /\ x.callback \in UiStates
  BY UiMessageIs
<1>2. /\ i \in DOMAIN u.contexts /\ u.contexts[i].asset = x.context /\ ContextOf(u, x.context) = u.contexts[i]
      /\ UiUser[x.mapping] = x.context /\ Filled(u, x.mapping) = UiCodes[x.mapping]
      /\ x.mapping \notin BoundTo(u, x.context, x.state)
      /\ \A n \in BoundTo(u, x.context, x.state) : UiCodes[n] \cap UiCodes[x.mapping] = {}
  BY ContextHas DEF Fits
<1>3. \A b \in u.contexts[i].bound : b[1] = x.state => b[2] # x.mapping /\ UiCodes[b[2]] \cap UiCodes[x.mapping] = {}
  BY <1>2 DEF BoundTo
<1>4. /\ Sound(w) /\ i \in DOMAIN w.contexts /\ w.contexts[i] \in ContextRecord
      /\ w.contexts[i].has_device_mappings => x.state # w.contexts[i].active
      /\ Replaces(u, w, i, w.contexts[i]) /\ w.contexts[i].asset = u.contexts[i].asset /\ w.contexts[i].bound = u.contexts[i].bound
      /\ w.contexts[i].devices = u.contexts[i].devices /\ w.mapping_entities = u.mapping_entities
  BY <1>2, ClearedIfActive
<1>5. Bind(u, x) = add_mapping(w, i, x)
  BY DEF Bind
<1> HIDE DEF w
<1>6. x.mapping \in w.mapping_entities
  BY <1>1, <1>2, <1>4, FilledIs
<1>7. c \in ContextRecord /\ Sound(Bind(u, x)) /\ Replaces(w, Bind(u, x), i, c)
  BY <1>1, <1>2, <1>3, <1>4, <1>5, <1>6, MappingAdded
<1>8. /\ c.asset = u.contexts[i].asset /\ c.bound = u.contexts[i].bound \cup {<<x.state, x.mapping, x.callback>>}
      /\ c.devices = u.contexts[i].devices
  BY <1>4 DEF ContextRecord
<1> HIDE DEF c
<1>9. Replaces(u, Bind(u, x), i, c)
  BY <1>2, <1>4, <1>7, ReplacesTwice
<1>10. c.bound = BoundBy(x, u.contexts[i].bound) /\ c.devices = DevicesBy(x, u.contexts[i].devices)
  BY <1>8 DEF BoundBy, DevicesBy
<1> QED BY <1>7, <1>8, <1>9, <1>10 DEF OnContext

LEMMA UnbindKeeps ==
    ASSUME NEW u, Sound(u), NEW x \in UiMessage, x.type = "Unbind", Fits(u, x), NEW i, i = find_context(u, x.context)
    PROVE  Sound(Unbind(u, x)) /\ OnContext(u, x, i, Unbind(u, x))
<1> DEFINE w == ClearIfActive(u, i, x.state)
           c == [w.contexts[i] EXCEPT !.bound = {b \in @ : <<b[1], b[2]>> # <<x.state, x.mapping>>}]
<1>1. x.state \in UiStates /\ x.mapping \in UiMappings
  BY UiMessageIs
<1>2. /\ i \in DOMAIN u.contexts /\ ContextOf(u, x.context) = u.contexts[i]
      /\ x.mapping \in BoundTo(u, x.context, x.state)
  BY ContextHas DEF Fits
<1>3. \E b \in u.contexts[i].bound : b[1] = x.state /\ b[2] = x.mapping
  BY <1>2 DEF BoundTo
<1>4. /\ Sound(w) /\ i \in DOMAIN w.contexts /\ w.contexts[i] \in ContextRecord
      /\ w.contexts[i].has_device_mappings => x.state # w.contexts[i].active
      /\ Replaces(u, w, i, w.contexts[i]) /\ w.contexts[i].asset = u.contexts[i].asset /\ w.contexts[i].bound = u.contexts[i].bound
      /\ w.contexts[i].devices = u.contexts[i].devices
  BY <1>2, ClearedIfActive
<1>5. Unbind(u, x) = remove_mapping(w, i, x)
  BY DEF Unbind
<1> HIDE DEF w
<1>6. \E b \in w.contexts[i].bound : b[1] = x.state /\ b[2] = x.mapping
  BY <1>3, <1>4
<1>7. c \in ContextRecord /\ Sound(Unbind(u, x)) /\ Replaces(w, Unbind(u, x), i, c)
  BY <1>1, <1>4, <1>5, <1>6, MappingRemoved
<1>8. /\ c.asset = u.contexts[i].asset /\ c.bound = {b \in u.contexts[i].bound : <<b[1], b[2]>> # <<x.state, x.mapping>>}
      /\ c.devices = u.contexts[i].devices
  BY <1>4 DEF ContextRecord
<1> HIDE DEF c
<1>9. Replaces(u, Unbind(u, x), i, c)
  BY <1>2, <1>4, <1>7, ReplacesTwice
<1>10. c.bound = BoundBy(x, u.contexts[i].bound) /\ c.devices = DevicesBy(x, u.contexts[i].devices)
  BY <1>8 DEF BoundBy, DevicesBy
<1> QED BY <1>7, <1>8, <1>9, <1>10 DEF OnContext

-----------------------------------------------------------------------------
(* The other messages of the client.                                       *)

\* What AddFilter makes of the mappings.
FilterAdded(u, x, v) ==
    /\ Others(u, v, {"filters", "mapping_entities", "mappings"})
    /\ v.filters = Append(u.filters, x.kind)
    /\ v.mapping_entities = u.mapping_entities \cup {x.mapping}
    /\ v.mappings = u.mappings \cup {<<x.mapping, x.code, Len(u.filters) + 1>>}

LEMMA AddFilterKeeps ==
    ASSUME NEW u, Sound(u), NEW x \in UiMessage, x.type = "AddFilter", Fits(u, x)
    PROVE  Sound(AddFilter(u, x)) /\ FilterAdded(u, x, AddFilter(u, x))
<1> DEFINE v == AddFilter(u, x)
           n == Len(u.filters) + 1
           e == <<x.mapping, x.code, n>>
<1>1. x.mapping \in UiMappings /\ x.code \in Buttons \cup Axes /\ x.kind \in FilterKinds
  BY UiMessageIs
<1>2. /\ x.code \in UiCodes[x.mapping] /\ x.code \notin Filled(u, x.mapping) /\ x.kind = UiKind[x.code]
      /\ x.mapping \notin BoundAnywhere(u)
  BY DEF Fits
<1>3. DOMAIN u = UiFields /\ u.ok = TRUE /\ u.filters \in Seq(FilterKinds) /\ n \in Nat
  BY DEF Sound, MappingsSound
<1>4. \A m \in u.mappings : m[1] = x.mapping => m[2] # x.code
  BY <1>2 DEF Filled
<1>5. \A m \in u.mappings : <<m[1], m[2]>> # <<x.mapping, x.code>>
  BY <1>4
<1>6. FilterAdded(u, x, v)
  BY <1>3, <1>5 DEF AddFilter, FilterAdded, Require, Others, UiFields
<1> HIDE DEF v
<1>7. /\ v.devices = u.devices /\ v.device_sources = u.device_sources /\ v.contexts = u.contexts /\ v.default = u.default
      /\ v.ok = u.ok /\ v.device_mappings = u.device_mappings /\ DOMAIN v = UiFields
      /\ v.filters = Append(u.filters, x.kind) /\ v.mapping_entities = u.mapping_entities \cup {x.mapping}
      /\ v.mappings = u.mappings \cup {e}
  BY <1>6 DEF FilterAdded, Others, UiFields
<1>8. MappingsSound(v)
  <2>1. v.filters \in Seq(FilterKinds) /\ Len(v.filters) = n /\ v.filters[n] = x.kind
        /\ \A k \in 1 .. Len(u.filters) : k \in 1 .. n /\ v.filters[k] = u.filters[k]
    BY <1>1, <1>3, <1>7
  <2>2. MappingsSound(u)
    BY DEF Sound
  <2>3. e \in UiMappings \X (Buttons \cup Axes) \X Nat /\ e[1] = x.mapping /\ e[2] = x.code /\ e[3] = n /\ n \in 1 .. n
    BY <1>1, <1>3
  <2> HIDE DEF e
  <2>4. v.mappings \subseteq UiMappings \X (Buttons \cup Axes) \X Nat
    BY <1>7, <2>2, <2>3 DEF MappingsSound
  <2>5. ASSUME NEW m \in v.mappings
        PROVE  /\ m[1] \in v.mapping_entities
               /\ m[2] \in UiCodes[m[1]]
               /\ m[3] \in 1 .. Len(v.filters) /\ v.filters[m[3]] = UiKind[m[2]]
    <3>1. CASE m = e
      BY <1>2, <1>7, <2>1, <2>3, <3>1
    <3>2. CASE m \in u.mappings
      BY <1>7, <2>1, <2>2, <3>2 DEF MappingsSound
    <3> QED BY <1>7, <3>1, <3>2
  <2>6. \A m, k \in v.mappings : m[1] = k[1] /\ m[2] = k[2] => m = k
    BY <1>4, <1>7, <2>2, <2>3 DEF MappingsSound
  <2> HIDE DEF n
  <2> QED BY <2>1, <2>4, <2>5, <2>6 DEF MappingsSound
<1>9. \A i \in DOMAIN u.contexts : Rows(v, u.contexts[i]) = Rows(u, u.contexts[i])
  <2> TAKE i \in DOMAIN u.contexts
  <2>1. \A b \in u.contexts[i].bound : b[2] # x.mapping
    BY <1>2 DEF BoundAnywhere
  <2>2. e[1] = x.mapping
    OBVIOUS
  <2> HIDE DEF e
  <2>3. \A d, b, m : Gives(v, u.contexts[i], d, b, m) <=> Gives(u, u.contexts[i], d, b, m)
    BY <1>7, <2>1, <2>2 DEF Gives
  <2>4. \A r : r \in Rows(v, u.contexts[i]) <=> r \in Rows(u, u.contexts[i])
    BY <2>3, RowIs
  <2> QED BY <2>4 DEF Rows
<1>10. RowsSound(v)
  <2>1. \A r : r \in u.device_mappings <=>
            \E i \in DOMAIN u.contexts : u.contexts[i].has_device_mappings /\ r \in Rows(u, u.contexts[i])
    BY HeldIs DEF Sound
  <2>2. \A r : r \in v.device_mappings <=>
            \E i \in DOMAIN v.contexts : v.contexts[i].has_device_mappings /\ r \in Rows(v, v.contexts[i])
    BY <1>7, <1>9, <2>1
  <2> QED BY <2>2, RowsHeld
<1>11. ContextsSound(v) /\ DevicesSound(v)
  BY <1>7 DEF Sound, ContextsSound, ContextSound, DevicesSound
<1>12. Sound(v)
  BY <1>7, <1>8, <1>10, <1>11 DEF Sound
<1> QED BY <1>6, <1>12 DEF v

\* What AddContext makes of the contexts: it gets all devices when it is the first.
ContextAdded(u, x, v) ==
    \E c \in ContextRecord :
        /\ c.asset = x.context /\ c.bound = {} /\ ~c.has_device_mappings
        /\ c.devices = (IF u.contexts = <<>> THEN u.devices ELSE {})
        /\ Others(u, v, {"contexts", "default"})
        /\ v.contexts = Append(u.contexts, c)

LEMMA AddContextKeeps ==
    ASSUME NEW u, Sound(u), NEW x \in UiMessage, x.type = "AddContext", Fits(u, x)
    PROVE  Sound(AddContext(u, x)) /\ ContextAdded(u, x, AddContext(u, x))
<1> DEFINE v == AddContext(u, x)
           devices == IF u.contexts = <<>> THEN u.devices ELSE {}
           c == [Context(x.context, x.states) EXCEPT !.devices = devices]
           n == Len(u.contexts)
<1>1. x.context \in UiContexts /\ x.states \in Seq(UiStates) /\ Range(x.states) = UiStates
  BY UiMessageIs DEF Fits
<1>2. find_context(u, x.context) = 0 /\ \A i \in DOMAIN u.contexts : u.contexts[i].asset # x.context
  BY FindIs DEF Fits, HasContext, Sound
<1>3. DOMAIN u = UiFields /\ u.ok = TRUE /\ u.contexts \in Seq(ContextRecord) /\ u.devices \subseteq UiIds /\ ContextsSound(u)
  BY DEF Sound, ContextsSound, DevicesSound
<1>4. x.states # <<>> /\ Head(x.states) \in UiStates
  <2>1. x.states # <<>>
    BY <1>1, UiStatesAssumption DEF Range
  <2> QED BY <1>1, <2>1
<1>5. devices \subseteq u.devices /\ devices \in SUBSET UiIds
  BY <1>3
<1>6. v = [Require(u, find_context(u, x.context) = 0) EXCEPT
              !.contexts = Append(@, c), !.default = IF u.contexts = <<>> THEN x.context ELSE @]
  BY DEF AddContext
<1> HIDE DEF devices, v
<1>7. /\ c \in ContextRecord /\ c.asset = x.context /\ c.bound = {} /\ ~c.has_device_mappings /\ c.devices = devices
      /\ c.states = x.states
  BY <1>1, <1>4, <1>5 DEF Context, ContextRecord
<1> HIDE DEF c
<1>8. /\ Others(u, v, {"contexts", "default"}) /\ v.contexts = Append(u.contexts, c)
      /\ v.default = IF u.contexts = <<>> THEN x.context ELSE u.default
  BY <1>2, <1>3, <1>6 DEF Require, Others, UiFields
<1>9. ContextAdded(u, x, v)
  BY <1>7, <1>8 DEF ContextAdded, devices
<1>10. /\ v.devices = u.devices /\ v.device_sources = u.device_sources /\ v.filters = u.filters
       /\ v.mapping_entities = u.mapping_entities /\ v.mappings = u.mappings /\ v.ok = u.ok
       /\ v.device_mappings = u.device_mappings /\ DOMAIN v = UiFields
  BY <1>8 DEF Others, UiFields
<1>11. /\ v.contexts \in Seq(ContextRecord) /\ DOMAIN u.contexts = 1 .. n /\ n \in Nat
       /\ DOMAIN v.contexts = (1 .. n) \cup {n + 1} /\ v.contexts[n + 1] = c
       /\ \A i \in 1 .. n : v.contexts[i] = u.contexts[i] /\ i # n + 1
  BY <1>3, <1>7, <1>8
<1> HIDE DEF n
<1>12. ContextsSound(v)
  <2>1. ContextSound(u, c)
    BY <1>1, <1>5, <1>7 DEF ContextSound
  <2>2. \A i \in DOMAIN v.contexts : ContextSound(u, v.contexts[i])
    BY <1>3, <1>11, <2>1 DEF ContextsSound
  <2>3. \A i \in DOMAIN v.contexts : ContextSound(v, v.contexts[i])
    BY <1>10, <2>2 DEF ContextSound
  <2>4. \A i, j \in DOMAIN v.contexts : v.contexts[i].asset = v.contexts[j].asset => i = j
    <3>1. \A i \in 1 .. n : v.contexts[i].asset = u.contexts[i].asset /\ v.contexts[i].asset # c.asset
      BY <1>2, <1>7, <1>11
    <3>2. \A i, j \in 1 .. n : v.contexts[i].asset = v.contexts[j].asset => i = j
      BY <1>3, <1>11, <3>1 DEF ContextsSound
    <3> QED BY <1>11, <3>1, <3>2
  <2>5. v.contexts # <<>> /\ v.default = v.contexts[1].asset
    <3>0. v.contexts # <<>>
      BY <1>3, <1>7, <1>8
    <3>1. CASE u.contexts = <<>>
      <4>1. n = 0
        BY <3>1 DEF n
      <4> QED BY <1>7, <1>8, <1>11, <3>0, <3>1, <4>1
    <3>2. CASE u.contexts # <<>>
      <4>1. 1 \in 1 .. n
        BY <1>3, <3>2 DEF n
      <4> QED BY <1>3, <1>8, <1>11, <3>0, <3>2, <4>1 DEF ContextsSound
    <3> QED BY <3>1, <3>2
  <2> QED BY <1>11, <2>3, <2>4, <2>5 DEF ContextsSound
<1>13. MappingsSound(v) /\ DevicesSound(v)
  BY <1>10 DEF Sound, MappingsSound, DevicesSound
<1>14. RowsSound(v)
  <2>1. \A i : Rows(v, i) = Rows(u, i)
    BY <1>10, RowsDepend
  <2>2. \A r : r \in u.device_mappings <=>
            \E i \in DOMAIN u.contexts : u.contexts[i].has_device_mappings /\ r \in Rows(u, u.contexts[i])
    BY HeldIs DEF Sound
  <2>3. \A r : r \in v.device_mappings <=>
            \E i \in DOMAIN v.contexts : v.contexts[i].has_device_mappings /\ r \in Rows(v, v.contexts[i])
    BY <1>7, <1>10, <1>11, <2>1, <2>2
  <2> QED BY <2>3, RowsHeld
<1>15. Sound(v)
  BY <1>10, <1>12, <1>13, <1>14 DEF Sound
<1> QED BY <1>9, <1>15 DEF v

\* What RemoveContext makes of the contexts, but for what tells whether their devices
\* have the mappings.
ContextGone(u, i, v) ==
    /\ Others(u, v, {"contexts", "default", "device_mappings"})
    /\ v.contexts \in Seq(ContextRecord) /\ Len(v.contexts) = Len(u.contexts) - 1
    /\ \A k \in 1 .. Len(u.contexts) - 1 : v.contexts[k] = u.contexts[IF k < i THEN k ELSE k + 1]

LEMMA RemoveContextKeeps ==
    ASSUME NEW u, Sound(u), NEW x \in UiMessage, x.type = "RemoveContext", Fits(u, x), NEW i, i = find_context(u, x.context)
    PROVE  Sound(RemoveContext(u, x)) /\ ContextGone(u, i, RemoveContext(u, x))
<1> DEFINE v == RemoveContext(u, x)
           w == ClearIfSet(u, i)
           s == RemoveAt(w.contexts, i)
           n == Len(u.contexts)
           At(k) == IF k < i THEN k ELSE k + 1
<1>1. i \in DOMAIN u.contexts /\ u.contexts[i].asset = x.context
  BY ContextHas DEF Fits
<1>2. /\ Sound(w) /\ w.contexts[i] \in ContextRecord /\ ~w.contexts[i].has_device_mappings
      /\ Replaces(u, w, i, w.contexts[i]) /\ w.contexts[i].asset = u.contexts[i].asset
  BY <1>1, ClearedIs
<1>3. /\ DOMAIN w = UiFields /\ w.ok = TRUE /\ ContextsSound(w) /\ w.contexts \in Seq(ContextRecord) /\ w.default = u.default
      /\ \A j \in DOMAIN u.contexts : j # i => w.contexts[j] = u.contexts[j]
  <2>1. w.default = u.default /\ \A j \in DOMAIN u.contexts : j # i => w.contexts[j] = u.contexts[j]
    BY <1>1, <1>2, ReplacesIs
  <2>2. DOMAIN w = UiFields /\ w.ok = TRUE /\ ContextsSound(w) /\ w.contexts \in Seq(ContextRecord)
    BY <1>2 DEF Sound, ContextsSound
  <2> QED BY <2>1, <2>2
<1>4. n \in Nat /\ DOMAIN u.contexts = 1 .. n /\ DOMAIN w.contexts = 1 .. n /\ Len(w.contexts) = n /\ i \in 1 .. n
  <2>1. u.contexts \in Seq(ContextRecord)
    BY DEF Sound, ContextsSound
  <2>2. Len(w.contexts) = Len(u.contexts)
    BY <1>1, <1>2, ReplacesIs
  <2> QED BY <1>1, <1>3, <2>1, <2>2
<1>5. v = IF x.context # u.default THEN [w EXCEPT !.contexts = s]
          ELSE [[w EXCEPT !.contexts = s] EXCEPT !.default = IF s = <<>> THEN NoContext ELSE s[1].asset]
  <2>1. [w EXCEPT !.contexts = RemoveAt(@, i)] = [w EXCEPT !.contexts = s]
    OBVIOUS
  <2> DEFINE z == [w EXCEPT !.contexts = s]
  <2>2. z.contexts = s
    BY <1>3 DEF UiFields
  <2>3. v = IF x.context # u.default THEN z ELSE [z EXCEPT !.default = IF z.contexts = <<>> THEN NoContext ELSE z.contexts[1].asset]
    BY <2>1 DEF RemoveContext
  <2> QED BY <2>2, <2>3
<1> HIDE DEF w, v, s, n
<1>6. /\ s \in Seq(ContextRecord) /\ Len(s) = n - 1 /\ DOMAIN s = 1 .. n - 1
      /\ \A k \in 1 .. n - 1 : s[k] = w.contexts[At(k)]
  <2>1. /\ s \in Seq(ContextRecord) /\ Len(s) = Len(w.contexts) - 1
        /\ \A k \in 1 .. Len(w.contexts) - 1 : s[k] = w.contexts[At(k)]
    BY <1>3, <1>4, RemovedAt DEF s
  <2> QED BY <1>4, <2>1
<1>7. \A k \in 1 .. n - 1 : At(k) \in 1 .. n /\ At(k) # i
  BY <1>4
<1>8. \A j \in 1 .. n : j # i => \E k \in 1 .. n - 1 : At(k) = j
  <2> TAKE j \in 1 .. n
  <2> HAVE j # i
  <2> DEFINE k == IF j < i THEN j ELSE j - 1
  <2>1. k \in 1 .. n - 1 /\ At(k) = j
    BY <1>4
  <2> QED BY <2>1
<1>9. \A k, l \in 1 .. n - 1 : At(k) = At(l) => k = l
  BY <1>4
<1>10. /\ v.contexts = s /\ DOMAIN v = UiFields /\ v.ok = w.ok
       /\ v.devices = w.devices /\ v.device_sources = w.device_sources /\ v.filters = w.filters
       /\ v.mapping_entities = w.mapping_entities /\ v.mappings = w.mappings
       /\ v.device_mappings = w.device_mappings /\ v.ready = w.ready /\ v.called = w.called
       /\ v.default = IF x.context # u.default THEN u.default ELSE IF s = <<>> THEN NoContext ELSE s[1].asset
  BY <1>3, <1>5 DEF UiFields
<1> HIDE DEF At
<1>11. ContextGone(u, i, v)
  <2>1. Others(u, v, {"contexts", "default", "device_mappings"})
    BY <1>2, <1>10 DEF Replaces, Others, UiFields
  <2>2. \A k \in 1 .. n - 1 : v.contexts[k] = u.contexts[IF k < i THEN k ELSE k + 1]
    BY <1>3, <1>4, <1>6, <1>7, <1>10 DEF At
  <2> QED BY <1>6, <1>10, <2>1, <2>2 DEF ContextGone, n
<1>12. ContextsSound(v)
  <2>1. \A k \in DOMAIN v.contexts : ContextSound(w, v.contexts[k])
    BY <1>3, <1>4, <1>6, <1>7, <1>10 DEF ContextsSound
  <2>2. \A k \in DOMAIN v.contexts : ContextSound(v, v.contexts[k])
    BY <1>10, <2>1 DEF ContextSound
  <2>3. \A j, k \in DOMAIN v.contexts : v.contexts[j].asset = v.contexts[k].asset => j = k
    BY <1>3, <1>4, <1>6, <1>7, <1>9, <1>10 DEF ContextsSound
  <2>4. v.default = IF v.contexts = <<>> THEN NoContext ELSE v.contexts[1].asset
    <3>1. CASE x.context = u.default
      BY <1>10, <3>1
    <3>2. CASE x.context # u.default
      <4>1. w.contexts # <<>> /\ u.default = w.contexts[1].asset
        <5>1. w.contexts # <<>>
          BY <1>3, <1>4
        <5> QED BY <5>1, <1>3 DEF ContextsSound
      <4>2. i # 1
        BY <1>1, <1>2, <3>2, <4>1
      <4>3. 1 \in 1 .. n - 1 /\ At(1) = 1
        BY <1>4, <4>2 DEF At
      <4>4. s # <<>> /\ s[1] = w.contexts[1]
        BY <1>6, <4>3
      <4> QED BY <1>10, <3>2, <4>1, <4>4
    <3> QED BY <3>1, <3>2
  <2> QED BY <1>6, <1>10, <2>2, <2>3, <2>4 DEF ContextsSound
<1>13. MappingsSound(v) /\ DevicesSound(v)
  BY <1>2, <1>10 DEF Sound, MappingsSound, DevicesSound
<1>14. RowsSound(v)
  <2>1. \A c : Rows(v, c) = Rows(w, c)
    BY <1>10, RowsDepend
  <2>2. \A r : r \in w.device_mappings <=>
            \E j \in DOMAIN w.contexts : w.contexts[j].has_device_mappings /\ r \in Rows(w, w.contexts[j])
    BY <1>2, HeldIs DEF Sound
  <2>3. \A r : r \in v.device_mappings <=>
            \E k \in DOMAIN v.contexts : v.contexts[k].has_device_mappings /\ r \in Rows(v, v.contexts[k])
    <3>1. ASSUME NEW r, r \in v.device_mappings
          PROVE  \E k \in DOMAIN v.contexts : v.contexts[k].has_device_mappings /\ r \in Rows(v, v.contexts[k])
      <4>1. PICK j \in 1 .. n : w.contexts[j].has_device_mappings /\ r \in Rows(w, w.contexts[j])
        BY <1>4, <1>10, <2>2, <3>1
      <4>2. PICK k \in 1 .. n - 1 : At(k) = j
        BY <1>2, <1>8, <4>1
      <4> QED BY <1>6, <1>10, <2>1, <4>1, <4>2
    <3>2. ASSUME NEW r, NEW k \in DOMAIN v.contexts, v.contexts[k].has_device_mappings, r \in Rows(v, v.contexts[k])
          PROVE  r \in v.device_mappings
      BY <1>4, <1>6, <1>7, <1>10, <2>1, <2>2, <3>2
    <3> QED BY <3>1, <3>2
  <2> QED BY <2>3, RowsHeld
<1>15. Sound(v)
  BY <1>3, <1>10, <1>12, <1>13, <1>14 DEF Sound
<1> QED BY <1>11, <1>15 DEF v

\* What was called last and how many answers are ready make no difference.
LEMMA SameSound ==
    ASSUME NEW u, Sound(u), NEW v, Others(u, v, {"called", "ready"})
    PROVE  Sound(v)
<1>1. /\ v.devices = u.devices /\ v.device_sources = u.device_sources /\ v.contexts = u.contexts /\ v.default = u.default
      /\ v.ok = u.ok /\ v.device_mappings = u.device_mappings /\ DOMAIN v = UiFields
      /\ v.filters = u.filters /\ v.mapping_entities = u.mapping_entities /\ v.mappings = u.mappings
  BY DEF Others, UiFields
<1>2. \A c : Rows(v, c) = Rows(u, c)
  BY <1>1, RowsDepend
<1>3. RowsSound(v)
  BY <1>1, <1>2 DEF Sound, RowsSound
<1>4. ContextsSound(v) /\ MappingsSound(v) /\ DevicesSound(v)
  BY <1>1 DEF Sound, ContextsSound, ContextSound, MappingsSound, DevicesSound
<1> QED BY <1>1, <1>3, <1>4 DEF Sound

LEMMA QueryKeeps ==
    ASSUME NEW u, Sound(u)
    PROVE  Sound(Query(u)) /\ Others(u, Query(u), {"ready"})
<1>1. Others(u, Query(u), {"ready"})
  BY DEF Query, Others, UiFields, Sound
<1>2. Others(u, Query(u), {"called", "ready"})
  BY <1>1 DEF Others
<1> QED BY <1>1, <1>2, SameSound

-----------------------------------------------------------------------------
(* A message and what waits behind it.                                     *)

Effect(u, x, v) ==
    /\ x.type = "AddFilter" => FilterAdded(u, x, v)
    /\ x.type = "AddContext" => ContextAdded(u, x, v)
    /\ x.type = "RemoveContext" => ContextGone(u, find_context(u, x.context), v)
    /\ x.type \in ContextTypes => OnContext(u, x, find_context(u, x.context), v)
    /\ x.type \in {"QueryDevices", "QueryContexts"} => Others(u, v, {"ready"})

LEMMA HandleKeeps ==
    ASSUME NEW u, Sound(u), NEW x \in UiMessage, Fits(u, x)
    PROVE  Sound(Handle(u, x)) /\ Effect(u, x, Handle(u, x))
<1>1. x.type \in {"RemoveContext", "SetState", "Bind", "Unbind", "AddDevice", "RemoveDevice"} => find_context(u, x.context) # 0
  BY DEF Fits, HasContext
<1>2. CASE x.type = "AddFilter"
  <2>1. Handle(u, x) = AddFilter(u, x)
    BY <1>2 DEF Handle
  <2> QED BY <1>2, <2>1, AddFilterKeeps DEF Effect, ContextTypes
<1>3. CASE x.type = "AddContext"
  <2>1. Handle(u, x) = AddContext(u, x)
    BY <1>3 DEF Handle
  <2> QED BY <1>3, <2>1, AddContextKeeps DEF Effect, ContextTypes
<1>4. CASE x.type = "RemoveContext"
  <2>1. Handle(u, x) = RemoveContext(u, x)
    BY <1>1, <1>4 DEF Handle
  <2> QED BY <1>4, <2>1, RemoveContextKeeps DEF Effect, ContextTypes
<1>5. CASE x.type = "AddDevice"
  <2>1. Handle(u, x) = AddDevice(u, x)
    BY <1>1, <1>5 DEF Handle
  <2> QED BY <1>5, <2>1, AddDeviceKeeps DEF Effect, ContextTypes
<1>6. CASE x.type = "RemoveDevice"
  <2>1. Handle(u, x) = RemoveDevice(u, x)
    BY <1>1, <1>6 DEF Handle
  <2> QED BY <1>6, <2>1, RemoveDeviceKeeps DEF Effect, ContextTypes
<1>7. CASE x.type = "SetState"
  <2>1. Handle(u, x) = SetState(u, x)
    BY <1>1, <1>7 DEF Handle
  <2> QED BY <1>7, <2>1, SetStateKeeps DEF Effect, ContextTypes
<1>8. CASE x.type = "Bind"
  <2>1. Handle(u, x) = Bind(u, x)
    BY <1>1, <1>8 DEF Handle
  <2> QED BY <1>8, <2>1, BindKeeps DEF Effect, ContextTypes
<1>9. CASE x.type = "Unbind"
  <2>1. Handle(u, x) = Unbind(u, x)
    BY <1>1, <1>9 DEF Handle
  <2> QED BY <1>9, <2>1, UnbindKeeps DEF Effect, ContextTypes
<1>10. CASE x.type \in {"QueryDevices", "QueryContexts"}
  <2>1. Handle(u, x) = Query(u)
    BY <1>10 DEF Handle
  <2> QED BY <1>10, <2>1, QueryKeeps DEF Effect, ContextTypes
<1> QED BY <1>2, <1>3, <1>4, <1>5, <1>6, <1>7, <1>8, <1>9, <1>10, UiMessageIs

\* Messages change no device.
LEMMA EffectDevices ==
    ASSUME NEW u, NEW x \in UiMessage, NEW v, Effect(u, x, v)
    PROVE  v.devices = u.devices /\ v.device_sources = u.device_sources
BY UiMessageIs DEF Effect, FilterAdded, ContextAdded, ContextGone, OnContext, Replaces, ContextTypes, Others, UiFields

\* What a client knows of a context: the devices it may be asked about are those that are wired.
SameContext(u, c, d) ==
    /\ d.asset = c.asset
    /\ d.bound = c.bound
    /\ \A e \in UiWired \cap u.devices : e \in d.devices <=> e \in c.devices

\* v will do for the messages that were posted for u.
Alike(u, v) ==
    /\ v.filters = u.filters /\ v.mappings = u.mappings /\ v.mapping_entities = u.mapping_entities
    /\ UiWired \cap u.devices \subseteq v.devices
    /\ DOMAIN v.contexts = DOMAIN u.contexts
    /\ \A i \in DOMAIN u.contexts : SameContext(u, u.contexts[i], v.contexts[i])

LEMMA FindAlike ==
    ASSUME NEW u, NEW v, Sound(u), Sound(v), Alike(u, v), NEW a
    PROVE  find_context(v, a) = find_context(u, a)
<1>1. ContextsSound(u) /\ ContextsSound(v)
  BY DEF Sound
<1>2. \A i \in DOMAIN u.contexts : v.contexts[i].asset = u.contexts[i].asset
  BY DEF Alike, SameContext
<1>3. DOMAIN v.contexts = DOMAIN u.contexts
  BY DEF Alike
<1>4. CASE find_context(u, a) = 0
  <2>1. \A i \in DOMAIN u.contexts : u.contexts[i].asset # a
    BY <1>1, <1>4, FindIs
  <2>2. find_context(v, a) # 0 => find_context(v, a) \in DOMAIN v.contexts /\ v.contexts[find_context(v, a)].asset = a
    BY <1>1, FindIs
  <2> QED BY <1>2, <1>3, <1>4, <2>1, <2>2
<1>5. CASE find_context(u, a) # 0
  <2>1. find_context(u, a) \in DOMAIN u.contexts /\ u.contexts[find_context(u, a)].asset = a
    BY <1>1, <1>5, FindIs
  <2>2. \A i \in DOMAIN v.contexts : v.contexts[i].asset = a => find_context(v, a) = i
    BY <1>1, FindIs
  <2> QED BY <1>2, <1>3, <2>1, <2>2
<1> QED BY <1>4, <1>5

LEMMA FitsAlike ==
    ASSUME NEW u, NEW v, Sound(u), Sound(v), Alike(u, v), NEW x \in UiMessage, Fits(u, x)
    PROVE  Fits(v, x)
<1>1. \A a : find_context(v, a) = find_context(u, a)
  BY FindAlike
<1>2. \A a : HasContext(v, a) <=> HasContext(u, a)
  BY <1>1 DEF HasContext
<1>3. \A m : Filled(v, m) = Filled(u, m)
  BY DEF Filled, Alike
<1>4. BoundAnywhere(v) = BoundAnywhere(u)
  <2>1. \A i \in DOMAIN u.contexts : v.contexts[i].bound = u.contexts[i].bound
    BY DEF Alike, SameContext
  <2>2. DOMAIN v.contexts = DOMAIN u.contexts
    BY DEF Alike
  <2> QED BY <2>1, <2>2 DEF BoundAnywhere
<1>5. ASSUME NEW a, HasContext(u, a)
      PROVE  SameContext(u, ContextOf(u, a), ContextOf(v, a)) /\ ContextOf(u, a).devices \subseteq u.devices
  <2>1. find_context(u, a) \in DOMAIN u.contexts /\ ContextOf(u, a) = u.contexts[find_context(u, a)]
    BY <1>5, ContextHas
  <2>2. ContextOf(v, a) = v.contexts[find_context(u, a)]
    BY <1>1 DEF ContextOf
  <2> QED BY <2>1, <2>2, ContextOfSound DEF Alike
<1>6. ASSUME NEW a, HasContext(u, a)
      PROVE  \A s : BoundTo(v, a, s) = BoundTo(u, a, s)
  BY <1>5, <1>6 DEF BoundTo, SameContext
<1>7. x.type = "AddFilter" =>
          /\ x.code \in UiCodes[x.mapping] \ Filled(v, x.mapping)
          /\ x.kind = UiKind[x.code]
          /\ x.mapping \notin BoundAnywhere(v)
  BY <1>3, <1>4 DEF Fits
<1>8. x.type = "AddContext" => ~HasContext(v, x.context) /\ Range(x.states) = UiStates
  BY <1>2 DEF Fits
<1>9. x.type \in {"RemoveContext", "SetState", "Bind", "Unbind", "AddDevice", "RemoveDevice"} => HasContext(u, x.context)
  BY DEF Fits
<1>10. x.type \in {"RemoveContext", "SetState", "Bind", "Unbind", "AddDevice", "RemoveDevice"} => HasContext(v, x.context)
  BY <1>2, <1>9
<1>11. x.type = "Bind" =>
          /\ UiUser[x.mapping] = x.context
          /\ Filled(v, x.mapping) = UiCodes[x.mapping]
          /\ x.mapping \notin BoundTo(v, x.context, x.state)
          /\ \A n \in BoundTo(v, x.context, x.state) : UiCodes[n] \cap UiCodes[x.mapping] = {}
  BY <1>3, <1>6, <1>9 DEF Fits
<1>12. x.type = "Unbind" => x.mapping \in BoundTo(v, x.context, x.state)
  BY <1>6, <1>9 DEF Fits
<1>13. x.type = "AddDevice" => x.id \in (UiWired \cap v.devices) \ ContextOf(v, x.context).devices
  BY <1>5, <1>9 DEF Fits, SameContext, Alike
<1>14. x.type = "RemoveDevice" => x.id \in UiWired \cap ContextOf(v, x.context).devices
  BY <1>5, <1>9 DEF Fits, SameContext
<1> QED BY <1>7, <1>8, <1>10, <1>11, <1>12, <1>13, <1>14 DEF Fits

LEMMA EffectAlike ==
    ASSUME NEW u, NEW v, Sound(u), Sound(v), Alike(u, v), NEW x \in UiMessage, Fits(u, x),
           NEW w, NEW z, Effect(u, x, w), Effect(v, x, z)
    PROVE  Alike(w, z)
<1>1. w.devices = u.devices /\ z.devices = v.devices
  BY EffectDevices
<1>2. \A a : find_context(v, a) = find_context(u, a)
  BY FindAlike
<1>3. u.contexts \in Seq(ContextRecord) /\ v.contexts \in Seq(ContextRecord)
  BY DEF Sound, ContextsSound
<1>4. DOMAIN u.contexts = 1 .. Len(u.contexts) /\ Len(u.contexts) \in Nat /\ Len(v.contexts) = Len(u.contexts)
  <2>1. DOMAIN u.contexts = 1 .. Len(u.contexts) /\ DOMAIN v.contexts = 1 .. Len(v.contexts)
        /\ Len(u.contexts) \in Nat /\ Len(v.contexts) \in Nat
    BY <1>3
  <2> QED BY <2>1 DEF Alike
<1>5. CASE x.type = "AddFilter"
  <2>1. FilterAdded(u, x, w) /\ FilterAdded(v, x, z)
    BY <1>5 DEF Effect
  <2>2. w.contexts = u.contexts /\ z.contexts = v.contexts
    BY <2>1 DEF FilterAdded, Others, UiFields
  <2> QED BY <1>1, <2>1, <2>2 DEF Alike, FilterAdded, SameContext
<1>6. CASE x.type = "AddContext"
  <2>1. ContextAdded(u, x, w) /\ ContextAdded(v, x, z)
    BY <1>6 DEF Effect
  <2>2. PICK c \in ContextRecord :
          /\ c.asset = x.context /\ c.bound = {}
          /\ c.devices = (IF u.contexts = <<>> THEN u.devices ELSE {})
          /\ Others(u, w, {"contexts", "default"})
          /\ w.contexts = Append(u.contexts, c)
    BY <2>1 DEF ContextAdded
  <2>3. PICK d \in ContextRecord :
          /\ d.asset = x.context /\ d.bound = {}
          /\ d.devices = (IF v.contexts = <<>> THEN v.devices ELSE {})
          /\ Others(v, z, {"contexts", "default"})
          /\ z.contexts = Append(v.contexts, d)
    BY <2>1 DEF ContextAdded
  <2>4. u.contexts = <<>> <=> v.contexts = <<>>
    BY <1>3, <1>4
  <2>5. SameContext(u, c, d)
    BY <2>2, <2>3, <2>4 DEF SameContext, Alike
  <2>6. w.filters = u.filters /\ w.mappings = u.mappings /\ w.mapping_entities = u.mapping_entities
        /\ z.filters = v.filters /\ z.mappings = v.mappings /\ z.mapping_entities = v.mapping_entities
    BY <2>2, <2>3 DEF Others, UiFields
  <2> DEFINE n == Len(u.contexts)
  <2>7. /\ DOMAIN w.contexts = (1 .. n) \cup {n + 1} /\ w.contexts[n + 1] = c /\ \A i \in 1 .. n : w.contexts[i] = u.contexts[i]
        /\ DOMAIN z.contexts = (1 .. n) \cup {n + 1} /\ z.contexts[n + 1] = d /\ \A i \in 1 .. n : z.contexts[i] = v.contexts[i]
    BY <1>3, <1>4, <2>2, <2>3
  <2> HIDE DEF n
  <2>8. \A i \in DOMAIN w.contexts : SameContext(u, w.contexts[i], z.contexts[i])
    <3> TAKE i \in DOMAIN w.contexts
    <3>1. CASE i = n + 1
      BY <2>5, <2>7, <3>1
    <3>2. CASE i \in 1 .. n
      BY <1>4, <2>7, <3>2 DEF Alike, n
    <3> QED BY <2>7, <3>1, <3>2
  <2> QED BY <1>1, <2>6, <2>7, <2>8 DEF Alike, SameContext
<1>7. CASE x.type = "RemoveContext"
  <2> DEFINE i == find_context(u, x.context)  n == Len(u.contexts) - 1  At(k) == IF k < i THEN k ELSE k + 1
  <2>1. ContextGone(u, i, w) /\ ContextGone(v, i, z)
    BY <1>2, <1>7 DEF Effect
  <2>2. i \in 1 .. Len(u.contexts)
    BY <1>4, <1>7, ContextHas DEF Fits
  <2> HIDE DEF i
  <2>3. /\ DOMAIN w.contexts = 1 .. n /\ \A k \in 1 .. n : w.contexts[k] = u.contexts[At(k)]
        /\ DOMAIN z.contexts = 1 .. n /\ \A k \in 1 .. n : z.contexts[k] = v.contexts[At(k)]
    BY <1>4, <2>1 DEF ContextGone
  <2>4. \A k \in 1 .. n : At(k) \in DOMAIN u.contexts
    BY <1>4, <2>2
  <2>5. w.filters = u.filters /\ w.mappings = u.mappings /\ w.mapping_entities = u.mapping_entities
        /\ z.filters = v.filters /\ z.mappings = v.mappings /\ z.mapping_entities = v.mapping_entities
    BY <2>1 DEF ContextGone, Others, UiFields
  <2> HIDE DEF n, At
  <2>6. \A k \in DOMAIN w.contexts : SameContext(u, w.contexts[k], z.contexts[k])
    BY <2>3, <2>4 DEF Alike
  <2> QED BY <1>1, <2>3, <2>5, <2>6 DEF Alike, SameContext
<1>8. CASE x.type \in ContextTypes
  <2> DEFINE i == find_context(u, x.context)
  <2>1. OnContext(u, x, i, w) /\ OnContext(v, x, i, z)
    BY <1>2, <1>8 DEF Effect
  <2>2. i \in DOMAIN u.contexts
    BY <1>8, ContextHas DEF Fits, ContextTypes
  <2> HIDE DEF i
  <2>3. PICK c \in ContextRecord :
          /\ c.asset = u.contexts[i].asset /\ c.bound = BoundBy(x, u.contexts[i].bound)
          /\ c.devices = DevicesBy(x, u.contexts[i].devices) /\ Replaces(u, w, i, c)
    BY <2>1 DEF OnContext
  <2>4. PICK d \in ContextRecord :
          /\ d.asset = v.contexts[i].asset /\ d.bound = BoundBy(x, v.contexts[i].bound)
          /\ d.devices = DevicesBy(x, v.contexts[i].devices) /\ Replaces(v, z, i, d)
    BY <2>1 DEF OnContext
  <2>5. i \in DOMAIN v.contexts /\ SameContext(u, u.contexts[i], v.contexts[i])
    BY <2>2 DEF Alike
  <2>6. SameContext(u, c, d)
    BY <2>3, <2>4, <2>5 DEF SameContext, BoundBy, DevicesBy
  <2>7. /\ DOMAIN w.contexts = DOMAIN u.contexts /\ w.contexts[i] = c
        /\ \A j \in DOMAIN u.contexts : j # i => w.contexts[j] = u.contexts[j]
        /\ w.filters = u.filters /\ w.mappings = u.mappings /\ w.mapping_entities = u.mapping_entities
    BY <2>2, <2>3, ReplacesIs
  <2>8. /\ DOMAIN z.contexts = DOMAIN v.contexts /\ z.contexts[i] = d
        /\ \A j \in DOMAIN v.contexts : j # i => z.contexts[j] = v.contexts[j]
        /\ z.filters = v.filters /\ z.mappings = v.mappings /\ z.mapping_entities = v.mapping_entities
    BY <2>4, <2>5, ReplacesIs
  <2>9. \A j \in DOMAIN w.contexts : SameContext(u, w.contexts[j], z.contexts[j])
    <3> TAKE j \in DOMAIN w.contexts
    <3>1. CASE j = i
      BY <2>6, <2>7, <2>8, <3>1
    <3>2. CASE j # i
      BY <2>7, <2>8, <3>2 DEF Alike
    <3> QED BY <3>1, <3>2
  <2> QED BY <1>1, <2>7, <2>8, <2>9 DEF Alike, SameContext
<1>9. CASE x.type \in {"QueryDevices", "QueryContexts"}
  <2>1. Others(u, w, {"ready"}) /\ Others(v, z, {"ready"})
    BY <1>9 DEF Effect
  <2>2. w.contexts = u.contexts /\ z.contexts = v.contexts
        /\ w.filters = u.filters /\ w.mappings = u.mappings /\ w.mapping_entities = u.mapping_entities
        /\ z.filters = v.filters /\ z.mappings = v.mappings /\ z.mapping_entities = v.mapping_entities
    BY <2>1 DEF Others, UiFields
  <2> QED BY <1>1, <2>2 DEF Alike, SameContext
<1> QED BY <1>5, <1>6, <1>7, <1>8, <1>9, UiMessageIs DEF ContextTypes

\* What was called last and how many answers are ready make no difference.
LEMMA SameAlike ==
    ASSUME NEW u, NEW v, Others(u, v, {"called", "ready"})
    PROVE  Alike(u, v)
BY DEF Others, UiFields, Alike, SameContext

-----------------------------------------------------------------------------
(* The messages of a queue, one after the other.                           *)

\* f is ui after each of the first n messages.
IsUiCourse(f, u, ms, n) ==
    f = [k \in 0 .. n |-> IF k = 0 THEN u ELSE Handle(f[k - 1], ms[k])]

LEMMA UiCourseExists ==
    ASSUME NEW u, NEW ms, NEW n \in Nat
    PROVE  \E f : IsUiCourse(f, u, ms, n)
<1> DEFINE T == {m \in Nat : ~\E f : IsUiCourse(f, u, ms, m)}
<1>1. SUFFICES ASSUME T # {} PROVE FALSE
  OBVIOUS
<1>2. PICK m \in T : \A l \in T : m <= l
  BY <1>1, LeastOf
<1>3. CASE m = 0
  <2> DEFINE f == [k \in {0} |-> u]
  <2>1. 0 .. 0 = {0}
    OBVIOUS
  <2>2. f = [k \in 0 .. 0 |-> IF k = 0 THEN u ELSE Handle(f[k - 1], ms[k])]
    BY <2>1
  <2>3. IsUiCourse(f, u, ms, 0)
    BY <2>2, Zenon DEF IsUiCourse
  <2> QED BY <1>2, <1>3, <2>3
<1>4. CASE m # 0
  <2>1. m \in Nat /\ m - 1 \in Nat /\ m - 1 \notin T
    BY <1>2, <1>4
  <2>2. PICK g : IsUiCourse(g, u, ms, m - 1)
    BY <2>1
  <2> DEFINE f == [k \in 0 .. m |-> IF k = m THEN Handle(g[m - 1], ms[m]) ELSE g[k]]
  <2>3. g = [k \in 0 .. m - 1 |-> IF k = 0 THEN u ELSE Handle(g[k - 1], ms[k])]
    BY <2>2, Zenon DEF IsUiCourse
  <2>4. ASSUME NEW k \in 0 .. m
        PROVE  f[k] = IF k = 0 THEN u ELSE Handle(f[k - 1], ms[k])
    <3>1. CASE k = m
      <4>1. k - 1 \in 0 .. m /\ k - 1 # m /\ k # 0
        BY <1>4, <2>1, <3>1
      <4>2. f[k - 1] = g[m - 1]
        BY <3>1, <4>1
      <4> QED BY <3>1, <4>1, <4>2
    <3>2. CASE k # m /\ k = 0
      <4>1. 0 \in 0 .. m - 1
        BY <2>1
      <4>2. g[0] = u
        BY <2>3, <4>1
      <4> QED BY <3>2, <4>2
    <3>3. CASE k # m /\ k # 0
      <4>1. k \in 0 .. m - 1 /\ k - 1 \in 0 .. m /\ k - 1 # m /\ k # 0
        BY <2>1, <3>3
      <4>2. g[k] = Handle(g[k - 1], ms[k])
        BY <2>3, <4>1
      <4>3. f[k - 1] = g[k - 1] /\ f[k] = g[k]
        BY <3>3, <4>1
      <4> QED BY <4>1, <4>2, <4>3
    <3> QED BY <3>1, <3>2, <3>3
  <2>5. f = [k \in 0 .. m |-> f[k]]
    OBVIOUS
  <2> HIDE DEF f
  <2>6. f = [k \in 0 .. m |-> IF k = 0 THEN u ELSE Handle(f[k - 1], ms[k])]
    BY <2>4, <2>5, Zenon
  <2>7. IsUiCourse(f, u, ms, m)
    BY <2>6, Zenon DEF IsUiCourse
  <2> QED BY <1>2, <2>7
<1> QED BY <1>3, <1>4

\* f handles the first n messages.
HandlesThem(f, ms, n) == \A k \in 1 .. n : f[k] = Handle(f[k - 1], ms[k])

LEMMA UiCourseIs ==
    ASSUME NEW u, NEW ms, Len(ms) \in Nat
    PROVE  UiCourse(u, ms)[0] = u /\ HandlesThem(UiCourse(u, ms), ms, Len(ms))
<1> DEFINE n == Len(ms)
           f == CHOOSE g : IsUiCourse(g, u, ms, n)
<1>1. IsUiCourse(f, u, ms, n)
  <2> HIDE DEF n
  <2>1. n \in Nat
    BY DEF n
  <2>2. \E g : IsUiCourse(g, u, ms, n)
    BY <2>1, UiCourseExists
  <2> QED BY <2>2, Zenon
<1>2. UiCourse(u, ms) = f
  BY Zenon DEF UiCourse, IsUiCourse
<1> HIDE DEF f
<1>3. f = [k \in 0 .. n |-> IF k = 0 THEN u ELSE Handle(f[k - 1], ms[k])]
  BY <1>1, Zenon DEF IsUiCourse
<1>4. 0 \in 0 .. n /\ \A k \in 1 .. n : k \in 0 .. n /\ k # 0
  OBVIOUS
<1> HIDE DEF n
<1>5. \A k \in 0 .. n : f[k] = IF k = 0 THEN u ELSE Handle(f[k - 1], ms[k])
  BY <1>3
<1>6. f[0] = u
  BY <1>4, <1>5
<1>7. \A k \in 1 .. n : f[k] = Handle(f[k - 1], ms[k])
  BY <1>4, <1>5
<1> QED BY <1>2, <1>6, <1>7 DEF n, HandlesThem

LEMMA UiCoursesAgree ==
    ASSUME NEW f, NEW g, NEW ms, NEW n \in Nat, f[0] = g[0],
           HandlesThem(f, ms, n), HandlesThem(g, ms, n)
    PROVE  \A k \in 0 .. n : f[k] = g[k]
<1> USE DEF HandlesThem
<1> DEFINE T == {m \in Nat : m <= n /\ f[m] # g[m]}
<1>1. SUFFICES ASSUME T # {} PROVE FALSE
  OBVIOUS
<1>2. PICK m \in T : \A l \in T : m <= l
  BY <1>1, LeastOf
<1>3. m \in 1 .. n /\ m - 1 \in Nat /\ m - 1 <= n
  BY <1>2
<1>4. m - 1 \notin T
  BY <1>2, <1>3
<1>5. f[m - 1] = g[m - 1]
  BY <1>3, <1>4
<1>6. f[m] = g[m]
  BY <1>3, <1>5
<1> QED BY <1>2, <1>6

\* A message that may be posted now may wait behind the others.
LEMMA AppendFits ==
    ASSUME NEW u, NEW ms, QueueFits(u, ms), NEW x \in UiMessage, Fits(UiCourse(u, ms)[Len(ms)], x)
    PROVE  QueueFits(u, Append(ms, x))
<1> DEFINE n == Len(ms)
           q == Append(ms, x)
           f == UiCourse(u, ms)
           g == UiCourse(u, q)
<1>0. ms \in Seq(UiMessage) /\ \A k \in 1 .. n : Fits(f[k - 1], ms[k])
  BY DEF QueueFits
<1>1. n \in Nat /\ Len(q) = n + 1 /\ q[n + 1] = x /\ q \in Seq(UiMessage) /\ \A k \in 1 .. n : q[k] = ms[k]
  BY <1>0
<1>2. f[0] = u /\ HandlesThem(f, ms, n)
  BY <1>1, UiCourseIs
<1> HIDE DEF q, n
<1>3. g[0] = u /\ HandlesThem(g, q, n + 1)
  <2>1. Len(q) \in Nat
    BY <1>1
  <2>2. g[0] = u /\ HandlesThem(g, q, Len(q))
    BY <2>1, UiCourseIs
  <2> QED BY <1>1, <2>2
<1>4. Fits(f[n], x)
  BY DEF n
<1> HIDE DEF f, g
<1>5. HandlesThem(f, q, n)
  BY <1>1, <1>2 DEF HandlesThem
<1>6. HandlesThem(g, q, n)
  BY <1>1, <1>3 DEF HandlesThem
<1>7. \A k \in 0 .. n : f[k] = g[k]
  BY <1>1, <1>2, <1>3, <1>5, <1>6, UiCoursesAgree
<1>8. \A k \in 1 .. n + 1 : Fits(g[k - 1], q[k])
  <2> TAKE k \in 1 .. n + 1
  <2>1. CASE k = n + 1
    <3>1. k - 1 = n /\ n \in 0 .. n
      BY <1>1, <2>1
    <3> QED BY <1>1, <1>4, <1>7, <2>1, <3>1
  <2>2. CASE k # n + 1
    <3>1. k \in 1 .. n /\ k - 1 \in 0 .. n
      BY <1>1, <2>2
    <3> QED BY <1>0, <1>1, <1>7, <3>1
  <2> QED BY <2>1, <2>2
<1>9. Len(q) = n + 1
  BY <1>1
<1>10. QueueFits(u, q)
  BY <1>1, <1>8, <1>9 DEF QueueFits, g
<1> QED BY <1>10 DEF q

LEMMA PopFits ==
    ASSUME NEW u, NEW ms, QueueFits(u, ms), ms # <<>>
    PROVE  Head(ms) \in UiMessage /\ Fits(u, Head(ms)) /\ QueueFits(Handle(u, Head(ms)), Tail(ms))
<1> DEFINE n == Len(ms)
           q == Tail(ms)
           next == Handle(u, Head(ms))
           f == UiCourse(u, ms)
           g == UiCourse(next, q)
           h == [k \in 0 .. n - 1 |-> f[k + 1]]
<1>0. ms \in Seq(UiMessage) /\ \A k \in 1 .. n : Fits(f[k - 1], ms[k])
  BY DEF QueueFits
<1>1. /\ n \in Nat /\ n > 0 /\ Len(q) = n - 1 /\ Head(ms) = ms[1] /\ q \in Seq(UiMessage) /\ Head(ms) \in UiMessage
      /\ \A k \in 1 .. n - 1 : q[k] = ms[k + 1]
  BY <1>0
<1>2. f[0] = u /\ HandlesThem(f, ms, n)
  BY <1>1, UiCourseIs
<1> HIDE DEF q, n
<1>3. g[0] = next /\ HandlesThem(g, q, n - 1)
  <2>1. Len(q) \in Nat
    BY <1>1
  <2>2. g[0] = next /\ HandlesThem(g, q, Len(q))
    BY <2>1, UiCourseIs
  <2> QED BY <1>1, <2>2
<1> HIDE DEF f, g, next
<1>4. 1 \in 1 .. n /\ 1 - 1 = 0
  BY <1>1
<1>5. f[1] = next /\ Fits(u, Head(ms))
  BY <1>0, <1>1, <1>2, <1>4 DEF HandlesThem, next
<1>6. h[0] = next
  BY <1>1, <1>5 DEF h
<1>7. ASSUME NEW k \in 1 .. n - 1
      PROVE  h[k] = Handle(h[k - 1], q[k])
  <2>1. k + 1 \in 1 .. n /\ (k + 1) - 1 = k /\ k \in 0 .. n - 1 /\ k - 1 \in 0 .. n - 1 /\ (k - 1) + 1 = k
    BY <1>1
  <2>2. h[k] = f[k + 1] /\ h[k - 1] = f[k]
    BY <2>1 DEF h
  <2>3. f[k + 1] = Handle(f[k], ms[k + 1])
    BY <1>2, <2>1 DEF HandlesThem
  <2> QED BY <1>1, <2>2, <2>3
<1>8. ASSUME NEW k \in 0 .. n - 1
      PROVE  h[k] = f[k + 1]
  OBVIOUS
<1> HIDE DEF h
<1>9. n - 1 \in Nat /\ HandlesThem(h, q, n - 1)
  BY <1>1, <1>7 DEF HandlesThem
<1>10. \A k \in 0 .. n - 1 : g[k] = h[k]
  BY <1>3, <1>6, <1>9, UiCoursesAgree
<1>11. \A k \in 1 .. n - 1 : Fits(g[k - 1], q[k])
  <2> TAKE k \in 1 .. n - 1
  <2>1. k - 1 \in 0 .. n - 1 /\ (k - 1) + 1 = k /\ k + 1 \in 1 .. n /\ (k + 1) - 1 = k
    BY <1>1
  <2>2. g[k - 1] = f[k]
    BY <1>8, <1>10, <2>1
  <2>3. Fits(f[k], ms[k + 1])
    BY <1>0, <2>1
  <2> QED BY <1>1, <2>2, <2>3
<1>12. QueueFits(next, q)
  <2>1. Len(q) = n - 1
    BY <1>1
  <2> QED BY <1>1, <1>11, <2>1 DEF QueueFits, g
<1> QED BY <1>1, <1>5, <1>12 DEF q, next

\* What waits for u may wait for v, and u and v stay alike.
LEMMA WaitAlike ==
    ASSUME NEW u, NEW v, Sound(u), Sound(v), Alike(u, v), NEW ms, QueueFits(u, ms)
    PROVE  QueueFits(v, ms) /\ \A k \in 0 .. Len(ms) : Sound(UiCourse(v, ms)[k])
<1> DEFINE n == Len(ms)  f == UiCourse(u, ms)  g == UiCourse(v, ms)
           Good(k) == Sound(f[k]) /\ Sound(g[k]) /\ Alike(f[k], g[k])
           T == {k \in Nat : k <= n /\ ~Good(k)}
<1>1. ms \in Seq(UiMessage) /\ (\A k \in 1 .. n : Fits(f[k - 1], ms[k])) /\ n \in Nat
  BY DEF QueueFits
<1>2. f[0] = u /\ HandlesThem(f, ms, n) /\ g[0] = v /\ HandlesThem(g, ms, n)
  BY <1>1, UiCourseIs
<1>3. \A k \in 1 .. n : ms[k] \in UiMessage
  BY <1>1
<1> HIDE DEF f, g, n
<1>4. ASSUME NEW k \in 1 .. n, Good(k - 1)
      PROVE  Good(k) /\ Fits(g[k - 1], ms[k])
  <2>1. ms[k] \in UiMessage /\ Fits(f[k - 1], ms[k]) /\ f[k] = Handle(f[k - 1], ms[k]) /\ g[k] = Handle(g[k - 1], ms[k])
    BY <1>1, <1>2, <1>3 DEF HandlesThem
  <2>2. Sound(f[k - 1]) /\ Sound(g[k - 1]) /\ Alike(f[k - 1], g[k - 1])
    BY <1>4
  <2> HIDE DEF Good
  <2>3. Fits(g[k - 1], ms[k])
    BY <2>1, <2>2, FitsAlike
  <2>4. Sound(f[k]) /\ Effect(f[k - 1], ms[k], f[k])
    BY <2>1, <2>2, HandleKeeps
  <2>5. Sound(g[k]) /\ Effect(g[k - 1], ms[k], g[k])
    BY <2>1, <2>2, <2>3, HandleKeeps
  <2>6. Alike(f[k], g[k])
    BY <2>1, <2>2, <2>4, <2>5, EffectAlike
  <2> QED BY <2>3, <2>4, <2>5, <2>6 DEF Good
<1>5. Good(0)
  BY <1>2
<1> HIDE DEF Good
<1>6. T = {}
  <2>1. SUFFICES ASSUME T # {} PROVE FALSE
    OBVIOUS
  <2>2. PICK m \in T : \A l \in T : m <= l
    BY <2>1, LeastOf
  <2>3. m # 0
    BY <1>5, <2>2
  <2>4. m \in 1 .. n /\ m - 1 \in Nat /\ m - 1 <= n
    BY <1>1, <2>2, <2>3
  <2>5. Good(m - 1)
    BY <2>2, <2>4
  <2> QED BY <1>4, <2>2, <2>4, <2>5
<1>7. \A k \in 0 .. n : Good(k)
  BY <1>1, <1>6
<1>8. \A k \in 1 .. n : Fits(g[k - 1], ms[k])
  <2> TAKE k \in 1 .. n
  <2>1. k - 1 \in 0 .. n
    BY <1>1
  <2> QED BY <1>4, <1>7, <2>1
<1>9. QueueFits(v, ms)
  BY <1>1, <1>8 DEF QueueFits, g, n
<1>10. \A k \in 0 .. n : Sound(g[k])
  BY <1>7 DEF Good
<1> QED BY <1>9, <1>10 DEF g, n

\* What ui will be when it has handled what waits.
LEMMA PostedSound ==
    ASSUME NEW u, Sound(u), NEW ms, QueueFits(u, ms)
    PROVE  Sound(UiCourse(u, ms)[Len(ms)])
<1>1. Alike(u, u)
  BY DEF Alike, SameContext
<1>2. Len(ms) \in 0 .. Len(ms)
  BY DEF QueueFits
<1> QED BY <1>1, <1>2, WaitAlike

-----------------------------------------------------------------------------
(* Every context in turn: setting what is cleared, losing a device.        *)

\* f is ui after each of the first n contexts has its device mappings.
IsSetting(f, u, n) ==
    f = [k \in 0 .. n |-> IF k = 0 THEN u ELSE SetIfCleared(f[k - 1], k)]

LEMMA SettingExists ==
    ASSUME NEW u, NEW n \in Nat
    PROVE  \E f : IsSetting(f, u, n)
<1> DEFINE T == {m \in Nat : ~\E f : IsSetting(f, u, m)}
<1>1. SUFFICES ASSUME T # {} PROVE FALSE
  OBVIOUS
<1>2. PICK m \in T : \A l \in T : m <= l
  BY <1>1, LeastOf
<1>3. CASE m = 0
  <2> DEFINE f == [k \in {0} |-> u]
  <2>1. 0 .. 0 = {0}
    OBVIOUS
  <2>2. f = [k \in 0 .. 0 |-> IF k = 0 THEN u ELSE SetIfCleared(f[k - 1], k)]
    BY <2>1
  <2>3. IsSetting(f, u, 0)
    BY <2>2, Zenon DEF IsSetting
  <2> QED BY <1>2, <1>3, <2>3
<1>4. CASE m # 0
  <2>1. m \in Nat /\ m - 1 \in Nat /\ m - 1 \notin T
    BY <1>2, <1>4
  <2>2. PICK g : IsSetting(g, u, m - 1)
    BY <2>1
  <2> DEFINE f == [k \in 0 .. m |-> IF k = m THEN SetIfCleared(g[m - 1], m) ELSE g[k]]
  <2>3. g = [k \in 0 .. m - 1 |-> IF k = 0 THEN u ELSE SetIfCleared(g[k - 1], k)]
    BY <2>2, Zenon DEF IsSetting
  <2>4. ASSUME NEW k \in 0 .. m
        PROVE  f[k] = IF k = 0 THEN u ELSE SetIfCleared(f[k - 1], k)
    <3>1. CASE k = m
      <4>1. k - 1 \in 0 .. m /\ k - 1 # m /\ k # 0
        BY <1>4, <2>1, <3>1
      <4>2. f[k - 1] = g[m - 1]
        BY <3>1, <4>1
      <4> QED BY <3>1, <4>1, <4>2
    <3>2. CASE k # m /\ k = 0
      <4>1. 0 \in 0 .. m - 1
        BY <2>1
      <4>2. g[0] = u
        BY <2>3, <4>1
      <4> QED BY <3>2, <4>2
    <3>3. CASE k # m /\ k # 0
      <4>1. k \in 0 .. m - 1 /\ k - 1 \in 0 .. m /\ k - 1 # m /\ k # 0
        BY <2>1, <3>3
      <4>2. g[k] = SetIfCleared(g[k - 1], k)
        BY <2>3, <4>1
      <4>3. f[k - 1] = g[k - 1] /\ f[k] = g[k]
        BY <3>3, <4>1
      <4> QED BY <4>1, <4>2, <4>3
    <3> QED BY <3>1, <3>2, <3>3
  <2>5. f = [k \in 0 .. m |-> f[k]]
    OBVIOUS
  <2> HIDE DEF f
  <2>6. f = [k \in 0 .. m |-> IF k = 0 THEN u ELSE SetIfCleared(f[k - 1], k)]
    BY <2>4, <2>5, Zenon
  <2>7. IsSetting(f, u, m)
    BY <2>6, Zenon DEF IsSetting
  <2> QED BY <1>2, <2>7
<1> QED BY <1>3, <1>4

LEMMA SettingIs ==
    ASSUME NEW u, Len(u.contexts) \in Nat
    PROVE  /\ Setting(u)[0] = u
           /\ \A k \in 1 .. Len(u.contexts) : Setting(u)[k] = SetIfCleared(Setting(u)[k - 1], k)
<1> DEFINE n == Len(u.contexts)
           f == CHOOSE g : IsSetting(g, u, n)
<1>1. IsSetting(f, u, n)
  <2> HIDE DEF n
  <2>1. n \in Nat
    BY DEF n
  <2>2. \E g : IsSetting(g, u, n)
    BY <2>1, SettingExists
  <2> QED BY <2>2, Zenon
<1>2. Setting(u) = f
  BY Zenon DEF Setting, IsSetting
<1> HIDE DEF f
<1>3. f = [k \in 0 .. n |-> IF k = 0 THEN u ELSE SetIfCleared(f[k - 1], k)]
  BY <1>1, Zenon DEF IsSetting
<1>4. 0 \in 0 .. n /\ \A k \in 1 .. n : k \in 0 .. n /\ k # 0
  OBVIOUS
<1> HIDE DEF n
<1>5. \A k \in 0 .. n : f[k] = IF k = 0 THEN u ELSE SetIfCleared(f[k - 1], k)
  BY <1>3
<1>6. f[0] = u
  BY <1>4, <1>5
<1>7. \A k \in 1 .. n : f[k] = SetIfCleared(f[k - 1], k)
  BY <1>4, <1>5
<1> QED BY <1>2, <1>6, <1>7 DEF n

\* The contexts, all with their device mappings.
LEMMA AllAreSet ==
    ASSUME NEW u, Sound(u), NEW v, v = SetAll(u)
    PROVE  /\ Sound(v) /\ AllSet(v) /\ Others(u, v, {"contexts", "device_mappings"})
           /\ DOMAIN v.contexts = DOMAIN u.contexts
           /\ \A i \in DOMAIN u.contexts : v.contexts[i] = Given(u.contexts[i])
<1> DEFINE f == Setting(u)
           n == Len(u.contexts)
           Good(k) ==
               /\ Sound(f[k]) /\ Others(u, f[k], {"contexts", "device_mappings"})
               /\ DOMAIN f[k].contexts = DOMAIN u.contexts
               /\ \A i \in DOMAIN u.contexts :
                      f[k].contexts[i] = IF i <= k THEN Given(u.contexts[i]) ELSE u.contexts[i]
           T == {k \in Nat : k <= n /\ ~Good(k)}
<1>1. u.contexts \in Seq(ContextRecord) /\ DOMAIN u = UiFields
  BY DEF Sound, ContextsSound
<1>2. n \in Nat /\ DOMAIN u.contexts = 1 .. n
  BY <1>1
<1>3. f[0] = u /\ \A k \in 1 .. n : f[k] = SetIfCleared(f[k - 1], k)
  BY <1>2, SettingIs
<1>4. v = f[n]
  BY DEF SetAll
<1> HIDE DEF f, n
<1>5. Good(0)
  BY <1>1, <1>2, <1>3 DEF Others
<1>6. ASSUME NEW k \in 1 .. n, Good(k - 1)
      PROVE  Good(k)
  <2> DEFINE a == f[k - 1]  b == f[k]
  <2>1. /\ Sound(a) /\ Others(u, a, {"contexts", "device_mappings"}) /\ DOMAIN a.contexts = 1 .. n
        /\ \A i \in 1 .. n : a.contexts[i] = IF i <= k - 1 THEN Given(u.contexts[i]) ELSE u.contexts[i]
    BY <1>2, <1>6
  <2>2. b = SetIfCleared(a, k)
    BY <1>3
  <2> HIDE DEF a, b
  <2>3. k \in 1 .. n /\ ~(k <= k - 1) /\ \A i \in 1 .. n : i # k => (i <= k - 1 <=> i <= k)
    BY <1>2
  <2>4. a.contexts[k] = u.contexts[k]
    BY <2>1, <2>3
  <2>5. u.contexts[k] \in ContextRecord /\ a.contexts \in Seq(ContextRecord)
    BY <1>1, <1>2, <2>1, ContextAt DEF Sound, ContextsSound
  <2>6. Given(u.contexts[k]) \in ContextRecord
    BY <2>5, SwitchedIs DEF Switched
  <2>7. CASE ~a.contexts[k].has_device_mappings
    <3> DEFINE d == Given(u.contexts[k])
    <3>1. b = set_device_mappings(a, k) /\ k \in DOMAIN a.contexts
      BY <2>1, <2>2, <2>7 DEF SetIfCleared
    <3>2. Sound(b) /\ Others(a, b, {"contexts", "device_mappings"}) /\ b.contexts = [a.contexts EXCEPT ![k] = Given(a.contexts[k])]
      BY <2>1, <2>7, <3>1, MappingsSet
    <3>3. b.contexts = [a.contexts EXCEPT ![k] = d] /\ d \in ContextRecord
      BY <2>4, <2>6, <3>2
    <3> HIDE DEF d
    <3>4. Others(u, b, {"contexts", "device_mappings"})
      BY <2>1, <3>2 DEF Others
    <3>5. /\ DOMAIN b.contexts = DOMAIN a.contexts /\ b.contexts[k] = d
          /\ \A i \in DOMAIN a.contexts : i # k => b.contexts[i] = a.contexts[i]
      BY <2>5, <3>1, <3>3, ContextPut
    <3>6. \A i \in 1 .. n : b.contexts[i] = IF i <= k THEN Given(u.contexts[i]) ELSE u.contexts[i]
      <4> TAKE i \in 1 .. n
      <4>1. CASE i = k
        BY <2>1, <3>5, <4>1 DEF d
      <4>2. CASE i # k
        BY <2>1, <2>3, <3>5, <4>2
      <4> QED BY <4>1, <4>2
    <3> QED BY <1>2, <2>1, <3>2, <3>4, <3>5, <3>6 DEF b
  <2>8. CASE a.contexts[k].has_device_mappings
    <3>1. b = a
      BY <2>2, <2>8 DEF SetIfCleared
    <3>2. Given(u.contexts[k]) = u.contexts[k]
      BY <2>4, <2>5, <2>8 DEF Given, ContextRecord
    <3>3. \A i \in 1 .. n : b.contexts[i] = IF i <= k THEN Given(u.contexts[i]) ELSE u.contexts[i]
      BY <2>1, <2>3, <2>4, <3>1, <3>2
    <3> QED BY <1>2, <2>1, <3>1, <3>3 DEF b
  <2> QED BY <2>7, <2>8
<1>7. Good(n)
  <2>1. SUFFICES ASSUME ~Good(n) PROVE FALSE
    OBVIOUS
  <2>2. n \in T
    BY <1>2, <2>1
  <2>3. PICK m \in T : \A l \in T : m <= l
    BY <2>2, LeastOf
  <2>4. m # 0
    BY <1>5, <2>3
  <2>5. m \in 1 .. n /\ m - 1 \in Nat /\ m - 1 <= n
    BY <1>2, <2>3, <2>4
  <2>6. Good(m - 1)
    BY <2>3, <2>5
  <2> QED BY <1>6, <2>3, <2>5, <2>6
<1>8. /\ Sound(v) /\ Others(u, v, {"contexts", "device_mappings"}) /\ DOMAIN v.contexts = DOMAIN u.contexts
      /\ \A i \in DOMAIN u.contexts : v.contexts[i] = Given(u.contexts[i])
  BY <1>2, <1>4, <1>7
<1>9. AllSet(v)
  <2> SUFFICES ASSUME NEW i \in DOMAIN u.contexts PROVE v.contexts[i].has_device_mappings
    BY <1>8 DEF AllSet
  <2>1. u.contexts[i] \in ContextRecord
    BY <1>1, ContextAt
  <2> QED BY <1>8, <2>1, SwitchedIs
<1> QED BY <1>8, <1>9

\* f is ui after each of the first n contexts was left by the device.
IsLeaving(f, u, device, n) ==
    f = [k \in 0 .. n |-> IF k = 0 THEN u ELSE leave_device(f[k - 1], k, device)]

LEMMA LeavingExists ==
    ASSUME NEW u, NEW device, NEW n \in Nat
    PROVE  \E f : IsLeaving(f, u, device, n)
<1> DEFINE T == {m \in Nat : ~\E f : IsLeaving(f, u, device, m)}
<1>1. SUFFICES ASSUME T # {} PROVE FALSE
  OBVIOUS
<1>2. PICK m \in T : \A l \in T : m <= l
  BY <1>1, LeastOf
<1>3. CASE m = 0
  <2> DEFINE f == [k \in {0} |-> u]
  <2>1. 0 .. 0 = {0}
    OBVIOUS
  <2>2. f = [k \in 0 .. 0 |-> IF k = 0 THEN u ELSE leave_device(f[k - 1], k, device)]
    BY <2>1
  <2>3. IsLeaving(f, u, device, 0)
    BY <2>2, Zenon DEF IsLeaving
  <2> QED BY <1>2, <1>3, <2>3
<1>4. CASE m # 0
  <2>1. m \in Nat /\ m - 1 \in Nat /\ m - 1 \notin T
    BY <1>2, <1>4
  <2>2. PICK g : IsLeaving(g, u, device, m - 1)
    BY <2>1
  <2> DEFINE f == [k \in 0 .. m |-> IF k = m THEN leave_device(g[m - 1], m, device) ELSE g[k]]
  <2>3. g = [k \in 0 .. m - 1 |-> IF k = 0 THEN u ELSE leave_device(g[k - 1], k, device)]
    BY <2>2, Zenon DEF IsLeaving
  <2>4. ASSUME NEW k \in 0 .. m
        PROVE  f[k] = IF k = 0 THEN u ELSE leave_device(f[k - 1], k, device)
    <3>1. CASE k = m
      <4>1. k - 1 \in 0 .. m /\ k - 1 # m /\ k # 0
        BY <1>4, <2>1, <3>1
      <4>2. f[k - 1] = g[m - 1]
        BY <3>1, <4>1
      <4> QED BY <3>1, <4>1, <4>2
    <3>2. CASE k # m /\ k = 0
      <4>1. 0 \in 0 .. m - 1
        BY <2>1
      <4>2. g[0] = u
        BY <2>3, <4>1
      <4> QED BY <3>2, <4>2
    <3>3. CASE k # m /\ k # 0
      <4>1. k \in 0 .. m - 1 /\ k - 1 \in 0 .. m /\ k - 1 # m /\ k # 0
        BY <2>1, <3>3
      <4>2. g[k] = leave_device(g[k - 1], k, device)
        BY <2>3, <4>1
      <4>3. f[k - 1] = g[k - 1] /\ f[k] = g[k]
        BY <3>3, <4>1
      <4> QED BY <4>1, <4>2, <4>3
    <3> QED BY <3>1, <3>2, <3>3
  <2>5. f = [k \in 0 .. m |-> f[k]]
    OBVIOUS
  <2> HIDE DEF f
  <2>6. f = [k \in 0 .. m |-> IF k = 0 THEN u ELSE leave_device(f[k - 1], k, device)]
    BY <2>4, <2>5, Zenon
  <2>7. IsLeaving(f, u, device, m)
    BY <2>6, Zenon DEF IsLeaving
  <2> QED BY <1>2, <2>7
<1> QED BY <1>3, <1>4

LEMMA LeavingIs ==
    ASSUME NEW u, NEW device, Len(u.contexts) \in Nat
    PROVE  /\ Leaving(u, device)[0] = u
           /\ \A k \in 1 .. Len(u.contexts) : Leaving(u, device)[k] = leave_device(Leaving(u, device)[k - 1], k, device)
<1> DEFINE n == Len(u.contexts)
           f == CHOOSE g : IsLeaving(g, u, device, n)
<1>1. IsLeaving(f, u, device, n)
  <2> HIDE DEF n
  <2>1. n \in Nat
    BY DEF n
  <2>2. \E g : IsLeaving(g, u, device, n)
    BY <2>1, LeavingExists
  <2> QED BY <2>2, Zenon
<1>2. Leaving(u, device) = f
  BY Zenon DEF Leaving, IsLeaving
<1> HIDE DEF f
<1>3. f = [k \in 0 .. n |-> IF k = 0 THEN u ELSE leave_device(f[k - 1], k, device)]
  BY <1>1, Zenon DEF IsLeaving
<1>4. 0 \in 0 .. n /\ \A k \in 1 .. n : k \in 0 .. n /\ k # 0
  OBVIOUS
<1> HIDE DEF n
<1>5. \A k \in 0 .. n : f[k] = IF k = 0 THEN u ELSE leave_device(f[k - 1], k, device)
  BY <1>3
<1>6. f[0] = u
  BY <1>4, <1>5
<1>7. \A k \in 1 .. n : f[k] = leave_device(f[k - 1], k, device)
  BY <1>4, <1>5
<1> QED BY <1>2, <1>6, <1>7 DEF n

Without(c, device) == [c EXCEPT !.devices = @ \ {device}]

LEMMA WithoutIs ==
    ASSUME NEW u, NEW c \in ContextRecord, NEW device
    PROVE  /\ Without(c, device) \in ContextRecord
           /\ Without(c, device).has_device_mappings = c.has_device_mappings
           /\ Without(c, device).asset = c.asset /\ Without(c, device).bound = c.bound
           /\ Without(c, device).devices = c.devices \ {device}
           /\ device \notin c.devices => Without(c, device) = c
BY DEF Without, ContextRecord

\* A context that has its device mappings loses one device and has them again.
LEMMA DeviceLeaves ==
    ASSUME NEW u, Sound(u), NEW i \in DOMAIN u.contexts, u.contexts[i].has_device_mappings, NEW device,
           NEW v, v = leave_device(u, i, device)
    PROVE  Sound(v) /\ Replaces(u, v, i, Without(u.contexts[i], device))
<1> DEFINE c == u.contexts[i]
<1>1. c \in ContextRecord /\ u.contexts \in Seq(ContextRecord) /\ DOMAIN u = UiFields
  BY ContextOfSound
<1>2. CASE device \notin c.devices
  <2>1. v = u /\ Without(c, device) = c
    BY <1>1, <1>2, WithoutIs DEF leave_device
  <2>2. u.contexts = [u.contexts EXCEPT ![i] = c]
    BY <1>1
  <2> HIDE DEF c
  <2> QED BY <1>1, <2>1, <2>2 DEF Replaces, Others, c
<1>3. CASE device \in c.devices
  <2> DEFINE w == clear_device_mappings(u, i)  d == Taken(c)
             x == context_remove_device(w, i, device)  e == [w.contexts[i] EXCEPT !.devices = @ \ {device}]
  <2>1. v = set_device_mappings(x, i)
    BY <1>3 DEF leave_device
  <2>2. Sound(w) /\ Replaces(u, w, i, d)
    BY MappingsCleared DEF Replaces
  <2>3. d \in ContextRecord /\ ~d.has_device_mappings /\ d.devices = c.devices
    BY <1>1, SwitchedIs DEF Switched
  <2> HIDE DEF c, w, x
  <2>4. i \in DOMAIN w.contexts /\ w.contexts[i] = d
    <3> HIDE DEF d
    <3> QED BY <2>2, <2>3, ReplacesIs
  <2>5. e \in ContextRecord /\ Sound(x) /\ Replaces(w, x, i, e)
    <3> HIDE DEF d
    <3>1. ~w.contexts[i].has_device_mappings /\ device \in w.contexts[i].devices
      BY <1>3, <2>3, <2>4
    <3> QED BY <2>2, <2>4, <3>1, DeviceOut DEF x
  <2>6. Replaces(u, x, i, e)
    <3> HIDE DEF d, e
    <3> QED BY <2>2, <2>3, <2>5, ReplacesTwice
  <2>7. ~e.has_device_mappings /\ Given(e) = Without(c, device) /\ Given(e) \in ContextRecord
    <3>1. e = [d EXCEPT !.devices = @ \ {device}]
      BY <2>4
    <3>2. c.has_device_mappings = TRUE
      BY <1>1 DEF ContextRecord, c
    <3>3. c \in ContextRecord
      BY <1>1 DEF c
    <3> HIDE DEF e
    <3>4. ~e.has_device_mappings
      BY <3>1, <3>3 DEF Given, Taken, ContextRecord
    <3>5. Given(e) = Without(c, device)
      BY <3>1, <3>2, <3>3 DEF Given, Taken, Without, ContextRecord
    <3> QED BY <3>3, <3>4, <3>5, WithoutIs
  <2> HIDE DEF d, e
  <2>8. i \in DOMAIN x.contexts /\ x.contexts[i] = e
    BY <2>5, <2>6, ReplacesIs
  <2>9. Sound(v) /\ Replaces(x, v, i, Given(e))
    BY <2>1, <2>5, <2>7, <2>8, MappingsSet DEF Replaces
  <2>10. Replaces(u, v, i, Given(e))
    BY <2>5, <2>6, <2>7, <2>9, ReplacesTwice
  <2> QED BY <2>7, <2>9, <2>10 DEF c
<1> QED BY <1>2, <1>3

\* All contexts are left.
LEMMA AllAreLeft ==
    ASSUME NEW u, Sound(u), AllSet(u), NEW device, NEW v, v = Leaving(u, device)[Len(u.contexts)]
    PROVE  /\ Sound(v) /\ Others(u, v, {"contexts", "device_mappings"})
           /\ DOMAIN v.contexts = DOMAIN u.contexts
           /\ \A i \in DOMAIN u.contexts : v.contexts[i] = Without(u.contexts[i], device)
<1> DEFINE f == Leaving(u, device)
           n == Len(u.contexts)
           Good(k) ==
               /\ Sound(f[k]) /\ Others(u, f[k], {"contexts", "device_mappings"})
               /\ DOMAIN f[k].contexts = DOMAIN u.contexts
               /\ \A i \in DOMAIN u.contexts :
                      f[k].contexts[i] = IF i <= k THEN Without(u.contexts[i], device) ELSE u.contexts[i]
           T == {k \in Nat : k <= n /\ ~Good(k)}
<1>1. u.contexts \in Seq(ContextRecord) /\ DOMAIN u = UiFields
  BY DEF Sound, ContextsSound
<1>2. n \in Nat /\ DOMAIN u.contexts = 1 .. n
  BY <1>1
<1>3. f[0] = u /\ \A k \in 1 .. n : f[k] = leave_device(f[k - 1], k, device)
  BY <1>2, LeavingIs
<1>4. v = f[n]
  OBVIOUS
<1> HIDE DEF f, n
<1>5. Good(0)
  BY <1>1, <1>2, <1>3 DEF Others
<1>6. ASSUME NEW k \in 1 .. n, Good(k - 1)
      PROVE  Good(k)
  <2> DEFINE a == f[k - 1]  b == f[k]
  <2>1. /\ Sound(a) /\ Others(u, a, {"contexts", "device_mappings"}) /\ DOMAIN a.contexts = 1 .. n
        /\ \A i \in 1 .. n : a.contexts[i] = IF i <= k - 1 THEN Without(u.contexts[i], device) ELSE u.contexts[i]
    BY <1>2, <1>6
  <2>2. b = leave_device(a, k, device)
    BY <1>3
  <2> HIDE DEF a, b
  <2>3. k \in 1 .. n /\ ~(k <= k - 1) /\ \A i \in 1 .. n : i # k => (i <= k - 1 <=> i <= k)
    BY <1>2
  <2>4. a.contexts[k] = u.contexts[k] /\ a.contexts[k].has_device_mappings
    BY <1>2, <2>1, <2>3 DEF AllSet
  <2>5. u.contexts[k] \in ContextRecord
    BY <1>1, <1>2, ContextAt
  <2>6. Sound(b) /\ Replaces(a, b, k, Without(u.contexts[k], device))
    BY <2>1, <2>2, <2>4, DeviceLeaves
  <2>7. Without(u.contexts[k], device) \in ContextRecord
    BY <2>5, WithoutIs
  <2>8. /\ DOMAIN b.contexts = 1 .. n /\ b.contexts[k] = Without(u.contexts[k], device)
        /\ \A i \in 1 .. n : i # k => b.contexts[i] = a.contexts[i]
    <3> DEFINE d == Without(u.contexts[k], device)
    <3>1. k \in DOMAIN a.contexts /\ d \in ContextRecord /\ Sound(a) /\ Replaces(a, b, k, d)
      BY <2>1, <2>6, <2>7
    <3> HIDE DEF d
    <3>2. /\ DOMAIN b.contexts = DOMAIN a.contexts /\ b.contexts[k] = d
          /\ \A i \in DOMAIN a.contexts : i # k => b.contexts[i] = a.contexts[i]
      BY <3>1, ReplacesIs
    <3> QED BY <2>1, <3>2 DEF d
  <2>9. Others(u, b, {"contexts", "device_mappings"})
    BY <2>1, <2>6 DEF Replaces, Others
  <2>10. \A i \in 1 .. n : b.contexts[i] = IF i <= k THEN Without(u.contexts[i], device) ELSE u.contexts[i]
    BY <2>1, <2>3, <2>8
  <2> QED BY <1>2, <2>6, <2>8, <2>9, <2>10 DEF b
<1>7. Good(n)
  <2>1. SUFFICES ASSUME ~Good(n) PROVE FALSE
    OBVIOUS
  <2>2. n \in T
    BY <1>2, <2>1
  <2>3. PICK m \in T : \A l \in T : m <= l
    BY <2>2, LeastOf
  <2>4. m # 0
    BY <1>5, <2>3
  <2>5. m \in 1 .. n /\ m - 1 \in Nat /\ m - 1 <= n
    BY <1>2, <2>3, <2>4
  <2>6. Good(m - 1)
    BY <2>3, <2>5
  <2> QED BY <1>6, <2>3, <2>5, <2>6
<1> QED BY <1>2, <1>4, <1>7

-----------------------------------------------------------------------------
(* What the devices report.                                                *)

\* ui with other devices than before, none fewer.
LEMMA DevicesGrow ==
    ASSUME NEW u, Sound(u), NEW v, Others(u, v, {"devices", "device_sources"}), u.devices \subseteq v.devices, DevicesSound(v)
    PROVE  Sound(v) /\ v.contexts = u.contexts
<1>1. /\ v.contexts = u.contexts /\ v.default = u.default /\ v.ok = u.ok /\ v.device_mappings = u.device_mappings
      /\ DOMAIN v = UiFields /\ v.filters = u.filters /\ v.mapping_entities = u.mapping_entities /\ v.mappings = u.mappings
  BY DEF Others, UiFields
<1>2. \A c : Rows(v, c) = Rows(u, c)
  BY <1>1, RowsDepend
<1>3. RowsSound(v)
  BY <1>1, <1>2 DEF Sound, RowsSound
<1>4. ContextsSound(v)
  <2>0. \A i \in DOMAIN u.contexts : ContextSound(u, u.contexts[i])
    BY DEF Sound, ContextsSound
  <2>1. \A i \in DOMAIN v.contexts : ContextSound(v, v.contexts[i])
    BY <1>1, <2>0 DEF ContextSound
  <2> QED BY <1>1, <2>1 DEF Sound, ContextsSound
<1>5. MappingsSound(v)
  BY <1>1 DEF Sound, MappingsSound
<1> QED BY <1>1, <1>3, <1>4, <1>5 DEF Sound

\* The default context is the first.
LEMMA DefaultIs ==
    ASSUME NEW u, Sound(u), u.default # NoContext
    PROVE  find_context(u, u.default) = 1 /\ 1 \in DOMAIN u.contexts
<1>1. u.contexts \in Seq(ContextRecord) /\ u.default = IF u.contexts = <<>> THEN NoContext ELSE u.contexts[1].asset
  BY DEF Sound, ContextsSound
<1>2. 1 \in DOMAIN u.contexts /\ u.contexts[1].asset = u.default
  BY <1>1
<1>3. ContextsSound(u)
  BY DEF Sound
<1> QED BY <1>2, <1>3, FindIs

\* What a found device makes of ui: it is in the default context.
LEMMA DeviceFoundKeeps ==
    ASSUME NEW u, Sound(u), AllSet(u), NEW x, x.id \in UiIds, x.id \notin u.devices,
           NEW v, v = DeviceFound(u, x)
    PROVE  /\ Sound(v) /\ AllSet(v) /\ Alike(u, v)
           /\ v.devices = u.devices \cup {x.id} /\ v.device_sources = u.device_sources
<1> DEFINE a == add_device(u, x.id)
<1>1. DOMAIN u = UiFields /\ u.ok = TRUE /\ DevicesSound(u) /\ u.contexts \in Seq(ContextRecord)
  BY DEF Sound, ContextsSound
<1>2. Others(u, a, {"devices"}) /\ a.devices = u.devices \cup {x.id}
  BY <1>1 DEF add_device, Require, Others, UiFields
<1> HIDE DEF a
<1>3. Others(u, a, {"devices", "device_sources"})
  BY <1>2 DEF Others
<1>4. a.device_sources = u.device_sources /\ a.default = u.default
  BY <1>2 DEF Others, UiFields
<1>5. DevicesSound(a)
  BY <1>1, <1>2, <1>4 DEF DevicesSound
<1>6. Sound(a) /\ a.contexts = u.contexts
  BY <1>2, <1>3, <1>5, DevicesGrow
<1>7. a.filters = u.filters /\ a.mappings = u.mappings /\ a.mapping_entities = u.mapping_entities
  BY <1>2 DEF Others, UiFields
<1>8. CASE u.default = NoContext
  <2>1. v = a
    BY <1>8 DEF DeviceFound, a
  <2> QED BY <1>2, <1>4, <1>6, <1>7, <2>1 DEF AllSet, Alike, SameContext
<1>9. CASE u.default # NoContext
  <2> DEFINE c == u.contexts[1]
             w == clear_device_mappings(a, 1)  d == Taken(c)
             z == context_add_device(w, 1, x.id)  e == [w.contexts[1] EXCEPT !.devices = @ \cup {x.id}]
  <2>1. find_context(a, a.default) = 1 /\ 1 \in DOMAIN a.contexts
    BY <1>4, <1>6, <1>9, DefaultIs
  <2>2. v = set_device_mappings(z, 1)
    BY <1>9, <2>1 DEF DeviceFound, a
  <2>3. c \in ContextRecord /\ c.has_device_mappings /\ a.contexts[1] = c
    BY <1>1, <1>6, <2>1, ContextAt DEF AllSet
  <2>4. Sound(w) /\ Replaces(a, w, 1, d)
    BY <1>6, <2>1, <2>3, MappingsCleared DEF Replaces
  <2>5. d \in ContextRecord /\ ~d.has_device_mappings /\ d.devices = c.devices /\ d.asset = c.asset /\ d.bound = c.bound
    BY <2>3, SwitchedIs DEF Switched
  <2>6. c.devices \subseteq u.devices
    BY <1>6, <2>1, ContextOfSound
  <2> HIDE DEF c, d, w, z
  <2>7. 1 \in DOMAIN w.contexts /\ w.contexts[1] = d /\ w.devices = a.devices
    BY <1>6, <2>1, <2>4, <2>5, ReplacesIs
  <2>8. e \in ContextRecord /\ Sound(z) /\ Replaces(w, z, 1, e)
    <3>1. ~w.contexts[1].has_device_mappings /\ x.id \in w.devices /\ x.id \notin w.contexts[1].devices
      BY <1>2, <2>5, <2>6, <2>7
    <3> QED BY <2>4, <2>7, <3>1, DeviceIn DEF z
  <2>9. ~e.has_device_mappings /\ e.asset = c.asset /\ e.bound = c.bound /\ e.devices = c.devices \cup {x.id}
    BY <2>5, <2>7 DEF ContextRecord
  <2> HIDE DEF e
  <2>10. Replaces(a, z, 1, e)
    BY <1>6, <2>1, <2>4, <2>5, <2>8, ReplacesTwice
  <2>11. 1 \in DOMAIN z.contexts /\ z.contexts[1] = e
    BY <1>6, <2>1, <2>8, <2>10, ReplacesIs
  <2> DEFINE g == Given(e)
  <2>12. g \in ContextRecord /\ g.has_device_mappings /\ g.asset = c.asset /\ g.bound = c.bound /\ g.devices = c.devices \cup {x.id}
    BY <2>8, <2>9, SwitchedIs DEF Switched
  <2>13. Sound(v) /\ Replaces(z, v, 1, g)
    BY <2>2, <2>8, <2>9, <2>11, MappingsSet DEF Replaces
  <2> HIDE DEF g
  <2>14. Replaces(a, v, 1, g)
    BY <1>6, <2>1, <2>8, <2>10, <2>12, <2>13, ReplacesTwice
  <2>15. /\ DOMAIN v.contexts = DOMAIN a.contexts /\ v.contexts[1] = g
         /\ \A j \in DOMAIN a.contexts : j # 1 => v.contexts[j] = a.contexts[j]
         /\ v.devices = a.devices /\ v.device_sources = a.device_sources
         /\ v.filters = a.filters /\ v.mappings = a.mappings /\ v.mapping_entities = a.mapping_entities
    BY <1>6, <2>1, <2>12, <2>14, ReplacesIs
  <2>16. AllSet(v)
    BY <1>6, <2>12, <2>15 DEF AllSet
  <2>17. \A j \in DOMAIN u.contexts : SameContext(u, u.contexts[j], v.contexts[j])
    <3> TAKE j \in DOMAIN u.contexts
    <3>1. CASE j = 1
      BY <2>12, <2>15, <3>1 DEF SameContext, c
    <3>2. CASE j # 1
      BY <1>6, <2>15, <3>2 DEF SameContext
    <3> QED BY <3>1, <3>2
  <2>18. Alike(u, v)
    BY <1>2, <1>6, <1>7, <2>15, <2>17 DEF Alike
  <2> QED BY <1>2, <1>4, <2>13, <2>15, <2>16, <2>18
<1> QED BY <1>8, <1>9

\* What a lost device makes of ui: nothing is left of it.
LEMMA DeviceLostKeeps ==
    ASSUME NEW u, Sound(u), AllSet(u), NEW x, x.id \in u.devices, x.id \notin UiWired,
           NEW v, v = DeviceLost(u, x)
    PROVE  /\ Sound(v) /\ AllSet(v) /\ Alike(u, v)
           /\ v.devices = u.devices \ {x.id} /\ v.device_sources = {s \in u.device_sources : s[1] # x.id}
<1> DEFINE w == Leaving(u, x.id)[Len(u.contexts)]
<1>1. /\ Sound(w) /\ Others(u, w, {"contexts", "device_mappings"})
      /\ DOMAIN w.contexts = DOMAIN u.contexts
      /\ \A i \in DOMAIN u.contexts : w.contexts[i] = Without(u.contexts[i], x.id)
  BY AllAreLeft
<1>2. v = remove_device(w, x.id)
  BY DEF DeviceLost
<1> HIDE DEF w
<1>3. /\ w.devices = u.devices /\ w.device_sources = u.device_sources /\ w.filters = u.filters
      /\ w.mapping_entities = u.mapping_entities /\ w.mappings = u.mappings /\ DOMAIN w = UiFields /\ w.ok = TRUE
  BY <1>1 DEF Others, UiFields, Sound
<1>4. ASSUME NEW i \in DOMAIN u.contexts
      PROVE  /\ w.contexts[i].has_device_mappings /\ w.contexts[i].asset = u.contexts[i].asset
             /\ w.contexts[i].bound = u.contexts[i].bound /\ w.contexts[i].devices = u.contexts[i].devices \ {x.id}
  <2>1. u.contexts[i] \in ContextRecord /\ u.contexts[i].has_device_mappings
    BY ContextOfSound DEF AllSet
  <2> QED BY <1>1, <2>1, WithoutIs
<1>5. /\ Others(w, v, {"devices", "device_sources", "device_mappings"})
      /\ v.devices = w.devices \ {x.id} /\ v.device_sources = {s \in w.device_sources : s[1] # x.id}
      /\ v.device_mappings = {m \in w.device_mappings : m[1] # x.id}
  BY <1>2, <1>3 DEF remove_device, find_device, Require, Others, UiFields
<1>6. /\ v.contexts = w.contexts /\ v.default = w.default /\ v.ok = TRUE /\ DOMAIN v = UiFields /\ v.filters = w.filters
      /\ v.mapping_entities = w.mapping_entities /\ v.mappings = w.mappings
  BY <1>3, <1>5 DEF Others, UiFields
<1>7. ContextsSound(v)
  <2>1. \A i \in DOMAIN w.contexts : ContextSound(w, w.contexts[i])
    BY <1>1 DEF Sound, ContextsSound
  <2>2. \A i \in DOMAIN v.contexts : ContextSound(v, v.contexts[i])
    BY <1>1, <1>3, <1>4, <1>5, <1>6, <2>1 DEF ContextSound
  <2> QED BY <1>1, <1>6, <2>2 DEF Sound, ContextsSound
<1>8. MappingsSound(v) /\ DevicesSound(v)
  BY <1>1, <1>5, <1>6 DEF Sound, MappingsSound, DevicesSound
<1>9. RowsSound(v)
  <2>1. \A c : Rows(v, c) = Rows(w, c)
    BY <1>6, RowsDepend
  <2>2. \A r : r \in w.device_mappings <=>
            \E i \in DOMAIN w.contexts : w.contexts[i].has_device_mappings /\ r \in Rows(w, w.contexts[i])
    BY <1>1, HeldIs DEF Sound
  <2>3. ASSUME NEW r \in w.device_mappings PROVE r[1] # x.id
    <3>1. PICK i \in DOMAIN w.contexts : r \in Rows(w, w.contexts[i])
      BY <2>2
    <3>2. PICK d, b, m : Gives(w, w.contexts[i], d, b, m) /\ r = <<d, m[2], m[3], b[3]>>
      BY <3>1, RowIs
    <3> QED BY <1>1, <1>4, <3>2 DEF Gives
  <2>4. v.device_mappings = w.device_mappings
    BY <1>5, <2>3
  <2>5. \A r : r \in v.device_mappings <=>
            \E i \in DOMAIN v.contexts : v.contexts[i].has_device_mappings /\ r \in Rows(v, v.contexts[i])
    BY <1>6, <2>1, <2>2, <2>4
  <2> QED BY <2>5, RowsHeld
<1>10. Sound(v)
  BY <1>6, <1>7, <1>8, <1>9 DEF Sound
<1>11. AllSet(v)
  BY <1>1, <1>4, <1>6 DEF AllSet
<1>12. Alike(u, v)
  BY <1>1, <1>3, <1>4, <1>5, <1>6 DEF Alike, SameContext
<1> QED BY <1>3, <1>5, <1>10, <1>11, <1>12

LEMMA SourcesKeep ==
    ASSUME NEW u, Sound(u), AllSet(u), NEW v, Others(u, v, {"device_sources"}), v.device_sources \subseteq u.devices \X UiPaths
    PROVE  Sound(v) /\ AllSet(v) /\ Alike(u, v) /\ v.devices = u.devices
<1>1. Others(u, v, {"devices", "device_sources"})
  BY DEF Others
<1>2. /\ v.devices = u.devices /\ v.contexts = u.contexts /\ v.filters = u.filters
      /\ v.mapping_entities = u.mapping_entities /\ v.mappings = u.mappings
  BY DEF Others, UiFields
<1>3. DevicesSound(v)
  BY <1>2 DEF Sound, DevicesSound
<1>4. Sound(v)
  BY <1>1, <1>2, <1>3, DevicesGrow
<1> QED BY <1>2, <1>4 DEF AllSet, Alike, SameContext

LEMMA AddSourceKeeps ==
    ASSUME NEW u, Sound(u), AllSet(u), NEW x, x.id \in u.devices, x.path \in UiPaths, <<x.id, x.path>> \notin u.device_sources,
           NEW v, v = AddSource(u, x)
    PROVE  /\ Sound(v) /\ AllSet(v) /\ Alike(u, v)
           /\ v.devices = u.devices /\ v.device_sources = u.device_sources \cup {<<x.id, x.path>>}
<1>1. DOMAIN u = UiFields /\ u.ok = TRUE /\ u.device_sources \subseteq u.devices \X UiPaths
  BY DEF Sound, DevicesSound
<1>2. Others(u, v, {"device_sources"}) /\ v.device_sources = u.device_sources \cup {<<x.id, x.path>>}
  BY <1>1 DEF AddSource, Require, Others, UiFields
<1>3. v.device_sources \subseteq u.devices \X UiPaths
  BY <1>1, <1>2
<1> QED BY <1>2, <1>3, SourcesKeep

LEMMA RemoveSourceKeeps ==
    ASSUME NEW u, Sound(u), AllSet(u), NEW x, <<x.id, x.path>> \in u.device_sources,
           NEW v, v = RemoveSource(u, x)
    PROVE  /\ Sound(v) /\ AllSet(v) /\ Alike(u, v)
           /\ v.devices = u.devices /\ v.device_sources = u.device_sources \ {<<x.id, x.path>>}
<1>1. DOMAIN u = UiFields /\ u.ok = TRUE /\ u.device_sources \subseteq u.devices \X UiPaths
  BY DEF Sound, DevicesSound
<1>2. Others(u, v, {"device_sources"}) /\ v.device_sources = u.device_sources \ {<<x.id, x.path>>}
  BY <1>1 DEF RemoveSource, Require, Others, UiFields
<1>3. v.device_sources \subseteq u.devices \X UiPaths
  BY <1>1, <1>2
<1> QED BY <1>2, <1>3, SourcesKeep

\* The kinds of filters fit the inputs.
InputFits(x) ==
    \/ x.state \in {"BUTTON_DOWN", "BUTTON_UP"} /\ x.code \in Buttons
    \/ x.state = "AXIS_TILT" /\ x.code \in Axes /\ UiKind[x.code] = "AxisTilt"
    \/ x.state = "CURSOR_MOVE" /\ x.code \in Axes /\ UiKind[x.code] = "AxisMove"

LEMMA InputKeepsUi ==
    ASSUME NEW u, Sound(u), AllSet(u), NEW x, InputFits(x), NEW v, v = Input(u, x)
    PROVE  /\ Sound(v) /\ AllSet(v) /\ Alike(u, v)
           /\ v.devices = u.devices /\ v.device_sources = u.device_sources
<1> DEFINE rows == {m \in u.device_mappings : m[1] = x.id /\ m[2] = x.code}
           calls(m) == {<<m[4], value>> : value \in Calls(u.filters[m[3]], x.state)}
           all == UNION {calls(m) : m \in rows}
<1>1. DOMAIN u = UiFields /\ u.ok = TRUE
  BY DEF Sound
<1>2. ASSUME NEW m \in rows PROVE calls(m) # {}
  <2>1. PICK i \in DOMAIN u.contexts : u.contexts[i].has_device_mappings /\ m \in Rows(u, u.contexts[i])
    BY HeldIs DEF Sound
  <2>2. PICK d, b, n : Gives(u, u.contexts[i], d, b, n) /\ m = <<d, n[2], n[3], b[3]>>
    BY <2>1, RowIs
  <2>3. u.filters[n[3]] = UiKind[n[2]]
    BY <2>2 DEF Gives, Sound, MappingsSound
  <2>4. u.filters[m[3]] = UiKind[x.code]
    BY <2>2, <2>3
  <2>5. Calls(UiKind[x.code], x.state) # {}
    BY UiKindAssumption DEF InputFits, Calls, HandleButton, HandleAxisTilt, HandleAxisMove
  <2> QED BY <2>4, <2>5
<1>3. x.state \notin {"AXIS_TRIGGER", "KEY_CHARACTER"}
  BY DEF InputFits
<1>4. v = [Require(u, \A m \in rows : calls(m) # {}) EXCEPT !.called = all]
  BY <1>3 DEF Input
<1> HIDE DEF rows, calls, all
<1>5. Others(u, v, {"called"})
  BY <1>1, <1>2, <1>4 DEF Require, Others, UiFields
<1>6. Others(u, v, {"called", "ready"})
  BY <1>5 DEF Others
<1>7. v.contexts = u.contexts /\ v.devices = u.devices /\ v.device_sources = u.device_sources
  BY <1>5 DEF Others, UiFields
<1> QED BY <1>6, <1>7, SameSound, SameAlike DEF AllSet

-----------------------------------------------------------------------------
(* What the devices know ui has, and what it makes of their messages.      *)

\* The same devices with the same sources; the levels of their codes are not ui's.
SameRows(k, l) ==
    /\ DOMAIN k = DOMAIN l
    /\ \A d \in DOMAIN k :
           /\ DOMAIN k[d] = {"sources", "level"} /\ DOMAIN l[d] = {"sources", "level"}
           /\ k[d].sources = l[d].sources

LEMMA UiReportIs ==
    ASSUME NEW x \in UiReport
    PROVE  /\ x.type \in {"DeviceFound", "DeviceLost", "AddSource", "RemoveSource", "Input"}
           /\ x.id \in UiIds
           /\ x.type = "DeviceLost" => x.id \notin UiWired
           /\ x.type \in {"AddSource", "RemoveSource"} => x.path \in UiPaths
           /\ x.type = "Input" => InputFits(x)
BY DEF UiReport, InputFits

LEMMA RowsAccept ==
    ASSUME NEW k, NEW l, SameRows(k, l), NEW x \in UiReport, Accepts(k, x)
    PROVE  Accepts(l, x)
BY UiReportIs DEF SameRows, Accepts

LEMMA SourcesPut ==
    ASSUME NEW k, NEW d \in DOMAIN k, DOMAIN k[d] = {"sources", "level"}, NEW s,
           NEW t, t = [k EXCEPT ![d].sources = s]
    PROVE  /\ DOMAIN t = DOMAIN k /\ DOMAIN t[d] = {"sources", "level"} /\ t[d].sources = s
           /\ \A e \in DOMAIN k : e # d => t[e] = k[e]
OBVIOUS

LEMMA RowsTake ==
    ASSUME NEW k, NEW l, SameRows(k, l), NEW x \in UiReport, Accepts(k, x)
    PROVE  SameRows(Take(k, x), Take(l, x))
<1>1. CASE x.type = "DeviceFound"
  <2>1. DOMAIN FreshRow = {"sources", "level"}
    BY DEF FreshRow
  <2>2. Take(k, x) = [d \in DOMAIN k \cup {x.id} |-> IF d = x.id THEN FreshRow ELSE k[d]]
        /\ Take(l, x) = [d \in DOMAIN l \cup {x.id} |-> IF d = x.id THEN FreshRow ELSE l[d]]
    BY <1>1 DEF Take
  <2> QED BY <2>1, <2>2 DEF SameRows
<1>2. CASE x.type = "DeviceLost"
  <2>1. Take(k, x) = [d \in DOMAIN k \ {x.id} |-> k[d]] /\ Take(l, x) = [d \in DOMAIN l \ {x.id} |-> l[d]]
    BY <1>2 DEF Take, Restrict
  <2> QED BY <2>1 DEF SameRows
<1>3. CASE x.type = "AddSource"
  <2> DEFINE s == k[x.id].sources \cup {x.path}
  <2>1. x.id \in DOMAIN k /\ DOMAIN k = DOMAIN l /\ k[x.id].sources = l[x.id].sources
        /\ DOMAIN k[x.id] = {"sources", "level"} /\ DOMAIN l[x.id] = {"sources", "level"}
    BY <1>3 DEF Accepts, SameRows
  <2>2. Take(k, x) = [k EXCEPT ![x.id].sources = s] /\ Take(l, x) = [l EXCEPT ![x.id].sources = s]
    BY <1>3, <2>1 DEF Take
  <2> HIDE DEF s
  <2> QED BY <2>1, <2>2, SourcesPut DEF SameRows
<1>4. CASE x.type = "RemoveSource"
  <2> DEFINE s == k[x.id].sources \ {x.path}
  <2>1. x.id \in DOMAIN k /\ DOMAIN k = DOMAIN l /\ k[x.id].sources = l[x.id].sources
        /\ DOMAIN k[x.id] = {"sources", "level"} /\ DOMAIN l[x.id] = {"sources", "level"}
    BY <1>4 DEF Accepts, SameRows
  <2>2. Take(k, x) = [k EXCEPT ![x.id].sources = s] /\ Take(l, x) = [l EXCEPT ![x.id].sources = s]
    BY <1>4, <2>1 DEF Take
  <2> HIDE DEF s
  <2> QED BY <2>1, <2>2, SourcesPut DEF SameRows
<1>5. CASE x.type = "Input"
  <2>1. CASE Remembered(x)
    <3>1. Take(k, x) = [k EXCEPT ![x.id].level[x.code] = LevelOf(x)] /\ Take(l, x) = [l EXCEPT ![x.id].level[x.code] = LevelOf(x)]
      BY <1>5, <2>1 DEF Take
    <3> QED BY <3>1 DEF SameRows
  <2>2. CASE ~Remembered(x)
    <3>1. Take(k, x) = k /\ Take(l, x) = l
      BY <1>5, <2>2 DEF Take
    <3> QED BY <3>1
  <2> QED BY <2>1, <2>2
<1> QED BY <1>1, <1>2, <1>3, <1>4, <1>5, UiReportIs

LEMMA AcceptedAlike ==
    ASSUME NEW k, NEW l, SameRows(k, l), NEW ms \in Seq(UiReport), AllAccepted(k, ms)
    PROVE  AllAccepted(l, ms)
<1> DEFINE n == Len(ms)  f == Course(k, ms)  g == Course(l, ms)
           T == {j \in Nat : j <= n /\ ~SameRows(f[j], g[j])}
<1>1. (\A j \in 1 .. n : Accepts(f[j - 1], ms[j])) /\ n \in Nat /\ \A j \in 1 .. n : ms[j] \in UiReport
  BY DEF AllAccepted
<1>2. f[0] = k /\ Continues(f, ms, n) /\ g[0] = l /\ Continues(g, ms, n)
  BY <1>1, CourseIs
<1> HIDE DEF f, g, n
<1>3. T = {}
  <2>1. SUFFICES ASSUME T # {} PROVE FALSE
    OBVIOUS
  <2>2. PICK m \in T : \A j \in T : m <= j
    BY <2>1, LeastOf
  <2>3. m # 0
    BY <1>2, <2>2
  <2>4. m \in 1 .. n /\ m - 1 \in Nat /\ m - 1 <= n
    BY <1>1, <2>2, <2>3
  <2>5. SameRows(f[m - 1], g[m - 1])
    BY <2>2, <2>4
  <2>6. f[m] = Take(f[m - 1], ms[m]) /\ g[m] = Take(g[m - 1], ms[m]) /\ Accepts(f[m - 1], ms[m]) /\ ms[m] \in UiReport
    BY <1>1, <1>2, <2>4 DEF Continues
  <2> QED BY <2>2, <2>5, <2>6, RowsTake
<1>4. \A j \in 1 .. n : Accepts(g[j - 1], ms[j])
  <2> TAKE j \in 1 .. n
  <2>1. SameRows(f[j - 1], g[j - 1])
    BY <1>1, <1>3
  <2> QED BY <1>1, <2>1, RowsAccept
<1> QED BY <1>4 DEF AllAccepted, g, n

SourcesOf(u, d) == {s[2] : s \in {r \in u.device_sources : r[1] = d}}

LEMMA KnownByIs ==
    ASSUME NEW u
    PROVE  /\ DOMAIN KnownBy(u) = u.devices
           /\ \A d \in u.devices : DOMAIN KnownBy(u)[d] = {"sources", "level"} /\ KnownBy(u)[d].sources = SourcesOf(u, d)
BY DEF KnownBy, SourcesOf

LEMMA KnownBySame ==
    ASSUME NEW u, NEW v, v.devices = u.devices, v.device_sources = u.device_sources
    PROVE  KnownBy(v) = KnownBy(u)
BY DEF KnownBy

LEMMA HandleInputKeeps ==
    ASSUME NEW u, Sound(u), AllSet(u), NEW x \in UiReport, Accepts(KnownBy(u), x),
           NEW v, v = HandleInput(u, x)
    PROVE  Sound(v) /\ AllSet(v) /\ Alike(u, v) /\ SameRows(Take(KnownBy(u), x), KnownBy(v))
<1> DEFINE k == KnownBy(u)  l == KnownBy(v)
<1>1. DOMAIN k = u.devices /\ \A d \in u.devices : DOMAIN k[d] = {"sources", "level"} /\ k[d].sources = SourcesOf(u, d)
  BY KnownByIs
<1>2. DOMAIN l = v.devices /\ \A d \in v.devices : DOMAIN l[d] = {"sources", "level"} /\ l[d].sources = SourcesOf(v, d)
  BY KnownByIs
<1>3. u.device_sources \subseteq u.devices \X UiPaths
  BY DEF Sound, DevicesSound
<1>4. Accepts(k, x)
  OBVIOUS
<1> HIDE DEF k, l
<1>5. CASE x.type = "DeviceFound"
  <2>1. v = DeviceFound(u, x) /\ x.id \notin u.devices /\ x.id \in UiIds
    BY <1>1, <1>4, <1>5, UiReportIs DEF HandleInput, Accepts
  <2>2. Sound(v) /\ AllSet(v) /\ Alike(u, v) /\ v.devices = u.devices \cup {x.id} /\ v.device_sources = u.device_sources
    BY <2>1, DeviceFoundKeeps
  <2>3. Take(k, x) = [d \in DOMAIN k \cup {x.id} |-> IF d = x.id THEN FreshRow ELSE k[d]]
    BY <1>5 DEF Take
  <2>4. DOMAIN FreshRow = {"sources", "level"} /\ FreshRow.sources = {}
    BY DEF FreshRow
  <2>5. SourcesOf(v, x.id) = {} /\ \A d : SourcesOf(v, d) = SourcesOf(u, d)
    BY <1>3, <2>1, <2>2 DEF SourcesOf
  <2>6. SameRows(Take(k, x), l)
    <3>1. DOMAIN Take(k, x) = u.devices \cup {x.id} /\ Take(k, x)[x.id] = FreshRow
          /\ \A d \in u.devices : d # x.id /\ Take(k, x)[d] = k[d]
      BY <1>1, <2>1, <2>3
    <3>2. DOMAIN l = u.devices \cup {x.id}
          /\ \A d \in u.devices \cup {x.id} : DOMAIN l[d] = {"sources", "level"} /\ l[d].sources = SourcesOf(v, d)
      BY <1>2, <2>2
    <3> DEFINE t == Take(k, x)
    <3>3. ASSUME NEW d \in u.devices \cup {x.id}
          PROVE  /\ DOMAIN t[d] = {"sources", "level"} /\ DOMAIN l[d] = {"sources", "level"}
                 /\ t[d].sources = l[d].sources
      <4>1. CASE d = x.id
        BY <2>4, <2>5, <3>1, <3>2, <4>1
      <4>2. CASE d # x.id
        BY <1>1, <2>5, <3>1, <3>2, <4>2
      <4> QED BY <4>1, <4>2
    <3> QED BY <3>1, <3>2, <3>3 DEF SameRows
  <2> QED BY <2>2, <2>6 DEF k, l
<1>6. CASE x.type = "DeviceLost"
  <2>1. v = DeviceLost(u, x) /\ x.id \in u.devices /\ x.id \notin UiWired
    BY <1>1, <1>4, <1>6, UiReportIs DEF HandleInput, Accepts
  <2>2. /\ Sound(v) /\ AllSet(v) /\ Alike(u, v) /\ v.devices = u.devices \ {x.id}
        /\ v.device_sources = {s \in u.device_sources : s[1] # x.id}
    BY <2>1, DeviceLostKeeps
  <2>3. Take(k, x) = [d \in DOMAIN k \ {x.id} |-> k[d]]
    BY <1>6 DEF Take, Restrict
  <2>4. \A d : d # x.id => SourcesOf(v, d) = SourcesOf(u, d)
    BY <2>2 DEF SourcesOf
  <2>5. SameRows(Take(k, x), l)
    BY <1>1, <1>2, <2>2, <2>3, <2>4 DEF SameRows
  <2> QED BY <2>2, <2>5 DEF k, l
<1>7. CASE x.type = "AddSource"
  <2>1. v = AddSource(u, x) /\ x.id \in u.devices /\ x.path \in UiPaths /\ x.path \notin SourcesOf(u, x.id)
    BY <1>1, <1>4, <1>7, UiReportIs DEF HandleInput, Accepts
  <2>2. <<x.id, x.path>> \notin u.device_sources
    BY <2>1 DEF SourcesOf
  <2>3. /\ Sound(v) /\ AllSet(v) /\ Alike(u, v) /\ v.devices = u.devices
        /\ v.device_sources = u.device_sources \cup {<<x.id, x.path>>}
    BY <2>1, <2>2, AddSourceKeeps
  <2> DEFINE s == k[x.id].sources \cup {x.path}
  <2>4. Take(k, x) = [k EXCEPT ![x.id].sources = s]
    BY <1>7 DEF Take
  <2>5. SourcesOf(v, x.id) = s
    <3>1. s = SourcesOf(u, x.id) \cup {x.path}
      BY <1>1, <2>1
    <3> HIDE DEF s
    <3>2. \A p : p \in SourcesOf(v, x.id) <=> \E q \in v.device_sources : q[1] = x.id /\ p = q[2]
      BY DEF SourcesOf
    <3>3. \A p : p \in SourcesOf(u, x.id) <=> \E q \in u.device_sources : q[1] = x.id /\ p = q[2]
      BY DEF SourcesOf
    <3> DEFINE e == <<x.id, x.path>>
    <3>4. e[1] = x.id /\ e[2] = x.path /\ v.device_sources = u.device_sources \cup {e}
      BY <2>3
    <3> HIDE DEF e
    <3>5. \A p : p \in SourcesOf(v, x.id) <=> p \in s
      BY <3>1, <3>2, <3>3, <3>4
    <3> HIDE DEF s
    <3> QED BY <3>5 DEF SourcesOf
  <2>6. \A d : d # x.id => SourcesOf(v, d) = SourcesOf(u, d)
    BY <2>3 DEF SourcesOf
  <2> HIDE DEF s
  <2>7. x.id \in DOMAIN k /\ DOMAIN k[x.id] = {"sources", "level"}
    BY <1>1, <2>1
  <2>8. /\ DOMAIN Take(k, x) = DOMAIN k /\ DOMAIN Take(k, x)[x.id] = {"sources", "level"} /\ Take(k, x)[x.id].sources = s
        /\ \A d \in DOMAIN k : d # x.id => Take(k, x)[d] = k[d]
    BY <2>4, <2>7, SourcesPut
  <2>9. SameRows(Take(k, x), l)
    BY <1>1, <1>2, <2>3, <2>5, <2>6, <2>8 DEF SameRows
  <2> QED BY <2>3, <2>9 DEF k, l
<1>8. CASE x.type = "RemoveSource"
  <2>1. v = RemoveSource(u, x) /\ x.id \in u.devices /\ x.path \in SourcesOf(u, x.id)
    BY <1>1, <1>4, <1>8, UiReportIs DEF HandleInput, Accepts
  <2>2. <<x.id, x.path>> \in u.device_sources
    BY <1>3, <2>1 DEF SourcesOf
  <2>3. /\ Sound(v) /\ AllSet(v) /\ Alike(u, v) /\ v.devices = u.devices
        /\ v.device_sources = u.device_sources \ {<<x.id, x.path>>}
    BY <2>1, <2>2, RemoveSourceKeeps
  <2> DEFINE s == k[x.id].sources \ {x.path}
  <2>4. Take(k, x) = [k EXCEPT ![x.id].sources = s]
    BY <1>8 DEF Take
  <2>5. SourcesOf(v, x.id) = s
    <3>1. s = SourcesOf(u, x.id) \ {x.path}
      BY <1>1, <2>1
    <3> HIDE DEF s
    <3> QED BY <1>3, <2>1, <2>3, <3>1 DEF SourcesOf
  <2>6. \A d : d # x.id => SourcesOf(v, d) = SourcesOf(u, d)
    BY <2>3 DEF SourcesOf
  <2> HIDE DEF s
  <2>7. x.id \in DOMAIN k /\ DOMAIN k[x.id] = {"sources", "level"}
    BY <1>1, <2>1
  <2>8. /\ DOMAIN Take(k, x) = DOMAIN k /\ DOMAIN Take(k, x)[x.id] = {"sources", "level"} /\ Take(k, x)[x.id].sources = s
        /\ \A d \in DOMAIN k : d # x.id => Take(k, x)[d] = k[d]
    BY <2>4, <2>7, SourcesPut
  <2>9. SameRows(Take(k, x), l)
    BY <1>1, <1>2, <2>3, <2>5, <2>6, <2>8 DEF SameRows
  <2> QED BY <2>3, <2>9 DEF k, l
<1>9. CASE x.type = "Input"
  <2>1. v = Input(u, x) /\ x.id \in u.devices /\ InputFits(x)
    BY <1>1, <1>4, <1>9, UiReportIs DEF HandleInput, Accepts
  <2>2. Sound(v) /\ AllSet(v) /\ Alike(u, v) /\ v.devices = u.devices /\ v.device_sources = u.device_sources
    BY <2>1, InputKeepsUi
  <2>3. \A d : SourcesOf(v, d) = SourcesOf(u, d)
    BY <2>2 DEF SourcesOf
  <2>4. SameRows(Take(k, x), l)
    <3>1. CASE Remembered(x)
      <4>1. Take(k, x) = [k EXCEPT ![x.id].level[x.code] = LevelOf(x)]
        BY <1>9, <3>1 DEF Take
      <4> QED BY <1>1, <1>2, <2>1, <2>2, <2>3, <4>1 DEF SameRows
    <3>2. CASE ~Remembered(x)
      <4>1. Take(k, x) = k
        BY <1>9, <3>2 DEF Take
      <4> QED BY <1>1, <1>2, <2>2, <2>3, <4>1 DEF SameRows
    <3> QED BY <3>1, <3>2
  <2> QED BY <2>2, <2>4 DEF k, l
<1> QED BY <1>5, <1>6, <1>7, <1>8, <1>9, UiReportIs

-----------------------------------------------------------------------------
(* The steps of ui, its clients and its devices.                           *)

\* A queue of messages of the devices that are all accepted, one less or one more.
LEMMA AcceptedPop ==
    ASSUME NEW k, NEW ms \in Seq(UiReport), ms # <<>>, AllAccepted(k, ms)
    PROVE  /\ Head(ms) \in UiReport /\ Accepts(k, Head(ms))
           /\ Tail(ms) \in Seq(UiReport) /\ AllAccepted(Take(k, Head(ms)), Tail(ms))
<1>1. Told(k, ms, Settled(k, ms))
  BY ToldIs
<1>2. Told(Take(k, Head(ms)), Tail(ms), Settled(k, ms))
  BY <1>1, PopOne
<1>3. AllAccepted(Take(k, Head(ms)), Tail(ms))
  BY <1>2, Zenon DEF Told, AllAccepted
<1>4. Len(ms) \in Nat /\ 1 \in 1 .. Len(ms) /\ Head(ms) = ms[1] /\ Head(ms) \in UiReport /\ Tail(ms) \in Seq(UiReport)
  OBVIOUS
<1>5. Course(k, ms)[0] = k
  BY <1>4, CourseIs
<1>6. Accepts(Course(k, ms)[1 - 1], ms[1])
  BY <1>1, <1>4 DEF Told
<1>7. Accepts(k, Head(ms))
  BY <1>4, <1>5, <1>6
<1> QED BY <1>3, <1>4, <1>7

LEMMA AcceptedAppend ==
    ASSUME NEW k, NEW ms \in Seq(UiReport), AllAccepted(k, ms), NEW x \in UiReport, Accepts(Settled(k, ms), x)
    PROVE  Append(ms, x) \in Seq(UiReport) /\ AllAccepted(k, Append(ms, x))
<1>1. Told(k, ms, Settled(k, ms))
  BY ToldIs
<1>2. Told(k, Append(ms, x), Take(Settled(k, ms), x))
  BY <1>1, TellOne
<1>3. AllAccepted(k, Append(ms, x))
  BY <1>2, Zenon DEF Told, AllAccepted
<1> QED BY <1>3

LEMMA NothingFits ==
    ASSUME NEW u
    PROVE  QueueFits(u, <<>>)
BY DEF QueueFits

LEMMA AtStartSound == Sound(UiAtStart)
<1> DEFINE u == UiAtStart
<1>1. /\ u.devices = {} /\ u.device_mappings = {} /\ u.device_sources = {} /\ u.filters = <<>>
      /\ u.mapping_entities = {} /\ u.mappings = {} /\ u.contexts = <<>> /\ u.default = NoContext /\ u.ok = TRUE
      /\ DOMAIN u = UiFields
  BY DEF UiAtStart, UiFields
<1> HIDE DEF u
<1>2. DOMAIN u.contexts = {} /\ u.contexts \in Seq(ContextRecord) /\ u.filters \in Seq(FilterKinds)
  BY <1>1
<1>3. ContextsSound(u) /\ MappingsSound(u) /\ DevicesSound(u)
  BY <1>1, <1>2 DEF ContextsSound, MappingsSound, DevicesSound
<1>4. RowsSound(u)
  <2>1. \A r : r \in u.device_mappings <=>
            \E i \in DOMAIN u.contexts : u.contexts[i].has_device_mappings /\ r \in Rows(u, u.contexts[i])
    BY <1>1, <1>2
  <2> QED BY <2>1, RowsHeld
<1>5. Sound(u)
  BY <1>1, <1>3, <1>4 DEF Sound
<1> QED BY <1>5 DEF u

LEMMA UiInitSound == UiInit => UiInv
<1> SUFFICES ASSUME UiInit PROVE UiInv
  OBVIOUS
<1> DEFINE m == [type |-> "DeviceFound", id |-> 0]
<1>1. ui = UiAtStart /\ queue \in UiStartups /\ queue_input = <<m>> /\ phase = "messages"
  BY DEF UiInit
<1>2. QueueFits(ui, queue)
  BY <1>1, UiStartupsAssumption DEF QueueFits
<1>3. m \in UiReport /\ m.type = "DeviceFound" /\ m.id = 0
  BY DEF UiReport, UiIds
<1> HIDE DEF m
<1>4. queue_input \in Seq(UiReport) /\ Len(queue_input) = 1 /\ queue_input[1] = m
  BY <1>1, <1>3
<1>5. AllAccepted(KnownBy(ui), queue_input)
  <2>1. Course(KnownBy(ui), queue_input)[0] = KnownBy(ui)
    BY <1>4, CourseIs
  <2>2. DOMAIN KnownBy(ui) = {}
    <3>1. ui.devices = {}
      BY <1>1 DEF UiAtStart
    <3> QED BY <3>1, KnownByIs
  <2>3. Accepts(KnownBy(ui), m)
    BY <1>3, <2>2 DEF Accepts
  <2>4. \A n \in 1 .. Len(queue_input) : n = 1 /\ n - 1 = 0
    BY <1>4
  <2> QED BY <1>4, <2>1, <2>3, <2>4 DEF AllAccepted
<1> QED BY <1>1, <1>2, <1>4, <1>5, AtStartSound DEF UiInv

LEMMA HandleMessageKeeps == UiInv /\ HandleMessage => UiInv'
<1> SUFFICES ASSUME UiInv, HandleMessage PROVE UiInv'
  OBVIOUS
<1> DEFINE x == Head(queue)  v == Handle(ui, x)
<1>1. /\ ui' = [v EXCEPT !.called = {}] /\ queue' = Tail(queue) /\ queue # <<>>
      /\ phase = "messages" /\ queue_input' = queue_input /\ phase' = phase
  BY DEF HandleMessage
<1>2. Sound(ui) /\ QueueFits(ui, queue) /\ queue_input \in Seq(UiReport) /\ AllAccepted(KnownBy(ui), queue_input)
  BY DEF UiInv
<1>3. x \in UiMessage /\ Fits(ui, x) /\ QueueFits(v, queue')
  BY <1>1, <1>2, PopFits
<1>4. Sound(v) /\ Effect(ui, x, v)
  BY <1>2, <1>3, HandleKeeps
<1>5. v.devices = ui.devices /\ v.device_sources = ui.device_sources
  BY <1>3, <1>4, EffectDevices
<1> HIDE DEF v, x
<1>6. Others(v, ui', {"called", "ready"}) /\ ui'.devices = v.devices /\ ui'.device_sources = v.device_sources
  BY <1>1, <1>4 DEF Others, UiFields, Sound
<1>7. Sound(ui') /\ Alike(v, ui')
  BY <1>4, <1>6, SameSound, SameAlike
<1>8. QueueFits(ui', queue')
  BY <1>3, <1>4, <1>7, WaitAlike
<1>9. KnownBy(ui') = KnownBy(ui)
  BY <1>5, <1>6, KnownBySame
<1> QED BY <1>1, <1>2, <1>7, <1>8, <1>9 DEF UiInv

\* What update forgets before it goes on.
Forgets(u) == [u EXCEPT !.called = {}]

LEMMA Forgotten ==
    ASSUME NEW u, Sound(u), NEW w, w = Forgets(u)
    PROVE  /\ Sound(w) /\ Alike(u, w) /\ KnownBy(w) = KnownBy(u) /\ (AllSet(u) => AllSet(w))
           /\ w.devices = u.devices /\ w.device_sources = u.device_sources
<1>1. Others(u, w, {"called", "ready"})
  BY DEF Others, UiFields, Sound, Forgets
<1>2. w.devices = u.devices /\ w.device_sources = u.device_sources /\ w.contexts = u.contexts
  BY <1>1 DEF Others, UiFields
<1> QED BY <1>1, <1>2, SameSound, SameAlike, KnownBySame DEF AllSet

LEMMA SetContextsKeeps == UiInv /\ SetContexts => UiInv'
<1> SUFFICES ASSUME UiInv, SetContexts PROVE UiInv'
  OBVIOUS
<1> DEFINE w == Forgets(ui)
<1>1. ui' = SetAll(w) /\ queue = <<>> /\ queue' = queue /\ queue_input' = queue_input /\ phase' = "input"
  BY DEF SetContexts, Forgets
<1>2. Sound(ui) /\ queue_input \in Seq(UiReport) /\ AllAccepted(KnownBy(ui), queue_input)
  BY DEF UiInv
<1>3. Sound(w) /\ KnownBy(w) = KnownBy(ui)
  BY <1>2, Forgotten
<1> HIDE DEF w
<1>4. Sound(ui') /\ AllSet(ui') /\ Others(w, ui', {"contexts", "device_mappings"})
  BY <1>1, <1>3, AllAreSet
<1>5. ui'.devices = w.devices /\ ui'.device_sources = w.device_sources
  BY <1>4 DEF Others, UiFields
<1>6. KnownBy(ui') = KnownBy(ui)
  BY <1>3, <1>5, KnownBySame
<1>7. QueueFits(ui', queue')
  BY <1>1, NothingFits
<1> QED BY <1>1, <1>2, <1>4, <1>6, <1>7 DEF UiInv

LEMMA HandleInputMessageKeeps == UiInv /\ HandleInputMessage => UiInv'
<1> SUFFICES ASSUME UiInv, HandleInputMessage PROVE UiInv'
  OBVIOUS
<1> DEFINE w == Forgets(ui)  x == Head(queue_input)
<1>1. /\ ui' = HandleInput(w, x) /\ queue' = queue /\ queue_input # <<>> /\ queue_input' = Tail(queue_input)
      /\ phase = "input" /\ phase' = phase
  BY DEF HandleInputMessage, Forgets
<1>2. /\ Sound(ui) /\ AllSet(ui) /\ QueueFits(ui, queue)
      /\ queue_input \in Seq(UiReport) /\ AllAccepted(KnownBy(ui), queue_input)
  BY <1>1 DEF UiInv
<1>3. Sound(w) /\ KnownBy(w) = KnownBy(ui) /\ AllSet(w) /\ Alike(ui, w)
  BY <1>2, Forgotten
<1>4. /\ x \in UiReport /\ Accepts(KnownBy(ui), x)
      /\ Tail(queue_input) \in Seq(UiReport) /\ AllAccepted(Take(KnownBy(ui), x), Tail(queue_input))
  BY <1>1, <1>2, AcceptedPop
<1> HIDE DEF w, x
<1>5. Sound(ui') /\ AllSet(ui') /\ Alike(w, ui') /\ SameRows(Take(KnownBy(w), x), KnownBy(ui'))
  BY <1>1, <1>3, <1>4, HandleInputKeeps
<1>6. AllAccepted(KnownBy(ui'), queue_input')
  BY <1>1, <1>3, <1>4, <1>5, AcceptedAlike
<1>7. QueueFits(w, queue)
  BY <1>2, <1>3, WaitAlike
<1>8. QueueFits(ui', queue)
  BY <1>3, <1>5, <1>7, WaitAlike
<1> QED BY <1>1, <1>4, <1>5, <1>6, <1>8 DEF UiInv

LEMMA EndUpdateKeeps == UiInv /\ EndUpdate => UiInv'
<1> SUFFICES ASSUME UiInv, EndUpdate PROVE UiInv'
  OBVIOUS
<1>1. /\ ui' = Forgets(ui) /\ queue' = queue /\ queue_input' = queue_input /\ phase' = "messages"
  BY DEF EndUpdate, Forgets
<1>2. /\ Sound(ui) /\ QueueFits(ui, queue) /\ queue_input \in Seq(UiReport) /\ AllAccepted(KnownBy(ui), queue_input)
  BY DEF UiInv
<1>3. Sound(ui') /\ KnownBy(ui') = KnownBy(ui) /\ Alike(ui, ui')
  BY <1>1, <1>2, Forgotten
<1>4. QueueFits(ui', queue)
  BY <1>2, <1>3, WaitAlike
<1> QED BY <1>1, <1>2, <1>3, <1>4 DEF UiInv

\* One more message of a client, which fits what ui will be.
LEMMA PostKeeps ==
    ASSUME UiInv, NEW x \in UiMessage, Fits(Posted, x), queue' = Append(queue, x),
           ui' = ui, queue_input' = queue_input, phase' = phase
    PROVE  UiInv'
<1>1. QueueFits(ui, queue)
  BY DEF UiInv
<1>2. Fits(UiCourse(ui, queue)[Len(queue)], x)
  BY DEF Posted
<1>3. QueueFits(ui, Append(queue, x))
  BY <1>1, <1>2, AppendFits
<1>4. QueueFits(ui', queue')
  BY <1>3
<1> QED BY <1>4 DEF UiInv

LEMMA StatesInSequence == SetToSeq(UiStates) \in Seq(UiStates)
<1> DEFINE n == Cardinality(UiStates)
<1>1. n \in Nat
  BY UiStatesAssumption, FS_CardinalityType
<1>2. \E f \in [1 .. n -> UiStates] : IsInjective(f)
  <2>1. ExistsBijection(1 .. n, UiStates)
    BY UiStatesAssumption, FS_CardinalityType
  <2> HIDE DEF n
  <2>2. PICK f : f \in Bijection(1 .. n, UiStates)
    BY <2>1, Fun_ExistsBij
  <2>3. f \in Injection(1 .. n, UiStates)
    BY <2>2, Fun_BijectionProperties
  <2> QED BY <2>3 DEF Injection
<1>3. SetToSeq(UiStates) \in [1 .. n -> UiStates]
  <2>1. SetToSeq(UiStates) = CHOOSE f \in [1 .. n -> UiStates] : IsInjective(f)
    BY DEF SetToSeq
  <2> HIDE DEF n
  <2> QED BY <1>2, <2>1
<1> HIDE DEF n
<1> QED BY <1>1, <1>3

LEMMA UiClientKeeps == UiInv /\ UiClient => UiInv'
<1> SUFFICES ASSUME UiInv, UiClient PROVE UiInv'
  OBVIOUS
<1>1. PICK x : x \in UiMessage /\ post(Posted, x)
  <2>1. ASSUME NEW m \in UiMappings, NEW c \in Buttons \cup Axes, post_add_filter(Posted, m, c)
        PROVE  \E x \in UiMessage : post(Posted, x)
    <3>1. UiKind[c] \in FilterKinds
      BY UiKindAssumption DEF FilterKinds
    <3> DEFINE x == [type |-> "AddFilter", mapping |-> m, code |-> c, kind |-> UiKind[c]]
    <3>2. x \in UiMessage
      BY <3>1 DEF UiMessage
    <3>3. post(Posted, x)
      BY <2>1 DEF post_add_filter
    <3> QED BY <3>2, <3>3
  <2>2. ASSUME NEW c \in UiContexts, post_add_context(Posted, c)
        PROVE  \E x \in UiMessage : post(Posted, x)
    <3> DEFINE x == [type |-> "AddContext", context |-> c, states |-> SetToSeq(UiStates)]
    <3>1. x \in UiMessage
      BY StatesInSequence DEF UiMessage
    <3>2. post(Posted, x)
      BY <2>2 DEF post_add_context
    <3> QED BY <3>1, <3>2
  <2>3. ASSUME NEW c \in UiContexts, post_remove_context(Posted, c)
        PROVE  \E x \in UiMessage : post(Posted, x)
    BY <2>3 DEF post_remove_context, UiMessage
  <2>4. ASSUME NEW c \in UiContexts, NEW s \in UiStates, post_set_state(Posted, c, s)
        PROVE  \E x \in UiMessage : post(Posted, x)
    BY <2>4 DEF post_set_state, UiMessage
  <2>5. ASSUME NEW c \in UiContexts, NEW s \in UiStates, NEW m \in UiMappings, post_bind(Posted, c, s, m)
        PROVE  \E x \in UiMessage : post(Posted, x)
    BY <2>5 DEF post_bind, UiMessage
  <2>6. ASSUME NEW c \in UiContexts, NEW s \in UiStates, NEW m \in UiMappings, post_unbind(Posted, c, s, m)
        PROVE  \E x \in UiMessage : post(Posted, x)
    BY <2>6 DEF post_unbind, UiMessage
  <2>7. ASSUME NEW c \in UiContexts, NEW d \in UiIds, post_add_device(Posted, c, d)
        PROVE  \E x \in UiMessage : post(Posted, x)
    BY <2>7 DEF post_add_device, UiMessage
  <2>8. ASSUME NEW c \in UiContexts, NEW d \in UiIds, post_remove_device(Posted, c, d)
        PROVE  \E x \in UiMessage : post(Posted, x)
    BY <2>8 DEF post_remove_device, UiMessage
  <2> QED BY <2>1, <2>2, <2>3, <2>4, <2>5, <2>6, <2>7, <2>8 DEF UiClient
<1>2. /\ Fits(Posted, x) /\ queue' = Append(queue, x) /\ ui' = ui /\ queue_input' = queue_input /\ phase' = phase
  BY <1>1 DEF post
<1> QED BY <1>1, <1>2, PostKeeps

LEMMA UiReportsKeep == UiInv /\ UiReports => UiInv'
<1> SUFFICES ASSUME UiInv, UiReports PROVE UiInv'
  OBVIOUS
<1>1. PICK x : x \in UiReport /\ report(Known, x)
  <2>1. PICK d \in UiDevices :
          \/ notify_device_found(Known, d)
          \/ notify_device_lost(Known, d)
          \/ \E p \in UiPaths : notify_add_source(Known, d, p) \/ notify_remove_source(Known, d, p)
          \/ \E b \in Buttons, down \in BOOLEAN : notify_input(Known, ButtonStateInput(d, b, down))
          \/ \E a \in Axes : notify_input(Known, IF UiKind[a] = "AxisMove" THEN [CursorMoveInput(d) EXCEPT !.code = a]
                                                 ELSE AxisTiltInput(d, a, 1))
    BY DEF UiReports
  <2>2. d \in UiIds
    BY DEF UiIds
  <2>3. CASE notify_device_found(Known, d)
    BY <2>2, <2>3 DEF notify_device_found, UiReport
  <2>4. CASE notify_device_lost(Known, d)
    BY <2>2, <2>4 DEF notify_device_lost, UiReport
  <2>5. ASSUME NEW p \in UiPaths, notify_add_source(Known, d, p) \/ notify_remove_source(Known, d, p)
        PROVE  \E x \in UiReport : report(Known, x)
    BY <2>2, <2>5 DEF notify_add_source, notify_remove_source, UiReport
  <2>6. ASSUME NEW b \in Buttons, NEW down \in BOOLEAN, notify_input(Known, ButtonStateInput(d, b, down))
        PROVE  \E x \in UiReport : report(Known, x)
    <3>1. ButtonStateInput(d, b, down) \in UiReport
      BY <2>2 DEF ButtonStateInput, UiReport
    <3> QED BY <2>6, <3>1 DEF notify_input
  <2>7. ASSUME NEW a \in Axes, notify_input(Known, IF UiKind[a] = "AxisMove" THEN [CursorMoveInput(d) EXCEPT !.code = a]
                                                   ELSE AxisTiltInput(d, a, 1))
        PROVE  \E x \in UiReport : report(Known, x)
    <3>1. CASE UiKind[a] = "AxisMove"
      <4>1. [CursorMoveInput(d) EXCEPT !.code = a] =
                [type |-> "Input", id |-> d, state |-> "CURSOR_MOVE", code |-> a, level |-> 0]
        BY DEF CursorMoveInput
      <4>2. [CursorMoveInput(d) EXCEPT !.code = a] \in UiReport
        BY <2>2, <3>1, <4>1 DEF UiReport
      <4> QED BY <2>7, <3>1, <4>2 DEF notify_input
    <3>2. CASE UiKind[a] # "AxisMove"
      <4>1. UiKind[a] = "AxisTilt"
        BY <3>2, UiKindAssumption, InvalidAssumption
      <4>2. AxisTiltInput(d, a, 1) \in UiReport
        BY <2>2, <4>1 DEF AxisTiltInput, UiReport
      <4> QED BY <2>7, <3>2, <4>2 DEF notify_input
    <3> QED BY <3>1, <3>2
  <2> QED BY <2>1, <2>3, <2>4, <2>5, <2>6, <2>7
<1>2. Accepts(Known, x) /\ queue_input' = Append(queue_input, x) /\ ui' = ui /\ queue' = queue /\ phase' = phase
  BY <1>1 DEF report
<1>3. queue_input \in Seq(UiReport) /\ AllAccepted(KnownBy(ui), queue_input)
  BY DEF UiInv
<1>4. queue_input' \in Seq(UiReport) /\ AllAccepted(KnownBy(ui), queue_input')
  BY <1>1, <1>2, <1>3, AcceptedAppend DEF Known
<1>5. AllAccepted(KnownBy(ui'), queue_input')
  BY <1>2, <1>4
<1> QED BY <1>2, <1>4, <1>5 DEF UiInv

LEMMA UiConsoleKeeps == UiInv /\ UiConsole => UiInv'
<1> SUFFICES ASSUME UiInv, UiConsole PROVE UiInv'
  OBVIOUS
<1>1. ASSUME NEW t \in {"QueryDevices", "QueryContexts"}, queue' = Append(queue, [type |-> t]),
             ui' = ui, queue_input' = queue_input, phase' = phase
      PROVE  UiInv'
  <2> DEFINE x == [type |-> t]
  <2>1. x \in UiMessage
    BY DEF UiMessage
  <2>2. Fits(Posted, x)
    BY DEF Fits
  <2> QED BY <1>1, <2>1, <2>2, PostKeeps
<1>2. CASE post_query_devices
  BY <1>1, <1>2 DEF post_query_devices
<1>3. CASE post_query_contexts
  BY <1>1, <1>3 DEF post_query_contexts
<1>4. CASE callback_print_devices
  BY <1>4 DEF callback_print_devices, UiInv
<1> QED BY <1>2, <1>3, <1>4 DEF UiConsole

LEMMA UiNextSound == UiInv /\ [UiNext]_uiVars => UiInv'
<1>1. CASE UiUpdate
  BY <1>1, HandleMessageKeeps, SetContextsKeeps, HandleInputMessageKeeps, EndUpdateKeeps DEF UiUpdate
<1>2. CASE UNCHANGED uiVars
  BY <1>2 DEF uiVars, UiInv
<1> QED BY <1>1, <1>2, UiClientKeeps, UiReportsKeep, UiConsoleKeeps DEF UiNext

LEMMA UiInvMatches == UiInv => UiFiltersMatch
<1> SUFFICES ASSUME UiInv PROVE UiFiltersMatch
  OBVIOUS
<1>1. Sound(ui) /\ (phase = "input" => AllSet(ui))
  BY DEF UiInv
<1>2. ui.ok
  BY <1>1 DEF Sound
<1>3. ASSUME phase = "input"
      PROVE  ui.device_mappings = UNION {Rows(ui, ui.contexts[i]) : i \in DOMAIN ui.contexts}
  <2>1. {j \in DOMAIN ui.contexts : ui.contexts[j].has_device_mappings} = DOMAIN ui.contexts
    BY <1>1, <1>3 DEF AllSet
  <2>2. ui.device_mappings =
            UNION {Rows(ui, ui.contexts[i]) : i \in {j \in DOMAIN ui.contexts : ui.contexts[j].has_device_mappings}}
    BY <1>1 DEF Sound, RowsSound
  <2> QED BY <2>1, <2>2
<1> QED BY <1>2, <1>3 DEF UiFiltersMatch

(* Whatever the clients post, as long as they know what they posted, and   *)
(* whatever devices are found and lost in between: while inputs are        *)
(* handled every device has exactly the filters of the active states of    *)
(* its contexts, and no debug_assert of ui.cpp fails, with any number of   *)
(* devices, contexts, states, mappings and codes.                          *)
THEOREM UiCorrect == UiSpec => []UiFiltersMatch
<1>1. UiInit => UiInv
  BY UiInitSound
<1>2. UiInv /\ [UiNext]_uiVars => UiInv'
  BY UiNextSound
<1>3. UiInv => UiFiltersMatch
  BY UiInvMatches
<1> QED BY <1>1, <1>2, <1>3, PTL DEF UiSpec

=============================================================================

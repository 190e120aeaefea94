---------------------------- MODULE Serialization ----------------------------
(***************************************************************************)
(* core/serialization.hpp: the shapes that the serializers write and the   *)
(* structurers read, with their tables of members and of enumerators; the  *)
(* buffer that a serializer writes to; and the text that a structurer has  *)
(* left.  Then the two formats.  core/JsonSerializer.hpp and               *)
(* core/JsonStructurer.hpp: an object or an array is written inside its    *)
(* brackets.  core/IniSerializer.hpp and core/IniStructurer.hpp: a class   *)
(* is a list of lines "name = value", and its members that are classes     *)
(* follow, each under a header with its name.                              *)
(*                                                                         *)
(* A text is a sequence of words: a sign, a name, or a value; a number is  *)
(* its first digit and the digits that follow.  A word that is not one     *)
(* sign may be cut, and is then no word that is known.                    *)
(*                                                                         *)
(* A size of the code counts up to zero at the end of the buffer, so a     *)
(* size that is not negative says "at the end" as well as "failed": the    *)
(* two are kept together here as they are there.                           *)
(***************************************************************************)
EXTENDS Integers, Sequences, FiniteSets

\* Shapes.
Simple(kind) == [kind |-> kind]
Class(names, shapes) == [kind |-> "class", names |-> names, of |-> shapes]
RangeOf(shape) == [kind |-> "range", element |-> shape]
TupleShape(shapes) == [kind |-> "tuple", of |-> shapes]

IsClass(shape) == shape.kind = "class"

\* value_table and member_table: the index of a name, NotFound when there is none.
NotFound == 0
member_find(shape, name) ==
    IF \E i \in DOMAIN shape.names : shape.names[i] = name
    THEN CHOOSE i \in DOMAIN shape.names : shape.names[i] = name /\ \A j \in 1 .. i - 1 : shape.names[j] # name
    ELSE NotFound
member_empty(shape) == shape.names = <<>>

Enumerators == {"red", "green"}
value_find(name) == name \in Enumerators

\* What a value is before anything is read into it.
RECURSIVE DefaultOf(_)
DefaultOf(shape) ==
    CASE shape.kind \in {"class", "tuple"} -> [i \in DOMAIN shape.of |-> DefaultOf(shape.of[i])]
      [] shape.kind \in {"number", "range"} -> <<>>
      [] OTHER -> "unset"

-----------------------------------------------------------------------------
(* A buffer that is written: size is minus the room that is left; over is  *)
(* that something was written past its end.                                *)

\* The first digit of a number, and the others.
Digits == {"1", "2"}

Wide == {"address", "false", "2"}
Width(word) == IF word \in Wide THEN 5 ELSE 1
NumberWidth(digits) == IF Len(digits) = 1 THEN Width("1") ELSE Width("1") + Width("2")

Buffer(room) == [size |-> -room, text |-> <<>>, lostKey |-> FALSE, over |-> FALSE]
Full(w) == w.size >= 0

\* One unit is written when there is room.
write_unit(w, c) == IF Full(w) THEN w ELSE [w EXCEPT !.size = @ + 1, !.text = Append(@, c)]

\* Words that do not fit turn the sign of size: what is not negative failed, and
\* what failed and is written to again has room.  ful::copy gives nothing when
\* there is not enough room, or none at all.
write_words(w, words, width) ==
    IF ~Full(w) /\ width <= -w.size THEN [w EXCEPT !.size = @ + width, !.text = @ \o words]
    ELSE [w EXCEPT !.size = -@]

write_word(w, word) == write_words(w, <<word>>, Width(word))

\* fio::to_chars is not told where the buffer ends.
write_number(w, digits) ==
    [w EXCEPT !.size = @ + NumberWidth(digits), !.text = @ \o digits, !.over = @ \/ w.size + NumberWidth(digits) > 0]

-----------------------------------------------------------------------------
(* A text that is read: the words left, the error, and whether what is     *)
(* past its end was looked at.                                             *)

Reader(text) == [rest |-> text, error |-> "none", past |-> FALSE]
AtEnd(r) == r.rest = <<>>
\* size >= 0.
Stopped(r) == r.error # "none" \/ AtEnd(r)
Peek(r) == Head(r.rest)
Next1(r) == [r EXCEPT !.rest = Tail(@)]
Fail(r, e) == [r EXCEPT !.error = e]
FailPast(r, e) == [Fail(r, e) EXCEPT !.past = TRUE]
\* remainder <= 0
Accepted(r) == r.error = "none"

\* fio::from_chars: the digits that a text begins with, as many as there are.
Leading(words) ==
    SubSeq(words, 1, CHOOSE n \in 0 .. Len(words) :
                         /\ \A i \in 1 .. n : words[i] \in Digits
                         /\ n < Len(words) => words[n + 1] \notin Digits)
Drop(r, n) == [r EXCEPT !.rest = SubSeq(@, n + 1, Len(@))]

-----------------------------------------------------------------------------
(* Writing.  After a word that failed the callers stop, except that what   *)
(* follows a key is written whether or not the key was.                    *)

json_write_string(w, word) ==
    LET opened == write_unit(w, "quote")
        written == write_word(opened, word)
    IN IF Full(opened) THEN opened ELSE IF Full(written) THEN written ELSE write_unit(written, "quote")

RECURSIVE json_write_value(_, _, _, _), JsonMembers(_, _, _, _, _), JsonElements(_, _, _, _, _)

\* The members from i on.  The size is not looked at between the key and " : ".
JsonMembers(w, shape, x, depth, i) ==
    IF i > Len(shape.names) THEN w
    ELSE LET parted == IF i = 1 THEN w ELSE write_words(w, <<",", "space">>, 2 + depth)
             keyed == json_write_string(parted, shape.names[i])
             colon == [write_words(keyed, <<"space", ":", "space">>, 3) EXCEPT !.lostKey = @ \/ Full(keyed)]
             valued == json_write_value(colon, shape.of[i], x[i], depth)
         IN IF Full(parted) THEN parted ELSE IF Full(colon) THEN colon ELSE IF Full(valued) THEN valued
            ELSE JsonMembers(valued, shape, x, depth, i + 1)

\* The elements of a range or of a tuple from i on.
JsonElements(w, shape, x, depth, i) ==
    IF i > Len(x) THEN w
    ELSE LET parted == IF i = 1 THEN w ELSE write_words(w, <<",", "space">>, 2)
             of == IF shape.kind = "tuple" THEN shape.of[i] ELSE shape.element
             valued == json_write_value(parted, of, x[i], depth)
         IN IF Full(parted) THEN parted ELSE IF Full(valued) THEN valued
            ELSE JsonElements(valued, shape, x, depth, i + 1)

json_write_value(w, shape, x, depth) ==
    CASE shape.kind = "bool" -> write_word(w, x)
      [] shape.kind = "number" -> write_number(w, x)
      [] shape.kind \in {"enum", "string"} -> json_write_string(w, x)
      [] shape.kind = "class" /\ member_empty(shape) -> write_words(w, <<"{", "}">>, 2)
      [] shape.kind = "class" /\ ~member_empty(shape) ->
           LET opened == write_words(w, <<"{", "space">>, 3 + depth)
               members == JsonMembers(opened, shape, x, depth + 1, 1)
               closed == write_words(members, <<"space">>, depth + 1)
           IN IF Full(opened) THEN opened ELSE IF Full(members) THEN members
              ELSE IF Full(closed) THEN closed ELSE write_unit(closed, "}")
      [] shape.kind \in {"range", "tuple"} /\ x = <<>> -> write_words(w, <<"[", "]">>, 2)
      [] shape.kind \in {"range", "tuple"} /\ x # <<>> ->
           LET opened == write_unit(w, "[")
               elements == JsonElements(opened, shape, x, depth + 1, 1)
           IN IF Full(opened) THEN opened ELSE IF Full(elements) THEN elements ELSE write_unit(elements, "]")

\* A newline takes the last of the room.
serialize_json(shape, x, room) ==
    LET w == json_write_value(Buffer(room), shape, x, 0)
    IN [w EXCEPT !.text = IF Full(w) THEN <<>> ELSE Append(@, "space"), !.lostKey = @ /\ ~Full(w)]

-----------------------------------------------------------------------------
(* Reading.                                                                *)

RECURSIVE json_skip(_)
json_skip(r) ==
    IF r.error # "none" THEN r
    ELSE IF AtEnd(r) THEN Fail(r, "unexpected_eof")
    ELSE IF Peek(r) = "space" THEN json_skip(Next1(r)) ELSE r

\* The word between the quotes; the reader is left at the second quote.
json_read_string(r) ==
    LET quotes == {i \in 2 .. Len(r.rest) : r.rest[i] = "quote"}
        last == CHOOSE i \in quotes : \A j \in quotes : i <= j
    IN IF Peek(r) # "quote" THEN [r |-> Fail(r, "expected_string"), word |-> ""]
       ELSE IF quotes = {} THEN [r |-> Fail(r, "unexpected_eof"), word |-> ""]
       ELSE [r |-> [r EXCEPT !.rest = SubSeq(@, last, Len(@))], word |-> IF last = 3 THEN r.rest[2] ELSE ""]

At(r, x) == [r |-> r, x |-> x]

RECURSIVE json_read_value(_, _, _), JsonReadMembers(_, _, _), JsonReadRange(_, _, _), JsonReadTuple(_, _, _, _)

\* One member, at the sign before its key; and the others while there is a comma.
JsonReadMembers(r, shape, x) ==
    LET keyAt == json_skip(Next1(r))
        key == json_read_string(keyAt)
        i == member_find(shape, key.word)
        colon == json_skip(Next1(key.r))
        value == json_read_value(Next1(colon), shape.of[i], x[i])
        after == json_skip(value.r)
        y == [x EXCEPT ![i] = value.x]
    IN IF Stopped(keyAt) THEN At(keyAt, x)
       ELSE IF key.r.error # "none" THEN At(key.r, x)
       ELSE IF i = NotFound THEN At(Fail(keyAt, "unexpected_key"), x)
       ELSE IF Stopped(colon) THEN At(colon, x)
       ELSE IF Peek(colon) # ":" THEN At(Fail(colon, "unexpected_symbol"), x)
       ELSE IF Stopped(value.r) THEN At(value.r, y)
       ELSE IF Stopped(after) THEN At(after, y)
       ELSE IF Peek(after) = "," THEN JsonReadMembers(after, shape, y)
       ELSE IF Peek(after) # "}" THEN At(Fail(after, "unexpected_symbol"), y)
       ELSE At(Next1(after), y)

\* grow_range, and an element read into it.
JsonReadRange(r, shape, x) ==
    LET value == json_read_value(r, shape.element, DefaultOf(shape.element))
        y == Append(x, value.x)
        after == json_skip(value.r)
    IN IF Stopped(value.r) THEN At(value.r, y)
       ELSE IF Stopped(after) THEN At(after, y)
       ELSE IF Peek(after) = "," THEN JsonReadRange(Next1(after), shape, y)
       ELSE IF Peek(after) # "]" THEN At(Fail(after, "unexpected_symbol"), y)
       ELSE At(Next1(after), y)

\* read_value_tuple_impl: the last one is followed by the bracket, any other by a comma.
JsonReadTuple(r, shape, x, i) ==
    LET value == json_read_value(Next1(r), shape.of[i], x[i])
        y == [x EXCEPT ![i] = value.x]
        after == json_skip(value.r)
        last == i = Len(shape.of)
    IN IF Stopped(value.r) THEN At(value.r, y)
       ELSE IF Stopped(after) THEN At(after, y)
       ELSE IF last THEN (IF Peek(after) = "]" THEN At(Next1(after), y) ELSE At(Fail(after, "expected_less"), y))
       ELSE IF Peek(after) # "," THEN At(Fail(after, "expected_more"), y)
       ELSE JsonReadTuple(after, shape, y, i + 1)

json_read_value(r0, shape, x) ==
    LET r == json_skip(r0)
        str == json_read_string(r)
        digits == Leading(r.rest)
    IN IF Stopped(r) THEN At(r, x)
       ELSE CASE shape.kind = "bool" -> IF Peek(r) \in {"true", "false"} THEN At(Next1(r), Peek(r)) ELSE At(Fail(r, "unexpected_value"), x)
              [] shape.kind = "number" -> IF digits # <<>> THEN At(Drop(r, Len(digits)), digits) ELSE At(Fail(r, "unexpected_value"), x)
              [] shape.kind = "string" -> IF str.r.error # "none" THEN At(str.r, x) ELSE At(Next1(str.r), str.word)
              [] shape.kind = "enum" ->
                   IF str.r.error # "none" THEN At(str.r, x)
                   ELSE IF value_find(str.word) THEN At(Next1(str.r), str.word) ELSE At(Fail(r, "unexpected_value"), x)
              [] shape.kind = "class" -> IF Peek(r) = "{" THEN JsonReadMembers(r, shape, x) ELSE At(Fail(r, "expected_object"), x)
              [] shape.kind = "range" ->
                   LET first == json_skip(Next1(r))
                   IN IF Peek(r) # "[" THEN At(Fail(r, "expected_array"), x)
                      ELSE IF Stopped(first) THEN At(first, x)
                      ELSE IF Peek(first) = "]" THEN At(Next1(first), x)
                      ELSE JsonReadRange(first, shape, x)
              [] shape.kind = "tuple" -> IF Peek(r) = "[" THEN JsonReadTuple(r, shape, x, 1) ELSE At(Fail(r, "expected_array"), x)

\* What is after the value is not looked at.
structure_json(text, shape, x) == json_read_value(Reader(text), shape, x)

-----------------------------------------------------------------------------
(* Ini.                                                                    *)

Has(shape, isClass) == \E i \in DOMAIN shape.of : IsClass(shape.of[i]) = isClass

-----------------------------------------------------------------------------
(* Writing.                                                                *)

\* write_value, with the end of its line.
ini_write_value(w, shape, word) ==
    LET written == IF shape.kind = "number" THEN write_number(w, word) ELSE write_word(w, word)
    IN IF Full(written) THEN written ELSE write_unit(written, "newline")

\* A bool is written with the signs around it.
write_key_value(w, name, shape, word) ==
    LET named == write_word(w, name)
        equals == write_words(named, <<"space", "=", "space">>, 3)
    IN IF Full(named) THEN named
       ELSE IF shape.kind = "bool" THEN write_words(named, <<"space", "=", "space", word, "newline">>, 4 + Width(word))
       ELSE IF Full(equals) THEN equals ELSE ini_write_value(equals, shape, word)

RECURSIVE write_all(_, _, _), KeyValues(_, _, _, _), Headers(_, _, _, _)

\* try_write_key_value for each member, in turn, and try_write_header.
KeyValues(w, shape, x, i) ==
    IF i > Len(shape.names) THEN w
    ELSE LET done == IF IsClass(shape.of[i]) THEN w ELSE write_key_value(w, shape.names[i], shape.of[i], x[i])
         IN IF Full(done) THEN done ELSE KeyValues(done, shape, x, i + 1)

ini_write_header(w, name, shape, x) ==
    LET opened == write_unit(w, "[")
        named == write_word(opened, name)
        closed == write_words(named, <<"]", "newline">>, 2)
    IN IF Full(opened) THEN opened ELSE IF Full(named) THEN named ELSE IF Full(closed) THEN closed
       ELSE write_all(closed, shape, x)

Headers(w, shape, x, i) ==
    IF i > Len(shape.names) THEN w
    ELSE LET done == IF IsClass(shape.of[i]) THEN ini_write_header(w, shape.names[i], shape.of[i], x[i]) ELSE w
         IN IF Full(done) THEN done ELSE Headers(done, shape, x, i + 1)

write_all(w, shape, x) ==
    LET lines == IF Has(shape, FALSE) THEN KeyValues(w, shape, x, 1) ELSE w
        parted == IF Has(shape, FALSE) THEN write_unit(lines, "newline") ELSE lines
    IN IF Full(lines) THEN lines
       ELSE IF Full(parted) THEN [parted EXCEPT !.size = 0]
       ELSE IF Has(shape, TRUE) THEN Headers(parted, shape, x, 1) ELSE parted

serialize_ini(shape, x, room) ==
    LET w == write_all(Buffer(room), shape, x)
    IN [w EXCEPT !.text = IF Full(w) THEN <<>> ELSE @]

-----------------------------------------------------------------------------
(* Reading.                                                                *)

Found(r, x) == [r |-> r, x |-> x]

RECURSIVE ini_skip(_), skip_to(_, _, _)

\* The end is no error here.
ini_skip(r) ==
    IF AtEnd(r) THEN r
    ELSE IF Peek(r) \in {"space", "newline"} THEN ini_skip(Next1(r)) ELSE r

\* skip_to_char and skip_to_line: on to one of the words, and no further than the line.
skip_to(r, words, line) ==
    IF AtEnd(r) THEN Fail(r, "unexpected_eof")
    ELSE IF Peek(r) \in words THEN r
    ELSE IF ~line /\ Peek(r) = "newline" THEN Fail(r, "unexpected_eol")
    ELSE skip_to(Next1(r), words, line)

\* A header, without what follows it on its line.
ini_read_header(r) ==
    LET closed == skip_to(r, {"]"}, FALSE)
        after == Next1(closed)
    IN IF Peek(r) # "[" THEN [r |-> Fail(r, "unexpected_symbol"), name |-> ""]
       ELSE IF Stopped(closed) THEN [r |-> closed, name |-> ""]
       ELSE IF AtEnd(after) THEN [r |-> Fail(after, "unexpected_eof"), name |-> ""]
       ELSE IF Peek(after) # "newline" THEN [r |-> Fail(after, "unexpected_symbol"), name |-> ""]
       ELSE [r |-> after, name |-> r.rest[2]]

\* What a line has after the equals sign and the space; a value that is refused
\* is left as it was.
ini_value(words, shape) ==
    CASE shape.kind = "number" -> Leading(words)
      [] shape.kind = "bool" /\ words # <<>> -> IF Head(words) \in {"true", "false"} THEN <<Head(words)>> ELSE <<>>
      [] shape.kind = "enum" /\ words # <<>> -> IF value_find(Head(words)) THEN <<Head(words)>> ELSE <<>>
      [] shape.kind = "string" /\ words # <<>> -> <<Head(words)>>
      [] OTHER -> <<>>
ini_given(shape, found) == IF shape.kind = "number" THEN found ELSE Head(found)

\* read_value that does not look for the end of the line.
ini_read_value_unended(r, shape, x) ==
    LET from == Drop(r, 2)
        found == ini_value(from.rest, shape)
    IN IF IsClass(shape) THEN Found(Fail(r, "type_mismatch"), x)
       ELSE IF found = <<>> THEN Found(Fail(r, "unexpected_value"), x)
       ELSE Found(Drop(from, Len(found)), ini_given(shape, found))

\* From the equals sign: a value is only one when its line ends.  An enumerator
\* or a string whose line does not end is taken with what is past the text.
ini_read_value(r, shape, x) ==
    LET from == Drop(r, 2)
        found == ini_value(from.rest, shape)
        after == Drop(from, Len(found))
    IN IF IsClass(shape) THEN Found(Fail(r, "type_mismatch"), x)
       ELSE IF shape.kind \in {"enum", "string"} /\ "newline" \notin {from.rest[i] : i \in DOMAIN from.rest} THEN Found(FailPast(r, "unexpected_eof"), x)
       ELSE IF found = <<>> \/ AtEnd(after) \/ Peek(after) # "newline" THEN Found(Fail(r, "unexpected_value"), x)
       ELSE Found(after, ini_given(shape, found))

RECURSIVE read_key_values(_, _, _), read_headers(_, _, _)

\* After an equals sign that is last the code looks past the text for a space;
\* with one there it goes on, and finds a key, a value or an end it refuses.

read_key_values(r0, shape, x) ==
    LET r == ini_skip(r0)
        equals == skip_to(r, {"="}, FALSE)
        key == IF Len(r.rest) > 2 /\ r.rest[3] = "=" THEN Peek(r) ELSE ""
        i == member_find(shape, key)
        value == ini_read_value(equals, shape.of[i], x[i])
        y == [x EXCEPT ![i] = value.x]
    IN IF ~IsClass(shape) THEN Found(Fail(r0, "type_mismatch"), x)
       ELSE IF Stopped(r) \/ Peek(r) = "[" THEN Found(r, x)
       ELSE IF Stopped(equals) THEN Found(equals, x)
       ELSE IF Len(equals.rest) < 2 THEN Found(FailPast(equals, "missing_spaces"), x)
       ELSE IF i = NotFound THEN Found(Fail(r, "unexpected_key"), x)
       ELSE IF Stopped(value.r) THEN Found(value.r, y)
       ELSE read_key_values(value.r, shape, y)

\* The headers are those of the members of the outermost class.
read_headers(r, shape, x) ==
    LET header == ini_read_header(r)
        i == member_find(shape, header.name)
        inner == read_key_values(header.r, shape.of[i], x[i])
        y == [x EXCEPT ![i] = inner.x]
    IN IF Stopped(header.r) THEN Found(header.r, x)
       ELSE IF i = NotFound THEN Found(Fail(r, "unexpected_header1"), x)
       ELSE IF Stopped(inner.r) THEN Found(inner.r, y)
       ELSE read_headers(inner.r, shape, y)

structure_ini(text, shape, x) ==
    LET r == Reader(text)
        outer == read_key_values(r, shape, x)
    IN IF AtEnd(r) THEN Found(r, x)
       ELSE IF Peek(r) = "=" THEN Found(Fail(r, "missing_spaces"), x)
       ELSE IF Stopped(outer.r) THEN outer
       ELSE read_headers(outer.r, shape, outer.x)

=============================================================================

-------------------------------- MODULE Text --------------------------------
(***************************************************************************)
(* A value is serialized into a buffer, which may be too small, and what   *)
(* was written is structured again: all of it, or as much of it as the     *)
(* disk kept, which may end inside a word; by this program, or by one whose class has other members.    *)
(***************************************************************************)
EXTENDS Serialization

CONSTANTS
    JsonShapes, IniShapes,
    TextRooms       \* the sizes of buffer that are tried

VARIABLES
    job,        \* the format, the shape, the value, the shape it is read as, and the room
    written,    \* the buffer after serialize
    parsed,     \* the reader and the value after structure
    kept,       \* how many words of the text were left to be read
    phase

textVars == <<job, written, parsed, kept, phase>>

RECURSIVE ValuesOf(_), ValuesOfAll(_)
ValuesOfAll(shapes) ==
    IF shapes = <<>> THEN {<<>>}
    ELSE {<<v>> \o rest : v \in ValuesOf(Head(shapes)), rest \in ValuesOfAll(Tail(shapes))}

ValuesOf(shape) ==
    CASE shape.kind = "bool" -> {"true", "false"}
      [] shape.kind = "number" -> {<<"1">>, <<"1", "2">>}
      [] shape.kind = "enum" -> Enumerators
      [] shape.kind = "string" -> {"plain"}
      [] shape.kind = "range" -> UNION {[1 .. n -> ValuesOf(shape.element)] : n \in 0 .. 2}
      [] OTHER -> ValuesOfAll(shape.of)

NothingRead == [r |-> Reader(<<>>), x |-> <<>>]

TextInit ==
    /\ \E format \in {"json", "ini"} :
         LET shapes == IF format = "json" THEN JsonShapes ELSE IniShapes
         IN \E shape \in shapes, room \in TextRooms : \E value \in ValuesOf(shape), as \in {shape} \cup {s \in shapes : IsClass(s) /\ IsClass(shape)} :
              job = [format |-> format, shape |-> shape, value |-> value, as |-> as, room |-> room]
    /\ written = Buffer(0) /\ parsed = NothingRead /\ kept = 0 /\ phase = "write"

Serialize ==
    /\ phase = "write" /\ phase' = "read"
    /\ written' = IF job.format = "json" THEN serialize_json(job.shape, job.value, job.room)
                  ELSE serialize_ini(job.shape, job.value, job.room)
    /\ UNCHANGED <<job, parsed, kept>>

\* What a cut may fall inside of; inside the later digits of a number it is as
\* one before them.
MaySplit(word) == word \notin Digits \cup {"quote", "{", "}", "[", "]", ",", ":", "=", "space", "newline"}

\* A text whose serialization failed is not kept at all.
Structure ==
    /\ phase = "read" /\ phase' = "done" /\ written.text # <<>>
    /\ kept' \in IF job.as = job.shape THEN 0 .. Len(written.text) ELSE {Len(written.text)}
    /\ LET splits == kept' < Len(written.text) /\ MaySplit(written.text[kept' + 1])
       IN \E torn \in IF splits THEN {<<>>, <<"part">>} ELSE {<<>>} :
            LET text == SubSeq(written.text, 1, kept') \o torn
            IN parsed' = IF job.format = "json" THEN structure_json(text, job.as, DefaultOf(job.as))
                         ELSE structure_ini(text, job.as, DefaultOf(job.as))
    /\ UNCHANGED <<job, written>>

TextNext == Serialize \/ Structure

-----------------------------------------------------------------------------
(* Properties.                                                             *)

\* Shapes that are not read back: in json a class without members, and in ini
\* a class inside a class inside the outermost one.
RECURSIVE NotReadBack(_, _, _)
NotReadBack(format, shape, depth) ==
    /\ shape.kind \in {"class", "tuple"}
    /\ \/ format = "json" /\ shape.of = <<>>
       \/ format = "ini" /\ depth = 2
       \/ \E i \in DOMAIN shape.of : NotReadBack(format, shape.of[i], depth + 1)

Whole == kept = Len(written.text)
NamesOf(shape) == {shape.names[i] : i \in DOMAIN shape.names}

\* What may be last in a text that was cut and is taken for a whole one: a
\* value, in json; a line, in ini.
EndsValue(text) == text[Len(text)] \in Digits \cup {"true", "false", "quote", "]", "}"}
EndsLine(text) == text = <<>> \/ text[Len(text)] = "newline"

\* A value of which the end was not read: members that are not set, ranges that
\* are shorter, and numbers without their last digits.
RECURSIVE BeginningOf(_, _, _)
BeginningOf(shape, x, value) ==
    CASE shape.kind \in {"class", "tuple"} -> \A i \in DOMAIN shape.of : BeginningOf(shape.of[i], x[i], value[i])
      [] shape.kind = "range" -> Len(x) <= Len(value) /\ \A i \in DOMAIN x : BeginningOf(shape.element, x[i], value[i])
      [] shape.kind = "number" -> Len(x) <= Len(value) /\ \A i \in DOMAIN x : x[i] = value[i]
      [] OTHER -> x \in {value, "unset"}

\* A value that was serialized in full is structured as the value it was; one
\* that was cut is refused, unless the cut is right after a value or a line, or
\* between the digits of a number: then nothing is read but a beginning of the
\* value.  A class is not read from a text that has a member it lacks.  What is
\* past a text is only looked at when it is refused, and past a buffer only
\* written by a serialization that says that it failed.  Left out of what is
\* read in full are the shapes of NotReadBack, and the texts whose buffer ended
\* in a key, which JsonSerializer.hpp goes on after and says it has written: of
\* these too nothing is read but a beginning.
TextFaithful ==
    /\ (phase # "write" /\ written.over) => written.text = <<>>
    /\ phase = "done" =>
        LET text == SubSeq(written.text, 1, kept)
            skipped == NotReadBack(job.format, job.shape, 0)
        IN /\ (job.as = job.shape /\ Whole /\ ~skipped /\ ~written.lostKey) => Accepted(parsed.r) /\ parsed.x = job.value
           /\ (job.as = job.shape /\ Accepted(parsed.r)) => BeginningOf(job.shape, parsed.x, job.value)
           /\ (~Whole /\ Accepted(parsed.r)) =>
                IF job.format = "json" THEN kept > 0 /\ EndsValue(text) ELSE EndsLine(text)
           /\ (job.as # job.shape /\ Accepted(parsed.r)) => NamesOf(job.shape) \subseteq NamesOf(job.as)
           /\ parsed.r.past => ~Accepted(parsed.r)

=============================================================================

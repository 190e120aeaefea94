---------------------------- MODULE MCFileSystem ----------------------------
(***************************************************************************)
(* Instances of FileSystem: a working directory w with directories s and x *)
(* in it, and a temporary directory t.                                     *)
(***************************************************************************)
EXTENDS FileSystem

TreeParent == [d \in Dirs |-> IF d \in {"s", "x"} THEN "w" ELSE None]
TreePath == [a \in Aliases |-> CASE a = "tmp" -> "t" [] a = "working" -> "w" [] OTHER -> "s"]
TreeUnder == [a \in Aliases |-> IF a = "tmp" THEN None ELSE "working"]

Dir(o, a) == [op |-> o, alias |-> a]
Read(t, a, f, w, m) ==
    [op |-> "read", token |-> t, alias |-> a, file |-> f, watch |-> w, report_missing |-> m]
Scan(t, a, w, r) == [op |-> "scan", token |-> t, alias |-> a, watch |-> w, recurse |-> r]
Write(t, a, f, m, c) ==
    [op |-> "write", token |-> t, alias |-> a, file |-> f, mode |-> m, create |-> c]
RemoveWatch(t) == [op |-> "remove_watch", token |-> t]
Destruct == <<[op |-> "destruct"]>>

\* There is only the working directory at first.
BareCalls == {
    \* A tree is watched while directories come and go in it, for a time ...
    <<Scan("scan", "working", TRUE, TRUE), RemoveWatch("scan")>> \o Destruct,
    \* ... and while a file is written into a new directory of it.
    <<Scan("scan", "working", TRUE, TRUE), Write("write", "working", <<"s", "f">>, "new", TRUE)>>,
    \* A file is watched and written.
    <<Read("read", "working", <<"w", "f">>, TRUE, TRUE),
      Write("write", "working", <<"w", "f">>, "overwrite", FALSE), RemoveWatch("read")>> \o Destruct,
    \* Two watches of one directory.
    <<Read("read", "working", <<"w", "f">>, TRUE, FALSE), Scan("scan", "working", TRUE, FALSE),
      RemoveWatch("read"), RemoveWatch("scan")>>,
    \* A directory with two names.
    <<Dir("register", "sub"), Dir("register", "other"), Scan("scan", "sub", TRUE, FALSE),
      Dir("unregister", "sub"), Read("read", "other", <<"s", "f">>, FALSE, TRUE),
      RemoveWatch("scan"), Dir("unregister", "other")>>,
    \* A temporary directory.
    <<Dir("temporary", "tmp"), Scan("scan", "tmp", TRUE, FALSE),
      Write("write", "tmp", <<"t", "f">>, "append", FALSE), Dir("unregister", "tmp")>> \o Destruct,
    \* Requests that are refused, for a name that is taken or not registered.
    <<Dir("temporary", "tmp"), Dir("temporary", "tmp"), Dir("register", "working"),
      Read("read", "sub", <<"s", "f">>, TRUE, TRUE), Scan("scan", "sub", TRUE, TRUE),
      Write("write", "sub", <<"s", "f">>, "new", TRUE), RemoveWatch("scan"),
      Dir("unregister", "sub")>>}

Scenario(calls, dirs, touched, n) ==
    [calls |-> calls, dirs |-> dirs, touched |-> touched, changes |-> n]

MixedScenarios == {Scenario(calls, {"w"}, {"w", "s", "t"}, 2) : calls \in BareCalls} \cup {
    \* A directory with two users is deleted, made again and written to.
    Scenario(<<Dir("register", "sub"), Scan("scan", "sub", TRUE, FALSE),
               Read("read", "sub", <<"s", "f">>, TRUE, TRUE)>>, {"w", "s"}, {"s"}, 4),
    \* A directory of a tree is made, deleted, made again and written to.
    Scenario(<<Scan("scan", "working", TRUE, TRUE)>>, {"w"}, {"s"}, 4),
    \* One directory of a tree is deleted while the tree is scanned.
    Scenario(<<Scan("scan", "working", TRUE, TRUE)>>, {"w", "s", "x"}, {"w", "s", "x"}, 3),
    \* A directory is deleted while changes of another one are gathered ...
    Scenario(<<Dir("register", "sub"), Scan("scan", "sub", TRUE, FALSE),
               Scan("read", "working", TRUE, FALSE)>>, {"w", "s"}, {"w", "s"}, 3),
    \* ... or made, so that the Directories are moved.
    Scenario(<<Scan("scan", "working", TRUE, TRUE), Scan("read", "working", TRUE, FALSE)>>,
             {"w", "s"}, {"w", "x"}, 3)}

=============================================================================

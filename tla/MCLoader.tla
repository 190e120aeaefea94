------------------------------ MODULE MCLoader ------------------------------
(***************************************************************************)
(* Instances of Loader: small libraries and what their files depend on.    *)
(***************************************************************************)
EXTENDS Loader

\* A tree in which b is shared, and whose root is also known without extension.
TreeUnderlying == [n \in Names |-> IF n = "r" THEN "root" ELSE n]
TreeContent ==
    [f \in Files |->
        CASE f = "root" -> {<<"a", "b">>} [] f = "a" -> {<<"b">>} [] f = "b" -> {<<>>}]

Manner(names, bound, patient, tidy) ==
    [roots |-> names, changes |-> bound, patient |-> patient, tidy |-> tidy]

\* Everybody waits for what is loaded, and no file changes.  When b is loaded on
\* its own before the root, it is loaded already when the root depends on it while
\* a is still loading: b is inserted into the root's full vector of attachments.
CalmManners == {Manner({"root", "r", "a", "b"}, 0, TRUE, TRUE)}

\* The same tree without a name for its root; one of its files changes,
\* with b loaded on its own or not, or the clients unload before files are ready and load without the filetype.
LeafUnderlying == [n \in Names |-> IF n = "r" THEN "a" ELSE n]
RoughManners ==
    {Manner({"root", "a", "b"}, 1, TRUE, TRUE), Manner({"a", "r"}, 0, FALSE, FALSE)}

\* A single file.
SoleUnderlying == [n \in Names |-> n]
SoleContent == [f \in Files |-> {<<>>}]
SoleManners == {Manner({"a"}, 0, FALSE, TRUE)}

\* A file whose dependency is another one when it is read again.
SwitchUnderlying == [n \in Names |-> n]
SwitchContent == [f \in Files |-> IF f = "a" THEN {<<"b">>, <<"c">>} ELSE {<<>>}]
SwitchManners == {Manner({"a"}, 1, TRUE, TRUE)}

=============================================================================

------------------------------- MODULE Loader -------------------------------
(***************************************************************************)
(* engine::file::loader (engine/file/loader.cpp): the graph of files that  *)
(* are loading and loaded, who owns them and what they depend on.          *)
(*                                                                         *)
(* The loader is a set of handlers that run as works of the scheduler.     *)
(* Messages (load_independent, load_dependency, LoadInit, LoadDone, ...)   *)
(* are handled on the loader's strand and own `loads` and `tags`; the      *)
(* callbacks of a file run on the file's strand and own its FileCallData.  *)
(* The scheduler runs all works of all strands one at a time in the order  *)
(* they were posted, so `works` is one queue.  Clients post to it at any   *)
(* time, also while a work runs; so does the file system when a read is    *)
(* done or a watched file changes.  The loops of remove_attachments and    *)
(* finish_loading and the calls a loadcall makes are steps of their own,   *)
(* kept on `stack`; what one iteration posts is one step.                  *)
(*                                                                         *)
(* The build modelled is the debug build: files are watched and            *)
(* debug_assert evaluates its argument.  A debug_assert or debug_fail that *)
(* fails is recorded in `failed` and the code goes on the way it does; so  *)
(* is an insert into a full attachments vector, which leaves the load torn.*)
(* Allocations do not fail, there is one filetype, and the libraries do    *)
(* not change.                                                             *)
(***************************************************************************)
EXTENDS Integers, Sequences, SequencesExt, FiniteSets, Storages

CONSTANTS
    Files,          \* assets of files in the registered libraries
    Radicals,       \* assets of file names without extension
    Underlying,     \* find_underlying_file: the file a name stands for, or None
    Content,        \* for each file, the lists of names its loadcall may depend on
    Tags,           \* tokens of independent loads
    Global,         \* the owner of independent loads
    None,
    Manners         \* the ways clients behave, one of which holds in a behaviour:
                    \*   roots    names that clients load
                    \*   changes  bound: changes of watched files
                    \*   patient  clients unload only what is ready
                    \*   tidy     clients load and unload with the filetype registered

Names == Files \cup Radicals

ASSUME NamesAssumption ==
    /\ Files \cap Radicals = {}
    /\ None \notin Names \cup Tags
    /\ Global \notin Names \cup Tags \cup {None}
    /\ Underlying \in [Names -> Files \cup {None}]
    /\ \A f \in Files : Underlying[f] = f
ASSUME ContentAssumption ==
    /\ \A m \in Manners : m.roots \subseteq Names
    /\ \A f \in Files : \A s \in Content[f] : s \in Seq(Names)
ASSUME LoaderBoundsAssumption ==
    \A m \in Manners : m.changes \in Nat /\ m.patient \in BOOLEAN /\ m.tidy \in BOOLEAN

VARIABLES
    works,      \* the scheduler's queue: messages and works on files
    stack,      \* what the running work has left to do, innermost last
    loads,      \* RadicalLoad, LoadingLoad or LoadedLoad of each name
    tags,       \* FileTag of each tag
    data,       \* the FileCallData created so far
    registered, \* whether the filetype is registered
    fs,         \* requests on their way to the file system
    watch,      \* the FileCallData a change of each file is reported to
    changes,    \* changes of watched files so far
    client,     \* what the clients have asked for, and their manner
    failed      \* debug_asserts and debug_fails that have failed, and "insert_full"

vars == <<works, stack, loads, tags, data, registered, fs, watch, changes, client, failed>>

-----------------------------------------------------------------------------
(* Loads.                                                                  *)

Radical(f) == [kind |-> "radical", file |-> f]

\* A LoadingLoad as load_new makes it.  `reading` is the most significant bit
\* of remaining_count, `remaining` the rest of it; `cap` is the capacity of
\* the attachments vector, `torn` says that an insert has lost one of them.
NewLoading(r, c, o) ==
    [kind |-> "loading", radical |-> r, call |-> c, owners |-> <<o>>,
     attachments |-> <<>>, cap |-> 0, torn |-> FALSE, previous |-> -1, reading |-> TRUE, remaining |-> 0]

Found(name) == name \in Names /\ loads[name] # None
IsLoading(name) == Found(name) /\ loads[name].kind = "loading"
IsLoaded(name) == Found(name) /\ loads[name].kind = "loaded"
IsLoad(name) == IsLoading(name) \/ IsLoaded(name)

\* find_underlying_load.
UnderlyingLoad(name) ==
    IF Found(name) /\ loads[name].kind = "radical" THEN loads[name].file ELSE name

\* The attachments of a LoadingLoad that it waits for: the last `remaining`.
Settled(x) == Len(x.attachments) - x.remaining
Pending(x) == SubSeq(x.attachments, Settled(x) + 1, Len(x.attachments))

\* Mutant: a loaded dependency is waited for like an unloaded one.
add_dependency_waits(x, a, loaded) ==
    {[x EXCEPT !.attachments = Append(@, a),
               !.cap = Reserved(@, Len(x.attachments) + 1), !.remaining = @ + 1]}

\* A loaded dependency goes before the pending ones of a full vector.
InsertsIntoFull(x, loaded) == loaded /\ x.remaining > 0 /\ Len(x.attachments) = x.cap

\* add_dependency_loaded and add_dependency_unloaded on a LoadingLoad.
add_dependency(x, a, loaded) ==
    LET cap == Reserved(x.cap, Len(x.attachments) + 1) IN
    IF loaded
    THEN {[x EXCEPT !.attachments = s, !.cap = cap, !.torn = @ \/ InsertsIntoFull(x, loaded)] :
            s \in Inserted(x.attachments, x.cap, Settled(x), a, None)}
    ELSE {[x EXCEPT !.attachments = Append(@, a), !.cap = cap, !.remaining = @ + 1]}

\* Mutant: remaining_count is not decremented.
SettleUncounted(x, a) == x

\* A pending attachment of a LoadingLoad has become loaded: it is swapped
\* with the first pending one, which is then no longer pending.
Settle(x, a) ==
    LET s == x.attachments
        i == Settled(x) + 1
        j == Settled(x) + SelectInSeq(Pending(x), LAMBDA y : y = a)
    IN  [x EXCEPT !.attachments = [s EXCEPT ![i] = s[j], ![j] = s[i]], !.remaining = @ - 1]

\* Mutant: the attachments from before a reload are kept.
RenewedWithOld(x) == x

\* The attachments from before a reload, and the load without them.
Previous(x) == IF x.previous > 0 THEN SubSeq(x.attachments, 1, x.previous) ELSE <<>>
Renewed(x) ==
    [x EXCEPT !.attachments = WithoutFirst(@, Len(Previous(x)))]

\* The LoadedLoad and the LoadingLoad that make_loaded and make_loading put
\* in place of the other.
AsLoaded(x) == [x EXCEPT !.kind = "loaded", !.previous = -1, !.reading = FALSE, !.remaining = 0]
AsLoading(x) ==
    [x EXCEPT !.kind = "loading", !.previous = Len(x.attachments),
              !.reading = TRUE, !.remaining = 0]

\* The relations of a file with each of its attachments or owners.
Owning(o, attachments) == [i \in 1 .. Len(attachments) |-> <<o, attachments[i]>>]
OwnedBy(owners, f) == [i \in 1 .. Len(owners) |-> <<owners[i], f>>]

-----------------------------------------------------------------------------
(* FileCallData.  A callback is [tag, up]: `up` counts the readycalls less *)
(* the unreadycalls made for it.  `stash` says what became of the stash,   *)
(* `stranded` counts the callbacks dropped while up.                       *)

NewData(f, tag) ==
    [file |-> f, calls |-> <<[tag |-> tag, up |-> 0]>>, ready |-> FALSE,
     stash |-> "empty", stranded |-> 0]

Called(calls, n) == [i \in 1 .. Len(calls) |-> [calls[i] EXCEPT !.up = @ + n]]

\* Where the first callback of tag is, or 0.
CallOf(calls, tag) == SelectInSeq(calls, LAMBDA call : call.tag = tag)

\* Somebody holds a FileCallPtr to c besides the work that runs, so that
\* locking a weak_ptr to it succeeds.  A read holds a weak_ptr only.
Alive(c) ==
    \/ \E f \in Files : IsLoad(f) /\ loads[f].call = c
    \/ \E i \in 2 .. Len(works) :
            works[i].op \in {"ready", "add", "remove", "dispose"} /\ works[i].call = c

-----------------------------------------------------------------------------

Init ==
    /\ works = <<>>
    /\ stack = <<>>
    /\ loads = [n \in Names |-> None]
    /\ tags = [t \in Tags |-> None]
    /\ data = <<>>
    /\ registered = FALSE
    /\ fs = <<>>
    /\ watch = [f \in Files |-> None]
    /\ changes = 0
    /\ client \in [types : {"none"}, tag : {[t \in Tags |-> "new"]}, manner : Manners]
    /\ failed = {}

-----------------------------------------------------------------------------
(* Clients.  A tag is used for one load and unloaded once.                 *)

Ask(asked, message) ==
    /\ client' = asked
    /\ works' = Append(works, message)
    /\ UNCHANGED <<stack, loads, tags, data, registered, fs, watch, changes, failed>>

register_filetype ==
    /\ client.types = "none"
    /\ Ask([client EXCEPT !.types = "registered"], [op |-> "register"])

load_independent(t, n) ==
    /\ client.tag[t] = "new"
    /\ client.manner.tidy => client.types = "registered"
    /\ Ask([client EXCEPT !.tag[t] = "loaded"], [op |-> "independent", tag |-> t, name |-> n])

\* The client of t has got more readycalls than unreadycalls.
HeardReady(t) ==
    \E c \in 1 .. Len(data) : \E i \in 1 .. Len(data[c].calls) :
        data[c].calls[i].tag = t /\ data[c].calls[i].up > 0

unload_independent(t) ==
    /\ client.tag[t] = "loaded"
    /\ client.manner.patient => HeardReady(t)
    /\ Ask([client EXCEPT !.tag[t] = "unloaded"], [op |-> "unload", tag |-> t])

unregister_filetype ==
    /\ client.types = "registered"
    /\ client.manner.tidy => \A t \in Tags : client.tag[t] = "unloaded"
    /\ Ask([client EXCEPT !.types = "unregistered"], [op |-> "unregister"])

Client ==
    \/ register_filetype
    \/ \E t \in Tags, n \in client.manner.roots : load_independent(t, n)
    \/ \E t \in Tags : unload_independent(t)
    \/ unregister_filetype

-----------------------------------------------------------------------------
(* The file system (engine::file::system, external to this module): it     *)
(* takes requests in order; a read is answered on the file's strand and    *)
(* the file watched from then on; a change of a watched file is read again.*)

ServeRead ==
    /\ fs # <<>>
    /\ Head(fs).op = "read"
    /\ works' = Append(works, [op |-> "read", call |-> Head(fs).call])
    /\ watch' = [watch EXCEPT ![Head(fs).file] = Head(fs).call]
    /\ fs' = Tail(fs)
    /\ UNCHANGED <<stack, loads, tags, data, registered, changes, client, failed>>

ServeRemoveWatch ==
    /\ fs # <<>>
    /\ Head(fs).op = "remove_watch"
    /\ watch' = [watch EXCEPT ![Head(fs).file] = None]
    /\ fs' = Tail(fs)
    /\ UNCHANGED <<works, stack, loads, tags, data, registered, changes, client, failed>>

FileSystem == ServeRead \/ ServeRemoveWatch

FileChanged(f) ==
    /\ watch[f] # None
    /\ changes < client.manner.changes
    /\ changes' = changes + 1
    /\ works' = Append(works, [op |-> "read", call |-> watch[f]])
    /\ UNCHANGED <<stack, loads, tags, data, registered, fs, watch, client, failed>>

-----------------------------------------------------------------------------
(* The works: messages to the loader.                                      *)

\* The scheduler takes the first work, an op, when the one before is done.
Handling(op) == stack = <<>> /\ works # <<>> /\ Head(works).op = op

\* debug_assert(ok): what has failed then.
Asserted(label, ok) == IF ok THEN failed ELSE failed \cup {label}

\* Running the loop over relations is next, then what is on st.
Over(op, relations) == IF relations = <<>> THEN <<>> ELSE <<[op |-> op, relations |-> relations]>>

\* load_old: o becomes another owner of f, and tag gets a callback in its data.
load_old(tag, o, f) ==
    /\ loads' = [loads EXCEPT ![f].owners = Append(@, o)]
    /\ works' = Append(Tail(works),
                    [op |-> "add", call |-> loads[f].call, tag |-> tag, loaded |-> IsLoaded(f)])
    /\ UNCHANGED <<data, fs>>

\* load_new: a LoadingLoad of f, called name, with o as its only owner, and a
\* request to read f.  Without the filetype only the RadicalLoad remains.
load_new(L, tag, o, f, name) ==
    LET taken == name # f /\ loads[name] # None
        named == IF name = f THEN L ELSE [L EXCEPT ![name] = Radical(f)]
        c == Len(data) + 1
    IN
    /\ works' = Tail(works)
    /\ IF taken \/ ~registered
       THEN /\ loads' = IF taken THEN L ELSE named
            /\ UNCHANGED <<data, fs>>
       ELSE /\ loads' = [named EXCEPT ![f] = NewLoading(name, c, o)]
            /\ data' = Append(data, NewData(f, tag))
            /\ fs' = Append(fs, [op |-> "read", file |-> f, call |-> c])

\* The file that a message about name concerns: the one name is already
\* loaded as, else the one in the libraries, else None.
FileOf(name) ==
    IF Found(UnderlyingLoad(name)) THEN UnderlyingLoad(name) ELSE Underlying[name]

\* MessageLoadIndependent.
LoadIndependent ==
    /\ Handling("independent")
    /\ LET m == Head(works)
           f == FileOf(m.name)
       IN  IF f = None \/ tags[m.tag] # None
           THEN works' = Tail(works) /\ UNCHANGED <<loads, tags, data, fs>>
           ELSE /\ tags' = [tags EXCEPT ![m.tag] = f]
                /\ IF Found(f) THEN load_old(m.tag, Global, f)
                               ELSE load_new(loads, m.tag, Global, f, m.name)
    /\ UNCHANGED <<stack, registered, watch, changes, client, failed>>

\* MessageLoadDependency that is refused: the owner is no longer loaded, the
\* name is unknown or, which is never meant to be, the owner is done loading.
LoadDependencyRefused ==
    /\ Handling("dependency")
    /\ LET m == Head(works)
           dropped == ~Found(m.owner) \/ FileOf(m.name) = None
       IN  /\ dropped \/ IsLoaded(m.owner)
           /\ failed' = Asserted("owner_loading", dropped)
    /\ works' = Tail(works)
    /\ UNCHANGED <<stack, loads, tags, data, registered, fs, watch, changes, client>>

\* MessageLoadDependency.  A file not loaded under this name is added as an
\* unloaded dependency even if it is loaded under another.
LoadDependency ==
    /\ Handling("dependency")
    /\ IsLoading(Head(works).owner)
    /\ FileOf(Head(works).name) # None
    /\ LET m == Head(works)
           f == FileOf(m.name)
           known == Found(UnderlyingLoad(m.name))
           loaded == known /\ IsLoaded(f)
       IN  /\ failed' = Asserted("insert_full", ~InsertsIntoFull(loads[m.owner], loaded))
           /\ \E x \in add_dependency(loads[m.owner], f, loaded) :
             IF Found(f)
             THEN /\ loads' = [loads EXCEPT ![m.owner] = x, ![f].owners = Append(@, m.owner)]
                  /\ works' = Append(Tail(works),
                        [op |-> "add", call |-> loads[f].call, tag |-> m.owner, loaded |-> IsLoaded(f)])
                  /\ UNCHANGED <<data, fs>>
             ELSE load_new([loads EXCEPT ![m.owner] = x], m.owner, m.owner, f, m.name)
    /\ UNCHANGED <<stack, tags, registered, watch, changes, client>>

\* MessageLoadInit: a loaded file is about to be read again.
LoadInit ==
    /\ Handling("init")
    /\ LET f == Head(works).file
       IN  /\ failed' = Asserted("init_found", Found(f))
           /\ loads' = IF IsLoaded(f) THEN [loads EXCEPT ![f] = AsLoading(@)] ELSE loads
    /\ works' = Tail(works)
    /\ UNCHANGED <<stack, tags, data, registered, fs, watch, changes, client>>

\* What finish_loading does once f, as x, waits for nothing more: x.previous
\* attachments of owner o go, f is made loaded, its owners may then be.
Finishing(relations, f, x, o) ==
    Over("finish", relations \o OwnedBy(x.owners, f))
        \o <<[op |-> "loaded", file |-> f]>> \o Over("remove", Owning(o, Previous(x)))

\* Mutant: LoadDone does not look at the remaining count.
LoadDoneUncounted ==
    /\ Handling("done")
    /\ LET f == Head(works).file
           x == [loads[f] EXCEPT !.reading = FALSE]
       IN  IF ~IsLoading(f) THEN UNCHANGED <<stack, loads>>
           ELSE /\ loads' = [loads EXCEPT ![f] = Renewed(x)]
                /\ stack' = Finishing(<<>>, f, x, f)
    /\ works' = Tail(works)
    /\ UNCHANGED <<tags, data, registered, fs, watch, changes, client, failed>>

\* MessageLoadDone: the file itself is read.
LoadDone ==
    /\ Handling("done")
    /\ LET f == Head(works).file
           x == [loads[f] EXCEPT !.reading = FALSE]
       IN  IF ~IsLoading(f) THEN UNCHANGED <<stack, loads>>
           ELSE IF x.remaining > 0
           THEN /\ loads' = [loads EXCEPT ![f] = x]
                /\ UNCHANGED stack
           ELSE /\ loads' = [loads EXCEPT ![f] = Renewed(x)]
                /\ stack' = Finishing(<<>>, f, x, f)
    /\ works' = Tail(works)
    /\ UNCHANGED <<tags, data, registered, fs, watch, changes, client, failed>>

RegisterFiletype ==
    /\ Handling("register") \/ Handling("unregister")
    /\ registered' = (Head(works).op = "register")
    /\ works' = Tail(works)
    /\ UNCHANGED <<stack, loads, tags, data, fs, watch, changes, client, failed>>

\* Mutant: the attachments of a file that goes are kept.
DisownShallow(f, o, tag, disposal, ws, st, relations) ==
    LET x == loads[f]
        gone == Len(x.owners) = 1
        removal == [op |-> "remove", call |-> x.call, tag |-> tag, loaded |-> IsLoaded(f)]
    IN
    /\ works' = ws \o <<removal>> \o IF gone THEN disposal ELSE <<>>
    /\ fs' = IF gone THEN Append(fs, [op |-> "remove_watch", file |-> f]) ELSE fs
    /\ stack' = st \o Over("remove", relations)
    /\ loads' = IF gone THEN [n \in Names |-> IF n \in {f, x.radical} THEN None ELSE loads[n]]
                ELSE [loads EXCEPT ![f].owners = Without(@, o)]

\* Owner o of f, which has a callback under tag, is removed; with the last
\* owner f goes too, `disposal` says with which works on its data, and its
\* attachments are next, after `relations`.
Disown(f, o, tag, disposal, ws, st, relations) ==
    LET x == loads[f]
        gone == Len(x.owners) = 1
        removal == [op |-> "remove", call |-> x.call, tag |-> tag, loaded |-> IsLoaded(f)]
    IN
    /\ works' = ws \o <<removal>> \o IF gone THEN disposal ELSE <<>>
    /\ fs' = IF gone THEN Append(fs, [op |-> "remove_watch", file |-> f]) ELSE fs
    /\ stack' = st \o Over("remove", relations \o IF gone THEN Owning(f, x.attachments) ELSE <<>>)
    /\ loads' = IF gone THEN [n \in Names |-> IF n \in {f, x.radical} THEN None ELSE loads[n]]
                ELSE [loads EXCEPT ![f].owners = Without(@, o)]

\* MessageUnloadIndependent and remove_file.  A file that was never loaded is
\* not given to the unloadcall.
UnloadIndependent ==
    /\ Handling("unload")
    /\ LET t == Head(works).tag
           f == tags[t]
           x == loads[f]
           disposal == [op |-> "dispose", call |-> x.call,
                        expect |-> IF IsLoaded(f) THEN "any" ELSE "unready"]
       IN  IF ~Found(f) \/ ~Contains(x.owners, Global)
           THEN works' = Tail(works) /\ UNCHANGED <<stack, loads, fs>>
           ELSE Disown(f, Global, t,
                       IF IsLoaded(f) \/ x.previous >= 0 THEN <<disposal>> ELSE <<>>,
                       Tail(works), <<>>, <<>>)
    /\ UNCHANGED <<tags, data, registered, watch, changes, client, failed>>

-----------------------------------------------------------------------------
(* The loops of remove_attachments and finish_loading.                     *)

Running(op) == stack # <<>> /\ Last(stack).op = op

\* One relation of remove_attachments, the last: its owner no longer owns its
\* attachment.  An attachment that is not loaded ends the loop.
remove_attachments ==
    /\ Running("remove")
    /\ LET left == Front(Last(stack).relations)
           o == Last(Last(stack).relations)[1]
           f == Last(Last(stack).relations)[2]
           disposal == [op |-> "dispose", call |-> loads[f].call,
                        expect |-> IF IsLoaded(f) THEN "ready" ELSE "unready"]
       IN  IF ~Found(f)
           THEN /\ failed' = Asserted("attachment_loaded", FALSE)
                /\ stack' = Front(stack)
                /\ UNCHANGED <<works, loads, fs>>
           ELSE IF ~Contains(loads[f].owners, o)
           THEN /\ failed' = Asserted("owner_known", FALSE)
                /\ stack' = Front(stack) \o Over("remove", left)
                /\ UNCHANGED <<works, loads, fs>>
           ELSE /\ Disown(f, o, o, <<disposal>>, works, Front(stack), left)
                /\ UNCHANGED failed
    /\ UNCHANGED <<tags, data, registered, watch, changes, client>>

make_loaded ==
    /\ Running("loaded")
    /\ LET f == Last(stack).file
       IN  /\ loads' = [loads EXCEPT ![f] = AsLoaded(@)]
           /\ works' = Append(works, [op |-> "ready", call |-> loads[f].call])
    /\ stack' = Front(stack)
    /\ UNCHANGED <<tags, data, registered, fs, watch, changes, client, failed>>

\* One relation of finish_loading, the last: if its owner waits for its
\* attachment it no longer does, and may be finished with too.  The previous
\* attachments that go then are removed as the attachment's own.
finish_loading ==
    /\ Running("finish")
    /\ LET left == Front(Last(stack).relations)
           o == Last(Last(stack).relations)[1]
           f == Last(Last(stack).relations)[2]
           x == Settle(loads[o], f)
           waits == IsLoading(o) /\ Contains(Pending(loads[o]), f)
       IN  IF waits /\ ~x.reading /\ x.remaining = 0
           THEN /\ loads' = [loads EXCEPT ![o] = Renewed(x)]
                /\ stack' = Front(stack) \o Finishing(left, o, x, f)
           ELSE /\ loads' = IF waits THEN [loads EXCEPT ![o] = x] ELSE loads
                /\ stack' = Front(stack) \o Over("finish", left)
    /\ UNCHANGED <<works, tags, data, registered, fs, watch, changes, client, failed>>

-----------------------------------------------------------------------------
(* The works on a file's strand.                                           *)

\* The work of make_loaded: the readycalls of all callbacks.
Ready ==
    /\ Handling("ready")
    /\ LET c == Head(works).call
       IN  /\ failed' = Asserted("ready_once", ~data[c].ready)
           /\ data' = IF data[c].ready THEN data
                      ELSE [data EXCEPT ![c].ready = TRUE, ![c].calls = Called(@, 1)]
    /\ works' = Tail(works)
    /\ UNCHANGED <<stack, loads, tags, registered, fs, watch, changes, client>>

\* The work of load_old: a callback more, called if the file is ready.
AddCall ==
    /\ Handling("add")
    /\ LET m == Head(works)
           ready == data[m.call].ready
       IN  /\ failed' = Asserted("add_as_ready", ready = m.loaded)
           /\ data' = [data EXCEPT ![m.call].calls =
                            Append(@, [tag |-> m.tag, up |-> IF ready THEN 1 ELSE 0])]
    /\ works' = Tail(works)
    /\ UNCHANGED <<stack, loads, tags, registered, fs, watch, changes, client>>

\* Mutant: a callback is told and kept.
RemoveCallKeeps ==
    /\ Handling("remove")
    /\ LET m == Head(works)
           i == CallOf(data[m.call].calls, m.tag)
       IN  data' = IF i = 0 THEN data ELSE [data EXCEPT ![m.call].calls[i].up = 0]
    /\ works' = Tail(works)
    /\ UNCHANGED <<stack, loads, tags, registered, fs, watch, changes, client, failed>>

\* The work of remove_file and remove_attachments on an owner that goes: its
\* callback is told if the file is ready, and dropped.
RemoveCall ==
    /\ Handling("remove")
    /\ LET m == Head(works)
           ready == data[m.call].ready
           calls == data[m.call].calls
           i == CallOf(calls, m.tag)
           left == IF ready THEN calls[i].up - 1 ELSE calls[i].up
       IN  /\ failed' = IF i = 0 THEN Asserted("call_known", FALSE)
                                 ELSE Asserted("remove_as_ready", ready = m.loaded)
           /\ data' = IF i = 0 THEN data
                      ELSE [data EXCEPT ![m.call].calls = Without(@, calls[i]),
                                        ![m.call].stranded = @ + left]
    /\ works' = Tail(works)
    /\ UNCHANGED <<stack, loads, tags, registered, fs, watch, changes, client>>

\* The work of remove_file and remove_attachments on a file that goes: any
\* callback left is told if the file is ready, and the unloadcall is made.
Dispose ==
    /\ Handling("dispose")
    /\ LET m == Head(works)
           d == data[m.call]
       IN  /\ failed' = Asserted("dispose_as_ready", m.expect \in {"any", IF d.ready THEN "ready" ELSE "unready"})
                            \cup Asserted("no_calls_left", d.calls = <<>>)
           /\ data' = [data EXCEPT
                ![m.call].calls = IF d.ready THEN Called(@, -1) ELSE @,
                ![m.call].stash = IF @ = "filled" THEN "unloaded" ELSE "misused"]
    /\ works' = Tail(works)
    /\ UNCHANGED <<stack, loads, tags, registered, fs, watch, changes, client>>

\* Mutant: a file is read again without telling its callbacks.
FileLoadSilently ==
    /\ Handling("read")
    /\ LET c == Head(works).call
           f == data[c].file
       IN  IF ~Alive(c)
           THEN works' = Tail(works) /\ UNCHANGED <<stack, data>>
           ELSE /\ \E deps \in Content[f] :
                     stack' = <<[op |-> "loadcall", call |-> c, deps |-> deps]>>
                /\ IF data[c].ready
                   THEN /\ works' = Append(Tail(works), [op |-> "init", file |-> f])
                        /\ data' = [data EXCEPT ![c].ready = FALSE]
                   ELSE works' = Tail(works) /\ UNCHANGED data
    /\ UNCHANGED <<loads, tags, registered, fs, watch, changes, client, failed>>

\* ReadData::file_load until its loadcall: a file that is gone is not read; a
\* ready one is made unready first.
FileLoad ==
    /\ Handling("read")
    /\ LET c == Head(works).call
           f == data[c].file
       IN  IF ~Alive(c)
           THEN works' = Tail(works) /\ UNCHANGED <<stack, data>>
           ELSE /\ \E deps \in Content[f] :
                     stack' = <<[op |-> "loadcall", call |-> c, deps |-> deps]>>
                /\ IF data[c].ready
                   THEN /\ works' = Append(Tail(works), [op |-> "init", file |-> f])
                        /\ data' = [data EXCEPT ![c].ready = FALSE, ![c].calls = Called(@, -1)]
                   ELSE works' = Tail(works) /\ UNCHANGED data
    /\ UNCHANGED <<loads, tags, registered, fs, watch, changes, client, failed>>

\* The loadcall calls load_dependency.
load_dependency ==
    /\ Running("loadcall")
    /\ LET frame == Last(stack)
       IN  /\ frame.deps # <<>>
           /\ works' = Append(works, [op |-> "dependency", owner |-> data[frame.call].file,
                                      name |-> Head(frame.deps)])
           /\ stack' = <<[frame EXCEPT !.deps = Tail(@)]>>
    /\ UNCHANGED <<loads, tags, data, registered, fs, watch, changes, client, failed>>

\* The loadcall has filled the stash and returns; file_load posts LoadDone.
FileLoaded ==
    /\ Running("loadcall")
    /\ LET frame == Last(stack)
       IN  /\ frame.deps = <<>>
           /\ works' = Append(works, [op |-> "done", file |-> data[frame.call].file])
           /\ data' = [data EXCEPT ![frame.call].stash =
                            IF @ \in {"empty", "filled"} THEN "filled" ELSE "misused"]
    /\ stack' = <<>>
    /\ UNCHANGED <<loads, tags, registered, fs, watch, changes, client, failed>>

-----------------------------------------------------------------------------

Worker ==
    \/ LoadIndependent \/ LoadDependency \/ LoadDependencyRefused
    \/ LoadInit \/ LoadDone \/ RegisterFiletype \/ UnloadIndependent
    \/ remove_attachments \/ make_loaded \/ finish_loading
    \/ Ready \/ AddCall \/ RemoveCall \/ Dispose
    \/ FileLoad \/ load_dependency \/ FileLoaded

Next ==
    \/ Client
    \/ FileSystem
    \/ \E f \in Files : FileChanged(f)
    \/ Worker

Spec == Init /\ [][Next]_vars

\* The scheduler's thread runs works as long as there are any and the file
\* system's thread serves requests; nobody has to load, unload or change files.
FairSpec == Spec /\ WF_vars(Worker) /\ WF_vars(FileSystem)

-----------------------------------------------------------------------------
(* Properties.                                                             *)

Count(s, x) == Cardinality({i \in 1 .. Len(s) : s[i] = x})

\* An attachment of some load has been inserted into a full vector, that is, a
\* loaded dependency was added after one that is still loading (vector.hpp:376).
HasTorn == "insert_full" \in failed

\* Between two works, a file is an owner of another as many times as the other
\* is among its attachments: add_dependency_* and load_old, and
\* remove_attachments, change the two ends of a dependency together, so that no
\* file is kept by an owner that has forgotten it.  Except for what a torn load
\* owns: its attachments have lost the one that was inserted, and maybe the one
\* that made room for it.  When they are removed an assertion fails, and
\* nothing more is said.
OwnersMatchAttachments ==
    stack = <<>> /\ failed \subseteq {"insert_full"} =>
        \A f, o \in Files : IsLoad(f) /\ (IsLoad(o) => ~loads[o].torn) =>
            Count(loads[f].owners, o)
                = IF IsLoad(o) THEN Count(loads[o].attachments, f) ELSE 0

\* Between two works, what a loading file still counts as remaining is what it
\* has to wait for: the last attachments, those not yet loaded (loader.cpp:324).
RemainingIsRequired ==
    stack = <<>> =>
        \A f \in Files : IsLoading(f) =>
            \A i \in 1 .. Len(loads[f].attachments) :
                i > Settled(loads[f]) => ~IsLoaded(loads[f].attachments[i])

\* A readycall of a file is made after those of the files it depends on, and
\* its unreadycall before theirs (files do not change): whenever a file's
\* callbacks are up, so is the file itself among the callbacks of each
\* attachment.  A torn load has forgotten what it depends on.
ReadyAfterDependencies ==
    \A f \in Files : IsLoaded(f) /\ ~loads[f].torn /\ data[loads[f].call].ready =>
        \A i \in 1 .. Len(loads[f].attachments) :
            LET d == data[loads[loads[f].attachments[i]].call] IN
            CallOf(d.calls, f) # 0 /\ d.calls[CallOf(d.calls, f)].up = 1

\* Every callback has got one readycall more than unreadycalls while its file is
\* ready and as many of both while it is not, whatever work added it or drops it.
CallbacksBalanced ==
    \A c \in 1 .. Len(data) :
        /\ data[c].stranded = 0
        /\ data[c].stash # "unloaded" =>
            \A i \in 1 .. Len(data[c].calls) :
                data[c].calls[i].up = IF data[c].ready THEN 1 ELSE 0

\* Callbacks see the stash that the loadcall has filled: a ready file has been
\* read and not yet been unloaded.
ReadyHasContent ==
    \A c \in 1 .. Len(data) :
        \A i \in 1 .. Len(data[c].calls) : data[c].calls[i].up > 0 => data[c].stash = "filled"

\* None of the loader's debug_asserts fails before a load is torn.
AssertsHold == ~HasTorn => failed = {}

\* remove_attachments takes away owners that the attachment has
\* (debug_assert(owner_it != x.owners.end())).
OwnerKnown == "owner_known" \notin failed

Idle == works = <<>> /\ stack = <<>> /\ fs = <<>>

\* When every tag is unloaded and nothing is left to do, no file is loaded or
\* watched and every stash that was filled has been given to the unloadcall,
\* unless a load was torn: what it has forgotten is never released.
NothingLeft ==
    Idle /\ ~HasTorn /\ (\A t \in Tags : client.tag[t] = "unloaded") =>
        /\ \A n \in Names : ~Found(n)
        /\ \A f \in Files : watch[f] = None
        /\ \A c \in 1 .. Len(data) : data[c].stash = "unloaded" /\ data[c].calls = <<>>

\* A client that loads a file gets its readycall, unless it unloads the file or
\* a load is torn, which may wait for ever for what it has forgotten.
EventuallyReady ==
    \A t \in Tags : client.tag[t] = "loaded" ~>
        (HeardReady(t) \/ client.tag[t] = "unloaded" \/ HasTorn)

\* Once unloaded, a tag's callback is eventually told and dropped.
EventuallyReleased ==
    \A t \in Tags : client.tag[t] = "unloaded" ~>
        (\A c \in 1 .. Len(data) : CallOf(data[c].calls, t) = 0)

\* Both: every load and every unload is seen through (load_global, unload_global).
EventuallySettled == EventuallyReady /\ EventuallyReleased

=============================================================================

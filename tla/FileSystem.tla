----------------------------- MODULE FileSystem -----------------------------
(***************************************************************************)
(* engine::file::system with inotify watches (engine/file/system_inotify   *)
(* .cpp and engine/file/watch/watch_inotify.cpp).                          *)
(*                                                                         *)
(* Three parties work on one disk:                                         *)
(*  - the file_watch thread takes requests from a pipe and events from     *)
(*    inotify, keeps the registered directories and the watches, and posts *)
(*    works;                                                               *)
(*  - the scheduler runs these works one at a time: they read, scan and    *)
(*    write files and call the client back;                                *)
(*  - other programs create, write and delete files and directories.       *)
(* A step is one system call that touches the disk and what is done until  *)
(* the next one.  Allocations and system calls do not fail, except that    *)
(* files and directories may be missing or be there already.  Nothing is   *)
(* renamed and no inotify event is lost: the code only prints IN_MOVE,     *)
(* IN_MOVE_SELF and IN_Q_OVERFLOW.                                         *)
(*                                                                         *)
(* What the code cannot keep up to date is recorded and exempt from the    *)
(* properties: a scan that gave up or whose changes were kept under an     *)
(* address that is another Directory's by then is `astray`, and a Directory*)
(* that had several users when it was deleted is Deaf.                     *)
(***************************************************************************)
EXTENDS Integers, Sequences, SequencesExt, FiniteSets, FiniteSetsExt, Storages

CONSTANTS
    Dirs,           \* paths of directories
    Parent,         \* the directory that each is in, or None
    Names,          \* names of files
    Aliases,        \* names that clients register directories under
    Working,        \* the alias of the working directory
    Path,           \* the directory that each alias stands for
    Under,          \* the alias it is registered relative to; None: it is temporary
    Tokens,         \* name the requests to read, scan and write
    Scenarios,      \* what clients and others may do, one of which holds in a behaviour:
                    \*   calls    the sequence of calls that clients make
                    \*   dirs     directories that are there at first
                    \*   touched  directories that other programs change, and make
                    \*   changes  bound: changes of files and directories
    None

Files == Dirs \X Names

ASSUME TreeAssumption ==
    /\ Parent \in [Dirs -> Dirs \cup {None}]
    /\ Working \in Aliases
    /\ Path \in [Aliases -> Dirs]
    /\ Under \in [Aliases -> Aliases \cup {None}]
    /\ None \notin Dirs \cup Names \cup Aliases \cup Tokens
Calls ==
    [op : {"register", "temporary", "unregister"}, alias : Aliases]
    \cup [op : {"read"}, token : Tokens, alias : Aliases, file : Files,
          watch : BOOLEAN, report_missing : BOOLEAN]
    \cup [op : {"scan"}, token : Tokens, alias : Aliases, watch : BOOLEAN, recurse : BOOLEAN]
    \cup [op : {"write"}, token : Tokens, alias : Aliases, file : Files,
          mode : {"new", "append", "overwrite"}, create : BOOLEAN]
    \cup [op : {"remove_watch"}, token : Tokens]
    \cup [op : {"destruct"}]

ASSUME ScenariosAssumption ==
    \A s \in Scenarios :
        /\ \A i \in DOMAIN s.calls : s.calls[i] \in Calls
        /\ Path[Working] \in s.dirs /\ s.dirs \subseteq Dirs /\ s.touched \subseteq Dirs
ASSUME FileBoundsAssumption == \A s \in Scenarios : s.changes \in Nat

VARIABLES
    disk,       \* the directories that exist, what each file contains, the files being written
    version,    \* numbers the contents written; 0 is an empty file
    inotify,    \* the kernel's watch of each directory, and pending events
    pipe,       \* requests on their way to the thread
    closed,     \* whether the writing end of the pipe is closed
    script,     \* the scenario, less the calls that clients have made
    thread,     \* where the thread is in its loop
    todo,       \* what the request or event at hand has left to do
    changed,    \* changed_directories of the events at hand
    registry,   \* the aliases and directories of system_impl
    watches,    \* the kind of watch of each request, or None
    watch,      \* the aliases and directories of the watches
    data,       \* the ReadData, ScanData or WriteData of each request
    astray,     \* scans that have missed files or changes for good
    works,      \* works posted to the scheduler
    running     \* the work that is between two of its steps, or None

clientVars == <<pipe, closed, script>>
workerVars == <<data, works, running, astray>>
vars == <<disk, version, inotify, clientVars, thread, todo, changed, registry, watches, watch,
          workerVars>>

-----------------------------------------------------------------------------
(* The disk and inotify, as the system calls in src/ use them.             *)

\* Each directory and those it is in.
Upwards[n \in Nat] ==
    [d \in Dirs |-> {d} \cup IF n = 0 \/ Parent[d] = None THEN {} ELSE Upwards[n - 1][Parent[d]]]

Below(d, top) == top \in Upwards[Cardinality(Dirs)][d]

Children(d) == {c \in disk.dirs : Parent[c] = d}
Exists(f) == disk.content[f] # None
FilesIn(d) == {f \in Files : f[1] = d /\ Exists(f)}

On(d, kind, name) ==
    IF d = None \/ inotify.wd[d] = None THEN <<>>
    ELSE <<[wd |-> inotify.wd[d], kind |-> kind, name |-> name]>>

Notify(events) == inotify' = [inotify EXCEPT !.events = @ \o events]

Mkdir(d) ==
    /\ d \notin disk.dirs
    /\ Parent[d] = None \/ Parent[d] \in disk.dirs
    /\ disk' = [disk EXCEPT !.dirs = @ \cup {d}]
    /\ Notify(On(Parent[d], "mkdir", d))

RemoveDirectory(d) ==
    /\ d \in disk.dirs
    /\ Children(d) = {} /\ FilesIn(d) = {}
    /\ disk' = [disk EXCEPT !.dirs = @ \ {d}]
    /\ inotify' = [inotify EXCEPT
            !.events = @ \o On(d, "delete_self", d) \o On(Parent[d], "delete", d),
            !.wd[d] = None]

Unlink(f) ==
    /\ Exists(f)
    /\ disk' = [disk EXCEPT !.content[f] = None, !.open = @ \ {f}]
    /\ Notify(On(f[1], "delete", f[2]))

\* open for writing, with O_CREAT unless it exists; what it leaves in the file.
Open(f, content) ==
    /\ disk' = [disk EXCEPT !.content[f] = content, !.open = @ \cup {f}]
    /\ Notify(IF Exists(f) THEN <<>> ELSE On(f[1], "create", f[2]))

\* write and close.  A file that has been removed since it was opened is
\* written in vain, but its events are sent.
Close(f) ==
    /\ version' = version + 1
    /\ disk' = [disk EXCEPT !.content[f] = IF f \in disk.open THEN version + 1 ELSE @,
                            !.open = @ \ {f}]
    /\ Notify(On(f[1], "close_write", f[2]))

-----------------------------------------------------------------------------

NewDirectory(wd, d) ==
    [wd |-> wd, dir |-> d, reads |-> <<>>, missing_reads |-> <<>>,
     scans |-> <<>>, recursive_scans |-> <<>>]

Init ==
    /\ script \in Scenarios
    /\ disk = [dirs |-> script.dirs, content |-> [f \in Files |-> None], open |-> {}]
    /\ version = 0
    /\ inotify = [wd |-> [d \in Dirs |-> None], last |-> 0, events |-> <<>>]
    /\ pipe = <<>> /\ closed = FALSE
    /\ thread = [pc |-> "poll", ready |-> FALSE, terminate |-> FALSE, batch |-> 0]
    /\ todo = <<>>
    /\ changed = <<>>
    /\ registry = [alias |-> [a \in Aliases |-> IF a = Working THEN Path[a] ELSE None],
                   directory |-> [d \in Dirs |-> IF d = Path[Working]
                                                 THEN [temporary |-> FALSE, share_count |-> 0]
                                                 ELSE None]]
    /\ watches = [t \in Tokens |-> None]
    /\ watch = [alias |-> [d \in Dirs |-> None], directories |-> <<>>, cap |-> 0]
    /\ data = [t \in Tokens |-> None]
    /\ works = <<>>
    /\ running = None
    /\ astray = {}

-----------------------------------------------------------------------------
(* Clients.                                                                *)

\* register_directory, ..., read, scan, write and remove_watch.
Call ==
    /\ script.calls # <<>> /\ Head(script.calls).op # "destruct"
    /\ pipe' = Append(pipe, Head(script.calls))
    /\ script' = [script EXCEPT !.calls = Tail(@)]
    /\ UNCHANGED <<disk, version, inotify, closed, thread, todo, changed, registry, watches, watch,
                   workerVars>>

\* system::destruct: the pipe is closed, and the thread joined (thread.pc = "gone").
destruct ==
    /\ script.calls # <<>> /\ Head(script.calls).op = "destruct"
    /\ closed' = TRUE
    /\ script' = [script EXCEPT !.calls = Tail(@)]
    /\ UNCHANGED <<disk, version, inotify, pipe, thread, todo, changed, registry, watches,
                   watch, workerVars>>

Client == Call \/ destruct

-----------------------------------------------------------------------------
(* Other programs.                                                         *)

Changing(d) == d \in script.touched /\ version < script.changes /\ version' = version + 1

Elsewhere == UNCHANGED <<clientVars, thread, todo, changed, registry, watches, watch, workerVars>>

OtherMkdir(d) ==
    /\ Changing(d)
    /\ Parent[d] # None
    /\ Mkdir(d)
    /\ Elsewhere

OtherRmdir(d) ==
    /\ Changing(d)
    /\ Parent[d] # None
    /\ RemoveDirectory(d)
    /\ Elsewhere

OtherUnlink(f) ==
    /\ Changing(f[1])
    /\ Unlink(f)
    /\ Elsewhere

\* A file is created or overwritten, in one go.
OtherWrite(f) ==
    /\ Changing(f[1])
    /\ f[1] \in disk.dirs
    /\ disk' = [disk EXCEPT !.content[f] = version + 1]
    /\ Notify((IF Exists(f) THEN <<>> ELSE On(f[1], "create", f[2])) \o On(f[1], "close_write", f[2]))
    /\ Elsewhere

Other ==
    \/ \E d \in Dirs : OtherMkdir(d) \/ OtherRmdir(d)
    \/ \E f \in Files : OtherUnlink(f) \/ OtherWrite(f)

-----------------------------------------------------------------------------
(* The thread: file_watch.                                                 *)

\* Mutant: a pipe that is closed without requests in it (POLLHUP alone) is not
\* seen.
PollIn ==
    /\ thread.pc = "poll"
    /\ pipe # <<>> \/ inotify.events # <<>>
    /\ thread' = [thread EXCEPT !.pc = IF pipe # <<>> THEN "pipe" ELSE "notify",
                                !.ready = inotify.events # <<>>]
    /\ UNCHANGED <<disk, version, inotify, clientVars, todo, changed, registry, watches, watch,
                   workerVars>>

\* poll returns: there are requests, the pipe is closed, or there are events.
Poll ==
    /\ thread.pc = "poll"
    /\ pipe # <<>> \/ closed \/ inotify.events # <<>>
    /\ thread' = [thread EXCEPT !.pc = IF pipe # <<>> \/ closed THEN "pipe" ELSE "notify",
                                !.ready = inotify.events # <<>>]
    /\ UNCHANGED <<disk, version, inotify, clientVars, todo, changed, registry, watches, watch,
                   workerVars>>

\* All requests are taken; events come next if poll has seen any.
Drained ==
    /\ thread.pc = "pipe" /\ todo = <<>> /\ pipe = <<>>
    /\ thread' = [thread EXCEPT !.pc = IF thread.ready THEN "notify" ELSE IF closed THEN "exit" ELSE "poll",
                                !.terminate = closed]
    /\ UNCHANGED <<disk, version, inotify, clientVars, todo, changed, registry, watches, watch,
                   workerVars>>

\* The next request is op.
Taking(op) ==
    /\ thread.pc = "pipe" /\ todo = <<>>
    /\ pipe # <<>> /\ Head(pipe).op = op
    /\ pipe' = Tail(pipe)
    /\ UNCHANGED <<version, closed, script, thread, changed, astray>>

process_register_directory ==
    /\ Taking("register")
    /\ LET a == Head(pipe).alias
           d == Path[a]
           dir == registry.directory[d]
           refused == \/ registry.alias[a] # None
                      \/ registry.alias[Under[a]] = None
                      \/ dir # None /\ dir.temporary
       IN  registry' =
             IF refused THEN registry
             ELSE [alias |-> [registry.alias EXCEPT ![a] = d],
                   directory |-> [registry.directory EXCEPT ![d] =
                        IF dir = None THEN [temporary |-> FALSE, share_count |-> 0]
                        ELSE [dir EXCEPT !.share_count = @ + 1]]]
    /\ UNCHANGED <<disk, inotify, todo, watches, watch, workerVars>>

process_register_temporary_directory ==
    /\ Taking("temporary")
    /\ LET a == Head(pipe).alias
           d == Path[a]
       IN  IF registry.alias[a] # None THEN UNCHANGED <<disk, inotify, registry>>
           ELSE /\ Mkdir(d)
                /\ registry' = [alias |-> [registry.alias EXCEPT ![a] = d],
                                directory |-> [registry.directory EXCEPT
                                    ![d] = [temporary |-> TRUE, share_count |-> 0]]]
    /\ UNCHANGED <<todo, watches, watch, workerVars>>

\* A temporary directory is removed with all it contains.
process_unregister_directory ==
    /\ Taking("unregister")
    /\ LET a == Head(pipe).alias
           d == registry.alias[a]
           dir == registry.directory[d]
       IN  IF d = None THEN UNCHANGED <<registry, todo>>
           ELSE /\ registry' = [alias |-> [registry.alias EXCEPT ![a] = None],
                                directory |-> [registry.directory EXCEPT ![d] =
                                    IF dir.temporary \/ dir.share_count = 0 THEN None
                                    ELSE [dir EXCEPT !.share_count = @ - 1]]]
                /\ todo' = IF dir.temporary THEN <<[op |-> "purge", dir |-> d]>> ELSE <<>>
    /\ UNCHANGED <<disk, inotify, watches, watch, workerVars>>

Doing(op) ==
    /\ todo # <<>> /\ Head(todo).op = op
    /\ UNCHANGED <<clientVars, thread, changed, registry, watches, astray>>

\* purge_temporary_directory lists a directory, removes what it has found in
\* it, and then the directory itself.
purge_temporary_directory ==
    /\ Doing("purge")
    /\ LET d == Head(todo).dir
           files == SetToSeq(FilesIn(d))
           dirs == SetToSeq(Children(d))
       IN  todo' = IF d \notin disk.dirs THEN <<>>
                   ELSE [i \in 1 .. Len(files) |-> [op |-> "unlink", file |-> files[i]]]
                        \o [i \in 1 .. Len(dirs) |-> [op |-> "purge", dir |-> dirs[i]]]
                        \o <<[op |-> "rmdir", dir |-> d]>> \o Tail(todo)
    /\ UNCHANGED <<disk, version, inotify, watch, workerVars>>

\* nftw stops at the first file that has gone in the meantime, or directory
\* that is not empty.
PurgeStops == todo' = <<>> /\ UNCHANGED <<disk, inotify>>

purge_file ==
    /\ Doing("unlink")
    /\ LET f == Head(todo).file
       IN  IF Exists(f) THEN Unlink(f) /\ todo' = Tail(todo) ELSE PurgeStops
    /\ UNCHANGED <<version, watch, workerVars>>

purge_directory ==
    /\ Doing("rmdir")
    /\ LET d == Head(todo).dir
       IN  IF d \in disk.dirs /\ Children(d) = {} /\ FilesIn(d) = {}
           THEN RemoveDirectory(d) /\ todo' = Tail(todo)
           ELSE PurgeStops
    /\ UNCHANGED <<version, watch, workerVars>>

-----------------------------------------------------------------------------
(* The watches.  `s` is [w |-> watch, k |-> inotify].                      *)

Now == [w |-> watch, k |-> inotify]

\* Where the Directory of wd lies, or 0.
SlotOf(w, wd) == SelectInSeq(w.directories, LAMBDA x : x.wd = wd)

\* The Directory that d's alias leads to.
SlotOfDir(w, d) == IF w.alias[d] = None THEN 0 ELSE SlotOf(w, w.alias[d].wd)

\* Mutant: a second user of a directory is not counted.
get_or_create_directory_uncounted(s, d) ==
    IF s.w.alias[d] # None \/ d \notin disk.dirs THEN s
    ELSE LET wd == s.k.last + 1 IN
         [w |-> [alias |-> [s.w.alias EXCEPT ![d] = [wd |-> wd, use_count |-> 1]],
                 directories |-> Append(s.w.directories, NewDirectory(wd, d)),
                 cap |-> Reserved(s.w.cap, Len(s.w.directories) + 1)],
          k |-> [s.k EXCEPT !.wd[d] = wd, !.last = wd]]

\* One more user of d, for which a watch is started if it has none; a
\* directory that does not exist cannot be watched.
get_or_create_directory(s, d) ==
    IF s.w.alias[d] # None THEN [s EXCEPT !.w.alias[d].use_count = @ + 1]
    ELSE IF d \notin disk.dirs THEN s
    ELSE LET wd == s.k.last + 1 IN
         [w |-> [alias |-> [s.w.alias EXCEPT ![d] = [wd |-> wd, use_count |-> 1]],
                 directories |-> Append(s.w.directories, NewDirectory(wd, d)),
                 cap |-> Reserved(s.w.cap, Len(s.w.directories) + 1)],
          k |-> [s.k EXCEPT !.wd[d] = wd, !.last = wd]]

\* One user less of d; with the last the watch is stopped.
decrement_alias(s, d) ==
    IF s.w.alias[d].use_count > 1 THEN [s EXCEPT !.w.alias[d].use_count = @ - 1]
    ELSE LET wd == s.w.alias[d].wd IN
         [w |-> [s.w EXCEPT !.alias[d] = None,
                            !.directories = WithoutAt(@, SlotOf(s.w, wd))],
          k |-> [s.k EXCEPT !.wd[d] = IF @ = wd THEN None ELSE @]]

\* t becomes a user of d under each of the fields.
Join(s, d, t, fields) ==
    LET u == get_or_create_directory(s, d)
        i == SlotOfDir(u.w, d)
    IN  IF i = 0 THEN u
        ELSE [u EXCEPT !.w.directories[i] =
                [x \in DOMAIN @ |-> IF x \in fields THEN Append(@[x], t) ELSE @[x]]]

\* t is a user of d under each of the fields no more, if it was under any.
Leave(s, d, t, fields) ==
    LET i == SlotOfDir(s.w, d)
        used == i # 0 /\ \E x \in fields : Contains(s.w.directories[i][x], t)
        u == [s EXCEPT !.w.directories[i] =
                [x \in DOMAIN @ |-> IF x \in fields /\ Contains(@[x], t) THEN Without(@[x], t) ELSE @[x]]]
    IN  IF used THEN decrement_alias(u, d) ELSE s

Becomes(s) == watch' = s.w /\ inotify' = s.k

\* Posted works.
Work(op, t) == [op |-> op, token |-> t]
Change(t, d, list) == [op |-> "change", token |-> t, dir |-> d, list |-> list]

\* process_read, with process_add_read.
process_read ==
    /\ Taking("read")
    /\ LET r == Head(pipe)
           fields == IF r.report_missing THEN {"reads", "missing_reads"} ELSE {"reads"}
       IN  IF registry.alias[r.alias] = None
           THEN UNCHANGED <<inotify, watches, watch, data, works>>
           ELSE /\ data' = [data EXCEPT ![r.token] = [file |-> r.file, seen |-> None]]
                /\ watches' = [watches EXCEPT ![r.token] = IF r.watch THEN "read" ELSE None]
                /\ IF r.watch THEN Becomes(Join(Now, r.file[1], r.token, fields))
                              ELSE UNCHANGED <<inotify, watch>>
                /\ works' = Append(works, Work("read", r.token))
    /\ UNCHANGED <<disk, todo, registry, running>>

\* process_scan, with process_add_scan.  A recursive scan watches directory by
\* directory, before its work is posted.
process_scan ==
    /\ Taking("scan")
    /\ LET r == Head(pipe)
           d == registry.alias[r.alias]
           kind == IF r.recurse THEN "recursive" ELSE "scan"
       IN  IF d = None THEN UNCHANGED <<inotify, watches, watch, data, todo>>
           ELSE /\ data' = [data EXCEPT ![r.token] = [dir |-> d, files |-> {}]]
                /\ watches' = [watches EXCEPT ![r.token] = IF r.watch THEN kind ELSE None]
                /\ todo' = (IF r.watch /\ r.recurse
                            THEN <<[op |-> "watch", token |-> r.token, dir |-> d]>> ELSE <<>>)
                           \o <<[op |-> "post", token |-> r.token, work |-> kind]>>
                /\ IF r.watch /\ ~r.recurse THEN Becomes(Join(Now, d, r.token, {"scans"}))
                                            ELSE UNCHANGED <<inotify, watch>>
    /\ UNCHANGED <<disk, registry, works, running>>

\* add_recursive_scan, for one directory: it is watched ...
add_recursive_scan ==
    /\ Doing("watch")
    /\ LET x == Head(todo)
       IN  /\ Becomes(Join(Now, x.dir, x.token, {"scans", "recursive_scans"}))
           /\ todo' = <<[x EXCEPT !.op = "list"]>> \o Tail(todo)
    /\ UNCHANGED <<disk, version, workerVars>>

\* ... and then listed for directories in it.
list_subdirectories ==
    /\ Doing("list")
    /\ LET x == Head(todo)
           found == IF x.dir \in disk.dirs THEN SetToSeq(Children(x.dir)) ELSE <<>>
       IN  todo' = [i \in 1 .. Len(found) |-> [x EXCEPT !.op = "watch", !.dir = found[i]]] \o Tail(todo)
    /\ UNCHANGED <<disk, version, inotify, watch, workerVars>>

post_scan ==
    /\ Doing("post")
    /\ works' = Append(works, Work(Head(todo).work, Head(todo).token))
    /\ todo' = Tail(todo)
    /\ UNCHANGED <<disk, version, inotify, watch, data, running>>

\* process_remove_watch, with process_remove.  A recursive scan leaves the
\* directories that are there now, one by one.
process_remove_watch ==
    /\ Taking("remove_watch")
    /\ LET t == Head(pipe).token
           x == data[t]
           from == SetToSeq({x.dir} \cup {d \in disk.dirs : Below(d, x.dir)})
       IN  /\ watches' = [watches EXCEPT ![t] = None]
           /\ CASE watches[t] = None -> UNCHANGED <<inotify, watch, todo>>
                [] watches[t] = "read" ->
                     Becomes(Leave(Now, x.file[1], t, {"reads", "missing_reads"})) /\ UNCHANGED todo
                [] watches[t] = "scan" ->
                     Becomes(Leave(Now, x.dir, t, {"scans"})) /\ UNCHANGED todo
                [] watches[t] = "recursive" ->
                     /\ todo' = [i \in 1 .. Len(from) |-> [op |-> "leave", token |-> t, dir |-> from[i]]]
                     /\ UNCHANGED <<inotify, watch>>
    /\ UNCHANGED <<disk, registry, workerVars>>

leave_directory ==
    /\ Doing("leave")
    /\ Becomes(Leave(Now, Head(todo).dir, Head(todo).token, {"scans", "recursive_scans"}))
    /\ todo' = Tail(todo)
    /\ UNCHANGED <<disk, version, workerVars>>

\* process_write: directories on the way to the file are made if asked for.
process_write ==
    /\ Taking("write")
    /\ LET r == Head(pipe)
           top == registry.alias[r.alias]
           way == {d \in Dirs : Below(r.file[1], d) /\ Below(d, top) /\ d # top}
           down == SetToSortSeq(way, LAMBDA c, d : c # d /\ Below(d, c))
       IN  IF top = None THEN UNCHANGED <<todo, data>>
           ELSE /\ data' = [data EXCEPT ![r.token] =
                                [file |-> r.file, mode |-> r.mode, seen |-> None]]
                /\ todo' = [i \in 1 .. (IF r.create THEN Len(down) ELSE 0) |->
                                [op |-> "mkdir", dir |-> down[i]]]
                           \o <<[op |-> "post", token |-> r.token, work |-> "write"]>>
    /\ UNCHANGED <<disk, inotify, registry, watches, watch, works, running>>

\* mkdir: a directory that is there already is fine; without its parent the
\* request fails.
make_directory ==
    /\ Doing("mkdir")
    /\ LET d == Head(todo).dir
       IN  IF d \in disk.dirs THEN todo' = Tail(todo) /\ UNCHANGED <<disk, inotify>>
           ELSE IF Parent[d] \in disk.dirs THEN todo' = Tail(todo) /\ Mkdir(d)
           ELSE todo' = <<>> /\ UNCHANGED <<disk, inotify>>
    /\ UNCHANGED <<version, watch, workerVars>>

Requests ==
    \/ process_register_directory \/ process_register_temporary_directory
    \/ process_unregister_directory \/ purge_temporary_directory \/ purge_file \/ purge_directory
    \/ process_read \/ process_scan \/ add_recursive_scan \/ list_subdirectories \/ post_scan
    \/ process_remove_watch \/ leave_directory \/ process_write \/ make_directory

-----------------------------------------------------------------------------
(* The thread: process_notifications.                                      *)

\* read fills the buffer with all pending events.
read_events ==
    /\ thread.pc = "notify" /\ todo = <<>> /\ thread.batch = 0 /\ changed = <<>>
    /\ inotify.events # <<>>
    /\ thread' = [thread EXCEPT !.batch = Len(inotify.events)]
    /\ UNCHANGED <<disk, version, inotify, clientVars, todo, changed, registry, watches, watch,
                   workerVars>>

\* The next event of the buffer is of this kind, from the directory in slot i.
Handling(kind, i) ==
    /\ thread.pc = "notify" /\ todo = <<>> /\ thread.batch > 0
    /\ Head(inotify.events).kind = kind
    /\ i = SlotOf(watch, Head(inotify.events).wd)
    /\ thread' = [thread EXCEPT !.batch = @ - 1]
    /\ UNCHANGED <<disk, version, clientVars, registry, watches, data, running>>

Handled == [inotify EXCEPT !.events = Tail(@)]

Kinds == {"mkdir", "create", "delete", "close_write", "delete_self"}

\* The directory is not watched any more.
EventUnknown ==
    /\ \E kind \in Kinds : Handling(kind, 0)
    /\ inotify' = Handled
    /\ UNCHANGED <<todo, changed, watch, works, astray>>

\* IN_CREATE of a directory: every recursive scan goes on in it.
EventMkdir(i) ==
    /\ Handling("mkdir", i)
    /\ LET d == Head(inotify.events).name
           scans == watch.directories[i].recursive_scans
       IN  todo' = FlattenSeq([j \in 1 .. Len(scans) |->
                <<[op |-> "watch", token |-> scans[j], dir |-> d],
                  [op |-> "post", token |-> scans[j], work |-> "recursive"]>>])
    /\ inotify' = Handled
    /\ UNCHANGED <<changed, watch, works, astray>>

\* Entries of changed_directories refer to a Directory by its address: the
\* array it is in, told apart by its capacity, and its slot there.  Each change
\* has the directory that it is really of.
Address(i) == [cap |-> watch.cap, slot |-> i]

Noted(i, sign) ==
    LET e == [sign |-> sign, name |-> Head(inotify.events).name, of |-> watch.directories[i].dir]
        j == SelectInSeq(changed, LAMBDA x : x.at = Address(i))
    IN  IF j # 0 THEN [changed EXCEPT ![j].list = Append(@, e)]
        ELSE Append(changed, [at |-> Address(i), list |-> <<e>>])

\* Works for those readers of the file that the event is about.
Reads(op, tokens) ==
    LET concerned == SelectSeq(tokens, LAMBDA t : data[t].file[2] = Head(inotify.events).name)
    IN  [j \in 1 .. Len(concerned) |-> Work(op, concerned[j])]

\* IN_CREATE of a file.
EventCreate(i) ==
    /\ Handling("create", i)
    /\ changed' = Noted(i, "+")
    /\ inotify' = Handled
    /\ UNCHANGED <<todo, watch, works, astray>>

\* Mutant: reads are not told that the file is missing.
EventDeleteSilent(i) ==
    /\ Handling("delete", i)
    /\ changed' = Noted(i, "-")
    /\ inotify' = Handled
    /\ UNCHANGED <<todo, watch, works, astray>>

\* IN_DELETE, of files and directories alike.
EventDelete(i) ==
    /\ Handling("delete", i)
    /\ changed' = Noted(i, "-")
    /\ works' = works \o Reads("missing", watch.directories[i].missing_reads)
    /\ inotify' = Handled
    /\ UNCHANGED <<todo, watch, astray>>

\* Mutant: those that asked for missing files are told instead.
EventCloseWriteMissing(i) ==
    /\ Handling("close_write", i)
    /\ works' = works \o Reads("missing", watch.directories[i].missing_reads)
    /\ inotify' = Handled
    /\ UNCHANGED <<todo, changed, watch, astray>>

\* IN_CLOSE_WRITE.
EventCloseWrite(i) ==
    /\ Handling("close_write", i)
    /\ works' = works \o Reads("read", watch.directories[i].reads)
    /\ inotify' = Handled
    /\ UNCHANGED <<todo, changed, watch, astray>>

\* The works that tell the scans of a directory about its changes.
Changes(x, list) == [j \in 1 .. Len(x.scans) |-> Change(x.scans[j], x.dir, list)]

\* The scans of one of the directories.
ScansOf(dirs) ==
    UNION {ToSet(watch.directories[i].scans) :
                i \in {j \in 1 .. Len(watch.directories) : watch.directories[j].dir \in dirs}}

\* The scans that changes c are kept from, or wrongly told to, as they are told to
\* those of directory d.
Misled(c, d) ==
    LET of == {c.list[j].of : j \in 1 .. Len(c.list)}
    IN  IF of = {d} THEN {} ELSE ScansOf(of \cup {d})

\* IN_DELETE_SELF: its changes are passed on and its alias has a user less.
EventDeleteSelf(i) ==
    /\ Handling("delete_self", i)
    /\ LET x == watch.directories[i]
           j == SelectInSeq(changed, LAMBDA c : c.at = Address(i))
       IN  /\ works' = IF j = 0 THEN works ELSE works \o Changes(x, changed[j].list)
           /\ changed' = IF j = 0 THEN changed ELSE WithoutAt(changed, j)
           /\ astray' = IF j = 0 THEN astray ELSE astray \cup Misled(changed[j], x.dir)
           /\ Becomes(decrement_alias([w |-> watch, k |-> Handled], x.dir))
    /\ UNCHANGED todo

\* The Directory at the address that an entry refers to, or None.
Addressed(c) ==
    IF c.at.cap = watch.cap /\ c.at.slot <= Len(watch.directories)
    THEN watch.directories[c.at.slot] ELSE None

\* After the last event of the buffer its changes are passed on.  An entry
\* whose address is not that of a Directory any more reads freed storage or one
\* that has been moved from; what it finds there has no scans.
post_changes ==
    /\ thread.pc = "notify" /\ todo = <<>> /\ thread.batch = 0
    /\ changed # <<>>
    /\ works' = works \o FlattenSeq([j \in 1 .. Len(changed) |->
            IF Addressed(changed[j]) = None THEN <<>>
            ELSE Changes(Addressed(changed[j]), changed[j].list)])
    /\ astray' = astray \cup UNION {
            Misled(changed[j], IF Addressed(changed[j]) = None THEN None ELSE Addressed(changed[j]).dir) :
                j \in 1 .. Len(changed)}
    /\ changed' = <<>>
    /\ UNCHANGED <<disk, version, inotify, clientVars, thread, todo, registry, watches, watch,
                   data, running>>

\* No more events; a closed pipe ends the thread.
NoMoreEvents ==
    /\ thread.pc = "notify" /\ todo = <<>> /\ thread.batch = 0 /\ changed = <<>>
    /\ inotify.events = <<>>
    /\ thread' = [thread EXCEPT !.pc = IF thread.terminate THEN "exit" ELSE "poll"]
    /\ UNCHANGED <<disk, version, inotify, clientVars, todo, changed, registry, watches, watch,
                   workerVars>>

\* ~watch_impl: aliases, directories and watches are cleared.
clear_watches ==
    /\ thread.pc = "exit"
    /\ thread' = [thread EXCEPT !.pc = "gone"]
    /\ watches' = [t \in Tokens |-> None]
    /\ watch' = [alias |-> [d \in Dirs |-> None], directories |-> <<>>, cap |-> watch.cap]
    /\ inotify' = [inotify EXCEPT !.wd = [d \in Dirs |-> None], !.events = <<>>]
    /\ UNCHANGED <<disk, version, clientVars, todo, changed, registry, workerVars>>

Events ==
    \/ read_events \/ EventUnknown
    \/ \E i \in 1 .. Len(watch.directories) :
            EventMkdir(i) \/ EventCreate(i) \/ EventDelete(i) \/ EventCloseWrite(i) \/ EventDeleteSelf(i)
    \/ post_changes \/ NoMoreEvents

file_watch == Poll \/ Requests \/ Drained \/ Events \/ clear_watches

-----------------------------------------------------------------------------
(* The works.  `seen` is what the callback of a read or write was last     *)
(* given.                                                                  *)

\* What a callback is given of a file that it cannot have the content of.
Missing == 0

Running(op) ==
    /\ running = None
    /\ works # <<>> /\ Head(works).op = op
    /\ works' = Tail(works)
    /\ UNCHANGED <<clientVars, thread, todo, changed, registry, watches, watch, astray>>

FileMissingWork ==
    /\ Running("missing")
    /\ data' = [data EXCEPT ![Head(works).token].seen = Missing]
    /\ UNCHANGED <<disk, version, inotify, running>>

\* read_file: a file that is not there or empty, which cannot be mapped, is
\* reported like a missing one.
FileReadWork ==
    /\ Running("read")
    /\ LET t == Head(works).token
           content == disk.content[data[t].file]
       IN  data' = [data EXCEPT ![t].seen = IF content \in {None, 0} THEN Missing ELSE content]
    /\ UNCHANGED <<disk, version, inotify, running>>

\* The callback of scan t is given the files that exist; the file system keeps
\* them to tell which have gone by the next time (remove_duplicates).
Report(t, files) == data' = [data EXCEPT ![t].files = files]

\* The files after a change to one of them in directory d (add_file, remove_file).
Applied(files, d, e) ==
    IF e.sign = "+" THEN files \cup {<<d, e.name>>} ELSE files \ {<<d, e.name>>}

ScanChangeWork ==
    /\ Running("change")
    /\ LET x == Head(works)
       IN  Report(x.token, FoldLeft(LAMBDA files, e : Applied(files, x.dir, e), data[x.token].files, x.list))
    /\ UNCHANGED <<disk, version, inotify, running>>

ScanOnceWork ==
    /\ Running("scan")
    /\ Report(Head(works).token, FilesIn(data[Head(works).token].dir))
    /\ UNCHANGED <<disk, version, inotify, running>>

ScanRecursiveWork ==
    /\ Running("recursive")
    /\ running' = [op |-> "scan", token |-> Head(works).token, files |-> {},
                   dirs |-> <<data[Head(works).token].dir>>]
    /\ UNCHANGED <<disk, version, inotify, data>>

\* scan_directory, for one directory, the last found.  One that is gone ends
\* the scan with what it has.
scan_directory ==
    /\ running # None /\ running.op = "scan"
    /\ running.dirs # <<>>
    /\ LET d == Last(running.dirs)
           gone == d \notin disk.dirs
       IN  /\ astray' = IF gone THEN astray \cup {running.token} ELSE astray
           /\ running' = IF gone THEN [running EXCEPT !.dirs = <<>>]
                      ELSE [running EXCEPT !.dirs = Front(@) \o SetToSeq(Children(d)),
                                           !.files = @ \cup FilesIn(d)]
    /\ UNCHANGED <<disk, version, inotify, clientVars, thread, todo, changed, registry, watches,
                   watch, data, works>>

ScanRecursiveReport ==
    /\ running # None /\ running.op = "scan"
    /\ running.dirs = <<>>
    /\ Report(running.token, running.files)
    /\ running' = None
    /\ UNCHANGED <<disk, version, inotify, clientVars, thread, todo, changed, registry, watches,
                   watch, works, astray>>

\* write_file until the file is open: "new" must not exist, to append it must.
FileWriteWork ==
    /\ Running("write")
    /\ LET t == Head(works).token
           r == data[t]
           opens == /\ r.file[1] \in disk.dirs
                    /\ r.mode = "new" => ~Exists(r.file)
                    /\ r.mode = "append" => Exists(r.file)
       IN  IF opens
           THEN /\ Open(r.file, IF r.mode = "append" THEN disk.content[r.file] ELSE 0)
                /\ running' = [op |-> "write", token |-> t]
                /\ UNCHANGED data
           ELSE /\ data' = [data EXCEPT ![t].seen = Missing]
                /\ UNCHANGED <<disk, inotify, running>>
    /\ UNCHANGED version

write_file ==
    /\ running # None /\ running.op = "write"
    /\ Close(data[running.token].file)
    /\ data' = [data EXCEPT ![running.token].seen = version + 1]
    /\ running' = None
    /\ UNCHANGED <<clientVars, thread, todo, changed, registry, watches, watch, works, astray>>

Scheduler ==
    \/ FileMissingWork \/ FileReadWork
    \/ ScanChangeWork \/ ScanOnceWork \/ ScanRecursiveWork \/ scan_directory \/ ScanRecursiveReport
    \/ FileWriteWork \/ write_file

Next == Client \/ Other \/ file_watch \/ Scheduler

Spec == Init /\ [][Next]_vars

\* The thread and the scheduler go on as long as there is something to do.
FairSpec == Spec /\ WF_vars(file_watch) /\ WF_vars(Scheduler)

-----------------------------------------------------------------------------
(* Properties.                                                             *)

\* Every alias leads to a registered directory, which is shared by as many
\* aliases as its share_count says (debug_asserts on directory_it in
\* process_read, process_scan and process_write).
RegistryCounts ==
    \A d \in Dirs :
        LET users == {a \in Aliases : registry.alias[a] = d}
            x == registry.directory[d]
        IN  IF x = None THEN users = {}
            ELSE Cardinality(users) = IF x.temporary THEN 1 ELSE x.share_count + 1

\* The watch's tables and the kernel's agree: what the kernel watches has an
\* alias, of that number, whose use_count is the number of reads and scans in
\* its Directory (the debug_asserts of get_directory and decrement_alias);
\* what has no users has no Directory and is not watched.
UseCounts ==
    \A d \in Dirs :
        LET i == SlotOfDir(watch, d)
            x == watch.directories[i]
        IN  IF watch.alias[d] = None
            THEN inotify.wd[d] = None /\ ~\E j \in 1 .. Len(watch.directories) : watch.directories[j].dir = d
            ELSE /\ i # 0 /\ x.dir = d
                 /\ watch.alias[d].use_count > 0
                 /\ inotify.wd[d] # None =>
                        /\ inotify.wd[d] = watch.alias[d].wd
                        /\ watch.alias[d].use_count = Len(x.reads) + Len(x.scans)

\* Both: the tables of the file system, of the watch and of the kernel agree.
TablesAgree == RegistryCounts /\ UseCounts

Quiet ==
    /\ pipe = <<>> /\ thread.pc = "poll" /\ inotify.events = <<>>
    /\ works = <<>> /\ running = None

\* d was deleted while it had several users: IN_DELETE_SELF takes one of them
\* away, and for the others d stays in the tables with the number of a watch that
\* the kernel has no more, also when d is made again.
Deaf(d) == watch.alias[d] # None /\ inotify.wd[d] # watch.alias[d].wd

\* The request is watched, its directory was there to be watched, and neither
\* that nor, if it is recursive, one below it is deaf.
Attached(t, kind, field, d) ==
    /\ watches[t] = kind
    /\ \E i \in 1 .. Len(watch.directories) :
            watch.directories[i].dir = d /\ Contains(watch.directories[i][field], t)
    /\ ~Deaf(d)
    /\ kind = "recursive" => ~\E c \in Dirs : Below(c, d) /\ Deaf(c)

\* When nothing is left to do, every scan that is attached and has not gone
\* astray has the files that are there: the changes it was told about, in the
\* order of the events, and the scans it made in between add up to what is on the
\* disk.
ScanConverges ==
    Quiet => \A t \in Tokens \ astray :
        /\ Attached(t, "scan", "scans", data[t].dir) => data[t].files = FilesIn(data[t].dir)
        /\ Attached(t, "recursive", "recursive_scans", data[t].dir)
                => data[t].files = {f \in Files : Exists(f) /\ Below(f[1], data[t].dir)}

\* When nothing is left to do, every read that is attached has last been given
\* the file's content; a file that is gone is missing to those that asked for it.
ReadConverges ==
    Quiet => \A t \in Tokens :
        LET f == data[t].file
        IN  Attached(t, "read", "reads", f[1]) =>
                IF disk.content[f] \in {None, 0}
                THEN Attached(t, "read", "missing_reads", f[1]) => data[t].seen = Missing
                ELSE data[t].seen = disk.content[f]

\* Both: whatever is watched is up to date when nothing is left to do, but for
\* deaf directories, scans that gave up because a directory went while they were at
\* it, and scans misled by changes whose Directory moved before they were posted.
WatchesConverge == ScanConverges /\ ReadConverges

\* The last content written to a file that is read and watched is reported, as
\* long as its directory is not deleted.
ContentReported ==
    \A t \in Tokens :
        LET f == data[t].file
        IN  <>[](Attached(t, "read", "reads", f[1])
                        /\ disk.content[f] \notin {None, 0}
                    => data[t].seen = disk.content[f])

\* The destructor returns: the thread ends once the pipe is closed.
DestructReturns == closed ~> thread.pc = "gone"

=============================================================================

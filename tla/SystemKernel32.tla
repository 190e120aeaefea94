--------------------------- MODULE SystemKernel32 ----------------------------
(***************************************************************************)
(* The file system of the Windows build (system_kernel32.cpp) and its      *)
(* watches (watch_kernel32.cpp).  Every call is queued to a thread as an   *)
(* asynchronous procedure call; directory changes complete on the same     *)
(* thread; callbacks run as works of a strand.  The state is one record:   *)
(*                                                                         *)
(*   directories, aliases       what is registered, by path and by name    *)
(*   watches, data              watches by id, and their Read/ScanData     *)
(*   entries, heap              watch aliases, and WatchData by address    *)
(*   apcs, works                the thread's queue and the strand's        *)
(*   disk, exists, clock        the files with their write times           *)
(*   open                       files that another process has for itself  *)
(*   dangling                   the deleted WatchData that has been used   *)
(*   unlisted, unread           names that were renamed: what is there has *)
(*                              changed, and no ADDED or REMOVED record    *)
(*                              (no MODIFIED or REMOVED one) said so since *)
(*                                                                         *)
(* A file is a pair of its directory and its name.  The works of one       *)
(* strand run one at a time.  Directories are not renamed, and are removed *)
(* by others when they are empty only.                                     *)
(***************************************************************************)
EXTENDS Integers, Sequences, SequencesExt, FiniteSets, FiniteSetsExt

CONSTANTS
    DiskDirs,       \* directories
    DiskBelow,      \* <<directory, ancestor>> pairs
    DiskFiles,      \* the files that may be there
    DiskRoot,       \* what the system is constructed with
    TempDir,        \* what GetTempFileNameW makes up
    CallScripts,    \* what the client may call
    MaxDiskChanges, \* bound: changes by other processes
    MaxEvents       \* bound: std::aligned_storage_t<1024, ...> in records

VARIABLES
    k32,
    calls,          \* what the client has still to call
    diskChanges,
    terminate       \* hTerminateEvent is "unset", "set", or has "ended" the thread

kernel32Vars == <<k32, calls, diskChanges, terminate>>

\* What a read callback was last told: a write time, or one of these.
Nothing == 0
Missing == -1

working_directory == "working"

Put32(f, key, value) == (key :> value) @@ f
Drop32(f, key) == [x \in DOMAIN f \ {key} |-> f[x]]

-----------------------------------------------------------------------------
(* ReadDirectoryChangesW: the system keeps the changes for a handle that   *)
(* no call waits for, as many as fit.  Whether the tree is watched is said *)
(* by the first call on the handle.                                        *)

Watched(wd, file) == file[1] = wd.dir \/ (wd.tree /\ <<file[1], wd.dir>> \in DiskBelow)

Completed(k, addr, result, buffer) ==
    [k EXCEPT !.heap[addr].io = result, !.heap[addr].buffer = buffer,
              !.apcs = Append(@, [call |-> "completion", addr |-> addr])]

ReadDirectoryChangesW(k, addr) ==
    LET wd == k.heap[addr]
        asked == [k EXCEPT !.heap[addr].io = "pending", !.heap[addr].kept = <<>>]
    IN IF wd.kept = <<>> THEN asked
       ELSE IF Len(wd.kept) > MaxEvents THEN Completed([asked EXCEPT !.heap[addr].lost = TRUE], addr, "overflow", <<>>)
       ELSE Completed(asked, addr, "changes", wd.kept)

\* One change, as the handles see it.
Changed(k, action, file) ==
    LET told == [k EXCEPT !.unlisted = IF action \in {"ADDED", "REMOVED"} THEN @ \ {file} ELSE @,
                          !.unread = IF action \in {"MODIFIED", "REMOVED"} THEN @ \ {file} ELSE @]
        tell(addr, j) ==
            LET wd == j.heap[addr] IN
            CASE ~wd.alive \/ wd.gone \/ ~Watched(wd, file) -> j
              [] wd.alive /\ ~wd.gone /\ Watched(wd, file) /\ wd.io = "pending" -> Completed(j, addr, "changes", <<<<action, file>>>>)
              [] OTHER -> [j EXCEPT !.heap[addr].kept = IF Len(@) > MaxEvents THEN @ ELSE Append(@, <<action, file>>)]
    IN FoldRight(tell, [i \in 1 .. Len(k.heap) |-> i], told)

\* A file is written; one that was not there is added first.
Written(k, file) ==
    LET added == IF file \in DOMAIN k.disk THEN k ELSE Changed(k, "ADDED", file)
    IN Changed([added EXCEPT !.disk = Put32(@, file, k.clock), !.clock = @ + 1], "MODIFIED", file)

Deleted(k, file) == Changed([k EXCEPT !.disk = Drop32(@, file)], "REMOVED", file)

\* A file gets a name that is free.  Within its directory both names are told as renamed;
\* otherwise it is removed from one and added, not modified, in the other.
Renamed(k, old, new) ==
    LET moved == [k EXCEPT !.disk = Put32(Drop32(@, old), new, k.disk[old])]
        told == IF old[1] = new[1] THEN Changed(Changed(moved, "RENAMED_OLD_NAME", old), "RENAMED_NEW_NAME", new)
                ELSE Changed(Changed(moved, "REMOVED", old), "ADDED", new)
        names == IF old[1] = new[1] THEN {old, new} ELSE {}
    IN [told EXCEPT !.unlisted = @ \cup names, !.unread = @ \cup names \cup {new}]

\* A directory is removed: what waits for changes of it ends, and nothing waits for it again.
Removed(k, dir) ==
    LET lost(addr, j) ==
            IF ~j.heap[addr].alive \/ j.heap[addr].dir # dir THEN j
            ELSE LET gone == [j EXCEPT !.heap[addr].gone = TRUE]
                 IN IF j.heap[addr].io = "pending" THEN Completed(gone, addr, "aborted", <<>>) ELSE gone
    IN FoldRight(lost, [i \in 1 .. Len(k.heap) |-> i], [k EXCEPT !.exists = @ \ {dir}])

-----------------------------------------------------------------------------
(* WatchData.                                                              *)

make_asset(dir, recurse) == <<dir, recurse>>

WatchData(dir, recurse) ==
    [dir |-> dir, tree |-> recurse, reads |-> <<>>, missing_reads |-> <<>>, scans |-> <<>>,
     io |-> "none", buffer |-> <<>>, kept |-> <<>>, lost |-> FALSE,
     alive |-> TRUE, gone |-> FALSE, again |-> FALSE]

\* Using one that is deleted is undefined: nothing more is said than that it happened.
Use(k, addr, after) == IF k.heap[addr].alive THEN after ELSE [k EXCEPT !.dangling = @ \cup {addr}]

\* CancelIoEx finds nothing where the completion is queued already.
stop_watch(k, addr) ==
    Use(k, addr, IF k.heap[addr].io = "pending" THEN Completed(k, addr, "aborted", <<>>) ELSE k)

\* The alias stays, with the address.
decrement_alias(k, asset) ==
    LET less == [k EXCEPT !.entries[asset].use_count = @ - 1]
    IN IF less.entries[asset].use_count <= 0 THEN stop_watch(less, less.entries[asset].watch_data) ELSE less

get_directory(k, asset) == IF asset \in DOMAIN k.entries THEN k.entries[asset].watch_data ELSE 0

get_or_create_directory(k, asset) ==
    IF asset \in DOMAIN k.entries
    THEN [k EXCEPT !.entries[asset].use_count = @ + 1,
                   !.heap[k.entries[asset].watch_data].again = @ \/ k.entries[asset].use_count <= 0]
    ELSE IF asset[1] \notin k.exists THEN k
    ELSE LET addr == Len(k.heap) + 1
             started == [k EXCEPT !.heap = Append(@, WatchData(asset[1], asset[2])),
                                  !.entries = Put32(@, asset, [watch_data |-> addr, use_count |-> 1])]
         IN ReadDirectoryChangesW(started, addr)

add_file_watch(k, id, report_missing) ==
    LET asset == make_asset(k.data[id].file[1], FALSE)
        found == get_or_create_directory([k EXCEPT !.watches = Put32(@, id, [type |-> "ReadWatch", asset |-> asset])], asset)
        addr == get_directory(found, asset)
    IN IF id \in DOMAIN k.watches THEN k
       ELSE IF addr = 0 THEN found
       ELSE Use(found, addr,
                [found EXCEPT !.heap[addr].reads = Append(@, id),
                              !.heap[addr].missing_reads = IF report_missing THEN Append(@, id) ELSE @])

add_scan_watch(k, id, recurse) ==
    LET asset == make_asset(k.data[id].dir, recurse)
        found == get_or_create_directory([k EXCEPT !.watches = Put32(@, id, [type |-> "ScanWatch", asset |-> asset])], asset)
        addr == get_directory(found, asset)
    IN IF id \in DOMAIN k.watches THEN k
       ELSE IF addr = 0 THEN found
       ELSE Use(found, addr, [found EXCEPT !.heap[addr].scans = Append(@, id)])

remove_watch(k, id) ==
    IF id \notin DOMAIN k.watches THEN k
    ELSE LET asset == k.watches[id].asset
             addr == get_directory(k, asset)
             gone == [k EXCEPT !.watches = Drop32(@, id)]
             without == [gone EXCEPT !.heap[addr].reads = SelectSeq(@, LAMBDA i : i # id),
                                     !.heap[addr].missing_reads = SelectSeq(@, LAMBDA i : i # id),
                                     !.heap[addr].scans = SelectSeq(@, LAMBDA i : i # id)]
         IN IF addr = 0 THEN gone
            ELSE Use(gone, addr, IF without = gone THEN gone ELSE decrement_alias(without, asset))

\* Every scan gets its copy of the changes.
ScanChanges(k, addr, changes) ==
    [k EXCEPT !.works = @ \o [i \in 1 .. Len(k.heap[addr].scans) |->
        [work |-> "ScanChangeWork", id |-> k.heap[addr].scans[i], changes |-> changes]]]

\* What one record of the buffer makes the completion routine post.
Posted(k, addr, change) ==
    LET about(ids, work) == [i \in 1 .. Len(SelectSeq(ids, LAMBDA d : k.data[d].file = change[2])) |->
                                [work |-> work, id |-> SelectSeq(ids, LAMBDA d : k.data[d].file = change[2])[i]]]
    IN CASE change[1] = "MODIFIED" -> about(k.heap[addr].reads, "FileReadWork")
         [] change[1] = "REMOVED" -> about(k.heap[addr].missing_reads, "FileMissingWork")
         [] change[1] \in {"ADDED", "RENAMED_OLD_NAME", "RENAMED_NEW_NAME"} -> <<>>

\* The routine owns the WatchData: it asks for more, or it deletes.
Completion(k, addr) ==
    LET wd == k.heap[addr]
        deleted == [k EXCEPT !.heap[addr].alive = FALSE]
        again(j) == IF ~wd.gone THEN ReadDirectoryChangesW(j, addr) ELSE [j EXCEPT !.heap[addr].alive = FALSE]
        posted == [k EXCEPT !.works = @ \o FlattenSeq([i \in 1 .. Len(wd.buffer) |-> Posted(k, addr, wd.buffer[i])])]
        changes == SelectSeq(wd.buffer, LAMBDA c : c[1] \in {"ADDED", "REMOVED"})
    IN CASE wd.io = "aborted" -> deleted
         [] wd.io = "overflow" ->
              again([k EXCEPT !.works = @ \o [i \in 1 .. Len(wd.scans) |-> [work |-> "ScanRecursiveWork", id |-> wd.scans[i]]]])
         [] wd.io = "changes" -> again(IF changes = <<>> THEN posted ELSE ScanChanges(posted, addr, changes))

-----------------------------------------------------------------------------
(* Calls, on the thread.                                                   *)

\* The path has no "." or "..": it names a directory below the parent, or none.
validate_filepath(path) == path \in DiskDirs

RegisterDirectory(k, x) ==
    IF x.alias \in DOMAIN k.aliases \/ x.parent \notin DOMAIN k.aliases \/ ~validate_filepath(x.path) THEN k
    ELSE [k EXCEPT !.directories = Put32(@, x.path, IF x.path \in DOMAIN @ THEN @[x.path] + 1 ELSE 0),
                   !.aliases = Put32(@, x.alias, x.path)]

RegisterTemporaryDirectory(k, x) ==
    [k EXCEPT !.exists = @ \cup {TempDir}, !.directories = Put32(@, TempDir, 0), !.aliases = Put32(@, x.alias, TempDir)]

\* Its files are deleted, and then the directory.
purge_temporary_directory(k) ==
    Removed(FoldSet(LAMBDA file, j : Deleted(j, file), k, {f \in DOMAIN k.disk : f[1] = TempDir}), TempDir)

UnregisterDirectory(k, x) ==
    IF x.alias \notin DOMAIN k.aliases THEN k
    ELSE LET path == k.aliases[x.alias]
             left == [k EXCEPT !.aliases = Drop32(@, x.alias),
                               !.directories = IF path = TempDir \/ @[path] = 0 THEN Drop32(@, path) ELSE [@ EXCEPT ![path] = @ - 1]]
         IN IF path = TempDir THEN purge_temporary_directory(left) ELSE left

Read(k, x) ==
    IF x.directory \notin DOMAIN k.aliases THEN k
    ELSE LET made == [k EXCEPT !.data = Put32(@, x.id, [file |-> <<k.aliases[x.directory], x.name>>, time |-> 0, seen |-> Nothing,
                                                        missing |-> x.report_missing, refused |-> FALSE])]
             watching == IF x.watch THEN add_file_watch(made, x.id, x.report_missing) ELSE made
         IN [watching EXCEPT !.works = Append(@, [work |-> "FileReadWork", id |-> x.id])]

RemoveWatch(k, x) == remove_watch(k, x.id)

Scan(k, x) ==
    IF x.directory \notin DOMAIN k.aliases THEN k
    ELSE LET made == [k EXCEPT !.data = Put32(@, x.id, [dir |-> k.aliases[x.directory], files |-> {}, told |-> FALSE, existing |-> {}, removed |-> {}])]
             watching == IF x.watch THEN add_scan_watch(made, x.id, x.recurse) ELSE made
         IN [watching EXCEPT !.works = Append(@, [work |-> IF x.recurse THEN "ScanRecursiveWork" ELSE "ScanOnceWork", id |-> x.id])]

Write(k, x) ==
    IF x.directory \notin DOMAIN k.aliases THEN k
    ELSE LET file == <<x.path, x.name>>
         IN [k EXCEPT !.exists = IF x.create THEN @ \cup {x.path} ELSE @,
                      !.works = Append(@, [work |-> "FileWriteWork", file |-> file, overwrite |-> x.overwrite])]

Process(k, x) ==
    CASE x.call = "completion" -> Use(k, x.addr, Completion(k, x.addr))
      [] x.call = "register_directory" -> RegisterDirectory(k, x)
      [] x.call = "register_temporary_directory" -> RegisterTemporaryDirectory(k, x)
      [] x.call = "unregister_directory" -> UnregisterDirectory(k, x)
      [] x.call = "read" -> Read(k, x)
      [] x.call = "scan" -> Scan(k, x)
      [] x.call = "write" -> Write(k, x)
      [] x.call = "remove_watch" -> RemoveWatch(k, x)

-----------------------------------------------------------------------------
(* Works, on the strand.                                                   *)

scan_directory(k, dir, recurse) ==
    {f \in DOMAIN k.disk : f[1] = dir \/ (recurse /\ <<f[1], dir>> \in DiskBelow)}

\* The callback is told the files there are, and the ones that were there before.
remove_duplicates(files, duplicates) == files \ duplicates

Scanned(k, id, files) ==
    [k EXCEPT !.data[id].files = files, !.data[id].told = TRUE, !.data[id].existing = files,
              !.data[id].removed = remove_duplicates(k.data[id].files, files)]

add_file(files, file) == files \cup {file}
remove_file(files, file) == files \ {file}

ScanChangeWork(k, w) ==
    Scanned(k, w.id, FoldLeft(LAMBDA files, c : IF c[1] = "ADDED" THEN add_file(files, c[2]) ELSE remove_file(files, c[2]),
                              k.data[w.id].files, w.changes))

ScanOnceWork(k, w) == Scanned(k, w.id, scan_directory(k, k.data[w.id].dir, FALSE))
ScanRecursiveWork(k, w) == Scanned(k, w.id, scan_directory(k, k.data[w.id].dir, TRUE))

\* A file that is not there, or that another process has open (ERROR_SHARING_VIOLATION), is
\* no failure, and one with the same time is not read again.
read_file(k, id) ==
    LET file == k.data[id].file
        tried == [k EXCEPT !.data[id].refused = file \in k.open]
    IN IF file \notin DOMAIN k.disk \ k.open \/ k.disk[file] = k.data[id].time THEN tried
       ELSE [tried EXCEPT !.data[id].time = k.disk[file], !.data[id].seen = k.disk[file]]

FileReadWork(k, w) == read_file(k, w.id)

\* Mutant: the write time stays what it was.
FileMissingWorkTimeless(k, w) == [k EXCEPT !.data[w.id].seen = Missing]

FileMissingWork(k, w) ==
    IF k.data[w.id].time = -1 THEN k
    ELSE [k EXCEPT !.data[w.id].time = -1, !.data[w.id].seen = Missing]

\* CREATE_NEW refuses a file that is there; append and overwrite do not.  A file that another
\* process has open is not shared for writing.
write_file(k, file, overwrite) ==
    IF file[1] \notin k.exists \/ file \in k.open \/ (file \in DOMAIN k.disk /\ ~overwrite) THEN k ELSE Written(k, file)

FileWriteWork(k, w) == write_file(k, w.file, w.overwrite)

Work(k, w) ==
    CASE w.work = "FileReadWork" -> FileReadWork(k, w)
      [] w.work = "FileMissingWork" -> FileMissingWork(k, w)
      [] w.work = "FileWriteWork" -> FileWriteWork(k, w)
      [] w.work = "ScanChangeWork" -> ScanChangeWork(k, w)
      [] w.work = "ScanOnceWork" -> ScanOnceWork(k, w)
      [] w.work = "ScanRecursiveWork" -> ScanRecursiveWork(k, w)

-----------------------------------------------------------------------------

Kernel32Init ==
    /\ k32 = [directories |-> DiskRoot :> 0, aliases |-> working_directory :> DiskRoot,
              watches |-> <<>>, data |-> <<>>, entries |-> <<>>, heap |-> <<>>,
              apcs |-> <<>>, works |-> <<>>,
              disk |-> <<>>, exists |-> DiskDirs, clock |-> 1, open |-> {}, dangling |-> {},
              unlisted |-> {}, unread |-> {}]
    /\ calls \in CallScripts
    /\ diskChanges = 0
    /\ terminate = "unset"

try_queue_apc ==
    /\ calls # <<>>
    /\ k32' = [k32 EXCEPT !.apcs = Append(@, Head(calls))]
    /\ calls' = Tail(calls)
    /\ UNCHANGED <<diskChanges, terminate>>

\* An alertable wait: what is queued runs, or the event ends it.
RunApc ==
    /\ terminate # "ended" /\ k32.apcs # <<>> /\ k32.dangling = {}
    /\ k32' = Process([k32 EXCEPT !.apcs = Tail(@)], Head(k32.apcs))
    /\ UNCHANGED <<calls, diskChanges, terminate>>

RunWork ==
    /\ k32.works # <<>>
    /\ k32' = Work([k32 EXCEPT !.works = Tail(@)], Head(k32.works))
    /\ UNCHANGED <<calls, diskChanges, terminate>>

\* Another process writes a file at once, or has it open for a while, writing when it opens
\* it, when it closes it, or never; deletes it, renames it, or removes or creates a directory.
DiskChange ==
    /\ diskChanges < MaxDiskChanges
    /\ \/ \E file \in DiskFiles \ k32.open :
              \/ file[1] \in k32.exists /\ k32' \in {Written(k32, file), [Written(k32, file) EXCEPT !.open = @ \cup {file}]}
              \/ /\ file \in DOMAIN k32.disk
                 /\ \/ k32' \in {Deleted(k32, file), [k32 EXCEPT !.open = @ \cup {file}]}
                    \/ \E name \in DiskFiles \ DOMAIN k32.disk : name[1] \in k32.exists /\ k32' = Renamed(k32, file, name)
       \/ \E file \in k32.open : LET closed == [k32 EXCEPT !.open = @ \ {file}] IN k32' \in {closed, Written(closed, file)}
       \/ \E dir \in k32.exists \ {DiskRoot} : (\A f \in DOMAIN k32.disk : f[1] # dir) /\ k32' = Removed(k32, dir)
       \/ \E dir \in DiskDirs \ k32.exists : k32' = [k32 EXCEPT !.exists = @ \cup {dir}]
    /\ diskChanges' = diskChanges + 1
    /\ UNCHANGED <<calls, terminate>>

Kernel32Destruct ==
    /\ calls = <<>> /\ terminate = "unset"
    /\ terminate' = "set"
    /\ UNCHANGED <<k32, calls, diskChanges>>

file_watch ==
    /\ terminate = "set"
    /\ terminate' = "ended"
    /\ UNCHANGED <<k32, calls, diskChanges>>

Kernel32Next == try_queue_apc \/ RunApc \/ RunWork \/ DiskChange \/ Kernel32Destruct \/ file_watch

-----------------------------------------------------------------------------
(* Properties.                                                             *)

\* Everything that was called and everything that changed has been handled.
Kernel32Settled == terminate # "ended" /\ calls = <<>> /\ k32.apcs = <<>> /\ k32.works = <<>>

\* A watch that got a WatchData, unless that was deleted with its directory, or was being
\* stopped already when the watch was added; from which no changes were lost unless the watch
\* is a scan of a whole tree: only such a scan is made up for them.
Served(id) ==
    LET watch == k32.watches[id]
        addr == get_directory(k32, watch.asset)
        wd == k32.heap[addr]
    IN addr # 0 /\ (wd.gone \/ wd.again => wd.alive) /\ (wd.lost => watch.type = "ScanWatch" /\ watch.asset[2])

\* When everything has been handled, every watch that is served agrees with the disk: a scan
\* has exactly the files of its directory, and a read has the file's latest content, or knows
\* that it is missing; whether a change came before the watch, between the watch and the
\* first work, between two changes of a buffer or while the buffer overflowed (for which only
\* scans of whole trees make up).  Except that a name that was renamed is not looked at
\* again before it is told as something else, and a read that was refused because another
\* process had the file is not tried again.
Kernel32Converges ==
    Kernel32Settled /\ k32.dangling = {} =>
        \A id \in DOMAIN k32.watches :
            LET watch == k32.watches[id]
                d == k32.data[id]
            IN CASE watch.type = "ScanWatch" ->
                      Served(id) => d.told /\ SymDiff(d.existing, scan_directory(k32, d.dir, watch.asset[2])) \subseteq k32.unlisted
                 [] watch.type = "ReadWatch" ->
                      Served(id) /\ ~d.refused /\ d.file \notin k32.unread =>
                          IF d.file \in DOMAIN k32.disk THEN d.seen = k32.disk[d.file]
                          ELSE d.missing => d.seen \in {Nothing, Missing}

\* "note owned by the completion routine": neither the routine itself nor add_file_watch,
\* add_scan_watch or remove_watch uses a WatchData that was deleted, whatever changes come
\* while it is cancelled.  Except where nothing tells the alias that its WatchData is gone:
\* of a directory that was removed (by another process, or as a temporary one before its
\* watches were), and of one that was watched again after its last watch was removed.
WatchDataAlive == \A addr \in k32.dangling : k32.heap[addr].gone \/ k32.heap[addr].again

\* Both: what is watched is up to date in the end, and nothing was used after it was
\* deleted on the way, but for the cases that are named (watch_kernel32.cpp's completion routines).
Kernel32Watches == Kernel32Converges /\ WatchDataAlive

=============================================================================

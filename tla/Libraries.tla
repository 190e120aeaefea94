------------------------------ MODULE Libraries ------------------------------
(****************************************************************************)
(* The libraries of the file loader: the index from names to files that is  *)
(* kept from the scans of the registered directories, and the messages that *)
(* wait while a directory is being scanned (engine/file/loader.cpp).        *)
(*                                                                          *)
(* A caller posts RegisterLibrary on the loader's strand and then asks the  *)
(* file system for the scan, in two steps; the file system answers the      *)
(* scans in the order asked, and posts one more answer whenever a watched   *)
(* directory changes.  A file is known by its path and by its radical, the  *)
(* path without the extension.  A path is its own asset (no two collide),   *)
(* and the vectors of metas and radicals are sets.                          *)
(****************************************************************************)
EXTENDS Integers, Sequences, FiniteSets, SequencesExt, TLC

CONSTANTS
  LibraryNames,      \* the directories
  LibraryFiles,      \* the paths a directory may hold
  StemOf,            \* [LibraryFiles -> names], NoStem without an extension
  LibraryDisks,      \* the disks to begin with: [LibraryNames -> SUBSET files]
  LibraryListings,   \* orders in which the file system lists files
  LibraryChanges,    \* <<d, f>>: file f comes to or goes from directory d
  LoadNames,         \* the names callers load
  LibraryWatch,      \* whether scans add a watch (a debug build)
  MaxRegistrations, MaxLibraryChanges, MaxLoads   \* bounds

NoStem == "no stem"
NoDirectory == "no directory"

VARIABLES
  index,     \* the loader: files, scanning_directory, delayed_messages, ghosts
  libStrand, \* messages on the strand of the loader
  requests,     \* what the callers asked of the file system, in order
  disk,      \* disk[d]: the files of directory d
  listing,   \* the order in which the file system lists files
  told,      \* told[d]: the files of d the file system last reported
  watched,   \* the directories with a watch
  wanted,    \* the libraries registered by callers and not unregistered
  caller,    \* the library whose scan the registering caller has yet to ask for
  spent      \* [registrations, changes, loads], against the bounds

libraryVars ==
  <<index, libStrand, requests, disk, listing, told, watched, wanted, caller, spent>>

-----------------------------------------------------------------------------
(* The four kinds of file.  metas: the directories that have the path;       *)
(* radicals: the files, with their directories, that have it as radical.     *)

AmbiguousFile(metas, radicals) ==
  [kind |-> "ambiguous", metas |-> metas, radicals |-> radicals]
DirectoryFile == [kind |-> "directory", metas |-> {}, radicals |-> {}]
RadicalFile(r) == [kind |-> "radical", metas |-> {}, radicals |-> {r}]
UniqueFile(d, radicals) ==
  [kind |-> "unique", metas |-> {d}, radicals |-> radicals]

EmptyFiles == [n \in {} |-> DirectoryFile]
EraseFile(files, n) == [m \in DOMAIN files \ {n} |-> files[m]]
PutFile(files, n, file) == (n :> file) @@ files
Kind(files, n) == IF n \in DOMAIN files THEN files[n].kind ELSE "none"

NewIndex ==
  [files |-> EmptyFiles, scanning |-> NoDirectory, delayed |-> <<>>,
   heard |-> [d \in LibraryNames |-> {}], scanned |-> {}, served |-> <<>>,
   tangled |-> FALSE, overrun |-> FALSE, alive |-> TRUE]

(* Files without radicals disappear, one radical makes the name that radical. *)
WithoutMeta(files, n) ==
  LET radicals == files[n].radicals
  IN  IF radicals = {} THEN EraseFile(files, n)
      ELSE IF Cardinality(radicals) = 1
      THEN PutFile(files, n, RadicalFile(CHOOSE r \in radicals : TRUE))
      ELSE PutFile(files, n, AmbiguousFile({}, radicals))

(* The removal of path f of directory d, first under its own name...         *)
RemovePath(files, d, f) ==
  LET metas == files[f].metas \ {d}
  IN  CASE Kind(files, f) = "ambiguous" /\ Cardinality(metas) # 1 ->
             PutFile(files, f, AmbiguousFile(metas, files[f].radicals))
        [] Kind(files, f) = "ambiguous" /\ Cardinality(metas) = 1 ->
             PutFile(files, f, UniqueFile(CHOOSE m \in metas : TRUE,
                                          files[f].radicals))
        [] Kind(files, f) = "unique" -> WithoutMeta(files, f)
        [] OTHER -> files     \* not found, or unreachable

(* ...and then under its radical.  When one file is left of an ambiguous     *)
(* radical the code keeps it under the name of the removed file.             *)
RemoveRadical(files, d, f) ==
  LET s    == StemOf[f]
      left == files[s].radicals \ {<<d, f>>}
  IN  CASE s = NoStem \/ s \notin DOMAIN files -> files
        [] Kind(files, s) = "ambiguous" ->
             IF Cardinality(left) = 1 /\ files[s].metas = {}
             THEN PutFile(EraseFile(files, s), f,
                          RadicalFile(CHOOSE r \in left : TRUE))
             ELSE PutFile(files, s, AmbiguousFile(files[s].metas, left))
        [] Kind(files, s) = "radical" -> EraseFile(files, s)
        [] Kind(files, s) = "unique" ->
             PutFile(files, s, [files[s] EXCEPT !.radicals = left])
        [] OTHER -> files

(* What of the removal the index cannot undo: the misplaced radical, and an  *)
(* entry that is not there to erase (undefined in the code).                 *)
RemoveTangles(files, d, f) ==
  LET s == StemOf[f]
  IN  /\ s # NoStem
      /\ s \in DOMAIN files
      /\ \/ <<d, f>> \notin files[s].radicals
         \/ /\ Kind(files, s) = "ambiguous"
            /\ files[s].metas = {}
            /\ Cardinality(files[s].radicals) = 2

(* A path that is new to the index is also entered under its radical...      *)
AddRadical(files, d, f) ==
  LET s == StemOf[f]
  IN  CASE s = NoStem -> files
        [] s # NoStem /\ s \notin DOMAIN files ->
             PutFile(files, s, RadicalFile(<<d, f>>))
        [] Kind(files, s) = "radical" ->
             PutFile(files, s, AmbiguousFile({}, files[s].radicals \cup {<<d, f>>}))
        [] Kind(files, s) \in {"ambiguous", "unique"} ->
             PutFile(files, s, [files[s] EXCEPT !.radicals = @ \cup {<<d, f>>}])
        [] OTHER -> files

(* ...one that is not new only under its own name.                           *)
AddPath(files, d, f) ==
  CASE Kind(files, f) = "none" ->
         AddRadical(PutFile(files, f, UniqueFile(d, {})), d, f)
    [] Kind(files, f) = "ambiguous" /\ files[f].metas = {} ->
         PutFile(files, f, UniqueFile(d, files[f].radicals))
    [] Kind(files, f) = "ambiguous" /\ files[f].metas # {} ->
         PutFile(files, f, [files[f] EXCEPT !.metas = @ \cup {d}])
    [] Kind(files, f) = "radical" ->
         PutFile(files, f, UniqueFile(d, files[f].radicals))
    [] Kind(files, f) = "unique" /\ d \notin files[f].metas ->
         PutFile(files, f, AmbiguousFile(files[f].metas \cup {d},
                                         files[f].radicals))
    [] OTHER -> files

AddTangles(files, d, f) ==
  /\ StemOf[f] # NoStem
  /\ \/ Kind(files, f) = "radical"
     \/ Kind(files, f) \in {"ambiguous", "unique"} /\ d \notin files[f].metas

-----------------------------------------------------------------------------
(* The messages; after: the libraries registered before the load was posted. *)

MessageRegisterLibrary(d) == [op |-> "register", directory |-> d]
MessageUnregisterLibrary(d) == [op |-> "unregister", directory |-> d]
MessageFileScan(d, existing, removed) ==
  [op |-> "scan", directory |-> d, existing |-> existing, removed |-> removed]
MessageLoad(n, after) ==
  [op |-> "load", name |-> n, after |-> after, id |-> spent.loads + 1]
MessageDestruct == [op |-> "destruct"]

RemoveFile(x, d, f) ==
  [x EXCEPT !.tangled = @ \/ RemoveTangles(RemovePath(x.files, d, f), d, f),
            !.files = RemoveRadical(RemovePath(@, d, f), d, f),
            !.heard[d] = @ \ {f}]

AddFile(x, d, f) ==
  [x EXCEPT !.tangled = @ \/ AddTangles(x.files, d, f),
            !.files = AddPath(@, d, f),
            !.heard[d] = @ \cup {f}]

FileScan(x, m) ==
  LET d       == m.directory
      removed == FoldLeft(LAMBDA y, f : RemoveFile(y, d, f), x, m.removed)
      added   == FoldLeft(LAMBDA y, f : AddFile(y, d, f), removed, m.existing)
  IN  [added EXCEPT !.scanning = NoDirectory, !.scanned = @ \cup {d}]

(* A refused registration has begun the wait for a scan all the same.        *)
RegisterLibrary(x, m) ==
  [x EXCEPT !.scanning = m.directory,
            !.scanned = @ \ {m.directory},
            !.files = IF m.directory \in DOMAIN @ THEN @
                      ELSE PutFile(@, m.directory, DirectoryFile)]

(* The files of the library stay in the index.                               *)
UnregisterLibrary(x, m) ==
  [x EXCEPT !.scanned = @ \ {m.directory},
            !.files = IF Kind(@, m.directory) = "directory"
                      THEN EraseFile(@, m.directory) ELSE @]

find_underlying_file(files, n) ==
  IF Kind(files, n) = "radical" THEN (CHOOSE r \in files[n].radicals : TRUE)[2]
  ELSE n

(* A load is refused unless its name leads to a file that is unique.         *)
LoadFile(x, m) ==
  [x EXCEPT !.served = Append(@,
     [id |-> m.id, early |-> m.after \ x.scanned,
      found |-> LET f == find_underlying_file(x.files, m.name)
                IN  IF Kind(x.files, f) = "unique" THEN f ELSE "refused"])]

process_message(x, m) ==
  CASE m.op = "scan" -> FileScan(x, m)
    [] m.op = "register" -> RegisterLibrary(x, m)
    [] m.op = "unregister" -> UnregisterLibrary(x, m)
    [] m.op = "load" -> LoadFile(x, m)

IsScanOf(m, d) == m.op = "scan" /\ m.directory = d

(* The delayed messages after a scan: in order, until one starts a new scan. *)
(* If that scan has been answered too, among the messages that are left, the *)
(* code takes the answer out and reads on to the end as it was before: the   *)
(* last thing it reads is no message any more.                               *)
RECURSIVE ProcessDelayed(_)
ProcessDelayed(x) ==
  IF x.delayed = <<>> THEN x
  ELSE LET m == Head(x.delayed)
           y == process_message([x EXCEPT !.delayed = Tail(@)], m)
       IN  IF m.op # "register" THEN ProcessDelayed(y)
           ELSE [y EXCEPT !.overrun = @ \/ \E i \in DOMAIN y.delayed :
                                             IsScanOf(y.delayed[i], y.scanning)]

(* Mutant: the messages behind a registration do not wait for its scan.     *)
RECURSIVE ProcessAllDelayed(_)
ProcessAllDelayed(x) ==
  IF x.delayed = <<>> THEN x
  ELSE ProcessAllDelayed(process_message([x EXCEPT !.delayed = Tail(@)],
                                         Head(x.delayed)))

loader_update_hasty(x, m) ==
  IF x.scanning = NoDirectory THEN process_message(x, m)
  ELSE IF IsScanOf(m, x.scanning) THEN ProcessAllDelayed(process_message(x, m))
  ELSE [x EXCEPT !.delayed = Append(@, m)]

loader_update(x, m) ==
  IF x.scanning = NoDirectory THEN process_message(x, m)
  ELSE IF IsScanOf(m, x.scanning) THEN ProcessDelayed(process_message(x, m))
  ELSE [x EXCEPT !.delayed = Append(@, m)]

-----------------------------------------------------------------------------
LibrariesInit ==
  /\ index = NewIndex
  /\ libStrand = <<>> /\ requests = <<>>
  /\ disk \in LibraryDisks
  /\ listing \in LibraryListings
  /\ told = [d \in LibraryNames |-> {}]
  /\ watched = {} /\ wanted = {} /\ caller = NoDirectory
  /\ spent = [registrations |-> 0, changes |-> 0, loads |-> 0]

(* register_library: the message first, then the scan.                       *)
register_library(d) ==
  /\ index.alive /\ caller = NoDirectory /\ d \notin wanted
  /\ spent.registrations < MaxRegistrations
  /\ libStrand' = Append(libStrand, MessageRegisterLibrary(d))
  /\ wanted' = wanted \cup {d}
  /\ caller' = d
  /\ spent' = [spent EXCEPT !.registrations = @ + 1]
  /\ UNCHANGED <<index, requests, disk, listing, told, watched>>

AskScan ==
  /\ caller # NoDirectory
  /\ requests' = Append(requests, [op |-> "scan", directory |-> caller])
  /\ caller' = NoDirectory
  /\ UNCHANGED <<index, libStrand, disk, listing, told, watched, wanted, spent>>

(* unregister_library: the watch goes first, then the message is posted.     *)
unregister_library(d) ==
  /\ index.alive /\ caller = NoDirectory /\ d \in wanted
  /\ requests' = IF LibraryWatch
              THEN Append(requests, [op |-> "unwatch", directory |-> d]) ELSE requests
  /\ libStrand' = Append(libStrand, MessageUnregisterLibrary(d))
  /\ wanted' = wanted \ {d}
  /\ UNCHANGED <<index, disk, listing, told, watched, caller, spent>>

(* load_independent, as far as the index is concerned.                       *)
LoadName(n) ==
  /\ index.alive /\ spent.loads < MaxLoads
  /\ libStrand' = Append(libStrand, MessageLoad(n, wanted))
  /\ spent' = [spent EXCEPT !.loads = @ + 1]
  /\ UNCHANGED <<index, requests, disk, listing, told, watched, wanted, caller>>

(* One message of the strand, file_scan's included.                          *)
HandleMessage ==
  /\ libStrand # <<>>
  /\ Head(libStrand).op # "destruct"
  /\ index' = loader_update(index, Head(libStrand))
  /\ libStrand' = Tail(libStrand)
  /\ UNCHANGED <<requests, disk, listing, told, watched, wanted, caller, spent>>

(* The file system: external, it answers what it is asked in order, and      *)
(* tells of a watched directory when it has changed.                         *)
Listed(fs) == SelectSeq(listing, LAMBDA f : f \in fs)

Report(d) ==
  /\ libStrand' = Append(libStrand, MessageFileScan(d, Listed(disk[d]),
                                                    Listed(told[d] \ disk[d])))
  /\ told' = [told EXCEPT ![d] = disk[d]]

file_scan ==
  /\ requests # <<>> /\ Head(requests).op = "scan"
  /\ requests' = Tail(requests)
  /\ Report(Head(requests).directory)
  /\ watched' = IF LibraryWatch THEN watched \cup {Head(requests).directory}
                ELSE watched
  /\ UNCHANGED <<index, disk, listing, wanted, caller, spent>>

RemoveLibraryWatch ==
  /\ requests # <<>> /\ Head(requests).op = "unwatch"
  /\ requests' = Tail(requests)
  /\ watched' = watched \ {Head(requests).directory}
  /\ told' = [told EXCEPT ![Head(requests).directory] = {}]
  /\ UNCHANGED <<index, libStrand, disk, listing, wanted, caller, spent>>

WatchReports(d) ==
  /\ d \in watched /\ told[d] # disk[d]
  /\ Report(d)
  /\ UNCHANGED <<index, requests, disk, listing, watched, wanted, caller, spent>>

DiskChanges(d, f) ==
  /\ spent.changes < MaxLibraryChanges
  /\ disk' = [disk EXCEPT ![d] = IF f \in @ THEN @ \ {f} ELSE @ \cup {f}]
  /\ spent' = [spent EXCEPT !.changes = @ + 1]
  /\ UNCHANGED <<index, libStrand, requests, listing, told, watched, wanted, caller>>

(* loader::destruct posts a barrier that empties the index and waits for it. *)
(* The caller has unregistered its libraries and has had all its scans.      *)
destruct_loader ==
  /\ index.alive /\ wanted = {} /\ requests = <<>> /\ caller = NoDirectory
  /\ spent.registrations > 0
  /\ libStrand' = Append(libStrand, MessageDestruct)
  /\ index' = [index EXCEPT !.alive = FALSE]
  /\ UNCHANGED <<requests, disk, listing, told, watched, wanted, caller, spent>>

destroy_impl ==
  /\ libStrand # <<>> /\ Head(libStrand).op = "destruct"
  /\ libStrand' = Tail(libStrand)
  /\ index' = [index EXCEPT !.files = EmptyFiles,
                            !.heard = [d \in LibraryNames |-> {}]]
  /\ UNCHANGED <<requests, disk, listing, told, watched, wanted, caller, spent>>

(* loader::construct: nothing when the one loader there may be exists.       *)
construct_loader ==
  /\ ~index.alive /\ libStrand = <<>>
  /\ index' = [NewIndex EXCEPT !.served = index.served]
  /\ UNCHANGED <<libStrand, requests, disk, listing, told, watched, wanted, caller, spent>>

LibrariesNext ==
  \/ \E d \in LibraryNames : \/ register_library(d)
                             \/ unregister_library(d)
                             \/ WatchReports(d)
  \/ \E change \in LibraryChanges : DiskChanges(change[1], change[2])
  \/ \E n \in LoadNames : LoadName(n)
  \/ AskScan \/ HandleMessage \/ file_scan \/ RemoveLibraryWatch
  \/ destruct_loader \/ destroy_impl \/ construct_loader

-----------------------------------------------------------------------------
(* What the index has to be, from what the processed scans have said.        *)

Radicals(n) ==
  {r \in LibraryNames \X LibraryFiles : r[2] \in index.heard[r[1]]
                                        /\ StemOf[r[2]] = n}
Metas(n) == {d \in LibraryNames : n \in index.heard[d]}

FileOfName(n) ==
  IF Cardinality(Metas(n)) = 1
  THEN UniqueFile(CHOOSE d \in Metas(n) : TRUE, Radicals(n))
  ELSE IF Metas(n) = {} /\ Cardinality(Radicals(n)) = 1
  THEN RadicalFile(CHOOSE r \in Radicals(n) : TRUE)
  ELSE AmbiguousFile(Metas(n), Radicals(n))

KnownNames ==
  {n \in LibraryFiles \cup {StemOf[f] : f \in LibraryFiles} :
     n # NoStem /\ (Metas(n) # {} \/ Radicals(n) # {})}

IndexMatchesScans ==
  /\ {n \in DOMAIN index.files : index.files[n].kind # "directory"} = KnownNames
  /\ \A n \in KnownNames : index.files[n] = FileOfName(n)

LoadsWait ==
  /\ \A i \in DOMAIN index.served : index.served[i].early = {}
  /\ \A i, j \in DOMAIN index.served :
       i < j => index.served[i].id < index.served[j].id

NobodyWaitsForNothing ==
  libStrand = <<>> /\ requests = <<>> /\ caller = NoDirectory =>
    index.scanning = NoDirectory /\ index.delayed = <<>>

(* However registrations, scans, loads and changes of the disk interleave,   *)
(* the loader's index holds exactly the names that the scans it has handled  *)
(* reported, each as unique, radical or ambiguous as those files make it;    *)
(* loads are handled in the order posted, none before the scans of all the   *)
(* libraries registered ahead of it; and no message is left delayed when no  *)
(* scan is under way.  Excepted are the states past the two known defects    *)
(* of the code: a radical misplaced or missed (tangled) and delayed messages *)
(* read past their end (overrun).                                            *)
LibrariesKnown ==
  /\ index.tangled \/ index.overrun \/ IndexMatchesScans
  /\ index.overrun \/ (LoadsWait /\ NobodyWaitsForNothing)
=============================================================================

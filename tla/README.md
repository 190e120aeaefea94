# Verification of fimbulwinter

fimbulwinter is a game engine in C++.  This directory holds TLA+ models of the
parts of it in which threads, queues, callbacks and a changing disk meet, TLC
configurations that check them on small instances, and TLAPS proofs of results
that do not depend on the size of the instance.  Paths are relative to
`src/code/src`.

## 1. Inventory

### How the parts interact

    clients ──load/unload──▶ file loader ──read/watch──▶ file system ◀── other programs
                              │   ▲  ▲                    │  (file_watch thread, pipe, inotify)
                    post_work │   │  └── works ◀──────────┘ post_work
                              ▼   │
                            task scheduler (one worker thread, PageQueue, Event)

    devices ──▶ ui ──commands──▶ game ──▶ viewer ──displays──▶ renderer (render thread)
    mixer, physics ──matrices──▶ renderer          window ──resize (ExchangeQueue)──▶ ui, viewer

Every engine component has the same shape: `post_*` functions push a message
into a `PageQueue`, from any thread, and one thread pops and handles them.

### Components

| Component | State | Operations | What is hard | What makes it correct |
|---|---|---|---|---|
| `SimpleQueue` (`core/container/Queue.hpp`) | ring of slots, three atomic indices | `try_emplace`, `try_pop` | lock-free producers, stale checks, wrapping | a bounded FIFO |
| `PageQueue` (same file) | list of rings, `write_header` | `try_emplace` (grows), `try_pop` (frees), destruction | two producers growing at once, freeing pages that are in use | no page leaked or freed in use, no item lost, order kept, always drained |
| `ExchangeQueue` | three cells, `lasti`, `writebits` | `try_push`, `try_pop` | a bitset shared without synchronisation | only the latest item is handed out, once |
| Threads and events (`core/sync`, `core/async`) | mutex, condition, kernel object | set, reset, wait, timed wait; start, move, join | a set between a test and a wait | nobody sleeps through a set; every thread can be joined, once |
| Task scheduler (`engine/task/scheduler_dummy.cpp`) | queue, event, worker | construct, `post_work`, destruct | sleeping against posting, destroying against posting | no lost wakeup, drained before it is gone |
| File loader (`engine/file/loader.cpp`) | `files`, `loads`, `tags`, a `FileCallData` per load; the index of library files | load, unload, (un)register filetype and library, works per file | messages that name files, not loads; reloads; clients that do not wait; messages delayed by scans | readiness follows dependencies, callbacks in pairs, everything released, the index is what the scans said |
| File system (`engine/file/system_inotify.cpp`, `system_kernel32.cpp`, `watch/`) | aliases, directories, watches, requests | register, read, scan, write, `remove_watch`, events | other programs change the disk between two system calls; completion routines of cancelled watches | watched reads and scans converge to the disk, counts right, destructor returns |
| Collection, fragmentation, vector, array, storages | hash table over vectors; indices over cells; cells | emplace, find, erase, grow, copy, move | addresses and elements move; allocation fails | a map; a sequence; every element destructed once |
| `variant`, `optional`, `any`, `shared_ptr`, `weak_ptr`, `unique_ptr` | the alternative and the object; two counters of a block | construct, copy, move, swap, clear; share, lock, release | a constructor throws; the last owner goes while another locks | the holder has what it was given; a value lives as long as an owner |
| Input (`engine/hid/ui.cpp`, `devices*.cpp`) | contexts, states, mappings, devices and their filters; open event files | add, bind, set state, device found and lost, hardware input on and off | mappings changed while devices use them; a thread that opens and closes files | the filters of a device are those of its contexts' active states; ui knows the devices there are |
| Window, console (`engine/application`, `engine/console*.cpp`) | display, context, window, console thread, observers | construct, message loop, destroy, lines of input | construction that fails half way; closing against input | a closed window goes and leaves nothing open |
| Viewer (`engine/graphics/viewer.cpp`) | tree of frames, cameras, viewports | add, remove, bind, resize | displays rebuilt only by some of the messages | the renderer's displays are those of the tree when they were rebuilt last |
| Renderer (`renderer.cpp`, `renderer_opengl_*.cpp`) | displays, assets, entities, selection | add, update, remove, select | render thread against posting threads; pointers into cells that are used again | a frame shows what was posted; teardown ends |
| Mixer, physics | sources, components, playbacks; cameras, bodies, bounds | register, add, action, remove; move, set bounds | playbacks replaced while they end | each component plays what it was given; cameras stay in bounds |
| Gui (`engine/gui`) | tree of views, sizes, marks of what changed, reactions | reload, data, interaction, refresh | changes propagated up the tree, refresh along the marks only | what is drawn is what a full refresh would draw |
| Serialization (`core/*Serializer.hpp`, `*Structurer.hpp`) | a buffer, a text | serialize, structure | buffers that are too small, texts that are cut, members that differ | what was written in full is read as it was, of what was cut nothing is read but a beginning |
| Token tables (`engine/TokenTable.cpp`, `HashTable.cpp`, `EntityFactory.hpp`) | ranges and names | register, unregister, move | ranges handed over by moves | a token is printed with the name of its range |
| Overflow arithmetic (`utility/overflow.hpp`) | — | add, multiply | one implementation per compiler and width | overflow is reported exactly when it happens |
| Maths, fonts, OpenGL, audio, debugging, type traits | — | — | numeric, compile-time or calls of libraries | unit tests |

`PROJECT.json` lists every component with its sources and status, and the
hazards of the code at the lines where they bite.

## 2. Modules

| Module | Models |
|---|---|
| `BoundedFifo` | what a queue promises: abstract specification |
| `SimpleQueue` | the ring buffer; refines `BoundedFifo` |
| `PageQueue` | the list of rings, with allocation and reuse of addresses |
| `MCQueues`, `Queues_proofs` | instances of both; theorems about both |
| `Scheduler`, `Scheduler_proofs` | worker, event, posting threads, destructor; its theorems |
| `Loader`, `MCLoader` | messages and works of the loader, with clients and changing files; small libraries for it |
| `FileSystem`, `MCFileSystem` | watch thread, works and other programs on one disk; a small tree and sequences of calls |
| `Devices` | what the backends of input share, and what ui asserts of their messages |
| `DevicesX11`, `DevicesUser32` | the two backends, on top of `Devices` |
| `Ui` | contexts, states, mappings and the filters of devices, on top of `Devices` |
| `Application` | window and console of the X11 build |
| `MCInput` | instances of the four |
| `Storages` | the fragmentation and the vector below `Collection`, `Scene`, `Loader` and `FileSystem`, as their users see them |
| `Collection` | the three collections |
| `Scene`, `RendererOpenGL30`, `RendererOpenGL12` | the renderer's containers, and what messages and frames of either version do with them |
| `Renderer` | posting threads, event, render thread and destructor around the scene; with the scene by value that it must show |
| `Viewer` | the viewer, composed with `Renderer` |
| `MCGraphics` | instances of `Collection`, `Renderer` and `Viewer` |
| `SystemKernel32` | the file system of Windows with its watches |
| `Libraries` | the loader's index of library files and the messages delayed by scans |
| `Mixer`, `Physics` | animation; cameras and bodies |
| `ExchangeQueue`, `Sync`, `Pointers` | the triple buffer; events and threads; counted pointers |
| `Containers`, `Holders` | lives of elements in vectors and arrays; variant, optional and any |
| `Serialization`, `Text` | shapes, buffers and readers, and the two formats; writing and reading back |
| `Tables`, `Overflow` | token tables; arithmetic |
| `Gui` | the tree of views |
| `MCEngine` | instances of the modules from `SystemKernel32` on |
| `Engine_proofs`, `Values_proofs`, `Holders_proofs`, `Containers_proofs`, `Devices_proofs`, `Renderer_proofs` | theorems about `ExchangeQueue`, `Sync`, `Physics` and `Mixer`; about `Tables` and `Pointers`; about `Holders`; about `Containers` and `Overflow`; about `DevicesUser32`; about `Renderer` with both versions of OpenGL |

The `MC` modules run several components that share no state side by side: the
variable `subject` says which one a behaviour is about, and the others rest in
one initial state.

**SimpleQueue.**  One action per atomic access: `LoadWritei`, `LoadReadi`,
`CasWritei` (and its spurious failure), `Construct`, `Checkin` of a producer,
`PopCheck`, `PopMove`, `PopStore` of the consumer.  Memory is sequentially
consistent: the relaxed loads of the code could return older values, which is
not modelled.  `issued`, `pushed` and `popped` are history.

**PageQueue.**  The same steps in the page a producer loaded from
`write_header`, plus `Allocate`, `CasHeader`, and for the consumer `PopLoad`
(the walk to the oldest page), `PopOldest` (is it drained?) and `PopFree`.
Addresses are numbers, the least free one is allocated first, so that a freed
page's address comes back at once and the compare-exchange of `write_header`
meets ABA (which turns out to be harmless).

**Scheduler.**  `post_work` is two steps, push (`Emplace`) and `SetEvent`; the
worker is `Wait`, `Reset`, pop until empty.  A running work may post.  The
queue is an atomic FIFO here.  `PageQueue` gives a little less: a published item
can be invisible while an earlier push is in progress.  That push is followed by a
`set` of its own, so it wakes the worker again.

**Loader.**  `works` is the scheduler's queue: messages handled on the
loader's strand (`LoadIndependent`, `LoadDependency`, `LoadInit`, `LoadDone`,
`RegisterFiletype`, `UnloadIndependent`, ...) and works on a file's strand
(`FileLoad`, `AddCall`, `RemoveCall`, `Ready`, `FileLoaded`, `Dispose`).
`loads` maps names to `RadicalLoad`, `LoadingLoad` or `LoadedLoad`; `data` holds
the `FileCallData`s, in each of which `up` counts readycalls less unreadycalls of
every callback.  An insert into a full attachments vector (`add_dependency_loaded`, when a
dependency is loaded already and an earlier one is not) leaves a load `torn`, with any of the
attachments that the freed storage may leave.  The loops of `remove_attachments` and
`finish_loading` are steps on `stack`.  A failing `debug_assert` is recorded in
`failed` and the code goes on, as it does.  The file system behind it is the
queue `fs` (`ServeRead`, `ServeRemoveWatch`, `FileChanged`).  The names that it
looks up in are `Libraries`.

**Libraries.**  `index` is the collection `files` with its unique, radical and
ambiguous entries; the message of a scan changes it file by file, with the
code's `goto next` loop over `delayed_messages`.  Two defects of that code are
recorded when they are met (`tangled`, `overrun`) and end what is promised.

**FileSystem, SystemKernel32.**  `disk`, `inotify` and the completion of
directory changes are external, modelled from the system calls the code makes.
Each step is one system call on the disk and what follows it.  In `FileSystem`,
`file_watch` takes requests (`process_*`) and events (`Event*`), `Scheduler` runs
the works, `Other` is other programs, `Client` makes the calls of one of the given
scenarios.  A `Directory` is at an address that its neighbours' removal changes, and
`changed_directories` keeps addresses; a scan that missed something for good is `astray`, a
directory that is deleted while it has several users is deaf.  In `SystemKernel32` calls are
asynchronous procedure calls of one thread, and a `WatchData` has an address that can dangle.
Other processes write files at once or keep them open, which refuses reads; they rename
files within a directory or to another one, and make and remove directories.

**Input.**  `Devices` is what `devices.cpp` does with a report of a backend; its
`Settled` and `AllAccepted` say what ui will know when it has popped everything,
and are the contract between a backend and `Ui`.  `DevicesX11` takes one descriptor
that poll reports at a time; adding the watch of `/dev/input`, scanning it, and each event are
steps of their own, and so are the beginning and the end of the window thread's `dispatch`, in between
which `found_device` may move what it refers to.  In `DevicesUser32` a switch of hardware input comes
at any time, with messages to the window under way.  `Ui` handles in one `hid::update` first all messages,
then rebuilds device mappings, then inputs, as three phases.

**Application.**  The console's thread polls, then calls `getline`, which waits for the rest of a line;
the input is a terminal's or a file's.  `console_kernel32.cpp` is not modelled.

**Viewer and Renderer.**  Scene messages are handled as the code does, with
pointers into cells, while `scene` holds by value what the messages ask for.
`Viewer` posts to that renderer step by step.

**Containers, Holders, Pointers.**  A cell is raw or has an element; undefined
behaviour sets a flag that the property forbids, or, for misuse that the code
does not guard against (`misused`, `abused`), names exactly.

**Serialization.**  A text is a sequence of words, a number of digits.  A cut may fall between any two
words, inside a word, or between the digits of a number.

**Gui.**  `engine/gui` is not built in this commit: no CMake list has it, and it includes a header
that does not exist.  The model is of the sources as they are.  A view keeps what `View` keeps, plus `drawn`, what the renderer was
told last.  `creation` is both `creation` and the recursive `parent` of
`update.hpp`; `refresh` and `place` are `view_refresh.hpp`.  Indices past a list's
end, and interactions with views of before a reload, are `undefined` and end the
behaviour.  Messages before the first reload, which `gui.cpp:164` would handle with a null
`screen_view`, are left out.

## 3. Runs

| Run | Checks | Shows |
|---|---|---|
| `queues` | `SlotExclusive`, `PagesKept`, `ImplementsFifo`, `QueuesServe` | with producers that are not lapped the ring is a bounded FIFO and nobody spins for ever; pages are neither leaked nor freed in use, items neither lost nor reordered, and both queues are drained, `PageQueue` while producers race to grow it |
| `queue_lapped` | `WithinCapacity` **violated** | a producer held up for a lap pushes into a full queue |
| `scheduler` | `NoLostWakeup`, `DrainedBeforeDestroy`, `DueWorkRuns`, `DestructReturns` | works run, before the scheduler is gone, and it can be destroyed |
| `loader_tree` | `ReadyAfterDependencies`, `AssertsHold`, `NothingLeft`, `EventuallySettled` | with clients that wait and files that do not change, the loader keeps all its promises until a loaded dependency is inserted into a full vector of attachments; what such a torn load has forgotten is excepted, by name |
| `loader_clients` | `RemainingIsRequired`, `OwnersMatchAttachments`, `CallbacksBalanced` | files that change and clients that unload too early or load without the filetype leave the graph consistent, but for torn loads |
| `loader_switched` | `OwnerKnown` **violated** | a changed dependency is not released |
| `loader_stale_done` | `ReadyHasContent` **violated** | a file is ready without having been read |
| `files` | `TablesAgree`, `WatchesConverge`, `ContentReported`, `DestructReturns` | watched scans converge to the disk, whatever the order of events, works and changes, except those that are `astray`, and of deaf directories; both are named when they arise |
| `input` | `X11Serves`, `U32DevicesMatch`, `UiFiltersMatch`, `AppEndsClean` | ui knows the devices there are and their levels, on both systems, also when hardware input is switched with messages under way; every device has the filters of its contexts; hardware input can be stopped; a closed window leaves nothing open and is destroyed, unless the console waits for the rest of a line |
| `graphics` | `CollectionIsMap`, `RendererDrawsScene`, `RendererStops`, `ViewerShows` | collections are maps, but for the components that a heap fragmentation leaves behind when it grows after a removal; both renderers draw what was posted and can be destroyed; displays are the frames with a camera as they were when the displays were rebuilt last |
| `engine` | `Kernel32Watches`, `LibrariesKnown`, `MixerPlays`, `CamerasInBounds`, `LatestPolled`, `SyncKeeps`, `PointersHold`, `ElementsLive`, `HoldersOwn`, `TextFaithful`, `TokensNamed`, `OverflowReported`, `GuiDrawsTree` | one property for each of the other parts |
| `exchange_race` | `PollsLatest` **violated** | a lost update of the bits hides the latest item |

Several properties except what the code gets wrong or does not guard against, mostly by a variable
that records that it has happened; each says so in its comment.  What is excepted:

* `ReadyAfterDependencies`, `AssertsHold`, `NothingLeft`, `EventuallySettled`, `OwnersMatchAttachments`: loads that are `torn`,
  which have forgotten an attachment, and what follows from them;
* `WatchesConverge`, `ContentReported`: deaf directories, and scans that are `astray`; a directory that was
  deleted is not followed by reads;
* `X11Serves`: levels that `dispatch` stored in an array that `found_device` had just moved (`torn`), and the
  assert of `devices_x11.cpp:963` for what was noted before `scandir` (`early`).  Left out are more event
  files, or other descriptors, than the array of nine holds;
* `U32DevicesMatch`: after hardware input was switched off with messages under way (`overlapped32`) a device may be
  added twice, removed without having been added, or stay while hardware input is off; after the second of these
  (`broken32`) nothing is said of the devices;
* `AppEndsClean`: the results that the constructor does not look at (context and window of GLX, `XOpenIM`);
  a window is not closed while the console is in `getline` with a part of a line;
* `CollectionIsMap`: components left behind when a heap fragmentation grows after a removal;
* `ViewerShows`: nodes and cameras added or removed since the displays were rebuilt, and cameras and projections
  replaced since the matrices were; matrices that are not initialized;
* `Kernel32Watches`: a name that was renamed and not looked at again, a read refused because another process had the
  file, a `WatchData` whose directory is gone (`gone`) or that was watched again after its last watch was removed (`again`);
* `ElementsLive`, `HoldersOwn`: misuse of containers (`misused`), and of holders (`abused`): a construction
  of an optional from another one that throws, and `emplace` over a value;
* `LibrariesKnown` (`tangled`, `overrun`), `PointersHold` (`reset` of a `unique_ptr`), `TokensNamed`
  (a factory that was refused), `GuiDrawsTree` (`undefined`);
* `TextFaithful`: a text whose buffer ended in a key is not read in full.  That nothing but a beginning of the value is read,
  is checked of every text; a number that was cut is such a beginning (12345 may be read as 12).

`MixerPlays` excepts nothing: an update that crashes ends the behaviour, and the property says which ones do.  The
pointers that a growing table of sources would leave dangling are not modelled.

### Bounds, and why they are enough

* `queues`: two producers, four slots, five items: the ring wraps, fills and
  empties with a claim, a publication and a pop in flight; the proofs remove
  these bounds.  Two producers, three items, from the empty `PageQueue`: the pages of
  one, two and four slots are all made, a page wraps, two pages hold items at
  once, both producers allocate at once, and addresses are reused.
* `scheduler`: two posting threads, four works, two lives: a work posts while
  it runs, two sets race with a reset, Terminate is behind and ahead of works.
  The proofs remove the bounds of the safety properties.
* `loader_*`: one to three files with a shared dependency, one or two tags, one change
  of a file: each pair of operations overlaps.  In `loader_tree` and `loader_clients` the shared leaf is loaded on its
  own as well, before, while or after the root is, so that a loaded dependency meets a full vector of attachments.  `Manners` names what a run assumes
  of clients (they unload only what is ready; the filetype is registered) and of
  files; the runs without them check what survives.
* `files`: a working directory with two directories in it and a temporary one, one file name.  Seven
  sequences of calls with two changes by other programs: a directory can be made and removed, or made and written into,
  around each step of the thread and of the works.  Five scenarios of one to three calls with three or four
  changes: a directory with two users, or one of a tree, is deleted, made again and written to; one of two directories vanishes
  during a scan; a directory goes, or comes, while changes of another one are gathered.  About 448,000 states.
* `input`: two event files and two callers that switch hardware input, within one of five limits: files are plugged or unplugged three times,
  or the callers make four calls, or there are fewer of both, with inputs that are dispatched meanwhile;
  two raw input devices; two contexts with two states, three
  mappings and two devices: a device comes and goes between any two messages.  About 416,000 states in three minutes.
* `graphics`: three keys in at most four buckets, so that they collide and the table
  is rehashed; static storages and heap storages that grow; three cells of meshes and of objects, so that they are used again;
  scripts that contain every message, two posting threads; three trees of frames.  About 475,000 states in two minutes.
* `engine`: the constants of `Engine.cfg`; each is the least at which the parts can
  collide (two libraries with one stem, a table of ranges that fills, containers
  of three or four cells, arithmetic of four bits, four messages to a gui with two
  pages, a list and views of every size and gravity).  About 1,030,000 states in two minutes.

No run has a state constraint: the bounds are in the guards.  Deadlock is not checked
because every instance stops when its bounded inputs are used up.

### Fairness

The worker thread of the scheduler and the `file_watch` thread loop for ever
and are never blocked while they have something to do, so each is weakly fair;
workcalls are assumed to return.  A thread inside `try_emplace` or `post_work`
is not suspended for ever.  The consumer of a queue calls `try_pop` again and
again, as every user in `engine/` does.  The render thread and the thread that watches
`/dev/input` are scheduled; so are the threads that are inside `~renderer`, inside
`join`, and in the window's message loop, and the console's thread once it has been interrupted.
Nothing is assumed of clients, of other programs or of when a destructor is called.

### Assumptions about timing

`NoStaleClaim` (both queues) and `NoStalePage` (`PageQueue`) exclude behaviours
in which a producer is preempted between reading an index or page and its
compare-exchange for so long that the others take the ring around once, or
fill, leave and drain the page.  The code has nothing that prevents this;
`queue_lapped` shows what the first leads to, and the second makes a producer
write into freed memory.  With one producer neither can happen (proved:
`SoleProducerUnlapped`, `SolePageProducerKeeps`).  So the properties of `PageQueue` say nothing of
a producer whose page is superseded, drained and freed while it is held up (`Queue.hpp:290`): that hazard
has no property.  `SplitBits = FALSE` in `engine` takes the
bits of `ExchangeQueue` for atomic; `exchange_race` does not, and the theorem assumes
only that they are not changed by both sides at once (`NoOverlap`).

## 4. Findings

1. `queue_lapped`: the capacity check and the claim of a slot are separate, so
   a queue may be overfilled, after which it appears empty and items are lost.
2. `loader_stale_done`: `LoadDone` carries a file and not a load; the one of an
   abandoned load finishes the next load of that file.
3. `loader_switched`: `finish_loading` passes the wrong owner to
   `remove_attachments` when old dependencies are dropped after a change.
4. `exchange_race`: reader and writer of an `ExchangeQueue` change one plain bitset;
   an update that is lost hides the latest item from the reader.

Seen while modelling, and kept in the models as the code does it, without a run:

* loader: tags are never erased; a tag is added before `load_new` may fail, and a
  `RadicalLoad` stays behind when it does; a dependency by a name that is not in
  `loads` is waited for for ever though its file is loaded under another name;
  `finish_loading` keeps a reference to a load that `remove_attachments` may move; a dependency that is loaded
  already is inserted into a full vector (`loader.cpp:1105`, `vector.hpp:376`), which loses attachments; files that
  depend on each other wait for ever; a misplaced radical in the index, and the replay of
  delayed messages past their end;
* file system: `changed_directories` keeps `Directory` pointers while directories are added;
  `IN_DELETE_SELF` takes one user from an alias that may have several; a
  recursive scan found twice is removed once; empty files are reported missing;
  `scan_directory` gives up the whole tree when one directory vanishes; works may run after the
  file system they use is gone;
* file system of Windows: a renamed name is not looked at before it changes again
  (`watch_kernel32.cpp:228`); a read that is refused for a sharing violation is not tried again
  (`system_kernel32.cpp:231`); `unregister_directory` before `remove_watch` leaves a dangling `WatchData`
  (`watch_kernel32.cpp:353`);
* input of X11: `found_device` resizes `device_values` while the window thread dispatches (`devices.cpp:67`);
  the assert of `devices_x11.cpp:963` fails when an event file is made between the start of the watch and `scandir`;
  input of user32: hardware input may be switched off with window messages under way;
* application: `~console` waits for the thread while that waits in `getline` for the rest of a line
  (`console_posix.cpp:65`, `78`); `XOpenIM` may return null, which `XCreateIC` is given (`window_x11.cpp:343`);
* mixer: `update` dereferences the null action of an unknown name and divides by the length of an empty one;
* viewer: adding and removing nodes, cameras and projections sets no flag to rebuild (`viewer.cpp:660`); the matrix of a
  perspective in 2D is not initialized (`viewer.cpp:252`);
* heap fragmentation: `try_erase` overwrites the erased index instead of swapping it, so that the last component is
  lost when the storage grows (`fragmentation.hpp:302`);
* JSON: a number cut between its digits is read (`JsonStructurer.hpp:502`); a number may be written past the buffer
  (`JsonSerializer.hpp:240`); INI: the end of the text is looked past (`IniStructurer.hpp:216`);
* optional: `_has_value` is true before the value is constructed, so that a constructor that throws leaves a value to destruct
  that was never made (`optional.hpp:155`); `>=` names a member that does not exist, and does not compile (`optional.hpp:642`);
* containers: `vector::insert` into a full vector writes into the freed storage, `array::resize`
  to less overruns the smaller storage, a container assigned to itself is read after it was cleared;
* `EntityFactory` sets its parameter instead of its member when it is refused;
  the signed product of halves reports overflow where there is none;
* gui: of several items too many in a list the wrong ones are hidden, by indices that
  the list has no more (`reaction.cpp:141`); interactions survive a reload of their views;
  `Change()` does not mark the width.

## 5. Proofs

| Theorem | For all | States |
|---|---|---|
| `Queues_proofs!TypeCorrect` | producers, capacity | the indices stay inside the storage |
| `UnlappedFifoOrder`, `UnlappedImplementsFifo` | producers, capacity | without stale claims: FIFO order; refinement of `BoundedFifo` |
| `SoleProducerUnlapped`, `SoleProducerCorrect` | capacity, one producer | no stale claim arises, so all of it holds unconditionally |
| `PageQueueKeeps` | producers, calls, pages | `PagesKept`, as long as no producer is held up while its page is freed |
| `SolePageProducerKeeps` | calls, pages, one producer | `PagesKept`, unconditionally |
| `Scheduler_proofs!TypeCorrect` | threads, works, lives | types; the worker runs works only |
| `WakeupsAreNotLost` | threads, works, lives | `NoLostWakeup` |
| `DestroyedIsDrained` | threads, works, lives | `DrainedBeforeDestroy` |
| `Engine_proofs!ExchangeCellsApart` | writers, items | three cells, one writer, unconditionally |
| `ExchangeQueueCorrect` | writers, items | `LatestPolled`, if reader and writer do not change the bits at once (`NoOverlap`) |
| `EventMutualExclusion`, `SyncCorrect` | threads, calls, either platform | mutual exclusion; `SyncKeeps`, if a manual event has one waiter at a time |
| `Engine_proofs!CamerasCorrect` | cameras, calls, bounds | `CamerasInBounds` |
| `MixerCorrect` | messages, frames | `MixerPlays`, up to an update that crashes and of which ones do |
| `Values_proofs!TablesCorrect` | tokens, factories, ranges | `TokensNamed` |
| `PointersCorrect` | pointers, calls | `PointersHold` |
| `Holders_proofs!HoldersCorrect` | calls, throws, all three kinds | `HoldersOwn`, up to the misuses it names |
| `Containers_proofs!ContainersCorrect` | calls, static capacities, vectors and arrays, trivial or not | `ElementsLive` |
| `OverflowCorrect` | even widths | `OverflowReported` |
| `Devices_proofs!U32DevicesCorrect` | devices, scan codes, changes, switches at any time | `U32DevicesMatch` |
| `Devices_proofs!UiCorrect` | devices, contexts, states, mappings, codes, messages, reports | `UiFiltersMatch` |
| `Renderer_proofs!RendererCorrect` | posting threads, messages, assets, entities, cells, both renderers | `RendererDrawsScene`, if what is posted fits what has been asked for |

*SimpleQueue.*  `FifoOrder` alone is not inductive: that the popped item is
the right one depends on what is in the slots.  `RingInv` says where everything
is: the three indices split the ring into published, claimed and free slots
(`IndexInv`), every producer that claimed has a slot of its own among the
claimed ones (`ProducerInv`), the published slots number as many as the items not
popped (`CountInv`) and hold exactly those, in order (`ContentInv`).  The proof
rests on lemmas about `Distance` on the ring, then takes one step per action.
The refinement follows from `RingInv` step by step: `Checkin` is a `Put`,
`PopMove` a `Take`, everything else stutters.

*PageQueue.*  The invariant has two layers.  `PagesAt(n, c)` says that `c` lists the `n` pages from the
oldest to the newest, all different and linked (`Listing`); that every other page is one that a
single producer has allocated and not yet put in front (`PagesFresh`); that a producer is in a
listed page, and its claimed slot between readendi and writei is its own (`InPage`, `PagesClaimed`);
and where the consumer is (`PagesConsumer`): when it is about to free a page, no slot in it is claimed.
This gives `PagesAccounted`.  `OrderAt(n, c, o, e)` adds an order: `o` is everything that came out
and will come out, and page `i` has the items of it up to `e[i]` (`Spread`).  Publishing puts an
item into the middle of `o`, behind the rest of its page and in front of the newer pages; this breaks no
promise because nothing in a newer page was published when its `try_emplace` was called
(`InFront`, which holds since that call loaded the newest page).  `BacklogIs` then says
that what the property reads off the pages is the rest of `o`.  `c`, `o` and `e` are not variables:
the invariant says that there are such, and each step is proved with those it leaves.
That the recursive functions `Back` and `Backlog` give the list and its items is an induction on
their argument, done by the smallest counterexample (`SmallestOf`).
With one producer, `AtNewest` (it is in the newest page) implies the assumptions about timing.

*Scheduler.*  `NoLostWakeup` is strengthened by what holds in the states before
the worker sleeps (when it is between `Wait` and draining, the event may be
reset, since it will still look at the queue).  `DrainedBeforeDestroy` is
strengthened by an account of the works that are due: each is done, running, or
in the queue ahead of Terminate.

*ExchangeQueue.*  `ExchangeInv`: the cells of the reader, of the writers and the one
between are three different ones, one writer is inside `try_push`, and a bit tells whether there
is an item, except that the writers' cell may have a bit that is left of an item never polled
(`BitsTell`, `WriterCell`).  `LatestAtHand` says where the latest item is at each point of
`try_pop`.  That the cells are three and one writer is inside (`CellsInv`) holds whatever becomes of the bits.
The rest needs `NoOverlap`, that no one begins to change the bits while the other side is between reading and
writing them: `exchange_race` is the counterexample without it, and nothing in the code sees to it.

*Sync.*  `EventInv` ties the program counter of each thread to the mutex and to the set of
sleepers, and counts: the wakes on their way and the sets not yet consumed are what
releases were earned by (`EventDelivers`).  The hypothesis `OneWaiterKept` is the code's own use
of manual events: `reset` of one waiter would take the set of another.  The threads' part says
that each running thread has exactly one object.

*Physics, Mixer.*  `PhysicsInv` is `CamerasInBounds` with the types; the lemma is that
`CameraUpdate` leaves a bounded camera inside, from wherever it was.  `MixerSound` says of
every component that it rests or plays, of every playback that its frame is what the age of
the action gives (`InTime`, with the lemmas about remainders that a repeating action
needs), and counts the mixers: those of players, which are unshared, and those left behind by
removed components.  Of a crash (`fault`) it says where it came from: an action that there is not, one without a
length, or the assertion that a playback is not finished, which needs a playback left behind by a removed component.

*Tables.*  `TablesSound`: the entries of the table are distinct, a factory that holds a range
is registered under its name, and the table has no more entries than there are such
factories, and one for the hash table if it is there.  The count turns "everyone who holds is in
the table" into "nobody else is".

*Pointers.*  A call is a list of atomic steps, so the counters of a block are in between
most of the time.  `Standing` says, from what is left of the call on a pointer, which units of the
shared and of the weak count it has: for the block it refers to (slot "old") and for the one it
will refer to (slot "new"), and whether it alone is to destruct the value or free the block,
having taken the count to zero.  The invariant, `PointersInv`, is that the counters of each block are
the numbers of these units (`CountedBlock`), or that it is a unique pointer's (`UniqueBlock`);
that what is left of each call is one of the lists that its operation can leave (`Shaped`);
and that a call that counts a block reads a pointer that has it and rests (`AllRead`), which is
why the count it increases is not zero.  Each step then moves units between slots, and each
call begins by a list of the right shape.

*Holders.*  Every operation is a composition of few changes of the objects, and in the
middle of one a holder may have an index that is no longer, or not yet, true.  `Shows(s, k, N, v)`
says that the holders in `N` have what `v` says and own, each alone, every live object there is;
the others are not looked at.  Each primitive (construct, destruct, change hands, set a value,
forget an index) has a lemma on how it moves `N` and `v`, each operation one on where it
`Leaves` the holders, wherever a constructor throws, and the invariant, `HoldersInv`, is that
all of them are owners when it ends and `want` is what they have.  That the comparisons are
those of an order is a lemma about pairs.

*Containers.*  `ContainersInv` says that, as long as nothing is in `misused`, nothing is broken, the two
containers are alike, and each `Holds` its contents: its cells are those elements and raw cells
behind them, and an array has no raw cell; and that something is broken otherwise, for each
misuse does break it.  Every storage operation has a lemma on what it makes of such a
container, and on what it leaves alone (`Touched`): `construct_range` appends, `destruct_range` cuts,
`copy` needs raw cells and capacity.  The operations follow from these.  `erase_range` is a
recursive function; its lemma, that the last elements fill the gap in reverse order, is an induction
done by the smallest counterexample.  A capacity is a power of two, so that `Reserve` finds one
is a lemma too.

*Overflow.*  What TLC computes at four bits holds at every even width.  That 2^(m+n) = 2^m * 2^n is not
in the library, and its definition of powers is recursive: `PowersMultiply` counts subsets of an
interval.  From there, a remainder is whatever number is in range and differs by a multiple
(`DivisionIs`, `SignedIs`), and each way of adding and multiplying gets a lemma that it
`Reports`.  `HalfProductsMultiply` says that four products of halves with their carries are the product;
`ExcessOfHalves` says by how much the signed product of halves is off in its high half, which is why it
never misses an overflow though it reports some that are none.

*Devices of Windows.*  The property is about what ui will know when it has handled messages that it
has not popped yet.  `Course` is what it knows after each of them, a recursive function; that it depends on
the messages up to there only (`CoursesAgree`), that one more message at the end adds one step (`TellOne`)
and that popping the first one takes it off the front (`PopOne`) are inductions done by the smallest
counterexample.  `Agrees(known, io, ids)` says that the queue is accepted and leaves ui with the rows
`ids` and the levels of `io`; each report of `devices.cpp` has a lemma on how it moves `ids`.
`DevicesAgree` is this for the devices of the vector, whose ids increase and are below the next
one, so that none is found twice.  The asserts of `add_device` and `remove_device` need more:
`ChangesForeseen`, that the messages which the window has not got lead, each as expected, from the devices of the
vector to those plugged in, as long as the window is registered, and that there are neither
messages nor devices while hardware input is off.  It holds until a switch off overtakes messages (`overlapped32`);
`DevicesAgree` holds after that as well, until the end of the vector is erased (`broken32`).

*Ui.*  What is not obvious is that `clear_device_mappings` takes away what `set_device_mappings` gave and
nothing else, for it only compares codes: a device may be in several contexts.  `Sound` says that the device mappings
are those of the contexts that have set theirs, that a context binds mappings of its own only, and those of a state
with different codes; `CodesApart` follows, that no two contexts, and no two bindings of a state, give filters to one
code, from which `MappingsCleared` and `MappingsSet`.  The other half of the invariant, `UiInv`, is about
messages that wait.  A client posts what fits ui as its own messages will leave it (`Posted`), and the message is handled when devices
have come and gone that the client has not heard of.  `QueueFits` says that every waiting message fits after those in front of it;
`Alike` says of two states of ui that they differ in nothing that decides what fits: the same contexts with the same bindings,
and the same wired devices in them.
Each message takes alike states to alike states (`EffectAlike`), so a queue that fitted still fits after a device is found or lost
(`WaitAlike`).  A `DeviceFound` or `DeviceLost` finds every context set, for they come in the last phase, and leaves it so.
The loops over contexts and over messages are recursive functions, and what is said of them is again by the
smallest counterexample.  The manners of the clients are in `Fits`, with the constants `UiCodes`, `UiUser` and `UiKind`:
a mapping is completed before it is bound, mappings of different contexts share no code, neither do those bound to one
state, devices that can be lost are left to the default context, and a code has filters that its inputs can meet.
Without them the code's own asserts fail ("mapping conflict", "sanity check", "unknown filter").

*Renderer.*  The property compares a frame with a scene that also has what the messages still in the queue
ask for; only when none waits are the two the same.  `Course` is therefore the scene after each of the waiting
messages, as in the proof about devices, from one that the render thread's containers match to
`scene`, and every message on it `Fits` the scene before it.  Posting makes the course longer at its end, handling a
message takes the first step off it, and the containers then match the next scene (`Message30`, `Message12`).
What it is to match is `Matches30` and `Matches12`: the fragmentations of meshes and objects are tables
whose free indices are those not in use (`Table`), and each `Keeps` its values, every one in the cell that the resource
or the entity points to; so that a component, which has kept the cell of its mesh since it was made, leads to that
mesh (`ComponentsMatch`).  `KeepsEmplace`, `KeepsErase` and `KeepsWrite` are the lemmas about cells; that a
mesh which OpenGL 1.2 replaces comes into the cell of the old one (`MeshReplaced`) is why no component dangles.
`Picture30` and `Picture12` are that what is drawn from matching containers is the picture of the scene.

The theorem's second assumption, `[][Mannerly]_rendererVars`, is about the threads that post, together: an asset is
registered under a token that is not in use (in OpenGL 1.2 a mesh may be replaced by a mesh and a material by a
material), is unregistered when no object uses it, objects are made of meshes that there are, and there is room
in the fragmentations.  The code asserts most of this where a message is handled and relies on the rest.
The scripts of `graphics` keep to it, and the theorem says nothing of clients that do not.

The proofs assume what the `ASSUME`s of the modules say, no more: the sets of pointers are
finite and of three kinds, names of nobody are no names, messages carry what their types say, the
width of numbers is even, a container is a vector or an array, there are finitely many raw input devices and
scan codes name buttons, there are finitely many states of contexts, mappings have the codes and kinds of filters just
named, what is posted before the first update fits,
and the renderer is one of two, with some number of cells and scripts of messages.
TLC evaluates these assumptions in the runs of the modules.  The assumptions in the theorems
themselves are those of the code's users: no stale claims, bits not changed by both sides at once, one waiter,
messages that fit; and, of `PageQueue`, that `NoPage` is not itself a page.

Only model-checked, and why:

* every liveness property: the prover has no reasoning about fairness;
* what modules compute that use recursive operators (`Collection`, `Gui`, `Libraries`,
  `Serialization`, `Text`, `Viewer`): the prover's SMT backend is lost in them;
* the invariants of `Loader`, which hold for some manners of clients and files only, and `TablesAgree` of
  `FileSystem`, which needs the protocol of its scripts as an assumption;
* `Kernel32Watches`: not attempted.

## 6. Not modelled

Weak memory; failing allocations other than those of pages and containers; release
builds, in which files are not watched; drawing itself, fonts and OpenGL; the matrices of
animation and all floating point; PNG, audio and PhysX, which are calls of libraries; reading
the gui from JSON; escapes and comments of JSON; crc32; the console of Windows; and what templates compute at
compile time (`type_info.hpp`, the choice of overloads).  The tests under `tst/` are
read as statements about the code and not modelled.  Components are listed with their status
in `PROJECT.json`.

## 7. Plan

1. Theorems: `Kernel32Watches`, `OwnersMatchAttachments` of `Loader`, the
   counts of `TablesAgree` of `FileSystem`.
2. `Loader` composed with the promises of `FileSystem` instead of its own `fs`,
   and with `Libraries`.
3. `Ui` composed with a backend instead of their contract in `Devices`.

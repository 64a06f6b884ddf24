# TLA+ models of heynoti

heynoti is a small notification library of the Tizen application framework.
A *key* is an empty file under `NOTI_ROOT` (`/opt/share/noti`), made by the
administrator with `heynotitool set`. A process *subscribes* callbacks to keys
through an inotify descriptor; another process *publishes* a key by opening and
closing its file; the kernel turns the close into an event that the library
reads and dispatches to the callbacks.

Source: `src/heynoti.c` (the library), `src/heynotitool.c` (the tool),
`src/heynoti.h` (the API documentation), `src/SLP_Heynoti_PG.h` (the
programming guide), `src/test`, `src/TC` (example programs and unit tests).

## Inventory

| Component | Code | State | Operations | Interacts with |
|---|---|---|---|---|
| Container registry | `heynoti.c` `g_nc`, `__get_noti_cont`, `heynoti_init`, `heynoti_close` | list of containers: descriptor, handler type, GLib source, slot list | init, close, lookup by descriptor | every API call starts with a lookup |
| Subscriptions | `heynoti_subscribe`, `__add_noti`, `__add_wd`, `__get_wd`, `heynoti_unsubscribe`, `del_noti`, `_del_noti` | slots (watch descriptor, callback, data, mask) | add, delete, recompute the mask | two inotify calls per operation |
| Dispatch | `heynoti_poll_event`, `gio_cb`, `__handle_event`, `__handle_callback` | position in the drain loop and in the slot list | read an event, call the callbacks, stop on an empty queue | GLib main loop or poll; callbacks may call the library |
| Handler | `heynoti_attach_handler`, `heynoti_detach_handler` | handler type, GLib source | attach, detach | excludes `heynoti_poll_event` |
| Publishing | `heynoti_publish` | the open file | open, close | the key's file, hence every watch on it |
| Key names | `heynoti_get_pnoti_name`, `heynoti_get_snoti_name`, `__make_noti_path` | none | formatting in a bounded buffer | publish and subscribe must agree on the path |
| Kernel version | `__get_kern_ver`, `__read_proc` | cached version | parse, compare | `heynoti_init` |
| Unit tests, guide | `TC/unit`, `SLP_Heynoti_PG.h` | descriptor, verdicts, a second thread | startup, test purposes, cleanup | every API call |
| Administration | `heynotitool.c` | none | set (create, change mode), unset (remove) | the key's file, hence every watch on it |
| inotify | external | watches, queue | add, remove, read | all of the above |

What is hard, and what has to hold:

* **Two system calls per subscribe and unsubscribe.** `__get_wd` learns the
  watch descriptor of a key by adding a watch with mask `IN_ACCESS`, which
  *replaces* the mask of a watch that is already there; `__add_wd` puts the
  union of the slots' masks back. Publishers and the tool run in between.
  Every way out has to restore the mask; a slot must not hold the descriptor of
  another key's file; return values must agree with the slot list.
* **Files come and go.** A key that is unset and set again is another file,
  with another descriptor; the slots keep the old one. The old file's watch
  lives until its last opener closes it.
* **The queue.** Events are merged with an equal last one, dropped when the
  queue is full, and stay queued after their watch is gone.
* **Draining.** `__handle_event` reads until the queue is empty: a subscriber
  must be served, and the thread must come back when publishing stops.
* **Re-entrancy.** Callbacks run in the middle of two loops over structures
  that the API changes: the list of slots under the cursor of
  `__handle_callback`, the queue under the loop of `__handle_event`, the
  container itself.
* **Numbers that are handed out again.** A container is found by its
  descriptor, and the kernel gives the lowest free number to whoever asks next.
* **Names.** Two functions print a name into a buffer of the caller's size: they
  have to succeed exactly when it fits, and two notifications need two names.
* **Permissions.** `heynotitool set` is up to four system calls, and every
  other process may act between them.
* **Directories.** Their events carry a name, which `read` has no room for.

## Modules

The core:

* `Inotify` - one inotify instance: the watch of each file, the last descriptor
  handed out, the event queue. External; the library's use of it decides what
  is in it. The facts that matter: adding a watch replaces the mask; one file
  has one descriptor; descriptors are not reused within an instance; removing a
  watch queues `IN_IGNORED` and leaves older events; a full queue takes one
  overflow mark and drops the rest. The key files are always empty, so reading
  them cannot raise `IN_ACCESS`, and `IN_DELETE` is raised for directories only.
* `Heynoti` - extends `Inotify` with the library behind one descriptor and the
  processes around it.
* `HeynotiReentrant` - extends `Inotify` with the dispatch when callbacks call
  the library: the slot list as a list of heap cells, a stack of
  `__handle_event` frames with their cursors (from `heynoti_poll_event` and from
  main loops that callbacks run), `_del_noti` turn by turn.
* `NotiRegistry` - the list `g_nc` of containers, descriptor numbers, GLib
  sources and the kernel version test.
* `HeynotiTool` - `heynotitool` at the grain of its system calls, several at
  once, with permissions.
* `NotiName` - names and buffers, and the paths the library makes of a name.
* `NotiDirectory` - events with a name in the queue.
* `NotiTests` - extends `Heynoti` with the unit test programs and the samples
  of the programming guide as its application.

Abstract specifications, and what implements them:

| Abstract | Promise | Implemented by |
|---|---|---|
| `NotiService` | subscribe, unsubscribe, publish, deliver and close are one step each, on a set of subscriptions and a set of those owed a call | `Heynoti`, through the mapping in `HeynotiService` |
| `NotiMap` | a partial map from descriptors to handler states | `NotiRegistry`: the entry of a number is what the search of `g_nc` finds |
| `NotiCallbacks` | to callbacks that call the library: subscriptions change at once, callbacks nest, and what a subscription is owed it keeps until it is called or goes | `HeynotiReentrant`, under `Careful`: a slot that `_del_noti` has still to free has left already |
| `NotiKeys` | setting a key is one step that wakes nobody, unsetting it another | `HeynotiTool`, forgetting modes and the tools' positions |

How they fit together: `NotiKeys` is how `Heynoti` takes the administrator and
the publishers (`tool_set`, `tool_unset`, `publish_open`, `publish_close`), so
`HeynotiTool` shows that one step is enough there. `Heynoti` is about one
descriptor whose calls return to the application before the next; `NotiRegistry`
is about which container a call works on, and `HeynotiReentrant` about calls
that begin inside a dispatch. `NotiName` is about the names; elsewhere `Noti`
is the set of keys whose names are agreed on. `NotiTests` composes programs with `Heynoti`.

Proof modules: `HeynotiProofs` (also for `HeynotiService`),
`HeynotiReentrantProofs` (which begins with lemmas on lists),
`NotiRegistryProofs`, `HeynotiToolProofs`, `NotiNameProofs`, `NotiTestsProofs`,
`NotiDirectoryProofs`, and the lemmas on the event queue (`InotifyProofs`) that
the first two share. The `MC` modules hold
constants and symmetry for TLC; the `.cfg` files the rest.

### How `Heynoti` corresponds to the code

| Variable | In the code |
|---|---|
| `dir` | the directory `NOTI_ROOT`: which file a key names, or `NULL` |
| `fd` | the file a publisher has open inside `heynoti_publish` |
| `nc`, `ht`, `g_ns` | the container of the descriptor: exists, handler type, slots |
| `call` | the call in progress with the locals that survive a system call (`noti`, `cb`, `wd`) |
| `rc` | what the last call returned |
| `watch`, `lastwd`, `queue` | the kernel's side |
| `subscribed` | history: the pairs (key, callback) the return values promise |
| `due` | history: the slots owed a call, for publishes they could hear |

A slot is a record with its heap cell, descriptor and callback; its key is
carried along for the properties and no action tests it. All slots have the
same mask (`heynoti_subscribe` passes a constant), so it is an operator. The
order of the list is not kept here: it decides in which order the callbacks of
one event are called, and matters to `HeynotiReentrant`, which keeps it. `calloc` fails when no cell is left.

Each API call is an action. `heynoti_subscribe` and `heynoti_unsubscribe` stand
for the code up to and including `__get_wd`, `add_noti` and `del_noti` for the
rest, with the slot list change and the second system call in one step: other
processes see only the system call. `gio_cb` and `heynoti_poll_event` /
`poll_returns` / `poll_fails` lead into `handle_event`, one turn of its loop
per step. The library has no locks and no threads of its own: it runs on one
thread of the application, so its calls do not overlap, and the actions of a
call require that no other is in progress.

`publish_open` and `publish_close` are the two system calls of
`heynoti_publish`; several publishers may have the file open at once.
`tool_set` and `tool_unset` create and remove the file. `inotify_add_watch` may
fail whenever the key is not set or a new watch would be needed (`ENOENT`,
`ENOSPC`, `ENOMEM`), never for a file that already has its watch.

### The other modules

`HeynotiReentrant`: `g_ns` is a sequence of cells, `slot` their contents, which
a free leaves in place; `frames` are the `__handle_event` calls in progress,
innermost last, each with the event it read, its phase and the cursor `it`;
GLib does not dispatch a source inside its own callback, and `busy` marks the
frame of the source that is attached, which `heynoti_detach_handler` clears, so
that a source attached anew in a callback is dispatched there by a main loop;
`call` is a `_del_noti` between two turns of its loop. Reading the next node of
a freed one is a choice of any cell or the end of the list, which covers a cell
that was allocated again. Calls are not split at `inotify_add_watch` here. The
constant `Careful` restricts the application: no callback removes a slot that a
walk stands on (its own one, or that of an outer walk) or closes the descriptor.
`Left` counts what a dispatch has still to do: nodes ahead of a `_del_noti`,
events, frames, and nodes ahead of the innermost walk, compared in this order.
`Callbacks` maps the module to `NotiCallbacks`: the subscriptions are the pairs of
the slots that no `_del_noti` in progress is about to free, and the active
callbacks are read off the cursors of the frames.

`NotiRegistry`: `open` is the process's descriptor table, `mine` the descriptor
each user of the library holds, `cont` the heap, `attached` the sources of the
main loop. A release is a sequence of numbers as `sscanf` finds them; the
buffer is uninitialized when both `uname` and `/proc/version` fail, and then any
release may be read from it.

`HeynotiTool`: `tool` is where each process is in `main()` and its locals. The
options and the two usage paths change nothing and are one action. `asked` and
`undone` are history: which files a `set -a` was run for, and which processes
hold a key that was unset under them. Creating a file takes an inode that is
neither linked nor open. Both opens of `set` may fail at any time, for want of a
descriptor, of memory or of space; after the first the tool tries the second.

`NotiName`: texts are sequences of a few characters, digits among them; the
decimal text of a process id is a constant function that is injective and gives
digits only. A negative `buf_size` becomes a large `size_t` for `snprintf`, which
then prints the whole text, while the `int` comparison reports a failure. `kept`
is an earlier successful call, to compare two names.

`NotiDirectory`: slots on one key and on `NOTI_ROOT`, the calls in one step
each; an event with a name cannot be read by the 16 bytes of
`struct inotify_event`. The queue merges equal events of a watch and takes one
overflow mark when it is full, as in `Inotify`.

`NotiTests`: a program is a sequence of steps (phase, call, valid or wrong
argument, and the test of the result that its source makes); the test harness
runs startup, purposes and cleanup and passes over deleted purposes. `excuse`
is history: the system or the key has failed the program. `thread_event` of the
poll test is a second thread that publishes.

## Runs

| Run | Bounds | Checks |
|---|---|---|
| `safety` | 2 keys that can be unset, 2 callbacks, 1 publisher, 2 files, 2 cells, 2 watch descriptors, queue of 2 | `TypeOK`, `DeafOnlyInWindow`, `DueIsQueued`, `ListensToItsKey`, `NoOvertaking`, `FailureKeepsSlots`, `NoOrphanWatch` |
| `stable` | 2 keys that stay, 2 callbacks, 1 publisher, 2 files, 3 cells, 3 watch descriptors, queue of 2 | `NoDuplicateSlot`, `SlotsMatchSubscribed`, `ImplementsService` |
| `live` | 1 key that can be unset, 2 callbacks, 1 publisher, 2 files, 2 cells, 2 watch descriptors, queue of 2 | `DueIsServed`, `ReturnsWhenQuiet` |
| `registry` | 4 descriptor numbers, 3 heap cells, 2 sources, 3 users, 6 releases | `TypeOK`, `DescriptorsOwned`, `SourcesMatch`, `OwnersIsolated`, `GateSound`, `ImplementsMap` |
| `reentrant` | 2 keys, 2 callbacks, 2 cells, 2 nested dispatches, queue of 2 | `TypeOK`, `CursorsLive`, `WalkIsExact`, `DueIsReachable`, `ImplementsCallbacks`, `DispatchShrinks`, `DispatchEnds` |
| `names` | 6 names of up to 3 characters, 2 process ids, buffers of -1, 0 and 3 to 9 bytes | `FitsExactly`, `NamesIdentify` |
| `tool` | 1 key, 3 files, 3 tools of which 2 are root's, a system and an application publisher | `TypeOK`, `OpenOnlyIfAsked`, `SetHoldsTheKey`, `WriterWasAllowed`, `ImplementsKeys` |
| `tests` | 12 programs, 1 key, 1 other publisher, 2 files, 1 cell | `TestTypeOK`, `VerdictsHold`, `CleanupCloses`, `TestsEnd` |
| `directory` | 1 key and its directory, queue of 5 | `TypeOK`, `AheadIsServed` |

Why the bounds are enough. Two callbacks on one key give the cases "other slots
remain" and "none remains"; two files let a key be set again while its old file
is still open; a second watch descriptor in `safety` lets the numbers of a new
instance meet those of an old slot, and the third in `stable` is for a
subscription after `inotify_rm_watch`; with two or three cells for four pairs of
key and callback `calloc` fails as well; a queue of two reaches merging, overflow
and dropping. Running out of descriptors (`MaxWd`) looks to the library like a
failing `inotify_add_watch`. In `registry` the fourth number lets a file of the
process take a number between two containers, and three cells and two sources
make `calloc` and GLib's attach run out. In `reentrant` one nested dispatch is
what makes two cursors stand in one list. In `tool` the second root process is
the race of two sets, and the third file a key set anew while two tools hold
old ones. In `names` the buffers go below, to and above every text, and the ids
1 and 11 with names that begin with a digit or an underscore are those a
missing separator would confuse. A queue of five in `directory` holds two
publishes and the mark of a removed watch, and can be full. All but the liveness properties are
also proved without any bound.

`SlotsMatchSubscribed` and `ImplementsService` are stated for keys that stay set:
a slot of a key that was unset is not found again (see `UnsubscribedIsGone`
below). What holds without that restriction is in `safety`: a call that returns
-1 has changed no slot (`FailureKeepsSlots`), and no watch is left that queues
events for nobody (`NoOrphanWatch`). Both have exceptions, and they are the
code's: `_del_noti` frees the slots before its last system call, which fails if
the key was unset meanwhile, and a failing `calloc` comes after the watch is
placed. The properties say that nothing else gets there, and `safety` reaches
each exception.

### Where code and documentation disagree

Three runs end in a violation:

| Run | The code | The text |
|---|---|---|
| `window` (`PublishReachesSlots`) | a publish between `__get_wd` and `__add_wd` of a call for another callback is lost | `SLP_Heynoti_PG.h:126` |
| `reentrant_unsub` (`UnsubscribeAnywhere`) | a callback that unsubscribes itself frees the node the walk continues from | `heynoti.h:266-268`: no restriction |
| `directory_starved` (`EveryPublishServed`) | an event with a name is never read and blocks all later ones until `heynoti_close` | `heynoti.h:435-437` |

The other ones met while modelling are stated as properties in the modules too,
under "What the documentation says and the code does not do". TLC reports each
as violated when it is the only property of the configuration named
(`PublishMeetsSubscribe` as an invariant):

| Property | Configuration | The code | The text |
|---|---|---|---|
| `UnsubscribeReturnsZero` | `MCHeynoti_stable.cfg` | unsubscribing one of two callbacks returns a positive descriptor (`heynoti.c:444`) | `heynoti.h:278` "0 - success", and the unit test's `if (r)` |
| `NothingDeletedFails` | `MCHeynoti_stable.cfg` | unsubscribing nothing returns 0 if no slot is on the descriptor (`heynoti.c:433`) | `heynoti.c:439` "Error: nothing deleted" |
| `UnsubscribedIsGone` | `MCHeynoti_safety.cfg` | after unset and set, unsubscribe returns 0 and keeps the slot (`heynoti.c:460`) | `heynoti.h:258` |
| `SubscribedIsWired` | `MCHeynoti_safety.cfg` | unset and set inside a subscribe: it returns 0, the slot is deaf (`heynoti.c:374`) | `heynoti.h:198` |
| `PollWakesForNotification` | `MCHeynoti_safety.cfg` | `heynoti_poll_event` returns for an `IN_IGNORED` (`heynoti.c:298`) | `SLP_Heynoti_PG.h:91` |
| `PublishMeetsSubscribe` | `MCNotiName.cfg` | a name with a slash is a path to `heynoti_publish`, not to `heynoti_subscribe` (`heynoti.c:498`) | `heynoti.h:210`, `heynoti.h:333` "notification name" |
| `SetAllowsApplication` | `MCHeynotiTool.cfg` with one tool | `set -a` exits with 0 though `fchmod` failed (`heynotitool.c:140`, `143`) | `heynotitool.c:69` |

One is seen in `HeynotiReentrant` without a property: after a callback has
detached the handler, the loop that called it goes on calling others
(`heynoti.c:260`), while `heynoti.h:506` has the descriptor's callbacks
deactivated. Two more are in the programs: the cleanup of the poll_event test calls
`pthread_exit` before `heynoti_unsubscribe` and `heynoti_close`
(`utc_ApplicationFW_heynoti_poll_event_func.c:89`), so `CleanupCloses` leaves it
out; the guide's publisher takes the 0 of a success for failure
(`SLP_Heynoti_PG.h:138`), so `VerdictsHold` leaves it out.

### Fairness

`FairSpec` assumes weak fairness of the steps inside a library call (the thread
is scheduled; a blocked poll returns when there is something to read) and strong
fairness of `gio_cb`: the main loop polls its sources in every iteration and
dispatches the ready ones, while between iterations the application makes calls
of its own, so the source is enabled again and again but not continuously.
Nothing is assumed of the application, the publishers or the administrator.
`DueIsServed` is therefore stated while the handler stays attached, and
`ReturnsWhenQuiet` from the moment publishing stops.

`HeynotiReentrant` assumes weak fairness of the library's steps and of a
callback's return; `DispatchEnds` is stated for an application that stops making
calls, since a callback may subscribe for ever and the walk then goes on to its
new slots. In `NotiTests` the program and its thread keep running (the `sleep`
ends), and so do the calls they have made; it is assumed of the others only
that a publisher which has opened a file closes it. What wakes the poll test is
its own publish, or the mark of a removed watch if the key was unset; `TestsEnd`
is stated for others that stop publishing, as they could keep the drain loop
busy.
`NotiDirectory` has the fairness of `Heynoti`, and still starves.

## Proofs

`HeynotiProofs` proves, for every number of keys, callbacks, publishers, files
and cells, and every queue bound, that `TypeOK`, `NoDuplicateSlot`,
`DeafOnlyInWindow`, `DueIsQueued` and `ListensToItsKey` are invariants of
`Spec`. The assumptions are those of `Inotify` and `Heynoti`: `MaxWd` is a
natural number, `MaxQueue` a positive one, the removable keys are keys, and
`NULL` is none of the values it stands beside.

None of the last three is inductive. `IInv` adds:

* `WatchFresh`: descriptors in use are at most `lastwd` and two files never
  share one, so a watch added now cannot hit an old slot;
* `WatchedLives`: a watched file has a name or an opener, so the file
  `heynotitool set` gives a name has no watch;
* `DirInjective`: two keys never name one file;
* `WindowKey`: while a call is between its system calls, its descriptor is that
  of the key's file, or the key was unset and no named file has it;
* `WindowOK`, `ClosedClean`: a call in progress has a container and arguments
  that passed the tests, and a closed container has no slots.

The argument: `OpenWindow` shows that `__get_wd` makes deaf only what
`DeafOnlyInWindow` excuses; `SecondAddWatch`, `SecondCallFails` and `RmWatch`
show that each outcome of the second system call leaves `KernelRepaired`;
`WindowCloses` derives the invariant from it for any change of the slot list;
`WatchesShrink` covers the other processes, which only take watches away.
`EnqueueFacts` and `TailFacts` carry `DueIsQueued` through the queue.

`EventsAdvance` proves `NoOvertaking`, the half of `DueIsServed` that is not about
fairness: the event that will serve a slot is nearer to the head after each
read. All other steps extend the queue (`Extends`, from `EnqueueExtends` in
`InotifyProofs`: merging and dropping never touch what is there), or replace the
instance, when nothing is owed (`QueueGrows`); a read takes the head, and the
head calls every slot it matches (`ReadMovesUp`).

Its second part proves, when `Removable = {}`, that `Heynoti` implements
`NotiService` (`Refinement`) and that `SlotsMatchSubscribed` is an invariant
(`PromisesKept`). `IInv` alone allows slots of keys that were unset; `SInv`
adds that a slot's descriptor is that of its key's file (`SlotWired`), that so
is the one of the call in progress (`CallWired`), and that `subscribed` is what
the slots say (`Promised`). Then the slots found by descriptor are those of a
key (`SlotsOfKey`), which turns an event into one `Deliver`, a close into one
`Publish` or none, and shows that the second system call of an unsubscribe
fails only when there is nothing to delete.

`FailuresAreClean` and `NoWatchLeaks` prove `FailureKeepsSlots` and `NoOrphanWatch`
from the same `IInv`, whatever is unset and however little memory there is. While
the key is still the one `__get_wd` saw, its watch is there, so neither the second
`inotify_add_watch` nor `inotify_rm_watch` can fail (`KeyKept`) and descriptors
stay as they are (`SameDescriptors`): a subscribe then ends with a slot or with
`calloc` failing, an unsubscribe with slots that remain or without the watch.
Every other step only takes watches away (`ShrinkOwned`).

`NotiRegistryProofs`: the invariant `IInv` says that containers have distinct,
open descriptors, that owners hold the descriptor of a container of theirs, and
that handlers and sources point at each other. `get_noti_cont` is then the only
container with the number, whatever its place in the list; each call changes one
entry of the map, which gives the refinement of `NotiMap`. `VersionGate` needs
`ProcMounted`: a version parsed from an uninitialized buffer may be any. Its
arithmetic is that packed versions compare with 2.6.13 like the versions, since
the numbers after a 2 or less fit in a byte (`RegistryAssumption`).

`HeynotiReentrantProofs`, under `Careful`: `IInv` says that
cursors are listed, slots a walk still owes a call are ahead of its cursor and
those it has called are not (`FramesOK`), and that a `_del_noti` frees nothing a
walk stands on (`CallOK`). An append puts its slot ahead of every cursor; a
removal keeps the order of the rest, which the lemmas at the head of the module
say once for sequences.
`DueIsReachable` uses `InotifyProofs` for what the kernel does to the queue.

`DispatchTerminates` proves `DispatchShrinks`, the half of `DispatchEnds` that is
not about fairness. What it needs of `IInv` is that a cursor is listed: then its
successor is nearer to the end of the list (`NodesFacts`), whether or not the node
under the cursor was freed (`DelTurnShrinks`). A read lowers the number of
events before it raises the number of nodes, and a frame that ends lowers the
number of frames, which is why the measure is compared from the left.

`CallbacksRefined` proves that `HeynotiReentrant` implements `NotiCallbacks`. `RInv`
adds to `IInv` that keys do not share a descriptor (`WatchOK`), that a slot
listens to the watch of a key and is the only one there with its callback
(`ListOK`, so that slots and pairs correspond), that only the innermost frame is
outside a callback (`StackOK`), and of a `_del_noti` in progress that the watch of
its key is deaf, and that every slot of the descriptor is ahead of its cursor or
was passed and counted as remaining (`DelOK`). The last is what the proof turns on:
the loop frees what left when the call began and nothing else, the watch is
given back only when no slot listens to it, and meanwhile no publish of the key
is heard.

`HeynotiToolProofs`: `IInv` adds where in its run a tool has a file open
(`Stages`), and that whoever is going to open a file to applications has asked
for that file, as has whoever opened it before (`Requests`). A `create` takes no
file that is linked or open, so a request never passes to another file, and each
system call is a `NotiKeys` step or a stutter, of which only a publisher's close
wakes anyone.

`NotiNameProofs`: from the lengths and positions of the characters of a
concatenation. Neither a decimal text nor `SYS` has an underscore, so the first
one ends the tag and two equal texts have one tag and one name
(`TaggedInjective`); digits are not letters, so no process name is a system
name.

`NotiTestsProofs` is about the twelve programs with any number of other
publishers, any order of their steps and any refusal, in four layers.

* `ScriptOK` is what the scripts have in common: no call undoes what a later one
  relies on (`Ordered`), what a step tests is what its call promises (`Sound`),
  and a unit test that makes a container has a `close` that `tet_delete` does not
  take away. It is proved script by script (`Scripts`); nothing after it looks at
  a single program.
* `UInv` adds to `IInv` of `Heynoti` that the call in progress is that of the
  step at hand. So each step of a program is a step of `Heynoti`
  (`ProgramsUseLibrary`): what is proved of the library under any application
  holds under these, which is how `UInv` itself is kept.
* `CInv`: a container the program has is one it still has to close, and without
  a container there is no watch. This gives `CleanupIsComplete`.
* `PInv`: while there is nothing to excuse, the program is as planned: it has
  reported no failure, the key is set, and the container, the slot and the watch
  are there from the call that makes them to the call that takes them. Then the
  first system call of an unsubscribe finds its watch, the second system call
  always succeeds, and each test sees the result it expects (`VerdictsAreSound`).

`NotiDirectoryProofs`: `TypeOK` is inductive as it stands. From it,
`DirectoryStarves` shows that an event with a name at the head of the queue stays
there, whatever is subscribed, unsubscribed or published, until `heynoti_close`,
and that a slot of the key which waits for a call then goes on waiting. Run
`directory_starved` finds one such behaviour; the theorem says that none which
gets there recovers.

Assumptions beyond those on the constants: `Removable = {}` for the refinement
of the service and `PromisesKept`, `ProcMounted` for `VersionGate`, `Careful` for the theorems about re-entrancy.
The theorems about the programs need none: a failing `calloc` of a slot is among
the refusals that `excuse` counts, and they hold with no cell at all.

Only model-checked: the liveness properties (`DueIsServed`, `ReturnsWhenQuiet`,
`DispatchEnds`, `TestsEnd`, `AheadIsServed`), since liveness under fairness is
out of the prover's reach. Of `DueIsServed` and `DispatchEnds` the safety halves
are proved (`EventsAdvance`, `DispatchTerminates`). `NotiService` says
nothing of whether a publish is heard or an event delivered; the first is what
`DeafOnlyInWindow` and run `window` are about, the second is `DueIsServed`.

## Not modelled

* The text of log messages and the log macros (their early returns are in the
  actions), `cb_data` (passed through unread), `H_SIGNAL`, `H_ECORE`, `signo`
  and `oldact` (never used), `slot_comp` and `__make_noti_file` (never called).
* `heynoti_subscribe_file`, which the guide documents and the library does not
  have.
* `src/test`: main-loop programs whose calls `HeynotiReentrant` makes in every
  order.
* The three kinds of interleaving in one module: calls split at system calls
  (`Heynoti`), calls inside callbacks (`HeynotiReentrant`) and permissions
  (`HeynotiTool`). A library call inside a callback that meets an unset of its
  key between its two system calls is in none of them.
* A publish by the subscribing process itself in `Heynoti`: `heynoti_publish`
  touches no library state, so it is one more publisher. (`NotiTests` has one.)
* A `heynotitool` that holds an unset key's file open: it delays the end of the
  file and of its watch as a publisher does, which `Heynoti` has.
* Option parsing of `heynotitool` (`g_option_context_parse`, prefixes of `set`):
  a run does one of the commands or shows its usage.
* That `heynotitool` and the library lead a name to one file: the tool has its own
  literal (`HEYNOTI_PREFIX`, `heynotitool.c:43`) and the library's `NOTI_ROOT` can
  be overridden at build time (`heynoti.c:44`); they agree in this repository, and
  the models of keys take that for given, as they do names that fit the path
  buffers.
* Read errors other than `EAGAIN` and `EINVAL` in the drain loop, which end it
  as well; threads: the library has no locks and expects one thread.

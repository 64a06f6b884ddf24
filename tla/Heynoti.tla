------------------------------- MODULE Heynoti -------------------------------
(***************************************************************************)
(* libheynoti (heynoti.c) behind one descriptor: a process that subscribes *)
(* callbacks to notification keys, and the processes around it that        *)
(* publish a key (open and close its file) or administrate it (heynotitool *)
(* set and unset).                                                         *)
(*                                                                         *)
(* The library runs on the application's thread. Its calls are split at    *)
(* the system calls, where the other processes get in: heynoti_subscribe   *)
(* and heynoti_unsubscribe first call __get_wd, which sets the watch of    *)
(* the key to IN_ACCESS, and then change the slot list and call            *)
(* inotify_add_watch again (or inotify_rm_watch). The callbacks here make  *)
(* no call of the library, so one event is dispatched in one step.         *)
(***************************************************************************)
EXTENDS Inotify, FiniteSets

CONSTANTS
  Noti,        \* notification keys: names of files under NOTI_ROOT
  Removable,   \* the keys an administrator may unset
  Callback,    \* callback functions of the application
  Publisher,   \* processes that call heynoti_publish
  Node,        \* heap cells for struct noti_slot; calloc fails without one
  NULL

ASSUME HeynotiAssumption ==
  /\ Removable \subseteq Noti
  /\ NULL \notin Noti /\ NULL \notin Callback /\ NULL \notin Inode

VARIABLES
  dir,         \* the directory NOTI_ROOT: key -> file
  fd,          \* publisher -> file it has open for writing
  nc,          \* is the descriptor in g_nc (between init and close)?
  ht,          \* handler type of the container
  g_ns,        \* the slots of the container
  call,        \* the library call in progress, with its locals
  rc,          \* what the last call returned
  subscribed,  \* history: the subscriptions the return values promise
  due          \* history: slots owed a call for a publish they could hear

kernel  == <<watch, lastwd, queue>>
files   == <<dir, fd>>
history == <<subscribed, due>>
vars    == <<kernel, files, nc, ht, g_ns, call, rc, history>>

-----------------------------------------------------------------------------

SubMask == {"IN_CLOSE_WRITE", "IN_DELETE"}

\* noti_slot; the key is not a field of the struct, properties use it.
Slot == [node : Node, wd : 1 .. MaxWd, cb : Callback, noti : Noti]

SlotsOf(wd) == {s \in g_ns : s.wd = wd}

Op   == {"idle", "subscribe", "unsubscribe", "poll_event", "handle_event"}
Call == [op : Op, noti : Noti \cup {NULL}, cb : Callback \cup {NULL}, wd : 0 .. MaxWd]

Doing(op) == [op |-> op, noti |-> NULL, cb |-> NULL, wd |-> 0]
Idle      == Doing("idle")

\* After __get_wd and before the second system call.
InWindow == call.op \in {"subscribe", "unsubscribe"}

Linked(i) == \E n \in Noti : dir[n] = i
Held(i, others) == \E p \in others : fd[p] = i

-----------------------------------------------------------------------------

\* inotify_add_watch(fd, notipath, mask) in __get_wd and __add_wd.
inotify_add_watch(noti, mask) ==
  /\ dir[noti] # NULL
  /\ add_watch(dir[noti], mask)

\* It fails on a key that is not set, and may for lack of a new watch.
inotify_add_watch_fails(noti) ==
  /\ dir[noti] \notin {i \in Inode : Watched(i)}
  /\ UNCHANGED kernel

\* The mask __add_wd asks for: that of every slot of the descriptor, and mask.
MaskOnlyNew(slots, mask) == mask                   \* mutant: overwrites theirs
MaskAll(slots, mask) == mask \cup UNION {SubMask : s \in slots}

\* A call that returns to the application at once.
Return(r) ==
  /\ rc' = r
  /\ call' = Idle

-----------------------------------------------------------------------------
(* Life of the container.                                                  *)

heynoti_init ==
  /\ call = Idle /\ ~nc
  /\ \/ /\ Return(-1)             \* kernel too old, no inotify, root, memory
        /\ UNCHANGED <<kernel, nc>>
     \/ /\ Return(0)
        /\ nc' = TRUE
        /\ fresh_instance
  /\ UNCHANGED <<files, ht, g_ns, history>>

KeepsSlots == UNCHANGED g_ns    \* mutant: the container stays in g_nc, for the next instance
clear_nslot_list == g_ns' = {}

heynoti_close ==
  /\ call = Idle /\ nc
  /\ nc' = FALSE
  /\ ht' = "H_NONE"
  /\ clear_nslot_list
  /\ fresh_instance
  /\ subscribed' = {} /\ due' = {}
  /\ UNCHANGED <<files, call, rc>>

heynoti_attach_handler ==
  /\ call = Idle
  /\ \/ /\ Return(-1)             \* EBADF, EINPROGRESS, or GLib refuses
        /\ UNCHANGED ht
     \/ /\ nc /\ ht = "H_NONE"
        /\ Return(0)
        /\ ht' = "H_GLIB"
  /\ UNCHANGED <<kernel, files, nc, g_ns, history>>

heynoti_detach_handler ==
  /\ call = Idle
  /\ Return(IF nc THEN 0 ELSE -1)
  /\ ht' = "H_NONE"
  /\ UNCHANGED <<kernel, files, nc, g_ns, history>>

-----------------------------------------------------------------------------
(* Subscribing.                                                            *)

\* EINVAL, EBADF
AcceptsNullCallback(noti, cb) == noti = NULL \/ ~nc     \* mutant: cb not tested
BadSubscribe(noti, cb) == noti = NULL \/ cb = NULL \/ ~nc

\* heynoti_subscribe and __add_noti up to and including __get_wd.
heynoti_subscribe(noti, cb) ==
  /\ call = Idle
  /\ \/ /\ BadSubscribe(noti, cb)
        /\ Return(-1)
        /\ UNCHANGED kernel
     \/ /\ ~BadSubscribe(noti, cb)
        /\ \/ /\ inotify_add_watch_fails(noti)
              /\ Return(-1)
           \/ /\ inotify_add_watch(noti, {"IN_ACCESS"})
              /\ call' = [op |-> "subscribe", noti |-> noti, cb |-> cb,
                          wd |-> WdFor(dir[noti])]
              /\ UNCHANGED rc
  /\ UNCHANGED <<files, nc, ht, g_ns, history>>

\* The search for a slot of the same descriptor and callback.
MissingBreak(wd, cb) ==                            \* mutant: the last slot decides
  g_ns # {} /\ \A s \in g_ns : s.wd = wd /\ s.cb = cb
Found(wd, cb) == \E s \in g_ns : s.wd = wd /\ s.cb = cb

\* The rest of __add_noti. The slot keeps the descriptor __get_wd returned,
\* whatever file __add_wd found under the name.
add_noti ==
  LET found == Found(call.wd, call.cb)
      free  == Node \ {s.node : s \in g_ns}
  IN
  /\ call.op = "subscribe"
  /\ \/ /\ found                                 \* EALREADY
        /\ \/ inotify_add_watch(call.noti, MaskAll(SlotsOf(call.wd), {}))
           \/ inotify_add_watch_fails(call.noti)
        /\ Return(-1)
        /\ UNCHANGED <<g_ns, subscribed>>
     \/ /\ ~found
        /\ inotify_add_watch_fails(call.noti)
        /\ Return(-1)
        /\ UNCHANGED <<g_ns, subscribed>>
     \/ /\ ~found
        /\ inotify_add_watch(call.noti, MaskAll(SlotsOf(call.wd), SubMask))
        /\ \/ /\ free = {}                       \* ENOMEM
              /\ Return(-1)
              /\ UNCHANGED <<g_ns, subscribed>>
           \/ \E x \in free :
                /\ g_ns' = g_ns \cup {[node |-> x, wd |-> call.wd, cb |-> call.cb,
                                       noti |-> call.noti]}
                /\ subscribed' = subscribed \cup {<<call.noti, call.cb>>}
                /\ Return(0)
  /\ UNCHANGED <<files, nc, ht, due>>

\* heynoti_unsubscribe and del_noti up to and including __get_wd; cb = NULL
\* stands for every callback of the key.
heynoti_unsubscribe(noti, cb) ==
  /\ call = Idle
  /\ \/ /\ noti = NULL \/ ~nc                    \* EINVAL, EBADF
        /\ Return(-1)
        /\ UNCHANGED kernel
     \/ /\ noti # NULL /\ nc
        /\ \/ /\ inotify_add_watch_fails(noti)
              /\ Return(-1)
           \/ /\ inotify_add_watch(noti, {"IN_ACCESS"})
              /\ call' = [op |-> "unsubscribe", noti |-> noti, cb |-> cb,
                          wd |-> WdFor(dir[noti])]
              /\ UNCHANGED rc
  /\ UNCHANGED <<files, nc, ht, g_ns, history>>

\* Slots of descriptor wd that _del_noti frees, and those it counts as left.
DeletesAll(wd, cb) == SlotsOf(wd)                  \* mutant: cb not compared
Deleted(wd, cb) == {s \in SlotsOf(wd) : cb = NULL \/ cb = s.cb}

CountsDeleted(wd, cb) == SlotsOf(wd)               \* mutant: n_remain++ not in else
Remain(wd, cb) == SlotsOf(wd) \ Deleted(wd, cb)

\* With slots left on the descriptor a call that deleted some returns r, what
\* inotify_add_watch returned: a positive number.
TestsRemain(deleted, r) == -1                      \* mutant: n_remain tested, not n_del
Result(deleted, r) == IF deleted = {} THEN -1 ELSE r

\* _del_noti.
del_noti ==
  LET deleted == Deleted(call.wd, call.cb)
      remain  == Remain(call.wd, call.cb)
      still   == {i \in Inode : watch[i].wd = call.wd}
  IN
  /\ call.op = "unsubscribe"
  /\ g_ns' = g_ns \ deleted
  /\ due'  = due \ deleted
  /\ \/ /\ remain = {} /\ still = {}             \* the watch died meanwhile
        /\ Return(-1)
        /\ UNCHANGED kernel
     \/ /\ remain = {}
        /\ \E i \in still : drop_watch(i, queue)
        /\ Return(0)
     \/ /\ remain # {}
        /\ inotify_add_watch_fails(call.noti)
        /\ Return(-1)
     \/ /\ remain # {}
        /\ inotify_add_watch(call.noti, MaskAll(remain, {}))
        /\ Return(Result(deleted, WdFor(dir[call.noti])))
  /\ subscribed' = IF rc' >= 0
                   THEN {u \in subscribed : ~(u[1] = call.noti /\ call.cb \in {NULL, u[2]})}
                   ELSE subscribed
  /\ UNCHANGED <<files, nc, ht>>

-----------------------------------------------------------------------------
(* Receiving.                                                              *)

\* The GLib main loop finds the descriptor readable.
gio_cb ==
  /\ call = Idle /\ ht = "H_GLIB" /\ queue # << >>
  /\ call' = Doing("handle_event")
  /\ UNCHANGED <<kernel, files, nc, ht, g_ns, rc, history>>

heynoti_poll_event ==
  /\ call = Idle
  /\ \/ /\ ~nc \/ ht # "H_NONE"                  \* EBADF, EALREADY
        /\ Return(-1)
     \/ /\ nc /\ ht = "H_NONE"
        /\ call' = Doing("poll_event")
        /\ UNCHANGED rc
  /\ UNCHANGED <<kernel, files, nc, ht, g_ns, history>>

\* poll() returns; its value, one descriptor ready, is the call's.
poll_returns ==
  /\ call.op = "poll_event" /\ queue # << >>
  /\ call' = Doing("handle_event")
  /\ rc' = 1
  /\ UNCHANGED <<kernel, files, nc, ht, g_ns, history>>

\* poll() is interrupted by a signal.
poll_fails ==
  /\ call.op = "poll_event"
  /\ Return(-1)
  /\ UNCHANGED <<kernel, files, nc, ht, g_ns, history>>

\* The slots __handle_callback calls for event e.
CallsNone(e) ==                                    \* mutant: subscribes to IN_DELETE only
  {s \in SlotsOf(e.wd) : e.mask = "IN_DELETE"}
CallsFirst(e) ==                                   \* mutant: stops at the first match
  LET matching == {s \in SlotsOf(e.wd) : e.mask \in SubMask}
  IN  IF matching = {} THEN {} ELSE {CHOOSE s \in matching : TRUE}
Called(e) == {s \in SlotsOf(e.wd) : e.mask \in SubMask}

\* __handle_event: one turn of its loop.
read_event ==
  /\ call.op = "handle_event" /\ queue # << >>
  /\ queue' = Tail(queue)
  /\ due' = due \ Called(Head(queue))
  /\ UNCHANGED <<watch, lastwd, files, nc, ht, g_ns, call, rc, subscribed>>

RetriesRead ==                                     \* mutant: EAGAIN does not end the loop
  /\ call.op = "handle_event" /\ queue = << >>
  /\ UNCHANGED vars

\* The end of the loop: the read finds the queue empty.
read_ends ==
  /\ call.op = "handle_event" /\ queue = << >>
  /\ call' = Idle
  /\ UNCHANGED <<kernel, files, nc, ht, g_ns, rc, history>>

handle_event == read_event \/ read_ends

-----------------------------------------------------------------------------
(* The other processes.                                                    *)

\* A close of file i that the subscribers of its watch can hear: the key is
\* still set, no call holds the watch at IN_ACCESS, the queue has room.
Audible(i) ==
  /\ Linked(i)
  /\ ~(InWindow /\ call.wd = watch[i].wd)
  /\ Len(queue) < MaxQueue

\* heynoti_publish: the open, which fails on a key that is not set.
publish_open(p, noti) ==
  /\ fd[p] = NULL /\ dir[noti] # NULL
  /\ fd' = [fd EXCEPT ![p] = dir[noti]]
  /\ UNCHANGED <<kernel, dir, nc, ht, g_ns, call, rc, history>>

\* heynoti_publish: the close, which notifies; a removed file that nobody
\* has open any more goes away, and its watch with it.
publish_close(p) ==
  LET i == fd[p] IN
  /\ i # NULL
  /\ fd' = [fd EXCEPT ![p] = NULL]
  /\ IF Linked(i) \/ Held(i, Publisher \ {p})
     THEN /\ queue' = QueueAfterClose(i)
          /\ UNCHANGED <<watch, lastwd>>
     ELSE drop_watch(i, QueueAfterClose(i))
  /\ due' = IF Audible(i) THEN due \cup SlotsOf(watch[i].wd) ELSE due
  /\ UNCHANGED <<dir, nc, ht, g_ns, call, rc, subscribed>>

\* heynotitool set: creates the key's file unless it is there.
tool_set(noti) ==
  /\ dir[noti] = NULL
  /\ \E i \in Inode : /\ ~Linked(i) /\ ~Held(i, Publisher)
                      /\ dir' = [dir EXCEPT ![noti] = i]
  /\ UNCHANGED <<kernel, fd, nc, ht, g_ns, call, rc, history>>

\* heynotitool unset: removes the file; it lives on while it is open.
tool_unset(noti) ==
  LET i == dir[noti] IN
  /\ i # NULL
  /\ dir' = [dir EXCEPT ![noti] = NULL]
  /\ IF Held(i, Publisher) THEN UNCHANGED kernel ELSE drop_watch(i, queue)
  /\ UNCHANGED <<fd, nc, ht, g_ns, call, rc, history>>

-----------------------------------------------------------------------------

Init ==
  /\ InotifyInit
  /\ dir = [n \in Noti |-> NULL]
  /\ fd = [p \in Publisher |-> NULL]
  /\ nc = FALSE
  /\ ht = "H_NONE"
  /\ g_ns = {}
  /\ call = Idle
  /\ rc = 0
  /\ subscribed = {}
  /\ due = {}

Application ==
  \/ heynoti_init
  \/ heynoti_close
  \/ heynoti_attach_handler
  \/ heynoti_detach_handler
  \/ heynoti_poll_event
  \/ \E n \in Noti \cup {NULL}, c \in Callback \cup {NULL} :
       heynoti_subscribe(n, c) \/ heynoti_unsubscribe(n, c)

Library == add_noti \/ del_noti \/ gio_cb \/ poll_returns \/ poll_fails \/ handle_event

Environment ==
  \/ \E p \in Publisher : publish_close(p) \/ \E n \in Noti : publish_open(p, n)
  \/ \E n \in Noti : tool_set(n)
  \/ \E n \in Removable : tool_unset(n)

Next == Application \/ Library \/ Environment

Spec == Init /\ [][Next]_vars

(***************************************************************************)
(* Fairness. A call the thread has entered goes on to its next system call *)
(* and a loop to its next turn: weak fairness of the library's own steps.  *)
(* GLib dispatches every ready source of a priority in each iteration of   *)
(* the main loop, but between iterations the application is busy with      *)
(* calls of its own, so the source is ready again and again rather than    *)
(* continuously: strong fairness of gio_cb. Nothing is assumed of the      *)
(* application's calls or of other processes.                              *)
(***************************************************************************)
Fairness ==
  /\ WF_vars(add_noti) /\ WF_vars(del_noti)
  /\ WF_vars(poll_returns) /\ WF_vars(handle_event)
  /\ SF_vars(gio_cb)

FairSpec == Spec /\ Fairness

-----------------------------------------------------------------------------
(* Safety.                                                                 *)

\* The library only ever holds slots, descriptors and calls it may hold: no
\* slot without callback or descriptor, no event of an unknown descriptor.
TypeOK ==
  /\ InotifyTypeOK
  /\ dir \in [Noti -> Inode \cup {NULL}]
  /\ fd \in [Publisher -> Inode \cup {NULL}]
  /\ nc \in BOOLEAN
  /\ ht \in {"H_NONE", "H_GLIB"}
  /\ g_ns \subseteq Slot
  /\ call \in Call
  /\ rc \in -1 .. MaxWd \cup {1}
  /\ subscribed \subseteq Noti \X Callback
  /\ due \subseteq Slot

\* The list never holds two slots with one descriptor and callback, so an
\* event calls a callback at most once (the search in __add_noti, whose
\* __get_wd may hand back a descriptor that already has slots).
NoDuplicateSlot ==
  \A s, t \in g_ns : s.wd = t.wd /\ s.cb = t.cb => s = t

\* A slot whose watch exists hears publishes, unless a subscribe or
\* unsubscribe of the same key is between its two system calls, or the key
\* was unset: every way out of __add_noti and _del_noti puts back the mask
\* that __get_wd replaced by IN_ACCESS.
DeafOnlyInWindow ==
  \A s \in g_ns, i \in Inode :
    watch[i].wd = s.wd =>
      \/ SubMask \subseteq watch[i].mask
      \/ InWindow /\ call.wd = s.wd
      \/ ~Linked(i)

\* A publish that a slot could hear is not forgotten: its event waits in the
\* queue until __handle_event dispatches it to that slot, through merging,
\* overflow, calls for other callbacks of the key and removal of the key.
DueIsQueued ==
  /\ due \subseteq g_ns
  /\ \A s \in due : InQueue(queue, Closed(s.wd))

\* A slot never listens to the file of another key, whatever files were
\* removed and set again since __get_wd returned its descriptor.
ListensToItsKey ==
  \A s \in g_ns, n \in Noti :
    dir[n] # NULL /\ watch[dir[n]].wd = s.wd => n = s.noti

\* What a slot is owed is never overtaken: the event that will serve it only
\* moves towards the head of the queue, with every read, whatever is queued,
\* merged or dropped behind it.
NoOvertaking ==
  [][\A s \in due \cap due', k \in 1 .. Len(queue) :
       queue[k] = Closed(s.wd) =>
         \E j \in 1 .. k :
           /\ j <= Len(queue') /\ queue'[j] = Closed(s.wd)
           /\ read_event => j < k]_vars

\* Between calls the slots are exactly the subscriptions the return values
\* promise: no slot outlives a successful unsubscribe, and no failed one
\* drops a slot. Holds as long as keys are not unset.
SlotsMatchSubscribed ==
  call = Idle => subscribed = {<<s.noti, s.cb>> : s \in g_ns}

\* Since __get_wd the key has lost the file that was found under its name.
KeyLost == dir[call.noti] = NULL \/ watch[dir[call.noti]].wd # call.wd

\* A call that fails leaves the slots as they were: only an unset between its
\* two system calls makes an unsubscribe report failure after it has freed
\* slots.
FailureKeepsSlots ==
  [][InWindow /\ call' = Idle /\ rc' = -1 /\ g_ns' # g_ns => KeyLost]_vars

\* A watch that no slot and no call in progress needs queues events for nobody.
\* One is left behind only by a subscribe that finds no memory after it has
\* placed the watch, or by a call whose key was unset under it; so any other
\* unsubscribe takes the watch of its key away unless slots remain.
Orphan(i) ==
  Watched(i) /\ SlotsOf(watch[i].wd) = {} /\ ~(InWindow /\ call.wd = watch[i].wd)
OutOfMemory ==
  call.op = "subscribe" /\ rc' = -1 /\ \A x \in Node : \E s \in g_ns : s.node = x

NoOrphanWatch ==
  [][\A i \in Inode : Orphan(i)' /\ ~Orphan(i) =>
       InWindow /\ call' = Idle /\ (OutOfMemory \/ KeyLost)]_vars

-----------------------------------------------------------------------------
(* What the documentation says and the code does not do.                   *)

\* A publish that succeeds reaches the processes that watch the event: the
\* close of a set key's file leaves an event for every slot on its watch, at
\* least while the queue has room, except those an unsubscribe is removing.
Leaving == IF call.op = "unsubscribe" THEN Deleted(call.wd, call.cb) ELSE {}

PublishReachesSlots ==
  [][\A p \in Publisher :
       publish_close(p) /\ Linked(fd[p]) /\ Len(queue) < MaxQueue =>
         \A s \in SlotsOf(watch[fd[p]].wd) \ Leaving : InQueue(queue', Closed(s.wd))]_vars

\* heynoti_unsubscribe returns 0 or -1.
UnsubscribeReturnsZero ==
  [][call.op = "unsubscribe" /\ call' = Idle => rc' \in {0, -1}]_vars

\* An unsubscribe that finds no slot to delete fails.
NothingDeletedFails ==
  [][call.op = "unsubscribe" /\ call' = Idle /\ g_ns' = g_ns => rc' = -1]_vars

\* A successful unsubscribe unregisters the callback: no slot of that key and
\* callback is left to call it.
UnsubscribedIsGone ==
  [][call.op = "unsubscribe" /\ call' = Idle /\ rc' >= 0 =>
       \A s \in g_ns' : ~(s.noti = call.noti /\ call.cb \in {NULL, s.cb})]_vars

\* A successful subscribe registers for the key: if its file is there, the
\* watch of the file is the one the slot listens to.
SubscribedIsWired ==
  [][call.op = "subscribe" /\ call' = Idle /\ rc' = 0 /\ dir[call.noti] # NULL =>
       \E s \in g_ns' : /\ s.noti = call.noti /\ s.cb = call.cb
                        /\ watch'[dir[call.noti]].wd = s.wd]_vars

\* heynoti_poll_event blocks until a notification is received: when poll
\* returns, some queued event is for a slot.
PollWakesForNotification ==
  [][poll_returns => \E k \in 1 .. Len(queue) : Called(queue[k]) # {}]_vars

-----------------------------------------------------------------------------
(* Liveness, under FairSpec.                                               *)

\* While the GLib handler stays attached, a slot that is owed a call gets it
\* (or is unsubscribed first), however much is published meanwhile.
DueIsServed ==
  \A x \in Node :
    (\E s \in due : s.node = x) /\ ht = "H_GLIB"
      ~> (~\E s \in due : s.node = x) \/ ht # "H_GLIB"

\* __handle_event reads until the queue is empty, so it holds the thread as
\* long as others publish; once they stop, it gives it back.
ReturnsWhenQuiet ==
  <>[][\A p \in Publisher : ~publish_close(p)]_vars
    => (call.op = "handle_event" ~> call.op # "handle_event")
==============================================================================

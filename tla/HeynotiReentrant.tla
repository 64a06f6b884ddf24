-------------------------- MODULE HeynotiReentrant --------------------------
(***************************************************************************)
(* The dispatch of events by heynoti.c when callbacks call the library.    *)
(*                                                                         *)
(* __handle_callback walks the list g_ns of the container with a cursor    *)
(* while the callbacks it calls may append to the list, remove from it,    *)
(* detach and attach the handler, and drain the queue in a                 *)
(* heynoti_poll_event or a main loop of their own: the __handle_event      *)
(* calls in progress form a stack of frames.                               *)
(* Everything here runs on the application's thread, so calls of the       *)
(* library are not interleaved with each other and only other processes'   *)
(* publishes come between; module Heynoti splits the calls at the system   *)
(* calls, but has callbacks that return at once. Keys are set and stay so. *)
(* Calls that fail before their first system call change nothing and are   *)
(* left out.                                                               *)
(***************************************************************************)
EXTENDS Inotify, FiniteSets, SequencesExt

CONSTANTS
  Callback,     \* callback functions of the application
  Cell,         \* heap cells, one for a noti_slot and its GList node
  MaxDepth,     \* bound: nested __handle_event calls
  Careful,      \* no callback frees a slot that a walk stands on
  NULL

Key == Inode    \* one file per key

ASSUME ReentrantAssumption ==
  /\ MaxDepth \in Nat
  /\ Careful \in BOOLEAN
  /\ NULL \notin Cell /\ NULL \notin Callback

VARIABLES
  nc,           \* is the descriptor in g_nc?
  ht,           \* handler type of the container
  g_ns,         \* the slots of the container, in list order
  slot,         \* the contents of the cells, freed ones included
  frames,       \* the __handle_event calls in progress, innermost last
  call,         \* the _del_noti in progress, or Idle
  due           \* history: slots owed a call for a publish inotify reported

kernel == <<watch, lastwd, queue>>
vars   == <<kernel, nc, ht, g_ns, slot, frames, call, due>>

-----------------------------------------------------------------------------

SubMask == {"IN_CLOSE_WRITE", "IN_DELETE"}

Slot == [wd : 0 .. MaxWd, cb : Callback \cup {NULL}]

\* A frame: whether gio_cb made the call for the source attached now, which GLib
\* then takes to be busy, the event it has read, the phase of its loop,
\* the cursor `it`. "poll": still in poll(); "read": before read(); "walk": at
\* the head of the loop of __handle_callback; "called": inside a callback.
\* History: the slots listed when the event was read and not yet called for
\* it, and the slots called for it.
Frame == [busy : BOOLEAN, ie : Event,
          phase : {"poll", "read", "walk", "called"},
          it : Cell \cup {NULL}, owed : SUBSET Cell, called : SUBSET Cell]

Idle == [op |-> "idle", key |-> NULL, cb |-> NULL, wd |-> 0, it |-> NULL, remain |-> FALSE]
Call == [op : {"idle", "unsubscribe"}, key : Key \cup {NULL}, cb : Callback \cup {NULL},
         wd : 0 .. MaxWd, it : Cell \cup {NULL}, remain : BOOLEAN]

Listed   == ToSet(g_ns)
FreeCell == Cell \ Listed

SlotsOf(wd) == {c \in Listed : slot[c].wd = wd}
Selected(wd, cb) == {c \in SlotsOf(wd) : cb \in {NULL, slot[c].cb}}

MaskAll(slots, mask) == mask \cup UNION {SubMask : s \in slots}

\* The list node after c, where c is in the list.
Position(c) == CHOOSE k \in DOMAIN g_ns : g_ns[k] = c
SkipsOne(c) ==                                      \* mutant: advances twice
  IF Position(c) + 1 >= Len(g_ns) THEN NULL ELSE g_ns[Position(c) + 2]
After(c) == IF Position(c) = Len(g_ns) THEN NULL ELSE g_ns[Position(c) + 1]

FirstSlot == IF g_ns = << >> THEN NULL ELSE Head(g_ns)

\* The values a read of c->next may give: for a freed node, what is there.
RestartsAtHead(c) == {FirstSlot}                    \* mutant: begins anew after a callback
NextOf(c) == IF c \in Listed THEN {After(c)} ELSE Cell \cup {NULL}

\* The innermost frame, and its replacement.
In(phase) == frames # << >> /\ Last(frames).phase = phase
Becomes(frame) == frames' = [frames EXCEPT ![Len(frames)] = frame]
Push(busy, phase) ==
  frames' = Append(frames, [busy |-> busy, ie |-> Overflow, phase |-> phase, it |-> NULL,
                            owed |-> {}, called |-> {}])
Pop == frames' = Front(frames)

\* g_source_destroy: a gio_cb in progress for the source goes on, though the
\* source is no longer the one that is attached.
Detached(frame) == [frame EXCEPT !.busy = FALSE]

\* The application runs: in its main loop, or in a callback.
Running == call = Idle /\ (frames = << >> \/ In("called"))

Cursors == {frames[k].it : k \in DOMAIN frames}

-----------------------------------------------------------------------------
(* Calls of the application.                                               *)

heynoti_init ==
  /\ Running /\ frames = << >> /\ ~nc
  /\ nc' = TRUE
  /\ fresh_instance
  /\ UNCHANGED <<ht, g_ns, slot, frames, call, due>>

\* Frames of a closed container keep their cursors, now into freed memory.
heynoti_close ==
  /\ Running /\ nc
  /\ Careful => frames = << >>
  /\ nc' = FALSE /\ ht' = "H_NONE" /\ g_ns' = << >>
  /\ fresh_instance
  /\ frames' = [k \in DOMAIN frames |->
                  [Detached(frames[k]) EXCEPT !.owed = {}, !.called = {}]]
  /\ due' = {}
  /\ UNCHANGED <<slot, call>>

heynoti_attach_handler ==
  /\ Running /\ nc /\ ht = "H_NONE"
  /\ ht' = "H_GLIB"
  /\ UNCHANGED <<kernel, nc, g_ns, slot, frames, call, due>>

heynoti_detach_handler ==
  /\ Running /\ nc /\ ht = "H_GLIB"
  /\ ht' = "H_NONE"
  /\ frames' = [k \in DOMAIN frames |-> Detached(frames[k])]
  /\ UNCHANGED <<kernel, nc, g_ns, slot, call, due>>

\* __add_noti: the new slot goes to the end of the list.
NoWd(wd, cb) == [wd |-> 0, cb |-> cb]               \* mutant: n->wd not assigned
NewSlot(wd, cb) == [wd |-> wd, cb |-> cb]

\* Calls whose inotify_add_watch fails change nothing either.
heynoti_subscribe(key, cb) ==
  LET wd == WdFor(key)
      found == \E c \in SlotsOf(wd) : slot[c].cb = cb
  IN
  /\ Running /\ nc
  /\ add_watch(key, MaskAll(SlotsOf(wd), IF found THEN {} ELSE SubMask))
  /\ \/ /\ found \/ FreeCell = {}                     \* EALREADY, ENOMEM
        /\ UNCHANGED <<g_ns, slot>>
     \/ /\ ~found
        /\ \E c \in FreeCell :
             /\ g_ns' = Append(g_ns, c)
             /\ slot' = [slot EXCEPT ![c] = NewSlot(wd, cb)]
  /\ UNCHANGED <<nc, ht, frames, call, due>>

\* heynoti_unsubscribe and del_noti up to the loop of _del_noti.
heynoti_unsubscribe(key, cb) ==
  LET wd == WdFor(key) IN
  /\ Running /\ nc
  /\ Careful => Selected(wd, cb) \cap Cursors = {}
  /\ add_watch(key, {"IN_ACCESS"})
  /\ call' = [op |-> "unsubscribe", key |-> key, cb |-> cb, wd |-> wd, it |-> FirstSlot,
              remain |-> FALSE]
  /\ UNCHANGED <<nc, ht, g_ns, slot, frames, due>>

\* One turn of that loop, which saves it->next before it frees the node.
ReadsFreed(c) == c                                  \* mutant: reads it->next after the free
it_next(c) == After(c)

del_turn ==
  LET c == call.it IN
  /\ call.op = "unsubscribe" /\ c # NULL
  /\ IF c \in Selected(call.wd, call.cb)
     THEN /\ g_ns' = RemoveAt(g_ns, Position(c))
          /\ frames' = [k \in DOMAIN frames |->
                          [frames[k] EXCEPT !.owed = @ \ {c}, !.called = @ \ {c}]]
          /\ due' = due \ {c}
          /\ call' = [call EXCEPT !.it = it_next(c)]
     ELSE /\ call' = [call EXCEPT !.it = After(c), !.remain = @ \/ slot[c].wd = call.wd]
          /\ UNCHANGED <<g_ns, frames, due>>
  /\ UNCHANGED <<kernel, nc, ht, slot>>

\* The end: inotify_rm_watch, or the mask of the slots that are left.
del_end ==
  /\ call.op = "unsubscribe" /\ call.it = NULL
  /\ IF call.remain
     THEN add_watch(call.key, MaskAll(SlotsOf(call.wd), {}))
     ELSE drop_watch(call.key, queue)
  /\ call' = Idle
  /\ UNCHANGED <<nc, ht, g_ns, slot, frames, due>>

\* poll_event in a callback nests if the handler is detached; its poll() may
\* return at once, wait, or be interrupted.
heynoti_poll_event ==
  /\ Running /\ nc /\ ht = "H_NONE" /\ Len(frames) < MaxDepth
  /\ Push(FALSE, "poll")
  /\ UNCHANGED <<kernel, nc, ht, g_ns, slot, call, due>>

poll_returns ==
  /\ In("poll") /\ queue # << >>
  /\ Becomes([Last(frames) EXCEPT !.phase = "read"])
  /\ UNCHANGED <<kernel, nc, ht, g_ns, slot, call, due>>

poll_fails ==
  /\ In("poll")
  /\ Pop
  /\ UNCHANGED <<kernel, nc, ht, g_ns, slot, call, due>>

-----------------------------------------------------------------------------
(* Dispatch.                                                               *)

\* The main loop, which a callback may run as well. It never dispatches a
\* source inside its own callback, but a source attached there it does.
gio_cb ==
  /\ Running /\ ht = "H_GLIB" /\ queue # << >> /\ Len(frames) < MaxDepth
  /\ \A k \in DOMAIN frames : ~frames[k].busy
  /\ Push(TRUE, "read")
  /\ UNCHANGED <<kernel, nc, ht, g_ns, slot, call, due>>

SkipsHead == IF FirstSlot = NULL THEN NULL ELSE After(FirstSlot)  \* mutant: starts at the second
WalkFrom == FirstSlot

read_event ==
  LET ie == Head(queue) IN
  /\ In("read") /\ queue # << >>
  /\ queue' = Tail(queue)
  /\ Becomes([Last(frames) EXCEPT
                !.ie = ie, !.phase = "walk", !.it = WalkFrom, !.called = {},
                !.owed = IF ie.mask \in SubMask THEN SlotsOf(ie.wd) ELSE {}])
  /\ UNCHANGED <<watch, lastwd, nc, ht, g_ns, slot, call, due>>

RereadsEmpty ==                                     \* mutant: EAGAIN does not end the loop
  /\ In("read") /\ queue = << >>
  /\ UNCHANGED vars
read_ends ==
  /\ In("read") /\ queue = << >>
  /\ Pop
  /\ UNCHANGED <<kernel, nc, ht, g_ns, slot, call, due>>

\* One turn of the loop of __handle_callback: a slot of the event is called,
\* another one passed over, the end of the list ends the walk.
walk ==
  LET f == Last(frames) IN
  /\ In("walk")
  /\ \/ /\ f.it = NULL
        /\ Becomes([f EXCEPT !.phase = "read"])
        /\ UNCHANGED due
     \/ /\ f.it # NULL
        /\ slot[f.it].wd = f.ie.wd /\ f.ie.mask \in SubMask
        /\ Becomes([f EXCEPT !.phase = "called", !.owed = @ \ {f.it}, !.called = @ \cup {f.it}])
        /\ due' = due \ {f.it}
     \/ /\ f.it # NULL
        /\ ~(slot[f.it].wd = f.ie.wd /\ f.ie.mask \in SubMask)
        /\ \E c \in NextOf(f.it) : Becomes([f EXCEPT !.it = c])
        /\ UNCHANGED due
  /\ UNCHANGED <<kernel, nc, ht, g_ns, slot, call>>

callback_returns ==
  LET f == Last(frames) IN
  /\ In("called") /\ call = Idle
  /\ \E c \in NextOf(f.it) : Becomes([f EXCEPT !.phase = "walk", !.it = c])
  /\ UNCHANGED <<kernel, nc, ht, g_ns, slot, call, due>>

-----------------------------------------------------------------------------

\* heynoti_publish by another process; the close notifies.
heynoti_publish(key) ==
  /\ queue' = QueueAfterClose(key)
  /\ due' = IF "IN_CLOSE_WRITE" \in watch[key].mask /\ Len(queue) < MaxQueue
            THEN due \cup SlotsOf(watch[key].wd) ELSE due
  /\ UNCHANGED <<watch, lastwd, nc, ht, g_ns, slot, frames, call>>

Init ==
  /\ InotifyInit
  /\ nc = FALSE
  /\ ht = "H_NONE"
  /\ g_ns = << >>
  /\ slot = [c \in Cell |-> [wd |-> 0, cb |-> NULL]]
  /\ frames = << >>
  /\ call = Idle
  /\ due = {}

Application ==
  \/ heynoti_init \/ heynoti_close
  \/ heynoti_attach_handler \/ heynoti_detach_handler \/ heynoti_poll_event
  \/ \E key \in Key, cb \in Callback : heynoti_subscribe(key, cb)
  \/ \E key \in Key, cb \in Callback \cup {NULL} : heynoti_unsubscribe(key, cb)

Library ==
  \/ del_turn \/ del_end \/ poll_returns \/ poll_fails
  \/ gio_cb \/ read_event \/ read_ends \/ walk

Publish == \E key \in Key : heynoti_publish(key)

Next == Application \/ Library \/ callback_returns \/ Publish

Spec == Init /\ [][Next]_vars

(***************************************************************************)
(* Fairness: the thread goes on with the library's code, and a callback    *)
(* that makes no more calls returns.                                       *)
(***************************************************************************)
Fairness ==
  /\ WF_vars(del_turn) /\ WF_vars(del_end)
  /\ WF_vars(read_event) /\ WF_vars(read_ends) /\ WF_vars(walk)
  /\ WF_vars(callback_returns)

FairSpec == Spec /\ Fairness

-----------------------------------------------------------------------------
(* Properties.                                                             *)

\* A cell is in the list once, with a descriptor and a callback; frames hold
\* what Frame says.
TypeOK ==
  /\ InotifyTypeOK
  /\ nc \in BOOLEAN
  /\ ht \in {"H_NONE", "H_GLIB"}
  /\ g_ns \in Seq(Cell) /\ \A j, k \in DOMAIN g_ns : g_ns[j] = g_ns[k] => j = k
  /\ slot \in [Cell -> Slot]
  /\ \A c \in Listed : slot[c].wd > 0 /\ slot[c].cb # NULL
  /\ frames \in Seq(Frame) /\ Len(frames) <= MaxDepth
  /\ call \in Call
  /\ due \subseteq Cell

\* No walk stands on freed memory: the cursors of all frames, and that of
\* _del_noti, are in the list, whatever the callbacks have subscribed and
\* unsubscribed. Holds for careful callbacks.
CursorsLive ==
  /\ \A k \in DOMAIN frames : frames[k].it \in Listed \cup {NULL}
  /\ call.it \in Listed \cup {NULL}

\* A walk neither loses nor repeats a slot: those that were there when the
\* event was read and still are will be reached, those called are behind the
\* cursor, though the list changes under it.
Before(c, d) == \E j, k \in DOMAIN g_ns : j < k /\ g_ns[j] = c /\ g_ns[k] = d
Reached(f) == {c \in Listed : Before(f.it, c) \/ (f.phase = "walk" /\ f.it = c)}

WalkIsExact ==
  \A k \in DOMAIN frames :
    LET f == frames[k] IN
    /\ f.owed \subseteq Reached(f)
    /\ f.called \cap Reached(f) = {}

\* A publish that inotify reported is not forgotten by calls in callbacks: a
\* slot that is owed a call has its event in the queue, or in a frame that has
\* still to reach it.
DueIsReachable ==
  \A c \in due :
    \/ InQueue(queue, Closed(slot[c].wd))
    \/ \E k \in DOMAIN frames : c \in frames[k].owed

\* The slots that _del_noti has to free, as if it had freed them.
Leaving == IF call = Idle THEN {} ELSE Selected(call.wd, call.cb)

\* The pairs of key and callback that slots stand for.
PairsOf(slots) ==
  UNION {{u \in Key \X Callback : slot[c].wd = watch[u[1]].wd /\ slot[c].cb = u[2]} : c \in slots}

\* All frames are inside their callbacks but perhaps the innermost.
Depth == IF frames = << >> THEN 0 ELSE IF In("called") THEN Len(frames) ELSE Len(frames) - 1

Callbacks == INSTANCE NotiCallbacks
  WITH Noti    <- Key,
       subs    <- PairsOf(Listed \ Leaving),
       pending <- PairsOf(due \ Leaving),
       active  <- [k \in 1 .. Depth |-> slot[frames[k].it].cb],
       leaving <- IF call = Idle THEN {}
                  ELSE {call.key} \X (IF call.cb = NULL THEN Callback ELSE {call.cb})

\* Seen by its callbacks, the library changes their subscriptions at once,
\* though _del_noti frees slot by slot and walks are under way in the list;
\* it calls a callback only while it is subscribed, and drops what a callback
\* is owed only by calling or unsubscribing it.
ImplementsCallbacks == Callbacks!Spec

\* What the dispatch has still to do: the nodes ahead of _del_noti, the
\* events, the frames, and the nodes ahead of the innermost walk.
NodesFrom(c) == IF c = NULL THEN 0 ELSE Len(g_ns) - Position(c) + 1

CallLeft == IF call = Idle THEN 0 ELSE 1 + NodesFrom(call.it)

FrameLeft ==
  CASE In("poll")   -> 1
    [] In("walk")   -> 2 * NodesFrom(Last(frames).it) + 1
    [] In("called") -> 2 * NodesFrom(Last(frames).it)
    [] OTHER        -> 0

Left == <<CallLeft, Len(queue), Len(frames), FrameLeft>>

Less(l, m) == \E k \in 1 .. 4 : l[k] < m[k] /\ \A j \in 1 .. k - 1 : l[j] = m[j]

\* Left to itself, a dispatch comes to an end: every step of the library and
\* every return of a callback leaves less to do, however deep calls are nested
\* and whatever they did to the list. Only the main loop begins anew.
DispatchShrinks ==
  [][Library \/ callback_returns => gio_cb \/ Less(Left', Left)]_vars

\* A callback that subscribes can keep __handle_callback in its loop for ever,
\* since the new slot is ahead of the cursor, and so can publishers. Once the
\* application's callbacks make no more calls and publishing stops, every
\* dispatch in progress ends.
DispatchEnds ==
  <>[][Library \/ callback_returns]_vars /\ []<>~In("poll")
    => []<>(frames = << >>)

-----------------------------------------------------------------------------
(* What the documentation says and the code does not do.                   *)

\* heynoti_unsubscribe asks for heynoti_init before it and for nothing else:
\* called from any callback it leaves every walk on a slot of the list.
UnsubscribeAnywhere == [][del_turn /\ CursorsLive => CursorsLive']_vars
=============================================================================

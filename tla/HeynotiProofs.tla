---------------------------- MODULE HeynotiProofs ----------------------------
(***************************************************************************)
(* Proofs that the safety invariants of Heynoti hold for every number of   *)
(* keys, callbacks, publishers and files and every size of the queue.      *)
(*                                                                         *)
(* The argument goes through IInv. What makes it inductive: a watched file *)
(* is still named or open (WatchedLives), so a file that is given a name   *)
(* by heynotitool is not watched; hence while a call is between its two    *)
(* system calls its descriptor either still is the one of the key's file   *)
(* or belongs to no named file (WindowKey), and the second system call     *)
(* repairs the mask of every watch a slot can hear.                        *)
(*                                                                         *)
(* The second half of the module proves that, with keys that stay set,     *)
(* Heynoti implements NotiService.                                         *)
(***************************************************************************)
EXTENDS HeynotiService, InotifyProofs, TLAPS

\* A call between its two system calls works on an open container, a key and
\* a descriptor it was given.
WindowOK ==
  /\ InWindow => nc /\ call.noti \in Noti /\ call.wd # 0
  /\ call.op = "subscribe" => call.cb \in Callback

\* Without a container there are no slots.
ClosedClean == ~nc => g_ns = {}

\* Descriptors are handed out once: those in use are at most lastwd, and two
\* files never share one.
WatchFresh ==
  /\ \A i \in Inode : watch[i].wd <= lastwd
  /\ \A i, j \in Inode : Watched(i) /\ watch[i].wd = watch[j].wd => i = j
  /\ \A s \in g_ns : s.wd <= lastwd
  /\ call.wd <= lastwd

\* A file with neither name nor opener has lost its watch.
WatchedLives == \A i \in Inode : Watched(i) => Linked(i) \/ Held(i, Publisher)

\* Two keys never name one file.
DirInjective == \A m, n \in Noti : dir[m] = dir[n] /\ dir[m] # NULL => m = n

\* The descriptor of the call in progress is that of its key's file, unless
\* the key was unset meanwhile; then no named file has it, and a file set
\* again under the key has no watch.
WindowKey ==
  InWindow =>
    /\ \A i \in Inode : watch[i].wd = call.wd /\ Linked(i) => dir[call.noti] = i
    /\ \A i \in Inode : dir[call.noti] = i /\ Watched(i) => watch[i].wd = call.wd

IInv ==
  /\ TypeOK
  /\ WindowOK
  /\ ClosedClean
  /\ WatchFresh
  /\ WatchedLives
  /\ DirInjective
  /\ WindowKey
  /\ NoDuplicateSlot
  /\ DeafOnlyInWindow
  /\ DueIsQueued
  /\ ListensToItsKey

-----------------------------------------------------------------------------
(* The watches.                                                            *)

\* inotify_add_watch on a key gives the watch of its file, new or old, the
\* mask; no other watch changes, and descriptors stay fresh.
LEMMA AddWatchFacts ==
  ASSUME TypeOK, WatchFresh, NEW noti \in Noti, NEW mask \in SUBSET Bit,
         inotify_add_watch(noti, mask)
  PROVE  /\ dir[noti] \in Inode
         /\ InotifyTypeOK'
         /\ queue' = queue
         /\ WdFor(dir[noti]) \in 1 .. MaxWd
         /\ WdFor(dir[noti]) <= lastwd'
         /\ lastwd <= lastwd'
         /\ Watched(dir[noti]) => WdFor(dir[noti]) = watch[dir[noti]].wd
         /\ ~Watched(dir[noti]) => WdFor(dir[noti]) = lastwd + 1
         /\ watch'[dir[noti]] = [wd |-> WdFor(dir[noti]), mask |-> mask]
         /\ \A j \in Inode \ {dir[noti]} : watch'[j] = watch[j]
         /\ \A j \in Inode : watch'[j].wd <= lastwd'
         /\ \A j, k \in Inode :
              watch'[j].wd # 0 /\ watch'[j].wd = watch'[k].wd => j = k
<1> DEFINE i == dir[noti]
<1> USE InotifyAssumption
<1>1. /\ i \in Inode
      /\ WdFor(i) <= MaxWd
      /\ watch' = [watch EXCEPT ![i] = [wd |-> WdFor(i), mask |-> mask]]
      /\ lastwd' = IF Watched(i) THEN lastwd ELSE lastwd + 1
      /\ queue' = queue
  BY DEF inotify_add_watch, add_watch, TypeOK
<1>2. /\ watch \in [Inode -> Watch] /\ lastwd \in 0 .. MaxWd /\ queue \in Seq(Event)
      /\ \A j \in Inode : watch[j].wd \in 0 .. MaxWd /\ watch[j].wd <= lastwd
  BY DEF TypeOK, InotifyTypeOK, WatchFresh, Watch
<1>3. /\ WdFor(i) \in 1 .. MaxWd /\ WdFor(i) <= lastwd' /\ lastwd <= lastwd'
      /\ lastwd' \in 0 .. MaxWd
      /\ Watched(i) => WdFor(i) = watch[i].wd
      /\ ~Watched(i) => WdFor(i) = lastwd + 1
  BY <1>1, <1>2 DEF WdFor, Watched
<1>4. /\ watch'[i] = [wd |-> WdFor(i), mask |-> mask]
      /\ \A j \in Inode \ {i} : watch'[j] = watch[j]
  BY <1>1, <1>2
<1>5. InotifyTypeOK'
  <2>1. [wd |-> WdFor(i), mask |-> mask] \in Watch
    BY <1>3 DEF Watch
  <2> QED
    BY <1>1, <1>2, <1>3, <2>1 DEF InotifyTypeOK
<1>6. \A j \in Inode : watch'[j].wd <= lastwd'
  BY <1>2, <1>3, <1>4
<1>7. ASSUME NEW j \in Inode, NEW k \in Inode,
             watch'[j].wd # 0, watch'[j].wd = watch'[k].wd
      PROVE  j = k
  <2>1. watch'[i].wd = WdFor(i)
    BY <1>4
  <2>2. \A m \in Inode \ {i} : watch[m].wd # 0 => watch[m].wd # WdFor(i)
    BY <1>1, <1>2, <1>3 DEF WatchFresh, Watched
  <2> QED
    BY <1>4, <1>7, <2>1, <2>2 DEF WatchFresh, Watched
<1> QED
  BY <1>1, <1>3, <1>4, <1>5, <1>6, <1>7

-----------------------------------------------------------------------------
(* Steps that leave the slots, the files and the kernel alone.             *)

LEMMA QuietStep ==
  ASSUME IInv,
         UNCHANGED <<kernel, files, nc, g_ns, history>>,
         ht' \in {"H_NONE", "H_GLIB"},
         rc' \in -1 .. MaxWd \cup {1},
         \/ call' = call
         \/ ~InWindow /\ call' \in {Idle, Doing("poll_event"), Doing("handle_event")}
  PROVE  IInv'
<1> USE InotifyAssumption DEF IInv, kernel, files, history
<1>1. call'.wd <= lastwd /\ call' \in Call
  BY DEF TypeOK, InotifyTypeOK, Call, Idle, Doing, Op, WatchFresh
<1>2. InWindow' => call' = call /\ InWindow
  BY DEF InWindow, Idle, Doing
<1>3. call'.op = "subscribe" => call' = call
  BY DEF Idle, Doing
<1>4. TypeOK'
  BY <1>1 DEF TypeOK, InotifyTypeOK
<1>5. WindowOK'
  BY <1>2, <1>3 DEF WindowOK
<1>6. WatchFresh'
  BY <1>1 DEF WatchFresh, Watched
<1>7. ClosedClean' /\ WatchedLives' /\ DirInjective' /\ NoDuplicateSlot' /\ ListensToItsKey'
  BY DEF ClosedClean, WatchedLives, DirInjective, NoDuplicateSlot, ListensToItsKey,
         Watched, Linked, Held
<1>8. WindowKey'
  BY <1>2 DEF WindowKey, Watched, Linked
<1>9. DeafOnlyInWindow'
  <2>1. InWindow => InWindow' /\ call' = call
    BY DEF InWindow
  <2> QED
    BY <2>1 DEF DeafOnlyInWindow, Linked
<1>10. DueIsQueued'
  BY DEF DueIsQueued, InQueue
<1> QED
  BY <1>4, <1>5, <1>6, <1>7, <1>8, <1>9, <1>10

-----------------------------------------------------------------------------
(* The life of the container.                                              *)

LEMMA InitIInv == Init => IInv
<1> SUFFICES ASSUME Init PROVE IInv
  OBVIOUS
<1> USE InotifyAssumption DEF Init, InotifyInit
<1>1. TypeOK
  <2>1. InotifyTypeOK
    BY DEF InotifyTypeOK, Watch, NoWatch
  <2>2. call \in Call
    BY DEF Call, Op, Idle, Doing
  <2>3. rc \in -1 .. MaxWd \cup {1}
    BY SMT
  <2>4. dir \in [Noti -> Inode \cup {NULL}] /\ fd \in [Publisher -> Inode \cup {NULL}]
    OBVIOUS
  <2>5. nc \in BOOLEAN /\ ht \in {"H_NONE", "H_GLIB"} /\ g_ns \subseteq Slot
          /\ subscribed \subseteq Noti \X Callback /\ due \subseteq Slot
    OBVIOUS
  <2> QED
    BY <2>1, <2>2, <2>3, <2>4, <2>5 DEF TypeOK
<1>2. ~InWindow /\ call.wd = 0 /\ call.op # "subscribe"
  BY DEF InWindow, Idle, Doing
<1>3. WindowOK /\ WindowKey
  BY <1>2 DEF WindowOK, WindowKey
<1>4. WatchFresh /\ WatchedLives
  BY <1>2 DEF WatchFresh, WatchedLives, Watched, NoWatch
<1>5. ClosedClean /\ DirInjective /\ NoDuplicateSlot /\ DeafOnlyInWindow
        /\ DueIsQueued /\ ListensToItsKey
  BY DEF ClosedClean, DirInjective, NoDuplicateSlot, DeafOnlyInWindow, DueIsQueued,
         ListensToItsKey
<1> QED
  BY <1>1, <1>3, <1>4, <1>5 DEF IInv

\* A new instance, for init and close: with no slots left everything holds.
LEMMA FreshInstanceStep ==
  ASSUME IInv,
         fresh_instance,
         call = Idle, call' = Idle,
         g_ns' = {}, due' = {},
         nc' \in BOOLEAN, ht' \in {"H_NONE", "H_GLIB"},
         rc' \in -1 .. MaxWd \cup {1},
         subscribed' \in SUBSET (Noti \X Callback),
         UNCHANGED files
  PROVE  IInv'
<1> USE InotifyAssumption DEF fresh_instance, files
<1>1. TypeOK'
  <2>1. InotifyTypeOK'
    BY DEF InotifyTypeOK, Watch, NoWatch
  <2>2. call' \in Call
    BY DEF IInv, TypeOK
  <2> QED
    BY <2>1, <2>2 DEF IInv, TypeOK
<1>2. ~InWindow' /\ call'.wd = 0 /\ call'.op # "subscribe"
  BY DEF InWindow, Idle, Doing
<1>3. WindowOK' /\ WindowKey'
  BY <1>2 DEF WindowOK, WindowKey
<1>4. WatchFresh' /\ WatchedLives'
  BY <1>2 DEF WatchFresh, WatchedLives, Watched, NoWatch
<1>5. ClosedClean' /\ DirInjective' /\ NoDuplicateSlot' /\ DeafOnlyInWindow'
        /\ DueIsQueued' /\ ListensToItsKey'
  BY DEF IInv, ClosedClean, DirInjective, NoDuplicateSlot, DeafOnlyInWindow, DueIsQueued,
         ListensToItsKey
<1> QED
  BY <1>1, <1>3, <1>4, <1>5 DEF IInv

LEMMA InitStep == IInv /\ heynoti_init => IInv'
<1> SUFFICES ASSUME IInv, heynoti_init PROVE IInv'
  OBVIOUS
<1> USE InotifyAssumption DEF heynoti_init, Return
<1>1. CASE UNCHANGED <<kernel, nc>>
  <2>1. rc' = -1 \/ rc' = 0
    OBVIOUS
  <2>2. rc' \in -1 .. MaxWd \cup {1} /\ ht' \in {"H_NONE", "H_GLIB"}
    BY <2>1 DEF IInv, TypeOK
  <2> QED
    BY <1>1, <2>2, QuietStep DEF InWindow, Idle, Doing
<1>2. CASE fresh_instance /\ rc' = 0
  <2>1. g_ns' = {} /\ due' = {}
    BY DEF IInv, ClosedClean, DueIsQueued, history
  <2>2. nc' \in BOOLEAN /\ ht' \in {"H_NONE", "H_GLIB"} /\ subscribed' \in SUBSET (Noti \X Callback)
    BY DEF IInv, TypeOK, history
  <2> QED
    BY <1>2, <2>1, <2>2, FreshInstanceStep
<1> QED
  BY <1>1, <1>2

LEMMA CloseStep == IInv /\ heynoti_close => IInv'
<1> SUFFICES ASSUME IInv, heynoti_close PROVE IInv'
  OBVIOUS
<1>1. rc' \in -1 .. MaxWd \cup {1}
  BY DEF IInv, TypeOK, heynoti_close
<1> QED
  BY <1>1, FreshInstanceStep DEF heynoti_close, clear_nslot_list

\* Attaching and detaching the handler, polling, and dispatch beginning and
\* ending touch neither slots nor watches.
LEMMA HandlerStep ==
  IInv /\ (\/ heynoti_attach_handler \/ heynoti_detach_handler \/ gio_cb
           \/ heynoti_poll_event \/ poll_returns \/ poll_fails \/ read_ends) => IInv'
<1> SUFFICES ASSUME IInv,
                    \/ heynoti_attach_handler \/ heynoti_detach_handler \/ gio_cb
                    \/ heynoti_poll_event \/ poll_returns \/ poll_fails \/ read_ends
             PROVE  IInv'
  OBVIOUS
<1> USE InotifyAssumption
<1> USE DEF heynoti_attach_handler, heynoti_detach_handler, gio_cb, heynoti_poll_event,
            poll_returns, poll_fails, read_ends, Return
<1>1. UNCHANGED <<kernel, files, nc, g_ns, history>>
  OBVIOUS
<1>2. ht' \in {"H_NONE", "H_GLIB"}
  BY DEF IInv, TypeOK
<1>3. rc' \in -1 .. MaxWd \cup {1}
  BY DEF IInv, TypeOK
<1>4. ~InWindow /\ call' \in {Idle, Doing("poll_event"), Doing("handle_event")}
  BY DEF InWindow, Idle, Doing
<1> QED
  BY <1>1, <1>2, <1>3, <1>4, QuietStep

-----------------------------------------------------------------------------
(* Subscribing and unsubscribing.                                          *)

\* Placing a watch on a key keeps watched files alive and does not wire an
\* existing slot to another key.
LEMMA AddWatchKeeps ==
  ASSUME IInv, NEW noti \in Noti, NEW mask \in SUBSET Bit,
         inotify_add_watch(noti, mask), UNCHANGED files
  PROVE  /\ WatchedLives' /\ DirInjective'
         /\ \A s \in g_ns, n \in Noti :
              dir[n] # NULL /\ watch'[dir[n]].wd = s.wd => n = s.noti
<1> DEFINE i == dir[noti]
<1> USE InotifyAssumption DEF IInv, files
<1>0. TypeOK /\ WatchFresh /\ lastwd \in 0 .. MaxWd
  BY DEF TypeOK, InotifyTypeOK
<1>1. /\ i \in Inode
      /\ WdFor(i) \in 1 .. MaxWd
      /\ Watched(i) => WdFor(i) = watch[i].wd
      /\ ~Watched(i) => WdFor(i) = lastwd + 1
      /\ watch'[i] = [wd |-> WdFor(i), mask |-> mask]
      /\ \A j \in Inode \ {i} : watch'[j] = watch[j]
  <2> HIDE DEF IInv, files
  <2> QED
    BY <1>0, AddWatchFacts
<1>2. WatchedLives'
  <2>1. Linked(i)
    BY DEF Linked
  <2> QED
    BY <1>1, <2>1 DEF WatchedLives, Watched, Linked, Held
<1>3. DirInjective'
  BY DEF DirInjective
<1>4. ASSUME NEW s \in g_ns, NEW n \in Noti, dir[n] # NULL, watch'[dir[n]].wd = s.wd
      PROVE  n = s.noti
  <2>1. dir[n] \in Inode /\ s.wd \in Nat /\ s.wd <= lastwd /\ s.wd # 0
    BY <1>4 DEF TypeOK, Slot, WatchFresh
  <2>2. watch[dir[n]].wd = s.wd
    BY <1>0, <1>1, <1>4, <2>1
  <2> QED
    BY <1>4, <2>2 DEF ListensToItsKey
<1> QED
  BY <1>2, <1>3, <1>4

\* The first half of heynoti_subscribe and heynoti_unsubscribe.
LEMMA OpenWindow ==
  ASSUME IInv, call = Idle, nc,
         NEW noti \in Noti, NEW cb \in Callback \cup {NULL},
         NEW op \in {"subscribe", "unsubscribe"},
         op = "subscribe" => cb # NULL,
         inotify_add_watch(noti, {"IN_ACCESS"}),
         call' = [op |-> op, noti |-> noti, cb |-> cb, wd |-> WdFor(dir[noti])],
         UNCHANGED <<rc, files, nc, ht, g_ns, history>>
  PROVE  IInv'
<1> DEFINE i == dir[noti]
<1> USE InotifyAssumption, HeynotiAssumption DEF IInv, files, history
<1> HIDE DEF IInv
<1>1. {"IN_ACCESS"} \in SUBSET Bit /\ TypeOK /\ WatchFresh
  BY DEF Bit, IInv
<1>2. /\ i \in Inode
      /\ InotifyTypeOK'
      /\ queue' = queue
      /\ WdFor(i) \in 1 .. MaxWd
      /\ WdFor(i) <= lastwd'
      /\ lastwd <= lastwd'
      /\ watch'[i] = [wd |-> WdFor(i), mask |-> {"IN_ACCESS"}]
      /\ \A j \in Inode \ {i} : watch'[j] = watch[j]
      /\ \A j \in Inode : watch'[j].wd <= lastwd'
      /\ \A j, k \in Inode :
           watch'[j].wd # 0 /\ watch'[j].wd = watch'[k].wd => j = k
  BY <1>1, AddWatchFacts
<1>3. /\ InWindow' /\ call'.noti = noti /\ call'.wd = WdFor(i) /\ call'.cb = cb
      /\ call'.op = op /\ ~InWindow
  BY DEF InWindow, Idle, Doing
<1>4. lastwd \in Nat /\ lastwd' \in Nat /\ \A s \in g_ns : s.wd \in Nat /\ s.wd <= lastwd
  BY <1>1, <1>2 DEF TypeOK, InotifyTypeOK, WatchFresh, Slot
<1>5. TypeOK'
  <2>1. call' \in Call
    BY <1>2 DEF Call, Op
  <2> QED
    BY <1>1, <1>2, <2>1 DEF TypeOK
<1>6. WindowOK'
  BY <1>2, <1>3 DEF WindowOK
<1>7. ClosedClean' /\ NoDuplicateSlot'
  BY DEF IInv, ClosedClean, NoDuplicateSlot
<1>8. WatchFresh'
  <2>1. \A s \in g_ns' : s.wd <= lastwd'
    BY <1>2, <1>4
  <2> QED
    BY <1>2, <1>3, <2>1 DEF WatchFresh, Watched
<1>9. WatchedLives' /\ DirInjective' /\ ListensToItsKey'
  BY <1>1, AddWatchKeeps DEF ListensToItsKey
<1>10. WindowKey'
  <2>1. ASSUME NEW j \in Inode, watch'[j].wd = WdFor(i) PROVE j = i
    BY <1>2, <2>1
  <2> QED
    BY <1>2, <1>3, <2>1 DEF WindowKey, Watched
<1>11. DeafOnlyInWindow'
  <2> SUFFICES ASSUME NEW s \in g_ns, NEW j \in Inode, watch'[j].wd = s.wd
               PROVE  \/ SubMask \subseteq watch'[j].mask
                      \/ call'.wd = s.wd
                      \/ ~Linked(j)'
    BY <1>3 DEF DeafOnlyInWindow
  <2>1. CASE j = i
    BY <1>2, <1>3, <2>1
  <2>2. CASE j # i
    BY <1>2, <1>3, <2>2 DEF IInv, DeafOnlyInWindow, Linked
  <2> QED
    BY <2>1, <2>2
<1>12. DueIsQueued'
  BY <1>2 DEF IInv, DueIsQueued, InQueue
<1> QED
  BY <1>5, <1>6, <1>7, <1>8, <1>9, <1>10, <1>11, <1>12 DEF IInv

LEMMA SubscribeStep ==
  ASSUME IInv, NEW noti \in Noti \cup {NULL}, NEW cb \in Callback \cup {NULL},
         heynoti_subscribe(noti, cb) \/ heynoti_unsubscribe(noti, cb)
  PROVE  IInv'
<1> USE InotifyAssumption
<1> USE DEF heynoti_subscribe, heynoti_unsubscribe, BadSubscribe, Return,
            inotify_add_watch_fails
<1>1. CASE UNCHANGED kernel /\ rc' = -1 /\ call' = Idle
  <2>1. UNCHANGED <<kernel, files, nc, g_ns, history>> /\ ~InWindow
    BY <1>1 DEF InWindow, Idle, Doing
  <2>2. rc' \in -1 .. MaxWd \cup {1} /\ ht' \in {"H_NONE", "H_GLIB"}
    BY <1>1 DEF IInv, TypeOK
  <2> QED
    BY <1>1, <2>1, <2>2, QuietStep
<1>2. CASE /\ noti # NULL /\ cb # NULL /\ nc
           /\ inotify_add_watch(noti, {"IN_ACCESS"})
           /\ call' = [op |-> "subscribe", noti |-> noti, cb |-> cb, wd |-> WdFor(dir[noti])]
           /\ UNCHANGED rc
  BY <1>2, OpenWindow
<1>3. CASE /\ noti # NULL /\ nc
           /\ inotify_add_watch(noti, {"IN_ACCESS"})
           /\ call' = [op |-> "unsubscribe", noti |-> noti, cb |-> cb, wd |-> WdFor(dir[noti])]
           /\ UNCHANGED rc
  BY <1>3, OpenWindow
<1> QED
  BY <1>1, <1>2, <1>3

\* What every outcome of the second system call of add_noti and del_noti
\* leaves: only the key's own file can still carry the descriptor under a
\* name, other watches of old descriptors are untouched, no event is lost.
KernelRepaired ==
  /\ InotifyTypeOK' /\ lastwd <= lastwd'
  /\ \A j \in Inode : watch'[j].wd <= lastwd'
  /\ \A j, k \in Inode : watch'[j].wd # 0 /\ watch'[j].wd = watch'[k].wd => j = k
  /\ WatchedLives'
  /\ \A j \in Inode : Linked(j) /\ watch'[j].wd = call.wd => j = dir[call.noti]
  /\ \A j \in Inode : watch'[j].wd \in 1 .. lastwd =>
       /\ watch'[j].wd = watch[j].wd
       /\ watch'[j].wd # call.wd => watch'[j] = watch[j]
  /\ \A f : InQueue(queue, f) => InQueue(queue', f)

LEMMA SecondAddWatch ==
  ASSUME IInv, InWindow, NEW mask \in SUBSET Bit,
         inotify_add_watch(call.noti, mask), UNCHANGED files
  PROVE  /\ KernelRepaired
         /\ \A j \in Inode : Linked(j) /\ watch'[j].wd = call.wd => watch'[j].mask = mask
<1> DEFINE i == dir[call.noti]
<1>1. /\ TypeOK /\ WatchFresh /\ call.noti \in Noti /\ call.wd # 0
      /\ \A j \in Inode : watch[j].wd = call.wd /\ Linked(j) => i = j
      /\ \A j \in Inode : i = j /\ Watched(j) => watch[j].wd = call.wd
      /\ call.wd <= lastwd /\ call.wd \in 0 .. MaxWd /\ lastwd \in 0 .. MaxWd
      /\ \A j \in Inode : watch[j].wd \in 0 .. MaxWd
  BY DEF IInv, WindowOK, WindowKey, WatchFresh, TypeOK, InotifyTypeOK, Call, Watch
<1>2. /\ i \in Inode
      /\ InotifyTypeOK'
      /\ queue' = queue
      /\ WdFor(i) \in 1 .. MaxWd
      /\ lastwd <= lastwd'
      /\ Watched(i) => WdFor(i) = watch[i].wd
      /\ ~Watched(i) => WdFor(i) = lastwd + 1
      /\ watch'[i] = [wd |-> WdFor(i), mask |-> mask]
      /\ \A j \in Inode \ {i} : watch'[j] = watch[j]
      /\ \A j \in Inode : watch'[j].wd <= lastwd'
      /\ \A j, k \in Inode :
           watch'[j].wd # 0 /\ watch'[j].wd = watch'[k].wd => j = k
  BY <1>1, AddWatchFacts
<1>3. WatchedLives'
  BY <1>1, AddWatchKeeps
<1>4. \A j \in Inode : Linked(j) /\ watch'[j].wd = call.wd => j = i
  BY <1>1, <1>2
<1>5. ASSUME NEW j \in Inode, watch'[j].wd \in 1 .. lastwd
      PROVE  /\ watch'[j].wd = watch[j].wd
             /\ watch'[j].wd # call.wd => watch'[j] = watch[j]
  <2>1. CASE j # i
    BY <1>2, <2>1
  <2>2. CASE j = i
    <3>1. watch'[i].wd = WdFor(i)
      BY <1>2
    <3>2. Watched(i)
      BY InotifyAssumption, <1>1, <1>2, <1>5, <2>2, <3>1
    <3> QED
      BY <1>1, <1>2, <2>2, <3>1, <3>2
  <2> QED
    BY <2>1, <2>2
<1>6. \A j \in Inode : Linked(j) /\ watch'[j].wd = call.wd => watch'[j].mask = mask
  BY <1>2, <1>4
<1> QED
  BY <1>2, <1>3, <1>4, <1>5, <1>6 DEF KernelRepaired

\* If the second system call fails or is not made, or finds no watch to
\* remove, no named file carries the descriptor.
LEMMA SecondCallFails ==
  ASSUME IInv, InWindow, UNCHANGED kernel, UNCHANGED files,
         \/ inotify_add_watch_fails(call.noti)
         \/ {j \in Inode : watch[j].wd = call.wd} = {}
  PROVE  /\ KernelRepaired
         /\ \A j \in Inode : ~(Linked(j) /\ watch'[j].wd = call.wd)
<1> USE InotifyAssumption DEF kernel, files
<1>1. /\ InotifyTypeOK /\ lastwd \in 0 .. MaxWd /\ call.wd # 0
      /\ \A j \in Inode : watch[j].wd <= lastwd
      /\ \A j, k \in Inode : watch[j].wd # 0 /\ watch[j].wd = watch[k].wd => j = k
      /\ \A j \in Inode : watch[j].wd = call.wd /\ Linked(j) => dir[call.noti] = j
  BY DEF IInv, WindowOK, WindowKey, WatchFresh, TypeOK, InotifyTypeOK, Watched
<1>2. \A j \in Inode : ~(Linked(j) /\ watch'[j].wd = call.wd)
  BY <1>1 DEF inotify_add_watch_fails, Watched
<1>3. InotifyTypeOK' /\ WatchedLives'
  BY <1>1 DEF IInv, InotifyTypeOK, WatchedLives, Watched, Linked, Held
<1>4. \A f : InQueue(queue, f) => InQueue(queue', f)
  OBVIOUS
<1> QED
  BY <1>1, <1>2, <1>3, <1>4 DEF KernelRepaired

LEMMA RmWatch ==
  ASSUME IInv, InWindow, NEW i \in Inode, watch[i].wd = call.wd,
         drop_watch(i, queue), UNCHANGED files
  PROVE  /\ KernelRepaired
         /\ \A j \in Inode : ~(Linked(j) /\ watch'[j].wd = call.wd)
<1> USE InotifyAssumption DEF files
<1>1. /\ InotifyTypeOK /\ lastwd \in 0 .. MaxWd /\ call.wd # 0 /\ queue \in Seq(Event)
      /\ \A j \in Inode : watch[j].wd <= lastwd
      /\ \A j, k \in Inode : watch[j].wd # 0 /\ watch[j].wd = watch[k].wd => j = k
  BY DEF IInv, WindowOK, WatchFresh, TypeOK, InotifyTypeOK, Watched
<1>2. /\ InotifyTypeOK' /\ lastwd' = lastwd
      /\ watch'[i] = NoWatch
      /\ \A j \in Inode \ {i} : watch'[j] = watch[j]
      /\ \A f : InQueue(queue, f) => InQueue(queue', f)
  BY <1>1, DropWatchFacts
<1>3. watch'[i].wd = 0
  BY <1>2 DEF NoWatch
<1>4. WatchedLives'
  BY <1>2, <1>3 DEF IInv, WatchedLives, Watched, Linked, Held
<1>5. \A j \in Inode : watch'[j].wd # call.wd
  BY <1>1, <1>2, <1>3
<1>6. \A j \in Inode : watch'[j].wd <= lastwd'
  BY <1>1, <1>2, <1>3
<1>7. \A j, k \in Inode : watch'[j].wd # 0 /\ watch'[j].wd = watch'[k].wd => j = k
  BY <1>1, <1>2, <1>3
<1>8. \A j \in Inode : watch'[j].wd \in 1 .. lastwd =>
        watch'[j].wd = watch[j].wd /\ watch'[j] = watch[j]
  BY <1>2, <1>3
<1>9. lastwd <= lastwd'
  BY <1>1, <1>2
<1> QED
  BY <1>2, <1>4, <1>5, <1>6, <1>7, <1>8, <1>9 DEF KernelRepaired

\* After the second system call the invariant holds again, whatever slots
\* were added or removed, if the named file that still carries the
\* descriptor got a mask its slots can hear.
LEMMA WindowCloses ==
  ASSUME IInv, InWindow, KernelRepaired,
         call' = Idle, rc' \in -1 .. MaxWd \cup {1},
         UNCHANGED <<files, nc, ht>>,
         subscribed' \in SUBSET (Noti \X Callback),
         g_ns' \in SUBSET Slot,
         \A s \in g_ns' : s \in g_ns \/ (s.wd = call.wd /\ s.noti = call.noti),
         due' \subseteq due /\ due' \subseteq g_ns',
         NoDuplicateSlot',
         \A s \in g_ns', j \in Inode :
           s.wd = call.wd /\ Linked(j) /\ watch'[j].wd = call.wd => SubMask \subseteq watch'[j].mask
  PROVE  IInv'
<1> USE InotifyAssumption DEF files
<1>1. /\ TypeOK /\ nc /\ call.noti \in Noti /\ call.wd # 0
      /\ lastwd \in 0 .. MaxWd /\ call.wd \in 0 .. MaxWd /\ call.wd <= lastwd
      /\ \A s \in g_ns : s.wd <= lastwd
  BY DEF IInv, WindowOK, WatchFresh, TypeOK, InotifyTypeOK, Call
<1>2. InotifyTypeOK' /\ lastwd <= lastwd' /\ lastwd' \in 0 .. MaxWd
  BY DEF KernelRepaired, InotifyTypeOK
<1>3. \A s \in g_ns' : s.wd \in 1 .. lastwd
  BY <1>1 DEF Slot
<1>4. ~InWindow' /\ call'.wd = 0 /\ call'.op # "subscribe" /\ call' \in Call
  BY <1>1 DEF InWindow, Idle, Doing, Call, Op
<1>5. TypeOK'
  BY <1>1, <1>2, <1>4 DEF TypeOK
<1>6. WindowOK' /\ WindowKey'
  BY <1>4 DEF WindowOK, WindowKey
<1>7. ClosedClean'
  BY <1>1 DEF ClosedClean
<1>8. WatchFresh'
  <2>1. \A s \in g_ns' : s.wd <= lastwd'
    BY <1>1, <1>2, <1>3
  <2> QED
    BY <1>2, <1>4, <2>1 DEF WatchFresh, KernelRepaired, Watched
<1>9. WatchedLives' /\ DirInjective'
  BY DEF IInv, KernelRepaired, DirInjective
<1>10. DeafOnlyInWindow'
  <2> SUFFICES ASSUME NEW s \in g_ns', NEW j \in Inode, watch'[j].wd = s.wd, Linked(j)
               PROVE  SubMask \subseteq watch'[j].mask
    BY DEF DeafOnlyInWindow, Linked
  <2>1. CASE s.wd = call.wd
    BY <2>1
  <2>2. CASE s.wd # call.wd
    <3>1. s \in g_ns /\ watch'[j] = watch[j]
      BY <1>3, <2>2 DEF KernelRepaired
    <3> QED
      BY <2>2, <3>1 DEF IInv, DeafOnlyInWindow
  <2> QED
    BY <2>1, <2>2
<1>11. DueIsQueued'
  BY DEF IInv, DueIsQueued, KernelRepaired
<1>12. ListensToItsKey'
  <2> SUFFICES ASSUME NEW s \in g_ns', NEW n \in Noti, dir[n] # NULL,
                      watch'[dir[n]].wd = s.wd
               PROVE  n = s.noti
    BY DEF ListensToItsKey
  <2>1. dir[n] \in Inode
    BY <1>1 DEF TypeOK
  <2>2. CASE s \in g_ns
    <3>1. watch[dir[n]].wd = s.wd
      BY <1>3, <2>1 DEF KernelRepaired
    <3> QED
      BY <2>2, <3>1 DEF IInv, ListensToItsKey
  <2>3. CASE s.wd = call.wd /\ s.noti = call.noti
    <3>1. Linked(dir[n])
      BY DEF Linked
    <3>2. dir[n] = dir[call.noti]
      BY <2>1, <2>3, <3>1 DEF KernelRepaired
    <3> QED
      BY <1>1, <2>3, <3>2 DEF IInv, DirInjective
  <2> QED
    BY <2>2, <2>3
<1> QED
  BY <1>5, <1>6, <1>7, <1>8, <1>9, <1>10, <1>11, <1>12 DEF IInv

LEMMA MaskAllFacts ==
  ASSUME NEW slots, NEW mask \in SUBSET Bit
  PROVE  /\ MaskAll(slots, mask) \in SUBSET Bit
         /\ slots # {} => SubMask \subseteq MaskAll(slots, mask)
         /\ mask \subseteq MaskAll(slots, mask)
<1>1. SubMask \subseteq Bit
  BY DEF SubMask, Bit
<1> QED
  BY <1>1 DEF MaskAll

LEMMA AddNotiStep == IInv /\ add_noti => IInv'
<1> SUFFICES ASSUME IInv, add_noti PROVE IInv'
  OBVIOUS
<1> USE InotifyAssumption
<1>1. /\ InWindow /\ call' = Idle /\ UNCHANGED <<files, nc, ht>> /\ due' = due
      /\ call.op = "subscribe"
  BY DEF add_noti, Return, InWindow
<1>2. /\ TypeOK /\ call.noti \in Noti /\ call.cb \in Callback
      /\ call.wd \in 1 .. MaxWd /\ due \subseteq g_ns /\ NoDuplicateSlot
  BY <1>1 DEF IInv, WindowOK, TypeOK, Call, DueIsQueued
<1>3. rc' \in {-1, 0}
  BY DEF add_noti, Return
<1>4. rc' \in -1 .. MaxWd \cup {1}
  BY <1>3
<1> DEFINE sm == MaskAll(SlotsOf(call.wd), {})
           am == MaskAll(SlotsOf(call.wd), SubMask)
<1>5. /\ sm \in SUBSET Bit /\ am \in SUBSET Bit /\ SubMask \subseteq am
      /\ SlotsOf(call.wd) # {} => SubMask \subseteq sm
  <2>1. {} \in SUBSET Bit /\ SubMask \in SUBSET Bit
    BY DEF SubMask, Bit
  <2> QED
    BY <2>1, MaskAllFacts
\* The slots stay as they are: EALREADY, a failed inotify_add_watch, ENOMEM.
<1>6. ASSUME UNCHANGED <<g_ns, subscribed>>,
             \/ inotify_add_watch(call.noti, sm)
             \/ inotify_add_watch(call.noti, am)
             \/ inotify_add_watch_fails(call.noti)
      PROVE  IInv'
  <2>1. KernelRepaired /\ \A s \in g_ns', j \in Inode :
          s.wd = call.wd /\ Linked(j) /\ watch'[j].wd = call.wd => SubMask \subseteq watch'[j].mask
    <3>1. CASE inotify_add_watch(call.noti, sm)
      BY <1>1, <1>5, <1>6, <3>1, SecondAddWatch DEF SlotsOf
    <3>2. CASE inotify_add_watch(call.noti, am)
      BY <1>1, <1>5, <3>2, SecondAddWatch
    <3>3. CASE inotify_add_watch_fails(call.noti)
      BY <1>1, <3>3, SecondCallFails DEF inotify_add_watch_fails
    <3> QED
      BY <1>6, <3>1, <3>2, <3>3
  <2>2. /\ g_ns' \in SUBSET Slot /\ subscribed' \in SUBSET (Noti \X Callback)
        /\ due' \subseteq g_ns'
    BY <1>1, <1>2, <1>6 DEF TypeOK
  <2>3. NoDuplicateSlot'
    BY <1>2, <1>6 DEF NoDuplicateSlot
  <2> QED
    BY <1>1, <1>4, <1>6, <2>1, <2>2, <2>3, WindowCloses
\* A slot is added.
<1>7. ASSUME NEW x \in Node,
             ~Found(call.wd, call.cb),
             inotify_add_watch(call.noti, am),
             g_ns' = g_ns \cup {[node |-> x, wd |-> call.wd, cb |-> call.cb, noti |-> call.noti]},
             subscribed' = subscribed \cup {<<call.noti, call.cb>>}
      PROVE  IInv'
  <2> DEFINE new == [node |-> x, wd |-> call.wd, cb |-> call.cb, noti |-> call.noti]
  <2>1. new \in Slot /\ new.wd = call.wd /\ new.noti = call.noti /\ new.cb = call.cb
    BY <1>2 DEF Slot
  <2>2. KernelRepaired /\ \A s \in g_ns', j \in Inode :
          s.wd = call.wd /\ Linked(j) /\ watch'[j].wd = call.wd => SubMask \subseteq watch'[j].mask
    BY <1>1, <1>5, <1>7, SecondAddWatch
  <2>3. /\ g_ns' \in SUBSET Slot /\ subscribed' \in SUBSET (Noti \X Callback)
        /\ due' \subseteq due /\ due' \subseteq g_ns'
    BY <1>1, <1>2, <1>7, <2>1 DEF TypeOK
  <2>4. \A s \in g_ns' : s \in g_ns \/ (s.wd = call.wd /\ s.noti = call.noti)
    BY <1>7, <2>1
  <2>5. NoDuplicateSlot'
    BY <1>2, <1>7, <2>1 DEF NoDuplicateSlot, Found
  <2> QED
    BY <1>1, <1>4, <2>2, <2>3, <2>4, <2>5, WindowCloses
<1> QED
  BY <1>6, <1>7 DEF add_noti, Return

LEMMA DelNotiStep == IInv /\ del_noti => IInv'
<1> SUFFICES ASSUME IInv, del_noti PROVE IInv'
  OBVIOUS
<1> USE InotifyAssumption
<1> DEFINE deleted == Deleted(call.wd, call.cb)
           remain  == Remain(call.wd, call.cb)
           still   == {j \in Inode : watch[j].wd = call.wd}
           rm      == MaskAll(remain, {})
<1>1. /\ InWindow /\ call' = Idle /\ UNCHANGED <<files, nc, ht>>
      /\ g_ns' = g_ns \ deleted /\ due' = due \ deleted
      /\ call.op = "unsubscribe"
  BY DEF del_noti, Return, InWindow
<1>2. /\ TypeOK /\ WatchFresh /\ call.noti \in Noti
      /\ call.wd \in 1 .. MaxWd /\ due \subseteq g_ns /\ NoDuplicateSlot
  BY <1>1 DEF IInv, WindowOK, TypeOK, Call, DueIsQueued
<1>3. /\ g_ns' \in SUBSET Slot
      /\ due' \subseteq due /\ due' \subseteq g_ns'
      /\ \A s \in g_ns' : s \in g_ns
  BY <1>1, <1>2 DEF TypeOK
<1>4. NoDuplicateSlot'
  BY <1>2, <1>3 DEF NoDuplicateSlot
<1>5. subscribed' \in SUBSET (Noti \X Callback)
  BY <1>2 DEF del_noti, TypeOK
<1>6. /\ rm \in SUBSET Bit
      /\ remain # {} => SubMask \subseteq rm
      /\ \A s \in g_ns' : s.wd = call.wd => s \in remain
  <2>1. {} \in SUBSET Bit
    OBVIOUS
  <2> QED
    BY <1>1, <2>1, MaskAllFacts DEF Remain, SlotsOf
\* No slot is left: the watch is removed, or was gone already.
<1>7. CASE remain = {} /\ still = {} /\ UNCHANGED kernel /\ rc' = -1
  <2>1. KernelRepaired
    BY <1>1, <1>7, SecondCallFails
  <2> QED
    BY <1>1, <1>3, <1>4, <1>5, <1>6, <1>7, <2>1, WindowCloses
<1>8. CASE remain = {} /\ (\E i \in still : drop_watch(i, queue)) /\ rc' = 0
  <2>1. KernelRepaired
    BY <1>1, <1>8, RmWatch
  <2>2. rc' \in -1 .. MaxWd \cup {1}
    BY <1>8
  <2> QED
    BY <1>1, <1>3, <1>4, <1>5, <1>6, <1>8, <2>1, <2>2, WindowCloses
\* Slots are left: their mask is put back, or the key is gone.
<1>9. CASE remain # {} /\ inotify_add_watch_fails(call.noti) /\ rc' = -1
  <2>1. KernelRepaired /\ \A j \in Inode : ~(Linked(j) /\ watch'[j].wd = call.wd)
    BY <1>1, <1>9, SecondCallFails DEF inotify_add_watch_fails
  <2>2. rc' \in -1 .. MaxWd \cup {1}
    BY <1>9
  <2> QED
    BY <1>1, <1>3, <1>4, <1>5, <2>1, <2>2, WindowCloses
<1>10. CASE /\ remain # {} /\ inotify_add_watch(call.noti, rm)
            /\ rc' = IF deleted = {} THEN -1 ELSE WdFor(dir[call.noti])
  <2>1. KernelRepaired /\ \A s \in g_ns', j \in Inode :
          s.wd = call.wd /\ Linked(j) /\ watch'[j].wd = call.wd => SubMask \subseteq watch'[j].mask
    BY <1>1, <1>6, <1>10, SecondAddWatch
  <2>2. WdFor(dir[call.noti]) \in 1 .. MaxWd
    BY <1>2, <1>6, <1>10, AddWatchFacts
  <2>3. rc' \in -1 .. MaxWd \cup {1}
    BY <1>10, <2>2
  <2> QED
    BY <1>1, <1>3, <1>4, <1>5, <2>1, <2>3, WindowCloses
<1> QED
  BY <1>7, <1>8, <1>9, <1>10 DEF del_noti, Return, Result

-----------------------------------------------------------------------------
(* Dispatch.                                                               *)

\* Reading an event serves the slots it was for, and no other owed slot
\* depended on it.
LEMMA ReadEventStep == IInv /\ read_event => IInv'
<1> SUFFICES ASSUME IInv, read_event PROVE IInv'
  OBVIOUS
<1> USE InotifyAssumption DEF read_event, files
<1>1. /\ TypeOK /\ queue \in Seq(Event) /\ queue # << >>
      /\ due \subseteq g_ns /\ due' \subseteq due
      /\ UNCHANGED <<watch, lastwd, dir, fd, nc, ht, g_ns, call, rc, subscribed>>
      /\ queue' = Tail(queue)
  BY DEF IInv, TypeOK, InotifyTypeOK, DueIsQueued
<1>2. /\ queue' \in Seq(Event)
      /\ \A f : InQueue(queue, f) => f = Head(queue) \/ InQueue(queue', f)
  BY <1>1, TailFacts
<1>3. TypeOK'
  BY <1>1, <1>2 DEF TypeOK, InotifyTypeOK
<1>4. DueIsQueued'
  <2> SUFFICES ASSUME NEW s \in due' PROVE InQueue(queue', Closed(s.wd))
    BY <1>1 DEF DueIsQueued
  <2>1. InQueue(queue, Closed(s.wd)) /\ s \in g_ns
    BY <1>1 DEF IInv, DueIsQueued
  <2>2. ASSUME Closed(s.wd) = Head(queue) PROVE FALSE
    <3>1. Head(queue).wd = s.wd /\ Head(queue).mask = "IN_CLOSE_WRITE"
      BY <2>2 DEF Closed
    <3>2. s \in Called(Head(queue))
      BY <2>1, <3>1 DEF Called, SlotsOf, SubMask
    <3> QED
      BY <3>2
  <2> QED
    BY <1>2, <2>1, <2>2
<1>5. WindowOK' /\ ClosedClean' /\ WatchFresh' /\ WatchedLives' /\ DirInjective' /\ WindowKey'
  BY <1>1 DEF IInv, WindowOK, ClosedClean, WatchFresh, WatchedLives, DirInjective, WindowKey,
              InWindow, Watched, Linked, Held
<1>6. NoDuplicateSlot' /\ DeafOnlyInWindow' /\ ListensToItsKey'
  BY <1>1 DEF IInv, NoDuplicateSlot, DeafOnlyInWindow, ListensToItsKey, InWindow, Linked
<1> QED
  BY <1>3, <1>4, <1>5, <1>6 DEF IInv

-----------------------------------------------------------------------------
(* The other processes. None of their steps adds a watch or changes a      *)
(* mask; they only take watches of dead files away.                        *)

LEMMA WatchesShrink ==
  ASSUME IInv,
         InotifyTypeOK', lastwd' = lastwd,
         \A j \in Inode : watch'[j] = watch[j] \/ watch'[j].wd = 0,
         dir' \in [Noti -> Inode \cup {NULL}], fd' \in [Publisher -> Inode \cup {NULL}],
         \A n \in Noti : dir'[n] = dir[n] \/ dir'[n] = NULL \/ watch'[dir'[n]].wd = 0,
         UNCHANGED <<nc, ht, g_ns, call, rc, subscribed>>,
         due' \subseteq g_ns,
         WatchedLives', DirInjective',
         \A s \in due' : InQueue(queue', Closed(s.wd))
  PROVE  IInv'
<1> USE InotifyAssumption, HeynotiAssumption
<1>1. /\ TypeOK
      /\ \A j \in Inode : watch[j].wd \in 0 .. MaxWd /\ watch[j].wd <= lastwd
      /\ lastwd \in 0 .. MaxWd
      /\ \A s \in g_ns : s.wd # 0 /\ s \in Slot
  BY DEF IInv, TypeOK, InotifyTypeOK, WatchFresh, Slot, Watch
<1>2. TypeOK'
  BY <1>1 DEF TypeOK
<1>3. WindowOK' /\ ClosedClean' /\ NoDuplicateSlot'
  BY DEF IInv, WindowOK, ClosedClean, NoDuplicateSlot, InWindow
<1>4. WatchFresh'
  <2>1. \A j \in Inode : watch'[j].wd <= lastwd'
    BY <1>1
  <2>2. ASSUME NEW j \in Inode, NEW k \in Inode, watch'[j].wd # 0, watch'[j].wd = watch'[k].wd
        PROVE  j = k
    BY <2>2 DEF IInv, WatchFresh, Watched
  <2> QED
    BY <2>1, <2>2 DEF IInv, WatchFresh, Watched
\* A named file that has a watch had both before.
<1>5. ASSUME NEW j \in Inode, watch'[j].wd # 0
      PROVE  /\ watch'[j] = watch[j]
             /\ \A n \in Noti : dir'[n] = j => dir[n] = j
  BY <1>5
<1>6. WindowKey'
  <2> SUFFICES ASSUME InWindow
               PROVE  /\ \A i \in Inode : watch'[i].wd = call.wd /\ Linked(i)' => dir'[call.noti] = i
                      /\ \A i \in Inode : dir'[call.noti] = i /\ watch'[i].wd # 0 => watch'[i].wd = call.wd
    BY DEF WindowKey, InWindow, Watched
  <2>1. call.noti \in Noti /\ call.wd # 0
    BY DEF IInv, WindowOK
  <2>2. ASSUME NEW i \in Inode, watch'[i].wd = call.wd, NEW n \in Noti, dir'[n] = i
        PROVE  dir'[call.noti] = i
    <3>1. watch[i].wd = call.wd /\ dir[n] = i
      BY <1>5, <2>1, <2>2
    <3>2. dir[call.noti] = i
      BY <3>1 DEF IInv, WindowKey, Linked
    <3>3. n = call.noti
      BY <2>1, <3>1, <3>2 DEF IInv, DirInjective
    <3> QED
      BY <2>2, <3>3
  <2>3. ASSUME NEW i \in Inode, dir'[call.noti] = i, watch'[i].wd # 0
        PROVE  watch'[i].wd = call.wd
    <3>1. dir[call.noti] = i /\ watch[i].wd # 0 /\ watch'[i] = watch[i]
      BY <1>5, <2>1, <2>3
    <3> QED
      BY <3>1 DEF IInv, WindowKey, Watched
  <2> QED
    BY <2>2, <2>3 DEF Linked
<1>7. DeafOnlyInWindow'
  <2> SUFFICES ASSUME NEW s \in g_ns, NEW j \in Inode, watch'[j].wd = s.wd, Linked(j)'
               PROVE  SubMask \subseteq watch'[j].mask \/ (InWindow /\ call.wd = s.wd)
    BY DEF DeafOnlyInWindow, InWindow
  <2>1. watch'[j] = watch[j] /\ Linked(j)
    BY <1>1, <1>5 DEF Linked
  <2> QED
    BY <2>1 DEF IInv, DeafOnlyInWindow
<1>8. DueIsQueued'
  BY DEF DueIsQueued
<1>9. ListensToItsKey'
  <2> SUFFICES ASSUME NEW s \in g_ns, NEW n \in Noti, dir'[n] # NULL, watch'[dir'[n]].wd = s.wd
               PROVE  n = s.noti
    BY DEF ListensToItsKey
  <2>1. dir'[n] \in Inode
    OBVIOUS
  <2>2. watch[dir[n]].wd = s.wd /\ dir[n] = dir'[n]
    BY <1>1, <1>5, <2>1
  <2> QED
    BY <2>2 DEF IInv, ListensToItsKey
<1> QED
  BY <1>2, <1>3, <1>4, <1>6, <1>7, <1>8, <1>9 DEF IInv

LEMMA PublishOpenStep ==
  ASSUME IInv, NEW p \in Publisher, NEW noti \in Noti, publish_open(p, noti)
  PROVE  IInv'
<1> USE InotifyAssumption, HeynotiAssumption DEF publish_open, kernel, history
<1>1. /\ fd' \in [Publisher -> Inode \cup {NULL}] /\ InotifyTypeOK'
      /\ dir' \in [Noti -> Inode \cup {NULL}]
  BY DEF IInv, TypeOK, InotifyTypeOK
<1>2. WatchedLives'
  <2>1. ASSUME NEW i \in Inode, NEW q \in Publisher, fd[q] = i PROVE fd'[q] = i
    BY <2>1 DEF IInv, TypeOK
  <2> QED
    BY <2>1 DEF IInv, WatchedLives, Watched, Linked, Held
<1>3. DirInjective' /\ due' \subseteq g_ns /\ \A s \in due' : InQueue(queue', Closed(s.wd))
  BY DEF IInv, DirInjective, DueIsQueued
<1> QED
  BY <1>1, <1>2, <1>3, WatchesShrink

\* The close: every slot that could hear it is owed a call and has its event.
LEMMA PublishCloseStep ==
  ASSUME IInv, NEW p \in Publisher, publish_close(p)
  PROVE  IInv'
<1> DEFINE i == fd[p]
           gone == ~(Linked(i) \/ Held(i, Publisher \ {p}))
           q == QueueAfterClose(i)
<1> USE InotifyAssumption, HeynotiAssumption DEF publish_close
<1>1. /\ TypeOK /\ InotifyTypeOK /\ i \in Inode
      /\ dir' = dir /\ dir \in [Noti -> Inode \cup {NULL}]
      /\ fd' = [fd EXCEPT ![p] = NULL] /\ fd' \in [Publisher -> Inode \cup {NULL}]
      /\ UNCHANGED <<nc, ht, g_ns, call, rc, subscribed>>
  BY DEF IInv, TypeOK
<1>2. /\ q \in Seq(Event)
      /\ \A f : InQueue(queue, f) => InQueue(q, f)
      /\ "IN_CLOSE_WRITE" \in watch[i].mask /\ Len(queue) < MaxQueue
           => InQueue(q, Closed(watch[i].wd))
  BY <1>1, CloseFacts
<1>3. /\ InotifyTypeOK' /\ lastwd' = lastwd
      /\ \A j \in Inode \ {i} : watch'[j] = watch[j]
      /\ watch'[i] = watch[i] \/ watch'[i].wd = 0
      /\ gone => watch'[i].wd = 0
      /\ \A f : InQueue(q, f) => InQueue(queue', f)
  <2>1. CASE gone
    <3>1. drop_watch(i, q)
      BY <2>1
    <3> QED
      BY <1>1, <1>2, <3>1, DropWatchFacts DEF NoWatch
  <2>2. CASE ~gone
    <3>1. queue' = q /\ watch' = watch /\ lastwd' = lastwd
      BY <2>2
    <3> QED
      BY <1>1, <1>2, <2>2, <3>1 DEF InotifyTypeOK
  <2> QED
    BY <2>1, <2>2
<1>4. WatchedLives'
  <2>1. ASSUME NEW j \in Inode, watch'[j].wd # 0
        PROVE  Linked(j) \/ \E r \in Publisher : fd'[r] = j
    <3>1. watch[j].wd # 0
      BY <1>3, <2>1
    <3>2. CASE j = i
      BY <1>1, <1>3, <2>1, <3>2 DEF Held, TypeOK
    <3>3. CASE j # i
      BY <1>1, <3>1, <3>3 DEF IInv, WatchedLives, Watched, Held, TypeOK
    <3> QED
      BY <3>2, <3>3
  <2> QED
    BY <1>1, <2>1 DEF WatchedLives, Watched, Linked, Held
<1>5. DirInjective'
  BY <1>1 DEF IInv, DirInjective
<1>6. due' \subseteq g_ns
  BY DEF IInv, DueIsQueued, SlotsOf
<1>7. ASSUME NEW s \in due' PROVE InQueue(queue', Closed(s.wd))
  <2>1. CASE s \in due
    BY <1>2, <1>3, <2>1 DEF IInv, DueIsQueued
  <2>2. CASE Audible(i) /\ s \in SlotsOf(watch[i].wd)
    <3>1. s \in g_ns /\ watch[i].wd = s.wd
      BY <2>2 DEF SlotsOf
    <3>2. SubMask \subseteq watch[i].mask
      BY <1>1, <2>2, <3>1 DEF IInv, DeafOnlyInWindow, Audible
    <3>3. InQueue(q, Closed(s.wd))
      BY <1>2, <2>2, <3>1, <3>2 DEF SubMask, Audible
    <3> QED
      BY <1>3, <3>3
  <2> QED
    BY <2>1, <2>2
<1>8. \A j \in Inode : watch'[j] = watch[j] \/ watch'[j].wd = 0
  BY <1>3
<1>9. \A n \in Noti : dir'[n] = dir[n]
  BY <1>1
<1> HIDE DEF publish_close, i, q, gone
<1> QED
  BY <1>1, <1>3, <1>4, <1>5, <1>6, <1>7, <1>8, <1>9, WatchesShrink

\* A file that is given a name has no watch.
LEMMA ToolSetStep ==
  ASSUME IInv, NEW noti \in Noti, tool_set(noti)
  PROVE  IInv'
<1> USE InotifyAssumption, HeynotiAssumption DEF kernel, history
<1>1. PICK i \in Inode : /\ ~Linked(i) /\ ~Held(i, Publisher)
                         /\ dir' = [dir EXCEPT ![noti] = i]
  BY DEF tool_set
<1>2. /\ dir[noti] = NULL
      /\ UNCHANGED <<kernel, fd, nc, ht, g_ns, call, rc, history>>
  BY DEF tool_set
<1>3. /\ dir \in [Noti -> Inode \cup {NULL}] /\ fd \in [Publisher -> Inode \cup {NULL}]
      /\ InotifyTypeOK
  BY DEF IInv, TypeOK
<1>4. watch[i].wd = 0
  BY <1>1 DEF IInv, WatchedLives, Watched
<1>5. dir' \in [Noti -> Inode \cup {NULL}] /\ InotifyTypeOK'
  BY <1>1, <1>2, <1>3 DEF InotifyTypeOK
<1>6. \A n \in Noti : dir'[n] = dir[n] \/ watch'[dir'[n]].wd = 0
  BY <1>1, <1>2, <1>3, <1>4
<1>7. WatchedLives'
  <2>1. ASSUME NEW j \in Inode, NEW n \in Noti, dir[n] = j PROVE dir'[n] = j
    BY <1>1, <1>2, <1>3, <2>1
  <2> QED
    BY <1>2, <2>1 DEF IInv, WatchedLives, Watched, Linked, Held
<1>8. DirInjective'
  BY <1>1, <1>2, <1>3 DEF IInv, DirInjective, Linked
<1>9. due' \subseteq g_ns /\ \A s \in due' : InQueue(queue', Closed(s.wd))
  BY <1>2 DEF IInv, DueIsQueued
<1> QED
  BY <1>2, <1>3, <1>5, <1>6, <1>7, <1>8, <1>9, WatchesShrink

LEMMA ToolUnsetStep ==
  ASSUME IInv, NEW noti \in Noti, tool_unset(noti)
  PROVE  IInv'
<1> DEFINE i == dir[noti]
<1> USE InotifyAssumption, HeynotiAssumption DEF kernel, history
<1>1. /\ i # NULL /\ dir' = [dir EXCEPT ![noti] = NULL]
      /\ UNCHANGED <<fd, nc, ht, g_ns, call, rc, history>>
      /\ IF Held(i, Publisher) THEN UNCHANGED kernel ELSE drop_watch(i, queue)
  BY DEF tool_unset
<1>2. /\ dir \in [Noti -> Inode \cup {NULL}] /\ fd \in [Publisher -> Inode \cup {NULL}]
      /\ InotifyTypeOK /\ queue \in Seq(Event) /\ i \in Inode
  BY <1>1 DEF IInv, TypeOK, InotifyTypeOK
<1>3. /\ InotifyTypeOK' /\ lastwd' = lastwd
      /\ \A j \in Inode \ {i} : watch'[j] = watch[j]
      /\ \/ watch'[i] = watch[i] /\ Held(i, Publisher)
         \/ watch'[i].wd = 0
      /\ \A f : InQueue(queue, f) => InQueue(queue', f)
  <2>1. CASE Held(i, Publisher)
    BY <1>1, <1>2, <2>1 DEF InotifyTypeOK
  <2>2. CASE ~Held(i, Publisher)
    <3>1. drop_watch(i, queue)
      BY <1>1, <2>2
    <3> QED
      BY <1>2, <3>1, DropWatchFacts DEF NoWatch
  <2> QED
    BY <2>1, <2>2
<1>4. /\ dir' \in [Noti -> Inode \cup {NULL}]
      /\ \A n \in Noti : dir'[n] = dir[n] \/ dir'[n] = NULL
  BY <1>1, <1>2
<1>5. WatchedLives'
  <2>1. ASSUME NEW j \in Inode, watch'[j].wd # 0
        PROVE  (\E n \in Noti : dir'[n] = j) \/ Held(j, Publisher)
    <3>1. CASE j = i
      BY <1>3, <2>1, <3>1
    <3>2. CASE j # i
      BY <1>1, <1>2, <1>3, <2>1, <3>2 DEF IInv, WatchedLives, Watched, Linked
    <3> QED
      BY <3>1, <3>2
  <2> QED
    BY <1>1, <2>1 DEF WatchedLives, Watched, Linked, Held
<1>6. DirInjective'
  BY <1>1, <1>2 DEF IInv, DirInjective
<1>7. due' \subseteq g_ns /\ \A s \in due' : InQueue(queue', Closed(s.wd))
  BY <1>1, <1>3 DEF IInv, DueIsQueued
<1>8. \A j \in Inode : watch'[j] = watch[j] \/ watch'[j].wd = 0
  BY <1>3
<1>9. fd' \in [Publisher -> Inode \cup {NULL}]
  BY <1>1, <1>2
<1> QED
  BY <1>1, <1>3, <1>4, <1>5, <1>6, <1>7, <1>8, <1>9, WatchesShrink

-----------------------------------------------------------------------------
(* The theorems.                                                           *)

LEMMA Inductive == IInv /\ [Next]_vars => IInv'
<1> SUFFICES ASSUME IInv, [Next]_vars PROVE IInv'
  OBVIOUS
<1>1. CASE heynoti_init
  BY <1>1, InitStep
<1>2. CASE heynoti_close
  BY <1>2, CloseStep
<1>3. CASE \/ heynoti_attach_handler \/ heynoti_detach_handler \/ gio_cb
           \/ heynoti_poll_event \/ poll_returns \/ poll_fails \/ read_ends
  BY <1>3, HandlerStep
<1>4. ASSUME NEW n \in Noti \cup {NULL}, NEW c \in Callback \cup {NULL},
             heynoti_subscribe(n, c) \/ heynoti_unsubscribe(n, c)
      PROVE  IInv'
  BY <1>4, SubscribeStep
<1>5. CASE add_noti
  BY <1>5, AddNotiStep
<1>6. CASE del_noti
  BY <1>6, DelNotiStep
<1>7. CASE read_event
  BY <1>7, ReadEventStep
<1>8. ASSUME NEW p \in Publisher, publish_close(p) PROVE IInv'
  BY <1>8, PublishCloseStep
<1>9. ASSUME NEW p \in Publisher, NEW n \in Noti, publish_open(p, n) PROVE IInv'
  BY <1>9, PublishOpenStep
<1>10. ASSUME NEW n \in Noti, tool_set(n) PROVE IInv'
  BY <1>10, ToolSetStep
<1>11. ASSUME NEW n \in Removable, tool_unset(n) PROVE IInv'
  BY <1>11, ToolUnsetStep, HeynotiAssumption
<1>12. CASE UNCHANGED vars
  BY <1>12, QuietStep DEF vars, kernel, files, history, IInv, TypeOK
<1> QED
  BY <1>1, <1>2, <1>3, <1>4, <1>5, <1>6, <1>7, <1>8, <1>9, <1>10, <1>11, <1>12
  DEF Next, Application, Library, Environment, handle_event

\* The inductive invariant holds of every execution.
THEOREM Invariance == Spec => []IInv
<1>1. Init => IInv
  BY InitIInv
<1>2. IInv /\ [Next]_vars => IInv'
  BY Inductive
<1> QED
  BY <1>1, <1>2, PTL DEF Spec

\* The library only ever holds slots, descriptors, calls and events of the
\* kinds TypeOK names, for every number of keys, processes and files.
THEOREM TypeCorrect == Spec => []TypeOK
<1>1. IInv => TypeOK
  BY DEF IInv
<1> QED
  BY <1>1, Invariance, PTL

\* The slot list never holds a descriptor and callback twice, so no event
\* calls a callback twice.
THEOREM OneSlotPerCallback == Spec => []NoDuplicateSlot
<1>1. IInv => NoDuplicateSlot
  BY DEF IInv
<1> QED
  BY <1>1, Invariance, PTL

\* Whenever no call for the same descriptor is between __get_wd and its
\* second system call, every slot on the watch of a set key hears publishes.
THEOREM MaskRestored == Spec => []DeafOnlyInWindow
<1>1. IInv => DeafOnlyInWindow
  BY DEF IInv
<1> QED
  BY <1>1, Invariance, PTL

\* A publish that was heard stays queued for each slot until it is dispatched
\* to it, for every queue bound.
THEOREM NoEventForgotten == Spec => []DueIsQueued
<1>1. IInv => DueIsQueued
  BY DEF IInv
<1> QED
  BY <1>1, Invariance, PTL

\* No sequence of unsetting and setting keys makes a slot listen to the file
\* of another key.
THEOREM NoCrossTalk == Spec => []ListensToItsKey
<1>1. IInv => ListensToItsKey
  BY DEF IInv
<1> QED
  BY <1>1, Invariance, PTL

-----------------------------------------------------------------------------
(* The safety core of DueIsServed: events are served in their order.       *)

\* The events of a dropped watch and of a close queue up behind the others.
LEMMA DropExtends ==
  ASSUME TypeOK, NEW i \in Inode, NEW q \in Seq(Event), drop_watch(i, q)
  PROVE  Extends(q, queue')
<1>1. Ignored(watch[i].wd) \in Event
  BY InotifyAssumption DEF TypeOK, InotifyTypeOK, Watch, Ignored, Event
<1>2. Extends(q, q)
  BY DEF Extends
<1> QED
  BY <1>1, <1>2, EnqueueExtends DEF drop_watch

LEMMA CloseExtends ==
  ASSUME TypeOK, NEW i \in Inode
  PROVE  QueueAfterClose(i) \in Seq(Event) /\ Extends(queue, QueueAfterClose(i))
<1>1. queue \in Seq(Event) /\ Closed(watch[i].wd) \in Event
  BY InotifyAssumption DEF TypeOK, InotifyTypeOK, Watch, Closed, Event
<1>2. Extends(queue, queue)
  BY DEF Extends
<1> QED
  BY <1>1, <1>2, EnqueueExtends, EnqueueFacts DEF QueueAfterClose

LEMMA ExtendsTwice ==
  ASSUME NEW p \in Seq(Event), NEW q \in Seq(Event), NEW r \in Seq(Event),
         Extends(p, q), Extends(q, r)
  PROVE  Extends(p, r)
BY DEF Extends

\* Every step but a read leaves the queue as it is, up to what it appends,
\* unless it closes or opens the container, where no slot is owed anything.
LEMMA QueueGrows ==
  ASSUME IInv, [Next]_vars, ~read_event
  PROVE  Extends(queue, queue') \/ due \cap due' = {}
<1>0. /\ TypeOK /\ queue \in Seq(Event)
      /\ Extends(queue, queue)
  BY DEF IInv, TypeOK, InotifyTypeOK, Extends
<1>1. CASE heynoti_init
  <2>1. due = {}
    BY <1>1 DEF heynoti_init, IInv, ClosedClean, DueIsQueued
  <2> QED
    BY <2>1
<1>2. CASE heynoti_close
  BY <1>2 DEF heynoti_close
<1>3. CASE \/ heynoti_attach_handler \/ heynoti_detach_handler \/ gio_cb
           \/ heynoti_poll_event \/ poll_returns \/ poll_fails \/ read_ends
  BY <1>0, <1>3 DEF heynoti_attach_handler, heynoti_detach_handler, gio_cb, kernel,
       heynoti_poll_event, poll_returns, poll_fails, read_ends
<1>4. ASSUME NEW n \in Noti \cup {NULL}, NEW c \in Callback \cup {NULL},
             heynoti_subscribe(n, c) \/ heynoti_unsubscribe(n, c)
      PROVE  queue' = queue
  BY <1>4 DEF heynoti_subscribe, heynoti_unsubscribe, kernel, inotify_add_watch,
       inotify_add_watch_fails, add_watch
<1>5. CASE add_noti
  <2>1. queue' = queue
    BY <1>5 DEF add_noti, kernel, inotify_add_watch, inotify_add_watch_fails, add_watch
  <2> QED
    BY <1>0, <2>1
<1>6. CASE del_noti
  <2>1. \/ queue' = queue
        \/ \E i \in Inode : drop_watch(i, queue)
    BY <1>6 DEF del_noti, kernel, inotify_add_watch, inotify_add_watch_fails, add_watch
  <2> QED
    BY <1>0, <2>1, DropExtends
<1>7. ASSUME NEW p \in Publisher, publish_close(p) PROVE Extends(queue, queue')
  <2>1. fd[p] \in Inode
    BY <1>0, <1>7 DEF publish_close, TypeOK
  <2>2. /\ QueueAfterClose(fd[p]) \in Seq(Event)
        /\ Extends(queue, QueueAfterClose(fd[p]))
    BY <1>0, <2>1, CloseExtends
  <2>3. CASE queue' = QueueAfterClose(fd[p])
    BY <2>2, <2>3
  <2>4. CASE drop_watch(fd[p], QueueAfterClose(fd[p]))
    <3>1. Extends(QueueAfterClose(fd[p]), queue')
      BY <1>0, <2>1, <2>2, <2>4, DropExtends
    <3>2. queue' \in Seq(Event)
      BY <1>0, <2>1, <2>2, <2>4, DropWatchFacts DEF TypeOK, InotifyTypeOK
    <3> QED
      BY <1>0, <2>2, <3>1, <3>2, ExtendsTwice
  <2> QED
    BY <1>7, <2>3, <2>4 DEF publish_close
<1>8. ASSUME NEW n \in Removable, tool_unset(n) PROVE Extends(queue, queue')
  <2>1. dir[n] \in Inode
    BY <1>0, <1>8, HeynotiAssumption DEF tool_unset, TypeOK
  <2> QED
    BY <1>0, <1>8, <2>1, DropExtends DEF tool_unset, kernel
<1>9. ASSUME NEW n \in Noti,
             tool_set(n) \/ \E p \in Publisher : publish_open(p, n)
      PROVE  queue' = queue
  BY <1>9 DEF tool_set, publish_open, kernel
<1>10. CASE UNCHANGED vars
  BY <1>0, <1>10 DEF vars, kernel
<1> QED
  BY <1>0, <1>1, <1>2, <1>3, <1>4, <1>5, <1>6, <1>7, <1>8, <1>9, <1>10
  DEF Next, Application, Library, Environment, handle_event

\* A read takes the head, and what stays owed stays behind it.
LEMMA ReadMovesUp ==
  ASSUME IInv, read_event, NEW s \in due \cap due', NEW k \in 1 .. Len(queue),
         queue[k] = Closed(s.wd)
  PROVE  k - 1 \in 1 .. Len(queue') /\ queue'[k - 1] = Closed(s.wd)
<1>1. /\ queue \in Seq(Event) /\ queue # << >>
      /\ queue' = Tail(queue) /\ due' = due \ Called(Head(queue))
      /\ s \in g_ns
  BY DEF IInv, TypeOK, InotifyTypeOK, DueIsQueued, read_event
<1>2. /\ Len(queue) \in Nat /\ Len(Tail(queue)) = Len(queue) - 1
      /\ Head(queue) = queue[1]
      /\ \A j \in 1 .. Len(queue) - 1 : Tail(queue)[j] = queue[j + 1]
  BY <1>1
<1>3. ASSUME k = 1 PROVE FALSE
  <2>1. Head(queue).wd = s.wd /\ Head(queue).mask = "IN_CLOSE_WRITE"
    BY <1>2, <1>3 DEF Closed
  <2>2. s \in Called(Head(queue))
    BY <1>1, <2>1 DEF Called, SlotsOf, SubMask
  <2> QED
    BY <1>1, <2>2
<1> QED
  BY <1>1, <1>2, <1>3

\* The event that will serve a slot only moves towards the head, with every
\* read, for every bound of the queue: what others publish, unset or
\* unsubscribe never delays what is owed.
THEOREM EventsAdvance == Spec => NoOvertaking
<1> DEFINE P == \A s \in due \cap due', k \in 1 .. Len(queue) :
                  queue[k] = Closed(s.wd) =>
                    \E j \in 1 .. k :
                      /\ j <= Len(queue') /\ queue'[j] = Closed(s.wd)
                      /\ read_event => j < k
<1>1. ASSUME IInv, [Next]_vars PROVE [P]_vars
  <2> SUFFICES ASSUME NEW s \in due \cap due', NEW k \in 1 .. Len(queue),
                      queue[k] = Closed(s.wd)
               PROVE  \E j \in 1 .. k :
                        /\ j <= Len(queue') /\ queue'[j] = Closed(s.wd)
                        /\ read_event => j < k
    OBVIOUS
  <2>0. Len(queue) \in Nat
    BY <1>1 DEF IInv, TypeOK, InotifyTypeOK
  <2>1. CASE read_event
    <3>1. k - 1 \in 1 .. Len(queue') /\ queue'[k - 1] = Closed(s.wd)
      BY <1>1, <2>1, ReadMovesUp
    <3>2. k - 1 \in 1 .. k /\ k - 1 <= Len(queue') /\ k - 1 < k
      <4>1. Len(queue') \in Nat
        BY <1>1, Inductive DEF IInv, TypeOK, InotifyTypeOK
      <4> QED
        BY <2>0, <3>1, <4>1
    <3> QED
      BY <3>1, <3>2
  <2>2. CASE ~read_event
    <3>1. Extends(queue, queue')
      BY <1>1, <2>2, QueueGrows
    <3>2. k \in 1 .. k /\ k <= Len(queue') /\ queue'[k] = Closed(s.wd)
      BY <2>0, <3>1 DEF Extends
    <3> QED
      BY <2>2, <3>2
  <2> QED
    BY <2>1, <2>2
<1>2. IInv /\ [Next]_vars => [P]_vars
  BY <1>1
<1>3. Spec => [][P]_vars
  BY <1>2, Invariance, PTL DEF Spec
<1> QED
  BY <1>3 DEF NoOvertaking

-----------------------------------------------------------------------------
(* What a failing call leaves behind: slots that stay, watches that do not. *)

\* Only calls between their system calls return, and both of them do.
LEMMA WindowEnds ==
  ASSUME [Next]_vars, InWindow, call' # call
  PROVE  add_noti \/ del_noti
<1>1. ~UNCHANGED vars /\ call # Idle /\ call.op \notin {"poll_event", "handle_event"}
  BY DEF vars, InWindow, Idle, Doing
<1> QED
  BY <1>1
  DEF Next, Application, Library, Environment, heynoti_init, heynoti_close,
      heynoti_attach_handler, heynoti_detach_handler, heynoti_poll_event,
      heynoti_subscribe, heynoti_unsubscribe, gio_cb, poll_returns, poll_fails,
      handle_event, read_event, read_ends, publish_close, publish_open, tool_set, tool_unset

\* While the key keeps the file that __get_wd found, the file has its watch and
\* no system call on it fails.
LEMMA KeyKept ==
  ASSUME IInv, InWindow, ~KeyLost
  PROVE  /\ TypeOK /\ WatchFresh
         /\ call.noti \in Noti /\ dir[call.noti] \in Inode /\ Watched(dir[call.noti])
         /\ watch[dir[call.noti]].wd = call.wd /\ call.wd # 0
         /\ ~inotify_add_watch_fails(call.noti)
<1>1. /\ TypeOK /\ WatchFresh /\ call.noti \in Noti /\ call.wd # 0
      /\ dir[call.noti] # NULL /\ watch[dir[call.noti]].wd = call.wd
  BY DEF IInv, WindowOK, KeyLost
<1>2. dir[call.noti] \in Inode
  BY <1>1 DEF TypeOK
<1> QED
  BY <1>1, <1>2 DEF Watched, inotify_add_watch_fails

\* An unsubscribe that returns -1 has freed nothing, unless its key was unset
\* after __get_wd (_del_noti frees first and calls inotify last).
THEOREM FailuresAreClean == Spec => FailureKeepsSlots
<1> DEFINE P == InWindow /\ call' = Idle /\ rc' = -1 /\ g_ns' # g_ns => KeyLost
<1>1. ASSUME IInv, [Next]_vars PROVE P
  <2> SUFFICES ASSUME InWindow, call' = Idle, rc' = -1, g_ns' # g_ns, ~KeyLost
               PROVE  FALSE
    OBVIOUS
  <2>1. call' # call
    BY DEF InWindow, Idle, Doing
  <2>2. CASE add_noti
    BY <2>2 DEF add_noti, Return
  <2>3. CASE del_noti
    <3> DEFINE deleted == Deleted(call.wd, call.cb)
               remain  == Remain(call.wd, call.cb)
    <3>1. /\ dir[call.noti] \in {i \in Inode : watch[i].wd = call.wd}
          /\ ~inotify_add_watch_fails(call.noti)
          /\ WdFor(dir[call.noti]) = call.wd /\ call.wd \in Nat
      BY <1>1, KeyKept DEF WdFor, TypeOK, Call
    <3>2. deleted # {}
      BY <2>3 DEF del_noti
    <3>3. rc' = 0 \/ rc' = Result(deleted, WdFor(dir[call.noti]))
      BY <2>3, <3>1 DEF del_noti, Return
    <3> QED
      BY <3>1, <3>2, <3>3 DEF Result
  <2> QED
    BY <1>1, <2>1, <2>2, <2>3, WindowEnds
<1>2. IInv /\ [Next]_vars => [P]_vars
  BY <1>1
<1> QED
  BY <1>2, Invariance, PTL DEF Spec, FailureKeepsSlots

-----------------------------------------------------------------------------
(* Watches without a slot.                                                 *)

NewOrphan(i) == Orphan(i)' /\ ~Orphan(i)
Excused == InWindow /\ call' = Idle /\ (OutOfMemory \/ KeyLost)

\* Steps that only take watches away, or leave them alone.
LEMMA ShrinkOwned ==
  ASSUME UNCHANGED g_ns, call' = call \/ ~InWindow, NEW i \in Inode,
         watch'[i] = watch[i] \/ watch'[i].wd = 0
  PROVE  ~NewOrphan(i)
BY DEF NewOrphan, Orphan, Watched, SlotsOf, InWindow

LEMMA SubscribeOwned ==
  ASSUME IInv, NEW noti \in Noti \cup {NULL}, NEW cb \in Callback \cup {NULL},
         heynoti_subscribe(noti, cb) \/ heynoti_unsubscribe(noti, cb), NEW i \in Inode
  PROVE  ~NewOrphan(i)
<1>1. ~InWindow /\ g_ns' = g_ns
  BY DEF heynoti_subscribe, heynoti_unsubscribe, InWindow, Idle, Doing
<1>2. CASE UNCHANGED kernel
  BY <1>1, <1>2, ShrinkOwned DEF kernel
<1>3. CASE /\ noti # NULL /\ inotify_add_watch(noti, {"IN_ACCESS"})
           /\ call'.wd = WdFor(dir[noti]) /\ call'.op \in {"subscribe", "unsubscribe"}
  <2>1. {"IN_ACCESS"} \in SUBSET Bit /\ noti \in Noti /\ TypeOK /\ WatchFresh
    BY <1>3 DEF Bit, IInv
  <2>2. /\ watch'[dir[noti]] = [wd |-> WdFor(dir[noti]), mask |-> {"IN_ACCESS"}]
        /\ \A j \in Inode \ {dir[noti]} : watch'[j] = watch[j]
    BY <1>3, <2>1, AddWatchFacts
  <2>3. call'.wd = watch'[dir[noti]].wd /\ InWindow'
    BY <1>3, <2>2 DEF InWindow
  <2>4. CASE i = dir[noti]
    BY <2>3, <2>4 DEF NewOrphan, Orphan
  <2>5. CASE i # dir[noti]
    BY <1>1, <2>2, <2>5 DEF NewOrphan, Orphan, Watched, SlotsOf
  <2> QED
    BY <2>4, <2>5
<1>4. CASE heynoti_subscribe(noti, cb)
  BY <1>2, <1>3, <1>4 DEF heynoti_subscribe, BadSubscribe, inotify_add_watch_fails
<1>5. CASE heynoti_unsubscribe(noti, cb)
  BY <1>2, <1>3, <1>5 DEF heynoti_unsubscribe, inotify_add_watch_fails
<1> QED
  BY <1>4, <1>5

\* The second inotify_add_watch of a call whose key kept its file changes no
\* descriptor.
LEMMA SameDescriptors ==
  ASSUME IInv, InWindow, ~KeyLost, NEW mask \in SUBSET Bit,
         inotify_add_watch(call.noti, mask)
  PROVE  \A j \in Inode : watch'[j].wd = watch[j].wd
<1> DEFINE n == call.noti
<1>1. TypeOK /\ WatchFresh /\ n \in Noti /\ Watched(dir[n])
  BY KeyKept
<1>2. /\ WdFor(dir[n]) = watch[dir[n]].wd
      /\ watch'[dir[n]] = [wd |-> WdFor(dir[n]), mask |-> mask]
      /\ \A j \in Inode \ {dir[n]} : watch'[j] = watch[j]
  BY <1>1, AddWatchFacts
<1> QED
  BY <1>2

LEMMA AddNotiOwned ==
  ASSUME IInv, add_noti, NEW i \in Inode, NewOrphan(i)
  PROVE  Excused
<1> DEFINE sm == MaskAll(SlotsOf(call.wd), {})
           am == MaskAll(SlotsOf(call.wd), SubMask)
           n  == call.noti
<1>1. InWindow /\ call' = Idle /\ call.op = "subscribe"
  BY DEF add_noti, InWindow, Return
<1> SUFFICES ASSUME ~KeyLost, ~OutOfMemory  PROVE FALSE
  BY <1>1 DEF Excused
<1>2. ~inotify_add_watch_fails(n)
  BY <1>1, KeyKept
<1>3. sm \in SUBSET Bit /\ am \in SUBSET Bit
  <2>1. {} \in SUBSET Bit /\ SubMask \in SUBSET Bit
    BY DEF SubMask, Bit
  <2> QED
    BY <2>1, MaskAllFacts
\* Whichever mask is set, descriptors stay, and a slot of the call's is there.
<1>4. \A j \in Inode : watch'[j].wd = watch[j].wd
  <2>1. ASSUME NEW mask \in SUBSET Bit, inotify_add_watch(n, mask)
        PROVE  \A j \in Inode : watch'[j].wd = watch[j].wd
    BY <1>1, <2>1, SameDescriptors
  <2> QED
    BY <1>2, <1>3, <2>1 DEF add_noti
<1>5. g_ns \subseteq g_ns' /\ \E s \in g_ns' : s.wd = call.wd
  <2>1. CASE Found(call.wd, call.cb) /\ g_ns' = g_ns
    BY <2>1 DEF Found
  <2>2. ASSUME NEW x \in Node,
               g_ns' = g_ns \cup {[node |-> x, wd |-> call.wd, cb |-> call.cb, noti |-> n]}
        PROVE  g_ns \subseteq g_ns' /\ \E s \in g_ns' : s.wd = call.wd
    <3> DEFINE new == [node |-> x, wd |-> call.wd, cb |-> call.cb, noti |-> n]
    <3>1. new \in g_ns' /\ new.wd = call.wd
      BY <2>2
    <3> QED
      BY <2>2, <3>1
  <2>3. ~(Node \ {s.node : s \in g_ns} = {} /\ rc' = -1)
    BY <1>1 DEF OutOfMemory
  <2> QED
    BY <1>2, <2>1, <2>2, <2>3 DEF add_noti, Return
<1>6. watch'[i].wd # 0 /\ (\A s \in g_ns' : s.wd # watch'[i].wd)
  BY DEF NewOrphan, Orphan, Watched, SlotsOf
<1>7. Orphan(i)
  BY <1>4, <1>5, <1>6 DEF Orphan, Watched, SlotsOf
<1> QED
  BY <1>7 DEF NewOrphan

LEMMA DelNotiOwned ==
  ASSUME IInv, del_noti, NEW i \in Inode, NewOrphan(i)
  PROVE  Excused
<1> DEFINE n      == call.noti
           remain == Remain(call.wd, call.cb)
           rm     == MaskAll(remain, {})
<1>1. InWindow /\ call' = Idle
  BY DEF del_noti, InWindow, Return
<1> SUFFICES ASSUME ~KeyLost  PROVE FALSE
  BY <1>1 DEF Excused
<1>2. /\ ~inotify_add_watch_fails(n) /\ TypeOK /\ WatchFresh /\ call.wd # 0
      /\ {j \in Inode : watch[j].wd = call.wd} # {}
  BY <1>1, KeyKept
<1>3. /\ \A s \in g_ns : s.wd # call.wd => s \in g_ns'
      /\ remain \subseteq g_ns' /\ \A s \in remain : s.wd = call.wd
  BY DEF del_noti, Deleted, Remain, SlotsOf
<1>4. watch'[i].wd # 0 /\ \A s \in g_ns' : s.wd # watch'[i].wd
  BY DEF NewOrphan, Orphan, Watched, SlotsOf
<1>5. CASE remain = {} /\ \E j \in Inode : watch[j].wd = call.wd /\ drop_watch(j, queue)
  <2>1. PICK j \in Inode : watch[j].wd = call.wd /\ drop_watch(j, queue)
    BY <1>5
  <2>2. \A k \in Inode : watch[k].wd = call.wd => k = j
    BY <1>2, <2>1 DEF WatchFresh, Watched
  <2>3. watch'[j] = NoWatch /\ \A k \in Inode \ {j} : watch'[k] = watch[k]
    BY <1>2, <2>1 DEF drop_watch, TypeOK, InotifyTypeOK
  <2>4. watch'[i] = watch[i] /\ watch[i].wd # call.wd
    BY <1>4, <2>2, <2>3 DEF NoWatch
  <2>5. Orphan(i)
    BY <1>3, <1>4, <2>4 DEF Orphan, Watched, SlotsOf
  <2> QED
    BY <2>5 DEF NewOrphan
<1>6. CASE remain # {} /\ inotify_add_watch(n, rm)
  <2>1. rm \in SUBSET Bit
    <3>1. {} \in SUBSET Bit
      OBVIOUS
    <3> QED
      BY <3>1, MaskAllFacts
  <2>2. \A j \in Inode : watch'[j].wd = watch[j].wd
    BY <1>1, <1>6, <2>1, SameDescriptors
  <2>3. Orphan(i)
    BY <1>3, <1>4, <1>6, <2>2 DEF Orphan, Watched, SlotsOf
  <2> QED
    BY <2>3 DEF NewOrphan
<1> QED
  BY <1>2, <1>5, <1>6 DEF del_noti

LEMMA EnvironmentOwned ==
  ASSUME IInv, Environment, NEW i \in Inode
  PROVE  ~NewOrphan(i)
<1>1. watch \in [Inode -> Watch] /\ \A j \in Inode : NoWatch = [wd |-> 0, mask |-> {}]
  BY DEF IInv, TypeOK, InotifyTypeOK, NoWatch
<1>2. watch'[i] = watch[i] \/ watch'[i].wd = 0
  <2>1. CASE UNCHANGED watch
    BY <2>1
  <2>2. ASSUME NEW j, NEW q, drop_watch(j, q)
        PROVE  watch'[i] = watch[i] \/ watch'[i].wd = 0
    <3>1. watch' = [watch EXCEPT ![j] = [wd |-> 0, mask |-> {}]]
      BY <2>2 DEF drop_watch, NoWatch
    <3> QED
      BY <1>1, <3>1
  <2>3. CASE \E p \in Publisher : publish_close(p)
    BY <2>1, <2>2, <2>3 DEF publish_close
  <2>4. CASE \E p \in Publisher, n \in Noti : publish_open(p, n)
    BY <2>1, <2>4 DEF publish_open, kernel
  <2>5. CASE \E n \in Noti : tool_set(n)
    BY <2>1, <2>5 DEF tool_set, kernel
  <2>6. CASE \E n \in Removable : tool_unset(n)
    BY <2>1, <2>2, <2>6 DEF tool_unset, kernel
  <2> QED
    BY <2>3, <2>4, <2>5, <2>6 DEF Environment
<1>3. g_ns' = g_ns /\ call' = call
  BY DEF Environment, publish_close, publish_open, tool_set, tool_unset
<1> QED
  BY <1>2, <1>3, ShrinkOwned

\* A watch is left without a slot only by a subscribe for which calloc failed
\* or by a call whose key was unset between its two system calls; no other
\* failed or repeated subscribe, no unsubscribe and no other process does it.
THEOREM NoWatchLeaks == Spec => NoOrphanWatch
<1> DEFINE P == \A i \in Inode : NewOrphan(i) => Excused
<1>1. ASSUME IInv, [Next]_vars, NEW i \in Inode, NewOrphan(i)
      PROVE  Excused
  <2>1. CASE \/ heynoti_attach_handler \/ heynoti_detach_handler \/ gio_cb
             \/ heynoti_poll_event \/ poll_returns \/ poll_fails \/ handle_event
             \/ UNCHANGED vars
    BY <1>1, <2>1, ShrinkOwned
    DEF heynoti_attach_handler, heynoti_detach_handler, gio_cb, heynoti_poll_event,
        poll_returns, poll_fails, handle_event, read_event, read_ends, kernel, vars,
        InWindow, Idle, Doing
  <2>2. CASE heynoti_init
    <3>1. g_ns' = g_ns /\ ~InWindow
      BY <2>2 DEF heynoti_init, InWindow, Idle, Doing
    <3>2. watch'[i] = watch[i] \/ watch'[i].wd = 0
      BY <2>2 DEF heynoti_init, fresh_instance, kernel, NoWatch
    <3> QED
      BY <1>1, <3>1, <3>2, ShrinkOwned
  <2>3. CASE heynoti_close
    <3>1. watch'[i].wd = 0
      BY <2>3 DEF heynoti_close, fresh_instance, NoWatch
    <3> QED
      BY <1>1, <3>1 DEF NewOrphan, Orphan, Watched
  <2>4. ASSUME NEW n \in Noti \cup {NULL}, NEW c \in Callback \cup {NULL},
               heynoti_subscribe(n, c) \/ heynoti_unsubscribe(n, c)
        PROVE  Excused
    BY <1>1, <2>4, SubscribeOwned
  <2> QED
    BY <1>1, <2>1, <2>2, <2>3, <2>4, AddNotiOwned, DelNotiOwned, EnvironmentOwned
    DEF Next, Application, Library
<1>2. IInv /\ [Next]_vars => [P]_vars
  BY <1>1
<1>3. Spec => [][P]_vars
  BY <1>2, Invariance, PTL DEF Spec
<1> QED
  BY <1>3 DEF NoOrphanWatch, NewOrphan, Excused

-----------------------------------------------------------------------------
(***************************************************************************)
(* With keys that stay set, Heynoti implements NotiService, for every      *)
(* number of keys, callbacks, publishers and files.                        *)
(*                                                                         *)
(* IInv is not enough: it allows slots whose key was unset. Here a slot's  *)
(* descriptor always is that of its key's file (SlotWired), so the slots   *)
(* an event or an unsubscribe finds by descriptor are exactly those of a   *)
(* key, and the second system call of a call in progress cannot fail.      *)
(***************************************************************************)

SlotWired ==
  \A s \in g_ns : dir[s.noti] # NULL /\ watch[dir[s.noti]].wd = s.wd

CallWired ==
  InWindow => dir[call.noti] # NULL /\ watch[dir[call.noti]].wd = call.wd

Promised == subscribed = {PairOf(s) : s \in g_ns}

SInv ==
  /\ IInv
  /\ SlotWired
  /\ CallWired
  /\ Promised

pending == {PairOf(s) : s \in due}

\* A step of the service, or none.
ServiceStep == [Service!Next]_<<subscribed, pending>>

-----------------------------------------------------------------------------

LEMMA TypeFacts ==
  ASSUME SInv
  PROVE  /\ TypeOK /\ WatchFresh
         /\ \A n \in Noti : dir[n] # NULL => dir[n] \in Inode
         /\ due \subseteq g_ns
         /\ \A s \in g_ns : /\ s.noti \in Noti /\ s.cb \in Callback
                            /\ s.wd \in 1 .. MaxWd /\ s.wd # 0
BY InotifyAssumption DEF SInv, IInv, TypeOK, Slot, DueIsQueued

\* The slots on the descriptor of a key's file are the slots of the key.
LEMMA SlotsOfKey ==
  ASSUME SInv, NEW n \in Noti, dir[n] # NULL
  PROVE  \A s \in g_ns : s.wd = watch[dir[n]].wd <=> s.noti = n
BY DEF SInv, SlotWired, IInv, ListensToItsKey

\* Placing a watch on a key moves no watched file to another descriptor.
LEMMA AddWatchWired ==
  ASSUME SInv, NEW noti \in Noti, NEW mask \in SUBSET Bit,
         inotify_add_watch(noti, mask), dir' = dir, g_ns' = g_ns
  PROVE  /\ SlotWired'
         /\ watch'[dir[noti]].wd = WdFor(dir[noti])
         /\ Watched(dir[noti]) => WdFor(dir[noti]) = watch[dir[noti]].wd
<1>1. TypeOK /\ WatchFresh
  BY TypeFacts
<1>2. /\ dir[noti] \in Inode
      /\ Watched(dir[noti]) => WdFor(dir[noti]) = watch[dir[noti]].wd
      /\ watch'[dir[noti]] = [wd |-> WdFor(dir[noti]), mask |-> mask]
      /\ \A j \in Inode \ {dir[noti]} : watch'[j] = watch[j]
  BY <1>1, AddWatchFacts
<1>3. watch'[dir[noti]].wd = WdFor(dir[noti])
  BY <1>2
<1>4. ASSUME NEW s \in g_ns PROVE dir[s.noti] # NULL /\ watch'[dir[s.noti]].wd = s.wd
  <2>1. /\ dir[s.noti] # NULL /\ watch[dir[s.noti]].wd = s.wd /\ s.wd # 0
        /\ dir[s.noti] \in Inode
    BY TypeFacts DEF SInv, SlotWired
  <2> QED
    BY <1>2, <1>3, <2>1 DEF Watched
<1> QED
  BY <1>2, <1>3, <1>4 DEF SlotWired

-----------------------------------------------------------------------------
(* One step of the library or of another process is at most one step of    *)
(* the service. IInv' is known from Inductive, and left out here.          *)

SStep == SlotWired' /\ CallWired' /\ Promised' /\ ServiceStep

LEMMA QuietRefines ==
  ASSUME SInv,
         UNCHANGED <<dir, watch, g_ns, subscribed, due>>,
         call' = call \/ call' \in {Idle, Doing("poll_event"), Doing("handle_event")}
  PROVE  SStep
<1>1. InWindow' => call' = call /\ InWindow
  BY DEF InWindow, Idle, Doing
<1>2. SlotWired' /\ CallWired' /\ Promised'
  BY <1>1 DEF SInv, SlotWired, CallWired, Promised
<1>3. ServiceStep
  BY DEF ServiceStep, pending
<1> QED
  BY <1>2, <1>3 DEF SStep

LEMMA InitRefines == SInv /\ heynoti_init => SStep
<1> SUFFICES ASSUME SInv, heynoti_init PROVE SStep
  OBVIOUS
<1>1. call' = Idle /\ g_ns' = g_ns /\ subscribed' = subscribed /\ due' = due /\ dir' = dir
  BY DEF heynoti_init, Return, files, history
<1>2. CASE UNCHANGED kernel
  BY <1>1, <1>2, QuietRefines DEF kernel
<1>3. CASE ~UNCHANGED kernel
  <2>1. g_ns = {}
    BY DEF heynoti_init, SInv, IInv, ClosedClean
  <2>2. ~InWindow'
    BY <1>1 DEF InWindow, Idle, Doing
  <2>3. SlotWired' /\ CallWired' /\ Promised'
    BY <1>1, <2>1, <2>2 DEF SInv, SlotWired, CallWired, Promised
  <2>4. ServiceStep
    BY <1>1 DEF ServiceStep, pending
  <2> QED
    BY <2>3, <2>4 DEF SStep
<1> QED
  BY <1>2, <1>3

LEMMA CloseRefines == SInv /\ heynoti_close => SStep
<1> SUFFICES ASSUME SInv, heynoti_close PROVE SStep
  OBVIOUS
<1>1. g_ns' = {} /\ subscribed' = {} /\ due' = {} /\ call' = Idle
  BY DEF heynoti_close, clear_nslot_list
<1>2. SlotWired' /\ CallWired' /\ Promised'
  BY <1>1 DEF SlotWired, CallWired, Promised, InWindow, Idle, Doing
<1>3. Service!Close
  BY <1>1 DEF Service!Close
<1> QED
  BY <1>2, <1>3 DEF SStep, ServiceStep, Service!Next

\* The first half of a call makes no step of the service.
LEMMA SubscribeRefines ==
  ASSUME SInv, NEW noti \in Noti \cup {NULL}, NEW cb \in Callback \cup {NULL},
         heynoti_subscribe(noti, cb) \/ heynoti_unsubscribe(noti, cb)
  PROVE  SStep
<1> USE DEF heynoti_subscribe, heynoti_unsubscribe, BadSubscribe, Return
<1>1. UNCHANGED <<dir, g_ns, subscribed, due>>
  BY DEF files, history
<1>2. CASE UNCHANGED kernel /\ call' = Idle
  BY <1>1, <1>2, QuietRefines DEF kernel
<1>3. CASE /\ noti # NULL /\ inotify_add_watch(noti, {"IN_ACCESS"})
           /\ call'.noti = noti /\ call'.wd = WdFor(dir[noti])
  <2>1. {"IN_ACCESS"} \in SUBSET Bit /\ noti \in Noti /\ dir[noti] # NULL
    BY <1>3 DEF Bit, inotify_add_watch
  <2>2. SlotWired' /\ watch'[dir[noti]].wd = WdFor(dir[noti])
    BY <1>1, <1>3, <2>1, AddWatchWired
  <2>3. CallWired' /\ Promised'
    BY <1>1, <1>3, <2>1, <2>2 DEF CallWired, SInv, Promised
  <2>4. ServiceStep
    BY <1>1 DEF ServiceStep, pending
  <2> QED
    BY <2>2, <2>3, <2>4 DEF SStep
<1> QED
  BY <1>2, <1>3 DEF inotify_add_watch_fails

LEMMA AddNotiRefines == SInv /\ add_noti => SStep
<1> SUFFICES ASSUME SInv, add_noti PROVE SStep
  OBVIOUS
<1> DEFINE sm == MaskAll(SlotsOf(call.wd), {})
           am == MaskAll(SlotsOf(call.wd), SubMask)
           n  == call.noti
<1>1. /\ InWindow /\ call' = Idle /\ dir' = dir /\ due' = due
  BY DEF add_noti, Return, InWindow, files
<1>2. /\ n \in Noti /\ dir[n] # NULL /\ watch[dir[n]].wd = call.wd /\ call.wd # 0
      /\ call.cb \in Callback
  BY <1>1 DEF SInv, IInv, WindowOK, CallWired, add_noti
<1>3. dir[n] \in Inode /\ Watched(dir[n])
  BY <1>2, TypeFacts DEF Watched
<1>4. ~inotify_add_watch_fails(n)
  BY <1>3 DEF inotify_add_watch_fails
<1>5. sm \in SUBSET Bit /\ am \in SUBSET Bit
  <2>1. {} \in SUBSET Bit /\ SubMask \in SUBSET Bit
    BY DEF SubMask, Bit
  <2> QED
    BY <2>1, MaskAllFacts
<1>6. ~InWindow'
  BY <1>1 DEF InWindow, Idle, Doing
<1>7. CASE /\ UNCHANGED <<g_ns, subscribed>>
           /\ inotify_add_watch(n, sm) \/ inotify_add_watch(n, am)
  <2>1. SlotWired'
    BY <1>1, <1>2, <1>5, <1>7, AddWatchWired
  <2>2. CallWired' /\ Promised' /\ ServiceStep
    BY <1>1, <1>6, <1>7 DEF CallWired, SInv, Promised, ServiceStep, pending
  <2> QED
    BY <2>1, <2>2 DEF SStep
<1>8. ASSUME NEW x \in Node, ~Found(call.wd, call.cb),
             inotify_add_watch(n, am),
             g_ns' = g_ns \cup {[node |-> x, wd |-> call.wd, cb |-> call.cb, noti |-> n]},
             subscribed' = subscribed \cup {<<n, call.cb>>}
      PROVE  SStep
  <2> DEFINE new == [node |-> x, wd |-> call.wd, cb |-> call.cb, noti |-> n]
  <2>1. new.wd = call.wd /\ new.noti = n /\ PairOf(new) = <<n, call.cb>>
    BY DEF PairOf
  \* The step seen without the new slot is one AddWatchWired speaks of.
  <2>2. /\ watch'[dir[n]].wd = call.wd
        /\ \A s \in g_ns : dir[s.noti] # NULL /\ watch'[dir[s.noti]].wd = s.wd
    <3>1. TypeOK /\ WatchFresh
      BY TypeFacts
    <3>2. /\ WdFor(dir[n]) = watch[dir[n]].wd
          /\ watch'[dir[n]] = [wd |-> WdFor(dir[n]), mask |-> am]
          /\ \A j \in Inode \ {dir[n]} : watch'[j] = watch[j]
      BY <1>2, <1>3, <1>5, <1>8, <3>1, AddWatchFacts
    <3>3. watch'[dir[n]].wd = call.wd
      BY <1>2, <3>2
    <3>4. ASSUME NEW s \in g_ns PROVE dir[s.noti] # NULL /\ watch'[dir[s.noti]].wd = s.wd
      <4>1. /\ dir[s.noti] # NULL /\ watch[dir[s.noti]].wd = s.wd
            /\ dir[s.noti] \in Inode
        BY TypeFacts DEF SInv, SlotWired
      <4> QED
        BY <1>2, <3>2, <3>3, <4>1
    <3> QED
      BY <3>3, <3>4
  <2>3. SlotWired'
    BY <1>1, <1>2, <1>8, <2>1, <2>2 DEF SlotWired
  <2>4. CallWired' /\ Promised'
    BY <1>6, <1>8, <2>1 DEF CallWired, SInv, Promised
  <2>5. <<n, call.cb>> \notin subscribed
    <3>1. ASSUME NEW s \in g_ns, PairOf(s) = <<n, call.cb>> PROVE FALSE
      <4>1. s.noti = n /\ s.cb = call.cb
        BY <3>1 DEF PairOf
      <4>2. s.wd = call.wd
        BY <1>2, <4>1, SlotsOfKey
      <4> QED
        BY <1>8, <4>1, <4>2 DEF Found
    <3> QED
      BY <3>1 DEF SInv, Promised
  <2>6. Service!Subscribe(n, call.cb)
    BY <1>1, <1>8, <2>5 DEF Service!Subscribe
  <2>7. ServiceStep
    BY <1>2, <2>6 DEF ServiceStep, Service!Next
  <2> QED
    BY <2>3, <2>4, <2>7 DEF SStep
<1> QED
  BY <1>4, <1>7, <1>8 DEF add_noti

LEMMA DelNotiRefines == SInv /\ del_noti => SStep
<1> SUFFICES ASSUME SInv, del_noti PROVE SStep
  OBVIOUS
<1> DEFINE n       == call.noti
           deleted == Deleted(call.wd, call.cb)
           remain  == Remain(call.wd, call.cb)
           rm      == MaskAll(remain, {})
           cbs     == IF call.cb = NULL THEN Callback ELSE {call.cb}
<1>1. /\ InWindow /\ call' = Idle /\ dir' = dir /\ g_ns' = g_ns \ deleted /\ due' = due \ deleted
      /\ subscribed' = IF rc' >= 0
                       THEN {u \in subscribed : ~(u[1] = n /\ call.cb \in {NULL, u[2]})}
                       ELSE subscribed
  BY DEF del_noti, Return, InWindow, files
<1>2. /\ n \in Noti /\ dir[n] # NULL /\ watch[dir[n]].wd = call.wd /\ call.wd # 0
      /\ call.cb \in Callback \cup {NULL}
  BY <1>1 DEF SInv, IInv, WindowOK, CallWired, TypeOK, Call
<1>3. dir[n] \in Inode /\ Watched(dir[n])
  BY <1>2, TypeFacts DEF Watched
<1>4. ~InWindow'
  BY <1>1 DEF InWindow, Idle, Doing
<1>5. \A s \in g_ns : s \in deleted <=> s.noti = n /\ s.cb \in cbs
  <2>1. \A s \in g_ns : s.wd = call.wd <=> s.noti = n
    BY <1>2, SlotsOfKey
  <2>2. \A s \in g_ns : s.cb \in Callback
    BY TypeFacts
  <2> QED
    BY <2>1, <2>2, HeynotiAssumption DEF Deleted, SlotsOf
\* The slots after the second system call are wired as before.
<1>6. SlotWired'
  <2>1. CASE \E i \in Inode : watch[i].wd = call.wd /\ drop_watch(i, queue) /\ remain = {}
    <3>1. PICK i \in Inode : watch[i].wd = call.wd /\ drop_watch(i, queue)
      BY <2>1
    <3>2. i = dir[n]
      BY <1>2, <1>3, <3>1, TypeFacts DEF WatchFresh
    <3>3. watch' = [watch EXCEPT ![i] = NoWatch] /\ watch \in [Inode -> Watch]
      BY <3>1, TypeFacts DEF drop_watch, TypeOK, InotifyTypeOK
    <3>4. ASSUME NEW s \in g_ns' PROVE dir[s.noti] # NULL /\ watch'[dir[s.noti]].wd = s.wd
      <4>1. s \in g_ns /\ s.wd # call.wd
        BY <1>1, <2>1 DEF Remain, SlotsOf
      <4>2. dir[s.noti] \in Inode /\ dir[s.noti] # NULL /\ watch[dir[s.noti]].wd = s.wd
        BY <4>1, TypeFacts DEF SInv, SlotWired
      <4> QED
        BY <1>2, <3>2, <3>3, <4>1, <4>2
    <3> QED
      BY <1>1, <3>4 DEF SlotWired
  <2>2. CASE inotify_add_watch(n, rm)
    <3>1. TypeOK /\ WatchFresh /\ rm \in SUBSET Bit
      <4>1. {} \in SUBSET Bit
        OBVIOUS
      <4> QED
        BY <4>1, TypeFacts, MaskAllFacts
    <3>2. /\ WdFor(dir[n]) = watch[dir[n]].wd
          /\ watch'[dir[n]] = [wd |-> WdFor(dir[n]), mask |-> rm]
          /\ \A j \in Inode \ {dir[n]} : watch'[j] = watch[j]
      BY <1>2, <1>3, <2>2, <3>1, AddWatchFacts
    <3>3. ASSUME NEW s \in g_ns' PROVE dir[s.noti] # NULL /\ watch'[dir[s.noti]].wd = s.wd
      <4>1. dir[s.noti] \in Inode /\ dir[s.noti] # NULL /\ watch[dir[s.noti]].wd = s.wd
        BY <1>1, TypeFacts DEF SInv, SlotWired
      <4> QED
        BY <1>2, <3>2, <4>1
    <3> QED
      BY <1>1, <3>3 DEF SlotWired
  <2>3. ~inotify_add_watch_fails(n) /\ {i \in Inode : watch[i].wd = call.wd} # {}
    BY <1>2, <1>3 DEF inotify_add_watch_fails
  <2> QED
    BY <2>1, <2>2, <2>3 DEF del_noti
\* It fails only when it has nothing to delete.
<1>7. rc' >= 0 \/ deleted = {}
  <2>1. ~inotify_add_watch_fails(n) /\ {i \in Inode : watch[i].wd = call.wd} # {}
    BY <1>2, <1>3 DEF inotify_add_watch_fails
  <2>2. WdFor(dir[n]) = call.wd /\ call.wd \in 0 .. MaxWd
    BY <1>2, <1>3, TypeFacts DEF WdFor, TypeOK, Call
  <2> QED
    BY InotifyAssumption, <2>1, <2>2 DEF del_noti, Return, Result
<1>8. \A s \in g_ns : (s.noti = n /\ call.cb \in {NULL, s.cb}) <=> s \in deleted
  BY <1>5, HeynotiAssumption, TypeFacts
<1>9. subscribed' = {PairOf(s) : s \in g_ns'}
  <2>1. subscribed = {PairOf(s) : s \in g_ns}
    BY DEF SInv, Promised
  <2>2. \A s \in g_ns : PairOf(s)[1] = s.noti /\ PairOf(s)[2] = s.cb
    BY DEF PairOf
  <2>3. CASE rc' >= 0
    <3>1. subscribed' = {u \in subscribed : ~(u[1] = n /\ call.cb \in {NULL, u[2]})}
      BY <1>1, <2>3
    <3> QED
      BY <1>1, <1>8, <2>1, <2>2, <3>1
  <2>4. CASE ~(rc' >= 0)
    BY <1>1, <1>7, <2>1, <2>4
  <2> QED
    BY <2>3, <2>4
<1>10. subscribed' = subscribed \ ({n} \X cbs)
  <2>1. \A s \in g_ns : PairOf(s) \in {n} \X cbs <=> s \in deleted
    BY <1>5 DEF PairOf
  <2> QED
    BY <1>1, <1>9, <2>1 DEF SInv, Promised
<1>11. pending' = pending \ ({n} \X cbs)
  <2>1. \A s \in due : PairOf(s) \in {n} \X cbs <=> s \in deleted
    BY <1>5, TypeFacts DEF PairOf
  <2> QED
    BY <1>1, <2>1 DEF pending
<1>12. Service!Unsubscribe(n, cbs)
  BY <1>10, <1>11 DEF Service!Unsubscribe, pending
<1>13. ServiceStep
  <2>1. CASE call.cb = NULL
    BY <1>2, <1>12, <2>1 DEF ServiceStep, Service!Next
  <2>2. CASE call.cb # NULL
    BY <1>2, <1>12, <2>2 DEF ServiceStep, Service!Next
  <2> QED
    BY <2>1, <2>2
<1>14. CallWired' /\ Promised'
  BY <1>4, <1>9 DEF CallWired, Promised
<1> QED
  BY <1>6, <1>13, <1>14 DEF SStep

\* An event serves every owed subscription of its key, or none.
LEMMA ReadEventRefines == SInv /\ read_event => SStep
<1> SUFFICES ASSUME SInv, read_event PROVE SStep
  OBVIOUS
<1> DEFINE e == Head(queue)
<1>1. /\ UNCHANGED <<dir, watch, g_ns, call, subscribed>>
      /\ due' = due \ Called(e)
  BY DEF read_event, files
<1>2. SlotWired' /\ CallWired' /\ Promised'
  BY <1>1 DEF SInv, SlotWired, CallWired, Promised, InWindow
<1>3. CASE Called(e) = {}
  BY <1>1, <1>2, <1>3 DEF SStep, ServiceStep, pending
<1>4. CASE Called(e) # {}
  <2>1. PICK t \in g_ns : t \in Called(e)
    BY <1>4 DEF Called, SlotsOf
  <2> DEFINE n == t.noti
  <2>2. /\ n \in Noti /\ dir[n] # NULL /\ watch[dir[n]].wd = t.wd
        /\ t.wd = e.wd /\ e.mask \in SubMask
    BY <2>1, TypeFacts DEF SInv, SlotWired, Called, SlotsOf
  <2>3. \A s \in g_ns : s \in Called(e) <=> s.noti = n
    BY <2>2, SlotsOfKey DEF Called, SlotsOf
  <2>4. \A s \in due : PairOf(s) \in Service!Of(n) <=> s \in Called(e)
    <3>1. \A s \in g_ns : PairOf(s) \in subscribed /\ PairOf(s)[1] = s.noti
      BY DEF SInv, Promised, PairOf
    <3> QED
      BY <2>3, <3>1, TypeFacts DEF Service!Of
  <2>5. pending' = pending \ Service!Of(n)
    BY <1>1, <2>4 DEF pending
  <2>6. Service!Deliver(n)
    BY <1>1, <2>5 DEF Service!Deliver, pending
  <2> QED
    BY <1>2, <2>2, <2>6 DEF SStep, ServiceStep, Service!Next
<1> QED
  BY <1>3, <1>4

\* A publish is heard by every subscription of its key, or by none.
LEMMA PublishCloseRefines ==
  ASSUME SInv, NEW p \in Publisher, publish_close(p)
  PROVE  SStep
<1> DEFINE i == fd[p]
<1>1. /\ UNCHANGED <<dir, g_ns, call, subscribed>>
      /\ due' = IF Audible(i) THEN due \cup SlotsOf(watch[i].wd) ELSE due
      /\ i \in Inode
  BY TypeFacts DEF publish_close, TypeOK
\* Files that have a name keep their watch.
<1>2. \A j \in Inode : Linked(j) => watch'[j] = watch[j]
  <2>1. CASE Linked(i)
    BY <2>1 DEF publish_close
  <2>2. CASE ~Linked(i)
    BY <2>2, TypeFacts DEF publish_close, drop_watch, TypeOK, InotifyTypeOK
  <2> QED
    BY <2>1, <2>2
<1>3. \A n \in Noti : dir[n] # NULL => watch'[dir[n]] = watch[dir[n]]
  BY <1>2, TypeFacts DEF Linked
<1>4. SlotWired'
  BY <1>1, <1>3, TypeFacts DEF SInv, SlotWired
<1>5. CallWired'
  BY <1>1, <1>3 DEF SInv, IInv, WindowOK, CallWired, InWindow
<1>6. Promised'
  BY <1>1 DEF SInv, Promised
<1>7. CASE Audible(i)
  <2>1. PICK n \in Noti : dir[n] = i
    BY <1>7 DEF Audible, Linked
  <2>2. \A s \in g_ns : s \in SlotsOf(watch[i].wd) <=> s.noti = n
    BY <1>1, <2>1, SlotsOfKey, HeynotiAssumption DEF SlotsOf
  <2>3. Service!Of(n) = {PairOf(s) : s \in SlotsOf(watch[i].wd)}
    <3>1. subscribed = {PairOf(s) : s \in g_ns} /\ \A s \in g_ns : PairOf(s)[1] = s.noti
      BY DEF SInv, Promised, PairOf
    <3>2. SlotsOf(watch[i].wd) \subseteq g_ns
      BY DEF SlotsOf
    <3> QED
      BY <2>2, <3>1, <3>2 DEF Service!Of
  <2>4. pending' = pending \cup Service!Of(n)
    BY <1>1, <1>7, <2>3 DEF pending
  <2>5. Service!Publish(n)
    BY <1>1, <2>4 DEF Service!Publish, pending
  <2> QED
    BY <1>4, <1>5, <1>6, <2>5 DEF SStep, ServiceStep, Service!Next
<1>8. CASE ~Audible(i)
  BY <1>1, <1>4, <1>5, <1>6, <1>8 DEF SStep, ServiceStep, pending
<1> QED
  BY <1>7, <1>8

LEMMA ToolSetRefines ==
  ASSUME SInv, NEW noti \in Noti, tool_set(noti)
  PROVE  SStep
<1>1. /\ UNCHANGED <<watch, g_ns, call, subscribed, due>>
      /\ dir[noti] = NULL
  BY DEF tool_set, kernel, history
<1>2. \A n \in Noti : dir[n] # NULL => dir'[n] = dir[n]
  BY <1>1, TypeFacts DEF tool_set, TypeOK
<1>3. SlotWired'
  BY <1>1, <1>2, TypeFacts DEF SInv, SlotWired
<1>4. CallWired'
  BY <1>1, <1>2 DEF SInv, IInv, WindowOK, CallWired, InWindow
<1>5. Promised' /\ ServiceStep
  BY <1>1 DEF SInv, Promised, ServiceStep, pending
<1> QED
  BY <1>3, <1>4, <1>5 DEF SStep

-----------------------------------------------------------------------------

LEMMA StepRefines ==
  ASSUME Removable = {}, SInv, [Next]_vars
  PROVE  SInv' /\ ServiceStep
<1>1. SStep
  <2>1. CASE heynoti_init
    BY <2>1, InitRefines
  <2>2. CASE heynoti_close
    BY <2>2, CloseRefines
  <2>3. CASE \/ heynoti_attach_handler \/ heynoti_detach_handler \/ gio_cb
             \/ heynoti_poll_event \/ poll_returns \/ poll_fails \/ read_ends
    BY <2>3, QuietRefines
    DEF heynoti_attach_handler, heynoti_detach_handler, gio_cb, heynoti_poll_event,
        poll_returns, poll_fails, read_ends, Return, kernel, files, history
  <2>4. ASSUME NEW n \in Noti \cup {NULL}, NEW c \in Callback \cup {NULL},
               heynoti_subscribe(n, c) \/ heynoti_unsubscribe(n, c)
        PROVE  SStep
    BY <2>4, SubscribeRefines
  <2>5. CASE add_noti
    BY <2>5, AddNotiRefines
  <2>6. CASE del_noti
    BY <2>6, DelNotiRefines
  <2>7. CASE read_event
    BY <2>7, ReadEventRefines
  <2>8. ASSUME NEW p \in Publisher, publish_close(p) PROVE SStep
    BY <2>8, PublishCloseRefines
  <2>9. ASSUME NEW p \in Publisher, NEW n \in Noti, publish_open(p, n) PROVE SStep
    BY <2>9, QuietRefines DEF publish_open, kernel, history
  <2>10. ASSUME NEW n \in Noti, tool_set(n) PROVE SStep
    BY <2>10, ToolSetRefines
  <2>11. CASE UNCHANGED vars
    BY <2>11, QuietRefines DEF vars, kernel, files, history
  <2> QED
    BY <2>1, <2>2, <2>3, <2>4, <2>5, <2>6, <2>7, <2>8, <2>9, <2>10, <2>11
    DEF Next, Application, Library, Environment, handle_event
<1>2. IInv'
  BY Inductive DEF SInv
<1> QED
  BY <1>1, <1>2 DEF SStep, SInv

LEMMA InitRefined == Init => SInv /\ Service!Init
<1> SUFFICES ASSUME Init PROVE SInv /\ Service!Init
  OBVIOUS
<1>1. IInv
  BY InitIInv
<1>2. SlotWired /\ CallWired /\ Promised
  BY DEF Init, SlotWired, CallWired, Promised, InWindow, Idle, Doing
<1>3. Service!Init
  BY DEF Init, Service!Init
<1> QED
  BY <1>1, <1>2, <1>3 DEF SInv

\* With keys that stay set, the library behind one descriptor implements the
\* abstract service: every execution maps to one of NotiService.
THEOREM Refinement ==
  ASSUME Removable = {}
  PROVE  Spec => ImplementsService
<1>1. Init => SInv /\ Service!Init
  BY InitRefined
<1>2. SInv /\ [Next]_vars => SInv' /\ [Service!Next]_<<subscribed, pending>>
  BY StepRefines DEF ServiceStep
<1> QED
  BY <1>1, <1>2, PTL DEF Spec, ImplementsService, Service!Spec, pending

\* With keys that stay set, the slots are exactly the subscriptions that the
\* return values of subscribe and unsubscribe promise.
THEOREM PromisesKept ==
  ASSUME Removable = {}
  PROVE  Spec => []SlotsMatchSubscribed
<1>1. Init => SInv
  BY InitRefined
<1>2. SInv /\ [Next]_vars => SInv'
  BY StepRefines
<1>3. SInv => SlotsMatchSubscribed
  BY DEF SInv, Promised, PairOf, SlotsMatchSubscribed
<1> QED
  BY <1>1, <1>2, <1>3, PTL DEF Spec
=============================================================================

---------------------------- MODULE NotiDirectory ----------------------------
(***************************************************************************)
(* A subscription to a name that denotes a directory: the empty name is    *)
(* NOTI_ROOT itself. The events of a watched directory carry the name of   *)
(* the file, and __handle_event reads sizeof(struct inotify_event) bytes,  *)
(* too few for such an event: read() fails with EINVAL and takes nothing.  *)
(*                                                                         *)
(* One key and its directory, one process subscribed to either or both     *)
(* under the GLib handler, one publisher. The calls of the library take    *)
(* one step each here; their system calls are the subject of Heynoti.      *)
(***************************************************************************)
EXTENDS Integers, Sequences

CONSTANT MaxQueue   \* fs.inotify.max_queued_events

ASSUME MaxQueueAssumption == MaxQueue \in Nat \ {0}

VARIABLES
  subscribed,  \* of "key" and "root", those with a slot
  queue,       \* events not yet read
  open,        \* has the publisher the key's file open?
  handling,    \* is __handle_event running?
  due          \* history: slots owed a call

vars == <<subscribed, queue, open, handling, due>>

Watched == {"key", "root"}
Event   == [of : Watched \cup {"none", "overflow"}, named : BOOLEAN]

\* A directory's event about its file has a name; its own, like IN_IGNORED,
\* and a file's have none. IN_IGNORED and IN_Q_OVERFLOW call nobody.
Hears(x) == [of |-> x, named |-> x = "root"]
Ignored  == [of |-> "none", named |-> FALSE]
Overflow == [of |-> "overflow", named |-> FALSE]

InQueue(q, e) == \E k \in 1 .. Len(q) : q[k] = e

\* A full queue takes one overflow mark and then drops; an event of a watch
\* equal to the last one is merged into it.
Enqueue(q, e) ==
  IF Len(q) >= MaxQueue
  THEN IF InQueue(q, Overflow) THEN q ELSE Append(q, Overflow)
  ELSE IF q # << >> /\ q[Len(q)] = e /\ e # Ignored THEN q ELSE Append(q, e)

\* What read(fd, &ie, sizeof(ie)) can return.
Readable(e) == ~e.named

\* heynoti_subscribe and heynoti_unsubscribe on either name.
heynoti_subscribe(x) ==
  /\ ~handling /\ x \notin subscribed
  /\ subscribed' = subscribed \cup {x}
  /\ UNCHANGED <<queue, open, handling, due>>

\* The slots _del_noti leaves.
DeletesAll(x) == {}                                \* mutant: descriptors not compared
Left(x) == subscribed \ {x}

\* What is queued for the watch stays queued, for a descriptor no later slot
\* has.
heynoti_unsubscribe(x) ==
  /\ ~handling /\ x \in subscribed
  /\ subscribed' = Left(x)
  /\ due' = due \ {x}
  /\ LET left == [k \in DOMAIN queue |->
                     IF queue[k].of = x THEN [queue[k] EXCEPT !.of = "none"] ELSE queue[k]]
     IN  queue' = Enqueue(left, Ignored)
  /\ UNCHANGED <<open, handling>>

\* heynoti_close and heynoti_init of a new instance.
heynoti_close ==
  /\ ~handling
  /\ subscribed' = {} /\ queue' = << >> /\ due' = {}
  /\ UNCHANGED <<open, handling>>

\* Queue q after the close of the key's file was told to the watch on x, if
\* there is one.
Tell(q, x) == IF x \in subscribed THEN Enqueue(q, Hears(x)) ELSE q

\* heynoti_publish of the key: its close is an event of the file and of the
\* directory, in either order.
publish_open ==
  /\ ~open /\ open' = TRUE
  /\ UNCHANGED <<subscribed, queue, handling, due>>

publish_close ==
  /\ open /\ open' = FALSE
  /\ queue' \in {Tell(Tell(queue, "key"), "root"), Tell(Tell(queue, "root"), "key")}
  /\ due' = due \cup {x \in subscribed : InQueue(queue', Hears(x))}
  /\ UNCHANGED <<subscribed, handling>>

\* The main loop finds the descriptor readable.
gio_cb ==
  /\ ~handling /\ queue # << >>
  /\ handling' = TRUE
  /\ UNCHANGED <<subscribed, queue, open, due>>

\* The slots __handle_callback calls for event e.
CallsNone(e) == {}                                 \* mutant: subscribed to IN_DELETE only
Called(e) == subscribed \cap {e.of}

\* __handle_event: one turn of its loop.
read_event ==
  /\ handling /\ queue # << >> /\ Readable(Head(queue))
  /\ queue' = Tail(queue)
  /\ due' = due \ Called(Head(queue))
  /\ UNCHANGED <<subscribed, open, handling>>

\* read() returns -1: EAGAIN, or EINVAL for an event it has no room for.
read_ends ==
  /\ handling
  /\ queue # << >> => ~Readable(Head(queue))
  /\ handling' = FALSE
  /\ UNCHANGED <<subscribed, queue, open, due>>

-----------------------------------------------------------------------------

Init ==
  /\ subscribed = {} /\ queue = << >> /\ due = {}
  /\ open = FALSE /\ handling = FALSE

Next ==
  \/ \E x \in Watched : heynoti_subscribe(x) \/ heynoti_unsubscribe(x)
  \/ heynoti_close \/ gio_cb \/ read_event \/ read_ends
  \/ publish_open \/ publish_close

\* The main loop dispatches the descriptor as often as it is ready between
\* the application's calls; a loop that has begun goes on.
Spec == Init /\ [][Next]_vars /\ WF_vars(read_event) /\ WF_vars(read_ends) /\ SF_vars(gio_cb)

-----------------------------------------------------------------------------

\* No event of a file carries a name, only slots are owed calls, and only the
\* overflow mark goes beyond the bound of the queue.
TypeOK ==
  /\ subscribed \subseteq Watched
  /\ queue \in Seq(Event) /\ Len(queue) <= MaxQueue + 1
  /\ Len(queue) > MaxQueue => InQueue(queue, Overflow)
  /\ \A k \in 1 .. Len(queue) : queue[k].of = "key" => ~queue[k].named
  /\ due \subseteq subscribed
  /\ open \in BOOLEAN /\ handling \in BOOLEAN

\* An event with a name stays where it is and stops every later one, but the
\* events ahead of it are read: the key's callback is called for a publish
\* that was queued before the directory was heard of.
AheadIsServed ==
  (\E k \in 1 .. Len(queue) :
     queue[k] = Hears("key") /\ \A j \in 1 .. k : Readable(queue[j]))
  /\ "key" \in due
    ~> "key" \notin due

-----------------------------------------------------------------------------
(* What the documentation says and the code does not do.                   *)

\* While the handler is attached, a callback is called for every publish of
\* its key, or unsubscribed.
EveryPublishServed == "key" \in due ~> "key" \notin due
==============================================================================

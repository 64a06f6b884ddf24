------------------------------- MODULE Inotify -------------------------------
(***************************************************************************)
(* One inotify instance of the Linux kernel, as heynoti.c uses it: the     *)
(* watches placed with inotify_add_watch, removed with inotify_rm_watch or *)
(* by the death of the file, and the event queue behind the descriptor.    *)
(* External code: modelled from its use in heynoti.c and inotify(7).       *)
(*                                                                         *)
(* Two facts about the real interface decide how heynoti behaves.          *)
(*  - A second inotify_add_watch on a file REPLACES the mask of its watch  *)
(*    (heynoti.c never passes IN_MASK_ADD).                                *)
(*  - Descriptors of watches are never reused within an instance.          *)
(***************************************************************************)
EXTENDS Integers, Sequences

CONSTANTS
  Inode,      \* files
  MaxWd,      \* bound: watch descriptors one instance hands out
  MaxQueue    \* fs.inotify.max_queued_events

ASSUME InotifyAssumption == MaxWd \in Nat /\ MaxQueue \in Nat \ {0}

VARIABLES
  watch,      \* file -> its watch in this instance
  lastwd,     \* last watch descriptor handed out
  queue       \* events not yet read

Bit == {"IN_ACCESS", "IN_CLOSE_WRITE", "IN_DELETE"}

NoWatch == [wd |-> 0, mask |-> {}]
Watch   == [wd : 0 .. MaxWd, mask : SUBSET Bit]

(***************************************************************************)
(* The files watched are always empty, so nothing that reads one causes    *)
(* IN_ACCESS; IN_DELETE is an event of directories.                        *)
(***************************************************************************)
Event == [wd : -1 .. MaxWd, mask : {"IN_CLOSE_WRITE", "IN_IGNORED", "IN_Q_OVERFLOW"}]

Closed(wd)  == [wd |-> wd, mask |-> "IN_CLOSE_WRITE"]
Ignored(wd) == [wd |-> wd, mask |-> "IN_IGNORED"]
Overflow    == [wd |-> -1, mask |-> "IN_Q_OVERFLOW"]

InQueue(q, e) == \E k \in 1 .. Len(q) : q[k] = e

\* A full queue takes one overflow mark and then drops; an event equal to
\* the last one is merged into it.
Enqueue(q, e) ==
  IF Len(q) >= MaxQueue
  THEN IF InQueue(q, Overflow) THEN q ELSE Append(q, Overflow)
  ELSE IF q # << >> /\ q[Len(q)] = e THEN q ELSE Append(q, e)

Watched(i) == watch[i].wd # 0

\* The descriptor inotify_add_watch returns for file i.
WdFor(i) == IF Watched(i) THEN watch[i].wd ELSE lastwd + 1

add_watch(i, mask) ==
  /\ WdFor(i) <= MaxWd
  /\ watch'  = [watch EXCEPT ![i] = [wd |-> WdFor(i), mask |-> mask]]
  /\ lastwd' = IF Watched(i) THEN lastwd ELSE lastwd + 1
  /\ UNCHANGED queue

\* The queue after the close of a file that was open for writing.
QueueAfterClose(i) ==
  IF "IN_CLOSE_WRITE" \in watch[i].mask
  THEN Enqueue(queue, Closed(watch[i].wd))
  ELSE queue

\* The watch of i goes away, by inotify_rm_watch or because i is gone; q is
\* the queue before. What is already queued for the watch stays queued.
drop_watch(i, q) ==
  /\ watch' = [watch EXCEPT ![i] = NoWatch]
  /\ queue' = IF Watched(i) THEN Enqueue(q, Ignored(watch[i].wd)) ELSE q
  /\ UNCHANGED lastwd

\* inotify_init, and the close of the instance: watches and events vanish.
fresh_instance ==
  /\ watch'  = [i \in Inode |-> NoWatch]
  /\ lastwd' = 0
  /\ queue'  = << >>

InotifyInit ==
  /\ watch  = [i \in Inode |-> NoWatch]
  /\ lastwd = 0
  /\ queue  = << >>

InotifyTypeOK ==
  /\ watch  \in [Inode -> Watch]
  /\ lastwd \in 0 .. MaxWd
  /\ queue  \in Seq(Event)
==============================================================================

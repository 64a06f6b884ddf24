---------------------------- MODULE InotifyProofs ----------------------------
(***************************************************************************)
(* Lemmas about one inotify instance, for the proofs about its users.      *)
(***************************************************************************)
EXTENDS Inotify, TLAPS

-----------------------------------------------------------------------------
(* The queue.                                                              *)

\* Whatever is queued stays queued, and a queue with room takes the event.
LEMMA EnqueueFacts ==
  ASSUME NEW q \in Seq(Event), NEW e \in Event
  PROVE  /\ Enqueue(q, e) \in Seq(Event)
         /\ \A f : InQueue(q, f) => InQueue(Enqueue(q, e), f)
         /\ Len(q) < MaxQueue => InQueue(Enqueue(q, e), e)
<1> USE InotifyAssumption
<1>1. Overflow \in Event
  BY DEF Overflow, Event
<1>2. ASSUME NEW x \in Event
      PROVE  /\ Append(q, x) \in Seq(Event)
             /\ \A f : InQueue(q, f) => InQueue(Append(q, x), f)
             /\ InQueue(Append(q, x), x)
  <2>1. /\ Append(q, x) \in Seq(Event)
        /\ Len(Append(q, x)) = Len(q) + 1
        /\ \A k \in 1 .. Len(q) : Append(q, x)[k] = q[k]
        /\ Append(q, x)[Len(q) + 1] = x
        /\ Len(q) \in Nat
    OBVIOUS
  <2> QED
    BY <2>1 DEF InQueue
<1>3. CASE Enqueue(q, e) = Append(q, e)
  BY <1>2, <1>3
<1>4. CASE Enqueue(q, e) = q /\ Len(q) < MaxQueue
  <2>1. q # << >> /\ q[Len(q)] = e
    <3>1. Append(q, e) # q
      <4>1. Len(Append(q, e)) = Len(q) + 1 /\ Len(q) \in Nat
        OBVIOUS
      <4> QED
        BY <4>1
    <3> QED
      BY <1>4, <3>1 DEF Enqueue
  <2>2. Len(q) \in 1 .. Len(q)
    BY <2>1
  <2> QED
    BY <1>4, <2>1, <2>2 DEF InQueue
<1>5. CASE Enqueue(q, e) \in {q, Append(q, Overflow)} /\ ~(Len(q) < MaxQueue)
  BY <1>1, <1>2, <1>5
<1> QED
  BY <1>3, <1>4, <1>5 DEF Enqueue

\* Queue q starts with everything p holds, in its place.
Extends(p, q) == \A k \in 1 .. Len(p) : k <= Len(q) /\ q[k] = p[k]

\* What comes into the queue comes in at its end, and moves nothing.
LEMMA EnqueueExtends ==
  ASSUME NEW q \in Seq(Event), NEW e \in Event
  PROVE  Extends(q, Enqueue(q, e))
<1>1. Overflow \in Event
  BY InotifyAssumption DEF Overflow, Event
<1>2. Enqueue(q, e) \in {q} \cup {Append(q, x) : x \in Event}
  BY <1>1 DEF Enqueue
<1>3. Extends(q, q)
  BY DEF Extends
<1>4. ASSUME NEW x \in Event PROVE Extends(q, Append(q, x))
  <2>1. /\ Len(q) \in Nat /\ Len(Append(q, x)) = Len(q) + 1
        /\ \A k \in 1 .. Len(q) : Append(q, x)[k] = q[k]
    OBVIOUS
  <2> QED
    BY <2>1 DEF Extends
<1> QED
  BY <1>2, <1>3, <1>4

\* Reading the head loses the head only.
LEMMA TailFacts ==
  ASSUME NEW q \in Seq(Event), q # << >>
  PROVE  /\ Head(q) \in Event
         /\ Tail(q) \in Seq(Event)
         /\ \A f : InQueue(q, f) => f = Head(q) \/ InQueue(Tail(q), f)
<1>1. /\ Head(q) \in Event /\ Tail(q) \in Seq(Event)
      /\ Len(q) \in Nat /\ Len(Tail(q)) = Len(q) - 1
      /\ Head(q) = q[1]
      /\ \A k \in 1 .. Len(q) - 1 : Tail(q)[k] = q[k + 1]
  OBVIOUS
<1>2. ASSUME NEW f, NEW k \in 1 .. Len(q), q[k] = f, f # Head(q)
      PROVE  InQueue(Tail(q), f)
  <2>1. k - 1 \in 1 .. Len(Tail(q)) /\ Tail(q)[k - 1] = f
    BY <1>1, <1>2
  <2> QED
    BY <2>1 DEF InQueue
<1> QED
  BY <1>1, <1>2 DEF InQueue

-----------------------------------------------------------------------------
(* The watches.                                                            *)

\* A watch that is placed has a descriptor and the mask asked for; no other
\* watch changes.
LEMMA PlaceWatchFacts ==
  ASSUME InotifyTypeOK, NEW i \in Inode, NEW mask \in SUBSET Bit, add_watch(i, mask)
  PROVE  /\ InotifyTypeOK'
         /\ queue' = queue
         /\ WdFor(i) \in 1 .. MaxWd
         /\ watch'[i] = [wd |-> WdFor(i), mask |-> mask]
         /\ \A j \in Inode \ {i} : watch'[j] = watch[j]
<1> USE InotifyAssumption
<1>1. /\ WdFor(i) <= MaxWd
      /\ watch' = [watch EXCEPT ![i] = [wd |-> WdFor(i), mask |-> mask]]
      /\ lastwd' = IF Watched(i) THEN lastwd ELSE lastwd + 1
      /\ queue' = queue
  BY DEF add_watch
<1>2. /\ watch \in [Inode -> Watch] /\ lastwd \in 0 .. MaxWd /\ queue \in Seq(Event)
      /\ watch[i].wd \in 0 .. MaxWd
  BY DEF InotifyTypeOK, Watch
<1>3. WdFor(i) \in 1 .. MaxWd /\ lastwd' \in 0 .. MaxWd
  BY <1>1, <1>2 DEF WdFor, Watched
<1>4. [wd |-> WdFor(i), mask |-> mask] \in Watch
  BY <1>3 DEF Watch
<1>5. InotifyTypeOK'
  BY <1>1, <1>2, <1>3, <1>4 DEF InotifyTypeOK
<1> QED
  BY <1>1, <1>2, <1>3, <1>5

\* Dropping a watch loses no event and no other watch.
LEMMA DropWatchFacts ==
  ASSUME InotifyTypeOK, NEW i \in Inode, NEW q \in Seq(Event), drop_watch(i, q)
  PROVE  /\ InotifyTypeOK'
         /\ lastwd' = lastwd
         /\ watch'[i] = NoWatch
         /\ \A j \in Inode \ {i} : watch'[j] = watch[j]
         /\ \A f : InQueue(q, f) => InQueue(queue', f)
<1> USE InotifyAssumption
<1>1. /\ watch' = [watch EXCEPT ![i] = NoWatch]
      /\ queue' = IF Watched(i) THEN Enqueue(q, Ignored(watch[i].wd)) ELSE q
      /\ lastwd' = lastwd
  BY DEF drop_watch
<1>2. watch \in [Inode -> Watch] /\ lastwd \in 0 .. MaxWd /\ NoWatch \in Watch
  BY DEF InotifyTypeOK, NoWatch, Watch
<1>3. Ignored(watch[i].wd) \in Event
  BY <1>2 DEF Ignored, Event, Watch
<1>4. /\ queue' \in Seq(Event)
      /\ \A f : InQueue(q, f) => InQueue(queue', f)
  BY <1>1, <1>3, EnqueueFacts
<1>5. InotifyTypeOK'
  BY <1>1, <1>2, <1>4 DEF InotifyTypeOK
<1> QED
  BY <1>1, <1>2, <1>4, <1>5

\* The event of a close is queued if the watch has it in its mask and there
\* is room; nothing else is lost.
LEMMA CloseFacts ==
  ASSUME InotifyTypeOK, NEW i \in Inode
  PROVE  /\ QueueAfterClose(i) \in Seq(Event)
         /\ \A f : InQueue(queue, f) => InQueue(QueueAfterClose(i), f)
         /\ "IN_CLOSE_WRITE" \in watch[i].mask /\ Len(queue) < MaxQueue
              => InQueue(QueueAfterClose(i), Closed(watch[i].wd))
<1>1. queue \in Seq(Event) /\ Closed(watch[i].wd) \in Event
  BY InotifyAssumption DEF InotifyTypeOK, Closed, Event, Watch
<1> QED
  BY <1>1, EnqueueFacts DEF QueueAfterClose

\* A new instance has no watches and no events.
LEMMA FreshFacts == fresh_instance => InotifyTypeOK'
<1>1. NoWatch \in Watch /\ 0 \in 0 .. MaxWd
  BY InotifyAssumption DEF NoWatch, Watch
<1> QED
  BY <1>1 DEF fresh_instance, InotifyTypeOK

LEMMA InotifyInitFacts == InotifyInit => InotifyTypeOK
<1>1. NoWatch \in Watch /\ 0 \in 0 .. MaxWd
  BY InotifyAssumption DEF NoWatch, Watch
<1> QED
  BY <1>1 DEF InotifyInit, InotifyTypeOK
==============================================================================

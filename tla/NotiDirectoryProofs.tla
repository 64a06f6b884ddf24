------------------------- MODULE NotiDirectoryProofs -------------------------
(***************************************************************************)
(* Proofs about NotiDirectory for every bound on the queue: no event of a  *)
(* file carries a name and only slots are owed a call, and an event with a *)
(* name at the head of the queue stops the dispatch for good. The second   *)
(* is why EveryPublishServed fails: what a run shows on one behaviour is   *)
(* so on every behaviour that gets there.                                  *)
(***************************************************************************)
EXTENDS NotiDirectory, TLAPS

\* The event read() has no room for is the next one.
Blocked == queue # << >> /\ ~Readable(Head(queue))

\* Once blocked, the queue stays blocked and the key's slot keeps waiting,
\* unsubscribing from the directory included: only heynoti_unsubscribe of the
\* key ends the wait, and only heynoti_close the blockade.
StaysBlocked ==
  [][Blocked => \/ heynoti_close
                \/ /\ Blocked'
                   /\ "key" \in due => "key" \in due' \/ heynoti_unsubscribe("key")]_vars

\* What TypeOK says of the queue, and of an event.
EventOK(e) == e \in Event /\ (e.of = "key" => ~e.named)
QueueOK(q) ==
  /\ q \in Seq(Event) /\ Len(q) <= MaxQueue + 1
  /\ Len(q) > MaxQueue => InQueue(q, Overflow)
  /\ \A k \in 1 .. Len(q) : EventOK(q[k])

-----------------------------------------------------------------------------

LEMMA TypeParts ==
  /\ TypeOK => QueueOK(queue)
  /\ QueueOK(queue)' /\ (subscribed \subseteq Watched /\ due \subseteq subscribed)'
     /\ (open \in BOOLEAN /\ handling \in BOOLEAN)' => TypeOK'
<1>1. ASSUME TypeOK  PROVE QueueOK(queue)
  <2>1. \A k \in 1 .. Len(queue) : EventOK(queue[k])
    BY <1>1 DEF TypeOK, EventOK
  <2> QED  BY <1>1, <2>1 DEF TypeOK, QueueOK
<1>2. ASSUME QueueOK(queue)', (subscribed \subseteq Watched /\ due \subseteq subscribed)',
             (open \in BOOLEAN /\ handling \in BOOLEAN)'
      PROVE  TypeOK'
  <2>1. (\A k \in 1 .. Len(queue) : queue[k].of = "key" => ~queue[k].named)'
    BY <1>2 DEF QueueOK, EventOK
  <2> QED  BY <1>2, <2>1 DEF TypeOK, QueueOK
<1> QED  BY <1>1, <1>2

LEMMA EventFacts ==
  /\ EventOK(Ignored) /\ EventOK(Overflow)
  /\ \A x \in Watched : EventOK(Hears(x))
BY DEF EventOK, Event, Watched, Ignored, Overflow, Hears

\* One more event at the end leaves those before it.
LEMMA AppendFacts ==
  ASSUME NEW q \in Seq(Event), NEW e \in Event
  PROVE  /\ Append(q, e) \in Seq(Event) /\ Len(Append(q, e)) = Len(q) + 1 /\ Len(q) \in Nat
         /\ Append(q, e)[Len(q) + 1] = e
         /\ \A k \in 1 .. Len(q) : Append(q, e)[k] = q[k]
         /\ InQueue(Append(q, e), e)
<1>1. /\ Append(q, e) \in Seq(Event) /\ Len(Append(q, e)) = Len(q) + 1 /\ Len(q) \in Nat
      /\ Append(q, e)[Len(q) + 1] = e
      /\ \A k \in 1 .. Len(q) : Append(q, e)[k] = q[k]
  OBVIOUS
<1>2. Len(q) + 1 \in 1 .. Len(Append(q, e))
  BY <1>1
<1> QED  BY <1>1, <1>2 DEF InQueue

\* What the kernel queues is a good queue again, and the head stays in front.
LEMMA EnqueueFacts ==
  ASSUME NEW q, QueueOK(q), NEW e, EventOK(e)
  PROVE  /\ QueueOK(Enqueue(q, e))
         /\ q # << >> => Enqueue(q, e) # << >> /\ Head(Enqueue(q, e)) = Head(q)
<1>1. /\ q \in Seq(Event) /\ Len(q) \in Nat /\ MaxQueue \in Nat /\ Len(q) <= MaxQueue + 1
      /\ Len(q) > MaxQueue => InQueue(q, Overflow)
      /\ \A k \in 1 .. Len(q) : EventOK(q[k])
  BY MaxQueueAssumption DEF QueueOK
<1>2. ASSUME NEW f, EventOK(f), Len(q) <= MaxQueue, Len(q) = MaxQueue => f = Overflow
      PROVE  /\ QueueOK(Append(q, f))
             /\ q # << >> => Append(q, f) # << >> /\ Head(Append(q, f)) = Head(q)
  <2>1. f \in Event
    BY <1>2 DEF EventOK
  <2>2. /\ Append(q, f) \in Seq(Event) /\ Len(Append(q, f)) = Len(q) + 1
        /\ Append(q, f)[Len(q) + 1] = f
        /\ \A k \in 1 .. Len(q) : Append(q, f)[k] = q[k]
        /\ InQueue(Append(q, f), f)
    BY <1>1, <2>1, AppendFacts
  <2>3. \A k \in 1 .. Len(q) + 1 : k \in 1 .. Len(q) \/ k = Len(q) + 1
    BY <1>1
  <2>4. \A k \in 1 .. Len(q) + 1 : EventOK(Append(q, f)[k])
    BY <1>1, <1>2, <2>2, <2>3
  <2>5. Len(q) + 1 > MaxQueue => InQueue(Append(q, f), Overflow)
    BY <1>1, <1>2, <2>2
  <2>6. QueueOK(Append(q, f))
    BY <1>1, <1>2, <2>2, <2>4, <2>5 DEF QueueOK
  <2>7. q # << >> => Append(q, f) # << >> /\ Head(Append(q, f)) = Head(q)
    <3>1. q # << >> => 1 \in 1 .. Len(q)
      BY <1>1
    <3> QED  BY <1>1, <2>2, <3>1
  <2> QED  BY <2>6, <2>7
<1>3. \/ Enqueue(q, e) = q
      \/ Len(q) <= MaxQueue /\ Enqueue(q, e) = Append(q, Overflow)
      \/ Len(q) < MaxQueue /\ Enqueue(q, e) = Append(q, e)
  BY <1>1 DEF Enqueue
<1>4. CASE Enqueue(q, e) = q
  BY <1>4
<1>5. CASE Len(q) <= MaxQueue /\ Enqueue(q, e) = Append(q, Overflow)
  BY <1>2, <1>5, EventFacts
<1>6. CASE Len(q) < MaxQueue /\ Enqueue(q, e) = Append(q, e)
  BY <1>1, <1>2, <1>6
<1> QED  BY <1>3, <1>4, <1>5, <1>6

\* One event less at the head.
LEMMA TailFacts ==
  ASSUME NEW q, QueueOK(q), q # << >>
  PROVE  QueueOK(Tail(q))
<1>1. q \in Seq(Event) /\ Len(q) \in Nat /\ MaxQueue \in Nat /\ Len(q) <= MaxQueue + 1
  BY MaxQueueAssumption DEF QueueOK
<1>2. /\ Tail(q) \in Seq(Event) /\ Len(Tail(q)) = Len(q) - 1
      /\ \A k \in 1 .. Len(q) - 1 : Tail(q)[k] = q[k + 1] /\ k + 1 \in 1 .. Len(q)
  BY <1>1
<1>3. \A k \in 1 .. Len(q) - 1 : EventOK(Tail(q)[k])
  BY <1>2 DEF QueueOK
<1>4. Len(Tail(q)) <= MaxQueue
  BY <1>1, <1>2
<1> QED  BY <1>1, <1>2, <1>3, <1>4 DEF QueueOK

\* The queue that heynoti_unsubscribe leaves, before its IN_IGNORED: the
\* events of the watch are nobody's, and each keeps its name.
Disowned(x) ==
  [k \in DOMAIN queue |->
     IF queue[k].of = x THEN [queue[k] EXCEPT !.of = "none"] ELSE queue[k]]

LEMMA DisownedFacts ==
  ASSUME QueueOK(queue), NEW x \in Watched
  PROVE  /\ QueueOK(Disowned(x)) /\ Len(Disowned(x)) = Len(queue)
         /\ \A k \in 1 .. Len(queue) : Disowned(x)[k].named = queue[k].named
<1>1. queue \in Seq(Event) /\ DOMAIN queue = 1 .. Len(queue) /\ Len(queue) \in Nat
  BY DEF QueueOK
<1>2. ASSUME NEW k \in 1 .. Len(queue)
      PROVE  EventOK(Disowned(x)[k]) /\ Disowned(x)[k].named = queue[k].named
  <2>1. EventOK(queue[k])
    BY <1>2 DEF QueueOK
  <2>2. Disowned(x)[k] = IF queue[k].of = x THEN [queue[k] EXCEPT !.of = "none"] ELSE queue[k]
    BY <1>1 DEF Disowned
  <2> QED  BY <2>1, <2>2 DEF EventOK, Event, Watched
<1>3. Disowned(x) \in Seq(Event) /\ Len(Disowned(x)) = Len(queue)
  <2>1. \A k \in 1 .. Len(queue) : Disowned(x)[k] \in Event
    BY <1>2 DEF EventOK
  <2>2. Disowned(x) \in [1 .. Len(queue) -> Event]
    BY <1>1, <2>1 DEF Disowned
  <2> QED  BY <1>1, <2>2
<1>4. InQueue(queue, Overflow) => InQueue(Disowned(x), Overflow)
  <2> SUFFICES ASSUME NEW k \in 1 .. Len(queue), queue[k] = Overflow
               PROVE  Disowned(x)[k] = Overflow
    BY <1>3 DEF InQueue
  <2>1. Overflow.of # x
    BY DEF Overflow, Watched
  <2> QED  BY <1>1, <2>1 DEF Disowned
<1>5. Len(Disowned(x)) <= MaxQueue + 1 /\ (Len(Disowned(x)) > MaxQueue => InQueue(Disowned(x), Overflow))
  BY <1>3, <1>4 DEF QueueOK
<1> QED  BY <1>2, <1>3, <1>5 DEF QueueOK

\* A close adds at most an event for each watch there is.
LEMMA TellFacts ==
  ASSUME NEW q, QueueOK(q), NEW x \in Watched
  PROVE  /\ QueueOK(Tell(q, x))
         /\ q # << >> => Tell(q, x) # << >> /\ Head(Tell(q, x)) = Head(q)
BY EventFacts, EnqueueFacts DEF Tell

LEMMA PublishFacts ==
  ASSUME TypeOK, publish_close
  PROVE  /\ QueueOK(queue')
         /\ queue # << >> => queue' # << >> /\ Head(queue') = Head(queue)
<1>1. QueueOK(queue) /\ "key" \in Watched /\ "root" \in Watched
  BY TypeParts DEF Watched
<1>2. ASSUME NEW x \in Watched, NEW y \in Watched
      PROVE  /\ QueueOK(Tell(Tell(queue, x), y))
             /\ queue # << >> => /\ Tell(Tell(queue, x), y) # << >>
                                 /\ Head(Tell(Tell(queue, x), y)) = Head(queue)
  BY <1>1, TellFacts
<1> QED  BY <1>1, <1>2 DEF publish_close

LEMMA UnsubscribeFacts ==
  ASSUME TypeOK, NEW x \in Watched, heynoti_unsubscribe(x)
  PROVE  /\ QueueOK(queue')
         /\ queue # << >> => queue' # << >> /\ Head(queue').named = Head(queue).named
<1>1. /\ QueueOK(Disowned(x)) /\ Len(Disowned(x)) = Len(queue)
      /\ \A k \in 1 .. Len(queue) : Disowned(x)[k].named = queue[k].named
  BY TypeParts, DisownedFacts
<1>2. queue' = Enqueue(Disowned(x), Ignored)
  BY DEF heynoti_unsubscribe, Disowned
<1>3. QueueOK(queue')
  BY <1>1, <1>2, EventFacts, EnqueueFacts
<1>4. ASSUME queue # << >>  PROVE queue' # << >> /\ Head(queue').named = Head(queue).named
  <2>1. 1 \in 1 .. Len(queue) /\ queue \in Seq(Event) /\ Len(queue) \in Nat
    BY <1>4 DEF TypeOK
  <2>2. /\ Disowned(x) \in Seq(Event) /\ Disowned(x) # << >>
        /\ Head(Disowned(x)).named = Head(queue).named
    BY <1>1, <2>1 DEF QueueOK
  <2>3. queue' # << >> /\ Head(queue') = Head(Disowned(x))
    BY <1>1, <1>2, <2>2, EventFacts, EnqueueFacts
  <2> QED  BY <2>2, <2>3
<1> QED  BY <1>3, <1>4

-----------------------------------------------------------------------------
(* TypeOK, action by action.                                               *)

LEMMA UnsubscribeType ==
  ASSUME TypeOK, NEW x \in Watched, heynoti_unsubscribe(x)  PROVE TypeOK'
BY UnsubscribeFacts, TypeParts DEF heynoti_unsubscribe, Left, TypeOK

LEMMA PublishType ==
  ASSUME TypeOK, publish_close  PROVE TypeOK'
BY PublishFacts, TypeParts DEF publish_close, TypeOK

LEMMA ReadType ==
  ASSUME TypeOK, read_event  PROVE TypeOK'
<1>1. QueueOK(queue')
  BY TypeParts, TailFacts DEF read_event
<1> QED  BY <1>1, TypeParts DEF read_event, Called, TypeOK

LEMMA OtherType ==
  ASSUME TypeOK,
         \/ \E x \in Watched : heynoti_subscribe(x)
         \/ heynoti_close \/ gio_cb \/ read_ends \/ publish_open \/ UNCHANGED vars
  PROVE  TypeOK'
<1>1. QueueOK(queue')
  <2>1. QueueOK(<< >>)
    <3>1. << >> \in Seq(Event) /\ Len(<< >>) = 0 /\ MaxQueue \in Nat
      BY MaxQueueAssumption
    <3> QED  BY <3>1 DEF QueueOK
  <2>2. queue' = queue \/ queue' = << >>
    BY DEF heynoti_subscribe, heynoti_close, gio_cb, read_ends, publish_open, vars
  <2> QED  BY <2>1, <2>2, TypeParts DEF QueueOK
<1> QED
  BY <1>1, TypeParts
  DEF heynoti_subscribe, heynoti_close, gio_cb, read_ends, publish_open, vars, TypeOK

\* Only the events of directories carry names, the queue keeps its bound, and
\* only a slot is owed a call: unsubscribing forgets both.
THEOREM TypeCorrect == Spec => []TypeOK
<1>1. ASSUME Init  PROVE TypeOK
  <2>1. queue \in Seq(Event) /\ Len(queue) = 0 /\ MaxQueue \in Nat
    BY <1>1, MaxQueueAssumption DEF Init
  <2>2. \A k \in 1 .. Len(queue) : queue[k].of = "key" => ~queue[k].named
    BY <2>1
  <2>3. Len(queue) <= MaxQueue + 1 /\ ~(Len(queue) > MaxQueue)
    BY <2>1
  <2>4. subscribed \subseteq Watched /\ due \subseteq subscribed /\ open \in BOOLEAN /\ handling \in BOOLEAN
    BY <1>1 DEF Init
  <2> QED  BY <2>1, <2>2, <2>3, <2>4 DEF TypeOK
<1>2. TypeOK /\ [Next]_vars => TypeOK'
  BY UnsubscribeType, PublishType, ReadType, OtherType DEF Next
<1> QED  BY <1>1, <1>2, PTL DEF Spec

-----------------------------------------------------------------------------
(* The blockade.                                                           *)

LEMMA UnsubscribeBlocked ==
  ASSUME TypeOK, Blocked, NEW x \in Watched, heynoti_unsubscribe(x)
  PROVE  Blocked' /\ ("key" \in due => "key" \in due' \/ x = "key")
<1>1. Blocked'
  BY UnsubscribeFacts DEF Blocked, Readable
<1> QED  BY <1>1 DEF heynoti_unsubscribe

LEMMA PublishBlocked ==
  ASSUME TypeOK, Blocked, publish_close
  PROVE  Blocked' /\ due \subseteq due'
<1>1. Blocked'
  BY PublishFacts DEF Blocked, Readable
<1> QED  BY <1>1 DEF publish_close

\* From the moment the directory's event is the next to be read, no callback
\* is called for any publish, whatever the application does short of closing
\* the instance: __handle_event has no room for the event and never skips it.
THEOREM DirectoryStarves == Spec => StaysBlocked
<1>1. ASSUME TypeOK, Next, Blocked
      PROVE  \/ heynoti_close
             \/ /\ Blocked'
                /\ "key" \in due => "key" \in due' \/ heynoti_unsubscribe("key")
  <2>1. CASE \E x \in Watched : heynoti_unsubscribe(x)
    BY <1>1, <2>1, UnsubscribeBlocked
  <2>2. CASE publish_close
    BY <1>1, <2>2, PublishBlocked
  <2>3. CASE read_event
    BY <1>1, <2>3 DEF Blocked, read_event
  <2>4. CASE \/ \E x \in Watched : heynoti_subscribe(x)
             \/ gio_cb \/ read_ends \/ publish_open
    <3>1. queue' = queue /\ due' = due
      BY <2>4 DEF heynoti_subscribe, gio_cb, read_ends, publish_open
    <3> QED  BY <1>1, <3>1 DEF Blocked
  <2> QED  BY <1>1, <2>1, <2>2, <2>3, <2>4 DEF Next
<1>2. TypeOK /\ [Next]_vars =>
        [Blocked => \/ heynoti_close
                    \/ /\ Blocked'
                       /\ "key" \in due => "key" \in due' \/ heynoti_unsubscribe("key")]_vars
  BY <1>1
<1> QED  BY <1>2, TypeCorrect, PTL DEF Spec, StaysBlocked
==============================================================================

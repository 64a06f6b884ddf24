---------------------------- MODULE NotiCallbacks ----------------------------
(***************************************************************************)
(* What heynoti promises to callbacks that call the library: subscriptions *)
(* change at once, also when a call removes several; a callback starts for *)
(* a subscription only, and not while one is being removed; callbacks nest *)
(* and end in the reverse order; what a subscription is owed it keeps      *)
(* until its callback starts or the subscription goes.                     *)
(***************************************************************************)
EXTENDS Sequences, Integers

CONSTANTS Noti, Callback

VARIABLES
  subs,       \* the subscriptions: pairs of key and callback
  pending,    \* those owed a call
  active,     \* the callbacks that run, the innermost last
  leaving     \* the pairs an unsubscribe in progress removes

vars == <<subs, pending, active, leaving>>

Of(noti) == {u \in subs : u[1] = noti}

Init ==
  /\ subs = {} /\ pending = {}
  /\ active = << >>
  /\ leaving = {}

Subscribe(noti, cb) ==
  /\ leaving = {} /\ UNCHANGED <<active, leaving>>
  /\ <<noti, cb>> \notin subs
  /\ subs' = subs \cup {<<noti, cb>>}
  /\ UNCHANGED pending

\* One callback of the key, or all. They are gone when the call begins.
Unsubscribe(noti, cbs) ==
  /\ leaving = {}
  /\ leaving' = {noti} \X cbs
  /\ subs' = subs \ leaving'
  /\ pending' = pending \ leaving'
  /\ UNCHANGED active

Unsubscribed ==
  /\ leaving' = {}
  /\ UNCHANGED <<subs, pending, active>>

\* A publish that is heard. The other subscribers of a key hear nothing while
\* one of them leaves.
Publish(noti) ==
  /\ \A u \in leaving : u[1] # noti
  /\ UNCHANGED <<active, leaving, subs>>
  /\ pending' = pending \cup Of(noti)

Start(u) ==
  /\ leaving = {}
  /\ u \in subs
  /\ active' = Append(active, u[2])
  /\ pending' = pending \ {u}
  /\ UNCHANGED <<subs, leaving>>

Return ==
  /\ leaving = {} /\ active # << >>
  /\ active' = SubSeq(active, 1, Len(active) - 1)
  /\ UNCHANGED <<subs, pending, leaving>>

Close ==
  /\ leaving = {} /\ active = << >>
  /\ subs' = {} /\ pending' = {}
  /\ UNCHANGED <<active, leaving>>

Next ==
  \/ Unsubscribed \/ Return \/ Close
  \/ \E u \in subs : Start(u)
  \/ \E n \in Noti : \/ Publish(n)
                     \/ Unsubscribe(n, Callback)
                     \/ \E c \in Callback : Subscribe(n, c) \/ Unsubscribe(n, {c})

Spec == Init /\ [][Next]_vars
==============================================================================

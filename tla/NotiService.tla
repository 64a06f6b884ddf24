---------------------------- MODULE NotiService ----------------------------
(***************************************************************************)
(* What heynoti promises behind one descriptor as long as keys stay set: a *)
(* set of subscriptions that subscribe and unsubscribe change at once, and *)
(* publishes that each subscriber of the key is owed a call for or none    *)
(* is. Several publishes may be answered with one call.                    *)
(***************************************************************************)
CONSTANTS Noti, Callback

VARIABLES
  subs,       \* the subscriptions: pairs of key and callback
  pending     \* those owed a call

Of(noti) == {u \in subs : u[1] = noti}

Init ==
  /\ subs = {}
  /\ pending = {}

Subscribe(noti, cb) ==
  /\ <<noti, cb>> \notin subs
  /\ subs' = subs \cup {<<noti, cb>>}
  /\ UNCHANGED pending

\* One callback of the key, or all.
Unsubscribe(noti, cbs) ==
  /\ subs' = subs \ ({noti} \X cbs)
  /\ pending' = pending \ ({noti} \X cbs)

Publish(noti) ==
  /\ pending' = pending \cup Of(noti)
  /\ UNCHANGED subs

\* One event calls every callback of its key.
Deliver(noti) ==
  /\ pending' = pending \ Of(noti)
  /\ UNCHANGED subs

Close ==
  /\ subs' = {}
  /\ pending' = {}

Next ==
  \/ \E n \in Noti : \/ \E c \in Callback : Subscribe(n, c) \/ Unsubscribe(n, {c})
                     \/ Unsubscribe(n, Callback)
                     \/ Publish(n)
                     \/ Deliver(n)
  \/ Close

Spec == Init /\ [][Next]_<<subs, pending>>
============================================================================

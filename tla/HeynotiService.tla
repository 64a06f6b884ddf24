--------------------------- MODULE HeynotiService ---------------------------
(***************************************************************************)
(* Heynoti implements the abstract service, with keys that stay set: the   *)
(* subscriptions are those the return values promise, and a subscription   *)
(* is owed a call when its slot is.                                        *)
(***************************************************************************)
EXTENDS Heynoti

PairOf(s) == <<s.noti, s.cb>>

Service == INSTANCE NotiService
             WITH subs <- subscribed, pending <- {PairOf(s) : s \in due}

\* Seen through return values and callbacks, each call of the library is one
\* atomic change of a set of subscriptions, although it takes two system calls
\* with publishes in between; a publish is heard by every subscriber of its key
\* or by none; an event serves all of them; a failed call changes nothing.
ImplementsService == Service!Spec
=============================================================================

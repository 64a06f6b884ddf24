------------------------------- MODULE NotiKeys -------------------------------
(***************************************************************************)
(* What the processes of a system see of the keys: a key is set or not,    *)
(* setting it takes one step and tells nobody, removing it leaves its file *)
(* to those who have it open, and only the close of a publisher makes an   *)
(* event. Module Heynoti takes the keys like this; HeynotiTool implements  *)
(* it with the system calls of heynotitool.                                *)
(***************************************************************************)
CONSTANTS Noti, Inode, Publisher, NULL

VARIABLES
  dir,     \* key -> file
  fd,      \* publisher -> file it has open for writing
  heard    \* files with an unread event

vars == <<dir, fd, heard>>

\* A key that is not set gets a file that is no other key's and that nobody
\* publishes.
set(noti) ==
  /\ dir[noti] = NULL
  /\ \E i \in Inode : /\ \A n \in Noti : dir[n] # i
                      /\ \A p \in Publisher : fd[p] # i
                      /\ dir' = [dir EXCEPT ![noti] = i]
  /\ UNCHANGED <<fd, heard>>

unset(noti) ==
  /\ dir[noti] # NULL
  /\ dir' = [dir EXCEPT ![noti] = NULL]
  /\ UNCHANGED <<fd, heard>>

publish_open(p, noti) ==
  /\ fd[p] = NULL /\ dir[noti] # NULL
  /\ fd' = [fd EXCEPT ![p] = dir[noti]]
  /\ UNCHANGED <<dir, heard>>

publish_close(p) ==
  /\ fd[p] # NULL
  /\ heard' = heard \cup {fd[p]}
  /\ fd' = [fd EXCEPT ![p] = NULL]
  /\ UNCHANGED dir

handle_event(i) ==
  /\ i \in heard
  /\ heard' = heard \ {i}
  /\ UNCHANGED <<dir, fd>>

Init ==
  /\ dir = [n \in Noti |-> NULL]
  /\ fd = [p \in Publisher |-> NULL]
  /\ heard = {}

Next ==
  \/ \E n \in Noti : set(n) \/ unset(n)
  \/ \E p \in Publisher : publish_close(p) \/ \E n \in Noti : publish_open(p, n)
  \/ \E i \in Inode : handle_event(i)

Spec == Init /\ [][Next]_vars
===============================================================================

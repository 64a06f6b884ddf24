----------------------------- MODULE HeynotiTool -----------------------------
(***************************************************************************)
(* heynotitool.c at the grain of its system calls: several runs of         *)
(* heynotitool at once, by root and by others, beside publishers of whom   *)
(* some are applications that need write permission on the key's file.     *)
(* Heynoti takes a set and an unset as one step each; here a set is an     *)
(* open, possibly a second open that creates, an fchmod and a close, and   *)
(* anything may happen in between.                                         *)
(***************************************************************************)
EXTENDS Integers

CONSTANTS
  Noti,        \* keys
  Inode,       \* files
  Tool,        \* processes that run heynotitool
  Root,        \* those run by root
  Publisher,   \* processes that publish
  App,         \* those that are applications, not root
  NULL

ASSUME ToolAssumption ==
  /\ Root \subseteq Tool /\ App \subseteq Publisher
  /\ NULL \notin Noti \cup Inode

VARIABLES
  dir,         \* NOTI_ROOT: key -> file
  mode,        \* file -> permission bits
  tool,        \* process -> where it is in main(), with the locals
  exit,        \* status of the run that ended last
  fd,          \* publisher -> file it has open for writing
  heard,       \* files with an IN_CLOSE_WRITE their subscribers have not read
  asked,       \* history: files a set -a has opened since they were created
  undone       \* history: processes whose key was unset since they opened it

vars == <<dir, mode, tool, exit, fd, heard, asked, undone>>

-----------------------------------------------------------------------------

SHARED_PERM == "0666"
USER_PERM   == "0644"
Perm        == {SHARED_PERM, USER_PERM}

Where == {"start", "create", "fchmod", "close"}
Run   == [at : Where, noti : Noti \cup {NULL}, perm : Perm, file : Inode \cup {NULL}]
Ended == [at |-> "start", noti |-> NULL, perm |-> USER_PERM, file |-> NULL]

Linked(i) == \E n \in Noti : dir[n] = i
Open(i)   == (\E t \in Tool : tool[t].file = i) \/ \E p \in Publisher : fd[p] = i

Exit(t, status) ==
  /\ tool' = [tool EXCEPT ![t] = Ended]
  /\ exit' = status

MissingElse(is_app) == IF is_app THEN SHARED_PERM ELSE "0000"   \* mutant: perm stays 0
PermFor(is_app) == IF is_app THEN SHARED_PERM ELSE USER_PERM

\* Process t has file i open, for a set of key noti with permission perm.
Opened(t, noti, perm, i) ==
  /\ tool' = [tool EXCEPT ![t] = [at |-> "fchmod", noti |-> noti, perm |-> perm, file |-> i]]
  /\ undone' = undone \ {t}

\* The subscribers of file i after process t closes it.
OpensForWriting(i) == heard \cup {i}               \* mutant: O_WRONLY | O_TRUNC
HeardAfterClose(i) == heard                        \* O_RDONLY

\* What open(path, O_CREAT, 0644) makes of an existing file of the key.
Replaces(noti) == FALSE                            \* mutant: makes the file anew
KeepsFile(noti) == dir[noti] # NULL

Shared(i) == SHARED_PERM                           \* mutant: 0666 at creation
CreationMode(i) == USER_PERM

\* The file whose mode fchmod changes.
ByPath(t) == dir[tool[t].noti]                     \* mutant: chmod(szFilePath)
Target(t) == tool[t].file

-----------------------------------------------------------------------------
(* main().                                                                 *)

\* No command, no key, an unknown command: usage, nothing done.
usage(t) ==
  /\ tool[t] = Ended
  /\ \E status \in {0, 1} : Exit(t, status)
  /\ UNCHANGED <<dir, mode, fd, heard, asked, undone>>

\* set: the check for root and the first open, O_RDONLY. It fails if the key
\* is not set, and may for want of a descriptor or of memory.
set(t, noti, is_app) ==
  LET i    == dir[noti]
      perm == PermFor(is_app)
  IN
  /\ tool[t] = Ended
  /\ \/ /\ t \notin Root
        /\ Exit(t, -1)
        /\ UNCHANGED <<asked, undone>>
     \/ /\ t \in Root /\ i # NULL
        /\ Opened(t, noti, perm, i)
        /\ asked' = IF perm = SHARED_PERM THEN asked \cup {i} ELSE asked
        /\ UNCHANGED exit
     \/ /\ t \in Root
        /\ tool' = [tool EXCEPT ![t] = [at |-> "create", noti |-> noti, perm |-> perm,
                                        file |-> NULL]]
        /\ UNCHANGED <<exit, asked, undone>>
  /\ UNCHANGED <<dir, mode, fd, heard>>

\* The second open, which may fail like the first, or for want of a directory
\* or of space. Without O_EXCL it opens a file that is there.
create(t) ==
  LET noti == tool[t].noti
      perm == tool[t].perm
  IN
  /\ tool[t].at = "create"
  /\ \/ /\ Exit(t, -1)
        /\ UNCHANGED <<dir, mode, asked, undone>>
     \/ /\ KeepsFile(noti)
        /\ Opened(t, noti, perm, dir[noti])
        /\ asked' = IF perm = SHARED_PERM THEN asked \cup {dir[noti]} ELSE asked
        /\ UNCHANGED <<dir, mode, exit>>
     \/ /\ ~KeepsFile(noti)
        /\ \E i \in Inode :
             /\ ~Linked(i) /\ ~Open(i)
             /\ dir' = [dir EXCEPT ![noti] = i]
             /\ mode' = [mode EXCEPT ![i] = CreationMode(i)]
             /\ Opened(t, noti, perm, i)
             /\ asked' = IF perm = SHARED_PERM THEN asked \cup {i} ELSE asked \ {i}
        /\ UNCHANGED exit
  /\ UNCHANGED <<fd, heard>>

\* fchmod; it may fail (a read-only file system), which main() does not test.
fchmod(t) ==
  /\ tool[t].at = "fchmod"
  /\ tool' = [tool EXCEPT ![t].at = "close"]
  /\ mode' \in {mode, [mode EXCEPT ![Target(t)] = tool[t].perm]}
  /\ UNCHANGED <<dir, exit, fd, heard, asked, undone>>

close(t) ==
  /\ tool[t].at = "close"
  /\ heard' = HeardAfterClose(tool[t].file)
  /\ Exit(t, 0)
  /\ UNCHANGED <<dir, mode, fd, asked, undone>>

\* unset: remove(), which the directory's permissions may deny to others.
unset(t, noti) ==
  /\ tool[t] = Ended
  /\ \/ /\ dir[noti] = NULL \/ t \notin Root
        /\ Exit(t, -1)
        /\ UNCHANGED <<dir, undone>>
     \/ /\ dir[noti] # NULL
        /\ dir' = [dir EXCEPT ![noti] = NULL]
        /\ undone' = undone \cup {u \in Tool : tool[u].noti = noti}
        /\ Exit(t, 0)
  /\ UNCHANGED <<mode, fd, heard, asked>>

-----------------------------------------------------------------------------
(* The processes that publish and subscribe.                               *)

MayWrite(p, i) == p \in App => mode[i] = SHARED_PERM

\* heynoti_publish: open(O_TRUNC | O_WRONLY); it fails without permission.
publish_open(p, noti) ==
  /\ fd[p] = NULL /\ dir[noti] # NULL
  /\ MayWrite(p, dir[noti])
  /\ fd' = [fd EXCEPT ![p] = dir[noti]]
  /\ UNCHANGED <<dir, mode, tool, exit, heard, asked, undone>>

publish_close(p) ==
  /\ fd[p] # NULL
  /\ heard' = heard \cup {fd[p]}
  /\ fd' = [fd EXCEPT ![p] = NULL]
  /\ UNCHANGED <<dir, mode, tool, exit, asked, undone>>

\* The subscribers read the events of file i.
handle_event(i) ==
  /\ i \in heard
  /\ heard' = heard \ {i}
  /\ UNCHANGED <<dir, mode, tool, exit, fd, asked, undone>>

-----------------------------------------------------------------------------

Init ==
  /\ dir = [n \in Noti |-> NULL]
  /\ mode = [i \in Inode |-> USER_PERM]
  /\ tool = [t \in Tool |-> Ended]
  /\ exit = 0
  /\ fd = [p \in Publisher |-> NULL]
  /\ heard = {} /\ asked = {} /\ undone = {}

main(t) ==
  \/ usage(t) \/ create(t) \/ fchmod(t) \/ close(t)
  \/ \E n \in Noti : unset(t, n) \/ \E is_app \in BOOLEAN : set(t, n, is_app)

Others ==
  \/ \E p \in Publisher : publish_close(p) \/ \E n \in Noti : publish_open(p, n)
  \/ \E i \in Inode : handle_event(i)

Next == (\E t \in Tool : main(t)) \/ Others

Spec == Init /\ [][Next]_vars

-----------------------------------------------------------------------------

TypeOK ==
  /\ dir \in [Noti -> Inode \cup {NULL}]
  /\ mode \in [Inode -> Perm]
  /\ tool \in [Tool -> Run]
  /\ exit \in {-1, 0, 1}
  /\ fd \in [Publisher -> Inode \cup {NULL}]
  /\ heard \subseteq Inode /\ asked \subseteq Inode /\ undone \subseteq Tool

\* Applications may publish a key only if a set -a was asked for that very
\* file: not while a plain set is creating it, not because a set -a of the
\* key overlapped an unset and a plain set that made the key anew.
OpenOnlyIfAsked ==
  \A n \in Noti : dir[n] # NULL /\ mode[dir[n]] = SHARED_PERM => dir[n] \in asked

\* Two files never take turns as one key behind the back of a set: the file
\* a set has open is the key's, however many sets overlap, unless the key was
\* unset after it was opened.
SetHoldsTheKey ==
  \A t \in Tool : tool[t].file # NULL => dir[tool[t].noti] = tool[t].file \/ t \in undone

\* What a publisher has open for writing was given to it: an application never
\* holds a file that no set -a was asked for, also when the key was unset and
\* the file lives on.
WriterWasAllowed ==
  \A p \in App : fd[p] # NULL => fd[p] \in asked

\* Whatever system calls overlap, a set is one step that creates at most one
\* file and wakes nobody, an unset one step, as module Heynoti takes them.
Keys == INSTANCE NotiKeys
ImplementsKeys == Keys!Spec

-----------------------------------------------------------------------------
(* What the documentation says and the code does not do.                   *)

\* What the usage text says of -a: a set -a that reports success has allowed
\* applications to publish the key, if nobody else ran the tool meanwhile.
SetAllowsApplication ==
  [][\A t \in Tool :
       tool[t].at = "close" /\ tool[t].perm = SHARED_PERM /\ exit' = 0 /\ Tool = {t}
         => mode[tool[t].file] = SHARED_PERM]_vars
==============================================================================

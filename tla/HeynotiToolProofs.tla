-------------------------- MODULE HeynotiToolProofs --------------------------
(***************************************************************************)
(* Theorems about module HeynotiTool, for any number of keys, files, runs  *)
(* of the tool and publishers.                                             *)
(***************************************************************************)
EXTENDS HeynotiTool, TLAPS

\* A run with a file open is past its opens, for a key; a run about to create
\* has a key.
Stages ==
  \A t \in Tool :
    /\ tool[t].at \in {"fchmod", "close"} => tool[t].file # NULL
    /\ tool[t].file # NULL => tool[t].noti # NULL
    /\ tool[t].at = "create" => tool[t].noti # NULL

\* A run that is going to open a file to applications is known to have opened
\* it, and no file is open to applications otherwise.
Requests ==
  /\ \A t \in Tool : tool[t].file # NULL /\ tool[t].perm = SHARED_PERM => tool[t].file \in asked
  /\ \A i \in Inode : mode[i] = SHARED_PERM => i \in asked

IInv == TypeOK /\ Stages /\ Requests /\ SetHoldsTheKey /\ WriterWasAllowed

LEMMA InitInv == Init => IInv
BY ToolAssumption
DEF Init, IInv, TypeOK, Stages, Requests, SetHoldsTheKey, WriterWasAllowed, Ended, Run,
    Where, Perm, SHARED_PERM, USER_PERM

\* usage, close and a failed run change nothing but the run's own place.
LEMMA ExitKeeps ==
  ASSUME IInv, NEW t \in Tool, NEW status \in {-1, 0, 1}, Exit(t, status),
         UNCHANGED <<dir, mode, fd, heard, asked, undone>>
  PROVE  IInv'
BY ToolAssumption
DEF IInv, TypeOK, Stages, Requests, SetHoldsTheKey, WriterWasAllowed, Exit, Ended, Run,
    Where, Perm, SHARED_PERM, USER_PERM

\* Opening file i of the key, with the request recorded, keeps the invariant.
LEMMA OpenedKeeps ==
  ASSUME IInv, NEW t \in Tool, NEW n \in Noti, NEW is_app \in Perm, dir[n] \in Inode,
         Opened(t, n, is_app, dir[n]),
         asked' = IF is_app = SHARED_PERM THEN asked \cup {dir[n]} ELSE asked,
         UNCHANGED <<dir, mode, fd, heard, exit>>
  PROVE  IInv'
BY ToolAssumption
DEF IInv, TypeOK, Stages, Requests, SetHoldsTheKey, WriterWasAllowed, Opened, Run,
    Where, Perm, SHARED_PERM, USER_PERM

LEMMA SetKeeps ==
  ASSUME IInv, NEW t \in Tool, NEW n \in Noti, NEW is_app \in BOOLEAN, set(t, n, is_app)
  PROVE  IInv'
<1> DEFINE perm == PermFor(is_app)
<1>1. perm \in Perm
  BY DEF PermFor, Perm
<1>2. dir[n] \in Inode \cup {NULL}
  BY DEF IInv, TypeOK
<1>3. CASE t \notin Root /\ Exit(t, -1) /\ UNCHANGED <<asked, undone>>
  BY <1>3, ExitKeeps DEF set
<1>4. CASE /\ dir[n] # NULL
           /\ Opened(t, n, perm, dir[n])
           /\ asked' = (IF perm = SHARED_PERM THEN asked \cup {dir[n]} ELSE asked)
           /\ UNCHANGED exit
  BY <1>1, <1>2, <1>4, OpenedKeeps DEF set
<1>5. CASE /\ tool' = [tool EXCEPT ![t] = [at |-> "create", noti |-> n, perm |-> perm,
                                           file |-> NULL]]
           /\ UNCHANGED <<exit, asked, undone>>
  <2> UNCHANGED <<dir, mode, fd, heard>>
    BY DEF set
  <2> HIDE DEF perm
  <2> QED
    BY <1>1, <1>5, ToolAssumption
    DEF IInv, TypeOK, Stages, Requests, SetHoldsTheKey, WriterWasAllowed, Run, Where
<1> QED
  BY <1>3, <1>4, <1>5 DEF set

LEMMA CreateKeeps ==
  ASSUME IInv, NEW t \in Tool, create(t)
  PROVE  IInv'
<1> DEFINE n == tool[t].noti
           perm == tool[t].perm
<1>1. n \in Noti /\ perm \in Perm /\ dir[n] \in Inode \cup {NULL}
  BY DEF IInv, TypeOK, Stages, create, Run
<1>2. UNCHANGED <<fd, heard>>
  BY DEF create
<1>3. CASE Exit(t, -1) /\ UNCHANGED <<dir, mode, asked, undone>>
  BY <1>2, <1>3, ExitKeeps
<1>4. CASE /\ KeepsFile(n)
           /\ Opened(t, n, perm, dir[n])
           /\ asked' = (IF perm = SHARED_PERM THEN asked \cup {dir[n]} ELSE asked)
           /\ UNCHANGED <<dir, mode, exit>>
  BY <1>1, <1>2, <1>4, OpenedKeeps DEF KeepsFile
<1>5. ASSUME NEW i \in Inode, ~KeepsFile(n), ~Open(i), UNCHANGED exit,
             dir' = [dir EXCEPT ![n] = i],
             mode' = [mode EXCEPT ![i] = CreationMode(i)],
             Opened(t, n, perm, i),
             asked' = IF perm = SHARED_PERM THEN asked \cup {i} ELSE asked \ {i}
      PROVE  IInv'
  <2> HIDE DEF n, perm
  <2>1. /\ \A u \in Tool : tool[u].file # i
        /\ \A p \in Publisher : fd[p] # i
    BY <1>5 DEF Open
  <2>2. TypeOK'
    BY <1>1, <1>2, <1>5, ToolAssumption
    DEF IInv, TypeOK, Opened, Run, Where, CreationMode, Perm, USER_PERM
  <2>3. Stages' /\ Requests'
    BY <1>1, <1>2, <1>5, <2>1, ToolAssumption
    DEF IInv, TypeOK, Stages, Requests, Opened, Run, CreationMode, Perm, USER_PERM, SHARED_PERM
  <2>4. SetHoldsTheKey'
    BY <1>1, <1>5, ToolAssumption
    DEF IInv, TypeOK, Stages, SetHoldsTheKey, Opened, Run, KeepsFile
  <2>5. WriterWasAllowed'
    BY <1>2, <1>5, <2>1, ToolAssumption DEF IInv, TypeOK, WriterWasAllowed
  <2> QED
    BY <2>2, <2>3, <2>4, <2>5 DEF IInv
<1> QED
  BY <1>3, <1>4, <1>5 DEF create

LEMMA FchmodKeeps ==
  ASSUME IInv, NEW t \in Tool, fchmod(t)
  PROVE  IInv'
<1>1. tool[t] \in Run /\ tool[t].file \in Inode
  BY DEF fchmod, IInv, TypeOK, Stages, Run
<1>2. TypeOK'
  BY <1>1 DEF fchmod, IInv, TypeOK, Run, Where, Target
<1>3. Stages' /\ SetHoldsTheKey' /\ WriterWasAllowed'
  BY <1>1 DEF fchmod, IInv, TypeOK, Stages, SetHoldsTheKey, WriterWasAllowed, Run
<1>4. Requests'
  BY <1>1 DEF fchmod, IInv, TypeOK, Stages, Requests, Run, Target
<1> QED
  BY <1>2, <1>3, <1>4 DEF IInv

LEMMA UnsetKeeps ==
  ASSUME IInv, NEW t \in Tool, NEW n \in Noti, unset(t, n)
  PROVE  IInv'
<1>1. CASE Exit(t, -1) /\ UNCHANGED <<dir, undone>>
  BY <1>1, ExitKeeps DEF unset
<1>2. CASE /\ dir' = [dir EXCEPT ![n] = NULL]
           /\ undone' = undone \cup {u \in Tool : tool[u].noti = n}
           /\ Exit(t, 0)
  <2> UNCHANGED <<mode, fd, heard, asked>>
    BY DEF unset
  <2>1. TypeOK' /\ Stages' /\ Requests' /\ WriterWasAllowed'
    BY <1>2, ToolAssumption
    DEF IInv, TypeOK, Stages, Requests, WriterWasAllowed, Exit, Ended, Run, Where, Perm,
        SHARED_PERM, USER_PERM
  <2>2. SetHoldsTheKey'
    BY <1>2, ToolAssumption DEF IInv, TypeOK, Stages, SetHoldsTheKey, Exit, Ended, Run
  <2> QED
    BY <2>1, <2>2 DEF IInv
<1> QED
  BY <1>1, <1>2 DEF unset

LEMMA OthersKeep ==
  ASSUME IInv, Others
  PROVE  IInv'
<1>1. ASSUME NEW p \in Publisher, publish_close(p)
      PROVE  IInv'
  BY <1>1, ToolAssumption
  DEF publish_close, IInv, TypeOK, Stages, Requests, SetHoldsTheKey, WriterWasAllowed
<1>2. ASSUME NEW p \in Publisher, NEW n \in Noti, publish_open(p, n)
      PROVE  IInv'
  BY <1>2, ToolAssumption
  DEF publish_open, MayWrite, IInv, TypeOK, Stages, Requests, SetHoldsTheKey, WriterWasAllowed
<1>3. ASSUME NEW i \in Inode, handle_event(i)
      PROVE  IInv'
  BY <1>3 DEF handle_event, IInv, TypeOK, Stages, Requests, SetHoldsTheKey, WriterWasAllowed
<1> QED
  BY <1>1, <1>2, <1>3 DEF Others

LEMMA NextInv == IInv /\ [Next]_vars => IInv'
<1> SUFFICES ASSUME IInv, [Next]_vars PROVE IInv'
  OBVIOUS
<1>1. ASSUME NEW t \in Tool, main(t) PROVE IInv'
  <2>1. CASE usage(t)
    BY <2>1, ExitKeeps DEF usage
  <2>2. CASE close(t)
    <3> HeardAfterClose(tool[t].file) = heard
      BY DEF HeardAfterClose
    <3> QED
      BY <2>2, ExitKeeps DEF close
  <2> QED
    BY <1>1, <2>1, <2>2, SetKeeps, CreateKeeps, FchmodKeeps, UnsetKeeps DEF main
<1>2. CASE UNCHANGED vars
  BY <1>2
  DEF vars, IInv, TypeOK, Stages, Requests, SetHoldsTheKey, WriterWasAllowed
<1> QED
  BY <1>1, <1>2, OthersKeep DEF Next

\* The inductive invariant of the tool: what each stage of main() has open, and
\* that every file open to applications has been asked for.
THEOREM Invariance == Spec => []IInv
BY InitInv, NextInv, PTL DEF Spec

\* main() keeps to the values its variables may have.
THEOREM TypeCorrect == Spec => []TypeOK
BY Invariance, PTL DEF IInv

\* However many runs of heynotitool overlap, a key is open to applications
\* only if a set -a opened the file it has now (heynotitool.c, main).
THEOREM OpenOnlyOnRequest == Spec => []OpenOnlyIfAsked
<1>1. IInv => OpenOnlyIfAsked
  BY DEF IInv, TypeOK, Requests, OpenOnlyIfAsked
<1> QED
  BY <1>1, Invariance, PTL

\* Applications write only to files that a set -a was asked for.
THEOREM WritersAreAllowed == Spec => []WriterWasAllowed
BY Invariance, PTL DEF IInv

\* Overlapping sets of a key share its file: none of them replaces the file
\* another has open.
THEOREM SetsShareTheKey == Spec => []SetHoldsTheKey
BY Invariance, PTL DEF IInv

\* The system calls of the tool implement the one-step set and unset of the
\* abstract keys, which is how module Heynoti takes them.
THEOREM KeysRefinement == Spec => ImplementsKeys
<1>1. Init => Keys!Init
  BY DEF Init, Keys!Init
<1>2. ASSUME IInv, [Next]_vars
      PROVE  [Keys!Next]_Keys!vars
  <2>1. ASSUME NEW t \in Tool, main(t)
        PROVE  Keys!Next \/ UNCHANGED Keys!vars
    <3>1. CASE usage(t) \/ fchmod(t) \/ close(t)
      BY <3>1 DEF usage, fchmod, close, HeardAfterClose, Keys!vars
    <3>2. CASE create(t)
      <4> DEFINE n == tool[t].noti
      <4>1. n \in Noti /\ UNCHANGED <<fd, heard>>
        BY <1>2, <3>2 DEF create, IInv, Stages, TypeOK, Run
      <4>2. CASE UNCHANGED dir
        BY <4>1, <4>2 DEF Keys!vars
      <4>3. CASE ~KeepsFile(n) /\ \E i \in Inode : /\ ~Linked(i) /\ ~Open(i)
                                                   /\ dir' = [dir EXCEPT ![n] = i]
        BY <4>1, <4>3 DEF Keys!Next, Keys!set, KeepsFile, Linked, Open
      <4> QED
        BY <3>2, <4>2, <4>3 DEF create
    <3>3. ASSUME NEW n \in Noti, unset(t, n)
          PROVE  Keys!Next \/ UNCHANGED Keys!vars
      BY <3>3 DEF unset, Keys!Next, Keys!unset, Keys!vars
    <3>4. ASSUME NEW n \in Noti, NEW is_app \in BOOLEAN, set(t, n, is_app)
          PROVE  UNCHANGED Keys!vars
      BY <3>4 DEF set, Keys!vars
    <3> QED
      BY <2>1, <3>1, <3>2, <3>3, <3>4 DEF main
  <2>2. CASE Others
    BY <2>2
    DEF Others, publish_open, publish_close, handle_event, Keys!Next, Keys!publish_open,
        Keys!publish_close, Keys!handle_event
  <2>3. CASE UNCHANGED vars
    BY <2>3 DEF vars, Keys!vars
  <2> QED
    BY <1>2, <2>1, <2>2, <2>3 DEF Next
<1> QED
  BY <1>1, <1>2, Invariance, PTL DEF Spec, ImplementsKeys, Keys!Spec
==============================================================================

------------------------------ MODULE NotiName ------------------------------
(***************************************************************************)
(* The names of notifications and the files they lead to: the name         *)
(* functions of heynoti.c, which print a process or system name into the   *)
(* caller's buffer, and the paths that heynoti_subscribe and               *)
(* heynoti_publish make of a name. A text is a sequence of characters.     *)
(***************************************************************************)
EXTENDS Integers, Sequences

CONSTANTS
  Char, Digit,   \* characters, and those that %d prints
  Pid, Dec,      \* process ids and their decimal texts
  Name,          \* names the callers pass
  Size,          \* sizes of the callers' buffers
  Root,          \* NOTI_ROOT
  FILENAME_MAX,
  NULL

ASSUME NameAssumption ==
  /\ Digit \subseteq Char /\ {"dot", "under", "S", "Y", "slash"} \subseteq Char \ Digit
  /\ Dec \in [Pid -> Seq(Digit) \ {<< >>}]
  /\ \A p, q \in Pid : Dec[p] = Dec[q] => p = q
  /\ Name \subseteq Seq(Char) /\ NULL \notin Name
  /\ Size \subseteq Int
  /\ Root \in Seq(Char)
  /\ FILENAME_MAX \in Nat \ {0}

VARIABLES
  last,    \* the last call of a name function
  ret,     \* what it returned
  buf,     \* the text in the caller's buffer
  kept     \* an earlier successful call and the name it made

vars == <<last, ret, buf, kept>>

-----------------------------------------------------------------------------

AU_PREFIX_SYSNOTI == <<"S", "Y", "S">>

\* The text of the formats ".%d_%s" and ".%s_%s".
NoSeparator(tag, name) == <<"dot">> \o tag \o name            \* mutant: ".%d%s"
Tagged(tag, name) == <<"dot">> \o tag \o <<"under">> \o name

\* What snprintf leaves of a text in a buffer of n bytes, n > 0.
Cut(text, n) == SubSeq(text, 1, IF Len(text) < n THEN Len(text) ELSE n - 1)

\* snprintf returns the length of the whole text.
TerminatorForgotten(text, size) == Len(text) > size          \* mutant: ret > buf_size
TooLong(text, size) == Len(text) >= size

\* The int is passed on as a size_t, so a negative one sets snprintf no limit;
\* compared as an int it is exceeded by every text.
print(text, size) ==
  /\ \/ size = 0 /\ UNCHANGED buf
     \/ size > 0 /\ buf' = Cut(text, size)
     \/ size < 0 /\ buf' = text
  /\ ret' = IF TooLong(text, size) THEN -1 ELSE 0

\* A call, and the text it prints.
NoCall == [fn |-> "none", pid |-> NULL, name |-> NULL, size |-> 0]
TagOf(c)  == IF c.fn = "snoti" THEN AU_PREFIX_SYSNOTI ELSE Dec[c.pid]
TextOf(c) == Tagged(TagOf(c), c.name)

\* The caller keeps the name it has for later use, or goes on without it.
Keep == \/ UNCHANGED kept
        \/ ret = 0 /\ last # NoCall /\ kept' = [call |-> last, buf |-> buf]

heynoti_get_pnoti_name(pid, name, size) ==
  /\ last' = [fn |-> "pnoti", pid |-> pid, name |-> name, size |-> size]
  /\ \/ name = NULL /\ ret' = -1 /\ UNCHANGED buf
     \/ name # NULL /\ print(Tagged(Dec[pid], name), size)
  /\ Keep

heynoti_get_snoti_name(name, size) ==
  /\ last' = [fn |-> "snoti", pid |-> NULL, name |-> name, size |-> size]
  /\ \/ name = NULL /\ ret' = -1 /\ UNCHANGED buf
     \/ name # NULL /\ print(Tagged(AU_PREFIX_SYSNOTI, name), size)
  /\ Keep

\* The files.
make_noti_path(name) == Cut(Root \o <<"slash">> \o name, FILENAME_MAX)

IsPath(noti) == \E k \in DOMAIN noti : noti[k] = "slash"

publish_path(noti) == IF IsPath(noti) THEN Cut(noti, FILENAME_MAX) ELSE make_noti_path(noti)

-----------------------------------------------------------------------------

Init ==
  /\ last = NoCall /\ ret = -1 /\ buf = << >>
  /\ kept = [call |-> NoCall, buf |-> << >>]

Next ==
  \E name \in Name \cup {NULL}, size \in Size :
    \/ heynoti_get_snoti_name(name, size)
    \/ \E pid \in Pid : heynoti_get_pnoti_name(pid, name, size)

Spec == Init /\ [][Next]_vars

-----------------------------------------------------------------------------
(* Properties.                                                             *)

\* The functions succeed exactly when the buffer has the bytes their
\* documentation asks for (six more than the name; three more than the
\* process id and the name), and a success has cut nothing off.
FitsExactly ==
  last.name # NULL =>
    LET extra == IF last.fn = "snoti" THEN 6 ELSE Len(Dec[last.pid]) + 3
    IN  /\ ret = 0 <=> last.size >= Len(last.name) + extra
        /\ ret = 0 => buf = TextOf(last)

\* A name stands for one notification: equal names were made by the same
\* function of the same process and name, whatever digits and underscores the
\* names hold, and no process name is a system name.
NamesIdentify ==
  ret = 0 /\ kept.call # NoCall /\ buf = kept.buf =>
    /\ last.fn = kept.call.fn
    /\ last.pid = kept.call.pid
    /\ last.name = kept.call.name

-----------------------------------------------------------------------------
(* What the documentation says and the code does not do.                   *)

\* The documentation calls the argument of heynoti_publish and that of
\* heynoti_subscribe a notification name: the name that one process subscribes
\* to is published under the same name.
PublishMeetsSubscribe == ret = 0 => publish_path(buf) = make_noti_path(buf)
=============================================================================

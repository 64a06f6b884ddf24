--------------------------- MODULE NotiNameProofs ---------------------------
(***************************************************************************)
(* Proofs about the names of notifications, for all names, process ids and *)
(* buffers. A process name is read back from its text by looking for the   *)
(* first underscore: digits before it, the name behind; a system name has  *)
(* no digit at the second place.                                           *)
(***************************************************************************)
EXTENDS NotiName, TLAPS

LEMMA CharFacts ==
  <<"dot">> \in Seq(Char) /\ <<"under">> \in Seq(Char) /\ "under" \notin Digit
<1>1. "dot" \in Char /\ "under" \in Char /\ "under" \notin Digit
  BY NameAssumption
<1> QED  BY <1>1

LEMMA SysFacts ==
  /\ AU_PREFIX_SYSNOTI \in Seq(Char) /\ Len(AU_PREFIX_SYSNOTI) = 3
  /\ AU_PREFIX_SYSNOTI[1] = "S" /\ "S" \notin Digit
<1>1. "S" \in Char /\ "Y" \in Char /\ "S" \notin Digit
  BY NameAssumption
<1> QED  BY <1>1 DEF AU_PREFIX_SYSNOTI

LEMMA DecFacts ==
  ASSUME NEW p \in Pid
  PROVE  /\ Dec[p] \in Seq(Char) /\ Len(Dec[p]) \in Nat \ {0}
         /\ \A k \in 1 .. Len(Dec[p]) : Dec[p][k] \in Digit
         /\ \A q \in Pid : Dec[p] = Dec[q] => p = q
<1>1. /\ Digit \subseteq Char /\ Dec[p] \in Seq(Digit) /\ Dec[p] # << >>
      /\ \A q \in Pid : Dec[p] = Dec[q] => p = q
  BY NameAssumption
<1>2. Len(Dec[p]) \in Nat \ {0} /\ \A k \in 1 .. Len(Dec[p]) : Dec[p][k] \in Digit
  BY <1>1
<1>3. Dec[p] \in Seq(Char)
  BY <1>1
<1> QED  BY <1>1, <1>2, <1>3

LEMMA ConcatFacts ==
  ASSUME NEW a \in Seq(Char), NEW x \in Seq(Char)
  PROVE  /\ a \o x \in Seq(Char) /\ Len(a \o x) = Len(a) + Len(x)
         /\ \A k \in 1 .. Len(a) : (a \o x)[k] = a[k]
         /\ \A k \in 1 .. Len(x) : (a \o x)[Len(a) + k] = x[k]
OBVIOUS

LEMMA SeqEqual ==
  ASSUME NEW x \in Seq(Char), NEW y \in Seq(Char), Len(x) = Len(y),
         \A k \in 1 .. Len(x) : x[k] = y[k]
  PROVE  x = y
OBVIOUS

\* Equal texts with prefixes of one length have equal prefixes and equal rests.
LEMMA ConcatInjective ==
  ASSUME NEW a \in Seq(Char), NEW b \in Seq(Char), NEW x \in Seq(Char), NEW y \in Seq(Char),
         Len(a) = Len(b), a \o x = b \o y
  PROVE  a = b /\ x = y
<1>1. Len(a) \in Nat /\ Len(x) \in Nat /\ Len(y) \in Nat
  OBVIOUS
<1>2. Len(x) = Len(y)
  BY <1>1, ConcatFacts
<1>3. a = b
  <2>1. \A k \in 1 .. Len(a) : a[k] = b[k]
    BY ConcatFacts
  <2> QED  BY <2>1, SeqEqual
<1>4. x = y
  <2>1. ASSUME NEW k \in 1 .. Len(x)  PROVE x[k] = y[k]
    <3>1. \A j \in 1 .. Len(x) : (a \o x)[Len(a) + j] = x[j]
      BY ConcatFacts
    <3>2. k \in 1 .. Len(y)
      BY <1>2
    <3>3. \A j \in 1 .. Len(y) : (b \o y)[Len(b) + j] = y[j]
      BY ConcatFacts
    <3> QED  BY <3>1, <3>2, <3>3
  <2> QED  BY <1>2, <2>1, SeqEqual
<1> QED  BY <1>3, <1>4

LEMMA CutFacts ==
  ASSUME NEW text \in Seq(Char), NEW n \in Nat, Len(text) < n
  PROVE  Cut(text, n) = text
<1>1. Cut(text, n) = SubSeq(text, 1, Len(text))
  BY DEF Cut
<1> QED  BY <1>1

-----------------------------------------------------------------------------
(* The texts.                                                              *)

\* The part of a text before the name.
Prefix(tag) == <<"dot">> \o tag \o <<"under">>

LEMMA PrefixFacts ==
  ASSUME NEW tag \in Seq(Char)
  PROVE  /\ Prefix(tag) \in Seq(Char) /\ Len(Prefix(tag)) = Len(tag) + 2 /\ Len(tag) \in Nat
         /\ \A k \in 1 .. Len(tag) : Prefix(tag)[k + 1] = tag[k]
         /\ Prefix(tag)[Len(tag) + 2] = "under"
<1> DEFINE n == Len(tag)
           d == <<"dot">> \o tag
           e == d \o <<"under">>
<1>1. n \in Nat /\ <<"dot">> \in Seq(Char) /\ <<"under">> \in Seq(Char)
  BY CharFacts
<1>2. /\ Len(<<"dot">>) = 1 /\ Len(<<"under">>) = 1 /\ <<"under">>[1] = "under" /\ 1 \in 1 .. 1
  OBVIOUS
<1>3. d \in Seq(Char) /\ Len(d) = 1 + n /\ \A k \in 1 .. n : d[1 + k] = tag[k]
  BY <1>1, <1>2, ConcatFacts
<1> HIDE DEF n, d
<1>4. /\ e \in Seq(Char) /\ Len(e) = Len(d) + 1
      /\ \A k \in 1 .. Len(d) : e[k] = d[k]
      /\ \A k \in 1 .. 1 : e[Len(d) + k] = <<"under">>[k]
  BY <1>1, <1>2, <1>3, ConcatFacts
<1>5. Prefix(tag) = e
  BY DEF Prefix, d
<1> HIDE DEF e
<1>6. Len(e) = n + 2 /\ Len(d) + 1 = n + 2
  BY <1>1, <1>3, <1>4
<1>7. ASSUME NEW k \in 1 .. n  PROVE e[k + 1] = tag[k]
  <2>1. k + 1 \in 1 .. Len(d) /\ k + 1 = 1 + k
    BY <1>1, <1>3
  <2> QED  BY <1>3, <1>4, <2>1
<1>8. e[n + 2] = "under"
  BY <1>2, <1>4, <1>6
<1> QED  BY <1>1, <1>4, <1>5, <1>6, <1>7, <1>8 DEF n

LEMMA TextFacts ==
  ASSUME NEW tag \in Seq(Char), NEW name \in Seq(Char)
  PROVE  /\ Tagged(tag, name) = Prefix(tag) \o name
         /\ Tagged(tag, name) \in Seq(Char)
         /\ Len(Tagged(tag, name)) = Len(name) + Len(tag) + 2 /\ Len(name) \in Nat
         /\ \A k \in 1 .. Len(tag) : Tagged(tag, name)[k + 1] = tag[k]
         /\ Tagged(tag, name)[Len(tag) + 2] = "under"
<1> DEFINE p == Prefix(tag)
           t == p \o name
           n == Len(tag)
           m == Len(name)
<1>1. Tagged(tag, name) = t
  BY DEF Tagged, Prefix
<1>2. /\ p \in Seq(Char) /\ Len(p) = n + 2 /\ n \in Nat
      /\ \A k \in 1 .. n : p[k + 1] = tag[k]
      /\ p[n + 2] = "under"
  BY PrefixFacts
<1>3. m \in Nat
  OBVIOUS
<1> HIDE DEF p, n
<1>4. t \in Seq(Char) /\ Len(t) = Len(p) + m /\ \A k \in 1 .. Len(p) : t[k] = p[k]
  BY <1>2, ConcatFacts
<1> HIDE DEF t, m
<1>5. Len(t) = m + n + 2
  BY <1>2, <1>3, <1>4
<1>6. ASSUME NEW k \in 1 .. n  PROVE t[k + 1] = tag[k]
  <2>1. k + 1 \in 1 .. Len(p)
    BY <1>2
  <2> QED  BY <1>2, <1>4, <2>1
<1>7. t[n + 2] = "under"
  <2>1. n + 2 \in 1 .. Len(p)
    BY <1>2
  <2> QED  BY <1>2, <1>4, <2>1
<1> QED  BY <1>1, <1>3, <1>4, <1>5, <1>6, <1>7 DEF n, m, t, p

\* A tag without underscores is read back from the text.
NoUnderscore(tag) == \A k \in 1 .. Len(tag) : tag[k] # "under"

LEMMA TaggedInjective ==
  ASSUME NEW p \in Seq(Char), NEW q \in Seq(Char), NEW m \in Seq(Char), NEW n \in Seq(Char),
         NoUnderscore(p), NoUnderscore(q), Tagged(p, m) = Tagged(q, n)
  PROVE  p = q /\ m = n
<1>1. ASSUME NEW r \in Seq(Char), NEW t \in Seq(Char), NEW u \in Seq(Char), NEW v \in Seq(Char),
             NoUnderscore(t), Tagged(r, u) = Tagged(t, v), Len(r) < Len(t)
      PROVE  FALSE
  <2> DEFINE k == Len(r) + 1
  <2>1. k \in 1 .. Len(t) /\ k + 1 = Len(r) + 2
    BY <1>1
  <2>2. Tagged(r, u)[k + 1] = "under"
    BY <2>1, TextFacts
  <2>3. Tagged(t, v)[k + 1] = t[k]
    <3>1. \A j \in 1 .. Len(t) : Tagged(t, v)[j + 1] = t[j]
      BY TextFacts
    <3> QED  BY <2>1, <3>1
  <2>4. t[k] # "under"
    BY <1>1, <2>1 DEF NoUnderscore
  <2> HIDE DEF k
  <2> QED  BY <1>1, <2>2, <2>3, <2>4
<1>2. Len(p) = Len(q)
  <2>1. Len(p) \in Nat /\ Len(q) \in Nat
    OBVIOUS
  <2>2. ~(Len(p) < Len(q))
    BY <1>1
  <2>3. ~(Len(q) < Len(p))
    BY <1>1
  <2> QED  BY <2>1, <2>2, <2>3
<1>3. m = n
  <2>1. Prefix(p) \o m = Prefix(q) \o n
    <3>1. Tagged(p, m) = Prefix(p) \o m
      BY TextFacts
    <3>2. Tagged(q, n) = Prefix(q) \o n
      BY TextFacts
    <3> QED  BY <3>1, <3>2
  <2>2. Len(Prefix(p)) = Len(Prefix(q)) /\ Prefix(p) \in Seq(Char) /\ Prefix(q) \in Seq(Char)
    BY <1>2, PrefixFacts
  <2> QED  BY <2>1, <2>2, ConcatInjective
<1>4. p = q
  <2>1. \A k \in 1 .. Len(p) : p[k] = q[k]
    <3>1. \A k \in 1 .. Len(p) : Tagged(p, m)[k + 1] = p[k]
      BY TextFacts
    <3>2. \A k \in 1 .. Len(q) : Tagged(q, n)[k + 1] = q[k]
      BY TextFacts
    <3> QED  BY <1>2, <3>1, <3>2
  <2> QED  BY <1>2, <2>1, SeqEqual
<1> QED  BY <1>3, <1>4

LEMMA TagFacts ==
  /\ AU_PREFIX_SYSNOTI \in Seq(Char) /\ NoUnderscore(AU_PREFIX_SYSNOTI)
  /\ \A p \in Pid : /\ Dec[p] \in Seq(Char) /\ NoUnderscore(Dec[p])
                    /\ Dec[p] # AU_PREFIX_SYSNOTI
<1>1. ASSUME NEW p \in Pid  PROVE Dec[p] # AU_PREFIX_SYSNOTI
  <2>1. 1 \in 1 .. Len(Dec[p])
    BY DecFacts
  <2> QED  BY <2>1, DecFacts, SysFacts
<1>2. NoUnderscore(AU_PREFIX_SYSNOTI)
  BY SysFacts DEF NoUnderscore, AU_PREFIX_SYSNOTI
<1> QED  BY <1>1, <1>2, DecFacts, SysFacts, CharFacts DEF NoUnderscore

-----------------------------------------------------------------------------
(* The invariant: what a successful call leaves is the text of the call.   *)

IsCall(c) ==
  /\ c.name \in Name \cup {NULL} /\ c.size \in Int
  /\ \/ c.fn = "snoti" /\ c.pid = NULL
     \/ c.fn = "pnoti" /\ c.pid \in Pid
     \/ c = NoCall

IInv ==
  /\ IsCall(last) /\ IsCall(kept.call)
  /\ last.name = NULL => ret = -1
  /\ last.name # NULL =>
       /\ ret = 0 <=> Len(TextOf(last)) < last.size
       /\ ret = 0 => buf = TextOf(last)
  /\ IF kept.call = NoCall THEN kept.buf = << >>
     ELSE kept.call.name # NULL /\ kept.buf = TextOf(kept.call)

\* The text of a call.
LEMMA TextOfFacts ==
  ASSUME NEW c, IsCall(c), c.name # NULL
  PROVE  /\ TextOf(c) = Tagged(TagOf(c), c.name) /\ TextOf(c) \in Seq(Char)
         /\ c.name \in Seq(Char) /\ TagOf(c) \in Seq(Char) /\ NoUnderscore(TagOf(c))
         /\ \/ c.fn = "snoti" /\ c.pid = NULL /\ TagOf(c) = AU_PREFIX_SYSNOTI
            \/ c.fn = "pnoti" /\ c.pid \in Pid /\ TagOf(c) = Dec[c.pid]
<1>1. c.name \in Seq(Char)
  BY NameAssumption DEF IsCall
<1>2. c # NoCall
  BY DEF NoCall
<1>3. \/ c.fn = "snoti" /\ c.pid = NULL /\ TagOf(c) = AU_PREFIX_SYSNOTI
      \/ c.fn = "pnoti" /\ c.pid \in Pid /\ TagOf(c) = Dec[c.pid]
  BY <1>2 DEF IsCall, TagOf
<1>4. TagOf(c) \in Seq(Char) /\ NoUnderscore(TagOf(c))
  BY <1>3, TagFacts
<1> QED  BY <1>1, <1>3, <1>4, TextFacts DEF TextOf

LEMMA PrintStep ==
  ASSUME IInv, NEW c, IsCall(c), last' = c, Keep,
         \/ c.name = NULL /\ ret' = -1
         \/ c.name # NULL /\ print(TextOf(c), c.size)
  PROVE  IInv'
<1>1. /\ IsCall(kept.call)'
      /\ IF kept'.call = NoCall THEN kept'.buf = << >>
         ELSE kept'.call.name # NULL /\ kept'.buf = TextOf(kept'.call)
  BY DEF IInv, Keep
<1>2. c.name # NULL => /\ ret' = 0 <=> Len(TextOf(c)) < c.size
                       /\ ret' = 0 => buf' = TextOf(c)
  <2> SUFFICES ASSUME c.name # NULL
               PROVE  /\ ret' = 0 <=> Len(TextOf(c)) < c.size
                      /\ ret' = 0 => buf' = TextOf(c)
    OBVIOUS
  <2>1. /\ c.size > 0 => buf' = Cut(TextOf(c), c.size)
        /\ ret' = IF Len(TextOf(c)) >= c.size THEN -1 ELSE 0
    BY DEF print, TooLong, IsCall
  <2>2. TextOf(c) \in Seq(Char) /\ Len(TextOf(c)) \in Nat /\ c.size \in Int
    BY TextOfFacts DEF IsCall
  <2>3. ret' = 0 <=> Len(TextOf(c)) < c.size
    BY <2>1, <2>2
  <2>4. Len(TextOf(c)) < c.size => buf' = TextOf(c)
    BY <2>1, <2>2, CutFacts
  <2> QED  BY <2>3, <2>4
<1> QED  BY <1>1, <1>2 DEF IInv

LEMMA Inductive == IInv /\ [Next]_vars => IInv'
<1> SUFFICES ASSUME IInv, [Next]_vars  PROVE IInv'
  OBVIOUS
<1>1. ASSUME NEW name \in Name \cup {NULL}, NEW size \in Size, heynoti_get_snoti_name(name, size)
      PROVE  IInv'
  <2> DEFINE c == [fn |-> "snoti", pid |-> NULL, name |-> name, size |-> size]
  <2>1. IsCall(c) /\ c.name = name /\ c.size = size /\ TextOf(c) = Tagged(AU_PREFIX_SYSNOTI, name)
    BY NameAssumption DEF IsCall, TextOf, TagOf
  <2> HIDE DEF c
  <2>2. /\ last' = c /\ Keep
        /\ \/ name = NULL /\ ret' = -1
           \/ name # NULL /\ print(Tagged(AU_PREFIX_SYSNOTI, name), size)
    BY <1>1 DEF heynoti_get_snoti_name, c
  <2> QED  BY <2>1, <2>2, PrintStep
<1>2. ASSUME NEW name \in Name \cup {NULL}, NEW size \in Size, NEW pid \in Pid,
             heynoti_get_pnoti_name(pid, name, size)
      PROVE  IInv'
  <2> DEFINE c == [fn |-> "pnoti", pid |-> pid, name |-> name, size |-> size]
  <2>1. IsCall(c) /\ c.name = name /\ c.size = size /\ TextOf(c) = Tagged(Dec[pid], name)
    BY NameAssumption DEF IsCall, TextOf, TagOf
  <2> HIDE DEF c
  <2>2. /\ last' = c /\ Keep
        /\ \/ name = NULL /\ ret' = -1
           \/ name # NULL /\ print(Tagged(Dec[pid], name), size)
    BY <1>2 DEF heynoti_get_pnoti_name, c
  <2> QED  BY <2>1, <2>2, PrintStep
<1>3. CASE UNCHANGED vars
  BY <1>3 DEF vars, IInv
<1> QED  BY <1>1, <1>2, <1>3 DEF Next

LEMMA Invariance == Spec => []IInv
<1>1. Init => IInv
  BY DEF Init, IInv, IsCall, NoCall
<1> QED  BY <1>1, Inductive, PTL DEF Spec

-----------------------------------------------------------------------------
(* The theorems.                                                           *)

\* The name functions succeed exactly on the buffer sizes that heynoti.h
\* documents, and then the whole name is in the buffer.
THEOREM ExactSizes == Spec => []FitsExactly
<1>1. IInv => FitsExactly
  <2> SUFFICES ASSUME IInv, last.name # NULL
               PROVE  /\ ret = 0 <=> last.size >= Len(last.name) +
                                (IF last.fn = "snoti" THEN 6 ELSE Len(Dec[last.pid]) + 3)
                      /\ ret = 0 => buf = TextOf(last)
    BY DEF FitsExactly
  <2>1. IsCall(last) /\ last.size \in Int
    BY DEF IInv, IsCall
  <2>2. /\ ret = 0 <=> Len(TextOf(last)) < last.size
        /\ ret = 0 => buf = TextOf(last)
    BY DEF IInv
  <2> DEFINE n == Len(last.name)
  <2>3. n \in Nat /\ Len(TagOf(last)) \in Nat /\ Len(TextOf(last)) = n + Len(TagOf(last)) + 2
    <3>1. /\ TagOf(last) \in Seq(Char) /\ last.name \in Seq(Char)
          /\ TextOf(last) = Tagged(TagOf(last), last.name)
      BY <2>1, TextOfFacts
    <3>2. Len(TagOf(last)) \in Nat
      BY <3>1, PrefixFacts
    <3>3. Len(Tagged(TagOf(last), last.name)) = n + Len(TagOf(last)) + 2 /\ n \in Nat
      BY <3>1, TextFacts
    <3> QED  BY <3>1, <3>2, <3>3
  <2>4. CASE last.fn = "snoti"
    <3>1. Len(TagOf(last)) = 3
      BY <2>1, <2>4, TextOfFacts, SysFacts
    <3> HIDE DEF n
    <3>2. Len(TextOf(last)) < last.size <=> last.size >= n + 6
      BY <2>1, <2>3, <3>1
    <3> QED  BY <2>2, <2>4, <3>2 DEF n
  <2>5. CASE last.fn = "pnoti"
    <3>1. TagOf(last) = Dec[last.pid]
      BY <2>1, <2>5, TextOfFacts
    <3> DEFINE d == Len(Dec[last.pid])
    <3>2. d \in Nat /\ Len(TextOf(last)) = n + d + 2
      BY <2>3, <3>1
    <3> HIDE DEF n, d
    <3>3. Len(TextOf(last)) < last.size <=> last.size >= n + (d + 3)
      BY <2>1, <2>3, <3>2
    <3> QED  BY <2>2, <2>5, <3>3 DEF n, d
  <2> QED  BY <2>1, <2>4, <2>5, TextOfFacts
<1> QED  BY <1>1, Invariance, PTL

\* Two different notifications never get one name, whatever their names hold.
THEOREM NamesAreUnique == Spec => []NamesIdentify
<1>1. IInv => NamesIdentify
  <2> SUFFICES ASSUME IInv, ret = 0, kept.call # NoCall, buf = kept.buf
               PROVE  /\ last.fn = kept.call.fn /\ last.pid = kept.call.pid
                      /\ last.name = kept.call.name
    BY DEF NamesIdentify
  <2>1. /\ IsCall(last) /\ last.name # NULL /\ IsCall(kept.call) /\ kept.call.name # NULL
        /\ TextOf(last) = TextOf(kept.call)
    BY DEF IInv
  <2>2. TagOf(last) = TagOf(kept.call) /\ last.name = kept.call.name
    BY <2>1, TextOfFacts, TaggedInjective
  <2> QED  BY <2>1, <2>2, TextOfFacts, TagFacts, DecFacts
<1> QED  BY <1>1, Invariance, PTL
=============================================================================

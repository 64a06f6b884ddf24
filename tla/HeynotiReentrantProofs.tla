----------------------- MODULE HeynotiReentrantProofs -----------------------
(***************************************************************************)
(* Proofs that the dispatch of heynoti.c survives callbacks that call the  *)
(* library, for every number of keys, callbacks, slots and nested calls,   *)
(* as long as no callback frees the slot a walk stands on (Careful): no    *)
(* walk reads freed memory, none skips or repeats a slot, and no event is  *)
(* forgotten (IInv); a dispatch left to itself uses up a measure           *)
(* (DispatchShrinks); and list, cursors and watches together implement     *)
(* NotiCallbacks (RInv, CallbacksRefined).                                 *)
(*                                                                         *)
(* The argument is about the order of the list. An append adds a slot      *)
(* behind all others and a removal keeps the order of the rest, so what is *)
(* ahead of a cursor only grows by new slots and shrinks by freed ones;    *)
(* FrameIs says of one frame what a walk relies on, and is kept by every   *)
(* change of the list.                                                     *)
(***************************************************************************)
EXTENDS HeynotiReentrant, InotifyProofs, SequenceTheorems

-----------------------------------------------------------------------------
(* Lists without repetition, the form of g_ns: what g_list_append and      *)
(* g_list_remove do to them.                                               *)

Distinct(s) == \A j, k \in DOMAIN s : s[j] = s[k] => j = k

\* y comes before z.
Precedes(s, y, z) == \E j, k \in DOMAIN s : j < k /\ s[j] = y /\ s[k] = z

LEMMA AppendFacts ==
  ASSUME NEW S, NEW s \in Seq(S), NEW x \in S, x \notin ToSet(s), Distinct(s)
  PROVE  /\ Append(s, x) \in Seq(S)
         /\ Distinct(Append(s, x))
         /\ ToSet(Append(s, x)) = ToSet(s) \cup {x}
         /\ \A y, z : Precedes(Append(s, x), y, z) <=>
                        Precedes(s, y, z) \/ (y \in ToSet(s) /\ z = x)
<1>1. /\ Append(s, x) \in Seq(S)
      /\ DOMAIN s = 1 .. Len(s) /\ Len(s) \in Nat
      /\ DOMAIN Append(s, x) = 1 .. Len(s) + 1
      /\ \A k \in 1 .. Len(s) : Append(s, x)[k] = s[k]
      /\ Append(s, x)[Len(s) + 1] = x
  OBVIOUS
<1>2. \A k \in 1 .. Len(s) + 1 : k \in 1 .. Len(s) \/ k = Len(s) + 1
  BY <1>1
<1>3. Distinct(Append(s, x))
  BY <1>1, <1>2 DEF Distinct, ToSet
<1>4. ToSet(Append(s, x)) = ToSet(s) \cup {x}
  BY <1>1, <1>2 DEF ToSet
<1>5. ASSUME NEW y, NEW z
      PROVE  Precedes(Append(s, x), y, z) <=> Precedes(s, y, z) \/ (y \in ToSet(s) /\ z = x)
  <2>1. ASSUME Precedes(Append(s, x), y, z)
        PROVE  Precedes(s, y, z) \/ (y \in ToSet(s) /\ z = x)
    <3>1. PICK j, k \in 1 .. Len(s) + 1 : j < k /\ Append(s, x)[j] = y /\ Append(s, x)[k] = z
      BY <1>1, <2>1 DEF Precedes
    <3>2. j \in 1 .. Len(s) /\ s[j] = y
      BY <1>1, <3>1
    <3>3. CASE k \in 1 .. Len(s)
      BY <1>1, <3>1, <3>2, <3>3 DEF Precedes
    <3>4. CASE k = Len(s) + 1
      BY <1>1, <3>1, <3>2, <3>4 DEF ToSet
    <3> QED  BY <1>2, <3>3, <3>4
  <2>2. ASSUME Precedes(s, y, z)  PROVE Precedes(Append(s, x), y, z)
    <3>1. PICK j, k \in 1 .. Len(s) : j < k /\ s[j] = y /\ s[k] = z
      BY <1>1, <2>2 DEF Precedes
    <3> QED  BY <1>1, <3>1 DEF Precedes
  <2>3. ASSUME y \in ToSet(s), z = x  PROVE Precedes(Append(s, x), y, z)
    <3>1. PICK j \in 1 .. Len(s) : s[j] = y
      BY <1>1, <2>3 DEF ToSet
    <3>2. /\ j \in 1 .. Len(s) + 1 /\ Len(s) + 1 \in 1 .. Len(s) + 1 /\ j < Len(s) + 1
          /\ Append(s, x)[j] = y
      BY <1>1, <3>1
    <3> QED  BY <1>1, <2>3, <3>2 DEF Precedes
  <2> QED  BY <2>1, <2>2, <2>3
<1> QED  BY <1>1, <1>3, <1>4, <1>5

\* Which element is where when the i-th has gone.
LEMMA RemoveAtPlaces ==
  ASSUME NEW S, NEW s \in Seq(S), NEW i \in DOMAIN s
  PROVE  /\ RemoveAt(s, i) \in Seq(S)
         /\ Len(RemoveAt(s, i)) = Len(s) - 1
         /\ \A k \in 1 .. Len(s) - 1 :
              RemoveAt(s, i)[k] = IF k < i THEN s[k] ELSE s[k + 1]
<1> DEFINE t == RemoveAt(s, i)
           n == Len(s)
<1>1. n \in Nat /\ DOMAIN s = 1 .. n /\ i \in 1 .. n
  OBVIOUS
<1>2. /\ SubSeq(s, 1, i - 1) \in Seq(S) /\ Len(SubSeq(s, 1, i - 1)) = i - 1
      /\ \A k \in 1 .. i - 1 : SubSeq(s, 1, i - 1)[k] = s[k]
  BY <1>1
<1>3. /\ SubSeq(s, i + 1, n) \in Seq(S) /\ Len(SubSeq(s, i + 1, n)) = n - i
      /\ \A k \in 1 .. n - i : SubSeq(s, i + 1, n)[k] = s[k + i]
  BY <1>1
<1> DEFINE a == SubSeq(s, 1, i - 1)
           b == SubSeq(s, i + 1, n)
<1>4. t = a \o b
  BY DEF RemoveAt
<1> HIDE DEF a, b, t
<1>5. /\ t \in Seq(S) /\ Len(t) = (i - 1) + (n - i)
      /\ \A k \in 1 .. Len(t) : t[k] = IF k <= i - 1 THEN a[k] ELSE b[k - (i - 1)]
  <2>1. /\ a \o b \in Seq(S) /\ Len(a \o b) = Len(a) + Len(b)
        /\ \A k \in 1 .. Len(a) + Len(b) :
             (a \o b)[k] = IF k <= Len(a) THEN a[k] ELSE b[k - Len(a)]
    <3>1. a \in Seq(S) /\ b \in Seq(S)
      BY <1>2, <1>3 DEF a, b
    <3> QED  BY <3>1
  <2>2. Len(a) = i - 1 /\ Len(b) = n - i
    BY <1>2, <1>3 DEF a, b
  <2> QED  BY <1>4, <2>1, <2>2
<1>6. ASSUME NEW k \in 1 .. n - 1  PROVE t[k] = IF k < i THEN s[k] ELSE s[k + 1]
  <2>1. CASE k < i
    BY <1>1, <1>2, <1>5, <2>1 DEF a
  <2>2. CASE ~(k < i)
    <3>1. k - (i - 1) \in 1 .. n - i /\ (k - (i - 1)) + i = k + 1
      BY <1>1, <2>2
    <3>2. b[k - (i - 1)] = s[(k - (i - 1)) + i]
      BY <1>3, <3>1 DEF b
    <3>3. k \in 1 .. Len(t) /\ ~(k <= i - 1)
      BY <1>1, <1>5, <2>2
    <3> QED  BY <1>5, <2>2, <3>1, <3>2, <3>3
  <2> QED  BY <2>1, <2>2
<1> QED  BY <1>1, <1>5, <1>6 DEF t

LEMMA RemoveAtFacts ==
  ASSUME NEW S, NEW s \in Seq(S), Distinct(s), NEW i \in DOMAIN s
  PROVE  /\ RemoveAt(s, i) \in Seq(S)
         /\ Distinct(RemoveAt(s, i))
         /\ ToSet(RemoveAt(s, i)) = ToSet(s) \ {s[i]}
         /\ \A y, z : Precedes(RemoveAt(s, i), y, z) <=>
                        Precedes(s, y, z) /\ y # s[i] /\ z # s[i]
<1> DEFINE t == RemoveAt(s, i)
           n == Len(s)
<1>1. n \in Nat /\ DOMAIN s = 1 .. n /\ i \in 1 .. n
  OBVIOUS
<1>2. /\ t \in Seq(S)
      /\ Len(t) = n - 1
      /\ \A k \in 1 .. n - 1 : t[k] = IF k < i THEN s[k] ELSE s[k + 1]
  BY RemoveAtPlaces
<1>3. DOMAIN t = 1 .. n - 1
  BY <1>2
<1> HIDE DEF t
<1>4. Distinct(t)
  <2> SUFFICES ASSUME NEW j \in 1 .. n - 1, NEW k \in 1 .. n - 1, t[j] = t[k]  PROVE j = k
    BY <1>3 DEF Distinct
  <2> DEFINE p == IF j < i THEN j ELSE j + 1
             q == IF k < i THEN k ELSE k + 1
  <2>1. p \in 1 .. n /\ q \in 1 .. n
    BY <1>1
  <2>2. t[j] = s[p] /\ t[k] = s[q]
    BY <1>2
  <2>3. p = q
    BY <1>1, <2>1, <2>2 DEF Distinct
  <2> QED  BY <1>1, <2>1, <2>2, <2>3
<1>5. \A k \in 1 .. n - 1 : t[k] \in ToSet(s) \ {s[i]}
  BY <1>1, <1>2 DEF Distinct, ToSet
<1>6. ASSUME NEW k \in 1 .. n, k # i  PROVE \E j \in 1 .. n - 1 : t[j] = s[k]
  <2>1. CASE k < i
    BY <1>1, <1>2, <2>1
  <2>2. CASE k > i
    <3>1. k - 1 \in 1 .. n - 1 /\ ~(k - 1 < i) /\ (k - 1) + 1 = k
      BY <1>1, <2>2
    <3> QED  BY <1>2, <3>1
  <2> QED  BY <1>1, <1>6, <2>1, <2>2, k < i \/ k > i
<1>7. ToSet(t) = ToSet(s) \ {s[i]}
  <2>1. \A x \in ToSet(t) : x \in ToSet(s) \ {s[i]}
    BY <1>3, <1>5 DEF ToSet
  <2>2. ASSUME NEW x \in ToSet(s), x # s[i]  PROVE x \in ToSet(t)
    <3>1. PICK k \in 1 .. n : s[k] = x /\ k # i
      BY <1>1, <2>2 DEF ToSet
    <3> QED  BY <1>3, <1>6, <3>1 DEF ToSet
  <2> QED  BY <2>1, <2>2
<1>8. ASSUME NEW y, NEW z
      PROVE  Precedes(t, y, z) <=> Precedes(s, y, z) /\ y # s[i] /\ z # s[i]
  <2>1. ASSUME Precedes(t, y, z)  PROVE Precedes(s, y, z) /\ y # s[i] /\ z # s[i]
    <3>1. PICK j, k \in 1 .. n - 1 : j < k /\ t[j] = y /\ t[k] = z
      BY <1>3, <2>1 DEF Precedes
    <3>2. PICK p \in 1 .. n : t[j] = s[p] /\ p = IF j < i THEN j ELSE j + 1
      BY <1>1, <1>2
    <3>3. PICK q \in 1 .. n : t[k] = s[q] /\ q = IF k < i THEN k ELSE k + 1
      BY <1>1, <1>2
    <3>4. p < q /\ p # i /\ q # i
      BY <1>1, <3>1, <3>2, <3>3
    <3>5. y # s[i] /\ z # s[i]
      BY <1>1, <3>1, <3>2, <3>3, <3>4 DEF Distinct
    <3> QED  BY <1>1, <3>1, <3>2, <3>3, <3>4, <3>5 DEF Precedes
  <2>2. ASSUME Precedes(s, y, z), y # s[i], z # s[i]  PROVE Precedes(t, y, z)
    <3>1. PICK p, q \in 1 .. n : p < q /\ s[p] = y /\ s[q] = z
      BY <1>1, <2>2 DEF Precedes
    <3>2. p # i /\ q # i
      BY <2>2, <3>1
    <3>3. PICK j \in 1 .. n - 1 : t[j] = y /\ j = IF p < i THEN p ELSE p - 1
      <4>1. CASE p < i
        BY <1>1, <1>2, <3>1, <4>1
      <4>2. CASE p > i
        <5>1. p - 1 \in 1 .. n - 1 /\ ~(p - 1 < i) /\ (p - 1) + 1 = p
          BY <1>1, <4>2
        <5> QED  BY <1>2, <3>1, <4>2, <5>1
      <4> QED  BY <1>1, <3>2, <4>1, <4>2
    <3>4. PICK k \in 1 .. n - 1 : t[k] = z /\ k = IF q < i THEN q ELSE q - 1
      <4>1. CASE q < i
        BY <1>1, <1>2, <3>1, <4>1
      <4>2. CASE q > i
        <5>1. q - 1 \in 1 .. n - 1 /\ ~(q - 1 < i) /\ (q - 1) + 1 = q
          BY <1>1, <4>2
        <5> QED  BY <1>2, <3>1, <4>2, <5>1
      <4> QED  BY <1>1, <3>2, <4>1, <4>2
    <3>5. j < k
      BY <1>1, <3>1, <3>2, <3>3, <3>4
    <3> QED  BY <1>3, <3>3, <3>4, <3>5 DEF Precedes
  <2> QED  BY <2>1, <2>2
<1> QED  BY <1>2, <1>4, <1>7, <1>8 DEF t

\* The order as a walk along the list sees it.
LEMMA OrderFacts ==
  ASSUME NEW S, NEW s \in Seq(S), Distinct(s)
  PROVE  /\ \A y, z : Precedes(s, y, z) => y \in ToSet(s) /\ z \in ToSet(s) /\ y # z
         /\ s # << >> => \A z : z \in ToSet(s) <=> z = s[1] \/ Precedes(s, s[1], z)
         /\ \A i \in DOMAIN s : i = Len(s) => \A z : ~Precedes(s, s[i], z)
         /\ \A i \in DOMAIN s : i # Len(s) =>
              /\ i + 1 \in DOMAIN s
              /\ \A z : Precedes(s, s[i], z) <=> z = s[i + 1] \/ Precedes(s, s[i + 1], z)
<1>1. DOMAIN s = 1 .. Len(s) /\ Len(s) \in Nat
  OBVIOUS
<1>2. \A y, z : Precedes(s, y, z) => y \in ToSet(s) /\ z \in ToSet(s) /\ y # z
  BY <1>1 DEF Precedes, ToSet, Distinct
<1>3. ASSUME s # << >>, NEW z
      PROVE  z \in ToSet(s) <=> z = s[1] \/ Precedes(s, s[1], z)
  <2>1. 1 \in 1 .. Len(s)
    BY <1>1, <1>3
  <2>2. \A k \in 1 .. Len(s) : k = 1 \/ 1 < k
    BY <1>1
  <2> QED  BY <1>1, <2>1, <2>2 DEF Precedes, ToSet
<1>4. ASSUME NEW i \in DOMAIN s, NEW z, Precedes(s, s[i], z)
      PROVE  \E k \in 1 .. Len(s) : i < k /\ s[k] = z
  BY <1>1, <1>4 DEF Precedes, Distinct
<1>5. ASSUME NEW i \in DOMAIN s, i # Len(s), NEW z
      PROVE  Precedes(s, s[i], z) <=> z = s[i + 1] \/ Precedes(s, s[i + 1], z)
  <2>1. i \in 1 .. Len(s) /\ i + 1 \in 1 .. Len(s)
    BY <1>1, <1>5
  <2>2. ASSUME Precedes(s, s[i], z)  PROVE z = s[i + 1] \/ Precedes(s, s[i + 1], z)
    <3>1. PICK k \in 1 .. Len(s) : i < k /\ s[k] = z
      BY <1>4, <2>2
    <3>2. k = i + 1 \/ i + 1 < k
      BY <2>1, <3>1
    <3> QED  BY <1>1, <2>1, <3>1, <3>2 DEF Precedes
  <2>3. ASSUME z = s[i + 1]  PROVE Precedes(s, s[i], z)
    BY <1>1, <2>1, <2>3 DEF Precedes
  <2>4. ASSUME Precedes(s, s[i + 1], z)  PROVE Precedes(s, s[i], z)
    <3>1. PICK k \in 1 .. Len(s) : i + 1 < k /\ s[k] = z
      BY <1>1, <1>4, <2>1, <2>4
    <3> QED  BY <1>1, <2>1, <3>1 DEF Precedes
  <2> QED  BY <2>2, <2>3, <2>4
<1>6. ASSUME NEW i \in DOMAIN s, i = Len(s), NEW z  PROVE ~Precedes(s, s[i], z)
  BY <1>1, <1>4, <1>6
<1>7. \A i \in DOMAIN s : i # Len(s) => i + 1 \in DOMAIN s
  BY <1>1
<1> QED  BY <1>2, <1>3, <1>5, <1>6, <1>7

-----------------------------------------------------------------------------
(* What holds of the frames, the call and the list.                        *)

\* Slot c is still ahead of frame f in list g.
Ahead(f, g, c) == Precedes(g, f.it, c) \/ (f.phase = "walk" /\ f.it = c)

\* What holds of a frame f over the list g with the contents sl.
FrameIs(f, g, sl) ==
  /\ f \in Frame
  /\ f.it \in ToSet(g) \cup {NULL}
  /\ f.phase \in {"poll", "read"} => f.it = NULL
  /\ f.phase = "called" => f.it # NULL
  /\ f.owed \subseteq ToSet(g) /\ f.called \subseteq ToSet(g)
  /\ \A c \in f.owed : Ahead(f, g, c) /\ sl[c].wd = f.ie.wd /\ f.ie.mask \in SubMask
  /\ \A c \in f.called : ~Ahead(f, g, c)

FramesOK == \A k \in DOMAIN frames : FrameIs(frames[k], g_ns, slot)

\* A _del_noti in progress stands on a slot of the list; only a callback or
\* the main loop has called it, and no walk stands on what it will free.
CallOK ==
  /\ call.it \in Listed \cup {NULL}
  /\ call # Idle =>
       /\ call.op = "unsubscribe" /\ call.key \in Key
       /\ frames = << >> \/ In("called")
       /\ \A k \in DOMAIN frames : frames[k].it \notin Selected(call.wd, call.cb)

\* Without a container there is no list.
DueOK == (~nc => g_ns = << >>) /\ due \subseteq Listed /\ DueIsReachable

IInv == TypeOK /\ FramesOK /\ CallOK /\ DueOK

-----------------------------------------------------------------------------
(* One frame, and changes of the list under it.                            *)

LEMMA NullNotListed ==
  ASSUME NEW g \in Seq(Cell)
  PROVE  ToSet(g) \subseteq Cell /\ NULL \notin ToSet(g)
BY ReentrantAssumption DEF ToSet

LEMMA FrameAppend ==
  ASSUME NEW g \in Seq(Cell), Distinct(g), NEW sl, NEW f, FrameIs(f, g, sl),
         NEW x \in Cell, x \notin ToSet(g), NEW sm, \A c \in ToSet(g) : sm[c] = sl[c]
  PROVE  FrameIs(f, Append(g, x), sm)
<1>1. /\ ToSet(Append(g, x)) = ToSet(g) \cup {x}
      /\ \A y, z : Precedes(Append(g, x), y, z) <=> Precedes(g, y, z) \/ (y \in ToSet(g) /\ z = x)
  BY AppendFacts
<1>2. \A c \in ToSet(g) : Ahead(f, Append(g, x), c) <=> Ahead(f, g, c)
  BY <1>1 DEF Ahead
<1> QED  BY <1>1, <1>2 DEF FrameIs

\* The frame without the freed slot.
Without(f, c) == [f EXCEPT !.owed = @ \ {c}, !.called = @ \ {c}]

LEMMA FrameRemove ==
  ASSUME NEW g \in Seq(Cell), Distinct(g), NEW sl, NEW f, FrameIs(f, g, sl),
         NEW i \in DOMAIN g, f.it # g[i]
  PROVE  FrameIs(Without(f, g[i]), RemoveAt(g, i), sl)
<1> DEFINE x == g[i]
           h == Without(f, x)
<1>1. /\ ToSet(RemoveAt(g, i)) = ToSet(g) \ {x}
      /\ \A y, z : Precedes(RemoveAt(g, i), y, z) <=> Precedes(g, y, z) /\ y # x /\ z # x
  BY RemoveAtFacts
<1>2. /\ h \in Frame /\ h.it = f.it /\ h.phase = f.phase /\ h.ie = f.ie
      /\ h.owed = f.owed \ {x} /\ h.called = f.called \ {x}
  BY DEF FrameIs, Frame, Without
<1> HIDE DEF h
<1>3. \A c \in ToSet(g) \ {x} : Ahead(h, RemoveAt(g, i), c) <=> Ahead(f, g, c)
  BY <1>1, <1>2 DEF Ahead
<1>4. FrameIs(h, RemoveAt(g, i), sl)
  BY <1>1, <1>2, <1>3 DEF FrameIs
<1> QED  BY <1>4 DEF h

\* it = g_list_next(it), past a slot that is not owed a call any more.
LEMMA FrameAdvance ==
  ASSUME NEW g \in Seq(Cell), Distinct(g), NEW sl, NEW f, FrameIs(f, g, sl),
         f.phase \in {"walk", "called"}, NEW i \in DOMAIN g, f.it = g[i], f.it \notin f.owed,
         NEW c, c = IF i = Len(g) THEN NULL ELSE g[i + 1]
  PROVE  FrameIs([f EXCEPT !.phase = "walk", !.it = c], g, sl)
<1> DEFINE h == [f EXCEPT !.phase = "walk", !.it = c]
<1>1. c \in ToSet(g) \cup {NULL} /\ NULL \notin ToSet(g) /\ ToSet(g) \subseteq Cell
  BY NullNotListed, OrderFacts DEF ToSet
<1>2. /\ h \in Frame /\ h.it = c /\ h.phase = "walk" /\ h.ie = f.ie
      /\ h.owed = f.owed /\ h.called = f.called
  BY <1>1 DEF FrameIs, Frame
<1> HIDE DEF h
<1>3. \A z : Precedes(g, f.it, z) <=> c # NULL /\ (z = c \/ Precedes(g, c, z))
  <2>1. CASE i = Len(g)
    BY <2>1, OrderFacts
  <2>2. CASE i # Len(g)
    <3>1. i + 1 \in DOMAIN g /\ c = g[i + 1] /\ c # NULL
      BY <1>1, <2>2, OrderFacts DEF ToSet
    <3> QED  BY <2>2, <3>1, OrderFacts
  <2> QED  BY <2>1, <2>2
<1>4. \A z \in ToSet(g) : Ahead(h, g, z) <=> Precedes(g, f.it, z)
  <2>1. \A z : ~Precedes(g, NULL, z)
    BY <1>1, OrderFacts
  <2> QED  BY <1>1, <1>2, <1>3, <2>1 DEF Ahead
<1>5. \A z \in f.owed : Precedes(g, f.it, z)
  BY DEF FrameIs, Ahead
<1>6. \A z \in f.called : ~Precedes(g, f.it, z)
  BY DEF FrameIs, Ahead
<1>7. FrameIs(h, g, sl)
  BY <1>1, <1>2, <1>4, <1>5, <1>6 DEF FrameIs
<1> QED  BY <1>7 DEF h

\* t->cb(t->cb_data)
LEMMA FrameCall ==
  ASSUME NEW g \in Seq(Cell), Distinct(g), NEW sl, NEW f, FrameIs(f, g, sl),
         f.phase = "walk", f.it # NULL
  PROVE  FrameIs([f EXCEPT !.phase = "called", !.owed = @ \ {f.it},
                           !.called = @ \cup {f.it}], g, sl)
<1> DEFINE h == [f EXCEPT !.phase = "called", !.owed = @ \ {f.it}, !.called = @ \cup {f.it}]
<1>1. f.it \in ToSet(g) /\ ToSet(g) \subseteq Cell
  BY NullNotListed DEF FrameIs
<1>2. /\ h \in Frame /\ h.it = f.it /\ h.phase = "called" /\ h.ie = f.ie
      /\ h.owed = f.owed \ {f.it} /\ h.called = f.called \cup {f.it}
  BY <1>1 DEF FrameIs, Frame
<1> HIDE DEF h
<1>3. ~Precedes(g, f.it, f.it)
  BY OrderFacts
<1>4. FrameIs(h, g, sl)
  BY <1>1, <1>2, <1>3 DEF FrameIs, Ahead
<1> QED  BY <1>4 DEF h

\* read() has returned the event ie: the walk starts at the head.
LEMMA FrameRead ==
  ASSUME NEW g \in Seq(Cell), Distinct(g), NEW sl, NEW f, FrameIs(f, g, sl), NEW ie \in Event,
         NEW c, c = IF g = << >> THEN NULL ELSE Head(g), NEW S \in SUBSET ToSet(g),
         \A d \in S : sl[d].wd = ie.wd /\ ie.mask \in SubMask
  PROVE  FrameIs([f EXCEPT !.ie = ie, !.phase = "walk", !.it = c, !.called = {}, !.owed = S], g, sl)
<1> DEFINE h == [f EXCEPT !.ie = ie, !.phase = "walk", !.it = c, !.called = {}, !.owed = S]
<1>1. ToSet(g) \subseteq Cell /\ NULL \notin ToSet(g)
  BY NullNotListed
<1>2. /\ c \in ToSet(g) \cup {NULL}
      /\ \A z \in ToSet(g) : z = c \/ Precedes(g, c, z)
  <2>1. CASE g = << >>
    BY <2>1 DEF ToSet
  <2>2. CASE g # << >>
    <3>1. c = g[1] /\ 1 \in DOMAIN g
      BY <2>2
    <3>2. \A z \in ToSet(g) : z = g[1] \/ Precedes(g, g[1], z)
      BY <2>2, OrderFacts
    <3>3. g[1] \in ToSet(g)
      BY <3>1 DEF ToSet
    <3> QED  BY <3>1, <3>2, <3>3
  <2> QED  BY <2>1, <2>2
<1>3. /\ h \in Frame /\ h.it = c /\ h.phase = "walk" /\ h.ie = ie
      /\ h.owed = S /\ h.called = {}
  BY <1>1, <1>2 DEF FrameIs, Frame
<1> HIDE DEF h
<1>4. FrameIs(h, g, sl)
  BY <1>2, <1>3 DEF FrameIs, Ahead
<1> QED  BY <1>4 DEF h

-----------------------------------------------------------------------------
(* The stack of frames.                                                    *)

LEMMA TopFacts ==
  ASSUME TypeOK, FramesOK, frames # << >>
  PROVE  /\ Len(frames) \in DOMAIN frames /\ Last(frames) = frames[Len(frames)]
         /\ FrameIs(Last(frames), g_ns, slot)
         /\ DOMAIN frames = 1 .. Len(frames) /\ Len(frames) \in Nat
<1>1. frames \in Seq(Frame) /\ DOMAIN frames = 1 .. Len(frames) /\ Len(frames) \in Nat
  BY DEF TypeOK
<1>2. Len(frames) \in 1 .. Len(frames)
  BY <1>1
<1> QED  BY <1>1, <1>2 DEF FramesOK, Last

\* While a frame is not inside a callback no call of the application runs.
LEMMA NoCall ==
  ASSUME CallOK, NEW phase, In(phase), phase # "called"
  PROVE  call = Idle
BY DEF CallOK, In

LEMMA ListTyped ==
  ASSUME TypeOK
  PROVE  /\ g_ns \in Seq(Cell) /\ Distinct(g_ns)
         /\ Listed \subseteq Cell /\ NULL \notin Listed
BY NullNotListed DEF TypeOK, Distinct, Listed

\* Where a cell of the list is.
LEMMA PositionFacts ==
  ASSUME TypeOK, NEW c \in Listed
  PROVE  /\ Position(c) \in DOMAIN g_ns /\ g_ns[Position(c)] = c
         /\ After(c) = IF Position(c) = Len(g_ns) THEN NULL ELSE g_ns[Position(c) + 1]
         /\ After(c) \in Listed \cup {NULL} /\ After(c) # c
<1>1. \E k \in DOMAIN g_ns : g_ns[k] = c
  BY DEF Listed, ToSet
<1>2. Position(c) \in DOMAIN g_ns /\ g_ns[Position(c)] = c
  BY <1>1 DEF Position
<1>3. After(c) = IF Position(c) = Len(g_ns) THEN NULL ELSE g_ns[Position(c) + 1]
  BY DEF After
<1>4. Position(c) # Len(g_ns) => Position(c) + 1 \in DOMAIN g_ns
  BY <1>2, ListTyped
<1>5. After(c) # c
  <2>1. CASE Position(c) = Len(g_ns)
    BY <1>3, <2>1, ListTyped
  <2>2. CASE Position(c) # Len(g_ns)
    <3>1. Position(c) + 1 # Position(c)
      BY <1>2, ListTyped
    <3> QED  BY <1>2, <1>3, <1>4, <2>2, <3>1 DEF TypeOK
  <2> QED  BY <2>1, <2>2
<1> QED  BY <1>2, <1>3, <1>4, <1>5 DEF Listed, ToSet

\* A step of the innermost frame only.
LEMMA TopStep ==
  ASSUME IInv, frames # << >>, call = Idle, NEW f, FrameIs(f, g_ns, slot), Becomes(f),
         UNCHANGED <<nc, ht, g_ns, slot, call>>, InotifyTypeOK', due' \subseteq due
  PROVE  /\ TypeOK' /\ FramesOK' /\ CallOK'
         /\ DOMAIN frames' = DOMAIN frames
         /\ \A k \in DOMAIN frames : frames'[k] = IF k = Len(frames) THEN f ELSE frames[k]
<1> USE DEF IInv
<1>1. /\ frames \in Seq(Frame) /\ f \in Frame /\ Len(frames) \in 1 .. Len(frames)
      /\ frames' = [frames EXCEPT ![Len(frames)] = f]
  BY TopFacts DEF TypeOK, FrameIs, Becomes
<1>2. /\ frames' \in Seq(Frame) /\ Len(frames') = Len(frames)
      /\ \A k \in 1 .. Len(frames) : frames'[k] = IF k = Len(frames) THEN f ELSE frames[k]
  BY <1>1, ExceptSeq
<1>3. DOMAIN frames' = DOMAIN frames /\ DOMAIN frames = 1 .. Len(frames)
  BY <1>1, <1>2
<1>4. TypeOK'
  BY <1>2 DEF TypeOK, Listed
<1>5. FramesOK'
  BY <1>2, <1>3 DEF FramesOK
<1>6. CallOK'
  BY DEF CallOK, Listed
<1> QED  BY <1>2, <1>3, <1>4, <1>5, <1>6

\* read() finds nothing, or poll() is interrupted: the frame is done, and it
\* owes nothing.
LEMMA PopStep ==
  ASSUME IInv, In("read") \/ In("poll"), Pop, UNCHANGED <<kernel, nc, ht, g_ns, slot, call, due>>
  PROVE  IInv'
<1> USE DEF IInv
<1> DEFINE n == Len(frames)
<1>1. /\ frames # << >> /\ call = Idle /\ frames \in Seq(Frame)
      /\ n \in Nat /\ DOMAIN frames = 1 .. n /\ n \in 1 .. n
      /\ FrameIs(Last(frames), g_ns, slot) /\ Last(frames) = frames[n]
  BY TopFacts, NoCall DEF In, TypeOK
<1>2. frames[n].owed = {}
  <2>1. frames[n].it = NULL /\ frames[n].phase # "walk"
    BY <1>1 DEF FrameIs, In
  <2>2. \A c : ~Precedes(g_ns, NULL, c)
    BY ListTyped, OrderFacts DEF Listed
  <2> QED  BY <1>1, <2>1, <2>2 DEF FrameIs, Ahead
<1>3. /\ frames' \in Seq(Frame) /\ Len(frames') = n - 1
      /\ DOMAIN frames' = 1 .. n - 1
      /\ \A k \in 1 .. n - 1 : frames'[k] = frames[k]
  BY <1>1 DEF Pop, Front
<1>4. TypeOK'
  BY <1>1, <1>3, ReentrantAssumption DEF TypeOK, InotifyTypeOK, kernel, Listed
<1>5. FramesOK'
  BY <1>1, <1>3 DEF FramesOK
<1>6. CallOK'
  BY <1>1 DEF CallOK, Listed
<1>7. DueOK'
  <2>1. ASSUME NEW k \in 1 .. n, NEW c \in frames[k].owed  PROVE k \in 1 .. n - 1
    BY <1>1, <1>2, <2>1
  <2> QED  BY <1>1, <1>3, <2>1 DEF DueOK, DueIsReachable, Listed, kernel, InQueue
<1> QED  BY <1>4, <1>5, <1>6, <1>7

\* A new __handle_event, or the poll() before it.
LEMMA PushStep ==
  ASSUME IInv, NEW busy \in BOOLEAN, NEW phase \in {"poll", "read"},
         Running, Len(frames) < MaxDepth, Push(busy, phase),
         UNCHANGED <<kernel, nc, ht, g_ns, slot, call, due>>
  PROVE  IInv'
<1> USE DEF IInv
<1> DEFINE n == Len(frames)
           f == [busy |-> busy, ie |-> Overflow, phase |-> phase, it |-> NULL,
                 owed |-> {}, called |-> {}]
<1>1. frames \in Seq(Frame) /\ n \in Nat /\ DOMAIN frames = 1 .. n /\ call = Idle
  BY DEF TypeOK, Running
<1>2. f \in Frame
  BY InotifyAssumption DEF Frame, Overflow, Event
<1>3. FrameIs(f, g_ns, slot)
  BY <1>2 DEF FrameIs
<1> HIDE DEF f
<1>4. /\ frames' \in Seq(Frame) /\ Len(frames') = n + 1 /\ DOMAIN frames' = 1 .. n + 1
      /\ frames'[n + 1] = f /\ \A k \in 1 .. n : frames'[k] = frames[k]
  <2>1. frames' = Append(frames, f)
    BY DEF Push, f
  <2> QED  BY <1>1, <1>2, <2>1
<1>5. \A k \in 1 .. n + 1 : k \in 1 .. n \/ k = n + 1
  BY <1>1
<1>6. TypeOK'
  BY <1>1, <1>4, ReentrantAssumption DEF TypeOK, InotifyTypeOK, kernel, Listed
<1>7. FramesOK'
  BY <1>1, <1>3, <1>4, <1>5 DEF FramesOK
<1>8. CallOK'
  BY <1>1 DEF CallOK, Listed
<1>9. DueOK'
  BY <1>1, <1>4, <1>5 DEF DueOK, DueIsReachable, Listed, kernel, InQueue
<1> QED  BY <1>6, <1>7, <1>8, <1>9

-----------------------------------------------------------------------------
(* Dispatch.                                                               *)

LEMMA PollReturnsStep ==
  ASSUME IInv, poll_returns
  PROVE  IInv'
<1> USE DEF IInv
<1> DEFINE f == [Last(frames) EXCEPT !.phase = "read"]
<1>1. /\ In("poll") /\ frames # << >> /\ call = Idle /\ Becomes(f)
      /\ UNCHANGED <<kernel, nc, ht, g_ns, slot, call, due>>
  BY NoCall DEF poll_returns, In
<1>2. FrameIs(Last(frames), g_ns, slot) /\ Last(frames) = frames[Len(frames)]
      /\ Last(frames).phase = "poll"
  BY <1>1, TopFacts DEF In
<1>3. /\ FrameIs(f, g_ns, slot) /\ f.owed = Last(frames).owed
  BY <1>2 DEF FrameIs, Frame, Ahead
<1> HIDE DEF f
<1>4. InotifyTypeOK'
  BY <1>1 DEF TypeOK, InotifyTypeOK, kernel
<1>5. /\ TypeOK' /\ FramesOK' /\ CallOK' /\ DOMAIN frames' = DOMAIN frames
      /\ \A k \in DOMAIN frames : frames'[k] = IF k = Len(frames) THEN f ELSE frames[k]
  BY <1>1, <1>3, <1>4, TopStep
<1>6. DueOK'
  BY <1>1, <1>2, <1>3, <1>5 DEF DueOK, DueIsReachable, Listed, kernel, InQueue
<1> QED  BY <1>5, <1>6

\* An event that leaves the queue is owed to every slot it is due to.
LEMMA ReadEventStep ==
  ASSUME IInv, read_event
  PROVE  IInv'
<1> USE DEF IInv
<1> DEFINE ie == Head(queue)
           S == IF ie.mask \in SubMask THEN SlotsOf(ie.wd) ELSE {}
           f == [Last(frames) EXCEPT !.ie = ie, !.phase = "walk", !.it = FirstSlot,
                                     !.called = {}, !.owed = S]
<1>1. /\ In("read") /\ frames # << >> /\ call = Idle /\ Becomes(f)
      /\ queue # << >> /\ queue' = Tail(queue)
      /\ UNCHANGED <<watch, lastwd, nc, ht, g_ns, slot, call, due>>
  BY NoCall DEF read_event, In, WalkFrom
<1>2. /\ FrameIs(Last(frames), g_ns, slot) /\ Last(frames) = frames[Len(frames)]
      /\ Last(frames).phase = "read" /\ Last(frames) \in Frame
  BY <1>1, TopFacts DEF In, FrameIs
<1>3. queue \in Seq(Event) /\ ie \in Event /\ Tail(queue) \in Seq(Event)
      /\ \A e : InQueue(queue, e) => e = ie \/ InQueue(Tail(queue), e)
  BY <1>1, TailFacts DEF TypeOK, InotifyTypeOK
<1>4. S \subseteq Listed /\ \A d \in S : slot[d].wd = ie.wd /\ ie.mask \in SubMask
  BY DEF SlotsOf
<1>5. f.owed = S
  BY <1>2 DEF Frame
<1> HIDE DEF ie, S
<1>6. FrameIs(f, g_ns, slot)
  BY <1>2, <1>3, <1>4, FrameRead, ListTyped DEF FirstSlot, Listed
<1> HIDE DEF f
<1>7. InotifyTypeOK'
  BY <1>1, <1>3 DEF TypeOK, InotifyTypeOK
<1>8. /\ TypeOK' /\ FramesOK' /\ CallOK' /\ DOMAIN frames' = DOMAIN frames
      /\ \A k \in DOMAIN frames : frames'[k] = IF k = Len(frames) THEN f ELSE frames[k]
  BY <1>1, <1>6, <1>7, TopStep
<1>9. Last(frames).owed = {}
  <2>1. \A c : ~Precedes(g_ns, NULL, c)
    BY ListTyped, OrderFacts DEF Listed
  <2> QED  BY <1>2, <2>1 DEF FrameIs, Ahead
<1>10. ASSUME NEW c \in due
       PROVE  \/ InQueue(queue', Closed(slot[c].wd))
              \/ \E k \in DOMAIN frames' : c \in frames'[k].owed
  <2>1. CASE Closed(slot[c].wd) = ie
    <3>1. ie.mask \in SubMask /\ ie.wd = slot[c].wd
      BY <2>1 DEF Closed, SubMask
    <3>2. c \in S
      BY <1>10, <3>1 DEF S, SlotsOf, DueOK
    <3> QED  BY <1>1, <1>5, <1>8, <3>2, TopFacts
  <2>2. CASE Closed(slot[c].wd) # ie /\ InQueue(queue, Closed(slot[c].wd))
    BY <1>1, <1>3, <2>2
  <2>3. CASE \E k \in DOMAIN frames : c \in frames[k].owed
    BY <1>2, <1>8, <1>9, <2>3
  <2> QED  BY <1>10, <2>1, <2>2, <2>3 DEF DueOK, DueIsReachable
<1>11. DueOK'
  BY <1>1, <1>10 DEF DueOK, DueIsReachable, Listed
<1> QED  BY <1>8, <1>11

\* it = g_list_next(it) at the cursor of the innermost frame.
LEMMA AdvanceStep ==
  ASSUME IInv, frames # << >>, call = Idle, Last(frames).phase \in {"walk", "called"},
         Last(frames).it # NULL, Last(frames).it \notin Last(frames).owed,
         NEW c \in NextOf(Last(frames).it),
         Becomes([Last(frames) EXCEPT !.phase = "walk", !.it = c]),
         UNCHANGED <<kernel, nc, ht, g_ns, slot, call, due>>
  PROVE  IInv'
<1> USE DEF IInv
<1> DEFINE f == [Last(frames) EXCEPT !.phase = "walk", !.it = c]
           x == Last(frames).it
<1>1. FrameIs(Last(frames), g_ns, slot) /\ Last(frames) = frames[Len(frames)]
      /\ Last(frames) \in Frame
  BY TopFacts DEF FrameIs
<1>2. x \in Listed
  BY <1>1 DEF FrameIs, Listed
<1>3. c = After(x)
  BY <1>2 DEF NextOf
<1>4. FrameIs(f, g_ns, slot) /\ f.owed = Last(frames).owed
  <2>1. FrameIs(f, g_ns, slot)
    BY <1>1, <1>2, <1>3, PositionFacts, ListTyped, FrameAdvance
  <2> QED  BY <1>1, <2>1 DEF Frame
<1> HIDE DEF f
<1>5. InotifyTypeOK'
  BY DEF TypeOK, InotifyTypeOK, kernel
<1>6. /\ TypeOK' /\ FramesOK' /\ CallOK' /\ DOMAIN frames' = DOMAIN frames
      /\ \A k \in DOMAIN frames : frames'[k] = IF k = Len(frames) THEN f ELSE frames[k]
  <2>1. Becomes(f)
    BY DEF f
  <2> QED  BY <1>4, <1>5, <2>1, TopStep
<1>7. DueOK'
  BY <1>1, <1>4, <1>6 DEF DueOK, DueIsReachable, Listed, kernel, InQueue
<1> QED  BY <1>6, <1>7

LEMMA WalkStep ==
  ASSUME IInv, walk
  PROVE  IInv'
<1> USE DEF IInv
<1> DEFINE top == Last(frames)
<1>1. /\ In("walk") /\ frames # << >> /\ call = Idle
      /\ UNCHANGED <<kernel, nc, ht, g_ns, slot, call>>
  BY NoCall DEF walk, In
<1>2. FrameIs(top, g_ns, slot) /\ top = frames[Len(frames)] /\ top.phase = "walk" /\ top \in Frame
  BY <1>1, TopFacts DEF In, FrameIs
<1>3. InotifyTypeOK'
  BY <1>1 DEF TypeOK, InotifyTypeOK, kernel
<1>4. CASE top.it = NULL /\ Becomes([top EXCEPT !.phase = "read"]) /\ UNCHANGED due
  <2> DEFINE f == [top EXCEPT !.phase = "read"]
  <2>1. top.owed = {}
    <3>1. \A c : ~Precedes(g_ns, NULL, c)
      BY ListTyped, OrderFacts DEF Listed
    <3> QED  BY <1>2, <1>4, <3>1, ListTyped DEF FrameIs, Ahead, Listed
  <2>2. FrameIs(f, g_ns, slot) /\ f.owed = {}
    BY <1>2, <1>4, <2>1 DEF FrameIs, Frame, Ahead
  <2> HIDE DEF f
  <2>3. /\ TypeOK' /\ FramesOK' /\ CallOK' /\ DOMAIN frames' = DOMAIN frames
        /\ \A k \in DOMAIN frames : frames'[k] = IF k = Len(frames) THEN f ELSE frames[k]
    <3>1. Becomes(f)
      BY <1>4 DEF f
    <3> QED  BY <1>1, <1>3, <1>4, <2>2, <3>1, TopStep
  <2>4. DueOK'
    BY <1>1, <1>2, <1>4, <2>1, <2>2, <2>3 DEF DueOK, DueIsReachable, Listed, kernel, InQueue
  <2> QED  BY <2>3, <2>4
<1>5. CASE /\ top.it # NULL
           /\ slot[top.it].wd = top.ie.wd /\ top.ie.mask \in SubMask
           /\ Becomes([top EXCEPT !.phase = "called", !.owed = @ \ {top.it},
                                  !.called = @ \cup {top.it}])
           /\ due' = due \ {top.it}
  <2> DEFINE f == [top EXCEPT !.phase = "called", !.owed = @ \ {top.it},
                              !.called = @ \cup {top.it}]
  <2>1. FrameIs(f, g_ns, slot)
    BY <1>2, <1>5, FrameCall, ListTyped DEF Listed
  <2>2. f.owed = top.owed \ {top.it}
    BY <1>2 DEF Frame
  <2> HIDE DEF f
  <2>3. /\ TypeOK' /\ FramesOK' /\ CallOK' /\ DOMAIN frames' = DOMAIN frames
        /\ \A k \in DOMAIN frames : frames'[k] = IF k = Len(frames) THEN f ELSE frames[k]
    <3>1. Becomes(f) /\ due' \subseteq due
      BY <1>5 DEF f
    <3> QED  BY <1>1, <1>3, <2>1, <3>1, TopStep
  <2>4. DueOK'
    BY <1>1, <1>2, <1>5, <2>2, <2>3 DEF DueOK, DueIsReachable, Listed, kernel, InQueue
  <2> QED  BY <2>3, <2>4
<1>6. ASSUME top.it # NULL, ~(slot[top.it].wd = top.ie.wd /\ top.ie.mask \in SubMask),
             NEW c \in NextOf(top.it), Becomes([top EXCEPT !.it = c]), UNCHANGED due
      PROVE  IInv'
  <2>1. top.it \notin top.owed
    BY <1>2, <1>6 DEF FrameIs
  <2>2. [top EXCEPT !.it = c] = [top EXCEPT !.phase = "walk", !.it = c]
    BY <1>2 DEF Frame
  <2> QED  BY <1>1, <1>2, <1>6, <2>1, <2>2, AdvanceStep
<1> QED  BY <1>4, <1>5, <1>6 DEF walk

LEMMA CallbackReturnsStep ==
  ASSUME IInv, callback_returns
  PROVE  IInv'
<1> USE DEF IInv
<1>1. /\ frames # << >> /\ call = Idle /\ Last(frames).phase = "called"
      /\ \E c \in NextOf(Last(frames).it) :
           Becomes([Last(frames) EXCEPT !.phase = "walk", !.it = c])
      /\ UNCHANGED <<kernel, nc, ht, g_ns, slot, call, due>>
  BY DEF callback_returns, In
<1>2. FrameIs(Last(frames), g_ns, slot)
  BY <1>1, TopFacts
<1>3. Last(frames).it # NULL /\ Last(frames).it \notin Last(frames).owed
  BY <1>1, <1>2, OrderFacts, ListTyped DEF FrameIs, Ahead, Listed
<1> QED  BY <1>1, <1>3, AdvanceStep

-----------------------------------------------------------------------------
(* Calls of the application.                                               *)

LEMMA IdleTyped == Idle \in Call /\ Idle.it = NULL
<1>1. 0 \in 0 .. MaxWd /\ FALSE \in BOOLEAN /\ NULL \in Key \cup {NULL}
  BY InotifyAssumption
<1> QED  BY <1>1 DEF Idle, Call

\* Steps that change neither the list nor a frame and lose no event.
LEMMA QuietStep ==
  ASSUME IInv, InotifyTypeOK', nc' \in BOOLEAN, ht' \in {"H_NONE", "H_GLIB"}, nc => nc',
         UNCHANGED <<g_ns, slot, frames>>, call' = call \/ call' = Idle,
         due' \subseteq due, \A e : InQueue(queue, e) => InQueue(queue', e)
  PROVE  IInv'
<1> USE DEF IInv
<1>1. call' \in Call
  BY IdleTyped DEF TypeOK
<1>2. TypeOK'
  BY <1>1 DEF TypeOK, Listed
<1>3. FramesOK'
  BY DEF FramesOK
<1>4. CallOK'
  BY DEF CallOK, Idle, Listed, Selected, SlotsOf, In
<1>5. DueOK'
  BY DEF DueOK, DueIsReachable, Listed
<1> QED  BY <1>2, <1>3, <1>4, <1>5

\* The container comes and goes without frames and without slots.
LEMMA LifeStep ==
  ASSUME Careful, IInv, heynoti_init \/ heynoti_close
  PROVE  IInv'
<1> USE DEF IInv
<1>1. /\ InotifyTypeOK' /\ frames = << >> /\ frames' = << >> /\ call = Idle
      /\ nc' \in BOOLEAN /\ ht' \in {"H_NONE", "H_GLIB"}
      /\ g_ns' = << >> /\ due' = {} /\ UNCHANGED <<slot, call>>
  <2>1. CASE heynoti_init
    <3>1. ~nc /\ g_ns = << >> /\ Listed = {}
      BY <2>1 DEF heynoti_init, DueOK, Listed, ToSet
    <3> QED  BY <2>1, <3>1, FreshFacts DEF heynoti_init, Running, TypeOK, DueOK
  <2>2. CASE heynoti_close
    <3>1. frames = << >> /\ DOMAIN frames = {}
      BY <2>2 DEF heynoti_close
    <3>2. frames' = << >>
      <4>1. frames' = [k \in {} |-> [frames[k] EXCEPT !.owed = {}, !.called = {}]]
        BY <2>2, <3>1 DEF heynoti_close
      <4> QED  BY <4>1
    <3> QED  BY <2>2, <3>1, <3>2, FreshFacts DEF heynoti_close, Running
  <2> QED  BY <2>1, <2>2
<1>2. /\ g_ns' \in Seq(Cell) /\ DOMAIN g_ns' = {} /\ Listed' = {}
      /\ frames' \in Seq(Frame) /\ Len(frames') = 0 /\ DOMAIN frames' = {}
  BY <1>1 DEF Listed, ToSet
<1>3. TypeOK'
  BY <1>1, <1>2, ReentrantAssumption DEF TypeOK
<1>4. FramesOK' /\ DueOK'
  BY <1>1, <1>2 DEF FramesOK, DueOK, DueIsReachable
<1>5. CallOK'
  BY <1>1 DEF CallOK, Idle
<1> QED  BY <1>3, <1>4, <1>5

LEMMA AttachStep ==
  ASSUME IInv, heynoti_attach_handler
  PROVE  IInv'
<1>1. InotifyTypeOK'
  BY DEF IInv, TypeOK, InotifyTypeOK, kernel, heynoti_attach_handler
<1> QED
  BY <1>1, QuietStep DEF IInv, TypeOK, kernel, heynoti_attach_handler

\* The detach tells every frame that its source, if it has one, is gone, and
\* leaves the rest of the frame alone.
SameButBusy(f, h) ==
  /\ f.ie = h.ie /\ f.phase = h.phase /\ f.it = h.it /\ f.owed = h.owed /\ f.called = h.called

LEMMA DetachFacts ==
  ASSUME IInv, heynoti_detach_handler
  PROVE  /\ frames' \in Seq(Frame) /\ Len(frames') = Len(frames)
         /\ DOMAIN frames' = DOMAIN frames
         /\ \A k \in DOMAIN frames : SameButBusy(frames'[k], frames[k])
         /\ In("called") => In("called")'
         /\ In("called")' => In("called")
         /\ frames = << >> => frames' = << >>
<1> DEFINE n == Len(frames)
<1>1. frames \in Seq(Frame) /\ n \in Nat /\ DOMAIN frames = 1 .. n
  BY DEF IInv, TypeOK
<1>2. \A k \in 1 .. n : frames[k] \in Frame
  BY <1>1
<1>3. \A k \in 1 .. n : Detached(frames[k]) \in Frame /\ SameButBusy(Detached(frames[k]), frames[k])
  BY <1>2 DEF Detached, Frame, SameButBusy
<1>4. frames' = [k \in 1 .. n |-> Detached(frames[k])]
  BY <1>1 DEF heynoti_detach_handler
<1>5. frames' \in [1 .. n -> Frame]
  BY <1>3, <1>4
<1>6. frames' \in Seq(Frame) /\ Len(frames') = n /\ DOMAIN frames' = 1 .. n
  BY <1>1, <1>5
<1>7. \A k \in 1 .. n : SameButBusy(frames'[k], frames[k])
  BY <1>3, <1>4
<1>8. (frames = << >> <=> n = 0) /\ (frames' = << >> <=> n = 0)
  BY <1>1, <1>6
<1>9. n # 0 => Last(frames').phase = Last(frames).phase
  BY <1>1, <1>6, <1>7 DEF Last, SameButBusy
<1> QED
  BY <1>1, <1>6, <1>7, <1>8, <1>9 DEF In

LEMMA DetachStep ==
  ASSUME IInv, heynoti_detach_handler
  PROVE  IInv'
<1> USE DEF IInv
<1>1. UNCHANGED <<watch, lastwd, queue, nc, g_ns, slot, call, due>> /\ ht' = "H_NONE"
  BY DEF heynoti_detach_handler, kernel
<1>2. TypeOK'
  BY <1>1, DetachFacts DEF TypeOK, InotifyTypeOK, Listed
<1>3. ASSUME NEW k \in DOMAIN frames
      PROVE  FrameIs(frames'[k], g_ns, slot)
  <2>1. /\ SameButBusy(frames'[k], frames[k]) /\ FrameIs(frames[k], g_ns, slot)
        /\ frames'[k] \in Frame
    BY <1>3, DetachFacts DEF FramesOK
  <2> QED  BY <2>1 DEF FrameIs, Ahead, SameButBusy
<1>4. FramesOK'
  BY <1>1, <1>3, DetachFacts DEF FramesOK
<1>5. CallOK'
  BY <1>1, DetachFacts DEF CallOK, Listed, Selected, SlotsOf, SameButBusy
<1>6. DueOK'
  BY <1>1, DetachFacts DEF DueOK, DueIsReachable, Listed, InQueue, SameButBusy
<1> QED  BY <1>2, <1>4, <1>5, <1>6

\* The masks that the library passes are sets of bits.
LEMMA MaskFacts ==
  \A S : \A m \in SUBSET Bit : MaskAll(S, m) \in SUBSET Bit
BY DEF MaskAll, SubMask, Bit

\* A slot that is appended is behind every cursor's successor: no walk loses
\* its place.
LEMMA SubscribeStep ==
  ASSUME IInv, NEW key \in Key, NEW cb \in Callback, heynoti_subscribe(key, cb)
  PROVE  IInv'
<1> USE DEF IInv
<1>1. /\ InotifyTypeOK' /\ queue' = queue /\ WdFor(key) \in 1 .. MaxWd
      /\ UNCHANGED <<nc, ht, frames, call, due>> /\ nc /\ call = Idle
  <2>1. \E m \in SUBSET Bit : add_watch(key, m)
    <3>1. SubMask \in SUBSET Bit /\ {} \in SUBSET Bit
      BY DEF SubMask, Bit
    <3> QED  BY <3>1, MaskFacts DEF heynoti_subscribe
  <2> QED  BY <2>1, PlaceWatchFacts DEF heynoti_subscribe, Running, TypeOK, Key
<1>2. CASE UNCHANGED <<g_ns, slot>>
  BY <1>1, <1>2, QuietStep DEF TypeOK
<1>3. CASE \E c \in FreeCell : /\ g_ns' = Append(g_ns, c)
                               /\ slot' = [slot EXCEPT ![c] = NewSlot(WdFor(key), cb)]
  <2>1. PICK c \in FreeCell : /\ g_ns' = Append(g_ns, c)
                              /\ slot' = [slot EXCEPT ![c] = NewSlot(WdFor(key), cb)]
    BY <1>3
  <2>2. c \in Cell /\ c \notin ToSet(g_ns) /\ g_ns \in Seq(Cell) /\ Distinct(g_ns)
    BY ListTyped DEF FreeCell, Listed
  <2>3. /\ g_ns' \in Seq(Cell) /\ Distinct(g_ns') /\ Listed' = Listed \cup {c}
    BY <2>1, <2>2, AppendFacts DEF Listed
  <2>4. /\ slot' \in [Cell -> Slot] /\ slot'[c].wd = WdFor(key) /\ slot'[c].cb = cb
        /\ \A d \in Cell \ {c} : slot'[d] = slot[d]
    BY <1>1, <2>1, <2>2 DEF TypeOK, Slot, NewSlot
  <2>5. \A d \in Listed : slot'[d] = slot[d] /\ d # c /\ d \in Cell
    BY <2>2, <2>4, ListTyped DEF Listed
  <2>6. TypeOK'
    <3>1. \A d \in Listed' : slot'[d].wd > 0 /\ slot'[d].cb # NULL
      BY <1>1, <2>3, <2>4, <2>5, ReentrantAssumption DEF TypeOK
    <3>2. due' \subseteq Cell /\ frames' \in Seq(Frame) /\ Len(frames') <= MaxDepth
      BY <1>1 DEF TypeOK
    <3> QED  BY <1>1, <2>3, <2>4, <3>1, <3>2 DEF TypeOK, Distinct
  <2>7. FramesOK'
    BY <1>1, <2>1, <2>2, <2>5, FrameAppend DEF FramesOK, Listed
  <2>8. CallOK'
    BY <1>1, <2>3 DEF CallOK
  <2>9. DueOK'
    BY <1>1, <2>3, <2>5 DEF DueOK, DueIsReachable
  <2> QED  BY <2>6, <2>7, <2>8, <2>9
<1> QED  BY <1>2, <1>3 DEF heynoti_subscribe

LEMMA UnsubscribeStep ==
  ASSUME Careful, IInv, NEW key \in Key, NEW cb \in Callback \cup {NULL},
         heynoti_unsubscribe(key, cb)
  PROVE  IInv'
<1> USE DEF IInv
<1>1. /\ InotifyTypeOK' /\ queue' = queue /\ WdFor(key) \in 1 .. MaxWd
      /\ UNCHANGED <<nc, ht, g_ns, slot, frames, due>>
  BY PlaceWatchFacts DEF heynoti_unsubscribe, Bit, TypeOK, Key
<1>2. FirstSlot \in Listed \cup {NULL} /\ Listed \subseteq Cell
  <2>1. g_ns # << >> => 1 \in DOMAIN g_ns /\ Head(g_ns) = g_ns[1]
    BY ListTyped
  <2> QED  BY <2>1, ListTyped DEF FirstSlot, Listed, ToSet
<1>3. /\ call' \in Call /\ call'.op = "unsubscribe" /\ call'.key = key /\ call'.cb = cb
      /\ call'.wd = WdFor(key) /\ call'.it = FirstSlot
  BY <1>1, <1>2 DEF heynoti_unsubscribe, Call
<1>4. TypeOK'
  BY <1>1, <1>3 DEF TypeOK, Listed
<1>5. FramesOK'
  BY <1>1 DEF FramesOK
<1>6. CallOK'
  <2>1. frames = << >> \/ In("called")
    BY DEF heynoti_unsubscribe, Running
  <2>2. \A k \in DOMAIN frames : frames[k].it \notin Selected(WdFor(key), cb)
    BY DEF heynoti_unsubscribe, Cursors
  <2> QED  BY <1>1, <1>2, <1>3, <2>1, <2>2 DEF CallOK, Selected, SlotsOf, Listed, In
<1>7. DueOK'
  BY <1>1 DEF DueOK, DueIsReachable, Listed
<1> QED  BY <1>4, <1>5, <1>6, <1>7

\* The loop of _del_noti frees no slot that a walk stands on, and its own
\* cursor moves on before it frees the slot under it.
LEMMA DelTurnStep ==
  ASSUME IInv, del_turn
  PROVE  IInv'
<1> USE DEF IInv
<1> DEFINE c == call.it
           i == Position(c)
<1>1. /\ c \in Listed /\ call # Idle /\ call.op = "unsubscribe" /\ call.key \in Key
      /\ call \in Call /\ UNCHANGED <<kernel, nc, ht, slot>>
  <2>1. call.op = "unsubscribe" /\ c # NULL /\ UNCHANGED <<kernel, nc, ht, slot>>
    BY DEF del_turn
  <2>2. call # Idle
    BY <2>1 DEF Idle
  <2> QED  BY <2>1, <2>2 DEF CallOK, TypeOK
<1>2. /\ i \in DOMAIN g_ns /\ g_ns[i] = c /\ After(c) \in Listed \cup {NULL} /\ After(c) # c
  BY <1>1, PositionFacts
<1>3. InotifyTypeOK' /\ queue' = queue
  BY <1>1 DEF TypeOK, InotifyTypeOK, kernel
<1>4. Listed \subseteq Cell /\ g_ns \in Seq(Cell) /\ Distinct(g_ns)
  BY ListTyped
<1>5. CASE c \in Selected(call.wd, call.cb)
  <2>1. /\ g_ns' = RemoveAt(g_ns, i) /\ due' = due \ {c}
        /\ frames' = [k \in DOMAIN frames |-> Without(frames[k], c)]
        /\ call' = [call EXCEPT !.it = After(c)]
    BY <1>5 DEF del_turn, it_next, Without
  <2>2. /\ g_ns' \in Seq(Cell) /\ Distinct(g_ns') /\ Listed' = Listed \ {c}
    BY <1>2, <1>4, <2>1, RemoveAtFacts DEF Listed
  <2>3. \A k \in DOMAIN frames : frames[k].it # c
    BY <1>1, <1>5 DEF CallOK
  <2>4. \A k \in DOMAIN frames : FrameIs(Without(frames[k], c), g_ns', slot)
    BY <1>2, <1>4, <2>1, <2>3, FrameRemove DEF FramesOK
  <2>5. /\ DOMAIN frames' = DOMAIN frames /\ frames \in Seq(Frame)
        /\ \A k \in DOMAIN frames : frames'[k] = Without(frames[k], c) /\ frames'[k] \in Frame
    BY <2>1, <2>4 DEF FrameIs, TypeOK
  <2>6. frames' \in Seq(Frame) /\ Len(frames') = Len(frames)
    <3>1. Len(frames) \in Nat /\ DOMAIN frames = 1 .. Len(frames)
      BY <2>5
    <3>2. frames' = [k \in 1 .. Len(frames) |-> Without(frames[k], c)]
      BY <2>1, <3>1
    <3> HIDE DEF c
    <3>3. \A k \in 1 .. Len(frames) : Without(frames[k], c) \in Frame
      BY <2>5, <3>1
    <3> QED  BY <3>1, <3>2, <3>3, IsASeq
  <2>7. /\ call' \in Call /\ call'.op = call.op /\ call'.key = call.key /\ call'.wd = call.wd
        /\ call'.cb = call.cb /\ call'.it = After(c)
    BY <1>1, <1>2, <1>4, <2>1 DEF Call
  <2>8. TypeOK'
    <3>1. \A d \in Listed' : slot'[d].wd > 0 /\ slot'[d].cb # NULL
      BY <1>1, <2>2 DEF TypeOK
    <3>2. due' \subseteq Cell
      BY <2>1 DEF TypeOK
    <3> QED  BY <1>1, <1>3, <2>2, <2>6, <2>7, <3>1, <3>2 DEF TypeOK, Distinct
  <2>9. FramesOK'
    BY <1>1, <2>4, <2>5 DEF FramesOK
  <2>10. CallOK'
    <3>1. call'.it \in Listed' \cup {NULL}
      BY <1>2, <2>2, <2>7
    <3>2. frames = << >> => frames' = << >>
      BY <2>5, <2>6
    <3>3. In("called") => In("called")'
      <4> SUFFICES ASSUME In("called")  PROVE In("called")'
        OBVIOUS
      <4>1. /\ frames # << >> /\ Last(frames) = frames[Len(frames)] /\ Len(frames) \in DOMAIN frames
            /\ Last(frames).phase = "called" /\ Last(frames) \in Frame
        BY TopFacts DEF In, FrameIs
      <4>2. frames' # << >> /\ Last(frames') = Without(Last(frames), c)
        BY <2>5, <2>6, <4>1 DEF Last
      <4>3. Without(Last(frames), c).phase = "called"
        BY <4>1 DEF Without, Frame
      <4> QED  BY <4>2, <4>3 DEF In
    <3>4. ASSUME NEW k \in DOMAIN frames  PROVE frames'[k].it = frames[k].it
      <4>1. frames[k] \in Frame
        BY DEF FramesOK, FrameIs
      <4>2. Without(frames[k], c).it = frames[k].it
        BY <4>1 DEF Without, Frame
      <4> QED  BY <2>5, <4>2
    <3>5. Selected(call.wd, call.cb)' \subseteq Selected(call.wd, call.cb)
      BY <1>1, <2>2, <2>7 DEF Selected, SlotsOf
    <3> QED  BY <1>1, <2>5, <2>7, <3>1, <3>2, <3>3, <3>4, <3>5 DEF CallOK
  <2>11. DueOK'
    <3>1. \A k \in DOMAIN frames : frames'[k].owed = frames[k].owed \ {c}
      <4>1. \A k \in DOMAIN frames : frames[k] \in Frame
        BY DEF FramesOK, FrameIs
      <4> HIDE DEF c
      <4>2. \A f \in Frame : Without(f, c).owed = f.owed \ {c}
        BY DEF Without, Frame
      <4> QED  BY <2>5, <4>1, <4>2
    <3>2. nc
      BY <1>1, <1>2, ListTyped DEF DueOK
    <3> QED  BY <1>1, <1>3, <2>1, <2>2, <2>5, <3>1, <3>2 DEF DueOK, DueIsReachable
  <2> QED  BY <2>8, <2>9, <2>10, <2>11
<1>6. CASE c \notin Selected(call.wd, call.cb)
  <2>1. /\ UNCHANGED <<g_ns, frames, due>>
        /\ call' = [call EXCEPT !.it = After(c), !.remain = @ \/ slot[c].wd = call.wd]
    BY <1>6 DEF del_turn
  <2>2. /\ call' \in Call /\ call'.op = call.op /\ call'.key = call.key /\ call'.wd = call.wd
        /\ call'.cb = call.cb /\ call'.it = After(c)
    <3>1. (call.remain \/ slot[c].wd = call.wd) \in BOOLEAN
      OBVIOUS
    <3> QED  BY <1>1, <1>2, <1>4, <2>1, <3>1 DEF Call
  <2>3. TypeOK'
    BY <1>1, <1>3, <2>1, <2>2 DEF TypeOK, Listed
  <2>4. FramesOK' /\ DueOK'
    BY <1>1, <1>3, <2>1 DEF FramesOK, DueOK, DueIsReachable, Listed
  <2>5. CallOK'
    BY <1>1, <1>2, <2>1, <2>2 DEF CallOK, Listed, Selected, SlotsOf, In
  <2> QED  BY <2>3, <2>4, <2>5
<1> QED  BY <1>5, <1>6

LEMMA DelEndStep ==
  ASSUME IInv, del_end
  PROVE  IInv'
<1> USE DEF IInv
<1>1. /\ call.op = "unsubscribe" /\ call.key \in Key /\ call' = Idle
      /\ UNCHANGED <<nc, ht, g_ns, slot, frames, due>>
  BY DEF del_end, CallOK, Idle
<1>2. InotifyTypeOK' /\ \A e : InQueue(queue, e) => InQueue(queue', e)
  <2>1. CASE add_watch(call.key, MaskAll(SlotsOf(call.wd), {}))
    <3>1. MaskAll(SlotsOf(call.wd), {}) \in SUBSET Bit
      BY MaskFacts
    <3> QED  BY <1>1, <2>1, <3>1, PlaceWatchFacts DEF TypeOK, Key
  <2>2. CASE drop_watch(call.key, queue)
    BY <1>1, <2>2, DropWatchFacts DEF TypeOK, Key, InotifyTypeOK
  <2> QED  BY <2>1, <2>2 DEF del_end
<1> QED  BY <1>1, <1>2, QuietStep DEF TypeOK

LEMMA PublishStep ==
  ASSUME IInv, NEW key \in Key, heynoti_publish(key)
  PROVE  IInv'
<1> USE DEF IInv
<1>1. /\ queue' = QueueAfterClose(key) /\ queue' \in Seq(Event)
      /\ UNCHANGED <<watch, lastwd, nc, ht, g_ns, slot, frames, call>>
      /\ \A e : InQueue(queue, e) => InQueue(queue', e)
  BY CloseFacts DEF heynoti_publish, TypeOK, Key
<1>2. InotifyTypeOK'
  BY <1>1 DEF TypeOK, InotifyTypeOK
<1>3. CASE due' = due
  BY <1>1, <1>2, <1>3, QuietStep DEF TypeOK
<1>4. CASE due' # due
  <2>1. /\ due' = due \cup SlotsOf(watch[key].wd)
        /\ InQueue(queue', Closed(watch[key].wd))
    BY <1>1, <1>4, CloseFacts DEF heynoti_publish, TypeOK, Key
  <2>2. TypeOK' /\ FramesOK' /\ CallOK'
    <3>1. due' \subseteq Cell
      BY <2>1, ListTyped DEF SlotsOf, TypeOK
    <3> QED
      BY <1>1, <1>2, <3>1 DEF TypeOK, FramesOK, CallOK, Listed, Selected, SlotsOf, In
  <2>3. DueOK'
    BY <1>1, <2>1 DEF DueOK, DueIsReachable, SlotsOf, Listed
  <2> QED  BY <2>2, <2>3
<1> QED  BY <1>3, <1>4

-----------------------------------------------------------------------------
(* The theorems.                                                           *)

LEMMA InitInv == Init => IInv
<1> SUFFICES ASSUME Init  PROVE IInv
  OBVIOUS
<1>1. InotifyTypeOK
  BY InotifyInitFacts DEF Init
<1>2. /\ g_ns \in Seq(Cell) /\ DOMAIN g_ns = {} /\ Listed = {}
      /\ frames \in Seq(Frame) /\ Len(frames) = 0 /\ DOMAIN frames = {}
  BY DEF Init, Listed, ToSet
<1>3. slot \in [Cell -> Slot]
  BY InotifyAssumption DEF Init, Slot
<1>4. TypeOK
  <2>1. Len(frames) <= MaxDepth
    BY <1>2, ReentrantAssumption
  <2>2. nc \in BOOLEAN /\ ht \in {"H_NONE", "H_GLIB"} /\ call \in Call /\ due \subseteq Cell
    BY IdleTyped DEF Init
  <2>3. \A j, k \in DOMAIN g_ns : g_ns[j] = g_ns[k] => j = k
    BY <1>2
  <2> QED  BY <1>1, <1>2, <1>3, <2>1, <2>2, <2>3 DEF TypeOK
<1>5. FramesOK /\ DueOK
  BY <1>2 DEF Init, FramesOK, DueOK, DueIsReachable
<1>6. CallOK
  BY IdleTyped DEF Init, CallOK
<1> QED  BY <1>4, <1>5, <1>6 DEF IInv

LEMMA StutterInv ==
  ASSUME IInv, UNCHANGED vars
  PROVE  IInv'
<1>1. InotifyTypeOK'
  BY DEF IInv, TypeOK, InotifyTypeOK, vars, kernel
<1> QED  BY <1>1, QuietStep DEF IInv, TypeOK, vars, kernel

LEMMA StepInv ==
  ASSUME Careful, IInv, [Next]_vars
  PROVE  IInv'
<1>1. CASE Application
  <2>1. CASE heynoti_poll_event
    BY <2>1, PushStep DEF heynoti_poll_event
  <2> QED  BY <1>1, <2>1, LifeStep, AttachStep, DetachStep, SubscribeStep, UnsubscribeStep DEF Application
<1>2. CASE Library
  <2>1. CASE gio_cb
    BY <2>1, PushStep DEF gio_cb
  <2>2. CASE poll_fails \/ read_ends
    BY <2>2, PopStep DEF poll_fails, read_ends
  <2> QED
    BY <1>2, <2>1, <2>2, DelTurnStep, DelEndStep, PollReturnsStep, ReadEventStep, WalkStep
    DEF Library
<1>3. CASE callback_returns
  BY <1>3, CallbackReturnsStep
<1>4. CASE Publish
  BY <1>4, PublishStep DEF Publish
<1>5. CASE UNCHANGED vars
  BY <1>5, StutterInv
<1> QED  BY <1>1, <1>2, <1>3, <1>4, <1>5 DEF Next

\* The invariant of every behaviour in which no callback frees a slot that a
\* walk stands on.
THEOREM Invariance == ASSUME Careful PROVE Spec => []IInv
BY InitInv, StepInv, PTL DEF Spec

\* The state of the dispatch keeps its shape: type correctness.
THEOREM TypeCorrect == ASSUME Careful PROVE Spec => []TypeOK
<1>1. IInv => TypeOK
  BY DEF IInv
<1> QED  BY <1>1, Invariance, PTL

\* Careful callbacks leave every walk on a live list node, at any nesting.
THEOREM NoWalkReadsFreedMemory == ASSUME Careful PROVE Spec => []CursorsLive
<1>1. IInv => CursorsLive
  BY DEF IInv, FramesOK, FrameIs, CallOK, CursorsLive, Listed
<1> QED  BY <1>1, Invariance, PTL

\* No walk skips a subscribed slot or calls one twice for one event, whatever
\* the callbacks add to the list and remove from it.
THEOREM WalksAreExact == ASSUME Careful PROVE Spec => []WalkIsExact
<1>1. IInv => WalkIsExact
  <2>1. \A f : Reached(f) = {c \in Listed : Ahead(f, g_ns, c)}
    BY DEF Reached, Ahead, Before, Precedes
  <2> QED  BY <2>1 DEF IInv, FramesOK, FrameIs, WalkIsExact, Listed
<1> QED  BY <1>1, Invariance, PTL

\* What inotify reported stays in the queue or in a walk until the slot it is
\* owed to is called or freed: no nested call loses it.
THEOREM NothingForgotten == ASSUME Careful PROVE Spec => []DueIsReachable
<1>1. IInv => DueIsReachable
  BY DEF IInv, DueOK
<1> QED  BY <1>1, Invariance, PTL
-----------------------------------------------------------------------------
(* The safety core of DispatchEnds: a dispatch left to itself has less to  *)
(* do after every step.                                                    *)

\* Four numbers are compared from the left.
LEMMA LessFacts ==
  ASSUME NEW a, NEW b, NEW c, NEW d, NEW p, NEW q, NEW r, NEW s,
         \/ a < p
         \/ a = p /\ b < q
         \/ a = p /\ b = q /\ c < r
         \/ a = p /\ b = q /\ c = r /\ d < s
  PROVE  Less(<<a, b, c, d>>, <<p, q, r, s>>)
<1> DEFINE l == <<a, b, c, d>>
           m == <<p, q, r, s>>
<1>1. /\ l[1] = a /\ l[2] = b /\ l[3] = c /\ l[4] = d
      /\ m[1] = p /\ m[2] = q /\ m[3] = r /\ m[4] = s
  OBVIOUS
<1> HIDE DEF l, m
<1>2. /\ 1 .. 1 - 1 = {} /\ 1 .. 2 - 1 = {1} /\ 1 .. 3 - 1 = {1, 2} /\ 1 .. 4 - 1 = {1, 2, 3}
      /\ 1 \in 1 .. 4 /\ 2 \in 1 .. 4 /\ 3 \in 1 .. 4 /\ 4 \in 1 .. 4
  OBVIOUS
<1>3. Less(l, m)
  <2>1. CASE a < p
    BY <1>1, <1>2, <2>1 DEF Less
  <2>2. CASE a = p /\ b < q
    BY <1>1, <1>2, <2>2 DEF Less
  <2>3. CASE a = p /\ b = q /\ c < r
    BY <1>1, <1>2, <2>3 DEF Less
  <2>4. CASE a = p /\ b = q /\ c = r /\ d < s
    BY <1>1, <1>2, <2>4 DEF Less
  <2> QED  BY <2>1, <2>2, <2>3, <2>4
<1> QED  BY <1>3 DEF l, m

\* The position of a node is where it is.
LEMMA PositionOf ==
  ASSUME TypeOK, NEW k \in DOMAIN g_ns
  PROVE  Position(g_ns[k]) = k
<1>1. g_ns[k] \in Listed
  BY DEF Listed, ToSet
<1> QED  BY <1>1, PositionFacts DEF TypeOK

\* Every node has fewer nodes behind it than the one before it.
LEMMA NodesFacts ==
  ASSUME TypeOK
  PROVE  /\ NodesFrom(NULL) = 0
         /\ \A c \in Listed : /\ NodesFrom(c) \in Nat
                              /\ NodesFrom(c) = Len(g_ns) - Position(c) + 1
                              /\ NodesFrom(After(c)) \in Nat
                              /\ NodesFrom(After(c)) < NodesFrom(c)
<1>1. NodesFrom(NULL) = 0
  BY DEF NodesFrom
<1>2. ASSUME NEW c \in Listed
      PROVE  /\ NodesFrom(c) \in Nat
             /\ NodesFrom(c) = Len(g_ns) - Position(c) + 1
             /\ NodesFrom(After(c)) \in Nat
             /\ NodesFrom(After(c)) < NodesFrom(c)
  <2> DEFINE p == Position(c)
             n == Len(g_ns)
  <2>1. /\ p \in 1 .. n /\ n \in Nat /\ DOMAIN g_ns = 1 .. n
        /\ After(c) = IF p = n THEN NULL ELSE g_ns[p + 1]
        /\ NULL \notin Listed
    BY PositionFacts, ListTyped
  <2>2. NodesFrom(c) = n - p + 1
    BY <2>1 DEF NodesFrom
  <2>3. CASE p = n
    BY <1>1, <2>1, <2>2, <2>3
  <2>4. CASE p # n
    <3>1. p + 1 \in DOMAIN g_ns
      BY <2>1, <2>4
    <3>2. After(c) # NULL /\ Position(After(c)) = p + 1
      BY <2>1, <2>4, <3>1, PositionOf DEF Listed, ToSet
    <3>3. NodesFrom(After(c)) = n - (p + 1) + 1
      BY <3>2 DEF NodesFrom
    <3> QED  BY <2>1, <2>2, <2>4, <3>3
  <2> QED  BY <2>3, <2>4
<1> QED  BY <1>1, <1>2

\* What the innermost frame has to do, by its phase.
LEMMA FrameLeftFacts ==
  /\ In("poll") => FrameLeft = 1
  /\ In("read") => FrameLeft = 0
  /\ In("walk") => FrameLeft = 2 * NodesFrom(Last(frames).it) + 1
  /\ In("called") => FrameLeft = 2 * NodesFrom(Last(frames).it)
BY DEF FrameLeft, In

LEMMA BecomesFacts ==
  ASSUME TypeOK, frames # << >>, NEW f \in Frame, Becomes(f)
  PROVE  frames' # << >> /\ Len(frames') = Len(frames) /\ Last(frames') = f
<1>1. frames \in Seq(Frame) /\ Len(frames) \in 1 .. Len(frames)
  BY DEF TypeOK
<1>2. /\ frames' \in Seq(Frame) /\ Len(frames') = Len(frames)
      /\ frames'[Len(frames)] = f
  BY <1>1, ExceptSeq DEF Becomes
<1> QED  BY <1>1, <1>2 DEF Last

\* _del_noti has a node less ahead of it, whether it frees the one it is at
\* or not.
LEMMA DelTurnShrinks ==
  ASSUME IInv, IInv', del_turn
  PROVE  Less(Left', Left)
<1> DEFINE c == call.it
           p == Position(c)
           n == Len(g_ns)
<1>1. /\ TypeOK /\ c \in Listed /\ call # Idle /\ call \in Call
      /\ \A j, k \in DOMAIN g_ns' : g_ns'[j] = g_ns'[k] => j = k
  <2>1. TypeOK /\ TypeOK' /\ CallOK
    BY DEF IInv
  <2>2. call.op = "unsubscribe" /\ call.it # NULL
    BY DEF del_turn
  <2>3. call # Idle /\ call.it \in Listed
    BY <2>1, <2>2 DEF CallOK, Idle
  <2> QED  BY <2>1, <2>3 DEF TypeOK
<1>2. /\ p \in 1 .. n /\ n \in Nat /\ DOMAIN g_ns = 1 .. n /\ g_ns \in Seq(Cell)
      /\ After(c) = IF p = n THEN NULL ELSE g_ns[p + 1]
  BY <1>1, PositionFacts, ListTyped
<1>3. CallLeft = 1 + NodesFrom(c) /\ NodesFrom(c) = n - p + 1
  BY <1>1, NodesFacts DEF CallLeft
<1>4. PICK d : d = After(c)
  OBVIOUS
<1>5. call' # Idle /\ call'.it = d
  <2>1. call'.op = "unsubscribe" /\ call'.it = d
    BY <1>1, <1>4 DEF del_turn, it_next, Call
  <2> QED  BY <2>1 DEF Idle
<1>6. CallLeft' = 1 + NodesFrom(d)'
  <2>1. CallLeft' = 1 + IF call'.it = NULL THEN 0 ELSE Len(g_ns') - Position(call.it)' + 1
    BY <1>5 DEF CallLeft, NodesFrom
  <2>2. Position(call.it)' = Position(d)'
    BY <1>5 DEF Position
  <2> QED  BY <1>5, <2>1, <2>2 DEF NodesFrom
<1>7. NodesFrom(d)' \in Nat /\ NodesFrom(d)' < NodesFrom(c)
  <2>1. CASE d = NULL
    <3>1. NodesFrom(d)' = 0
      BY <2>1 DEF NodesFrom
    <3> QED  BY <1>2, <1>3, <3>1
  <2>2. CASE d # NULL /\ g_ns' = g_ns
    <3>1. NodesFrom(d)' = NodesFrom(d)
      BY <2>2 DEF Position, NodesFrom
    <3> QED  BY <1>1, <1>4, <3>1, NodesFacts
  <2>3. CASE d # NULL /\ g_ns' = RemoveAt(g_ns, p)
    <3>1. p # n /\ d = g_ns[p + 1]
      BY <1>2, <1>4, <2>3
    <3>2. p \in 1 .. n - 1 /\ ~(p < p)
      BY <1>2, <3>1
    <3>3. /\ g_ns' \in Seq(Cell) /\ Len(g_ns') = n - 1 /\ g_ns'[p] = d
      BY <1>2, <2>3, <3>1, <3>2, RemoveAtPlaces
    <3>4. Position(d)' = p
      <4>1. p \in DOMAIN g_ns'
        BY <3>2, <3>3
      <4> HIDE DEF p
      <4>2. \A k \in DOMAIN g_ns' : g_ns'[k] = d => k = p
        BY <1>1, <3>3, <4>1
      <4> QED  BY <3>3, <4>1, <4>2 DEF Position
    <3>5. NodesFrom(d)' = (n - 1) - p + 1
      BY <2>3, <3>3, <3>4 DEF NodesFrom
    <3> QED  BY <1>2, <1>3, <3>2, <3>5
  <2> QED  BY <2>1, <2>2, <2>3 DEF del_turn
<1>8. CallLeft' < CallLeft
  BY <1>2, <1>3, <1>6, <1>7
<1> QED  BY <1>8, LessFacts DEF Left

\* The end of _del_noti, and what ends a frame or reads an event.
LEMMA EndShrinks ==
  ASSUME IInv, del_end \/ read_event \/ read_ends \/ poll_fails
  PROVE  Less(Left', Left)
<1>1. TypeOK
  BY DEF IInv
<1>2. CASE del_end
  <2>1. /\ call # Idle /\ call.it = NULL /\ call' = Idle
    BY <1>2 DEF del_end, Idle
  <2>2. CallLeft = 1 /\ CallLeft' = 0
    BY <1>1, <2>1, NodesFacts DEF CallLeft
  <2>3. CallLeft' < CallLeft
    BY <2>2
  <2> QED  BY <2>3, LessFacts DEF Left
<1>3. CASE read_event
  <2>1. call = Idle /\ call' = call /\ queue # << >> /\ queue' = Tail(queue)
    BY <1>3, NoCall DEF read_event, IInv
  <2>2. CallLeft' = CallLeft
    BY <2>1 DEF CallLeft
  <2>3. Len(queue') < Len(queue)
    BY <1>1, <2>1 DEF TypeOK, InotifyTypeOK
  <2> QED  BY <2>2, <2>3, LessFacts DEF Left
<1>4. CASE read_ends \/ poll_fails
  <2>1. /\ call = Idle /\ call' = call /\ queue' = queue /\ frames # << >> /\ Pop
    BY <1>4, NoCall DEF read_ends, poll_fails, IInv, In, kernel
  <2>2. CallLeft' = CallLeft
    BY <2>1 DEF CallLeft
  <2>3. Len(frames') < Len(frames)
    BY <1>1, <2>1 DEF TypeOK, Pop, Front
  <2> QED  BY <2>1, <2>2, <2>3, LessFacts DEF Left
<1> QED  BY <1>2, <1>3, <1>4

\* A turn of the innermost frame leaves it less to do.
LEMMA TurnShrinks ==
  ASSUME IInv, frames # << >>, call = Idle, NEW f \in Frame, Becomes(f),
         UNCHANGED <<kernel, g_ns, call>>, FrameLeft' < FrameLeft
  PROVE  Less(Left', Left)
<1>1. Len(frames') = Len(frames) /\ Len(queue') = Len(queue)
  BY BecomesFacts DEF IInv, kernel
<1>2. CallLeft' = CallLeft
  BY DEF CallLeft
<1> QED  BY <1>1, <1>2, LessFacts DEF Left

LEMMA WalkShrinks ==
  ASSUME IInv, poll_returns \/ walk \/ callback_returns
  PROVE  Less(Left', Left)
<1> DEFINE top == Last(frames)
<1>1. /\ TypeOK /\ frames # << >> /\ call = Idle /\ UNCHANGED <<kernel, g_ns, call>>
  <2>1. CASE callback_returns
    BY <2>1 DEF callback_returns, In, IInv
  <2> QED  BY <2>1, NoCall DEF poll_returns, walk, In, IInv
<1>2. FrameIs(top, g_ns, slot) /\ top \in Frame /\ top.it \in Listed \cup {NULL}
  BY <1>1, TopFacts DEF IInv, FrameIs, Listed
<1>3. \A c : NodesFrom(c)' = NodesFrom(c)
  BY <1>1 DEF NodesFrom, Position
<1>4. NULL \notin Listed /\ NULL \in Cell \cup {NULL} /\ Listed \subseteq Cell
  BY <1>1, ListTyped
<1>5. ASSUME NEW f \in Frame, Becomes(f)
      PROVE  /\ f.phase = "read" => FrameLeft' = 0
             /\ f.phase = "walk" => FrameLeft' = 2 * NodesFrom(f.it) + 1
             /\ f.phase = "called" => FrameLeft' = 2 * NodesFrom(f.it)
  <2>1. frames' # << >> /\ Last(frames') = f
    BY <1>1, <1>5, BecomesFacts
  <2> QED  BY <1>3, <2>1 DEF FrameLeft, In
<1>6. CASE poll_returns
  <2> DEFINE f == [top EXCEPT !.phase = "read"]
  <2>1. f \in Frame /\ f.phase = "read" /\ Becomes(f)
    BY <1>2, <1>6 DEF Frame, poll_returns
  <2>2. FrameLeft = 1
    BY <1>6, FrameLeftFacts DEF poll_returns
  <2> HIDE DEF f
  <2>3. FrameLeft' < FrameLeft
    BY <1>5, <2>1, <2>2
  <2> QED  BY <1>1, <2>1, <2>3, TurnShrinks
<1>7. ASSUME NEW c \in Listed, top.it = c, In("walk") \/ In("called"), NEW d \in NextOf(c),
             Becomes([top EXCEPT !.phase = "walk", !.it = d])
      PROVE  Less(Left', Left)
  <2> DEFINE f == [top EXCEPT !.phase = "walk", !.it = d]
  <2>1. d = After(c) /\ d \in Cell \cup {NULL}
    BY <1>1, <1>4, <1>7, PositionFacts DEF NextOf
  <2>2. f \in Frame /\ f.phase = "walk" /\ f.it = d /\ Becomes(f)
    BY <1>2, <1>7, <2>1 DEF Frame
  <2> HIDE DEF f
  <2>3. FrameLeft' = 2 * NodesFrom(d) + 1
    BY <1>5, <2>2
  <2>4. FrameLeft = 2 * NodesFrom(c) \/ FrameLeft = 2 * NodesFrom(c) + 1
    BY <1>7, FrameLeftFacts
  <2>5. NodesFrom(d) \in Nat /\ NodesFrom(c) \in Nat /\ NodesFrom(d) < NodesFrom(c)
    BY <1>1, <2>1, NodesFacts
  <2>6. FrameLeft' < FrameLeft
    BY <2>3, <2>4, <2>5
  <2> QED  BY <1>1, <2>2, <2>6, TurnShrinks
<1>8. CASE walk
  <2>1. In("walk") /\ top.phase = "walk" /\ FrameLeft = 2 * NodesFrom(top.it) + 1
    BY <1>8, FrameLeftFacts DEF walk, In
  <2>2. CASE top.it = NULL /\ Becomes([top EXCEPT !.phase = "read"])
    <3> DEFINE f == [top EXCEPT !.phase = "read"]
    <3>1. f \in Frame /\ f.phase = "read" /\ Becomes(f)
      BY <1>2, <2>2 DEF Frame
    <3> HIDE DEF f
    <3>2. FrameLeft' = 0 /\ FrameLeft = 1
      BY <1>1, <1>5, <2>1, <2>2, <3>1, NodesFacts
    <3>3. FrameLeft' < FrameLeft
      BY <3>2
    <3> QED  BY <1>1, <3>1, <3>3, TurnShrinks
  <2>3. CASE /\ top.it # NULL
             /\ Becomes([top EXCEPT !.phase = "called", !.owed = @ \ {top.it},
                                    !.called = @ \cup {top.it}])
    <3> DEFINE f == [top EXCEPT !.phase = "called", !.owed = @ \ {top.it},
                                !.called = @ \cup {top.it}]
    <3>0. top.it \in Listed /\ top.it \in Cell
      BY <1>2, <1>4, <2>3
    <3>1. f \in Frame /\ f.phase = "called" /\ f.it = top.it /\ Becomes(f)
      BY <1>2, <2>3, <3>0 DEF Frame
    <3> HIDE DEF f
    <3>2. FrameLeft' = 2 * NodesFrom(top.it) /\ NodesFrom(top.it) \in Nat
      BY <1>1, <1>5, <3>0, <3>1, NodesFacts
    <3>3. FrameLeft' < FrameLeft
      BY <2>1, <3>2
    <3> QED  BY <1>1, <3>1, <3>3, TurnShrinks
  <2>4. ASSUME top.it # NULL, NEW d \in NextOf(top.it), Becomes([top EXCEPT !.it = d])
        PROVE  Less(Left', Left)
    <3>1. [top EXCEPT !.it = d] = [top EXCEPT !.phase = "walk", !.it = d]
      BY <1>2, <2>1 DEF Frame
    <3> QED  BY <1>2, <1>7, <2>1, <2>4, <3>1
  <2> QED  BY <1>8, <2>2, <2>3, <2>4 DEF walk
<1>9. CASE callback_returns
  <2>1. In("called") /\ top.phase = "called"
    BY <1>9 DEF callback_returns, In
  <2>2. top.it \in Listed
    BY <1>2, <2>1 DEF FrameIs
  <2> QED  BY <1>7, <1>9, <2>1, <2>2 DEF callback_returns
<1> QED  BY <1>6, <1>8, <1>9

\* No dispatch runs for ever by itself, at any depth and for every list and
\* queue: what it has left to do shrinks with every step of the library and
\* every return of a callback.
THEOREM DispatchTerminates == ASSUME Careful PROVE Spec => DispatchShrinks
<1> DEFINE P == Library \/ callback_returns => gio_cb \/ Less(Left', Left)
<1>1. IInv /\ [Next]_vars => [P]_vars
  <2> SUFFICES ASSUME IInv, [Next]_vars, Library \/ callback_returns, ~gio_cb
               PROVE  Less(Left', Left)
    OBVIOUS
  <2>1. IInv'
    BY StepInv
  <2> QED  BY <2>1, DelTurnShrinks, EndShrinks, WalkShrinks DEF Library
<1>2. Spec => [][P]_vars
  BY <1>1, Invariance, PTL DEF Spec
<1> QED  BY <1>2 DEF DispatchShrinks

-----------------------------------------------------------------------------
(***************************************************************************)
(* The refinement. NotiCallbacks sees an unsubscribe as one step when      *)
(* _del_noti begins, though it then frees slot by slot; the pairs of key   *)
(* and callback are read off the watches, and active off the stack. What   *)
(* makes the mapping a step for each step: every slot has a watched key    *)
(* and its own pair (ListOK), _del_noti passes no slot of its descriptor   *)
(* without freeing or counting it (DelOK), and below the innermost frame   *)
(* every frame is inside its callback (StackOK).                           *)
(***************************************************************************)

\* Descriptors are at most lastwd, and no two keys share one.
WatchOK ==
  /\ \A i \in Key : watch[i].wd <= lastwd
  /\ \A i, j \in Key : Watched(i) /\ watch[i].wd = watch[j].wd => i = j

\* A slot listens to the watch of a key, and no other slot calls its callback
\* for that key.
ListOK ==
  /\ \A c \in Listed : \E key \in Key : watch[key].wd = slot[c].wd
  /\ \A c, d \in Listed : slot[c].wd = slot[d].wd /\ slot[c].cb = slot[d].cb => c = d

\* The loop of _del_noti has still to come to slot c.
ToCome(c) == c = call.it \/ Precedes(g_ns, call.it, c)

\* The watch of the key is deaf while _del_noti runs; what its loop has passed
\* of the descriptor is counted as left.
DelOK ==
  call # Idle =>
    /\ call.wd # 0 /\ watch[call.key] = [wd |-> call.wd, mask |-> {"IN_ACCESS"}]
    /\ \A c \in SlotsOf(call.wd) :
         ToCome(c) \/ (call.remain /\ c \notin Selected(call.wd, call.cb))

StackOK == \A k \in DOMAIN frames : k < Len(frames) => frames[k].phase = "called"

RInv == IInv /\ WatchOK /\ ListOK /\ DelOK /\ StackOK

\* The mapping, as in Callbacks.
subs    == PairsOf(Listed \ Leaving)
pending == PairsOf(due \ Leaving)
active  == [k \in 1 .. Depth |-> slot[frames[k].it].cb]
leaving == IF call = Idle THEN {}
           ELSE {call.key} \X (IF call.cb = NULL THEN Callback ELSE {call.cb})

CallbacksStep == [Callbacks!Next]_<<subs, pending, active, leaving>>

RStep == WatchOK' /\ ListOK' /\ DelOK' /\ StackOK' /\ CallbacksStep

\* The pairs of slots S over watches w and contents sl.
Pairs(S, w, sl) ==
  {u \in Key \X Callback : \E c \in S : sl[c].wd = w[u[1]].wd /\ sl[c].cb = u[2]}

LEMMA Mapped ==
  /\ subs = Pairs(Listed \ Leaving, watch, slot)
  /\ pending = Pairs(due \ Leaving, watch, slot)
  /\ subs' = Pairs(Listed' \ Leaving', watch', slot')
  /\ pending' = Pairs(due' \ Leaving', watch', slot')
BY DEF subs, pending, PairsOf, Pairs

-----------------------------------------------------------------------------
(* The steps of NotiCallbacks, seen through the mapping.                   *)

LEMMA Stutters == UNCHANGED <<subs, pending, active, leaving>> => CallbacksStep
BY DEF CallbacksStep

LEMMA Subscribes ==
  ASSUME NEW key \in Key, NEW cb \in Callback, leaving = {}, <<key, cb>> \notin subs,
         subs' = subs \cup {<<key, cb>>}, UNCHANGED <<pending, active, leaving>>
  PROVE  CallbacksStep
<1>1. Callbacks!Subscribe(key, cb)
  BY DEF Callbacks!Subscribe, subs, pending, active, leaving
<1> QED  BY <1>1 DEF CallbacksStep, Callbacks!Next

LEMMA Unsubscribes ==
  ASSUME NEW key \in Key, NEW cbs, cbs = Callback \/ \E cb \in Callback : cbs = {cb},
         leaving = {}, leaving' = {key} \X cbs, subs' = subs \ leaving',
         pending' = pending \ leaving', active' = active
  PROVE  CallbacksStep
<1>1. Callbacks!Unsubscribe(key, cbs)
  BY DEF Callbacks!Unsubscribe, subs, pending, active, leaving
<1> QED  BY <1>1 DEF CallbacksStep, Callbacks!Next

LEMMA EndsUnsubscribe ==
  ASSUME leaving' = {}, UNCHANGED <<subs, pending, active>>
  PROVE  CallbacksStep
<1>1. Callbacks!Unsubscribed
  BY DEF Callbacks!Unsubscribed, subs, pending, active, leaving
<1> QED  BY <1>1 DEF CallbacksStep, Callbacks!Next

LEMMA Publishes ==
  ASSUME NEW key \in Key, \A u \in leaving : u[1] # key,
         pending' = pending \cup {u \in subs : u[1] = key}, UNCHANGED <<subs, active, leaving>>
  PROVE  CallbacksStep
<1>1. Callbacks!Publish(key)
  BY DEF Callbacks!Publish, Callbacks!Of, subs, pending, active, leaving
<1> QED  BY <1>1 DEF CallbacksStep, Callbacks!Next

LEMMA Starts ==
  ASSUME leaving = {}, NEW u \in subs, pending' = pending \ {u},
         active' = Append(active, u[2]), UNCHANGED <<subs, leaving>>
  PROVE  CallbacksStep
<1>1. Callbacks!Start(u)
  BY DEF Callbacks!Start, subs, pending, active, leaving
<1> QED  BY <1>1 DEF CallbacksStep, Callbacks!Next, subs

LEMMA Returns ==
  ASSUME leaving = {}, active # << >>, active' = SubSeq(active, 1, Len(active) - 1),
         UNCHANGED <<subs, pending, leaving>>
  PROVE  CallbacksStep
<1>1. Callbacks!Return
  BY DEF Callbacks!Return, subs, pending, active, leaving
<1> QED  BY <1>1 DEF CallbacksStep, Callbacks!Next

LEMMA Closes ==
  ASSUME leaving = {}, active = << >>, subs' = {}, pending' = {}, UNCHANGED <<active, leaving>>
  PROVE  CallbacksStep
<1>1. Callbacks!Close
  BY DEF Callbacks!Close, subs, pending, active, leaving
<1> QED  BY <1>1 DEF CallbacksStep, Callbacks!Next

-----------------------------------------------------------------------------
(* The stack of callbacks.                                                 *)

LEMMA DepthFacts ==
  ASSUME IInv
  PROVE  /\ frames = << >> => Depth = 0
         /\ In("called") => Depth = Len(frames)
         /\ frames # << >> /\ ~In("called") => Depth = Len(frames) - 1
         /\ Depth \in Nat /\ Depth <= Len(frames)
<1>1. frames \in Seq(Frame) /\ Len(frames) \in Nat /\ (frames # << >> => Len(frames) > 0)
  BY DEF IInv, TypeOK
<1> QED  BY <1>1 DEF Depth, In

LEMMA ActiveFacts ==
  ASSUME RInv
  PROVE  /\ \A k \in 1 .. Depth : /\ k \in DOMAIN frames
                                  /\ frames[k].phase = "called" /\ frames[k].it \in Listed
                                  /\ active[k] = slot[frames[k].it].cb
         /\ active \in Seq(Callback) /\ Len(active) = Depth
<1>1. /\ frames \in Seq(Frame) /\ DOMAIN frames = 1 .. Len(frames) /\ Len(frames) \in Nat
      /\ IInv /\ TypeOK /\ FramesOK /\ StackOK
  BY DEF RInv, IInv, TypeOK
<1>2. Depth \in Nat /\ Depth <= Len(frames)
  BY <1>1, DepthFacts
<1>3. ASSUME NEW k \in 1 .. Depth
      PROVE  /\ k \in DOMAIN frames /\ frames[k].phase = "called"
             /\ frames[k].it \in Listed
  <2>1. k \in 1 .. Len(frames) /\ Len(frames) \in Nat /\ frames # << >>
    BY <1>1, <1>2
  <2>2. frames[k].phase = "called"
    <3>1. CASE k = Len(frames)
      <4>1. ASSUME ~In("called")  PROVE FALSE
        <5>1. Depth = Len(frames) - 1
          BY <1>1, <2>1, <4>1, DepthFacts
        <5> QED  BY <1>2, <1>3, <2>1, <3>1, <5>1
      <4> QED  BY <1>1, <2>1, <3>1, <4>1, TopFacts DEF In
    <3>2. CASE k < Len(frames)
      BY <1>1, <2>1, <3>2 DEF StackOK
    <3>3. k = Len(frames) \/ k < Len(frames)
      BY <2>1
    <3> QED  BY <3>1, <3>2, <3>3
  <2> QED  BY <1>1, <2>1, <2>2 DEF FramesOK, FrameIs, Listed
<1>4. \A k \in 1 .. Depth : slot[frames[k].it].cb \in Callback
  <2>1. Listed \subseteq Cell
    BY <1>1, ListTyped
  <2> QED  BY <1>1, <1>3, <2>1 DEF TypeOK, Slot
<1>5. active \in Seq(Callback) /\ Len(active) = Depth
  <2>1. active \in [1 .. Depth -> Callback]
    BY <1>4 DEF active
  <2> QED  BY <1>2, <2>1
<1> QED  BY <1>3, <1>5 DEF active

LEMMA SameActive ==
  ASSUME RInv, Depth' = Depth,
         \A k \in 1 .. Depth : /\ frames'[k].it = frames[k].it
                               /\ slot'[frames[k].it] = slot[frames[k].it]
  PROVE  active' = active
BY DEF active

\* A step that changes the frames at most, or the innermost one where it is no
\* callback.
LEMMA FramesRefine ==
  ASSUME RInv, UNCHANGED <<watch, lastwd, g_ns, slot, call, due>>, StackOK', Depth' = Depth,
         \A k \in 1 .. Depth : frames'[k].it = frames[k].it
  PROVE  RStep
<1>1. active' = active
  BY SameActive
<1>2. UNCHANGED <<Listed, Leaving, leaving>>
  BY DEF Listed, Leaving, leaving, Selected, SlotsOf
<1>3. UNCHANGED <<subs, pending>>
  BY <1>2, Mapped
<1>4. WatchOK' /\ ListOK' /\ DelOK'
  BY DEF RInv, WatchOK, ListOK, DelOK, ToCome, Listed, SlotsOf, Selected, Watched
<1> QED  BY <1>1, <1>2, <1>3, <1>4, Stutters DEF RStep
\* A new frame comes on top of a callback.
LEMMA PushRefines ==
  ASSUME RInv, NEW busy, NEW phase \in {"poll", "read"}, Running, Push(busy, phase),
         UNCHANGED <<kernel, nc, ht, g_ns, slot, call, due>>
  PROVE  RStep
<1> DEFINE n == Len(frames)
           f == [busy |-> busy, ie |-> Overflow, phase |-> phase, it |-> NULL,
                 owed |-> {}, called |-> {}]
<1>1. /\ IInv /\ TypeOK /\ FramesOK /\ StackOK /\ frames \in Seq(Frame)
      /\ n \in Nat /\ DOMAIN frames = 1 .. n
  BY DEF RInv, IInv, TypeOK
<1>2. /\ frames' # << >> /\ Len(frames') = n + 1 /\ Last(frames').phase = phase
      /\ DOMAIN frames' = 1 .. n + 1 /\ \A k \in 1 .. n : frames'[k] = frames[k]
  <2>1. frames' = Append(frames, f) /\ f.phase = phase
    BY DEF Push
  <2> HIDE DEF f
  <2>2. /\ Len(Append(frames, f)) = n + 1 /\ Append(frames, f)[n + 1] = f
        /\ DOMAIN Append(frames, f) = 1 .. n + 1
        /\ \A k \in 1 .. n : Append(frames, f)[k] = frames[k]
    <3>1. frames \in Seq(Frame \cup {f})
      BY <1>1, SeqMonotonic
    <3> QED  BY <3>1
  <2> QED  BY <1>1, <2>1, <2>2 DEF Last
<1>3. Depth = n /\ Depth' = n
  <2>1. Depth = n
    BY <1>1, DepthFacts DEF Running
  <2>2. ~In("called")'
    BY <1>2 DEF In
  <2>3. Depth' = Len(frames') - 1
    BY <1>2, <2>2 DEF Depth
  <2>4. Len(frames') = n + 1 /\ n \in Nat
    BY <1>1, <1>2
  <2> QED  BY <2>1, <2>3, <2>4
<1>4. StackOK'
  <2>1. ASSUME NEW k \in 1 .. n  PROVE frames[k].phase = "called"
    <3>1. frames # << >>
      BY <1>1
    <3>2. CASE k = n
      BY <1>1, <3>1, <3>2, TopFacts DEF Running, In
    <3>3. CASE k < n
      BY <1>1, <3>3 DEF StackOK
    <3>4. n \in Nat
      BY <1>1
    <3> QED  BY <3>2, <3>3, <3>4
  <2> QED  BY <1>1, <1>2, <2>1 DEF StackOK
<1> QED  BY <1>1, <1>2, <1>3, <1>4, FramesRefine DEF kernel

\* A frame that is no callback goes.
LEMMA PopRefines ==
  ASSUME RInv, In("poll") \/ In("read"), Pop,
         UNCHANGED <<kernel, nc, ht, g_ns, slot, call, due>>
  PROVE  RStep
<1> DEFINE n == Len(frames)
<1>1. /\ IInv /\ TypeOK /\ FramesOK /\ StackOK /\ frames \in Seq(Frame)
      /\ n \in Nat /\ DOMAIN frames = 1 .. n /\ frames # << >> /\ n > 0
      /\ ~In("called")
  BY DEF RInv, IInv, TypeOK, In
<1>2. /\ frames' \in Seq(Frame) /\ Len(frames') = n - 1 /\ DOMAIN frames' = 1 .. n - 1
      /\ \A k \in 1 .. n - 1 : frames'[k] = frames[k]
  BY <1>1 DEF Pop, Front
<1>3. Depth = n - 1
  BY <1>1, DepthFacts
<1>4. Depth' = n - 1
  <2>1. CASE n = 1
    <3>1. frames' = << >>
      BY <1>2, <2>1
    <3> QED  BY <2>1, <3>1 DEF Depth
  <2>2. CASE n # 1
    <3>1. frames' # << >> /\ Last(frames') = frames[n - 1]
      BY <1>1, <1>2, <2>2 DEF Last
    <3>2. frames[n - 1].phase = "called"
      BY <1>1, <2>2 DEF StackOK
    <3>3. In("called")'
      BY <3>1, <3>2 DEF In
    <3> QED  BY <1>2, <3>1, <3>3 DEF Depth
  <2> QED  BY <2>1, <2>2
<1>5. StackOK'
  BY <1>1, <1>2 DEF StackOK
<1> QED  BY <1>1, <1>2, <1>3, <1>4, <1>5, FramesRefine DEF kernel

\* The innermost frame f takes over; the frames below it stay.
LEMMA TopBecomes ==
  ASSUME RInv, frames # << >>, NEW f \in Frame, Becomes(f)
  PROVE  /\ frames' # << >> /\ Len(frames') = Len(frames) /\ Last(frames') = f
         /\ DOMAIN frames' = DOMAIN frames /\ frames'[Len(frames)] = f
         /\ \A k \in DOMAIN frames : k < Len(frames) => frames'[k] = frames[k]
         /\ StackOK'
         /\ f.phase = "called" => Depth' = Len(frames)
         /\ f.phase # "called" => Depth' = Len(frames) - 1
<1>1. /\ TypeOK /\ StackOK /\ frames \in Seq(Frame) /\ DOMAIN frames = 1 .. Len(frames)
      /\ Len(frames) \in Nat /\ Len(frames) \in 1 .. Len(frames)
  BY DEF RInv, IInv, TypeOK
<1>2. frames' # << >> /\ Len(frames') = Len(frames) /\ Last(frames') = f
  BY <1>1, BecomesFacts
<1>3. /\ DOMAIN frames' = DOMAIN frames /\ frames'[Len(frames)] = f
      /\ \A k \in DOMAIN frames : k < Len(frames) => frames'[k] = frames[k]
  BY <1>1 DEF Becomes
<1>4. StackOK'
  BY <1>1, <1>2, <1>3 DEF StackOK
<1>5. /\ f.phase = "called" => Depth' = Len(frames)
      /\ f.phase # "called" => Depth' = Len(frames) - 1
  BY <1>2 DEF Depth, In
<1> QED  BY <1>2, <1>3, <1>4, <1>5

\* A turn of the innermost frame outside its callback.
LEMMA TurnRefines ==
  ASSUME RInv, frames # << >>, ~In("called"), NEW f \in Frame, f.phase # "called", Becomes(f),
         UNCHANGED <<watch, lastwd, g_ns, slot, call, due>>
  PROVE  RStep
<1>1. /\ Depth' = Len(frames) - 1 /\ StackOK'
      /\ \A k \in DOMAIN frames : k < Len(frames) => frames'[k] = frames[k]
  BY TopBecomes
<1>2. /\ Depth = Len(frames) - 1 /\ DOMAIN frames = 1 .. Len(frames) /\ Len(frames) \in Nat
  BY DepthFacts DEF RInv, IInv, TypeOK
<1>3. \A k \in 1 .. Depth : frames'[k].it = frames[k].it
  BY <1>1, <1>2
<1> QED  BY <1>1, <1>2, <1>3, FramesRefine

LEMMA PollReturnsRefines ==
  ASSUME RInv, poll_returns
  PROVE  RStep
<1> DEFINE f == [Last(frames) EXCEPT !.phase = "read"]
<1>1. /\ frames # << >> /\ ~In("called") /\ Becomes(f)
      /\ UNCHANGED <<watch, lastwd, g_ns, slot, call, due>>
  BY DEF poll_returns, In, kernel
<1>2. f \in Frame /\ f.phase = "read"
  BY <1>1, TopFacts DEF RInv, IInv, FrameIs, Frame
<1> QED  BY <1>1, <1>2, TurnRefines

LEMMA ReadEventRefines ==
  ASSUME RInv, read_event
  PROVE  RStep
<1> DEFINE ie == Head(queue)
           S == IF ie.mask \in SubMask THEN SlotsOf(ie.wd) ELSE {}
           f == [Last(frames) EXCEPT !.ie = ie, !.phase = "walk", !.it = FirstSlot,
                                     !.called = {}, !.owed = S]
<1>1. /\ frames # << >> /\ ~In("called") /\ queue # << >>
      /\ UNCHANGED <<watch, lastwd, g_ns, slot, call, due>>
  BY DEF read_event, In
<1>2. Becomes(f)
  BY DEF read_event, WalkFrom
<1>3. /\ TypeOK /\ FramesOK /\ queue \in Seq(Event) /\ Listed \subseteq Cell
      /\ g_ns \in Seq(Cell)
  BY ListTyped DEF RInv, IInv, TypeOK, InotifyTypeOK
<1>4. ie \in Event /\ FirstSlot \in Cell \cup {NULL} /\ S \in SUBSET Cell
  BY <1>1, <1>3 DEF FirstSlot, SlotsOf
<1> HIDE DEF ie, S
<1>5. f \in Frame /\ f.phase = "walk"
  BY <1>1, <1>3, <1>4, TopFacts DEF FrameIs, Frame
<1> QED  BY <1>1, <1>2, <1>5, TurnRefines
\* A turn of __handle_callback: the callback it calls is that of a
\* subscription, and of no other.
LEMMA WalkRefines ==
  ASSUME RInv, walk
  PROVE  RStep
<1> DEFINE top == Last(frames)
           x   == top.it
<1>1. /\ In("walk") /\ frames # << >> /\ ~In("called") /\ call = Idle
      /\ UNCHANGED <<watch, lastwd, g_ns, slot, call>>
  BY NoCall DEF walk, In, kernel, RInv, IInv
<1>2. /\ IInv /\ TypeOK /\ FramesOK /\ top \in Frame /\ top = frames[Len(frames)]
      /\ x \in Listed \cup {NULL} /\ Listed \subseteq Cell /\ top.phase = "walk"
  BY <1>1, TopFacts, ListTyped DEF RInv, IInv, FrameIs, Listed, In
<1>3. CASE x = NULL /\ Becomes([top EXCEPT !.phase = "read"]) /\ UNCHANGED due
  <2> DEFINE f == [top EXCEPT !.phase = "read"]
  <2>1. f \in Frame /\ f.phase = "read" /\ Becomes(f)
    BY <1>2, <1>3 DEF Frame
  <2> HIDE DEF f
  <2> QED  BY <1>1, <1>3, <2>1, TurnRefines
<1>4. ASSUME x # NULL, NEW c \in NextOf(x), Becomes([top EXCEPT !.it = c]), UNCHANGED due
      PROVE  RStep
  <2> DEFINE f == [top EXCEPT !.it = c]
  <2>1. c \in Cell \cup {NULL}
    BY <1>2, <1>4, PositionFacts DEF NextOf
  <2>2. f \in Frame /\ f.phase = "walk" /\ Becomes(f)
    BY <1>2, <1>4, <2>1 DEF Frame
  <2> HIDE DEF f
  <2> QED  BY <1>1, <1>4, <2>2, TurnRefines
<1>5. CASE /\ x # NULL
           /\ Becomes([top EXCEPT !.phase = "called", !.owed = @ \ {x}, !.called = @ \cup {x}])
           /\ due' = due \ {x}
  <2> DEFINE f == [top EXCEPT !.phase = "called", !.owed = @ \ {x}, !.called = @ \cup {x}]
             n == Len(frames)
  <2>1. x \in Listed /\ x \in Cell
    BY <1>2, <1>5
  <2>2. f \in Frame /\ f.phase = "called" /\ f.it = x /\ Becomes(f)
    BY <1>2, <1>5, <2>1 DEF Frame
  <2> HIDE DEF f, x
  <2>3. /\ frames'[n] = f /\ StackOK' /\ Depth' = n
        /\ \A k \in DOMAIN frames : k < n => frames'[k] = frames[k]
    BY <1>1, <2>2, TopBecomes
  <2>4. n \in Nat \ {0} /\ DOMAIN frames = 1 .. n
    BY <1>1, <1>2 DEF TypeOK
  <2>5. Depth = n - 1
    BY <1>1, <1>2, DepthFacts
  <2>6. slot[x].cb \in Callback /\ slot[x].wd > 0 /\ slot[x].wd \in Nat
    BY <1>2, <2>1 DEF TypeOK, Slot
  <2> HIDE DEF n
  <2>7. active' = Append(active, slot[x].cb)
    <3> DEFINE a == Append(active, slot[x].cb)
    <3>1. active \in Seq(Callback) /\ Len(active) = n - 1
      BY <2>5, ActiveFacts
    <3>2. /\ a \in Seq(Callback) /\ Len(a) = n /\ a[n] = slot[x].cb
          /\ \A k \in 1 .. n - 1 : a[k] = active[k]
      BY <2>4, <2>6, <3>1
    <3> HIDE DEF a
    <3>3. ASSUME NEW k \in 1 .. n  PROVE slot[frames'[k].it].cb = a[k]
      <4>1. CASE k = n
        BY <2>2, <2>3, <3>2, <4>1
      <4>2. CASE k # n
        <5>1. k \in 1 .. Depth /\ k < n /\ k \in 1 .. n - 1 /\ k \in DOMAIN frames
          BY <2>4, <2>5, <4>2
        <5> QED  BY <2>3, <3>2, <5>1, ActiveFacts
      <4> QED  BY <4>1, <4>2
    <3>4. a = [k \in 1 .. n |-> a[k]]
      BY <3>2
    <3>5. active' = [k \in 1 .. n |-> a[k]]
      BY <1>1, <2>3, <3>3 DEF active
    <3>6. active' = a
      BY <3>4, <3>5
    <3> QED  BY <3>6 DEF a
  <2>8. UNCHANGED <<Listed, Leaving, leaving>> /\ Leaving = {} /\ leaving = {}
    BY <1>1 DEF Listed, Leaving, leaving, Selected, SlotsOf
  <2>9. PICK key \in Key : watch[key].wd = slot[x].wd
    BY <2>1 DEF RInv, ListOK
  <2> DEFINE u == <<key, slot[x].cb>>
  <2>10. subs' = subs /\ u \in subs /\ u[2] = slot[x].cb
    BY <1>1, <2>1, <2>6, <2>8, <2>9, Mapped DEF Pairs
  <2>11. pending' = pending \ {u}
    <3>1. /\ pending = Pairs(due, watch, slot)
          /\ pending' = Pairs(due \ {x}, watch, slot)
      BY <1>1, <1>5, <2>8, Mapped DEF x
    <3>2. due \subseteq Listed
      BY <1>2 DEF IInv, DueOK
    <3>3. ASSUME NEW v \in Key \X Callback, NEW c \in due,
                 slot[c].wd = watch[v[1]].wd, slot[c].cb = v[2]
          PROVE  c = x <=> v = u
      <4>1. ASSUME c = x  PROVE v = u
        <5>1. watch[v[1]].wd = watch[key].wd /\ v[1] \in Key /\ watch[key].wd # 0
          BY <2>6, <2>9, <3>3, <4>1
        <5>2. v[1] = key
          BY <5>1 DEF RInv, WatchOK, Watched
        <5> QED  BY <3>3, <4>1, <5>2
      <4>2. ASSUME v = u  PROVE c = x
        <5>1. slot[c].wd = slot[x].wd /\ slot[c].cb = slot[x].cb
          BY <2>9, <3>3, <4>2
        <5> QED  BY <2>1, <3>2, <5>1 DEF RInv, ListOK
      <4> QED  BY <4>1, <4>2
    <3> HIDE DEF u
    <3> QED  BY <3>1, <3>3 DEF Pairs
  <2>12. CallbacksStep
    BY <2>7, <2>8, <2>10, <2>11, Starts
  <2>13. WatchOK' /\ ListOK' /\ DelOK'
    BY <1>1 DEF RInv, WatchOK, ListOK, DelOK, Listed, Watched
  <2> QED  BY <2>3, <2>12, <2>13 DEF RStep
<1> QED  BY <1>3, <1>4, <1>5 DEF walk

\* The callback on top of the stack returns to its walk.
LEMMA CallbackReturnsRefines ==
  ASSUME RInv, callback_returns
  PROVE  RStep
<1> DEFINE top == Last(frames)
           n == Len(frames)
<1>1. /\ In("called") /\ frames # << >> /\ call = Idle
      /\ UNCHANGED <<watch, lastwd, g_ns, slot, call, due>>
  BY DEF callback_returns, In, kernel
<1>2. /\ IInv /\ TypeOK /\ FramesOK /\ FrameIs(top, g_ns, slot) /\ top \in Frame
      /\ top.phase = "called"
  BY <1>1, TopFacts DEF RInv, IInv, FrameIs, In
<1>3. top.it \in Listed /\ Listed \subseteq Cell
  BY <1>2, ListTyped DEF FrameIs, Listed
<1>4. PICK c \in NextOf(top.it) : Becomes([top EXCEPT !.phase = "walk", !.it = c])
  BY DEF callback_returns
<1> DEFINE f == [top EXCEPT !.phase = "walk", !.it = c]
<1>5. c \in Cell \cup {NULL}
  BY <1>2, <1>3, PositionFacts DEF NextOf
<1>6. f \in Frame /\ f.phase = "walk" /\ Becomes(f)
  BY <1>2, <1>4, <1>5 DEF Frame
<1> HIDE DEF f
<1>7. /\ StackOK' /\ Depth' = n - 1
      /\ \A k \in DOMAIN frames : k < n => frames'[k] = frames[k]
  BY <1>1, <1>6, TopBecomes
<1>8. n \in Nat \ {0} /\ DOMAIN frames = 1 .. n
  BY <1>1, <1>2 DEF TypeOK
<1>9. Depth = n
  BY <1>1, <1>2, DepthFacts
<1>10. active \in Seq(Callback) /\ Len(active) = n
  BY <1>9, ActiveFacts
<1>11. active' = SubSeq(active, 1, n - 1)
  <2>1. active' = [k \in 1 .. n - 1 |-> active[k]]
    <3>1. active' = [k \in 1 .. n - 1 |-> slot[frames'[k].it].cb]
      BY <1>1, <1>7 DEF active
    <3>2. ASSUME NEW k \in 1 .. n - 1  PROVE slot[frames'[k].it].cb = active[k]
      <4>1. k \in 1 .. Depth /\ k < n /\ k \in DOMAIN frames
        BY <1>8, <1>9
      <4> QED  BY <1>7, <4>1, ActiveFacts
    <3> QED  BY <3>1, <3>2
  <2>2. SubSeq(active, 1, n - 1) = [k \in 1 .. n - 1 |-> active[k]]
    BY <1>8, <1>10
  <2> QED  BY <2>1, <2>2
<1>12. UNCHANGED <<Listed, Leaving, leaving>> /\ leaving = {}
  BY <1>1 DEF Listed, Leaving, leaving, Selected, SlotsOf
<1>13. UNCHANGED <<subs, pending>>
  BY <1>1, <1>12, Mapped
<1>14. active # << >>
  BY <1>8, <1>10
<1>15. CallbacksStep
  BY <1>10, <1>11, <1>12, <1>13, <1>14, Returns
<1>16. WatchOK' /\ ListOK' /\ DelOK'
  BY <1>1 DEF RInv, WatchOK, ListOK, DelOK, Listed, Watched
<1> QED  BY <1>7, <1>15, <1>16 DEF RStep

-----------------------------------------------------------------------------
(* The calls of the application.                                           *)

\* A step that the callbacks do not see.
LEMMA UnseenRefines ==
  ASSUME RInv, UNCHANGED <<watch, lastwd, g_ns, slot, call, due, frames>>
  PROVE  RStep
<1>1. StackOK' /\ Depth' = Depth
  BY DEF RInv, StackOK, Depth, In
<1> QED  BY <1>1, FramesRefine

\* The detach changes no frame that the mapping sees.
LEMMA DetachRefines ==
  ASSUME RInv, heynoti_detach_handler
  PROVE  RStep
<1>1. UNCHANGED <<watch, lastwd, g_ns, slot, call, due>> /\ IInv
  BY DEF heynoti_detach_handler, kernel, RInv
<1>2. Depth' = Depth
  BY <1>1, DetachFacts DEF Depth, In
<1>3. StackOK'
  BY <1>1, DetachFacts DEF RInv, StackOK, SameButBusy
<1>4. \A k \in 1 .. Depth : frames'[k].it = frames[k].it
  BY <1>1, ActiveFacts, DetachFacts DEF SameButBusy
<1> QED  BY <1>1, <1>2, <1>3, <1>4, FramesRefine

\* The container comes and goes without subscriptions.
LEMMA LifeRefines ==
  ASSUME Careful, RInv, heynoti_init \/ heynoti_close
  PROVE  RStep
<1>1. /\ IInv /\ TypeOK /\ frames = << >> /\ call = Idle /\ call' = Idle /\ fresh_instance
      /\ g_ns' = << >> /\ due' = {}
  <2>1. CASE heynoti_init
    <3>1. g_ns = << >> /\ Listed = {}
      BY <2>1 DEF heynoti_init, RInv, IInv, DueOK, Listed, ToSet
    <3> QED  BY <2>1, <3>1 DEF heynoti_init, Running, RInv, IInv, DueOK
  <2>2. CASE heynoti_close
    BY <2>2 DEF heynoti_close, Running, RInv, IInv
  <2> QED  BY <2>1, <2>2
<1>2. frames' = << >>
  <2>1. CASE heynoti_init
    BY <1>1, <2>1 DEF heynoti_init
  <2>2. CASE heynoti_close
    <3>1. DOMAIN frames = {}
      BY <1>1
    <3>2. frames' = [k \in {} |-> [frames[k] EXCEPT !.owed = {}, !.called = {}]]
      BY <2>2, <3>1 DEF heynoti_close
    <3> QED  BY <3>2
  <2> QED  BY <2>1, <2>2
<1>3. Listed' = {} /\ leaving = {} /\ leaving' = {} /\ Depth = 0 /\ Depth' = 0
  BY <1>1, <1>2 DEF Listed, ToSet, leaving, Depth
<1>4. active = << >> /\ active' = << >>
  <2>1. 1 .. 0 = {}
    OBVIOUS
  <2>2. active = [k \in {} |-> slot[frames[k].it].cb]
    BY <1>3, <2>1 DEF active
  <2>3. active' = [k \in {} |-> slot'[frames'[k].it].cb]
    BY <1>3, <2>1 DEF active
  <2>4. active = << >>
    BY <2>2
  <2>5. active' = << >>
    BY <2>3
  <2> QED  BY <2>4, <2>5
<1>5. subs' = {} /\ pending' = {}
  BY <1>1, <1>3, Mapped DEF Pairs
<1>6. CallbacksStep
  BY <1>3, <1>4, <1>5, Closes
<1>7. WatchOK' /\ ListOK' /\ DelOK' /\ StackOK'
  <2>1. \A k \in Key : watch'[k].wd = 0 /\ lastwd' = 0
    BY <1>1 DEF fresh_instance, NoWatch, Key
  <2>2. DOMAIN frames' = {}
    BY <1>2
  <2> QED  BY <1>1, <1>3, <2>1, <2>2 DEF WatchOK, ListOK, DelOK, StackOK, Watched
<1> QED  BY <1>6, <1>7 DEF RStep

LEMMA SlotWd ==
  ASSUME RInv, NEW c \in Listed
  PROVE  slot[c].wd \in Nat \ {0} /\ slot[c].wd <= lastwd
<1>1. TypeOK /\ Listed \subseteq Cell /\ lastwd \in Nat
  BY ListTyped DEF RInv, IInv, TypeOK, InotifyTypeOK
<1>2. PICK key \in Key : watch[key].wd = slot[c].wd
  BY DEF RInv, ListOK
<1>3. slot[c].wd \in Nat /\ slot[c].wd > 0
  BY <1>1 DEF TypeOK, Slot
<1>4. watch[key].wd <= lastwd
  BY DEF RInv, WatchOK
<1> QED  BY <1>2, <1>3, <1>4

\* A watch that is placed leaves every slot with its key.
LEMMA Placed ==
  ASSUME RInv, NEW key \in Key, NEW mask \in SUBSET Bit, add_watch(key, mask)
  PROVE  /\ WatchOK'
         /\ watch'[key] = [wd |-> WdFor(key), mask |-> mask] /\ WdFor(key) \in Nat \ {0}
         /\ Watched(key) => WdFor(key) = watch[key].wd
         /\ \A c \in Listed, k \in Key : slot[c].wd = watch'[k].wd <=> slot[c].wd = watch[k].wd
<1> USE DEF Key
<1>1. /\ InotifyTypeOK /\ WatchOK /\ lastwd \in Nat /\ \A k \in Key : watch[k].wd \in Nat
      /\ watch'[key] = [wd |-> WdFor(key), mask |-> mask] /\ WdFor(key) \in Nat \ {0}
      /\ \A k \in Key \ {key} : watch'[k] = watch[k]
      /\ lastwd' = IF Watched(key) THEN lastwd ELSE lastwd + 1
  <2>1. InotifyTypeOK /\ WatchOK
    BY DEF RInv, IInv, TypeOK
  <2>2. /\ WdFor(key) \in 1 .. MaxWd /\ watch'[key] = [wd |-> WdFor(key), mask |-> mask]
        /\ \A k \in Key \ {key} : watch'[k] = watch[k]
    BY <2>1, PlaceWatchFacts
  <2>3. lastwd \in Nat /\ \A k \in Key : watch[k].wd \in Nat
    BY <2>1 DEF InotifyTypeOK, Watch
  <2> QED  BY <2>1, <2>2, <2>3, InotifyAssumption DEF add_watch
<1>2. watch'[key].wd = WdFor(key)
  BY <1>1
<1>3. CASE Watched(key)
  <2>1. WdFor(key) = watch[key].wd /\ lastwd' = lastwd
    BY <1>1, <1>3 DEF WdFor
  <2>2. \A k \in Key : watch'[k].wd = watch[k].wd
    BY <1>1, <1>2, <2>1
  <2>3. WatchOK'
    BY <1>1, <2>1, <2>2 DEF WatchOK, Watched
  <2> QED  BY <1>1, <2>1, <2>2, <2>3
<1>4. CASE ~Watched(key)
  <2>1. WdFor(key) = lastwd + 1 /\ lastwd' = lastwd + 1 /\ watch[key].wd = 0
    BY <1>1, <1>4 DEF WdFor, Watched
  <2>2. \A k \in Key \ {key} : watch'[k].wd = watch[k].wd /\ watch[k].wd <= lastwd
    BY <1>1 DEF WatchOK
  <2>3. WatchOK'
    <3>1. \A k \in Key : watch'[k].wd <= lastwd'
      BY <1>1, <1>2, <2>1, <2>2
    <3>2. ASSUME NEW i \in Key, NEW j \in Key, Watched(i)', watch'[i].wd = watch'[j].wd
          PROVE  i = j
      <4>1. CASE i = key
        BY <1>1, <1>2, <2>1, <2>2, <3>2, <4>1
      <4>2. CASE j = key
        BY <1>1, <1>2, <2>1, <2>2, <3>2, <4>2
      <4>3. CASE i # key /\ j # key
        BY <1>1, <2>2, <3>2, <4>3 DEF WatchOK, Watched
      <4> QED  BY <4>1, <4>2, <4>3
    <3> QED  BY <3>1, <3>2 DEF WatchOK
  <2>4. ASSUME NEW c \in Listed, NEW k \in Key
        PROVE  slot[c].wd = watch'[k].wd <=> slot[c].wd = watch[k].wd
    <3>1. slot[c].wd \in Nat \ {0} /\ slot[c].wd <= lastwd
      BY SlotWd
    <3>2. CASE k = key
      <4>1. slot[c].wd # lastwd + 1 /\ slot[c].wd # 0
        BY <1>1, <3>1
      <4> QED  BY <1>2, <2>1, <3>2, <4>1
    <3>3. CASE k # key
      BY <2>2, <3>3
    <3> QED  BY <3>2, <3>3
  <2> QED  BY <1>1, <1>4, <2>3, <2>4
<1> QED  BY <1>3, <1>4

\* Slots that keep their contents and their keys stand for the same pairs.
LEMMA PairsKept ==
  ASSUME NEW S \in SUBSET Listed, \A c \in S : slot'[c] = slot[c],
         \A c \in Listed, k \in Key : slot[c].wd = watch'[k].wd <=> slot[c].wd = watch[k].wd
  PROVE  Pairs(S, watch', slot') = Pairs(S, watch, slot)
BY DEF Pairs

\* The pairs of key and cbs are those of the slots that _del_noti selects.
LEMMA PairsSelected ==
  ASSUME RInv, NEW key \in Key, NEW cb \in Callback \cup {NULL}, NEW S \in SUBSET Listed,
         NEW wd, \A c \in Listed : slot[c].wd = wd <=> slot[c].wd = watch[key].wd
  PROVE  Pairs(S \ Selected(wd, cb), watch, slot)
           = Pairs(S, watch, slot) \ ({key} \X (IF cb = NULL THEN Callback ELSE {cb}))
<1> DEFINE cbs == IF cb = NULL THEN Callback ELSE {cb}
<1>1. ASSUME NEW u \in Key \X Callback, NEW c \in S,
             slot[c].wd = watch[u[1]].wd, slot[c].cb = u[2]
      PROVE  c \in Selected(wd, cb) <=> u \in {key} \X cbs
  <2>1. slot[c].wd # 0 /\ c \in Listed /\ u[1] \in Key /\ u[2] \in Callback /\ u = <<u[1], u[2]>>
    BY SlotWd
  <2>2. slot[c].wd = watch[key].wd <=> u[1] = key
    BY <1>1, <2>1 DEF RInv, WatchOK, Watched
  <2>3. c \in SlotsOf(wd) <=> u[1] = key
    BY <2>1, <2>2 DEF SlotsOf
  <2>4. cb \in {NULL, slot[c].cb} <=> u[2] \in cbs
    BY <1>1, <2>1, ReentrantAssumption
  <2>5. c \in Selected(wd, cb) <=> c \in SlotsOf(wd) /\ cb \in {NULL, slot[c].cb}
    BY DEF Selected
  <2>6. u \in {key} \X cbs <=> u[1] = key /\ u[2] \in cbs
    BY <2>1
  <2> QED  BY <2>3, <2>4, <2>5, <2>6
<1> HIDE DEF cbs
<1>2. Pairs(S \ Selected(wd, cb), watch, slot) = Pairs(S, watch, slot) \ ({key} \X cbs)
  <2>1. \A u \in Key \X Callback, c \in S :
          slot[c].wd = watch[u[1]].wd /\ slot[c].cb = u[2] =>
            (c \in Selected(wd, cb) <=> u \in {key} \X cbs)
    BY <1>1
  <2> QED  BY <2>1 DEF Pairs
<1> QED  BY <1>2 DEF cbs

\* A slot is a new subscription, or the call changes nothing.
LEMMA SubscribeRefines ==
  ASSUME RInv, NEW key \in Key, NEW cb \in Callback, heynoti_subscribe(key, cb)
  PROVE  RStep
<1> DEFINE wd == WdFor(key)
           found == \E c \in SlotsOf(wd) : slot[c].cb = cb
<1>1. /\ IInv /\ TypeOK /\ call = Idle /\ call' = Idle /\ UNCHANGED <<frames, due>>
      /\ Listed \subseteq Cell /\ due \subseteq Listed
  BY ListTyped DEF heynoti_subscribe, Running, RInv, IInv, DueOK
<1>2. PICK mask \in SUBSET Bit : add_watch(key, mask)
  <2>1. SubMask \in SUBSET Bit /\ {} \in SUBSET Bit
    BY DEF SubMask, Bit
  <2> QED  BY <2>1, MaskFacts DEF heynoti_subscribe
<1>3. /\ WatchOK' /\ watch'[key].wd = wd /\ wd \in Nat \ {0}
      /\ Watched(key) => wd = watch[key].wd
      /\ \A c \in Listed, k \in Key : slot[c].wd = watch'[k].wd <=> slot[c].wd = watch[k].wd
  <2>1. watch'[key] = [wd |-> WdFor(key), mask |-> mask]
    BY <1>2, Placed
  <2>2. watch'[key].wd = WdFor(key)
    BY <2>1
  <2> QED  BY <1>2, <2>2, Placed
<1>4. /\ Leaving = {} /\ Leaving' = {} /\ leaving = {} /\ leaving' = {}
      /\ DelOK' /\ StackOK' /\ Depth' = Depth
  BY <1>1 DEF Leaving, leaving, DelOK, RInv, StackOK, Depth, In
<1>5. CASE UNCHANGED <<g_ns, slot>>
  <2>1. Listed' = Listed
    BY <1>5 DEF Listed
  <2>2. UNCHANGED <<subs, pending>>
    BY <1>1, <1>3, <1>4, <1>5, <2>1, Mapped, PairsKept
  <2>3. active' = active
    BY <1>1, <1>4, <1>5, SameActive
  <2>4. ListOK'
    BY <1>3, <1>5, <2>1 DEF RInv, ListOK
  <2> QED  BY <1>3, <1>4, <2>2, <2>3, <2>4, Stutters DEF RStep
<1>6. ASSUME ~found, NEW x \in FreeCell, g_ns' = Append(g_ns, x),
             slot' = [slot EXCEPT ![x] = NewSlot(wd, cb)]
      PROVE  RStep
  <2>1. x \in Cell /\ x \notin Listed /\ Listed' = Listed \cup {x}
    <3>1. g_ns \in Seq(Cell) /\ Distinct(g_ns) /\ x \in Cell /\ x \notin ToSet(g_ns)
      BY <1>1, <1>6, ListTyped DEF FreeCell, Listed
    <3> QED  BY <1>6, <3>1, AppendFacts DEF Listed
  <2>2. /\ slot'[x].wd = wd /\ slot'[x].cb = cb
        /\ \A c \in Listed : slot'[c] = slot[c]
    BY <1>1, <1>6, <2>1 DEF TypeOK, NewSlot
  <2>3. \A c \in Listed : slot[c].wd = watch[key].wd => slot[c].cb # cb
    <3>1. ASSUME NEW c \in Listed, slot[c].wd = watch[key].wd  PROVE slot[c].wd = wd
      <4>1. Watched(key)
        BY <3>1, SlotWd DEF Watched
      <4> QED  BY <1>3, <3>1, <4>1
    <3> QED  BY <1>6, <3>1 DEF SlotsOf
  <2>4. \A c \in Listed : slot[c].wd = wd => slot[c].cb # cb
    BY <1>6 DEF SlotsOf
  <2>5. <<key, cb>> \notin subs
    BY <1>4, <2>3, Mapped DEF Pairs
  <2>6. pending' = pending
    BY <1>1, <1>3, <1>4, <2>2, Mapped, PairsKept
  <2>7. subs' = subs \cup {<<key, cb>>}
    <3>1. /\ subs = Pairs(Listed, watch, slot) /\ subs' = Pairs(Listed \cup {x}, watch', slot')
          /\ Pairs(Listed, watch', slot') = Pairs(Listed, watch, slot)
      BY <1>3, <1>4, <2>1, <2>2, Mapped, PairsKept
    <3>2. ASSUME NEW u \in Key \X Callback
          PROVE  slot'[x].wd = watch'[u[1]].wd /\ slot'[x].cb = u[2] <=> u = <<key, cb>>
      <4>1. watch'[u[1]].wd = wd => u[1] = key
        BY <1>3 DEF WatchOK, Watched
      <4> QED  BY <1>3, <2>2, <4>1
    <3>3. <<key, cb>> \in Key \X Callback
      OBVIOUS
    <3>4. Pairs(Listed \cup {x}, watch', slot') = Pairs(Listed, watch', slot') \cup {<<key, cb>>}
      BY <3>2, <3>3 DEF Pairs
    <3> QED  BY <3>1, <3>4
  <2>8. active' = active
    BY <1>1, <1>4, <2>2, ActiveFacts, SameActive
  <2>9. ListOK'
    <3>1. \A c \in Listed' : \E k \in Key : watch'[k].wd = slot'[c].wd
      BY <1>3, <2>1, <2>2 DEF RInv, ListOK
    <3>2. ASSUME NEW c \in Listed', NEW d \in Listed', slot'[c].wd = slot'[d].wd,
                 slot'[c].cb = slot'[d].cb
          PROVE  c = d
      BY <2>1, <2>2, <2>4, <3>2 DEF RInv, ListOK
    <3> QED  BY <3>1, <3>2 DEF ListOK
  <2>10. CallbacksStep
    BY <1>4, <2>5, <2>6, <2>7, <2>8, Subscribes
  <2> QED  BY <1>3, <1>4, <2>9, <2>10 DEF RStep
<1> QED  BY <1>5, <1>6 DEF heynoti_subscribe
\* An unsubscribe takes its pairs when it begins.
LEMMA UnsubscribeRefines ==
  ASSUME Careful, RInv, NEW key \in Key, NEW cb \in Callback \cup {NULL},
         heynoti_unsubscribe(key, cb)
  PROVE  RStep
<1> DEFINE wd  == WdFor(key)
           cbs == IF cb = NULL THEN Callback ELSE {cb}
<1>1. /\ IInv /\ TypeOK /\ call = Idle /\ UNCHANGED <<g_ns, slot, frames, due>>
      /\ due \subseteq Listed /\ add_watch(key, {"IN_ACCESS"}) /\ {"IN_ACCESS"} \in SUBSET Bit
      /\ call' # Idle /\ call'.key = key /\ call'.cb = cb /\ call'.wd = wd
      /\ call'.it = FirstSlot
  <2>1. call'.op = "unsubscribe"
    BY DEF heynoti_unsubscribe
  <2>2. call' # Idle
    BY <2>1 DEF Idle
  <2> QED  BY <2>2 DEF heynoti_unsubscribe, Running, RInv, IInv, DueOK, Bit
<1>2. /\ WatchOK' /\ watch'[key] = [wd |-> wd, mask |-> {"IN_ACCESS"}] /\ wd \in Nat \ {0}
      /\ Watched(key) => wd = watch[key].wd
      /\ \A c \in Listed, k \in Key : slot[c].wd = watch'[k].wd <=> slot[c].wd = watch[k].wd
  BY <1>1, Placed
<1>3. \A c \in Listed : slot[c].wd = wd <=> slot[c].wd = watch[key].wd
  <2>1. watch'[key].wd = wd
    BY <1>2
  <2> QED  BY <1>2, <2>1
<1>4. /\ Listed' = Listed /\ Leaving = {} /\ Leaving' = Selected(wd, cb)
      /\ leaving = {} /\ leaving' = {key} \X cbs
      /\ Depth' = Depth /\ StackOK' /\ active' = active
  <2>1. Listed' = Listed /\ Leaving = {} /\ leaving = {} /\ Depth' = Depth /\ StackOK'
    BY <1>1 DEF Listed, Leaving, leaving, Depth, StackOK, In, RInv
  <2>2. leaving' = {key} \X cbs
    BY <1>1 DEF leaving
  <2>3. Leaving' = Selected(wd, cb)
    BY <1>1, <2>1 DEF Leaving, Selected, SlotsOf
  <2>4. active' = active
    BY <1>1, <2>1, SameActive
  <2> QED  BY <2>1, <2>2, <2>3, <2>4
<1>5. ASSUME NEW S \in SUBSET Listed
      PROVE  Pairs(S \ Selected(wd, cb), watch', slot') = Pairs(S, watch, slot) \ leaving'
  <2>1. Pairs(S \ Selected(wd, cb), watch', slot') = Pairs(S \ Selected(wd, cb), watch, slot)
    <3>1. S \ Selected(wd, cb) \in SUBSET Listed
      OBVIOUS
    <3> QED  BY <1>1, <1>2, <3>1, PairsKept
  <2> QED  BY <1>3, <1>4, <2>1, PairsSelected
<1>6. subs' = subs \ leaving' /\ pending' = pending \ leaving'
  BY <1>1, <1>4, <1>5, Mapped
<1>7. CallbacksStep
  <2>1. cbs = Callback \/ \E d \in Callback : cbs = {d}
    OBVIOUS
  <2> QED  BY <1>4, <1>6, <2>1, Unsubscribes
<1>8. ListOK'
  BY <1>1, <1>2, <1>4 DEF RInv, ListOK
<1>9. DelOK'
  <2>1. ASSUME NEW c \in Listed  PROVE c = FirstSlot \/ Precedes(g_ns, FirstSlot, c)
    <3>1. g_ns \in Seq(Cell) /\ Distinct(g_ns)
      BY <1>1, ListTyped
    <3>2. g_ns # << >>
      BY DEF Listed, ToSet
    <3>3. FirstSlot = g_ns[1]
      BY <3>1, <3>2 DEF FirstSlot
    <3> QED  BY <3>1, <3>2, <3>3, OrderFacts DEF Listed
  <2>2. \A c \in SlotsOf(call.wd)' : ToCome(c)'
    BY <1>1, <1>4, <2>1 DEF ToCome, SlotsOf
  <2> QED  BY <1>1, <1>2, <2>2 DEF DelOK
<1> QED  BY <1>2, <1>4, <1>7, <1>8, <1>9 DEF RStep

\* A turn of the loop of _del_noti: what it frees has left already.
LEMMA DelTurnRefines ==
  ASSUME RInv, del_turn
  PROVE  RStep
<1> DEFINE c == call.it
           i == Position(c)
<1>1. /\ IInv /\ TypeOK /\ FramesOK /\ call # Idle /\ c \in Listed /\ call \in Call
      /\ UNCHANGED <<watch, lastwd, slot>>
  <2>1. call.op = "unsubscribe" /\ c # NULL /\ UNCHANGED <<kernel, slot>>
    BY DEF del_turn
  <2>2. call # Idle
    BY <2>1 DEF Idle
  <2> QED  BY <2>1, <2>2 DEF RInv, IInv, CallOK, TypeOK, kernel
<1>2. /\ i \in DOMAIN g_ns /\ g_ns[i] = c /\ g_ns \in Seq(Cell) /\ Distinct(g_ns)
      /\ After(c) = IF i = Len(g_ns) THEN NULL ELSE g_ns[i + 1]
  BY <1>1, PositionFacts, ListTyped
<1>3. \A d : Precedes(g_ns, c, d) => d = After(c) \/ Precedes(g_ns, After(c), d)
  BY <1>2, OrderFacts
<1>4. /\ call' # Idle /\ call'.wd = call.wd /\ call'.cb = call.cb /\ call'.key = call.key
      /\ call'.it = After(c)
  <2>1. /\ call'.op = "unsubscribe" /\ call'.wd = call.wd /\ call'.cb = call.cb
        /\ call'.key = call.key /\ call'.it = After(c)
    BY <1>1 DEF del_turn, it_next, Call
  <2>2. call' # Idle
    BY <2>1 DEF Idle
  <2> QED  BY <2>1, <2>2
<1>5. /\ WatchOK' /\ leaving' = leaving
      /\ watch'[call'.key] = [wd |-> call'.wd, mask |-> {"IN_ACCESS"}] /\ call'.wd # 0
  BY <1>1, <1>4 DEF RInv, WatchOK, Watched, leaving, DelOK
<1>6. /\ Leaving = Selected(call.wd, call.cb) /\ Leaving' = Selected(call.wd, call.cb)'
  BY <1>1, <1>4 DEF Leaving
<1>7. CASE c \in Selected(call.wd, call.cb)
  <2>1. /\ g_ns' = RemoveAt(g_ns, i) /\ due' = due \ {c}
        /\ frames' = [k \in DOMAIN frames |-> Without(frames[k], c)]
        /\ call' = [call EXCEPT !.it = After(c)]
    BY <1>7 DEF del_turn, it_next, Without
  <2>2. /\ Listed' = Listed \ {c}
        /\ \A y, z : Precedes(g_ns', y, z) <=> Precedes(g_ns, y, z) /\ y # c /\ z # c
    BY <1>2, <2>1, RemoveAtFacts DEF Listed
  <2>3. SlotsOf(call.wd)' = SlotsOf(call.wd) \ {c} /\ Leaving' = Leaving \ {c}
    BY <1>1, <1>4, <1>6, <2>2 DEF SlotsOf, Selected
  <2>4. UNCHANGED <<subs, pending>>
    <3>1. Listed' \ Leaving' = Listed \ Leaving /\ due' \ Leaving' = due \ Leaving
      BY <1>6, <1>7, <2>1, <2>2, <2>3
    <3> QED  BY <1>1, <3>1, Mapped
  <2>5. /\ \A k \in DOMAIN frames :
             frames'[k].phase = frames[k].phase /\ frames'[k].it = frames[k].it
        /\ DOMAIN frames' = DOMAIN frames /\ Len(frames') = Len(frames)
        /\ frames' = << >> <=> frames = << >>
    <3>1. /\ frames \in Seq(Frame) /\ DOMAIN frames = 1 .. Len(frames) /\ Len(frames) \in Nat
          /\ \A k \in DOMAIN frames : frames[k] \in Frame
      BY <1>1 DEF TypeOK
    <3>2. \A f \in Frame, d \in Cell : Without(f, d).phase = f.phase /\ Without(f, d).it = f.it
      BY DEF Without, Frame
    <3>3. c \in Cell
      BY <1>1, ListTyped
    <3>4. DOMAIN frames' = 1 .. Len(frames) /\ IInv'
      BY <1>1, <2>1, <3>1, DelTurnStep
    <3>5. frames' \in Seq(Frame) /\ Len(frames') = Len(frames)
      BY <3>1, <3>4 DEF IInv, TypeOK
    <3> HIDE DEF c
    <3>6. \A k \in DOMAIN frames : frames'[k] = Without(frames[k], c)
      BY <2>1
    <3> QED  BY <3>1, <3>2, <3>3, <3>4, <3>5, <3>6
  <2>6. Depth' = Depth /\ StackOK'
    <3>1. StackOK'
      BY <2>5 DEF RInv, StackOK
    <3>2. In("called")' <=> In("called")
      <4>1. frames # << >> => /\ Last(frames) = frames[Len(frames)]
                              /\ Last(frames') = frames'[Len(frames)]
                              /\ Len(frames) \in DOMAIN frames
        BY <1>1, <2>5, TopFacts DEF Last
      <4> QED  BY <2>5, <4>1 DEF In
    <3> QED  BY <2>5, <3>1, <3>2 DEF Depth
  <2>7. active' = active
    BY <1>1, <2>5, <2>6, ActiveFacts, SameActive
  <2>8. ListOK'
    BY <1>1, <2>2 DEF RInv, ListOK
  <2>9. DelOK'
    <3>1. call'.remain = call.remain
      BY <1>1, <2>1 DEF Call
    <3>2. ASSUME NEW d \in SlotsOf(call.wd), d # c
          PROVE  ToCome(d)' \/ (call'.remain /\ d \notin Leaving')
      <4>1. ASSUME ToCome(d)  PROVE ToCome(d)'
        <5>1. After(c) # c
          BY <1>1, PositionFacts
        <5>2. d = After(c) \/ Precedes(g_ns', After(c), d)
          BY <1>3, <2>2, <3>2, <4>1, <5>1 DEF ToCome
        <5> QED  BY <1>4, <5>2 DEF ToCome
      <4>2. ASSUME call.remain, d \notin Selected(call.wd, call.cb)
            PROVE  call'.remain /\ d \notin Leaving'
        BY <1>6, <2>3, <3>1, <4>2
      <4> QED  BY <1>1, <3>2, <4>1, <4>2 DEF RInv, DelOK
    <3> QED  BY <1>4, <1>5, <1>6, <2>3, <3>2 DEF DelOK
  <2> QED  BY <1>5, <2>4, <2>6, <2>7, <2>8, <2>9, Stutters DEF RStep
<1>8. CASE c \notin Selected(call.wd, call.cb)
  <2>1. /\ UNCHANGED <<g_ns, frames, due>>
        /\ call' = [call EXCEPT !.it = After(c), !.remain = @ \/ slot[c].wd = call.wd]
    BY <1>8 DEF del_turn
  <2>2. Listed' = Listed /\ SlotsOf(call.wd)' = SlotsOf(call.wd) /\ Leaving' = Leaving
    BY <1>1, <1>4, <1>6, <2>1 DEF Listed, SlotsOf, Selected
  <2>3. UNCHANGED <<subs, pending>>
    BY <1>1, <2>1, <2>2, Mapped
  <2>4. StackOK' /\ Depth' = Depth
    BY <2>1 DEF RInv, StackOK, Depth, In
  <2>5. active' = active
    BY <1>1, <2>1, <2>4, SameActive
  <2>6. ListOK'
    BY <1>1, <2>2 DEF RInv, ListOK
  <2>7. DelOK'
    <3>1. call'.remain <=> call.remain \/ slot[c].wd = call.wd
      BY <1>1, <2>1 DEF Call
    <3>2. ASSUME NEW d \in SlotsOf(call.wd)
          PROVE  ToCome(d)' \/ (call'.remain /\ d \notin Leaving')
      <4>1. CASE d = c
        BY <1>6, <1>8, <2>2, <3>1, <3>2, <4>1 DEF SlotsOf
      <4>2. CASE Precedes(g_ns, c, d)
        <5>1. d = After(c) \/ Precedes(g_ns', After(c), d)
          BY <1>3, <2>1, <4>2
        <5> QED  BY <1>4, <5>1 DEF ToCome
      <4>3. CASE call.remain /\ d \notin Selected(call.wd, call.cb)
        BY <1>6, <2>2, <3>1, <4>3
      <4> QED  BY <1>1, <3>2, <4>1, <4>2, <4>3 DEF RInv, DelOK, ToCome
    <3> QED  BY <1>4, <1>5, <1>6, <2>2, <3>2 DEF DelOK
  <2> QED  BY <1>5, <2>3, <2>4, <2>5, <2>6, <2>7, Stutters DEF RStep
<1> QED  BY <1>7, <1>8

\* The end of _del_noti: it has freed all it had to, and gives the watch back
\* only when no slot listens to it.
LEMMA DelEndRefines ==
  ASSUME RInv, del_end
  PROVE  RStep
<1>1. /\ IInv /\ TypeOK /\ call # Idle /\ call' = Idle /\ call.it = NULL /\ call.key \in Key
      /\ UNCHANGED <<g_ns, slot, frames, due>> /\ Listed' = Listed /\ NULL \notin Listed
      /\ g_ns \in Seq(Cell) /\ Distinct(g_ns)
  <2>1. call # Idle
    BY DEF del_end, Idle
  <2> QED  BY <2>1, ListTyped DEF del_end, RInv, IInv, CallOK, Listed
<1>2. \A c \in SlotsOf(call.wd) : call.remain /\ c \notin Selected(call.wd, call.cb)
  <2>1. \A c \in Listed : ~ToCome(c)
    BY <1>1, OrderFacts DEF ToCome, Listed
  <2> QED  BY <1>1, <2>1 DEF RInv, DelOK, SlotsOf
<1>3. /\ Leaving = {} /\ Leaving' = {} /\ leaving' = {} /\ DelOK' /\ StackOK' /\ Depth' = Depth
  BY <1>1, <1>2 DEF Leaving, leaving, Selected, DelOK, RInv, StackOK, Depth, In
<1>4. WatchOK' /\ \A c \in Listed, k \in Key : slot[c].wd = watch'[k].wd <=> slot[c].wd = watch[k].wd
  <2>1. CASE add_watch(call.key, MaskAll(SlotsOf(call.wd), {}))
    <3>1. MaskAll(SlotsOf(call.wd), {}) \in SUBSET Bit
      BY MaskFacts
    <3> QED  BY <1>1, <2>1, <3>1, Placed
  <2>2. CASE ~call.remain /\ drop_watch(call.key, queue)
    <3>1. /\ InotifyTypeOK /\ lastwd' = lastwd /\ watch'[call.key] = NoWatch
          /\ \A k \in Key \ {call.key} : watch'[k] = watch[k]
      BY <1>1, <2>2, DropWatchFacts DEF TypeOK, InotifyTypeOK, Key
    <3>2. watch'[call.key].wd = 0 /\ lastwd \in Nat
      BY <3>1 DEF NoWatch, InotifyTypeOK
    <3>3. WatchOK'
      BY <1>1, <3>1, <3>2 DEF RInv, WatchOK, Watched
    <3>4. \A c \in Listed : slot[c].wd # watch[call.key].wd /\ slot[c].wd # 0
      <4>1. watch[call.key].wd = call.wd
        BY <1>1 DEF RInv, DelOK
      <4> QED  BY <1>2, <2>2, <4>1, SlotWd DEF SlotsOf
    <3> QED  BY <3>1, <3>2, <3>3, <3>4
  <2> QED  BY <2>1, <2>2 DEF del_end
<1>5. UNCHANGED <<subs, pending>>
  <2>1. due \subseteq Listed
    BY <1>1 DEF IInv, DueOK
  <2> QED  BY <1>1, <1>3, <1>4, <2>1, Mapped, PairsKept
<1>6. active' = active
  BY <1>1, <1>3, SameActive
<1>7. ListOK'
  BY <1>1, <1>4 DEF RInv, ListOK
<1> QED  BY <1>3, <1>4, <1>5, <1>6, <1>7, EndsUnsubscribe DEF RStep

\* A publish is heard by the slots of its key, and never while one of them is
\* being removed.
LEMMA PublishRefines ==
  ASSUME RInv, NEW key \in Key, heynoti_publish(key)
  PROVE  RStep
<1>1. /\ IInv /\ TypeOK /\ UNCHANGED <<watch, lastwd, g_ns, slot, frames, call>>
      /\ due \subseteq Listed
  BY DEF heynoti_publish, RInv, IInv, DueOK
<1>2. CASE due' = due
  BY <1>1, <1>2, UnseenRefines
<1>3. CASE due' # due
  <2>1. /\ "IN_CLOSE_WRITE" \in watch[key].mask
        /\ due' = due \cup SlotsOf(watch[key].wd)
    BY <1>3 DEF heynoti_publish
  <2>2. UNCHANGED <<Listed, Leaving, leaving, Depth>>
    BY <1>1 DEF Listed, Leaving, leaving, Selected, SlotsOf, Depth, In
  <2>3. WatchOK' /\ ListOK' /\ DelOK' /\ StackOK'
    BY <1>1, <2>2 DEF RInv, WatchOK, ListOK, DelOK, StackOK, ToCome, SlotsOf, Selected, Watched
  <2>4. active' = active
    BY <1>1, <2>2, SameActive
  <2>5. \A u \in leaving : u[1] # key
    <3>1. ASSUME call # Idle  PROVE call.key # key
      BY <2>1, <3>1 DEF RInv, DelOK
    <3> QED  BY <3>1 DEF leaving
  <2>6. subs' = subs
    BY <1>1, <2>2, Mapped
  <2>7. pending' = pending \cup {u \in subs : u[1] = key}
    <3> DEFINE S == SlotsOf(watch[key].wd)
    <3>1. /\ subs = Pairs(Listed \ Leaving, watch, slot)
          /\ pending = Pairs(due \ Leaving, watch, slot)
          /\ pending' = Pairs((due \cup S) \ Leaving, watch, slot)
      BY <1>1, <2>1, <2>2, Mapped
    <3>2. ASSUME NEW u \in Key \X Callback, NEW c \in Listed, slot[c].wd = watch[u[1]].wd
          PROVE  c \in S <=> u[1] = key
      <4>1. u[1] \in Key /\ watch[u[1]].wd # 0
        BY <3>2, SlotWd
      <4>2. watch[u[1]].wd = watch[key].wd <=> u[1] = key
        BY <4>1 DEF RInv, WatchOK, Watched
      <4> QED  BY <3>2, <4>2 DEF SlotsOf
    <3>3. S \subseteq Listed
      BY DEF SlotsOf
    <3> HIDE DEF S
    <3> QED  BY <1>1, <3>1, <3>2, <3>3 DEF Pairs
  <2>8. CallbacksStep
    BY <2>2, <2>4, <2>5, <2>6, <2>7, Publishes
  <2> QED  BY <2>3, <2>8 DEF RStep
<1> QED  BY <1>2, <1>3

-----------------------------------------------------------------------------
(* The theorem.                                                            *)

LEMMA InitRefines == Init => RInv /\ Callbacks!Init
<1> SUFFICES ASSUME Init  PROVE RInv /\ Callbacks!Init
  OBVIOUS
<1>1. IInv
  BY InitInv
<1>2. Listed = {} /\ due = {} /\ call = Idle /\ frames = << >> /\ DOMAIN frames = {}
  BY DEF Init, Listed, ToSet
<1>3. WatchOK /\ ListOK /\ DelOK /\ StackOK
  <2>1. \A k \in Key : watch[k].wd = 0 /\ lastwd = 0
    BY DEF Init, InotifyInit, NoWatch, Key
  <2> QED  BY <1>2, <2>1 DEF WatchOK, ListOK, DelOK, StackOK, Watched
<1>4. subs = {} /\ pending = {} /\ leaving = {} /\ Depth = 0
  BY <1>2, Mapped DEF Pairs, leaving, Depth
<1>5. active = << >>
  <2>1. 1 .. 0 = {}
    OBVIOUS
  <2>2. active = [k \in {} |-> slot[frames[k].it].cb]
    BY <1>4, <2>1 DEF active
  <2> QED  BY <2>2
<1>6. Callbacks!Init
  BY <1>4, <1>5 DEF Callbacks!Init, subs, pending, active, leaving
<1> QED  BY <1>1, <1>3, <1>6 DEF RInv

LEMMA StepRefines ==
  ASSUME Careful, RInv, [Next]_vars
  PROVE  RInv' /\ CallbacksStep
<1>1. RStep
  <2>1. CASE heynoti_poll_event
    BY <2>1, PushRefines DEF heynoti_poll_event
  <2>2. CASE heynoti_attach_handler
    BY <2>2, UnseenRefines DEF heynoti_attach_handler, kernel
  <2>3. CASE Application
    BY <2>1, <2>2, <2>3, DetachRefines, LifeRefines, SubscribeRefines, UnsubscribeRefines DEF Application
  <2>4. CASE gio_cb
    BY <2>4, PushRefines DEF gio_cb
  <2>5. CASE poll_fails \/ read_ends
    BY <2>5, PopRefines DEF poll_fails, read_ends
  <2>6. CASE Library
    BY <2>4, <2>5, <2>6, DelTurnRefines, DelEndRefines, PollReturnsRefines, ReadEventRefines,
       WalkRefines DEF Library
  <2>7. CASE UNCHANGED vars
    BY <2>7, UnseenRefines DEF vars, kernel
  <2> QED
    BY <2>3, <2>6, <2>7, CallbackReturnsRefines, PublishRefines DEF Next, Publish
<1>2. IInv'
  BY StepInv DEF RInv
<1> QED  BY <1>1, <1>2 DEF RStep, RInv

\* For every number of keys, callbacks, slots and nested calls, careful
\* callbacks see a service whose subscriptions change at once: every execution
\* maps to one of NotiCallbacks.
THEOREM CallbacksRefined == ASSUME Careful PROVE Spec => ImplementsCallbacks
<1>1. Init => RInv /\ Callbacks!Init
  BY InitRefines
<1>2. RInv /\ [Next]_vars => RInv' /\ [Callbacks!Next]_<<subs, pending, active, leaving>>
  BY StepRefines DEF CallbacksStep
<1> QED
  BY <1>1, <1>2, PTL
  DEF Spec, ImplementsCallbacks, Callbacks!Spec, Callbacks!vars, subs, pending, active, leaving
=============================================================================

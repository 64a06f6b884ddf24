------------------------- MODULE NotiRegistryProofs -------------------------
(***************************************************************************)
(* Proofs about NotiRegistry for every number of descriptors, containers,  *)
(* sources and owners: the list g_nc implements a map from descriptors to  *)
(* handler states, leaks no descriptor, leaves no source behind and keeps  *)
(* the parts of the application apart.                                     *)
(*                                                                         *)
(* IInv is inductive because the containers in the list have different     *)
(* descriptors: the kernel does not hand out a number that is open, and a  *)
(* container leaves the list in the step that closes its number. Then the  *)
(* search finds the only container there is (Lookup).                      *)
(***************************************************************************)
EXTENDS NotiRegistry, WellFoundedInduction, FiniteSetTheorems, TLAPS

Listed == ToSet(g_nc)

\* OwnersIsolated without the search.
OwnersListed ==
  \A o \in Owner : mine[o] # NoFd =>
    \E c \in Listed : cont[c].fd = mine[o] /\ cont[c].owner = o

\* What the cache and the containers say of the version, when it is read from
\* the kernel and not from an uninitialized buffer.
VersionKnown ==
  ProcMounted =>
    /\ kern_ver \in {0, Parsed(release)}
    /\ g_nc # << >> => Parsed(release) >= InotifyVersion

IInv ==
  /\ TypeOK
  /\ DescriptorsOwned
  /\ SourcesMatch
  /\ OwnersListed
  /\ VersionKnown

-----------------------------------------------------------------------------
(* The list of containers.                                                 *)

Distinct(s) == \A j, k \in DOMAIN s : s[j] = s[k] => j = k

LEMMA AppendFacts ==
  ASSUME NEW S, NEW s \in Seq(S), NEW x \in S, x \notin ToSet(s), Distinct(s)
  PROVE  /\ Append(s, x) \in Seq(S)
         /\ Distinct(Append(s, x))
         /\ ToSet(Append(s, x)) = ToSet(s) \cup {x}
<1>1. /\ Append(s, x) \in Seq(S)
      /\ DOMAIN s = 1 .. Len(s) /\ Len(s) \in Nat
      /\ DOMAIN Append(s, x) = 1 .. Len(s) + 1
      /\ \A k \in 1 .. Len(s) : Append(s, x)[k] = s[k]
      /\ Append(s, x)[Len(s) + 1] = x
  OBVIOUS
<1>2. \A k \in 1 .. Len(s) + 1 : k \in 1 .. Len(s) \/ k = Len(s) + 1
  BY <1>1
<1> QED  BY <1>1, <1>2 DEF Distinct, ToSet

\* The list without its i-th element.
LEMMA RemoveAtFacts ==
  ASSUME NEW S, NEW s \in Seq(S), Distinct(s), NEW i \in DOMAIN s
  PROVE  /\ RemoveAt(s, i) \in Seq(S)
         /\ Distinct(RemoveAt(s, i))
         /\ ToSet(RemoveAt(s, i)) = ToSet(s) \ {s[i]}
<1> DEFINE n == Len(s)
           a == SubSeq(s, 1, i - 1)
           b == SubSeq(s, i + 1, n)
           place == [k \in 1 .. n - 1 |-> IF k < i THEN k ELSE k + 1]
<1>1. n \in Nat /\ DOMAIN s = 1 .. n /\ i \in 1 .. n
  OBVIOUS
<1>2. /\ a \in Seq(S) /\ Len(a) = i - 1 /\ \A k \in 1 .. i - 1 : a[k] = s[k]
      /\ b \in Seq(S) /\ Len(b) = n - i /\ \A k \in 1 .. n - i : b[k] = s[k + i]
  BY <1>1
<1> HIDE DEF a, b
<1>3. /\ a \o b \in Seq(S) /\ Len(a \o b) = Len(a) + Len(b)
      /\ \A k \in 1 .. Len(a) + Len(b) :
           (a \o b)[k] = IF k <= Len(a) THEN a[k] ELSE b[k - Len(a)]
  <2>1. a \in Seq(S) /\ b \in Seq(S)
    BY <1>2
  <2> QED  BY <2>1
<1> DEFINE t == RemoveAt(s, i)
<1>4. t = a \o b
  BY DEF RemoveAt, a, b
<1> HIDE DEF t
<1>5. /\ t \in Seq(S) /\ DOMAIN t = 1 .. n - 1
      /\ \A k \in 1 .. n - 1 : t[k] = IF k <= i - 1 THEN a[k] ELSE b[k - (i - 1)]
  <2>1. Len(a) = i - 1 /\ Len(b) = n - i /\ Len(a) + Len(b) = n - 1
    BY <1>1, <1>2
  <2> QED  BY <1>3, <1>4, <2>1
<1>6. ASSUME NEW k \in 1 .. n - 1
      PROVE  place[k] \in (1 .. n) \ {i} /\ t[k] = s[place[k]]
  <2>1. CASE k < i
    BY <1>1, <1>2, <1>5, <2>1
  <2>2. CASE ~(k < i)
    <3>1. k - (i - 1) \in 1 .. n - i /\ (k - (i - 1)) + i = k + 1 /\ ~(k <= i - 1)
      BY <1>1, <2>2
    <3>2. b[k - (i - 1)] = s[(k - (i - 1)) + i]
      BY <1>2, <3>1
    <3>3. place[k] = k + 1 /\ k + 1 \in (1 .. n) \ {i}
      BY <1>1, <2>2
    <3> QED  BY <1>5, <3>1, <3>2, <3>3
  <2> QED  BY <2>1, <2>2
<1>7. ASSUME NEW k \in (1 .. n) \ {i}  PROVE \E j \in 1 .. n - 1 : place[j] = k
  <2>1. CASE k < i
    BY <1>1, <2>1
  <2>2. CASE k > i
    <3>1. k - 1 \in 1 .. n - 1 /\ place[k - 1] = k
      BY <1>1, <2>2
    <3> QED  BY <3>1
  <2> QED  BY <1>1, <2>1, <2>2, k < i \/ k > i
<1>8. \A j, k \in 1 .. n - 1 : place[j] = place[k] => j = k
  BY <1>1
<1> HIDE DEF place
<1>9. Distinct(t)
  <2> SUFFICES ASSUME NEW j \in 1 .. n - 1, NEW k \in 1 .. n - 1, t[j] = t[k]  PROVE j = k
    BY <1>5 DEF Distinct
  <2>1. place[j] = place[k]
    BY <1>1, <1>6 DEF Distinct
  <2> QED  BY <1>8, <2>1
<1>10. ToSet(t) = ToSet(s) \ {s[i]}
  <2>1. \A x \in ToSet(t) : x \in ToSet(s) \ {s[i]}
    BY <1>1, <1>5, <1>6 DEF ToSet, Distinct
  <2>2. ASSUME NEW x \in ToSet(s) \ {s[i]}  PROVE x \in ToSet(t)
    <3>1. PICK k \in (1 .. n) \ {i} : s[k] = x
      BY <1>1, <2>2 DEF ToSet
    <3>2. PICK j \in 1 .. n - 1 : place[j] = k
      BY <1>7
    <3> QED  BY <1>5, <1>6, <3>1, <3>2 DEF ToSet
  <2> QED  BY <2>1, <2>2
<1> QED  BY <1>5, <1>9, <1>10 DEF t

LEMMA UnlistedFacts ==
  ASSUME TypeOK, NEW c \in Listed
  PROVE  /\ Unlisted(c) \in Seq(Cell)
         /\ Distinct(Unlisted(c))
         /\ ToSet(Unlisted(c)) = Listed \ {c}
<1>1. g_nc \in Seq(Cell) /\ Distinct(g_nc)
  BY DEF TypeOK, Distinct
<1>2. PICK k \in DOMAIN g_nc : g_nc[k] = c
  BY DEF Listed, ToSet
<1> DEFINE i == CHOOSE j \in DOMAIN g_nc : g_nc[j] = c
<1>3. i \in DOMAIN g_nc /\ g_nc[i] = c
  BY <1>2
<1> HIDE DEF i
<1>4. Unlisted(c) = RemoveAt(g_nc, i)
  BY DEF Unlisted, i
<1> QED  BY <1>1, <1>3, <1>4, RemoveAtFacts DEF Listed

\* The search finds the container of a descriptor, or nothing.
LEMMA Lookup ==
  ASSUME TypeOK, DescriptorsOwned, NEW f
  PROVE  /\ \A c \in Listed : cont[c].fd = f => get_noti_cont(f) = c
         /\ get_noti_cont(f) # NULL => /\ get_noti_cont(f) \in Listed
                                       /\ cont[get_noti_cont(f)].fd = f
         /\ Listed \subseteq Cell /\ NULL \notin Listed
<1>1. Listed \subseteq Cell /\ NULL \notin Listed
  BY RegistryAssumption DEF TypeOK, Listed, ToSet
<1>2. ASSUME NEW c \in Listed, cont[c].fd = f  PROVE get_noti_cont(f) = c
  <2>1. PICK k \in DOMAIN g_nc : g_nc[k] = c
    BY DEF Listed, ToSet
  <2>2. \A j \in Matches(f) : j = k
    BY <1>2, <2>1 DEF Matches, DescriptorsOwned, Listed, ToSet, TypeOK
  <2>3. k \in Matches(f) /\ k <= k
    BY <1>2, <2>1 DEF Matches, TypeOK
  <2>4. (CHOOSE m \in Matches(f) : \A j \in Matches(f) : m <= j) = k
    BY <2>2, <2>3
  <2> QED  BY <2>1, <2>3, <2>4 DEF get_noti_cont
<1>3. ASSUME get_noti_cont(f) # NULL
      PROVE  get_noti_cont(f) \in Listed /\ cont[get_noti_cont(f)].fd = f
  <2>1. PICK k \in Matches(f) : TRUE
    BY <1>3 DEF get_noti_cont
  <2>2. g_nc[k] \in Listed /\ cont[g_nc[k]].fd = f
    BY <2>1 DEF Matches, Listed, ToSet
  <2> QED  BY <1>2, <2>2
<1> QED  BY <1>1, <1>2, <1>3

\* The lowest free number is a free number.
LEMMA LowestFreeIsFree ==
  ASSUME FreeFd # {}
  PROVE  LowestFree \in FreeFd
<1> DEFINE Less == OpToRel(<, Nat)
<1>1. FreeFd \subseteq Nat
  BY RegistryAssumption DEF FreeFd, Fd
<1>2. PICK m \in FreeFd : \A g \in FreeFd : <<g, m>> \notin Less
  BY <1>1, NatLessThanWellFounded, WFMin, Zenon
<1>3. \A g \in FreeFd : m <= g
  <2>1. ASSUME NEW g \in FreeFd, ~(m <= g)  PROVE FALSE
    <3>1. m \in Nat /\ g \in Nat /\ g < m
      BY <1>1, <2>1
    <3>2. <<g, m>> \in Less
      BY <3>1 DEF OpToRel
    <3> QED  BY <1>2, <3>2
  <2> QED  BY <2>1
<1> HIDE DEF Less
<1> QED  BY <1>3, Zenon DEF LowestFree

-----------------------------------------------------------------------------
(* The inductive invariant.                                                *)

LEMMA InitIInv == Init => IInv
<1> SUFFICES ASSUME Init  PROVE IInv
  OBVIOUS
<1>1. ToSet(g_nc) = {} /\ DOMAIN g_nc = {} /\ g_nc \in Seq(Cell)
  BY DEF Init, ToSet
<1>2. TypeOK
  BY <1>1, RegistryAssumption DEF Init, TypeOK, noti_cont, htype, Fd, NoFd
<1>3. DescriptorsOwned /\ SourcesMatch
  BY <1>1 DEF Init, DescriptorsOwned, SourcesMatch
<1>4. OwnersListed /\ VersionKnown
  BY DEF Init, OwnersListed, VersionKnown
<1> QED  BY <1>2, <1>3, <1>4 DEF IInv

\* A release parses to a number.
LEMMA ParsedInt ==
  ASSUME NEW t \in Release
  PROVE  Parsed(t) \in Nat \cup {-1}
<1>1. t \in Seq(Nat)
  BY RegistryAssumption
<1>2. CASE Len(t) = 3
  <2>1. 1 \in 1 .. Len(t) /\ 2 \in 1 .. Len(t) /\ 3 \in 1 .. Len(t)
    BY <1>2
  <2>2. \A k \in 1 .. Len(t) : t[k] \in Nat
    BY <1>1
  <2>3. t[1] \in Nat /\ t[2] \in Nat /\ t[3] \in Nat
    BY <2>1, <2>2
  <2> QED  BY <1>2, <2>3 DEF Parsed, KERNEL_VERSION
<1> QED  BY <1>2 DEF Parsed

\* heynoti_init: the new container takes a number nobody has.
LEMMA InitStep ==
  ASSUME IInv, NEW o \in Owner, heynoti_init(o)
  PROVE  IInv'
<1> USE DEF IInv
<1>1. PICK v \in get_kern_ver :
        /\ kern_ver' = Cached(v)
        /\ \/ UNCHANGED <<open, g_nc, cont, mine>>
           \/ /\ v >= InotifyVersion
              /\ Cardinality(FreeFd) >= 2
              /\ open' = [open EXCEPT ![LowestFree] = "inotify"]
              /\ mine' = [mine EXCEPT ![o] = LowestFree]
              /\ \E c \in FreeCell :
                   /\ cont' = [cont EXCEPT ![c] = [fd |-> LowestFree, ht |-> "H_NONE",
                                                   handler |-> NULL, owner |-> o]]
                   /\ g_nc' = Append(g_nc, c)
  BY DEF heynoti_init, AfterFailedInit
<1>2. release' = release /\ attached' = attached
  BY DEF heynoti_init
<1>3. /\ v \in Nat \cup {-1}
      /\ ProcMounted => v = Parsed(release) \/ v = kern_ver
  BY ParsedInt DEF get_kern_ver, Text, TypeOK
<1>4. kern_ver' \in Nat /\ (ProcMounted => kern_ver' \in {0, Parsed(release)})
  BY <1>1, <1>3 DEF Cached, TypeOK, VersionKnown
<1>5. CASE UNCHANGED <<open, g_nc, cont, mine>>
  <2>1. TypeOK'
    BY <1>2, <1>4, <1>5 DEF TypeOK
  <2>2. DescriptorsOwned' /\ SourcesMatch' /\ OwnersListed'
    BY <1>2, <1>5 DEF DescriptorsOwned, SourcesMatch, OwnersListed, Listed
  <2>3. VersionKnown'
    BY <1>2, <1>4, <1>5 DEF VersionKnown
  <2> QED  BY <2>1, <2>2, <2>3
<1>6. CASE ~UNCHANGED <<open, g_nc, cont, mine>>
  <2>1. PICK c \in FreeCell :
          /\ v >= InotifyVersion
          /\ Cardinality(FreeFd) >= 2
          /\ open' = [open EXCEPT ![LowestFree] = "inotify"]
          /\ mine' = [mine EXCEPT ![o] = LowestFree]
          /\ cont' = [cont EXCEPT ![c] = [fd |-> LowestFree, ht |-> "H_NONE",
                                          handler |-> NULL, owner |-> o]]
          /\ g_nc' = Append(g_nc, c)
    BY <1>1, <1>6
  <2>2. LowestFree \in FreeFd
    <3>1. FreeFd # {}
      <4>1. ASSUME FreeFd = {}  PROVE Cardinality(FreeFd) = 0
        BY <4>1, FS_EmptySet
      <4> QED  BY <2>1, <4>1
    <3> QED  BY <3>1, LowestFreeIsFree
  <2> DEFINE f == LowestFree
  <2>3. f \in Fd /\ open[f] = "free" /\ f # NoFd
    BY <2>2, RegistryAssumption DEF FreeFd, Fd, NoFd
  <2>4. /\ c \in Cell /\ c \notin Listed /\ Listed \subseteq Cell
        /\ g_nc' \in Seq(Cell) /\ Distinct(g_nc') /\ Listed' = Listed \cup {c}
    <3>1. c \in Cell /\ c \notin ToSet(g_nc) /\ g_nc \in Seq(Cell) /\ Distinct(g_nc)
      BY DEF FreeCell, TypeOK, Distinct
    <3> QED  BY <2>1, <3>1, AppendFacts, Lookup DEF Listed
  <2> HIDE DEF f
  <2>5. /\ cont'[c] = [fd |-> f, ht |-> "H_NONE", handler |-> NULL, owner |-> o]
        /\ \A d \in Listed : cont'[d] = cont[d]
        /\ \A d \in Listed : cont[d].fd # f
    <3>1. \A d \in Listed : open[cont[d].fd] = "inotify"
      BY DEF DescriptorsOwned, Listed
    <3> QED  BY <2>1, <2>3, <2>4, <3>1 DEF TypeOK, f
  <2>6. TypeOK'
    <3>1. cont' \in [Cell -> noti_cont]
      BY <2>1, <2>3, <2>4 DEF TypeOK, noti_cont, htype, f
    <3>2. open' \in [Fd -> {"free", "inotify", "file"}] /\ mine' \in [Owner -> Fd \cup {NoFd}]
      BY <2>1, <2>3 DEF TypeOK, f
    <3> QED  BY <1>2, <1>4, <2>4, <3>1, <3>2 DEF TypeOK, Distinct
  <2>7. DescriptorsOwned'
    <3>1. {g \in Fd : open'[g] = "inotify"} = {g \in Fd : open[g] = "inotify"} \cup {f}
      BY <2>1, <2>3 DEF TypeOK, f
    <3>2. {cont'[d].fd : d \in Listed'} = {cont[d].fd : d \in Listed} \cup {f}
      <4>1. \A d \in Listed : cont'[d].fd = cont[d].fd
        BY <2>5
      <4>2. cont'[c].fd = f
        BY <2>5
      <4> QED  BY <2>4, <4>1, <4>2
    <3>3. \A d, e \in Listed' : cont'[d].fd = cont'[e].fd => d = e
      BY <2>4, <2>5 DEF DescriptorsOwned, Listed
    <3> QED  BY <3>1, <3>2, <3>3 DEF DescriptorsOwned, Listed
  <2>8. SourcesMatch'
    BY <1>2, <2>4, <2>5 DEF SourcesMatch, Listed
  <2>9. OwnersListed'
    <3> SUFFICES ASSUME NEW p \in Owner, mine'[p] # NoFd
                 PROVE  \E d \in Listed' : cont'[d].fd = mine'[p] /\ cont'[d].owner = p
      BY DEF OwnersListed
    <3>1. CASE p = o
      BY <2>1, <2>4, <2>5, <3>1 DEF TypeOK, f
    <3>2. CASE p # o
      BY <2>1, <2>4, <2>5, <3>2 DEF TypeOK, OwnersListed
    <3> QED  BY <3>1, <3>2
  <2>10. VersionKnown'
    <3>1. ProcMounted => v = Parsed(release)
      <4>1. InotifyVersion > 0
        BY DEF InotifyVersion, KERNEL_VERSION
      <4>2. v # 0
        BY <1>3, <2>1, <4>1 DEF InotifyVersion, KERNEL_VERSION
      <4> QED  BY <1>3, <4>2 DEF VersionKnown
    <3> QED  BY <1>2, <1>4, <2>1, <3>1 DEF VersionKnown
  <2> QED  BY <2>6, <2>7, <2>8, <2>9, <2>10
<1> QED  BY <1>5, <1>6

\* heynoti_attach_handler: the new source was attached to no descriptor.
LEMMA AttachStep ==
  ASSUME IInv, NEW o \in Owner, heynoti_attach_handler(o)
  PROVE  IInv'
<1> USE DEF IInv
<1> DEFINE c == get_noti_cont(mine[o])
<1>1. UNCHANGED <<release, kern_ver, open, g_nc, mine>> /\ Listed' = Listed
  BY DEF heynoti_attach_handler, Listed
<1>2. CASE UNCHANGED <<cont, attached>>
  <2>1. TypeOK' /\ DescriptorsOwned' /\ SourcesMatch'
    BY <1>1, <1>2 DEF TypeOK, DescriptorsOwned, SourcesMatch, Listed
  <2>2. OwnersListed' /\ VersionKnown'
    BY <1>1, <1>2 DEF OwnersListed, VersionKnown
  <2> QED  BY <2>1, <2>2
<1>3. CASE ~UNCHANGED <<cont, attached>>
  <2>1. PICK s \in Source :
          /\ c # NULL /\ cont[c].ht = "H_NONE"
          /\ attached[s] = NoFd
          /\ attached' = [attached EXCEPT ![s] = mine[o]]
          /\ cont' = [cont EXCEPT ![c].handler = s, ![c].ht = "H_GLIB"]
    BY <1>3 DEF heynoti_attach_handler
  <2>2. c \in Listed /\ cont[c].fd = mine[o] /\ Listed \subseteq Cell
    BY <2>1, Lookup
  <2> HIDE DEF c
  <2>3. /\ cont[c] \in noti_cont /\ cont \in [Cell -> noti_cont]
        /\ attached \in [Source -> Fd \cup {NoFd}]
    BY <2>2 DEF TypeOK
  <2>4. /\ cont'[c] = [cont[c] EXCEPT !.handler = s, !.ht = "H_GLIB"]
        /\ \A d \in Listed : d # c => cont'[d] = cont[d]
        /\ attached'[s] = cont[c].fd
        /\ \A r \in Source : r # s => attached'[r] = attached[r]
    BY <2>1, <2>2, <2>3
  <2>5. /\ cont'[c].fd = cont[c].fd /\ cont'[c].ht = "H_GLIB" /\ cont'[c].handler = s
        /\ cont'[c].owner = cont[c].owner
    BY <2>3, <2>4 DEF noti_cont
  <2>6. TypeOK'
    <3>1. cont'[c] \in noti_cont
      BY <2>3, <2>4 DEF noti_cont, htype
    <3>2. cont' \in [Cell -> noti_cont]
      <4>1. cont' = [cont EXCEPT ![c] = [cont[c] EXCEPT !.handler = s, !.ht = "H_GLIB"]]
        BY <2>1, <2>2, <2>3 DEF noti_cont
      <4> QED  BY <2>2, <2>3, <2>4, <3>1, <4>1
    <3>3. attached' \in [Source -> Fd \cup {NoFd}]
      BY <2>1, <2>3 DEF TypeOK
    <3> QED  BY <1>1, <3>2, <3>3 DEF TypeOK
  <2>7. DescriptorsOwned'
    <3>1. \A d \in Listed : cont'[d].fd = cont[d].fd
      BY <2>4, <2>5
    <3> QED  BY <1>1, <3>1 DEF DescriptorsOwned, Listed
  <2>8. SourcesMatch'
    <3>1. \A d \in Listed : cont[d].ht = "H_GLIB" => cont[d].handler # s
      <4>1. \A d \in Listed : cont[d].fd # NoFd
        BY <2>2, RegistryAssumption DEF TypeOK, noti_cont, Fd, NoFd
      <4> QED  BY <2>1, <4>1 DEF SourcesMatch, Listed
    <3>2. ASSUME NEW r \in Source, attached'[r] # NoFd
          PROVE  \E d \in Listed : /\ cont'[d].ht = "H_GLIB" /\ cont'[d].handler = r
                                   /\ cont'[d].fd = attached'[r]
      <4>1. CASE r = s
        BY <2>2, <2>4, <2>5, <4>1
      <4>2. CASE r # s
        <5>1. PICK d \in Listed : cont[d].ht = "H_GLIB" /\ cont[d].handler = r /\ cont[d].fd = attached[r]
          BY <2>4, <3>2, <4>2 DEF SourcesMatch, Listed
        <5> QED  BY <2>1, <2>4, <4>2, <5>1
      <4> QED  BY <4>1, <4>2
    <3>3. ASSUME NEW d \in Listed, cont'[d].ht = "H_GLIB"
          PROVE  cont'[d].handler \in Source /\ attached'[cont'[d].handler] = cont'[d].fd
      <4>1. CASE d = c
        BY <2>4, <2>5, <4>1
      <4>2. CASE d # c
        BY <2>4, <3>1, <3>3, <4>2 DEF SourcesMatch, Listed
      <4> QED  BY <4>1, <4>2
    <3> QED  BY <1>1, <3>2, <3>3 DEF SourcesMatch, Listed
  <2>9. OwnersListed'
    <3>1. \A d \in Listed : cont'[d].fd = cont[d].fd /\ cont'[d].owner = cont[d].owner
      BY <2>4, <2>5
    <3> QED  BY <1>1, <3>1 DEF OwnersListed
  <2>10. VersionKnown'
    BY <1>1 DEF VersionKnown
  <2> QED  BY <2>6, <2>7, <2>8, <2>9, <2>10
<1> QED  BY <1>2, <1>3

\* What detach and close have in common: the handler of c is gone, those of
\* the other containers are as they were.
LEMMA DetachFacts ==
  ASSUME IInv, NEW c \in Listed, DestroySource(c), cont' = Detached(c)
  PROVE  /\ cont' \in [Cell -> noti_cont]
         /\ attached' \in [Source -> Fd \cup {NoFd}]
         /\ cont'[c].ht = "H_NONE"
         /\ \A d \in Listed : /\ cont'[d].fd = cont[d].fd /\ cont'[d].owner = cont[d].owner
                              /\ d # c => cont'[d] = cont[d]
         /\ \A s \in Source : attached'[s] # NoFd =>
              \E d \in Listed \ {c} : /\ cont'[d].ht = "H_GLIB" /\ cont'[d].handler = s
                                      /\ cont'[d].fd = attached'[s]
         /\ \A d \in Listed \ {c} : cont'[d].ht = "H_GLIB" =>
              cont'[d].handler \in Source /\ attached'[cont'[d].handler] = cont'[d].fd
<1> USE DEF IInv
<1>1. /\ Listed \subseteq Cell /\ c \in Cell
      /\ cont \in [Cell -> noti_cont] /\ cont[c] \in noti_cont
      /\ attached \in [Source -> Fd \cup {NoFd}]
  BY Lookup DEF TypeOK
<1>2. cont' = [cont EXCEPT ![c] = [cont[c] EXCEPT !.handler = NULL, !.ht = "H_NONE"]]
  BY <1>1 DEF Detached, noti_cont
<1>3. /\ cont'[c] = [cont[c] EXCEPT !.handler = NULL, !.ht = "H_NONE"]
      /\ \A d \in Listed : d # c => cont'[d] = cont[d]
  BY <1>1, <1>2
<1>4. /\ cont'[c].ht = "H_NONE" /\ cont'[c].fd = cont[c].fd
      /\ cont'[c].owner = cont[c].owner /\ cont'[c] \in noti_cont
  BY <1>1, <1>3 DEF noti_cont, htype
<1>5. cont' \in [Cell -> noti_cont]
  BY <1>1, <1>2, <1>3, <1>4
<1>6. \A d \in Listed : cont[d].fd # NoFd
  BY <1>1, RegistryAssumption DEF noti_cont, Fd, NoFd
<1>7. CASE cont[c].ht = "H_GLIB"
  <2> DEFINE h == cont[c].handler
  <2>1. h \in Source /\ attached[h] = cont[c].fd
    BY <1>7 DEF SourcesMatch, Listed
  <2>2. attached' = [attached EXCEPT ![h] = NoFd]
    BY <1>7 DEF DestroySource
  <2>3. /\ attached' \in [Source -> Fd \cup {NoFd}] /\ attached'[h] = NoFd
        /\ \A s \in Source : s # h => attached'[s] = attached[s]
    BY <1>1, <2>1, <2>2
  <2>4. \A d \in Listed : d # c /\ cont[d].ht = "H_GLIB" => cont[d].handler # h
    BY <2>1 DEF SourcesMatch, DescriptorsOwned, Listed
  <2> HIDE DEF h
  <2>5. ASSUME NEW s \in Source, attached'[s] # NoFd
        PROVE  \E d \in Listed \ {c} : /\ cont'[d].ht = "H_GLIB" /\ cont'[d].handler = s
                                       /\ cont'[d].fd = attached'[s]
    <3>1. s # h /\ attached'[s] = attached[s]
      BY <2>3, <2>5
    <3>2. PICK d \in Listed : cont[d].ht = "H_GLIB" /\ cont[d].handler = s /\ cont[d].fd = attached[s]
      BY <2>5, <3>1 DEF SourcesMatch, Listed
    <3>3. d # c
      BY <3>1, <3>2 DEF h
    <3> QED  BY <1>3, <3>1, <3>2, <3>3
  <2>6. \A d \in Listed \ {c} : cont'[d].ht = "H_GLIB" =>
          cont'[d].handler \in Source /\ attached'[cont'[d].handler] = cont'[d].fd
    BY <1>3, <2>3, <2>4 DEF SourcesMatch, Listed
  <2> QED  BY <1>3, <1>4, <1>5, <2>3, <2>5, <2>6
<1>8. CASE cont[c].ht # "H_GLIB"
  <2>1. attached' = attached
    BY <1>8 DEF DestroySource
  <2>2. ASSUME NEW s \in Source, attached'[s] # NoFd
        PROVE  \E d \in Listed \ {c} : /\ cont'[d].ht = "H_GLIB" /\ cont'[d].handler = s
                                       /\ cont'[d].fd = attached'[s]
    <3>1. PICK d \in Listed : cont[d].ht = "H_GLIB" /\ cont[d].handler = s /\ cont[d].fd = attached[s]
      BY <2>1, <2>2 DEF SourcesMatch, Listed
    <3> QED  BY <1>3, <1>8, <2>1, <3>1
  <2>3. \A d \in Listed \ {c} : cont'[d].ht = "H_GLIB" =>
          cont'[d].handler \in Source /\ attached'[cont'[d].handler] = cont'[d].fd
    BY <1>3, <2>1 DEF SourcesMatch, Listed
  <2> QED  BY <1>1, <1>3, <1>4, <1>5, <2>1, <2>2, <2>3
<1> QED  BY <1>7, <1>8

LEMMA DetachStep ==
  ASSUME IInv, NEW o \in Owner, heynoti_detach_handler(o)
  PROVE  IInv'
<1> USE DEF IInv
<1> DEFINE c == get_noti_cont(mine[o])
<1>1. /\ c # NULL /\ DestroySource(c) /\ cont' = Detached(c)
      /\ UNCHANGED <<release, kern_ver, open, g_nc, mine>> /\ Listed' = Listed
  BY DEF heynoti_detach_handler, Listed
<1>2. c \in Listed
  BY <1>1, Lookup
<1> HIDE DEF c
<1>3. TypeOK'
  BY <1>1, <1>2, DetachFacts DEF TypeOK
<1>4. \A d \in Listed : cont'[d].fd = cont[d].fd /\ cont'[d].owner = cont[d].owner
  BY <1>1, <1>2, DetachFacts
<1>5. DescriptorsOwned' /\ OwnersListed' /\ VersionKnown'
  BY <1>1, <1>4 DEF DescriptorsOwned, OwnersListed, VersionKnown, Listed
<1>6. SourcesMatch'
  <2>1. ASSUME NEW s \in Source, attached'[s] # NoFd
        PROVE  \E d \in Listed : /\ cont'[d].ht = "H_GLIB" /\ cont'[d].handler = s
                                 /\ cont'[d].fd = attached'[s]
    BY <1>1, <1>2, <2>1, DetachFacts
  <2>2. ASSUME NEW d \in Listed, cont'[d].ht = "H_GLIB"
        PROVE  cont'[d].handler \in Source /\ attached'[cont'[d].handler] = cont'[d].fd
    <3>1. d \in Listed \ {c}
      BY <1>1, <1>2, <2>2, DetachFacts
    <3> QED  BY <1>1, <1>2, <2>2, <3>1, DetachFacts
  <2> QED  BY <1>1, <2>1, <2>2 DEF SourcesMatch, Listed
<1> QED  BY <1>3, <1>5, <1>6

\* heynoti_close: container, source and number go in one step.
LEMMA CloseStep ==
  ASSUME IInv, NEW o \in Owner, heynoti_close(o)
  PROVE  IInv'
<1> USE DEF IInv
<1> DEFINE c == get_noti_cont(mine[o])
<1>1. /\ c # NULL /\ DestroySource(c) /\ cont' = Detached(c)
      /\ open' = [open EXCEPT ![cont[c].fd] = "free"]
      /\ g_nc' = Unlisted(c)
      /\ mine' = [mine EXCEPT ![o] = NoFd]
      /\ UNCHANGED <<release, kern_ver>>
  BY DEF heynoti_close
<1>2. c \in Listed /\ cont[c].fd = mine[o] /\ Listed \subseteq Cell
  BY <1>1, Lookup
<1> HIDE DEF c
<1>3. /\ g_nc' \in Seq(Cell) /\ Distinct(g_nc') /\ Listed' = Listed \ {c}
  BY <1>1, <1>2, UnlistedFacts DEF Listed
<1>4. /\ open \in [Fd -> {"free", "inotify", "file"}] /\ cont[c].fd \in Fd
      /\ \A d \in Listed : cont[d].fd \in Fd
  BY <1>2 DEF TypeOK, noti_cont
<1>5. TypeOK'
  <2>1. open' \in [Fd -> {"free", "inotify", "file"}] /\ mine' \in [Owner -> Fd \cup {NoFd}]
    BY <1>1, <1>4 DEF TypeOK
  <2>2. cont' \in [Cell -> noti_cont] /\ attached' \in [Source -> Fd \cup {NoFd}]
    BY <1>1, <1>2, DetachFacts
  <2> QED  BY <1>1, <1>3, <2>1, <2>2 DEF TypeOK, Distinct
<1>6. \A d \in Listed : cont'[d].fd = cont[d].fd /\ cont'[d].owner = cont[d].owner
  BY <1>1, <1>2, DetachFacts
<1>7. \A d, e \in Listed : cont[d].fd = cont[e].fd => d = e
  BY DEF DescriptorsOwned, Listed
<1>8. DescriptorsOwned'
  <2>1. {f \in Fd : open'[f] = "inotify"} = {f \in Fd : open[f] = "inotify"} \ {cont[c].fd}
    BY <1>1, <1>4
  <2>2. {cont'[d].fd : d \in Listed'} = {cont[d].fd : d \in Listed} \ {cont[c].fd}
    <3>1. \A d \in Listed \ {c} : cont'[d].fd = cont[d].fd /\ cont[d].fd # cont[c].fd
      BY <1>2, <1>6, <1>7
    <3> QED  BY <1>2, <1>3, <3>1
  <2>3. \A d, e \in Listed' : cont'[d].fd = cont'[e].fd => d = e
    BY <1>3, <1>6, <1>7
  <2>4. {f \in Fd : open[f] = "inotify"} = {cont[d].fd : d \in Listed}
    BY DEF DescriptorsOwned, Listed
  <2> QED  BY <2>1, <2>2, <2>3, <2>4 DEF DescriptorsOwned, Listed
<1>9. SourcesMatch'
  BY <1>1, <1>2, <1>3, DetachFacts DEF SourcesMatch, Listed
<1>10. OwnersListed'
  <2> SUFFICES ASSUME NEW p \in Owner, mine'[p] # NoFd
               PROVE  \E d \in Listed' : cont'[d].fd = mine'[p] /\ cont'[d].owner = p
    BY DEF OwnersListed
  <2>1. mine[o] # NoFd
    BY <1>2, <1>4, RegistryAssumption DEF Fd, NoFd
  <2>2. cont[c].owner = o
    BY <1>2, <1>7, <2>1 DEF OwnersListed
  <2>3. p # o /\ mine'[p] = mine[p]
    BY <1>1 DEF TypeOK
  <2>4. PICK d \in Listed : cont[d].fd = mine[p] /\ cont[d].owner = p
    BY <2>3 DEF OwnersListed
  <2>5. d # c
    BY <2>2, <2>3, <2>4
  <2> QED  BY <1>3, <1>6, <2>3, <2>4, <2>5
<1>11. VersionKnown'
  <2>1. g_nc' # << >> => g_nc # << >>
    <3>1. \E k \in DOMAIN g_nc : TRUE
      BY <1>2 DEF Listed, ToSet
    <3>2. DOMAIN << >> = {}
      OBVIOUS
    <3> QED  BY <3>1, <3>2
  <2> QED  BY <1>1, <2>1 DEF VersionKnown
<1> QED  BY <1>5, <1>8, <1>9, <1>10, <1>11

\* The process opens and closes files of its own.
LEMMA FileStep ==
  ASSUME IInv, open_file \/ \E f \in Fd : close_file(f)
  PROVE  IInv' /\ UNCHANGED <<g_nc, cont>>
<1> USE DEF IInv
<1>1. /\ UNCHANGED <<release, kern_ver, g_nc, cont, attached, mine>>
      /\ open' \in [Fd -> {"free", "inotify", "file"}]
      /\ \A f \in Fd : open'[f] = "inotify" <=> open[f] = "inotify"
  <2>1. CASE open_file
    <3>1. LowestFree \in Fd /\ open[LowestFree] = "free"
      BY <2>1, LowestFreeIsFree DEF open_file, FreeFd
    <3> QED  BY <2>1, <3>1 DEF open_file, TypeOK
  <2>2. CASE \E f \in Fd : close_file(f)
    BY <2>2 DEF close_file, TypeOK
  <2> QED  BY <2>1, <2>2
<1>2. TypeOK' /\ DescriptorsOwned'
  BY <1>1 DEF TypeOK, DescriptorsOwned
<1>3. SourcesMatch' /\ OwnersListed' /\ VersionKnown'
  BY <1>1 DEF SourcesMatch, OwnersListed, VersionKnown, Listed
<1> QED  BY <1>1, <1>2, <1>3

LEMMA Inductive ==
  ASSUME IInv, [Next]_vars
  PROVE  IInv'
<1>1. ASSUME NEW o \in Owner, heynoti_init(o)  PROVE IInv'
  BY <1>1, InitStep
<1>2. ASSUME NEW o \in Owner, heynoti_attach_handler(o)  PROVE IInv'
  BY <1>2, AttachStep
<1>3. ASSUME NEW o \in Owner, heynoti_detach_handler(o)  PROVE IInv'
  BY <1>3, DetachStep
<1>4. ASSUME NEW o \in Owner, heynoti_close(o)  PROVE IInv'
  BY <1>4, CloseStep
<1>5. CASE open_file \/ \E f \in Fd : close_file(f)
  BY <1>5, FileStep
<1>6. CASE UNCHANGED vars
  BY <1>6 DEF vars, IInv, TypeOK, DescriptorsOwned, SourcesMatch, OwnersListed, VersionKnown, Listed
<1> QED  BY <1>1, <1>2, <1>3, <1>4, <1>5, <1>6 DEF Next

-----------------------------------------------------------------------------
(* The theorems.                                                           *)

THEOREM Invariance == Spec => []IInv
<1>1. Init => IInv
  BY InitIInv
<1>2. IInv /\ [Next]_vars => IInv'
  BY Inductive
<1> QED  BY <1>1, <1>2, PTL DEF Spec

\* However calls of the library and of the process interleave, the list, the
\* sources and the owners' descriptors keep their form.
THEOREM TypeCorrect == Spec => []TypeOK
<1>1. IInv => TypeOK
  BY DEF IInv
<1> QED  BY <1>1, Invariance, PTL

\* No inotify descriptor of the process is without a container, after any
\* failure of heynoti_init and at any limit on descriptors.
THEOREM NoDescriptorLeaks == Spec => []DescriptorsOwned
<1>1. IInv => DescriptorsOwned
  BY DEF IInv
<1> QED  BY <1>1, Invariance, PTL

\* No source of the main loop outlives its container.
THEOREM NoSourceSurvives == Spec => []SourcesMatch
<1>1. IInv => SourcesMatch
  BY DEF IInv
<1> QED  BY <1>1, Invariance, PTL

\* Reused descriptor numbers never lead one part of the application to the
\* container of another.
THEOREM Isolation == Spec => []OwnersIsolated
<1>1. IInv => OwnersIsolated
  <2> SUFFICES ASSUME IInv, NEW o \in Owner, mine[o] # NoFd
               PROVE  /\ get_noti_cont(mine[o]) # NULL
                      /\ cont[get_noti_cont(mine[o])].owner = o
    BY DEF OwnersIsolated
  <2>1. PICK c \in Listed : cont[c].fd = mine[o] /\ cont[c].owner = o
    BY DEF IInv, OwnersListed
  <2>2. get_noti_cont(mine[o]) = c /\ c # NULL
    BY <2>1, Lookup DEF IInv
  <2> QED  BY <2>1, <2>2
<1> QED  BY <1>1, Invariance, PTL

\* No container is made on a kernel older than 2.6.13, if the version can be
\* read; major versions above 2 may have numbers of any size.
THEOREM VersionGate ==
  ASSUME ProcMounted
  PROVE  Spec => []GateSound
<1>1. IInv => GateSound
  <2> SUFFICES ASSUME IInv, g_nc # << >>
               PROVE  Len(release) = 3 /\ AtLeast2613(release)
    BY DEF GateSound
  <2>1. Parsed(release) >= InotifyVersion /\ release \in Release
    BY DEF IInv, VersionKnown, TypeOK
  <2>2. release \in Seq(Nat) /\ (Len(release) = 3 /\ release[1] <= 2 =>
                                   release[2] <= 255 /\ release[3] <= 255)
    BY <2>1, RegistryAssumption
  <2>3. Len(release) = 3
    BY <2>1 DEF Parsed, InotifyVersion, KERNEL_VERSION
  <2>4. release[1] \in Nat /\ release[2] \in Nat /\ release[3] \in Nat
    <3>1. \A k \in 1 .. Len(release) : release[k] \in Nat
      BY <2>2
    <3>2. \A k \in 1 .. 3 : release[k] \in Nat
      BY <2>3, <3>1
    <3>3. 1 \in 1 .. 3 /\ 2 \in 1 .. 3 /\ 3 \in 1 .. 3
      OBVIOUS
    <3> QED  BY <3>2, <3>3
  <2>5. release[1] * 65536 + release[2] * 256 + release[3] >= 132621
    BY <2>1, <2>3, <2>4 DEF Parsed, InotifyVersion, KERNEL_VERSION
  <2>6. release[1] <= 2 => release[2] <= 255 /\ release[3] <= 255
    BY <2>2, <2>3
  <2>7. AtLeast2613(release)
    <3>1. ASSUME NEW x \in Nat, NEW y \in Nat, NEW z \in Nat,
                 x * 65536 + y * 256 + z >= 132621, x <= 2 => y <= 255 /\ z <= 255
          PROVE  x > 2 \/ (x = 2 /\ y > 6) \/ (x = 2 /\ y = 6 /\ z >= 13)
      <4>1. CASE x > 2
        BY <4>1
      <4>2. CASE x = 2
        BY <3>1, <4>2
      <4>3. CASE x < 2
        BY <3>1, <4>3
      <4> QED  BY <4>1, <4>2, <4>3
    <3> DEFINE x == release[1]
               y == release[2]
               z == release[3]
    <3>2. /\ x \in Nat /\ y \in Nat /\ z \in Nat
          /\ x * 65536 + y * 256 + z >= 132621
          /\ x <= 2 => y <= 255 /\ z <= 255
      BY <2>4, <2>5, <2>6
    <3>3. (x > 2 \/ (x = 2 /\ y > 6) \/ (x = 2 /\ y = 6 /\ z >= 13)) => AtLeast2613(release)
      BY DEF AtLeast2613
    <3> HIDE DEF x, y, z
    <3> QED  BY <3>1, <3>2, <3>3
  <2> QED  BY <2>3, <2>7
<1> QED  BY <1>1, Invariance, PTL

-----------------------------------------------------------------------------
(* The refinement of NotiMap.                                              *)

Entry == [f \in Fd |-> IF get_noti_cont(f) = NULL THEN "absent"
                       ELSE cont[get_noti_cont(f)].ht]

\* The map without the search.
EntryOf(f, h) ==
  \/ h = "absent" /\ \A c \in Listed : cont[c].fd # f
  \/ \E c \in Listed : cont[c].fd = f /\ h = cont[c].ht

EntryIs ==
  /\ Entry = [f \in Fd |-> Entry[f]]
  /\ \A f \in Fd : EntryOf(f, Entry[f])
  /\ \A c \in Listed : cont[c].fd \in Fd /\ Entry[cont[c].fd] = cont[c].ht

LEMMA EntryFacts == IInv => EntryIs
<1> SUFFICES ASSUME IInv  PROVE EntryIs
  OBVIOUS
<1>1. Entry = [f \in Fd |-> Entry[f]]
  BY DEF Entry
<1>2. ASSUME NEW f \in Fd  PROVE EntryOf(f, Entry[f])
  BY Lookup DEF Entry, EntryOf, IInv
<1>3. \A c \in Listed : cont[c].fd \in Fd
  BY Lookup DEF IInv, TypeOK, noti_cont
<1>4. ASSUME NEW c \in Listed  PROVE Entry[cont[c].fd] = cont[c].ht
  BY <1>3, Lookup DEF Entry, IInv
<1> QED  BY <1>1, <1>2, <1>3, <1>4 DEF EntryIs

LEMMA EntryFactsNext == IInv' => EntryIs'
  BY EntryFacts, PTL

\* The only way to change an entry is to change a listed container of its
\* number or the list.
LEMMA SameEntry ==
  ASSUME IInv, IInv', NEW f \in Fd,
         \A c \in Listed : cont[c].fd = f =>
           c \in Listed' /\ cont'[c].fd = f /\ cont'[c].ht = cont[c].ht,
         (\A c \in Listed : cont[c].fd # f) => \A c \in Listed' : cont'[c].fd # f
  PROVE  Entry'[f] = Entry[f]
<1>1. EntryIs /\ EntryIs'
  BY EntryFacts, EntryFactsNext
<1>2. CASE \E c \in Listed : cont[c].fd = f
  <2>1. PICK c \in Listed : cont[c].fd = f
    BY <1>2
  <2>2. Entry[f] = cont[c].ht
    BY <1>1, <2>1 DEF EntryIs
  <2>3. Entry'[f] = cont'[c].ht
    BY <1>1, <2>1 DEF EntryIs
  <2> QED  BY <2>1, <2>2, <2>3
<1>3. CASE \A c \in Listed : cont[c].fd # f
  BY <1>1, <1>3 DEF EntryIs, EntryOf
<1> QED  BY <1>2, <1>3

\* A step that changes the entry of one descriptor only.
LEMMA OneEntry ==
  ASSUME IInv, IInv', NEW f \in Fd, NEW h, Entry'[f] = h,
         \A g \in Fd \ {f} : Entry'[g] = Entry[g]
  PROVE  Entry' = [Entry EXCEPT ![f] = h]
<1>1. EntryIs /\ EntryIs'
  BY EntryFacts, EntryFactsNext
<1>2. Entry = [g \in Fd |-> Entry[g]] /\ Entry' = [g \in Fd |-> Entry'[g]]
  BY <1>1 DEF EntryIs
<1>3. \A g \in Fd : [Entry EXCEPT ![f] = h][g] = Entry'[g]
  BY <1>2
<1> QED  BY <1>2, <1>3

MapStep == Map!Next \/ Entry' = Entry

LEMMA InitRefines ==
  ASSUME IInv, IInv', NEW o \in Owner, heynoti_init(o)
  PROVE  MapStep
<1> USE DEF IInv
<1>1. CASE UNCHANGED <<g_nc, cont>>
  BY <1>1 DEF MapStep, Entry, get_noti_cont, Matches
<1>2. CASE ~UNCHANGED <<g_nc, cont>>
  <2>1. PICK c \in FreeCell :
          /\ Cardinality(FreeFd) >= 2
          /\ cont' = [cont EXCEPT ![c] = [fd |-> LowestFree, ht |-> "H_NONE",
                                          handler |-> NULL, owner |-> o]]
          /\ g_nc' = Append(g_nc, c)
    BY <1>2 DEF heynoti_init
  <2> DEFINE f == LowestFree
  <2>2. f \in Fd /\ open[f] = "free"
    <3>1. FreeFd # {}
      <4>1. ASSUME FreeFd = {}  PROVE Cardinality(FreeFd) = 0
        BY <4>1, FS_EmptySet
      <4> QED  BY <2>1, <4>1
    <3> QED  BY <3>1, LowestFreeIsFree DEF FreeFd
  <2>3. /\ c \in Cell /\ c \notin Listed /\ Listed' = Listed \cup {c}
    <3>1. c \in Cell /\ c \notin ToSet(g_nc) /\ g_nc \in Seq(Cell) /\ Distinct(g_nc)
      BY DEF FreeCell, TypeOK, Distinct
    <3> QED  BY <2>1, <3>1, AppendFacts DEF Listed
  <2> HIDE DEF f
  <2>4. /\ cont'[c].fd = f /\ cont'[c].ht = "H_NONE"
        /\ \A d \in Listed : cont'[d] = cont[d] /\ cont[d].fd # f
    <3>1. \A d \in Listed : open[cont[d].fd] = "inotify" /\ d \in Cell
      BY Lookup DEF DescriptorsOwned, Listed
    <3> QED  BY <2>1, <2>2, <2>3, <3>1 DEF TypeOK, f
  <2>5. ASSUME NEW g \in Fd \ {f}  PROVE Entry'[g] = Entry[g]
    <3>1. \A d \in Listed : cont[d].fd = g =>
            d \in Listed' /\ cont'[d].fd = g /\ cont'[d].ht = cont[d].ht
      BY <2>3, <2>4
    <3>2. (\A d \in Listed : cont[d].fd # g) => \A d \in Listed' : cont'[d].fd # g
      BY <2>3, <2>4
    <3> QED  BY <3>1, <3>2, SameEntry
  <2>6. Entry'[f] = "H_NONE"
    BY <2>2, <2>3, <2>4, EntryFactsNext DEF EntryIs
  <2>7. Entry[f] = "absent"
    BY <2>2, <2>4, EntryFacts DEF EntryIs, EntryOf
  <2>8. Entry' = [Entry EXCEPT ![f] = "H_NONE"]
    BY <2>2, <2>5, <2>6, OneEntry
  <2>9. Map!Open(f)
    BY <2>7, <2>8 DEF Map!Open, Entry
  <2> QED  BY <2>2, <2>9 DEF MapStep, Map!Next
<1> QED  BY <1>1, <1>2

LEMMA AttachRefines ==
  ASSUME IInv, IInv', NEW o \in Owner, heynoti_attach_handler(o)
  PROVE  MapStep
<1> USE DEF IInv
<1>1. CASE UNCHANGED <<cont, attached>>
  BY <1>1 DEF MapStep, Entry, get_noti_cont, Matches, heynoti_attach_handler
<1>2. CASE ~UNCHANGED <<cont, attached>>
  <2> DEFINE c == get_noti_cont(mine[o])
             f == cont[c].fd
  <2>1. PICK s \in Source :
          /\ c # NULL /\ cont[c].ht = "H_NONE"
          /\ cont' = [cont EXCEPT ![c].handler = s, ![c].ht = "H_GLIB"]
          /\ g_nc' = g_nc
    BY <1>2 DEF heynoti_attach_handler
  <2>2. c \in Listed /\ Listed \subseteq Cell /\ Listed' = Listed
    BY <2>1, Lookup DEF Listed
  <2> HIDE DEF c
  <2>3. f \in Fd /\ cont[c] \in noti_cont
    BY <2>2 DEF TypeOK, noti_cont
  <2>4. /\ cont'[c].fd = f /\ cont'[c].ht = "H_GLIB"
        /\ \A d \in Listed : d # c => cont'[d] = cont[d]
    BY <2>1, <2>2, <2>3 DEF TypeOK, noti_cont
  <2>5. \A d \in Listed : cont[d].fd = f => d = c
    BY <2>2 DEF DescriptorsOwned, Listed
  <2> HIDE DEF f
  <2>6. ASSUME NEW g \in Fd \ {f}  PROVE Entry'[g] = Entry[g]
    <3>1. \A d \in Listed : cont[d].fd = g =>
            d \in Listed' /\ cont'[d].fd = g /\ cont'[d].ht = cont[d].ht
      BY <2>2, <2>4 DEF f
    <3>2. (\A d \in Listed : cont[d].fd # g) => \A d \in Listed' : cont'[d].fd # g
      BY <2>2, <2>4
    <3> QED  BY <3>1, <3>2, SameEntry
  <2>7. Entry'[f] = "H_GLIB"
    BY <2>2, <2>3, <2>4, EntryFactsNext DEF EntryIs
  <2>8. Entry[f] = "H_NONE"
    BY <2>1, <2>2, EntryFacts DEF EntryIs, f
  <2>9. Entry' = [Entry EXCEPT ![f] = "H_GLIB"]
    BY <2>3, <2>6, <2>7, OneEntry
  <2>10. Map!Attach(f)
    BY <2>8, <2>9 DEF Map!Attach, Entry
  <2> QED  BY <2>3, <2>10 DEF MapStep, Map!Next
<1> QED  BY <1>1, <1>2

LEMMA DetachRefines ==
  ASSUME IInv, IInv', NEW o \in Owner, heynoti_detach_handler(o)
  PROVE  MapStep
<1> USE DEF IInv
<1> DEFINE c == get_noti_cont(mine[o])
           f == cont[c].fd
<1>1. /\ c # NULL /\ DestroySource(c) /\ cont' = Detached(c) /\ Listed' = Listed
  BY DEF heynoti_detach_handler, Listed
<1>2. c \in Listed /\ f \in Fd
  BY <1>1, Lookup DEF TypeOK, noti_cont
<1> HIDE DEF c
<1>3. /\ cont'[c].fd = f /\ cont'[c].ht = "H_NONE" /\ cont[c].ht \in htype
      /\ \A d \in Listed : d # c => cont'[d] = cont[d]
  <2>1. cont[c].ht \in htype
    BY <1>2, Lookup DEF TypeOK, noti_cont
  <2>2. /\ cont'[c].ht = "H_NONE" /\ cont'[c].fd = cont[c].fd
        /\ \A d \in Listed : d # c => cont'[d] = cont[d]
    BY <1>1, <1>2, DetachFacts
  <2> QED  BY <2>1, <2>2
<1>4. \A d \in Listed : cont[d].fd = f => d = c
  BY <1>2 DEF DescriptorsOwned, Listed
<1> HIDE DEF f
<1>5. ASSUME NEW g \in Fd \ {f}  PROVE Entry'[g] = Entry[g]
  <2>1. \A d \in Listed : cont[d].fd = g =>
          d \in Listed' /\ cont'[d].fd = g /\ cont'[d].ht = cont[d].ht
    BY <1>1, <1>3 DEF f
  <2>2. (\A d \in Listed : cont[d].fd # g) => \A d \in Listed' : cont'[d].fd # g
    BY <1>1, <1>3
  <2> QED  BY <2>1, <2>2, SameEntry
<1>6. Entry'[f] = "H_NONE"
  BY <1>1, <1>2, <1>3, EntryFactsNext DEF EntryIs
<1>7. Entry[f] = cont[c].ht
  BY <1>2, EntryFacts DEF EntryIs, f
<1>8. Entry' = [Entry EXCEPT ![f] = "H_NONE"]
  BY <1>2, <1>5, <1>6, OneEntry
<1>9. CASE cont[c].ht = "H_GLIB"
  <2>1. Map!Detach(f)
    BY <1>7, <1>8, <1>9 DEF Map!Detach, Entry
  <2> QED  BY <1>2, <2>1 DEF MapStep, Map!Next
<1>10. CASE cont[c].ht = "H_NONE"
  <2>1. Entry' = Entry
    BY <1>2, <1>7, <1>8, <1>10 DEF Entry
  <2> QED  BY <2>1 DEF MapStep
<1> QED  BY <1>3, <1>9, <1>10 DEF htype

LEMMA CloseRefines ==
  ASSUME IInv, IInv', NEW o \in Owner, heynoti_close(o)
  PROVE  MapStep
<1> USE DEF IInv
<1> DEFINE c == get_noti_cont(mine[o])
           f == cont[c].fd
<1>1. /\ c # NULL /\ DestroySource(c) /\ cont' = Detached(c) /\ g_nc' = Unlisted(c)
  BY DEF heynoti_close
<1>2. c \in Listed /\ f \in Fd
  BY <1>1, Lookup DEF TypeOK, noti_cont
<1> HIDE DEF c
<1>3. Listed' = Listed \ {c}
  BY <1>1, <1>2, UnlistedFacts DEF Listed
<1>4. /\ \A d \in Listed : d # c => cont'[d] = cont[d] /\ cont'[d].fd = cont[d].fd
      /\ cont[c].ht \in htype
  <2>1. cont[c].ht \in htype
    BY <1>2, Lookup DEF TypeOK, noti_cont
  <2>2. \A d \in Listed : cont'[d].fd = cont[d].fd /\ (d # c => cont'[d] = cont[d])
    BY <1>1, <1>2, DetachFacts
  <2> QED  BY <2>1, <2>2
<1>5. \A d \in Listed : cont[d].fd = f => d = c
  BY <1>2 DEF DescriptorsOwned, Listed
<1> HIDE DEF f
<1>6. ASSUME NEW g \in Fd \ {f}  PROVE Entry'[g] = Entry[g]
  <2>1. \A d \in Listed : cont[d].fd = g =>
          d \in Listed' /\ cont'[d].fd = g /\ cont'[d].ht = cont[d].ht
    BY <1>3, <1>4 DEF f
  <2>2. (\A d \in Listed : cont[d].fd # g) => \A d \in Listed' : cont'[d].fd # g
    BY <1>3, <1>4
  <2> QED  BY <2>1, <2>2, SameEntry
<1>7. Entry'[f] = "absent"
  BY <1>2, <1>3, <1>4, <1>5, EntryFactsNext DEF EntryIs, EntryOf
<1>8. Entry[f] # "absent"
  BY <1>2, <1>4, EntryFacts DEF EntryIs, f, htype
<1>9. Entry' = [Entry EXCEPT ![f] = "absent"]
  BY <1>2, <1>6, <1>7, OneEntry
<1>10. Map!Close(f)
  BY <1>8, <1>9 DEF Map!Close, Entry
<1> QED  BY <1>2, <1>10 DEF MapStep, Map!Next

LEMMA StepRefines ==
  ASSUME IInv, IInv', [Next]_vars
  PROVE  MapStep
<1>1. ASSUME NEW o \in Owner, heynoti_init(o)  PROVE MapStep
  BY <1>1, InitRefines
<1>2. ASSUME NEW o \in Owner, heynoti_attach_handler(o)  PROVE MapStep
  BY <1>2, AttachRefines
<1>3. ASSUME NEW o \in Owner, heynoti_detach_handler(o)  PROVE MapStep
  BY <1>3, DetachRefines
<1>4. ASSUME NEW o \in Owner, heynoti_close(o)  PROVE MapStep
  BY <1>4, CloseRefines
<1>5. ASSUME UNCHANGED <<g_nc, cont>>  PROVE MapStep
  BY <1>5 DEF MapStep, Entry, get_noti_cont, Matches
<1>6. CASE open_file \/ \E f \in Fd : close_file(f)
  BY <1>5, <1>6, FileStep
<1>7. CASE UNCHANGED vars
  BY <1>5, <1>7 DEF vars
<1> QED  BY <1>1, <1>2, <1>3, <1>4, <1>6, <1>7 DEF Next

LEMMA InitRefined == Init => Map!Init
<1> SUFFICES ASSUME Init  PROVE Map!Init
  OBVIOUS
<1>1. \A f \in Fd : get_noti_cont(f) = NULL
  BY DEF Init, get_noti_cont, Matches
<1> QED  BY <1>1 DEF Map!Init

\* The list with its search, reused descriptor numbers and failing calls
\* implements the map from descriptors to handler states.
THEOREM RegistryRefinement == Spec => ImplementsMap
<1>1. Init => Map!Init
  BY InitRefined
<1>2. IInv /\ IInv' /\ [Next]_vars => [Map!Next]_Entry
  BY StepRefines DEF MapStep
<1>3. Spec => []IInv
  BY Invariance
<1> QED  BY <1>1, <1>2, <1>3, PTL DEF Spec, ImplementsMap, Map!Spec, Entry
=============================================================================

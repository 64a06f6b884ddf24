---------------------------- MODULE NotiRegistry ----------------------------
(***************************************************************************)
(* The containers of one process: the list g_nc that every call of the     *)
(* library searches by descriptor, the descriptors the kernel hands out    *)
(* and takes back, and the GLib sources that refer to them by number.      *)
(*                                                                         *)
(* The parts of the application that use the library (Owner) each keep one *)
(* descriptor between heynoti_init and heynoti_close, and the rest of the  *)
(* process opens and closes files of its own, so numbers are reused at     *)
(* once: the kernel always gives the lowest free one.                      *)
(***************************************************************************)
EXTENDS Integers, FiniteSets, SequencesExt

CONSTANTS
  MaxFd,        \* RLIMIT_NOFILE: the highest descriptor number
  Cell,         \* heap cells for struct noti_cont; calloc fails without one
  Source,       \* GSource objects
  Owner,        \* parts of the application, each with one descriptor
  Release,      \* the version numbers kernels report
  ProcMounted,  \* can /proc/version be read?
  NULL

ASSUME RegistryAssumption ==
  /\ MaxFd \in Nat
  /\ NULL \notin Cell /\ NULL \notin Source
  /\ Release \subseteq Seq(Nat)
  /\ \A r \in Release : Len(r) = 3 /\ r[1] <= 2 => r[2] <= 255 /\ r[3] <= 255
  /\ ProcMounted \in BOOLEAN

VARIABLES
  release,      \* version numbers of the running kernel
  kern_ver,     \* the version remembered by __get_kern_ver, or 0
  open,         \* the kernel's descriptor table
  g_nc,         \* the containers, in order of creation
  cont,         \* the contents of the cells, freed ones included
  attached,     \* the main loop's sources: source -> descriptor or NoFd
  mine          \* owner -> the descriptor it holds, or NoFd

vars == <<release, kern_ver, open, g_nc, cont, attached, mine>>

NoFd == -1
Fd == 0 .. MaxFd

htype == {"H_NONE", "H_GLIB"}

\* noti_cont; the owner is no field of the struct, properties use it.
noti_cont == [fd : Fd, ht : htype, handler : Source \cup {NULL}, owner : Owner \cup {NULL}]

FreeFd == {f \in Fd : open[f] = "free"}
LowestFree == CHOOSE f \in FreeFd : \A g \in FreeFd : f <= g
FreeCell == Cell \ ToSet(g_nc)

-----------------------------------------------------------------------------
(* The version of the kernel.                                              *)

WrongShift(a, b, c) == a * 65536 + b * 16 + c       \* mutant: a nibble, no byte
KERNEL_VERSION(a, b, c) == a * 65536 + b * 256 + c

\* What sscanf reads from a release: a version takes three numbers.
Parsed(nums) == IF Len(nums) = 3 THEN KERNEL_VERSION(nums[1], nums[2], nums[3]) ELSE -1

\* The text that is parsed. uname fails for a bad pointer only, and then
\* /proc/version says the same; failing that too, the buffer on the stack is
\* parsed as it is.
Text == IF ProcMounted THEN {release} ELSE {release} \cup Release

\* The values __get_kern_ver may return.
get_kern_ver == IF kern_ver # 0 THEN {kern_ver} ELSE {Parsed(t) : t \in Text}

\* Only a version is remembered.
CachesFailure(v) == v                               \* mutant: kern_ver set in any case
Cached(v) == IF v # -1 THEN v ELSE kern_ver

InotifyVersion == KERNEL_VERSION(2, 6, 13)

-----------------------------------------------------------------------------
(* The list of containers.                                                 *)

Matches(f) == {k \in DOMAIN g_nc : cont[g_nc[k]].fd = f}

OnlyLast(f) ==                                      \* mutant: no break at the match
  IF g_nc # << >> /\ cont[Last(g_nc)].fd = f THEN Last(g_nc) ELSE NULL
get_noti_cont(f) ==
  IF Matches(f) = {} THEN NULL
  ELSE g_nc[CHOOSE k \in Matches(f) : \A j \in Matches(f) : k <= j]

\* g_list_remove(g_nc, c)
Unlisted(c) == RemoveAt(g_nc, CHOOSE k \in DOMAIN g_nc : g_nc[k] = c)

-----------------------------------------------------------------------------
(* The calls of the library.                                               *)

\* A failing heynoti_init closes the descriptor it got, whatever failed.
LeaksFd == [open EXCEPT ![LowestFree] = "inotify"]  \* mutant: no close(fd)
AfterFailedInit == open

heynoti_init(o) ==
  /\ mine[o] = NoFd
  /\ \E v \in get_kern_ver :
       /\ kern_ver' = Cached(v)
       /\ \/ /\ v < InotifyVersion \/ FreeFd = {}
             /\ UNCHANGED <<open, g_nc, cont, mine>>
          \/ /\ v >= InotifyVersion /\ FreeFd # {}    \* root not readable, or ENOMEM
             /\ open' = AfterFailedInit
             /\ UNCHANGED <<g_nc, cont, mine>>
          \/ /\ v >= InotifyVersion
             /\ Cardinality(FreeFd) >= 2              \* one more to open the root
             /\ open' = [open EXCEPT ![LowestFree] = "inotify"]
             /\ mine' = [mine EXCEPT ![o] = LowestFree]
             /\ \E c \in FreeCell :
                  /\ cont' = [cont EXCEPT ![c] = [fd |-> LowestFree, ht |-> "H_NONE",
                                                  handler |-> NULL, owner |-> o]]
                  /\ g_nc' = Append(g_nc, c)
  /\ UNCHANGED <<release, attached>>

\* The owner without a descriptor asks with NoFd, which no container has.
heynoti_attach_handler(o) ==
  LET c == get_noti_cont(mine[o]) IN
  /\ \/ /\ UNCHANGED <<cont, attached>>               \* EBADF, EINPROGRESS, GLib refuses
     \/ /\ c # NULL /\ cont[c].ht = "H_NONE"
        /\ \E s \in Source :
             /\ attached[s] = NoFd
             /\ attached' = [attached EXCEPT ![s] = mine[o]]
             /\ cont' = [cont EXCEPT ![c].handler = s, ![c].ht = "H_GLIB"]
  /\ UNCHANGED <<release, kern_ver, open, g_nc, mine>>

\* The container c without its handler: g_source_destroy and the reset.
KeepsSource(c) == UNCHANGED attached                \* mutant: heynoti_close forgets it
DestroySource(c) ==
  attached' = IF cont[c].ht = "H_GLIB" THEN [attached EXCEPT ![cont[c].handler] = NoFd]
              ELSE attached
Detached(c) == [cont EXCEPT ![c].handler = NULL, ![c].ht = "H_NONE"]

heynoti_detach_handler(o) ==
  LET c == get_noti_cont(mine[o]) IN
  /\ c # NULL
  /\ DestroySource(c)
  /\ cont' = Detached(c)
  /\ UNCHANGED <<release, kern_ver, open, g_nc, mine>>

heynoti_close(o) ==
  LET c == get_noti_cont(mine[o]) IN
  /\ c # NULL
  /\ DestroySource(c)
  /\ cont' = Detached(c)
  /\ open' = [open EXCEPT ![cont[c].fd] = "free"]
  /\ g_nc' = Unlisted(c)
  /\ mine' = [mine EXCEPT ![o] = NoFd]
  /\ UNCHANGED <<release, kern_ver>>

-----------------------------------------------------------------------------
(* The rest of the process.                                                *)

open_file ==
  /\ FreeFd # {}
  /\ open' = [open EXCEPT ![LowestFree] = "file"]
  /\ UNCHANGED <<release, kern_ver, g_nc, cont, attached, mine>>

close_file(f) ==
  /\ open[f] = "file"
  /\ open' = [open EXCEPT ![f] = "free"]
  /\ UNCHANGED <<release, kern_ver, g_nc, cont, attached, mine>>

-----------------------------------------------------------------------------

Init ==
  /\ release \in Release
  /\ kern_ver = 0
  /\ open = [f \in Fd |-> "free"]
  /\ g_nc = << >>
  /\ cont = [c \in Cell |-> [fd |-> 0, ht |-> "H_NONE", handler |-> NULL, owner |-> NULL]]
  /\ attached = [s \in Source |-> NoFd]
  /\ mine = [o \in Owner |-> NoFd]

Next ==
  \/ \E o \in Owner : \/ heynoti_init(o)
                      \/ heynoti_attach_handler(o)
                      \/ heynoti_detach_handler(o)
                      \/ heynoti_close(o)
  \/ open_file
  \/ \E f \in Fd : close_file(f)

Spec == Init /\ [][Next]_vars

-----------------------------------------------------------------------------
(* Properties.                                                             *)

\* The list holds cells of the heap, each once; sources and owners refer to
\* descriptor numbers or to none; a failure is never cached as a version.
TypeOK ==
  /\ release \in Release
  /\ kern_ver \in Nat
  /\ open \in [Fd -> {"free", "inotify", "file"}]
  /\ g_nc \in Seq(Cell) /\ \A j, k \in DOMAIN g_nc : g_nc[j] = g_nc[k] => j = k
  /\ cont \in [Cell -> noti_cont]
  /\ attached \in [Source -> Fd \cup {NoFd}]
  /\ mine \in [Owner -> Fd \cup {NoFd}]

\* Every inotify descriptor of the process belongs to exactly one container:
\* a heynoti_init that fails half-way leaks none, also at the last free
\* descriptor, and a close takes none from under another container.
DescriptorsOwned ==
  /\ {f \in Fd : open[f] = "inotify"} = {cont[c].fd : c \in ToSet(g_nc)}
  /\ \A c, d \in ToSet(g_nc) : cont[c].fd = cont[d].fd => c = d

\* A source of the main loop is the handler of a container with that
\* descriptor. gio_cb finds its container by number only, so a source that
\* survived heynoti_close would drain whoever gets the number next.
SourcesMatch ==
  /\ \A s \in Source : attached[s] # NoFd =>
       \E c \in ToSet(g_nc) : cont[c].ht = "H_GLIB" /\ cont[c].handler = s /\ cont[c].fd = attached[s]
  /\ \A c \in ToSet(g_nc) : cont[c].ht = "H_GLIB" =>
       cont[c].handler \in Source /\ attached[cont[c].handler] = cont[c].fd

\* Parts of the application that use their descriptor between init and close
\* only do not meet: the search for a number finds the container that part
\* has made, however numbers were closed and handed out again.
OwnersIsolated ==
  \A o \in Owner : mine[o] # NoFd =>
    /\ get_noti_cont(mine[o]) # NULL
    /\ cont[get_noti_cont(mine[o])].owner = o

\* Whoever got a container runs on a kernel with inotify, also when the
\* version comes from the cache.
AtLeast2613(r) ==
  \/ r[1] > 2
  \/ r[1] = 2 /\ r[2] > 6
  \/ r[1] = 2 /\ r[2] = 6 /\ r[3] >= 13
GateSound == g_nc # << >> => Len(release) = 3 /\ AtLeast2613(release)

\* The list with its search, shared descriptor numbers and failing calls
\* behaves as a map from descriptors to handler states.
Map == INSTANCE NotiMap
         WITH entry <- [f \in Fd |-> IF get_noti_cont(f) = NULL THEN "absent"
                                     ELSE cont[get_noti_cont(f)].ht]

ImplementsMap == Map!Spec
=============================================================================

------------------------------ MODULE NotiTests ------------------------------
(***************************************************************************)
(* Programs that use libheynoti: the ten unit test programs of TC/unit and *)
(* the two sample programs of the programming guide, each run against      *)
(* module Heynoti with other processes publishing and administrating the   *)
(* key the program uses.                                                   *)
(*                                                                         *)
(* A unit test program is run by TET: startup, its test purposes in order  *)
(* unless startup deleted them, cleanup. A sample is a program whose steps *)
(* all count as purposes.                                                  *)
(***************************************************************************)
EXTENDS Heynoti

CONSTANTS
  Key,       \* the key the programs use
  Cb,        \* their callback
  Me         \* the program as a publisher

ASSUME TestsAssumption ==
  Key \in Noti /\ Cb \in Callback /\ Me \in Publisher

VARIABLES
  program,     \* the program that runs
  todo,        \* the steps it has left
  running,     \* has it made the call of the first of them?
  registered,  \* is its fd one that heynoti_init returned?
  deleted,     \* has startup called tet_delete?
  verdict,     \* what it has reported of valid and of invalid arguments
  thread,      \* thread_event, the second thread of the poll_event test
  excuse       \* history: something outside the library has failed the program

lib   == vars
test  == <<program, todo, running, registered, deleted, verdict, thread>>
tvars == <<lib, test, excuse>>

-----------------------------------------------------------------------------
(* The programs. A step is a call, with valid arguments or with the wrong  *)
(* one of the negative tests (-1, NULL, a short buffer), and the condition *)
(* on its result under which the program reports failure.                  *)

Fails(how, r) ==
  CASE how = "nonzero"   -> r # 0
    [] how = "zero"      -> r = 0
    [] how = "negative"  -> r < 0
    [] how = "minusOne"  -> r = -1
    [] how = "otherThan" -> r # -1
    [] how = "never"     -> FALSE

Do(phase, op, valid, how) == [phase |-> phase, op |-> op, valid |-> valid, how |-> how]

\* if (fd < 0) and if (r) in the startup functions.
Startup(op) == Do("startup", op, TRUE, IF op = "init" THEN "negative" ELSE "nonzero")

Cleanup(op) == Do("cleanup", op, TRUE, "never")

Positive(op, how) == Do("purpose", op, TRUE, how)
Negative(op, how) == Do("purpose", op, FALSE, how)

utc_init == << Positive("init", "negative"), Cleanup("close") >>

utc_close == << Startup("init"), Positive("close", "never"), Negative("close", "never") >>

utc_subscribe ==
  << Startup("init"),
     Positive("subscribe", "nonzero"), Negative("subscribe", "zero"),
     Cleanup("unsubscribe"), Cleanup("close") >>

utc_unsubscribe ==
  << Startup("init"), Startup("subscribe"),
     Positive("unsubscribe", "nonzero"), Negative("unsubscribe", "zero"),
     Cleanup("close") >>

utc_attach_handler ==
  << Startup("init"), Startup("subscribe"),
     Positive("attach_handler", "nonzero"), Negative("attach_handler", "zero"),
     Cleanup("unsubscribe"), Cleanup("close") >>

utc_detach_handler ==
  << Startup("init"), Startup("subscribe"), Startup("attach_handler"),
     Positive("detach_handler", "nonzero"), Negative("detach_handler", "zero"),
     Cleanup("unsubscribe"), Cleanup("close") >>

utc_poll_event ==
  << Startup("init"), Startup("subscribe"),
     Positive("poll_event", "minusOne"), Negative("poll_event", "zero"),
     Cleanup("pthread_exit"), Cleanup("unsubscribe"), Cleanup("close") >>

utc_publish == << Positive("publish", "nonzero"), Negative("publish", "zero") >>

utc_get_pnoti_name ==
  << Startup("init"),
     Positive("get_pnoti_name", "nonzero"), Negative("get_pnoti_name", "otherThan"),
     Cleanup("close") >>

utc_get_snoti_name ==
  << Startup("init"),
     Positive("get_snoti_name", "nonzero"), Negative("get_snoti_name", "otherThan"),
     Cleanup("close") >>

\* The guide's subscriber ends if heynoti_init fails; it never closes, and its
\* poll fails with 0.
sample_subscribe ==
  << Do("must", "init", TRUE, "negative"),
     Positive("subscribe", "nonzero"), Positive("poll_event", "zero"),
     Cleanup("unsubscribe") >>

\* The guide's publisher takes 0 for failure.
sample_publish == << Positive("publish", "zero") >>

UnitTests == {"init", "close", "subscribe", "unsubscribe", "attach_handler", "detach_handler",
              "poll_event", "publish", "get_pnoti_name", "get_snoti_name"}
Samples   == {"sample_subscribe", "sample_publish"}

Script(p) ==
  CASE p = "init"             -> utc_init
    [] p = "close"            -> utc_close
    [] p = "subscribe"        -> utc_subscribe
    [] p = "unsubscribe"      -> utc_unsubscribe
    [] p = "attach_handler"   -> utc_attach_handler
    [] p = "detach_handler"   -> utc_detach_handler
    [] p = "poll_event"       -> utc_poll_event
    [] p = "publish"          -> utc_publish
    [] p = "get_pnoti_name"   -> utc_get_pnoti_name
    [] p = "get_snoti_name"   -> utc_get_snoti_name
    [] p = "sample_subscribe" -> sample_subscribe
    [] p = "sample_publish"   -> sample_publish

Step    == Head(todo)
Done    == todo = << >>
Started == running \/ todo # Script(program)

-----------------------------------------------------------------------------
(* Running a program.                                                      *)

ForgetsPass(failed) == IF failed THEN "FAIL" ELSE "NORESULT"   \* mutant: no tet_result
tet_result(failed) == IF failed THEN "FAIL" ELSE "PASS"

\* The program looks at result r and goes on.
judge(r) ==
  LET failed == Fails(Step.how, r) IN
  /\ todo' = IF Step.phase = "must" /\ failed THEN << >> ELSE Tail(todo)
  /\ running' = FALSE
  /\ registered' = IF Step.op = "init" THEN r >= 0 ELSE registered
  /\ deleted' = (deleted \/ (Step.phase = "startup" /\ failed))
  /\ verdict' = IF Step.phase = "purpose"
                THEN [verdict EXCEPT ![Step.valid] = tet_result(failed \/ @ = "FAIL")]
                ELSE verdict
  /\ UNCHANGED <<program, thread>>

\* TET passes over a deleted purpose.
skip ==
  /\ ~Done /\ ~running
  /\ Step.phase = "purpose" /\ deleted
  /\ todo' = Tail(todo)
  /\ UNCHANGED <<lib, program, running, registered, deleted, verdict, thread>>

Ready(op) ==
  /\ ~Done /\ ~running
  /\ Step.op = op
  /\ ~(Step.phase = "purpose" /\ deleted)

entered ==
  /\ running' = TRUE
  /\ UNCHANGED <<program, todo, registered, deleted, verdict>>

\* Does __get_noti_cont find a container for the fd passed?
AnyContainer == nc                                 \* mutant: the only one is taken
Known == Step.valid /\ registered /\ nc

refused ==
  /\ Return(-1)
  /\ UNCHANGED <<kernel, files, nc, ht, g_ns, history>>

\* A call of the library that takes an fd.
calls(op, action) ==
  /\ Ready(op)
  /\ IF Known THEN action ELSE refused
  /\ entered

init        == Ready("init") /\ heynoti_init /\ entered /\ UNCHANGED thread
subscribe   == calls("subscribe", heynoti_subscribe(Key, Cb)) /\ UNCHANGED thread
unsubscribe == calls("unsubscribe", heynoti_unsubscribe(Key, Cb)) /\ UNCHANGED thread
attach      == calls("attach_handler", heynoti_attach_handler) /\ UNCHANGED thread
detach      == calls("detach_handler", heynoti_detach_handler) /\ UNCHANGED thread

\* The positive test starts thread_event first.
poll_event ==
  /\ calls("poll_event", heynoti_poll_event)
  /\ thread' = IF Step.valid /\ program = "poll_event" THEN "sleeps" ELSE thread

\* heynoti_close returns nothing.
close ==
  /\ Ready("close")
  /\ IF Known THEN heynoti_close ELSE UNCHANGED lib
  /\ entered
  /\ UNCHANGED thread

\* A call of the library is over.
returns ==
  /\ ~Done /\ running /\ Step.op # "publish"
  /\ call = Idle
  /\ judge(rc)
  /\ UNCHANGED lib

\* heynoti_publish: a NULL name, a key that is not set; else open and close.
publish ==
  /\ Ready("publish")
  /\ \/ /\ ~Step.valid \/ dir[Key] = NULL
        /\ judge(-1)
        /\ UNCHANGED lib
     \/ /\ Step.valid
        /\ publish_open(Me, Key)
        /\ entered
        /\ UNCHANGED thread

publish_returns ==
  /\ ~Done /\ running /\ Step.op = "publish"
  /\ publish_close(Me)
  /\ judge(0)

\* The names fit in their buffers, or not in those of four bytes. (The name of
\* a process has at most 24 characters with a process number of 9 digits.)
NameLength(op) == IF op = "get_pnoti_name" THEN 16 .. 24 ELSE {18}
BufferSize(op, valid) ==
  IF ~valid THEN 4 ELSE IF op = "get_pnoti_name" THEN 25 ELSE 20

get_name(op) ==
  /\ Ready(op)
  /\ \E length \in NameLength(op) :
       judge(IF length >= BufferSize(op, Step.valid) THEN -1 ELSE 0)
  /\ UNCHANGED lib

\* cleanup of the poll_event test: the thread ends here, not in its caller.
pthread_exit ==
  /\ Ready("pthread_exit")
  /\ todo' = << >>
  /\ UNCHANGED <<lib, program, running, registered, deleted, verdict, thread>>

\* thread_event: sleep(5), heynoti_publish.
thread_event ==
  /\ \/ /\ thread = "sleeps" /\ dir[Key] # NULL
        /\ publish_open(Me, Key)
        /\ thread' = "publishes"
     \/ /\ thread = "sleeps" /\ dir[Key] = NULL
        /\ thread' = "ended"
        /\ UNCHANGED lib
     \/ /\ thread = "publishes"
        /\ publish_close(Me)
        /\ thread' = "ended"
  /\ UNCHANGED <<program, todo, running, registered, deleted, verdict>>

-----------------------------------------------------------------------------

TestInit ==
  /\ Init
  /\ program \in UnitTests \cup Samples
  /\ todo = Script(program)
  /\ running = FALSE /\ registered = FALSE /\ deleted = FALSE
  /\ verdict = [valid \in BOOLEAN |-> "none"]
  /\ thread = "none"
  /\ excuse = FALSE

Test ==
  \/ skip \/ init \/ close \/ subscribe \/ unsubscribe \/ attach \/ detach
  \/ poll_event \/ returns \/ publish \/ publish_returns
  \/ get_name("get_pnoti_name") \/ get_name("get_snoti_name")
  \/ pthread_exit

\* The programs have no main loop, so gio_cb never runs.
Calls == add_noti \/ del_noti \/ poll_returns \/ poll_fails \/ handle_event

Others ==
  \/ \E p \in Publisher \ {Me} : publish_close(p) \/ \E n \in Noti : publish_open(p, n)
  \/ \E n \in Noti : tool_set(n)
  \/ \E n \in Removable : tool_unset(n)

\* What a program cannot help: its key is not set, or the system refuses an
\* instance, a watch, an event source, the memory for a slot or is interrupted
\* while it waits.
Refusal ==
  \/ Started' /\ dir'[Key] = NULL
  \/ poll_fails
  \/ call.op = "subscribe" /\ Node = {s.node : s \in g_ns}
  \/ /\ ~running /\ running' /\ rc' = -1 /\ Step.valid
     /\ Step.op \in {"init", "subscribe"} \/ (Step.op = "attach_handler" /\ ht = "H_NONE")

TestNext ==
  /\ \/ Test
     \/ thread_event
     \/ (Calls \/ Others) /\ UNCHANGED test
  /\ excuse' = (excuse \/ Refusal)

TestSpec == TestInit /\ [][TestNext]_tvars

(***************************************************************************)
(* Fairness: the program and its thread keep running, so a call goes on    *)
(* and the sleep of thread_event ends; a publisher that has opened a file  *)
(* closes it, if only by its death. Nothing else is assumed of others.     *)
(***************************************************************************)
TestFairSpec ==
  /\ TestSpec
  /\ WF_tvars(TestNext /\ Test) /\ WF_tvars(TestNext /\ thread_event)
  /\ WF_tvars(TestNext /\ (add_noti \/ del_noti \/ poll_returns \/ handle_event))
  /\ \A p \in Publisher \ {Me} : WF_tvars(TestNext /\ publish_close(p))

-----------------------------------------------------------------------------

\* A program only holds what its variables can: steps of its own script, two
\* verdicts, one thread.
TestTypeOK ==
  /\ TypeOK
  /\ program \in UnitTests \cup Samples
  /\ \E k \in 0 .. Len(Script(program)) : todo = SubSeq(Script(program), k + 1, Len(Script(program)))
  /\ verdict \in [BOOLEAN -> {"none", "PASS", "FAIL"}]
  /\ thread \in {"none", "sleeps", "publishes", "ended"}
  /\ {running, registered, deleted, excuse} \subseteq BOOLEAN

\* The unit tests tell the library from a broken one: whatever others do to
\* the key meanwhile, a call with a wrong argument is reported as refused, and
\* a valid call fails only if the system or the key has failed it. Not so the
\* guide's publisher, which takes the 0 of a success for failure.
VerdictsHold ==
  program # "sample_publish" =>
    /\ verdict[FALSE] # "FAIL"
    /\ verdict[TRUE] = "FAIL" => excuse

\* When a unit test is over it has given back what heynoti_init and
\* heynoti_subscribe took, wherever it failed: no container, slot or watch is
\* left. Not so the poll_event test, whose cleanup ends its own thread first.
CleanupCloses ==
  Done /\ program \in UnitTests \ {"poll_event"} =>
    ~nc /\ g_ns = {} /\ \A i \in Inode : ~Watched(i)

\* Every unit test comes to its end once the others stop publishing, also the
\* one that waits for an event: that of its own thread, or the mark of the
\* removed key, wakes it.
TestsEnd ==
  /\ program \in UnitTests
  /\ <>[][\A p \in Publisher \ {Me} : ~publish_close(p)]_tvars
  => <>Done
==============================================================================

-------------------------- MODULE NotiTestsProofs --------------------------
(***************************************************************************)
(* Theorems about the test programs and the samples (module NotiTests),    *)
(* for any number of other publishers, any order of their steps and any    *)
(* refusal by the system. The argument has four layers.                    *)
(*                                                                         *)
(*  - ScriptOK: what the twelve scripts have in common. It is checked once *)
(*    script by script; nothing after it looks at a single program.        *)
(*  - UInv: the call in progress is that of the step at hand. So every     *)
(*    step of a program is one of module Heynoti, whose invariant IInv     *)
(*    holds under it.                                                      *)
(*  - CInv: a container the program was given is one it still has to       *)
(*    close, in a step that tet_delete does not take away.                 *)
(*  - PInv: a program with nothing to excuse goes as planned. Each valid   *)
(*    call finds the container, the slot and the watch that the calls      *)
(*    before it left, so it succeeds; a wrong one is refused.              *)
(***************************************************************************)
EXTENDS NotiTests, HeynotiProofs, SequenceTheorems

-----------------------------------------------------------------------------
(* What the scripts have in common.                                        *)

Program == UnitTests \cup Samples

CallName == UnitTests \cup {"pthread_exit"}

ScriptStep ==
  [phase : {"startup", "must", "purpose", "cleanup"}, op : CallName, valid : BOOLEAN,
   how : {"nonzero", "zero", "negative", "minusOne", "otherThan", "never"}]

\* A call of op with valid arguments.
Valid(s, op) == s.valid /\ s.op = op

\* A call that must find the container of the program.
NeedsInstance(s) ==
  /\ s.valid
  /\ s.op \in {"subscribe", "unsubscribe", "attach_handler", "detach_handler", "poll_event"}

\* No call of a script undoes what a later one relies on.
MayFollow(a, b) ==
  /\ b.op # "init"
  /\ Valid(a, "close") => ~NeedsInstance(b)
  /\ Valid(a, "subscribe") => ~Valid(b, "subscribe")
  /\ Valid(a, "unsubscribe") => ~Valid(b, "unsubscribe") /\ ~Valid(b, "subscribe")
  /\ Valid(a, "attach_handler") => ~Valid(b, "attach_handler") /\ ~Valid(b, "poll_event")

Ordered(s) == \A j, k \in 1 .. Len(s) : j < k => MayFollow(s[j], s[k])

\* What the call of a valid step may not return.
HowOf(op) ==
  IF op = "init" THEN {"negative"} ELSE
  IF op = "close" THEN {"never"} ELSE
  IF op = "poll_event" THEN {"minusOne", "zero"} ELSE {"nonzero"}

\* A step that tests what it should.
Sound(s) ==
  /\ ~s.valid => /\ s.phase = "purpose" /\ s.op \notin {"init", "pthread_exit"}
                 /\ s.how \in IF s.op = "close" THEN {"never"} ELSE {"zero", "otherThan"}
  /\ s.phase = "startup" => s.op \in {"init", "subscribe", "attach_handler"}
  /\ s.phase = "must" => s.op = "init"
  /\ s.valid /\ s.phase # "cleanup" => s.how \in HowOf(s.op)
  /\ s.op = "pthread_exit" => s.phase = "cleanup"

\* The programs whose cleanup is carried out.
Tidy == UnitTests \ {"poll_event"}

\* Sequence s is a script that program p may have.
ScriptOK(p, s) ==
  /\ s \in Seq(ScriptStep) /\ s # << >>
  /\ Ordered(s)
  /\ p # "sample_publish" => \A k \in 1 .. Len(s) : Sound(s[k])
  /\ (\E k \in 1 .. Len(s) : NeedsInstance(s[k])) => Valid(s[1], "init")
  /\ (\E k \in 1 .. Len(s) : Valid(s[k], "unsubscribe"))
       => \E k \in 1 .. Len(s) : Valid(s[k], "subscribe")
  /\ p \in Tidy => \A k \in 1 .. Len(s) : s[k].op # "pthread_exit"
  /\ p = "close" => \A k \in 1 .. Len(s) : s[k].phase = "startup" => s[k].op = "init"
  /\ p \in Tidy /\ s[1].op = "init" =>
       \E k \in 2 .. Len(s) : Valid(s[k], "close") /\ (s[k].phase = "cleanup" \/ p = "close")

\* One lemma per script: its steps in full, from which ScriptOK is read off.
LEMMA Script_init == ScriptOK("init", Script("init"))
<1> DEFINE s == Script("init")
<1>1. /\ Len(s) = 2
      /\ s[1] = Positive("init", "negative")
      /\ s[2] = Cleanup("close")
  BY DEF Script, utc_init
<1>2. s \in Seq(ScriptStep) /\ s # << >>
  BY DEF Script, utc_init, Cleanup, Do, Positive, ScriptStep, CallName, UnitTests
<1> HIDE DEF s
<1>3. \A k \in 1 .. Len(s) : k = 1 \/ k = 2
  BY <1>1
<1>4. Ordered(s)
  BY <1>1, <1>3 DEF Cleanup, Do, Positive, Ordered, MayFollow, Valid, NeedsInstance
<1>5. ScriptOK("init", s)
  BY <1>1, <1>2, <1>3, <1>4
  DEF Cleanup, Do, Positive, ScriptOK, Sound, HowOf, Valid, NeedsInstance, Tidy, UnitTests
<1> QED  BY <1>5 DEF s

LEMMA Script_close == ScriptOK("close", Script("close"))
<1> DEFINE s == Script("close")
<1>1. /\ Len(s) = 3
      /\ s[1] = Startup("init")
      /\ s[2] = Positive("close", "never")
      /\ s[3] = Negative("close", "never")
  BY DEF Script, utc_close
<1>2. s \in Seq(ScriptStep) /\ s # << >>
  BY DEF Script, utc_close, Do, Negative, Positive, Startup, ScriptStep, CallName, UnitTests
<1> HIDE DEF s
<1>3. \A k \in 1 .. Len(s) : k = 1 \/ k = 2 \/ k = 3
  BY <1>1
<1>4. Ordered(s)
  BY <1>1, <1>3 DEF Do, Negative, Positive, Startup, Ordered, MayFollow, Valid, NeedsInstance
<1>5. ScriptOK("close", s)
  BY <1>1, <1>2, <1>3, <1>4
  DEF Do, Negative, Positive, Startup, ScriptOK, Sound, HowOf, Valid, NeedsInstance, Tidy, UnitTests
<1> QED  BY <1>5 DEF s

LEMMA Script_subscribe == ScriptOK("subscribe", Script("subscribe"))
<1> DEFINE s == Script("subscribe")
<1>1. /\ Len(s) = 5
      /\ s[1] = Startup("init")
      /\ s[2] = Positive("subscribe", "nonzero")
      /\ s[3] = Negative("subscribe", "zero")
      /\ s[4] = Cleanup("unsubscribe")
      /\ s[5] = Cleanup("close")
  BY DEF Script, utc_subscribe
<1>2. s \in Seq(ScriptStep) /\ s # << >>
  BY DEF Script, utc_subscribe, Cleanup, Do, Negative, Positive, Startup, ScriptStep, CallName, UnitTests
<1> HIDE DEF s
<1>3. \A k \in 1 .. Len(s) : k = 1 \/ k = 2 \/ k = 3 \/ k = 4 \/ k = 5
  BY <1>1
<1>4. Ordered(s)
  BY <1>1, <1>3 DEF Cleanup, Do, Negative, Positive, Startup, Ordered, MayFollow, Valid, NeedsInstance
<1>5. ScriptOK("subscribe", s)
  BY <1>1, <1>2, <1>3, <1>4
  DEF Cleanup, Do, Negative, Positive, Startup, ScriptOK, Sound, HowOf, Valid, NeedsInstance, Tidy, UnitTests
<1> QED  BY <1>5 DEF s

LEMMA Script_unsubscribe == ScriptOK("unsubscribe", Script("unsubscribe"))
<1> DEFINE s == Script("unsubscribe")
<1>1. /\ Len(s) = 5
      /\ s[1] = Startup("init")
      /\ s[2] = Startup("subscribe")
      /\ s[3] = Positive("unsubscribe", "nonzero")
      /\ s[4] = Negative("unsubscribe", "zero")
      /\ s[5] = Cleanup("close")
  BY DEF Script, utc_unsubscribe
<1>2. s \in Seq(ScriptStep) /\ s # << >>
  BY DEF Script, utc_unsubscribe, Cleanup, Do, Negative, Positive, Startup, ScriptStep, CallName, UnitTests
<1> HIDE DEF s
<1>3. \A k \in 1 .. Len(s) : k = 1 \/ k = 2 \/ k = 3 \/ k = 4 \/ k = 5
  BY <1>1
<1>4. Ordered(s)
  BY <1>1, <1>3 DEF Cleanup, Do, Negative, Positive, Startup, Ordered, MayFollow, Valid, NeedsInstance
<1>5. ScriptOK("unsubscribe", s)
  BY <1>1, <1>2, <1>3, <1>4
  DEF Cleanup, Do, Negative, Positive, Startup, ScriptOK, Sound, HowOf, Valid, NeedsInstance, Tidy, UnitTests
<1> QED  BY <1>5 DEF s

LEMMA Script_attach_handler == ScriptOK("attach_handler", Script("attach_handler"))
<1> DEFINE s == Script("attach_handler")
<1>1. /\ Len(s) = 6
      /\ s[1] = Startup("init")
      /\ s[2] = Startup("subscribe")
      /\ s[3] = Positive("attach_handler", "nonzero")
      /\ s[4] = Negative("attach_handler", "zero")
      /\ s[5] = Cleanup("unsubscribe")
      /\ s[6] = Cleanup("close")
  BY DEF Script, utc_attach_handler
<1>2. s \in Seq(ScriptStep) /\ s # << >>
  BY DEF Script, utc_attach_handler, Cleanup, Do, Negative, Positive, Startup, ScriptStep, CallName, UnitTests
<1> HIDE DEF s
<1>3. \A k \in 1 .. Len(s) : k = 1 \/ k = 2 \/ k = 3 \/ k = 4 \/ k = 5 \/ k = 6
  BY <1>1
<1>4. Ordered(s)
  BY <1>1, <1>3 DEF Cleanup, Do, Negative, Positive, Startup, Ordered, MayFollow, Valid, NeedsInstance
<1>5. ScriptOK("attach_handler", s)
  BY <1>1, <1>2, <1>3, <1>4
  DEF Cleanup, Do, Negative, Positive, Startup, ScriptOK, Sound, HowOf, Valid, NeedsInstance, Tidy, UnitTests
<1> QED  BY <1>5 DEF s

LEMMA Script_detach_handler == ScriptOK("detach_handler", Script("detach_handler"))
<1> DEFINE s == Script("detach_handler")
<1>1. /\ Len(s) = 7
      /\ s[1] = Startup("init")
      /\ s[2] = Startup("subscribe")
      /\ s[3] = Startup("attach_handler")
      /\ s[4] = Positive("detach_handler", "nonzero")
      /\ s[5] = Negative("detach_handler", "zero")
      /\ s[6] = Cleanup("unsubscribe")
      /\ s[7] = Cleanup("close")
  BY DEF Script, utc_detach_handler
<1>2. s \in Seq(ScriptStep) /\ s # << >>
  BY DEF Script, utc_detach_handler, Cleanup, Do, Negative, Positive, Startup, ScriptStep, CallName, UnitTests
<1> HIDE DEF s
<1>3. \A k \in 1 .. Len(s) : k = 1 \/ k = 2 \/ k = 3 \/ k = 4 \/ k = 5 \/ k = 6 \/ k = 7
  BY <1>1
<1>4. Ordered(s)
  BY <1>1, <1>3 DEF Cleanup, Do, Negative, Positive, Startup, Ordered, MayFollow, Valid, NeedsInstance
<1>5. ScriptOK("detach_handler", s)
  BY <1>1, <1>2, <1>3, <1>4
  DEF Cleanup, Do, Negative, Positive, Startup, ScriptOK, Sound, HowOf, Valid, NeedsInstance, Tidy, UnitTests
<1> QED  BY <1>5 DEF s

LEMMA Script_poll_event == ScriptOK("poll_event", Script("poll_event"))
<1> DEFINE s == Script("poll_event")
<1>1. /\ Len(s) = 7
      /\ s[1] = Startup("init")
      /\ s[2] = Startup("subscribe")
      /\ s[3] = Positive("poll_event", "minusOne")
      /\ s[4] = Negative("poll_event", "zero")
      /\ s[5] = Cleanup("pthread_exit")
      /\ s[6] = Cleanup("unsubscribe")
      /\ s[7] = Cleanup("close")
  BY DEF Script, utc_poll_event
<1>2. s \in Seq(ScriptStep) /\ s # << >>
  BY DEF Script, utc_poll_event, Cleanup, Do, Negative, Positive, Startup, ScriptStep, CallName, UnitTests
<1> HIDE DEF s
<1>3. \A k \in 1 .. Len(s) : k = 1 \/ k = 2 \/ k = 3 \/ k = 4 \/ k = 5 \/ k = 6 \/ k = 7
  BY <1>1
<1>4. Ordered(s)
  BY <1>1, <1>3 DEF Cleanup, Do, Negative, Positive, Startup, Ordered, MayFollow, Valid, NeedsInstance
<1>5. ScriptOK("poll_event", s)
  BY <1>1, <1>2, <1>3, <1>4
  DEF Cleanup, Do, Negative, Positive, Startup, ScriptOK, Sound, HowOf, Valid, NeedsInstance, Tidy, UnitTests
<1> QED  BY <1>5 DEF s

LEMMA Script_publish == ScriptOK("publish", Script("publish"))
<1> DEFINE s == Script("publish")
<1>1. /\ Len(s) = 2
      /\ s[1] = Positive("publish", "nonzero")
      /\ s[2] = Negative("publish", "zero")
  BY DEF Script, utc_publish
<1>2. s \in Seq(ScriptStep) /\ s # << >>
  BY DEF Script, utc_publish, Do, Negative, Positive, ScriptStep, CallName, UnitTests
<1> HIDE DEF s
<1>3. \A k \in 1 .. Len(s) : k = 1 \/ k = 2
  BY <1>1
<1>4. Ordered(s)
  BY <1>1, <1>3 DEF Do, Negative, Positive, Ordered, MayFollow, Valid, NeedsInstance
<1>5. ScriptOK("publish", s)
  BY <1>1, <1>2, <1>3, <1>4
  DEF Do, Negative, Positive, ScriptOK, Sound, HowOf, Valid, NeedsInstance, Tidy, UnitTests
<1> QED  BY <1>5 DEF s

LEMMA Script_get_pnoti_name == ScriptOK("get_pnoti_name", Script("get_pnoti_name"))
<1> DEFINE s == Script("get_pnoti_name")
<1>1. /\ Len(s) = 4
      /\ s[1] = Startup("init")
      /\ s[2] = Positive("get_pnoti_name", "nonzero")
      /\ s[3] = Negative("get_pnoti_name", "otherThan")
      /\ s[4] = Cleanup("close")
  BY DEF Script, utc_get_pnoti_name
<1>2. s \in Seq(ScriptStep) /\ s # << >>
  BY DEF Script, utc_get_pnoti_name, Cleanup, Do, Negative, Positive, Startup, ScriptStep, CallName, UnitTests
<1> HIDE DEF s
<1>3. \A k \in 1 .. Len(s) : k = 1 \/ k = 2 \/ k = 3 \/ k = 4
  BY <1>1
<1>4. Ordered(s)
  BY <1>1, <1>3 DEF Cleanup, Do, Negative, Positive, Startup, Ordered, MayFollow, Valid, NeedsInstance
<1>5. ScriptOK("get_pnoti_name", s)
  BY <1>1, <1>2, <1>3, <1>4
  DEF Cleanup, Do, Negative, Positive, Startup, ScriptOK, Sound, HowOf, Valid, NeedsInstance, Tidy, UnitTests
<1> QED  BY <1>5 DEF s

LEMMA Script_get_snoti_name == ScriptOK("get_snoti_name", Script("get_snoti_name"))
<1> DEFINE s == Script("get_snoti_name")
<1>1. /\ Len(s) = 4
      /\ s[1] = Startup("init")
      /\ s[2] = Positive("get_snoti_name", "nonzero")
      /\ s[3] = Negative("get_snoti_name", "otherThan")
      /\ s[4] = Cleanup("close")
  BY DEF Script, utc_get_snoti_name
<1>2. s \in Seq(ScriptStep) /\ s # << >>
  BY DEF Script, utc_get_snoti_name, Cleanup, Do, Negative, Positive, Startup, ScriptStep, CallName, UnitTests
<1> HIDE DEF s
<1>3. \A k \in 1 .. Len(s) : k = 1 \/ k = 2 \/ k = 3 \/ k = 4
  BY <1>1
<1>4. Ordered(s)
  BY <1>1, <1>3 DEF Cleanup, Do, Negative, Positive, Startup, Ordered, MayFollow, Valid, NeedsInstance
<1>5. ScriptOK("get_snoti_name", s)
  BY <1>1, <1>2, <1>3, <1>4
  DEF Cleanup, Do, Negative, Positive, Startup, ScriptOK, Sound, HowOf, Valid, NeedsInstance, Tidy, UnitTests
<1> QED  BY <1>5 DEF s

LEMMA Script_sample_subscribe == ScriptOK("sample_subscribe", Script("sample_subscribe"))
<1> DEFINE s == Script("sample_subscribe")
<1>1. /\ Len(s) = 4
      /\ s[1] = Do("must", "init", TRUE, "negative")
      /\ s[2] = Positive("subscribe", "nonzero")
      /\ s[3] = Positive("poll_event", "zero")
      /\ s[4] = Cleanup("unsubscribe")
  BY DEF Script, sample_subscribe
<1>2. s \in Seq(ScriptStep) /\ s # << >>
  BY DEF Script, sample_subscribe, Cleanup, Do, Positive, ScriptStep, CallName, UnitTests
<1> HIDE DEF s
<1>3. \A k \in 1 .. Len(s) : k = 1 \/ k = 2 \/ k = 3 \/ k = 4
  BY <1>1
<1>4. Ordered(s)
  BY <1>1, <1>3 DEF Cleanup, Do, Positive, Ordered, MayFollow, Valid, NeedsInstance
<1>5. ScriptOK("sample_subscribe", s)
  BY <1>1, <1>2, <1>3, <1>4
  DEF Cleanup, Do, Positive, ScriptOK, Sound, HowOf, Valid, NeedsInstance, Tidy, UnitTests
<1> QED  BY <1>5 DEF s

LEMMA Script_sample_publish == ScriptOK("sample_publish", Script("sample_publish"))
<1> DEFINE s == Script("sample_publish")
<1>1. /\ Len(s) = 1
      /\ s[1] = Positive("publish", "zero")
  BY DEF Script, sample_publish
<1>2. s \in Seq(ScriptStep) /\ s # << >>
  BY DEF Script, sample_publish, Do, Positive, ScriptStep, CallName, UnitTests
<1> HIDE DEF s
<1>3. \A k \in 1 .. Len(s) : k = 1
  BY <1>1
<1>4. Ordered(s)
  BY <1>1, <1>3 DEF Do, Positive, Ordered, MayFollow, Valid, NeedsInstance
<1>5. ScriptOK("sample_publish", s)
  BY <1>1, <1>2, <1>3, <1>4
  DEF Do, Positive, ScriptOK, Sound, HowOf, Valid, NeedsInstance, Tidy, UnitTests
<1> QED  BY <1>5 DEF s

\* Every script has what the rest of the module uses of it.
LEMMA Scripts == ASSUME NEW p \in Program PROVE ScriptOK(p, Script(p))
BY Script_init, Script_close, Script_subscribe, Script_unsubscribe, Script_attach_handler, Script_detach_handler, Script_poll_event, Script_publish, Script_get_pnoti_name, Script_get_snoti_name, Script_sample_subscribe, Script_sample_publish DEF Program, UnitTests, Samples

-----------------------------------------------------------------------------
(* What is left of a script.                                               *)

Rest(s, k) == SubSeq(s, k + 1, Len(s))
IsRest(s, t) == \E k \in 0 .. Len(s) : t = Rest(s, k)

\* What is left of a script after k steps, by positions.
LEMMA RestFacts ==
  ASSUME NEW s \in Seq(ScriptStep), NEW k \in 0 .. Len(s)
  PROVE  /\ Rest(s, k) \in Seq(ScriptStep)
         /\ Len(Rest(s, k)) = Len(s) - k
         /\ \A j \in 1 .. Len(s) - k : Rest(s, k)[j] = s[j + k]
<1>1. Len(s) \in Nat /\ k \in Nat /\ k <= Len(s)
  OBVIOUS
<1>2. /\ SubSeq(s, k + 1, Len(s)) \in Seq(ScriptStep)
      /\ Len(SubSeq(s, k + 1, Len(s))) = Len(s) - k
  BY <1>1
<1>3. ASSUME NEW j \in 1 .. Len(s) - k  PROVE Rest(s, k)[j] = s[j + k]
  BY <1>1 DEF Rest
<1> QED  BY <1>2, <1>3 DEF Rest

\* A step of a program takes the first step away, or all of them.
LEMMA TailIsRest ==
  ASSUME NEW s \in Seq(ScriptStep), NEW t, IsRest(s, t), t # << >>
  PROVE  /\ IsRest(s, Tail(t)) /\ IsRest(s, << >>)
         /\ Tail(t) \in Seq(ScriptStep)
         /\ Len(Tail(t)) = Len(t) - 1 /\ Len(t) \in Nat \ {0} /\ Len(t) <= Len(s)
         /\ \A j \in 1 .. Len(t) - 1 : Tail(t)[j] = t[j + 1]
<1>1. PICK k \in 0 .. Len(s) : t = Rest(s, k)
  BY DEF IsRest
<1>2. /\ Len(s) \in Nat /\ k \in Nat /\ t \in Seq(ScriptStep) /\ Len(t) = Len(s) - k
      /\ \A j \in 1 .. Len(s) - k : t[j] = s[j + k]
  <2>1. Len(s) \in Nat /\ k \in Nat
    OBVIOUS
  <2> QED  BY <1>1, <2>1, RestFacts
<1>3. Len(t) \in Nat \ {0}
  BY <1>2
<1>4. /\ Tail(t) \in Seq(ScriptStep) /\ Len(Tail(t)) = Len(t) - 1
      /\ \A j \in 1 .. Len(t) - 1 : Tail(t)[j] = t[j + 1]
  BY <1>2, <1>3
<1>5. k + 1 \in 0 .. Len(s)
  BY <1>2, <1>3
<1>6. /\ Rest(s, k + 1) \in Seq(ScriptStep) /\ Len(Rest(s, k + 1)) = Len(s) - (k + 1)
      /\ \A j \in 1 .. Len(s) - (k + 1) : Rest(s, k + 1)[j] = s[j + (k + 1)]
  BY <1>5, RestFacts
<1>7. Tail(t) = Rest(s, k + 1)
  <2>1. Len(Tail(t)) = Len(Rest(s, k + 1))
    BY <1>2, <1>4, <1>6
  <2>2. ASSUME NEW j \in 1 .. Len(Tail(t))  PROVE Tail(t)[j] = Rest(s, k + 1)[j]
    <3>1. j \in 1 .. Len(t) - 1 /\ j + 1 \in 1 .. Len(s) - k /\ j \in 1 .. Len(s) - (k + 1)
      BY <1>2, <1>3, <1>4
    <3>2. Tail(t)[j] = t[j + 1] /\ t[j + 1] = s[(j + 1) + k] /\ (j + 1) + k = j + (k + 1)
      BY <1>2, <1>4, <3>1
    <3> QED  BY <1>6, <3>1, <3>2
  <2> QED  BY <1>4, <1>6, <2>1, <2>2, SeqEqual
<1>8. Rest(s, Len(s)) = << >> /\ Len(s) \in 0 .. Len(s)
  BY <1>2 DEF Rest
<1>9. IsRest(s, Tail(t)) /\ IsRest(s, << >>)
  BY <1>5, <1>7, <1>8 DEF IsRest
<1>10. Len(t) <= Len(s)
  BY <1>2
<1> QED  BY <1>3, <1>4, <1>9, <1>10

-----------------------------------------------------------------------------
(* What a program has left to do.                                          *)

Members(s) == {s[k] : k \in 1 .. Len(s)}

\* What a program has left to do are steps of a script, with its properties.
LEMMA TodoFacts ==
  ASSUME TestTypeOK
  PROVE  /\ program \in Program /\ IsRest(Script(program), todo) /\ todo \in Seq(ScriptStep)
         /\ Members(todo) \subseteq ScriptStep
         /\ program # "sample_publish" => \A s \in Members(todo) : Sound(s)
         /\ program \in Tidy => \A s \in Members(todo) : s.op # "pthread_exit"
         /\ program = "close" =>
              \A s \in Members(todo) : s.phase = "startup" => s.op = "init"
<1> DEFINE script == Script(program)
<1>1. program \in Program /\ IsRest(script, todo)
  BY DEF TestTypeOK, Program, IsRest, Rest
<1>2. ScriptOK(program, script)
  BY <1>1, Scripts
<1>3. PICK k \in 0 .. Len(script) : todo = Rest(script, k)
  BY <1>1 DEF IsRest
<1> HIDE DEF script
<1>4. /\ script \in Seq(ScriptStep)
      /\ program # "sample_publish" => \A j \in 1 .. Len(script) : Sound(script[j])
      /\ program \in Tidy => \A j \in 1 .. Len(script) : script[j].op # "pthread_exit"
      /\ program = "close" =>
           \A j \in 1 .. Len(script) : script[j].phase = "startup" => script[j].op = "init"
  BY <1>2 DEF ScriptOK
<1>5. /\ todo \in Seq(ScriptStep) /\ Len(todo) = Len(script) - k
      /\ \A j \in 1 .. Len(script) - k : todo[j] = script[j + k]
  BY <1>3, <1>4, RestFacts
<1>6. \A j \in 1 .. Len(todo) : j + k \in 1 .. Len(script)
  <2>1. Len(script) \in Nat /\ k \in Nat
    BY <1>4
  <2> QED  BY <1>5, <2>1
<1>7. ASSUME NEW s \in Members(todo)
      PROVE  /\ s \in ScriptStep
             /\ program # "sample_publish" => Sound(s)
             /\ program \in Tidy => s.op # "pthread_exit"
             /\ program = "close" => (s.phase = "startup" => s.op = "init")
  <2>1. PICK j \in 1 .. Len(todo) : s = todo[j]
    BY DEF Members
  <2>2. s = script[j + k] /\ s \in ScriptStep
    BY <1>5, <2>1
  <2> QED  BY <1>4, <1>6, <2>1, <2>2
<1> QED  BY <1>1, <1>5, <1>7 DEF script

\* The step at hand and those after it.
LEMMA StepFacts ==
  ASSUME TestTypeOK, ~Done
  PROVE  /\ Step \in ScriptStep
         /\ Members(todo) = {Step} \cup Members(Tail(todo))
         /\ Members(<< >>) = {}
         /\ \A s \in Members(Tail(todo)) : MayFollow(Step, s)
         /\ Step.op = "init" => todo = Script(program)
         /\ Tail(todo) # Script(program) /\ << >> # Script(program)
         /\ IsRest(Script(program), Tail(todo)) /\ IsRest(Script(program), << >>)
<1> DEFINE script == Script(program)
<1>1. /\ program \in Program /\ IsRest(script, todo) /\ todo \in Seq(ScriptStep)
      /\ todo # << >>
  BY TodoFacts DEF Done
<1>2. script \in Seq(ScriptStep) /\ script # << >> /\ Ordered(script)
  BY <1>1, Scripts DEF ScriptOK
<1>3. PICK k \in 0 .. Len(script) : todo = Rest(script, k)
  BY <1>1 DEF IsRest
<1> HIDE DEF script
<1>4. /\ Len(todo) = Len(script) - k /\ Len(script) \in Nat /\ k \in Nat
      /\ \A j \in 1 .. Len(script) - k : todo[j] = script[j + k]
  <2>1. Len(script) \in Nat /\ k \in Nat
    BY <1>2
  <2> QED  BY <1>2, <1>3, <2>1, RestFacts
<1>5. /\ IsRest(script, Tail(todo)) /\ IsRest(script, << >>)
      /\ Tail(todo) \in Seq(ScriptStep)
      /\ Len(Tail(todo)) = Len(todo) - 1 /\ Len(todo) \in Nat \ {0} /\ Len(todo) <= Len(script)
      /\ \A j \in 1 .. Len(todo) - 1 : Tail(todo)[j] = todo[j + 1]
  BY <1>1, <1>2, TailIsRest
<1>6. Step = todo[1] /\ 1 \in 1 .. Len(todo) /\ Step \in ScriptStep
  BY <1>1, <1>5 DEF Step
<1>7. Members(todo) = {Step} \cup Members(Tail(todo))
  <2>1. ASSUME NEW j \in 1 .. Len(todo), j # 1  PROVE todo[j] \in Members(Tail(todo))
    <3>1. j - 1 \in 1 .. Len(todo) - 1 /\ (j - 1) + 1 = j
      BY <2>1
    <3>2. Tail(todo)[j - 1] = todo[j]
      BY <1>5, <3>1
    <3> QED  BY <1>5, <3>1, <3>2 DEF Members
  <2>2. ASSUME NEW j \in 1 .. Len(todo) - 1
        PROVE  j + 1 \in 1 .. Len(todo) /\ Tail(todo)[j] = todo[j + 1]
    BY <1>5
  <2> QED  BY <1>5, <1>6, <2>1, <2>2 DEF Members
<1>8. ASSUME NEW s \in Members(Tail(todo))  PROVE MayFollow(Step, s)
  <2>1. PICK j \in 1 .. Len(todo) - 1 : s = Tail(todo)[j]
    BY <1>5 DEF Members
  <2>2. /\ j + 1 \in 1 .. Len(script) - k /\ 1 \in 1 .. Len(script) - k
        /\ (j + 1) + k \in 1 .. Len(script) /\ 1 + k \in 1 .. Len(script)
        /\ 1 + k < (j + 1) + k
    BY <1>4, <1>5, <2>1
  <2>3. s = script[(j + 1) + k] /\ Step = script[1 + k]
    BY <1>4, <1>5, <1>6, <2>1, <2>2
  <2> QED  BY <1>2, <2>2, <2>3 DEF Ordered
<1>9. ASSUME Step.op = "init"  PROVE todo = script
  <2>1. CASE k = 0
    <3>1. Len(todo) = Len(script) /\ \A j \in 1 .. Len(todo) : todo[j] = script[j]
      BY <1>4, <2>1
    <3> QED  BY <1>1, <1>2, <3>1, SeqEqual
  <2>2. CASE k # 0
    <3>1. /\ 1 \in 1 .. Len(script) - k /\ 1 + k \in 1 .. Len(script) /\ 1 \in 1 .. Len(script)
          /\ 1 < 1 + k
      BY <1>4, <1>5, <2>2
    <3>2. Step = script[1 + k]
      BY <1>4, <1>6, <3>1
    <3> QED  BY <1>2, <1>9, <3>1, <3>2 DEF Ordered, MayFollow
  <2> QED  BY <2>1, <2>2
<1>10. Len(Tail(todo)) # Len(script)
  BY <1>4, <1>5
<1>11. Members(<< >>) = {}
  BY DEF Members
<1> QED  BY <1>2, <1>5, <1>6, <1>7, <1>8, <1>9, <1>10, <1>11 DEF script

\* What a script has to begin and to end with.
LEMMA FirstFacts ==
  ASSUME NEW p \in Program
  PROVE  LET script == Script(p) IN
         /\ script \in Seq(ScriptStep) /\ script # << >>
         /\ (\E s \in Members(script) : NeedsInstance(s)) => Valid(Head(script), "init")
         /\ (\E s \in Members(script) : Valid(s, "unsubscribe"))
              => \E s \in Members(script) : Valid(s, "subscribe")
         /\ p \in Tidy /\ Head(script).op = "init" =>
              \E s \in Members(Tail(script)) :
                Valid(s, "close") /\ (s.phase = "cleanup" \/ p = "close")
<1> DEFINE script == Script(p)
<1>1. ScriptOK(p, script)
  BY Scripts
<1> HIDE DEF script
<1>2. script \in Seq(ScriptStep) /\ script # << >>
  BY <1>1 DEF ScriptOK
<1>3. /\ Head(script) = script[1] /\ Len(script) \in Nat
      /\ Len(Tail(script)) = Len(script) - 1
      /\ \A j \in 1 .. Len(script) - 1 : Tail(script)[j] = script[j + 1]
  BY <1>2
<1>4. ASSUME NEW k \in 2 .. Len(script)  PROVE script[k] \in Members(Tail(script))
  <2>1. k - 1 \in 1 .. Len(script) - 1 /\ (k - 1) + 1 = k
    BY <1>3
  <2>2. Tail(script)[k - 1] = script[k]
    BY <1>3, <2>1
  <2> QED  BY <1>3, <2>1, <2>2 DEF Members
<1>5. /\ (\E s \in Members(script) : NeedsInstance(s)) => Valid(Head(script), "init")
      /\ (\E s \in Members(script) : Valid(s, "unsubscribe"))
           => \E s \in Members(script) : Valid(s, "subscribe")
  BY <1>1, <1>3 DEF ScriptOK, Members
<1>6. ASSUME p \in Tidy, Head(script).op = "init"
      PROVE  \E s \in Members(Tail(script)) :
               Valid(s, "close") /\ (s.phase = "cleanup" \/ p = "close")
  <2>1. PICK k \in 2 .. Len(script) :
               Valid(script[k], "close") /\ (script[k].phase = "cleanup" \/ p = "close")
    BY <1>1, <1>3, <1>6 DEF ScriptOK
  <2> QED  BY <1>4, <2>1
<1> QED  BY <1>2, <1>5, <1>6 DEF script

-----------------------------------------------------------------------------
(* The programs use the library as an application may.                     *)

\* A program that is in a call is at the step that makes it, and the call has
\* the arguments of that step.
CallMatches ==
  /\ running => ~Done /\ Step.op \notin {"pthread_exit", "get_pnoti_name", "get_snoti_name"}
  /\ ~running => call = Idle
  /\ running /\ ~Step.valid => call = Idle
  /\ call.op = "idle" => call = Idle
  /\ call.op \in {"subscribe", "unsubscribe"} =>
       Step.op = call.op /\ call.noti = Key /\ call.cb = Cb
  /\ call.op \in {"poll_event", "handle_event"} => Step.op = "poll_event"

UInv == TestTypeOK /\ IInv /\ CallMatches

\* Whatever a program or its environment does is a step of Heynoti or none of
\* its business.
LEMMA LibraryStep == UInv /\ [TestNext]_tvars => [Next]_vars
<1> SUFFICES ASSUME UInv, [TestNext]_tvars  PROVE [Next]_vars
  OBVIOUS
<1> USE TestsAssumption
<1>1. ASSUME UNCHANGED lib  PROVE [Next]_vars
  BY <1>1 DEF lib
<1>2. ASSUME ~running, NEW action, action => Next,
             IF Known THEN action ELSE refused
      PROVE  [Next]_vars
  <2>1. ASSUME refused  PROVE heynoti_attach_handler
    BY <1>2, <2>1 DEF refused, heynoti_attach_handler, UInv, CallMatches
  <2> QED  BY <1>2, <2>1 DEF Next, Application
<1>3. CASE skip \/ returns \/ pthread_exit \/ get_name("get_pnoti_name") \/ get_name("get_snoti_name")
  BY <1>1, <1>3 DEF skip, returns, pthread_exit, get_name
<1>4. CASE init
  BY <1>4 DEF init, Next, Application
<1>5. CASE close
  BY <1>1, <1>5 DEF close, Next, Application
<1>6. CASE subscribe \/ unsubscribe \/ attach \/ detach \/ poll_event
  BY <1>2, <1>6 DEF subscribe, unsubscribe, attach, detach, poll_event, calls, Ready, Next, Application
<1>7. CASE publish \/ publish_returns \/ thread_event
  BY <1>1, <1>7 DEF publish, publish_returns, thread_event, Next, Environment
<1>8. CASE Calls \/ Others
  BY <1>8 DEF Calls, Others, Next, Library, Environment
<1>9. CASE UNCHANGED tvars
  BY <1>1, <1>9 DEF tvars
<1> QED
  BY <1>3, <1>4, <1>5, <1>6, <1>7, <1>8, <1>9 DEF TestNext, Test

\* Looking at the result of a step takes it away.
LEMMA JudgeMatches ==
  ASSUME UInv, TypeOK', ~Done, NEW r \in Int, judge(r), excuse' \in BOOLEAN, call = Idle,
         UNCHANGED <<call, nc>>
  PROVE  TestTypeOK' /\ CallMatches'
<1>1. /\ program' = program /\ thread' = thread /\ running' = FALSE
      /\ todo' \in {Tail(todo), << >>}
      /\ {registered', deleted'} \subseteq BOOLEAN
      /\ verdict' \in [BOOLEAN -> {"none", "PASS", "FAIL"}]
  <2>1. Step \in ScriptStep /\ TestTypeOK
    BY StepFacts DEF UInv
  <2>2. Step.valid \in BOOLEAN
    BY <2>1 DEF ScriptStep
  <2>3. /\ verdict \in [BOOLEAN -> {"none", "PASS", "FAIL"}]
        /\ registered \in BOOLEAN /\ deleted \in BOOLEAN
    BY <2>1 DEF TestTypeOK
  <2>4. verdict' \in [BOOLEAN -> {"none", "PASS", "FAIL"}]
    BY <2>2, <2>3 DEF judge, tet_result
  <2>5. {registered', deleted'} \subseteq BOOLEAN
    <3>1. registered' = TRUE \/ registered' = FALSE \/ registered' = registered
      BY DEF judge
    <3>2. deleted' = TRUE \/ deleted' = FALSE
      BY DEF judge
    <3>3. registered' \in BOOLEAN
      BY <2>3, <3>1
    <3>4. deleted' \in BOOLEAN
      BY <3>2
    <3> QED  BY <3>3, <3>4
  <2>6. /\ program' = program /\ thread' = thread /\ running' = FALSE
        /\ todo' \in {Tail(todo), << >>}
    BY DEF judge
  <2> QED  BY <2>4, <2>5, <2>6
<1>2. IsRest(Script(program), todo')
  BY <1>1, StepFacts DEF UInv
<1>3. TestTypeOK'
  <2>1. /\ program \in UnitTests \cup Samples
        /\ thread \in {"none", "sleeps", "publishes", "ended"}
    BY DEF UInv, TestTypeOK
  <2>2. \E k \in 0 .. Len(Script(program')) :
          todo' = SubSeq(Script(program'), k + 1, Len(Script(program')))
    BY <1>1, <1>2 DEF IsRest, Rest
  <2>3. {running', registered', deleted', excuse'} \subseteq BOOLEAN
    BY <1>1
  <2> QED  BY <1>1, <2>1, <2>2, <2>3 DEF TestTypeOK
<1>4. CallMatches'
  BY <1>1 DEF CallMatches, Idle, Doing
<1> QED  BY <1>3, <1>4

\* A step that is passed over, or a program that ends.
LEMMA PassMatches ==
  ASSUME UInv, TypeOK', ~Done, ~running, excuse' \in BOOLEAN,
         todo' \in {Tail(todo), << >>},
         UNCHANGED <<call, program, running, registered, deleted, verdict, thread>>
  PROVE  TestTypeOK' /\ CallMatches'
<1>1. IsRest(Script(program), todo') /\ TestTypeOK
  BY StepFacts DEF UInv
<1>2. TestTypeOK'
  <2>1. \E k \in 0 .. Len(Script(program')) :
          todo' = SubSeq(Script(program'), k + 1, Len(Script(program')))
    BY <1>1 DEF IsRest, Rest
  <2> QED  BY <1>1, <2>1 DEF TestTypeOK
<1>3. CallMatches'
  BY DEF UInv, CallMatches, Idle, Doing
<1> QED  BY <1>2, <1>3

\* A step that leaves the script where it is.
LEMMA InCallTyped ==
  ASSUME TestTypeOK, TypeOK', excuse' \in BOOLEAN, running' \in BOOLEAN,
         thread' \in {"none", "sleeps", "publishes", "ended"},
         UNCHANGED <<program, todo, registered, deleted, verdict>>
  PROVE  TestTypeOK'
BY DEF TestTypeOK

\* A call begins.
LEMMA EnterMatches ==
  ASSUME UInv, Ready("init") \/ Ready("close") \/ Ready("subscribe") \/ Ready("unsubscribe")
                 \/ Ready("attach_handler") \/ Ready("detach_handler") \/ Ready("poll_event")
                 \/ Ready("publish"),
         entered,
         \/ call' = Idle
         \/ /\ Step.valid /\ call'.op = Step.op /\ call'.op \in {"subscribe", "unsubscribe"}
            /\ call'.noti = Key /\ call'.cb = Cb
         \/ Step.valid /\ call' = Doing("poll_event") /\ Step.op = "poll_event"
  PROVE  CallMatches'
<1>1. todo' = todo /\ running' = TRUE /\ ~Done
      /\ Step.op \in {"init", "close", "subscribe", "unsubscribe", "attach_handler",
                      "detach_handler", "poll_event", "publish"}
  BY DEF entered, Ready
<1>2. Step' = Step /\ Done' = Done
  BY <1>1 DEF Step, Done
<1> QED  BY <1>1, <1>2 DEF CallMatches, Idle, Doing

\* A step that leaves the calls and the script where they are.
LEMMA KeepMatches ==
  ASSUME UInv, UNCHANGED <<call, running, todo>>
  PROVE  CallMatches'
BY DEF UInv, CallMatches, Step, Done

\* A call that goes on within its step.
LEMMA CallsMatches == UInv /\ Calls /\ UNCHANGED test => CallMatches'
<1> SUFFICES ASSUME UInv, Calls, UNCHANGED test  PROVE CallMatches'
  OBVIOUS
<1>1. Step' = Step /\ Done' = Done /\ running' = running
  BY DEF test, Step, Done
<1>2. CASE call' = Idle
  BY <1>1, <1>2 DEF UInv, CallMatches, Idle, Doing
<1>3. CASE call' = Doing("handle_event") /\ call.op = "poll_event"
  BY <1>1, <1>3 DEF UInv, CallMatches, Idle, Doing
<1>4. CASE call' = call
  BY <1>1, <1>4 DEF UInv, CallMatches
<1> QED  BY <1>2, <1>3, <1>4 DEF Calls, add_noti, del_noti, poll_returns, poll_fails,
            handle_event, read_event, read_ends, Return

\* The programs only hold what they can hold and call the library as it is to
\* be called; the library keeps its own invariant under them.
LEMMA UInvStep == UInv /\ [TestNext]_tvars => UInv'
<1> SUFFICES ASSUME UInv, [TestNext]_tvars  PROVE UInv'
  OBVIOUS
<1> USE TestsAssumption
<1>1. IInv' /\ TypeOK'
  BY LibraryStep, Inductive DEF UInv, IInv
<1>2. excuse' \in BOOLEAN
  <2>1. CASE UNCHANGED tvars
    BY <2>1 DEF tvars, UInv, TestTypeOK
  <2>2. CASE excuse' = (excuse \/ Refusal)
    <3>1. (excuse \/ Refusal) \in BOOLEAN
      BY Zenon
    <3> QED  BY <2>2, <3>1, Zenon
  <2> QED  BY <2>1, <2>2 DEF TestNext
<1>3. rc \in Int /\ TestTypeOK /\ call.op \in Op
  BY DEF UInv, TestTypeOK, TypeOK, Call
<1>4. ASSUME entered, thread' \in {"none", "sleeps", "publishes", "ended"}  PROVE TestTypeOK'
  BY <1>1, <1>2, <1>3, <1>4, InCallTyped DEF entered
<1>5. ASSUME NEW r \in Int, judge(r), UNCHANGED <<call, nc>>, ~Done, call = Idle
      PROVE  TestTypeOK' /\ CallMatches'
  BY <1>1, <1>2, <1>5, JudgeMatches
<1>6. ~running => call = Idle
  BY DEF UInv, CallMatches
<1>7. thread \in {"none", "sleeps", "publishes", "ended"} /\ running \in BOOLEAN
  BY <1>3 DEF TestTypeOK
<1>8. TestTypeOK' /\ CallMatches'
  <2>1. CASE skip \/ pthread_exit
    BY <1>1, <1>2, <2>1, PassMatches DEF skip, pthread_exit, Ready, lib, vars
  <2>2. CASE init
    BY <1>4, <1>7, <2>2, EnterMatches DEF init, heynoti_init, Return
  <2>3. CASE close
    <3>1. entered /\ Ready("close") /\ thread' = thread /\ ~running
      BY <2>3 DEF close, Ready
    <3>2. call' = call
      BY <2>3 DEF close, heynoti_close, lib, vars
    <3> QED  BY <1>4, <1>6, <1>7, <3>1, <3>2, EnterMatches
  <2>4. CASE subscribe
    BY <1>4, <1>7, <2>4, EnterMatches
    DEF subscribe, calls, refused, heynoti_subscribe, Return, Ready, Known
  <2>5. CASE unsubscribe
    BY <1>4, <1>7, <2>5, EnterMatches
    DEF unsubscribe, calls, refused, heynoti_unsubscribe, Return, Ready, Known
  <2>6. CASE attach \/ detach
    BY <1>4, <1>7, <2>6, EnterMatches
    DEF attach, detach, calls, refused, heynoti_attach_handler, heynoti_detach_handler, Return
  <2>7. CASE poll_event
    BY <1>4, <1>7, <2>7, EnterMatches
    DEF poll_event, calls, refused, heynoti_poll_event, Return, Ready, Known
  <2>8. CASE returns
    BY <1>3, <1>5, <2>8 DEF returns, lib, vars
  <2>9. CASE publish
    <3>1. CASE judge(-1) /\ UNCHANGED lib
      BY <1>5, <1>6, <2>9, <3>1 DEF publish, Ready, lib, vars
    <3>2. CASE publish_open(Me, Key) /\ entered /\ UNCHANGED thread
      BY <1>4, <1>6, <1>7, <2>9, <3>2, EnterMatches DEF publish, Ready, publish_open
    <3> QED  BY <2>9, <3>1, <3>2 DEF publish
  <2>10. CASE publish_returns
    <3>1. call = Idle
      BY <1>3, <2>10 DEF publish_returns, UInv, CallMatches, Op
    <3> QED  BY <1>5, <2>10, <3>1 DEF publish_returns, publish_close
  <2>11. ASSUME NEW op, get_name(op)  PROVE TestTypeOK' /\ CallMatches'
    BY <1>5, <1>6, <2>11 DEF get_name, Ready, lib, vars
  <2>12. CASE thread_event
    BY <1>1, <1>2, <1>3, <1>7, <2>12, InCallTyped, KeepMatches
    DEF thread_event, publish_open, publish_close, lib, vars
  <2>13. CASE Calls /\ UNCHANGED test
    BY <1>1, <1>2, <1>3, <1>7, <2>13, InCallTyped, CallsMatches DEF test
  <2>14. CASE Others /\ UNCHANGED test
    BY <1>1, <1>2, <1>3, <1>7, <2>14, InCallTyped, KeepMatches
    DEF test, Others, publish_open, publish_close, tool_set, tool_unset
  <2>15. CASE UNCHANGED tvars
    BY <1>1, <1>2, <1>3, <1>7, <2>15, InCallTyped, KeepMatches DEF tvars, test, lib, vars
  <2> QED  BY <2>1, <2>2, <2>3, <2>4, <2>5, <2>6, <2>7, <2>8, <2>9, <2>10, <2>11, <2>12,
              <2>13, <2>14, <2>15 DEF TestNext, Test
<1> QED  BY <1>1, <1>8 DEF UInv

\* A program starts at the first step of its script, inside no call.
LEMMA UInvInit == TestInit => UInv
<1> SUFFICES ASSUME TestInit  PROVE UInv
  OBVIOUS
<1>1. IInv /\ TypeOK /\ call = Idle
  BY InitIInv DEF TestInit, IInv, Init
<1>2. program \in Program /\ todo = Script(program)
  BY DEF TestInit, Program
<1>3. IsRest(Script(program), Script(program))
  BY <1>2, Scripts, RestFacts DEF ScriptOK, IsRest, Rest
<1>4. TestTypeOK
  <2>1. \E k \in 0 .. Len(Script(program)) :
          todo = SubSeq(Script(program), k + 1, Len(Script(program)))
    BY <1>2, <1>3 DEF IsRest, Rest
  <2>2. verdict \in [BOOLEAN -> {"none", "PASS", "FAIL"}]
    BY DEF TestInit
  <2> QED  BY <1>1, <2>1, <2>2 DEF TestInit, TestTypeOK
<1> QED  BY <1>1, <1>4 DEF UInv, CallMatches, TestInit, Idle, Doing

-----------------------------------------------------------------------------
(* A test that is over has given everything back.                          *)

\* The instance without a container has no watch: heynoti_close closes it.
ClosedNoWatch == ~nc => \A i \in Inode : ~Watched(i)

\* tet_delete is called by a startup step, never before one.
FreshStart == todo = Script(program) => ~deleted

\* A container is one heynoti_init gave the program, and a program with an
\* orderly cleanup has still to close it, in a step that is not passed over.
InstanceKept ==
  /\ nc => registered \/ (running /\ Step.op = "init")
  /\ running /\ Step.op = "init" /\ nc => rc = 0
  /\ running /\ Valid(Step, "close") => ~nc
  /\ program \in Tidy /\ nc =>
       \E s \in Members(todo) :
         Valid(s, "close") /\ (s.phase = "cleanup" \/ (program = "close" /\ ~deleted))

CInv == UInv /\ ClosedNoWatch /\ FreshStart /\ InstanceKept

\* Whatever the library and the others do, no container means no watch.
LEMMA ClosedKept == IInv /\ ClosedNoWatch /\ [Next]_vars => ClosedNoWatch'
<1> SUFFICES ASSUME IInv, ClosedNoWatch, [Next]_vars, ~nc'
             PROVE  \A i \in Inode : ~Watched(i)'
  BY DEF ClosedNoWatch
<1>1. CASE heynoti_close
  BY <1>1 DEF heynoti_close, fresh_instance, Watched, NoWatch
<1>2. ASSUME ~nc, \A i \in Inode : watch'[i] = watch[i] \/ watch'[i] = NoWatch
      PROVE  \A i \in Inode : ~Watched(i)'
  BY <1>2 DEF ClosedNoWatch, Watched, NoWatch
<1>3. CASE ~nc /\ UNCHANGED kernel
  BY <1>2, <1>3 DEF kernel
<1>4. CASE \E p \in Publisher : publish_close(p)
  BY <1>2, <1>4 DEF publish_close, drop_watch, IInv, TypeOK, InotifyTypeOK
<1>5. CASE \E n \in Removable : tool_unset(n)
  BY <1>2, <1>3, <1>5 DEF tool_unset, drop_watch, IInv, TypeOK, InotifyTypeOK
<1>6. CASE add_noti \/ del_noti
  BY <1>6 DEF add_noti, del_noti, IInv, WindowOK, InWindow
<1>7. ASSUME NEW n \in Noti \cup {NULL}, NEW c \in Callback \cup {NULL},
             heynoti_subscribe(n, c) \/ heynoti_unsubscribe(n, c)
      PROVE  \A i \in Inode : ~Watched(i)'
  BY <1>3, <1>7 DEF heynoti_subscribe, heynoti_unsubscribe, BadSubscribe
<1>8. CASE heynoti_init \/ heynoti_attach_handler \/ heynoti_detach_handler \/ heynoti_poll_event
  BY <1>3, <1>8 DEF heynoti_init, heynoti_attach_handler, heynoti_detach_handler,
     heynoti_poll_event, kernel
<1>9. CASE gio_cb \/ poll_returns \/ poll_fails \/ handle_event
  BY <1>2, <1>9 DEF gio_cb, poll_returns, poll_fails, handle_event, read_event, read_ends, kernel
<1>10. CASE \/ \E p \in Publisher, n \in Noti : publish_open(p, n)
            \/ \E n \in Noti : tool_set(n)
  BY <1>3, <1>10 DEF publish_open, tool_set
<1>11. CASE UNCHANGED vars
  BY <1>3, <1>11 DEF vars, kernel
<1> QED  BY <1>1, <1>4, <1>5, <1>6, <1>7, <1>8, <1>9, <1>10, <1>11
         DEF Next, Application, Library, Environment

\* What concerns neither the container nor the script.
LEMMA InstanceSame ==
  ASSUME CInv, UNCHANGED <<nc, program, todo, running, registered, deleted>>,
         running /\ Step.op = "init" => rc' = rc
  PROVE  FreshStart' /\ InstanceKept'
BY DEF CInv, FreshStart, InstanceKept, Step, Valid, Tidy, Members, Script

\* A script goes on to its next step, or ends.
LEMMA NextStepKeeps ==
  ASSUME CInv, ~Done, todo' \in {Tail(todo), << >>},
         UNCHANGED <<nc, program>>, running' = FALSE,
         nc => registered',
         program \in Tidy /\ nc =>
           /\ todo' = Tail(todo)
           /\ deleted' => deleted \/ (Step.phase = "startup" /\ Step.op # "init")
           /\ Valid(Step, "close") => Step.phase # "cleanup" /\ deleted
  PROVE  FreshStart' /\ InstanceKept'
<1>1. /\ TestTypeOK
      /\ Members(todo) = {Step} \cup Members(Tail(todo)) /\ Members(<< >>) = {}
      /\ Tail(todo) # Script(program) /\ << >> # Script(program)
  BY StepFacts DEF CInv, UInv
<1>2. FreshStart'
  BY <1>1 DEF FreshStart
<1>3. ASSUME program \in Tidy, nc
      PROVE  \E s \in Members(todo') :
               Valid(s, "close") /\ (s.phase = "cleanup" \/ (program = "close" /\ ~deleted'))
  <2>1. PICK s \in Members(todo) :
          Valid(s, "close") /\ (s.phase = "cleanup" \/ (program = "close" /\ ~deleted))
    BY <1>3 DEF CInv, InstanceKept
  <2>2. s # Step /\ todo' = Tail(todo)
    BY <1>3, <2>1
  <2>3. program = "close" => (Step.phase = "startup" => Step.op = "init")
    BY <1>1, TodoFacts
  <2>4. program = "close" /\ ~deleted => ~deleted'
    BY <1>3, <2>3
  <2> QED  BY <1>1, <2>1, <2>2, <2>4
<1>4. InstanceKept'
  BY <1>3 DEF InstanceKept
<1> QED  BY <1>2, <1>4

\* Looking at a result, which is not negative if heynoti_init gave a container.
LEMMA JudgeKeeps ==
  ASSUME CInv, ~Done, NEW r \in Int, judge(r), UNCHANGED nc,
         running \/ Step.op \notin {"init", "close"},
         nc /\ Step.op = "init" => r = 0
  PROVE  FreshStart' /\ InstanceKept'
<1>1. /\ TestTypeOK /\ Step \in ScriptStep /\ Step \in Members(todo)
  BY StepFacts DEF CInv, UInv
<1>2. program \in Tidy => program # "sample_publish"
  BY DEF Tidy, UnitTests
<1>3. program \in Tidy => Sound(Step)
  BY <1>1, <1>2, TodoFacts
<1>4. nc => registered'
  <2>1. CASE Step.op = "init"
    <3>1. r >= 0 => registered' = TRUE
      BY <2>1 DEF judge
    <3>2. nc => r >= 0
      BY <2>1
    <3> QED  BY <3>1, <3>2
  <2>2. CASE Step.op # "init"
    BY <2>2 DEF judge, CInv, InstanceKept
  <2> QED  BY <2>1, <2>2
<1>5. ASSUME program \in Tidy, nc, Step.op = "init", Step.phase # "cleanup"
      PROVE  ~Fails(Step.how, r)
  <2>1. Step.how = "negative"
    BY <1>3, <1>5 DEF Sound, HowOf
  <2> QED  BY <1>5, <2>1 DEF Fails
<1>6. ASSUME program \in Tidy, nc
      PROVE  /\ todo' = Tail(todo)
             /\ deleted' => deleted \/ (Step.phase = "startup" /\ Step.op # "init")
  BY <1>3, <1>5, <1>6 DEF judge, Sound
<1>7. nc => ~Valid(Step, "close")
  BY DEF CInv, InstanceKept, Valid
<1>8. todo' \in {Tail(todo), << >>} /\ program' = program /\ running' = FALSE
  BY DEF judge
<1> QED  BY <1>4, <1>6, <1>7, <1>8, NextStepKeeps

\* The calls of the library that give no container.
LEMMA EnterKeeps ==
  ASSUME CInv, entered, UNCHANGED program, ~running, Step.op # "init",
         nc' => nc, Valid(Step, "close") => ~nc'
  PROVE  FreshStart' /\ InstanceKept'
<1>1. /\ todo' = todo /\ registered' = registered /\ deleted' = deleted
      /\ program' = program /\ Step' = Step
  BY DEF entered, Step
<1>2. FreshStart'
  BY <1>1 DEF CInv, FreshStart
<1>3. InstanceKept'
  BY <1>1 DEF CInv, InstanceKept, Valid
<1> QED  BY <1>2, <1>3

\* heynoti_init gives one to a program whose script has just begun.
LEMMA InitKeeps == CInv /\ init => FreshStart' /\ InstanceKept'
<1> SUFFICES ASSUME CInv, init  PROVE FreshStart' /\ InstanceKept'
  OBVIOUS
<1>1. /\ todo' = todo /\ deleted' = deleted /\ program' = program /\ Step' = Step
      /\ running' = TRUE /\ ~running /\ ~Done /\ Step.op = "init"
      /\ nc' => rc' = 0
  BY DEF init, entered, Ready, heynoti_init, Return, Step
<1>2. /\ program \in Program /\ Step.op = "init" /\ todo = Script(program)
      /\ Members(todo) = {Step} \cup Members(Tail(todo))
  BY <1>1, StepFacts, TodoFacts DEF CInv, UInv
<1>3. program \in Tidy =>
        \E s \in Members(todo) : Valid(s, "close") /\ (s.phase = "cleanup" \/ program = "close")
  BY <1>1, <1>2, FirstFacts DEF Step
<1>4. ~deleted
  BY <1>2 DEF CInv, FreshStart
<1>5. FreshStart'
  BY <1>1, <1>4 DEF FreshStart
<1>6. InstanceKept'
  BY <1>1, <1>3, <1>4 DEF InstanceKept, Valid
<1> QED  BY <1>5, <1>6

\* Each step of a program, of its thread, of the library and of the others.
LEMMA CInvStep == CInv /\ [TestNext]_tvars => CInv'
<1> SUFFICES ASSUME CInv, [TestNext]_tvars  PROVE CInv'
  OBVIOUS
<1> USE TestsAssumption
<1>1. UInv' /\ ClosedNoWatch'
  BY UInvStep, LibraryStep, ClosedKept DEF CInv, UInv
<1>2. rc \in Int /\ call.op \in Op /\ TestTypeOK
  BY DEF CInv, UInv, TestTypeOK, TypeOK, Call
<1>3. /\ ~running => call = Idle
      /\ call.op # "idle" => Step.op \in {"subscribe", "unsubscribe", "poll_event"}
  BY <1>2 DEF CInv, UInv, CallMatches, Op
<1>4. ~running /\ nc => registered
  BY DEF CInv, InstanceKept
<1>6. ~running => running = FALSE
  BY <1>2 DEF TestTypeOK
<1>5. FreshStart' /\ InstanceKept'
  <2>1. CASE skip
    BY <1>4, <1>6, <2>1, NextStepKeeps DEF skip, lib, vars
  <2>2. CASE pthread_exit
    <3>1. program \notin Tidy
      BY <1>2, <2>2, StepFacts, TodoFacts DEF pthread_exit, Ready
    <3> QED  BY <1>4, <1>6, <2>2, <3>1, NextStepKeeps DEF pthread_exit, Ready, lib, vars
  <2>3. CASE init
    BY <2>3, InitKeeps
  <2>4. CASE close
    <3>1. entered /\ program' = program /\ ~running /\ Step.op = "close"
      BY <2>4 DEF close, entered, Ready
    <3>2. (nc' => nc) /\ (Valid(Step, "close") => ~nc')
      BY <1>4, <2>4, <3>1 DEF close, heynoti_close, Known, lib, vars, Valid
    <3> QED  BY <3>1, <3>2, EnterKeeps
  <2>5. CASE subscribe \/ unsubscribe \/ attach \/ detach \/ poll_event
    <3>1. entered /\ program' = program /\ ~running
          /\ Step.op \in {"subscribe", "unsubscribe", "attach_handler", "detach_handler", "poll_event"}
      BY <2>5 DEF subscribe, unsubscribe, attach, detach, poll_event, calls, entered, Ready
    <3>2. nc' = nc
      BY <2>5 DEF subscribe, unsubscribe, attach, detach, poll_event, calls, refused,
         heynoti_subscribe, heynoti_unsubscribe, heynoti_attach_handler,
         heynoti_detach_handler, heynoti_poll_event
    <3> QED  BY <3>1, <3>2, EnterKeeps DEF Valid
  <2>6. CASE returns
    <3>1. nc /\ Step.op = "init" => rc = 0
      BY <2>6 DEF returns, CInv, InstanceKept
    <3> QED  BY <1>2, <2>6, <3>1, JudgeKeeps DEF returns, lib, vars
  <2>7. CASE publish
    <3>1. CASE judge(-1) /\ UNCHANGED lib
      BY <2>7, <3>1, JudgeKeeps DEF publish, Ready, lib, vars
    <3>2. CASE publish_open(Me, Key) /\ entered
      BY <2>7, <3>2, EnterKeeps DEF publish, Ready, publish_open, Valid, entered
    <3> QED  BY <2>7, <3>1, <3>2 DEF publish
  <2>8. CASE publish_returns
    BY <2>8, JudgeKeeps DEF publish_returns, publish_close
  <2>9. CASE get_name("get_pnoti_name") \/ get_name("get_snoti_name")
    BY <2>9, JudgeKeeps DEF get_name, Ready, lib, vars
  <2>10. CASE thread_event
    BY <2>10, InstanceSame DEF thread_event, publish_open, publish_close, lib, vars
  <2>11. CASE Calls /\ UNCHANGED test
    <3>1. Step.op # "init" /\ nc' = nc
      BY <1>3, <2>11 DEF Calls, add_noti, del_noti, poll_returns, poll_fails, handle_event,
         read_event, read_ends
    <3> QED  BY <2>11, <3>1, InstanceSame DEF test
  <2>12. CASE Others /\ UNCHANGED test
    BY <2>12, InstanceSame DEF test, Others, publish_open, publish_close, tool_set, tool_unset
  <2>13. CASE UNCHANGED tvars
    BY <2>13, InstanceSame DEF tvars, test, lib, vars
  <2> QED  BY <2>1, <2>2, <2>3, <2>4, <2>5, <2>6, <2>7, <2>8, <2>9, <2>10, <2>11, <2>12, <2>13
           DEF TestNext, Test
<1> QED  BY <1>1, <1>5 DEF CInv

\* Before its first step a program has no container to close.
LEMMA CInvInit == TestInit => CInv
<1> SUFFICES ASSUME TestInit  PROVE CInv
  OBVIOUS
<1>1. UInv
  BY UInvInit
<1>2. ClosedNoWatch
  BY DEF TestInit, Init, InotifyInit, ClosedNoWatch, Watched, NoWatch
<1> QED  BY <1>1, <1>2 DEF CInv, TestInit, Init, FreshStart, InstanceKept

-----------------------------------------------------------------------------
(* What a test reports is so.                                              *)

\* A call with a wrong argument has been refused before its result is looked at.
Refused ==
  /\ verdict[FALSE] # "FAIL"
  /\ running /\ ~Step.valid => Step.op # "publish" /\ (Step.op # "close" => rc = -1)

RInv == UInv /\ (program # "sample_publish" => Refused)

\* Steps that leave the program where it is leave what it has been told.
LEMMA RefusedSame ==
  ASSUME RInv, program # "sample_publish", UNCHANGED <<verdict, todo, running>>,
         running /\ ~Step.valid => rc' = rc
  PROVE  Refused'
BY DEF RInv, Refused, Step

\* Steps that enter a call: a wrong one is refused at once.
LEMMA RefusedEnter ==
  ASSUME RInv, program # "sample_publish", entered,
         ~Step.valid => Step.op # "publish" /\ (Step.op # "close" => rc' = -1)
  PROVE  Refused'
BY DEF RInv, Refused, Step, entered

\* The result of a refused call is the one the program expects.
LEMMA RefusedJudged ==
  ASSUME RInv, program # "sample_publish", ~Done, NEW r \in Int, judge(r),
         ~Step.valid /\ Step.op # "close" => r = -1
  PROVE  Refused'
<1>1. TestTypeOK /\ Step \in ScriptStep /\ Step \in Members(todo)
  BY StepFacts DEF RInv, UInv
<1>2. Sound(Step) /\ Step.valid \in BOOLEAN
  BY <1>1, TodoFacts DEF ScriptStep
<1>3. verdict \in [BOOLEAN -> {"none", "PASS", "FAIL"}] /\ verdict[FALSE] # "FAIL"
  BY <1>1 DEF TestTypeOK, RInv, Refused
<1>4. ~Step.valid => ~Fails(Step.how, r)
  <2>1. CASE Step.valid \/ Step.how = "never"
    BY <2>1 DEF Fails
  <2>2. CASE r = -1 /\ Step.how = "zero"
    BY <2>2 DEF Fails
  <2>3. CASE r = -1 /\ Step.how = "otherThan"
    BY <2>3 DEF Fails
  <2> QED  BY <1>2, <2>1, <2>2, <2>3 DEF Sound
<1>5. running' = FALSE
  BY DEF judge
<1>6. verdict'[FALSE] # "FAIL"
  <2>1. CASE verdict' = verdict
    BY <1>3, <2>1
  <2>2. CASE Step.valid /\ \E v : verdict' = [verdict EXCEPT ![TRUE] = v]
    BY <1>3, <2>2
  <2>3. CASE ~Step.valid /\ verdict' = [verdict EXCEPT ![FALSE] = "PASS"]
    BY <1>3, <2>3
  <2> QED
    <3>1. Step.valid = TRUE \/ Step.valid = FALSE
      BY <1>2
    <3> QED  BY <1>3, <1>4, <2>1, <2>2, <2>3, <3>1 DEF judge, tet_result
<1> QED  BY <1>5, <1>6 DEF Refused

\* No step accepts a wrong call, and none reports that one was accepted.
LEMMA RInvStep == RInv /\ [TestNext]_tvars => RInv'
<1> SUFFICES ASSUME RInv, [TestNext]_tvars  PROVE RInv'
  OBVIOUS
<1> USE TestsAssumption
<1>1. UInv' /\ program' = program
  <2>1. program' = program
    BY DEF TestNext, tvars, test, Test, skip, init, close, subscribe, unsubscribe, attach, detach,
       poll_event, returns, publish, publish_returns, get_name, pthread_exit, thread_event,
       entered, calls, judge
  <2> QED  BY <2>1, UInvStep DEF RInv
<1>2. rc \in Int /\ TestTypeOK
  BY DEF RInv, UInv, TestTypeOK, TypeOK
<1>3. /\ ~running => call = Idle
      /\ running /\ ~Step.valid => call = Idle
  BY DEF RInv, UInv, CallMatches
<1>4. ASSUME program # "sample_publish"  PROVE Refused'
  <2> USE <1>4
  <2>1. CASE skip \/ pthread_exit
    <3>1. verdict' = verdict /\ running' = running /\ ~running
      BY <2>1 DEF skip, pthread_exit, Ready
    <3> QED  BY <3>1 DEF RInv, Refused
  <2>2. CASE init
    <3>1. ~Done /\ Step.op = "init" /\ Step \in Members(todo)
      BY <1>2, <2>2, StepFacts DEF init, Ready
    <3>2. Step.valid
      BY <1>2, <3>1, TodoFacts DEF Sound
    <3> QED  BY <2>2, <3>2, RefusedEnter DEF init
  <2>3. CASE close
    BY <2>3, RefusedEnter DEF close, Ready
  <2>4. CASE subscribe \/ unsubscribe \/ attach \/ detach \/ poll_event
    <3>1. entered /\ Step.op # "publish" /\ (~Step.valid => rc' = -1)
      BY <2>4 DEF subscribe, unsubscribe, attach, detach, poll_event, calls, Known, refused,
         Return, Ready
    <3> QED  BY <3>1, RefusedEnter
  <2>5. CASE returns
    BY <1>2, <2>5, RefusedJudged DEF returns, RInv, Refused
  <2>6. CASE publish
    BY <2>6, RefusedJudged, RefusedEnter DEF publish, Ready
  <2>7. CASE publish_returns
    <3>1. ~Done /\ judge(0) /\ Step.valid
      BY <2>7 DEF publish_returns, RInv, Refused
    <3> QED  BY <3>1, RefusedJudged
  <2>8. ASSUME NEW op \in {"get_pnoti_name", "get_snoti_name"}, get_name(op)  PROVE Refused'
    <3>1. PICK length \in NameLength(op) :
                 judge(IF length >= BufferSize(op, Step.valid) THEN -1 ELSE 0)
      BY <2>8 DEF get_name
    <3>2. ~Step.valid => length >= BufferSize(op, Step.valid)
      BY <2>8, <3>1 DEF NameLength, BufferSize
    <3> QED  BY <2>8, <3>1, <3>2, RefusedJudged DEF get_name, Ready
  <2>9. CASE thread_event
    BY <2>9, RefusedSame DEF thread_event, publish_open, publish_close, lib, vars
  <2>10. CASE Calls /\ UNCHANGED test
    <3>1. running /\ ~Step.valid => FALSE
      BY <1>3, <2>10 DEF Calls, add_noti, del_noti, poll_returns, poll_fails, handle_event,
         read_event, read_ends, Idle, Doing
    <3> QED  BY <2>10, <3>1, RefusedSame DEF test
  <2>11. CASE Others /\ UNCHANGED test
    BY <2>11, RefusedSame DEF test, Others, publish_open, publish_close, tool_set, tool_unset
  <2>12. CASE UNCHANGED tvars
    BY <2>12, RefusedSame DEF tvars, test, lib, vars
  <2> QED  BY <2>1, <2>2, <2>3, <2>4, <2>5, <2>6, <2>7, <2>8, <2>9, <2>10, <2>11, <2>12
           DEF TestNext, Test
<1> QED  BY <1>1, <1>4 DEF RInv

\* Nothing has been called or reported at the start.
LEMMA RInvInit == TestInit => RInv
<1> SUFFICES ASSUME TestInit  PROVE RInv
  OBVIOUS
<1>1. verdict[FALSE] = "none" /\ running = FALSE
  BY DEF TestInit
<1> QED  BY <1>1, UInvInit DEF RInv, Refused

-----------------------------------------------------------------------------
(* What a test reports of valid calls.                                     *)

Waits(op)    == \E s \in Members(todo) : Valid(s, op)
Returned(op) == running /\ Valid(Step, op) /\ call = Idle

\* The program's slot listens to the file that is the key.
HasSlot == \E s \in g_ns : s.cb = Cb /\ s.wd = watch[dir[Key]].wd

OnlyCb == \A s \in g_ns : s.cb = Cb

\* A valid call has returned what it promises.
Succeeded ==
  /\ \A op \in {"init", "subscribe", "unsubscribe", "attach_handler", "detach_handler"} :
       Returned(op) => rc = 0
  /\ Returned("poll_event") \/ call.op = "handle_event" => rc = 1

\* The container is there for the calls that need it.
Opened ==
  /\ todo # Script(program) /\ (\E s \in Members(todo) : NeedsInstance(s)) => registered /\ nc
  /\ Returned("init") => nc

\* The slot is there from the subscribe to the unsubscribe, and nothing else.
Subscribed ==
  /\ Waits("subscribe") /\ ~Returned("subscribe") => g_ns = {}
  /\ Waits("unsubscribe") /\ ~Waits("subscribe") /\ ~Returned("unsubscribe") => HasSlot
  /\ Returned("subscribe") => HasSlot
  /\ InWindow => Watched(dir[Key])

\* The handler is off until a call attaches it.
Detached ==
  (Waits("attach_handler") /\ ~Returned("attach_handler")) \/ Waits("poll_event")
    => ht = "H_NONE"

\* A program with nothing to excuse goes as its author planned.
AsPlanned ==
  /\ ~deleted /\ verdict[TRUE] # "FAIL"
  /\ Started => dir[Key] # NULL
  /\ Succeeded /\ Opened /\ Subscribed /\ Detached

PInv ==
  /\ RInv /\ OnlyCb
  /\ program # "sample_publish" /\ ~excuse => AsPlanned

\* A step of a program with nothing to excuse, before and after.
Unexcused == PInv /\ program # "sample_publish" /\ ~excuse /\ [TestNext]_tvars /\ ~excuse'

\* What holds before a step of a program that goes as planned.
LEMMA UnexcusedFacts ==
  ASSUME Unexcused
  PROVE  /\ UInv /\ AsPlanned /\ OnlyCb /\ Refused /\ program' = program
         /\ Started' => dir'[Key] # NULL
         /\ ~Done => Step \in Members(todo) /\ Sound(Step)
         /\ ~Done /\ NeedsInstance(Step) => registered /\ nc
<1>1. UInv /\ AsPlanned /\ OnlyCb /\ Refused
  BY DEF Unexcused, PInv, RInv
<1>2. program' = program
  BY DEF Unexcused, TestNext, tvars, test, Test, skip, init, close, subscribe, unsubscribe,
     attach, detach, poll_event, returns, publish, publish_returns, get_name, pthread_exit,
     thread_event, entered, calls, judge
<1>3. Started' => dir'[Key] # NULL
  <2>1. CASE UNCHANGED tvars
    BY <1>1, <2>1 DEF AsPlanned, Started, Script, tvars, test, lib, vars, files
  <2>2. CASE excuse' = (excuse \/ Refusal)
    BY <2>2 DEF Unexcused, Refusal
  <2> QED  BY <2>1, <2>2 DEF Unexcused, TestNext
<1>4. ASSUME ~Done  PROVE Step \in Members(todo) /\ Sound(Step)
  BY <1>1, <1>4, StepFacts, TodoFacts DEF UInv, Unexcused
<1>5. ASSUME ~Done, NeedsInstance(Step)  PROVE registered /\ nc
  <2>1. Step \in Members(todo) /\ program \in Program
    BY <1>1, <1>4, <1>5, TodoFacts DEF UInv
  <2>2. todo # Script(program)
    <3>1. ASSUME todo = Script(program)  PROVE Step.op = "init"
      BY <1>5, <2>1, <3>1, FirstFacts DEF Step, Valid
    <3> QED  BY <1>5, <3>1 DEF NeedsInstance
  <2> QED  BY <1>1, <1>5, <2>1, <2>2 DEF AsPlanned, Opened
<1> QED  BY <1>1, <1>2, <1>3, <1>4, <1>5

\* A step that concerns neither the program nor its container, and leaves the
\* file of a key that stays, and its watch, alone.
LEMMA PlanSame ==
  ASSUME Unexcused,
         UNCHANGED <<todo, running, registered, deleted, verdict, nc, ht, g_ns, call, rc>>,
         dir[Key] # NULL /\ dir'[Key] # NULL =>
           dir'[Key] = dir[Key] /\ watch'[dir[Key]] = watch[dir[Key]]
  PROVE  AsPlanned'
<1>1. /\ UInv /\ AsPlanned /\ program' = program /\ (Started' => dir'[Key] # NULL)
  BY UnexcusedFacts
<1>2. /\ Step' = Step /\ Done' = Done /\ Started' = Started
      /\ Script(program)' = Script(program) /\ Members(todo)' = Members(todo)
  BY <1>1 DEF Step, Done, Started, Script, Members
<1>3. \A op : (Waits(op)' <=> Waits(op)) /\ (Returned(op)' <=> Returned(op))
  BY <1>2 DEF Waits, Returned, Valid
<1>4. Succeeded' /\ Opened' /\ Detached'
  BY <1>1, <1>2, <1>3 DEF AsPlanned, Succeeded, Opened, Detached
<1>5. Started => HasSlot' = HasSlot /\ Watched(dir[Key])' = Watched(dir[Key])
  BY <1>1, <1>2 DEF HasSlot, Watched, AsPlanned
<1>6. ASSUME ~Started  PROVE ~(Waits("unsubscribe") /\ ~Waits("subscribe")) /\ ~running
  BY <1>1, <1>6, TodoFacts, FirstFacts DEF UInv, Started, Waits
<1>7. InWindow' = InWindow /\ (InWindow => running)
  BY <1>1 DEF InWindow, UInv, CallMatches, Idle, Doing
<1>8. Subscribed'
  BY <1>1, <1>3, <1>5, <1>6, <1>7 DEF AsPlanned, Subscribed, Returned
<1> QED  BY <1>1, <1>4, <1>8 DEF AsPlanned

\* A program that goes on to its next step, or ends.
LEMMA PlanOnward ==
  ASSUME Unexcused, ~Done, todo' \in {Tail(todo), << >>}, running' = FALSE,
         call = Idle, call' = Idle, UNCHANGED <<nc, ht, g_ns>>,
         ~deleted', verdict'[TRUE] # "FAIL",
         registered \/ Step.op = "init" => registered',
         Step.op \in {"init", "subscribe"} => running,
         dir'[Key] = dir[Key], watch'[dir[Key]] = watch[dir[Key]]
  PROVE  AsPlanned'
<1>1. /\ UInv /\ AsPlanned /\ program' = program /\ (Started' => dir'[Key] # NULL)
      /\ Step \in Members(todo) /\ Sound(Step)
  BY UnexcusedFacts
<1>2. /\ Members(todo) = {Step} \cup Members(Tail(todo)) /\ Members(<< >>) = {}
      /\ \A s \in Members(Tail(todo)) : MayFollow(Step, s)
      /\ program \in Program
  BY <1>1, StepFacts, TodoFacts DEF UInv
<1>3. Members(todo') \subseteq Members(Tail(todo)) /\ ~running' /\ HasSlot' = HasSlot
  BY <1>2 DEF HasSlot
<1>4. \A op : Waits(op)' <=> \E s \in Members(todo') : Valid(s, op)
  BY DEF Waits, Valid, Members
<1>5. Succeeded'
  BY <1>3 DEF Succeeded, Returned, Idle, Doing
<1>6. ASSUME NEW s \in Members(todo'), NeedsInstance(s)  PROVE registered' /\ nc'
  <2>1. s \in Members(todo)
    BY <1>2, <1>3
  <2>2. CASE Step.op = "init"
    <3>1. Step.valid
      BY <1>1, <2>2 DEF Sound
    <3>2. Returned("init")
      BY <2>2, <3>1 DEF Returned, Valid
    <3> QED  BY <1>1, <2>2, <3>2 DEF AsPlanned, Opened
  <2>3. CASE Step.op # "init"
    <3>1. todo # Script(program)
      BY <1>2, <1>6, <2>1, <2>3, FirstFacts DEF Step, Valid
    <3> QED  BY <1>1, <1>6, <2>1, <3>1 DEF AsPlanned, Opened
  <2> QED  BY <2>2, <2>3
<1>7. Opened'
  BY <1>3, <1>6 DEF Opened, Returned
<1>8. Subscribed'
  <2>1. ASSUME Waits("subscribe")'  PROVE g_ns = {}
    <3>1. PICK s \in Members(Tail(todo)) : Valid(s, "subscribe")
      BY <1>3, <1>4, <2>1
    <3>2. Waits("subscribe") /\ ~Returned("subscribe")
      BY <1>2, <3>1 DEF Waits, Returned, MayFollow
    <3> QED  BY <1>1, <3>2 DEF AsPlanned, Subscribed
  <2>2. ASSUME Waits("unsubscribe")', ~Waits("subscribe")'  PROVE HasSlot
    <3>1. PICK s \in Members(Tail(todo)) : Valid(s, "unsubscribe")
      BY <1>3, <1>4, <2>2
    <3>2. Waits("unsubscribe") /\ ~Returned("unsubscribe")
      BY <1>2, <3>1 DEF Waits, Returned, MayFollow
    <3>3. todo' = Tail(todo)
      BY <1>2, <1>4, <2>2
    <3>4. CASE Waits("subscribe")
      <4>1. Valid(Step, "subscribe")
        BY <1>2, <1>4, <2>2, <3>3, <3>4 DEF Waits
      <4> QED  BY <1>1, <4>1 DEF AsPlanned, Subscribed, Returned, Valid
    <3>5. CASE ~Waits("subscribe")
      BY <1>1, <3>2, <3>5 DEF AsPlanned, Subscribed
    <3> QED  BY <3>4, <3>5
  <2>3. ~InWindow'
    BY DEF InWindow, Idle, Doing
  <2> QED  BY <1>3, <2>1, <2>2, <2>3 DEF Subscribed, Returned
<1>9. Detached'
  <2>1. ASSUME Waits("attach_handler")' \/ Waits("poll_event")'  PROVE ht = "H_NONE"
    <3>1. PICK s \in Members(Tail(todo)) : Valid(s, "attach_handler") \/ Valid(s, "poll_event")
      BY <1>3, <1>4, <2>1
    <3>2. Waits("attach_handler") \/ Waits("poll_event")
      BY <1>2, <3>1 DEF Waits
    <3>3. ~Returned("attach_handler")
      BY <1>2, <3>1 DEF Returned, MayFollow
    <3> QED  BY <1>1, <3>2, <3>3 DEF AsPlanned, Detached
  <2> QED  BY <2>1 DEF Detached
<1> QED  BY <1>1, <1>5, <1>7, <1>8, <1>9 DEF AsPlanned

\* A result that the program looks at is the one it hopes for.
LEMMA PlanJudged ==
  ASSUME Unexcused, ~Done, NEW r \in Int, judge(r), call = Idle,
         UNCHANGED <<nc, ht, g_ns, call>>,
         Step.op \in {"init", "subscribe"} => running,
         Step.op = "init" => r >= 0,
         Step.valid /\ Step.phase # "cleanup" => ~Fails(Step.how, r),
         dir'[Key] = dir[Key], watch'[dir[Key]] = watch[dir[Key]]
  PROVE  AsPlanned'
<1>1. /\ UInv /\ AsPlanned /\ Sound(Step) /\ Step \in ScriptStep
  BY UnexcusedFacts, StepFacts DEF UInv
<1>2. Step.phase \in {"startup", "must"} => ~Fails(Step.how, r)
  BY <1>1 DEF Sound
<1>3. /\ todo' = Tail(todo) /\ running' = FALSE
      /\ registered \/ Step.op = "init" => registered'
  BY <1>2 DEF judge
<1>4. ~deleted'
  BY <1>1, <1>2 DEF judge, AsPlanned
<1>5. verdict'[TRUE] # "FAIL"
  <2>1. /\ verdict \in [BOOLEAN -> {"none", "PASS", "FAIL"}] /\ verdict[TRUE] # "FAIL"
        /\ Step.valid = TRUE \/ Step.valid = FALSE
    BY <1>1 DEF UInv, TestTypeOK, AsPlanned, ScriptStep
  <2>2. CASE verdict' = verdict
    BY <2>1, <2>2
  <2>3. CASE Step.valid = FALSE /\ \E v : verdict' = [verdict EXCEPT ![FALSE] = v]
    BY <2>1, <2>3
  <2>4. CASE Step.valid = TRUE /\ verdict' = [verdict EXCEPT ![TRUE] = "PASS"]
    BY <2>1, <2>4
  <2> QED  BY <2>1, <2>2, <2>3, <2>4 DEF judge, tet_result
<1> QED  BY <1>3, <1>4, <1>5, PlanOnward

\* The system has refused nothing.
LEMMA NotRefused ==
  ASSUME Unexcused
  PROVE  /\ ~running /\ running' /\ Step.valid
              /\ (Step.op \in {"init", "subscribe"} \/ (Step.op = "attach_handler" /\ ht = "H_NONE"))
              => rc' # -1
         /\ Calls /\ UNCHANGED test => add_noti \/ del_noti \/ poll_returns \/ handle_event
<1>1. CASE UNCHANGED tvars
  BY <1>1 DEF tvars, test, lib, vars, Calls, poll_fails, Return, Idle, Doing
<1>2. CASE excuse' = (excuse \/ Refusal)
  BY <1>2 DEF Unexcused, Refusal, Calls
<1> QED  BY <1>1, <1>2 DEF Unexcused, TestNext

\* A program that has made the call of its step.
LEMMA EnteredFacts ==
  ASSUME Unexcused, entered, ~Done, ~running
  PROVE  /\ UInv /\ AsPlanned /\ OnlyCb /\ program' = program /\ call = Idle
         /\ ~deleted' /\ verdict'[TRUE] # "FAIL" /\ Started' /\ dir'[Key] # NULL
         /\ Step' = Step /\ Done' = Done /\ running' = TRUE
         /\ \A op : (Waits(op)' <=> Waits(op)) /\ ~Returned(op)
                    /\ (Returned(op)' <=> Valid(Step, op) /\ call' = Idle)
         /\ (todo' # Script(program') <=> todo # Script(program))
         /\ registered' = registered
         /\ (\E s \in Members(todo') : NeedsInstance(s)) <=> (\E s \in Members(todo) : NeedsInstance(s))
         /\ Members(todo) = {Step} \cup Members(Tail(todo))
         /\ \A s \in Members(Tail(todo)) : MayFollow(Step, s)
         /\ Sound(Step) /\ Step \in ScriptStep
<1>1. /\ UInv /\ AsPlanned /\ OnlyCb /\ program' = program /\ (Started' => dir'[Key] # NULL)
      /\ Sound(Step)
  BY UnexcusedFacts
<1>2. /\ todo' = todo /\ running' = TRUE /\ registered' = registered /\ deleted' = deleted
      /\ verdict' = verdict
  BY DEF entered
<1>3. Started' /\ Step' = Step /\ Done' = Done
  BY <1>2 DEF Started, Step, Done
<1>4. \A op : (Waits(op)' <=> Waits(op)) /\ ~Returned(op)
              /\ (Returned(op)' <=> Valid(Step, op) /\ call' = Idle)
  BY <1>2, <1>3 DEF Waits, Returned, Members, Valid, Idle, Doing
<1>5. call = Idle
  BY <1>1 DEF UInv, CallMatches
<1>6. /\ Members(todo) = {Step} \cup Members(Tail(todo)) /\ Step \in ScriptStep
      /\ \A s \in Members(Tail(todo)) : MayFollow(Step, s)
  BY <1>1, StepFacts DEF UInv
<1> QED  BY <1>1, <1>2, <1>3, <1>4, <1>5, <1>6 DEF AsPlanned, Script

\* A call that changes neither slots nor watches.
LEMMA PlanQuiet ==
  ASSUME Unexcused, entered, ~Done, ~running, Step.op # "init",
         UNCHANGED <<nc, g_ns, watch, dir>>,
         call' \in {Idle, Doing("poll_event")}, Succeeded',
         ~Valid(Step, "subscribe"), ~Valid(Step, "unsubscribe"),
         ht' \in {ht, "H_NONE"} \/ (Valid(Step, "attach_handler") /\ call' = Idle)
  PROVE  AsPlanned'
<1> USE EnteredFacts
<1>1. Opened'
  BY DEF AsPlanned, Opened, Valid
<1>2. HasSlot' = HasSlot /\ ~InWindow'
  BY DEF HasSlot, InWindow, Idle, Doing
<1>3. Subscribed'
  BY <1>2 DEF AsPlanned, Subscribed
<1>4. Detached'
  <2>1. CASE ht' \in {ht, "H_NONE"}
    BY <2>1 DEF AsPlanned, Detached
  <2>2. CASE Valid(Step, "attach_handler") /\ call' = Idle
    <3>1. ~Waits("poll_event")
      BY <2>2 DEF Waits, MayFollow, Valid
    <3> QED  BY <2>2, <3>1 DEF Detached
  <2> QED  BY <2>1, <2>2
<1> QED  BY <1>1, <1>3, <1>4 DEF AsPlanned

\* init: heynoti_init without a refusal makes the container.
LEMMA PlanInit == Unexcused /\ init => AsPlanned'
<1> SUFFICES ASSUME Unexcused, init  PROVE AsPlanned'
  OBVIOUS
<1>1. entered /\ ~Done /\ ~running /\ Step.op = "init" /\ heynoti_init
  BY DEF init, Ready
<1> USE EnteredFacts
<1>2. Step.valid /\ todo = Script(program) /\ program \in Program
  BY <1>1, StepFacts, TodoFacts DEF UInv, Sound
<1>3. /\ rc' = 0 /\ nc' /\ fresh_instance /\ call' = Idle /\ UNCHANGED <<ht, g_ns, dir>>
  <2>1. rc' # -1
    BY <1>1, <1>2, NotRefused
  <2> QED  BY <1>1, <2>1 DEF heynoti_init, Return, files
<1>4. Succeeded'
  BY <1>1, <1>3 DEF Succeeded, Idle, Doing, Valid
<1>5. Opened'
  BY <1>1, <1>2, <1>3 DEF Opened
<1>6. Subscribed'
  <2>1. ~(Waits("unsubscribe") /\ ~Waits("subscribe"))
    BY <1>2, FirstFacts DEF Waits
  <2> QED  BY <1>1, <1>3, <2>1 DEF AsPlanned, Subscribed, InWindow, Idle, Doing, Valid
<1>7. Detached'
  BY <1>1, <1>3 DEF AsPlanned, Detached, Valid
<1> QED  BY <1>1, <1>4, <1>5, <1>6, <1>7 DEF AsPlanned

\* close: no call after it needs the container.
LEMMA PlanClose == Unexcused /\ close => AsPlanned'
<1> SUFFICES ASSUME Unexcused, close  PROVE AsPlanned'
  OBVIOUS
<1>1. entered /\ ~Done /\ ~running /\ Step.op = "close"
  BY DEF close, Ready
<1> USE EnteredFacts
<1>2. CASE Known
  <2>1. /\ heynoti_close /\ call' = Idle /\ g_ns' = {} /\ ht' = "H_NONE"
        /\ Valid(Step, "close")
    BY <1>1, <1>2 DEF close, heynoti_close, clear_nslot_list, Known, Valid
  <2>2. ~\E s \in Members(todo) : NeedsInstance(s)
    BY <1>1, <2>1 DEF MayFollow, NeedsInstance
  <2>3. ~Waits("unsubscribe")
    BY <2>2 DEF Waits, Valid, NeedsInstance
  <2>4. Succeeded' /\ Opened' /\ Detached'
    BY <1>1, <2>1, <2>2 DEF Succeeded, Opened, Detached, Valid, Idle, Doing
  <2>5. Subscribed'
    BY <1>1, <2>1, <2>3 DEF Subscribed, InWindow, Valid, Idle, Doing
  <2> QED  BY <1>1, <2>4, <2>5 DEF AsPlanned
<1>3. CASE ~Known
  <2>1. UNCHANGED lib
    BY <1>3 DEF close
  <2>2. Succeeded'
    BY <1>1, <2>1 DEF Succeeded, lib, vars, Valid, Idle, Doing
  <2> QED  BY <1>1, <2>1, <2>2, PlanQuiet DEF lib, vars, kernel, files, Valid
<1> QED  BY <1>2, <1>3

\* A wrong call that is refused.
LEMMA PlanRefused ==
  ASSUME Unexcused, entered, ~Done, ~running, ~Step.valid, refused
  PROVE  AsPlanned'
<1> USE EnteredFacts
<1>1. call' = Idle /\ UNCHANGED <<watch, dir, nc, ht, g_ns>>
  BY DEF refused, Return, kernel, files
<1>2. Succeeded'
  BY <1>1 DEF Succeeded, Valid, Idle, Doing
<1>3. Step.op # "init"
  BY DEF Sound
<1> QED  BY <1>1, <1>2, <1>3, PlanQuiet DEF Valid

\* The valid calls of the library that need the container find it.
LEMMA FindsContainer ==
  ASSUME Unexcused, NEW op \in {"subscribe", "unsubscribe", "attach_handler",
                                "detach_handler", "poll_event"},
         NEW action, calls(op, action)
  PROVE  /\ entered /\ ~Done /\ ~running /\ Step.op = op
         /\ (~Step.valid /\ refused) \/ (Step.valid /\ nc /\ action)
<1>1. entered /\ ~Done /\ ~running /\ Step.op = op
  BY DEF calls, Ready
<1>2. Step.valid => Known
  BY <1>1, UnexcusedFacts DEF NeedsInstance, Known
<1> QED  BY <1>1, <1>2 DEF calls, Known

\* The handler and poll_event: the container is there and the handler off.
LEMMA PlanHandler == Unexcused /\ (attach \/ detach \/ poll_event) => AsPlanned'
<1> SUFFICES ASSUME Unexcused, attach \/ detach \/ poll_event  PROVE AsPlanned'
  OBVIOUS
<1>1. CASE attach
  <2>1. CASE ~Step.valid
    BY <1>1, <2>1, PlanRefused, FindsContainer DEF attach
  <2>2. CASE Step.valid
    <3>1. /\ entered /\ ~Done /\ ~running /\ Step.op = "attach_handler" /\ nc
          /\ heynoti_attach_handler
      BY <1>1, <2>2, FindsContainer DEF attach
    <3>2. ht = "H_NONE"
      BY <2>2, <3>1, EnteredFacts DEF AsPlanned, Detached, Waits, Valid
    <3>3. rc' # -1
      BY <2>2, <3>1, <3>2, EnteredFacts, NotRefused
    <3>4. rc' = 0 /\ call' = Idle /\ UNCHANGED <<watch, dir, nc, g_ns>>
      BY <3>1, <3>3 DEF heynoti_attach_handler, Return, kernel, files
    <3>5. Succeeded'
      BY <3>1, <3>4, EnteredFacts DEF Succeeded, Valid, Idle, Doing
    <3> QED  BY <2>2, <3>1, <3>4, <3>5, PlanQuiet DEF Valid
  <2> QED  BY <2>1, <2>2
<1>2. CASE detach
  <2>1. CASE ~Step.valid
    BY <1>2, <2>1, PlanRefused, FindsContainer DEF detach
  <2>2. CASE Step.valid
    <3>1. /\ entered /\ ~Done /\ ~running /\ Step.op = "detach_handler" /\ nc
          /\ heynoti_detach_handler
      BY <1>2, <2>2, FindsContainer DEF detach
    <3>2. rc' = 0 /\ call' = Idle /\ ht' = "H_NONE" /\ UNCHANGED <<watch, dir, nc, g_ns>>
      BY <3>1 DEF heynoti_detach_handler, Return, kernel, files
    <3>3. Succeeded'
      BY <3>1, <3>2, EnteredFacts DEF Succeeded, Valid, Idle, Doing
    <3> QED  BY <2>2, <3>1, <3>2, <3>3, PlanQuiet DEF Valid
  <2> QED  BY <2>1, <2>2
<1>3. CASE poll_event
  <2>1. CASE ~Step.valid
    BY <1>3, <2>1, PlanRefused, FindsContainer DEF poll_event
  <2>2. CASE Step.valid
    <3>1. /\ entered /\ ~Done /\ ~running /\ Step.op = "poll_event" /\ nc
          /\ heynoti_poll_event
      BY <1>3, <2>2, FindsContainer DEF poll_event
    <3>2. ht = "H_NONE"
      BY <2>2, <3>1, EnteredFacts DEF AsPlanned, Detached, Waits, Valid
    <3>3. call' = Doing("poll_event") /\ UNCHANGED <<watch, dir, nc, ht, g_ns>>
      BY <3>1, <3>2 DEF heynoti_poll_event, kernel, files
    <3>4. Succeeded'
      BY <3>1, <3>3, EnteredFacts DEF Succeeded, Idle, Doing
    <3> QED  BY <2>2, <3>1, <3>3, <3>4, PlanQuiet DEF Valid
  <2> QED  BY <2>1, <2>2
<1> QED  BY <1>1, <1>2, <1>3

\* The two calls that place the watch: what add_watch does to the key's file.
LEMMA KeyWatched ==
  ASSUME UInv, NEW mask \in SUBSET Bit, inotify_add_watch(Key, mask), UNCHANGED files
  PROVE  /\ dir'[Key] = dir[Key] /\ dir[Key] \in Inode
         /\ watch'[dir[Key]].wd = WdFor(dir[Key]) /\ WdFor(dir[Key]) # 0
         /\ Watched(dir[Key]) => watch'[dir[Key]].wd = watch[dir[Key]].wd
<1>1. TypeOK /\ WatchFresh
  BY DEF UInv, IInv
<1>2. /\ dir[Key] \in Inode /\ WdFor(dir[Key]) \in 1 .. MaxWd
      /\ Watched(dir[Key]) => WdFor(dir[Key]) = watch[dir[Key]].wd
      /\ watch'[dir[Key]] = [wd |-> WdFor(dir[Key]), mask |-> mask]
  BY <1>1, AddWatchFacts, TestsAssumption
<1> QED  BY <1>2, InotifyAssumption DEF files

\* subscribe: the first system call places the watch of the set key.
LEMMA PlanSubscribe == Unexcused /\ subscribe => AsPlanned'
<1> SUFFICES ASSUME Unexcused, subscribe  PROVE AsPlanned'
  OBVIOUS
<1>1. CASE ~Step.valid
  BY <1>1, PlanRefused, FindsContainer DEF subscribe
<1>2. CASE Step.valid
  <2>1. /\ entered /\ ~Done /\ ~running /\ Step.op = "subscribe" /\ nc
        /\ heynoti_subscribe(Key, Cb)
    BY <1>2, FindsContainer DEF subscribe
  <2>2. rc' # -1
    BY <1>2, <2>1, EnteredFacts, NotRefused
  <2>3. /\ inotify_add_watch(Key, {"IN_ACCESS"}) /\ call'.op = "subscribe"
        /\ UNCHANGED <<files, nc, ht, g_ns>>
    BY <2>1, <2>2 DEF heynoti_subscribe, Return
  <2> USE EnteredFacts
  <2>4. dir'[Key] = dir[Key] /\ watch'[dir[Key]].wd # 0
    BY <2>1, <2>3, KeyWatched DEF Bit
  <2>5. Waits("subscribe") /\ call' # Idle
    BY <1>2, <2>1, <2>3 DEF Waits, Valid, Idle, Doing
  <2>6. Succeeded' /\ Detached' /\ Opened'
    BY <2>1, <2>3, <2>5 DEF AsPlanned, Succeeded, Detached, Opened
  <2>7. Subscribed'
    BY <2>1, <2>3, <2>4, <2>5 DEF AsPlanned, Subscribed, Watched
  <2> QED  BY <2>1, <2>6, <2>7 DEF AsPlanned
<1> QED  BY <1>1, <1>2

\* unsubscribe: the slot is there, so the first system call finds its watch.
LEMMA PlanUnsubscribe == Unexcused /\ unsubscribe => AsPlanned'
<1> SUFFICES ASSUME Unexcused, unsubscribe  PROVE AsPlanned'
  OBVIOUS
<1>1. CASE ~Step.valid
  BY <1>1, PlanRefused, FindsContainer DEF unsubscribe
<1>2. CASE Step.valid
  <2>1. /\ entered /\ ~Done /\ ~running /\ Step.op = "unsubscribe" /\ nc
        /\ heynoti_unsubscribe(Key, Cb)
    BY <1>2, FindsContainer DEF unsubscribe
  <2> USE EnteredFacts
  <2>2. HasSlot
    <3>1. Waits("unsubscribe") /\ ~Waits("subscribe")
      BY <1>2, <2>1 DEF Waits, Valid, MayFollow
    <3> QED  BY <2>1, <3>1 DEF AsPlanned, Subscribed
  <2>3. Watched(dir[Key])
    BY <2>1, <2>2 DEF HasSlot, Watched, UInv, IInv, TypeOK, Slot
  <2>4. dir[Key] \in Inode
    <3>1. dir'[Key] = dir[Key]
      BY <2>1 DEF heynoti_unsubscribe, files
    <3> QED  BY <2>1, <3>1, TestsAssumption DEF UInv, IInv, TypeOK
  <2>5. /\ inotify_add_watch(Key, {"IN_ACCESS"}) /\ call'.op = "unsubscribe"
        /\ UNCHANGED <<files, nc, ht, g_ns>>
    BY <2>1, <2>3, <2>4, TestsAssumption, HeynotiAssumption
    DEF heynoti_unsubscribe, inotify_add_watch_fails
  <2>6. dir'[Key] = dir[Key] /\ watch'[dir[Key]].wd = watch[dir[Key]].wd
    BY <2>1, <2>3, <2>5, KeyWatched DEF Bit
  <2>7. HasSlot' /\ Watched(dir[Key])'
    BY <2>2, <2>3, <2>5, <2>6 DEF HasSlot, Watched
  <2>8. call' # Idle
    BY <2>5 DEF Idle, Doing
  <2>9. Succeeded' /\ Detached' /\ Opened'
    BY <1>2, <2>1, <2>5, <2>8 DEF AsPlanned, Succeeded, Detached, Opened
  <2>10. Subscribed'
    BY <2>1, <2>5, <2>7, <2>8 DEF AsPlanned, Subscribed
  <2> QED  BY <2>1, <2>9, <2>10 DEF AsPlanned
<1> QED  BY <1>1, <1>2

\* A call that goes on within its step.
LEMMA WithinFacts ==
  ASSUME Unexcused, UNCHANGED test, Calls
  PROVE  /\ UInv /\ AsPlanned /\ OnlyCb /\ running /\ ~Done /\ Step.valid
         /\ ~deleted' /\ verdict'[TRUE] # "FAIL" /\ Started' /\ dir'[Key] = dir[Key]
         /\ dir[Key] \in Inode
         /\ program' = program /\ Step' = Step /\ Done' = Done
         /\ call # Idle /\ Step.op \in {"subscribe", "unsubscribe", "poll_event"}
         /\ call.op \in {"subscribe", "unsubscribe"} =>
              Step.op = call.op /\ call.noti = Key /\ call.cb = Cb
         /\ call.op \in {"poll_event", "handle_event"} => Step.op = "poll_event"
         /\ \A op : (Waits(op)' <=> Waits(op)) /\ ~Returned(op)
                    /\ (Returned(op)' <=> Valid(Step, op) /\ call' = Idle)
         /\ Waits(Step.op)
         /\ Opened'
<1>1. /\ UInv /\ AsPlanned /\ OnlyCb /\ (Started' => dir'[Key] # NULL)
      /\ ~Done => Step \in Members(todo) /\ Sound(Step)
  BY UnexcusedFacts
<1>2. /\ UNCHANGED <<program, todo, running, registered, deleted, verdict>>
  BY DEF test
<1>3. call.op \in {"subscribe", "unsubscribe", "poll_event", "handle_event"}
      /\ call # Idle /\ UNCHANGED <<dir, nc>>
  BY DEF Calls, add_noti, del_noti, poll_returns, poll_fails, handle_event, read_event, read_ends,
     Idle, Doing, files
<1>4. /\ running /\ ~Done /\ Step.valid
      /\ call.op \in {"subscribe", "unsubscribe"} =>
           Step.op = call.op /\ call.noti = Key /\ call.cb = Cb
      /\ call.op \in {"poll_event", "handle_event"} => Step.op = "poll_event"
  BY <1>1, <1>3 DEF UInv, CallMatches
<1>5. Started' /\ Step' = Step /\ Done' = Done
  BY <1>2, <1>4 DEF Started, Step, Done
<1>6. \A op : (Waits(op)' <=> Waits(op)) /\ ~Returned(op)
              /\ (Returned(op)' <=> Valid(Step, op) /\ call' = Idle)
  BY <1>2, <1>3, <1>4, <1>5 DEF Waits, Returned, Members, Valid
<1>7. dir[Key] \in Inode
  BY <1>1, <1>3, <1>5, TestsAssumption DEF UInv, IInv, TypeOK
<1>8. Waits(Step.op)
  BY <1>1, <1>4 DEF Waits, Valid
<1>9. Opened'
  <2>1. /\ Script(program)' = Script(program) /\ Members(todo)' = Members(todo)
        /\ ~Returned("init")'
    BY <1>2, <1>3, <1>4, <1>6 DEF Script, Members, Valid
  <2> QED  BY <1>1, <1>2, <1>3, <2>1 DEF AsPlanned, Opened
<1> QED  BY <1>1, <1>2, <1>3, <1>4, <1>5, <1>6, <1>7, <1>8, <1>9 DEF AsPlanned

\* The window closes on the descriptor of the key's file.
LEMMA KeyWindow ==
  ASSUME UInv, dir[Key] \in Inode, Watched(dir[Key]), InWindow, call.noti = Key
  PROVE  watch[dir[Key]].wd = call.wd /\ call.wd # 0
BY DEF UInv, IInv, WindowKey, WindowOK

\* The second system call of a subscribe succeeds and makes the slot.
LEMMA PlanAdd == Unexcused /\ UNCHANGED test /\ add_noti => AsPlanned'
<1> SUFFICES ASSUME Unexcused, UNCHANGED test, add_noti  PROVE AsPlanned'
  OBVIOUS
<1>1. Calls /\ call.op = "subscribe"
  BY DEF Calls, add_noti
<1> USE WithinFacts
<1>2. Step.op = "subscribe" /\ call.noti = Key /\ call.cb = Cb /\ InWindow
  BY <1>1 DEF InWindow
<1>3. g_ns = {} /\ Watched(dir[Key])
  BY <1>1, <1>2 DEF AsPlanned, Subscribed
<1>4. watch[dir[Key]].wd = call.wd
  BY <1>1, <1>2, <1>3, KeyWindow
<1> DEFINE free == Node \ {s.node : s \in g_ns}
<1>5. ~Found(call.wd, call.cb) /\ free # {}
  <2>1. excuse' = (excuse \/ Refusal) \/ UNCHANGED tvars
    BY DEF Unexcused, TestNext
  <2>2. call' # call
    BY <1>1 DEF add_noti, Return, Idle, Doing, InWindow
  <2>3. ~Refusal
    BY <2>1, <2>2 DEF Unexcused, tvars, lib, vars
  <2>4. Node # {s.node : s \in g_ns}
    BY <1>1, <2>3 DEF Refusal
  <2>5. free # {}
    BY <1>3, <2>4
  <2> QED  BY <1>3, <2>5 DEF Found
<1>6. ~inotify_add_watch_fails(call.noti)
  BY <1>1, <1>2, <1>3 DEF inotify_add_watch_fails
<1>7. /\ inotify_add_watch(Key, MaskAll(SlotsOf(call.wd), SubMask))
      /\ \E s \in g_ns' : s.wd = call.wd /\ s.cb = Cb
      /\ rc' = 0 /\ call' = Idle /\ UNCHANGED <<files, nc, ht>>
  <2>1. /\ inotify_add_watch(call.noti, MaskAll(SlotsOf(call.wd), SubMask))
        /\ \E x \in free :
             /\ g_ns' = g_ns \cup {[node |-> x, wd |-> call.wd, cb |-> call.cb,
                                   noti |-> call.noti]}
             /\ subscribed' = subscribed \cup {<<call.noti, call.cb>>}
             /\ Return(0)
    BY <1>5, <1>6, Zenon DEF add_noti
  <2>2. \E s \in g_ns' : s.wd = call.wd /\ s.cb = Cb
    <3>1. PICK x \in free :
            g_ns' = g_ns \cup {[node |-> x, wd |-> call.wd, cb |-> call.cb, noti |-> call.noti]}
      BY <2>1
    <3> DEFINE new == [node |-> x, wd |-> call.wd, cb |-> call.cb, noti |-> call.noti]
    <3>2. new.wd = call.wd /\ new.cb = Cb
      BY <1>1, <1>2
    <3>3. new \in g_ns'
      BY <3>1
    <3> QED  BY <3>2, <3>3
  <2>3. inotify_add_watch(Key, MaskAll(SlotsOf(call.wd), SubMask)) /\ rc' = 0
    BY <1>2, <2>1 DEF Return
  <2> QED  BY <2>2, <2>3 DEF add_noti, Return
<1>8. MaskAll(SlotsOf(call.wd), SubMask) \in SUBSET Bit
  BY MaskAllFacts DEF SubMask, Bit
<1>9. watch'[dir[Key]].wd = call.wd
  BY <1>1, <1>3, <1>4, <1>7, <1>8, KeyWatched
<1>10. HasSlot'
  BY <1>1, <1>7, <1>9 DEF HasSlot
<1>11. ~InWindow'
  BY <1>7 DEF InWindow, Idle, Doing
<1>12. Succeeded'
  BY <1>1, <1>2, <1>7 DEF Succeeded, Valid, Idle, Doing
<1>13. Detached'
  BY <1>1, <1>7 DEF AsPlanned, Detached
<1>14. Subscribed'
  BY <1>1, <1>2, <1>7, <1>10, <1>11 DEF Subscribed, Valid
<1> QED  BY <1>1, <1>12, <1>13, <1>14, UnexcusedFacts DEF AsPlanned

\* The second system call of an unsubscribe succeeds and takes the slot away.
LEMMA PlanDel == Unexcused /\ UNCHANGED test /\ del_noti => AsPlanned'
<1> SUFFICES ASSUME Unexcused, UNCHANGED test, del_noti  PROVE AsPlanned'
  OBVIOUS
<1>1. Calls /\ call.op = "unsubscribe"
  BY DEF Calls, del_noti
<1> USE WithinFacts
<1>2. Step.op = "unsubscribe" /\ call.noti = Key /\ call.cb = Cb /\ InWindow
  BY <1>1 DEF InWindow
<1>3. Watched(dir[Key])
  BY <1>1, <1>2 DEF AsPlanned, Subscribed
<1>4. watch[dir[Key]].wd = call.wd
  BY <1>1, <1>2, <1>3, KeyWindow
<1>5. Remain(call.wd, call.cb) = {}
  BY <1>1, <1>2 DEF Remain, Deleted, SlotsOf, OnlyCb
<1>6. dir[Key] \in {i \in Inode : watch[i].wd = call.wd}
  BY <1>1, <1>4
<1>7. rc' = 0 /\ call' = Idle /\ UNCHANGED <<files, nc, ht>>
  BY <1>5, <1>6 DEF del_noti, Return
<1>8. ~InWindow'
  BY <1>7 DEF InWindow, Idle, Doing
<1>9. ~Waits("subscribe")
  BY <1>1, <1>2, StepFacts DEF Waits, MayFollow, Valid, UInv
<1>10. Succeeded'
  BY <1>1, <1>2, <1>7 DEF Succeeded, Valid, Idle, Doing
<1>11. Detached'
  BY <1>1, <1>7 DEF AsPlanned, Detached
<1>12. Subscribed'
  BY <1>1, <1>2, <1>7, <1>8, <1>9 DEF Subscribed, Valid
<1> QED  BY <1>1, <1>10, <1>11, <1>12, UnexcusedFacts DEF AsPlanned

\* Polling and dispatch leave the slots and the watches alone.
LEMMA PlanDispatch ==
  Unexcused /\ UNCHANGED test /\ (poll_returns \/ handle_event) => AsPlanned'
<1> SUFFICES ASSUME Unexcused, UNCHANGED test, poll_returns \/ handle_event  PROVE AsPlanned'
  OBVIOUS
<1>1. Calls /\ call.op \in {"poll_event", "handle_event"} /\ UNCHANGED <<watch, dir, nc, ht, g_ns>>
  BY DEF Calls, poll_returns, handle_event, read_event, read_ends, kernel, files
<1> USE WithinFacts
<1>2. Step.op = "poll_event"
  BY <1>1
<1>3. call'.op \in {"handle_event", "idle"} /\ rc' = 1
  <2>1. CASE poll_returns
    BY <2>1 DEF poll_returns, Doing
  <2>2. CASE handle_event
    BY <1>1, <2>2 DEF handle_event, read_event, read_ends, AsPlanned, Succeeded, Idle, Doing
  <2> QED  BY <2>1, <2>2
<1>4. Succeeded'
  BY <1>1, <1>2, <1>3 DEF Succeeded, Valid
<1>5. HasSlot' = HasSlot /\ ~InWindow'
  BY <1>1, <1>3 DEF HasSlot, InWindow
<1>6. Subscribed'
  BY <1>1, <1>2, <1>5 DEF AsPlanned, Subscribed, Valid
<1>7. Detached'
  BY <1>1 DEF AsPlanned, Detached
<1> QED  BY <1>1, <1>4, <1>6, <1>7, UnexcusedFacts DEF AsPlanned

\* What others do to the key's file, and to its watch, while it stays the key.
LEMMA OthersKeepKey ==
  ASSUME UInv,
         \/ \E p \in Publisher : publish_close(p) \/ \E n \in Noti : publish_open(p, n)
         \/ \E n \in Noti : tool_set(n) \/ tool_unset(n)
  PROVE  /\ UNCHANGED <<nc, ht, g_ns, call, rc>>
         /\ dir[Key] # NULL /\ dir'[Key] # NULL =>
              dir'[Key] = dir[Key] /\ watch'[dir[Key]] = watch[dir[Key]]
<1> USE TestsAssumption DEF UInv, IInv, TypeOK, InotifyTypeOK
<1>1. ASSUME NEW p \in Publisher, publish_close(p), dir[Key] # NULL
      PROVE  dir'[Key] = dir[Key] /\ watch'[dir[Key]] = watch[dir[Key]]
  BY <1>1 DEF publish_close, drop_watch, Linked
<1>2. ASSUME NEW p \in Publisher, NEW n \in Noti, publish_open(p, n)
      PROVE  dir'[Key] = dir[Key] /\ watch'[dir[Key]] = watch[dir[Key]]
  BY <1>2 DEF publish_open, kernel
<1>3. ASSUME NEW n \in Noti, tool_set(n), dir[Key] # NULL
      PROVE  dir'[Key] = dir[Key] /\ watch'[dir[Key]] = watch[dir[Key]]
  BY <1>3 DEF tool_set, kernel
<1>4. ASSUME NEW n \in Noti, tool_unset(n), dir[Key] # NULL, dir'[Key] # NULL
      PROVE  dir'[Key] = dir[Key] /\ watch'[dir[Key]] = watch[dir[Key]]
  <2>1. n # Key /\ dir'[Key] = dir[Key]
    BY <1>4 DEF tool_unset
  <2>2. dir[n] # dir[Key]
    BY <1>4, <2>1 DEF DirInjective
  <2> QED  BY <1>4, <2>1, <2>2 DEF tool_unset, drop_watch, kernel
<1>5. UNCHANGED <<nc, ht, g_ns, call, rc>>
  BY DEF publish_close, publish_open, tool_set, tool_unset
<1> QED  BY <1>1, <1>2, <1>3, <1>4, <1>5

\* Every step of a program with nothing to excuse goes as planned.
LEMMA PlanStep == Unexcused => AsPlanned'
<1> SUFFICES ASSUME Unexcused  PROVE AsPlanned'
  OBVIOUS
<1> USE TestsAssumption, HeynotiAssumption
<1>1. /\ UInv /\ AsPlanned /\ OnlyCb /\ Refused /\ program' = program
      /\ Started' => dir'[Key] # NULL
      /\ ~Done => Step \in Members(todo) /\ Sound(Step)
  BY UnexcusedFacts
<1>2. rc \in Int /\ call.op \in Op /\ TestTypeOK
  BY <1>1 DEF UInv, TestTypeOK, TypeOK, Call
<1>3. ~running => call = Idle
  BY <1>1 DEF UInv, CallMatches
<1>4. ASSUME UNCHANGED lib
      PROVE  /\ UNCHANGED <<nc, ht, g_ns, call, rc>>
             /\ dir'[Key] = dir[Key] /\ watch'[dir[Key]] = watch[dir[Key]]
  BY <1>4 DEF lib, vars, kernel, files
<1>5. CASE skip
  BY <1>1, <1>5 DEF skip, AsPlanned
<1>6. CASE pthread_exit
  BY <1>1, <1>2, <1>3, <1>4, <1>6, PlanOnward DEF pthread_exit, Ready, AsPlanned, TestTypeOK
<1>7. CASE init
  BY <1>7, PlanInit
<1>8. CASE close
  BY <1>8, PlanClose
<1>9. CASE subscribe
  BY <1>9, PlanSubscribe
<1>10. CASE unsubscribe
  BY <1>10, PlanUnsubscribe
<1>11. CASE attach \/ detach \/ poll_event
  BY <1>11, PlanHandler
<1>12. CASE returns
  <2>1. ~Done /\ running /\ Step.op # "publish" /\ call = Idle /\ judge(rc) /\ UNCHANGED lib
    BY <1>12 DEF returns
  <2>2. Step.op \notin {"pthread_exit", "get_pnoti_name", "get_snoti_name"}
    BY <1>1, <2>1 DEF UInv, CallMatches
  <2>3. Step \in ScriptStep
    BY <1>2, <2>1, StepFacts
  <2>4. \A op : Step.valid /\ Step.op = op => Returned(op)
    BY <2>1 DEF Returned, Valid
  <2>5. Step.op = "init" => Step.valid /\ rc = 0
    BY <1>1, <2>1, <2>4 DEF Sound, AsPlanned, Succeeded
  <2>6. ASSUME Step.valid, Step.phase # "cleanup"  PROVE ~Fails(Step.how, rc)
    <3>1. Step.how \in HowOf(Step.op)
      BY <1>1, <2>1, <2>6 DEF Sound
    <3>2. CASE Step.op = "close"
      BY <3>1, <3>2 DEF HowOf, Fails
    <3>3. CASE Step.op = "poll_event"
      <4>1. rc = 1
        BY <1>1, <2>4, <2>6, <3>3 DEF AsPlanned, Succeeded
      <4>2. Step.how = "minusOne" \/ Step.how = "zero"
        BY <3>1, <3>3 DEF HowOf
      <4>3. CASE Step.how = "minusOne"
        BY <4>1, <4>3 DEF Fails
      <4>4. CASE Step.how = "zero"
        BY <4>1, <4>4 DEF Fails
      <4> QED  BY <4>2, <4>3, <4>4
    <3>4. CASE Step.op \in {"init", "subscribe", "unsubscribe", "attach_handler", "detach_handler"}
      <4>1. rc = 0
        BY <1>1, <2>4, <2>6, <3>4 DEF AsPlanned, Succeeded
      <4>2. Step.how = "negative" \/ Step.how = "nonzero"
        BY <3>1, <3>4 DEF HowOf
      <4>3. CASE Step.how = "negative"
        BY <4>1, <4>3 DEF Fails
      <4>4. CASE Step.how = "nonzero"
        BY <4>1, <4>4 DEF Fails
      <4> QED  BY <4>2, <4>3, <4>4
    <3> QED  BY <2>1, <2>2, <2>3, <3>2, <3>3, <3>4 DEF ScriptStep, CallName, UnitTests
  <2> QED  BY <1>2, <1>4, <2>1, <2>5, <2>6, PlanJudged
<1>13. CASE publish
  <2>1. Ready("publish") /\ ~Done /\ ~running /\ Step.op = "publish"
    BY <1>13 DEF publish, Ready
  <2>2. CASE publish_open(Me, Key) /\ entered
    <3>1. UNCHANGED <<nc, ht, g_ns, call, watch, dir>> /\ call = Idle
      BY <1>3, <2>1, <2>2 DEF publish_open, kernel
    <3>2. Succeeded'
      BY <2>1, <2>2, <3>1, EnteredFacts DEF Succeeded, Valid, Idle, Doing
    <3> QED  BY <2>1, <2>2, <3>1, <3>2, PlanQuiet DEF Valid
  <2>3. CASE judge(-1) /\ UNCHANGED lib /\ ~Step.valid
    BY <1>3, <1>4, <2>1, <2>3, PlanJudged
  <2>4. CASE judge(-1) /\ UNCHANGED lib /\ dir[Key] = NULL
    <3>1. Started'
      BY <1>1, <1>2, <2>1, <2>4, StepFacts DEF judge, Started, Script
    <3> QED  BY <1>1, <1>4, <2>4, <3>1
  <2> QED  BY <1>13, <2>2, <2>3, <2>4 DEF publish
<1>14. CASE publish_returns
  <2>1. /\ ~Done /\ running /\ Step.op = "publish" /\ publish_close(Me) /\ judge(0) /\ Step.valid
    BY <1>1, <1>14 DEF publish_returns, Refused
  <2>2. call = Idle
    BY <1>1, <1>2, <2>1 DEF UInv, CallMatches, Op
  <2>3. dir[Key] # NULL /\ dir'[Key] = dir[Key]
    BY <1>1, <2>1 DEF AsPlanned, Started, publish_close
  <2>4. UNCHANGED <<nc, ht, g_ns, call, rc>> /\ watch'[dir[Key]] = watch[dir[Key]]
    BY <1>1, <2>1, <2>3, OthersKeepKey
  <2>5. Step.phase # "cleanup" => ~Fails(Step.how, 0)
    <3>1. Step.phase # "cleanup" => Step.how = "nonzero"
      BY <1>1, <2>1 DEF Sound, HowOf
    <3> QED  BY <3>1 DEF Fails
  <2> QED  BY <2>1, <2>2, <2>3, <2>4, <2>5, PlanJudged
<1>15. ASSUME NEW op \in {"get_pnoti_name", "get_snoti_name"}, get_name(op)  PROVE AsPlanned'
  <2>1. ~Done /\ ~running /\ Step.op = op /\ UNCHANGED lib
    BY <1>15 DEF get_name, Ready
  <2>2. PICK length \in NameLength(op) :
               judge(IF length >= BufferSize(op, Step.valid) THEN -1 ELSE 0)
    BY <1>15 DEF get_name
  <2> DEFINE r == IF length >= BufferSize(op, Step.valid) THEN -1 ELSE 0
  <2>3. Step.valid => r = 0
    BY <2>2 DEF NameLength, BufferSize
  <2>4. Step.valid /\ Step.phase # "cleanup" => Step.how = "nonzero"
    BY <1>1, <2>1 DEF Sound, HowOf
  <2>5. r \in Int /\ judge(r)
    BY <2>2
  <2> HIDE DEF r
  <2>6. Step.valid /\ Step.phase # "cleanup" => ~Fails(Step.how, r)
    BY <2>3, <2>4 DEF Fails
  <2> QED  BY <1>3, <1>4, <2>1, <2>5, <2>6, PlanJudged
<1>16. CASE thread_event
  <2>1. /\ UNCHANGED <<todo, running, registered, deleted, verdict, nc, ht, g_ns, call, rc>>
        /\ dir[Key] # NULL /\ dir'[Key] # NULL =>
             dir'[Key] = dir[Key] /\ watch'[dir[Key]] = watch[dir[Key]]
    BY <1>1, <1>4, <1>16, OthersKeepKey DEF thread_event
  <2> QED  BY <2>1, PlanSame
<1>17. CASE Calls /\ UNCHANGED test
  BY <1>17, NotRefused, PlanAdd, PlanDel, PlanDispatch
<1>18. CASE Others /\ UNCHANGED test
  <2>1. /\ UNCHANGED <<nc, ht, g_ns, call, rc>>
        /\ dir[Key] # NULL /\ dir'[Key] # NULL =>
             dir'[Key] = dir[Key] /\ watch'[dir[Key]] = watch[dir[Key]]
    BY <1>1, <1>18, OthersKeepKey DEF Others
  <2> QED  BY <1>18, <2>1, PlanSame DEF test
<1>19. CASE UNCHANGED tvars
  BY <1>4, <1>19, PlanSame DEF tvars, test
<1> QED  BY <1>5, <1>6, <1>7, <1>8, <1>9, <1>10, <1>11, <1>12, <1>13, <1>14, <1>15, <1>16,
            <1>17, <1>18, <1>19 DEF Unexcused, TestNext, Test

\* The program subscribes no other callback.
LEMMA OnlyCbStep == UInv /\ OnlyCb /\ [TestNext]_tvars => OnlyCb'
<1> SUFFICES ASSUME UInv, OnlyCb, [TestNext]_tvars  PROVE OnlyCb'
  OBVIOUS
<1>1. CASE g_ns' \subseteq g_ns
  BY <1>1 DEF OnlyCb
<1>2. CASE add_noti
  <2>1. call.cb = Cb
    BY <1>2 DEF UInv, CallMatches, add_noti
  <2>2. \A s \in g_ns' : s \in g_ns \/ s.cb = call.cb
    BY <1>2 DEF add_noti
  <2> QED  BY <2>1, <2>2 DEF OnlyCb
<1>3. CASE del_noti
  BY <1>1, <1>3 DEF del_noti
<1>4. CASE skip \/ pthread_exit \/ returns \/ get_name("get_pnoti_name") \/ get_name("get_snoti_name")
  BY <1>1, <1>4 DEF skip, pthread_exit, returns, get_name, lib, vars
<1>5. CASE init \/ close
  BY <1>1, <1>5 DEF init, close, heynoti_init, heynoti_close, clear_nslot_list, lib, vars
<1>6. CASE subscribe \/ unsubscribe \/ attach \/ detach \/ poll_event
  BY <1>1, <1>6 DEF subscribe, unsubscribe, attach, detach, poll_event, calls, refused,
     heynoti_subscribe, heynoti_unsubscribe, heynoti_attach_handler, heynoti_detach_handler,
     heynoti_poll_event
<1>7. CASE publish \/ publish_returns \/ thread_event
  BY <1>1, <1>7 DEF publish, publish_returns, thread_event, publish_open, publish_close, lib, vars
<1>8. CASE poll_returns \/ poll_fails \/ handle_event
  BY <1>1, <1>8 DEF poll_returns, poll_fails, handle_event, read_event, read_ends
<1>9. CASE Others
  BY <1>1, <1>9 DEF Others, publish_open, publish_close, tool_set, tool_unset
<1>10. CASE UNCHANGED tvars
  BY <1>1, <1>10 DEF tvars, lib, vars
<1> QED  BY <1>2, <1>3, <1>4, <1>5, <1>6, <1>7, <1>8, <1>9, <1>10 DEF TestNext, Test, Calls

\* A step keeps the plan, if it leaves nothing to excuse.
LEMMA PInvStep == PInv /\ [TestNext]_tvars => PInv'
<1> SUFFICES ASSUME PInv, [TestNext]_tvars  PROVE PInv'
  OBVIOUS
<1>1. RInv' /\ OnlyCb'
  BY RInvStep, OnlyCbStep DEF PInv, RInv
<1>2. excuse => excuse'
  BY DEF TestNext, tvars
<1>3. program' = program
  BY DEF TestNext, tvars, test, Test, skip, init, close, subscribe, unsubscribe, attach, detach,
     poll_event, returns, publish, publish_returns, get_name, pthread_exit, thread_event,
     entered, calls, judge
<1>4. program # "sample_publish" /\ ~excuse' => AsPlanned'
  BY <1>2, PlanStep DEF Unexcused
<1> QED  BY <1>1, <1>3, <1>4 DEF PInv

\* At the start everything is still to be done as planned.
LEMMA PInvInit == TestInit => PInv
<1> SUFFICES ASSUME TestInit  PROVE PInv
  OBVIOUS
<1>1. /\ RInv /\ g_ns = {} /\ ht = "H_NONE" /\ call = Idle /\ running = FALSE /\ deleted = FALSE
      /\ verdict[TRUE] = "none" /\ todo = Script(program)
  BY RInvInit DEF TestInit, Init
<1>2. ~(Waits("unsubscribe") /\ ~Waits("subscribe"))
  BY <1>1, TodoFacts, FirstFacts DEF RInv, UInv, Waits
<1>3. ~InWindow /\ call.op = "idle" /\ \A op : ~Returned(op)
  BY <1>1 DEF InWindow, Idle, Doing, Returned
<1>4. OnlyCb
  BY <1>1 DEF OnlyCb
<1>5. AsPlanned
  BY <1>1, <1>2, <1>3 DEF AsPlanned, Started, Succeeded, Opened, Subscribed, Detached
<1> QED  BY <1>1, <1>4, <1>5 DEF PInv

-----------------------------------------------------------------------------
(* The theorems.                                                           *)

\* A program only holds what its variables can: whatever step fails, it is at
\* a step of its own script and the library holds what it may hold.
THEOREM TestTypeCorrect == TestSpec => []TestTypeOK
<1>1. TestInit => UInv
  BY UInvInit
<1>2. UInv /\ [TestNext]_tvars => UInv'
  BY UInvStep
<1>3. UInv => TestTypeOK
  BY DEF UInv
<1> QED
  BY <1>1, <1>2, <1>3, PTL DEF TestSpec

\* The unit tests and the samples are applications of the library: each of
\* their behaviours is one of module Heynoti, so what is proved of the library
\* under any application holds under them.
THEOREM ProgramsUseLibrary == TestSpec => Spec
<1>1. TestInit => Init /\ UInv
  BY UInvInit DEF TestInit
<1>2. UInv /\ [TestNext]_tvars => UInv' /\ [Next]_vars
  BY UInvStep, LibraryStep
<1> QED
  BY <1>1, <1>2, PTL DEF TestSpec, Spec

\* A unit test that is over, wherever it failed, has given its container, its
\* slots and its watches back (the cleanup functions of TC/unit).
THEOREM CleanupIsComplete == TestSpec => []CleanupCloses
<1>1. TestInit => CInv
  BY CInvInit
<1>2. CInv /\ [TestNext]_tvars => CInv'
  BY CInvStep
<1>3. CInv => CleanupCloses
  <2> SUFFICES ASSUME CInv, Done, program \in Tidy
               PROVE  ~nc /\ g_ns = {} /\ \A i \in Inode : ~Watched(i)
    BY DEF CleanupCloses, Tidy
  <2>1. Members(todo) = {}
    BY DEF Done, Members
  <2>2. ~nc
    BY <2>1 DEF CInv, InstanceKept
  <2> QED
    BY <2>2 DEF CInv, ClosedNoWatch, UInv, IInv, ClosedClean
<1> QED
  BY <1>1, <1>2, <1>3, PTL DEF TestSpec

\* A test reports a wrong call as accepted never, and a valid call as failed
\* only if the system or the key has failed it.
THEOREM VerdictsAreSound == TestSpec => []VerdictsHold
<1>1. TestInit => PInv
  BY PInvInit
<1>2. PInv /\ [TestNext]_tvars => PInv'
  BY PInvStep
<1>3. PInv => VerdictsHold
  <2> SUFFICES ASSUME PInv, program # "sample_publish"
               PROVE  verdict[FALSE] # "FAIL" /\ (verdict[TRUE] = "FAIL" => excuse)
    BY DEF VerdictsHold
  <2> QED
    BY DEF PInv, RInv, Refused, AsPlanned
<1> QED
  BY <1>1, <1>2, <1>3, PTL DEF TestSpec
==============================================================================

---------------------------- MODULE ReadPerfProofs ----------------------------
(***************************************************************************)
(* Theorems about get_func and the files of ReadPerf, for any number of    *)
(* samples, copies and addresses in a cache, and anything addr2line may    *)
(* print.                                                                  *)
(***************************************************************************)
EXTENDS ReadPerf, SumLemmas, TLAPS

PCs == {"replay", "fork", "wait", "status"}

Answer == {None, NotAsked} \cup (Word \X Word)

Proc == [pc : PCs, answers : Seq(Answer), fds : Int, pstdout : Seq(Word), ret : Nat]

\* A process is in a call, with its pipes open, or between two.
InCall(p) ==
  /\ p.pc = "replay" => Len(p.answers) <= Len(calls) /\ p.fds = 0
  /\ p.pc # "replay" => Len(p.answers) < Len(calls) /\ p.fds = Pipes

\* What there is to read is what addr2line has printed for this address.
Honest(p) ==
  LET told == Tool[calls[Len(p.answers) + 1]]
  IN  /\ \A n \in DOMAIN p.answers : p.answers[n] \in Answers(calls[n]) \cup {NotAsked}
      /\ p.pc # "status" => p.pstdout = << >>
      /\ p.pc = "status" =>
           \/ p.pstdout = << >> /\ p.ret = 0
           \/ p.pstdout = told.words /\ p.ret = told.status

Types ==
  /\ calls \in Seq(Addresses)
  /\ procs \in Seq(Proc) /\ procs # << >>

Inv ==
  /\ Types
  /\ \A n \in DOMAIN procs : InCall(procs[n]) /\ (n < Len(procs) => procs[n].pc = "wait")
  /\ canExec => Len(procs) = 1 /\ Honest(procs[1])

-----------------------------------------------------------------------------

LEMMA InitInv == Init => Inv
<1> SUFFICES ASSUME Init PROVE Inv
  OBVIOUS
<1>1. calls \in Seq(Addresses)
  <2>1. PICK m \in 0 .. MaxCalls : calls \in [1 .. m -> Addresses]
    BY Addr2LineAssumption DEF Init, BoundedSeq, SeqOf
  <2> QED
    BY <2>1, Addr2LineAssumption
<1>2. readperf \in Proc /\ Len(readperf.answers) = 0
  BY DEF readperf, Proc, PCs
<1>3. procs \in Seq(Proc) /\ procs # << >> /\ Len(procs) = 1 /\ procs[1] = readperf
  <2>1. procs = <<readperf>>
    BY DEF Init
  <2> QED
    BY <1>2, <2>1
<1>4. InCall(readperf)
  BY <1>1, <1>2 DEF InCall, readperf
<1>5. Honest(readperf)
  BY DEF Honest, readperf
<1>6. Types
  BY <1>1, <1>3 DEF Types
<1>7. \A n \in DOMAIN procs : procs[n] = readperf /\ ~(n < Len(procs))
  BY <1>3
<1> QED
  BY <1>3, <1>4, <1>5, <1>6, <1>7 DEF Inv

\* The running process.
LEMMA Running ==
  ASSUME Inv
  PROVE  /\ procs \in Seq(Proc) /\ Len(procs) \in Nat \ {0}
         /\ me = procs[Len(procs)] /\ me \in Proc /\ InCall(me)
         /\ canExec => Len(procs) = 1 /\ Honest(me)
<1>1. procs \in Seq(Proc) /\ Len(procs) \in Nat \ {0}
  BY DEF Inv, Types
<1>2. me = procs[Len(procs)]
  BY DEF me, Last
<1> QED
  BY <1>1, <1>2 DEF Inv

\* A step of the running process alone.
LEMMA BecomeInv ==
  ASSUME Inv, NEW p \in Proc, Become(p), InCall(p), canExec => Honest(p)
  PROVE  Inv'
<1>1. /\ procs' = [procs EXCEPT ![Len(procs)] = p]
      /\ calls' = calls /\ execv' = execv /\ fork' = fork
  BY DEF Become, system
<1>2. procs \in Seq(Proc) /\ Len(procs) \in Nat \ {0}
  BY Running
<1>4. /\ procs' \in Seq(Proc) /\ Len(procs') = Len(procs) /\ procs'[Len(procs)] = p
      /\ \A n \in 1 .. Len(procs) - 1 : procs'[n] = procs[n]
  BY <1>1, <1>2
<1>5. procs' # << >>
  BY <1>2, <1>4
<1>6. Types'
  BY <1>1, <1>4, <1>5 DEF Inv, Types
<1>7. (\A n \in DOMAIN procs : InCall(procs[n]) /\ (n < Len(procs) => procs[n].pc = "wait"))'
  <2> SUFFICES ASSUME NEW n \in 1 .. Len(procs)
               PROVE  InCall(procs[n])' /\ (n < Len(procs) => procs'[n].pc = "wait")
    BY <1>4, <1>5
  <2>0. n = Len(procs) \/ n < Len(procs)
    BY <1>2
  <2>1. CASE n = Len(procs)
    <3>1. procs'[n] = p /\ calls' = calls
      BY <1>1, <1>4, <2>1
    <3>2. ~(n < Len(procs))
      BY <1>2, <2>1
    <3>3. InCall(procs[n])'
      BY <3>1 DEF InCall
    <3> QED
      BY <3>2, <3>3
  <2>2. CASE n < Len(procs)
    <3>1. procs'[n] = procs[n]
      BY <1>2, <1>4, <2>2
    <3>2. InCall(procs[n]) /\ procs[n].pc = "wait"
      BY <1>2, <2>2 DEF Inv
    <3> QED
      BY <1>1, <3>1, <3>2 DEF InCall
  <2> QED
    BY <1>2, <2>0, <2>1, <2>2
<1>8. (canExec => Len(procs) = 1 /\ Honest(procs[1]))'
  <2> SUFFICES ASSUME canExec PROVE Len(procs') = 1 /\ Honest(procs[1])'
    BY <1>1 DEF canExec
  <2>1. Len(procs') = 1 /\ procs'[1] = p
    BY <1>4 DEF Inv
  <2>2. Honest(p)
    OBVIOUS
  <2> QED
    BY <1>1, <2>1, <2>2 DEF Honest, Answers, canExec, canFork
<1> QED
  BY <1>6, <1>7, <1>8 DEF Inv
\* A call that returns.
LEMMA AnsweredIs ==
  ASSUME Len(calls) \in Nat, NEW p \in Proc, InCall(p), p.pc # "replay", NEW given \in Answer
  PROVE  LET q == Answered(p, given)
         IN  /\ q \in Proc /\ InCall(q) /\ q.pc = "replay" /\ q.pstdout = << >>
             /\ q.answers = Append(p.answers, given)
<1> DEFINE q == Answered(p, given)
<1>1. p.answers \in Seq(Answer) /\ Append(p.answers, given) \in Seq(Answer)
      /\ Len(Append(p.answers, given)) = Len(p.answers) + 1 /\ Len(p.answers) \in Nat
  BY DEF Proc
<1>2. Len(p.answers) < Len(calls) /\ p.fds = Pipes /\ Pipes \in Int
  BY DEF InCall, Pipes
<1>3. /\ q.pc = "replay" /\ q.pstdout = << >> /\ q.fds = 0
      /\ q.answers = Append(p.answers, given)
  BY <1>2 DEF Answered, Proc, Pipes
<1>4. q \in Proc
  <2>1. << >> \in Seq(Word) /\ "replay" \in PCs /\ p.fds - Pipes \in Int
    BY <1>2 DEF PCs
  <2> QED
    BY <1>1, <2>1 DEF Answered, Proc
<1>5. InCall(q)
  BY <1>1, <1>2, <1>3 DEF InCall
<1> QED
  BY <1>3, <1>4, <1>5

\* The failure path closes the pipes and answers nothing.
LEMMA FailedIs ==
  ASSUME Len(calls) \in Nat, NEW p \in Proc, InCall(p), p.pc # "replay"
  PROVE  /\ Failed(p) \in Proc /\ InCall(Failed(p))
         /\ Failed(p).pc = "replay" /\ Failed(p).pstdout = << >>
         /\ Failed(p).answers = Append(p.answers, None)
BY AnsweredIs DEF Failed, Answer

\* The child that could not become addr2line goes on behind its parent.
LEMMA CopyInv ==
  ASSUME Inv, ExecFails
  PROVE  Inv'
<1> DEFINE p == Failed(me)
<1>1. /\ procs' = Append(procs, p) /\ ~canExec /\ me.pc = "wait"
      /\ calls' = calls /\ execv' = execv /\ fork' = fork
  BY DEF ExecFails, system
<1>2. procs \in Seq(Proc) /\ Len(procs) \in Nat \ {0}
      /\ me = procs[Len(procs)] /\ me \in Proc /\ InCall(me) /\ Len(calls) \in Nat
  BY Running DEF Inv, Types
<1>3. p \in Proc /\ InCall(p)
  BY <1>1, <1>2, FailedIs
<1> HIDE DEF p
<1>4. /\ procs' \in Seq(Proc) /\ Len(procs') = Len(procs) + 1 /\ procs'[Len(procs) + 1] = p
      /\ \A n \in 1 .. Len(procs) : procs'[n] = procs[n]
  BY <1>1, <1>2, <1>3
<1>5. Types'
  BY <1>1, <1>2, <1>4 DEF Inv, Types
<1>6. (\A n \in DOMAIN procs : InCall(procs[n]) /\ (n < Len(procs) => procs[n].pc = "wait"))'
  <2> SUFFICES ASSUME NEW n \in 1 .. Len(procs) + 1
               PROVE  InCall(procs[n])' /\ (n < Len(procs) + 1 => procs'[n].pc = "wait")
    BY <1>4
  <2>1. CASE n = Len(procs) + 1
    BY <1>1, <1>3, <1>4, <2>1 DEF InCall
  <2>2. CASE n \in 1 .. Len(procs)
    <3>1. procs'[n] = procs[n]
      BY <1>4, <2>2
    <3>2. InCall(procs[n]) /\ procs[n].pc = "wait"
      BY <1>1, <1>2, <2>2 DEF Inv
    <3> QED
      BY <1>1, <3>1, <3>2 DEF InCall
  <2> QED
    BY <1>2, <2>1, <2>2
<1> QED
  BY <1>1, <1>5, <1>6 DEF Inv, canExec

\* A copy ends, and its parent goes on with what it has printed.
LEMMA CopyEndsInv ==
  ASSUME Inv, CopyEnds
  PROVE  Inv'
<1> DEFINE rest == Front(procs)
           last == Len(procs) - 1
           p == [rest[last] EXCEPT !.pc = "status", !.ret = 0, !.pstdout = Overview]
<1>1. /\ Len(procs) > 1 /\ calls' = calls /\ execv' = execv /\ fork' = fork
  BY DEF CopyEnds, system
<1>2. procs \in Seq(Proc) /\ Len(procs) \in Nat \ {0}
  BY Running
<1>3. /\ rest \in Seq(Proc) /\ Len(rest) = last /\ last \in 1 .. Len(procs) /\ last < Len(procs)
      /\ \A n \in 1 .. last : rest[n] = procs[n]
  BY <1>1, <1>2 DEF Front
<1>4. procs' = [rest EXCEPT ![last] = p]
  BY <1>3 DEF CopyEnds
<1>5. rest[last] \in Proc /\ InCall(rest[last]) /\ rest[last].pc = "wait"
  BY <1>2, <1>3 DEF Inv
<1> HIDE DEF rest, last
<1>6. p \in Proc /\ p.pc = "status" /\ p.answers = rest[last].answers /\ p.fds = rest[last].fds
  BY <1>5, Addr2LineAssumption DEF Proc, PCs
<1>7. InCall(p)
  BY <1>5, <1>6 DEF InCall
<1> HIDE DEF p
<1>8. /\ procs' \in Seq(Proc) /\ Len(procs') = last /\ procs'[last] = p /\ last \in Nat \ {0}
      /\ \A n \in 1 .. last : n # last => procs'[n] = procs[n]
  BY <1>2, <1>3, <1>4, <1>6
<1>9. Types'
  BY <1>1, <1>8 DEF Inv, Types
<1>10. (\A n \in DOMAIN procs : InCall(procs[n]) /\ (n < Len(procs) => procs[n].pc = "wait"))'
  <2> SUFFICES ASSUME NEW n \in 1 .. last
               PROVE  InCall(procs[n])' /\ (n < last => procs'[n].pc = "wait")
    BY <1>8
  <2>1. CASE n = last
    BY <1>1, <1>7, <1>8, <2>1 DEF InCall
  <2>2. CASE n # last
    <3>1. procs'[n] = procs[n]
      BY <1>8, <2>2
    <3>2. InCall(procs[n]) /\ procs[n].pc = "wait"
      BY <1>2, <1>3, <2>2 DEF Inv
    <3> QED
      BY <1>1, <3>1, <3>2 DEF InCall
  <2> QED
    BY <2>1, <2>2
<1>11. ~canExec
  BY <1>1, Running
<1> QED
  BY <1>1, <1>9, <1>10, <1>11 DEF Inv, canExec
\* The running process is in its call and knows what it is about.
LEMMA Asked ==
  ASSUME Inv, me.pc # "replay"
  PROVE  /\ me \in Proc /\ InCall(me) /\ Len(calls) \in Nat
         /\ Len(me.answers) \in Nat /\ Len(me.answers) < Len(calls)
         /\ calls[Len(me.answers) + 1] \in Addresses
         /\ canExec => Honest(me)
<1>1. me \in Proc /\ InCall(me) /\ calls \in Seq(Addresses) /\ (canExec => Honest(me))
  BY Running DEF Inv, Types
<1>2. Len(me.answers) \in Nat
  BY <1>1 DEF Proc
<1>3. Len(me.answers) < Len(calls)
  BY <1>1 DEF InCall
<1> QED
  BY <1>1, <1>2, <1>3

\* An honest process that is answered honestly stays so.
LEMMA HonestAnswer ==
  ASSUME Inv, me.pc # "replay", canExec, NEW q \in Proc, q.pc = "replay", q.pstdout = << >>,
         NEW given \in Answer, q.answers = Append(me.answers, given),
         given \in Answers(calls[Len(me.answers) + 1])
  PROVE  Honest(q)
<1>1. /\ me \in Proc /\ Len(me.answers) \in Nat
      /\ \A n \in DOMAIN me.answers : me.answers[n] \in Answers(calls[n]) \cup {NotAsked}
  BY Asked DEF Honest
<1>2. me.answers \in Seq(Answer)
  BY <1>1 DEF Proc
<1>3. \A n \in DOMAIN q.answers : q.answers[n] \in Answers(calls[n]) \cup {NotAsked}
  BY <1>1, <1>2
<1> QED
  BY <1>3 DEF Honest

LEMMA OpenPipesInv ==
  ASSUME Inv, OpenPipes
  PROVE  Inv'
<1> DEFINE p == [me EXCEPT !.pc = "fork", !.fds = @ + Pipes]
<1>1. me \in Proc /\ InCall(me) /\ (canExec => Honest(me)) /\ me.pc = "replay"
      /\ Len(me.answers) < Len(calls) /\ Become(p)
  BY Running DEF OpenPipes
<1>2. me.fds = 0
  BY <1>1 DEF InCall
<1>3. p \in Proc /\ p.pc = "fork" /\ p.fds = Pipes /\ p.answers = me.answers
      /\ p.pstdout = me.pstdout
  <2>1. me.fds + Pipes = Pipes /\ Pipes \in Int
    BY <1>2 DEF Pipes
  <2>2. p.pc = "fork" /\ p.fds = Pipes /\ p.answers = me.answers /\ p.pstdout = me.pstdout
    BY <1>1, <2>1 DEF Proc
  <2>3. p \in Proc
    BY <1>1, <2>1 DEF Proc, PCs
  <2> QED
    BY <2>2, <2>3
<1>4. InCall(p)
  BY <1>1, <1>3 DEF InCall
<1>5. canExec => Honest(p)
  BY <1>1, <1>3 DEF Honest
<1> QED
  BY <1>1, <1>3, <1>4, <1>5, BecomeInv

\* A sample of a function that is known costs no call.
LEMMA SkipInv ==
  ASSUME Inv, Skip
  PROVE  Inv'
<1> DEFINE p == [me EXCEPT !.answers = Append(@, NotAsked)]
<1>1. me \in Proc /\ InCall(me) /\ (canExec => Honest(me)) /\ me.pc = "replay"
      /\ Len(me.answers) < Len(calls) /\ Become(p) /\ Len(calls) \in Nat
  BY Running DEF Skip, Inv, Types
<1>2. /\ me.answers \in Seq(Answer) /\ NotAsked \in Answer /\ Len(me.answers) \in Nat
      /\ Append(me.answers, NotAsked) \in Seq(Answer)
      /\ Len(Append(me.answers, NotAsked)) = Len(me.answers) + 1
  BY <1>1 DEF Proc, Answer
<1>3. p \in Proc /\ p.pc = "replay" /\ p.fds = me.fds /\ p.pstdout = me.pstdout
      /\ p.answers = Append(me.answers, NotAsked)
  BY <1>1, <1>2 DEF Proc
<1>4. InCall(p)
  BY <1>1, <1>2, <1>3 DEF InCall
<1>5. canExec => Honest(p)
  <2> SUFFICES ASSUME canExec PROVE Honest(p)
    OBVIOUS
  <2> HIDE DEF p
  <2>1. \A n \in DOMAIN p.answers : p.answers[n] \in Answers(calls[n]) \cup {NotAsked}
    BY <1>1, <1>2, <1>3 DEF Honest
  <2> QED
    BY <1>1, <1>3, <2>1 DEF Honest
<1> HIDE DEF p
<1> QED
  BY <1>1, <1>3, <1>4, <1>5, BecomeInv

\* Steps within a call: only pc, ret and what there is to read change.
LEMMA WithinInv ==
  ASSUME Inv, Fork \/ ForkFails \/ RunTool
  PROVE  Inv'
<1>1. me \in Proc /\ InCall(me) /\ (canExec => Honest(me)) /\ me.pc # "replay"
      /\ Len(me.answers) < Len(calls) /\ calls[Len(me.answers) + 1] \in Addresses
  BY Asked DEF Fork, ForkFails, RunTool
<1>2. CASE Fork
  <2> DEFINE p == [me EXCEPT !.pc = "wait"]
  <2>1. p \in Proc /\ p.pc = "wait" /\ p.fds = me.fds /\ p.answers = me.answers
        /\ p.pstdout = me.pstdout
    BY <1>1 DEF Proc, PCs
  <2>2. InCall(p)
    BY <1>1, <2>1 DEF InCall
  <2>3. canExec => Honest(p)
    BY <1>1, <1>2, <2>1 DEF Honest, Fork
  <2> QED
    BY <1>2, <2>1, <2>2, <2>3, BecomeInv DEF Fork
<1>3. CASE ForkFails
  <2> DEFINE p == [me EXCEPT !.pc = "status", !.ret = 0]
  <2>1. p \in Proc /\ p.pc = "status" /\ p.fds = me.fds /\ p.answers = me.answers
        /\ p.pstdout = me.pstdout /\ p.ret = 0
    BY <1>1 DEF Proc, PCs
  <2>2. InCall(p)
    BY <1>1, <2>1 DEF InCall
  <2>3. canExec => Honest(p)
    BY <1>1, <1>3, <2>1 DEF Honest, ForkFails
  <2> QED
    BY <1>3, <2>1, <2>2, <2>3, BecomeInv DEF ForkFails
<1>4. CASE RunTool
  <2> DEFINE p == [me EXCEPT !.pc = "status", !.ret = tool.status, !.pstdout = tool.words]
  <2>0. tool = Tool[calls[Len(me.answers) + 1]] /\ tool.status \in Nat /\ tool.words \in Seq(Word)
    BY <1>1, Addr2LineAssumption DEF tool, asked
  <2>1. p \in Proc /\ p.pc = "status" /\ p.fds = me.fds /\ p.answers = me.answers
        /\ p.pstdout = tool.words /\ p.ret = tool.status
    BY <1>1, <2>0 DEF Proc, PCs
  <2>2. InCall(p)
    BY <1>1, <2>1 DEF InCall
  <2>3. canExec => Honest(p)
    BY <1>1, <2>0, <2>1 DEF Honest
  <2> QED
    BY <1>4, <2>1, <2>2, <2>3, BecomeInv DEF RunTool
<1> QED
  BY <1>2, <1>3, <1>4

LEMMA StatusFailsInv ==
  ASSUME Inv, StatusFails
  PROVE  Inv'
<1> DEFINE p == Failed(me) a == calls[Len(me.answers) + 1]
<1>1. me.pc = "status" /\ me.ret # 0 /\ Become(p)
  BY DEF StatusFails, Succeeds
<1>2. me \in Proc /\ InCall(me) /\ Len(calls) \in Nat /\ (canExec => Honest(me))
  BY <1>1, Asked
<1>3. /\ p \in Proc /\ InCall(p) /\ p.pc = "replay" /\ p.pstdout = << >>
      /\ p.answers = Append(me.answers, None)
  BY <1>1, <1>2, FailedIs
<1>4. canExec => Honest(p)
  <2> SUFFICES ASSUME canExec PROVE Honest(p)
    OBVIOUS
  <2>1. Tool[a].status # 0
    BY <1>1, <1>2 DEF Honest
  <2>2. None \in Answers(a) /\ None \in Answer
    BY <2>1 DEF Answers, Answer
  <2> HIDE DEF p
  <2> QED
    BY <1>1, <1>3, <2>2, HonestAnswer
<1> HIDE DEF p
<1> QED
  BY <1>1, <1>3, <1>4, BecomeInv

\* What get_func has read is an answer.
LEMMA AnswerIs ==
  ASSUME Inv, ReadAnswer
  PROVE  /\ me.pc = "status" /\ me.ret = 0 /\ me.pstdout # << >> /\ Become(Answered(me, answer))
         /\ answer = <<me.pstdout[1], <<me.pstdout[2][1]>> >> /\ answer \in Answer
<1>1. me.pc = "status" /\ me.ret = 0 /\ Len(me.pstdout) >= 2 /\ Become(Answered(me, answer))
  BY DEF ReadAnswer, Succeeds
<1>2. me.pstdout \in Seq(Word)
  BY <1>1, Asked DEF Proc
<1>3. me.pstdout[1] \in Word /\ me.pstdout[2] \in Word /\ me.pstdout # << >>
  BY <1>1, <1>2
<1>4. Cut(me.pstdout[2]) = <<me.pstdout[2][1]>> /\ Cut(me.pstdout[2]) \in Word
  BY <1>3 DEF Cut, Word
<1> QED
  BY <1>1, <1>3, <1>4 DEF Answer, answer

LEMMA ReadAnswerInv ==
  ASSUME Inv, ReadAnswer
  PROVE  Inv'
<1> DEFINE p == Answered(me, answer)
           a == calls[Len(me.answers) + 1]
<1>1. /\ me.pc = "status" /\ me.ret = 0 /\ me.pstdout # << >> /\ Become(p)
      /\ answer = <<me.pstdout[1], <<me.pstdout[2][1]>> >> /\ answer \in Answer
  BY AnswerIs
<1>2. me \in Proc /\ InCall(me) /\ Len(calls) \in Nat /\ (canExec => Honest(me))
  BY <1>1, Asked
<1>3. /\ p \in Proc /\ InCall(p) /\ p.pc = "replay" /\ p.pstdout = << >>
      /\ p.answers = Append(me.answers, answer)
  BY <1>1, <1>2, AnsweredIs
<1>4. canExec => Honest(p)
  <2> SUFFICES ASSUME canExec PROVE Honest(p)
    OBVIOUS
  <2>1. me.pstdout = Tool[a].words /\ Tool[a].status = 0
    BY <1>1, <1>2 DEF Honest
  <2>2. answer \in Answers(a)
    BY <1>1, <2>1 DEF Answers
  <2> HIDE DEF p
  <2> QED
    BY <1>1, <1>3, <2>2, HonestAnswer
<1> HIDE DEF p
<1> QED
  BY <1>1, <1>3, <1>4, BecomeInv

LEMMA StepInv == Inv /\ [Next]_vars => Inv'
<1>1. ASSUME Inv, Next PROVE Inv'
  BY <1>1, OpenPipesInv, SkipInv, WithinInv, CopyInv, StatusFailsInv, ReadAnswerInv, CopyEndsInv DEF Next
<1>2. ASSUME Inv, UNCHANGED vars PROVE Inv'
  <2>1. calls' = calls /\ execv' = execv /\ fork' = fork /\ procs' = procs
    BY <1>2 DEF vars, system
  <2> QED
    BY <1>2, <2>1 DEF Inv, Types, InCall, Honest, Answers, canExec, canFork
<1> QED
  BY <1>1, <1>2

LEMMA InvHolds == ReadPerfSpec => []Inv
<1>1. ReadPerfInit => Inv
  BY InitInv DEF ReadPerfInit
<1>2. [ReadPerfNext]_allVars => [Next]_vars
  <2>1. ReadPerfNext => Next \/ UNCHANGED vars
    BY DEF ReadPerfNext, Sample, SampleCached, Copy, Resolve, Unresolved, Resolved,
          CopyReports, Report, Next
  <2>2. UNCHANGED allVars => UNCHANGED vars
    BY DEF allVars
  <2> QED
    BY <2>1, <2>2
<1> QED
  BY <1>1, <1>2, StepInv, PTL DEF ReadPerfSpec

(***************************************************************************)
(* All processes but the running one wait, and none answers more than it   *)
(* is asked, for any number of calls and copies.                           *)
(***************************************************************************)
THEOREM ProcessesWait == ReadPerfSpec => []TypeOK
<1>1. Inv => TypeOK
  <2> SUFFICES ASSUME Inv PROVE TypeOK
    OBVIOUS
  <2>1. ASSUME NEW n \in DOMAIN procs
        PROVE  procs[n].pc \in PCs /\ Len(procs[n].answers) <= Len(calls)
    <3>1. procs[n] \in Proc /\ InCall(procs[n]) /\ Len(calls) \in Nat
      BY DEF Inv, Types
    <3>2. procs[n].pc \in PCs /\ Len(procs[n].answers) \in Nat
      BY <3>1 DEF Proc
    <3> QED
      BY <3>1, <3>2 DEF InCall
  <2> QED
    BY <2>1 DEF Inv, Types, TypeOK, PCs
<1> QED
  BY <1>1, InvHolds, PTL

(***************************************************************************)
(* No call leaves a pipe open, whichever way it ends.                      *)
(***************************************************************************)
THEOREM CallsClosePipes == ReadPerfSpec => []PipesClosed
<1>1. Inv => PipesClosed
  BY Running DEF PipesClosed, InCall
<1> QED
  BY <1>1, InvHolds, PTL

(***************************************************************************)
(* While addr2line can be run, each answer is its answer for this address, *)
(* or a failure it has given a reason for.                                 *)
(***************************************************************************)
THEOREM AnswersAreOfTool == ReadPerfSpec => []AnswersAreTools
<1>1. Inv => AnswersAreTools
  BY Running DEF AnswersAreTools, Honest
<1> QED
  BY <1>1, InvHolds, PTL

-----------------------------------------------------------------------------
(* The functions a process knows.                                          *)

AddrParts == {a[1] : a \in Addresses}
BinNames == {a[2] : a \in Addresses}

Entry == [addr : [Slots -> AddrParts \cup {NoAddr}], addhead : Slots, bin_name : BinNames,
          source : Answer, samples : Nat, period : Nat]
Tally == [samples : Nat, period : Nat]
Stat == [head : Seq(Entry), error : Tally]

\* The samples of all entries, and the addresses in their caches.
Counted(list) == [i \in DOMAIN list |-> list[i].samples]
Total(list) == SumFunction(Counted(list))
Known(list) == {a \in AddrParts : \E i \in DOMAIN list : has_addr(list[i], a)}

\* Both searches stop at one of the entries they look for.
LEMMA FirstIsHit ==
  ASSUME NEW S \in SUBSET Nat, S # {}
  PROVE  First(S) \in S
<1>1. PICK i \in S : \A j \in S : ~(<<j, i>> \in OpToRel(<, Nat))
  BY NatLessThanWellFounded, WFMin
<1>2. ASSUME NEW j \in S, j < i
      PROVE  FALSE
  BY <1>1, <1>2 DEF OpToRel
<1>3. \A j \in S : i <= j
  BY <1>2
<1> QED
  BY <1>3 DEF First

LEMMA CreditIs ==
  ASSUME NEW e \in Entry
  PROVE  /\ credit(e, 1) \in Entry /\ credit(e, 1).samples = e.samples + 1
         /\ credit(e, 1).addr = e.addr
<1>1. e.samples + 1 \in Nat /\ e.period + 1 \in Nat
  BY DEF Entry
<1> QED
  BY <1>1 DEF Entry, credit

LEMMA RememberIs ==
  ASSUME NEW e \in Entry, NEW addr \in AddrParts
  PROVE  /\ remember(e, addr) \in Entry /\ remember(e, addr).samples = e.samples
         /\ \A a \in AddrParts : has_addr(remember(e, addr), a) => has_addr(e, a) \/ a = addr
<1>1. (e.addhead + 1) % CacheSize \in Slots
  BY ReadPerfAssumption DEF Slots, Entry
<1> DEFINE f == [e.addr EXCEPT ![e.addhead] = addr]
<1>2. f \in [Slots -> AddrParts \cup {NoAddr}] /\ \A idx \in Slots : f[idx] \in {e.addr[idx], addr}
  BY DEF Entry
<1> HIDE DEF f
<1>3. remember(e, addr) = [e EXCEPT !.addr = f, !.addhead = (e.addhead + 1) % CacheSize]
  BY DEF remember, f
<1>4. /\ remember(e, addr) \in Entry /\ remember(e, addr).samples = e.samples
      /\ remember(e, addr).addr = f
  BY <1>1, <1>2, <1>3 DEF Entry
<1> QED
  BY <1>2, <1>4 DEF has_addr

LEMMA TotalType ==
  ASSUME NEW list \in Seq(Entry)
  PROVE  Counted(list) \in Seq(Nat) /\ Total(list) \in Nat
<1>1. Counted(list) \in Seq(Nat)
  <2>1. \A i \in DOMAIN list : list[i].samples \in Nat
    <3>1. \A e \in Entry : e.samples \in Nat
      BY DEF Entry
    <3> QED
      BY <3>1
  <2>2. Counted(list) \in [1 .. Len(list) -> Nat] /\ Len(list) \in Nat
    BY <2>1 DEF Counted
  <2> QED
    BY <2>2
<1> QED
  BY <1>1, SumOfSequence DEF Total

\* A row in front of the others.
LEMMA OneMore ==
  ASSUME NEW list \in Seq(Entry), NEW e, e.samples \in Nat
  PROVE  Total(<<e>> \o list) = Total(list) + e.samples
<1> DEFINE new == <<e>> \o list
           one == <<e.samples>>
           w == Counted(list)
           v == Counted(new)
           k == Len(list)
<1>1. /\ DOMAIN new = 1 .. k + 1 /\ new[1] = e /\ k \in Nat
      /\ \A j \in 2 .. k + 1 : new[j] = list[j - 1]
  OBVIOUS
<1>2. w \in Seq(Nat) /\ Len(w) = k /\ one \in Seq(Nat) /\ Len(one) = 1
      /\ \A j \in 1 .. k : w[j] = list[j].samples
  BY TotalType DEF Counted
<1> HIDE DEF new
<1>3. v[1] = e.samples /\ DOMAIN v = 1 .. k + 1 /\ \A j \in 1 .. k + 1 : v[j] = new[j].samples
  BY <1>1 DEF Counted
<1> HIDE DEF v, w, k
<1>4. \A j \in 2 .. k + 1 : v[j] = w[j - 1]
  <2> TAKE j \in 2 .. k + 1
  <2>1. j \in 1 .. k + 1 /\ j - 1 \in 1 .. k
    BY <1>1
  <2> QED
    BY <1>1, <1>2, <1>3, <2>1
<1>5. v = one \o w
  <2> DEFINE x == one \o w
  <2>1. /\ x \in Seq(Nat) /\ DOMAIN x = 1 .. k + 1 /\ x[1] = e.samples
        /\ \A j \in 2 .. k + 1 : x[j] = w[j - 1]
    BY <1>1, <1>2
  <2> HIDE DEF x
  <2>2. \A j \in 1 .. k + 1 : v[j] = x[j]
    <3> TAKE j \in 1 .. k + 1
    <3>1. CASE j = 1
      BY <1>3, <2>1, <3>1
    <3>2. CASE j # 1
      <4>1. j \in 2 .. k + 1
        BY <1>1, <3>2
      <4> QED
        BY <1>4, <2>1, <4>1
    <3> QED
      BY <3>1, <3>2
  <2>3. v = [j \in 1 .. k + 1 |-> v[j]] /\ x = [j \in 1 .. k + 1 |-> x[j]]
    <3>1. x = [j \in DOMAIN x |-> x[j]]
      BY <2>1
    <3>2. v = [j \in DOMAIN v |-> v[j]]
      BY DEF v, Counted
    <3> QED
      BY <1>3, <2>1, <3>1, <3>2
  <2>4. v = x
    BY <2>2, <2>3
  <2> QED
    BY <2>4 DEF x
<1>6. SumFunction(one \o w) = SumFunction(one) + SumFunction(w)
  <2> HIDE DEF one
  <2> QED
    BY <1>2, SumConcat
<1>7. SumFunction(one) = e.samples
  <2>1. DOMAIN one = {1} /\ one[1] = e.samples
    OBVIOUS
  <2> HIDE DEF one
  <2> QED
    BY <2>1, SumOne
<1>8. SumFunction(w) \in Nat
  BY <1>2, SumOfSequence
<1>9. SumFunction(v) = SumFunction(w) + e.samples
  BY <1>5, <1>6, <1>7, <1>8
<1> QED
  BY <1>9 DEF Total, v, w, new

\* One entry has a sample more.
LEMMA EntryChanges ==
  ASSUME NEW list \in Seq(Entry), NEW i \in DOMAIN list, NEW e \in Entry,
         e.samples = list[i].samples + 1
  PROVE  LET new == [list EXCEPT ![i] = e]
         IN  /\ new \in Seq(Entry) /\ new # << >> /\ DOMAIN new = DOMAIN list
             /\ Total(new) = Total(list) + 1
             /\ new[i] = e /\ \A j \in DOMAIN list : j # i => new[j] = list[j]
<1> DEFINE new == [list EXCEPT ![i] = e]
           w == Counted(list)
           v == Counted(new)
<1>1. /\ new \in Seq(Entry) /\ new # << >> /\ DOMAIN new = DOMAIN list
      /\ new[i] = e /\ \A j \in DOMAIN list : j # i => new[j] = list[j]
  OBVIOUS
<1> HIDE DEF new
<1>2. /\ DOMAIN w = DOMAIN list /\ DOMAIN v = DOMAIN list
      /\ \A j \in DOMAIN list : w[j] = list[j].samples /\ v[j] = new[j].samples
  BY <1>1 DEF Counted
<1>3. w \in Seq(Nat) /\ v \in Seq(Nat)
  BY <1>1, TotalType
<1> HIDE DEF w, v
<1>4. v[i] = w[i] + 1 /\ v[i] \in Nat /\ w[i] \in Nat
  BY <1>1, <1>2, <1>3
<1>5. /\ IsFiniteSet(DOMAIN w) /\ Terms(w, DOMAIN w)
      /\ SumFunction(w) \in Nat /\ SumFunction(v) \in Nat
  BY <1>3, SumOfSequence
<1>6. i \in DOMAIN w /\ DOMAIN v = DOMAIN w /\ \A j \in DOMAIN w : j # i => v[j] = w[j]
  BY <1>1, <1>2
<1>7. SumFunction(v) + w[i] = SumFunction(w) + v[i]
  BY <1>4, <1>5, <1>6, SumChanges
<1>8. SumFunction(v) = SumFunction(w) + 1
  BY <1>4, <1>5, <1>7
<1> QED
  BY <1>1, <1>8 DEF Total, w, v, new

\* What the three ways of force_entry have in common.
Takes(list, new, addr) ==
  /\ new \in Seq(Entry) /\ new # << >>
  /\ Total(new) = Total(list) + 1
  /\ Known(new) \subseteq Known(list) \cup {addr}

LEMMA CachedTakes ==
  ASSUME NEW list \in Seq(Entry), NEW addr \in AddrParts, NEW bin_name,
         find_entry_addr(list, addr, bin_name) # {}
  PROVE  /\ Takes(list, credit_cached(list, addr, bin_name, 1), addr)
         /\ list # << >> /\ addr \in Known(list)
<1> DEFINE S == find_entry_addr(list, addr, bin_name)
           i == First(S)
           e == credit(list[i], 1)
           new == [list EXCEPT ![i] = e]
<1>1. S \in SUBSET Nat /\ S \subseteq DOMAIN list /\ S # {}
  BY DEF find_entry_addr
<1>2. i \in S
  <2> HIDE DEF S
  <2> QED
    BY <1>1, FirstIsHit
<1>3. i \in DOMAIN list /\ has_addr(list[i], addr) /\ list[i] \in Entry
  BY <1>2 DEF find_entry_addr
<1>4. credit_cached(list, addr, bin_name, 1) = new
  BY DEF credit_cached
<1> HIDE DEF S, i
<1>5. e \in Entry /\ e.samples = list[i].samples + 1 /\ e.addr = list[i].addr
  BY <1>3, CreditIs
<1> HIDE DEF e
<1>6. /\ new \in Seq(Entry) /\ new # << >> /\ DOMAIN new = DOMAIN list
      /\ Total(new) = Total(list) + 1
      /\ new[i] = e /\ \A j \in DOMAIN list : j # i => new[j] = list[j]
  BY <1>3, <1>5, EntryChanges
<1> HIDE DEF new
<1>7. \A j \in DOMAIN list : new[j].addr = list[j].addr
  BY <1>5, <1>6
<1>8. Known(new) = Known(list)
  BY <1>6, <1>7 DEF Known, has_addr
<1>9. addr \in Known(list) /\ list # << >>
  BY <1>3 DEF Known
<1> QED
  BY <1>4, <1>6, <1>8, <1>9 DEF Takes

LEMMA KnownTakes ==
  ASSUME NEW list \in Seq(Entry), NEW addr \in AddrParts, NEW source,
         find_entry_name(list, source) # {}
  PROVE  Takes(list, credit_known(list, addr, source, 1), addr)
<1> DEFINE S == find_entry_name(list, source)
           i == First(S)
           r == remember(list[i], addr)
           e == credit(r, 1)
           new == [list EXCEPT ![i] = e]
<1>1. S \in SUBSET Nat /\ S \subseteq DOMAIN list /\ S # {}
  BY DEF find_entry_name
<1>2. i \in S
  <2> HIDE DEF S
  <2> QED
    BY <1>1, FirstIsHit
<1>3. i \in DOMAIN list /\ list[i] \in Entry
  BY <1>1, <1>2
<1>4. credit_known(list, addr, source, 1) = new
  BY DEF credit_known
<1> HIDE DEF S, i
<1>5. /\ r \in Entry /\ r.samples = list[i].samples
      /\ \A a \in AddrParts : has_addr(r, a) => has_addr(list[i], a) \/ a = addr
  BY <1>3, RememberIs
<1> HIDE DEF r
<1>6. e \in Entry /\ e.samples = list[i].samples + 1 /\ e.addr = r.addr
  BY <1>5, CreditIs
<1> HIDE DEF e
<1>7. /\ new \in Seq(Entry) /\ new # << >> /\ DOMAIN new = DOMAIN list
      /\ Total(new) = Total(list) + 1
      /\ new[i] = e /\ \A j \in DOMAIN list : j # i => new[j] = list[j]
  BY <1>3, <1>6, EntryChanges
<1> HIDE DEF new
<1>8. ASSUME NEW a \in Known(new) PROVE a \in Known(list) \cup {addr}
  <2>1. a \in AddrParts /\ \E j \in DOMAIN list : has_addr(new[j], a)
    BY <1>7, <1>8 DEF Known
  <2>2. PICK j \in DOMAIN list : has_addr(new[j], a)
    BY <2>1
  <2>3. CASE j = i
    <3>1. has_addr(r, a)
      BY <1>6, <1>7, <2>2, <2>3 DEF has_addr
    <3> QED
      BY <1>3, <1>5, <2>1, <3>1 DEF Known
  <2>4. CASE j # i
    BY <1>7, <2>1, <2>2, <2>4 DEF Known
  <2> QED
    BY <2>3, <2>4
<1> QED
  BY <1>4, <1>7, <1>8 DEF Takes

LEMMA NewTakes ==
  ASSUME NEW list \in Seq(Entry), NEW addr \in AddrParts, NEW bin_name \in BinNames,
         NEW source \in Answer
  PROVE  Takes(list, credit_new(list, addr, bin_name, source, 1), addr)
<1> DEFINE r == new_entry(addr, bin_name, source)
           e == credit(r, 1)
           new == <<e>> \o list
<1>1. /\ r \in Entry /\ r.samples = 0
      /\ \A a \in AddrParts : has_addr(r, a) => a = addr
  <2>1. 0 \in Slots
    BY ReadPerfAssumption DEF Slots
  <2>2. NoAddr \notin AddrParts
    BY ReadPerfAssumption DEF AddrParts
  <2> QED
    BY <2>1, <2>2 DEF new_entry, Entry, has_addr
<1>2. credit_new(list, addr, bin_name, source, 1) = new
  BY DEF credit_new
<1> HIDE DEF r
<1>3. e \in Entry /\ e.samples = 1 /\ e.addr = r.addr
  BY <1>1, CreditIs
<1> HIDE DEF e
<1>4. /\ new \in Seq(Entry) /\ new # << >> /\ Len(new) = Len(list) + 1
      /\ new[1] = e /\ \A j \in 1 .. Len(list) : new[j + 1] = list[j]
      /\ Len(list) \in Nat
  BY <1>3
<1>5. Total(new) = Total(list) + 1
  <2> HIDE DEF new
  <2>1. Total(<<e>> \o list) = Total(list) + 1
    BY <1>3, OneMore
  <2> QED
    BY <2>1 DEF new
<1>6. ASSUME NEW a \in Known(new) PROVE a \in Known(list) \cup {addr}
  <2>1. a \in AddrParts /\ \E j \in DOMAIN new : has_addr(new[j], a)
    BY <1>6 DEF Known
  <2>2. PICK j \in 1 .. Len(list) + 1 : has_addr(new[j], a)
    BY <1>4, <2>1
  <2>3. CASE j = 1
    <3>1. has_addr(r, a)
      BY <1>3, <1>4, <2>2, <2>3 DEF has_addr
    <3> QED
      BY <1>1, <2>1, <3>1
  <2>4. CASE j # 1
    <3>1. j - 1 \in 1 .. Len(list) /\ (j - 1) + 1 = j /\ DOMAIN list = 1 .. Len(list)
      BY <1>4, <2>4
    <3>2. has_addr(list[j - 1], a)
      BY <1>4, <2>2, <3>1
    <3> QED
      BY <2>1, <3>1, <3>2 DEF Known
  <2> QED
    BY <2>3, <2>4
<1> HIDE DEF new
<1> QED
  BY <1>2, <1>4, <1>5, <1>6 DEF Takes
-----------------------------------------------------------------------------
(* What readperf writes.                                                   *)

Output == [overview : Seq(Int), processes : Seq(Int)]

\* What a process has counted: its samples, and their addresses in its caches.
Tallied(cs, p, s) ==
  /\ s \in Stat
  /\ Total(s.head) + s.error.samples = Len(p.answers)
  /\ \A a \in Known(s.head) : \E m \in 1 .. Len(p.answers) : cs[m][1] = a

\* Without addr2line, only copies fail, at birth.
Counting ==
  /\ stats \in Seq(Stat) /\ Len(stats) = Len(procs)
  /\ \A n \in DOMAIN procs : Tallied(calls, procs[n], stats[n])
  /\ ~canExec /\ canFork =>
       /\ stats[1].error.samples = 0
       /\ \A n \in DOMAIN procs : procs[n].pc = "status" => procs[n].ret = 0

\* readperf has reported and does not go on.
Reported ==
  /\ done => Len(procs) = 1 /\ procs[1].pc = "replay" /\ Len(procs[1].answers) = Len(calls)
  /\ ResultsComplete

\* Every process has its buffers, the one of processes.csv as it was at first.
Buffered ==
  /\ files \in Output
  /\ ~done =>
       /\ buffers \in Seq(Output) /\ Len(buffers) = Len(procs)
       /\ \A n \in DOMAIN procs : buffers[n].processes = <<Header>>

\* The records a process has logged.
Logged(p) == Len(p.answers) + (IF p.pc = "replay" THEN 0 ELSE 1)

\* overview.csv, if the n-th process wrote its buffer.
Seen(n) == files.overview \o buffers[n].overview

LinesTo(last) == [i \in 1 .. last + 1 |-> i - 1]

\* Until the first copy ends, nothing is repeated: a copy goes on where its
\* parent is.  Then all the lines are there.
Overviewed ==
  /\ ~done =>
       \/ Seen(Len(procs)) = LinesTo(Logged(procs[Len(procs)]))
       \/ ~canExec /\ InOrder(files.overview)
  /\ OverviewComplete

\* Samples for which the n-th process may yet make a copy.
Left(N, ps, n) ==
  N - Len(ps[n].answers) - (IF ps[n].pc = "status" \/ n < Len(ps) THEN 1 ELSE 0)

\* The tables of the processes and of those they may yet make: at most a copy
\* for each sample.
Most(N, ps) == [n \in DOMAIN ps |-> 2 ^ Left(N, ps, n)]

\* At least one for each process, and as long as the youngest has nothing
\* cached, one for each sample it has left.
Least(N, ps, ss) ==
  LET p == ps[Len(ps)]
  IN  Len(ps) + (IF ss[Len(ps)].head = << >> /\ p.pc # "status" THEN N - Len(p.answers) ELSE 0)

\* The tables processes.csv has and is going to have, and nothing else.
Tabled ==
  /\ Count(Row, files.processes) = Count(Header, files.processes)
  /\ ~done /\ canFork /\ canExec => Count(Header, files.processes) = 0
  /\ ~done /\ canFork /\ ~canExec =>
       LET tables == Count(Header, files.processes)
           most == tables + SumFunction(Most(Len(calls), procs))
       IN  /\ most <= 2 ^ Len(calls)
           /\ Distinct => most = 2 ^ Len(calls)
           /\ tables + Least(Len(calls), procs, stats) >= Len(calls) + 1
  /\ TablePerProcess

OutputInv == Counting /\ Reported /\ Buffered /\ Overviewed /\ Tabled

-----------------------------------------------------------------------------
(* About numbers of copies, lines and their order.                         *)

\* A set has twice as many subsets with one element more.
LEMMA PowerIs ==
  ASSUME NEW n \in Nat
  PROVE  2 ^ n \in Nat /\ 2 ^ (n + 1) = 2 ^ n + 2 ^ n
<1> DEFINE N == 1 .. n
           x == n + 1
           S == SUBSET N
           T == {s \cup {x} : s \in S}
           b == [s \in S |-> s \cup {x}]
<1>1. IsFiniteSet(N) /\ Cardinality(N) = n /\ x \notin N
  <2>1. 1 \in Int /\ n \in Int /\ (IF 1 > n THEN 0 ELSE n - 1 + 1) = n
    OBVIOUS
  <2> QED
    BY <2>1, FS_Interval
<1>2. IsFiniteSet(N \cup {x}) /\ Cardinality(N \cup {x}) = n + 1
  BY <1>1, FS_AddElement
<1> HIDE DEF N, x
<1>3. IsFiniteSet(S) /\ Cardinality(S) = 2 ^ n
  BY <1>1, FS_SUBSET
<1>4. Cardinality(SUBSET (N \cup {x})) = 2 ^ (n + 1)
  BY <1>2, FS_SUBSET
<1>5. IsFiniteSet(T) /\ Cardinality(T) = Cardinality(S)
  <2>1. \A s, t \in S : b[s] = b[t] => s = t
    BY <1>1
  <2>2. b \in [S -> T] /\ \A t \in T : \E s \in S : b[s] = t
    OBVIOUS
  <2> HIDE DEF S, T, b
  <2>3. b \in Bijection(S, T)
    BY <2>1, <2>2 DEF Bijection, Injection, Surjection, IsInjective
  <2>4. ExistsBijection(S, T)
    BY <2>3 DEF ExistsBijection
  <2> QED
    BY <1>3, <2>4, FS_Bijection
<1>6. S \cap T = {}
  BY <1>1
<1>7. SUBSET (N \cup {x}) = S \cup T
  <2>1. ASSUME NEW s \in SUBSET (N \cup {x}) PROVE s \in S \cup T
    <3>1. CASE x \in s
      <4>1. s \ {x} \in S /\ s = (s \ {x}) \cup {x}
        BY <3>1
      <4> QED
        BY <4>1
    <3>2. CASE x \notin s
      BY <3>2
    <3> QED
      BY <3>1, <3>2
  <2> QED
    BY <2>1
<1> HIDE DEF S, T
<1>8. Cardinality(S \cup T) = Cardinality(S) + Cardinality(T) - Cardinality({})
  BY <1>3, <1>5, <1>6, FS_Union
<1>9. Cardinality(S) \in Nat /\ Cardinality({}) = 0
  BY <1>3, FS_CardinalityType, FS_EmptySet
<1>10. Cardinality(S \cup T) = Cardinality(S) + Cardinality(S)
  BY <1>5, <1>8, <1>9
<1> QED
  BY <1>3, <1>4, <1>7, <1>9, <1>10

LEMMA Counts ==
  ASSUME NEW lines \in Seq(Int), NEW line
  PROVE  /\ Count(line, lines) \in Nat
         /\ \A new \in Int :
              Count(line, Append(lines, new))
                = Count(line, lines) + (IF new = line THEN 1 ELSE 0)
<1> DEFINE S == {n \in DOMAIN lines : lines[n] = line}
           x == Len(lines) + 1
<1>1. DOMAIN lines = 1 .. Len(lines) /\ Len(lines) \in Nat /\ x \notin S
  OBVIOUS
<1>2. IsFiniteSet(S)
  <2>1. IsFiniteSet(1 .. Len(lines))
    BY <1>1, FS_Interval
  <2>2. S \subseteq 1 .. Len(lines)
    BY <1>1
  <2> HIDE DEF S
  <2> QED
    BY <2>1, <2>2, FS_Subset
<1>3. Cardinality(S) \in Nat
  BY <1>2, FS_CardinalityType
<1>4. ASSUME NEW new \in Int
      PROVE  {n \in DOMAIN Append(lines, new) : Append(lines, new)[n] = line}
               = IF new = line THEN S \cup {x} ELSE S
  <2> DEFINE more == Append(lines, new)
  <2>1. /\ DOMAIN more = 1 .. x /\ more[x] = new
        /\ \A n \in 1 .. Len(lines) : more[n] = lines[n]
    BY <1>1
  <2>2. 1 .. x = (1 .. Len(lines)) \cup {x}
    BY <1>1
  <2> HIDE DEF more, x
  <2> QED
    BY <1>1, <2>1, <2>2 DEF more
<1>5. Cardinality(S \cup {x}) = Cardinality(S) + 1
  <2> HIDE DEF S, x
  <2> QED
    BY <1>1, <1>2, FS_AddElement
<1>6. Count(line, lines) = Cardinality(S)
  BY DEF Count
<1>7. ASSUME NEW new \in Int
      PROVE  Count(line, Append(lines, new))
               = Cardinality(IF new = line THEN S \cup {x} ELSE S)
  BY <1>4, <1>7 DEF Count
<1> HIDE DEF S, x
<1>8. \A new \in Int : new = line => Count(line, Append(lines, new)) = Count(line, lines) + 1
  BY <1>5, <1>6, <1>7
<1>9. \A new \in Int : new # line => Count(line, Append(lines, new)) = Count(line, lines)
  BY <1>6, <1>7
<1>10. Count(line, lines) \in Nat
  BY <1>3, <1>6
<1> QED
  BY <1>8, <1>9, <1>10

LEMMA CountNone ==
  ASSUME NEW line
  PROVE  Count(line, << >>) = 0
<1>1. {n \in DOMAIN << >> : << >>[n] = line} = {}
  OBVIOUS
<1> QED
  BY <1>1, FS_EmptySet DEF Count

\* A table is a header and a row.
LEMMA TableCounts ==
  ASSUME NEW lines \in Seq(Int)
  PROVE  LET more == lines \o Append(<<Header>>, Row)
         IN  /\ more \in Seq(Int)
             /\ Count(Header, more) = Count(Header, lines) + 1
             /\ Count(Row, more) = Count(Row, lines) + 1
<1> DEFINE one == Append(lines, Header)
<1>1. lines \o Append(<<Header>>, Row) = Append(one, Row)
  BY DEF Header, Row
<1>2. one \in Seq(Int) /\ Append(one, Row) \in Seq(Int)
  BY DEF Header, Row
<1>3. Count(Header, one) = Count(Header, lines) + 1 /\ Count(Row, one) = Count(Row, lines) + 0
  BY Counts DEF Header, Row
<1>h. lines \o Append(<<Header>>, Row) \in Seq(Int)
  BY <1>1, <1>2
<1> HIDE DEF one
<1>4. /\ Count(Header, Append(one, Row)) = Count(Header, one) + 0
      /\ Count(Row, Append(one, Row)) = Count(Row, one) + 1
  BY <1>2, Counts DEF Header, Row
<1>5. Count(Header, lines) \in Nat /\ Count(Row, lines) \in Nat
  BY Counts
<1>6. /\ Count(Header, Append(one, Row)) = Count(Header, lines) + 1
      /\ Count(Row, Append(one, Row)) = Count(Row, lines) + 1
  BY <1>3, <1>4, <1>5
<1> QED
  BY <1>1, <1>h, <1>6

\* InOrder of any lines.
Ordered(lines, file) ==
  \A n \in DOMAIN lines : \E j \in DOMAIN file :
    /\ file[j] = lines[n]
    /\ \A i \in 1 .. j - 1 : \E m \in 1 .. n - 1 : file[i] = lines[m]

LEMMA OrderIs ==
  /\ InOrder(files.overview) <=> Ordered(Lines, files.overview)
  /\ InOrder(files.overview)' <=> Ordered(Lines', files'.overview)
BY DEF InOrder, Ordered

\* What is written behind takes nothing from the order.
LEMMA OrderKept ==
  ASSUME NEW lines \in Seq(Int), NEW s \in Seq(Int), NEW t \in Seq(Int), Ordered(lines, s)
  PROVE  Ordered(lines, s \o t)
<1> DEFINE u == s \o t
<1>1. DOMAIN s \subseteq DOMAIN u /\ \A i \in DOMAIN s : u[i] = s[i]
  OBVIOUS
<1>2. \A j \in DOMAIN s, i \in Int : 1 <= i /\ i <= j => i \in DOMAIN s
  OBVIOUS
<1> HIDE DEF u
<1>3. ASSUME NEW n \in DOMAIN lines
      PROVE  \E j \in DOMAIN u :
               /\ u[j] = lines[n]
               /\ \A i \in 1 .. j - 1 : \E m \in 1 .. n - 1 : u[i] = lines[m]
  <2>1. PICK j \in DOMAIN s : /\ s[j] = lines[n]
                              /\ \A i \in 1 .. j - 1 : \E m \in 1 .. n - 1 : s[i] = lines[m]
    BY DEF Ordered
  <2>2. \A i \in 1 .. j - 1 : i \in DOMAIN s
    BY <1>2
  <2> QED
    BY <1>1, <2>1, <2>2
<1> QED
  BY <1>3 DEF Ordered, u

\* The lines themselves are in order.
LEMMA LinesOrdered ==
  ASSUME NEW lines \in Seq(Int)
  PROVE  Ordered(lines, lines)
<1>1. \A n \in DOMAIN lines : \A i \in 1 .. n - 1 : \E m \in 1 .. n - 1 : lines[i] = lines[m]
  OBVIOUS
<1> QED
  BY <1>1 DEF Ordered

-----------------------------------------------------------------------------
(* What a step does to the process that runs.                              *)

\* Steps of one process: it opens its pipes, goes on in its call, or returns.
LEMMA Goes ==
  ASSUME Inv, OpenPipes \/ Skip \/ Fork \/ ForkFails \/ RunTool \/ StatusFails \/ ReadAnswer
  PROVE  LET last == Len(procs)
             p == procs[last]
             q == procs'[last]
         IN  /\ Len(procs') = last
             /\ \A n \in 1 .. last : n # last => procs'[n] = procs[n]
             /\ UNCHANGED system
             /\ \/ /\ OpenPipes /\ p.pc = "replay" /\ q.pc = "fork"
                   /\ q.answers = p.answers /\ Len(p.answers) < Len(calls)
                \/ /\ Fork /\ p.pc = "fork" /\ q.pc = "wait" /\ q.answers = p.answers
                \/ /\ ForkFails /\ p.pc = "fork" /\ q.pc = "status" /\ q.answers = p.answers
                   /\ ~canFork
                \/ /\ RunTool /\ p.pc = "wait" /\ q.pc = "status" /\ q.answers = p.answers
                   /\ canExec
                \/ /\ Skip /\ p.pc = "replay" /\ q.pc = "replay"
                   /\ Len(q.answers) = Len(p.answers) + 1 /\ Len(p.answers) < Len(calls)
                \/ /\ StatusFails \/ ReadAnswer
                   /\ p.pc = "status" /\ q.pc = "replay"
                   /\ Len(q.answers) = Len(p.answers) + 1 /\ (StatusFails => p.ret # 0)
<1> DEFINE last == Len(procs)
<1>0. /\ procs \in Seq(Proc) /\ last \in Nat \ {0} /\ last \in DOMAIN procs
      /\ me = procs[last] /\ me \in Proc /\ InCall(me)
  BY Running
<1>1. ASSUME NEW r, Become(r)
      PROVE  /\ Len(procs') = last /\ procs'[last] = r /\ UNCHANGED system
             /\ \A n \in 1 .. last : n # last => procs'[n] = procs[n]
  BY <1>0, <1>1 DEF Become
<1>2. CASE OpenPipes
  <2> DEFINE r == [me EXCEPT !.pc = "fork", !.fds = @ + Pipes]
  <2>1. Become(r) /\ me.pc = "replay" /\ Len(me.answers) < Len(calls)
    BY <1>2 DEF OpenPipes
  <2>2. r.pc = "fork" /\ r.answers = me.answers
    BY <1>0 DEF Proc
  <2> HIDE DEF r
  <2> QED
    BY <1>0, <1>1, <1>2, <2>1, <2>2
<1>3. CASE Fork
  <2> DEFINE r == [me EXCEPT !.pc = "wait"]
  <2>1. Become(r) /\ me.pc = "fork"
    BY <1>3 DEF Fork
  <2>2. r.pc = "wait" /\ r.answers = me.answers
    BY <1>0 DEF Proc
  <2> HIDE DEF r
  <2> QED
    BY <1>0, <1>1, <1>3, <2>1, <2>2
<1>4. CASE ForkFails
  <2> DEFINE r == [me EXCEPT !.pc = "status", !.ret = 0]
  <2>1. Become(r) /\ me.pc = "fork" /\ ~canFork
    BY <1>4 DEF ForkFails
  <2>2. r.pc = "status" /\ r.answers = me.answers
    BY <1>0 DEF Proc
  <2> HIDE DEF r
  <2> QED
    BY <1>0, <1>1, <1>4, <2>1, <2>2
<1>5. CASE RunTool
  <2> DEFINE r == [me EXCEPT !.pc = "status", !.ret = tool.status, !.pstdout = tool.words]
  <2>1. Become(r) /\ me.pc = "wait" /\ canExec
    BY <1>5 DEF RunTool
  <2>2. r.pc = "status" /\ r.answers = me.answers
    BY <1>0 DEF Proc
  <2> HIDE DEF r
  <2> QED
    BY <1>0, <1>1, <1>5, <2>1, <2>2
<1>6. CASE StatusFails \/ ReadAnswer
  <2>1. PICK given : Become(Answered(me, given)) /\ me.pc = "status"
    BY <1>6 DEF StatusFails, ReadAnswer, Failed
  <2> DEFINE r == Answered(me, given)
  <2>2. r.pc = "replay" /\ r.answers = Append(me.answers, given)
    BY <1>0 DEF Proc, Answered
  <2>3. Len(Append(me.answers, given)) = Len(me.answers) + 1
    BY <1>0 DEF Proc
  <2>4. StatusFails => me.ret # 0
    BY DEF StatusFails, Succeeds
  <2> HIDE DEF r
  <2> QED
    BY <1>0, <1>1, <1>6, <2>1, <2>2, <2>3, <2>4 DEF r
<1>7. CASE Skip
  <2> DEFINE r == [me EXCEPT !.answers = Append(@, NotAsked)]
  <2>1. Become(r) /\ me.pc = "replay" /\ Len(me.answers) < Len(calls)
    BY <1>7 DEF Skip
  <2>2. r.pc = "replay" /\ Len(r.answers) = Len(me.answers) + 1
    BY <1>0, <2>1 DEF Proc
  <2> HIDE DEF r
  <2> QED
    BY <1>0, <1>1, <1>7, <2>1, <2>2
<1> QED
  BY <1>2, <1>3, <1>4, <1>5, <1>6, <1>7

\* The child that could not become addr2line has its call answered.
LEMMA Copies ==
  ASSUME Inv, ExecFails
  PROVE  LET last == Len(procs)
         IN  /\ Len(procs') = last + 1 /\ \A n \in 1 .. last : procs'[n] = procs[n]
             /\ UNCHANGED system /\ ~canExec
             /\ procs[last].pc = "wait" /\ procs'[last + 1].pc = "replay"
             /\ Len(procs'[last + 1].answers) = Len(procs[last].answers) + 1
<1> DEFINE p == Failed(me)
           last == Len(procs)
<1>1. procs' = Append(procs, p) /\ ~canExec /\ me.pc = "wait" /\ UNCHANGED system
  BY DEF ExecFails
<1>2. /\ procs \in Seq(Proc) /\ last \in Nat \ {0}
      /\ me = procs[last] /\ me \in Proc
  BY Running
<1>3. p.pc = "replay" /\ p.answers = Append(me.answers, None)
  BY <1>2 DEF Proc, Failed, Answered
<1>4. Len(Append(me.answers, None)) = Len(me.answers) + 1
  BY <1>2 DEF Proc
<1> HIDE DEF p
<1>5. /\ Len(procs') = last + 1 /\ procs'[last + 1] = p
      /\ \A n \in 1 .. last : procs'[n] = procs[n]
  BY <1>1, <1>2
<1> QED
  BY <1>1, <1>2, <1>3, <1>4, <1>5

\* The parent of a copy that ends has been waiting.
LEMMA Ends ==
  ASSUME Inv, CopyEnds
  PROVE  LET last == Len(procs) - 1
         IN  /\ Len(procs') = last /\ last \in Nat \ {0} /\ UNCHANGED system /\ ~canExec
             /\ \A n \in 1 .. last : n # last => procs'[n] = procs[n]
             /\ procs[last].pc = "wait" /\ procs'[last].pc = "status" /\ procs'[last].ret = 0
             /\ procs'[last].answers = procs[last].answers
             /\ procs[last + 1].pc = "replay"
             /\ Len(procs[last + 1].answers) = Len(calls)
<1> DEFINE rest == Front(procs)
           last == Len(procs) - 1
           p == [rest[last] EXCEPT !.pc = "status", !.ret = 0, !.pstdout = Overview]
<1>1. /\ Len(procs) > 1 /\ me.pc = "replay" /\ Len(me.answers) = Len(calls)
      /\ UNCHANGED system
  BY DEF CopyEnds
<1>2. /\ procs \in Seq(Proc) /\ Len(procs) \in Nat \ {0} /\ me = procs[Len(procs)]
      /\ (canExec => Len(procs) = 1)
  BY Running
<1>3. /\ rest \in Seq(Proc) /\ Len(rest) = last /\ last \in 1 .. Len(procs) /\ last < Len(procs)
      /\ \A n \in 1 .. last : rest[n] = procs[n]
  BY <1>1, <1>2 DEF Front
<1>4. procs' = [rest EXCEPT ![last] = p]
  BY <1>3 DEF CopyEnds
<1>5. rest[last] \in Proc /\ procs[last].pc = "wait"
  BY <1>2, <1>3 DEF Inv
<1>6. last + 1 = Len(procs) /\ last \in Nat \ {0}
  BY <1>1, <1>2
<1> HIDE DEF rest, last
<1>7. p.pc = "status" /\ p.answers = rest[last].answers /\ p.ret = 0
  BY <1>5 DEF Proc
<1> HIDE DEF p
<1>8. /\ Len(procs') = last /\ procs'[last] = p
      /\ \A n \in 1 .. last : n # last => procs'[n] = procs[n]
  BY <1>3, <1>4, <1>6
<1>9. rest[last] = procs[last]
  BY <1>3, <1>6
<1>10. ~canExec
  BY <1>1, <1>2
<1> QED
  BY <1>1, <1>2, <1>5, <1>6, <1>7, <1>8, <1>9, <1>10 DEF last

\* Nothing happens any more when readperf has reported.
LEMMA Over ==
  ASSUME Inv, Reported, done
  PROVE  ~ReadPerfNext
<1>1. /\ Len(procs) = 1 /\ me = procs[1] /\ me.pc = "replay"
      /\ Len(me.answers) = Len(calls) /\ Len(calls) \in Nat
  BY Running DEF Reported, Inv, Types
<1>2. ~OpenPipes /\ ~Skip /\ ~CopyEnds /\ ~Report
  BY <1>1 DEF OpenPipes, Skip, CopyEnds, Report
<1>3. ~ExecFails /\ ~Fork /\ ~ForkFails /\ ~RunTool /\ ~StatusFails /\ ~ReadAnswer
  BY <1>1 DEF ExecFails, Fork, ForkFails, RunTool, StatusFails, ReadAnswer
<1> QED
  BY <1>2, <1>3 DEF ReadPerfNext, Sample, SampleCached, Copy, Resolve, Unresolved, Resolved,
       CopyReports

-----------------------------------------------------------------------------
(* What a step does to the files.                                          *)

\* Before readperf reports, every process has a buffer.
LEMMA Buffers ==
  ASSUME Inv, Buffered, ~done
  PROVE  /\ buffers \in Seq(Output) /\ Len(buffers) = Len(procs) /\ Len(procs) \in Nat \ {0}
         /\ Last(buffers) = buffers[Len(procs)]
         /\ \A n \in 1 .. Len(procs) :
              /\ buffers[n] \in Output /\ buffers[n].overview \in Seq(Int)
              /\ buffers[n].processes = <<Header>>
         /\ files.overview \in Seq(Int) /\ files.processes \in Seq(Int)
<1>1. buffers \in Seq(Output) /\ Len(buffers) = Len(procs) /\ Len(procs) \in Nat \ {0}
  BY Running DEF Buffered
<1>2. Last(buffers) = buffers[Len(procs)]
  BY <1>1 DEF Last
<1>3. \A n \in 1 .. Len(procs) : buffers[n] \in Output /\ buffers[n].processes = <<Header>>
  BY <1>1, Running DEF Buffered
<1>4. \A n \in 1 .. Len(procs) : buffers[n].overview \in Seq(Int)
  BY <1>3 DEF Output
<1>5. files.overview \in Seq(Int) /\ files.processes \in Seq(Int)
  BY DEF Buffered, Output
<1> QED
  BY <1>1, <1>2, <1>3, <1>4, <1>5

LEMMA AppendMoves ==
  ASSUME NEW s \in Seq(Int), NEW t \in Seq(Int), NEW e \in Int
  PROVE  s \o Append(t, e) = Append(s \o t, e)
<1> DEFINE u == s \o Append(t, e)
           v == Append(s \o t, e)
<1>1. u \in Seq(Int) /\ v \in Seq(Int)
  OBVIOUS
<1>2. Len(u) = Len(s) + Len(t) + 1 /\ Len(v) = Len(s) + Len(t) + 1
  OBVIOUS
<1>3. \A n \in 1 .. Len(s) + Len(t) + 1 : u[n] = v[n]
  OBVIOUS
<1> HIDE DEF u, v
<1>4. u = v
  BY <1>1, <1>2, <1>3
<1> QED
  BY <1>4 DEF u, v

\* A line goes to the buffer, or with the buffer to the file.
LEMMA Logs ==
  ASSUME Inv, Buffered, ~done, NEW line \in Int, Log(line)
  PROVE  LET last == Len(procs)
         IN  /\ files' \in Output /\ files'.processes = files.processes
             /\ buffers' \in Seq(Output) /\ Len(buffers') = last
             /\ \A n \in 1 .. last : n # last => buffers'[n] = buffers[n]
             /\ buffers'[last].processes = buffers[last].processes
             /\ \E t \in Seq(Int) : files'.overview = files.overview \o t
             /\ files'.overview \o buffers'[last].overview
                  = Append(files.overview \o buffers[last].overview, line)
<1> DEFINE last == Len(procs)
           lines == Append(Last(buffers).overview, line)
           full == Len(lines) >= BufferLines
           f == IF full THEN files.overview \o lines ELSE files.overview
           b == IF full THEN << >> ELSE lines
<1>0. /\ buffers \in Seq(Output) /\ Len(buffers) = last /\ last \in Nat \ {0}
      /\ Last(buffers) = buffers[last] /\ buffers[last] \in Output
      /\ buffers[last].overview \in Seq(Int)
      /\ files.overview \in Seq(Int) /\ files \in Output
  BY Buffers DEF Buffered
<1>1. lines \in Seq(Int)
  BY <1>0
<1>2. /\ files' = [files EXCEPT !.overview = f]
      /\ buffers' = [buffers EXCEPT ![last] = [buffers[last] EXCEPT !.overview = b]]
  BY <1>0 DEF Log
<1>3. f \in Seq(Int) /\ b \in Seq(Int) /\ f \o b = files.overview \o lines
  <2> DEFINE s == files.overview
  <2>1. s \in Seq(Int) /\ lines \in Seq(Int)
    BY <1>0, <1>1
  <2> HIDE DEF lines, s
  <2>2. s \o lines \in Seq(Int) /\ (s \o lines) \o << >> = s \o lines
    BY <2>1
  <2>3. /\ f = (IF full THEN s \o lines ELSE s)
        /\ b = (IF full THEN << >> ELSE lines)
    BY DEF s
  <2>4. << >> \in Seq(Int)
    OBVIOUS
  <2> HIDE DEF full, f, b
  <2>5. f \in Seq(Int) /\ b \in Seq(Int) /\ f \o b = s \o lines
    BY <2>1, <2>2, <2>3, <2>4
  <2> QED
    BY <2>5 DEF s
<1>4. \E t \in Seq(Int) : f = files.overview \o t
  <2>1. CASE full
    BY <1>1, <2>1
  <2>2. CASE ~full
    <3>1. << >> \in Seq(Int) /\ files.overview \o << >> = files.overview
      BY <1>0
    <3> QED
      BY <2>2, <3>1
  <2> QED
    BY <2>1, <2>2
<1>5. files.overview \o lines = Append(files.overview \o buffers[last].overview, line)
  BY <1>0, AppendMoves
<1> HIDE DEF last, lines, full, f, b
<1>6. /\ files' \in Output /\ files'.processes = files.processes /\ files'.overview = f
  BY <1>0, <1>2, <1>3 DEF Output
<1> DEFINE r == [buffers[last] EXCEPT !.overview = b]
<1>7. r \in Output /\ r.overview = b /\ r.processes = buffers[last].processes
  BY <1>0, <1>3 DEF Output
<1> HIDE DEF r
<1>8. /\ buffers' \in Seq(Output) /\ Len(buffers') = last /\ buffers'[last] = r
      /\ \A n \in 1 .. last : n # last => buffers'[n] = buffers[n]
  BY <1>0, <1>2, <1>7 DEF r
<1> QED
  BY <1>3, <1>4, <1>5, <1>6, <1>7, <1>8 DEF last

\* A process that ends writes what it has left, and a table.
LEMMA Closes ==
  ASSUME Inv, Buffered, ~done, Closed
  PROVE  /\ files' \in Output
         /\ files'.overview = Seen(Len(procs))
         /\ Count(Header, files'.processes) = Count(Header, files.processes) + 1
         /\ Count(Row, files'.processes) = Count(Row, files.processes) + 1
<1> DEFINE more == files.processes \o Append(<<Header>>, Row)
           f == Seen(Len(procs))
<1>1. /\ Last(buffers) = buffers[Len(procs)] /\ buffers[Len(procs)].processes = <<Header>>
      /\ files.overview \in Seq(Int) /\ buffers[Len(procs)].overview \in Seq(Int)
      /\ files.processes \in Seq(Int)
  BY Buffers
<1>2. files' = [overview |-> f, processes |-> more]
  BY <1>1 DEF Closed, Seen
<1>3. f \in Seq(Int)
  BY <1>1 DEF Seen
<1>4. /\ more \in Seq(Int)
      /\ Count(Header, more) = Count(Header, files.processes) + 1
      /\ Count(Row, more) = Count(Row, files.processes) + 1
  BY <1>1, TableCounts
<1> HIDE DEF more, f
<1> QED
  BY <1>2, <1>3, <1>4 DEF Output, f

-----------------------------------------------------------------------------
(* What a step does to the functions.                                      *)

\* A call that goes on has no answer yet.
LEMMA GoesOn ==
  ASSUME Inv, OpenPipes \/ Fork \/ ForkFails \/ RunTool
  PROVE  procs'[Len(procs)].answers = me.answers
<1>1. procs \in Seq(Proc) /\ Len(procs) \in DOMAIN procs /\ me \in Proc
  BY Running
<1>2. \A p : Become(p) => procs'[Len(procs)] = p
  BY <1>1 DEF Become
<1>3. CASE OpenPipes
  <2>1. [me EXCEPT !.pc = "fork", !.fds = @ + Pipes].answers = me.answers
    BY <1>1 DEF Proc
  <2> QED
    BY <1>2, <1>3, <2>1 DEF OpenPipes
<1>4. CASE Fork
  <2>1. [me EXCEPT !.pc = "wait"].answers = me.answers
    BY <1>1 DEF Proc
  <2> QED
    BY <1>2, <1>4, <2>1 DEF Fork
<1>5. CASE ForkFails
  <2>1. [me EXCEPT !.pc = "status", !.ret = 0].answers = me.answers
    BY <1>1 DEF Proc
  <2> QED
    BY <1>2, <1>5, <2>1 DEF ForkFails
<1>6. CASE RunTool
  <2> DEFINE p == [me EXCEPT !.pc = "status", !.ret = tool.status, !.pstdout = tool.words]
  <2>1. p.answers = me.answers /\ Become(p)
    BY <1>1, <1>6 DEF Proc, RunTool
  <2> HIDE DEF p
  <2> QED
    BY <1>2, <2>1
<1> QED
  BY <1>3, <1>4, <1>5, <1>6

\* get_func begins.
LEMMA OpensIs ==
  ASSUME Inv, OpenPipes
  PROVE  procs'[Len(procs)].pc = "fork"
<1> DEFINE p == [me EXCEPT !.pc = "fork", !.fds = @ + Pipes]
<1>1. procs \in Seq(Proc) /\ Len(procs) \in DOMAIN procs /\ me \in Proc
  BY Running
<1>2. Become(p) /\ p.pc = "fork"
  BY <1>1 DEF OpenPipes, Proc
<1> HIDE DEF p
<1> QED
  BY <1>1, <1>2 DEF Become

\* A sample whose function is known is over at once.
LEMMA Skips ==
  ASSUME Inv, Skip
  PROVE  /\ procs'[Len(procs)].pc = "replay"
         /\ Len(procs'[Len(procs)].answers) = Len(me.answers) + 1
<1> DEFINE p == [me EXCEPT !.answers = Append(@, NotAsked)]
<1>1. procs \in Seq(Proc) /\ Len(procs) \in DOMAIN procs /\ me \in Proc
  BY Running
<1>2. Become(p) /\ me.pc = "replay"
  BY DEF Skip
<1>3. p.pc = "replay" /\ Len(p.answers) = Len(me.answers) + 1
  BY <1>1, <1>2 DEF Proc
<1> HIDE DEF p
<1>4. procs'[Len(procs)] = p
  BY <1>1, <1>2 DEF Become
<1> QED
  BY <1>3, <1>4

\* The address and the binary of the sample in hand.
LEMMA AskedIs ==
  ASSUME Inv, Len(me.answers) < Len(calls)
  PROVE  /\ asked = calls[Len(me.answers) + 1] /\ Len(me.answers) \in Nat
         /\ asked[1] \in AddrParts /\ asked[2] \in BinNames
<1>1. me \in Proc /\ calls \in Seq(Addresses)
  BY Running DEF Inv, Types
<1>2. Len(me.answers) \in Nat
  BY <1>1 DEF Proc
<1>3. asked \in Addresses
  BY <1>1, <1>2 DEF asked
<1> QED
  BY <1>2, <1>3 DEF asked, AddrParts, BinNames

LEMMA Owns ==
  ASSUME Inv, Counting
  PROVE  /\ Len(procs) \in Nat \ {0} /\ DOMAIN procs = 1 .. Len(procs)
         /\ stats \in Seq(Stat) /\ Len(stats) = Len(procs)
         /\ own = stats[Len(procs)] /\ own \in Stat /\ own.head \in Seq(Entry)
         /\ own.error.samples \in Nat
         /\ me = procs[Len(procs)] /\ me \in Proc /\ Len(me.answers) \in Nat
         /\ Tallied(calls, me, own)
<1>1. /\ Len(procs) \in Nat \ {0} /\ procs \in Seq(Proc)
      /\ me = procs[Len(procs)] /\ me \in Proc
  BY Running
<1>2. Len(me.answers) \in Nat
  BY <1>1 DEF Proc
<1>3. stats \in Seq(Stat) /\ Len(stats) = Len(procs) /\ own = stats[Len(procs)]
  BY <1>1 DEF Counting, own, Last
<1>4. Tallied(calls, me, own)
  BY <1>1, <1>3 DEF Counting
<1> QED
  BY <1>1, <1>2, <1>3, <1>4 DEF Tallied, Stat, Tally

\* A sample that is counted for a function.
LEMMA TakesTallied ==
  ASSUME NEW cs, NEW p \in Proc, NEW q, Len(q.answers) = Len(p.answers) + 1,
         NEW s, Tallied(cs, p, s), NEW new, Takes(s.head, new, cs[Len(p.answers) + 1][1])
  PROVE  Tallied(cs, q, [s EXCEPT !.head = new])
<1> DEFINE t == [s EXCEPT !.head = new]
           k == Len(p.answers)
<1>1. k \in Nat
  BY DEF Proc
<1>2. s \in Stat /\ s.head \in Seq(Entry) /\ s.error.samples \in Nat
  BY DEF Tallied, Stat, Tally
<1>3. t \in Stat /\ t.head = new /\ t.error = s.error
  BY <1>2 DEF Stat, Takes
<1> HIDE DEF t
<1>4. Total(t.head) + t.error.samples = k + 1
  <2>1. Total(s.head) + s.error.samples = k /\ Total(new) = Total(s.head) + 1
    BY DEF Tallied, Takes
  <2>2. Total(s.head) \in Nat
    BY <1>2, TotalType
  <2> HIDE DEF k
  <2> QED
    BY <1>1, <1>2, <1>3, <2>1, <2>2
<1> HIDE DEF k
<1>5. ASSUME NEW a \in Known(new) PROVE \E m \in 1 .. k + 1 : cs[m][1] = a
  <2>1. a \in Known(s.head) \/ a = cs[k + 1][1]
    BY <1>5 DEF Takes, k
  <2>2. k + 1 \in 1 .. k + 1 /\ 1 .. k \subseteq 1 .. k + 1
    BY <1>1
  <2> QED
    BY <2>1, <2>2 DEF Tallied, k
<1> QED
  BY <1>3, <1>4, <1>5 DEF Tallied, k, t

\* A sample that is counted as a failure.
LEMMA FailsTallied ==
  ASSUME NEW cs, NEW p \in Proc, NEW q, Len(q.answers) = Len(p.answers) + 1,
         NEW s, Tallied(cs, p, s)
  PROVE  Tallied(cs, q, [s EXCEPT !.error = credit(@, 1)])
<1> DEFINE e == credit(s.error, 1)
           t == [s EXCEPT !.error = e]
           k == Len(p.answers)
<1>1. k \in Nat
  BY DEF Proc
<1>2. s \in Stat /\ s.head \in Seq(Entry) /\ s.error \in Tally /\ s.error.samples \in Nat
  BY DEF Tallied, Stat, Tally
<1>3. e \in Tally /\ e.samples = s.error.samples + 1
  <2>1. s.error.samples + 1 \in Nat /\ s.error.period + 1 \in Nat
    BY <1>2 DEF Tally
  <2> QED
    BY <1>2, <2>1 DEF Tally, credit
<1> HIDE DEF e
<1>4. t \in Stat /\ t.head = s.head /\ t.error = e
  BY <1>2, <1>3 DEF Stat
<1> HIDE DEF t
<1>5. Total(t.head) + t.error.samples = k + 1
  <2>1. Total(s.head) + s.error.samples = k /\ Total(s.head) \in Nat
    BY <1>2, TotalType DEF Tallied
  <2> HIDE DEF k
  <2> QED
    BY <1>1, <1>2, <1>3, <1>4, <2>1
<1>6. 1 .. k \subseteq 1 .. k + 1
  BY <1>1
<1>7. \A a \in Known(t.head) : \E m \in 1 .. k + 1 : cs[m][1] = a
  BY <1>4, <1>6 DEF Tallied
<1> HIDE DEF k
<1> QED
  BY <1>4, <1>5, <1>7 DEF Tallied, k, t, e

\* A step of one process changes its own account only.
LEMMA CountingGoes ==
  ASSUME Inv, Inv', Counting,
         OpenPipes \/ Skip \/ Fork \/ ForkFails \/ RunTool \/ StatusFails \/ ReadAnswer,
         NEW t, Tallied(calls, procs'[Len(procs)], t),
         stats' = [stats EXCEPT ![Len(procs)] = t],
         ~canExec /\ canFork => t.error = own.error
  PROVE  Counting'
<1> DEFINE last == Len(procs)
<1>1. /\ Len(procs') = last
      /\ \A n \in 1 .. last : n # last => procs'[n] = procs[n]
      /\ calls' = calls /\ canExec' = canExec /\ canFork' = canFork
      /\ ~canExec /\ canFork => procs'[last].pc # "status"
  BY Goes DEF system, canExec, canFork
<1>2. /\ last \in Nat \ {0} /\ DOMAIN procs = 1 .. last
      /\ stats \in Seq(Stat) /\ Len(stats) = last /\ own = stats[last]
  BY Owns
<1>3. procs' \in Seq(Proc) /\ DOMAIN procs' = 1 .. last
  BY <1>1 DEF Inv, Types
<1>4. t \in Stat /\ stats' = [stats EXCEPT ![last] = t]
  BY DEF Tallied
<1> HIDE DEF last
<1>5. /\ stats' \in Seq(Stat) /\ Len(stats') = last /\ stats'[last] = t
      /\ \A n \in 1 .. last : n # last => stats'[n] = stats[n]
  BY <1>2, <1>4
<1>6. ASSUME NEW n \in 1 .. last PROVE Tallied(calls', procs'[n], stats'[n])
  <2>1. CASE n = last
    BY <1>1, <1>5, <2>1 DEF last
  <2>2. CASE n # last
    BY <1>1, <1>2, <1>5, <2>2 DEF Counting
  <2> QED
    BY <2>1, <2>2
<1>7. ASSUME ~canExec, canFork
      PROVE  /\ stats'[1].error.samples = 0
             /\ \A n \in 1 .. last : procs'[n].pc = "status" => procs'[n].ret = 0
  <2>1. stats'[1].error = stats[1].error
    <3>1. CASE last = 1
      BY <1>2, <1>5, <1>7, <3>1
    <3>2. CASE last # 1
      BY <1>2, <1>5, <3>2
    <3> QED
      BY <3>1, <3>2
  <2>2. stats[1].error.samples = 0
    BY <1>7 DEF Counting
  <2> QED
    BY <1>1, <1>2, <1>7, <2>1, <2>2 DEF Counting
<1> QED
  BY <1>1, <1>3, <1>5, <1>6, <1>7 DEF Counting

LEMMA CountingStep ==
  ASSUME Inv, Inv', Counting, ReadPerfNext
  PROVE  Counting'
<1> DEFINE last == Len(procs)
           k == Len(me.answers)
<1>1. /\ last \in Nat \ {0} /\ DOMAIN procs = 1 .. last
      /\ stats \in Seq(Stat) /\ Len(stats) = last
      /\ own = stats[last] /\ own \in Stat /\ own.head \in Seq(Entry)
      /\ me = procs[last] /\ me \in Proc /\ k \in Nat
      /\ Tallied(calls, me, own)
  BY Owns
<1>2. ASSUME NEW t \in Stat
      PROVE  [stats EXCEPT ![last] = t] \in Seq(Stat)
  BY <1>1, <1>2
<1>3. CASE Sample \/ Resolve
  <2>1. /\ OpenPipes \/ Fork \/ ForkFails \/ RunTool
        /\ stats' = stats
    BY <1>3 DEF Sample, Resolve, output
  <2>2. procs'[last].answers = me.answers
    BY <2>1, GoesOn
  <2>3. Tallied(calls, procs'[last], own)
    BY <1>1, <2>2 DEF Tallied
  <2>4. stats' = [stats EXCEPT ![last] = own]
    BY <1>1, <2>1
  <2> QED
    BY <2>1, <2>3, <2>4, CountingGoes
<1>4. CASE SampleCached
  <2> DEFINE new == credit_cached(own.head, asked[1], asked[2], 1)
             t == [own EXCEPT !.head = new]
  <2>1. Skip /\ cached # {} /\ Enter(new) /\ k < Len(calls)
    BY <1>4 DEF SampleCached, Skip
  <2>2. asked = calls[k + 1] /\ asked[1] \in AddrParts
    BY <2>1, AskedIs
  <2>3. Takes(own.head, new, asked[1])
    BY <1>1, <2>1, <2>2, CachedTakes DEF cached
  <2>4. Len(procs'[last].answers) = k + 1
    BY <2>1, Skips
  <2> HIDE DEF new
  <2>5. Tallied(calls, procs'[last], t)
    BY <1>1, <2>2, <2>3, <2>4, TakesTallied
  <2>6. stats' = [stats EXCEPT ![last] = t] /\ t.error = own.error
    BY <1>1, <2>1 DEF Enter, Stat
  <2> QED
    BY <2>1, <2>5, <2>6, CountingGoes
<1>5. CASE Copy
  <2> DEFINE q == procs'[last + 1]
  <2>1. ExecFails /\ stats' = Append(stats, Blamed)
    BY <1>5 DEF Copy
  <2>2. /\ Len(procs') = last + 1 /\ \A n \in 1 .. last : procs'[n] = procs[n]
        /\ calls' = calls /\ canExec' = canExec /\ canFork' = canFork
        /\ q.pc = "replay" /\ Len(q.answers) = k + 1
    BY <1>1, <2>1, Copies DEF system, canExec, canFork
  <2>3. procs' \in Seq(Proc) /\ DOMAIN procs' = 1 .. last + 1
    BY <2>2 DEF Inv, Types
  <2>4. Tallied(calls, q, Blamed)
    BY <1>1, <2>2, FailsTallied DEF Blamed
  <2> HIDE DEF last, k
  <2>5. /\ stats' \in Seq(Stat) /\ Len(stats') = last + 1 /\ stats'[last + 1] = Blamed
        /\ \A n \in 1 .. last : stats'[n] = stats[n]
    BY <1>1, <2>1, <2>4 DEF Tallied
  <2>6. ASSUME NEW n \in 1 .. last + 1 PROVE Tallied(calls', procs'[n], stats'[n])
    <3>1. CASE n = last + 1
      BY <2>2, <2>4, <2>5, <3>1
    <3>2. CASE n \in 1 .. last
      BY <1>1, <2>2, <2>5, <3>2 DEF Counting
    <3> QED
      BY <1>1, <3>1, <3>2
  <2>7. ASSUME ~canExec, canFork
        PROVE  /\ stats'[1].error.samples = 0
               /\ \A n \in 1 .. last + 1 : procs'[n].pc = "status" => procs'[n].ret = 0
    <3>1. stats[1].error.samples = 0 /\ stats'[1] = stats[1]
      BY <1>1, <2>5, <2>7 DEF Counting
    <3>2. ASSUME NEW n \in 1 .. last + 1, procs'[n].pc = "status"
          PROVE  procs'[n].ret = 0
      <4>1. n \in 1 .. last
        BY <1>1, <2>2, <3>2
      <4> QED
        BY <1>1, <2>2, <2>7, <3>2, <4>1 DEF Counting
    <3> QED
      BY <3>1, <3>2
  <2> QED
    BY <2>2, <2>3, <2>5, <2>6, <2>7 DEF Counting
<1>6. CASE Unresolved
  <2>1. StatusFails /\ stats' = [stats EXCEPT ![last] = Blamed] /\ me.pc = "status" /\ me.ret # 0
    BY <1>1, <1>6 DEF Unresolved, StatusFails, Succeeds
  <2>2. ~(~canExec /\ canFork)
    BY <1>1, <2>1 DEF Counting
  <2>3. Len(procs'[last].answers) = k + 1
    BY <1>1, <2>1, Goes DEF OpenPipes, Skip, Fork, ForkFails, RunTool
  <2>4. Tallied(calls, procs'[last], Blamed)
    BY <1>1, <2>3, FailsTallied DEF Blamed
  <2> QED
    BY <2>1, <2>2, <2>4, CountingGoes
<1>7. CASE Resolved
  <2>1. ReadAnswer /\ me.pc = "status" /\ answer \in Answer
    BY <1>7, AnswerIs DEF Resolved
  <2>2. k < Len(calls)
    BY <2>1, Asked
  <2>3. asked = calls[k + 1] /\ asked[1] \in AddrParts /\ asked[2] \in BinNames
    BY <2>2, AskedIs
  <2>4. PICK new : Enter(new) /\ Takes(own.head, new, asked[1])
    <3>1. CASE find_entry_name(own.head, answer) # {}
      BY <1>1, <1>7, <2>3, <3>1, KnownTakes DEF Resolved
    <3>2. CASE find_entry_name(own.head, answer) = {}
      BY <1>1, <1>7, <2>1, <2>3, <3>2, NewTakes DEF Resolved
    <3> QED
      BY <3>1, <3>2
  <2> DEFINE t == [own EXCEPT !.head = new]
  <2>5. Len(procs'[last].answers) = k + 1
    BY <1>1, <2>1, Goes DEF OpenPipes, Skip, Fork, ForkFails, RunTool
  <2>6. Tallied(calls, procs'[last], t)
    BY <1>1, <2>3, <2>4, <2>5, TakesTallied
  <2>7. stats' = [stats EXCEPT ![last] = t] /\ t.error = own.error
    BY <1>1, <2>4 DEF Enter, Stat
  <2> QED
    BY <2>1, <2>6, <2>7, CountingGoes
<1>8. CASE CopyReports
  <2> DEFINE now == last - 1
  <2>1. CopyEnds /\ stats' = Front(stats)
    BY <1>8 DEF CopyReports
  <2>2. /\ Len(procs') = now /\ now \in Nat \ {0}
        /\ calls' = calls /\ canExec' = canExec /\ canFork' = canFork
        /\ \A n \in 1 .. now : n # now => procs'[n] = procs[n]
        /\ procs'[now].ret = 0 /\ procs'[now].answers = procs[now].answers
    BY <2>1, Ends DEF system, canExec, canFork
  <2>3. procs' \in Seq(Proc) /\ DOMAIN procs' = 1 .. now
    BY <2>2 DEF Inv, Types
  <2>0. last = now + 1
    BY <1>1
  <2> HIDE DEF last, now
  <2>4. /\ stats' \in Seq(Stat) /\ Len(stats') = now
        /\ \A n \in 1 .. now : stats'[n] = stats[n]
    <3>1. Front(stats) = [n \in 1 .. now |-> stats[n]]
      BY <1>1, <2>0, <2>2 DEF Front
    <3>2. \A n \in 1 .. now : stats[n] \in Stat
      BY <1>1, <2>0, <2>2
    <3> QED
      BY <2>1, <2>2, <3>1, <3>2
  <2>5. now \in 1 .. last /\ 1 \in 1 .. now /\ \A n \in 1 .. now : n \in 1 .. last
    BY <1>1, <2>0, <2>2
  <2>6. ASSUME NEW n \in 1 .. now PROVE Tallied(calls', procs'[n], stats'[n])
    <3>1. Tallied(calls, procs[n], stats[n]) /\ procs'[n].answers = procs[n].answers
      BY <1>1, <2>2, <2>5 DEF Counting
    <3> QED
      BY <2>2, <2>4, <3>1 DEF Tallied
  <2>7. ASSUME ~canExec, canFork
        PROVE  /\ stats'[1].error.samples = 0
               /\ \A n \in 1 .. now : procs'[n].pc = "status" => procs'[n].ret = 0
    BY <1>1, <2>2, <2>4, <2>5, <2>7 DEF Counting
  <2> QED
    BY <2>2, <2>3, <2>4, <2>6, <2>7 DEF Counting
<1>9. CASE Report
  <2>1. procs' = procs /\ stats' = stats /\ calls' = calls /\ execv' = execv /\ fork' = fork
    BY <1>9 DEF Report, vars, system
  <2> QED
    BY <2>1 DEF Counting, Tallied, canExec, canFork
<1> QED
  BY <1>3, <1>4, <1>5, <1>6, <1>7, <1>8, <1>9 DEF ReadPerfNext

-----------------------------------------------------------------------------
(* results.csv and the buffers.                                            *)

\* What a process writes counts all the samples it has counted.
LEMMA RowsAre ==
  ASSUME Inv, Counting
  PROVE  /\ SumFunction([n \in DOMAIN rows |-> rows[n].samples]) = Len(me.answers)
         /\ rows[1] = own.error
<1>1. own.head \in Seq(Entry) /\ own.error.samples \in Nat /\ Tallied(calls, me, own)
  BY Owns
<1>2. Total(<<own.error>> \o own.head) = Total(own.head) + own.error.samples
  BY <1>1, OneMore
<1>3. Total(own.head) + own.error.samples = Len(me.answers)
  BY <1>1 DEF Tallied
<1>4. Total(rows) = SumFunction([n \in DOMAIN rows |-> rows[n].samples])
  BY DEF Total, Counted
<1>5. rows[1] = own.error
  <2> DEFINE list == own.head e == own.error
  <2>1. list \in Seq(Entry) /\ rows = <<e>> \o list
    BY <1>1 DEF rows
  <2> HIDE DEF list, e
  <2>2. (<<e>> \o list)[1] = e
    BY <2>1
  <2> QED
    BY <2>1, <2>2 DEF e
<1> QED
  BY <1>2, <1>3, <1>4, <1>5 DEF rows

LEMMA ReportedStep ==
  ASSUME Inv, Counting, Reported, ReadPerfNext
  PROVE  Reported'
<1>1. ~done
  BY Over
<1>2. CASE Report
  <2>1. /\ procs' = procs /\ calls' = calls /\ results' = rows
        /\ canExec' = canExec /\ canFork' = canFork
        /\ Len(procs) = 1 /\ me.pc = "replay" /\ Len(me.answers) = Len(calls)
    BY <1>2 DEF Report, FuncLog, vars, system, canExec, canFork
  <2>2. me = procs[1] /\ own = stats[1]
    BY <2>1, Owns
  <2>3. ~canExec /\ canFork => own.error.samples = 0
    BY <2>2 DEF Counting
  <2>4. ResultsComplete'
    BY <2>1, <2>3, RowsAre DEF ResultsComplete
  <2> QED
    BY <2>1, <2>2, <2>4 DEF Reported
<1>3. CASE ~Report
  <2>1. done' = done
    BY <1>3 DEF ReadPerfNext, Sample, SampleCached, Copy, Resolve, Unresolved, Resolved,
         CopyReports, output
  <2> QED
    BY <1>1, <2>1 DEF Reported, ResultsComplete
<1> QED
  BY <1>2, <1>3

\* A sample is logged with its number.
LEMMA SampleIs ==
  ASSUME Inv, Sample \/ SampleCached
  PROVE  /\ OpenPipes \/ Skip
         /\ Log(Len(me.answers) + 1) /\ Len(me.answers) + 1 \in Int
         /\ done' = done
<1>1. Len(me.answers) + 1 \in Int
  BY Running DEF Proc
<1> QED
  BY <1>1 DEF Sample, SampleCached

\* Nothing is written until get_func returns.
LEMMA ResolveIs ==
  ASSUME Resolve \/ Unresolved \/ Resolved
  PROVE  /\ Fork \/ ForkFails \/ RunTool \/ StatusFails \/ ReadAnswer
         /\ files' = files /\ buffers' = buffers /\ done' = done
BY DEF Resolve, Unresolved, Resolved, output

LEMMA BufferedStep ==
  ASSUME Inv, Inv', Reported, Buffered, ReadPerfNext
  PROVE  Buffered'
<1>1. ~done
  BY Over
<1>2. /\ buffers \in Seq(Output) /\ Len(buffers) = Len(procs) /\ Len(procs) \in Nat \ {0}
      /\ Last(buffers) = buffers[Len(procs)]
      /\ \A n \in 1 .. Len(procs) :
           buffers[n] \in Output /\ buffers[n].processes = <<Header>>
  BY <1>1, Buffers
<1>d. /\ procs \in Seq(Proc) /\ DOMAIN procs = 1 .. Len(procs)
      /\ procs' \in Seq(Proc) /\ DOMAIN procs' = 1 .. Len(procs')
  BY Running DEF Inv, Types
<1>3. CASE Sample \/ SampleCached
  <2>1. OpenPipes \/ Skip
    BY <1>3, SampleIs
  <2>3. /\ files' \in Output /\ buffers' \in Seq(Output) /\ Len(buffers') = Len(procs)
        /\ \A n \in 1 .. Len(procs) : n # Len(procs) => buffers'[n] = buffers[n]
        /\ buffers'[Len(procs)].processes = buffers[Len(procs)].processes
    BY <1>1, <1>3, SampleIs, Logs
  <2>4. Len(procs') = Len(procs)
    BY <2>1, Goes
  <2> QED
    BY <1>2, <1>d, <2>3, <2>4 DEF Buffered
<1>4. CASE Copy
  <2>1. ExecFails /\ buffers' = Append(buffers, Last(buffers)) /\ files' = files
    BY <1>4 DEF Copy
  <2>2. /\ buffers' \in Seq(Output) /\ Len(buffers') = Len(procs) + 1
        /\ \A n \in 1 .. Len(procs) + 1 : buffers'[n].processes = <<Header>>
    BY <1>2, <2>1
  <2>3. Len(procs') = Len(procs) + 1
    BY <2>1, Copies
  <2> QED
    BY <1>d, <2>1, <2>2, <2>3 DEF Buffered
<1>5. CASE Resolve \/ Unresolved \/ Resolved
  <2>1. /\ Fork \/ ForkFails \/ RunTool \/ StatusFails \/ ReadAnswer
        /\ UNCHANGED <<files, buffers, done>>
    BY <1>5, ResolveIs
  <2>2. Len(procs') = Len(procs)
    BY <2>1, Goes
  <2> QED
    BY <1>d, <2>1, <2>2 DEF Buffered
<1>6. CASE CopyReports
  <2>1. CopyEnds /\ Closed /\ buffers' = Front(buffers)
    BY <1>6 DEF CopyReports
  <2>2. files' \in Output
    BY <1>1, <2>1, Closes
  <2>3. Len(procs') = Len(procs) - 1 /\ Len(procs') \in Nat
    BY <2>1, Ends
  <2>5. /\ buffers' \in Seq(Output) /\ Len(buffers') = Len(procs) - 1
        /\ \A n \in 1 .. Len(procs) - 1 : buffers'[n] = buffers[n]
    BY <1>2, <2>1, <2>3 DEF Front
  <2> QED
    BY <1>2, <1>d, <2>2, <2>3, <2>5 DEF Buffered
<1>7. CASE Report
  <2>1. Closed /\ done'
    BY <1>7 DEF Report
  <2>2. files' \in Output
    BY <1>1, <2>1, Closes
  <2> QED
    BY <2>1, <2>2 DEF Buffered
<1> QED
  BY <1>3, <1>4, <1>5, <1>6, <1>7 DEF ReadPerfNext

-----------------------------------------------------------------------------
(* overview.csv.                                                           *)

LEMMA LoggedIs ==
  ASSUME NEW p \in Proc
  PROVE  /\ Logged(p) \in Nat /\ Len(p.answers) \in Nat
         /\ p.pc = "replay" => Logged(p) = Len(p.answers)
         /\ p.pc # "replay" => Logged(p) = Len(p.answers) + 1
BY DEF Logged, Proc

LEMMA LinesToNext ==
  ASSUME NEW last \in Nat
  PROVE  Append(LinesTo(last), last + 1) = LinesTo(last + 1)
<1> DEFINE s == LinesTo(last)
           t == LinesTo(last + 1)
<1>1. s \in Seq(Int) /\ Len(s) = last + 1 /\ \A i \in 1 .. last + 1 : s[i] = i - 1
  BY DEF LinesTo
<1>2. t \in Seq(Int) /\ Len(t) = last + 2 /\ \A i \in 1 .. last + 2 : t[i] = i - 1
  BY DEF LinesTo
<1> HIDE DEF s, t
<1> DEFINE u == Append(s, last + 1)
<1>3. u \in Seq(Int) /\ Len(u) = last + 2 /\ \A i \in 1 .. last + 2 : u[i] = i - 1
  BY <1>1
<1> HIDE DEF u
<1>4. u = t
  BY <1>2, <1>3
<1> QED
  BY <1>4 DEF s, t, u

LEMMA LinesAre ==
  ASSUME Len(calls) \in Nat, calls \in Seq(Addresses)
  PROVE  /\ Lines = LinesTo(Len(calls))
         /\ DOMAIN Lines = 1 .. Len(calls) + 1
         /\ \A i \in 1 .. Len(calls) + 1 : Lines[i] = i - 1
<1> DEFINE N == Len(calls)
           t == [n \in 1 .. N |-> n]
           s == <<Header>> \o t
           u == LinesTo(N)
<1>1. Lines = s /\ N \in Nat
  BY DEF Lines
<1>2. u \in Seq(Int) /\ Len(u) = N + 1 /\ \A i \in 1 .. N + 1 : u[i] = i - 1
  BY <1>1 DEF LinesTo
<1> HIDE DEF N
<1>3. t \in Seq(Int) /\ Len(t) = N /\ \A i \in 1 .. N : t[i] = i
  BY <1>1
<1> HIDE DEF t, u
<1>4. s \in Seq(Int) /\ Len(s) = N + 1 /\ s[1] = 0
      /\ \A i \in 1 .. N + 1 : i # 1 => s[i] = t[i - 1]
  BY <1>1, <1>3 DEF Header
<1>5. \A i \in 1 .. N + 1 : s[i] = i - 1
  <2> SUFFICES ASSUME NEW i \in 1 .. N + 1 PROVE s[i] = i - 1
    OBVIOUS
  <2> HIDE DEF s
  <2>1. CASE i = 1
    BY <1>4, <2>1
  <2>2. CASE i # 1
    <3>1. i - 1 \in 1 .. N
      BY <1>1, <2>2
    <3> QED
      BY <1>3, <1>4, <2>2, <3>1
  <2> QED
    BY <2>1, <2>2
<1> HIDE DEF s
<1>6. s = u
  BY <1>2, <1>4, <1>5
<1>7. DOMAIN s = 1 .. N + 1
  BY <1>4
<1> QED
  BY <1>1, <1>5, <1>6, <1>7 DEF N, u

\* A process that ends has logged everything, and leaves its lines in the file.
LEMMA WritesOut ==
  ASSUME Inv, Buffered, Overviewed, ~done, Closed, calls' = calls,
         me.pc = "replay", Len(me.answers) = Len(calls)
  PROVE  InOrder(files.overview)' /\ (canExec => files'.overview = Lines')
<1> DEFINE last == Len(procs)
           b == buffers[last].overview
<1>1. /\ me = procs[last] /\ me \in Proc /\ calls \in Seq(Addresses) /\ Len(calls) \in Nat
  BY Running DEF Inv, Types
<1>2. Logged(procs[last]) = Len(calls)
  BY <1>1, LoggedIs
<1>3. files.overview \in Seq(Int) /\ b \in Seq(Int) /\ files'.overview = files.overview \o b
  <2>1. last \in 1 .. last
    BY Running
  <2> QED
    BY <2>1, Buffers, Closes DEF Seen
<1>4. Lines = LinesTo(Len(calls)) /\ Lines \in Seq(Int) /\ Lines' = Lines
  <2>1. Lines = LinesTo(Len(calls)) /\ Lines' = Lines
    BY <1>1, LinesAre DEF Lines
  <2>2. LinesTo(Len(calls)) \in Seq(Int)
    BY <1>1 DEF LinesTo
  <2> QED
    BY <2>1, <2>2
<1>5. CASE Seen(last) = LinesTo(Logged(procs[last]))
  <2>1. files'.overview = Lines
    BY <1>2, <1>3, <1>4, <1>5 DEF Seen
  <2>2. Ordered(Lines, Lines)
    BY <1>4, LinesOrdered
  <2> QED
    BY <1>4, <2>1, <2>2, OrderIs
<1>6. CASE ~canExec /\ InOrder(files.overview)
  <2>1. Ordered(Lines, files.overview)
    BY <1>6, OrderIs
  <2> HIDE DEF b
  <2>2. Ordered(Lines, files.overview \o b)
    BY <1>3, <1>4, <2>1, OrderKept
  <2> QED
    BY <1>3, <1>4, <1>6, <2>2, OrderIs
<1> QED
  BY <1>5, <1>6 DEF Overviewed

LEMMA OverviewedStep ==
  ASSUME Inv, Inv', Reported, Buffered, Overviewed, ReadPerfNext
  PROVE  Overviewed'
<1> DEFINE last == Len(procs)
           now == Len(procs')
           seen == files'.overview \o buffers'[now].overview
           k == Logged(procs[last])
<1>1. ~done
  BY Over
<1>2. /\ procs \in Seq(Proc) /\ last \in Nat \ {0} /\ DOMAIN procs = 1 .. last
      /\ me = procs[last] /\ procs[last] \in Proc
  BY Running
<1>3. /\ Len(buffers) = last /\ buffers \in Seq(Output) /\ Last(buffers) = buffers[last]
      /\ files.overview \in Seq(Int)
  BY <1>1, Buffers
<1>4. \/ Seen(last) = LinesTo(k)
      \/ ~canExec /\ InOrder(files.overview)
  BY <1>1 DEF Overviewed
<1>5. procs' \in Seq(Proc) /\ now \in Nat \ {0} /\ procs'[now] \in Proc
  BY DEF Inv, Types
<1>6. ASSUME ~done', \/ seen = LinesTo(Logged(procs'[now]))
                     \/ ~canExec' /\ InOrder(files.overview)'
      PROVE  Overviewed'
  BY <1>6 DEF Overviewed, OverviewComplete, Seen
<1>7. CASE Sample \/ SampleCached
  <2>1. /\ OpenPipes \/ Skip
        /\ Log(Len(me.answers) + 1) /\ Len(me.answers) + 1 \in Int /\ done' = done
    BY <1>7, SampleIs
  <2>2. now = last /\ calls' = calls /\ canExec' = canExec
    BY <2>1, Goes DEF system, canExec
  <2>3. k \in Nat /\ k = Len(me.answers) /\ Logged(procs'[now]) = k + 1
    <3>1. procs[last].pc = "replay"
      BY <1>2, <2>1 DEF OpenPipes, Skip
    <3>2. k = Len(me.answers) /\ k \in Nat
      BY <1>2, <3>1, LoggedIs
    <3>3. CASE Skip
      BY <1>5, <2>2, <3>2, <3>3, Skips, LoggedIs
    <3>4. CASE OpenPipes
      <4>1. procs'[last].answers = me.answers
        BY <3>4, GoesOn
      <4>2. procs'[last].pc # "replay"
        BY <3>4, OpensIs
      <4> QED
        BY <1>5, <2>2, <3>2, <4>1, <4>2, LoggedIs
    <3> QED
      BY <2>1, <3>2, <3>3, <3>4
  <2>4. seen = Append(Seen(last), k + 1)
        /\ \E t \in Seq(Int) : files'.overview = files.overview \o t
    BY <1>1, <2>1, <2>2, <2>3, Logs DEF Seen
  <2> HIDE DEF k, last, now, seen
  <2>5. CASE Seen(last) = LinesTo(k)
    <3>1. seen = LinesTo(Logged(procs'[now]))
      BY <2>3, <2>4, <2>5, LinesToNext
    <3> QED
      BY <1>1, <1>6, <2>1, <3>1
  <2>6. CASE ~canExec /\ InOrder(files.overview)
    <3>1. PICK t \in Seq(Int) : files'.overview = files.overview \o t
      BY <2>4
    <3>2. Lines' = Lines /\ Lines \in Seq(Int)
      <4>1. Len(calls) \in Nat /\ calls \in Seq(Addresses) /\ Lines' = Lines
        BY <2>2 DEF Lines, Inv, Types
      <4>2. LinesTo(Len(calls)) \in Seq(Int)
        BY <4>1 DEF LinesTo
      <4> QED
        BY <4>1, <4>2, LinesAre
    <3>3. Ordered(Lines, files.overview \o t)
      BY <1>3, <2>6, <3>2, OrderIs, OrderKept
    <3>4. InOrder(files.overview)'
      BY <3>1, <3>2, <3>3, OrderIs
    <3> QED
      BY <1>1, <1>6, <2>1, <2>2, <2>6, <3>4
  <2> QED
    BY <1>4, <2>5, <2>6
<1>8. CASE Copy
  <2>1. ExecFails /\ buffers' = Append(buffers, Last(buffers)) /\ files' = files /\ done' = done
    BY <1>8 DEF Copy
  <2>2. /\ now = last + 1 /\ calls' = calls /\ canExec' = canExec
        /\ procs[last].pc = "wait" /\ procs'[now].pc = "replay"
        /\ Len(procs'[now].answers) = Len(procs[last].answers) + 1
    BY <2>1, Copies DEF system, canExec
  <2>3. Logged(procs'[now]) = k
    BY <1>2, <1>5, <2>2, LoggedIs
  <2>4. buffers'[now] = buffers[last]
    BY <1>2, <1>3, <2>1, <2>2
  <2>5. seen = Seen(last)
    BY <2>1, <2>4 DEF Seen
  <2>6. InOrder(files.overview)' <=> InOrder(files.overview)
    BY <2>1, <2>2 DEF InOrder, Lines
  <2> HIDE DEF k, last, now, seen
  <2> QED
    BY <1>1, <1>4, <1>6, <2>1, <2>2, <2>3, <2>5, <2>6
<1>9. CASE Resolve \/ Unresolved \/ Resolved
  <2>1. /\ Fork \/ ForkFails \/ RunTool \/ StatusFails \/ ReadAnswer
        /\ files' = files /\ buffers' = buffers /\ done' = done
    BY <1>9, ResolveIs
  <2>2. now = last /\ calls' = calls /\ canExec' = canExec
    BY <2>1, Goes DEF system, canExec
  <2>3. Logged(procs'[last]) = k
    <3>1. procs[last].pc # "replay"
      BY <1>2, <2>1 DEF Fork, ForkFails, RunTool, StatusFails, ReadAnswer
    <3>2. \/ /\ procs'[last].pc # "replay"
             /\ procs'[last].answers = procs[last].answers
          \/ /\ procs'[last].pc = "replay"
             /\ Len(procs'[last].answers) = Len(procs[last].answers) + 1
      BY <2>1, <3>1, Goes
    <3> QED
      BY <1>2, <1>5, <2>2, <3>1, <3>2, LoggedIs
  <2>4. seen = Seen(last)
    BY <2>1, <2>2 DEF Seen
  <2>5. InOrder(files.overview)' <=> InOrder(files.overview)
    BY <2>1, <2>2 DEF InOrder, Lines
  <2> HIDE DEF k, last, now, seen
  <2> QED
    BY <1>1, <1>4, <1>6, <2>1, <2>2, <2>3, <2>4, <2>5
<1>10. CASE CopyReports
  <2>1. CopyEnds /\ Closed /\ done' = done
    BY <1>10 DEF CopyReports
  <2>2. calls' = calls /\ ~canExec /\ canExec' = canExec
    BY <2>1, Ends DEF system, canExec
  <2>3. me.pc = "replay" /\ Len(me.answers) = Len(calls)
    BY <2>1 DEF CopyEnds
  <2>4. InOrder(files.overview)'
    BY <1>1, <2>1, <2>2, <2>3, WritesOut
  <2> QED
    BY <1>1, <1>6, <2>1, <2>2, <2>4
<1>11. CASE Report
  <2>1. /\ Closed /\ done' /\ calls' = calls /\ canExec' = canExec
        /\ me.pc = "replay" /\ Len(me.answers) = Len(calls)
    BY <1>11 DEF Report, vars, system, canExec
  <2>2. InOrder(files.overview)' /\ (canExec => files'.overview = Lines')
    BY <1>1, <2>1, WritesOut
  <2> QED
    BY <2>1, <2>2 DEF Overviewed, OverviewComplete
<1> QED
  BY <1>7, <1>8, <1>9, <1>10, <1>11 DEF ReadPerfNext

-----------------------------------------------------------------------------
(* processes.csv: the most and the least tables there are going to be.     *)

\* A stack of processes as the replay of N samples can leave it.
Standing(N, ps) ==
  /\ N \in Nat /\ ps \in Seq(Proc) /\ ps # << >>
  /\ \A n \in DOMAIN ps :
       /\ Len(ps[n].answers) <= N
       /\ ps[n].pc # "replay" => Len(ps[n].answers) < N
       /\ n < Len(ps) => ps[n].pc = "wait"

LEMMA Stands ==
  /\ Inv => Standing(Len(calls), procs)
  /\ Inv' => Standing(Len(calls'), procs')
<1>1. ASSUME Inv PROVE Standing(Len(calls), procs)
  <2>1. Len(calls) \in Nat /\ procs \in Seq(Proc) /\ procs # << >>
    BY <1>1 DEF Inv, Types
  <2>2. ASSUME NEW n \in DOMAIN procs
        PROVE  /\ Len(procs[n].answers) <= Len(calls)
               /\ procs[n].pc # "replay" => Len(procs[n].answers) < Len(calls)
               /\ n < Len(procs) => procs[n].pc = "wait"
    <3>1. InCall(procs[n]) /\ (n < Len(procs) => procs[n].pc = "wait") /\ procs[n] \in Proc
      BY <1>1, <2>1 DEF Inv
    <3>2. Len(procs[n].answers) \in Nat
      BY <3>1 DEF Proc
    <3> QED
      BY <2>1, <3>1, <3>2 DEF InCall
  <2> QED
    BY <2>1, <2>2 DEF Standing
<1>2. ASSUME Inv' PROVE Standing(Len(calls'), procs')
  <2>1. Len(calls') \in Nat /\ procs' \in Seq(Proc) /\ procs' # << >>
    BY <1>2 DEF Inv, Types
  <2>2. ASSUME NEW n \in DOMAIN procs'
        PROVE  /\ Len(procs'[n].answers) <= Len(calls')
               /\ procs'[n].pc # "replay" => Len(procs'[n].answers) < Len(calls')
               /\ n < Len(procs') => procs'[n].pc = "wait"
    <3>1. /\ procs'[n].pc = "replay" => Len(procs'[n].answers) <= Len(calls')
          /\ procs'[n].pc # "replay" => Len(procs'[n].answers) < Len(calls')
          /\ n < Len(procs') => procs'[n].pc = "wait"
          /\ procs'[n] \in Proc
      BY <1>2, <2>1 DEF Inv, InCall
    <3>2. Len(procs'[n].answers) \in Nat
      BY <3>1 DEF Proc
    <3> QED
      BY <2>1, <3>1, <3>2
  <2> QED
    BY <2>1, <2>2 DEF Standing
<1> QED
  BY <1>1, <1>2

LEMMA MostIs ==
  ASSUME NEW N, NEW ps, Standing(N, ps)
  PROVE  /\ Len(ps) \in Nat \ {0} /\ DOMAIN Most(N, ps) = 1 .. Len(ps)
         /\ IsFiniteSet(DOMAIN Most(N, ps)) /\ Terms(Most(N, ps), DOMAIN Most(N, ps))
         /\ SumFunction(Most(N, ps)) \in Nat
         /\ \A n \in 1 .. Len(ps) : Left(N, ps, n) \in Nat /\ Most(N, ps)[n] = 2 ^ Left(N, ps, n)
<1>1. ps \in Seq(Proc) /\ Len(ps) \in Nat \ {0} /\ DOMAIN ps = 1 .. Len(ps) /\ N \in Nat
  BY DEF Standing
<1>2. ASSUME NEW n \in 1 .. Len(ps)
      PROVE  Left(N, ps, n) \in Nat
  <2>1. Len(ps[n].answers) \in Nat
    BY <1>1, LoggedIs
  <2> QED
    BY <1>1, <2>1 DEF Left, Standing
<1>3. IsFiniteSet(1 .. Len(ps))
  BY <1>1, FS_Interval
<1>4. /\ DOMAIN Most(N, ps) = 1 .. Len(ps) /\ Terms(Most(N, ps), DOMAIN Most(N, ps))
      /\ \A n \in 1 .. Len(ps) : Most(N, ps)[n] = 2 ^ Left(N, ps, n)
  BY <1>1, <1>2, PowerIs DEF Most, Terms
<1> QED
  BY <1>1, <1>2, <1>3, <1>4, SumType

\* Only the running process goes on: it has as many samples left to make a
\* copy for, or one less.
LEMMA MostGoes ==
  ASSUME NEW N, NEW ps, Standing(N, ps), NEW qs, Standing(N, qs), Len(qs) = Len(ps),
         \A n \in 1 .. Len(ps) : n # Len(ps) => qs[n] = ps[n]
  PROVE  /\ Left(N, qs, Len(ps)) = Left(N, ps, Len(ps))
              => SumFunction(Most(N, qs)) = SumFunction(Most(N, ps))
         /\ Left(N, qs, Len(ps)) + 1 = Left(N, ps, Len(ps))
              => SumFunction(Most(N, qs)) <= SumFunction(Most(N, ps))
<1> DEFINE last == Len(ps)
           w == Most(N, ps)
           v == Most(N, qs)
           l == Left(N, ps, last)
           m == Left(N, qs, last)
<1>1. /\ last \in Nat \ {0} /\ DOMAIN w = 1 .. last /\ IsFiniteSet(DOMAIN w)
      /\ Terms(w, DOMAIN w) /\ SumFunction(w) \in Nat
      /\ \A n \in 1 .. last : w[n] = 2 ^ Left(N, ps, n)
      /\ l \in Nat
  BY MostIs
<1>2. /\ DOMAIN v = 1 .. last /\ SumFunction(v) \in Nat
      /\ \A n \in 1 .. last : v[n] = 2 ^ Left(N, qs, n)
      /\ m \in Nat
  BY <1>1, MostIs
<1>3. \A n \in 1 .. last : n # last => v[n] = w[n]
  <2> SUFFICES ASSUME NEW n \in 1 .. last, n # last PROVE v[n] = w[n]
    OBVIOUS
  <2>1. Left(N, qs, n) = Left(N, ps, n)
    BY DEF Left
  <2> HIDE DEF w, v
  <2> QED
    BY <1>1, <1>2, <2>1
<1>4. last \in DOMAIN w
  BY <1>1
<1>5. w[last] = 2 ^ l /\ v[last] = 2 ^ m
  BY <1>1, <1>2, <1>4
<1>6. 2 ^ l \in Nat /\ 2 ^ m \in Nat /\ 2 ^ (m + 1) = 2 ^ m + 2 ^ m
  BY <1>1, <1>2, PowerIs
<1> HIDE DEF last, w, v, l, m
<1>7. SumFunction(v) + w[last] = SumFunction(w) + v[last]
  BY <1>1, <1>2, <1>3, <1>4, <1>5, <1>6, SumChanges
<1>8. m = l => SumFunction(v) = SumFunction(w)
  BY <1>1, <1>2, <1>5, <1>6, <1>7
<1>9. m + 1 = l => SumFunction(v) <= SumFunction(w)
  <2> SUFFICES ASSUME m + 1 = l PROVE SumFunction(v) <= SumFunction(w)
    OBVIOUS
  <2>1. w[last] = 2 ^ m + 2 ^ m /\ v[last] = 2 ^ m
    BY <1>5, <1>6
  <2> QED
    BY <1>1, <1>2, <1>6, <1>7, <2>1
<1> QED
  BY <1>8, <1>9 DEF last, w, v, l, m

\* A term that is divided in two.
Divides(f, g, x, y) ==
  /\ x \in DOMAIN f /\ y \notin DOMAIN f /\ DOMAIN g = DOMAIN f \cup {y}
  /\ \A z \in DOMAIN f : z # x => g[z] = f[z]
  /\ g[x] \in Nat /\ g[y] \in Nat /\ f[x] = g[x] + g[y]

LEMMA SumDivides ==
  ASSUME NEW f, IsFiniteSet(DOMAIN f), Terms(f, DOMAIN f), NEW g, NEW x, NEW y,
         Divides(f, g, x, y)
  PROVE  SumFunction(g) = SumFunction(f)
<1> DEFINE u == [f EXCEPT ![x] = g[x]]
<1>1. /\ DOMAIN u = DOMAIN f /\ u[x] = g[x]
      /\ \A z \in DOMAIN f : z # x => u[z] = f[z]
  BY DEF Divides
<1> HIDE DEF u
<1>2. SumFunction(u) + f[x] = SumFunction(f) + u[x]
  BY <1>1, SumChanges DEF Divides
<1>3. Terms(u, DOMAIN u) /\ IsFiniteSet(DOMAIN u)
  BY <1>1 DEF Terms, Divides
<1>4. \A z \in DOMAIN u : g[z] = u[z]
  BY <1>1 DEF Divides
<1>5. SumFunction(g) = SumFunction(u) + g[y]
  BY <1>1, <1>3, <1>4, SumGrows DEF Divides
<1>6. SumFunction(u) \in Nat /\ SumFunction(f) \in Nat
  BY <1>3, SumType
<1> QED
  BY <1>1, <1>2, <1>5, <1>6 DEF Divides

\* The last of the processes has a copy behind it, with its sample answered.
Branches(ps, qs) ==
  /\ Len(qs) = Len(ps) + 1 /\ \A n \in 1 .. Len(ps) : qs[n] = ps[n]
  /\ ps[Len(ps)].pc = "wait" /\ qs[Len(ps) + 1].pc = "replay"
  /\ Len(qs[Len(ps) + 1].answers) = Len(ps[Len(ps)].answers) + 1

\* The last of the processes has ended, and its parent goes on.
Joins(N, ps, qs) ==
  /\ Len(ps) = Len(qs) + 1 /\ \A n \in 1 .. Len(qs) : n # Len(qs) => qs[n] = ps[n]
  /\ qs[Len(qs)].answers = ps[Len(qs)].answers /\ qs[Len(qs)].pc = "status"
  /\ ps[Len(qs) + 1].pc = "replay" /\ Len(ps[Len(qs) + 1].answers) = N

\* A copy and its parent share the tables of the parent.
LEMMA MostGrows ==
  ASSUME NEW N, NEW ps, Standing(N, ps), NEW qs, Standing(N, qs), Branches(ps, qs)
  PROVE  SumFunction(Most(N, qs)) = SumFunction(Most(N, ps))
<1> DEFINE last == Len(ps)
           w == Most(N, ps)
           v == Most(N, qs)
           c == N - Len(ps[last].answers) - 1
<1>0. /\ Len(qs) = last + 1 /\ \A n \in 1 .. last : qs[n] = ps[n]
      /\ ps[last].pc = "wait" /\ qs[last + 1].pc = "replay"
      /\ Len(qs[last + 1].answers) = Len(ps[last].answers) + 1
  BY DEF Branches
<1>1. /\ last \in Nat \ {0} /\ DOMAIN w = 1 .. last /\ IsFiniteSet(DOMAIN w)
      /\ Terms(w, DOMAIN w) /\ SumFunction(w) \in Nat
      /\ \A n \in 1 .. last : w[n] = 2 ^ Left(N, ps, n)
  BY MostIs
<1>2. /\ DOMAIN v = 1 .. last + 1 /\ SumFunction(v) \in Nat
      /\ \A n \in 1 .. last + 1 : v[n] = 2 ^ Left(N, qs, n)
  BY <1>0, <1>1, MostIs
<1>3. /\ ps[last] \in Proc /\ Len(ps[last].answers) \in Nat /\ Len(ps[last].answers) < N
      /\ N \in Nat /\ c \in Nat
  <2>1. ps \in Seq(Proc) /\ last \in DOMAIN ps /\ N \in Nat
    BY <1>1 DEF Standing
  <2>2. Len(ps[last].answers) \in Nat /\ Len(ps[last].answers) < N
    BY <1>0, <2>1, LoggedIs DEF Standing
  <2> QED
    BY <2>1, <2>2
<1>4. Left(N, ps, last) = c + 1
  BY <1>0, <1>1, <1>3 DEF Left
<1>5. Left(N, qs, last) = c
  <2>1. last < last + 1 /\ last \in 1 .. last /\ qs[last] = ps[last]
    BY <1>0, <1>1
  <2> QED
    BY <1>0, <1>3, <2>1 DEF Left
<1>6. Left(N, qs, last + 1) = c
  <2>1. ~(last + 1 < last + 1)
    BY <1>1
  <2>2. Left(N, qs, last + 1) = N - (Len(ps[last].answers) + 1) - 0
    BY <1>0, <2>1 DEF Left
  <2> QED
    BY <1>3, <2>2
<1>7. ASSUME NEW n \in 1 .. last, n # last
      PROVE  Left(N, qs, n) = Left(N, ps, n)
  <2>1. n < last /\ n < last + 1 /\ qs[n] = ps[n]
    BY <1>0, <1>1, <1>7
  <2> QED
    BY <1>0, <2>1 DEF Left
<1>8. 2 ^ c \in Nat /\ 2 ^ (c + 1) = 2 ^ c + 2 ^ c
  BY <1>3, PowerIs
<1>9. last \in 1 .. last /\ last \in 1 .. last + 1 /\ last + 1 \in 1 .. last + 1
      /\ \A n \in 1 .. last : n \in 1 .. last + 1
  BY <1>1
<1> HIDE DEF last, w, v, c
<1>10. w[last] = 2 ^ c + 2 ^ c /\ v[last] = 2 ^ c /\ v[last + 1] = 2 ^ c
  BY <1>1, <1>2, <1>4, <1>5, <1>6, <1>8, <1>9
<1>11. \A n \in 1 .. last : n # last => v[n] = w[n]
  BY <1>1, <1>2, <1>7, <1>9
<1>12. /\ last \in DOMAIN w /\ last + 1 \notin DOMAIN w
       /\ DOMAIN v = DOMAIN w \cup {last + 1}
  BY <1>1, <1>2
<1>13. \A n \in DOMAIN w : n # last => v[n] = w[n]
  BY <1>1, <1>11
<1>14. SumFunction(v) = SumFunction(w)
  <2>1. v[last] \in Nat /\ v[last + 1] \in Nat /\ w[last] = v[last] + v[last + 1]
    BY <1>8, <1>10
  <2>2. IsFiniteSet(DOMAIN w) /\ Terms(w, DOMAIN w)
    BY <1>1
  <2>3. Divides(w, v, last, last + 1)
    BY <1>12, <1>13, <2>1 DEF Divides
  <2> QED
    BY <2>2, <2>3, SumDivides
<1> QED
  BY <1>14 DEF v, w

\* A copy that ends has one table left, its own.
LEMMA MostShrinks ==
  ASSUME NEW N, NEW ps, Standing(N, ps), NEW qs, Standing(N, qs), Joins(N, ps, qs)
  PROVE  SumFunction(Most(N, ps)) = SumFunction(Most(N, qs)) + 1
<1> DEFINE now == Len(qs)
           w == Most(N, ps)
           v == Most(N, qs)
<1>0. /\ Len(ps) = now + 1 /\ \A n \in 1 .. now : n # now => qs[n] = ps[n]
      /\ qs[now].answers = ps[now].answers /\ qs[now].pc = "status"
      /\ ps[now + 1].pc = "replay" /\ Len(ps[now + 1].answers) = N
  BY DEF Joins
<1>1. /\ now \in Nat \ {0} /\ DOMAIN v = 1 .. now /\ IsFiniteSet(DOMAIN v)
      /\ Terms(v, DOMAIN v) /\ \A n \in 1 .. now : v[n] = 2 ^ Left(N, qs, n)
  BY MostIs
<1>2. DOMAIN w = 1 .. now + 1 /\ \A n \in 1 .. now + 1 : w[n] = 2 ^ Left(N, ps, n)
  BY <1>0, MostIs
<1>3. ASSUME NEW n \in 1 .. now
      PROVE  Left(N, qs, n) = Left(N, ps, n)
  <2>1. n < now + 1 /\ (n = now \/ n < now)
    BY <1>1
  <2>2. CASE n = now
    BY <1>0, <2>1, <2>2 DEF Left
  <2>3. CASE n < now
    <3>1. qs[n] = ps[n]
      BY <1>0, <1>1, <2>3
    <3> QED
      BY <1>0, <2>1, <2>3, <3>1 DEF Left
  <2> QED
    BY <2>1, <2>2, <2>3
<1>4. Left(N, ps, now + 1) = 0 /\ 2 ^ 0 = 1
  <2>1. ~(now + 1 < now + 1) /\ N \in Nat
    BY <1>1 DEF Standing
  <2>2. Left(N, ps, now + 1) = N - N - 0
    BY <1>0, <2>1 DEF Left
  <2> QED
    BY <2>1, <2>2
<1>5. now + 1 \in 1 .. now + 1 /\ \A n \in 1 .. now : n \in 1 .. now + 1
  BY <1>1
<1> HIDE DEF now, w, v
<1>6. w[now + 1] = 1 /\ \A n \in DOMAIN v : w[n] = v[n]
  BY <1>1, <1>2, <1>3, <1>4, <1>5
<1>7. now + 1 \notin DOMAIN v /\ DOMAIN w = DOMAIN v \cup {now + 1}
  BY <1>1, <1>2
<1>8. SumFunction(w) = SumFunction(v) + w[now + 1]
  <2>1. w[now + 1] \in Nat
    BY <1>6
  <2> QED
    BY <1>1, <1>6, <1>7, <2>1, SumGrows
<1> QED
  BY <1>6, <1>8 DEF v, w

\* A sample that is resolved may have had a copy made for it; a sample that is
\* found in the cache has none.
LEMMA LeftGoes ==
  ASSUME Inv, Inv', canFork, ~canExec,
         OpenPipes \/ Skip \/ Fork \/ ForkFails \/ RunTool \/ StatusFails \/ ReadAnswer
  PROVE  LET N == Len(calls)
             last == Len(procs)
         IN  /\ ~Skip => Left(N, procs', last) = Left(N, procs, last)
             /\ Skip => Left(N, procs', last) + 1 = Left(N, procs, last)
<1> DEFINE N == Len(calls)
           last == Len(procs)
           p == procs[last]
           q == procs'[last]
           a == Len(p.answers)
           b == Len(q.answers)
<1>1. /\ Len(procs') = last /\ last \in Nat \ {0} /\ p \in Proc /\ N \in Nat /\ a \in Nat
      /\ \/ /\ p.pc # "status" /\ q.pc # "status" /\ q.answers = p.answers /\ ~Skip
         \/ /\ Skip /\ p.pc = "replay" /\ q.pc = "replay" /\ b = a + 1
         \/ /\ p.pc = "status" /\ q.pc = "replay" /\ b = a + 1 /\ ~Skip
  <2>1. last \in Nat \ {0} /\ p \in Proc /\ me = p /\ N \in Nat
    BY Running DEF Inv, Types
  <2>2. Skip => p.pc = "replay"
    BY <2>1 DEF Skip
  <2>3. a \in Nat
    BY <2>1, LoggedIs
  <2>4. CASE Skip
    <3>1. q.pc = "replay" /\ b = a + 1
      BY <2>1, <2>4, Skips
    <3> QED
      BY <2>1, <2>2, <2>3, <2>4, <3>1, Goes
  <2>5. CASE ~Skip
    BY <2>1, <2>3, <2>5, Goes
  <2> QED
    BY <2>4, <2>5
<1>2. /\ Left(N, procs, last) = N - a - (IF p.pc = "status" THEN 1 ELSE 0)
      /\ Left(N, procs', last) = N - b - (IF q.pc = "status" THEN 1 ELSE 0)
  <2>1. ~(last < last)
    BY <1>1
  <2> QED
    BY <1>1, <2>1 DEF Left
<1> HIDE DEF p, q, last, N
<1>3. CASE p.pc # "status" /\ q.pc # "status" /\ q.answers = p.answers /\ ~Skip
  BY <1>2, <1>3 DEF last, N
<1> HIDE DEF a, b
<1>4. CASE Skip /\ p.pc = "replay" /\ q.pc = "replay" /\ b = a + 1
  <2>1. Left(N, procs, last) = N - a /\ Left(N, procs', last) = N - (a + 1)
    BY <1>1, <1>2, <1>4
  <2>2. Left(N, procs', last) + 1 = Left(N, procs, last)
    BY <1>1, <2>1
  <2> QED
    BY <1>4, <2>2 DEF last, N
<1>5. CASE p.pc = "status" /\ q.pc = "replay" /\ b = a + 1 /\ ~Skip
  <2>1. Left(N, procs, last) = N - a - 1 /\ Left(N, procs', last) = N - (a + 1)
    BY <1>1, <1>2, <1>5
  <2>2. Left(N, procs', last) = Left(N, procs, last)
    BY <1>1, <2>1
  <2> QED
    BY <1>5, <2>2 DEF last, N
<1> QED
  BY <1>1, <1>3, <1>4, <1>5 DEF a, b

\* A process caches nothing before it has been asked for it.
LEMMA CachedTwice ==
  ASSUME Inv, Counting, SampleCached
  PROVE  ~Distinct
<1> DEFINE k == Len(me.answers)
<1>1. k < Len(calls) /\ cached # {} /\ Len(calls) \in Nat /\ DOMAIN calls = 1 .. Len(calls)
  BY DEF SampleCached, Skip, Inv, Types
<1>2. asked = calls[k + 1] /\ k \in Nat /\ asked[1] \in AddrParts
  BY <1>1, AskedIs
<1>3. own.head \in Seq(Entry) /\ Tallied(calls, me, own)
  BY Owns
<1>4. asked[1] \in Known(own.head)
  BY <1>1, <1>2, <1>3, CachedTakes DEF cached
<1>5. PICK m \in 1 .. k : calls[m][1] = asked[1]
  BY <1>3, <1>4 DEF Tallied
<1>6. m \in DOMAIN calls /\ k + 1 \in DOMAIN calls /\ m # k + 1
  BY <1>1, <1>2
<1> QED
  BY <1>2, <1>5, <1>6 DEF Distinct

\* The steps of the replay by what they do to the processes.
LEMMA StepIs ==
  ASSUME Inv, ReadPerfNext
  PROVE  \/ /\ OpenPipes \/ Skip \/ Fork \/ ForkFails \/ RunTool \/ StatusFails \/ ReadAnswer
            /\ Skip => SampleCached
            /\ done' = done
         \/ Copy \/ CopyReports \/ Report
<1>1. ASSUME Skip PROVE ~OpenPipes /\ ~Fork /\ ~ForkFails /\ ~RunTool /\ ~StatusFails /\ ~ReadAnswer
  <2>1. ~OpenPipes
    BY <1>1, OpensIs, Skips
  <2> QED
    BY <1>1, <2>1 DEF Skip, Fork, ForkFails, RunTool, StatusFails, ReadAnswer
<1> QED
  BY <1>1 DEF ReadPerfNext, Sample, SampleCached, Resolve, Unresolved, Resolved, output

\* No step adds to the most tables there are going to be, and one that makes
\* them fewer finds an address in the cache.
LEMMA MostStep ==
  ASSUME Inv, Inv', Counting, canFork, ~canExec, ReadPerfNext, ~Report
  PROVE  LET S == SumFunction(Most(Len(calls), procs))
             T == SumFunction(Most(Len(calls), procs'))
         IN  /\ S \in Nat /\ T \in Nat
             /\ CopyReports => S = T + 1
             /\ ~CopyReports => T <= S /\ (Distinct => T = S)
<1> DEFINE N == Len(calls)
           S == SumFunction(Most(N, procs))
           T == SumFunction(Most(N, procs'))
<1>1. calls' = calls
  BY DEF ReadPerfNext, Sample, SampleCached, Copy, Resolve, Unresolved, Resolved, CopyReports,
         OpenPipes, Skip, Fork, ForkFails, RunTool, ExecFails, StatusFails, ReadAnswer,
         CopyEnds, Become, system
<1>2. Standing(N, procs) /\ Standing(N, procs')
  BY <1>1, Stands
<1>3. S \in Nat /\ T \in Nat
  BY <1>2, MostIs
<1>4. CASE /\ OpenPipes \/ Skip \/ Fork \/ ForkFails \/ RunTool \/ StatusFails \/ ReadAnswer
           /\ Skip => SampleCached
           /\ ~CopyReports
  <2>1. /\ Len(procs') = Len(procs)
        /\ \A n \in 1 .. Len(procs) : n # Len(procs) => procs'[n] = procs[n]
    BY <1>4, Goes
  <2>2. /\ ~Skip => Left(N, procs', Len(procs)) = Left(N, procs, Len(procs))
        /\ Skip => Left(N, procs', Len(procs)) + 1 = Left(N, procs, Len(procs))
    BY <1>4, LeftGoes
  <2>3. Skip => ~Distinct
    BY <1>4, CachedTwice
  <2>4. ~Skip => T = S
    BY <1>2, <2>1, <2>2, MostGoes
  <2>5. Skip => T <= S
    BY <1>2, <2>1, <2>2, MostGoes
  <2> HIDE DEF N, S, T
  <2> QED
    BY <1>3, <1>4, <2>3, <2>4, <2>5 DEF S, T, N
<1>5. CASE Copy
  <2>1. Branches(procs, procs')
    BY <1>5, Copies DEF Copy, Branches
  <2>2. T = S
    BY <1>2, <2>1, MostGrows
  <2>3. ~CopyReports
    <3>1. Len(procs) \in Nat /\ Len(procs') = Len(procs) + 1
      BY <2>1, Running DEF Branches
    <3>2. CopyReports => Len(procs') = Len(procs) - 1
      BY Ends DEF CopyReports
    <3> QED
      BY <3>1, <3>2
  <2> HIDE DEF N, S, T
  <2> QED
    BY <1>3, <2>2, <2>3 DEF S, T, N
<1>6. CASE CopyReports
  <2>1. Joins(N, procs, procs')
    <3>1. CopyEnds /\ Len(procs) \in Nat
      BY <1>6, Running DEF CopyReports
    <3>2. /\ Len(procs') = Len(procs) - 1
          /\ \A n \in 1 .. Len(procs') : n # Len(procs') => procs'[n] = procs[n]
          /\ procs'[Len(procs')].answers = procs[Len(procs')].answers
          /\ procs'[Len(procs')].pc = "status"
          /\ procs[Len(procs') + 1].pc = "replay"
          /\ Len(procs[Len(procs') + 1].answers) = N
      BY <3>1, Ends
    <3>3. Len(procs) = Len(procs') + 1
      BY <3>1, <3>2
    <3> QED
      BY <3>2, <3>3 DEF Joins
  <2>2. S = T + 1
    BY <1>2, <2>1, MostShrinks
  <2> HIDE DEF N, S, T
  <2> QED
    BY <1>3, <1>6, <2>2 DEF S, T, N
<1>7. ~CopyReports \/ CopyReports
  OBVIOUS
<1> QED
  BY <1>4, <1>5, <1>6, <1>7, StepIs

\* Nor does a step take from the least tables there are going to be.
LEMMA LeastStep ==
  ASSUME Inv, Inv', Counting, canFork, ~canExec, ReadPerfNext, ~Report
  PROVE  LET L == Least(Len(calls), procs, stats)
             M == Least(Len(calls), procs', stats')
         IN  /\ L \in Nat /\ M \in Nat
             /\ CopyReports => M + 1 >= L
             /\ ~CopyReports => M >= L
<1> DEFINE N == Len(calls)
           L == Least(N, procs, stats)
           M == Least(N, procs', stats')
           last == Len(procs)
           now == Len(procs')
           a == Len(me.answers)
           b == Len(procs'[now].answers)
           fresh == own.head = << >> /\ me.pc # "status"
           still == stats'[now].head = << >> /\ procs'[now].pc # "status"
<1>1. /\ N \in Nat /\ last \in Nat \ {0} /\ now \in Nat \ {0}
      /\ a \in Nat /\ a <= N /\ b \in Nat /\ b <= N
  <2>1. calls' = calls
    BY DEF ReadPerfNext, Sample, SampleCached, Copy, Resolve, Unresolved, Resolved, CopyReports,
           OpenPipes, Skip, Fork, ForkFails, RunTool, ExecFails, StatusFails, ReadAnswer,
           CopyEnds, Become, system
  <2>2. Standing(N, procs) /\ Standing(N, procs')
    BY <2>1, Stands
  <2>3. /\ N \in Nat /\ last \in Nat \ {0} /\ last \in DOMAIN procs /\ me = procs[last]
        /\ procs[last] \in Proc
    BY Running DEF Inv, Types
  <2>4. now \in Nat \ {0} /\ now \in DOMAIN procs' /\ procs'[now] \in Proc
    BY DEF Inv, Types
  <2> QED
    BY <2>2, <2>3, <2>4, LoggedIs DEF Standing
<1>2. L = last + (IF fresh THEN N - a ELSE 0) /\ M = now + (IF still THEN N - b ELSE 0)
  BY Owns DEF Least
<1>3. L \in Nat /\ M \in Nat
  BY <1>1, <1>2
<1> HIDE DEF N, L, M, last, now, a, b, fresh, still
<1>4. CASE now = last /\ (~fresh \/ (still /\ b = a)) /\ ~CopyReports
  BY <1>1, <1>2, <1>3, <1>4 DEF L, M, N
<1>5. CASE now = last + 1 /\ (~fresh \/ (still /\ b = a + 1)) /\ ~CopyReports
  <2>1. CASE ~fresh
    <3>1. L = last
      BY <1>1, <1>2, <2>1
    <3>2. M >= now
      BY <1>1, <1>2
    <3>3. M >= L
      BY <1>1, <1>3, <1>5, <3>1, <3>2
    <3> QED
      BY <1>3, <1>5, <3>3 DEF L, M, N
  <2>2. CASE fresh
    <3>1. L = last + (N - a) /\ M = (last + 1) + (N - (a + 1))
      BY <1>2, <1>5, <2>2
    <3>2. M = L
      BY <1>1, <3>1
    <3> QED
      BY <1>3, <1>5, <3>2 DEF L, M, N
  <2> QED
    BY <2>1, <2>2
<1>6. CASE now + 1 = last /\ (~fresh \/ a = N) /\ CopyReports
  BY <1>1, <1>2, <1>3, <1>6 DEF L, M, N
<1>7. Copy => now = last + 1
  BY Copies DEF Copy, now, last
<1>8. CopyReports => now + 1 = last
  BY <1>1, Ends DEF CopyReports, now, last
<1>9. ASSUME OpenPipes \/ Skip \/ Fork \/ ForkFails \/ RunTool \/ StatusFails \/ ReadAnswer
      PROVE  now = last /\ ~CopyReports
  <2>1. now = last
    BY <1>9, Goes DEF now, last
  <2> QED
    BY <1>1, <1>8, <2>1
<1>10. CASE Sample \/ Resolve
  <2>1. /\ OpenPipes \/ Fork \/ ForkFails \/ RunTool
        /\ stats' = stats
    BY <1>10 DEF Sample, Resolve, output
  <2>2. now = last /\ ~CopyReports
    BY <1>9, <2>1
  <2>3. procs'[now].answers = me.answers
    BY <2>1, <2>2, GoesOn DEF last
  <2>4. procs'[now].pc # "status"
    <3>1. CASE OpenPipes
      BY <2>2, <3>1, OpensIs DEF last
    <3>2. CASE ~OpenPipes
      <4>1. ~Skip /\ ~StatusFails /\ ~ReadAnswer
        BY <2>1, <3>2 DEF Fork, ForkFails, RunTool, Skip, StatusFails, ReadAnswer
      <4> QED
        BY <2>1, <2>2, <3>2, <4>1, Goes DEF last
    <3> QED
      BY <3>1, <3>2
  <2>5. stats'[now] = own
    BY <2>1, <2>2, Owns DEF last
  <2> QED
    BY <1>4, <2>2, <2>3, <2>4, <2>5 DEF a, b, fresh, still
<1>11. CASE SampleCached
  <2>1. Skip /\ cached # {} /\ Len(me.answers) < Len(calls)
    BY <1>11 DEF SampleCached, Skip
  <2>2. own.head # << >>
    BY <2>1, AskedIs, Owns, CachedTakes DEF cached
  <2> QED
    BY <1>4, <1>9, <2>1, <2>2 DEF fresh
<1>12. CASE Copy
  <2>1. ExecFails /\ stats' = Append(stats, Blamed)
    BY <1>12 DEF Copy
  <2>2. now = last + 1 /\ procs'[now].pc = "replay" /\ b = a + 1
    <3>1. me = procs[last]
      BY Running DEF last
    <3> QED
      BY <2>1, <3>1, Copies DEF now, last, a, b
  <2>3. stats'[now].head = own.head
    <3>1. stats \in Seq(Stat) /\ Len(stats) = last /\ own \in Stat
      BY Owns DEF last
    <3>2. stats'[now] = Blamed
      BY <2>1, <2>2, <3>1
    <3> QED
      BY <3>1, <3>2 DEF Blamed, Stat
  <2>4. ~CopyReports
    BY <1>1, <1>8, <2>2
  <2> QED
    BY <1>5, <2>2, <2>3, <2>4 DEF fresh, still
<1>13. CASE Unresolved
  <2>1. me.pc = "status" /\ me.ret # 0
    BY <1>13 DEF Unresolved, StatusFails, Succeeds
  <2> QED
    BY <2>1, Owns DEF Counting
<1>14. CASE Resolved
  <2>1. ReadAnswer /\ me.pc = "status"
    BY <1>14 DEF Resolved, ReadAnswer
  <2> QED
    BY <1>4, <1>9, <2>1 DEF fresh
<1>15. CASE CopyReports
  <2>1. a = N
    BY <1>15 DEF CopyReports, CopyEnds, a, N
  <2> QED
    BY <1>6, <1>8, <1>15, <2>1
<1> QED
  BY <1>10, <1>11, <1>12, <1>13, <1>14, <1>15 DEF ReadPerfNext

\* The account before and after a step.
LEMMA TabledIs ==
  /\ Tabled <=>
       /\ Count(Row, files.processes) = Count(Header, files.processes)
       /\ ~done /\ canFork /\ canExec => Count(Header, files.processes) = 0
       /\ ~done /\ canFork /\ ~canExec =>
            LET tables == Count(Header, files.processes)
                most == tables + SumFunction(Most(Len(calls), procs))
            IN  /\ most <= 2 ^ Len(calls)
                /\ Distinct => most = 2 ^ Len(calls)
                /\ tables + Least(Len(calls), procs, stats) >= Len(calls) + 1
       /\ TablePerProcess
  /\ Tabled' <=>
       /\ Count(Row, files'.processes) = Count(Header, files'.processes)
       /\ ~done' /\ canFork' /\ canExec' => Count(Header, files'.processes) = 0
       /\ ~done' /\ canFork' /\ ~canExec' =>
            LET tables == Count(Header, files'.processes)
                most == tables + SumFunction(Most(Len(calls'), procs'))
            IN  /\ most <= 2 ^ Len(calls')
                /\ Distinct' => most = 2 ^ Len(calls')
                /\ tables + Least(Len(calls'), procs', stats') >= Len(calls') + 1
       /\ TablePerProcess'
BY DEF Tabled, Count

\* What the steps do to the files.
LEMMA TablesAre ==
  ASSUME Inv, Inv', Reported, Buffered, Tabled, ReadPerfNext
  PROVE  /\ Count(Header, files.processes) \in Nat
         /\ Count(Row, files'.processes) = Count(Header, files'.processes)
         /\ calls' = calls /\ canExec' = canExec /\ canFork' = canFork
         /\ ~Report => ~done'
         /\ CopyReports => ~canExec
         /\ Count(Header, files'.processes) =
              Count(Header, files.processes) + (IF CopyReports \/ Report THEN 1 ELSE 0)
<1>1. ~done
  BY Over
<1>2. Count(Header, files.processes) \in Nat
      /\ Count(Row, files.processes) = Count(Header, files.processes)
  BY <1>1, Buffers, Counts DEF Tabled
<1>3. CASE CopyReports \/ Report
  <2>1. Closed
    BY <1>3 DEF CopyReports, Report
  <2>2. /\ Count(Header, files'.processes) = Count(Header, files.processes) + 1
        /\ Count(Row, files'.processes) = Count(Row, files.processes) + 1
    BY <1>1, <2>1, Closes
  <2>3. calls' = calls /\ canExec' = canExec /\ canFork' = canFork
    BY <1>3 DEF CopyReports, Report, CopyEnds, vars, system, canExec, canFork
  <2>4. CopyReports => ~canExec
    BY Ends DEF CopyReports
  <2>5. ~Report => ~done'
    BY <1>1, <1>3 DEF CopyReports
  <2> QED
    BY <1>2, <1>3, <2>2, <2>3, <2>4, <2>5
<1>4. CASE ~CopyReports /\ ~Report
  <2>1. files'.processes = files.processes
    <3>1. CASE Sample \/ SampleCached
      BY <1>1, <3>1, SampleIs, Logs
    <3>2. CASE ~(Sample \/ SampleCached)
      BY <1>4, <3>2 DEF ReadPerfNext, Resolve, Unresolved, Resolved, Copy, output
    <3> QED
      BY <3>1, <3>2
  <2>2. /\ calls' = calls /\ canExec' = canExec /\ canFork' = canFork /\ ~done'
    <3>1. UNCHANGED system
      BY <1>4 DEF ReadPerfNext, Sample, SampleCached, Copy, Resolve, Unresolved, Resolved,
           OpenPipes, Skip, Fork, ForkFails, RunTool, ExecFails, StatusFails, ReadAnswer, Become
    <3>2. done' = done
      BY <1>4 DEF ReadPerfNext, Sample, SampleCached, Copy, Resolve, Unresolved, Resolved, output
    <3> QED
      BY <1>1, <3>1, <3>2 DEF system, canExec, canFork
  <2>3. Count(Row, files'.processes) = Count(Row, files.processes)
        /\ Count(Header, files'.processes) = Count(Header, files.processes)
    BY <2>1
  <2> QED
    BY <1>2, <1>4, <2>2, <2>3
<1> QED
  BY <1>3, <1>4

LEMMA TabledStep ==
  ASSUME Inv, Inv', Counting, Reported, Buffered, Tabled, ReadPerfNext
  PROVE  Tabled'
<1> DEFINE N == Len(calls)
           all == 2 ^ N
           h == Count(Header, files.processes)
           g == Count(Header, files'.processes)
           S == SumFunction(Most(N, procs))
           T == SumFunction(Most(N, procs'))
           L == Least(N, procs, stats)
           M == Least(N, procs', stats')
<1>1. ~done
  BY Over
<1>2. /\ h \in Nat /\ calls' = calls /\ canExec' = canExec /\ canFork' = canFork
      /\ Count(Row, files'.processes) = g
      /\ g = h + (IF CopyReports \/ Report THEN 1 ELSE 0)
      /\ ~Report => ~done'
      /\ CopyReports => ~canExec
  BY TablesAre
<1>3. /\ canFork /\ canExec => h = 0
      /\ canFork /\ ~canExec =>
           /\ h + S <= all /\ (Distinct => h + S = all)
           /\ h + L >= N + 1
  BY <1>1, TabledIs
<1>4. N \in Nat /\ Distinct' = Distinct /\ Len(calls') = N
  BY <1>2 DEF Inv, Types, Distinct
<1>5. all \in Nat
  BY <1>4, PowerIs
<1>6. CASE ~Report
  <2>1. ASSUME canFork, ~canExec
        PROVE  /\ g + T <= all /\ (Distinct => g + T = all)
               /\ g + M >= N + 1
    <3>1. /\ S \in Nat /\ T \in Nat
          /\ CopyReports => S = T + 1
          /\ ~CopyReports => T <= S /\ (Distinct => T = S)
      BY <1>6, <2>1, MostStep
    <3>2. /\ L \in Nat /\ M \in Nat
          /\ CopyReports => M + 1 >= L
          /\ ~CopyReports => M >= L
      BY <1>6, <2>1, LeastStep
    <3>3. h + S <= all /\ (Distinct => h + S = all) /\ h + L >= N + 1
      BY <1>3, <2>1
    <3> HIDE DEF N, all, h, g, S, T, L, M
    <3>4. CASE CopyReports
      <4>1. g = h + 1
        BY <1>2, <3>4
      <4> QED
        BY <1>2, <1>4, <1>5, <3>1, <3>2, <3>3, <3>4, <4>1
    <3>5. CASE ~CopyReports
      <4>1. g = h
        BY <1>2, <1>6, <3>5
      <4> QED
        BY <1>2, <1>4, <1>5, <3>1, <3>2, <3>3, <3>5, <4>1
    <3> QED
      BY <3>4, <3>5
  <2>2. canFork /\ canExec => g = 0
    BY <1>2, <1>3, <1>6
  <2>3. TablePerProcess'
    BY <1>2, <1>6 DEF TablePerProcess
  <2> QED
    BY <1>2, <1>4, <1>6, <2>1, <2>2, <2>3, TabledIs
<1>7. CASE Report
  <2>1. /\ done' /\ Len(procs) = 1 /\ me.pc = "replay" /\ Len(me.answers) = N
    BY <1>7 DEF Report
  <2>2. me = procs[1] /\ Standing(N, procs)
    BY <2>1, Running, Stands
  <2>3. S = 1
    <3>1. DOMAIN Most(N, procs) = 1 .. 1 /\ Most(N, procs)[1] = 2 ^ Left(N, procs, 1)
      BY <2>1, <2>2, MostIs
    <3>2. Left(N, procs, 1) = 0
      <4>1. me.pc # "status" /\ ~(1 < Len(procs))
        BY <2>1
      <4>2. Left(N, procs, 1) = N - Len(me.answers) - 0
        BY <2>2, <4>1 DEF Left
      <4> QED
        BY <1>4, <2>1, <4>2
    <3>3. 2 ^ 0 = 1 /\ 1 .. 1 = {1}
      OBVIOUS
    <3>4. DOMAIN Most(N, procs) = {1} /\ Most(N, procs)[1] = 1
      BY <3>1, <3>2, <3>3
    <3> QED
      BY <3>4, SumOne
  <2>4. L = 1
    <3>1. N - Len(me.answers) = 0
      BY <1>4, <2>1
    <3> QED
      BY <2>1, <2>2, <3>1 DEF Least
  <2>5. g = h + 1
    BY <1>2, <1>7
  <2> HIDE DEF N, all, h, g, S, L
  <2>6. canFork /\ canExec => g = 1
    BY <1>3, <2>5
  <2>7. canFork /\ ~canExec =>
          /\ N + 1 <= g /\ g <= all
          /\ Distinct => g = all
    BY <1>2, <1>3, <1>4, <1>5, <2>3, <2>4, <2>5
  <2>8. TablePerProcess'
    BY <1>2, <1>4, <2>6, <2>7 DEF TablePerProcess, Count, g, N, all
  <2> QED
    BY <1>2, <2>1, <2>8, TabledIs DEF g
<1> QED
  BY <1>6, <1>7

-----------------------------------------------------------------------------

LEMMA OutputInit == ReadPerfInit => OutputInv
<1> SUFFICES ASSUME ReadPerfInit PROVE OutputInv
  OBVIOUS
<1> DEFINE header == [overview |-> <<Header>>, processes |-> <<Header>>]
           stat == [head |-> << >>, error |-> [samples |-> 0, period |-> 0]]
           N == Len(calls)
<1>1. /\ files = [overview |-> << >>, processes |-> << >>] /\ buffers = <<header>> /\ ~done
      /\ stats = <<stat>> /\ procs = <<readperf>> /\ Inv
  BY InitInv DEF ReadPerfInit, Init
<1>2. <<Header>> \in Seq(Int) /\ << >> \in Seq(Int) /\ header \in Output
  BY DEF Header, Output
<1>n. N \in Nat
  BY <1>1 DEF Inv, Types
<1>3. /\ Len(procs) = 1 /\ DOMAIN procs = {1} /\ procs[1] = readperf
      /\ buffers \in Seq(Output) /\ Len(buffers) = 1 /\ buffers[1] = header
  <2> HIDE DEF header
  <2> QED
    BY <1>1, <1>2
<1>4. Reported
  BY <1>1 DEF Reported, ResultsComplete
<1>5. Buffered
  BY <1>1, <1>2, <1>3 DEF Buffered, Output
<1>6. Overviewed
  <2>1. Logged(readperf) = 0
    BY DEF Logged, readperf
  <2>2. Seen(1) = <<Header>>
    BY <1>1, <1>2, <1>3 DEF Seen
  <2>3. LinesTo(0) = <<Header>>
    BY DEF LinesTo, Header
  <2> QED
    BY <1>1, <1>3, <2>1, <2>2, <2>3 DEF Overviewed, OverviewComplete
<1>7. stat \in Stat /\ stat.head = << >> /\ stat.error.samples = 0
  <2>1. << >> \in Seq(Entry)
    OBVIOUS
  <2> QED
    BY <2>1 DEF Stat, Tally
<1>8. Total(<< >>) = 0 /\ Known(<< >>) = {}
  <2>1. DOMAIN Counted(<< >>) = {}
    BY DEF Counted
  <2>2. Total(<< >>) = SumFunctionOnSet(Counted(<< >>), {})
    BY <2>1 DEF Total, SumFunction
  <2>3. Total(<< >>) = 0
    BY <2>2, SumOnEmpty
  <2> QED
    BY <2>3 DEF Known
<1>9. Tallied(calls, readperf, stat)
  BY <1>7, <1>8 DEF Tallied, readperf
<1> HIDE DEF stat
<1>10. stats \in Seq(Stat) /\ Len(stats) = 1 /\ stats[1] = stat
  BY <1>1, <1>7
<1>11. Counting
  <2>1. readperf.pc # "status"
    BY DEF readperf
  <2> QED
    BY <1>3, <1>7, <1>9, <1>10, <2>1 DEF Counting
<1>12. Tabled
  <2>1. Count(Header, files.processes) = 0 /\ Count(Row, files.processes) = 0
    BY <1>1, CountNone
  <2>2. 2 ^ N \in Nat
    BY <1>n, PowerIs
  <2>3. SumFunction(Most(N, procs)) = 2 ^ N
    <3>1. Standing(N, procs)
      BY <1>1, Stands
    <3>2. DOMAIN Most(N, procs) = 1 .. 1 /\ Most(N, procs)[1] = 2 ^ Left(N, procs, 1)
      BY <1>3, <3>1, MostIs
    <3>3. Left(N, procs, 1) = N
      BY <1>3, <1>n DEF Left, readperf
    <3>4. 1 .. 1 = {1}
      OBVIOUS
    <3> HIDE DEF N
    <3> QED
      BY <2>2, <3>2, <3>3, <3>4, SumOne
  <2>4. Least(N, procs, stats) = 1 + N
    BY <1>3, <1>7, <1>10, <1>n DEF Least, readperf
  <2> HIDE DEF N
  <2> QED
    BY <1>1, <1>n, <2>1, <2>2, <2>3, <2>4, TabledIs DEF TablePerProcess, N
<1> QED
  BY <1>4, <1>5, <1>6, <1>11, <1>12 DEF OutputInv

LEMMA OutputHolds == ReadPerfSpec => []OutputInv
<1>1. Inv /\ Inv' /\ OutputInv /\ [ReadPerfNext]_allVars => OutputInv'
  <2>1. ASSUME Inv, Inv', OutputInv, ReadPerfNext PROVE OutputInv'
    BY <2>1, CountingStep, ReportedStep, BufferedStep, OverviewedStep, TabledStep DEF OutputInv
  <2>2. ASSUME OutputInv, UNCHANGED allVars PROVE OutputInv'
    <3>1. /\ calls' = calls /\ execv' = execv /\ fork' = fork /\ procs' = procs
          /\ files' = files /\ buffers' = buffers /\ stats' = stats
          /\ results' = results /\ done' = done
      BY <2>2 DEF allVars, vars, system, output
    <3>2. canExec' = canExec /\ canFork' = canFork
      BY <3>1 DEF canExec, canFork
    <3>3. Counting' /\ Reported' /\ Buffered'
      BY <2>2, <3>1, <3>2 DEF OutputInv, Counting, Reported, ResultsComplete, Buffered
    <3>4. Overviewed'
      <4>1. Lines' = Lines /\ Seen(Len(procs))' = Seen(Len(procs))
        BY <3>1 DEF Lines, Seen
      <4>2. OverviewComplete' /\ (InOrder(files.overview)' <=> InOrder(files.overview))
        BY <2>2, <3>1, <3>2, <4>1 DEF OutputInv, Overviewed, OverviewComplete, InOrder
      <4> QED
        BY <2>2, <3>1, <3>2, <4>1, <4>2 DEF OutputInv, Overviewed
    <3>5. Tabled'
      <4>1. Distinct' = Distinct
        BY <3>1 DEF Distinct
      <4>2. TablePerProcess'
        BY <2>2, <3>1, <3>2, <4>1 DEF OutputInv, Tabled, TablePerProcess, Count
      <4> QED
        BY <2>2, <3>1, <3>2, <4>1, <4>2, TabledIs DEF OutputInv
    <3> QED
      BY <3>3, <3>4, <3>5 DEF OutputInv
  <2> QED
    BY <2>1, <2>2
<1> QED
  BY <1>1, OutputInit, InvHolds, PTL DEF ReadPerfSpec

(***************************************************************************)
(* However many copies have taken a sample for a failure, and written that *)
(* to results.csv, the table that stays has every sample of the recording  *)
(* once; without addr2line it has none of the failures of the copies.      *)
(***************************************************************************)
THEOREM EverySampleCounted == ReadPerfSpec => []ResultsComplete
<1>1. OutputInv => ResultsComplete
  BY DEF OutputInv, Reported
<1> QED
  BY <1>1, OutputHolds, PTL

(***************************************************************************)
(* No record is missing from overview.csv, and the first of each come in   *)
(* the order of the replay, for any number of samples, copies and lines a  *)
(* stream buffers; while there are no copies none is repeated.             *)
(***************************************************************************)
THEOREM EveryRecordLogged == ReadPerfSpec => []OverviewComplete
<1>1. OutputInv => OverviewComplete
  BY DEF OutputInv, Overviewed
<1> QED
  BY <1>1, OutputHolds, PTL

(***************************************************************************)
(* Without addr2line, n samples of different addresses leave two to the    *)
(* power of n tables in processes.csv, and any n samples more than n and   *)
(* not more than that, for every n and every size of the caches.           *)
(***************************************************************************)
THEOREM TablesAreBounded == ReadPerfSpec => []TablePerProcess
<1>1. OutputInv => TablePerProcess
  BY DEF OutputInv, Tabled
<1> QED
  BY <1>1, OutputHolds, PTL
=============================================================================

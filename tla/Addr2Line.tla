----------------------------- MODULE Addr2Line -----------------------------
(***************************************************************************)
(* decode/addr2line.c: every call of get_func opens three pipes, forks a   *)
(* child that becomes addr2line, waits for it and reads two words.  It is  *)
(* called for a sample whose function its caller does not know already.    *)
(*                                                                         *)
(* The processes are a stack: a process waits for the child it has forked, *)
(* so only the last one runs.  When execv fails, the child returns from    *)
(* exec_redirect and from get_func and goes on as a second readperf.       *)
(*                                                                         *)
(* Names fit into tmp (1024 bytes), pipe and fdopen succeed, and what a    *)
(* copy prints and complains of fits into the pipes.                       *)
(***************************************************************************)
EXTENDS Integers, Sequences, SequencesExt

CONSTANTS
  Addresses,  \* pairs of address and binary, a sample each
  MaxCalls,   \* bound: samples of one run
  Tool,       \* what addr2line does for an address: its exit status, the
              \* words it prints, the bytes it prints and complains (external)
  Overview,   \* the words func_print_overview prints first
  PipeSize    \* bytes a pipe takes before a writer has to wait

\* What fscanf reads with %s, by the parts between its colons.
Word == Seq(STRING) \ {<< >>}

ASSUME Addr2LineAssumption ==
  /\ MaxCalls \in Nat /\ PipeSize \in Nat
  /\ Tool \in [Addresses -> [status : Nat, words : Seq(Word), printed : Nat, complained : Nat]]
  /\ Overview \in Seq(Word)

VARIABLES
  calls,    \* the addresses of the samples, in the order of the replay
  execv,    \* "works": /usr/bin/addr2line can be run; or "fails"
  fork,     \* "works" always; or "may fail"
  procs     \* readperf and its copies, the running one last

system == <<calls, execv, fork>>
canExec == execv = "works"
canFork == fork = "works"
vars == <<system, procs>>

None == <<"none">>        \* get_func returned false
NotAsked == <<"cached">>  \* the caller knew the function and did not call

Pipes == 6  \* descriptors of three pipes

-----------------------------------------------------------------------------
(* A process: where it is in get_func, the answers it has got, the         *)
(* descriptors it has opened, the words in its pstdout, and the value      *)
(* exec_redirect returns.                                                  *)

readperf == [pc |-> "replay", answers |-> << >>, fds |-> 0, pstdout |-> << >>, ret |-> 0]

me == Last(procs)

Become(p) == procs' = [procs EXCEPT ![Len(procs)] = p] /\ UNCHANGED system

Answered(p, answer) ==
  [p EXCEPT !.pc = "replay", !.answers = Append(@, answer), !.fds = @ - Pipes,
            !.pstdout = << >>]

\* The failure path leaves the pipes open.
Failed_Leaks(p) ==
  [p EXCEPT !.pc = "replay", !.answers = Append(@, None), !.pstdout = << >>]

\* _err_handler.
Failed(p) == Answered(p, None)

-----------------------------------------------------------------------------
(* get_func.                                                               *)

OpenPipes ==
  /\ me.pc = "replay"
  /\ Len(me.answers) < Len(calls)
  /\ Become([me EXCEPT !.pc = "fork", !.fds = @ + Pipes])

\* force_entry has found the address in its cache.
Skip ==
  /\ me.pc = "replay"
  /\ Len(me.answers) < Len(calls)
  /\ Become([me EXCEPT !.answers = Append(@, NotAsked)])

\* The parent waits; the child is addr2line, or will fail to become it.
Fork ==
  /\ me.pc = "fork"
  /\ Become([me EXCEPT !.pc = "wait"])

\* trysys returns false, which is 0, from a function that returns a status.
ForkFails ==
  /\ ~canFork
  /\ me.pc = "fork"
  /\ Become([me EXCEPT !.pc = "status", !.ret = 0])

asked == calls[Len(me.answers) + 1]

tool == Tool[asked]

\* addr2line ends when its output and its complaints fit into the pipes.
RunTool ==
  /\ canExec
  /\ me.pc = "wait"
  /\ tool.printed <= PipeSize /\ tool.complained <= PipeSize
  /\ Become([me EXCEPT !.pc = "status", !.ret = tool.status, !.pstdout = tool.words])

\* A parent that does not wait for the child.
ExecFails_NotWaited ==
  /\ ~canExec
  /\ me.pc = "wait"
  /\ procs' = Front(procs) \o <<[me EXCEPT !.pc = "status", !.ret = 1], Failed(me)>>
  /\ UNCHANGED system

\* The child gets 1 from exec_redirect and takes the failure path.
ExecFails ==
  /\ ~canExec
  /\ me.pc = "wait"
  /\ procs' = Append(procs, Failed(me))
  /\ UNCHANGED system

\* A parent that looks at nothing but the output.
Succeeds_Always(status) == TRUE

Succeeds(status) == status = 0

StatusFails ==
  /\ me.pc = "status"
  /\ ~Succeeds(me.ret)
  /\ Become(Failed(me))

\* The line number stays.
Cut_WholeWord(word) == word

\* The file ends at its first colon; a word is the sequence of its parts.
Cut(word) == <<Head(word)>>

answer == <<me.pstdout[1], Cut(me.pstdout[2])>>

\* The first fscanf skips the blank behind the function and so waits for the
\* file; it waits forever, since the process itself holds the writing end.
ReadAnswer ==
  /\ me.pc = "status"
  /\ Succeeds(me.ret)
  /\ Len(me.pstdout) >= 2
  /\ Become(Answered(me, answer))

\* A copy has replayed everything: it prints its overview to its pstdout,
\* which is a pipe of its parent, and returns 0 from main.
CopyEnds ==
  /\ Len(procs) > 1
  /\ me.pc = "replay" /\ Len(me.answers) = Len(calls)
  /\ LET rest == Front(procs)
     IN  procs' = [rest EXCEPT ![Len(rest)].pc = "status", ![Len(rest)].ret = 0,
                               ![Len(rest)].pstdout = Overview]
  /\ UNCHANGED system

Init ==
  /\ calls \in BoundedSeq(Addresses, MaxCalls)
  /\ execv \in {"works", "fails"} /\ fork \in {"works", "may fail"}
  /\ procs = <<readperf>>

Next ==
  \/ OpenPipes \/ Skip \/ Fork \/ ForkFails \/ RunTool \/ ExecFails
  \/ StatusFails \/ ReadAnswer \/ CopyEnds

Spec == Init /\ [][Next]_vars

-----------------------------------------------------------------------------
(* Properties.                                                             *)

\* What get_func may answer for an address: the words of addr2line without
\* the line number, or a failure when there is reason for one.
Answers(a) ==
  (IF Tool[a].status = 0 THEN {<<Tool[a].words[1], <<Tool[a].words[2][1]>> >>} ELSE {})
    \cup (IF canExec /\ canFork /\ Tool[a].status = 0 THEN {} ELSE {None})

\* addr2line never has more to say than a pipe holds.
Fits == \A a \in ToSet(calls) : Tool[a].printed <= PipeSize /\ Tool[a].complained <= PipeSize

(***************************************************************************)
(* Processes stand where get_func can stand, and all but the running one   *)
(* wait for a child.                                                       *)
(***************************************************************************)
TypeOK ==
  /\ procs # << >>
  /\ \A n \in DOMAIN procs :
       /\ procs[n].pc \in {"replay", "fork", "wait", "status"}
       /\ n < Len(procs) => procs[n].pc = "wait"
       /\ Len(procs[n].answers) <= Len(calls)

(***************************************************************************)
(* While addr2line can be run, every answer is the one it gives for this   *)
(* very address, without the line number, or a failure: an earlier call,   *)
(* failed or not, leaves nothing behind.                                   *)
(***************************************************************************)
AnswersAreTools ==
  canExec =>
    \A n \in DOMAIN me.answers : me.answers[n] \in Answers(calls[n]) \cup {NotAsked}

(***************************************************************************)
(* "Returns an source file name and function name to an instruction        *)
(* pointer / binary name pair" (addr2line.c:56-57), whether addr2line can  *)
(* be run or not.                                                          *)
(***************************************************************************)
AnswersAreAlwaysTools ==
  \A n \in DOMAIN me.answers : me.answers[n] \in Answers(calls[n]) \cup {NotAsked}

(***************************************************************************)
(* Between two calls no pipe is open, whichever way the last call ended:   *)
(* a replay makes a call per sample and descriptors are limited.           *)
(***************************************************************************)
PipesClosed == me.pc = "replay" => me.fds = 0
=============================================================================

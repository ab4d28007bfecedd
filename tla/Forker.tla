-------------------------------- MODULE Forker --------------------------------
(***************************************************************************)
(* tools/forker.c: every process hands a part of the forks that are left   *)
(* to a child, runs a command and waits for the child, until it has no     *)
(* forks left.  The system refuses a process when it has too many of them: *)
(* fork then fails and popen returns NULL.                                 *)
(*                                                                         *)
(* rand is any number.  The command a popen starts ends by itself.         *)
(***************************************************************************)
EXTENDS Integers, Sequences, FiniteSets, Functions

CONSTANTS
  Wanted,    \* what the argument of the program may be
  WordSize,  \* an unsigned int counts modulo this, 2^32 in the program
  Limit      \* processes the system grants, the zombies among them

ASSUME ForkerAssumption ==
  /\ WordSize \in Nat \ {0} /\ Limit \in Nat \ {0}
  /\ Wanted \subseteq 0 .. WordSize - 1

VARIABLES
  wanted,  \* the argument
  procs    \* the processes in the order they were made

vars == <<wanted, procs>>

Ended == {"done", "divided", "failed", "crashed"}

Nobody == 0

\* child is the process waitpid has yet to be called for.
Process(pc, forks, parent) == [pc |-> pc, forks |-> forks, parent |-> parent, child |-> Nobody]

Ids == DOMAIN procs

Alive(p) == p \in Ids /\ procs[p].pc \notin Ended

Zombie(p) == procs[p].pc \in Ended /\ Alive(procs[p].parent) /\ procs[procs[p].parent].child = p

Full ==
  Cardinality({p \in Ids : Alive(p) \/ Zombie(p)})
    + Cardinality({p \in Ids : procs[p].pc = "command"}) >= Limit

Become(p, pc) == procs' = [procs EXCEPT ![p].pc = pc]

-----------------------------------------------------------------------------
(* The loop of main.                                                       *)

OneLess(forks) == (forks - 1) % WordSize

\* The loop is left before the division.
Divide_Checked(p) ==
  /\ procs[p].pc = "round"
  /\ OneLess(procs[p].forks) = 0
  /\ procs' = [procs EXCEPT ![p].pc = "done", ![p].forks = 0]

\* rand() % 0: the process is killed.
Divide(p) ==
  /\ procs[p].pc = "round"
  /\ OneLess(procs[p].forks) = 0
  /\ procs' = [procs EXCEPT ![p].pc = "divided", ![p].forks = 0]

\* Both get the forks that are left.
ChildForks_All(forks, parent_forks) == forks

\* The fork that is being made is handed on, too.
ChildForks_AndThis(forks, parent_forks) == forks + 1 - parent_forks

ChildForks(forks, parent_forks) == forks - parent_forks

Fork(p) ==
  LET forks == OneLess(procs[p].forks)
      child == Len(procs) + 1
  IN  /\ procs[p].pc = "round"
      /\ forks # 0
      /\ ~Full
      /\ \E parent_forks \in 0 .. forks - 1 :
           procs' = Append(
             [procs EXCEPT ![p].pc = "popen", ![p].forks = parent_forks, ![p].child = child],
             Process("popen", ChildForks(forks, parent_forks), p))

\* exit( -1 ).
ForkFails(p) ==
  LET forks == OneLess(procs[p].forks)
  IN  /\ procs[p].pc = "round"
      /\ forks # 0
      /\ Full
      /\ procs' = [procs EXCEPT ![p].pc = "failed", ![p].forks = forks]

Popen(p) == procs[p].pc = "popen" /\ ~Full /\ Become(p, "command")

\* The command is tried until it runs.
PopenFails_Retried(p) == procs[p].pc = "popen" /\ Full /\ Become(p, "popen")

\* pclose( NULL ).
PopenFails(p) == procs[p].pc = "popen" /\ Full /\ Become(p, "crashed")

\* while( forks > 0 ).
Again(p) == IF procs[p].forks > 0 THEN "round" ELSE "done"

\* Nobody waits for a child.
Pclose_NoWait(p) == procs[p].pc = "command" /\ Become(p, Again(p))

Pclose(p) ==
  /\ procs[p].pc = "command"
  /\ Become(p, IF procs[p].child = Nobody THEN Again(p) ELSE "wait")

Waitpid(p) ==
  /\ procs[p].pc = "wait"
  /\ ~Alive(procs[p].child)
  /\ procs' = [procs EXCEPT ![p].pc = Again(p), ![p].child = Nobody]

Init ==
  /\ wanted \in Wanted
  /\ procs = <<Process("round", wanted, Nobody)>>

Step(p) ==
  /\ \/ Divide(p) \/ Fork(p) \/ ForkFails(p)
     \/ Popen(p) \/ PopenFails(p) \/ Pclose(p) \/ Waitpid(p)
  /\ UNCHANGED wanted

Next == \E p \in Ids : Step(p)

Spec == Init /\ [][Next]_vars

\* A process that has more to do is scheduled; there are at most WordSize of them.
FairSpec == Spec /\ \A p \in 1 .. WordSize : WF_vars(p \in Ids /\ Step(p))

-----------------------------------------------------------------------------
(* Properties.                                                             *)

TypeOK ==
  /\ wanted \in Wanted
  /\ procs \in Seq([pc : {"round", "popen", "command", "wait"} \cup Ended,
                    forks : 0 .. WordSize - 1, parent : Nat, child : Nat])

\* The forks a process is about to make: zero wraps around.
Left(forks) == IF forks = 0 THEN WordSize ELSE forks

\* What a process has still to make of them, and the one that came to nothing
\* in it.
Share(p) ==
  LET pc == procs[p].pc
      forks == procs[p].forks
  IN  IF pc = "round" THEN Left(forks)
      ELSE IF pc \in {"divided", "failed"} THEN forks + 1
      ELSE forks

(***************************************************************************)
(* The forks that are desired are made, or still to be made by some        *)
(* process, or lost with a process that has come to a bad end: one with    *)
(* each division by zero, what it had left with each other.  None is made  *)
(* by both sides of a fork.                                                *)
(***************************************************************************)
ForksAccount == (Len(procs) - 1) + SumFunction([p \in Ids |-> Share(p)]) = Left(wanted)

(***************************************************************************)
(* No process outlives its parent unless the parent has crashed in pclose. *)
(***************************************************************************)
OrphansOfCrashes ==
  \A p \in Ids : Alive(p) /\ procs[p].parent # Nobody =>
    Alive(procs[p].parent) \/ procs[procs[p].parent].pc = "crashed"

(***************************************************************************)
(* There is no good end for all of them: the last fork of somebody is      *)
(* always a division by zero, or the system had no process left.           *)
(***************************************************************************)
SomebodyFails ==
  (\A p \in Ids : ~Alive(p)) => \E p \in Ids : procs[p].pc \in {"divided", "failed", "crashed"}

(***************************************************************************)
(* All processes come to an end, also when the system has none left for    *)
(* another child or command.                                               *)
(***************************************************************************)
AllEnd == <>(\A p \in Ids : ~Alive(p))
=============================================================================

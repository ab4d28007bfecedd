------------------------------ MODULE Overflow ------------------------------
(***************************************************************************)
(* tools/overflow.c: main starts threads until the system refuses, then    *)
(* lets them go; threads and main share killid, started and count without  *)
(* a lock.  A read or write of a shared variable is a step.                *)
(***************************************************************************)
EXTENDS Integers

CONSTANT MaxThreads  \* bound: threads the system may grant

ASSUME OverflowAssumption == MaxThreads \in Nat

Threads == 0 .. MaxThreads - 1

VARIABLES
  granted,                 \* pthread_create fails after so many threads
  killid, started, count,  \* shared
  main,                    \* where main is
  thread,                  \* where each thread is
  id                       \* local to each thread

vars == <<granted, killid, started, count, main, thread, id>>

NoId == -1

Init ==
  /\ granted \in 0 .. MaxThreads
  /\ killid = -1 /\ started = 0 /\ count = 0
  /\ main = "create"
  /\ thread = [t \in Threads |-> "none"]
  /\ id = [t \in Threads |-> NoId]

-----------------------------------------------------------------------------
(* The threads.                                                            *)

ReadId(t) ==
  /\ thread[t] = "new"
  /\ id' = [id EXCEPT ![t] = count]
  /\ thread' = [thread EXCEPT ![t] = "report"]
  /\ UNCHANGED <<granted, killid, started, count, main>>

Report(t) ==
  /\ thread[t] = "report"
  /\ started' = 1
  /\ thread' = [thread EXCEPT ![t] = "loop"]
  /\ UNCHANGED <<granted, killid, count, main, id>>

LeaveLoop(t) ==
  /\ thread[t] = "loop"
  /\ killid = id[t]
  /\ thread' = [thread EXCEPT ![t] = "leave"]
  /\ UNCHANGED <<granted, killid, started, count, main, id>>

ReportEnd(t) ==
  /\ thread[t] = "leave"
  /\ started' = 2
  /\ thread' = [thread EXCEPT ![t] = "exit"]
  /\ UNCHANGED <<granted, killid, count, main, id>>

\* Until it has returned, the thread has its place in the system.
Exit(t) ==
  /\ thread[t] = "exit"
  /\ thread' = [thread EXCEPT ![t] = "ended"]
  /\ UNCHANGED <<granted, killid, started, count, main, id>>

-----------------------------------------------------------------------------
(* main.                                                                   *)

\* main does not wait for the thread.
Create_NoWait ==
  /\ main = "create"
  /\ count < granted
  /\ thread' = [thread EXCEPT ![count] = "new"]
  /\ main' = "reset"
  /\ UNCHANGED <<granted, killid, started, count, id>>

\* count has the number of threads: main creates the next one.
Create ==
  /\ main = "create"
  /\ count < granted
  /\ thread' = [thread EXCEPT ![count] = "new"]
  /\ main' = "await"
  /\ UNCHANGED <<granted, killid, started, count, id>>

Await ==
  /\ main = "await"
  /\ started # 0
  /\ main' = "reset"
  /\ UNCHANGED <<granted, killid, started, count, thread, id>>

Reset ==
  /\ main = "reset"
  /\ started' = 0
  /\ main' = "count"
  /\ UNCHANGED <<granted, killid, count, thread, id>>

CountUp ==
  /\ main = "count"
  /\ count' = count + 1
  /\ main' = "create"
  /\ UNCHANGED <<granted, killid, started, thread, id>>

\* Numbers from one on.
CreateFails_FromOne ==
  /\ main = "create"
  /\ count = granted
  /\ killid' = 1
  /\ main' = "kill"
  /\ UNCHANGED <<granted, started, count, thread, id>>

CreateFails ==
  /\ main = "create"
  /\ count = granted
  /\ killid' = 0
  /\ main' = "kill"
  /\ UNCHANGED <<granted, started, count, thread, id>>

\* Any report ends the wait.
Killed_Any ==
  /\ main = "kill"
  /\ started # 1
  /\ main' = "reset killed"
  /\ UNCHANGED <<granted, killid, started, count, thread, id>>

Killed ==
  /\ main = "kill"
  /\ started = 2
  /\ main' = "reset killed"
  /\ UNCHANGED <<granted, killid, started, count, thread, id>>

ResetKilled ==
  /\ main = "reset killed"
  /\ started' = 0
  /\ main' = "next"
  /\ UNCHANGED <<granted, killid, count, thread, id>>

\* killid++; the loop ends at 1, and main goes on to run the commands.
NextKill ==
  /\ main = "next"
  /\ killid' = killid + 1
  /\ main' = "commands"
  /\ UNCHANGED <<granted, started, count, thread, id>>

Thread(t) == ReadId(t) \/ Report(t) \/ LeaveLoop(t) \/ ReportEnd(t) \/ Exit(t)

Main ==
  \/ Create \/ Await \/ Reset \/ CountUp \/ CreateFails
  \/ Killed \/ ResetKilled \/ NextKill

Next == Main \/ \E t \in Threads : Thread(t)

Spec == Init /\ [][Next]_vars

\* The threads are scheduled by the system; their loops poll.
FairSpec == Spec /\ WF_vars(Main) /\ \A t \in Threads : WF_vars(Thread(t))

-----------------------------------------------------------------------------
(* Properties.                                                             *)

(***************************************************************************)
(* Every thread has read its own number, although all of them are handed   *)
(* the address of the one counter main goes on to increment.               *)
(***************************************************************************)
OwnNumber ==
  \A t \in Threads :
    thread[t] \in {"report", "loop", "leave", "exit", "ended"} => id[t] = t

(***************************************************************************)
(* main goes on to the commands on the report of the very thread it has    *)
(* asked to go, which is on its way out then: no report of a start is      *)
(* taken for one of an end, and until killid moves on nobody else leaves,  *)
(* nor does anybody from number two on ever.  The thread need not be gone: *)
(* it reports first and returns afterwards.                                *)
(***************************************************************************)
KilledHasLeft ==
  /\ main \in {"reset killed", "next", "commands"} => thread[0] \in {"exit", "ended"}
  /\ \A t \in Threads : thread[t] \in {"leave", "exit", "ended"} => t <= killid /\ t <= 1

(***************************************************************************)
(* Neither handshake loses a report: main gets to the commands, unless     *)
(* the system grants not even one thread.  Then there is nobody to report  *)
(* an end, and main polls started forever.                                 *)
(***************************************************************************)
CommandsRun ==
  /\ granted > 0 => <>(main = "commands")
  /\ granted = 0 => <>[](main = "kill")
=============================================================================

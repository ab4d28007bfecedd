--------------------------- MODULE OverflowProofs ---------------------------
(***************************************************************************)
(* Theorems about Overflow for any number of threads.                      *)
(***************************************************************************)
EXTENDS Overflow, TLAPS

Creating == {"create", "await", "reset", "count"}
Killing == {"kill", "reset killed", "next", "commands"}
Leaving == {"leave", "exit", "ended"}
Running == {"report", "loop"} \cup Leaving

Types ==
  /\ granted \in 0 .. MaxThreads
  /\ count \in 0 .. granted
  /\ killid \in Int
  /\ started \in {0, 1, 2}
  /\ main \in Creating \cup Killing
  /\ thread \in [Threads -> {"none", "new"} \cup Running]
  /\ id \in [Threads -> Int]

\* The handshake of main with the thread it has created last.
Handshake ==
  /\ main \in {"create", "count"} => started = 0
  /\ main = "await" =>
       /\ count < granted
       /\ \/ started = 0 /\ thread[count] \in {"new", "report"}
          \/ started = 1 /\ thread[count] = "loop"
  /\ main \in {"reset", "count"} => count < granted /\ thread[count] = "loop"

\* Nobody leaves before main has created all threads.
NobodyLeaves ==
  main \in Creating => killid = -1 /\ \A t \in Threads : thread[t] \notin Leaving

\* A thread that has not reported is the one main waits for.
NewIsLast ==
  \A t \in Threads : thread[t] \in {"new", "report"} => main = "await" /\ t = count

Inv == Types /\ Handshake /\ NobodyLeaves /\ NewIsLast /\ OwnNumber

-----------------------------------------------------------------------------

LEMMA InitInv == Init => Inv
<1> SUFFICES ASSUME Init PROVE Inv
  OBVIOUS
<1> USE OverflowAssumption DEF Init, Threads
<1>1. Types
  BY DEF Types, Creating, Killing, Running, Leaving, NoId
<1>2. Handshake /\ NobodyLeaves /\ NewIsLast /\ OwnNumber
  BY DEF Handshake, NobodyLeaves, NewIsLast, OwnNumber, Creating, Leaving
<1> QED
  BY <1>1, <1>2 DEF Inv

LEMMA ThreadInv ==
  ASSUME Inv, NEW t \in Threads, Thread(t)
  PROVE  Inv'
<1> USE OverflowAssumption
<1>0. /\ t \in Int /\ t # -1 /\ count \in Int /\ granted \in Int
      /\ thread[t] \in {"new"} \cup Running
      /\ granted' = granted /\ count' = count /\ main' = main /\ killid' = killid
  BY DEF Inv, Types, Threads, Thread, ReadId, Report, LeaveLoop, ReportEnd, Exit, Running, Leaving
<1>1. CASE ReadId(t)
  <2>1. t = count /\ main = "await" /\ started = 0
    BY <1>1 DEF ReadId, Inv, NewIsLast, Handshake
  <2>2. /\ thread' = [thread EXCEPT ![t] = "report"]
        /\ id' = [id EXCEPT ![t] = count] /\ started' = started
    BY <1>1 DEF ReadId
  <2>3. Types'
    BY <1>0, <2>2 DEF Inv, Types, Running, Leaving
  <2>4. Handshake'
    BY <1>0, <2>1, <2>2 DEF Inv, Types, Handshake
  <2>5. NobodyLeaves'
    BY <1>0, <2>2 DEF Inv, Types, NobodyLeaves, Leaving
  <2>6. NewIsLast'
    BY <1>0, <2>1, <2>2 DEF Inv, Types, NewIsLast
  <2>7. OwnNumber'
    BY <1>0, <2>1, <2>2 DEF Inv, Types, OwnNumber
  <2> QED
    BY <2>3, <2>4, <2>5, <2>6, <2>7 DEF Inv
<1>2. CASE Report(t)
  <2>1. t = count /\ main = "await" /\ started = 0
    BY <1>2 DEF Report, Inv, NewIsLast, Handshake
  <2>2. thread' = [thread EXCEPT ![t] = "loop"] /\ id' = id /\ started' = 1
    BY <1>2 DEF Report
  <2>3. thread[t] = "report"
    BY <1>2 DEF Report
  <2>4. Types'
    BY <1>0, <2>2 DEF Inv, Types, Running, Leaving
  <2>5. Handshake'
    BY <1>0, <2>1, <2>2 DEF Inv, Types, Handshake
  <2>6. NobodyLeaves'
    BY <1>0, <2>2 DEF Inv, Types, NobodyLeaves, Leaving
  <2>7. NewIsLast'
    BY <1>0, <2>2 DEF Inv, Types, NewIsLast
  <2>8. OwnNumber'
    BY <1>0, <2>2, <2>3 DEF Inv, Types, OwnNumber
  <2> QED
    BY <2>4, <2>5, <2>6, <2>7, <2>8 DEF Inv
<1>3. CASE LeaveLoop(t) \/ ReportEnd(t) \/ Exit(t)
  <2>1. /\ thread[t] \in {"loop", "leave", "exit"} /\ id' = id
        /\ \E pc \in Leaving : thread' = [thread EXCEPT ![t] = pc]
        /\ started' \in {started, 2}
    BY <1>3 DEF LeaveLoop, ReportEnd, Exit, Leaving
  <2>2. main \notin Creating
    <3>1. CASE LeaveLoop(t)
      <4>1. killid = id[t] /\ thread[t] = "loop"
        BY <3>1 DEF LeaveLoop
      <4>2. id[t] = t
        BY <4>1 DEF Inv, OwnNumber
      <4> QED
        BY <1>0, <4>1, <4>2 DEF Inv, NobodyLeaves
    <3>2. CASE ReportEnd(t) \/ Exit(t)
      BY <3>2 DEF ReportEnd, Exit, Inv, NobodyLeaves, Leaving
    <3> QED
      BY <1>3, <3>1, <3>2
  <2>3. Types'
    BY <1>0, <2>1 DEF Inv, Types, Running, Leaving
  <2>4. Handshake' /\ NobodyLeaves'
    BY <1>0, <2>2 DEF Handshake, NobodyLeaves, Creating
  <2>5. NewIsLast'
    BY <1>0, <2>1 DEF Inv, Types, NewIsLast, Leaving
  <2>6. OwnNumber'
    BY <1>0, <2>1 DEF Inv, Types, OwnNumber
  <2> QED
    BY <2>3, <2>4, <2>5, <2>6 DEF Inv
<1> QED
  BY <1>1, <1>2, <1>3 DEF Thread

LEMMA MainInv ==
  ASSUME Inv, Main
  PROVE  Inv'
<1> USE OverflowAssumption
<1>0. count \in Int /\ granted \in Int /\ count <= granted /\ granted <= MaxThreads
  BY DEF Inv, Types
<1>1. CASE Create
  <2>1. /\ main = "create" /\ started = 0 /\ count < granted /\ count \in Threads
        /\ main' = "await" /\ thread' = [thread EXCEPT ![count] = "new"]
        /\ UNCHANGED <<granted, killid, started, count, id>>
    BY <1>0, <1>1 DEF Create, Inv, Types, Handshake, Threads
  <2>2. Types'
    BY <2>1 DEF Inv, Types, Creating
  <2>3. Handshake'
    BY <2>1 DEF Inv, Types, Handshake
  <2>4. NobodyLeaves'
    BY <2>1 DEF Inv, Types, NobodyLeaves, Creating, Leaving
  <2>5. NewIsLast'
    BY <2>1 DEF Inv, Types, NewIsLast
  <2>6. OwnNumber'
    BY <2>1 DEF Inv, Types, OwnNumber
  <2> QED
    BY <2>2, <2>3, <2>4, <2>5, <2>6 DEF Inv
<1>2. CASE Await \/ Reset \/ CountUp
  <2>1. /\ UNCHANGED <<granted, killid, thread, id>>
        /\ main \in Creating /\ main' \in Creating
    BY <1>2 DEF Await, Reset, CountUp, Creating
  <2>2. \A t \in Threads : thread[t] \notin {"new", "report"}
    <3>1. main \in {"reset", "count"} \/ (main = "await" /\ thread[count] = "loop")
      BY <1>2 DEF Await, Reset, CountUp, Inv, Handshake
    <3> QED
      BY <3>1 DEF Inv, NewIsLast
  <2>3. Types'
    BY <1>0, <1>2, <2>1 DEF Inv, Types, Handshake, Await, Reset, CountUp
  <2>4. Handshake'
    BY <1>0, <1>2 DEF Inv, Handshake, Await, Reset, CountUp
  <2>5. NobodyLeaves' /\ NewIsLast' /\ OwnNumber'
    BY <2>1, <2>2 DEF Inv, NobodyLeaves, NewIsLast, OwnNumber
  <2> QED
    BY <2>3, <2>4, <2>5 DEF Inv
<1>3. CASE CreateFails \/ Killed \/ ResetKilled \/ NextKill
  <2>1. /\ UNCHANGED <<granted, count, thread, id>>
        /\ main # "await" /\ main' \in Killing
    BY <1>3 DEF CreateFails, Killed, ResetKilled, NextKill, Killing
  <2>2. killid' \in Int /\ started' \in {0, 1, 2}
    <3>1. killid \in Int /\ started \in {0, 1, 2}
      BY DEF Inv, Types
    <3>2. killid' \in {0, killid, killid + 1} /\ started' \in {0, started}
      BY <1>3 DEF CreateFails, Killed, ResetKilled, NextKill
    <3> QED
      BY <3>1, <3>2
  <2>3. Types'
    BY <2>1, <2>2 DEF Inv, Types
  <2>4. Handshake' /\ NobodyLeaves'
    BY <2>1 DEF Handshake, NobodyLeaves, Creating, Killing
  <2>5. NewIsLast' /\ OwnNumber'
    BY <2>1 DEF Inv, NewIsLast, OwnNumber
  <2> QED
    BY <2>3, <2>4, <2>5 DEF Inv
<1> QED
  BY <1>1, <1>2, <1>3 DEF Main

(***************************************************************************)
(* For any number of threads, each reads its own number although all share *)
(* the counter main increments.                                            *)
(***************************************************************************)
THEOREM NumbersAreOwn == Spec => []OwnNumber
<1>1. Init => Inv
  BY InitInv
<1>2. Inv /\ [Next]_vars => Inv'
  <2>1. ASSUME Inv, UNCHANGED vars PROVE Inv'
    BY <2>1 DEF vars, Inv, Types, Handshake, NobodyLeaves, NewIsLast, OwnNumber
  <2> QED
    BY <2>1, ThreadInv, MainInv DEF Next
<1>3. Inv => OwnNumber
  BY DEF Inv
<1> QED
  BY <1>1, <1>2, <1>3, PTL DEF Spec

\* killid says where main is.
KillIds ==
  /\ main \in Creating => killid = -1
  /\ main \in {"kill", "reset killed", "next"} => killid = 0
  /\ main = "commands" => killid = 1

\* A report of the second kind main waits for is that of thread 0.
ReportIsTrue == main = "kill" /\ started = 2 => thread[0] \in {"exit", "ended"}

KilledInv == Inv /\ KillIds /\ ReportIsTrue /\ KilledHasLeft

LEMMA ThreadKilled ==
  ASSUME KilledInv, NEW t \in Threads, Thread(t)
  PROVE  KilledInv'
<1> USE OverflowAssumption
<1>1. Inv'
  BY ThreadInv DEF KilledInv
<1>2. /\ main' = main /\ killid' = killid /\ killid \in Int
      /\ thread \in [Threads -> {"none", "new"} \cup Running]
  BY DEF KilledInv, Inv, Types, Thread, ReadId, Report, LeaveLoop, ReportEnd, Exit
<1>3. KillIds'
  BY <1>2 DEF KilledInv, KillIds
<1>4. killid <= 1
  <2>1. \/ main \in Creating
        \/ main \in {"kill", "reset killed", "next"}
        \/ main = "commands"
    BY DEF KilledInv, Inv, Types, Killing
  <2>2. killid \in {-1, 0, 1}
    BY <2>1 DEF KilledInv, KillIds
  <2> QED
    BY <2>2
<1>5. ASSUME NEW u \in Threads, thread'[u] \in Leaving
      PROVE  u <= killid /\ u <= 1
  <2>1. CASE thread[u] \in Leaving
    BY <2>1 DEF KilledInv, KilledHasLeft, Leaving
  <2>2. CASE thread[u] \notin Leaving
    <3>1. u = t /\ thread[t] = "loop" /\ killid = id[t]
      BY <1>2, <1>5, <2>2 DEF Thread, ReadId, Report, LeaveLoop, ReportEnd, Exit, Leaving
    <3>2. id[t] = t
      BY <3>1 DEF KilledInv, Inv, OwnNumber
    <3>3. t \in Int
      BY DEF Threads
    <3> QED
      BY <1>4, <3>1, <3>2, <3>3
  <2> QED
    BY <2>1, <2>2
<1>6. \A u \in Threads : thread[u] \in {"exit", "ended"} => thread'[u] \in {"exit", "ended"}
  BY <1>2 DEF Thread, ReadId, Report, LeaveLoop, ReportEnd, Exit
<1>7. 0 \in Threads
  BY DEF Threads
<1>8. thread[0] \in {"exit", "ended"} => thread'[0] \in {"exit", "ended"}
  BY <1>6, <1>7
<1>9. KilledHasLeft'
  BY <1>2, <1>5, <1>8 DEF KilledInv, KilledHasLeft, Leaving
<1>10. ASSUME main = "kill", started' = 2
       PROVE  thread'[0] \in {"exit", "ended"}
  <2>1. CASE started = 2
    BY <1>8, <1>10, <2>1 DEF KilledInv, ReportIsTrue
  <2>2. CASE started # 2
    <3>1. thread[t] = "leave" /\ thread'[t] = "exit"
      BY <1>2, <1>10, <2>2 DEF Thread, ReadId, Report, LeaveLoop, ReportEnd, Exit
    <3>2. t <= killid /\ killid = 0
      BY <1>10, <3>1 DEF KilledInv, KilledHasLeft, KillIds
    <3>3. t = 0
      BY <3>2 DEF Threads
    <3> QED
      BY <3>1, <3>3
  <2> QED
    BY <2>1, <2>2
<1> QED
  BY <1>1, <1>2, <1>3, <1>9, <1>10 DEF KilledInv, ReportIsTrue

LEMMA MainKilled ==
  ASSUME KilledInv, Main
  PROVE  KilledInv'
<1>1. Inv'
  BY MainInv DEF KilledInv
<1>2. CASE Create \/ Await \/ Reset \/ CountUp
  <2>1. /\ main \in Creating /\ main' \in Creating /\ killid' = killid
        /\ thread' = thread \/ \E n : thread' = [thread EXCEPT ![n] = "new"]
    BY <1>2 DEF Create, Await, Reset, CountUp, Creating
  <2>2. \A t \in Threads : thread'[t] \notin Leaving
    BY <1>1, <2>1 DEF Inv, NobodyLeaves
  <2>3. KillIds' /\ ReportIsTrue' /\ KilledHasLeft'
    BY <2>1, <2>2 DEF KilledInv, KillIds, ReportIsTrue, KilledHasLeft, Creating, Leaving
  <2> QED
    BY <1>1, <2>3 DEF KilledInv
<1>3. CASE CreateFails
  <2>1. /\ main = "create" /\ started = 0 /\ started' = 0 /\ killid' = 0
        /\ main' = "kill" /\ thread' = thread
    BY <1>3 DEF CreateFails, KilledInv, Inv, Handshake
  <2>2. \A t \in Threads : thread'[t] \notin Leaving
    BY <2>1 DEF KilledInv, Inv, NobodyLeaves, Creating
  <2>3. KillIds' /\ ReportIsTrue' /\ KilledHasLeft'
    BY <2>1, <2>2 DEF KillIds, ReportIsTrue, KilledHasLeft, Creating, Leaving
  <2> QED
    BY <1>1, <2>3 DEF KilledInv
<1>4. CASE Killed \/ ResetKilled \/ NextKill
  <2>1. /\ thread' = thread
        /\ (main = "kill" /\ started = 2) \/ main \in {"reset killed", "next"}
    BY <1>4 DEF Killed, ResetKilled, NextKill
  <2>2. killid = 0
    BY <2>1 DEF KilledInv, KillIds
  <2>3. \/ main' \in {"reset killed", "next"} /\ killid' = 0
        \/ main' = "commands" /\ killid' = 1
    <3>1. CASE Killed \/ ResetKilled
      BY <2>2, <3>1 DEF Killed, ResetKilled
    <3>2. CASE NextKill
      <4>1. killid' = killid + 1 /\ main' = "commands"
        BY <3>2 DEF NextKill
      <4> QED
        BY <2>2, <4>1
    <3> QED
      BY <1>4, <3>1, <3>2
  <2>4. KillIds' /\ ReportIsTrue'
    BY <2>3 DEF KillIds, ReportIsTrue, Creating
  <2>5. thread'[0] \in {"exit", "ended"}
    BY <2>1 DEF KilledInv, ReportIsTrue, KilledHasLeft
  <2>6. \A t \in Threads : thread'[t] \in Leaving => t <= 0 /\ t <= 1
    BY <2>1, <2>2 DEF KilledInv, KilledHasLeft, Leaving
  <2>7. \A t \in Threads : t <= 0 => t <= killid'
    <3>1. killid' \in {0, 1}
      BY <2>3
    <3>2. \A t \in Threads, k \in {0, 1} : t <= 0 => t <= k
      BY OverflowAssumption DEF Threads
    <3> QED
      BY <3>1, <3>2
  <2>8. KilledHasLeft'
    BY <2>5, <2>6, <2>7 DEF KilledHasLeft, Leaving
  <2> QED
    BY <1>1, <2>4, <2>8 DEF KilledInv
<1> QED
  BY <1>2, <1>3, <1>4 DEF Main

(***************************************************************************)
(* For any number of threads, main runs its commands on the report of the  *)
(* thread it has asked to go, and only the first two threads ever leave.   *)
(***************************************************************************)
THEOREM ReportsAreTrue == Spec => []KilledHasLeft
<1>1. Init => KilledInv
  <2>1. Init => Inv
    BY InitInv
  <2>2. Init => KillIds /\ ReportIsTrue /\ KilledHasLeft
    BY DEF Init, KillIds, ReportIsTrue, KilledHasLeft, Creating
  <2> QED
    BY <2>1, <2>2 DEF KilledInv
<1>2. KilledInv /\ [Next]_vars => KilledInv'
  <2>1. ASSUME KilledInv, UNCHANGED vars PROVE KilledInv'
    BY <2>1 DEF vars, KilledInv, KillIds, ReportIsTrue, KilledHasLeft,
         Inv, Types, Handshake, NobodyLeaves, NewIsLast, OwnNumber
  <2> QED
    BY <2>1, ThreadKilled, MainKilled DEF Next
<1>3. KilledInv => KilledHasLeft
  BY DEF KilledInv
<1> QED
  BY <1>1, <1>2, <1>3, PTL DEF Spec
=============================================================================

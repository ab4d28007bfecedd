----------------------------- MODULE ForkerProofs -----------------------------
(***************************************************************************)
(* Theorems about Forker for any argument, width of an integer and number  *)
(* of processes the system grants.                                         *)
(***************************************************************************)
EXTENDS Forker, SumLemmas, TLAPS

PCs == {"round", "popen", "command", "wait"} \cup Ended

Processes == [pc : PCs, forks : 0 .. WordSize - 1, parent : Nat, child : Nat]

\* A process that ends or starts a round has waited for its child.
Waited ==
  \A p \in Ids : procs[p].pc \in {"round", "done", "divided", "failed"} => procs[p].child = Nobody

\* A process that lives is the one its parent is going to wait for.
Awaited ==
  \A p \in Ids : Alive(p) /\ procs[p].parent # Nobody =>
    LET parent == procs[p].parent
    IN  /\ parent \in Ids /\ parent # p
        /\ procs[parent].pc = "crashed" \/ procs[parent].child = p

Bad == {"divided", "failed", "crashed"}

\* Somebody has to make another fork, which can only end badly.
SomebodyHasForks ==
  \E p \in Ids :
    \/ procs[p].pc \in Bad \cup {"round"}
    \/ procs[p].pc \notin Ended /\ procs[p].forks > 0

Inv == TypeOK /\ Waited /\ Awaited /\ SomebodyHasForks

-----------------------------------------------------------------------------

LEMMA Types == TypeOK <=> wanted \in Wanted /\ procs \in Seq(Processes)
BY DEF TypeOK, Processes, PCs

LEMMA OneLessIs == \A forks \in 0 .. WordSize - 1 : OneLess(forks) \in 0 .. WordSize - 1
BY ForkerAssumption DEF OneLess

LEMMA AgainIs == \A p : Again(p) \in {"round", "done"} /\ (procs[p].forks > 0 => Again(p) = "round")
BY DEF Again

LEMMA InitInv == Init => Inv
<1> SUFFICES ASSUME Init PROVE Inv
  OBVIOUS
<1> DEFINE main == [pc |-> "round", forks |-> wanted, parent |-> Nobody, child |-> Nobody]
<1>1. wanted \in Wanted /\ wanted \in 0 .. WordSize - 1
  BY ForkerAssumption DEF Init
<1>2. procs = <<main>> /\ main \in Processes
  BY <1>1 DEF Init, Process, Processes, PCs, Nobody
<1>3. procs \in Seq(Processes) /\ Ids = {1} /\ procs[1] = main
  BY <1>2 DEF Ids
<1>4. TypeOK
  BY <1>1, <1>3, Types
<1>5. Waited /\ Awaited /\ SomebodyHasForks
  BY <1>3 DEF Waited, Awaited, SomebodyHasForks
<1> QED
  BY <1>4, <1>5 DEF Inv

\* What the other steps of p but Fork do: p alone changes, and keeps its parent.
LEMMA Alone ==
  ASSUME TypeOK, NEW p \in Ids, Step(p), ~Fork(p)
  PROVE  /\ procs' \in Seq(Processes) /\ Ids' = Ids
         /\ \A q \in Ids \ {p} : procs'[q] = procs[q]
         /\ procs'[p].parent = procs[p].parent
         /\ procs[p].pc \notin Ended
         /\ \/ /\ procs'[p].pc = "divided" /\ procs[p].pc = "round"
               /\ procs'[p].child = procs[p].child
               /\ OneLess(procs[p].forks) = 0 /\ procs'[p].forks = 0
            \/ /\ procs'[p].pc = "failed" /\ procs[p].pc = "round"
               /\ procs'[p].child = procs[p].child
               /\ procs'[p].forks = OneLess(procs[p].forks)
               /\ OneLess(procs[p].forks) # 0
            \/ /\ procs'[p].pc = "crashed" /\ procs'[p].forks = procs[p].forks
               /\ procs[p].pc = "popen"
            \/ /\ procs'[p].pc = "command" /\ procs'[p].forks = procs[p].forks
               /\ procs[p].pc = "popen" /\ procs'[p].child = procs[p].child
            \/ /\ procs'[p].pc = "wait" /\ procs'[p].forks = procs[p].forks
               /\ procs[p].pc = "command" /\ procs'[p].child = procs[p].child
            \/ /\ procs'[p].pc = Again(p) /\ procs'[p].forks = procs[p].forks
               /\ procs[p].pc \in {"command", "wait"}
               /\ procs'[p].child = Nobody
               /\ procs[p].child = Nobody \/ ~Alive(procs[p].child)
<1>0. /\ procs \in Seq(Processes) /\ procs[p] \in Processes /\ p \in 1 .. Len(procs)
      /\ Ids = 1 .. Len(procs)
  BY Types DEF Ids
<1>1. procs[p].forks \in 0 .. WordSize - 1 /\ 0 \in 0 .. WordSize - 1
  <2>1. procs[p].forks \in 0 .. WordSize - 1
    BY <1>0 DEF Processes
  <2> QED
    BY <2>1, ForkerAssumption
<1>2. ASSUME NEW r \in Processes, procs' = [procs EXCEPT ![p] = r]
      PROVE  /\ procs' \in Seq(Processes) /\ Ids' = Ids
             /\ \A q \in Ids \ {p} : procs'[q] = procs[q]
             /\ procs'[p] = r
  BY <1>0, <1>2 DEF Ids
<1>3. CASE Divide(p)
  <2> DEFINE r == [procs[p] EXCEPT !.pc = "divided", !.forks = 0]
  <2>1. r \in Processes
    BY <1>0, <1>1 DEF Processes, PCs, Ended
  <2>2. /\ procs' = [procs EXCEPT ![p] = r] /\ procs[p].pc = "round"
        /\ OneLess(procs[p].forks) = 0
    BY <1>3 DEF Divide
  <2>3. /\ r.pc = "divided" /\ r.forks = 0
        /\ r.child = procs[p].child /\ r.parent = procs[p].parent
    BY <1>0 DEF Processes
  <2> HIDE DEF r
  <2>4. /\ procs' \in Seq(Processes) /\ Ids' = Ids /\ procs'[p] = r
        /\ \A q \in Ids \ {p} : procs'[q] = procs[q]
    BY <1>2, <2>1, <2>2
  <2> QED
    BY <2>2, <2>3, <2>4 DEF Ended
<1>4. CASE ForkFails(p)
  <2> DEFINE r == [procs[p] EXCEPT !.pc = "failed", !.forks = OneLess(procs[p].forks)]
  <2>1. r \in Processes
    BY <1>0, <1>1, OneLessIs DEF Processes, PCs, Ended
  <2>2. /\ procs' = [procs EXCEPT ![p] = r] /\ procs[p].pc = "round"
        /\ OneLess(procs[p].forks) # 0
    BY <1>4 DEF ForkFails
  <2>3. /\ r.pc = "failed" /\ r.forks = OneLess(procs[p].forks)
        /\ r.child = procs[p].child /\ r.parent = procs[p].parent
    BY <1>0 DEF Processes
  <2> HIDE DEF r
  <2>4. /\ procs' \in Seq(Processes) /\ Ids' = Ids /\ procs'[p] = r
        /\ \A q \in Ids \ {p} : procs'[q] = procs[q]
    BY <1>2, <2>1, <2>2
  <2> QED
    BY <2>2, <2>3, <2>4 DEF Ended
<1>5. CASE Popen(p) \/ PopenFails(p)
  <2>1. PICK pc \in {"command", "crashed"} :
          procs' = [procs EXCEPT ![p] = [procs[p] EXCEPT !.pc = pc]] /\ procs[p].pc = "popen"
    BY <1>5 DEF Popen, PopenFails, Become
  <2> DEFINE r == [procs[p] EXCEPT !.pc = pc]
  <2>2. r \in Processes
    BY <1>0 DEF Processes, PCs, Ended
  <2>3. /\ r.pc = pc /\ r.forks = procs[p].forks
        /\ r.child = procs[p].child /\ r.parent = procs[p].parent
    BY <1>0 DEF Processes
  <2>4. procs' = [procs EXCEPT ![p] = r]
    BY <2>1
  <2> HIDE DEF r
  <2>5. /\ procs' \in Seq(Processes) /\ Ids' = Ids /\ procs'[p] = r
        /\ \A q \in Ids \ {p} : procs'[q] = procs[q]
    BY <1>2, <2>2, <2>4
  <2> QED
    BY <2>1, <2>3, <2>5 DEF Ended
<1>6. CASE Pclose(p)
  <2> DEFINE pc == IF procs[p].child = Nobody THEN Again(p) ELSE "wait"
             r == [procs[p] EXCEPT !.pc = pc]
  <2>1. procs' = [procs EXCEPT ![p] = r] /\ procs[p].pc = "command"
    BY <1>6 DEF Pclose, Become
  <2>2. /\ pc \in {"round", "done", "wait"}
        /\ pc = "wait" \/ (pc = Again(p) /\ procs[p].child = Nobody)
    <3>1. Again(p) \in {"round", "done"}
      BY AgainIs
    <3> QED
      BY <3>1
  <2> HIDE DEF pc
  <2>3. r \in Processes
    BY <1>0, <2>2 DEF Processes, PCs, Ended
  <2>4. /\ procs' \in Seq(Processes) /\ Ids' = Ids /\ procs'[p] = r
        /\ \A q \in Ids \ {p} : procs'[q] = procs[q]
    BY <1>2, <2>1, <2>3
  <2>5. r.pc = pc /\ r.forks = procs[p].forks /\ r.child = procs[p].child /\ r.parent = procs[p].parent
    BY <1>0 DEF Processes
  <2> HIDE DEF r
  <2> QED
    BY <2>1, <2>2, <2>4, <2>5 DEF Ended
<1>7. CASE Waitpid(p)
  <2> DEFINE r == [procs[p] EXCEPT !.pc = Again(p), !.child = Nobody]
  <2>1. procs' = [procs EXCEPT ![p] = r] /\ procs[p].pc = "wait" /\ ~Alive(procs[p].child)
    BY <1>7 DEF Waitpid
  <2>2. r \in Processes
    BY <1>0, AgainIs DEF Processes, PCs, Ended, Nobody
  <2>3. /\ procs' \in Seq(Processes) /\ Ids' = Ids /\ procs'[p] = r
        /\ \A q \in Ids \ {p} : procs'[q] = procs[q]
    BY <1>2, <2>1, <2>2
  <2>4. /\ r.pc = Again(p) /\ r.forks = procs[p].forks
        /\ r.child = Nobody /\ r.parent = procs[p].parent
    BY <1>0 DEF Processes
  <2> HIDE DEF r
  <2> QED
    BY <2>1, <2>3, <2>4 DEF Ended
<1> QED
  BY <1>3, <1>4, <1>5, <1>6, <1>7 DEF Step

\* Fork adds a process that has a fork to make.
LEMMA Forks ==
  ASSUME TypeOK, NEW p \in Ids, Fork(p)
  PROVE  LET child == Len(procs) + 1
         IN  /\ procs' \in Seq(Processes) /\ Ids' = Ids \cup {child} /\ child \notin Ids
             /\ child \in Nat \ {0}
             /\ \A q \in Ids \ {p} : procs'[q] = procs[q]
             /\ procs[p].pc = "round" /\ procs'[p].pc = "popen"
             /\ procs'[p].parent = procs[p].parent /\ procs'[p].child = child
             /\ procs'[child].pc = "popen" /\ procs'[child].forks > 0
             /\ procs'[child].parent = p
             /\ Len(procs') = child
             /\ procs'[p].forks \in Nat /\ procs'[child].forks \in Nat
             /\ procs'[p].forks + procs'[child].forks = OneLess(procs[p].forks)
<1> DEFINE child == Len(procs) + 1
           forks == OneLess(procs[p].forks)
<1>0. /\ procs \in Seq(Processes) /\ procs[p] \in Processes /\ p \in 1 .. Len(procs)
      /\ Len(procs) \in Nat /\ Ids = 1 .. Len(procs)
  BY Types DEF Ids
<1>1. forks \in 0 .. WordSize - 1
  BY <1>0, OneLessIs DEF Processes
<1> HIDE DEF forks
<1>2. PICK parent_forks \in 0 .. forks - 1 :
        procs' = Append(
          [procs EXCEPT ![p].pc = "popen", ![p].forks = parent_forks, ![p].child = child],
          Process("popen", ChildForks(forks, parent_forks), p))
  BY DEF Fork, forks
<1> DEFINE r == [procs[p] EXCEPT !.pc = "popen", !.forks = parent_forks, !.child = child]
           c == Process("popen", ChildForks(forks, parent_forks), p)
           s == [procs EXCEPT ![p] = r]
<1>3. /\ r \in Processes /\ r.pc = "popen" /\ r.child = child /\ r.parent = procs[p].parent
      /\ r.forks = parent_forks
  <2>1. parent_forks \in 0 .. WordSize - 1 /\ child \in Nat
    BY <1>0, <1>1, <1>2, ForkerAssumption
  <2> HIDE DEF child
  <2> QED
    BY <1>0, <2>1 DEF Processes, PCs
<1>4. /\ ChildForks(forks, parent_forks) \in 1 .. WordSize - 1
      /\ parent_forks \in Nat /\ parent_forks + ChildForks(forks, parent_forks) = forks
  BY <1>1, <1>2, ForkerAssumption DEF ChildForks
<1>5. /\ c \in Processes /\ c.pc = "popen" /\ c.forks > 0 /\ c.parent = p
      /\ c.forks = ChildForks(forks, parent_forks) /\ c.forks \in Nat
  BY <1>0, <1>4 DEF Process, Processes, PCs, Nobody
<1>6. procs' = Append(s, c)
  BY <1>2
<1> HIDE DEF r, c
<1>7. /\ s \in Seq(Processes) /\ Len(s) = Len(procs)
      /\ s[p] = r /\ \A q \in Ids \ {p} : s[q] = procs[q]
  BY <1>0, <1>3
<1> HIDE DEF s
<1>8. /\ procs' \in Seq(Processes) /\ Len(procs') = child
      /\ procs'[child] = c /\ \A q \in 1 .. Len(procs) : procs'[q] = s[q]
  BY <1>0, <1>5, <1>6, <1>7
<1>9. Ids' = 1 .. child
  BY <1>8 DEF Ids
<1>10. procs[p].pc = "round"
  BY DEF Fork
<1>11. Ids' = Ids \cup {child} /\ child \notin Ids /\ child \in Nat \ {0}
  BY <1>0, <1>9
<1>12. /\ \A q \in Ids \ {p} : procs'[q] = procs[q]
       /\ procs'[p] = r
  BY <1>0, <1>7, <1>8
<1> HIDE DEF child
<1>13. /\ procs'[child].pc = "popen" /\ procs'[child].forks > 0 /\ procs'[child].parent = p
       /\ procs'[p].pc = "popen" /\ procs'[p].child = child /\ procs'[p].parent = procs[p].parent
  BY <1>3, <1>5, <1>8, <1>12
<1>14. /\ procs'[p].forks \in Nat /\ procs'[child].forks \in Nat
       /\ procs'[p].forks + procs'[child].forks = forks
  BY <1>3, <1>4, <1>5, <1>8, <1>12
<1> QED
  BY <1>8, <1>10, <1>11, <1>12, <1>13, <1>14 DEF child, forks

LEMMA AloneInv ==
  ASSUME Inv, NEW p \in Ids, Step(p), ~Fork(p)
  PROVE  Inv'
<1>0. TypeOK /\ Waited /\ Awaited /\ SomebodyHasForks /\ wanted' = wanted
  BY DEF Inv, Step
<1>1. /\ procs' \in Seq(Processes) /\ Ids' = Ids
      /\ \A q \in Ids \ {p} : procs'[q] = procs[q]
      /\ procs'[p].parent = procs[p].parent
      /\ procs[p].pc \notin Ended
  BY <1>0, Alone
<1>2. \/ procs'[p].pc \in {"divided", "failed"} /\ procs[p].pc = "round"
         /\ procs'[p].child = procs[p].child
      \/ procs'[p].pc = "crashed"
      \/ /\ procs'[p].pc \in {"command", "wait"} /\ procs'[p].forks = procs[p].forks
         /\ procs[p].pc \in {"popen", "command"} /\ procs'[p].child = procs[p].child
      \/ /\ procs'[p].pc \in {"round", "done"}
         /\ procs[p].forks > 0 => procs'[p].pc = "round"
         /\ procs[p].pc \in {"command", "wait"}
         /\ procs'[p].child = Nobody
         /\ procs[p].child = Nobody \/ ~Alive(procs[p].child)
  BY <1>0, Alone, AgainIs
<1>3. TypeOK'
  <2>1. wanted' \in Wanted
    BY <1>0, Types
  <2> QED
    BY <1>1, <2>1 DEF TypeOK, Processes, PCs
<1>4. Waited'
  BY <1>0, <1>1, <1>2 DEF Waited
<1>5. Awaited'
  <2> SUFFICES ASSUME NEW q \in Ids, procs'[q].pc \notin Ended, procs'[q].parent # Nobody
               PROVE  /\ procs'[q].parent \in Ids /\ procs'[q].parent # q
                      /\ \/ procs'[procs'[q].parent].pc = "crashed"
                         \/ procs'[procs'[q].parent].child = q
    BY <1>1 DEF Awaited, Alive
  <2> DEFINE parent == procs[q].parent
  <2>1. procs[q].pc \notin Ended /\ procs'[q].parent = parent
    BY <1>1
  <2>2. Alive(q) /\ parent \in Ids /\ parent # q
        /\ (procs[parent].pc = "crashed" \/ procs[parent].child = q)
    BY <1>0, <2>1 DEF Awaited, Alive
  <2>3. CASE parent # p
    BY <1>1, <2>1, <2>2, <2>3
  <2>4. CASE parent = p
    <3>1. procs[p].child = q
      BY <1>1, <2>2, <2>4 DEF Ended
    <3>2. q # Nobody
      BY <1>0, Types DEF Ids, Nobody
    <3>3. procs'[p].pc = "crashed" \/ procs'[p].child = q
      BY <1>2, <2>2, <3>1, <3>2
    <3> QED
      BY <2>1, <2>2, <2>4, <3>3
  <2> QED
    BY <2>3, <2>4
<1>6. SomebodyHasForks'
  <2>1. PICK q \in Ids : \/ procs[q].pc \in Bad \cup {"round"}
                         \/ procs[q].pc \notin Ended /\ procs[q].forks > 0
    BY <1>0 DEF SomebodyHasForks
  <2>2. CASE q # p
    BY <1>1, <2>1, <2>2 DEF SomebodyHasForks
  <2>3. CASE q = p
    <3>1. \/ procs'[p].pc \in Bad \cup {"round"}
          \/ procs'[p].pc \notin Ended /\ procs'[p].forks > 0
      BY <1>1, <1>2, <2>1, <2>3 DEF Bad, Ended
    <3> QED
      BY <1>1, <3>1 DEF SomebodyHasForks
  <2> QED
    BY <2>2, <2>3
<1> QED
  BY <1>3, <1>4, <1>5, <1>6 DEF Inv

LEMMA ForkInv ==
  ASSUME Inv, NEW p \in Ids, Step(p), Fork(p)
  PROVE  Inv'
<1> DEFINE child == Len(procs) + 1
<1>0. TypeOK /\ Waited /\ Awaited /\ wanted' = wanted
  BY DEF Inv, Step
<1>1. /\ procs' \in Seq(Processes) /\ Ids' = Ids \cup {child} /\ child \notin Ids
      /\ \A q \in Ids \ {p} : procs'[q] = procs[q]
      /\ procs[p].pc = "round" /\ procs'[p].pc = "popen"
      /\ procs'[p].parent = procs[p].parent /\ procs'[p].child = child
      /\ procs'[child].pc = "popen" /\ procs'[child].forks > 0
      /\ procs'[child].parent = p
  BY <1>0, Forks
<1>2. p # Nobody
  BY <1>0, Types DEF Ids, Nobody
<1> HIDE DEF child
<1>3. TypeOK'
  <2>1. wanted' \in Wanted
    BY <1>0, Types
  <2> QED
    BY <1>1, <2>1 DEF TypeOK, Processes, PCs
<1>4. Waited'
  BY <1>0, <1>1 DEF Waited
<1>5. Awaited'
  <2> SUFFICES ASSUME NEW q \in Ids \cup {child}, procs'[q].pc \notin Ended, procs'[q].parent # Nobody
               PROVE  /\ procs'[q].parent \in Ids \cup {child} /\ procs'[q].parent # q
                      /\ \/ procs'[procs'[q].parent].pc = "crashed"
                         \/ procs'[procs'[q].parent].child = q
    BY <1>1 DEF Awaited, Alive
  <2>1. CASE q = child
    BY <1>1, <2>1
  <2>2. CASE q \in Ids
    <3> DEFINE parent == procs[q].parent
    <3>1. procs[q].pc \notin Ended /\ procs'[q].parent = parent
      BY <1>1, <2>2 DEF Ended
    <3>2. parent \in Ids /\ parent # q
          /\ (procs[parent].pc = "crashed" \/ procs[parent].child = q)
      BY <1>0, <2>2, <3>1 DEF Awaited, Alive
    <3>3. parent # p
      <4>1. procs[p].child = Nobody
        BY <1>0, <1>1 DEF Waited
      <4>2. q # Nobody
        BY <1>0, <2>2, Types DEF Ids, Nobody
      <4> QED
        BY <1>1, <3>2, <4>1, <4>2
    <3> QED
      BY <1>1, <3>1, <3>2, <3>3
  <2> QED
    BY <2>1, <2>2
<1>6. SomebodyHasForks'
  BY <1>1 DEF SomebodyHasForks, Ended
<1> QED
  BY <1>3, <1>4, <1>5, <1>6 DEF Inv

LEMMA InvHolds == Spec => []Inv
<1>1. Inv /\ [Next]_vars => Inv'
  <2>1. ASSUME Inv, Next PROVE Inv'
    BY <2>1, AloneInv, ForkInv DEF Next
  <2>2. ASSUME Inv, UNCHANGED vars PROVE Inv'
    <3>1. wanted' = wanted /\ procs' = procs
      BY <2>2 DEF vars
    <3> QED
      BY <2>2, <3>1 DEF Inv, TypeOK, Waited, Awaited, SomebodyHasForks, Alive, Ids
  <2> QED
    BY <2>1, <2>2
<1> QED
  BY <1>1, InitInv, PTL DEF Spec

(***************************************************************************)
(* Counters of forks stay within an unsigned int, whatever the argument.   *)
(***************************************************************************)
THEOREM ForkerTypes == Spec => []TypeOK
<1>1. Inv => TypeOK
  BY DEF Inv
<1> QED
  BY <1>1, InvHolds, PTL

(***************************************************************************)
(* However many processes there are, only those of a crashed process are   *)
(* left without a parent.                                                  *)
(***************************************************************************)
THEOREM OrphansAreOfCrashes == Spec => []OrphansOfCrashes
<1>1. Inv => OrphansOfCrashes
  <2> SUFFICES ASSUME Inv, NEW p \in Ids, Alive(p), procs[p].parent # Nobody
               PROVE  Alive(procs[p].parent) \/ procs[procs[p].parent].pc = "crashed"
    BY DEF OrphansOfCrashes
  <2> DEFINE parent == procs[p].parent
  <2>1. parent \in Ids /\ (procs[parent].pc = "crashed" \/ procs[parent].child = p)
    BY DEF Inv, Awaited
  <2>2. p # Nobody /\ procs[parent].pc \in PCs
    <3>1. procs \in Seq(Processes) /\ Ids = 1 .. Len(procs)
      BY Types DEF Inv, Ids
    <3>2. procs[parent] \in Processes
      BY <2>1, <3>1
    <3> HIDE DEF parent
    <3>3. p # Nobody
      BY <3>1 DEF Nobody
    <3>4. procs[parent].pc \in PCs
      BY <3>2 DEF Processes
    <3> QED
      BY <3>3, <3>4
  <2>3. CASE procs[parent].child = p
    BY <2>1, <2>2, <2>3 DEF Inv, Waited, Alive, Ended
  <2> QED
    BY <2>1, <2>3
<1> QED
  BY <1>1, InvHolds, PTL

(***************************************************************************)
(* For every number of forks that may be desired, one is never made.       *)
(***************************************************************************)
THEOREM SomebodyAlwaysFails == Spec => []SomebodyFails
<1>1. Inv => SomebodyFails
  BY DEF Inv, SomebodyHasForks, SomebodyFails, Alive, Ended, Bad
<1> QED
  BY <1>1, InvHolds, PTL

-----------------------------------------------------------------------------
(* The account of the forks: a round takes one of those its process has,    *)
(* and nothing else takes or adds any.                                      *)

\* A round takes one, also of the forks that zero stands for.
LEMMA OneIsTaken ==
  ASSUME NEW forks \in 0 .. WordSize - 1
  PROVE  /\ Left(forks) \in Nat /\ OneLess(forks) \in Nat
         /\ Left(forks) = OneLess(forks) + 1
<1>0. WordSize \in Nat \ {0}
  BY ForkerAssumption
<1>1. CASE forks = 0
  <2>1. (0 - 1) % WordSize = WordSize - 1
    BY <1>0
  <2> QED
    BY <1>0, <1>1, <2>1 DEF Left, OneLess
<1>2. CASE forks # 0
  <2>1. forks - 1 \in 0 .. WordSize - 1
    BY <1>0, <1>2
  <2>2. (forks - 1) % WordSize = forks - 1
    BY <1>0, <2>1
  <2> QED
    BY <1>0, <1>2, <2>1, <2>2 DEF Left, OneLess
<1> QED
  BY <1>1, <1>2

\* The share of a process as a function of its record.
ShareOf(r) ==
  IF r.pc = "round" THEN Left(r.forks)
  ELSE IF r.pc \in {"divided", "failed"} THEN r.forks + 1
  ELSE r.forks

LEMMA ShareIs ==
  ASSUME NEW r \in Processes
  PROVE  ShareOf(r) \in Nat
<1>1. r.forks \in 0 .. WordSize - 1 /\ r.forks \in Nat
  BY ForkerAssumption DEF Processes
<1>2. Left(r.forks) \in Nat
  BY <1>1, OneIsTaken
<1> QED
  BY <1>1, <1>2 DEF ShareOf

LEMMA SharesAre ==
  ASSUME NEW s \in Seq(Processes)
  PROVE  LET shares == [p \in DOMAIN s |-> ShareOf(s[p])]
         IN  IsFiniteSet(DOMAIN s) /\ Terms(shares, DOMAIN s)
<1>1. DOMAIN s = 1 .. Len(s) /\ Len(s) \in Nat /\ \A p \in 1 .. Len(s) : s[p] \in Processes
  OBVIOUS
<1>2. \A p \in DOMAIN s : ShareOf(s[p]) \in Nat
  BY <1>1, ShareIs
<1>3. IsFiniteSet(DOMAIN s)
  BY <1>1, FS_Interval
<1> QED
  BY <1>2, <1>3 DEF Terms

LEMMA InitForks == Init => ForksAccount
<1> SUFFICES ASSUME Init PROVE ForksAccount
  OBVIOUS
<1> DEFINE f == [p \in Ids |-> Share(p)]
<1>1. TypeOK
  BY InitInv DEF Inv
<1>2. procs = <<Process("round", wanted, Nobody)>>
  BY DEF Init
<1>3. Len(procs) = 1 /\ Ids = {1} /\ procs[1].pc = "round" /\ procs[1].forks = wanted
  BY <1>2 DEF Ids, Process
<1>4. f[1] = Left(wanted) /\ DOMAIN f = {1} /\ 1 \in {1}
  BY <1>3 DEF Share
<1>5. f[1] \in Nat
  <2>1. wanted \in 0 .. WordSize - 1
    BY <1>1, ForkerAssumption DEF TypeOK
  <2> QED
    BY <1>4, <2>1, OneIsTaken
<1> HIDE DEF f
<1>6. SumFunction(f) = Left(wanted)
  BY <1>4, <1>5, SumOne
<1>7. ForksAccount <=> (Len(procs) - 1) + SumFunction(f) = Left(wanted)
  BY DEF ForksAccount, f
<1> QED
  BY <1>3, <1>4, <1>5, <1>6, <1>7

\* Whatever p does but Fork, what is left to it and lost in it stays the same.
LEMMA ShareStays ==
  ASSUME TypeOK, NEW p \in Ids, Step(p), ~Fork(p)
  PROVE  ShareOf(procs'[p]) = ShareOf(procs[p])
<1> DEFINE r == procs[p]
           s == procs'[p]
<1>0. r \in Processes /\ r.forks \in 0 .. WordSize - 1
  <2>1. procs[p] \in Processes
    BY Types DEF Ids
  <2> QED
    BY <2>1 DEF Processes
<1>1. Left(r.forks) = OneLess(r.forks) + 1
  BY <1>0, OneIsTaken
<1>2. Again(p) = IF r.forks > 0 THEN "round" ELSE "done"
  BY DEF Again
<1>3. \/ /\ s.pc = "divided" /\ r.pc = "round"
         /\ OneLess(r.forks) = 0 /\ s.forks = 0
      \/ s.pc = "failed" /\ r.pc = "round" /\ s.forks = OneLess(r.forks)
      \/ s.pc \in {"crashed", "command", "wait"} /\ s.forks = r.forks
           /\ r.pc \in {"popen", "command"}
      \/ s.pc = Again(p) /\ s.forks = r.forks /\ r.pc \in {"command", "wait"}
  BY Alone
<1> SUFFICES ShareOf(s) = ShareOf(r)
  OBVIOUS
<1> HIDE DEF r, s
<1>4. CASE s.pc = "divided" /\ r.pc = "round" /\ OneLess(r.forks) = 0 /\ s.forks = 0
  BY <1>1, <1>4 DEF ShareOf
<1>5. CASE s.pc = "failed" /\ r.pc = "round" /\ s.forks = OneLess(r.forks)
  BY <1>1, <1>5 DEF ShareOf
<1>6. CASE s.pc \in {"crashed", "command", "wait"} /\ s.forks = r.forks
             /\ r.pc \in {"popen", "command"}
  BY <1>6 DEF ShareOf
<1>7. CASE s.pc = Again(p) /\ s.forks = r.forks /\ r.pc \in {"command", "wait"}
  BY <1>0, <1>2, <1>7 DEF ShareOf, Left
<1> QED
  BY <1>3, <1>4, <1>5, <1>6, <1>7

\* The account in the records before and after a step.
LEMMA AccountIs ==
  /\ ForksAccount <=>
       (Len(procs) - 1) + SumFunction([q \in Ids |-> ShareOf(procs[q])]) = Left(wanted)
  /\ ForksAccount' <=>
       (Len(procs') - 1) + SumFunction([q \in Ids' |-> ShareOf(procs'[q])]) = Left(wanted')
BY DEF ForksAccount, Share, ShareOf

LEMMA AloneForks ==
  ASSUME TypeOK, ForksAccount, NEW p \in Ids, Step(p), ~Fork(p)
  PROVE  ForksAccount'
<1>1. /\ procs \in Seq(Processes) /\ procs' \in Seq(Processes) /\ Ids' = Ids
      /\ \A q \in Ids \ {p} : procs'[q] = procs[q]
  BY Alone, Types
<1>2. \A q \in Ids : ShareOf(procs'[q]) = ShareOf(procs[q])
  BY <1>1, ShareStays
<1>3. [q \in Ids' |-> ShareOf(procs'[q])] = [q \in Ids |-> ShareOf(procs[q])]
  BY <1>1, <1>2
<1>4. Len(procs') = Len(procs)
  BY <1>1 DEF Ids
<1>5. wanted' = wanted
  BY DEF Step
<1> QED
  BY <1>3, <1>4, <1>5, AccountIs

\* A fork is made of one, and the others are handed to the two of them.
LEMMA ForkForks ==
  ASSUME TypeOK, ForksAccount, NEW p \in Ids, Step(p), Fork(p)
  PROVE  ForksAccount'
<1> DEFINE child == Len(procs) + 1
           f == [q \in Ids |-> ShareOf(procs[q])]
           g == [q \in Ids' |-> ShareOf(procs'[q])]
           h == [q \in Ids |-> ShareOf(procs'[q])]
<1>1. /\ procs \in Seq(Processes) /\ procs' \in Seq(Processes) /\ Len(procs) \in Nat
      /\ Len(procs') = child /\ Ids' = Ids \cup {child} /\ child \notin Ids
      /\ \A q \in Ids \ {p} : procs'[q] = procs[q]
  BY Forks, Types
<1>2. /\ procs[p].pc = "round" /\ procs'[p].pc = "popen" /\ procs'[child].pc = "popen"
      /\ procs'[p].forks \in Nat /\ procs'[child].forks \in Nat
      /\ procs'[p].forks + procs'[child].forks = OneLess(procs[p].forks)
  BY Forks
<1>3. Left(procs[p].forks) = OneLess(procs[p].forks) + 1 /\ OneLess(procs[p].forks) \in Nat
  <2>1. procs[p] \in Processes
    BY <1>1 DEF Ids
  <2>2. procs[p].forks \in 0 .. WordSize - 1
    BY <2>1 DEF Processes
  <2> QED
    BY <2>2, OneIsTaken
<1>4. Len(procs') = Len(procs) + 1 /\ wanted' = wanted
  BY <1>1 DEF Step
<1> HIDE DEF child
<1>5. IsFiniteSet(Ids) /\ Terms(f, Ids) /\ Terms(g, Ids')
  BY <1>1, SharesAre DEF Ids
<1>6. /\ f[p] = Left(procs[p].forks)
      /\ h[p] = procs'[p].forks
      /\ g[child] = procs'[child].forks
  BY <1>1, <1>2 DEF ShareOf
<1>7. /\ \A q \in Ids : g[q] = h[q]
      /\ \A q \in Ids : q # p => h[q] = f[q]
      /\ DOMAIN h = Ids /\ DOMAIN f = Ids /\ DOMAIN g = Ids \cup {child}
  BY <1>1
<1>8. ForksAccount <=> (Len(procs) - 1) + SumFunction(f) = Left(wanted)
  BY AccountIs
<1>9. ForksAccount' <=> (Len(procs') - 1) + SumFunction(g) = Left(wanted')
  BY AccountIs
<1> HIDE DEF f, g, h
<1>10. Terms(h, Ids)
  BY <1>1, <1>5, <1>7 DEF Terms
<1>11. SumFunction(h) + f[p] = SumFunction(f) + h[p]
  <2>1. h[p] \in Nat
    BY <1>10 DEF Terms
  <2> QED
    BY <1>5, <1>7, <2>1, SumChanges
<1>12. SumFunction(g) = SumFunction(h) + g[child]
  <2>1. IsFiniteSet(DOMAIN h) /\ Terms(h, DOMAIN h) /\ DOMAIN g = DOMAIN h \cup {child}
    BY <1>5, <1>7, <1>10
  <2>2. child \notin DOMAIN h /\ (\A q \in DOMAIN h : g[q] = h[q]) /\ g[child] \in Nat
    BY <1>1, <1>2, <1>6, <1>7
  <2> QED
    BY <2>1, <2>2, SumGrows
<1>13. SumFunction(f) \in Nat /\ SumFunction(h) \in Nat
  BY <1>5, <1>7, <1>10, SumType
<1>14. SumFunction(g) + 1 = SumFunction(f)
  BY <1>2, <1>3, <1>6, <1>11, <1>12, <1>13
<1>15. SumFunction(g) \in Nat
  BY <1>2, <1>6, <1>12, <1>13
<1> QED
  BY <1>1, <1>4, <1>8, <1>9, <1>13, <1>14, <1>15

(***************************************************************************)
(* For every number of forks that may be desired, the processes account    *)
(* for each of them: no fork makes one of them twice or forgets one.       *)
(***************************************************************************)
THEOREM ForksAreAccounted == Spec => []ForksAccount
<1>1. Init => ForksAccount
  BY InitForks
<1>2. Inv /\ ForksAccount /\ [Next]_vars => ForksAccount'
  <2>1. ASSUME Inv, ForksAccount, Next PROVE ForksAccount'
    BY <2>1, AloneForks, ForkForks DEF Inv, Next
  <2>2. ASSUME ForksAccount, UNCHANGED vars PROVE ForksAccount'
    <3>1. wanted' = wanted /\ procs' = procs
      BY <2>2 DEF vars
    <3> QED
      BY <2>2, <3>1 DEF ForksAccount, Share, Ids
  <2> QED
    BY <2>1, <2>2
<1> QED
  BY <1>1, <1>2, InvHolds, PTL DEF Spec
=============================================================================

------------------------------ MODULE PidCalls ------------------------------
(***************************************************************************)
(* What buildstat.c may rely on when it calls decode/processes.c: a search *)
(* answers whether its pid is in the set, only what the answer is about is *)
(* created or removed, and an iteration delivers each pid in the set once, *)
(* in ascending order.                                                     *)
(***************************************************************************)
EXTENDS PidSet, Sequences

CONSTANT None   \* the null pointer

VARIABLES
  asked,     \* the pid of the last search, None when its answer has been used
  found,     \* the answer, None when the pid is not in the set
  order,     \* the pids that were delivered
  iterating  \* iterate_processes is running

callVars == <<live, asked, found, order, iterating>>

Left == live \ {order[i] : i \in DOMAIN order}

CallsInit ==
  Init /\ asked = None /\ found = None /\ order = << >> /\ iterating = FALSE

find(pid) ==
  /\ asked = None
  /\ ~iterating
  /\ asked' = pid
  /\ found' = IF pid \in live THEN pid ELSE None
  /\ UNCHANGED <<live, order, iterating>>

\* The answer is used once.
Answered ==
  /\ asked # None
  /\ asked' = None
  /\ found' = None
  /\ UNCHANGED <<order, iterating>>

create == found = None /\ Answered /\ create_process(asked)

remove == found # None /\ Answered /\ remove_process(found)

keep == Answered /\ UNCHANGED live

iterate ==
  /\ asked = None
  /\ ~iterating
  /\ iterating' = TRUE
  /\ order' = << >>
  /\ UNCHANGED <<live, asked, found>>

callback(pid) ==
  /\ iterating
  /\ pid \in Left
  /\ \A p \in Left \ {pid} : pid < p
  /\ order' = Append(order, pid)
  /\ UNCHANGED <<live, asked, found, iterating>>

iterate_end ==
  /\ iterating
  /\ Left = {}
  /\ iterating' = FALSE
  /\ UNCHANGED <<live, asked, found, order>>

CallsNext ==
  \/ \E pid \in Pids : find(pid) \/ callback(pid)
  \/ create \/ remove \/ keep
  \/ iterate \/ iterate_end

CallsSpec == CallsInit /\ [][CallsNext]_callVars
=============================================================================

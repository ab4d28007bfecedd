------------------------------- MODULE PidSet -------------------------------
(***************************************************************************)
(* The processes decode/processes.c keeps in memory: a set of pids.  A pid *)
(* comes when it is not in the set, and goes when it is.                   *)
(***************************************************************************)
EXTENDS Naturals

CONSTANT Pids   \* process ids

VARIABLE live   \* the pids in memory

Init == live = {}

create_process(pid) == pid \notin live /\ live' = live \cup {pid}

remove_process(pid) == pid \in live /\ live' = live \ {pid}

Next == \E pid \in Pids : create_process(pid) \/ remove_process(pid)

Spec == Init /\ [][Next]_live
=============================================================================

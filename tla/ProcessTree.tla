---------------------------- MODULE ProcessTree -----------------------------
(***************************************************************************)
(* decode/processes.c on the AVL tree of util/tree.h.  buildstat.c creates *)
(* a process only after find_process has returned NULL for its pid, and    *)
(* removes only a process that find_process has returned.  A node is the   *)
(* process with this pid, and its key is the pid.                          *)
(***************************************************************************)
EXTENDS AvlTree

ProcessTreeInit == Init

find_process(pid) == pc = "idle" /\ TREE_FIND(pid)

\* create_process clears the new process.
create_process == pc = "found" /\ self = Nil /\ TREE_INSERT(want, want)

remove_process == pc = "found" /\ self # Nil /\ TREE_REMOVE(key[self])

\* The record leaves the tree alone, or there is no memory for a new process.
keep_process ==
  /\ pc = "found"
  /\ Run("idle", Nil, Nil, Nil)
  /\ UNCHANGED <<root, memory, stack, visited>>

\* print_processes, after the last record.
iterate_processes == pc = "idle" /\ TREE_FORWARD_APPLY

ProcessTreeNext ==
  \/ \E pid \in Keys : find_process(pid)
  \/ create_process \/ remove_process \/ keep_process
  \/ iterate_processes
  \/ Step

\* The functions run to their end.
ProcessTreeSpec ==
  ProcessTreeInit /\ [][ProcessTreeNext]_treeVars /\ WF_treeVars(Step)

-----------------------------------------------------------------------------
(* Properties.                                                             *)

\* A removal has its effect when it is called, a search when it returns.
Calls == INSTANCE PidCalls WITH
  Pids <- Nodes, None <- Nil,
  live <- IF pc = "remove" THEN members \ {want} ELSE members,
  asked <- IF pc = "found" THEN want ELSE Nil,
  found <- IF pc = "found" THEN self ELSE Nil,
  order <- visited, iterating <- pc = "apply"

(***************************************************************************)
(* The tree implements a set of pids: whatever was created and removed     *)
(* before, a search tells whether the pid is there, a removal takes this   *)
(* one process out and no other, and the walk visits the rest in order.    *)
(***************************************************************************)
ImplementsPidCalls == Calls!CallsSpec

(***************************************************************************)
(* Every call of a function of tree.h returns: balancing ends, although a  *)
(* rotation calls TREE_BALANCE again for both nodes it has moved.          *)
(***************************************************************************)
CallsReturn == pc \in Functions ~> pc \notin Functions
=============================================================================

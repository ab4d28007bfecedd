---------------------------- MODULE RecordOrder -----------------------------
(***************************************************************************)
(* perffile/records.c on the AVL tree of util/tree.h: the records of a     *)
(* file are inserted in file order and visited in the order of time.  A    *)
(* node is a record, known by its number in the file; its key is the time. *)
(***************************************************************************)
EXTENDS AvlTree

VARIABLE nr   \* ev_nr of readEvents, the number of the next record in the file

recordVars == <<treeVars, nr>>

RecordOrderInit == Init /\ nr = 0

\* The number is taken too late.
add_record_order_LateNr(time) ==
  /\ pc = "idle"
  /\ nr \in Nodes
  /\ TREE_INSERT(nr + 1, time)
  /\ nr' = nr + 1

add_record_order(time) ==
  /\ pc = "idle"
  /\ nr \in Nodes
  /\ TREE_INSERT(nr, time)
  /\ nr' = nr + 1

\* Once, after the last record.
iterate_order == pc = "idle" /\ TREE_FORWARD_APPLY /\ UNCHANGED nr

RecordOrderNext ==
  \/ \E time \in Keys : add_record_order(time)
  \/ iterate_order
  \/ Step /\ UNCHANGED nr

RecordOrderSpec == RecordOrderInit /\ [][RecordOrderNext]_recordVars

-----------------------------------------------------------------------------
(* Properties.                                                             *)

Sorted == INSTANCE SortedRecords WITH
  Nrs <- Nodes, Times <- Keys,
  time <- [n \in members |-> key[n]], order <- visited, iterating <- pc = "apply"

(***************************************************************************)
(* The tree implements the sorted sequence: whatever the order of the      *)
(* times, no rotation loses or reorders a record, and records of the same  *)
(* time are replayed in the order of the file.                             *)
(***************************************************************************)
ImplementsSorted == Sorted!Spec
=============================================================================

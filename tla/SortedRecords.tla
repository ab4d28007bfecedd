--------------------------- MODULE SortedRecords ----------------------------
(***************************************************************************)
(* What perffile/records.c promises: records are added, and then delivered *)
(* one by one, sorted by their timestamps, and records of the same time in *)
(* the order they were added.                                              *)
(***************************************************************************)
EXTENDS Naturals, Sequences

CONSTANTS
  Nrs,     \* the numbers of the records in the file
  Times    \* timestamps of records

VARIABLES
  time,      \* the timestamps of the records that were added
  order,     \* the records that were delivered
  iterating  \* iterate_order is running

vars == <<time, order, iterating>>

Added == DOMAIN time
Left == Added \ {order[i] : i \in DOMAIN order}

Before(m, n) == time[m] < time[n] \/ (time[m] = time[n] /\ m < n)

Init == time = [n \in {} |-> 0] /\ order = << >> /\ iterating = FALSE

add_record(n, t) ==
  /\ ~iterating
  /\ \A m \in Added : m < n
  /\ time' = [m \in Added \cup {n} |-> IF m = n THEN t ELSE time[m]]
  /\ UNCHANGED <<order, iterating>>

iterate_order ==
  /\ ~iterating
  /\ iterating' = TRUE
  /\ order' = << >>
  /\ UNCHANGED time

callback(n) ==
  /\ iterating
  /\ n \in Left
  /\ \A m \in Left \ {n} : Before(n, m)
  /\ order' = Append(order, n)
  /\ UNCHANGED <<time, iterating>>

iterate_end ==
  /\ iterating
  /\ Left = {}
  /\ iterating' = FALSE
  /\ UNCHANGED <<time, order>>

Next ==
  \/ \E n \in Nrs, t \in Times : add_record(n, t)
  \/ iterate_order
  \/ \E n \in Nrs : callback(n)
  \/ iterate_end

Spec == Init /\ [][Next]_vars
=============================================================================

\* Files of up to seven records at four times, in every order.  The replay is
\* the end: there is no step after it.
SPECIFICATION RecordOrderSpec
CONSTANTS
  Nil = Nil
  Nodes = {0, 1, 2, 3, 4, 5, 6}
  Keys = {0, 1, 2, 3}
INVARIANTS
  TypeOK
  NoWildPointer
  AlmostBalanced
PROPERTY
  ImplementsSorted
CHECK_DEADLOCK FALSE

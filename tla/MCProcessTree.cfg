\* Creations, searches and removals of up to seven processes in every order.
\* The print of the processes is the end: there is no step after it.
SPECIFICATION ProcessTreeSpec
CONSTANTS
  Nil = Nil
  Nodes = {1, 2, 3, 4, 5, 6, 7}
  Keys = {1, 2, 3, 4, 5, 6, 7}
INVARIANTS
  NoWildPointer
  FindsMembers
  AlmostBalanced
PROPERTIES
  ImplementsPidCalls
  CallsReturn
CHECK_DEADLOCK FALSE

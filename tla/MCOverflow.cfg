\* The system grants up to five threads.
SPECIFICATION FairSpec
CONSTANT MaxThreads = 5
INVARIANTS
  OwnNumber
  KilledHasLeft
PROPERTY
  CommandsRun
CHECK_DEADLOCK FALSE

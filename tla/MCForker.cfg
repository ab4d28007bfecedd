\* Up to five forks, and none, which means six; five processes at a time.
SPECIFICATION FairSpec
CONSTANTS
  Wanted = {0, 1, 2, 3, 4, 5}
  WordSize = 6
  Limit = 5
INVARIANTS
  TypeOK
  ForksAccount
  OrphansOfCrashes
  SomebodyFails
PROPERTY
  AllEnd
CHECK_DEADLOCK FALSE

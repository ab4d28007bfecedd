\* Every function in one binary: the address cache is sound.
SPECIFICATION MCSpec
CONSTANTS
  a1 = a1  a2 = a2  a3 = a3  none = none
  app = app  lib = lib
  main = main  loop = loop  qsort = qsort  qq = qq
  Addrs <- MCAddrs
  NoAddr = none
  BinNames = {app, lib}
  Sources = {main, loop, qsort}
  Addr2Line <- Separate
  Periods <- MCPeriods
  CacheSize = 2
  MemoryFails = FALSE
  MaxSamples = 5
INVARIANTS
  TypeOK
  LookupSound
  OneEntryPerSource
PROPERTY
  ImplementsTotals
CHECK_DEADLOCK FALSE

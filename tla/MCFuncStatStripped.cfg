\* Two binaries without symbols share the source function ??.
SPECIFICATION MCSpec
CONSTANTS
  a1 = a1  a2 = a2  a3 = a3  none = none
  app = app  lib = lib
  main = main  loop = loop  qsort = qsort  qq = qq
  Addrs <- MCAddrs
  NoAddr = none
  BinNames = {app, lib}
  Sources = {main, loop, qsort, qq}
  Addr2Line <- Stripped
  Periods <- MCPeriods
  CacheSize = 2
  MemoryFails = FALSE
  MaxSamples = 4
INVARIANT
  LookupSound
CHECK_DEADLOCK FALSE

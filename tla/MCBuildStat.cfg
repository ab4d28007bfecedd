\* Lifecycles and samples: the common process, threads, reused pids, regions, a
\* malloc that may fail.
SPECIFICATION MCSpec
CONSTANTS
  app = app  lib = lib  kern = kern
  f = f  g = g  k = k
  sh = sh  none = none
  Pids = {1, 9}
  Tids = {1, 3, 9}
  COMMON_PROC = 9
  Times = {0, 1}
  NoExit = 3
  WordSize = 8
  Ips = {2, 5}
  Regions <- AllRegions
  Vdsos = {0, 3}
  Comms = {sh}
  NoComm = none
  BinNames = {app, lib, kern}
  Sources = {f, g, k}
  Addr2Line <- Table
  Periods = {3}
  CacheSize = 2
  MemoryFails = TRUE
  MaxRecords = 4
INVARIANTS
  TypeOK
  ProcessesAccount
  FunctionsAccount
  LifetimesDisjoint
  EveryProcessReportedOnce
  AddressNoUnderflow
CHECK_DEADLOCK FALSE

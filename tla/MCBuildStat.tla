---------------------------- MODULE MCBuildStat -----------------------------
(***************************************************************************)
(* BuildStat on small sets of records.  An address space of eight          *)
(* addresses: an application at 1..2, a library at 4..5, and an empty      *)
(* region at 0, whose end wraps around to the last address.                *)
(***************************************************************************)
EXTENDS BuildStat

CONSTANTS
  MaxRecords,     \* bound: records in one behaviour
  app, lib, kern, \* binaries
  f, g, k,        \* source functions
  sh, none        \* process names

AppRegion  == [start |-> 1, len |-> 2, filename |-> app]
LibRegion  == [start |-> 4, len |-> 2, filename |-> lib]
NoRegion   == [start |-> 0, len |-> 0, filename |-> kern]

AllRegions == {AppRegion, LibRegion, NoRegion}
AppOnly    == {AppRegion}

\* A function per binary.
Table ==
  [x \in Addrs \X {app, lib, kern} |->
     CASE x[2] = app -> f [] x[2] = lib -> g [] OTHER -> k]

MCNext == (overview_csv.lines < MaxRecords /\ Next) \/ print_processes

MCSpec == Init /\ [][MCNext]_vars
=============================================================================

----------------------------- MODULE MCFuncStat -----------------------------
(***************************************************************************)
(* FuncStat on two binaries with three addresses each.                     *)
(***************************************************************************)
EXTENDS FuncSamples, SequencesExt

CONSTANTS
  MaxSamples,              \* bound: samples added in one behaviour
  a1, a2, a3, none,        \* addresses and the filler
  app, lib,                \* binaries
  main, loop, qsort, qq    \* source functions; qq is ("??", "??")

MCAddrs == {a1, a2, a3}
MCPeriods == {1, 3}

\* Every function in one binary: app has main (two addresses) and loop, lib
\* has qsort (three addresses, one more than a cache of two holds).
Separate ==
  [x \in MCAddrs \X {app, lib} |->
     IF x[2] = lib THEN qsort ELSE IF x[1] = a3 THEN loop ELSE main]

\* Neither binary has symbols for a2, so addr2line answers ?? for both; a1
\* of app and of lib resolve.
Stripped ==
  [x \in MCAddrs \X {app, lib} |->
     CASE x[2] = lib /\ x[1] = a1 -> qsort
       [] x[2] = app /\ x[1] = a1 -> main
       [] x[2] = app /\ x[1] = a3 -> loop
       [] OTHER -> qq]

Counted == FoldLeft(LAMBDA n, e : n + e.samples, error.samples, head)

MCNext ==
  /\ Counted < MaxSamples
  /\ SamplesNext

MCSpec == SamplesInit /\ [][MCNext]_<<vars, sample>>
=============================================================================

----------------------------- MODULE FuncTotals -----------------------------
(***************************************************************************)
(* What decode/funcstat.c promises to its only caller, decodeSample: the   *)
(* samples and the period of every source function are accumulated under   *)
(* the source function that addr2line gives for the sampled address, or    *)
(* under the nameless error entry when no name could be found.  No cache,  *)
(* no list, no search.                                                     *)
(***************************************************************************)
EXTENDS Naturals

CONSTANTS
  Addrs,     \* addresses a sample can be resolved for
  BinNames,  \* file names of binaries
  Sources,   \* source functions: a pair (source file, function name)
  Addr2Line, \* the source function of <<address, binary>>
  Periods    \* periods a sample record can carry

VARIABLES
  totals,    \* [samples, period] of every source function
  lost,      \* [samples, period] of the error entry
  sample     \* address, binary and period of the sample that came last

vars == <<totals, lost, sample>>

Zero == [samples |-> 0, period |-> 0]

Add(t, period) == [samples |-> t.samples + 1, period |-> t.period + period]

Init ==
  /\ totals = [s \in Sources |-> Zero]
  /\ lost = Zero
  /\ sample = << >>

\* A sample whose source function is known is added to that function.
Count(addr, bin, period) ==
  /\ totals' = [totals EXCEPT ![Addr2Line[<<addr, bin>>]] = Add(@, period)]
  /\ UNCHANGED lost

\* A sample without a name is kept as well, in the error entry.
Lose(period) ==
  /\ lost' = Add(lost, period)
  /\ UNCHANGED totals

\* The call for a sample: where it is added depends on this sample alone.
Next ==
  \E addr \in Addrs, bin \in BinNames, period \in Periods :
    /\ sample' = <<addr, bin, period>>
    /\ Count(addr, bin, period) \/ Lose(period)

Spec == Init /\ [][Next]_vars
=============================================================================

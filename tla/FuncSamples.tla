---------------------------- MODULE FuncSamples ----------------------------
(***************************************************************************)
(* FuncStat with a history of the call that was made last, and what it     *)
(* implements: FuncTotals, for exactly this call.                          *)
(***************************************************************************)
EXTENDS FuncStat

VARIABLE sample  \* history: address, binary and period of the last sample

SamplesInit == Init /\ sample = << >>

SamplesNext ==
  \E addr \in Addrs, bin_name \in BinNames, period \in Periods :
    /\ CountSample(addr, bin_name, period)
    /\ sample' = <<addr, bin_name, period>>

SamplesSpec == SamplesInit /\ [][SamplesNext]_<<vars, sample>>

-----------------------------------------------------------------------------
(* The totals of a source function are those of its entry, or zero while   *)
(* it has none.                                                            *)

TotalOf(source) ==
  LET hits == NameHits(source) IN
  IF hits = {}
    THEN [samples |-> 0, period |-> 0]
    ELSE [samples |-> head[First(hits)].samples,
          period  |-> head[First(hits)].period]

Totals == INSTANCE FuncTotals WITH
            totals <- [s \in Sources |-> TotalOf(s)],
            lost   <- error,
            sample <- sample

(***************************************************************************)
(* Every sample is accumulated, once and with its own period, under the    *)
(* function addr2line names for its own address and binary, or in the      *)
(* error entry, and no other total changes: for each call of force_entry   *)
(* the cached, searched list does what FuncTotals does, provided malloc    *)
(* never fails and no function occurs in two binaries.                     *)
(***************************************************************************)
ImplementsTotals == Totals!Spec
=============================================================================

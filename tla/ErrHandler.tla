----------------------------- MODULE ErrHandler -----------------------------
(***************************************************************************)
(* util/errhandler: the errors of readperf are the numbers from 0 on, and  *)
(* set_last_error takes an errno in the same number.                       *)
(***************************************************************************)
EXTENDS Integers, Sequences

ERR_NONE == 0
ERR_NOT_YET_DEFINED == 1
ERR_FILE_END_TO_EARLY == 3
ERR_SIZE_MISMATCH == 4
ERR_SAMPLES_DIFFER_IN_TYPE == 5
ERR_TRACE_INFO_NOT_FOUND_FOR_CONFIG == 6
ERR_NO_PERF_FILE == 8

ERROR_TEXT ==
  <<"no error", "not yet defined", "decode sample", "file ended to early",
    "size mismatch", "samples differ in type", "trace info not found for config",
    "entry not found", "no perf file", "execution of external program failed",
    "process already exists", "process not found", "memory range not found">>

\* What print_last_error prints for an error; behind the table lies anything.
Report(error) ==
  IF error < 0 THEN "system error"
  ELSE IF error < Len(ERROR_TEXT) THEN ERROR_TEXT[error + 1]
  ELSE "undefined"
=============================================================================

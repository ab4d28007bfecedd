---------------------------- MODULE ParseSample ----------------------------
(***************************************************************************)
(* util/origperf.c: perf_event__parse_sample takes a record apart, one     *)
(* test per field of the sample type.  A sample is read from its first     *)
(* word on, any other record from its last word back.  The words of a      *)
(* record are those behind its header, each a pair of the field it belongs *)
(* to and a value.                                                         *)
(***************************************************************************)
EXTENDS Integers, Sequences, SequencesExt, FiniteSets

Unset == -1    \* the defaults, -1 and -1ULL
Garbage == -2  \* what the stack holds

\* The tests of perf_event__parse_sample.
ParseOrder ==
  <<"IP", "TID", "TIME", "ADDR", "ID", "STREAM_ID", "CPU", "PERIOD", "READ",
    "CALLCHAIN", "RAW">>

\* parse_id_sample without one of its tests.
IdOrder_NoStreamId == <<"CPU", "ID", "TIME", "TID">>

\* The tests of perf_event__parse_id_sample.
IdOrder == <<"CPU", "STREAM_ID", "ID", "TIME", "TID">>

\* The order in which the kernel writes the fields: perf_output_sample in front,
\* perf_event__output_id_sample at the end of all other records.
KernelSample ==
  <<"IP", "TID", "TIME", "ADDR", "ID", "STREAM_ID", "CPU", "PERIOD", "READ",
    "CALLCHAIN", "RAW">>
KernelId == <<"TID", "TIME", "ID", "STREAM_ID", "CPU">>

Before(order, f, g) == \E m, n \in DOMAIN order : m < n /\ order[m] = f /\ order[n] = g

\* Where the kernel writes a field of which a record keeps the word; all fields
\* in front of it and all those behind an id are one word.
KernelPlace(isSample, words, type, f) ==
  IF isSample THEN 1 + Cardinality({g \in type : Before(KernelSample, g, f)})
  ELSE Len(words) - Cardinality({g \in type : Before(KernelId, f, g)})

WrittenByKernel(isSample, words, type) ==
  LET fields == type \cap ToSet(IF isSample THEN KernelSample ELSE KernelId)
      place(f) == KernelPlace(isSample, words, type, f)
  IN  \A f \in {"TID", "TIME", "ID", "CPU", "IP", "PERIOD"} :
        /\ f \in fields => place(f) \in DOMAIN words
        /\ \A n \in DOMAIN words : words[n].field = f <=> f \in fields /\ n = place(f)

\* The field as the caller has it on its stack, with the defaults set.
Default(f) ==
  [field |-> f, value |-> IF f \in ToSet(IdOrder) THEN Unset ELSE Garbage]

\* The words the tests before that of f have passed; a call chain is more than
\* one word, but only raw data follow it, which no record keeps.
Taken(order, type, f) ==
  Cardinality({n \in DOMAIN order : order[n] \in type /\ \A m \in 1 .. n : order[m] # f})

\* PERF_SAMPLE_READ is refused before; a word outside the record is garbage.
parse_sample(isSample, words, type) ==
  LET order == IF isSample THEN ParseOrder ELSE IdOrder
      at(f) == IF isSample THEN 1 + Taken(order, type, f)
                           ELSE Len(words) - Taken(order, type, f)
  IN  [f \in ToSet(ParseOrder) |->
         IF f \notin type \cap ToSet(order) THEN Default(f)
         ELSE IF at(f) \in DOMAIN words THEN words[at(f)]
         ELSE [field |-> "stack", value |-> Garbage]]
=============================================================================

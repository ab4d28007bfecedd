----------------------------- MODULE MCPerfFile -----------------------------
(***************************************************************************)
(* PerfFile on four families of small files, with records as the kernel    *)
(* writes them.                                                            *)
(***************************************************************************)
EXTENDS PerfFile

CONSTANT MaxChain  \* bound: addresses in the call chain of a sample

Written(fields, t, chain, value) ==
  FlattenSeq([n \in DOMAIN fields |->
    IF fields[n] \notin t THEN << >>
    ELSE IF fields[n] = "CALLCHAIN"
      THEN <<[field |-> "CALLCHAIN", value |-> chain]>>
             \o [m \in 1 .. chain |-> [field |-> "address", value |-> m]]
    ELSE <<[field |-> fields[n], value |-> value]>>])

Sample(t, chain, value) == [type |-> "SAMPLE", words |-> Written(KernelSample, t, chain, value)]

Other(type, t, payload, value) ==
  [type |-> type, words |-> [n \in 1 .. payload |-> [field |-> "payload", value |-> value]]
                              \o Written(KernelId, t, 0, value)]

All == {"TID", "PERIOD", "IP", "TIME"}

Attr(type, ids) ==
  [sized |-> TRUE, sample_id_all |-> TRUE, sample_type |-> type, config |-> 0,
   freq |-> TRUE, mmap |-> TRUE, ids |-> ids, offset |-> 2]

\* A file with these attributes and records: header, ids, attributes, types,
\* records, and nothing missing at its end.
File(attrs, records) ==
  LET size == FoldLeft(LAMBDA sum, r : sum + Size(r), 0, records)
  IN  [magic |-> TRUE, attr_size |-> TRUE,
       attrs |-> [whole |-> TRUE, offset |-> 8, list |-> attrs],
       types |-> [whole |-> TRUE, offset |-> 12, list |-> <<0>>],
       data  |-> [offset |-> 14, size |-> size, records |-> records],
       length |-> 14 + size]

\* MMAP2 is a type the headers readperf was built with do not have; a LOST
\* record without words is nothing but a header.
SomeRecords ==
  {Other("COMM", All, 1, 3), Sample(All, 0, 7), Other("LOST", {}, 0, 0), Other("MMAP2", All, 1, 3)}

\* Files of up to four records, whole or cut off anywhere in their data.
DataFiles ==
  UNION {LET f == File(<<Attr(All, << >>)>>, rs)
         IN  {[f EXCEPT !.length = @ - cut] : cut \in 0 .. 5}
           : rs \in BoundedSeq(SomeRecords, 4)}

\* Samples of other contents, and records that are too large.
TypeFiles ==
  {File(<<Attr(t, << >>)>>, <<Other("COMM", t, payload, 3), Sample(t, chain, 7)>>) :
     t \in {t \in SUBSET ToSet(KernelSample) : {"TID", "IP"} \subseteq t},
     payload \in 1 .. 2, chain \in 0 .. MaxChain}

\* Up to three attributes, with up to three ids each.
AttrFiles ==
  {File(attrs, <<Sample(IF attrs = << >> THEN All ELSE attrs[1].sample_type, 0, 7)>>) :
     attrs \in BoundedSeq({Attr(All, SubSeq(<<4, 5, 6>>, 1, n)) : n \in 0 .. 3}
                            \cup {Attr(All \ {"TIME"}, <<4>>)}, 3)}

\* Files with one thing wrong.
BadFiles ==
  LET f == File(<<Attr(All, <<4>>)>>, <<Sample(All, 0, 7)>>)
      a == Attr(All, <<4>>)
  IN  {[f EXCEPT !.magic = FALSE], [f EXCEPT !.attr_size = FALSE],
       [f EXCEPT !.attrs.whole = FALSE], [f EXCEPT !.types.whole = FALSE],
       [f EXCEPT !.types.list = <<1>>], [f EXCEPT !.length = 0]}
      \cup {[f EXCEPT !.length = n] : n \in {2, 8, 12, 14}}
      \cup {[f EXCEPT !.attrs.list[1] = b] :
              b \in {[a EXCEPT !.sized = FALSE], [a EXCEPT !.sample_id_all = FALSE],
                     [a EXCEPT !.freq = FALSE], [a EXCEPT !.mmap = FALSE]}}

MCFiles == DataFiles \cup TypeFiles \cup AttrFiles \cup BadFiles
=============================================================================

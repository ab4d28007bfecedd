------------------------------ MODULE PerfFile ------------------------------
(***************************************************************************)
(* perffile/session.c, perffile/perffile.c and the checks of readperf.c:   *)
(* a data file is read from its header to its last record, and is either   *)
(* refused or handed to the replay.                                        *)
(*                                                                         *)
(* One action is one check point of the code: the header, an attribute, an *)
(* id, the types, the header of a record, its data.  A file is what the    *)
(* reads find in it.  Offsets and sizes are in words: an attribute, an id, *)
(* a type and the header of a record are one word each.  A read fails when *)
(* the file is too short, and any system call may fail by itself.          *)
(***************************************************************************)
EXTENDS ParseSample, ErrHandler

CONSTANTS
  Files,     \* the data files
  Known,     \* record types readEvents takes: MMAP, COMM, FORK, EXIT, SAMPLE
  SAMPLE,    \* the type of samples
  Logged,    \* record types below PERF_RECORD_MAX
  Errnos,    \* values of errno after a system call that failed
  MaxEvent,  \* sizeof( union perf_event ), in words
  LinkStart, \* the first size of idlink, 4 in the code
  IntSize    \* 2^32: has_more_events compares with an int

ASSUME PerfFileAssumption ==
  /\ \A f \in Files :
       /\ f.attrs.offset \in Nat /\ f.data.offset \in Nat
       /\ f.attrs.list \in Seq([sized : BOOLEAN, sample_id_all : BOOLEAN, freq : BOOLEAN,
                               mmap : BOOLEAN, sample_type : SUBSET ToSet(ParseOrder),
                               config : Int, ids : Seq(Int), offset : Nat])
       /\ \A n \in DOMAIN f.data.records : Len(f.data.records[n].words) \in Nat
  /\ Errnos \subseteq Nat \ {0}
  /\ LinkStart \in Nat \ {0}
  /\ IntSize \in Nat \ {0}

VARIABLES
  file,           \* the file that is read
  pc,             \* what is read next, or "refused" or "replay"
  pos,            \* the offset of the file descriptor
  i, k,           \* loops of readAttr: attribute and id
  eventAttrCount, samplingType, \* session.c
  idlink, linkcount,            \* session.c; Len(idlink) is linkmemory
  evt,            \* header of the record that is read
  ev_nr,          \* number of that record
  orderTree,      \* records added to the tree, in the order of adding
  count,          \* overviewPrinter.c: records per type
  last_error,     \* errhandler.c
  errno

session == <<eventAttrCount, samplingType, idlink, linkcount>>
events == <<evt, ev_nr, orderTree, count>>
errors == <<last_error, errno>>
vars == <<file, pc, pos, i, k, session, events, errors>>

HeaderSize == 1
OneEvent == -1  \* -1ULL, the id of the only attribute
NoLink == [id |-> 0, entry |-> 0]
NoEvent == [type |-> "none", words |-> << >>]
Needed == {"TID", "PERIOD", "IP"}

-----------------------------------------------------------------------------
(* The file.                                                               *)

Attrs == file.attrs.list
Records == file.data.records

\* readn finds n words from an offset on.
readn(from, n) == from + n <= file.length

\* header.size
Size(record) == HeaderSize + Len(record.words)

\* The offset of the nth record.
Start(n) ==
  file.data.offset + SumFunctionOnSet([m \in DOMAIN Records |-> Size(Records[m])], 1 .. n - 1)

\* The data section is its records; those of a type the reader takes are what
\* the kernel has written for the one type of samples the attributes have.
ASSUME RecordsAssumption ==
  /\ NoEvent.type \notin Known
  /\ \A f \in Files :
       /\ f.data.records \in Seq([type : STRING, words : Seq([field : STRING, value : Int])])
       /\ f.data.size =
            SumFunction([n \in DOMAIN f.data.records |-> Size(f.data.records[n])])
       /\ \A a \in ToSet(f.attrs.list) : \A r \in ToSet(f.data.records) :
            /\ r.type \in Known
            /\ \A b \in ToSet(f.attrs.list) : b.sample_type = a.sample_type
            => WrittenByKernel(r.type = SAMPLE, r.words, a.sample_type)

\* The word at an offset taken as the header of a record; the data of records
\* is no header.
HeaderAt(at) ==
  IF \E n \in DOMAIN Records : Start(n) = at
    THEN Records[CHOOSE n \in DOMAIN Records : Start(n) = at]
    ELSE NoEvent

-----------------------------------------------------------------------------
(* Checks.  Each read or test has the error it reports; the first one that *)
(* fails ends the program.                                                 *)

check(ok, err) == [ok |-> ok, err |-> err]

Passed(checks) == \A n \in DOMAIN checks : checks[n].ok

Pass(checks) == Passed(checks) /\ UNCHANGED errors

Refuse(checks) ==
  /\ \E n \in DOMAIN checks :
       /\ ~checks[n].ok /\ \A m \in 1 .. n - 1 : checks[m].ok
       /\ last_error' = checks[n].err
  /\ pc' = "refused"
  /\ UNCHANGED <<file, pos, i, k, session, events, errno>>

\* trysys: where a read, lseek or malloc is tested the errno becomes the error.
SystemFails ==
  /\ pc \in {"header", "attrs", "ids", "events"} \/ (pc = "data" /\ evt.type \in Known)
  /\ errno' \in Errnos
  /\ last_error' = errno'
  /\ pc' = "refused"
  /\ UNCHANGED <<file, pos, i, k, session, events>>

\* try: false is returned without an error.
Silent == last_error

-----------------------------------------------------------------------------
(* The id links.                                                           *)

\* A growth that forgets to copy.
Links_NotCopied ==
  IF Len(idlink) = 0 THEN [n \in 1 .. LinkStart |-> NoLink]
  ELSE IF Len(idlink) = linkcount THEN [n \in 1 .. 2 * Len(idlink) |-> NoLink]
  ELSE idlink

\* An array that never grows.
Links_NotGrown ==
  IF Len(idlink) = 0 THEN [n \in 1 .. LinkStart |-> NoLink] ELSE idlink

\* The array with room for one more: LinkStart at first, then doubled.
Links ==
  IF Len(idlink) = 0 THEN [n \in 1 .. LinkStart |-> NoLink]
  ELSE IF Len(idlink) = linkcount
    THEN [n \in 1 .. 2 * Len(idlink) |-> IF n <= linkcount THEN idlink[n] ELSE NoLink]
  ELSE idlink

add_link(id, entry) ==
  /\ idlink' = [Links EXCEPT ![linkcount + 1] = [id |-> id, entry |-> entry]]
  /\ linkcount' = linkcount + 1

-----------------------------------------------------------------------------
(* start_session.                                                          *)

HeaderChecks ==
  << check(readn(0, HeaderSize), ERR_FILE_END_TO_EARLY),
     check(file.magic, ERR_NO_PERF_FILE),
     check(file.attr_size, ERR_SIZE_MISMATCH),
     check(file.attrs.whole, ERR_SIZE_MISMATCH) >>

StartSession ==
  /\ pc = "header"
  /\ \/ Refuse(HeaderChecks)
     \/ /\ Pass(HeaderChecks)
        /\ eventAttrCount' = Len(Attrs)
        /\ IF Len(Attrs) = 1 THEN add_link(OneEvent, 0) ELSE UNCHANGED <<idlink, linkcount>>
        /\ pc' = "attrs"
        /\ pos' = file.attrs.offset
        /\ UNCHANGED <<file, i, k, samplingType, events>>

\* One round of the loop over the attributes.
AttrChecks ==
  << check(readn(file.attrs.offset + i, 1), ERR_FILE_END_TO_EARLY),
     check(Attrs[i + 1].sized, ERR_SIZE_MISMATCH),
     check(Attrs[i + 1].sample_id_all, ERR_NOT_YET_DEFINED),
     check(i = 0 \/ samplingType = Attrs[i + 1].sample_type, ERR_SAMPLES_DIFFER_IN_TYPE) >>

ReadAttr ==
  /\ pc = "attrs"
  /\ i < eventAttrCount
  /\ \/ Refuse(AttrChecks)
     \/ /\ Pass(AttrChecks)
        /\ samplingType' = Attrs[i + 1].sample_type
        /\ pc' = "ids"
        /\ pos' = IF Attrs[i + 1].ids = << >> THEN file.attrs.offset + i + 1
                                              ELSE Attrs[i + 1].offset
        /\ k' = 0
        /\ UNCHANGED <<file, i, eventAttrCount, idlink, linkcount, events>>

\* One round of the loop over the ids of an attribute.
IdChecks == << check(readn(pos, 1), ERR_FILE_END_TO_EARLY) >>

ReadId ==
  /\ pc = "ids"
  /\ k < Len(Attrs[i + 1].ids)
  /\ \/ Refuse(IdChecks)
     \/ /\ Pass(IdChecks)
        /\ add_link(Attrs[i + 1].ids[k + 1], i)
        /\ pos' = pos + 1
        /\ k' = k + 1
        /\ UNCHANGED <<file, pc, i, eventAttrCount, samplingType, events>>

NextAttr ==
  /\ pc = "ids"
  /\ k = Len(Attrs[i + 1].ids)
  /\ i' = i + 1
  /\ pc' = "attrs"
  /\ UNCHANGED <<file, pos, k, session, events, errors>>

\* A file is accepted whatever its samples contain.
TypeChecks_AnySample ==
  << check(file.types.whole, ERR_SIZE_MISMATCH),
     check(readn(file.types.offset, Len(file.types.list)), ERR_FILE_END_TO_EARLY),
     check(\A a \in ToSet(Attrs) : a.config \in ToSet(file.types.list),
           ERR_TRACE_INFO_NOT_FOUND_FOR_CONFIG) >>

\* readTypes, and the test read_perf_file makes before it reads events.
TypeChecks ==
  << check(file.types.whole, ERR_SIZE_MISMATCH),
     check(readn(file.types.offset, Len(file.types.list)), ERR_FILE_END_TO_EARLY),
     check(\A a \in ToSet(Attrs) : a.config \in ToSet(file.types.list),
           ERR_TRACE_INFO_NOT_FOUND_FOR_CONFIG),
     check(Needed \subseteq samplingType, ERR_NOT_YET_DEFINED) >>

ReadTypes ==
  /\ pc = "attrs"
  /\ i = eventAttrCount
  /\ \/ Refuse(TypeChecks)
     \/ /\ Pass(TypeChecks)
        /\ pc' = "events"
        /\ pos' = file.data.offset
        /\ UNCHANGED <<file, i, k, session, events>>

-----------------------------------------------------------------------------
(* readEvents.                                                             *)

\* The conversion of an offset to int.
AsInt(off) ==
  LET low == off % IntSize IN IF low < IntSize \div 2 THEN low ELSE low - IntSize

has_more_events == pos < AsInt(file.data.offset + file.data.size)

EventChecks == << check(readn(pos, 1), ERR_FILE_END_TO_EARLY) >>

\* log_type: a type the headers readperf was built with do not have is unknown.
Column(type) == IF type \in Logged THEN type ELSE "unknown"

\* next_event_header.
NextEvent ==
  /\ pc = "events"
  /\ has_more_events
  /\ \/ Refuse(EventChecks)
     \/ /\ Pass(EventChecks)
        /\ evt' = HeaderAt(pos)
        /\ count' = [count EXCEPT ![Column(HeaderAt(pos).type)] = @ + 1]
        /\ pos' = pos + 1
        /\ pc' = "data"
        /\ UNCHANGED <<file, i, k, session, ev_nr, orderTree>>

\* The record that is kept: what the create functions copy from the event or
\* from its decoded fields, and the header readEvents sets.
Kept(nr, record) ==
  LET isSample == record.type = SAMPLE
      data == parse_sample(isSample, record.words, samplingType)
  IN  [nr |-> nr, type |-> record.type,
       time |-> data["TIME"], cpu |-> data["CPU"], id |-> data["ID"],
       body |-> IF isSample THEN <<data["TID"], data["IP"], data["PERIOD"]>>
                            ELSE <<record.words[1]>>]

DataChecks ==
  << check(Size(evt) <= MaxEvent, Silent),
     check(readn(pos, Size(evt) - 1), ERR_FILE_END_TO_EARLY),
     check(~(evt.type = SAMPLE /\ "READ" \in samplingType), ERR_NOT_YET_DEFINED) >>

\* A record of a type the replay knows.
TakeEvent ==
  /\ pc = "data"
  /\ evt.type \in Known
  /\ \/ Refuse(DataChecks)
     \/ /\ Pass(DataChecks)
        /\ pos' = pos + Size(evt) - 1
        /\ orderTree' = Append(orderTree, Kept(ev_nr, evt))
        /\ ev_nr' = ev_nr + 1
        /\ pc' = "events"
        /\ UNCHANGED <<file, i, k, session, evt, count>>

\* A skip that counts from the end of the header.
SkipEvent_TooFar ==
  /\ pc = "data"
  /\ evt.type \notin Known
  /\ pos' = pos + Size(evt)
  /\ ev_nr' = ev_nr + 1
  /\ pc' = "events"
  /\ UNCHANGED <<file, i, k, session, evt, orderTree, count, errors>>

\* A skip that reads the data and waits at the end of the file.
SkipEvent_Waits ==
  /\ pc = "data"
  /\ evt.type \notin Known
  /\ readn(pos, Size(evt) - 1)
  /\ pos' = pos + Size(evt) - 1
  /\ ev_nr' = ev_nr + 1
  /\ pc' = "events"
  /\ UNCHANGED <<file, i, k, session, evt, orderTree, count, errors>>

\* Any other record; lseek does not mind the end of the file.
SkipEvent ==
  /\ pc = "data"
  /\ evt.type \notin Known
  /\ pos' = pos + Size(evt) - 1
  /\ ev_nr' = ev_nr + 1
  /\ pc' = "events"
  /\ UNCHANGED <<file, i, k, session, evt, orderTree, count, errors>>

EndOfData ==
  /\ pc = "events"
  /\ ~has_more_events
  /\ pc' = "main"
  /\ UNCHANGED <<file, pos, i, k, session, events, errors>>

-----------------------------------------------------------------------------
(* main, after read_perf_file.  It prints these errors itself.             *)

MainChecks ==
  << check(eventAttrCount <= 1, Silent),
     check(Attrs[1].freq, Silent),
     check(Attrs[1].mmap, Silent) >>

Main ==
  /\ pc = "main"
  /\ \/ Refuse(MainChecks)
     \/ /\ Pass(MainChecks)
        /\ pc' = "replay"
        /\ UNCHANGED <<file, pos, i, k, session, events>>

Init ==
  /\ file \in Files
  /\ pc = "header"
  /\ pos = 0 /\ i = 0 /\ k = 0
  /\ eventAttrCount = 0 /\ samplingType = {}
  /\ idlink = << >> /\ linkcount = 0
  /\ evt = NoEvent /\ ev_nr = 0 /\ orderTree = << >>
  /\ count = [t \in Logged \cup {"unknown"} |-> 0]
  /\ last_error = ERR_NONE /\ errno = 0

Next ==
  \/ StartSession \/ ReadAttr \/ ReadId \/ NextAttr \/ ReadTypes
  \/ NextEvent \/ TakeEvent \/ SkipEvent \/ EndOfData \/ Main
  \/ SystemFails

Spec == Init /\ [][Next]_vars

\* One thread without a loop that waits: it takes a step whenever it can.
FairSpec == Spec /\ WF_vars(Next)

-----------------------------------------------------------------------------
(* Properties.                                                             *)

(***************************************************************************)
(* Types: the links never overrun their array (add_link writes             *)
(* idlink[linkcount] without a test of its own).                           *)
(***************************************************************************)
TypeOK ==
  /\ pc \in {"header", "attrs", "ids", "events", "data", "main", "refused", "replay"}
  /\ pos \in Nat /\ ev_nr \in Nat
  /\ eventAttrCount \in Nat
  /\ i \in 0 .. eventAttrCount /\ k \in Nat
  /\ samplingType \subseteq ToSet(ParseOrder)
  /\ linkcount \in 0 .. Len(idlink)
  /\ count \in [Logged \cup {"unknown"} -> Nat]
  /\ last_error \in 0 .. Len(ERROR_TEXT) - 1 \cup Errnos

\* The link of an only attribute and those of the attributes before the nth.
LinksBefore(n) ==
  (IF Len(Attrs) = 1 THEN 1 ELSE 0)
    + SumFunctionOnSet([a \in DOMAIN Attrs |-> Len(Attrs[a].ids)], 1 .. n - 1)

(***************************************************************************)
(* However often the array of links grows, it holds the ids of the file in *)
(* their order, each with its attribute, and all of them once the records  *)
(* are read.                                                               *)
(***************************************************************************)
LinksKept ==
  /\ Len(Attrs) = 1 /\ linkcount > 0 => idlink[1] = [id |-> OneEvent, entry |-> 0]
  /\ \A n \in DOMAIN Attrs : \A m \in DOMAIN Attrs[n].ids :
       LinksBefore(n) + m <= linkcount =>
         idlink[LinksBefore(n) + m] = [id |-> Attrs[n].ids[m], entry |-> n - 1]
  /\ pc \in {"events", "data", "main", "replay"} => linkcount = LinksBefore(Len(Attrs) + 1)

(***************************************************************************)
(* "We iterate through all records in the file" (perffile.c:64-65): when   *)
(* the file has been read, every record of a known type is in the tree     *)
(* with its index in the file, in the order of the file, and every record  *)
(* has been counted.                                                       *)
(***************************************************************************)
EveryRecordRead ==
  pc \in {"main", "replay"} =>
    /\ {<<r.nr, r.type>> : r \in ToSet(orderTree)} =
         {<<n - 1, Records[n].type>> : n \in {m \in DOMAIN Records : Records[m].type \in Known}}
    /\ \A m, n \in DOMAIN orderTree : m < n => orderTree[m].nr < orderTree[n].nr
    /\ \A c \in DOMAIN count :
         count[c] = Cardinality({n \in DOMAIN Records : Column(Records[n].type) = c})

(***************************************************************************)
(* Every record in the tree has the words the kernel wrote for its fields, *)
(* whatever fields come before or behind them, and the default for a field *)
(* that is not in the sample type: the order of the tests is the order of  *)
(* the kernel, from the front for samples, from the back for all others.   *)
(***************************************************************************)
FieldsAreKernels ==
  \A r \in ToSet(orderTree) :
    LET words == Records[r.nr + 1].words
        Written(f) ==
          IF \E w \in ToSet(words) : w.field = f
            THEN CHOOSE w \in ToSet(words) : w.field = f
            ELSE Default(f)
    IN  /\ <<r.time, r.cpu, r.id>> = <<Written("TIME"), Written("CPU"), Written("ID")>>
        /\ r.type = SAMPLE =>
             r.body = <<Written("TID"), Written("IP"), Written("PERIOD")>>

(***************************************************************************)
(* "The last system error (errno) will be reported" (errhandler.h:35-37):  *)
(* a system call that failed is reported as a system error.                *)
(***************************************************************************)
SystemErrorsReported ==
  pc = "refused" /\ errno # 0 => Report(last_error) = "system error"

(***************************************************************************)
(* main looks at the first attribute without asking whether there is one;  *)
(* a file without attributes has been refused before, by the test of the   *)
(* sampling type it leaves at zero.                                        *)
(***************************************************************************)
MainHasAttribute == pc = "main" => eventAttrCount >= 1

(***************************************************************************)
(* Every file is refused or replayed in the end: the position advances     *)
(* over every record, those that consist of their header alone included.   *)
(***************************************************************************)
Decides == <>(pc \in {"refused", "replay"})
=============================================================================

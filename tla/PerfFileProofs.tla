--------------------------- MODULE PerfFileProofs ---------------------------
(***************************************************************************)
(* Theorems about PerfFile for any set of files: the types, with the array *)
(* of links that is never overrun, and the attribute main finds.           *)
(***************************************************************************)
EXTENDS PerfFile, SumLemmas, TLAPS

Link == [id : Int, entry : Int]

\* What the reader knows of the file at each point; the sampling type is that
\* of an attribute, and the replay needs one.
Inv ==
  /\ file \in Files
  /\ pc \in {"header"} => eventAttrCount = 0 /\ i = 0
  /\ pc \notin {"header", "refused"} => eventAttrCount = Len(Attrs)
  /\ pc = "ids" => i < eventAttrCount
  /\ eventAttrCount = 0 => samplingType = {}
  /\ pc \in {"events", "data", "main"} => Needed \subseteq samplingType
  /\ idlink \in Seq(Link)
  /\ Len(evt.words) \in Nat

IInv == TypeOK /\ Inv

Errors == 0 .. Len(ERROR_TEXT) - 1 \cup Errnos

LEMMA ErrorsAreNumbers ==
  {ERR_NONE, ERR_NOT_YET_DEFINED, ERR_FILE_END_TO_EARLY, ERR_SIZE_MISMATCH,
   ERR_SAMPLES_DIFFER_IN_TYPE, ERR_TRACE_INFO_NOT_FOUND_FOR_CONFIG,
   ERR_NO_PERF_FILE} \subseteq Errors
<1>1. Len(ERROR_TEXT) = 13
  BY DEF ERROR_TEXT
<1> QED
  BY <1>1 DEF Errors, ERR_NONE, ERR_NOT_YET_DEFINED, ERR_FILE_END_TO_EARLY,
     ERR_SIZE_MISMATCH, ERR_SAMPLES_DIFFER_IN_TYPE,
     ERR_TRACE_INFO_NOT_FOUND_FOR_CONFIG, ERR_NO_PERF_FILE

LEMMA InitInv == Init => IInv
<1> SUFFICES ASSUME Init PROVE IInv
  OBVIOUS
<1>1. /\ file \in Files /\ pc = "header" /\ pos = 0 /\ i = 0 /\ k = 0
      /\ eventAttrCount = 0 /\ samplingType = {}
      /\ idlink = << >> /\ linkcount = 0
      /\ evt = NoEvent /\ ev_nr = 0
      /\ count = [t \in Logged \cup {"unknown"} |-> 0]
      /\ last_error = ERR_NONE
  BY DEF Init
<1>2. TypeOK
  BY <1>1, ErrorsAreNumbers DEF TypeOK, Errors
<1>3. Inv
  BY <1>1 DEF Inv, NoEvent
<1> QED
  BY <1>2, <1>3 DEF IInv

\* The file as the assumption describes it.
LEMMA FileType ==
  ASSUME file \in Files
  PROVE  /\ file.attrs.offset \in Nat /\ file.data.offset \in Nat
         /\ Len(Attrs) \in Nat
         /\ \A n \in DOMAIN Attrs :
              /\ Attrs[n].sample_type \subseteq ToSet(ParseOrder)
              /\ Attrs[n].ids \in Seq(Int) /\ Attrs[n].offset \in Nat
<1> DEFINE Attr == [sized : BOOLEAN, sample_id_all : BOOLEAN, freq : BOOLEAN, mmap : BOOLEAN,
                    sample_type : SUBSET ToSet(ParseOrder), config : Int, ids : Seq(Int),
                    offset : Nat]
<1>1. /\ file.attrs.offset \in Nat /\ file.data.offset \in Nat
      /\ Attrs \in Seq(Attr)
  BY PerfFileAssumption DEF Attrs
<1>2. \A a \in Attr : /\ a.sample_type \subseteq ToSet(ParseOrder)
                      /\ a.ids \in Seq(Int) /\ a.offset \in Nat
  OBVIOUS
<1>3. Len(Attrs) \in Nat /\ \A n \in DOMAIN Attrs : Attrs[n] \in Attr
  <2> HIDE DEF Attr
  <2> QED
    BY <1>1
<1> QED
  BY <1>1, <1>2, <1>3

LEMMA HeaderType ==
  ASSUME file \in Files, NEW at
  PROVE  Len(HeaderAt(at).words) \in Nat
<1>1. CASE \E n \in DOMAIN Records : Start(n) = at
  <2>1. HeaderAt(at) = Records[CHOOSE n \in DOMAIN Records : Start(n) = at]
    BY <1>1 DEF HeaderAt
  <2>2. (CHOOSE n \in DOMAIN Records : Start(n) = at) \in DOMAIN Records
    BY <1>1
  <2> QED
    BY <2>1, <2>2, PerfFileAssumption DEF Records
<1>2. CASE ~\E n \in DOMAIN Records : Start(n) = at
  <2>1. HeaderAt(at) = NoEvent
    BY <1>2 DEF HeaderAt
  <2> QED
    BY <2>1 DEF NoEvent
<1> QED
  BY <1>1, <1>2

\* Links has room for one more and loses none.
LEMMA LinksRoom ==
  ASSUME idlink \in Seq(Link), linkcount \in 0 .. Len(idlink)
  PROVE  Links \in Seq(Link) /\ linkcount + 1 \in 1 .. Len(Links)
<1>0. NoLink \in Link /\ LinkStart \in Nat \ {0}
  BY PerfFileAssumption DEF NoLink, Link
<1>1. CASE Len(idlink) = 0
  <2>1. Links = [n \in 1 .. LinkStart |-> NoLink]
    BY <1>1 DEF Links
  <2> QED
    BY <1>0, <1>1, <2>1
<1>2. CASE Len(idlink) # 0 /\ Len(idlink) = linkcount
  <2>1. Links = [n \in 1 .. 2 * Len(idlink) |-> IF n <= linkcount THEN idlink[n] ELSE NoLink]
    BY <1>2 DEF Links
  <2>2. 2 * Len(idlink) \in Nat /\ \A n \in 1 .. Len(idlink) : idlink[n] \in Link
    OBVIOUS
  <2>3. Links \in [1 .. 2 * Len(idlink) -> Link]
    BY <1>0, <1>2, <2>1, <2>2
  <2>4. Links \in Seq(Link) /\ Len(Links) = 2 * Len(idlink)
    BY <2>2, <2>3
  <2> QED
    BY <1>2, <2>4
<1>3. CASE Len(idlink) # 0 /\ Len(idlink) # linkcount
  <2>1. Links = idlink
    BY <1>3 DEF Links
  <2> QED
    BY <1>3, <2>1
<1> QED
  BY <1>1, <1>2, <1>3

LEMMA AddLinkType ==
  ASSUME idlink \in Seq(Link), linkcount \in 0 .. Len(idlink),
         NEW id \in Int, NEW entry \in Int, add_link(id, entry)
  PROVE  idlink' \in Seq(Link) /\ linkcount' \in 0 .. Len(idlink')
<1>1. Links \in Seq(Link) /\ linkcount + 1 \in 1 .. Len(Links)
  BY LinksRoom
<1>2. /\ idlink' = [Links EXCEPT ![linkcount + 1] = [id |-> id, entry |-> entry]]
      /\ linkcount' = linkcount + 1
  BY DEF add_link
<1>3. [id |-> id, entry |-> entry] \in Link
  BY DEF Link
<1>4. idlink' \in Seq(Link) /\ Len(idlink') = Len(Links)
  BY <1>1, <1>2, <1>3
<1> QED
  BY <1>1, <1>2, <1>4

-----------------------------------------------------------------------------
(* A refusal changes nothing but the error.                                *)

\* The errors of a list of checks.
Proper(checks) == \A n \in DOMAIN checks : checks[n].err \in Errors

LEMMA ProperChecks ==
  ASSUME IInv
  PROVE  \A checks \in {HeaderChecks, AttrChecks, IdChecks, TypeChecks, EventChecks,
                        DataChecks, MainChecks} : Proper(checks)
<1>1. last_error \in Errors
  BY DEF IInv, TypeOK, Errors
<1>2. \A ok, err : check(ok, err).err = err
  BY DEF check
<1>3. Proper(HeaderChecks)
  BY <1>2, ErrorsAreNumbers DEF Proper, HeaderChecks
<1>4. Proper(AttrChecks)
  BY <1>2, ErrorsAreNumbers DEF Proper, AttrChecks
<1>5. Proper(IdChecks) /\ Proper(EventChecks)
  BY <1>2, ErrorsAreNumbers DEF Proper, IdChecks, EventChecks
<1>6. Proper(TypeChecks)
  <2>1. \A ok1, ok2, ok3, ok4 :
          Proper(<<check(ok1, ERR_SIZE_MISMATCH), check(ok2, ERR_FILE_END_TO_EARLY),
                   check(ok3, ERR_TRACE_INFO_NOT_FOUND_FOR_CONFIG),
                   check(ok4, ERR_NOT_YET_DEFINED)>>)
    BY <1>2, ErrorsAreNumbers DEF Proper
  <2> QED
    BY <2>1, Zenon DEF TypeChecks
<1>7. Proper(DataChecks) /\ Proper(MainChecks)
  BY <1>1, <1>2, ErrorsAreNumbers DEF Proper, DataChecks, MainChecks, Silent
<1> QED
  BY <1>3, <1>4, <1>5, <1>6, <1>7

LEMMA StopInv ==
  ASSUME IInv, pc' = "refused", last_error' \in Errors,
         UNCHANGED <<file, pos, i, k, session, events>>
  PROVE  IInv'
<1>1. UNCHANGED <<eventAttrCount, samplingType, idlink, linkcount, evt, ev_nr, count>>
  BY DEF session, events
<1>2. TypeOK'
  BY <1>1 DEF IInv, TypeOK, Errors
<1>3. Inv'
  BY <1>1 DEF IInv, Inv
<1> QED
  BY <1>2, <1>3 DEF IInv

LEMMA RefuseInv ==
  ASSUME IInv, NEW checks, Proper(checks), Refuse(checks)
  PROVE  IInv'
<1>1. last_error' \in Errors
  BY DEF Refuse, Proper
<1> QED
  BY <1>1, StopInv DEF Refuse

LEMMA FourthOfFour ==
  ASSUME NEW a, NEW b, NEW c, NEW d
  PROVE  4 \in DOMAIN <<a, b, c, d>> /\ <<a, b, c, d>>[4] = d
OBVIOUS

LEMMA PassedCheck ==
  ASSUME NEW test, NEW err, check(test, err).ok
  PROVE  test
<1>1. check(test, err).ok = test
  BY DEF check
<1> QED
  BY <1>1

\* The test that is made for the samples is the one main relies on.
LEMMA SampleTypePassed ==
  ASSUME Pass(TypeChecks)
  PROVE  Needed \subseteq samplingType
<1>1. /\ 4 \in DOMAIN TypeChecks
      /\ TypeChecks[4] = check(Needed \subseteq samplingType, ERR_NOT_YET_DEFINED)
  BY FourthOfFour DEF TypeChecks
<1>2. TypeChecks[4].ok
  BY <1>1 DEF Pass, Passed
<1> QED
  BY <1>1, <1>2, PassedCheck

-----------------------------------------------------------------------------
(* The steps.                                                              *)

LEMMA StartSessionInv == ASSUME IInv, StartSession PROVE IInv'
<1>1. CASE Refuse(HeaderChecks)
  BY <1>1, ProperChecks, RefuseInv
<1>2. CASE ~Refuse(HeaderChecks)
  <2>1. /\ eventAttrCount' = Len(Attrs) /\ pc = "header" /\ pc' = "attrs"
        /\ pos' = file.attrs.offset
        /\ add_link(OneEvent, 0) \/ UNCHANGED <<idlink, linkcount>>
        /\ UNCHANGED <<file, i, k, samplingType, evt, ev_nr, count, last_error>>
    BY <1>2 DEF StartSession, Pass, errors, events
  <2>2. idlink' \in Seq(Link) /\ linkcount' \in 0 .. Len(idlink')
    <3>1. OneEvent \in Int /\ 0 \in Int
      BY DEF OneEvent
    <3> QED
      BY <2>1, <3>1, AddLinkType DEF IInv, TypeOK, Inv
  <2>3. file \in Files /\ i = 0 /\ samplingType = {}
    BY <2>1 DEF IInv, Inv
  <2>4. TypeOK'
    BY <2>1, <2>2, <2>3, FileType DEF IInv, TypeOK
  <2>5. Inv'
    BY <2>1, <2>2, <2>3 DEF IInv, Inv, Attrs
  <2> QED
    BY <2>4, <2>5 DEF IInv
<1> QED
  BY <1>1, <1>2

LEMMA ReadAttrInv == ASSUME IInv, ReadAttr PROVE IInv'
<1>1. CASE Refuse(AttrChecks)
  BY <1>1, ProperChecks, RefuseInv
<1>2. CASE ~Refuse(AttrChecks)
  <2>1. /\ pc = "attrs" /\ i < eventAttrCount /\ pc' = "ids" /\ k' = 0
        /\ samplingType' = Attrs[i + 1].sample_type
        /\ pos' \in {file.attrs.offset + i + 1, Attrs[i + 1].offset}
        /\ UNCHANGED <<file, i, eventAttrCount, idlink, linkcount, evt, ev_nr, count,
                       last_error>>
    BY <1>2 DEF ReadAttr, Pass, errors, events
  <2>2. file \in Files /\ eventAttrCount = Len(Attrs)
    BY <2>1 DEF IInv, Inv
  <2>3. i \in Nat /\ i + 1 \in 1 .. Len(Attrs)
    BY <2>1, <2>2, FileType DEF IInv, TypeOK
  <2>4. DOMAIN Attrs = 1 .. Len(Attrs)
    BY <2>2, PerfFileAssumption DEF Attrs
  <2>5. pos' \in Nat /\ samplingType' \subseteq ToSet(ParseOrder)
    BY <2>1, <2>2, <2>3, <2>4, FileType
  <2>6. TypeOK'
    BY <2>1, <2>5 DEF IInv, TypeOK
  <2>7. Inv'
    <3>1. eventAttrCount # 0
      BY <2>2, <2>3
    <3> QED
      BY <2>1, <2>2, <3>1 DEF IInv, Inv, Attrs
  <2> QED
    BY <2>6, <2>7 DEF IInv
<1> QED
  BY <1>1, <1>2

LEMMA ReadIdInv == ASSUME IInv, ReadId PROVE IInv'
<1>1. CASE Refuse(IdChecks)
  BY <1>1, ProperChecks, RefuseInv
<1>2. CASE ~Refuse(IdChecks)
  <2>1. /\ pc = "ids" /\ k < Len(Attrs[i + 1].ids)
        /\ add_link(Attrs[i + 1].ids[k + 1], i)
        /\ pos' = pos + 1 /\ k' = k + 1
        /\ UNCHANGED <<file, pc, i, eventAttrCount, samplingType, evt, ev_nr, count,
                       last_error>>
    BY <1>2 DEF ReadId, Pass, errors, events
  <2>2. file \in Files /\ eventAttrCount = Len(Attrs) /\ i < eventAttrCount
    BY <2>1 DEF IInv, Inv
  <2>3. i \in Nat /\ k \in Nat /\ i + 1 \in DOMAIN Attrs
    <3>1. DOMAIN Attrs = 1 .. Len(Attrs)
      BY <2>2, PerfFileAssumption DEF Attrs
    <3> QED
      BY <2>2, <3>1, FileType DEF IInv, TypeOK
  <2>4. Attrs[i + 1].ids[k + 1] \in Int
    <3>1. Attrs[i + 1].ids \in Seq(Int)
      BY <2>2, <2>3, FileType
    <3> QED
      BY <2>1, <2>3, <3>1
  <2>5. idlink' \in Seq(Link) /\ linkcount' \in 0 .. Len(idlink')
    BY <2>1, <2>3, <2>4, AddLinkType DEF IInv, TypeOK, Inv
  <2>6. TypeOK'
    BY <2>1, <2>5 DEF IInv, TypeOK
  <2>7. Inv'
    BY <2>1, <2>5 DEF IInv, Inv, Attrs
  <2> QED
    BY <2>6, <2>7 DEF IInv
<1> QED
  BY <1>1, <1>2

LEMMA NextAttrInv == ASSUME IInv, NextAttr PROVE IInv'
<1>1. /\ pc = "ids" /\ i' = i + 1 /\ pc' = "attrs"
      /\ UNCHANGED <<file, pos, k, eventAttrCount, samplingType, idlink, linkcount,
                     evt, ev_nr, count, last_error>>
  BY DEF NextAttr, session, events, errors
<1>2. TypeOK'
  BY <1>1 DEF IInv, TypeOK, Inv
<1>3. Inv'
  BY <1>1 DEF IInv, Inv, Attrs
<1> QED
  BY <1>2, <1>3 DEF IInv

LEMMA ReadTypesInv == ASSUME IInv, ReadTypes PROVE IInv'
<1>1. CASE Refuse(TypeChecks)
  BY <1>1, ProperChecks, RefuseInv
<1>2. CASE ~Refuse(TypeChecks)
  <2>1. /\ Pass(TypeChecks) /\ pc = "attrs" /\ pc' = "events" /\ pos' = file.data.offset
        /\ UNCHANGED <<file, i, k, eventAttrCount, samplingType, idlink, linkcount,
                       evt, ev_nr, count, last_error>>
    BY <1>2 DEF ReadTypes, Pass, session, events, errors
  <2>2. Needed \subseteq samplingType
    BY <2>1, SampleTypePassed
  <2>3. TypeOK'
    BY <2>1, FileType DEF IInv, TypeOK, Inv
  <2>4. Inv'
    BY <2>1, <2>2 DEF IInv, Inv, Attrs
  <2> QED
    BY <2>3, <2>4 DEF IInv
<1> QED
  BY <1>1, <1>2

LEMMA NextEventInv == ASSUME IInv, NextEvent PROVE IInv'
<1>1. CASE Refuse(EventChecks)
  BY <1>1, ProperChecks, RefuseInv
<1>2. CASE ~Refuse(EventChecks)
  <2> DEFINE c == Column(HeaderAt(pos).type)
  <2>1. /\ pc = "events" /\ pc' = "data" /\ pos' = pos + 1 /\ evt' = HeaderAt(pos)
        /\ count' = [count EXCEPT ![c] = @ + 1]
        /\ UNCHANGED <<file, i, k, eventAttrCount, samplingType, idlink, linkcount,
                       ev_nr, last_error>>
    BY <1>2 DEF NextEvent, Pass, session, errors
  <2>2. c \in Logged \cup {"unknown"}
    BY DEF Column
  <2>3. count' \in [Logged \cup {"unknown"} -> Nat]
    BY <2>1, <2>2 DEF IInv, TypeOK
  <2>4. TypeOK'
    BY <2>1, <2>3 DEF IInv, TypeOK
  <2>5. Len(evt'.words) \in Nat
    BY <2>1, HeaderType DEF IInv, Inv
  <2>6. Inv'
    BY <2>1, <2>5 DEF IInv, Inv, Attrs
  <2> QED
    BY <2>4, <2>6 DEF IInv
<1> QED
  BY <1>1, <1>2

\* Whether a record is taken or skipped, the position moves behind it.
LEMMA DataInv ==
  ASSUME IInv, pc = "data", pc' = "events", pos' = pos + Size(evt) - 1, ev_nr' = ev_nr + 1,
         UNCHANGED <<file, i, k, session, evt, count, last_error>>
  PROVE  IInv'
<1>1. UNCHANGED <<file, i, k, eventAttrCount, samplingType, idlink, linkcount, evt, count,
                  last_error>>
  BY DEF session
<1>2. pos' \in Nat
  BY DEF IInv, TypeOK, Inv, Size, HeaderSize
<1>3. TypeOK'
  BY <1>1, <1>2 DEF IInv, TypeOK
<1>4. Inv'
  BY <1>1 DEF IInv, Inv, Attrs
<1> QED
  BY <1>3, <1>4 DEF IInv

LEMMA TakeEventInv == ASSUME IInv, TakeEvent PROVE IInv'
<1>1. CASE Refuse(DataChecks)
  BY <1>1, ProperChecks, RefuseInv
<1>2. CASE ~Refuse(DataChecks)
  BY <1>2, DataInv DEF TakeEvent, Pass, errors
<1> QED
  BY <1>1, <1>2

LEMMA SkipEventInv == ASSUME IInv, SkipEvent PROVE IInv'
BY DataInv DEF SkipEvent, errors

LEMMA MoveOnInv ==
  ASSUME IInv, <<pc, pc'>> \in {<<"events", "main">>, <<"main", "replay">>},
         UNCHANGED <<file, pos, i, k, session, events, errors>>
  PROVE  IInv'
<1>1. UNCHANGED <<eventAttrCount, samplingType, idlink, linkcount, evt, ev_nr, count, last_error>>
  BY DEF session, events, errors
<1>2. TypeOK'
  BY <1>1 DEF IInv, TypeOK
<1>3. Inv'
  BY <1>1 DEF IInv, Inv, Attrs
<1> QED
  BY <1>2, <1>3 DEF IInv

LEMMA MainInv == ASSUME IInv, EndOfData \/ Main PROVE IInv'
<1>1. CASE Main /\ Refuse(MainChecks)
  BY <1>1, ProperChecks, RefuseInv
<1>2. CASE EndOfData
  BY <1>2, MoveOnInv DEF EndOfData
<1>3. CASE Main /\ ~Refuse(MainChecks)
  BY <1>3, MoveOnInv DEF Main, Pass, errors
<1> QED
  BY <1>1, <1>2, <1>3

LEMMA SystemFailsInv == ASSUME IInv, SystemFails PROVE IInv'
<1>1. last_error' \in Errors
  BY DEF SystemFails, Errors
<1> QED
  BY <1>1, StopInv DEF SystemFails

LEMMA StepInv == IInv /\ [Next]_vars => IInv'
<1>1. ASSUME IInv, Next PROVE IInv'
  BY <1>1, StartSessionInv, ReadAttrInv, ReadIdInv, NextAttrInv, ReadTypesInv, NextEventInv,
     TakeEventInv, SkipEventInv, MainInv, SystemFailsInv DEF Next
<1>2. ASSUME IInv, UNCHANGED vars PROVE IInv'
  <2>1. UNCHANGED <<file, pc, pos, i, k, eventAttrCount, samplingType, idlink, linkcount,
                    evt, ev_nr, count, last_error>>
    BY <1>2 DEF vars, session, events, errors
  <2>2. TypeOK'
    BY <1>2, <2>1 DEF IInv, TypeOK
  <2>3. Inv'
    BY <1>2, <2>1 DEF IInv, Inv, Attrs
  <2> QED
    BY <2>2, <2>3 DEF IInv
<1> QED
  BY <1>1, <1>2

(***************************************************************************)
(* Whatever the file, the links never overrun their array and the error is *)
(* one of readperf or an errno.                                            *)
(***************************************************************************)
THEOREM PerfFileTypes == Spec => []TypeOK
<1>1. IInv => TypeOK
  BY DEF IInv
<1> QED
  BY InitInv, StepInv, <1>1, PTL DEF Spec

(***************************************************************************)
(* Whatever the file, main has an attribute when it asks for the first.    *)
(***************************************************************************)
THEOREM MainFindsAttribute == Spec => []MainHasAttribute
<1>1. IInv => MainHasAttribute
  <2>1. Needed # {}
    BY DEF Needed
  <2> QED
    BY <2>1 DEF IInv, TypeOK, Inv, MainHasAttribute
<1> QED
  BY InitInv, StepInv, <1>1, PTL DEF Spec

-----------------------------------------------------------------------------
(* The links are those of the attributes and ids that have been read.      *)

\* Each link that is there is at its place.
LinksInPlace ==
  /\ Len(Attrs) = 1 /\ linkcount > 0 => idlink[1] = [id |-> OneEvent, entry |-> 0]
  /\ \A n \in DOMAIN Attrs : \A m \in DOMAIN Attrs[n].ids :
       LinksBefore(n) + m <= linkcount =>
         idlink[LinksBefore(n) + m] = [id |-> Attrs[n].ids[m], entry |-> n - 1]

\* How many are there.
LinkInv ==
  /\ LinksInPlace
  /\ pc = "header" => linkcount = 0
  /\ pc = "attrs" => linkcount = LinksBefore(i + 1)
  /\ pc = "ids" => k <= Len(Attrs[i + 1].ids) /\ linkcount = LinksBefore(i + 1) + k
  /\ pc \in {"events", "data", "main", "replay"} => linkcount = LinksBefore(Len(Attrs) + 1)

LEMMA LinksBeforeIs ==
  ASSUME file \in Files
  PROVE  /\ Len(Attrs) \in Nat /\ DOMAIN Attrs = 1 .. Len(Attrs)
         /\ LinksBefore(1) = IF Len(Attrs) = 1 THEN 1 ELSE 0
         /\ \A n \in 1 .. Len(Attrs) + 1 : LinksBefore(n) \in Nat
         /\ \A n \in 1 .. Len(Attrs) :
              Len(Attrs[n].ids) \in Nat /\ LinksBefore(n + 1) = LinksBefore(n) + Len(Attrs[n].ids)
         /\ \A m, n \in 1 .. Len(Attrs) + 1 : m <= n => LinksBefore(m) <= LinksBefore(n)
<1> DEFINE f == [a \in DOMAIN Attrs |-> Len(Attrs[a].ids)]
           sum(n) == SumFunctionOnSet(f, 1 .. n)
           base == IF Len(Attrs) = 1 THEN 1 ELSE 0
           N == Len(Attrs)
<1>1. N \in Nat /\ DOMAIN Attrs = 1 .. N
  BY PerfFileAssumption DEF Attrs
<1>2. \A n \in 1 .. N : Len(Attrs[n].ids) \in Nat /\ f[n] = Len(Attrs[n].ids)
  BY <1>1, FileType
<1>3. Terms(f, 1 .. N)
  BY <1>2 DEF Terms
<1>4. base \in Nat
  OBVIOUS
<1>5. \A n : LinksBefore(n) = base + sum(n - 1)
  BY Zenon DEF LinksBefore
<1> HIDE DEF f, base, N
<1>6. /\ sum(0) = 0
      /\ \A n \in 0 .. N : sum(n) \in Nat
      /\ \A n \in 0 .. N - 1 : sum(n + 1) = sum(n) + f[n + 1]
      /\ \A m, n \in 0 .. N : m <= n => sum(m) <= sum(n)
  BY <1>1, <1>3, SumOfFirst
<1> HIDE DEF sum
<1>7. LinksBefore(1) = base
  BY <1>4, <1>5, <1>6
<1>8. ASSUME NEW n \in 1 .. N + 1 PROVE LinksBefore(n) \in Nat
  <2>1. n - 1 \in 0 .. N
    BY <1>1
  <2> QED
    BY <1>4, <1>5, <1>6, <2>1
<1>9. ASSUME NEW n \in 1 .. N PROVE LinksBefore(n + 1) = LinksBefore(n) + Len(Attrs[n].ids)
  <2>1. n - 1 \in 0 .. N - 1 /\ n \in Nat /\ (n - 1) + 1 = n /\ (n + 1) - 1 = n /\ n - 1 \in 0 .. N
    BY <1>1
  <2>2. sum((n - 1) + 1) = sum(n - 1) + f[(n - 1) + 1]
    BY <1>6, <2>1
  <2>3. sum(n) = sum(n - 1) + Len(Attrs[n].ids)
    BY <1>2, <2>1, <2>2
  <2>4. LinksBefore(n + 1) = base + sum(n)
    BY <1>5, <2>1
  <2>5. LinksBefore(n) = base + sum(n - 1)
    BY <1>5
  <2>6. sum(n - 1) \in Nat /\ Len(Attrs[n].ids) \in Nat
    BY <1>2, <1>6, <2>1
  <2> QED
    BY <1>4, <2>3, <2>4, <2>5, <2>6
<1>10. ASSUME NEW m \in 1 .. N + 1, NEW n \in 1 .. N + 1, m <= n
       PROVE  LinksBefore(m) <= LinksBefore(n)
  <2>1. m - 1 \in 0 .. N /\ n - 1 \in 0 .. N /\ m - 1 <= n - 1
    BY <1>1, <1>10
  <2>2. sum(m - 1) <= sum(n - 1) /\ sum(m - 1) \in Nat /\ sum(n - 1) \in Nat
    BY <1>6, <2>1
  <2> QED
    BY <1>4, <1>5, <2>2
<1> QED
  BY <1>1, <1>2, <1>7, <1>8, <1>9, <1>10 DEF base, N

\* A new link takes the place behind the others, which stay.
LEMMA AddLinkKeeps ==
  ASSUME idlink \in Seq(Link), linkcount \in 0 .. Len(idlink),
         NEW id, NEW entry, add_link(id, entry)
  PROVE  /\ linkcount' = linkcount + 1
         /\ idlink'[linkcount + 1] = [id |-> id, entry |-> entry]
         /\ \A n \in 1 .. linkcount : idlink'[n] = idlink[n]
<1>1. Links \in Seq(Link) /\ linkcount + 1 \in 1 .. Len(Links)
  BY LinksRoom
<1>2. /\ idlink' = [Links EXCEPT ![linkcount + 1] = [id |-> id, entry |-> entry]]
      /\ linkcount' = linkcount + 1
  BY DEF add_link
<1>3. ASSUME NEW n \in 1 .. linkcount PROVE Links[n] = idlink[n]
  <2>0. linkcount # 0 /\ Len(idlink) # 0 /\ Len(idlink) \in Nat
    OBVIOUS
  <2>1. CASE Len(idlink) = linkcount
    <3>1. Links = [l \in 1 .. 2 * Len(idlink) |-> IF l <= linkcount THEN idlink[l] ELSE NoLink]
      BY <2>0, <2>1 DEF Links
    <3>2. n \in 1 .. 2 * Len(idlink) /\ n <= linkcount
      BY <2>0, <2>1
    <3> QED
      BY <3>1, <3>2
  <2>2. CASE Len(idlink) # linkcount
    BY <2>0, <2>2 DEF Links
  <2> QED
    BY <2>1, <2>2
<1>4. DOMAIN Links = 1 .. Len(Links)
  BY <1>1
<1>5. ASSUME NEW n \in 1 .. linkcount PROVE idlink'[n] = idlink[n]
  <2>1. n # linkcount + 1 /\ n \in DOMAIN Links
    BY <1>1, <1>4
  <2> QED
    BY <1>2, <1>3, <2>1
<1> QED
  BY <1>1, <1>2, <1>4, <1>5

LEMMA SameLinksBefore ==
  ASSUME file' = file
  PROVE  Attrs' = Attrs /\ \A n : LinksBefore(n)' = LinksBefore(n)
BY DEF Attrs, LinksBefore

LEMMA SameLinks ==
  ASSUME LinksInPlace, UNCHANGED <<file, idlink, linkcount>>
  PROVE  LinksInPlace'
BY DEF LinksInPlace, Attrs, LinksBefore

LEMMA InitLinks == Init => LinkInv
<1> SUFFICES ASSUME Init PROVE LinkInv
  OBVIOUS
<1>1. file \in Files /\ pc = "header" /\ linkcount = 0
  BY DEF Init
<1>2. ASSUME NEW n \in DOMAIN Attrs, NEW m \in DOMAIN Attrs[n].ids
      PROVE  ~(LinksBefore(n) + m <= linkcount)
  <2>1. DOMAIN Attrs = 1 .. Len(Attrs) /\ Len(Attrs) \in Nat /\ n \in 1 .. Len(Attrs) + 1
    BY <1>1, LinksBeforeIs
  <2>2. LinksBefore(n) \in Nat
    BY <1>1, <2>1, LinksBeforeIs
  <2>3. m \in Nat \ {0}
    <3>1. Attrs[n].ids \in Seq(Int)
      BY <1>1, FileType
    <3> QED
      BY <3>1
  <2> QED
    BY <1>1, <2>2, <2>3
<1>3. LinksInPlace
  BY <1>1, <1>2 DEF LinksInPlace
<1> QED
  BY <1>1, <1>3 DEF LinkInv

LEMMA StartSessionLinks == ASSUME IInv, LinkInv, StartSession PROVE LinkInv'
<1>1. CASE Refuse(HeaderChecks)
  <2>1. UNCHANGED <<file, idlink, linkcount>> /\ pc' = "refused"
    BY <1>1 DEF Refuse, session
  <2> QED
    BY <2>1, SameLinks DEF LinkInv
<1>2. CASE ~Refuse(HeaderChecks)
  <2>1. /\ pc = "header" /\ pc' = "attrs" /\ file' = file /\ i' = i
        /\ IF Len(Attrs) = 1 THEN add_link(OneEvent, 0) ELSE UNCHANGED <<idlink, linkcount>>
    BY <1>2 DEF StartSession
  <2>2. file \in Files /\ i = 0 /\ linkcount = 0
    BY <2>1 DEF IInv, Inv, LinkInv
  <2>3. LinksInPlace' /\ linkcount' = LinksBefore(1)
    <3>1. CASE Len(Attrs) # 1
      <4>1. UNCHANGED <<file, idlink, linkcount>>
        BY <2>1, <3>1
      <4> QED
        BY <2>2, <3>1, <4>1, SameLinks, LinksBeforeIs DEF LinkInv
    <3>2. CASE Len(Attrs) = 1
      <4>1. add_link(OneEvent, 0)
        BY <2>1, <3>2
      <4>2. idlink \in Seq(Link) /\ linkcount \in 0 .. Len(idlink)
        BY DEF IInv, TypeOK, Inv
      <4>3. linkcount' = linkcount + 1 /\ idlink'[linkcount + 1] = [id |-> OneEvent, entry |-> 0]
        BY <4>1, <4>2, AddLinkKeeps
      <4>4. linkcount' = 1 /\ idlink'[1] = [id |-> OneEvent, entry |-> 0] /\ LinksBefore(1) = 1
        BY <2>2, <3>2, <4>3, LinksBeforeIs
      <4>5. ASSUME NEW n \in DOMAIN Attrs, NEW m \in DOMAIN Attrs[n].ids
            PROVE  ~(LinksBefore(n) + m <= linkcount')
        <5>1. n = 1
          BY <2>2, <3>2, LinksBeforeIs
        <5>2. m \in Nat \ {0}
          <6>1. Attrs[n].ids \in Seq(Int)
            BY <2>2, FileType
          <6> QED
            BY <6>1
        <5> QED
          BY <4>4, <5>1, <5>2
      <4>6. Attrs' = Attrs /\ \A n : LinksBefore(n)' = LinksBefore(n)
        BY <2>1, SameLinksBefore
      <4> QED
        BY <4>4, <4>5, <4>6 DEF LinksInPlace
    <3> QED
      BY <3>1, <3>2
  <2>4. (LinksBefore(i + 1))' = LinksBefore(1)
    BY <2>1, <2>2 DEF LinksBefore, Attrs
  <2> QED
    BY <2>1, <2>3, <2>4 DEF LinkInv
<1> QED
  BY <1>1, <1>2

\* A refused file, or a step that adds no link.
LEMMA RefusedLinks ==
  ASSUME LinkInv, pc' = "refused", UNCHANGED <<file, session>>
  PROVE  LinkInv'
BY SameLinks DEF LinkInv, session

LEMMA ReadAttrLinks == ASSUME IInv, LinkInv, ReadAttr PROVE LinkInv'
<1>1. CASE Refuse(AttrChecks)
  BY <1>1, RefusedLinks DEF Refuse
<1>2. CASE ~Refuse(AttrChecks)
  <2>1. /\ pc = "attrs" /\ i < eventAttrCount /\ pc' = "ids" /\ k' = 0
        /\ UNCHANGED <<file, i, idlink, linkcount>>
    BY <1>2 DEF ReadAttr
  <2>2. file \in Files /\ eventAttrCount = Len(Attrs) /\ i \in Nat
    BY <2>1 DEF IInv, Inv, TypeOK
  <2>3. i + 1 \in 1 .. Len(Attrs) /\ i + 1 \in 1 .. Len(Attrs) + 1
    BY <2>1, <2>2, LinksBeforeIs
  <2>4. Len(Attrs[i + 1].ids) \in Nat /\ LinksBefore(i + 1) \in Nat
    BY <2>2, <2>3, LinksBeforeIs
  <2>5. LinksInPlace' /\ linkcount = LinksBefore(i + 1)
    BY <2>1, SameLinks DEF LinkInv
  <2>6. (LinksBefore(i + 1))' = LinksBefore(i + 1) /\ (Attrs[i + 1])' = Attrs[i + 1]
    BY <2>1 DEF LinksBefore, Attrs
  <2>7. k' <= Len(Attrs[i + 1].ids)' /\ linkcount' = (LinksBefore(i + 1))' + k'
    BY <2>1, <2>4, <2>5, <2>6
  <2> QED
    BY <2>1, <2>5, <2>7 DEF LinkInv
<1> QED
  BY <1>1, <1>2

LEMMA ReadIdLinks == ASSUME IInv, LinkInv, ReadId PROVE LinkInv'
<1>1. CASE Refuse(IdChecks)
  BY <1>1, RefusedLinks DEF Refuse
<1>2. CASE ~Refuse(IdChecks)
  <2> DEFINE L(n) == LinksBefore(n)
             one == [id |-> Attrs[i + 1].ids[k + 1], entry |-> i]
             D(n) == Len(Attrs[n].ids)
  <2>1. /\ pc = "ids" /\ pc' = "ids" /\ k < D(i + 1) /\ k' = k + 1
        /\ add_link(Attrs[i + 1].ids[k + 1], i)
        /\ UNCHANGED <<file, i>>
    BY <1>2 DEF ReadId
  <2>2. file \in Files /\ i < Len(Attrs) /\ i \in Nat /\ k \in Nat
    BY <2>1 DEF IInv, Inv, TypeOK
  <2>3. /\ i + 1 \in 1 .. Len(Attrs) /\ i + 1 \in 1 .. Len(Attrs) + 1
        /\ (i + 1) + 1 \in 1 .. Len(Attrs) + 1
        /\ Len(Attrs) \in Nat /\ DOMAIN Attrs = 1 .. Len(Attrs)
    BY <2>2, LinksBeforeIs
  <2>4. /\ L(i + 1) \in Nat /\ D(i + 1) \in Nat
        /\ L((i + 1) + 1) = L(i + 1) + D(i + 1)
    BY <2>2, <2>3, LinksBeforeIs
  <2>5. linkcount = L(i + 1) + k /\ LinksInPlace
    BY <2>1 DEF LinkInv
  <2>6. /\ linkcount' = linkcount + 1 /\ idlink'[linkcount + 1] = one
        /\ \A n \in 1 .. linkcount : idlink'[n] = idlink[n]
    <3>1. idlink \in Seq(Link) /\ linkcount \in 0 .. Len(idlink)
      BY DEF IInv, TypeOK, Inv
    <3> QED
      BY <2>1, <3>1, AddLinkKeeps
  <2>7. linkcount \in Nat
    BY <2>2, <2>4, <2>5
  <2>8. Len(Attrs) = 1 => idlink'[1] = [id |-> OneEvent, entry |-> 0]
    <3> SUFFICES ASSUME Len(Attrs) = 1 PROVE idlink'[1] = [id |-> OneEvent, entry |-> 0]
      OBVIOUS
    <3>1. L(1) = 1 /\ i = 0
      BY <2>2, LinksBeforeIs
    <3>2. linkcount > 0 /\ 1 \in 1 .. linkcount
      BY <2>2, <2>5, <3>1
    <3> QED
      BY <2>5, <2>6, <3>2 DEF LinksInPlace
  <2>9. ASSUME NEW n \in DOMAIN Attrs, NEW m \in DOMAIN Attrs[n].ids, L(n) + m <= linkcount'
        PROVE  idlink'[L(n) + m] = [id |-> Attrs[n].ids[m], entry |-> n - 1]
    <3>1. /\ n \in 1 .. Len(Attrs) /\ n \in 1 .. Len(Attrs) + 1 /\ n + 1 \in 1 .. Len(Attrs) + 1
          /\ n \in Nat
      BY <2>3
    <3>2. L(n) \in Nat /\ D(n) \in Nat /\ L(n + 1) = L(n) + D(n)
      BY <2>2, <3>1, LinksBeforeIs
    <3>3. m \in 1 .. D(n)
      <4>1. Attrs[n].ids \in Seq(Int)
        BY <2>2, FileType
      <4> QED
        BY <4>1
    <3>4. /\ n < i + 1 => L(n + 1) <= L(i + 1)
          /\ i + 1 < n => L((i + 1) + 1) <= L(n)
      <4>1. n < i + 1 => n + 1 <= i + 1
        BY <2>2, <3>1
      <4>2. i + 1 < n => (i + 1) + 1 <= n
        BY <2>2, <3>1
      <4> HIDE DEF L
      <4> QED
        BY <2>2, <2>3, <3>1, <4>1, <4>2, LinksBeforeIs DEF L
    <3>5. CASE L(n) + m <= linkcount
      <4>1. L(n) + m \in 1 .. linkcount
        BY <2>7, <3>2, <3>3, <3>5
      <4> QED
        BY <2>5, <2>6, <3>5, <4>1 DEF LinksInPlace
    <3>6. CASE L(n) + m = linkcount + 1
      <4> HIDE DEF L, D
      <4>1. ~(n < i + 1)
        BY <2>2, <2>4, <2>5, <3>2, <3>3, <3>4, <3>6
      <4>2. ~(i + 1 < n)
        BY <2>1, <2>2, <2>4, <2>5, <3>2, <3>3, <3>4, <3>6
      <4>3. n = i + 1
        BY <2>2, <3>1, <4>1, <4>2
      <4>4. m = k + 1
        BY <2>2, <2>4, <2>5, <3>3, <3>6, <4>3
      <4>5. n - 1 = i
        BY <2>2, <4>3
      <4> QED
        BY <2>6, <3>6, <4>3, <4>4, <4>5
    <3>7. L(n) + m <= linkcount \/ L(n) + m = linkcount + 1
      BY <2>6, <2>7, <2>9, <3>2, <3>3
    <3> QED
      BY <3>5, <3>6, <3>7
  <2>10. Attrs' = Attrs /\ \A n : LinksBefore(n)' = LinksBefore(n)
    BY <2>1, SameLinksBefore
  <2>11. LinksInPlace'
    BY <2>8, <2>9, <2>10 DEF LinksInPlace
  <2>12. k' <= Len(Attrs[i + 1].ids)' /\ linkcount' = (LinksBefore(i + 1))' + k'
    <3>1. (LinksBefore(i + 1))' = L(i + 1) /\ Len(Attrs[i + 1].ids)' = D(i + 1)
      BY <2>1 DEF LinksBefore, Attrs
    <3> HIDE DEF L, D
    <3> QED
      BY <2>1, <2>2, <2>4, <2>5, <2>6, <3>1
  <2> QED
    BY <2>1, <2>11, <2>12 DEF LinkInv
<1> QED
  BY <1>1, <1>2

LEMMA NextAttrLinks == ASSUME IInv, LinkInv, NextAttr PROVE LinkInv'
<1>1. /\ pc = "ids" /\ pc' = "attrs" /\ i' = i + 1 /\ k = Len(Attrs[i + 1].ids)
      /\ UNCHANGED <<file, idlink, linkcount>>
  BY DEF NextAttr, session
<1>2. file \in Files /\ i < Len(Attrs) /\ i \in Nat
  BY <1>1 DEF IInv, Inv, TypeOK
<1>3. i + 1 \in 1 .. Len(Attrs)
  BY <1>2, LinksBeforeIs
<1>4. LinksBefore((i + 1) + 1) = LinksBefore(i + 1) + Len(Attrs[i + 1].ids)
  BY <1>2, <1>3, LinksBeforeIs
<1>5. LinksInPlace' /\ linkcount' = LinksBefore((i + 1) + 1)
  BY <1>1, <1>4, SameLinks DEF LinkInv
<1>6. (LinksBefore(i + 1))' = LinksBefore((i + 1) + 1)
  BY <1>1 DEF LinksBefore, Attrs
<1> QED
  BY <1>1, <1>5, <1>6 DEF LinkInv

\* The steps behind the attributes leave the links alone.
LEMMA OtherLinks ==
  ASSUME IInv, LinkInv, UNCHANGED <<file, session>>,
         \/ pc = "attrs" /\ i = eventAttrCount
         \/ pc \in {"events", "data", "main", "replay"},
         pc' \in {"events", "data", "main", "replay", "refused"}
  PROVE  LinkInv'
<1>1. LinksInPlace' /\ UNCHANGED <<file, idlink, linkcount>>
  BY SameLinks DEF LinkInv, session
<1>2. linkcount = LinksBefore(Len(Attrs) + 1)
  BY DEF IInv, Inv, LinkInv
<1>3. (LinksBefore(Len(Attrs) + 1))' = LinksBefore(Len(Attrs) + 1)
  BY <1>1 DEF LinksBefore, Attrs
<1> QED
  BY <1>1, <1>2, <1>3 DEF LinkInv

LEMMA StepLinks == IInv /\ LinkInv /\ [Next]_vars => LinkInv'
<1>1. ASSUME IInv, LinkInv, ReadTypes PROVE LinkInv'
  <2>1. CASE Refuse(TypeChecks)
    BY <1>1, <2>1, RefusedLinks DEF Refuse
  <2>2. CASE ~Refuse(TypeChecks)
    BY <1>1, <2>2, OtherLinks DEF ReadTypes
  <2> QED
    BY <2>1, <2>2
<1>2. ASSUME IInv, LinkInv, NextEvent PROVE LinkInv'
  <2>1. CASE Refuse(EventChecks)
    BY <1>2, <2>1, RefusedLinks DEF Refuse
  <2>2. CASE ~Refuse(EventChecks)
    BY <1>2, <2>2, OtherLinks DEF NextEvent
  <2> QED
    BY <2>1, <2>2
<1>3. ASSUME IInv, LinkInv, TakeEvent PROVE LinkInv'
  <2>1. CASE Refuse(DataChecks)
    BY <1>3, <2>1, RefusedLinks DEF Refuse
  <2>2. CASE ~Refuse(DataChecks)
    BY <1>3, <2>2, OtherLinks DEF TakeEvent
  <2> QED
    BY <2>1, <2>2
<1>4. ASSUME IInv, LinkInv, SkipEvent \/ EndOfData PROVE LinkInv'
  BY <1>4, OtherLinks DEF SkipEvent, EndOfData
<1>5. ASSUME IInv, LinkInv, Main PROVE LinkInv'
  <2>1. CASE Refuse(MainChecks)
    BY <1>5, <2>1, RefusedLinks DEF Refuse
  <2>2. CASE ~Refuse(MainChecks)
    BY <1>5, <2>2, OtherLinks DEF Main
  <2> QED
    BY <2>1, <2>2
<1>6. ASSUME IInv, LinkInv, SystemFails PROVE LinkInv'
  BY <1>6, RefusedLinks DEF SystemFails
<1>7. ASSUME LinkInv, UNCHANGED vars PROVE LinkInv'
  <2>1. UNCHANGED <<file, pc, i, k, idlink, linkcount>>
    BY <1>7 DEF vars, session
  <2>2. LinksInPlace'
    BY <1>7, <2>1, SameLinks DEF LinkInv
  <2>3. /\ (LinksBefore(i + 1))' = LinksBefore(i + 1)
        /\ (LinksBefore(Len(Attrs) + 1))' = LinksBefore(Len(Attrs) + 1)
        /\ Len(Attrs[i + 1].ids)' = Len(Attrs[i + 1].ids)
    BY <2>1 DEF LinksBefore, Attrs
  <2> QED
    BY <1>7, <2>1, <2>2, <2>3 DEF LinkInv
<1> QED
  BY <1>1, <1>2, <1>3, <1>4, <1>5, <1>6, <1>7, StartSessionLinks, ReadAttrLinks,
     ReadIdLinks, NextAttrLinks DEF Next

(***************************************************************************)
(* Whatever the file, the links are the ids of its attributes, in their    *)
(* order and each with its attribute, however often the array has grown.   *)
(***************************************************************************)
THEOREM LinksOfFile == Spec => []LinksKept
<1>1. LinkInv => LinksKept
  BY DEF LinkInv, LinksInPlace, LinksKept
<1> QED
  BY InitInv, StepInv, InitLinks, StepLinks, <1>1, PTL DEF Spec

-----------------------------------------------------------------------------
(* Every record is read.                                                   *)

\* The end of the data is an int, as the code takes it to be.
Fits == file.data.offset + file.data.size < IntSize \div 2

LEMMA AsIntIs ==
  ASSUME NEW x \in Nat
  PROVE  /\ AsInt(x) \in Int /\ AsInt(x) <= x
         /\ x < IntSize \div 2 => AsInt(x) = x
<1> DEFINE I == IntSize
           low == x % I
<1>0. I \in Nat \ {0}
  BY PerfFileAssumption
<1> HIDE DEF I
<1>1. low \in Nat /\ low <= x
  BY <1>0
<1>2. I \div 2 \in Nat /\ I \div 2 <= I
  BY <1>0
<1>3. x < I => low = x
  BY <1>0
<1>4. AsInt(x) = IF low < I \div 2 THEN low ELSE low - I
  BY DEF AsInt, I
<1> HIDE DEF low
<1> QED
  BY <1>0, <1>1, <1>2, <1>3, <1>4 DEF I

\* Where the records start, and the end of the data.
LEMMA StartIs ==
  ASSUME file \in Files
  PROVE  /\ Len(Records) \in Nat /\ DOMAIN Records = 1 .. Len(Records)
         /\ file.data.offset + file.data.size = Start(Len(Records) + 1)
         /\ Start(1) = file.data.offset
         /\ \A n \in 1 .. Len(Records) + 1 : Start(n) \in Nat
         /\ \A n \in 1 .. Len(Records) :
              Size(Records[n]) \in Nat \ {0} /\ Start(n + 1) = Start(n) + Size(Records[n])
         /\ \A m, n \in 1 .. Len(Records) + 1 : m < n => Start(m) < Start(n)
<1> DEFINE f == [m \in DOMAIN Records |-> Size(Records[m])]
           sum(n) == SumFunctionOnSet(f, 1 .. n)
           base == file.data.offset
           N == Len(Records)
<1>1. /\ Records \in Seq([type : STRING, words : Seq([field : STRING, value : Int])])
      /\ file.data.size = SumFunction(f)
      /\ base \in Nat
  BY RecordsAssumption, PerfFileAssumption DEF Records
<1>2. N \in Nat /\ DOMAIN Records = 1 .. N
  BY <1>1
<1>3. \A n \in 1 .. N : Size(Records[n]) \in Nat \ {0} /\ f[n] = Size(Records[n])
  <2>1. \A n \in 1 .. N : Len(Records[n].words) \in Nat
    BY <1>2, PerfFileAssumption DEF Records
  <2> QED
    BY <1>2, <2>1 DEF Size, HeaderSize
<1>4. Terms(f, 1 .. N)
  BY <1>3 DEF Terms
<1>5. \A n : Start(n) = base + sum(n - 1)
  BY Zenon DEF Start
<1>6. SumFunction(f) = sum(N)
  <2>1. DOMAIN f = 1 .. N
    BY <1>2
  <2> QED
    BY <2>1, Zenon DEF SumFunction
<1> HIDE DEF f, base, N
<1>7. /\ sum(0) = 0
      /\ \A n \in 0 .. N : sum(n) \in Nat
      /\ \A n \in 0 .. N - 1 : sum(n + 1) = sum(n) + f[n + 1]
      /\ \A m, n \in 0 .. N : m <= n => sum(m) <= sum(n)
  BY <1>2, <1>4, SumOfFirst
<1> HIDE DEF sum
<1>8. Start(1) = base
  BY <1>1, <1>5, <1>7
<1>9. ASSUME NEW n \in 1 .. N + 1 PROVE Start(n) \in Nat
  <2>1. n - 1 \in 0 .. N
    BY <1>2
  <2> QED
    BY <1>1, <1>5, <1>7, <2>1
<1>10. ASSUME NEW n \in 1 .. N PROVE Start(n + 1) = Start(n) + Size(Records[n])
  <2>1. n - 1 \in 0 .. N - 1 /\ n \in Nat /\ (n - 1) + 1 = n /\ (n + 1) - 1 = n /\ n - 1 \in 0 .. N
    BY <1>2
  <2>2. sum((n - 1) + 1) = sum(n - 1) + f[(n - 1) + 1]
    BY <1>7, <2>1
  <2>3. sum(n) = sum(n - 1) + Size(Records[n])
    BY <1>3, <2>1, <2>2
  <2>4. Start(n + 1) = base + sum(n)
    BY <1>5, <2>1
  <2>5. Start(n) = base + sum(n - 1)
    BY <1>5
  <2>6. sum(n - 1) \in Nat /\ Size(Records[n]) \in Nat
    BY <1>3, <1>7, <2>1
  <2> QED
    BY <1>1, <2>3, <2>4, <2>5, <2>6
<1>11. ASSUME NEW m \in 1 .. N + 1, NEW n \in 1 .. N + 1, m < n
       PROVE  Start(m) < Start(n)
  <2>1. m \in 1 .. N /\ m \in 0 .. N /\ n - 1 \in 0 .. N /\ m <= n - 1 /\ (m + 1) - 1 = m
    BY <1>2, <1>11
  <2>2. sum(m) <= sum(n - 1) /\ sum(m) \in Nat /\ sum(n - 1) \in Nat
    BY <1>7, <2>1
  <2>3. Start(m + 1) = base + sum(m) /\ Start(n) = base + sum(n - 1)
    BY <1>5, <2>1
  <2>4. Start(m + 1) = Start(m) + Size(Records[m]) /\ Size(Records[m]) \in Nat \ {0}
    BY <1>3, <1>10, <2>1
  <2>5. Start(m) \in Nat
    BY <1>9
  <2> HIDE DEF Size
  <2> QED
    BY <1>1, <2>2, <2>3, <2>4, <2>5
<1>12. base + SumFunction(f) = Start(N + 1)
  <2>1. (N + 1) - 1 = N
    BY <1>2
  <2> QED
    BY <1>5, <1>6, <2>1
<1> QED
  BY <1>1, <1>2, <1>3, <1>8, <1>9, <1>10, <1>11, <1>12 DEF base, N

LEMMA HeaderIs ==
  ASSUME file \in Files, NEW n \in 1 .. Len(Records)
  PROVE  HeaderAt(Start(n)) = Records[n]
<1>1. n \in DOMAIN Records
  BY StartIs
<1>2. ASSUME NEW m \in DOMAIN Records, Start(m) = Start(n) PROVE m = n
  <2>1. m \in 1 .. Len(Records) + 1 /\ n \in 1 .. Len(Records) + 1 /\ Len(Records) \in Nat
    BY StartIs
  <2>2. Start(m) \in Nat /\ (m < n => Start(m) < Start(n)) /\ (n < m => Start(n) < Start(m))
    BY <2>1, StartIs
  <2>3. m \in Nat /\ n \in Nat
    BY <2>1
  <2> HIDE DEF Start
  <2> QED
    BY <1>2, <2>2, <2>3
<1>3. HeaderAt(Start(n)) = Records[CHOOSE m \in DOMAIN Records : Start(m) = Start(n)]
  BY <1>1 DEF HeaderAt
<1>4. (CHOOSE m \in DOMAIN Records : Start(m) = Start(n)) = n
  BY <1>1, <1>2, Zenon
<1> QED
  BY <1>3, <1>4

\* What is kept of the first n records.
KeptOfFirst(n) ==
  {Kept(m - 1, Records[m]) : m \in {l \in 1 .. n : Records[l].type \in Known}}

Rising(s) == \A l, m \in DOMAIN s : l < m => s[l].nr < s[m].nr

TreeOfFirst(n) ==
  /\ orderTree \in Seq(KeptOfFirst(n))
  /\ ToSet(orderTree) = KeptOfFirst(n)
  /\ Rising(orderTree)

CountOfFirst(n) ==
  \A c \in DOMAIN count : count[c] = Cardinality({m \in 1 .. n : Column(Records[m].type) = c})

\* How far the reader is, and that it stands where a record starts.
RecordInv ==
  /\ pc \in {"header", "attrs", "ids"} =>
       ev_nr = 0 /\ orderTree = << >> /\ count = [t \in Logged \cup {"unknown"} |-> 0]
  /\ pc = "events" =>
       /\ ev_nr <= Len(Records) /\ pos = Start(ev_nr + 1)
       /\ TreeOfFirst(ev_nr) /\ CountOfFirst(ev_nr)
  /\ pc = "data" =>
       /\ ev_nr < Len(Records) /\ pos = Start(ev_nr + 1) + 1 /\ evt = Records[ev_nr + 1]
       /\ TreeOfFirst(ev_nr) /\ CountOfFirst(ev_nr + 1)
  /\ pc \in {"main", "replay"} /\ Fits =>
       TreeOfFirst(Len(Records)) /\ CountOfFirst(Len(Records))

\* A record added behind those that are in the tree.
LEMMA OneMoreKept ==
  ASSUME NEW A, NEW s \in Seq(A), ToSet(s) = A, Rising(s), \A a \in A : a.nr \in Int,
         NEW x, x.nr \in Int, \A a \in A : a.nr < x.nr
  PROVE  /\ Append(s, x) \in Seq(A \cup {x})
         /\ ToSet(Append(s, x)) = A \cup {x}
         /\ Rising(Append(s, x))
<1> DEFINE t == Append(s, x)
<1>1. s \in Seq(A \cup {x}) /\ x \in A \cup {x}
  OBVIOUS
<1>2. /\ t \in Seq(A \cup {x}) /\ Len(t) = Len(s) + 1 /\ Len(s) \in Nat
      /\ DOMAIN t = 1 .. Len(s) + 1 /\ DOMAIN s = 1 .. Len(s)
      /\ t[Len(s) + 1] = x /\ \A l \in 1 .. Len(s) : t[l] = s[l]
  BY <1>1
<1> HIDE DEF t
<1>3. ASSUME NEW l \in DOMAIN t
      PROVE  (l \in DOMAIN s /\ t[l] = s[l]) \/ (l = Len(s) + 1 /\ t[l] = x)
  <2>1. l \in 1 .. Len(s) \/ l = Len(s) + 1
    BY <1>2
  <2> QED
    BY <1>2, <2>1
<1>4. DOMAIN s \subseteq DOMAIN t /\ Len(s) + 1 \in DOMAIN t
  BY <1>2
<1>5. ToSet(t) \subseteq A \cup {x}
  BY <1>3 DEF ToSet
<1>6. ASSUME NEW a \in A PROVE a \in ToSet(t)
  <2>1. PICK l \in DOMAIN s : s[l] = a
    BY DEF ToSet
  <2>2. t[l] = a /\ l \in DOMAIN t
    BY <1>2, <1>4, <2>1
  <2> QED
    BY <2>2 DEF ToSet
<1>7. x \in ToSet(t)
  BY <1>2, <1>4 DEF ToSet
<1>8. ASSUME NEW l \in DOMAIN t, NEW m \in DOMAIN t, l < m PROVE t[l].nr < t[m].nr
  <2>1. l \in DOMAIN s /\ t[l] = s[l] /\ s[l] \in A
    BY <1>2, <1>8
  <2>2. CASE m \in DOMAIN s
    BY <1>2, <1>8, <2>1, <2>2 DEF Rising
  <2>3. CASE m = Len(s) + 1
    BY <1>2, <2>1, <2>3
  <2> QED
    BY <1>3, <2>2, <2>3
<1> QED
  BY <1>2, <1>5, <1>6, <1>7, <1>8 DEF Rising, t

\* What the tree keeps of one record more.
LEMMA KeptOfMore ==
  ASSUME NEW n \in Nat
  PROVE  /\ KeptOfFirst(0) = {}
         /\ \A a \in KeptOfFirst(n) : a.nr \in Int /\ a.nr < n
         /\ Records[n + 1].type \notin Known => KeptOfFirst(n + 1) = KeptOfFirst(n)
         /\ Records[n + 1].type \in Known =>
              KeptOfFirst(n + 1) = KeptOfFirst(n) \cup {Kept(n, Records[n + 1])}
<1> DEFINE D(l) == {m \in 1 .. l : Records[m].type \in Known}
<1>0. \A l : KeptOfFirst(l) = {Kept(m - 1, Records[m]) : m \in D(l)}
  BY DEF KeptOfFirst
<1>1. D(0) = {} /\ \A m \in D(n) : m \in Nat /\ m - 1 < n
  OBVIOUS
<1>2. Records[n + 1].type \notin Known => D(n + 1) = D(n)
  OBVIOUS
<1>3. Records[n + 1].type \in Known => D(n + 1) = D(n) \cup {n + 1}
  OBVIOUS
<1>4. \A nr, record : Kept(nr, record).nr = nr
  BY DEF Kept
<1>5. (n + 1) - 1 = n
  OBVIOUS
<1> HIDE DEF D
<1>6. KeptOfFirst(0) = {}
  BY <1>0, <1>1
<1>7. \A a \in KeptOfFirst(n) : a.nr \in Int /\ a.nr < n
  BY <1>0, <1>1, <1>4
<1>8. Records[n + 1].type \notin Known => KeptOfFirst(n + 1) = KeptOfFirst(n)
  BY <1>0, <1>2
<1>9. ASSUME Records[n + 1].type \in Known
      PROVE  KeptOfFirst(n + 1) = KeptOfFirst(n) \cup {Kept(n, Records[n + 1])}
  <2>1. KeptOfFirst(n + 1) = {Kept(m - 1, Records[m]) : m \in D(n) \cup {n + 1}}
    BY <1>0, <1>3, <1>9
  <2> QED
    BY <1>0, <1>5, <2>1
<1> QED
  BY <1>6, <1>7, <1>8, <1>9

\* What is counted of one record more.
LEMMA CountOfMore ==
  ASSUME NEW n \in Nat, NEW c
  PROVE  /\ Cardinality({m \in 1 .. 0 : Column(Records[m].type) = c}) = 0
         /\ Cardinality({m \in 1 .. n : Column(Records[m].type) = c}) \in Nat
         /\ Cardinality({m \in 1 .. n + 1 : Column(Records[m].type) = c}) =
              Cardinality({m \in 1 .. n : Column(Records[m].type) = c})
                + IF Column(Records[n + 1].type) = c THEN 1 ELSE 0
<1> DEFINE D(l) == {m \in 1 .. l : Column(Records[m].type) = c}
<1>1. D(0) = {} /\ n + 1 \notin D(n)
  OBVIOUS
<1>2. D(n + 1) = IF Column(Records[n + 1].type) = c THEN D(n) \cup {n + 1} ELSE D(n)
  OBVIOUS
<1>3. IsFiniteSet(D(n))
  <2>1. IsFiniteSet(1 .. n) /\ D(n) \subseteq 1 .. n
    BY FS_Interval
  <2> QED
    BY <2>1, FS_Subset
<1>4. Cardinality(D(0)) = 0
  BY <1>1, FS_EmptySet
<1> HIDE DEF D
<1>5. Cardinality(D(n)) \in Nat /\ Cardinality(D(n) \cup {n + 1}) = Cardinality(D(n)) + 1
  BY <1>1, <1>3, FS_CardinalityType, FS_AddElement
<1>6. Cardinality(D(n + 1)) = Cardinality(D(n)) + IF Column(Records[n + 1].type) = c THEN 1 ELSE 0
  BY <1>2, <1>5
<1> QED
  BY <1>4, <1>5, <1>6 DEF D

LEMMA RefusedRecords == ASSUME pc' = "refused" PROVE RecordInv'
BY DEF RecordInv

\* The session has no part in the records.
LEMMA EarlyRecords ==
  ASSUME RecordInv, pc \in {"header", "attrs", "ids"}, pc' \in {"header", "attrs", "ids"},
         UNCHANGED events
  PROVE  RecordInv'
BY DEF RecordInv, events

LEMMA ReadTypesRecords == ASSUME IInv, RecordInv, ReadTypes PROVE RecordInv'
<1>1. CASE Refuse(TypeChecks)
  BY <1>1, RefusedRecords DEF Refuse
<1>2. CASE ~Refuse(TypeChecks)
  <2>1. /\ pc = "attrs" /\ pc' = "events" /\ pos' = file.data.offset
        /\ UNCHANGED <<file, samplingType, ev_nr, orderTree, count>>
    BY <1>2 DEF ReadTypes, session, events
  <2>2. file \in Files
    BY DEF IInv, Inv
  <2>3. ev_nr = 0 /\ orderTree = << >> /\ count = [t \in Logged \cup {"unknown"} |-> 0]
    BY <2>1 DEF RecordInv
  <2>4. Len(Records) \in Nat /\ Start(1) = file.data.offset
    BY <2>2, StartIs
  <2>5. TreeOfFirst(0)
    <3>1. KeptOfFirst(0) = {}
      BY KeptOfMore
    <3>2. orderTree \in Seq({}) /\ ToSet(orderTree) = {} /\ Rising(orderTree)
      BY <2>3 DEF ToSet, Rising
    <3> QED
      BY <3>1, <3>2 DEF TreeOfFirst
  <2>6. CountOfFirst(0)
    <3>1. ASSUME NEW c \in DOMAIN count
          PROVE  count[c] = Cardinality({m \in 1 .. 0 : Column(Records[m].type) = c})
      <4>1. count[c] = 0
        BY <2>3, <3>1
      <4>2. 0 \in Nat
        OBVIOUS
      <4> QED
        BY <4>1, <4>2, CountOfMore
    <3> QED
      BY <3>1 DEF CountOfFirst
  <2>7. ev_nr' <= Len(Records)' /\ pos' = (Start(ev_nr + 1))'
    <3>1. (Start(ev_nr + 1))' = Start(1) /\ Len(Records)' = Len(Records)
      BY <2>1, <2>3 DEF Start, Records
    <3> QED
      BY <2>1, <2>3, <2>4, <3>1
  <2>8. (TreeOfFirst(ev_nr))'
    BY <2>1, <2>3, <2>5 DEF TreeOfFirst, KeptOfFirst, Kept, Records, Rising
  <2>9. (CountOfFirst(ev_nr))'
    BY <2>1, <2>3, <2>6 DEF CountOfFirst, Records
  <2> QED
    BY <2>1, <2>7, <2>8, <2>9 DEF RecordInv
<1> QED
  BY <1>1, <1>2

LEMMA NextEventRecords == ASSUME IInv, RecordInv, NextEvent PROVE RecordInv'
<1>1. CASE Refuse(EventChecks)
  BY <1>1, RefusedRecords DEF Refuse
<1>2. CASE ~Refuse(EventChecks)
  <2> DEFINE c0 == Column(HeaderAt(pos).type)
  <2>1. /\ pc = "events" /\ pc' = "data" /\ has_more_events
        /\ evt' = HeaderAt(pos) /\ pos' = pos + 1
        /\ count' = [count EXCEPT ![c0] = @ + 1]
        /\ UNCHANGED <<file, samplingType, ev_nr, orderTree>>
    BY <1>2 DEF NextEvent, session
  <2>2. /\ file \in Files /\ ev_nr \in Nat /\ DOMAIN count = Logged \cup {"unknown"}
        /\ \A c \in DOMAIN count : count[c] \in Nat
    BY DEF IInv, Inv, TypeOK
  <2>3. /\ ev_nr <= Len(Records) /\ pos = Start(ev_nr + 1)
        /\ TreeOfFirst(ev_nr) /\ CountOfFirst(ev_nr)
    BY <2>1 DEF RecordInv
  <2>4. Len(Records) \in Nat /\ Start(Len(Records) + 1) \in Nat
    <3>1. Len(Records) \in Nat
      BY <2>2, StartIs
    <3>2. Len(Records) + 1 \in 1 .. Len(Records) + 1
      BY <3>1
    <3> QED
      BY <2>2, <3>1, <3>2, StartIs
  <2>5. ev_nr < Len(Records)
    <3>1. pos < AsInt(Start(Len(Records) + 1))
      BY <2>1, <2>2, StartIs DEF has_more_events
    <3>2. pos < Start(Len(Records) + 1) /\ pos \in Nat
      <4>1. pos \in Nat
        BY DEF IInv, TypeOK
      <4> HIDE DEF Start, AsInt
      <4> QED
        BY <2>4, <3>1, <4>1, AsIntIs
    <3>3. ev_nr # Len(Records)
      BY <2>3, <3>2
    <3> QED
      BY <2>2, <2>3, <2>4, <3>3
  <2>6. ev_nr + 1 \in 1 .. Len(Records)
    BY <2>2, <2>4, <2>5
  <2>7. HeaderAt(pos) = Records[ev_nr + 1]
    BY <2>2, <2>3, <2>6, HeaderIs
  <2>8. c0 \in DOMAIN count
    BY <2>2 DEF Column
  <2>9. ASSUME NEW c \in DOMAIN count
        PROVE  count'[c] = Cardinality({m \in 1 .. ev_nr + 1 : Column(Records[m].type) = c})
    <3>1. count[c] = Cardinality({m \in 1 .. ev_nr : Column(Records[m].type) = c})
      BY <2>3 DEF CountOfFirst
    <3>2. count'[c] = count[c] + IF c0 = c THEN 1 ELSE 0
      <4> HIDE DEF c0
      <4> QED
        BY <2>1, <2>2, <2>8
    <3>3. Cardinality({m \in 1 .. ev_nr + 1 : Column(Records[m].type) = c}) =
            Cardinality({m \in 1 .. ev_nr : Column(Records[m].type) = c})
              + IF Column(Records[ev_nr + 1].type) = c THEN 1 ELSE 0
      BY <2>2, CountOfMore
    <3> QED
      BY <2>7, <3>1, <3>2, <3>3
  <2>10. DOMAIN count' = DOMAIN count
    BY <2>1
  <2>11. (CountOfFirst(ev_nr + 1))'
    <3>1. Records' = Records /\ ev_nr' = ev_nr
      BY <2>1 DEF Records
    <3> QED
      BY <2>9, <2>10, <3>1 DEF CountOfFirst
  <2>12. (TreeOfFirst(ev_nr))'
    <3>1. (KeptOfFirst(ev_nr))' = KeptOfFirst(ev_nr)
      BY <2>1 DEF KeptOfFirst, Kept, Records
    <3> QED
      BY <2>1, <2>3, <3>1 DEF TreeOfFirst, Rising
  <2>13. /\ ev_nr' < Len(Records)' /\ pos' = (Start(ev_nr + 1))' + 1
         /\ evt' = (Records[ev_nr + 1])'
    <3>1. (Start(ev_nr + 1))' = Start(ev_nr + 1) /\ Records' = Records
      BY <2>1 DEF Start, Records
    <3> QED
      BY <2>1, <2>3, <2>5, <2>7, <3>1
  <2> QED
    BY <2>1, <2>11, <2>12, <2>13 DEF RecordInv
<1> QED
  BY <1>1, <1>2

\* Behind the data of a record the next one starts.
LEMMA DataEnds ==
  ASSUME IInv, RecordInv, pc = "data", pos' = pos + Size(evt) - 1, ev_nr' = ev_nr + 1,
         file' = file, count' = count
  PROVE  /\ file \in Files /\ ev_nr \in Nat /\ evt = Records[ev_nr + 1]
         /\ TreeOfFirst(ev_nr)
         /\ ev_nr' <= Len(Records)' /\ pos' = (Start(ev_nr + 1))'
         /\ (CountOfFirst(ev_nr))'
<1>1. file \in Files /\ ev_nr \in Nat
  BY DEF IInv, Inv, TypeOK
<1>2. /\ ev_nr < Len(Records) /\ pos = Start(ev_nr + 1) + 1 /\ evt = Records[ev_nr + 1]
      /\ TreeOfFirst(ev_nr) /\ CountOfFirst(ev_nr + 1)
  BY DEF RecordInv
<1>3. ev_nr + 1 \in 1 .. Len(Records) /\ ev_nr + 1 \in 1 .. Len(Records) + 1
  <2>1. Len(Records) \in Nat
    BY <1>1, StartIs
  <2> QED
    BY <1>1, <1>2, <2>1
<1>4. /\ Start(ev_nr + 1) \in Nat /\ Size(evt) \in Nat
      /\ Start((ev_nr + 1) + 1) = Start(ev_nr + 1) + Size(evt)
  BY <1>1, <1>2, <1>3, StartIs
<1>5. pos' = Start((ev_nr + 1) + 1)
  <2> HIDE DEF Start, Size
  <2> QED
    BY <1>2, <1>4
<1>6. (Start(ev_nr + 1))' = Start((ev_nr + 1) + 1) /\ Records' = Records
  BY DEF Start, Records
<1>7. ev_nr' <= Len(Records)'
  <2>1. Len(Records) \in Nat
    BY <1>1, StartIs
  <2> QED
    BY <1>1, <1>2, <1>6, <2>1
<1>8. (CountOfFirst(ev_nr))'
  BY <1>2, <1>6 DEF CountOfFirst
<1> QED
  BY <1>1, <1>2, <1>5, <1>6, <1>7, <1>8

LEMMA TakeEventRecords == ASSUME IInv, RecordInv, TakeEvent PROVE RecordInv'
<1>1. CASE Refuse(DataChecks)
  BY <1>1, RefusedRecords DEF Refuse
<1>2. CASE ~Refuse(DataChecks)
  <2>1. /\ pc = "data" /\ pc' = "events" /\ evt.type \in Known
        /\ pos' = pos + Size(evt) - 1 /\ ev_nr' = ev_nr + 1
        /\ orderTree' = Append(orderTree, Kept(ev_nr, evt))
        /\ UNCHANGED <<file, samplingType, count>>
    BY <1>2 DEF TakeEvent, session
  <2>2. /\ ev_nr \in Nat /\ evt = Records[ev_nr + 1] /\ TreeOfFirst(ev_nr)
        /\ ev_nr' <= Len(Records)' /\ pos' = (Start(ev_nr + 1))' /\ (CountOfFirst(ev_nr))'
    BY <2>1, DataEnds
  <2> DEFINE A == KeptOfFirst(ev_nr)
             x == Kept(ev_nr, Records[ev_nr + 1])
  <2>3. /\ \A a \in A : a.nr \in Int /\ a.nr < ev_nr
        /\ KeptOfFirst(ev_nr + 1) = A \cup {x}
    BY <2>1, <2>2, KeptOfMore
  <2>4. x.nr = ev_nr
    BY DEF Kept
  <2>5. orderTree \in Seq(A) /\ ToSet(orderTree) = A /\ Rising(orderTree)
    BY <2>2 DEF TreeOfFirst
  <2>6. orderTree' = Append(orderTree, x)
    BY <2>1, <2>2
  <2>7. (KeptOfFirst(ev_nr))' = KeptOfFirst(ev_nr + 1)
    BY <2>1 DEF KeptOfFirst, Kept, Records
  <2> HIDE DEF A, x
  <2>8. x.nr \in Int /\ \A a \in A : a.nr \in Int /\ a.nr < x.nr
    BY <2>2, <2>3, <2>4
  <2>9. /\ Append(orderTree, x) \in Seq(A \cup {x})
        /\ ToSet(Append(orderTree, x)) = A \cup {x} /\ Rising(Append(orderTree, x))
    BY <2>5, <2>8, OneMoreKept
  <2>10. (TreeOfFirst(ev_nr))'
    BY <2>3, <2>6, <2>7, <2>9 DEF TreeOfFirst, Rising
  <2> QED
    BY <2>1, <2>2, <2>10 DEF RecordInv
<1> QED
  BY <1>1, <1>2

LEMMA SkipEventRecords == ASSUME IInv, RecordInv, SkipEvent PROVE RecordInv'
<1>1. /\ pc = "data" /\ pc' = "events" /\ evt.type \notin Known
      /\ pos' = pos + Size(evt) - 1 /\ ev_nr' = ev_nr + 1
      /\ UNCHANGED <<file, samplingType, orderTree, count>>
  BY DEF SkipEvent, session
<1>2. /\ ev_nr \in Nat /\ evt = Records[ev_nr + 1] /\ TreeOfFirst(ev_nr)
      /\ ev_nr' <= Len(Records)' /\ pos' = (Start(ev_nr + 1))' /\ (CountOfFirst(ev_nr))'
  BY <1>1, DataEnds
<1>3. KeptOfFirst(ev_nr + 1) = KeptOfFirst(ev_nr)
  BY <1>1, <1>2, KeptOfMore
<1>4. (KeptOfFirst(ev_nr))' = KeptOfFirst(ev_nr + 1)
  BY <1>1 DEF KeptOfFirst, Kept, Records
<1>5. (TreeOfFirst(ev_nr))'
  BY <1>1, <1>2, <1>3, <1>4 DEF TreeOfFirst, Rising
<1> QED
  BY <1>1, <1>2, <1>5 DEF RecordInv

LEMMA EndOfDataRecords == ASSUME IInv, RecordInv, EndOfData PROVE RecordInv'
<1>1. /\ pc = "events" /\ pc' = "main" /\ ~has_more_events
      /\ UNCHANGED <<file, samplingType, ev_nr, orderTree, count>>
  BY DEF EndOfData, session, events
<1>2. /\ file \in Files /\ ev_nr \in Nat /\ ev_nr <= Len(Records) /\ pos = Start(ev_nr + 1)
      /\ TreeOfFirst(ev_nr) /\ CountOfFirst(ev_nr)
  BY <1>1 DEF IInv, Inv, TypeOK, RecordInv
<1>3. Fits => ev_nr = Len(Records)
  <2> SUFFICES ASSUME Fits PROVE ev_nr = Len(Records)
    OBVIOUS
  <2> DEFINE N == Len(Records)
             last == Start(N + 1)
  <2>1. N \in Nat /\ file.data.offset + file.data.size = last
    BY <1>2, StartIs
  <2>2. N + 1 \in 1 .. N + 1 /\ ev_nr + 1 \in 1 .. N + 1
    BY <1>2, <2>1
  <2>3. last \in Nat /\ (ev_nr + 1 < N + 1 => pos < last)
    BY <1>2, <2>2, StartIs
  <2>4. ~(pos < AsInt(last)) /\ last < IntSize \div 2
    BY <1>1, <2>1 DEF has_more_events, Fits
  <2> HIDE DEF last, N
  <2>5. ~(pos < last)
    BY <2>3, <2>4, AsIntIs
  <2>6. ~(ev_nr + 1 < N + 1)
    BY <2>3, <2>5
  <2>7. ev_nr <= N
    BY <1>2 DEF N
  <2>8. ev_nr = N
    BY <1>2, <2>1, <2>6, <2>7
  <2> QED
    BY <2>8 DEF N
<1>4. Fits' = Fits
  BY <1>1 DEF Fits
<1>5. Fits => (TreeOfFirst(Len(Records)))' /\ (CountOfFirst(Len(Records)))'
  <2> SUFFICES ASSUME Fits
               PROVE  (TreeOfFirst(Len(Records)))' /\ (CountOfFirst(Len(Records)))'
    OBVIOUS
  <2>1. TreeOfFirst(Len(Records)) /\ CountOfFirst(Len(Records))
    BY <1>2, <1>3
  <2>2. (KeptOfFirst(Len(Records)))' = KeptOfFirst(Len(Records))
    BY <1>1 DEF KeptOfFirst, Kept, Records
  <2>3. (TreeOfFirst(Len(Records)))'
    BY <1>1, <2>1, <2>2 DEF TreeOfFirst, Rising
  <2>4. (CountOfFirst(Len(Records)))'
    BY <1>1, <2>1 DEF CountOfFirst, Records
  <2> QED
    BY <2>3, <2>4
<1> QED
  BY <1>1, <1>4, <1>5 DEF RecordInv

LEMMA StillRecords ==
  ASSUME RecordInv, <<pc, pc'>> = <<"main", "replay">> \/ pc' = pc,
         UNCHANGED <<file, pos, session, events>>
  PROVE  RecordInv'
<1>1. UNCHANGED <<file, pos, samplingType, evt, ev_nr, orderTree, count>>
  BY DEF session, events
<1>2. /\ Fits' = Fits /\ Records' = Records
      /\ (Start(ev_nr + 1))' = Start(ev_nr + 1)
      /\ (TreeOfFirst(ev_nr))' = TreeOfFirst(ev_nr)
      /\ (TreeOfFirst(Len(Records)))' = TreeOfFirst(Len(Records))
      /\ (CountOfFirst(ev_nr))' = CountOfFirst(ev_nr)
      /\ (CountOfFirst(ev_nr + 1))' = CountOfFirst(ev_nr + 1)
      /\ (CountOfFirst(Len(Records)))' = CountOfFirst(Len(Records))
  BY <1>1 DEF Fits, Records, Start, TreeOfFirst, KeptOfFirst, Kept, Rising, CountOfFirst
<1> QED
  BY <1>1, <1>2 DEF RecordInv

LEMMA StepRecords == IInv /\ RecordInv /\ [Next]_vars => RecordInv'
<1>1. ASSUME RecordInv, StartSession PROVE RecordInv'
  BY <1>1, EarlyRecords, RefusedRecords DEF StartSession, Refuse
<1>2. ASSUME RecordInv, ReadAttr PROVE RecordInv'
  BY <1>2, EarlyRecords, RefusedRecords DEF ReadAttr, Refuse
<1>3. ASSUME RecordInv, ReadId PROVE RecordInv'
  BY <1>3, EarlyRecords, RefusedRecords DEF ReadId, Refuse
<1>4. ASSUME RecordInv, NextAttr PROVE RecordInv'
  BY <1>4, EarlyRecords DEF NextAttr
<1>5. ASSUME RecordInv, Main PROVE RecordInv'
  BY <1>5, StillRecords, RefusedRecords DEF Main, Refuse
<1>6. ASSUME SystemFails PROVE RecordInv'
  BY <1>6, RefusedRecords DEF SystemFails
<1>7. ASSUME RecordInv, UNCHANGED vars PROVE RecordInv'
  BY <1>7, StillRecords DEF vars
<1> QED
  BY <1>1, <1>2, <1>3, <1>4, <1>5, <1>6, <1>7, ReadTypesRecords, NextEventRecords,
     TakeEventRecords, SkipEventRecords, EndOfDataRecords DEF Next

LEMMA InitRecords == Init => RecordInv
BY DEF Init, RecordInv

\* All that is kept and counted is what the property asks for.
LEMMA AllRecordsRead ==
  ASSUME IInv, RecordInv, Fits
  PROVE  EveryRecordRead
<1> SUFFICES ASSUME pc \in {"main", "replay"}
             PROVE  /\ {<<r.nr, r.type>> : r \in ToSet(orderTree)} =
                         {<<n - 1, Records[n].type>> :
                            n \in {m \in DOMAIN Records : Records[m].type \in Known}}
                    /\ \A m, n \in DOMAIN orderTree :
                         m < n => orderTree[m].nr < orderTree[n].nr
                    /\ \A c \in DOMAIN count :
                         count[c] =
                           Cardinality({n \in DOMAIN Records : Column(Records[n].type) = c})
  BY DEF EveryRecordRead
<1> DEFINE N == Len(Records)
           D == {m \in 1 .. N : Records[m].type \in Known}
<1>1. TreeOfFirst(N) /\ CountOfFirst(N) /\ DOMAIN Records = 1 .. N
  BY StartIs DEF RecordInv, IInv, Inv
<1>2. \A nr, record : Kept(nr, record).nr = nr /\ Kept(nr, record).type = record.type
  BY DEF Kept
<1>3. ToSet(orderTree) = {Kept(m - 1, Records[m]) : m \in D} /\ Rising(orderTree)
  BY <1>1 DEF TreeOfFirst, KeptOfFirst
<1> HIDE DEF D, N
<1>4. {<<r.nr, r.type>> : r \in ToSet(orderTree)} = {<<m - 1, Records[m].type>> : m \in D}
  BY <1>2, <1>3
<1>5. D = {m \in DOMAIN Records : Records[m].type \in Known}
  BY <1>1 DEF D
<1> QED
  BY <1>1, <1>3, <1>4, <1>5 DEF CountOfFirst, Rising

(***************************************************************************)
(* Whatever the file, if the end of its data fits into an int, every       *)
(* record of a known type is in the tree with its index and in the order   *)
(* of the file when the replay starts, and every record has been counted.  *)
(***************************************************************************)
THEOREM RecordsOfFile == Spec => [](Fits => EveryRecordRead)
<1>1. IInv /\ RecordInv => (Fits => EveryRecordRead)
  BY AllRecordsRead
<1> QED
  BY InitInv, StepInv, InitRecords, StepRecords, <1>1, PTL DEF Spec

-----------------------------------------------------------------------------
(* The fields of a record are found where the kernel writes them.          *)

\* No field is written twice.
Once(order) == \A m, n \in DOMAIN order : order[m] = order[n] => m = n

LEMMA OrderOnce ==
  /\ DOMAIN ParseOrder = 1 .. 11 /\ Once(ParseOrder)
  /\ DOMAIN IdOrder = 1 .. 5 /\ Once(IdOrder)
<1>1. DOMAIN ParseOrder = 1 .. 11 /\ DOMAIN IdOrder = 1 .. 5
  BY DEF ParseOrder, IdOrder
<1>2. Once(IdOrder)
  BY DEF Once, IdOrder
<1>3. Once(ParseOrder)
  BY DEF Once, ParseOrder
<1> QED
  BY <1>1, <1>2, <1>3

\* The words taken before that of a field are those of the fields before it.
LEMMA TakenIs ==
  ASSUME NEW order, NEW len \in Nat, DOMAIN order = 1 .. len, Once(order),
         NEW type, NEW f \in ToSet(order)
  PROVE  Taken(order, type, f) = Cardinality({g \in type : Before(order, g, f)})
<1> DEFINE A == {n \in DOMAIN order : order[n] \in type /\ \A m \in 1 .. n : order[m] # f}
           B == {g \in type : Before(order, g, f)}
           b == [n \in A |-> order[n]]
<1>1. PICK p \in 1 .. len : order[p] = f
  BY DEF ToSet
<1>2. ASSUME NEW n \in A PROVE n \in 1 .. len /\ n < p /\ order[n] \in type
  <2>1. n \in 1 .. len /\ order[n] \in type /\ \A m \in 1 .. n : order[m] # f
    OBVIOUS
  <2>2. ~(p <= n)
    BY <1>1, <2>1
  <2> QED
    BY <2>1, <2>2
<1>3. ASSUME NEW n \in 1 .. len, n < p, order[n] \in type PROVE n \in A
  <2>1. ASSUME NEW m \in 1 .. n, order[m] = f PROVE FALSE
    <3>1. m \in 1 .. len /\ m # p
      BY <1>3, <2>1
    <3> QED
      BY <1>1, <2>1, <3>1 DEF Once
  <2> QED
    BY <1>3, <2>1
<1>4. ASSUME NEW n \in A PROVE order[n] \in B
  <2>1. n \in DOMAIN order /\ p \in DOMAIN order /\ n < p
    BY <1>2
  <2>2. Before(order, order[n], f)
    BY <1>1, <2>1 DEF Before
  <2> QED
    BY <1>2, <2>2
<1>5. ASSUME NEW g \in B PROVE \E n \in A : order[n] = g
  <2>1. PICK m \in DOMAIN order, n \in DOMAIN order : m < n /\ order[m] = g /\ order[n] = f
    BY DEF Before
  <2>2. n = p
    BY <1>1, <2>1 DEF Once
  <2>3. m \in A
    BY <1>3, <2>1, <2>2
  <2> QED
    BY <2>1, <2>3
<1>6. IsFiniteSet(A)
  <2>1. IsFiniteSet(1 .. len) /\ A \subseteq 1 .. len
    BY <1>2, FS_Interval
  <2> QED
    BY <2>1, FS_Subset
<1>7. A \subseteq DOMAIN order
  OBVIOUS
<1> HIDE DEF A, B
<1>8. b \in Bijection(A, B)
  <2>1. b \in [A -> B]
    BY <1>4
  <2>2. \A m, n \in A : b[m] = b[n] => m = n
    BY <1>7 DEF Once
  <2>3. \A g \in B : \E n \in A : b[n] = g
    BY <1>5
  <2> HIDE DEF b
  <2> QED
    BY <2>1, <2>2, <2>3 DEF Bijection, Injection, Surjection, IsInjective
<1>9. Cardinality(A) = Cardinality(B)
  BY <1>6, <1>8, FS_Bijection DEF ExistsBijection
<1>10. Taken(order, type, f) = Cardinality(A)
  BY DEF Taken, A
<1> QED
  BY <1>9, <1>10 DEF B

\* An id is written in the reverse of the order in which it is read.
LEMMA KernelReverse ==
  /\ ToSet(KernelId) = ToSet(IdOrder)
  /\ \A f, g : Before(KernelId, f, g) <=> Before(IdOrder, g, f)
<1>1. DOMAIN KernelId = 1 .. 5 /\ DOMAIN IdOrder = 1 .. 5
  BY DEF KernelId, IdOrder
<1>2. ASSUME NEW n \in 1 .. 5
      PROVE  6 - n \in 1 .. 5 /\ KernelId[n] = IdOrder[6 - n] /\ IdOrder[n] = KernelId[6 - n]
  <2>1. n = 1 \/ n = 2 \/ n = 3 \/ n = 4 \/ n = 5
    OBVIOUS
  <2> QED
    BY <2>1 DEF KernelId, IdOrder
<1>3. ToSet(KernelId) = ToSet(IdOrder)
  BY <1>1, <1>2 DEF ToSet
<1>4. ASSUME NEW f, NEW g, Before(KernelId, f, g) PROVE Before(IdOrder, g, f)
  <2>1. PICK m \in 1 .. 5, n \in 1 .. 5 : m < n /\ KernelId[m] = f /\ KernelId[n] = g
    BY <1>1, <1>4 DEF Before
  <2>2. 6 - n < 6 - m
    BY <2>1
  <2>3. 6 - m \in 1 .. 5 /\ 6 - n \in 1 .. 5 /\ IdOrder[6 - m] = f /\ IdOrder[6 - n] = g
    BY <1>2, <2>1
  <2> QED
    BY <1>1, <2>2, <2>3 DEF Before
<1>5. ASSUME NEW f, NEW g, Before(IdOrder, g, f) PROVE Before(KernelId, f, g)
  <2>1. PICK m \in 1 .. 5, n \in 1 .. 5 : m < n /\ IdOrder[m] = g /\ IdOrder[n] = f
    BY <1>1, <1>5 DEF Before
  <2>2. 6 - n < 6 - m
    BY <2>1
  <2>3. 6 - m \in 1 .. 5 /\ 6 - n \in 1 .. 5 /\ KernelId[6 - m] = g /\ KernelId[6 - n] = f
    BY <1>2, <2>1
  <2> QED
    BY <1>1, <2>2, <2>3 DEF Before
<1> QED
  BY <1>3, <1>4, <1>5

\* The word of a field, or its default.
WordOf(words, f) ==
  IF \E w \in ToSet(words) : w.field = f
    THEN CHOOSE w \in ToSet(words) : w.field = f
    ELSE Default(f)

(***************************************************************************)
(* What the parser takes for a field is the word the kernel wrote for it.  *)
(***************************************************************************)
LEMMA ParseIsKernel ==
  ASSUME NEW isSample \in BOOLEAN, NEW words, NEW type \in SUBSET ToSet(ParseOrder),
         WrittenByKernel(isSample, words, type),
         NEW f \in {"TID", "TIME", "ID", "CPU", "IP", "PERIOD"}
  PROVE  parse_sample(isSample, words, type)[f] = WordOf(words, f)
<1> DEFINE order == IF isSample THEN ParseOrder ELSE IdOrder
           fields == type \cap ToSet(order)
           place == KernelPlace(isSample, words, type, f)
           at == IF isSample THEN 1 + Taken(order, type, f)
                             ELSE Len(words) - Taken(order, type, f)
<1>1. /\ f \in fields => place \in DOMAIN words
      /\ \A n \in DOMAIN words : words[n].field = f <=> f \in fields /\ n = place
  <2>1. fields = type \cap ToSet(IF isSample THEN KernelSample ELSE KernelId)
    BY KernelReverse DEF KernelSample, ParseOrder
  <2>2. ParseOrder = KernelSample
    BY DEF KernelSample, ParseOrder
  <2> QED
    BY <2>1 DEF WrittenByKernel
<1>2. f \in ToSet(ParseOrder)
  <2>1. DOMAIN ParseOrder = 1 .. 11
    BY OrderOnce
  <2>2. /\ ParseOrder[1] = "IP" /\ ParseOrder[2] = "TID" /\ ParseOrder[3] = "TIME"
        /\ ParseOrder[5] = "ID" /\ ParseOrder[7] = "CPU" /\ ParseOrder[8] = "PERIOD"
    BY DEF ParseOrder
  <2>3. \A n \in 1 .. 11 : ParseOrder[n] \in ToSet(ParseOrder)
    BY <2>1 DEF ToSet
  <2> QED
    BY <2>2, <2>3
<1>3. parse_sample(isSample, words, type)[f] =
        IF f \notin fields THEN Default(f)
        ELSE IF at \in DOMAIN words THEN words[at]
        ELSE [field |-> "stack", value |-> Garbage]
  BY <1>2 DEF parse_sample
<1>4. f \in fields => at = place
  <2> SUFFICES ASSUME f \in fields PROVE at = place
    OBVIOUS
  <2>1. CASE isSample
    <3>1. f \in ToSet(ParseOrder) /\ order = ParseOrder
      BY <2>1
    <3>2. DOMAIN ParseOrder = 1 .. 11 /\ Once(ParseOrder) /\ 11 \in Nat
      BY OrderOnce
    <3>3. Taken(ParseOrder, type, f) = Cardinality({g \in type : Before(ParseOrder, g, f)})
      BY <3>1, <3>2, TakenIs
    <3>4. KernelSample = ParseOrder
      BY DEF KernelSample, ParseOrder
    <3>5. place = 1 + Cardinality({g \in type : Before(ParseOrder, g, f)})
      BY <2>1, <3>4 DEF KernelPlace
    <3> QED
      BY <2>1, <3>1, <3>3, <3>5
  <2>2. CASE ~isSample
    <3>1. f \in ToSet(IdOrder) /\ order = IdOrder
      BY <2>2
    <3>2. DOMAIN IdOrder = 1 .. 5 /\ Once(IdOrder) /\ 5 \in Nat
      BY OrderOnce
    <3>3. Taken(IdOrder, type, f) = Cardinality({g \in type : Before(IdOrder, g, f)})
      BY <3>1, <3>2, TakenIs
    <3>4. {g \in type : Before(IdOrder, g, f)} = {g \in type : Before(KernelId, f, g)}
      BY KernelReverse
    <3>5. place = Len(words) - Cardinality({g \in type : Before(KernelId, f, g)})
      BY <2>2 DEF KernelPlace
    <3> QED
      BY <2>2, <3>1, <3>3, <3>4, <3>5
  <2> QED
    BY <2>1, <2>2
<1> HIDE DEF order, fields, place, at
<1>5. CASE f \notin fields
  <2>1. ~\E w \in ToSet(words) : w.field = f
    BY <1>1, <1>5 DEF ToSet
  <2> QED
    BY <1>3, <1>5, <2>1 DEF WordOf
<1>6. CASE f \in fields
  <2>1. place \in DOMAIN words /\ words[place].field = f
    BY <1>1, <1>6
  <2>2. words[place] \in ToSet(words)
    BY <2>1 DEF ToSet
  <2>3. \A w \in ToSet(words) : w.field = f => w = words[place]
    BY <1>1 DEF ToSet
  <2>4. (CHOOSE w \in ToSet(words) : w.field = f) = words[place]
    BY <2>1, <2>2, <2>3, Zenon
  <2>5. WordOf(words, f) = words[place]
    BY <2>1, <2>2, <2>4, Zenon DEF WordOf
  <2> QED
    BY <1>3, <1>4, <1>6, <2>1, <2>5
<1> QED
  BY <1>5, <1>6

-----------------------------------------------------------------------------
(* The tree holds records of the file, and all attributes have the type of *)
(* samples by which their fields were decoded.                             *)

AllSampled(n) == \A m \in 1 .. n : Attrs[m].sample_type = samplingType

SampledInv ==
  /\ pc = "attrs" => AllSampled(i)
  /\ pc = "ids" => AllSampled(i + 1)
  /\ pc \in {"events", "data", "main", "replay"} => AllSampled(Len(Attrs))
  /\ orderTree # << >> => Len(Attrs) # 0 /\ AllSampled(Len(Attrs))
  /\ ToSet(orderTree) \subseteq KeptOfFirst(Len(Records))

LEMMA InitSampled == Init => SampledInv
<1> SUFFICES ASSUME Init PROVE SampledInv
  OBVIOUS
<1>1. pc = "header" /\ orderTree = << >>
  BY DEF Init
<1>2. ToSet(orderTree) = {}
  BY <1>1 DEF ToSet
<1> QED
  BY <1>1, <1>2 DEF SampledInv

\* The tree and the type of samples stay.
LEMMA SameSampled ==
  ASSUME SampledInv, UNCHANGED <<file, samplingType, orderTree>>
  PROVE  /\ \A n : AllSampled(n)' = AllSampled(n)
         /\ (AllSampled(Len(Attrs)))' = AllSampled(Len(Attrs))
         /\ (orderTree # << >> => Len(Attrs) # 0 /\ AllSampled(Len(Attrs)))'
         /\ (ToSet(orderTree) \subseteq KeptOfFirst(Len(Records)))'
<1>1. /\ \A n : AllSampled(n)' = AllSampled(n)
      /\ (AllSampled(Len(Attrs)))' = AllSampled(Len(Attrs)) /\ Attrs' = Attrs
  BY DEF AllSampled, Attrs
<1>2. (KeptOfFirst(Len(Records)))' = KeptOfFirst(Len(Records))
  BY DEF KeptOfFirst, Kept, Records
<1> QED
  BY <1>1, <1>2 DEF SampledInv

LEMMA RefusedSampled ==
  ASSUME SampledInv, pc' = "refused", UNCHANGED <<file, session, events>>
  PROVE  SampledInv'
<1>1. UNCHANGED <<file, samplingType, orderTree>>
  BY DEF session, events
<1> QED
  BY <1>1, SameSampled DEF SampledInv

LEMMA StartSessionSampled == ASSUME IInv, SampledInv, StartSession PROVE SampledInv'
<1>1. CASE Refuse(HeaderChecks)
  BY <1>1, RefusedSampled DEF Refuse, session, events
<1>2. CASE ~Refuse(HeaderChecks)
  <2>1. /\ pc = "header" /\ pc' = "attrs" /\ i' = i
        /\ UNCHANGED <<file, samplingType, orderTree>>
    BY <1>2 DEF StartSession, events
  <2>2. i = 0
    BY <2>1 DEF IInv, Inv
  <2>3. (AllSampled(i))'
    BY <2>1, <2>2 DEF AllSampled
  <2> QED
    BY <2>1, <2>3, SameSampled DEF SampledInv
<1> QED
  BY <1>1, <1>2

LEMMA ReadAttrSampled == ASSUME IInv, RecordInv, SampledInv, ReadAttr PROVE SampledInv'
<1>1. CASE Refuse(AttrChecks)
  BY <1>1, RefusedSampled DEF Refuse, session, events
<1>2. CASE ~Refuse(AttrChecks)
  <2>1. /\ pc = "attrs" /\ pc' = "ids" /\ Pass(AttrChecks)
        /\ samplingType' = Attrs[i + 1].sample_type
        /\ UNCHANGED <<file, i, orderTree>>
    BY <1>2 DEF ReadAttr, events
  <2>2. i = 0 \/ samplingType = Attrs[i + 1].sample_type
    <3>1. /\ 4 \in DOMAIN AttrChecks
          /\ AttrChecks[4] = check(i = 0 \/ samplingType = Attrs[i + 1].sample_type,
                                   ERR_SAMPLES_DIFFER_IN_TYPE)
      BY FourthOfFour DEF AttrChecks
    <3>2. AttrChecks[4].ok
      BY <2>1, <3>1 DEF Pass, Passed
    <3> QED
      BY <3>1, <3>2, PassedCheck
  <2>3. i \in Nat /\ AllSampled(i)
    BY <2>1 DEF IInv, TypeOK, SampledInv
  <2>4. ASSUME NEW m \in 1 .. i + 1 PROVE Attrs[m].sample_type = samplingType'
    <3>1. m = i + 1 \/ (m \in 1 .. i /\ i # 0)
      BY <2>3
    <3> QED
      BY <2>1, <2>2, <2>3, <3>1 DEF AllSampled
  <2>5. (AllSampled(i + 1))'
    BY <2>1, <2>4 DEF AllSampled, Attrs
  <2>6. orderTree' = << >>
    BY <2>1 DEF RecordInv
  <2>7. ToSet(orderTree') = {}
    BY <2>6 DEF ToSet
  <2>8. (ToSet(orderTree) \subseteq KeptOfFirst(Len(Records)))'
    BY <2>7
  <2> QED
    BY <2>1, <2>5, <2>6, <2>8 DEF SampledInv
<1> QED
  BY <1>1, <1>2

LEMMA ReadIdSampled == ASSUME SampledInv, ReadId PROVE SampledInv'
<1>1. CASE Refuse(IdChecks)
  BY <1>1, RefusedSampled DEF Refuse, session, events
<1>2. CASE ~Refuse(IdChecks)
  <2>1. pc = "ids" /\ UNCHANGED <<pc, i, file, samplingType, orderTree>>
    BY <1>2 DEF ReadId, events
  <2>2. (AllSampled(i + 1))'
    BY <2>1 DEF SampledInv, AllSampled, Attrs
  <2> QED
    BY <2>1, <2>2, SameSampled DEF SampledInv
<1> QED
  BY <1>1, <1>2

LEMMA NextAttrSampled == ASSUME SampledInv, NextAttr PROVE SampledInv'
<1>1. /\ pc = "ids" /\ pc' = "attrs" /\ i' = i + 1
      /\ UNCHANGED <<file, samplingType, orderTree>>
  BY DEF NextAttr, session, events
<1>2. (AllSampled(i))'
  BY <1>1 DEF SampledInv, AllSampled, Attrs
<1> QED
  BY <1>1, <1>2, SameSampled DEF SampledInv

\* The steps behind the attributes that add nothing to the tree.
LEMMA OtherSampled ==
  ASSUME IInv, SampledInv, UNCHANGED <<file, samplingType, orderTree>>,
         \/ pc = "attrs" /\ i = eventAttrCount
         \/ pc \in {"events", "data", "main", "replay"},
         pc' \in {"events", "data", "main", "replay", "refused"}
  PROVE  SampledInv'
<1>1. AllSampled(Len(Attrs))
  BY DEF IInv, Inv, SampledInv
<1> QED
  BY <1>1, SameSampled DEF SampledInv

LEMMA TakeEventSampled == ASSUME IInv, RecordInv, SampledInv, TakeEvent PROVE SampledInv'
<1>1. CASE Refuse(DataChecks)
  BY <1>1, RefusedSampled DEF Refuse, session, events
<1>2. CASE ~Refuse(DataChecks)
  <2>1. /\ pc = "data" /\ pc' = "events" /\ evt.type \in Known
        /\ orderTree' = Append(orderTree, Kept(ev_nr, evt))
        /\ UNCHANGED <<file, eventAttrCount, samplingType>>
    BY <1>2 DEF TakeEvent, session
  <2>2. AllSampled(Len(Attrs)) /\ Len(Attrs) # 0
    <3>1. Needed # {}
      BY DEF Needed
    <3> QED
      BY <2>1, <3>1 DEF IInv, Inv, SampledInv
  <2>3. (AllSampled(Len(Attrs)))' /\ Len(Attrs)' # 0
    BY <2>1, <2>2 DEF AllSampled, Attrs
  <2>4. /\ file \in Files /\ ev_nr \in Nat /\ ev_nr < Len(Records) /\ evt = Records[ev_nr + 1]
        /\ TreeOfFirst(ev_nr)
    BY <2>1 DEF IInv, Inv, TypeOK, RecordInv
  <2>5. Kept(ev_nr, evt) \in KeptOfFirst(Len(Records))
    <3>1. Len(Records) \in Nat
      BY <2>4, StartIs
    <3>2. ev_nr + 1 \in 1 .. Len(Records) /\ (ev_nr + 1) - 1 = ev_nr
      BY <2>4, <3>1
    <3> QED
      BY <2>1, <2>4, <3>2 DEF KeptOfFirst
  <2>6. ToSet(orderTree') = ToSet(orderTree) \cup {Kept(ev_nr, evt)}
    <3> DEFINE A == KeptOfFirst(ev_nr)
               x == Kept(ev_nr, evt)
    <3>1. orderTree \in Seq(A) /\ ToSet(orderTree) = A /\ Rising(orderTree)
      BY <2>4 DEF TreeOfFirst
    <3>2. x.nr = ev_nr
      BY DEF Kept
    <3>3. x.nr \in Int /\ \A a \in A : a.nr \in Int /\ a.nr < x.nr
      BY <2>4, <3>2, KeptOfMore
    <3> HIDE DEF A, x
    <3>4. ToSet(Append(orderTree, x)) = A \cup {x}
      BY <3>1, <3>3, OneMoreKept
    <3> QED
      BY <2>1, <3>1, <3>4 DEF x
  <2>7. (ToSet(orderTree) \subseteq KeptOfFirst(Len(Records)))'
    <3>1. (KeptOfFirst(Len(Records)))' = KeptOfFirst(Len(Records))
      BY <2>1 DEF KeptOfFirst, Kept, Records
    <3> QED
      BY <2>5, <2>6, <3>1 DEF SampledInv
  <2> QED
    BY <2>1, <2>3, <2>7 DEF SampledInv
<1> QED
  BY <1>1, <1>2

LEMMA StepSampled == IInv /\ RecordInv /\ SampledInv /\ [Next]_vars => SampledInv'
<1>1. ASSUME IInv, SampledInv, ReadTypes PROVE SampledInv'
  BY <1>1, OtherSampled, RefusedSampled DEF ReadTypes, Refuse, session, events
<1>2. ASSUME IInv, SampledInv, NextEvent PROVE SampledInv'
  BY <1>2, OtherSampled, RefusedSampled DEF NextEvent, Refuse, session, events
<1>3. ASSUME IInv, SampledInv, SkipEvent \/ EndOfData PROVE SampledInv'
  BY <1>3, OtherSampled DEF SkipEvent, EndOfData, session, events
<1>4. ASSUME IInv, SampledInv, Main PROVE SampledInv'
  BY <1>4, OtherSampled, RefusedSampled DEF Main, Refuse, session, events
<1>5. ASSUME SampledInv, SystemFails PROVE SampledInv'
  BY <1>5, RefusedSampled DEF SystemFails
<1>6. ASSUME SampledInv, UNCHANGED vars PROVE SampledInv'
  <2>1. UNCHANGED <<pc, i, file, samplingType, orderTree>>
    BY <1>6 DEF vars, session, events
  <2>2. (AllSampled(i))' = AllSampled(i) /\ (AllSampled(i + 1))' = AllSampled(i + 1)
    BY <2>1 DEF AllSampled, Attrs
  <2> QED
    BY <1>6, <2>1, <2>2, SameSampled DEF SampledInv
<1> QED
  BY <1>1, <1>2, <1>3, <1>4, <1>5, <1>6, StartSessionSampled, ReadAttrSampled, ReadIdSampled,
     NextAttrSampled, TakeEventSampled DEF Next

\* Every record in the tree was decoded as the kernel has written it.
LEMMA FieldsFound ==
  ASSUME IInv, SampledInv
  PROVE  FieldsAreKernels
<1> SUFFICES ASSUME NEW r \in ToSet(orderTree)
             PROVE  LET words == Records[r.nr + 1].words
                    IN  /\ <<r.time, r.cpu, r.id>> =
                             <<WordOf(words, "TIME"), WordOf(words, "CPU"), WordOf(words, "ID")>>
                        /\ r.type = SAMPLE =>
                             r.body = <<WordOf(words, "TID"), WordOf(words, "IP"),
                                        WordOf(words, "PERIOD")>>
  BY DEF FieldsAreKernels, WordOf
<1>1. PICK n \in 1 .. Len(Records) :
        Records[n].type \in Known /\ r = Kept(n - 1, Records[n])
  BY DEF SampledInv, KeptOfFirst
<1> DEFINE words == Records[n].words
           isSample == Records[n].type = SAMPLE
           data == parse_sample(isSample, words, samplingType)
<1>2. file \in Files /\ samplingType \in SUBSET ToSet(ParseOrder)
  BY DEF IInv, Inv, TypeOK
<1>3. n \in Int /\ n \in DOMAIN Records
  BY <1>2, StartIs
<1>4. /\ r.nr = n - 1 /\ r.type = Records[n].type
      /\ r.time = data["TIME"] /\ r.cpu = data["CPU"] /\ r.id = data["ID"]
      /\ isSample => r.body = <<data["TID"], data["IP"], data["PERIOD"]>>
  BY <1>1 DEF Kept
<1>5. Records[r.nr + 1].words = words
  <2>1. (n - 1) + 1 = n
    BY <1>3
  <2> QED
    BY <1>4, <2>1
<1>6. Len(Attrs) # 0 /\ AllSampled(Len(Attrs))
  <2>1. orderTree # << >>
    BY DEF ToSet
  <2> QED
    BY <2>1 DEF SampledInv
<1>7. WrittenByKernel(isSample, words, samplingType)
  <2>1. DOMAIN Attrs = 1 .. Len(Attrs) /\ Len(Attrs) \in Nat
    BY <1>2, LinksBeforeIs
  <2>2. /\ Attrs[1] \in ToSet(Attrs) /\ Attrs[1].sample_type = samplingType
        /\ \A b \in ToSet(Attrs) : b.sample_type = samplingType
    BY <1>6, <2>1 DEF AllSampled, ToSet
  <2>3. Records[n] \in ToSet(Records)
    BY <1>3 DEF ToSet
  <2>4. WrittenByKernel(Records[n].type = SAMPLE, Records[n].words, Attrs[1].sample_type)
    BY <1>1, <1>2, <2>2, <2>3, RecordsAssumption DEF Attrs, Records
  <2> QED
    BY <2>2, <2>4
<1>8. isSample \in BOOLEAN
  OBVIOUS
<1> HIDE DEF isSample
<1>9. ASSUME NEW f \in {"TID", "TIME", "ID", "CPU", "IP", "PERIOD"}
      PROVE  data[f] = WordOf(words, f)
  <2> HIDE DEF words
  <2> QED
    BY <1>2, <1>7, <1>8, ParseIsKernel
<1> HIDE DEF data, words
<1>10. <<r.time, r.cpu, r.id>> =
         <<WordOf(words, "TIME"), WordOf(words, "CPU"), WordOf(words, "ID")>>
  BY <1>4, <1>9
<1>11. r.type = SAMPLE =>
         r.body = <<WordOf(words, "TID"), WordOf(words, "IP"), WordOf(words, "PERIOD")>>
  BY <1>4, <1>9 DEF isSample
<1> QED
  BY <1>5, <1>10, <1>11

(***************************************************************************)
(* Whatever the type of the samples and whatever fields it has, the tree   *)
(* holds for every field the word the kernel has written for it.           *)
(***************************************************************************)
THEOREM FieldsOfFile == Spec => []FieldsAreKernels
<1>1. IInv /\ SampledInv => FieldsAreKernels
  BY FieldsFound
<1> QED
  BY InitInv, StepInv, InitRecords, StepRecords, InitSampled, StepSampled, <1>1, PTL DEF Spec
=============================================================================

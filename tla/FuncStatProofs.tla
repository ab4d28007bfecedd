--------------------------- MODULE FuncStatProofs ---------------------------
(***************************************************************************)
(* Theorems about FuncStat and FuncSamples, for any number of addresses,   *)
(* binaries and source functions, any table of addr2line and any size of   *)
(* the cache.                                                              *)
(***************************************************************************)
EXTENDS FuncSamples, SequenceTheorems, WellFoundedInduction, TLAPS

-----------------------------------------------------------------------------
(* Lemmas about the operators of FuncStat.                                 *)

(***************************************************************************)
(* The walk from the head of the list stops at a hit, whenever there is    *)
(* one: First(S) is an element of S.                                       *)
(***************************************************************************)
LEMMA FirstIsHit ==
  ASSUME NEW S \in SUBSET Nat, S # {}
  PROVE  First(S) \in S
<1>1. PICK i \in S : \A j \in S : ~(<<j, i>> \in OpToRel(<, Nat))
  BY NatLessThanWellFounded, WFMin
<1>2. ASSUME NEW j \in S, j < i
      PROVE  FALSE
  <2>1. <<j, i>> \in Nat \X Nat
    OBVIOUS
  <2>2. <<j, i>> \in OpToRel(<, Nat)
    BY <2>1, <1>2 DEF OpToRel
  <2> QED
    BY <2>2, <1>1
<1>3. \A j \in S : i <= j
  BY <1>2
<1> QED
  BY <1>3 DEF First

(***************************************************************************)
(* The two searches return entries of the list.                            *)
(***************************************************************************)
LEMMA HitsAreEntries ==
  ASSUME TypeOK
  PROVE  /\ \A addr, bin_name : AddrHits(addr, bin_name) \in SUBSET Nat
         /\ \A addr, bin_name : AddrHits(addr, bin_name) \subseteq DOMAIN head
         /\ \A source : NameHits(source) \in SUBSET Nat
         /\ \A source : NameHits(source) \subseteq DOMAIN head
BY DEF TypeOK, AddrHits, NameHits, find_entry_addr, find_entry_name

(***************************************************************************)
(* A further address stays inside the array and keeps an entry an entry:   *)
(* addhead wraps before it leaves the slots.                               *)
(***************************************************************************)
LEMMA RememberType ==
  ASSUME NEW e \in Entry, NEW addr \in Addrs
  PROVE  remember(e, addr) \in Entry
<1>1. (e.addhead + 1) % CacheSize \in Slots
  BY FuncStatAssumption DEF Slots, Entry
<1> QED
  BY <1>1 DEF Entry, remember

LEMMA CreditType ==
  ASSUME NEW e \in Entry, NEW period \in Periods
  PROVE  credit(e, period) \in Entry
<1>1. e.samples + 1 \in Nat /\ e.period + period \in Nat
  BY FuncStatAssumption DEF Entry
<1> QED
  BY <1>1 DEF Entry, credit

LEMMA CreditTally ==
  ASSUME NEW t \in Tally, NEW period \in Periods
  PROVE  credit(t, period) \in Tally
<1>1. t.samples + 1 \in Nat /\ t.period + period \in Nat
  BY FuncStatAssumption DEF Tally
<1> QED
  BY <1>1 DEF Tally, credit

LEMMA NewEntryType ==
  ASSUME NEW addr \in Addrs, NEW bin_name \in BinNames
  PROVE  new_entry(addr, bin_name, Addr2Line[<<addr, bin_name>>]) \in Entry
<1>1. 0 \in Slots
  BY FuncStatAssumption DEF Slots
<1>2. Addr2Line[<<addr, bin_name>>] \in Sources
  BY FuncStatAssumption
<1> QED
  BY <1>1, <1>2 DEF Entry, new_entry

-----------------------------------------------------------------------------
(* Types.                                                                  *)

LEMMA InitType == Init => TypeOK
BY DEF Init, TypeOK, Tally

(***************************************************************************)
(* No call leaves the types; in particular addhead stays an index of addr. *)
(***************************************************************************)
LEMMA NextType == TypeOK /\ [Next]_vars => TypeOK'
<1> SUFFICES ASSUME TypeOK, [Next]_vars
             PROVE  TypeOK'
  OBVIOUS
<1> USE DEF TypeOK
<1>1. CASE UNCHANGED vars
  BY <1>1 DEF vars
<1>2. CASE Next
  <2> SUFFICES ASSUME NEW addr \in Addrs, NEW bin_name \in BinNames,
                      NEW period \in Periods,
                      CountSample(addr, bin_name, period)
               PROVE  TypeOK'
    BY <1>2 DEF Next
  <2>1. CASE CountCached(addr, bin_name, period)
    <3> DEFINE i == First(AddrHits(addr, bin_name))
    <3>1. i \in DOMAIN head
      BY <2>1, FirstIsHit, HitsAreEntries DEF CountCached
    <3>2. head' = [head EXCEPT ![i] = credit(head[i], period)]
      BY <2>1 DEF CountCached, AddrHits, credit_cached
    <3>3. credit(head[i], period) \in Entry
      BY <3>1, CreditType, ElementOfSeq
    <3>4. error' = error
      BY <2>1 DEF CountCached
    <3> HIDE DEF i
    <3> QED
      BY <3>1, <3>2, <3>3, <3>4, ExceptSeq
  <2>2. CASE CountKnown(addr, bin_name, period)
    <3> DEFINE i == First(NameHits(Addr2Line[<<addr, bin_name>>]))
    <3>1. i \in DOMAIN head
      BY <2>2, FirstIsHit, HitsAreEntries DEF CountKnown
    <3>2. head' = [head EXCEPT ![i] = credit(remember(head[i], addr), period)]
      BY <2>2 DEF CountKnown, NameHits, credit_known
    <3>3. remember(head[i], addr) \in Entry
      BY <3>1, RememberType, ElementOfSeq
    <3>4. credit(remember(head[i], addr), period) \in Entry
      BY <3>3, CreditType
    <3>5. error' = error
      BY <2>2 DEF CountKnown
    <3> HIDE DEF i
    <3> QED
      BY <3>1, <3>2, <3>4, <3>5, ExceptSeq
  <2>3. CASE CountNew(addr, bin_name, period)
    <3> DEFINE e == new_entry(addr, bin_name, Addr2Line[<<addr, bin_name>>])
    <3>1. credit(e, period) \in Entry
      BY CreditType, NewEntryType
    <3> QED
      BY <2>3, <3>1 DEF CountNew, credit_new
  <2>4. CASE CountError(addr, bin_name, period)
    BY <2>4, CreditTally DEF CountError
  <2>5. CASE CountNoMemory(addr, bin_name, period)
    BY <2>5, CreditTally DEF CountNoMemory
  <2> QED
    BY <2>1, <2>2, <2>3, <2>4, <2>5 DEF CountSample
<1> QED
  BY <1>1, <1>2

(***************************************************************************)
(* Type correctness: every entry keeps its shape, the write to             *)
(* entry->addr[entry->addhead] in force_entry is always inside the array.  *)
(***************************************************************************)
THEOREM TypeCorrect == Spec => []TypeOK
BY InitType, NextType, PTL DEF Spec

-----------------------------------------------------------------------------
(* What a call does to the list, in the terms the remaining proofs use.    *)

\* The i-th entry is replaced by e, which is of the same function and binary.
Replaces(i, e) ==
  /\ i \in DOMAIN head
  /\ e \in Entry
  /\ head' = [head EXCEPT ![i] = e]
  /\ e.source = head[i].source
  /\ e.bin_name = head[i].bin_name

(***************************************************************************)
(* Replacing an entry leaves the places, the functions and the binaries of *)
(* all entries.                                                            *)
(***************************************************************************)
LEMMA ReplaceKeeps ==
  ASSUME TypeOK, NEW i, NEW e, Replaces(i, e)
  PROVE  /\ DOMAIN head' = DOMAIN head
         /\ head'[i] = e
         /\ \A j \in DOMAIN head : j # i => head'[j] = head[j]
         /\ \A j \in DOMAIN head : /\ head'[j].source = head[j].source
                                   /\ head'[j].bin_name = head[j].bin_name
BY DEF Replaces, TypeOK

(***************************************************************************)
(* A cached sample replaces the entry found by address.                    *)
(***************************************************************************)
LEMMA CachedReplaces ==
  ASSUME TypeOK, NEW addr \in Addrs, NEW bin_name \in BinNames,
         NEW period \in Periods, CountCached(addr, bin_name, period)
  PROVE  LET i == First(AddrHits(addr, bin_name))
         IN  Replaces(i, credit(head[i], period)) /\ i \in AddrHits(addr, bin_name)
<1> DEFINE i == First(AddrHits(addr, bin_name))
<1>1. i \in AddrHits(addr, bin_name) /\ i \in DOMAIN head
  BY FirstIsHit, HitsAreEntries DEF CountCached
<1>2. head' = [head EXCEPT ![i] = credit(head[i], period)]
  BY DEF CountCached, AddrHits, credit_cached
<1>3. head[i] \in Entry
  BY <1>1, ElementOfSeq DEF TypeOK
<1>4. credit(head[i], period) \in Entry
  BY <1>3, CreditType
<1>5. /\ credit(head[i], period).source = head[i].source
      /\ credit(head[i], period).bin_name = head[i].bin_name
  BY <1>3 DEF credit, Entry
<1> HIDE DEF i
<1>6. Replaces(i, credit(head[i], period))
  BY <1>1, <1>2, <1>4, <1>5 DEF Replaces
<1> QED
  BY <1>1, <1>6 DEF i

(***************************************************************************)
(* A sample of a known function replaces the entry found by name.          *)
(***************************************************************************)
LEMMA KnownReplaces ==
  ASSUME TypeOK, NEW addr \in Addrs, NEW bin_name \in BinNames,
         NEW period \in Periods, CountKnown(addr, bin_name, period)
  PROVE  LET s == Addr2Line[<<addr, bin_name>>]
             i == First(NameHits(s))
         IN  /\ Replaces(i, credit(remember(head[i], addr), period))
             /\ i \in NameHits(s)
<1> DEFINE s == Addr2Line[<<addr, bin_name>>]
           i == First(NameHits(s))
           e == remember(head[i], addr)
<1>1. i \in NameHits(s) /\ i \in DOMAIN head
  BY FirstIsHit, HitsAreEntries DEF CountKnown
<1>2. head' = [head EXCEPT ![i] = credit(e, period)]
  BY DEF CountKnown, NameHits, credit_known
<1>3. head[i] \in Entry
  BY <1>1, ElementOfSeq DEF TypeOK
<1>4. e \in Entry
  BY <1>3, RememberType
<1>5. credit(e, period) \in Entry
  BY <1>4, CreditType
<1>6. e.source = head[i].source /\ e.bin_name = head[i].bin_name
  BY <1>3 DEF remember, Entry
<1>7. /\ credit(e, period).source = e.source
      /\ credit(e, period).bin_name = e.bin_name
  BY <1>4 DEF credit, Entry
<1> HIDE DEF i, e, s
<1>8. Replaces(i, credit(e, period))
  BY <1>1, <1>2, <1>5, <1>6, <1>7 DEF Replaces
<1> QED
  BY <1>1, <1>8 DEF i, e, s

(***************************************************************************)
(* A new entry is put before the others and moves them one place down.     *)
(***************************************************************************)
LEMMA PrependShifts ==
  ASSUME TypeOK, NEW e \in Entry, head' = <<e>> \o head
  PROVE  /\ DOMAIN head' = 1 .. Len(head) + 1
         /\ DOMAIN head = 1 .. Len(head)
         /\ head'[1] = e
         /\ \A j \in DOMAIN head : j + 1 \in DOMAIN head' /\ head'[j + 1] = head[j]
         /\ \A k \in DOMAIN head' : k # 1 => /\ k - 1 \in DOMAIN head
                                             /\ head'[k] = head[k - 1]
<1>1. <<e>> \in Seq(Entry) /\ head \in Seq(Entry) /\ Len(<<e>>) = 1
  BY DEF TypeOK
<1>2. /\ <<e>> \o head \in Seq(Entry)
      /\ Len(<<e>> \o head) = 1 + Len(head)
      /\ \A k \in 1 .. 1 + Len(head) :
           (<<e>> \o head)[k] = IF k <= 1 THEN <<e>>[k] ELSE head[k - 1]
  BY <1>1, ConcatProperties
<1> QED
  BY <1>1, <1>2, LenProperties

-----------------------------------------------------------------------------
(* One entry per source function.                                          *)

LEMMA NextOneEntry ==
  TypeOK /\ OneEntryPerSource /\ [Next]_vars => OneEntryPerSource'
<1> SUFFICES ASSUME TypeOK, OneEntryPerSource, [Next]_vars
             PROVE  OneEntryPerSource'
  OBVIOUS
<1>r. ASSUME NEW i, NEW e, Replaces(i, e)
      PROVE  OneEntryPerSource'
  BY <1>r, ReplaceKeeps DEF OneEntryPerSource
<1>1. CASE UNCHANGED vars
  BY <1>1 DEF vars, OneEntryPerSource
<1>2. CASE Next
  <2> SUFFICES ASSUME NEW addr \in Addrs, NEW bin_name \in BinNames,
                      NEW period \in Periods,
                      CountSample(addr, bin_name, period)
               PROVE  OneEntryPerSource'
    BY <1>2 DEF Next
  <2>1. CASE CountCached(addr, bin_name, period)
    BY <2>1, <1>r, CachedReplaces
  <2>2. CASE CountKnown(addr, bin_name, period)
    BY <2>2, <1>r, KnownReplaces
  <2>3. CASE CountNew(addr, bin_name, period)
    <3> DEFINE s == Addr2Line[<<addr, bin_name>>]
               e == credit(new_entry(addr, bin_name, s), period)
    <3>1. e \in Entry
      BY CreditType, NewEntryType
    <3>2. head' = <<e>> \o head
      BY <2>3 DEF CountNew, credit_new
    <3>3. e.source = Addr2Line[<<addr, bin_name>>]
      BY DEF credit, new_entry
    <3>4. \A j \in DOMAIN head : head[j].source # e.source
      BY <2>3, <3>3 DEF CountNew, NameHits, find_entry_name
    <3> HIDE DEF e
    <3>5. \A k \in DOMAIN head' : k # 1 => head'[k].source # head'[1].source
      BY <3>1, <3>2, <3>4, PrependShifts
    <3>6. \A k, l \in DOMAIN head' :
            k # 1 /\ l # 1 /\ head'[k].source = head'[l].source => k = l
      BY <3>1, <3>2, PrependShifts DEF OneEntryPerSource
    <3> QED
      BY <3>5, <3>6 DEF OneEntryPerSource
  <2>4. CASE CountError(addr, bin_name, period)
    BY <2>4 DEF CountError, OneEntryPerSource
  <2>5. CASE CountNoMemory(addr, bin_name, period)
    BY <2>5 DEF CountNoMemory, OneEntryPerSource
  <2> QED
    BY <2>1, <2>2, <2>3, <2>4, <2>5 DEF CountSample
<1> QED
  BY <1>1, <1>2

(***************************************************************************)
(* results.csv has at most one row per source function, whatever addr2line *)
(* answers and even when memory runs out.                                  *)
(***************************************************************************)
THEOREM OneRowPerFunction == Spec => []OneEntryPerSource
<1>1. Init => OneEntryPerSource
  BY DEF Init, OneEntryPerSource
<1> QED
  BY <1>1, TypeCorrect, NextOneEntry, PTL DEF Spec

-----------------------------------------------------------------------------
(* Soundness of the address cache.                                         *)

\* Every address an entry remembers lies, in the entry's binary, in the
\* entry's function.
CacheTrue ==
  \A i \in DOMAIN head : \A idx \in Slots :
    head[i].addr[idx] # NoAddr =>
      Addr2Line[<<head[i].addr[idx], head[i].bin_name>>] = head[i].source

\* The entry's function occurs in the entry's binary.
SourceInBinary ==
  \A i \in DOMAIN head :
    \E x \in Addrs : Addr2Line[<<x, head[i].bin_name>>] = head[i].source

\* LookupSound is not inductive: it says nothing of an address before it is
\* looked up.
CacheInv == TypeOK /\ CacheTrue /\ SourceInBinary

LEMMA CacheInvIsSound == CacheInv => LookupSound
<1> SUFFICES ASSUME CacheInv, NEW addr \in Addrs, NEW bin_name \in BinNames,
                    AddrHits(addr, bin_name) # {}
             PROVE  head[First(AddrHits(addr, bin_name))].source
                      = Addr2Line[<<addr, bin_name>>]
  BY DEF LookupSound
<1> DEFINE i == First(AddrHits(addr, bin_name))
<1>1. i \in AddrHits(addr, bin_name)
  BY FirstIsHit, HitsAreEntries DEF CacheInv
<1>2. PICK idx \in Slots : head[i].addr[idx] = addr
  BY <1>1 DEF AddrHits, find_entry_addr, has_addr
<1>3. i \in DOMAIN head /\ head[i].bin_name = bin_name
  BY <1>1 DEF AddrHits, find_entry_addr
<1>4. addr # NoAddr
  BY FuncStatAssumption
<1> HIDE DEF i
<1> QED
  BY <1>2, <1>3, <1>4 DEF CacheInv, CacheTrue, i

LEMMA NextCacheInv ==
  ASSUME OneBinaryPerSource
  PROVE  CacheInv /\ [Next]_vars => CacheInv'
<1> SUFFICES ASSUME CacheInv, [Next]_vars
             PROVE  CacheTrue' /\ SourceInBinary'
  BY NextType DEF CacheInv
<1>t. TypeOK
  BY DEF CacheInv
<1>1. CASE UNCHANGED vars
  BY <1>1 DEF vars, CacheInv, CacheTrue, SourceInBinary
<1>2. CASE Next
  <2> SUFFICES ASSUME NEW addr \in Addrs, NEW bin_name \in BinNames,
                      NEW period \in Periods,
                      CountSample(addr, bin_name, period)
               PROVE  CacheTrue' /\ SourceInBinary'
    BY <1>2 DEF Next
  <2>r. ASSUME NEW i, NEW e, Replaces(i, e),
               \A idx \in Slots : e.addr[idx] # NoAddr =>
                 Addr2Line[<<e.addr[idx], e.bin_name>>] = e.source
        PROVE  CacheTrue' /\ SourceInBinary'
    <3>1. CacheTrue'
      BY <2>r, <1>t, ReplaceKeeps DEF CacheInv, CacheTrue
    <3>2. SourceInBinary'
      BY <2>r, <1>t, ReplaceKeeps DEF CacheInv, SourceInBinary
    <3> QED
      BY <3>1, <3>2
  <2>1. CASE CountCached(addr, bin_name, period)
    <3> DEFINE i == First(AddrHits(addr, bin_name))
               e == credit(head[i], period)
    <3>1. Replaces(i, e)
      BY <2>1, <1>t, CachedReplaces
    <3>2. i \in DOMAIN head /\ head[i] \in Entry
      BY <3>1, <1>t, ElementOfSeq DEF Replaces, TypeOK
    <3>3. e.addr = head[i].addr
      BY <3>2 DEF credit, Entry
    <3> HIDE DEF i, e
    <3>4. e.bin_name = head[i].bin_name /\ e.source = head[i].source
      BY <3>1 DEF Replaces
    <3>5. \A idx \in Slots : e.addr[idx] # NoAddr =>
            Addr2Line[<<e.addr[idx], e.bin_name>>] = e.source
      BY <3>2, <3>3, <3>4 DEF CacheInv, CacheTrue
    <3> QED
      BY <3>1, <3>5, <2>r
  <2>2. CASE CountKnown(addr, bin_name, period)
    <3> DEFINE s == Addr2Line[<<addr, bin_name>>]
               i == First(NameHits(s))
               e == credit(remember(head[i], addr), period)
    <3>1. Replaces(i, e) /\ i \in NameHits(s)
      BY <2>2, <1>t, KnownReplaces
    <3>2. i \in DOMAIN head /\ head[i] \in Entry /\ head[i].source = s
      BY <3>1, <1>t, ElementOfSeq DEF Replaces, TypeOK, NameHits, find_entry_name
    <3>3. e.addr = [head[i].addr EXCEPT ![head[i].addhead] = addr]
      <4>1. remember(head[i], addr) \in Entry
        BY <3>2, RememberType
      <4>2. e.addr = remember(head[i], addr).addr
        BY <4>1 DEF credit, Entry
      <4> QED
        BY <4>2, <3>2 DEF remember, Entry
    <3>4. head[i].bin_name = bin_name
      <4>1. PICK x \in Addrs : Addr2Line[<<x, head[i].bin_name>>] = s
        BY <3>2 DEF CacheInv, SourceInBinary
      <4>2. /\ <<x, head[i].bin_name>> \in Addrs \X BinNames
            /\ <<addr, bin_name>> \in Addrs \X BinNames
        BY <3>2 DEF Entry
      <4>3. <<x, head[i].bin_name>>[2] = <<addr, bin_name>>[2]
        BY <4>1, <4>2, OneBinaryPerSource DEF OneBinaryPerSource
      <4> QED
        BY <4>3
    <3>5. head[i].addr \in [Slots -> Addrs \cup {NoAddr}]
      BY <3>2 DEF Entry
    <3>6. Addr2Line[<<addr, e.bin_name>>] = e.source
      BY <3>1, <3>2, <3>4 DEF Replaces
    <3> HIDE DEF i, e, s
    <3>7. \A idx \in Slots : e.addr[idx] # NoAddr =>
            Addr2Line[<<e.addr[idx], e.bin_name>>] = e.source
      BY <3>1, <3>2, <3>3, <3>5, <3>6 DEF Replaces, CacheInv, CacheTrue
    <3> QED
      BY <3>1, <3>7, <2>r
  <2>3. CASE CountNew(addr, bin_name, period)
    <3> DEFINE s == Addr2Line[<<addr, bin_name>>]
               e == credit(new_entry(addr, bin_name, s), period)
    <3>1. e \in Entry
      BY CreditType, NewEntryType
    <3>2. head' = <<e>> \o head
      BY <2>3 DEF CountNew, credit_new
    <3>3. /\ e.source = Addr2Line[<<addr, bin_name>>]
          /\ e.bin_name = bin_name
          /\ e.addr = [idx \in Slots |-> IF idx = 0 THEN addr ELSE NoAddr]
      BY DEF credit, new_entry
    <3> HIDE DEF e
    <3>4. \A idx \in Slots : e.addr[idx] # NoAddr =>
            Addr2Line[<<e.addr[idx], e.bin_name>>] = e.source
      BY <3>3
    <3>5. \E x \in Addrs : Addr2Line[<<x, e.bin_name>>] = e.source
      BY <3>3
    <3>6. \A k \in DOMAIN head' :
            head'[k] = e \/ \E j \in DOMAIN head : head'[k] = head[j]
      BY <3>1, <3>2, <1>t, PrependShifts
    <3>7. CacheTrue'
      BY <3>4, <3>6 DEF CacheInv, CacheTrue
    <3>8. SourceInBinary'
      BY <3>5, <3>6 DEF CacheInv, SourceInBinary
    <3> QED
      BY <3>7, <3>8
  <2>4. CASE CountError(addr, bin_name, period)
    BY <2>4 DEF CountError, CacheInv, CacheTrue, SourceInBinary
  <2>5. CASE CountNoMemory(addr, bin_name, period)
    BY <2>5 DEF CountNoMemory, CacheTrue, SourceInBinary
  <2> QED
    BY <2>1, <2>2, <2>3, <2>4, <2>5 DEF CountSample
<1> QED
  BY <1>1, <1>2

(***************************************************************************)
(* When no source function occurs in two binaries, an address found in the *)
(* cache is always the address of the function it is counted for.          *)
(***************************************************************************)
THEOREM CacheIsSound ==
  ASSUME OneBinaryPerSource
  PROVE  Spec => []LookupSound
<1>1. Init => CacheInv
  BY InitType DEF Init, CacheInv, CacheTrue, SourceInBinary
<1>2. CacheInv /\ [Next]_vars => CacheInv'
  BY NextCacheInv
<1> QED
  BY <1>1, <1>2, CacheInvIsSound, PTL DEF Spec

-----------------------------------------------------------------------------
(* FuncStat implements FuncTotals.                                         *)

\* What an entry contributes to the totals.
TallyOf(e) == [samples |-> e.samples, period |-> e.period]

\* The totals of a function are those of its one entry, or zero.
TotalsExact ==
  \A s \in Sources :
    /\ (\A i \in DOMAIN head : head[i].source # s) => TotalOf(s) = Totals!Zero
    /\ \A i \in DOMAIN head : head[i].source = s => TotalOf(s) = TallyOf(head[i])

LEMMA TotalsAreExact == TypeOK /\ OneEntryPerSource => TotalsExact
<1> SUFFICES ASSUME TypeOK, OneEntryPerSource, NEW s \in Sources
             PROVE  /\ (\A i \in DOMAIN head : head[i].source # s)
                          => TotalOf(s) = Totals!Zero
                    /\ \A i \in DOMAIN head :
                          head[i].source = s => TotalOf(s) = TallyOf(head[i])
  BY DEF TotalsExact
<1>1. ASSUME \A i \in DOMAIN head : head[i].source # s
      PROVE  TotalOf(s) = Totals!Zero
  BY <1>1 DEF TotalOf, NameHits, find_entry_name, Totals!Zero
<1>2. ASSUME NEW i \in DOMAIN head, head[i].source = s
      PROVE  TotalOf(s) = TallyOf(head[i])
  <2>1. NameHits(s) # {}
    BY <1>2 DEF NameHits, find_entry_name
  <2>2. First(NameHits(s)) \in NameHits(s)
    BY <2>1, FirstIsHit, HitsAreEntries
  <2>3. First(NameHits(s)) = i
    BY <1>2, <2>2 DEF NameHits, find_entry_name, OneEntryPerSource
  <2> QED
    BY <2>1, <2>3 DEF TotalOf, TallyOf
<1> QED
  BY <1>1, <1>2

LEMMA InitTotals == SamplesInit => Totals!Init
BY DEF SamplesInit, Init, Totals!Init, Totals!Zero, TotalOf, NameHits, find_entry_name

(***************************************************************************)
(* Replacing the entry of function s by one with a further sample counts   *)
(* the sample for s and for no other function.                             *)
(***************************************************************************)
LEMMA ReplaceCounts ==
  ASSUME TypeOK, TotalsExact, TotalsExact', NEW i, NEW e, NEW period \in Periods,
         Replaces(i, e),
         TallyOf(e) = Totals!Add(TallyOf(head[i]), period)
  PROVE  [s \in Sources |-> TotalOf(s)]' =
           [[s \in Sources |-> TotalOf(s)] EXCEPT
              ![head[i].source] = Totals!Add(@, period)]
<1>0. i \in DOMAIN head /\ head[i] \in Entry
  BY ElementOfSeq DEF Replaces, TypeOK
<1>1. PICK src \in Sources : src = head[i].source
  BY <1>0 DEF Entry
<1>k. /\ DOMAIN head' = DOMAIN head
      /\ head'[i] = e
      /\ \A j \in DOMAIN head : j # i => head'[j] = head[j]
      /\ \A j \in DOMAIN head : head'[j].source = head[j].source
  BY ReplaceKeeps
<1>2. TotalOf(src)' = Totals!Add(TotalOf(src), period)
  <2>1. TotalOf(src) = TallyOf(head[i])
    BY <1>0, <1>1 DEF TotalsExact
  <2>2. TotalOf(src)' = TallyOf(head'[i])
    BY <1>0, <1>1, <1>k DEF TotalsExact
  <2> QED
    BY <2>1, <2>2, <1>k
<1>3. ASSUME NEW s \in Sources, s # src
      PROVE  TotalOf(s)' = TotalOf(s)
  <2>1. CASE \A j \in DOMAIN head : head[j].source # s
    BY <1>k, <2>1 DEF TotalsExact
  <2>2. ASSUME NEW j \in DOMAIN head, head[j].source = s
        PROVE  TotalOf(s)' = TotalOf(s)
    <3>1. TotalOf(s) = TallyOf(head[j])
      BY <2>2 DEF TotalsExact
    <3>2. TotalOf(s)' = TallyOf(head'[j])
      BY <2>2, <1>k DEF TotalsExact
    <3> QED
      BY <3>1, <3>2, <2>2, <1>1, <1>3, <1>k
  <2> QED
    BY <2>1, <2>2
<1>4. [s \in Sources |-> TotalOf(s)]' = [s \in Sources |-> TotalOf(s)']
  OBVIOUS
<1>5. \A s \in Sources :
        TotalOf(s)' = IF s = src THEN Totals!Add(TotalOf(src), period)
                                 ELSE TotalOf(s)
  BY <1>2, <1>3
<1> QED
  BY <1>1, <1>4, <1>5, Zenon

(***************************************************************************)
(* Putting a first entry for a function before the list counts its sample  *)
(* for that function and for no other.                                     *)
(***************************************************************************)
LEMMA PrependCounts ==
  ASSUME TypeOK, TotalsExact, TotalsExact', NEW e \in Entry,
         NEW period \in Periods, NEW src \in Sources, e.source = src,
         head' = <<e>> \o head,
         \A j \in DOMAIN head : head[j].source # src,
         TallyOf(e) = Totals!Add(Totals!Zero, period)
  PROVE  [s \in Sources |-> TotalOf(s)]' =
           [[s \in Sources |-> TotalOf(s)] EXCEPT ![src] = Totals!Add(@, period)]
<1>k. /\ 1 \in DOMAIN head'
      /\ head'[1] = e
      /\ \A j \in DOMAIN head : j + 1 \in DOMAIN head' /\ head'[j + 1] = head[j]
      /\ \A k \in DOMAIN head' : k # 1 => /\ k - 1 \in DOMAIN head
                                          /\ head'[k] = head[k - 1]
  BY PrependShifts
<1>2. TotalOf(src)' = Totals!Add(TotalOf(src), period)
  <2>1. TotalOf(src) = Totals!Zero
    BY DEF TotalsExact
  <2>2. TotalOf(src)' = TallyOf(e)
    BY <1>k DEF TotalsExact
  <2> QED
    BY <2>1, <2>2
<1>3. ASSUME NEW s \in Sources, s # src
      PROVE  TotalOf(s)' = TotalOf(s)
  <2>1. CASE \A j \in DOMAIN head : head[j].source # s
    <3>1. \A k \in DOMAIN head' : head'[k].source # s
      BY <2>1, <1>3, <1>k
    <3>2. TotalOf(s)' = Totals!Zero
      BY <3>1 DEF TotalsExact, Totals!Zero
    <3> QED
      BY <2>1, <3>2 DEF TotalsExact
  <2>2. ASSUME NEW j \in DOMAIN head, head[j].source = s
        PROVE  TotalOf(s)' = TotalOf(s)
    <3>1. TotalOf(s) = TallyOf(head[j])
      BY <2>2 DEF TotalsExact
    <3>2. TotalOf(s)' = TallyOf(head'[j + 1])
      BY <2>2, <1>k DEF TotalsExact
    <3> QED
      BY <3>1, <3>2, <2>2, <1>k
  <2> QED
    BY <2>1, <2>2
<1>4. [s \in Sources |-> TotalOf(s)]' = [s \in Sources |-> TotalOf(s)']
  OBVIOUS
<1>5. \A s \in Sources :
        TotalOf(s)' = IF s = src THEN Totals!Add(TotalOf(src), period)
                                 ELSE TotalOf(s)
  BY <1>2, <1>3
<1> QED
  BY <1>4, <1>5, Zenon

(***************************************************************************)
(* Every step of FuncStat counts its sample under the function addr2line   *)
(* names or under the error entry, while memory lasts.                     *)
(***************************************************************************)
LEMMA StepImplementsTotals ==
  ASSUME ~MemoryFails, TypeOK, OneEntryPerSource, OneEntryPerSource', TypeOK',
         LookupSound, [SamplesNext]_<<vars, sample>>
  PROVE  [Totals!Next]_(Totals!vars)
<1>t. TotalsExact /\ TotalsExact'
  BY TotalsAreExact, PTL
<1>1. CASE UNCHANGED <<vars, sample>>
  BY <1>1 DEF vars, Totals!vars, TotalOf, NameHits, find_entry_name
<1>2. CASE SamplesNext
  <2> SUFFICES ASSUME NEW addr \in Addrs, NEW bin_name \in BinNames,
                      NEW period \in Periods,
                      CountSample(addr, bin_name, period),
                      sample' = <<addr, bin_name, period>>
               PROVE  Totals!Next
    BY <1>2 DEF SamplesNext
  <2> DEFINE s == Addr2Line[<<addr, bin_name>>]
  <2>s. s \in Sources
    BY FuncStatAssumption
  <2>1. CASE CountCached(addr, bin_name, period)
    <3> DEFINE i == First(AddrHits(addr, bin_name))
               e == credit(head[i], period)
    <3>1. Replaces(i, e)
      BY <2>1, CachedReplaces
    <3>2. head[i].source = s
      BY <2>1 DEF CountCached, LookupSound
    <3>3. head[i] \in Entry
      BY <3>1, ElementOfSeq DEF Replaces, TypeOK
    <3>4. TallyOf(e) = Totals!Add(TallyOf(head[i]), period)
      BY <3>3 DEF TallyOf, Totals!Add, credit, Entry
    <3>5. error' = error
      BY <2>1 DEF CountCached
    <3> HIDE DEF i, e
    <3>6. [x \in Sources |-> TotalOf(x)]' =
            [[x \in Sources |-> TotalOf(x)] EXCEPT
               ![head[i].source] = Totals!Add(@, period)]
      BY <3>1, <3>4, <1>t, ReplaceCounts
    <3>7. Totals!Count(addr, bin_name, period)
      BY <3>2, <3>5, <3>6, Zenon DEF Totals!Count
    <3> QED
      BY <3>7 DEF Totals!Next
  <2>2. CASE CountKnown(addr, bin_name, period)
    <3> DEFINE i == First(NameHits(s))
               e == credit(remember(head[i], addr), period)
    <3>1. Replaces(i, e) /\ i \in NameHits(s)
      BY <2>2, KnownReplaces
    <3>2. head[i].source = s
      BY <3>1 DEF NameHits, find_entry_name
    <3>3. head[i] \in Entry
      BY <3>1, ElementOfSeq DEF Replaces, TypeOK
    <3>4. TallyOf(e) = Totals!Add(TallyOf(head[i]), period)
      <4>1. remember(head[i], addr) \in Entry
        BY <3>3, RememberType
      <4>2. TallyOf(remember(head[i], addr)) = TallyOf(head[i])
        BY <3>3 DEF TallyOf, remember, Entry
      <4>3. TallyOf(e) = Totals!Add(TallyOf(remember(head[i], addr)), period)
        BY <4>1 DEF TallyOf, Totals!Add, credit, Entry
      <4> QED
        BY <4>2, <4>3
    <3>5. error' = error
      BY <2>2 DEF CountKnown
    <3> HIDE DEF i, e
    <3>6. [x \in Sources |-> TotalOf(x)]' =
            [[x \in Sources |-> TotalOf(x)] EXCEPT
               ![head[i].source] = Totals!Add(@, period)]
      BY <3>1, <3>4, <1>t, ReplaceCounts
    <3>7. Totals!Count(addr, bin_name, period)
      BY <3>2, <3>5, <3>6, Zenon DEF Totals!Count
    <3> QED
      BY <3>7 DEF Totals!Next
  <2>3. CASE CountNew(addr, bin_name, period)
    <3> DEFINE e == credit(new_entry(addr, bin_name, s), period)
    <3>1. e \in Entry
      BY CreditType, NewEntryType
    <3>2. head' = <<e>> \o head /\ error' = error
      BY <2>3 DEF CountNew, credit_new
    <3>3. e.source = s
      BY DEF credit, new_entry
    <3>4. \A j \in DOMAIN head : head[j].source # s
      BY <2>3 DEF CountNew, NameHits, find_entry_name
    <3>5. TallyOf(e) = Totals!Add(Totals!Zero, period)
      BY DEF TallyOf, Totals!Add, Totals!Zero, credit, new_entry
    <3> HIDE DEF e
    <3>6. Totals!Count(addr, bin_name, period)
      BY <3>1, <3>2, <3>3, <3>4, <3>5, <2>s, <1>t, PrependCounts DEF Totals!Count
    <3> QED
      BY <3>6 DEF Totals!Next
  <2>4. CASE CountError(addr, bin_name, period)
    <3>1. error' = Totals!Add(error, period)
      <4>1. error \in Tally
        BY DEF TypeOK
      <4> QED
        BY <2>4, <4>1 DEF CountError, credit, Totals!Add, Tally
    <3>2. [x \in Sources |-> TotalOf(x)]' = [x \in Sources |-> TotalOf(x)]
      BY <2>4 DEF CountError, TotalOf, NameHits, find_entry_name
    <3>3. Totals!Lose(period)
      BY <3>1, <3>2 DEF Totals!Lose
    <3> QED
      BY <3>3 DEF Totals!Next
  <2>5. CASE CountNoMemory(addr, bin_name, period)
    BY <2>5 DEF CountNoMemory
  <2> QED
    BY <2>1, <2>2, <2>3, <2>4, <2>5 DEF CountSample
<1> QED
  BY <1>1, <1>2

(***************************************************************************)
(* The cached and searched list implements plain accumulation: every       *)
(* sample is added exactly once, to the function that contains its address *)
(* or to the error entry, if no function occurs in two binaries and memory *)
(* lasts.                                                                  *)
(***************************************************************************)
THEOREM FuncStatImplementsTotals ==
  ASSUME OneBinaryPerSource, ~MemoryFails
  PROVE  SamplesSpec => ImplementsTotals
<1>1. TypeOK /\ OneEntryPerSource /\ LookupSound /\ [SamplesNext]_<<vars, sample>>
        /\ TypeOK' /\ OneEntryPerSource' => [Totals!Next]_(Totals!vars)
  BY StepImplementsTotals
<1>2. SamplesSpec => Spec
  <2>1. [SamplesNext]_<<vars, sample>> => [Next]_vars
    BY DEF SamplesNext, Next
  <2> QED
    BY <2>1, PTL DEF SamplesSpec, SamplesInit, Spec
<1>3. Spec => []LookupSound
  BY CacheIsSound
<1> QED
  BY <1>1, <1>2, <1>3, InitTotals, TypeCorrect, OneRowPerFunction, PTL
     DEF SamplesSpec, ImplementsTotals, Totals!Spec
=============================================================================

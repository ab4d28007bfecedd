-------------------------- MODULE BuildStatProofs ---------------------------
(***************************************************************************)
(* Theorems about BuildStat, for any set of records: the lifetimes of the  *)
(* processes and the addresses of their samples; the rows of processes.csv *)
(* against the processes created; the types of all it keeps; the samples   *)
(* and periods of processes.csv and results.csv against those of           *)
(* overview.csv; and its use of FuncStat and of the set of processes.      *)
(***************************************************************************)
EXTENDS BuildStat, SumLemmas, SequenceTheorems, FiniteSetTheorems, TLAPS

\* The history of FuncSamples has no part in the theorems about FuncStat.
FSP == INSTANCE FuncStatProofs WITH sample <- asked

-----------------------------------------------------------------------------
(* Lemmas about the operators of BuildStat.                                *)

LEMMA FuncStatHypothesis == FSP!FuncStatAssumption
BY BuildStatAssumption DEF FSP!FuncStatAssumption, FS!FuncStatAssumption

(***************************************************************************)
(* The walk over the regions stops at a region that holds the address.     *)
(***************************************************************************)
LEMMA FirstIsHit ==
  ASSUME NEW S \in SUBSET Nat, S # {}
  PROVE  FS!First(S) \in S
BY FSP!FirstIsHit, FuncStatHypothesis DEF FSP!First, FS!First

(***************************************************************************)
(* find_mmap returns a region whose bounds enclose the address.            *)
(***************************************************************************)
LEMMA FoundRegion ==
  ASSUME NEW proc \in Process, NEW ip, find_mmap(proc, ip) # {}
  PROVE  LET region == proc.mmaps[FS!First(find_mmap(proc, ip))]
         IN  region \in Region /\ region.start <= ip /\ ip <= region.end
<1>1. proc.mmaps \in Seq(Region)
  BY DEF Process
<1>2. find_mmap(proc, ip) \in SUBSET Nat
  BY <1>1 DEF find_mmap
<1> DEFINE i == FS!First(find_mmap(proc, ip))
<1>3. i \in find_mmap(proc, ip)
  BY <1>2, FirstIsHit
<1> HIDE DEF i
<1>4. /\ i \in DOMAIN proc.mmaps
      /\ ip >= proc.mmaps[i].start
      /\ ip <= proc.mmaps[i].end
  BY <1>3 DEF find_mmap
<1>5. proc.mmaps[i] \in Region
  BY <1>1, <1>4, ElementOfSeq
<1>6. proc.mmaps[i].start <= ip
  BY <1>4
<1> QED
  BY <1>4, <1>5, <1>6 DEF i

(***************************************************************************)
(* The difference of the instruction pointer and the start of a region     *)
(* that holds it does not wrap around.                                     *)
(***************************************************************************)
LEMMA AddressBound ==
  ASSUME NEW proc \in Process, NEW region \in Region, NEW ip \in Ips,
         region.start <= ip
  PROVE  /\ address(proc, region, ip) \in Addrs
         /\ address(proc, region, ip) <= ip
<1>1. ip \in 0 .. WordSize - 2 /\ region.start \in 0 .. ip /\ WordSize \in Nat \ {0, 1}
  BY BuildStatAssumption DEF Region, Addrs
<1>2. (ip + WordSize - region.start) % WordSize = ip - region.start
  <2> DEFINE d == ip - region.start
  <2>1. d \in 0 .. WordSize - 1 /\ ip + WordSize - region.start = d + WordSize
    BY <1>1
  <2> HIDE DEF d
  <2>2. (d + WordSize) % WordSize = d
    BY <2>1, <1>1
  <2> QED
    BY <2>1, <2>2 DEF d
<1> QED
  BY <1>1, <1>2 DEF address, Addrs

LEMMA RegionType ==
  ASSUME NEW r \in Regions
  PROVE  region_of(r) \in Region
<1>1. /\ r.start \in 0 .. WordSize - 1 /\ r.len \in 0 .. WordSize - 1
      /\ r.filename \in BinNames /\ WordSize \in Nat \ {0, 1}
  BY BuildStatAssumption
<1>2. (r.start + r.len + WordSize - 1) % WordSize \in 0 .. WordSize - 1
  BY <1>1
<1> QED
  BY <1>1, <1>2 DEF region_of, Region

LEMMA NewProcessType == new_process \in Process
<1>1. 0 \in 0 .. WordSize - 1
  BY BuildStatAssumption
<1>2. << >> \in Seq(Region)
  OBVIOUS
<1> QED
  BY <1>1, <1>2 DEF new_process, Process

LEMMA RowType ==
  ASSUME NEW pid \in Pids, NEW proc \in Process, NEW exit \in Times \cup {NoExit}
  PROVE  row_of(pid, proc, exit) \in Row
<1>1. Len(proc.mmaps) \in Nat
  BY LenProperties DEF Process
<1> QED
  BY <1>1 DEF row_of, Row, Process

(***************************************************************************)
(* A process that is inserted or replaced is the only one that changes.    *)
(***************************************************************************)
LEMMA InsertType ==
  ASSUME TreeOK, NEW pid \in Pids, NEW proc \in Process,
         recTree' = Insert(recTree, pid, proc)
  PROVE  /\ TreeOK'
         /\ DOMAIN recTree' = DOMAIN recTree \cup {pid}
         /\ recTree'[pid] = proc
         /\ \A p \in DOMAIN recTree : p # pid => recTree'[p] = recTree[p]
BY DEF TreeOK, Insert

LEMMA RemoveType ==
  ASSUME TreeOK, NEW pid, recTree' = Remove(recTree, pid)
  PROVE  /\ TreeOK'
         /\ DOMAIN recTree' = DOMAIN recTree \ {pid}
         /\ \A p \in DOMAIN recTree' : recTree'[p] = recTree[p]
BY DEF TreeOK, Remove

(***************************************************************************)
(* A sample is credited to a process without touching anything else of it. *)
(***************************************************************************)
LEMMA CreditProcess ==
  ASSUME NEW proc \in Process, NEW period \in Periods
  PROVE  /\ Add(proc, period) \in Process
         /\ Add(proc, period).fork_time = proc.fork_time
<1>1. proc.samples + 1 \in Nat /\ proc.period + period \in Nat
  BY FuncStatHypothesis DEF FSP!FuncStatAssumption, Process
<1> QED
  BY <1>1 DEF Add, Process

LEMMA CreditTally ==
  ASSUME NEW t \in Tally, NEW period \in Periods
  PROVE  Add(t, period) \in Tally
<1>1. t.samples + 1 \in Nat /\ t.period + period \in Nat
  BY FuncStatHypothesis DEF FSP!FuncStatAssumption, Tally
<1> QED
  BY <1>1 DEF Add, Tally

-----------------------------------------------------------------------------
(* What a record does to the processes: nothing, or it sets one of them, or *)
(* it removes one and writes its row.                                      *)

Stays == UNCHANGED <<recTree, processes_csv>>

\* A process that was there keeps its fork time or takes that of the record;
\* a new one has the time of the record.
Sets(pid, proc, time) ==
  /\ pid \in Pids
  /\ proc \in Process
  /\ recTree' = Insert(recTree, pid, proc)
  /\ processes_csv' = processes_csv
  /\ Live(pid) => proc.fork_time \in {recTree[pid].fork_time, time}
  /\ ~Live(pid) => proc.fork_time = time

Leaves(pid, time) ==
  /\ pid \in Pids
  /\ Live(pid)
  /\ recTree' = Remove(recTree, pid)
  /\ processes_csv' = Append(processes_csv, row_of(pid, recTree[pid], time))

Shape(time) ==
  \/ Stays
  \/ \E p, proc : Sets(p, proc, time)
  \/ \E p : Leaves(p, time)

(***************************************************************************)
(* A sample stays with the process it is credited to.                      *)
(***************************************************************************)
LEMMA CountShape ==
  ASSUME TreeOK, NEW pid \in Pids, NEW period \in Periods, NEW time,
         Live(Owner(pid)), Count(pid, period), UNCHANGED processes_csv
  PROVE  Shape(time)
<1>1. Owner(pid) \in Pids
  BY BuildStatAssumption DEF Owner
<1>2. recTree[Owner(pid)] \in Process
  BY DEF Live, TreeOK
<1> DEFINE proc == Add(recTree[Owner(pid)], period)
<1>3. proc \in Process /\ proc.fork_time = recTree[Owner(pid)].fork_time
  BY <1>2, CreditProcess
<1>4. recTree' = Insert(recTree, Owner(pid), proc)
  BY DEF Count
<1> HIDE DEF proc
<1>5. Sets(Owner(pid), proc, time)
  BY <1>1, <1>3, <1>4 DEF Sets
<1> QED
  BY <1>5 DEF Shape

LEMMA SampleShape ==
  ASSUME TreeOK, NEW pid \in Pids, NEW time \in Times, NEW ip \in Ips,
         NEW period \in Periods, decodeSample(pid, time, ip, period)
  PROVE  Handle(time) /\ Shape(time)
<1>1. CASE SampleWithoutProcess(pid, time, ip, period)
  BY <1>1 DEF SampleWithoutProcess, HandleSample, trees, Shape, Stays
<1>2. CASE SampleWithoutCommon(pid, time, ip, period)
  <2>1. Live(Owner(pid))
    BY <1>2 DEF SampleWithoutCommon, Owner
  <2> QED
    BY <1>2, <2>1, CountShape DEF SampleWithoutCommon, HandleSample
<1>3. CASE SampleWithoutRange(pid, time, ip, period)
  BY <1>3, CountShape DEF SampleWithoutRange, HandleSample
<1>4. CASE SampleResolved(pid, time, ip, period)
  BY <1>4, CountShape DEF SampleResolved, HandleSample
<1> QED
  BY <1>1, <1>2, <1>3, <1>4 DEF decodeSample

(***************************************************************************)
(* The process of a MMAP or COMM record, found or created, is a process,   *)
(* and a created one has the timestamp of the record, zero.                *)
(***************************************************************************)
LEMMA ProcessOfType ==
  ASSUME TreeOK, NEW pid \in Pids, NEW time \in Times, Defined(pid, time)
  PROVE  /\ Process_of(pid) \in Process
         /\ Live(pid) => Process_of(pid).fork_time = recTree[pid].fork_time
         /\ ~Live(pid) => Process_of(pid).fork_time = time
<1>1. CASE Live(pid)
  BY <1>1 DEF Live, TreeOK, Process_of
<1>2. CASE ~Live(pid)
  <2>1. time = 0 /\ Process_of(pid) = new_process
    BY <1>2 DEF Defined, Process_of
  <2> QED
    BY <1>2, <2>1, NewProcessType DEF new_process
<1> QED
  BY <1>1, <1>2

LEMMA MmapShape ==
  ASSUME TreeOK, NEW pid \in Pids, NEW time \in Times, decodeMmap(pid, time)
  PROVE  Handle(time) /\ Shape(time)
<1> DEFINE old == Process_of(pid)
<1>1. CASE NotYetDefined(pid, time)
  BY <1>1 DEF NotYetDefined, HandleOther, trees, Shape, Stays
<1>2. CASE CreateWithoutMemory(pid, time)
  BY <1>2 DEF CreateWithoutMemory, HandleOther, trees, Shape, Stays
<1>3. ASSUME NEW r \in Regions, MmapRegion(pid, time, r)
      PROVE  Handle(time) /\ Shape(time)
  <2> DEFINE proc == [old EXCEPT !.mmaps = <<region_of(r)>> \o @]
  <2>1. /\ old \in Process
        /\ Live(pid) => old.fork_time = recTree[pid].fork_time
        /\ ~Live(pid) => old.fork_time = time
    BY <1>3, ProcessOfType DEF MmapRegion
  <2>2. <<region_of(r)>> \o old.mmaps \in Seq(Region)
    <3>1. <<region_of(r)>> \in Seq(Region)
      BY RegionType
    <3>2. old.mmaps \in Seq(Region)
      BY <2>1 DEF Process
    <3> QED
      BY <3>1, <3>2, ConcatProperties
  <2>3. recTree' = Insert(recTree, pid, proc) /\ processes_csv' = processes_csv
    BY <1>3 DEF MmapRegion, Update
  <2>4. Handle(time)
    BY <1>3 DEF MmapRegion, HandleOther
  <2>5. proc \in Process /\ proc.fork_time = old.fork_time
    <3> HIDE DEF old
    <3> QED
      BY <2>1, <2>2 DEF Process
  <2> HIDE DEF old, proc
  <2>6. Sets(pid, proc, time)
    BY <2>1, <2>3, <2>5 DEF Sets
  <2> QED
    BY <2>4, <2>6 DEF Shape
<1>4. CASE MmapWithoutMemory(pid, time)
  <2> DEFINE proc == [old EXCEPT !.mmaps = << >>]
  <2>1. /\ old \in Process
        /\ Live(pid) => old.fork_time = recTree[pid].fork_time
        /\ ~Live(pid) => old.fork_time = time
    BY <1>4, ProcessOfType DEF MmapWithoutMemory
  <2>3. recTree' = Insert(recTree, pid, proc) /\ processes_csv' = processes_csv
    BY <1>4 DEF MmapWithoutMemory
  <2>4. Handle(time)
    BY <1>4 DEF MmapWithoutMemory, HandleOther
  <2>5. proc \in Process /\ proc.fork_time = old.fork_time
    <3>1. << >> \in Seq(Region)
      OBVIOUS
    <3> HIDE DEF old
    <3> QED
      BY <2>1, <3>1 DEF Process
  <2> HIDE DEF old, proc
  <2>6. Sets(pid, proc, time)
    BY <2>1, <2>3, <2>5 DEF Sets
  <2> QED
    BY <2>4, <2>6 DEF Shape
<1>5. ASSUME NEW pgoff \in Vdsos, MmapVdso(pid, time, pgoff)
      PROVE  Handle(time) /\ Shape(time)
  <2> DEFINE proc == [old EXCEPT !.vdso = pgoff]
  <2>1. /\ old \in Process
        /\ Live(pid) => old.fork_time = recTree[pid].fork_time
        /\ ~Live(pid) => old.fork_time = time
    BY <1>5, ProcessOfType DEF MmapVdso
  <2>3. recTree' = Insert(recTree, pid, proc) /\ processes_csv' = processes_csv
    BY <1>5 DEF MmapVdso, Update
  <2>4. Handle(time)
    BY <1>5 DEF MmapVdso, HandleOther
  <2>5. proc \in Process /\ proc.fork_time = old.fork_time
    <3> HIDE DEF old
    <3> QED
      BY <2>1, BuildStatAssumption DEF Process
  <2> HIDE DEF old, proc
  <2>6. Sets(pid, proc, time)
    BY <2>1, <2>3, <2>5 DEF Sets
  <2> QED
    BY <2>4, <2>6 DEF Shape
<1>6. CASE MmapSecondVdso(pid, time)
  BY <1>6 DEF MmapSecondVdso, HandleOther, trees, Shape, Stays
<1> QED
  BY <1>1, <1>2, <1>3, <1>4, <1>5, <1>6 DEF decodeMmap

LEMMA CommShape ==
  ASSUME TreeOK, NEW pid \in Pids, NEW time \in Times, decodeComm(pid, time)
  PROVE  Handle(time) /\ Shape(time)
<1> DEFINE old == Process_of(pid)
<1>1. CASE NotYetDefined(pid, time)
  BY <1>1 DEF NotYetDefined, HandleOther, trees, Shape, Stays
<1>2. CASE CreateWithoutMemory(pid, time)
  BY <1>2 DEF CreateWithoutMemory, HandleOther, trees, Shape, Stays
<1>3. ASSUME NEW comm \in Comms, CommName(pid, time, comm)
      PROVE  Handle(time) /\ Shape(time)
  <2> DEFINE proc == [old EXCEPT !.comm = comm]
  <2>1. /\ old \in Process
        /\ Live(pid) => old.fork_time = recTree[pid].fork_time
        /\ ~Live(pid) => old.fork_time = time
    BY <1>3, ProcessOfType DEF CommName
  <2>3. recTree' = Insert(recTree, pid, proc) /\ processes_csv' = processes_csv
    BY <1>3 DEF CommName, Update
  <2>4. Handle(time)
    BY <1>3 DEF CommName, HandleOther
  <2>5. proc \in Process /\ proc.fork_time = old.fork_time
    <3> HIDE DEF old
    <3> QED
      BY <2>1 DEF Process
  <2> HIDE DEF old, proc
  <2>6. Sets(pid, proc, time)
    BY <2>1, <2>3, <2>5 DEF Sets
  <2> QED
    BY <2>4, <2>6 DEF Shape
<1> QED
  BY <1>1, <1>2, <1>3 DEF decodeComm

LEMMA ForkShape ==
  ASSUME TreeOK, NEW pid \in Pids, NEW tid, NEW time \in Times,
         decodeFork(pid, tid, time)
  PROVE  Handle(time) /\ Shape(time)
<1>1. CASE ForkProcess(pid, tid, time)
  <2> DEFINE new == new_process
             proc == [new EXCEPT !.fork_time = time]
  <2>1. new \in Process
    BY NewProcessType
  <2>2. recTree' = Insert(recTree, pid, proc) /\ processes_csv' = processes_csv
    BY <1>1 DEF ForkProcess, Update
  <2>3. Handle(time) /\ ~Live(pid)
    BY <1>1 DEF ForkProcess, HandleOther
  <2>4. proc \in Process /\ proc.fork_time = time
    <3> HIDE DEF new
    <3> QED
      BY <2>1 DEF Process
  <2> HIDE DEF new, proc
  <2>5. Sets(pid, proc, time)
    BY <2>2, <2>3, <2>4 DEF Sets
  <2> QED
    BY <2>3, <2>5 DEF Shape
<1>2. CASE ForkThread(pid, tid, time)
  <2> DEFINE old == recTree[pid]
             proc == [old EXCEPT !.fork_time = time]
  <2>1. old \in Process
    BY <1>2 DEF ForkThread, Live, TreeOK
  <2>2. recTree' = Insert(recTree, pid, proc) /\ processes_csv' = processes_csv
    BY <1>2 DEF ForkThread, Update
  <2>3. Handle(time) /\ Live(pid)
    BY <1>2 DEF ForkThread, HandleOther
  <2>4. proc \in Process /\ proc.fork_time = time
    <3> HIDE DEF old
    <3> QED
      BY <2>1 DEF Process
  <2> HIDE DEF old, proc
  <2>5. Sets(pid, proc, time)
    BY <2>2, <2>3, <2>4 DEF Sets
  <2> QED
    BY <2>3, <2>5 DEF Shape
<1>3. CASE ForkOrphan(pid, tid, time)
  BY <1>3 DEF ForkOrphan, HandleOther, trees, Shape, Stays
<1>4. CASE ForkTwice(pid, tid, time)
  BY <1>4 DEF ForkTwice, HandleOther, trees, Shape, Stays
<1>5. CASE CreateWithoutMemory(pid, time)
  BY <1>5 DEF CreateWithoutMemory, HandleOther, trees, Shape, Stays
<1> QED
  BY <1>1, <1>2, <1>3, <1>4, <1>5 DEF decodeFork

LEMMA ExitShape ==
  ASSUME NEW pid \in Pids, NEW tid, NEW time \in Times, decodeExit(pid, tid, time)
  PROVE  Handle(time) /\ Shape(time)
<1>1. CASE ExitProcess(pid, tid, time)
  <2>1. Handle(time) /\ Leaves(pid, time)
    BY <1>1 DEF ExitProcess, HandleOther, Leaves
  <2> QED
    BY <2>1 DEF Shape
<1>2. CASE ExitIgnored(pid, tid, time)
  BY <1>2 DEF ExitIgnored, HandleOther, trees, Shape, Stays
<1> QED
  BY <1>1, <1>2 DEF decodeExit

(***************************************************************************)
(* Every record has one of the three shapes.                               *)
(***************************************************************************)
LEMMA RecordShape ==
  ASSUME TreeOK, NEW pid \in Pids, NEW tid \in Tids, NEW time \in Times,
         handleRecord(pid, tid, time)
  PROVE  Handle(time) /\ Shape(time)
BY SampleShape, MmapShape, CommShape, ForkShape, ExitShape DEF handleRecord

-----------------------------------------------------------------------------
(* The lifetimes of processes.                                             *)

\* LifetimesDisjoint is not inductive: it relates the rows to the processes
\* that are still alive and to the time of the replay.
LifeInv ==
  /\ TreeOK
  /\ IsFiniteSet(DOMAIN recTree)
  /\ processes_csv \in Seq(Row)
  /\ clock \in Nat
  /\ done \in BOOLEAN
  /\ \A p \in DOMAIN recTree : recTree[p].fork_time <= clock
  /\ ~done => \A i \in DOMAIN processes_csv :
                /\ processes_csv[i].exit <= clock
                /\ \A p \in DOMAIN recTree :
                     processes_csv[i].pid = p
                       => processes_csv[i].exit <= recTree[p].fork_time
  /\ LifetimesDisjoint

LEMMA LifeNumbers ==
  /\ \A proc \in Process : proc.fork_time \in Nat
  /\ \A row \in Row : row.fork \in Nat /\ row.exit \in Nat /\ row.pid \in Pids
  /\ Times \subseteq Nat
  /\ NoExit \in Nat
  /\ \A t \in Times \cup {0} : t <= NoExit
<1>1. Times \subseteq Nat /\ NoExit \in Nat /\ \A t \in Times : t <= NoExit
  BY BuildStatAssumption
<1>2. \A proc \in Process : proc.fork_time \in Times \cup {0}
  BY DEF Process
<1>3. \A row \in Row : /\ row.fork \in Times \cup {0}
                       /\ row.exit \in Times \cup {NoExit}
                       /\ row.pid \in Pids
  BY DEF Row
<1>4. \A t \in Times \cup {0} : t \in Nat /\ t <= NoExit
  BY <1>1
<1>5. \A t \in Times \cup {NoExit} : t \in Nat
  BY <1>1
<1> QED
  BY <1>1, <1>2, <1>3, <1>4, <1>5, Zenon

LEMMA LifeInit == Init => LifeInv
<1> SUFFICES ASSUME Init PROVE LifeInv
  OBVIOUS
<1>1. DOMAIN recTree = {} /\ processes_csv = << >> /\ clock = 0 /\ done = FALSE
  BY DEF Init
<1>2. TreeOK
  BY DEF Init, TreeOK
<1>3. IsFiniteSet(DOMAIN recTree)
  BY <1>1, FS_EmptySet
<1>4. processes_csv \in Seq(Row) /\ DOMAIN processes_csv = {}
  BY <1>1
<1> QED
  BY <1>1, <1>2, <1>3, <1>4 DEF LifeInv, LifetimesDisjoint

(***************************************************************************)
(* A record keeps the invariant, whichever of the three shapes it has:     *)
(* this is where the order of the records by time is needed.               *)
(***************************************************************************)
LEMMA LifeRecord ==
  ASSUME LifeInv, NEW time \in Times, Handle(time), Shape(time)
  PROVE  LifeInv'
<1>h. /\ ~done /\ ~done' /\ clock' = time /\ clock <= time
      /\ time \in Nat /\ clock \in Nat
      /\ clock' \in Nat /\ done' \in BOOLEAN
  BY LifeNumbers DEF Handle, LifeInv
<1>t. TreeOK
  BY DEF LifeInv
<1>1. CASE Stays
  <2>1. recTree' = recTree /\ processes_csv' = processes_csv
    BY <1>1 DEF Stays
  <2>2. \A p \in DOMAIN recTree : recTree[p].fork_time <= time
    BY <1>h, LifeNumbers DEF LifeInv, TreeOK
  <2>3. \A i \in DOMAIN processes_csv : processes_csv[i].exit <= time
    <3>1. \A i \in DOMAIN processes_csv : processes_csv[i] \in Row
      BY ElementOfSeq DEF LifeInv
    <3> QED
      BY <3>1, <1>h, LifeNumbers DEF LifeInv
  <2> QED
    BY <2>1, <2>2, <2>3, <1>h DEF LifeInv, TreeOK, LifetimesDisjoint
<1>2. ASSUME NEW p, NEW proc, Sets(p, proc, time)
      PROVE  LifeInv'
  <2>1. /\ TreeOK'
        /\ DOMAIN recTree' = DOMAIN recTree \cup {p}
        /\ recTree'[p] = proc
        /\ \A q \in DOMAIN recTree : q # p => recTree'[q] = recTree[q]
    BY <1>2, <1>t, InsertType DEF Sets
  <2>2. IsFiniteSet(DOMAIN recTree')
    BY <2>1, FS_AddElement DEF LifeInv
  <2>3. processes_csv' = processes_csv
    BY <1>2 DEF Sets
  <2>r. \A i \in DOMAIN processes_csv : processes_csv[i] \in Row
    BY ElementOfSeq DEF LifeInv
  <2>4. \A q \in DOMAIN recTree : recTree[q].fork_time \in Nat /\ recTree[q].fork_time <= time
    BY <1>h, LifeNumbers DEF LifeInv, TreeOK
  <2>5. proc.fork_time \in Nat /\ proc.fork_time <= time
    BY <1>2, <1>h, <2>4, LifeNumbers DEF Sets, Live
  <2>6. \A q \in DOMAIN recTree' : recTree'[q].fork_time <= time
    BY <2>1, <2>4, <2>5
  <2>7. \A i \in DOMAIN processes_csv : processes_csv[i].exit <= time
    BY <2>r, <1>h, LifeNumbers DEF LifeInv
  <2>8. ASSUME NEW i \in DOMAIN processes_csv, processes_csv[i].pid = p
        PROVE  processes_csv[i].exit <= proc.fork_time
    <3>1. CASE Live(p)
      <4>1. processes_csv[i].exit <= recTree[p].fork_time
        BY <2>8, <3>1, <1>h DEF LifeInv, Live
      <4> QED
        BY <4>1, <3>1, <1>2, <2>7 DEF Sets
    <3>2. CASE ~Live(p)
      BY <3>2, <1>2, <2>7 DEF Sets
    <3> QED
      BY <3>1, <3>2
  <2>9. \A i \in DOMAIN processes_csv : \A q \in DOMAIN recTree' :
          processes_csv[i].pid = q => processes_csv[i].exit <= recTree'[q].fork_time
    BY <2>1, <2>8, <1>h DEF LifeInv
  <2> QED
    BY <2>1, <2>2, <2>3, <2>6, <2>7, <2>9, <1>h DEF LifeInv, LifetimesDisjoint
<1>3. ASSUME NEW p, Leaves(p, time)
      PROVE  LifeInv'
  <2> DEFINE row == row_of(p, recTree[p], time)
  <2>1. /\ TreeOK'
        /\ DOMAIN recTree' = DOMAIN recTree \ {p}
        /\ \A q \in DOMAIN recTree' : recTree'[q] = recTree[q]
    BY <1>3, <1>t, RemoveType DEF Leaves
  <2>2. IsFiniteSet(DOMAIN recTree')
    BY <2>1, FS_RemoveElement DEF LifeInv
  <2>3. p \in Pids /\ p \in DOMAIN recTree /\ recTree[p] \in Process
    BY <1>3, <1>t DEF Leaves, Live, TreeOK
  <2>4. row \in Row /\ row.pid = p /\ row.exit = time /\ row.fork = recTree[p].fork_time
    <3>1. row \in Row
      BY <2>3, RowType
    <3>2. row.pid = p /\ row.exit = time /\ row.fork = recTree[p].fork_time
      BY DEF row_of
    <3> QED
      BY <3>1, <3>2
  <2>5. processes_csv' = Append(processes_csv, row)
    BY <1>3 DEF Leaves
  <2> HIDE DEF row
  <2>6. processes_csv \in Seq(Row) /\ LifetimesDisjoint
    BY DEF LifeInv
  <2>7. /\ processes_csv' \in Seq(Row)
        /\ DOMAIN processes_csv = 1 .. Len(processes_csv)
        /\ DOMAIN processes_csv' = 1 .. Len(processes_csv) + 1
        /\ \A i \in DOMAIN processes_csv : processes_csv'[i] = processes_csv[i]
        /\ processes_csv'[Len(processes_csv) + 1] = row
        /\ Len(processes_csv) \in Nat
    BY <2>4, <2>5, <2>6
  <2>r. \A i \in DOMAIN processes_csv : processes_csv[i] \in Row
    BY <2>6, ElementOfSeq
  <2>8. /\ \A q \in DOMAIN recTree : recTree[q].fork_time <= clock
        /\ \A i \in DOMAIN processes_csv :
             /\ processes_csv[i].exit <= clock
             /\ \A q \in DOMAIN recTree :
                  processes_csv[i].pid = q
                    => processes_csv[i].exit <= recTree[q].fork_time
    BY <1>h DEF LifeInv
  <2>9. \A q \in DOMAIN recTree' : recTree'[q].fork_time <= time
    BY <2>1, <2>8, <1>h, <1>t, LifeNumbers DEF TreeOK
  <2>10. \A i \in DOMAIN processes_csv : processes_csv[i].exit <= time
    BY <2>8, <2>r, <1>h, LifeNumbers
  <2>11. \A i \in DOMAIN processes_csv' : processes_csv'[i].exit <= time
    BY <2>4, <2>7, <2>10, <1>h
  <2>12. \A i \in DOMAIN processes_csv' : \A q \in DOMAIN recTree' :
           processes_csv'[i].pid = q => processes_csv'[i].exit <= recTree'[q].fork_time
    BY <2>1, <2>4, <2>7, <2>8
  <2>13. row.fork <= row.exit
    BY <2>3, <2>4, <2>8, <1>h, LifeNumbers
  <2>14. \A i \in DOMAIN processes_csv' : processes_csv'[i].fork <= processes_csv'[i].exit
    BY <2>6, <2>7, <2>13 DEF LifetimesDisjoint
  <2>15. ASSUME NEW i \in DOMAIN processes_csv', NEW j \in DOMAIN processes_csv',
                i < j, processes_csv'[i].pid = processes_csv'[j].pid
         PROVE  processes_csv'[i].exit <= processes_csv'[j].fork
    <3>1. i \in DOMAIN processes_csv
      BY <2>7, <2>15
    <3>2. CASE j \in DOMAIN processes_csv
      BY <2>6, <2>7, <2>15, <3>1, <3>2 DEF LifetimesDisjoint
    <3>3. CASE j = Len(processes_csv) + 1
      BY <2>3, <2>4, <2>7, <2>8, <2>15, <3>1, <3>3
    <3> QED
      BY <3>2, <3>3, <2>7
  <2> QED
    BY <2>1, <2>2, <2>7, <2>9, <2>11, <2>12, <2>14, <2>15, <1>h
    DEF LifeInv, LifetimesDisjoint
<1> QED
  BY <1>1, <1>2, <1>3 DEF Shape

(***************************************************************************)
(* The rows of the processes that are left: none of them has exited, and   *)
(* no two have the same pid.                                               *)
(***************************************************************************)
LEMMA LifePrint ==
  ASSUME LifeInv, print_processes
  PROVE  LifeInv'
<1> DEFINE n == Cardinality(DOMAIN recTree)
<1>1. PICK order \in [1 .. n -> DOMAIN recTree] :
        /\ Ascending(order)
        /\ processes_csv' = processes_csv \o
             [i \in 1 .. n |-> row_of(order[i], recTree[order[i]], NoExit)]
  BY DEF print_processes
<1> DEFINE rows == [i \in 1 .. n |-> row_of(order[i], recTree[order[i]], NoExit)]
<1>2. n \in Nat
  BY FS_CardinalityType DEF LifeInv
<1>3. /\ TreeOK /\ IsFiniteSet(DOMAIN recTree) /\ processes_csv \in Seq(Row)
      /\ clock \in Nat /\ ~done /\ LifetimesDisjoint
      /\ recTree' = recTree /\ clock' = clock /\ done' = TRUE
  BY DEF LifeInv, print_processes
<1> HIDE DEF n
<1>4. \A i \in 1 .. n : order[i] \in DOMAIN recTree /\ recTree[order[i]] \in Process
  BY <1>1, <1>3 DEF TreeOK
<1>5. \A i \in 1 .. n : /\ rows[i] \in Row
                        /\ rows[i].pid = order[i]
                        /\ rows[i].exit = NoExit
                        /\ rows[i].fork = recTree[order[i]].fork_time
  <2>1. \A i \in 1 .. n : rows[i] \in Row
    BY <1>3, <1>4, RowType DEF TreeOK
  <2> QED
    BY <2>1 DEF row_of
<1>6. rows \in Seq(Row) /\ Len(rows) = n /\ DOMAIN rows = 1 .. n
  BY <1>2, <1>5
<1>7. processes_csv' = processes_csv \o rows
  BY <1>1
<1> HIDE DEF rows
<1>8. \A i \in DOMAIN processes_csv : processes_csv[i] \in Row
  BY <1>3, ElementOfSeq
<1> DEFINE m == Len(processes_csv)
<1>9. /\ m \in Nat /\ DOMAIN processes_csv = 1 .. m
      /\ processes_csv' \in Seq(Row)
      /\ DOMAIN processes_csv' = 1 .. m + n
      /\ \A i \in 1 .. m : processes_csv'[i] = processes_csv[i]
      /\ \A i \in 1 .. m + n : i > m => processes_csv'[i] = rows[i - m]
  BY <1>2, <1>3, <1>6, <1>7, ConcatProperties, LenProperties
<1> HIDE DEF m
<1>10. /\ \A q \in DOMAIN recTree : recTree[q].fork_time <= clock
       /\ \A i \in 1 .. m :
             /\ processes_csv[i].exit <= clock
             /\ \A q \in DOMAIN recTree :
                  processes_csv[i].pid = q
                    => processes_csv[i].exit <= recTree[q].fork_time
  BY <1>3, <1>9 DEF LifeInv
<1>11. \A i \in DOMAIN processes_csv' : processes_csv'[i].fork <= processes_csv'[i].exit
  <2>1. ASSUME NEW i \in 1 .. n PROVE rows[i].fork <= rows[i].exit
    BY <1>4, <1>5, LifeNumbers DEF Process
  <2>2. ASSUME NEW i \in 1 .. m + n, i > m PROVE i - m \in 1 .. n
    BY <1>2, <1>9, <2>2
  <2> QED
    BY <1>2, <1>3, <1>9, <2>1, <2>2 DEF LifetimesDisjoint
<1>12. ASSUME NEW i \in DOMAIN processes_csv', NEW j \in DOMAIN processes_csv',
              i < j, processes_csv'[i].pid = processes_csv'[j].pid
       PROVE  processes_csv'[i].exit <= processes_csv'[j].fork
  <2>0. i \in 1 .. m + n /\ j \in 1 .. m + n
    BY <1>9
  <2>1. CASE j <= m
    <3>1. i \in 1 .. m /\ j \in 1 .. m
      BY <1>2, <1>9, <1>12, <2>0, <2>1
    <3>2. processes_csv'[i] = processes_csv[i] /\ processes_csv'[j] = processes_csv[j]
      BY <1>9, <3>1
    <3> QED
      BY <1>3, <1>9, <1>12, <3>1, <3>2 DEF LifetimesDisjoint
  <2>2. CASE i <= m /\ j > m
    <3>1. j - m \in 1 .. n /\ i \in 1 .. m
      BY <1>2, <1>9, <2>0, <2>2
    <3>2. order[j - m] = processes_csv[i].pid /\ order[j - m] \in DOMAIN recTree
      BY <1>4, <1>5, <1>9, <1>12, <2>0, <2>2, <3>1
    <3> QED
      BY <1>5, <1>9, <1>10, <2>0, <2>2, <3>1, <3>2
  <2>3. CASE i > m
    <3>1. i - m \in 1 .. n /\ j - m \in 1 .. n /\ i - m < j - m
      BY <1>2, <1>9, <1>12, <2>0, <2>3
    <3>2. order[i - m] < order[j - m]
      BY <1>1, <3>1 DEF Ascending
    <3>3. order[i - m] = order[j - m]
      BY <1>2, <1>5, <1>9, <1>12, <2>0, <2>3, <3>1
    <3>4. order[i - m] \in Nat
      BY <1>3, <1>4, <3>1, BuildStatAssumption DEF TreeOK
    <3> QED
      BY <3>2, <3>3, <3>4
  <2> QED
    BY <2>0, <2>1, <2>2, <2>3, <1>2, <1>9
<1>13. LifetimesDisjoint'
  BY <1>11, <1>12 DEF LifetimesDisjoint
<1> QED
  BY <1>3, <1>9, <1>10, <1>13 DEF LifeInv, TreeOK

LEMMA LifeNext == LifeInv /\ [Next]_vars => LifeInv'
<1> SUFFICES ASSUME LifeInv, [Next]_vars PROVE LifeInv'
  OBVIOUS
<1>1. ASSUME NEW pid \in Pids, NEW tid \in Tids, NEW time \in Times,
             handleRecord(pid, tid, time)
      PROVE  LifeInv'
  BY <1>1, RecordShape, LifeRecord DEF LifeInv
<1>2. CASE print_processes
  BY <1>2, LifePrint
<1>3. CASE UNCHANGED vars
  BY <1>3 DEF vars, LifeInv, TreeOK, LifetimesDisjoint
<1> QED
  BY <1>1, <1>2, <1>3 DEF Next

(***************************************************************************)
(* "We cannot have two running processes with the same pid", for any       *)
(* stream of records: forks and exits that are lost, repeated or of        *)
(* threads, pids that are reused, and memory that runs out.                *)
(***************************************************************************)
THEOREM ProcessesDoNotOverlap == Spec => []LifetimesDisjoint
<1>1. LifeInv => LifetimesDisjoint
  BY DEF LifeInv
<1> QED
  BY <1>1, LifeInit, LifeNext, PTL DEF Spec

-----------------------------------------------------------------------------
(* The samples handed to the function statistics.                          *)

(***************************************************************************)
(* A sample that is resolved lies in the region it is resolved with, so    *)
(* the address addr2line is asked for is one, and not the mark of an empty *)
(* slot of the address cache.                                              *)
(***************************************************************************)
LEMMA ResolvedAddress ==
  ASSUME TreeOK, NEW pid \in Pids, NEW ip \in Ips,
         Live(Holder(pid, ip)), find_mmap(recTree[Holder(pid, ip)], ip) # {}
  PROVE  LET proc   == recTree[Holder(pid, ip)]
             region == proc.mmaps[FS!First(find_mmap(proc, ip))]
         IN  /\ address(proc, region, ip) \in Addrs
             /\ address(proc, region, ip) <= ip
             /\ region.filename \in BinNames
<1> DEFINE proc == recTree[Holder(pid, ip)]
           region == proc.mmaps[FS!First(find_mmap(proc, ip))]
<1>1. proc \in Process
  BY DEF Live, TreeOK
<1>2. region \in Region /\ region.start <= ip
  BY <1>1, FoundRegion
<1> HIDE DEF proc, region
<1>3. address(proc, region, ip) \in Addrs /\ address(proc, region, ip) <= ip
  BY <1>1, <1>2, AddressBound
<1>4. region.filename \in BinNames
  BY <1>2 DEF Region
<1> QED
  BY <1>3, <1>4 DEF proc, region

LEMMA ResolvedStep ==
  ASSUME TreeOK, NEW pid \in Pids, NEW time, NEW ip \in Ips, NEW period \in Periods,
         SampleResolved(pid, time, ip, period)
  PROVE  FS!Next /\ AddressNoUnderflow'
<1> DEFINE proc == recTree[Holder(pid, ip)]
           region == proc.mmaps[FS!First(find_mmap(proc, ip))]
           addr == address(proc, region, ip)
           file == region.filename
<1>1. addr \in Addrs /\ addr <= ip /\ file \in BinNames
  BY ResolvedAddress DEF SampleResolved
<1>2. asked' = {[ip |-> ip, addr |-> addr, filename |-> file]}
  BY DEF SampleResolved
<1>3. \/ FS!CountCached(addr, file, period)
      \/ FS!CountKnown(addr, file, period)
      \/ FS!CountNew(addr, file, period)
      \/ FS!CountNoMemory(addr, file, period)
      \/ FS!CountError(addr, file, period)
  BY Zenon DEF SampleResolved
<1> HIDE DEF addr, file
<1>4. FS!CountSample(addr, file, period)
  BY <1>3 DEF FS!CountSample
<1>5. FS!Next
  BY <1>1, <1>4 DEF FS!Next
<1>6. AddressNoUnderflow'
  BY <1>1, <1>2 DEF AddressNoUnderflow
<1> QED
  BY <1>5, <1>6

LEMMA SampleStep ==
  ASSUME TreeOK, NEW pid \in Pids, NEW time \in Times, NEW ip \in Ips,
         NEW period \in Periods, decodeSample(pid, time, ip, period)
  PROVE  \/ UNCHANGED funcs
         \/ FS!Next /\ AddressNoUnderflow'
<1>1. CASE SampleWithoutProcess(pid, time, ip, period)
  BY <1>1 DEF SampleWithoutProcess
<1>2. CASE SampleWithoutCommon(pid, time, ip, period)
  BY <1>2 DEF SampleWithoutCommon, funcs
<1>3. CASE SampleWithoutRange(pid, time, ip, period)
  BY <1>3 DEF SampleWithoutRange, funcs
<1>4. CASE SampleResolved(pid, time, ip, period)
  BY <1>4, ResolvedStep
<1> QED
  BY <1>1, <1>2, <1>3, <1>4 DEF decodeSample

LEMMA OtherRecords ==
  ASSUME NEW pid \in Pids, NEW tid \in Tids, NEW time \in Times,
         \/ decodeMmap(pid, time)
         \/ decodeComm(pid, time)
         \/ decodeFork(pid, tid, time)
         \/ decodeExit(pid, tid, time)
  PROVE  UNCHANGED funcs
<1>1. SUFFICES HandleOther(time)
  BY DEF HandleOther
<1>2. CASE decodeMmap(pid, time)
  BY <1>2 DEF decodeMmap, NotYetDefined, CreateWithoutMemory, MmapRegion,
              MmapWithoutMemory, MmapVdso, MmapSecondVdso
<1>3. CASE decodeComm(pid, time)
  BY <1>3 DEF decodeComm, NotYetDefined, CreateWithoutMemory, CommName
<1>4. CASE decodeFork(pid, tid, time)
  BY <1>4 DEF decodeFork, ForkProcess, ForkThread, ForkOrphan, ForkTwice,
              CreateWithoutMemory
<1>5. CASE decodeExit(pid, tid, time)
  BY <1>5 DEF decodeExit, ExitProcess, ExitIgnored
<1> QED
  BY <1>2, <1>3, <1>4, <1>5

LEMMA FunctionStep ==
  ASSUME TreeOK, [Next]_vars
  PROVE  \/ UNCHANGED funcs
         \/ FS!Next /\ AddressNoUnderflow'
<1>1. ASSUME NEW pid \in Pids, NEW tid \in Tids, NEW time \in Times,
             handleRecord(pid, tid, time)
      PROVE  \/ UNCHANGED funcs
             \/ FS!Next /\ AddressNoUnderflow'
  BY <1>1, SampleStep, OtherRecords DEF handleRecord
<1>2. CASE print_processes
  BY <1>2 DEF print_processes
<1>3. CASE UNCHANGED vars
  BY <1>3 DEF vars, funcs
<1> QED
  BY <1>1, <1>2, <1>3 DEF Next

(***************************************************************************)
(* The unsigned difference evt->ip - mmap->start does not wrap around in   *)
(* any run, whatever regions the records describe, the empty region at     *)
(* address zero whose end is the last address included.                    *)
(***************************************************************************)
THEOREM AddressesDoNotWrap == Spec => []AddressNoUnderflow
<1>1. Init => AddressNoUnderflow
  BY DEF Init, AddressNoUnderflow
<1>2. LifeInv /\ AddressNoUnderflow /\ [Next]_vars => AddressNoUnderflow'
  BY FunctionStep DEF LifeInv, funcs, AddressNoUnderflow
<1> QED
  BY <1>1, <1>2, LifeInit, LifeNext, PTL DEF Spec

(***************************************************************************)
(* The replay uses the function statistics as FuncStat specifies them:     *)
(* each call it makes is a sample with an address and a binary FuncStat    *)
(* allows, and nothing else touches the list.  What is proved of FuncStat  *)
(* therefore holds of the results of a run.                                *)
(***************************************************************************)
THEOREM UsesFuncStat == Spec => FS!Spec
<1>1. Init => FS!Init
  BY DEF Init
<1>2. LifeInv /\ [Next]_vars => [FS!Next]_(FS!vars)
  BY FunctionStep DEF LifeInv, funcs, FS!vars
<1> QED
  BY <1>1, <1>2, LifeInit, LifeNext, PTL DEF Spec, FS!Spec

\* FuncStatProofs extends FuncStat: its copy of the specification is the same.
LEMMA SameFuncStat ==
  /\ FS!Init <=> FSP!Init
  /\ [FS!Next]_(FS!vars) <=> [FSP!Next]_(FSP!vars)
<1>1. FS!Init <=> FSP!Init
  BY DEF FS!Init, FSP!Init
<1>2. FS!vars = FSP!vars /\ FS!vars' = FSP!vars'
  BY DEF FS!vars, FSP!vars
<1>3. FS!Next <=> FSP!Next
  BY DEF FS!Next, FSP!Next, FS!CountSample, FSP!CountSample,
         FS!CountCached, FSP!CountCached, FS!CountKnown, FSP!CountKnown,
         FS!CountNew, FSP!CountNew, FS!CountError, FSP!CountError,
         FS!CountNoMemory, FSP!CountNoMemory, FS!AddrHits, FSP!AddrHits,
         FS!NameHits, FSP!NameHits, FS!First, FSP!First,
         FS!has_addr, FSP!has_addr, FS!credit, FSP!credit,
         FS!remember, FSP!remember, FS!new_entry, FSP!new_entry,
         FS!find_entry_addr, FSP!find_entry_addr, FS!find_entry_name, FSP!find_entry_name,
         FS!credit_cached, FSP!credit_cached, FS!credit_known, FSP!credit_known,
         FS!credit_new, FSP!credit_new,
         FS!Slots, FSP!Slots
<1> QED
  BY <1>1, <1>2, <1>3

(***************************************************************************)
(* results.csv has one row per source function, for any stream of records. *)
(***************************************************************************)
THEOREM OneResultPerFunction == Spec => []FS!OneEntryPerSource
<1>1. Spec => FSP!Spec
  BY UsesFuncStat, SameFuncStat, PTL DEF FS!Spec, FSP!Spec
<1>2. FSP!Spec => []FSP!OneEntryPerSource
  BY FSP!OneRowPerFunction, FuncStatHypothesis
<1>3. FSP!OneEntryPerSource => FS!OneEntryPerSource
  BY DEF FSP!OneEntryPerSource, FS!OneEntryPerSource
<1> QED
  BY <1>1, <1>2, <1>3, PTL

-----------------------------------------------------------------------------
(* What a record does to the set of processes, to the rows and to the      *)
(* number of processes created.                                            *)

Keeps == DOMAIN recTree' = DOMAIN recTree /\ UNCHANGED <<processes_csv, created>>

Creates(p) ==
  /\ p \in Pids /\ ~Live(p)
  /\ DOMAIN recTree' = DOMAIN recTree \cup {p}
  /\ created' = [created EXCEPT ![p] = @ + 1]
  /\ UNCHANGED processes_csv

Reports(p, row) ==
  /\ p \in Pids /\ Live(p) /\ row.pid = p
  /\ DOMAIN recTree' = DOMAIN recTree \ {p}
  /\ processes_csv' = Append(processes_csv, row)
  /\ UNCHANGED created

Books == Keeps \/ (\E p : Creates(p)) \/ (\E p, row : Reports(p, row))

LEMMA UpdateBooks ==
  ASSUME NEW pid \in Pids, NEW proc,
         recTree' = Insert(recTree, pid, proc), CountCreated(pid), UNCHANGED processes_csv
  PROVE  Books
<1>1. DOMAIN recTree' = DOMAIN recTree \cup {pid}
  BY DEF Insert
<1>2. CASE Live(pid)
  <2>1. DOMAIN recTree' = DOMAIN recTree
    BY <1>1, <1>2 DEF Live
  <2>2. Keeps
    BY <1>2, <2>1 DEF CountCreated, Keeps
  <2> QED
    BY <2>2 DEF Books
<1>3. CASE ~Live(pid)
  <2>1. Creates(pid)
    BY <1>1, <1>3 DEF CountCreated, Creates
  <2> QED
    BY <2>1 DEF Books
<1> QED
  BY <1>2, <1>3

LEMMA CountBooks ==
  ASSUME NEW pid, NEW period, Live(Owner(pid)), Count(pid, period),
         UNCHANGED <<processes_csv, created>>
  PROVE  Books
<1>1. DOMAIN recTree' = DOMAIN recTree
  BY DEF Count, Insert, Live
<1> QED
  BY <1>1 DEF Books, Keeps

LEMMA UnchangedBooks == UNCHANGED trees => Books
BY DEF trees, Books, Keeps

LEMMA RecordBooks ==
  ASSUME NEW pid \in Pids, NEW tid \in Tids, NEW time \in Times,
         handleRecord(pid, tid, time)
  PROVE  Books
<1>1. ASSUME NEW ip \in Ips, NEW period \in Periods, decodeSample(pid, time, ip, period)
      PROVE  Books
  <2>1. CASE SampleWithoutProcess(pid, time, ip, period)
    BY <2>1, UnchangedBooks DEF SampleWithoutProcess
  <2>2. CASE SampleWithoutCommon(pid, time, ip, period)
    <3>1. Live(Owner(pid))
      BY <2>2 DEF SampleWithoutCommon, Owner
    <3> QED
      BY <2>2, <3>1, CountBooks DEF SampleWithoutCommon
  <2>3. CASE SampleWithoutRange(pid, time, ip, period)
    BY <2>3, CountBooks DEF SampleWithoutRange
  <2>4. CASE SampleResolved(pid, time, ip, period)
    BY <2>4, CountBooks DEF SampleResolved
  <2> QED
    BY <1>1, <2>1, <2>2, <2>3, <2>4 DEF decodeSample
<1>2. CASE decodeMmap(pid, time)
  <2>1. CASE NotYetDefined(pid, time) \/ CreateWithoutMemory(pid, time) \/ MmapSecondVdso(pid, time)
    BY <2>1, UnchangedBooks DEF NotYetDefined, CreateWithoutMemory, MmapSecondVdso
  <2>2. ASSUME NEW r \in Regions, MmapRegion(pid, time, r) PROVE Books
    BY <2>2, UpdateBooks DEF MmapRegion, Update
  <2>3. CASE MmapWithoutMemory(pid, time)
    BY <2>3, UpdateBooks DEF MmapWithoutMemory
  <2>4. ASSUME NEW pgoff \in Vdsos, MmapVdso(pid, time, pgoff) PROVE Books
    BY <2>4, UpdateBooks DEF MmapVdso, Update
  <2> QED
    BY <1>2, <2>1, <2>2, <2>3, <2>4 DEF decodeMmap
<1>3. CASE decodeComm(pid, time)
  <2>1. CASE NotYetDefined(pid, time) \/ CreateWithoutMemory(pid, time)
    BY <2>1, UnchangedBooks DEF NotYetDefined, CreateWithoutMemory
  <2>2. ASSUME NEW comm \in Comms, CommName(pid, time, comm) PROVE Books
    BY <2>2, UpdateBooks DEF CommName, Update
  <2> QED
    BY <1>3, <2>1, <2>2 DEF decodeComm
<1>4. CASE decodeFork(pid, tid, time)
  <2>1. CASE ForkProcess(pid, tid, time) \/ ForkThread(pid, tid, time)
    BY <2>1, UpdateBooks DEF ForkProcess, ForkThread, Update
  <2>2. CASE \/ ForkOrphan(pid, tid, time) \/ ForkTwice(pid, tid, time)
             \/ CreateWithoutMemory(pid, time)
    BY <2>2, UnchangedBooks DEF ForkOrphan, ForkTwice, CreateWithoutMemory
  <2> QED
    BY <1>4, <2>1, <2>2 DEF decodeFork
<1>5. CASE decodeExit(pid, tid, time)
  <2>1. CASE ExitProcess(pid, tid, time)
    <3> DEFINE row == row_of(pid, recTree[pid], time)
    <3>1. row.pid = pid
      BY DEF row_of
    <3>2. DOMAIN recTree' = DOMAIN recTree \ {pid}
      BY <2>1 DEF ExitProcess, Remove
    <3>3. Reports(pid, row)
      BY <2>1, <3>1, <3>2 DEF ExitProcess, Reports
    <3> QED
      BY <3>3 DEF Books
  <2>2. CASE ExitIgnored(pid, tid, time)
    BY <2>2, UnchangedBooks DEF ExitIgnored
  <2> QED
    BY <1>5, <2>1, <2>2 DEF decodeExit
<1> QED
  BY <1>1, <1>2, <1>3, <1>4, <1>5 DEF handleRecord

-----------------------------------------------------------------------------
(* Counting the rows of a pid.                                             *)

RowsOf(rows, p) == {i \in DOMAIN rows : rows[i].pid = p}

LEMMA RowsFinite ==
  ASSUME NEW rows \in Seq(Row), NEW p
  PROVE  IsFiniteSet(RowsOf(rows, p)) /\ Cardinality(RowsOf(rows, p)) \in Nat
<1>1. Len(rows) \in Nat /\ DOMAIN rows = 1 .. Len(rows)
  OBVIOUS
<1>2. IsFiniteSet(1 .. Len(rows))
  BY <1>1, FS_Interval
<1>3. IsFiniteSet(RowsOf(rows, p))
  BY <1>1, <1>2, FS_Subset DEF RowsOf
<1> QED
  BY <1>3, FS_CardinalityType

(***************************************************************************)
(* One more row adds one to the rows of its pid and none to any other.     *)
(***************************************************************************)
LEMMA RowAppended ==
  ASSUME NEW rows \in Seq(Row), NEW row, NEW p
  PROVE  Cardinality(RowsOf(Append(rows, row), p)) =
           Cardinality(RowsOf(rows, p)) + (IF row.pid = p THEN 1 ELSE 0)
<1> DEFINE n == Len(rows)
           more == Append(rows, row)
<1>1. /\ n \in Nat /\ DOMAIN rows = 1 .. n /\ DOMAIN more = 1 .. n + 1
      /\ \A i \in 1 .. n : more[i] = rows[i]
      /\ more[n + 1] = row
  OBVIOUS
<1> HIDE DEF n, more
<1>2. CASE row.pid = p
  <2>1. RowsOf(more, p) = RowsOf(rows, p) \cup {n + 1} /\ n + 1 \notin RowsOf(rows, p)
    BY <1>1, <1>2 DEF RowsOf
  <2> QED
    BY <1>2, <2>1, RowsFinite, FS_AddElement DEF more
<1>3. CASE row.pid # p
  <2>1. RowsOf(more, p) = RowsOf(rows, p)
    BY <1>1, <1>3 DEF RowsOf
  <2> QED
    BY <1>3, <2>1, RowsFinite DEF more
<1> QED
  BY <1>2, <1>3

BookInv ==
  /\ LifeInv
  /\ created \in [Pids -> Nat]
  /\ EveryProcessReportedOnce

LEMMA ReportedRows ==
  EveryProcessReportedOnce <=>
    \A p \in Pids : created[p] = Cardinality(RowsOf(processes_csv, p))
                                   + (IF Live(p) /\ ~done THEN 1 ELSE 0)
BY DEF EveryProcessReportedOnce, RowsOf

LEMMA BookInit == Init => BookInv
<1> SUFFICES ASSUME Init PROVE BookInv
  OBVIOUS
<1>1. LifeInv
  BY LifeInit
<1>2. /\ recTree = [p \in {} |-> new_process] /\ processes_csv = << >>
      /\ created = [p \in Pids |-> 0]
  BY DEF Init
<1>3. ASSUME NEW p PROVE ~Live(p) /\ RowsOf(processes_csv, p) = {}
  BY <1>2 DEF Live, RowsOf
<1>4. Cardinality({}) = 0
  BY FS_EmptySet
<1>5. ASSUME NEW p \in Pids
      PROVE  created[p] = Cardinality(RowsOf(processes_csv, p))
                            + (IF Live(p) /\ ~done THEN 1 ELSE 0)
  <2>1. Cardinality(RowsOf(processes_csv, p)) = 0 /\ ~Live(p)
    BY <1>3, <1>4
  <2>2. created[p] = 0
    BY <1>2
  <2> QED
    BY <2>1, <2>2
<1>6. EveryProcessReportedOnce
  BY <1>5, ReportedRows
<1> QED
  BY <1>1, <1>2, <1>6 DEF BookInv

LEMMA BookRecord ==
  ASSUME BookInv, Books, ~done, ~done'
  PROVE  created' \in [Pids -> Nat] /\ EveryProcessReportedOnce'
<1>1. /\ processes_csv \in Seq(Row) /\ created \in [Pids -> Nat]
      /\ \A p \in Pids : created[p] = Cardinality(RowsOf(processes_csv, p))
                                        + (IF Live(p) THEN 1 ELSE 0)
  BY ReportedRows DEF BookInv, LifeInv
<1>0. \A p \in Pids : Cardinality(RowsOf(processes_csv, p)) \in Nat
  BY <1>1, RowsFinite
<1>2. CASE Keeps
  BY <1>1, <1>2 DEF Keeps, EveryProcessReportedOnce, RowsOf, Live
<1>3. ASSUME NEW q, Creates(q)
      PROVE  created' \in [Pids -> Nat] /\ EveryProcessReportedOnce'
  <2>1. \A p \in Pids : created'[p] = Cardinality(RowsOf(processes_csv', p))
                                        + (IF p \in DOMAIN recTree' THEN 1 ELSE 0)
    BY <1>0, <1>1, <1>3 DEF Creates, Live
  <2> QED
    BY <1>1, <1>3, <2>1 DEF Creates, EveryProcessReportedOnce, RowsOf, Live
<1>4. ASSUME NEW q, NEW row, Reports(q, row)
      PROVE  created' \in [Pids -> Nat] /\ EveryProcessReportedOnce'
  <2>1. processes_csv' = Append(processes_csv, row) /\ row.pid = q
    BY <1>4 DEF Reports
  <2>2. \A p \in Pids : Cardinality(RowsOf(processes_csv', p)) =
          Cardinality(RowsOf(processes_csv, p)) + (IF q = p THEN 1 ELSE 0)
    BY <1>1, <2>1, RowAppended
  <2>3. \A p \in Pids : created'[p] = Cardinality(RowsOf(processes_csv', p))
                                        + (IF p \in DOMAIN recTree' THEN 1 ELSE 0)
    BY <1>0, <1>1, <1>4, <2>2 DEF Reports, Live
  <2> QED
    BY <1>1, <1>4, <2>3 DEF Reports, EveryProcessReportedOnce, RowsOf, Live
<1> QED
  BY <1>2, <1>3, <1>4 DEF Books

\* Where the elements of two sequences are in the two together.
LEMMA Together ==
  ASSUME NEW S, NEW s \in Seq(S), NEW t \in Seq(S)
  PROVE  /\ DOMAIN (s \o t) = 1 .. Len(s) + Len(t)
         /\ \A i \in 1 .. Len(s) : (s \o t)[i] = s[i]
         /\ \A i \in 1 .. Len(t) : (s \o t)[Len(s) + i] = t[i]
<1>1. Len(s) \in Nat /\ Len(t) \in Nat
  BY LenProperties
<1>2. \A i \in 1 .. Len(s) + Len(t) : (s \o t)[i] = IF i <= Len(s) THEN s[i] ELSE t[i - Len(s)]
  BY ConcatProperties
<1>3. Len(s \o t) = Len(s) + Len(t) /\ s \o t \in Seq(S)
  BY ConcatProperties
<1>4. DOMAIN (s \o t) = 1 .. Len(s) + Len(t)
  BY <1>3, LenProperties
<1>5. ASSUME NEW i \in 1 .. Len(s) PROVE (s \o t)[i] = s[i]
  BY <1>1, <1>2
<1>6. ASSUME NEW i \in 1 .. Len(t) PROVE (s \o t)[Len(s) + i] = t[i]
  <2>1. Len(s) + i \in 1 .. Len(s) + Len(t) /\ ~(Len(s) + i <= Len(s)) /\ (Len(s) + i) - Len(s) = i
    BY <1>1
  <2> QED
    BY <1>2, <2>1
<1> QED
  BY <1>4, <1>5, <1>6

(***************************************************************************)
(* An ascending list of as many numbers as a set has lists each of them    *)
(* once.                                                                   *)
(***************************************************************************)
LEMMA AscendingIsAll ==
  ASSUME NEW S \in SUBSET Nat, IsFiniteSet(S),
         NEW order \in [1 .. Cardinality(S) -> S], Ascending(order)
  PROVE  /\ order \in Injection(1 .. Cardinality(S), S)
         /\ order \in Surjection(1 .. Cardinality(S), S)
<1> DEFINE n == Cardinality(S)
<1>1. n \in Nat /\ IsFiniteSet(1 .. n) /\ Cardinality(1 .. n) = n
  BY FS_CardinalityType, FS_Interval
<1>2. order \in [1 .. n -> S]
  OBVIOUS
<1> HIDE DEF n
<1>3. order \in Injection(1 .. n, S)
  <2>1. ASSUME NEW i \in 1 .. n, NEW j \in 1 .. n, order[i] = order[j] PROVE i = j
    <3>1. order[i] \in Nat /\ i \in Nat /\ j \in Nat
      <4>1. order[i] \in S /\ S \subseteq Nat
        BY <1>2
      <4>2. i \in Nat /\ j \in Nat
        BY <1>1
      <4> QED
        BY <4>1, <4>2
    <3>2. ~(order[i] < order[j]) /\ ~(order[j] < order[i])
      BY <2>1, <3>1
    <3>3. ~(i < j) /\ ~(j < i)
      BY <1>2, <3>2 DEF Ascending
    <3> QED
      BY <3>1, <3>3
  <2> QED
    BY <1>2, <2>1 DEF Injection, IsInjective
<1>4. order \in Surjection(1 .. n, S)
  BY <1>1, <1>3, FS_Injection DEF n
<1> QED
  BY <1>3, <1>4 DEF n

(***************************************************************************)
(* print_processes: an ascending list of as many pids as the tree has is   *)
(* the whole tree, so each process that is left gets exactly one row.      *)
(***************************************************************************)
LEMMA BookPrint ==
  ASSUME BookInv, print_processes
  PROVE  EveryProcessReportedOnce'
<1> DEFINE n == Cardinality(DOMAIN recTree)
           m == Len(processes_csv)
<1>1. PICK order \in [1 .. n -> DOMAIN recTree] :
        /\ Ascending(order)
        /\ processes_csv' = processes_csv \o
             [i \in 1 .. n |-> row_of(order[i], recTree[order[i]], NoExit)]
  BY DEF print_processes
<1> DEFINE rows == [i \in 1 .. n |-> row_of(order[i], recTree[order[i]], NoExit)]
<1>2. /\ IsFiniteSet(DOMAIN recTree) /\ DOMAIN recTree \subseteq Nat
      /\ processes_csv \in Seq(Row) /\ ~done /\ done' = TRUE
      /\ created' = created
  BY BuildStatAssumption DEF BookInv, LifeInv, TreeOK, print_processes
<1>3. n \in Nat /\ IsFiniteSet(1 .. n) /\ Cardinality(1 .. n) = n
  BY <1>2, FS_CardinalityType, FS_Interval
<1>4. \A i \in 1 .. n : rows[i].pid = order[i]
  BY DEF row_of
<1>5. Len(rows) = n /\ DOMAIN rows = 1 .. n
  BY <1>3
<1>6. processes_csv' = processes_csv \o rows
  BY <1>1
<1> HIDE DEF n, rows
<1>7. /\ order \in Injection(1 .. n, DOMAIN recTree)
      /\ order \in Surjection(1 .. n, DOMAIN recTree)
  BY <1>1, <1>2, AscendingIsAll DEF n
<1>9. /\ m \in Nat /\ DOMAIN processes_csv = 1 .. m
      /\ DOMAIN processes_csv' = 1 .. m + n
      /\ \A i \in 1 .. m : processes_csv'[i] = processes_csv[i]
      /\ \A i \in 1 .. n : processes_csv'[m + i] = rows[i]
  <2>1. rows \in Seq({rows[i] : i \in 1 .. n})
    <3>1. rows = [i \in 1 .. n |-> rows[i]]
      BY DEF rows
    <3> QED
      BY <1>3, <3>1
  <2>2. processes_csv \in Seq(Row \cup {rows[i] : i \in 1 .. n})
    BY <1>2
  <2>3. rows \in Seq(Row \cup {rows[i] : i \in 1 .. n})
    BY <2>1
  <2>4. m \in Nat /\ DOMAIN processes_csv = 1 .. m
    BY <1>2, LenProperties
  <2> QED
    BY <1>5, <1>6, <2>2, <2>3, <2>4, Together
<1> HIDE DEF m
<1>10. \A i \in 1 .. n : processes_csv'[m + i].pid = order[i]
  BY <1>4, <1>9
<1>11. ASSUME NEW p \in Pids
       PROVE  created'[p] = Cardinality(RowsOf(processes_csv', p))
  <2>1. created[p] = Cardinality(RowsOf(processes_csv, p)) + (IF Live(p) THEN 1 ELSE 0)
    BY <1>2, ReportedRows DEF BookInv
  <2>2. IsFiniteSet(RowsOf(processes_csv, p))
    BY <1>2, RowsFinite
  <2>3. \A i \in 1 .. m + n : i \in 1 .. m \/ \E j \in 1 .. n : i = m + j
    <3>1. ASSUME NEW i \in 1 .. m + n, i \notin 1 .. m PROVE i - m \in 1 .. n /\ i = m + (i - m)
      BY <1>3, <1>9, <3>1
    <3> QED
      BY <3>1
  <2>4. CASE Live(p)
    <3>1. PICK j \in 1 .. n : order[j] = p
      BY <1>7, <2>4 DEF Surjection, Live
    <3>2. \A i \in 1 .. n : order[i] = p => i = j
      BY <1>7, <3>1 DEF Injection, IsInjective
    <3>3. RowsOf(processes_csv', p) = RowsOf(processes_csv, p) \cup {m + j}
      <4>1. m + j \in 1 .. m + n
        BY <1>3, <1>9
      <4>2. processes_csv'[m + j].pid = p
        BY <1>10, <3>1
      <4>3. ASSUME NEW i \in 1 .. m + n, processes_csv'[i].pid = p, i \notin 1 .. m
            PROVE  i = m + j
        <5>1. PICK l \in 1 .. n : i = m + l
          BY <2>3, <4>3
        <5>2. order[l] = p
          BY <1>10, <4>3, <5>1
        <5> QED
          BY <3>2, <5>1, <5>2
      <4>4. 1 .. m \subseteq 1 .. m + n
        BY <1>3, <1>9
      <4> QED
        BY <1>9, <4>1, <4>2, <4>3, <4>4 DEF RowsOf
    <3>4. m + j \notin RowsOf(processes_csv, p)
      BY <1>9 DEF RowsOf
    <3> QED
      BY <1>2, <2>1, <2>2, <2>4, <3>3, <3>4, FS_AddElement
  <2>5. CASE ~Live(p)
    <3>1. \A i \in 1 .. n : order[i] # p
      BY <2>5 DEF Live
    <3>2. RowsOf(processes_csv', p) = RowsOf(processes_csv, p)
      <4>1. ASSUME NEW i \in 1 .. m + n, processes_csv'[i].pid = p PROVE i \in 1 .. m
        <5>1. ASSUME NEW l \in 1 .. n, i = m + l PROVE FALSE
          BY <1>10, <3>1, <4>1, <5>1
        <5> QED
          BY <2>3, <5>1
      <4>2. 1 .. m \subseteq 1 .. m + n
        BY <1>3, <1>9
      <4> QED
        BY <1>9, <4>1, <4>2 DEF RowsOf
    <3>3. Cardinality(RowsOf(processes_csv, p)) \in Nat
      BY <2>2, FS_CardinalityType
    <3> QED
      BY <1>2, <2>1, <2>5, <3>2, <3>3
  <2> QED
    BY <2>4, <2>5
<1>12. \A p \in Pids : Cardinality(RowsOf(processes_csv', p)) \in Nat
  BY <1>2, <1>11 DEF BookInv
<1>13. ASSUME NEW p \in Pids
       PROVE  created'[p] = Cardinality(RowsOf(processes_csv', p))
                              + (IF Live(p)' /\ ~done' THEN 1 ELSE 0)
  <2>1. (IF Live(p)' /\ ~done' THEN 1 ELSE 0) = 0
    BY <1>2
  <2> QED
    BY <1>11, <1>12, <2>1
<1> QED
  BY <1>13, Zenon DEF EveryProcessReportedOnce, RowsOf

LEMMA BookNext == BookInv /\ [Next]_vars => BookInv'
<1> SUFFICES ASSUME BookInv, [Next]_vars PROVE BookInv'
  OBVIOUS
<1>0. LifeInv'
  BY LifeNext DEF BookInv
<1>1. ASSUME NEW pid \in Pids, NEW tid \in Tids, NEW time \in Times,
             handleRecord(pid, tid, time)
      PROVE  BookInv'
  <2>1. ~done /\ ~done'
    BY <1>1, RecordShape DEF BookInv, LifeInv, Handle
  <2> QED
    BY <1>0, <1>1, <2>1, RecordBooks, BookRecord DEF BookInv
<1>2. CASE print_processes
  <2>1. created' = created
    BY <1>2 DEF print_processes
  <2> QED
    BY <1>0, <1>2, <2>1, BookPrint DEF BookInv
<1>3. CASE UNCHANGED vars
  BY <1>0, <1>3 DEF vars, BookInv, EveryProcessReportedOnce, Live
<1> QED
  BY <1>1, <1>2, <1>3 DEF Next

(***************************************************************************)
(* processes.csv has one row for every process that was created, for any   *)
(* stream of records and any number of processes.                          *)
(***************************************************************************)
THEOREM OneRowPerProcess == Spec => []EveryProcessReportedOnce
<1>1. BookInv => EveryProcessReportedOnce
  BY DEF BookInv
<1> QED
  BY <1>1, BookInit, BookNext, PTL DEF Spec

-----------------------------------------------------------------------------
(* Types.                                                                  *)

\* What is printed and counted beside the processes.
ReportsOK ==
  /\ overview_csv \in [lines : Nat, samples : Nat, period : Nat]
  /\ last_error \in Errors
  /\ stderr \in [Errors -> Nat]
  /\ failed \in [Reasons -> Tally]
  /\ asked \in SUBSET [ip : Ips, addr : 0 .. WordSize - 1, filename : BinNames]

LEMMA FailType ==
  ASSUME ReportsOK, NEW err \in Errors, Fail(err)
  PROVE  last_error' \in Errors /\ stderr' \in [Errors -> Nat]
BY DEF Fail, print_last_error, ReportsOK

LEMMA FailSilentlyType ==
  ASSUME ReportsOK, FailSilently
  PROVE  last_error' \in Errors /\ stderr' \in [Errors -> Nat]
BY DEF FailSilently, print_last_error, ReportsOK

LEMMA ErrorNames ==
  {ERR_NOT_YET_DEFINED, ERR_PROC_ALREADY_EXISTS, ERR_PROC_NOT_FOUND,
   ERR_MEMORY_RANGE_NOT_FOUND, ERR_ERRNO} \subseteq Errors
BY DEF Errors

LEMMA GiveUpType ==
  ASSUME ReportsOK, NEW reason \in Reasons, NEW period \in Periods, GiveUp(reason, period)
  PROVE  failed' \in [Reasons -> Tally]
<1>1. failed[reason] \in Tally
  BY DEF ReportsOK
<1>2. Add(failed[reason], period) \in Tally
  BY <1>1, CreditTally
<1> QED
  BY <1>2 DEF GiveUp, ReportsOK

LEMMA OverviewType ==
  ASSUME ReportsOK, NEW time, NEW period \in Periods, HandleSample(time, period)
  PROVE  overview_csv' \in [lines : Nat, samples : Nat, period : Nat]
<1> DEFINE next == [overview_csv EXCEPT !.lines = @ + 1]
<1>1. next \in [lines : Nat, samples : Nat, period : Nat]
  BY DEF ReportsOK
<1>2. next.samples + 1 \in Nat /\ next.period + period \in Nat
  BY <1>1, FuncStatHypothesis DEF FSP!FuncStatAssumption
<1>3. overview_csv' = Add(next, period)
  BY DEF HandleSample
<1> HIDE DEF next
<1> QED
  BY <1>1, <1>2, <1>3 DEF Add

LEMMA SampleReports ==
  ASSUME ReportsOK, TreeOK, NEW pid \in Pids, NEW time \in Times, NEW ip \in Ips,
         NEW period \in Periods, decodeSample(pid, time, ip, period)
  PROVE  ReportsOK'
<1>1. CASE SampleWithoutProcess(pid, time, ip, period)
  <2>1. HandleSample(time, period) /\ Fail(ERR_PROC_NOT_FOUND) /\ GiveUp("no process", period)
        /\ asked' = asked
    BY <1>1 DEF SampleWithoutProcess, funcs
  <2> QED
    BY <2>1, FailType, ErrorNames, GiveUpType, OverviewType DEF ReportsOK, Reasons
<1>2. CASE SampleWithoutCommon(pid, time, ip, period)
  <2>1. HandleSample(time, period) /\ FailSilently /\ GiveUp("no range", period)
        /\ asked' = asked
    BY <1>2 DEF SampleWithoutCommon, funcs
  <2> QED
    BY <2>1, FailSilentlyType, GiveUpType, OverviewType DEF ReportsOK, Reasons
<1>3. CASE SampleWithoutRange(pid, time, ip, period)
  <2>1. HandleSample(time, period) /\ Fail(ERR_MEMORY_RANGE_NOT_FOUND)
        /\ GiveUp("no range", period) /\ asked' = asked
    BY <1>3 DEF SampleWithoutRange, funcs
  <2> QED
    BY <2>1, FailType, ErrorNames, GiveUpType, OverviewType DEF ReportsOK, Reasons
<1>4. CASE SampleResolved(pid, time, ip, period)
  <2> DEFINE proc == recTree[Holder(pid, ip)]
             region == proc.mmaps[FS!First(find_mmap(proc, ip))]
             addr == address(proc, region, ip)
             binary == region.filename
  <2>1. addr \in Addrs /\ binary \in BinNames
    BY <1>4, ResolvedAddress DEF SampleResolved
  <2>2. asked' = {[ip |-> ip, addr |-> addr, filename |-> binary]}
    BY <1>4 DEF SampleResolved
  <2>3. HandleSample(time, period) /\ UNCHANGED <<stderr, failed>>
    BY <1>4 DEF SampleResolved
  <2>4. last_error' \in {last_error, ERR_NOT_YET_DEFINED}
    BY <1>4, Zenon DEF SampleResolved
  <2> HIDE DEF addr, binary
  <2>5. asked' \in SUBSET [ip : Ips, addr : 0 .. WordSize - 1, filename : BinNames]
    <3>1. addr \in 0 .. WordSize - 1
      BY <2>1, BuildStatAssumption DEF Addrs
    <3> QED
      BY <2>1, <2>2, <3>1
  <2> QED
    BY <2>3, <2>4, <2>5, ErrorNames, OverviewType DEF ReportsOK
<1> QED
  BY <1>1, <1>2, <1>3, <1>4 DEF decodeSample

LEMMA OtherIsHandled ==
  ASSUME NEW pid \in Pids, NEW tid \in Tids, NEW time \in Times,
         \/ decodeMmap(pid, time) \/ decodeComm(pid, time)
         \/ decodeFork(pid, tid, time) \/ decodeExit(pid, tid, time)
  PROVE  HandleOther(time)
<1>1. CASE decodeMmap(pid, time)
  BY <1>1 DEF decodeMmap, NotYetDefined, CreateWithoutMemory, MmapRegion,
              MmapWithoutMemory, MmapVdso, MmapSecondVdso
<1>2. CASE decodeComm(pid, time)
  BY <1>2 DEF decodeComm, NotYetDefined, CreateWithoutMemory, CommName
<1>3. CASE decodeFork(pid, tid, time)
  BY <1>3 DEF decodeFork, ForkProcess, ForkThread, ForkOrphan, ForkTwice,
              CreateWithoutMemory
<1>4. CASE decodeExit(pid, tid, time)
  BY <1>4 DEF decodeExit, ExitProcess, ExitIgnored
<1> QED
  BY <1>1, <1>2, <1>3, <1>4

LEMMA OtherReports ==
  ASSUME ReportsOK, NEW pid \in Pids, NEW tid \in Tids, NEW time \in Times,
         \/ decodeMmap(pid, time) \/ decodeComm(pid, time)
         \/ decodeFork(pid, tid, time) \/ decodeExit(pid, tid, time)
  PROVE  ReportsOK'
<1>1. \/ UNCHANGED reports
      \/ FailSilently
      \/ \E err \in {ERR_NOT_YET_DEFINED, ERR_PROC_ALREADY_EXISTS, ERR_PROC_NOT_FOUND,
                     ERR_ERRNO} : Fail(err)
  <2>1. CASE decodeMmap(pid, time)
    BY <2>1 DEF decodeMmap, NotYetDefined, CreateWithoutMemory, MmapRegion,
                MmapWithoutMemory, MmapVdso, MmapSecondVdso, Update
  <2>2. CASE decodeComm(pid, time)
    BY <2>2 DEF decodeComm, NotYetDefined, CreateWithoutMemory, CommName, Update
  <2>3. CASE decodeFork(pid, tid, time)
    BY <2>3 DEF decodeFork, ForkProcess, ForkThread, ForkOrphan, ForkTwice,
                CreateWithoutMemory, Update
  <2>4. CASE decodeExit(pid, tid, time)
    BY <2>4 DEF decodeExit, ExitProcess, ExitIgnored
  <2> QED
    BY <2>1, <2>2, <2>3, <2>4
<1>2. HandleOther(time)
  BY OtherIsHandled
<1>3. last_error' \in Errors /\ stderr' \in [Errors -> Nat]
  <2>1. CASE UNCHANGED reports
    BY <2>1 DEF reports, ReportsOK
  <2> QED
    BY <1>1, <2>1, FailType, FailSilentlyType, ErrorNames
<1>4. /\ overview_csv' \in [lines : Nat, samples : Nat, period : Nat]
      /\ failed' = failed /\ asked' = asked
  BY <1>2 DEF HandleOther, ReportsOK, funcs
<1> QED
  BY <1>3, <1>4 DEF ReportsOK

LEMMA ReportsNext ==
  ASSUME ReportsOK, TreeOK, [Next]_vars
  PROVE  ReportsOK'
<1>1. ASSUME NEW pid \in Pids, NEW tid \in Tids, NEW time \in Times,
             handleRecord(pid, tid, time)
      PROVE  ReportsOK'
  BY <1>1, SampleReports, OtherReports DEF handleRecord
<1>2. CASE print_processes
  BY <1>2 DEF print_processes, ReportsOK, reports, funcs
<1>3. CASE UNCHANGED vars
  BY <1>3 DEF vars, ReportsOK
<1> QED
  BY <1>1, <1>2, <1>3 DEF Next

\* The entries lost are entries: the list they come from has the types of
\* FuncStat.
LEMMA DroppedNext ==
  ASSUME dropped \in Seq(FS!Entry), head \in Seq(FS!Entry), TreeOK, [Next]_vars
  PROVE  dropped' \in Seq(FS!Entry)
<1>1. UNCHANGED dropped \/ dropped' = dropped \o head
  <2>1. ASSUME NEW pid \in Pids, NEW tid \in Tids, NEW time \in Times,
               handleRecord(pid, tid, time)
        PROVE  UNCHANGED dropped \/ dropped' = dropped \o head
    <3>1. ASSUME NEW ip \in Ips, NEW period \in Periods, decodeSample(pid, time, ip, period)
          PROVE  UNCHANGED dropped \/ dropped' = dropped \o head
      <4>1. CASE SampleResolved(pid, time, ip, period)
        BY <4>1, Zenon DEF SampleResolved
      <4> QED
        BY <3>1, <4>1 DEF decodeSample, SampleWithoutProcess, SampleWithoutCommon,
                          SampleWithoutRange, funcs
    <3> QED
      BY <2>1, <3>1, OtherRecords DEF handleRecord, funcs
  <2>2. CASE print_processes
    BY <2>2 DEF print_processes, funcs
  <2>3. CASE UNCHANGED vars
    BY <2>3 DEF vars
  <2> QED
    BY <2>1, <2>2, <2>3 DEF Next
<1> QED
  BY <1>1, ConcatProperties

LEMMA ClockNext ==
  ASSUME clock \in Times \cup {0}, TreeOK, [Next]_vars
  PROVE  clock' \in Times \cup {0}
<1>1. ASSUME NEW pid \in Pids, NEW tid \in Tids, NEW time \in Times,
             handleRecord(pid, tid, time)
      PROVE  clock' \in Times \cup {0}
  BY <1>1, RecordShape DEF Handle
<1>2. CASE print_processes
  BY <1>2 DEF print_processes
<1>3. CASE UNCHANGED vars
  BY <1>3 DEF vars
<1> QED
  BY <1>1, <1>2, <1>3 DEF Next

TypeInv ==
  /\ BookInv
  /\ ReportsOK
  /\ clock \in Times \cup {0}
  /\ dropped \in Seq(FS!Entry)

LEMMA TypeInit == Init => TypeInv
<1> SUFFICES ASSUME Init PROVE TypeInv
  OBVIOUS
<1>1. /\ overview_csv = [lines |-> 0, samples |-> 0, period |-> 0]
      /\ last_error = ERR_NONE /\ stderr = [e \in Errors |-> 0]
      /\ clock = 0 /\ failed = [r \in Reasons |-> Zero]
      /\ asked = {} /\ dropped = << >>
  BY DEF Init
<1>2. Zero \in Tally /\ ERR_NONE \in Errors
  BY DEF Zero, Tally, Errors
<1>3. ReportsOK
  BY <1>1, <1>2 DEF ReportsOK
<1>4. dropped \in Seq(FS!Entry)
  BY <1>1
<1> QED
  BY <1>1, <1>3, <1>4, BookInit DEF TypeInv

LEMMA TypeNext == TypeInv /\ head \in Seq(FS!Entry) /\ [Next]_vars => TypeInv'
BY BookNext, ReportsNext, ClockNext, DroppedNext DEF TypeInv, BookInv, LifeInv

\* The list of the function statistics keeps the types FuncStat is proved to
\* keep.
LEMMA FunctionTypes == Spec => [](head \in Seq(FS!Entry) /\ error \in Tally)
<1>1. Spec => FSP!Spec
  BY UsesFuncStat, SameFuncStat, PTL DEF FS!Spec, FSP!Spec
<1>2. FSP!Spec => []FSP!TypeOK
  BY FSP!TypeCorrect, FuncStatHypothesis
<1>3. FSP!TypeOK => head \in Seq(FS!Entry) /\ error \in Tally
  BY DEF FSP!TypeOK, FSP!Entry, FS!Entry, FSP!Slots, FS!Slots, FSP!Tally, Tally
<1> QED
  BY <1>1, <1>2, <1>3, PTL

(***************************************************************************)
(* The types of the whole replay, with the list of the function statistics *)
(* that FuncStat is proved to keep.                                        *)
(***************************************************************************)
THEOREM ReplayTypes == Spec => []TypeOK
<1>3. TypeInv => TypeOK
  BY DEF TypeInv, BookInv, LifeInv, ReportsOK, TypeOK
<1> QED
  BY TypeInit, TypeNext, FunctionTypes, <1>3, PTL DEF Spec

-----------------------------------------------------------------------------
(* Totals.                                                                 *)

\* The two columns of what is added up.
SamplesIn(f) == [i \in DOMAIN f |-> f[i].samples]
PeriodsIn(f) == [i \in DOMAIN f |-> f[i].period]

IsTally(t) == t.samples \in Nat /\ t.period \in Nat
Tallies(f) == IsFiniteSet(DOMAIN f) /\ \A i \in DOMAIN f : IsTally(f[i])

LEMMA TotalIs ==
  ASSUME NEW f
  PROVE  /\ Total(f).samples = SumFunction(SamplesIn(f))
         /\ Total(f).period = SumFunction(PeriodsIn(f))
         /\ Total(f) = [samples |-> Total(f).samples, period |-> Total(f).period]
BY DEF Total, SamplesIn, PeriodsIn

LEMMA Columns ==
  ASSUME NEW f, Tallies(f)
  PROVE  /\ DOMAIN SamplesIn(f) = DOMAIN f /\ DOMAIN PeriodsIn(f) = DOMAIN f
         /\ IsFiniteSet(DOMAIN SamplesIn(f)) /\ IsFiniteSet(DOMAIN PeriodsIn(f))
         /\ Terms(SamplesIn(f), DOMAIN SamplesIn(f))
         /\ Terms(PeriodsIn(f), DOMAIN PeriodsIn(f))
         /\ \A i \in DOMAIN f : SamplesIn(f)[i] = f[i].samples /\ PeriodsIn(f)[i] = f[i].period
BY DEF SamplesIn, PeriodsIn, Terms, Tallies, IsTally

LEMMA TotalType ==
  ASSUME NEW f, Tallies(f)
  PROVE  Total(f) \in Tally
<1>1. SumFunction(SamplesIn(f)) \in Nat /\ SumFunction(PeriodsIn(f)) \in Nat
  BY Columns, SumType
<1> QED
  BY <1>1, TotalIs DEF Tally

\* Nothing to add up.
LEMMA TotalOfNothing ==
  ASSUME NEW f, DOMAIN f = {}
  PROVE  Total(f) = Zero
<1>1. DOMAIN SamplesIn(f) = {} /\ DOMAIN PeriodsIn(f) = {}
  BY DEF SamplesIn, PeriodsIn
<1>2. SumFunction(SamplesIn(f)) = 0 /\ SumFunction(PeriodsIn(f)) = 0
  BY <1>1, SumOnEmpty DEF SumFunction
<1> QED
  BY <1>2, TotalIs DEF Zero

(***************************************************************************)
(* One more tally adds itself.                                             *)
(***************************************************************************)
LEMMA TotalGrows ==
  ASSUME NEW f, Tallies(f), NEW x, x \notin DOMAIN f, NEW g,
         DOMAIN g = DOMAIN f \cup {x}, \A y \in DOMAIN f : g[y] = f[y], IsTally(g[x])
  PROVE  Tallies(g) /\ Total(g) = Plus(Total(f), g[x])
<1>1. Tallies(g)
  BY FS_AddElement DEF Tallies
<1>2. SumFunction(SamplesIn(g)) = SumFunction(SamplesIn(f)) + g[x].samples
  <2> DEFINE u == SamplesIn(f)
             v == SamplesIn(g)
  <2>1. /\ IsFiniteSet(DOMAIN u) /\ Terms(u, DOMAIN u) /\ x \notin DOMAIN u
        /\ DOMAIN v = DOMAIN u \cup {x} /\ v[x] = g[x].samples /\ v[x] \in Nat
        /\ \A y \in DOMAIN u : v[y] = u[y]
    <3>1. Tallies(f) /\ Tallies(g) /\ x \in DOMAIN g
      BY <1>1
    <3>2. DOMAIN u = DOMAIN f /\ DOMAIN v = DOMAIN g
      BY <3>1, Columns
    <3> QED
      BY <3>1, <3>2, Columns DEF IsTally
  <2> HIDE DEF u, v
  <2>2. SumFunction(v) = SumFunction(u) + v[x]
    BY <2>1, SumGrows
  <2> QED
    BY <2>1, <2>2 DEF u, v
<1>3. SumFunction(PeriodsIn(g)) = SumFunction(PeriodsIn(f)) + g[x].period
  <2> DEFINE u == PeriodsIn(f)
             v == PeriodsIn(g)
  <2>1. /\ IsFiniteSet(DOMAIN u) /\ Terms(u, DOMAIN u) /\ x \notin DOMAIN u
        /\ DOMAIN v = DOMAIN u \cup {x} /\ v[x] = g[x].period /\ v[x] \in Nat
        /\ \A y \in DOMAIN u : v[y] = u[y]
    <3>1. Tallies(f) /\ Tallies(g) /\ x \in DOMAIN g
      BY <1>1
    <3>2. DOMAIN u = DOMAIN f /\ DOMAIN v = DOMAIN g
      BY <3>1, Columns
    <3> QED
      BY <3>1, <3>2, Columns DEF IsTally
  <2> HIDE DEF u, v
  <2>2. SumFunction(v) = SumFunction(u) + v[x]
    BY <2>1, SumGrows
  <2> QED
    BY <2>1, <2>2 DEF u, v
<1> QED
  BY <1>1, <1>2, <1>3, TotalIs DEF Plus

(***************************************************************************)
(* A tally that changes changes the total by the difference.               *)
(***************************************************************************)
LEMMA TotalChanges ==
  ASSUME NEW f, Tallies(f), NEW x \in DOMAIN f, NEW g, DOMAIN g = DOMAIN f,
         \A y \in DOMAIN f : y # x => g[y] = f[y], IsTally(g[x])
  PROVE  Tallies(g) /\ Plus(Total(g), f[x]) = Plus(Total(f), g[x])
<1>1. Tallies(g)
  BY DEF Tallies
<1>2. SumFunction(SamplesIn(g)) + f[x].samples = SumFunction(SamplesIn(f)) + g[x].samples
  <2> DEFINE u == SamplesIn(f)
             v == SamplesIn(g)
  <2>1. /\ IsFiniteSet(DOMAIN u) /\ Terms(u, DOMAIN u) /\ x \in DOMAIN u
        /\ DOMAIN v = DOMAIN u /\ v[x] = g[x].samples /\ v[x] \in Nat
        /\ u[x] = f[x].samples
        /\ \A y \in DOMAIN u : y # x => v[y] = u[y]
    BY <1>1, Columns DEF IsTally
  <2> HIDE DEF u, v
  <2>2. SumFunction(v) + u[x] = SumFunction(u) + v[x]
    BY <2>1, SumChanges
  <2> QED
    BY <2>1, <2>2 DEF u, v
<1>3. SumFunction(PeriodsIn(g)) + f[x].period = SumFunction(PeriodsIn(f)) + g[x].period
  <2> DEFINE u == PeriodsIn(f)
             v == PeriodsIn(g)
  <2>1. /\ IsFiniteSet(DOMAIN u) /\ Terms(u, DOMAIN u) /\ x \in DOMAIN u
        /\ DOMAIN v = DOMAIN u /\ v[x] = g[x].period /\ v[x] \in Nat
        /\ u[x] = f[x].period
        /\ \A y \in DOMAIN u : y # x => v[y] = u[y]
    BY <1>1, Columns DEF IsTally
  <2> HIDE DEF u, v
  <2>2. SumFunction(v) + u[x] = SumFunction(u) + v[x]
    BY <2>1, SumChanges
  <2> QED
    BY <2>1, <2>2 DEF u, v
<1> QED
  BY <1>1, <1>2, <1>3, TotalIs DEF Plus

(***************************************************************************)
(* Tallies that are those of another table, each once, have its total.     *)
(***************************************************************************)
LEMMA TotalMoves ==
  ASSUME NEW f, Tallies(f), NEW g, NEW b,
         DOMAIN g = {b[x] : x \in DOMAIN f},
         \A x \in DOMAIN f : g[b[x]].samples = f[x].samples /\ g[b[x]].period = f[x].period,
         \A x, y \in DOMAIN f : b[x] = b[y] => x = y
  PROVE  Total(g) = Total(f)
<1> DEFINE S == DOMAIN f
<1>1. IsFiniteSet(S) /\ Terms(SamplesIn(f), S) /\ Terms(PeriodsIn(f), S)
  BY Columns
<1>2. /\ \A x \in S : SamplesIn(g)[b[x]] = SamplesIn(f)[x]
      /\ \A x \in S : PeriodsIn(g)[b[x]] = PeriodsIn(f)[x]
      /\ DOMAIN SamplesIn(g) = {b[x] : x \in S} /\ DOMAIN SamplesIn(f) = S
      /\ DOMAIN PeriodsIn(g) = {b[x] : x \in S} /\ DOMAIN PeriodsIn(f) = S
  BY DEF SamplesIn, PeriodsIn
<1>3. \A x, y \in S : b[x] = b[y] => x = y
  OBVIOUS
<1> HIDE DEF S
<1>4. SumFunctionOnSet(SamplesIn(g), {b[x] : x \in S}) = SumFunctionOnSet(SamplesIn(f), S)
  BY <1>1, <1>2, <1>3, SumMoves
<1>5. SumFunctionOnSet(PeriodsIn(g), {b[x] : x \in S}) = SumFunctionOnSet(PeriodsIn(f), S)
  BY <1>1, <1>2, <1>3, SumMoves
<1> QED
  BY <1>2, <1>4, <1>5, TotalIs DEF SumFunction

\* Rows, entries: sequences of tallies.
LEMMA TalliesOf ==
  ASSUME NEW S, \A t \in S : IsTally(t), NEW s \in Seq(S)
  PROVE  Tallies(s) /\ SamplesIn(s) \in Seq(Nat) /\ PeriodsIn(s) \in Seq(Nat)
<1>1. Len(s) \in Nat /\ DOMAIN s = 1 .. Len(s) /\ \A i \in 1 .. Len(s) : s[i] \in S
  BY ElementOfSeq, LenProperties
<1>2. Tallies(s)
  BY <1>1, FS_Interval DEF Tallies
<1> QED
  BY <1>1, <1>2 DEF SamplesIn, PeriodsIn, Tallies, IsTally

\* A sequence that is two sequences one after the other.
LEMMA IsConcat ==
  ASSUME NEW S, NEW s \in Seq(S), NEW t \in Seq(S), NEW st \in Seq(S),
         DOMAIN st = 1 .. Len(s) + Len(t),
         \A i \in 1 .. Len(s) : st[i] = s[i],
         \A i \in 1 .. Len(t) : st[Len(s) + i] = t[i]
  PROVE  st = s \o t
<1>1. /\ s \o t \in Seq(S) /\ Len(s \o t) = Len(s) + Len(t)
      /\ Len(s) \in Nat /\ Len(t) \in Nat
  BY ConcatProperties, LenProperties
<1>2. Len(st) = Len(s) + Len(t)
  BY <1>1, LenProperties
<1>3. ASSUME NEW i \in 1 .. Len(st) PROVE st[i] = (s \o t)[i]
  <2>1. CASE i <= Len(s)
    BY <1>1, <1>2, <1>3, <2>1, Together
  <2>2. CASE ~(i <= Len(s))
    <3>1. i - Len(s) \in 1 .. Len(t) /\ Len(s) + (i - Len(s)) = i
      BY <1>1, <1>2, <2>2
    <3>2. st[Len(s) + (i - Len(s))] = (s \o t)[Len(s) + (i - Len(s))]
      BY <3>1, Together
    <3> QED
      BY <3>1, <3>2
  <2> QED
    BY <2>1, <2>2
<1> QED
  BY <1>1, <1>2, <1>3, SeqEqual

LEMMA TotalConcat ==
  ASSUME NEW S, \A t \in S : IsTally(t), NEW s \in Seq(S), NEW t \in Seq(S)
  PROVE  Total(s \o t) = Plus(Total(s), Total(t))
<1> DEFINE st == s \o t
<1>1. /\ DOMAIN st = 1 .. Len(s) + Len(t)
      /\ \A i \in 1 .. Len(s) : st[i] = s[i]
      /\ \A i \in 1 .. Len(t) : st[Len(s) + i] = t[i]
      /\ Len(s) \in Nat /\ Len(t) \in Nat
      /\ DOMAIN s = 1 .. Len(s) /\ DOMAIN t = 1 .. Len(t)
  BY Together, LenProperties
<1>2. st \in Seq(S)
  BY ConcatProperties
<1>3. SamplesIn(st) = SamplesIn(s) \o SamplesIn(t)
  <2>1. SamplesIn(s) \in Seq(Nat) /\ SamplesIn(t) \in Seq(Nat) /\ SamplesIn(st) \in Seq(Nat)
    BY <1>2, TalliesOf
  <2>2. /\ DOMAIN SamplesIn(s) = 1 .. Len(s) /\ DOMAIN SamplesIn(t) = 1 .. Len(t)
        /\ DOMAIN SamplesIn(st) = 1 .. Len(s) + Len(t)
        /\ \A i \in 1 .. Len(s) : SamplesIn(st)[i] = SamplesIn(s)[i]
        /\ \A i \in 1 .. Len(t) : SamplesIn(st)[Len(s) + i] = SamplesIn(t)[i]
    <3> HIDE DEF st
    <3>1. /\ \A i \in 1 .. Len(s) : i \in DOMAIN st
          /\ \A i \in 1 .. Len(t) : Len(s) + i \in DOMAIN st
      BY <1>1
    <3> QED
      BY <1>1, <3>1 DEF SamplesIn
  <2>3. Len(SamplesIn(s)) = Len(s) /\ Len(SamplesIn(t)) = Len(t)
    BY <1>1, <2>1, <2>2, LenProperties
  <2> DEFINE u == SamplesIn(s)
             v == SamplesIn(t)
             w == SamplesIn(st)
  <2>4. /\ u \in Seq(Nat) /\ v \in Seq(Nat) /\ w \in Seq(Nat)
        /\ DOMAIN w = 1 .. Len(u) + Len(v)
        /\ \A i \in 1 .. Len(u) : w[i] = u[i]
        /\ \A i \in 1 .. Len(v) : w[Len(u) + i] = v[i]
    BY <2>1, <2>2, <2>3
  <2> HIDE DEF st, u, v, w
  <2>5. w = u \o v
    BY <2>4, IsConcat
  <2> QED
    BY <2>5 DEF u, v, w
<1>4. PeriodsIn(st) = PeriodsIn(s) \o PeriodsIn(t)
  <2>1. PeriodsIn(s) \in Seq(Nat) /\ PeriodsIn(t) \in Seq(Nat) /\ PeriodsIn(st) \in Seq(Nat)
    BY <1>2, TalliesOf
  <2>2. /\ DOMAIN PeriodsIn(s) = 1 .. Len(s) /\ DOMAIN PeriodsIn(t) = 1 .. Len(t)
        /\ DOMAIN PeriodsIn(st) = 1 .. Len(s) + Len(t)
        /\ \A i \in 1 .. Len(s) : PeriodsIn(st)[i] = PeriodsIn(s)[i]
        /\ \A i \in 1 .. Len(t) : PeriodsIn(st)[Len(s) + i] = PeriodsIn(t)[i]
    <3> HIDE DEF st
    <3>1. /\ \A i \in 1 .. Len(s) : i \in DOMAIN st
          /\ \A i \in 1 .. Len(t) : Len(s) + i \in DOMAIN st
      BY <1>1
    <3> QED
      BY <1>1, <3>1 DEF PeriodsIn
  <2>3. Len(PeriodsIn(s)) = Len(s) /\ Len(PeriodsIn(t)) = Len(t)
    BY <1>1, <2>1, <2>2, LenProperties
  <2> DEFINE u == PeriodsIn(s)
             v == PeriodsIn(t)
             w == PeriodsIn(st)
  <2>4. /\ u \in Seq(Nat) /\ v \in Seq(Nat) /\ w \in Seq(Nat)
        /\ DOMAIN w = 1 .. Len(u) + Len(v)
        /\ \A i \in 1 .. Len(u) : w[i] = u[i]
        /\ \A i \in 1 .. Len(v) : w[Len(u) + i] = v[i]
    BY <2>1, <2>2, <2>3
  <2> HIDE DEF st, u, v, w
  <2>5. w = u \o v
    BY <2>4, IsConcat
  <2> QED
    BY <2>5 DEF u, v, w
<1>5. /\ SumFunction(SamplesIn(st)) = SumFunction(SamplesIn(s)) + SumFunction(SamplesIn(t))
      /\ SumFunction(PeriodsIn(st)) = SumFunction(PeriodsIn(s)) + SumFunction(PeriodsIn(t))
  BY <1>3, <1>4, TalliesOf, SumConcat
<1> QED
  BY <1>5, TotalIs DEF Plus

\* Equal sums with a summand in common.
LEMMA SumsCancel ==
  ASSUME NEW t \in Tally, NEW u \in Tally, NEW x, IsTally(x), NEW y,
         Plus(t, x) = Plus(u, y), y.samples = x.samples, y.period = x.period
  PROVE  t = u
<1>1. t.samples + x.samples = u.samples + x.samples /\ t.period + x.period = u.period + x.period
  BY DEF Plus
<1>2. t.samples = u.samples /\ t.period = u.period
  BY <1>1 DEF Tally, IsTally
<1> QED
  BY <1>2 DEF Tally

\* A tally is its two numbers.
LEMMA AddIs ==
  ASSUME NEW t \in Tally, NEW period \in Nat
  PROVE  Add(t, period) = [samples |-> t.samples + 1, period |-> t.period + period]
<1> DEFINE u == Add(t, period)
<1>1. t.samples + 1 \in Nat /\ t.period + period \in Nat
  BY DEF Tally
<1>2. u.samples = t.samples + 1 /\ u.period = t.period + period
  BY DEF Add, Tally
<1>3. u \in Tally
  BY <1>1 DEF Add, Tally
<1> HIDE DEF u
<1>4. u = [samples |-> u.samples, period |-> u.period]
  BY <1>3 DEF Tally
<1> QED
  BY <1>2, <1>4 DEF u

\* A total in which one tally has a sample more.
LEMMA OneSampleMore ==
  ASSUME NEW t \in Tally, NEW u \in Tally, NEW x, IsTally(x), NEW y, NEW period \in Nat,
         Plus(u, x) = Plus(t, y), y.samples = x.samples + 1, y.period = x.period + period
  PROVE  u = Add(t, period)
<1>1. /\ u.samples + x.samples = t.samples + (x.samples + 1)
      /\ u.period + x.period = t.period + (x.period + period)
  BY DEF Plus
<1>2. u.samples = t.samples + 1 /\ u.period = t.period + period
  BY <1>1 DEF Tally, IsTally
<1>3. u = [samples |-> u.samples, period |-> u.period]
  BY DEF Tally
<1> QED
  BY <1>2, <1>3, AddIs

\* A sum with a sample more in one of the summands.
LEMMA PlusAdds ==
  ASSUME NEW t \in Tally, NEW u \in Tally, NEW period \in Nat
  PROVE  /\ Plus(t, u) \in Tally
         /\ Plus(t, Add(u, period)) = Add(Plus(t, u), period)
         /\ Plus(Add(t, period), u) = Add(Plus(t, u), period)
<1> DEFINE v == Plus(t, u)
           w == Add(u, period)
           x == Add(t, period)
<1>1. v \in Tally /\ v.samples = t.samples + u.samples /\ v.period = t.period + u.period
  BY DEF Plus, Tally
<1>2. /\ w.samples = u.samples + 1 /\ w.period = u.period + period
      /\ x.samples = t.samples + 1 /\ x.period = t.period + period
  BY AddIs
<1>3. Add(v, period) = [samples |-> v.samples + 1, period |-> v.period + period]
  <2> HIDE DEF v
  <2> QED
    BY <1>1, AddIs
<1>4. /\ Plus(t, w) = [samples |-> t.samples + w.samples, period |-> t.period + w.period]
      /\ Plus(x, u) = [samples |-> x.samples + u.samples, period |-> x.period + u.period]
  BY DEF Plus
<1> HIDE DEF v, w, x
<1>5. /\ t.samples + w.samples = v.samples + 1 /\ t.period + w.period = v.period + period
      /\ x.samples + u.samples = v.samples + 1 /\ x.period + u.period = v.period + period
  BY <1>1, <1>2 DEF Tally
<1>6. Plus(t, w) = Add(v, period) /\ Plus(x, u) = Add(v, period)
  BY <1>3, <1>4, <1>5
<1> QED
  BY <1>1, <1>6 DEF v, w, x

-----------------------------------------------------------------------------
(* The totals of the tree.                                                 *)

LEMMA TreeTallies ==
  ASSUME TreeOK, IsFiniteSet(DOMAIN recTree)
  PROVE  Tallies(recTree)
<1>1. \A p \in DOMAIN recTree : recTree[p] \in Process
  BY DEF TreeOK
<1> QED
  BY <1>1 DEF Tallies, IsTally, Process

(***************************************************************************)
(* A process that is set up or changed without a sample adds nothing.      *)
(***************************************************************************)
LEMMA InsertTotal ==
  ASSUME NEW tree, Tallies(tree), NEW pid, NEW proc, IsTally(proc),
         pid \in DOMAIN tree => /\ proc.samples = tree[pid].samples
                                /\ proc.period = tree[pid].period,
         pid \notin DOMAIN tree => proc.samples = 0 /\ proc.period = 0
  PROVE  Total(Insert(tree, pid, proc)) = Total(tree)
<1> DEFINE next == Insert(tree, pid, proc)
<1>1. /\ DOMAIN next = DOMAIN tree \cup {pid} /\ next[pid] = proc
      /\ \A p \in DOMAIN tree : p # pid => next[p] = tree[p]
  BY DEF Insert
<1> HIDE DEF next
<1>2. Total(tree) \in Tally
  BY TotalType
<1>3. CASE pid \in DOMAIN tree
  <2>1. DOMAIN next = DOMAIN tree
    BY <1>1, <1>3
  <2>2. Tallies(next) /\ Plus(Total(next), tree[pid]) = Plus(Total(tree), proc)
    BY <1>1, <1>3, <2>1, TotalChanges
  <2>3. Total(next) \in Tally
    BY <2>2, TotalType
  <2>4. IsTally(tree[pid])
    BY <1>3 DEF Tallies
  <2>5. Total(next) = Total(tree)
    BY <1>2, <1>3, <2>2, <2>3, <2>4, SumsCancel
  <2> QED
    BY <2>5 DEF next
<1>4. CASE pid \notin DOMAIN tree
  <2>1. Total(next) = Plus(Total(tree), proc)
    BY <1>1, <1>4, TotalGrows
  <2>2. Total(next) = Total(tree)
    BY <1>2, <1>4, <2>1 DEF Plus, Tally
  <2> QED
    BY <2>2 DEF next
<1> QED
  BY <1>3, <1>4

(***************************************************************************)
(* A sample adds itself to the process it is counted for and to no other.  *)
(***************************************************************************)
LEMMA CreditTotal ==
  ASSUME TreeOK, IsFiniteSet(DOMAIN recTree), NEW pid, Live(pid), NEW period \in Nat
  PROVE  Total(Insert(recTree, pid, Add(recTree[pid], period))) = Add(Total(recTree), period)
<1> DEFINE proc == Add(recTree[pid], period)
           next == Insert(recTree, pid, proc)
<1>1. /\ DOMAIN next = DOMAIN recTree /\ next[pid] = proc
      /\ \A p \in DOMAIN recTree : p # pid => next[p] = recTree[p]
  BY DEF Insert, Live
<1>2. Tallies(recTree) /\ pid \in DOMAIN recTree /\ recTree[pid] \in Process
  BY TreeTallies DEF Live, TreeOK
<1>3. /\ proc.samples = recTree[pid].samples + 1
      /\ proc.period = recTree[pid].period + period
      /\ recTree[pid].samples \in Nat /\ recTree[pid].period \in Nat
  BY <1>2 DEF Add, Process
<1> HIDE DEF proc, next
<1>4. IsTally(proc)
  BY <1>3 DEF IsTally
<1>5. Tallies(next) /\ Plus(Total(next), recTree[pid]) = Plus(Total(recTree), proc)
  BY <1>1, <1>2, <1>4, TotalChanges
<1>6. Total(next) \in Tally /\ Total(recTree) \in Tally
  BY <1>2, <1>5, TotalType
<1>7. IsTally(recTree[pid])
  BY <1>3 DEF IsTally
<1>8. Total(next) = Add(Total(recTree), period)
  BY <1>3, <1>5, <1>6, <1>7, OneSampleMore
<1> QED
  BY <1>8 DEF next, proc

\* A process that leaves takes its tally with it.
LEMMA RemoveTotal ==
  ASSUME NEW tree, Tallies(tree), NEW pid \in DOMAIN tree
  PROVE  Total(tree) = Plus(Total(Remove(tree, pid)), tree[pid])
<1> DEFINE rest == Remove(tree, pid)
<1>1. /\ DOMAIN rest = DOMAIN tree \ {pid} /\ pid \notin DOMAIN rest
      /\ DOMAIN tree = DOMAIN rest \cup {pid}
      /\ \A p \in DOMAIN rest : tree[p] = rest[p]
  BY DEF Remove
<1> HIDE DEF rest
<1>2. Tallies(rest) /\ IsTally(tree[pid])
  BY <1>1, FS_Subset DEF Tallies
<1>3. Total(tree) = Plus(Total(rest), tree[pid])
  BY <1>1, <1>2, TotalGrows
<1> QED
  BY <1>3 DEF rest

LEMMA RowTallies == \A row \in Row : IsTally(row)
BY DEF Row, IsTally

LEMMA AppendTotal ==
  ASSUME NEW rows \in Seq(Row), NEW row \in Row
  PROVE  Total(Append(rows, row)) = Plus(Total(rows), row)
<1> DEFINE more == Append(rows, row)
           x == Len(rows) + 1
<1>1. /\ Len(rows) \in Nat /\ DOMAIN rows = 1 .. Len(rows)
      /\ DOMAIN more = 1 .. Len(rows) + 1
      /\ \A i \in 1 .. Len(rows) : more[i] = rows[i]
      /\ more[x] = row
  OBVIOUS
<1>2. DOMAIN more = DOMAIN rows \cup {x} /\ x \notin DOMAIN rows
  BY <1>1
<1> HIDE DEF more, x
<1>3. Tallies(rows) /\ IsTally(row)
  BY RowTallies, TalliesOf
<1>4. Total(more) = Plus(Total(rows), row)
  BY <1>1, <1>2, <1>3, TotalGrows
<1> QED
  BY <1>4 DEF more

-----------------------------------------------------------------------------
(* What a record does to the totals of the processes.                      *)

LEMMA RunningTotals ==
  ASSUME LifeInv
  PROVE  /\ Tallies(recTree) /\ Tallies(processes_csv)
         /\ Total(recTree) \in Tally /\ Total(processes_csv) \in Tally
         /\ ProcessTotals \in Tally
<1>1. Tallies(recTree) /\ Tallies(processes_csv)
  BY TreeTallies, RowTallies, TalliesOf DEF LifeInv
<1>2. Total(recTree) \in Tally /\ Total(processes_csv) \in Tally
  BY <1>1, TotalType
<1>3. Plus(Total(processes_csv), Total(recTree)) \in Tally
  BY <1>2 DEF Plus, Tally
<1> QED
  BY <1>1, <1>2, <1>3 DEF ProcessTotals

\* A process is set up or changed, and nothing is counted.
LEMMA UpdateTotals ==
  ASSUME LifeInv, ~done, ~done', NEW pid, NEW proc,
         recTree' = Insert(recTree, pid, proc), UNCHANGED processes_csv,
         proc.samples = Process_of(pid).samples, proc.period = Process_of(pid).period
  PROVE  ProcessTotals' = ProcessTotals
<1>1. Tallies(recTree)
  BY RunningTotals
<1>2. /\ IsTally(proc)
      /\ pid \in DOMAIN recTree => /\ proc.samples = recTree[pid].samples
                                   /\ proc.period = recTree[pid].period
      /\ pid \notin DOMAIN recTree => proc.samples = 0 /\ proc.period = 0
  BY <1>1 DEF Process_of, Live, new_process, IsTally, Tallies
<1>3. Total(recTree') = Total(recTree)
  BY <1>1, <1>2, InsertTotal
<1> QED
  BY <1>3 DEF ProcessTotals

\* A sample is counted.
LEMMA CountTotals ==
  ASSUME LifeInv, ~done, ~done', NEW pid, NEW period \in Periods,
         Live(Owner(pid)), Count(pid, period), UNCHANGED processes_csv
  PROVE  ProcessTotals' = Add(ProcessTotals, period)
<1>1. period \in Nat
  BY FuncStatHypothesis DEF FSP!FuncStatAssumption
<1>2. recTree' = Insert(recTree, Owner(pid), Add(recTree[Owner(pid)], period))
  BY DEF Count
<1>3. Total(recTree') = Add(Total(recTree), period)
  BY <1>1, <1>2, CreditTotal DEF LifeInv
<1>4. /\ Total(recTree) \in Tally /\ Total(processes_csv) \in Tally
      /\ ProcessTotals = Plus(Total(processes_csv), Total(recTree))
      /\ ProcessTotals' = Plus(Total(processes_csv), Total(recTree'))
  BY RunningTotals DEF ProcessTotals
<1> QED
  BY <1>1, <1>3, <1>4, PlusAdds

(***************************************************************************)
(* A process that exits takes its samples from the tree into its row.      *)
(***************************************************************************)
LEMMA ExitTotals ==
  ASSUME LifeInv, NEW pid \in Pids, NEW tid, NEW time \in Times, ExitProcess(pid, tid, time)
  PROVE  ProcessTotals' = ProcessTotals
<1> DEFINE row == row_of(pid, recTree[pid], time)
<1>1. ~done /\ ~done' /\ pid \in DOMAIN recTree /\ recTree[pid] \in Process
  BY DEF ExitProcess, HandleOther, Handle, Live, LifeInv, TreeOK
<1>2. row \in Row
  BY <1>1, RowType
<1>3. row.samples = recTree[pid].samples /\ row.period = recTree[pid].period
  BY DEF row_of
<1>4. recTree' = Remove(recTree, pid) /\ processes_csv' = Append(processes_csv, row)
  BY DEF ExitProcess
<1> HIDE DEF row
<1>5. Total(processes_csv') = Plus(Total(processes_csv), row)
  BY <1>2, <1>4, AppendTotal DEF LifeInv
<1>6. Total(recTree) = Plus(Total(recTree'), recTree[pid])
  BY <1>1, <1>4, RemoveTotal, RunningTotals
<1>7. Tallies(recTree')
  BY <1>1, <1>4, FS_Subset, RunningTotals DEF Remove, Tallies
<1>8. /\ Total(recTree') \in Tally /\ Total(processes_csv) \in Tally
      /\ row.samples \in Nat /\ row.period \in Nat
  BY <1>2, <1>7, TotalType, RunningTotals, RowTallies DEF IsTally
<1>9. Plus(Total(processes_csv'), Total(recTree')) = Plus(Total(processes_csv), Total(recTree))
  BY <1>3, <1>5, <1>6, <1>8 DEF Plus, Tally
<1> QED
  BY <1>1, <1>9 DEF ProcessTotals

LEMMA OtherTotals ==
  ASSUME LifeInv, NEW pid \in Pids, NEW tid \in Tids, NEW time \in Times,
         \/ decodeMmap(pid, time)
         \/ decodeComm(pid, time)
         \/ decodeFork(pid, tid, time)
         \/ decodeExit(pid, tid, time)
  PROVE  ProcessTotals' = ProcessTotals
<1>1. ~done /\ ~done'
  BY RecordShape DEF handleRecord, Handle, LifeInv
<1>2. ASSUME UNCHANGED trees PROVE ProcessTotals' = ProcessTotals
  BY <1>1, <1>2 DEF trees, ProcessTotals
<1>3. ASSUME Defined(pid, time) PROVE Process_of(pid) \in Process
  BY <1>3, ProcessOfType DEF LifeInv
<1>4. CASE decodeMmap(pid, time)
  <2>1. CASE NotYetDefined(pid, time) \/ CreateWithoutMemory(pid, time) \/ MmapSecondVdso(pid, time)
    BY <2>1, <1>2 DEF NotYetDefined, CreateWithoutMemory, MmapSecondVdso
  <2>2. ASSUME NEW r \in Regions, MmapRegion(pid, time, r)
        PROVE  ProcessTotals' = ProcessTotals
    <3> DEFINE old == Process_of(pid)
               proc == [old EXCEPT !.mmaps = <<region_of(r)>> \o @]
    <3>1. old \in Process /\ recTree' = Insert(recTree, pid, proc) /\ UNCHANGED processes_csv
      BY <2>2, <1>3 DEF MmapRegion, Update
    <3>2. proc.samples = old.samples /\ proc.period = old.period
      <4> HIDE DEF old
      <4> QED
        BY <3>1 DEF Process
    <3> HIDE DEF proc
    <3> QED
      BY <1>1, <3>1, <3>2, UpdateTotals
  <2>3. CASE MmapWithoutMemory(pid, time)
    <3> DEFINE old == Process_of(pid)
               proc == [old EXCEPT !.mmaps = << >>]
    <3>1. old \in Process /\ recTree' = Insert(recTree, pid, proc) /\ UNCHANGED processes_csv
      BY <2>3, <1>3 DEF MmapWithoutMemory
    <3>2. proc.samples = old.samples /\ proc.period = old.period
      <4> HIDE DEF old
      <4> QED
        BY <3>1 DEF Process
    <3> HIDE DEF proc
    <3> QED
      BY <1>1, <3>1, <3>2, UpdateTotals
  <2>4. ASSUME NEW pgoff \in Vdsos, MmapVdso(pid, time, pgoff)
        PROVE  ProcessTotals' = ProcessTotals
    <3> DEFINE old == Process_of(pid)
               proc == [old EXCEPT !.vdso = pgoff]
    <3>1. old \in Process /\ recTree' = Insert(recTree, pid, proc) /\ UNCHANGED processes_csv
      BY <2>4, <1>3 DEF MmapVdso, Update
    <3>2. proc.samples = old.samples /\ proc.period = old.period
      <4> HIDE DEF old
      <4> QED
        BY <3>1 DEF Process
    <3> HIDE DEF proc
    <3> QED
      BY <1>1, <3>1, <3>2, UpdateTotals
  <2> QED
    BY <1>4, <2>1, <2>2, <2>3, <2>4 DEF decodeMmap
<1>5. CASE decodeComm(pid, time)
  <2>1. CASE NotYetDefined(pid, time) \/ CreateWithoutMemory(pid, time)
    BY <2>1, <1>2 DEF NotYetDefined, CreateWithoutMemory
  <2>2. ASSUME NEW comm \in Comms, CommName(pid, time, comm)
        PROVE  ProcessTotals' = ProcessTotals
    <3> DEFINE old == Process_of(pid)
               proc == [old EXCEPT !.comm = comm]
    <3>1. old \in Process /\ recTree' = Insert(recTree, pid, proc) /\ UNCHANGED processes_csv
      BY <2>2, <1>3 DEF CommName, Update
    <3>2. proc.samples = old.samples /\ proc.period = old.period
      <4> HIDE DEF old
      <4> QED
        BY <3>1 DEF Process
    <3> HIDE DEF proc
    <3> QED
      BY <1>1, <3>1, <3>2, UpdateTotals
  <2> QED
    BY <1>5, <2>1, <2>2 DEF decodeComm
<1>6. CASE decodeFork(pid, tid, time)
  <2>1. ASSUME ForkProcess(pid, tid, time) \/ ForkThread(pid, tid, time)
        PROVE  ProcessTotals' = ProcessTotals
    <3> DEFINE old == Process_of(pid)
               proc == [old EXCEPT !.fork_time = time]
    <3>1. old \in Process
      BY <2>1, NewProcessType DEF ForkProcess, ForkThread, Process_of, Live, LifeInv, TreeOK
    <3>2. recTree' = Insert(recTree, pid, proc) /\ UNCHANGED processes_csv
      BY <2>1 DEF ForkProcess, ForkThread, Update, Process_of
    <3>3. proc.samples = old.samples /\ proc.period = old.period
      <4> HIDE DEF old
      <4> QED
        BY <3>1 DEF Process
    <3> HIDE DEF proc
    <3> QED
      BY <1>1, <3>2, <3>3, UpdateTotals
  <2>2. CASE \/ ForkOrphan(pid, tid, time) \/ ForkTwice(pid, tid, time)
             \/ CreateWithoutMemory(pid, time)
    BY <2>2, <1>2 DEF ForkOrphan, ForkTwice, CreateWithoutMemory
  <2> QED
    BY <1>6, <2>1, <2>2 DEF decodeFork
<1>7. CASE decodeExit(pid, tid, time)
  BY <1>2, <1>7, ExitTotals DEF decodeExit, ExitIgnored
<1> QED
  BY <1>4, <1>5, <1>6, <1>7

(***************************************************************************)
(* print_processes moves what is left in the tree to the rows.             *)
(***************************************************************************)
LEMMA PrintTotals ==
  ASSUME LifeInv, print_processes
  PROVE  ProcessTotals' = ProcessTotals
<1> DEFINE n == Cardinality(DOMAIN recTree)
<1>1. PICK order \in [1 .. n -> DOMAIN recTree] :
        /\ Ascending(order)
        /\ processes_csv' = processes_csv \o
             [i \in 1 .. n |-> row_of(order[i], recTree[order[i]], NoExit)]
  BY DEF print_processes
<1> DEFINE rows == [i \in 1 .. n |-> row_of(order[i], recTree[order[i]], NoExit)]
<1>2. /\ IsFiniteSet(DOMAIN recTree) /\ DOMAIN recTree \in SUBSET Nat /\ TreeOK
      /\ processes_csv \in Seq(Row) /\ ~done /\ done' = TRUE
  BY BuildStatAssumption DEF LifeInv, TreeOK, print_processes
<1>3. /\ order \in Injection(1 .. n, DOMAIN recTree)
      /\ order \in Surjection(1 .. n, DOMAIN recTree)
      /\ n \in Nat
  BY <1>1, <1>2, AscendingIsAll, FS_CardinalityType
<1>4. processes_csv' = processes_csv \o rows
  BY <1>1
<1>5. \A i \in 1 .. n : /\ rows[i].samples = recTree[order[i]].samples
                        /\ rows[i].period = recTree[order[i]].period
  BY DEF row_of
<1>6. rows \in Seq(Row) /\ DOMAIN rows = 1 .. n
  <2>1. \A i \in 1 .. n : order[i] \in Pids /\ recTree[order[i]] \in Process
    BY <1>1, <1>2 DEF TreeOK
  <2>2. \A i \in 1 .. n : rows[i] \in Row
    BY <2>1, RowType
  <2> QED
    BY <1>3, <2>2
<1> HIDE DEF n, rows
<1>7. Tallies(rows) /\ Total(processes_csv') = Plus(Total(processes_csv), Total(rows))
  BY <1>2, <1>4, <1>6, TotalConcat, TalliesOf, RowTallies
<1>8. \A i, j \in 1 .. n : order[i] = order[j] => i = j
  BY <1>3 DEF Injection, IsInjective
<1>9. DOMAIN recTree = {order[i] : i \in 1 .. n}
  BY <1>3 DEF Surjection
<1>10. Total(recTree) = Total(rows)
  <2>1. /\ DOMAIN recTree = {order[i] : i \in DOMAIN rows}
        /\ \A i \in DOMAIN rows : /\ recTree[order[i]].samples = rows[i].samples
                                  /\ recTree[order[i]].period = rows[i].period
        /\ \A i, j \in DOMAIN rows : order[i] = order[j] => i = j
    BY <1>5, <1>6, <1>8, <1>9, Zenon
  <2> QED
    BY <1>7, <2>1, TotalMoves
<1> QED
  BY <1>2, <1>7, <1>10 DEF ProcessTotals

\* What a sample does: it is counted for a process, or it is given up.
NotCounted(period) ==
  ProcessTotals' = ProcessTotals /\ GiveUp("no process", period) /\ UNCHANGED funcs

NotResolved(period) ==
  /\ ProcessTotals' = Add(ProcessTotals, period)
  /\ GiveUp("no range", period)
  /\ UNCHANGED funcs

Resolved(period) ==
  /\ ProcessTotals' = Add(ProcessTotals, period)
  /\ UNCHANGED failed
  /\ \E addr \in Addrs, bin \in BinNames :
       \/ /\ \/ FS!CountCached(addr, bin, period)
             \/ FS!CountKnown(addr, bin, period)
             \/ FS!CountNew(addr, bin, period)
             \/ FS!CountError(addr, bin, period)
          /\ UNCHANGED dropped
       \/ FS!CountNoMemory(addr, bin, period) /\ dropped' = dropped \o head

LEMMA SampleTotals ==
  ASSUME LifeInv, NEW pid \in Pids, NEW time \in Times, NEW ip \in Ips,
         NEW period \in Periods, decodeSample(pid, time, ip, period)
  PROVE  /\ HandleSample(time, period)
         /\ NotCounted(period) \/ NotResolved(period) \/ Resolved(period)
<1>1. ~done /\ ~done'
  BY SampleShape DEF Handle, LifeInv
<1>2. CASE SampleWithoutProcess(pid, time, ip, period)
  <2>1. ProcessTotals' = ProcessTotals
    BY <1>1, <1>2 DEF SampleWithoutProcess, trees, ProcessTotals
  <2> QED
    BY <1>2, <2>1 DEF SampleWithoutProcess, NotCounted
<1>3. CASE SampleWithoutCommon(pid, time, ip, period)
  <2>1. Live(Owner(pid)) /\ Count(pid, period) /\ UNCHANGED processes_csv
    BY <1>3 DEF SampleWithoutCommon, Owner
  <2>2. ProcessTotals' = Add(ProcessTotals, period)
    BY <1>1, <2>1, CountTotals
  <2> QED
    BY <1>3, <2>2 DEF SampleWithoutCommon, NotResolved
<1>4. CASE SampleWithoutRange(pid, time, ip, period)
  <2>1. Live(Owner(pid)) /\ Count(pid, period) /\ UNCHANGED processes_csv
    BY <1>4 DEF SampleWithoutRange
  <2>2. ProcessTotals' = Add(ProcessTotals, period)
    BY <1>1, <2>1, CountTotals
  <2> QED
    BY <1>4, <2>2 DEF SampleWithoutRange, NotResolved
<1>5. CASE SampleResolved(pid, time, ip, period)
  <2>1. Live(Owner(pid)) /\ Count(pid, period) /\ UNCHANGED processes_csv
    BY <1>5 DEF SampleResolved
  <2>2. ProcessTotals' = Add(ProcessTotals, period)
    BY <1>1, <2>1, CountTotals
  <2> DEFINE proc == recTree[Holder(pid, ip)]
             region == proc.mmaps[FS!First(find_mmap(proc, ip))]
             addr == address(proc, region, ip)
             bin == region.filename
  <2>3. addr \in Addrs /\ bin \in BinNames
    BY <1>5, ResolvedAddress DEF SampleResolved, LifeInv
  <2>4. \/ /\ \/ FS!CountCached(addr, bin, period)
              \/ FS!CountKnown(addr, bin, period)
              \/ FS!CountNew(addr, bin, period)
              \/ FS!CountError(addr, bin, period)
           /\ UNCHANGED dropped
        \/ FS!CountNoMemory(addr, bin, period) /\ dropped' = dropped \o head
    BY <1>5, Zenon DEF SampleResolved
  <2>5. HandleSample(time, period) /\ UNCHANGED failed
    BY <1>5 DEF SampleResolved
  <2> HIDE DEF addr, bin
  <2>6. Resolved(period)
    BY <2>2, <2>3, <2>4, <2>5 DEF Resolved
  <2> QED
    BY <2>5, <2>6
<1> QED
  BY <1>2, <1>3, <1>4, <1>5 DEF decodeSample

-----------------------------------------------------------------------------
(* Every sample is in one process.                                         *)

\* In numbers.
LEMMA AccountIs ==
  ProcessesAccount <=>
    /\ overview_csv.samples = ProcessTotals.samples + failed["no process"].samples
    /\ overview_csv.period = ProcessTotals.period + failed["no process"].period
BY DEF ProcessesAccount, Plus

LEMMA AccountInit == Init => ProcessesAccount
<1> SUFFICES ASSUME Init PROVE ProcessesAccount
  OBVIOUS
<1>1. /\ overview_csv = [lines |-> 0, samples |-> 0, period |-> 0]
      /\ failed = [r \in Reasons |-> Zero]
      /\ DOMAIN recTree = {} /\ DOMAIN processes_csv = {} /\ ~done
  BY DEF Init
<1>2. overview_csv.samples = 0 /\ overview_csv.period = 0
  BY <1>1
<1>3. Total(recTree) = Zero /\ Total(processes_csv) = Zero
  BY <1>1, TotalOfNothing
<1>4. ProcessTotals = Plus(Zero, Zero)
  BY <1>1, <1>3 DEF ProcessTotals
<1> DEFINE lost == failed["no process"]
           total == ProcessTotals
<1>5. lost = Zero
  BY <1>1 DEF Reasons
<1>6. total.samples = 0 /\ total.period = 0
  BY <1>4 DEF Plus, Zero
<1> HIDE DEF lost, total
<1>7. lost.samples = 0 /\ lost.period = 0
  BY <1>5 DEF Zero
<1>8. /\ overview_csv.samples = total.samples + lost.samples
      /\ overview_csv.period = total.period + lost.period
  BY <1>2, <1>6, <1>7
<1> QED
  BY <1>8, AccountIs DEF lost, total

\* In numbers, a sample that is counted.
LEMMA CountedIs ==
  ASSUME NEW t \in Tally, NEW period \in Periods, NEW u, u = Add(t, period)
  PROVE  /\ u \in Tally
         /\ u.samples = t.samples + 1 /\ u.period = t.period + period
         /\ period \in Nat
<1>1. period \in Nat
  BY FuncStatHypothesis DEF FSP!FuncStatAssumption
<1> QED
  BY <1>1, AddIs, CreditTally

LEMMA AccountSample ==
  ASSUME LifeInv, ReportsOK, ProcessesAccount, NEW time, NEW period \in Periods,
         HandleSample(time, period),
         NotCounted(period) \/ NotResolved(period) \/ Resolved(period)
  PROVE  ProcessesAccount'
<1> DEFINE lost == failed["no process"]
           total == ProcessTotals
<1>1. total \in Tally /\ lost \in Tally
  BY RunningTotals DEF ReportsOK, Reasons
<1>2. /\ overview_csv'.samples = overview_csv.samples + 1
      /\ overview_csv'.period = overview_csv.period + period
  BY DEF HandleSample, Add, ReportsOK
<1>3. /\ overview_csv.samples = total.samples + lost.samples
      /\ overview_csv.period = total.period + lost.period
  BY AccountIs
<1>4. \/ total' = total /\ lost' = Add(lost, period)
      \/ total' = Add(total, period) /\ lost' = lost
  BY DEF NotCounted, NotResolved, Resolved, GiveUp, ReportsOK, Reasons
<1>5. /\ overview_csv'.samples = total'.samples + lost'.samples
      /\ overview_csv'.period = total'.period + lost'.period
  <2> HIDE DEF lost, total
  <2>1. CASE total' = total /\ lost' = Add(lost, period)
    <3>1. /\ lost'.samples = lost.samples + 1 /\ lost'.period = lost.period + period
          /\ period \in Nat
      BY <1>1, <2>1, CountedIs
    <3> QED
      BY <1>1, <1>2, <1>3, <2>1, <3>1 DEF Tally
  <2>2. CASE total' = Add(total, period) /\ lost' = lost
    <3>1. /\ total'.samples = total.samples + 1 /\ total'.period = total.period + period
          /\ period \in Nat
      BY <1>1, <2>2, CountedIs
    <3> QED
      BY <1>1, <1>2, <1>3, <2>2, <3>1 DEF Tally
  <2> QED
    BY <1>4, <2>1, <2>2
<1> QED
  BY <1>5 DEF ProcessesAccount, Plus

LEMMA AccountNext ==
  ASSUME LifeInv, ReportsOK, ProcessesAccount, [Next]_vars
  PROVE  ProcessesAccount'
<1>1. ASSUME NEW pid \in Pids, NEW tid \in Tids, NEW time \in Times,
             handleRecord(pid, tid, time)
      PROVE  ProcessesAccount'
  <2>1. ASSUME NEW ip \in Ips, NEW period \in Periods, decodeSample(pid, time, ip, period)
        PROVE  ProcessesAccount'
    BY <2>1, SampleTotals, AccountSample
  <2>2. ASSUME \/ decodeMmap(pid, time) \/ decodeComm(pid, time)
               \/ decodeFork(pid, tid, time) \/ decodeExit(pid, tid, time)
        PROVE  ProcessesAccount'
    <3>1. ProcessTotals' = ProcessTotals
      BY <2>2, OtherTotals
    <3>2. HandleOther(time)
      BY <2>2, OtherIsHandled
    <3>3. /\ failed' = failed
          /\ overview_csv'.samples = overview_csv.samples
          /\ overview_csv'.period = overview_csv.period
      BY <3>2 DEF HandleOther, ReportsOK
    <3> QED
      BY <3>1, <3>3 DEF ProcessesAccount
  <2> QED
    BY <1>1, <2>1, <2>2 DEF handleRecord
<1>2. CASE print_processes
  <2>1. ProcessTotals' = ProcessTotals
    BY <1>2, PrintTotals
  <2> QED
    BY <1>2, <2>1 DEF print_processes, ProcessesAccount
<1>3. CASE UNCHANGED vars
  BY <1>3 DEF vars, ProcessesAccount, ProcessTotals
<1> QED
  BY <1>1, <1>2, <1>3 DEF Next

\* The types and the samples of the processes, in every run.
LEMMA AccountHolds ==
  Spec => [](TypeInv /\ ProcessesAccount /\ head \in Seq(FS!Entry) /\ error \in Tally)
<1> DEFINE listed == head \in Seq(FS!Entry) /\ error \in Tally
           I == TypeInv /\ ProcessesAccount
<1>1. Spec => []listed
  BY FunctionTypes
<1>2. Init => I
  BY TypeInit, AccountInit
<1>3. I /\ listed /\ [Next]_vars => I'
  BY TypeNext, AccountNext DEF TypeInv, BookInv
<1> QED
  BY <1>1, <1>2, <1>3, PTL DEF Spec

(***************************************************************************)
(* Every SAMPLE line of overview.csv is in one process, alive or in        *)
(* processes.csv, with its full period, or none was found for it: for any  *)
(* stream of records and any number of processes.                          *)
(***************************************************************************)
THEOREM EverySampleInOneProcess == Spec => []ProcessesAccount
BY AccountHolds, PTL

-----------------------------------------------------------------------------
(* Every sample of a process is in one function.                           *)

LEMMA EntryTallies == \A e \in FS!Entry : IsTally(e)
BY DEF FS!Entry, IsTally

\* An entry is credited.
LEMMA HeadChanges ==
  ASSUME head \in Seq(FS!Entry), NEW i \in DOMAIN head, NEW e, NEW period \in Nat,
         head' = [head EXCEPT ![i] = e],
         e.samples = head[i].samples + 1, e.period = head[i].period + period
  PROVE  Total(head') = Add(Total(head), period)
<1> DEFINE old == head[i]
<1>1. /\ DOMAIN head' = DOMAIN head /\ head'[i] = e
      /\ \A j \in DOMAIN head : j # i => head'[j] = head[j]
  OBVIOUS
<1>2. Tallies(head) /\ IsTally(old)
  BY EntryTallies, TalliesOf DEF Tallies
<1>3. IsTally(e)
  BY <1>2 DEF IsTally
<1>4. Tallies(head') /\ Plus(Total(head'), old) = Plus(Total(head), e)
  BY <1>1, <1>2, <1>3, TotalChanges
<1>5. Total(head') \in Tally /\ Total(head) \in Tally
  BY <1>2, <1>4, TotalType
<1>6. e.samples = old.samples + 1 /\ e.period = old.period + period
  OBVIOUS
<1> HIDE DEF old
<1> QED
  BY <1>2, <1>4, <1>5, <1>6, OneSampleMore

\* A new entry with one sample.
LEMMA HeadGrows ==
  ASSUME head \in Seq(FS!Entry), NEW e, NEW period \in Nat,
         head' = <<e>> \o head, e.samples = 1, e.period = period
  PROVE  Total(head') = Add(Total(head), period)
<1> DEFINE one == <<e>>
           none == << >>
           S == FS!Entry \cup {e}
<1>1. IsTally(e)
  BY DEF IsTally
<1>2. Tallies(none) /\ Total(none) = Zero
  <2>1. DOMAIN none = {}
    OBVIOUS
  <2> HIDE DEF none
  <2> QED
    BY <2>1, TotalOfNothing, FS_EmptySet DEF Tallies
<1>3. Total(one) = Plus(Zero, e)
  <2>1. DOMAIN one = DOMAIN none \cup {1} /\ 1 \notin DOMAIN none /\ one[1] = e
    OBVIOUS
  <2>2. \A i \in DOMAIN none : one[i] = none[i]
    OBVIOUS
  <2> HIDE DEF one, none
  <2> QED
    BY <1>1, <1>2, <2>1, <2>2, TotalGrows
<1>4. one \in Seq(S) /\ head \in Seq(S) /\ \A t \in S : IsTally(t)
  BY <1>1, EntryTallies
<1> HIDE DEF one, S
<1>5. Total(head') = Plus(Total(one), Total(head))
  BY <1>4, TotalConcat DEF one
<1>6. Total(head) \in Tally
  BY EntryTallies, TalliesOf, TotalType
<1>7. Total(one).samples = 1 /\ Total(one).period = period
  BY <1>3 DEF Plus, Zero
<1>8. Total(head') = [samples |-> 1 + Total(head).samples, period |-> period + Total(head).period]
  BY <1>5, <1>7 DEF Plus
<1>9. /\ 1 + Total(head).samples = Total(head).samples + 1
      /\ period + Total(head).period = Total(head).period + period
  BY <1>6 DEF Tally
<1> QED
  BY <1>6, <1>8, <1>9, AddIs

\* The samples in the list, in the error entry and in the lists lost.
Accounted == Plus(FunctionTotals, Total(dropped))

LEMMA AccountedType ==
  ASSUME head \in Seq(FS!Entry), dropped \in Seq(FS!Entry), error \in Tally
  PROVE  /\ Total(head) \in Tally /\ Total(dropped) \in Tally
         /\ FunctionTotals \in Tally /\ Accounted \in Tally
<1>1. Total(head) \in Tally /\ Total(dropped) \in Tally
  BY EntryTallies, TalliesOf, TotalType
<1>2. 0 \in Nat
  OBVIOUS
<1>3. FunctionTotals \in Tally
  BY <1>1, <1>2, PlusAdds DEF FunctionTotals
<1> QED
  BY <1>1, <1>2, <1>3, PlusAdds DEF Accounted

LEMMA CreditIs ==
  ASSUME NEW e, e \in FS!Entry \/ e \in Tally, NEW addr, NEW period
  PROVE  /\ FS!credit(e, period).samples = e.samples + 1
         /\ FS!credit(e, period).period = e.period + period
         /\ e \in FS!Entry =>
              /\ FS!credit(FS!remember(e, addr), period).samples = e.samples + 1
              /\ FS!credit(FS!remember(e, addr), period).period = e.period + period
BY DEF FS!credit, FS!remember, FS!Entry, Tally

(***************************************************************************)
(* A sample that is resolved is counted once in the functions, whichever   *)
(* way the entry is found, and whether the list survives or not.           *)
(***************************************************************************)
LEMMA ResolvedTotals ==
  ASSUME head \in Seq(FS!Entry), dropped \in Seq(FS!Entry), error \in Tally,
         NEW period \in Periods, Resolved(period)
  PROVE  Accounted' = Add(Accounted, period)
<1>1. period \in Nat
  BY FuncStatHypothesis DEF FSP!FuncStatAssumption
<1>2. PICK addr \in Addrs, bin \in BinNames :
        \/ /\ \/ FS!CountCached(addr, bin, period)
              \/ FS!CountKnown(addr, bin, period)
              \/ FS!CountNew(addr, bin, period)
              \/ FS!CountError(addr, bin, period)
           /\ UNCHANGED dropped
        \/ FS!CountNoMemory(addr, bin, period) /\ dropped' = dropped \o head
  BY DEF Resolved
<1>3. /\ Total(head) \in Tally /\ Total(dropped) \in Tally /\ FunctionTotals \in Tally
      /\ DOMAIN head \subseteq Nat
  BY AccountedType
<1>h. ASSUME Total(head') = Add(Total(head), period), UNCHANGED <<error, dropped>>
      PROVE  Accounted' = Add(Accounted, period)
  BY <1>1, <1>3, <1>h, PlusAdds DEF Accounted, FunctionTotals
<1>4. CASE FS!CountCached(addr, bin, period) /\ UNCHANGED dropped
  <2> DEFINE hits == FS!AddrHits(addr, bin)
             i == FS!First(hits)
             e == FS!credit(head[i], period)
  <2>1. hits \in SUBSET Nat /\ hits # {} /\ hits \subseteq DOMAIN head
    BY <1>3, <1>4 DEF FS!CountCached, FS!AddrHits, FS!find_entry_addr
  <2>2. i \in DOMAIN head
    <3> HIDE DEF hits
    <3> QED
      BY <2>1, FirstIsHit
  <2>3. head' = [head EXCEPT ![i] = e] /\ UNCHANGED error
    BY <1>4 DEF FS!CountCached, FS!AddrHits, FS!credit_cached
  <2> HIDE DEF i
  <2>4. head[i] \in FS!Entry
    BY <2>2, ElementOfSeq
  <2>5. e.samples = head[i].samples + 1 /\ e.period = head[i].period + period
    BY <2>4, CreditIs
  <2> HIDE DEF e
  <2>6. Total(head') = Add(Total(head), period)
    BY <1>1, <2>2, <2>3, <2>5, HeadChanges
  <2> QED
    BY <1>4, <1>h, <2>3, <2>6
<1>5. CASE FS!CountKnown(addr, bin, period) /\ UNCHANGED dropped
  <2> DEFINE hits == FS!NameHits(Addr2Line[<<addr, bin>>])
             i == FS!First(hits)
             e == FS!credit(FS!remember(head[i], addr), period)
  <2>1. hits \in SUBSET Nat /\ hits # {} /\ hits \subseteq DOMAIN head
    BY <1>3, <1>5 DEF FS!CountKnown, FS!NameHits, FS!find_entry_name
  <2>2. i \in DOMAIN head
    <3> HIDE DEF hits
    <3> QED
      BY <2>1, FirstIsHit
  <2>3. head' = [head EXCEPT ![i] = e] /\ UNCHANGED error
    BY <1>5 DEF FS!CountKnown, FS!NameHits, FS!credit_known
  <2> HIDE DEF i
  <2>4. head[i] \in FS!Entry
    BY <2>2, ElementOfSeq
  <2>5. e.samples = head[i].samples + 1 /\ e.period = head[i].period + period
    BY <2>4, CreditIs
  <2> HIDE DEF e
  <2>6. Total(head') = Add(Total(head), period)
    BY <1>1, <2>2, <2>3, <2>5, HeadChanges
  <2> QED
    BY <1>5, <1>h, <2>3, <2>6
<1>6. CASE FS!CountNew(addr, bin, period) /\ UNCHANGED dropped
  <2> DEFINE e == FS!credit(FS!new_entry(addr, bin, Addr2Line[<<addr, bin>>]), period)
  <2>1. head' = <<e>> \o head /\ UNCHANGED error
    BY <1>6 DEF FS!CountNew, FS!credit_new
  <2>2. e.samples = 1 /\ e.period = period
    BY <1>1 DEF FS!credit, FS!new_entry
  <2> HIDE DEF e
  <2>3. Total(head') = Add(Total(head), period)
    BY <1>1, <2>1, <2>2, HeadGrows
  <2> QED
    BY <1>6, <1>h, <2>1, <2>3
<1>e. ASSUME error' = FS!credit(error, period) PROVE error' = Add(error, period)
  BY <1>e DEF FS!credit, Add
<1>7. CASE FS!CountError(addr, bin, period) /\ UNCHANGED dropped
  <2>1. error' = Add(error, period) /\ UNCHANGED head
    BY <1>7, <1>e DEF FS!CountError
  <2> QED
    BY <1>1, <1>3, <1>7, <2>1, PlusAdds DEF Accounted, FunctionTotals
<1>8. CASE FS!CountNoMemory(addr, bin, period) /\ dropped' = dropped \o head
  <2>1. error' = Add(error, period) /\ head' = << >>
    BY <1>8, <1>e DEF FS!CountNoMemory
  <2>2. Total(dropped') = Plus(Total(dropped), Total(head))
    BY <1>8, EntryTallies, TotalConcat
  <2>3. Total(head') = Zero
    BY <2>1, TotalOfNothing
  <2> DEFINE h == Total(head)
             d == Total(dropped)
             x == Add(error, period)
  <2>4. x \in Tally /\ h \in Tally /\ d \in Tally
    BY <1>3, CreditTally
  <2> HIDE DEF h, d, x
  <2>5. Plus(Plus(Zero, x), Plus(d, h)) = Plus(Plus(h, x), d)
    BY <2>4 DEF Plus, Zero, Tally
  <2>6. Accounted' = Plus(Plus(Zero, x), Plus(d, h))
    BY <2>1, <2>2, <2>3 DEF Accounted, FunctionTotals, h, d, x
  <2>7. Plus(Plus(h, x), d) = Add(Accounted, period)
    BY <1>1, <1>3, PlusAdds DEF Accounted, FunctionTotals, h, d, x
  <2> QED
    BY <2>5, <2>6, <2>7
<1> QED
  BY <1>2, <1>4, <1>5, <1>6, <1>7, <1>8

LEMMA FunctionsAccountIs ==
  FunctionsAccount <=> ProcessTotals = Plus(Accounted, failed["no range"])
BY DEF FunctionsAccount, Accounted

LEMMA FunctionsInit == Init => FunctionsAccount
<1> SUFFICES ASSUME Init PROVE FunctionsAccount
  OBVIOUS
<1>1. /\ failed = [r \in Reasons |-> Zero] /\ error = Zero /\ head = << >> /\ dropped = << >>
      /\ DOMAIN recTree = {} /\ DOMAIN processes_csv = {} /\ ~done
  BY DEF Init, FS!Init, Zero
<1>2. /\ Total(recTree) = Zero /\ Total(processes_csv) = Zero
      /\ Total(head) = Zero /\ Total(dropped) = Zero
  BY <1>1, TotalOfNothing
<1>3. failed["no range"] = Zero
  BY <1>1 DEF Reasons
<1>4. ProcessTotals = Plus(Zero, Zero) /\ Accounted = Plus(Plus(Zero, Zero), Zero)
  BY <1>1, <1>2 DEF ProcessTotals, Accounted, FunctionTotals
<1>5. Plus(Zero, Zero) = Plus(Plus(Plus(Zero, Zero), Zero), Zero)
  BY DEF Plus, Zero
<1> QED
  BY <1>3, <1>4, <1>5, FunctionsAccountIs

LEMMA FunctionsSample ==
  ASSUME LifeInv, ReportsOK, FunctionsAccount, dropped \in Seq(FS!Entry),
         head \in Seq(FS!Entry), error \in Tally, NEW period \in Periods,
         NotCounted(period) \/ NotResolved(period) \/ Resolved(period)
  PROVE  FunctionsAccount'
<1> DEFINE lost == failed["no range"]
           total == ProcessTotals
           named == Accounted
<1>1. total \in Tally /\ lost \in Tally /\ named \in Tally /\ period \in Nat
  BY RunningTotals, AccountedType, FuncStatHypothesis
  DEF ReportsOK, Reasons, FSP!FuncStatAssumption
<1>2. total = Plus(named, lost)
  BY FunctionsAccountIs
<1>3. UNCHANGED funcs => named' = named
  BY DEF funcs, Accounted, FunctionTotals
<1>4. \/ total' = total /\ named' = named /\ lost' = lost
      \/ total' = Add(total, period) /\ named' = named /\ lost' = Add(lost, period)
      \/ total' = Add(total, period) /\ named' = Add(named, period) /\ lost' = lost
  <2>1. CASE NotCounted(period)
    BY <2>1, <1>3 DEF NotCounted, GiveUp, ReportsOK, Reasons
  <2>2. CASE NotResolved(period)
    BY <2>2, <1>3 DEF NotResolved, GiveUp, ReportsOK, Reasons
  <2>3. CASE Resolved(period)
    BY <2>3, ResolvedTotals DEF Resolved
  <2> QED
    BY <2>1, <2>2, <2>3
<1>5. total' = Plus(named', lost')
  <2> HIDE DEF lost, total, named
  <2> QED
    BY <1>1, <1>2, <1>4, PlusAdds
<1> QED
  BY <1>5 DEF FunctionsAccount, Accounted

LEMMA FunctionsNext ==
  ASSUME LifeInv, ReportsOK, FunctionsAccount, dropped \in Seq(FS!Entry),
         head \in Seq(FS!Entry), error \in Tally, [Next]_vars
  PROVE  FunctionsAccount'
<1>1. ASSUME ProcessTotals' = ProcessTotals, UNCHANGED failed, UNCHANGED funcs
      PROVE  FunctionsAccount'
  BY <1>1 DEF FunctionsAccount, FunctionTotals, funcs
<1>2. ASSUME NEW pid \in Pids, NEW tid \in Tids, NEW time \in Times,
             handleRecord(pid, tid, time)
      PROVE  FunctionsAccount'
  <2>1. ASSUME NEW ip \in Ips, NEW period \in Periods, decodeSample(pid, time, ip, period)
        PROVE  FunctionsAccount'
    BY <2>1, SampleTotals, FunctionsSample
  <2>2. ASSUME \/ decodeMmap(pid, time) \/ decodeComm(pid, time)
               \/ decodeFork(pid, tid, time) \/ decodeExit(pid, tid, time)
        PROVE  FunctionsAccount'
    BY <1>1, <2>2, OtherTotals, OtherIsHandled DEF HandleOther
  <2> QED
    BY <1>2, <2>1, <2>2 DEF handleRecord
<1>3. CASE print_processes
  BY <1>1, <1>3, PrintTotals DEF print_processes
<1>4. CASE UNCHANGED vars
  BY <1>1, <1>4 DEF vars, funcs, ProcessTotals
<1> QED
  BY <1>2, <1>3, <1>4 DEF Next

(***************************************************************************)
(* processes.csv and results.csv agree in every run, for any stream of     *)
(* records, of addresses that hit or miss the cache, of failures of        *)
(* addr2line and of malloc: what is counted for processes is in a function,*)
(* in the error entry, in an entry that was lost, or had no memory range.  *)
(***************************************************************************)
THEOREM EverySampleInOneFunction == Spec => []FunctionsAccount
<1> DEFINE Listed == TypeInv /\ ProcessesAccount /\ head \in Seq(FS!Entry) /\ error \in Tally
<1>1. Spec => []Listed
  BY AccountHolds
<1>2. Listed /\ FunctionsAccount /\ [Next]_vars => FunctionsAccount'
  BY FunctionsNext DEF TypeInv, BookInv
<1> HIDE DEF Listed
<1> QED
  BY <1>1, <1>2, FunctionsInit, PTL DEF Spec

-----------------------------------------------------------------------------
(* The set of processes the replay asks processes.c for.                   *)

\* What ProcessTree implements, on the processes of the replay.
PS == INSTANCE PidSet WITH live <- DOMAIN recTree

LEMMA BooksArePids == Books => [PS!Next]_(DOMAIN recTree)
<1> SUFFICES ASSUME Books PROVE [PS!Next]_(DOMAIN recTree)
  OBVIOUS
<1>1. CASE Keeps
  BY <1>1 DEF Keeps
<1>2. ASSUME NEW p, Creates(p) PROVE PS!Next
  BY <1>2 DEF Creates, Live, PS!Next, PS!create_process
<1>3. ASSUME NEW p, NEW row, Reports(p, row) PROVE PS!Next
  BY <1>3 DEF Reports, Live, PS!Next, PS!remove_process
<1> QED
  BY <1>1, <1>2, <1>3 DEF Books

LEMMA PidsNext == [Next]_vars => [PS!Next]_(DOMAIN recTree)
<1> SUFFICES ASSUME [Next]_vars PROVE [PS!Next]_(DOMAIN recTree)
  OBVIOUS
<1>1. ASSUME NEW pid \in Pids, NEW tid \in Tids, NEW time \in Times,
             handleRecord(pid, tid, time)
      PROVE  [PS!Next]_(DOMAIN recTree)
  BY <1>1, RecordBooks, BooksArePids
<1>2. CASE print_processes
  BY <1>2 DEF print_processes
<1>3. CASE UNCHANGED vars
  BY <1>3 DEF vars
<1> QED
  BY <1>1, <1>2, <1>3 DEF Next

(***************************************************************************)
(* buildstat.c uses processes.c within its contract, the abstract set that *)
(* ProcessTree implements, too: one process is created or removed by a     *)
(* record, no live pid is created again and only a live pid is removed, for*)
(* any stream of records; the final print leaves the set alone.            *)
(***************************************************************************)
THEOREM UsesPidSet == Spec => PS!Spec
<1>1. Init => PS!Init
  BY DEF Init, PS!Init
<1> QED
  BY <1>1, PidsNext, PTL DEF Spec, PS!Spec
=============================================================================

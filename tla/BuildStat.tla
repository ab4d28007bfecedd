----------------------------- MODULE BuildStat ------------------------------
(***************************************************************************)
(* decode/buildstat.c with decode/processes.c and decode/processPrinter.c: *)
(* the records, in the order of their timestamps, are replayed against the *)
(* set of live processes; processes that exit are written to processes.csv *)
(* and samples are handed to the function statistics (FuncStat).           *)
(*                                                                         *)
(* One action is one call of handleRecord, with one disjunct per outcome   *)
(* of the decode function it calls; the last action is print_processes.    *)
(* The records are any sequence a data file can hold, restricted only to   *)
(* the order iterate_order yields them in.  Of overview.csv only the number*)
(* of lines matters, and the number and the periods of its SAMPLE lines.   *)
(***************************************************************************)
EXTENDS Naturals, Sequences, FiniteSets, Functions

CONSTANTS
  Pids,         \* process ids records carry; numbers, the tree is ordered by them
  Tids,         \* thread ids records carry, those of main threads included
  COMMON_PROC,  \* (u32)-1, the process that holds the kernel's memory maps
  Times,        \* timestamps
  NoExit,       \* (u64)-1, the exit time of a process that has not exited
  WordSize,     \* 2^64: the arithmetic of addresses is modulo WordSize
  Ips,          \* instruction pointers of samples
  Regions,      \* [start, len, filename] of MMAP records of binaries
  Vdsos,        \* pgoff of MMAP records of "[vdso]"
  Comms,        \* names in COMM records
  NoComm,       \* the empty name of a process without COMM record
  BinNames, Sources, Addr2Line, Periods, CacheSize, MemoryFails \* of FuncStat

Addrs == 0 .. WordSize - 2
NoAddr == WordSize - 1

VARIABLES
  recTree,       \* the processes in memory, by pid
  processes_csv, \* the rows written to processes.csv
  overview_csv,  \* lines of overview.csv, and the SAMPLE lines and their periods
  last_error,    \* errhandler.c: the error print_last_error would print
  stderr,        \* how often each error has been printed
  clock,         \* the timestamp of the last record
  done,          \* print_processes has run
  head, error,   \* funcstat.c
  created,       \* history: processes created, by pid
  failed,        \* history: samples decodeSample gave up on, by reason
  dropped,       \* history: entries add_entry lost with the head of their list
  asked          \* history: the last sample given to force_entry, if any

FS == INSTANCE FuncStat

ASSUME BuildStatAssumption ==
  /\ Pids \subseteq Nat
  /\ Pids \subseteq Tids
  /\ COMMON_PROC \in Pids
  /\ Times \subseteq Nat
  /\ NoExit \in Nat
  /\ \A t \in Times : t <= NoExit
  /\ WordSize \in Nat \ {0, 1}
  /\ Ips \subseteq Addrs
  /\ Regions \subseteq [start : 0 .. WordSize - 1, len : 0 .. WordSize - 1,
                        filename : BinNames]
  /\ Vdsos \subseteq 0 .. WordSize - 1
  /\ FS!FuncStatAssumption

trees == <<recTree, processes_csv, created>>
funcs == <<head, error, asked, dropped>>
reports == <<last_error, stderr>>
vars == <<recTree, processes_csv, overview_csv, last_error, stderr, clock, done,
          head, error, created, failed, asked, dropped>>

-----------------------------------------------------------------------------
(* Data.                                                                   *)

\* The errors a record can set, with their information where it tells where
\* they were set, and the failure of malloc.
ERR_NONE == "no error"
ERR_NOT_YET_DEFINED == "not yet defined"
ERR_PROC_ALREADY_EXISTS == "process already exists"
ERR_PROC_NOT_FOUND == "process not found"
ERR_MEMORY_RANGE_NOT_FOUND == "memory range not found"
ERR_ERRNO == "errno"

Errors == {ERR_NONE, ERR_NOT_YET_DEFINED, ERR_PROC_ALREADY_EXISTS,
           ERR_PROC_NOT_FOUND, ERR_MEMORY_RANGE_NOT_FOUND, ERR_ERRNO}

Reasons == {"no process", "no range"}

Zero == [samples |-> 0, period |-> 0]

Tally == [samples : Nat, period : Nat]

Add(t, period) == [t EXCEPT !.samples = @ + 1, !.period = @ + period]

Region == [start : 0 .. WordSize - 1, end : 0 .. WordSize - 1, filename : BinNames]

Process ==
  [fork_time : Times \cup {0},
   samples   : Nat,
   period    : Nat,
   vdso      : 0 .. WordSize - 1,
   comm      : Comms \cup {NoComm},
   mmaps     : Seq(Region)]

Row == [pid : Pids, comm : Comms \cup {NoComm}, mmaps : Nat,
        fork : Times \cup {0}, exit : Times \cup {NoExit},
        samples : Nat, period : Nat]

-----------------------------------------------------------------------------
(* Processes.                                                              *)

Live(pid) == pid \in DOMAIN recTree

\* create_process: memset to zero, then the pid.
new_process ==
  [fork_time |-> 0, samples |-> 0, period |-> 0, vdso |-> 0, comm |-> NoComm,
   mmaps |-> << >>]

Insert(tree, pid, proc) ==
  [p \in DOMAIN tree \cup {pid} |-> IF p = pid THEN proc ELSE tree[p]]

Remove(tree, pid) == [p \in DOMAIN tree \ {pid} |-> tree[p]]

\* A search that looks at the end of a region only.
find_mmap_EndOnly(proc, addr) ==
  {i \in DOMAIN proc.mmaps : addr <= proc.mmaps[i].end}

\* The regions find_mmap can stop at; both bounds belong to a region.
find_mmap(proc, addr) ==
  {i \in DOMAIN proc.mmaps : /\ addr >= proc.mmaps[i].start
                             /\ addr <= proc.mmaps[i].end}

\* An end that is not kept in 64 bits.
region_of_NoWrap(r) ==
  [start |-> r.start, end |-> r.start + r.len - 1, filename |-> r.filename]

\* The region a record describes; start + len - 1 is computed modulo WordSize.
region_of(r) ==
  [start    |-> r.start,
   end      |-> (r.start + r.len + WordSize - 1) % WordSize,
   filename |-> r.filename]

\* print_process: the row of a process.
row_of(pid, proc, exit_time) ==
  [pid |-> pid, comm |-> proc.comm, mmaps |-> Len(proc.mmaps),
   fork |-> proc.fork_time, exit |-> exit_time,
   samples |-> proc.samples, period |-> proc.period]

-----------------------------------------------------------------------------
(* Reports.  handleRecord prints the last error when a decode function     *)
(* returns false, whether or not that call has set one.                    *)

print_last_error == stderr' = [stderr EXCEPT ![last_error'] = @ + 1]

\* trymsg, or set_last_error before return false.
Fail(err) == last_error' = err /\ print_last_error

\* try: return false without set_last_error.
FailSilently == UNCHANGED last_error /\ print_last_error

\* Records in the order of the file instead of the order of time.
Handle_Unsorted(time) ==
  /\ ~done
  /\ clock' = time
  /\ UNCHANGED done

\* Some record is handled, and it is not earlier than the one before.
Handle(time) ==
  /\ ~done
  /\ time >= clock
  /\ clock' = time
  /\ UNCHANGED done

\* A record that is no sample.
HandleOther(time) ==
  /\ Handle(time)
  /\ overview_csv' = [overview_csv EXCEPT !.lines = @ + 1]
  /\ UNCHANGED <<failed, funcs>>

-----------------------------------------------------------------------------
(* decodeSample.                                                           *)

\* The process a sample is counted for.
Owner(pid) == IF Live(pid) THEN pid ELSE COMMON_PROC

\* The process whose memory maps hold the instruction pointer: the owner, or
\* else the common process.
Holder(pid, ip) ==
  IF find_mmap(recTree[Owner(pid)], ip) # {} THEN Owner(pid) ELSE COMMON_PROC

HandleSample(time, period) ==
  /\ Handle(time)
  /\ overview_csv' = Add([overview_csv EXCEPT !.lines = @ + 1], period)

Count(pid, period) ==
  recTree' = Insert(recTree, Owner(pid), Add(recTree[Owner(pid)], period))

GiveUp(reason, period) ==
  failed' = [failed EXCEPT ![reason] = Add(@, period)]

\* Neither the process nor the common process is known.
SampleWithoutProcess(pid, time, ip, period) ==
  /\ HandleSample(time, period)
  /\ ~Live(Owner(pid))
  /\ Fail(ERR_PROC_NOT_FOUND)
  /\ GiveUp("no process", period)
  /\ UNCHANGED <<trees, funcs>>

\* No region of the process holds the address, and there is no common process
\* to look at: try( proc != NULL ) returns without setting an error.  The
\* process has been credited before.
SampleWithoutCommon(pid, time, ip, period) ==
  /\ HandleSample(time, period)
  /\ Live(pid)
  /\ find_mmap(recTree[pid], ip) = {}
  /\ ~Live(COMMON_PROC)
  /\ Count(pid, period)
  /\ FailSilently
  /\ GiveUp("no range", period)
  /\ UNCHANGED <<processes_csv, created, funcs>>

\* A process that is credited only after its region has been found.
SampleWithoutRange_NotCredited(pid, time, ip, period) ==
  /\ HandleSample(time, period)
  /\ Live(Owner(pid)) /\ Live(COMMON_PROC)
  /\ find_mmap(recTree[Owner(pid)], ip) = {}
  /\ find_mmap(recTree[COMMON_PROC], ip) = {}
  /\ Fail(ERR_MEMORY_RANGE_NOT_FOUND)
  /\ GiveUp("no range", period)
  /\ UNCHANGED <<trees, funcs>>

\* No region of the process or of the common process holds the address.
SampleWithoutRange(pid, time, ip, period) ==
  /\ HandleSample(time, period)
  /\ Live(Owner(pid)) /\ Live(COMMON_PROC)
  /\ find_mmap(recTree[Owner(pid)], ip) = {}
  /\ find_mmap(recTree[COMMON_PROC], ip) = {}
  /\ Count(pid, period)
  /\ Fail(ERR_MEMORY_RANGE_NOT_FOUND)
  /\ GiveUp("no range", period)
  /\ UNCHANGED <<processes_csv, created, funcs>>

\* The address given to addr2line, in unsigned arithmetic.
address(proc, region, ip) ==
  IF ip >= proc.vdso THEN (ip + WordSize - region.start) % WordSize ELSE ip

\* The sample is resolved: force_entry and the addition to its entry.  When
\* get_func fails it sets an error that nobody prints here.
SampleResolved(pid, time, ip, period) ==
  /\ HandleSample(time, period)
  /\ Live(Owner(pid))
  /\ Live(Holder(pid, ip))
  /\ find_mmap(recTree[Holder(pid, ip)], ip) # {}
  /\ LET proc   == recTree[Holder(pid, ip)]
         region == proc.mmaps[FS!First(find_mmap(proc, ip))]
         addr   == address(proc, region, ip)
     IN  /\ asked' = {[ip |-> ip, addr |-> addr, filename |-> region.filename]}
         /\ \/ /\ \/ FS!CountCached(addr, region.filename, period)
                  \/ FS!CountKnown(addr, region.filename, period)
                  \/ FS!CountNew(addr, region.filename, period)
               /\ UNCHANGED <<last_error, dropped>>
            \/ /\ FS!CountNoMemory(addr, region.filename, period)
               /\ dropped' = dropped \o head
               /\ UNCHANGED last_error
            \/ /\ FS!CountError(addr, region.filename, period)
               /\ last_error' = ERR_NOT_YET_DEFINED
               /\ UNCHANGED dropped
  /\ Count(pid, period)
  /\ UNCHANGED <<processes_csv, created, stderr, failed>>

decodeSample(pid, time, ip, period) ==
  \/ SampleWithoutProcess(pid, time, ip, period)
  \/ SampleWithoutCommon(pid, time, ip, period)
  \/ SampleWithoutRange(pid, time, ip, period)
  \/ SampleResolved(pid, time, ip, period)

-----------------------------------------------------------------------------
(* decodeMmap and decodeComm.  A process they do not find is created, if   *)
(* the record has the timestamp of what perf synthesizes at the start.     *)

\* The process of a MMAP or COMM record is there, or may be created.
Defined(pid, time) == Live(pid) \/ time = 0

\* ... and this is it.
Process_of(pid) == IF Live(pid) THEN recTree[pid] ELSE new_process

CountCreated(pid) ==
  created' = IF Live(pid) THEN created ELSE [created EXCEPT ![pid] = @ + 1]

\* The process is changed to proc; when it was not there it has been created.
Update(pid, proc) ==
  /\ recTree' = Insert(recTree, pid, proc)
  /\ CountCreated(pid)
  /\ UNCHANGED <<processes_csv, reports>>

NotYetDefined(pid, time) ==
  /\ HandleOther(time)
  /\ ~Defined(pid, time)
  /\ Fail(ERR_NOT_YET_DEFINED)
  /\ UNCHANGED trees

\* create_process has no memory: try( proc != NULL ).
CreateWithoutMemory(pid, time) ==
  /\ MemoryFails
  /\ HandleOther(time)
  /\ ~Live(pid)
  /\ FailSilently
  /\ UNCHANGED trees

\* A binary: its region becomes the first to be searched.
MmapRegion(pid, time, r) ==
  /\ HandleOther(time)
  /\ Defined(pid, time)
  /\ Update(pid, [Process_of(pid) EXCEPT !.mmaps = <<region_of(r)>> \o @])

\* proc->mmaps = malloc( .. ) before the test: all regions are lost.
MmapWithoutMemory(pid, time) ==
  /\ MemoryFails
  /\ HandleOther(time)
  /\ Defined(pid, time)
  /\ recTree' = Insert(recTree, pid, [Process_of(pid) EXCEPT !.mmaps = << >>])
  /\ CountCreated(pid)
  /\ Fail(ERR_ERRNO)
  /\ UNCHANGED processes_csv

\* "[vdso]" tells where the address space of the libraries begins.
MmapVdso(pid, time, pgoff) ==
  /\ HandleOther(time)
  /\ Defined(pid, time)
  /\ Process_of(pid).vdso = 0
  /\ Update(pid, [Process_of(pid) EXCEPT !.vdso = pgoff])

\* A second one is refused.
MmapSecondVdso(pid, time) ==
  /\ HandleOther(time)
  /\ Live(pid)
  /\ recTree[pid].vdso # 0
  /\ Fail(ERR_NOT_YET_DEFINED)
  /\ UNCHANGED trees

decodeMmap(pid, time) ==
  \/ NotYetDefined(pid, time)
  \/ CreateWithoutMemory(pid, time) /\ time = 0
  \/ \E r \in Regions : MmapRegion(pid, time, r)
  \/ MmapWithoutMemory(pid, time)
  \/ \E pgoff \in Vdsos : MmapVdso(pid, time, pgoff)
  \/ MmapSecondVdso(pid, time)

CommName(pid, time, comm) ==
  /\ HandleOther(time)
  /\ Defined(pid, time)
  /\ Update(pid, [Process_of(pid) EXCEPT !.comm = comm])

decodeComm(pid, time) ==
  \/ NotYetDefined(pid, time)
  \/ CreateWithoutMemory(pid, time) /\ time = 0
  \/ \E comm \in Comms : CommName(pid, time, comm)

-----------------------------------------------------------------------------
(* decodeFork.                                                             *)

\* A new process.
ForkProcess(pid, tid, time) ==
  /\ HandleOther(time)
  /\ ~Live(pid)
  /\ pid = tid
  /\ Update(pid, [new_process EXCEPT !.fork_time = time])

\* A thread for which the process is set up anew.
ForkThread_Anew(pid, tid, time) ==
  /\ HandleOther(time)
  /\ Live(pid)
  /\ pid # tid
  /\ Update(pid, [new_process EXCEPT !.fork_time = time])

\* A new thread of a known process; the process takes the timestamp as well.
ForkThread(pid, tid, time) ==
  /\ HandleOther(time)
  /\ Live(pid)
  /\ pid # tid
  /\ Update(pid, [recTree[pid] EXCEPT !.fork_time = time])

\* A thread of a process nobody knows.
ForkOrphan(pid, tid, time) ==
  /\ HandleOther(time)
  /\ ~Live(pid)
  /\ pid # tid
  /\ Fail(ERR_PROC_NOT_FOUND)
  /\ UNCHANGED trees

\* A process that is running already.
ForkTwice(pid, tid, time) ==
  /\ HandleOther(time)
  /\ Live(pid)
  /\ pid = tid
  /\ Fail(ERR_PROC_ALREADY_EXISTS)
  /\ UNCHANGED trees

decodeFork(pid, tid, time) ==
  \/ ForkProcess(pid, tid, time)
  \/ ForkThread(pid, tid, time)
  \/ ForkOrphan(pid, tid, time)
  \/ ForkTwice(pid, tid, time)
  \/ CreateWithoutMemory(pid, time) /\ pid = tid

-----------------------------------------------------------------------------
(* decodeExit.                                                             *)

\* A process that is printed and stays in the tree.
ExitProcess_NoRemove(pid, tid, time) ==
  /\ HandleOther(time)
  /\ pid = tid
  /\ Live(pid)
  /\ processes_csv' = Append(processes_csv, row_of(pid, recTree[pid], time))
  /\ UNCHANGED <<recTree, created, reports>>

\* The main thread exits: the process is removed and printed.
ExitProcess(pid, tid, time) ==
  /\ HandleOther(time)
  /\ pid = tid
  /\ Live(pid)
  /\ recTree' = Remove(recTree, pid)
  /\ processes_csv' = Append(processes_csv, row_of(pid, recTree[pid], time))
  /\ UNCHANGED <<created, reports>>

\* Another thread, or the second exit of a process: nothing to do.
ExitIgnored(pid, tid, time) ==
  /\ HandleOther(time)
  /\ pid # tid \/ ~Live(pid)
  /\ UNCHANGED <<trees, reports>>

decodeExit(pid, tid, time) ==
  \/ ExitProcess(pid, tid, time)
  \/ ExitIgnored(pid, tid, time)

-----------------------------------------------------------------------------
(* The whole run.                                                          *)

handleRecord(pid, tid, time) ==
  \/ \E ip \in Ips, period \in Periods : decodeSample(pid, time, ip, period)
  \/ decodeMmap(pid, time)
  \/ decodeComm(pid, time)
  \/ decodeFork(pid, tid, time)
  \/ decodeExit(pid, tid, time)

\* The pids of the tree in the order iterate_processes visits them.
Ascending(order) == \A i, j \in DOMAIN order : i < j => order[i] < order[j]

\* print_processes, after the last record: what is left gets a row.
print_processes ==
  /\ ~done
  /\ done' = TRUE
  /\ \E order \in [1 .. Cardinality(DOMAIN recTree) -> DOMAIN recTree] :
       /\ Ascending(order)
       /\ processes_csv' = processes_csv \o
            [i \in 1 .. Cardinality(DOMAIN recTree) |->
               row_of(order[i], recTree[order[i]], NoExit)]
  /\ UNCHANGED <<recTree, overview_csv, reports, clock, funcs, created, failed>>

Init ==
  /\ recTree = [p \in {} |-> new_process]
  /\ processes_csv = << >>
  /\ overview_csv = [lines |-> 0, samples |-> 0, period |-> 0]
  /\ last_error = ERR_NONE
  /\ stderr = [e \in Errors |-> 0]
  /\ clock = 0
  /\ done = FALSE
  /\ FS!Init
  /\ created = [p \in Pids |-> 0]
  /\ failed = [r \in Reasons |-> Zero]
  /\ asked = {}
  /\ dropped = << >>

Next ==
  \/ \E pid \in Pids, tid \in Tids, time \in Times : handleRecord(pid, tid, time)
  \/ print_processes

Spec == Init /\ [][Next]_vars

-----------------------------------------------------------------------------
(* Properties.                                                             *)

\* The tree holds processes under their pids.
TreeOK ==
  /\ DOMAIN recTree \subseteq Pids
  /\ recTree \in [DOMAIN recTree -> Process]

(***************************************************************************)
(* Types: regions stay in 64 bits, rows and processes carry times of       *)
(* records, only known errors are printed.                                 *)
(***************************************************************************)
TypeOK ==
  /\ TreeOK
  /\ processes_csv \in Seq(Row)
  /\ overview_csv \in [lines : Nat, samples : Nat, period : Nat]
  /\ last_error \in Errors
  /\ stderr \in [Errors -> Nat]
  /\ clock \in Times \cup {0}
  /\ done \in BOOLEAN
  /\ created \in [Pids -> Nat]
  /\ failed \in [Reasons -> Tally]
  /\ asked \in SUBSET [ip : Ips, addr : 0 .. WordSize - 1, filename : BinNames]
  /\ dropped \in Seq(FS!Entry)

\* Sums over rows, processes or entries.
Total(f) ==
  [samples |-> SumFunction([i \in DOMAIN f |-> f[i].samples]),
   period  |-> SumFunction([i \in DOMAIN f |-> f[i].period])]

Plus(t, u) == [samples |-> t.samples + u.samples, period |-> t.period + u.period]

ProcessTotals ==
  IF done THEN Total(processes_csv) ELSE Plus(Total(processes_csv), Total(recTree))

FunctionTotals == Plus(Total(head), error)

(***************************************************************************)
(* Every SAMPLE line of overview.csv is in exactly one process with its    *)
(* full period, alive or in processes.csv, unless no process was found for *)
(* it: exits, forks of threads and the final print lose and repeat none.   *)
(***************************************************************************)
ProcessesAccount ==
  [samples |-> overview_csv.samples, period |-> overview_csv.period]
    = Plus(ProcessTotals, failed["no process"])

(***************************************************************************)
(* processes.csv and results.csv agree: what is counted for processes is   *)
(* counted for functions or for the error entry, except for the samples    *)
(* without a memory range, which decodeSample drops after it has credited  *)
(* the process, and for the entries add_entry loses when malloc fails: the *)
(* sample that finds no memory is counted nevertheless.                    *)
(***************************************************************************)
FunctionsAccount ==
  ProcessTotals = Plus(Plus(FunctionTotals, Total(dropped)), failed["no range"])

(***************************************************************************)
(* "we cannot have two running processes with the same pid": the lifetimes *)
(* of the rows of one pid do not overlap, although pids are reused and     *)
(* threads move the fork time of a running process.                        *)
(***************************************************************************)
LifetimesDisjoint ==
  /\ \A i \in DOMAIN processes_csv : processes_csv[i].fork <= processes_csv[i].exit
  /\ \A i, j \in DOMAIN processes_csv :
       i < j /\ processes_csv[i].pid = processes_csv[j].pid
         => processes_csv[i].exit <= processes_csv[j].fork

(***************************************************************************)
(* Every process that was created gets one row: when its main thread exits *)
(* or at the end of the run, and not twice although exits are reported     *)
(* twice.                                                                  *)
(***************************************************************************)
EveryProcessReportedOnce ==
  \A p \in Pids :
    created[p] = Cardinality({i \in DOMAIN processes_csv : processes_csv[i].pid = p})
                   + (IF Live(p) /\ ~done THEN 1 ELSE 0)

(***************************************************************************)
(* The unsigned difference evt->ip - mmap->start never wraps around: the   *)
(* address given to addr2line is at most the instruction pointer.          *)
(***************************************************************************)
AddressNoUnderflow == \A q \in asked : q.addr <= q.ip
=============================================================================

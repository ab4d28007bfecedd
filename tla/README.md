# Verification of readperf

`readperf` reads the data file of `perf record`, sorts its records by time,
replays them against the set of processes that were alive, resolves every
sample to a source function by running `addr2line`, and writes
`processes.csv`, `overview.csv`, `stat.csv` and `results.csv`. This directory
models the program in TLA+. TLC checks the models on small instances; TLAPS
proves the most important properties for every value of the constants.
Paths below are relative to `src/readperf/` unless they say otherwise.

## Inventory

The program is one thread that runs to completion. What makes it hard is not
concurrency inside it but the stream of records it has to make sense of:
written by several CPUs, cut off at both ends, with pids that are reused,
exits that come twice, threads that look like processes, addresses without a
binary, and resources (memory, `addr2line`) that fail in the middle of a step.

| component | state | operations | correct when |
|---|---|---|---|
| `decode/funcstat.c` | list `head` of functions, each with a ring of eight addresses; the `error` entry | `force_entry`, `func_error`, printing | every sample is credited once, to the function addr2line names; no function twice; a cache hit is what addr2line would say |
| `decode/buildstat.c` | `recTree`, through the other modules all results | `handleRecord` with `decodeSample`, `decodeMmap`, `decodeComm`, `decodeFork`, `decodeExit` | processes and functions are credited the same samples; every process gets one row; lifetimes of a pid are disjoint |
| `decode/processes.c`, `processPrinter.c` | tree of processes; rows of `processes.csv` | create, remove, find, iterate, `find_mmap`, print | the tree is a set of pids; a region found holds the address |
| `util/tree.h` | nodes with two links and a height | insert, find, remove, walk | sorted, stable, nothing lost, shallow |
| `perffile/records.c` | the tree of records | add, iterate | records come in the order of time, equal times in the order of the file |
| `decode/addr2line.c` | three pipes, a child process | `get_func`, `exec_redirect` | an answer is that of the child; the call returns |
| `perffile/session.c` | file position, header, attributes, sampling type | `start_session`, `has_more_events`, `next_event_header`, `read_event_data`, `skip_event_data` | sections are read as the header says; every record of the data section is read |
| `perffile/perffile.c` | the number of the next record | `readEvents`, `read_perf_file` | every record it knows becomes one record of the tree |
| `util/origperf.c` | none | `perf_event__parse_sample`, `parse_id_sample` | the fields are those the kernel has written for this sample type |
| `util/errhandler.c` | last error, its information | `set_last_error`, `print_last_error` | the error printed is the one that occurred |
| `perffile/overviewPrinter.c` | counts per record type | `log_type`, `log_overview*` | every record is counted once |
| `readperf.c` | the output files and their buffers | `main` | nothing is written for a file that is refused; no line of the output is lost or repeated |
| `src/tools/forker.c` | the forks each process has left | `main` | the forks asked for are made, every process ends |
| `src/tools/overflow.c` | three variables shared by threads | `main`, `thread` | every thread has its number, the handshakes lose no report |
| `src/tools/test.c`, `readtsc.c` | none | a load; a time stamp | - |

`main` opens the file and calls `read_perf_file`; the session reads header,
attributes and types; `readEvents` decodes record by record and inserts each
into the tree of `records.c`. `main` then checks the attributes and calls
`buildstat`, which walks the tree with `handleRecord` as the callback.
`decodeSample` calls `force_entry`, which calls `get_func`, which forks
`addr2line`. The two files `main` has opened are written while `addr2line` is forked,
so a child that does not become `addr2line` shares them. All decode functions report
failures through the error handler.

## Modules

| module | what it is |
|---|---|
| `FuncEntry` | an entry of `funcstat.c` and the searches in a list of them, as operators |
| `FuncStat` | `funcstat.c`: list, searches, address cache |
| `FuncTotals` | abstract: totals per source function and of the error entry, call by call |
| `FuncSamples` | `FuncStat` with a history of the last call; implements `FuncTotals` |
| `FuncStatProofs` | theorems about `FuncStat` and `FuncSamples` |
| `MCFuncStat` | instances of `FuncSamples` |
| `BuildStat` | `buildstat.c`, `processes.c`, `processPrinter.c`; uses `FuncStat` |
| `BuildStatProofs` | theorems about `BuildStat`: lifetimes, addresses, one row per process, its types, the accounts of samples and periods, and that it uses `FuncStat` and `PidSet` as specified |
| `MCBuildStat` | instances of `BuildStat` |
| `AvlTree` | the functions of `tree.h`, as the machine runs their recursion |
| `SortedRecords` | abstract: a sorted, stable sequence of records |
| `RecordOrder` | `records.c` on `AvlTree`; implements `SortedRecords` |
| `PidSet` | abstract: a set of pids that come and go |
| `PidCalls` | abstract: what the calls about a set of pids answer; extends `PidSet` |
| `ProcessTree` | the tree of `processes.c` on `AvlTree`; implements `PidCalls` and so `PidSet` |
| `TreeProofs` | theorems about `RecordOrder` and `ProcessTree`, on lemmas about `AvlTree` |
| `ErrHandler` | `errhandler.c`: the numbers of the errors, and what is printed for a number |
| `ParseSample` | `origperf.c`: a record taken apart field by field, as an operator |
| `PerfFile` | `session.c`, `perffile.c`, the counts of `overviewPrinter.c` and the first half of `main`; uses `ParseSample` and `ErrHandler` |
| `PerfFileProofs` | theorems about `PerfFile` |
| `MCPerfFile` | families of small data files, with records as the kernel writes them |
| `Addr2Line` | `addr2line.c`: pipes, fork, exec, wait, and the copies of the process |
| `ReadPerf` | the second half of `main`: `Addr2Line` with the function list (`FuncEntry`) of each process, the output files and their buffers |
| `ReadPerfProofs` | theorems about `ReadPerf`, and so about `Addr2Line` within it |
| `MCReadPerf` | what `addr2line` does in the instances |
| `Forker` | `src/tools/forker.c`: all processes it makes |
| `ForkerProofs` | theorems about `Forker` |
| `Overflow` | `src/tools/overflow.c`: main and its threads |
| `OverflowProofs` | theorems about `Overflow` |
| `SumLemmas` | lemmas about the sums of the community modules; the accounts and offsets rest on them. `TreeProofs` uses its induction on finite sets |

Operators that end in `_` and a word (`find_mmap_EndOnly`, `remember_NoWrap`)
are faulty variants of the operator behind them. No specification uses them;
they show which mistake a property would detect. No module has a `RECURSIVE`
operator, which the prover could not reason about: sums are folds, the recursion of
the tree is a stack of callers, and the depth of a tree is a recursive function.

### How state and actions correspond to the code

**FuncStat.** `head` is the linked list as a sequence, newest first; an entry
keeps its ring `addr` of `CacheSize` addresses and the index `addhead`. One
action is one call of `force_entry` with the two additions `decodeSample` makes
to the entry it returns; there is one action per way through `force_entry`: the
address is found (`CountCached`), only the function is found and the address is
stored in its ring (`CountKnown`), neither (`CountNew`), `get_func` failed
(`CountError`), `malloc` failed (`CountNoMemory`). Both searches stop at the
first hit, as the code does, so a second hit would matter. What `addr2line`
answers is the constant function `Addr2Line`; it may also fail at any time. It
is a constant because the tool answers from files that do not change during a
run; that presumes that the tool can be run (see `Addr2Line` for the rest).
An entry, its cache and the searches are in `FuncEntry`, since `ReadPerf` has such a
list for every copy of the process. `FuncSamples` adds `sample`, the address, binary and period of
the last call. `FuncTotals` sets the same variable, so that the refinement compares the two
call by call: it is no use that some other function or some other period would also
make a legal total.

**BuildStat.** `recTree` is a function from live pids to processes,
`processes_csv` the rows written. One action is one call of `handleRecord`,
whole: the overview line, the decode function, the report of its error. Every
decode function is a disjunction of its outcomes, error paths included, in the
order in which the code tests for them; steps before an error keep their effect
(`Count` in `SampleWithoutRange`). `last_error` is the error handler's variable,
and `stderr` counts what has been printed, including the stale error printed
when `try` fails without setting one. Records are any sequence with times
that do not descend, which is what `RecordOrder` delivers. The default of the
`switch` in `handleRecord` is not modelled: `readEvents` puts no other types
into the tree. `created`, `failed`, `dropped` and `asked` are history variables of the
properties; no guard reads them. The state of `FuncStat` is part of the state of
`BuildStat`, and its actions are conjuncts of `SampleResolved`.

**AvlTree, RecordOrder, ProcessTree.** The functions of `tree.h` change nodes in place
and call themselves and each other, so the model runs them as the machine does. `link`,
`height` and `key` are the fields of the nodes in memory; `pc`, `self`, `arg` and `want` are
the function that runs and its parameters, or the result it returns; `stack` holds the
callers that wait, each with the link its call is for and with what it does next. One action
takes a function from its call to the next call or to its return: `Descend` and `Place` are
`TREE_INSERT`, and with `RemoveSelf` they are `TREE_REMOVE`; `Rotate`,
`BalanceSide` and `Balanced` are the rotations and `TREE_BALANCE`; `Resume` stores a result
in the caller's link, `Finish` in `th_root`. A new leaf keeps height zero, as in the code.
`TREE_REMOVE` clears the links of the node it takes out when `TREE_MOVE_RIGHT` has returned, the model
when it is called; nobody looks at them in between. The fields of `malloc`ed
records are not cleared by the code; the links of a new node are taken as null.
`members` and `visited` are history: what has been inserted and not removed, and what
the walk has called its function with. Users call only when no function runs.
`RecordOrder` numbers the records of the file, `ProcessTree` names a process by its pid; it
creates only after a search that failed and removes only what a search has found, as
`buildstat.c` does, and after a search it may do neither.

**PerfFile.** One action per check point: the header (`StartSession`), one round
of the loop over attributes (`ReadAttr`), one id (`ReadId`), the types, the
header of a record (`NextEvent`), its data (`TakeEvent`) or its skipping
(`SkipEvent`), and the tests of `main`. Each point has a sequence of checks; the
first one that fails sets its error and ends the program (`Refuse`). A file is a
record of what the reads find in it, with a length that may be too short for its
contents. Offsets are counted in words, and headers, ids, attributes and types
are one word each. `EndOfData` is `has_more_events` with its conversion to `int`.
Where the code tests a system call, the call may fail (`SystemFails`): its errno
becomes the last error. That includes the `lseek` of `has_more_events`, whose failure
the code would take for the end of the file; it cannot fail once the `lseek`s
before it have succeeded. A record carries words marked with the field they were
written for; `Kept` is the record the create functions make of it, with the
fields `parse_sample` has found.

**ParseSample.** `parse_sample` is one call of `perf_event__parse_sample`: the tests
of the code are the sequences `ParseOrder` and `IdOrder`, and a field is the word
behind, or for other records than samples before, those the earlier tests have taken.
The order in which the kernel writes the words is external: `KernelSample` and `KernelId`
list it, and `WrittenByKernel` says where the words of a record are that it has written.

**Addr2Line.** `procs` is the stack of `readperf` processes. Each waits for the
child it has forked, so only the last one runs. A child that could not become
`addr2line` goes on with a copy of its parent's record, as `fork` makes it; when
the copy has replayed everything, it prints its overview to what was to be
`addr2line`'s output. `fds` counts the descriptors open in a process. `execv` and `fork`
are chosen once: whether the tool can be run, and whether a fork may fail, does
not change during a run.

**ReadPerf.** Each action is one of `Addr2Line` with what `main` and the replay do to the
files and the list of functions beside it. A sample is logged first; then the list of the running
process is searched for its address. If it is cached, the entry is credited and no call is made
(`SampleCached`); if not, the pipes are opened (`Sample`), and when the call is over the answer is
looked for by name (`Resolved`) or the error entry is credited (`Unresolved`). A copy takes
the buffers and the list of its parent along (`Copy`), and its own call has failed. A process
that has replayed everything prints its processes, closes both files and writes the rows of its list
to `results.csv` (`CopyReports`, `Report`). A stream
writes its buffer when `BufferLines` lines are in it. The copies share the
offsets of the files, so what they write is appended.

**Forker.** `procs` holds every process the program has made, also those that have
ended; one step is one system call of one process, with the arithmetic before it.
`rand` is any number. The system refuses `fork` and `popen` when `Limit` processes
are there, zombies and commands among them.

**Overflow.** One step is one access to a shared variable, by `main` or by a
thread. `usleep` is an opaque call, so the compiler reads `started` and `killid`
anew in every round of the loops. A thread that leaves writes its report (`ReportEnd`)
and returns in a step of its own (`Exit`): in between, main may already go on.

### Composition

`BuildStat` instantiates `FuncStat` with its own variables; `UsesFuncStat` proves
that every run of the replay is a run of `FuncStat`, so theorems about
`FuncStat` hold for the replay (`OneResultPerFunction`). The other modules meet
at their boundary only: `PerfFile` yields the sequence `orderTree`,
`RecordOrder` shows the tree delivers such a sequence sorted and stable,
`BuildStat` assumes an order of time, `ProcessTree` shows the tree answers as a set of pids
(`PidCalls`), `ProcessTreeIsPidSet` and `UsesPidSet` prove that the processes in the tree and those
of every replay are runs of the same `PidSet`, and `ReadPerf` shows under which
conditions the answers are those `FuncStat` takes for granted. `PerfFile` applies
`ParseSample` to every record, and `ReadPerf` extends `Addr2Line`, whose properties it is
checked for. `FuncStat` and `ReadPerf` credit samples with the same operators of `FuncEntry`.

## Runs

| run | module, configuration | question |
|---|---|---|
| `funcstat` | `MCFuncStat`, `MCFuncStat.cfg` | Is every sample added with its own period to the function of its own address, and no function listed twice, while rings of addresses overflow? |
| `funcstat_stripped` | `MCFuncStat`, `MCFuncStatStripped.cfg` | ... also when a function is found in two binaries? **No.** |
| `replay` | `MCBuildStat`, `MCBuildStat.cfg` | Are all samples accounted for between processes, functions and errors, does every process get one row, and are addresses sound, however forks, threads, exits, mappings and failures are mixed? |
| `record_order` | `RecordOrder`, `MCRecordOrder.cfg` | Is the walk of the tree the file sorted by time, equal times in the order of the file, and does no rotation meet a null pointer? |
| `process_tree` | `ProcessTree`, `MCProcessTree.cfg` | Do searches, creations and removals in any order answer as a set of pids does, and does every call return? |
| `perf_file` | `MCPerfFile`, `MCPerfFile.cfg` | Is every file refused or read completely, and are the words of its records decoded as the fields they are, for every sample type? |
| `perf_file_int` | `MCPerfFile`, `MCPerfFileInt.cfg` | ... also a file that is larger than an `int`? **No.** |
| `perf_file_errors` | `MCPerfFile`, `MCPerfFileErrno.cfg` | Is a system call that fails reported as that? **No.** |
| `readperf` | `MCReadPerf`, `MCReadPerf.cfg` | Does every call return, with its own answer and its pipes closed, and do the files have every line and every sample, with copies of the process or without, and how many copies are there? |
| `addr2line_exec` | `MCReadPerf`, `MCReadPerfExec.cfg` | Is the answer that of `addr2line` also when it cannot be run? **No.** |
| `forker` | `Forker`, `MCForker.cfg` | Are all forks made, by whom, and how do the processes end? |
| `overflow` | `Overflow`, `MCOverflow.cfg` | Has every thread its number, and is each report taken for what it is, in every interleaving? |

### Bounds, and why they are enough

Deadlock is not checked where the program may stop: the end of the file, of the
calls, of the run; for the trees the walk, after which they are not used again.

* `MaxSamples` 5 (4 for the violation), `CacheSize` 2: `qsort` has three
  addresses, so its ring wraps around and evicts one that is asked for again;
  two more samples are left for other entries in front of it in the list.
* `MaxRecords` 4 in `replay`: fork, sample, exit and fork of the reused pid; mmap, vdso, and
  samples of the same process or of the common one; and every other sequence of that
  length, with two pids, one of them the common process, and a further thread. Times 0
  and 1 are enough to tell synthesized records (time 0) from others, and an order from a
  tie. `WordSize` 8: two regions, the addresses between them, and a region of length 0
  whose end wraps around. Only the relation of addresses to the bounds of regions matters.
* Seven records at four times, seven pids: trees of depth three and four, where
  both double rotations and a graft onto a path of two occur. The theorems hold for any number.
* `perf_file`: four records of four kinds and sizes, a header-only one among them,
  cut off by up to five words; up to three attributes with up to three ids, so
  that an array of links that starts at `LinkStart` 2 (4 in the code) is doubled
  twice; every set of sample flags that has `TID` and `IP`, with payloads of one and two
  words and chains of up to `MaxChain` 3 addresses; records on both sides of `MaxEvent`;
  two values of errno, one inside the table of texts and one behind it. `IntSize` is 128, which no
  file reaches; 32 in `perf_file_int`, which small files exceed, stands for 2^32.
* `readperf`: up to `MaxCalls` 4 samples, among five pairs of address and binary: tools that
  answer, do not know, fail and complain more than a pipe (`PipeSize` 4) holds; two addresses of one
  function, and one address in two binaries. A call after each kind of call, addresses that
  come again with others in between, and up to five processes at a time. `CacheSize` 2: the
  overview of a copy is one function for all addresses, and its second address already evicts
  the first one, since the index of a new entry stays on it; then the first may come again. `BufferLines` 3: forks with a full, a used and an empty buffer, and a buffer
  that is written between two forks. `MaxCalls` 2 shows the violation.
* `forker`: up to five forks in every division among processes, and 0, which wraps
  around to 6 forks; five processes at a time, of which a fork or a command may be the
  one too many.
* `overflow`: `MaxThreads` 5: main only ever deals with the last thread and the first one;
  none at all is an instance of its own.

Sums of samples and periods are natural numbers; the code adds in `u64`, and a
recording does not reach 2^64.

### Fairness

The replay modules and `RecordOrder` have no liveness property and no fairness. `ProcessTree`
assumes that a function of the tree that can take a step takes it, as the code of one thread does. `PerfFile` and
`ReadPerf` assume weak fairness of the whole next-state relation: a single thread takes a
step whenever it can, and in `ReadPerf` the tool ends once its output has room. `Overflow`
assumes weak fairness of main and of every thread, `Forker` of every process: the
system schedules them, and the loops of `overflow` poll a variable that keeps its value until
they have seen it.

`Finishes` names two conditions, and the model shows they are needed.
When `fork` fails, `exec_redirect` returns `false`, which is 0, which `get_func`
takes for success; it then reads from a pipe whose writing end it holds itself and
waits for ever. And since nobody reads a pipe before the child has ended, a child
that prints more than a pipe holds (64 KiB on Linux) never ends. A call needs a few
dozen bytes, so the second condition is met in practice.

`CommandsRun` says of a system that grants no thread at all that main waits for ever;
`AllEnd` needs no condition: in `forker` also the processes that fail end.

## Findings

* **An address of one binary may be credited to a function of another**
  (`funcstat_stripped`). An entry is found by file and function alone and is given
  the new address, but its cache is searched by the binary the entry was created
  for. For `??` this happens as soon as two binaries have no symbols.
* **A data section that ends beyond 2 GiB is not read** (`perf_file_int`):
  `has_more_events` compares with an `int`.
* **When `addr2line` cannot be run, the overview of a copy is taken for its
  answer** (`addr2line_exec`): the child returns into the replay. `TablePerProcess`
  says what becomes of `processes.csv` then: a table for each of the processes, 2^n of them after n
  samples of different addresses. With addresses that come again there are fewer, since a
  process that has cached an answer does not call again, but more than n. `results.csv` has
  every sample once all the same, and none of the failures of the copies (`ResultsComplete`).
* **A failed system call is reported as an error of readperf** (`perf_file_errors`):
  errno is positive, as the codes of readperf are. EIO is "samples differ in type".

`forker` says it "Produces the desired number of forks" (`src/tools/forker.c:3`). The
invariant `SomebodyFails` states what it does instead: a process with one fork left
divides by zero, so each run has a process that was killed, unless the system had none
left for it, and `ForksAccount` counts the forks that are lost with it; with the argument 0 it makes as many as an
`unsigned int` counts.

`KilledHasLeft` says no more of `overflow` than that the thread main has asked to go has left its
loop when main runs its commands. It does not say that there is room for them: the thread reports
before it returns.

Three more disagreements of code and documentation were met by reading and are not
checked: an address in an application without `[vdso]` record, or in the maps of the
common process, is made relative to its region although
`decode/buildstat.c:23-24` promises the instruction pointer; a thread's fork
changes the fork time of its process; and the error printed for a record
may be that of an earlier one, or "no error", after a failure that sets none.

## Proofs

TLAPS proves, for every value of the constants that the named assumptions admit:

| theorem | states |
|---|---|
| `FuncStatProofs!TypeCorrect` | `TypeOK`: the ring index stays inside the ring |
| `FuncStatProofs!OneRowPerFunction` | `OneEntryPerSource` |
| `FuncStatProofs!CacheIsSound` | `LookupSound`, if `OneBinaryPerSource` |
| `FuncStatProofs!FuncStatImplementsTotals` | `ImplementsTotals`, call by call, if also `~MemoryFails` |
| `BuildStatProofs!ProcessesDoNotOverlap` | `LifetimesDisjoint` |
| `BuildStatProofs!AddressesDoNotWrap` | `AddressNoUnderflow` |
| `BuildStatProofs!UsesFuncStat` | every replay is a run of `FuncStat` |
| `BuildStatProofs!OneResultPerFunction` | `OneEntryPerSource`, for the whole replay |
| `BuildStatProofs!OneRowPerProcess` | `EveryProcessReportedOnce` |
| `BuildStatProofs!ReplayTypes` | `TypeOK`: regions stay in the word, rows have times of records |
| `BuildStatProofs!EverySampleInOneProcess` | `ProcessesAccount` |
| `BuildStatProofs!EverySampleInOneFunction` | `FunctionsAccount` |
| `BuildStatProofs!UsesPidSet` | the processes of every replay are a run of `PidSet` |
| `TreeProofs!RecordOrderTypes` | `TypeOK` |
| `TreeProofs!RecordPointers` | `NoWildPointer`, for any number of records and any times |
| `TreeProofs!RecordsSorted` | the walk has every record once, in order (`WalkIsSorted`, which `ImplementsSorted` implies) |
| `TreeProofs!RecordOrderSorts` | `ImplementsSorted` |
| `TreeProofs!RecordsBalanced` | `AlmostBalanced`, for any number of records and any times |
| `TreeProofs!ProcessTreeTypes` | `TypeOK` |
| `TreeProofs!ProcessPointers` | `NoWildPointer`, whatever was created and removed before |
| `TreeProofs!ProcessesFound` | `FindsMembers` |
| `TreeProofs!ProcessTreeServes` | `ImplementsPidCalls` |
| `TreeProofs!ProcessTreeIsPidSet` | the processes in the tree are a run of `PidSet` |
| `TreeProofs!ProcessesBalanced` | `AlmostBalanced`, whatever was created and removed before |
| `PerfFileProofs!PerfFileTypes` | `TypeOK`: the links never overrun their array |
| `PerfFileProofs!MainFindsAttribute` | `MainHasAttribute` |
| `PerfFileProofs!LinksOfFile` | `LinksKept`, however often the array of links grows |
| `PerfFileProofs!RecordsOfFile` | `EveryRecordRead`, if the data end where an `int` reaches (`Fits`) |
| `PerfFileProofs!FieldsOfFile` | `FieldsAreKernels`, for every sample type |
| `ReadPerfProofs!ProcessesWait` | `TypeOK`: all processes but the youngest wait |
| `ReadPerfProofs!CallsClosePipes` | `PipesClosed` |
| `ReadPerfProofs!AnswersAreOfTool` | `AnswersAreTools` |
| `ReadPerfProofs!EverySampleCounted` | `ResultsComplete`, for any number of samples and any size of the caches |
| `ReadPerfProofs!EveryRecordLogged` | `OverviewComplete`, for any size of the buffer |
| `ReadPerfProofs!TablesAreBounded` | `TablePerProcess`: n+1 to 2^n tables for any number n of samples, 2^n if no address comes twice |
| `ForkerProofs!ForkerTypes` | `TypeOK`: counts of forks stay in an unsigned int |
| `ForkerProofs!OrphansAreOfCrashes` | `OrphansOfCrashes` |
| `ForkerProofs!SomebodyAlwaysFails` | `SomebodyFails` |
| `ForkerProofs!ForksAreAccounted` | `ForksAccount` |
| `OverflowProofs!NumbersAreOwn` | `OwnNumber` |
| `OverflowProofs!ReportsAreTrue` | `KilledHasLeft` |

**Assumptions.** `FuncStatAssumption`: a cache has a place, the filler is no address
(no instruction is at 2^64-1), `addr2line` answers with a source. `BuildStatAssumption`:
pids and times are numbers, every pid is the tid of its main thread, regions are
64-bit values. `PerfFileAssumption`: a file has attributes, ids and records, errno is
positive, the array of links starts with a place, and the range of `int` is not empty.
`RecordsAssumption`: the data section is its records one after the other, and the kernel has
written the records for the sample type of the attributes, if they have one in common; where
they have not, nothing is assumed and `read_perf_file` refuses the file. TLC evaluates both on
the files of `perf_file`. `Addr2LineAssumption`: the tool and the
overview print words. `ReadPerfAssumption`: a buffer holds more than a
line, a cache has a place, the filler is no address. `ForkerAssumption`: arguments are words. `OverflowAssumption`: `MaxThreads` is a
number. `AvlTreeAssumption`: times and pids are numbers, and no node is the null pointer. The
theorems about `ProcessTree` assume that every pid is a node (`Keys \subseteq Nodes`), since
it names a process by its pid. `OneBinaryPerSource`, `~MemoryFails` and `Fits` are hypotheses of the theorems that need them;
`funcstat_stripped` and `perf_file_int` show what happens without the first and the last, and
without the second `add_entry` drops the whole list.

**Arguments.**

* *`LookupSound`* says what a search would answer, and the step that stores an
  address breaks it unless the address is one of the entry's binary. `CacheInv` adds
  that every cached address resolves to the entry's function in the entry's binary, and
  that this function occurs in that binary. An address is stored after a search by
  function, so `OneBinaryPerSource` puts it into the same binary.
* *`ImplementsTotals`*: a step replaces one entry, which is credited, or puts a new one
  in front. With at most one entry per function the first hit is the only one, so the
  total of its function changes by the sample and no other does. That this is the function of the
  sample's own address is `CacheTrue` when the address was found in a cache.
* *`LifetimesDisjoint`* relates rows to rows, while a step relates a row to a process
  that is alive. `LifeInv` adds that a fork time is not after the clock, an exit in a row
  not after the clock, and not after the fork time of a live process of its pid. A
  process created without a fork has fork time 0; that is possible at time 0 only,
  when all exits are at 0 too.
* *`AddressNoUnderflow`*: a region that is found holds the address, so its start is not
  above it, and the remainder of the sum is the difference.
* *`OwnNumber`* depends on the handshake: a thread that has not reported is the one
  main waits for (`NewIsLast`), so `count` is its number when it reads it. *`KilledHasLeft`*
  adds which threads `killid` has reached at each place of main (`KillIds`), and that a 2 in the flag while main
  waits for it is of the first thread (`ReportIsTrue`): all reports of a start have been taken by then.
* *`MainHasAttribute`*: without attributes the sampling type stays empty, and the test of
  `read_perf_file` asks for three flags.
* *`EveryProcessReportedOnce`* compares a counter with a cardinality. A row added to
  `processes.csv` adds one index to those of its pid and none to those of another;
  in the final print the order of the tree is injective, so each live pid gets one.
* *`PerfFile` `TypeOK`*: after growth the array of links is longer than `linkcount`, since it
  is doubled from `LinkStart`, which is not zero (`LinksRoom`); the invariant adds
  the types of links, records and counters.
* *`AnswersAreTools`*: the invariant adds what is in the pipe: nothing, or what the tool prints for
  the address of this call (`Honest`), and that there is no copy while the tool can be
  run. *`PipesClosed`* needs the descriptors and the number of answers at every place
  of `get_func`, in the waiting processes as well (`InCall`).
* *`OrphansOfCrashes`*: a live process is the one its parent has yet to wait for, unless the parent
  has crashed (`Awaited`), and a process that has ended otherwise has waited (`Waited`).
  *`SomebodyFails`*: somebody has come to a bad end or still has a fork to make
  (`SomebodyHasForks`): a division leaves the child at least one.

* *Sums* (`SumLemmas`): the community modules add in an order `CHOOSE` picks, by a recursive
  function. A theorem of induction takes an operator, which the provers cannot instantiate;
  `Smallest` argues by a smallest counterexample instead, a set none of whose proper subsets is
  one, which a theorem on well-founded relations without such a parameter gives. `SumTakes`
  then says that any term may be taken first, and the others what a sum does when a term
  comes, goes, changes or moves to another place.
* *`ProcessesAccount`, `FunctionsAccount`*: a record changes the total of one process, one row, one
  entry or one failure by its period (`SumChanges`), brings one with a total of zero, or moves
  one from the tree to the rows, which the sum of a concatenation covers (`SumConcat`). The
  final print moves all of them; the walk of the tree is a bijection, so the sum stays.
* *`ForksAccount`*: a fork takes one from the share of the parent and divides the rest; since
  the parent keeps a remainder and the child gets what is left, the two shares
  and the new process are what the parent had, except where the division is by zero. The strengthened
  invariant says what is left to a process at each place, also to one that has ended.
* *`OverviewComplete`, `TablePerProcess`, `ResultsComplete`* are about the end, while the lines are spread
  over the file and the buffers of all copies. `OutputInv` says where they are at any
  time. `Overviewed`: until the first copy has ended, what is in the file and what the youngest
  process would write now (`Seen`) are all lines so far, since a copy goes on where its parent stopped; from
  then on the file has the lines in order, and appending to a file keeps the first of each line
  where it is (`OrderKept`). `Buffered`: the buffer of every process has the header of its
  table. `Counting`: every process has counted each of its samples once, in an entry or as a failure,
  and its caches have no address but those of its samples; a copy has its parent's list and the failure it
  is born with in place of the answer the parent waits for.
  `Tabled`: the tables in the file and those each process and its future copies may write at most
  (`Most`, 2 to the power of the samples it has left) are never more than 2^n, and they are 2^n
  until a sample is cached, which takes an address that has come before. A new copy leaves both
  sides of the fork one sample less, and 2^n + 2^n is 2^(n + 1) (`PowerIs`). The lower bound counts what is
  sure to come (`Least`): a table for each process, and as long as the youngest has nothing cached one
  more for each sample it has left. A copy of a process with an empty list has an empty list.
* *`LinksKept`*: `LinkInv` says how many links there are at each point of the loops: those of the
  attributes before, and `k` more. An id takes the place behind them (`AddLinkKeeps`), and
  as the sums of the numbers of ids grow with the attribute, no two ids have the same place.
* *`EveryRecordRead`*: `RecordInv` says that the reader stands where the next record starts, or one word
  behind it, with the tree and the counts those of the records before. Since a record has
  a header the starts ascend strictly, so the header found at a position is that of one record
  (`HeaderIs`), and the loop ends behind the last one: an offset taken as an `int` is never more
  than it is, so no record is read behind the end, and with `Fits` it is not less.
* *`FieldsAreKernels`*: the words a test of the parser has passed are in bijection with the fields
  before it (`TakenIs`), an id is written in the reverse of the order it is read in
  (`KernelReverse`), and the type by which a record in the tree was decoded is that of all
  attributes (`SampledInv`), for which the kernel wrote it.
* *The trees*: while a function runs, the links in memory are not those of a search tree: every caller
  on the stack has a link that is stale until its call returns, and a subtree that is moved hangs
  nowhere. `TreeInv` therefore speaks of the tree as it is when all results have been stored: there
  are links `v`, which differ from those in memory where a caller waits (`View`), and sets `U` of the nodes
  below each node, with which the members are a search tree (`Shape`): each node's set is itself
  and the sets of its links, smaller ones on the left, and no node has two parents. What is
  still carried to its place belongs to the sets of the callers that wait, and it fits to the side they
  have sent it to (`Carrying`). Rotations change `v` but neither the order nor the set of
  the whole (`RotateShape`), a removal puts all of the right subtree behind all of the left one
  (`RemoveShape`), and no step needs to know the heights, but for one thing: a side that is
  too high is not empty (`HigherChild`), so the node a rotation puts on top exists.
* *`AlmostBalanced`* speaks of the time between the calls; during one, the heights near the path are
  wrong. `HeightInv` therefore speaks of settled nodes only, with which no caller waits and which are not being
  balanced or rotated: the heights of the children of such a node differ by at most one, and its
  own is one more than the higher of them, or it is a leaf with height zero (`Level`). Every action that
  changes a link leaves the node unsettled (`LinkChanges`), and a node settles only when `TREE_BALANCE`
  has stored its height (`BalancedHeights`). Nobody else sees that height change, since the only parent of
  the node that runs is the caller that waits for it (`NotParent`). When nothing runs, all members are
  settled. What that says about depths takes an induction on the tree, which is again an
  argument by a smallest counterexample (`TreeInduction`); with it the subtrees have depths
  (`SubtreeDepths`), so the recursive function `Depth` is what its equation says (`DepthIs`), and a leaf of
  height zero makes the depth at most one more than the height (`LevelDepths`).
* *`WalkIsSorted`*: the nodes left are those below `self` and, for each caller from the top of the stack to its
  bottom, the caller and what is to its right; each of these groups comes before the next one,
  and all visited ones before all of them (`Walking`). *`ImplementsSorted`* and *`ImplementsPidCalls`*: the
  node visited next is thus the least of those left (`VisitsLeast`), and the walk ends when there
  are none (`EndsEmpty`). *`FindsMembers`*: a node with the key is below the place the
  search has come to (`Searching`); a pid is created after a search has not found it, so
  none is in the tree twice (`CreatesNew`), and the removal of one that was found takes this one out
  (`RemovesWanted`).

**Model-checked only.** Liveness (`Decides`, `Finishes`, `AllEnd`, `CommandsRun`, `CallsReturn`), which the
prover does not reach under fairness. Every invariant a passing run checks is also a theorem.

## What is not modelled

* The text of the output files, of the overview and of the information beside an error.
* Callers that do not exist: `get_entry`, the reverse walk of the tree.
* `pipe`, `fdopen`, `fopen` and `close` that fail. After a failed `pipe`, `get_func` closes
  descriptors it has not set, which may be any of the process; a model would
  have to let any file of it be closed. A `malloc` that fails in a create function of
  `perffile.c` ends the process by a signal. Names fit into the 1024 bytes of `get_func`.
* Records whose size is less than their header, which `perf` does not write: with a size
  of zero the loop of `readEvents` would stay where it is.
* What a copy of `readperf` prints beyond the first words, and complaints of copies that
  fill a pipe.
* In `ReadPerf`, records other than samples, processes that exit before the end, periods other
  than 1 and a `malloc` that fails; `BuildStat` has them for a single process.
* `src/tools/test.c`, `readtsc.c`, the vendored `cycle.h`, and the documents in `src/report` and
  `src/presentation *`.

## Plan

The order followed the importance of the behaviour: the statistics and the replay
first, then the trees they rest on, then the file, the tool and the decoder, then `main`
and the tools beside it. What is left:

1. A weaker specification of `FuncStat` in which the answers of `addr2line` are those
   `Addr2Line` allows, so that the replay of a copy is a run of `BuildStat`, too.
2. `BuildStat` with the records `PerfFile` yields: so far the two meet at a sequence of
   records in the order of time.
3. A bound on how often `TREE_BALANCE` is called again after a removal. `AlmostBalanced` holds
   whenever a call has returned, and that calls return is checked on the instance only.

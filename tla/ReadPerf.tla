------------------------------- MODULE ReadPerf -------------------------------
(***************************************************************************)
(* readperf.c, the second half of main: the replay with its calls of       *)
(* addr2line, and the files it writes.  overview.csv and processes.csv are *)
(* open, with lines in their buffers, while get_func forks; a copy has the *)
(* buffers of its parent and shares the files and the places in them.      *)
(*                                                                         *)
(* Every record is a sample, with a period of 1, and every process lives   *)
(* to the end of the recording: processes.csv is a header and the rows at  *)
(* the end.  Memory suffices.                                              *)
(***************************************************************************)
EXTENDS Addr2Line, FuncEntry, FiniteSets, Functions

CONSTANT BufferLines  \* lines a stream buffers before it writes them

ASSUME ReadPerfAssumption ==
  /\ BufferLines \in Nat \ {0, 1}
  /\ CacheSize \in Nat \ {0}
  /\ \A a \in Addresses : a[1] # NoAddr

VARIABLES
  files,    \* the lines in overview.csv and processes.csv
  buffers,  \* for each of procs, the lines it has yet to write to them
  stats,    \* for each of procs, its functions and the tally of failures
  results,  \* the rows of results.csv
  done      \* main of readperf itself has returned

\* A line of a sample is its number.
Header == 0
Row == -1

output == <<files, buffers, stats, results, done>>

\* The function of the sample in hand is searched for in the list of the
\* running process.
own == Last(stats)
cached == find_entry_addr(own.head, asked[1], asked[2])

\* Both initialisers print a header.
ReadPerfInit ==
  /\ Init
  /\ files = [overview |-> << >>, processes |-> << >>]
  /\ buffers = <<[overview |-> <<Header>>, processes |-> <<Header>>]>>
  /\ stats = <<[head |-> << >>, error |-> [samples |-> 0, period |-> 0]]>>
  /\ results = << >>
  /\ done = FALSE

\* decodeSample logs its record before it resolves the address.
Log(line) ==
  LET lines == Append(Last(buffers).overview, line)
      full == Len(lines) >= BufferLines
  IN  /\ files' = [files EXCEPT !.overview = IF full THEN @ \o lines ELSE @]
      /\ buffers' = [buffers EXCEPT ![Len(buffers)].overview = IF full THEN << >> ELSE lines]

Enter(head) == stats' = [stats EXCEPT ![Len(stats)].head = head]

\* What func_error returns is credited.
Blamed == [own EXCEPT !.error = credit(@, 1)]

\* get_func is called only for a function force_entry does not find.
Sample ==
  /\ OpenPipes
  /\ cached = {}
  /\ Log(Len(me.answers) + 1)
  /\ UNCHANGED <<stats, results, done>>

SampleCached ==
  /\ Skip
  /\ cached # {}
  /\ Log(Len(me.answers) + 1)
  /\ Enter(credit_cached(own.head, asked[1], asked[2], 1))
  /\ UNCHANGED <<results, done>>

\* get_func fails in the copy.
Copy ==
  /\ ExecFails
  /\ buffers' = Append(buffers, Last(buffers))
  /\ stats' = Append(stats, Blamed)
  /\ UNCHANGED <<files, results, done>>

Resolve == (Fork \/ ForkFails \/ RunTool) /\ UNCHANGED output

Unresolved ==
  /\ StatusFails
  /\ stats' = [stats EXCEPT ![Len(stats)] = Blamed]
  /\ UNCHANGED <<files, buffers, results, done>>

Resolved ==
  /\ ReadAnswer
  /\ \/ /\ find_entry_name(own.head, answer) # {}
        /\ Enter(credit_known(own.head, asked[1], answer, 1))
     \/ /\ find_entry_name(own.head, answer) = {}
        /\ Enter(credit_new(own.head, asked[1], asked[2], answer, 1))
  /\ UNCHANGED <<files, buffers, results, done>>

rows == <<own.error>> \o own.head

\* results.csv keeps what the copies have written.
FuncLog_Appended == results' = results \o rows

\* results.csv is opened with "w+".
FuncLog == results' = rows

\* Each process writes from the start of the files.
Closed_Truncated ==
  files' = [overview |-> Last(buffers).overview,
            processes |-> Append(Last(buffers).processes, Row)]

\* print_processes, and fclose of both files.
Closed ==
  files' = [overview |-> files.overview \o Last(buffers).overview,
            processes |-> files.processes \o Append(Last(buffers).processes, Row)]

CopyReports ==
  /\ CopyEnds
  /\ Closed /\ FuncLog
  /\ buffers' = Front(buffers) /\ stats' = Front(stats)
  /\ UNCHANGED done

Report ==
  /\ ~done
  /\ Len(procs) = 1
  /\ me.pc = "replay" /\ Len(me.answers) = Len(calls)
  /\ Closed /\ FuncLog /\ buffers' = << >>
  /\ done' = TRUE
  /\ UNCHANGED <<vars, stats>>

ReadPerfNext ==
  \/ Sample \/ SampleCached \/ Copy \/ Resolve \/ Unresolved \/ Resolved
  \/ CopyReports \/ Report

allVars == <<vars, output>>

ReadPerfSpec == ReadPerfInit /\ [][ReadPerfNext]_allVars

\* The running process takes a step whenever it can: it is one thread, and
\* addr2line ends once its output is taken.
FairSpec == ReadPerfSpec /\ WF_allVars(ReadPerfNext)

-----------------------------------------------------------------------------
(* Properties.                                                             *)

Lines == <<Header>> \o [n \in DOMAIN calls |-> n]

Count(line, file) == Cardinality({n \in DOMAIN file : file[n] = line})

\* Before the first of each of the lines there is no later one.
InOrder(file) ==
  \A n \in DOMAIN Lines : \E j \in DOMAIN file :
    /\ file[j] = Lines[n]
    /\ \A i \in 1 .. j - 1 : \E m \in 1 .. n - 1 : file[i] = Lines[m]

(***************************************************************************)
(* While addr2line can be run, overview.csv has every record once and in   *)
(* order: neither the flushes before a fork nor those after it leave out   *)
(* or repeat a line.  Without addr2line no record gets lost, and the first *)
(* of each come in order, whatever copies repeat.                          *)
(***************************************************************************)
OverviewComplete ==
  done =>
    /\ canExec => files.overview = Lines
    /\ InOrder(files.overview)

\* No two samples have an address in common.
Distinct == \A m, n \in DOMAIN calls : calls[m][1] = calls[n][1] => m = n

(***************************************************************************)
(* processes.csv is the table of one process.  Without addr2line it has    *)
(* that of every copy, with the header that was in its buffer, and copies  *)
(* go on to make copies: two to the power of the samples if no address     *)
(* comes twice.  A process makes no copy for an address it has cached; but *)
(* the copy of the first sample has nothing cached, nor has the copy it    *)
(* makes of the second, and so on: each sample makes one at least.         *)
(***************************************************************************)
TablePerProcess ==
  done /\ canFork =>
    LET tables == Count(Header, files.processes)
    IN  /\ Count(Row, files.processes) = tables
        /\ canExec => tables = 1
        /\ ~canExec => Len(calls) + 1 <= tables /\ tables <= 2 ^ Len(calls)
        /\ ~canExec /\ Distinct => tables = 2 ^ Len(calls)

(***************************************************************************)
(* results.csv has every sample once, however many copies have counted it  *)
(* and written theirs; and a copy is born with a failure, but when no call *)
(* of readperf itself fails, none is in the table.                         *)
(***************************************************************************)
ResultsComplete ==
  done =>
    /\ SumFunction([n \in DOMAIN results |-> results[n].samples]) = Len(calls)
    /\ ~canExec /\ canFork => results[1].samples = 0

(***************************************************************************)
(* main returns, if fork succeeds and what addr2line prints fits into the  *)
(* pipes nobody reads while it runs.                                       *)
(***************************************************************************)
Finishes == canFork /\ (canExec => Fits) => <>done
=============================================================================

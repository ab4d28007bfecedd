------------------------------ MODULE FuncStat ------------------------------
(***************************************************************************)
(* decode/funcstat.c: the list of source functions with their samples and  *)
(* periods, and the small cache of addresses each entry carries so that    *)
(* addr2line need not be started for every sample.                         *)
(*                                                                         *)
(* The only caller is decodeSample, which adds the sample to the entry     *)
(* that force_entry returns; one action below is one such call together    *)
(* with the two additions.  A source function is the pair (source_file,    *)
(* source_func): the code always sets and compares the two together.       *)
(***************************************************************************)
EXTENDS FuncEntry

CONSTANTS
  Addrs,      \* addresses a sample can be resolved for
  BinNames,   \* file names of binaries
  Sources,    \* source functions
  Addr2Line,  \* external tool: the source function of <<address, binary>>
  Periods,    \* periods a sample record can carry
  MemoryFails \* whether malloc may fail

(***************************************************************************)
(* No instruction is sampled at address 2^64-1, so the filler of unused    *)
(* slots is no address of a sample.                                        *)
(***************************************************************************)
ASSUME FuncStatAssumption ==
  /\ CacheSize \in Nat \ {0}
  /\ Addr2Line \in [Addrs \X BinNames -> Sources]
  /\ NoAddr \notin Addrs
  /\ Periods \subseteq Nat
  /\ MemoryFails \in BOOLEAN

VARIABLES
  head,   \* the list of entries, newest first
  error   \* the entry for samples without a name

vars == <<head, error>>

Tally == [samples : Nat, period : Nat]

Entry ==
  [addr     : [Slots -> Addrs \cup {NoAddr}],
   addhead  : Slots,
   bin_name : BinNames,
   source   : Sources,
   samples  : Nat,
   period   : Nat]

-----------------------------------------------------------------------------
(* The searches of force_entry in the list.                                *)

AddrHits(addr, bin_name) == find_entry_addr(head, addr, bin_name)

NameHits(source) == find_entry_name(head, source)

-----------------------------------------------------------------------------
(* The ways a sample is added.                                             *)

\* An entry of this binary has the address in its cache: addr2line is not run.
CountCached(addr, bin_name, period) ==
  /\ AddrHits(addr, bin_name) # {}
  /\ head' = credit_cached(head, addr, bin_name, period)
  /\ UNCHANGED error

\* get_func succeeded and the function has an entry, which learns the address.
CountKnown(addr, bin_name, period) ==
  /\ AddrHits(addr, bin_name) = {}
  /\ NameHits(Addr2Line[<<addr, bin_name>>]) # {}
  /\ head' = credit_known(head, addr, Addr2Line[<<addr, bin_name>>], period)
  /\ UNCHANGED error

\* get_func succeeded and the function is new: a first entry for it.
CountNew(addr, bin_name, period) ==
  /\ AddrHits(addr, bin_name) = {}
  /\ NameHits(Addr2Line[<<addr, bin_name>>]) = {}
  /\ head' = credit_new(head, addr, bin_name, Addr2Line[<<addr, bin_name>>], period)
  /\ UNCHANGED error

\* get_func failed (addr2line could not be run or exited with an error):
\* force_entry returns NULL and func_error() takes the sample.
CountError(addr, bin_name, period) ==
  /\ AddrHits(addr, bin_name) = {}
  /\ error' = credit(error, period)
  /\ UNCHANGED head

\* add_entry assigns the result of malloc to head before it looks at it: when
\* no memory is left the whole list is gone, and func_error() takes the sample.
CountNoMemory(addr, bin_name, period) ==
  /\ MemoryFails
  /\ AddrHits(addr, bin_name) = {}
  /\ NameHits(Addr2Line[<<addr, bin_name>>]) = {}
  /\ head' = << >>
  /\ error' = credit(error, period)

CountSample(addr, bin_name, period) ==
  \/ CountCached(addr, bin_name, period)
  \/ CountKnown(addr, bin_name, period)
  \/ CountNew(addr, bin_name, period)
  \/ CountError(addr, bin_name, period)
  \/ CountNoMemory(addr, bin_name, period)

Init ==
  /\ head = << >>
  /\ error = [samples |-> 0, period |-> 0]

Next ==
  \E addr \in Addrs, bin_name \in BinNames, period \in Periods :
    CountSample(addr, bin_name, period)

Spec == Init /\ [][Next]_vars

-----------------------------------------------------------------------------
(* Properties.                                                             *)

(***************************************************************************)
(* Types: the cache index stays inside the array (funcstat.c overwrites    *)
(* entry->addr[entry->addhead] without a check of its own).                *)
(***************************************************************************)
TypeOK ==
  /\ head \in Seq(Entry)
  /\ error \in Tally

(***************************************************************************)
(* results.csv has one row per source function: force_entry never creates  *)
(* a second entry for a (file, function) pair that is already listed, even *)
(* when the pair was first met in another binary or has dropped out of the *)
(* entry's address cache.                                                  *)
(***************************************************************************)
OneEntryPerSource ==
  \A i, j \in DOMAIN head : head[i].source = head[j].source => i = j

(***************************************************************************)
(* A cache hit gives the answer addr2line would give: whatever entry       *)
(* find_entry_addr stops at, for any address and binary, is the entry of   *)
(* the function that contains the address.                                 *)
(***************************************************************************)
LookupSound ==
  \A addr \in Addrs, bin_name \in BinNames :
    LET hits == AddrHits(addr, bin_name) IN
    hits # {} => head[First(hits)].source = Addr2Line[<<addr, bin_name>>]

(***************************************************************************)
(* The condition under which the lookup is sound: no (file, function) pair *)
(* occurs in two binaries.  The pair that addr2line prints for an          *)
(* unresolved address, ("??", "??"), breaks it as soon as two binaries     *)
(* lack symbols.                                                           *)
(***************************************************************************)
OneBinaryPerSource ==
  \A x, y \in Addrs \X BinNames : Addr2Line[x] = Addr2Line[y] => x[2] = y[2]

=============================================================================

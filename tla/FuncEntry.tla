----------------------------- MODULE FuncEntry -----------------------------
(***************************************************************************)
(* decode/funcstat.c: one entry of the list of source functions with the   *)
(* small cache of addresses it carries, and the searches in a list.        *)
(***************************************************************************)
EXTENDS Naturals, Sequences

CONSTANTS
  NoAddr,     \* (u64)-1, the filler of unused cache slots
  CacheSize   \* length of func_dir.addr, 8 in the code

Slots == 0 .. CacheSize - 1

\* What add_entry allocates and force_entry fills in.  addhead stays zero, so
\* the next address of the function replaces the first one.
new_entry(addr, bin_name, source) ==
  [addr     |-> [idx \in Slots |-> IF idx = 0 THEN addr ELSE NoAddr],
   addhead  |-> 0,
   bin_name |-> bin_name,
   source   |-> source,
   samples  |-> 0,
   period   |-> 0]

\* A credit that counts the sample but not its period.
credit_NoPeriod(e, period) == [e EXCEPT !.samples = @ + 1]

\* entry->samples++; entry->period += period
credit(e, period) == [e EXCEPT !.samples = @ + 1, !.period = @ + period]

\* A ring index that is advanced and never wrapped.
remember_NoWrap(e, addr) ==
  [e EXCEPT !.addr = [@ EXCEPT ![e.addhead] = addr], !.addhead = @ + 1]

\* The address of a further instruction of the function replaces the slot
\* under addhead.
remember(e, addr) ==
  [e EXCEPT !.addr = [@ EXCEPT ![e.addhead] = addr],
            !.addhead = (@ + 1) % CacheSize]

-----------------------------------------------------------------------------
(* Both searches walk a list from its head and stop at the first match.    *)

First(S) == CHOOSE i \in S : \A j \in S : i <= j

has_addr(e, addr) == \E idx \in Slots : e.addr[idx] = addr

\* A lookup that forgets which binary the address belongs to.
find_entry_addr_AnyBinary(list, addr, bin_name) ==
  {i \in DOMAIN list : has_addr(list[i], addr)}

\* The entries find_entry_addr can stop at.
find_entry_addr(list, addr, bin_name) ==
  {i \in DOMAIN list : /\ has_addr(list[i], addr)
                       /\ list[i].bin_name = bin_name}

\* A search by name that misses the newest entry.
find_entry_name_SkipHead(list, source) ==
  {i \in DOMAIN list : i > 1 /\ list[i].source = source}

\* The entries find_entry_name can stop at.
find_entry_name(list, source) == {i \in DOMAIN list : list[i].source = source}

-----------------------------------------------------------------------------
(* force_entry and the addition of the sample to the entry it returns, for *)
(* the three ways in which it finds or makes one.                          *)

\* An entry of this binary has the address in its cache.
credit_cached(list, addr, bin_name, period) ==
  [list EXCEPT ![First(find_entry_addr(list, addr, bin_name))] = credit(@, period)]

\* The function has an entry, which learns the address.
credit_known(list, addr, source, period) ==
  [list EXCEPT ![First(find_entry_name(list, source))] = credit(remember(@, addr), period)]

\* The function is new: a first entry for it.
credit_new(list, addr, bin_name, source, period) ==
  <<credit(new_entry(addr, bin_name, source), period)>> \o list
=============================================================================

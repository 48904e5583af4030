----------------------------- MODULE AddressPool -----------------------------
(***************************************************************************)
(* lnst/Common/NetUtils.py, class AddressPool with MacPool and IpPool.     *)
(*                                                                         *)
(* A pool hands out the addresses of a range one by one.  An address is a  *)
(* list of bytes, most significant first; lists are compared the way       *)
(* Python compares them, lexicographically.  The text form of an address   *)
(* is a bijection on byte lists of the right length, so an address is its  *)
(* byte list here.                                                         *)
(***************************************************************************)
EXTENDS Integers, Sequences

CONSTANTS Base,      \* number of values of a byte (256 in the code)
          Width,     \* number of bytes of an address (6 for a MAC, 4 for IPv4)
          Ranges     \* the <<start, end>> pairs a pool may be created with

Addr == [1..Width -> 0..Base - 1]

ASSUME SizeAssumption  == Base \in Nat \ {0} /\ Width \in Nat \ {0}
ASSUME RangeAssumption == Ranges \subseteq Addr \X Addr

\* Python's < on two lists of the same length.
Less(a, b) ==
  \E i \in 1..Width : a[i] < b[i] /\ \A j \in 1..i - 1 : a[j] = b[j]

MaxAddr == [i \in 1..Width |-> Base - 1]

\* The bytes after position p are at their maximum and the one at p is not:
\* p is where the carry of an increment stops.
CarryStops(a, p) ==
  a[p] # Base - 1 /\ \A j \in p + 1..Width : a[j] = Base - 1

\* Mutant: the carry is lost, only the last byte is incremented.
IncNoCarry(a) ==
  [i \in 1..Width |-> IF i = Width THEN (a[i] + 1) % Base ELSE a[i]]

(***************************************************************************)
(* _inc_byte_string: add one to the last byte; a byte that overflows is    *)
(* removed, the shorter list is incremented and a 0 is appended.  An       *)
(* overflow of the first byte is dropped (the empty list is left alone),   *)
(* so the maximal address becomes the all-zero one.                        *)
(***************************************************************************)
_inc_byte_string(a) ==
  [i \in 1..Width |->
     IF CarryStops(a, i) THEN a[i] + 1
     ELSE IF \E p \in i + 1..Width : CarryStops(a, p) THEN a[i]
     ELSE 0]

-----------------------------------------------------------------------------
VARIABLES start,     \* the first address of the range (history)
          next,      \* self._next
          final,     \* self._final
          issued,    \* the addresses handed out, in order (history)
          failed     \* get_addr raised "Pool exhausted"

vars == <<start, next, final, issued, failed>>

Issued == {issued[i] : i \in 1..Len(issued)}

TypeOK ==
  /\ start \in Addr /\ next \in Addr /\ final \in Addr
  /\ issued \in Seq(Addr)
  /\ failed \in BOOLEAN

\* __init__
Init ==
  /\ \E r \in Ranges : start = r[1] /\ next = r[1] /\ final = r[2]
  /\ issued = <<>>
  /\ failed = FALSE

\* Mutant: the last address of the range is never handed out.
ExhaustedEarly == ~ Less(next, final)

\* the test at the top of get_addr
Exhausted == Less(final, next)

\* get_addr on a pool that has an address left.
get_addr ==
  /\ ~ Exhausted
  /\ issued' = Append(issued, next)
  /\ next' = _inc_byte_string(next)
  /\ UNCHANGED <<start, final, failed>>

\* Mutant: an exhausted pool returns nothing instead of raising.
NothingLeft == Exhausted /\ UNCHANGED vars

\* get_addr on an exhausted pool: the exception leaves the pool as it is.
get_addr_raise ==
  /\ Exhausted
  /\ failed' = TRUE
  /\ UNCHANGED <<start, next, final, issued>>

Next == get_addr \/ get_addr_raise

Spec == Init /\ [][Next]_vars /\ WF_vars(Next)

-----------------------------------------------------------------------------
(***************************************************************************)
(* get_addr never hands out the same address twice: two devices created    *)
(* from one controller's mac_pool_range never share a MAC address.         *)
(***************************************************************************)
NoDuplicates ==
  \A i, j \in 1..Len(issued) : issued[i] = issued[j] => i = j

(***************************************************************************)
(* The exception of get_addr means what it says: once it was raised,       *)
(* exactly the addresses from the first to the last one of the range, both *)
(* included, have been handed out.                                         *)
(***************************************************************************)
ExhaustedMeansAllIssued ==
  failed => Issued = {a \in Addr : ~ Less(a, start) /\ ~ Less(final, a)}

(***************************************************************************)
(* A caller that keeps calling get_addr is eventually told that the pool   *)
(* is exhausted: it is never handed addresses for ever.                    *)
(***************************************************************************)
EventuallyExhausted == <>failed
=============================================================================

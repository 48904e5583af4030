------------------------- MODULE AddressPool_proofs -------------------------
(***************************************************************************)
(* For every byte size, address length and set of ranges: a pool whose     *)
(* last address is not the largest address of all hands out strictly       *)
(* increasing addresses, hence never the same one twice.  For every range: *)
(* once get_addr raises, all addresses of the range were handed out.       *)
(***************************************************************************)
EXTENDS AddressPool, FiniteSetTheorems, TLAPS

(***************************************************************************)
(* Every non-empty set of naturals has a least element: of the intervals   *)
(* 0..n for n in the set, take one that is minimal under inclusion.        *)
(***************************************************************************)
LEMMA LeastNat ==
  ASSUME NEW T \in SUBSET Nat, T # {}
  PROVE  \E x \in T : \A y \in T : x <= y
<1> DEFINE F == {0..n : n \in T}
<1>1. F \subseteq FiniteSubsetsOf(Nat)
  <2>1. \A n \in Nat : IsFiniteSet(0..n) /\ 0..n \in SUBSET Nat
    BY FS_Interval
  <2> QED
    BY <2>1 DEF FiniteSubsetsOf
<1>2. F # {}
  OBVIOUS
<1>3. PICK I \in F : \A J \in F : <<J, I>> \notin StrictSubsetOrdering(Nat)
  <2>1. IsWellFoundedOn(StrictSubsetOrdering(Nat), FiniteSubsetsOf(Nat))
    BY FS_StrictSubsetOrderingWellFounded
  <2> HIDE DEF F
  <2> QED
    BY <1>1, <1>2, <2>1, WFMin
<1>4. PICK x \in T : I = 0..x
  OBVIOUS
<1>5. ASSUME NEW y \in T, y < x PROVE FALSE
  <2>1. 0..y \in F /\ 0..y \subseteq I /\ x \in I /\ x \notin 0..y
    BY <1>4, <1>5
  <2>2. I \in SUBSET Nat /\ 0..y \in SUBSET Nat
    BY <1>4
  <2> QED
    BY <1>3, <2>1, <2>2 DEF StrictSubsetOrdering
<1> QED
  BY <1>5

(***************************************************************************)
(* ... and every non-empty set of byte positions has a greatest one.       *)
(***************************************************************************)
LEMMA GreatestPos ==
  ASSUME NEW T \in SUBSET (1..Width), T # {}
  PROVE  \E x \in T : \A y \in T : y <= x
<1> DEFINE U == {Width - n : n \in T}
<1>1. U \in SUBSET Nat /\ U # {}
  <2>1. \A n \in T : Width - n \in Nat
    BY SizeAssumption
  <2> QED  BY <2>1
<1>2. PICK u \in U : \A v \in U : u <= v
  <2> HIDE DEF U
  <2> QED  BY <1>1, LeastNat
<1>3. PICK x \in T : u = Width - x
  OBVIOUS
<1>4. ASSUME NEW y \in T PROVE y <= x
  <2>1. Width - y \in U
    OBVIOUS
  <2> QED  BY <1>2, <1>3, <2>1, SizeAssumption
<1> QED
  BY <1>4

(***************************************************************************)
(* The comparison of byte lists is a strict order.                         *)
(***************************************************************************)
LEMMA LessIrreflexive ==
  ASSUME NEW a \in Addr
  PROVE  ~ Less(a, a)
BY SizeAssumption DEF Less, Addr

LEMMA LessTransitive ==
  ASSUME NEW a \in Addr, NEW b \in Addr, NEW c \in Addr, Less(a, b), Less(b, c)
  PROVE  Less(a, c)
<1>1. PICK i \in 1..Width : a[i] < b[i] /\ \A j \in 1..i - 1 : a[j] = b[j]
  BY DEF Less
<1>2. PICK k \in 1..Width : b[k] < c[k] /\ \A j \in 1..k - 1 : b[j] = c[j]
  BY DEF Less
<1>3. \A n \in 1..Width : a[n] \in Int /\ b[n] \in Int /\ c[n] \in Int
  BY SizeAssumption DEF Addr
<1>4. CASE i <= k
  <2>1. a[i] < c[i]
    <3>1. CASE i = k  BY <1>1, <1>2, <1>3, <3>1
    <3>2. CASE i < k  BY <1>1, <1>2, <1>3, <3>2, SizeAssumption
    <3> QED  BY <1>4, <3>1, <3>2, SizeAssumption
  <2>2. \A j \in 1..i - 1 : a[j] = c[j]
    BY <1>1, <1>2, <1>4, SizeAssumption
  <2> QED  BY <2>1, <2>2 DEF Less
<1>5. CASE k < i
  <2>1. a[k] < c[k]
    BY <1>1, <1>2, <1>3, <1>5, SizeAssumption
  <2>2. \A j \in 1..k - 1 : a[j] = c[j]
    BY <1>1, <1>2, <1>5, SizeAssumption
  <2> QED  BY <2>1, <2>2 DEF Less
<1> QED
  BY <1>4, <1>5, SizeAssumption

(***************************************************************************)
(* An address that is not the largest one is less than it.                 *)
(***************************************************************************)
LEMMA LessMax ==
  ASSUME NEW a \in Addr, a # MaxAddr
  PROVE  Less(a, MaxAddr)
<1> DEFINE T == {n \in 1..Width : a[n] # Base - 1}
<1>1. T # {}
  BY SizeAssumption DEF Addr, MaxAddr
<1>2. PICK i \in T : \A n \in T : i <= n
  <2>1. T \in SUBSET Nat  BY SizeAssumption
  <2> HIDE DEF T
  <2> QED  BY <1>1, <2>1, LeastNat
<1>3. a[i] < MaxAddr[i] /\ \A j \in 1..i - 1 : a[j] = MaxAddr[j]
  BY <1>2, SizeAssumption DEF Addr, MaxAddr
<1> QED
  BY <1>3 DEF Less

(***************************************************************************)
(* _inc_byte_string returns a larger address, unless the address is the    *)
(* largest one.                                                            *)
(***************************************************************************)
LEMMA IncType ==
  ASSUME NEW a \in Addr
  PROVE  _inc_byte_string(a) \in Addr
<1>1. ASSUME NEW i \in 1..Width PROVE _inc_byte_string(a)[i] \in 0..Base - 1
  BY SizeAssumption DEF Addr, _inc_byte_string, CarryStops
<1> QED
  BY <1>1 DEF Addr, _inc_byte_string

LEMMA IncBytes ==
  ASSUME NEW a \in Addr, a # MaxAddr
  PROVE  \E p \in 1..Width :
           /\ CarryStops(a, p) /\ _inc_byte_string(a)[p] = a[p] + 1
           /\ \A j \in 1..p - 1 : _inc_byte_string(a)[j] = a[j]
           /\ \A j \in p + 1..Width : _inc_byte_string(a)[j] = 0
<1> DEFINE T == {n \in 1..Width : a[n] # Base - 1}
           b == _inc_byte_string(a)
<1>1. T # {}
  BY SizeAssumption DEF Addr, MaxAddr
<1>2. PICK p \in T : \A n \in T : n <= p
  <2> HIDE DEF T
  <2>1. T \in SUBSET (1..Width)  BY DEF T
  <2> QED  BY <1>1, <2>1, GreatestPos
<1>3. CarryStops(a, p)
  BY <1>2, SizeAssumption DEF CarryStops
<1>4. b[p] = a[p] + 1
  BY <1>3 DEF _inc_byte_string
<1>5. ASSUME NEW j \in 1..p - 1 PROVE b[j] = a[j]
  <2>1. j \in 1..Width /\ p \in j + 1..Width  BY SizeAssumption
  <2>2. ~ CarryStops(a, j)
    BY <1>2, <2>1 DEF CarryStops
  <2> QED  BY <1>3, <2>1, <2>2 DEF _inc_byte_string
<1>6. ASSUME NEW j \in p + 1..Width PROVE b[j] = 0
  <2>1. j \in 1..Width /\ \A q \in j..Width : a[q] = Base - 1
    BY <1>2, SizeAssumption
  <2>2. \A q \in j..Width : ~ CarryStops(a, q)
    BY <2>1 DEF CarryStops
  <2>3. ~ CarryStops(a, j) /\ ~ \E q \in j + 1..Width : CarryStops(a, q)
    BY <2>1, <2>2, SizeAssumption
  <2> QED  BY <2>1, <2>3 DEF _inc_byte_string
<1> QED
  BY <1>3, <1>4, <1>5, <1>6

LEMMA IncGreater ==
  ASSUME NEW a \in Addr, a # MaxAddr
  PROVE  Less(a, _inc_byte_string(a))
<1>1. PICK p \in 1..Width :
        /\ _inc_byte_string(a)[p] = a[p] + 1
        /\ \A j \in 1..p - 1 : _inc_byte_string(a)[j] = a[j]
  BY IncBytes
<1>2. a[p] < _inc_byte_string(a)[p]
  BY <1>1, SizeAssumption DEF Addr
<1> QED
  BY <1>1, <1>2 DEF Less

(***************************************************************************)
(* Addresses with the same bytes are the same.                             *)
(***************************************************************************)
LEMMA SameBytes ==
  ASSUME NEW a \in Addr, NEW b \in Addr, \A n \in 1..Width : a[n] = b[n]
  PROVE  a = b
<1>1. a = [n \in 1..Width |-> a[n]] /\ b = [n \in 1..Width |-> b[n]]
  BY DEF Addr
<1> QED  BY <1>1

(***************************************************************************)
(* Two different addresses are ordered one way or the other.               *)
(***************************************************************************)
LEMMA LessTotal ==
  ASSUME NEW a \in Addr, NEW b \in Addr, a # b
  PROVE  Less(a, b) \/ Less(b, a)
<1> DEFINE T == {n \in 1..Width : a[n] # b[n]}
<1>1. T # {}
  BY SameBytes
<1>2. PICK i \in T : \A n \in T : i <= n
  <2>1. T \in SUBSET Nat  BY SizeAssumption
  <2> HIDE DEF T
  <2> QED  BY <1>1, <2>1, LeastNat
<1>3. \A j \in 1..i - 1 : a[j] = b[j]
  BY <1>2, SizeAssumption
<1>4. a[i] < b[i] \/ b[i] < a[i]
  BY <1>2, SizeAssumption DEF Addr
<1> QED
  BY <1>3, <1>4 DEF Less

(***************************************************************************)
(* _inc_byte_string leaves no address out: what lies above an address lies *)
(* above its successor, or is the successor.                               *)
(***************************************************************************)
LEMMA IncNext ==
  ASSUME NEW a \in Addr, a # MaxAddr, NEW c \in Addr, Less(a, c)
  PROVE  c = _inc_byte_string(a) \/ Less(_inc_byte_string(a), c)
<1> DEFINE b == _inc_byte_string(a)
<1>1. PICK p \in 1..Width :
        /\ CarryStops(a, p) /\ b[p] = a[p] + 1
        /\ \A j \in 1..p - 1 : b[j] = a[j]
        /\ \A j \in p + 1..Width : b[j] = 0
  BY IncBytes
<1>2. PICK i \in 1..Width : a[i] < c[i] /\ \A j \in 1..i - 1 : a[j] = c[j]
  BY DEF Less
<1>3. \A n \in 1..Width : a[n] \in 0..Base - 1 /\ c[n] \in 0..Base - 1
  BY DEF Addr
<1>4. b \in Addr
  BY IncType
<1>5. CASE i < p
  <2>1. b[i] < c[i] /\ \A j \in 1..i - 1 : b[j] = c[j]
    BY <1>1, <1>2, <1>5, SizeAssumption
  <2> QED  BY <2>1 DEF Less
<1>6. CASE p < i
  <2>1. a[i] = Base - 1
    BY <1>1, <1>6, SizeAssumption DEF CarryStops
  <2> QED  BY <2>1, <1>2, <1>3, SizeAssumption
<1>7. CASE i = p
  <2>1. \A j \in 1..p - 1 : b[j] = c[j]
    BY <1>1, <1>2, <1>7
  <2>2. CASE b[p] < c[p]
    BY <2>1, <2>2 DEF Less
  <2>3. CASE b[p] = c[p]
    <3> DEFINE T == {n \in p + 1..Width : c[n] # 0}
    <3>1. CASE T = {}
      <4>1. ASSUME NEW n \in 1..Width PROVE b[n] = c[n]
        <5>1. n \in 1..p - 1 \/ n = p \/ n \in p + 1..Width
          BY SizeAssumption
        <5> QED  BY <5>1, <1>1, <2>1, <2>3, <3>1
      <4>2. b = c
        BY <4>1, <1>4, SameBytes
      <4> QED  BY <4>2
    <3>2. CASE T # {}
      <4>1. PICK k \in T : \A n \in T : k <= n
        <5>1. T \in SUBSET Nat  BY SizeAssumption
        <5> HIDE DEF T
        <5> QED  BY <3>2, <5>1, LeastNat
      <4>2. b[k] < c[k]
        BY <4>1, <1>1, <1>3, SizeAssumption
      <4>3. ASSUME NEW n \in 1..k - 1 PROVE b[n] = c[n]
        <5>1. n \in 1..p - 1 \/ n = p \/ (n \in p + 1..Width /\ n \notin T)
          BY <4>1, SizeAssumption
        <5> QED  BY <5>1, <1>1, <2>1, <2>3
      <4> QED  BY <4>1, <4>2, <4>3, SizeAssumption DEF Less
    <3> QED  BY <3>1, <3>2
  <2>4. b[p] <= c[p]
    BY <1>1, <1>2, <1>3, <1>7, SizeAssumption
  <2> QED  BY <2>2, <2>3, <2>4, <1>1, <1>3, SizeAssumption
<1> QED
  BY <1>5, <1>6, <1>7, SizeAssumption

-----------------------------------------------------------------------------
(***************************************************************************)
(* What has been handed out is increasing and below the next address.      *)
(***************************************************************************)
Increasing ==
  /\ final # MaxAddr
  /\ \A i, j \in 1..Len(issued) : i < j => Less(issued[i], issued[j])
  /\ \A i \in 1..Len(issued) : Less(issued[i], next)

(***************************************************************************)
(* The fields of a pool keep their types, whatever the range is.           *)
(***************************************************************************)
THEOREM PoolTypeOK == Spec => []TypeOK
<1> DEFINE PoolOK == /\ start \in Addr /\ next \in Addr /\ final \in Addr
                     /\ issued \in Seq(Addr)
           FailedOK == failed \in BOOLEAN
<1>1. Init => PoolOK
  BY RangeAssumption DEF Init
<1>2. PoolOK /\ [Next]_vars => PoolOK'
  BY IncType DEF Next, vars, get_addr, get_addr_raise
<1>3. Init => FailedOK
  BY Zenon DEF Init
<1>4. FailedOK /\ [Next]_vars => FailedOK'
  BY Zenon DEF Next, vars, get_addr, get_addr_raise
<1>5. PoolOK /\ FailedOK <=> TypeOK
  BY Zenon DEF TypeOK
<1> HIDE DEF PoolOK, FailedOK
<1> QED
  BY <1>1, <1>2, <1>3, <1>4, <1>5, PTL DEF Spec

(***************************************************************************)
(* No pool whose range ends below the largest address hands out an address *)
(* twice.                                                                  *)
(***************************************************************************)
THEOREM PoolNoDuplicates ==
  ASSUME \A r \in Ranges : r[2] # MaxAddr
  PROVE  Spec => []NoDuplicates
<1>1. Init => Increasing
  BY RangeAssumption DEF Init, Increasing
<1>2. TypeOK /\ Increasing /\ [Next]_vars => Increasing'
  <2> SUFFICES ASSUME TypeOK, Increasing, [Next]_vars PROVE Increasing'
    OBVIOUS
  <2>1. CASE get_addr
    <3>1. next # MaxAddr
      BY <2>1, LessMax DEF get_addr, Exhausted, TypeOK, Increasing
    <3>2. Less(next, next') /\ next' \in Addr
      BY <2>1, <3>1, IncGreater, IncType DEF get_addr, TypeOK
    <3>3. /\ Len(issued') = Len(issued) + 1
          /\ issued'[Len(issued) + 1] = next
          /\ \A i \in 1..Len(issued) : issued'[i] = issued[i] /\ issued[i] \in Addr
      BY <2>1 DEF get_addr, TypeOK
    <3>4. \A i \in 1..Len(issued) : Less(issued[i], next')
      BY <3>2, <3>3, LessTransitive DEF TypeOK, Increasing
    <3>5. \A i \in 1..Len(issued') : Less(issued'[i], next')
      BY <3>2, <3>3, <3>4 DEF TypeOK
    <3>6. \A i, j \in 1..Len(issued') : i < j => Less(issued'[i], issued'[j])
      BY <3>3 DEF TypeOK, Increasing
    <3> QED  BY <2>1, <3>5, <3>6 DEF Increasing, get_addr
  <2>2. CASE get_addr_raise
    BY <2>2 DEF get_addr_raise, Increasing
  <2>3. CASE UNCHANGED vars
    BY <2>3 DEF vars, Increasing
  <2> QED  BY <2>1, <2>2, <2>3 DEF Next
<1>3. TypeOK /\ Increasing => NoDuplicates
  <2> SUFFICES ASSUME TypeOK, Increasing,
                      NEW i \in 1..Len(issued), NEW j \in 1..Len(issued),
                      issued[i] = issued[j]
               PROVE  i = j
    BY DEF NoDuplicates
  <2>1. issued[i] \in Addr /\ i \in Int /\ j \in Int
    BY DEF TypeOK
  <2>2. ~ (i < j) /\ ~ (j < i)
    BY <2>1, LessIrreflexive DEF Increasing
  <2> QED  BY <2>1, <2>2
<1> QED
  BY <1>1, <1>2, <1>3, PoolTypeOK, PTL DEF Spec

(***************************************************************************)
(* What has been handed out is everything from the first address up to the *)
(* next one, and nothing above the last address of the range.              *)
(***************************************************************************)
AllBelow ==
  /\ final # MaxAddr => Issued = {a \in Addr : ~ Less(a, start) /\ Less(a, next)}
  /\ \A a \in Issued : ~ Less(final, a)
  /\ ~ Less(next, start) \/ final = MaxAddr
  /\ failed => Exhausted

(***************************************************************************)
(* For every range, one that ends in the largest address included: when    *)
(* get_addr raises, exactly the addresses of the range were handed out.    *)
(***************************************************************************)
THEOREM PoolExhausted == Spec => []ExhaustedMeansAllIssued
<1>1. Init => AllBelow
  <2> SUFFICES ASSUME Init PROVE AllBelow
    OBVIOUS
  <2>1. start \in Addr /\ next = start /\ Issued = {} /\ ~failed
    BY RangeAssumption DEF Init, Issued
  <2> QED  BY <2>1, LessIrreflexive DEF AllBelow
<1>2. TypeOK /\ AllBelow /\ [Next]_vars => AllBelow'
  <2> SUFFICES ASSUME TypeOK, AllBelow, [Next]_vars PROVE AllBelow'
    OBVIOUS
  <2>1. CASE get_addr
    <3>1. /\ start' = start /\ final' = final /\ failed' = failed
          /\ next' = _inc_byte_string(next) /\ next' \in Addr
          /\ ~ Less(final, next) /\ ~failed
      BY <2>1, IncType DEF get_addr, Exhausted, TypeOK, AllBelow
    <3>2. Issued' = Issued \union {next}
      <4>1. /\ Len(issued') = Len(issued) + 1 /\ Len(issued) \in Nat
            /\ issued'[Len(issued) + 1] = next
            /\ \A i \in 1..Len(issued) : issued'[i] = issued[i]
        BY <2>1 DEF get_addr, TypeOK
      <4> QED  BY <4>1 DEF Issued
    <3>3. \A a \in Issued' : ~ Less(final, a)
      BY <3>1, <3>2 DEF AllBelow
    <3>4. ASSUME final # MaxAddr
          PROVE  /\ Issued' = {a \in Addr : ~ Less(a, start) /\ Less(a, next')}
                 /\ ~ Less(next', start)
      <4>1. /\ start \in Addr /\ next \in Addr /\ final \in Addr
            /\ next # MaxAddr /\ ~ Less(next, start)
        BY <3>1, <3>4, LessMax DEF TypeOK, AllBelow
      <4>2. Less(next, next')
        BY <3>1, <4>1, IncGreater
      <4>3. ASSUME NEW a \in Addr
            PROVE  Less(a, next') <=> a = next \/ Less(a, next)
        <5>1. a = next \/ Less(a, next) => Less(a, next')
          BY <3>1, <4>1, <4>2, LessTransitive
        <5>2. ASSUME Less(next, a) PROVE ~ Less(a, next')
          <6>1. a = next' \/ Less(next', a)
            BY <3>1, <4>1, <5>2, IncNext
          <6> QED  BY <3>1, <6>1, LessIrreflexive, LessTransitive
        <5>3. a = next \/ Less(a, next) \/ Less(next, a)
          BY <4>1, LessTotal
        <5> QED  BY <5>1, <5>2, <5>3
      <4>4. Issued = {a \in Addr : ~ Less(a, start) /\ Less(a, next)}
        BY <3>4 DEF AllBelow
      <4>5. ~ Less(next', start)
        BY <3>1, <4>1, <4>2, LessTransitive
      <4> QED  BY <3>2, <4>1, <4>3, <4>4, <4>5
    <3> QED  BY <3>1, <3>3, <3>4 DEF AllBelow
  <2>2. CASE get_addr_raise
    BY <2>2 DEF get_addr_raise, AllBelow, Issued, Exhausted
  <2>3. CASE UNCHANGED vars
    BY <2>3 DEF vars, AllBelow, Issued, Exhausted
  <2> QED  BY <2>1, <2>2, <2>3 DEF Next
<1>3. TypeOK /\ AllBelow => ExhaustedMeansAllIssued
  <2> SUFFICES ASSUME TypeOK, AllBelow, failed
               PROVE  Issued = {a \in Addr : ~ Less(a, start) /\ ~ Less(final, a)}
    BY DEF ExhaustedMeansAllIssued
  <2>1. /\ start \in Addr /\ next \in Addr /\ final \in Addr /\ Less(final, next)
    BY DEF TypeOK, AllBelow, Exhausted
  <2>2. final # MaxAddr
    <3>1. ASSUME final = MaxAddr PROVE FALSE
      <4>1. next # MaxAddr
        BY <2>1, <3>1, LessIrreflexive
      <4>2. Less(next, next)
        BY <2>1, <3>1, <4>1, LessMax, LessTransitive
      <4> QED  BY <2>1, <4>2, LessIrreflexive
    <3> QED  BY <3>1
  <2>3. /\ Issued = {a \in Addr : ~ Less(a, start) /\ Less(a, next)}
        /\ \A a \in Issued : ~ Less(final, a)
    BY <2>2 DEF AllBelow
  <2>4. ASSUME NEW a \in Addr, ~ Less(final, a) PROVE Less(a, next)
    <3>1. a = final \/ Less(a, final)
      BY <2>1, <2>4, LessTotal
    <3> QED  BY <2>1, <3>1, LessTransitive
  <2> QED  BY <2>3, <2>4
<1> QED
  BY <1>1, <1>2, <1>3, PoolTypeOK, PTL DEF Spec
=============================================================================

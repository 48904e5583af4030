------------------------ MODULE MachineMapper_lemmas ------------------------
(***************************************************************************)
(* The invariant of the search, MInv, and what it says of the lists and    *)
(* stacks the search moves machines and interfaces between: pushing an     *)
(* entry, giving it a match, taking the match back and popping it lose no  *)
(* machine, interface or label and use none twice.                         *)
(* MachineMapper_proofs proves from these lemmas that every action keeps   *)
(* MInv.                                                                   *)
(***************************************************************************)
EXTENDS MachineMapper, FiniteSetTheorems, SequenceTheorems, TLAPS

(***************************************************************************)
(* A list of what is free and a stack whose entries hold what was taken    *)
(* from it: machines of the pool and machine_stack, interfaces of a        *)
(* machine of the pool and if_stack.  An entry's candidates are free or    *)
(* were taken above it.                                                    *)
(***************************************************************************)
Above(st, k) == {st[j].current_match : j \in k + 1 .. Len(st)} \ {None}

Kept(free, st, all) ==
  /\ IsInjective(free)
  /\ \A j, k \in DOMAIN st :
       j # k /\ st[j].current_match # None => st[j].current_match # st[k].current_match
  /\ Range(free) \intersect Above(st, 0) = {}
  /\ Range(free) \union Above(st, 0) = all
  /\ \A k \in DOMAIN st :
       /\ IsInjective(st[k].remaining_matches)
       /\ Range(st[k].remaining_matches) \subseteq Range(free) \union Above(st, k)

(***************************************************************************)
(* What is required: still to be matched, or on the stack.                 *)
(***************************************************************************)
Split(left, ids, all) ==
  /\ IsInjective(left) /\ IsInjective(ids)
  /\ Range(left) \intersect Range(ids) = {}
  /\ Range(left) \union Range(ids) = all

MIds(st) == [k \in 1..Len(st) |-> st[k].m_id]
IfIds(st) == [k \in 1..Len(st) |-> st[k].if_id]

(***************************************************************************)
(* A machine on the stack and its interfaces, where req are the machines   *)
(* required and ms those of the pool                                       *)
(***************************************************************************)
IfsKept(m, req, ms, virtual) ==
  LET ifs == req[m.m_id].interfaces
      has == ms[m.current_match].interfaces
  IN  /\ Split(m.unmatched_ifs, IfIds(m.if_stack), DOMAIN ifs)
      /\ virtual \/ m.current_match = None => m.if_stack = <<>>
      /\ m.current_match # None =>
           /\ _params_compatible(req[m.m_id].params, ms[m.current_match].params)
           /\ Kept(m.unmatched_pool_ifs, m.if_stack, DOMAIN has)
      /\ \A n \in DOMAIN m.if_stack :
           LET i == m.if_stack[n]
           IN  i.current_match # None =>
                 _params_compatible(ifs[i.if_id].params, has[i.current_match].params)

(***************************************************************************)
(* The interfaces that are matched, by their places on the two stacks      *)
(***************************************************************************)
Port(st, j, n) ==
  /\ j \in DOMAIN st /\ n \in DOMAIN st[j].if_stack
  /\ st[j].if_stack[n].current_match # None

LabelAt(st, req, j, n) ==
  req[st[j].m_id].interfaces[st[j].if_stack[n].if_id].network
NetworkAt(st, ms, j, n) ==
  ms[st[j].current_match].interfaces[st[j].if_stack[n].current_match].network

(***************************************************************************)
(* A label was given its network by the first interface that has it, so    *)
(* that the interface on top takes a label with it exactly if no other     *)
(* interface needs it; and different labels mean different networks.       *)
(***************************************************************************)
First(st, req, l, j, n) ==
  /\ Port(st, j, n) /\ LabelAt(st, req, j, n) = l
  /\ \A x, y \in Nat : Port(st, x, y) /\ LabelAt(st, req, x, y) = l =>
                         j < x \/ (j = x /\ n <= y)

Gift(st, ms, j, n) ==
  [network |-> NetworkAt(st, ms, j, n), m_id |-> st[j].m_id,
   if_id |-> st[j].if_stack[n].if_id]

LabelsGiven(st, given, req, ms) ==
  /\ \A j, n \in Nat : Port(st, j, n) =>
       /\ LabelAt(st, req, j, n) \in DOMAIN given
       /\ given[LabelAt(st, req, j, n)].network = NetworkAt(st, ms, j, n)
  /\ \A l \in DOMAIN given :
       \E j, n \in Nat : First(st, req, l, j, n) /\ given[l] = Gift(st, ms, j, n)
  /\ \A k, l \in DOMAIN given : given[k].network = given[l].network => k = l

Consistent(st, free, left, given, req, ms, virtual) ==
  /\ Kept(free, st, Listed(ms, virtual))
  /\ Split(left, MIds(st), DOMAIN req)
  /\ \A k \in DOMAIN st : IfsKept(st[k], req, ms, virtual)
  /\ LabelsGiven(st, given, req, ms)

(***************************************************************************)
(* What is on the stack when the search stands at pc                       *)
(***************************************************************************)
OnStack ==
  /\ pc = "push_machine" => unmatched_req_machines # <<>>
  /\ pc \in {"push_if", "next_machine", "yield"} => machine_stack # <<>>
  /\ pc = "push_if" => ~virtual_matching
  /\ pc = "next_machine" => Top.if_stack = <<>>
  /\ pc = "yield" => AllMatched

(***************************************************************************)
(* Machines below the top, and interfaces below the top of a machine, have *)
(* been matched.                                                           *)
(***************************************************************************)
Finished ==
  \A k \in DOMAIN machine_stack :
    /\ machine_stack[k].current_match = None =>
         k = Len(machine_stack) /\ pc \in {"match", "next_machine"}
    /\ machine_stack[k].unmatched_ifs # <<>> /\ ~virtual_matching =>
         k = Len(machine_stack) /\ pc \in {"match", "push_if", "next_machine"}
    /\ \A n \in DOMAIN machine_stack[k].if_stack :
         machine_stack[k].if_stack[n].current_match = None =>
           /\ k = Len(machine_stack) /\ n = Len(machine_stack[k].if_stack)
           /\ pc = "match"

MInv ==
  /\ TypeOK
  /\ Consistent(machine_stack, unmatched_pool_machines, unmatched_req_machines,
                net_label_mapping, call.mreqs, pool, virtual_matching)
  /\ OnStack
  /\ Finished

-----------------------------------------------------------------------------
(***************************************************************************)
(* Facts about sequences                                                   *)
(***************************************************************************)
LEMMA LastFront ==
  ASSUME NEW S, NEW s \in Seq(S), s # <<>>
  PROVE  /\ Len(s) \in Nat \ {0} /\ Last(s) \in S /\ Last(s) = s[Len(s)]
         /\ Front(s) \in Seq(S) /\ Len(Front(s)) = Len(s) - 1
         /\ \A i \in 1 .. Len(s) - 1 : Front(s)[i] = s[i]
<1>1. Len(s) \in Nat \ {0}
  BY EmptySeq
<1>2. Last(s) = s[Len(s)] /\ Last(s) \in S
  BY <1>1, ElementOfSeq DEF Last
<1>3. /\ Front(s) \in Seq(S) /\ Len(Front(s)) = Len(s) - 1
      /\ \A i \in 1 .. Len(s) - 1 : Front(s)[i] = s[i]
  <2> DEFINE n == Len(s) - 1
  <2>1. 1 \in Int /\ n \in Int /\ \A i \in 1..n : s[i] \in S
    BY <1>1, ElementOfSeq
  <2>2. Front(s) = SubSeq(s, 1, n) /\ n \in Nat
    BY <1>1 DEF Front
  <2> HIDE DEF n
  <2>3. /\ SubSeq(s, 1, n) \in Seq(S) /\ Len(SubSeq(s, 1, n)) = IF 1 <= n THEN n - 1 + 1 ELSE 0
        /\ \A i \in 1 .. n - 1 + 1 : SubSeq(s, 1, n)[i] = s[1 + i - 1]
    BY <2>1, SubSeqProperties
  <2>4. /\ Front(s) \in Seq(S) /\ Len(Front(s)) = n
        /\ \A i \in 1..n : Front(s)[i] = s[i]
    BY <2>2, <2>3
  <2> QED  BY <2>4 DEF n
<1> QED  BY <1>1, <1>2, <1>3

LEMMA NewLast ==
  ASSUME NEW S, NEW s \in Seq(S), s # <<>>, NEW e \in S
  PROVE  /\ Append(Front(s), e) \in Seq(S) /\ Append(Front(s), e) # <<>>
         /\ Len(Append(Front(s), e)) = Len(s)
         /\ Last(Append(Front(s), e)) = e
         /\ Append(Front(s), e)[Len(s)] = e
         /\ \A i \in 1 .. Len(s) - 1 : Append(Front(s), e)[i] = s[i]
<1>1. /\ Len(s) \in Nat \ {0} /\ Front(s) \in Seq(S) /\ Len(Front(s)) = Len(s) - 1
      /\ \A i \in 1 .. Len(s) - 1 : Front(s)[i] = s[i]
  BY LastFront
<1>2. /\ Append(Front(s), e) \in Seq(S)
      /\ Len(Append(Front(s), e)) = Len(Front(s)) + 1
      /\ Append(Front(s), e)[Len(Front(s)) + 1] = e
      /\ \A i \in 1..Len(Front(s)) : Append(Front(s), e)[i] = Front(s)[i]
  BY <1>1, AppendProperties
<1>3. Append(Front(s), e) # <<>> /\ Len(Append(Front(s), e)) = Len(s)
  BY <1>1, <1>2
<1> QED  BY <1>1, <1>2, <1>3 DEF Last

LEMMA Appended ==
  ASSUME NEW S, NEW s \in Seq(S), NEW e \in S
  PROVE  /\ Append(s, e) \in Seq(S) /\ Append(s, e) # <<>>
         /\ Len(Append(s, e)) = Len(s) + 1 /\ Len(s) \in Nat
         /\ Last(Append(s, e)) = e /\ Append(s, e)[Len(s) + 1] = e
         /\ \A i \in 1..Len(s) : Append(s, e)[i] = s[i]
<1>1. /\ Append(s, e) \in Seq(S) /\ Append(s, e) # <<>>
      /\ Len(Append(s, e)) = Len(s) + 1 /\ Len(s) \in Nat
      /\ Append(s, e)[Len(s) + 1] = e
      /\ \A i \in 1..Len(s) : Append(s, e)[i] = s[i]
  BY AppendProperties, LenProperties
<1> QED  BY <1>1 DEF Last

LEMMA InRange ==
  ASSUME NEW S, NEW s \in Seq(S)
  PROVE  /\ DOMAIN s = 1..Len(s) /\ Len(s) \in Nat
         /\ \A x : x \in Range(s) <=> \E i \in 1..Len(s) : x = s[i]
         /\ Range(s) \subseteq S
BY LenProperties, ElementOfSeq DEF Range

LEMMA Prefix ==
  ASSUME NEW S, NEW s \in Seq(S), NEW k \in 1..Len(s), IsInjective(s)
  PROVE  /\ SubSeq(s, 1, k - 1) \in Seq(S) /\ IsInjective(SubSeq(s, 1, k - 1))
         /\ Range(SubSeq(s, 1, k - 1)) \subseteq Range(s) \ {s[k]}
<1> DEFINE t == SubSeq(s, 1, k - 1)
<1>1. /\ t \in Seq(S) /\ Len(t) = k - 1 /\ Len(s) \in Nat
      /\ \A i \in 1 .. k - 1 : t[i] = s[i]
  BY LenProperties, SubSeqProperties
<1>2. DOMAIN t = 1 .. k - 1 /\ DOMAIN s = 1..Len(s)
  BY <1>1, LenProperties
<1> HIDE DEF t
<1>3. IsInjective(t)
  BY <1>1, <1>2 DEF IsInjective
<1>4. ASSUME NEW i \in 1 .. k - 1
      PROVE  t[i] \in Range(s) \ {s[k]}
  BY <1>1, <1>2 DEF IsInjective, Range
<1>5. Range(t) \subseteq Range(s) \ {s[k]}
  BY <1>2, <1>4 DEF Range
<1> QED  BY <1>1, <1>3, <1>5 DEF t

(***************************************************************************)
(* sorted: every member of the set once.                                   *)
(***************************************************************************)
LEMMA Sorted ==
  ASSUME NEW S, S \subseteq Nat, IsFiniteSet(S), NEW s \in SortedDown(S)
  PROVE  s \in Seq(Nat) /\ s \in Seq(S) /\ IsInjective(s) /\ Range(s) = S
<1> DEFINE n == Cardinality(S)
<1>1. n \in Nat
  BY FS_CardinalityType
<1>2. /\ s \in [1..n -> S] /\ DOMAIN s = 1..n
      /\ \A i, j \in DOMAIN s : i < j => s[i] > s[j]
  BY DEF SortedDown
<1>3. s \in Seq(S) /\ s \in Seq(Nat)
  <2>1. s \in [1..n -> Nat]
    BY <1>2
  <2> QED  BY <1>1, <1>2, <2>1
<1>4. IsInjective(s)
  <2> SUFFICES ASSUME NEW a \in 1..n, NEW b \in 1..n, s[a] = s[b]
               PROVE  a = b
    BY <1>2 DEF IsInjective
  <2>1. s[a] \in Nat /\ s[b] \in Nat
    BY <1>2
  <2> QED  BY <1>1, <1>2, <2>1
<1>5. IsFiniteSet(1..n) /\ Cardinality(1..n) = n
  BY <1>1, FS_Interval
<1>6. s \in Injection(1..n, S)
  BY <1>2, <1>4 DEF Injection
<1>7. s \in Surjection(1..n, S)
  BY <1>5, <1>6, FS_Injection
<1>8. Range(s) = S
  BY <1>2, <1>7 DEF Surjection, Range
<1> QED  BY <1>3, <1>4, <1>8

(***************************************************************************)
(* list.remove                                                             *)
(***************************************************************************)
LEMMA WithoutRemoves ==
  ASSUME NEW S, NEW s \in Seq(S), IsInjective(s), NEW e \in Range(s)
  PROVE  /\ Without(s, e) \in Seq(S) /\ IsInjective(Without(s, e))
         /\ Range(Without(s, e)) = Range(s) \ {e}
<1> DEFINE i == CHOOSE i \in DOMAIN s : s[i] = e
           a == SubSeq(s, 1, i - 1)
           b == SubSeq(s, i + 1, Len(s))
           t == Without(s, e)
<1>1. i \in 1..Len(s) /\ s[i] = e /\ Len(s) \in Nat /\ DOMAIN s = 1..Len(s)
  BY LenProperties DEF Range
<1>2. t = a \o b
  BY DEF Without, RemoveAt
<1> HIDE DEF i, t
<1>3. /\ a \in Seq(S) /\ Len(a) = i - 1
      /\ \A j \in 1 .. i - 1 : a[j] = s[j]
  BY <1>1, SubSeqProperties
<1>4. /\ b \in Seq(S) /\ Len(b) = Len(s) - i
      /\ \A j \in 1 .. Len(s) - i : b[j] = s[i + j]
  <2> DEFINE m == i + 1
             n == Len(s)
  <2>1. m \in Int /\ n \in Int /\ m <= n + 1 /\ \A j \in m..n : s[j] \in S
    BY <1>1, ElementOfSeq
  <2> HIDE DEF m, n
  <2>2. /\ SubSeq(s, m, n) \in Seq(S)
        /\ Len(SubSeq(s, m, n)) = IF m <= n THEN n - m + 1 ELSE 0
        /\ \A j \in 1 .. n - m + 1 : SubSeq(s, m, n)[j] = s[m + j - 1]
    BY <2>1, SubSeqProperties
  <2>3. /\ SubSeq(s, m, n) \in Seq(S) /\ Len(SubSeq(s, m, n)) = n - m + 1
        /\ \A j \in 1 .. n - m + 1 : SubSeq(s, m, n)[j] = s[m + j - 1]
    BY <2>1, <2>2
  <2>4. n - m + 1 = Len(s) - i
    BY <1>1 DEF m, n
  <2>5. b = SubSeq(s, m, n)
    BY DEF m, n
  <2> HIDE DEF b
  <2>6. ASSUME NEW j \in 1 .. Len(s) - i
        PROVE  b[j] = s[i + j]
    <3>1. b[j] = s[m + j - 1]
      BY <2>3, <2>4, <2>5
    <3>2. m + j - 1 = i + j
      BY <1>1 DEF m
    <3> QED  BY <3>1, <3>2
  <2> QED  BY <2>3, <2>4, <2>5, <2>6
<1> HIDE DEF a, b
<1>5. /\ t \in Seq(S) /\ Len(t) = Len(s) - 1
      /\ \A j \in 1 .. i - 1 : t[j] = s[j]
      /\ \A j \in i .. Len(s) - 1 : t[j] = s[j + 1]
  <2>1. /\ t \in Seq(S) /\ Len(t) = Len(a) + Len(b)
        /\ \A j \in 1..(Len(a) + Len(b)) :
             t[j] = IF j <= Len(a) THEN a[j] ELSE b[j - Len(a)]
    BY <1>2, <1>3, <1>4, ConcatProperties
  <2>2. ASSUME NEW j \in 1 .. i - 1
        PROVE  t[j] = s[j]
    <3>1. j \in 1..(Len(a) + Len(b)) /\ j <= Len(a)
      BY <1>1, <1>3, <1>4
    <3> QED  BY <2>1, <3>1, <1>3
  <2>3. ASSUME NEW j \in i .. Len(s) - 1
        PROVE  t[j] = s[j + 1]
    <3>1. t[j] = b[j - Len(a)]
      <4>1. j \in 1..(Len(a) + Len(b))
        BY ONLY <1>1, <1>3, <1>4
      <4>2. ~(j <= Len(a))
        BY ONLY <1>1, <1>3
      <4> QED  BY ONLY <2>1, <4>1, <4>2
    <3>2. j - Len(a) \in 1 .. Len(s) - i /\ i + (j - Len(a)) = j + 1
      BY <1>1, <1>3
    <3> QED  BY <3>1, <3>2, <1>4
  <2> QED  BY <2>1, <2>2, <2>3, <1>1, <1>3, <1>4
<1>6. DOMAIN t = 1 .. Len(s) - 1
  BY <1>5, LenProperties
<1>7. IsInjective(t)
  <2> SUFFICES ASSUME NEW x \in 1 .. Len(s) - 1, NEW y \in 1 .. Len(s) - 1, t[x] = t[y]
               PROVE  x = y
    BY <1>6 DEF IsInjective
  <2>1. \A p, q \in 1..Len(s) : s[p] = s[q] => p = q
    BY <1>1 DEF IsInjective
  <2> QED  BY <2>1, <1>1, <1>5
<1>8. ASSUME NEW x \in Range(t)
      PROVE  x \in Range(s) \ {e}
  <2>1. PICK j \in 1 .. Len(s) - 1 : x = t[j]
    BY <1>6 DEF Range
  <2>2. PICK p \in 1..Len(s) : p # i /\ x = s[p]
    BY <2>1, <1>1, <1>5
  <2> QED  BY <2>2, <1>1 DEF IsInjective, Range
<1>9. ASSUME NEW x \in Range(s), x # e
      PROVE  x \in Range(t)
  <2>1. PICK p \in 1..Len(s) : x = s[p] /\ p # i
    BY <1>1, <1>9 DEF Range
  <2>2. PICK j \in 1 .. Len(s) - 1 : t[j] = s[p]
    <3>1. ASSUME p < i PROVE p \in 1 .. Len(s) - 1 /\ t[p] = s[p]
      BY <3>1, <1>1, <1>5
    <3>2. ASSUME p > i PROVE p - 1 \in 1 .. Len(s) - 1 /\ t[p - 1] = s[p]
      <4>1. p - 1 \in i .. Len(s) - 1 /\ (p - 1) + 1 = p
        BY <3>2, <1>1
      <4> QED  BY <4>1, <1>1, <1>5
    <3> QED  BY <2>1, <3>1, <3>2, <1>1
  <2> QED  BY <2>1, <2>2, <1>6 DEF Range
<1> QED  BY <1>5, <1>7, <1>8, <1>9 DEF t

LEMMA RangeOfAppend ==
  ASSUME NEW S, NEW s \in Seq(S), NEW e \in S
  PROVE  /\ Range(Append(s, e)) = Range(s) \union {e}
         /\ IsInjective(s) /\ e \notin Range(s) => IsInjective(Append(s, e))
<1> DEFINE t == Append(s, e)
<1>1. /\ t \in Seq(S) /\ Len(t) = Len(s) + 1 /\ Len(s) \in Nat
      /\ t[Len(s) + 1] = e /\ \A i \in 1..Len(s) : t[i] = s[i]
  BY Appended
<1>2. DOMAIN s = 1..Len(s) /\ DOMAIN t = 1 .. Len(s) + 1
  BY <1>1, LenProperties
<1> HIDE DEF t
<1>3. Range(t) = Range(s) \union {e}
  <2>1. ASSUME NEW x \in Range(t)
        PROVE  x \in Range(s) \union {e}
    BY <1>1, <1>2, <2>1 DEF Range
  <2>2. e \in Range(t)
    <3>1. Len(s) + 1 \in DOMAIN t
      BY <1>1, <1>2
    <3> QED  BY <3>1, <1>1 DEF Range
  <2>3. ASSUME NEW x \in Range(s)
        PROVE  x \in Range(t)
    <3>1. PICK i \in 1..Len(s) : x = s[i]
      BY <1>2 DEF Range
    <3>2. i \in DOMAIN t /\ t[i] = x
      BY <3>1, <1>1, <1>2
    <3> QED  BY <3>2 DEF Range
  <2> QED  BY <2>1, <2>2, <2>3
<1>4. ASSUME IsInjective(s), e \notin Range(s)
      PROVE  IsInjective(t)
  <2> SUFFICES ASSUME NEW x \in 1 .. Len(s) + 1, NEW y \in 1 .. Len(s) + 1, t[x] = t[y]
               PROVE  x = y
    BY <1>2 DEF IsInjective
  <2>1. \A i \in 1..Len(s) : t[i] = s[i] /\ s[i] # e
    BY <1>1, <1>2, <1>4 DEF Range
  <2>2. \A i, j \in 1..Len(s) : s[i] = s[j] => i = j
    BY <1>2, <1>4 DEF IsInjective
  <2> QED  BY <2>1, <2>2, <1>1
<1> QED  BY <1>3, <1>4 DEF t

LEMMA RangeOfFront ==
  ASSUME NEW S, NEW s \in Seq(S), s # <<>>, IsInjective(s)
  PROVE  /\ Range(Front(s)) = Range(s) \ {Last(s)} /\ IsInjective(Front(s))
         /\ Last(s) \in Range(s)
<1> DEFINE t == Front(s)
<1>1. /\ t \in Seq(S) /\ Len(t) = Len(s) - 1 /\ Len(s) \in Nat \ {0}
      /\ Last(s) = s[Len(s)] /\ \A i \in 1 .. Len(s) - 1 : t[i] = s[i]
  BY LastFront
<1>2. DOMAIN s = 1..Len(s) /\ DOMAIN t = 1 .. Len(s) - 1
  BY <1>1, LenProperties
<1> HIDE DEF t
<1>3. \A i, j \in 1..Len(s) : s[i] = s[j] => i = j
  BY <1>2 DEF IsInjective
<1>4. IsInjective(t)
  BY <1>1, <1>2, <1>3 DEF IsInjective
<1>5. Last(s) \in Range(s)
  BY <1>1, <1>2 DEF Range
<1>6. ASSUME NEW x \in Range(t)
      PROVE  x \in Range(s) \ {Last(s)}
  BY <1>1, <1>2, <1>3 DEF Range
<1>7. ASSUME NEW x \in Range(s), x # Last(s)
      PROVE  x \in Range(t)
  <2>1. PICK i \in 1..Len(s) : x = s[i] /\ i # Len(s)
    BY <1>1, <1>2, <1>7 DEF Range
  <2> QED  BY <2>1, <1>1, <1>2 DEF Range
<1> QED  BY <1>4, <1>5, <1>6, <1>7 DEF t

-----------------------------------------------------------------------------
(***************************************************************************)
(* What is required goes to the stack and back.                            *)
(***************************************************************************)
LEMMA SplitStart ==
  ASSUME NEW left, NEW all, IsInjective(left), Range(left) = all
  PROVE  Split(left, <<>>, all)
BY DEF Split, IsInjective, Range

LEMMA SplitPush ==
  ASSUME NEW left \in Seq(Nat), NEW ids \in Seq(Nat), NEW all,
         Split(left, ids, all), left # <<>>
  PROVE  Split(Front(left), Append(ids, Last(left)), all)
<1>1. /\ Range(Front(left)) = Range(left) \ {Last(left)} /\ IsInjective(Front(left))
      /\ Last(left) \in Range(left) /\ Last(left) \in Nat
  BY RangeOfFront, LastFront DEF Split
<1>2. Last(left) \notin Range(ids)
  BY <1>1 DEF Split
<1>3. /\ Range(Append(ids, Last(left))) = Range(ids) \union {Last(left)}
      /\ IsInjective(Append(ids, Last(left)))
  BY <1>1, <1>2, RangeOfAppend DEF Split
<1> QED  BY <1>1, <1>2, <1>3 DEF Split

LEMMA SplitPop ==
  ASSUME NEW left \in Seq(Nat), NEW ids \in Seq(Nat), NEW all,
         Split(left, ids, all), ids # <<>>
  PROVE  Split(Append(left, Last(ids)), Front(ids), all)
<1>1. /\ Range(Front(ids)) = Range(ids) \ {Last(ids)} /\ IsInjective(Front(ids))
      /\ Last(ids) \in Range(ids) /\ Last(ids) \in Nat
  BY RangeOfFront, LastFront DEF Split
<1>2. Last(ids) \notin Range(left)
  BY <1>1 DEF Split
<1>3. /\ Range(Append(left, Last(ids))) = Range(left) \union {Last(ids)}
      /\ IsInjective(Append(left, Last(ids)))
  BY <1>1, <1>2, RangeOfAppend DEF Split
<1> QED  BY <1>1, <1>2, <1>3 DEF Split

(***************************************************************************)
(* What is taken goes to the stack and back.                               *)
(***************************************************************************)
Entries(E) == \A e \in E : /\ e.current_match \in Nat \union {None}
                           /\ e.remaining_matches \in Seq(Nat)

\* st2 is st but for what its last entry holds
SameBelow(st, st2) ==
  /\ Len(st2) = Len(st)
  /\ \A j \in 1 .. Len(st) - 1 : /\ st2[j].current_match = st[j].current_match
                                 /\ st2[j].remaining_matches = st[j].remaining_matches

LEMMA InAbove ==
  ASSUME NEW st, NEW k
  PROVE  \A x : x \in Above(st, k) <=>
                  x # None /\ \E j \in k + 1 .. Len(st) : x = st[j].current_match
BY DEF Above

LEMMA KeptParts ==
  ASSUME NEW E, NEW st \in Seq(E), NEW free, NEW all, Kept(free, st, all)
  PROVE  /\ \A j, k \in 1..Len(st) :
              j # k /\ st[j].current_match # None =>
                st[j].current_match # st[k].current_match
         /\ \A k \in 1..Len(st) :
              /\ IsInjective(st[k].remaining_matches)
              /\ Range(st[k].remaining_matches) \subseteq Range(free) \union Above(st, k)
BY LenProperties DEF Kept

LEMMA KeptStart ==
  ASSUME NEW free, NEW all, IsInjective(free), Range(free) = all
  PROVE  Kept(free, <<>>, all)
<1>1. Above(<<>>, 0) = {}
  BY DEF Above
<1> QED  BY <1>1 DEF Kept

LEMMA KeptSame ==
  ASSUME NEW E, NEW st \in Seq(E), NEW st2 \in Seq(E), SameBelow(st, st2),
         st # <<>>, Last(st2).current_match = Last(st).current_match,
         Last(st2).remaining_matches = Last(st).remaining_matches,
         NEW free, NEW all, Kept(free, st, all)
  PROVE  Kept(free, st2, all)
<1>1. /\ Len(st) \in Nat \ {0} /\ Len(st2) = Len(st) /\ Last(st) = st[Len(st)]
      /\ Last(st2) = st2[Len(st)] /\ DOMAIN st = 1..Len(st) /\ DOMAIN st2 = 1..Len(st)
  BY LastFront, LenProperties DEF Last, SameBelow
<1>2. \A j \in 1..Len(st) : /\ st2[j].current_match = st[j].current_match
                            /\ st2[j].remaining_matches = st[j].remaining_matches
  BY <1>1 DEF SameBelow
<1>3. ASSUME NEW k \in Nat
      PROVE  Above(st2, k) = Above(st, k)
  <2>1. \A j \in k + 1 .. Len(st) : st2[j].current_match = st[j].current_match
    BY <1>1, <1>2
  <2>2. \A x : x \in Above(st2, k) <=> x \in Above(st, k)
    BY <2>1, <1>1, InAbove
  <2> QED  BY <2>2
<1> QED  BY <1>1, <1>2, <1>3 DEF Kept

LEMMA KeptPush ==
  ASSUME NEW E, NEW st \in Seq(E), NEW e \in E,
         NEW free, NEW all, Kept(free, st, all),
         e.current_match = None, e.remaining_matches = free
  PROVE  Kept(free, Append(st, e), all)
<1> DEFINE n   == Len(st)
           st2 == Append(st, e)
<1>1. /\ n \in Nat /\ Len(st2) = n + 1 /\ st2[n + 1] = e
      /\ st2 \in Seq(E) /\ \A j \in 1..n : st2[j] = st[j]
  BY Appended
<1>2. DOMAIN st = 1..n /\ DOMAIN st2 = 1 .. n + 1
  BY <1>1, LenProperties
<1> HIDE DEF n, st2
<1>3. ASSUME NEW k \in Nat
      PROVE  Above(st2, k) = Above(st, k)
  <2>1. ASSUME NEW x \in Above(st2, k)
        PROVE  x \in Above(st, k)
    BY <1>1, InAbove DEF n
  <2>2. ASSUME NEW x \in Above(st, k)
        PROVE  x \in Above(st2, k)
    BY <1>1, InAbove DEF n
  <2> QED  BY <2>1, <2>2
<1>4. \A j, k \in DOMAIN st2 :
        j # k /\ st2[j].current_match # None => st2[j].current_match # st2[k].current_match
  BY <1>1, <1>2 DEF Kept
<1>5. ASSUME NEW k \in DOMAIN st2
      PROVE  /\ IsInjective(st2[k].remaining_matches)
             /\ Range(st2[k].remaining_matches) \subseteq Range(free) \union Above(st2, k)
  BY <1>1, <1>2, <1>3 DEF Kept
<1> QED  BY <1>2, <1>3, <1>4, <1>5 DEF Kept, st2

LEMMA KeptRelease ==
  ASSUME NEW E, Entries(E), NEW st \in Seq(E), NEW st2 \in Seq(E), SameBelow(st, st2),
         st # <<>>, Last(st2).current_match = None,
         Last(st2).remaining_matches = Last(st).remaining_matches,
         NEW free \in Seq(Nat), NEW all, Kept(free, st, all)
  PROVE  /\ Release(free, Last(st)) \in Seq(Nat)
         /\ Kept(Release(free, Last(st)), st2, all)
<1> DEFINE n == Len(st)
           c == Last(st).current_match
<1>0. n \in Nat \ {0}
  BY LastFront
<1>1. /\ n \in Nat \ {0} /\ Len(st2) = n /\ Last(st) = st[n] /\ Last(st) \in E
      /\ Last(st2) = st2[n] /\ DOMAIN st = 1..n /\ DOMAIN st2 = 1..n
  BY LastFront, LenProperties DEF Last, SameBelow
<1>2. ASSUME c = None
      PROVE  /\ Release(free, Last(st)) \in Seq(Nat)
             /\ Kept(Release(free, Last(st)), st2, all)
  <2>1. Release(free, Last(st)) = free
    BY <1>2 DEF Release
  <2>2. Kept(free, st2, all)
    BY <1>2, KeptSame
  <2> QED  BY <2>1, <2>2
<1>3. ASSUME c # None
      PROVE  /\ Release(free, Last(st)) \in Seq(Nat)
             /\ Kept(Release(free, Last(st)), st2, all)
  <2> DEFINE more == Append(free, c)
  <2>1. Release(free, Last(st)) = more /\ c \in Nat
    BY <1>1, <1>3 DEF Release, Entries
  <2>2. c \in Above(st, 0)
    BY <1>1, <1>3, InAbove
  <2>3. c \notin Range(free)
    BY <2>2 DEF Kept
  <2>4. more \in Seq(Nat) /\ Range(more) = Range(free) \union {c} /\ IsInjective(more)
    BY <2>1, <2>3, RangeOfAppend, Appended DEF Kept
  <2> HIDE DEF more
  <2>5. \A j \in 1 .. n - 1 : /\ st2[j].current_match = st[j].current_match
                              /\ st2[j].remaining_matches = st[j].remaining_matches
                              /\ st[j].current_match # c
    <3>1. ASSUME NEW j \in 1 .. n - 1
          PROVE  st[j].current_match # c
      <4>1. j \in 1..n /\ n \in 1..n /\ j # n
        BY <1>0
      <4> QED  BY <4>1, <1>1, <1>3, KeptParts
    <3> QED  BY <3>1 DEF SameBelow
  <2>6. ASSUME NEW k \in Nat, NEW x \in Above(st2, k)
        PROVE  x \in Above(st, k) /\ x # c
    <3>1. PICK j \in k + 1 .. n : x = st2[j].current_match /\ x # None
      BY <1>1, <2>6, InAbove
    <3>2. j \in 1 .. n - 1
      BY <3>1, <1>1
    <3> QED  BY <3>1, <3>2, <2>5, InAbove
  <2>7. ASSUME NEW k \in Nat, NEW x \in Above(st, k), x # c
        PROVE  x \in Above(st2, k)
    <3>1. PICK j \in k + 1 .. n : x = st[j].current_match /\ x # None
      BY <2>7, InAbove
    <3>2. j \in 1 .. n - 1
      BY <3>1, <2>7, <1>1
    <3> QED  BY <3>1, <3>2, <2>5, <1>1, InAbove
  <2>8. \A j, k \in 1..n :
          j # k /\ st2[j].current_match # None => st2[j].current_match # st2[k].current_match
    <3> SUFFICES ASSUME NEW j \in 1..n, NEW k \in 1..n, j # k,
                        st2[j].current_match # None
                 PROVE  st2[j].current_match # st2[k].current_match
      OBVIOUS
    <3>1. j \in 1 .. n - 1
      <4>1. j # n
        BY <1>1
      <4> QED  BY <4>1, <1>0
    <3>2. CASE k = n
      BY <3>1, <3>2, <1>1
    <3>3. CASE k \in 1 .. n - 1
      <4>1. /\ st2[j].current_match = st[j].current_match
            /\ st2[k].current_match = st[k].current_match
        BY <3>1, <3>3, <2>5
      <4> QED  BY <4>1, KeptParts
    <3>4. k = n \/ k \in 1 .. n - 1
      BY <1>0
    <3> QED  BY <3>2, <3>3, <3>4
  <2>9. ASSUME NEW k \in 1..n
        PROVE  /\ IsInjective(st2[k].remaining_matches)
               /\ Range(st2[k].remaining_matches) \subseteq Range(more) \union Above(st2, k)
    <3>1. st2[k].remaining_matches = st[k].remaining_matches
      BY <1>1, <2>5
    <3>2. /\ IsInjective(st[k].remaining_matches)
          /\ Range(st[k].remaining_matches) \subseteq Range(free) \union Above(st, k)
      BY <1>1 DEF Kept
    <3>3. k \in Nat
      OBVIOUS
    <3> QED  BY <3>1, <3>2, <3>3, <2>4, <2>7
  <2>10. Range(more) \intersect Above(st2, 0) = {} /\ Range(more) \union Above(st2, 0) = all
    BY <2>2, <2>4, <2>6, <2>7 DEF Kept
  <2> QED  BY <2>1, <2>4, <2>8, <2>9, <2>10, <1>1 DEF Kept
<1> QED  BY <1>2, <1>3

LEMMA KeptPop ==
  ASSUME NEW E, NEW st \in Seq(E), st # <<>>, Last(st).current_match = None,
         NEW free, NEW all, Kept(free, st, all)
  PROVE  Kept(free, Front(st), all)
<1> DEFINE n   == Len(st)
           st2 == Front(st)
<1>1. /\ n \in Nat \ {0} /\ Last(st) = st[n] /\ st2 \in Seq(E) /\ Len(st2) = n - 1
      /\ \A j \in 1 .. n - 1 : st2[j] = st[j]
  BY LastFront
<1>2. DOMAIN st = 1..n /\ DOMAIN st2 = 1 .. n - 1
  BY <1>1, LenProperties
<1> HIDE DEF n, st2
<1>3. ASSUME NEW k \in Nat
      PROVE  Above(st2, k) = Above(st, k)
  <2>1. ASSUME NEW x \in Above(st2, k)
        PROVE  x \in Above(st, k)
    BY <1>1, InAbove DEF n
  <2>2. ASSUME NEW x \in Above(st, k)
        PROVE  x \in Above(st2, k)
    <3>1. PICK j \in k + 1 .. n : x = st[j].current_match /\ x # None
      BY InAbove DEF n
    <3>2. j \in k + 1 .. n - 1
      BY <3>1, <1>1
    <3> QED  BY <3>1, <3>2, <1>1, InAbove
  <2> QED  BY <2>1, <2>2
<1>4. \A j, k \in DOMAIN st2 :
        j # k /\ st2[j].current_match # None => st2[j].current_match # st2[k].current_match
  BY <1>1, <1>2 DEF Kept
<1>5. ASSUME NEW k \in DOMAIN st2
      PROVE  /\ IsInjective(st2[k].remaining_matches)
             /\ Range(st2[k].remaining_matches) \subseteq Range(free) \union Above(st2, k)
  BY <1>1, <1>2, <1>3 DEF Kept
<1> QED  BY <1>3, <1>4, <1>5 DEF Kept, st2

LEMMA KeptTake ==
  ASSUME NEW E, Entries(E), NEW st \in Seq(E), NEW st2 \in Seq(E), SameBelow(st, st2),
         st # <<>>, Last(st).current_match = None,
         NEW k \in DOMAIN Last(st).remaining_matches,
         Last(st2).current_match = Last(st).remaining_matches[k],
         Last(st2).remaining_matches = SubSeq(Last(st).remaining_matches, 1, k - 1),
         NEW free \in Seq(Nat), NEW all, Kept(free, st, all)
  PROVE  /\ Last(st).remaining_matches[k] \in Range(free)
         /\ Without(free, Last(st).remaining_matches[k]) \in Seq(Nat)
         /\ Kept(Without(free, Last(st).remaining_matches[k]), st2, all)
<1> DEFINE n    == Len(st)
           rm   == Last(st).remaining_matches
           t    == rm[k]
           less == Without(free, t)
<1>0. n \in Nat \ {0}
  BY LastFront
<1>1. /\ n \in Nat \ {0} /\ Len(st2) = n /\ Last(st) = st[n] /\ Last(st) \in E
      /\ Last(st2) = st2[n] /\ DOMAIN st = 1..n /\ DOMAIN st2 = 1..n
  BY LastFront, LenProperties DEF Last, SameBelow
<1>2. rm \in Seq(Nat) /\ IsInjective(rm) /\ Range(rm) \subseteq Range(free)
  <2>1. Above(st, n) = {}
    BY <1>1, InAbove
  <2>2. n \in 1..n
    BY <1>1
  <2>3. /\ IsInjective(st[n].remaining_matches)
        /\ Range(st[n].remaining_matches) \subseteq Range(free) \union Above(st, n)
    BY <2>2, KeptParts
  <2>4. rm \in Seq(Nat)
    BY <1>1 DEF Entries
  <2> QED  BY <2>1, <2>3, <2>4, <1>1
<1>3. k \in 1..Len(rm) /\ t \in Range(rm) /\ t \in Range(free)
  BY <1>2, InRange
<1>4. /\ IsInjective(SubSeq(rm, 1, k - 1))
      /\ Range(SubSeq(rm, 1, k - 1)) \subseteq Range(rm) \ {t}
  BY <1>2, <1>3, Prefix
<1>5. less \in Seq(Nat) /\ IsInjective(less) /\ Range(less) = Range(free) \ {t}
  BY <1>3, WithoutRemoves DEF Kept
<1>6. t # None /\ t \in Nat
  <2>1. t \in Nat
    BY <1>3, InRange
  <2> QED  BY <2>1, MapperAssumption
<1>7. /\ st2[n].current_match = t
      /\ st2[n].remaining_matches = SubSeq(rm, 1, k - 1)
  BY <1>1
<1>8. t \notin Above(st, 0)
  BY <1>3 DEF Kept
<1> HIDE DEF rm, t, less
<1>9. \A j \in 1 .. n - 1 : /\ st2[j].current_match = st[j].current_match
                            /\ st2[j].remaining_matches = st[j].remaining_matches
                            /\ st[j].current_match # t
  BY <1>1, <1>6, <1>8, InAbove DEF SameBelow
<1>10. ASSUME NEW i \in Nat, NEW x \in Above(st, i)
       PROVE  x \in Above(st2, i) /\ x # t
  <2>1. PICK j \in i + 1 .. n : x = st[j].current_match /\ x # None
    BY <1>10, InAbove
  <2>2. j \in 1 .. n - 1
    BY <2>1, <1>1
  <2> QED  BY <2>1, <2>2, <1>1, <1>9, InAbove
<1>11. ASSUME NEW i \in Nat, NEW x \in Above(st2, i)
       PROVE  x \in Above(st, i) \/ x = t
  <2>1. PICK j \in i + 1 .. n : x = st2[j].current_match /\ x # None
    BY <1>1, <1>11, InAbove
  <2>2. CASE j = n
    BY <2>1, <2>2, <1>7
  <2>3. CASE j # n
    <3>1. j \in 1 .. n - 1 /\ j \in i + 1 .. Len(st)
      BY <2>3, <1>0
    <3> QED  BY <3>1, <2>1, <1>9, InAbove
  <2> QED  BY <2>2, <2>3
<1>12. ASSUME NEW i \in Nat, i < n
       PROVE  t \in Above(st2, i)
  <2>1. n \in i + 1 .. Len(st2)
    BY <1>1, <1>12
  <2> QED  BY <2>1, <1>6, <1>7, InAbove
<1>13. \A i, j \in 1..n :
         i # j /\ st2[i].current_match # None => st2[i].current_match # st2[j].current_match
  BY <1>1, <1>7, <1>9 DEF Kept
<1>14. ASSUME NEW i \in 1..n
       PROVE  /\ IsInjective(st2[i].remaining_matches)
              /\ Range(st2[i].remaining_matches) \subseteq Range(less) \union Above(st2, i)
  <2>1. CASE i = n
    BY <2>1, <1>2, <1>4, <1>5, <1>7
  <2>2. CASE i < n
    <3>1. /\ IsInjective(st2[i].remaining_matches)
          /\ Range(st2[i].remaining_matches) \subseteq Range(free) \union Above(st, i)
      <4>1. i \in 1 .. n - 1
        BY <2>2, <1>0
      <4> QED  BY <4>1, <1>1, <1>9, KeptParts
    <3>2. i \in Nat
      OBVIOUS
    <3>3. t \in Above(st2, i)
      BY <3>2, <2>2, <1>12
    <3>4. Above(st, i) \subseteq Above(st2, i)
      BY <3>2, <1>10
    <3> QED  BY <3>1, <3>3, <3>4, <1>5
  <2>3. i = n \/ i < n
    BY <1>0
  <2> QED  BY <2>1, <2>2, <2>3
<1>15. Range(less) \intersect Above(st2, 0) = {} /\ Range(less) \union Above(st2, 0) = all
  <2>1. 0 \in Nat /\ 0 < n
    BY <1>1
  <2>2. Range(free) \intersect Above(st, 0) = {} /\ Range(free) \union Above(st, 0) = all
    BY DEF Kept
  <2> QED  BY <2>1, <2>2, <1>3, <1>5, <1>10, <1>11, <1>12
<1>16. Kept(less, st2, all)
  BY <1>1, <1>5, <1>13, <1>14, <1>15 DEF Kept
<1> QED  BY <1>3, <1>5, <1>16 DEF rm, t, less

-----------------------------------------------------------------------------
(***************************************************************************)
(* Pools and requirements                                                  *)
(***************************************************************************)
LEMMA MachinesListed ==
  ASSUME NEW ms, IsMachines(ms), NEW v
  PROVE  /\ Listed(ms, v) \subseteq DOMAIN ms /\ Listed(ms, v) \subseteq Nat
         /\ IsFiniteSet(Listed(ms, v))
         /\ DOMAIN ms \subseteq Nat /\ IsFiniteSet(DOMAIN ms)
         /\ \A p \in DOMAIN ms : /\ DOMAIN ms[p].interfaces \subseteq Nat
                                 /\ IsFiniteSet(DOMAIN ms[p].interfaces)
BY FS_Subset DEF IsMachines, Listed

LEMMA PoolMachines ==
  ASSUME TypeOK, NEW k \in 0..Len(pools)
  PROVE  IsMachines(PoolNamed(k)) /\ (k > 0 => k \in DOMAIN pools)
<1>1. /\ pools \in Seq(Range(pools)) /\ \A n \in DOMAIN pools : IsMachines(pools[n])
  BY MapperAssumption DEF TypeOK
<1>2. DOMAIN pools = 1..Len(pools) /\ Len(pools) \in Nat
  BY <1>1, LenProperties
<1>3. k > 0 => k \in DOMAIN pools
  BY <1>2
<1>4. IsMachines(NoMachines)
  <2>1. DOMAIN NoMachines = {}
    BY DEF NoMachines
  <2> QED  BY <2>1, FS_EmptySet DEF IsMachines
<1> QED  BY <1>1, <1>2, <1>3, <1>4 DEF PoolNamed

LEMMA CallMachines ==
  ASSUME NEW c \in Calls \union {NoCall}
  PROVE  IsMachines(c.mreqs)
<1>1. c \in Calls => IsMachines(c.mreqs)
  BY MapperAssumption
<1>2. IsMachines(NoCall.mreqs)
  <2>1. DOMAIN NoCall.mreqs = {}
    BY DEF NoCall
  <2> QED  BY <2>1, FS_EmptySet DEF IsMachines
<1> QED  BY <1>1, <1>2

LEMMA NumberOfPools ==
  ASSUME TypeOK
  PROVE  Len(pools) \in Nat
<1>1. pools \in Seq(Range(pools))
  BY MapperAssumption DEF TypeOK
<1> QED  BY <1>1, LenProperties

LEMMA NoIds ==
  MIds(<<>>) = <<>> /\ IfIds(<<>>) = <<>>
BY DEF MIds, IfIds

(***************************************************************************)
(* A pass starts with nothing on the stack, and a pool may be given up     *)
(* with nothing on the stack.                                              *)
(***************************************************************************)
LEMMA ConsistentStart ==
  ASSUME NEW ms, NEW req, IsMachines(ms), IsMachines(req), NEW v,
         NEW free \in SortedDown(Listed(ms, v)), NEW left,
         IsInjective(left), Range(left) = DOMAIN req,
         NEW given, DOMAIN given = {}
  PROVE  Consistent(<<>>, free, left, given, req, ms, v) /\ free \in Seq(Nat)
<1>1. free \in Seq(Nat) /\ IsInjective(free) /\ Range(free) = Listed(ms, v)
  BY MachinesListed, Sorted
<1>2. Kept(free, <<>>, Listed(ms, v))
  BY <1>1, KeptStart
<1>3. Split(left, MIds(<<>>), DOMAIN req)
  BY SplitStart, NoIds
<1>4. \A k \in DOMAIN <<>> : IfsKept(<<>>[k], req, ms, v)
  OBVIOUS
<1>5. LabelsGiven(<<>>, given, req, ms)
  BY DEF LabelsGiven, Port
<1> QED  BY <1>1, <1>2, <1>3, <1>4, <1>5 DEF Consistent

LEMMA PassStarts ==
  ASSUME TypeOK, UNCHANGED pools, NEW mreqs, IsMachines(mreqs), NEW v \in BOOLEAN,
         reset_match_state(mreqs, v), virtual_matching' = v,
         call'.mreqs = mreqs, call' \in Calls \union {NoCall},
         calls' \in 0..MaxCalls, tried' \in Seq(BOOLEAN), Len(tried') <= 2
  PROVE  MInv'
<1>1. Len(pools) \in Nat
  BY NumberOfPools
<1>2. /\ pool_name' \in 0..Len(pools) /\ pool_stack' \in 0..Len(pools)
      /\ pool' = PoolNamed(pool_name')
  <2>1. pool_name' \in 0..Len(pools) /\ pool_stack' \in 0..Len(pools)
    BY <1>1 DEF reset_match_state
  <2>2. pool' = PoolNamed(pool_name')
    BY DEF pool, PoolNamed
  <2> QED  BY <2>1, <2>2
<1>3. IsMachines(pool')
  BY <1>2, PoolMachines
<1>4. /\ unmatched_req_machines' \in Seq(Nat) /\ IsInjective(unmatched_req_machines')
      /\ Range(unmatched_req_machines') = DOMAIN mreqs
  BY Sorted DEF reset_match_state, IsMachines
<1>5. /\ machine_stack' = <<>> /\ DOMAIN net_label_mapping' = {}
      /\ unmatched_pool_machines' \in SortedDown(Listed(pool', v))
      /\ pc' \in {"push_machine", "match"}
      /\ pc' = "push_machine" => DOMAIN mreqs # {}
  BY <1>2 DEF reset_match_state
<1>6. /\ Consistent(<<>>, unmatched_pool_machines', unmatched_req_machines',
                    net_label_mapping', mreqs, pool', v)
      /\ unmatched_pool_machines' \in Seq(Nat)
  BY <1>3, <1>4, <1>5, ConsistentStart
<1>7. TypeOK'
  BY <1>2, <1>4, <1>5, <1>6 DEF TypeOK
<1>8. OnStack'
  <2>1. pc' = "push_machine" => unmatched_req_machines' # <<>>
    BY <1>4, <1>5 DEF Range
  <2> QED  BY <2>1, <1>5 DEF OnStack
<1>9. Finished'
  BY <1>5 DEF Finished
<1> QED  BY <1>5, <1>6, <1>7, <1>8, <1>9 DEF MInv

(***************************************************************************)
(* The machines and the interfaces that the stacks are about               *)
(***************************************************************************)
LEMMA MIdsSeq ==
  ASSUME NEW st \in Seq(MachineMatch)
  PROVE  MIds(st) \in Seq(Nat) /\ Len(MIds(st)) = Len(st)
<1>1. Len(st) \in Nat /\ \A i \in 1..Len(st) : st[i].m_id \in Nat
  <2>1. ASSUME NEW i \in 1..Len(st)
        PROVE  st[i].m_id \in Nat
    <3>1. st[i] \in MachineMatch
      BY ElementOfSeq
    <3> QED  BY <3>1 DEF MachineMatch
  <2> QED  BY <2>1, LenProperties
<1>2. MIds(st) \in [1..Len(st) -> Nat] /\ DOMAIN MIds(st) = 1..Len(st)
  BY <1>1 DEF MIds
<1>3. MIds(st) \in Seq(Nat)
  BY <1>1, <1>2
<1> QED  BY <1>1, <1>2, <1>3, LenProperties

LEMMA MIdsAppend ==
  ASSUME NEW st \in Seq(MachineMatch), NEW e \in MachineMatch
  PROVE  MIds(st) \in Seq(Nat) /\ MIds(Append(st, e)) = Append(MIds(st), e.m_id)
<1>1. /\ Append(st, e) \in Seq(MachineMatch) /\ Len(Append(st, e)) = Len(st) + 1
      /\ Len(st) \in Nat /\ Append(st, e)[Len(st) + 1] = e
      /\ \A i \in 1..Len(st) : Append(st, e)[i] = st[i] /\ st[i] \in MachineMatch
  BY Appended, ElementOfSeq
<1>2. MIds(st) \in Seq(Nat) /\ Len(MIds(st)) = Len(st) /\ e.m_id \in Nat
  BY <1>1, MIdsSeq DEF MachineMatch
<1>3. MIds(Append(st, e)) \in Seq(Nat) /\ Len(MIds(Append(st, e))) = Len(st) + 1
  BY <1>1, MIdsSeq
<1>4. /\ Append(MIds(st), e.m_id) \in Seq(Nat)
      /\ Len(Append(MIds(st), e.m_id)) = Len(st) + 1
      /\ Append(MIds(st), e.m_id)[Len(st) + 1] = e.m_id
      /\ \A i \in 1..Len(st) : Append(MIds(st), e.m_id)[i] = MIds(st)[i]
  BY <1>2, Appended
<1>5. ASSUME NEW i \in 1 .. Len(st) + 1
      PROVE  MIds(Append(st, e))[i] = Append(MIds(st), e.m_id)[i]
  <2>1. MIds(Append(st, e))[i] = Append(st, e)[i].m_id
    BY <1>1 DEF MIds
  <2>2. CASE i = Len(st) + 1
    BY <2>1, <2>2, <1>1, <1>4
  <2>3. CASE i \in 1..Len(st)
    BY <2>1, <2>3, <1>1, <1>4 DEF MIds
  <2>4. Len(st) \in Nat
    BY <1>1
  <2>5. i = Len(st) + 1 \/ i \in 1..Len(st)
    BY <2>4
  <2> QED  BY <2>2, <2>3, <2>5
<1> QED  BY <1>2, <1>3, <1>4, <1>5, SeqEqual

LEMMA MIdsFront ==
  ASSUME NEW st \in Seq(MachineMatch), st # <<>>
  PROVE  /\ MIds(st) \in Seq(Nat) /\ MIds(st) # <<>>
         /\ MIds(Front(st)) = Front(MIds(st)) /\ Last(MIds(st)) = Last(st).m_id
<1>1. /\ Len(st) \in Nat \ {0} /\ Front(st) \in Seq(MachineMatch)
      /\ Last(st) \in MachineMatch /\ Last(st) = st[Len(st)]
      /\ Len(Front(st)) = Len(st) - 1
      /\ \A i \in 1 .. Len(st) - 1 : Front(st)[i] = st[i]
  BY LastFront
<1>2. MIds(st) \in Seq(Nat) /\ Len(MIds(st)) = Len(st)
  BY MIdsSeq
<1>3. MIds(Front(st)) \in Seq(Nat) /\ Len(MIds(Front(st))) = Len(st) - 1
  BY <1>1, MIdsSeq
<1>4. MIds(st) # <<>>
  BY <1>1, <1>2
<1>5. /\ Front(MIds(st)) \in Seq(Nat) /\ Len(Front(MIds(st))) = Len(st) - 1
      /\ Last(MIds(st)) = MIds(st)[Len(st)]
      /\ \A i \in 1 .. Len(st) - 1 : Front(MIds(st))[i] = MIds(st)[i]
  BY <1>2, <1>4, LastFront
<1>6. \A i \in 1 .. Len(st) - 1 : MIds(Front(st))[i] = Front(MIds(st))[i]
  <2> SUFFICES ASSUME NEW i \in 1 .. Len(st) - 1
               PROVE  MIds(Front(st))[i] = Front(MIds(st))[i]
    OBVIOUS
  <2>1. i \in 1..Len(st) /\ i \in 1..Len(Front(st))
    BY <1>1
  <2>2. MIds(Front(st))[i] = Front(st)[i].m_id /\ MIds(st)[i] = st[i].m_id
    BY <2>1 DEF MIds
  <2> QED  BY <2>2, <1>1, <1>5
<1>7. MIds(Front(st)) = Front(MIds(st))
  BY <1>3, <1>5, <1>6, SeqEqual
<1>8. Last(MIds(st)) = Last(st).m_id
  BY <1>1, <1>5 DEF MIds
<1> QED  BY <1>2, <1>4, <1>7, <1>8

LEMMA IfIdsDomain ==
  ASSUME NEW st
  PROVE  DOMAIN IfIds(st) = 1..Len(st)
BY DEF IfIds

LEMMA IfIdsSeq ==
  ASSUME NEW st \in Seq(IfMatch)
  PROVE  IfIds(st) \in Seq(Nat) /\ Len(IfIds(st)) = Len(st)
<1>1. Len(st) \in Nat /\ \A i \in 1..Len(st) : st[i].if_id \in Nat
  <2>1. ASSUME NEW i \in 1..Len(st)
        PROVE  st[i].if_id \in Nat
    <3>1. st[i] \in IfMatch
      BY ElementOfSeq
    <3> QED  BY <3>1 DEF IfMatch
  <2> QED  BY <2>1, LenProperties
<1>2. IfIds(st) \in [1..Len(st) -> Nat] /\ DOMAIN IfIds(st) = 1..Len(st)
  BY <1>1 DEF IfIds
<1>3. IfIds(st) \in Seq(Nat)
  BY <1>1, <1>2
<1> QED  BY <1>1, <1>2, <1>3, LenProperties

LEMMA IfIdsAppend ==
  ASSUME NEW st \in Seq(IfMatch), NEW e \in IfMatch
  PROVE  IfIds(st) \in Seq(Nat) /\ IfIds(Append(st, e)) = Append(IfIds(st), e.if_id)
<1>1. /\ Append(st, e) \in Seq(IfMatch) /\ Len(Append(st, e)) = Len(st) + 1
      /\ Len(st) \in Nat /\ Append(st, e)[Len(st) + 1] = e
      /\ \A i \in 1..Len(st) : Append(st, e)[i] = st[i] /\ st[i] \in IfMatch
  BY Appended, ElementOfSeq
<1>2. IfIds(st) \in Seq(Nat) /\ Len(IfIds(st)) = Len(st) /\ e.if_id \in Nat
  BY <1>1, IfIdsSeq DEF IfMatch
<1>3. IfIds(Append(st, e)) \in Seq(Nat) /\ Len(IfIds(Append(st, e))) = Len(st) + 1
  BY <1>1, IfIdsSeq
<1>4. /\ Append(IfIds(st), e.if_id) \in Seq(Nat)
      /\ Len(Append(IfIds(st), e.if_id)) = Len(st) + 1
      /\ Append(IfIds(st), e.if_id)[Len(st) + 1] = e.if_id
      /\ \A i \in 1..Len(st) : Append(IfIds(st), e.if_id)[i] = IfIds(st)[i]
  BY <1>2, Appended
<1>5. ASSUME NEW i \in 1 .. Len(st) + 1
      PROVE  IfIds(Append(st, e))[i] = Append(IfIds(st), e.if_id)[i]
  <2>1. IfIds(Append(st, e))[i] = Append(st, e)[i].if_id
    BY <1>1 DEF IfIds
  <2>2. CASE i = Len(st) + 1
    BY <2>1, <2>2, <1>1, <1>4
  <2>3. CASE i \in 1..Len(st)
    BY <2>1, <2>3, <1>1, <1>4 DEF IfIds
  <2>4. Len(st) \in Nat
    BY <1>1
  <2>5. i = Len(st) + 1 \/ i \in 1..Len(st)
    BY <2>4
  <2> QED  BY <2>2, <2>3, <2>5
<1> QED  BY <1>2, <1>3, <1>4, <1>5, SeqEqual

LEMMA IfIdsFront ==
  ASSUME NEW st \in Seq(IfMatch), st # <<>>
  PROVE  /\ IfIds(st) \in Seq(Nat) /\ IfIds(st) # <<>>
         /\ IfIds(Front(st)) = Front(IfIds(st)) /\ Last(IfIds(st)) = Last(st).if_id
<1>1. /\ Len(st) \in Nat \ {0} /\ Front(st) \in Seq(IfMatch)
      /\ Last(st) \in IfMatch /\ Last(st) = st[Len(st)]
      /\ Len(Front(st)) = Len(st) - 1
      /\ \A i \in 1 .. Len(st) - 1 : Front(st)[i] = st[i]
  BY LastFront
<1>2. IfIds(st) \in Seq(Nat) /\ Len(IfIds(st)) = Len(st)
  BY IfIdsSeq
<1>3. IfIds(Front(st)) \in Seq(Nat) /\ Len(IfIds(Front(st))) = Len(st) - 1
  BY <1>1, IfIdsSeq
<1>4. IfIds(st) # <<>>
  BY <1>1, <1>2
<1>5. /\ Front(IfIds(st)) \in Seq(Nat) /\ Len(Front(IfIds(st))) = Len(st) - 1
      /\ Last(IfIds(st)) = IfIds(st)[Len(st)]
      /\ \A i \in 1 .. Len(st) - 1 : Front(IfIds(st))[i] = IfIds(st)[i]
  BY <1>2, <1>4, LastFront
<1>6. \A i \in 1 .. Len(st) - 1 : IfIds(Front(st))[i] = Front(IfIds(st))[i]
  <2> SUFFICES ASSUME NEW i \in 1 .. Len(st) - 1
               PROVE  IfIds(Front(st))[i] = Front(IfIds(st))[i]
    OBVIOUS
  <2>1. i \in 1..Len(st) /\ i \in 1..Len(Front(st))
    BY <1>1
  <2>2. IfIds(Front(st))[i] = Front(st)[i].if_id /\ IfIds(st)[i] = st[i].if_id
    BY <2>1 DEF IfIds
  <2> QED  BY <2>2, <1>1, <1>5
<1>7. IfIds(Front(st)) = Front(IfIds(st))
  BY <1>3, <1>5, <1>6, SeqEqual
<1>8. Last(IfIds(st)) = Last(st).if_id
  BY <1>1, <1>5 DEF IfIds
<1> QED  BY <1>2, <1>4, <1>7, <1>8

-----------------------------------------------------------------------------
(***************************************************************************)
(* Labels                                                                  *)
(***************************************************************************)
\* what a port's label and network depend on
SameAt(st, st2, j, n) ==
  /\ st2[j].m_id = st[j].m_id
  /\ st2[j].current_match = st[j].current_match
  /\ st2[j].if_stack[n].if_id = st[j].if_stack[n].if_id
  /\ st2[j].if_stack[n].current_match = st[j].if_stack[n].current_match

LEMMA SameLabel ==
  ASSUME NEW st, NEW st2, NEW j, NEW n, SameAt(st, st2, j, n), NEW req, NEW ms
  PROVE  /\ LabelAt(st2, req, j, n) = LabelAt(st, req, j, n)
         /\ NetworkAt(st2, ms, j, n) = NetworkAt(st, ms, j, n)
         /\ Gift(st2, ms, j, n) = Gift(st, ms, j, n)
BY DEF SameAt, LabelAt, NetworkAt, Gift

LEMMA LabelsSame ==
  ASSUME NEW st, NEW st2, NEW given, NEW req, NEW ms, LabelsGiven(st, given, req, ms),
         \A j, n \in Nat : Port(st2, j, n) <=> Port(st, j, n),
         \A j, n \in Nat : Port(st, j, n) => SameAt(st, st2, j, n)
  PROVE  LabelsGiven(st2, given, req, ms)
<1>1. ASSUME NEW j \in Nat, NEW n \in Nat, Port(st2, j, n)
      PROVE  /\ LabelAt(st2, req, j, n) \in DOMAIN given
             /\ given[LabelAt(st2, req, j, n)].network = NetworkAt(st2, ms, j, n)
  <2>1. Port(st, j, n) /\ SameAt(st, st2, j, n)
    BY <1>1
  <2>2. /\ LabelAt(st2, req, j, n) = LabelAt(st, req, j, n)
        /\ NetworkAt(st2, ms, j, n) = NetworkAt(st, ms, j, n)
    BY <2>1, SameLabel
  <2>3. /\ LabelAt(st, req, j, n) \in DOMAIN given
        /\ given[LabelAt(st, req, j, n)].network = NetworkAt(st, ms, j, n)
    BY <2>1 DEF LabelsGiven
  <2> QED  BY <2>2, <2>3
<1>2. ASSUME NEW l \in DOMAIN given
      PROVE  \E j, n \in Nat : First(st2, req, l, j, n) /\ given[l] = Gift(st2, ms, j, n)
  <2>1. PICK j \in Nat, n \in Nat : First(st, req, l, j, n) /\ given[l] = Gift(st, ms, j, n)
    BY DEF LabelsGiven
  <2>2. Port(st2, j, n) /\ LabelAt(st2, req, j, n) = l /\ given[l] = Gift(st2, ms, j, n)
    BY <2>1, SameLabel DEF First
  <2>3. ASSUME NEW x \in Nat, NEW y \in Nat, Port(st2, x, y), LabelAt(st2, req, x, y) = l
        PROVE  j < x \/ (j = x /\ n <= y)
    <3>1. Port(st, x, y) /\ LabelAt(st, req, x, y) = l
      BY <2>3, SameLabel
    <3> QED  BY <2>1, <3>1 DEF First
  <2> QED  BY <2>2, <2>3 DEF First
<1> QED  BY <1>1, <1>2 DEF LabelsGiven

(* <<J, N>> is the last port of st that holds a match, and no other port of *)
(* the stacks has its ids.                                                  *)
OnlyLastPort(st, J, N) ==
  /\ Port(st, J, N)
  /\ \A j, n \in Nat : Port(st, j, n) => j < J \/ (j = J /\ n <= N)
  /\ \A j, n \in Nat : Port(st, j, n) /\ st[j].m_id = st[J].m_id
                         /\ st[j].if_stack[n].if_id = st[J].if_stack[N].if_id
                           => j = J /\ n = N

(* st2 has the ports of st except <<J, N>>, and what st has at them. *)
PortGone(st, st2, J, N) ==
  /\ \A j, n \in Nat : Port(st2, j, n) <=> Port(st, j, n) /\ ~(j = J /\ n = N)
  /\ \A j, n \in Nat : Port(st2, j, n) => SameAt(st, st2, j, n)

LabelGone(st, given, req, ms, J, N) ==
  IF given[LabelAt(st, req, J, N)] = Gift(st, ms, J, N)
    THEN Restrict(given, DOMAIN given \ {LabelAt(st, req, J, N)})
    ELSE given

(***************************************************************************)
(* The last port of all gives up what it has.                              *)
(***************************************************************************)
LEMMA LabelsGivenUp ==
  ASSUME NEW st, NEW st2, NEW given, NEW given2, NEW req, NEW ms,
         LabelsGiven(st, given, req, ms),
         NEW J \in Nat, NEW N \in Nat, OnlyLastPort(st, J, N),
         PortGone(st, st2, J, N), given2 = LabelGone(st, given, req, ms, J, N)
  PROVE  LabelsGiven(st2, given2, req, ms)
<1> USE DEF OnlyLastPort, PortGone, LabelGone
<1> DEFINE L == LabelAt(st, req, J, N)
<1>1. ASSUME NEW l, NEW j \in Nat, NEW n \in Nat,
             First(st, req, l, j, n), given[l] = Gift(st, ms, j, n), ~(j = J /\ n = N)
      PROVE  First(st2, req, l, j, n) /\ given[l] = Gift(st2, ms, j, n)
  <2>1. Port(st2, j, n) /\ LabelAt(st2, req, j, n) = l /\ given[l] = Gift(st2, ms, j, n)
    <3>1. Port(st, j, n) /\ LabelAt(st, req, j, n) = l
      BY <1>1 DEF First
    <3>2. Port(st2, j, n) /\ SameAt(st, st2, j, n)
      BY <1>1, <3>1
    <3>3. /\ LabelAt(st2, req, j, n) = LabelAt(st, req, j, n)
          /\ Gift(st2, ms, j, n) = Gift(st, ms, j, n)
      BY <3>2, SameLabel
    <3> QED  BY <1>1, <3>1, <3>2, <3>3
  <2>2. ASSUME NEW x \in Nat, NEW y \in Nat, Port(st2, x, y), LabelAt(st2, req, x, y) = l
        PROVE  j < x \/ (j = x /\ n <= y)
    <3>1. Port(st, x, y) /\ LabelAt(st, req, x, y) = l
      BY <2>2, SameLabel
    <3> QED  BY <1>1, <3>1 DEF First
  <2> QED  BY <2>1, <2>2 DEF First
<1>2. ASSUME given[L] = Gift(st, ms, J, N)
      PROVE  LabelsGiven(st2, given2, req, ms)
  <2>1. DOMAIN given2 = DOMAIN given \ {L} /\ \A l \in DOMAIN given2 : given2[l] = given[l]
    BY <1>2 DEF Restrict
  <2>2. First(st, req, L, J, N)
    <3>1. L \in DOMAIN given
      BY DEF LabelsGiven
    <3>2. PICK j \in Nat, n \in Nat : First(st, req, L, j, n) /\ given[L] = Gift(st, ms, j, n)
      BY <3>1 DEF LabelsGiven
    <3>3. /\ Port(st, j, n) /\ st[j].m_id = st[J].m_id
          /\ st[j].if_stack[n].if_id = st[J].if_stack[N].if_id
      BY <3>2, <1>2 DEF First, Gift
    <3> QED  BY <3>2, <3>3
  <2>3. ASSUME NEW j \in Nat, NEW n \in Nat, Port(st, j, n), LabelAt(st, req, j, n) = L
        PROVE  j = J /\ n = N
    <3>1. J < j \/ (J = j /\ N <= n)
      BY <2>2, <2>3 DEF First
    <3>2. j < J \/ (j = J /\ n <= N)
      BY <2>3
    <3> QED  BY <3>1, <3>2
  <2>4. ASSUME NEW j \in Nat, NEW n \in Nat, Port(st2, j, n)
        PROVE  /\ LabelAt(st2, req, j, n) \in DOMAIN given2
               /\ given2[LabelAt(st2, req, j, n)].network = NetworkAt(st2, ms, j, n)
    <3>1. /\ Port(st, j, n) /\ ~(j = J /\ n = N)
          /\ LabelAt(st2, req, j, n) = LabelAt(st, req, j, n)
          /\ NetworkAt(st2, ms, j, n) = NetworkAt(st, ms, j, n)
      BY <2>4, SameLabel
    <3>2. LabelAt(st, req, j, n) # L
      BY <3>1, <2>3
    <3>3. /\ LabelAt(st, req, j, n) \in DOMAIN given
          /\ given[LabelAt(st, req, j, n)].network = NetworkAt(st, ms, j, n)
      BY <3>1 DEF LabelsGiven
    <3> QED  BY <3>1, <3>2, <3>3, <2>1
  <2>5. ASSUME NEW l \in DOMAIN given2
        PROVE  \E j, n \in Nat : First(st2, req, l, j, n) /\ given2[l] = Gift(st2, ms, j, n)
    <3>1. PICK j \in Nat, n \in Nat : First(st, req, l, j, n) /\ given[l] = Gift(st, ms, j, n)
      BY <2>1 DEF LabelsGiven
    <3>2. ~(j = J /\ n = N)
      <4>1. LabelAt(st, req, j, n) = l /\ l # L
        BY <3>1, <2>1 DEF First
      <4> QED  BY <4>1
    <3>3. First(st2, req, l, j, n) /\ given[l] = Gift(st2, ms, j, n)
      <4>1. First(st, req, l, j, n) /\ given[l] = Gift(st, ms, j, n)
        BY <3>1
      <4> QED  BY ONLY <4>1, <3>2, <1>1, j \in Nat, n \in Nat
    <3> QED  BY <3>3, <2>1
  <2>6. \A k, l \in DOMAIN given2 : given2[k].network = given2[l].network => k = l
    BY <2>1 DEF LabelsGiven
  <2> QED  BY <2>4, <2>5, <2>6 DEF LabelsGiven
<1>3. ASSUME given[L] # Gift(st, ms, J, N)
      PROVE  LabelsGiven(st2, given2, req, ms)
  <2>1. given2 = given
    BY <1>3
  <2>2. ASSUME NEW j \in Nat, NEW n \in Nat, Port(st2, j, n)
        PROVE  /\ LabelAt(st2, req, j, n) \in DOMAIN given2
               /\ given2[LabelAt(st2, req, j, n)].network = NetworkAt(st2, ms, j, n)
    <3>1. Port(st, j, n) /\ SameAt(st, st2, j, n)
      BY <2>2
    <3>2. /\ LabelAt(st2, req, j, n) = LabelAt(st, req, j, n)
          /\ NetworkAt(st2, ms, j, n) = NetworkAt(st, ms, j, n)
      BY <3>1, SameLabel
    <3>3. /\ LabelAt(st, req, j, n) \in DOMAIN given
          /\ given[LabelAt(st, req, j, n)].network = NetworkAt(st, ms, j, n)
      BY <3>1 DEF LabelsGiven
    <3> QED  BY <2>1, <3>2, <3>3
  <2>3. ASSUME NEW l \in DOMAIN given2
        PROVE  \E j, n \in Nat : First(st2, req, l, j, n) /\ given2[l] = Gift(st2, ms, j, n)
    <3>1. PICK j \in Nat, n \in Nat : First(st, req, l, j, n) /\ given[l] = Gift(st, ms, j, n)
      BY <2>1 DEF LabelsGiven
    <3>2. ~(j = J /\ n = N)
      <4>1. LabelAt(st, req, j, n) = l
        BY <3>1 DEF First
      <4> QED  BY <3>1, <4>1, <1>3
    <3>3. First(st2, req, l, j, n) /\ given[l] = Gift(st2, ms, j, n)
      <4>1. First(st, req, l, j, n) /\ given[l] = Gift(st, ms, j, n)
        BY <3>1
      <4> QED  BY ONLY <4>1, <3>2, <1>1, j \in Nat, n \in Nat
    <3> QED  BY <3>3, <2>1
  <2> QED  BY <2>1, <2>2, <2>3 DEF LabelsGiven
<1> QED  BY <1>2, <1>3

(***************************************************************************)
(* A port after all others takes what agrees with the labels.              *)
(***************************************************************************)
LEMMA LabelsTaken ==
  ASSUME NEW st, NEW st2, NEW given, NEW given2, NEW req, NEW ms,
         LabelsGiven(st, given, req, ms),
         NEW J \in Nat, NEW N \in Nat, ~Port(st, J, N),
         \A j, n \in Nat : Port(st, j, n) => j < J \/ (j = J /\ n <= N),
         \A j, n \in Nat : Port(st2, j, n) <=> Port(st, j, n) \/ (j = J /\ n = N),
         \A j, n \in Nat : Port(st, j, n) => SameAt(st, st2, j, n),
         \A l \in DOMAIN given :
           l = LabelAt(st2, req, J, N) <=> given[l].network = NetworkAt(st2, ms, J, N),
         given2 = WithLabel(given, LabelAt(st2, req, J, N), Gift(st2, ms, J, N))
  PROVE  LabelsGiven(st2, given2, req, ms)
<1> DEFINE L == LabelAt(st2, req, J, N)
<1>1. /\ DOMAIN given2 = DOMAIN given \union {L}
      /\ \A l \in DOMAIN given : given2[l] = given[l]
      /\ L \notin DOMAIN given => given2[L] = Gift(st2, ms, J, N)
  BY DEF WithLabel
<1>2. Gift(st2, ms, J, N).network = NetworkAt(st2, ms, J, N)
  BY DEF Gift
<1>3. given2[L].network = NetworkAt(st2, ms, J, N)
  BY <1>1, <1>2
<1>4. ASSUME NEW j \in Nat, NEW n \in Nat, Port(st2, j, n)
      PROVE  /\ LabelAt(st2, req, j, n) \in DOMAIN given2
             /\ given2[LabelAt(st2, req, j, n)].network = NetworkAt(st2, ms, j, n)
  <2>1. CASE j = J /\ n = N
    BY <2>1, <1>1, <1>3
  <2>2. CASE Port(st, j, n)
    <3>1. SameAt(st, st2, j, n)
      BY <2>2
    <3>2. /\ LabelAt(st2, req, j, n) = LabelAt(st, req, j, n)
          /\ NetworkAt(st2, ms, j, n) = NetworkAt(st, ms, j, n)
      BY <3>1, SameLabel
    <3>3. /\ LabelAt(st, req, j, n) \in DOMAIN given
          /\ given[LabelAt(st, req, j, n)].network = NetworkAt(st, ms, j, n)
      BY <2>2 DEF LabelsGiven
    <3> QED  BY <1>1, <3>2, <3>3
  <2> QED  BY <2>1, <2>2, <1>4
<1>5. ASSUME NEW l \in DOMAIN given
      PROVE  \E j, n \in Nat : First(st2, req, l, j, n) /\ given2[l] = Gift(st2, ms, j, n)
  <2>1. PICK j \in Nat, n \in Nat : First(st, req, l, j, n) /\ given[l] = Gift(st, ms, j, n)
    BY DEF LabelsGiven
  <2>2. Port(st2, j, n) /\ LabelAt(st2, req, j, n) = l /\ given2[l] = Gift(st2, ms, j, n)
    BY <2>1, <1>1, SameLabel DEF First
  <2>3. ASSUME NEW x \in Nat, NEW y \in Nat, Port(st2, x, y), LabelAt(st2, req, x, y) = l
        PROVE  j < x \/ (j = x /\ n <= y)
    <3>1. CASE Port(st, x, y)
      <4>1. LabelAt(st, req, x, y) = l
        BY <2>3, <3>1, SameLabel
      <4> QED  BY <2>1, <3>1, <4>1 DEF First
    <3>2. CASE x = J /\ y = N
      BY <3>2, <2>1 DEF First
    <3> QED  BY <2>3, <3>1, <3>2
  <2> QED  BY <2>2, <2>3 DEF First
<1>6. ASSUME L \notin DOMAIN given
      PROVE  First(st2, req, L, J, N) /\ given2[L] = Gift(st2, ms, J, N)
  <2>1. ASSUME NEW x \in Nat, NEW y \in Nat, Port(st2, x, y), LabelAt(st2, req, x, y) = L
        PROVE  x = J /\ y = N
    <3>1. ~Port(st, x, y)
      BY <1>6, <2>1, SameLabel DEF LabelsGiven
    <3> QED  BY <2>1, <3>1
  <2>2. Port(st2, J, N)
    OBVIOUS
  <2> QED  BY <2>1, <2>2, <1>1, <1>6 DEF First
<1>7. \A l \in DOMAIN given2 :
        \E j, n \in Nat : First(st2, req, l, j, n) /\ given2[l] = Gift(st2, ms, j, n)
  BY <1>1, <1>5, <1>6
<1>8. \A k, l \in DOMAIN given2 : given2[k].network = given2[l].network => k = l
  <2>1. \A l \in DOMAIN given : given2[l].network = given2[L].network => l = L
    BY <1>1, <1>3
  <2>2. \A k, l \in DOMAIN given : given2[k].network = given2[l].network => k = l
    BY <1>1 DEF LabelsGiven
  <2> QED  BY <2>1, <2>2, <1>1
<1> QED  BY <1>4, <1>7, <1>8 DEF LabelsGiven

-----------------------------------------------------------------------------
(***************************************************************************)
(* The machine on top of the stack                                         *)
(***************************************************************************)
LEMMA FrontOfAppend ==
  ASSUME NEW S, NEW s \in Seq(S), NEW e \in S
  PROVE  Front(Append(s, e)) = s
<1>1. /\ Append(s, e) \in Seq(S) /\ Append(s, e) # <<>> /\ Len(Append(s, e)) = Len(s) + 1
      /\ Len(s) \in Nat /\ \A i \in 1..Len(s) : Append(s, e)[i] = s[i]
  BY Appended
<1>2. /\ Front(Append(s, e)) \in Seq(S)
      /\ Len(Front(Append(s, e))) = Len(Append(s, e)) - 1
      /\ \A i \in 1 .. Len(Append(s, e)) - 1 : Front(Append(s, e))[i] = Append(s, e)[i]
  BY <1>1, LastFront
<1>3. Len(Append(s, e)) - 1 = Len(s)
  BY <1>1
<1>4. Len(Front(Append(s, e))) = Len(s)
  BY <1>2, <1>3
<1>5. \A i \in 1..Len(s) : Front(Append(s, e))[i] = s[i]
  BY <1>1, <1>2, <1>3
<1> QED  BY <1>2, <1>4, <1>5, SeqEqual

LEMMA FrontThenLast ==
  ASSUME NEW S, NEW s \in Seq(S), s # <<>>
  PROVE  Append(Front(s), Last(s)) = s
<1> DEFINE t == Append(Front(s), Last(s))
<1>1. Last(s) \in S /\ Last(s) = s[Len(s)] /\ Len(s) \in Nat \ {0}
  BY LastFront
<1>2. /\ t \in Seq(S) /\ Len(t) = Len(s) /\ t[Len(s)] = Last(s)
      /\ \A i \in 1 .. Len(s) - 1 : t[i] = s[i]
  BY <1>1, NewLast
<1> HIDE DEF t
<1>3. \A i \in 1..Len(s) : i \in 1 .. Len(s) - 1 \/ i = Len(s)
  BY <1>1
<1>4. \A i \in 1..Len(s) : t[i] = s[i]
  BY <1>1, <1>2, <1>3
<1>5. t = s
  BY <1>2, <1>4, SeqEqual
<1> QED  BY <1>5 DEF t

LEMMA NoneIsNoNumber ==
  \A n \in Nat : n # None
BY MapperAssumption

LEMMA EntriesTyped ==
  Entries(MachineMatch) /\ Entries(IfMatch)
BY DEF Entries, MachineMatch, IfMatch

LEMMA TopTyped ==
  ASSUME NEW st \in Seq(MachineMatch), st # <<>>
  PROVE  /\ Len(st) \in Nat \ {0} /\ Len(st) \in DOMAIN st /\ DOMAIN st = 1..Len(st)
         /\ Last(st) = st[Len(st)] /\ Last(st) \in MachineMatch
         /\ Last(st).if_stack \in Seq(IfMatch)
         /\ DOMAIN Last(st).if_stack = 1..Len(Last(st).if_stack)
         /\ Len(Last(st).if_stack) \in Nat
<1>1. /\ Len(st) \in Nat \ {0} /\ DOMAIN st = 1..Len(st)
      /\ Last(st) = st[Len(st)] /\ Last(st) \in MachineMatch
  BY LastFront, LenProperties
<1>2. Last(st).if_stack \in Seq(IfMatch)
  BY <1>1 DEF MachineMatch
<1>3. Len(st) \in DOMAIN st
  BY <1>1
<1> QED  BY <1>1, <1>2, <1>3, LenProperties

LEMMA NewTop ==
  ASSUME NEW st \in Seq(MachineMatch), st # <<>>, NEW m \in MachineMatch,
         m.m_id = Last(st).m_id
  PROVE  /\ Append(Front(st), m) \in Seq(MachineMatch)
         /\ Append(Front(st), m) # <<>>
         /\ Len(Append(Front(st), m)) = Len(st)
         /\ Last(Append(Front(st), m)) = m
         /\ Front(Append(Front(st), m)) = Front(st)
         /\ DOMAIN Append(Front(st), m) = 1..Len(st)
         /\ Append(Front(st), m)[Len(st)] = m
         /\ \A i \in 1 .. Len(st) - 1 : Append(Front(st), m)[i] = st[i]
         /\ SameBelow(st, Append(Front(st), m))
         /\ MIds(Append(Front(st), m)) = MIds(st)
<1> DEFINE st2 == Append(Front(st), m)
<1>1. /\ st2 \in Seq(MachineMatch) /\ st2 # <<>> /\ Len(st2) = Len(st) /\ Last(st2) = m
      /\ st2[Len(st)] = m /\ \A i \in 1 .. Len(st) - 1 : st2[i] = st[i]
  BY NewLast
<1>2. Front(st2) = Front(st)
  BY LastFront, FrontOfAppend
<1> HIDE DEF st2
<1>3. DOMAIN st2 = 1..Len(st)
  BY <1>1, LenProperties
<1>4. SameBelow(st, st2)
  BY <1>1 DEF SameBelow
<1>5. ASSUME NEW i \in 1..Len(st)
      PROVE  st2[i].m_id = st[i].m_id
  <2>1. CASE i = Len(st)
    BY <2>1, <1>1, TopTyped
  <2>2. CASE i \in 1 .. Len(st) - 1
    BY <2>2, <1>1
  <2>3. Len(st) \in Nat
    BY TopTyped
  <2>4. i = Len(st) \/ i \in 1 .. Len(st) - 1
    BY <2>3
  <2> QED  BY <2>1, <2>2, <2>4
<1>6. MIds(st2) = MIds(st)
  BY <1>1, <1>5 DEF MIds
<1> QED  BY <1>1, <1>2, <1>3, <1>4, <1>6 DEF st2

(***************************************************************************)
(* Where the ports are when the machine on top changes                     *)
(***************************************************************************)
LEMMA TopPorts ==
  ASSUME NEW st \in Seq(MachineMatch), st # <<>>, NEW m \in MachineMatch,
         m.m_id = Last(st).m_id
  PROVE  /\ \A j, n \in Nat : j # Len(st) =>
              /\ Port(Append(Front(st), m), j, n) <=> Port(st, j, n)
              /\ Port(st, j, n) => SameAt(st, Append(Front(st), m), j, n)
         /\ \A n \in Nat :
              /\ Port(st, Len(st), n) <=>
                   /\ n \in 1..Len(Last(st).if_stack)
                   /\ Last(st).if_stack[n].current_match # None
              /\ Port(Append(Front(st), m), Len(st), n) <=>
                   /\ n \in 1..Len(m.if_stack)
                   /\ m.if_stack[n].current_match # None
         /\ \A j, n \in Nat : Port(st, j, n) => j <= Len(st)
<1> DEFINE st2 == Append(Front(st), m)
           N   == Len(st)
<1>1. /\ N \in Nat \ {0} /\ DOMAIN st = 1..N /\ Last(st) = st[N]
      /\ DOMAIN Last(st).if_stack = 1..Len(Last(st).if_stack)
  BY TopTyped
<1>2. /\ DOMAIN st2 = 1..N /\ st2[N] = m /\ \A i \in 1 .. N - 1 : st2[i] = st[i]
  BY NewTop
<1>3. DOMAIN m.if_stack = 1..Len(m.if_stack)
  <2>1. m.if_stack \in Seq(IfMatch)
    BY DEF MachineMatch
  <2> QED  BY <2>1, LenProperties
<1> HIDE DEF st2, N
<1>4. ASSUME NEW j \in Nat, NEW n \in Nat, j # N
      PROVE  /\ Port(st2, j, n) <=> Port(st, j, n)
             /\ Port(st, j, n) => SameAt(st, st2, j, n)
  <2>1. CASE j \in 1..N
    <3>1. j \in 1 .. N - 1
      <4>1. N \in Nat
        BY <1>1
      <4> QED  BY <2>1, <1>4, <4>1
    <3> QED  BY <3>1, <2>1, <1>1, <1>2 DEF Port, SameAt
  <2>2. CASE j \notin 1..N
    BY <2>2, <1>1, <1>2 DEF Port
  <2> QED  BY <2>1, <2>2
<1>5. N \in 1..N
  BY <1>1
<1>6. ASSUME NEW n \in Nat
      PROVE  /\ Port(st, N, n) <=> /\ n \in 1..Len(Last(st).if_stack)
                                   /\ Last(st).if_stack[n].current_match # None
             /\ Port(st2, N, n) <=> /\ n \in 1..Len(m.if_stack)
                                    /\ m.if_stack[n].current_match # None
  BY <1>1, <1>2, <1>3, <1>5 DEF Port
<1>7. \A j, n \in Nat : Port(st, j, n) => j <= N
  BY <1>1 DEF Port
<1> QED  BY <1>4, <1>6, <1>7 DEF st2, N

(***************************************************************************)
(* Nothing matched on top changes.                                         *)
(***************************************************************************)
LEMMA TopPortsSame ==
  ASSUME NEW st \in Seq(MachineMatch), st # <<>>, NEW m \in MachineMatch,
         m.m_id = Last(st).m_id, m.if_stack = Last(st).if_stack,
         m.if_stack = <<>> \/ m.current_match = Last(st).current_match,
         NEW given, NEW req, NEW ms, LabelsGiven(st, given, req, ms)
  PROVE  LabelsGiven(Append(Front(st), m), given, req, ms)
<1> DEFINE st2 == Append(Front(st), m)
           N   == Len(st)
<1>1. /\ \A j, n \in Nat : j # N => /\ Port(st2, j, n) <=> Port(st, j, n)
                                    /\ Port(st, j, n) => SameAt(st, st2, j, n)
      /\ \A n \in Nat : Port(st2, N, n) <=> Port(st, N, n)
      /\ \A n \in Nat : Port(st, N, n) => m.if_stack # <<>>
  BY TopPorts
<1>2. st2[N] = m /\ st[N] = Last(st)
  BY NewTop, TopTyped
<1> HIDE DEF st2, N
<1>3. \A n \in Nat : Port(st, N, n) => SameAt(st, st2, N, n)
  BY <1>1, <1>2 DEF SameAt
<1>4. ASSUME NEW j \in Nat, NEW n \in Nat
      PROVE  /\ Port(st2, j, n) <=> Port(st, j, n)
             /\ Port(st, j, n) => SameAt(st, st2, j, n)
  <2>1. CASE j = N
    <3>1. /\ Port(st2, N, n) <=> Port(st, N, n)
          /\ Port(st, N, n) => SameAt(st, st2, N, n)
      BY <1>1, <1>3
    <3> QED  BY <2>1, <3>1
  <2>2. CASE j # N
    BY <2>2, <1>1
  <2> QED  BY <2>1, <2>2
<1>5. LabelsGiven(st2, given, req, ms)
  BY <1>4, LabelsSame
<1> QED  BY <1>5 DEF st2

LEMMA TopChanged ==
  ASSUME NEW st \in Seq(MachineMatch), st # <<>>, NEW m \in MachineMatch,
         m.m_id = Last(st).m_id,
         NEW free, NEW left, NEW given, NEW req, NEW ms, NEW v, NEW free2, NEW given2,
         Consistent(st, free, left, given, req, ms, v),
         Kept(free2, Append(Front(st), m), Listed(ms, v)),
         IfsKept(m, req, ms, v),
         LabelsGiven(Append(Front(st), m), given2, req, ms)
  PROVE  Consistent(Append(Front(st), m), free2, left, given2, req, ms, v)
<1> DEFINE st2 == Append(Front(st), m)
<1>1. /\ DOMAIN st2 = 1..Len(st) /\ st2[Len(st)] = m
      /\ \A i \in 1 .. Len(st) - 1 : st2[i] = st[i]
      /\ MIds(st2) = MIds(st)
  BY NewTop
<1>2. Len(st) \in Nat /\ DOMAIN st = 1..Len(st)
  BY TopTyped
<1> HIDE DEF st2
<1>3. ASSUME NEW k \in DOMAIN st2
      PROVE  IfsKept(st2[k], req, ms, v)
  <2>1. CASE k = Len(st)
    BY <2>1, <1>1
  <2>2. CASE k \in 1 .. Len(st) - 1
    <3>1. k \in DOMAIN st /\ st2[k] = st[k]
      BY <1>1, <1>2, <2>2
    <3> QED  BY <3>1 DEF Consistent
  <2>3. k = Len(st) \/ k \in 1 .. Len(st) - 1
    BY <1>1, <1>2
  <2> QED  BY <2>1, <2>2, <2>3
<1>4. Consistent(st2, free2, left, given2, req, ms, v)
  BY <1>1, <1>3 DEF Consistent, st2
<1> QED  BY <1>4 DEF st2

(***************************************************************************)
(* The next machine required comes on the stack.                           *)
(***************************************************************************)
LEMMA MachinePushed ==
  ASSUME NEW st \in Seq(MachineMatch), NEW free \in Seq(Nat), NEW left \in Seq(Nat),
         NEW given, NEW req, NEW ms, NEW v, IsMachines(req),
         Consistent(st, free, left, given, req, ms, v), left # <<>>,
         NEW ifs \in SortedDown(DOMAIN req[Last(left)].interfaces),
         NEW e, e = [m_id |-> Last(left), current_match |-> None,
                     remaining_matches |-> free, if_stack |-> <<>>,
                     unmatched_ifs |-> ifs, unmatched_pool_ifs |-> <<>>,
                     virt_matched |-> FALSE]
  PROVE  /\ Append(st, e) \in Seq(MachineMatch)
         /\ Consistent(Append(st, e), free, Front(left), given, req, ms, v)
<1> DEFINE st2 == Append(st, e)
<1>1. Last(left) \in Nat /\ Last(left) \in DOMAIN req /\ Last(left) \in Range(left)
  <2>1. Last(left) \in Range(left)
    BY RangeOfFront DEF Consistent, Split
  <2> QED  BY <2>1, LastFront DEF Consistent, Split
<1>2. /\ ifs \in Seq(Nat) /\ IsInjective(ifs)
      /\ Range(ifs) = DOMAIN req[Last(left)].interfaces
  BY <1>1, Sorted DEF IsMachines
<1>3. e \in MachineMatch
  <2>1. <<>> \in Seq(Nat) /\ <<>> \in Seq(IfMatch)
    BY EmptySeq
  <2> QED  BY <1>1, <1>2, <2>1 DEF MachineMatch
<1>4. /\ st2 \in Seq(MachineMatch) /\ Len(st2) = Len(st) + 1 /\ Len(st) \in Nat
      /\ st2[Len(st) + 1] = e /\ \A i \in 1..Len(st) : st2[i] = st[i]
      /\ MIds(st) \in Seq(Nat) /\ MIds(st2) = Append(MIds(st), Last(left))
  <2>1. /\ st2 \in Seq(MachineMatch) /\ Len(st2) = Len(st) + 1 /\ Len(st) \in Nat
        /\ st2[Len(st) + 1] = e /\ \A i \in 1..Len(st) : st2[i] = st[i]
    BY <1>3, Appended
  <2>2. MIds(st) \in Seq(Nat) /\ MIds(st2) = Append(MIds(st), e.m_id)
    BY <1>3, MIdsAppend
  <2>3. e.m_id = Last(left)
    OBVIOUS
  <2> QED  BY <2>1, <2>2, <2>3
<1>5. DOMAIN st = 1..Len(st) /\ DOMAIN st2 = 1 .. Len(st) + 1
  BY <1>4, LenProperties
<1>6. Kept(free, st2, Listed(ms, v))
  BY <1>3, KeptPush DEF Consistent
<1> HIDE DEF st2
<1>7. Split(Front(left), MIds(st2), DOMAIN req)
  BY <1>4, SplitPush DEF Consistent
<1>8. IfsKept(e, req, ms, v)
  <2>1. Split(ifs, IfIds(<<>>), DOMAIN req[Last(left)].interfaces)
    BY <1>2, SplitStart, NoIds
  <2> QED  BY <2>1 DEF IfsKept
<1>9. ASSUME NEW k \in DOMAIN st2
      PROVE  IfsKept(st2[k], req, ms, v)
  <2>1. k = Len(st) + 1 \/ k \in 1..Len(st)
    BY <1>4, <1>5
  <2>2. CASE k = Len(st) + 1
    BY <2>2, <1>4, <1>8
  <2>3. CASE k \in 1..Len(st)
    <3>1. k \in DOMAIN st /\ st2[k] = st[k]
      BY <2>3, <1>4, <1>5
    <3> QED  BY <3>1 DEF Consistent
  <2> QED  BY <2>1, <2>2, <2>3
<1>10. LabelsGiven(st2, given, req, ms)
  <2>1. ASSUME NEW j \in Nat, NEW n \in Nat
        PROVE  /\ Port(st2, j, n) <=> Port(st, j, n)
               /\ Port(st, j, n) => SameAt(st, st2, j, n)
    <3>1. CASE j \in 1..Len(st)
      BY <3>1, <1>4, <1>5 DEF Port, SameAt
    <3>2. CASE j = Len(st) + 1
      <4>1. DOMAIN st2[j].if_stack = {}
        BY <3>2, <1>4
      <4>2. j \notin DOMAIN st
        BY <3>2, <1>4, <1>5
      <4> QED  BY <4>1, <4>2 DEF Port
    <3>3. CASE j \notin 1 .. Len(st) + 1
      BY <3>3, <1>4, <1>5 DEF Port
    <3>4. j \in 1..Len(st) \/ j = Len(st) + 1 \/ j \notin 1 .. Len(st) + 1
      BY <1>4
    <3> QED  BY <3>1, <3>2, <3>3, <3>4
  <2> QED  BY <2>1, LabelsSame DEF Consistent
<1>11. Consistent(st2, free, Front(left), given, req, ms, v)
  BY <1>6, <1>7, <1>9, <1>10 DEF Consistent
<1> QED  BY <1>4, <1>11 DEF st2

(***************************************************************************)
(* The machine on top gives up what it has, and takes another machine or   *)
(* comes off the stack.                                                    *)
(***************************************************************************)
LEMMA MachineReleased ==
  ASSUME NEW st \in Seq(MachineMatch), NEW free \in Seq(Nat), NEW left,
         NEW given, NEW req, NEW ms, NEW v, st # <<>>, Last(st).if_stack = <<>>,
         Consistent(st, free, left, given, req, ms, v),
         NEW m \in MachineMatch, m.m_id = Last(st).m_id, m.current_match = None,
         m.remaining_matches = Last(st).remaining_matches, m.if_stack = <<>>,
         m.unmatched_ifs = Last(st).unmatched_ifs
  PROVE  /\ Release(free, Last(st)) \in Seq(Nat)
         /\ Consistent(Append(Front(st), m), Release(free, Last(st)), left,
                       given, req, ms, v)
<1> DEFINE st2 == Append(Front(st), m)
<1>1. st2 \in Seq(MachineMatch) /\ Last(st2) = m /\ SameBelow(st, st2)
  BY NewTop
<1>2. /\ Release(free, Last(st)) \in Seq(Nat)
      /\ Kept(Release(free, Last(st)), st2, Listed(ms, v))
  BY <1>1, EntriesTyped, KeptRelease DEF Consistent
<1>3. IfsKept(Last(st), req, ms, v)
  BY TopTyped DEF Consistent
<1>4. IfsKept(m, req, ms, v)
  BY <1>3 DEF IfsKept
<1>5. LabelsGiven(st2, given, req, ms)
  BY TopPortsSame DEF Consistent
<1> QED  BY <1>2, <1>4, <1>5, TopChanged

TakenMachine(m, k, ifs) ==
  [Take(m, k) EXCEPT !.if_stack = <<>>, !.unmatched_pool_ifs = ifs]

LEMMA MachineTaken ==
  ASSUME NEW st \in Seq(MachineMatch), NEW free \in Seq(Nat), NEW left,
         NEW given, NEW req, NEW ms, NEW v, IsMachines(ms),
         st # <<>>, Last(st).if_stack = <<>>, Last(st).current_match = None,
         Consistent(st, free, left, given, req, ms, v),
         NEW k \in DOMAIN Last(st).remaining_matches, NEW t,
         t = Last(st).remaining_matches[k],
         _params_compatible(req[Last(st).m_id].params, ms[t].params),
         NEW ifs \in SortedDown(DOMAIN ms[t].interfaces),
         NEW m, m = TakenMachine(Last(st), k, ifs)
  PROVE  /\ m \in MachineMatch /\ Without(free, t) \in Seq(Nat)
         /\ t \in Nat
         /\ Consistent(Append(Front(st), m), Without(free, t), left, given, req, ms, v)
<1> DEFINE st2 == Append(Front(st), m)
           top == Last(st)
<1>1. top \in MachineMatch /\ IfsKept(top, req, ms, v)
  BY TopTyped DEF Consistent
<1>2. /\ top.remaining_matches \in Seq(Nat)
      /\ IsInjective(top.remaining_matches)
      /\ k \in 1..Len(top.remaining_matches) /\ t \in Nat
  <2>1. top.remaining_matches \in Seq(Nat)
    BY <1>1 DEF MachineMatch
  <2>2. IsInjective(top.remaining_matches)
    BY TopTyped DEF Consistent, Kept
  <2> QED  BY <2>1, <2>2, LenProperties, ElementOfSeq
<1>3. SubSeq(top.remaining_matches, 1, k - 1) \in Seq(Nat)
  BY <1>2, Prefix
<1>4. t \in DOMAIN ms
  <2>1. t \in Range(free)
    <3>1. Above(st, Len(st)) = {}
      BY TopTyped, InAbove
    <3>2. t \in Range(top.remaining_matches)
      BY DEF Range
    <3>3. Range(top.remaining_matches) \subseteq Range(free) \union Above(st, Len(st))
      BY TopTyped DEF Consistent, Kept
    <3> QED  BY <3>1, <3>2, <3>3
  <2>2. t \in Listed(ms, v)
    BY <2>1 DEF Consistent, Kept
  <2> QED  BY <2>2, MachinesListed
<1>5. /\ ifs \in Seq(Nat) /\ IsInjective(ifs) /\ Range(ifs) = DOMAIN ms[t].interfaces
  BY <1>4, Sorted, MachinesListed
<1>6. m \in MachineMatch
  <2>1. <<>> \in Seq(IfMatch)
    BY EmptySeq
  <2> QED  BY <1>1, <1>2, <1>3, <1>5, <2>1 DEF MachineMatch, TakenMachine, Take
<1>7. /\ m.m_id = top.m_id /\ m.current_match = t /\ m.if_stack = <<>>
      /\ m.remaining_matches = SubSeq(top.remaining_matches, 1, k - 1)
      /\ m.unmatched_pool_ifs = ifs /\ m.unmatched_ifs = top.unmatched_ifs
  BY <1>1 DEF MachineMatch, TakenMachine, Take
<1>8. st2 \in Seq(MachineMatch) /\ Last(st2) = m /\ SameBelow(st, st2)
  BY <1>6, <1>7, NewTop
<1>9. /\ Without(free, t) \in Seq(Nat)
      /\ Kept(Without(free, t), st2, Listed(ms, v))
  <2>1. Kept(free, st, Listed(ms, v))
    BY DEF Consistent
  <2>2. /\ Last(st2).current_match = Last(st).remaining_matches[k]
        /\ Last(st2).remaining_matches = SubSeq(Last(st).remaining_matches, 1, k - 1)
    BY <1>7, <1>8
  <2> HIDE DEF st2
  <2> QED  BY <2>1, <2>2, <1>8, EntriesTyped, KeptTake
<1>10. IfsKept(m, req, ms, v)
  <2>1. Kept(ifs, <<>>, DOMAIN ms[t].interfaces)
    BY <1>5, KeptStart
  <2>2. Split(top.unmatched_ifs, IfIds(<<>>), DOMAIN req[top.m_id].interfaces)
    BY <1>1 DEF IfsKept
  <2> QED  BY <2>1, <2>2, <1>7 DEF IfsKept
<1>11. LabelsGiven(st2, given, req, ms)
  BY <1>6, <1>7, TopPortsSame DEF Consistent
<1>12. Consistent(st2, Without(free, t), left, given, req, ms, v)
  BY <1>6, <1>7, <1>9, <1>10, <1>11, TopChanged
<1> QED  BY <1>2, <1>6, <1>9, <1>12

LEMMA MachinePopped ==
  ASSUME NEW st \in Seq(MachineMatch), NEW free, NEW left \in Seq(Nat),
         NEW given, NEW req, NEW ms, NEW v, st # <<>>, Last(st).if_stack = <<>>,
         Last(st).current_match = None,
         Consistent(st, free, left, given, req, ms, v)
  PROVE  Consistent(Front(st), free, Append(left, Last(st).m_id), given, req, ms, v)
<1> DEFINE st2 == Front(st)
<1>1. /\ Len(st) \in Nat \ {0} /\ DOMAIN st = 1..Len(st) /\ Last(st) = st[Len(st)]
  BY TopTyped
<1>2. /\ st2 \in Seq(MachineMatch) /\ Len(st2) = Len(st) - 1
      /\ \A i \in 1 .. Len(st) - 1 : st2[i] = st[i]
  BY LastFront
<1>3. DOMAIN st2 = 1 .. Len(st) - 1
  BY <1>2, LenProperties
<1>4. Kept(free, st2, Listed(ms, v))
  BY KeptPop DEF Consistent
<1>5. Split(Append(left, Last(st).m_id), MIds(st2), DOMAIN req)
  BY MIdsFront, SplitPop DEF Consistent
<1> HIDE DEF st2
<1>6. ASSUME NEW k \in DOMAIN st2
      PROVE  IfsKept(st2[k], req, ms, v)
  <2>1. k \in DOMAIN st /\ st2[k] = st[k]
    BY <1>1, <1>2, <1>3
  <2> QED  BY <2>1 DEF Consistent
<1>7. LabelsGiven(st2, given, req, ms)
  <2>1. ASSUME NEW j \in Nat, NEW n \in Nat
        PROVE  /\ Port(st2, j, n) <=> Port(st, j, n)
               /\ Port(st, j, n) => SameAt(st, st2, j, n)
    <3>1. CASE j \in 1 .. Len(st) - 1
      <4>1. j \in DOMAIN st /\ j \in DOMAIN st2 /\ st2[j] = st[j]
        BY <3>1, <1>1, <1>2, <1>3
      <4> QED  BY <4>1 DEF Port, SameAt
    <3>2. CASE j = Len(st)
      <4>1. DOMAIN st[j].if_stack = {}
        BY <3>2, <1>1
      <4>2. j \notin DOMAIN st2
        BY <3>2, <1>1, <1>3
      <4> QED  BY <4>1, <4>2 DEF Port
    <3>3. CASE j \notin 1..Len(st)
      <4>1. j \notin DOMAIN st /\ j \notin DOMAIN st2
        BY <3>3, <1>1, <1>3
      <4> QED  BY <4>1 DEF Port
    <3>4. j \in 1 .. Len(st) - 1 \/ j = Len(st) \/ j \notin 1..Len(st)
      <4>1. Len(st) \in Nat
        BY <1>1
      <4> QED  BY <4>1
    <3> QED  BY <3>1, <3>2, <3>3, <3>4
  <2> QED  BY <2>1, LabelsSame DEF Consistent
<1>8. Consistent(st2, free, Append(left, Last(st).m_id), given, req, ms, v)
  BY <1>4, <1>5, <1>6, <1>7 DEF Consistent, st2
<1> QED  BY <1>8 DEF st2

-----------------------------------------------------------------------------
(***************************************************************************)
(* The interfaces of the machine on top                                    *)
(***************************************************************************)
\* what steps on an interface of the machine on top start from
InterfacesOnTop(st, free, left, given, req, ms, v) ==
  /\ st \in Seq(MachineMatch) /\ st # <<>>
  /\ Consistent(st, free, left, given, req, ms, v)
  /\ Last(st).current_match # None /\ v = FALSE

\* a machine whose interfaces may have changed
SameMachine(m, m2) ==
  /\ m2 \in MachineMatch /\ m2.m_id = m.m_id
  /\ m2.current_match = m.current_match /\ m2.remaining_matches = m.remaining_matches

LEMMA InterfacesChanged ==
  ASSUME NEW st, NEW free, NEW left, NEW given, NEW req, NEW ms, NEW v, NEW given2, NEW m,
         InterfacesOnTop(st, free, left, given, req, ms, v),
         SameMachine(Last(st), m), IfsKept(m, req, ms, v),
         LabelsGiven(Append(Front(st), m), given2, req, ms)
  PROVE  /\ InterfacesOnTop(Append(Front(st), m), free, left, given2, req, ms, v)
         /\ Last(Append(Front(st), m)) = m
         /\ Front(Append(Front(st), m)) = Front(st)
<1> DEFINE st2 == Append(Front(st), m)
<1>1. /\ st \in Seq(MachineMatch) /\ st # <<>>
      /\ Consistent(st, free, left, given, req, ms, v)
      /\ Last(st).current_match # None /\ v = FALSE
  BY DEF InterfacesOnTop
<1>2. /\ m \in MachineMatch /\ m.m_id = Last(st).m_id
      /\ m.current_match = Last(st).current_match
      /\ m.remaining_matches = Last(st).remaining_matches
  BY DEF SameMachine
<1>3. /\ st2 \in Seq(MachineMatch) /\ st2 # <<>> /\ Last(st2) = m
      /\ Front(st2) = Front(st) /\ SameBelow(st, st2)
  BY <1>1, <1>2, NewTop
<1>4. Kept(free, st2, Listed(ms, v))
  <2>1. Kept(free, st, Listed(ms, v))
    BY <1>1 DEF Consistent
  <2> HIDE DEF st2
  <2> QED  BY <2>1, <1>1, <1>2, <1>3, KeptSame
<1>5. Consistent(st2, free, left, given2, req, ms, v)
  BY <1>1, <1>2, <1>4, TopChanged
<1> QED  BY <1>1, <1>2, <1>3, <1>5 DEF InterfacesOnTop

\* a port of the machine on top, by its interface
LEMMA OnTop ==
  ASSUME NEW st, NEW free, NEW left, NEW given, NEW req, NEW ms, NEW v,
         InterfacesOnTop(st, free, left, given, req, ms, v)
  PROVE  /\ st \in Seq(MachineMatch) /\ st # <<>> /\ Last(st) \in MachineMatch
         /\ Last(st) = st[Len(st)] /\ Len(st) \in Nat
         /\ Last(st).if_stack \in Seq(IfMatch)
         /\ IfsKept(Last(st), req, ms, v) /\ LabelsGiven(st, given, req, ms)
         /\ Split(Last(st).unmatched_ifs, IfIds(Last(st).if_stack),
                  DOMAIN req[Last(st).m_id].interfaces)
         /\ Kept(Last(st).unmatched_pool_ifs, Last(st).if_stack,
                 DOMAIN ms[Last(st).current_match].interfaces)
<1>1. /\ st \in Seq(MachineMatch) /\ st # <<>> /\ Last(st).current_match # None
      /\ Consistent(st, free, left, given, req, ms, v)
  BY DEF InterfacesOnTop
<1>2. /\ Last(st) \in MachineMatch /\ Last(st) = st[Len(st)] /\ Len(st) \in DOMAIN st
      /\ Last(st).if_stack \in Seq(IfMatch) /\ Len(st) \in Nat
  BY <1>1, TopTyped
<1>3. IfsKept(Last(st), req, ms, v) /\ LabelsGiven(st, given, req, ms)
  BY <1>1, <1>2 DEF Consistent
<1> QED  BY <1>1, <1>2, <1>3 DEF IfsKept

(***************************************************************************)
(* The next interface comes on the stack.                                  *)
(***************************************************************************)
LEMMA InterfacePushed ==
  ASSUME NEW st, NEW free, NEW left, NEW given, NEW req, NEW ms, NEW v,
         InterfacesOnTop(st, free, left, given, req, ms, v),
         Last(st).unmatched_ifs # <<>>,
         NEW e, e = [if_id |-> Last(Last(st).unmatched_ifs), current_match |-> None,
                     remaining_matches |-> Last(st).unmatched_pool_ifs],
         NEW m, m = [Last(st) EXCEPT !.unmatched_ifs = Front(@),
                                     !.if_stack = Append(@, e)]
  PROVE  /\ InterfacesOnTop(Append(Front(st), m), free, left, given, req, ms, v)
         /\ e \in IfMatch
<1> DEFINE top == Last(st)
           st2 == Append(Front(st), m)
           N   == Len(st)
<1>1. /\ st \in Seq(MachineMatch) /\ st # <<>> /\ top \in MachineMatch
      /\ top = st[N] /\ N \in Nat /\ top.if_stack \in Seq(IfMatch)
      /\ IfsKept(top, req, ms, v) /\ LabelsGiven(st, given, req, ms)
      /\ Split(top.unmatched_ifs, IfIds(top.if_stack), DOMAIN req[top.m_id].interfaces)
      /\ Kept(top.unmatched_pool_ifs, top.if_stack, DOMAIN ms[top.current_match].interfaces)
  BY OnTop
<1>2. /\ top.unmatched_ifs \in Seq(Nat) /\ top.unmatched_pool_ifs \in Seq(Nat)
  BY <1>1 DEF MachineMatch
<1>3. Last(top.unmatched_ifs) \in Nat /\ Front(top.unmatched_ifs) \in Seq(Nat)
  BY <1>2, LastFront
<1>4. e \in IfMatch /\ e.if_id = Last(top.unmatched_ifs) /\ e.current_match = None
      /\ e.remaining_matches = top.unmatched_pool_ifs
  BY <1>2, <1>3 DEF IfMatch
<1>5. Append(top.if_stack, e) \in Seq(IfMatch)
  BY <1>1, <1>4, Appended
<1>6. /\ m \in MachineMatch /\ m.m_id = top.m_id /\ m.current_match = top.current_match
      /\ m.remaining_matches = top.remaining_matches
      /\ m.if_stack = Append(top.if_stack, e)
      /\ m.unmatched_ifs = Front(top.unmatched_ifs)
      /\ m.unmatched_pool_ifs = top.unmatched_pool_ifs
  BY <1>1, <1>3, <1>5 DEF MachineMatch
<1>7. SameMachine(top, m)
  BY <1>6 DEF SameMachine
<1>8. /\ Len(m.if_stack) = Len(top.if_stack) + 1 /\ Len(top.if_stack) \in Nat
      /\ m.if_stack[Len(top.if_stack) + 1] = e
      /\ \A i \in 1..Len(top.if_stack) : m.if_stack[i] = top.if_stack[i]
      /\ DOMAIN m.if_stack = 1 .. Len(top.if_stack) + 1
      /\ DOMAIN top.if_stack = 1..Len(top.if_stack)
  BY <1>1, <1>4, <1>5, <1>6, Appended, LenProperties
<1>9. IfsKept(m, req, ms, v)
  <2>1. Split(m.unmatched_ifs, IfIds(m.if_stack), DOMAIN req[m.m_id].interfaces)
    <3>1. /\ IfIds(top.if_stack) \in Seq(Nat)
          /\ IfIds(m.if_stack) = Append(IfIds(top.if_stack), Last(top.unmatched_ifs))
      BY <1>1, <1>4, <1>6, IfIdsAppend
    <3> QED  BY <3>1, <1>1, <1>2, <1>6, SplitPush
  <2>2. Kept(m.unmatched_pool_ifs, m.if_stack, DOMAIN ms[m.current_match].interfaces)
    <3>1. Kept(top.unmatched_pool_ifs, Append(top.if_stack, e),
               DOMAIN ms[top.current_match].interfaces)
      BY <1>1, <1>4, KeptPush
    <3> QED  BY <3>1, <1>6
  <2>3. v = FALSE /\ m.current_match # None
    BY <1>6 DEF InterfacesOnTop
  <2>4. _params_compatible(req[m.m_id].params, ms[m.current_match].params)
    BY <2>3, <1>1, <1>6 DEF IfsKept
  <2>5. ASSUME NEW n \in DOMAIN m.if_stack, m.if_stack[n].current_match # None
        PROVE  _params_compatible(req[m.m_id].interfaces[m.if_stack[n].if_id].params,
                 ms[m.current_match].interfaces[m.if_stack[n].current_match].params)
    <3>1. n # Len(top.if_stack) + 1
      BY <2>5, <1>4, <1>8
    <3>2. n \in DOMAIN top.if_stack /\ m.if_stack[n] = top.if_stack[n]
      BY <3>1, <1>8
    <3> QED  BY <3>2, <2>5, <1>1, <1>6 DEF IfsKept
  <2> QED  BY <2>1, <2>2, <2>3, <2>4, <2>5 DEF IfsKept
<1>10. LabelsGiven(st2, given, req, ms)
  <2>1. /\ \A j, n \in Nat : j # N => /\ Port(st2, j, n) <=> Port(st, j, n)
                                      /\ Port(st, j, n) => SameAt(st, st2, j, n)
        /\ \A n \in Nat : /\ Port(st, N, n) <=> /\ n \in 1..Len(top.if_stack)
                                                /\ top.if_stack[n].current_match # None
                          /\ Port(st2, N, n) <=> /\ n \in 1..Len(m.if_stack)
                                                 /\ m.if_stack[n].current_match # None
    <3>1. m \in MachineMatch /\ m.m_id = Last(st).m_id
      BY <1>6
    <3>2. st \in Seq(MachineMatch) /\ st # <<>>
      BY <1>1
    <3> QED  BY ONLY <3>1, <3>2, TopPorts
  <2>2. st2[N] = m
    BY <1>1, <1>6, NewTop
  <2> HIDE DEF st2, N
  <2>3. ASSUME NEW n \in Nat
        PROVE  /\ Port(st2, N, n) <=> Port(st, N, n)
               /\ Port(st, N, n) => SameAt(st, st2, N, n)
    <3>1. CASE n \in 1..Len(top.if_stack)
      <4>1. m.if_stack[n] = top.if_stack[n] /\ n \in 1..Len(m.if_stack)
        BY <3>1, <1>8
      <4> QED  BY <4>1, <3>1, <2>1, <2>2, <1>1, <1>6 DEF SameAt
    <3>2. CASE n = Len(top.if_stack) + 1
      <4>1. ~Port(st2, N, n)
        BY <3>2, <2>1, <1>4, <1>8
      <4>2. ~Port(st, N, n)
        BY <3>2, <2>1, <1>8
      <4> QED  BY <4>1, <4>2
    <3>3. CASE n \notin 1 .. Len(top.if_stack) + 1
      <4>1. n \notin 1..Len(top.if_stack) /\ n \notin 1..Len(m.if_stack)
        BY <3>3, <1>8
      <4> QED  BY <4>1, <2>1
    <3>4. Len(top.if_stack) \in Nat
      BY <1>8
    <3>5. n \in 1..Len(top.if_stack) \/ n = Len(top.if_stack) + 1
          \/ n \notin 1 .. Len(top.if_stack) + 1
      BY <3>4
    <3> QED  BY <3>1, <3>2, <3>3, <3>5
  <2>4. ASSUME NEW j \in Nat, NEW n \in Nat
        PROVE  /\ Port(st2, j, n) <=> Port(st, j, n)
               /\ Port(st, j, n) => SameAt(st, st2, j, n)
    <3>1. CASE j = N
      BY <3>1, <2>3
    <3>2. CASE j # N
      BY <3>2, <2>1
    <3> QED  BY <3>1, <3>2
  <2> QED  BY <2>4, <1>1, LabelsSame
<1> QED  BY <1>4, <1>7, <1>9, <1>10, InterfacesChanged

(***************************************************************************)
(* The interface on top of the machine on top                              *)
(***************************************************************************)
LEMMA NewTopInterface ==
  ASSUME NEW st \in Seq(IfMatch), st # <<>>, NEW i \in IfMatch, i.if_id = Last(st).if_id
  PROVE  /\ Append(Front(st), i) \in Seq(IfMatch)
         /\ Append(Front(st), i) # <<>>
         /\ Len(Append(Front(st), i)) = Len(st)
         /\ Last(Append(Front(st), i)) = i
         /\ Front(Append(Front(st), i)) = Front(st)
         /\ Append(Front(st), i)[Len(st)] = i
         /\ \A n \in 1 .. Len(st) - 1 : Append(Front(st), i)[n] = st[n]
         /\ SameBelow(st, Append(Front(st), i))
         /\ IfIds(Append(Front(st), i)) = IfIds(st)
<1> DEFINE st2 == Append(Front(st), i)
<1>1. /\ st2 \in Seq(IfMatch) /\ st2 # <<>> /\ Len(st2) = Len(st) /\ Last(st2) = i
      /\ st2[Len(st)] = i /\ \A n \in 1 .. Len(st) - 1 : st2[n] = st[n]
  BY NewLast
<1>2. Front(st2) = Front(st)
  BY LastFront, FrontOfAppend
<1> HIDE DEF st2
<1>3. SameBelow(st, st2)
  BY <1>1 DEF SameBelow
<1>4. Len(st) \in Nat /\ Last(st) = st[Len(st)]
  BY LastFront
<1>5. ASSUME NEW n \in 1..Len(st)
      PROVE  st2[n].if_id = st[n].if_id
  <2>1. CASE n = Len(st)
    BY <2>1, <1>1, <1>4
  <2>2. CASE n \in 1 .. Len(st) - 1
    BY <2>2, <1>1
  <2>3. Len(st) \in Nat
    BY <1>4
  <2>4. n = Len(st) \/ n \in 1 .. Len(st) - 1
    BY <2>3
  <2> QED  BY <2>1, <2>2, <2>4
<1>6. IfIds(st2) = IfIds(st)
  BY <1>1, <1>5 DEF IfIds
<1> QED  BY <1>1, <1>2, <1>3, <1>6 DEF st2

(***************************************************************************)
(* All ports but the last one stay when only the last interface of the     *)
(* machine on top changes, or comes off the stack.                         *)
(***************************************************************************)
LastInterfaceChanged(m, m2) ==
  /\ m2 \in MachineMatch /\ m2.m_id = m.m_id /\ m2.current_match = m.current_match
  /\ m.if_stack # <<>>
  /\ Len(m2.if_stack) \in {Len(m.if_stack), Len(m.if_stack) - 1}
  /\ \A n \in 1 .. Len(m.if_stack) - 1 : m2.if_stack[n] = m.if_stack[n]
  /\ Len(m2.if_stack) = Len(m.if_stack) =>
       m2.if_stack[Len(m.if_stack)].if_id = Last(m.if_stack).if_id

LastPlace(st, J, N) == \A j, n \in Nat : Port(st, j, n) => j < J \/ (j = J /\ n <= N)

OthersStay(st, st2, J, N) ==
  \A j, n \in Nat : ~(j = J /\ n = N) =>
    /\ Port(st2, j, n) <=> Port(st, j, n)
    /\ Port(st, j, n) => SameAt(st, st2, j, n)

PortsAround(st, m, st2, J, N) ==
  /\ J \in Nat /\ N \in Nat \ {0}
  /\ Port(st, J, N) <=> Last(Last(st).if_stack).current_match # None
  /\ Port(st2, J, N) <=> Len(m.if_stack) = N /\ m.if_stack[N].current_match # None
  /\ LastPlace(st, J, N) /\ OthersStay(st, st2, J, N)

LEMMA LastPort ==
  ASSUME NEW st \in Seq(MachineMatch), st # <<>>, NEW m \in MachineMatch,
         LastInterfaceChanged(Last(st), m)
  PROVE  PortsAround(st, m, Append(Front(st), m), Len(st), Len(Last(st).if_stack))
<1> DEFINE st2 == Append(Front(st), m)
           J   == Len(st)
           N   == Len(Last(st).if_stack)
<1>1. /\ m.m_id = Last(st).m_id /\ m.current_match = Last(st).current_match
      /\ Last(st).if_stack # <<>>
      /\ Len(m.if_stack) \in {N, N - 1}
      /\ \A n \in 1 .. N - 1 : m.if_stack[n] = Last(st).if_stack[n]
  BY DEF LastInterfaceChanged
<1>2. /\ J \in Nat /\ Last(st) = st[J] /\ Last(st).if_stack \in Seq(IfMatch)
  BY TopTyped
<1>3. N \in Nat \ {0} /\ Last(Last(st).if_stack) = Last(st).if_stack[N]
  BY <1>1, <1>2, LastFront
<1>4. /\ \A j, n \in Nat : j # J =>
           /\ Port(st2, j, n) <=> Port(st, j, n)
           /\ Port(st, j, n) => SameAt(st, st2, j, n)
      /\ \A n \in Nat :
           /\ Port(st, J, n) <=> /\ n \in 1..N
                                 /\ Last(st).if_stack[n].current_match # None
           /\ Port(st2, J, n) <=> /\ n \in 1..Len(m.if_stack)
                                  /\ m.if_stack[n].current_match # None
      /\ \A j, n \in Nat : Port(st, j, n) => j <= J
  BY <1>1, TopPorts
<1>5. st2[J] = m
  BY <1>1, NewTop
<1> HIDE DEF st2, J, N
<1>6. Port(st, J, N) <=> Last(Last(st).if_stack).current_match # None
  BY <1>3, <1>4
<1>7. Port(st2, J, N) <=> Len(m.if_stack) = N /\ m.if_stack[N].current_match # None
  <2>1. N \in 1..Len(m.if_stack) <=> Len(m.if_stack) = N
    BY <1>1, <1>3
  <2>2. N \in Nat
    BY <1>3
  <2> QED  BY <2>1, <2>2, <1>4
<1>8. ASSUME NEW j \in Nat, NEW n \in Nat, Port(st, j, n)
      PROVE  j < J \/ (j = J /\ n <= N)
  <2>1. j <= J
    BY <1>4, <1>8
  <2>2. CASE j = J
    BY <2>2, <1>3, <1>4, <1>8
  <2> QED  BY <2>1, <2>2, <1>2
<1>9. ASSUME NEW n \in Nat, n # N
      PROVE  /\ Port(st2, J, n) <=> Port(st, J, n)
             /\ Port(st, J, n) => SameAt(st, st2, J, n)
  <2>1. CASE n \in 1 .. N - 1
    <3>1. /\ n \in 1..N /\ n \in 1..Len(m.if_stack)
      BY <2>1, <1>1, <1>3
    <3>2. m.if_stack[n] = Last(st).if_stack[n]
      BY <2>1, <1>1
    <3> QED  BY <3>1, <3>2, <1>1, <1>2, <1>4, <1>5 DEF SameAt
  <2>2. CASE n \notin 1 .. N - 1
    <3>1. n \notin 1..N /\ n \notin 1..Len(m.if_stack)
      BY <2>2, <1>1, <1>3, <1>9
    <3> QED  BY <3>1, <1>4
  <2> QED  BY <2>1, <2>2
<1>10. ASSUME NEW j \in Nat, NEW n \in Nat, ~(j = J /\ n = N)
       PROVE  /\ Port(st2, j, n) <=> Port(st, j, n)
              /\ Port(st, j, n) => SameAt(st, st2, j, n)
  <2>1. CASE j = J
    BY <2>1, <1>9, <1>10
  <2>2. CASE j # J
    BY <2>2, <1>4
  <2> QED  BY <2>1, <2>2
<1>11. PortsAround(st, m, st2, J, N)
  BY <1>2, <1>3, <1>6, <1>7, <1>8, <1>10 DEF PortsAround, LastPlace, OthersStay
<1> QED  BY <1>11 DEF st2, J, N

\* what steps on the interface on top of the machine on top start from
OneInterface(st, free, left, given, req, ms, v) ==
  /\ InterfacesOnTop(st, free, left, given, req, ms, v)
  /\ Last(st).if_stack # <<>>

LEMMA OneInterfaceTyped ==
  ASSUME NEW st, NEW free, NEW left, NEW given, NEW req, NEW ms, NEW v,
         OneInterface(st, free, left, given, req, ms, v)
  PROVE  LET ifs == Last(st).if_stack
         IN  /\ ifs \in Seq(IfMatch) /\ ifs # <<>> /\ Len(ifs) \in Nat \ {0}
             /\ Last(ifs) \in IfMatch /\ Last(ifs) = ifs[Len(ifs)]
             /\ DOMAIN ifs = 1..Len(ifs)
             /\ Last(st).unmatched_pool_ifs \in Seq(Nat)
             /\ Last(st).unmatched_ifs \in Seq(Nat)
<1>1. /\ Last(st) \in MachineMatch /\ Last(st).if_stack \in Seq(IfMatch)
      /\ Last(st).if_stack # <<>>
  BY OnTop DEF OneInterface
<1> QED  BY <1>1, LastFront, LenProperties DEF MachineMatch

(***************************************************************************)
(* The interface on top gives up what it has, and the label it gave.       *)
(***************************************************************************)
Emptied(i) == [i EXCEPT !.current_match = None]

GivenUp(m) ==
  [m EXCEPT !.if_stack = Append(Front(@), Emptied(Last(@))),
            !.unmatched_pool_ifs = Release(@, Last(m.if_stack))]

GiftOf(m, i, has) == [network |-> has.network, m_id |-> m.m_id, if_id |-> i.if_id]

WithoutLabel(given, ms, m, i, label) ==
  IF i.current_match # None /\
     given[label] = GiftOf(m, i, ms[m.current_match].interfaces[i.current_match])
    THEN Restrict(given, DOMAIN given \ {label})
    ELSE given

OnTopOf(st) == Last(Last(st).if_stack)
ReqIf(st, req) == req[Last(st).m_id].interfaces[OnTopOf(st).if_id]
LabelsLeft(st, given, req, ms) ==
  WithoutLabel(given, ms, Last(st), OnTopOf(st), ReqIf(st, req).network)

LEMMA InterfaceReleased ==
  ASSUME NEW st, NEW free, NEW left, NEW given, NEW req, NEW ms, NEW v,
         OneInterface(st, free, left, given, req, ms, v)
  PROVE  /\ OneInterface(Append(Front(st), GivenUp(Last(st))), free, left,
                         LabelsLeft(st, given, req, ms), req, ms, v)
         /\ Last(Append(Front(st), GivenUp(Last(st)))) = GivenUp(Last(st))
         /\ Front(Append(Front(st), GivenUp(Last(st)))) = Front(st)
         /\ Last(GivenUp(Last(st)).if_stack) = Emptied(OnTopOf(st))
         /\ Front(GivenUp(Last(st)).if_stack) = Front(Last(st).if_stack)
<1>a. PICK i : i = OnTopOf(st)
  OBVIOUS
<1>b. PICK m : m = GivenUp(Last(st))
  OBVIOUS
<1>c. PICK label : label = ReqIf(st, req).network
  OBVIOUS
<1>d. PICK given2 : given2 = LabelsLeft(st, given, req, ms)
  OBVIOUS
<1>e. /\ i = Last(Last(st).if_stack)
      /\ label = req[Last(st).m_id].interfaces[i.if_id].network
      /\ given2 = WithoutLabel(given, ms, Last(st), i, label)
  BY <1>a, <1>c, <1>d DEF OnTopOf, ReqIf, LabelsLeft
<1> USE <1>b, <1>e
<1> DEFINE top == Last(st)
           ifs == top.if_stack
           i2  == Emptied(i)
           st2 == Append(Front(st), m)
           J   == Len(st)
           N   == Len(ifs)
<1>1. /\ st \in Seq(MachineMatch) /\ st # <<>> /\ top \in MachineMatch
      /\ top = st[J] /\ J \in Nat
      /\ IfsKept(top, req, ms, v) /\ LabelsGiven(st, given, req, ms)
      /\ Split(top.unmatched_ifs, IfIds(ifs), DOMAIN req[top.m_id].interfaces)
      /\ Kept(top.unmatched_pool_ifs, ifs, DOMAIN ms[top.current_match].interfaces)
  BY OnTop DEF OneInterface
<1>2. /\ ifs \in Seq(IfMatch) /\ ifs # <<>> /\ N \in Nat \ {0} /\ i \in IfMatch
      /\ i = ifs[N] /\ DOMAIN ifs = 1..N /\ top.unmatched_pool_ifs \in Seq(Nat)
  BY OneInterfaceTyped
<1>3. /\ i2 \in IfMatch /\ i2.if_id = i.if_id /\ i2.current_match = None
      /\ i2.remaining_matches = i.remaining_matches
  BY <1>2 DEF IfMatch, Emptied
<1> HIDE DEF i2
<1>4. /\ Append(Front(ifs), i2) \in Seq(IfMatch) /\ Append(Front(ifs), i2) # <<>>
      /\ Len(Append(Front(ifs), i2)) = N /\ Last(Append(Front(ifs), i2)) = i2
      /\ Front(Append(Front(ifs), i2)) = Front(ifs)
      /\ Append(Front(ifs), i2)[N] = i2
      /\ \A n \in 1 .. N - 1 : Append(Front(ifs), i2)[n] = ifs[n]
      /\ SameBelow(ifs, Append(Front(ifs), i2))
      /\ IfIds(Append(Front(ifs), i2)) = IfIds(ifs)
  BY <1>2, <1>3, NewTopInterface
<1>5. /\ Release(top.unmatched_pool_ifs, i) \in Seq(Nat)
      /\ Kept(Release(top.unmatched_pool_ifs, i), Append(Front(ifs), i2),
              DOMAIN ms[top.current_match].interfaces)
  BY <1>1, <1>2, <1>3, <1>4, EntriesTyped, KeptRelease
<1>6. /\ m \in MachineMatch /\ m.m_id = top.m_id /\ m.current_match = top.current_match
      /\ m.remaining_matches = top.remaining_matches
      /\ m.if_stack = Append(Front(ifs), i2)
      /\ m.unmatched_ifs = top.unmatched_ifs
      /\ m.unmatched_pool_ifs = Release(top.unmatched_pool_ifs, i)
  BY <1>1, <1>4, <1>5 DEF MachineMatch, GivenUp, i2
<1>7. SameMachine(top, m) /\ LastInterfaceChanged(top, m)
  BY <1>2, <1>3, <1>4, <1>6 DEF SameMachine, LastInterfaceChanged
<1>8. v = FALSE /\ top.current_match # None
  BY DEF OneInterface, InterfacesOnTop
<1>9. IfsKept(m, req, ms, v)
  <2>1. _params_compatible(req[m.m_id].params, ms[m.current_match].params)
    BY <1>1, <1>6, <1>8 DEF IfsKept
  <2>2. DOMAIN m.if_stack = 1..N
    BY <1>4, <1>6, LenProperties
  <2>3. ASSUME NEW n \in DOMAIN m.if_stack, m.if_stack[n].current_match # None
        PROVE  _params_compatible(req[m.m_id].interfaces[m.if_stack[n].if_id].params,
                 ms[m.current_match].interfaces[m.if_stack[n].current_match].params)
    <3>1. n # N
      BY <2>3, <1>3, <1>4, <1>6
    <3>2. n \in 1 .. N - 1
      <4>1. N \in Nat /\ n \in 1..N
        BY <2>2, <1>2
      <4> HIDE DEF N
      <4> QED  BY ONLY <4>1, <3>1
    <3>3. n \in DOMAIN ifs /\ m.if_stack[n] = ifs[n]
      <4>1. n \in DOMAIN ifs
        BY <2>2, <1>2
      <4>2. m.if_stack[n] = ifs[n]
        BY <3>2, <1>4, <1>6
      <4> QED  BY <4>1, <4>2
    <3> QED  BY <3>3, <2>3, <1>1, <1>6 DEF IfsKept
  <2> QED  BY <2>1, <2>3, <1>1, <1>4, <1>5, <1>6, <1>8 DEF IfsKept
<1>10. /\ Port(st, J, N) <=> i.current_match # None
       /\ ~Port(st2, J, N)
       /\ \A j, n \in Nat : Port(st, j, n) => j < J \/ (j = J /\ n <= N)
       /\ \A j, n \in Nat : ~(j = J /\ n = N) =>
            /\ Port(st2, j, n) <=> Port(st, j, n)
            /\ Port(st, j, n) => SameAt(st, st2, j, n)
  <2>1. m.if_stack[N].current_match = None
    BY <1>3, <1>4, <1>6
  <2>2. st \in Seq(MachineMatch) /\ st # <<>> /\ m \in MachineMatch
    BY <1>1, <1>6
  <2>3. LastInterfaceChanged(Last(st), m)
    BY <1>7
  <2>4. PortsAround(st, m, st2, J, N)
    BY ONLY <2>2, <2>3, LastPort
  <2> HIDE DEF st2, J, N
  <2> QED  BY <2>1, <2>4 DEF PortsAround, LastPlace, OthersStay
<1> HIDE DEF st2
<1>11. LabelsGiven(st2, given2, req, ms)
  <2>1. ASSUME i.current_match = None
        PROVE  LabelsGiven(st2, given2, req, ms)
    <3>1. given2 = given
      BY <2>1 DEF WithoutLabel
    <3>2. /\ \A j, n \in Nat : Port(st2, j, n) <=> Port(st, j, n)
          /\ \A j, n \in Nat : Port(st, j, n) => SameAt(st, st2, j, n)
      BY <2>1, <1>10
    <3> QED  BY <3>1, <3>2, <1>1, LabelsSame
  <2>2. ASSUME i.current_match # None
        PROVE  LabelsGiven(st2, given2, req, ms)
    <3>1. Port(st, J, N) /\ J \in Nat /\ N \in Nat
      BY <2>2, <1>1, <1>2, <1>10
    <3>2. /\ LabelAt(st, req, J, N) = label
          /\ Gift(st, ms, J, N) =
               GiftOf(top, i, ms[top.current_match].interfaces[i.current_match])
      BY <1>1, <1>2 DEF LabelAt, Gift, GiftOf, NetworkAt
    <3>3. given2 = IF given[LabelAt(st, req, J, N)] = Gift(st, ms, J, N)
                     THEN Restrict(given, DOMAIN given \ {LabelAt(st, req, J, N)})
                     ELSE given
      BY <2>2, <3>2 DEF WithoutLabel
    <3>4. ASSUME NEW j \in Nat, NEW n \in Nat, Port(st, j, n), st[j].m_id = st[J].m_id,
                 st[j].if_stack[n].if_id = st[J].if_stack[N].if_id
          PROVE  j = J /\ n = N
      <4>1. j \in 1..J /\ J \in 1..J /\ DOMAIN MIds(st) = 1..J
        <5>1. j \in DOMAIN st
          BY <3>4 DEF Port
        <5> QED  BY <5>1, <1>1, TopTyped DEF MIds
      <4>2. MIds(st)[j] = MIds(st)[J]
        BY <4>1, <3>4 DEF MIds
      <4>3. IsInjective(MIds(st))
        BY DEF OneInterface, InterfacesOnTop, Consistent, Split
      <4>4. j = J
        BY <4>1, <4>2, <4>3 DEF IsInjective
      <4>5. n \in 1..N /\ N \in 1..N /\ DOMAIN IfIds(ifs) = 1..N
        <5>1. n \in DOMAIN ifs
          BY <4>4, <3>4, <1>1 DEF Port
        <5>2. DOMAIN IfIds(ifs) = 1..N
          BY ONLY IfIdsDomain
        <5>3. N \in 1..N
          <6>1. N \in Nat \ {0}
            BY <1>2
          <6> HIDE DEF N
          <6> QED  BY ONLY <6>1
        <5> QED  BY <5>1, <5>2, <5>3, <1>2
      <4>6. IfIds(ifs)[n] = IfIds(ifs)[N]
        BY <4>4, <4>5, <3>4, <1>1 DEF IfIds
      <4>7. n = N
        BY <4>5, <4>6, <1>1 DEF Split, IsInjective
      <4> QED  BY <4>4, <4>7
    <3>5. \A j, n \in Nat : Port(st2, j, n) <=> Port(st, j, n) /\ ~(j = J /\ n = N)
      BY <1>10
    <3>6. \A j, n \in Nat : Port(st2, j, n) => SameAt(st, st2, j, n)
      BY <3>5, <1>10
    <3>7. \A j, n \in Nat : Port(st, j, n) => j < J \/ (j = J /\ n <= N)
      BY <1>10
    <3>8. LabelsGiven(st, given, req, ms)
      BY <1>1
    <3>9. \A j, n \in Nat : Port(st, j, n) /\ st[j].m_id = st[J].m_id
                              /\ st[j].if_stack[n].if_id = st[J].if_stack[N].if_id
                                => j = J /\ n = N
      BY <3>4
    <3> HIDE DEF J, N, st2
    <3>10. OnlyLastPort(st, J, N)
      BY ONLY <3>1, <3>7, <3>9 DEF OnlyLastPort
    <3>11. PortGone(st, st2, J, N)
      BY ONLY <3>5, <3>6 DEF PortGone
    <3>12. given2 = LabelGone(st, given, req, ms, J, N)
      BY ONLY <3>3 DEF LabelGone
    <3> QED  BY ONLY <3>1, <3>8, <3>10, <3>11, <3>12, LabelsGivenUp
  <2> QED  BY <2>1, <2>2
<1>12. /\ InterfacesOnTop(st2, free, left, given2, req, ms, v)
       /\ Last(st2) = m /\ Front(st2) = Front(st)
  <2>1. InterfacesOnTop(st, free, left, given, req, ms, v)
    BY DEF OneInterface
  <2>2. LabelsGiven(Append(Front(st), m), given2, req, ms)
    BY <1>11 DEF st2
  <2>3. SameMachine(Last(st), m)
    BY <1>7
  <2> QED  BY ONLY <2>1, <2>2, <2>3, <1>9, InterfacesChanged DEF st2
<1> QED  BY <1>12, <1>4, <1>6, <1>a, <1>b, <1>d DEF OneInterface, st2, i2

LEMMA LastIndex ==
  \A n \in Nat \ {0} : n \in 1..n
OBVIOUS

(***************************************************************************)
(* The interface on top takes its next candidate.                          *)
(***************************************************************************)
TakenInterface(m, k) ==
  [m EXCEPT !.if_stack = Append(Front(@), Take(Last(@), k)),
            !.unmatched_pool_ifs = Without(@, Last(m.if_stack).remaining_matches[k])]

PoolIf(st, ms, k) ==
  ms[Last(st).current_match].interfaces[OnTopOf(st).remaining_matches[k]]
LabelsThen(st, given, req, ms, k) ==
  WithLabel(given, ReqIf(st, req).network, GiftOf(Last(st), OnTopOf(st), PoolIf(st, ms, k)))

LEMMA InterfaceTaken ==
  ASSUME NEW st, NEW free, NEW left, NEW given, NEW req, NEW ms, NEW v,
         OneInterface(st, free, left, given, req, ms, v),
         OnTopOf(st).current_match = None,
         NEW k \in DOMAIN OnTopOf(st).remaining_matches,
         _check_interface_compatibility(given, ReqIf(st, req), PoolIf(st, ms, k))
  PROVE  /\ OneInterface(Append(Front(st), TakenInterface(Last(st), k)), free, left,
                         LabelsThen(st, given, req, ms, k), req, ms, v)
         /\ Last(Append(Front(st), TakenInterface(Last(st), k))) =
              TakenInterface(Last(st), k)
<1>a. PICK i : i = OnTopOf(st)
  OBVIOUS
<1>b. PICK t : t = i.remaining_matches[k]
  OBVIOUS
<1>c. PICK req_if : req_if = ReqIf(st, req)
  OBVIOUS
<1>d. PICK pool_if : pool_if = PoolIf(st, ms, k)
  OBVIOUS
<1>e. PICK m : m = TakenInterface(Last(st), k)
  OBVIOUS
<1>f. PICK given2 : given2 = LabelsThen(st, given, req, ms, k)
  OBVIOUS
<1>g. /\ i = Last(Last(st).if_stack) /\ i.current_match = None
      /\ k \in DOMAIN i.remaining_matches /\ t = i.remaining_matches[k]
      /\ req_if = req[Last(st).m_id].interfaces[i.if_id]
      /\ pool_if = ms[Last(st).current_match].interfaces[t]
      /\ _check_interface_compatibility(given, req_if, pool_if)
      /\ given2 = WithLabel(given, req_if.network, GiftOf(Last(st), i, pool_if))
  BY <1>a, <1>b, <1>c, <1>d, <1>f DEF OnTopOf, ReqIf, PoolIf, LabelsThen
<1> USE <1>e, <1>g
<1> DEFINE top == Last(st)
           ifs == top.if_stack
           i2  == Take(i, k)
           st2 == Append(Front(st), m)
           J   == Len(st)
           N   == Len(ifs)
<1>1. /\ st \in Seq(MachineMatch) /\ st # <<>> /\ top \in MachineMatch
      /\ top = st[J] /\ J \in Nat
      /\ IfsKept(top, req, ms, v) /\ LabelsGiven(st, given, req, ms)
      /\ Split(top.unmatched_ifs, IfIds(ifs), DOMAIN req[top.m_id].interfaces)
      /\ Kept(top.unmatched_pool_ifs, ifs, DOMAIN ms[top.current_match].interfaces)
  BY OnTop DEF OneInterface
<1>2. /\ ifs \in Seq(IfMatch) /\ ifs # <<>> /\ N \in Nat \ {0} /\ i \in IfMatch
      /\ i = ifs[N] /\ DOMAIN ifs = 1..N /\ top.unmatched_pool_ifs \in Seq(Nat)
  BY OneInterfaceTyped
<1>3. /\ i.remaining_matches \in Seq(Nat) /\ IsInjective(i.remaining_matches)
      /\ k \in 1..Len(i.remaining_matches) /\ t \in Nat
  <2>1. i.remaining_matches \in Seq(Nat)
    BY <1>2 DEF IfMatch
  <2>2. N \in DOMAIN ifs
    <3>1. N \in Nat \ {0} /\ DOMAIN ifs = 1..N
      BY <1>2
    <3> HIDE DEF N, ifs
    <3> QED  BY ONLY <3>1, LastIndex
  <2>3. IsInjective(i.remaining_matches)
    BY <2>2, <1>1, <1>2 DEF Kept
  <2> QED  BY <2>1, <2>3, LenProperties, ElementOfSeq
<1>4. SubSeq(i.remaining_matches, 1, k - 1) \in Seq(Nat)
  BY <1>3, Prefix
<1>5. /\ i2 \in IfMatch /\ i2.if_id = i.if_id /\ i2.current_match = t
      /\ i2.remaining_matches = SubSeq(i.remaining_matches, 1, k - 1)
      /\ i2.current_match # None
  BY <1>2, <1>3, <1>4, NoneIsNoNumber DEF IfMatch, Take
<1> HIDE DEF i2
<1>6. /\ Append(Front(ifs), i2) \in Seq(IfMatch) /\ Append(Front(ifs), i2) # <<>>
      /\ Len(Append(Front(ifs), i2)) = N /\ Last(Append(Front(ifs), i2)) = i2
      /\ Append(Front(ifs), i2)[N] = i2
      /\ \A n \in 1 .. N - 1 : Append(Front(ifs), i2)[n] = ifs[n]
      /\ SameBelow(ifs, Append(Front(ifs), i2))
      /\ IfIds(Append(Front(ifs), i2)) = IfIds(ifs)
  BY <1>2, <1>5, NewTopInterface, ZenonT(60)
<1>7. /\ Without(top.unmatched_pool_ifs, t) \in Seq(Nat)
      /\ Kept(Without(top.unmatched_pool_ifs, t), Append(Front(ifs), i2),
              DOMAIN ms[top.current_match].interfaces)
  <2>1. /\ Last(ifs) = i /\ Last(Append(Front(ifs), i2)) = i2
        /\ Append(Front(ifs), i2) \in Seq(IfMatch)
        /\ SameBelow(ifs, Append(Front(ifs), i2))
    BY <1>6
  <2> DEFINE new == Append(Front(ifs), i2)
  <2> HIDE DEF new, ifs
  <2>2. /\ new \in Seq(IfMatch) /\ SameBelow(ifs, new) /\ Last(new) = i2
        /\ Last(ifs) = i
    BY <2>1 DEF new
  <2>3. /\ Without(top.unmatched_pool_ifs, t) \in Seq(Nat)
        /\ Kept(Without(top.unmatched_pool_ifs, t), new,
                DOMAIN ms[top.current_match].interfaces)
    BY <2>2, <1>1, <1>2, <1>5, EntriesTyped, KeptTake
  <2> QED  BY <2>3 DEF new
<1>8. /\ m \in MachineMatch /\ m.m_id = top.m_id /\ m.current_match = top.current_match
      /\ m.remaining_matches = top.remaining_matches
      /\ m.if_stack = Append(Front(ifs), i2)
      /\ m.unmatched_ifs = top.unmatched_ifs
      /\ m.unmatched_pool_ifs = Without(top.unmatched_pool_ifs, t)
  BY <1>1, <1>6, <1>7 DEF MachineMatch, TakenInterface, i2
<1>9. SameMachine(top, m) /\ LastInterfaceChanged(top, m)
  BY <1>2, <1>5, <1>6, <1>8 DEF SameMachine, LastInterfaceChanged
<1>10. v = FALSE /\ top.current_match # None
  BY DEF OneInterface, InterfacesOnTop
<1>11. IfsKept(m, req, ms, v)
  <2>1. _params_compatible(req[m.m_id].params, ms[m.current_match].params)
    BY <1>1, <1>8, <1>10 DEF IfsKept
  <2>2. DOMAIN m.if_stack = 1..N
    BY <1>6, <1>8, LenProperties
  <2>3. ASSUME NEW n \in DOMAIN m.if_stack, m.if_stack[n].current_match # None
        PROVE  _params_compatible(req[m.m_id].interfaces[m.if_stack[n].if_id].params,
                 ms[m.current_match].interfaces[m.if_stack[n].current_match].params)
    <3>1. CASE n = N
      <4>1. m.if_stack[n].if_id = i.if_id /\ m.if_stack[n].current_match = t
        BY <3>1, <1>5, <1>6, <1>8
      <4>2. _params_compatible(req_if.params, pool_if.params)
        BY DEF _check_interface_compatibility
      <4> QED  BY <4>1, <4>2, <1>8
    <3>2. CASE n # N
      <4>1. n \in 1 .. N - 1
        <5>1. N \in Nat /\ n \in 1..N
          BY <2>2, <1>2
        <5> HIDE DEF N
        <5> QED  BY ONLY <5>1, <3>2
      <4>2. n \in DOMAIN ifs
        BY <2>2, <1>2
      <4>3. m.if_stack[n] = ifs[n]
        BY <4>1, <1>6, <1>8
      <4> QED  BY <4>2, <4>3, <2>3, <1>1, <1>8 DEF IfsKept
    <3> QED  BY <3>1, <3>2
  <2> QED  BY <2>1, <2>3, <1>1, <1>6, <1>7, <1>8, <1>10 DEF IfsKept
<1>12. /\ ~Port(st, J, N) /\ Port(st2, J, N)
       /\ LastPlace(st, J, N) /\ OthersStay(st, st2, J, N)
  <2>1. Len(m.if_stack) = N /\ m.if_stack[N].current_match # None
    BY <1>5, <1>6, <1>8
  <2>2. st \in Seq(MachineMatch) /\ st # <<>> /\ m \in MachineMatch
    BY <1>1, <1>8
  <2>3. LastInterfaceChanged(Last(st), m)
    BY <1>9
  <2>4. PortsAround(st, m, st2, J, N)
    BY ONLY <2>2, <2>3, LastPort
  <2> HIDE DEF st2, J, N
  <2> QED  BY <2>1, <2>4 DEF PortsAround
<1>13. st2[J] = m
  BY <1>1, <1>8, NewTop
<1> HIDE DEF st2
<1>14. LabelsGiven(st2, given2, req, ms)
  <2>1. J \in Nat /\ N \in Nat
    BY <1>1, <1>2
  <2>2. /\ LabelAt(st2, req, J, N) = req_if.network
        /\ NetworkAt(st2, ms, J, N) = pool_if.network
        /\ Gift(st2, ms, J, N) = GiftOf(top, i, pool_if)
    <3>1. m.if_stack[N].if_id = i.if_id /\ m.if_stack[N].current_match = t
      BY <1>5, <1>6, <1>8
    <3>2. m.m_id = top.m_id /\ m.current_match = top.current_match
      BY <1>8
    <3> HIDE DEF J, N
    <3> QED  BY <3>1, <3>2, <1>13 DEF LabelAt, NetworkAt, Gift, GiftOf
  <2>3. given2 = WithLabel(given, LabelAt(st2, req, J, N), Gift(st2, ms, J, N))
    BY <2>2
  <2>4. \A l \in DOMAIN given :
          l = LabelAt(st2, req, J, N) <=> given[l].network = NetworkAt(st2, ms, J, N)
    BY <2>2 DEF _check_interface_compatibility
  <2>5. \A j, n \in Nat : Port(st2, j, n) <=> Port(st, j, n) \/ (j = J /\ n = N)
    <3> HIDE DEF J, N
    <3> QED  BY <1>12 DEF OthersStay
  <2>6. \A j, n \in Nat : Port(st, j, n) => SameAt(st, st2, j, n)
    <3> HIDE DEF J, N
    <3> QED  BY <1>12 DEF OthersStay
  <2>7. \A j, n \in Nat : Port(st, j, n) => j < J \/ (j = J /\ n <= N)
    BY <1>12 DEF LastPlace
  <2>8. LabelsGiven(st, given, req, ms) /\ ~Port(st, J, N)
    BY <1>1, <1>12
  <2> HIDE DEF J, N
  <2> QED  BY ONLY <2>1, <2>3, <2>4, <2>5, <2>6, <2>7, <2>8, LabelsTaken
<1>15. /\ InterfacesOnTop(st2, free, left, given2, req, ms, v)
       /\ Last(st2) = m /\ Front(st2) = Front(st)
  <2>1. InterfacesOnTop(st, free, left, given, req, ms, v)
    BY DEF OneInterface
  <2>2. LabelsGiven(Append(Front(st), m), given2, req, ms)
    BY <1>14 DEF st2
  <2>3. SameMachine(Last(st), m)
    BY <1>9
  <2> QED  BY ONLY <2>1, <2>2, <2>3, <1>11, InterfacesChanged DEF st2
<1> QED  BY <1>e, <1>f, <1>15, <1>6, <1>8 DEF OneInterface, st2

(***************************************************************************)
(* The interface on top has no candidate left.                             *)
(***************************************************************************)
LEMMA InterfacePopped ==
  ASSUME NEW st, NEW free, NEW left, NEW given, NEW req, NEW ms, NEW v,
         OneInterface(st, free, left, given, req, ms, v),
         Last(Last(st).if_stack).current_match = None,
         NEW m, m = _pop_if_stack(Last(st))
  PROVE  /\ InterfacesOnTop(Append(Front(st), m), free, left, given, req, ms, v)
         /\ Last(Append(Front(st), m)) = m
<1> DEFINE top == Last(st)
           ifs == top.if_stack
           i   == Last(ifs)
           st2 == Append(Front(st), m)
           J   == Len(st)
           N   == Len(ifs)
<1>1. /\ st \in Seq(MachineMatch) /\ st # <<>> /\ top \in MachineMatch
      /\ top = st[J] /\ J \in Nat
      /\ IfsKept(top, req, ms, v) /\ LabelsGiven(st, given, req, ms)
      /\ Split(top.unmatched_ifs, IfIds(ifs), DOMAIN req[top.m_id].interfaces)
      /\ Kept(top.unmatched_pool_ifs, ifs, DOMAIN ms[top.current_match].interfaces)
  BY OnTop DEF OneInterface
<1>2. /\ ifs \in Seq(IfMatch) /\ ifs # <<>> /\ N \in Nat \ {0} /\ i \in IfMatch
      /\ i = ifs[N] /\ DOMAIN ifs = 1..N /\ top.unmatched_pool_ifs \in Seq(Nat)
      /\ top.unmatched_ifs \in Seq(Nat)
  BY OneInterfaceTyped
<1>3. /\ Front(ifs) \in Seq(IfMatch) /\ Len(Front(ifs)) = N - 1
      /\ \A n \in 1 .. N - 1 : Front(ifs)[n] = ifs[n]
  BY <1>2, LastFront
<1>4. i.if_id \in Nat /\ Append(top.unmatched_ifs, i.if_id) \in Seq(Nat)
  <2>1. i.if_id \in Nat
    BY <1>2 DEF IfMatch
  <2> QED  BY <2>1, <1>2, Appended
<1>5. /\ m \in MachineMatch /\ m.m_id = top.m_id /\ m.current_match = top.current_match
      /\ m.remaining_matches = top.remaining_matches
      /\ m.if_stack = Front(ifs)
      /\ m.unmatched_ifs = Append(top.unmatched_ifs, i.if_id)
      /\ m.unmatched_pool_ifs = top.unmatched_pool_ifs
  BY <1>1, <1>3, <1>4 DEF MachineMatch, _pop_if_stack
<1>6. SameMachine(top, m) /\ LastInterfaceChanged(top, m)
  <2>1. Len(m.if_stack) = N - 1 /\ N - 1 # N
    BY <1>2, <1>3, <1>5
  <2> QED  BY <2>1, <1>2, <1>3, <1>5 DEF SameMachine, LastInterfaceChanged
<1>7. v = FALSE /\ top.current_match # None
  BY DEF OneInterface, InterfacesOnTop
<1>8. IfsKept(m, req, ms, v)
  <2>1. _params_compatible(req[m.m_id].params, ms[m.current_match].params)
    BY <1>1, <1>5, <1>7 DEF IfsKept
  <2>2. Split(m.unmatched_ifs, IfIds(m.if_stack), DOMAIN req[m.m_id].interfaces)
    <3>1. /\ IfIds(ifs) \in Seq(Nat) /\ IfIds(ifs) # <<>>
          /\ IfIds(Front(ifs)) = Front(IfIds(ifs)) /\ Last(IfIds(ifs)) = i.if_id
      BY <1>2, IfIdsFront
    <3>2. Split(Append(top.unmatched_ifs, Last(IfIds(ifs))), Front(IfIds(ifs)),
                DOMAIN req[top.m_id].interfaces)
      BY <3>1, <1>1, <1>2, SplitPop
    <3> QED  BY <3>1, <3>2, <1>5
  <2>3. Kept(m.unmatched_pool_ifs, m.if_stack, DOMAIN ms[m.current_match].interfaces)
    <3>1. Kept(top.unmatched_pool_ifs, Front(ifs), DOMAIN ms[top.current_match].interfaces)
      BY <1>1, <1>2, KeptPop
    <3> QED  BY <3>1, <1>5
  <2>4. ASSUME NEW n \in DOMAIN m.if_stack, m.if_stack[n].current_match # None
        PROVE  _params_compatible(req[m.m_id].interfaces[m.if_stack[n].if_id].params,
                 ms[m.current_match].interfaces[m.if_stack[n].current_match].params)
    <3>1. n \in 1 .. N - 1
      <4>1. DOMAIN m.if_stack = 1 .. N - 1
        BY <1>3, <1>5, LenProperties
      <4> QED  BY <4>1
    <3>2. n \in DOMAIN ifs
      BY <3>1, <1>2
    <3>3. m.if_stack[n] = ifs[n]
      BY <3>1, <1>3, <1>5
    <3> QED  BY <3>2, <3>3, <2>4, <1>1, <1>5 DEF IfsKept
  <2> QED  BY <2>1, <2>2, <2>3, <2>4, <1>5, <1>7 DEF IfsKept
<1>9. /\ ~Port(st, J, N) /\ ~Port(st2, J, N) /\ OthersStay(st, st2, J, N)
  <2>1. Len(m.if_stack) # N
    BY <1>2, <1>3, <1>5
  <2>2. st \in Seq(MachineMatch) /\ st # <<>> /\ m \in MachineMatch
    BY <1>1, <1>5
  <2>3. LastInterfaceChanged(Last(st), m)
    BY <1>6
  <2>4. PortsAround(st, m, st2, J, N)
    BY ONLY <2>2, <2>3, LastPort
  <2> HIDE DEF st2, J, N
  <2> QED  BY <2>1, <2>4 DEF PortsAround
<1> HIDE DEF st2
<1>10. LabelsGiven(st2, given, req, ms)
  <2>1. ASSUME NEW j \in Nat, NEW n \in Nat
        PROVE  /\ Port(st2, j, n) <=> Port(st, j, n)
               /\ Port(st, j, n) => SameAt(st, st2, j, n)
    <3> HIDE DEF J, N
    <3>1. CASE j = J /\ n = N
      BY <3>1, <1>9
    <3>2. CASE ~(j = J /\ n = N)
      BY <3>2, <1>9 DEF OthersStay
    <3> QED  BY <3>1, <3>2
  <2> QED  BY <2>1, <1>1, LabelsSame
<1>11. /\ InterfacesOnTop(st2, free, left, given, req, ms, v)
       /\ Last(st2) = m /\ Front(st2) = Front(st)
  <2>1. InterfacesOnTop(st, free, left, given, req, ms, v)
    BY DEF OneInterface
  <2>2. LabelsGiven(Append(Front(st), m), given, req, ms)
    BY <1>10 DEF st2
  <2>3. SameMachine(Last(st), m)
    BY <1>6
  <2> QED  BY ONLY <2>1, <2>2, <2>3, <1>8, InterfacesChanged DEF st2
<1> QED  BY <1>11 DEF st2

-----------------------------------------------------------------------------
=============================================================================

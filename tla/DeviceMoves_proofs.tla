------------------------- MODULE DeviceMoves_proofs -------------------------
(***************************************************************************)
(* The views of a device agree, for any devices, namespaces and numbers of *)
(* operations, and any of the faults.                                      *)
(*                                                                         *)
(* What is said of index i of namespace n is followed on its way: from the *)
(* kernel to the socket of the agent of n, to what the agent knows, to the *)
(* stream of messages that ends at the controller, to its database.  The   *)
(* invariant DeviceInv says for each of these stages what the next one may *)
(* assume: a stream never reports that i leaves after it has reported that *)
(* i comes (Shape), what comes is there and known (Pending), what is known *)
(* or on its way is in the database (Chain), and an index the controller   *)
(* has a command or a handle for is there, known, and nothing about it is  *)
(* on its way (InHand).                                                    *)
(*                                                                         *)
(* First what holds of queues of messages, then the invariant, then the    *)
(* agents' steps, those of the controller, and the theorems.               *)
(***************************************************************************)
EXTENDS DeviceMoves, FiniteSetTheorems, SequenceTheorems, TLAPS

\* the messages there are
LinkMessages == [type : {"NEWLINK", "DELLINK", "CREATED"}, idx : Indices, new : Indices \union {NoIdx}]
EventTypes   == {"dev_created", "dev_deleted", "dev_netns_changed"}
Events       == [type : EventTypes, ns : Spaces, idx : Indices, new : Indices \union {NoIdx}]
Answers      == {Answer("result"), Answer("exception")}
Messages     == Events \union Answers

\* The parts of a queue of messages that are about index i of namespace n.
On(m, n, i)    == m.ns = n /\ m.idx = i
IsAnswer(m)    == m.type \in {"result", "exception"}
Leave(q, n, i) == \E k \in DOMAIN q : On(q[k], n, i) /\ q[k].type \in {"dev_deleted", "dev_netns_changed"}
Come(q, n, i)  == \E k \in DOMAIN q : On(q[k], n, i) /\ q[k].type = "dev_created"
InOrder(q, n, i) ==
  \A k, l \in DOMAIN q : k < l /\ On(q[k], n, i) /\ On(q[l], n, i)
    => q[k].type # "dev_created" /\ q[l].type = "dev_created"
Answered1(q)   == \E k \in DOMAIN q : IsAnswer(q[k])
Behind(q, n, i) == \A k, l \in DOMAIN q : k < l /\ IsAnswer(q[k]) => ~On(q[l], n, i)

-----------------------------------------------------------------------------
\* A set of naturals has a least element (induction without an operator parameter).
LEMMA LeastNat ==
  ASSUME NEW T \in SUBSET Nat, T # {}
  PROVE  \E x \in T : \A y \in T : x <= y
<1> DEFINE F == {0..n : n \in T}
<1>1. F \subseteq FiniteSubsetsOf(Nat)
  <2>1. \A n \in Nat : IsFiniteSet(0..n) /\ 0..n \in SUBSET Nat
    BY FS_Interval
  <2> QED
    BY <2>1 DEF FiniteSubsetsOf
<1>2. F # {}
  OBVIOUS
<1>3. PICK I \in F : \A J \in F : <<J, I>> \notin StrictSubsetOrdering(Nat)
  <2>1. IsWellFoundedOn(StrictSubsetOrdering(Nat), FiniteSubsetsOf(Nat))
    BY FS_StrictSubsetOrderingWellFounded
  <2> HIDE DEF F
  <2> QED
    BY <1>1, <1>2, <2>1, WFMin
<1>4. PICK x \in T : I = 0..x
  OBVIOUS
<1>5. ASSUME NEW y \in T, y < x PROVE FALSE
  <2>1. 0..y \in F /\ 0..y \subseteq I /\ x \in I /\ x \notin 0..y
    BY <1>4, <1>5
  <2>2. I \in SUBSET Nat /\ 0..y \in SUBSET Nat
    BY <1>4
  <2> QED
    BY <1>3, <2>1, <2>2 DEF StrictSubsetOrdering
<1> QED
  BY <1>5

\* Induction on the natural numbers, for a set of numbers.
LEMMA InductionTo ==
  ASSUME NEW N \in Nat, NEW S, 0 \in S, \A k \in 1..N : k - 1 \in S => k \in S
  PROVE  \A k \in 0..N : k \in S
<1> SUFFICES ASSUME NEW b \in 0..N, b \notin S
             PROVE  FALSE
  OBVIOUS
<1> DEFINE T == {k \in 0..N : k \notin S}
<1>1. PICK x \in T : \A y \in T : x <= y
  <2>1. T \in SUBSET Nat /\ T # {}
    OBVIOUS
  <2> HIDE DEF T
  <2> QED
    BY <2>1, LeastNat
<1>2. x \in 0..N /\ x # 0
  OBVIOUS
<1>3. x - 1 \in 0..N /\ x - 1 \notin T
  BY <1>1, <1>2
<1> QED
  BY <1>1, <1>2, <1>3

\* SetToSeq lists all of a finite set.
LEMMA SetToSeqIsAll ==
  ASSUME NEW S, IsFiniteSet(S)
  PROVE  /\ SetToSeq(S) \in Seq(S)
         /\ \A x \in S : \E k \in DOMAIN SetToSeq(S) : SetToSeq(S)[k] = x
<1> DEFINE N == Cardinality(S)
<1>1. N \in Nat /\ ExistsBijection(1..N, S)
  BY FS_CardinalityType
<1>2. PICK g \in Bijection(1..N, S) : TRUE
  BY <1>1 DEF ExistsBijection
<1>3. g \in [1..N -> S] /\ IsInjective(g)
  BY <1>2 DEF Bijection, Injection
<1> DEFINE f == SetToSeq(S)
<1>4. f \in [1..N -> S] /\ IsInjective(f)
  <2>1. \E h \in [1..N -> S] : IsInjective(h)
    BY <1>3
  <2> QED
    BY <2>1 DEF SetToSeq
<1>5. f \in Seq(S)
  BY <1>1, <1>4
<1>6. ASSUME NEW x \in S PROVE \E k \in DOMAIN f : f[k] = x
  <2> DEFINE T == {y \in S : \E k \in 1..N : f[k] = y}
  <2>1. IsFiniteSet(T) /\ Cardinality(T) <= N /\ (Cardinality(T) = N => T = S)
    BY <1>1, FS_Subset
  <2>2. f \in Bijection(1..N, T)
    BY <1>4 DEF Bijection, Injection, Surjection, IsInjective
  <2>3. Cardinality(T) = N
    <3>1. IsFiniteSet(1..N) /\ Cardinality(1..N) = N
      BY <1>1, FS_Interval
    <3>2. ExistsBijection(1..N, T)
      BY <2>2 DEF ExistsBijection
    <3> QED
      BY ONLY <3>1, <3>2, FS_Bijection
  <2>4. x \in T
    BY <2>1, <2>3
  <2> QED
    BY <2>4, <1>4
<1> QED
  BY <1>5, <1>6

\* A namespace has finitely many indices.
LEMMA IndicesFinite == \A S \in SUBSET Indices : IsFiniteSet(S)
<1>1. MaxIdx \in Nat
  BY MovesAssumption
<1>2. IsFiniteSet(Indices)
  BY <1>1, FS_Interval DEF Indices
<1> QED
  BY <1>2, FS_Subset

\* NoIdx is not the index of any device.
LEMMA NoIdxNotIndex == NoIdx \notin Indices /\ Indices \subseteq Nat
BY MovesAssumption DEF NoIdx, Indices

\* A dump lists the links of the namespace.
LEMMA DumpIsAll ==
  ASSUME NEW w, NEW n
  PROVE  /\ Dump(w, n) \in Seq(LinkMessages)
         /\ \A k \in DOMAIN Dump(w, n) : \E i \in At(w, n) : Dump(w, n)[k] = NEWLINK(i)
         /\ \A i \in At(w, n) : \E k \in DOMAIN Dump(w, n) : Dump(w, n)[k] = NEWLINK(i)
<1> DEFINE L == SetToSeq(At(w, n))
<1>1. At(w, n) \in SUBSET Indices
  BY DEF At
<1>2. L \in Seq(At(w, n)) /\ \A x \in At(w, n) : \E k \in DOMAIN L : L[k] = x
  BY <1>1, IndicesFinite, SetToSeqIsAll
<1>3. Dump(w, n) = [k \in DOMAIN L |-> NEWLINK(L[k])]
  BY DEF Dump
<1>4. DOMAIN L = 1..Len(L) /\ Len(L) \in Nat /\ \A k \in DOMAIN L : L[k] \in At(w, n)
  BY <1>2
<1>5. \A i \in Indices : NEWLINK(i) \in LinkMessages
  BY DEF NEWLINK, Link, LinkMessages
<1>6. Dump(w, n) \in [1..Len(L) -> LinkMessages]
  <2> HIDE DEF L
  <2> QED
    BY <1>1, <1>3, <1>4, <1>5
<1>7. Dump(w, n) \in Seq(LinkMessages)
  BY <1>4, <1>6
<1> HIDE DEF L
<1> QED
  BY <1>2, <1>3, <1>4, <1>7

-----------------------------------------------------------------------------
(* What an agent makes of netlink messages *)

Step1(n, s, m) == LET r == LinkEvent(n, s.known, m)
                  IN  [known |-> r.known, events |-> s.events \o r.events]

\* HandleNetlink is what a list of results, one for each message, ends with.
LEMMA HandledSteps ==
  ASSUME NEW n, NEW q, Len(q) \in Nat
  PROVE  \E h : /\ h[0] = [known |-> known[n], events |-> <<>>]
                /\ \A k \in 1..Len(q) : h[k] = Step1(n, h[k - 1], q[k])
                /\ HandleNetlink(n, q) = h[Len(q)]
<1> DEFINE N == Len(q)
           Base == [known |-> known[n], events |-> <<>>]
           Good(g, k) == g = [j \in 0..k |-> IF j = 0 THEN Base ELSE Step1(n, g[j - 1], q[j])]
           S == {k \in 0..N : \E g : Good(g, k)}
<1>1. 0 \in S
  <2> DEFINE f == [j \in 0..0 |-> Base]
  <2>1. f = [j \in 0..0 |-> IF j = 0 THEN Base ELSE Step1(n, f[j - 1], q[j])]
    <3> HIDE DEF Base
    <3> QED
      OBVIOUS
  <2>2. Good(f, 0)
    BY <2>1
  <2> HIDE DEF Good
  <2> QED
    BY <2>2
<1>2. ASSUME NEW k \in 1..N, k - 1 \in S PROVE k \in S
  <2>1. PICK g : Good(g, k - 1)
    BY <1>2
  <2> DEFINE f == [j \in 0..k |-> IF j = k THEN Step1(n, g[k - 1], q[k]) ELSE g[j]]
  <2>2. \A j \in 0..k : f[j] = IF j = 0 THEN Base ELSE Step1(n, f[j - 1], q[j])
    <3>1. \A j \in 0..(k - 1) : f[j] = g[j]
      OBVIOUS
    <3>2. \A j \in 0..(k - 1) : g[j] = IF j = 0 THEN Base ELSE Step1(n, g[j - 1], q[j])
      <4> HIDE DEF Base
      <4> QED
        BY <2>1
    <3>3. f[k] = Step1(n, f[k - 1], q[k])
      BY <3>1
    <3> HIDE DEF f, Base
    <3>4. ASSUME NEW j \in 0..(k - 1) PROVE f[j] = IF j = 0 THEN Base ELSE Step1(n, f[j - 1], q[j])
      <4>1. CASE j = 0
        BY <3>1, <3>2, <4>1
      <4>2. CASE j # 0
        <5>1. j - 1 \in 0..(k - 1)
          BY <4>2
        <5> QED
          BY <3>1, <3>2, <4>2, <5>1
      <4> QED
        BY <4>1, <4>2
    <3>5. k # 0
      OBVIOUS
    <3> QED
      BY <3>3, <3>4, <3>5
  <2>3. f = [j \in 0..k |-> IF j = 0 THEN Base ELSE Step1(n, f[j - 1], q[j])]
    <3>1. f = [j \in 0..k |-> f[j]]
      OBVIOUS
    <3> HIDE DEF f, Base
    <3> QED
      BY <2>2, <3>1
  <2> HIDE DEF f, Base
  <2> QED
    BY <2>3, <1>2
<1>3. N \in S
  <2> HIDE DEF S, N
  <2>1. N \in Nat
    BY DEF N
  <2> QED
    BY <1>1, <1>2, <2>1, InductionTo
<1> DEFINE h == CHOOSE g : Good(g, N)
<1>4. Good(h, N)
  <2> HIDE DEF Good
  <2> QED
    BY <1>3
<1>5. HandleNetlink(n, q) = h[N]
  BY DEF HandleNetlink, Step1
<1>6. h[0] = Base /\ \A k \in 1..N : h[k] = Step1(n, h[k - 1], q[k])
  <2> HIDE DEF Base, h
  <2> QED
    BY <1>4
<1> QED
  BY <1>5, <1>6

-----------------------------------------------------------------------------
(* Queues of messages *)

\* A message is an event or an answer; only events are about a device.
LEMMA MessageFacts ==
  /\ \A m \in Messages : m \in Events <=> ~IsAnswer(m)
  /\ \A m \in Messages : \A n, i : i \in Indices /\ On(m, n, i) => m \in Events
  /\ \A m \in Events : m.ns \in Spaces /\ m.idx \in Indices /\ m.type \in EventTypes
                       /\ m.new \in Indices \union {NoIdx}
BY NoIdxNotIndex DEF Messages, Events, EventTypes, Answers, Answer, Message, IsAnswer, On

\* Where the messages of two queues are when one follows the other.
LEMMA Positions ==
  ASSUME NEW S, NEW q \in Seq(S), NEW r \in Seq(S)
  PROVE  /\ q \o r \in Seq(S) /\ Len(q \o r) = Len(q) + Len(r)
         /\ \A k \in DOMAIN q : k \in DOMAIN (q \o r) /\ (q \o r)[k] = q[k]
         /\ \A k \in DOMAIN r : Len(q) + k \in DOMAIN (q \o r) /\ (q \o r)[Len(q) + k] = r[k]
         /\ \A k \in DOMAIN (q \o r) : \/ k \in DOMAIN q
                                       \/ k - Len(q) \in DOMAIN r /\ k > Len(q)
OBVIOUS

\* What is said in a queue that is put together is said in one of its parts.
LEMMA QueueConcat ==
  ASSUME NEW q \in Seq(Messages), NEW r \in Seq(Messages), NEW n, NEW i
  PROVE  /\ q \o r \in Seq(Messages)
         /\ Leave(q \o r, n, i) <=> Leave(q, n, i) \/ Leave(r, n, i)
         /\ Come(q \o r, n, i) <=> Come(q, n, i) \/ Come(r, n, i)
         /\ Answered1(q \o r) <=> Answered1(q) \/ Answered1(r)
<1>1. /\ \A k \in DOMAIN q : k \in DOMAIN (q \o r) /\ (q \o r)[k] = q[k]
      /\ \A k \in DOMAIN r : Len(q) + k \in DOMAIN (q \o r) /\ (q \o r)[Len(q) + k] = r[k]
      /\ \A k \in DOMAIN (q \o r) : \/ k \in DOMAIN q
                                    \/ k - Len(q) \in DOMAIN r /\ k > Len(q)
      /\ q \o r \in Seq(Messages)
  BY Positions
<1>2. \A k \in DOMAIN (q \o r) : \/ k \in DOMAIN q /\ (q \o r)[k] = q[k]
                                 \/ k - Len(q) \in DOMAIN r /\ (q \o r)[k] = r[k - Len(q)]
  OBVIOUS
<1> DEFINE s == q \o r
<1>0. /\ \A k \in DOMAIN q : k \in DOMAIN s /\ s[k] = q[k]
      /\ \A k \in DOMAIN r : \E l \in DOMAIN s : s[l] = r[k]
      /\ \A k \in DOMAIN s : (\E l \in DOMAIN q : s[k] = q[l]) \/ (\E l \in DOMAIN r : s[k] = r[l])
  BY <1>1, <1>2
<1> HIDE DEF s
<1>3. Leave(s, n, i) <=> Leave(q, n, i) \/ Leave(r, n, i)
  BY <1>0 DEF Leave
<1>4. Come(s, n, i) <=> Come(q, n, i) \/ Come(r, n, i)
  BY <1>0 DEF Come
<1>5. Answered1(s) <=> Answered1(q) \/ Answered1(r)
  BY <1>0 DEF Answered1
<1> QED
  BY <1>1, <1>3, <1>4, <1>5 DEF s

\* A queue says neither that i leaves nor that it comes if it says nothing of i.
LEMMA NotOn ==
  ASSUME NEW q \in Seq(Messages), NEW n, NEW i \in Indices
  PROVE  ~Leave(q, n, i) /\ ~Come(q, n, i) <=> \A k \in DOMAIN q : ~On(q[k], n, i)
<1>1. \A k \in DOMAIN q : q[k] \in Messages
  OBVIOUS
<1>2. \A k \in DOMAIN q : On(q[k], n, i) => q[k].type \in EventTypes
  BY <1>1, MessageFacts
<1> QED
  BY <1>2 DEF Leave, Come, EventTypes

\* The order is kept when nothing follows the arrival of i.
LEMMA ConcatInOrder ==
  ASSUME NEW q \in Seq(Messages), NEW r \in Seq(Messages), NEW n, NEW i \in Indices,
         InOrder(q, n, i), InOrder(r, n, i),
         Come(q, n, i) => ~Leave(r, n, i) /\ ~Come(r, n, i),
         Leave(q, n, i) => ~Leave(r, n, i)
  PROVE  InOrder(q \o r, n, i)
<1> DEFINE s == q \o r
<1> SUFFICES ASSUME NEW k \in DOMAIN s, NEW l \in DOMAIN s, k < l, On(s[k], n, i), On(s[l], n, i)
             PROVE  s[k].type # "dev_created" /\ s[l].type = "dev_created"
  BY DEF InOrder
<1>1. \A j \in DOMAIN s : \/ j \in DOMAIN q /\ s[j] = q[j]
                          \/ j - Len(q) \in DOMAIN r /\ s[j] = r[j - Len(q)] /\ j > Len(q)
  OBVIOUS
<1>2. DOMAIN q = 1..Len(q) /\ Len(q) \in Nat /\ k \in Nat /\ l \in Nat
  <2>1. DOMAIN s = 1..(Len(q) + Len(r)) /\ Len(q) \in Nat
    OBVIOUS
  <2> QED
    BY <2>1
<1> HIDE DEF s
<1>3. CASE l \in DOMAIN q
  <2>1. k \in DOMAIN q /\ s[k] = q[k] /\ s[l] = q[l]
    BY <1>1, <1>2, <1>3
  <2> QED
    BY <2>1, <1>3 DEF InOrder
<1>4. CASE k > Len(q)
  <2>1. /\ k - Len(q) \in DOMAIN r /\ l - Len(q) \in DOMAIN r /\ k - Len(q) < l - Len(q)
        /\ s[k] = r[k - Len(q)] /\ s[l] = r[l - Len(q)]
    BY <1>1, <1>2, <1>4
  <2> QED
    BY <2>1 DEF InOrder
<1>5. CASE k \in DOMAIN q /\ l > Len(q)
  <2>1. s[k] = q[k] /\ l - Len(q) \in DOMAIN r /\ s[l] = r[l - Len(q)]
    BY <1>1, <1>2, <1>5
  <2>2. q[k] \in Messages /\ r[l - Len(q)] \in Messages
    BY <1>5, <2>1
  <2>3. q[k].type \in EventTypes /\ r[l - Len(q)].type \in EventTypes
    BY <2>1, <2>2, MessageFacts
  <2>4. Leave(q, n, i) \/ Come(q, n, i)
    BY <1>5, <2>1, <2>3 DEF Leave, Come, EventTypes
  <2>5. ~Leave(r, n, i)
    BY <2>4
  <2>6. r[l - Len(q)].type = "dev_created"
    BY <2>1, <2>3, <2>5 DEF Leave, EventTypes
  <2>7. Come(r, n, i)
    BY <2>1, <2>6 DEF Come
  <2>8. ~Come(q, n, i)
    BY <2>7
  <2> QED
    BY <1>5, <2>1, <2>6, <2>8 DEF Come
<1> QED
  BY <1>1, <1>2, <1>3, <1>4, <1>5

\* Nothing about i follows an answer when nothing about i is added after one.
LEMMA ConcatBehind ==
  ASSUME NEW q \in Seq(Messages), NEW r \in Seq(Messages), NEW n, NEW i \in Indices,
         Behind(q, n, i), Behind(r, n, i),
         Answered1(q) => ~Leave(r, n, i) /\ ~Come(r, n, i)
  PROVE  Behind(q \o r, n, i)
<1> DEFINE s == q \o r
<1> SUFFICES ASSUME NEW k \in DOMAIN s, NEW l \in DOMAIN s, k < l, IsAnswer(s[k])
             PROVE  ~On(s[l], n, i)
  BY DEF Behind
<1>1. \A j \in DOMAIN s : \/ j \in DOMAIN q /\ s[j] = q[j]
                          \/ j - Len(q) \in DOMAIN r /\ s[j] = r[j - Len(q)] /\ j > Len(q)
  OBVIOUS
<1>2. DOMAIN q = 1..Len(q) /\ Len(q) \in Nat /\ k \in Nat /\ l \in Nat
  <2>1. DOMAIN s = 1..(Len(q) + Len(r)) /\ Len(q) \in Nat
    OBVIOUS
  <2> QED
    BY <2>1
<1> HIDE DEF s
<1>3. CASE l \in DOMAIN q
  <2>1. k \in DOMAIN q /\ s[k] = q[k] /\ s[l] = q[l]
    BY <1>1, <1>2, <1>3
  <2> QED
    BY <2>1, <1>3 DEF Behind
<1>4. CASE k > Len(q)
  <2>1. /\ k - Len(q) \in DOMAIN r /\ l - Len(q) \in DOMAIN r /\ k - Len(q) < l - Len(q)
        /\ s[k] = r[k - Len(q)] /\ s[l] = r[l - Len(q)]
    BY <1>1, <1>2, <1>4
  <2> QED
    BY <2>1 DEF Behind
<1>5. CASE k \in DOMAIN q /\ l > Len(q)
  <2>1. s[k] = q[k] /\ l - Len(q) \in DOMAIN r /\ s[l] = r[l - Len(q)]
    BY <1>1, <1>2, <1>5
  <2>2. Answered1(q)
    BY <1>5, <2>1 DEF Answered1
  <2> QED
    BY <2>1, <2>2, NotOn
<1> QED
  BY <1>1, <1>2, <1>3, <1>4, <1>5

\* What is left of a queue when its first messages are taken.
LEMMA QueueRest ==
  ASSUME NEW q \in Seq(Messages), NEW b \in 0..Len(q), NEW n, NEW i,
         NEW t, t = SubSeq(q, b + 1, Len(q))
  PROVE  /\ t \in Seq(Messages) /\ Len(t) = Len(q) - b
         /\ \A k \in DOMAIN t : k + b \in DOMAIN q /\ t[k] = q[k + b]
         /\ \A k \in DOMAIN q : k > b => k - b \in DOMAIN t /\ t[k - b] = q[k]
         /\ Leave(t, n, i) => Leave(q, n, i)
         /\ Come(t, n, i) => Come(q, n, i)
         /\ Answered1(t) => Answered1(q)
         /\ InOrder(q, n, i) => InOrder(t, n, i)
         /\ Behind(q, n, i) => Behind(t, n, i)
<1>1. Len(q) \in Nat /\ b \in Nat /\ b <= Len(q)
  OBVIOUS
<1>2. t \in Seq(Messages) /\ Len(t) = Len(q) - b
  <2>1. CASE b + 1 <= Len(q)
    BY <1>1, <2>1, SubSeqProperties
  <2>2. CASE b = Len(q)
    <3>1. SubSeq(q, Len(q) + 1, Len(q)) = <<>>
      BY <1>1
    <3> QED
      BY <1>1, <2>2, <3>1
  <2> QED
    BY <1>1, <2>1, <2>2
<1>3. \A k \in DOMAIN t : k + b \in DOMAIN q /\ t[k] = q[k + b]
  BY <1>1, <1>2
<1>4. \A k \in DOMAIN q : k > b => k - b \in DOMAIN t /\ t[k - b] = q[k]
  <2> SUFFICES ASSUME NEW k \in DOMAIN q, k > b PROVE k - b \in DOMAIN t /\ t[k - b] = q[k]
    OBVIOUS
  <2>1. k - b \in DOMAIN t
    BY <1>1, <1>2
  <2> QED
    BY <2>1, <1>3, <1>1
<1>5. DOMAIN t \subseteq Nat /\ DOMAIN q \subseteq Nat
  BY <1>1, <1>2
<1> QED
  BY <1>1, <1>2, <1>3, <1>4, <1>5 DEF Leave, Come, Answered1, InOrder, Behind

\* A queue of netlink messages, and index i.
Tells(m, i)   == m.type # "DELLINK" /\ m.idx = i
Told(q, k, i) == \E l \in 1..k : Tells(q[l], i)
Drop1(q, i)   == q # <<>> /\ q[1].type = "DELLINK" /\ q[1].idx = i
DropFirst(q)  == \A k \in DOMAIN q : q[k].type = "DELLINK" => k = 1

\* What becomes known, and what is sent, of one message.
LEMMA LinkEventTypes ==
  ASSUME NEW n \in Spaces, NEW k \in SUBSET Indices, NEW m \in LinkMessages
  PROVE  /\ LinkEvent(n, k, m).known \in SUBSET Indices
         /\ \/ LinkEvent(n, k, m).events = <<>>
            \/ \E e \in Events : /\ LinkEvent(n, k, m).events = <<e>> /\ On(e, n, m.idx)
                                 /\ e.type = "dev_netns_changed" => e.new = m.new /\ m.new # NoIdx
<1> DEFINE r == LinkEvent(n, k, m)
<1>1. m.idx \in Indices /\ m.new \in Indices \union {NoIdx}
  BY DEF LinkMessages
<1>2. \A t \in EventTypes, j \in Indices \union {NoIdx} : Message(t, n, m.idx, j) \in Events
  BY <1>1 DEF Message, Events
<1>3. CASE m.type = "DELLINK"
  <2>1. r.known = k \ {m.idx}
    BY <1>3 DEF LinkEvent
  <2>2. \/ r.events = <<>>
        \/ r.events = <<Message("dev_deleted", n, m.idx, NoIdx)>>
        \/ r.events = <<Message("dev_netns_changed", n, m.idx, m.new)>> /\ m.new # NoIdx
    BY <1>3 DEF LinkEvent
  <2>3. CASE r.events = <<Message("dev_deleted", n, m.idx, NoIdx)>>
    <3> DEFINE e == Message("dev_deleted", n, m.idx, NoIdx)
    <3>1. e \in Events /\ On(e, n, m.idx) /\ e.type # "dev_netns_changed"
      BY <1>2 DEF EventTypes, Message, On
    <3> QED
      BY <2>1, <2>3, <3>1
  <2>4. CASE r.events = <<Message("dev_netns_changed", n, m.idx, m.new)>> /\ m.new # NoIdx
    <3> DEFINE e == Message("dev_netns_changed", n, m.idx, m.new)
    <3>1. e \in Events /\ On(e, n, m.idx) /\ e.new = m.new
      BY <1>1, <1>2 DEF EventTypes, Message, On
    <3> QED
      BY <2>1, <2>4, <3>1
  <2> QED
    BY <2>1, <2>2, <2>3, <2>4
<1>4. CASE m.type # "DELLINK"
  <2>1. r.known = k \union {m.idx} /\ r.events = Created(n, k, m)
    BY <1>4 DEF LinkEvent
  <2> DEFINE e == Message("dev_created", n, m.idx, NoIdx)
  <2>2. e \in Events /\ On(e, n, m.idx) /\ e.type # "dev_netns_changed"
    BY <1>2 DEF EventTypes, Message, On
  <2>3. r.events = <<>> \/ r.events = <<e>>
    BY <2>1 DEF Created
  <2> HIDE DEF e
  <2> QED
    BY <1>1, <2>1, <2>2, <2>3
<1> QED
  BY <1>3, <1>4

\* A queue of events is one of messages.
LEMMA EventsAreMessages == Seq(Events) \subseteq Seq(Messages)
BY DEF Messages

\* The events an agent sends are its own; a move it reports was in its socket.
LEMMA HandledTypes ==
  ASSUME NEW n \in Spaces, NEW q \in Seq(LinkMessages), known[n] \in SUBSET Indices,
         NEW r, r = HandleNetlink(n, q)
  PROVE  /\ r.known \in SUBSET Indices
         /\ r.events \in Seq(Events)
         /\ \A k \in DOMAIN r.events :
              /\ r.events[k].ns = n
              /\ r.events[k].type = "dev_netns_changed" =>
                   \E l \in DOMAIN q : q[l].idx = r.events[k].idx /\ q[l].new = r.events[k].new
                                       /\ q[l].new # NoIdx
<1>1. Len(q) \in Nat /\ DOMAIN q = 1..Len(q)
  OBVIOUS
<1>2. PICK h : /\ h[0] = [known |-> known[n], events |-> <<>>]
               /\ \A k \in 1..Len(q) : h[k] = Step1(n, h[k - 1], q[k])
               /\ r = h[Len(q)]
  BY <1>1, HandledSteps
<1> DEFINE Good(s) ==
             /\ s.known \in SUBSET Indices
             /\ s.events \in Seq(Events)
             /\ \A k \in DOMAIN s.events :
                  /\ s.events[k].ns = n
                  /\ s.events[k].type = "dev_netns_changed" =>
                       \E l \in DOMAIN q : q[l].idx = s.events[k].idx /\ q[l].new = s.events[k].new
                                           /\ q[l].new # NoIdx
           S == {k \in 0..Len(q) : Good(h[k])}
<1>3. 0 \in S
  <2>1. h[0].known = known[n] /\ h[0].events = <<>>
    BY <1>2
  <2>2. Good(h[0])
    BY <2>1
  <2> HIDE DEF Good
  <2> QED
    BY <1>1, <2>2
<1>4. ASSUME NEW k \in 1..Len(q), k - 1 \in S PROVE k \in S
  <2> DEFINE s == h[k - 1]
             e1 == LinkEvent(n, s.known, q[k])
             t == h[k]
  <2>1. Good(s)
    BY <1>4
  <2>2. t.known = e1.known /\ t.events = s.events \o e1.events
    <3>1. t = Step1(n, s, q[k])
      BY <1>2
    <3> DEFINE B == s.events \o e1.events
    <3>2. Step1(n, s, q[k]) = [known |-> e1.known, events |-> B]
      BY DEF Step1
    <3> HIDE DEF s, t, e1
    <3> SUFFICES t.known = e1.known /\ t.events = B
      OBVIOUS
    <3> HIDE DEF B
    <3> QED
      BY <3>1, <3>2
  <2>3. q[k] \in LinkMessages /\ k \in DOMAIN q
    BY <1>1
  <2>4. /\ e1.known \in SUBSET Indices
        /\ \/ e1.events = <<>>
           \/ \E e \in Events : /\ e1.events = <<e>> /\ On(e, n, q[k].idx)
                                /\ e.type = "dev_netns_changed" => e.new = q[k].new /\ q[k].new # NoIdx
    <3> HIDE DEF s
    <3>1. s.known \in SUBSET Indices
      BY <2>1
    <3> QED
      BY <2>3, <3>1, LinkEventTypes
  <2> HIDE DEF s, t, e1
  <2>5. CASE e1.events = <<>>
    <3>1. t.events = s.events
      BY <2>1, <2>2, <2>5
    <3>2. Good(t)
      BY <2>1, <2>2, <2>4, <3>1
    <3> QED
      BY <3>2 DEF t
  <2>6. CASE \E e \in Events : /\ e1.events = <<e>> /\ On(e, n, q[k].idx)
                               /\ e.type = "dev_netns_changed" => e.new = q[k].new /\ q[k].new # NoIdx
    <3>1. PICK e \in Events : /\ e1.events = <<e>> /\ On(e, n, q[k].idx)
                              /\ e.type = "dev_netns_changed" => e.new = q[k].new /\ q[k].new # NoIdx
      BY <2>6
    <3>2. /\ t.events \in Seq(Events)
          /\ \A l \in DOMAIN t.events : \/ l \in DOMAIN s.events /\ t.events[l] = s.events[l]
                                        \/ t.events[l] = e
      BY <2>1, <2>2, <3>1
    <3>3. ASSUME NEW l \in DOMAIN t.events
          PROVE  /\ t.events[l].ns = n
                 /\ t.events[l].type = "dev_netns_changed" =>
                      \E j \in DOMAIN q : q[j].idx = t.events[l].idx /\ q[j].new = t.events[l].new
                                          /\ q[j].new # NoIdx
      <4>1. CASE t.events[l] = e
        BY <2>3, <3>1, <4>1 DEF On
      <4>2. CASE l \in DOMAIN s.events /\ t.events[l] = s.events[l]
        BY <2>1, <4>2
      <4> QED
        BY <3>2, <4>1, <4>2
    <3>4. Good(t)
      BY <2>2, <2>4, <3>2, <3>3
    <3> QED
      BY <3>4 DEF t
  <2> QED
    BY <2>4, <2>5, <2>6
<1>5. Len(q) \in S
  <2>1. \A k \in 1..Len(q) : k - 1 \in S => k \in S
    BY <1>4
  <2>2. Len(q) \in 0..Len(q)
    BY <1>1
  <2> DEFINE N == Len(q)
  <2> HIDE DEF S, N
  <2>3. \A k \in 0..N : k \in S
    BY ONLY <1>1, <1>3, <2>1, InductionTo DEF N
  <2> QED
    BY ONLY <2>2, <2>3 DEF N
<1>6. Good(r)
  <2> HIDE DEF Good
  <2> QED
    BY <1>2, <1>5
<1> HIDE DEF S
<1> QED
  BY ONLY <1>6

\* The event of one message, and index i.
LEMMA LinkEventOn ==
  ASSUME NEW n \in Spaces, NEW k \in SUBSET Indices, NEW m \in LinkMessages, NEW i \in Indices
  PROVE  /\ Tells(m, i) => i \in LinkEvent(n, k, m).known
         /\ ~Tells(m, i) /\ ~(m.type = "DELLINK" /\ m.idx = i) =>
              (i \in LinkEvent(n, k, m).known <=> i \in k)
         /\ m.type = "DELLINK" /\ m.idx = i => i \notin LinkEvent(n, k, m).known
         /\ Leave(LinkEvent(n, k, m).events, n, i) <=> m.type = "DELLINK" /\ m.idx = i /\ i \in k
         /\ Come(LinkEvent(n, k, m).events, n, i) <=> m.type = "NEWLINK" /\ m.idx = i /\ i \notin k
         /\ InOrder(LinkEvent(n, k, m).events, n, i)
<1> DEFINE r == LinkEvent(n, k, m)
           New(e) == r.events = <<e>> /\ On(e, n, m.idx)
<1>0. m.type \in {"NEWLINK", "DELLINK", "CREATED"}
  BY DEF LinkMessages
<1>1. /\ m.type = "DELLINK" => r.known = k \ {m.idx}
      /\ m.type # "DELLINK" => r.known = k \union {m.idx}
  BY DEF LinkEvent
<1>2. \/ r.events = <<>> /\ (m.type = "DELLINK" => m.idx \notin k)
                         /\ (m.type = "NEWLINK" => m.idx \in k)
      \/ \E e : New(e) /\ m.type = "DELLINK" /\ m.idx \in k /\ e.type \in {"dev_deleted", "dev_netns_changed"}
      \/ \E e : New(e) /\ m.type = "NEWLINK" /\ m.idx \notin k /\ e.type = "dev_created"
  <2>1. CASE m.type = "DELLINK" /\ m.idx \notin k
    BY <2>1 DEF LinkEvent
  <2>2. CASE m.type = "DELLINK" /\ m.idx \in k /\ m.new = NoIdx
    <3> DEFINE e == Message("dev_deleted", n, m.idx, NoIdx)
    <3>1. r.events = <<e>>
      BY <2>2 DEF LinkEvent
    <3>2. On(e, n, m.idx) /\ e.type = "dev_deleted"
      BY DEF On, Message
    <3> HIDE DEF e, r
    <3> QED
      BY <2>2, <3>1, <3>2
  <2>3. CASE m.type = "DELLINK" /\ m.idx \in k /\ m.new # NoIdx
    <3> DEFINE e == Message("dev_netns_changed", n, m.idx, m.new)
    <3>1. r.events = <<e>>
      BY <2>3 DEF LinkEvent
    <3>2. On(e, n, m.idx) /\ e.type = "dev_netns_changed"
      BY DEF On, Message
    <3> HIDE DEF e, r
    <3> QED
      BY <2>3, <3>1, <3>2
  <2>4. CASE m.type = "NEWLINK" /\ m.idx \notin k
    <3> DEFINE e == Message("dev_created", n, m.idx, NoIdx)
    <3>1. r.events = <<e>>
      BY <2>4 DEF LinkEvent, Created
    <3>2. On(e, n, m.idx) /\ e.type = "dev_created"
      BY DEF On, Message
    <3> HIDE DEF e, r
    <3> QED
      BY <2>4, <3>1, <3>2
  <2>5. CASE m.type = "NEWLINK" /\ m.idx \in k
    BY <2>5 DEF LinkEvent, Created
  <2>6. CASE m.type = "CREATED"
    BY <2>6 DEF LinkEvent, Created
  <2> QED
    BY <1>0, <2>1, <2>2, <2>3, <2>4, <2>5, <2>6
<1> HIDE DEF r
<1>3. /\ Leave(r.events, n, i) <=> m.type = "DELLINK" /\ m.idx = i /\ i \in k
      /\ Come(r.events, n, i) <=> m.type = "NEWLINK" /\ m.idx = i /\ i \notin k
      /\ InOrder(r.events, n, i)
  <2>1. CASE r.events = <<>> /\ (m.type = "DELLINK" => m.idx \notin k)
                             /\ (m.type = "NEWLINK" => m.idx \in k)
    BY <2>1 DEF Leave, Come, InOrder
  <2>2. ASSUME NEW e, New(e), m.type = "DELLINK", m.idx \in k, e.type \in {"dev_deleted", "dev_netns_changed"}
        PROVE  <1>3!:
    <3>1. DOMAIN r.events = {1} /\ r.events[1] = e
      BY <2>2
    <3> QED
      BY <2>2, <3>1 DEF Leave, Come, InOrder, On
  <2>3. ASSUME NEW e, New(e), m.type = "NEWLINK", m.idx \notin k, e.type = "dev_created"
        PROVE  <1>3!:
    <3>1. DOMAIN r.events = {1} /\ r.events[1] = e
      BY <2>3
    <3> QED
      BY <2>3, <3>1 DEF Leave, Come, InOrder, On
  <2> QED
    BY <1>2, <2>1, <2>2, <2>3
<1> QED
  BY <1>1, <1>3 DEF r, Tells

\* What handling a queue with one removal of i at its head makes of i.
LEMMA HandledOn ==
  ASSUME NEW n \in Spaces, NEW q \in Seq(LinkMessages), known[n] \in SUBSET Indices,
         DropFirst(q), NEW i \in Indices
  PROVE  /\ i \in HandleNetlink(n, q).known <=>
              Told(q, Len(q), i) \/ (i \in known[n] /\ ~Drop1(q, i))
         /\ Leave(HandleNetlink(n, q).events, n, i) <=> Drop1(q, i) /\ i \in known[n]
         /\ Come(HandleNetlink(n, q).events, n, i) =>
              /\ i \notin known[n] \/ Drop1(q, i)
              /\ \E l \in 1..Len(q) : q[l].type = "NEWLINK" /\ q[l].idx = i /\ ~Told(q, l - 1, i)
         /\ i \in HandleNetlink(n, q).known /\ (i \notin known[n] \/ Drop1(q, i)) =>
              \/ Come(HandleNetlink(n, q).events, n, i)
              \/ \E l \in 1..Len(q) : q[l].type = "CREATED" /\ q[l].idx = i
         /\ InOrder(HandleNetlink(n, q).events, n, i)
<1>1. Len(q) \in Nat /\ DOMAIN q = 1..Len(q)
  OBVIOUS
<1>2. PICK h : /\ h[0] = [known |-> known[n], events |-> <<>>]
               /\ \A k \in 1..Len(q) : h[k] = Step1(n, h[k - 1], q[k])
               /\ HandleNetlink(n, q) = h[Len(q)]
  BY <1>1, HandledSteps
<1> DEFINE D(k) == k # 0 /\ Drop1(q, i)
           Good(s, k) ==
             /\ s.known \in SUBSET Indices /\ s.events \in Seq(Messages)
             /\ i \in s.known <=> Told(q, k, i) \/ (i \in known[n] /\ ~D(k))
             /\ Leave(s.events, n, i) <=> D(k) /\ i \in known[n]
             /\ Come(s.events, n, i) =>
                  /\ i \notin known[n] \/ D(k)
                  /\ \E l \in 1..k : q[l].type = "NEWLINK" /\ q[l].idx = i /\ ~Told(q, l - 1, i)
             /\ i \in s.known /\ (i \notin known[n] \/ D(k)) =>
                  \/ Come(s.events, n, i)
                  \/ \E l \in 1..k : q[l].type = "CREATED" /\ q[l].idx = i
             /\ InOrder(s.events, n, i)
           S == {k \in 0..Len(q) : Good(h[k], k)}
<1>3. 0 \in S
  <2>1. h[0].known = known[n] /\ h[0].events = <<>>
    BY <1>2
  <2>2. ~Leave(<<>>, n, i) /\ ~Come(<<>>, n, i) /\ InOrder(<<>>, n, i) /\ <<>> \in Seq(Messages)
    BY DEF Leave, Come, InOrder
  <2>3. ~Told(q, 0, i) /\ ~D(0)
    BY DEF Told
  <2>4. Good(h[0], 0)
    <3> HIDE DEF D
    <3> QED
      BY <2>1, <2>2, <2>3
  <2> HIDE DEF Good
  <2> QED
    BY <1>1, <2>4
<1>4. ASSUME NEW k \in 1..Len(q), k - 1 \in S PROVE k \in S
  <2> DEFINE s == h[k - 1]
             m == q[k]
             e1 == LinkEvent(n, s.known, m)
             t == h[k]
  <2>1. Good(s, k - 1)
    BY <1>4
  <2>2. t.known = e1.known /\ t.events = s.events \o e1.events
    <3>1. t = Step1(n, s, m)
      BY <1>2
    <3> DEFINE B == s.events \o e1.events
    <3>2. Step1(n, s, m) = [known |-> e1.known, events |-> B]
      BY DEF Step1
    <3> HIDE DEF s, t, e1
    <3> SUFFICES t.known = e1.known /\ t.events = B
      OBVIOUS
    <3> HIDE DEF B
    <3> QED
      BY <3>1, <3>2
  <2>3. m \in LinkMessages /\ k \in DOMAIN q
    BY <1>1
  <2>4. s.known \in SUBSET Indices /\ s.events \in Seq(Messages)
    BY <2>1
  <2> HIDE DEF s, t
  <2>5. e1.known \in SUBSET Indices /\ e1.events \in Seq(Messages)
    <3>1. /\ e1.known \in SUBSET Indices
          /\ e1.events = <<>> \/ \E e \in Events : e1.events = <<e>>
      BY <2>3, <2>4, LinkEventTypes
    <3>2. \A e \in Events : <<e>> \in Seq(Messages)
      BY DEF Messages
    <3>3. <<>> \in Seq(Messages)
      OBVIOUS
    <3> HIDE DEF e1
    <3> QED
      BY ONLY <3>1, <3>2, <3>3
  <2>6. /\ Tells(m, i) => i \in e1.known
        /\ ~Tells(m, i) /\ ~(m.type = "DELLINK" /\ m.idx = i) => (i \in e1.known <=> i \in s.known)
        /\ m.type = "DELLINK" /\ m.idx = i => i \notin e1.known
        /\ Leave(e1.events, n, i) <=> m.type = "DELLINK" /\ m.idx = i /\ i \in s.known
        /\ Come(e1.events, n, i) <=> m.type = "NEWLINK" /\ m.idx = i /\ i \notin s.known
        /\ InOrder(e1.events, n, i)
    BY ONLY n \in Spaces, i \in Indices, <2>3, <2>4, LinkEventOn
  <2> HIDE DEF e1
  <2>7. /\ t.events \in Seq(Messages)
        /\ Leave(t.events, n, i) <=> Leave(s.events, n, i) \/ Leave(e1.events, n, i)
        /\ Come(t.events, n, i) <=> Come(s.events, n, i) \/ Come(e1.events, n, i)
    BY <2>2, <2>4, <2>5, QueueConcat
  <2>8. Told(q, k, i) <=> Told(q, k - 1, i) \/ Tells(m, i)
    BY <1>1 DEF Told
  <2>9. m.type = "DELLINK" => k = 1
    BY <2>3 DEF DropFirst
  <2>10. D(k) <=> D(k - 1) \/ (m.type = "DELLINK" /\ m.idx = i)
    <3>1. CASE k = 1
      <4>1. q # <<>> /\ m = q[1]
        BY <1>1, <3>1
      <4> QED
        BY <3>1, <4>1 DEF Drop1
    <3>2. CASE k # 1
      <4>1. k # 0 /\ k - 1 # 0
        BY <1>1, <3>2
      <4>2. m.type # "DELLINK"
        BY <2>9, <3>2
      <4> QED
        BY <4>1, <4>2
    <3> QED
      BY <3>1, <3>2
  <2>11. k = 1 => ~D(k - 1) /\ ~Told(q, k - 1, i)
    BY DEF Told
  <2>12. m.type # "DELLINK" \/ k = 1
    BY <2>9
  <2> DEFINE Newly(l) == q[l].type = "NEWLINK" /\ q[l].idx = i /\ ~Told(q, l - 1, i)
             Made(l) == q[l].type = "CREATED" /\ q[l].idx = i
  <2>13. \A l : l \in 1..k <=> l \in 1..(k - 1) \/ l = k
    BY <1>1
  <2>14. (\E l \in 1..(k - 1) : Newly(l)) => (\E l \in 1..k : Newly(l))
    BY <2>13
  <2>15. (\E l \in 1..(k - 1) : Made(l)) => (\E l \in 1..k : Made(l))
    BY <2>13
  <2>16. (\E l \in 1..(k - 1) : Newly(l)) => Told(q, k - 1, i)
    BY DEF Told, Tells
  <2> DEFINE Dk == D(k)
             Dp == D(k - 1)
             Nk == \E l \in 1..k : Newly(l)
             Np == \E l \in 1..(k - 1) : Newly(l)
             Mk == \E l \in 1..k : Made(l)
             Mp == \E l \in 1..(k - 1) : Made(l)
             Tk == Told(q, k, i)
             Tp == Told(q, k - 1, i)
             K == i \in known[n]
  <2>17. /\ i \in s.known <=> Tp \/ (K /\ ~Dp)
         /\ Leave(s.events, n, i) <=> Dp /\ K
         /\ Come(s.events, n, i) => (~K \/ Dp) /\ Np
         /\ i \in s.known /\ (~K \/ Dp) => Come(s.events, n, i) \/ Mp
         /\ InOrder(s.events, n, i)
    BY <2>1
  <2>18. m.type = "NEWLINK" /\ m.idx = i /\ ~Tp => Nk
    BY <2>13
  <2>19. m.type = "CREATED" /\ m.idx = i => Mk
    BY <2>13
  <2>20. m.type \in {"NEWLINK", "CREATED", "DELLINK"}
    BY <2>3 DEF LinkMessages
  <2>21. /\ Tk <=> Tp \/ Tells(m, i)
         /\ Dk <=> Dp \/ (m.type = "DELLINK" /\ m.idx = i)
         /\ m.type = "DELLINK" => ~Dp /\ ~Tp /\ ~Np
         /\ Np => Nk
         /\ Mp => Mk
         /\ Np => Tp
    BY <2>8, <2>10, <2>11, <2>12, <2>14, <2>15, <2>16
  <2> HIDE DEF Dk, Dp, Nk, Np, Mk, Mp, Tk, Tp, D
  <2>22. InOrder(t.events, n, i)
    <3>1. Come(s.events, n, i) => ~Leave(e1.events, n, i) /\ ~Come(e1.events, n, i)
      BY <2>6, <2>17, <2>21
    <3>2. Leave(s.events, n, i) => ~Leave(e1.events, n, i)
      BY <2>6, <2>17, <2>21
    <3> QED
      BY <2>2, <2>4, <2>5, <2>6, <2>17, <3>1, <3>2, ConcatInOrder
  <2>23. /\ i \in t.known <=> Tk \/ (K /\ ~Dk)
         /\ Leave(t.events, n, i) <=> Dk /\ K
         /\ Come(t.events, n, i) => (~K \/ Dk) /\ Nk
         /\ i \in t.known /\ (~K \/ Dk) => Come(t.events, n, i) \/ Mk
    BY <2>2, <2>6, <2>7, <2>17, <2>18, <2>19, <2>20, <2>21 DEF Tells
  <2>24. Good(t, k)
    BY <2>2, <2>5, <2>7, <2>22, <2>23 DEF Dk, Nk, Mk, Tk
  <2> HIDE DEF Good
  <2> QED
    BY <2>24 DEF t
<1>5. Len(q) \in S
  <2>1. \A k \in 1..Len(q) : k - 1 \in S => k \in S
    BY <1>4
  <2>2. Len(q) \in 0..Len(q)
    BY <1>1
  <2> DEFINE N == Len(q)
  <2> HIDE DEF S, N
  <2>3. \A k \in 0..N : k \in S
    BY ONLY <1>1, <1>3, <2>1, InductionTo DEF N
  <2> QED
    BY ONLY <2>2, <2>3 DEF N
<1>6. Good(h[Len(q)], Len(q))
  <2> HIDE DEF Good
  <2> QED
    BY <1>5
<1>7. D(Len(q)) <=> Drop1(q, i)
  BY <1>1 DEF Drop1
<1> HIDE DEF D, S
<1> QED
  BY ONLY <1>2, <1>6, <1>7

\* at most one answer is in a queue
Lone(q) == \A k, l \in DOMAIN q : IsAnswer(q[k]) /\ IsAnswer(q[l]) => k = l

\* The order of a queue is that of its parts.
LEMMA SplitQueue ==
  ASSUME NEW q \in Seq(Messages), NEW r \in Seq(Messages), NEW n, NEW i \in Indices
  PROVE  /\ InOrder(q \o r, n, i) => /\ InOrder(q, n, i) /\ InOrder(r, n, i)
                                     /\ Come(q, n, i) => ~Leave(r, n, i) /\ ~Come(r, n, i)
                                     /\ Leave(q, n, i) => ~Leave(r, n, i)
         /\ Behind(q \o r, n, i) => /\ Behind(q, n, i) /\ Behind(r, n, i)
                                    /\ Answered1(q) => ~Leave(r, n, i) /\ ~Come(r, n, i)
<1> DEFINE s == q \o r
           L == Len(q)
<1>1. /\ \A k \in DOMAIN q : k \in DOMAIN s /\ s[k] = q[k]
      /\ \A k \in DOMAIN r : L + k \in DOMAIN s /\ s[L + k] = r[k]
  BY Positions
<1>2. L \in Nat /\ DOMAIN q = 1..L /\ DOMAIN r = 1..Len(r) /\ Len(r) \in Nat
  OBVIOUS
<1> HIDE DEF s, L
<1>3. \A k \in DOMAIN q, l \in DOMAIN r : k < L + l
  BY <1>2
<1>4. \A k, l \in DOMAIN r : k < l => L + k < L + l
  BY <1>2
<1>5. ASSUME InOrder(s, n, i)
      PROVE  /\ InOrder(q, n, i) /\ InOrder(r, n, i)
             /\ Come(q, n, i) => ~Leave(r, n, i) /\ ~Come(r, n, i)
             /\ Leave(q, n, i) => ~Leave(r, n, i)
  <2>1. InOrder(q, n, i)
    BY <1>1, <1>5 DEF InOrder
  <2>2. InOrder(r, n, i)
    <3> SUFFICES ASSUME NEW k \in DOMAIN r, NEW l \in DOMAIN r, k < l, On(r[k], n, i), On(r[l], n, i)
                 PROVE  r[k].type # "dev_created" /\ r[l].type = "dev_created"
      BY DEF InOrder
    <3>1. L + k < L + l
      BY <1>4
    <3>2. L + k \in DOMAIN s /\ L + l \in DOMAIN s /\ s[L + k] = r[k] /\ s[L + l] = r[l]
      BY <1>1
    <3> QED
      BY <1>5, <3>1, <3>2 DEF InOrder
  <2>3. ASSUME NEW k \in DOMAIN q, NEW l \in DOMAIN r, On(q[k], n, i), On(r[l], n, i)
        PROVE  q[k].type # "dev_created" /\ r[l].type = "dev_created"
    <3>1. k < L + l
      BY <1>3
    <3>2. k \in DOMAIN s /\ L + l \in DOMAIN s /\ s[k] = q[k] /\ s[L + l] = r[l]
      BY <1>1
    <3> QED
      BY <1>5, <2>3, <3>1, <3>2 DEF InOrder
  <2> QED
    BY <2>1, <2>2, <2>3 DEF Leave, Come
<1>6. ASSUME Behind(s, n, i)
      PROVE  /\ Behind(q, n, i) /\ Behind(r, n, i)
             /\ Answered1(q) => ~Leave(r, n, i) /\ ~Come(r, n, i)
  <2>1. Behind(q, n, i)
    BY <1>1, <1>6 DEF Behind
  <2>2. Behind(r, n, i)
    <3> SUFFICES ASSUME NEW k \in DOMAIN r, NEW l \in DOMAIN r, k < l, IsAnswer(r[k])
                 PROVE  ~On(r[l], n, i)
      BY DEF Behind
    <3>1. L + k < L + l
      BY <1>4
    <3>2. L + k \in DOMAIN s /\ L + l \in DOMAIN s /\ s[L + k] = r[k] /\ s[L + l] = r[l]
      BY <1>1
    <3> QED
      BY <1>6, <3>1, <3>2 DEF Behind
  <2>3. ASSUME NEW k \in DOMAIN q, NEW l \in DOMAIN r, IsAnswer(q[k])
        PROVE  ~On(r[l], n, i)
    <3>1. k < L + l
      BY <1>3
    <3>2. k \in DOMAIN s /\ L + l \in DOMAIN s /\ s[k] = q[k] /\ s[L + l] = r[l]
      BY <1>1
    <3> QED
      BY <1>6, <2>3, <3>1, <3>2 DEF Behind
  <2> QED
    BY <2>1, <2>2, <2>3 DEF Leave, Come, Answered1
<1> QED
  BY <1>5, <1>6 DEF s

\* What holds of a queue that is put together from two.
LEMMA Concat ==
  ASSUME NEW q \in Seq(Messages), NEW r \in Seq(Messages), NEW n, NEW i \in Indices
  PROVE  /\ q \o r \in Seq(Messages)
         /\ Leave(q \o r, n, i) <=> Leave(q, n, i) \/ Leave(r, n, i)
         /\ Come(q \o r, n, i) <=> Come(q, n, i) \/ Come(r, n, i)
         /\ Answered1(q \o r) <=> Answered1(q) \/ Answered1(r)
         /\ InOrder(q \o r, n, i) <=> /\ InOrder(q, n, i) /\ InOrder(r, n, i)
                                      /\ Come(q, n, i) => ~Leave(r, n, i) /\ ~Come(r, n, i)
                                      /\ Leave(q, n, i) => ~Leave(r, n, i)
         /\ Behind(q \o r, n, i) <=> /\ Behind(q, n, i) /\ Behind(r, n, i)
                                     /\ Answered1(q) => ~Leave(r, n, i) /\ ~Come(r, n, i)
<1>1. /\ q \o r \in Seq(Messages)
      /\ Leave(q \o r, n, i) <=> Leave(q, n, i) \/ Leave(r, n, i)
      /\ Come(q \o r, n, i) <=> Come(q, n, i) \/ Come(r, n, i)
      /\ Answered1(q \o r) <=> Answered1(q) \/ Answered1(r)
  BY QueueConcat
<1>2. InOrder(q \o r, n, i) <=> /\ InOrder(q, n, i) /\ InOrder(r, n, i)
                                /\ Come(q, n, i) => ~Leave(r, n, i) /\ ~Come(r, n, i)
                                /\ Leave(q, n, i) => ~Leave(r, n, i)
  BY SplitQueue, ConcatInOrder
<1>3. Behind(q \o r, n, i) <=> /\ Behind(q, n, i) /\ Behind(r, n, i)
                               /\ Answered1(q) => ~Leave(r, n, i) /\ ~Come(r, n, i)
  BY SplitQueue, ConcatBehind
<1> QED
  BY ONLY <1>1, <1>2, <1>3

\* A queue of two parts has one answer if only one part has one.
LEMMA ConcatAnswers ==
  ASSUME NEW q \in Seq(Messages), NEW r \in Seq(Messages)
  PROVE  /\ Answered1(q \o r) <=> Answered1(q) \/ Answered1(r)
         /\ Lone(q \o r) <=> Lone(q) /\ Lone(r) /\ ~(Answered1(q) /\ Answered1(r))
<1> DEFINE s == q \o r
           L == Len(q)
<1>1. /\ \A k \in DOMAIN q : k \in DOMAIN s /\ s[k] = q[k]
      /\ \A k \in DOMAIN r : L + k \in DOMAIN s /\ s[L + k] = r[k]
      /\ \A k \in DOMAIN s : \/ k \in DOMAIN q
                             \/ k - L \in DOMAIN r /\ k > L
  BY Positions
<1>2. L \in Nat /\ DOMAIN q = 1..L /\ DOMAIN r = 1..Len(r) /\ Len(r) \in Nat /\ DOMAIN s \subseteq Nat
  <2>1. DOMAIN s = 1..(L + Len(r))
    OBVIOUS
  <2> QED
    BY <2>1
<1>3. \A k \in DOMAIN s : \/ k \in DOMAIN q /\ s[k] = q[k]
                          \/ k - L \in DOMAIN r /\ s[k] = r[k - L]
  OBVIOUS
<1> HIDE DEF s, L
<1>4. Answered1(s) <=> Answered1(q) \/ Answered1(r)
  BY <1>1, <1>3 DEF Answered1
<1>5. ASSUME Lone(q), Lone(r), ~(Answered1(q) /\ Answered1(r)) PROVE Lone(s)
  <2> SUFFICES ASSUME NEW k \in DOMAIN s, NEW l \in DOMAIN s, IsAnswer(s[k]), IsAnswer(s[l])
               PROVE  k = l
    BY DEF Lone
  <2>1. CASE k \in DOMAIN q /\ s[k] = q[k] /\ l \in DOMAIN q /\ s[l] = q[l]
    BY <1>5, <2>1 DEF Lone
  <2>2. CASE k - L \in DOMAIN r /\ s[k] = r[k - L] /\ l - L \in DOMAIN r /\ s[l] = r[l - L]
    <3>1. k - L = l - L
      BY <1>5, <2>2 DEF Lone
    <3> QED
      BY <1>2, <3>1
  <2> QED
    BY <1>3, <1>5, <2>1, <2>2 DEF Answered1
<1>7. ASSUME Lone(s) PROVE Lone(q) /\ Lone(r) /\ ~(Answered1(q) /\ Answered1(r))
  <2>1. Lone(q)
    BY <1>1, <1>7 DEF Lone
  <2>2. Lone(r)
    <3> SUFFICES ASSUME NEW k \in DOMAIN r, NEW l \in DOMAIN r, IsAnswer(r[k]), IsAnswer(r[l])
                 PROVE  k = l
      BY DEF Lone
    <3>1. L + k = L + l
      BY <1>1, <1>7 DEF Lone
    <3> QED
      BY <1>2, <3>1
  <2>3. ASSUME NEW k \in DOMAIN q, NEW l \in DOMAIN r, IsAnswer(q[k]), IsAnswer(r[l])
        PROVE  FALSE
    <3>1. k = L + l
      BY <1>1, <1>7, <2>3 DEF Lone
    <3> QED
      BY <1>2, <3>1
  <2> QED
    BY <2>1, <2>2, <2>3 DEF Answered1
<1> QED
  BY <1>4, <1>5, <1>7 DEF s

\* A queue of one message, and none.
LEMMA Single ==
  ASSUME NEW h \in Messages, NEW n, NEW i \in Indices
  PROVE  /\ <<h>> \in Seq(Messages)
         /\ Leave(<<h>>, n, i) <=> On(h, n, i) /\ h.type \in {"dev_deleted", "dev_netns_changed"}
         /\ Come(<<h>>, n, i) <=> On(h, n, i) /\ h.type = "dev_created"
         /\ Answered1(<<h>>) <=> IsAnswer(h)
         /\ On(h, n, i) => Leave(<<h>>, n, i) \/ Come(<<h>>, n, i)
         /\ InOrder(<<h>>, n, i) /\ Behind(<<h>>, n, i) /\ Lone(<<h>>)
<1>1. DOMAIN <<h>> = {1} /\ <<h>>[1] = h
  OBVIOUS
<1>2. On(h, n, i) => h.type \in EventTypes
  BY MessageFacts
<1>3. <<h>> \in Seq(Messages)
  OBVIOUS
<1> DEFINE q == <<h>>
<1> HIDE DEF q
<1>4. DOMAIN q = {1} /\ q[1] = h
  BY <1>1 DEF q
<1>5. /\ Leave(q, n, i) <=> On(h, n, i) /\ h.type \in {"dev_deleted", "dev_netns_changed"}
      /\ Come(q, n, i) <=> On(h, n, i) /\ h.type = "dev_created"
      /\ Answered1(q) <=> IsAnswer(h)
      /\ InOrder(q, n, i) /\ Behind(q, n, i) /\ Lone(q)
  BY <1>4 DEF Leave, Come, Answered1, InOrder, Behind, Lone
<1> QED
  BY <1>2, <1>3, <1>5 DEF q, EventTypes

\* An empty queue says nothing.
LEMMA Empty ==
  ASSUME NEW n, NEW i
  PROVE  /\ <<>> \in Seq(Messages)
         /\ ~Leave(<<>>, n, i) /\ ~Come(<<>>, n, i) /\ ~Answered1(<<>>)
         /\ InOrder(<<>>, n, i) /\ Behind(<<>>, n, i) /\ Lone(<<>>)
BY DEF Leave, Come, Answered1, InOrder, Behind, Lone

\* Events of the agent of n.
LEMMA EventsOf ==
  ASSUME NEW n, NEW E \in Seq(Events), \A k \in DOMAIN E : E[k].ns = n
  PROVE  /\ E \in Seq(Messages) /\ ~Answered1(E) /\ Lone(E)
         /\ \A m, i : Behind(E, m, i)
         /\ \A m, i : m # n => ~Leave(E, m, i) /\ ~Come(E, m, i) /\ InOrder(E, m, i)
<1>1. E \in Seq(Messages)
  BY EventsAreMessages
<1>2. \A k \in DOMAIN E : E[k] \in Events
  OBVIOUS
<1>3. \A k \in DOMAIN E : ~IsAnswer(E[k])
  BY <1>2 DEF Events, EventTypes, IsAnswer
<1> QED
  BY <1>1, <1>3 DEF Answered1, Lone, Behind, Leave, Come, InOrder, On

-----------------------------------------------------------------------------
(* The inductive invariant *)

Notices == {m \in LinkMessages : m.type # "CREATED" /\ (m.type = "NEWLINK" => m.new = NoIdx)}
Ops == {"none", "prepare", "init", "get", "add_namespace", "set_dev_netns", "remap", "create",
        "destroy", "destroy_devices", "del_namespace", "bye"}
Calls == [op : Ops, ns : Spaces \union {Nobody}, d : Devs \union {Nobody},
          idx : Indices \union {NoIdx}, dst : Spaces \union {Nobody},
          at : {"none", "sent", "linked", "answered", "done"}, val : SUBSET Indices]
Moves == [src : Spaces, dst : Spaces, old : Indices, new : Indices \union {NoIdx}]

\* what is on its way from the agent of n to the controller
Pipe(n)   == IF n \in NetNs THEN pipe[n] ELSE <<>>
Stream(n) == toCtl \o Pipe(n)
Sent == {m \in Messages : \/ \E k \in DOMAIN toCtl : toCtl[k] = m
                          \/ \E n \in NetNs : \E k \in DOMAIN pipe[n] : pipe[n][k] = m}
Going(n, i)  == Leave(Stream(n), n, i)
Coming(n, i) == Come(Stream(n), n, i)

\* what waits in the netlink socket of the agent of n
Dropping(n, i) == Drop1(nl[n], i)
New(n, i) == \E k \in DOMAIN nl[n] : nl[n][k].type = "NEWLINK" /\ nl[n][k].idx = i
Settled(n, i) == i \in At(where, n) /\ i \in known[n] /\ ~Dropping(n, i)

\* the types, part by part
KernelTypes ==
  /\ where \in [Devs -> Place] /\ dying \subseteq Physical
  /\ \A d \in dying : where[d] = Nowhere
  /\ \A d, e \in Devs : where[d] = where[e] /\ where[d] # Nowhere => d = e
  /\ nl \in [Spaces -> Seq(Notices)]
AgentTypes ==
  /\ known \in [Spaces -> SUBSET Indices] /\ managed \subseteq Spaces
  /\ pipe \in [NetNs -> Seq(Messages)]
  /\ \A n \in NetNs : \A k \in DOMAIN pipe[n] : pipe[n][k] \in Events => pipe[n][k].ns = n
QueueTypes ==
  /\ toCtl \in Seq(Messages) /\ batch \in 0..Len(toCtl)
CtlTypes ==
  /\ pc \in {"idle", "prepare", "netns", "test", "cleanup", "failed"}
  /\ run \in 0..MaxRuns /\ dbRun \in 0..run /\ ops \in 0..MaxOps
  /\ call \in Calls /\ names \subseteq NetNs
  /\ db \in [Spaces -> [Indices -> Devs \union {Other, Nobody}]]
  /\ moved \in [Devs -> Moves \union {Unmoved}]
  /\ \A d \in Devs : moved[d] # Unmoved => moved[d].src # moved[d].dst
  /\ handle \in [Devs -> Place] /\ gone \subseteq Soft
  /\ faults \subseteq Faults

\* the calls there are, and when
CallOps ==
  /\ pc = "failed" => call = NoCall
  /\ call.op = "none" => call = NoCall /\ batch = 0
  /\ call.op # "none" => call.at \in {"sent", "linked", "answered", "done"} /\ call.ns \in Spaces
  /\ call.op \in {"prepare", "init", "get"} <=> pc = "prepare"
  /\ call.op = "add_namespace" => pc = "netns" /\ call.ns \in NetNs
  /\ call.op \in {"set_dev_netns", "remap", "create", "destroy"} => pc = "test"
  /\ call.op \in {"destroy_devices", "del_namespace", "bye"} <=> pc = "cleanup"
  /\ call.op \in {"prepare", "init", "get", "destroy_devices", "del_namespace", "bye"} => call.ns = Root
  /\ call.op = "del_namespace" => call.dst \in NetNs
  /\ call.op \in {"set_dev_netns", "remap", "destroy"} => call.d \in Devs /\ call.idx \in Indices
  /\ call.op = "set_dev_netns" => call.dst \in Spaces \ {call.ns}
  /\ call.op = "create" => call.d \in Soft
  /\ call.op = "destroy" => call.d \in Soft
  /\ call.at = "linked" => call.op = "set_dev_netns" /\ call.dst # Root
  /\ call.val # {} => call.at \in {"answered", "done"} /\ call.op \in {"get", "create", "remap"}
  /\ call.op = "create" /\ call.at \in {"answered", "done"} => \E i \in Indices : call.val = {i}

Stage ==
  /\ pc = "idle" => names = {} /\ managed \subseteq {Root}
  /\ pc = "prepare" => names = {} /\ managed \subseteq {Root}
  /\ call.op = "prepare" /\ call.at # "sent" => managed = {}
  /\ call.op = "init" /\ call.at = "sent" => managed = {}
  /\ call.op = "init" /\ call.at # "sent" => managed = {Root}
  /\ call.op = "get" => managed = {Root}
  /\ call.op \in {"init", "get"} => dbRun = run
  /\ call.op = "prepare" => dbRun < run
  /\ pc \in {"netns", "test", "cleanup"} => dbRun = run
  /\ pc = "netns" => /\ Root \in managed
                     /\ \A n \in NetNs : n \in names <=> (n \in managed) \/ (Commanded("add_namespace") /\ call.ns = n)
                     /\ Commanded("add_namespace") => call.ns \notin managed
  /\ pc = "test" => names = NetNs /\ managed = Spaces
  /\ call.op = "destroy_devices" => names = NetNs /\ managed = Spaces
  /\ call.op = "del_namespace" => names = NetNs /\ Root \in managed /\ (call.at = "sent" <=> call.dst \in managed)
  /\ call.op = "bye" => names = {} /\ managed = {Root}
  /\ pc = "prepare" => \A d \in Devs : handle[d] = Nowhere /\ moved[d] = Unmoved /\ d \notin gone

OneAnswer ==
  /\ Answered1(toCtl) => call.at = "answered"
  /\ \A n \in NetNs : Answered1(pipe[n]) => call.at = "answered" /\ call.ns = n
  /\ \A n \in Spaces : Lone(Stream(n))
Exceptions ==
  \A m \in Sent : m.type = "exception" =>
    /\ "raise" \in faults
    /\ call.op = "destroy" \/ (call.op = "set_dev_netns" /\ call.dst = Root)

\* a namespace without an agent
Unmanaged ==
  /\ \A n \in Spaces \ managed : known[n] = {}
  /\ \A n \in NetNs \ managed : nl[n] = <<>> /\ pipe[n] = <<>> /\ At(where, n) = {}
  /\ \A n \in NetNs \ managed, i \in Indices :
       Going(n, i) \/ Coming(n, i) => call.op = "del_namespace" /\ call.dst = n /\ call.at = "answered"
  /\ call.op = "prepare" /\ call.at # "sent" =>
       \A k \in DOMAIN nl[Root] : nl[Root][k].type = "NEWLINK" /\ nl[Root][k].idx \in At(where, Root)

\* all that was sent about i before the answer is handled before the call returns
Clears(n, i) ==
  \/ call.op \in {"create", "get"} /\ call.ns = n /\ i \in call.val
  \/ call.op = "del_namespace" /\ call.dst = n /\ call.at \in {"answered", "done"}
  \/ call.op = "prepare" /\ call.at \in {"answered", "done"}
Cleared ==
  \A n \in Spaces, i \in Indices : Clears(n, i) =>
    /\ call.at = "done" => ~Going(n, i) /\ ~Coming(n, i)
    /\ call.at = "answered" => Behind(Stream(n), n, i)

\* without time-outs, what is said of a move is said of the one under way
MovesTo(n, i, j) == /\ call.op = "set_dev_netns" /\ call.at \in {"linked", "answered", "done"}
                    /\ call.ns = n /\ call.idx = i /\ call.dst # Root
                    /\ where[call.d] = <<call.dst, j>>
                    /\ moved[call.d] # Unmoved /\ moved[call.d].new = NoIdx
OwnMove == "timeout" \notin faults =>
  /\ \A m \in Sent : m.type = "dev_netns_changed" => MovesTo(m.ns, m.idx, m.new)
  /\ \A n \in Spaces : \A k \in DOMAIN nl[n] : nl[n][k].new # NoIdx => MovesTo(n, nl[n][k].idx, nl[n][k].new)

\* from the moment the controller has a database for this run, to the clean-up
Live == pc \in {"netns", "test"} \/ (pc = "prepare" /\ dbRun = run)
Early == pc \in {"prepare", "netns"}

Holds(n, i) == \E d \in Devs : Usable(d) /\ handle[d] = <<n, i>>
Taken(n, i) == \/ Holds(n, i)
               \/ call.op \in {"set_dev_netns", "remap", "destroy"} /\ call.at = "sent" /\ call.ns = n /\ call.idx = i
Creating(n, i) == call.op = "create" /\ Clears(n, i)

\* a socket has at most one removal, at its head; none before the first move
OneDel == \A n \in Spaces : DropFirst(nl[n]) /\ (Early => \A k \in DOMAIN nl[n] : nl[n][k].type # "DELLINK")
\* a stream reports that i leaves before it reports that i comes, and each once
Shape == \A n \in Spaces, i \in Indices : InOrder(Stream(n), n, i)
\* the socket and what the agent knows follow the kernel
Links == \A n \in Spaces, i \in Indices :
  /\ New(n, i) => i \in At(where, n)
  /\ Dropping(n, i) => i \in known[n] /\ ~Going(n, i) /\ ~Coming(n, i)
  /\ n \in managed /\ i \in At(where, n) => New(n, i) \/ (i \in known[n] /\ ~Dropping(n, i))
  /\ "overflow" \notin faults /\ i \in known[n] /\ ~Dropping(n, i) => i \in At(where, n)
\* the stream follows what the agent knows
Pending == \A n \in Spaces, i \in Indices :
  /\ Coming(n, i) => Settled(n, i)
  /\ Going(n, i) => ~Early
  /\ Going(n, i) /\ ~Coming(n, i) => i \notin known[n] \/ Creating(n, i)
\* what the controller has a handle of or a command for is there, and nothing is said of it
InHand == \A n \in Spaces, i \in Indices :
  /\ Taken(n, i) => Settled(n, i) /\ ~Going(n, i) /\ ~Coming(n, i)
  /\ Clears(n, i) => Settled(n, i)
  /\ Creating(n, i) => ~Coming(n, i) /\ ~Taken(n, i) /\ where[call.d] = <<n, i>>
\* what a command is about to do is possible
OpInHand ==
  /\ Commanded("create") => where[call.d] = Nowhere
  /\ Commanded("set_dev_netns") \/ Commanded("destroy") => ~Holds(call.ns, call.idx)
  /\ Commanded("set_dev_netns") => "raise" \in faults \/ call.dst # Root
  /\ Commanded("destroy") => "raise" \in faults \/ \E x \in Soft : where[x] = <<call.ns, call.idx>>
\* the database and the handles agree, but for the devices that move
Objects ==
  /\ \A n \in Spaces, i \in Indices : \A d \in Devs : db[n][i] = d => handle[d] = <<n, i>> /\ moved[d] = Unmoved
  /\ \A d \in Devs : Usable(d) => db[handle[d][1]][handle[d][2]] = d
  /\ \A d \in Devs : moved[d] # Unmoved => handle[d] # Nowhere /\ d \notin gone
\* ... and what the call under way is about
OpObjects ==
  /\ call.op = "set_dev_netns" => handle[call.d] # Nowhere /\ call.d \notin gone
  /\ Commanded("set_dev_netns") => moved[call.d] = [src |-> call.ns, dst |-> call.dst, old |-> call.idx, new |-> NoIdx]
  /\ call.op = "create" => handle[call.d] = Nowhere /\ moved[call.d] = Unmoved /\ call.d \notin gone
  /\ call.op = "destroy" => call.d \in gone
\* what is known, or on its way, is in the database
Chain == "raise" \notin faults => \A n \in Spaces, i \in Indices :
  /\ db[n][i] # Nobody /\ ~Going(n, i) /\ ~Coming(n, i) => i \in known[n]
  /\ i \in known[n] /\ ~Coming(n, i) =>
       db[n][i] # Nobody \/ Creating(n, i) \/ \E d \in MovedFrom(n, i) : moved[d].new = NoIdx

\* without time-outs, the controller is right about where its devices are
Own(e) == call.op = "set_dev_netns" /\ call.d = e
TrueMove(e) ==
  LET m == moved[e]
  IN  /\ Own(e) => m.src = call.ns /\ m.old = call.idx /\ m.dst = call.dst
      /\ call.op = "set_dev_netns" /\ ~Own(e) => ~(m.src = call.ns /\ m.old = call.idx)
      /\ IF Own(e) /\ call.at # "sent" /\ m.dst # Root
           THEN m.new # NoIdx => where[e] = <<m.dst, m.new>>
           ELSE m.new = NoIdx /\ where[e] = <<m.src, m.old>> /\ (Own(e) \/ m.dst = Root)
TrueHandles == "timeout" \notin faults =>
  /\ \A d \in Devs : Usable(d) => where[d] = handle[d]
  /\ call.op \in {"set_dev_netns", "remap", "destroy"} /\ call.at = "sent" => where[call.d] = <<call.ns, call.idx>>
  /\ \A e \in Devs : moved[e] # Unmoved => TrueMove(e)

Types   == KernelTypes /\ AgentTypes /\ QueueTypes /\ CtlTypes /\ CallOps
Working == Stage /\ OneAnswer /\ Exceptions /\ Unmanaged /\ Cleared /\ OwnMove
LiveInv == OneDel /\ Shape /\ Links /\ Pending /\ InHand /\ OpInHand /\ Objects /\ OpObjects /\ Chain /\ TrueHandles
DeviceInv == /\ Types /\ OnlyStaleEventsFail
             /\ pc # "failed" => Working
             /\ Live => LiveInv

-----------------------------------------------------------------------------
(* The streams, when messages are sent and taken *)

\* An answer is about no device.
LEMMA MessagesOfAnswers ==
  /\ <<>> \in Seq(Messages) /\ Result \in Seq(Messages) /\ Exception \in Seq(Messages)
  /\ \A after \in {<<>>, Result, Exception} :
       /\ Lone(after) /\ (Answered1(after) <=> after # <<>>)
       /\ \A k \in DOMAIN after : after[k] \in Answers
       /\ \A n : \A i \in Indices : ~Leave(after, n, i) /\ ~Come(after, n, i)
                                    /\ InOrder(after, n, i) /\ Behind(after, n, i)
<1>1. \A a \in Answers : a \in Messages /\ IsAnswer(a) /\ \A n : \A i \in Indices : ~On(a, n, i)
  BY NoIdxNotIndex DEF Answers, Answer, Message, Messages, IsAnswer, On
<1>2. Answer("result") \in Answers /\ Answer("exception") \in Answers
  BY DEF Answers
<1>3. \A a \in Answers : /\ <<a>> \in Seq(Messages) /\ Lone(<<a>>) /\ Answered1(<<a>>) /\ <<a>> # <<>>
                         /\ \A k \in DOMAIN <<a>> : <<a>>[k] \in Answers
                         /\ \A n : \A i \in Indices : ~Leave(<<a>>, n, i) /\ ~Come(<<a>>, n, i)
                                                      /\ InOrder(<<a>>, n, i) /\ Behind(<<a>>, n, i)
  <2> SUFFICES ASSUME NEW a \in Answers
               PROVE  /\ <<a>> \in Seq(Messages) /\ Lone(<<a>>) /\ Answered1(<<a>>) /\ <<a>> # <<>>
                      /\ \A k \in DOMAIN <<a>> : <<a>>[k] \in Answers
                      /\ \A n : \A i \in Indices : ~Leave(<<a>>, n, i) /\ ~Come(<<a>>, n, i)
                                                   /\ InOrder(<<a>>, n, i) /\ Behind(<<a>>, n, i)
    OBVIOUS
  <2> DEFINE q == <<a>>
  <2>1. DOMAIN q = {1} /\ q[1] = a /\ q \in Seq(Messages) /\ q # <<>>
    BY <1>1
  <2> HIDE DEF q
  <2>2. Lone(q) /\ Answered1(q) /\ \A k \in DOMAIN q : q[k] \in Answers
    BY <1>1, <2>1 DEF Lone, Answered1
  <2>3. \A n : \A i \in Indices : ~Leave(q, n, i) /\ ~Come(q, n, i) /\ InOrder(q, n, i) /\ Behind(q, n, i)
    BY <1>1, <2>1 DEF Leave, Come, InOrder, Behind
  <2> QED
    BY <2>1, <2>2, <2>3 DEF q
<1>4. Result \in Seq(Messages) /\ Exception \in Seq(Messages)
  BY <1>2, <1>3 DEF Result, Exception
<1>5. Lone(<<>>) /\ ~Answered1(<<>>) /\ <<>> \in Seq(Messages) /\ (\A k \in DOMAIN <<>> : <<>>[k] \in Answers)
      /\ \A n : \A i \in Indices : ~Leave(<<>>, n, i) /\ ~Come(<<>>, n, i)
                                   /\ InOrder(<<>>, n, i) /\ Behind(<<>>, n, i)
  BY Empty
<1>6. \A after \in {Result, Exception} :
        /\ Lone(after) /\ Answered1(after) /\ after # <<>>
        /\ \A k \in DOMAIN after : after[k] \in Answers
        /\ \A n : \A i \in Indices : ~Leave(after, n, i) /\ ~Come(after, n, i)
                                     /\ InOrder(after, n, i) /\ Behind(after, n, i)
  BY <1>2, <1>3 DEF Result, Exception
<1> QED
  BY ONLY <1>4, <1>5, <1>6

\* The stream of an agent is a queue of messages.
LEMMA StreamIsMessages ==
  ASSUME AgentTypes, QueueTypes
  PROVE  \A n \in Spaces : Pipe(n) \in Seq(Messages) /\ Stream(n) \in Seq(Messages)
<1>1. \A n \in Spaces : Pipe(n) \in Seq(Messages)
  BY Empty DEF Pipe, AgentTypes
<1> QED
  BY <1>1, Positions DEF Stream, QueueTypes

\* The root namespace is not one of a recipe.
LEMMA SpacesFacts ==
  /\ Root \in Spaces /\ Root \notin NetNs /\ NetNs \subseteq Spaces
  /\ \A n \in Spaces : n # Root => n \in NetNs
BY MovesAssumption DEF Spaces

\* What agent n sends is at the end of its stream.
LEMMA SendTypes ==
  ASSUME AgentTypes, QueueTypes, NEW n \in Spaces,
         NEW E \in Seq(Events), \A k \in DOMAIN E : E[k].ns = n,
         NEW after \in {<<>>, Result, Exception}, Send(n, E \o after)
  PROVE  /\ toCtl' \in Seq(Messages) /\ Len(toCtl') >= Len(toCtl)
         /\ pipe' \in [NetNs -> Seq(Messages)]
         /\ \A m \in NetNs : \A k \in DOMAIN pipe'[m] : pipe'[m][k] \in Events => pipe'[m][k].ns = m
         /\ \A m \in NetNs : m # n => pipe'[m] = pipe[m]
<1> DEFINE x == E \o after
<1>1. E \in Seq(Messages) /\ after \in Seq(Messages) /\ \A k \in DOMAIN after : after[k] \in Answers
  BY EventsAreMessages, MessagesOfAnswers
<1>2. x \in Seq(Messages) /\ \A k \in DOMAIN x : x[k] \in Events => x[k].ns = n
  <2>1. /\ x \in Seq(Messages)
        /\ \A k \in DOMAIN x : \/ k \in DOMAIN E /\ x[k] = E[k]
                               \/ k - Len(E) \in DOMAIN after /\ x[k] = after[k - Len(E)]
    BY <1>1
  <2>2. \A a \in Answers : a \notin Events
    BY DEF Answers, Answer, Message, Events, EventTypes
  <2> HIDE DEF x
  <2> QED
    BY <1>1, <2>1, <2>2
<1> HIDE DEF x
<1>3. CASE n = Root
  <2>1. toCtl' = toCtl \o x /\ pipe' = pipe
    BY <1>3 DEF Send, x
  <2>2. toCtl' \in Seq(Messages) /\ Len(toCtl') = Len(toCtl) + Len(x) /\ Len(x) \in Nat /\ Len(toCtl) \in Nat
    BY <1>2, <2>1, Positions DEF QueueTypes
  <2> QED
    BY <2>1, <2>2 DEF AgentTypes
<1>4. CASE n # Root
  <2>1. n \in NetNs /\ toCtl' = toCtl /\ pipe' = [pipe EXCEPT ![n] = @ \o x]
    BY <1>4, SpacesFacts DEF Send, x
  <2>2. pipe[n] \in Seq(Messages)
    BY <2>1 DEF AgentTypes
  <2>3. /\ pipe[n] \o x \in Seq(Messages)
        /\ \A k \in DOMAIN (pipe[n] \o x) :
             \/ k \in DOMAIN pipe[n] /\ (pipe[n] \o x)[k] = pipe[n][k]
             \/ k - Len(pipe[n]) \in DOMAIN x /\ (pipe[n] \o x)[k] = x[k - Len(pipe[n])]
    BY <1>2, <2>2
  <2> DEFINE y == pipe[n] \o x
  <2>4. y \in Seq(Messages) /\ \A k \in DOMAIN y : y[k] \in Events => y[k].ns = n
    <3> HIDE DEF y
    <3> QED
      BY <1>2, <2>1, <2>3 DEF y, AgentTypes
  <2> HIDE DEF y
  <2>5. pipe' = [pipe EXCEPT ![n] = y]
    BY <2>1 DEF y
  <2>6. pipe' \in [NetNs -> Seq(Messages)] /\ pipe'[n] = y /\ \A m \in NetNs : m # n => pipe'[m] = pipe[m]
    BY <2>1, <2>4, <2>5 DEF AgentTypes
  <2>7. ASSUME NEW m \in NetNs, NEW k \in DOMAIN pipe'[m], pipe'[m][k] \in Events PROVE pipe'[m][k].ns = m
    <3>1. CASE m = n
      BY <2>4, <2>6, <2>7, <3>1
    <3>2. CASE m # n
      BY <2>6, <2>7, <3>2 DEF AgentTypes
    <3> QED
      BY <3>1, <3>2
  <2>8. toCtl' \in Seq(Messages) /\ Len(toCtl') >= Len(toCtl)
    <3>1. Len(toCtl) \in Nat
      BY DEF QueueTypes
    <3> QED
      BY <2>1, <3>1 DEF QueueTypes
  <2> QED
    BY <2>6, <2>7, <2>8
<1> QED
  BY <1>3, <1>4

\* What an agent sends is on its own stream only.
LEMMA SendStreams ==
  ASSUME AgentTypes, QueueTypes, NEW n \in Spaces,
         NEW E \in Seq(Events), \A k \in DOMAIN E : E[k].ns = n,
         NEW after \in {<<>>, Result, Exception}, Send(n, E \o after),
         NEW m \in Spaces, NEW i \in Indices
  PROVE  /\ Going(m, i)' <=> Going(m, i) \/ (m = n /\ Leave(E, n, i))
         /\ Coming(m, i)' <=> Coming(m, i) \/ (m = n /\ Come(E, n, i))
         /\ /\ InOrder(Stream(m), m, i)
            /\ m = n => /\ InOrder(E, n, i)
                        /\ Coming(n, i) => ~Leave(E, n, i) /\ ~Come(E, n, i)
                        /\ Going(n, i) => ~Leave(E, n, i)
            => InOrder(Stream(m), m, i)'
         /\ /\ Behind(Stream(m), m, i)
            /\ m = n /\ Answered1(Stream(n)) => ~Leave(E, n, i) /\ ~Come(E, n, i)
            /\ m = n \/ after = <<>> \/ (~Going(m, i) /\ ~Coming(m, i))
            => Behind(Stream(m), m, i)'
<1> DEFINE x == E \o after
<1>1. E \in Seq(Messages) /\ after \in Seq(Messages)
  BY EventsAreMessages, MessagesOfAnswers
<1>2. /\ ~Answered1(E) /\ Behind(E, m, i)
      /\ m # n => ~Leave(E, m, i) /\ ~Come(E, m, i) /\ InOrder(E, m, i)
  BY EventsOf
<1>3. /\ ~Leave(after, m, i) /\ ~Come(after, m, i) /\ InOrder(after, m, i) /\ Behind(after, m, i)
      /\ Answered1(after) <=> after # <<>>
  BY MessagesOfAnswers
<1>4. /\ x \in Seq(Messages)
      /\ Leave(x, m, i) <=> Leave(E, m, i)
      /\ Come(x, m, i) <=> Come(E, m, i)
      /\ Answered1(x) <=> after # <<>>
      /\ InOrder(x, m, i) <=> InOrder(E, m, i)
      /\ Behind(x, m, i)
  BY <1>1, <1>2, <1>3, Concat
<1> HIDE DEF x
<1>5. toCtl \in Seq(Messages) /\ Pipe(m) \in Seq(Messages)
  BY StreamIsMessages DEF QueueTypes
<1> DEFINE q == toCtl
           p == Pipe(m)
           q2 == toCtl'
           p2 == Pipe(m)'
<1>6. q2 \in Seq(Messages) /\ p2 \in Seq(Messages)
  <2>1. toCtl' \in Seq(Messages) /\ pipe' \in [NetNs -> Seq(Messages)]
    BY SendTypes
  <2> QED
    BY <2>1, Empty DEF Pipe
<1>7. \/ n = Root /\ q2 = q \o x /\ p2 = p /\ (m = n => p = <<>>)
      \/ n # Root /\ q2 = q /\ m = n /\ p2 = p \o x
      \/ n # Root /\ q2 = q /\ m # n /\ p2 = p
  <2>1. CASE n = Root
    BY <2>1, SpacesFacts DEF Send, Pipe, x
  <2>2. CASE n # Root
    <3>1. n \in NetNs /\ toCtl' = toCtl /\ pipe' = [pipe EXCEPT ![n] = @ \o x]
      BY <2>2, SpacesFacts DEF Send, x
    <3>2. pipe'[n] = pipe[n] \o x /\ \A k \in NetNs : k # n => pipe'[k] = pipe[k]
      BY <3>1 DEF AgentTypes
    <3> QED
      BY <2>2, <3>1, <3>2 DEF Pipe
  <2> QED
    BY <2>1, <2>2
<1>8. Stream(m) = q \o p /\ Stream(m)' = q2 \o p2
  BY DEF Stream
<1> DEFINE s == q \o p
           s2 == q2 \o p2
<1>9. /\ Leave(s2, m, i) <=> Leave(s, m, i) \/ (m = n /\ Leave(E, n, i))
      /\ Come(s2, m, i) <=> Come(s, m, i) \/ (m = n /\ Come(E, n, i))
      /\ /\ InOrder(s, m, i)
         /\ m = n => /\ InOrder(E, n, i)
                     /\ Come(s, n, i) => ~Leave(E, n, i) /\ ~Come(E, n, i)
                     /\ Leave(s, n, i) => ~Leave(E, n, i)
         => InOrder(s2, m, i)
      /\ /\ Behind(s, m, i)
         /\ m = n /\ Answered1(s) => ~Leave(E, n, i) /\ ~Come(E, n, i)
         /\ m = n \/ after = <<>> \/ (~Leave(s, m, i) /\ ~Come(s, m, i))
         => Behind(s2, m, i)
  <2> HIDE DEF q, p, q2, p2
  <2>1. q \in Seq(Messages) /\ p \in Seq(Messages)
    BY <1>5 DEF q, p
  <2>2. /\ Leave(q \o p, m, i) <=> Leave(q, m, i) \/ Leave(p, m, i)
        /\ Come(q \o p, m, i) <=> Come(q, m, i) \/ Come(p, m, i)
        /\ Answered1(q \o p) <=> Answered1(q) \/ Answered1(p)
        /\ InOrder(q \o p, m, i) <=> /\ InOrder(q, m, i) /\ InOrder(p, m, i)
                                     /\ Come(q, m, i) => ~Leave(p, m, i) /\ ~Come(p, m, i)
                                     /\ Leave(q, m, i) => ~Leave(p, m, i)
        /\ Behind(q \o p, m, i) <=> /\ Behind(q, m, i) /\ Behind(p, m, i)
                                    /\ Answered1(q) => ~Leave(p, m, i) /\ ~Come(p, m, i)
    BY <2>1, Concat
  <2>3. /\ Leave(q2 \o p2, m, i) <=> Leave(q2, m, i) \/ Leave(p2, m, i)
        /\ Come(q2 \o p2, m, i) <=> Come(q2, m, i) \/ Come(p2, m, i)
        /\ InOrder(q2 \o p2, m, i) <=> /\ InOrder(q2, m, i) /\ InOrder(p2, m, i)
                                       /\ Come(q2, m, i) => ~Leave(p2, m, i) /\ ~Come(p2, m, i)
                                       /\ Leave(q2, m, i) => ~Leave(p2, m, i)
        /\ Behind(q2 \o p2, m, i) <=> /\ Behind(q2, m, i) /\ Behind(p2, m, i)
                                      /\ Answered1(q2) => ~Leave(p2, m, i) /\ ~Come(p2, m, i)
    BY <1>6, Concat
  <2> HIDE DEF s, s2
  <2>4. ASSUME NEW y \in Seq(Messages)
        PROVE  /\ Leave(y \o x, m, i) <=> Leave(y, m, i) \/ Leave(E, m, i)
               /\ Come(y \o x, m, i) <=> Come(y, m, i) \/ Come(E, m, i)
               /\ Answered1(y \o x) <=> Answered1(y) \/ after # <<>>
               /\ InOrder(y \o x, m, i) <=> /\ InOrder(y, m, i) /\ InOrder(E, m, i)
                                            /\ Come(y, m, i) => ~Leave(E, m, i) /\ ~Come(E, m, i)
                                            /\ Leave(y, m, i) => ~Leave(E, m, i)
               /\ Behind(y \o x, m, i) <=> /\ Behind(y, m, i)
                                           /\ Answered1(y) => ~Leave(E, m, i) /\ ~Come(E, m, i)
    BY <1>4, Concat
  <2>5. CASE n = Root /\ q2 = q \o x /\ p2 = p /\ (m = n => p = <<>>)
    <3>1. m = n => ~Leave(p, m, i) /\ ~Come(p, m, i) /\ InOrder(p, m, i) /\ Behind(p, m, i) /\ ~Answered1(p)
      BY <2>5, Empty
    <3> QED
      BY <1>2, <2>1, <2>2, <2>3, <2>4, <2>5, <3>1 DEF s, s2
  <2>6. CASE n # Root /\ q2 = q /\ m = n /\ p2 = p \o x
    BY <1>2, <2>1, <2>2, <2>3, <2>4, <2>6 DEF s, s2
  <2>7. CASE n # Root /\ q2 = q /\ m # n /\ p2 = p
    BY <2>7 DEF s, s2
  <2> QED
    BY <1>7, <2>5, <2>6, <2>7 DEF q, p, q2, p2
<1> QED
  BY <1>8, <1>9 DEF Going, Coming

\* ... and its answer is the only one.
LEMMA SendAnswers ==
  ASSUME AgentTypes, QueueTypes, NEW n \in Spaces,
         NEW E \in Seq(Events), \A k \in DOMAIN E : E[k].ns = n,
         NEW after \in {<<>>, Result, Exception}, Send(n, E \o after)
  PROVE  /\ after = <<>> => /\ Answered1(toCtl') <=> Answered1(toCtl)
                            /\ \A m \in NetNs : Answered1(pipe'[m]) <=> Answered1(pipe[m])
                            /\ \A m \in Spaces : Lone(Stream(m)) => Lone(Stream(m)')
         /\ ~Answered1(toCtl) /\ (\A m \in NetNs : ~Answered1(pipe[m])) =>
              /\ \A m \in NetNs : Answered1(pipe'[m]) => m = n
              /\ \A m \in Spaces : Lone(Stream(m)')
<1> DEFINE x == E \o after
<1>1. E \in Seq(Messages) /\ after \in Seq(Messages) /\ ~Answered1(E) /\ Lone(E) /\ Lone(after)
      /\ (Answered1(after) <=> after # <<>>)
  BY EventsOf, MessagesOfAnswers
<1>2. x \in Seq(Messages) /\ Lone(x) /\ (Answered1(x) <=> after # <<>>)
  BY <1>1, ConcatAnswers
<1> HIDE DEF x
<1>3. toCtl \in Seq(Messages) /\ toCtl' \in Seq(Messages) /\ pipe' \in [NetNs -> Seq(Messages)]
      /\ pipe \in [NetNs -> Seq(Messages)]
  BY SendTypes DEF QueueTypes, AgentTypes
<1>4. \A m \in Spaces : Pipe(m) \in Seq(Messages) /\ Pipe(m)' \in Seq(Messages)
  BY <1>3, Empty DEF Pipe
<1>5. \A y \in Seq(Messages) : /\ Answered1(y \o x) <=> Answered1(y) \/ after # <<>>
                               /\ Lone(y \o x) <=> Lone(y) /\ ~(Answered1(y) /\ after # <<>>)
  BY <1>2, ConcatAnswers
<1>6. \A m \in Spaces : /\ Lone(Stream(m)) <=> Lone(toCtl) /\ Lone(Pipe(m)) /\ ~(Answered1(toCtl) /\ Answered1(Pipe(m)))
                        /\ Lone(Stream(m)') <=> Lone(toCtl') /\ Lone(Pipe(m)') /\ ~(Answered1(toCtl') /\ Answered1(Pipe(m)'))
  BY <1>3, <1>4, ConcatAnswers DEF Stream
<1>7. \A q : ~Answered1(q) => Lone(q)
  BY DEF Lone, Answered1
<1>8. CASE n = Root
  <2>1. toCtl' = toCtl \o x /\ pipe' = pipe
    BY <1>8 DEF Send, x
  <2>2. /\ Answered1(toCtl') <=> Answered1(toCtl) \/ after # <<>>
        /\ Lone(toCtl') <=> Lone(toCtl) /\ ~(Answered1(toCtl) /\ after # <<>>)
    BY <1>3, <1>5, <2>1
  <2>3. \A m \in Spaces : Pipe(m)' = Pipe(m)
    BY <2>1 DEF Pipe
  <2>4. (\A m \in NetNs : ~Answered1(pipe[m])) => \A m \in Spaces : ~Answered1(Pipe(m))
    BY Empty DEF Pipe
  <2> QED
    BY <1>6, <1>7, <2>1, <2>2, <2>3, <2>4
<1>9. CASE n # Root
  <2>1. n \in NetNs /\ toCtl' = toCtl /\ pipe' = [pipe EXCEPT ![n] = @ \o x]
    BY <1>9, SpacesFacts DEF Send, x
  <2>2. pipe'[n] = pipe[n] \o x /\ \A k \in NetNs : k # n => pipe'[k] = pipe[k]
    BY <1>3, <2>1
  <2>3. /\ Answered1(pipe'[n]) <=> Answered1(pipe[n]) \/ after # <<>>
        /\ Lone(pipe'[n]) <=> Lone(pipe[n]) /\ ~(Answered1(pipe[n]) /\ after # <<>>)
    BY <1>3, <1>5, <2>1, <2>2
  <2>4. Pipe(n) = pipe[n] /\ Pipe(n)' = pipe'[n] /\ \A m \in Spaces : m # n => Pipe(m)' = Pipe(m)
    BY <2>1, <2>2 DEF Pipe
  <2>5. (\A m \in NetNs : ~Answered1(pipe[m])) => \A m \in Spaces : ~Answered1(Pipe(m))
    BY Empty DEF Pipe
  <2>6. after = <<>> => \A m \in Spaces : Lone(Stream(m)) => Lone(Stream(m)')
    BY <1>6, <2>1, <2>3, <2>4
  <2>7. after = <<>> => \A m \in NetNs : Answered1(pipe'[m]) <=> Answered1(pipe[m])
    BY <2>2, <2>3
  <2> QED
    BY <1>6, <1>7, <2>1, <2>2, <2>3, <2>4, <2>5, <2>6, <2>7
<1> QED
  BY <1>8, <1>9

InQueue(m, E) == \E k \in DOMAIN E : m = E[k]

\* A message of two queues is one of either.
LEMMA InConcat ==
  ASSUME NEW q \in Seq(Messages), NEW r \in Seq(Messages), NEW k \in DOMAIN (q \o r)
  PROVE  (\E l \in DOMAIN q : (q \o r)[k] = q[l]) \/ (\E l \in DOMAIN r : (q \o r)[k] = r[l])
OBVIOUS

\* What is on its way after an agent has sent something.
LEMMA SendSent ==
  ASSUME AgentTypes, QueueTypes, NEW n \in Spaces,
         NEW E \in Seq(Events), NEW after \in {<<>>, Result, Exception}, Send(n, E \o after),
         NEW m \in Sent'
  PROVE  \/ m \in Sent
         \/ InQueue(m, E)
         \/ after = Result /\ m = Answer("result")
         \/ after = Exception /\ m = Answer("exception")
<1> DEFINE x == E \o after
<1>1. E \in Seq(Messages) /\ after \in Seq(Messages)
  BY EventsAreMessages, MessagesOfAnswers
<1>2. x \in Seq(Messages) /\ \A k \in DOMAIN x : (\E l \in DOMAIN E : x[k] = E[l]) \/ (\E l \in DOMAIN after : x[k] = after[l])
  BY <1>1, InConcat
<1> HIDE DEF x
<1>3. ASSUME NEW l \in DOMAIN after
      PROVE  \/ after = Result /\ after[l] = Answer("result")
             \/ after = Exception /\ after[l] = Answer("exception")
  <2>2. CASE after = <<>>
    BY <2>2
  <2>3. CASE after = Result
    <3>1. after = <<Answer("result")>>
      BY <2>3 DEF Result
    <3> DEFINE a == Answer("result")
    <3> HIDE DEF a
    <3>2. DOMAIN after = {1} /\ after[1] = a
      BY <3>1 DEF a
    <3>3. l = 1
      BY ONLY <3>2, l \in DOMAIN after
    <3>4. after[l] = Answer("result")
      BY ONLY <3>2, <3>3 DEF a
    <3> QED
      BY ONLY <2>3, <3>4
  <2>4. CASE after = Exception
    <3>1. after = <<Answer("exception")>>
      BY <2>4 DEF Exception
    <3> DEFINE a == Answer("exception")
    <3> HIDE DEF a
    <3>2. DOMAIN after = {1} /\ after[1] = a
      BY <3>1 DEF a
    <3>3. l = 1
      BY ONLY <3>2, l \in DOMAIN after
    <3>4. after[l] = Answer("exception")
      BY ONLY <3>2, <3>3 DEF a
    <3> QED
      BY ONLY <2>4, <3>4
  <2> QED
    BY <2>2, <2>3, <2>4
<1>4. m \in Messages /\ (\/ \E k \in DOMAIN toCtl' : toCtl'[k] = m
                         \/ \E j \in NetNs : \E k \in DOMAIN pipe'[j] : pipe'[j][k] = m)
  BY DEF Sent
<1>5. m \in Sent \/ \E k \in DOMAIN x : m = x[k]
  <2>1. toCtl \in Seq(Messages) /\ pipe \in [NetNs -> Seq(Messages)]
    BY DEF QueueTypes, AgentTypes
  <2>2. CASE n = Root
    <3>1. toCtl' = toCtl \o x /\ pipe' = pipe
      BY <2>2 DEF Send, x
    <3>2. \A k \in DOMAIN (toCtl \o x) :
            (\E l \in DOMAIN toCtl : (toCtl \o x)[k] = toCtl[l]) \/ (\E l \in DOMAIN x : (toCtl \o x)[k] = x[l])
      BY <1>2, <2>1, InConcat
    <3> QED
      BY <1>4, <3>1, <3>2 DEF Sent
  <2>3. CASE n # Root
    <3>1. n \in NetNs /\ toCtl' = toCtl /\ pipe' = [pipe EXCEPT ![n] = @ \o x]
      BY <2>3, SpacesFacts DEF Send, x
    <3>2. pipe'[n] = pipe[n] \o x /\ \A k \in NetNs : k # n => pipe'[k] = pipe[k]
      BY <2>1, <3>1
    <3>3. \A k \in DOMAIN (pipe[n] \o x) :
            (\E l \in DOMAIN pipe[n] : (pipe[n] \o x)[k] = pipe[n][l]) \/ (\E l \in DOMAIN x : (pipe[n] \o x)[k] = x[l])
      <4>1. pipe[n] \in Seq(Messages)
        BY <2>1, <3>1
      <4> QED
        BY <1>2, <4>1, InConcat
    <3>4. ASSUME NEW j \in NetNs, NEW k \in DOMAIN pipe'[j], pipe'[j][k] = m
          PROVE  m \in Sent \/ \E l \in DOMAIN x : m = x[l]
      <4>1. CASE j = n
        BY <1>4, <3>1, <3>2, <3>3, <3>4, <4>1 DEF Sent
      <4>2. CASE j # n
        BY <1>4, <3>2, <3>4, <4>2 DEF Sent
      <4> QED
        BY <4>1, <4>2
    <3> QED
      BY <1>4, <3>1, <3>4 DEF Sent
  <2> QED
    BY <2>2, <2>3
<1> QED
  BY <1>2, <1>3, <1>5 DEF InQueue

\* The controller takes the first message.
LEMMA TakeStreams ==
  ASSUME AgentTypes, QueueTypes, toCtl # <<>>, toCtl' = Tail(toCtl), pipe' = pipe,
         NEW m \in Spaces, NEW i \in Indices
  PROVE  /\ Going(m, i) <=> \/ Going(m, i)'
                            \/ On(Head(toCtl), m, i) /\ Head(toCtl).type \in {"dev_deleted", "dev_netns_changed"}
         /\ Coming(m, i) <=> \/ Coming(m, i)'
                             \/ On(Head(toCtl), m, i) /\ Head(toCtl).type = "dev_created"
         /\ InOrder(Stream(m), m, i) =>
              /\ InOrder(Stream(m), m, i)'
              /\ On(Head(toCtl), m, i) => ~Going(m, i)' /\ (Head(toCtl).type = "dev_created" => ~Coming(m, i)')
         /\ Behind(Stream(m), m, i) =>
              /\ Behind(Stream(m), m, i)'
              /\ IsAnswer(Head(toCtl)) => ~Going(m, i)' /\ ~Coming(m, i)'
<1> DEFINE h == Head(toCtl)
           t == Tail(toCtl)
           p == Pipe(m)
<1>1. h \in Messages /\ t \in Seq(Messages) /\ toCtl = <<h>> \o t
  BY DEF QueueTypes
<1>2. p \in Seq(Messages)
  BY StreamIsMessages
<1>3. Stream(m) = (<<h>> \o t) \o p /\ Stream(m)' = t \o p
  BY <1>1 DEF Stream, Pipe
<1> HIDE DEF h, t, p
<1>4. On(h, m, i) => h.type \in EventTypes
  BY <1>1, MessageFacts
<1> DEFINE q == <<h>>
<1>5. /\ q \in Seq(Messages)
      /\ Leave(q, m, i) <=> On(h, m, i) /\ h.type \in {"dev_deleted", "dev_netns_changed"}
      /\ Come(q, m, i) <=> On(h, m, i) /\ h.type = "dev_created"
      /\ Answered1(q) <=> IsAnswer(h)
  BY <1>1, Single
<1> HIDE DEF q
<1>6. /\ q \o t \in Seq(Messages)
      /\ Leave(q \o t, m, i) <=> Leave(q, m, i) \/ Leave(t, m, i)
      /\ Come(q \o t, m, i) <=> Come(q, m, i) \/ Come(t, m, i)
      /\ Answered1(q \o t) <=> Answered1(q) \/ Answered1(t)
      /\ InOrder(q \o t, m, i) <=> /\ InOrder(q, m, i) /\ InOrder(t, m, i)
                                   /\ Come(q, m, i) => ~Leave(t, m, i) /\ ~Come(t, m, i)
                                   /\ Leave(q, m, i) => ~Leave(t, m, i)
      /\ Behind(q \o t, m, i) <=> /\ Behind(q, m, i) /\ Behind(t, m, i)
                                  /\ Answered1(q) => ~Leave(t, m, i) /\ ~Come(t, m, i)
  BY <1>1, <1>5, Concat
<1> DEFINE u == q \o t
<1> HIDE DEF u
<1>7. u \in Seq(Messages)
  BY <1>6 DEF u
<1>8. /\ Leave(u \o p, m, i) <=> Leave(u, m, i) \/ Leave(p, m, i)
      /\ Come(u \o p, m, i) <=> Come(u, m, i) \/ Come(p, m, i)
      /\ InOrder(u \o p, m, i) <=> /\ InOrder(u, m, i) /\ InOrder(p, m, i)
                                   /\ Come(u, m, i) => ~Leave(p, m, i) /\ ~Come(p, m, i)
                                   /\ Leave(u, m, i) => ~Leave(p, m, i)
      /\ Behind(u \o p, m, i) <=> /\ Behind(u, m, i) /\ Behind(p, m, i)
                                  /\ Answered1(u) => ~Leave(p, m, i) /\ ~Come(p, m, i)
  BY <1>2, <1>7, Concat
<1>9. /\ Leave(t \o p, m, i) <=> Leave(t, m, i) \/ Leave(p, m, i)
      /\ Come(t \o p, m, i) <=> Come(t, m, i) \/ Come(p, m, i)
      /\ InOrder(t \o p, m, i) <=> /\ InOrder(t, m, i) /\ InOrder(p, m, i)
                                   /\ Come(t, m, i) => ~Leave(p, m, i) /\ ~Come(p, m, i)
                                   /\ Leave(t, m, i) => ~Leave(p, m, i)
      /\ Behind(t \o p, m, i) <=> /\ Behind(t, m, i) /\ Behind(p, m, i)
                                  /\ Answered1(t) => ~Leave(p, m, i) /\ ~Come(p, m, i)
  BY <1>1, <1>2, Concat
<1>10. Stream(m) = u \o p /\ Stream(m)' = t \o p
  BY <1>3 DEF u, q
<1> QED
  BY <1>4, <1>5, <1>6, <1>8, <1>9, <1>10 DEF Going, Coming, u, h, EventTypes

\* The answers, when the controller takes a message.
LEMMA TakeAnswers ==
  ASSUME AgentTypes, QueueTypes, toCtl # <<>>, toCtl' = Tail(toCtl), pipe' = pipe
  PROVE  /\ Answered1(toCtl') => Answered1(toCtl)
         /\ IsAnswer(Head(toCtl)) => Answered1(toCtl)
         /\ \A m \in Spaces : Lone(Stream(m)) =>
              /\ Lone(Stream(m)')
              /\ IsAnswer(Head(toCtl)) => ~Answered1(toCtl') /\ ~Answered1(Pipe(m))
         /\ Sent' \subseteq Sent /\ Head(toCtl) \in Sent /\ Head(toCtl) \in Messages
         /\ toCtl' \in Seq(Messages) /\ Len(toCtl') = Len(toCtl) - 1
<1> DEFINE h == Head(toCtl)
           t == Tail(toCtl)
           q == <<h>>
<1>1. h \in Messages /\ t \in Seq(Messages) /\ toCtl = q \o t /\ Len(t) = Len(toCtl) - 1
  BY DEF QueueTypes
<1>2. \A m \in Spaces : Pipe(m) \in Seq(Messages) /\ Stream(m)' = t \o Pipe(m)
  BY StreamIsMessages DEF Stream, Pipe
<1>3. q \in Seq(Messages) /\ Lone(q) /\ (Answered1(q) <=> IsAnswer(h))
  <2>1. DOMAIN q = {1} /\ q[1] = h /\ q \in Seq(Messages)
    BY <1>1
  <2> HIDE DEF q
  <2> QED
    BY <2>1 DEF Lone, Answered1
<1>4. 1 \in DOMAIN toCtl /\ h = toCtl[1] /\ \A k \in DOMAIN t : k + 1 \in DOMAIN toCtl /\ t[k] = toCtl[k + 1]
  BY DEF QueueTypes
<1> HIDE DEF h, t, q
<1>5. h \in Sent /\ \A k \in DOMAIN t : t[k] = toCtl[k + 1] /\ k + 1 \in DOMAIN toCtl
  BY <1>1, <1>4 DEF Sent
<1>6. Sent' \subseteq Sent
  BY <1>5 DEF Sent, t
<1>7. /\ Answered1(toCtl) <=> Answered1(q) \/ Answered1(t)
      /\ Lone(toCtl) <=> Lone(q) /\ Lone(t) /\ ~(Answered1(q) /\ Answered1(t))
  BY <1>1, <1>3, ConcatAnswers
<1>8. \A m \in Spaces :
        /\ Lone(Stream(m)) <=> Lone(toCtl) /\ Lone(Pipe(m)) /\ ~(Answered1(toCtl) /\ Answered1(Pipe(m)))
        /\ Lone(Stream(m)') <=> Lone(t) /\ Lone(Pipe(m)) /\ ~(Answered1(t) /\ Answered1(Pipe(m)))
  BY <1>1, <1>2, ConcatAnswers DEF Stream, QueueTypes
<1> QED
  BY <1>1, <1>3, <1>5, <1>6, <1>7, <1>8 DEF h, t

\* The rest of a batch is dropped.
LEMMA DropStreams ==
  ASSUME AgentTypes, QueueTypes, toCtl' = SubSeq(toCtl, batch + 1, Len(toCtl)), pipe' = pipe
  PROVE  /\ toCtl' \in Seq(Messages)
         /\ Sent' \subseteq Sent
         /\ Answered1(toCtl') => Answered1(toCtl)
         /\ \A m \in Spaces : Lone(Stream(m)) => Lone(Stream(m)')
         /\ \A m \in Spaces, i \in Indices :
              /\ Going(m, i)' => Going(m, i)
              /\ Coming(m, i)' => Coming(m, i)
              /\ InOrder(Stream(m), m, i) => InOrder(Stream(m), m, i)'
              /\ Behind(Stream(m), m, i) => Behind(Stream(m), m, i)'
<1> DEFINE q == SubSeq(toCtl, 1, batch)
           t == SubSeq(toCtl, batch + 1, Len(toCtl))
<1>1. batch \in Nat /\ batch <= Len(toCtl) /\ toCtl \in Seq(Messages) /\ Len(toCtl) \in Nat
  BY DEF QueueTypes
<1>2. t \in Seq(Messages) /\ Len(t) = Len(toCtl) - batch
      /\ \A k \in DOMAIN t : k + batch \in DOMAIN toCtl /\ t[k] = toCtl[k + batch]
  BY <1>1, QueueRest
<1>3. q \in Seq(Messages) /\ Len(q) = batch
  BY <1>1
<1>4. toCtl = q \o t
  <2>1. 1 \in 1..(Len(toCtl) + 1) /\ batch \in (1 - 1)..Len(toCtl) /\ Len(toCtl) \in batch..Len(toCtl)
    BY <1>1
  <2>2. q \o t = SubSeq(toCtl, 1, Len(toCtl))
    BY <1>1, <2>1, ConcatAdjacentSubSeq
  <2> QED
    BY <1>1, <2>2, SubSeqFull
<1>5. \A m \in Spaces : Pipe(m) \in Seq(Messages) /\ Stream(m) = (q \o t) \o Pipe(m) /\ Stream(m)' = t \o Pipe(m)
  <2> HIDE DEF q
  <2> QED
    BY <1>4, StreamIsMessages DEF Stream, Pipe
<1>6. Sent' \subseteq Sent
  BY <1>2 DEF Sent
<1> HIDE DEF q, t
<1>7. /\ Answered1(q \o t) <=> Answered1(q) \/ Answered1(t)
      /\ Lone(q \o t) <=> Lone(q) /\ Lone(t) /\ ~(Answered1(q) /\ Answered1(t))
  BY <1>2, <1>3, ConcatAnswers
<1> DEFINE u == q \o t
<1> HIDE DEF u
<1>8. u \in Seq(Messages) /\ u = toCtl
  BY <1>1, <1>4 DEF u
<1>9. ASSUME NEW m \in Spaces, Lone(Stream(m)) PROVE Lone(Stream(m)')
  <2>1. /\ Lone(u \o Pipe(m)) <=> Lone(u) /\ Lone(Pipe(m)) /\ ~(Answered1(u) /\ Answered1(Pipe(m)))
        /\ Lone(t \o Pipe(m)) <=> Lone(t) /\ Lone(Pipe(m)) /\ ~(Answered1(t) /\ Answered1(Pipe(m)))
    BY <1>2, <1>5, <1>8, ConcatAnswers
  <2>2. Stream(m) = u \o Pipe(m) /\ Stream(m)' = t \o Pipe(m)
    BY <1>5 DEF u
  <2> QED
    BY <1>7, <1>9, <2>1, <2>2 DEF u
<1>10. ASSUME NEW m \in Spaces, NEW i \in Indices
       PROVE  /\ Going(m, i)' => Going(m, i)
              /\ Coming(m, i)' => Coming(m, i)
              /\ InOrder(Stream(m), m, i) => InOrder(Stream(m), m, i)'
              /\ Behind(Stream(m), m, i) => Behind(Stream(m), m, i)'
  <2> DEFINE p == Pipe(m)
  <2>1. p \in Seq(Messages) /\ Stream(m) = u \o p /\ Stream(m)' = t \o p
    BY <1>5 DEF u
  <2> HIDE DEF p
  <2>2. /\ Leave(u, m, i) <=> Leave(q, m, i) \/ Leave(t, m, i)
        /\ Come(u, m, i) <=> Come(q, m, i) \/ Come(t, m, i)
        /\ Answered1(u) <=> Answered1(q) \/ Answered1(t)
        /\ InOrder(u, m, i) => InOrder(t, m, i)
        /\ Behind(u, m, i) => Behind(t, m, i)
    BY <1>2, <1>3, Concat DEF u
  <2>3. /\ Leave(u \o p, m, i) <=> Leave(u, m, i) \/ Leave(p, m, i)
        /\ Come(u \o p, m, i) <=> Come(u, m, i) \/ Come(p, m, i)
        /\ InOrder(u \o p, m, i) <=> /\ InOrder(u, m, i) /\ InOrder(p, m, i)
                                     /\ Come(u, m, i) => ~Leave(p, m, i) /\ ~Come(p, m, i)
                                     /\ Leave(u, m, i) => ~Leave(p, m, i)
        /\ Behind(u \o p, m, i) <=> /\ Behind(u, m, i) /\ Behind(p, m, i)
                                    /\ Answered1(u) => ~Leave(p, m, i) /\ ~Come(p, m, i)
    BY <1>8, <2>1, Concat
  <2>4. /\ Leave(t \o p, m, i) <=> Leave(t, m, i) \/ Leave(p, m, i)
        /\ Come(t \o p, m, i) <=> Come(t, m, i) \/ Come(p, m, i)
        /\ InOrder(t \o p, m, i) <=> /\ InOrder(t, m, i) /\ InOrder(p, m, i)
                                     /\ Come(t, m, i) => ~Leave(p, m, i) /\ ~Come(p, m, i)
                                     /\ Leave(t, m, i) => ~Leave(p, m, i)
        /\ Behind(t \o p, m, i) <=> /\ Behind(t, m, i) /\ Behind(p, m, i)
                                    /\ Answered1(t) => ~Leave(p, m, i) /\ ~Come(p, m, i)
    BY <1>2, <2>1, Concat
  <2> QED
    BY <2>1, <2>2, <2>3, <2>4 DEF Going, Coming
<1>11. t = toCtl'
  BY DEF t
<1> QED
  BY <1>2, <1>4, <1>6, <1>7, <1>9, <1>10, <1>11

\* The root agent sends its events, and passes a message of agent n on.
LEMMA PassStreams ==
  ASSUME AgentTypes, QueueTypes, NEW n \in NetNs, pipe[n] # <<>>,
         NEW E \in Seq(Events), \A k \in DOMAIN E : E[k].ns = Root,
         toCtl' = toCtl \o E \o <<Head(pipe[n])>>,
         pipe' = [pipe EXCEPT ![n] = Tail(@)],
         NEW m \in Spaces, NEW i \in Indices
  PROVE  /\ Going(m, i)' <=> Going(m, i) \/ (m = Root /\ Leave(E, Root, i))
         /\ Coming(m, i)' <=> Coming(m, i) \/ (m = Root /\ Come(E, Root, i))
         /\ /\ InOrder(Stream(m), m, i)
            /\ m = Root => /\ InOrder(E, Root, i)
                           /\ Coming(Root, i) => ~Leave(E, Root, i) /\ ~Come(E, Root, i)
                           /\ Going(Root, i) => ~Leave(E, Root, i)
            => InOrder(Stream(m), m, i)'
         /\ /\ Behind(Stream(m), m, i)
            /\ m = Root /\ Answered1(Stream(Root)) => ~Leave(E, Root, i) /\ ~Come(E, Root, i)
            /\ IsAnswer(Head(pipe[n])) => m = n
            => Behind(Stream(m), m, i)'
<1> DEFINE h == Head(pipe[n])
           t == Tail(pipe[n])
           p == Pipe(m)
           p2 == Pipe(m)'
           q == <<h>>
<1>1. pipe[n] \in Seq(Messages) /\ 1 \in DOMAIN pipe[n] /\ h = pipe[n][1]
  BY DEF AgentTypes
<1>2. h \in Messages /\ t \in Seq(Messages) /\ pipe[n] = q \o t /\ (h \in Events => h.ns = n)
  BY <1>1 DEF AgentTypes
<1>3. p \in Seq(Messages) /\ toCtl \in Seq(Messages)
  BY StreamIsMessages DEF QueueTypes
<1>4. E \in Seq(Messages) /\ ~Answered1(E) /\ Behind(E, m, i)
      /\ (m # Root => ~Leave(E, m, i) /\ ~Come(E, m, i) /\ InOrder(E, m, i))
  BY EventsOf
<1>5. On(h, m, i) => h \in Events /\ m = n /\ h.type \in EventTypes
  <2>1. On(h, m, i) => h \in Events /\ h.type \in EventTypes
    BY <1>2, MessageFacts
  <2> QED
    BY <1>2, <2>1 DEF On
<1>6. /\ q \in Seq(Messages)
      /\ Leave(q, m, i) <=> On(h, m, i) /\ h.type \in {"dev_deleted", "dev_netns_changed"}
      /\ Come(q, m, i) <=> On(h, m, i) /\ h.type = "dev_created"
      /\ Answered1(q) <=> IsAnswer(h)
      /\ InOrder(q, m, i) /\ Behind(q, m, i)
  BY <1>2, Single
<1>7. m # n => ~Leave(q, m, i) /\ ~Come(q, m, i)
  BY <1>5, <1>6
<1> DEFINE a == toCtl \o E
           b == a \o q
<1>8. Stream(m) = toCtl \o p /\ Stream(m)' = b \o p2
  BY DEF Stream
<1>9. /\ m = n => p = q \o t /\ p2 = t
      /\ m # n => p2 = p
      /\ m = Root => p = <<>>
  <2>1. pipe'[n] = Tail(pipe[n]) /\ \A k \in NetNs : k # n => pipe'[k] = pipe[k]
    BY DEF AgentTypes
  <2>2. m = n => p = pipe[n] /\ p2 = pipe'[n]
    BY DEF Pipe
  <2>3. m # n => p2 = p
    BY <2>1 DEF Pipe
  <2>4. m = Root => p = <<>>
    BY SpacesFacts DEF Pipe
  <2> QED
    BY <1>2, <2>1, <2>2, <2>3, <2>4
<1> HIDE DEF h, t, p, p2, q, a, b
<1>10. p2 \in Seq(Messages)
  BY <1>2, <1>3, <1>9
<1>11. /\ a \in Seq(Messages)
       /\ Leave(a, m, i) <=> Leave(toCtl, m, i) \/ Leave(E, m, i)
       /\ Come(a, m, i) <=> Come(toCtl, m, i) \/ Come(E, m, i)
       /\ Answered1(a) <=> Answered1(toCtl) \/ Answered1(E)
       /\ InOrder(a, m, i) <=> /\ InOrder(toCtl, m, i) /\ InOrder(E, m, i)
                               /\ Come(toCtl, m, i) => ~Leave(E, m, i) /\ ~Come(E, m, i)
                               /\ Leave(toCtl, m, i) => ~Leave(E, m, i)
       /\ Behind(a, m, i) <=> /\ Behind(toCtl, m, i) /\ Behind(E, m, i)
                              /\ Answered1(toCtl) => ~Leave(E, m, i) /\ ~Come(E, m, i)
  BY <1>3, <1>4, Concat DEF a
<1>12. /\ b \in Seq(Messages)
       /\ Leave(b, m, i) <=> Leave(a, m, i) \/ Leave(q, m, i)
       /\ Come(b, m, i) <=> Come(a, m, i) \/ Come(q, m, i)
       /\ Answered1(b) <=> Answered1(a) \/ Answered1(q)
       /\ InOrder(b, m, i) <=> /\ InOrder(a, m, i) /\ InOrder(q, m, i)
                               /\ Come(a, m, i) => ~Leave(q, m, i) /\ ~Come(q, m, i)
                               /\ Leave(a, m, i) => ~Leave(q, m, i)
       /\ Behind(b, m, i) <=> /\ Behind(a, m, i) /\ Behind(q, m, i)
                              /\ Answered1(a) => ~Leave(q, m, i) /\ ~Come(q, m, i)
  BY <1>6, <1>11, Concat DEF b
<1>13. /\ Leave(b \o p2, m, i) <=> Leave(b, m, i) \/ Leave(p2, m, i)
       /\ Come(b \o p2, m, i) <=> Come(b, m, i) \/ Come(p2, m, i)
       /\ InOrder(b \o p2, m, i) <=> /\ InOrder(b, m, i) /\ InOrder(p2, m, i)
                                     /\ Come(b, m, i) => ~Leave(p2, m, i) /\ ~Come(p2, m, i)
                                     /\ Leave(b, m, i) => ~Leave(p2, m, i)
       /\ Behind(b \o p2, m, i) <=> /\ Behind(b, m, i) /\ Behind(p2, m, i)
                                    /\ Answered1(b) => ~Leave(p2, m, i) /\ ~Come(p2, m, i)
  BY <1>10, <1>12, Concat
<1>14. /\ Leave(toCtl \o p, m, i) <=> Leave(toCtl, m, i) \/ Leave(p, m, i)
       /\ Come(toCtl \o p, m, i) <=> Come(toCtl, m, i) \/ Come(p, m, i)
       /\ Answered1(toCtl \o p) <=> Answered1(toCtl) \/ Answered1(p)
       /\ InOrder(toCtl \o p, m, i) <=> /\ InOrder(toCtl, m, i) /\ InOrder(p, m, i)
                                        /\ Come(toCtl, m, i) => ~Leave(p, m, i) /\ ~Come(p, m, i)
                                        /\ Leave(toCtl, m, i) => ~Leave(p, m, i)
       /\ Behind(toCtl \o p, m, i) <=> /\ Behind(toCtl, m, i) /\ Behind(p, m, i)
                                       /\ Answered1(toCtl) => ~Leave(p, m, i) /\ ~Come(p, m, i)
  BY <1>3, Concat
<1> DEFINE s == toCtl \o p
           s2 == b \o p2
<1> HIDE DEF s, s2
<1>15. Stream(m) = s /\ Stream(m)' = s2 /\ (m = Root => Stream(Root) = s)
  BY <1>8 DEF s, s2
<1> SUFFICES /\ Leave(s2, m, i) <=> Leave(s, m, i) \/ (m = Root /\ Leave(E, m, i))
             /\ Come(s2, m, i) <=> Come(s, m, i) \/ (m = Root /\ Come(E, m, i))
             /\ /\ InOrder(s, m, i)
                /\ m = Root => /\ InOrder(E, m, i)
                               /\ Come(s, m, i) => ~Leave(E, m, i) /\ ~Come(E, m, i)
                               /\ Leave(s, m, i) => ~Leave(E, m, i)
                => InOrder(s2, m, i)
             /\ /\ Behind(s, m, i)
                /\ m = Root /\ Answered1(s) => ~Leave(E, m, i) /\ ~Come(E, m, i)
                /\ IsAnswer(h) => m = n
                => Behind(s2, m, i)
  BY <1>15 DEF Going, Coming, h
<1>16. CASE m = n
  <2>1. m # Root
    BY <1>16, SpacesFacts
  <2>2. /\ Leave(q \o t, m, i) <=> Leave(q, m, i) \/ Leave(t, m, i)
        /\ Come(q \o t, m, i) <=> Come(q, m, i) \/ Come(t, m, i)
        /\ Answered1(q \o t) <=> Answered1(q) \/ Answered1(t)
        /\ InOrder(q \o t, m, i) <=> /\ InOrder(q, m, i) /\ InOrder(t, m, i)
                                     /\ Come(q, m, i) => ~Leave(t, m, i) /\ ~Come(t, m, i)
                                     /\ Leave(q, m, i) => ~Leave(t, m, i)
        /\ Behind(q \o t, m, i) <=> /\ Behind(q, m, i) /\ Behind(t, m, i)
                                    /\ Answered1(q) => ~Leave(t, m, i) /\ ~Come(t, m, i)
    BY <1>2, <1>6, Concat
  <2>3. p = q \o t /\ p2 = t
    BY <1>9, <1>16
  <2>4. /\ Leave(p, m, i) <=> Leave(q, m, i) \/ Leave(p2, m, i)
        /\ Come(p, m, i) <=> Come(q, m, i) \/ Come(p2, m, i)
        /\ Answered1(p) <=> Answered1(q) \/ Answered1(p2)
        /\ InOrder(p, m, i) <=> /\ InOrder(q, m, i) /\ InOrder(p2, m, i)
                                /\ Come(q, m, i) => ~Leave(p2, m, i) /\ ~Come(p2, m, i)
                                /\ Leave(q, m, i) => ~Leave(p2, m, i)
        /\ Behind(p, m, i) <=> /\ Behind(q, m, i) /\ Behind(p2, m, i)
                               /\ Answered1(q) => ~Leave(p2, m, i) /\ ~Come(p2, m, i)
    BY <2>2, <2>3
  <2> QED
    BY <1>4, <1>6, <1>11, <1>12, <1>13, <1>14, <2>1, <2>4 DEF s, s2
<1>17. CASE m # n
  <2>1. p2 = p
    BY <1>9, <1>17
  <2>2. m = Root => ~Leave(p, m, i) /\ ~Come(p, m, i) /\ InOrder(p, m, i) /\ Behind(p, m, i) /\ ~Answered1(p)
    BY <1>9, Empty
  <2>3. /\ Leave(p2, m, i) <=> Leave(p, m, i)
        /\ Come(p2, m, i) <=> Come(p, m, i)
        /\ InOrder(p2, m, i) <=> InOrder(p, m, i)
        /\ Behind(p2, m, i) <=> Behind(p, m, i)
    BY <2>1
  <2> QED
    BY <1>4, <1>6, <1>7, <1>11, <1>12, <1>13, <1>14, <1>17, <2>2, <2>3 DEF s, s2
<1> QED
  BY <1>16, <1>17

\* The answers, when the root agent passes a message on.
LEMMA PassAnswers ==
  ASSUME AgentTypes, QueueTypes, NEW n \in NetNs, pipe[n] # <<>>,
         NEW E \in Seq(Events), \A k \in DOMAIN E : E[k].ns = Root,
         toCtl' = toCtl \o E \o <<Head(pipe[n])>>,
         pipe' = [pipe EXCEPT ![n] = Tail(@)]
  PROVE  /\ toCtl' \in Seq(Messages) /\ Len(toCtl') >= Len(toCtl)
         /\ pipe' \in [NetNs -> Seq(Messages)]
         /\ \A m \in NetNs : \A k \in DOMAIN pipe'[m] : pipe'[m][k] \in Events => pipe'[m][k].ns = m
         /\ Answered1(toCtl') => Answered1(toCtl) \/ IsAnswer(Head(pipe[n]))
         /\ IsAnswer(Head(pipe[n])) => Answered1(pipe[n])
         /\ \A m \in NetNs : Answered1(pipe'[m]) => Answered1(pipe[m])
         /\ \A m \in Spaces : /\ Lone(Stream(m)) /\ Lone(Stream(n))
                              /\ IsAnswer(Head(pipe[n])) /\ m # n => ~Answered1(Pipe(m))
                              => Lone(Stream(m)')
         /\ \A m \in Sent' : m \in Sent \/ InQueue(m, E)
         /\ \A m \in NetNs : m # n => pipe'[m] = pipe[m]
<1> DEFINE h == Head(pipe[n])
           t == Tail(pipe[n])
           q == <<h>>
           a == toCtl \o E
           b == a \o q
<1>1. pipe[n] \in Seq(Messages) /\ 1 \in DOMAIN pipe[n] /\ h = pipe[n][1]
      /\ DOMAIN pipe[n] = 1..Len(pipe[n]) /\ Len(pipe[n]) \in Nat
  BY DEF AgentTypes
<1>2. h \in Messages /\ t \in Seq(Messages) /\ pipe[n] = q \o t
      /\ \A k \in DOMAIN t : k + 1 \in DOMAIN pipe[n] /\ t[k] = pipe[n][k + 1]
  BY <1>1
<1>3. q \in Seq(Messages) /\ Lone(q) /\ (Answered1(q) <=> IsAnswer(h)) /\ Len(q) = 1
      /\ \A k \in DOMAIN q : q[k] = h
  <2>1. DOMAIN q = {1} /\ q[1] = h /\ q \in Seq(Messages) /\ Len(q) = 1
    BY <1>2
  <2> HIDE DEF q
  <2> QED
    BY <2>1 DEF Lone, Answered1
<1> HIDE DEF h, t, q
<1>4. E \in Seq(Messages) /\ ~Answered1(E) /\ Lone(E)
  BY EventsOf
<1>5. /\ a \in Seq(Messages) /\ Len(a) = Len(toCtl) + Len(E)
      /\ Answered1(a) <=> Answered1(toCtl)
      /\ Lone(a) <=> Lone(toCtl)
      /\ \A k \in DOMAIN a : (\E l \in DOMAIN toCtl : a[k] = toCtl[l]) \/ (\E l \in DOMAIN E : a[k] = E[l])
  <2>1. toCtl \in Seq(Messages)
    BY DEF QueueTypes
  <2>2. a \in Seq(Messages) /\ Len(a) = Len(toCtl) + Len(E)
    BY <1>4, <2>1, Positions
  <2>3. (Answered1(a) <=> Answered1(toCtl)) /\ (Lone(a) <=> Lone(toCtl))
    BY <1>4, <2>1, ConcatAnswers
  <2>4. \A k \in DOMAIN a : (\E l \in DOMAIN toCtl : a[k] = toCtl[l]) \/ (\E l \in DOMAIN E : a[k] = E[l])
    BY <1>4, <2>1, InConcat
  <2> QED
    BY <2>2, <2>3, <2>4
<1> HIDE DEF a
<1>6. /\ b \in Seq(Messages) /\ Len(b) = Len(a) + Len(q)
      /\ Answered1(b) <=> Answered1(a) \/ IsAnswer(h)
      /\ Lone(b) <=> Lone(a) /\ ~(Answered1(a) /\ IsAnswer(h))
      /\ \A k \in DOMAIN b : (\E l \in DOMAIN a : b[k] = a[l]) \/ b[k] = h
  <2>1. /\ b \in Seq(Messages) /\ Len(b) = Len(a) + Len(q)
        /\ Answered1(b) <=> Answered1(a) \/ Answered1(q)
        /\ Lone(b) <=> Lone(a) /\ Lone(q) /\ ~(Answered1(a) /\ Answered1(q))
        /\ \A k \in DOMAIN b : (\E l \in DOMAIN a : b[k] = a[l]) \/ (\E l \in DOMAIN q : b[k] = q[l])
    <3>1. b \in Seq(Messages) /\ Len(b) = Len(a) + Len(q)
      BY <1>3, <1>5, Positions
    <3>2. /\ Answered1(b) <=> Answered1(a) \/ Answered1(q)
          /\ Lone(b) <=> Lone(a) /\ Lone(q) /\ ~(Answered1(a) /\ Answered1(q))
      BY <1>3, <1>5, ConcatAnswers
    <3>3. \A k \in DOMAIN b : (\E l \in DOMAIN a : b[k] = a[l]) \/ (\E l \in DOMAIN q : b[k] = q[l])
      BY <1>3, <1>5, InConcat
    <3> QED
      BY <3>1, <3>2, <3>3
  <2> HIDE DEF b
  <2> QED
    BY <1>3, <2>1
<1>7. toCtl' = b
  BY DEF a, b, q, h
<1> HIDE DEF b
<1>8. pipe'[n] = t /\ pipe' \in [NetNs -> Seq(Messages)] /\ \A m \in NetNs : m # n => pipe'[m] = pipe[m]
  <2>1. pipe' = [pipe EXCEPT ![n] = t]
    BY DEF t
  <2> QED
    BY <1>2, <2>1 DEF AgentTypes
<1>9. ASSUME NEW m \in NetNs, NEW k \in DOMAIN pipe'[m], pipe'[m][k] \in Events PROVE pipe'[m][k].ns = m
  <2>1. CASE m = n
    <3>1. k + 1 \in DOMAIN pipe[n] /\ pipe'[m][k] = pipe[n][k + 1]
      BY <1>2, <1>8, <2>1
    <3> QED
      BY <1>9, <2>1, <3>1 DEF AgentTypes
  <2>2. CASE m # n
    BY <1>8, <1>9, <2>2 DEF AgentTypes
  <2> QED
    BY <2>1, <2>2
<1>10. /\ Answered1(pipe[n]) <=> IsAnswer(h) \/ Answered1(t)
       /\ Lone(pipe[n]) <=> Lone(t) /\ ~(IsAnswer(h) /\ Answered1(t))
  BY <1>2, <1>3, ConcatAnswers
<1>11. ASSUME NEW m \in Spaces, Lone(Stream(m)), Lone(Stream(n)), IsAnswer(h) /\ m # n => ~Answered1(Pipe(m))
       PROVE  Lone(Stream(m)')
  <2>1. Pipe(m) \in Seq(Messages) /\ Pipe(m)' \in Seq(Messages) /\ toCtl \in Seq(Messages)
    BY <1>8, StreamIsMessages, Empty DEF Pipe, QueueTypes
  <2>2. Pipe(n) = pipe[n] /\ (m = n => Pipe(m)' = t) /\ (m # n => Pipe(m)' = Pipe(m))
    BY <1>8 DEF Pipe
  <2>3. /\ Lone(Stream(m)) <=> Lone(toCtl) /\ Lone(Pipe(m)) /\ ~(Answered1(toCtl) /\ Answered1(Pipe(m)))
        /\ Lone(Stream(n)) <=> Lone(toCtl) /\ Lone(pipe[n]) /\ ~(Answered1(toCtl) /\ Answered1(pipe[n]))
        /\ Lone(b \o Pipe(m)') <=> Lone(b) /\ Lone(Pipe(m)') /\ ~(Answered1(b) /\ Answered1(Pipe(m)'))
    BY <1>1, <1>6, <2>1, <2>2, ConcatAnswers DEF Stream
  <2>4. Stream(m)' = b \o Pipe(m)'
    BY <1>7 DEF Stream
  <2> QED
    BY <1>5, <1>6, <1>10, <1>11, <2>2, <2>3, <2>4
<1>12. ASSUME NEW m \in Sent' PROVE m \in Sent \/ \E k \in DOMAIN E : m = E[k]
  <2>1. m \in Messages /\ (\/ \E k \in DOMAIN toCtl' : toCtl'[k] = m
                           \/ \E j \in NetNs : \E k \in DOMAIN pipe'[j] : pipe'[j][k] = m)
    BY DEF Sent
  <2>2. h \in Sent
    BY <1>1, <1>2 DEF Sent
  <2>3. ASSUME NEW k \in DOMAIN b, b[k] = m PROVE m \in Sent \/ \E l \in DOMAIN E : m = E[l]
    <3>1. b[k] = h \/ \E l \in DOMAIN a : b[k] = a[l]
      BY <1>6
    <3>2. ASSUME NEW l \in DOMAIN a, m = a[l] PROVE m \in Sent \/ \E e \in DOMAIN E : m = E[e]
      <4>1. (\E e \in DOMAIN toCtl : m = toCtl[e]) \/ (\E e \in DOMAIN E : m = E[e])
        BY <1>5, <3>2
      <4> QED
        BY <2>1, <4>1 DEF Sent
    <3> QED
      BY <2>2, <2>3, <3>1, <3>2
  <2>4. ASSUME NEW j \in NetNs, NEW k \in DOMAIN pipe'[j], pipe'[j][k] = m PROVE m \in Sent
    <3>1. CASE j = n
      <4>1. k + 1 \in DOMAIN pipe[n] /\ m = pipe[n][k + 1]
        BY <1>2, <1>8, <2>4, <3>1
      <4> QED
        BY <2>1, <4>1 DEF Sent
    <3>2. CASE j # n
      BY <1>8, <2>1, <2>4, <3>2 DEF Sent
    <3> QED
      BY <3>1, <3>2
  <2> QED
    BY <1>7, <2>1, <2>3, <2>4
<1>13. Len(toCtl') >= Len(toCtl)
  <2>1. Len(toCtl) \in Nat /\ Len(E) \in Nat /\ Len(b) = Len(toCtl) + Len(E) + 1
    BY <1>3, <1>5, <1>6 DEF QueueTypes
  <2> QED
    BY <1>7, <2>1
<1> QED
  BY <1>5, <1>6, <1>7, <1>8, <1>9, <1>10, <1>11, <1>12, <1>13 DEF h, InQueue

\* The messages an agent is made to handle besides what it finds in its socket.
Plain(q)     == \A k \in DOMAIN q : q[k].new = NoIdx
TellsQ(q, i) == \E k \in DOMAIN q : Tells(q[k], i)
NewFirst(q, i) == \E l \in DOMAIN q : /\ q[l].type = "NEWLINK" /\ q[l].idx = i
                                      /\ \A k \in 1..(l - 1) : ~Tells(q[k], i)
Makes(q, i)  == \E k \in DOMAIN q : q[k].type = "CREATED" /\ q[k].idx = i

\* The events E are of agent n, and the moves they report are in its socket.
ReportsOf(E, n) == \A k \in DOMAIN E :
  /\ E[k].ns = n
  /\ E[k].type = "dev_netns_changed" =>
       \E l \in DOMAIN nl[n] : nl[n][l].idx = E[k].idx /\ nl[n][l].new = E[k].new /\ E[k].new # NoIdx

\* A socket is a queue of netlink messages.
LEMMA NoticesAreLinks == \A q \in Seq(Notices) : q \in Seq(LinkMessages)
BY DEF Notices

\* What an agent that handles its socket sends.
LEMMA HandlesSends ==
  ASSUME KernelTypes, AgentTypes, NEW n \in Spaces, NEW q \in Seq(LinkMessages), Plain(q),
         NEW after, Handles(n, q, after), NEW E, E = HandleNetlink(n, nl[n] \o q).events
  PROVE  /\ nl[n] \o q \in Seq(LinkMessages) /\ known[n] \in SUBSET Indices
         /\ E \in Seq(Events) /\ ReportsOf(E, n)
         /\ Send(n, E \o after)
         /\ known' = [known EXCEPT ![n] = HandleNetlink(n, nl[n] \o q).known]
         /\ known' \in [Spaces -> SUBSET Indices]
<1> DEFINE p == nl[n] \o q
           r == HandleNetlink(n, p)
<1>0. E = r.events
  OBVIOUS
<1>1. nl[n] \in Seq(LinkMessages) /\ known[n] \in SUBSET Indices
  BY NoticesAreLinks DEF KernelTypes, AgentTypes
<1>2. /\ p \in Seq(LinkMessages)
      /\ \A k \in DOMAIN p : (\E l \in DOMAIN nl[n] : p[k] = nl[n][l]) \/ (\E l \in DOMAIN q : p[k] = q[l])
  BY <1>1
<1> HIDE DEF p
<1>3. /\ r.known \in SUBSET Indices
      /\ E \in Seq(Events)
      /\ \A k \in DOMAIN E :
           /\ E[k].ns = n
           /\ E[k].type = "dev_netns_changed" =>
                \E l \in DOMAIN p : p[l].idx = E[k].idx /\ p[l].new = E[k].new /\ p[l].new # NoIdx
  BY <1>0, <1>1, <1>2, HandledTypes
<1>4. Send(n, E \o after) /\ known' = [known EXCEPT ![n] = r.known]
  BY <1>0 DEF Handles, p
<1>5. known' \in [Spaces -> SUBSET Indices]
  BY <1>3, <1>4 DEF AgentTypes
<1> HIDE DEF r
<1>6. ASSUME NEW k \in DOMAIN E, E[k].type = "dev_netns_changed"
      PROVE  \E l \in DOMAIN nl[n] : nl[n][l].idx = E[k].idx /\ nl[n][l].new = E[k].new /\ E[k].new # NoIdx
  <2>1. PICK l \in DOMAIN p : p[l].idx = E[k].idx /\ p[l].new = E[k].new /\ p[l].new # NoIdx
    BY <1>3, <1>6
  <2>2. ASSUME NEW j \in DOMAIN q, p[l] = q[j] PROVE FALSE
    BY <2>1, <2>2 DEF Plain
  <2> QED
    BY <1>2, <2>1, <2>2
<1>7. ReportsOf(E, n)
  BY <1>3, <1>6 DEF ReportsOf
<1> QED
  BY ONLY <1>1, <1>2, <1>3, <1>4, <1>5, <1>7 DEF r, p

\* What an agent does in any stage.
LEMMA HandlesAny ==
  ASSUME KernelTypes, AgentTypes, QueueTypes, NEW n \in Spaces, NEW q \in Seq(LinkMessages), Plain(q),
         NEW after \in {<<>>, Result, Exception}, Handles(n, q, after)
  PROVE  /\ known' \in [Spaces -> SUBSET Indices] /\ \A m \in Spaces : m # n => known'[m] = known[m]
         /\ toCtl' \in Seq(Messages) /\ Len(toCtl') >= Len(toCtl)
         /\ pipe' \in [NetNs -> Seq(Messages)] /\ \A m \in NetNs : m # n => pipe'[m] = pipe[m]
         /\ \A m \in NetNs : \A k \in DOMAIN pipe'[m] : pipe'[m][k] \in Events => pipe'[m][k].ns = m
         /\ after = <<>> => /\ Answered1(toCtl') <=> Answered1(toCtl)
                            /\ \A m \in NetNs : Answered1(pipe'[m]) <=> Answered1(pipe[m])
                            /\ \A m \in Spaces : Lone(Stream(m)) => Lone(Stream(m)')
         /\ ~Answered1(toCtl) /\ (\A m \in NetNs : ~Answered1(pipe[m])) =>
              /\ \A m \in NetNs : Answered1(pipe'[m]) => m = n
              /\ \A m \in Spaces : Lone(Stream(m)')
         /\ \A m \in Sent' :
              \/ m \in Sent
              \/ /\ m \in Events
                 /\ m.type = "dev_netns_changed" =>
                      \E l \in DOMAIN nl[n] : m.ns = n /\ nl[n][l].idx = m.idx /\ nl[n][l].new = m.new /\ m.new # NoIdx
              \/ after = Result /\ m = Answer("result")
              \/ after = Exception /\ m = Answer("exception")
         /\ \A m \in Spaces, i \in Indices : m # n =>
              /\ Going(m, i)' <=> Going(m, i)
              /\ Coming(m, i)' <=> Coming(m, i)
              /\ InOrder(Stream(m), m, i) => InOrder(Stream(m), m, i)'
              /\ Behind(Stream(m), m, i) /\ (after = <<>> \/ (~Going(m, i) /\ ~Coming(m, i)))
                   => Behind(Stream(m), m, i)'
<1> DEFINE E == HandleNetlink(n, nl[n] \o q).events
<1>1. /\ E \in Seq(Events) /\ ReportsOf(E, n)
      /\ Send(n, E \o after)
      /\ known' = [known EXCEPT ![n] = HandleNetlink(n, nl[n] \o q).known]
      /\ known' \in [Spaces -> SUBSET Indices]
  <2>1. E = HandleNetlink(n, nl[n] \o q).events
    OBVIOUS
  <2> HIDE DEF E
  <2> QED
    BY ONLY KernelTypes, AgentTypes, n \in Spaces, q \in Seq(LinkMessages), Plain(q),
            Handles(n, q, after), <2>1, HandlesSends
<1>2. \A m \in Spaces : m # n => known'[m] = known[m]
  BY <1>1 DEF AgentTypes
<1> HIDE DEF E
<1>r. \A k \in DOMAIN E : E[k].ns = n
  BY <1>1 DEF ReportsOf
<1>3. /\ toCtl' \in Seq(Messages) /\ Len(toCtl') >= Len(toCtl)
      /\ pipe' \in [NetNs -> Seq(Messages)]
      /\ \A m \in NetNs : \A k \in DOMAIN pipe'[m] : pipe'[m][k] \in Events => pipe'[m][k].ns = m
      /\ \A m \in NetNs : m # n => pipe'[m] = pipe[m]
  BY <1>1, <1>r, SendTypes
<1>4. /\ after = <<>> => /\ Answered1(toCtl') <=> Answered1(toCtl)
                         /\ \A m \in NetNs : Answered1(pipe'[m]) <=> Answered1(pipe[m])
                         /\ \A m \in Spaces : Lone(Stream(m)) => Lone(Stream(m)')
      /\ ~Answered1(toCtl) /\ (\A m \in NetNs : ~Answered1(pipe[m])) =>
           /\ \A m \in NetNs : Answered1(pipe'[m]) => m = n
           /\ \A m \in Spaces : Lone(Stream(m)')
  BY <1>1, <1>r, SendAnswers
<1>5. ASSUME NEW m \in Sent'
      PROVE  \/ m \in Sent
             \/ /\ m \in Events
                /\ m.type = "dev_netns_changed" =>
                     \E l \in DOMAIN nl[n] : m.ns = n /\ nl[n][l].idx = m.idx /\ nl[n][l].new = m.new /\ m.new # NoIdx
             \/ after = Result /\ m = Answer("result")
             \/ after = Exception /\ m = Answer("exception")
  <2>1. \/ m \in Sent
        \/ InQueue(m, E)
        \/ after = Result /\ m = Answer("result")
        \/ after = Exception /\ m = Answer("exception")
    BY ONLY AgentTypes, QueueTypes, n \in Spaces, after \in {<<>>, Result, Exception}, m \in Sent',
            <1>1, SendSent
  <2>2. ASSUME NEW k \in DOMAIN E, m = E[k]
        PROVE  /\ m \in Events
               /\ m.type = "dev_netns_changed" =>
                    \E l \in DOMAIN nl[n] : m.ns = n /\ nl[n][l].idx = m.idx /\ nl[n][l].new = m.new /\ m.new # NoIdx
    BY <1>1, <2>2 DEF ReportsOf
  <2> QED
    BY <2>1, <2>2 DEF InQueue
<1>6. ASSUME NEW m \in Spaces, NEW i \in Indices, m # n
      PROVE  /\ Going(m, i)' <=> Going(m, i)
             /\ Coming(m, i)' <=> Coming(m, i)
             /\ InOrder(Stream(m), m, i) => InOrder(Stream(m), m, i)'
             /\ Behind(Stream(m), m, i) /\ (after = <<>> \/ (~Going(m, i) /\ ~Coming(m, i)))
                  => Behind(Stream(m), m, i)'
  <2>1. Going(m, i)' <=> Going(m, i)
    BY ONLY AgentTypes, QueueTypes, n \in Spaces, after \in {<<>>, Result, Exception}, <1>1, <1>6, <1>r,
            m \in Spaces, i \in Indices, SendStreams
  <2>2. Coming(m, i)' <=> Coming(m, i)
    BY ONLY AgentTypes, QueueTypes, n \in Spaces, after \in {<<>>, Result, Exception}, <1>1, <1>6, <1>r,
            m \in Spaces, i \in Indices, SendStreams
  <2>3. InOrder(Stream(m), m, i) => InOrder(Stream(m), m, i)'
    BY ONLY AgentTypes, QueueTypes, n \in Spaces, after \in {<<>>, Result, Exception}, <1>1, <1>6, <1>r,
            m \in Spaces, i \in Indices, SendStreams
  <2>4. Behind(Stream(m), m, i) /\ (after = <<>> \/ (~Going(m, i) /\ ~Coming(m, i)))
          => Behind(Stream(m), m, i)'
    BY ONLY AgentTypes, QueueTypes, n \in Spaces, after \in {<<>>, Result, Exception}, <1>1, <1>6, <1>r,
            m \in Spaces, i \in Indices, SendStreams
  <2> QED
    BY <2>1, <2>2, <2>3, <2>4
<1> QED
  BY <1>1, <1>2, <1>3, <1>4, <1>5, <1>6

\* The stream of agent n after it has sent the events E, as far as i goes; b is
\* FALSE when an answer of another agent is put on it.
Grows(n, E, i, b) ==
  /\ Going(n, i)' <=> Going(n, i) \/ Leave(E, n, i)
  /\ Coming(n, i)' <=> Coming(n, i) \/ Come(E, n, i)
  /\ /\ InOrder(Stream(n), n, i) /\ InOrder(E, n, i)
     /\ Coming(n, i) => ~Leave(E, n, i) /\ ~Come(E, n, i)
     /\ Going(n, i) => ~Leave(E, n, i)
     => InOrder(Stream(n), n, i)'
  /\ /\ b /\ Behind(Stream(n), n, i)
     /\ Answered1(Stream(n)) => ~Leave(E, n, i) /\ ~Come(E, n, i)
     => Behind(Stream(n), n, i)'

\* What agent n, made to handle q, knows and has sent of index i.
HandledAt(n, q, i, b) ==
  /\ i \in known'[n] <=> New(n, i) \/ TellsQ(q, i) \/ (i \in known[n] /\ ~Dropping(n, i))
  /\ Going(n, i)' <=> Going(n, i) \/ Dropping(n, i)
  /\ Coming(n, i) => Coming(n, i)'
  /\ Coming(n, i)' => \/ Coming(n, i)
                      \/ /\ New(n, i) \/ TellsQ(q, i)
                         /\ i \notin known[n] \/ Dropping(n, i)
                         /\ New(n, i) \/ NewFirst(q, i)
  /\ i \in known'[n] /\ ~Coming(n, i)' => Makes(q, i) \/ (i \in known[n] /\ ~Dropping(n, i))
  /\ InOrder(Stream(n), n, i)'
  /\ /\ b /\ Behind(Stream(n), n, i)
     /\ Answered1(Stream(n)) => i \in known[n] /\ ~Dropping(n, i)
     => Behind(Stream(n), n, i)'

\* The stream grows by what the agent made of its socket, so it stays in order.
LEMMA GrowsHandled ==
  ASSUME KernelTypes, AgentTypes, QueueTypes, OneDel, Shape, Links, Pending,
         NEW n \in Spaces, NEW q \in Seq(LinkMessages), \A k \in DOMAIN q : q[k].type # "DELLINK",
         NEW r, r = HandleNetlink(n, nl[n] \o q), known'[n] = r.known,
         NEW b, NEW i \in Indices, Grows(n, r.events, i, b)
  PROVE  HandledAt(n, q, i, b)
<1> DEFINE p == nl[n] \o q
           E == r.events
<1>1. known[n] \in SUBSET Indices /\ p \in Seq(LinkMessages)
  BY NoticesAreLinks DEF KernelTypes, AgentTypes
<1>3. nl[n] \in Seq(Notices) /\ nl[n] \in Seq(LinkMessages)
  BY NoticesAreLinks DEF KernelTypes
<1> DEFINE L == Len(nl[n])
<1>4. /\ L \in Nat /\ DOMAIN nl[n] = 1..L /\ DOMAIN q = 1..Len(q) /\ Len(q) \in Nat /\ Len(p) = L + Len(q)
      /\ \A k \in 1..L : p[k] = nl[n][k]
      /\ \A k \in 1..Len(q) : p[L + k] = q[k]
      /\ \A k \in 1..Len(p) : k \in 1..L \/ (k - L \in 1..Len(q) /\ p[k] = q[k - L])
      /\ DOMAIN p = 1..Len(p)
  BY <1>3
<1>5. \A k \in 1..L : (nl[n][k].type = "DELLINK" => k = 1)
                      /\ (nl[n][k].type # "DELLINK" => nl[n][k].type = "NEWLINK")
  <2>1. \A k \in 1..L : nl[n][k] \in Notices
    BY <1>3, <1>4
  <2>2. \A m \in Notices : m.type # "DELLINK" => m.type = "NEWLINK"
    BY DEF Notices, LinkMessages
  <2> QED
    BY <1>4, <2>1, <2>2 DEF OneDel, DropFirst
<1>2. r = HandleNetlink(n, p)
  OBVIOUS
<1> HIDE DEF p, L
<1>6. DropFirst(p)
  <2> SUFFICES ASSUME NEW k \in 1..Len(p), p[k].type = "DELLINK" PROVE k = 1
    BY <1>4 DEF DropFirst
  <2>1. k \in 1..L
    BY <1>4
  <2> QED
    BY <1>4, <1>5, <2>1
<1>7. Drop1(p, i) <=> Dropping(n, i)
  <2>1. CASE L = 0
    <3>1. nl[n] = <<>>
      BY <1>3, <2>1 DEF L
    <3>2. p # <<>> => p[1].type # "DELLINK"
      <4> SUFFICES ASSUME p # <<>> PROVE p[1].type # "DELLINK"
        OBVIOUS
      <4>1. Len(p) # 0
        BY <1>1
      <4>2. 1 \in 1..Len(p)
        BY <1>4, <4>1
      <4>3. 1 - L \in 1..Len(q) /\ p[1] = q[1 - L]
        BY <1>4, <2>1, <4>2
      <4> QED
        BY <1>4, <4>3
    <3> QED
      BY <3>1, <3>2 DEF Drop1, Dropping
  <2>2. CASE L # 0
    <3>1. nl[n] # <<>> /\ p # <<>> /\ p[1] = nl[n][1]
      BY <1>4, <2>2 DEF L
    <3> QED
      BY <3>1 DEF Drop1, Dropping
  <2> QED
    BY <2>1, <2>2
<1>8. Told(p, Len(p), i) <=> New(n, i) \/ TellsQ(q, i)
  <2>1. New(n, i) <=> \E k \in 1..L : Tells(p[k], i)
    BY <1>4, <1>5 DEF New, Tells
  <2>2. TellsQ(q, i) => \E k \in 1..Len(p) : Tells(p[k], i)
    <3> SUFFICES ASSUME NEW k \in 1..Len(q), Tells(q[k], i) PROVE \E j \in 1..Len(p) : Tells(p[j], i)
      BY <1>4 DEF TellsQ
    <3>1. L + k \in 1..Len(p) /\ p[L + k] = q[k]
      BY <1>4
    <3> QED
      BY <3>1
  <2>3. 1..L \subseteq 1..Len(p)
    BY <1>4
  <2>4. ASSUME NEW k \in 1..Len(p), Tells(p[k], i) PROVE New(n, i) \/ TellsQ(q, i)
    <3>1. CASE k \in 1..L
      BY <2>1, <2>4, <3>1
    <3>2. CASE k - L \in 1..Len(q) /\ p[k] = q[k - L]
      BY <1>4, <2>4, <3>2 DEF TellsQ
    <3> QED
      BY <1>4, <3>1, <3>2
  <2> QED
    BY <2>1, <2>2, <2>3, <2>4 DEF Told
<1>9. (\E l \in 1..Len(p) : p[l].type = "CREATED" /\ p[l].idx = i) => Makes(q, i)
  <2> SUFFICES ASSUME NEW l \in 1..Len(p), p[l].type = "CREATED", p[l].idx = i PROVE Makes(q, i)
    OBVIOUS
  <2>1. l \notin 1..L
    BY <1>4, <1>5
  <2>2. l - L \in DOMAIN q /\ p[l] = q[l - L]
    BY <1>4, <2>1
  <2> QED
    BY <2>2 DEF Makes
<1>10. (\E l \in 1..Len(p) : p[l].type = "NEWLINK" /\ p[l].idx = i /\ ~Told(p, l - 1, i))
         => New(n, i) \/ NewFirst(q, i)
  <2> SUFFICES ASSUME NEW l \in 1..Len(p), p[l].type = "NEWLINK", p[l].idx = i, ~Told(p, l - 1, i), ~New(n, i)
               PROVE  NewFirst(q, i)
    OBVIOUS
  <2>1. l \notin 1..L
    BY <1>4 DEF New
  <2>2. l - L \in DOMAIN q /\ p[l] = q[l - L]
    BY <1>4, <2>1
  <2>3. ASSUME NEW k \in 1..(l - L - 1) PROVE ~Tells(q[k], i)
    <3>1. L + k \in 1..(l - 1) /\ k \in 1..Len(q)
      BY <1>4, <2>2
    <3>2. p[L + k] = q[k]
      BY <1>4, <3>1
    <3> QED
      BY <3>1, <3>2 DEF Told
  <2> QED
    BY <2>2, <2>3 DEF NewFirst
<1>11. /\ i \in r.known <=> Told(p, Len(p), i) \/ (i \in known[n] /\ ~Drop1(p, i))
       /\ Leave(E, n, i) <=> Drop1(p, i) /\ i \in known[n]
       /\ Come(E, n, i) =>
            /\ i \notin known[n] \/ Drop1(p, i)
            /\ \E l \in 1..Len(p) : p[l].type = "NEWLINK" /\ p[l].idx = i /\ ~Told(p, l - 1, i)
       /\ i \in r.known /\ (i \notin known[n] \/ Drop1(p, i)) =>
            Come(E, n, i) \/ \E l \in 1..Len(p) : p[l].type = "CREATED" /\ p[l].idx = i
       /\ InOrder(E, n, i)
  BY <1>1, <1>2, <1>6, HandledOn
<1>12. Come(E, n, i) => i \in r.known
  <2>1. (\E l \in 1..Len(p) : p[l].type = "NEWLINK" /\ p[l].idx = i /\ ~Told(p, l - 1, i)) => Told(p, Len(p), i)
    BY DEF Told, Tells
  <2> QED
    BY <1>11, <2>1
<1>13. /\ InOrder(Stream(n), n, i)
       /\ Dropping(n, i) => i \in known[n] /\ ~Going(n, i) /\ ~Coming(n, i)
       /\ Coming(n, i) => i \in known[n] /\ ~Dropping(n, i)
  BY DEF Shape, Links, Pending, Settled
<1>14. Grows(n, E, i, b)
  OBVIOUS
<1> HIDE DEF E
<1>15. /\ Going(n, i)' <=> Going(n, i) \/ Leave(E, n, i)
       /\ Coming(n, i)' <=> Coming(n, i) \/ Come(E, n, i)
       /\ InOrder(Stream(n), n, i)'
       /\ /\ b /\ Behind(Stream(n), n, i)
          /\ Answered1(Stream(n)) => ~Leave(E, n, i) /\ ~Come(E, n, i)
          => Behind(Stream(n), n, i)'
  BY <1>7, <1>11, <1>13, <1>14 DEF Grows
<1> QED
  BY <1>7, <1>8, <1>9, <1>10, <1>11, <1>12, <1>13, <1>15 DEF HandledAt

\* What an agent knows and sends of index i, in a live stage.
LEMMA HandlesOn ==
  ASSUME KernelTypes, AgentTypes, QueueTypes, OneDel, Shape, Links, Pending,
         NEW n \in Spaces, NEW q \in Seq(LinkMessages), Plain(q),
         \A k \in DOMAIN q : q[k].type # "DELLINK",
         NEW after \in {<<>>, Result, Exception}, Handles(n, q, after), NEW i \in Indices
  PROVE  HandledAt(n, q, i, TRUE)
<1> DEFINE r == HandleNetlink(n, nl[n] \o q)
           E == r.events
<1>1. /\ E \in Seq(Events) /\ ReportsOf(E, n)
      /\ Send(n, E \o after)
      /\ known' = [known EXCEPT ![n] = r.known]
  <2>1. E = HandleNetlink(n, nl[n] \o q).events
    OBVIOUS
  <2> HIDE DEF E
  <2> QED
    BY ONLY KernelTypes, AgentTypes, n \in Spaces, q \in Seq(LinkMessages), Plain(q),
            Handles(n, q, after), <2>1, HandlesSends DEF r
<1>2. known'[n] = r.known
  BY <1>1 DEF AgentTypes
<1>3. Grows(n, r.events, i, TRUE)
  <2> HIDE DEF E
  <2>1. \A k \in DOMAIN E : E[k].ns = n
    BY <1>1 DEF ReportsOf
  <2>2. /\ Going(n, i)' <=> Going(n, i) \/ Leave(E, n, i)
        /\ Coming(n, i)' <=> Coming(n, i) \/ Come(E, n, i)
        /\ /\ InOrder(Stream(n), n, i)
           /\ InOrder(E, n, i)
           /\ Coming(n, i) => ~Leave(E, n, i) /\ ~Come(E, n, i)
           /\ Going(n, i) => ~Leave(E, n, i)
           => InOrder(Stream(n), n, i)'
        /\ /\ Behind(Stream(n), n, i)
           /\ Answered1(Stream(n)) => ~Leave(E, n, i) /\ ~Come(E, n, i)
           => Behind(Stream(n), n, i)'
    BY <1>1, <2>1, SendStreams
  <2>3. Grows(n, E, i, TRUE)
    BY <2>2 DEF Grows
  <2> QED
    BY <2>3 DEF E
<1>4. r = HandleNetlink(n, nl[n] \o q)
  OBVIOUS
<1> HIDE DEF r
<1> QED
  BY <1>2, <1>3, <1>4, GrowsHandled

\* The root agent handles its netlink messages and passes one message on.
LEMMA PassesAny ==
  ASSUME KernelTypes, AgentTypes, QueueTypes, NEW n \in NetNs, from_netns(n)
  PROVE  /\ known' \in [Spaces -> SUBSET Indices] /\ \A m \in Spaces : m # Root => known'[m] = known[m]
         /\ toCtl' \in Seq(Messages) /\ Len(toCtl') >= Len(toCtl)
         /\ pipe' \in [NetNs -> Seq(Messages)] /\ \A m \in NetNs : m # n => pipe'[m] = pipe[m]
         /\ \A m \in NetNs : \A k \in DOMAIN pipe'[m] : pipe'[m][k] \in Events => pipe'[m][k].ns = m
         /\ Answered1(toCtl') => Answered1(toCtl) \/ IsAnswer(Head(pipe[n]))
         /\ IsAnswer(Head(pipe[n])) => Answered1(pipe[n])
         /\ \A m \in NetNs : Answered1(pipe'[m]) => Answered1(pipe[m])
         /\ \A m \in Spaces : /\ Lone(Stream(m)) /\ Lone(Stream(n))
                              /\ IsAnswer(Head(pipe[n])) /\ m # n => ~Answered1(Pipe(m))
                              => Lone(Stream(m)')
         /\ \A m \in Sent' :
              \/ m \in Sent
              \/ /\ m \in Events
                 /\ m.type = "dev_netns_changed" =>
                      \E l \in DOMAIN nl[Root] : m.ns = Root /\ nl[Root][l].idx = m.idx
                                                 /\ nl[Root][l].new = m.new /\ m.new # NoIdx
         /\ \A m \in Spaces, i \in Indices : m # Root =>
              /\ Going(m, i)' <=> Going(m, i)
              /\ Coming(m, i)' <=> Coming(m, i)
              /\ InOrder(Stream(m), m, i) => InOrder(Stream(m), m, i)'
              /\ Behind(Stream(m), m, i) /\ (IsAnswer(Head(pipe[n])) => m = n)
                   => Behind(Stream(m), m, i)'
         /\ \A i \in Indices : Grows(Root, HandleNetlink(Root, nl[Root]).events, i, ~IsAnswer(Head(pipe[n])))
<1> DEFINE r == HandleNetlink(Root, nl[Root])
           E == r.events
<1>1. nl[Root] \in Seq(LinkMessages) /\ known[Root] \in SUBSET Indices /\ Root \in Spaces
  BY NoticesAreLinks, SpacesFacts DEF KernelTypes, AgentTypes
<1>2. /\ r.known \in SUBSET Indices
      /\ E \in Seq(Events)
      /\ \A k \in DOMAIN E :
           /\ E[k].ns = Root
           /\ E[k].type = "dev_netns_changed" =>
                \E l \in DOMAIN nl[Root] : nl[Root][l].idx = E[k].idx /\ nl[Root][l].new = E[k].new
                                           /\ nl[Root][l].new # NoIdx
  BY <1>1, HandledTypes
<1>3. /\ pipe[n] # <<>>
      /\ known' = [known EXCEPT ![Root] = r.known]
      /\ toCtl' = toCtl \o E \o <<Head(pipe[n])>>
      /\ pipe' = [pipe EXCEPT ![n] = Tail(@)]
  BY DEF from_netns
<1> HIDE DEF r
<1>4. known' \in [Spaces -> SUBSET Indices] /\ \A m \in Spaces : m # Root => known'[m] = known[m]
  BY <1>2, <1>3 DEF AgentTypes
<1> HIDE DEF E
<1>r. \A k \in DOMAIN E : E[k].ns = Root
  BY <1>2
<1>5. /\ toCtl' \in Seq(Messages) /\ Len(toCtl') >= Len(toCtl)
      /\ pipe' \in [NetNs -> Seq(Messages)]
      /\ \A m \in NetNs : \A k \in DOMAIN pipe'[m] : pipe'[m][k] \in Events => pipe'[m][k].ns = m
      /\ Answered1(toCtl') => Answered1(toCtl) \/ IsAnswer(Head(pipe[n]))
      /\ IsAnswer(Head(pipe[n])) => Answered1(pipe[n])
      /\ \A m \in NetNs : Answered1(pipe'[m]) => Answered1(pipe[m])
      /\ \A m \in Spaces : /\ Lone(Stream(m)) /\ Lone(Stream(n))
                           /\ IsAnswer(Head(pipe[n])) /\ m # n => ~Answered1(Pipe(m))
                           => Lone(Stream(m)')
      /\ \A m \in NetNs : m # n => pipe'[m] = pipe[m]
      /\ \A m \in Sent' : m \in Sent \/ InQueue(m, E)
  <2>1. E \in Seq(Events)
    BY <1>2
  <2> QED
    BY ONLY AgentTypes, QueueTypes, n \in NetNs, <2>1, <1>3, <1>r, PassAnswers
<1>6. ASSUME NEW m, InQueue(m, E)
      PROVE  /\ m \in Events
             /\ m.type = "dev_netns_changed" =>
                  \E l \in DOMAIN nl[Root] : m.ns = Root /\ nl[Root][l].idx = m.idx
                                             /\ nl[Root][l].new = m.new /\ m.new # NoIdx
  BY <1>2, <1>6 DEF InQueue
<1>7. ASSUME NEW m \in Spaces, NEW i \in Indices
      PROVE  /\ Going(m, i)' <=> Going(m, i) \/ (m = Root /\ Leave(E, Root, i))
             /\ Coming(m, i)' <=> Coming(m, i) \/ (m = Root /\ Come(E, Root, i))
             /\ /\ InOrder(Stream(m), m, i)
                /\ m = Root => /\ InOrder(E, Root, i)
                               /\ Coming(Root, i) => ~Leave(E, Root, i) /\ ~Come(E, Root, i)
                               /\ Going(Root, i) => ~Leave(E, Root, i)
                => InOrder(Stream(m), m, i)'
             /\ /\ Behind(Stream(m), m, i)
                /\ m = Root /\ Answered1(Stream(Root)) => ~Leave(E, Root, i) /\ ~Come(E, Root, i)
                /\ IsAnswer(Head(pipe[n])) => m = n
                => Behind(Stream(m), m, i)'
  BY <1>2, <1>3, <1>r, PassStreams
<1>8. \A i \in Indices : Grows(Root, E, i, ~IsAnswer(Head(pipe[n])))
  BY <1>1, <1>7 DEF Grows
<1>9. ASSUME NEW m \in Spaces, NEW i \in Indices, m # Root
      PROVE  /\ Going(m, i)' <=> Going(m, i)
             /\ Coming(m, i)' <=> Coming(m, i)
             /\ InOrder(Stream(m), m, i) => InOrder(Stream(m), m, i)'
             /\ Behind(Stream(m), m, i) /\ (IsAnswer(Head(pipe[n])) => m = n)
                  => Behind(Stream(m), m, i)'
  BY <1>7, <1>9
<1>10. \A i \in Indices : Grows(Root, HandleNetlink(Root, nl[Root]).events, i, ~IsAnswer(Head(pipe[n])))
  BY <1>8 DEF E, r
<1> QED
  BY <1>4, <1>5, <1>6, <1>9, <1>10

\* The root agent handles its socket before it passes a message on.
LEMMA PassesOn ==
  ASSUME KernelTypes, AgentTypes, QueueTypes, OneDel, Shape, Links, Pending,
         NEW n \in NetNs, from_netns(n), NEW i \in Indices
  PROVE  HandledAt(Root, <<>>, i, ~IsAnswer(Head(pipe[n])))
<1> DEFINE r == HandleNetlink(Root, nl[Root])
           q == <<>>
<1>1. nl[Root] \o q = nl[Root] /\ Root \in Spaces
  BY NoticesAreLinks, SpacesFacts DEF KernelTypes
<1>2. q \in Seq(LinkMessages) /\ \A k \in DOMAIN q : q[k].type # "DELLINK"
  OBVIOUS
<1>3. known'[Root] = r.known
  BY <1>1 DEF from_netns, AgentTypes
<1>4. Grows(Root, r.events, i, ~IsAnswer(Head(pipe[n])))
  BY PassesAny
<1>5. r = HandleNetlink(Root, nl[Root] \o q)
  BY <1>1
<1> HIDE DEF r, q
<1>6. HandledAt(Root, q, i, ~IsAnswer(Head(pipe[n])))
  BY <1>1, <1>2, <1>3, <1>4, <1>5, GrowsHandled
<1> QED
  BY <1>6 DEF q

\* Nothing changes about the stream of m and what its agent knows.
Untouched(m, i) ==
  /\ known'[m] = known[m]
  /\ Going(m, i)' <=> Going(m, i)
  /\ Coming(m, i)' <=> Coming(m, i)
  /\ InOrder(Stream(m), m, i) => InOrder(Stream(m), m, i)'

\* Agent n handles what is in its socket, and q.
AgentHandles(n, q) ==
  /\ \A i \in Indices : \E b : HandledAt(n, q, i, b)
  /\ \A m \in Spaces, i \in Indices : m # n => Untouched(m, i)
  /\ nl' = [nl EXCEPT ![n] = <<>>]
\* q tells of devices of the namespace, and of all of them if the agent is new
Truthful(n, q) ==
  /\ \A i \in Indices : ~Makes(q, i) /\ (TellsQ(q, i) => i \in At(where, n))
  /\ n \in managed \/ \A i \in At(where, n) : TellsQ(q, i)

\* A move from index i that has not been noticed.
Awaited(n, i) == \E d \in MovedFrom(n, i) : moved[d].new = NoIdx

\* The commands under way are the same; the devices of n may be its answer.
SameCommand(n) ==
  /\ call'.op = call.op /\ call'.d = call.d
  /\ \A m \in Spaces, i \in Indices :
       /\ Taken(m, i)' => Taken(m, i)
       /\ Creating(m, i)' <=> Creating(m, i)
       /\ Clears(m, i)' => Clears(m, i) \/ (m = n /\ i \in At(where, n))

\* A socket that has been read is empty; the others are as they were.
LEMMA EmptySocket ==
  ASSUME KernelTypes, NEW n \in Spaces, nl' = [nl EXCEPT ![n] = <<>>]
  PROVE  /\ \A i : ~New(n, i)' /\ ~Dropping(n, i)'
         /\ \A m \in Spaces, i \in Indices : m # n => (New(m, i)' <=> New(m, i)) /\ (Dropping(m, i)' <=> Dropping(m, i))
         /\ nl' \in [Spaces -> Seq(Notices)]
         /\ \A m \in Spaces : nl'[m] = <<>> \/ nl'[m] = nl[m]
<1>1. nl'[n] = <<>> /\ \A m \in Spaces : m # n => nl'[m] = nl[m]
  BY DEF KernelTypes
<1>2. nl' \in [Spaces -> Seq(Notices)]
  BY DEF KernelTypes
<1> QED
  BY <1>1, <1>2 DEF New, Dropping, Drop1

\* An agent that has handled its socket, and told the truth of its links, knows them.
LEMMA AgentLinks ==
  ASSUME KernelTypes, AgentTypes, OneDel, Links, Pending, NEW n \in Spaces, NEW q,
         AgentHandles(n, q), Truthful(n, q), where' = where, managed' \subseteq managed \union {n},
         faults' = faults, pc' = pc,
         NEW m \in Spaces, NEW i \in Indices
  PROVE  /\ m = n => ~New(n, i)' /\ ~Dropping(n, i)' /\ (i \in At(where, n) => i \in known'[n])
         /\ New(m, i)' => i \in At(where, m)'
         /\ Dropping(m, i)' => i \in known'[m] /\ ~Going(m, i)' /\ ~Coming(m, i)'
         /\ m \in managed' /\ i \in At(where, m)' => New(m, i)' \/ (i \in known'[m] /\ ~Dropping(m, i)')
         /\ "overflow" \notin faults' /\ i \in known'[m] /\ ~Dropping(m, i)' => i \in At(where, m)'
         /\ Coming(m, i)' => Settled(m, i)'
         /\ Going(m, i)' => ~Early'
<1>1. At(where, m)' = At(where, m) /\ (Early' <=> Early)
  BY DEF At, Early
<1>2. /\ New(m, i) => i \in At(where, m)
      /\ Dropping(m, i) => i \in known[m] /\ ~Going(m, i) /\ ~Coming(m, i)
      /\ m \in managed /\ i \in At(where, m) => New(m, i) \/ (i \in known[m] /\ ~Dropping(m, i))
      /\ "overflow" \notin faults /\ i \in known[m] /\ ~Dropping(m, i) => i \in At(where, m)
  BY DEF Links
<1>3. /\ Coming(m, i) => Settled(m, i)
      /\ Going(m, i) => ~Early
  BY DEF Pending
<1>4. CASE m = n
  <2>1. ~New(n, i)' /\ ~Dropping(n, i)'
    BY EmptySocket DEF AgentHandles
  <2>2. PICK b : HandledAt(n, q, i, b)
    BY DEF AgentHandles
  <2>3. TellsQ(q, i) => i \in At(where, n)
    BY DEF Truthful
  <2>4. n \in managed \/ (i \in At(where, n) => TellsQ(q, i))
    BY DEF Truthful
  <2>5. /\ i \in known'[n] <=> New(n, i) \/ TellsQ(q, i) \/ (i \in known[n] /\ ~Dropping(n, i))
        /\ Going(n, i)' <=> Going(n, i) \/ Dropping(n, i)
        /\ Coming(n, i)' => Coming(n, i) \/ New(n, i) \/ TellsQ(q, i)
    BY <2>2 DEF HandledAt
  <2>6. Dropping(n, i) => ~Early
    <3>1. nl[n] # <<>> => 1 \in DOMAIN nl[n]
      BY DEF KernelTypes
    <3> QED
      BY <3>1 DEF Dropping, Drop1, OneDel
  <2>7. Settled(n, i)' <=> i \in At(where, n)' /\ i \in known'[n] /\ ~Dropping(n, i)'
    BY DEF Settled
  <2> HIDE DEF Early, Settled, At
  <2> QED
    BY <1>1, <1>2, <1>3, <1>4, <2>1, <2>3, <2>4, <2>5, <2>6, <2>7 DEF Settled
<1>5. CASE m # n
  <2>1. (New(m, i)' <=> New(m, i)) /\ (Dropping(m, i)' <=> Dropping(m, i))
    BY <1>5, EmptySocket DEF AgentHandles
  <2>2. Untouched(m, i)
    BY <1>5 DEF AgentHandles
  <2> QED
    BY <1>1, <1>2, <1>3, <1>5, <2>1, <2>2 DEF Settled, Untouched
<1> QED
  BY <1>4, <1>5

\* The part of the invariant that an agent's handling of its socket keeps.
LEMMA AgentLive ==
  ASSUME KernelTypes, AgentTypes, OneDel, Shape, Links, Pending, InHand, Chain, NEW n \in Spaces, NEW q,
         AgentHandles(n, q), Truthful(n, q), where' = where, managed' \subseteq managed \union {n},
         faults' = faults, pc' = pc, db' = db, moved' = moved, SameCommand(n)
  PROVE  OneDel' /\ Shape' /\ Links' /\ Pending' /\ InHand' /\ Chain'
<1>1. OneDel'
  <2>1. \A m \in Spaces : nl'[m] = <<>> \/ nl'[m] = nl[m]
    BY EmptySocket DEF AgentHandles
  <2>2. DropFirst(<<>>) /\ \A k \in DOMAIN <<>> : <<>>[k].type # "DELLINK"
    BY DEF DropFirst
  <2> SUFFICES ASSUME NEW m \in Spaces
               PROVE  DropFirst(nl'[m]) /\ (Early => \A k \in DOMAIN nl'[m] : nl'[m][k].type # "DELLINK")
    BY DEF OneDel, Early
  <2> QED
    BY <2>1, <2>2 DEF OneDel
<1>2. Shape'
  <2> SUFFICES ASSUME NEW m \in Spaces, NEW i \in Indices PROVE InOrder(Stream(m), m, i)'
    BY DEF Shape
  <2>1. InOrder(Stream(m), m, i)
    BY DEF Shape
  <2>2. CASE m = n
    BY <2>2 DEF AgentHandles, HandledAt
  <2>3. CASE m # n
    BY <2>1, <2>3 DEF AgentHandles, Untouched
  <2> QED
    BY <2>2, <2>3
<1>3. Links'
  BY AgentLinks DEF Links
<1>4. ASSUME NEW m \in Spaces, NEW i \in Indices
      PROVE  /\ Going(m, i)' /\ ~Coming(m, i)' => i \notin known'[m] \/ Creating(m, i)'
             /\ Taken(m, i)' => Settled(m, i)' /\ ~Going(m, i)' /\ ~Coming(m, i)'
             /\ Clears(m, i)' => Settled(m, i)'
             /\ Creating(m, i)' => ~Coming(m, i)' /\ ~Taken(m, i)' /\ where[call.d] = <<m, i>>
             /\ "raise" \notin faults =>
                  /\ db[m][i] # Nobody /\ ~Going(m, i)' /\ ~Coming(m, i)' => i \in known'[m]
                  /\ i \in known'[m] /\ ~Coming(m, i)' =>
                       \/ db[m][i] # Nobody \/ Creating(m, i)'
                       \/ Awaited(m, i)
  <2>1. /\ Taken(m, i)' => Taken(m, i)
        /\ Creating(m, i)' <=> Creating(m, i)
        /\ Clears(m, i)' => Clears(m, i) \/ (m = n /\ i \in At(where, n))
    BY DEF SameCommand
  <2>2. /\ Taken(m, i) => Settled(m, i) /\ ~Going(m, i) /\ ~Coming(m, i)
        /\ Clears(m, i) => Settled(m, i)
        /\ Creating(m, i) => ~Coming(m, i) /\ ~Taken(m, i) /\ where[call.d] = <<m, i>>
    BY DEF InHand
  <2>3. /\ Going(m, i) /\ ~Coming(m, i) => i \notin known[m] \/ Creating(m, i)
        /\ Dropping(m, i) => i \in known[m] /\ ~Going(m, i) /\ ~Coming(m, i)
    BY DEF Pending, Links
  <2>4. "raise" \notin faults =>
          /\ db[m][i] # Nobody /\ ~Going(m, i) /\ ~Coming(m, i) => i \in known[m]
          /\ i \in known[m] /\ ~Coming(m, i) =>
               db[m][i] # Nobody \/ Creating(m, i) \/ Awaited(m, i)
    BY DEF Chain, Awaited
  <2>5. At(where, m)' = At(where, m)
    BY DEF At
  <2>6. CASE m = n
    <3>1. ~Dropping(n, i)' /\ (i \in At(where, n) => i \in known'[n])
      BY AgentLinks
    <3>2. PICK b : HandledAt(n, q, i, b)
      BY DEF AgentHandles
    <3>3. ~Makes(q, i)
      BY DEF Truthful
    <3>4. /\ i \in known[n] /\ ~Dropping(n, i) => i \in known'[n]
          /\ Going(n, i)' <=> Going(n, i) \/ Dropping(n, i)
          /\ Coming(n, i) => Coming(n, i)'
          /\ Coming(n, i)' => Coming(n, i) \/ i \notin known[n] \/ Dropping(n, i)
          /\ i \in known'[n] /\ ~Coming(n, i)' => i \in known[n] /\ ~Dropping(n, i)
      BY <3>2, <3>3 DEF HandledAt
    <3>5. /\ Settled(n, i) => i \in At(where, n) /\ i \in known[n] /\ ~Dropping(n, i)
          /\ i \in At(where, n) => Settled(n, i)'
      BY <2>5, <2>6, <3>1 DEF Settled
    <3>6. Taken(m, i)' => Settled(m, i)' /\ ~Going(m, i)' /\ ~Coming(m, i)'
      BY <2>1, <2>2, <2>3, <2>6, <3>4, <3>5
    <3>7. Clears(m, i)' => Settled(m, i)'
      BY <2>1, <2>2, <2>6, <3>5
    <3>8. Creating(m, i)' => ~Coming(m, i)' /\ ~Taken(m, i)' /\ where[call.d] = <<m, i>>
      <4>1. Creating(m, i) => Clears(m, i)
        BY DEF Creating
      <4> QED
        BY <2>1, <2>2, <2>6, <3>4, <3>5, <4>1
    <3>9. Going(m, i)' /\ ~Coming(m, i)' => i \notin known'[m] \/ Creating(m, i)'
      BY <2>1, <2>3, <2>6, <3>4
    <3>10. "raise" \notin faults =>
             /\ db[m][i] # Nobody /\ ~Going(m, i)' /\ ~Coming(m, i)' => i \in known'[m]
             /\ i \in known'[m] /\ ~Coming(m, i)' => db[m][i] # Nobody \/ Creating(m, i)' \/ Awaited(m, i)
      BY <2>1, <2>3, <2>4, <2>6, <3>4
    <3> QED
      BY <3>6, <3>7, <3>8, <3>9, <3>10
  <2>7. CASE m # n
    <3>1. Dropping(m, i)' <=> Dropping(m, i)
      BY <2>7, EmptySocket DEF AgentHandles
    <3>2. Untouched(m, i)
      BY <2>7 DEF AgentHandles
    <3>3. Settled(m, i)' <=> Settled(m, i)
      BY <2>5, <3>1, <3>2 DEF Settled, Untouched
    <3> QED
      BY <2>1, <2>2, <2>3, <2>4, <2>7, <3>2, <3>3 DEF Untouched
  <2> QED
    BY <2>6, <2>7
<1>5. Pending'
  BY <1>4, AgentLinks DEF Pending
<1>6. InHand'
  BY <1>4 DEF InHand, SameCommand
<1>7. Chain'
  BY <1>4 DEF Chain, MovedFrom, Awaited
<1> QED
  BY <1>1, <1>2, <1>3, <1>5, <1>6, <1>7

-----------------------------------------------------------------------------
(* What the steps of the agents have in common *)

\* A command is with an agent.
Waiting == call.op # "none" /\ call.at \in {"sent", "linked"}

\* Only an answered call has an answer on its way.
LEMMA NoAnswerYet ==
  ASSUME OneAnswer, call.at # "answered"
  PROVE  ~Answered1(toCtl) /\ \A m \in NetNs : ~Answered1(pipe[m])
BY DEF OneAnswer

\* The types of what an agent keeps and sends.
LEMMA HandlesTypesOk ==
  ASSUME KernelTypes, AgentTypes, QueueTypes,
         NEW n \in Spaces, NEW q \in Seq(LinkMessages), Plain(q),
         NEW after \in {<<>>, Result, Exception}, Handles(n, q, after),
         batch' = batch, managed' \subseteq Spaces
  PROVE  AgentTypes' /\ QueueTypes'
<1>1. /\ known' \in [Spaces -> SUBSET Indices]
      /\ toCtl' \in Seq(Messages) /\ Len(toCtl') >= Len(toCtl)
      /\ pipe' \in [NetNs -> Seq(Messages)]
      /\ \A m \in NetNs : \A k \in DOMAIN pipe'[m] : pipe'[m][k] \in Events => pipe'[m][k].ns = m
  BY HandlesAny
<1> QED
  BY <1>1 DEF AgentTypes, QueueTypes

\* An agent handles messages, between two commands or for a command.
LEMMA HandlesWorks ==
  ASSUME KernelTypes, AgentTypes, QueueTypes, OneAnswer, Exceptions,
         NEW n \in Spaces, NEW q \in Seq(LinkMessages), Plain(q),
         NEW after \in {<<>>, Result, Exception}, Handles(n, q, after),
         faults' = faults,
         \/ after = <<>> /\ call' = call
         \/ /\ Waiting /\ call.ns = n /\ call'.op = call.op /\ call'.dst = call.dst /\ call'.ns = call.ns
            /\ after # <<>> => call'.at = "answered",
         after = Exception => /\ "raise" \in faults
                              /\ call.op = "destroy" \/ (call.op = "set_dev_netns" /\ call.dst = Root)
  PROVE  OneAnswer' /\ Exceptions'
<1>1. /\ after = <<>> => /\ Answered1(toCtl') <=> Answered1(toCtl)
                         /\ \A m \in NetNs : Answered1(pipe'[m]) <=> Answered1(pipe[m])
                         /\ \A m \in Spaces : Lone(Stream(m)) => Lone(Stream(m)')
      /\ ~Answered1(toCtl) /\ (\A m \in NetNs : ~Answered1(pipe[m])) =>
           /\ \A m \in NetNs : Answered1(pipe'[m]) => m = n
           /\ \A m \in Spaces : Lone(Stream(m)')
      /\ \A m \in Sent' :
           \/ m \in Sent
           \/ m \in Events
           \/ after = Result /\ m = Answer("result")
           \/ after = Exception /\ m = Answer("exception")
  BY HandlesAny
<1>4. OneAnswer'
  <2>1. CASE after = <<>> /\ call' = call
    BY <1>1, <2>1 DEF OneAnswer
  <2>2. CASE /\ Waiting /\ call'.ns = n
             /\ after # <<>> => call'.at = "answered"
    <3>1. ~Answered1(toCtl) /\ \A m \in NetNs : ~Answered1(pipe[m])
      BY <2>2, NoAnswerYet DEF Waiting
    <3> QED
      BY <1>1, <2>2, <3>1 DEF OneAnswer
  <2> QED
    BY <2>1, <2>2
<1>5. Exceptions'
  <2> SUFFICES ASSUME NEW m \in Sent', m.type = "exception"
               PROVE  /\ "raise" \in faults
                      /\ call'.op = "destroy" \/ (call'.op = "set_dev_netns" /\ call'.dst = Root)
    BY DEF Exceptions
  <2>1. m \notin Events
    BY DEF Events, EventTypes
  <2>2. m # Answer("result")
    BY DEF Answer, Message
  <2>3. m \in Sent \/ after = Exception
    BY <1>1, <2>1, <2>2
  <2>4. call'.op = call.op /\ call'.dst = call.dst
    OBVIOUS
  <2> QED
    BY <2>3, <2>4 DEF Exceptions
<1> QED
  BY <1>4, <1>5

\* What is said of moves is what was said, or waited to be said.
LEMMA OwnMoveKept ==
  ASSUME OwnMove, faults' = faults,
         \A m \in Sent' : m.type = "dev_netns_changed" =>
           \/ m \in Sent
           \/ \E n \in Spaces : \E l \in DOMAIN nl[n] : m.ns = n /\ nl[n][l].idx = m.idx
                                                        /\ nl[n][l].new = m.new /\ m.new # NoIdx,
         \A n \in Spaces : \A k \in DOMAIN nl'[n] : nl'[n][k].new # NoIdx =>
           \E l \in DOMAIN nl[n] : nl'[n][k] = nl[n][l],
         \A n, i, j : MovesTo(n, i, j) => MovesTo(n, i, j)'
  PROVE  OwnMove'
<1> SUFFICES ASSUME "timeout" \notin faults
             PROVE  /\ \A m \in Sent' : m.type = "dev_netns_changed" => MovesTo(m.ns, m.idx, m.new)'
                    /\ \A n \in Spaces : \A k \in DOMAIN nl'[n] :
                         nl'[n][k].new # NoIdx => MovesTo(n, nl[n][k].idx, nl[n][k].new)'
  BY DEF OwnMove
<1>1. ASSUME NEW m \in Sent', m.type = "dev_netns_changed" PROVE MovesTo(m.ns, m.idx, m.new)
  BY <1>1 DEF OwnMove
<1>2. ASSUME NEW n \in Spaces, NEW k \in DOMAIN nl'[n], nl'[n][k].new # NoIdx
      PROVE  MovesTo(n, nl'[n][k].idx, nl'[n][k].new)
  BY <1>2 DEF OwnMove
<1>3. ASSUME NEW m \in Sent', m.type = "dev_netns_changed" PROVE MovesTo(m.ns, m.idx, m.new)'
  BY <1>1, <1>3
<1>4. ASSUME NEW n \in Spaces, NEW k \in DOMAIN nl'[n], nl'[n][k].new # NoIdx
      PROVE  MovesTo(n, nl[n][k].idx, nl[n][k].new)'
  BY <1>2, <1>4
<1> QED
  BY <1>3, <1>4

\* No messages say nothing.
LEMMA NothingMore ==
  /\ <<>> \in Seq(LinkMessages) /\ Plain(<<>>) /\ \A k \in DOMAIN <<>> : <<>>[k].type # "DELLINK"
  /\ \A i : ~TellsQ(<<>>, i) /\ ~Makes(<<>>, i)
BY DEF Plain, TellsQ, Makes

\* What the controller has, when its variables do not change.
LEMMA ControllerWaits ==
  ASSUME UNCHANGED <<call, ctlVars, faults>>
  PROVE  /\ CtlTypes' <=> CtlTypes
         /\ OnlyStaleEventsFail' <=> OnlyStaleEventsFail
         /\ Objects' <=> Objects
         /\ OpObjects' <=> OpObjects
         /\ Live' <=> Live
         /\ Early' <=> Early
<1>1. \A d : Usable(d)' <=> Usable(d)
  BY DEF Usable, ctlVars
<1>2. Commanded("set_dev_netns")' <=> Commanded("set_dev_netns")
  BY DEF Commanded
<1> QED
  BY <1>1, <1>2 DEF ctlVars, CtlTypes, OnlyStaleEventsFail, Objects, OpObjects, Live, Early

\* What depends on the call and the objects of the controller only.
LEMMA SameCalls ==
  ASSUME UNCHANGED <<call, ctlVars>>, batch' = batch
  PROVE  /\ \A m, i : (Taken(m, i)' <=> Taken(m, i)) /\ (Clears(m, i)' <=> Clears(m, i))
                      /\ (Creating(m, i)' <=> Creating(m, i)) /\ (Holds(m, i)' <=> Holds(m, i))
         /\ \A op : Commanded(op)' <=> Commanded(op)
         /\ \A d : Usable(d)' <=> Usable(d)
         /\ CallOps' <=> CallOps
BY DEF ctlVars, Taken, Clears, Creating, Holds, Usable, Commanded, CallOps

LEMMA agent_polls_Inv ==
  ASSUME DeviceInv, NEW n \in Spaces, agent_polls(n)
  PROVE  DeviceInv'
<1>1. /\ KernelTypes /\ AgentTypes /\ QueueTypes /\ CtlTypes /\ CallOps /\ OnlyStaleEventsFail
      /\ pc # "failed" => Stage /\ OneAnswer /\ Exceptions /\ Unmanaged /\ Cleared /\ OwnMove
      /\ Live => /\ OneDel /\ Shape /\ Links /\ Pending /\ InHand
                 /\ OpInHand /\ Objects /\ OpObjects /\ Chain /\ TrueHandles
  BY DEF DeviceInv, Types, Working, LiveInv
<1>2. /\ n \in managed /\ Handles(n, <<>>, <<>>) /\ nl' = [nl EXCEPT ![n] = <<>>]
      /\ where' = where /\ dying' = dying /\ managed' = managed /\ batch' = batch
      /\ UNCHANGED <<call, ctlVars, faults>> /\ UNCHANGED <<call, ctlVars>> /\ call' = call /\ faults' = faults
  BY DEF agent_polls, kernelVars
<1> DEFINE e == <<>>
<1>3. /\ e \in Seq(LinkMessages) /\ Plain(e) /\ \A k \in DOMAIN e : e[k].type # "DELLINK"
      /\ \A i : ~TellsQ(e, i) /\ ~Makes(e, i)
      /\ e \in {<<>>, Result, Exception} /\ Handles(n, e, e) /\ e = <<>> /\ e # Exception /\ e # Result
  BY <1>2, NothingMore DEF Exception, Result
<1> HIDE DEF e
<1>4. Types' /\ OnlyStaleEventsFail'
  <2>1. KernelTypes'
    BY <1>1, <1>2, EmptySocket DEF KernelTypes
  <2>2. AgentTypes' /\ QueueTypes'
    BY <1>1, <1>2, <1>3, HandlesTypesOk DEF AgentTypes
  <2> QED
    BY <1>1, <1>2, <2>1, <2>2, ControllerWaits, SameCalls DEF Types
<1>5. /\ \A m \in Spaces : m # n => known'[m] = known[m]
      /\ \A m \in NetNs : m # n => pipe'[m] = pipe[m]
      /\ \A m \in Sent' :
           \/ m \in Sent
           \/ m.type = "dev_netns_changed" =>
                \E l \in DOMAIN nl[n] : m.ns = n /\ nl[n][l].idx = m.idx /\ nl[n][l].new = m.new /\ m.new # NoIdx
      /\ \A m \in Spaces, i \in Indices : m # n =>
           /\ Going(m, i)' <=> Going(m, i)
           /\ Coming(m, i)' <=> Coming(m, i)
           /\ InOrder(Stream(m), m, i) => InOrder(Stream(m), m, i)'
           /\ Behind(Stream(m), m, i) => Behind(Stream(m), m, i)'
  <2>1. \A m \in Sent' : (m # Answer("result") /\ m # Answer("exception")) \/ m.type # "dev_netns_changed"
    BY DEF Answer, Message
  <2> QED
    BY <1>1, <1>3, <2>1, HandlesAny
<1>6. Live => \A i \in Indices : HandledAt(n, e, i, TRUE)
  BY <1>1, <1>3, HandlesOn
<1>7. ASSUME pc # "failed" PROVE Working'
  <2>1. Stage'
    BY <1>1, <1>2, <1>7, SameCalls DEF Stage, ctlVars
  <2>2. OneAnswer' /\ Exceptions'
    BY <1>1, <1>2, <1>3, <1>7, HandlesWorks
  <2>3. ~(call.op = "prepare" /\ call.at # "sent")
    BY <1>1, <1>2, <1>7 DEF Stage
  <2>4. Unmanaged'
    <3>1. \A m \in Spaces \ managed : known'[m] = known[m] /\ nl'[m] = nl[m] /\ At(where, m)' = At(where, m)
      BY <1>1, <1>2, <1>5 DEF KernelTypes, At
    <3>2. \A m \in NetNs \ managed : pipe'[m] = pipe[m]
      BY <1>2, <1>5
    <3>3. \A m \in NetNs \ managed, i \in Indices : (Going(m, i)' <=> Going(m, i)) /\ (Coming(m, i)' <=> Coming(m, i))
      BY <1>2, <1>5, SpacesFacts
    <3> QED
      BY <1>1, <1>2, <1>7, <2>3, <3>1, <3>2, <3>3, SpacesFacts DEF Unmanaged
  <2>5. Cleared'
    <3> SUFFICES ASSUME NEW m \in Spaces, NEW i \in Indices, Clears(m, i)
                 PROVE  /\ call.at = "done" => ~Going(m, i)' /\ ~Coming(m, i)'
                        /\ call.at = "answered" => Behind(Stream(m), m, i)'
      BY <1>2, SameCalls DEF Cleared
    <3>1. /\ call.at = "done" => ~Going(m, i) /\ ~Coming(m, i)
          /\ call.at = "answered" => Behind(Stream(m), m, i)
      BY <1>1, <1>7 DEF Cleared
    <3>2. CASE m # n
      BY <1>5, <3>1, <3>2
    <3>3. CASE m = n
      <4>1. call.op \in {"create", "get"}
        BY <1>1, <1>2, <1>7, <2>3, <3>3 DEF Clears, Stage, CallOps
      <4>2. Live
        BY <1>1, <1>7, <4>1 DEF CallOps, Stage, Live
      <4>3. i \in known[n] /\ ~Dropping(n, i)
        BY <1>1, <3>3, <4>2 DEF InHand, Settled
      <4> QED
        BY <1>3, <1>6, <3>1, <3>3, <4>2, <4>3 DEF HandledAt
    <3> QED
      BY <3>2, <3>3
  <2>6. OwnMove'
    <3>1. \A m \in Spaces : \A k \in DOMAIN nl'[m] : nl'[m][k].new # NoIdx => \E l \in DOMAIN nl[m] : nl'[m][k] = nl[m][l]
      BY <1>1, <1>2, EmptySocket
    <3>2. \A m, i, j : MovesTo(m, i, j) => MovesTo(m, i, j)'
      BY <1>2 DEF MovesTo, ctlVars
    <3> QED
      BY <1>1, <1>2, <1>5, <1>7, <3>1, <3>2, OwnMoveKept
  <2> QED
    BY <2>1, <2>2, <2>4, <2>5, <2>6 DEF Working
<1>8. ASSUME Live PROVE LiveInv'
  <2>1. AgentHandles(n, e) /\ Truthful(n, e)
    BY <1>2, <1>3, <1>5, <1>6, <1>8 DEF AgentHandles, Truthful, Untouched
  <2>2. SameCommand(n)
    BY <1>2, SameCalls DEF SameCommand
  <2>3. OneDel' /\ Shape' /\ Links' /\ Pending' /\ InHand' /\ Chain'
    BY <1>1, <1>2, <1>8, <2>1, <2>2, AgentLive DEF ctlVars
  <2>4. OpInHand' /\ TrueHandles'
    BY <1>1, <1>2, <1>8, SameCalls DEF OpInHand, TrueHandles, TrueMove, Own, ctlVars
  <2>5. Objects' /\ OpObjects'
    BY <1>1, <1>2, <1>8, ControllerWaits
  <2> QED
    BY <2>3, <2>4, <2>5 DEF LiveInv
<1>9. (pc' = pc) /\ (Live' <=> Live)
  BY <1>2, ControllerWaits DEF ctlVars
<1> QED
  BY <1>4, <1>7, <1>8, <1>9 DEF DeviceInv

LEMMA from_netns_Inv ==
  ASSUME DeviceInv, NEW n \in NetNs, from_netns(n)
  PROVE  DeviceInv'
<1>1. /\ KernelTypes /\ AgentTypes /\ QueueTypes /\ CtlTypes /\ CallOps /\ OnlyStaleEventsFail
      /\ pc # "failed" => Stage /\ OneAnswer /\ Exceptions /\ Unmanaged /\ Cleared /\ OwnMove
      /\ Live => /\ OneDel /\ Shape /\ Links /\ Pending /\ InHand
                 /\ OpInHand /\ Objects /\ OpObjects /\ Chain /\ TrueHandles
  BY DEF DeviceInv, Types, Working, LiveInv
<1>2. /\ pipe[n] # <<>> /\ nl' = [nl EXCEPT ![Root] = <<>>]
      /\ where' = where /\ dying' = dying /\ managed' = managed /\ batch' = batch
      /\ UNCHANGED <<call, ctlVars, faults>> /\ UNCHANGED <<call, ctlVars>> /\ call' = call /\ faults' = faults
  BY DEF from_netns, kernelVars
<1>3. Root \in Spaces /\ n \in Spaces /\ n # Root /\ Pipe(n) = pipe[n]
  BY SpacesFacts DEF Pipe
<1> DEFINE ans == IsAnswer(Head(pipe[n]))
<1>4. /\ known' \in [Spaces -> SUBSET Indices] /\ \A m \in Spaces : m # Root => known'[m] = known[m]
      /\ toCtl' \in Seq(Messages) /\ Len(toCtl') >= Len(toCtl)
      /\ pipe' \in [NetNs -> Seq(Messages)] /\ \A m \in NetNs : m # n => pipe'[m] = pipe[m]
      /\ \A m \in NetNs : \A k \in DOMAIN pipe'[m] : pipe'[m][k] \in Events => pipe'[m][k].ns = m
      /\ Answered1(toCtl') => Answered1(toCtl) \/ ans
      /\ ans => Answered1(pipe[n])
      /\ \A m \in NetNs : Answered1(pipe'[m]) => Answered1(pipe[m])
      /\ \A m \in Spaces : /\ Lone(Stream(m)) /\ Lone(Stream(n))
                           /\ ans /\ m # n => ~Answered1(Pipe(m))
                           => Lone(Stream(m)')
      /\ \A m \in Sent' :
           \/ m \in Sent
           \/ /\ m \in Events
              /\ m.type = "dev_netns_changed" =>
                   \E l \in DOMAIN nl[Root] : m.ns = Root /\ nl[Root][l].idx = m.idx
                                              /\ nl[Root][l].new = m.new /\ m.new # NoIdx
      /\ \A m \in Spaces, i \in Indices : m # Root =>
           /\ Going(m, i)' <=> Going(m, i)
           /\ Coming(m, i)' <=> Coming(m, i)
           /\ InOrder(Stream(m), m, i) => InOrder(Stream(m), m, i)'
           /\ Behind(Stream(m), m, i) /\ (ans => m = n)
                => Behind(Stream(m), m, i)'
  BY <1>1, PassesAny
<1>5. Live => \A i \in Indices : HandledAt(Root, <<>>, i, ~ans)
  BY <1>1, PassesOn
<1> HIDE DEF ans
<1>6. Types' /\ OnlyStaleEventsFail'
  <2>1. KernelTypes'
    BY <1>1, <1>2, <1>3, EmptySocket DEF KernelTypes
  <2>2. AgentTypes'
    BY <1>1, <1>2, <1>4 DEF AgentTypes
  <2>3. QueueTypes'
    BY <1>1, <1>2, <1>4 DEF QueueTypes
  <2> QED
    BY <1>1, <1>2, <2>1, <2>2, <2>3, ControllerWaits, SameCalls DEF Types
<1>7. pc # "failed" => n \in managed /\ Root \in managed /\ pc \in {"netns", "test", "cleanup"}
  <2> SUFFICES ASSUME pc # "failed" PROVE n \in managed /\ Root \in managed /\ pc \in {"netns", "test", "cleanup"}
    OBVIOUS
  <2>1. n \in managed
    BY <1>1, <1>2 DEF Unmanaged
  <2>2. pc \in {"netns", "test", "cleanup"}
    BY <1>1, <1>3, <2>1 DEF Stage, CtlTypes
  <2> QED
    BY <1>1, <1>3, <2>1, <2>2 DEF Stage, CallOps
<1>8. ASSUME pc # "failed" PROVE Working'
  <2>1. Stage'
    BY <1>1, <1>2, <1>8, SameCalls DEF Stage, ctlVars
  <2>2. OneAnswer'
    <3>1. ans => call.at = "answered" /\ call.ns = n
      BY <1>1, <1>4, <1>8 DEF OneAnswer
    <3>2. \A m \in Spaces : ans /\ m # n => ~Answered1(Pipe(m))
      BY <1>1, <1>8, <3>1, Empty DEF OneAnswer, Pipe
    <3> QED
      BY <1>1, <1>2, <1>3, <1>4, <1>8, <3>1, <3>2 DEF OneAnswer
  <2>3. Exceptions'
    <3>1. \A m \in Events : m.type # "exception"
      BY DEF Events, EventTypes
    <3> QED
      BY <1>1, <1>2, <1>4, <1>8, <3>1 DEF Exceptions
  <2>4. ~(call.op = "prepare" /\ call.at # "sent")
    BY <1>1, <1>7, <1>8 DEF Stage
  <2>5. Unmanaged'
    <3>1. \A m \in Spaces \ managed : known'[m] = known[m] /\ nl'[m] = nl[m] /\ At(where, m)' = At(where, m)
      BY <1>1, <1>2, <1>4, <1>7, <1>8 DEF KernelTypes, At
    <3>2. \A m \in NetNs \ managed : pipe'[m] = pipe[m]
      BY <1>2, <1>4, <1>7, <1>8
    <3>3. \A m \in NetNs \ managed, i \in Indices : (Going(m, i)' <=> Going(m, i)) /\ (Coming(m, i)' <=> Coming(m, i))
      BY <1>4, SpacesFacts
    <3> QED
      BY <1>1, <1>2, <1>8, <2>4, <3>1, <3>2, <3>3, SpacesFacts DEF Unmanaged
  <2>6. Cleared'
    <3> SUFFICES ASSUME NEW m \in Spaces, NEW i \in Indices, Clears(m, i)
                 PROVE  /\ call.at = "done" => ~Going(m, i)' /\ ~Coming(m, i)'
                        /\ call.at = "answered" => Behind(Stream(m), m, i)'
      BY <1>2, SameCalls DEF Cleared
    <3>1. /\ call.at = "done" => ~Going(m, i) /\ ~Coming(m, i)
          /\ call.at = "answered" => Behind(Stream(m), m, i)
      BY <1>1, <1>8 DEF Cleared
    <3>2. ans => call.ns = n
      BY <1>1, <1>4, <1>8 DEF OneAnswer
    <3>3. \/ call.op \in {"create", "get"} /\ call.ns = m
          \/ call.op = "del_namespace" /\ call.ns = Root /\ m # Root
      <4>1. call.op = "del_namespace" => call.ns = Root /\ call.dst # Root
        BY <1>1, SpacesFacts DEF CallOps
      <4> QED
        BY <2>4, <4>1 DEF Clears
    <3>4. CASE m # Root
      BY <1>3, <1>4, <3>1, <3>2, <3>3, <3>4
    <3>5. CASE m = Root
      <4>1. Live
        BY <1>1, <1>8, <3>3, <3>5 DEF CallOps, Stage, Live
      <4>2. i \in known[Root] /\ ~Dropping(Root, i)
        BY <1>1, <3>5, <4>1 DEF InHand, Settled
      <4>3. ~ans
        BY <1>3, <3>2, <3>3, <3>5
      <4>4. ~TellsQ(<<>>, i)
        BY NothingMore
      <4> QED
        BY <1>5, <3>1, <3>5, <4>1, <4>2, <4>3, <4>4 DEF HandledAt
    <3> QED
      BY <3>4, <3>5
  <2>7. OwnMove'
    <3>1. \A m \in Spaces : \A k \in DOMAIN nl'[m] : nl'[m][k].new # NoIdx => \E l \in DOMAIN nl[m] : nl'[m][k] = nl[m][l]
      BY <1>1, <1>2, <1>3, EmptySocket
    <3>2. \A m, i, j : MovesTo(m, i, j) => MovesTo(m, i, j)'
      BY <1>2 DEF MovesTo, ctlVars
    <3> QED
      BY <1>1, <1>2, <1>3, <1>4, <1>8, <3>1, <3>2, OwnMoveKept
  <2> QED
    BY <2>1, <2>2, <2>3, <2>5, <2>6, <2>7 DEF Working
<1>9. ASSUME Live PROVE LiveInv'
  <2> DEFINE e == <<>>
  <2>1. (\A i \in Indices : HandledAt(Root, e, i, ~ans)) /\ \A i : ~TellsQ(e, i) /\ ~Makes(e, i)
    BY <1>5, <1>9, NothingMore
  <2> HIDE DEF e
  <2>2. pc # "failed"
    BY <1>9 DEF Live
  <2>3. AgentHandles(Root, e) /\ Truthful(Root, e)
    BY <1>2, <1>4, <1>7, <2>1, <2>2 DEF AgentHandles, Truthful, Untouched
  <2>4. SameCommand(Root)
    BY <1>2, SameCalls DEF SameCommand
  <2>5. OneDel' /\ Shape' /\ Links' /\ Pending' /\ InHand' /\ Chain'
    BY <1>1, <1>2, <1>3, <1>9, <2>3, <2>4, AgentLive DEF ctlVars
  <2>6. OpInHand' /\ TrueHandles'
    BY <1>1, <1>2, <1>9, SameCalls DEF OpInHand, TrueHandles, TrueMove, Own, ctlVars
  <2>7. Objects' /\ OpObjects'
    BY <1>1, <1>2, <1>9, ControllerWaits
  <2> QED
    BY <2>5, <2>6, <2>7 DEF LiveInv
<1>10. (pc' = pc) /\ (Live' <=> Live)
  BY <1>2, ControllerWaits DEF ctlVars
<1> QED
  BY <1>6, <1>8, <1>9, <1>10 DEF DeviceInv

\* What depends on the messages on their way only.
LEMMA SameStreams ==
  ASSUME toCtl' = toCtl, pipe' = pipe
  PROVE  /\ \A n : Stream(n)' = Stream(n) /\ Pipe(n)' = Pipe(n)
         /\ \A n, i : (Going(n, i)' <=> Going(n, i)) /\ (Coming(n, i)' <=> Coming(n, i))
         /\ \A n, i : (InOrder(Stream(n), n, i)' <=> InOrder(Stream(n), n, i))
                      /\ (Behind(Stream(n), n, i)' <=> Behind(Stream(n), n, i))
         /\ \A n : Lone(Stream(n))' <=> Lone(Stream(n))
         /\ Sent' = Sent
BY DEF Stream, Pipe, Going, Coming, Sent

\* The network notices of an interface that is there.
LEMMA NewlinkIsNotice ==
  \A i \in Indices : /\ NEWLINK(i) \in Notices /\ NEWLINK(i).type = "NEWLINK" /\ NEWLINK(i).idx = i
                     /\ NEWLINK(i).new = NoIdx
BY DEF NEWLINK, Link, Notices, LinkMessages

\* A dump tells of the links there are.
LEMMA DumpNotices ==
  ASSUME NEW w, NEW n
  PROVE  /\ Dump(w, n) \in Seq(Notices)
         /\ \A k \in DOMAIN Dump(w, n) : /\ Dump(w, n)[k].type = "NEWLINK" /\ Dump(w, n)[k].new = NoIdx
                                         /\ Dump(w, n)[k].idx \in At(w, n)
         /\ \A i \in At(w, n) : \E k \in DOMAIN Dump(w, n) : Dump(w, n)[k] = NEWLINK(i)
<1> DEFINE q == Dump(w, n)
<1>1. /\ q \in Seq(LinkMessages)
      /\ \A k \in DOMAIN q : \E i \in At(w, n) : q[k] = NEWLINK(i)
      /\ \A i \in At(w, n) : \E k \in DOMAIN q : q[k] = NEWLINK(i)
  BY DumpIsAll
<1>2. At(w, n) \subseteq Indices
  BY DEF At
<1> HIDE DEF q
<1>3. \A k \in DOMAIN q : q[k] \in Notices /\ q[k].type = "NEWLINK" /\ q[k].new = NoIdx /\ q[k].idx \in At(w, n)
  BY <1>1, <1>2, NewlinkIsNotice
<1>4. q \in Seq(Notices)
  BY <1>1, <1>3
<1> QED
  BY <1>1, <1>3, <1>4 DEF q

\* The arrival of a device at the end of a socket.
LEMMA Appended ==
  ASSUME NEW q \in Seq(Notices), NEW i \in Indices, NEW a, a = Append(q, NEWLINK(i))
  PROVE  /\ a \in Seq(Notices)
         /\ \A k \in DOMAIN q : k \in DOMAIN a /\ a[k] = q[k]
         /\ \A k \in DOMAIN a : (k \in DOMAIN q /\ a[k] = q[k]) \/ a[k] = NEWLINK(i)
         /\ \E k \in DOMAIN a : a[k] = NEWLINK(i)
         /\ \A j : Drop1(a, j) <=> Drop1(q, j)
         /\ DropFirst(q) => DropFirst(a)
<1> DEFINE m == NEWLINK(i)
<1>1. m \in Notices /\ m.type = "NEWLINK"
  BY NewlinkIsNotice
<1>2. a = Append(q, m)
  OBVIOUS
<1> HIDE DEF m
<1>3. /\ a \in Seq(Notices) /\ a # <<>>
      /\ \A k \in DOMAIN q : k \in DOMAIN a /\ a[k] = q[k]
      /\ \A k \in DOMAIN a : (k \in DOMAIN q /\ a[k] = q[k]) \/ a[k] = m
      /\ \E k \in DOMAIN a : a[k] = m
      /\ q = <<>> => a[1] = m
      /\ q # <<>> => a[1] = q[1]
  BY <1>1, <1>2
<1>4. \A j : Drop1(a, j) <=> Drop1(q, j)
  BY <1>1, <1>3 DEF Drop1
<1>5. DropFirst(q) => DropFirst(a)
  BY <1>1, <1>3 DEF DropFirst
<1> QED
  BY <1>3, <1>4, <1>5 DEF m

LEMMA reconnect_netlink_Inv ==
  ASSUME DeviceInv, NEW n \in Spaces, reconnect_netlink(n)
  PROVE  DeviceInv'
<1>1. /\ KernelTypes /\ AgentTypes /\ QueueTypes /\ CtlTypes /\ CallOps /\ OnlyStaleEventsFail
      /\ pc # "failed" => Stage /\ OneAnswer /\ Exceptions /\ Unmanaged /\ Cleared /\ OwnMove
      /\ Live => /\ OneDel /\ Shape /\ Links /\ Pending /\ InHand
                 /\ OpInHand /\ Objects /\ OpObjects /\ Chain /\ TrueHandles
  BY DEF DeviceInv, Types, Working, LiveInv
<1>2. /\ "overflow" \in faults /\ n \in managed /\ nl' = [nl EXCEPT ![n] = Dump(where, n)]
      /\ where' = where /\ dying' = dying /\ known' = known /\ managed' = managed
      /\ pipe' = pipe /\ toCtl' = toCtl /\ batch' = batch
      /\ UNCHANGED <<call, ctlVars, faults>> /\ UNCHANGED <<call, ctlVars>> /\ call' = call /\ faults' = faults
  BY DEF reconnect_netlink, kernelVars
<1>3. nl'[n] = Dump(where, n) /\ \A m \in Spaces : m # n => nl'[m] = nl[m]
  BY <1>1, <1>2 DEF KernelTypes
<1>4. /\ Dump(where, n) \in Seq(Notices)
      /\ \A k \in DOMAIN nl'[n] : /\ nl'[n][k].type = "NEWLINK" /\ nl'[n][k].new = NoIdx
                                  /\ nl'[n][k].idx \in At(where, n)
      /\ \A i \in At(where, n) : \E k \in DOMAIN nl'[n] : nl'[n][k] = NEWLINK(i)
  BY <1>3, DumpNotices
<1>5. /\ \A m, i : (Going(m, i)' <=> Going(m, i)) /\ (Coming(m, i)' <=> Coming(m, i))
      /\ \A m, i : (InOrder(Stream(m), m, i)' <=> InOrder(Stream(m), m, i))
                   /\ (Behind(Stream(m), m, i)' <=> Behind(Stream(m), m, i))
      /\ \A m : Lone(Stream(m))' <=> Lone(Stream(m))
      /\ Sent' = Sent
  BY <1>2, SameStreams
<1>6. \A m : At(where, m)' = At(where, m)
  BY <1>2 DEF At
<1>7. \A m, i : (Clears(m, i)' <=> Clears(m, i)) /\ (Taken(m, i)' <=> Taken(m, i))
                /\ (Creating(m, i)' <=> Creating(m, i))
  BY <1>2, SameCalls
<1>8. Types' /\ OnlyStaleEventsFail'
  <2>1. KernelTypes'
    BY <1>1, <1>2, <1>4 DEF KernelTypes
  <2>2. AgentTypes' /\ QueueTypes'
    BY <1>1, <1>2 DEF AgentTypes, QueueTypes
  <2> QED
    BY <1>1, <1>2, <2>1, <2>2, ControllerWaits, SameCalls DEF Types
<1>9. ASSUME pc # "failed" PROVE Working'
  <2>1. Stage'
    BY <1>1, <1>2, <1>9, SameCalls DEF Stage, ctlVars
  <2>2. OneAnswer'
    BY <1>1, <1>2, <1>5, <1>9 DEF OneAnswer
  <2>3. Exceptions'
    BY <1>1, <1>2, <1>5, <1>9 DEF Exceptions
  <2>4. Unmanaged'
    <3>1. ~(call.op = "prepare" /\ call.at # "sent")
      BY <1>1, <1>2, <1>9 DEF Stage
    <3> QED
      BY <1>1, <1>2, <1>3, <1>5, <1>6, <1>9, <3>1, SpacesFacts DEF Unmanaged
  <2>5. Cleared'
    BY <1>1, <1>2, <1>5, <1>7, <1>9 DEF Cleared
  <2>6. OwnMove'
    <3>1. \A m \in Spaces : \A k \in DOMAIN nl'[m] : nl'[m][k].new # NoIdx => \E l \in DOMAIN nl[m] : nl'[m][k] = nl[m][l]
      BY <1>3, <1>4
    <3>2. \A m, i, j : MovesTo(m, i, j) => MovesTo(m, i, j)'
      BY <1>2 DEF MovesTo, ctlVars
    <3> QED
      BY <1>1, <1>2, <1>5, <1>9, <3>1, <3>2, OwnMoveKept
  <2> QED
    BY <2>1, <2>2, <2>3, <2>4, <2>5, <2>6 DEF Working
<1>10. ASSUME Live PROVE LiveInv'
  <2>1. OneDel'
    <3>1. DropFirst(nl'[n]) /\ \A k \in DOMAIN nl'[n] : nl'[n][k].type # "DELLINK"
      BY <1>4 DEF DropFirst
    <3>2. \A m \in Spaces : DropFirst(nl'[m]) /\ (Early => \A k \in DOMAIN nl'[m] : nl'[m][k].type # "DELLINK")
      BY <1>1, <1>3, <1>10, <3>1 DEF OneDel
    <3>3. Early' <=> Early
      BY <1>2, ControllerWaits
    <3> QED
      BY <3>2, <3>3 DEF OneDel
  <2>2. Shape'
    BY <1>1, <1>5, <1>10 DEF Shape
  <2>3. /\ \A i : ~Dropping(n, i)'
        /\ \A i \in Indices : New(n, i)' <=> i \in At(where, n)
        /\ \A m \in Spaces, i \in Indices : m # n => (Dropping(m, i)' <=> Dropping(m, i)) /\ (New(m, i)' <=> New(m, i))
    <3>1. \A i : ~Dropping(n, i)'
      <4>1. nl'[n] # <<>> => 1 \in DOMAIN nl'[n]
        BY <1>3, <1>4
      <4> QED
        BY <1>4, <4>1 DEF Dropping, Drop1
    <3>2. \A i \in Indices : New(n, i)' <=> i \in At(where, n)
      BY <1>4, NewlinkIsNotice DEF New
    <3>3. \A m \in Spaces, i \in Indices : m # n => (Dropping(m, i)' <=> Dropping(m, i)) /\ (New(m, i)' <=> New(m, i))
      BY <1>3 DEF Dropping, New
    <3> QED
      BY <3>1, <3>2, <3>3
  <2>4. \A m \in Spaces, i \in Indices : Settled(m, i) => Settled(m, i)'
    BY <1>2, <1>6, <2>3 DEF Settled
  <2>5. Links'
    BY <1>1, <1>2, <1>5, <1>6, <1>10, <2>3 DEF Links
  <2>6. Pending'
    BY <1>1, <1>2, <1>5, <1>7, <1>10, <2>4, ControllerWaits DEF Pending
  <2>7. InHand'
    BY <1>1, <1>2, <1>5, <1>7, <1>10, <2>4 DEF InHand
  <2>8. Chain'
    BY <1>1, <1>2, <1>5, <1>7, <1>10 DEF Chain, MovedFrom, ctlVars
  <2>9. OpInHand' /\ TrueHandles'
    BY <1>1, <1>2, <1>10, SameCalls DEF OpInHand, TrueHandles, TrueMove, Own, ctlVars
  <2>10. Objects' /\ OpObjects'
    BY <1>1, <1>2, <1>10, ControllerWaits
  <2> QED
    BY <2>1, <2>2, <2>5, <2>6, <2>7, <2>8, <2>9, <2>10 DEF LiveInv
<1>11. (pc' = pc) /\ (Live' <=> Live)
  BY <1>2, ControllerWaits DEF ctlVars
<1> QED
  BY <1>8, <1>9, <1>10, <1>11 DEF DeviceInv

LEMMA cleanup_net_Inv ==
  ASSUME DeviceInv, cleanup_net
  PROVE  DeviceInv'
<1>1. /\ KernelTypes /\ AgentTypes /\ QueueTypes /\ CtlTypes /\ CallOps /\ OnlyStaleEventsFail
      /\ pc # "failed" => Stage /\ OneAnswer /\ Exceptions /\ Unmanaged /\ Cleared /\ OwnMove
      /\ Live => /\ OneDel /\ Shape /\ Links /\ Pending /\ InHand
                 /\ OpInHand /\ Objects /\ OpObjects /\ Chain /\ TrueHandles
  BY DEF DeviceInv, Types, Working, LiveInv
<1>2. PICK d \in dying, j \in NewIndices(Root, 1) :
        /\ dying' = dying \ {d}
        /\ where' = [where EXCEPT ![d] = <<Root, j>>]
        /\ nl' = [nl EXCEPT ![Root] = Append(@, NEWLINK(j))]
        /\ UNCHANGED <<known, managed, pipe, toCtl, call, batch, ctlVars, faults>>
  BY DEF cleanup_net
<1>3. /\ known' = known /\ managed' = managed /\ pipe' = pipe /\ toCtl' = toCtl /\ batch' = batch
      /\ UNCHANGED <<call, ctlVars, faults>> /\ UNCHANGED <<call, ctlVars>> /\ call' = call /\ faults' = faults
  BY <1>2
<1>4. d \in Physical /\ d \in Devs /\ where[d] = Nowhere /\ j \in Indices /\ j \notin At(where, Root)
  BY <1>1, <1>2 DEF KernelTypes, Devs, NewIndices
<1>5. /\ where'[d] = <<Root, j>> /\ \A e \in Devs : e # d => where'[e] = where[e]
      /\ where' \in [Devs -> Place]
      /\ \A e \in Devs : where[e] # Nowhere => e # d /\ where'[e] = where[e]
  BY <1>1, <1>2, <1>4, SpacesFacts DEF KernelTypes, Place
<1>6. /\ nl'[Root] = Append(nl[Root], NEWLINK(j)) /\ \A m \in Spaces : m # Root => nl'[m] = nl[m]
      /\ nl[Root] \in Seq(Notices)
  BY <1>1, <1>2, SpacesFacts DEF KernelTypes
<1>7. /\ nl'[Root] \in Seq(Notices)
      /\ \A k \in DOMAIN nl[Root] : k \in DOMAIN nl'[Root] /\ nl'[Root][k] = nl[Root][k]
      /\ \A k \in DOMAIN nl'[Root] : (k \in DOMAIN nl[Root] /\ nl'[Root][k] = nl[Root][k]) \/ nl'[Root][k] = NEWLINK(j)
      /\ \E k \in DOMAIN nl'[Root] : nl'[Root][k] = NEWLINK(j)
      /\ \A i : Drop1(nl'[Root], i) <=> Drop1(nl[Root], i)
      /\ DropFirst(nl[Root]) => DropFirst(nl'[Root])
  BY <1>4, <1>6, Appended
<1>8. /\ \A m \in Spaces, i \in Indices : i \in At(where, m)' <=> i \in At(where, m) \/ (m = Root /\ i = j)
  <2> SUFFICES ASSUME NEW m \in Spaces, NEW i \in Indices
               PROVE  (\E e \in Devs : where'[e] = <<m, i>>) <=> (\E e \in Devs : where[e] = <<m, i>>) \/ (m = Root /\ i = j)
    BY DEF At
  <2>1. \A e \in Devs : where[e] = <<m, i>> => where[e] # Nowhere
    BY DEF Nowhere
  <2>2. (\E e \in Devs : where[e] = <<m, i>>) => \E e \in Devs : where'[e] = <<m, i>>
    BY <1>5, <2>1
  <2>3. m = Root /\ i = j => \E e \in Devs : where'[e] = <<m, i>>
    BY <1>4, <1>5
  <2>4. ASSUME NEW e \in Devs, where'[e] = <<m, i>>
        PROVE  (\E x \in Devs : where[x] = <<m, i>>) \/ (m = Root /\ i = j)
    BY <1>5, <2>4
  <2> QED
    BY <2>2, <2>3, <2>4
<1>9. /\ \A m, i : (Going(m, i)' <=> Going(m, i)) /\ (Coming(m, i)' <=> Coming(m, i))
      /\ \A m, i : (InOrder(Stream(m), m, i)' <=> InOrder(Stream(m), m, i))
                   /\ (Behind(Stream(m), m, i)' <=> Behind(Stream(m), m, i))
      /\ \A m : Lone(Stream(m))' <=> Lone(Stream(m))
      /\ Sent' = Sent
  BY <1>3, SameStreams
<1>10. \A m, i : (Clears(m, i)' <=> Clears(m, i)) /\ (Taken(m, i)' <=> Taken(m, i))
                 /\ (Creating(m, i)' <=> Creating(m, i))
  BY <1>3, SameCalls
<1>11. Types' /\ OnlyStaleEventsFail'
  <2>1. KernelTypes'
    <3>1. nl' \in [Spaces -> Seq(Notices)]
      BY <1>1, <1>2, <1>6, <1>7 DEF KernelTypes
    <3>2. dying' \subseteq Physical /\ \A e \in dying' : where'[e] = Nowhere
      BY <1>1, <1>2, <1>5 DEF KernelTypes, Devs
    <3>3. \A e, f \in Devs : where'[e] = where'[f] /\ where'[e] # Nowhere => e = f
      <4>1. \A e \in Devs : where[e] # <<Root, j>>
        BY <1>4 DEF At
      <4> QED
        BY <1>1, <1>5, <4>1 DEF KernelTypes
    <3> QED
      BY <1>5, <3>1, <3>2, <3>3 DEF KernelTypes
  <2>2. AgentTypes' /\ QueueTypes'
    BY <1>1, <1>3 DEF AgentTypes, QueueTypes
  <2> QED
    BY <1>1, <1>3, <2>1, <2>2, ControllerWaits, SameCalls DEF Types
<1>12. ASSUME pc # "failed" PROVE Working'
  <2>1. Stage'
    BY <1>1, <1>3, <1>12, SameCalls DEF Stage, ctlVars
  <2>2. OneAnswer'
    BY <1>1, <1>3, <1>9, <1>12 DEF OneAnswer
  <2>3. Exceptions'
    BY <1>1, <1>3, <1>9, <1>12 DEF Exceptions
  <2>4. Unmanaged'
    <3>1. \A m \in NetNs : nl'[m] = nl[m] /\ (At(where, m) = {} => At(where, m)' = {})
      BY <1>6, <1>8, SpacesFacts DEF At
    <3>2. (\A k \in DOMAIN nl[Root] : nl[Root][k].type = "NEWLINK" /\ nl[Root][k].idx \in At(where, Root))
          => \A k \in DOMAIN nl'[Root] : nl'[Root][k].type = "NEWLINK" /\ nl'[Root][k].idx \in At(where, Root)'
      <4>1. At(where, Root) \subseteq Indices
        BY DEF At
      <4>2. NEWLINK(j).type = "NEWLINK" /\ NEWLINK(j).idx = j
        BY <1>4, NewlinkIsNotice
      <4> QED
        BY <1>4, <1>7, <1>8, <4>1, <4>2, SpacesFacts
    <3> QED
      BY <1>1, <1>3, <1>9, <1>12, <3>1, <3>2 DEF Unmanaged
  <2>5. Cleared'
    BY <1>1, <1>3, <1>9, <1>10, <1>12 DEF Cleared
  <2>6. OwnMove'
    <3>1. \A m \in Spaces : \A k \in DOMAIN nl'[m] : nl'[m][k].new # NoIdx => \E l \in DOMAIN nl[m] : nl'[m][k] = nl[m][l]
      BY <1>4, <1>6, <1>7, NewlinkIsNotice, SMTT(60)
    <3>2. \A m, i, l : MovesTo(m, i, l) => MovesTo(m, i, l)'
      <4> SUFFICES ASSUME NEW m, NEW i, NEW l, MovesTo(m, i, l) PROVE MovesTo(m, i, l)'
        OBVIOUS
      <4>1. call.d \in Devs /\ where[call.d] # Nowhere
        BY <1>1 DEF MovesTo, CallOps, Nowhere
      <4> QED
        BY <1>3, <1>5, <4>1 DEF MovesTo, ctlVars
    <3> QED
      BY <1>1, <1>3, <1>9, <1>12, <3>1, <3>2, OwnMoveKept
  <2> QED
    BY <2>1, <2>2, <2>3, <2>4, <2>5, <2>6 DEF Working
<1>13. ASSUME Live PROVE LiveInv'
  <2>1. OneDel'
    <3>1. \A k \in DOMAIN nl'[Root] : (k \in DOMAIN nl[Root] /\ nl'[Root][k] = nl[Root][k]) \/ nl'[Root][k].type # "DELLINK"
      BY <1>4, <1>7, NewlinkIsNotice
    <3>2. \A m \in Spaces : DropFirst(nl'[m]) /\ (Early => \A k \in DOMAIN nl'[m] : nl'[m][k].type # "DELLINK")
      BY <1>1, <1>6, <1>7, <1>13, <3>1 DEF OneDel
    <3>3. Early' <=> Early
      BY <1>3, ControllerWaits
    <3> QED
      BY <3>2, <3>3 DEF OneDel
  <2>2. Shape'
    BY <1>1, <1>9, <1>13 DEF Shape
  <2>3. \A m \in Spaces, i \in Indices : /\ Dropping(m, i)' <=> Dropping(m, i)
                                         /\ New(m, i)' <=> New(m, i) \/ (m = Root /\ i = j)
    <3>1. \A m \in Spaces, i \in Indices : Dropping(m, i)' <=> Dropping(m, i)
      BY <1>6, <1>7 DEF Dropping
    <3>2. \A i \in Indices : New(Root, i)' <=> New(Root, i) \/ i = j
      BY <1>4, <1>7, NewlinkIsNotice DEF New
    <3>3. \A m \in Spaces, i \in Indices : m # Root => (New(m, i)' <=> New(m, i))
      BY <1>6 DEF New
    <3> QED
      BY <3>1, <3>2, <3>3
  <2>4. \A m \in Spaces, i \in Indices : Settled(m, i) => Settled(m, i)'
    BY <1>3, <1>8, <2>3 DEF Settled
  <2>5. Links'
    BY <1>1, <1>3, <1>8, <1>9, <1>13, <2>3 DEF Links
  <2>6. Pending'
    BY <1>1, <1>3, <1>9, <1>10, <1>13, <2>4, ControllerWaits DEF Pending
  <2>7. InHand'
    <3>1. ASSUME NEW m \in Spaces, NEW i \in Indices, Creating(m, i) PROVE where'[call.d] = <<m, i>>
      <4>1. call.d \in Devs /\ where[call.d] = <<m, i>>
        BY <1>1, <1>13, <3>1 DEF InHand, Creating, CallOps, Devs
      <4> QED
        BY <1>5, <4>1 DEF Nowhere
    <3> QED
      BY <1>1, <1>3, <1>9, <1>10, <1>13, <2>4, <3>1 DEF InHand
  <2>8. Chain'
    BY <1>1, <1>3, <1>9, <1>10, <1>13 DEF Chain, MovedFrom, ctlVars
  <2>9. OpInHand'
    <3>1. Commanded("create") => call.d # d /\ call.d \in Devs
      BY <1>1, <1>4, MovesAssumption DEF CallOps, Commanded, Devs
    <3>2. /\ Commanded("create")' => where'[call.d] = Nowhere
          /\ Commanded("set_dev_netns")' \/ Commanded("destroy")' => ~Holds(call.ns, call.idx)'
      BY <1>1, <1>3, <1>5, <1>13, <3>1, SameCalls DEF OpInHand
    <3>3. ASSUME NEW x \in Soft, where[x] = <<call.ns, call.idx>> PROVE where'[x] = <<call.ns, call.idx>>
      BY <1>5, <3>3 DEF Devs, Nowhere
    <3>4. Commanded("destroy")' => "raise" \in faults \/ \E x \in Soft : where'[x] = <<call.ns, call.idx>>
      BY <1>1, <1>3, <1>13, <3>3, SameCalls DEF OpInHand
    <3>5. Commanded("set_dev_netns")' => "raise" \in faults \/ call.dst # Root
      BY <1>1, <1>3, <1>13, SameCalls DEF OpInHand
    <3> QED
      BY <1>3, <3>2, <3>4, <3>5 DEF OpInHand
  <2>10. TrueHandles'
    <3> SUFFICES ASSUME "timeout" \notin faults
                 PROVE  /\ \A e \in Devs : Usable(e) => where'[e] = handle[e]
                        /\ call.op \in {"set_dev_netns", "remap", "destroy"} /\ call.at = "sent"
                             => where'[call.d] = <<call.ns, call.idx>>
                        /\ \A e \in Devs : moved[e] # Unmoved => TrueMove(e)'
      BY <1>3, SameCalls DEF TrueHandles, ctlVars
    <3>1. \A n, i : \A e \in Devs : where[e] = <<n, i>> => where'[e] = <<n, i>>
      BY <1>5 DEF Nowhere
    <3>2. \A e \in Devs : Usable(e) => where'[e] = handle[e]
      BY <1>1, <1>5, <1>13 DEF TrueHandles, Usable
    <3>3. call.op \in {"set_dev_netns", "remap", "destroy"} => call.d \in Devs
      BY <1>1 DEF CallOps
    <3>4. ASSUME NEW e \in Devs, moved[e] # Unmoved PROVE TrueMove(e)'
      <4>1. TrueMove(e)
        BY <1>1, <1>13, <3>4 DEF TrueHandles
      <4> QED
        BY <1>3, <3>1, <4>1 DEF TrueMove, Own, ctlVars
    <3> QED
      BY <1>1, <1>13, <3>1, <3>2, <3>3, <3>4 DEF TrueHandles
  <2>11. Objects' /\ OpObjects'
    BY <1>1, <1>3, <1>13, ControllerWaits
  <2> QED
    BY <2>1, <2>2, <2>5, <2>6, <2>7, <2>8, <2>9, <2>10, <2>11 DEF LiveInv
<1>14. (pc' = pc) /\ (Live' <=> Live)
  BY <1>3, ControllerWaits DEF ctlVars
<1> QED
  BY <1>11, <1>12, <1>13, <1>14 DEF DeviceInv

\* The agent of n handles q for a command, and sends after; x is what it answers.
CommandStep(n, q, after, x) ==
  /\ Waiting /\ call.ns = n /\ n \in Spaces
  /\ q \in Seq(LinkMessages) /\ Plain(q) /\ after \in {<<>>, Result, Exception} /\ x \in SUBSET Indices
  /\ Handles(n, q, after)
  /\ call' = [call EXCEPT !.at = IF after = <<>> THEN "linked" ELSE "answered", !.val = x]
  /\ batch' = batch /\ ctlVars' = ctlVars /\ faults' = faults
  /\ after = <<>> => call.op = "set_dev_netns" /\ call.dst # Root
  /\ after = Exception => /\ "raise" \in faults
                          /\ call.op = "destroy" \/ (call.op = "set_dev_netns" /\ call.dst = Root)
  /\ x # {} => after # <<>> /\ call.op \in {"get", "create", "remap"}
  /\ call.op = "create" => \E i \in Indices : x = {i}

\* What an agent does with the call of its command.
LEMMA CommandCall ==
  ASSUME CtlTypes, NEW n, NEW q, NEW after, NEW x, CommandStep(n, q, after, x)
  PROVE  /\ call' \in Calls /\ call'.val = x
         /\ call'.op = call.op /\ call'.ns = n /\ call'.d = call.d /\ call'.idx = call.idx /\ call'.dst = call.dst
         /\ call'.at \in {"linked", "answered"} /\ (call'.at = "linked" <=> after = <<>>)
BY DEF CommandStep, CtlTypes, Calls

\* The types, and the stage of the recipe, when a command is executed.
LEMMA CommandTypes ==
  ASSUME KernelTypes, AgentTypes, QueueTypes, CtlTypes, CallOps, OnlyStaleEventsFail,
         NEW n, NEW q, NEW after, NEW x, CommandStep(n, q, after, x), managed' \subseteq Spaces
  PROVE  /\ AgentTypes' /\ QueueTypes' /\ CtlTypes' /\ CallOps' /\ OnlyStaleEventsFail'
         /\ (Live' <=> Live) /\ (Early' <=> Early) /\ pc' = pc /\ pc # "failed"
<1>1. AgentTypes' /\ QueueTypes'
  BY HandlesTypesOk DEF CommandStep
<1>2. /\ call' \in Calls /\ call'.val = x
      /\ call'.op = call.op /\ call'.ns = n /\ call'.d = call.d /\ call'.idx = call.idx /\ call'.dst = call.dst
      /\ call'.at \in {"linked", "answered"} /\ (call'.at = "linked" <=> after = <<>>)
  BY CommandCall
<1>3. UNCHANGED ctlVars /\ faults' = faults /\ batch' = batch /\ Waiting /\ call.ns = n
  BY DEF CommandStep
<1>4. CtlTypes'
  BY <1>2, <1>3 DEF CtlTypes, ctlVars
<1>5. pc # "failed" /\ call.op # "none"
  BY <1>3 DEF CallOps, Waiting, NoCall
<1>6. CallOps'
  <2>1. /\ after = <<>> => call.op = "set_dev_netns" /\ call.dst # Root
        /\ x # {} => after # <<>> /\ call.op \in {"get", "create", "remap"}
        /\ call.op = "create" => \E i \in Indices : x = {i}
    BY DEF CommandStep
  <2>2. pc' = pc
    BY <1>3 DEF ctlVars
  <2> QED
    BY <1>2, <1>3, <1>5, <2>1, <2>2 DEF CallOps
<1>7. OnlyStaleEventsFail' /\ (Live' <=> Live) /\ (Early' <=> Early)
  BY <1>3 DEF ctlVars, OnlyStaleEventsFail, Live, Early
<1> QED
  BY <1>1, <1>3, <1>4, <1>5, <1>6, <1>7 DEF ctlVars

\* ... so nothing can be behind an answer.
LEMMA NoAnswerStream ==
  ASSUME AgentTypes, QueueTypes, OneAnswer, call.at # "answered", NEW n \in Spaces, NEW i \in Indices
  PROVE  ~Answered1(Stream(n)) /\ Behind(Stream(n), n, i)
<1>1. toCtl \in Seq(Messages) /\ Pipe(n) \in Seq(Messages)
  BY StreamIsMessages DEF QueueTypes
<1>2. ~Answered1(toCtl) /\ ~Answered1(Pipe(n))
  BY NoAnswerYet, Empty DEF Pipe
<1>3. ~Answered1(Stream(n))
  BY <1>1, <1>2, ConcatAnswers DEF Stream
<1> QED
  BY <1>3 DEF Answered1, Behind

\* Before the device is moved nothing is said of its move.
LEMMA NoMoveYet ==
  ASSUME OwnMove, "timeout" \notin faults, call.op # "set_dev_netns" \/ call.at = "sent"
  PROVE  /\ \A m \in Sent : m.type # "dev_netns_changed"
         /\ \A n \in Spaces : \A k \in DOMAIN nl[n] : nl[n][k].new = NoIdx
BY DEF OwnMove, MovesTo

\* What a command keeps of the messages and the agents, its own move aside.
LEMMA CommandWorking ==
  ASSUME KernelTypes, AgentTypes, QueueTypes, CtlTypes, CallOps, Stage, OneAnswer, Exceptions, Unmanaged, OwnMove,
         NEW n, NEW q, NEW after, NEW x, CommandStep(n, q, after, x),
         Live => \A i \in Indices : HandledAt(n, q, i, TRUE),
         call.op \notin {"prepare", "del_namespace"},
         n \in managed', managed \subseteq managed',
         \A m \in Spaces \ managed' : nl'[m] = nl[m] /\ At(where, m)' = At(where, m)
  PROVE  /\ OneAnswer' /\ Exceptions' /\ Unmanaged' /\ Cleared'
         /\ \A m \in Sent' : m.type = "dev_netns_changed" =>
              \/ m \in Sent
              \/ \E j \in Spaces : \E l \in DOMAIN nl[j] : m.ns = j /\ nl[j][l].idx = m.idx
                                                           /\ nl[j][l].new = m.new /\ m.new # NoIdx
<1>1. /\ Waiting /\ call.ns = n /\ n \in Spaces
      /\ q \in Seq(LinkMessages) /\ Plain(q) /\ after \in {<<>>, Result, Exception}
      /\ Handles(n, q, after) /\ faults' = faults
      /\ after = Exception => /\ "raise" \in faults
                              /\ call.op = "destroy" \/ (call.op = "set_dev_netns" /\ call.dst = Root)
  BY DEF CommandStep
<1>2. /\ call'.val = x
      /\ call'.op = call.op /\ call'.ns = n /\ call'.d = call.d /\ call'.idx = call.idx /\ call'.dst = call.dst
      /\ call'.at \in {"linked", "answered"} /\ (call'.at = "linked" <=> after = <<>>)
  BY CommandCall
<1>3. OneAnswer' /\ Exceptions'
  <2>1. Waiting /\ call'.ns = call.ns /\ (after # <<>> => call'.at = "answered")
    BY <1>1, <1>2
  <2> QED
    BY <1>1, <1>2, <2>1, HandlesWorks
<1>4. /\ \A m \in Spaces : m # n => known'[m] = known[m]
      /\ \A m \in NetNs : m # n => pipe'[m] = pipe[m]
      /\ \A m \in Sent' :
           \/ m \in Sent
           \/ /\ m \in Events
              /\ m.type = "dev_netns_changed" =>
                   \E l \in DOMAIN nl[n] : m.ns = n /\ nl[n][l].idx = m.idx /\ nl[n][l].new = m.new /\ m.new # NoIdx
           \/ after = Result /\ m = Answer("result")
           \/ after = Exception /\ m = Answer("exception")
      /\ \A m \in Spaces, i \in Indices : m # n =>
           /\ Going(m, i)' <=> Going(m, i)
           /\ Coming(m, i)' <=> Coming(m, i)
  BY <1>1, HandlesAny
<1>5. Unmanaged'
  <2>1. \A m \in Spaces \ managed' : m # n /\ m \notin managed /\ known'[m] = known[m]
    BY <1>4
  <2>2. \A m \in NetNs \ managed' : pipe'[m] = pipe[m]
    BY <1>4, <2>1, SpacesFacts
  <2>3. \A m \in NetNs \ managed', i \in Indices : ~Going(m, i)' /\ ~Coming(m, i)'
    BY <1>4, <2>1, SpacesFacts DEF Unmanaged
  <2> QED
    BY <1>2, <2>1, <2>2, <2>3, SpacesFacts DEF Unmanaged
<1>6. Cleared'
  <2> SUFFICES ASSUME NEW m \in Spaces, NEW i \in Indices, Clears(m, i)'
               PROVE  /\ call'.at = "done" => ~Going(m, i)' /\ ~Coming(m, i)'
                      /\ call'.at = "answered" => Behind(Stream(m), m, i)'
    BY DEF Cleared
  <2>1. call.op \in {"create", "get"} /\ m = n
    BY <1>2 DEF Clears
  <2>2. Live
    BY <2>1 DEF CallOps, Stage, Live
  <2>3. ~Answered1(Stream(n)) /\ Behind(Stream(n), n, i)
    BY <1>1, NoAnswerStream DEF Waiting
  <2>4. Behind(Stream(n), n, i)'
    BY <2>2, <2>3 DEF HandledAt
  <2> QED
    BY <1>2, <2>1, <2>4
<1>7. \A m \in Sent' : m.type = "dev_netns_changed" => m # Answer("result") /\ m # Answer("exception")
  BY DEF Answer, Message
<1> QED
  BY <1>1, <1>3, <1>4, <1>5, <1>6, <1>7

\* ... and of no other.
LEMMA DumpTells ==
  ASSUME NEW w, NEW n
  PROVE  /\ Dump(w, n) \in Seq(LinkMessages) /\ Plain(Dump(w, n))
         /\ \A k \in DOMAIN Dump(w, n) : Dump(w, n)[k].type # "DELLINK"
         /\ \A i \in Indices : ~Makes(Dump(w, n), i) /\ (TellsQ(Dump(w, n), i) <=> i \in At(w, n))
<1> DEFINE q == Dump(w, n)
<1>1. /\ q \in Seq(LinkMessages)
      /\ \A k \in DOMAIN q : q[k].type = "NEWLINK" /\ q[k].new = NoIdx /\ q[k].idx \in At(w, n)
      /\ \A i \in At(w, n) : \E k \in DOMAIN q : q[k] = NEWLINK(i)
  BY DumpNotices, DumpIsAll
<1>2. At(w, n) \subseteq Indices
  BY DEF At
<1> HIDE DEF q
<1>3. \A i \in Indices : ~Makes(q, i) /\ (TellsQ(q, i) <=> i \in At(w, n))
  BY <1>1, <1>2, NewlinkIsNotice DEF Makes, TellsQ, Tells
<1>4. Plain(q) /\ \A k \in DOMAIN q : q[k].type # "DELLINK"
  BY <1>1 DEF Plain
<1> QED
  BY <1>1, <1>3, <1>4 DEF q

\* Commands for which an agent scans its namespace, and nothing is changed in it.
LEMMA RescanInv ==
  ASSUME DeviceInv, NEW n, NEW after \in {Result, Exception}, NEW x \in {{}, At(where, n)},
         CommandStep(n, Dump(where, n), after, x),
         where' = where, dying' = dying, nl' = [nl EXCEPT ![n] = <<>>], managed' = managed \union {n},
         call.op \notin {"prepare", "del_namespace", "create"},
         call.op = "set_dev_netns" => call.at = "linked" \/ call.dst = Root,
         Stage'
  PROVE  DeviceInv'
<1>1. /\ KernelTypes /\ AgentTypes /\ QueueTypes /\ CtlTypes /\ CallOps /\ OnlyStaleEventsFail
      /\ pc # "failed" => Stage /\ OneAnswer /\ Exceptions /\ Unmanaged /\ Cleared /\ OwnMove
      /\ Live => /\ OneDel /\ Shape /\ Links /\ Pending /\ InHand
                 /\ OpInHand /\ Objects /\ OpObjects /\ Chain /\ TrueHandles
  BY DEF DeviceInv, Types, Working, LiveInv
<1> DEFINE q == Dump(where, n)
<1>2. /\ q \in Seq(LinkMessages) /\ Plain(q) /\ \A k \in DOMAIN q : q[k].type # "DELLINK"
      /\ \A i \in Indices : ~Makes(q, i) /\ (TellsQ(q, i) <=> i \in At(where, n))
      /\ CommandStep(n, q, after, x)
  BY DumpTells
<1> HIDE DEF q
<1>3. /\ Waiting /\ call.ns = n /\ n \in Spaces /\ after \in {<<>>, Result, Exception} /\ after # <<>>
      /\ Handles(n, q, after) /\ UNCHANGED ctlVars /\ faults' = faults
  BY <1>2 DEF CommandStep, Result, Exception
<1>4. /\ call'.val = x /\ call' \in Calls
      /\ call'.op = call.op /\ call'.ns = n /\ call'.d = call.d /\ call'.idx = call.idx /\ call'.dst = call.dst
      /\ call'.at = "answered"
  BY <1>1, <1>2, <1>3, CommandCall
<1>5. managed' \subseteq Spaces
  BY <1>1, <1>3 DEF AgentTypes
<1>6. /\ AgentTypes' /\ QueueTypes' /\ CtlTypes' /\ CallOps' /\ OnlyStaleEventsFail'
      /\ (Live' <=> Live) /\ (Early' <=> Early) /\ pc' = pc /\ pc # "failed"
  BY <1>1, <1>2, <1>5, CommandTypes
<1>7. Types'
  <2>1. KernelTypes'
    BY <1>1, <1>3, EmptySocket DEF KernelTypes
  <2> QED
    BY <1>6, <2>1 DEF Types
<1>8. Live => \A i \in Indices : HandledAt(n, q, i, TRUE)
  BY <1>1, <1>2, <1>3, HandlesOn
<1>9. Working'
  <2>1. \A m \in Spaces \ managed' : nl'[m] = nl[m] /\ At(where, m)' = At(where, m)
    BY <1>1 DEF KernelTypes, At
  <2>2. /\ OneAnswer' /\ Exceptions' /\ Unmanaged' /\ Cleared'
        /\ \A m \in Sent' : m.type = "dev_netns_changed" =>
             \/ m \in Sent
             \/ \E j \in Spaces : \E l \in DOMAIN nl[j] : m.ns = j /\ nl[j][l].idx = m.idx
                                                          /\ nl[j][l].new = m.new /\ m.new # NoIdx
    BY <1>1, <1>2, <1>6, <1>8, <2>1, CommandWorking
  <2>3. OwnMove'
    <3>1. \A m \in Spaces : \A k \in DOMAIN nl'[m] : nl'[m][k].new # NoIdx => \E l \in DOMAIN nl[m] : nl'[m][k] = nl[m][l]
      BY <1>1, <1>3, EmptySocket
    <3>2. \A m, i, j : MovesTo(m, i, j) => MovesTo(m, i, j)'
      BY <1>3, <1>4 DEF MovesTo, ctlVars
    <3> QED
      BY <1>1, <1>3, <1>6, <2>2, <3>1, <3>2, OwnMoveKept
  <2> QED
    BY <2>2, <2>3 DEF Working
<1>10. ASSUME Live PROVE LiveInv'
  <2>1. \A d : Usable(d)' <=> Usable(d)
    BY <1>3 DEF ctlVars, Usable
  <2>2. AgentHandles(n, q) /\ Truthful(n, q)
    <3>1. \A m \in Spaces, i \in Indices : m # n => Untouched(m, i)
      <4>1. /\ \A m \in Spaces : m # n => known'[m] = known[m]
            /\ \A m \in Spaces, i \in Indices : m # n =>
                 /\ Going(m, i)' <=> Going(m, i)
                 /\ Coming(m, i)' <=> Coming(m, i)
                 /\ InOrder(Stream(m), m, i) => InOrder(Stream(m), m, i)'
        BY <1>1, <1>2, <1>3, HandlesAny
      <4> QED
        BY <4>1 DEF Untouched
    <3> QED
      <4>1. \A i \in Indices : \E b : HandledAt(n, q, i, b)
        BY <1>8, <1>10
      <4>2. Truthful(n, q)
        <5>1. At(where, n) \subseteq Indices
          BY DEF At
        <5> QED
          BY <1>2, <5>1 DEF Truthful
      <4> QED
        BY <3>1, <4>1, <4>2 DEF AgentHandles
  <2>3. SameCommand(n)
    <3>1. \A m, i : Holds(m, i)' <=> Holds(m, i)
      BY <1>3, <2>1 DEF Holds, ctlVars
    <3>2. \A m, i : Taken(m, i)' => Taken(m, i)
      BY <1>4, <3>1 DEF Taken
    <3>3. \A m, i : ~Creating(m, i) /\ ~Creating(m, i)'
      BY <1>4 DEF Creating
    <3>4. \A m \in Spaces, i \in Indices : Clears(m, i)' => m = n /\ i \in At(where, n)
      BY <1>4 DEF Clears
    <3> QED
      BY <1>4, <3>2, <3>3, <3>4 DEF SameCommand
  <2>4. OneDel' /\ Shape' /\ Links' /\ Pending' /\ InHand' /\ Chain'
    BY <1>1, <1>3, <1>6, <1>10, <2>2, <2>3, AgentLive DEF ctlVars
  <2>5. OpInHand'
    BY <1>4 DEF OpInHand, Commanded
  <2>6. Objects'
    BY <1>1, <1>3, <1>10, <2>1 DEF Objects, ctlVars
  <2>7. OpObjects'
    BY <1>1, <1>3, <1>4, <1>10 DEF OpObjects, Commanded, ctlVars
  <2>8. TrueHandles'
    <3>1. ASSUME "timeout" \notin faults, NEW e \in Devs, moved[e] # Unmoved PROVE TrueMove(e)'
      <4>1. TrueMove(e)
        BY <1>1, <1>10, <3>1 DEF TrueHandles
      <4>2. moved' = moved /\ (call.at = "linked" => call.at # "sent") /\ call'.at # "sent"
        BY <1>3, <1>4 DEF ctlVars
      <4> QED
        BY <1>3, <1>4, <4>1, <4>2 DEF TrueMove, Own
    <3> QED
      BY <1>1, <1>3, <1>4, <1>10, <2>1, <3>1 DEF TrueHandles, ctlVars
  <2> QED
    BY <2>4, <2>5, <2>6, <2>7, <2>8 DEF LiveInv
<1> QED
  BY <1>6, <1>7, <1>9, <1>10 DEF DeviceInv

\* The two answers differ.
LEMMA ResultFacts == Result # <<>> /\ Exception # <<>> /\ Result # Exception
BY DEF Result, Exception, Answer, Message

LEMMA init_if_manager_Inv ==
  ASSUME DeviceInv, init_if_manager
  PROVE  DeviceInv'
<1>1. KernelTypes /\ AgentTypes /\ CtlTypes /\ CallOps /\ (pc # "failed" => Stage)
  BY DEF DeviceInv, Types, Working
<1>2. /\ call.op \in {"init", "add_namespace"} /\ call.at = "sent" /\ call.ns \in Spaces /\ pc # "failed"
      /\ managed' = managed \union {call.ns} /\ nl' = [nl EXCEPT ![call.ns] = <<>>]
      /\ Handles(call.ns, Dump(where, call.ns), Result)
      /\ call' = [call EXCEPT !.at = "answered", !.val = {}]
      /\ where' = where /\ dying' = dying /\ batch' = batch /\ ctlVars' = ctlVars /\ faults' = faults
  BY <1>1 DEF init_if_manager, Commanded, CallOps, NoCall, Rescans, Answered, AnsweredWith, kernelVars
<1>3. CommandStep(call.ns, Dump(where, call.ns), Result, {})
  BY <1>2, DumpTells, ResultFacts DEF CommandStep, Waiting
<1>4. Stage'
  <2>1. call'.op = call.op /\ call'.at = "answered" /\ call'.ns = call.ns /\ UNCHANGED ctlVars
    BY <1>1, <1>2 DEF CtlTypes, Calls
  <2>2. CASE call.op = "init"
    BY <1>1, <1>2, <2>1, <2>2 DEF CallOps, Stage, ctlVars, Commanded
  <2>3. CASE call.op = "add_namespace"
    BY <1>1, <1>2, <2>1, <2>3, SpacesFacts DEF CallOps, Stage, ctlVars, Commanded
  <2> QED
    BY <1>2, <2>2, <2>3
<1> QED
  BY <1>2, <1>3, <1>4, RescanInv

LEMMA agent_rescans_Inv ==
  ASSUME DeviceInv, agent_rescans
  PROVE  DeviceInv'
<1>1. KernelTypes /\ AgentTypes /\ CtlTypes /\ CallOps /\ (pc # "failed" => Stage)
  BY DEF DeviceInv, Types, Working
<1>2. /\ call.op \in {"get", "remap"} /\ call.at = "sent" /\ call.ns \in Spaces /\ pc # "failed"
      /\ managed' = managed /\ nl' = [nl EXCEPT ![call.ns] = <<>>]
      /\ Handles(call.ns, Dump(where, call.ns), Result)
      /\ call' = [call EXCEPT !.at = "answered", !.val = At(where, call.ns)]
      /\ where' = where /\ dying' = dying /\ batch' = batch /\ ctlVars' = ctlVars /\ faults' = faults
  BY <1>1 DEF agent_rescans, Commanded, CallOps, NoCall, Rescans, AnsweredWith, kernelVars
<1>3. CommandStep(call.ns, Dump(where, call.ns), Result, At(where, call.ns))
  <2>1. At(where, call.ns) \in SUBSET Indices
    BY DEF At
  <2> QED
    BY <1>2, <2>1, DumpTells, ResultFacts DEF CommandStep, Waiting
<1>4. call.ns \in managed
  BY <1>1, <1>2 DEF CallOps, Stage
<1>5. Stage'
  <2>1. call'.op = call.op /\ call'.at = "answered" /\ call'.ns = call.ns /\ UNCHANGED ctlVars
    BY <1>1, <1>2 DEF CtlTypes, Calls
  <2> QED
    BY <1>1, <1>2, <2>1 DEF CallOps, Stage, ctlVars, Commanded
<1> QED
  BY <1>2, <1>3, <1>4, <1>5, RescanInv

LEMMA set_dev_netns_Inv ==
  ASSUME DeviceInv, set_dev_netns
  PROVE  DeviceInv'
<1>1. KernelTypes /\ AgentTypes /\ CtlTypes /\ CallOps /\ (pc # "failed" => Stage)
  BY DEF DeviceInv, Types, Working
<1>2. /\ call.op = "set_dev_netns" /\ call.at = "linked" /\ call.ns \in Spaces /\ pc # "failed"
      /\ managed' = managed /\ nl' = [nl EXCEPT ![call.ns] = <<>>]
      /\ Handles(call.ns, Dump(where, call.ns), Result)
      /\ call' = [call EXCEPT !.at = "answered", !.val = {}]
      /\ where' = where /\ dying' = dying /\ batch' = batch /\ ctlVars' = ctlVars /\ faults' = faults
  BY <1>1 DEF set_dev_netns, CallOps, NoCall, Rescans, Answered, AnsweredWith, kernelVars
<1>3. CommandStep(call.ns, Dump(where, call.ns), Result, {})
  BY <1>2, DumpTells, ResultFacts DEF CommandStep, Waiting
<1>4. call.ns \in managed
  BY <1>1, <1>2 DEF CallOps, Stage
<1>5. Stage'
  <2>1. call'.op = call.op /\ call'.at = "answered" /\ call'.ns = call.ns /\ UNCHANGED ctlVars
    BY <1>1, <1>2 DEF CtlTypes, Calls
  <2> QED
    BY <1>1, <1>2, <2>1 DEF CallOps, Stage, ctlVars, Commanded
<1> QED
  BY <1>2, <1>3, <1>4, <1>5, RescanInv

\* One message in a socket: that a device left index c.
LEMMA OneNotice ==
  ASSUME NEW c \in Indices, NEW k \in Indices \union {NoIdx}, NEW r, r = <<Link("DELLINK", c, k)>>
  PROVE  /\ r \in Seq(Notices) /\ DropFirst(r)
         /\ \A i : Drop1(r, i) <=> i = c
         /\ \A l \in DOMAIN r : r[l].type = "DELLINK" /\ r[l].idx = c /\ r[l].new = k
<1> DEFINE m == Link("DELLINK", c, k)
<1>1. m \in Notices /\ m.type = "DELLINK" /\ m.idx = c /\ m.new = k
  BY DEF Link, Notices, LinkMessages
<1>2. r = <<m>>
  OBVIOUS
<1> HIDE DEF m
<1>3. r \in Seq(Notices) /\ DOMAIN r = {1} /\ r[1] = m /\ r # <<>>
  BY <1>1, <1>2
<1> QED
  BY <1>1, <1>3 DEF DropFirst, Drop1

\* Agent n scans, and a device leaves its index c, for index j of dst if that is a
\* namespace.
LeavesFor(n, c, dst, j) ==
  /\ \A i \in Indices : i \in At(where, n)' <=> i \in At(where, n) /\ i # c
  /\ \A m \in Spaces, i \in Indices : m # n =>
       /\ i \in At(where, m)' <=> i \in At(where, m) \/ (m = dst /\ i = j)
       /\ New(m, i)' <=> New(m, i) \/ (m = dst /\ i = j)
       /\ Dropping(m, i)' <=> Dropping(m, i)
       /\ Untouched(m, i)
  /\ \A i \in Indices : ~New(n, i)' /\ (Dropping(n, i)' <=> i = c)
  /\ \A m \in Spaces : DropFirst(nl[m]) => DropFirst(nl'[m])

\* A device leaves n: what the step keeps once the device is out of anyone's hands.
LEMMA LeaveLive ==
  ASSUME OneDel, Shape, Links, Pending, InHand, Chain, ~Early,
         NEW n \in Spaces, NEW c \in Indices, NEW dst, NEW j,
         LeavesFor(n, c, dst, j),
         \A i \in Indices : HandledAt(n, Dump(where, n), i, TRUE),
         Settled(n, c), ~Going(n, c), ~Coming(n, c), ~Holds(n, c),
         managed' = managed, faults' = faults, pc' = pc, db' = db, moved' = moved,
         \A m \in Spaces, i \in Indices : /\ Taken(m, i)' => Holds(m, i)
                                          /\ ~Clears(m, i)' /\ ~Creating(m, i) /\ ~Creating(m, i)'
  PROVE  OneDel' /\ Shape' /\ Links' /\ Pending' /\ InHand' /\ Chain'
<1>1. ~Early'
  BY DEF Early
<1>2. OneDel'
  BY <1>1 DEF OneDel, LeavesFor
<1>3. Shape'
  <2> SUFFICES ASSUME NEW m \in Spaces, NEW i \in Indices PROVE InOrder(Stream(m), m, i)'
    BY DEF Shape
  <2>1. CASE m = n
    BY <2>1 DEF HandledAt
  <2>2. CASE m # n
    BY <2>2 DEF LeavesFor, Untouched, Shape
  <2> QED
    BY <2>1, <2>2
<1>4. ASSUME NEW m \in Spaces, NEW i \in Indices
      PROVE  /\ New(m, i)' => i \in At(where, m)'
             /\ Dropping(m, i)' => i \in known'[m] /\ ~Going(m, i)' /\ ~Coming(m, i)'
             /\ m \in managed /\ i \in At(where, m)' => New(m, i)' \/ (i \in known'[m] /\ ~Dropping(m, i)')
             /\ "overflow" \notin faults /\ i \in known'[m] /\ ~Dropping(m, i)' => i \in At(where, m)'
             /\ Coming(m, i)' => Settled(m, i)'
             /\ Going(m, i)' /\ ~Coming(m, i)' => i \notin known'[m]
             /\ Holds(m, i) => Settled(m, i)' /\ ~Going(m, i)' /\ ~Coming(m, i)'
             /\ "raise" \notin faults =>
                  /\ db[m][i] # Nobody /\ ~Going(m, i)' /\ ~Coming(m, i)' => i \in known'[m]
                  /\ i \in known'[m] /\ ~Coming(m, i)' => db[m][i] # Nobody \/ Awaited(m, i)
  <2>1. /\ New(m, i) => i \in At(where, m)
        /\ Dropping(m, i) => i \in known[m] /\ ~Going(m, i) /\ ~Coming(m, i)
        /\ m \in managed /\ i \in At(where, m) => New(m, i) \/ (i \in known[m] /\ ~Dropping(m, i))
        /\ "overflow" \notin faults /\ i \in known[m] /\ ~Dropping(m, i) => i \in At(where, m)
    BY DEF Links
  <2>2. /\ Coming(m, i) => Settled(m, i)
        /\ Going(m, i) /\ ~Coming(m, i) => i \notin known[m]
    BY DEF Pending
  <2>3. Holds(m, i) => Settled(m, i) /\ ~Going(m, i) /\ ~Coming(m, i)
    BY DEF InHand, Taken
  <2>4. "raise" \notin faults =>
          /\ db[m][i] # Nobody /\ ~Going(m, i) /\ ~Coming(m, i) => i \in known[m]
          /\ i \in known[m] /\ ~Coming(m, i) => db[m][i] # Nobody \/ Awaited(m, i)
    BY DEF Chain, Awaited
  <2>5. /\ Settled(m, i) <=> i \in At(where, m) /\ i \in known[m] /\ ~Dropping(m, i)
        /\ Settled(m, i)' <=> i \in At(where, m)' /\ i \in known'[m] /\ ~Dropping(m, i)'
    BY DEF Settled
  <2>6. CASE m = n
    <3>1. /\ i \in At(where, n)' <=> i \in At(where, n) /\ i # c
          /\ ~New(n, i)' /\ (Dropping(n, i)' <=> i = c)
      BY DEF LeavesFor
    <3>2. ~Makes(Dump(where, n), i) /\ (TellsQ(Dump(where, n), i) <=> i \in At(where, n))
      BY DumpTells
    <3>3. /\ i \in known'[n] <=> New(n, i) \/ i \in At(where, n) \/ (i \in known[n] /\ ~Dropping(n, i))
          /\ Going(n, i)' <=> Going(n, i) \/ Dropping(n, i)
          /\ Coming(n, i) => Coming(n, i)'
          /\ Coming(n, i)' => \/ Coming(n, i)
                              \/ /\ New(n, i) \/ i \in At(where, n)
                                 /\ i \notin known[n] \/ Dropping(n, i)
          /\ i \in known'[n] /\ ~Coming(n, i)' => i \in known[n] /\ ~Dropping(n, i)
      BY <3>2 DEF HandledAt
    <3>4. i = c => /\ i \in At(where, n) /\ i \in known[n] /\ ~Dropping(n, i) /\ ~Going(n, i) /\ ~Coming(n, i)
                   /\ ~Holds(n, i)
      BY DEF Settled
    <3>5. /\ New(m, i)' => i \in At(where, m)'
          /\ Dropping(m, i)' => i \in known'[m] /\ ~Going(m, i)' /\ ~Coming(m, i)'
          /\ m \in managed /\ i \in At(where, m)' => New(m, i)' \/ (i \in known'[m] /\ ~Dropping(m, i)')
          /\ "overflow" \notin faults /\ i \in known'[m] /\ ~Dropping(m, i)' => i \in At(where, m)'
      BY <2>1, <2>6, <3>1, <3>3, <3>4
    <3>6. /\ Coming(m, i)' => Settled(m, i)'
          /\ Going(m, i)' /\ ~Coming(m, i)' => i \notin known'[m]
      BY <2>1, <2>2, <2>5, <2>6, <3>1, <3>3, <3>4
    <3>7. Holds(m, i) => Settled(m, i)' /\ ~Going(m, i)' /\ ~Coming(m, i)'
      BY <2>3, <2>5, <2>6, <3>1, <3>3, <3>4
    <3>8. "raise" \notin faults =>
            /\ db[m][i] # Nobody /\ ~Going(m, i)' /\ ~Coming(m, i)' => i \in known'[m]
            /\ i \in known'[m] /\ ~Coming(m, i)' => db[m][i] # Nobody \/ Awaited(m, i)
      BY <2>4, <2>6, <3>3
    <3> QED
      BY <3>5, <3>6, <3>7, <3>8
  <2>7. CASE m # n
    <3>1. /\ i \in At(where, m)' <=> i \in At(where, m) \/ (m = dst /\ i = j)
          /\ New(m, i)' <=> New(m, i) \/ (m = dst /\ i = j)
          /\ Dropping(m, i)' <=> Dropping(m, i)
          /\ known'[m] = known[m]
          /\ Going(m, i)' <=> Going(m, i)
          /\ Coming(m, i)' <=> Coming(m, i)
      BY <2>7 DEF LeavesFor, Untouched
    <3> QED
      BY <2>1, <2>2, <2>3, <2>4, <2>5, <3>1
  <2> QED
    BY <2>6, <2>7
<1>5. Links'
  BY <1>4 DEF Links
<1>6. Pending'
  BY <1>1, <1>4 DEF Pending
<1>7. InHand'
  BY <1>4 DEF InHand
<1>8. Chain'
  BY <1>4 DEF Chain, MovedFrom, Awaited
<1> QED
  BY <1>2, <1>3, <1>5, <1>6, <1>7, <1>8

\* The device that is to be moved is moved.
LEMMA moved_Inv ==
  ASSUME DeviceInv, Commanded("set_dev_netns"), NEW n, NEW c, NEW dst,
         n = call.ns, c = call.idx, dst = call.dst, dst # Root,
         NEW x \in Met, NEW j \in NewIndices(dst, c),
         Rescans(n, <<>>),
         nl' = [nl EXCEPT ![n] = <<MOVED(c, j)>>, ![dst] = Append(@, NEWLINK(j))],
         where' = [where EXCEPT ![x] = <<dst, j>>],
         call' = [call EXCEPT !.at = "linked"],
         UNCHANGED <<dying, managed, batch, ctlVars, faults>>
  PROVE  DeviceInv'
<1>1. /\ KernelTypes /\ AgentTypes /\ QueueTypes /\ CtlTypes /\ CallOps /\ OnlyStaleEventsFail
      /\ pc # "failed" => Stage /\ OneAnswer /\ Exceptions /\ Unmanaged /\ Cleared /\ OwnMove
      /\ Live => /\ OneDel /\ Shape /\ Links /\ Pending /\ InHand
                 /\ OpInHand /\ Objects /\ OpObjects /\ Chain /\ TrueHandles
  BY DEF DeviceInv, Types, Working, LiveInv
<1> DEFINE q == Dump(where, n)
<1>2. /\ call.op = "set_dev_netns" /\ call.at = "sent" /\ call.val = {} /\ call.d \in Devs
      /\ n \in Spaces /\ c \in Indices /\ dst \in Spaces /\ dst # n /\ pc = "test"
      /\ dying' = dying /\ managed' = managed /\ batch' = batch /\ ctlVars' = ctlVars /\ faults' = faults
      /\ UNCHANGED ctlVars
  BY <1>1 DEF Commanded, CallOps
<1>3. Live /\ ~Early /\ managed = Spaces /\ pc # "failed"
  BY <1>1, <1>2 DEF Live, Early, Stage
<1>4. /\ x \in Devs /\ where[x] = <<n, c>> /\ j \in Indices /\ j \notin At(where, dst)
      /\ where' \in [Devs -> Place] /\ where'[x] = <<dst, j>>
      /\ \A e \in Devs : e # x => where'[e] = where[e] /\ where[e] # <<n, c>> /\ where[e] # <<dst, j>>
  <2>1. x \in Devs /\ where[x] = <<n, c>>
    BY DEF Met
  <2>2. j \in Indices /\ j \notin At(where, dst)
    BY DEF NewIndices
  <2>3. \A e \in Devs : e # x => where[e] # <<n, c>>
    <3>1. \A e \in Devs : where[e] = where[x] /\ where[x] # Nowhere => e = x
      BY <1>1, <2>1 DEF KernelTypes
    <3> QED
      BY <2>1, <3>1 DEF Nowhere
  <2>4. \A e \in Devs : where[e] # <<dst, j>>
    BY <2>2 DEF At
  <2>5. <<dst, j>> \in Place
    BY <1>2, <2>2 DEF Place
  <2> QED
    BY <1>1, <2>1, <2>2, <2>3, <2>4, <2>5 DEF KernelTypes
<1>5. /\ q \in Seq(LinkMessages) /\ Plain(q) /\ \A k \in DOMAIN q : q[k].type # "DELLINK"
      /\ Handles(n, q, <<>>)
  BY DumpTells DEF Rescans
<1>6. CommandStep(n, q, <<>>, {})
  <2>1. call' = [call EXCEPT !.at = "linked", !.val = {}]
    BY <1>1, <1>2 DEF CtlTypes, Calls
  <2> HIDE DEF q
  <2> QED
    BY <1>2, <1>5, <2>1, ResultFacts DEF CommandStep, Waiting
<1>7. /\ call'.val = {}
      /\ call'.op = "set_dev_netns" /\ call'.ns = n /\ call'.d = call.d /\ call'.idx = c /\ call'.dst = dst
      /\ call'.at = "linked"
  BY <1>1, <1>2 DEF CtlTypes, Calls
<1>8. /\ AgentTypes' /\ QueueTypes' /\ CtlTypes' /\ CallOps' /\ OnlyStaleEventsFail'
      /\ (Live' <=> Live) /\ (Early' <=> Early) /\ pc' = pc
  <2>1. managed' \subseteq Spaces
    BY <1>2, <1>3
  <2> QED
    BY <1>1, <1>6, <2>1, CommandTypes
<1>9. /\ nl' \in [Spaces -> Seq(Notices)]
      /\ \A k \in DOMAIN nl'[n] : nl'[n][k].type = "DELLINK" /\ nl'[n][k].idx = c /\ nl'[n][k].new = j
      /\ DropFirst(nl'[n])
      /\ \A i : Drop1(nl'[n], i) <=> i = c
      /\ \A m \in Spaces : m # n /\ m # dst => nl'[m] = nl[m]
      /\ \A k \in DOMAIN nl[dst] : k \in DOMAIN nl'[dst] /\ nl'[dst][k] = nl[dst][k]
      /\ \A k \in DOMAIN nl'[dst] : (k \in DOMAIN nl[dst] /\ nl'[dst][k] = nl[dst][k]) \/ nl'[dst][k] = NEWLINK(j)
      /\ \E k \in DOMAIN nl'[dst] : nl'[dst][k] = NEWLINK(j)
      /\ \A i : Drop1(nl'[dst], i) <=> Drop1(nl[dst], i)
      /\ DropFirst(nl[dst]) => DropFirst(nl'[dst])
  <2>1. /\ nl'[n] = <<MOVED(c, j)>> /\ nl'[dst] = Append(nl[dst], NEWLINK(j)) /\ nl[dst] \in Seq(Notices)
        /\ \A m \in Spaces : m # n /\ m # dst => nl'[m] = nl[m]
    BY <1>1, <1>2 DEF KernelTypes
  <2>2. nl'[n] = <<Link("DELLINK", c, j)>>
    BY <2>1 DEF MOVED
  <2>3. /\ nl'[n] \in Seq(Notices)
        /\ \A k \in DOMAIN nl'[n] : nl'[n][k].type = "DELLINK" /\ nl'[n][k].idx = c /\ nl'[n][k].new = j
        /\ DropFirst(nl'[n])
        /\ \A i : Drop1(nl'[n], i) <=> i = c
    <3>1. c \in Indices /\ j \in Indices \union {NoIdx} /\ nl'[n] = <<Link("DELLINK", c, j)>>
      BY <1>2, <1>4, <2>2
    <3> QED
      BY ONLY <3>1, OneNotice
  <2>4. /\ nl'[dst] \in Seq(Notices)
        /\ \A k \in DOMAIN nl[dst] : k \in DOMAIN nl'[dst] /\ nl'[dst][k] = nl[dst][k]
        /\ \A k \in DOMAIN nl'[dst] : (k \in DOMAIN nl[dst] /\ nl'[dst][k] = nl[dst][k]) \/ nl'[dst][k] = NEWLINK(j)
        /\ \E k \in DOMAIN nl'[dst] : nl'[dst][k] = NEWLINK(j)
        /\ \A i : Drop1(nl'[dst], i) <=> Drop1(nl[dst], i)
        /\ DropFirst(nl[dst]) => DropFirst(nl'[dst])
    <3>1. j \in Indices /\ nl[dst] \in Seq(Notices) /\ nl'[dst] = Append(nl[dst], NEWLINK(j))
      BY <1>4, <2>1
    <3> QED
      BY ONLY <3>1, Appended
  <2>5. nl' \in [Spaces -> Seq(Notices)]
    <3>1. \A m \in Spaces : nl'[m] \in Seq(Notices)
      BY <1>1, <2>1, <2>3, <2>4 DEF KernelTypes
    <3>2. nl' = [m \in Spaces |-> nl'[m]]
      BY <1>1 DEF KernelTypes
    <3> QED
      BY <3>1, <3>2
  <2> QED
    BY <2>1, <2>3, <2>4, <2>5
<1>10. /\ \A i \in Indices : i \in At(where, n)' <=> i \in At(where, n) /\ i # c
       /\ \A m \in Spaces, i \in Indices : m # n => (i \in At(where, m)' <=> i \in At(where, m) \/ (m = dst /\ i = j))
  <2>1. ASSUME NEW m \in Spaces, NEW i \in Indices
        PROVE  (\E e \in Devs : where'[e] = <<m, i>>) <=>
                 ((\E e \in Devs : where[e] = <<m, i>>) /\ ~(m = n /\ i = c)) \/ (m = dst /\ i = j)
    <3>1. ASSUME NEW e \in Devs, where'[e] = <<m, i>>
          PROVE  ((\E f \in Devs : where[f] = <<m, i>>) /\ ~(m = n /\ i = c)) \/ (m = dst /\ i = j)
      <4>1. CASE e = x
        BY <1>4, <3>1, <4>1
      <4>2. CASE e # x
        <5>1. where[e] = <<m, i>> /\ ~(m = n /\ i = c)
          BY <1>4, <3>1, <4>2
        <5> QED
          BY <5>1
      <4> QED
        BY <4>1, <4>2
    <3>2. ASSUME NEW e \in Devs, where[e] = <<m, i>>, ~(m = n /\ i = c)
          PROVE  \E f \in Devs : where'[f] = <<m, i>>
      <4>1. e # x
        BY <1>4, <3>2
      <4> QED
        BY <1>4, <3>2, <4>1
    <3>3. m = dst /\ i = j => \E f \in Devs : where'[f] = <<m, i>>
      BY <1>4
    <3> QED
      BY <3>1, <3>2, <3>3
  <2>2. ASSUME NEW m \in Spaces, NEW i \in Indices
        PROVE  /\ i \in At(where, m) <=> \E e \in Devs : where[e] = <<m, i>>
               /\ i \in At(where, m)' <=> \E e \in Devs : where'[e] = <<m, i>>
    BY DEF At
  <2>3. ASSUME NEW i \in Indices PROVE i \in At(where, n)' <=> i \in At(where, n) /\ i # c
    <3>1. (\E e \in Devs : where'[e] = <<n, i>>) <=> (\E e \in Devs : where[e] = <<n, i>>) /\ i # c
      BY <1>2, <2>1
    <3>2. /\ i \in At(where, n) <=> \E e \in Devs : where[e] = <<n, i>>
          /\ i \in At(where, n)' <=> \E e \in Devs : where'[e] = <<n, i>>
      BY <1>2, <2>2
    <3> QED
      BY <3>1, <3>2
  <2>4. ASSUME NEW m \in Spaces, NEW i \in Indices, m # n
        PROVE  i \in At(where, m)' <=> i \in At(where, m) \/ (m = dst /\ i = j)
    <3>1. (\E e \in Devs : where'[e] = <<m, i>>) <=> (\E e \in Devs : where[e] = <<m, i>>) \/ (m = dst /\ i = j)
      BY <2>1, <2>4
    <3> QED
      BY <2>2, <3>1
  <2> QED
    BY <2>3, <2>4
<1>11. Types'
  <2>1. KernelTypes'
    <3>1. \A e \in dying' : where'[e] = Nowhere
      BY <1>1, <1>2, <1>4 DEF KernelTypes, Devs, Nowhere
    <3>2. \A e, f \in Devs : where'[e] = where'[f] /\ where'[e] # Nowhere => e = f
      BY <1>1, <1>4 DEF KernelTypes
    <3> QED
      BY <1>1, <1>2, <1>4, <1>9, <3>1, <3>2 DEF KernelTypes
  <2> QED
    BY <1>8, <2>1 DEF Types
<1>12. \A i \in Indices : HandledAt(n, q, i, TRUE)
  <2> HIDE DEF q
  <2> QED
    BY <1>1, <1>2, <1>3, <1>5, HandlesOn
<1>13. Taken(n, c) /\ Settled(n, c) /\ ~Going(n, c) /\ ~Coming(n, c) /\ ~Holds(n, c)
  <2>1. Taken(n, c)
    BY <1>2 DEF Taken
  <2> QED
    BY <1>1, <1>2, <1>3, <2>1 DEF InHand, OpInHand, Commanded
<1>14. "timeout" \notin faults => call.d = x
  <2>1. "timeout" \notin faults => where[call.d] = <<n, c>>
    BY <1>1, <1>2, <1>3 DEF TrueHandles
  <2> QED
    BY <1>2, <1>4, <2>1
<1>15. Working'
  <2>1. Stage'
    BY <1>1, <1>2, <1>3, <1>7, <1>8 DEF Stage, Commanded, ctlVars
  <2>2. /\ OneAnswer' /\ Exceptions' /\ Unmanaged' /\ Cleared'
        /\ \A m \in Sent' : m.type = "dev_netns_changed" =>
             \/ m \in Sent
             \/ \E k \in Spaces : \E l \in DOMAIN nl[k] : m.ns = k /\ nl[k][l].idx = m.idx
                                                          /\ nl[k][l].new = m.new /\ m.new # NoIdx
    <3>1. \A m \in Spaces \ managed' : nl'[m] = nl[m] /\ At(where, m)' = At(where, m)
      BY <1>2, <1>3
    <3> HIDE DEF q
    <3> QED
      BY <1>1, <1>2, <1>3, <1>6, <1>12, <3>1, CommandWorking
  <2>3. OwnMove'
    <3> SUFFICES ASSUME "timeout" \notin faults
                 PROVE  /\ \A m \in Sent' : m.type # "dev_netns_changed"
                        /\ \A m \in Spaces : \A k \in DOMAIN nl'[m] :
                             nl'[m][k].new # NoIdx => MovesTo(m, nl[m][k].idx, nl[m][k].new)'
      BY <1>2 DEF OwnMove
    <3>1. /\ \A m \in Sent : m.type # "dev_netns_changed"
          /\ \A m \in Spaces : \A k \in DOMAIN nl[m] : nl[m][k].new = NoIdx
      BY <1>1, <1>2, <1>3, NoMoveYet
    <3>2. \A m \in Sent' : m.type # "dev_netns_changed"
      BY <2>2, <3>1
    <3>3. \A m \in Spaces : m # n => \A k \in DOMAIN nl'[m] : nl'[m][k].new = NoIdx
      BY <1>4, <1>9, <3>1, NewlinkIsNotice
    <3>4. moved'[call.d] # Unmoved /\ moved'[call.d].new = NoIdx
      BY <1>1, <1>2, <1>3, NoIdxNotIndex DEF OpObjects, Commanded, Unmoved, ctlVars
    <3>5. MovesTo(n, c, j)'
      BY <1>2, <1>4, <1>7, <1>14, <3>4 DEF MovesTo
    <3>6. \A k \in DOMAIN nl'[n] : MovesTo(n, nl[n][k].idx, nl[n][k].new)'
      BY <1>9, <3>5
    <3> QED
      BY <3>2, <3>3, <3>6
  <2> QED
    BY <2>1, <2>2, <2>3 DEF Working
<1>16. LiveInv'
  <2>1. \A d : Usable(d)' <=> Usable(d)
    BY <1>2 DEF ctlVars, Usable
  <2>2. \A m, i : Holds(m, i)' <=> Holds(m, i)
    BY <1>2, <2>1 DEF Holds, ctlVars
  <2>3. OneDel' /\ Shape' /\ Links' /\ Pending' /\ InHand' /\ Chain'
    <3>1. \A m \in Spaces, i \in Indices : /\ Taken(m, i)' => Holds(m, i)
                                           /\ ~Clears(m, i)' /\ ~Creating(m, i) /\ ~Creating(m, i)'
      BY <1>2, <1>7, <2>2 DEF Taken, Clears, Creating
    <3>2. \A m \in Spaces, i \in Indices : m # n => Untouched(m, i)
      <4> HIDE DEF q
      <4>1. /\ \A m \in Spaces : m # n => known'[m] = known[m]
            /\ \A m \in Spaces, i \in Indices : m # n =>
                 /\ Going(m, i)' <=> Going(m, i)
                 /\ Coming(m, i)' <=> Coming(m, i)
                 /\ InOrder(Stream(m), m, i) => InOrder(Stream(m), m, i)'
        BY <1>1, <1>2, <1>5, HandlesAny
      <4> QED
        BY <4>1 DEF Untouched
    <3>3. \A m \in Spaces, i \in Indices : m # n => /\ New(m, i)' <=> New(m, i) \/ (m = dst /\ i = j)
                                                    /\ Dropping(m, i)' <=> Dropping(m, i)
      <4>1. \A i \in Indices : New(dst, i)' <=> New(dst, i) \/ i = j
        BY <1>4, <1>9, NewlinkIsNotice DEF New
      <4>2. \A i : Dropping(dst, i)' <=> Dropping(dst, i)
        BY <1>9 DEF Dropping
      <4>3. \A m \in Spaces, i \in Indices : m # n /\ m # dst =>
              (New(m, i)' <=> New(m, i)) /\ (Dropping(m, i)' <=> Dropping(m, i))
        <5>1. \A m \in Spaces : m # n /\ m # dst => nl'[m] = nl[m]
          BY <1>9
        <5> QED
          BY <5>1 DEF New, Dropping, Drop1
      <4> QED
        BY <4>1, <4>2, <4>3
    <3>4. \A i \in Indices : ~New(n, i)' /\ (Dropping(n, i)' <=> i = c)
      <4>1. /\ \A k \in DOMAIN nl'[n] : nl'[n][k].type = "DELLINK"
            /\ \A i : Drop1(nl'[n], i) <=> i = c
        BY <1>9
      <4> QED
        BY <4>1 DEF New, Dropping
    <3>5. \A m \in Spaces : DropFirst(nl[m]) => DropFirst(nl'[m])
      BY <1>9
    <3>6. LeavesFor(n, c, dst, j)
      BY <1>10, <3>2, <3>3, <3>4, <3>5 DEF LeavesFor
    <3>7. db' = db /\ moved' = moved /\ pc' = pc
      BY <1>2 DEF ctlVars
    <3> QED
      BY <1>1, <1>2, <1>3, <1>12, <1>13, <3>1, <3>6, <3>7, LeaveLive DEF q
  <2>4. OpInHand'
    BY <1>7 DEF OpInHand, Commanded
  <2>5. Objects'
    <3>1. db' = db /\ moved' = moved /\ handle' = handle /\ gone' = gone
      BY <1>2 DEF ctlVars
    <3>2. Objects
      BY <1>1, <1>3
    <3> QED
      BY <3>1, <3>2, <2>1 DEF Objects
  <2>6. OpObjects'
    BY <1>1, <1>2, <1>3, <1>7 DEF OpObjects, Commanded, ctlVars
  <2>7. TrueHandles'
    <3> SUFFICES ASSUME "timeout" \notin faults
                 PROVE  /\ \A e \in Devs : Usable(e) => where'[e] = handle[e]
                        /\ \A e \in Devs : moved[e] # Unmoved => TrueMove(e)'
      BY <1>2, <1>7, <2>1 DEF TrueHandles, ctlVars
    <3>1. ASSUME NEW e \in Devs, Usable(e) PROVE where'[e] = handle[e]
      <4>1. where[e] = handle[e]
        BY <1>1, <1>3, <3>1 DEF TrueHandles
      <4>2. e # x
        BY <1>4, <1>13, <3>1, <4>1 DEF Holds
      <4> QED
        BY <1>4, <4>1, <4>2
    <3>2. ASSUME NEW e \in Devs, moved[e] # Unmoved PROVE TrueMove(e)'
      <4>1. TrueMove(e)
        BY <1>1, <1>3, <3>2 DEF TrueHandles
      <4>2. moved' = moved
        BY <1>2 DEF ctlVars
      <4>3. CASE e = call.d
        <5>1. moved[e].new = NoIdx /\ moved[e].dst # Root
          BY <1>1, <1>2, <1>3, <4>3 DEF OpObjects, Commanded
        <5> QED
          BY <1>2, <1>7, <4>1, <4>2, <4>3, <5>1 DEF TrueMove, Own
      <4>4. CASE e # call.d
        <5>1. where'[e] = where[e]
          BY <1>4, <1>14, <4>4
        <5> QED
          BY <1>2, <1>7, <4>1, <4>2, <4>4, <5>1 DEF TrueMove, Own
      <4> QED
        BY <4>3, <4>4
    <3> QED
      BY <3>1, <3>2
  <2> QED
    BY <2>3, <2>4, <2>5, <2>6, <2>7 DEF LiveInv
<1> QED
  BY <1>8, <1>11, <1>15, <1>16 DEF DeviceInv

LEMMA ip_link_set_Inv ==
  ASSUME DeviceInv, ip_link_set
  PROVE  DeviceInv'
<1>1. KernelTypes /\ AgentTypes /\ CtlTypes /\ CallOps /\ (pc # "failed" => Stage)
  BY DEF DeviceInv, Types, Working
<1>2. /\ Commanded("set_dev_netns")
      /\ call.op = "set_dev_netns" /\ call.at = "sent" /\ call.ns \in Spaces /\ pc # "failed"
      /\ managed' = managed /\ dying' = dying /\ batch' = batch /\ ctlVars' = ctlVars /\ faults' = faults
      /\ UNCHANGED <<dying, managed, batch, ctlVars, faults>>
  BY <1>1 DEF ip_link_set, Commanded, CallOps, NoCall
<1>3. call.ns \in managed
  BY <1>1, <1>2 DEF CallOps, Stage
<1>4. CASE call.dst = Root
  <2>1. /\ Handles(call.ns, Dump(where, call.ns), Exception)
        /\ nl' = [nl EXCEPT ![call.ns] = <<>>] /\ where' = where
        /\ call' = [call EXCEPT !.at = "answered", !.val = {}]
    BY <1>4 DEF ip_link_set, Rescans, Answered, AnsweredWith
  <2>2. "raise" \in faults
    <3>1. pc = "test"
      BY <1>1, <1>2 DEF CallOps
    <3> QED
      BY <1>2, <1>4, <3>1 DEF DeviceInv, Live, LiveInv, OpInHand
  <2>3. CommandStep(call.ns, Dump(where, call.ns), Exception, {})
    BY <1>2, <1>4, <2>1, <2>2, DumpTells, ResultFacts DEF CommandStep, Waiting
  <2>4. Stage'
    <3>1. call'.op = call.op /\ call'.at = "answered" /\ call'.ns = call.ns /\ UNCHANGED ctlVars
      BY <1>1, <1>2, <2>1 DEF CtlTypes, Calls
    <3> QED
      BY <1>1, <1>2, <3>1 DEF CallOps, Stage, ctlVars, Commanded
  <2> QED
    BY <1>2, <1>3, <1>4, <2>1, <2>3, <2>4, RescanInv
<1>5. CASE call.dst # Root
  <2>1. PICK x \in Met, j \in NewIndices(call.dst, call.idx) :
          /\ Rescans(call.ns, <<>>)
          /\ nl' = [nl EXCEPT ![call.ns] = <<MOVED(call.idx, j)>>, ![call.dst] = Append(@, NEWLINK(j))]
          /\ where' = [where EXCEPT ![x] = <<call.dst, j>>]
          /\ call' = [call EXCEPT !.at = "linked"]
    BY <1>5 DEF ip_link_set
  <2> QED
    BY <1>2, <1>5, <2>1, moved_Inv
<1> QED
  BY <1>4, <1>5

\* The device that is to be destroyed is destroyed.
LEMMA destroyed_Inv ==
  ASSUME DeviceInv, Commanded("destroy"), NEW n, NEW c, n = call.ns, c = call.idx,
         NEW x \in Met, x \in Soft,
         Rescans(n, Result),
         nl' = [nl EXCEPT ![n] = <<DELLINK(c)>>],
         where' = [where EXCEPT ![x] = Nowhere],
         call' = [call EXCEPT !.at = "answered", !.val = {}],
         UNCHANGED <<dying, managed, batch, ctlVars, faults>>
  PROVE  DeviceInv'
<1>1. /\ KernelTypes /\ AgentTypes /\ QueueTypes /\ CtlTypes /\ CallOps /\ OnlyStaleEventsFail
      /\ pc # "failed" => Stage /\ OneAnswer /\ Exceptions /\ Unmanaged /\ Cleared /\ OwnMove
      /\ Live => /\ OneDel /\ Shape /\ Links /\ Pending /\ InHand
                 /\ OpInHand /\ Objects /\ OpObjects /\ Chain /\ TrueHandles
  BY DEF DeviceInv, Types, Working, LiveInv
<1> DEFINE q == Dump(where, n)
<1>2. /\ call.op = "destroy" /\ call.at = "sent" /\ call.val = {} /\ call.d \in Devs
      /\ n \in Spaces /\ c \in Indices /\ pc = "test"
      /\ dying' = dying /\ managed' = managed /\ batch' = batch /\ ctlVars' = ctlVars /\ faults' = faults
      /\ UNCHANGED ctlVars
  BY <1>1 DEF Commanded, CallOps
<1>3. Live /\ ~Early /\ managed = Spaces /\ pc # "failed"
  BY <1>1, <1>2 DEF Live, Early, Stage
<1>4. /\ x \in Devs /\ where[x] = <<n, c>>
      /\ where' \in [Devs -> Place] /\ where'[x] = Nowhere
      /\ \A e \in Devs : e # x => where'[e] = where[e] /\ where[e] # <<n, c>>
  <2>1. x \in Devs /\ where[x] = <<n, c>>
    BY DEF Met
  <2>2. \A e \in Devs : e # x => where[e] # <<n, c>>
    <3>1. \A e \in Devs : where[e] = where[x] /\ where[x] # Nowhere => e = x
      BY <1>1, <2>1 DEF KernelTypes
    <3> QED
      BY <2>1, <3>1 DEF Nowhere
  <2> QED
    BY <1>1, <2>1, <2>2 DEF KernelTypes, Place
<1>5. /\ q \in Seq(LinkMessages) /\ Plain(q) /\ \A k \in DOMAIN q : q[k].type # "DELLINK"
      /\ Handles(n, q, Result)
  BY DumpTells DEF Rescans
<1>6. CommandStep(n, q, Result, {})
  <2> HIDE DEF q
  <2> QED
    BY <1>2, <1>5, ResultFacts DEF CommandStep, Waiting
<1>7. /\ call'.val = {}
      /\ call'.op = "destroy" /\ call'.ns = n /\ call'.d = call.d /\ call'.idx = c
      /\ call'.at = "answered"
  BY <1>1, <1>2 DEF CtlTypes, Calls
<1>8. /\ AgentTypes' /\ QueueTypes' /\ CtlTypes' /\ CallOps' /\ OnlyStaleEventsFail'
      /\ (Live' <=> Live) /\ (Early' <=> Early) /\ pc' = pc
  <2>1. managed' \subseteq Spaces
    BY <1>2, <1>3
  <2> QED
    BY <1>1, <1>6, <2>1, CommandTypes
<1>9. /\ nl' \in [Spaces -> Seq(Notices)]
      /\ \A k \in DOMAIN nl'[n] : nl'[n][k].type = "DELLINK" /\ nl'[n][k].idx = c /\ nl'[n][k].new = NoIdx
      /\ DropFirst(nl'[n])
      /\ \A i : Drop1(nl'[n], i) <=> i = c
      /\ \A m \in Spaces : m # n => nl'[m] = nl[m]
  <2>1. nl'[n] = <<Link("DELLINK", c, NoIdx)>> /\ \A m \in Spaces : m # n => nl'[m] = nl[m]
    BY <1>1, <1>2 DEF KernelTypes, DELLINK
  <2>2. /\ nl'[n] \in Seq(Notices)
        /\ \A k \in DOMAIN nl'[n] : nl'[n][k].type = "DELLINK" /\ nl'[n][k].idx = c /\ nl'[n][k].new = NoIdx
        /\ DropFirst(nl'[n])
        /\ \A i : Drop1(nl'[n], i) <=> i = c
    <3>1. c \in Indices /\ NoIdx \in Indices \union {NoIdx} /\ nl'[n] = <<Link("DELLINK", c, NoIdx)>>
      BY <1>2, <2>1
    <3> QED
      BY ONLY <3>1, OneNotice
  <2>3. nl' \in [Spaces -> Seq(Notices)]
    <3>1. \A m \in Spaces : nl'[m] \in Seq(Notices)
      BY <1>1, <2>1, <2>2 DEF KernelTypes
    <3>2. nl' = [m \in Spaces |-> nl'[m]]
      BY <1>1 DEF KernelTypes
    <3> QED
      BY <3>1, <3>2
  <2> QED
    BY <2>1, <2>2, <2>3
<1>10. /\ \A i \in Indices : i \in At(where, n)' <=> i \in At(where, n) /\ i # c
       /\ \A m \in Spaces, i \in Indices : m # n => (i \in At(where, m)' <=> i \in At(where, m))
  <2>1. ASSUME NEW m \in Spaces, NEW i \in Indices
        PROVE  (\E e \in Devs : where'[e] = <<m, i>>) <=>
                 (\E e \in Devs : where[e] = <<m, i>>) /\ ~(m = n /\ i = c)
    <3>1. ASSUME NEW e \in Devs, where'[e] = <<m, i>>
          PROVE  (\E f \in Devs : where[f] = <<m, i>>) /\ ~(m = n /\ i = c)
      <4>1. e # x
        BY <1>4, <3>1 DEF Nowhere
      <4>2. where[e] = <<m, i>> /\ ~(m = n /\ i = c)
        BY <1>4, <3>1, <4>1
      <4> QED
        BY <4>2
    <3>2. ASSUME NEW e \in Devs, where[e] = <<m, i>>, ~(m = n /\ i = c)
          PROVE  \E f \in Devs : where'[f] = <<m, i>>
      <4>1. e # x
        BY <1>4, <3>2
      <4> QED
        BY <1>4, <3>2, <4>1
    <3> QED
      BY <3>1, <3>2
  <2>2. ASSUME NEW m \in Spaces, NEW i \in Indices
        PROVE  /\ i \in At(where, m) <=> \E e \in Devs : where[e] = <<m, i>>
               /\ i \in At(where, m)' <=> \E e \in Devs : where'[e] = <<m, i>>
    BY DEF At
  <2>3. ASSUME NEW m \in Spaces, NEW i \in Indices
        PROVE  i \in At(where, m)' <=> i \in At(where, m) /\ ~(m = n /\ i = c)
    <3>1. (\E e \in Devs : where'[e] = <<m, i>>) <=> (\E e \in Devs : where[e] = <<m, i>>) /\ ~(m = n /\ i = c)
      BY <2>1
    <3>2. /\ i \in At(where, m) <=> \E e \in Devs : where[e] = <<m, i>>
          /\ i \in At(where, m)' <=> \E e \in Devs : where'[e] = <<m, i>>
      BY <2>2
    <3> QED
      BY <3>1, <3>2
  <2> QED
    BY <1>2, <2>3
<1>11. Types'
  <2>1. KernelTypes'
    <3>1. \A e \in dying' : where'[e] = Nowhere
      BY <1>1, <1>2, <1>4 DEF KernelTypes, Devs
    <3>2. \A e, f \in Devs : where'[e] = where'[f] /\ where'[e] # Nowhere => e = f
      BY <1>1, <1>4 DEF KernelTypes
    <3> QED
      BY <1>1, <1>2, <1>4, <1>9, <3>1, <3>2 DEF KernelTypes
  <2> QED
    BY <1>8, <2>1 DEF Types
<1>12. \A i \in Indices : HandledAt(n, q, i, TRUE)
  <2> HIDE DEF q
  <2> QED
    BY <1>1, <1>2, <1>3, <1>5, HandlesOn
<1>13. Taken(n, c) /\ Settled(n, c) /\ ~Going(n, c) /\ ~Coming(n, c) /\ ~Holds(n, c)
  <2>1. Taken(n, c)
    BY <1>2 DEF Taken
  <2> QED
    BY <1>1, <1>2, <1>3, <2>1 DEF InHand, OpInHand, Commanded
<1>14. "timeout" \notin faults => call.d = x
  <2>1. "timeout" \notin faults => where[call.d] = <<n, c>>
    BY <1>1, <1>2, <1>3 DEF TrueHandles
  <2> QED
    BY <1>2, <1>4, <2>1
<1>15. Working'
  <2>1. Stage'
    BY <1>1, <1>2, <1>3, <1>7, <1>8 DEF Stage, Commanded, ctlVars
  <2>2. /\ OneAnswer' /\ Exceptions' /\ Unmanaged' /\ Cleared'
        /\ \A m \in Sent' : m.type = "dev_netns_changed" =>
             \/ m \in Sent
             \/ \E k \in Spaces : \E l \in DOMAIN nl[k] : m.ns = k /\ nl[k][l].idx = m.idx
                                                          /\ nl[k][l].new = m.new /\ m.new # NoIdx
    <3>1. \A m \in Spaces \ managed' : nl'[m] = nl[m] /\ At(where, m)' = At(where, m)
      BY <1>2, <1>3
    <3> HIDE DEF q
    <3> QED
      BY <1>1, <1>2, <1>3, <1>6, <1>12, <3>1, CommandWorking
  <2>3. OwnMove'
    <3> SUFFICES ASSUME "timeout" \notin faults
                 PROVE  /\ \A m \in Sent' : m.type # "dev_netns_changed"
                        /\ \A m \in Spaces : \A k \in DOMAIN nl'[m] : nl'[m][k].new = NoIdx
      BY <1>2 DEF OwnMove
    <3>1. /\ \A m \in Sent : m.type # "dev_netns_changed"
          /\ \A m \in Spaces : \A k \in DOMAIN nl[m] : nl[m][k].new = NoIdx
      BY <1>1, <1>2, <1>3, NoMoveYet
    <3>2. \A m \in Sent' : m.type # "dev_netns_changed"
      BY <2>2, <3>1
    <3> QED
      BY <1>9, <3>1, <3>2
  <2> QED
    BY <2>1, <2>2, <2>3 DEF Working
<1>16. LiveInv'
  <2>1. \A d : Usable(d)' <=> Usable(d)
    BY <1>2 DEF ctlVars, Usable
  <2>2. \A m, i : Holds(m, i)' <=> Holds(m, i)
    BY <1>2, <2>1 DEF Holds, ctlVars
  <2>3. OneDel' /\ Shape' /\ Links' /\ Pending' /\ InHand' /\ Chain'
    <3>1. \A m \in Spaces, i \in Indices : /\ Taken(m, i)' => Holds(m, i)
                                           /\ ~Clears(m, i)' /\ ~Creating(m, i) /\ ~Creating(m, i)'
      BY <1>2, <1>7, <2>2 DEF Taken, Clears, Creating
    <3>2. \A m \in Spaces, i \in Indices : m # n => Untouched(m, i)
      <4> HIDE DEF q
      <4>1. /\ \A m \in Spaces : m # n => known'[m] = known[m]
            /\ \A m \in Spaces, i \in Indices : m # n =>
                 /\ Going(m, i)' <=> Going(m, i)
                 /\ Coming(m, i)' <=> Coming(m, i)
                 /\ InOrder(Stream(m), m, i) => InOrder(Stream(m), m, i)'
        BY <1>1, <1>2, <1>5, HandlesAny
      <4> QED
        BY <4>1 DEF Untouched
    <3>3. \A m \in Spaces, i \in Indices : m # n => /\ New(m, i)' <=> New(m, i)
                                                    /\ Dropping(m, i)' <=> Dropping(m, i)
      <4>1. \A m \in Spaces : m # n => nl'[m] = nl[m]
        BY <1>9
      <4> QED
        BY <4>1 DEF New, Dropping, Drop1
    <3>4. \A i \in Indices : ~New(n, i)' /\ (Dropping(n, i)' <=> i = c)
      <4>1. /\ \A k \in DOMAIN nl'[n] : nl'[n][k].type = "DELLINK"
            /\ \A i : Drop1(nl'[n], i) <=> i = c
        BY <1>9
      <4> QED
        BY <4>1 DEF New, Dropping
    <3>5. \A m \in Spaces : DropFirst(nl[m]) => DropFirst(nl'[m])
      BY <1>9
    <3>6. LeavesFor(n, c, n, NoIdx)
      BY <1>10, <3>2, <3>3, <3>4, <3>5 DEF LeavesFor
    <3>7. db' = db /\ moved' = moved /\ pc' = pc
      BY <1>2 DEF ctlVars
    <3> QED
      BY <1>1, <1>2, <1>3, <1>12, <1>13, <3>1, <3>6, <3>7, LeaveLive DEF q
  <2>4. OpInHand'
    BY <1>7 DEF OpInHand, Commanded
  <2>5. Objects'
    <3>1. db' = db /\ moved' = moved /\ handle' = handle /\ gone' = gone
      BY <1>2 DEF ctlVars
    <3>2. Objects
      BY <1>1, <1>3
    <3> QED
      BY <3>1, <3>2, <2>1 DEF Objects
  <2>6. OpObjects'
    BY <1>1, <1>2, <1>3, <1>7 DEF OpObjects, Commanded, ctlVars
  <2>7. TrueHandles'
    <3> SUFFICES ASSUME "timeout" \notin faults
                 PROVE  /\ \A e \in Devs : Usable(e) => where'[e] = handle[e]
                        /\ \A e \in Devs : moved[e] # Unmoved => TrueMove(e)'
      BY <1>2, <1>7, <2>1 DEF TrueHandles, ctlVars
    <3>1. ASSUME NEW e \in Devs, Usable(e) PROVE where'[e] = handle[e]
      <4>1. where[e] = handle[e]
        BY <1>1, <1>3, <3>1 DEF TrueHandles
      <4>2. e # x
        BY <1>4, <1>13, <3>1, <4>1 DEF Holds
      <4> QED
        BY <1>4, <4>1, <4>2
    <3>2. ASSUME NEW e \in Devs, moved[e] # Unmoved PROVE TrueMove(e)'
      <4>1. TrueMove(e)
        BY <1>1, <1>3, <3>2 DEF TrueHandles
      <4>2. moved' = moved
        BY <1>2 DEF ctlVars
      <4>3. e # x
        BY <1>1, <1>2, <1>3, <1>14, <3>2 DEF Objects, OpObjects
      <4>4. where'[e] = where[e]
        BY <1>4, <4>3
      <4> QED
        BY <1>2, <1>7, <4>1, <4>2, <4>4 DEF TrueMove, Own
    <3> QED
      BY <3>1, <3>2
  <2> QED
    BY <2>3, <2>4, <2>5, <2>6, <2>7 DEF LiveInv
<1> QED
  BY <1>8, <1>11, <1>15, <1>16 DEF DeviceInv

LEMMA destroy_Inv ==
  ASSUME DeviceInv, destroy
  PROVE  DeviceInv'
<1>1. KernelTypes /\ AgentTypes /\ CtlTypes /\ CallOps /\ (pc # "failed" => Stage)
  BY DEF DeviceInv, Types, Working
<1>2. /\ Commanded("destroy") /\ call' = [call EXCEPT !.at = "answered", !.val = {}]
      /\ call.op = "destroy" /\ call.at = "sent" /\ call.ns \in Spaces /\ pc # "failed" /\ pc = "test"
      /\ managed' = managed /\ dying' = dying /\ batch' = batch /\ ctlVars' = ctlVars /\ faults' = faults
      /\ UNCHANGED <<dying, managed, batch, ctlVars, faults>>
  BY <1>1 DEF destroy, Commanded, CallOps, NoCall, Answered, AnsweredWith
<1>3. call.ns \in managed
  BY <1>1, <1>2 DEF Stage
<1>4. PICK x \in Met :
        IF x \in Soft
          THEN /\ Rescans(call.ns, Result)
               /\ where' = [where EXCEPT ![x] = Nowhere]
               /\ nl' = [nl EXCEPT ![call.ns] = <<DELLINK(call.idx)>>]
          ELSE /\ Rescans(call.ns, Exception)
               /\ nl' = [nl EXCEPT ![call.ns] = <<>>]
               /\ UNCHANGED where
  BY DEF destroy
<1>5. CASE x \in Soft
  <2>1. /\ Rescans(call.ns, Result)
        /\ where' = [where EXCEPT ![x] = Nowhere]
        /\ nl' = [nl EXCEPT ![call.ns] = <<DELLINK(call.idx)>>]
    BY <1>4, <1>5
  <2> QED
    BY <1>2, <1>5, <2>1, destroyed_Inv
<1>6. CASE x \notin Soft
  <2>1. /\ Handles(call.ns, Dump(where, call.ns), Exception)
        /\ nl' = [nl EXCEPT ![call.ns] = <<>>] /\ where' = where
    BY <1>4, <1>6 DEF Rescans
  <2>2. "raise" \in faults
    <3>1. OpInHand
      BY <1>2 DEF DeviceInv, Live, LiveInv
    <3>2. x \in Devs /\ where[x] = <<call.ns, call.idx>>
      BY DEF Met
    <3>3. ASSUME NEW y \in Soft, where[y] = <<call.ns, call.idx>> PROVE FALSE
      <4>1. y \in Devs /\ y # x
        BY <1>6 DEF Devs
      <4>2. where[y] = where[x] /\ where[x] # Nowhere
        BY <3>2, <3>3 DEF Nowhere
      <4> QED
        BY <1>1, <3>2, <4>1, <4>2 DEF KernelTypes
    <3> QED
      BY <1>2, <3>1, <3>3 DEF OpInHand
  <2>3. CommandStep(call.ns, Dump(where, call.ns), Exception, {})
    BY <1>2, <2>1, <2>2, DumpTells, ResultFacts DEF CommandStep, Waiting
  <2>4. Stage'
    <3>1. call'.op = call.op /\ call'.at = "answered" /\ call'.ns = call.ns /\ UNCHANGED ctlVars
      BY <1>1, <1>2 DEF CtlTypes, Calls
    <3> QED
      BY <1>1, <1>2, <3>1 DEF CallOps, Stage, ctlVars, Commanded
  <2> QED
    BY <1>2, <1>3, <2>1, <2>3, <2>4, RescanInv
<1> QED
  BY <1>5, <1>6

\* What the agent is told when it has created a device with index j.
CreatedDump(w, n, j) == <<CREATED(j)>> \o Dump(w, n)

\* The device that is created is told of, but not as one that has come.
LEMMA CreatedTells ==
  ASSUME NEW w, NEW n, NEW j \in Indices, j \in At(w, n), NEW q, q = CreatedDump(w, n, j)
  PROVE  /\ q \in Seq(LinkMessages) /\ Plain(q) /\ \A k \in DOMAIN q : q[k].type # "DELLINK"
         /\ \A i \in Indices : /\ Makes(q, i) <=> i = j
                               /\ TellsQ(q, i) <=> i \in At(w, n)
         /\ ~NewFirst(q, j)
<1> DEFINE m == CREATED(j)
           r == Dump(w, n)
<1>1. m \in LinkMessages /\ m.type = "CREATED" /\ m.idx = j /\ m.new = NoIdx
  BY DEF CREATED, Link, LinkMessages
<1>2. /\ r \in Seq(LinkMessages)
      /\ \A k \in DOMAIN r : r[k].type = "NEWLINK" /\ r[k].new = NoIdx /\ r[k].idx \in At(w, n)
      /\ \A i \in At(w, n) : \E k \in DOMAIN r : r[k] = NEWLINK(i)
  BY DumpNotices, DumpIsAll
<1>3. q = <<m>> \o r
  BY DEF CreatedDump
<1> HIDE DEF m, r
<1>4. /\ <<m>> \in Seq(LinkMessages) /\ DOMAIN <<m>> = {1} /\ <<m>>[1] = m /\ Len(<<m>>) = 1
  BY <1>1
<1>5. /\ q \in Seq(LinkMessages) /\ 1 \in DOMAIN q /\ q[1] = m
      /\ \A k \in DOMAIN r : 1 + k \in DOMAIN q /\ q[1 + k] = r[k]
      /\ \A k \in DOMAIN q : k = 1 \/ (k - 1 \in DOMAIN r /\ q[k] = r[k - 1] /\ k > 1)
  <2>1. /\ q \in Seq(LinkMessages)
        /\ \A k \in DOMAIN <<m>> : k \in DOMAIN q /\ q[k] = <<m>>[k]
        /\ \A k \in DOMAIN r : Len(<<m>>) + k \in DOMAIN q /\ q[Len(<<m>>) + k] = r[k]
        /\ \A k \in DOMAIN q : k \in DOMAIN <<m>> \/ (k - Len(<<m>>) \in DOMAIN r /\ k > Len(<<m>>))
    <3>1. <<m>> \in Seq(LinkMessages) /\ r \in Seq(LinkMessages) /\ q = <<m>> \o r
      BY <1>2, <1>3, <1>4
    <3> QED
      BY ONLY <3>1, Positions
  <2>2. DOMAIN q \subseteq Nat
    BY <2>1
  <2>3. ASSUME NEW k \in DOMAIN q, k # 1 PROVE k - 1 \in DOMAIN r /\ q[k] = r[k - 1] /\ k > 1
    <3>1. k - 1 \in DOMAIN r /\ k > 1
      BY <1>4, <2>1, <2>3
    <3>2. q[1 + (k - 1)] = r[k - 1]
      BY <1>4, <2>1, <3>1
    <3> QED
      BY <2>2, <2>3, <3>1, <3>2
  <2> QED
    BY <1>4, <2>1, <2>3
<1>6. Plain(q) /\ \A k \in DOMAIN q : q[k].type # "DELLINK"
  <2>1. ASSUME NEW k \in DOMAIN q PROVE q[k].new = NoIdx /\ q[k].type # "DELLINK"
    <3>1. CASE k = 1
      BY <1>1, <1>5, <3>1
    <3>2. CASE k # 1
      BY <1>2, <1>5, <3>2
    <3> QED
      BY <3>1, <3>2
  <2> QED
    BY <2>1 DEF Plain
<1>7. \A i \in Indices : Makes(q, i) <=> i = j
  <2>1. ASSUME NEW i \in Indices, NEW k \in DOMAIN q, q[k].type = "CREATED", q[k].idx = i PROVE i = j
    BY <1>1, <1>2, <1>5, <2>1
  <2>2. \E k \in DOMAIN q : q[k].type = "CREATED" /\ q[k].idx = j
    BY <1>1, <1>5
  <2> QED
    BY <2>1, <2>2 DEF Makes
<1>8. ASSUME NEW i \in Indices PROVE TellsQ(q, i) <=> i \in At(w, n)
  <2>1. ASSUME NEW k \in DOMAIN q, Tells(q[k], i) PROVE i \in At(w, n)
    BY <1>1, <1>2, <1>5, <2>1 DEF Tells
  <2>2. ASSUME i \in At(w, n) PROVE \E k \in DOMAIN q : Tells(q[k], i)
    <3>1. PICK k \in DOMAIN r : r[k] = NEWLINK(i)
      BY <1>2, <2>2
    <3>2. Tells(q[1 + k], i) /\ 1 + k \in DOMAIN q
      BY <1>5, <3>1, NewlinkIsNotice DEF Tells
    <3> QED
      BY <3>2
  <2> QED
    BY <2>1, <2>2 DEF TellsQ
<1>9. ~NewFirst(q, j)
  <2> SUFFICES ASSUME NEW l \in DOMAIN q, q[l].type = "NEWLINK" PROVE \E k \in 1..(l - 1) : Tells(q[k], j)
    BY DEF NewFirst
  <2>1. l > 1 /\ l \in Nat
    BY <1>1, <1>5
  <2>2. 1 \in 1..(l - 1) /\ Tells(q[1], j)
    BY <1>1, <1>5, <2>1 DEF Tells
  <2> QED
    BY <2>2
<1> QED
  BY <1>5, <1>6, <1>7, <1>8, <1>9

\* A device x comes to index j of n, whose agent is told of all that is there, and
\* that is what the command answers.
LEMMA created_Inv ==
  ASSUME DeviceInv, Commanded("create"), NEW n, NEW x, NEW j \in NewIndices(n, 0), NEW w, NEW q,
         n = call.ns, x = call.d, w = where', q = CreatedDump(w, n, j),
         where' = [where EXCEPT ![x] = <<n, j>>],
         Handles(n, q, Result),
         call' = [call EXCEPT !.at = "answered", !.val = {j}],
         nl' = [nl EXCEPT ![n] = <<>>],
         UNCHANGED <<dying, managed, batch, ctlVars, faults>>
  PROVE  DeviceInv'
<1>1. /\ KernelTypes /\ AgentTypes /\ QueueTypes /\ CtlTypes /\ CallOps /\ OnlyStaleEventsFail
      /\ pc # "failed" => Stage /\ OneAnswer /\ Exceptions /\ Unmanaged /\ Cleared /\ OwnMove
      /\ Live => /\ OneDel /\ Shape /\ Links /\ Pending /\ InHand
                 /\ OpInHand /\ Objects /\ OpObjects /\ Chain /\ TrueHandles
  BY DEF DeviceInv, Types, Working, LiveInv
<1>2. /\ where' = [where EXCEPT ![x] = <<n, j>>] /\ Handles(n, q, Result)
      /\ call' = [call EXCEPT !.at = "answered", !.val = {j}] /\ nl' = [nl EXCEPT ![n] = <<>>]
  OBVIOUS
<1>3. /\ call.op = "create" /\ call.at = "sent" /\ call.val = {}
      /\ n \in Spaces /\ x \in Soft /\ x \in Devs /\ pc = "test" /\ call.ns = n /\ call.d = x
      /\ dying' = dying /\ managed' = managed /\ batch' = batch /\ ctlVars' = ctlVars /\ faults' = faults
      /\ UNCHANGED ctlVars
  BY <1>1 DEF Commanded, CallOps, Devs
<1>4. Live /\ ~Early /\ managed = Spaces /\ pc # "failed"
  BY <1>1, <1>3 DEF Live, Early, Stage
<1>5. /\ j \in Indices /\ j \notin At(where, n) /\ where[x] = Nowhere /\ where'[x] = <<n, j>>
      /\ where' \in [Devs -> Place] /\ \A e \in Devs : where[e] # <<n, j>>
      /\ \A e \in Devs : e # x => where'[e] = where[e]
  <2>1. j \in Indices /\ j \notin At(where, n)
    BY DEF NewIndices
  <2>2. where[x] = Nowhere
    BY <1>1, <1>3, <1>4 DEF OpInHand, Commanded
  <2>3. <<n, j>> \in Place
    BY <1>3, <2>1 DEF Place
  <2>4. \A e \in Devs : where[e] # <<n, j>>
    BY <2>1 DEF At
  <2> QED
    BY <1>1, <1>2, <1>3, <2>1, <2>2, <2>3, <2>4 DEF KernelTypes
<1>6. /\ \A m \in Spaces, i \in Indices : i \in At(where, m)' <=> i \in At(where, m) \/ (m = n /\ i = j)
      /\ j \in At(w, n) /\ \A i \in Indices : i \in At(w, n) <=> i \in At(where, n) \/ i = j
  <2>1. ASSUME NEW m \in Spaces, NEW i \in Indices
        PROVE  (\E e \in Devs : where'[e] = <<m, i>>) <=> (\E e \in Devs : where[e] = <<m, i>>) \/ (m = n /\ i = j)
    <3>1. ASSUME NEW e \in Devs, where'[e] = <<m, i>>
          PROVE  (\E f \in Devs : where[f] = <<m, i>>) \/ (m = n /\ i = j)
      BY <1>5, <3>1
    <3>2. ASSUME NEW e \in Devs, where[e] = <<m, i>> PROVE \E f \in Devs : where'[f] = <<m, i>>
      <4>1. e # x
        BY <1>5, <3>2 DEF Nowhere
      <4> QED
        BY <1>5, <3>2, <4>1
    <3>3. m = n /\ i = j => \E f \in Devs : where'[f] = <<m, i>>
      BY <1>3, <1>5
    <3> QED
      BY <3>1, <3>2, <3>3
  <2>2. ASSUME NEW m \in Spaces, NEW i \in Indices
        PROVE  /\ i \in At(where, m) <=> \E e \in Devs : where[e] = <<m, i>>
               /\ i \in At(where, m)' <=> \E e \in Devs : where'[e] = <<m, i>>
               /\ i \in At(w, m) <=> \E e \in Devs : where'[e] = <<m, i>>
    BY DEF At
  <2>3. ASSUME NEW m \in Spaces, NEW i \in Indices
        PROVE  /\ i \in At(where, m)' <=> i \in At(where, m) \/ (m = n /\ i = j)
               /\ i \in At(w, m) <=> i \in At(where, m) \/ (m = n /\ i = j)
    <3>1. (\E e \in Devs : where'[e] = <<m, i>>) <=> (\E e \in Devs : where[e] = <<m, i>>) \/ (m = n /\ i = j)
      BY <2>1
    <3> QED
      BY <2>2, <3>1
  <2> QED
    BY <1>3, <1>5, <2>3
<1>7. /\ q \in Seq(LinkMessages) /\ Plain(q) /\ \A k \in DOMAIN q : q[k].type # "DELLINK"
      /\ \A i \in Indices : /\ Makes(q, i) <=> i = j
                            /\ TellsQ(q, i) <=> i \in At(where, n) \/ i = j
      /\ ~NewFirst(q, j)
  <2>1. /\ q \in Seq(LinkMessages) /\ Plain(q) /\ \A k \in DOMAIN q : q[k].type # "DELLINK"
        /\ \A i \in Indices : /\ Makes(q, i) <=> i = j
                              /\ TellsQ(q, i) <=> i \in At(w, n)
        /\ ~NewFirst(q, j)
    <3>1. j \in Indices /\ j \in At(w, n) /\ q = CreatedDump(w, n, j)
      BY <1>5, <1>6
    <3> QED
      BY ONLY <3>1, CreatedTells
  <2> QED
    BY <1>6, <2>1
<1>8. CommandStep(n, q, Result, {j})
  BY <1>2, <1>3, <1>5, <1>7, ResultFacts DEF CommandStep, Waiting
<1>9. /\ call'.val = {j}
      /\ call'.op = "create" /\ call'.ns = n /\ call'.d = x
      /\ call'.at = "answered"
  BY <1>1, <1>2, <1>3 DEF CtlTypes, Calls
<1>10. /\ AgentTypes' /\ QueueTypes' /\ CtlTypes' /\ CallOps' /\ OnlyStaleEventsFail'
       /\ (Live' <=> Live) /\ (Early' <=> Early) /\ pc' = pc
  <2>1. managed' \subseteq Spaces
    BY <1>3, <1>4
  <2> QED
    BY <1>1, <1>8, <2>1, CommandTypes
<1>11. Types'
  <2>1. KernelTypes'
    <3>1. \A e \in dying' : where'[e] = Nowhere
      <4>1. \A e \in dying : e \in Devs /\ e # x
        BY <1>1, <1>3, MovesAssumption DEF KernelTypes, Devs
      <4> QED
        BY <1>1, <1>3, <1>5, <4>1 DEF KernelTypes
    <3>2. \A e, f \in Devs : where'[e] = where'[f] /\ where'[e] # Nowhere => e = f
      BY <1>1, <1>5 DEF KernelTypes
    <3>3. nl' \in [Spaces -> Seq(Notices)]
      BY <1>1, <1>2, <1>3, EmptySocket
    <3> QED
      BY <1>1, <1>3, <1>5, <3>1, <3>2, <3>3 DEF KernelTypes
  <2> QED
    BY <1>10, <2>1 DEF Types
<1>12. \A i \in Indices : HandledAt(n, q, i, TRUE)
  BY <1>1, <1>2, <1>3, <1>4, <1>7, HandlesOn
<1>13. /\ \A i : ~New(n, i)' /\ ~Dropping(n, i)'
       /\ \A m \in Spaces, i \in Indices : m # n => (New(m, i)' <=> New(m, i)) /\ (Dropping(m, i)' <=> Dropping(m, i))
       /\ \A m \in Spaces : nl'[m] = <<>> \/ nl'[m] = nl[m]
  BY <1>1, <1>2, <1>3, EmptySocket
<1>14. Working'
  <2>1. Stage'
    BY <1>1, <1>3, <1>4, <1>9, <1>10 DEF Stage, Commanded, ctlVars
  <2>2. /\ OneAnswer' /\ Exceptions' /\ Unmanaged' /\ Cleared'
        /\ \A m \in Sent' : m.type = "dev_netns_changed" =>
             \/ m \in Sent
             \/ \E k \in Spaces : \E l \in DOMAIN nl[k] : m.ns = k /\ nl[k][l].idx = m.idx
                                                          /\ nl[k][l].new = m.new /\ m.new # NoIdx
    <3>1. \A m \in Spaces \ managed' : nl'[m] = nl[m] /\ At(where, m)' = At(where, m)
      BY <1>3, <1>4
    <3> QED
      BY <1>1, <1>3, <1>4, <1>8, <1>12, <3>1, CommandWorking
  <2>3. OwnMove'
    <3> SUFFICES ASSUME "timeout" \notin faults
                 PROVE  /\ \A m \in Sent' : m.type # "dev_netns_changed"
                        /\ \A m \in Spaces : \A k \in DOMAIN nl'[m] : nl'[m][k].new = NoIdx
      BY <1>3 DEF OwnMove
    <3>1. /\ \A m \in Sent : m.type # "dev_netns_changed"
          /\ \A m \in Spaces : \A k \in DOMAIN nl[m] : nl[m][k].new = NoIdx
      BY <1>1, <1>3, <1>4, NoMoveYet
    <3>2. \A m \in Sent' : m.type # "dev_netns_changed"
      BY <2>2, <3>1
    <3> QED
      BY <1>13, <3>1, <3>2
  <2> QED
    BY <2>1, <2>2, <2>3 DEF Working
<1>15. LiveInv'
  <2>1. \A d : Usable(d)' <=> Usable(d)
    BY <1>3 DEF ctlVars, Usable
  <2>2. /\ \A m \in Spaces, i \in Indices : Taken(m, i)' <=> Holds(m, i)
        /\ \A m \in Spaces, i \in Indices : ~Creating(m, i) /\ ~Clears(m, i)
        /\ \A m \in Spaces, i \in Indices : Clears(m, i)' <=> m = n /\ i = j
        /\ \A m \in Spaces, i \in Indices : Creating(m, i)' <=> m = n /\ i = j
    <3>1. \A m, i : Holds(m, i)' <=> Holds(m, i)
      BY <1>3, <2>1 DEF Holds, ctlVars
    <3>2. \A m \in Spaces, i \in Indices : Taken(m, i)' <=> Holds(m, i)
      BY <1>9, <3>1 DEF Taken
    <3>3. \A m \in Spaces, i \in Indices : ~Creating(m, i) /\ ~Clears(m, i)
      BY <1>3 DEF Creating, Clears
    <3>4. \A m \in Spaces, i \in Indices : Clears(m, i)' <=> m = n /\ i = j
      BY <1>9 DEF Clears
    <3> QED
      BY <1>9, <3>2, <3>3, <3>4 DEF Creating
  <2>3. \A m \in Spaces, i \in Indices : m # n => Untouched(m, i)
    <3>1. /\ \A m \in Spaces : m # n => known'[m] = known[m]
          /\ \A m \in Spaces, i \in Indices : m # n =>
               /\ Going(m, i)' <=> Going(m, i)
               /\ Coming(m, i)' <=> Coming(m, i)
               /\ InOrder(Stream(m), m, i) => InOrder(Stream(m), m, i)'
      BY <1>1, <1>2, <1>3, <1>7, HandlesAny
    <3> QED
      BY <3>1 DEF Untouched
  <2>4. OneDel'
    <3>1. DropFirst(<<>>)
      BY DEF DropFirst
    <3> QED
      BY <1>1, <1>4, <1>10, <1>13, <3>1 DEF OneDel
  <2>5. Shape'
    <3> SUFFICES ASSUME NEW m \in Spaces, NEW i \in Indices PROVE InOrder(Stream(m), m, i)'
      BY DEF Shape
    <3>1. CASE m = n
      BY <1>12, <3>1 DEF HandledAt
    <3>2. CASE m # n
      BY <1>1, <1>4, <2>3, <3>2 DEF Untouched, Shape
    <3> QED
      BY <3>1, <3>2
  <2>6. ASSUME NEW m \in Spaces, NEW i \in Indices
        PROVE  /\ New(m, i)' => i \in At(where, m)'
               /\ Dropping(m, i)' => i \in known'[m] /\ ~Going(m, i)' /\ ~Coming(m, i)'
               /\ i \in At(where, m)' => New(m, i)' \/ (i \in known'[m] /\ ~Dropping(m, i)')
               /\ "overflow" \notin faults /\ i \in known'[m] /\ ~Dropping(m, i)' => i \in At(where, m)'
               /\ Coming(m, i)' => Settled(m, i)'
               /\ Going(m, i)' /\ ~Coming(m, i)' => i \notin known'[m] \/ (m = n /\ i = j)
               /\ Holds(m, i) => Settled(m, i)' /\ ~Going(m, i)' /\ ~Coming(m, i)'
               /\ m = n /\ i = j => Settled(m, i)' /\ ~Coming(m, i)' /\ ~Holds(m, i)
               /\ "raise" \notin faults =>
                    /\ db[m][i] # Nobody /\ ~Going(m, i)' /\ ~Coming(m, i)' => i \in known'[m]
                    /\ i \in known'[m] /\ ~Coming(m, i)' => db[m][i] # Nobody \/ (m = n /\ i = j) \/ Awaited(m, i)
    <3>1. /\ New(m, i) => i \in At(where, m)
          /\ Dropping(m, i) => i \in known[m] /\ ~Going(m, i) /\ ~Coming(m, i)
          /\ i \in At(where, m) => New(m, i) \/ (i \in known[m] /\ ~Dropping(m, i))
          /\ "overflow" \notin faults /\ i \in known[m] /\ ~Dropping(m, i) => i \in At(where, m)
      BY <1>1, <1>4 DEF Links
    <3>2. /\ Coming(m, i) => Settled(m, i)
          /\ Going(m, i) /\ ~Coming(m, i) => i \notin known[m]
      BY <1>1, <1>4, <2>2 DEF Pending
    <3>3. Holds(m, i) => Settled(m, i) /\ ~Going(m, i) /\ ~Coming(m, i)
      BY <1>1, <1>4 DEF InHand, Taken
    <3>4. "raise" \notin faults =>
            /\ db[m][i] # Nobody /\ ~Going(m, i) /\ ~Coming(m, i) => i \in known[m]
            /\ i \in known[m] /\ ~Coming(m, i) => db[m][i] # Nobody \/ Awaited(m, i)
      BY <1>1, <1>4, <2>2 DEF Chain, Awaited
    <3>5. /\ Settled(m, i) <=> i \in At(where, m) /\ i \in known[m] /\ ~Dropping(m, i)
          /\ Settled(m, i)' <=> i \in At(where, m)' /\ i \in known'[m] /\ ~Dropping(m, i)'
      BY DEF Settled
    <3>6. i \in At(where, m)' <=> i \in At(where, m) \/ (m = n /\ i = j)
      BY <1>6
    <3>7. CASE m = n
      <4>1. ~New(n, i)' /\ ~Dropping(n, i)'
        BY <1>13
      <4>2. /\ Makes(q, i) <=> i = j
            /\ TellsQ(q, i) <=> i \in At(where, n) \/ i = j
            /\ i = j => ~NewFirst(q, i)
        BY <1>7
      <4>3. /\ i \in known'[n] <=> New(n, i) \/ i \in At(where, n) \/ i = j \/ (i \in known[n] /\ ~Dropping(n, i))
            /\ Going(n, i)' <=> Going(n, i) \/ Dropping(n, i)
            /\ Coming(n, i) => Coming(n, i)'
            /\ Coming(n, i)' => \/ Coming(n, i)
                                \/ /\ New(n, i) \/ i \in At(where, n) \/ i = j
                                   /\ i \notin known[n] \/ Dropping(n, i)
                                   /\ i = j => New(n, i)
            /\ i \in known'[n] /\ ~Coming(n, i)' => i = j \/ (i \in known[n] /\ ~Dropping(n, i))
        BY <1>12, <4>2 DEF HandledAt
      <4>4. i = j => i \notin At(where, n)
        BY <1>5
      <4>5. /\ New(m, i)' => i \in At(where, m)'
            /\ Dropping(m, i)' => i \in known'[m] /\ ~Going(m, i)' /\ ~Coming(m, i)'
            /\ i \in At(where, m)' => New(m, i)' \/ (i \in known'[m] /\ ~Dropping(m, i)')
            /\ "overflow" \notin faults /\ i \in known'[m] /\ ~Dropping(m, i)' => i \in At(where, m)'
        BY <3>1, <3>6, <3>7, <4>1, <4>3
      <4>6. /\ Coming(m, i)' => Settled(m, i)'
            /\ Going(m, i)' /\ ~Coming(m, i)' => i \notin known'[m] \/ (m = n /\ i = j)
        BY <3>1, <3>2, <3>5, <3>6, <3>7, <4>1, <4>3
      <4>7. Holds(m, i) => Settled(m, i)' /\ ~Going(m, i)' /\ ~Coming(m, i)'
        BY <3>3, <3>5, <3>6, <3>7, <4>1, <4>3
      <4>8. m = n /\ i = j => Settled(m, i)' /\ ~Coming(m, i)' /\ ~Holds(m, i)
        BY <3>1, <3>2, <3>3, <3>5, <3>6, <3>7, <4>1, <4>3, <4>4
      <4>9. "raise" \notin faults =>
              /\ db[m][i] # Nobody /\ ~Going(m, i)' /\ ~Coming(m, i)' => i \in known'[m]
              /\ i \in known'[m] /\ ~Coming(m, i)' => db[m][i] # Nobody \/ (m = n /\ i = j) \/ Awaited(m, i)
        BY <3>4, <3>7, <4>3
      <4> QED
        BY <4>5, <4>6, <4>7, <4>8, <4>9
    <3>8. CASE m # n
      <4>1. /\ (New(m, i)' <=> New(m, i)) /\ (Dropping(m, i)' <=> Dropping(m, i))
            /\ known'[m] = known[m]
            /\ Going(m, i)' <=> Going(m, i)
            /\ Coming(m, i)' <=> Coming(m, i)
        BY <1>13, <2>3, <3>8 DEF Untouched
      <4> QED
        BY <3>1, <3>2, <3>3, <3>4, <3>5, <3>6, <3>8, <4>1
    <3> QED
      BY <3>7, <3>8
  <2>7. Links'
    BY <1>3, <2>6 DEF Links
  <2>8. Pending'
    BY <1>4, <1>10, <2>2, <2>6 DEF Pending
  <2>9. InHand'
    <3>1. call'.d = x /\ where'[x] = <<n, j>>
      BY <1>5, <1>9
    <3> QED
      BY <2>2, <2>6, <3>1 DEF InHand
  <2>10. OpInHand'
    BY <1>9 DEF OpInHand, Commanded
  <2>11. Objects' /\ OpObjects'
    <3>1. db' = db /\ moved' = moved /\ handle' = handle /\ gone' = gone
      BY <1>3 DEF ctlVars
    <3>2. Objects /\ OpObjects
      BY <1>1, <1>4
    <3>3. Objects'
      BY <2>1, <3>1, <3>2 DEF Objects
    <3> QED
      BY <1>3, <1>9, <3>1, <3>2, <3>3 DEF OpObjects, Commanded
  <2>12. Chain'
    <3>1. db' = db /\ moved' = moved /\ faults' = faults
      BY <1>3 DEF ctlVars
    <3> QED
      BY <2>2, <2>6, <3>1 DEF Chain, MovedFrom, Awaited
  <2>13. TrueHandles'
    <3> SUFFICES ASSUME "timeout" \notin faults
                 PROVE  /\ \A e \in Devs : Usable(e) => where'[e] = handle[e]
                        /\ \A e \in Devs : moved[e] # Unmoved => TrueMove(e)'
      BY <1>3, <1>9, <2>1 DEF TrueHandles, ctlVars
    <3>1. handle[x] = Nowhere /\ moved[x] = Unmoved
      BY <1>1, <1>3, <1>4 DEF OpObjects
    <3>2. \A e \in Devs : Usable(e) => where'[e] = handle[e]
      <4>1. \A e \in Devs : Usable(e) => e # x
        BY <3>1 DEF Usable
      <4> QED
        BY <1>1, <1>4, <1>5, <4>1 DEF TrueHandles
    <3>3. ASSUME NEW e \in Devs, moved[e] # Unmoved PROVE TrueMove(e)'
      <4>1. TrueMove(e)
        BY <1>1, <1>4, <3>3 DEF TrueHandles
      <4>2. moved' = moved /\ where'[e] = where[e]
        BY <1>3, <1>5, <3>1, <3>3 DEF ctlVars
      <4> QED
        BY <1>3, <1>9, <4>1, <4>2 DEF TrueMove, Own
    <3> QED
      BY <3>2, <3>3
  <2> QED
    BY <2>4, <2>5, <2>7, <2>8, <2>9, <2>10, <2>11, <2>12, <2>13 DEF LiveInv
<1> QED
  BY <1>10, <1>11, <1>14, <1>15 DEF DeviceInv

LEMMA create_device_Inv ==
  ASSUME DeviceInv, create_device
  PROVE  DeviceInv'
<1>1. PICK j \in NewIndices(call.ns, 0) :
        /\ where' = [where EXCEPT ![call.d] = <<call.ns, j>>]
        /\ Handles(call.ns, CreatedDump(where', call.ns, j), Result)
        /\ call' = [call EXCEPT !.at = "answered", !.val = {j}]
  BY DEF create_device, AnsweredWith, CreatedDump
<1>2. /\ Commanded("create") /\ nl' = [nl EXCEPT ![call.ns] = <<>>]
      /\ UNCHANGED <<dying, managed, batch, ctlVars, faults>>
  BY DEF create_device
<1> QED
  BY <1>1, <1>2, created_Inv

-----------------------------------------------------------------------------
(* The commands outside of a test *)

\* Agent n sends the answer of the command, and nothing else.
LEMMA ResultSent ==
  ASSUME AgentTypes, QueueTypes, OneAnswer, Exceptions, Waiting,
         NEW n \in Spaces, call.ns = n, Send(n, Result),
         call'.op = call.op, call'.ns = n, call'.dst = call.dst, call'.at = "answered", faults' = faults
  PROVE  /\ toCtl' \in Seq(Messages) /\ Len(toCtl') >= Len(toCtl)
         /\ pipe' \in [NetNs -> Seq(Messages)]
         /\ \A m \in NetNs : \A k \in DOMAIN pipe'[m] : pipe'[m][k] \in Events => pipe'[m][k].ns = m
         /\ \A m \in NetNs : m # n => pipe'[m] = pipe[m]
         /\ OneAnswer' /\ Exceptions'
         /\ \A m \in Spaces, i \in Indices :
              /\ Going(m, i)' <=> Going(m, i)
              /\ Coming(m, i)' <=> Coming(m, i)
              /\ m = n \/ (~Going(m, i) /\ ~Coming(m, i)) => Behind(Stream(m), m, i)'
         /\ \A m \in Sent' : m \in Sent \/ m.type = "result"
<1> DEFINE E == <<>>
<1>1. /\ E \in Seq(Events) /\ \A k \in DOMAIN E : E[k].ns = n
      /\ E \o Result = Result /\ ~\E m : InQueue(m, E)
      /\ \A m, i : ~Leave(E, m, i) /\ ~Come(E, m, i) /\ InOrder(E, m, i)
  BY Empty DEF Result, InQueue
<1>2. Result \in {<<>>, Result, Exception} /\ Result # <<>> /\ Result # Exception
  BY ResultFacts
<1> HIDE DEF E
<1>3. Send(n, E \o Result)
  BY <1>1
<1>4. /\ toCtl' \in Seq(Messages) /\ Len(toCtl') >= Len(toCtl)
      /\ pipe' \in [NetNs -> Seq(Messages)]
      /\ \A m \in NetNs : \A k \in DOMAIN pipe'[m] : pipe'[m][k] \in Events => pipe'[m][k].ns = m
      /\ \A m \in NetNs : m # n => pipe'[m] = pipe[m]
  BY <1>1, <1>2, <1>3, SendTypes
<1>5. ~Answered1(toCtl) /\ \A m \in NetNs : ~Answered1(pipe[m])
  BY NoAnswerYet DEF Waiting
<1>6. /\ \A m \in NetNs : Answered1(pipe'[m]) => m = n
      /\ \A m \in Spaces : Lone(Stream(m)')
  BY <1>1, <1>2, <1>3, <1>5, SendAnswers
<1>7. OneAnswer'
  BY <1>6 DEF OneAnswer
<1>8. \A m \in Sent' : m \in Sent \/ m = Answer("result")
  BY <1>1, <1>2, <1>3, SendSent
<1>9. \A m \in Sent' : m \in Sent \/ m.type = "result"
  BY <1>8 DEF Answer, Message
<1>10. Exceptions'
  BY <1>9 DEF Exceptions
<1>11. ASSUME NEW m \in Spaces, NEW i \in Indices
       PROVE  /\ Going(m, i)' <=> Going(m, i)
              /\ Coming(m, i)' <=> Coming(m, i)
              /\ m = n \/ (~Going(m, i) /\ ~Coming(m, i)) => Behind(Stream(m), m, i)'
  <2>1. ~Answered1(Stream(m)) /\ Behind(Stream(m), m, i)
    BY NoAnswerStream DEF Waiting
  <2>2. /\ Going(m, i)' <=> Going(m, i) \/ (m = n /\ Leave(E, n, i))
        /\ Coming(m, i)' <=> Coming(m, i) \/ (m = n /\ Come(E, n, i))
        /\ /\ Behind(Stream(m), m, i)
           /\ m = n /\ Answered1(Stream(n)) => ~Leave(E, n, i) /\ ~Come(E, n, i)
           /\ m = n \/ Result = <<>> \/ (~Going(m, i) /\ ~Coming(m, i))
           => Behind(Stream(m), m, i)'
    BY <1>1, <1>2, <1>3, SendStreams
  <2> QED
    BY <1>1, <2>1, <2>2
<1> QED
  BY <1>4, <1>7, <1>9, <1>10, <1>11

LEMMA agent_prepare_Inv ==
  ASSUME DeviceInv, agent_prepare
  PROVE  DeviceInv'
<1>1. /\ KernelTypes /\ AgentTypes /\ QueueTypes /\ CtlTypes /\ CallOps /\ OnlyStaleEventsFail
      /\ pc # "failed" => Stage /\ OneAnswer /\ Exceptions /\ Unmanaged /\ Cleared /\ OwnMove
  BY DEF DeviceInv, Types, Working
<1>2. /\ call.op = "prepare" /\ call.at = "sent" /\ call.val = {} /\ call.ns = Root /\ pc = "prepare"
      /\ managed' = {} /\ known' = [known EXCEPT ![Root] = {}] /\ nl' = [nl EXCEPT ![Root] = <<>>]
      /\ Send(Root, Result) /\ where' = where /\ dying' = dying /\ batch' = batch
      /\ ctlVars' = ctlVars /\ faults' = faults /\ UNCHANGED ctlVars
  BY <1>1 DEF agent_prepare, Commanded, CallOps, kernelVars
<1>3. /\ call' \in Calls /\ call'.op = "prepare" /\ call'.at = "answered" /\ call'.val = {}
      /\ call'.ns = Root /\ call'.d = call.d /\ call'.idx = call.idx /\ call'.dst = call.dst
  BY <1>1, <1>2 DEF agent_prepare, Answered, AnsweredWith, CtlTypes, Calls
<1>4. Waiting /\ pc # "failed" /\ Root \in Spaces
  BY <1>2, SpacesFacts DEF Waiting
<1>5. names = {} /\ managed \subseteq {Root} /\ dbRun < run /\ run' = run /\ dbRun' = dbRun /\ pc' = pc
  BY <1>1, <1>2 DEF Stage, ctlVars
<1>6. /\ toCtl' \in Seq(Messages) /\ Len(toCtl') >= Len(toCtl)
      /\ pipe' \in [NetNs -> Seq(Messages)]
      /\ \A m \in NetNs : \A k \in DOMAIN pipe'[m] : pipe'[m][k] \in Events => pipe'[m][k].ns = m
      /\ \A m \in NetNs : m # Root => pipe'[m] = pipe[m]
      /\ OneAnswer' /\ Exceptions'
      /\ \A m \in Spaces, i \in Indices :
           /\ Going(m, i)' <=> Going(m, i)
           /\ Coming(m, i)' <=> Coming(m, i)
           /\ m = Root \/ (~Going(m, i) /\ ~Coming(m, i)) => Behind(Stream(m), m, i)'
      /\ \A m \in Sent' : m \in Sent \/ m.type = "result"
  BY <1>1, <1>2, <1>3, <1>4, ResultSent
<1>7. /\ \A m \in Spaces : nl'[m] = <<>> \/ nl'[m] = nl[m]
      /\ nl' \in [Spaces -> Seq(Notices)]
      /\ nl'[Root] = <<>> /\ \A m \in NetNs : nl'[m] = nl[m]
  BY <1>1, <1>2, <1>4, EmptySocket, SpacesFacts DEF KernelTypes
<1>8. Types'
  <2>1. KernelTypes'
    BY <1>1, <1>2, <1>7 DEF KernelTypes
  <2>2. AgentTypes' /\ QueueTypes'
    <3>1. known' \in [Spaces -> SUBSET Indices] /\ managed' \subseteq Spaces
      BY <1>1, <1>2 DEF AgentTypes
    <3>2. QueueTypes'
      BY <1>1, <1>2, <1>6 DEF QueueTypes
    <3> QED
      BY <1>6, <3>1, <3>2 DEF AgentTypes
  <2>3. CtlTypes'
    BY <1>1, <1>2, <1>3 DEF CtlTypes, ctlVars
  <2>4. CallOps'
    BY <1>1, <1>2, <1>3, <1>5 DEF CallOps
  <2> QED
    BY <2>1, <2>2, <2>3, <2>4 DEF Types
<1>9. Working'
  <2>1. Stage'
    BY <1>1, <1>2, <1>3, <1>4 DEF Stage, ctlVars, Commanded
  <2>2. \A m \in NetNs, i \in Indices : ~Going(m, i) /\ ~Coming(m, i)
    BY <1>1, <1>2, <1>4, <1>5, SpacesFacts DEF Unmanaged
  <2>3. Unmanaged'
    <3>1. \A m \in Spaces : known'[m] = {}
      BY <1>1, <1>2, <1>4, <1>5, SpacesFacts DEF Unmanaged, AgentTypes
    <3>2. \A m \in NetNs : nl'[m] = <<>> /\ pipe'[m] = <<>> /\ At(where, m)' = {}
      <4>1. \A m \in NetNs : At(where, m)' = At(where, m)
        BY <1>2 DEF At
      <4>2. \A m \in NetNs : m \notin managed /\ m # Root
        BY <1>5, SpacesFacts
      <4>3. \A m \in NetNs : nl[m] = <<>> /\ pipe[m] = <<>> /\ At(where, m) = {}
        BY <1>1, <1>4, <4>2 DEF Unmanaged
      <4> QED
        BY <1>6, <1>7, <4>1, <4>2, <4>3
    <3>3. \A m \in NetNs, i \in Indices : ~Going(m, i)' /\ ~Coming(m, i)'
      BY <1>6, <2>2, SpacesFacts
    <3> QED
      BY <1>7, <3>1, <3>2, <3>3 DEF Unmanaged
  <2>4. Cleared'
    <3>1. \A m \in Spaces, i \in Indices : Behind(Stream(m), m, i)'
      BY <1>6, <2>2, SpacesFacts
    <3> QED
      BY <1>3, <3>1 DEF Cleared
  <2>5. OwnMove'
    <3> SUFFICES ASSUME "timeout" \notin faults
                 PROVE  /\ \A m \in Sent' : m.type # "dev_netns_changed"
                        /\ \A m \in Spaces : \A k \in DOMAIN nl'[m] : nl'[m][k].new = NoIdx
      BY <1>2 DEF OwnMove
    <3>1. /\ \A m \in Sent : m.type # "dev_netns_changed"
          /\ \A m \in Spaces : \A k \in DOMAIN nl[m] : nl[m][k].new = NoIdx
      BY <1>1, <1>2, <1>4, NoMoveYet
    <3> QED
      BY <1>6, <1>7, <3>1
  <2> QED
    BY <1>6, <2>1, <2>3, <2>4, <2>5 DEF Working
<1>10. ~Live' /\ OnlyStaleEventsFail'
  BY <1>1, <1>2, <1>5 DEF Live, OnlyStaleEventsFail, CtlTypes
<1> QED
  BY <1>8, <1>9, <1>10 DEF DeviceInv

LEMMA agent_bye_Inv ==
  ASSUME DeviceInv, agent_bye
  PROVE  DeviceInv'
<1>1. /\ KernelTypes /\ AgentTypes /\ QueueTypes /\ CtlTypes /\ CallOps /\ OnlyStaleEventsFail
      /\ pc # "failed" => Stage /\ OneAnswer /\ Exceptions /\ Unmanaged /\ Cleared /\ OwnMove
  BY DEF DeviceInv, Types, Working
<1>2. /\ call.op = "bye" /\ call.at = "sent" /\ call.val = {} /\ call.ns = Root /\ pc = "cleanup"
      /\ managed' = managed /\ known' = known /\ nl' = nl
      /\ Send(Root, Result) /\ where' = where /\ dying' = dying /\ batch' = batch
      /\ ctlVars' = ctlVars /\ faults' = faults /\ UNCHANGED ctlVars
  BY <1>1 DEF agent_bye, Commanded, CallOps, kernelVars
<1>3. /\ call' \in Calls /\ call'.op = "bye" /\ call'.at = "answered" /\ call'.val = {}
      /\ call'.ns = Root /\ call'.d = call.d /\ call'.idx = call.idx /\ call'.dst = call.dst
  BY <1>1, <1>2 DEF agent_bye, Answered, AnsweredWith, CtlTypes, Calls
<1>4. Waiting /\ pc # "failed" /\ Root \in Spaces
  BY <1>2, SpacesFacts DEF Waiting
<1>5. names = {} /\ managed = {Root} /\ run' = run /\ dbRun' = dbRun /\ pc' = pc
  BY <1>1, <1>2 DEF Stage, ctlVars
<1>6. /\ toCtl' \in Seq(Messages) /\ Len(toCtl') >= Len(toCtl)
      /\ pipe' \in [NetNs -> Seq(Messages)]
      /\ \A m \in NetNs : \A k \in DOMAIN pipe'[m] : pipe'[m][k] \in Events => pipe'[m][k].ns = m
      /\ \A m \in NetNs : m # Root => pipe'[m] = pipe[m]
      /\ OneAnswer' /\ Exceptions'
      /\ \A m \in Spaces, i \in Indices :
           /\ Going(m, i)' <=> Going(m, i)
           /\ Coming(m, i)' <=> Coming(m, i)
           /\ m = Root \/ (~Going(m, i) /\ ~Coming(m, i)) => Behind(Stream(m), m, i)'
      /\ \A m \in Sent' : m \in Sent \/ m.type = "result"
  BY <1>1, <1>2, <1>3, <1>4, ResultSent
<1>7. Types'
  <2>1. KernelTypes'
    BY <1>1, <1>2 DEF KernelTypes
  <2>2. AgentTypes' /\ QueueTypes'
    <3>1. QueueTypes'
      BY <1>1, <1>2, <1>6 DEF QueueTypes
    <3> QED
      BY <1>1, <1>2, <1>6, <3>1 DEF AgentTypes
  <2>3. CtlTypes'
    BY <1>1, <1>2, <1>3 DEF CtlTypes, ctlVars
  <2>4. CallOps'
    BY <1>1, <1>2, <1>3, <1>5 DEF CallOps
  <2> QED
    BY <2>1, <2>2, <2>3, <2>4 DEF Types
<1>8. Working'
  <2>1. Stage'
    BY <1>1, <1>2, <1>3, <1>4 DEF Stage, ctlVars, Commanded
  <2>2. \A m \in NetNs, i \in Indices : ~Going(m, i)' /\ ~Coming(m, i)'
    BY <1>1, <1>2, <1>4, <1>5, <1>6, SpacesFacts DEF Unmanaged
  <2>3. Unmanaged'
    <3>1. \A m \in NetNs : pipe'[m] = pipe[m] /\ At(where, m)' = At(where, m)
      BY <1>2, <1>6, SpacesFacts DEF At
    <3> QED
      BY <1>1, <1>2, <1>3, <1>4, <2>2, <3>1 DEF Unmanaged
  <2>4. Cleared'
    BY <1>3 DEF Cleared, Clears
  <2>5. OwnMove'
    <3> SUFFICES ASSUME "timeout" \notin faults
                 PROVE  /\ \A m \in Sent' : m.type # "dev_netns_changed"
                        /\ \A m \in Spaces : \A k \in DOMAIN nl'[m] : nl'[m][k].new = NoIdx
      BY <1>2 DEF OwnMove
    <3>1. /\ \A m \in Sent : m.type # "dev_netns_changed"
          /\ \A m \in Spaces : \A k \in DOMAIN nl[m] : nl[m][k].new = NoIdx
      BY <1>1, <1>2, <1>4, NoMoveYet
    <3> QED
      BY <1>2, <1>6, <3>1
  <2> QED
    BY <1>6, <2>1, <2>3, <2>4, <2>5 DEF Working
<1>9. ~Live' /\ OnlyStaleEventsFail'
  BY <1>2, <1>5 DEF Live, OnlyStaleEventsFail
<1> QED
  BY <1>7, <1>8, <1>9 DEF DeviceInv

\* The deletions of the devices with the indices S.
LEMMA Deletions ==
  ASSUME NEW S \in SUBSET Indices, NEW r, r = [k \in DOMAIN SetToSeq(S) |-> DELLINK(SetToSeq(S)[k])]
  PROVE  r \in Seq(LinkMessages) /\ Plain(r)
<1> DEFINE L == SetToSeq(S)
<1>1. L \in Seq(S)
  BY IndicesFinite, SetToSeqIsAll
<1>2. r = [k \in DOMAIN L |-> DELLINK(L[k])]
  OBVIOUS
<1> HIDE DEF L
<1>3. \A k \in DOMAIN L : DELLINK(L[k]) \in LinkMessages /\ DELLINK(L[k]).new = NoIdx
  BY <1>1 DEF DELLINK, Link, LinkMessages
<1>4. DOMAIN L = 1..Len(L) /\ Len(L) \in Nat
  BY <1>1
<1>5. r \in [1..Len(L) -> LinkMessages]
  BY <1>2, <1>3, <1>4
<1> QED
  BY <1>2, <1>3, <1>4, <1>5 DEF Plain

LEMMA destroy_devices_Inv ==
  ASSUME DeviceInv, destroy_devices
  PROVE  DeviceInv'
<1>1. /\ KernelTypes /\ AgentTypes /\ QueueTypes /\ CtlTypes /\ CallOps /\ OnlyStaleEventsFail
      /\ pc # "failed" => Stage /\ OneAnswer /\ Exceptions /\ Unmanaged /\ Cleared /\ OwnMove
  BY DEF DeviceInv, Types, Working
<1> DEFINE deleted == {d \in Soft : where[d] # Nowhere /\ where[d][1] = Root}
           S == {i \in Indices : \E d \in deleted : where[d] = <<Root, i>>}
           dels == [k \in DOMAIN SetToSeq(S) |-> DELLINK(SetToSeq(S)[k])]
           q == Dump(where, Root) \o dels
<1>2. /\ call.op = "destroy_devices" /\ call.at = "sent" /\ call.val = {} /\ call.ns = Root /\ pc = "cleanup"
      /\ where' = [d \in Devs |-> IF d \in deleted THEN Nowhere ELSE where[d]]
      /\ Handles(Root, q, Result)
      /\ nl' = [nl EXCEPT ![Root] = <<>>]
      /\ call' = [call EXCEPT !.at = "answered", !.val = {}]
      /\ managed' = managed /\ dying' = dying /\ batch' = batch
      /\ ctlVars' = ctlVars /\ faults' = faults /\ UNCHANGED ctlVars
  BY <1>1 DEF destroy_devices, Commanded, CallOps, Answered, AnsweredWith
<1>3. q \in Seq(LinkMessages) /\ Plain(q)
  <2>1. dels \in Seq(LinkMessages) /\ Plain(dels)
    BY Deletions
  <2>2. Dump(where, Root) \in Seq(LinkMessages) /\ Plain(Dump(where, Root))
    BY DumpTells
  <2>3. q = Dump(where, Root) \o dels
    OBVIOUS
  <2> HIDE DEF q, dels
  <2> DEFINE r == Dump(where, Root)
  <2>4. r \in Seq(LinkMessages) /\ Plain(r) /\ q = r \o dels
    BY <2>2, <2>3
  <2> HIDE DEF r
  <2>5. /\ q \in Seq(LinkMessages)
        /\ \A k \in DOMAIN r : q[k] = r[k]
        /\ \A k \in DOMAIN dels : q[Len(r) + k] = dels[k]
        /\ \A k \in DOMAIN q : k \in DOMAIN r \/ k - Len(r) \in DOMAIN dels
    <3>1. dels \in Seq(LinkMessages) /\ r \in Seq(LinkMessages) /\ q = r \o dels
      BY <2>1, <2>4
    <3> QED
      BY ONLY <3>1, Positions
  <2>6. DOMAIN q \subseteq Nat /\ Len(r) \in Nat
    BY <2>4, <2>5
  <2>7. ASSUME NEW k \in DOMAIN q PROVE q[k].new = NoIdx
    <3>1. CASE k \in DOMAIN r
      BY <2>4, <2>5, <3>1 DEF Plain
    <3>2. CASE k - Len(r) \in DOMAIN dels
      <4>1. q[Len(r) + (k - Len(r))] = dels[k - Len(r)]
        BY <2>5, <3>2
      <4> QED
        BY <2>1, <2>6, <3>2, <4>1 DEF Plain
    <3> QED
      BY <2>5, <3>1, <3>2
  <2> QED
    BY <2>5, <2>7 DEF Plain
<1> HIDE DEF q, dels, S
<1>4. Waiting /\ pc # "failed" /\ Root \in Spaces
  BY <1>2, SpacesFacts DEF Waiting
<1>5. names = NetNs /\ managed = Spaces /\ run' = run /\ dbRun' = dbRun /\ pc' = pc
  BY <1>1, <1>2 DEF Stage, ctlVars
<1>6. CommandStep(Root, q, Result, {})
  BY <1>2, <1>3, <1>4, ResultFacts DEF CommandStep
<1>7. /\ call'.val = {}
      /\ call'.op = "destroy_devices" /\ call'.ns = Root /\ call'.at = "answered"
  BY <1>1, <1>2 DEF CtlTypes, Calls
<1>8. /\ AgentTypes' /\ QueueTypes' /\ CtlTypes' /\ CallOps' /\ OnlyStaleEventsFail'
      /\ ~Live /\ ~Live'
  <2>1. managed' \subseteq Spaces
    BY <1>2, <1>5
  <2>2. ~Live
    BY <1>2 DEF Live
  <2> QED
    BY <1>1, <1>6, <2>1, <2>2, CommandTypes
<1>9. /\ \A m \in Spaces : nl'[m] = <<>> \/ nl'[m] = nl[m]
      /\ nl' \in [Spaces -> Seq(Notices)]
  BY <1>1, <1>2, <1>4, EmptySocket
<1>10. Types'
  <2>1. KernelTypes'
    <3>1. \A e \in Devs : where'[e] = Nowhere \/ where'[e] = where[e]
      BY <1>2
    <3>2. where' \in [Devs -> Place]
      BY <1>1, <1>2 DEF KernelTypes, Place
    <3>3. \A e \in dying' : where'[e] = Nowhere
      BY <1>1, <1>2, <3>1 DEF KernelTypes, Devs
    <3> QED
      BY <1>1, <1>2, <1>9, <3>1, <3>2, <3>3 DEF KernelTypes
  <2> QED
    BY <1>8, <2>1 DEF Types
<1>11. Working'
  <2>1. Stage'
    BY <1>1, <1>2, <1>4, <1>7 DEF Stage, ctlVars, Commanded
  <2>2. /\ OneAnswer' /\ Exceptions' /\ Unmanaged' /\ Cleared'
        /\ \A m \in Sent' : m.type = "dev_netns_changed" =>
             \/ m \in Sent
             \/ \E j \in Spaces : \E l \in DOMAIN nl[j] : m.ns = j /\ nl[j][l].idx = m.idx
                                                          /\ nl[j][l].new = m.new /\ m.new # NoIdx
    <3>1. \A m \in Spaces \ managed' : nl'[m] = nl[m] /\ At(where, m)' = At(where, m)
      BY <1>2, <1>5
    <3> QED
      BY <1>1, <1>2, <1>4, <1>5, <1>6, <1>8, <3>1, CommandWorking
  <2>3. OwnMove'
    <3> SUFFICES ASSUME "timeout" \notin faults
                 PROVE  /\ \A m \in Sent' : m.type # "dev_netns_changed"
                        /\ \A m \in Spaces : \A k \in DOMAIN nl'[m] : nl'[m][k].new = NoIdx
      BY <1>2 DEF OwnMove
    <3>1. /\ \A m \in Sent : m.type # "dev_netns_changed"
          /\ \A m \in Spaces : \A k \in DOMAIN nl[m] : nl[m][k].new = NoIdx
      BY <1>1, <1>2, <1>4, NoMoveYet
    <3> QED
      BY <1>9, <2>2, <3>1
  <2> QED
    BY <2>1, <2>2, <2>3 DEF Working
<1> QED
  BY <1>8, <1>10, <1>11 DEF DeviceInv

LEMMA del_namespace_Inv ==
  ASSUME DeviceInv, del_namespace
  PROVE  DeviceInv'
<1>1. /\ KernelTypes /\ AgentTypes /\ QueueTypes /\ CtlTypes /\ CallOps /\ OnlyStaleEventsFail
      /\ pc # "failed" => Stage /\ OneAnswer /\ Exceptions /\ Unmanaged /\ Cleared /\ OwnMove
  BY DEF DeviceInv, Types, Working
<1> DEFINE inside == {d \in Devs : where[d] # Nowhere /\ where[d][1] = call.dst}
<1>2. /\ call.op = "del_namespace" /\ call.at = "sent" /\ call.val = {} /\ call.ns = Root /\ pc = "cleanup"
      /\ call.dst \in NetNs /\ call.dst \in Spaces /\ call.dst # Root
      /\ where' = [d \in Devs |-> IF d \in inside THEN Nowhere ELSE where[d]]
      /\ dying' = dying \union (inside \cap Physical)
      /\ managed' = managed \ {call.dst}
      /\ known' = [known EXCEPT ![call.dst] = {}]
      /\ nl' = [nl EXCEPT ![call.dst] = <<>>]
      /\ pipe' = [pipe EXCEPT ![call.dst] = <<>>]
      /\ toCtl' = toCtl \o Result /\ batch' = batch
      /\ ctlVars' = ctlVars /\ faults' = faults /\ UNCHANGED ctlVars
  BY <1>1, SpacesFacts DEF del_namespace, Commanded, CallOps
<1>3. /\ call' \in Calls /\ call'.op = "del_namespace" /\ call'.at = "answered" /\ call'.val = {}
      /\ call'.ns = Root /\ call'.d = call.d /\ call'.idx = call.idx /\ call'.dst = call.dst
  BY <1>1, <1>2 DEF del_namespace, Answered, AnsweredWith, CtlTypes, Calls
<1>4. pc # "failed"
  BY <1>2
<1>5. names = NetNs /\ Root \in managed /\ run' = run /\ dbRun' = dbRun /\ pc' = pc
  BY <1>1, <1>2 DEF Stage, ctlVars
<1>6. /\ toCtl \in Seq(Messages) /\ Result \in Seq(Messages) /\ <<>> \in Seq(Messages)
      /\ Lone(Result) /\ \A m : \A i \in Indices : ~Leave(Result, m, i) /\ ~Come(Result, m, i) /\ Behind(Result, m, i)
      /\ toCtl' \in Seq(Messages) /\ Len(toCtl') >= Len(toCtl)
      /\ \A m \in NetNs : pipe[m] \in Seq(Messages)
      /\ pipe' \in [NetNs -> Seq(Messages)]
      /\ \A m \in NetNs : pipe'[m] = <<>> \/ (m # call.dst /\ pipe'[m] = pipe[m])
      /\ pipe'[call.dst] = <<>> /\ \A m \in NetNs : m # call.dst => pipe'[m] = pipe[m]
  <2>1. /\ toCtl \in Seq(Messages) /\ Result \in Seq(Messages) /\ <<>> \in Seq(Messages)
        /\ Lone(Result) /\ \A m : \A i \in Indices : ~Leave(Result, m, i) /\ ~Come(Result, m, i) /\ Behind(Result, m, i)
    BY <1>1, MessagesOfAnswers DEF QueueTypes
  <2>2. toCtl' \in Seq(Messages) /\ Len(toCtl') >= Len(toCtl)
    <3> HIDE DEF Result
    <3> QED
      BY <1>2, <2>1
  <2>3. /\ \A m \in NetNs : pipe[m] \in Seq(Messages)
        /\ pipe' \in [NetNs -> Seq(Messages)]
        /\ \A m \in NetNs : pipe'[m] = <<>> \/ (m # call.dst /\ pipe'[m] = pipe[m])
        /\ pipe'[call.dst] = <<>> /\ \A m \in NetNs : m # call.dst => pipe'[m] = pipe[m]
    BY <1>1, <1>2, <2>1 DEF AgentTypes
  <2> QED
    BY <2>1, <2>2, <2>3
<1>7. ~Answered1(toCtl) /\ \A m \in NetNs : ~Answered1(pipe[m]) /\ ~Answered1(pipe'[m])
  <2>1. ~Answered1(toCtl) /\ \A m \in NetNs : ~Answered1(pipe[m])
    BY <1>1, <1>2, <1>4, NoAnswerYet
  <2> QED
    BY <1>6, <2>1, Empty
<1>8. \A m \in Spaces : /\ Pipe(m)' \in Seq(Messages) /\ ~Answered1(Pipe(m)')
                        /\ Pipe(m)' = <<>> \/ (m # call.dst /\ Pipe(m)' = Pipe(m))
                        /\ m = call.dst => Pipe(m)' = <<>>
                        /\ m # call.dst => Pipe(m)' = Pipe(m)
  BY <1>2, <1>6, <1>7, Empty DEF Pipe
<1>9. ASSUME NEW m \in Spaces, NEW i \in Indices
      PROVE  /\ m # call.dst => (Going(m, i)' => Going(m, i)) /\ (Coming(m, i)' => Coming(m, i))
             /\ m = call.dst => Behind(Stream(m), m, i)'
  <2> DEFINE p == Pipe(m)'
             a == toCtl'
  <2>1. Stream(m)' = a \o p
    BY DEF Stream
  <2>2. /\ p \in Seq(Messages) /\ a \in Seq(Messages) /\ ~Answered1(p)
        /\ p = <<>> \/ p = Pipe(m)
        /\ m = call.dst => p = <<>>
        /\ m # call.dst => p = Pipe(m)
    BY <1>6, <1>8
  <2>3. /\ Leave(a, m, i) => Leave(toCtl, m, i)
        /\ Come(a, m, i) => Come(toCtl, m, i)
        /\ Behind(a, m, i)
    <3>1. Behind(toCtl, m, i)
      BY <1>7 DEF Behind, Answered1
    <3>2. /\ Leave(a, m, i) <=> Leave(toCtl, m, i) \/ Leave(Result, m, i)
          /\ Come(a, m, i) <=> Come(toCtl, m, i) \/ Come(Result, m, i)
          /\ Behind(a, m, i) <=> /\ Behind(toCtl, m, i) /\ Behind(Result, m, i)
                                 /\ Answered1(toCtl) => ~Leave(Result, m, i) /\ ~Come(Result, m, i)
      BY <1>2, <1>6, Concat
    <3> QED
      BY <1>6, <3>1, <3>2
  <2> HIDE DEF p, a
  <2>6. /\ Leave(a \o p, m, i) <=> Leave(a, m, i) \/ Leave(p, m, i)
        /\ Come(a \o p, m, i) <=> Come(a, m, i) \/ Come(p, m, i)
        /\ Behind(a \o p, m, i) <=> /\ Behind(a, m, i) /\ Behind(p, m, i)
                                    /\ Answered1(a) => ~Leave(p, m, i) /\ ~Come(p, m, i)
    BY <2>2, Concat
  <2>7. ASSUME m # call.dst PROVE (Going(m, i)' => Going(m, i)) /\ (Coming(m, i)' => Coming(m, i))
    <3>1. /\ Leave(Stream(m), m, i) <=> Leave(toCtl, m, i) \/ Leave(Pipe(m), m, i)
          /\ Come(Stream(m), m, i) <=> Come(toCtl, m, i) \/ Come(Pipe(m), m, i)
      BY <1>1, <1>6, StreamIsMessages, Concat DEF Stream
    <3>2. /\ Leave(Stream(m)', m, i) => Leave(Stream(m), m, i)
          /\ Come(Stream(m)', m, i) => Come(Stream(m), m, i)
      BY <2>1, <2>2, <2>3, <2>6, <2>7, <3>1
    <3> QED
      BY <3>2 DEF Going, Coming
  <2>8. ASSUME m = call.dst PROVE Behind(Stream(m)', m, i)
    BY <2>1, <2>2, <2>3, <2>6, <2>8, Empty
  <2> QED
    BY <2>7, <2>8
<1>9a. ASSUME NEW m \in Spaces PROVE Lone(Stream(m))'
  <2> DEFINE p == Pipe(m)'
             a == toCtl'
  <2>1. Stream(m)' = a \o p
    BY DEF Stream
  <2>2. p \in Seq(Messages) /\ a \in Seq(Messages) /\ ~Answered1(p)
    BY <1>6, <1>8
  <2>3. Lone(a)
    <3>1. Lone(toCtl)
      BY <1>7 DEF Lone, Answered1
    <3> QED
      BY <1>2, <1>6, <1>7, <3>1, ConcatAnswers
  <2>4. Lone(p)
    BY <2>2 DEF Lone, Answered1
  <2> HIDE DEF p, a
  <2>5. Lone(a \o p)
    BY <2>2, <2>3, <2>4, ConcatAnswers
  <2> QED
    BY <2>1, <2>5
<1>10. \A m \in Sent' : m \in Sent \/ m.type = "result"
  <2> SUFFICES ASSUME NEW m \in Sent' PROVE m \in Sent \/ m.type = "result"
    OBVIOUS
  <2>1. ASSUME NEW k \in DOMAIN toCtl', m = toCtl'[k] PROVE m \in Sent \/ m.type = "result"
    <3>1. (\E l \in DOMAIN toCtl : toCtl'[k] = toCtl[l]) \/ (\E l \in DOMAIN Result : toCtl'[k] = Result[l])
      BY <1>2, <1>6, <2>1, InConcat
    <3>2. \A l \in DOMAIN Result : Result[l].type = "result"
      BY DEF Result, Answer, Message
    <3> QED
      BY <2>1, <3>1, <3>2 DEF Sent
  <2>2. ASSUME NEW n \in NetNs, NEW k \in DOMAIN pipe'[n], m = pipe'[n][k] PROVE m \in Sent
    <3>1. pipe'[n] = pipe[n]
      BY <1>6, <2>2
    <3> QED
      BY <2>2, <3>1 DEF Sent
  <2> QED
    BY <2>1, <2>2 DEF Sent
<1>11. /\ \A m \in Spaces : nl'[m] = <<>> \/ nl'[m] = nl[m]
       /\ nl' \in [Spaces -> Seq(Notices)]
       /\ nl'[call.dst] = <<>> /\ \A m \in Spaces : m # call.dst => nl'[m] = nl[m]
  BY <1>1, <1>2, EmptySocket DEF KernelTypes
<1>12. Types'
  <2>1. KernelTypes'
    <3>1. \A e \in Devs : where'[e] = Nowhere \/ where'[e] = where[e]
      BY <1>2
    <3>2. where' \in [Devs -> Place]
      BY <1>1, <1>2 DEF KernelTypes, Place
    <3>3. \A e \in dying' : where'[e] = Nowhere
      BY <1>1, <1>2, <3>1 DEF KernelTypes, Devs
    <3>4. dying' \subseteq Physical
      BY <1>1, <1>2 DEF KernelTypes
    <3> QED
      BY <1>1, <1>11, <3>1, <3>2, <3>3, <3>4 DEF KernelTypes
  <2>2. AgentTypes'
    <3>1. known' \in [Spaces -> SUBSET Indices] /\ managed' \subseteq Spaces
      BY <1>1, <1>2 DEF AgentTypes
    <3>2. \A m \in NetNs : \A k \in DOMAIN pipe'[m] : pipe'[m][k] \in Events => pipe'[m][k].ns = m
      BY <1>1, <1>6 DEF AgentTypes
    <3> QED
      BY <1>6, <3>1, <3>2 DEF AgentTypes
  <2>3. QueueTypes'
    BY <1>1, <1>2, <1>6 DEF QueueTypes
  <2>4. CtlTypes'
    BY <1>1, <1>2, <1>3 DEF CtlTypes, ctlVars
  <2>5. CallOps'
    BY <1>1, <1>2, <1>3, <1>5, SpacesFacts DEF CallOps
  <2> QED
    BY <2>1, <2>2, <2>3, <2>4, <2>5 DEF Types
<1>13. Working'
  <2>1. Stage'
    BY <1>1, <1>2, <1>3, <1>4, <1>5 DEF Stage, ctlVars, Commanded
  <2>2. OneAnswer'
    BY <1>3, <1>7, <1>9a DEF OneAnswer
  <2>3. Exceptions'
    BY <1>1, <1>2, <1>3, <1>4, <1>10 DEF Exceptions
  <2>4. Unmanaged'
    <3>1. \A m \in Spaces \ managed' : known'[m] = {}
      BY <1>1, <1>2, <1>4 DEF Unmanaged, AgentTypes
    <3>2. \A m \in NetNs \ managed' : nl'[m] = <<>> /\ pipe'[m] = <<>> /\ At(where, m)' = {}
      <4> SUFFICES ASSUME NEW m \in NetNs, m \notin managed'
                   PROVE  nl'[m] = <<>> /\ pipe'[m] = <<>> /\ \A i \in Indices, e \in Devs : where'[e] # <<m, i>>
        BY DEF At
      <4>1. CASE m = call.dst
        <5>1. \A i \in Indices, e \in Devs : where'[e] # <<m, i>>
          BY <1>2, <4>1 DEF Nowhere
        <5> QED
          BY <1>6, <1>11, <4>1, <5>1
      <4>2. CASE m # call.dst
        <5>1. m \notin managed /\ m \in Spaces
          BY <1>2, <4>2, SpacesFacts
        <5>2. nl[m] = <<>> /\ pipe[m] = <<>> /\ At(where, m) = {}
          BY <1>1, <1>4, <5>1 DEF Unmanaged
        <5>3. \A i \in Indices, e \in Devs : where'[e] # <<m, i>>
          BY <1>2, <5>2 DEF At, Nowhere
        <5> QED
          BY <1>6, <1>11, <4>2, <5>1, <5>2, <5>3
      <4> QED
        BY <4>1, <4>2
    <3>3. \A m \in NetNs \ managed', i \in Indices : m # call.dst => ~Going(m, i)' /\ ~Coming(m, i)'
      BY <1>1, <1>2, <1>4, <1>9, SpacesFacts DEF Unmanaged
    <3> QED
      BY <1>3, <3>1, <3>2, <3>3 DEF Unmanaged
  <2>5. Cleared'
    BY <1>3, <1>9 DEF Cleared, Clears
  <2>6. OwnMove'
    <3> SUFFICES ASSUME "timeout" \notin faults
                 PROVE  /\ \A m \in Sent' : m.type # "dev_netns_changed"
                        /\ \A m \in Spaces : \A k \in DOMAIN nl'[m] : nl'[m][k].new = NoIdx
      BY <1>2 DEF OwnMove
    <3>1. /\ \A m \in Sent : m.type # "dev_netns_changed"
          /\ \A m \in Spaces : \A k \in DOMAIN nl[m] : nl[m][k].new = NoIdx
      BY <1>1, <1>2, <1>4, NoMoveYet
    <3> QED
      BY <1>10, <1>11, <3>1
  <2> QED
    BY <2>1, <2>2, <2>3, <2>4, <2>5, <2>6 DEF Working
<1>14. ~Live' /\ OnlyStaleEventsFail'
  BY <1>2, <1>5 DEF Live, OnlyStaleEventsFail
<1> QED
  BY <1>12, <1>13, <1>14 DEF DeviceInv

-----------------------------------------------------------------------------
(* The controller handles a message *)

\* What the agents have, when their variables do not change.
AgentsRest == /\ where' = where /\ dying' = dying /\ nl' = nl /\ known' = known /\ managed' = managed
              /\ pipe' = pipe /\ faults' = faults

\* What depends on the kernel and the agents only.
LEMMA AgentsStay ==
  ASSUME AgentsRest
  PROVE  /\ KernelTypes' <=> KernelTypes
         /\ AgentTypes' <=> AgentTypes
         /\ \A n : At(where, n)' = At(where, n)
         /\ \A n, i : /\ New(n, i)' <=> New(n, i)
                      /\ Dropping(n, i)' <=> Dropping(n, i)
                      /\ Settled(n, i)' <=> Settled(n, i)
BY DEF AgentsRest, KernelTypes, AgentTypes, At, New, Dropping, Settled

LEMMA ctl_recv_Inv ==
  ASSUME DeviceInv, ctl_recv
  PROVE  DeviceInv'
<1>1. /\ KernelTypes /\ AgentTypes /\ QueueTypes /\ CtlTypes /\ CallOps /\ OnlyStaleEventsFail
      /\ pc # "failed" => Stage /\ OneAnswer /\ Exceptions /\ Unmanaged /\ Cleared /\ OwnMove
      /\ Live => /\ OneDel /\ Shape /\ Links /\ Pending /\ InHand
                 /\ OpInHand /\ Objects /\ OpObjects /\ Chain /\ TrueHandles
  BY DEF DeviceInv, Types, Working, LiveInv
<1>2. /\ AgentsRest /\ toCtl' = toCtl /\ batch' \in 1..Len(toCtl) /\ call.op # "none"
      /\ UNCHANGED <<call, ctlVars, faults>> /\ UNCHANGED ctlVars /\ call' = call
      /\ where' = where /\ nl' = nl /\ known' = known /\ managed' = managed
      /\ pipe' = pipe /\ faults' = faults
  BY DEF ctl_recv, kernelVars, agentVars, AgentsRest
<1>3. /\ \A n, i : (Going(n, i)' <=> Going(n, i)) /\ (Coming(n, i)' <=> Coming(n, i))
      /\ \A n, i : (InOrder(Stream(n), n, i)' <=> InOrder(Stream(n), n, i))
                   /\ (Behind(Stream(n), n, i)' <=> Behind(Stream(n), n, i))
      /\ \A n : Lone(Stream(n))' <=> Lone(Stream(n))
      /\ Sent' = Sent
  BY <1>2, SameStreams
<1>4. /\ KernelTypes' /\ AgentTypes'
      /\ \A n : At(where, n)' = At(where, n)
      /\ \A n, i : /\ New(n, i)' <=> New(n, i)
                   /\ Dropping(n, i)' <=> Dropping(n, i)
                   /\ Settled(n, i)' <=> Settled(n, i)
  BY <1>1, <1>2, AgentsStay
<1>5. /\ CtlTypes' /\ OnlyStaleEventsFail' /\ (Objects' <=> Objects) /\ (OpObjects' <=> OpObjects)
      /\ (Live' <=> Live) /\ (Early' <=> Early) /\ pc' = pc
  BY <1>1, <1>2, ControllerWaits DEF ctlVars
<1>6. /\ \A n, i : (Clears(n, i)' <=> Clears(n, i)) /\ (Taken(n, i)' <=> Taken(n, i))
                   /\ (Creating(n, i)' <=> Creating(n, i)) /\ (Holds(n, i)' <=> Holds(n, i))
      /\ \A op : Commanded(op)' <=> Commanded(op)
      /\ \A d : Usable(d)' <=> Usable(d)
  BY <1>2 DEF ctlVars, Taken, Clears, Creating, Holds, Usable, Commanded
<1>7. QueueTypes' /\ CallOps'
  BY <1>1, <1>2 DEF QueueTypes, CallOps, ctlVars
<1>8. ASSUME pc # "failed" PROVE Working'
  <2>1. Stage'
    BY <1>1, <1>2, <1>6, <1>8 DEF Stage, ctlVars
  <2>2. OneAnswer'
    BY <1>1, <1>2, <1>3, <1>8 DEF OneAnswer
  <2>3. Exceptions'
    BY <1>1, <1>2, <1>3, <1>8 DEF Exceptions
  <2>4. Unmanaged'
    BY <1>1, <1>2, <1>3, <1>4, <1>8 DEF Unmanaged
  <2>5. Cleared'
    BY <1>1, <1>2, <1>3, <1>6, <1>8 DEF Cleared
  <2>6. OwnMove'
    <3>1. \A m, i, j : MovesTo(m, i, j)' <=> MovesTo(m, i, j)
      BY <1>2 DEF MovesTo, ctlVars
    <3> QED
      BY <1>1, <1>2, <1>3, <1>8, <3>1, OwnMoveKept
  <2> QED
    BY <2>1, <2>2, <2>3, <2>4, <2>5, <2>6 DEF Working
<1>9. ASSUME Live PROVE LiveInv'
  <2>1. OneDel'
    BY <1>1, <1>2, <1>5, <1>9 DEF OneDel
  <2>2. Shape' /\ Links'
    BY <1>1, <1>2, <1>3, <1>4, <1>9 DEF Shape, Links
  <2>3. Pending'
    BY <1>1, <1>2, <1>3, <1>4, <1>5, <1>6, <1>9 DEF Pending
  <2>4. InHand'
    BY <1>1, <1>2, <1>3, <1>4, <1>6, <1>9 DEF InHand
  <2>5. Chain'
    BY <1>1, <1>2, <1>3, <1>6, <1>9 DEF Chain, MovedFrom, ctlVars
  <2>6. OpInHand'
    BY <1>1, <1>2, <1>6, <1>9 DEF OpInHand
  <2>7. TrueHandles'
    BY <1>1, <1>2, <1>6, <1>9 DEF TrueHandles, TrueMove, Own, ctlVars
  <2> QED
    BY <1>1, <1>5, <1>9, <2>1, <2>2, <2>3, <2>4, <2>5, <2>6, <2>7 DEF LiveInv
<1> QED
  BY <1>4, <1>5, <1>7, <1>8, <1>9 DEF DeviceInv, Types

LEMMA ctl_result_Inv ==
  ASSUME DeviceInv, ctl_result
  PROVE  DeviceInv'
<1>1. /\ KernelTypes /\ AgentTypes /\ QueueTypes /\ CtlTypes /\ CallOps /\ OnlyStaleEventsFail
      /\ pc # "failed" => Stage /\ OneAnswer /\ Exceptions /\ Unmanaged /\ Cleared /\ OwnMove
      /\ Live => /\ OneDel /\ Shape /\ Links /\ Pending /\ InHand
                 /\ OpInHand /\ Objects /\ OpObjects /\ Chain /\ TrueHandles
  BY DEF DeviceInv, Types, Working, LiveInv
<1>2. /\ AgentsRest /\ batch > 0 /\ Head(toCtl).type = "result"
      /\ call' = [call EXCEPT !.at = "done"]
      /\ toCtl' = Tail(toCtl) /\ batch' = batch - 1
      /\ where' = where /\ nl' = nl /\ known' = known /\ managed' = managed
      /\ pipe' = pipe /\ faults' = faults /\ ctlVars' = ctlVars /\ UNCHANGED ctlVars
  BY DEF ctl_result, kernelVars, agentVars, AgentsRest
<1>3. toCtl # <<>> /\ IsAnswer(Head(toCtl)) /\ batch \in Nat
  BY <1>1, <1>2 DEF QueueTypes, IsAnswer
<1>4. /\ Answered1(toCtl)
      /\ \A m \in Spaces : Lone(Stream(m)) => Lone(Stream(m)') /\ ~Answered1(toCtl') /\ ~Answered1(Pipe(m))
      /\ Sent' \subseteq Sent
      /\ toCtl' \in Seq(Messages) /\ Len(toCtl') = Len(toCtl) - 1
  BY <1>1, <1>2, <1>3, TakeAnswers
<1>5. call.op # "none" /\ pc # "failed" /\ call.at # "none"
  BY <1>1, <1>2, <1>3 DEF CallOps, NoCall
<1>6. call.at = "answered"
  BY <1>1, <1>4, <1>5 DEF OneAnswer
<1>7. /\ call' \in Calls /\ call'.op = call.op /\ call'.at = "done" /\ call'.val = call.val
      /\ call'.ns = call.ns /\ call'.d = call.d /\ call'.idx = call.idx /\ call'.dst = call.dst
  BY <1>1, <1>2 DEF CtlTypes, Calls
<1>8. /\ KernelTypes' /\ AgentTypes'
      /\ \A n : At(where, n)' = At(where, n)
      /\ \A n, i : /\ New(n, i)' <=> New(n, i)
                   /\ Dropping(n, i)' <=> Dropping(n, i)
                   /\ Settled(n, i)' <=> Settled(n, i)
  BY <1>1, <1>2, AgentsStay
<1>9. ASSUME NEW m \in Spaces, NEW i \in Indices
      PROVE  /\ Going(m, i)' <=> Going(m, i)
             /\ Coming(m, i)' <=> Coming(m, i)
             /\ InOrder(Stream(m), m, i) => InOrder(Stream(m), m, i)'
             /\ Behind(Stream(m), m, i) => ~Going(m, i)' /\ ~Coming(m, i)'
  <2>1. /\ Going(m, i) <=> \/ Going(m, i)'
                           \/ On(Head(toCtl), m, i) /\ Head(toCtl).type \in {"dev_deleted", "dev_netns_changed"}
        /\ Coming(m, i) <=> \/ Coming(m, i)'
                            \/ On(Head(toCtl), m, i) /\ Head(toCtl).type = "dev_created"
        /\ InOrder(Stream(m), m, i) => InOrder(Stream(m), m, i)'
        /\ Behind(Stream(m), m, i) => (IsAnswer(Head(toCtl)) => ~Going(m, i)' /\ ~Coming(m, i)')
    BY <1>1, <1>2, <1>3, TakeStreams
  <2> QED
    BY <1>2, <1>3, <2>1
<1>10. \A n, i : (Clears(n, i)' <=> Clears(n, i)) /\ (Taken(n, i)' <=> Taken(n, i))
                 /\ (Creating(n, i)' <=> Creating(n, i)) /\ (Holds(n, i)' <=> Holds(n, i))
  <2>1. \A d : Usable(d)' <=> Usable(d)
    BY <1>2 DEF Usable, ctlVars
  <2>2. \A n, i : Clears(n, i)' <=> Clears(n, i)
    BY <1>6, <1>7 DEF Clears
  <2>3. \A n, i : Holds(n, i)' <=> Holds(n, i)
    BY <1>2, <2>1 DEF Holds, ctlVars
  <2> QED
    BY <1>6, <1>7, <2>2, <2>3 DEF Taken, Creating
<1>11. Types' /\ OnlyStaleEventsFail'
  <2>1. QueueTypes'
    BY <1>1, <1>2, <1>3, <1>4 DEF QueueTypes
  <2>2. CtlTypes'
    BY <1>1, <1>2, <1>7 DEF CtlTypes, ctlVars
  <2>3. CallOps'
    BY <1>1, <1>2, <1>5, <1>6, <1>7 DEF CallOps, ctlVars
  <2>4. OnlyStaleEventsFail'
    BY <1>1, <1>2 DEF OnlyStaleEventsFail, ctlVars
  <2> QED
    BY <1>8, <2>1, <2>2, <2>3, <2>4 DEF Types
<1>12. Working'
  <2>1. Stage'
    BY <1>1, <1>2, <1>5, <1>6, <1>7 DEF Stage, ctlVars, Commanded
  <2>2. OneAnswer'
    <3>1. \A m \in NetNs : ~Answered1(pipe'[m])
      BY <1>1, <1>2, <1>4, <1>5, SpacesFacts DEF OneAnswer, Pipe
    <3>2. ~Answered1(toCtl') /\ \A m \in Spaces : Lone(Stream(m)')
      BY <1>1, <1>4, <1>5, SpacesFacts DEF OneAnswer
    <3> QED
      BY <3>1, <3>2 DEF OneAnswer
  <2>3. Exceptions'
    BY <1>1, <1>2, <1>4, <1>5, <1>7 DEF Exceptions
  <2>4. Cleared'
    BY <1>1, <1>5, <1>6, <1>7, <1>9, <1>10 DEF Cleared
  <2>5. Unmanaged'
    <3>1. ASSUME NEW m \in NetNs, m \notin managed, NEW i \in Indices PROVE ~Going(m, i)' /\ ~Coming(m, i)'
      <4>1. m \in Spaces
        BY SpacesFacts
      <4>2. Going(m, i) \/ Coming(m, i) => Clears(m, i)
        BY <1>1, <1>5, <1>6, <3>1 DEF Unmanaged, Clears
      <4>3. Clears(m, i) => Behind(Stream(m), m, i)
        BY <1>1, <1>5, <1>6, <4>1 DEF Cleared
      <4> QED
        BY <1>9, <4>1, <4>2, <4>3
    <3> QED
      BY <1>1, <1>2, <1>5, <1>6, <1>7, <1>8, <3>1 DEF Unmanaged
  <2>6. OwnMove'
    <3>1. \A m, i, j : MovesTo(m, i, j) => MovesTo(m, i, j)'
      BY <1>2, <1>7 DEF MovesTo, ctlVars
    <3> QED
      BY <1>1, <1>2, <1>4, <1>5, <3>1, OwnMoveKept
  <2> QED
    BY <2>1, <2>2, <2>3, <2>4, <2>5, <2>6 DEF Working
<1>13. (Live' <=> Live) /\ (Early' <=> Early)
  BY <1>2 DEF Live, Early, ctlVars
<1>14. ASSUME Live PROVE LiveInv'
  <2>1. OneDel'
    BY <1>1, <1>2, <1>13, <1>14 DEF OneDel
  <2>2. Shape' /\ Links'
    BY <1>1, <1>2, <1>8, <1>9, <1>14 DEF Shape, Links
  <2>3. Pending'
    BY <1>1, <1>2, <1>8, <1>9, <1>10, <1>13, <1>14 DEF Pending
  <2>4. InHand'
    BY <1>1, <1>2, <1>7, <1>8, <1>9, <1>10, <1>14 DEF InHand
  <2>5. Chain'
    BY <1>1, <1>2, <1>9, <1>10, <1>14 DEF Chain, MovedFrom, ctlVars
  <2>6. OpInHand'
    BY <1>7 DEF OpInHand, Commanded
  <2>7. Objects' /\ OpObjects'
    BY <1>1, <1>2, <1>7, <1>14 DEF Objects, OpObjects, Usable, Commanded, ctlVars
  <2>8. TrueHandles'
    <3>1. \A d : Usable(d)' <=> Usable(d)
      BY <1>2 DEF Usable, ctlVars
    <3> QED
      BY <1>1, <1>2, <1>6, <1>7, <1>14, <3>1 DEF TrueHandles, TrueMove, Own, ctlVars
  <2> QED
    BY <2>1, <2>2, <2>3, <2>4, <2>5, <2>6, <2>7, <2>8 DEF LiveInv
<1> QED
  BY <1>11, <1>12, <1>13, <1>14 DEF DeviceInv

\* When the rest of a batch is dropped, what is said of an index is still in order.
LEMMA DropOrder ==
  ASSUME AgentTypes, QueueTypes, toCtl' = SubSeq(toCtl, batch + 1, Len(toCtl)), pipe' = pipe,
         NEW m \in Spaces, NEW i \in Indices, InOrder(Stream(m), m, i), Coming(m, i), Going(m, i)'
  PROVE  Coming(m, i)'
<1> DEFINE t == toCtl'
           p == Pipe(m)
<1>1. /\ t = SubSeq(toCtl, batch + 1, Len(toCtl)) /\ batch \in 0..Len(toCtl)
      /\ toCtl \in Seq(Messages) /\ p \in Seq(Messages) /\ Pipe(m)' = p
  BY StreamIsMessages DEF QueueTypes, Pipe, AgentTypes
<1>2. /\ t \in Seq(Messages)
      /\ \A k \in DOMAIN t : k + batch \in DOMAIN toCtl /\ t[k] = toCtl[k + batch]
      /\ \A k \in DOMAIN toCtl : k > batch => k - batch \in DOMAIN t /\ t[k - batch] = toCtl[k]
  BY <1>1, QueueRest
<1>3. Stream(m) = toCtl \o p /\ Stream(m)' = t \o p
  BY <1>1 DEF Stream
<1> HIDE DEF t, p
<1>4. /\ Come(toCtl \o p, m, i) <=> Come(toCtl, m, i) \/ Come(p, m, i)
      /\ InOrder(toCtl \o p, m, i) => /\ InOrder(toCtl, m, i)
                                      /\ Come(toCtl, m, i) => ~Leave(p, m, i) /\ ~Come(p, m, i)
      /\ Come(t \o p, m, i) <=> Come(t, m, i) \/ Come(p, m, i)
      /\ Leave(t \o p, m, i) <=> Leave(t, m, i) \/ Leave(p, m, i)
  BY <1>1, <1>2, Concat
<1>5. /\ Come(toCtl, m, i) \/ Come(p, m, i)
      /\ InOrder(toCtl, m, i) /\ (Come(toCtl, m, i) => ~Leave(p, m, i) /\ ~Come(p, m, i))
  BY <1>3, <1>4 DEF Coming
<1>6. Leave(t, m, i) \/ Leave(p, m, i)
  <2>1. Leave(Stream(m)', m, i)
    BY DEF Going
  <2> QED
    BY <1>3, <1>4, <2>1
<1>7. Come(t, m, i) \/ Come(p, m, i)
  <2> SUFFICES ASSUME Come(toCtl, m, i), Leave(t, m, i) PROVE Come(t, m, i)
    BY <1>5, <1>6
  <2>1. PICK k \in DOMAIN toCtl : On(toCtl[k], m, i) /\ toCtl[k].type = "dev_created"
    BY DEF Come
  <2>2. PICK l \in DOMAIN t : On(t[l], m, i) /\ t[l].type \in {"dev_deleted", "dev_netns_changed"}
    BY DEF Leave
  <2>3. /\ l + batch \in DOMAIN toCtl /\ On(toCtl[l + batch], m, i)
        /\ toCtl[l + batch].type \in {"dev_deleted", "dev_netns_changed"}
    BY <1>2, <2>2
  <2>4. DOMAIN toCtl \subseteq Nat /\ DOMAIN t \subseteq Nat \ {0} /\ batch \in Nat
    BY <1>1, <1>2
  <2>5. ~(k < l + batch) /\ k # l + batch
    BY <1>5, <2>1, <2>3 DEF InOrder
  <2>6. k > batch
    BY <2>4, <2>5
  <2> QED
    BY <1>2, <2>1, <2>6 DEF Come
<1>8. Come(Stream(m)', m, i)
  BY <1>3, <1>4, <1>7
<1> QED
  BY <1>8 DEF Coming

\* The batch of an answer holds no other.
LEMMA DropAnswers ==
  ASSUME AgentTypes, QueueTypes, toCtl' = SubSeq(toCtl, batch + 1, Len(toCtl)), batch > 0,
         IsAnswer(Head(toCtl)), \A m \in Spaces : Lone(Stream(m))
  PROVE  ~Answered1(toCtl') /\ \A m \in NetNs : ~Answered1(pipe[m])
<1>1. toCtl \in Seq(Messages) /\ batch \in Nat /\ toCtl # <<>> /\ batch \in 0..Len(toCtl)
  BY DEF QueueTypes
<1>2. 1 \in DOMAIN toCtl /\ IsAnswer(toCtl[1]) /\ DOMAIN toCtl \subseteq Nat
  BY <1>1
<1>3. Answered1(toCtl)
  BY <1>2 DEF Answered1
<1>4. ASSUME NEW m \in Spaces PROVE Lone(toCtl) /\ ~Answered1(Pipe(m))
  <2> DEFINE p == Pipe(m)
  <2>1. Stream(m) = toCtl \o p /\ Lone(Stream(m))
    BY DEF Stream
  <2>2. p \in Seq(Messages)
    BY StreamIsMessages
  <2> HIDE DEF p
  <2>3. Lone(toCtl) /\ ~Answered1(p)
    BY <1>1, <1>3, <2>1, <2>2, ConcatAnswers
  <2> QED
    BY <2>3 DEF p
<1>5. \A m \in NetNs : ~Answered1(pipe[m])
  BY <1>4, SpacesFacts DEF Pipe
<1>6. Lone(toCtl)
  BY <1>4, SpacesFacts
<1>7. ~Answered1(toCtl')
  <2> DEFINE t == toCtl'
  <2>1. \A k \in DOMAIN t : k + batch \in DOMAIN toCtl /\ t[k] = toCtl[k + batch]
    BY <1>1, QueueRest
  <2>2. DOMAIN t \subseteq Nat \ {0}
    <3>1. t \in Seq(Messages)
      BY <1>1, QueueRest
    <3> QED
      BY <3>1
  <2> HIDE DEF t
  <2>3. ASSUME NEW k \in DOMAIN t, IsAnswer(t[k]) PROVE FALSE
    <3>1. k + batch = 1
      BY <1>2, <1>6, <2>1, <2>3 DEF Lone
    <3> QED
      BY <1>1, <2>2, <3>1
  <2> QED
    BY <2>3 DEF Answered1, t
<1> QED
  BY <1>5, <1>7

LEMMA ctl_exception_Inv ==
  ASSUME DeviceInv, ctl_exception
  PROVE  DeviceInv'
<1>1. /\ KernelTypes /\ AgentTypes /\ QueueTypes /\ CtlTypes /\ CallOps /\ OnlyStaleEventsFail
      /\ pc # "failed" => Stage /\ OneAnswer /\ Exceptions /\ Unmanaged /\ Cleared /\ OwnMove
      /\ Live => /\ OneDel /\ Shape /\ Links /\ Pending /\ InHand
                 /\ OpInHand /\ Objects /\ OpObjects /\ Chain /\ TrueHandles
  BY DEF DeviceInv, Types, Working, LiveInv
<1>2. /\ AgentsRest /\ batch > 0 /\ Head(toCtl).type = "exception"
      /\ call' = NoCall /\ pc' = "test"
      /\ toCtl' = SubSeq(toCtl, batch + 1, Len(toCtl)) /\ batch' = 0
      /\ where' = where /\ nl' = nl /\ known' = known /\ managed' = managed
      /\ pipe' = pipe /\ faults' = faults
      /\ run' = run /\ ops' = ops /\ names' = names /\ dbRun' = dbRun /\ db' = db /\ moved' = moved
      /\ handle' = handle /\ gone' = gone
  BY DEF ctl_exception, kernelVars, agentVars, AgentsRest
<1>3. toCtl # <<>> /\ IsAnswer(Head(toCtl)) /\ Head(toCtl) \in Sent /\ batch \in Nat
  <2>1. toCtl # <<>> /\ batch \in Nat /\ toCtl \in Seq(Messages)
    BY <1>1, <1>2 DEF QueueTypes
  <2>2. 1 \in DOMAIN toCtl /\ Head(toCtl) = toCtl[1] /\ Head(toCtl) \in Messages
    BY <2>1
  <2> QED
    BY <1>2, <2>1, <2>2 DEF Sent, IsAnswer
<1>4. call.op # "none" /\ pc # "failed"
  BY <1>1, <1>2, <1>3 DEF CallOps, NoCall
<1>5. /\ "raise" \in faults /\ pc = "test"
      /\ call.op = "destroy" \/ (call.op = "set_dev_netns" /\ call.dst = Root)
  BY <1>1, <1>2, <1>3, <1>4 DEF Exceptions, CallOps
<1>6. /\ KernelTypes' /\ AgentTypes'
      /\ \A n : At(where, n)' = At(where, n)
      /\ \A n, i : /\ New(n, i)' <=> New(n, i)
                   /\ Dropping(n, i)' <=> Dropping(n, i)
                   /\ Settled(n, i)' <=> Settled(n, i)
  BY <1>1, <1>2, AgentsStay
<1>7. /\ toCtl' \in Seq(Messages)
      /\ Sent' \subseteq Sent
      /\ \A m \in Spaces : Lone(Stream(m)')
      /\ \A m \in Spaces, i \in Indices :
           /\ Going(m, i)' => Going(m, i)
           /\ Coming(m, i)' => Coming(m, i)
           /\ InOrder(Stream(m), m, i) => InOrder(Stream(m), m, i)'
  BY <1>1, <1>2, <1>4, DropStreams DEF OneAnswer
<1>8. ~Answered1(toCtl') /\ \A m \in NetNs : ~Answered1(pipe'[m])
  BY <1>1, <1>2, <1>3, <1>4, DropAnswers DEF OneAnswer
<1>9. /\ call'.op = "none" /\ call'.at = "none" /\ call'.val = {}
      /\ call' \in Calls
  BY <1>2 DEF NoCall, Calls, Ops
<1>10. /\ \A n, i : ~Clears(n, i)' /\ ~Creating(n, i)' /\ (Holds(n, i)' <=> Holds(n, i))
                    /\ (Taken(n, i)' => Taken(n, i))
  <2>1. \A d : Usable(d)' <=> Usable(d)
    BY <1>2 DEF Usable
  <2>2. \A n, i : Holds(n, i)' <=> Holds(n, i)
    BY <1>2, <2>1 DEF Holds
  <2> QED
    BY <1>9, <2>2 DEF Clears, Creating, Taken
<1>11. Types' /\ OnlyStaleEventsFail'
  <2>1. QueueTypes'
    BY <1>2, <1>7 DEF QueueTypes
  <2>2. CtlTypes'
    BY <1>1, <1>2, <1>9 DEF CtlTypes
  <2>3. CallOps'
    BY <1>2, <1>9 DEF CallOps
  <2>4. OnlyStaleEventsFail'
    BY <1>2 DEF OnlyStaleEventsFail
  <2> QED
    BY <1>6, <2>1, <2>2, <2>3, <2>4 DEF Types
<1>12. "timeout" \notin faults =>
         /\ \A m \in Sent : m.type # "dev_netns_changed"
         /\ \A m \in Spaces : \A k \in DOMAIN nl[m] : nl[m][k].new = NoIdx
  BY <1>1, <1>4, <1>5 DEF OwnMove, MovesTo
<1>13. Working'
  <2>1. Stage'
    BY <1>1, <1>2, <1>4, <1>5, <1>9 DEF Stage, Commanded
  <2>2. OneAnswer'
    BY <1>7, <1>8 DEF OneAnswer
  <2>3. Exceptions'
    <3> SUFFICES ASSUME NEW m \in Sent', IsAnswer(m) PROVE FALSE
      BY DEF Exceptions, IsAnswer
    <3> QED
      BY <1>8 DEF Sent, Answered1
  <2>4. Cleared'
    BY <1>10 DEF Cleared
  <2>5. Unmanaged'
    <3>1. managed' = Spaces
      BY <1>1, <1>2, <1>4, <1>5 DEF Stage
    <3> QED
      BY <1>9, <3>1, SpacesFacts DEF Unmanaged
  <2>6. OwnMove'
    BY <1>2, <1>7, <1>12 DEF OwnMove
  <2> QED
    BY <2>1, <2>2, <2>3, <2>4, <2>5, <2>6 DEF Working
<1>14. Live /\ ~Early /\ ~Early'
  BY <1>2, <1>5 DEF Live, Early
<1>15. LiveInv'
  <2>1. OneDel'
    BY <1>1, <1>2, <1>14 DEF OneDel
  <2>2. Shape' /\ Links'
    BY <1>1, <1>2, <1>6, <1>7, <1>14 DEF Shape, Links
  <2>3. Pending'
    <3>1. ASSUME NEW m \in Spaces, NEW i \in Indices, Going(m, i)', ~Coming(m, i)'
          PROVE  i \notin known'[m]
      <4>1. ~Coming(m, i)
        BY <1>1, <1>2, <1>14, <3>1, DropOrder DEF Shape
      <4>2. ~Creating(m, i)
        BY <1>5 DEF Creating
      <4> QED
        BY <1>1, <1>2, <1>7, <1>14, <3>1, <4>1, <4>2 DEF Pending
    <3> QED
      BY <1>1, <1>6, <1>7, <1>14, <3>1 DEF Pending
  <2>4. InHand'
    BY <1>1, <1>2, <1>6, <1>7, <1>10, <1>14 DEF InHand
  <2>5. Chain'
    BY <1>2, <1>5 DEF Chain
  <2>6. OpInHand'
    BY <1>9 DEF OpInHand, Commanded
  <2>7. Objects' /\ OpObjects'
    BY <1>1, <1>2, <1>9, <1>14 DEF Objects, OpObjects, Usable, Commanded
  <2>8. TrueHandles'
    <3>1. \A d : Usable(d)' <=> Usable(d)
      BY <1>2 DEF Usable
    <3> QED
      BY <1>1, <1>2, <1>5, <1>9, <1>14, <3>1 DEF TrueHandles, TrueMove, Own
  <2> QED
    BY <2>1, <2>2, <2>3, <2>4, <2>5, <2>6, <2>7, <2>8 DEF LiveInv
<1> QED
  BY <1>11, <1>13, <1>15 DEF DeviceInv

LEMMA event_fails_Inv ==
  ASSUME DeviceInv, event_fails
  PROVE  DeviceInv'
<1>1. /\ KernelTypes /\ AgentTypes /\ QueueTypes /\ CtlTypes /\ CallOps /\ OnlyStaleEventsFail
      /\ pc # "failed" => Stage /\ OneAnswer /\ Exceptions /\ Unmanaged /\ Cleared /\ OwnMove
      /\ Live => /\ OneDel /\ Shape /\ Links /\ Pending /\ InHand
                 /\ OpInHand /\ Objects /\ OpObjects /\ Chain /\ TrueHandles
  BY DEF DeviceInv, Types, Working, LiveInv
<1>2. /\ AgentsRest /\ batch > 0 /\ Head(toCtl).type \notin {"result", "exception"}
      /\ EventRaises(Head(toCtl))
      /\ call' = NoCall /\ pc' = "failed"
      /\ toCtl' = SubSeq(toCtl, batch + 1, Len(toCtl)) /\ batch' = 0
      /\ pipe' = pipe /\ faults' = faults
      /\ run' = run /\ ops' = ops /\ names' = names /\ dbRun' = dbRun /\ db' = db /\ moved' = moved
      /\ handle' = handle /\ gone' = gone
  BY DEF event_fails, kernelVars, agentVars, AgentsRest
<1> DEFINE h == Head(toCtl)
<1>3. /\ toCtl # <<>> /\ h \in Events /\ h \in Sent /\ h.ns \in Spaces /\ h.idx \in Indices
      /\ Going(h.ns, h.idx) \/ Coming(h.ns, h.idx)
  <2>1. toCtl # <<>> /\ batch \in Nat /\ toCtl \in Seq(Messages)
    BY <1>1, <1>2 DEF QueueTypes
  <2>2. 1 \in DOMAIN toCtl /\ h = toCtl[1] /\ h \in Messages
    BY <2>1
  <2>3. h \in Events /\ h.ns \in Spaces /\ h.idx \in Indices
    BY <1>2, <2>2, MessageFacts DEF IsAnswer
  <2>4. On(h, h.ns, h.idx)
    BY DEF On
  <2>5. Leave(toCtl, h.ns, h.idx) \/ Come(toCtl, h.ns, h.idx)
    BY <2>2, <2>3, <2>4 DEF Leave, Come, Events, EventTypes
  <2>6. /\ Leave(Stream(h.ns), h.ns, h.idx) <=> Leave(toCtl, h.ns, h.idx) \/ Leave(Pipe(h.ns), h.ns, h.idx)
        /\ Come(Stream(h.ns), h.ns, h.idx) <=> Come(toCtl, h.ns, h.idx) \/ Come(Pipe(h.ns), h.ns, h.idx)
    <3>1. Pipe(h.ns) \in Seq(Messages)
      BY <1>1, <2>3, StreamIsMessages
    <3> HIDE DEF h
    <3> QED
      BY <2>1, <2>3, <3>1, Concat DEF Stream
  <2> QED
    BY <2>1, <2>2, <2>3, <2>5, <2>6 DEF Going, Coming, Sent
<1> HIDE DEF h
<1>4. call.op # "none" /\ pc # "failed"
  BY <1>1, <1>2, <1>3 DEF CallOps, NoCall, QueueTypes
<1>5. dbRun < run \/ "timeout" \in faults
  <2>1. CASE ~HasDatabase(h.ns)
    <3>1. CASE h.ns = Root
      BY <1>1, <2>1, <3>1 DEF HasDatabase, CtlTypes
    <3>2. CASE h.ns # Root
      <4>1. h.ns \notin names /\ h.ns \in NetNs
        BY <1>3, <2>1, <3>2, SpacesFacts DEF HasDatabase
      <4>2. h.ns \in managed
        <5> SUFFICES ASSUME h.ns \notin managed PROVE FALSE
          OBVIOUS
        <5>1. call.op = "del_namespace"
          BY <1>1, <1>3, <1>4, <4>1 DEF Unmanaged
        <5> QED
          BY <1>1, <1>4, <4>1, <5>1 DEF Stage
      <4>3. pc \in {"prepare", "netns", "test", "cleanup"}
        BY <1>1, <1>4 DEF CallOps, CtlTypes, Calls, Ops
      <4>4. call.op \in {"destroy_devices", "del_namespace", "bye"} <=> pc = "cleanup"
        BY <1>1 DEF CallOps
      <4> QED
        BY <1>1, <1>4, <3>2, <4>1, <4>2, <4>3, <4>4 DEF Stage
    <3> QED
      BY <3>1, <3>2
  <2>2. CASE h.type = "dev_netns_changed" /\ MovedFrom(h.ns, h.idx) = {}
    <3> SUFFICES ASSUME "timeout" \notin faults PROVE FALSE
      OBVIOUS
    <3>1. MovesTo(h.ns, h.idx, h.new)
      BY <1>1, <1>3, <1>4, <2>2 DEF OwnMove
    <3>2. /\ call.op = "set_dev_netns" /\ call.ns = h.ns /\ call.idx = h.idx /\ moved[call.d] # Unmoved
          /\ pc = "test" /\ call.d \in Devs
      BY <1>1, <3>1 DEF MovesTo, CallOps
    <3>3. TrueMove(call.d)
      BY <1>1, <3>2 DEF Live, TrueHandles
    <3>4. moved[call.d].src = h.ns /\ moved[call.d].old = h.idx
      BY <3>2, <3>3 DEF TrueMove, Own
    <3>5. call.d \in MovedFrom(h.ns, h.idx)
      BY <3>2, <3>4 DEF MovedFrom
    <3> QED
      BY <2>2, <3>5
  <2> QED
    BY <1>2, <2>1, <2>2 DEF EventRaises, h
<1>6. Types'
  <2>1. KernelTypes' /\ AgentTypes'
    BY <1>1, <1>2, AgentsStay
  <2>2. QueueTypes'
    BY <1>1, <1>2, DropStreams DEF QueueTypes
  <2>3. call'.op = "none" /\ call'.at = "none" /\ call'.val = {} /\ call' \in Calls
    BY <1>2 DEF NoCall, Calls, Ops
  <2>4. CtlTypes'
    BY <1>1, <1>2, <2>3 DEF CtlTypes
  <2>5. CallOps'
    BY <1>2, <2>3 DEF CallOps
  <2> QED
    BY <2>1, <2>2, <2>4, <2>5 DEF Types
<1>7. OnlyStaleEventsFail' /\ ~Live'
  BY <1>2, <1>5 DEF OnlyStaleEventsFail, Live
<1> QED
  BY <1>2, <1>6, <1>7 DEF DeviceInv

\* The controller takes an event of index i of namespace n.
TakesEvent(h, n, i) ==
  /\ AgentsRest /\ batch > 0 /\ h = Head(toCtl) /\ h.type \notin {"result", "exception"}
  /\ n = h.ns /\ i = h.idx
  /\ HasDatabase(n)
  /\ toCtl' = Tail(toCtl) /\ batch' = batch - 1
  /\ call' = call /\ pc' = pc /\ run' = run /\ ops' = ops /\ names' = names /\ dbRun' = dbRun /\ gone' = gone
  /\ where' = where /\ nl' = nl /\ known' = known /\ managed' = managed
  /\ pipe' = pipe /\ faults' = faults

\* What is taken away from the streams.
EventStreams(h, n, i) ==
  /\ \A m \in Spaces, j \in Indices :
       /\ Going(m, j)' => Going(m, j)
       /\ Coming(m, j)' => Coming(m, j)
       /\ m # n \/ j # i => (Going(m, j)' <=> Going(m, j)) /\ (Coming(m, j)' <=> Coming(m, j))
       /\ InOrder(Stream(m), m, j) => InOrder(Stream(m), m, j)'
       /\ Behind(Stream(m), m, j) => Behind(Stream(m), m, j)'
  /\ h.type = "dev_created" => Coming(n, i)
  /\ h.type # "dev_created" => Going(n, i) /\ (Coming(n, i)' <=> Coming(n, i))
  /\ InOrder(Stream(n), n, i) => ~Going(n, i)' /\ (h.type = "dev_created" => ~Coming(n, i)')
  /\ Sent' \subseteq Sent /\ h \in Sent

\* Taking an event h of (n, i) off the head of the queue.
LEMMA EventOff ==
  ASSUME AgentTypes, QueueTypes, NEW h, NEW n, NEW i, TakesEvent(h, n, i)
  PROVE  /\ h \in Events /\ n \in Spaces /\ i \in Indices /\ h.type \in EventTypes
         /\ EventStreams(h, n, i)
         /\ QueueTypes'
         /\ Answered1(toCtl') => Answered1(toCtl)
         /\ \A m \in Spaces : Lone(Stream(m)) => Lone(Stream(m)')
<1>1. /\ toCtl # <<>> /\ batch \in Nat /\ toCtl \in Seq(Messages) /\ h = Head(toCtl)
      /\ toCtl' = Tail(toCtl) /\ pipe' = pipe
  BY DEF QueueTypes, TakesEvent
<1>2. /\ Answered1(toCtl') => Answered1(toCtl)
      /\ \A m \in Spaces : Lone(Stream(m)) => Lone(Stream(m)')
      /\ Sent' \subseteq Sent /\ h \in Sent /\ h \in Messages
      /\ toCtl' \in Seq(Messages) /\ Len(toCtl') = Len(toCtl) - 1
  BY <1>1, TakeAnswers
<1>3. h \in Events /\ n \in Spaces /\ i \in Indices /\ h.type \in EventTypes
  BY <1>2, MessageFacts DEF IsAnswer, TakesEvent
<1>4. QueueTypes'
  BY <1>1, <1>2 DEF QueueTypes, TakesEvent
<1>5. On(h, n, i) /\ \A m, j : On(h, m, j) => m = n /\ j = i
  BY DEF On, TakesEvent
<1>6. ASSUME NEW m \in Spaces, NEW j \in Indices
      PROVE  /\ Going(m, j) <=> \/ Going(m, j)'
                                \/ On(h, m, j) /\ h.type \in {"dev_deleted", "dev_netns_changed"}
             /\ Coming(m, j) <=> \/ Coming(m, j)'
                                 \/ On(h, m, j) /\ h.type = "dev_created"
             /\ InOrder(Stream(m), m, j) =>
                  /\ InOrder(Stream(m), m, j)'
                  /\ On(h, m, j) => ~Going(m, j)' /\ (h.type = "dev_created" => ~Coming(m, j)')
             /\ Behind(Stream(m), m, j) => Behind(Stream(m), m, j)'
  BY <1>1, TakeStreams
<1>7. EventStreams(h, n, i)
  <2>1. /\ \A m \in Spaces, j \in Indices :
             /\ Going(m, j)' => Going(m, j)
             /\ Coming(m, j)' => Coming(m, j)
             /\ m # n \/ j # i => (Going(m, j)' <=> Going(m, j)) /\ (Coming(m, j)' <=> Coming(m, j))
             /\ InOrder(Stream(m), m, j) => InOrder(Stream(m), m, j)'
             /\ Behind(Stream(m), m, j) => Behind(Stream(m), m, j)'
    BY <1>5, <1>6
  <2>2. /\ h.type = "dev_created" => Coming(n, i)
        /\ h.type # "dev_created" => Going(n, i) /\ (Coming(n, i)' <=> Coming(n, i))
        /\ InOrder(Stream(n), n, i) => ~Going(n, i)' /\ (h.type = "dev_created" => ~Coming(n, i)')
    BY <1>3, <1>5, <1>6 DEF EventTypes
  <2> QED
    BY <1>2, <2>1, <2>2 DEF EventStreams
<1> QED
  BY <1>2, <1>3, <1>4, <1>7

\* ... keeps all that is independent of the controller's objects,
LEMMA EventWorks ==
  ASSUME DeviceInv, NEW h, NEW n, NEW i, TakesEvent(h, n, i)
  PROVE  /\ pc # "failed" /\ call.op # "none"
         /\ KernelTypes' /\ AgentTypes' /\ QueueTypes' /\ CallOps' /\ OnlyStaleEventsFail'
         /\ OneAnswer' /\ Exceptions' /\ Unmanaged' /\ Cleared'
         /\ pc = "prepare" => Live
         /\ (Live' <=> Live) /\ (Early' <=> Early)
<1>1. /\ KernelTypes /\ AgentTypes /\ QueueTypes /\ CtlTypes /\ CallOps /\ OnlyStaleEventsFail
      /\ pc # "failed" => Stage /\ OneAnswer /\ Exceptions /\ Unmanaged /\ Cleared /\ OwnMove
  BY DEF DeviceInv, Types, Working
<1>2. pc # "failed" /\ call.op # "none"
  BY <1>1 DEF CallOps, NoCall, TakesEvent
<1>3. /\ EventStreams(h, n, i) /\ QueueTypes'
      /\ Answered1(toCtl') => Answered1(toCtl)
      /\ \A m \in Spaces : Lone(Stream(m)) => Lone(Stream(m)')
  BY <1>1, EventOff
<1>4. /\ AgentsRest /\ call' = call /\ pc' = pc /\ run' = run /\ names' = names /\ dbRun' = dbRun
      /\ managed' = managed /\ nl' = nl /\ known' = known /\ pipe' = pipe /\ faults' = faults
      /\ HasDatabase(n) /\ batch > 0
  BY DEF TakesEvent
<1>5. /\ KernelTypes' /\ AgentTypes'
      /\ \A m : At(where, m)' = At(where, m)
  BY <1>1, <1>4, AgentsStay
<1>6. CallOps'
  BY <1>1, <1>2, <1>4 DEF CallOps
<1>7. OnlyStaleEventsFail'
  BY <1>1, <1>4 DEF OnlyStaleEventsFail
<1>8. OneAnswer'
  BY <1>1, <1>2, <1>3, <1>4 DEF OneAnswer
<1>9. Exceptions'
  BY <1>1, <1>2, <1>3, <1>4 DEF Exceptions, EventStreams
<1>10. Unmanaged'
  <2>1. \A m \in NetNs, j \in Indices : (Going(m, j)' => Going(m, j)) /\ (Coming(m, j)' => Coming(m, j))
    BY <1>3, SpacesFacts DEF EventStreams
  <2> QED
    BY <1>1, <1>2, <1>4, <1>5, <2>1 DEF Unmanaged
<1>11. Cleared'
  <2>1. \A m, j : Clears(m, j)' <=> Clears(m, j)
    BY <1>4 DEF Clears
  <2> QED
    BY <1>1, <1>2, <1>3, <1>4, <2>1 DEF Cleared, EventStreams
<1>12. pc = "prepare" => Live
  <2> SUFFICES ASSUME pc = "prepare" PROVE dbRun = run
    BY DEF Live
  <2>1. n \notin names
    BY <1>1, <1>2 DEF Stage
  <2> QED
    BY <1>4, <2>1 DEF HasDatabase
<1>13. (Live' <=> Live) /\ (Early' <=> Early)
  BY <1>4 DEF Live, Early
<1> QED
  BY <1>1, <1>2, <1>3, <1>5, <1>6, <1>7, <1>8, <1>9, <1>10, <1>11, <1>12, <1>13

\* ... and what relates messages, agents and the kernel.
LEMMA EventLive ==
  ASSUME KernelTypes, AgentTypes, QueueTypes, OneDel, Shape, Links, Pending, InHand,
         NEW h, NEW n, NEW i, TakesEvent(h, n, i),
         \A m \in Spaces, j \in Indices :
           Taken(m, j)' => Taken(m, j) \/ (h.type = "dev_created" /\ m = n /\ j = i)
  PROVE  OneDel' /\ Shape' /\ Links' /\ Pending' /\ InHand'
<1>1. EventStreams(h, n, i) /\ n \in Spaces /\ i \in Indices
  BY EventOff
<1>2. /\ AgentsRest /\ call' = call /\ pc' = pc
      /\ managed' = managed /\ nl' = nl /\ known' = known /\ faults' = faults /\ where' = where
  BY DEF TakesEvent
<1>3. /\ \A m : At(where, m)' = At(where, m)
      /\ \A m, j : /\ New(m, j)' <=> New(m, j)
                   /\ Dropping(m, j)' <=> Dropping(m, j)
                   /\ Settled(m, j)' <=> Settled(m, j)
  BY <1>2, AgentsStay
<1>4. /\ \A m, j : (Clears(m, j)' <=> Clears(m, j)) /\ (Creating(m, j)' <=> Creating(m, j))
      /\ Early' <=> Early
  BY <1>2 DEF Clears, Creating, Early
<1>5. OneDel'
  BY <1>2, <1>4 DEF OneDel
<1>6. Shape'
  BY <1>1 DEF Shape, EventStreams
<1>7. Links'
  BY <1>1, <1>2, <1>3 DEF Links, EventStreams
<1>8. ~Going(n, i)' /\ (h.type = "dev_created" => ~Coming(n, i)')
  BY <1>1 DEF Shape, EventStreams
<1>9. Pending'
  BY <1>1, <1>2, <1>3, <1>4, <1>8 DEF Pending, EventStreams
<1>10. InHand'
  <2>1. h.type = "dev_created" => Coming(n, i) /\ Settled(n, i) /\ ~Creating(n, i)
    BY <1>1 DEF EventStreams, Pending, InHand
  <2> SUFFICES ASSUME NEW m \in Spaces, NEW j \in Indices
               PROVE  /\ Taken(m, j)' => Settled(m, j) /\ ~Going(m, j)' /\ ~Coming(m, j)'
                      /\ Clears(m, j) => Settled(m, j)
                      /\ Creating(m, j) => ~Coming(m, j)' /\ ~Taken(m, j)' /\ where[call.d] = <<m, j>>
    BY <1>2, <1>3, <1>4 DEF InHand
  <2>2. /\ Taken(m, j) => Settled(m, j) /\ ~Going(m, j) /\ ~Coming(m, j)
        /\ Clears(m, j) => Settled(m, j)
        /\ Creating(m, j) => ~Coming(m, j) /\ ~Taken(m, j) /\ where[call.d] = <<m, j>>
    BY DEF InHand
  <2>3. (Going(m, j)' => Going(m, j)) /\ (Coming(m, j)' => Coming(m, j))
    BY <1>1 DEF EventStreams
  <2>4. Taken(m, j)' => Taken(m, j) \/ (h.type = "dev_created" /\ m = n /\ j = i)
    OBVIOUS
  <2> QED
    BY <1>8, <2>1, <2>2, <2>3, <2>4
<1> QED
  BY <1>5, <1>6, <1>7, <1>9, <1>10

LEMMA created_event_Inv ==
  ASSUME DeviceInv, NEW h, NEW n, NEW i, TakesEvent(h, n, i), h.type = "dev_created", device_created(n, i)
  PROVE  DeviceInv'
<1>1. /\ KernelTypes /\ AgentTypes /\ QueueTypes /\ CtlTypes /\ CallOps
      /\ pc # "failed" => Stage /\ OneAnswer /\ Exceptions /\ Unmanaged /\ Cleared /\ OwnMove
      /\ Live => /\ OneDel /\ Shape /\ Links /\ Pending /\ InHand
                 /\ OpInHand /\ Objects /\ OpObjects /\ Chain /\ TrueHandles
  BY DEF DeviceInv, Types, Working, LiveInv
<1>2. /\ pc # "failed" /\ call.op # "none"
      /\ KernelTypes' /\ AgentTypes' /\ QueueTypes' /\ CallOps' /\ OnlyStaleEventsFail'
      /\ OneAnswer' /\ Exceptions' /\ Unmanaged' /\ Cleared'
      /\ pc = "prepare" => Live
      /\ (Live' <=> Live) /\ (Early' <=> Early)
  BY EventWorks
<1>3. /\ h \in Events /\ n \in Spaces /\ i \in Indices /\ EventStreams(h, n, i)
      /\ Coming(n, i) /\ \A m \in Sent' : m \in Sent
  <2>1. h \in Events /\ n \in Spaces /\ i \in Indices /\ EventStreams(h, n, i)
    BY <1>1, EventOff
  <2> QED
    BY <2>1 DEF EventStreams
<1>4. /\ call' = call /\ pc' = pc /\ run' = run /\ ops' = ops /\ names' = names /\ dbRun' = dbRun /\ gone' = gone
      /\ where' = where /\ nl' = nl /\ known' = known /\ managed' = managed /\ faults' = faults
  BY DEF TakesEvent
<1>5. Nobody \notin Devs /\ Other \notin Devs /\ i # NoIdx /\ NoIdx \notin Indices /\ Nobody # Other
  BY <1>3, MovesAssumption, NoIdxNotIndex DEF Devs, Nobody, Other
<1>6. PICK x \in Devs \union {Other, Nobody} :
        /\ db' \in [Spaces -> [Indices -> Devs \union {Other, Nobody}]]
        /\ db[n][i] # Nobody => x = Nobody /\ db' = db
        /\ db[n][i] = Nobody => x # Nobody
        /\ \A m \in Spaces, j \in Indices : db'[m][j] = IF x # Nobody /\ m = n /\ j = i THEN x ELSE db[m][j]
        /\ x \in Devs => moved[x] # Unmoved /\ moved[x].dst = n /\ moved[x].new = i
        /\ moved' \in [Devs -> Moves \union {Unmoved}] /\ handle' \in [Devs -> Place]
        /\ \A d \in Devs : /\ moved'[d] = IF d = x THEN Unmoved ELSE moved[d]
                           /\ handle'[d] = IF d = x THEN <<n, i>> ELSE handle[d]
  <2>1. CASE db[n][i] # Nobody
    <3> WITNESS Nobody \in Devs \union {Other, Nobody}
    <3>1. db' = db /\ moved' = moved /\ handle' = handle
      BY <2>1 DEF device_created
    <3> QED
      BY <1>1, <1>5, <2>1, <3>1 DEF CtlTypes
  <2>2. CASE db[n][i] = Nobody
    <3> DEFINE match == {d \in Devs : moved[d] # Unmoved /\ moved[d].dst = n /\ moved[d].new = i}
    <3>1. PICK x \in IF match = {} THEN {Other} ELSE match :
            /\ db' = [db EXCEPT ![n][i] = x]
            /\ moved' = [d \in Devs |-> IF d = x THEN Unmoved ELSE moved[d]]
            /\ handle' = [d \in Devs |-> IF d = x THEN <<n, i>> ELSE handle[d]]
      BY <2>2 DEF device_created
    <3>2. x \in Devs \union {Other} /\ x # Nobody
          /\ (x \in Devs => moved[x] # Unmoved /\ moved[x].dst = n /\ moved[x].new = i)
      BY <1>5, <3>1
    <3>3. <<n, i>> \in Place
      BY <1>3 DEF Place
    <3> HIDE DEF match
    <3> x \in Devs \union {Other, Nobody}
      BY <3>2
    <3> WITNESS x \in Devs \union {Other, Nobody}
    <3>4. db' \in [Spaces -> [Indices -> Devs \union {Other, Nobody}]]
      BY <1>1, <1>3, <3>1, <3>2 DEF CtlTypes
    <3>5. \A m \in Spaces, j \in Indices : db'[m][j] = IF x # Nobody /\ m = n /\ j = i THEN x ELSE db[m][j]
      BY <1>1, <1>3, <3>1, <3>2 DEF CtlTypes
    <3>6. moved' \in [Devs -> Moves \union {Unmoved}] /\ handle' \in [Devs -> Place]
      BY <1>1, <3>1, <3>3 DEF CtlTypes
    <3> QED
      BY <2>2, <3>1, <3>2, <3>4, <3>5, <3>6
  <2> QED
    BY <2>1, <2>2
<1>7. Types'
  <2>1. CtlTypes'
    BY <1>1, <1>4, <1>6 DEF CtlTypes
  <2> QED
    BY <1>2, <2>1 DEF Types
<1>8. Working'
  <2>1. Stage'
    <3>1. pc = "prepare" => \A d \in Devs : handle'[d] = handle[d] /\ moved'[d] = moved[d]
      BY <1>1, <1>2, <1>6 DEF Stage
    <3> QED
      BY <1>1, <1>2, <1>4, <3>1 DEF Stage, Commanded
  <2>2. OwnMove'
    <3>1. ASSUME NEW m, NEW j, NEW k, MovesTo(m, j, k) PROVE MovesTo(m, j, k)'
      <4>1. call.d \in Devs /\ moved[call.d].new = NoIdx
        BY <1>1, <3>1 DEF MovesTo, CallOps
      <4>2. moved'[call.d] = moved[call.d]
        BY <1>5, <1>6, <4>1
      <4> QED
        BY <1>4, <3>1, <4>2 DEF MovesTo
    <3> QED
      BY <1>1, <1>2, <1>3, <1>4, <3>1, OwnMoveKept
  <2> QED
    BY <1>2, <2>1, <2>2 DEF Working
<1>9. ASSUME Live PROVE LiveInv'
  <2>1. /\ OneDel /\ Shape /\ Links /\ Pending /\ InHand
        /\ OpInHand /\ Objects /\ OpObjects /\ Chain /\ TrueHandles
    BY <1>1, <1>9
  <2>2. Settled(n, i) /\ ~Taken(n, i) /\ ~Creating(n, i)
    BY <1>3, <2>1 DEF Pending, InHand
  <2>3. /\ ~Going(n, i)' /\ ~Coming(n, i)'
        /\ \A m \in Spaces, j \in Indices :
             m # n \/ j # i => (Going(m, j)' <=> Going(m, j)) /\ (Coming(m, j)' <=> Coming(m, j))
    BY <1>3, <2>1 DEF EventStreams, Shape
  <2>4. \A d \in Devs : /\ d # x => (Usable(d)' <=> Usable(d)) /\ handle'[d] = handle[d] /\ moved'[d] = moved[d]
                        /\ d = x => /\ ~Usable(d) /\ handle'[d] = <<n, i>> /\ moved'[d] = Unmoved
    BY <1>4, <1>6 DEF Usable
  <2>5. \A m \in Spaces, j \in Indices :
          /\ Holds(m, j)' => Holds(m, j) \/ (m = n /\ j = i)
          /\ Taken(m, j)' => Taken(m, j) \/ (m = n /\ j = i)
    <3>1. \A m \in Spaces, j \in Indices : Holds(m, j)' => Holds(m, j) \/ (m = n /\ j = i)
      BY <2>4 DEF Holds
    <3> QED
      BY <1>4, <3>1 DEF Taken
  <2>6. OneDel' /\ Shape' /\ Links' /\ Pending' /\ InHand'
    BY <1>1, <2>1, <2>5, EventLive
  <2>7. OpInHand'
    <3>1. \A op : Commanded(op)' <=> Commanded(op)
      BY <1>4 DEF Commanded
    <3>2. ASSUME Commanded("set_dev_netns") \/ Commanded("destroy") PROVE ~Holds(call.ns, call.idx)'
      <4>1. /\ ~Holds(call.ns, call.idx) /\ call.ns \in Spaces /\ call.idx \in Indices
            /\ call.op \in {"set_dev_netns", "remap", "destroy"} /\ call.at = "sent"
        BY <1>1, <2>1, <3>2 DEF OpInHand, CallOps, Commanded
      <4>2. Taken(call.ns, call.idx)
        BY <4>1 DEF Taken
      <4> DEFINE m == call.ns
                 j == call.idx
      <4>3. m \in Spaces /\ j \in Indices /\ ~(m = n /\ j = i) /\ ~Holds(m, j)
        BY <2>2, <4>1, <4>2
      <4>4. ~\E d \in Devs : Usable(d)' /\ handle'[d] = <<m, j>>
        BY <2>4, <4>3 DEF Holds
      <4> QED
        BY <1>4, <4>4 DEF Holds
    <3> QED
      BY <1>4, <2>1, <3>1, <3>2 DEF OpInHand
  <2>8. Objects'
    <3>1. \A m \in Spaces, j \in Indices : \A d \in Devs :
            db'[m][j] = d => handle'[d] = <<m, j>> /\ moved'[d] = Unmoved
      <4> SUFFICES ASSUME NEW m \in Spaces, NEW j \in Indices, NEW d \in Devs, db'[m][j] = d
                   PROVE  handle'[d] = <<m, j>> /\ moved'[d] = Unmoved
        OBVIOUS
      <4>1. CASE x # Nobody /\ m = n /\ j = i
        BY <1>6, <4>1
      <4>2. CASE ~(x # Nobody /\ m = n /\ j = i)
        <5>1. db[m][j] = d
          BY <1>6, <4>2
        <5>2. handle[d] = <<m, j>> /\ moved[d] = Unmoved
          BY <2>1, <5>1 DEF Objects
        <5> QED
          BY <1>6, <5>2
      <4> QED
        BY <4>1, <4>2
    <3>2. ASSUME NEW d \in Devs, Usable(d)' PROVE db'[handle'[d][1]][handle'[d][2]] = d
      <4>1. CASE d = x
        BY <1>3, <1>5, <1>6, <4>1
      <4>2. CASE d # x
        <5>1. Usable(d) /\ handle'[d] = handle[d]
          BY <2>4, <3>2, <4>2
        <5>2. db[handle[d][1]][handle[d][2]] = d
          BY <2>1, <5>1 DEF Objects
        <5>3. handle[d] # Nowhere /\ handle[d] \in Place
          BY <1>1, <5>1 DEF Usable, CtlTypes
        <5>4. handle[d][1] \in Spaces /\ handle[d][2] \in Indices
          BY <5>3 DEF Place, Nowhere
        <5>5. ~(x # Nobody /\ handle[d][1] = n /\ handle[d][2] = i)
          BY <1>5, <1>6, <5>2
        <5> QED
          BY <1>6, <5>1, <5>2, <5>4, <5>5
      <4> QED
        BY <4>1, <4>2
    <3>3. \A d \in Devs : moved'[d] # Unmoved => handle'[d] # Nowhere /\ d \notin gone
      BY <1>6, <2>1 DEF Objects
    <3> QED
      BY <1>4, <3>1, <3>2, <3>3 DEF Objects
  <2>9. OpObjects'
    <3>1. \A op : Commanded(op)' <=> Commanded(op)
      BY <1>4 DEF Commanded
    <3>2. <<n, i>> # Nowhere
      BY DEF Nowhere
    <3>3. call.op = "set_dev_netns" => handle'[call.d] # Nowhere /\ call.d \notin gone
      BY <1>1, <1>6, <2>1, <3>2 DEF OpObjects, CallOps
    <3>4. Commanded("set_dev_netns") => moved'[call.d] = moved[call.d]
      <4> SUFFICES ASSUME Commanded("set_dev_netns") PROVE call.d # x /\ call.d \in Devs
        BY <1>6
      <4> QED
        BY <1>1, <1>5, <1>6, <2>1 DEF OpObjects, CallOps, Commanded
    <3>5. call.op = "create" => handle'[call.d] = handle[call.d] /\ moved'[call.d] = moved[call.d]
      <4> SUFFICES ASSUME call.op = "create" PROVE call.d # x /\ call.d \in Devs
        BY <1>6
      <4> QED
        BY <1>1, <1>6, <2>1 DEF OpObjects, CallOps, Devs
    <3> QED
      BY <1>4, <2>1, <3>1, <3>3, <3>4, <3>5 DEF OpObjects
  <2>10. Chain'
    <3> SUFFICES ASSUME "raise" \notin faults, NEW m \in Spaces, NEW j \in Indices
                 PROVE  /\ db'[m][j] # Nobody /\ ~Going(m, j)' /\ ~Coming(m, j)' => j \in known[m]
                        /\ j \in known[m] /\ ~Coming(m, j)' =>
                             db'[m][j] # Nobody \/ Creating(m, j)' \/ Awaited(m, j)'
      BY <1>4 DEF Chain, Awaited
    <3>1. CASE m = n /\ j = i
      <4>1. i \in known[n]
        BY <2>2 DEF Settled
      <4>2. db'[n][i] # Nobody
        BY <1>3, <1>6
      <4> QED
        BY <3>1, <4>1, <4>2
    <3>2. CASE m # n \/ j # i
      <4>1. db'[m][j] = db[m][j]
        BY <1>6, <3>2
      <4>2. Creating(m, j)' <=> Creating(m, j)
        BY <1>4 DEF Creating, Clears
      <4>3. Awaited(m, j) => Awaited(m, j)'
        <5> SUFFICES ASSUME NEW d \in MovedFrom(m, j), moved[d].new = NoIdx PROVE Awaited(m, j)'
          BY DEF Awaited
        <5>1. d \in Devs /\ d # x /\ moved'[d] = moved[d]
          BY <1>5, <1>6 DEF MovedFrom
        <5> QED
          BY <5>1 DEF Awaited, MovedFrom
      <4>4. /\ db[m][j] # Nobody /\ ~Going(m, j) /\ ~Coming(m, j) => j \in known[m]
            /\ j \in known[m] /\ ~Coming(m, j) => db[m][j] # Nobody \/ Creating(m, j) \/ Awaited(m, j)
        BY <2>1 DEF Chain, Awaited
      <4> QED
        BY <2>3, <3>2, <4>1, <4>2, <4>3, <4>4
    <3> QED
      BY <3>1, <3>2
  <2>11. TrueHandles'
    <3> SUFFICES ASSUME "timeout" \notin faults
                 PROVE  /\ \A d \in Devs : Usable(d)' => where[d] = handle'[d]
                        /\ call.op \in {"set_dev_netns", "remap", "destroy"} /\ call.at = "sent"
                             => where[call.d] = <<call.ns, call.idx>>
                        /\ \A e \in Devs : moved'[e] # Unmoved => TrueMove(e)'
      BY <1>4 DEF TrueHandles
    <3>1. ASSUME NEW d \in Devs, Usable(d)' PROVE where[d] = handle'[d]
      <4>1. CASE d = x
        <5>1. TrueMove(x) /\ moved[x].new # NoIdx /\ moved[x].new = i /\ moved[x].dst = n
          BY <1>5, <1>6, <2>1, <4>1 DEF TrueHandles
        <5> QED
          BY <2>4, <4>1, <5>1 DEF TrueMove
      <4>2. CASE d # x
        BY <2>1, <2>4, <3>1, <4>2 DEF TrueHandles
      <4> QED
        BY <4>1, <4>2
    <3>2. ASSUME NEW e \in Devs, moved'[e] # Unmoved PROVE TrueMove(e)'
      <4>1. moved'[e] = moved[e] /\ moved[e] # Unmoved
        BY <1>6, <3>2
      <4>2. TrueMove(e)
        BY <2>1, <4>1 DEF TrueHandles
      <4> QED
        BY <1>4, <4>1, <4>2 DEF TrueMove, Own
    <3> QED
      BY <2>1, <3>1, <3>2 DEF TrueHandles
  <2> QED
    BY <2>6, <2>7, <2>8, <2>9, <2>10, <2>11 DEF LiveInv
<1> QED
  BY <1>2, <1>7, <1>8, <1>9 DEF DeviceInv

\* What a tester has of its devices stays as it is when an event says that an index is free.
LEMMA deleted_event_Inv ==
  ASSUME DeviceInv, NEW h, NEW n, NEW i, TakesEvent(h, n, i), h.type # "dev_created", device_delete(n, i)
  PROVE  DeviceInv'
<1>1. /\ KernelTypes /\ AgentTypes /\ QueueTypes /\ CtlTypes /\ CallOps
      /\ pc # "failed" => Stage /\ OneAnswer /\ Exceptions /\ Unmanaged /\ Cleared /\ OwnMove
      /\ Live => /\ OneDel /\ Shape /\ Links /\ Pending /\ InHand
                 /\ OpInHand /\ Objects /\ OpObjects /\ Chain /\ TrueHandles
  BY DEF DeviceInv, Types, Working, LiveInv
<1>2. /\ pc # "failed" /\ call.op # "none"
      /\ KernelTypes' /\ AgentTypes' /\ QueueTypes' /\ CallOps' /\ OnlyStaleEventsFail'
      /\ OneAnswer' /\ Exceptions' /\ Unmanaged' /\ Cleared'
      /\ pc = "prepare" => Live
      /\ (Live' <=> Live) /\ (Early' <=> Early)
  BY EventWorks
<1>3. /\ h \in Events /\ n \in Spaces /\ i \in Indices /\ EventStreams(h, n, i)
      /\ Going(n, i) /\ (Coming(n, i)' <=> Coming(n, i)) /\ \A m \in Sent' : m \in Sent
  <2>1. h \in Events /\ n \in Spaces /\ i \in Indices /\ EventStreams(h, n, i)
    BY <1>1, EventOff
  <2> QED
    BY <2>1 DEF EventStreams
<1>4. /\ call' = call /\ pc' = pc /\ run' = run /\ ops' = ops /\ names' = names /\ dbRun' = dbRun /\ gone' = gone
      /\ where' = where /\ nl' = nl /\ known' = known /\ managed' = managed /\ faults' = faults
  BY DEF TakesEvent
<1>5. Nobody \notin Devs
  BY MovesAssumption DEF Devs
<1>6. /\ db' \in [Spaces -> [Indices -> Devs \union {Other, Nobody}]]
      /\ \A m \in Spaces, j \in Indices : db'[m][j] = IF m = n /\ j = i THEN Nobody ELSE db[m][j]
      /\ moved' = moved /\ handle' \in [Devs -> Place]
      /\ \A d \in Devs : handle'[d] = IF d = db[n][i] THEN Nowhere ELSE handle[d]
  <2>1. /\ handle' = [d \in Devs |-> IF d = db[n][i] THEN Nowhere ELSE handle[d]]
        /\ db' = [db EXCEPT ![n][i] = Nobody] /\ moved' = moved
    BY DEF device_delete
  <2>2. /\ db' \in [Spaces -> [Indices -> Devs \union {Other, Nobody}]]
        /\ \A m \in Spaces, j \in Indices : db'[m][j] = IF m = n /\ j = i THEN Nobody ELSE db[m][j]
    BY <1>1, <1>3, <2>1 DEF CtlTypes
  <2>3. handle' \in [Devs -> Place]
    BY <1>1, <2>1 DEF CtlTypes, Place
  <2> QED
    BY <2>1, <2>2, <2>3
<1>7. Types'
  <2>1. CtlTypes'
    BY <1>1, <1>4, <1>6 DEF CtlTypes
  <2> QED
    BY <1>2, <2>1 DEF Types
<1>8. Working'
  <2>1. Stage'
    <3>1. pc = "prepare" => \A d \in Devs : handle'[d] = Nowhere
      BY <1>1, <1>2, <1>6 DEF Stage
    <3> QED
      BY <1>1, <1>2, <1>4, <1>6, <3>1 DEF Stage, Commanded
  <2>2. OwnMove'
    <3>1. \A m, j, k : MovesTo(m, j, k) => MovesTo(m, j, k)'
      BY <1>4, <1>6 DEF MovesTo
    <3> QED
      BY <1>1, <1>2, <1>3, <1>4, <3>1, OwnMoveKept
  <2> QED
    BY <1>2, <2>1, <2>2 DEF Working
<1>9. ASSUME Live PROVE LiveInv'
  <2>1. /\ OneDel /\ Shape /\ Links /\ Pending /\ InHand
        /\ OpInHand /\ Objects /\ OpObjects /\ Chain /\ TrueHandles
    BY <1>1, <1>9
  <2>2. ~Taken(n, i) /\ ~Holds(n, i)
    BY <1>3, <2>1 DEF InHand, Taken
  <2>3. /\ ~Going(n, i)'
        /\ \A m \in Spaces, j \in Indices :
             m # n \/ j # i => (Going(m, j)' <=> Going(m, j)) /\ (Coming(m, j)' <=> Coming(m, j))
    BY <1>3, <2>1 DEF EventStreams, Shape
  <2>4. \A d \in Devs : d = db[n][i] => handle[d] = <<n, i>> /\ moved[d] = Unmoved /\ d \in gone
    <3> SUFFICES ASSUME NEW d \in Devs, db[n][i] = d
                 PROVE  handle[d] = <<n, i>> /\ moved[d] = Unmoved /\ d \in gone
      OBVIOUS
    <3>1. handle[d] = <<n, i>> /\ moved[d] = Unmoved
      BY <1>3, <2>1 DEF Objects
    <3>2. handle[d] # Nowhere
      BY <3>1 DEF Nowhere
    <3> QED
      BY <2>2, <3>1, <3>2 DEF Holds, Usable
  <2>5. \A d \in Devs : (Usable(d)' <=> Usable(d)) /\ (Usable(d) => handle'[d] = handle[d])
    BY <1>4, <1>6, <2>4 DEF Usable
  <2>6. \A m \in Spaces, j \in Indices : (Holds(m, j)' <=> Holds(m, j)) /\ (Taken(m, j)' <=> Taken(m, j))
    <3>1. \A m \in Spaces, j \in Indices : Holds(m, j)' <=> Holds(m, j)
      BY <2>5 DEF Holds
    <3> QED
      BY <1>4, <3>1 DEF Taken
  <2>7. OneDel' /\ Shape' /\ Links' /\ Pending' /\ InHand'
    BY <1>1, <2>1, <2>6, EventLive
  <2>8. \A op : Commanded(op)' <=> Commanded(op)
    BY <1>4 DEF Commanded
  <2>9. OpInHand'
    <3>1. \A d \in Devs : Usable(d)' /\ handle'[d] = <<call.ns, call.idx>> => Holds(call.ns, call.idx)
      BY <2>5 DEF Holds
    <3>2. Holds(call.ns, call.idx)' => Holds(call.ns, call.idx)
      BY <1>4, <3>1 DEF Holds
    <3> QED
      BY <1>4, <2>1, <2>8, <3>2 DEF OpInHand
  <2>10. Objects'
    <3>1. \A m \in Spaces, j \in Indices : \A d \in Devs :
            db'[m][j] = d => handle'[d] = <<m, j>> /\ moved'[d] = Unmoved
      <4> SUFFICES ASSUME NEW m \in Spaces, NEW j \in Indices, NEW d \in Devs, db'[m][j] = d
                   PROVE  handle'[d] = <<m, j>> /\ moved'[d] = Unmoved
        OBVIOUS
      <4>1. ~(m = n /\ j = i) /\ db[m][j] = d
        BY <1>5, <1>6
      <4>2. handle[d] = <<m, j>> /\ moved[d] = Unmoved
        BY <2>1, <4>1 DEF Objects
      <4>3. d # db[n][i]
        BY <2>4, <4>1, <4>2
      <4> QED
        BY <1>6, <4>2, <4>3
    <3>2. ASSUME NEW d \in Devs, Usable(d)' PROVE db'[handle'[d][1]][handle'[d][2]] = d
      <4>1. Usable(d) /\ handle'[d] = handle[d]
        BY <2>5, <3>2
      <4>2. db[handle[d][1]][handle[d][2]] = d
        BY <2>1, <4>1 DEF Objects
      <4>3. handle[d] # Nowhere /\ handle[d] \in Place
        BY <1>1, <4>1 DEF Usable, CtlTypes
      <4>4. handle[d][1] \in Spaces /\ handle[d][2] \in Indices /\ handle[d] = <<handle[d][1], handle[d][2]>>
        BY <4>3 DEF Place, Nowhere
      <4>5. ~(handle[d][1] = n /\ handle[d][2] = i)
        BY <2>2, <4>1, <4>4 DEF Holds
      <4> QED
        BY <1>6, <4>1, <4>2, <4>4, <4>5
    <3>3. \A d \in Devs : moved'[d] # Unmoved => handle'[d] # Nowhere /\ d \notin gone
      BY <1>6, <2>1, <2>4 DEF Objects
    <3> QED
      BY <1>4, <3>1, <3>2, <3>3 DEF Objects
  <2>11. OpObjects'
    <3>1. call.op = "set_dev_netns" => handle'[call.d] # Nowhere /\ call.d \notin gone
      BY <1>1, <1>6, <2>1, <2>4 DEF OpObjects, CallOps
    <3>2. call.op = "create" => handle'[call.d] = Nowhere
      BY <1>1, <1>6, <2>1 DEF OpObjects, CallOps, Devs
    <3> QED
      BY <1>4, <1>6, <2>1, <2>8, <3>1, <3>2 DEF OpObjects
  <2>12. Chain'
    <3> SUFFICES ASSUME "raise" \notin faults, NEW m \in Spaces, NEW j \in Indices
                 PROVE  /\ db'[m][j] # Nobody /\ ~Going(m, j)' /\ ~Coming(m, j)' => j \in known[m]
                        /\ j \in known[m] /\ ~Coming(m, j)' =>
                             db'[m][j] # Nobody \/ Creating(m, j)' \/ Awaited(m, j)'
      BY <1>4 DEF Chain, Awaited
    <3>1. (Creating(m, j)' <=> Creating(m, j)) /\ (Awaited(m, j)' <=> Awaited(m, j))
      BY <1>4, <1>6 DEF Creating, Clears, Awaited, MovedFrom
    <3>2. CASE m = n /\ j = i
      <4>1. db'[n][i] = Nobody
        BY <1>3, <1>6
      <4>2. Going(n, i) /\ ~Coming(n, i) => i \notin known[n] \/ Creating(n, i)
        BY <1>3, <2>1 DEF Pending
      <4> QED
        BY <1>3, <3>1, <3>2, <4>1, <4>2
    <3>3. CASE m # n \/ j # i
      <4>1. db'[m][j] = db[m][j]
        BY <1>6, <3>3
      <4>2. /\ db[m][j] # Nobody /\ ~Going(m, j) /\ ~Coming(m, j) => j \in known[m]
            /\ j \in known[m] /\ ~Coming(m, j) => db[m][j] # Nobody \/ Creating(m, j) \/ Awaited(m, j)
        BY <2>1 DEF Chain, Awaited
      <4> QED
        BY <2>3, <3>1, <3>3, <4>1, <4>2
    <3> QED
      BY <3>2, <3>3
  <2>13. TrueHandles'
    <3>1. \A e : TrueMove(e)' <=> TrueMove(e)
      BY <1>4, <1>6 DEF TrueMove, Own
    <3> QED
      BY <1>4, <1>6, <2>1, <2>5, <3>1 DEF TrueHandles
  <2> QED
    BY <2>7, <2>9, <2>10, <2>11, <2>12, <2>13 DEF LiveInv
<1> QED
  BY <1>2, <1>7, <1>8, <1>9 DEF DeviceInv

LEMMA moved_event_Inv ==
  ASSUME DeviceInv, NEW h, NEW n, NEW i, TakesEvent(h, n, i), h.type = "dev_netns_changed",
         MovedFrom(n, i) # {}, device_netns_change(n, i, h.new)
  PROVE  DeviceInv'
<1>1. /\ KernelTypes /\ AgentTypes /\ QueueTypes /\ CtlTypes /\ CallOps
      /\ pc # "failed" => Stage /\ OneAnswer /\ Exceptions /\ Unmanaged /\ Cleared /\ OwnMove
      /\ Live => /\ OneDel /\ Shape /\ Links /\ Pending /\ InHand
                 /\ OpInHand /\ Objects /\ OpObjects /\ Chain /\ TrueHandles
  BY DEF DeviceInv, Types, Working, LiveInv
<1>2. /\ pc # "failed" /\ call.op # "none"
      /\ KernelTypes' /\ AgentTypes' /\ QueueTypes' /\ CallOps' /\ OnlyStaleEventsFail'
      /\ OneAnswer' /\ Exceptions' /\ Unmanaged' /\ Cleared'
      /\ pc = "prepare" => Live
      /\ (Live' <=> Live) /\ (Early' <=> Early)
  BY EventWorks
<1>3. /\ h \in Events /\ n \in Spaces /\ i \in Indices /\ EventStreams(h, n, i)
      /\ Going(n, i) /\ (Coming(n, i)' <=> Coming(n, i)) /\ (\A m \in Sent' : m \in Sent) /\ h \in Sent
  <2>1. h \in Events /\ n \in Spaces /\ i \in Indices /\ EventStreams(h, n, i)
    BY <1>1, EventOff
  <2> QED
    BY <2>1 DEF EventStreams
<1>4. /\ call' = call /\ pc' = pc /\ run' = run /\ ops' = ops /\ names' = names /\ dbRun' = dbRun /\ gone' = gone
      /\ where' = where /\ nl' = nl /\ known' = known /\ managed' = managed /\ faults' = faults
      /\ n = h.ns /\ i = h.idx
  BY DEF TakesEvent
<1>5. Nobody \notin Devs /\ NoIdx \notin Indices
  BY MovesAssumption, NoIdxNotIndex DEF Devs
<1>6. PICK x \in MovedFrom(n, i) : moved' = [moved EXCEPT ![x].new = h.new]
  BY DEF device_netns_change
<1>7. /\ x \in Devs /\ moved[x] \in Moves /\ moved[x] # Unmoved /\ moved[x].src = n /\ moved[x].old = i
      /\ moved' = [moved EXCEPT ![x] = [moved[x] EXCEPT !.new = h.new]]
  BY <1>1, <1>6 DEF MovedFrom, CtlTypes
<1>8. /\ moved'[x] \in Moves /\ moved'[x] # Unmoved /\ moved'[x].src = n /\ moved'[x].old = i
      /\ moved'[x].new = h.new /\ moved'[x].dst = moved[x].dst
      /\ \A d \in Devs : d # x => moved'[d] = moved[d]
      /\ moved' \in [Devs -> Moves \union {Unmoved}]
  <2>1. h.new \in Indices \union {NoIdx}
    BY <1>3 DEF Events
  <2>2. /\ [moved[x] EXCEPT !.new = h.new] \in Moves
        /\ [moved[x] EXCEPT !.new = h.new].src = n /\ [moved[x] EXCEPT !.new = h.new].old = i
        /\ [moved[x] EXCEPT !.new = h.new].new = h.new
        /\ [moved[x] EXCEPT !.new = h.new].dst = moved[x].dst
    BY <1>7, <2>1 DEF Moves
  <2>3. /\ moved'[x] = [moved[x] EXCEPT !.new = h.new]
        /\ \A d \in Devs : d # x => moved'[d] = moved[d]
    BY <1>1, <1>7 DEF CtlTypes
  <2>4. moved'[x] # Unmoved
    BY <1>3, <1>5, <2>2, <2>3 DEF Unmoved
  <2>5. moved' \in [Devs -> Moves \union {Unmoved}]
    BY <1>1, <1>7, <2>2 DEF CtlTypes
  <2> QED
    BY <2>2, <2>3, <2>4, <2>5
<1>9. /\ db' \in [Spaces -> [Indices -> Devs \union {Other, Nobody}]]
      /\ \A m \in Spaces, j \in Indices : db'[m][j] = IF m = n /\ j = i THEN Nobody ELSE db[m][j]
      /\ handle' = handle
  <2>1. db' = [db EXCEPT ![n][i] = Nobody] /\ handle' = handle
    BY DEF device_netns_change
  <2> QED
    BY <1>1, <1>3, <2>1 DEF CtlTypes
<1>10. Types'
  <2>1. \A d \in Devs : moved'[d] # Unmoved => moved'[d].src # moved'[d].dst
    BY <1>1, <1>7, <1>8 DEF CtlTypes
  <2>2. CtlTypes'
    BY <1>1, <1>4, <1>8, <1>9, <2>1 DEF CtlTypes
  <2> QED
    BY <1>2, <2>2 DEF Types
<1>11. pc # "prepare"
  BY <1>1, <1>2, <1>7 DEF Stage
\* without time-outs, this ends what is said of the move
<1>12. "timeout" \notin faults =>
         /\ MovesTo(n, i, h.new) /\ Live /\ x = call.d
         /\ \A m \in Sent' : m.type # "dev_netns_changed"
         /\ \A m \in Spaces : \A k \in DOMAIN nl[m] : nl[m][k].new = NoIdx
  <2> SUFFICES ASSUME "timeout" \notin faults
               PROVE  /\ MovesTo(n, i, h.new) /\ Live /\ x = call.d
                      /\ \A m \in Sent' : m.type # "dev_netns_changed"
                      /\ \A m \in Spaces : \A k \in DOMAIN nl[m] : nl[m][k].new = NoIdx
    OBVIOUS
  <2>1. MovesTo(n, i, h.new)
    BY <1>1, <1>2, <1>3, <1>4 DEF OwnMove
  <2>2. call.op = "set_dev_netns" /\ call.ns = n /\ call.idx = i /\ Live
    BY <1>1, <2>1 DEF MovesTo, CallOps, Live
  <2>3. x = call.d
    <3>1. TrueMove(x)
      BY <1>1, <1>7, <2>2 DEF TrueHandles
    <3> QED
      BY <1>7, <2>2, <3>1 DEF TrueMove, Own
  <2>4. ~Going(n, i)'
    BY <1>1, <1>3, <2>2 DEF Shape, EventStreams
  <2>5. ASSUME NEW m \in Sent', m.type = "dev_netns_changed" PROVE FALSE
    <3>1. m.ns = n /\ m.idx = i
      BY <1>1, <1>2, <1>3, <2>2, <2>5 DEF OwnMove, MovesTo
    <3>2. On(m, n, i)
      BY <3>1 DEF On
    <3>3. pipe' = pipe /\ toCtl' \in Seq(Messages) /\ QueueTypes' /\ AgentTypes'
      BY <1>2 DEF QueueTypes, TakesEvent
    <3>4. Pipe(n)' \in Seq(Messages)
      BY <1>1, <1>3, <3>3, StreamIsMessages DEF Pipe
    <3>5. Leave(toCtl', n, i) \/ Leave(Pipe(n)', n, i)
      <4>1. CASE \E k \in DOMAIN toCtl' : toCtl'[k] = m
        BY <2>5, <3>2, <4>1 DEF Leave
      <4>2. ASSUME NEW l \in NetNs, NEW k \in DOMAIN pipe'[l], pipe'[l][k] = m
            PROVE  Leave(Pipe(n)', n, i)
        <5>1. m \in Messages
          BY <3>3, <4>2 DEF AgentTypes
        <5>2. m \in Events
          BY <2>5, <5>1, MessageFacts DEF IsAnswer
        <5>3. l = n
          BY <3>1, <3>3, <4>2, <5>2 DEF AgentTypes
        <5> QED
          BY <2>5, <3>2, <4>2, <5>3 DEF Leave, Pipe
      <4> QED
        BY <4>1, <4>2 DEF Sent
    <3> DEFINE a == toCtl'
               p == Pipe(n)'
    <3>6. Stream(n)' = a \o p /\ a \in Seq(Messages) /\ p \in Seq(Messages)
          /\ (Leave(a, n, i) \/ Leave(p, n, i))
      BY <3>3, <3>4, <3>5 DEF Stream
    <3> HIDE DEF a, p
    <3>7. Leave(Stream(n)', n, i)
      BY <1>3, <3>6, Concat
    <3> QED
      BY <2>4, <3>7 DEF Going
  <2>6. ASSUME NEW m \in Spaces, NEW k \in DOMAIN nl[m], nl[m][k].new # NoIdx PROVE FALSE
    <3>1. m = n /\ nl[m][k].idx = i
      BY <1>1, <1>2, <2>2, <2>6 DEF OwnMove, MovesTo
    <3>2. nl[m][k] \in Notices /\ nl[m] \in Seq(Notices)
      BY <1>1, <2>6 DEF KernelTypes
    <3>3. nl[m][k].type = "DELLINK"
      BY <2>6, <3>2 DEF Notices, LinkMessages
    <3>4. k = 1
      BY <1>1, <2>2, <2>6, <3>2, <3>3 DEF OneDel, DropFirst
    <3>5. Dropping(n, i)
      BY <2>6, <3>1, <3>2, <3>3, <3>4 DEF Dropping, Drop1
    <3> QED
      BY <1>1, <1>3, <2>2, <3>5 DEF Links
  <2> QED
    BY <2>1, <2>2, <2>3, <2>5, <2>6
<1>13. Working'
  <2>1. Stage'
    BY <1>1, <1>2, <1>4, <1>11 DEF Stage, Commanded
  <2>2. OwnMove'
    BY <1>4, <1>12 DEF OwnMove
  <2> QED
    BY <1>2, <2>1, <2>2 DEF Working
<1>14. ASSUME Live PROVE LiveInv'
  <2>1. /\ OneDel /\ Shape /\ Links /\ Pending /\ InHand
        /\ OpInHand /\ Objects /\ OpObjects /\ Chain /\ TrueHandles
    BY <1>1, <1>14
  <2>2. ~Taken(n, i) /\ ~Holds(n, i)
    BY <1>3, <2>1 DEF InHand, Taken
  <2>3. /\ ~Going(n, i)'
        /\ \A m \in Spaces, j \in Indices :
             m # n \/ j # i => (Going(m, j)' <=> Going(m, j)) /\ (Coming(m, j)' <=> Coming(m, j))
    BY <1>3, <2>1 DEF EventStreams, Shape
  <2>4. \A d \in Devs : (moved'[d] # Unmoved <=> moved[d] # Unmoved) /\ (Usable(d)' <=> Usable(d))
    BY <1>4, <1>7, <1>8, <1>9 DEF Usable
  <2>5. \A m, j : (Holds(m, j)' <=> Holds(m, j)) /\ (Taken(m, j)' <=> Taken(m, j))
    <3>1. \A m, j : Holds(m, j)' <=> Holds(m, j)
      BY <1>9, <2>4 DEF Holds
    <3> QED
      BY <1>4, <3>1 DEF Taken
  <2>6. OneDel' /\ Shape' /\ Links' /\ Pending' /\ InHand'
    BY <1>1, <2>1, <2>5, EventLive
  <2>7. \A op : Commanded(op)' <=> Commanded(op)
    BY <1>4 DEF Commanded
  <2>8. OpInHand'
    <3>1. Holds(call.ns, call.idx)' => Holds(call.ns, call.idx)
      BY <1>4, <1>9, <2>4 DEF Holds
    <3> QED
      BY <1>4, <2>1, <2>7, <3>1 DEF OpInHand
  <2>9. Objects'
    <3>1. \A m \in Spaces, j \in Indices : \A d \in Devs :
            db'[m][j] = d => handle'[d] = <<m, j>> /\ moved'[d] = Unmoved
      <4> SUFFICES ASSUME NEW m \in Spaces, NEW j \in Indices, NEW d \in Devs, db'[m][j] = d
                   PROVE  handle[d] = <<m, j>> /\ moved'[d] = Unmoved
        BY <1>9
      <4>1. db[m][j] = d
        BY <1>5, <1>9
      <4> QED
        BY <2>1, <2>4, <4>1 DEF Objects
    <3>2. ASSUME NEW d \in Devs, Usable(d)' PROVE db'[handle[d][1]][handle[d][2]] = d
      <4>1. Usable(d)
        BY <2>4, <3>2
      <4>2. db[handle[d][1]][handle[d][2]] = d
        BY <2>1, <4>1 DEF Objects
      <4>3. handle[d] # Nowhere /\ handle[d] \in Place
        BY <1>1, <4>1 DEF Usable, CtlTypes
      <4>4. handle[d][1] \in Spaces /\ handle[d][2] \in Indices /\ handle[d] = <<handle[d][1], handle[d][2]>>
        BY <4>3 DEF Place, Nowhere
      <4>5. ~(handle[d][1] = n /\ handle[d][2] = i)
        BY <2>2, <4>1, <4>4 DEF Holds
      <4> QED
        BY <1>9, <4>2, <4>4, <4>5
    <3>3. \A d \in Devs : moved'[d] # Unmoved => handle[d] # Nowhere /\ d \notin gone
      BY <2>1, <2>4 DEF Objects
    <3> QED
      BY <1>4, <1>9, <3>1, <3>2, <3>3 DEF Objects
  <2>10. OpObjects'
    <3>1. Commanded("set_dev_netns") => moved'[call.d] = moved[call.d]
      <4> SUFFICES ASSUME Commanded("set_dev_netns") PROVE call.d # x /\ call.d \in Devs
        BY <1>8
      <4>1. Taken(call.ns, call.idx) /\ call.d \in Devs /\ moved[call.d].src = call.ns /\ moved[call.d].old = call.idx
        BY <1>1, <2>1 DEF Taken, Commanded, CallOps, OpObjects
      <4> QED
        BY <1>7, <2>2, <4>1
    <3>2. call.op = "create" => moved'[call.d] = moved[call.d]
      BY <1>1, <1>7, <1>8, <2>1 DEF OpObjects, CallOps, Devs
    <3> QED
      BY <1>4, <1>9, <2>1, <2>7, <3>1, <3>2 DEF OpObjects
  <2>11. Chain'
    <3> SUFFICES ASSUME "raise" \notin faults, NEW m \in Spaces, NEW j \in Indices
                 PROVE  /\ db'[m][j] # Nobody /\ ~Going(m, j)' /\ ~Coming(m, j)' => j \in known[m]
                        /\ j \in known[m] /\ ~Coming(m, j)' =>
                             db'[m][j] # Nobody \/ Creating(m, j)' \/ Awaited(m, j)'
      BY <1>4 DEF Chain, Awaited
    <3>1. Creating(m, j)' <=> Creating(m, j)
      BY <1>4 DEF Creating, Clears
    <3>2. CASE m = n /\ j = i
      <4>1. db'[n][i] = Nobody
        BY <1>3, <1>9
      <4>2. Going(n, i) /\ ~Coming(n, i) => i \notin known[n] \/ Creating(n, i)
        BY <1>3, <2>1 DEF Pending
      <4> QED
        BY <1>3, <3>1, <3>2, <4>1, <4>2
    <3>3. CASE m # n \/ j # i
      <4>1. db'[m][j] = db[m][j]
        BY <1>9, <3>3
      <4>2. /\ db[m][j] # Nobody /\ ~Going(m, j) /\ ~Coming(m, j) => j \in known[m]
            /\ j \in known[m] /\ ~Coming(m, j) => db[m][j] # Nobody \/ Creating(m, j) \/ Awaited(m, j)
        BY <2>1 DEF Chain, Awaited
      <4>3. Awaited(m, j) => Awaited(m, j)'
        <5> SUFFICES ASSUME NEW d \in MovedFrom(m, j), moved[d].new = NoIdx PROVE Awaited(m, j)'
          BY DEF Awaited
        <5>1. d \in Devs /\ d # x /\ moved'[d] = moved[d]
          BY <1>7, <1>8, <3>3 DEF MovedFrom
        <5> QED
          BY <5>1 DEF Awaited, MovedFrom
      <4> QED
        BY <2>3, <3>1, <3>3, <4>1, <4>2, <4>3
    <3> QED
      BY <3>2, <3>3
  <2>12. TrueHandles'
    <3> SUFFICES ASSUME "timeout" \notin faults
                 PROVE  /\ \A d \in Devs : Usable(d)' => where[d] = handle[d]
                        /\ call.op \in {"set_dev_netns", "remap", "destroy"} /\ call.at = "sent"
                             => where[call.d] = <<call.ns, call.idx>>
                        /\ \A e \in Devs : moved'[e] # Unmoved => TrueMove(e)'
      BY <1>4, <1>9 DEF TrueHandles
    <3>1. ASSUME NEW e \in Devs, moved'[e] # Unmoved PROVE TrueMove(e)'
      <4>1. TrueMove(e)
        BY <2>1, <2>4, <3>1 DEF TrueHandles
      <4>2. CASE e # x
        <5>1. moved'[e] = moved[e]
          BY <1>8, <4>2
        <5> QED
          BY <1>4, <4>1, <5>1 DEF TrueMove, Own
      <4>3. CASE e = x
        <5>1. /\ Own(e) /\ call.at # "sent" /\ moved[e].src = call.ns /\ moved[e].old = call.idx
              /\ moved[e].dst = call.dst /\ call.dst # Root /\ where[e] = <<call.dst, h.new>>
          BY <1>12, <4>1, <4>3 DEF MovesTo, Own, TrueMove
        <5>2. /\ moved'[e].src = call.ns /\ moved'[e].old = call.idx
              /\ moved'[e].dst = call.dst /\ moved'[e].new = h.new
          BY <1>7, <1>8, <4>3, <5>1
        <5> QED
          BY <1>4, <5>1, <5>2 DEF TrueMove, Own
      <4> QED
        BY <4>2, <4>3
    <3> QED
      BY <2>1, <2>4, <3>1 DEF TrueHandles
  <2> QED
    BY <2>6, <2>8, <2>9, <2>10, <2>11, <2>12 DEF LiveInv
<1> QED
  BY <1>2, <1>10, <1>13, <1>14 DEF DeviceInv

LEMMA ctl_event_Inv ==
  ASSUME DeviceInv, ctl_event
  PROVE  DeviceInv'
<1> DEFINE h == Head(toCtl)
<1>1. AgentTypes /\ QueueTypes
  BY DEF DeviceInv, Types
<1>2. /\ ~EventRaises(h) /\ TakesEvent(h, h.ns, h.idx)
      /\ CASE h.type = "dev_created" -> device_created(h.ns, h.idx)
           [] h.type = "dev_deleted" -> device_delete(h.ns, h.idx)
           [] OTHER -> device_netns_change(h.ns, h.idx, h.new)
  BY DEF ctl_event, TakesEvent, EventRaises, AgentsRest, kernelVars, agentVars
<1> HIDE DEF h
<1>3. h.type \in EventTypes
  BY <1>1, <1>2, EventOff
<1>4. CASE h.type = "dev_created"
  BY <1>2, <1>4, created_event_Inv
<1>5. CASE h.type = "dev_deleted"
  BY <1>2, <1>5, deleted_event_Inv
<1>6. CASE h.type = "dev_netns_changed"
  BY <1>2, <1>6, moved_event_Inv DEF EventRaises
<1> QED
  BY <1>3, <1>4, <1>5, <1>6 DEF EventTypes

-----------------------------------------------------------------------------
(* The controller makes calls *)

\* No call is under way on an agent, before and after the step of the controller.
ControllerActs ==
  /\ AgentsRest /\ toCtl' = toCtl
  /\ where' = where /\ dying' = dying /\ nl' = nl /\ known' = known /\ managed' = managed
  /\ pipe' = pipe /\ faults' = faults /\ batch = 0 /\ batch' = 0
  /\ call = NoCall \/ (call.op # "none" /\ call.at = "done")
  /\ call' = NoCall \/ (call'.op # "none" /\ call'.at = "sent")

\* No step of the controller starts or completes a move, or one of these does.
NoMove == "timeout" \in faults \/ \A n, i, j : ~MovesTo(n, i, j)

\* A step that makes or ends a call leaves the agents alone.
LEMMA CallsWork ==
  ASSUME KernelTypes, AgentTypes, QueueTypes, OneAnswer, Unmanaged, OwnMove, ControllerActs, NoMove,
         call'.val = {}
  PROVE  /\ KernelTypes' /\ AgentTypes' /\ QueueTypes'
         /\ OneAnswer' /\ Exceptions' /\ Unmanaged' /\ Cleared' /\ OwnMove'
<1>1. /\ AgentsRest /\ toCtl' = toCtl
      /\ nl' = nl /\ known' = known /\ managed' = managed
      /\ pipe' = pipe /\ faults' = faults /\ batch' = batch
      /\ call.at \in {"none", "done"} /\ call'.at \in {"none", "sent"}
      /\ call'.at = "none" => call'.op = "none"
  BY DEF ControllerActs, NoCall
<1>2. /\ KernelTypes' /\ AgentTypes'
      /\ \A n : At(where, n)' = At(where, n)
  BY <1>1, AgentsStay
<1>3. QueueTypes'
  BY <1>1 DEF QueueTypes
<1>4. /\ \A n, i : (Going(n, i)' <=> Going(n, i)) /\ (Coming(n, i)' <=> Coming(n, i))
      /\ \A n : Lone(Stream(n))' <=> Lone(Stream(n))
      /\ Sent' = Sent
  BY <1>1, SameStreams
<1>5. ~Answered1(toCtl) /\ \A n \in NetNs : ~Answered1(pipe[n])
  BY <1>1, NoAnswerYet
<1>6. OneAnswer'
  BY <1>1, <1>4, <1>5 DEF OneAnswer
<1>7. Exceptions'
  <2> SUFFICES ASSUME NEW m \in Sent, IsAnswer(m) PROVE FALSE
    BY <1>4 DEF Exceptions, IsAnswer
  <2> QED
    BY <1>5 DEF Sent, Answered1
<1>8. Unmanaged'
  <2>1. \A n \in NetNs \ managed, i \in Indices : ~Going(n, i) /\ ~Coming(n, i)
    BY <1>1 DEF Unmanaged
  <2> QED
    BY <1>1, <1>2, <1>4, <2>1 DEF Unmanaged
<1>9. Cleared'
  <2>1. \A n, i : ~Clears(n, i)'
    BY <1>1 DEF Clears
  <2> QED
    BY <2>1 DEF Cleared
<1>10. OwnMove'
  BY <1>1, <1>4 DEF OwnMove, NoMove
<1> QED
  BY <1>2, <1>3, <1>6, <1>7, <1>8, <1>9, <1>10

\* ... and the messages about devices, if nothing is taken in hand.
LEMMA CallsLive ==
  ASSUME KernelTypes, AgentTypes, QueueTypes, Cleared, OneDel, Shape, Links, Pending, InHand, Chain,
         ControllerActs, call'.val = {}, Early' => Early,
         \A n \in Spaces, i \in Indices :
           /\ Taken(n, i)' => Taken(n, i) \/ Clears(n, i)
           /\ db'[n][i] # Nobody => db[n][i] # Nobody \/ Clears(n, i)
           /\ db[n][i] # Nobody \/ Creating(n, i) \/ Awaited(n, i) => db'[n][i] # Nobody \/ Awaited(n, i)'
  PROVE  OneDel' /\ Shape' /\ Links' /\ Pending' /\ InHand' /\ Chain'
<1>1. /\ AgentsRest /\ toCtl' = toCtl
      /\ nl' = nl /\ known' = known /\ managed' = managed
      /\ pipe' = pipe /\ faults' = faults
      /\ call.at \in {"none", "done"} /\ call'.at \in {"none", "sent"}
  BY DEF ControllerActs, NoCall
<1>2. /\ \A n : At(where, n)' = At(where, n)
      /\ \A n, i : /\ New(n, i)' <=> New(n, i)
                   /\ Dropping(n, i)' <=> Dropping(n, i)
                   /\ Settled(n, i)' <=> Settled(n, i)
  BY <1>1, AgentsStay
<1>3. /\ \A n, i : (Going(n, i)' <=> Going(n, i)) /\ (Coming(n, i)' <=> Coming(n, i))
      /\ \A n, i : InOrder(Stream(n), n, i)' <=> InOrder(Stream(n), n, i)
  BY <1>1, SameStreams
<1>4. \A n, i : ~Clears(n, i)' /\ ~Creating(n, i)'
  <2>1. \A n, i : ~Clears(n, i)'
    <3>1. call'.op \in {"prepare", "del_namespace"} => call'.at = "sent"
      BY DEF ControllerActs, NoCall
    <3> QED
      BY <1>1, <3>1 DEF Clears
  <2> QED
    BY <2>1 DEF Creating
<1>5. \A n \in Spaces, i \in Indices : Clears(n, i) => ~Going(n, i) /\ ~Coming(n, i) /\ Settled(n, i)
  <2> SUFFICES ASSUME NEW n \in Spaces, NEW i \in Indices, Clears(n, i)
               PROVE  ~Going(n, i) /\ ~Coming(n, i) /\ Settled(n, i)
    OBVIOUS
  <2>1. call.at = "done"
    BY DEF ControllerActs, NoCall, Clears
  <2> QED
    BY <2>1 DEF Cleared, InHand
<1>6. \A n, i : Creating(n, i) => Clears(n, i)
  BY DEF Creating
<1>7. OneDel'
  BY <1>1 DEF OneDel
<1>8. Shape'
  BY <1>3 DEF Shape
<1>9. Links'
  BY <1>1, <1>2, <1>3 DEF Links
<1>10. Pending'
  BY <1>1, <1>2, <1>3, <1>5, <1>6 DEF Pending
<1>11. InHand'
  BY <1>2, <1>3, <1>4, <1>5 DEF InHand
<1>12. Chain'
  <2> SUFFICES ASSUME "raise" \notin faults, NEW n \in Spaces, NEW i \in Indices
               PROVE  /\ db'[n][i] # Nobody /\ ~Going(n, i) /\ ~Coming(n, i) => i \in known[n]
                      /\ i \in known[n] /\ ~Coming(n, i) => db'[n][i] # Nobody \/ Awaited(n, i)'
    BY <1>1, <1>3 DEF Chain, Awaited
  <2>1. /\ db[n][i] # Nobody /\ ~Going(n, i) /\ ~Coming(n, i) => i \in known[n]
        /\ i \in known[n] /\ ~Coming(n, i) => db[n][i] # Nobody \/ Creating(n, i) \/ Awaited(n, i)
    BY DEF Chain, Awaited
  <2> QED
    BY <1>5, <2>1 DEF Settled
<1> QED
  BY <1>7, <1>8, <1>9, <1>10, <1>11, <1>12

\* A step of the controller, from what is particular to it.
LEMMA CallsStep ==
  ASSUME DeviceInv, ControllerActs, NoMove, call'.val = {}, pc # "failed", pc' # "failed",
         CtlTypes', CallOps', Stage', Live' => LiveInv'
  PROVE  DeviceInv'
<1>1. KernelTypes /\ AgentTypes /\ QueueTypes /\ OneAnswer /\ Unmanaged /\ OwnMove
  BY DEF DeviceInv, Types, Working
<1>2. /\ KernelTypes' /\ AgentTypes' /\ QueueTypes'
      /\ OneAnswer' /\ Exceptions' /\ Unmanaged' /\ Cleared' /\ OwnMove'
  BY <1>1, CallsWork
<1>3. OnlyStaleEventsFail'
  BY DEF OnlyStaleEventsFail
<1> QED
  BY <1>2, <1>3 DEF DeviceInv, Types, Working

\* What depends on the controller's objects only.
LEMMA SameObjects ==
  ASSUME db' = db, moved' = moved, handle' = handle, gone' = gone
  PROVE  /\ \A d : Usable(d)' <=> Usable(d)
         /\ \A n, i : Holds(n, i)' <=> Holds(n, i)
         /\ Objects' <=> Objects
         /\ \A n, i : Awaited(n, i)' <=> Awaited(n, i)
<1>1. \A d : Usable(d)' <=> Usable(d)
  BY DEF Usable
<1>2. \A n, i : Holds(n, i)' <=> Holds(n, i)
  BY <1>1 DEF Holds
<1>3. Objects' <=> Objects
  BY <1>1 DEF Objects
<1>4. \A n, i : Awaited(n, i)' <=> Awaited(n, i)
  BY DEF Awaited, MovedFrom
<1> QED
  BY <1>1, <1>2, <1>3, <1>4

\* A call that does not move a device, when nothing of the database changes.
LEMMA PlainCall ==
  ASSUME DeviceInv, Live, ControllerActs, Early' => Early,
         db' = db, moved' = moved, handle' = handle, gone' = gone,
         call.op # "set_dev_netns", call.op # "create",
         call'.val = {}, call'.op \notin {"set_dev_netns", "remap", "destroy", "create"}
  PROVE  LiveInv'
<1>1. /\ KernelTypes /\ AgentTypes /\ QueueTypes /\ Cleared
      /\ OneDel /\ Shape /\ Links /\ Pending /\ InHand
      /\ OpInHand /\ Objects /\ OpObjects /\ Chain /\ TrueHandles
  BY DEF DeviceInv, Types, Working, LiveInv, Live
<1>2. /\ \A d : Usable(d)' <=> Usable(d)
      /\ \A n, i : Holds(n, i)' <=> Holds(n, i)
      /\ Objects'
      /\ \A n, i : Awaited(n, i)' <=> Awaited(n, i)
  BY <1>1, SameObjects
<1>3. \A n, i : Taken(n, i)' => Taken(n, i)
  BY <1>2 DEF Taken
<1>4. \A n, i : ~Creating(n, i)
  BY DEF Creating
<1>5. OneDel' /\ Shape' /\ Links' /\ Pending' /\ InHand' /\ Chain'
  BY <1>1, <1>2, <1>3, <1>4, CallsLive
<1>6. OpInHand' /\ OpObjects'
  BY DEF OpInHand, OpObjects, Commanded
<1>7. TrueHandles'
  BY <1>1, <1>2 DEF TrueHandles, TrueMove, Own, ControllerActs
<1> QED
  BY <1>2, <1>5, <1>6, <1>7 DEF LiveInv

\* The steps that start and end a run.
LEMMA set_initns_Inv ==
  ASSUME DeviceInv, set_initns
  PROVE  DeviceInv'
<1>1. KernelTypes /\ CtlTypes /\ CallOps /\ Stage
  BY DEF DeviceInv, Types, Working, set_initns, Idle
<1>2. /\ pc = "idle" /\ call = NoCall /\ batch = 0 /\ run < MaxRuns /\ run' = run + 1 /\ pc' = "prepare"
      /\ handle' = [d \in Devs |-> Nowhere] /\ moved' = [d \in Devs |-> Unmoved] /\ gone' = {}
      /\ call' = [op |-> "prepare", ns |-> Root, d |-> Nobody, idx |-> NoIdx, dst |-> Nobody,
                  at |-> "sent", val |-> {}]
      /\ ops' = ops /\ names' = names /\ dbRun' = dbRun /\ db' = db /\ managed' = managed
      /\ faults' = faults /\ batch' = batch
  BY DEF set_initns, Idle, Call, CallFor, agentVars
<1>3. ControllerActs /\ NoMove /\ call'.val = {}
  BY <1>2 DEF set_initns, ControllerActs, AgentsRest, agentVars, kernelVars, NoMove, MovesTo, NoCall
<1>4. call' \in Calls /\ call'.op = "prepare" /\ call'.at = "sent" /\ call'.ns = Root
  BY <1>2, SpacesFacts DEF Calls, Ops
<1>5. CtlTypes'
  <2>1. run' \in 0..MaxRuns /\ dbRun' \in 0..run'
    BY <1>1, <1>2, MovesAssumption DEF CtlTypes
  <2>2. handle' \in [Devs -> Place] /\ moved' \in [Devs -> Moves \union {Unmoved}]
    BY <1>2 DEF Place
  <2> QED
    BY <1>1, <1>2, <1>4, <2>1, <2>2 DEF CtlTypes
<1>6. CallOps'
  BY <1>2, <1>4, SpacesFacts DEF CallOps
<1>7. dbRun' < run' /\ ~Live'
  BY <1>1, <1>2 DEF CtlTypes, Live
<1>8. Stage'
  BY <1>1, <1>2, <1>4, <1>7 DEF Stage, Commanded
<1> QED
  BY <1>2, <1>3, <1>5, <1>6, <1>7, <1>8, CallsStep

LEMMA test_ends_Inv ==
  ASSUME DeviceInv, test_ends
  PROVE  DeviceInv'
<1>1. KernelTypes /\ CtlTypes /\ CallOps /\ Stage
  BY DEF DeviceInv, Types, Working, test_ends, Idle
<1>2. /\ pc = "test" /\ call = NoCall /\ batch = 0 /\ pc' = "cleanup"
      /\ call' = [op |-> "destroy_devices", ns |-> Root, d |-> Nobody, idx |-> NoIdx, dst |-> Nobody,
                  at |-> "sent", val |-> {}]
      /\ run' = run /\ ops' = ops /\ names' = names /\ dbRun' = dbRun /\ db' = db /\ moved' = moved
      /\ handle' = handle /\ gone' = gone /\ managed' = managed /\ faults' = faults /\ batch' = batch
  BY DEF test_ends, Idle, Call, CallFor, agentVars, AfterCall
<1>3. ControllerActs /\ NoMove /\ call'.val = {}
  BY <1>2 DEF test_ends, AfterCall, ControllerActs, AgentsRest, agentVars, kernelVars, NoMove, MovesTo, NoCall
<1>4. call' \in Calls /\ call'.op = "destroy_devices" /\ call'.at = "sent" /\ call'.ns = Root
  BY <1>2, SpacesFacts DEF Calls, Ops
<1>5. CtlTypes'
  BY <1>1, <1>2, <1>4 DEF CtlTypes
<1>6. CallOps'
  BY <1>2, <1>4, SpacesFacts DEF CallOps
<1>7. ~Live'
  BY <1>2 DEF Live
<1>8. Stage'
  BY <1>1, <1>2, <1>4 DEF Stage, Commanded
<1> QED
  BY <1>2, <1>3, <1>5, <1>6, <1>7, <1>8, CallsStep

LEMMA cleanup_Inv ==
  ASSUME DeviceInv, cleanup
  PROVE  DeviceInv'
<1>1. AgentTypes /\ CtlTypes /\ CallOps /\ pc = "cleanup" /\ Stage
  BY DEF DeviceInv, Types, Working, cleanup, Returned, CallOps
<1> DEFINE rest == IF call.op = "del_namespace" THEN managed \ {Root} ELSE names
<1>2. /\ call.op \in {"destroy_devices", "del_namespace"} /\ call.at = "done" /\ batch = 0
      /\ NextOf(rest) /\ names' = (IF rest = {} THEN {} ELSE names)
      /\ pc' = pc /\ run' = run /\ ops' = ops /\ dbRun' = dbRun /\ db' = db /\ moved' = moved
      /\ handle' = handle /\ gone' = gone /\ managed' = managed /\ faults' = faults /\ batch' = batch
  BY DEF cleanup, Returned, agentVars
<1>3. names = NetNs /\ Root \in managed /\ rest \subseteq managed /\ rest \subseteq NetNs
      /\ (rest = {} => managed = {Root})
  BY <1>1, <1>2, SpacesFacts DEF Stage, AgentTypes
<1> HIDE DEF rest
<1>4. \/ /\ rest = {}
         /\ call' = [op |-> "bye", ns |-> Root, d |-> Nobody, idx |-> NoIdx, dst |-> Nobody,
                     at |-> "sent", val |-> {}]
      \/ /\ rest # {}
         /\ \E n \in rest :
              call' = [op |-> "del_namespace", ns |-> Root, d |-> Nobody, idx |-> NoIdx, dst |-> n,
                       at |-> "sent", val |-> {}]
  BY <1>2 DEF NextOf, Call, CallFor
<1>5. /\ call' \in Calls /\ call'.at = "sent" /\ call'.ns = Root /\ call'.val = {}
      /\ \/ rest = {} /\ call'.op = "bye"
         \/ rest # {} /\ call'.op = "del_namespace" /\ call'.dst \in rest
  BY <1>3, <1>4, SpacesFacts DEF Calls, Ops
<1>6. ControllerActs /\ NoMove
  BY <1>2, <1>5 DEF cleanup, ControllerActs, AgentsRest, agentVars, kernelVars, NoMove, MovesTo
<1>7. CtlTypes'
  BY <1>1, <1>2, <1>5 DEF CtlTypes
<1>8. CallOps'
  BY <1>1, <1>2, <1>3, <1>5, SpacesFacts DEF CallOps
<1>9. ~Live'
  BY <1>1, <1>2 DEF Live
<1>10. Stage'
  BY <1>1, <1>2, <1>3, <1>5 DEF Stage, Commanded
<1> QED
  BY <1>1, <1>2, <1>5, <1>6, <1>7, <1>8, <1>9, <1>10, CallsStep

LEMMA cleaned_up_Inv ==
  ASSUME DeviceInv, cleaned_up
  PROVE  DeviceInv'
<1>1. CtlTypes /\ CallOps /\ pc = "cleanup" /\ Stage
  BY DEF DeviceInv, Types, Working, cleaned_up, Returned, CallOps
<1>2. /\ call.op = "bye" /\ call.at = "done" /\ batch = 0 /\ pc' = "idle" /\ call' = NoCall
      /\ run' = run /\ ops' = ops /\ names' = names /\ dbRun' = dbRun /\ db' = db /\ moved' = moved
      /\ handle' = handle /\ gone' = gone /\ managed' = managed /\ faults' = faults /\ batch' = batch
  BY DEF cleaned_up, Returned, agentVars, AfterCall
<1>3. call' \in Calls /\ call'.op = "none" /\ call'.at = "none" /\ call'.val = {}
  BY <1>2 DEF NoCall, Calls, Ops
<1>4. ControllerActs /\ NoMove
  BY <1>2 DEF cleaned_up, AfterCall, ControllerActs, AgentsRest, agentVars, kernelVars, NoMove, MovesTo
<1>5. CtlTypes'
  BY <1>1, <1>2, <1>3 DEF CtlTypes
<1>6. CallOps'
  BY <1>2, <1>3 DEF CallOps
<1>7. ~Live'
  BY <1>2 DEF Live
<1>8. Stage'
  BY <1>1, <1>2, <1>3 DEF Stage, Commanded
<1> QED
  BY <1>1, <1>2, <1>3, <1>4, <1>5, <1>6, <1>7, <1>8, CallsStep

\* The controller has a database for this run, and nothing of the last run is on its way.
LEMMA prepared_Inv ==
  ASSUME DeviceInv, Returned("prepare"), dbRun' = run, db' = [n \in Spaces |-> EmptyDb], Call("init", Root),
         UNCHANGED <<kernelVars, agentVars, toCtl, batch, pc, run, ops, names, moved, handle, gone, faults>>
  PROVE  DeviceInv'
<1>1. /\ KernelTypes /\ AgentTypes /\ QueueTypes /\ CtlTypes /\ CallOps /\ pc = "prepare"
      /\ Stage /\ Unmanaged /\ Cleared
  BY DEF DeviceInv, Types, Working, Returned, CallOps
<1>2. /\ call.op = "prepare" /\ call.at = "done" /\ batch = 0
      /\ call' = [op |-> "init", ns |-> Root, d |-> Nobody, idx |-> NoIdx, dst |-> Nobody,
                  at |-> "sent", val |-> {}]
      /\ pc' = pc /\ run' = run /\ ops' = ops /\ names' = names /\ moved' = moved
      /\ handle' = handle /\ gone' = gone /\ managed' = managed /\ nl' = nl /\ known' = known
      /\ faults' = faults /\ batch' = batch /\ where' = where /\ toCtl' = toCtl /\ pipe' = pipe
  BY DEF Returned, Call, CallFor, agentVars, kernelVars
<1>3. ControllerActs /\ NoMove
  BY <1>2 DEF ControllerActs, AgentsRest, agentVars, kernelVars, NoMove, MovesTo
<1>4. call' \in Calls /\ call'.op = "init" /\ call'.at = "sent" /\ call'.ns = Root /\ call'.val = {}
  BY <1>2, SpacesFacts DEF Calls, Ops
<1>5. CtlTypes'
  <2>1. dbRun' \in 0..run
    BY <1>1 DEF CtlTypes
  <2>2. db' \in [Spaces -> [Indices -> Devs \union {Other, Nobody}]]
    BY DEF EmptyDb
  <2> QED
    BY <1>1, <1>2, <1>4, <2>1, <2>2 DEF CtlTypes
<1>6. CallOps'
  BY <1>1, <1>2, <1>4, SpacesFacts DEF CallOps
<1>7. Stage'
  BY <1>1, <1>2, <1>4 DEF Stage, Commanded
<1>8. /\ \A n \in Spaces, i \in Indices : ~Going(n, i)' /\ ~Coming(n, i)' /\ InOrder(Stream(n), n, i)'
  <2> SUFFICES ASSUME NEW n \in Spaces, NEW i \in Indices
               PROVE  ~Going(n, i)' /\ ~Coming(n, i)' /\ InOrder(Stream(n), n, i)'
    OBVIOUS
  <2>1. ~Going(n, i) /\ ~Coming(n, i)
    BY <1>1, <1>2 DEF Cleared, Clears
  <2>2. Stream(n) \in Seq(Messages)
    BY <1>1, StreamIsMessages, Concat DEF Stream, QueueTypes
  <2>3. \A k \in DOMAIN Stream(n) : ~On(Stream(n)[k], n, i)
    BY <2>1, <2>2, NotOn DEF Going, Coming
  <2>4. InOrder(Stream(n), n, i)
    BY <2>3 DEF InOrder
  <2> QED
    BY <1>2, <2>1, <2>4, SameStreams
<1>9. managed = {} /\ (\A n \in Spaces : known[n] = {}) /\ \A d \in Devs : handle[d] = Nowhere /\ moved[d] = Unmoved
  BY <1>1, <1>2 DEF Stage, Unmanaged
<1>10. /\ \A n \in NetNs : nl[n] = <<>>
       /\ \A k \in DOMAIN nl[Root] : nl[Root][k].type = "NEWLINK" /\ nl[Root][k].idx \in At(where, Root)
  BY <1>1, <1>2, <1>9 DEF Unmanaged
<1>11. \A n \in Spaces : \A k \in DOMAIN nl[n] : nl[n][k].type = "NEWLINK" /\ nl[n][k].idx \in At(where, n)
  <2>1. \A n \in Spaces : n # Root => nl[n] = <<>>
    BY <1>10, SpacesFacts
  <2> QED
    BY <1>10, <2>1
<1>12. ~\E d \in Devs : Usable(d)'
  BY <1>2, <1>9 DEF Usable
<1>13. \A n, i : ~Holds(n, i)' /\ ~Taken(n, i)' /\ ~Clears(n, i)' /\ ~Creating(n, i)'
  BY <1>4, <1>12 DEF Holds, Taken, Clears, Creating
<1>14. LiveInv'
  <2>1. OneDel'
    BY <1>2, <1>11 DEF OneDel, DropFirst
  <2>2. Shape' /\ Pending'
    BY <1>8 DEF Shape, Pending
  <2>3. InHand'
    BY <1>13 DEF InHand
  <2>4. Links'
    <3>1. \A n \in Spaces, i \in Indices : ~Dropping(n, i)'
      <4> SUFFICES ASSUME NEW n \in Spaces, NEW i \in Indices PROVE ~Drop1(nl[n], i)
        BY <1>2 DEF Dropping
      <4>1. nl[n] # <<>> => 1 \in DOMAIN nl[n]
        BY <1>1 DEF KernelTypes
      <4> QED
        BY <1>11, <4>1 DEF Drop1
    <3>2. \A n \in Spaces, i \in Indices : New(n, i)' => i \in At(where, n)'
      BY <1>2, <1>11 DEF New, At
    <3> QED
      BY <1>2, <1>9, <3>1, <3>2 DEF Links
  <2>5. OpInHand' /\ OpObjects'
    BY <1>4 DEF OpInHand, OpObjects, Commanded
  <2>6. Objects'
    <3>1. \A n \in Spaces, i \in Indices : db'[n][i] = Nobody
      BY DEF EmptyDb
    <3>2. Nobody \notin Devs
      BY MovesAssumption DEF Devs
    <3> QED
      BY <1>2, <1>9, <1>12, <3>1, <3>2 DEF Objects
  <2>7. Chain'
    <3>1. \A n \in Spaces, i \in Indices : db'[n][i] = Nobody
      BY DEF EmptyDb
    <3> QED
      BY <1>2, <1>9, <3>1 DEF Chain
  <2>8. TrueHandles'
    BY <1>2, <1>4, <1>9, <1>12 DEF TrueHandles
  <2> QED
    BY <2>1, <2>2, <2>3, <2>4, <2>5, <2>6, <2>7, <2>8 DEF LiveInv
<1> QED
  BY <1>1, <1>2, <1>3, <1>4, <1>5, <1>6, <1>7, <1>14, CallsStep

LEMMA prepare_machine_Inv ==
  ASSUME DeviceInv, prepare_machine
  PROVE  DeviceInv'
<1>1. CASE /\ Returned("prepare") /\ dbRun' = run /\ db' = [n \in Spaces |-> EmptyDb] /\ Call("init", Root)
           /\ UNCHANGED <<kernelVars, agentVars, toCtl, batch, pc, run, ops, names, moved, handle, gone, faults>>
  BY <1>1, prepared_Inv
<1>2. ASSUME Returned("init"), Call("get", Root),
             UNCHANGED <<kernelVars, agentVars, toCtl, batch, ctlVars, faults>>
      PROVE  DeviceInv'
  <2>1. CtlTypes /\ CallOps /\ pc = "prepare" /\ Stage
    BY <1>2 DEF DeviceInv, Types, Working, Returned, CallOps
  <2>2. /\ call.op = "init" /\ call.at = "done" /\ batch = 0
        /\ call' = [op |-> "get", ns |-> Root, d |-> Nobody, idx |-> NoIdx, dst |-> Nobody,
                    at |-> "sent", val |-> {}]
        /\ pc' = pc /\ run' = run /\ ops' = ops /\ names' = names /\ moved' = moved /\ db' = db /\ dbRun' = dbRun
        /\ handle' = handle /\ gone' = gone /\ managed' = managed /\ faults' = faults /\ batch' = batch
    BY <1>2 DEF Returned, Call, CallFor, agentVars, ctlVars
  <2>3. call' \in Calls /\ call'.op = "get" /\ call'.at = "sent" /\ call'.ns = Root /\ call'.val = {}
    BY <2>2, SpacesFacts DEF Calls, Ops
  <2>4. ControllerActs /\ NoMove
    BY <1>2, <2>2, <2>3 DEF ControllerActs, AgentsRest, agentVars, kernelVars, NoMove, MovesTo
  <2>5. CtlTypes'
    BY <2>1, <2>2, <2>3 DEF CtlTypes
  <2>6. CallOps'
    BY <2>1, <2>2, <2>3, SpacesFacts DEF CallOps
  <2>7. Stage'
    BY <2>1, <2>2, <2>3 DEF Stage, Commanded
  <2>8. Live /\ (Early' => Early)
    BY <2>1, <2>2 DEF Live, Early, Stage
  <2>9. LiveInv'
    BY <2>2, <2>3, <2>4, <2>8, PlainCall
  <2> QED
    BY <2>1, <2>2, <2>3, <2>4, <2>5, <2>6, <2>7, <2>9, CallsStep
<1> QED
  BY <1>1, <1>2 DEF prepare_machine

LEMMA add_netns_Inv ==
  ASSUME DeviceInv, NEW n \in NetNs, add_netns(n)
  PROVE  DeviceInv'
<1>1. CtlTypes /\ CallOps /\ Stage
  BY DEF DeviceInv, Types, Working, add_netns, Idle
<1>2. /\ pc = "netns" /\ call = NoCall /\ batch = 0 /\ n \notin names /\ names' = names \union {n}
      /\ call' = [op |-> "add_namespace", ns |-> n, d |-> Nobody, idx |-> NoIdx, dst |-> Nobody,
                  at |-> "sent", val |-> {}]
      /\ pc' = pc /\ run' = run /\ ops' = ops /\ moved' = moved /\ db' = db /\ dbRun' = dbRun
      /\ handle' = handle /\ gone' = gone /\ managed' = managed /\ faults' = faults /\ batch' = batch
  BY DEF add_netns, Idle, Call, CallFor, agentVars
<1>3. call' \in Calls /\ call'.op = "add_namespace" /\ call'.at = "sent" /\ call'.ns = n /\ call'.val = {}
  BY <1>2, SpacesFacts DEF Calls, Ops
<1>4. ControllerActs /\ NoMove /\ call.op = "none"
  BY <1>2, <1>3 DEF add_netns, ControllerActs, AgentsRest, agentVars, kernelVars, NoMove, MovesTo, NoCall
<1>5. CtlTypes'
  BY <1>1, <1>2, <1>3 DEF CtlTypes
<1>6. CallOps'
  BY <1>1, <1>2, <1>3, SpacesFacts DEF CallOps
<1>7. Stage'
  BY <1>1, <1>2, <1>3, <1>4 DEF Stage, Commanded
<1>8. Live /\ (Early' => Early)
  BY <1>2 DEF Live, Early
<1>9. LiveInv'
  BY <1>2, <1>3, <1>4, <1>8, PlainCall
<1> QED
  BY <1>2, <1>3, <1>4, <1>5, <1>6, <1>7, <1>9, CallsStep

LEMMA test_starts_Inv ==
  ASSUME DeviceInv, test_starts
  PROVE  DeviceInv'
<1>1. CtlTypes /\ CallOps /\ Stage /\ AgentTypes
  BY DEF DeviceInv, Types, Working, test_starts, Idle
<1>2. /\ pc = "netns" /\ call = NoCall /\ batch = 0 /\ names = NetNs /\ pc' = "test"
      /\ call' = call /\ names' = names
      /\ run' = run /\ ops' = ops /\ moved' = moved /\ db' = db /\ dbRun' = dbRun
      /\ handle' = handle /\ gone' = gone /\ managed' = managed /\ faults' = faults /\ batch' = batch
  BY DEF test_starts, Idle, agentVars
<1>3. call' \in Calls /\ call'.op = "none" /\ call'.at = "none" /\ call'.val = {} /\ call.op = "none"
  BY <1>1, <1>2 DEF CtlTypes, NoCall
<1>4. ControllerActs /\ NoMove
  BY <1>2, <1>3 DEF test_starts, ControllerActs, AgentsRest, agentVars, kernelVars, NoMove, MovesTo
<1>5. CtlTypes'
  BY <1>1, <1>2, <1>3 DEF CtlTypes
<1>6. CallOps'
  BY <1>1, <1>2, <1>3 DEF CallOps
<1>7. Stage'
  <2>1. managed = Spaces
    <3>1. \A n \in Spaces : n \in managed
      BY <1>1, <1>2, <1>3, SpacesFacts DEF Stage, Commanded
    <3> QED
      BY <1>1, <3>1 DEF AgentTypes
  <2> QED
    BY <1>1, <1>2, <1>3, <2>1 DEF Stage, Commanded
<1>8. Live /\ (Early' => Early)
  BY <1>2 DEF Live, Early
<1>9. LiveInv'
  BY <1>2, <1>3, <1>4, <1>8, PlainCall
<1> QED
  BY <1>2, <1>3, <1>4, <1>5, <1>6, <1>7, <1>9, CallsStep

LEMMA call_returns_Inv ==
  ASSUME DeviceInv, call_returns
  PROVE  DeviceInv'
<1>1. CtlTypes /\ CallOps /\ pc \in {"netns", "test"} /\ Stage
  <2>1. pc \in {"netns", "test"}
    BY DEF DeviceInv, Types, call_returns, Returned, CallOps
  <2> QED
    BY <2>1 DEF DeviceInv, Types, Working
<1>2. /\ call.op \in {"add_namespace", "remap", "destroy"} /\ call.at = "done" /\ batch = 0
      /\ call' = NoCall /\ pc' = pc /\ names' = names
      /\ run' = run /\ ops' = ops /\ moved' = moved /\ db' = db /\ dbRun' = dbRun
      /\ handle' = handle /\ gone' = gone /\ managed' = managed /\ faults' = faults /\ batch' = batch
  BY DEF call_returns, Returned, AfterCall, agentVars
<1>3. call' \in Calls /\ call'.op = "none" /\ call'.at = "none" /\ call'.val = {}
  BY <1>2 DEF NoCall, Calls, Ops
<1>4. ControllerActs /\ NoMove
  BY <1>2, <1>3 DEF call_returns, AfterCall, ControllerActs, AgentsRest, agentVars, kernelVars, NoMove, MovesTo
<1>5. CtlTypes'
  BY <1>1, <1>2, <1>3 DEF CtlTypes
<1>6. CallOps'
  BY <1>1, <1>2, <1>3 DEF CallOps
<1>7. Stage'
  BY <1>1, <1>2, <1>3 DEF Stage, Commanded
<1>8. Live /\ (Early' => Early)
  BY <1>1, <1>2 DEF Live, Early
<1>9. LiveInv'
  BY <1>2, <1>3, <1>4, <1>8, PlainCall
<1> QED
  BY <1>1, <1>2, <1>3, <1>4, <1>5, <1>6, <1>7, <1>9, CallsStep

LEMMA map_devices_Inv ==
  ASSUME DeviceInv, map_devices
  PROVE  DeviceInv'
<1>1. /\ KernelTypes /\ AgentTypes /\ QueueTypes /\ CtlTypes /\ CallOps /\ pc = "prepare"
      /\ Stage /\ Cleared /\ Live
      /\ OneDel /\ Shape /\ Links /\ Pending /\ InHand
      /\ OpInHand /\ Objects /\ OpObjects /\ Chain /\ TrueHandles
  <2>1. /\ KernelTypes /\ AgentTypes /\ QueueTypes /\ CtlTypes /\ CallOps /\ pc = "prepare"
        /\ Stage /\ Cleared
    BY DEF DeviceInv, Types, Working, map_devices, Returned, CallOps
  <2>2. Live
    BY <2>1 DEF Live, Stage, map_devices, Returned
  <2> QED
    BY <2>1, <2>2 DEF DeviceInv, LiveInv
<1> DEFINE here == {d \in Physical : where[d] # Nowhere /\ where[d][1] = Root /\ where[d][2] \in call.val}
           at(i) == CHOOSE d \in here : where[d][2] = i
<1>2. /\ call.op = "get" /\ call.at = "done" /\ call.ns = Root /\ batch = 0
      /\ db' = [db EXCEPT ![Root] = [i \in Indices |->
                  IF \E d \in here : where[d][2] = i THEN at(i)
                  ELSE IF i \in call.val /\ @[i] = Nobody THEN Other ELSE @[i]]]
      /\ handle' = [d \in Devs |-> IF d \in here THEN where[d] ELSE Nowhere]
      /\ call' = NoCall /\ pc' = "netns" /\ names' = names
      /\ run' = run /\ ops' = ops /\ moved' = moved /\ dbRun' = dbRun
      /\ gone' = gone /\ managed' = managed /\ faults' = faults /\ batch' = batch /\ where' = where
  BY <1>1 DEF map_devices, Returned, agentVars, kernelVars, CallOps
<1>3. /\ here \subseteq Devs /\ Root \in Spaces /\ Nobody \notin Devs /\ Other \notin Devs /\ Nobody # Other
      /\ \A d \in here : where[d] \in Place /\ where[d] = <<Root, where[d][2]>> /\ where[d][2] \in call.val
                         /\ where[d][2] \in Indices
  <2>1. /\ here \subseteq Devs /\ Root \in Spaces /\ Nobody \notin Devs /\ Other \notin Devs /\ Nobody # Other
    BY MovesAssumption DEF Devs, Spaces, Nobody, Other
  <2>2. ASSUME NEW d \in here
        PROVE  where[d] \in Place /\ where[d] = <<Root, where[d][2]>> /\ where[d][2] \in call.val
               /\ where[d][2] \in Indices
    <3>1. where[d] \in Place /\ where[d] # Nowhere /\ where[d][1] = Root /\ where[d][2] \in call.val
      BY <1>1, <2>1 DEF KernelTypes
    <3> HIDE DEF here
    <3> QED
      BY <3>1 DEF Place, Nowhere
  <2> QED
    BY <2>1, <2>2
<1>4. \A i : (\E d \in here : where[d][2] = i) => at(i) \in here /\ where[at(i)][2] = i
  OBVIOUS
<1> HIDE DEF here, at
<1>5. /\ \A i \in Indices : db'[Root][i] = IF \E d \in here : where[d][2] = i THEN at(i)
                                           ELSE IF i \in call.val /\ db[Root][i] = Nobody THEN Other ELSE db[Root][i]
      /\ \A n \in Spaces : n # Root => db'[n] = db[n]
      /\ db' \in [Spaces -> [Indices -> Devs \union {Other, Nobody}]]
  <2>1. db \in [Spaces -> [Indices -> Devs \union {Other, Nobody}]]
    BY <1>1 DEF CtlTypes
  <2>2. db' = [db EXCEPT ![Root] = [i \in Indices |->
                 IF \E d \in here : where[d][2] = i THEN at(i)
                 ELSE IF i \in call.val /\ db[Root][i] = Nobody THEN Other ELSE db[Root][i]]]
    BY <1>2
  <2>3. /\ \A i \in Indices : db'[Root][i] = IF \E d \in here : where[d][2] = i THEN at(i)
                                             ELSE IF i \in call.val /\ db[Root][i] = Nobody THEN Other ELSE db[Root][i]
        /\ \A n \in Spaces : n # Root => db'[n] = db[n]
    BY <1>3, <2>1, <2>2
  <2>4. db' \in [Spaces -> [Indices -> Devs \union {Other, Nobody}]]
    <3> DEFINE e(i) == IF \E d \in here : where[d][2] = i THEN at(i)
                       ELSE IF i \in call.val /\ db[Root][i] = Nobody THEN Other ELSE db[Root][i]
    <3>1. \A i \in Indices : e(i) \in Devs \union {Other, Nobody}
      BY <1>3, <1>4, <2>1
    <3>2. db' = [db EXCEPT ![Root] = [i \in Indices |-> e(i)]]
      BY <2>2
    <3> HIDE DEF e
    <3> QED
      BY <1>3, <2>1, <3>1, <3>2
  <2> QED
    BY <2>3, <2>4
<1>6. call' \in Calls /\ call'.op = "none" /\ call'.at = "none" /\ call'.val = {}
  BY <1>2 DEF NoCall, Calls, Ops
<1>7. ControllerActs /\ NoMove
  BY <1>2, <1>6 DEF map_devices, ControllerActs, AgentsRest, agentVars, kernelVars, NoMove, MovesTo
<1>8. CtlTypes'
  <2>1. handle' \in [Devs -> Place]
    BY <1>2, <1>3 DEF Place
  <2> QED
    BY <1>1, <1>2, <1>5, <1>6, <2>1 DEF CtlTypes
<1>9. CallOps'
  BY <1>2, <1>6 DEF CallOps
<1>10. Stage'
  <2>1. names = {} /\ managed = {Root} /\ dbRun = run
    BY <1>1, <1>2 DEF Stage
  <2> QED
    BY <1>2, <1>6, <2>1, SpacesFacts DEF Stage, Commanded
<1>11. Early' => Early
  BY <1>1 DEF Early
<1>12. /\ \A d \in Devs : handle[d] = Nowhere /\ moved[d] = Unmoved
       /\ \A d \in Devs : Usable(d)' => d \in here /\ handle'[d] = where[d]
  BY <1>1, <1>2 DEF Stage, Usable
<1>13. ASSUME NEW n \in Spaces, NEW i \in Indices
       PROVE  /\ Taken(n, i)' => Taken(n, i) \/ Clears(n, i)
              /\ db'[n][i] # Nobody => db[n][i] # Nobody \/ Clears(n, i)
              /\ db[n][i] # Nobody \/ Creating(n, i) \/ Awaited(n, i) => db'[n][i] # Nobody \/ Awaited(n, i)'
  <2>1. i \in call.val => Clears(Root, i)
    BY <1>2 DEF Clears
  <2>2. ASSUME Taken(n, i)' PROVE Clears(n, i)
    <3>1. PICK d \in Devs : Usable(d)' /\ handle'[d] = <<n, i>>
      BY <1>6, <2>2 DEF Taken, Holds
    <3>2. d \in here /\ where[d] = <<n, i>>
      BY <1>12, <3>1
    <3> QED
      BY <1>3, <2>1, <3>2
  <2>3. db'[n][i] # Nobody => db[n][i] # Nobody \/ Clears(n, i)
    <3>1. (\E d \in here : where[d][2] = i) => i \in call.val
      BY <1>3
    <3> QED
      BY <1>5, <2>1, <3>1
  <2>4. db[n][i] # Nobody => db'[n][i] # Nobody
    BY <1>3, <1>4, <1>5
  <2>5. ~Creating(n, i) /\ ~Awaited(n, i)
    BY <1>2, <1>12 DEF Creating, Awaited, MovedFrom
  <2> QED
    BY <2>2, <2>3, <2>4, <2>5
<1>14. LiveInv'
  <2>1. OneDel' /\ Shape' /\ Links' /\ Pending' /\ InHand' /\ Chain'
    BY <1>1, <1>6, <1>7, <1>11, <1>13, CallsLive
  <2>2. OpInHand' /\ OpObjects'
    BY <1>6 DEF OpInHand, OpObjects, Commanded
  <2>3. Objects'
    <3>1. ASSUME NEW n \in Spaces, NEW i \in Indices, NEW d \in Devs, db'[n][i] = d
          PROVE  handle'[d] = <<n, i>>
      <4>1. db[n][i] # d
        <5>1. <<n, i>> # Nowhere
          BY DEF Nowhere
        <5> QED
          BY <1>1, <1>12, <5>1 DEF Objects
      <4>2. n = Root /\ \E e \in here : where[e][2] = i
        BY <1>3, <1>5, <3>1, <4>1
      <4>3. d = at(i)
        BY <1>5, <3>1, <4>2
      <4>4. d \in here /\ where[d][2] = i
        BY <1>4, <4>2, <4>3
      <4> QED
        BY <1>2, <1>3, <4>2, <4>4
    <3>2. ASSUME NEW d \in Devs, Usable(d)' PROVE db'[handle'[d][1]][handle'[d][2]] = d
      <4>1. d \in here /\ handle'[d] = where[d]
        BY <1>12, <3>2
      <4> DEFINE i == where[d][2]
      <4>2. i \in Indices /\ where[d] = <<Root, i>> /\ handle'[d][1] = Root /\ handle'[d][2] = i
        BY <1>3, <4>1
      <4>3. db'[Root][i] = at(i) /\ at(i) \in here /\ where[at(i)][2] = i
        BY <1>4, <1>5, <4>1, <4>2
      <4>4. where[at(i)] = where[d] /\ where[d] # Nowhere
        BY <1>3, <4>2, <4>3 DEF Nowhere
      <4>5. at(i) = d
        BY <1>1, <1>3, <4>3, <4>4 DEF KernelTypes
      <4> QED
        BY <4>2, <4>3, <4>5
    <3> QED
      BY <1>2, <1>12, <3>1, <3>2 DEF Objects
  <2>4. TrueHandles'
    BY <1>2, <1>6, <1>12 DEF TrueHandles
  <2> QED
    BY <2>1, <2>2, <2>3, <2>4 DEF LiveInv
<1> QED
  BY <1>1, <1>2, <1>6, <1>7, <1>8, <1>9, <1>10, <1>14, CallsStep

LEMMA move_completed_Inv ==
  ASSUME DeviceInv, move_completed
  PROVE  DeviceInv'
<1>1. /\ KernelTypes /\ AgentTypes /\ QueueTypes /\ CtlTypes /\ CallOps /\ pc = "test"
      /\ Stage /\ Cleared /\ Live
      /\ OneDel /\ Shape /\ Links /\ Pending /\ InHand
      /\ OpInHand /\ Objects /\ OpObjects /\ Chain /\ TrueHandles
  <2>1. /\ KernelTypes /\ AgentTypes /\ QueueTypes /\ CtlTypes /\ CallOps /\ pc = "test"
        /\ Stage /\ Cleared
    BY DEF DeviceInv, Types, Working, move_completed, Returned, CallOps
  <2>2. Live
    BY <2>1 DEF Live
  <2> QED
    BY <2>1, <2>2 DEF DeviceInv, LiveInv
<1>2. /\ call.op = "set_dev_netns" /\ call.at = "done" /\ batch = 0 /\ call.d \in Devs /\ moved[call.d] = Unmoved
      /\ call' = [op |-> "remap", ns |-> handle[call.d][1], d |-> call.d, idx |-> handle[call.d][2],
                  dst |-> Nobody, at |-> "sent", val |-> {}]
      /\ pc' = pc /\ names' = names /\ where' = where
      /\ run' = run /\ ops' = ops /\ moved' = moved /\ db' = db /\ dbRun' = dbRun
      /\ handle' = handle /\ gone' = gone /\ managed' = managed /\ faults' = faults /\ batch' = batch
  BY <1>1 DEF move_completed, Returned, CallFor, AfterCall, agentVars, kernelVars, CallOps
<1>3. Usable(call.d)
  BY <1>1, <1>2 DEF Usable, OpObjects
<1>4. /\ handle[call.d][1] \in Spaces /\ handle[call.d][2] \in Indices
      /\ handle[call.d] = <<handle[call.d][1], handle[call.d][2]>>
  <2>1. handle[call.d] \in Place /\ handle[call.d] # Nowhere
    BY <1>1, <1>2, <1>3 DEF CtlTypes, Usable
  <2> QED
    BY <2>1 DEF Place, Nowhere
<1>5. /\ call' \in Calls /\ call'.op = "remap" /\ call'.at = "sent" /\ call'.val = {} /\ call'.d = call.d
      /\ call'.ns = handle[call.d][1] /\ call'.idx = handle[call.d][2]
  BY <1>2, <1>4 DEF Calls, Ops
<1>6. ControllerActs /\ NoMove
  BY <1>2, <1>5 DEF move_completed, AfterCall, ControllerActs, AgentsRest, agentVars, kernelVars, NoMove, MovesTo
<1>7. CtlTypes'
  BY <1>1, <1>2, <1>5 DEF CtlTypes
<1>8. CallOps'
  BY <1>1, <1>2, <1>4, <1>5 DEF CallOps
<1>9. Stage'
  BY <1>1, <1>2, <1>5 DEF Stage, Commanded
<1>10. /\ \A d : Usable(d)' <=> Usable(d)
       /\ \A n, i : Holds(n, i)' <=> Holds(n, i)
       /\ Objects'
       /\ \A n, i : Awaited(n, i)' <=> Awaited(n, i)
  BY <1>1, <1>2, SameObjects
<1>11. \A n, i : /\ Taken(n, i)' => Taken(n, i)
                 /\ ~Creating(n, i)
  <2>1. Holds(call'.ns, call'.idx)
    BY <1>2, <1>3, <1>4, <1>5 DEF Holds
  <2> QED
    BY <1>2, <1>10, <2>1 DEF Taken, Creating
<1>12. LiveInv'
  <2>1. OneDel' /\ Shape' /\ Links' /\ Pending' /\ InHand' /\ Chain'
    BY <1>1, <1>2, <1>5, <1>6, <1>10, <1>11, CallsLive DEF Early
  <2>2. OpInHand' /\ OpObjects'
    BY <1>5 DEF OpInHand, OpObjects, Commanded
  <2>3. TrueHandles'
    BY <1>1, <1>2, <1>3, <1>4, <1>5, <1>10 DEF TrueHandles, TrueMove, Own
  <2> QED
    BY <1>10, <2>1, <2>2, <2>3 DEF LiveInv
<1> QED
  BY <1>1, <1>2, <1>5, <1>6, <1>7, <1>8, <1>9, <1>12, CallsStep

LEMMA move_timed_out_Inv ==
  ASSUME DeviceInv, move_timed_out
  PROVE  DeviceInv'
<1>1. /\ KernelTypes /\ AgentTypes /\ QueueTypes /\ CtlTypes /\ CallOps /\ pc = "test"
      /\ Stage /\ Cleared /\ Live
      /\ OneDel /\ Shape /\ Links /\ Pending /\ InHand
      /\ OpInHand /\ Objects /\ OpObjects /\ Chain /\ TrueHandles
  <2>1. /\ KernelTypes /\ AgentTypes /\ QueueTypes /\ CtlTypes /\ CallOps /\ pc = "test"
        /\ Stage /\ Cleared
    BY DEF DeviceInv, Types, Working, move_timed_out, Returned, CallOps
  <2>2. Live
    BY <2>1 DEF Live
  <2> QED
    BY <2>1, <2>2 DEF DeviceInv, LiveInv
<1>2. /\ call.op = "set_dev_netns" /\ call.at = "done" /\ batch = 0 /\ "timeout" \in faults
      /\ call' = NoCall
      /\ pc' = pc /\ names' = names
      /\ run' = run /\ ops' = ops /\ moved' = moved /\ db' = db /\ dbRun' = dbRun
      /\ handle' = handle /\ gone' = gone /\ managed' = managed /\ faults' = faults /\ batch' = batch
  BY DEF move_timed_out, Returned, AfterCall, agentVars
<1>3. call' \in Calls /\ call'.op = "none" /\ call'.at = "none" /\ call'.val = {}
  BY <1>2 DEF NoCall, Calls, Ops
<1>4. ControllerActs /\ NoMove
  BY <1>2, <1>3 DEF move_timed_out, AfterCall, ControllerActs, AgentsRest, agentVars, kernelVars, NoMove
<1>5. CtlTypes'
  BY <1>1, <1>2, <1>3 DEF CtlTypes
<1>6. CallOps'
  BY <1>1, <1>2, <1>3 DEF CallOps
<1>7. Stage'
  BY <1>1, <1>2, <1>3 DEF Stage, Commanded
<1>8. /\ \A n, i : Holds(n, i)' <=> Holds(n, i)
      /\ Objects'
      /\ \A n, i : Awaited(n, i)' <=> Awaited(n, i)
  BY <1>1, <1>2, SameObjects
<1>9. \A n, i : /\ Taken(n, i)' => Taken(n, i)
                /\ ~Creating(n, i)
  BY <1>2, <1>3, <1>8 DEF Taken, Creating
<1>10. LiveInv'
  <2>1. OneDel' /\ Shape' /\ Links' /\ Pending' /\ InHand' /\ Chain'
    BY <1>1, <1>2, <1>3, <1>4, <1>8, <1>9, CallsLive DEF Early
  <2>2. OpInHand' /\ OpObjects'
    BY <1>3 DEF OpInHand, OpObjects, Commanded
  <2>3. TrueHandles'
    BY <1>2 DEF TrueHandles
  <2> QED
    BY <1>8, <2>1, <2>2, <2>3 DEF LiveInv
<1> QED
  BY <1>1, <1>2, <1>3, <1>4, <1>5, <1>6, <1>7, <1>10, CallsStep

\* A step of a test, when no call is under way.
LEMMA TestFacts ==
  ASSUME DeviceInv, pc = "test"
  PROVE  /\ KernelTypes /\ AgentTypes /\ QueueTypes /\ CtlTypes /\ CallOps
         /\ Stage /\ Cleared /\ Live
         /\ OneDel /\ Shape /\ Links /\ Pending /\ InHand
         /\ OpInHand /\ Objects /\ OpObjects /\ Chain /\ TrueHandles
BY DEF DeviceInv, Types, Working, Live, LiveInv

\* A device a tester may use has a place, which no other has.
LEMMA UsablePlace ==
  ASSUME CtlTypes, Objects, NEW d \in Devs, Usable(d)
  PROVE  /\ handle[d][1] \in Spaces /\ handle[d][2] \in Indices
         /\ handle[d] = <<handle[d][1], handle[d][2]>>
         /\ moved[d] = Unmoved /\ d \notin gone /\ handle[d] # Nowhere
         /\ db[handle[d][1]][handle[d][2]] = d
         /\ \A e \in Devs : Usable(e) /\ handle[e] = handle[d] => e = d
<1>1. handle[d] \in Place /\ handle[d] # Nowhere /\ moved[d] = Unmoved /\ d \notin gone
  BY DEF Usable, CtlTypes
<1>2. /\ handle[d][1] \in Spaces /\ handle[d][2] \in Indices
      /\ handle[d] = <<handle[d][1], handle[d][2]>>
  BY <1>1 DEF Place, Nowhere
<1>3. \A e \in Devs : Usable(e) => db[handle[e][1]][handle[e][2]] = e
  BY DEF Objects
<1> QED
  BY <1>1, <1>2, <1>3

LEMMA remote_device_set_netns_Inv ==
  ASSUME DeviceInv, NEW d \in Devs, NEW dst \in Spaces, remote_device_set_netns(d, dst)
  PROVE  DeviceInv'
<1>1. /\ KernelTypes /\ AgentTypes /\ QueueTypes /\ CtlTypes /\ CallOps /\ pc = "test"
      /\ Stage /\ Cleared /\ Live
      /\ OneDel /\ Shape /\ Links /\ Pending /\ InHand
      /\ OpInHand /\ Objects /\ OpObjects /\ Chain /\ TrueHandles
  BY TestFacts DEF remote_device_set_netns, TestOp, Idle
<1>15. /\ Usable(d) /\ handle[d][1] \in Spaces /\ handle[d][2] \in Indices
       /\ handle[d] = <<handle[d][1], handle[d][2]>>
  BY <1>1, UsablePlace DEF remote_device_set_netns
<1>16. PICK src \in Spaces, old \in Indices :
         src = handle[d][1] /\ old = handle[d][2] /\ handle[d] = <<src, old>>
  BY <1>15
<1>2. /\ call = NoCall /\ batch = 0 /\ ops < MaxOps /\ ops' = ops + 1
      /\ Usable(d) /\ dst # src /\ (dst = Root => "raise" \in faults)
      /\ db' = [db EXCEPT ![src][old] = Nobody]
      /\ moved' = [moved EXCEPT ![d] = [src |-> src, dst |-> dst, old |-> old, new |-> NoIdx]]
      /\ call' = [op |-> "set_dev_netns", ns |-> src, d |-> d, idx |-> old, dst |-> dst,
                  at |-> "sent", val |-> {}]
      /\ pc' = pc /\ names' = names /\ where' = where
      /\ run' = run /\ dbRun' = dbRun
      /\ handle' = handle /\ gone' = gone /\ managed' = managed /\ faults' = faults /\ batch' = batch
  BY <1>16 DEF remote_device_set_netns, TestOp, Idle, CallFor, agentVars, kernelVars
<1>3. /\ src \in Spaces /\ old \in Indices /\ handle[d] = <<src, old>>
      /\ moved[d] = Unmoved /\ d \notin gone /\ handle[d] # Nowhere /\ db[src][old] = d
      /\ \A e \in Devs : Usable(e) /\ handle[e] = handle[d] => e = d
  BY <1>1, <1>2, <1>16, UsablePlace
<1>4. /\ call' \in Calls /\ call'.op = "set_dev_netns" /\ call'.at = "sent" /\ call'.val = {} /\ call'.d = d
      /\ call'.ns = src /\ call'.idx = old /\ call'.dst = dst /\ call.op = "none"
  BY <1>2, <1>3 DEF Calls, Ops, NoCall
<1>5. ControllerActs /\ NoMove
  BY <1>2, <1>4 DEF remote_device_set_netns, ControllerActs, AgentsRest, agentVars, kernelVars, NoMove, MovesTo
<1>6. /\ db' \in [Spaces -> [Indices -> Devs \union {Other, Nobody}]]
      /\ \A n \in Spaces, i \in Indices : db'[n][i] = IF n = src /\ i = old THEN Nobody ELSE db[n][i]
  BY <1>1, <1>2, <1>3 DEF CtlTypes
<1>7. /\ moved' \in [Devs -> Moves \union {Unmoved}] /\ moved'[d] # Unmoved
      /\ moved'[d] = [src |-> src, dst |-> dst, old |-> old, new |-> NoIdx]
      /\ moved'[d].src = src /\ moved'[d].dst = dst /\ moved'[d].old = old /\ moved'[d].new = NoIdx
      /\ \A e \in Devs : e # d => moved'[e] = moved[e]
  <2> DEFINE r == [src |-> src, dst |-> dst, old |-> old, new |-> NoIdx]
  <2>1. r \in Moves /\ r.old = old /\ r.src = src /\ r.dst = dst /\ r.new = NoIdx
    BY <1>3 DEF Moves
  <2>2. r # Unmoved
    BY <1>3, <2>1, NoIdxNotIndex DEF Unmoved
  <2>3. moved' = [moved EXCEPT ![d] = r]
    BY <1>2
  <2> HIDE DEF r
  <2>4. moved' \in [Devs -> Moves \union {Unmoved}] /\ moved'[d] = r /\ \A e \in Devs : e # d => moved'[e] = moved[e]
    BY <1>1, <2>1, <2>3 DEF CtlTypes
  <2> QED
    BY <2>1, <2>2, <2>4 DEF r
<1>8. CtlTypes'
  <2>1. ops' \in 0..MaxOps
    BY <1>1, <1>2, MovesAssumption DEF CtlTypes
  <2>2. \A e \in Devs : moved'[e] # Unmoved => moved'[e].src # moved'[e].dst
    BY <1>1, <1>2, <1>7 DEF CtlTypes
  <2> QED
    BY <1>1, <1>2, <1>4, <1>6, <1>7, <2>1, <2>2 DEF CtlTypes
<1>9. CallOps'
  BY <1>1, <1>2, <1>3, <1>4 DEF CallOps
<1>10. Stage'
  BY <1>1, <1>2, <1>4 DEF Stage, Commanded
<1>11. /\ ~Usable(d)'
       /\ \A e \in Devs : e # d => (Usable(e)' <=> Usable(e))
  BY <1>2, <1>7 DEF Usable
<1>12. /\ \A n, i : Holds(n, i)' => Holds(n, i)
       /\ ~Holds(src, old)' /\ Holds(src, old)
  <2>1. handle' = handle /\ \A e \in Devs : Usable(e)' => Usable(e)
    BY <1>2, <1>11
  <2>2. ASSUME NEW n, NEW i, Holds(n, i)' PROVE Holds(n, i)
    BY <2>1, <2>2 DEF Holds
  <2>3. ~Holds(src, old)'
    BY <1>3, <1>11, <2>1 DEF Holds
  <2>4. Holds(src, old)
    BY <1>2, <1>3 DEF Holds
  <2> QED
    BY <2>2, <2>3, <2>4
<1>13. ASSUME NEW n \in Spaces, NEW i \in Indices
       PROVE  /\ Taken(n, i)' => Taken(n, i)
              /\ db'[n][i] # Nobody => db[n][i] # Nobody
              /\ db[n][i] # Nobody \/ Creating(n, i) \/ Awaited(n, i) => db'[n][i] # Nobody \/ Awaited(n, i)'
  <2>1. Taken(n, i)' => Taken(n, i)
    BY <1>4, <1>12 DEF Taken
  <2>2. ~Creating(n, i)
    BY <1>4 DEF Creating
  <2>3. Awaited(n, i) => Awaited(n, i)'
    <3> SUFFICES ASSUME NEW e \in MovedFrom(n, i), moved[e].new = NoIdx PROVE Awaited(n, i)'
      BY DEF Awaited
    <3>1. e \in Devs /\ e # d /\ moved'[e] = moved[e]
      BY <1>3, <1>7 DEF MovedFrom
    <3> QED
      BY <3>1 DEF Awaited, MovedFrom
  <2>4. Awaited(src, old)'
    BY <1>7 DEF Awaited, MovedFrom
  <2> QED
    BY <1>6, <2>1, <2>2, <2>3, <2>4
<1>14. LiveInv'
  <2>1. OneDel' /\ Shape' /\ Links' /\ Pending' /\ InHand' /\ Chain'
    BY <1>1, <1>2, <1>4, <1>5, <1>13, CallsLive DEF Early
  <2>2. OpInHand'
    BY <1>2, <1>4, <1>12 DEF OpInHand, Commanded
  <2>3. Objects'
    <3>1. ASSUME NEW n \in Spaces, NEW i \in Indices, NEW e \in Devs, db'[n][i] = e
          PROVE  handle'[e] = <<n, i>> /\ moved'[e] = Unmoved
      <4>1. ~(n = src /\ i = old) /\ db[n][i] = e
        <5>1. Nobody \notin Devs
          BY MovesAssumption DEF Devs
        <5> QED
          BY <1>6, <3>1, <5>1
      <4>2. handle[e] = <<n, i>> /\ moved[e] = Unmoved
        BY <1>1, <4>1 DEF Objects
      <4>3. e # d
        BY <1>3, <4>1, <4>2
      <4> QED
        BY <1>2, <1>7, <4>2, <4>3
    <3>2. ASSUME NEW e \in Devs, Usable(e)' PROVE db'[handle[e][1]][handle[e][2]] = e
      <4>1. e # d /\ Usable(e)
        BY <1>11, <3>2
      <4>2. /\ handle[e][1] \in Spaces /\ handle[e][2] \in Indices
            /\ handle[e] = <<handle[e][1], handle[e][2]>> /\ db[handle[e][1]][handle[e][2]] = e
        BY <1>1, <4>1, UsablePlace
      <4>3. ~(handle[e][1] = src /\ handle[e][2] = old)
        BY <1>3, <4>1, <4>2
      <4> QED
        BY <1>6, <4>2, <4>3
    <3>3. \A e \in Devs : moved'[e] # Unmoved => handle[e] # Nowhere /\ e \notin gone
      BY <1>1, <1>3, <1>7 DEF Objects
    <3> QED
      BY <1>2, <3>1, <3>2, <3>3 DEF Objects
  <2>4. OpObjects'
    BY <1>2, <1>3, <1>4, <1>7 DEF OpObjects
  <2>5. TrueHandles'
    <3> SUFFICES ASSUME "timeout" \notin faults
                 PROVE  /\ \A e \in Devs : Usable(e)' => where[e] = handle[e]
                        /\ where[d] = <<src, old>>
                        /\ \A e \in Devs : moved'[e] # Unmoved => TrueMove(e)'
      BY <1>2, <1>4 DEF TrueHandles
    <3>1. \A e \in Devs : Usable(e) => where[e] = handle[e]
      BY <1>1 DEF TrueHandles
    <3>2. where[d] = <<src, old>>
      BY <1>2, <1>3, <3>1
    <3>3. ASSUME NEW e \in Devs, moved'[e] # Unmoved PROVE TrueMove(e)'
      <4>1. CASE e = d
        BY <1>2, <1>4, <1>7, <3>2, <4>1 DEF TrueMove, Own
      <4>2. CASE e # d
        <5>1. moved'[e] = moved[e] /\ TrueMove(e)
          BY <1>1, <1>7, <3>3, <4>2 DEF TrueHandles
        <5>2. moved[e].new = NoIdx /\ where[e] = <<moved[e].src, moved[e].old>> /\ moved[e].dst = Root
          BY <1>4, <5>1 DEF TrueMove, Own
        <5>3. where[e] # where[d]
          BY <1>1, <1>3, <3>1, <1>2, <4>2 DEF KernelTypes
        <5>4. ~(moved[e].src = src /\ moved[e].old = old)
          BY <3>2, <5>2, <5>3
        <5> QED
          BY <1>2, <1>4, <4>2, <5>1, <5>2, <5>4 DEF TrueMove, Own
      <4> QED
        BY <4>1, <4>2
    <3> QED
      BY <1>11, <3>1, <3>2, <3>3
  <2> QED
    BY <2>1, <2>2, <2>3, <2>4, <2>5 DEF LiveInv
<1> QED
  BY <1>1, <1>2, <1>4, <1>5, <1>8, <1>9, <1>10, <1>14, CallsStep

LEMMA remote_device_create_Inv ==
  ASSUME DeviceInv, NEW d \in Soft, NEW n \in Spaces, remote_device_create(d, n)
  PROVE  DeviceInv'
<1>1. /\ KernelTypes /\ AgentTypes /\ QueueTypes /\ CtlTypes /\ CallOps /\ pc = "test"
      /\ Stage /\ Cleared /\ Live
      /\ OneDel /\ Shape /\ Links /\ Pending /\ InHand
      /\ OpInHand /\ Objects /\ OpObjects /\ Chain /\ TrueHandles
  BY TestFacts DEF remote_device_create, TestOp, Idle
<1>2. /\ call = NoCall /\ batch = 0 /\ ops < MaxOps /\ ops' = ops + 1
      /\ where[d] = Nowhere /\ handle[d] = Nowhere /\ gone' = gone \ {d} /\ d \in Devs
      /\ call' = [op |-> "create", ns |-> n, d |-> d, idx |-> NoIdx, dst |-> Nobody,
                  at |-> "sent", val |-> {}]
      /\ pc' = pc /\ names' = names /\ where' = where /\ db' = db /\ moved' = moved
      /\ run' = run /\ dbRun' = dbRun
      /\ handle' = handle /\ managed' = managed /\ faults' = faults /\ batch' = batch
  BY DEF remote_device_create, TestOp, Idle, CallFor, agentVars, kernelVars, Devs
<1>3. /\ call' \in Calls /\ call'.op = "create" /\ call'.at = "sent" /\ call'.val = {} /\ call'.d = d
      /\ call'.ns = n /\ call'.idx = NoIdx /\ call.op = "none"
  BY <1>2 DEF Calls, Ops, NoCall
<1>4. ControllerActs /\ NoMove
  BY <1>2, <1>3 DEF remote_device_create, ControllerActs, AgentsRest, agentVars, kernelVars, NoMove, MovesTo
<1>5. CtlTypes'
  <2>1. ops' \in 0..MaxOps
    BY <1>1, <1>2, MovesAssumption DEF CtlTypes
  <2> QED
    BY <1>1, <1>2, <1>3, <2>1 DEF CtlTypes
<1>6. CallOps'
  BY <1>1, <1>2, <1>3 DEF CallOps
<1>7. Stage'
  BY <1>1, <1>2, <1>3 DEF Stage, Commanded
<1>8. \A e \in Devs : Usable(e)' <=> Usable(e)
  BY <1>2 DEF Usable
<1>9. /\ \A m, i : Holds(m, i)' <=> Holds(m, i)
      /\ \A m, i : Awaited(m, i)' <=> Awaited(m, i)
  BY <1>2, <1>8 DEF Holds, Awaited, MovedFrom
<1>10. \A m, i : (Taken(m, i)' => Taken(m, i)) /\ ~Creating(m, i)
  BY <1>3, <1>9 DEF Taken, Creating
<1>11. moved[d] = Unmoved
  BY <1>1, <1>2 DEF Objects
<1>12. LiveInv'
  <2>1. OneDel' /\ Shape' /\ Links' /\ Pending' /\ InHand' /\ Chain'
    BY <1>1, <1>2, <1>3, <1>4, <1>9, <1>10, CallsLive DEF Early
  <2>2. OpInHand'
    BY <1>2, <1>3 DEF OpInHand, Commanded
  <2>3. Objects'
    BY <1>1, <1>2, <1>8 DEF Objects
  <2>4. OpObjects'
    BY <1>2, <1>3, <1>11 DEF OpObjects, Commanded
  <2>5. TrueHandles'
    <3>1. \A e \in Devs : TrueMove(e)' <=> TrueMove(e)
      BY <1>2, <1>3 DEF TrueMove, Own
    <3> QED
      BY <1>1, <1>2, <1>3, <1>8, <3>1 DEF TrueHandles
  <2> QED
    BY <2>1, <2>2, <2>3, <2>4, <2>5 DEF LiveInv
<1> QED
  BY <1>1, <1>2, <1>3, <1>4, <1>5, <1>6, <1>7, <1>12, CallsStep

LEMMA remote_device_destroy_Inv ==
  ASSUME DeviceInv, NEW d \in Soft, remote_device_destroy(d)
  PROVE  DeviceInv'
<1>1. /\ KernelTypes /\ AgentTypes /\ QueueTypes /\ CtlTypes /\ CallOps /\ pc = "test"
      /\ Stage /\ Cleared /\ Live
      /\ OneDel /\ Shape /\ Links /\ Pending /\ InHand
      /\ OpInHand /\ Objects /\ OpObjects /\ Chain /\ TrueHandles
  BY TestFacts DEF remote_device_destroy, TestOp, Idle
<1>13. /\ Usable(d) /\ d \in Devs /\ handle[d][1] \in Spaces /\ handle[d][2] \in Indices
       /\ handle[d] = <<handle[d][1], handle[d][2]>>
  BY <1>1, UsablePlace DEF remote_device_destroy, Devs
<1>14. PICK n \in Spaces, i \in Indices : n = handle[d][1] /\ i = handle[d][2] /\ handle[d] = <<n, i>>
  BY <1>13
<1>2. /\ call = NoCall /\ batch = 0 /\ ops < MaxOps /\ ops' = ops + 1 /\ d \in Devs
      /\ Usable(d) /\ ((\E x \in Soft : where[x] = handle[d]) \/ "raise" \in faults)
      /\ gone' = gone \union {d}
      /\ call' = [op |-> "destroy", ns |-> n, d |-> d, idx |-> i, dst |-> Nobody,
                  at |-> "sent", val |-> {}]
      /\ pc' = pc /\ names' = names /\ where' = where /\ db' = db /\ moved' = moved
      /\ run' = run /\ dbRun' = dbRun
      /\ handle' = handle /\ managed' = managed /\ faults' = faults /\ batch' = batch
  BY <1>14 DEF remote_device_destroy, TestOp, Idle, CallFor, agentVars, kernelVars, Devs
<1>3. /\ n \in Spaces /\ i \in Indices /\ handle[d] = <<n, i>>
      /\ moved[d] = Unmoved /\ d \notin gone /\ handle[d] # Nowhere /\ db[n][i] = d
      /\ \A e \in Devs : Usable(e) /\ handle[e] = handle[d] => e = d
  BY <1>1, <1>2, <1>14, UsablePlace
<1>4. /\ call' \in Calls /\ call'.op = "destroy" /\ call'.at = "sent" /\ call'.val = {} /\ call'.d = d
      /\ call'.ns = n /\ call'.idx = i /\ call.op = "none"
  BY <1>2, <1>3 DEF Calls, Ops, NoCall
<1>5. ControllerActs /\ NoMove
  BY <1>2, <1>4 DEF remote_device_destroy, ControllerActs, AgentsRest, agentVars, kernelVars, NoMove, MovesTo
<1>6. CtlTypes'
  <2>1. ops' \in 0..MaxOps
    BY <1>1, <1>2, MovesAssumption DEF CtlTypes
  <2> QED
    BY <1>1, <1>2, <1>4, <2>1 DEF CtlTypes
<1>7. CallOps'
  BY <1>1, <1>2, <1>3, <1>4 DEF CallOps
<1>8. Stage'
  BY <1>1, <1>2, <1>4 DEF Stage, Commanded
<1>9. /\ ~Usable(d)'
      /\ \A e \in Devs : e # d => (Usable(e)' <=> Usable(e))
  BY <1>2 DEF Usable
<1>10. /\ \A m, j : Holds(m, j)' => Holds(m, j)
       /\ ~Holds(n, i)' /\ Holds(n, i)
       /\ \A m, j : Awaited(m, j)' <=> Awaited(m, j)
  <2>1. handle' = handle /\ moved' = moved /\ \A e \in Devs : Usable(e)' => Usable(e)
    BY <1>2, <1>9
  <2>2. ASSUME NEW m, NEW j, Holds(m, j)' PROVE Holds(m, j)
    BY <2>1, <2>2 DEF Holds
  <2>3. ~Holds(n, i)'
    BY <1>3, <1>9, <2>1 DEF Holds
  <2>4. Holds(n, i)
    BY <1>2, <1>3 DEF Holds
  <2>5. \A m, j : Awaited(m, j)' <=> Awaited(m, j)
    BY <2>1 DEF Awaited, MovedFrom
  <2> QED
    BY <2>2, <2>3, <2>4, <2>5
<1>11. \A m, j : (Taken(m, j)' => Taken(m, j)) /\ ~Creating(m, j)
  BY <1>4, <1>10 DEF Taken, Creating
<1>12. LiveInv'
  <2>1. OneDel' /\ Shape' /\ Links' /\ Pending' /\ InHand' /\ Chain'
    BY <1>1, <1>2, <1>4, <1>5, <1>10, <1>11, CallsLive DEF Early
  <2>2. OpInHand'
    <3>1. call'.op = "destroy" /\ call'.ns = n /\ call'.idx = i
      BY <1>4
    <3>2. ~Holds(call.ns, call.idx)'
      BY <1>10, <3>1
    <3>3. "raise" \in faults' \/ \E x \in Soft : where'[x] = <<call'.ns, call'.idx>>
      BY <1>2, <1>3, <1>4, <3>1
    <3> QED
      BY <3>1, <3>2, <3>3 DEF OpInHand, Commanded
  <2>3. Objects'
    <3>1. \A e \in Devs : Usable(e)' => Usable(e)
      BY <1>9
    <3>2. \A e \in Devs : moved[e] # Unmoved => handle[e] # Nowhere /\ e \notin gone'
      BY <1>1, <1>2, <1>3 DEF Objects
    <3> QED
      BY <1>1, <1>2, <3>1, <3>2 DEF Objects
  <2>4. OpObjects'
    BY <1>2, <1>4 DEF OpObjects, Commanded
  <2>5. TrueHandles'
    <3>1. \A e \in Devs : TrueMove(e)' <=> TrueMove(e)
      BY <1>2, <1>4 DEF TrueMove, Own
    <3> QED
      BY <1>1, <1>2, <1>3, <1>4, <1>9, <3>1 DEF TrueHandles
  <2> QED
    BY <2>1, <2>2, <2>3, <2>4, <2>5 DEF LiveInv
<1> QED
  BY <1>1, <1>2, <1>4, <1>5, <1>6, <1>7, <1>8, <1>12, CallsStep

LEMMA device_is_created_Inv ==
  ASSUME DeviceInv, device_is_created
  PROVE  DeviceInv'
<1>1. /\ KernelTypes /\ AgentTypes /\ QueueTypes /\ CtlTypes /\ CallOps /\ pc = "test"
      /\ Stage /\ Cleared /\ Live
      /\ OneDel /\ Shape /\ Links /\ Pending /\ InHand
      /\ OpInHand /\ Objects /\ OpObjects /\ Chain /\ TrueHandles
  <2>1. pc = "test"
    BY DEF DeviceInv, Types, device_is_created, Returned, CallOps
  <2> QED
    BY <2>1, TestFacts
<1>17. PICK d \in Devs, n \in Spaces : d = call.d /\ n = call.ns
  BY <1>1 DEF device_is_created, Returned, CallOps, Devs
<1>2. PICK i \in call.val :
        /\ db' = [db EXCEPT ![call.ns][i] = call.d]
        /\ handle' = [handle EXCEPT ![call.d] = <<call.ns, i>>]
  BY DEF device_is_created
<1>3. /\ call.op = "create" /\ call.at = "done" /\ batch = 0 /\ call' = NoCall
      /\ pc' = pc /\ names' = names /\ where' = where /\ moved' = moved /\ gone' = gone
      /\ run' = run /\ dbRun' = dbRun /\ ops' = ops
      /\ managed' = managed /\ faults' = faults /\ batch' = batch
  BY DEF device_is_created, Returned, AfterCall, agentVars, kernelVars
<1>4. /\ d \in Devs /\ n \in Spaces /\ i \in Indices /\ call.val = {i}
      /\ handle[d] = Nowhere /\ moved[d] = Unmoved /\ d \notin gone
  BY <1>1, <1>2, <1>3, <1>17 DEF CallOps, OpObjects, CtlTypes, Calls
<1>5. /\ Creating(n, i) /\ Clears(n, i) /\ where[d] = <<n, i>> /\ ~Taken(n, i)
      /\ \A m, j : Creating(m, j) => m = n /\ j = i
  <2>1. Creating(n, i) /\ Clears(n, i)
    BY <1>3, <1>4, <1>17 DEF Creating, Clears
  <2>2. \A m, j : Creating(m, j) => m = n /\ j = i
    BY <1>3, <1>4, <1>17 DEF Creating, Clears
  <2> QED
    BY <1>1, <1>4, <1>17, <2>1, <2>2 DEF InHand
<1>6. call' \in Calls /\ call'.op = "none" /\ call'.at = "none" /\ call'.val = {}
  BY <1>3 DEF NoCall, Calls, Ops
<1>7. ControllerActs /\ NoMove
  BY <1>3, <1>6 DEF device_is_created, AfterCall, ControllerActs, AgentsRest, agentVars, kernelVars, NoMove, MovesTo
<1>8. /\ db' = [db EXCEPT ![n][i] = d] /\ handle' = [handle EXCEPT ![d] = <<n, i>>]
      /\ Nobody \notin Devs /\ <<n, i>> # Nowhere /\ <<n, i>> \in Place
  BY <1>2, <1>4, <1>17, MovesAssumption DEF Devs, Nowhere, Place
<1>9. /\ db' \in [Spaces -> [Indices -> Devs \union {Other, Nobody}]]
      /\ \A m \in Spaces, j \in Indices : db'[m][j] = IF m = n /\ j = i THEN d ELSE db[m][j]
      /\ handle' \in [Devs -> Place] /\ handle'[d] = <<n, i>>
      /\ \A e \in Devs : e # d => handle'[e] = handle[e]
  BY <1>1, <1>4, <1>8 DEF CtlTypes
<1>10. CtlTypes'
  BY <1>1, <1>3, <1>6, <1>9 DEF CtlTypes
<1>11. CallOps'
  BY <1>1, <1>3, <1>6 DEF CallOps
<1>12. Stage'
  BY <1>1, <1>3, <1>6 DEF Stage, Commanded
<1>13. Usable(d)' /\ ~Usable(d) /\ \A e \in Devs : e # d => (Usable(e)' <=> Usable(e))
  <2>1. Usable(d)'
    BY <1>3, <1>4, <1>8, <1>9 DEF Usable
  <2>2. ~Usable(d)
    BY <1>4 DEF Usable
  <2>3. ASSUME NEW e \in Devs, e # d PROVE Usable(e)' <=> Usable(e)
    <3>1. handle'[e] = handle[e] /\ moved'[e] = moved[e] /\ (e \in gone' <=> e \in gone)
      BY <1>3, <1>9, <2>3
    <3> QED
      BY <3>1 DEF Usable
  <2> QED
    BY <2>1, <2>2, <2>3
<1>14. \A m, j : Holds(m, j)' => Holds(m, j) \/ (m = n /\ j = i)
  BY <1>9, <1>13 DEF Holds
<1>15. ASSUME NEW m \in Spaces, NEW j \in Indices
       PROVE  /\ Taken(m, j)' => Taken(m, j) \/ Clears(m, j)
              /\ db'[m][j] # Nobody => db[m][j] # Nobody \/ Clears(m, j)
              /\ db[m][j] # Nobody \/ Creating(m, j) \/ Awaited(m, j) => db'[m][j] # Nobody \/ Awaited(m, j)'
  <2>1. Taken(m, j)' => Taken(m, j) \/ Clears(m, j)
    BY <1>5, <1>6, <1>14 DEF Taken
  <2>2. Awaited(m, j)' <=> Awaited(m, j)
    BY <1>3 DEF Awaited, MovedFrom
  <2> QED
    BY <1>4, <1>5, <1>8, <1>9, <2>1, <2>2
<1>16. LiveInv'
  <2>1. OneDel' /\ Shape' /\ Links' /\ Pending' /\ InHand' /\ Chain'
    BY <1>1, <1>3, <1>6, <1>7, <1>15, CallsLive DEF Early
  <2>2. OpInHand' /\ OpObjects'
    BY <1>6 DEF OpInHand, OpObjects, Commanded
  <2>3. Objects'
    <3>1. ASSUME NEW m \in Spaces, NEW j \in Indices, NEW e \in Devs, db'[m][j] = e
          PROVE  handle'[e] = <<m, j>> /\ moved[e] = Unmoved
      <4>1. CASE m = n /\ j = i
        BY <1>4, <1>9, <3>1, <4>1
      <4>2. CASE ~(m = n /\ j = i)
        <5>1. handle[e] = <<m, j>> /\ moved[e] = Unmoved
          BY <1>1, <1>9, <3>1, <4>2 DEF Objects
        <5>2. e # d
          <6>1. <<m, j>> # Nowhere
            BY DEF Nowhere
          <6> QED
            BY <1>4, <5>1, <6>1
        <5> QED
          BY <1>9, <5>1, <5>2
      <4> QED
        BY <4>1, <4>2
    <3>2. ASSUME NEW e \in Devs, Usable(e)' PROVE db'[handle'[e][1]][handle'[e][2]] = e
      <4>1. CASE e = d
        BY <1>4, <1>9, <4>1
      <4>2. CASE e # d
        <5>1. Usable(e) /\ handle'[e] = handle[e]
          BY <1>9, <1>13, <3>2, <4>2
        <5>2. /\ handle[e][1] \in Spaces /\ handle[e][2] \in Indices
              /\ handle[e] = <<handle[e][1], handle[e][2]>> /\ db[handle[e][1]][handle[e][2]] = e
          BY <1>1, <5>1, UsablePlace
        <5>3. ~(handle[e][1] = n /\ handle[e][2] = i)
          BY <1>5, <5>1, <5>2 DEF Taken, Holds
        <5> QED
          BY <1>9, <5>1, <5>2, <5>3
      <4> QED
        BY <4>1, <4>2
    <3>3. \A e \in Devs : moved[e] # Unmoved => handle'[e] # Nowhere /\ e \notin gone
      BY <1>1, <1>4, <1>9 DEF Objects
    <3> QED
      BY <1>3, <3>1, <3>2, <3>3 DEF Objects
  <2>4. TrueHandles'
    <3>1. \A e \in Devs : TrueMove(e)' <=> TrueMove(e)
      BY <1>3, <1>6 DEF TrueMove, Own
    <3> QED
      BY <1>1, <1>3, <1>5, <1>6, <1>9, <1>13, <3>1 DEF TrueHandles
  <2> QED
    BY <2>1, <2>2, <2>3, <2>4 DEF LiveInv
<1> QED
  BY <1>1, <1>3, <1>6, <1>7, <1>10, <1>11, <1>12, <1>16, CallsStep

-----------------------------------------------------------------------------
(* The invariant, and what follows from it *)

\* Before the first run there is no interface manager, and nothing is sent.
LEMMA InitInv ==
  ASSUME Init
  PROVE  DeviceInv
<1>1. /\ where \in [Devs -> Place]
      /\ \A d \in Devs : where[d] = Nowhere <=> d \in Soft
      /\ \A d, e \in Devs : where[d] = where[e] /\ where[d] # Nowhere => d = e
  <2>1. /\ where \in [Devs -> {Nowhere} \union {<<Root, i>> : i \in Indices}]
        /\ \A d \in Devs : where[d] = Nowhere <=> d \in Soft
        /\ \A d, e \in Physical : where[d] = where[e] => d = e
    BY DEF Init
  <2>2. {Nowhere} \union {<<Root, i>> : i \in Indices} \subseteq Place
    BY SpacesFacts DEF Place
  <2>3. where \in [Devs -> Place]
    BY <2>1, <2>2
  <2>4. \A d \in Devs : where[d] # Nowhere => d \in Physical
    BY <2>1 DEF Devs
  <2> QED
    BY <2>1, <2>3, <2>4
<1>2. /\ dying = {} /\ nl = [n \in Spaces |-> <<>>] /\ known = [n \in Spaces |-> {}]
      /\ managed = {} /\ pipe = [n \in NetNs |-> <<>>] /\ toCtl = <<>>
      /\ call = NoCall /\ batch = 0 /\ pc = "idle" /\ run = 0 /\ ops = 0
      /\ names = {} /\ dbRun = 0 /\ db = [n \in Spaces |-> EmptyDb]
      /\ moved = [d \in Devs |-> Unmoved] /\ handle = [d \in Devs |-> Nowhere] /\ gone = {}
      /\ faults \subseteq Faults
  BY DEF Init
<1>3. KernelTypes
  BY <1>1, <1>2 DEF KernelTypes
<1>4. AgentTypes /\ QueueTypes
  <2>1. toCtl \in Seq(Messages) /\ batch \in 0..Len(toCtl)
    BY <1>2
  <2>2. pipe \in [NetNs -> Seq(Messages)] /\ \A n \in NetNs : DOMAIN pipe[n] = {}
    BY <1>2
  <2>3. known \in [Spaces -> SUBSET Indices] /\ managed \subseteq Spaces
    BY <1>2
  <2> QED
    BY <2>1, <2>2, <2>3 DEF AgentTypes, QueueTypes
<1>5. /\ call \in Calls /\ call.op = "none" /\ call.at = "none" /\ call.val = {} /\ call.dst = Nobody
      /\ Nobody \notin Spaces \/ call.op # "del_namespace"
  BY <1>2 DEF NoCall, Calls, Ops
<1>6. CtlTypes
  <2>1. run \in 0..MaxRuns /\ dbRun \in 0..run /\ ops \in 0..MaxOps
    BY <1>2, MovesAssumption
  <2>2. db \in [Spaces -> [Indices -> Devs \union {Other, Nobody}]]
    BY <1>2 DEF EmptyDb
  <2>3. /\ moved \in [Devs -> Moves \union {Unmoved}]
        /\ \A d \in Devs : moved[d] = Unmoved
    BY <1>2
  <2>4. handle \in [Devs -> Place]
    BY <1>2 DEF Place
  <2>5. names \subseteq NetNs /\ gone \subseteq Soft /\ faults \subseteq Faults /\ pc = "idle"
    BY <1>2
  <2> QED
    BY <1>5, <2>1, <2>2, <2>3, <2>4, <2>5 DEF CtlTypes
<1>7. CallOps
  BY <1>2, <1>5 DEF CallOps
<1>8. Stage
  BY <1>2, <1>5 DEF Stage
<1>9. /\ \A n \in Spaces, i \in Indices : ~Going(n, i) /\ ~Coming(n, i)
      /\ \A n \in Spaces : Lone(Stream(n))
      /\ Sent = {} /\ ~Answered1(toCtl) /\ \A n \in NetNs : ~Answered1(pipe[n])
  <2>1. \A n \in Spaces : Stream(n) = <<>>
    BY <1>2 DEF Stream, Pipe
  <2>2. Sent = {}
    BY <1>2 DEF Sent
  <2> QED
    BY <1>2, <2>1, <2>2, Empty DEF Going, Coming
<1>10. OneAnswer /\ Exceptions
  BY <1>9 DEF OneAnswer, Exceptions
<1>11. Unmanaged
  <2>1. \A n \in NetNs : At(where, n) = {}
    <3>1. \A d \in Devs : where[d] = Nowhere \/ \E i \in Indices : where[d] = <<Root, i>>
      BY DEF Init
    <3>2. \A n \in NetNs, i, j \in Indices : <<Root, i>> # <<n, j>> /\ Nowhere # <<n, j>>
      BY SpacesFacts DEF Nowhere
    <3> QED
      BY <3>1, <3>2 DEF At
  <2> QED
    BY <1>2, <1>5, <1>9, <2>1, SpacesFacts DEF Unmanaged
<1>12. Cleared
  BY <1>5 DEF Cleared, Clears
<1>13. OwnMove
  BY <1>2, <1>9 DEF OwnMove
<1> QED
  BY <1>2, <1>3, <1>4, <1>6, <1>7, <1>8, <1>10, <1>11, <1>12, <1>13
  DEF DeviceInv, Types, Working, Live, OnlyStaleEventsFail

\* Nothing happens.
LEMMA StutterInv ==
  ASSUME DeviceInv, UNCHANGED vars
  PROVE  DeviceInv'
<1>1. /\ AgentsRest /\ toCtl' = toCtl /\ pipe' = pipe /\ nl' = nl /\ known' = known
      /\ managed' = managed /\ where' = where /\ dying' = dying
      /\ UNCHANGED <<call, ctlVars>> /\ batch' = batch /\ faults' = faults
  BY DEF vars, kernelVars, agentVars, AgentsRest
<1>2. /\ call' = call /\ pc' = pc /\ run' = run /\ ops' = ops /\ names' = names /\ dbRun' = dbRun
      /\ db' = db /\ moved' = moved /\ handle' = handle /\ gone' = gone
  BY <1>1 DEF ctlVars
<1>3. /\ KernelTypes' <=> KernelTypes
      /\ AgentTypes' <=> AgentTypes
      /\ \A n : At(where, n)' = At(where, n)
      /\ \A n, i : /\ New(n, i)' <=> New(n, i)
                   /\ Dropping(n, i)' <=> Dropping(n, i)
                   /\ Settled(n, i)' <=> Settled(n, i)
  BY <1>1, AgentsStay
<1>4. /\ \A n, i : (Going(n, i)' <=> Going(n, i)) /\ (Coming(n, i)' <=> Coming(n, i))
      /\ \A n, i : (InOrder(Stream(n), n, i)' <=> InOrder(Stream(n), n, i))
                   /\ (Behind(Stream(n), n, i)' <=> Behind(Stream(n), n, i))
      /\ \A n : Lone(Stream(n))' <=> Lone(Stream(n))
      /\ Sent' = Sent
  BY <1>1, SameStreams
<1>5. /\ \A m, i : (Taken(m, i)' <=> Taken(m, i)) /\ (Clears(m, i)' <=> Clears(m, i))
                   /\ (Creating(m, i)' <=> Creating(m, i)) /\ (Holds(m, i)' <=> Holds(m, i))
      /\ \A op : Commanded(op)' <=> Commanded(op)
      /\ \A d : Usable(d)' <=> Usable(d)
      /\ CallOps' <=> CallOps
  BY <1>1, SameCalls
<1>6. (Objects' <=> Objects) /\ \A n, i : Awaited(n, i)' <=> Awaited(n, i)
  BY <1>2, SameObjects
<1>7. Types' <=> Types
  <2>1. QueueTypes' <=> QueueTypes
    BY <1>1 DEF QueueTypes
  <2>2. CtlTypes' <=> CtlTypes
    BY <1>1, <1>2 DEF CtlTypes
  <2> QED
    BY <1>3, <1>5, <2>1, <2>2 DEF Types
<1>8. Working => Working'
  <2>1. Stage' <=> Stage
    BY <1>1, <1>2 DEF Stage, Commanded
  <2>2. OneAnswer' <=> OneAnswer
    BY <1>1, <1>2, <1>4 DEF OneAnswer
  <2>3. Exceptions' <=> Exceptions
    BY <1>1, <1>2, <1>4 DEF Exceptions
  <2>4. Unmanaged' <=> Unmanaged
    BY <1>1, <1>2, <1>3, <1>4 DEF Unmanaged
  <2>5. Cleared' <=> Cleared
    BY <1>2, <1>4, <1>5 DEF Cleared
  <2>6. OwnMove' <=> OwnMove
    BY <1>1, <1>2, <1>4 DEF OwnMove, MovesTo
  <2> QED
    BY <2>1, <2>2, <2>3, <2>4, <2>5, <2>6 DEF Working
<1>9. LiveInv => LiveInv'
  <2>1. OneDel' <=> OneDel
    BY <1>1, <1>2 DEF OneDel, Early
  <2>2. Shape' <=> Shape
    BY <1>4 DEF Shape
  <2>3. Links' <=> Links
    BY <1>1, <1>3, <1>4 DEF Links
  <2>4. Pending' <=> Pending
    BY <1>1, <1>2, <1>3, <1>4, <1>5 DEF Pending, Early
  <2>5. InHand' <=> InHand
    BY <1>1, <1>2, <1>3, <1>4, <1>5 DEF InHand
  <2>6. OpInHand' <=> OpInHand
    BY <1>1, <1>2, <1>5 DEF OpInHand, Commanded
  <2>7. OpObjects' <=> OpObjects
    BY <1>2 DEF OpObjects, Commanded
  <2>8. Chain' <=> Chain
    BY <1>1, <1>2, <1>4, <1>5, <1>6 DEF Chain, Awaited
  <2>9. TrueHandles' <=> TrueHandles
    BY <1>1, <1>2, <1>5 DEF TrueHandles, TrueMove, Own
  <2> QED
    BY <1>6, <2>1, <2>2, <2>3, <2>4, <2>5, <2>6, <2>7, <2>8, <2>9 DEF LiveInv
<1>10. (OnlyStaleEventsFail' <=> OnlyStaleEventsFail) /\ (Live' <=> Live) /\ pc' = pc
  BY <1>1, <1>2 DEF OnlyStaleEventsFail, Live
<1> QED
  BY <1>7, <1>8, <1>9, <1>10 DEF DeviceInv

\* The agents and the kernel keep the invariant,
LEMMA AgentStepInv ==
  ASSUME DeviceInv, AgentStep
  PROVE  DeviceInv'
<1>1. ASSUME NEW n \in Spaces, agent_polls(n) PROVE DeviceInv'
  BY <1>1, agent_polls_Inv
<1>2. ASSUME NEW n \in NetNs, from_netns(n) PROVE DeviceInv'
  BY <1>2, from_netns_Inv
<1>3. CASE cleanup_net
  BY <1>3, cleanup_net_Inv
<1>4. CASE agent_prepare
  BY <1>4, agent_prepare_Inv
<1>5. CASE init_if_manager
  BY <1>5, init_if_manager_Inv
<1>6. CASE agent_rescans
  BY <1>6, agent_rescans_Inv
<1>7. CASE ip_link_set
  BY <1>7, ip_link_set_Inv
<1>8. CASE set_dev_netns
  BY <1>8, set_dev_netns_Inv
<1>9. CASE create_device
  BY <1>9, create_device_Inv
<1>10. CASE destroy
  BY <1>10, destroy_Inv
<1>11. CASE destroy_devices
  BY <1>11, destroy_devices_Inv
<1>12. CASE del_namespace
  BY <1>12, del_namespace_Inv
<1>13. CASE agent_bye
  BY <1>13, agent_bye_Inv
<1> QED
  BY <1>1, <1>2, <1>3, <1>4, <1>5, <1>6, <1>7, <1>8, <1>9, <1>10, <1>11, <1>12, <1>13 DEF AgentStep

\* ... so does the controller,
LEMMA ControllerStepInv ==
  ASSUME DeviceInv, ControllerStep
  PROVE  DeviceInv'
<1>1. CASE ctl_recv
  BY <1>1, ctl_recv_Inv
<1>2. CASE ctl_event
  BY <1>2, ctl_event_Inv
<1>3. CASE event_fails
  BY <1>3, event_fails_Inv
<1>4. CASE ctl_result
  BY <1>4, ctl_result_Inv
<1>5. CASE ctl_exception
  BY <1>5, ctl_exception_Inv
<1>6. CASE prepare_machine
  BY <1>6, prepare_machine_Inv
<1>7. CASE map_devices
  BY <1>7, map_devices_Inv
<1>8. ASSUME NEW n \in NetNs, add_netns(n) PROVE DeviceInv'
  BY <1>8, add_netns_Inv
<1>9. CASE test_starts
  BY <1>9, test_starts_Inv
<1>10. CASE move_completed
  BY <1>10, move_completed_Inv
<1>11. CASE device_is_created
  BY <1>11, device_is_created_Inv
<1>12. CASE call_returns
  BY <1>12, call_returns_Inv
<1>13. CASE cleanup
  BY <1>13, cleanup_Inv
<1>14. CASE cleaned_up
  BY <1>14, cleaned_up_Inv
<1> QED
  BY <1>1, <1>2, <1>3, <1>4, <1>5, <1>6, <1>7, <1>8, <1>9, <1>10, <1>11, <1>12, <1>13, <1>14
  DEF ControllerStep

\* ... and a test.
LEMMA TestStepInv ==
  ASSUME DeviceInv, TestStep
  PROVE  DeviceInv'
<1>1. ASSUME NEW d \in Devs, NEW n \in Spaces, remote_device_set_netns(d, n) PROVE DeviceInv'
  BY <1>1, remote_device_set_netns_Inv
<1>2. ASSUME NEW d \in Soft, NEW n \in Spaces, remote_device_create(d, n) PROVE DeviceInv'
  BY <1>2, remote_device_create_Inv
<1>3. ASSUME NEW d \in Soft, remote_device_destroy(d) PROVE DeviceInv'
  BY <1>3, remote_device_destroy_Inv
<1>4. CASE test_ends
  BY <1>4, test_ends_Inv
<1> QED
  BY <1>1, <1>2, <1>3, <1>4 DEF TestStep

\* DeviceInv is inductive.
LEMMA NextInv == DeviceInv /\ [Next]_vars => DeviceInv'
<1> SUFFICES ASSUME DeviceInv, [Next]_vars PROVE DeviceInv'
  OBVIOUS
<1>1. CASE AgentStep
  BY <1>1, AgentStepInv
<1>2. CASE ControllerStep
  BY <1>2, ControllerStepInv
<1>3. CASE TestStep
  BY <1>3, TestStepInv
<1>4. CASE set_initns
  BY <1>4, set_initns_Inv
<1>5. CASE move_timed_out
  BY <1>5, move_timed_out_Inv
<1>6. ASSUME NEW n \in Spaces, reconnect_netlink(n) PROVE DeviceInv'
  BY <1>6, reconnect_netlink_Inv
<1>7. CASE UNCHANGED vars
  BY <1>7, StutterInv
<1> QED
  BY <1>1, <1>2, <1>3, <1>4, <1>5, <1>6, <1>7 DEF Next

\* When nothing is on its way, the chain kernel - agent - database is closed by Links
\* and Chain.
LEMMA ViewsOfInv == DeviceInv => ViewConsistent
<1> SUFFICES ASSUME DeviceInv PROVE ViewConsistent
  OBVIOUS
<1>1. KernelTypes /\ AgentTypes /\ QueueTypes /\ CtlTypes /\ CallOps
  BY DEF DeviceInv, Types
<1>2. TypeOK
  <2>1. \A n \in Spaces : \A k \in DOMAIN nl[n] : nl[n][k].type \in {"NEWLINK", "DELLINK"}
    <3> SUFFICES ASSUME NEW n \in Spaces, NEW k \in DOMAIN nl[n]
                 PROVE  nl[n][k].type \in {"NEWLINK", "DELLINK"}
      OBVIOUS
    <3>1. nl[n] \in Seq(Notices)
      BY <1>1 DEF KernelTypes
    <3>2. nl[n][k] \in Notices
      BY <3>1
    <3> QED
      BY <3>2 DEF Notices, LinkMessages
  <2> QED
    BY <1>1, <2>1 DEF TypeOK, KernelTypes, AgentTypes, QueueTypes, CtlTypes
<1>3. DatabaseAgrees
  <2> SUFFICES ASSUME Quiet, "raise" \notin faults, NEW n \in Spaces, NEW i \in Indices
               PROVE  /\ i \in At(where, n) /\ MovedFrom(n, i) = {} => db[n][i] # Nobody
                      /\ "overflow" \notin faults /\ db[n][i] # Nobody => i \in At(where, n)
    BY DEF DatabaseAgrees
  <2>1. pc = "test" /\ call.op = "none" /\ toCtl = <<>> /\ nl[n] = <<>>
        /\ \A m \in NetNs : pipe[m] = <<>>
    BY DEF Quiet, Idle, NoCall
  <2>2. Links /\ Chain /\ n \in managed
    BY <2>1, TestFacts DEF Stage
  <2>3. ~Going(n, i) /\ ~Coming(n, i)
    <3>1. Stream(n) = <<>>
      BY <2>1 DEF Stream, Pipe
    <3> QED
      BY <3>1, Empty DEF Going, Coming
  <2>4. ~New(n, i) /\ ~Dropping(n, i) /\ ~Creating(n, i)
    BY <2>1 DEF New, Dropping, Drop1, Creating
  <2>5. (i \in At(where, n) => i \in known[n]) /\ ("overflow" \notin faults /\ i \in known[n] => i \in At(where, n))
    BY <2>2, <2>4 DEF Links
  <2>6. /\ db[n][i] # Nobody => i \in known[n]
        /\ i \in known[n] /\ MovedFrom(n, i) = {} => db[n][i] # Nobody
    BY <2>2, <2>3, <2>4 DEF Chain
  <2> QED
    BY <2>5, <2>6
<1>4. HandlesInDatabase
  <2> SUFFICES ASSUME NEW d \in Devs, pc = "test", Usable(d)
               PROVE  db[handle[d][1]][handle[d][2]] = d
    BY DEF HandlesInDatabase
  <2> QED
    BY <1>1, TestFacts, UsablePlace
<1> QED
  BY <1>2, <1>3, <1>4 DEF ViewConsistent

\* The index of a command is in hand, so it is settled on the agent.
LEMMA CommandsOfInv == DeviceInv => CommandsMeetTheirDevice
<1> SUFFICES ASSUME DeviceInv, NEW op \in {"set_dev_netns", "remap", "destroy"}, Commanded(op)
             PROVE  \E x \in Met : "timeout" \notin faults => x = call.d
  BY DEF CommandsMeetTheirDevice
<1>1. /\ call.op = op /\ call.at = "sent" /\ call.ns \in Spaces /\ call.idx \in Indices /\ call.d \in Devs
      /\ pc = "test"
  BY DEF Commanded, DeviceInv, Types, CallOps
<1>2. InHand /\ TrueHandles
  BY <1>1, TestFacts
<1>3. Met # {}
  <2>1. Taken(call.ns, call.idx)
    BY <1>1 DEF Taken
  <2>2. Settled(call.ns, call.idx)
    BY <1>1, <1>2, <2>1 DEF InHand
  <2> QED
    BY <2>2 DEF Settled, At, Met
<1>4. "timeout" \notin faults => call.d \in Met
  BY <1>1, <1>2 DEF TrueHandles, Met
<1> QED
  BY <1>3, <1>4

(***************************************************************************)
(* For any devices, namespaces, numbers of indices, operations and runs,   *)
(* and any of the faults: the invariant DeviceInv holds.                   *)
(***************************************************************************)
THEOREM DevicesInvariant == Spec => []DeviceInv
<1>1. Init => DeviceInv
  BY InitInv
<1> QED
  BY <1>1, NextInv, PTL DEF Spec

(***************************************************************************)
(* The device database, the handles of the tester and the machine agree    *)
(* whenever nothing is under way (Machine.device_created, device_delete,   *)
(* device_netns_change and InterfaceManager's handling of netlink).        *)
(***************************************************************************)
THEOREM ViewsConsistent == Spec => []ViewConsistent
BY DevicesInvariant, ViewsOfInv, PTL

(***************************************************************************)
(* A command for a device meets one on its agent, and, if no wait times    *)
(* out, the one that is meant: deviceref_to_device never fails.            *)
(***************************************************************************)
THEOREM CommandsMeetDevices == Spec => []CommandsMeetTheirDevice
BY DevicesInvariant, CommandsOfInv, PTL

(***************************************************************************)
(* The KeyError and the MachineError of the controller's event handlers    *)
(* come from the events of an earlier run, or of a move that timed out.    *)
(***************************************************************************)
THEOREM StaleEventsFail == Spec => []OnlyStaleEventsFail
<1>1. DeviceInv => OnlyStaleEventsFail
  BY DEF DeviceInv
<1> QED
  BY <1>1, DevicesInvariant, PTL
=============================================================================

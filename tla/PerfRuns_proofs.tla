--------------------------- MODULE PerfRuns_proofs ---------------------------
(***************************************************************************)
(* For any number of configurations, iterations and faults: the results    *)
(* collected are those of the iteration's own jobs, a test leaves nothing  *)
(* running and no tweak in place unless a call raised, and a client runs   *)
(* only while its server and the monitors do.                              *)
(*                                                                         *)
(* First the jobs and the finish of each kind of measurement, then the     *)
(* measurements of a configuration, then the steps, each of which keeps    *)
(* the invariant PInv.                                                     *)
(***************************************************************************)
EXTENDS PerfRuns, FiniteSetTheorems, SequenceTheorems, TLAPS
Flow == Len(Kinds)
AllKinds == FlowKinds \union {"StatCPU", "LinuxPerf"}
Roles == Monitors \union {"server", "client"}
JobSet == [conf : Nat, iter : Nat, of : AllKinds, role : Roles, n : {1, 2}]
Ops   == {"apply", "remove", "start", "int", "wait", "reap", "kill"}
Hows  == {"running", "told", "hung", "killing", "silent", "gone", "passed", "bare",
           "failed", "killed"}
Steps == [op : Ops, job : JobSet \union Hosts]
Places == {"apply", "iteration", "start", "finish", "finishing", "finally", "collect",
           "remove", "report", "aborted"}

IsPerf(k)  == Kinds[k] = "LinuxPerf"
IsRDMA(k)  == Kinds[k] = "RDMA"
Current(j) == j.conf = conf /\ j.iter = iter
Rs(k)      == ToSet(Test(k))

\* the types, and when a measurement is at hand
Typed ==
  /\ setup \in [kind : FlowKinds, type : {"tcp", "udp", "sctp"}, perf : BOOLEAN, simulate : BOOLEAN]
  /\ conf \in Nat /\ iter \in Nat /\ conf > 0
  /\ at \in Places /\ m \in 0 .. Flow /\ todo \in Seq(Steps)
  /\ DOMAIN status \subseteq JobSet /\ status \in [DOMAIN status -> Hows]
  /\ running \in [Ms -> Seq(JobSet)] /\ finished \in [Ms -> Seq(JobSet)] /\ used \in [Ms -> Seq(JobSet)]
  /\ shared \in Seq(JobSet) /\ own \in BOOLEAN
  /\ verdict \in [Ms -> BOOLEAN] /\ clean \in [Ms -> BOOLEAN]
  /\ faults \in Nat
  /\ at \in {"finish", "finishing", "finally", "collect"} => m > 0
  /\ at = "start" /\ m = 0 => todo = <<>>
  /\ at \in {"iteration", "finishing", "collect", "report", "aborted"} => todo = <<>>
  /\ at \in {"start", "finish", "finishing", "collect"} => iter > 0
  /\ at = "apply" => iter = 0
  /\ at \in {"apply", "iteration", "start", "finish", "finishing", "collect", "report"} => raised = {}
  /\ at = "finally" => \E r \in raised : r.in = "finish" /\ r.m = m

\* The jobs known, and those in perf's list, are of this iteration or earlier ones.
Dated(j) == j.conf < conf \/ (j.conf = conf /\ j.iter <= iter)
Past ==
  /\ \A j \in DOMAIN status : Dated(j)
  /\ \A i \in DOMAIN shared : Dated(shared[i]) /\ shared[i].of = "LinuxPerf"
  /\ \A k \in Ms : IsPerf(k) => \A i \in DOMAIN running[k] : running[k][i].of = "LinuxPerf"

-----------------------------------------------------------------------------
\* While start is at measurement m, the jobs of its test up to Done are
\* started, and the calls of the others are left.
Done == Len(Test(m)) - Len(todo)
Starting ==
  /\ at = "start" /\ m > 0 =>
       /\ Len(todo) <= Len(Test(m))
       /\ \A x \in DOMAIN todo : todo[x].op = "start" /\ todo[x].job = Test(m)[Done + x]
       /\ \A y \in DOMAIN Test(m) : y <= Done <=> Known(Test(m)[y])
  /\ at = "start" =>
       /\ \A k \in Ms : k < m => \A j \in Rs(k) : Known(j)
       /\ \A j \in DOMAIN status : Current(j) =>
            status[j] \in {"running", "passed", "failed"} /\ \E k \in Ms : k <= m /\ j \in Rs(k)
  /\ at \in {"finish", "finishing", "collect"} => \A k \in Ms : \A j \in Rs(k) : Known(j)

-----------------------------------------------------------------------------
\* The lists, before start, between start and finish, and after it.  The first
\* list of perf may hold jobs of an earlier configuration.
Stale == iter = 1 /\ conf > 1

Ready(k, n) ==
  /\ IsRDMA(k) => running[k] = <<>>
  /\ IsPerf(k) => IF n = 1 THEN ~own /\ (conf = 1 => shared = <<>>)
                           ELSE own /\ running[k] = <<>>
Prefix(s, t, n) == Len(s) = n /\ \A i \in 1 .. n : s[i] = t[i]
Listing ==
  IF IsPerf(m) THEN /\ \A y \in 1 .. Done : Test(m)[y] \in ToSet(List(m))
                    /\ ~Stale => Prefix(List(m), Test(m), Done)
  ELSE IsRDMA(m) \/ todo = <<>> => running[m] = Test(m)
Listed(k) ==
  IF IsPerf(k) THEN Rs(k) \subseteq ToSet(List(k)) /\ (~Stale => List(k) = Test(k))
               ELSE running[k] = Test(k)
IsDone(k) ==
  /\ IF IsPerf(k) THEN /\ own /\ running[k] = <<>> /\ Len(finished[k]) > 1
                       /\ ~Stale => finished[k] = Test(k)
                  ELSE finished[k] = Test(k)

Lists ==
  /\ at = "apply"     => \A k \in Ms : Ready(k, 1)
  /\ at = "iteration" => \A k \in Ms : Ready(k, iter + 1)
  /\ at = "start"     => /\ \A k \in Ms : k > m => Ready(k, iter)
                         /\ m > 0 => Listing
                         /\ \A k \in Ms : k < m => Listed(k)
  /\ at = "finish"    => \A k \in Ms : IF k <= m THEN Listed(k) ELSE IsDone(k)
  /\ at = "finishing" => \A k \in Ms : IF k < m  THEN Listed(k) ELSE IsDone(k)
  /\ at = "collect"   => \A k \in Ms : IsDone(k) /\ (IsRDMA(k) /\ k < m => running[k] = <<>>)

\* Of the jobs that echo none is ever told to end; after finish they have passed.
LeadingIn(s, j) == \E i \in DOMAIN s : /\ s[i] = [op |-> "wait", job |-> j]
                                       /\ \A l \in 1 .. i : s[l].op = "wait"
Leading(j) == LeadingIn(todo, j)
Echoed ==
  /\ at \in {"start", "finish", "finishing", "collect"} =>
       \A j \in DOMAIN status : Current(j) /\ Echoes(j) => status[j] \in {"running", "passed"}
  /\ at \in {"finish", "finishing", "collect"} =>
       \A k \in Ms : IsSimulated(k) => \A j \in Rs(k) :
          How(j) = "passed" \/ (at = "finish" /\ k = m /\ Leading(j)) \/ (at # "collect" /\ k < m)

\* what succeeds whatever some job of it did
Lenient(k) == Kinds[k] \in {"TRex", "StatCPU"} \/ IsMadeUp(k)
Results ==
  /\ \A k \in Ms : used[k] # <<>> => used[k] = Test(k) \/ (IsPerf(k) /\ Stale)
  /\ \A k \in Ms : ~IsPerf(k) => verdict[k] = clean[k] \/ (Lenient(k) /\ verdict[k])

-----------------------------------------------------------------------------
\* a step after which a job of measurement k does not run
Ends(k, s) == s.op = IF IsSimulated(k) THEN "wait" ELSE IF IsPerf(k) THEN "reap" ELSE "kill"
WillEnd(k, j) == \E i \in DOMAIN todo : todo[i].job = j /\ Ends(k, todo[i])

MayRun(k, j) ==
  CASE at = "start"     -> k <= m
    [] at = "finish"    -> k < m \/ (k = m /\ WillEnd(k, j))
    [] at = "finishing" -> k < m
    [] at = "finally"   -> k < m \/ (k = m /\ (WillEnd(k, j) \/ IsPerf(k) \/ IsSimulated(k)))
    [] at \in {"remove", "aborted"} ->
         \E r \in raised : r.in \in {"start", "finish", "finally"} /\ MayStillRun(r, j)
    [] OTHER -> FALSE

Running ==
  \A j \in DOMAIN status : Runs(j) => \E k \in Ms : j \in Rs(k) /\ MayRun(k, j)

\* The calls of finish are about jobs of its test, or of perf's list.
FinishOps == {"int", "wait", "reap", "kill"}
OwnSteps == at \in {"finish", "finally"} =>
  \A i \in DOMAIN todo : /\ todo[i].job \in JobSet /\ todo[i].op \in FinishOps
                         /\ IF IsPerf(m) THEN todo[i].job.of = "LinuxPerf" ELSE todo[i].job \in Rs(m)

-----------------------------------------------------------------------------
\* While a client runs, finish waits.
Covered ==
  at = "finish" /\ m = Flow =>
    \A c \in DOMAIN status : c.role = "client" /\ status[c] = "running" =>
       /\ Leading(c)
       /\ \A j \in DOMAIN status : Current(j) => status[j] \in {"running", "passed", "failed", "hung"}

-----------------------------------------------------------------------------
\* The tweaks: hosts whose calls are left, and those that are changed.
Left == {todo[i].job : i \in DOMAIN todo}
Changed == IF setup.type = "tcp" THEN {}
           ELSE IF at = "apply" THEN Hosts \ Left
           ELSE IF at = "remove" THEN Left
           ELSE IF at \in {"report", "aborted"} THEN {} ELSE Hosts
OnTweaks == \E r \in raised : r.in \in {"apply", "remove"}
\* A host on which every command worked is what the calls so far make of it.
NotChanged(h) == [host |-> h, was |-> "original"]
LimitsOf(h) ==
  IF setup.type = "udp"
    THEN /\ h \in frag <=> h \in untweaked.frag \/ h \in Changed
         /\ at \notin {"report", "aborted"} /\ h \in Changed => (NotChanged(h) \in noted <=> h \notin untweaked.frag)
    ELSE h \in frag <=> h \in untweaked.frag
RulesOf(h) ==
  rules[h] = IF setup.type = "sctp" /\ h \in Changed THEN untweaked.rules[h] + 1 ELSE untweaked.rules[h]
AsMeant(h) == LimitsOf(h) /\ RulesOf(h)
Tweaks ==
  /\ frag \subseteq Hosts /\ rules \in [Hosts -> Nat]
  /\ untweaked.frag \subseteq Hosts /\ untweaked.rules \in [Hosts -> Nat]
  /\ at \in {"apply", "remove"} => /\ todo \in {<<>>} \union {<<[op |-> at, job |-> 2]>>} \union {<<[op |-> at, job |-> 1], [op |-> at, job |-> 2]>>}
                                   /\ setup.type = "tcp" => todo = <<>>
  /\ at = "apply" => \A h \in Left : NotChanged(h) \notin noted
  /\ OnTweaks \/ \A h \in Hosts : h \in unheard \/ AsMeant(h)

PInv == /\ Typed /\ Past /\ Starting /\ Lists /\ Echoed /\ Results /\ Running
        /\ OwnSteps /\ Covered /\ Tweaks

-----------------------------------------------------------------------------
(* What the measurements are made of *)

JobSpecs == [role : Roles, n : {1, 2}]

LEMMA JobsListed ==
  ASSUME NEW kind \in AllKinds
  PROVE  /\ Jobs(kind) \in Seq(JobSpecs) /\ Len(Jobs(kind)) \in 1 .. 4
         /\ kind = "LinuxPerf" => Len(Jobs(kind)) = 2
         /\ \A p, q \in DOMAIN Jobs(kind) : Jobs(kind)[p] = Jobs(kind)[q] => p = q
<1> USE DEF JobSpecs, Roles, Monitors, NthOf, Both, ServersThenClients
<1>1. CASE kind = "StatCPU"
  BY <1>1 DEF Jobs, StatCPUJobs
<1>2. CASE kind = "LinuxPerf"
  BY <1>2 DEF Jobs, LinuxPerfJobs
<1>3. CASE kind = "Iperf"
  BY <1>3 DEF Jobs, IperfJobs
<1>4. CASE kind = "Neper"
  BY <1>4 DEF Jobs, NeperJobs
<1>5. CASE kind = "RDMA"
  BY <1>5 DEF Jobs, RDMAJobs
<1>6. CASE kind = "TRex"
  BY <1>6 DEF Jobs, TRexJobs
<1>7. CASE kind = "TcRun"
  BY <1>7 DEF Jobs, TcRunJobs
<1>8. CASE kind = "XDPBench"
  BY <1>8 DEF Jobs, XDPBenchJobs
<1>9. CASE kind = "XDPRedirectCPU"
  BY <1>9 DEF Jobs, XDPRedirectCPUJobs
<1>10. CASE kind = "Forwarding"
  BY <1>10 DEF Jobs, ForwardingJobs
<1> QED  BY <1>1, <1>2, <1>3, <1>4, <1>5, <1>6, <1>7, <1>8, <1>9, <1>10 DEF AllKinds, FlowKinds

\* a client is started after its server and after every monitor
LEMMA ServersFirst ==
  ASSUME NEW kind \in AllKinds, NEW p \in DOMAIN Jobs(kind), NEW q \in DOMAIN Jobs(kind),
         Jobs(kind)[p].role = "client",
         \/ Jobs(kind)[q].role \in Monitors
         \/ Jobs(kind)[q].role = "server" /\ Jobs(kind)[q].n = Jobs(kind)[p].n
  PROVE  q < p
<1> USE DEF Monitors, NthOf, Both, ServersThenClients
<1>1. CASE kind = "StatCPU"
  BY <1>1 DEF Jobs, StatCPUJobs
<1>2. CASE kind = "LinuxPerf"
  BY <1>2 DEF Jobs, LinuxPerfJobs
<1>3. CASE kind = "Iperf"
  BY <1>3 DEF Jobs, IperfJobs
<1>4. CASE kind = "Neper"
  BY <1>4 DEF Jobs, NeperJobs
<1>5. CASE kind = "RDMA"
  BY <1>5 DEF Jobs, RDMAJobs
<1>6. CASE kind = "TRex"
  BY <1>6 DEF Jobs, TRexJobs
<1>7. CASE kind = "TcRun"
  BY <1>7 DEF Jobs, TcRunJobs
<1>8. CASE kind = "XDPBench"
  BY <1>8 DEF Jobs, XDPBenchJobs
<1>9. CASE kind = "XDPRedirectCPU"
  BY <1>9 DEF Jobs, XDPRedirectCPUJobs
<1>10. CASE kind = "Forwarding"
  BY <1>10 DEF Jobs, ForwardingJobs
<1> QED  BY <1>1, <1>2, <1>3, <1>4, <1>5, <1>6, <1>7, <1>8, <1>9, <1>10 DEF AllKinds, FlowKinds

\* only a flow has clients
LEMMA ClientsOfFlows ==
  ASSUME NEW kind \in {"StatCPU", "LinuxPerf"}, NEW p \in DOMAIN Jobs(kind)
  PROVE  Jobs(kind)[p].role \in Monitors
BY DEF Jobs, StatCPUJobs, LinuxPerfJobs, Both, NthOf, Monitors

LEMMA RolesOfKinds ==
  ASSUME NEW kind \in AllKinds, NEW p \in DOMAIN Jobs(kind)
  PROVE  /\ kind \in {"Iperf", "Neper", "RDMA", "TRex", "TcRun", "XDPBench", "XDPRedirectCPU"}
               => Jobs(kind)[p].role \in {"server", "client"}
         /\ kind = "TcRun" => Jobs(kind)[p].role = "client"
         /\ kind = "StatCPU" => Jobs(kind)[p].role = "cpu"
         /\ kind = "Forwarding" => Jobs(kind)[p].role \in {"server", "rx", "tx", "client"}
<1> USE DEF NthOf, Both, ServersThenClients
<1>1. CASE kind = "StatCPU"
  BY <1>1 DEF Jobs, StatCPUJobs
<1>3. CASE kind = "Iperf"
  BY <1>3 DEF Jobs, IperfJobs
<1>4. CASE kind = "Neper"
  BY <1>4 DEF Jobs, NeperJobs
<1>5. CASE kind = "RDMA"
  BY <1>5 DEF Jobs, RDMAJobs
<1>6. CASE kind = "TRex"
  BY <1>6 DEF Jobs, TRexJobs
<1>7. CASE kind = "TcRun"
  BY <1>7 DEF Jobs, TcRunJobs
<1>8. CASE kind = "XDPBench"
  BY <1>8 DEF Jobs, XDPBenchJobs
<1>9. CASE kind = "XDPRedirectCPU"
  BY <1>9 DEF Jobs, XDPRedirectCPUJobs
<1>10. CASE kind = "Forwarding"
  BY <1>10 DEF Jobs, ForwardingJobs
<1> QED  BY <1>1, <1>3, <1>4, <1>5, <1>6, <1>7, <1>8, <1>9, <1>10

-----------------------------------------------------------------------------
(* Sequences of steps *)

WaitFor(j) == [op |-> "wait", job |-> j]

LEMMA Joined ==
  ASSUME NEW S, NEW a \in Seq(S), NEW b \in Seq(S)
  PROVE  /\ a \o b \in Seq(S) /\ ToSet(a \o b) = ToSet(a) \union ToSet(b)
         /\ Len(a \o b) = Len(a) + Len(b)
         /\ \A i \in 1 .. Len(a) : (a \o b)[i] = a[i]
<1>1. /\ a \o b \in Seq(S) /\ Len(a \o b) = Len(a) + Len(b)
      /\ \A i \in 1 .. Len(a) + Len(b) :
           (a \o b)[i] = IF i <= Len(a) THEN a[i] ELSE b[i - Len(a)]
  BY ConcatProperties
<1>2. ToSet(a \o b) \subseteq ToSet(a) \union ToSet(b)
  BY <1>1 DEF ToSet
<1>3. ToSet(a) \subseteq ToSet(a \o b)
  BY <1>1 DEF ToSet
<1>4. ASSUME NEW i \in DOMAIN b
      PROVE  b[i] \in ToSet(a \o b)
  <2>1. i + Len(a) \in 1 .. Len(a) + Len(b) /\ (i + Len(a)) - Len(a) = i /\ ~(i + Len(a) <= Len(a))
    BY <1>4
  <2>2. i + Len(a) \in DOMAIN (a \o b) /\ (a \o b)[i + Len(a)] = b[i]
    BY <1>1, <2>1
  <2> QED  BY <2>2 DEF ToSet
<1>5. ToSet(b) \subseteq ToSet(a \o b)
  BY <1>4 DEF ToSet
<1>6. ToSet(a \o b) = ToSet(a) \union ToSet(b)
  BY ONLY <1>2, <1>3, <1>5
<1>7. \A i \in 1 .. Len(a) : (a \o b)[i] = a[i]
  BY <1>1
<1> QED  BY ONLY <1>1, <1>6, <1>7

LEMMA DoFacts ==
  ASSUME NEW op \in Ops, NEW t \in Seq(JobSet)
  PROVE  /\ Do(op, t) \in Seq(Steps) /\ Len(Do(op, t)) = Len(t)
         /\ \A i \in DOMAIN t : Do(op, t)[i] = [op |-> op, job |-> t[i]]
         /\ ToSet(Do(op, t)) = {[op |-> op, job |-> j] : j \in ToSet(t)}
<1>1. DOMAIN t = 1 .. Len(t) /\ Len(t) \in Nat /\ \A i \in 1 .. Len(t) : t[i] \in JobSet
  OBVIOUS
<1>2. \A i \in 1 .. Len(t) : [op |-> op, job |-> t[i]] \in Steps
  BY <1>1 DEF Steps
<1>3. Do(op, t) = [i \in 1 .. Len(t) |-> [op |-> op, job |-> t[i]]]
  BY <1>1 DEF Do
<1>4. Do(op, t) \in Seq(Steps) /\ Len(Do(op, t)) = Len(t)
  BY <1>1, <1>2, <1>3
<1> QED  BY <1>1, <1>3, <1>4 DEF ToSet

\* In a test, a job is known by its role and flow.
IsTest(test) == /\ test \in Seq(JobSet)
                /\ \A a, b \in ToSet(test) : a.role = b.role /\ a.n = b.n => a = b

LEMMA InTest ==
  ASSUME NEW test, IsTest(test)
  PROVE  ToSet(test) \subseteq JobSet
BY DEF IsTest, ToSet

LEMMA OfFacts ==
  ASSUME NEW test, IsTest(test), NEW role, NEW n
  PROVE  /\ Of(test, role, n) \in Seq(JobSet)
         /\ ToSet(Of(test, role, n)) = {j \in ToSet(test) : j.role = role /\ j.n = n}
<1>1. ToSet(test) \subseteq JobSet
  BY DEF IsTest, ToSet
<1>2. CASE \E j \in ToSet(test) : Is(j, role, n)
  <2> DEFINE j == CHOOSE j \in ToSet(test) : Is(j, role, n)
  <2>1. j \in ToSet(test) /\ Is(j, role, n)
    BY <1>2
  <2>2. Of(test, role, n) = <<j>>
    BY <1>2 DEF Of
  <2>3. {x \in ToSet(test) : x.role = role /\ x.n = n} = {j}
    BY <2>1 DEF IsTest, Is
  <2> HIDE DEF j
  <2>4. ToSet(<<j>>) = {j} /\ <<j>> \in Seq(JobSet)
    BY <1>1, <2>1 DEF ToSet
  <2> QED  BY <2>2, <2>3, <2>4
<1>3. CASE ~\E j \in ToSet(test) : Is(j, role, n)
  <2>1. Of(test, role, n) = <<>> /\ ToSet(<<>>) = {} /\ <<>> \in Seq(JobSet)
    BY <1>3 DEF Of, ToSet
  <2> QED  BY <1>3, <2>1 DEF Is
<1> QED  BY <1>2, <1>3

\* the steps that do op for the jobs of test with a role
Marked(op, test, roles) == {[op |-> op, job |-> j] : j \in {j \in ToSet(test) : j.role \in roles}}

LEMMA AllFacts ==
  ASSUME NEW test, IsTest(test), NEW role, NEW op \in Ops
  PROVE  /\ Do(op, All(test, role)) \in Seq(Steps)
         /\ ToSet(Do(op, All(test, role))) = Marked(op, test, {role})
<1>1. /\ Of(test, role, 1) \in Seq(JobSet) /\ Of(test, role, 2) \in Seq(JobSet)
      /\ ToSet(Of(test, role, 1)) = {j \in ToSet(test) : j.role = role /\ j.n = 1}
      /\ ToSet(Of(test, role, 2)) = {j \in ToSet(test) : j.role = role /\ j.n = 2}
  BY OfFacts
<1>2. /\ All(test, role) \in Seq(JobSet)
      /\ ToSet(All(test, role)) = {j \in ToSet(test) : j.role = role /\ j.n = 1}
                                    \union {j \in ToSet(test) : j.role = role /\ j.n = 2}
  BY <1>1, Joined DEF All
<1>3. \A j \in ToSet(test) : j.n \in {1, 2}
  BY InTest DEF JobSet
<1>4. ToSet(All(test, role)) = {j \in ToSet(test) : j.role \in {role}}
  BY <1>2, <1>3
<1> QED  BY <1>2, <1>4, DoFacts DEF Marked

LEMMA FlowFacts ==
  ASSUME NEW test, IsTest(test), NEW op \in Ops, NEW first, NEW second
  PROVE  LET Per(n) == Do(op, Of(test, first, n)) \o Do(op, Of(test, second, n))
         IN  /\ Per(1) \o Per(2) \in Seq(Steps)
             /\ ToSet(Per(1) \o Per(2)) = Marked(op, test, {first, second})
<1> DEFINE Half(role, n) == {[op |-> op, job |-> j] : j \in {j \in ToSet(test) : j.role = role /\ j.n = n}}
           Pair(n) == Do(op, Of(test, first, n)) \o Do(op, Of(test, second, n))
<1>1. ASSUME NEW role, NEW n
      PROVE  /\ Do(op, Of(test, role, n)) \in Seq(Steps)
             /\ ToSet(Do(op, Of(test, role, n))) = Half(role, n)
  BY OfFacts, DoFacts
<1>2. ASSUME NEW n
      PROVE  Pair(n) \in Seq(Steps) /\ ToSet(Pair(n)) = Half(first, n) \union Half(second, n)
  BY <1>1, Joined
<1>3. \A j \in ToSet(test) : j.n \in {1, 2}
  BY InTest DEF JobSet
<1>4. (Half(first, 1) \union Half(second, 1)) \union (Half(first, 2) \union Half(second, 2))
        = Marked(op, test, {first, second})
  BY <1>3 DEF Marked
<1> HIDE DEF Pair, Half
<1>5. /\ Pair(1) \o Pair(2) \in Seq(Steps)
      /\ ToSet(Pair(1) \o Pair(2)) = (Half(first, 1) \union Half(second, 1)) \union (Half(first, 2) \union Half(second, 2))
  BY <1>2, Joined
<1> QED  BY ONLY <1>4, <1>5 DEF Pair

\* Waits that come first.
Waits(s) == \A x \in ToSet(s) : x.op = "wait"

LEMMA LeadingAmong ==
  ASSUME NEW a \in Seq(Steps), Waits(a), NEW j, WaitFor(j) \in ToSet(a)
  PROVE  LeadingIn(a, j)
<1>1. PICK i \in DOMAIN a : a[i] = WaitFor(j)
  BY DEF ToSet
<1>2. i \in 1 .. Len(a) /\ DOMAIN a = 1 .. Len(a)
  OBVIOUS
<1>3. \A l \in 1 .. i : l \in DOMAIN a
  BY <1>2
<1>4. \A l \in 1 .. i : a[l].op = "wait"
  BY <1>3 DEF Waits, ToSet
<1> QED  BY <1>1, <1>4 DEF LeadingIn, WaitFor

LEMMA LeadingOnward ==
  ASSUME NEW a \in Seq(Steps), NEW b \in Seq(Steps), NEW j, LeadingIn(a, j)
  PROVE  LeadingIn(a \o b, j)
<1>1. PICK i \in DOMAIN a : a[i] = [op |-> "wait", job |-> j] /\ \A l \in 1 .. i : a[l].op = "wait"
  BY DEF LeadingIn
<1>2. /\ a \o b \in Seq(Steps) /\ Len(a \o b) = Len(a) + Len(b)
      /\ \A l \in 1 .. Len(a) : (a \o b)[l] = a[l]
  BY Joined
<1>3. i \in 1 .. Len(a) /\ i \in 1 .. Len(a \o b)
  BY <1>2
<1>4. i \in DOMAIN (a \o b)
  BY <1>2, <1>3
<1>5. \A l \in 1 .. i : (a \o b)[l] = a[l]
  BY <1>2, <1>3
<1> QED  BY ONLY <1>1, <1>2, <1>3, <1>4, <1>5 DEF LeadingIn

LEMMA MarkedWaits ==
  ASSUME NEW test, NEW roles, NEW a \in Seq(Steps), ToSet(a) = Marked("wait", test, roles)
  PROVE  Waits(a) /\ \A j \in ToSet(test) : j.role \in roles => LeadingIn(a, j)
<1>1. Waits(a)
  BY DEF Waits, Marked
<1>2. \A j \in ToSet(test) : j.role \in roles => WaitFor(j) \in ToSet(a)
  BY DEF Marked, WaitFor
<1> QED  BY <1>1, <1>2, LeadingAmong

\* the test of a kind
TestOf(test, kind) ==
  /\ IsTest(test)
  /\ \A j \in ToSet(test) : j.of = kind /\ \E p \in DOMAIN Jobs(kind) : j.role = Jobs(kind)[p].role

About(s, test) == s \in Seq(Steps) /\ \A x \in ToSet(s) : x.job \in ToSet(test) /\ x.op \in FinishOps

LEMMA AboutMarked ==
  ASSUME NEW test, NEW roles, NEW op \in FinishOps, NEW s \in Seq(Steps), ToSet(s) = Marked(op, test, roles)
  PROVE  About(s, test)
BY DEF About, Marked

LEMMA AboutJoined ==
  ASSUME NEW test, NEW a, NEW b, About(a, test), About(b, test)
  PROVE  About(a \o b, test)
BY Joined DEF About

LEMMA AboutDo ==
  ASSUME NEW test \in Seq(JobSet), NEW op \in FinishOps
  PROVE  About(Do(op, test), test)
BY DoFacts DEF About, FinishOps, Ops

LEMMA WaitForFlowsFacts ==
  ASSUME NEW test, IsTest(test)
  PROVE  /\ WaitForFlows(test) \in Seq(Steps)
         /\ ToSet(WaitForFlows(test)) = Marked("wait", test, {"client", "server"})
BY FlowFacts DEF WaitForFlows, WaitForFlow, Ops

LEMMA KillFlowsFacts ==
  ASSUME NEW test, IsTest(test), NEW first, NEW second
  PROVE  /\ KillFlows(test, first, second) \in Seq(Steps)
         /\ ToSet(KillFlows(test, first, second)) = Marked("kill", test, {first, second})
BY FlowFacts DEF KillFlows, KillFlow, Ops

LEMMA DoWait ==
  ASSUME NEW test, IsTest(test), NEW op \in FinishOps, NEW role
  PROVE  /\ Do(op, All(test, role)) \in Seq(Steps)
         /\ ToSet(Do(op, All(test, role))) = Marked(op, test, {role})
BY AllFacts DEF FinishOps, Ops

LEMMA KillsLast ==
  ASSUME NEW test, NEW a \in Seq(Steps), NEW b \in Seq(Steps),
         ToSet(b) = {[op |-> "kill", job |-> j] : j \in ToSet(test)}
  PROVE  \A j \in ToSet(test) : [op |-> "kill", job |-> j] \in ToSet(a \o b)
<1>1. ToSet(a \o b) = ToSet(a) \union ToSet(b)
  BY Joined
<1> QED  BY ONLY <1>1, ToSet(b) = {[op |-> "kill", job |-> j] : j \in ToSet(test)}

(***************************************************************************)
(* What finish does for any kind: it kills every job in the end, and first *)
(* waits for every client; for kinds without a simulation of their own it  *)
(* waits for every job before it kills one.                                *)
(***************************************************************************)
Thorough(s, test, kind) ==
  /\ About(s, test)
  /\ \A j \in ToSet(test) : [op |-> "kill", job |-> j] \in ToSet(s)
  /\ \A j \in ToSet(test) : j.role = "client" => LeadingIn(s, j)
  /\ kind \in {"RDMA", "TcRun"} => \A j \in ToSet(test) : LeadingIn(s, j)

LEMMA RolesInTest ==
  ASSUME NEW kind \in AllKinds, NEW test, TestOf(test, kind)
  PROVE  /\ kind \in {"Iperf", "Neper", "RDMA", "TRex", "TcRun", "XDPBench", "XDPRedirectCPU"}
               => \A j \in ToSet(test) : j.role \in {"server", "client"}
         /\ kind = "TcRun" => \A j \in ToSet(test) : j.role = "client"
         /\ kind = "StatCPU" => \A j \in ToSet(test) : j.role = "cpu"
         /\ kind = "Forwarding" => \A j \in ToSet(test) : j.role \in {"server", "rx", "tx", "client"}
<1>1. ASSUME NEW j \in ToSet(test)
      PROVE  \E p \in DOMAIN Jobs(kind) : j.role = Jobs(kind)[p].role
  BY DEF TestOf
<1> QED  BY <1>1, RolesOfKinds

LEMMA WaitThenKill ==
  ASSUME NEW test, NEW kind, TestOf(test, kind), NEW first, NEW second, {first, second} = {"client", "server"},
         kind \in {"Iperf", "Neper", "RDMA", "XDPBench", "XDPRedirectCPU"}
  PROVE  Thorough(WaitForFlows(test) \o KillFlows(test, first, second), test, kind)
<1> DEFINE W == WaitForFlows(test)
           K == KillFlows(test, first, second)
<1>1. /\ W \in Seq(Steps) /\ ToSet(W) = Marked("wait", test, {"client", "server"})
      /\ K \in Seq(Steps) /\ ToSet(K) = Marked("kill", test, {"client", "server"})
  <2>1. IsTest(test)
    BY DEF TestOf
  <2>2. W \in Seq(Steps) /\ ToSet(W) = Marked("wait", test, {"client", "server"})
    BY <2>1, WaitForFlowsFacts
  <2>3. K \in Seq(Steps) /\ ToSet(K) = Marked("kill", test, {first, second})
    BY <2>1, KillFlowsFacts
  <2> QED  BY ONLY <2>2, <2>3, {first, second} = {"client", "server"}
<1> HIDE DEF W, K
<1>2. \A j \in ToSet(test) : j.role \in {"client", "server"}
  <2>1. kind \in AllKinds
    BY DEF AllKinds, FlowKinds
  <2> QED  BY <2>1, RolesInTest
<1>3. About(W, test) /\ About(K, test)
  BY <1>1, AboutMarked DEF FinishOps
<1>4. About(W \o K, test)
  BY <1>3, AboutJoined
<1>5. \A j \in ToSet(test) : [op |-> "kill", job |-> j] \in ToSet(W \o K)
  BY <1>1, <1>2, Joined DEF Marked
<1>6. \A j \in ToSet(test) : LeadingIn(W, j)
  BY <1>1, <1>2, MarkedWaits
<1>7. \A j \in ToSet(test) : LeadingIn(W \o K, j)
  BY <1>1, <1>6, LeadingOnward
<1> QED  BY <1>4, <1>5, <1>7 DEF Thorough, W, K

LEMMA TRexFinishes ==
  ASSUME NEW test, TestOf(test, "TRex")
  PROVE  Thorough(TRexFinish(test), test, "TRex")
<1> DEFINE W == Do("wait", All(test, "client"))
           I == Do("int", All(test, "server"))
           S == Do("wait", All(test, "server"))
           K == Do("kill", test)
<1>1. /\ IsTest(test) /\ test \in Seq(JobSet)
      /\ \A j \in ToSet(test) : j.role \in {"client", "server"}
  <2>1. "TRex" \in AllKinds
    BY DEF AllKinds, FlowKinds
  <2>2. \A j \in ToSet(test) : j.role \in {"client", "server"}
    BY <2>1, RolesInTest
  <2> QED  BY <2>2 DEF TestOf, IsTest
<1>2. /\ W \in Seq(Steps) /\ ToSet(W) = Marked("wait", test, {"client"})
      /\ I \in Seq(Steps) /\ ToSet(I) = Marked("int", test, {"server"})
      /\ S \in Seq(Steps) /\ ToSet(S) = Marked("wait", test, {"server"})
  BY <1>1, DoWait DEF FinishOps
<1>3. /\ K \in Seq(Steps) /\ ToSet(K) = {[op |-> "kill", job |-> j] : j \in ToSet(test)}
      /\ About(K, test)
  BY <1>1, DoFacts, AboutDo DEF FinishOps, Ops
<1> HIDE DEF W, I, S, K
<1>4. About(W, test) /\ About(I, test) /\ About(S, test)
  BY <1>2, AboutMarked DEF FinishOps
<1>5. About(W \o I, test) /\ About((W \o I) \o S, test) /\ About(((W \o I) \o S) \o K, test)
  BY <1>3, <1>4, AboutJoined
<1>6. \A j \in ToSet(test) : [op |-> "kill", job |-> j] \in ToSet(((W \o I) \o S) \o K)
  <2>1. (W \o I) \o S \in Seq(Steps)
    BY <1>5 DEF About
  <2> QED  BY <1>3, <2>1, KillsLast
<1>7. \A j \in ToSet(test) : j.role = "client" => LeadingIn(W, j)
  BY <1>2, MarkedWaits
<1>8. \A j \in ToSet(test) : j.role = "client" => LeadingIn(W \o I, j)
  BY <1>2, <1>7, LeadingOnward
<1>9. \A j \in ToSet(test) : j.role = "client" => LeadingIn((W \o I) \o S, j)
  BY <1>2, <1>5, <1>8, LeadingOnward DEF About
<1>10. \A j \in ToSet(test) : j.role = "client" => LeadingIn(((W \o I) \o S) \o K, j)
  BY <1>3, <1>5, <1>9, LeadingOnward DEF About
<1> QED  BY <1>5, <1>6, <1>10 DEF Thorough, TRexFinish, W, I, S, K

LEMMA TcRunFinishes ==
  ASSUME NEW test, TestOf(test, "TcRun")
  PROVE  Thorough(TcRunFinish(test), test, "TcRun")
<1> DEFINE W == Do("wait", test)
           K == Do("kill", test)
<1>1. IsTest(test) /\ test \in Seq(JobSet)
  BY DEF TestOf, IsTest
<1>2. /\ W \in Seq(Steps) /\ ToSet(W) = {[op |-> "wait", job |-> j] : j \in ToSet(test)}
      /\ K \in Seq(Steps) /\ ToSet(K) = {[op |-> "kill", job |-> j] : j \in ToSet(test)}
      /\ About(K, test) /\ About(W, test)
  BY <1>1, DoFacts, AboutDo DEF FinishOps, Ops
<1> HIDE DEF W, K
<1>3. Waits(W) /\ \A j \in ToSet(test) : WaitFor(j) \in ToSet(W)
  BY <1>2 DEF Waits, WaitFor
<1>4. \A j \in ToSet(test) : LeadingIn(W, j)
  BY <1>2, <1>3, LeadingAmong
<1>5. \A j \in ToSet(test) : LeadingIn(W \o K, j)
  BY <1>2, <1>4, LeadingOnward
<1>6. About(W \o K, test) /\ \A j \in ToSet(test) : [op |-> "kill", job |-> j] \in ToSet(W \o K)
  BY <1>2, AboutJoined, KillsLast
<1> QED  BY <1>5, <1>6 DEF Thorough, TcRunFinish, W, K

LEMMA StatCPUFinishes ==
  ASSUME NEW test, TestOf(test, "StatCPU")
  PROVE  Thorough(StatCPUFinish(test), test, "StatCPU")
<1> DEFINE A == StopCPU(test, 1)
           B == StopCPU(test, 2)
           K == Do("kill", test)
<1>1. /\ IsTest(test) /\ test \in Seq(JobSet) /\ \A j \in ToSet(test) : j.role = "cpu"
  <2>1. "StatCPU" \in AllKinds
    BY DEF AllKinds
  <2>2. \A j \in ToSet(test) : j.role = "cpu"
    BY <2>1, RolesInTest
  <2> QED  BY <2>2 DEF TestOf, IsTest
<1>2. ASSUME NEW n, NEW op \in {"int", "wait"}
      PROVE  About(Do(op, Of(test, "cpu", n)), test)
  <2>1. /\ Of(test, "cpu", n) \in Seq(JobSet)
        /\ ToSet(Of(test, "cpu", n)) \subseteq ToSet(test)
    BY <1>1, OfFacts
  <2> QED  BY <2>1, DoFacts DEF About, FinishOps, Ops
<1>3. About(A, test) /\ About(B, test)
  BY <1>2, AboutJoined DEF StopCPU
<1>4. /\ K \in Seq(Steps) /\ ToSet(K) = {[op |-> "kill", job |-> j] : j \in ToSet(test)}
      /\ About(K, test)
  BY <1>1, DoFacts, AboutDo DEF FinishOps, Ops
<1> HIDE DEF A, B, K
<1>5. About(A \o B, test) /\ About((A \o B) \o K, test)
  BY <1>3, <1>4, AboutJoined
<1>6. \A j \in ToSet(test) : [op |-> "kill", job |-> j] \in ToSet((A \o B) \o K)
  <2>1. A \o B \in Seq(Steps)
    BY <1>5 DEF About
  <2> QED  BY <1>4, <2>1, KillsLast
<1>7. \A j \in ToSet(test) : j.role # "client"
  BY <1>1
<1> QED  BY <1>5, <1>6, <1>7 DEF Thorough, StatCPUFinish, A, B, K

LEMMA ForwardingFinishes ==
  ASSUME NEW test, TestOf(test, "Forwarding")
  PROVE  Thorough(ForwardingFinish(test), test, "Forwarding")
<1> DEFINE C == Do("wait", All(test, "client"))
           I == Do("int", All(test, "rx"))
           J == Do("wait", All(test, "rx"))
           M == Do("int", All(test, "tx"))
           N == Do("wait", All(test, "tx"))
           S == Do("wait", All(test, "server"))
           W == Do("kill", All(test, "client"))
           X == Do("kill", All(test, "rx"))
           Y == Do("kill", All(test, "tx"))
           Z == Do("kill", All(test, "server"))
<1>1. IsTest(test) /\ \A j \in ToSet(test) : j.role \in {"server", "rx", "tx", "client"}
  <2>1. "Forwarding" \in AllKinds
    BY DEF AllKinds, FlowKinds
  <2>2. \A j \in ToSet(test) : j.role \in {"server", "rx", "tx", "client"}
    BY <2>1, RolesInTest
  <2> QED  BY <2>2 DEF TestOf
<1>2. /\ C \in Seq(Steps) /\ ToSet(C) = Marked("wait", test, {"client"})
      /\ I \in Seq(Steps) /\ ToSet(I) = Marked("int", test, {"rx"})
      /\ J \in Seq(Steps) /\ ToSet(J) = Marked("wait", test, {"rx"})
      /\ M \in Seq(Steps) /\ ToSet(M) = Marked("int", test, {"tx"})
      /\ N \in Seq(Steps) /\ ToSet(N) = Marked("wait", test, {"tx"})
      /\ S \in Seq(Steps) /\ ToSet(S) = Marked("wait", test, {"server"})
      /\ W \in Seq(Steps) /\ ToSet(W) = Marked("kill", test, {"client"})
      /\ X \in Seq(Steps) /\ ToSet(X) = Marked("kill", test, {"rx"})
      /\ Y \in Seq(Steps) /\ ToSet(Y) = Marked("kill", test, {"tx"})
      /\ Z \in Seq(Steps) /\ ToSet(Z) = Marked("kill", test, {"server"})
  BY <1>1, DoWait DEF FinishOps
<1>3. ForwardingFinish(test) = ((((((((C \o I) \o J) \o M) \o N) \o S) \o W) \o X) \o Y) \o Z
  BY DEF ForwardingFinish
<1> HIDE DEF C, I, J, M, N, S, W, X, Y, Z
<1>4. /\ About(C, test) /\ About(I, test) /\ About(J, test) /\ About(M, test) /\ About(N, test)
      /\ About(S, test) /\ About(W, test) /\ About(X, test) /\ About(Y, test) /\ About(Z, test)
  BY <1>2, AboutMarked DEF FinishOps
<1> DEFINE C1 == C \o I
           C2 == C1 \o J
           C3 == C2 \o M
           C4 == C3 \o N
           C5 == C4 \o S
           C6 == C5 \o W
           C7 == C6 \o X
           C8 == C7 \o Y
           C9 == C8 \o Z
<1>5. /\ About(C1, test) /\ About(C2, test) /\ About(C3, test) /\ About(C4, test) /\ About(C5, test)
      /\ About(C6, test) /\ About(C7, test) /\ About(C8, test) /\ About(C9, test)
  BY <1>4, AboutJoined
<1>6. /\ C1 \in Seq(Steps) /\ C2 \in Seq(Steps) /\ C3 \in Seq(Steps) /\ C4 \in Seq(Steps)
      /\ C5 \in Seq(Steps) /\ C6 \in Seq(Steps) /\ C7 \in Seq(Steps) /\ C8 \in Seq(Steps)
  BY <1>5 DEF About
<1> HIDE DEF C1, C2, C3, C4, C5, C6, C7, C8, C9
<1>7. /\ ToSet(C6) = ToSet(C5) \union ToSet(W) /\ ToSet(C7) = ToSet(C6) \union ToSet(X)
      /\ ToSet(C8) = ToSet(C7) \union ToSet(Y) /\ ToSet(C9) = ToSet(C8) \union ToSet(Z)
  <2>1. ToSet(C6) = ToSet(C5) \union ToSet(W)
    BY <1>2, <1>6, Joined DEF C6
  <2>2. ToSet(C7) = ToSet(C6) \union ToSet(X)
    BY <1>2, <1>6, Joined DEF C7
  <2>3. ToSet(C8) = ToSet(C7) \union ToSet(Y)
    BY <1>2, <1>6, Joined DEF C8
  <2>4. ToSet(C9) = ToSet(C8) \union ToSet(Z)
    BY <1>2, <1>6, Joined DEF C9
  <2> QED  BY <2>1, <2>2, <2>3, <2>4
<1>8. ASSUME NEW j \in ToSet(test), j.role = "client"
      PROVE  LeadingIn(C9, j)
  <2>1. LeadingIn(C, j)
    BY <1>2, <1>8, MarkedWaits
  <2>2. LeadingIn(C1, j)
    BY <1>2, <2>1, LeadingOnward DEF C1
  <2>3. LeadingIn(C2, j)
    BY <1>2, <1>6, <2>2, LeadingOnward DEF C2
  <2>4. LeadingIn(C3, j)
    BY <1>2, <1>6, <2>3, LeadingOnward DEF C3
  <2>5. LeadingIn(C4, j)
    BY <1>2, <1>6, <2>4, LeadingOnward DEF C4
  <2>6. LeadingIn(C5, j)
    BY <1>2, <1>6, <2>5, LeadingOnward DEF C5
  <2>7. LeadingIn(C6, j)
    BY <1>2, <1>6, <2>6, LeadingOnward DEF C6
  <2>8. LeadingIn(C7, j)
    BY <1>2, <1>6, <2>7, LeadingOnward DEF C7
  <2>9. LeadingIn(C8, j)
    BY <1>2, <1>6, <2>8, LeadingOnward DEF C8
  <2> QED  BY <1>2, <1>6, <2>9, LeadingOnward DEF C9
<1>9. \A j \in ToSet(test) : [op |-> "kill", job |-> j] \in ToSet(C9)
  BY <1>1, <1>2, <1>7 DEF Marked
<1>10. Thorough(C9, test, "Forwarding")
  BY <1>5, <1>8, <1>9 DEF Thorough
<1> QED  BY <1>3, <1>10 DEF C1, C2, C3, C4, C5, C6, C7, C8, C9

LEMMA FinishIsThorough ==
  ASSUME NEW kind \in AllKinds \ {"LinuxPerf"}, NEW test, TestOf(test, kind)
  PROVE  Thorough(Finish(kind, test), test, kind)
<1>1. CASE kind \in {"Iperf", "Neper", "XDPBench"}
  BY <1>1, WaitThenKill DEF Finish, IperfFinish, NeperFinish, XDPBenchFinish
<1>2. CASE kind \in {"RDMA", "XDPRedirectCPU"}
  BY <1>2, WaitThenKill DEF Finish, RDMAFinish, XDPRedirectCPUFinish
<1>3. CASE kind = "TRex"
  BY <1>3, TRexFinishes DEF Finish
<1>4. CASE kind = "TcRun"
  BY <1>4, TcRunFinishes DEF Finish
<1>5. CASE kind = "StatCPU"
  BY <1>5, StatCPUFinishes DEF Finish
<1>6. CASE kind = "Forwarding"
  BY <1>6, ForwardingFinishes DEF Finish
<1> QED  BY <1>1, <1>2, <1>3, <1>4, <1>5, <1>6 DEF AllKinds, FlowKinds

\* A simulated finish waits for every job before it does anything else with it.
LEMMA SimulationWaits ==
  ASSUME NEW kind \in Simulated, NEW test, TestOf(test, kind)
  PROVE  /\ About(SimulatedFinish(kind, test), test)
         /\ \A j \in ToSet(test) : LeadingIn(SimulatedFinish(kind, test), j)
<1>1. IsTest(test) /\ \A j \in ToSet(test) : j.role \in {"server", "client"}
  <2>1. /\ kind \in AllKinds
        /\ kind \in {"Iperf", "Neper", "RDMA", "TRex", "TcRun", "XDPBench", "XDPRedirectCPU"}
    BY DEF AllKinds, FlowKinds, Simulated
  <2>2. \A j \in ToSet(test) : j.role \in {"server", "client"}
    BY <2>1, RolesInTest
  <2> QED  BY <2>2 DEF TestOf
<1>2. CASE kind \in {"Iperf", "Neper", "TRex"}
  <2>1. SimulatedFinish(kind, test) = WaitForFlows(test)
    BY <1>2 DEF SimulatedFinish
  <2>2. /\ WaitForFlows(test) \in Seq(Steps)
        /\ ToSet(WaitForFlows(test)) = Marked("wait", test, {"client", "server"})
    BY <1>1, WaitForFlowsFacts
  <2>3. About(WaitForFlows(test), test)
    BY <2>2, AboutMarked DEF FinishOps
  <2> QED  BY <1>1, <2>1, <2>2, <2>3, MarkedWaits
<1>3. CASE kind = "XDPBench"
  <2>1. SimulatedFinish(kind, test) = XDPBenchSimulated(test)
    BY <1>3 DEF SimulatedFinish
  <2>2. /\ XDPBenchSimulated(test) \in Seq(Steps)
        /\ ToSet(XDPBenchSimulated(test)) = Marked("wait", test, {"server", "client"})
    BY <1>1, FlowFacts DEF XDPBenchSimulated, WaitForServer, Ops
  <2>3. About(XDPBenchSimulated(test), test)
    BY <2>2, AboutMarked DEF FinishOps
  <2> QED  BY <1>1, <2>1, <2>2, <2>3, MarkedWaits
<1>4. CASE kind \in {"RDMA", "TcRun"}
  <2>1. SimulatedFinish(kind, test) = Finish(kind, test)
    BY <1>4 DEF SimulatedFinish
  <2>2. Thorough(Finish(kind, test), test, kind)
    BY <1>4, FinishIsThorough DEF AllKinds, FlowKinds
  <2> QED  BY <1>4, <2>1, <2>2 DEF Thorough
<1> QED  BY <1>2, <1>3, <1>4 DEF Simulated

-----------------------------------------------------------------------------
(* The measurements of a configuration *)

Setup == /\ setup \in [kind : FlowKinds, type : {"tcp", "udp", "sctp"}, perf : BOOLEAN, simulate : BOOLEAN]

LEMMA TheKinds ==
  ASSUME Setup
  PROVE  /\ Flow \in {2, 3} /\ Ms = 1 .. Flow
         /\ \A k \in Ms : Kinds[k] \in AllKinds
         /\ Kinds[1] = "StatCPU" /\ Kinds[Flow] = setup.kind /\ setup.kind \in FlowKinds
         /\ \A k \in Ms : k # Flow => Kinds[k] \in {"StatCPU", "LinuxPerf"}
         /\ \A k \in Ms : IsPerf(k) => k = 2 /\ Flow = 3
         /\ \A k, l \in Ms : Kinds[k] = Kinds[l] => k = l
<1>1. setup.kind \in FlowKinds /\ setup.perf \in BOOLEAN
  BY DEF Setup
<1>2. setup.kind # "StatCPU" /\ setup.kind # "LinuxPerf"
  BY <1>1 DEF FlowKinds
<1>3. CASE setup.perf
  <2>1. Kinds = <<"StatCPU", "LinuxPerf", setup.kind>>
    BY <1>3 DEF Kinds
  <2>2. Flow = 3 /\ Ms = 1 .. 3
    BY <2>1 DEF Flow, Ms
  <2>3. Kinds[1] = "StatCPU" /\ Kinds[2] = "LinuxPerf" /\ Kinds[3] = setup.kind
    BY <2>1
  <2> QED  BY ONLY <1>1, <1>2, <2>2, <2>3 DEF IsPerf, AllKinds
<1>4. CASE ~setup.perf
  <2>1. Kinds = <<"StatCPU", setup.kind>>
    BY <1>4 DEF Kinds
  <2>2. Flow = 2 /\ Ms = 1 .. 2
    BY <2>1 DEF Flow, Ms
  <2>3. Kinds[1] = "StatCPU" /\ Kinds[2] = setup.kind
    BY <2>1
  <2> QED  BY ONLY <1>1, <1>2, <2>2, <2>3 DEF IsPerf, AllKinds
<1> QED  BY <1>1, <1>3, <1>4

LEMMA TheFlow ==
  ASSUME Setup, NEW k \in Ms
  PROVE  /\ IsRDMA(k) => k = Flow
         /\ IsSimulated(k) => k = Flow
         /\ Kinds[k] \in FlowKinds => k = Flow
         /\ IsPerf(k) => ~IsRDMA(k) /\ ~IsSimulated(k)
<1>1. k # Flow => Kinds[k] \in {"StatCPU", "LinuxPerf"}
  BY TheKinds
<1>2. Kinds[k] \in {"StatCPU", "LinuxPerf"} => Kinds[k] \notin FlowKinds /\ Kinds[k] \notin Simulated /\ Kinds[k] # "RDMA"
  BY DEF FlowKinds, Simulated
<1>3. IsSimulated(k) => Kinds[k] \in Simulated
  BY DEF IsSimulated
<1> QED  BY <1>1, <1>2, <1>3 DEF IsPerf, IsRDMA

LEMMA JobFacts ==
  ASSUME Setup, conf \in Nat, iter \in Nat, NEW k \in Ms, NEW s \in JobSpecs
  PROVE  /\ Job(k, s) \in JobSet /\ Current(Job(k, s)) /\ Job(k, s).of = Kinds[k]
         /\ Job(k, s).role = s.role /\ Job(k, s).n = s.n
BY TheKinds DEF Job, JobSet, Current, JobSpecs

LEMMA TestFacts ==
  ASSUME Setup, conf \in Nat, iter \in Nat, NEW k \in Ms
  PROVE  /\ Test(k) \in Seq(JobSet) /\ Len(Test(k)) \in 1 .. 4 /\ DOMAIN Test(k) = 1 .. Len(Test(k))
         /\ Len(Test(k)) = Len(Jobs(Kinds[k])) /\ DOMAIN Test(k) = DOMAIN Jobs(Kinds[k])
         /\ \A p \in DOMAIN Test(k) : /\ Test(k)[p] = Job(k, Jobs(Kinds[k])[p])
                                      /\ Jobs(Kinds[k])[p] \in JobSpecs
         /\ IsPerf(k) => Len(Test(k)) = 2
         /\ \A p, q \in DOMAIN Test(k) : Test(k)[p] = Test(k)[q] => p = q
<1> DEFINE J == Jobs(Kinds[k])
<1>1. Kinds[k] \in AllKinds
  BY TheKinds
<1>2. /\ J \in Seq(JobSpecs) /\ Len(J) \in 1 .. 4 /\ (IsPerf(k) => Len(J) = 2)
      /\ \A p, q \in DOMAIN J : J[p] = J[q] => p = q
  BY <1>1, JobsListed DEF IsPerf
<1>3. Test(k) = [i \in DOMAIN J |-> Job(k, J[i])]
  BY DEF Test
<1> HIDE DEF J
<1>4. DOMAIN J = 1 .. Len(J) /\ \A p \in DOMAIN J : J[p] \in JobSpecs
  BY <1>2
<1>5. \A p \in DOMAIN J : Job(k, J[p]) \in JobSet
  BY <1>4, JobFacts
<1>6. Test(k) \in Seq(JobSet) /\ Len(Test(k)) = Len(J) /\ DOMAIN Test(k) = 1 .. Len(J)
  BY <1>2, <1>3, <1>4, <1>5
<1>7. \A p, q \in DOMAIN J : Test(k)[p] = Test(k)[q] => p = q
  <2> SUFFICES ASSUME NEW p \in DOMAIN J, NEW q \in DOMAIN J, Job(k, J[p]) = Job(k, J[q])
               PROVE  p = q
    BY <1>3
  <2>1. J[p].role = J[q].role /\ J[p].n = J[q].n
    BY <1>4, JobFacts
  <2>2. J[p] = J[q]
    BY <1>4, <2>1 DEF JobSpecs
  <2> QED  BY <1>2, <2>2
<1>8. \A p \in DOMAIN J : Test(k)[p] = Job(k, J[p])
  BY <1>3
<1>9. DOMAIN Test(k) = DOMAIN J
  BY <1>3
<1> QED  BY ONLY <1>2, <1>4, <1>6, <1>7, <1>8, <1>9 DEF J

LEMMA InRs ==
  ASSUME Setup, conf \in Nat, iter \in Nat, NEW k \in Ms, NEW j \in Rs(k)
  PROVE  /\ j \in JobSet /\ Current(j) /\ j.of = Kinds[k]
         /\ \E p \in DOMAIN Jobs(Kinds[k]) : j.role = Jobs(Kinds[k])[p].role /\ j.n = Jobs(Kinds[k])[p].n
<1>1. PICK p \in DOMAIN Test(k) : j = Test(k)[p]
  BY DEF Rs, ToSet
<1>2. p \in DOMAIN Jobs(Kinds[k]) /\ j = Job(k, Jobs(Kinds[k])[p]) /\ Jobs(Kinds[k])[p] \in JobSpecs
  BY <1>1, TestFacts
<1> QED  BY <1>2, JobFacts

LEMMA TestOfTest ==
  ASSUME Setup, conf \in Nat, iter \in Nat, NEW k \in Ms
  PROVE  TestOf(Test(k), Kinds[k])
<1>1. Test(k) \in Seq(JobSet)
  BY TestFacts
<1>2. ASSUME NEW a \in Rs(k), NEW b \in Rs(k), a.role = b.role, a.n = b.n
      PROVE  a = b
  <2>1. /\ a \in JobSet /\ Current(a) /\ a.of = Kinds[k]
        /\ b \in JobSet /\ Current(b) /\ b.of = Kinds[k]
    BY InRs
  <2> QED  BY <1>2, <2>1 DEF JobSet, Current
<1>3. \A j \in Rs(k) : j.of = Kinds[k] /\ \E p \in DOMAIN Jobs(Kinds[k]) : j.role = Jobs(Kinds[k])[p].role
  BY InRs
<1> QED  BY ONLY <1>1, <1>2, <1>3 DEF TestOf, IsTest, Rs

\* A job is in the test of one measurement only.
LEMMA OneTest ==
  ASSUME Setup, conf \in Nat, iter \in Nat, NEW k \in Ms, NEW l \in Ms, NEW j \in Rs(k), j \in Rs(l)
  PROVE  k = l
<1>1. j.of = Kinds[k] /\ j.of = Kinds[l]
  BY InRs
<1> QED  BY <1>1, TheKinds

LEMMA ClientsOfTheFlow ==
  ASSUME Setup, conf \in Nat, iter \in Nat, NEW k \in Ms, NEW j \in Rs(k), j.role = "client"
  PROVE  k = Flow
<1>1. PICK p \in DOMAIN Jobs(Kinds[k]) : j.role = Jobs(Kinds[k])[p].role
  BY InRs
<1>2. CASE k # Flow
  <2>1. Kinds[k] \in {"StatCPU", "LinuxPerf"}
    BY <1>2, TheKinds
  <2>2. Jobs(Kinds[k])[p].role \in Monitors
    BY <2>1, ClientsOfFlows
  <2> QED  BY <1>1, <2>2 DEF Monitors
<1> QED  BY <1>2

\* The calls with which a measurement is finished, when its jobs are listed.
Covers(k, s) == \A j \in Rs(k) : \E i \in DOMAIN s : s[i].job = j /\ Ends(k, s[i])

OwnCall(k, x) == /\ x.job \in JobSet /\ x.op \in FinishOps
                 /\ IF IsPerf(k) THEN x.job.of = "LinuxPerf" ELSE x.job \in Rs(k)

LEMMA CoversBy ==
  ASSUME NEW k, NEW s, \A j \in Rs(k) : \E x \in ToSet(s) : x.job = j /\ Ends(k, x)
  PROVE  Covers(k, s)
BY DEF Covers, ToSet

LEMMA FinishOfPerf ==
  ASSUME Setup, conf \in Nat, iter \in Nat, NEW k \in Ms, IsPerf(k),
         List(k) \in Seq(JobSet), Rs(k) \subseteq ToSet(List(k)),
         \A i \in DOMAIN List(k) : List(k)[i].of = "LinuxPerf"
  PROVE  /\ FinishSteps(k) \in Seq(Steps) /\ \A x \in ToSet(FinishSteps(k)) : OwnCall(k, x)
         /\ Covers(k, FinishSteps(k))
<1> DEFINE L == List(k)
           A == Do("int", L)
           B == Do("reap", L)
<1>1. ~IsSimulated(k)
  BY TheFlow
<1>2. FinishSteps(k) = A \o B
  BY <1>1 DEF FinishSteps, Finish, LinuxPerfFinish, IsPerf
<1>3. /\ A \in Seq(Steps) /\ ToSet(A) = {[op |-> "int", job |-> j] : j \in ToSet(L)}
      /\ B \in Seq(Steps) /\ ToSet(B) = {[op |-> "reap", job |-> j] : j \in ToSet(L)}
  BY DoFacts DEF Ops
<1>4. \A j \in ToSet(L) : j \in JobSet /\ j.of = "LinuxPerf"
  BY DEF ToSet
<1> HIDE DEF L, A, B
<1>5. A \o B \in Seq(Steps) /\ ToSet(A \o B) = ToSet(A) \union ToSet(B)
  BY <1>3, Joined
<1>6. \A x \in ToSet(A \o B) : OwnCall(k, x)
  <2> SUFFICES ASSUME NEW x \in ToSet(A \o B)
               PROVE  OwnCall(k, x)
    OBVIOUS
  <2>1. x.job \in ToSet(L) /\ x.op \in {"int", "reap"}
    BY <1>3, <1>5
  <2> QED  BY <1>4, <2>1 DEF OwnCall, FinishOps
<1>7. \A j \in Rs(k) : j \in ToSet(L)
  BY DEF L
<1>8. \A j \in Rs(k) : \E x \in ToSet(A \o B) : x.job = j /\ Ends(k, x)
  <2> SUFFICES ASSUME NEW j \in Rs(k)
               PROVE  \E x \in ToSet(A \o B) : x.job = j /\ Ends(k, x)
    OBVIOUS
  <2>1. [op |-> "reap", job |-> j] \in ToSet(A \o B)
    BY <1>3, <1>5, <1>7
  <2>2. Ends(k, [op |-> "reap", job |-> j])
    BY <1>1 DEF Ends
  <2> QED  BY <2>1, <2>2
<1>9. Covers(k, A \o B)
  BY <1>8, CoversBy
<1> QED  BY <1>2, <1>5, <1>6, <1>9

LEMMA FinishOfOthers ==
  ASSUME Setup, conf \in Nat, iter \in Nat, NEW k \in Ms, ~IsPerf(k), List(k) = Test(k)
  PROVE  /\ FinishSteps(k) \in Seq(Steps) /\ \A x \in ToSet(FinishSteps(k)) : OwnCall(k, x)
         /\ Covers(k, FinishSteps(k))
         /\ \A j \in Rs(k) : j.role = "client" \/ IsSimulated(k) => LeadingIn(FinishSteps(k), j)
<1> DEFINE F == FinishSteps(k)
           T == Test(k)
<1>1. /\ TestOf(T, Kinds[k]) /\ T \in Seq(JobSet)
      /\ Kinds[k] \in AllKinds \ {"LinuxPerf"}
  BY TestOfTest, TestFacts, TheKinds DEF IsPerf
<1>2. ASSUME ~IsSimulated(k)
      PROVE  About(F, T) /\ Covers(k, F) /\ \A j \in Rs(k) : j.role = "client" \/ IsSimulated(k) => LeadingIn(F, j)
  <2>1. F = Finish(Kinds[k], T)
    BY <1>2 DEF FinishSteps
  <2>2. Thorough(F, T, Kinds[k])
    BY <1>1, <2>1, FinishIsThorough
  <2> HIDE DEF F
  <2>3. About(F, T) /\ \A j \in Rs(k) : [op |-> "kill", job |-> j] \in ToSet(F)
    BY <2>2 DEF Thorough, Rs
  <2>4. \A j \in Rs(k) : j.role = "client" => LeadingIn(F, j)
    BY <2>2 DEF Thorough, Rs
  <2>5. \A j \in Rs(k) : Ends(k, [op |-> "kill", job |-> j])
    BY <1>2 DEF Ends
  <2>6. \A j \in Rs(k) : \E x \in ToSet(F) : x.job = j /\ Ends(k, x)
    BY <2>3, <2>5
  <2>7. Covers(k, F)
    BY <2>6, CoversBy
  <2> QED  BY ONLY <1>2, <2>3, <2>4, <2>7
<1>3. ASSUME IsSimulated(k)
      PROVE  About(F, T) /\ Covers(k, F) /\ \A j \in Rs(k) : j.role = "client" \/ IsSimulated(k) => LeadingIn(F, j)
  <2>1. F = SimulatedFinish(Kinds[k], T)
    BY <1>3 DEF FinishSteps
  <2>2. Kinds[k] \in Simulated
    BY <1>3 DEF IsSimulated
  <2>3. About(F, T) /\ \A j \in ToSet(T) : LeadingIn(F, j)
    BY <1>1, <2>1, <2>2, SimulationWaits
  <2> HIDE DEF F
  <2>4. \A j \in Rs(k) : LeadingIn(F, j)
    BY <2>3 DEF Rs
  <2>5. \A j \in Rs(k) : Ends(k, [op |-> "wait", job |-> j])
    BY <1>3 DEF Ends
  <2>6. \A j \in Rs(k) : [op |-> "wait", job |-> j] \in ToSet(F)
    BY <2>4 DEF LeadingIn, ToSet
  <2>7. \A j \in Rs(k) : \E x \in ToSet(F) : x.job = j /\ Ends(k, x)
    BY <2>5, <2>6
  <2>8. Covers(k, F)
    BY <2>7, CoversBy
  <2> QED  BY ONLY <2>3, <2>4, <2>8
<1>4. About(F, T) /\ Covers(k, F) /\ \A j \in Rs(k) : j.role = "client" \/ IsSimulated(k) => LeadingIn(F, j)
  BY <1>2, <1>3
<1> HIDE DEF F, T
<1>5. \A x \in ToSet(F) : OwnCall(k, x)
  <2> SUFFICES ASSUME NEW x \in ToSet(F)
               PROVE  OwnCall(k, x)
    OBVIOUS
  <2>1. x.job \in ToSet(T) /\ x.op \in FinishOps
    BY <1>4 DEF About
  <2>2. x.job \in Rs(k) /\ x.job \in JobSet
    BY <2>1, InRs DEF Rs, T
  <2> QED  BY <2>1, <2>2 DEF OwnCall
<1> QED  BY <1>4, <1>5 DEF About, F

LEMMA FinishFacts ==
  ASSUME Setup, conf \in Nat, iter \in Nat, NEW k \in Ms, Listed(k), List(k) \in Seq(JobSet),
         IsPerf(k) => \A i \in DOMAIN List(k) : List(k)[i].of = "LinuxPerf"
  PROVE  /\ FinishSteps(k) \in Seq(Steps) /\ \A x \in ToSet(FinishSteps(k)) : OwnCall(k, x)
         /\ Covers(k, FinishSteps(k))
         /\ \A j \in Rs(k) : j.role = "client" \/ IsSimulated(k) => LeadingIn(FinishSteps(k), j)
<1>1. CASE IsPerf(k)
  <2>1. Rs(k) \subseteq ToSet(List(k))
    BY <1>1 DEF Listed
  <2>2. \A j \in Rs(k) : ~(j.role = "client" \/ IsSimulated(k))
    <3>1. ~IsSimulated(k) /\ k # Flow
      BY <1>1, TheFlow, TheKinds
    <3> QED  BY <3>1, ClientsOfTheFlow
  <2> QED  BY <1>1, <2>1, <2>2, FinishOfPerf
<1>2. CASE ~IsPerf(k)
  <2>1. List(k) = Test(k)
    BY <1>2 DEF List, Listed, IsPerf
  <2> QED  BY <1>2, <2>1, FinishOfOthers
<1> QED  BY <1>1, <1>2

-----------------------------------------------------------------------------
(* What a step leaves as it is *)

LEMMA SamePlan ==
  ASSUME UNCHANGED plan
  PROVE  /\ setup' = setup /\ conf' = conf /\ iter' = iter
         /\ Kinds' = Kinds /\ Flow' = Flow /\ Ms' = Ms
         /\ \A k : /\ Test(k)' = Test(k) /\ Rs(k)' = Rs(k)
                   /\ IsPerf(k)' <=> IsPerf(k)
                   /\ IsRDMA(k)' <=> IsRDMA(k)
                   /\ IsSimulated(k)' <=> IsSimulated(k)
                   /\ Lenient(k)' <=> Lenient(k)
                   /\ \A x : Ends(k, x)' <=> Ends(k, x)
         /\ \A j : /\ Current(j)' <=> Current(j)
                   /\ Echoes(j)' <=> Echoes(j)
                   /\ Dated(j)' <=> Dated(j)
         /\ \A r, j : MayStillRun(r, j)' <=> MayStillRun(r, j)
         /\ Stale' <=> Stale
<1> USE DEF plan
<1>1. setup' = setup /\ conf' = conf /\ iter' = iter
  OBVIOUS
<1>2. Kinds' = Kinds
  BY <1>1 DEF Kinds
<1>3. Flow' = Flow /\ Ms' = Ms
  BY <1>2 DEF Flow, Ms
<1>4. ASSUME NEW k
      PROVE  /\ Test(k)' = Test(k)
             /\ IsPerf(k)' <=> IsPerf(k)
             /\ IsRDMA(k)' <=> IsRDMA(k)
             /\ IsSimulated(k)' <=> IsSimulated(k)
             /\ Lenient(k)' <=> Lenient(k)
  <2>1. \A s : Job(k, s)' = Job(k, s)
    BY <1>1, <1>2 DEF Job
  <2>2. Test(k)' = Test(k)
    BY <1>2, <2>1 DEF Test
  <2> QED  BY <1>1, <1>2, <2>2 DEF IsPerf, IsRDMA, IsSimulated, Lenient, IsMadeUp
<1>5. ASSUME NEW k
      PROVE  /\ Rs(k)' = Rs(k)
             /\ \A x : Ends(k, x)' <=> Ends(k, x)
  BY <1>4 DEF Rs, Ends
<1>6. ASSUME NEW j
      PROVE  /\ Current(j)' <=> Current(j)
             /\ Echoes(j)' <=> Echoes(j)
             /\ Dated(j)' <=> Dated(j)
  BY <1>1 DEF Current, Echoes, Dated
<1>7. ASSUME NEW r, NEW j
      PROVE  MayStillRun(r, j)' <=> MayStillRun(r, j)
  BY <1>2, <1>4 DEF MayStillRun
<1>8. Stale' <=> Stale
  BY <1>1 DEF Stale
<1> QED  BY ONLY <1>1, <1>2, <1>3, <1>4, <1>5, <1>6, <1>7, <1>8

LEMMA SetupOf ==
  ASSUME Typed
  PROVE  Setup /\ conf \in Nat /\ iter \in Nat
BY DEF Typed, Setup

LEMMA Rest ==
  ASSUME NEW S, NEW s \in Seq(S), s # <<>>
  PROVE  /\ Tail(s) \in Seq(S) /\ Head(s) = s[1] /\ Head(s) \in S
         /\ Len(Tail(s)) = Len(s) - 1 /\ Len(s) \in Nat /\ Len(s) > 0
         /\ \A i \in 1 .. Len(Tail(s)) : Tail(s)[i] = s[i + 1]
         /\ ToSet(Tail(s)) \subseteq ToSet(s)
         /\ \A x \in ToSet(s) : x = Head(s) \/ x \in ToSet(Tail(s))
<1>1. /\ Tail(s) \in Seq(S) /\ Head(s) = s[1] /\ Head(s) \in S
      /\ Len(Tail(s)) = Len(s) - 1 /\ Len(s) \in Nat /\ Len(s) > 0
      /\ \A i \in 1 .. Len(Tail(s)) : Tail(s)[i] = s[i + 1]
      /\ DOMAIN s = 1 .. Len(s) /\ DOMAIN Tail(s) = 1 .. Len(Tail(s))
  OBVIOUS
<1>2. ASSUME NEW i \in DOMAIN Tail(s)
      PROVE  Tail(s)[i] \in ToSet(s)
  <2>1. i + 1 \in DOMAIN s /\ Tail(s)[i] = s[i + 1]
    BY <1>1
  <2> QED  BY <2>1 DEF ToSet
<1>3. ToSet(Tail(s)) \subseteq ToSet(s)
  BY <1>2 DEF ToSet
<1>4. ASSUME NEW i \in DOMAIN s, i # 1
      PROVE  s[i] \in ToSet(Tail(s))
  <2>1. i - 1 \in DOMAIN Tail(s) /\ (i - 1) + 1 = i
    BY <1>1, <1>4
  <2>2. Tail(s)[i - 1] = s[i]
    BY <1>1, <2>1
  <2> QED  BY <2>1, <2>2 DEF ToSet
<1>5. \A x \in ToSet(s) : x = Head(s) \/ x \in ToSet(Tail(s))
  BY <1>1, <1>4 DEF ToSet
<1> QED  BY ONLY <1>1, <1>3, <1>5

LEMMA LeadingRest ==
  ASSUME NEW s \in Seq(Steps), s # <<>>, NEW j, LeadingIn(s, j)
  PROVE  /\ Head(s).op = "wait"
         /\ Head(s) = WaitFor(j) \/ LeadingIn(Tail(s), j)
<1>1. PICK i \in DOMAIN s : s[i] = [op |-> "wait", job |-> j] /\ \A l \in 1 .. i : s[l].op = "wait"
  BY DEF LeadingIn
<1>2. /\ Head(s) = s[1] /\ Len(Tail(s)) = Len(s) - 1 /\ Len(s) \in Nat /\ i \in 1 .. Len(s)
      /\ DOMAIN Tail(s) = 1 .. Len(Tail(s))
      /\ \A x \in 1 .. Len(Tail(s)) : Tail(s)[x] = s[x + 1]
  BY Rest
<1>3. 1 \in 1 .. i
  BY <1>2
<1>4. CASE i = 1
  BY <1>1, <1>2, <1>3, <1>4 DEF WaitFor
<1>5. CASE i # 1
  <2>1. i - 1 \in 1 .. Len(Tail(s)) /\ (i - 1) + 1 = i
    BY <1>2, <1>5
  <2>2. \A l \in 1 .. i - 1 : l + 1 \in 1 .. i /\ l \in 1 .. Len(Tail(s))
    BY <1>2, <1>5
  <2>3. Tail(s)[i - 1] = [op |-> "wait", job |-> j]
    BY <1>1, <1>2, <2>1
  <2>4. \A l \in 1 .. i - 1 : Tail(s)[l].op = "wait"
    BY <1>1, <1>2, <2>2
  <2>5. i - 1 \in DOMAIN Tail(s)
    BY <1>2, <2>1
  <2> QED  BY <1>1, <1>2, <1>3, <2>3, <2>4, <2>5 DEF LeadingIn
<1> QED  BY <1>4, <1>5

LEMMA WillEndRest ==
  ASSUME NEW k, NEW j, todo \in Seq(Steps), todo # <<>>, WillEnd(k, j)
  PROVE  \/ Head(todo).job = j /\ Ends(k, Head(todo))
         \/ \E i \in DOMAIN Tail(todo) : Tail(todo)[i].job = j /\ Ends(k, Tail(todo)[i])
<1>1. PICK x \in ToSet(todo) : x.job = j /\ Ends(k, x)
  BY DEF WillEnd, ToSet
<1>2. x = Head(todo) \/ x \in ToSet(Tail(todo))
  BY Rest
<1>3. ASSUME x \in ToSet(Tail(todo))
      PROVE  \E i \in DOMAIN Tail(todo) : Tail(todo)[i].job = j /\ Ends(k, Tail(todo)[i])
  BY <1>1, <1>3 DEF ToSet
<1> QED  BY <1>1, <1>2, <1>3

LEMMA ResultsKept ==
  ASSUME Results, UNCHANGED <<plan, used, verdict, clean>>
  PROVE  Results'
<1>1. UNCHANGED plan
  OBVIOUS
<1>2. /\ Ms' = Ms /\ Kinds' = Kinds /\ (Stale' <=> Stale)
      /\ \A k : Test(k)' = Test(k) /\ (IsPerf(k)' <=> IsPerf(k)) /\ (Lenient(k)' <=> Lenient(k))
  BY <1>1, SamePlan
<1> QED  BY <1>2 DEF Results

Mid == {"iteration", "start", "finish", "finishing", "finally", "collect"}

LEMMA StepsOfTweaks ==
  ASSUME NEW op, Setup
  PROVE  TweakSteps(op) = IF setup.type = "tcp" THEN <<>> ELSE <<[op |-> op, job |-> 1], [op |-> op, job |-> 2]>>
<1>1. CASE setup.type = "tcp"
  BY <1>1 DEF TweakSteps, Tweaked
<1>2. CASE setup.type # "tcp"
  <2>1. Tweaked = <<1, 2>>
    BY <1>2 DEF Tweaked
  <2>2. TweakSteps(op) = [i \in DOMAIN <<1, 2>> |-> [op |-> op, job |-> <<1, 2>>[i]]]
    BY <2>1 DEF TweakSteps
  <2> QED  BY <1>2, <2>2
<1> QED  BY <1>1, <1>2

LEMMA TweakStepsFacts ==
  ASSUME NEW op \in {"apply", "remove"}, Setup
  PROVE  /\ TweakSteps(op) \in Seq(Steps)
         /\ TweakSteps(op) \in {<<>>} \union {<<[op |-> op, job |-> 2]>>} \union {<<[op |-> op, job |-> 1], [op |-> op, job |-> 2]>>}
         /\ setup.type = "tcp" => TweakSteps(op) = <<>>
         /\ {TweakSteps(op)[i].job : i \in DOMAIN TweakSteps(op)} = IF setup.type = "tcp" THEN {} ELSE Hosts
<1>1. CASE setup.type = "tcp"
  <2>1. TweakSteps(op) = <<>>
    BY <1>1, StepsOfTweaks
  <2> QED  BY <1>1, <2>1
<1>2. CASE setup.type # "tcp"
  <2> DEFINE a == [op |-> op, job |-> 1]
             b == [op |-> op, job |-> 2]
  <2>1. TweakSteps(op) = <<a, b>>
    BY <1>2, StepsOfTweaks
  <2>2. a \in Steps /\ b \in Steps /\ a.job = 1 /\ b.job = 2
    BY DEF Steps, Ops, Hosts
  <2> HIDE DEF a, b
  <2>3. <<a, b>> \in Seq(Steps) /\ {<<a, b>>[i].job : i \in DOMAIN <<a, b>>} = {1, 2}
    BY <2>2
  <2> QED  BY <1>2, <2>1, <2>3 DEF Hosts, a, b
<1> QED  BY <1>1, <1>2

\* A host that a step of the tweaks is not about is as it was meant before.
LEMMA AsMeantKept ==
  ASSUME NEW h, setup' = setup, untweaked' = untweaked, h \in Changed' <=> h \in Changed,
         h \in frag' <=> h \in frag, NotChanged(h) \in noted' <=> NotChanged(h) \in noted,
         rules'[h] = rules[h], at \in {"report", "aborted"} => at' \in {"report", "aborted"}, AsMeant(h)
  PROVE  AsMeant(h)'
<1>1. NotChanged(h)' = NotChanged(h)
  BY DEF NotChanged
<1>2. LimitsOf(h)'
  BY <1>1 DEF AsMeant, LimitsOf
<1>3. RulesOf(h)'
  BY DEF AsMeant, RulesOf
<1> QED  BY <1>2, <1>3 DEF AsMeant

LEMMA TweaksKept ==
  ASSUME Setup, Tweaks, at \in Mid, UNCHANGED <<setup, tweaks>>, raised \subseteq raised',
         at' \in Mid \/ (at' = "remove" /\ todo' = TweakSteps("remove"))
  PROVE  Tweaks'
<1>1. Changed = IF setup.type = "tcp" THEN {} ELSE Hosts
  BY DEF Changed, Mid
<1>2. Changed' = Changed
  <2>1. CASE at' \in Mid
    BY <1>1, <2>1 DEF Changed, Mid
  <2>2. CASE at' = "remove" /\ todo' = TweakSteps("remove")
    <3>1. {todo'[i].job : i \in DOMAIN todo'} = IF setup.type = "tcp" THEN {} ELSE Hosts
      BY <2>2, TweakStepsFacts
    <3>2. Left' = IF setup.type = "tcp" THEN {} ELSE Hosts
      BY <3>1 DEF Left
    <3> QED  BY <1>1, <2>2, <3>2 DEF Changed
  <2> QED  BY <2>1, <2>2
<1>3. OnTweaks => OnTweaks'
  BY DEF OnTweaks
<1>4. /\ frag' = frag /\ rules' = rules /\ noted' = noted /\ untweaked' = untweaked /\ unheard' = unheard
      /\ setup' = setup
  BY DEF tweaks
<1>5. at' \in {"apply", "remove"} =>
        /\ todo' \in {<<>>} \union {<<[op |-> at', job |-> 2]>>} \union {<<[op |-> at', job |-> 1], [op |-> at', job |-> 2]>>}
        /\ setup.type = "tcp" => todo' = <<>>
  BY TweakStepsFacts DEF Mid
<1>6. at \notin {"report", "aborted"} /\ at' # "apply"
  BY DEF Mid
<1>7. \A h : AsMeant(h) => AsMeant(h)'
  BY <1>2, <1>4, <1>6, AsMeantKept
<1> QED  BY ONLY Tweaks, <1>3, <1>4, <1>5, <1>6, <1>7 DEF Tweaks

\* A step to the end of the test, of which only the tweaks are left.
EndsTest ==
  /\ at' = "remove" /\ todo' = TweakSteps("remove")
  /\ UNCHANGED <<plan, lists, found, tweaks>>

LEMMA Ending ==
  ASSUME PInv, at \in Mid, EndsTest, m' \in 0 .. Flow, faults' \in Nat, raised \subseteq raised',
         DOMAIN status' \subseteq JobSet, status' \in [DOMAIN status' -> Hows], Past', Running'
  PROVE  PInv'
<1> USE DEF EndsTest
<1>1. Setup /\ Typed /\ Results /\ Tweaks
  BY SetupOf DEF PInv
<1>2. UNCHANGED plan
  OBVIOUS
<1>3. Ms' = Ms /\ Flow' = Flow /\ setup' = setup /\ conf' = conf /\ iter' = iter
  BY <1>2, SamePlan
<1>4. /\ running' = running /\ finished' = finished /\ shared' = shared /\ own' = own
      /\ used' = used /\ verdict' = verdict /\ clean' = clean
  BY DEF lists, found
<1>5. todo' \in Seq(Steps)
  BY <1>1, TweakStepsFacts
<1>6. /\ setup \in [kind : FlowKinds, type : {"tcp", "udp", "sctp"}, perf : BOOLEAN, simulate : BOOLEAN]
      /\ conf \in Nat /\ iter \in Nat /\ conf > 0
      /\ running \in [Ms -> Seq(JobSet)] /\ finished \in [Ms -> Seq(JobSet)] /\ used \in [Ms -> Seq(JobSet)]
      /\ shared \in Seq(JobSet) /\ own \in BOOLEAN
      /\ verdict \in [Ms -> BOOLEAN] /\ clean \in [Ms -> BOOLEAN]
  BY <1>1 DEF Typed
<1>7. Typed'
  BY ONLY <1>3, <1>4, <1>5, <1>6, at' = "remove", m' \in 0 .. Flow, faults' \in Nat,
          DOMAIN status' \subseteq JobSet, status' \in [DOMAIN status' -> Hows] DEF Typed, Places
<1>8. Starting' /\ Lists' /\ Echoed' /\ OwnSteps' /\ Covered'
  BY DEF Starting, Lists, Echoed, OwnSteps, Covered
<1>9. Results'
  BY <1>1, <1>2, ResultsKept DEF found
<1>10. Tweaks'
  BY <1>1, <1>2, TweaksKept DEF tweaks, plan
<1> QED  BY <1>7, <1>8, <1>9, <1>10 DEF PInv

\* The controller stays at its measurement, perhaps one call further.
Stays ==
  /\ UNCHANGED <<plan, at, m, lists, found, tweaks, raised>>
  /\ DOMAIN status' = DOMAIN status /\ status' \in [DOMAIN status -> Hows] /\ faults' \in Nat
  /\ \/ todo' = todo
     \/ at \in {"finish", "finally"} /\ todo # <<>> /\ todo' = Tail(todo)

LEMMA ListsKept ==
  ASSUME Lists, UNCHANGED <<plan, at, m, running, finished, shared, own>>, at = "start" => todo' = todo
  PROVE  Lists'
<1>1. UNCHANGED plan
  OBVIOUS
<1>2. /\ Ms' = Ms /\ (Stale' <=> Stale) /\ iter' = iter /\ conf' = conf /\ m' = m /\ at' = at /\ Kinds' = Kinds
      /\ running' = running /\ finished' = finished /\ shared' = shared /\ own' = own
      /\ \A k : Test(k)' = Test(k) /\ Rs(k)' = Rs(k) /\ (IsPerf(k)' <=> IsPerf(k)) /\ (IsRDMA(k)' <=> IsRDMA(k))
  BY <1>1, SamePlan
<1>3. \A k : List(k)' = List(k)
  BY <1>2 DEF List
<1>4. \A k, n : Ready(k, n)' <=> Ready(k, n)
  BY <1>2 DEF Ready
<1>5. \A k : (Listed(k)' <=> Listed(k)) /\ (IsDone(k)' <=> IsDone(k))
  BY <1>2, <1>3 DEF Listed, IsDone
<1>6. CASE at = "start"
  <2>1. Done' = Done /\ todo' = todo
    BY <1>2, <1>6 DEF Done
  <2>2. Listing' <=> Listing
    BY <1>2, <1>3, <2>1 DEF Listing, Prefix
  <2> QED  BY ONLY Lists, <1>2, <1>4, <1>5, <1>6, <2>2 DEF Lists
<1>7. CASE at # "start"
  BY ONLY Lists, <1>2, <1>4, <1>5, <1>7 DEF Lists
<1> QED  BY <1>6, <1>7

LEMMA Staying ==
  ASSUME PInv, Stays
  PROVE  Typed' /\ Past' /\ Lists' /\ Results' /\ OwnSteps' /\ Tweaks' /\ (at # "start" => Starting')
<1> USE DEF Stays
<1>1. Setup /\ Typed /\ Past /\ Lists /\ Results /\ OwnSteps /\ Tweaks /\ Starting
  BY SetupOf DEF PInv
<1>2. UNCHANGED plan
  OBVIOUS
<1>3. /\ Ms' = Ms /\ Flow' = Flow /\ setup' = setup /\ conf' = conf /\ iter' = iter /\ Kinds' = Kinds
      /\ \A k : Rs(k)' = Rs(k) /\ (IsPerf(k)' <=> IsPerf(k)) /\ Test(k)' = Test(k)
      /\ \A j : Dated(j)' <=> Dated(j)
  BY <1>2, SamePlan
<1>4. /\ running' = running /\ finished' = finished /\ shared' = shared /\ own' = own
      /\ used' = used /\ verdict' = verdict /\ clean' = clean /\ at' = at /\ m' = m /\ raised' = raised
      /\ DOMAIN status' = DOMAIN status /\ status' \in [DOMAIN status' -> Hows] /\ faults' \in Nat
      /\ frag' = frag /\ rules' = rules /\ noted' = noted /\ untweaked' = untweaked /\ unheard' = unheard
  BY DEF lists, found, tweaks
<1>5. /\ todo \in Seq(Steps) /\ todo' \in Seq(Steps) /\ (todo = <<>> => todo' = <<>>)
      /\ ToSet(todo') \subseteq ToSet(todo)
  <2>1. todo \in Seq(Steps)
    BY <1>1 DEF Typed
  <2>2. CASE todo' = todo
    BY <2>1, <2>2
  <2>3. CASE todo # <<>> /\ todo' = Tail(todo)
    BY <2>1, <2>3, Rest
  <2> QED  BY <2>1, <2>2, <2>3
<1>6. Typed'
  BY ONLY <1>1, <1>3, <1>4, <1>5 DEF Typed
<1>7. Past'
  BY ONLY <1>1, <1>3, <1>4 DEF Past
<1>8. Lists'
  <2>1. at = "start" => todo' = todo
    OBVIOUS
  <2> QED  BY <1>1, <1>4, <2>1, <1>2, ListsKept
<1>9. Results'
  BY <1>1, <1>2, <1>4, ResultsKept
<1>10. OwnSteps'
  <2> SUFFICES ASSUME at' \in {"finish", "finally"}, NEW i \in DOMAIN todo'
               PROVE  /\ todo'[i].job \in JobSet /\ todo'[i].op \in FinishOps
                      /\ IF IsPerf(m)' THEN todo'[i].job.of = "LinuxPerf" ELSE todo'[i].job \in Rs(m)'
    BY DEF OwnSteps
  <2>1. todo'[i] \in ToSet(todo')
    BY DEF ToSet
  <2>2. PICK x \in DOMAIN todo : todo[x] = todo'[i]
    BY <1>5, <2>1 DEF ToSet
  <2>3. at \in {"finish", "finally"}
    BY <1>4
  <2>4. /\ todo[x].job \in JobSet /\ todo[x].op \in FinishOps
        /\ IF IsPerf(m) THEN todo[x].job.of = "LinuxPerf" ELSE todo[x].job \in Rs(m)
    BY <1>1, <2>3 DEF OwnSteps
  <2>5. Rs(m)' = Rs(m) /\ (IsPerf(m)' <=> IsPerf(m))
    BY ONLY <1>3, <1>4
  <2> QED  BY ONLY <2>2, <2>4, <2>5
<1>11. Tweaks'
  <2>1. Left' = Left \/ at \notin {"apply", "remove"}
    BY DEF Left
  <2>2. Changed' = Changed
    BY <1>3, <1>4, <2>1 DEF Changed
  <2>3. OnTweaks' <=> OnTweaks
    BY <1>4 DEF OnTweaks
  <2>4. at \in {"apply", "remove"} => todo' = todo
    OBVIOUS
  <2>5. \A h : AsMeant(h) => AsMeant(h)'
    BY <1>3, <1>4, <2>2, AsMeantKept
  <2>6. \A h : NotChanged(h)' = NotChanged(h)
    BY DEF NotChanged
  <2> QED  BY ONLY <1>1, <1>3, <1>4, <2>1, <2>3, <2>4, <2>5, <2>6 DEF Tweaks
<1>12. at # "start" => Starting'
  <2>1. \A j : Known(j)' <=> Known(j)
    BY <1>4 DEF Known
  <2> QED  BY ONLY <1>1, <1>3, <1>4, <2>1 DEF Starting
<1> QED  BY ONLY <1>6, <1>7, <1>8, <1>9, <1>10, <1>11, <1>12

-----------------------------------------------------------------------------
(* Calls of finish, and what happens to the jobs meanwhile *)

LEMMA StartingKept ==
  ASSUME PInv, Stays, at = "start",
         \A j \in DOMAIN status : Current(j) => status'[j] \in {"running", "passed", "failed"}
  PROVE  Starting'
<1>1. UNCHANGED plan /\ m' = m /\ at' = at /\ todo' = todo /\ DOMAIN status' = DOMAIN status
  BY DEF Stays
<1>2. /\ Ms' = Ms /\ (\A k : Test(k)' = Test(k) /\ Rs(k)' = Rs(k)) /\ (\A j : Current(j)' <=> Current(j))
  BY <1>1, SamePlan
<1>3. (\A j : Known(j)' <=> Known(j)) /\ Done' = Done
  BY <1>1, <1>2 DEF Known, Done
<1>4. Starting
  BY DEF PInv
<1> QED  BY ONLY <1>1, <1>2, <1>3, <1>4, at = "start",
             \A j \in DOMAIN status : Current(j) => status'[j] \in {"running", "passed", "failed"} DEF Starting

LEMMA SimulatedEchoes ==
  ASSUME Setup, conf \in Nat, iter \in Nat, NEW k \in Ms, NEW j \in Rs(k)
  PROVE  Echoes(j) <=> IsSimulated(k)
BY InRs DEF Echoes, IsSimulated

LEMMA EchoedKept ==
  ASSUME PInv, Stays,
         at # "finally" => \A j \in DOMAIN status : Current(j) /\ Echoes(j) => status'[j] \in {status[j], "passed"},
         at = "finish" /\ todo' # todo /\ IsSimulated(m) => \A j : Head(todo) = WaitFor(j) => How(j) # "running"
  PROVE  Echoed'
<1>1. UNCHANGED plan /\ m' = m /\ at' = at /\ DOMAIN status' = DOMAIN status
  BY DEF Stays
<1>2. /\ Ms' = Ms /\ \A k : Rs(k)' = Rs(k) /\ (IsSimulated(k)' <=> IsSimulated(k))
      /\ \A j : (Current(j)' <=> Current(j)) /\ (Echoes(j)' <=> Echoes(j))
  BY <1>1, SamePlan
<1>3. Setup /\ conf \in Nat /\ iter \in Nat /\ Echoed /\ todo \in Seq(Steps)
  BY SetupOf DEF PInv, Typed
<1>4. CASE at \in {"start", "finish", "finishing", "collect"}
  <2>1. \A j \in DOMAIN status : Current(j) /\ Echoes(j) => status[j] \in {"running", "passed"} /\ status'[j] \in {status[j], "passed"}
    BY <1>3, <1>4 DEF Echoed
  <2>2. ASSUME at # "start", NEW k \in Ms, IsSimulated(k), NEW j \in Rs(k)
        PROVE  How(j)' = "passed" \/ (at = "finish" /\ k = m /\ Leading(j)') \/ (at # "collect" /\ k < m)
    <3>1. Current(j) /\ Echoes(j)
      BY <1>3, <2>2, InRs, SimulatedEchoes
    <3>2. How(j) = "passed" => How(j)' = "passed"
      BY <1>1, <2>1, <3>1 DEF How, Known
    <3>3. How(j) = "passed" \/ (at = "finish" /\ k = m /\ Leading(j)) \/ (at # "collect" /\ k < m)
      BY <1>3, <1>4, <2>2 DEF Echoed
    <3>4. ASSUME at = "finish", k = m, Leading(j), todo' # todo
          PROVE  How(j) = "passed" \/ Leading(j)'
      <4>1. todo # <<>> /\ todo' = Tail(todo)
        BY <3>4 DEF Stays
      <4>2. Head(todo) = WaitFor(j) \/ LeadingIn(Tail(todo), j)
        BY <1>3, <3>4, <4>1, LeadingRest DEF Leading
      <4>3. LeadingIn(Tail(todo), j) => Leading(j)'
        BY <4>1 DEF Leading
      <4>4. ASSUME Head(todo) = WaitFor(j)
            PROVE  How(j) = "passed" \/ j \notin DOMAIN status
        BY <2>1, <2>2, <3>1, <3>4, <4>4 DEF How, Known
      <4>5. Known(j)
        <5>1. Starting
          BY DEF PInv
        <5> QED  BY <2>2, <3>4, <5>1 DEF Starting
      <4> QED  BY <4>2, <4>3, <4>4, <4>5 DEF Known
    <3>5. todo' = todo /\ Leading(j) => Leading(j)'
      BY DEF Leading
    <3> QED  BY <3>2, <3>3, <3>4, <3>5
  <2> QED  BY ONLY <1>1, <1>2, <1>4, <2>1, <2>2 DEF Echoed
<1>5. CASE at \notin {"start", "finish", "finishing", "collect"}
  BY ONLY <1>1, <1>5 DEF Echoed
<1> QED  BY <1>4, <1>5

LEMMA RunningKept ==
  ASSUME PInv, Stays, \A j : Runs(j)' => Runs(j),
         todo' # todo => \A j : Head(todo).job = j /\ Ends(m, Head(todo)) => ~Runs(j)'
  PROVE  Running'
<1>1. UNCHANGED plan /\ m' = m /\ at' = at /\ raised' = raised /\ DOMAIN status' = DOMAIN status
  BY DEF Stays
<1>2. /\ Ms' = Ms /\ \A k : /\ Rs(k)' = Rs(k) /\ (IsSimulated(k)' <=> IsSimulated(k)) /\ (IsPerf(k)' <=> IsPerf(k))
                            /\ \A x : Ends(k, x)' <=> Ends(k, x)
      /\ \A r, j : MayStillRun(r, j)' <=> MayStillRun(r, j)
  BY <1>1, SamePlan
<1>3. Running /\ todo \in Seq(Steps)
  BY DEF PInv, Typed
<1>4. ASSUME NEW j \in DOMAIN status, Runs(j)', NEW k \in Ms, MayRun(k, j)
      PROVE  MayRun(k, j)'
  <2>1. ASSUME at \in {"finish", "finally"}, k = m, WillEnd(k, j)
        PROVE  WillEnd(k, j)'
    <3>1. CASE todo' = todo
      BY <1>2, <2>1, <3>1 DEF WillEnd
    <3>2. CASE todo' # todo
      <4>1. todo # <<>> /\ todo' = Tail(todo)
        BY <3>2 DEF Stays
      <4>2. ~(Head(todo).job = j /\ Ends(k, Head(todo)))
        BY <1>4, <2>1, <3>2
      <4>3. \E i \in DOMAIN Tail(todo) : Tail(todo)[i].job = j /\ Ends(k, Tail(todo)[i])
        BY <1>3, <2>1, <4>1, <4>2, WillEndRest
      <4> QED  BY <1>2, <4>1, <4>3 DEF WillEnd
    <3> QED  BY <3>1, <3>2
  <2> QED  BY ONLY <1>1, <1>2, <1>4, <2>1 DEF MayRun
<1>5. \A j \in DOMAIN status' : Runs(j)' => Runs(j)
  OBVIOUS
<1> QED  BY ONLY <1>1, <1>2, <1>3, <1>4, <1>5 DEF Running

Covering == {"running", "passed", "failed", "hung"}

LEMMA CoveredKept ==
  ASSUME PInv, Stays,
         \A j \in DOMAIN status : status'[j] = "running" => status[j] = "running",
         at = "finish" /\ todo' # todo => \A j : Head(todo) = WaitFor(j) => How(j)' # "running",
         at = "finish" /\ todo # <<>> /\ Head(todo).op = "wait" =>
           \A j \in DOMAIN status : Current(j) /\ status[j] \in Covering => status'[j] \in Covering
  PROVE  Covered'
<1>1. UNCHANGED plan /\ m' = m /\ at' = at /\ DOMAIN status' = DOMAIN status
  BY DEF Stays
<1>2. Flow' = Flow /\ \A j : Current(j)' <=> Current(j)
  BY <1>1, SamePlan
<1>3. Covered /\ todo \in Seq(Steps)
  BY DEF PInv, Typed
<1>4. ASSUME at = "finish", m = Flow, NEW c \in DOMAIN status, c.role = "client", status'[c] = "running"
      PROVE  /\ Leading(c)'
             /\ \A j \in DOMAIN status : Current(j) => status'[j] \in Covering
  <2>1. /\ Leading(c)
        /\ \A j \in DOMAIN status : Current(j) => status[j] \in Covering
    BY <1>3, <1>4 DEF Covered, Covering
  <2>2. todo # <<>> /\ Head(todo).op = "wait" /\ (Head(todo) = WaitFor(c) \/ LeadingIn(Tail(todo), c))
    <3>1. todo # <<>>
      BY <2>1 DEF Leading, LeadingIn
    <3> QED  BY <1>3, <2>1, <3>1, LeadingRest DEF Leading
  <2>3. Leading(c)'
    <3>1. CASE todo' = todo
      BY <2>1, <3>1 DEF Leading
    <3>2. CASE todo' # todo
      <4>1. todo' = Tail(todo)
        BY <3>2 DEF Stays
      <4>2. How(c)' = "running"
        BY <1>1, <1>4 DEF How, Known
      <4>3. Head(todo) # WaitFor(c)
        BY <1>4, <3>2, <4>2 DEF WaitFor
      <4> QED  BY <2>2, <4>1, <4>3 DEF Leading
    <3> QED  BY <3>1, <3>2
  <2>4. \A j \in DOMAIN status : Current(j) => status'[j] \in Covering
    BY <1>4, <2>1, <2>2
  <2> QED  BY <2>3, <2>4
<1> QED  BY ONLY <1>1, <1>2, <1>4 DEF Covered, Covering

\* When a job that echoes is told anything, it has passed.
LEMMA EchoHead ==
  ASSUME PInv, at = "finish", todo # <<>>, NEW j \in DOMAIN status, j = Head(todo).job, Current(j), Echoes(j)
  PROVE  /\ IsSimulated(m) /\ status[j] \in {"running", "passed"}
         /\ Head(todo).op = "wait" \/ status[j] = "passed"
<1>1. Setup /\ conf \in Nat /\ iter \in Nat /\ todo \in Seq(Steps) /\ m \in Ms
  <2>1. Typed /\ m \in 0 .. Flow /\ m > 0
    BY DEF PInv, Typed
  <2>2. Setup /\ Ms = 1 .. Flow /\ Flow \in {2, 3}
    BY <2>1, SetupOf, TheKinds
  <2> QED  BY <2>1, <2>2, SetupOf DEF Typed
<1>2. Head(todo) = todo[1] /\ 1 \in DOMAIN todo
  BY <1>1
<1>3. IF IsPerf(m) THEN j.of = "LinuxPerf" ELSE j \in Rs(m)
  BY <1>2 DEF PInv, OwnSteps
<1>4. j.of \in Simulated /\ status[j] \in {"running", "passed"}
  BY DEF PInv, Echoed, Echoes
<1>5. j \in Rs(m)
  BY <1>3, <1>4 DEF Simulated
<1>6. IsSimulated(m)
  BY <1>1, <1>5, SimulatedEchoes
<1>7. How(j) = "passed" \/ Leading(j)
  <2>1. How(j) = "passed" \/ (at = "finish" /\ m = m /\ Leading(j)) \/ (at # "collect" /\ m < m)
    BY <1>1, <1>5, <1>6 DEF PInv, Echoed
  <2> QED  BY <1>1, <2>1, TheKinds
<1>8. Leading(j) => Head(todo).op = "wait"
  BY <1>1, LeadingRest DEF Leading
<1> QED  BY <1>4, <1>6, <1>7, <1>8 DEF How, Known

LEMMA StaysParts ==
  ASSUME PInv, Stays, Starting', Echoed', Running', Covered'
  PROVE  PInv'
BY Staying DEF PInv

LEMMA Interrupts ==
  ASSUME PInv, Interrupt
  PROVE  PInv'
<1> DEFINE j == Head(todo).job
<1>1. /\ at \in {"finish", "finally"} /\ todo # <<>> /\ Head(todo).op = "int"
      /\ Goes /\ faults' = faults
      /\ IF How(j) \in {"running", "hung"} THEN Becomes(j, "told") ELSE UNCHANGED status
  BY DEF Interrupt, Calls
<1>2. status \in [DOMAIN status -> Hows] /\ faults \in Nat
  BY DEF PInv, Typed
<1>3. /\ DOMAIN status' = DOMAIN status /\ status' \in [DOMAIN status -> Hows]
      /\ \A x \in DOMAIN status :
           status'[x] = status[x] \/ (x = j /\ status[x] \in {"running", "hung"} /\ status'[x] = "told")
  BY <1>1, <1>2 DEF Becomes, How, Known, Hows
<1>4. Stays
  BY <1>1, <1>2, <1>3 DEF Stays, Goes
<1>5. Starting'
  BY <1>1, <1>4, Staying
<1>6. Echoed'
  <2>1. ASSUME at = "finish", NEW x \in DOMAIN status, Current(x), Echoes(x)
        PROVE  status'[x] = status[x]
    BY <1>1, <1>3, <2>1, EchoHead
  <2>2. \A x : Head(todo) # WaitFor(x)
    BY <1>1 DEF WaitFor
  <2> QED  BY <1>1, <1>4, <2>1, <2>2, EchoedKept
<1>7. Running'
  <2>1. \A x : Runs(x)' => Runs(x)
    BY <1>3 DEF Runs, How, Known
  <2>2. ~Ends(m, Head(todo))
    BY <1>1 DEF Ends
  <2> QED  BY <1>4, <2>1, <2>2, RunningKept
<1>8. Covered'
  <2>1. \A x \in DOMAIN status : status'[x] = "running" => status[x] = "running"
    BY <1>3
  <2>2. \A x : Head(todo) # WaitFor(x)
    BY <1>1 DEF WaitFor
  <2> QED  BY <1>1, <1>4, <2>1, <2>2, CoveredKept
<1> QED  BY <1>4, <1>5, <1>6, <1>7, <1>8, StaysParts

LEMMA WaitsOver ==
  ASSUME PInv, WaitOver
  PROVE  PInv'
<1>1. /\ at \in {"finish", "finally"} /\ todo # <<>> /\ Head(todo).op \in {"wait", "reap"}
      /\ IsFinished(Head(todo).job) /\ Goes /\ UNCHANGED <<status, faults>>
  BY DEF WaitOver, Calls
<1>2. status \in [DOMAIN status -> Hows] /\ faults \in Nat
  BY DEF PInv, Typed
<1>3. Stays
  BY <1>1, <1>2 DEF Stays, Goes
<1>4. Starting'
  BY <1>1, <1>3, Staying
<1>5. \A x : (How(x)' = How(x)) /\ (Runs(x)' <=> Runs(x))
  BY <1>1 DEF Runs, How, Known
<1>6. How(Head(todo).job) \in Reported
  BY <1>1 DEF IsFinished
<1>7. Echoed'
  <2>1. \A x : Head(todo) = WaitFor(x) => How(x) # "running"
    BY <1>6 DEF WaitFor, Reported
  <2> QED  BY <1>1, <1>3, <2>1, EchoedKept
<1>8. Running'
  <2>1. \A x : Head(todo).job = x => ~Runs(x)'
    BY <1>5, <1>6 DEF Runs, Reported
  <2> QED  BY <1>3, <1>5, <2>1, RunningKept
<1>9. Covered'
  <2>1. \A x : Head(todo) = WaitFor(x) => How(x)' # "running"
    BY <1>5, <1>6 DEF WaitFor, Reported
  <2> QED  BY <1>1, <1>3, <2>1, CoveredKept
<1> QED  BY <1>3, <1>4, <1>7, <1>8, <1>9, StaysParts

\* A kill: what runs is on its way to be killed.
Kills(j) ==
  /\ DOMAIN status' = DOMAIN status /\ status' \in [DOMAIN status -> Hows]
  /\ \A x \in DOMAIN status :
       status'[x] = status[x] \/ (x = j /\ (Runs(x) \/ status[x] = "silent") /\ status'[x] = "killing")
  /\ ~Runs(j)'

LEMMA KillFacts ==
  ASSUME status \in [DOMAIN status -> Hows], NEW j, Kill(j)
  PROVE  Kills(j)
<1>1. CASE Runs(j)
  <2>1. Becomes(j, "killing")
    <3>1. How(j) # "silent"
      BY <1>1 DEF Runs
    <3> QED  BY <1>1, <3>1 DEF Kill
  <2>2. j \in DOMAIN status /\ status' = [status EXCEPT ![j] = "killing"]
    BY <1>1, <2>1 DEF Becomes, Runs, How, Known
  <2>3. DOMAIN status' = DOMAIN status /\ status' \in [DOMAIN status -> Hows] /\ status'[j] = "killing"
    BY <2>2 DEF Hows
  <2>4. ~Runs(j)'
    BY <2>2, <2>3 DEF Runs, How, Known
  <2> QED  BY <1>1, <2>2, <2>3, <2>4 DEF Kills
<1>2. CASE ~Runs(j) /\ UNCHANGED status
  BY <1>2 DEF Kills, Runs, How, Known
<1>3. CASE ~Runs(j) /\ How(j) = "silent" /\ Becomes(j, "killing")
  <2>1. status' = [status EXCEPT ![j] = "killing"]
    BY <1>3 DEF Becomes
  <2> QED  BY <1>3, <2>1 DEF Kills, Runs, How, Known, Hows
<1>4. Runs(j) \/ (~Runs(j) /\ UNCHANGED status) \/ (~Runs(j) /\ How(j) = "silent" /\ Becomes(j, "killing"))
  <2>1. Runs(j) => How(j) # "silent"
    BY DEF Runs
  <2> QED  BY <2>1 DEF Kill
<1> QED  BY <1>1, <1>2, <1>3, <1>4

LEMMA Killing ==
  ASSUME PInv, at \in {"finish", "finally"}, todo # <<>>, Head(todo).op # "wait",
         Kills(Head(todo).job), Goes, faults' \in Nat
  PROVE  PInv'
<1> DEFINE j == Head(todo).job
<1>1. /\ DOMAIN status' = DOMAIN status /\ status' \in [DOMAIN status -> Hows]
      /\ \A x \in DOMAIN status :
           status'[x] = status[x] \/ (x = j /\ (Runs(x) \/ status[x] = "silent") /\ status'[x] = "killing")
  BY DEF Kills
<1>2. Stays
  BY <1>1 DEF Stays, Goes
<1>3. Starting'
  BY <1>2, Staying
<1>4. \A x : Head(todo) # WaitFor(x)
  BY DEF WaitFor
<1>5. Echoed'
  <2>1. ASSUME at = "finish", NEW x \in DOMAIN status, Current(x), Echoes(x)
        PROVE  status'[x] = status[x]
    BY <1>1, <2>1, EchoHead DEF Runs, How, Known
  <2> QED  BY <1>2, <1>4, <2>1, EchoedKept
<1>6. Running'
  <2>1. \A x : Runs(x)' => Runs(x)
    BY <1>1 DEF Runs, How, Known
  <2>2. ASSUME NEW x, Head(todo).job = x
        PROVE  ~Runs(x)'
    <3>1. \A y \in {x} : y = j => Kills(y)
      OBVIOUS
    <3>2. Kills(x)
      BY <2>2, <3>1
    <3> QED  BY <3>2 DEF Kills
  <2> QED  BY <1>2, <2>1, <2>2, RunningKept
<1>7. Covered'
  <2>1. \A x \in DOMAIN status : status'[x] = "running" => status[x] = "running"
    BY <1>1
  <2> QED  BY <1>2, <1>4, <2>1, CoveredKept
<1> QED  BY <1>2, <1>3, <1>5, <1>6, <1>7, StaysParts

LEMMA WaitsTimeOut ==
  ASSUME PInv, WaitTimesOut
  PROVE  PInv'
<1> DEFINE j == Head(todo).job
<1>1. /\ at \in {"finish", "finally"} /\ todo # <<>> /\ Goes /\ faults \in Nat /\ faults' \in Nat
      /\ \/ Head(todo).op = "reap" /\ Kill(j)
         \/ /\ Head(todo).op = "wait"
            /\ IF Runs(j) THEN Becomes(j, "hung") ELSE UNCHANGED status
      /\ How(j) \in {"silent", "gone"} \/ (Runs(j) /\ ~IsSimulated(m))
  <2>1. faults \in Nat
    BY DEF PInv, Typed
  <2> QED  BY <2>1 DEF WaitTimesOut, Calls, Fault
<1>2. status \in [DOMAIN status -> Hows]
  BY DEF PInv, Typed
<1>3. CASE Head(todo).op = "reap" /\ Kill(j)
  BY <1>1, <1>2, <1>3, KillFacts, Killing
<1>4. CASE Head(todo).op = "wait" /\ IF Runs(j) THEN Becomes(j, "hung") ELSE UNCHANGED status
  <2>1. /\ DOMAIN status' = DOMAIN status /\ status' \in [DOMAIN status -> Hows]
        /\ \A x \in DOMAIN status : status'[x] = status[x] \/ (x = j /\ Runs(x) /\ status'[x] = "hung")
    <3>1. CASE Runs(j)
      <4>1. status' = [status EXCEPT ![j] = "hung"]
        BY <1>4, <3>1 DEF Becomes
      <4> QED  BY <1>2, <3>1, <4>1 DEF Hows
    <3>2. CASE ~Runs(j)
      BY <1>2, <1>4, <3>2
    <3> QED  BY <3>1, <3>2
  <2>2. Stays
    BY <1>1, <2>1 DEF Stays, Goes
  <2>3. Starting'
    BY <1>1, <2>2, Staying
  <2>4. \A x : Head(todo) = WaitFor(x) => x = j
    BY DEF WaitFor
  <2>5. ASSUME NEW x, x = j
        PROVE  How(x)' # "running"
    <3>1. CASE Runs(x)
      <4>1. status' = [status EXCEPT ![x] = "hung"]
        BY <1>4, <2>5, <3>1 DEF Becomes
      <4>2. x \in DOMAIN status
        BY <3>1 DEF Runs, How, Known
      <4> QED  BY <4>1, <4>2 DEF How, Known
    <3>2. CASE ~Runs(x)
      <4>1. status' = status
        BY <1>4, <2>5, <3>2
      <4> QED  BY <3>2, <4>1 DEF How, Known, Runs
    <3> QED  BY <3>1, <3>2
  <2>6. Echoed'
    <3>1. ASSUME at = "finish", NEW x \in DOMAIN status, Current(x), Echoes(x)
          PROVE  status'[x] = status[x] /\ (x = j => status[x] = "passed")
      <4>1. CASE x = j
        <5>1. IsSimulated(m) /\ status[x] \in {"running", "passed"}
          BY <1>1, <3>1, <4>1, EchoHead
        <5>2. How(x) = status[x] /\ (How(x) \in {"silent", "gone"} \/ (Runs(x) /\ ~IsSimulated(m)))
          BY <1>1, <4>1 DEF How, Known
        <5> QED  BY <5>1, <5>2
      <4>2. CASE x # j
        BY <2>1, <4>2
      <4> QED  BY <4>1, <4>2
    <3>2. ASSUME IsSimulated(m), NEW x, Head(todo) = WaitFor(x)
          PROVE  How(x) # "running"
      <4>1. x = j /\ How(j) \in {"silent", "gone"}
        BY <1>1, <2>4, <3>2
      <4> QED  BY <4>1
    <3> QED  BY <1>1, <2>2, <3>1, <3>2, EchoedKept
  <2>7. Running'
    <3>1. \A x : Runs(x)' => Runs(x)
      BY <2>1 DEF Runs, How, Known
    <3>2. ASSUME NEW x, Head(todo).job = x, Ends(m, Head(todo))
          PROVE  ~Runs(x)'
      <4>1. IsSimulated(m)
        BY <1>4, <3>2 DEF Ends
      <4>2. How(x) \in {"silent", "gone"}
        BY <1>1, <3>2, <4>1
      <4>3. ~Runs(x)
        BY <4>2 DEF Runs
      <4> QED  BY <3>1, <4>3
    <3> QED  BY <2>2, <3>1, <3>2, RunningKept
  <2>8. Covered'
    BY <2>1, <2>2, <2>4, <2>5, CoveredKept DEF Covering
  <2> QED  BY <2>2, <2>3, <2>6, <2>7, <2>8, StaysParts
<1> QED  BY <1>1, <1>3, <1>4

LEMMA KillsJob ==
  ASSUME PInv, KillJob
  PROVE  PInv'
<1>1. /\ at \in {"finish", "finally"} /\ todo # <<>> /\ Head(todo).op = "kill"
      /\ Kill(Head(todo).job) /\ Goes /\ faults' = faults
  BY DEF KillJob, Calls
<1>2. status \in [DOMAIN status -> Hows] /\ faults \in Nat
  BY DEF PInv, Typed
<1> QED  BY <1>1, <1>2, KillFacts, Killing

\* A job ends, or loses its result.
LEMMA JobEnding ==
  ASSUME PInv, NEW j \in DOMAIN status, NEW h \in {"passed", "failed", "silent", "bare", "killed"},
         JobEnds(j, h), faults' \in Nat,
         h = "passed" => status[j] \in {"running", "told"},
         h = "failed" => status[j] \in {"running", "told"} /\ ~Echoes(j),
         h \in {"silent", "bare"} => status[j] = "told",
         h = "killed" => status[j] = "killing"
  PROVE  PInv'
<1>1. /\ Listening /\ status' = [status EXCEPT ![j] = h]
      /\ UNCHANGED <<plan, place, lists, found, tweaks, raised>>
  BY DEF JobEnds, Becomes
<1>2. status \in [DOMAIN status -> Hows] /\ raised' = raised
  BY <1>1 DEF PInv, Typed
<1>3. /\ DOMAIN status' = DOMAIN status /\ status' \in [DOMAIN status -> Hows]
      /\ \A x \in DOMAIN status : status'[x] = IF x = j THEN h ELSE status[x]
  BY <1>1, <1>2 DEF Hows
<1>4. Stays /\ todo' = todo
  BY <1>1, <1>3 DEF Stays, place
<1>5. Starting'
  <2>1. CASE at = "start"
    <3>1. \A x \in DOMAIN status : Current(x) => status[x] \in {"running", "passed", "failed"}
      BY <2>1 DEF PInv, Starting
    <3>2. \A x \in DOMAIN status : Current(x) => status'[x] \in {"running", "passed", "failed"}
      BY <1>3, <3>1
    <3> QED  BY <1>4, <2>1, <3>2, StartingKept
  <2>2. CASE at # "start"
    BY <1>4, <2>2, Staying
  <2> QED  BY <2>1, <2>2
<1>6. Echoed'
  <2>1. ASSUME at # "finally", NEW x \in DOMAIN status, Current(x), Echoes(x)
        PROVE  status'[x] \in {status[x], "passed"}
    <3>1. status[x] \in {"running", "passed"}
      <4>1. at \in {"start", "finish", "finishing", "collect"}
        BY <1>1, <2>1 DEF Listening
      <4> QED  BY <2>1, <4>1 DEF PInv, Echoed
    <3> QED  BY <1>3, <2>1, <3>1
  <2> QED  BY <1>4, <2>1, EchoedKept
<1>7. Running'
  <2>1. \A x : Runs(x)' => Runs(x)
    BY <1>3 DEF Runs, How, Known
  <2> QED  BY <1>4, <2>1, RunningKept
<1>8. Covered'
  <2>1. \A x \in DOMAIN status : status'[x] = "running" => status[x] = "running"
    BY <1>3
  <2>2. \A x \in DOMAIN status : Current(x) /\ status[x] \in Covering => status'[x] \in Covering
    BY <1>3 DEF Covering
  <2> QED  BY <1>4, <2>1, <2>2, CoveredKept
<1> QED  BY <1>4, <1>5, <1>6, <1>7, <1>8, StaysParts

LEMMA JobsEnd ==
  ASSUME PInv, JobPasses \/ JobFails \/ JobFallsSilent \/ JobEndsBare \/ JobKilled
  PROVE  PInv'
<1>1. faults \in Nat
  BY DEF PInv, Typed
<1>2. CASE JobPasses
  <2>1. PICK j \in DOMAIN status : /\ status[j] \in {"running", "told"} /\ JobEnds(j, "passed") /\ faults' = faults
    BY <1>2 DEF JobPasses
  <2> QED  BY <1>1, <2>1, JobEnding
<1>3. CASE JobFails
  <2>1. PICK j \in DOMAIN status : /\ status[j] \in {"running", "told"} /\ ~Echoes(j) /\ Fault /\ JobEnds(j, "failed")
    BY <1>3 DEF JobFails
  <2>2. faults' \in Nat
    BY <1>1, <2>1 DEF Fault
  <2> QED  BY <2>1, <2>2, JobEnding
<1>4. CASE JobFallsSilent
  <2>1. PICK j \in DOMAIN status : /\ status[j] = "told" /\ Fault /\ JobEnds(j, "silent")
    BY <1>4 DEF JobFallsSilent
  <2>2. faults' \in Nat
    BY <1>1, <2>1 DEF Fault
  <2> QED  BY <2>1, <2>2, JobEnding
<1>5. CASE JobKilled
  <2>1. PICK j \in DOMAIN status : /\ status[j] = "killing" /\ JobEnds(j, "killed") /\ faults' = faults
    BY <1>5 DEF JobKilled
  <2> QED  BY <1>1, <2>1, JobEnding
<1>6. CASE JobEndsBare
  <2>1. PICK j \in DOMAIN status : /\ status[j] = "told" /\ Fault /\ JobEnds(j, "bare")
    BY <1>6 DEF JobEndsBare
  <2>2. faults' \in Nat
    BY <1>1, <2>1 DEF Fault
  <2> QED  BY <2>1, <2>2, JobEnding
<1> QED  BY <1>2, <1>3, <1>4, <1>5, <1>6

-----------------------------------------------------------------------------
(* Steps to the removal of the tweaks *)

LEMMA MidFacts ==
  ASSUME PInv
  PROVE  /\ Setup /\ Typed /\ conf \in Nat /\ iter \in Nat /\ m \in 0 .. Flow /\ Flow \in {2, 3} /\ Ms = 1 .. Flow
         /\ at \in {"finish", "finishing", "finally", "collect"} => m \in Ms
         /\ faults \in Nat /\ todo \in Seq(Steps)
         /\ status \in [DOMAIN status -> Hows] /\ DOMAIN status \subseteq JobSet
<1>1. Typed
  BY DEF PInv
<1>2. Setup /\ conf \in Nat /\ iter \in Nat
  BY <1>1, SetupOf
<1>3. Flow \in {2, 3} /\ Ms = 1 .. Flow
  BY <1>2, TheKinds
<1>4. /\ m \in 0 .. Flow /\ faults \in Nat /\ todo \in Seq(Steps)
      /\ status \in [DOMAIN status -> Hows] /\ DOMAIN status \subseteq JobSet
      /\ at \in {"finish", "finishing", "finally", "collect"} => m > 0
  BY <1>1 DEF Typed
<1> QED  BY <1>1, <1>2, <1>3, <1>4

\* While nothing is measured, nothing runs.
LEMMA Quiet ==
  ASSUME PInv, at \in {"apply", "iteration", "collect", "report"}
  PROVE  \A j : ~Runs(j)
<1>1. \A j \in DOMAIN status : ~Runs(j)
  BY DEF PInv, Running, MayRun
<1>2. \A j : Runs(j) => j \in DOMAIN status
  BY DEF Runs, How, Known
<1> QED  BY <1>1, <1>2

LEMMA PastKept ==
  ASSUME Past, UNCHANGED <<plan, shared, running>>, DOMAIN status' = DOMAIN status
  PROVE  Past'
<1>1. UNCHANGED plan
  OBVIOUS
<1>2. Ms' = Ms /\ (\A k : IsPerf(k)' <=> IsPerf(k)) /\ (\A j : Dated(j)' <=> Dated(j))
  BY <1>1, SamePlan
<1> QED  BY <1>2 DEF Past

\* what still runs when an exception leaves start or finish
LEMMA RunsOn ==
  ASSUME PInv, UNCHANGED <<plan, status>>, at' = "remove",
         \A j \in DOMAIN status : \A k \in Ms : MayRun(k, j) /\ j \in Rs(k) =>
            \E r \in raised' : r.in \in {"start", "finish", "finally"} /\ MayStillRun(r, j)
  PROVE  Running'
<1>1. UNCHANGED plan
  OBVIOUS
<1>2. /\ Ms' = Ms /\ (\A k : Rs(k)' = Rs(k)) /\ (\A r, j : MayStillRun(r, j)' <=> MayStillRun(r, j))
  BY <1>1, SamePlan
<1>3. \A j : Runs(j)' <=> Runs(j)
  BY DEF Runs, How, Known
<1>4. \A k, j : (\E r \in raised' : r.in \in {"start", "finish", "finally"} /\ MayStillRun(r, j)) => MayRun(k, j)'
  BY <1>2 DEF MayRun
<1>5. Running
  BY DEF PInv
<1> QED  BY <1>2, <1>3, <1>4, <1>5 DEF Running

LEMMA QuietEndings ==
  ASSUME PInv, StartIterationRaises \/ IterationsOver \/ CollectRaises
  PROVE  PInv'
<1>1. /\ at \in {"iteration", "collect"} /\ EndsTest /\ m' = m /\ status' = status
      /\ faults' \in Nat /\ raised \subseteq raised'
  BY MidFacts DEF StartIterationRaises, IterationsOver, CollectRaises, StopAt, EndsTest, Fault
<1>2. Past'
  BY <1>1, PastKept DEF PInv, EndsTest, lists
<1>3. Running'
  <2>1. \A j : ~Runs(j)
    BY <1>1, Quiet
  <2>2. \A j : ~Runs(j)'
    BY <1>1, <2>1 DEF Runs, How, Known
  <2> QED  BY <2>2 DEF Running
<1> QED  BY <1>1, <1>2, <1>3, MidFacts, Ending DEF Mid

LEMMA FinallyIsOver ==
  ASSUME PInv, FinallyOver
  PROVE  PInv'
<1>1. /\ at = "finally" /\ todo = <<>> /\ EndsTest /\ m' = m /\ status' = status
      /\ faults' = faults /\ raised' = raised
  BY DEF FinallyOver, EndsTest
<1>2. Past'
  BY <1>1, PastKept DEF PInv, EndsTest, lists
<1>3. m \in Ms /\ Ms = 1 .. Flow /\ Flow \in {2, 3} /\ Setup /\ conf \in Nat /\ iter \in Nat
  BY <1>1, MidFacts
<1>4. PICK r \in raised : r.in = "finish" /\ r.m = m
  BY <1>1 DEF PInv, Typed
<1>5. ASSUME NEW j, NEW k \in Ms, MayRun(k, j), j \in Rs(k)
      PROVE  MayStillRun(r, j)
  <2>1. k < m \/ (k = m /\ (IsPerf(k) \/ IsSimulated(k)))
    BY <1>1, <1>5 DEF MayRun, WillEnd
  <2>2. j.of = Kinds[k] /\ k \in 1 .. r.m
    BY <1>3, <1>4, <1>5, <2>1, InRs
  <2> QED  BY <1>4, <2>1, <2>2 DEF MayStillRun, IsPerf
<1>6. Running'
  <2>1. UNCHANGED <<plan, status>> /\ at' = "remove"
    BY <1>1 DEF EndsTest
  <2> QED  BY <1>1, <1>4, <1>5, <2>1, RunsOn
<1> QED  BY <1>1, <1>2, <1>6, MidFacts, Ending DEF Mid

\* A call of finish raises, and no kill is left.
LEMMA FinishStops ==
  ASSUME PInv, at \in {"finish", "finally"}, todo # <<>>, EndsTest, m' = m, UNCHANGED status, faults' \in Nat,
         NEW w \in {"finish", "finally"}, raised' = raised \union {[in |-> w, m |-> m]},
         w = "finally" \/ (Head(todo).op # "kill" /\ \A i \in DOMAIN todo : todo[i].op # "kill")
  PROVE  PInv'
<1>1. Past'
  BY PastKept DEF PInv, EndsTest, lists
<1>2. m \in Ms /\ Ms = 1 .. Flow /\ Flow \in {2, 3} /\ Setup /\ conf \in Nat /\ iter \in Nat
  BY MidFacts
<1> DEFINE r == [in |-> w, m |-> m]
<1>3. ASSUME NEW j, NEW k \in Ms, MayRun(k, j), j \in Rs(k)
      PROVE  MayStillRun(r, j)
  <2>1. k < m \/ (k = m /\ (IsPerf(k) \/ IsSimulated(k) \/ WillEnd(k, j)))
    BY <1>3 DEF MayRun
  <2>2. j.of = Kinds[k] /\ k \in 1 .. m
    BY <1>2, <1>3, <2>1, InRs
  <2>3. CASE w = "finally"
    BY <2>2, <2>3 DEF MayStillRun
  <2>4. CASE w # "finally"
    <3>1. WillEnd(k, j) => IsPerf(k) \/ IsSimulated(k)
      BY <2>4 DEF WillEnd, Ends
    <3> QED  BY <2>1, <2>2, <3>1 DEF MayStillRun, IsPerf
  <2> QED  BY <2>3, <2>4
<1>4. Running'
  <2>1. UNCHANGED <<plan, status>> /\ at' = "remove"
    BY DEF EndsTest
  <2>2. r \in raised' /\ r.in \in {"start", "finish", "finally"}
    OBVIOUS
  <2> QED  BY <1>3, <2>1, <2>2, RunsOn
<1> QED  BY <1>1, <1>4, MidFacts, Ending DEF Mid

LEMMA ShiftBack ==
  ASSUME NEW n \in Nat, NEW i \in 1 .. n, NEW x \in 1 .. n, x \notin 1 .. i - 1
  PROVE  x - i + 1 \in 1 .. n - i + 1 /\ (x - i + 1) + i - 1 = x
OBVIOUS

\* A call of finish raises, and the kills of its finally are left.
LEMMA FinallyBegins ==
  ASSUME PInv, at \in {"finish", "finally"}, at' = "finally", NEW i \in DOMAIN todo,
         todo[i].op = "kill", \A l \in 1 .. i - 1 : todo[l].op # "kill", todo' = SubSeq(todo, i, Len(todo)),
         raised' = raised \union {[in |-> "finish", m |-> m]},
         UNCHANGED <<plan, m, status, lists, found, tweaks>>, faults' \in Nat
  PROVE  PInv'
<1> DEFINE r == [in |-> "finish", m |-> m]
<1>1. UNCHANGED plan /\ UNCHANGED lists
  OBVIOUS
<1>2. /\ m \in Ms /\ Ms = 1 .. Flow /\ Flow \in {2, 3} /\ Setup /\ Typed /\ conf \in Nat /\ iter \in Nat
      /\ todo \in Seq(Steps)
  BY MidFacts
<1>3. /\ Ms' = Ms /\ Flow' = Flow /\ setup' = setup /\ conf' = conf /\ iter' = iter
      /\ \A k : /\ Rs(k)' = Rs(k) /\ (IsPerf(k)' <=> IsPerf(k)) /\ (IsSimulated(k)' <=> IsSimulated(k))
                /\ \A x : Ends(k, x)' <=> Ends(k, x)
  BY <1>1, SamePlan
<1>4. i \in 1 .. Len(todo) /\ Len(todo) \in Nat /\ DOMAIN todo = 1 .. Len(todo)
  BY <1>2
<1>5. /\ todo' \in Seq(Steps) /\ DOMAIN todo' = 1 .. Len(todo) - i + 1
      /\ \A x \in DOMAIN todo' : todo'[x] = todo[x + i - 1] /\ x + i - 1 \in DOMAIN todo
  <2>1. todo' \in Seq(Steps) /\ Len(todo') = Len(todo) - i + 1 /\ DOMAIN todo' = 1 .. Len(todo')
    BY <1>2, <1>4
  <2>2. \A x \in 1 .. Len(todo) - i + 1 : todo'[x] = todo[x + i - 1]
    BY <1>2, <1>4
  <2>3. \A x \in 1 .. Len(todo) - i + 1 : x + i - 1 \in 1 .. Len(todo)
    BY <1>4
  <2> QED  BY <1>4, <2>1, <2>2, <2>3
<1>6. Typed'
  <2>1. /\ running' = running /\ finished' = finished /\ shared' = shared /\ own' = own
        /\ used' = used /\ verdict' = verdict /\ clean' = clean /\ m' = m /\ status' = status
    BY DEF lists, found
  <2>2. r \in raised' /\ r.in = "finish" /\ r.m = m
    OBVIOUS
  <2> HIDE DEF r
  <2>3. \E x \in raised' : x.in = "finish" /\ x.m = m
    BY <2>2
  <2>4. m > 0
    BY <1>2
  <2> QED  BY ONLY <1>2, <1>3, <1>5, <2>1, <2>3, <2>4, at' = "finally", faults' \in Nat DEF Typed, Places
<1>7. Past'
  BY PastKept DEF PInv, lists
<1>8. Starting' /\ Lists' /\ Echoed' /\ Covered'
  BY DEF Starting, Lists, Echoed, Covered
<1>9. Results'
  BY <1>1, ResultsKept DEF PInv, found
<1>10. Tweaks'
  BY <1>2, TweaksKept DEF PInv, Mid, tweaks, plan
<1>11. OwnSteps'
  <2>1. \A x \in DOMAIN todo : /\ todo[x].job \in JobSet /\ todo[x].op \in FinishOps
                               /\ IF IsPerf(m) THEN todo[x].job.of = "LinuxPerf" ELSE todo[x].job \in Rs(m)
    BY DEF PInv, OwnSteps
  <2>2. m' = m
    OBVIOUS
  <2> QED  BY ONLY <1>3, <1>5, <2>1, <2>2 DEF OwnSteps
<1>12. Running'
  <2>1. ASSUME NEW j, NEW k \in Ms, MayRun(k, j)
        PROVE  MayRun(k, j)'
    <3>1. k < m \/ (k = m /\ (IsPerf(k) \/ IsSimulated(k) \/ WillEnd(k, j)))
      BY <2>1 DEF MayRun
    <3>2. ASSUME WillEnd(k, j), ~IsPerf(k), ~IsSimulated(k)
          PROVE  WillEnd(k, j)'
      <4>1. PICK x \in DOMAIN todo : todo[x].job = j /\ Ends(k, todo[x])
        BY <3>2 DEF WillEnd
      <4>2. todo[x].op = "kill"
        BY <3>2, <4>1 DEF Ends
      <4>3. ~(x \in 1 .. i - 1)
        BY <4>2
      <4>4. x - i + 1 \in 1 .. Len(todo) - i + 1 /\ (x - i + 1) + i - 1 = x
        <5>1. x \in 1 .. Len(todo)
          BY <1>4
        <5> QED  BY ONLY <1>4, <4>3, <5>1, ShiftBack
      <4>5. x - i + 1 \in DOMAIN todo' /\ todo'[x - i + 1] = todo[x]
        BY ONLY <1>5, <4>4
      <4> QED  BY ONLY <1>3, <4>1, <4>5 DEF WillEnd
    <3>3. m' = m
      OBVIOUS
    <3> QED  BY ONLY <1>3, <3>1, <3>2, <3>3, at' = "finally" DEF MayRun
  <2>2. \A j : Runs(j)' <=> Runs(j)
    BY DEF Runs, How, Known
  <2>3. Running /\ status' = status
    BY DEF PInv
  <2> QED  BY ONLY <1>3, <2>1, <2>2, <2>3 DEF Running
<1> QED  BY <1>6, <1>7, <1>8, <1>9, <1>10, <1>11, <1>12 DEF PInv

LEMMA CallsRaise ==
  ASSUME PInv, CallRaises
  PROVE  PInv'
<1>1. /\ at \in {"finish", "finally"} /\ todo # <<>> /\ faults' \in Nat
      /\ UNCHANGED <<plan, m, status, lists, found, tweaks>>
  BY MidFacts DEF CallRaises, Fault
<1>2. CASE Head(todo).op # "kill" /\ \E i \in DOMAIN todo : todo[i].op = "kill"
  <2>1. /\ at' = "finally"
        /\ \E i \in DOMAIN todo :
             /\ todo[i].op = "kill" /\ \A l \in 1 .. i - 1 : todo[l].op # "kill"
             /\ todo' = SubSeq(todo, i, Len(todo))
        /\ raised' = raised \cup {[in |-> "finish", m |-> m]}
    BY <1>2 DEF CallRaises
  <2> QED  BY <1>1, <2>1, FinallyBegins
<1>3. CASE ~(Head(todo).op # "kill" /\ \E i \in DOMAIN todo : todo[i].op = "kill")
  <2>1. StopAt(m, IF Head(todo).op = "kill" THEN "finally" ELSE "finish")
    BY <1>3 DEF CallRaises
  <2>2. EndsTest
    BY <1>1, <2>1 DEF StopAt, EndsTest
  <2>3. CASE Head(todo).op = "kill"
    <3>1. raised' = raised \union {[in |-> "finally", m |-> m]}
      BY <2>1, <2>3 DEF StopAt
    <3> QED  BY <1>1, <2>2, <3>1, FinishStops
  <2>4. CASE Head(todo).op # "kill"
    <3>1. raised' = raised \union {[in |-> "finish", m |-> m]}
      BY <2>1, <2>4 DEF StopAt
    <3>2. \A i \in DOMAIN todo : todo[i].op # "kill"
      BY <1>3, <2>4
    <3> QED  BY <1>1, <2>2, <2>4, <3>1, <3>2, FinishStops
  <2> QED  BY <2>3, <2>4
<1> QED  BY <1>2, <1>3

-----------------------------------------------------------------------------
(* Starting the measurements *)

LEMMA TweaksApplied ==
  ASSUME PInv, Applied
  PROVE  PInv'
<1>1. /\ at = "apply" /\ todo = <<>> /\ at' = "iteration" /\ UNCHANGED plan
      /\ UNCHANGED <<m, todo, status, lists, found, tweaks, raised, faults>>
  BY DEF Applied
<1>2. /\ running' = running /\ finished' = finished /\ shared' = shared /\ own' = own
      /\ used' = used /\ verdict' = verdict /\ clean' = clean /\ m' = m /\ todo' = todo /\ status' = status
      /\ raised' = raised /\ faults' = faults
      /\ frag' = frag /\ rules' = rules /\ noted' = noted /\ untweaked' = untweaked /\ unheard' = unheard
  BY <1>1 DEF lists, found, tweaks
<1>3. /\ Ms' = Ms /\ Flow' = Flow /\ setup' = setup /\ conf' = conf /\ iter' = iter /\ Kinds' = Kinds
      /\ \A k : IsPerf(k)' <=> IsPerf(k)
      /\ \A k : IsRDMA(k)' <=> IsRDMA(k)
  BY <1>1, SamePlan
<1>4. Typed /\ Lists /\ Tweaks
  BY DEF PInv
<1>5. Typed'
  BY ONLY <1>1, <1>2, <1>3, <1>4 DEF Typed, Places
<1>6. Past'
  BY <1>1, PastKept DEF PInv, lists
<1>7. Starting' /\ Echoed' /\ OwnSteps' /\ Covered'
  BY <1>1 DEF Starting, Echoed, OwnSteps, Covered
<1>8. Lists'
  <2>1. iter = 0
    BY <1>1, <1>4 DEF Typed
  <2>2. \A k \in Ms : Ready(k, 1)
    BY <1>1, <1>4 DEF Lists
  <2>3. \A k \in Ms : Ready(k, iter + 1)
    BY <2>1, <2>2
  <2>4. \A k, n : Ready(k, n)' <=> Ready(k, n)
    BY <1>2, <1>3 DEF Ready
  <2>5. \A k \in Ms' : Ready(k, iter + 1)'
    BY <1>3, <2>3, <2>4
  <2> QED  BY ONLY <1>1, <1>3, <2>5 DEF Lists
<1>9. Results'
  BY <1>1, ResultsKept DEF PInv, found
<1>10. Running'
  <2>1. \A j : ~Runs(j)
    BY <1>1, Quiet
  <2>2. \A j : ~Runs(j)'
    BY <1>2, <2>1 DEF Runs, How, Known
  <2> QED  BY <2>2 DEF Running
<1>11. Tweaks'
  <2>1. Left = {}
    BY <1>1 DEF Left
  <2>2. Changed' = Changed
    BY <1>1, <1>3, <2>1 DEF Changed
  <2>3. OnTweaks' <=> OnTweaks
    BY <1>2 DEF OnTweaks
  <2>4. \A h : AsMeant(h) => AsMeant(h)'
    BY <1>1, <1>2, <1>3, <2>2, AsMeantKept
  <2> QED  BY ONLY <1>1, <1>2, <1>3, <1>4, <2>3, <2>4 DEF Tweaks
<1> QED  BY <1>5, <1>6, <1>7, <1>8, <1>9, <1>10, <1>11 DEF PInv

LEMMA SameKinds ==
  ASSUME setup' = setup
  PROVE  /\ Kinds' = Kinds /\ Flow' = Flow /\ Ms' = Ms
         /\ \A k : /\ IsPerf(k)' <=> IsPerf(k)
                   /\ IsRDMA(k)' <=> IsRDMA(k)
                   /\ IsSimulated(k)' <=> IsSimulated(k)
                   /\ Lenient(k)' <=> Lenient(k)
<1>1. Kinds' = Kinds
  BY DEF Kinds
<1> QED  BY <1>1 DEF Flow, Ms, IsPerf, IsRDMA, IsSimulated, Lenient, IsMadeUp

LEMMA IterationsStart ==
  ASSUME PInv, StartIteration
  PROVE  PInv'
<1>1. /\ at = "iteration" /\ iter' = iter + 1 /\ at' = "start" /\ m' = 0 /\ todo' = <<>>
      /\ status' = Restrict(status, DOMAIN status \cap ToSet(shared))
      /\ used' = [k \in Ms |-> <<>>]
      /\ UNCHANGED <<setup, conf, lists, parts, verdict, clean, tweaks, raised, faults>>
  BY DEF StartIteration
<1>2. /\ running' = running /\ finished' = finished /\ shared' = shared /\ own' = own
      /\ verdict' = verdict /\ clean' = clean /\ raised' = raised /\ faults' = faults
      /\ frag' = frag /\ rules' = rules /\ noted' = noted /\ untweaked' = untweaked /\ unheard' = unheard
      /\ setup' = setup /\ conf' = conf
  BY <1>1 DEF lists, tweaks
<1>3. /\ Ms' = Ms /\ Flow' = Flow /\ Kinds' = Kinds
      /\ \A k : (IsPerf(k)' <=> IsPerf(k)) /\ (IsRDMA(k)' <=> IsRDMA(k)) /\ (Lenient(k)' <=> Lenient(k))
  BY <1>2, SameKinds
<1>4. Typed /\ Past /\ Lists /\ Tweaks /\ Results /\ Setup /\ conf \in Nat /\ iter \in Nat /\ Flow \in {2, 3}
  BY MidFacts DEF PInv
<1>5. /\ DOMAIN status' \subseteq DOMAIN status
      /\ \A j \in DOMAIN status' : status'[j] = status[j]
      /\ status' \in [DOMAIN status' -> Hows]
  <2>1. status' = [j \in DOMAIN status \cap ToSet(shared) |-> status[j]]
    BY <1>1 DEF Restrict
  <2>2. status \in [DOMAIN status -> Hows]
    BY <1>4 DEF Typed
  <2> QED  BY <2>1, <2>2
<1>6. Typed'
  <2>1. used' \in [Ms -> Seq(JobSet)]
    BY <1>1
  <2>2. todo' \in Seq(Steps) /\ 0 \in 0 .. Flow /\ iter' \in Nat /\ iter' > 0
    BY <1>1, <1>4
  <2>3. raised = {}
    BY <1>1, <1>4 DEF Typed
  <2>4. DOMAIN status' \subseteq JobSet
    BY <1>4, <1>5 DEF Typed
  <2> QED  BY ONLY <1>1, <1>2, <1>3, <1>4, <1>5, <2>1, <2>2, <2>3, <2>4 DEF Typed, Places
<1>7. \A j \in JobSet : Dated(j) => Dated(j)' /\ ~Current(j)'
  <2> SUFFICES ASSUME NEW j \in JobSet, Dated(j)
               PROVE  Dated(j)' /\ ~Current(j)'
    OBVIOUS
  <2>1. j.conf \in Nat /\ j.iter \in Nat
    BY DEF JobSet
  <2> QED  BY <1>1, <1>2, <1>4, <2>1 DEF Dated, Current
<1>8. Past'
  <2>1. DOMAIN status \subseteq JobSet /\ \A i \in DOMAIN shared : shared[i] \in JobSet
    BY <1>4 DEF Typed
  <2> QED  BY <1>2, <1>3, <1>4, <1>5, <1>7, <2>1 DEF Past
<1>9. \A j \in DOMAIN status' : ~Current(j)'
  BY <1>4, <1>5, <1>7 DEF Typed, Past
<1>10. Starting'
  <2>1. \A k \in Ms' : ~(k < m')
    BY <1>1, <1>3, <1>4, TheKinds
  <2>2. ~(m' > 0)
    BY <1>1
  <2> QED  BY ONLY <1>1, <1>9, <2>1, <2>2 DEF Starting
<1>11. Lists'
  <2>1. \A k, n : Ready(k, n)' <=> Ready(k, n)
    BY <1>2, <1>3 DEF Ready
  <2>2. \A k \in Ms : Ready(k, iter + 1)
    BY <1>1, <1>4 DEF Lists
  <2>3. \A k \in Ms : \A n : n = iter + 1 => Ready(k, n)'
    BY <2>1, <2>2
  <2>4. \A k \in Ms' : ~(k < m')
    BY <1>1, <1>3, <1>4, TheKinds
  <2>5. \A k \in Ms' : Ready(k, iter)'
    BY ONLY <1>1, <1>3, <2>3
  <2>6. ~(m' > 0)
    BY <1>1
  <2> QED  BY ONLY <1>1, <2>4, <2>5, <2>6 DEF Lists
<1>12. Echoed'
  BY ONLY <1>1, <1>9 DEF Echoed
<1>13. Results'
  <2>1. \A k \in Ms : used'[k] = <<>>
    BY <1>1
  <2>2. \A k \in Ms : ~IsPerf(k) => verdict[k] = clean[k] \/ (Lenient(k) /\ verdict[k])
    BY <1>4 DEF Results
  <2> QED  BY ONLY <1>2, <1>3, <2>1, <2>2 DEF Results
<1>14. Running'
  <2>1. \A j : ~Runs(j)
    BY <1>1, Quiet
  <2>2. \A j : ~Runs(j)'
    BY <1>5, <2>1 DEF Runs, How, Known
  <2> QED  BY <2>2 DEF Running
<1>15. OwnSteps' /\ Covered'
  BY <1>1 DEF OwnSteps, Covered
<1>16. Tweaks'
  BY <1>1, <1>2, <1>4, TweaksKept DEF Mid, tweaks
<1> QED  BY <1>6, <1>8, <1>10, <1>11, <1>12, <1>13, <1>14, <1>15, <1>16 DEF PInv

\* When all jobs of measurement m are started, its list is complete.
LEMMA ListedAll ==
  ASSUME PInv, at = "start", todo = <<>>, m > 0
  PROVE  Listed(m) /\ \A j \in Rs(m) : Known(j)
<1>1. /\ Setup /\ conf \in Nat /\ iter \in Nat /\ m \in Ms
  BY MidFacts
<1>2. /\ Test(m) \in Seq(JobSet) /\ Len(Test(m)) \in 1 .. 4 /\ DOMAIN Test(m) = 1 .. Len(Test(m))
  BY <1>1, TestFacts
<1>3. Done = Len(Test(m))
  BY <1>2 DEF Done
<1>4. Listing /\ \A y \in DOMAIN Test(m) : (y <= Done <=> Known(Test(m)[y]))
  BY DEF PInv, Lists, Starting
<1>5. \A j \in Rs(m) : Known(j)
  BY <1>2, <1>3, <1>4 DEF Rs, ToSet
<1>6. CASE IsPerf(m)
  <2>1. Rs(m) \subseteq ToSet(List(m))
    BY <1>2, <1>3, <1>4, <1>6 DEF Listing, Rs, ToSet
  <2>2. ASSUME ~Stale
        PROVE  List(m) = Test(m)
    <3>1. Len(List(m)) = Len(Test(m)) /\ \A y \in 1 .. Len(Test(m)) : List(m)[y] = Test(m)[y]
      BY <1>3, <1>4, <1>6, <2>2 DEF Listing, Prefix
    <3>2. List(m) \in Seq(JobSet)
      BY <1>1 DEF PInv, Typed, List
    <3> QED  BY <1>2, <3>1, <3>2
  <2> QED  BY <1>5, <1>6, <2>1, <2>2 DEF Listed
<1>7. CASE ~IsPerf(m)
  BY <1>4, <1>5, <1>7 DEF Listing, Listed
<1> QED  BY <1>5, <1>6, <1>7

LEMMA Entering ==
  ASSUME PInv, at = "start", todo = <<>>, NEW k0 \in Ms, k0 = m + 1, Enter(k0), UNCHANGED <<at, raised>>,
         UNCHANGED <<plan, status, finished, shared, own, found, tweaks, faults>>
  PROVE  PInv'
<1>1. /\ UNCHANGED plan /\ m' = k0 /\ todo' = Do("start", Test(k0))
      /\ running' = [running EXCEPT ![k0] = IF IsRDMA(k0) THEN @ \o Test(k0) ELSE @]
  BY DEF Enter, IsRDMA
<1>2. /\ finished' = finished /\ shared' = shared /\ own' = own /\ at' = at
      /\ used' = used /\ verdict' = verdict /\ clean' = clean /\ status' = status
      /\ raised' = raised /\ faults' = faults
      /\ frag' = frag /\ rules' = rules /\ noted' = noted /\ untweaked' = untweaked /\ unheard' = unheard
  BY DEF found, tweaks
<1>3. /\ Ms' = Ms /\ Flow' = Flow /\ setup' = setup /\ conf' = conf /\ iter' = iter /\ Kinds' = Kinds
      /\ (Stale' <=> Stale)
      /\ \A k : /\ Rs(k)' = Rs(k) /\ Test(k)' = Test(k)
                /\ (IsPerf(k)' <=> IsPerf(k)) /\ (IsRDMA(k)' <=> IsRDMA(k)) /\ (IsSimulated(k)' <=> IsSimulated(k))
      /\ \A j : (Current(j)' <=> Current(j)) /\ (Echoes(j)' <=> Echoes(j)) /\ (Dated(j)' <=> Dated(j))
  BY <1>1, SamePlan
<1>4. /\ Setup /\ Typed /\ conf \in Nat /\ iter \in Nat /\ Flow \in {2, 3} /\ Ms = 1 .. Flow /\ m \in 0 .. Flow
      /\ Past /\ Starting /\ Lists /\ Echoed /\ Running
  BY MidFacts DEF PInv
<1>5. k0 \in Ms /\ k0 \in 0 .. Flow /\ k0 > 0 /\ \A k \in Ms : (k < k0 <=> k < m \/ k = m) /\ (k > k0 => k > m)
  BY <1>4
<1>6. /\ Test(k0) \in Seq(JobSet) /\ Len(Test(k0)) \in 1 .. 4 /\ DOMAIN Test(k0) = 1 .. Len(Test(k0))
  BY <1>4, <1>5, TestFacts
<1>7. /\ todo' \in Seq(Steps) /\ Len(todo') = Len(Test(k0)) /\ DOMAIN todo' = DOMAIN Test(k0) /\ todo' # <<>>
      /\ \A x \in DOMAIN Test(k0) : todo'[x] = [op |-> "start", job |-> Test(k0)[x]]
  <2>1. /\ Do("start", Test(k0)) \in Seq(Steps) /\ Len(Do("start", Test(k0))) = Len(Test(k0))
        /\ \A x \in DOMAIN Test(k0) : Do("start", Test(k0))[x] = [op |-> "start", job |-> Test(k0)[x]]
    BY <1>6, DoFacts DEF Ops
  <2> QED  BY <1>1, <1>6, <2>1
<1>8. running \in [Ms -> Seq(JobSet)] /\ Ready(k0, iter)
  BY <1>4, <1>5 DEF Typed, Lists
<1>9. /\ running' \in [Ms -> Seq(JobSet)]
      /\ \A k \in Ms : k # k0 => running'[k] = running[k]
      /\ IsRDMA(k0) => running'[k0] = Test(k0)
      /\ ~IsRDMA(k0) => running'[k0] = running[k0]
  <2>1. CASE IsRDMA(k0)
    <3>1. running[k0] = <<>>
      BY <1>8, <2>1 DEF Ready
    <3>2. running[k0] \o Test(k0) = Test(k0)
      BY <1>6, <3>1
    <3>3. running' = [running EXCEPT ![k0] = Test(k0)]
      BY <1>1, <2>1, <3>2
    <3> QED  BY ONLY <1>5, <1>6, <1>8, <2>1, <3>3
  <2>2. CASE ~IsRDMA(k0)
    <3>1. running' = [running EXCEPT ![k0] = running[k0]]
      BY <1>1, <2>2
    <3> QED  BY ONLY <1>5, <1>8, <2>2, <3>1
  <2> QED  BY <2>1, <2>2
<1>10. Typed'
  <2>1. m' \in 0 .. Flow /\ m' # 0 /\ at' = "start"
    BY <1>1, <1>2, <1>5
  <2>2. running' \in [Ms -> Seq(JobSet)] /\ todo' \in Seq(Steps)
    BY <1>7, <1>9
  <2> QED  BY ONLY <1>2, <1>3, <1>4, <2>1, <2>2, at = "start" DEF Typed
<1>11. Past'
  <2>1. IsPerf(k0) => ~IsRDMA(k0)
    BY <1>4, <1>5, TheFlow
  <2>2. \A k \in Ms : IsPerf(k) => running'[k] = running[k]
    BY <1>9, <2>1
  <2> QED  BY ONLY <1>2, <1>3, <1>4, <2>2 DEF Past
<1>12. Done' = 0
  <2>1. Len(todo') = Len(Test(m)')
    BY ONLY <1>1, <1>3, <1>7
  <2>2. Len(todo') \in Nat
    BY <1>6, <1>7
  <2> QED  BY ONLY <2>1, <2>2 DEF Done
<1>13. Starting'
  <2>1. ASSUME NEW j \in Rs(k0)
        PROVE  ~Known(j)
    <3>1. Current(j)
      BY <1>4, <1>5, InRs
    <3>2. ASSUME NEW k \in Ms, k <= m, j \in Rs(k)
          PROVE  FALSE
      <4>1. k = k0
        BY <1>4, <1>5, <2>1, <3>2, OneTest
      <4> QED  BY <1>4, <3>2, <4>1 
    <3> QED  BY <1>4, <3>1, <3>2 DEF Starting, Known
  <2>2. \A y \in DOMAIN Test(k0) : ~Known(Test(k0)[y]) /\ ~(y <= 0) /\ 0 + y = y
    BY <1>6, <2>1 DEF Rs, ToSet
  <2>3. \A k \in Ms : k < k0 => \A j \in Rs(k) : Known(j)
    <3>1. m > 0 => \A j \in Rs(m) : Known(j)
      BY ListedAll
    <3>2. \A k \in Ms : k > 0
      BY <1>4
    <3> QED  BY <1>4, <1>5, <3>1, <3>2 DEF Starting
  <2>4. \A j \in DOMAIN status : Current(j) =>
          status[j] \in {"running", "passed", "failed"} /\ \E k \in Ms : k <= k0 /\ j \in Rs(k)
    <3>1. \A k \in Ms : k <= m => k <= k0
      BY <1>4 
    <3> QED  BY <1>4, <3>1 DEF Starting
  <2>5. \A j : Known(j)' <=> Known(j)
    BY <1>2 DEF Known
  <2>6. \A x \in DOMAIN todo' : todo'[x].op = "start" /\ todo'[x].job = Test(k0)[0 + x]
    BY <1>7, <2>2
  <2>7. Len(todo') <= Len(Test(k0))
    BY <1>6, <1>7
  <2> QED  BY ONLY <1>1, <1>2, <1>3, <1>7, <1>12, <2>2, <2>3, <2>4, <2>5, <2>6, <2>7, at = "start" DEF Starting
<1>14. Lists'
  <2>1. \A k, n : k # k0 /\ k \in Ms => (Ready(k, n)' <=> Ready(k, n))
    BY <1>2, <1>3, <1>9 DEF Ready
  <2>2. \A k \in Ms : k > k0 => Ready(k, iter)'
    <3>1. \A k \in Ms : k > k0 => k # k0 /\ Ready(k, iter)
      BY <1>4, <1>5 DEF Lists
    <3>2. \A k \in Ms : \A n : k > k0 /\ n = iter => Ready(k, n)'
      BY <2>1, <3>1
    <3> QED  BY <1>3, <3>2
  <2>3. \A k \in Ms : k # k0 => List(k)' = List(k)
    BY <1>2, <1>3, <1>9 DEF List
  <2>4. \A k \in Ms : k # k0 => (Listed(k)' <=> Listed(k))
    BY ONLY <1>3, <1>9, <2>3 DEF Listed
  <2>5. \A k \in Ms : k < k0 => Listed(k)'
    <3>1. m > 0 => Listed(m)
      BY ListedAll
    <3>2. \A k \in Ms : k < k0 => Listed(k) /\ k # k0
      BY <1>4, <1>5, <3>1 DEF Lists
    <3> QED  BY <2>4, <3>2
  <2>6. Listing'
    <3>1. CASE IsPerf(k0)
      <4>1. ~IsRDMA(k0)
        BY <1>4, <1>5, <3>1, TheFlow
      <4>2. List(k0)' = List(k0)
        BY <1>2, <1>3, <1>9, <4>1 DEF List
      <4>3. ASSUME ~Stale
            PROVE  List(k0) = <<>>
        <5>1. CASE iter = 1
          <6>1. conf = 1
            BY <1>4, <4>3, <5>1 DEF Stale, Typed
          <6> QED  BY <1>8, <3>1, <5>1, <6>1 DEF Ready, List, IsPerf
        <5>2. CASE iter # 1
          BY <1>8, <3>1, <5>2 DEF Ready, List
        <5> QED  BY <5>1, <5>2
      <4>4. ~Stale => Prefix(List(k0), Test(k0), 0)
        BY <4>3 DEF Prefix
      <4>5. \A y : y \notin 1 .. 0
        OBVIOUS
      <4> QED  BY ONLY <1>1, <1>3, <1>12, <3>1, <4>2, <4>4, <4>5 DEF Listing, Prefix
    <3>2. CASE ~IsPerf(k0)
      BY ONLY <1>1, <1>3, <1>7, <1>9, <3>2 DEF Listing
    <3> QED  BY <3>1, <3>2
  <2> QED  BY ONLY <1>1, <1>2, <1>3, <2>2, <2>5, <2>6, at = "start" DEF Lists
<1>15. Echoed'
  BY ONLY <1>2, <1>3, <1>4, at = "start" DEF Echoed
<1>16. Results'
  BY <1>1, <1>2, <1>4, ResultsKept DEF PInv
<1>17. Running'
  <2>1. \A j : Runs(j)' <=> Runs(j)
    BY <1>2 DEF Runs, How, Known
  <2>2. \A k \in Ms : k <= m => k <= k0
    BY <1>4 
  <2>3. \A j : \A k \in Ms : MayRun(k, j) => MayRun(k, j)'
    BY ONLY <1>1, <1>2, <2>2, at = "start" DEF MayRun
  <2> QED  BY ONLY <1>2, <1>3, <1>4, <2>1, <2>3 DEF Running
<1>18. OwnSteps' /\ Covered'
  BY <1>2 DEF OwnSteps, Covered
<1>19. Tweaks'
  BY <1>2, <1>3, <1>4, TweaksKept DEF Mid, PInv, tweaks
<1> QED  BY <1>10, <1>11, <1>13, <1>14, <1>15, <1>16, <1>17, <1>18, <1>19 DEF PInv

\* start raises: what was started is left running.
LEMMA StartStops ==
  ASSUME PInv, at = "start", EndsTest, NEW k0 \in Ms, m' = k0, m <= k0, faults' \in Nat,
         raised' = raised \union {[in |-> "start", m |-> k0]},
         NEW S \in SUBSET Rs(k0), \A j \in S : j \notin DOMAIN status, DOMAIN status' = DOMAIN status \union S,
         \A j \in DOMAIN status : status'[j] = status[j],
         \A j \in S : status'[j] = "running",
         status' \in [DOMAIN status' -> Hows]
  PROVE  PInv'
<1> DEFINE r == [in |-> "start", m |-> k0]
<1>1. /\ Setup /\ Typed /\ conf \in Nat /\ iter \in Nat /\ Flow \in {2, 3} /\ Ms = 1 .. Flow /\ m \in 0 .. Flow
      /\ DOMAIN status \subseteq JobSet
  BY MidFacts
<1>2. UNCHANGED plan /\ shared' = shared /\ running' = running
  BY DEF EndsTest, lists
<1>3. /\ Ms' = Ms /\ \A k : Rs(k)' = Rs(k) /\ (IsPerf(k)' <=> IsPerf(k))
      /\ \A j : Dated(j)' <=> Dated(j)
      /\ \A x, j : MayStillRun(x, j)' <=> MayStillRun(x, j)
  BY <1>2, SamePlan
<1>4. \A j \in S : j \in JobSet /\ Dated(j)
  <2>1. \A j \in S : j \in JobSet /\ Current(j)
    BY <1>1, InRs
  <2> QED  BY <1>1, <2>1 DEF Dated, Current
<1>5. Past'
  BY <1>2, <1>3, <1>4 DEF PInv, Past
<1>6. ASSUME NEW j \in DOMAIN status', Runs(j)'
      PROVE  \E k \in Ms : j \in Rs(k) /\ MayStillRun(r, j)
  <2>1. PICK k \in Ms : j \in Rs(k) /\ k <= k0
    <3>1. CASE j \in S
      BY <1>1, <3>1
    <3>2. CASE j \notin S
      <4>1. j \in DOMAIN status /\ Runs(j)
        BY <1>6, <3>2 DEF Runs, How, Known
      <4>2. PICK k \in Ms : j \in Rs(k) /\ MayRun(k, j)
        BY <4>1 DEF PInv, Running
      <4>3. k <= m
        BY <4>2 DEF MayRun
      <4> QED  BY <1>1, <4>2, <4>3
    <3> QED  BY <3>1, <3>2
  <2>2. j.of = Kinds[k] /\ k \in 1 .. k0
    BY <1>1, <2>1, InRs
  <2> QED  BY <2>1, <2>2 DEF MayStillRun
<1>7. Running'
  <2>1. r \in raised' /\ r.in \in {"start", "finish", "finally"}
    OBVIOUS
  <2> HIDE DEF r
  <2>2. \A k, j : MayStillRun(r, j) => MayRun(k, j)'
    BY <1>3, <2>1 DEF MayRun, EndsTest
  <2> QED  BY <1>3, <1>6, <2>2 DEF Running
<1>8. DOMAIN status' \subseteq JobSet
  BY <1>1, <1>4
<1>9. m' \in 0 .. Flow
  BY <1>1
<1> QED  BY <1>5, <1>7, <1>8, <1>9, Ending DEF Mid

LEMMA NextStarts ==
  ASSUME PInv, NextStart
  PROVE  PInv'
<1>1. /\ at = "start" /\ todo = <<>> /\ m < Flow
      /\ UNCHANGED <<plan, status, finished, shared, own, found, tweaks, faults>>
  BY DEF NextStart, Flow
<1>2. m + 1 \in Ms /\ m <= m + 1 /\ faults' \in Nat /\ status \in [DOMAIN status -> Hows]
  BY <1>1, MidFacts
<1>3. PICK k0 \in Ms : k0 = m + 1
  BY <1>2
<1>4. CASE Kinds[k0] \in Guarded /\ running[k0] # <<>>
  <2>1. StopAt(k0, "start") /\ m' = k0 /\ running' = running
    BY <1>3, <1>4 DEF NextStart
  <2>2. EndsTest
    BY <1>1, <2>1 DEF StopAt, EndsTest, lists
  <2>3. raised' = raised \union {[in |-> "start", m |-> k0]}
    BY <2>1 DEF StopAt
  <2>4. {} \in SUBSET Rs(k0) /\ DOMAIN status' = DOMAIN status \union {} /\ status' = status
    BY <1>1
  <2> QED  BY <1>1, <1>2, <1>3, <2>1, <2>2, <2>3, <2>4, StartStops
<1>5. CASE ~(Kinds[k0] \in Guarded /\ running[k0] # <<>>)
  <2>1. Enter(k0) /\ UNCHANGED <<at, raised>>
    BY <1>3, <1>5 DEF NextStart
  <2> QED  BY <1>1, <1>3, <2>1, Entering
<1> QED  BY <1>4, <1>5

\* the job that start is at
LEMMA Starter ==
  ASSUME PInv, at = "start", todo # <<>>
  PROVE  /\ m \in Ms /\ m > 0 /\ Done \in Nat /\ Done + 1 \in DOMAIN Test(m) /\ Head(todo).job = Test(m)[Done + 1]
         /\ Head(todo).job \in Rs(m) /\ Head(todo).job \in JobSet
         /\ Head(todo).job \notin DOMAIN status
         /\ Test(m) \in Seq(JobSet) /\ Len(Test(m)) \in 1 .. 4 /\ DOMAIN Test(m) = 1 .. Len(Test(m))
<1>1. /\ Setup /\ conf \in Nat /\ iter \in Nat /\ Flow \in {2, 3} /\ Ms = 1 .. Flow /\ m \in 0 .. Flow
      /\ todo \in Seq(Steps) /\ Typed /\ Starting
  BY MidFacts DEF PInv
<1>2. m \in Ms /\ m > 0
  BY <1>1 DEF Typed
<1>3. /\ Test(m) \in Seq(JobSet) /\ Len(Test(m)) \in 1 .. 4 /\ DOMAIN Test(m) = 1 .. Len(Test(m))
  BY <1>1, <1>2, TestFacts
<1>4. Len(todo) \in Nat /\ Len(todo) > 0 /\ 1 \in DOMAIN todo /\ Head(todo) = todo[1]
  BY <1>1
<1>5. Len(todo) <= Len(Test(m)) /\ todo[1].job = Test(m)[Done + 1]
      /\ \A y \in DOMAIN Test(m) : y <= Done <=> Known(Test(m)[y])
  BY <1>1, <1>2, <1>4 DEF Starting
<1>6. Done \in Nat /\ Done + 1 \in DOMAIN Test(m) /\ ~(Done + 1 <= Done)
  BY <1>3, <1>4, <1>5 DEF Done
<1>7. ~Known(Test(m)[Done + 1])
  BY <1>5, <1>6
<1> QED  BY <1>2, <1>3, <1>4, <1>5, <1>6, <1>7 DEF Known, Rs, ToSet

LEMMA StartsFacts ==
  ASSUME PInv, NEW j \in JobSet, j \notin DOMAIN status, Starts(j)
  PROVE  /\ DOMAIN status' = DOMAIN status \union {j} /\ status'[j] = "running"
         /\ \A x \in DOMAIN status : status'[x] = status[x]
         /\ status' \in [DOMAIN status' -> Hows]
<1>1. status \in [DOMAIN status -> Hows]
  BY MidFacts
<1>2. status' = [x \in DOMAIN status \cup {j} |-> IF x = j THEN "running" ELSE status[x]]
  BY DEF Starts
<1> QED  BY <1>1, <1>2 DEF Hows

LEMMA StartJobsRaise ==
  ASSUME PInv, StartJobRaises
  PROVE  PInv'
<1>1. /\ at = "start" /\ todo # <<>> /\ StopAt(m, "start") /\ m' = m /\ EndsTest
      /\ Starts(Head(todo).job) \/ UNCHANGED status
  BY DEF StartJobRaises, StopAt, EndsTest
<1>2. faults' \in Nat /\ status \in [DOMAIN status -> Hows]
  BY MidFacts DEF StartJobRaises, Fault
<1>3. m \in Ms /\ Head(todo).job \in Rs(m) /\ Head(todo).job \in JobSet /\ Head(todo).job \notin DOMAIN status
  BY <1>1, Starter
<1>4. PICK k0 \in Ms : k0 = m
  BY <1>3
<1>5. PICK j \in JobSet : j = Head(todo).job
  BY <1>3
<1>6. raised' = raised \union {[in |-> "start", m |-> k0]} /\ m <= k0
  BY <1>1, <1>4, MidFacts DEF StopAt
<1>7. CASE UNCHANGED status
  <2>1. {} \in SUBSET Rs(k0) /\ DOMAIN status' = DOMAIN status \union {}
    BY <1>7
  <2> QED  BY <1>1, <1>2, <1>4, <1>6, <1>7, <2>1, StartStops
<1>8. CASE Starts(j)
  <2>1. /\ DOMAIN status' = DOMAIN status \union {j} /\ status'[j] = "running"
        /\ \A x \in DOMAIN status : status'[x] = status[x]
        /\ status' \in [DOMAIN status' -> Hows]
    BY <1>3, <1>5, <1>8, StartsFacts
  <2>2. {j} \in SUBSET Rs(k0) /\ \A x \in {j} : x \notin DOMAIN status /\ status'[x] = "running"
    BY <1>3, <1>4, <1>5, <2>1
  <2> QED  BY <1>1, <1>2, <1>4, <1>6, <2>1, <2>2, StartStops
<1> QED  BY <1>1, <1>5, <1>7, <1>8

LEMMA Appended ==
  ASSUME NEW S, NEW s \in Seq(S), NEW x \in S
  PROVE  /\ Append(s, x) \in Seq(S) /\ Len(Append(s, x)) = Len(s) + 1
         /\ Append(s, x)[Len(s) + 1] = x /\ \A i \in 1 .. Len(s) : Append(s, x)[i] = s[i]
         /\ ToSet(s) \subseteq ToSet(Append(s, x)) /\ x \in ToSet(Append(s, x))
         /\ ToSet(Append(s, x)) \subseteq ToSet(s) \union {x}
<1>1. /\ Append(s, x) \in Seq(S) /\ Len(Append(s, x)) = Len(s) + 1 /\ Len(s) \in Nat
      /\ Append(s, x)[Len(s) + 1] = x /\ \A i \in 1 .. Len(s) : Append(s, x)[i] = s[i]
      /\ DOMAIN s = 1 .. Len(s) /\ DOMAIN Append(s, x) = 1 .. Len(s) + 1
  OBVIOUS
<1>2. \A i \in 1 .. Len(s) : i \in 1 .. Len(s) + 1
  BY <1>1
<1>3. \A i \in 1 .. Len(s) + 1 : i \in 1 .. Len(s) \/ i = Len(s) + 1
  BY <1>1
<1>4. Len(s) + 1 \in 1 .. Len(s) + 1
  BY <1>1
<1> QED  BY ONLY <1>1, <1>2, <1>3, <1>4 DEF ToSet

\* what start lists
LEMMA ListJobFacts ==
  ASSUME Setup, running \in [Ms -> Seq(JobSet)], shared \in Seq(JobSet), own \in BOOLEAN,
         NEW k0 \in Ms, k0 = m, NEW j \in JobSet, ListJob(j), Test(k0) \in Seq(JobSet), UNCHANGED plan, own' = own
  PROVE  /\ running' \in [Ms -> Seq(JobSet)] /\ shared' \in Seq(JobSet)
         /\ \A k \in Ms : k # k0 => running'[k] = running[k] /\ List(k)' = List(k)
         /\ ~IsPerf(k0) => shared' = shared
         /\ IsPerf(k0) => /\ List(k0)' = Append(List(k0), j)
                          /\ shared' = shared \/ shared' = Append(shared, j)
                          /\ running'[k0] = running[k0] \/ running'[k0] = Append(running[k0], j)
         /\ IsRDMA(k0) => running'[k0] = running[k0]
         /\ ~IsPerf(k0) /\ ~IsRDMA(k0) /\ Len(todo) = 1 => running'[k0] = Test(k0)
<1>1. \A k \in Ms : (IsPerf(k)' <=> IsPerf(k)) /\ (IsPerf(k) /\ IsPerf(k0) => k = k0) /\ (IsPerf(k) => ~IsRDMA(k))
  BY SamePlan, TheKinds, TheFlow
<1>2. ASSUME NEW k
      PROVE  /\ List(k) = IF IsPerf(k) /\ ~own THEN shared ELSE running[k]
             /\ List(k)' = IF IsPerf(k) /\ ~own THEN shared' ELSE running'[k]
  <2>1. IsPerf(k)' <=> IsPerf(k)
    BY SamePlan
  <2> QED  BY <2>1 DEF List, IsPerf
<1>3. CASE IsPerf(k0)
  <2>1. SetList(k0, Append(List(k0), j))
    BY <1>3 DEF ListJob, IsPerf
  <2>2. CASE ~own
    <3>1. shared' = Append(shared, j) /\ running' = running
      BY <1>2, <1>3, <2>1, <2>2 DEF SetList, IsPerf
    <3>2. shared' \in Seq(JobSet)
      BY <3>1
    <3> QED  BY <1>1, <1>2, <1>3, <2>2, <3>1, <3>2
  <2>3. CASE own
    <3>1. shared' = shared /\ running' = [running EXCEPT ![k0] = Append(running[k0], j)]
      BY <1>2, <1>3, <2>1, <2>3 DEF SetList, IsPerf
    <3>2. Append(running[k0], j) \in Seq(JobSet)
      OBVIOUS
    <3>3. /\ running' \in [Ms -> Seq(JobSet)] /\ running'[k0] = Append(running[k0], j)
          /\ \A k \in Ms : k # k0 => running'[k] = running[k]
      BY <3>1, <3>2
    <3> QED  BY <1>1, <1>2, <1>3, <2>3, <3>1, <3>3
  <2> QED  BY <2>2, <2>3
<1>4. CASE ~IsPerf(k0)
  <2>1. CASE ~IsRDMA(k0) /\ Len(todo) = 1
    <3>1. SetList(k0, Test(k0))
      BY <1>4, <2>1 DEF ListJob, IsPerf, IsRDMA
    <3>2. shared' = shared /\ running' = [running EXCEPT ![k0] = Test(k0)]
      BY <1>4, <3>1 DEF SetList, IsPerf
    <3>3. /\ running' \in [Ms -> Seq(JobSet)] /\ running'[k0] = Test(k0)
          /\ \A k \in Ms : k # k0 => running'[k] = running[k]
      BY <3>2
    <3> QED  BY <1>2, <1>4, <2>1, <3>2, <3>3
  <2>2. CASE ~(~IsRDMA(k0) /\ Len(todo) = 1)
    <3>1. shared' = shared /\ running' = running
      BY <1>4, <2>2 DEF ListJob, IsPerf, IsRDMA
    <3> QED  BY <1>2, <1>4, <2>2, <3>1
  <2> QED  BY <2>1, <2>2
<1> QED  BY <1>3, <1>4

LEMMA JobsStart ==
  ASSUME PInv, StartJob
  PROVE  PInv'
<1>1. /\ at = "start" /\ todo # <<>> /\ todo' = Tail(todo)
      /\ UNCHANGED plan /\ at' = at /\ m' = m /\ finished' = finished /\ own' = own
      /\ used' = used /\ verdict' = verdict /\ clean' = clean /\ raised' = raised /\ faults' = faults
      /\ frag' = frag /\ rules' = rules /\ noted' = noted /\ untweaked' = untweaked /\ unheard' = unheard
  BY DEF StartJob, found, tweaks
<1>2. PICK k0 \in Ms : k0 = m
  BY <1>1, Starter
<1>3. PICK j \in JobSet : j = Head(todo).job
  BY <1>1, Starter
<1>4. PICK d \in Nat : d = Done
  BY <1>1, Starter
<1>5. /\ k0 > 0 /\ d + 1 \in DOMAIN Test(k0) /\ j = Test(k0)[d + 1] /\ j \in Rs(k0) /\ j \notin DOMAIN status
      /\ Test(k0) \in Seq(JobSet) /\ Len(Test(k0)) \in 1 .. 4 /\ DOMAIN Test(k0) = 1 .. Len(Test(k0))
  BY <1>1, <1>2, <1>3, <1>4, Starter
<1>6. /\ Setup /\ Typed /\ conf \in Nat /\ iter \in Nat /\ Flow \in {2, 3} /\ Ms = 1 .. Flow
      /\ todo \in Seq(Steps) /\ Past /\ Starting /\ Lists /\ Echoed /\ Running /\ Results /\ Tweaks
      /\ running \in [Ms -> Seq(JobSet)] /\ shared \in Seq(JobSet) /\ own \in BOOLEAN
  <2>1. Typed
    BY MidFacts
  <2> QED  BY <2>1, MidFacts DEF PInv, Typed
<1>7. /\ Ms' = Ms /\ Flow' = Flow /\ setup' = setup /\ conf' = conf /\ iter' = iter /\ Kinds' = Kinds
      /\ (Stale' <=> Stale)
      /\ \A k : /\ Rs(k)' = Rs(k) /\ Test(k)' = Test(k)
                /\ (IsPerf(k)' <=> IsPerf(k)) /\ (IsRDMA(k)' <=> IsRDMA(k)) /\ (IsSimulated(k)' <=> IsSimulated(k))
      /\ \A x : (Current(x)' <=> Current(x)) /\ (Echoes(x)' <=> Echoes(x)) /\ (Dated(x)' <=> Dated(x))
  BY <1>1, SamePlan
<1>8. Starts(j) /\ ListJob(j)
  BY <1>3 DEF StartJob
<1>9. /\ DOMAIN status' = DOMAIN status \union {j} /\ status'[j] = "running"
      /\ \A x \in DOMAIN status : status'[x] = status[x]
      /\ status' \in [DOMAIN status' -> Hows]
  BY <1>5, <1>8, StartsFacts
<1>10. /\ running' \in [Ms -> Seq(JobSet)] /\ shared' \in Seq(JobSet)
       /\ \A k \in Ms : k # k0 => running'[k] = running[k] /\ List(k)' = List(k)
       /\ ~IsPerf(k0) => shared' = shared
       /\ IsPerf(k0) => /\ List(k0)' = Append(List(k0), j)
                        /\ shared' = shared \/ shared' = Append(shared, j)
                        /\ running'[k0] = running[k0] \/ running'[k0] = Append(running[k0], j)
       /\ IsRDMA(k0) => running'[k0] = running[k0]
       /\ ~IsPerf(k0) /\ ~IsRDMA(k0) /\ Len(todo) = 1 => running'[k0] = Test(k0)
  BY ONLY <1>1, <1>2, <1>5, <1>6, <1>8, ListJobFacts
<1>11. /\ todo' \in Seq(Steps) /\ Len(todo') = Len(todo) - 1 /\ Len(todo) \in Nat
       /\ DOMAIN todo' = 1 .. Len(todo') /\ DOMAIN todo = 1 .. Len(todo)
       /\ \A x \in DOMAIN todo' : todo'[x] = todo[x + 1] /\ x + 1 \in DOMAIN todo
  <2>1. /\ todo' \in Seq(Steps) /\ Len(todo') = Len(todo) - 1 /\ Len(todo) \in Nat
        /\ DOMAIN todo' = 1 .. Len(todo') /\ DOMAIN todo = 1 .. Len(todo)
        /\ \A x \in 1 .. Len(todo') : todo'[x] = todo[x + 1]
    BY <1>1, <1>6
  <2>2. \A x \in 1 .. Len(todo') : x + 1 \in 1 .. Len(todo)
    BY <2>1
  <2> QED  BY ONLY <2>1, <2>2
<1>12. Current(j) /\ Dated(j) /\ j.of = Kinds[k0]
  <2>1. Current(j) /\ j.of = Kinds[k0]
    BY <1>5, <1>6, InRs
  <2> QED  BY <1>6, <2>1 DEF Current, Dated
<1>13. Typed'
  <2>1. DOMAIN status' \subseteq JobSet
    BY <1>6, <1>9 DEF Typed
  <2>2. m' # 0
    BY <1>1, <1>2, <1>5
  <2> QED  BY ONLY <1>1, <1>6, <1>7, <1>9, <1>10, <1>11, <2>1, <2>2 DEF Typed
<1>14. Past'
  <2>1. \A x \in DOMAIN status' : Dated(x)
    BY <1>6, <1>9, <1>12 DEF Past
  <2>2. \A i \in DOMAIN shared' : Dated(shared'[i]) /\ shared'[i].of = "LinuxPerf"
    <3>1. CASE shared' = shared
      BY <1>6, <3>1 DEF Past
    <3>2. CASE shared' = Append(shared, j) /\ IsPerf(k0)
      <4>1. j.of = "LinuxPerf"
        BY <1>12, <3>2 DEF IsPerf
      <4>2. \A x \in ToSet(shared) : Dated(x) /\ x.of = "LinuxPerf"
        BY <1>6 DEF Past, ToSet
      <4>3. \A x \in ToSet(shared') : x \in ToSet(shared) \/ x = j
        BY <1>6, <3>2, Appended
      <4> QED  BY <1>12, <4>1, <4>2, <4>3 DEF ToSet
    <3> QED  BY <1>10, <3>1, <3>2
  <2>3. ASSUME NEW k \in Ms, IsPerf(k)
        PROVE  \A i \in DOMAIN running'[k] : running'[k][i].of = "LinuxPerf"
    <3>1. \A i \in DOMAIN running[k] : running[k][i].of = "LinuxPerf"
      BY <1>6, <2>3 DEF Past
    <3>2. CASE running'[k] = running[k]
      BY <3>1, <3>2
    <3>3. CASE k = k0 /\ running'[k] = Append(running[k], j)
      <4>1. j.of = "LinuxPerf"
        BY <1>12, <2>3, <3>3 DEF IsPerf
      <4>2. \A x \in ToSet(running[k]) : x.of = "LinuxPerf"
        BY <3>1 DEF ToSet
      <4>3. \A x \in ToSet(running'[k]) : x \in ToSet(running[k]) \/ x = j
        BY <1>6, <3>3, Appended
      <4> QED  BY <4>1, <4>2, <4>3 DEF ToSet
    <3> QED  BY <1>10, <2>3, <3>2, <3>3
  <2> QED  BY ONLY <1>7, <2>1, <2>2, <2>3 DEF Past
<1>15. d + Len(todo) = Len(Test(k0)) /\ Done' = d + 1
  <2>1. d = Len(Test(k0)) - Len(todo)
    BY <1>2, <1>4 DEF Done
  <2>2. Len(Test(m)') = Len(Test(k0))
    BY ONLY <1>1, <1>2, <1>7
  <2>3. Done' = Len(Test(k0)) - (Len(todo) - 1)
    BY ONLY <1>11, <2>2 DEF Done
  <2> QED  BY ONLY <1>4, <1>5, <1>11, <2>1, <2>3
<1>16. Starting'
  <2>1. \A x : Known(x)' <=> Known(x) \/ x = j
    BY <1>9 DEF Known
  <2>2. \A y \in DOMAIN Test(k0) : (y <= d + 1 <=> y <= d \/ y = d + 1) /\ (Test(k0)[y] = j <=> y = d + 1)
    <3>1. \A p, q \in DOMAIN Test(k0) : Test(k0)[p] = Test(k0)[q] => p = q
      BY <1>6, TestFacts
    <3>2. \A y \in DOMAIN Test(k0) : (y <= d + 1 <=> y <= d \/ y = d + 1)
      BY <1>4, <1>5
    <3> QED  BY <1>5, <3>1, <3>2
  <2>3. \A y \in DOMAIN Test(k0) : y <= d <=> Known(Test(k0)[y])
    BY <1>1, <1>2, <1>4, <1>5, <1>6 DEF Starting
  <2>4. \A y \in DOMAIN Test(k0) : y <= d + 1 <=> Known(Test(k0)[y])'
    <3>1. Test(k0)' = Test(k0)
      BY <1>7
    <3>2. \A y : Known(Test(k0)[y])' <=> Known(Test(k0)[y]) \/ Test(k0)[y] = j
      BY <1>9, <3>1 DEF Known
    <3> QED  BY ONLY <2>2, <2>3, <3>2
  <2>5. \A x \in DOMAIN todo' : todo'[x].op = "start" /\ todo'[x].job = Test(k0)[(d + 1) + x]
    <3>1. \A x \in DOMAIN todo : todo[x].op = "start" /\ todo[x].job = Test(k0)[d + x]
      BY <1>1, <1>2, <1>4, <1>5, <1>6 DEF Starting
    <3>2. \A x \in DOMAIN todo' : d + (x + 1) = (d + 1) + x
      BY <1>4, <1>11
    <3> QED  BY <1>11, <3>1, <3>2
  <2>6. Len(todo') <= Len(Test(k0))
    BY <1>4, <1>5, <1>11, <1>15
  <2>7. \A k \in Ms : k < m => \A x \in Rs(k) : Known(x)'
    BY <1>1, <1>6, <2>1 DEF Starting
  <2>8. ASSUME NEW x \in DOMAIN status', Current(x)
        PROVE  status'[x] \in {"running", "passed", "failed"} /\ \E k \in Ms : k <= k0 /\ x \in Rs(k)
    <3>1. CASE x = j
      BY <1>5, <1>6, <1>9, <3>1
    <3>2. CASE x # j
      BY <1>1, <1>2, <1>6, <1>9, <2>8, <3>2 DEF Starting
    <3> QED  BY <3>1, <3>2
  <2> QED  BY ONLY <1>1, <1>2, <1>7, <1>15, <2>4, <2>5, <2>6, <2>7, <2>8 DEF Starting
<1>17. Lists'
  <2>1. \A k \in Ms : IsPerf(k) /\ k # k0 => shared' = shared
    BY <1>6, <1>10, TheKinds
  <2>2. \A k \in Ms : k # k0 => (Listed(k)' <=> Listed(k))
    BY ONLY <1>7, <1>10 DEF Listed
  <2>3. \A k \in Ms : \A n : k # k0 => (Ready(k, n)' <=> Ready(k, n))
    BY ONLY <1>1, <1>7, <1>10, <2>1 DEF Ready
  <2>4. \A k \in Ms : k < k0 => Listed(k)'
    <3>1. \A k \in Ms : k < k0 => k # k0
      BY <1>6
    <3>2. \A k \in Ms : k < k0 => Listed(k)
      BY <1>1, <1>2, <1>6 DEF Lists
    <3> QED  BY ONLY <2>2, <3>1, <3>2
  <2>5. \A k \in Ms : k > k0 => Ready(k, iter)'
    <3>1. \A k \in Ms : k > k0 => k # k0 /\ Ready(k, iter)
      BY <1>1, <1>2, <1>6 DEF Lists
    <3>2. \A k \in Ms : \A n : k > k0 /\ n = iter => Ready(k, n)'
      BY <2>3, <3>1
    <3> QED  BY <1>7, <3>2
  <2>6. Listing
    <3>1. m > 0
      BY <1>2, <1>5
    <3> QED  BY <1>1, <1>6, <3>1 DEF Lists
  <2>7. Listing'
    <3>1. CASE IsPerf(k0)
      <4>1. List(k0) \in Seq(JobSet) /\ List(k0)' = Append(List(k0), j)
        BY <1>6, <1>10, <3>1 DEF List
      <4>2. \A y \in 1 .. d : Test(k0)[y] \in ToSet(List(k0))
        BY <1>2, <1>4, <2>6, <3>1 DEF Listing
      <4>3. /\ ToSet(List(k0)) \subseteq ToSet(List(k0)') /\ j \in ToSet(List(k0)')
            /\ Len(List(k0)') = Len(List(k0)) + 1 /\ List(k0)'[Len(List(k0)) + 1] = j
            /\ \A i \in 1 .. Len(List(k0)) : List(k0)'[i] = List(k0)[i]
        BY <4>1, Appended
      <4>4. \A y \in 1 .. d + 1 : y \in 1 .. d \/ y = d + 1
        BY <1>4
      <4>5. \A y \in 1 .. d + 1 : Test(k0)[y] \in ToSet(List(k0)')
        BY ONLY <1>5, <4>2, <4>3, <4>4
      <4>6. ASSUME ~Stale
            PROVE  Len(List(k0)') = d + 1 /\ \A i \in 1 .. d + 1 : List(k0)'[i] = Test(k0)[i]
        <5>1. Len(List(k0)) = d /\ \A i \in 1 .. d : List(k0)[i] = Test(k0)[i]
          BY <1>2, <1>4, <2>6, <3>1, <4>6 DEF Listing, Prefix
        <5> QED  BY ONLY <1>5, <4>3, <4>4, <5>1
      <4> QED  BY ONLY <1>1, <1>2, <1>7, <1>15, <3>1, <4>5, <4>6 DEF Listing, Prefix
    <3>2. CASE ~IsPerf(k0)
      <4>1. IsRDMA(k0) => running'[k0] = Test(k0)
        BY <1>2, <1>10, <2>6, <3>2 DEF Listing
      <4>2. todo' = <<>> => Len(todo) = 1
        BY <1>11
      <4> QED  BY ONLY <1>1, <1>2, <1>7, <1>10, <3>2, <4>1, <4>2 DEF Listing
    <3> QED  BY <3>1, <3>2
  <2> QED  BY ONLY <1>1, <1>2, <1>7, <2>4, <2>5, <2>7 DEF Lists
<1>18. Echoed'
  <2>1. ASSUME NEW x \in DOMAIN status', Current(x), Echoes(x)
        PROVE  status'[x] \in {"running", "passed"}
    <3>1. CASE x = j
      BY <1>9, <3>1
    <3>2. CASE x # j
      BY <1>1, <1>6, <1>9, <2>1, <3>2 DEF Echoed
    <3> QED  BY <3>1, <3>2
  <2> QED  BY ONLY <1>1, <1>7, <2>1 DEF Echoed
<1>19. Results'
  BY <1>1, <1>6, ResultsKept
<1>20. Running'
  <2>1. ASSUME NEW x \in DOMAIN status', Runs(x)'
        PROVE  \E k \in Ms : x \in Rs(k) /\ k <= k0
    <3>1. CASE x = j
      BY <1>5, <1>6, <3>1
    <3>2. CASE x # j
      <4>1. x \in DOMAIN status /\ Runs(x)
        BY <1>9, <2>1, <3>2 DEF Runs, How, Known
      <4> QED  BY <1>1, <1>2, <1>6, <4>1 DEF Running, MayRun
    <3> QED  BY <3>1, <3>2
  <2>2. \A x : \A k \in Ms : k <= k0 => MayRun(k, x)'
    BY ONLY <1>1, <1>2 DEF MayRun
  <2> QED  BY ONLY <1>7, <2>1, <2>2 DEF Running
<1>21. OwnSteps' /\ Covered'
  BY <1>1 DEF OwnSteps, Covered
<1>22. Tweaks'
  BY <1>1, <1>6, <1>7, TweaksKept DEF Mid, tweaks
<1> QED  BY <1>13, <1>14, <1>16, <1>17, <1>18, <1>19, <1>20, <1>21, <1>22 DEF PInv

-----------------------------------------------------------------------------
(* From one measurement to the next *)

LEMMA StepsInHand ==
  ASSUME PInv, NEW k \in Ms, Listed(k), at' = "finish", m' = k, todo' = FinishSteps(k), UNCHANGED plan
  PROVE  /\ todo' \in Seq(Steps) /\ OwnSteps'
         /\ \A j \in Rs(k) : WillEnd(k, j)'
         /\ \A j \in Rs(k) : j.role = "client" \/ IsSimulated(k) => Leading(j)'
<1>1. /\ Setup /\ conf \in Nat /\ iter \in Nat /\ Past
      /\ running \in [Ms -> Seq(JobSet)] /\ shared \in Seq(JobSet)
  <2>1. Typed
    BY MidFacts
  <2> QED  BY <2>1, MidFacts DEF PInv, Typed
<1>2. List(k) \in Seq(JobSet) /\ (IsPerf(k) => \A i \in DOMAIN List(k) : List(k)[i].of = "LinuxPerf")
  BY <1>1 DEF List, Past
<1>3. /\ todo' \in Seq(Steps) /\ \A x \in ToSet(todo') : OwnCall(k, x)
      /\ Covers(k, todo')
      /\ \A j \in Rs(k) : j.role = "client" \/ IsSimulated(k) => LeadingIn(todo', j)
  BY <1>1, <1>2, FinishFacts
<1>4. Rs(k)' = Rs(k) /\ (IsPerf(k)' <=> IsPerf(k)) /\ \A x : Ends(k, x)' <=> Ends(k, x)
  BY SamePlan
<1>5. OwnSteps'
  <2>1. \A i \in DOMAIN todo' : OwnCall(k, todo'[i])
    BY <1>3 DEF ToSet
  <2>2. m' = k
    OBVIOUS
  <2>3. \A i \in DOMAIN todo' : /\ todo'[i].job \in JobSet /\ todo'[i].op \in FinishOps
                                /\ IF IsPerf(k)' THEN todo'[i].job.of = "LinuxPerf" ELSE todo'[i].job \in Rs(k)'
    BY <1>4, <2>1 DEF OwnCall
  <2> QED  BY ONLY <2>2, <2>3 DEF OwnSteps
<1>6. \A j \in Rs(k) : WillEnd(k, j)'
  BY <1>3, <1>4 DEF Covers, WillEnd
<1>7. \A j : LeadingIn(todo', j) => Leading(j)'
  BY DEF Leading
<1> QED  BY <1>3, <1>5, <1>6, <1>7

LEMMA AllAreStarted ==
  ASSUME PInv, AllStarted
  PROVE  PInv'
<1>1. /\ at = "start" /\ todo = <<>> /\ m = Flow /\ at' = "finish" /\ todo' = FinishSteps(m)
      /\ UNCHANGED plan /\ m' = m /\ status' = status /\ running' = running /\ finished' = finished
      /\ shared' = shared /\ own' = own
      /\ used' = used /\ verdict' = verdict /\ clean' = clean /\ raised' = raised /\ faults' = faults
      /\ frag' = frag /\ rules' = rules /\ noted' = noted /\ untweaked' = untweaked /\ unheard' = unheard
  BY DEF AllStarted, lists, found, tweaks, Flow
<1>2. /\ Setup /\ Typed /\ conf \in Nat /\ iter \in Nat /\ Flow \in {2, 3} /\ Ms = 1 .. Flow
      /\ Past /\ Starting /\ Lists /\ Echoed /\ Running /\ Results /\ Tweaks
  BY MidFacts DEF PInv
<1>3. PICK k0 \in Ms : k0 = m
  BY <1>1, <1>2
<1>4. Listed(k0) /\ \A j \in Rs(k0) : Known(j)
  <2>1. m > 0
    BY <1>1, <1>2
  <2> QED  BY <1>1, <1>3, <2>1, ListedAll
<1>5. /\ Ms' = Ms /\ Flow' = Flow /\ setup' = setup /\ conf' = conf /\ iter' = iter /\ Kinds' = Kinds
      /\ \A k : Rs(k)' = Rs(k) /\ Test(k)' = Test(k) /\ (IsPerf(k)' <=> IsPerf(k)) /\ (IsSimulated(k)' <=> IsSimulated(k))
      /\ \A x : (Current(x)' <=> Current(x)) /\ (Echoes(x)' <=> Echoes(x)) /\ (Dated(x)' <=> Dated(x))
      /\ (Stale' <=> Stale)
  BY <1>1, SamePlan
<1>6. /\ todo' \in Seq(Steps) /\ OwnSteps'
      /\ \A j \in Rs(k0) : WillEnd(k0, j)'
      /\ \A j \in Rs(k0) : j.role = "client" \/ IsSimulated(k0) => Leading(j)'
  BY <1>1, <1>3, <1>4, StepsInHand
<1>7. \A k \in Ms : k <= k0 /\ (k < k0 \/ k = k0)
  BY <1>1, <1>2, <1>3
<1>8. Typed'
  <2>1. iter > 0 /\ raised = {} /\ m > 0
    BY <1>1, <1>2 DEF Typed
  <2> QED  BY ONLY <1>1, <1>2, <1>5, <1>6, <2>1 DEF Typed, Places
<1>9. Past'
  BY <1>1, <1>2, PastKept
<1>10. \A k \in Ms : \A j \in Rs(k) : Known(j)
  BY <1>1, <1>2, <1>3, <1>4, <1>7 DEF Starting
<1>11. Starting'
  <2>1. \A j : Known(j)' <=> Known(j)
    BY <1>1 DEF Known
  <2> QED  BY ONLY <1>1, <1>5, <1>10, <2>1 DEF Starting
<1>12. Lists'
  <2>1. \A k : List(k)' = List(k)
    BY <1>1, <1>5 DEF List
  <2>2. \A k : Listed(k)' <=> Listed(k)
    BY ONLY <1>1, <1>5, <2>1 DEF Listed
  <2>3. \A k \in Ms : Listed(k)
    BY <1>1, <1>2, <1>3, <1>4, <1>7 DEF Lists
  <2>4. \A k \in Ms : k <= m /\ Listed(k)'
    BY <1>3, <1>7, <2>2, <2>3
  <2> QED  BY ONLY <1>1, <1>5, <2>4 DEF Lists
<1>13. Echoed'
  <2>1. \A k \in Ms : IsSimulated(k) => k = k0
    BY <1>1, <1>2, <1>3, TheFlow
  <2>2. \A k \in Ms : IsSimulated(k) => \A j \in Rs(k) : k = k0 /\ Leading(j)'
    BY <1>6, <2>1
  <2>3. \A j \in DOMAIN status : Current(j) /\ Echoes(j) => status[j] \in {"running", "passed"}
    BY <1>1, <1>2 DEF Echoed
  <2> QED  BY ONLY <1>1, <1>3, <1>5, <2>2, <2>3 DEF Echoed
<1>14. Results'
  BY <1>1, <1>2, ResultsKept
<1>15. Running'
  <2>1. \A j : Runs(j)' <=> Runs(j)
    BY <1>1 DEF Runs, How, Known
  <2>2. \A k \in Ms : \A j \in Rs(k) : MayRun(k, j)'
    <3>1. \A k \in Ms : \A j \in Rs(k) : k < k0 \/ (k = k0 /\ WillEnd(k, j)')
      BY <1>6, <1>7
    <3> QED  BY ONLY <1>1, <1>3, <3>1 DEF MayRun
  <2> QED  BY ONLY <1>1, <1>2, <1>5, <2>1, <2>2 DEF Running
<1>16. Covered'
  <2>1. \A j \in DOMAIN status : Current(j) => status[j] \in {"running", "passed", "failed", "hung"}
    BY <1>1, <1>2 DEF Starting
  <2>2. ASSUME NEW c \in DOMAIN status, c.role = "client", status[c] = "running"
        PROVE  Leading(c)'
    <3>1. Runs(c)
      BY <2>2 DEF Runs, How, Known
    <3>2. PICK k \in Ms : c \in Rs(k)
      BY <1>2, <3>1 DEF Running
    <3>3. k = k0
      BY <1>1, <1>2, <1>3, <2>2, <3>2, ClientsOfTheFlow
    <3> QED  BY <1>6, <2>2, <3>2, <3>3
  <2> QED  BY ONLY <1>1, <1>5, <2>1, <2>2 DEF Covered
<1>17. Tweaks'
  BY <1>1, <1>2, <1>5, TweaksKept DEF Mid, tweaks
<1> QED  BY <1>6, <1>8, <1>9, <1>11, <1>12, <1>13, <1>14, <1>15, <1>16, <1>17 DEF PInv

\* perf has a job for each host.
LEMMA TwoHosts ==
  ASSUME Setup, conf \in Nat, iter \in Nat, NEW k \in Ms, IsPerf(k), NEW s \in Seq(JobSet), Rs(k) \subseteq ToSet(s)
  PROVE  Len(s) > 1
<1>1. /\ Len(Test(k)) = 2 /\ DOMAIN Test(k) = 1 .. Len(Test(k))
      /\ \A p, q \in DOMAIN Test(k) : Test(k)[p] = Test(k)[q] => p = q
  BY TestFacts
<1>2. 1 \in DOMAIN Test(k) /\ 2 \in DOMAIN Test(k) /\ Test(k)[1] # Test(k)[2]
  BY <1>1
<1>3. Test(k)[1] \in ToSet(s) /\ Test(k)[2] \in ToSet(s)
  BY <1>2 DEF Rs, ToSet
<1>4. PICK a \in DOMAIN s, b \in DOMAIN s : s[a] = Test(k)[1] /\ s[b] = Test(k)[2]
  BY <1>3 DEF ToSet
<1>5. a # b /\ a \in 1 .. Len(s) /\ b \in 1 .. Len(s) /\ Len(s) \in Nat
  BY <1>2, <1>4
<1> QED  BY <1>5

\* A measurement is finished: its list is what its results are collected from.
LEMMA IsFinishedNow ==
  ASSUME PInv, Finished
  PROVE  PInv'
<1>1. /\ at = "finish" /\ todo = <<>> /\ at' = "finishing"
      /\ finished' = [finished EXCEPT ![m] = List(m)]
      /\ running' = IF IsRDMA(m) THEN running ELSE [running EXCEPT ![m] = <<>>]
      /\ own' = (own \/ IsPerf(m))
      /\ UNCHANGED plan /\ m' = m /\ todo' = todo /\ status' = status /\ shared' = shared
      /\ used' = used /\ verdict' = verdict /\ clean' = clean /\ raised' = raised /\ faults' = faults
      /\ frag' = frag /\ rules' = rules /\ noted' = noted /\ untweaked' = untweaked /\ unheard' = unheard
  BY DEF Finished, found, tweaks, IsRDMA, IsPerf
<1>2. /\ Setup /\ Typed /\ conf \in Nat /\ iter \in Nat /\ Flow \in {2, 3} /\ Ms = 1 .. Flow /\ m \in Ms
      /\ Past /\ Starting /\ Lists /\ Echoed /\ Running /\ Results /\ Tweaks
  BY <1>1, MidFacts DEF PInv
<1>3. PICK k0 \in Ms : k0 = m
  BY <1>2
<1>4. /\ Ms' = Ms /\ Flow' = Flow /\ setup' = setup /\ conf' = conf /\ iter' = iter /\ Kinds' = Kinds
      /\ \A k : Rs(k)' = Rs(k) /\ Test(k)' = Test(k) /\ (IsPerf(k)' <=> IsPerf(k)) /\ (IsSimulated(k)' <=> IsSimulated(k))
      /\ \A x : (Current(x)' <=> Current(x)) /\ (Echoes(x)' <=> Echoes(x)) /\ (Dated(x)' <=> Dated(x))
      /\ (Stale' <=> Stale)
  BY <1>1, SamePlan
<1>5. /\ running \in [Ms -> Seq(JobSet)] /\ finished \in [Ms -> Seq(JobSet)] /\ shared \in Seq(JobSet) /\ own \in BOOLEAN
  BY <1>2 DEF Typed
<1>6. List(k0) \in Seq(JobSet)
  BY <1>5 DEF List
<1>7. /\ running' \in [Ms -> Seq(JobSet)] /\ finished' \in [Ms -> Seq(JobSet)] /\ own' \in BOOLEAN
      /\ \A k \in Ms : k # k0 => running'[k] = running[k] /\ finished'[k] = finished[k]
      /\ finished'[k0] = List(k0)
      /\ ~IsRDMA(k0) => running'[k0] = <<>>
      /\ IsRDMA(k0) => running'[k0] = running[k0]
  BY ONLY <1>1, <1>3, <1>5, <1>6
<1>8. Typed'
  <2>1. iter > 0 /\ raised = {} /\ m > 0
    BY <1>1, <1>2 DEF Typed
  <2> QED  BY ONLY <1>1, <1>2, <1>4, <1>7, <2>1 DEF Typed, Places
<1>9. Past'
  <2>1. \A k \in Ms : IsPerf(k) => \A i \in DOMAIN running'[k] : running'[k][i].of = "LinuxPerf"
    <3>1. \A k \in Ms : \A i \in DOMAIN running'[k] : running'[k] = running[k]
      BY <1>7
    <3> QED  BY <1>2, <3>1 DEF Past
  <2> QED  BY ONLY <1>1, <1>2, <1>4, <2>1 DEF Past
<1>10. Starting'
  <2>1. \A j : Known(j)' <=> Known(j)
    BY <1>1 DEF Known
  <2> QED  BY ONLY <1>1, <1>2, <1>4, <2>1 DEF Starting
<1>11. Lists'
  <2>1. ASSUME NEW k \in Ms, k < k0
        PROVE  Listed(k)'
    <3>1. Listed(k) /\ k # k0
      BY <1>1, <1>2, <1>3, <2>1 DEF Lists
    <3>2. running'[k] = running[k] /\ shared' = shared
      BY <1>1, <1>7, <3>1
    <3>3. IsPerf(k) => own' = own
      <4>1. IsPerf(k) => ~IsPerf(k0)
        BY <1>2, <3>1, TheKinds
      <4> QED  BY <1>1, <1>3, <1>5, <4>1
    <3>4. IsPerf(k) => List(k)' = List(k)
      BY <1>4, <3>2, <3>3 DEF List
    <3> QED  BY ONLY <1>4, <3>1, <3>2, <3>4 DEF Listed
  <2>2. ASSUME NEW k \in Ms, ~(k < k0)
        PROVE  IsDone(k)'
    <3>1. CASE k = k0
      <4>1. Listed(k)
        BY <1>1, <1>2, <1>3, <3>1 DEF Lists
      <4>2. CASE IsPerf(k)
        <5>1. ~IsRDMA(k)
          BY <1>2, <4>2, TheFlow
        <5>2. own' /\ running'[k] = <<>> /\ finished'[k] = List(k)
          BY <1>1, <1>3, <1>7, <3>1, <4>2, <5>1
        <5>3. ~Stale => List(k) = Test(k)
          BY <4>1, <4>2 DEF Listed
        <5>4. Len(List(k)) > 1
          <6>1. Rs(k) \subseteq ToSet(List(k))
            BY <4>1, <4>2 DEF Listed
          <6> QED  BY <1>2, <1>6, <3>1, <4>2, <6>1, TwoHosts
        <5> QED  BY ONLY <1>4, <4>2, <5>2, <5>3, <5>4 DEF IsDone
      <4>3. CASE ~IsPerf(k)
        <5>1. List(k) = Test(k)
          BY <4>1, <4>3 DEF Listed, List, IsPerf
        <5>2. finished'[k] = Test(k)
          BY <1>7, <3>1, <5>1
        <5> QED  BY ONLY <1>4, <4>3, <5>2 DEF IsDone
      <4> QED  BY <4>2, <4>3
    <3>2. CASE k # k0
      <4>1. IsDone(k) /\ running'[k] = running[k] /\ finished'[k] = finished[k]
        BY <1>1, <1>2, <1>3, <1>7, <2>2, <3>2 DEF Lists
      <4>2. own => own'
        BY <1>1
      <4> QED  BY ONLY <1>4, <4>1, <4>2 DEF IsDone
    <3> QED  BY <3>1, <3>2
  <2> QED  BY ONLY <1>1, <1>3, <1>4, <2>1, <2>2 DEF Lists
<1>12. Echoed'
  <2>1. \A j : ~Leading(j)
    BY <1>1 DEF Leading, LeadingIn
  <2>2. \A k \in Ms : IsSimulated(k) => \A j \in Rs(k) : How(j) = "passed" \/ k < m
    BY <1>1, <1>2, <2>1 DEF Echoed
  <2>3. \A j \in DOMAIN status : Current(j) /\ Echoes(j) => status[j] \in {"running", "passed"}
    BY <1>1, <1>2 DEF Echoed
  <2>4. \A j : How(j)' = How(j)
    BY <1>1 DEF How, Known
  <2> QED  BY ONLY <1>1, <1>4, <2>2, <2>3, <2>4 DEF Echoed
<1>13. Results'
  BY <1>1, <1>2, ResultsKept
<1>14. Running'
  <2>1. \A j : Runs(j)' <=> Runs(j)
    BY <1>1 DEF Runs, How, Known
  <2>2. \A k, j : ~WillEnd(k, j)
    BY <1>1 DEF WillEnd
  <2>3. \A k, j : MayRun(k, j) => MayRun(k, j)'
    BY ONLY <1>1, <2>2 DEF MayRun
  <2> QED  BY ONLY <1>1, <1>2, <1>4, <2>1, <2>3 DEF Running
<1>15. OwnSteps' /\ Covered'
  BY <1>1 DEF OwnSteps, Covered
<1>16. Tweaks'
  BY <1>1, <1>2, <1>4, TweaksKept DEF Mid, tweaks
<1> QED  BY <1>8, <1>9, <1>10, <1>11, <1>12, <1>13, <1>14, <1>15, <1>16 DEF PInv

\* When the first measurement is finished, the results are collected.
LEMMA FinishesPass ==
  ASSUME PInv, NextFinish
  PROVE  PInv'
<1>1. /\ at = "finishing"
      /\ UNCHANGED plan /\ status' = status /\ running' = running /\ finished' = finished
      /\ shared' = shared /\ own' = own
      /\ used' = used /\ verdict' = verdict /\ clean' = clean /\ raised' = raised /\ faults' = faults
      /\ frag' = frag /\ rules' = rules /\ noted' = noted /\ untweaked' = untweaked /\ unheard' = unheard
  BY DEF NextFinish, lists, found, tweaks
<1>2. /\ Setup /\ Typed /\ conf \in Nat /\ iter \in Nat /\ Flow \in {2, 3} /\ Ms = 1 .. Flow /\ m \in Ms
      /\ Past /\ Starting /\ Lists /\ Echoed /\ Running /\ Results /\ Tweaks
  BY <1>1, MidFacts DEF PInv
<1>3. \/ m > 1 /\ m' = m - 1 /\ at' = "finish" /\ todo' = FinishSteps(m - 1)
      \/ m = 1 /\ m' = m /\ at' = "collect" /\ todo' = todo
  BY <1>2 DEF NextFinish
<1>4. /\ Ms' = Ms /\ Flow' = Flow /\ setup' = setup /\ conf' = conf /\ iter' = iter /\ Kinds' = Kinds
      /\ \A k : /\ Rs(k)' = Rs(k) /\ Test(k)' = Test(k)
                /\ (IsPerf(k)' <=> IsPerf(k)) /\ (IsRDMA(k)' <=> IsRDMA(k)) /\ (IsSimulated(k)' <=> IsSimulated(k))
      /\ \A x : (Current(x)' <=> Current(x)) /\ (Echoes(x)' <=> Echoes(x)) /\ (Dated(x)' <=> Dated(x))
      /\ (Stale' <=> Stale)
  BY <1>1, SamePlan
<1>5. \A k \in Ms : IF k < m THEN Listed(k) ELSE IsDone(k)
  BY <1>1, <1>2 DEF Lists
<1>6. \A k : (Listed(k)' <=> Listed(k)) /\ (IsDone(k)' <=> IsDone(k))
  <2>1. \A k : List(k)' = List(k)
    BY <1>1, <1>4 DEF List
  <2> QED  BY ONLY <1>1, <1>4, <2>1 DEF Listed, IsDone
<1>7. Past'
  BY <1>1, <1>2, PastKept
<1>8. Starting'
  <2>1. \A j : Known(j)' <=> Known(j)
    BY <1>1 DEF Known
  <2> QED  BY ONLY <1>1, <1>2, <1>3, <1>4, <2>1 DEF Starting
<1>9. Results'
  BY <1>1, <1>2, ResultsKept
<1>10. Tweaks'
  BY <1>1, <1>2, <1>3, <1>4, TweaksKept DEF Mid, tweaks
<1>11. iter > 0 /\ raised = {} /\ todo = <<>>
  BY <1>1, <1>2 DEF Typed
<1>12. /\ \A j : How(j)' = How(j) /\ (Runs(j)' <=> Runs(j))
       /\ \A k \in Ms : IsSimulated(k) => \A j \in Rs(k) : How(j) = "passed" \/ k < m
       /\ \A j \in DOMAIN status : Current(j) /\ Echoes(j) => status[j] \in {"running", "passed"}
       /\ \A j \in DOMAIN status : Runs(j) => \E k \in Ms : j \in Rs(k) /\ k < m
  BY <1>1, <1>2 DEF How, Known, Runs, Echoed, Running, MayRun
<1>13. CASE m > 1
  <2>1. PICK k0 \in Ms : k0 = m - 1
    BY <1>2, <1>13
  <2>2. m' = k0 /\ at' = "finish" /\ todo' = FinishSteps(k0)
    BY <1>2, <1>3, <1>13, <2>1
  <2>3. k0 > 0 /\ k0 # Flow /\ k0 \in 0 .. Flow /\ \A k \in Ms : (k < m <=> k <= k0) /\ (k < m <=> k < k0 \/ k = k0)
    BY <1>2, <2>1
  <2>4. Listed(k0)
    BY <1>5, <2>3
  <2>5. /\ todo' \in Seq(Steps) /\ OwnSteps'
        /\ \A j \in Rs(k0) : WillEnd(k0, j)'
    BY <1>1, <2>2, <2>4, StepsInHand
  <2>6. Typed'
    BY ONLY <1>1, <1>2, <1>4, <1>11, <2>2, <2>3, <2>5 DEF Typed, Places
  <2>7. Lists'
    BY ONLY <1>4, <1>5, <1>6, <2>2, <2>3 DEF Lists
  <2>8. Echoed'
    <3>1. \A k \in Ms : IsSimulated(k) => ~(k < m)
      BY <1>2, TheFlow
    <3>2. \A k \in Ms : IsSimulated(k) => \A j \in Rs(k) : How(j) = "passed"
      BY <1>12, <3>1
    <3> QED  BY ONLY <1>1, <1>4, <1>12, <2>2, <3>2 DEF Echoed
  <2>9. Running'
    <3>1. \A k \in Ms : \A j \in Rs(k) : k < m => MayRun(k, j)'
      BY ONLY <2>2, <2>3, <2>5 DEF MayRun
    <3> QED  BY ONLY <1>1, <1>4, <1>12, <3>1 DEF Running
  <2>10. Covered'
    BY ONLY <1>4, <2>2, <2>3 DEF Covered
  <2> QED  BY <1>7, <1>8, <1>9, <1>10, <2>5, <2>6, <2>7, <2>8, <2>9, <2>10 DEF PInv
<1>14. CASE m = 1
  <2>1. m' = m /\ at' = "collect" /\ todo' = todo
    BY <1>3, <1>14
  <2>2. \A k \in Ms : ~(k < m)
    BY <1>2, <1>14
  <2>3. Typed'
    BY ONLY <1>1, <1>2, <1>4, <1>11, <2>1, <1>14 DEF Typed, Places
  <2>4. Lists'
    BY ONLY <1>4, <1>5, <1>6, <2>1, <2>2 DEF Lists
  <2>5. Echoed'
    BY ONLY <1>1, <1>4, <1>12, <2>1, <2>2 DEF Echoed
  <2>6. Running'
    BY ONLY <1>1, <1>12, <2>2 DEF Running
  <2>7. OwnSteps' /\ Covered'
    BY <2>1 DEF OwnSteps, Covered
  <2> QED  BY <1>7, <1>8, <1>9, <1>10, <2>3, <2>4, <2>5, <2>6, <2>7 DEF PInv
<1> QED  BY <1>2, <1>13, <1>14

-----------------------------------------------------------------------------
(* Collecting the results *)

LEMMA HostsAreTwo == Cardinality(Hosts) = 2
<1>1. IsFiniteSet({1}) /\ Cardinality({1}) = 1
  BY FS_Singleton
<1>2. Hosts = {1} \union {2} /\ 2 \notin {1}
  BY DEF Hosts
<1> QED  BY <1>1, <1>2, FS_AddElement

\* If the jobs judged are all the jobs, or are some of them and the kind is
\* the one that may be judged by less, the verdict keeps to its rule.
LEMMA Judging ==
  ASSUME NEW v \in BOOLEAN, NEW c \in BOOLEAN, NEW S \in BOOLEAN, NEW P \in BOOLEAN, NEW t \in BOOLEAN,
         v = c \/ (t /\ v), P => S, t \/ (S => P)
  PROVE  (v /\ S) = (c /\ P) \/ (t /\ (v /\ S))
OBVIOUS

LEMMA CollectedFacts ==
  ASSUME PInv, at = "collect", NEW k \in Ms, IsDone(k)
  PROVE  /\ Collected(k) \in Seq(JobSet)
         /\ Collected(k) = Test(k) \/ (IsPerf(k) /\ Stale)
<1>1. /\ Setup /\ Typed /\ conf \in Nat /\ iter \in Nat
      /\ finished[k] \in Seq(JobSet)
  BY MidFacts DEF Typed
<1>2. /\ Test(k) \in Seq(JobSet) /\ (IsPerf(k) => Len(Test(k)) = 2)
  BY <1>1, TestFacts
<1>3. CASE IsPerf(k)
  <2>1. Collected(k) = SubSeq(finished[k], 1, 2)
    BY <1>3, HostsAreTwo DEF Collected, IsPerf
  <2>2. Len(finished[k]) > 1 /\ (~Stale => finished[k] = Test(k))
    BY <1>3 DEF IsDone
  <2>3. SubSeq(finished[k], 1, 2) \in Seq(JobSet)
    BY <1>1, <2>2
  <2>4. ASSUME ~Stale
        PROVE  SubSeq(finished[k], 1, 2) = Test(k)
    <3>1. finished[k] = Test(k) /\ Len(Test(k)) = 2
      BY <1>2, <1>3, <2>2, <2>4
    <3>2. SubSeq(Test(k), 1, Len(Test(k))) = Test(k)
      BY <1>2
    <3> QED  BY <3>1, <3>2
  <2> QED  BY <1>3, <2>1, <2>3, <2>4
<1>4. CASE ~IsPerf(k)
  <2>1. Collected(k) = finished[k] /\ finished[k] = Test(k)
    BY <1>4 DEF Collected, IsPerf, IsDone
  <2> QED  BY <1>1, <2>1
<1> QED  BY <1>3, <1>4

Passed(k) == \A j \in Rs(k) : How(j) = "passed"

LEMMA Successes ==
  ASSUME PInv, at = "collect", NEW k \in Ms, ~IsPerf(k), IsDone(k)
  PROVE  (Passed(k) => Success(k)) /\ (Lenient(k) \/ (Success(k) => Passed(k)))
<1>1. Setup /\ conf \in Nat /\ iter \in Nat
  BY MidFacts
<1>2. Collected(k) = Test(k)
  BY CollectedFacts
<1>3. CASE IsSimulated(k)
  <2>1. \A j \in Rs(k) : How(j) = "passed"
    BY <1>3 DEF PInv, Echoed
  <2> QED  BY <1>3, <2>1 DEF Passed, Success
<1>4. CASE IsMadeUp(k)
  BY <1>4 DEF Lenient, Success
<1>5. CASE ~IsSimulated(k) /\ Kinds[k] = "TRex"
  <2>1. IsTest(Test(k))
    BY <1>1, TestOfTest DEF TestOf
  <2>2. /\ Of(Test(k), "client", 1) \in Seq(JobSet) /\ ToSet(Of(Test(k), "client", 1)) \subseteq ToSet(Test(k))
        /\ Of(Test(k), "client", 2) \in Seq(JobSet) /\ ToSet(Of(Test(k), "client", 2)) \subseteq ToSet(Test(k))
    BY <2>1, OfFacts
  <2>3. ToSet(All(Test(k), "client")) = ToSet(Of(Test(k), "client", 1)) \union ToSet(Of(Test(k), "client", 2))
    BY <2>2, Joined DEF All
  <2>4. ToSet(All(Test(k), "client")) \subseteq Rs(k)
    BY ONLY <2>2, <2>3 DEF Rs
  <2> QED  BY <1>2, <1>5, <2>4 DEF Passed, Success, Judged, Succeeds, Lenient
<1>6. CASE ~IsSimulated(k) /\ ~IsMadeUp(k) /\ Kinds[k] = "StatCPU"
  BY <1>2, <1>6 DEF Passed, Success, Judged, Succeeds, Lenient, Rs
<1>7. CASE ~IsSimulated(k) /\ ~IsMadeUp(k) /\ Kinds[k] \notin {"TRex", "StatCPU"}
  BY <1>2, <1>7 DEF Passed, Success, Judged, Succeeds, Rs
<1> QED  BY <1>3, <1>4, <1>5, <1>6, <1>7

LEMMA ResultsAreCollected ==
  ASSUME PInv, Collect
  PROVE  PInv'
<1>1. /\ at = "collect"
      /\ used' = [used EXCEPT ![m] = IF IsMadeUp(m) THEN <<>> ELSE Collected(m)]
      /\ verdict' = [verdict EXCEPT ![m] = @ /\ Success(m)]
      /\ clean' = [clean EXCEPT ![m] = @ /\ Passed(m)]
      /\ running' = IF IsRDMA(m) THEN [running EXCEPT ![m] = <<>>] ELSE running
      /\ IF m < Flow THEN m' = m + 1 /\ at' = at ELSE at' = "iteration" /\ m' = m
      /\ UNCHANGED plan /\ todo' = todo /\ status' = status /\ finished' = finished
      /\ shared' = shared /\ own' = own /\ raised' = raised /\ faults' = faults
      /\ frag' = frag /\ rules' = rules /\ noted' = noted /\ untweaked' = untweaked /\ unheard' = unheard
  BY DEF Collect, tweaks, IsRDMA, Flow, Passed, Rs
<1>2. /\ Setup /\ Typed /\ conf \in Nat /\ iter \in Nat /\ Flow \in {2, 3} /\ Ms = 1 .. Flow /\ m \in Ms
      /\ Past /\ Starting /\ Lists /\ Echoed /\ Running /\ Results /\ Tweaks
  BY <1>1, MidFacts DEF PInv
<1>3. PICK k0 \in Ms : k0 = m
  BY <1>2
<1>4. /\ Ms' = Ms /\ Flow' = Flow /\ setup' = setup /\ conf' = conf /\ iter' = iter /\ Kinds' = Kinds
      /\ \A k : /\ Rs(k)' = Rs(k) /\ Test(k)' = Test(k)
                /\ (IsPerf(k)' <=> IsPerf(k)) /\ (IsRDMA(k)' <=> IsRDMA(k)) /\ (IsSimulated(k)' <=> IsSimulated(k))
                /\ (Lenient(k)' <=> Lenient(k))
      /\ \A x : (Current(x)' <=> Current(x)) /\ (Echoes(x)' <=> Echoes(x)) /\ (Dated(x)' <=> Dated(x))
      /\ (Stale' <=> Stale)
  BY <1>1, SamePlan
<1>5. /\ running \in [Ms -> Seq(JobSet)] /\ used \in [Ms -> Seq(JobSet)]
      /\ verdict \in [Ms -> BOOLEAN] /\ clean \in [Ms -> BOOLEAN]
      /\ iter > 0 /\ raised = {} /\ todo = <<>>
  BY <1>1, <1>2 DEF Typed
<1>6. \A k \in Ms : IsDone(k) /\ (IsRDMA(k) /\ k < k0 => running[k] = <<>>)
  BY <1>1, <1>2, <1>3 DEF Lists
<1> DEFINE U == IF IsMadeUp(k0) THEN <<>> ELSE Collected(k0)
<1>7. U \in Seq(JobSet) /\ (U # <<>> => U = Test(k0) \/ (IsPerf(k0) /\ Stale)) /\ used' = [used EXCEPT ![k0] = U]
  <2>1. Collected(k0) \in Seq(JobSet) /\ (Collected(k0) = Test(k0) \/ (IsPerf(k0) /\ Stale))
    BY <1>1, <1>6, CollectedFacts
  <2>2. U \in Seq(JobSet)
    BY <2>1
  <2> QED  BY <1>1, <1>3, <2>1, <2>2
<1> HIDE DEF U
<1>8. /\ running' \in [Ms -> Seq(JobSet)] /\ used' \in [Ms -> Seq(JobSet)]
      /\ \A k \in Ms : used'[k] = IF k = k0 THEN U ELSE used[k]
      /\ \A k \in Ms : running'[k] = IF IsRDMA(k) /\ k = k0 THEN <<>> ELSE running[k]
  BY ONLY <1>1, <1>3, <1>5, <1>7
<1>9. /\ verdict' \in [Ms -> BOOLEAN] /\ clean' \in [Ms -> BOOLEAN]
      /\ \A k \in Ms : k # k0 => verdict'[k] = verdict[k] /\ clean'[k] = clean[k]
      /\ verdict'[k0] = (verdict[k0] /\ Success(k0)) /\ clean'[k0] = (clean[k0] /\ Passed(k0))
  <2>1. verdict' = [verdict EXCEPT ![k0] = @ /\ Success(k0)] /\ clean' = [clean EXCEPT ![k0] = @ /\ Passed(k0)]
    BY <1>1, <1>3
  <2>2. (verdict[k0] /\ Success(k0)) \in BOOLEAN /\ (clean[k0] /\ Passed(k0)) \in BOOLEAN
    OBVIOUS
  <2> QED  BY ONLY <1>3, <1>5, <2>1, <2>2
<1>10. \/ k0 < Flow /\ m' = k0 + 1 /\ at' = "collect"
       \/ k0 = Flow /\ m' = k0 /\ at' = "iteration"
  BY <1>1, <1>2, <1>3
<1>11. Typed'
  <2>1. m' \in 0 .. Flow /\ m' > 0
    BY <1>2, <1>3, <1>10
  <2> QED  BY ONLY <1>1, <1>2, <1>4, <1>5, <1>8, <1>9, <1>10, <2>1 DEF Typed, Places
<1>12. Past'
  <2>1. \A k \in Ms : IsPerf(k) => running'[k] = running[k]
    BY <1>2, <1>8, TheFlow
  <2> QED  BY ONLY <1>1, <1>2, <1>4, <2>1 DEF Past
<1>13. Starting'
  <2>1. \A j : Known(j)' <=> Known(j)
    BY <1>1 DEF Known
  <2> QED  BY ONLY <1>1, <1>2, <1>4, <1>10, <2>1 DEF Starting
<1>14. Lists'
  <2>1. \A k \in Ms : IsPerf(k) => running'[k] = running[k]
    BY <1>2, <1>8, TheFlow
  <2>2. \A k \in Ms : IsDone(k)'
    BY ONLY <1>1, <1>4, <1>6, <2>1 DEF IsDone
  <2>3. CASE at' = "collect"
    <3>1. \A k \in Ms : k < m' => k < k0 \/ k = k0
      BY <1>2, <1>3, <1>10, <2>3
    <3>2. \A k \in Ms : IsRDMA(k) /\ k < m' => running'[k] = <<>>
      BY <1>6, <1>8, <3>1
    <3> QED  BY ONLY <1>4, <2>2, <2>3, <3>2 DEF Lists
  <2>4. CASE at' = "iteration"
    <3>1. \A k \in Ms : IsRDMA(k) => running'[k] = <<>>
      BY <1>2, <1>8, <1>10, <2>4, TheFlow
    <3>2. \A k \in Ms : IsPerf(k) => own' /\ running'[k] = <<>>
      BY <1>1, <1>6, <2>1 DEF IsDone
    <3>3. \A n : n = iter + 1 => n # 1
      BY <1>2, <1>5
    <3>4. \A k \in Ms : \A n : n = iter + 1 => Ready(k, n)'
      BY ONLY <1>4, <3>1, <3>2, <3>3 DEF Ready
    <3>5. \A k \in Ms' : Ready(k, iter + 1)'
      BY ONLY <1>4, <3>4
    <3> QED  BY ONLY <2>4, <3>5 DEF Lists
  <2> QED  BY <1>10, <2>3, <2>4
<1>15. Echoed'
  <2>1. \A j : How(j)' = How(j)
    BY <1>1 DEF How, Known
  <2>2. \A k \in Ms : IsSimulated(k) => \A j \in Rs(k) : How(j) = "passed"
    BY <1>1, <1>2 DEF Echoed
  <2>3. \A j \in DOMAIN status : Current(j) /\ Echoes(j) => status[j] \in {"running", "passed"}
    BY <1>1, <1>2 DEF Echoed
  <2> QED  BY ONLY <1>1, <1>4, <1>10, <2>1, <2>2, <2>3 DEF Echoed
<1>16. Results'
  <2>1. \A k \in Ms : used'[k] # <<>> => used'[k] = Test(k) \/ (IsPerf(k) /\ Stale)
    BY <1>2, <1>7, <1>8 DEF Results
  <2>2. ASSUME NEW k \in Ms, ~IsPerf(k)
        PROVE  verdict'[k] = clean'[k] \/ (Lenient(k) /\ verdict'[k])
    <3>1. verdict[k] = clean[k] \/ (Lenient(k) /\ verdict[k])
      BY <1>2, <2>2 DEF Results
    <3>2. CASE k = k0
      <4>1. (Passed(k) => Success(k)) /\ (Lenient(k) \/ (Success(k) => Passed(k)))
        BY <1>1, <1>6, <2>2, Successes
      <4>2. verdict[k] \in BOOLEAN /\ clean[k] \in BOOLEAN
        BY <1>5
      <4>3. Passed(k) \in BOOLEAN /\ Success(k) \in BOOLEAN /\ Lenient(k) \in BOOLEAN
        BY DEF Passed, Success, Lenient
      <4>4. (verdict[k] /\ Success(k)) = (clean[k] /\ Passed(k)) \/ (Lenient(k) /\ (verdict[k] /\ Success(k)))
        BY ONLY <3>1, <4>1, <4>2, <4>3, Judging
      <4> QED  BY ONLY <1>9, <3>2, <4>4
    <3>3. CASE k # k0
      BY <1>9, <3>1, <3>3
    <3> QED  BY <3>2, <3>3
  <2> QED  BY ONLY <1>4, <2>1, <2>2 DEF Results
<1>17. Running'
  <2>1. \A j : ~Runs(j)
    BY <1>1, Quiet
  <2>2. \A j : ~Runs(j)'
    BY <1>1, <2>1 DEF Runs, How, Known
  <2> QED  BY <2>2 DEF Running
<1>18. OwnSteps' /\ Covered'
  BY <1>10 DEF OwnSteps, Covered
<1>19. Tweaks'
  BY <1>1, <1>2, <1>4, <1>10, TweaksKept DEF Mid, tweaks
<1> QED  BY <1>11, <1>12, <1>13, <1>14, <1>15, <1>16, <1>17, <1>18, <1>19 DEF PInv

-----------------------------------------------------------------------------
(* The tweaks *)

\* the calls that are left of a tweak, and the host of the next
LEMMA CallsLeft ==
  ASSUME PInv, at \in {"apply", "remove"}, todo # <<>>
  PROVE  /\ setup.type # "tcp" /\ Left \subseteq Hosts
         /\ Tail(todo) \in Seq(Steps) /\ Head(todo).job \in Left
         /\ {Tail(todo)[i].job : i \in DOMAIN Tail(todo)} = Left \ {Head(todo).job}
         /\ Tail(todo) \in {<<>>, <<[op |-> at, job |-> 2]>>}
         /\ Len(todo) > 1 \/ Tail(todo) = <<>>
<1>1. /\ todo \in {<<>>} \union {<<[op |-> at, job |-> 2]>>} \union {<<[op |-> at, job |-> 1], [op |-> at, job |-> 2]>>}
      /\ setup.type = "tcp" => todo = <<>>
  BY DEF PInv, Tweaks
<1> DEFINE a == [op |-> at, job |-> 1]
           b == [op |-> at, job |-> 2]
<1>2. a \in Steps /\ b \in Steps /\ a.job = 1 /\ b.job = 2
  BY DEF Steps, Ops, Hosts
<1>3. CASE todo = <<b>>
  <2> HIDE DEF a, b
  <2>1. Head(<<b>>) = b /\ Tail(<<b>>) = <<>> /\ {<<b>>[i].job : i \in DOMAIN <<b>>} = {2}
    BY <1>2
  <2>2. Left = {2} /\ Head(todo) = b /\ Tail(todo) = <<>>
    BY <1>3, <2>1 DEF Left
  <2>3. <<>> \in Seq(Steps) /\ {<<>>[i].job : i \in DOMAIN <<>>} = {}
    OBVIOUS
  <2> QED  BY <1>1, <1>2, <1>3, <2>2, <2>3 DEF Hosts
<1>4. CASE todo = <<a, b>>
  <2> HIDE DEF a, b
  <2>1. /\ Head(<<a, b>>) = a /\ Tail(<<a, b>>) = <<b>> /\ {<<a, b>>[i].job : i \in DOMAIN <<a, b>>} = {1, 2}
        /\ {<<b>>[i].job : i \in DOMAIN <<b>>} = {2} /\ Len(<<a, b>>) = 2 /\ <<b>> \in Seq(Steps)
    BY <1>2
  <2>2. Left = {1, 2} /\ Head(todo) = a /\ Tail(todo) = <<b>> /\ Len(todo) = 2
    BY <1>4, <2>1 DEF Left
  <2> QED  BY <1>1, <1>2, <1>4, <2>1, <2>2 DEF Hosts, b
<1> QED  BY <1>1, <1>3, <1>4

\* A step of the tweaks or to the end of the test: nothing is measured.
LEMMA OffTheTest ==
  ASSUME PInv, at \in {"apply", "remove"}, at' \in {at, "report", "aborted"},
         UNCHANGED <<plan, m, status, lists, found>>, todo' \in Seq(Steps), faults' \in Nat,
         raised \subseteq raised', at' \in {"apply", "report"} => raised' = {},
         at' \in {"report", "aborted"} => todo' = <<>>, at' = "report" => at = "remove", Tweaks'
  PROVE  PInv'
<1>1. /\ UNCHANGED plan /\ m' = m /\ status' = status
      /\ running' = running /\ finished' = finished /\ shared' = shared /\ own' = own
      /\ used' = used /\ verdict' = verdict /\ clean' = clean
  BY DEF lists, found
<1>2. /\ Ms' = Ms /\ Flow' = Flow /\ setup' = setup /\ conf' = conf /\ iter' = iter
      /\ \A k : Rs(k)' = Rs(k) /\ (IsPerf(k)' <=> IsPerf(k)) /\ (IsRDMA(k)' <=> IsRDMA(k))
      /\ \A r, j : MayStillRun(r, j)' <=> MayStillRun(r, j)
  BY <1>1, SamePlan
<1>3. Typed /\ Past /\ Lists /\ Results /\ Running
  BY DEF PInv
<1>4. Typed'
  <2>1. at' = "apply" => iter = 0
    BY <1>3 DEF Typed
  <2> QED  BY ONLY <1>1, <1>2, <1>3, <2>1, at \in {"apply", "remove"}, at' \in {at, "report", "aborted"},
                   todo' \in Seq(Steps), faults' \in Nat, at' \in {"apply", "report"} => raised' = {},
                   at' \in {"report", "aborted"} => todo' = <<>> DEF Typed, Places
<1>5. Past'
  BY <1>1, <1>3, PastKept
<1>6. Starting' /\ Echoed' /\ OwnSteps' /\ Covered'
  BY DEF Starting, Echoed, OwnSteps, Covered
<1>7. Lists'
  <2>1. \A k, n : Ready(k, n)' <=> Ready(k, n)
    BY <1>1, <1>2 DEF Ready
  <2>2. at' = "apply" => at = "apply"
    OBVIOUS
  <2> QED  BY ONLY <1>2, <1>3, <2>1, <2>2, at \in {"apply", "remove"}, at' \in {at, "report", "aborted"} DEF Lists
<1>8. Results'
  BY <1>1, <1>3, ResultsKept
<1>9. Running'
  <2>1. \A j : Runs(j)' <=> Runs(j)
    BY <1>1 DEF Runs, How, Known
  <2>2. CASE at = "apply"
    <3>1. \A j : ~Runs(j)
      BY <2>2, Quiet
    <3> QED  BY <2>1, <3>1 DEF Running
  <2>3. CASE at = "remove"
    <3>1. \A j \in DOMAIN status : Runs(j) => \E k \in Ms : /\ j \in Rs(k)
                /\ \E r \in raised : r.in \in {"start", "finish", "finally"} /\ MayStillRun(r, j)
      BY <1>3, <2>3 DEF Running, MayRun
    <3>2. CASE at' = "report"
      BY <1>1, <2>1, <3>1, <3>2 DEF Running
    <3>3. CASE at' \in {"remove", "aborted"}
      <4>1. \A k, j : (\E r \in raised : r.in \in {"start", "finish", "finally"} /\ MayStillRun(r, j)) => MayRun(k, j)'
        BY <1>2, <3>3 DEF MayRun
      <4> QED  BY ONLY <1>1, <1>2, <2>1, <3>1, <4>1 DEF Running
    <3> QED  BY <2>3, <3>2, <3>3
  <2> QED  BY <2>2, <2>3
<1> QED  BY <1>4, <1>5, <1>6, <1>7, <1>8, <1>9 DEF PInv

LEMMA TweaksUndone ==
  ASSUME PInv, Undone
  PROVE  PInv'
<1>1. /\ at = "remove" /\ todo = <<>> /\ at' = IF raised = {} THEN "report" ELSE "aborted"
      /\ UNCHANGED <<plan, m, status, lists, found>> /\ todo' = todo /\ raised' = raised /\ faults' = faults
      /\ frag' = frag /\ rules' = rules /\ untweaked' = untweaked /\ unheard' = unheard
  BY DEF Undone
<1>2. Tweaks /\ setup' = setup
  BY <1>1, SamePlan DEF PInv
<1>3. Changed = {} /\ Changed' = {}
  <2>1. Left = {}
    BY <1>1 DEF Left
  <2> QED  BY <1>1, <2>1 DEF Changed
<1>4. OnTweaks' <=> OnTweaks
  BY <1>1 DEF OnTweaks
<1>5. ASSUME NEW h, AsMeant(h)
      PROVE  AsMeant(h)'
  BY <1>1, <1>2, <1>3, <1>5 DEF AsMeant, LimitsOf, RulesOf
<1>6. Tweaks'
  BY ONLY <1>1, <1>2, <1>4, <1>5 DEF Tweaks
<1>7. todo' \in Seq(Steps) /\ faults' \in Nat
  BY <1>1, MidFacts
<1> QED  BY <1>1, <1>6, <1>7, OffTheTest

\* A call of a tweak raises.
LEMMA TweaksRaise ==
  ASSUME PInv, ApplyRaises \/ UndoRaises
  PROVE  PInv'
<1>1. /\ at \in {"apply", "remove"} /\ todo # <<>> /\ at' = "aborted" /\ todo' = <<>> /\ faults' \in Nat
      /\ raised' = raised \union {[in |-> at, m |-> 0]}
      /\ UNCHANGED <<plan, m, status, lists, found>> /\ untweaked' = untweaked
      /\ frag' \in {frag, frag \union {Head(todo).job}}
      /\ rules' = rules \/ rules' = [rules EXCEPT ![Head(todo).job] = @ + 1]
  BY MidFacts DEF ApplyRaises, UndoRaises, Fault, tweaks, Insert
<1>2. Tweaks /\ Head(todo).job \in Hosts
  BY <1>1, CallsLeft DEF PInv
<1>3. frag' \subseteq Hosts /\ rules' \in [Hosts -> Nat]
  BY <1>1, <1>2 DEF Tweaks
<1>4. OnTweaks'
  <2>1. [in |-> at, m |-> 0] \in raised' /\ [in |-> at, m |-> 0].in \in {"apply", "remove"}
    BY <1>1
  <2> QED  BY <2>1 DEF OnTweaks
<1>5. Tweaks'
  BY ONLY <1>1, <1>2, <1>3, <1>4 DEF Tweaks
<1>6. todo' \in Seq(Steps) /\ raised \subseteq raised'
  BY <1>1
<1> QED  BY <1>1, <1>5, <1>6, OffTheTest

LEMMA TweaksGoOn ==
  ASSUME PInv, Apply
  PROVE  PInv'
<1>1. /\ at = "apply" /\ todo # <<>> /\ at' = at /\ todo' = Tail(todo)
      /\ UNCHANGED <<plan, m, status, lists, found>> /\ raised' = raised /\ untweaked' = untweaked
  BY DEF Apply
<1>2. PICK h \in Hosts : h = Head(todo).job
  BY <1>1, CallsLeft
<1>3. /\ setup.type # "tcp" /\ Left \subseteq Hosts /\ h \in Left /\ Left' = Left \ {h}
      /\ todo' \in Seq(Steps) /\ todo' \in {<<>>, <<[op |-> "apply", job |-> 2]>>}
      /\ Len(todo) > 1 \/ todo' = <<>>
  BY <1>1, <1>2, CallsLeft DEF Left
<1>4. /\ Typed /\ Tweaks /\ setup' = setup /\ raised = {} /\ faults \in Nat
  BY <1>1, SamePlan DEF PInv, Typed
<1>5. ~OnTweaks
  BY <1>4 DEF OnTweaks
<1>6. /\ Changed = Hosts \ Left /\ Changed' = Hosts \ Left' /\ h \notin Changed /\ h \in Changed'
      /\ \A x : x # h => (x \in Changed' <=> x \in Changed)
  BY <1>1, <1>2, <1>3, <1>4 DEF Changed
<1>7. /\ frag \subseteq Hosts /\ rules \in [Hosts -> Nat]
      /\ untweaked.frag \subseteq Hosts /\ untweaked.rules \in [Hosts -> Nat]
      /\ \A x \in Left : NotChanged(x) \notin noted
      /\ \A x \in Hosts : x \in unheard \/ AsMeant(x)
  BY <1>1, <1>4, <1>5 DEF Tweaks
<1>8. \A x : NotChanged(x)' = NotChanged(x)
  BY DEF NotChanged
\* what is left to show: the host in hand, and that the others keep theirs
<1>9. ASSUME frag' \subseteq Hosts, rules' \in [Hosts -> Nat], faults' \in Nat,
             \A x \in Hosts : x # h => /\ x \in frag' <=> x \in frag
                                      /\ rules'[x] = rules[x],
             setup.type = "udp" => \A x : x # h => (NotChanged(x) \in noted' <=> NotChanged(x) \in noted),
             \A x \in Left' : NotChanged(x) \notin noted',
             unheard' = unheard \union {h} \/ (unheard' = unheard /\ (h \in unheard \/ AsMeant(h)'))
      PROVE  PInv'
  <2>1. ASSUME NEW x \in Hosts, x # h, AsMeant(x)
        PROVE  AsMeant(x)'
    <3>1. CASE setup.type = "udp"
      BY <1>1, <1>4, <1>6, <1>9, <2>1, <3>1, AsMeantKept
    <3>2. CASE setup.type # "udp"
      BY <1>1, <1>4, <1>6, <1>9, <2>1, <3>2 DEF AsMeant, LimitsOf, RulesOf
    <3> QED  BY <3>1, <3>2
  <2>2. ASSUME NEW x \in Hosts
        PROVE  x \in unheard' \/ AsMeant(x)'
    <3>1. CASE x = h
      BY <1>9, <3>1
    <3>2. CASE x # h
      BY <1>7, <1>9, <2>1, <3>2
    <3> QED  BY <3>1, <3>2
  <2>3. Tweaks'
    BY ONLY <1>1, <1>3, <1>4, <1>7, <1>8, <1>9, <2>2 DEF Tweaks
  <2> QED  BY <1>1, <1>3, <1>4, <1>9, <2>3, OffTheTest
<1>10. CASE ApplyUDP(h)
  <2>1. /\ setup.type = "udp" /\ rules' = rules
        /\ frag' \in {frag, frag \union {h}}
        /\ noted' = noted \union {[host |-> h, was |-> Limits(h)]} \/ noted' = noted \union {[host |-> h, was |-> "unread"]}
        /\ \/ faults' = faults + 1 /\ unheard' = unheard \union {h}
           \/ /\ faults' = faults /\ unheard' = unheard /\ frag' = frag \union {h}
              /\ noted' = noted \union {[host |-> h, was |-> Limits(h)]}
    BY <1>10 DEF ApplyUDP, Note, Heard, FailsUnheard, Fault
  <2>2. \A x, w : x # h => [host |-> h, was |-> w] # NotChanged(x)
    BY DEF NotChanged
  <2>3. \A x : x # h => (NotChanged(x) \in noted' <=> NotChanged(x) \in noted)
    BY <2>1, <2>2
  <2>4. \A x \in Left' : NotChanged(x) \notin noted'
    BY <1>3, <1>7, <2>3
  <2>5. ASSUME unheard' = unheard, h \notin unheard
        PROVE  AsMeant(h)'
    <3>1. AsMeant(h)
      BY <1>7, <2>5
    <3>2. frag' = frag \union {h} /\ noted' = noted \union {[host |-> h, was |-> Limits(h)]}
      BY <2>1, <2>5
    <3>3. h \in frag <=> h \in untweaked.frag
      BY <1>6, <2>1, <3>1 DEF AsMeant, LimitsOf
    <3>4. [host |-> h, was |-> Limits(h)] = NotChanged(h) <=> h \notin frag
      <4>1. CASE h \in frag
        <5>1. [host |-> h, was |-> "changed"] # [host |-> h, was |-> "original"]
          <6>1. [host |-> h, was |-> "changed"].was # [host |-> h, was |-> "original"].was
            OBVIOUS
          <6> QED  BY <6>1
        <5> QED  BY <4>1, <5>1 DEF Limits, NotChanged
      <4>2. CASE h \notin frag
        BY <4>2 DEF Limits, NotChanged
      <4> QED  BY <4>1, <4>2
    <3>5. NotChanged(h) \in noted' <=> h \notin untweaked.frag
      BY <1>3, <1>7, <3>2, <3>3, <3>4
    <3>6. LimitsOf(h)'
      BY <1>1, <1>4, <1>6, <1>8, <2>1, <3>2, <3>5 DEF LimitsOf
    <3>7. RulesOf(h)'
      BY <1>1, <1>4, <2>1, <3>1 DEF AsMeant, RulesOf
    <3> QED  BY <3>6, <3>7 DEF AsMeant
  <2>6. /\ frag' \subseteq Hosts /\ rules' \in [Hosts -> Nat] /\ faults' \in Nat
        /\ \A x \in Hosts : x # h => (x \in frag' <=> x \in frag) /\ rules'[x] = rules[x]
    BY <1>2, <1>4, <1>7, <2>1
  <2> QED  BY <1>9, <2>1, <2>3, <2>4, <2>5, <2>6
<1>11. CASE ApplySCTP(h)
  <2>1. /\ setup.type = "sctp" /\ frag' = frag
        /\ \/ rules' = rules /\ faults' = faults + 1 /\ unheard' = unheard \union {h}
           \/ rules' = [rules EXCEPT ![h] = @ + 1] /\ faults' = faults /\ unheard' = unheard
        /\ noted' = IF Len(todo) > 1 THEN noted ELSE {[host |-> i, was |-> "original"] : i \in Hosts}
    BY <1>11 DEF ApplySCTP, Insert, Heard, FailsUnheard, Fault
  <2>2. \A x \in Left' : NotChanged(x) \notin noted'
    <3>1. CASE Len(todo) > 1
      BY <1>3, <1>7, <2>1, <3>1
    <3>2. CASE ~(Len(todo) > 1)
      <4>1. Left' = {}
        BY <1>3, <3>2 DEF Left
      <4> QED  BY <4>1
    <3> QED  BY <3>1, <3>2
  <2>3. /\ frag' \subseteq Hosts /\ rules' \in [Hosts -> Nat] /\ faults' \in Nat
        /\ \A x \in Hosts : x # h => (x \in frag' <=> x \in frag) /\ rules'[x] = rules[x]
    BY <1>2, <1>4, <1>7, <2>1
  <2>4. ASSUME unheard' = unheard, h \notin unheard
        PROVE  AsMeant(h)'
    <3>1. AsMeant(h)
      BY <1>7, <2>4
    <3>2. rules' = [rules EXCEPT ![h] = @ + 1]
      BY <2>1, <2>4
    <3>3. rules'[h] = untweaked.rules[h] + 1
      BY <1>2, <1>6, <1>7, <3>1, <3>2 DEF AsMeant, RulesOf
    <3> QED  BY <1>1, <1>4, <1>6, <2>1, <3>1, <3>3 DEF AsMeant, LimitsOf, RulesOf
  <2> QED  BY <1>9, <2>1, <2>2, <2>3, <2>4
<1> QED  BY <1>2, <1>10, <1>11 DEF Apply

LEMMA TweaksGoBack ==
  ASSUME PInv, Undo
  PROVE  PInv'
<1>1. /\ at = "remove" /\ todo # <<>> /\ at' = at /\ todo' = Tail(todo)
      /\ UNCHANGED <<plan, m, status, lists, found>> /\ raised' = raised
      /\ noted' = noted /\ untweaked' = untweaked
  BY DEF Undo
<1>2. PICK h \in Hosts : h = Head(todo).job
  BY <1>1, CallsLeft
<1>3. /\ setup.type # "tcp" /\ Left \subseteq Hosts /\ h \in Left /\ Left' = Left \ {h}
      /\ todo' \in Seq(Steps) /\ todo' \in {<<>>, <<[op |-> "remove", job |-> 2]>>}
  BY <1>1, <1>2, CallsLeft DEF Left
<1>4. Typed /\ Tweaks /\ setup' = setup /\ faults \in Nat
  BY <1>1, SamePlan DEF PInv, Typed
<1>5. OnTweaks' <=> OnTweaks
  BY <1>1 DEF OnTweaks
<1>6. /\ Changed = Left /\ Changed' = Left' /\ h \in Changed /\ h \notin Changed'
      /\ \A x : x # h => (x \in Changed' <=> x \in Changed)
  BY <1>1, <1>3, <1>4 DEF Changed
<1>7. /\ frag \subseteq Hosts /\ rules \in [Hosts -> Nat]
      /\ untweaked.frag \subseteq Hosts /\ untweaked.rules \in [Hosts -> Nat]
      /\ OnTweaks \/ \A x \in Hosts : x \in unheard \/ AsMeant(x)
  BY <1>4 DEF Tweaks
<1>8. \A x : NotChanged(x)' = NotChanged(x)
  BY DEF NotChanged
<1>9. ASSUME frag' \subseteq Hosts, rules' \in [Hosts -> Nat], faults' \in Nat,
             \A x \in Hosts : x # h => (x \in frag' <=> x \in frag) /\ rules'[x] = rules[x],
             unheard' = unheard \union {h} \/ (unheard' = unheard /\ (AsMeant(h) => AsMeant(h)'))
      PROVE  PInv'
  <2>1. ASSUME NEW x \in Hosts, x # h, AsMeant(x)
        PROVE  AsMeant(x)'
    BY <1>1, <1>4, <1>6, <1>9, <2>1, AsMeantKept
  <2>2. ASSUME NEW x \in Hosts, x \in unheard \/ AsMeant(x)
        PROVE  x \in unheard' \/ AsMeant(x)'
    <3>1. CASE x = h
      BY <1>9, <2>2, <3>1
    <3>2. CASE x # h
      BY <1>9, <2>1, <2>2, <3>2
    <3> QED  BY <3>1, <3>2
  <2>3. Tweaks'
    BY ONLY <1>1, <1>3, <1>4, <1>5, <1>7, <1>9, <2>2 DEF Tweaks
  <2> QED  BY <1>1, <1>3, <1>4, <1>9, <2>3, OffTheTest
<1>10. CASE UndoUDP(h)
  <2>1. /\ setup.type = "udp" /\ rules' = rules
        /\ \/ frag' = frag /\ faults' = faults + 1 /\ unheard' = unheard \union {h}
           \/ /\ frag' = IF NotChanged(h) \in noted THEN frag \ {h} ELSE frag
              /\ faults' = faults /\ unheard' = unheard
    BY <1>10 DEF UndoUDP, Heard, FailsUnheard, Fault, NotChanged
  <2>2. /\ frag' \subseteq Hosts /\ rules' \in [Hosts -> Nat] /\ faults' \in Nat
        /\ \A x \in Hosts : x # h => (x \in frag' <=> x \in frag) /\ rules'[x] = rules[x]
    BY <1>2, <1>4, <1>7, <2>1
  <2>3. ASSUME unheard' = unheard, unheard' # unheard \union {h}, AsMeant(h)
        PROVE  AsMeant(h)'
    <3>1. NotChanged(h) \in noted <=> h \notin untweaked.frag
      BY <1>1, <1>6, <2>1, <2>3 DEF AsMeant, LimitsOf
    <3>2. h \in frag' <=> h \in untweaked.frag
      BY <1>6, <2>1, <2>3, <3>1 DEF AsMeant, LimitsOf
    <3>3. LimitsOf(h)'
      BY <1>1, <1>4, <1>6, <2>1, <3>2 DEF LimitsOf
    <3>4. RulesOf(h)'
      BY <1>1, <1>4, <2>1, <2>3 DEF AsMeant, RulesOf
    <3> QED  BY <3>3, <3>4 DEF AsMeant
  <2> QED  BY <1>9, <2>1, <2>2, <2>3
<1>11. CASE UndoSCTP(h)
  <2>1. /\ setup.type = "sctp" /\ frag' = frag
        /\ \/ rules' = rules /\ faults' = faults + 1 /\ unheard' = unheard \union {h}
           \/ /\ rules' = [rules EXCEPT ![h] = IF @ > 0 THEN @ - 1 ELSE @]
              /\ faults' = faults /\ unheard' = unheard
    BY <1>11 DEF UndoSCTP, Heard, FailsUnheard, Fault
  <2>2. /\ frag' \subseteq Hosts /\ rules' \in [Hosts -> Nat] /\ faults' \in Nat
        /\ \A x \in Hosts : x # h => (x \in frag' <=> x \in frag) /\ rules'[x] = rules[x]
    BY <1>2, <1>4, <1>7, <2>1
  <2>3. ASSUME unheard' = unheard, unheard' # unheard \union {h}, AsMeant(h)
        PROVE  AsMeant(h)'
    <3>1. rules[h] = untweaked.rules[h] + 1 /\ untweaked.rules[h] \in Nat
      BY <1>2, <1>6, <1>7, <2>1, <2>3 DEF AsMeant, RulesOf
    <3>2. rules' = [rules EXCEPT ![h] = IF @ > 0 THEN @ - 1 ELSE @]
      BY <2>1, <2>3
    <3>3. rules'[h] = untweaked.rules[h]
      BY <1>2, <1>7, <3>1, <3>2
    <3> QED  BY <1>1, <1>4, <1>6, <2>1, <2>3, <3>3 DEF AsMeant, LimitsOf, RulesOf
  <2> QED  BY <1>9, <2>1, <2>2, <2>3
<1> QED  BY <1>2, <1>10, <1>11 DEF Undo

\* What cannot be reported ends the recipe when nothing is left to do.
LEMMA ReportsRaise ==
  ASSUME PInv, ReportRaises
  PROVE  PInv'
<1>1. /\ at = "report" /\ at' = "aborted" /\ raised' = raised \union {[in |-> "report", m |-> 0]}
      /\ UNCHANGED <<plan, m, todo, status, lists, found, tweaks, faults>>
  BY DEF ReportRaises
<1>2. /\ m' = m /\ todo' = todo /\ status' = status /\ faults' = faults
      /\ running' = running /\ finished' = finished /\ shared' = shared /\ own' = own
      /\ used' = used /\ verdict' = verdict /\ clean' = clean
      /\ frag' = frag /\ rules' = rules /\ noted' = noted /\ untweaked' = untweaked /\ unheard' = unheard
  BY <1>1 DEF lists, found, tweaks
<1>3. Ms' = Ms /\ Flow' = Flow /\ setup' = setup /\ conf' = conf /\ iter' = iter /\ UNCHANGED plan
  BY <1>1, SamePlan
<1>4. Typed /\ Past /\ Results /\ Tweaks
  BY DEF PInv
<1>5. Typed'
  <2>1. todo = <<>>
    BY <1>1, <1>4 DEF Typed
  <2> QED  BY ONLY <1>1, <1>2, <1>3, <1>4, <2>1 DEF Typed, Places
<1>6. Past'
  BY <1>2, <1>3, <1>4, PastKept
<1>7. Starting' /\ Lists' /\ Echoed' /\ OwnSteps' /\ Covered'
  BY <1>1 DEF Starting, Lists, Echoed, OwnSteps, Covered
<1>8. Results'
  BY <1>2, <1>3, <1>4, ResultsKept
<1>9. Running'
  <2>1. \A j : ~Runs(j)
    BY <1>1, Quiet
  <2>2. \A j : ~Runs(j)'
    BY <1>2, <2>1 DEF Runs, How, Known
  <2> QED  BY <2>2 DEF Running
<1>10. Tweaks'
  <2>1. Changed = {} /\ Changed' = {}
    BY <1>1, <1>3 DEF Changed
  <2>2. \A h : AsMeant(h) => AsMeant(h)'
    BY <1>1, <1>2, <1>3, <2>1, AsMeantKept
  <2>3. OnTweaks => OnTweaks'
    BY <1>1 DEF OnTweaks
  <2> QED  BY ONLY <1>1, <1>2, <1>3, <1>4, <2>2, <2>3 DEF Tweaks
<1> QED  BY <1>5, <1>6, <1>7, <1>8, <1>9, <1>10 DEF PInv

-----------------------------------------------------------------------------
(* The next configuration *)

LEMMA FreshStart ==
  ASSUME PInv, conf < Confs, Fresh(conf + 1), DOMAIN status' = DOMAIN status, status' \in [DOMAIN status -> Hows],
         \A j \in DOMAIN status : ~Runs(j)'
  PROVE  PInv'
<1>1. /\ setup' = setup /\ conf' = conf + 1 /\ iter' = 0 /\ at' = "apply" /\ m' = 0 /\ todo' = TweakSteps("apply")
      /\ running' = [k \in Ms |-> <<>>] /\ finished' = [k \in Ms |-> <<>>] /\ used' = [k \in Ms |-> <<>>] /\ own' = FALSE
      /\ verdict' = [k \in Ms |-> TRUE] /\ clean' = [k \in Ms |-> TRUE] /\ shared' = shared /\ faults' = faults
      /\ raised' = {} /\ noted' = {} /\ frag' = frag /\ rules' = rules
      /\ untweaked' = [frag |-> frag, rules |-> rules]
  BY DEF Fresh
<1>2. /\ Ms' = Ms /\ Flow' = Flow
      /\ \A k : (IsPerf(k)' <=> IsPerf(k)) /\ (IsRDMA(k)' <=> IsRDMA(k))
  BY <1>1, SameKinds
<1>3. Typed /\ Past /\ Tweaks /\ Setup /\ conf \in Nat /\ conf > 0 /\ Flow \in {2, 3}
  BY MidFacts DEF PInv, Typed
<1>4. Typed'
  <2>1. /\ running' \in [Ms -> Seq(JobSet)] /\ finished' \in [Ms -> Seq(JobSet)] /\ used' \in [Ms -> Seq(JobSet)]
        /\ verdict' \in [Ms -> BOOLEAN] /\ clean' \in [Ms -> BOOLEAN] /\ own' \in BOOLEAN
    <3>1. /\ running' \in [Ms -> Seq(JobSet)] /\ finished' \in [Ms -> Seq(JobSet)] /\ used' \in [Ms -> Seq(JobSet)]
      BY <1>1
    <3>2. /\ verdict' \in [Ms -> BOOLEAN] /\ clean' \in [Ms -> BOOLEAN]
      BY <1>1
    <3>3. own' \in BOOLEAN
      BY <1>1
    <3> QED  BY <3>1, <3>2, <3>3
  <2>2. todo' \in Seq(Steps)
    BY <1>1, <1>3, TweakStepsFacts
  <2>3. conf' \in Nat /\ conf' > 0 /\ iter' \in Nat /\ m' \in 0 .. Flow
    BY <1>1, <1>3
  <2>4. DOMAIN status' \subseteq JobSet /\ status' \in [DOMAIN status' -> Hows]
    BY <1>3 DEF Typed
  <2> QED  BY ONLY <1>1, <1>2, <1>3, <2>1, <2>2, <2>3, <2>4 DEF Typed, Places
<1>5. Past'
  <2>1. ASSUME NEW j \in JobSet, Dated(j)
        PROVE  Dated(j)'
    <3>1. j.conf \in Nat
      BY DEF JobSet
    <3> QED  BY <1>1, <1>3, <2>1, <3>1 DEF Dated
  <2>2. DOMAIN status \subseteq JobSet /\ shared \in Seq(JobSet)
    BY <1>3 DEF Typed
  <2>3. \A j \in DOMAIN status' : Dated(j)'
    BY <1>3, <2>1, <2>2 DEF Past
  <2>4. \A i \in DOMAIN shared : shared[i] \in JobSet
    BY <2>2
  <2>5. \A i \in DOMAIN shared : Dated(shared[i])' /\ shared[i].of = "LinuxPerf"
    BY <1>1, <1>3, <2>1, <2>4 DEF Past, Dated
  <2>6. \A i \in DOMAIN shared' : Dated(shared[i])' /\ shared'[i].of = "LinuxPerf"
    BY <1>1, <2>5
  <2>7. \A k \in Ms' : \A i \in DOMAIN running'[k] : FALSE
    BY <1>1, <1>2
  <2> QED  BY <2>3, <2>6, <2>7 DEF Past
<1>6. Starting' /\ Echoed' /\ OwnSteps' /\ Covered'
  BY <1>1 DEF Starting, Echoed, OwnSteps, Covered
<1>7. Lists'
  <2>1. \A k \in Ms : running'[k] = <<>> /\ conf' # 1 /\ ~own'
    BY <1>1, <1>3
  <2>2. \A k \in Ms : Ready(k, 1)'
    BY ONLY <2>1 DEF Ready
  <2> QED  BY ONLY <1>1, <1>2, <2>2 DEF Lists
<1>8. Results'
  <2>1. \A k \in Ms : used'[k] = <<>> /\ verdict'[k] = clean'[k]
    BY <1>1
  <2> QED  BY <1>2, <2>1 DEF Results
<1>9. Running'
  BY DEF Running
<1>10. Tweaks'
  <2>1. /\ todo' \in {<<>>} \union {<<[op |-> "apply", job |-> 2]>>} \union {<<[op |-> "apply", job |-> 1], [op |-> "apply", job |-> 2]>>}
        /\ setup.type = "tcp" => todo' = <<>>
        /\ Left' = IF setup.type = "tcp" THEN {} ELSE Hosts
    BY <1>1, <1>3, TweakStepsFacts DEF Left
  <2>2. Changed' = {}
    BY <1>1, <2>1 DEF Changed
  <2>3. frag \subseteq Hosts /\ rules \in [Hosts -> Nat]
    BY <1>3 DEF Tweaks
  <2>4. untweaked'.frag = frag /\ untweaked'.rules = rules
    BY <1>1
  <2>5. \A h : AsMeant(h)'
    BY <1>1, <2>2, <2>4 DEF AsMeant, LimitsOf, RulesOf
  <2>6. \A h \in Left' : NotChanged(h)' \notin noted'
    BY <1>1
  <2> QED  BY ONLY <1>1, <2>1, <2>3, <2>4, <2>5, <2>6 DEF Tweaks
<1> QED  BY <1>4, <1>5, <1>6, <1>7, <1>8, <1>9, <1>10 DEF PInv

LEMMA NextConfiguration ==
  ASSUME PInv, Report \/ RecipeEnds
  PROVE  PInv'
<1>1. status \in [DOMAIN status -> Hows]
  BY MidFacts
<1>2. CASE Report
  <2>1. at = "report" /\ conf < Confs /\ Fresh(conf + 1) /\ status' = status
    BY <1>2 DEF Report
  <2>2. \A j : ~Runs(j)
    BY <2>1, Quiet
  <2>3. \A j : ~Runs(j)'
    BY <2>1, <2>2 DEF Runs, How, Known
  <2> QED  BY <1>1, <2>1, <2>3, FreshStart
<1>3. CASE RecipeEnds
  <2>1. /\ conf < Confs /\ Fresh(conf + 1)
        /\ status' = [j \in DOMAIN status |-> IF IsFinished(j) THEN status[j] ELSE "gone"]
    BY <1>3 DEF RecipeEnds
  <2>2. \A j \in DOMAIN status : status'[j] \in {"gone"} \union Reported
    BY <2>1 DEF IsFinished, How, Known
  <2>3. DOMAIN status' = DOMAIN status /\ status' \in [DOMAIN status -> Hows]
    BY <2>1, <2>2 DEF Reported, Hows
  <2>4. \A j \in DOMAIN status : ~Runs(j)'
    BY <2>2, <2>3 DEF Runs, How, Known, Reported
  <2> QED  BY <2>1, <2>3, <2>4, FreshStart
<1> QED  BY <1>2, <1>3

-----------------------------------------------------------------------------
(* The invariant, and what it means *)

LEMMA FromTheStart ==
  ASSUME Init
  PROVE  PInv
<1>1. /\ setup \in [kind : FlowKinds, type : {"tcp", "udp", "sctp"}, perf : BOOLEAN, simulate : BOOLEAN]
      /\ conf = 1 /\ iter = 0 /\ at = "apply" /\ m = 0 /\ todo = TweakSteps("apply") /\ status = <<>>
      /\ running = [k \in Ms |-> <<>>] /\ finished = [k \in Ms |-> <<>>] /\ used = [k \in Ms |-> <<>>]
      /\ shared = <<>> /\ own = FALSE
      /\ verdict = [k \in Ms |-> TRUE] /\ clean = [k \in Ms |-> TRUE]
      /\ frag = {} /\ rules = [h \in Hosts |-> 0] /\ noted = {} /\ untweaked = [frag |-> frag, rules |-> rules]
      /\ raised = {} /\ faults = 0
  BY Bounds DEF Init, AllSetups
<1>2. Setup
  BY <1>1 DEF Setup
<1>3. Flow \in {2, 3} /\ Ms = 1 .. Flow
  BY <1>2, TheKinds
<1>4. DOMAIN status = {} /\ status \in [{} -> Hows]
  BY <1>1
<1>5. Typed
  <2>1. /\ running \in [Ms -> Seq(JobSet)] /\ finished \in [Ms -> Seq(JobSet)] /\ used \in [Ms -> Seq(JobSet)]
        /\ shared \in Seq(JobSet)
    BY <1>1
  <2>2. verdict \in [Ms -> BOOLEAN] /\ clean \in [Ms -> BOOLEAN]
    BY <1>1
  <2>3. own \in BOOLEAN
    BY <1>1
  <2>4. todo \in Seq(Steps)
    BY <1>1, <1>2, TweakStepsFacts
  <2>5. m \in 0 .. Flow /\ conf \in Nat /\ iter \in Nat /\ conf > 0 /\ faults \in Nat
    BY <1>1, <1>3
  <2> QED  BY ONLY <1>1, <1>4, <2>1, <2>2, <2>3, <2>4, <2>5 DEF Typed, Places
<1>6. Past
  <2>1. \A k \in Ms : DOMAIN running[k] = {}
    BY <1>1
  <2>2. DOMAIN shared = {}
    BY <1>1
  <2> QED  BY <1>4, <2>1, <2>2 DEF Past
<1>7. Starting /\ Echoed /\ OwnSteps /\ Covered
  BY <1>1 DEF Starting, Echoed, OwnSteps, Covered
<1>8. Lists
  BY <1>1 DEF Lists, Ready
<1>9. Results
  BY <1>1 DEF Results
<1>10. Running
  BY <1>4 DEF Running
<1>11. Tweaks
  <2>1. /\ todo \in {<<>>} \union {<<[op |-> "apply", job |-> 2]>>} \union {<<[op |-> "apply", job |-> 1], [op |-> "apply", job |-> 2]>>}
        /\ setup.type = "tcp" => todo = <<>>
        /\ Left = IF setup.type = "tcp" THEN {} ELSE Hosts
    BY <1>1, <1>2, TweakStepsFacts DEF Left
  <2>2. Changed = {}
    BY <1>1, <2>1 DEF Changed
  <2>3. rules \in [Hosts -> Nat] /\ untweaked.frag = {} /\ untweaked.rules = rules
    BY <1>1
  <2>4. \A h : AsMeant(h)
    BY <1>1, <2>2, <2>3 DEF AsMeant, LimitsOf, RulesOf
  <2> QED  BY ONLY <1>1, <2>1, <2>3, <2>4 DEF Tweaks
<1> QED  BY <1>5, <1>6, <1>7, <1>8, <1>9, <1>10, <1>11 DEF PInv

LEMMA StutteringKept ==
  ASSUME PInv, UNCHANGED vars
  PROVE  PInv'
<1>1. Stays /\ status' = status /\ todo' = todo
  <2>1. status \in [DOMAIN status -> Hows] /\ faults \in Nat
    BY MidFacts
  <2> QED  BY <2>1 DEF vars, place, Stays
<1>2. Starting'
  <2>1. CASE at = "start"
    <3>1. \A x \in DOMAIN status : Current(x) => status'[x] \in {"running", "passed", "failed"}
      BY <1>1, <2>1 DEF PInv, Starting
    <3> QED  BY <1>1, <2>1, <3>1, StartingKept
  <2>2. CASE at # "start"
    BY <1>1, <2>2, Staying
  <2> QED  BY <2>1, <2>2
<1>3. Echoed'
  BY <1>1, EchoedKept
<1>4. Running'
  <2>1. \A x : Runs(x)' => Runs(x)
    BY <1>1 DEF Runs, How, Known
  <2> QED  BY <1>1, <2>1, RunningKept
<1>5. Covered'
  BY <1>1, CoveredKept
<1> QED  BY <1>1, <1>2, <1>3, <1>4, <1>5, StaysParts

LEMMA EveryStep ==
  ASSUME PInv, [Next]_vars
  PROVE  PInv'
<1>1. CASE Apply
  BY <1>1, TweaksGoOn
<1>2. CASE ApplyRaises \/ UndoRaises
  BY <1>2, TweaksRaise
<1>3. CASE Applied
  BY <1>3, TweaksApplied
<1>4. CASE Undo
  BY <1>4, TweaksGoBack
<1>5. CASE Undone
  BY <1>5, TweaksUndone
<1>6. CASE StartIteration
  BY <1>6, IterationsStart
<1>7. CASE StartIterationRaises \/ IterationsOver \/ CollectRaises
  BY <1>7, QuietEndings
<1>8. CASE NextStart
  BY <1>8, NextStarts
<1>9. CASE StartJob
  BY <1>9, JobsStart
<1>10. CASE StartJobRaises
  BY <1>10, StartJobsRaise
<1>11. CASE AllStarted
  BY <1>11, AllAreStarted
<1>12. CASE Interrupt
  BY <1>12, Interrupts
<1>13. CASE WaitOver
  BY <1>13, WaitsOver
<1>14. CASE WaitTimesOut
  BY <1>14, WaitsTimeOut
<1>15. CASE KillJob
  BY <1>15, KillsJob
<1>16. CASE CallRaises
  BY <1>16, CallsRaise
<1>17. CASE FinallyOver
  BY <1>17, FinallyIsOver
<1>18. CASE Finished
  BY <1>18, IsFinishedNow
<1>19. CASE NextFinish
  BY <1>19, FinishesPass
<1>20. CASE Collect
  BY <1>20, ResultsAreCollected
<1>21. CASE Report \/ RecipeEnds
  BY <1>21, NextConfiguration
<1>22. CASE JobPasses \/ JobFails \/ JobFallsSilent \/ JobEndsBare \/ JobKilled
  BY <1>22, JobsEnd
<1>23. CASE ReportRaises
  BY <1>23, ReportsRaise
<1>24. CASE UNCHANGED vars
  BY <1>24, StutteringKept
<1> QED  BY <1>1, <1>2, <1>3, <1>4, <1>5, <1>6, <1>7, <1>8, <1>9, <1>10, <1>11, <1>12, <1>13, <1>14, <1>15,
            <1>16, <1>17, <1>18, <1>19, <1>20, <1>21, <1>22, <1>23, <1>24 DEF Next

LEMMA Always == Spec => []PInv
BY FromTheStart, EveryStep, PTL DEF Spec

(***************************************************************************)
(* What is collected for a measurement comes from the jobs of this         *)
(* iteration and from all of them - but for the list LinuxPerfMeasurement  *)
(* shares with the measurements before it - and a result that comes to be  *)
(* reported is a success exactly if all jobs passed with something to tell, *)
(* however the iterations aggregate: but for collect_results of TRex, which *)
(* does not ask the server, CPU monitors without a sample, and the flows   *)
(* whose results a simulation makes up.                                    *)
(***************************************************************************)
THEOREM PerfResultsAreOwn == Spec => []OwnResults
<1>1. ASSUME PInv
      PROVE  OwnResults
  <2>1. \A k \in Ms : used[k] # <<>> => used[k] = Test(k) \/ (Kinds[k] = "LinuxPerf" /\ iter = 1 /\ conf > 1)
    BY <1>1 DEF PInv, Results, IsPerf, Stale
  <2>2. ASSUME NEW k \in Ms, Kinds[k] # "LinuxPerf"
        PROVE  \/ verdict[k] = clean[k]
               \/ (Kinds[k] \in {"TRex", "StatCPU"} \/ IsMadeUp(k)) /\ verdict[k]
    <3>1. verdict[k] = clean[k] \/ (Lenient(k) /\ verdict[k])
      BY <1>1, <2>2 DEF PInv, Results, IsPerf
    <3>2. CASE verdict[k] = clean[k]
      BY <3>2
    <3>3. CASE Lenient(k) /\ verdict[k]
      BY <3>3 DEF Lenient
    <3> QED  BY ONLY <3>1, <3>2, <3>3
  <2> QED  BY ONLY <2>1, <2>2 DEF OwnResults
<1> QED  BY <1>1, Always, PTL

(***************************************************************************)
(* After an iteration no job of it runs, and after a test each host is as  *)
(* it was before it, unless a call to an agent raised - and then only what *)
(* that exception makes perf_test_iteration, the finish of the measurements *)
(* and the tweak mixins skip is left - or a command of the tweaks failed   *)
(* on that host, which the mixins do not look at.                          *)
(***************************************************************************)
THEOREM PerfTestsEndQuiet == Spec => []QuietAfterIteration
<1>1. ASSUME PInv
      PROVE  QuietAfterIteration
  <2>1. ASSUME at \in {"iteration", "remove", "report", "aborted"}, NEW j \in DOMAIN status, Runs(j)
        PROVE  \E r \in raised : r.in \in {"start", "finish", "finally"} /\ MayStillRun(r, j)
    <3>1. at \in {"remove", "aborted"}
      BY <1>1, <2>1, Quiet
    <3>2. PICK k \in Ms : MayRun(k, j)
      BY <1>1, <2>1 DEF PInv, Running
    <3> QED  BY <3>1, <3>2 DEF MayRun
  <2>2. ASSUME at \in {"report", "aborted"}, ~OnTweaks, NEW h \in Hosts, h \notin unheard
        PROVE  (h \in frag) = (h \in untweaked.frag) /\ rules[h] = untweaked.rules[h]
    <3>1. Changed = {}
      BY <2>2 DEF Changed
    <3>2. AsMeant(h)
      BY <1>1, <2>2 DEF PInv, Tweaks
    <3>3. h \in frag <=> h \in untweaked.frag
      BY <2>2, <3>1, <3>2 DEF AsMeant, LimitsOf
    <3>4. rules[h] = untweaked.rules[h]
      BY <3>1, <3>2 DEF AsMeant, RulesOf
    <3>5. (h \in frag) = (h \in untweaked.frag)
      BY <3>3
    <3> QED  BY <3>4, <3>5
  <2> QED  BY <2>1, <2>2 DEF QuietAfterIteration, OnTweaks
<1> QED  BY <1>1, Always, PTL

LEMMA StartedInOrder ==
  ASSUME PInv, at = "start", m = Flow, NEW c \in Rs(m), c.role = "client", Known(c),
         NEW k \in Ms, NEW i \in DOMAIN Test(k),
         Test(k)[i].role \in Monitors \/ (Test(k)[i].role = "server" /\ Test(k)[i].n = c.n)
  PROVE  Known(Test(k)[i])
<1>1. /\ Setup /\ conf \in Nat /\ iter \in Nat /\ Flow \in {2, 3} /\ Ms = 1 .. Flow /\ Starting /\ m \in Ms
      /\ todo \in Seq(Steps)
  BY MidFacts DEF PInv
<1>2. Test(k)[i] \in Rs(k)
  BY DEF Rs, ToSet
<1>3. CASE k # m
  <2>1. k < m
    BY <1>1, <1>3
  <2> QED  BY <1>1, <1>2, <2>1 DEF Starting
<1>4. CASE k = m
  <2> DEFINE J == Jobs(Kinds[m])
  <2>1. /\ DOMAIN Test(m) = DOMAIN J /\ DOMAIN Test(m) = 1 .. Len(Test(m)) /\ Len(Test(m)) \in Nat
        /\ \A p \in DOMAIN Test(m) : Test(m)[p] = Job(m, J[p]) /\ J[p] \in JobSpecs
    BY <1>1, TestFacts
  <2>2. Kinds[m] \in AllKinds
    BY <1>1, TheKinds
  <2> HIDE DEF J
  <2>3. PICK y \in DOMAIN J : c = Test(m)[y]
    BY <2>1 DEF Rs, ToSet
  <2>4. /\ J[y].role = "client" /\ i \in DOMAIN J
        /\ J[i].role \in Monitors \/ (J[i].role = "server" /\ J[i].n = J[y].n)
    <3>1. c.role = J[y].role /\ c.n = J[y].n
      BY <1>1, <2>1, <2>3, JobFacts
    <3>2. i \in DOMAIN Test(m) /\ Test(k)[i] = Test(m)[i]
      BY <1>4
    <3>3. Test(m)[i] = Job(m, J[i]) /\ J[i] \in JobSpecs
      BY <2>1, <3>2
    <3>4. Test(m)[i].role = J[i].role /\ Test(m)[i].n = J[i].n
      BY <1>1, <3>3, JobFacts
    <3> QED  BY <2>1, <3>1, <3>2, <3>4
  <2>5. i < y
    BY <2>2, <2>3, <2>4, ServersFirst DEF J
  <2>6. \A p \in DOMAIN Test(m) : p <= Done <=> Known(Test(m)[p])
    BY <1>1 DEF Starting
  <2>7. y <= Done /\ y \in DOMAIN Test(m) /\ i \in DOMAIN Test(m)
    BY <2>1, <2>3, <2>4, <2>6
  <2>8. Done \in Int
    BY <1>1, <2>1 DEF Done
  <2>9. i <= Done
    BY ONLY <2>1, <2>5, <2>7, <2>8
  <2> QED  BY <1>4, <2>6, <2>7, <2>9
<1> QED  BY <1>3, <1>4

(***************************************************************************)
(* While the client of a flow runs in time, its server and every monitor   *)
(* of the iteration have been started and none was told to end: the order  *)
(* in which perf_test_iteration starts the measurements and finishes them, *)
(* and the order of each start and each finish.                            *)
(***************************************************************************)
THEOREM PerfFlowsAreCovered == Spec => []FlowsAreCovered
<1>1. ASSUME PInv
      PROVE  FlowsAreCovered
  <2> SUFFICES ASSUME NEW c \in DOMAIN status, c.role = "client", status[c] = "running", raised = {},
                      NEW k \in Ms, NEW i \in DOMAIN Test(k),
                      Test(k)[i].role \in Monitors \/ (Test(k)[i].role = "server" /\ Test(k)[i].n = c.n)
               PROVE  How(Test(k)[i]) \notin {"unknown", "told", "killing", "killed", "silent"}
    BY DEF FlowsAreCovered
  <2>1. /\ Setup /\ conf \in Nat /\ iter \in Nat /\ Flow \in {2, 3} /\ Ms = 1 .. Flow /\ m \in 0 .. Flow
        /\ Starting /\ Running /\ Covered /\ Typed
    BY <1>1, MidFacts DEF PInv
  <2>2. PICK l \in Ms : c \in Rs(l) /\ MayRun(l, c)
    BY <2>1 DEF Running, Runs, How, Known
  <2>3. l = Flow
    BY <2>1, <2>2, ClientsOfTheFlow
  <2>4. at # "finally"
    BY <2>1 DEF Typed
  <2>5. at \in {"start", "finish"} /\ m = Flow
    BY <2>1, <2>2, <2>3, <2>4 DEF MayRun
  <2>6. Test(k)[i] \in Rs(k) /\ Current(Test(k)[i])
    <3>1. Test(k)[i] \in Rs(k)
      BY DEF Rs, ToSet
    <3> QED  BY <2>1, <3>1, InRs
  <2>7. Known(Test(k)[i])
    <3>1. CASE at = "start"
      <4>1. c \in Rs(m) /\ Known(c)
        BY <2>2, <2>3, <2>5 DEF Known
      <4> QED  BY <1>1, <2>5, <3>1, <4>1, StartedInOrder
    <3>2. CASE at = "finish"
      BY <2>1, <2>6, <3>2 DEF Starting
    <3> QED  BY <2>5, <3>1, <3>2
  <2>8. status[Test(k)[i]] \in {"running", "passed", "failed", "hung"}
    <3>1. CASE at = "start"
      BY <2>1, <2>6, <2>7, <3>1 DEF Starting, Known
    <3>2. CASE at = "finish"
      BY <2>1, <2>5, <2>6, <2>7, <3>2 DEF Covered, Known
    <3> QED  BY <2>5, <3>1, <3>2
  <2> QED  BY <2>7, <2>8 DEF How
<1> QED  BY <1>1, Always, PTL
=============================================================================

--------------------------- MODULE MeasurementSteps ---------------------------
(***************************************************************************)
(* What each kind of performance measurement does, as data for PerfRuns:   *)
(* the jobs it starts and their order, the calls with which it finishes    *)
(* them (the last ones, the kills, stand in a `finally`), and what it makes *)
(* of their results.                                                       *)
(*                                                                         *)
(* A job has a role: the server or client of a flow, or a monitor ("cpu",  *)
(* "perf" on a host; "rx", "tx" on the forwarder).  A test is a sequence of *)
(* jobs in the order of their start; flows and hosts are numbered 1 and 2. *)
(***************************************************************************)
EXTENDS Naturals, Sequences, SequencesExt

FlowKinds == {"Iperf", "Neper", "TRex", "RDMA", "TcRun", "XDPBench",
              "XDPRedirectCPU", "Forwarding"}

\* The kinds whose start refuses to run twice (MeasurementError).
Guarded == {"Iperf", "Neper", "TRex", "TcRun"}

-------------------------------------------------------------------------------
(* The jobs a measurement prepares, in the order in which start starts them. *)

NthOf(role, n) == [role |-> role, n |-> n]
Both(role) == <<NthOf(role, 1), NthOf(role, 2)>>
ServersThenClients ==  \* all servers, then all clients
    <<NthOf("server", 1), NthOf("server", 2), NthOf("client", 1), NthOf("client", 2)>>

StatCPUJobs   == Both("cpu")
LinuxPerfJobs == Both("perf")

IperfJobs == ServersThenClients
NeperJobs == ServersThenClients
RDMAJobs  == ServersThenClients

\* one server and one client for all flows of a generator
TRexJobs == <<NthOf("server", 1), NthOf("client", 1)>>

\* one tc, with a batch for each instance
TcRunJobs == <<NthOf("client", 1)>>

\* flow by flow
XDPBenchJobs == <<NthOf("server", 1), NthOf("client", 1), NthOf("server", 2), NthOf("client", 2)>>

\* one set of jobs for all flows
XDPRedirectCPUJobs == <<NthOf("server", 1), NthOf("client", 1)>>
ForwardingJobs == <<NthOf("server", 1), NthOf("rx", 1), NthOf("tx", 1), NthOf("client", 1)>>

\* Jobs with the clients started before their servers.
ClientsFirst(kind) ==
    IF kind = "StatCPU" THEN StatCPUJobs
    ELSE <<NthOf("client", 1), NthOf("server", 1)>>

Jobs(kind) ==
    CASE kind = "StatCPU"        -> StatCPUJobs
      [] kind = "LinuxPerf"      -> LinuxPerfJobs
      [] kind = "Iperf"          -> IperfJobs
      [] kind = "Neper"          -> NeperJobs
      [] kind = "RDMA"           -> RDMAJobs
      [] kind = "TRex"           -> TRexJobs
      [] kind = "TcRun"          -> TcRunJobs
      [] kind = "XDPBench"       -> XDPBenchJobs
      [] kind = "XDPRedirectCPU" -> XDPRedirectCPUJobs
      [] kind = "Forwarding"     -> ForwardingJobs

-------------------------------------------------------------------------------
(***************************************************************************)
(* finish of each kind.  "int" is kill(SIGINT), "kill" is kill(); "reap"   *)
(* is the wait of LinuxPerfMeasurement, which kills a job that is late.    *)
(***************************************************************************)
Do(op, test) == [i \in DOMAIN test |-> [op |-> op, job |-> test[i]]]
Is(j, role, n) == j.role = role /\ j.n = n

\* the job with that role in a flow, if there is one
Of(test, role, n) ==
    IF \E j \in ToSet(test) : Is(j, role, n)
      THEN <<CHOOSE j \in ToSet(test) : Is(j, role, n)>> ELSE <<>>
All(test, role) == Of(test, role, 1) \o Of(test, role, 2)

\* flow by flow: the client is waited for, then its server
WaitForFlow(test, n) == Do("wait", Of(test, "client", n)) \o Do("wait", Of(test, "server", n))
WaitForFlows(test)   == WaitForFlow(test, 1) \o WaitForFlow(test, 2)

KillFlow(test, first, second, n) ==
    Do("kill", Of(test, first, n)) \o Do("kill", Of(test, second, n))
KillFlows(test, first, second) ==
    KillFlow(test, first, second, 1) \o KillFlow(test, first, second, 2)

StopCPU(test, n) == Do("int", Of(test, "cpu", n)) \o Do("wait", Of(test, "cpu", n))
StatCPUFinish(test)   == StopCPU(test, 1) \o StopCPU(test, 2) \o Do("kill", test)
LinuxPerfFinish(test) == Do("int", test) \o Do("reap", test)
IperfFinish(test)    == WaitForFlows(test) \o KillFlows(test, "server", "client")
NeperFinish(test)    == WaitForFlows(test) \o KillFlows(test, "server", "client")
XDPBenchFinish(test) == WaitForFlows(test) \o KillFlows(test, "server", "client")
RDMAFinish(test)     == WaitForFlows(test) \o KillFlows(test, "client", "server")
TRexFinish(test) ==
    Do("wait", All(test, "client")) \o Do("int", All(test, "server")) \o
    Do("wait", All(test, "server")) \o Do("kill", test)
TcRunFinish(test) == Do("wait", test) \o Do("kill", test)
XDPRedirectCPUFinish(test) ==
    WaitForFlows(test) \o KillFlows(test, "client", "server")
ForwardingFinish(test) ==
    Do("wait", All(test, "client")) \o
    Do("int", All(test, "rx")) \o Do("wait", All(test, "rx")) \o
    Do("int", All(test, "tx")) \o Do("wait", All(test, "tx")) \o
    Do("wait", All(test, "server")) \o
    Do("kill", All(test, "client")) \o Do("kill", All(test, "rx")) \o
    Do("kill", All(test, "tx")) \o Do("kill", All(test, "server"))

\* Finish without the kills: what hangs is left.
FinishByWaiting(kind, test) ==
    IF kind = "StatCPU" THEN Do("int", test) \o Do("wait", test)
                        ELSE WaitForFlows(test)

Finish(kind, test) ==
    CASE kind = "StatCPU"        -> StatCPUFinish(test)
      [] kind = "LinuxPerf"      -> LinuxPerfFinish(test)
      [] kind = "Iperf"          -> IperfFinish(test)
      [] kind = "Neper"          -> NeperFinish(test)
      [] kind = "RDMA"           -> RDMAFinish(test)
      [] kind = "TRex"           -> TRexFinish(test)
      [] kind = "TcRun"          -> TcRunFinish(test)
      [] kind = "XDPBench"       -> XDPBenchFinish(test)
      [] kind = "XDPRedirectCPU" -> XDPRedirectCPUFinish(test)
      [] kind = "Forwarding"     -> ForwardingFinish(test)

(***************************************************************************)
(* The simulated measurements run `echo` in place of their tools and only  *)
(* wait for it; the kinds without a simulation of their own run as ever,   *)
(* and results are made up for them if they measure flows.                 *)
(***************************************************************************)
Simulated == {"Iperf", "Neper", "TRex", "RDMA", "TcRun", "XDPBench"}

WaitForServer(test, n) == Do("wait", Of(test, "server", n)) \o Do("wait", Of(test, "client", n))
XDPBenchSimulated(test) == WaitForServer(test, 1) \o WaitForServer(test, 2)

SimulatedFinish(kind, test) ==
    CASE kind \in {"Iperf", "Neper", "TRex"} -> WaitForFlows(test)
      [] kind = "XDPBench" -> XDPBenchSimulated(test)
      [] OTHER -> Finish(kind, test)

-------------------------------------------------------------------------------
(***************************************************************************)
(* What the test modules do: run until SIGINT comes, until their client has *)
(* ended (the one-off servers), or for a given time.                       *)
(***************************************************************************)
Monitors == {"cpu", "perf", "rx", "tx"}
RunUntilTold(job) == job.role \in Monitors \/ (job.of = "TRex" /\ job.role = "server")
OneOff(job) == job.of \in {"Iperf", "Neper", "RDMA"} /\ job.role = "server"

(***************************************************************************)
(* collect_results: how is the state of a job of the test.  A job whose    *)
(* result never came has the result None, a killed one the string          *)
(* "Job killed", one that failed what its module left behind.  Parsing     *)
(* some of them raises.  A monitor told to end before it sampled twice is  *)
(* "bare": it passes, and there is nothing in its result.                  *)
(***************************************************************************)
Reported == {"passed", "bare", "failed", "killed"}
Samplers == {"cpu", "rx", "tx"}

StatCPUUnreadable(how)   == how \notin {"passed", "bare"}
LinuxPerfUnreadable(how) == how = "killed"
RDMAUnreadable(job, how) == job.role = "client" /\ how # "passed"
TcRunUnreadable(how)     == how \notin {"passed", "failed"}
XDPBenchUnreadable(job, how) == \/ how \notin Reported
                                \/ job.role = "client" /\ how = "killed"

Unreadable(kind, job, how) ==
    CASE kind = "StatCPU"   -> StatCPUUnreadable(how)
      [] kind = "LinuxPerf" -> LinuxPerfUnreadable(how)
      [] kind = "RDMA"      -> RDMAUnreadable(job, how)
      [] kind = "TcRun"     -> TcRunUnreadable(how)
      [] kind = "XDPBench"  -> XDPBenchUnreadable(job, how)
      [] OTHER -> FALSE

\* A failed job may have left a result that cannot be read either, and the
\* counters of an interface are read from the first sample on.
Doubtful(kind, how) == \/ kind \in {"LinuxPerf", "TcRun"} /\ how = "failed"
                       \/ kind = "Forwarding" /\ how = "bare"

(***************************************************************************)
(* What the results of a job are once parsed: those of CPUs are of a host, *)
(* the others have a unit - which TRex does not give alike for a client    *)
(* that passed and one that did not; an empty list has the unit "none",    *)
(* and "nothing" is not a list of results at all.                          *)
(***************************************************************************)
Part(kind, job, how) ==
    CASE kind = "StatCPU"        -> job.n
      [] kind = "TRex"           -> IF how = "passed" THEN "pkts" ELSE "packets"
      [] kind = "XDPRedirectCPU" -> IF how = "passed" THEN "packets" ELSE "none"
      [] kind = "Forwarding"     -> IF how = "passed" THEN "packets"
                                    ELSE IF job.role = "client" THEN "nothing"
                                    ELSE "none"
      [] OTHER -> "units"

\* no result of a CPU, so none of the host
Parts(kind, test, how) ==
    LET jobs == IF kind = "StatCPU" THEN SelectSeq(test, LAMBDA j : how[j] # "bare")
                                    ELSE test
    IN [i \in DOMAIN jobs |-> Part(kind, jobs[i], how[jobs[i]])]

(***************************************************************************)
(* aggregate_results: an iteration's results join those of the iterations  *)
(* before, position by position as far as both go.  CPU results must be of *)
(* the same host, and a PerfList takes only results of one unit.           *)
(***************************************************************************)
Aggregated(old, new) == SubSeq(old, 1, IF Len(new) < Len(old) THEN Len(new) ELSE Len(old))
Aggregates(kind, old, new) ==
    \A i \in DOMAIN old \cap DOMAIN new :
       /\ old[i] = new[i]
       /\ kind = "Forwarding" => new[i] # "nothing"

\* The kinds whose results are reported per measurement: a result without its
\* samples has no time to align it by.
PerMeasurement == {"XDPRedirectCPU", "Forwarding"}
Reportable(kind, parts) ==
    kind \in PerMeasurement => \A i \in DOMAIN parts : parts[i] = "packets"

\* The success of the clients alone.
JudgedByClients(kind, test) == All(test, "client")

\* The jobs whose success measurement_success asks for.
Judged(kind, test) ==
    IF kind = "TRex" THEN All(test, "client") ELSE test

\* It is the success of the jobs; in Forwarding it is that they have samples,
\* which a monitor of interfaces told to end at once has not.
Succeeds(kind, how) == how = "passed" \/ (kind = "StatCPU" /\ how = "bare")
===============================================================================

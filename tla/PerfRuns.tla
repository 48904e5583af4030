------------------------------- MODULE PerfRuns -------------------------------
(***************************************************************************)
(* The performance tests of one or more recipes: Perf.Recipe.perf_test     *)
(* (RecipeCommon/Perf/Recipe.py) over the configurations that the mixins   *)
(* of an ENRT recipe generate, the tweaks around a test, and the jobs of   *)
(* its measurements on the agents, which end, fail, hang or lose their     *)
(* result on their own.                                                    *)
(*                                                                         *)
(* The measurements of a configuration are started in their order (CPU     *)
(* statistics, perf record if asked for, the flows), finished in the       *)
(* opposite order, and then their results are collected.  An exception ends *)
(* the recipe; the controller then cleans the machines, which kills what   *)
(* still runs, and goes on with the next recipe.                           *)
(*                                                                         *)
(* A call to an agent that raises, a job that fails, hangs or ends without *)
(* a result is a fault; there are at most MaxFaults.                       *)
(***************************************************************************)
EXTENDS MeasurementSteps, FiniteSets, FiniteSetsExt, Functions

CONSTANTS
    Confs,       \* configurations tested, one after the other
    Iterations,  \* perf_iterations
    MaxFaults,   \* bound on the faults
    Setups       \* what is measured, and how, in one behaviour

\* UDP and SCTP, which need tweaks, are flows of iperf.
AllSetups ==
    {s \in [kind : FlowKinds, type : {"tcp", "udp", "sctp"},
            perf : BOOLEAN, simulate : BOOLEAN] : s.type # "tcp" => s.kind = "Iperf"}

ASSUME Bounds == /\ Confs \in Nat /\ Iterations \in Nat /\ MaxFaults \in Nat
                 /\ Setups \subseteq AllSetups

Hosts == {1, 2}

VARIABLES
    setup,     \* kind of flow measurement, type of flow, perf?, simulated?
    conf, iter,
    at,        \* where perf_test is
    m,         \* the measurement it is at
    todo,      \* the calls left there
    status,    \* the jobs started and how they are
    running,   \* _running_measurements, _running_jobs, _endpoint_tests
    finished,  \* _finished_measurements, _finished_jobs
    shared,    \* LinuxPerfMeasurement._running_jobs, the list of the class
    own,       \* this LinuxPerfMeasurement has a list of its own
    used,      \* the jobs whose results were collected in this iteration
    parts,     \* what the aggregated results are made of
    verdict,   \* measurement_success of the aggregated results
    frag,      \* hosts whose fragmentation limits are changed
    rules,     \* SCTP firewall rules of each host
    noted,     \* perf_test_tweak_config
    raised,    \* where exceptions were raised in this test
    faults,
    untweaked, \* history: the hosts before the test
    unheard,   \* history: hosts where a command of a tweak failed in this test
    clean      \* history: measurements all of whose jobs passed with a result

plan  == <<setup, conf, iter>>
place == <<at, m, todo>>
lists == <<running, finished, shared, own>>
found == <<used, parts, verdict, clean>>
tweaks == <<frag, rules, noted, untweaked, unheard>>
vars == <<plan, place, status, lists, found, tweaks, raised, faults>>

Kinds == IF setup.perf THEN <<"StatCPU", "LinuxPerf", setup.kind>>
                       ELSE <<"StatCPU", setup.kind>>
Ms == DOMAIN Kinds
IsSimulated(k) == setup.simulate /\ Kinds[k] \in Simulated
\* measured as ever, with results made up
IsMadeUp(k) == setup.simulate /\ Kinds[k] \in FlowKinds \ Simulated

Job(k, j) == [conf |-> conf, iter |-> iter, of |-> Kinds[k],
              role |-> j.role, n |-> j.n]
Test(k) == [i \in DOMAIN Jobs(Kinds[k]) |-> Job(k, Jobs(Kinds[k])[i])]

Known(j) == j \in DOMAIN status
How(j) == IF Known(j) THEN status[j] ELSE "unknown"
\* Job.finished: the result has come
IsFinished(j) == How(j) \in Reported
Runs(j) == How(j) \in {"running", "told", "hung"}

Fault == faults < MaxFaults /\ faults' = faults + 1

-------------------------------------------------------------------------------
(* The tweaks of CommonPerfTestTweakMixin: of the type of the first flow.  *)

\* The hosts are configured one after the other, and undone likewise.
Tweaked == IF setup.type = "tcp" THEN <<>> ELSE <<1, 2>>

TweakSteps(op) == [i \in DOMAIN Tweaked |-> [op |-> op, job |-> Tweaked[i]]]

\* The hosts are changed by shell commands whose result is not looked at: one
\* that fails, or is killed when it takes too long, raises nothing.
FailsUnheard(h) == Fault /\ unheard' = unheard \cup {h}
Heard == UNCHANGED <<faults, unheard>>

\* What is noted of a host: its limits as they are, or the empty output of a
\* command that could not read them.
Limits(h) == IF h \in frag THEN "changed" ELSE "original"
Note(h, was) == noted' = noted \cup {[host |-> h, was |-> was]}

\* perf_test_tweak_config starts empty; UdpFragmentation notes the original
\* limits of a host when it has changed them, whether it could or not.
ApplyUDP(h) ==
    /\ setup.type = "udp"
    /\ \/ frag' = frag \cup {h} /\ Note(h, Limits(h)) /\ Heard
       \/ /\ frag' \in {frag, frag \cup {h}}
          /\ Note(h, Limits(h)) \/ Note(h, "unread")
          /\ FailsUnheard(h)
    /\ UNCHANGED rules

\* SctpFirewall notes that it inserted its rules when both hosts are done.
Insert(h) == rules' = [rules EXCEPT ![h] = @ + 1]
ApplySCTP(h) ==
    /\ setup.type = "sctp"
    /\ \/ Insert(h) /\ Heard
       \/ UNCHANGED rules /\ FailsUnheard(h)
    /\ noted' = IF Len(todo) > 1 THEN noted
                ELSE {[host |-> i, was |-> "original"] : i \in Hosts}
    /\ UNCHANGED frag

Apply ==
    /\ at = "apply" /\ todo # <<>>
    /\ ApplyUDP(Head(todo).job) \/ ApplySCTP(Head(todo).job)
    /\ todo' = Tail(todo)
    /\ UNCHANGED <<plan, at, m, status, lists, found, untweaked, raised>>

\* host.run raises: this host may be changed, and it is not noted.  The call
\* stands before the try.
ApplyRaises ==
    /\ at = "apply" /\ todo # <<>> /\ Fault
    /\ \/ UNCHANGED <<frag, rules>>
       \/ setup.type = "udp" /\ frag' = frag \cup {Head(todo).job} /\ UNCHANGED rules
       \/ setup.type = "sctp" /\ Insert(Head(todo).job) /\ UNCHANGED frag
    /\ raised' = raised \cup {[in |-> "apply", m |-> 0]}
    /\ at' = "aborted" /\ todo' = <<>>
    /\ UNCHANGED <<plan, m, status, lists, found, noted, untweaked, unheard>>

Applied ==
    /\ at = "apply" /\ todo = <<>>
    /\ at' = "iteration"
    /\ UNCHANGED <<plan, m, todo, status, lists, found, tweaks, raised, faults>>

\* The limits noted are written: those of a host that was found changed leave
\* it so, and an empty output is no limit.
UndoUDP(h) ==
    /\ setup.type = "udp" /\ UNCHANGED rules
    /\ \/ /\ frag' = IF [host |-> h, was |-> "original"] \in noted
                     THEN frag \ {h} ELSE frag
          /\ Heard
       \/ UNCHANGED frag /\ FailsUnheard(h)

\* A rule is deleted, if there is one.
UndoSCTP(h) ==
    /\ setup.type = "sctp" /\ UNCHANGED frag
    /\ \/ rules' = [rules EXCEPT ![h] = IF @ > 0 THEN @ - 1 ELSE @] /\ Heard
       \/ UNCHANGED rules /\ FailsUnheard(h)

Undo ==
    /\ at = "remove" /\ todo # <<>>
    /\ UndoUDP(Head(todo).job) \/ UndoSCTP(Head(todo).job)
    /\ todo' = Tail(todo)
    /\ UNCHANGED <<plan, at, m, status, lists, found, noted, untweaked, raised>>

UndoRaises ==
    /\ at = "remove" /\ todo # <<>> /\ Fault
    /\ raised' = raised \cup {[in |-> "remove", m |-> 0]}
    /\ at' = "aborted" /\ todo' = <<>>
    /\ UNCHANGED <<plan, m, status, lists, found, tweaks>>

Undone ==
    /\ at = "remove" /\ todo = <<>>
    /\ noted' = {}
    /\ at' = IF raised = {} THEN "report" ELSE "aborted"
    /\ UNCHANGED <<plan, m, todo, status, lists, found, frag, rules, untweaked,
                   unheard, raised, faults>>

-------------------------------------------------------------------------------
(* perf_test_iteration: starting the measurements.                         *)

\* The calls of start, and what is listed before the first of them.
Enter(k) ==
    /\ m' = k
    /\ todo' = Do("start", Test(k))
    /\ running' = [running EXCEPT ![k] =
                     IF Kinds[k] = "RDMA" THEN @ \o Test(k) ELSE @]

\* The iteration's tweak (dropping caches) keeps nothing; a call of it that
\* raises ends the test before anything was started.
StartIteration ==
    /\ at = "iteration" /\ iter < Iterations
    /\ iter' = iter + 1
    /\ status' = Restrict(status, DOMAIN status \cap ToSet(shared))
    /\ used' = [k \in Ms |-> <<>>]
    /\ at' = "start" /\ m' = 0 /\ todo' = <<>>
    /\ UNCHANGED <<setup, conf, lists, parts, verdict, clean, tweaks, raised, faults>>

StartIterationRaises ==
    /\ at = "iteration" /\ iter < Iterations /\ Fault
    /\ raised' = raised \cup {[in |-> "iteration", m |-> 0]}
    /\ at' = "remove" /\ todo' = TweakSteps("remove")
    /\ UNCHANGED <<plan, m, status, lists, found, tweaks>>

StopAt(k, where) ==
    /\ raised' = raised \cup {[in |-> where, m |-> k]}
    /\ at' = "remove" /\ todo' = TweakSteps("remove")

\* start of the next measurement; a guarded one raises MeasurementError when
\* the last iteration's jobs are still listed.
NextStart ==
    /\ at = "start" /\ todo = <<>> /\ m < Len(Kinds)
    /\ IF Kinds[m + 1] \in Guarded /\ running[m + 1] # <<>>
         THEN StopAt(m + 1, "start") /\ m' = m + 1 /\ UNCHANGED running
         ELSE Enter(m + 1) /\ UNCHANGED <<at, raised>>
    /\ UNCHANGED <<plan, status, finished, shared, own, found, tweaks, faults>>

\* The list start appends to: perf's is the one of the class until finish has
\* given the measurement one of its own.
List(k) == IF Kinds[k] = "LinuxPerf" /\ ~own THEN shared ELSE running[k]

SetList(k, test) ==
    IF Kinds[k] = "LinuxPerf" /\ ~own
      THEN shared' = test /\ UNCHANGED running
      ELSE running' = [running EXCEPT ![k] = test] /\ UNCHANGED shared

\* perf's jobs are listed one by one, RDMA's before they start, the others'
\* when all are started.
ListJob(j) ==
    CASE Kinds[m] = "LinuxPerf" -> SetList(m, Append(List(m), j))
      [] Kinds[m] \notin {"LinuxPerf", "RDMA"} /\ Len(todo) = 1 -> SetList(m, Test(m))
      [] OTHER -> UNCHANGED <<running, shared>>

Starts(j) == status' = [x \in DOMAIN status \cup {j} |->
                          IF x = j THEN "running" ELSE status[x]]

\* Job.start(bg=True) or host.run(..., bg=True): the agent runs the job.
StartJob ==
    /\ at = "start" /\ todo # <<>>
    /\ Starts(Head(todo).job)
    /\ ListJob(Head(todo).job)
    /\ todo' = Tail(todo)
    /\ UNCHANGED <<plan, at, m, finished, own, found, tweaks, raised, faults>>

\* The call raises, and whether the agent ran the job is not known.  Nothing
\* finishes what was started.
StartJobRaises ==
    /\ at = "start" /\ todo # <<>> /\ Fault
    /\ Starts(Head(todo).job) \/ UNCHANGED status
    /\ StopAt(m, "start")
    /\ UNCHANGED <<plan, m, lists, found, tweaks>>

-------------------------------------------------------------------------------
(* Finishing them, the last started first.                                 *)

FinishSteps(k) == IF IsSimulated(k) THEN SimulatedFinish(Kinds[k], List(k))
                                    ELSE Finish(Kinds[k], List(k))

AllStarted ==
    /\ at = "start" /\ todo = <<>> /\ m = Len(Kinds)
    /\ at' = "finish" /\ todo' = FinishSteps(m)
    /\ UNCHANGED <<plan, m, status, lists, found, tweaks, raised, faults>>

Calls(op) == /\ at \in {"finish", "finally"} /\ todo # <<>>
             /\ Head(todo).op = op
Becomes(j, h) == status' = [status EXCEPT ![j] = h]
Goes == /\ todo' = Tail(todo)
        /\ UNCHANGED <<plan, at, m, lists, found, tweaks, raised>>

\* job.kill(SIGINT): skipped for a finished job; an agent that does not know
\* the job, or finds no process, answers False.
Interrupt ==
    /\ Calls("int") /\ LET j == Head(todo).job IN
       IF How(j) \in {"running", "hung"} THEN Becomes(j, "told")
                                         ELSE UNCHANGED status
    /\ Goes /\ UNCHANGED faults

WaitOver ==
    /\ Calls("wait") \/ Calls("reap")
    /\ IsFinished(Head(todo).job)
    /\ Goes /\ UNCHANGED <<status, faults>>

\* Job.kill(): SIGKILL, and the agent reports "Job killed" - if the process
\* is there.
Kill(j) == CASE Runs(j) -> Becomes(j, "killing")
             [] How(j) = "silent" -> Becomes(j, "killing") \/ UNCHANGED status
             [] OTHER -> UNCHANGED status

\* wait returns False: the job's result will not come (or not in time, which
\* is a fault).  Only LinuxPerf looks at the answer.
WaitTimesOut ==
    /\ \/ Calls("reap") /\ Kill(Head(todo).job)
       \/ /\ Calls("wait")
          /\ IF Runs(Head(todo).job) THEN Becomes(Head(todo).job, "hung")
                                     ELSE UNCHANGED status
    /\ LET j == Head(todo).job IN
       \/ How(j) \in {"silent", "gone"} /\ UNCHANGED faults
       \/ Runs(j) /\ ~IsSimulated(m) /\ Fault
    /\ Goes

KillJob ==
    /\ Calls("kill") /\ Kill(Head(todo).job)
    /\ Goes /\ UNCHANGED faults

\* A call of finish raises: the kills of its finally are left, if it has one
\* (one of them raising ends that too).
CallRaises ==
    /\ at \in {"finish", "finally"} /\ todo # <<>> /\ Fault
    /\ ~IsFinished(Head(todo).job)
    /\ IF Head(todo).op # "kill" /\ \E i \in DOMAIN todo : todo[i].op = "kill"
         THEN /\ at' = "finally"
              /\ \E i \in DOMAIN todo :
                    /\ todo[i].op = "kill" /\ \A l \in 1 .. i - 1 : todo[l].op # "kill"
                    /\ todo' = SubSeq(todo, i, Len(todo))
              /\ raised' = raised \cup {[in |-> "finish", m |-> m]}
         ELSE StopAt(m, IF Head(todo).op = "kill" THEN "finally" ELSE "finish")
    /\ UNCHANGED <<plan, m, status, lists, found, tweaks>>

FinallyOver ==
    /\ at = "finally" /\ todo = <<>>
    /\ at' = "remove" /\ todo' = TweakSteps("remove")
    /\ UNCHANGED <<plan, m, status, lists, found, tweaks, raised, faults>>

\* _running = [], _finished = the tests.  RDMA keeps one list, until the
\* results are collected; perf's new list is its own.
Finished ==
    /\ at = "finish" /\ todo = <<>>
    /\ finished' = [finished EXCEPT ![m] = List(m)]
    /\ running' = IF Kinds[m] = "RDMA" THEN running
                  ELSE [running EXCEPT ![m] = <<>>]
    /\ own' = (own \/ Kinds[m] = "LinuxPerf")
    /\ at' = "finishing" /\ UNCHANGED <<m, todo>>
    /\ UNCHANGED <<plan, status, shared, found, tweaks, raised, faults>>

NextFinish ==
    /\ at = "finishing"
    /\ IF m > 1 THEN /\ m' = m - 1 /\ at' = "finish"
                     /\ todo' = FinishSteps(m - 1)
                ELSE at' = "collect" /\ UNCHANGED <<m, todo>>
    /\ UNCHANGED <<plan, status, lists, found, tweaks, raised, faults>>

-------------------------------------------------------------------------------
(* Collecting the results, reporting and evaluating them.                  *)

\* perf's jobs are paired with the hosts, in the order of the list.
Collected(k) ==
    IF Kinds[k] = "LinuxPerf"
      THEN SubSeq(finished[k], 1, Cardinality(Hosts)) ELSE finished[k]

Success(k) ==
    \/ IsSimulated(k) \/ IsMadeUp(k)
    \/ \A j \in ToSet(Judged(Kinds[k], Collected(k))) : Succeeds(Kinds[k], How(j))

IsReadable(k) ==
    \/ IsSimulated(k) \/ IsMadeUp(k)
    \/ \A j \in ToSet(Collected(k)) : ~Unreadable(Kinds[k], j, How(j))
MayBeUnreadable(k) ==
    /\ ~IsSimulated(k) /\ ~IsMadeUp(k)
    /\ \E j \in ToSet(Collected(k)) :
          Unreadable(Kinds[k], j, How(j)) \/ Doubtful(Kinds[k], How(j))

\* add_measurement_results: what the results of this iteration are made of,
\* and whether they can be aggregated with those of the iterations before.
\* Made up results are of another class than the kind expects.
NewParts(k) ==
    IF IsSimulated(k) \/ IsMadeUp(k) THEN <<>>
    ELSE Parts(Kinds[k], Collected(k), [j \in ToSet(Collected(k)) |-> How(j)])
IsAggregated(k) ==
    iter > 1 => ~IsMadeUp(k) /\ Aggregates(Kinds[k], parts[k], NewParts(k))

\* collect_results and add_measurement_results: the success of a measurement
\* is that of every iteration (perf's files are listed, not judged).
Collect ==
    /\ at = "collect"
    /\ IsReadable(m) /\ IsAggregated(m)
    /\ used' = [used EXCEPT ![m] = IF IsMadeUp(m) THEN <<>> ELSE Collected(m)]
    /\ parts' = [parts EXCEPT ![m] = IF iter = 1 THEN NewParts(m)
                                     ELSE Aggregated(@, NewParts(m))]
    /\ verdict' = [verdict EXCEPT ![m] = @ /\ Success(m)]
    /\ clean' = [clean EXCEPT ![m] = @ /\ \A j \in ToSet(Test(m)) :
                                             How(j) = "passed"]
    /\ running' = IF Kinds[m] = "RDMA" THEN [running EXCEPT ![m] = <<>>]
                  ELSE running
    /\ IF m < Len(Kinds) THEN m' = m + 1 /\ UNCHANGED at
                         ELSE at' = "iteration" /\ UNCHANGED m
    /\ UNCHANGED <<plan, todo, status, finished, shared, own, tweaks, raised,
                   faults>>

CollectRaises ==
    /\ at = "collect"
    /\ MayBeUnreadable(m) \/ ~IsAggregated(m)
    /\ StopAt(m, "collect")
    /\ UNCHANGED <<plan, m, status, lists, found, tweaks, faults>>

IterationsOver ==
    /\ at = "iteration" /\ iter = Iterations
    /\ at' = "remove" /\ todo' = TweakSteps("remove")
    /\ UNCHANGED <<plan, m, status, lists, found, tweaks, raised, faults>>

\* The measurements of the next configuration are new objects; perf's share
\* the list of their class.
Fresh(c) ==
    /\ conf' = c /\ iter' = 0
    /\ running' = [k \in Ms |-> <<>>] /\ finished' = [k \in Ms |-> <<>>]
    /\ used' = [k \in Ms |-> <<>>] /\ parts' = [k \in Ms |-> <<>>]
    /\ own' = FALSE
    /\ verdict' = [k \in Ms |-> TRUE] /\ clean' = [k \in Ms |-> TRUE]
    /\ raised' = {} /\ noted' = {}
    /\ untweaked' = [frag |-> frag, rules |-> rules] /\ unheard' = {}
    /\ at' = "apply" /\ m' = 0 /\ todo' = TweakSteps("apply")
    /\ UNCHANGED <<setup, shared, frag, rules, faults>>

\* perf_report_and_evaluate: the results are aligned in time and described.
IsReportable == \A k \in Ms : ~IsMadeUp(k) /\ Reportable(Kinds[k], parts[k])

Report ==
    /\ at = "report" /\ IsReportable /\ conf < Confs
    /\ Fresh(conf + 1) /\ UNCHANGED status

ReportRaises ==
    /\ at = "report" /\ ~IsReportable
    /\ raised' = raised \cup {[in |-> "report", m |-> 0]} /\ at' = "aborted"
    /\ UNCHANGED <<plan, m, todo, status, lists, found, tweaks, faults>>

\* The exception ended the recipe: what runs is killed by the cleanup of the
\* machines, and its result is never handled.
RecipeEnds ==
    /\ at = "aborted" /\ conf < Confs
    /\ Fresh(conf + 1)
    /\ status' = [j \in DOMAIN status |->
                    IF IsFinished(j) THEN status[j] ELSE "gone"]

-------------------------------------------------------------------------------
(* The jobs on the agents; a result is handled in whatever call the        *)
(* controller makes.                                                       *)

Echoes(j) == setup.simulate /\ j.of \in Simulated

\* A one-off server ends when its client has.
ClientRuns(j) == \E c \in DOMAIN status :
    /\ c.role = "client" /\ c.n = j.n /\ status[c] \in {"running", "hung"}

Listening == at \in {"start", "finish", "finally", "collect"}
JobEnds(j, h) == /\ Listening /\ Becomes(j, h)
                 /\ UNCHANGED <<plan, place, lists, found, tweaks, raised>>

JobPasses == \E j \in DOMAIN status :
    /\ \/ status[j] = "told"
       \/ /\ status[j] = "running"
          /\ Echoes(j) \/ (~RunUntilTold(j)
                           /\ (OneOff(j) => ~ClientRuns(j)))
    /\ JobEnds(j, "passed") /\ UNCHANGED faults

JobFails == \E j \in DOMAIN status :
    /\ status[j] \in {"running", "told"} /\ ~Echoes(j) /\ Fault
    /\ JobEnds(j, "failed")

\* A monitor handles SIGINT only while it samples: before or after, the job
\* ends with KeyboardInterrupt and sends nothing.
JobFallsSilent == \E j \in DOMAIN status :
    /\ status[j] = "told" /\ j.role \in Monitors /\ Fault
    /\ JobEnds(j, "silent")

\* It was told before its second sample.
JobEndsBare == \E j \in DOMAIN status :
    /\ status[j] = "told" /\ j.role \in Samplers /\ Fault
    /\ JobEnds(j, "bare")

JobKilled == \E j \in DOMAIN status :
    /\ status[j] = "killing"
    /\ JobEnds(j, "killed") /\ UNCHANGED faults

-------------------------------------------------------------------------------
Init ==
    /\ setup \in Setups
    /\ conf = 1 /\ iter = 0
    /\ at = "apply" /\ m = 0 /\ todo = TweakSteps("apply")
    /\ status = <<>>
    /\ running = [k \in Ms |-> <<>>] /\ finished = [k \in Ms |-> <<>>]
    /\ shared = <<>> /\ own = FALSE
    /\ used = [k \in Ms |-> <<>>] /\ parts = [k \in Ms |-> <<>>]
    /\ verdict = [k \in Ms |-> TRUE] /\ clean = [k \in Ms |-> TRUE]
    /\ frag = {} /\ rules = [h \in Hosts |-> 0] /\ noted = {}
    /\ untweaked = [frag |-> frag, rules |-> rules] /\ unheard = {}
    /\ raised = {} /\ faults = 0

Next ==
    \/ Apply \/ ApplyRaises \/ Applied \/ Undo \/ UndoRaises \/ Undone
    \/ StartIteration \/ StartIterationRaises \/ NextStart \/ StartJob
    \/ StartJobRaises \/ AllStarted \/ Interrupt \/ WaitOver \/ WaitTimesOut
    \/ KillJob \/ CallRaises \/ FinallyOver \/ Finished \/ NextFinish
    \/ Collect \/ CollectRaises \/ IterationsOver \/ Report \/ ReportRaises
    \/ RecipeEnds
    \/ JobPasses \/ JobFails \/ JobFallsSilent \/ JobEndsBare
    \/ JobKilled

Spec == Init /\ [][Next]_vars

-------------------------------------------------------------------------------
(***************************************************************************)
(* An iteration leaves no job running - unless a call raised.  What start  *)
(* leaves is then only what was started so far; a finish that raises has   *)
(* its own jobs killed all the same (perf record's and simulated ones are  *)
(* not), and the measurements started before it are never finished.  And a *)
(* test leaves each host as it found it, whatever is thrown between its    *)
(* tweaks - unless one of the calls that apply or remove them raised, or a *)
(* command of theirs failed on that very host, which nothing tells.        *)
(* (perf_test and perf_test_iteration of Recipe, the finish of every       *)
(* measurement, the mixins of the tweaks.)                                 *)
(***************************************************************************)
MayStillRun(r, j) == \E k \in 1 .. r.m :
    /\ j.of = Kinds[k]
    /\ \/ k < r.m \/ r.in \in {"start", "finally"}
       \/ Kinds[k] = "LinuxPerf" \/ IsSimulated(k)

QuietAfterIteration ==
    /\ at \in {"iteration", "remove", "report", "aborted"} =>
         \A j \in DOMAIN status :
            Runs(j) => \E r \in raised : /\ r.in \in {"start", "finish", "finally"}
                                         /\ MayStillRun(r, j)
    /\ at \in {"report", "aborted"} =>
         \A h \in Hosts :
            \/ /\ (h \in frag) = (h \in untweaked.frag)
               /\ rules[h] = untweaked.rules[h]
            \/ h \in unheard
            \/ \E r \in raised : r.in \in {"apply", "remove"}

(***************************************************************************)
(* Traffic is measured from end to end: while the client of a flow runs in *)
(* time, its server was started before it and nobody told it to end, and   *)
(* so it is with every monitor of the iteration.  (The order of perf_test_ *)
(* iteration and of each start and finish.)                                *)
(***************************************************************************)
FlowsAreCovered ==
    \A c \in DOMAIN status :
       (c.role = "client" /\ status[c] = "running" /\ raised = {}) =>
          \A k \in Ms : \A i \in DOMAIN Test(k) :
             LET j == Test(k)[i] IN
             (j.role \in Monitors \/ (j.role = "server" /\ j.n = c.n)) =>
                How(j) \notin {"unknown", "told", "killing", "killed", "silent"}

(***************************************************************************)
(* What is collected comes from the jobs of this iteration, one for one -  *)
(* but for the first iteration of perf record in all configurations but    *)
(* the first, which finds the jobs of an earlier measurement in the list   *)
(* of the class and takes their results for its own.  A measurement that   *)
(* comes to be reported is a success exactly if all its jobs passed and    *)
(* had something to tell in all iterations - but three succeed all the     *)
(* same: TRex when its server failed, the CPU statistics when a monitor    *)
(* had no sample, and the flow measurements whose simulation is made up    *)
(* while their jobs run as ever.  (collect_results, add_measurement_       *)
(* results, measurement_success.)                                          *)
(***************************************************************************)
OwnResults ==
    \A k \in Ms :
       /\ used[k] # <<>> =>
             \/ used[k] = Test(k)
             \/ Kinds[k] = "LinuxPerf" /\ iter = 1 /\ conf > 1
       /\ (at = "report" /\ Kinds[k] # "LinuxPerf") =>
             \/ verdict[k] = clean[k]
             \/ (Kinds[k] \in {"TRex", "StatCPU"} \/ IsMadeUp(k)) /\ verdict[k]
===============================================================================

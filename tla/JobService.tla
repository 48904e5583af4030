----------------------------- MODULE JobService -----------------------------
(***************************************************************************)
(* What the job machinery promises a tester, without saying how: jobs are  *)
(* started one after the other, each is carried out by at most one process *)
(* on the agent machine, and a job the tester sees as finished has one     *)
(* result, for good, and no process any more.                              *)
(* Docstrings of lnst/Controller/Job.py and Namespace.run.                 *)
(***************************************************************************)
EXTENDS Integers

CONSTANTS MaxJobs, Results

Jobs == 0..MaxJobs - 1

VARIABLES started,   \* number of jobs started
          result,    \* the result the tester sees, "none" before
          life       \* the process: "none", "alive", "ended", "gone"

svcVars == <<started, result, life>>

Init ==
  /\ started = 0
  /\ result = [j \in Jobs |-> "none"]
  /\ life = [j \in Jobs |-> "none"]

Start ==
  /\ started < MaxJobs
  /\ started' = started + 1
  /\ UNCHANGED <<result, life>>

Spawn(j) ==
  /\ j < started /\ life[j] = "none"
  /\ life' = [life EXCEPT ![j] = "alive"]
  /\ UNCHANGED <<started, result>>

\* one process ends by itself, or several are killed together
End(S) ==
  /\ \A j \in S : life[j] = "alive"
  /\ life' = [j \in Jobs |-> IF j \in S THEN "ended" ELSE life[j]]
  /\ UNCHANGED <<started, result>>

Reap(j) ==
  /\ life[j] = "ended"
  /\ life' = [life EXCEPT ![j] = "gone"]
  /\ UNCHANGED <<started, result>>

Report(j) ==
  /\ result[j] = "none" /\ life[j] = "gone"
  /\ \E r \in Results : result' = [result EXCEPT ![j] = r]
  /\ UNCHANGED <<started, life>>

Next ==
  \/ Start
  \/ \E j \in Jobs : Spawn(j) \/ Reap(j) \/ Report(j)
  \/ \E S \in SUBSET Jobs : End(S)

Spec == Init /\ [][Next]_svcVars
=============================================================================

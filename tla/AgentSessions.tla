--------------------------- MODULE AgentSessions ---------------------------
(***************************************************************************)
(* The life of an agent over several controllers: Agent.run,               *)
(* accept_connection, get_messages, machine_cleanup and _process_msg in    *)
(* lnst/Agent/Agent.py, with the agent of a network namespace, which is a  *)
(* fork of the root agent and inherits its JobContext                      *)
(* (lnst/Agent/Job.py), and the connections of both                        *)
(* (lnst/Common/ConnectionHandler.py).                                     *)
(*                                                                         *)
(* Job ids start at 0 for every controller, and they are what the agent    *)
(* knows jobs and their pipes by; a job here is an instance 1, 2, ... that *)
(* has an id.  AgentJobs models one job and one session in more detail.    *)
(***************************************************************************)
EXTENDS Integers, Sequences, SequencesExt, FiniteSets

CONSTANTS
  MaxJobs,      \* bound on the jobs of all sessions
  MaxSessions,  \* bound on the number of controllers
  MaxCalls,     \* bound on the calls of a session
  Faults        \* the sets of what may go wrong in one behaviour:
                \* "lost": a controller goes away before its jobs have ended;
                \* "check": connections that fail the handshake;
                \* "fork": a namespace is added while jobs run;
                \* "raise": a call in the namespace raises no LnstError

ASSUME SessionsAssumption ==
  /\ MaxJobs \in Nat /\ MaxSessions \in Nat /\ MaxCalls \in Nat
  /\ Faults \subseteq SUBSET {"lost", "check", "fork", "raise"}

Jobs   == 1..MaxJobs
Ids    == 0..MaxJobs - 1
NoJob  == 0
Agents == {"root", "netns"}

VARIABLES
  \* the controller
  ctl,      \* "away", "idle", or "call": it waits for a result
  session,  \* its number
  greeted,  \* init_connection has returned
  nextId, calls,
  mine,     \* Machine._jobs: the job it started, by id
  got,      \* the jobs whose results it has been given
  \* the agents
  state,    \* of each agent: "down", "wait" (for a connection), "serve",
            \*   "dead", or "held": dead, and jobs it started hold its pipe
  dict,     \* JobContext._dict, of each agent
  conns,    \* the job whose pipe is in _connection_mapping, by id, of each agent
  buf,      \* messages an agent has read and not processed
  eof,      \* the root agent has read the end of the controller's stream
  \* the jobs
  jobs,     \* [session, id, process: "none", "asked", "forked", "runs",
            \*   "zombie", "reaped"]
  pipe,     \* number of job_finished messages in the pipe of a job
  missed,   \* history: jobs machine_cleanup could not kill
  \* the streams
  toAgent, toNetns, fromNetns, toCtl,
  faults    \* what goes wrong in this behaviour

ctlVars    == <<ctl, session, greeted, nextId, calls, mine, got>>
agentVars  == <<state, dict, conns, buf, eof>>
jobVars    == <<jobs, pipe, missed>>
streamVars == <<toAgent, toNetns, fromNetns, toCtl>>
vars == <<ctlVars, agentVars, jobVars, streamVars, faults>>

Cmd(name) == [type |-> "command", name |-> name, job |-> NoJob]
Finished(k) == [type |-> "job_finished", name |-> "", job |-> k]
Result == [type |-> "result", name |-> "", job |-> NoJob]

NoJobs == [i \in Ids |-> NoJob]
Held(d) == {d[i] : i \in Ids} \ {NoJob}

-----------------------------------------------------------------------------
(* Job.kill of all jobs in d: it reaches a process that has left the       *)
(* agent's group and has not been joined, dead or alive, and writes a      *)
(* result for it.  One that has not come to its setpgrp is no group yet:   *)
(* killpg fails, the OSError is logged, and the job goes on.               *)

Killed(d) == {k \in Held(d) : jobs[k].process \in {"runs", "zombie"}}

\* processes that hold what they inherited
Holds(k) == jobs[k].process \in {"forked", "runs"}

kill_all_jobs(d) ==
  /\ jobs' = [k \in Jobs |-> IF k \in Killed(d) THEN [jobs[k] EXCEPT !.process = "zombie"] ELSE jobs[k]]
  /\ pipe' = [k \in Jobs |-> IF k \in Killed(d) THEN pipe[k] + 1 ELSE pipe[k]]

\* Mutant: jobs are left to themselves.
CleanupNoKill ==
  /\ UNCHANGED jobVars
  /\ toNetns' = <<>> /\ fromNetns' = <<>>

\* machine_cleanup, and del_namespace, which kills the agent of the namespace
machine_cleanup ==
  /\ kill_all_jobs(dict["root"])
  /\ missed' = missed \union {k \in Held(dict["root"]) : jobs[k].process = "forked"}
  /\ toNetns' = <<>> /\ fromNetns' = <<>>

DelNetns(s) == [state EXCEPT !["root"] = s, !["netns"] = "down"]

\* An agent dies.  When it is the root agent, the only one that talks to the
\* other, that one counts as dead as well; its own jobs, which are not
\* modelled otherwise, may hold the pipe of an agent of a namespace.
Dies(a) ==
  IF a = "root" THEN state' = [b \in Agents |-> IF state[b] = "down" THEN "down" ELSE "dead"]
                ELSE \E s \in {"dead", "held"} : state' = [state EXCEPT ![a] = s]

-----------------------------------------------------------------------------
(* Sessions *)

\* accept_connection, with its handshake; init_connection says hello
accept_connection ==
  /\ state["root"] = "wait" /\ ctl = "away" /\ session < MaxSessions
  /\ state' = [state EXCEPT !["root"] = "serve"]
  /\ ctl' = "call" /\ session' = session + 1 /\ greeted' = FALSE
  /\ nextId' = 0 /\ calls' = 0 /\ mine' = NoJobs /\ got' = {}
  /\ toAgent' = <<Cmd("hello")>> /\ toCtl' = <<>>
  /\ UNCHANGED <<dict, conns, buf, eof, jobVars, toNetns, fromNetns, faults>>

\* the handshake fails, as it does for the pool check of AgentPoolManager: the
\* loop starts over, with machine_cleanup
handshake_fails ==
  /\ "check" \in faults
  /\ state["root"] = "wait"
  /\ \A k \in Jobs : pipe[k] < 2
  /\ machine_cleanup
  /\ UNCHANGED <<ctlVars, agentVars, toAgent, toCtl, faults>>

\* the controller closes its connection
ctl_leaves ==
  /\ ctl # "away"
  /\ "lost" \in faults \/ (ctl = "idle" /\ \A k \in Held(mine) : k \in got)
  /\ ctl' = "away"
  /\ UNCHANGED <<session, greeted, nextId, calls, mine, got, agentVars, jobVars, streamVars, faults>>

\* ... or finds it closed: the agent is gone and so are the jobs of this
\* session, which inherited the socket
ctl_disconnected ==
  /\ ctl # "away" /\ toCtl = <<>>
  /\ state["root"] = "dead"
  /\ \A k \in Jobs : Holds(k) => jobs[k].session # session
  /\ ctl' = "away"
  /\ UNCHANGED <<session, greeted, nextId, calls, mine, got, agentVars, jobVars, streamVars, faults>>

Call(c) ==
  /\ ctl = "idle" /\ calls < MaxCalls
  /\ ctl' = "call" /\ calls' = calls + 1
  /\ toAgent' = Append(toAgent, c)
  /\ UNCHANGED <<session, greeted, got, agentVars, toNetns, fromNetns, toCtl, faults>>

\* Machine.run_job
run_job ==
  LET new == CHOOSE k \in Jobs : jobs[k].process = "none"
  IN  /\ \E k \in Jobs : jobs[k].process = "none"
      /\ Call([Cmd("run_job") EXCEPT !.job = new])
      /\ jobs' = [jobs EXCEPT ![new] = [session |-> session, id |-> nextId, process |-> "asked"]]
      /\ mine' = [mine EXCEPT ![nextId] = new]
      /\ nextId' = nextId + 1
      /\ UNCHANGED <<pipe, missed>>

\* prepare_machine, kill_jobs, add_namespace, and a command for the namespace
other_call(name) ==
  /\ name = "netns" => state["netns"] # "down"
  /\ name = "add_namespace" =>
       /\ state["netns"] = "down"
       /\ "fork" \in faults \/ Held(dict["root"]) = {}
  /\ Call(Cmd(name))
  /\ UNCHANGED <<nextId, mine, jobVars>>

\* send_message and wait_for_condition handle what has come; a result of a job
\* the controller does not know is a KeyError, which is its end
ctl_recv ==
  /\ ctl # "away" /\ toCtl # <<>>
  /\ toCtl' = Tail(toCtl)
  /\ LET m == Head(toCtl)
     IN  \/ /\ m.type = "result"
            /\ ctl' = "idle" /\ greeted' = TRUE
            /\ UNCHANGED got
         \/ /\ m.type = "job_finished"
            /\ ctl' = IF mine[jobs[m.job].id] = NoJob THEN "away" ELSE ctl
            /\ got' = got \union ({mine[jobs[m.job].id]} \ {NoJob})
            /\ UNCHANGED greeted
  /\ UNCHANGED <<session, nextId, calls, mine, agentVars, jobVars, toAgent, toNetns, fromNetns, faults>>

-----------------------------------------------------------------------------
(* Reading: check_connections *)

\* one entry <<id, number>> for each message in the pipes agent a polls
InPipes(a) == UNION {{i} \X (1..pipe[conns[a][i]]) : i \in {i \in Ids : conns[a][i] # NoJob}}

\* the messages as they are read: pipe by pipe
FromPipes(a) ==
  {[x \in DOMAIN s |-> Finished(conns[a][s[x][1]])] :
     s \in {s \in [1..Cardinality(InPipes(a)) -> InPipes(a)] :
              \A x, y \in DOMAIN s : x < y => \/ s[x][1] < s[y][1]
                                              \/ s[x][1] = s[y][1] /\ s[x][2] < s[y][2]}}

Drained(a) == [k \in Jobs |-> IF k \in Held(conns[a]) THEN 0 ELSE pipe[k]]


\* the end of the connection of a namespace agent, which neither it nor a job
\* it started holds any more (those of the root agent inherit the other end
\* only): remove_connection deletes None from _connection_mapping, a KeyError
NetnsEnds == state["netns"] = "dead"

\* get_messages of the root agent: messages of the controller last
root_reads ==
  /\ state["root"] = "serve" /\ buf["root"] = <<>> /\ ~eof
  /\ \/ /\ NetnsEnds /\ Dies("root")
        /\ UNCHANGED <<buf, eof>>
     \/ /\ ~NetnsEnds
        /\ \E msgs \in FromPipes("root") :
             LET batch == msgs \o fromNetns \o toAgent
             IN  /\ batch # <<>> \/ ctl = "away"
                 /\ buf' = [buf EXCEPT !["root"] = batch]
        /\ eof' = (ctl = "away")
        /\ UNCHANGED state
  /\ pipe' = Drained("root") /\ fromNetns' = <<>> /\ toAgent' = <<>>
  /\ UNCHANGED <<ctlVars, dict, conns, jobs, missed, toNetns, toCtl, faults>>

netns_reads ==
  /\ state["netns"] = "serve" /\ buf["netns"] = <<>>
  /\ \E msgs \in FromPipes("netns") :
       LET batch == msgs \o toNetns
       IN  batch # <<>> /\ buf' = [buf EXCEPT !["netns"] = batch]
  /\ pipe' = Drained("netns") /\ toNetns' = <<>>
  /\ UNCHANGED <<ctlVars, state, dict, conns, eof, jobs, missed, toAgent, fromNetns, toCtl, faults>>

\* the batch has been processed and the controller is gone
lost_connection ==
  /\ state["root"] = "serve" /\ buf["root"] = <<>> /\ eof
  /\ machine_cleanup
  /\ state' = DelNetns("wait")
  /\ eof' = FALSE
  /\ toAgent' = <<>>
  /\ UNCHANGED <<ctlVars, dict, conns, buf, toCtl, faults>>

-----------------------------------------------------------------------------
(* Processing: _process_msg *)

Next1(a, type) == state[a] = "serve" /\ buf[a] # <<>> /\ Head(buf[a]).type = type
Done(a) == buf' = [buf EXCEPT ![a] = Tail(buf[a])]

\* Mutant: an id that is used again keeps its old connection.
UpdateOnlyNew(c, d) == [i \in Ids |-> IF c[i] # NoJob THEN c[i] ELSE d[i]]

\* update_connections, at the end of _process_msg
Update(c, d) == [i \in Ids |-> IF d[i] # NoJob THEN d[i] ELSE c[i]]

ToCtl(m) == toCtl' = IF ctl = "away" THEN toCtl ELSE Append(toCtl, m)

\* a command the root agent answers; d: JobContext._dict after it
Answers(d) ==
  /\ Done("root")
  /\ dict' = [dict EXCEPT !["root"] = d]
  /\ conns' = [conns EXCEPT !["root"] = Update(@, d)]
  /\ ToCtl(Result)
  /\ UNCHANGED <<ctlVars, eof, toAgent, faults>>

RootCmd(name) == Next1("root", "command") /\ Head(buf["root"]).name = name

do_hello ==
  /\ RootCmd("hello")
  /\ Answers(dict["root"])
  /\ UNCHANGED <<state, jobVars, toNetns, fromNetns>>

do_run_job ==
  /\ RootCmd("run_job")
  /\ LET k == Head(buf["root"]).job
     IN  /\ jobs' = [jobs EXCEPT ![k].process = "forked"]
         /\ Answers([dict["root"] EXCEPT ![jobs[k].id] = k])
  /\ UNCHANGED <<state, pipe, missed, toNetns, fromNetns>>

\* Mutant: the killed jobs are forgotten at once.
KillForgets ==
  /\ RootCmd("kill_jobs")
  /\ kill_all_jobs(dict["root"])
  /\ Answers(NoJobs)
  /\ UNCHANGED <<state, missed, toNetns, fromNetns>>

do_kill_jobs ==
  /\ RootCmd("kill_jobs")
  /\ kill_all_jobs(dict["root"])
  /\ Answers(dict["root"])
  /\ UNCHANGED <<state, missed, toNetns, fromNetns>>

do_prepare_machine ==
  /\ RootCmd("prepare_machine")
  /\ machine_cleanup
  /\ state' = DelNetns("serve")
  /\ Answers(dict["root"])

\* add_namespace: the fork has a copy of _dict, and at the end of its first
\* _process_msg it polls the pipes of the jobs in it
do_add_namespace ==
  /\ RootCmd("add_namespace")
  /\ state' = [state EXCEPT !["netns"] = "serve"]
  /\ buf' = [buf EXCEPT !["root"] = Tail(@), !["netns"] = <<>>]
  /\ dict' = [dict EXCEPT !["netns"] = dict["root"]]
  /\ conns' = [root |-> Update(conns["root"], dict["root"]), netns |-> Update(NoJobs, dict["root"])]
  /\ ToCtl(Result)
  /\ UNCHANGED <<ctlVars, eof, toAgent, faults, jobVars, toNetns, fromNetns>>

\* to_netns; for a dead agent send_data_to_netns returns False and nobody looks
to_netns ==
  /\ RootCmd("netns")
  /\ Done("root")
  /\ toNetns' = IF state["netns"] = "serve" THEN Append(toNetns, Cmd("netns")) ELSE toNetns
  /\ UNCHANGED <<ctlVars, state, dict, conns, eof, jobVars, toAgent, fromNetns, toCtl, faults>>

from_netns ==
  /\ Next1("root", "result")
  /\ Done("root") /\ ToCtl(Result)
  /\ UNCHANGED <<ctlVars, state, dict, conns, eof, jobVars, toAgent, toNetns, fromNetns, faults>>

\* job_finished: pop_job is by id, and join waits for the process of that job
job_finished ==
  /\ Next1("root", "job_finished")
  /\ LET k == Head(buf["root"]).job
         popped == dict["root"][jobs[k].id]
     IN  /\ popped # NoJob /\ ~Holds(popped)
         /\ dict' = [dict EXCEPT !["root"][jobs[k].id] = NoJob]
         /\ conns' = [conns EXCEPT !["root"] = Update(@, dict'["root"])]
         /\ jobs' = [jobs EXCEPT ![popped].process = "reaped"]
         /\ ToCtl(Finished(k))
  /\ Done("root")
  /\ UNCHANGED <<ctlVars, state, eof, pipe, missed, toAgent, toNetns, fromNetns, faults>>

\* ... a KeyError
pop_job_fails ==
  /\ Next1("root", "job_finished")
  /\ dict["root"][jobs[Head(buf["root"]).job].id] = NoJob
  /\ Dies("root")
  /\ UNCHANGED <<ctlVars, dict, conns, buf, eof, jobVars, streamVars, faults>>

\* the agent of the namespace answers a command, or dies of it
netns_command ==
  /\ Next1("netns", "command")
  /\ Done("netns")
  /\ \/ fromNetns' = Append(fromNetns, Result)
        /\ conns' = [conns EXCEPT !["netns"] = Update(@, dict["netns"])]
        /\ UNCHANGED state
     \/ "raise" \in faults /\ Dies("netns") /\ UNCHANGED <<fromNetns, conns>>
  /\ UNCHANGED <<ctlVars, dict, eof, jobVars, toAgent, toNetns, toCtl, faults>>

\* a job_finished the agent of the namespace has read: the job is no child of
\* this process, join fails with an AssertionError
netns_job_finished ==
  /\ Next1("netns", "job_finished")
  /\ Dies("netns")
  /\ UNCHANGED <<ctlVars, dict, conns, buf, eof, jobVars, streamVars, faults>>

\* Job._run: os.setpgrp() in the child
child_setpgrp(k) ==
  /\ jobs[k].process = "forked"
  /\ jobs' = [jobs EXCEPT ![k].process = "runs"]
  /\ UNCHANGED <<ctlVars, agentVars, pipe, missed, streamVars, faults>>

\* a job comes to its end and writes its result
job_ends(k) ==
  /\ jobs[k].process = "runs"
  /\ jobs' = [jobs EXCEPT ![k].process = "zombie"]
  /\ pipe' = [pipe EXCEPT ![k] = @ + 1]
  /\ UNCHANGED <<ctlVars, agentVars, missed, streamVars, faults>>

\* the last job that held the pipe of a dead namespace agent ends
holder_ends ==
  /\ state["netns"] = "held"
  /\ state' = [state EXCEPT !["netns"] = "dead"]
  /\ UNCHANGED <<ctlVars, dict, conns, buf, eof, jobVars, streamVars, faults>>

-----------------------------------------------------------------------------
Init ==
  /\ ctl = "away" /\ session = 0 /\ greeted = FALSE
  /\ nextId = 0 /\ calls = 0 /\ mine = NoJobs /\ got = {}
  /\ state = [root |-> "wait", netns |-> "down"]
  /\ dict = [a \in Agents |-> NoJobs] /\ conns = [a \in Agents |-> NoJobs]
  /\ buf = [a \in Agents |-> <<>>] /\ eof = FALSE
  /\ jobs = [k \in Jobs |-> [session |-> 0, id |-> 0, process |-> "none"]]
  /\ pipe = [k \in Jobs |-> 0] /\ missed = {}
  /\ toAgent = <<>> /\ toNetns = <<>> /\ fromNetns = <<>> /\ toCtl = <<>>
  /\ faults \in Faults

RootStep ==
  \/ root_reads \/ lost_connection
  \/ do_hello \/ do_run_job \/ do_kill_jobs \/ do_prepare_machine
  \/ do_add_namespace \/ to_netns \/ from_netns
  \/ job_finished \/ pop_job_fails

NetnsStep == netns_reads \/ netns_command \/ netns_job_finished

CtlStep == ctl_recv \/ ctl_disconnected

Next ==
  \/ RootStep \/ NetnsStep \/ CtlStep
  \/ accept_connection \/ handshake_fails \/ ctl_leaves \/ run_job
  \/ \E name \in {"prepare_machine", "kill_jobs", "add_namespace", "netns"} : other_call(name)
  \/ \E k \in Jobs : child_setpgrp(k) \/ job_ends(k)
  \/ holder_ends

(***************************************************************************)
(* The processes run, and a forked child comes to its setpgrp; nothing     *)
(* makes a job end, or a controller come, call or go.                      *)
(***************************************************************************)
Spec ==
  /\ Init /\ [][Next]_vars
  /\ WF_vars(RootStep) /\ WF_vars(NetnsStep) /\ WF_vars(CtlStep)
  /\ \A k \in Jobs : WF_vars(child_setpgrp(k))

-----------------------------------------------------------------------------
(***************************************************************************)
(* Properties                                                              *)
(***************************************************************************)
TypeOK ==
  /\ ctl \in {"away", "idle", "call"} /\ session \in 0..MaxSessions
  /\ calls \in 0..MaxCalls /\ nextId \in 0..MaxJobs
  /\ mine \in [Ids -> {NoJob} \union Jobs] /\ got \subseteq Jobs
  /\ state \in [Agents -> {"down", "wait", "serve", "dead", "held"}]
  /\ state["root"] # "held" /\ (state["netns"] # "down" => state["root"] # "wait")
  /\ dict \in [Agents -> [Ids -> {NoJob} \union Jobs]]
  /\ conns \in [Agents -> [Ids -> {NoJob} \union Jobs]]
  /\ \A k \in Jobs : pipe[k] \in 0..3
  /\ \A k \in Jobs : jobs[k].process \in {"none", "asked", "forked", "runs", "zombie", "reaped"}
  /\ missed \subseteq Jobs

(***************************************************************************)
(* Results of an earlier controller's jobs reach a controller, if at all,  *)
(* before the answer to its hello: they are all in the pipes when it is    *)
(* accepted, and job messages of a batch are processed first.  So a        *)
(* session that has begun sees only its own results, although ids are used *)
(* again.  Except for jobs that machine_cleanup came too early for: they   *)
(* run on and end in the middle of a later session.                        *)
(***************************************************************************)
OldResultsMeetHello ==
  \A i \in DOMAIN toCtl :
    /\ ctl # "away" /\ toCtl[i].type = "job_finished"
    /\ jobs[toCtl[i].job].session # session /\ toCtl[i].job \notin missed
    => ~greeted /\ \A j \in 1..i : toCtl[j].type = "job_finished"

(***************************************************************************)
(* An agent that waits for a controller has no namespace and no running    *)
(* job, however the last one left (Agent.run, machine_cleanup), but for    *)
(* those it forked so shortly before that they had not come to their       *)
(* setpgrp: killpg found nothing.                                          *)
(***************************************************************************)
CleanWhileWaiting ==
  state["root"] = "wait" => state["netns"] = "down" /\ \A k \in Jobs : Holds(k) => k \in missed

(***************************************************************************)
(* The agent dies only of a job that was killed when its result was in the *)
(* pipe already, or after a failed handshake a second time; of a dead      *)
(* namespace agent; or of one that inherited running jobs.                 *)
(***************************************************************************)
OnlyKnownDeaths ==
  state["root"] = "dead" =>
    \/ faults \cap {"fork", "raise"} # {}
    \/ \E k \in Jobs : jobs[k].process = "reaped" /\ (pipe[k] > 0 \/ Finished(k) \in Range(buf["root"]))

(***************************************************************************)
(* A call ends: with its result, or because the agent is gone.  That one   *)
(* for a dead namespace agent ends relies on the root agent not surviving  *)
(* the end of its pipe.  Provided that the jobs a dead agent leaves behind *)
(* end: they hold its end of the connection, and until they do nobody sees *)
(* that it is gone.                                                        *)
(***************************************************************************)
Orphaned ==
  \/ state["root"] = "dead" /\ \E k \in Jobs : Holds(k) /\ jobs[k].session = session
  \/ state["netns"] = "held"


(***************************************************************************)
(* The result that a job has written, or that was written for it when it   *)
(* was killed, arrives, or the connection is gone (Namespace.run: "when    *)
(* the result data arrives from the Agent the Job object will be           *)
(* automatically updated"), under the condition of CallsEnd.  Without the  *)
(* fork: an agent forked for a namespace while the job runs reads the pipe *)
(* of the job as well, and dies of what it reads; then the root agent dies.*)
(***************************************************************************)
OwnResultsArrive ==
  ([]<> ~Orphaned) =>
     \A k \in Jobs : pipe[k] > 0 /\ "fork" \notin faults
                   ~> k \in got \/ ctl = "away" \/ jobs[k].session # session

(****************************************************************************)
(* A session does not feel the one before it, unless a job of it escaped    *)
(* machine_cleanup: nothing else of it is left while the agent waits, and   *)
(* its results come before the answer to hello.                             *)
(****************************************************************************)
SessionsApart == TypeOK /\ OldResultsMeetHello /\ CleanWhileWaiting
=============================================================================

------------------------------ MODULE AgentJobs ------------------------------
(***************************************************************************)
(* Running jobs on an agent machine: the tester facing Job API and Machine *)
(* of the controller (lnst/Controller/Job.py, Machine.py,                  *)
(* MessageDispatcher.py), the main loop of the agent with its JobContext   *)
(* (lnst/Agent/Agent.py, Job.py) and the job processes the agent forks.    *)
(*                                                                         *)
(* The controller and the agent are connected by a stream in each          *)
(* direction.  The agent forks one process per job and reads its result    *)
(* from a pipe whose write end it keeps too: that is where it puts the     *)
(* result of a job it kills.  One controller and one agent, no network     *)
(* namespace: job ids are the numbers 0, 1, ... of Machine._job_id_seq.    *)
(***************************************************************************)
EXTENDS Integers, Sequences

CONSTANTS MaxJobs,      \* bound on the jobs one recipe starts
          AlarmPoints   \* where the SIGALRM of a timed wait may strike:
                        \* "select", "recv" or "process"

ASSUME MaxJobsAssumption == MaxJobs \in Nat \ {0}
ASSUME AlarmAssumption   == AlarmPoints \subseteq {"select", "recv", "process"}

Jobs    == 0..MaxJobs - 1
Signals == {"SIGKILL", "SIGTERM", "SIGINT"}
Results == {"own", "killed"}     \* what the job computed, or "Job killed"

\* the controller's requests, and the messages of the agent
Command == [cmd : {"run_job", "kill_job", "kill_jobs", "bye"},
            job : Jobs, sig : Signals]
Message == [type : {"result"}, val : {"true", "false"}]
             \cup [type : {"job_finished"}, job : Jobs, val : Results]

Reply(v)      == [type |-> "result", val |-> v]
Finished(j, r) == [type |-> "job_finished", job |-> j, val |-> r]

VARIABLES
  seq,        \* controller: Machine._job_id_seq
  res,        \* controller: Job._res of every job, "none" before the result
  cpc,        \* controller: between calls, in check_connections, handling
              \*   the messages it returned, failed, cleaned up
  cop,        \* controller: the call in progress
  creply,     \* controller: local variable result of send_message
  cbatch,     \* controller: messages read and not yet processed
  conn,       \* controller: is the machine in _connection_mapping?
  toAgent, toCtl,   \* the two directions of the connection
  agent,      \* agent: "up", or "dead" after an uncaught exception
  ctx,        \* agent: the ids in JobContext._dict
  abuf,       \* agent: job messages of the current get_messages batch
  acmd,       \* agent: controller messages of the current batch
  proc,       \* the state of each job's process
  pipe,       \* the unread messages in each job's pipe
  forwarded,  \* history: job_finished messages the agent sent, per job
  sigkilled   \* history: jobs whose group the agent sent SIGKILL

ctlVars   == <<seq, res, cpc, cop, creply, cbatch, conn>>
agentVars == <<agent, ctx, abuf, acmd>>
vars == <<ctlVars, toAgent, toCtl, agentVars, proc, pipe, forwarded, sigkilled>>

TypeOK ==
  /\ seq \in 0..MaxJobs
  /\ res \in [Jobs -> Results \cup {"none"}]
  /\ cpc \in {"idle", "recv", "proc", "proc_eof", "error", "done"}
  /\ cop \in [op : {"none", "run_job", "kill_job", "kill_jobs", "bye", "wait"},
              job : Jobs, mode : {"bg", "fg"}, timer : {"off", "on", "expired"}]
  /\ creply \in {"none", "true", "false"}
  /\ cbatch \in Seq(Message)
  /\ conn \in {"open", "closed"}
  /\ toAgent \in Seq(Command)
  /\ toCtl \in Seq(Message)
  /\ agent \in {"up", "dead"}
  /\ ctx \in SUBSET Jobs
  /\ abuf \in [Jobs -> Seq(Results)]
  /\ acmd \in Seq(Command)
  /\ proc \in [Jobs -> {"none", "forked", "running", "sent", "zombie", "reaped"}]
  /\ pipe \in [Jobs -> Seq(Results)]
  /\ forwarded \in [Jobs -> Nat]
  /\ sigkilled \in SUBSET Jobs

NoOp == [op |-> "none", job |-> 0, mode |-> "bg", timer |-> "off"]

Init ==
  /\ seq = 0
  /\ res = [j \in Jobs |-> "none"]
  /\ cpc = "idle"
  /\ cop = NoOp
  /\ creply = "none"
  /\ cbatch = <<>>
  /\ conn = "open"
  /\ toAgent = <<>>
  /\ toCtl = <<>>
  /\ agent = "up"
  /\ ctx = {}
  /\ abuf = [j \in Jobs |-> <<>>]
  /\ acmd = <<>>
  /\ proc = [j \in Jobs |-> "none"]
  /\ pipe = [j \in Jobs |-> <<>>]
  /\ forwarded = [j \in Jobs |-> 0]
  /\ sigkilled = {}

-----------------------------------------------------------------------------
(***************************************************************************)
(* The job process: Agent/Job.py, Job._run, run in the forked child.       *)
(***************************************************************************)
ProcStep(j, from, to) ==
  /\ proc[j] = from
  /\ proc' = [proc EXCEPT ![j] = to]
  /\ UNCHANGED <<ctlVars, toAgent, toCtl, agentVars, forwarded, sigkilled>>

\* os.setpgrp(): from here on killpg(pid) reaches the process
child_setpgrp(j) == ProcStep(j, "forked", "running") /\ UNCHANGED pipe

\* run() returned or raised an Exception: the result goes into the pipe
child_send(j) ==
  /\ ProcStep(j, "running", "sent")
  /\ pipe' = [pipe EXCEPT ![j] = Append(@, "own")]

\* the process ends and stays a zombie until the agent joins it
child_exit(j) == ProcStep(j, "sent", "zombie") /\ UNCHANGED pipe

\* a BaseException (SystemExit, KeyboardInterrupt) leaves job_result unbound:
\* the finally clause raises and no result is sent
child_die(j) == ProcStep(j, "running", "zombie") /\ UNCHANGED pipe

-----------------------------------------------------------------------------
(***************************************************************************)
(* The agent: Agent.run, ServerHandler.get_messages, Agent._process_msg.   *)
(***************************************************************************)
Drained == acmd = <<>> /\ \A j \in Jobs : abuf[j] = <<>>

\* Read everything there is on the pipes of the known jobs and on the
\* controller connection.  The reads of one round commute with the steps of
\* the writers, so the round is one step.
get_messages ==
  /\ agent = "up" /\ Drained
  /\ toAgent # <<>> \/ \E j \in ctx : pipe[j] # <<>>
  /\ abuf' = [j \in Jobs |-> IF j \in ctx THEN pipe[j] ELSE <<>>]
  /\ pipe' = [j \in Jobs |-> IF j \in ctx THEN <<>> ELSE pipe[j]]
  /\ acmd' = toAgent
  /\ toAgent' = <<>>
  /\ UNCHANGED <<ctlVars, toCtl, agent, ctx, proc, forwarded, sigkilled>>

\* Mutant: the job is looked up (get_job) and stays in the context.
ProcessNoPop(j) ==
  /\ agent = "up"
  /\ abuf[j] # <<>>
  /\ j \in ctx
  /\ proc[j] \in {"zombie", "reaped"}
  /\ proc' = [proc EXCEPT ![j] = "reaped"]
  /\ abuf' = [abuf EXCEPT ![j] = Tail(@)]
  /\ toCtl' = Append(toCtl, Finished(j, Head(abuf[j])))
  /\ forwarded' = [forwarded EXCEPT ![j] = @ + 1]
  /\ UNCHANGED <<ctlVars, toAgent, agent, acmd, ctx, pipe, sigkilled>>

\* Mutant: the process is not joined before its result is passed on.
ProcessNoJoin(j) ==
  /\ agent = "up"
  /\ abuf[j] # <<>>
  /\ j \in ctx
  /\ ctx' = ctx \ {j}
  /\ pipe' = [pipe EXCEPT ![j] = <<>>]
  /\ abuf' = [abuf EXCEPT ![j] = Tail(@)]
  /\ toCtl' = Append(toCtl, Finished(j, Head(abuf[j])))
  /\ forwarded' = [forwarded EXCEPT ![j] = @ + 1]
  /\ UNCHANGED <<ctlVars, toAgent, agent, acmd, proc, sigkilled>>

\* Mutant: the result of a job is kept by the agent.
ProcessNoForward(j) ==
  /\ agent = "up"
  /\ abuf[j] # <<>>
  /\ j \in ctx
  /\ proc[j] = "zombie"
  /\ ctx' = ctx \ {j}
  /\ proc' = [proc EXCEPT ![j] = "reaped"]
  /\ pipe' = [pipe EXCEPT ![j] = <<>>]
  /\ abuf' = [abuf EXCEPT ![j] = Tail(@)]
  /\ UNCHANGED <<ctlVars, toAgent, toCtl, agent, acmd, forwarded, sigkilled>>

\* job_finished of a known job: pop_job, join (waits for the process to end),
\* set_finished (closes the pipe) and pass the message on to the controller.
process_job_finished(j) ==
  /\ agent = "up"
  /\ abuf[j] # <<>>
  /\ j \in ctx
  /\ proc[j] = "zombie"
  /\ ctx' = ctx \ {j}
  /\ proc' = [proc EXCEPT ![j] = "reaped"]
  /\ pipe' = [pipe EXCEPT ![j] = <<>>]
  /\ abuf' = [abuf EXCEPT ![j] = Tail(@)]
  /\ toCtl' = Append(toCtl, Finished(j, Head(abuf[j])))
  /\ forwarded' = [forwarded EXCEPT ![j] = @ + 1]
  /\ UNCHANGED <<ctlVars, toAgent, agent, acmd, sigkilled>>

\* job_finished of a job that was popped before: pop_job raises KeyError,
\* which nothing catches, and the agent is gone.
process_job_finished_unknown(j) ==
  /\ agent = "up"
  /\ abuf[j] # <<>>
  /\ j \notin ctx
  /\ agent' = "dead"
  /\ UNCHANGED <<ctlVars, toAgent, toCtl, ctx, abuf, acmd, proc, pipe,
                 forwarded, sigkilled>>

\* Mutant: commands are handled as they come, before pending job messages.
NextCommandFirst(c) ==
  /\ agent = "up"
  /\ acmd # <<>>
  /\ acmd[1].cmd = c
  /\ acmd' = Tail(acmd)
  /\ UNCHANGED <<ctlVars, toAgent, agent, abuf, forwarded>>

\* Commands come after the job messages of the batch.
NextCommand(c) ==
  /\ agent = "up"
  /\ acmd # <<>>
  /\ \A j \in Jobs : abuf[j] = <<>>
  /\ acmd[1].cmd = c
  /\ acmd' = Tail(acmd)
  /\ UNCHANGED <<ctlVars, toAgent, agent, abuf, forwarded>>

\* RemoteMethods.run_job: add_job, Pipe, fork
run_job ==
  LET j == acmd[1].job IN
  /\ NextCommand("run_job")
  /\ ctx' = ctx \cup {j}
  /\ proc' = [proc EXCEPT ![j] = "forked"]
  /\ toCtl' = Append(toCtl, Reply("true"))
  /\ UNCHANGED <<pipe, sigkilled>>

\* os.killpg(self._pid, sig) finds the group: the child has left the agent's
\* process group and has not been joined
HasGroup(j) == proc[j] \in {"running", "sent", "zombie"}

\* what a signal that was delivered may do to the process
AfterSignal(j, sig) ==
  IF sig = "SIGINT" THEN {proc[j], "zombie"} ELSE {"zombie"}

\* Mutant: no answer for a job that is gone.
KillUnknownSilent ==
  /\ NextCommand("kill_job")
  /\ acmd[1].job \notin ctx
  /\ UNCHANGED <<toCtl, ctx, proc, pipe, sigkilled>>

\* RemoteMethods.kill_job of a job the context does not hold
kill_job_unknown ==
  /\ NextCommand("kill_job")
  /\ acmd[1].job \notin ctx
  /\ toCtl' = Append(toCtl, Reply("false"))
  /\ UNCHANGED <<ctx, proc, pipe, sigkilled>>

\* Job.kill: killpg fails with ESRCH, the OSError is logged
kill_job_esrch ==
  /\ NextCommand("kill_job")
  /\ acmd[1].job \in ctx
  /\ ~ HasGroup(acmd[1].job)
  /\ toCtl' = Append(toCtl, Reply("false"))
  /\ UNCHANGED <<ctx, proc, pipe, sigkilled>>

\* Mutant: the agent does not write the result of the job it kills.
KillNoResult ==
  LET j == acmd[1].job IN
  /\ NextCommand("kill_job")
  /\ j \in ctx
  /\ HasGroup(j)
  /\ \E p \in AfterSignal(j, acmd[1].sig) : proc' = [proc EXCEPT ![j] = p]
  /\ sigkilled' = IF acmd[1].sig = "SIGKILL" THEN sigkilled \cup {j} ELSE sigkilled
  /\ toCtl' = Append(toCtl, Reply("true"))
  /\ UNCHANGED <<ctx, pipe>>

\* Job.kill: the signal is delivered; for SIGKILL the agent itself writes the
\* job_finished message the process can no longer write
kill_job ==
  LET j   == acmd[1].job
      sig == acmd[1].sig IN
  /\ NextCommand("kill_job")
  /\ j \in ctx
  /\ HasGroup(j)
  /\ \E p \in AfterSignal(j, sig) : proc' = [proc EXCEPT ![j] = p]
  /\ pipe' = IF sig = "SIGKILL" THEN [pipe EXCEPT ![j] = Append(@, "killed")]
                                ELSE pipe
  /\ sigkilled' = IF sig = "SIGKILL" THEN sigkilled \cup {j} ELSE sigkilled
  /\ toCtl' = Append(toCtl, Reply("true"))
  /\ UNCHANGED ctx

\* RemoteMethods.kill_jobs: JobContext.kill_all_jobs ignores what kill returns
kill_jobs ==
  LET hit == {j \in ctx : HasGroup(j)} IN
  /\ NextCommand("kill_jobs")
  /\ proc' = [j \in Jobs |-> IF j \in hit THEN "zombie" ELSE proc[j]]
  /\ pipe' = [j \in Jobs |-> IF j \in hit THEN Append(pipe[j], "killed")
                                          ELSE pipe[j]]
  /\ sigkilled' = sigkilled \cup hit
  /\ toCtl' = Append(toCtl, Reply("true"))
  /\ UNCHANGED ctx

\* the commands of Machine.cleanup that do not touch jobs
bye ==
  /\ NextCommand("bye")
  /\ toCtl' = Append(toCtl, Reply("true"))
  /\ UNCHANGED <<ctx, proc, pipe, sigkilled>>

AgentNext ==
  \/ get_messages
  \/ \E j \in Jobs : process_job_finished(j) \/ process_job_finished_unknown(j)
  \/ run_job \/ kill_job_unknown \/ kill_job_esrch \/ kill_job \/ kill_jobs \/ bye

-----------------------------------------------------------------------------
(***************************************************************************)
(* The controller.  A call of the tester is an RPC (send_message) or a     *)
(* wait (wait_for_condition); both read batches of messages until their    *)
(* answer is there.                                                        *)
(***************************************************************************)
remote == <<agentVars, proc, pipe, forwarded, sigkilled>>

\* rpc_call, up to the loop of send_message; sending to a machine that is not
\* in the mapping raises ConnectionError
Rpc(c, j, sig, mode) ==
  /\ cop' = [op |-> c, job |-> j, mode |-> mode, timer |-> "off"]
  /\ creply' = "none"
  /\ \/ /\ conn = "open"
        /\ cpc' = "recv"
        /\ toAgent' = Append(toAgent, [cmd |-> c, job |-> j, sig |-> sig])
     \/ conn = "closed" /\ cpc' = "error" /\ UNCHANGED toAgent
  /\ UNCHANGED <<res, cbatch, conn, toCtl, remote>>

\* Job.start, Machine.run_job
ctl_start(mode) ==
  /\ cpc = "idle" /\ cop = NoOp
  /\ seq < MaxJobs
  /\ seq' = seq + 1
  /\ Rpc("run_job", seq, "SIGKILL", mode)

\* Job.kill of a job that has no result yet (of one that has, it returns True
\* without a call)
ctl_kill(j, sig) ==
  /\ cpc = "idle" /\ cop = NoOp
  /\ j < seq /\ res[j] = "none"
  /\ UNCHANGED seq
  /\ Rpc("kill_job", j, sig, "bg")

\* Machine.cleanup of a machine that is not in the mapping any more
ctl_cleanup_skip ==
  /\ cpc = "idle" /\ cop = NoOp /\ conn = "closed"
  /\ cpc' = "done"
  /\ UNCHANGED <<seq, res, cop, creply, cbatch, conn, toAgent, toCtl, remote>>

\* Machine.cleanup: kill_jobs first ...
ctl_cleanup ==
  /\ cpc = "idle" /\ cop = NoOp /\ conn = "open"
  /\ UNCHANGED seq
  /\ Rpc("kill_jobs", 0, "SIGKILL", "bg")

\* Job.wait, Machine.wait_for_job; timer "off" is timeout=0
ctl_wait(j, timer) ==
  /\ cpc = "idle" /\ cop = NoOp
  /\ j < seq /\ res[j] = "none"
  /\ cop' = [op |-> "wait", job |-> j, mode |-> "bg", timer |-> timer]
  /\ cpc' = "recv"
  /\ UNCHANGED <<seq, res, creply, cbatch, conn, toAgent, toCtl, remote>>

\* The stream ends when the agent is gone and so are the processes that hold
\* its end of it: a job's process is a fork of the agent and inherits the
\* socket, and the agent, whose exit joins its jobs, cannot end before them.
Holds(j) == proc[j] \in {"forked", "running", "sent"}
Eof      == agent = "dead" /\ \A j \in Jobs : ~ Holds(j)

\* check_connections: everything that has arrived
ctl_recv ==
  /\ cpc = "recv" /\ conn = "open" /\ toCtl # <<>>
  /\ cbatch' = toCtl
  /\ toCtl' = <<>>
  /\ IF Eof THEN cpc' = "proc_eof" /\ conn' = "closed"
            ELSE cpc' = "proc" /\ UNCHANGED conn
  /\ UNCHANGED <<seq, res, cop, creply, toAgent, remote>>

\* ... or the end of the stream alone
ctl_recv_eof ==
  /\ cpc = "recv" /\ conn = "open" /\ toCtl = <<>> /\ Eof
  /\ cpc' = "proc_eof"
  /\ conn' = "closed"
  /\ UNCHANGED <<seq, res, cop, creply, cbatch, toAgent, toCtl, remote>>

InBatch == cpc \in {"proc", "proc_eof"} /\ cbatch # <<>>

\* the answer of the agent; in a wait there is no call it could belong to
ctl_result ==
  /\ InBatch /\ cbatch[1].type = "result"
  /\ creply' = IF cop.op = "wait" THEN creply ELSE cbatch[1].val
  /\ cbatch' = Tail(cbatch)
  /\ UNCHANGED <<seq, res, cpc, cop, conn, toAgent, toCtl, remote>>

\* Mutant: send_message drops what is not the answer it waits for.
JobFinishedInWaitOnly ==
  /\ InBatch /\ cbatch[1].type = "job_finished"
  /\ res' = IF cop.op = "wait" THEN [res EXCEPT ![cbatch[1].job] = cbatch[1].val]
                               ELSE res
  /\ cbatch' = Tail(cbatch)
  /\ UNCHANGED <<seq, cpc, creply, conn, toAgent, toCtl, remote>>

\* Machine.job_finished
job_finished ==
  /\ InBatch /\ cbatch[1].type = "job_finished"
  /\ res' = [res EXCEPT ![cbatch[1].job] = cbatch[1].val]
  /\ cbatch' = Tail(cbatch)
  /\ UNCHANGED <<seq, cpc, creply, conn, toAgent, toCtl, remote>>

\* condition_wrapper disables the alarm when the job is the one waited for
ctl_job_finished ==
  /\ job_finished
  /\ cop' = IF cop.op = "wait" /\ cop.timer = "on" /\ cop.job = cbatch[1].job
               THEN [cop EXCEPT !.timer = "off"]
               ELSE cop

\* a round of send_message or wait_for_condition ends without an answer
ctl_again ==
  /\ cpc = "proc" /\ cbatch = <<>>
  /\ IF cop.op = "wait" THEN res[cop.job] = "none" /\ cop.timer # "expired"
                        ELSE creply = "none"
  /\ cpc' = "recv"
  /\ UNCHANGED <<seq, res, cop, creply, cbatch, conn, toAgent, toCtl, remote>>

\* _handle_disconnects: the machine is mapped, so ConnectionError is raised
ctl_disconnected ==
  /\ cpc = "proc_eof" /\ cbatch = <<>>
  /\ cpc' = "error"
  /\ UNCHANGED <<seq, res, cop, creply, cbatch, conn, toAgent, toCtl, remote>>

Answered(ops) ==
  /\ cpc = "proc" /\ cbatch = <<>>
  /\ cop.op \in ops
  /\ creply # "none"

\* send_message returns to a caller that is then done
ctl_return ==
  /\ \/ Answered({"kill_job"})
     \/ Answered({"run_job"}) /\ (cop.mode = "bg" \/ res[cop.job] # "none")
  /\ cpc' = "idle"
  /\ cop' = NoOp
  /\ UNCHANGED <<seq, res, creply, cbatch, conn, toAgent, toCtl, remote>>

\* Job.start in the foreground goes on to wait for the job
ctl_start_wait ==
  /\ Answered({"run_job"}) /\ cop.mode = "fg" /\ res[cop.job] = "none"
  /\ \E timer \in {"on", "off"} :
       cop' = [cop EXCEPT !.op = "wait", !.timer = timer]
  /\ cpc' = "recv"
  /\ UNCHANGED <<seq, res, creply, cbatch, conn, toAgent, toCtl, remote>>

\* ... and Machine.cleanup to say goodbye
ctl_cleanup_bye ==
  /\ Answered({"kill_jobs"})
  /\ UNCHANGED seq
  /\ Rpc("bye", 0, "SIGKILL", "bg")

ctl_cleanup_done ==
  /\ Answered({"bye"})
  /\ cpc' = "done"
  /\ UNCHANGED <<seq, res, cop, creply, cbatch, conn, toAgent, toCtl, remote>>

\* wait_for_condition returns True
ctl_wait_true ==
  /\ cpc = "proc" /\ cbatch = <<>>
  /\ cop.op = "wait" /\ cop.timer # "expired" /\ res[cop.job] # "none"
  /\ cpc' = "idle"
  /\ cop' = NoOp
  /\ UNCHANGED <<seq, res, creply, cbatch, conn, toAgent, toCtl, remote>>

\* What follows a wait that returned False: nothing, or, for a job started in
\* the foreground that still has no result, Job.kill.
WaitFalse ==
  IF cop.mode = "fg" /\ res[cop.job] = "none"
    THEN Rpc("kill_job", cop.job, "SIGKILL", "fg")
    ELSE /\ cpc' = "idle"
         /\ cop' = NoOp
         /\ UNCHANGED <<res, creply, cbatch, conn, toAgent, toCtl, remote>>

\* the alarm handler raises WaitTimeoutError while select waits
ctl_alarm_select ==
  /\ "select" \in AlarmPoints
  /\ cpc = "recv" /\ cop.op = "wait" /\ cop.timer = "on"
  /\ UNCHANGED seq
  /\ WaitFalse

\* ... inside _check_connections: what it has read so far is dropped, the end
\* of the stream included
ctl_alarm_recv ==
  /\ "recv" \in AlarmPoints
  /\ cpc = "recv" /\ conn = "open" /\ cop.op = "wait" /\ cop.timer = "on"
  /\ \/ /\ \E k \in 1..Len(toCtl) : toCtl' = SubSeq(toCtl, k + 1, Len(toCtl))
        /\ UNCHANGED conn
     \/ Eof /\ toCtl' = <<>> /\ conn' = "closed"
  /\ cop' = [cop EXCEPT !.timer = "expired"]
  /\ cpc' = "proc"
  /\ UNCHANGED <<seq, res, creply, cbatch, toAgent, remote>>

\* ... while a message is handled, before it takes effect: the rest of the
\* batch is still handled
ctl_alarm_process ==
  /\ "process" \in AlarmPoints
  /\ InBatch /\ cop.op = "wait" /\ cop.timer = "on"
  /\ cop' = [cop EXCEPT !.timer = "expired"]
  /\ cbatch' = Tail(cbatch)
  /\ UNCHANGED <<seq, res, cpc, creply, conn, toAgent, toCtl, remote>>

\* ... or after it took effect, before the condition is looked at
ctl_alarm_processed ==
  /\ "process" \in AlarmPoints
  /\ job_finished
  /\ cop.op = "wait" /\ cop.timer = "on"
  /\ cop' = [cop EXCEPT !.timer = "expired"]

\* ... between two messages or after the last one, outside the inner try: the
\* rest is dropped and _handle_disconnects is not called
ctl_alarm_between ==
  /\ "process" \in AlarmPoints
  /\ cpc \in {"proc", "proc_eof"} /\ cop.op = "wait" /\ cop.timer = "on"
  /\ cop' = [cop EXCEPT !.timer = "expired"]
  /\ cbatch' = <<>>
  /\ cpc' = "proc"
  /\ UNCHANGED <<seq, res, creply, conn, toAgent, toCtl, remote>>

\* the wait that the alarm ended returns False
ctl_wait_false ==
  /\ cpc = "proc" /\ cbatch = <<>>
  /\ cop.op = "wait" /\ cop.timer = "expired"
  /\ UNCHANGED seq
  /\ WaitFalse

CtlCall ==
  \/ \E mode \in {"bg", "fg"} : ctl_start(mode)
  \/ \E j \in Jobs, sig \in Signals : ctl_kill(j, sig)
  \/ \E j \in Jobs, timer \in {"on", "off"} : ctl_wait(j, timer)
  \/ ctl_cleanup \/ ctl_cleanup_skip

CtlStep ==
  \/ ctl_recv \/ ctl_recv_eof \/ ctl_result \/ ctl_job_finished
  \/ ctl_again \/ ctl_disconnected \/ ctl_return \/ ctl_start_wait
  \/ ctl_cleanup_bye \/ ctl_cleanup_done \/ ctl_wait_true \/ ctl_wait_false

CtlAlarm ==
  \/ ctl_alarm_select \/ ctl_alarm_recv
  \/ ctl_alarm_process \/ ctl_alarm_between \/ ctl_alarm_processed

ProcNext ==
  \E j \in Jobs :
    child_setpgrp(j) \/ child_send(j) \/ child_exit(j) \/ child_die(j)

Next == CtlCall \/ CtlStep \/ CtlAlarm \/ AgentNext \/ ProcNext

(***************************************************************************)
(* The loops of the controller and of the agent keep going, a forked       *)
(* process gets to its setpgrp and one that sent its result exits.         *)
(* Nothing makes a job come to an end, or a tester make a call.            *)
(***************************************************************************)
Fairness ==
  /\ WF_vars(CtlStep)
  /\ WF_vars(AgentNext)
  /\ \A j \in Jobs : WF_vars(child_setpgrp(j)) /\ WF_vars(child_exit(j))

Spec == Init /\ [][Next]_vars /\ Fairness
-----------------------------------------------------------------------------
(***************************************************************************)
(* Properties                                                              *)
(***************************************************************************)

(***************************************************************************)
(* The agent passes at most one job_finished message per job on to the     *)
(* controller, although a job that is killed just as it ends leaves two in *)
(* its pipe (_process_msg, pop_job).                                       *)
(***************************************************************************)
ReportedOnce == \A j \in Jobs : forwarded[j] <= 1

(***************************************************************************)
(* A job the tester sees as finished has no process left on the agent, not *)
(* even a zombie: the agent joins the process before it sends the message. *)
(***************************************************************************)
FinishedMeansReaped == \A j \in Jobs : res[j] # "none" => proc[j] = "reaped"

(***************************************************************************)
(* The result of a finished job never changes: Machine.job_finished, which *)
(* assigns without looking, is called once per job.                        *)
(***************************************************************************)
ResultStable == [][\A j \in Jobs : res[j] # "none" => res'[j] = res[j]]_vars

(***************************************************************************)
(* A job_finished message the agent has sent is in the stream, in the      *)
(* batch being handled, or has updated the Job object: "when the result    *)
(* data arrives from the Agent the Job object will be automatically        *)
(* updated" (Namespace.run).                                               *)
(***************************************************************************)
InTransit(j, s) == \E i \in 1..Len(s) : s[i].type = "job_finished" /\ s[i].job = j

NothingLost ==
  \A j \in Jobs : forwarded[j] > 0 =>
    res[j] # "none" \/ InTransit(j, toCtl) \/ InTransit(j, cbatch)

(***************************************************************************)
(* When Machine.cleanup has returned, the controller has the result of     *)
(* every job that was killed: the agent handles the job messages of a      *)
(* batch before the commands, so they overtake the answer to "bye".        *)
(***************************************************************************)
CleanupCollectsKilled == cpc = "done" => \A j \in sigkilled : res[j] # "none"

(***************************************************************************)
(* Every RPC returns: the agent answers, or the controller notices that    *)
(* the agent is gone, and in that case a wait ends too.  Provided that the *)
(* jobs a dead agent leaves behind end: until they do the stream stays     *)
(* open, and send_message, which knows no timeout, waits.  (conn = "open": *)
(* a wait begun after an alarm swallowed the end of the stream is lost.)   *)
(***************************************************************************)
Orphaned == agent = "dead" /\ \E j \in Jobs : Holds(j)
Rpcs == {"run_job", "kill_job", "kill_jobs", "bye"}

RpcReturns ==
  ([]<> ~ Orphaned) =>
     /\ \A c \in Rpcs : cop.op = c ~> cop.op # c \/ cpc \in {"error", "done"}
     /\ (cop.op = "wait" /\ agent = "dead" /\ conn = "open")
          ~> cop.op # "wait" \/ cpc = "error"

(***************************************************************************)
(* A job the agent sent SIGKILL is reported to the controller, unless the  *)
(* agent dies: nobody waits for ever for a job that was killed.            *)
(***************************************************************************)
KilledIsReported ==
  \A j \in Jobs : j \in sigkilled ~> forwarded[j] > 0 \/ agent = "dead"

(***************************************************************************)
(* A wait for a job whose process has sent its result comes to an end,     *)
(* timeout or not, even if the agent dies: then once the other jobs have   *)
(* ended, which keep the connection open.                                  *)
(***************************************************************************)
WaitReturns ==
  ([]<> ~ Orphaned) =>
     \A j \in Jobs :
       (cop.op = "wait" /\ cop.job = j /\ proc[j] = "sent")
         ~> (cop.op # "wait" \/ cop.job # j \/ cpc = "error")

(***************************************************************************)
(* The job machinery implements its abstract specification.                *)
(***************************************************************************)
Life(p) == CASE p = "none"                          -> "none"
             [] p \in {"forked", "running", "sent"} -> "alive"
             [] p = "zombie"                        -> "ended"
             [] p = "reaped"                        -> "gone"

Service == INSTANCE JobService WITH
             started <- seq, result <- res, life <- [j \in Jobs |-> Life(proc[j])]

ImplementsService == Service!Spec

(***************************************************************************)
(* The invariant the proofs use.  A job_finished message on its way to the *)
(* controller belongs to a job that was reaped and whose result has not    *)
(* arrived, and it is the only one of that job; a run_job command on its   *)
(* way to the agent belongs to a job that has no process yet.              *)
(***************************************************************************)
IsReport(m) == m.type = "job_finished"
IsRun(c)    == c.cmd = "run_job"

OneEach(s) ==
  \A i, k \in 1..Len(s) :
    IsReport(s[i]) /\ IsReport(s[k]) /\ s[i].job = s[k].job => i = k

Owed(s) ==
  \A i \in 1..Len(s) :
    IsReport(s[i]) => proc[s[i].job] = "reaped" /\ res[s[i].job] = "none"

Reports ==
  /\ Owed(toCtl) /\ Owed(cbatch)
  /\ OneEach(toCtl) /\ OneEach(cbatch)
  /\ \A i \in 1..Len(toCtl), k \in 1..Len(cbatch) :
       ~ (IsReport(toCtl[i]) /\ IsReport(cbatch[k]) /\ toCtl[i].job = cbatch[k].job)
  /\ \A j \in Jobs : res[j] # "none" => proc[j] = "reaped"
  /\ \A j \in Jobs : forwarded[j] = IF proc[j] = "reaped" THEN 1 ELSE 0

\* run_job commands under way are for jobs without a process, in rising order
Fresh(s) ==
  \A i \in 1..Len(s) : IsRun(s[i]) => s[i].job < seq /\ proc[s[i].job] = "none"

Rising(s) ==
  \A i, k \in 1..Len(s) : i < k /\ IsRun(s[i]) /\ IsRun(s[k]) => s[i].job < s[k].job

Runs ==
  /\ Fresh(toAgent) /\ Fresh(acmd)
  /\ Rising(toAgent) /\ Rising(acmd)
  /\ \A i \in 1..Len(acmd), k \in 1..Len(toAgent) :
       IsRun(acmd[i]) /\ IsRun(toAgent[k]) => acmd[i].job < toAgent[k].job
  /\ \A j \in Jobs : j >= seq => proc[j] = "none"

IInv == TypeOK /\ Reports /\ Runs

-----------------------------------------------------------------------------
(***************************************************************************)
(* What comments and docstrings say and the code does not do.              *)
(***************************************************************************)

(***************************************************************************)
(* ServerHandler.get_messages: "push ctl messages to the end of message    *)
(* queue, this ensures that update messages are handled first".  If it     *)
(* did, a kill command would never meet a job whose own job_finished is    *)
(* still unhandled, no job would be reported to the agent twice, and       *)
(* pop_job would never fail: the agent would stay up.                      *)
(***************************************************************************)
UpdatesHandledFirst == agent = "up"
=============================================================================

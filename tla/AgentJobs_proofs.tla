-------------------------- MODULE AgentJobs_proofs --------------------------
(***************************************************************************)
(* For any number of jobs and wherever the alarm may strike: the state is  *)
(* well typed, a job is reported at most once, a finished job has been     *)
(* reaped, its result never changes, and AgentJobs implements JobService.  *)
(* Where the alarm strikes in select only, no result is lost, and a        *)
(* cleanup that returns has those of all jobs that were killed.            *)
(***************************************************************************)
EXTENDS AgentJobs, TLAPS

-----------------------------------------------------------------------------
(***************************************************************************)
(* Type correctness                                                        *)
(***************************************************************************)

(***************************************************************************)
(* The messages the agent builds, and the commands the controller builds,  *)
(* are of their types.                                                     *)
(***************************************************************************)
LEMMA MessageFacts ==
  /\ \A v \in {"true", "false"} : Reply(v) \in Message
  /\ \A j \in Jobs, r \in Results : Finished(j, r) \in Message
BY DEF Reply, Finished, Message

LEMMA MessageFields ==
  \A m \in Message :
    /\ m.type = "result" => m.val \in {"true", "false"}
    /\ m.type = "job_finished" => m.job \in Jobs /\ m.val \in Results
BY DEF Message

LEMMA CommandFacts ==
  /\ \A c \in Command : c.job \in Jobs /\ c.sig \in Signals
  /\ \A c \in Rpcs, j \in Jobs, sig \in Signals :
       [cmd |-> c, job |-> j, sig |-> sig] \in Command
BY DEF Command, Rpcs

(***************************************************************************)
(* What holds whenever the agent takes a command from its batch.           *)
(***************************************************************************)
LEMMA NextCommandType ==
  ASSUME TypeOK, NEW c, NextCommand(c)
  PROVE  /\ acmd' \in Seq(Command)
         /\ acmd[1].job \in Jobs
         /\ acmd[1].sig \in Signals
         /\ \A v \in {"true", "false"} : Append(toCtl, Reply(v)) \in Seq(Message)
<1>1. acmd[1] \in Command /\ Tail(acmd) \in Seq(Command)
  BY DEF TypeOK, NextCommand
<1>2. \A v \in {"true", "false"} : Append(toCtl, Reply(v)) \in Seq(Message)
  BY MessageFacts DEF TypeOK
<1> QED
  BY <1>1, <1>2, CommandFacts DEF NextCommand

(***************************************************************************)
(* The steps of a job process keep the types.                              *)
(***************************************************************************)
LEMMA TypeProc == TypeOK /\ ProcNext => TypeOK'
<1> SUFFICES ASSUME TypeOK, NEW j \in Jobs,
                    child_setpgrp(j) \/ child_send(j) \/ child_exit(j) \/ child_die(j)
             PROVE  TypeOK'
  BY DEF ProcNext
<1>1. Append(pipe[j], "own") \in Seq(Results)
  BY DEF TypeOK, Results
<1>2. pipe' \in [Jobs -> Seq(Results)]
  BY <1>1 DEF child_setpgrp, child_send, child_exit, child_die, TypeOK
<1>3. proc' \in [Jobs -> {"none", "forked", "running", "sent", "zombie", "reaped"}]
  BY DEF child_setpgrp, child_send, child_exit, child_die, ProcStep, TypeOK
<1>4. /\ UNCHANGED <<seq, res, cpc, cop, creply, cbatch, conn, toAgent, toCtl>>
      /\ UNCHANGED <<agent, ctx, abuf, acmd, forwarded, sigkilled>>
  BY DEF child_setpgrp, child_send, child_exit, child_die, ProcStep, ctlVars, agentVars
<1> QED
  BY <1>2, <1>3, <1>4, SMTT(30) DEF TypeOK

(***************************************************************************)
(* The steps of the agent keep the types.                                  *)
(***************************************************************************)
LEMMA TypeAgent == TypeOK /\ AgentNext => TypeOK'
<1> SUFFICES ASSUME TypeOK, AgentNext PROVE TypeOK'
  OBVIOUS
<1>0. \A j \in Jobs : Append(pipe[j], "killed") \in Seq(Results)
  BY DEF TypeOK, Results
<1>1. CASE get_messages
  BY <1>1 DEF get_messages, ctlVars, TypeOK
<1>2. ASSUME NEW j \in Jobs, process_job_finished(j) PROVE TypeOK'
  <2>1. Head(abuf[j]) \in Results /\ Tail(abuf[j]) \in Seq(Results)
    BY <1>2, SMTT(30) DEF process_job_finished, TypeOK
  <2>2. toCtl' \in Seq(Message)
    BY <1>2, <2>1, MessageFacts, SMTT(30) DEF process_job_finished, TypeOK
  <2>3. abuf' \in [Jobs -> Seq(Results)]
    BY <1>2, <2>1, SMTT(30) DEF process_job_finished, TypeOK
  <2>4. pipe' \in [Jobs -> Seq(Results)]
    BY <1>2, SMTT(30) DEF process_job_finished, TypeOK
  <2>5. forwarded' \in [Jobs -> Nat] /\ ctx' \in SUBSET Jobs
    BY <1>2, SMTT(30) DEF process_job_finished, TypeOK
  <2>6. proc' \in [Jobs -> {"none", "forked", "running", "sent", "zombie", "reaped"}]
    BY <1>2, SMTT(30) DEF process_job_finished, TypeOK
  <2>7. UNCHANGED <<ctlVars, toAgent, agent, acmd, sigkilled>>
    BY <1>2 DEF process_job_finished
  <2> QED
    BY <2>2, <2>3, <2>4, <2>5, <2>6, <2>7, SMTT(30) DEF ctlVars, TypeOK
<1>3. ASSUME NEW j \in Jobs, process_job_finished_unknown(j) PROVE TypeOK'
  BY <1>3 DEF process_job_finished_unknown, ctlVars, TypeOK
<1>4. CASE run_job
  <2>1. NextCommand("run_job")
    BY <1>4 DEF run_job
  <2>2. /\ acmd' \in Seq(Command) /\ acmd[1].job \in Jobs
        /\ toCtl' \in Seq(Message)
    BY <1>4, <2>1, NextCommandType DEF run_job
  <2>3. /\ ctx' \in SUBSET Jobs
        /\ proc' \in [Jobs -> {"none", "forked", "running", "sent", "zombie", "reaped"}]
    BY <1>4, <2>2 DEF run_job, TypeOK
  <2>4. UNCHANGED <<ctlVars, toAgent, agent, abuf, forwarded, pipe, sigkilled>>
    BY <1>4, <2>1 DEF run_job, NextCommand
  <2> QED
    BY <2>2, <2>3, <2>4, SMTT(30) DEF ctlVars, TypeOK
<1>5. CASE kill_job_unknown \/ kill_job_esrch \/ bye
  <2>1. NextCommand("kill_job") \/ NextCommand("bye")
    BY <1>5 DEF kill_job_unknown, kill_job_esrch, bye
  <2>2. acmd' \in Seq(Command) /\ toCtl' \in Seq(Message)
    BY <1>5, <2>1, NextCommandType DEF kill_job_unknown, kill_job_esrch, bye
  <2>3. /\ UNCHANGED <<ctlVars, toAgent, agent, abuf, forwarded>>
        /\ UNCHANGED <<ctx, proc, pipe, sigkilled>>
    BY <1>5, <2>1 DEF kill_job_unknown, kill_job_esrch, bye, NextCommand
  <2> QED
    BY <2>2, <2>3, SMTT(30) DEF ctlVars, TypeOK
<1>6. CASE kill_job
  <2> DEFINE j == acmd[1].job
             sig == acmd[1].sig
  <2>1. NextCommand("kill_job")
    BY <1>6 DEF kill_job
  <2>2. j \in Jobs /\ acmd' \in Seq(Command) /\ toCtl' \in Seq(Message)
    BY <1>6, <2>1, NextCommandType DEF kill_job
  <2>3. pipe' \in [Jobs -> Seq(Results)]
    <3>1. pipe' = [pipe EXCEPT ![j] = Append(pipe[j], "killed")] \/ pipe' = pipe
      BY <1>6 DEF kill_job
    <3>2. pipe \in [Jobs -> Seq(Results)]
      BY DEF TypeOK
    <3>3. Append(pipe[j], "killed") \in Seq(Results)
      BY <1>0, <2>2
    <3> HIDE DEF j
    <3> QED
      BY <2>2, <3>1, <3>2, <3>3
  <2>4. sigkilled' \in SUBSET Jobs
    BY <1>6, <2>2 DEF kill_job, TypeOK
  <2>5. PICK p \in AfterSignal(j, sig) : proc' = [proc EXCEPT ![j] = p]
    BY <1>6 DEF kill_job
  <2>6. proc' \in [Jobs -> {"none", "forked", "running", "sent", "zombie", "reaped"}]
    <3>1. p = "zombie" \/ p = proc[j]
      BY DEF AfterSignal
    <3> HIDE DEF j, sig
    <3> QED
      BY <2>2, <2>5, <3>1 DEF TypeOK
  <2>7. UNCHANGED <<ctlVars, toAgent, agent, abuf, forwarded, ctx>>
    BY <1>6, <2>1 DEF kill_job, NextCommand
  <2> HIDE DEF j, sig
  <2> QED
    BY <2>2, <2>3, <2>4, <2>6, <2>7, SMTT(30) DEF ctlVars, TypeOK
<1>7. CASE kill_jobs
  <2>1. NextCommand("kill_jobs")
    BY <1>7 DEF kill_jobs
  <2>2. pipe' \in [Jobs -> Seq(Results)] /\ sigkilled' \in SUBSET Jobs
    BY <1>0, <1>7 DEF kill_jobs, TypeOK
  <2>3. proc' \in [Jobs -> {"none", "forked", "running", "sent", "zombie", "reaped"}]
    BY <1>7 DEF kill_jobs, TypeOK
  <2>4. acmd' \in Seq(Command) /\ toCtl' \in Seq(Message)
    BY <1>7, <2>1, NextCommandType DEF kill_jobs
  <2>5. UNCHANGED <<ctlVars, toAgent, agent, abuf, forwarded, ctx>>
    BY <1>7, <2>1 DEF kill_jobs, NextCommand
  <2> QED
    BY <2>2, <2>3, <2>4, <2>5, SMTT(30) DEF ctlVars, TypeOK
<1> QED
  BY <1>1, <1>2, <1>3, <1>4, <1>5, <1>6, <1>7 DEF AgentNext

(***************************************************************************)
(* The steps of the controller keep the types.                             *)
(***************************************************************************)
LEMMA RpcType ==
  ASSUME TypeOK, NEW c \in Rpcs, NEW j \in Jobs, NEW sig \in Signals,
         NEW mode \in {"bg", "fg"}, Rpc(c, j, sig, mode), seq' \in 0..MaxJobs
  PROVE  TypeOK'
<1>1. toAgent' \in Seq(Command)
  <2>1. [cmd |-> c, job |-> j, sig |-> sig] \in Command /\ toAgent \in Seq(Command)
    BY CommandFacts DEF TypeOK
  <2>2. \/ toAgent' = toAgent
        \/ toAgent' = Append(toAgent, [cmd |-> c, job |-> j, sig |-> sig])
    BY DEF Rpc
  <2> QED
    BY <2>1, <2>2
<1>2. cop' \in [op : {"none", "run_job", "kill_job", "kill_jobs", "bye", "wait"},
               job : Jobs, mode : {"bg", "fg"}, timer : {"off", "on", "expired"}]
  BY DEF Rpc, Rpcs
<1> QED
  BY <1>1, <1>2 DEF Rpc, remote, agentVars, TypeOK

LEMMA TypeNoOp ==
  NoOp \in [op : {"none", "run_job", "kill_job", "kill_jobs", "bye", "wait"},
            job : Jobs, mode : {"bg", "fg"}, timer : {"off", "on", "expired"}]
BY MaxJobsAssumption DEF NoOp, Jobs

LEMMA TypeWaitFalse ==
  ASSUME TypeOK, WaitFalse, UNCHANGED seq
  PROVE  TypeOK'
<1>1. CASE cop.mode = "fg" /\ res[cop.job] = "none"
  <2>1. Rpc("kill_job", cop.job, "SIGKILL", "fg")
    BY <1>1 DEF WaitFalse
  <2>2. cop.job \in Jobs /\ seq' \in 0..MaxJobs
    BY DEF TypeOK
  <2>3. "kill_job" \in Rpcs /\ "SIGKILL" \in Signals /\ "fg" \in {"bg", "fg"}
    BY DEF Rpcs, Signals
  <2> QED
    BY <2>1, <2>2, <2>3, RpcType
<1>2. CASE ~ (cop.mode = "fg" /\ res[cop.job] = "none")
  BY <1>2, TypeNoOp DEF WaitFalse, remote, agentVars, TypeOK
<1> QED
  BY <1>1, <1>2

LEMMA TypeCall == TypeOK /\ CtlCall => TypeOK'
<1> SUFFICES ASSUME TypeOK, CtlCall PROVE TypeOK'
  OBVIOUS
<1>0. /\ \A c \in Rpcs : c \in {"run_job", "kill_job", "kill_jobs", "bye"}
      /\ "run_job" \in Rpcs /\ "kill_job" \in Rpcs /\ "kill_jobs" \in Rpcs
      /\ "SIGKILL" \in Signals /\ 0 \in Jobs
  BY MaxJobsAssumption DEF Rpcs, Signals, Jobs
<1>1. ASSUME NEW mode \in {"bg", "fg"}, ctl_start(mode) PROVE TypeOK'
  <2>1. seq \in Jobs /\ seq' \in 0..MaxJobs
    BY <1>1, MaxJobsAssumption DEF ctl_start, TypeOK, Jobs
  <2> QED
    BY <1>0, <1>1, <2>1, RpcType DEF ctl_start
<1>2. ASSUME NEW j \in Jobs, NEW sig \in Signals, ctl_kill(j, sig) PROVE TypeOK'
  BY <1>0, <1>2, RpcType DEF ctl_kill, TypeOK
<1>3. ASSUME NEW j \in Jobs, NEW timer \in {"on", "off"}, ctl_wait(j, timer)
      PROVE  TypeOK'
  BY <1>3 DEF ctl_wait, remote, agentVars, TypeOK
<1>4. CASE ctl_cleanup
  BY <1>0, <1>4, RpcType DEF ctl_cleanup, TypeOK
<1>5. CASE ctl_cleanup_skip
  BY <1>5 DEF ctl_cleanup_skip, remote, agentVars, TypeOK
<1> QED
  BY <1>1, <1>2, <1>3, <1>4, <1>5 DEF CtlCall

LEMMA TypeReport ==
  ASSUME TypeOK, job_finished,
         cop' \in [op : {"none", "run_job", "kill_job", "kill_jobs", "bye", "wait"},
                  job : Jobs, mode : {"bg", "fg"}, timer : {"off", "on", "expired"}]
  PROVE  TypeOK'
<1>1. cbatch[1] \in Message /\ Tail(cbatch) \in Seq(Message)
  BY DEF job_finished, InBatch, TypeOK
<1>2. cbatch[1].val \in Results
  BY <1>1, MessageFields DEF job_finished
<1> QED
  BY <1>1, <1>2 DEF job_finished, remote, agentVars, TypeOK

LEMMA TypeStep == TypeOK /\ CtlStep => TypeOK'
<1> SUFFICES ASSUME TypeOK, CtlStep PROVE TypeOK'
  OBVIOUS
<1>1. CASE ctl_recv \/ ctl_recv_eof
  <2>1. CASE ctl_recv
    BY <2>1 DEF ctl_recv, remote, agentVars, TypeOK
  <2>2. CASE ctl_recv_eof
    BY <2>2 DEF ctl_recv_eof, remote, agentVars, TypeOK
  <2> QED
    BY <1>1, <2>1, <2>2
<1>2. CASE ctl_result
  <2>1. cbatch[1] \in Message /\ Tail(cbatch) \in Seq(Message)
    BY <1>2 DEF ctl_result, InBatch, TypeOK
  <2>2. cbatch[1].val \in {"true", "false"}
    BY <1>2, <2>1, MessageFields DEF ctl_result
  <2>3. cbatch' \in Seq(Message) /\ creply' \in {"none", "true", "false"}
    BY <1>2, <2>1, <2>2 DEF ctl_result, TypeOK
  <2>4. UNCHANGED <<seq, res, cpc, cop, conn, toAgent, toCtl, remote>>
    BY <1>2 DEF ctl_result
  <2> QED
    BY <2>3, <2>4 DEF remote, agentVars, TypeOK
<1>3. CASE ctl_job_finished
  BY <1>3, TypeReport DEF ctl_job_finished, TypeOK
<1>4. CASE ctl_again \/ ctl_disconnected \/ ctl_cleanup_done
  BY <1>4 DEF ctl_again, ctl_disconnected, ctl_cleanup_done, remote, agentVars, TypeOK
<1>5. CASE ctl_return \/ ctl_wait_true
  BY <1>5, TypeNoOp DEF ctl_return, ctl_wait_true, remote, agentVars, TypeOK
<1>6. CASE ctl_start_wait
  <2>1. PICK timer \in {"on", "off"} :
          cop' = [cop EXCEPT !.op = "wait", !.timer = timer]
    BY <1>6 DEF ctl_start_wait
  <2>2. cop' \in [op : {"none", "run_job", "kill_job", "kill_jobs", "bye", "wait"},
                 job : Jobs, mode : {"bg", "fg"}, timer : {"off", "on", "expired"}]
    BY <2>1 DEF TypeOK
  <2> QED
    BY <1>6, <2>2 DEF ctl_start_wait, remote, agentVars, TypeOK
<1>7. CASE ctl_cleanup_bye
  <2>1. "bye" \in Rpcs /\ "SIGKILL" \in Signals /\ 0 \in Jobs
    BY MaxJobsAssumption DEF Rpcs, Signals, Jobs
  <2> QED
    BY <1>7, <2>1, RpcType DEF ctl_cleanup_bye, TypeOK
<1>8. CASE ctl_wait_false
  BY <1>8, TypeWaitFalse DEF ctl_wait_false
<1> QED
  BY <1>1, <1>2, <1>3, <1>4, <1>5, <1>6, <1>7, <1>8 DEF CtlStep

LEMMA TypeAlarm == TypeOK /\ CtlAlarm => TypeOK'
<1> SUFFICES ASSUME TypeOK, CtlAlarm PROVE TypeOK'
  OBVIOUS
<1>1. CASE ctl_alarm_select
  BY <1>1, TypeWaitFalse DEF ctl_alarm_select
<1>2. CASE ctl_alarm_recv
  <2>1. \A k \in 1..Len(toCtl) : SubSeq(toCtl, k + 1, Len(toCtl)) \in Seq(Message)
    BY DEF TypeOK
  <2>2. toCtl' \in Seq(Message)
    <3>1. toCtl' = <<>> \/ \E k \in 1..Len(toCtl) : toCtl' = SubSeq(toCtl, k + 1, Len(toCtl))
      BY <1>2 DEF ctl_alarm_recv
    <3>2. CASE toCtl' = <<>>
      BY <3>2
    <3>3. CASE \E k \in 1..Len(toCtl) : toCtl' = SubSeq(toCtl, k + 1, Len(toCtl))
      BY <2>1, <3>3
    <3> QED
      BY <3>1, <3>2, <3>3
  <2>3. cop' \in [op : {"none", "run_job", "kill_job", "kill_jobs", "bye", "wait"},
                 job : Jobs, mode : {"bg", "fg"}, timer : {"off", "on", "expired"}]
    BY <1>2 DEF ctl_alarm_recv, TypeOK
  <2>4. conn' \in {"open", "closed"}
    BY <1>2 DEF ctl_alarm_recv, TypeOK
  <2> QED
    BY <1>2, <2>2, <2>3, <2>4 DEF ctl_alarm_recv, remote, agentVars, TypeOK
<1>3. CASE ctl_alarm_process
  <2>1. Tail(cbatch) \in Seq(Message)
    BY <1>3 DEF ctl_alarm_process, InBatch, TypeOK
  <2> QED
    BY <1>3, <2>1 DEF ctl_alarm_process, remote, agentVars, TypeOK
<1>4. CASE ctl_alarm_between
  <2>1. cbatch' \in Seq(Message)
    BY <1>4 DEF ctl_alarm_between
  <2> QED
    BY <1>4, <2>1 DEF ctl_alarm_between, remote, agentVars, TypeOK
<1>5. CASE ctl_alarm_processed
  BY <1>5, TypeReport DEF ctl_alarm_processed, TypeOK
<1> QED
  BY <1>1, <1>2, <1>3, <1>4, <1>5 DEF CtlAlarm

(***************************************************************************)
(* Every variable keeps its type, for any number of jobs.                  *)
(***************************************************************************)
THEOREM JobsTypeOK == Spec => []TypeOK
<1>1. Init => TypeOK
  <2> SUFFICES ASSUME Init PROVE TypeOK
    OBVIOUS
  <2>1. seq \in 0..MaxJobs
    BY MaxJobsAssumption DEF Init
  <2>2. cop \in [op : {"none", "run_job", "kill_job", "kill_jobs", "bye", "wait"},
                job : Jobs, mode : {"bg", "fg"}, timer : {"off", "on", "expired"}]
    BY TypeNoOp DEF Init
  <2>3. /\ cbatch \in Seq(Message) /\ toCtl \in Seq(Message)
        /\ toAgent \in Seq(Command) /\ acmd \in Seq(Command)
    BY DEF Init
  <2>4. abuf \in [Jobs -> Seq(Results)] /\ pipe \in [Jobs -> Seq(Results)]
    BY DEF Init
  <2> QED
    BY <2>1, <2>2, <2>3, <2>4 DEF Init, TypeOK
<1>2. TypeOK /\ [Next]_vars => TypeOK'
  <2> SUFFICES ASSUME TypeOK, [Next]_vars PROVE TypeOK'
    OBVIOUS
  <2>1. CASE UNCHANGED vars
    BY <2>1 DEF vars, ctlVars, agentVars, TypeOK
  <2> QED
    BY <2>1, TypeCall, TypeStep, TypeAlarm, TypeAgent, TypeProc DEF Next
<1> QED
  BY <1>1, <1>2, PTL DEF Spec

-----------------------------------------------------------------------------
(***************************************************************************)
(* The invariant IInv: process_job_finished needs a process that is still  *)
(* to be joined, and no job is started twice, so that a second report of a *)
(* job can never be sent.                                                  *)
(***************************************************************************)
NoSpawn == \A j \in Jobs : proc[j] = "none" <=> proc'[j] = "none"
NoReap  == \A j \in Jobs : proc[j] = "reaped" <=> proc'[j] = "reaped"

\* t is what is left of s when some of its first elements are gone
Suffix(t, s) ==
  \E d \in 0..Len(s) : /\ Len(t) = Len(s) - d
                       /\ \A i \in 1..Len(t) : t[i] = s[i + d]

LEMMA SuffixFacts ==
  ASSUME NEW S, NEW s \in Seq(S)
  PROVE  /\ Suffix(s, s)
         /\ Suffix(<<>>, s)
         /\ s # <<>> => Suffix(Tail(s), s)
         /\ \A k \in 1..Len(s) : Suffix(SubSeq(s, k + 1, Len(s)), s)
<1>1. Suffix(s, s)
  <2>1. 0 \in 0..Len(s) /\ Len(s) = Len(s) - 0 /\ \A i \in 1..Len(s) : s[i] = s[i + 0]
    OBVIOUS
  <2> QED  BY <2>1 DEF Suffix
<1>2. Suffix(<<>>, s)
  <2>1. Len(s) \in 0..Len(s) /\ Len(<<>>) = Len(s) - Len(s)
    OBVIOUS
  <2> QED  BY <2>1 DEF Suffix
<1>3. ASSUME s # <<>> PROVE Suffix(Tail(s), s)
  <2>1. /\ 1 \in 0..Len(s) /\ Len(Tail(s)) = Len(s) - 1
        /\ \A i \in 1..Len(Tail(s)) : Tail(s)[i] = s[i + 1]
    BY <1>3
  <2> QED  BY <2>1 DEF Suffix
<1>4. ASSUME NEW k \in 1..Len(s) PROVE Suffix(SubSeq(s, k + 1, Len(s)), s)
  <2>1. /\ k \in 0..Len(s) /\ Len(SubSeq(s, k + 1, Len(s))) = Len(s) - k
        /\ \A i \in 1..Len(SubSeq(s, k + 1, Len(s))) :
             SubSeq(s, k + 1, Len(s))[i] = s[i + k]
    OBVIOUS
  <2> QED  BY <2>1 DEF Suffix
<1> QED
  BY <1>1, <1>2, <1>3, <1>4

LEMMA JobOf ==
  ASSUME TypeOK
  PROVE  /\ \A i \in 1..Len(toCtl) : IsReport(toCtl[i]) => toCtl[i].job \in Jobs
         /\ \A i \in 1..Len(cbatch) : IsReport(cbatch[i]) => cbatch[i].job \in Jobs
         /\ \A i \in 1..Len(toAgent) : toAgent[i].job \in Jobs
         /\ \A i \in 1..Len(acmd) : acmd[i].job \in Jobs
<1>1. /\ \A i \in 1..Len(toCtl) : toCtl[i] \in Message
      /\ \A i \in 1..Len(cbatch) : cbatch[i] \in Message
      /\ \A i \in 1..Len(toAgent) : toAgent[i] \in Command
      /\ \A i \in 1..Len(acmd) : acmd[i] \in Command
  BY DEF TypeOK
<1> QED
  BY <1>1, MessageFields, CommandFacts DEF IsReport

(***************************************************************************)
(* Runs survives every step that spawns no process and at most takes       *)
(* commands from the agent's batch.                                        *)
(***************************************************************************)
LEMMA RunsQuiet ==
  ASSUME TypeOK, Runs, NoSpawn, UNCHANGED <<seq, toAgent>>, Suffix(acmd', acmd)
  PROVE  Runs'
<1>2. PICK d \in 0..Len(acmd) : /\ Len(acmd') = Len(acmd) - d
                               /\ \A i \in 1..Len(acmd') : acmd'[i] = acmd[i + d]
  BY DEF Suffix
<1>3. Len(acmd) \in Nat /\ \A i \in 1..Len(acmd') : i + d \in 1..Len(acmd)
  BY <1>2 DEF TypeOK
<1>4. Fresh(acmd)'
  <2>1. ASSUME NEW i \in 1..Len(acmd'), IsRun(acmd'[i])
        PROVE  acmd'[i].job < seq' /\ proc'[acmd'[i].job] = "none"
    <3>1. i + d \in 1..Len(acmd) /\ acmd'[i] = acmd[i + d]
      BY <1>2, <1>3
    <3> QED
      BY <2>1, <3>1, JobOf DEF Runs, Fresh, NoSpawn
  <2> QED
    BY <2>1 DEF Fresh
<1>5. Fresh(toAgent)'
  BY JobOf DEF Runs, Fresh, NoSpawn
<1>6. Rising(acmd)' /\ Rising(toAgent)'
  <2>1. \A i, k \in 1..Len(acmd') : i < k => i + d < k + d
    BY <1>2, <1>3
  <2>2. Rising(acmd) /\ Rising(toAgent)
    BY DEF Runs
  <2>3. Rising(acmd')
    BY <1>2, <1>3, <2>1, <2>2 DEF Rising
  <2> QED
    BY <2>2, <2>3 DEF Rising
<1>7. \A i \in 1..Len(acmd'), k \in 1..Len(toAgent') :
        IsRun(acmd'[i]) /\ IsRun(toAgent'[k]) => acmd'[i].job < toAgent'[k].job
  BY <1>2, <1>3 DEF Runs
<1>8. \A j \in Jobs : j >= seq' => proc'[j] = "none"
  BY DEF Runs, NoSpawn
<1> QED
  BY <1>4, <1>5, <1>6, <1>7, <1>8 DEF Runs

(***************************************************************************)
(* Reports survives every step that reaps no process and at most adds an   *)
(* answer to what is on its way to the controller.                         *)
(***************************************************************************)
LEMMA ReportsQuiet ==
  ASSUME TypeOK, Reports, NoReap, UNCHANGED <<res, cbatch, forwarded>>,
         toCtl' = toCtl \/ \E v \in {"true", "false"} : toCtl' = Append(toCtl, Reply(v))
  PROVE  Reports'
<1>1. ASSUME NEW i \in 1..Len(toCtl'), IsReport(toCtl'[i])
      PROVE  i \in 1..Len(toCtl) /\ toCtl'[i] = toCtl[i]
  <2>1. CASE toCtl' = toCtl
    BY <2>1
  <2>2. CASE \E v \in {"true", "false"} : toCtl' = Append(toCtl, Reply(v))
    <3>1. PICK v \in {"true", "false"} : toCtl' = Append(toCtl, Reply(v))
      BY <2>2
    <3>2. CASE i \in 1..Len(toCtl)
      BY <3>1, <3>2 DEF TypeOK
    <3>3. CASE i = Len(toCtl) + 1
      <4>1. toCtl'[i] = Reply(v)
        BY <3>1, <3>3 DEF TypeOK
      <4> QED
        BY <1>1, <4>1 DEF IsReport, Reply
    <3>4. i \in 1..Len(toCtl) \/ i = Len(toCtl) + 1
      BY <3>1 DEF TypeOK
    <3> QED
      BY <3>2, <3>3, <3>4
  <2> QED
    BY <2>1, <2>2
<1>2. Owed(toCtl)' /\ Owed(cbatch)'
  <2>1. ASSUME NEW i \in 1..Len(toCtl'), IsReport(toCtl'[i])
        PROVE  proc'[toCtl'[i].job] = "reaped" /\ res'[toCtl'[i].job] = "none"
    <3>1. i \in 1..Len(toCtl) /\ toCtl'[i] = toCtl[i]
      BY <1>1, <2>1
    <3>2. toCtl[i].job \in Jobs
      BY <2>1, <3>1, JobOf
    <3>3. proc[toCtl[i].job] = "reaped" /\ res[toCtl[i].job] = "none"
      BY <2>1, <3>1 DEF Reports, Owed
    <3> QED
      BY <3>1, <3>2, <3>3 DEF NoReap
  <2>2. ASSUME NEW i \in 1..Len(cbatch), IsReport(cbatch[i])
        PROVE  proc'[cbatch[i].job] = "reaped" /\ res'[cbatch[i].job] = "none"
    <3>1. cbatch[i].job \in Jobs
      BY <2>2, JobOf
    <3>2. proc[cbatch[i].job] = "reaped" /\ res[cbatch[i].job] = "none"
      BY <2>2 DEF Reports, Owed
    <3> QED
      BY <3>1, <3>2 DEF NoReap
  <2> QED
    BY <2>1, <2>2 DEF Owed
<1>3. OneEach(toCtl)' /\ OneEach(cbatch)'
  BY <1>1 DEF Reports, OneEach
<1>4. \A i \in 1..Len(toCtl'), k \in 1..Len(cbatch') :
        ~ (IsReport(toCtl'[i]) /\ IsReport(cbatch'[k]) /\ toCtl'[i].job = cbatch'[k].job)
  BY <1>1 DEF Reports
<1>5. \A j \in Jobs : /\ res'[j] # "none" => proc'[j] = "reaped"
                      /\ forwarded'[j] = IF proc'[j] = "reaped" THEN 1 ELSE 0
  BY DEF Reports, NoReap
<1> QED
  BY <1>2, <1>3, <1>4, <1>5 DEF Reports

(***************************************************************************)
(* ... and every step by which the controller drops what it was about to   *)
(* handle.                                                                 *)
(***************************************************************************)
LEMMA ReportsDrop ==
  ASSUME TypeOK, Reports, UNCHANGED <<res, proc, forwarded>>,
         Suffix(toCtl', toCtl), Suffix(cbatch', cbatch)
  PROVE  Reports'
<1>1. PICK d \in 0..Len(toCtl) : /\ Len(toCtl') = Len(toCtl) - d
                                /\ \A i \in 1..Len(toCtl') : toCtl'[i] = toCtl[i + d]
  BY DEF Suffix
<1>2. PICK e \in 0..Len(cbatch) : /\ Len(cbatch') = Len(cbatch) - e
                                 /\ \A i \in 1..Len(cbatch') : cbatch'[i] = cbatch[i + e]
  BY DEF Suffix
<1>3. /\ \A i \in 1..Len(toCtl') : i + d \in 1..Len(toCtl)
      /\ \A i \in 1..Len(cbatch') : i + e \in 1..Len(cbatch)
      /\ Len(toCtl) \in Nat /\ Len(cbatch) \in Nat
  BY <1>1, <1>2 DEF TypeOK
<1>4. Owed(toCtl)' /\ Owed(cbatch)'
  <2>1. ASSUME NEW i \in 1..Len(toCtl'), IsReport(toCtl'[i])
        PROVE  proc[toCtl'[i].job] = "reaped" /\ res[toCtl'[i].job] = "none"
    <3>1. i + d \in 1..Len(toCtl) /\ toCtl'[i] = toCtl[i + d]
      BY <1>1, <1>3
    <3> QED
      BY <2>1, <3>1 DEF Reports, Owed
  <2>2. ASSUME NEW i \in 1..Len(cbatch'), IsReport(cbatch'[i])
        PROVE  proc[cbatch'[i].job] = "reaped" /\ res[cbatch'[i].job] = "none"
    <3>1. i + e \in 1..Len(cbatch) /\ cbatch'[i] = cbatch[i + e]
      BY <1>2, <1>3
    <3> QED
      BY <2>2, <3>1 DEF Reports, Owed
  <2> QED
    BY <2>1, <2>2 DEF Owed
<1>5. OneEach(toCtl)'
  <2> SUFFICES ASSUME NEW i \in 1..Len(toCtl'), NEW k \in 1..Len(toCtl'),
                      IsReport(toCtl'[i]), IsReport(toCtl'[k]),
                      toCtl'[i].job = toCtl'[k].job
               PROVE  i = k
    BY DEF OneEach
  <2>1. /\ i + d \in 1..Len(toCtl) /\ toCtl'[i] = toCtl[i + d]
        /\ k + d \in 1..Len(toCtl) /\ toCtl'[k] = toCtl[k + d]
    BY <1>1, <1>3
  <2>2. OneEach(toCtl)
    BY DEF Reports
  <2>3. i + d = k + d
    BY <2>1, <2>2 DEF OneEach
  <2>4. i \in Int /\ k \in Int /\ d \in Int
    OBVIOUS
  <2> QED
    BY <2>3, <2>4
<1>6. OneEach(cbatch)'
  <2> SUFFICES ASSUME NEW i \in 1..Len(cbatch'), NEW k \in 1..Len(cbatch'),
                      IsReport(cbatch'[i]), IsReport(cbatch'[k]),
                      cbatch'[i].job = cbatch'[k].job
               PROVE  i = k
    BY DEF OneEach
  <2>1. /\ i + e \in 1..Len(cbatch) /\ cbatch'[i] = cbatch[i + e]
        /\ k + e \in 1..Len(cbatch) /\ cbatch'[k] = cbatch[k + e]
    BY <1>2, <1>3
  <2>2. OneEach(cbatch)
    BY DEF Reports
  <2>3. i + e = k + e
    BY <2>1, <2>2 DEF OneEach
  <2>4. i \in Int /\ k \in Int /\ e \in Int
    OBVIOUS
  <2> QED
    BY <2>3, <2>4
<1>7. ASSUME NEW i \in 1..Len(toCtl'), NEW k \in 1..Len(cbatch')
      PROVE  ~ (IsReport(toCtl'[i]) /\ IsReport(cbatch'[k])
                  /\ toCtl'[i].job = cbatch'[k].job)
  <2>1. i + d \in 1..Len(toCtl) /\ toCtl'[i] = toCtl[i + d]
    BY <1>1, <1>3
  <2>2. k + e \in 1..Len(cbatch) /\ cbatch'[k] = cbatch[k + e]
    BY <1>2, <1>3
  <2> QED
    BY <2>1, <2>2 DEF Reports
<1>8. \A j \in Jobs : /\ res'[j] # "none" => proc'[j] = "reaped"
                      /\ forwarded'[j] = IF proc'[j] = "reaped" THEN 1 ELSE 0
  BY DEF Reports
<1> QED
  BY <1>4, <1>5, <1>6, <1>7, <1>8 DEF Reports

(***************************************************************************)
(* A call that is not the start of a job leaves Runs and Reports alone.    *)
(***************************************************************************)
LEMMA RpcInv ==
  ASSUME IInv, NEW c, NEW j \in Jobs, NEW sig, NEW mode, Rpc(c, j, sig, mode),
         \/ c # "run_job" /\ seq' = seq
         \/ j = seq /\ seq' = seq + 1
  PROVE  Runs' /\ Reports'
<1> DEFINE n == Len(toAgent) + 1
<1>1. /\ Len(toAgent) \in Nat /\ (Len(toAgent') = n \/ Len(toAgent') = Len(toAgent))
      /\ Len(toAgent') = n => toAgent'[n] = [cmd |-> c, job |-> j, sig |-> sig]
      /\ \A i \in 1..Len(toAgent) : toAgent'[i] = toAgent[i]
      /\ UNCHANGED <<acmd, proc, res, cbatch, toCtl, forwarded>>
  <2>1. \/ toAgent' = toAgent
        \/ toAgent' = Append(toAgent, [cmd |-> c, job |-> j, sig |-> sig])
    BY DEF Rpc
  <2>2. toAgent \in Seq(Command)
    BY DEF IInv, TypeOK
  <2>3. UNCHANGED <<acmd, proc, res, cbatch, toCtl, forwarded>>
    BY DEF Rpc, remote, agentVars
  <2> QED
    BY <2>1, <2>2, <2>3
<1>2. /\ n \in 1..Len(toAgent') => toAgent'[n].job = j
      /\ n \in 1..Len(toAgent') /\ IsRun(toAgent'[n]) => j = seq /\ seq' = seq + 1
      /\ seq <= seq' /\ seq \in Int /\ seq' \in Int
  <2>1. seq \in Int
    BY DEF IInv, TypeOK
  <2>2. seq <= seq' /\ seq' \in Int
    BY <2>1
  <2>3. ASSUME n \in 1..Len(toAgent')
        PROVE  toAgent'[n] = [cmd |-> c, job |-> j, sig |-> sig]
    BY <1>1, <2>3
  <2>4. ASSUME n \in 1..Len(toAgent'), IsRun(toAgent'[n])
        PROVE  j = seq /\ seq' = seq + 1
    BY <2>3, <2>4 DEF IsRun
  <2> QED
    BY <2>1, <2>2, <2>3, <2>4
<1>3. /\ \A i \in 1..Len(toAgent) : toAgent[i].job \in Int
      /\ \A i \in 1..Len(acmd) : acmd[i].job \in Int
  BY JobOf DEF IInv, Jobs
<1>4. \A i \in 1..Len(toAgent') : i \in 1..Len(toAgent) \/ i = n
  BY <1>1
<1>5. Fresh(toAgent)' /\ Fresh(acmd)'
  <2>1. ASSUME NEW i \in 1..Len(toAgent'), IsRun(toAgent'[i])
        PROVE  toAgent'[i].job < seq' /\ proc'[toAgent'[i].job] = "none"
    <3>1. CASE i \in 1..Len(toAgent)
      BY <1>1, <1>2, <1>3, <2>1, <3>1 DEF IInv, Runs, Fresh
    <3>2. CASE i = n
      BY <1>1, <1>2, <2>1, <3>2 DEF IInv, Runs
    <3> QED
      BY <1>4, <3>1, <3>2
  <2>2. ASSUME NEW i \in 1..Len(acmd), IsRun(acmd[i])
        PROVE  acmd[i].job < seq' /\ proc[acmd[i].job] = "none"
    BY <1>2, <1>3, <2>2 DEF IInv, Runs, Fresh
  <2> QED
    BY <1>1, <2>1, <2>2 DEF Fresh
<1>6. Rising(toAgent)' /\ Rising(acmd)'
  <2>1. ASSUME NEW i \in 1..Len(toAgent'), NEW k \in 1..Len(toAgent'), i < k,
               IsRun(toAgent'[i]), IsRun(toAgent'[k])
        PROVE  toAgent'[i].job < toAgent'[k].job
    <3>1. i \in 1..Len(toAgent)
      BY <1>1, <1>4, <2>1
    <3>2. CASE k \in 1..Len(toAgent)
      BY <1>1, <2>1, <3>1, <3>2 DEF IInv, Runs, Rising
    <3>3. CASE k = n
      BY <1>1, <1>2, <2>1, <3>1, <3>3 DEF IInv, Runs, Fresh
    <3> QED
      BY <1>4, <3>2, <3>3
  <2> QED
    BY <1>1, <2>1 DEF Rising, IInv, Runs
<1>7. ASSUME NEW i \in 1..Len(acmd'), NEW k \in 1..Len(toAgent'),
             IsRun(acmd'[i]), IsRun(toAgent'[k])
      PROVE  acmd'[i].job < toAgent'[k].job
  <2>1. CASE k \in 1..Len(toAgent)
    BY <1>1, <1>7, <2>1 DEF IInv, Runs
  <2>2. CASE k = n
    BY <1>1, <1>2, <1>7, <2>2 DEF IInv, Runs, Fresh
  <2> QED
    BY <1>4, <2>1, <2>2
<1>8. \A i \in Jobs : i >= seq' => proc'[i] = "none"
  <2>1. \A i \in Jobs : i >= seq' => i >= seq
    BY <1>2 DEF Jobs
  <2> QED
    BY <1>1, <2>1 DEF IInv, Runs
<1>9. Runs'
  BY <1>5, <1>6, <1>7, <1>8 DEF Runs
<1>10. NoReap
  BY <1>1 DEF NoReap
<1> QED
  BY <1>1, <1>9, <1>10, ReportsQuiet DEF IInv

-----------------------------------------------------------------------------
(***************************************************************************)
(* The steps of a job process, which is neither spawned nor reaped by one. *)
(***************************************************************************)
LEMMA InvProc == IInv /\ ProcNext => Runs' /\ Reports'
<1> SUFFICES ASSUME IInv, NEW j \in Jobs,
                    child_setpgrp(j) \/ child_send(j) \/ child_exit(j) \/ child_die(j)
             PROVE  Runs' /\ Reports'
  BY DEF ProcNext
<1>1. /\ proc[j] \in {"forked", "running", "sent"}
      /\ \E to \in {"running", "sent", "zombie"} : proc' = [proc EXCEPT ![j] = to]
      /\ UNCHANGED <<ctlVars, toAgent, toCtl, agentVars, forwarded>>
  BY DEF child_setpgrp, child_send, child_exit, child_die, ProcStep
<1>2. NoSpawn /\ NoReap
  BY <1>1 DEF NoSpawn, NoReap, IInv, TypeOK
<1>3. Suffix(acmd', acmd)
  BY <1>1, SuffixFacts DEF agentVars, IInv, TypeOK
<1> QED
  BY <1>1, <1>2, <1>3, RunsQuiet, ReportsQuiet DEF ctlVars, IInv

(***************************************************************************)
(* The agent passes the result of a job on: the only step that reaps a     *)
(* process, and one that nothing has been reported for yet.                *)
(***************************************************************************)
LEMMA InvJobFinished ==
  ASSUME IInv, NEW j \in Jobs, process_job_finished(j)
  PROVE  Runs' /\ Reports'
<1> DEFINE n == Len(toCtl) + 1
<1>1. /\ proc[j] = "zombie"
      /\ proc' = [proc EXCEPT ![j] = "reaped"]
      /\ forwarded' = [forwarded EXCEPT ![j] = forwarded[j] + 1]
      /\ UNCHANGED <<ctlVars, toAgent, acmd>>
  BY DEF process_job_finished
<1>2. /\ Len(toCtl') = n /\ Len(toCtl) \in Nat
      /\ toCtl'[n] = Finished(j, Head(abuf[j]))
      /\ \A i \in 1..Len(toCtl) : toCtl'[i] = toCtl[i]
  BY DEF process_job_finished, IInv, TypeOK
<1>3. toCtl'[n].job = j
  BY <1>2 DEF Finished
<1>4. \A i \in 1..Len(toCtl') : i \in 1..Len(toCtl) \/ i = n
  BY <1>2
<1>5. res[j] = "none"
  BY <1>1 DEF IInv, Reports
<1>6. /\ \A i \in 1..Len(toCtl) : IsReport(toCtl[i]) => toCtl[i].job # j
      /\ \A i \in 1..Len(cbatch) : IsReport(cbatch[i]) => cbatch[i].job # j
  BY <1>1 DEF IInv, Reports, Owed
<1>7. \A k \in Jobs : proc'[k] = IF k = j THEN "reaped" ELSE proc[k]
  BY <1>1 DEF IInv, TypeOK
<1>8. Runs'
  <2>1. NoSpawn
    BY <1>1, <1>7 DEF NoSpawn
  <2>2. Suffix(acmd', acmd)
    BY <1>1, SuffixFacts DEF IInv, TypeOK
  <2> QED
    BY <1>1, <2>1, <2>2, RunsQuiet DEF ctlVars, IInv
<1>9. Owed(toCtl)' /\ Owed(cbatch)'
  <2>1. ASSUME NEW i \in 1..Len(toCtl'), IsReport(toCtl'[i])
        PROVE  proc'[toCtl'[i].job] = "reaped" /\ res[toCtl'[i].job] = "none"
    <3>1. CASE i = n
      BY <1>3, <1>5, <1>7, <3>1
    <3>2. CASE i \in 1..Len(toCtl)
      <4>1. toCtl[i].job \in Jobs /\ toCtl'[i] = toCtl[i]
        BY <1>2, <2>1, <3>2, JobOf DEF IInv
      <4> QED
        BY <1>7, <2>1, <3>2, <4>1 DEF IInv, Reports, Owed
    <3> QED
      BY <1>4, <3>1, <3>2
  <2>2. ASSUME NEW i \in 1..Len(cbatch), IsReport(cbatch[i])
        PROVE  proc'[cbatch[i].job] = "reaped" /\ res[cbatch[i].job] = "none"
    BY <1>7, <2>2, JobOf DEF IInv, Reports, Owed
  <2>3. cbatch' = cbatch /\ res' = res
    BY <1>1 DEF ctlVars
  <2> QED
    BY <2>1, <2>2, <2>3 DEF Owed
<1>10. OneEach(toCtl)' /\ OneEach(cbatch)'
  <2>1. ASSUME NEW i \in 1..Len(toCtl'), NEW k \in 1..Len(toCtl'),
               IsReport(toCtl'[i]), IsReport(toCtl'[k]), toCtl'[i].job = toCtl'[k].job
        PROVE  i = k
    <3>1. CASE i = n /\ k = n
      BY <3>1
    <3>2. CASE i \in 1..Len(toCtl) /\ k \in 1..Len(toCtl)
      BY <1>2, <2>1, <3>2 DEF IInv, Reports, OneEach
    <3>3. CASE i = n /\ k \in 1..Len(toCtl)
      BY <1>2, <1>3, <1>6, <2>1, <3>3
    <3>4. CASE i \in 1..Len(toCtl) /\ k = n
      BY <1>2, <1>3, <1>6, <2>1, <3>4
    <3> QED
      BY <1>4, <3>1, <3>2, <3>3, <3>4
  <2>2. cbatch' = cbatch
    BY <1>1 DEF ctlVars
  <2> QED
    BY <2>1, <2>2 DEF OneEach, IInv, Reports
<1>11. ASSUME NEW i \in 1..Len(toCtl'), NEW k \in 1..Len(cbatch')
       PROVE  ~ (IsReport(toCtl'[i]) /\ IsReport(cbatch'[k])
                   /\ toCtl'[i].job = cbatch'[k].job)
  <2>1. cbatch' = cbatch
    BY <1>1 DEF ctlVars
  <2>2. CASE i = n
    BY <1>3, <1>6, <2>1, <2>2
  <2>3. CASE i \in 1..Len(toCtl)
    BY <1>2, <2>1, <2>3 DEF IInv, Reports
  <2> QED
    BY <1>4, <2>2, <2>3
<1>12. \A k \in Jobs : /\ res'[k] # "none" => proc'[k] = "reaped"
                       /\ forwarded'[k] = IF proc'[k] = "reaped" THEN 1 ELSE 0
  <2>1. \A k \in Jobs : forwarded'[k] = IF k = j THEN forwarded[j] + 1 ELSE forwarded[k]
    BY <1>1 DEF IInv, TypeOK
  <2>2. res' = res
    BY <1>1 DEF ctlVars
  <2> QED
    BY <1>1, <1>7, <2>1, <2>2 DEF IInv, Reports
<1> QED
  BY <1>8, <1>9, <1>10, <1>11, <1>12 DEF Reports

(***************************************************************************)
(* The agent starts a job: the command it takes is the first of its batch, *)
(* so the jobs of the commands that are left are later ones.               *)
(***************************************************************************)
LEMMA InvRunJob ==
  ASSUME IInv, run_job
  PROVE  Runs' /\ Reports'
<1> DEFINE j == acmd[1].job
<1>1. /\ acmd # <<>> /\ IsRun(acmd[1])
      /\ proc' = [proc EXCEPT ![j] = "forked"]
      /\ acmd' = Tail(acmd)
      /\ toCtl' = Append(toCtl, Reply("true"))
      /\ UNCHANGED <<ctlVars, toAgent, forwarded>>
  BY DEF run_job, NextCommand, IsRun
<1>2. /\ 1 \in 1..Len(acmd) /\ Len(acmd) \in Nat
      /\ Len(acmd') = Len(acmd) - 1
      /\ \A i \in 1..Len(acmd') : i + 1 \in 1..Len(acmd) /\ acmd'[i] = acmd[i + 1]
  BY <1>1 DEF IInv, TypeOK
<1>3. j \in Jobs /\ j < seq /\ proc[j] = "none"
  BY <1>1, <1>2, JobOf DEF IInv, Runs, Fresh
<1>4. \A k \in Jobs : proc'[k] = IF k = j THEN "forked" ELSE proc[k]
  BY <1>1, <1>3 DEF IInv, TypeOK
<1>5. seq' = seq /\ toAgent' = toAgent
  BY <1>1 DEF ctlVars
<1>6. Reports'
  <2>1. NoReap
    <3> HIDE DEF j
    <3> QED  BY <1>3, <1>4 DEF NoReap
  <2> QED
    BY <1>1, <2>1, ReportsQuiet DEF ctlVars, IInv
<1>7. Fresh(acmd)'
  <2>1. ASSUME NEW i \in 1..Len(acmd'), IsRun(acmd'[i])
        PROVE  acmd'[i].job < seq /\ proc'[acmd'[i].job] = "none"
    <3>1. i + 1 \in 1..Len(acmd) /\ acmd'[i] = acmd[i + 1] /\ 1 < i + 1
      BY <1>2
    <3>2. j < acmd'[i].job
      BY <1>1, <1>2, <2>1, <3>1 DEF IInv, Runs, Rising
    <3>3. acmd'[i].job \in Jobs /\ acmd'[i].job < seq /\ proc[acmd'[i].job] = "none"
      BY <2>1, <3>1, JobOf DEF IInv, Runs, Fresh
    <3>4. acmd'[i].job # j
      BY <1>3, <3>2, <3>3 DEF Jobs
    <3> QED
      BY <1>4, <3>3, <3>4
  <2> QED
    BY <1>5, <2>1 DEF Fresh
<1>8. Fresh(toAgent)'
  <2>1. ASSUME NEW i \in 1..Len(toAgent), IsRun(toAgent[i])
        PROVE  toAgent[i].job < seq /\ proc'[toAgent[i].job] = "none"
    <3>1. j < toAgent[i].job
      BY <1>1, <1>2, <2>1 DEF IInv, Runs
    <3>2. toAgent[i].job \in Jobs /\ toAgent[i].job < seq /\ proc[toAgent[i].job] = "none"
      BY <2>1, JobOf DEF IInv, Runs, Fresh
    <3>3. toAgent[i].job # j
      BY <1>3, <3>1, <3>2 DEF Jobs
    <3> QED
      BY <1>4, <3>2, <3>3
  <2> QED
    BY <1>5, <2>1 DEF Fresh
<1>9. Rising(acmd)' /\ Rising(toAgent)'
  <2>1. ASSUME NEW i \in 1..Len(acmd'), NEW k \in 1..Len(acmd'), i < k,
               IsRun(acmd'[i]), IsRun(acmd'[k])
        PROVE  acmd'[i].job < acmd'[k].job
    <3>1. /\ i + 1 \in 1..Len(acmd) /\ acmd'[i] = acmd[i + 1]
          /\ k + 1 \in 1..Len(acmd) /\ acmd'[k] = acmd[k + 1]
          /\ i + 1 < k + 1
      BY <1>2, <2>1
    <3> QED
      BY <2>1, <3>1 DEF IInv, Runs, Rising
  <2> QED
    BY <1>5, <2>1 DEF Rising, IInv, Runs
<1>10. ASSUME NEW i \in 1..Len(acmd'), NEW k \in 1..Len(toAgent'),
              IsRun(acmd'[i]), IsRun(toAgent'[k])
       PROVE  acmd'[i].job < toAgent'[k].job
  BY <1>2, <1>5, <1>10 DEF IInv, Runs
<1>11. \A k \in Jobs : k >= seq' => proc'[k] = "none"
  <2>1. \A k \in Jobs : k >= seq => k # j
    BY <1>3 DEF Jobs, IInv, TypeOK
  <2> QED
    BY <1>4, <1>5, <2>1 DEF IInv, Runs
<1> QED
  BY <1>6, <1>7, <1>8, <1>9, <1>10, <1>11 DEF Runs

(***************************************************************************)
(* The other steps of the agent: no process is spawned or reaped.          *)
(***************************************************************************)
LEMMA InvAgent == IInv /\ AgentNext => Runs' /\ Reports'
<1> SUFFICES ASSUME IInv, AgentNext PROVE Runs' /\ Reports'
  OBVIOUS
<1>1. CASE get_messages
  <2>1. /\ acmd = <<>> /\ acmd' = toAgent /\ toAgent' = <<>>
        /\ UNCHANGED <<ctlVars, toCtl, proc, forwarded>>
    BY <1>1 DEF get_messages, Drained
  <2>2. NoReap
    BY <2>1 DEF NoReap
  <2>3. seq' = seq /\ proc' = proc
    BY <2>1 DEF ctlVars
  <2>4. Len(toAgent') = 0
    BY <2>1
  <2>5. Fresh(toAgent)' /\ Fresh(acmd)'
    BY <2>1, <2>3, <2>4 DEF Fresh, IInv, Runs
  <2>6. Rising(toAgent)' /\ Rising(acmd)'
    BY <2>1, <2>4 DEF Rising, IInv, Runs
  <2>7. Runs'
    BY <2>3, <2>4, <2>5, <2>6 DEF Runs, IInv
  <2> QED
    BY <2>1, <2>2, <2>7, ReportsQuiet DEF ctlVars, IInv
<1>2. ASSUME NEW j \in Jobs, process_job_finished(j) PROVE Runs' /\ Reports'
  BY <1>2, InvJobFinished
<1>3. ASSUME NEW j \in Jobs, process_job_finished_unknown(j) PROVE Runs' /\ Reports'
  <2>1. UNCHANGED <<ctlVars, toAgent, toCtl, acmd, proc, forwarded>>
    BY <1>3 DEF process_job_finished_unknown
  <2>2. NoSpawn /\ NoReap
    BY <2>1 DEF NoSpawn, NoReap
  <2>3. Suffix(acmd', acmd)
    BY <2>1, SuffixFacts DEF IInv, TypeOK
  <2> QED
    BY <2>1, <2>2, <2>3, RunsQuiet, ReportsQuiet DEF ctlVars, IInv
<1>4. CASE run_job
  BY <1>4, InvRunJob
<1>5. ASSUME NEW c, NextCommand(c), NoSpawn, NoReap,
             NEW v \in {"true", "false"}, toCtl' = Append(toCtl, Reply(v))
      PROVE  Runs' /\ Reports'
  <2>1. Suffix(acmd', acmd)
    BY <1>5, SuffixFacts DEF NextCommand, IInv, TypeOK
  <2>2. UNCHANGED <<seq, toAgent, res, cbatch, forwarded>>
    BY <1>5 DEF NextCommand, ctlVars
  <2> QED
    BY <1>5, <2>1, <2>2, RunsQuiet, ReportsQuiet DEF IInv
<1>6. CASE kill_job_unknown
  <2>1. NoSpawn /\ NoReap
    BY <1>6 DEF kill_job_unknown, NoSpawn, NoReap
  <2> QED
    BY <1>5, <1>6, <2>1 DEF kill_job_unknown
<1>7. CASE kill_job_esrch
  <2>1. NoSpawn /\ NoReap
    BY <1>7 DEF kill_job_esrch, NoSpawn, NoReap
  <2> QED
    BY <1>5, <1>7, <2>1 DEF kill_job_esrch
<1>8. CASE bye
  <2>1. NoSpawn /\ NoReap
    BY <1>8 DEF bye, NoSpawn, NoReap
  <2> QED
    BY <1>5, <1>8, <2>1 DEF bye
<1>9. CASE kill_job
  <2> DEFINE j == acmd[1].job
  <2>1. PICK p \in AfterSignal(j, acmd[1].sig) : proc' = [proc EXCEPT ![j] = p]
    BY <1>9 DEF kill_job
  <2>2. proc[j] \in {"running", "sent", "zombie"}
    BY <1>9 DEF kill_job, HasGroup
  <2>3. p = "zombie" \/ p = proc[j]
    BY <2>1 DEF AfterSignal
  <2>4. p \in {"running", "sent", "zombie"}
    <3> HIDE DEF j
    <3> QED  BY <2>2, <2>3
  <2>5. NoSpawn /\ NoReap
    <3> HIDE DEF j
    <3> QED  BY <2>1, <2>2, <2>4 DEF NoSpawn, NoReap, IInv, TypeOK
  <2> QED
    BY <1>5, <1>9, <2>5 DEF kill_job
<1>10. CASE kill_jobs
  <2>1. NoSpawn /\ NoReap
    BY <1>10 DEF kill_jobs, HasGroup, NoSpawn, NoReap, IInv, TypeOK
  <2> QED
    BY <1>5, <1>10, <2>1 DEF kill_jobs
<1> QED
  BY <1>1, <1>2, <1>3, <1>4, <1>6, <1>7, <1>8, <1>9, <1>10 DEF AgentNext

(***************************************************************************)
(* Calls of the tester.                                                    *)
(***************************************************************************)
LEMMA InvCall == IInv /\ CtlCall => Runs' /\ Reports'
<1> SUFFICES ASSUME IInv, CtlCall PROVE Runs' /\ Reports'
  OBVIOUS
<1>0. 0 \in Jobs
  BY MaxJobsAssumption DEF Jobs
<1>1. ASSUME NEW mode \in {"bg", "fg"}, ctl_start(mode) PROVE Runs' /\ Reports'
  <2>1. seq \in Jobs /\ seq' = seq + 1
    BY <1>1, MaxJobsAssumption DEF ctl_start, IInv, TypeOK, Jobs
  <2> QED
    BY <1>1, <2>1, RpcInv DEF ctl_start
<1>2. ASSUME NEW j \in Jobs, NEW sig \in Signals, ctl_kill(j, sig)
      PROVE  Runs' /\ Reports'
  BY <1>2, RpcInv DEF ctl_kill
<1>3. ASSUME NEW j \in Jobs, NEW timer \in {"on", "off"}, ctl_wait(j, timer)
      PROVE  Runs' /\ Reports'
  <2>1. UNCHANGED <<seq, res, cbatch, toAgent, toCtl, acmd, proc, forwarded>>
    BY <1>3 DEF ctl_wait, remote, agentVars
  <2>2. NoSpawn /\ NoReap
    BY <2>1 DEF NoSpawn, NoReap
  <2>3. Suffix(acmd', acmd)
    BY <2>1, SuffixFacts DEF IInv, TypeOK
  <2> QED
    BY <2>1, <2>2, <2>3, RunsQuiet, ReportsQuiet DEF IInv
<1>4. CASE ctl_cleanup
  BY <1>0, <1>4, RpcInv DEF ctl_cleanup
<1>5. CASE ctl_cleanup_skip
  <2>1. UNCHANGED <<seq, res, cbatch, toAgent, toCtl, acmd, proc, forwarded>>
    BY <1>5 DEF ctl_cleanup_skip, remote, agentVars
  <2>2. NoSpawn /\ NoReap
    BY <2>1 DEF NoSpawn, NoReap
  <2>3. Suffix(acmd', acmd)
    BY <2>1, SuffixFacts DEF IInv, TypeOK
  <2> QED
    BY <2>1, <2>2, <2>3, RunsQuiet, ReportsQuiet DEF IInv
<1> QED
  BY <1>1, <1>2, <1>3, <1>4, <1>5 DEF CtlCall

(***************************************************************************)
(* A step of the controller that sends nothing and at most drops messages. *)
(***************************************************************************)
LEMMA InvDrop ==
  ASSUME IInv, UNCHANGED <<seq, res, toAgent, remote>>,
         Suffix(toCtl', toCtl), Suffix(cbatch', cbatch)
  PROVE  Runs' /\ Reports'
<1>1. UNCHANGED <<acmd, proc, forwarded>>
  BY DEF remote, agentVars
<1>2. NoSpawn
  BY <1>1 DEF NoSpawn
<1>3. Suffix(acmd', acmd)
  BY <1>1, SuffixFacts DEF IInv, TypeOK
<1> QED
  BY <1>1, <1>2, <1>3, RunsQuiet, ReportsDrop DEF IInv

LEMMA InvWaitFalse ==
  ASSUME IInv, WaitFalse, UNCHANGED seq
  PROVE  Runs' /\ Reports'
<1>1. CASE cop.mode = "fg" /\ res[cop.job] = "none"
  <2>1. Rpc("kill_job", cop.job, "SIGKILL", "fg")
    BY <1>1 DEF WaitFalse
  <2>2. cop.job \in Jobs
    BY DEF IInv, TypeOK
  <2> QED
    BY <2>1, <2>2, RpcInv
<1>2. CASE ~ (cop.mode = "fg" /\ res[cop.job] = "none")
  <2>1. UNCHANGED <<res, cbatch, toAgent, toCtl, remote>>
    BY <1>2 DEF WaitFalse
  <2>2. Suffix(toCtl', toCtl) /\ Suffix(cbatch', cbatch)
    BY <2>1, SuffixFacts DEF IInv, TypeOK
  <2> QED
    BY <2>1, <2>2, InvDrop
<1> QED
  BY <1>1, <1>2

(***************************************************************************)
(* Machine.job_finished: the one message of this job is handled.           *)
(***************************************************************************)
LEMMA InvReport ==
  ASSUME IInv, job_finished
  PROVE  Runs' /\ Reports'
<1> DEFINE j == cbatch[1].job
<1>1. /\ cbatch # <<>> /\ IsReport(cbatch[1])
      /\ res' = [res EXCEPT ![j] = cbatch[1].val]
      /\ cbatch' = Tail(cbatch)
      /\ UNCHANGED <<seq, toAgent, toCtl, acmd, proc, forwarded>>
  BY DEF job_finished, InBatch, IsReport, remote, agentVars
<1>2. /\ 1 \in 1..Len(cbatch) /\ Len(cbatch) \in Nat
      /\ Len(cbatch') = Len(cbatch) - 1
      /\ \A i \in 1..Len(cbatch') :
           i + 1 \in 1..Len(cbatch) /\ i + 1 # 1 /\ cbatch'[i] = cbatch[i + 1]
  BY <1>1 DEF IInv, TypeOK
<1>3. j \in Jobs /\ proc[j] = "reaped"
  BY <1>1, <1>2, JobOf DEF IInv, Reports, Owed
<1>4. \A k \in Jobs : k # j => res'[k] = res[k]
  BY <1>1, <1>3 DEF IInv, TypeOK
<1>5. \A i \in 1..Len(cbatch') : IsReport(cbatch'[i]) => cbatch'[i].job # j
  BY <1>1, <1>2 DEF IInv, Reports, OneEach
<1>6. \A i \in 1..Len(toCtl) : IsReport(toCtl[i]) => toCtl[i].job # j
  BY <1>1, <1>2 DEF IInv, Reports
<1>7. Runs'
  <2>1. NoSpawn
    BY <1>1 DEF NoSpawn
  <2>2. Suffix(acmd', acmd)
    BY <1>1, SuffixFacts DEF IInv, TypeOK
  <2> QED
    BY <1>1, <2>1, <2>2, RunsQuiet DEF IInv
<1>8. Owed(toCtl)' /\ Owed(cbatch)'
  <2>1. ASSUME NEW i \in 1..Len(toCtl), IsReport(toCtl[i])
        PROVE  proc[toCtl[i].job] = "reaped" /\ res'[toCtl[i].job] = "none"
    BY <1>4, <1>6, <2>1, JobOf DEF IInv, Reports, Owed
  <2>2. ASSUME NEW i \in 1..Len(cbatch'), IsReport(cbatch'[i])
        PROVE  proc[cbatch'[i].job] = "reaped" /\ res'[cbatch'[i].job] = "none"
    <3>1. i + 1 \in 1..Len(cbatch) /\ cbatch'[i] = cbatch[i + 1]
      BY <1>2
    <3>2. cbatch'[i].job \in Jobs /\ cbatch'[i].job # j
      BY <1>5, <2>2, <3>1, JobOf DEF IInv
    <3> QED
      BY <1>4, <2>2, <3>1, <3>2 DEF IInv, Reports, Owed
  <2> QED
    BY <1>1, <2>1, <2>2 DEF Owed
<1>9. OneEach(toCtl)' /\ OneEach(cbatch)'
  <2>1. ASSUME NEW i \in 1..Len(cbatch'), NEW k \in 1..Len(cbatch'),
               IsReport(cbatch'[i]), IsReport(cbatch'[k]),
               cbatch'[i].job = cbatch'[k].job
        PROVE  i = k
    <3>1. i + 1 = k + 1
      BY <1>2, <2>1 DEF IInv, Reports, OneEach
    <3> QED
      BY <1>2, <3>1
  <2> QED
    BY <1>1, <2>1 DEF OneEach, IInv, Reports
<1>10. ASSUME NEW i \in 1..Len(toCtl'), NEW k \in 1..Len(cbatch')
       PROVE  ~ (IsReport(toCtl'[i]) /\ IsReport(cbatch'[k])
                   /\ toCtl'[i].job = cbatch'[k].job)
  <2>1. k + 1 \in 1..Len(cbatch) /\ cbatch'[k] = cbatch[k + 1]
    BY <1>2
  <2> QED
    BY <1>1, <2>1 DEF IInv, Reports
<1>11. \A k \in Jobs : /\ res'[k] # "none" => proc'[k] = "reaped"
                       /\ forwarded'[k] = IF proc'[k] = "reaped" THEN 1 ELSE 0
  <2> HIDE DEF j
  <2> QED
    BY <1>1, <1>3, <1>4 DEF IInv, Reports
<1> QED
  BY <1>7, <1>8, <1>9, <1>10, <1>11 DEF Reports

LEMMA InvStep == IInv /\ CtlStep => Runs' /\ Reports'
<1> SUFFICES ASSUME IInv, CtlStep PROVE Runs' /\ Reports'
  OBVIOUS
<1>0. /\ Suffix(toCtl, toCtl) /\ Suffix(cbatch, cbatch)
      /\ cbatch # <<>> => Suffix(Tail(cbatch), cbatch)
  BY SuffixFacts DEF IInv, TypeOK
<1>1. CASE ctl_recv
  <2>1. /\ cbatch' = toCtl /\ toCtl' = <<>>
        /\ UNCHANGED <<seq, res, toAgent, acmd, proc, forwarded>>
    BY <1>1 DEF ctl_recv, remote, agentVars
  <2>2. Len(toCtl') = 0
    BY <2>1
  <2>3. NoSpawn
    BY <2>1 DEF NoSpawn
  <2>4. Suffix(acmd', acmd)
    BY <2>1, SuffixFacts DEF IInv, TypeOK
  <2>5. Runs'
    BY <2>1, <2>3, <2>4, RunsQuiet DEF IInv
  <2>6. Owed(toCtl)' /\ Owed(cbatch)' /\ OneEach(toCtl)' /\ OneEach(cbatch)'
    BY <2>1, <2>2 DEF Owed, OneEach, IInv, Reports
  <2> QED
    BY <2>1, <2>2, <2>5, <2>6 DEF IInv, Reports
<1>2. CASE ctl_result
  BY <1>0, <1>2, InvDrop DEF ctl_result, InBatch
<1>3. CASE ctl_job_finished
  BY <1>3, InvReport DEF ctl_job_finished
<1>4. ASSUME UNCHANGED <<seq, res, cbatch, toAgent, toCtl, remote>>
      PROVE  Runs' /\ Reports'
  BY <1>0, <1>4, InvDrop
<1>5. CASE ctl_recv_eof \/ ctl_again \/ ctl_disconnected \/ ctl_return
           \/ ctl_start_wait \/ ctl_cleanup_done \/ ctl_wait_true
  BY <1>4, <1>5 DEF ctl_recv_eof, ctl_again, ctl_disconnected, ctl_return,
                    ctl_start_wait, ctl_cleanup_done, ctl_wait_true
<1>6. CASE ctl_cleanup_bye
  <2>1. 0 \in Jobs
    BY MaxJobsAssumption DEF Jobs
  <2> QED
    BY <1>6, <2>1, RpcInv DEF ctl_cleanup_bye
<1>7. CASE ctl_wait_false
  BY <1>7, InvWaitFalse DEF ctl_wait_false
<1> QED
  BY <1>1, <1>2, <1>3, <1>5, <1>6, <1>7 DEF CtlStep

LEMMA InvAlarm == IInv /\ CtlAlarm => Runs' /\ Reports'
<1> SUFFICES ASSUME IInv, CtlAlarm PROVE Runs' /\ Reports'
  OBVIOUS
<1>0. /\ Suffix(toCtl, toCtl) /\ Suffix(cbatch, cbatch) /\ Suffix(<<>>, cbatch)
      /\ cbatch # <<>> => Suffix(Tail(cbatch), cbatch)
      /\ Suffix(<<>>, toCtl)
      /\ \A k \in 1..Len(toCtl) : Suffix(SubSeq(toCtl, k + 1, Len(toCtl)), toCtl)
  BY SuffixFacts DEF IInv, TypeOK
<1>1. CASE ctl_alarm_select
  BY <1>1, InvWaitFalse DEF ctl_alarm_select
<1>2. CASE ctl_alarm_recv
  <2>1. Suffix(toCtl', toCtl)
    BY <1>0, <1>2 DEF ctl_alarm_recv
  <2> QED
    BY <1>0, <1>2, <2>1, InvDrop DEF ctl_alarm_recv
<1>3. CASE ctl_alarm_process
  BY <1>0, <1>3, InvDrop DEF ctl_alarm_process, InBatch
<1>4. CASE ctl_alarm_between
  BY <1>0, <1>4, InvDrop DEF ctl_alarm_between
<1>5. CASE ctl_alarm_processed
  BY <1>5, InvReport DEF ctl_alarm_processed
<1> QED
  BY <1>1, <1>2, <1>3, <1>4, <1>5 DEF CtlAlarm

-----------------------------------------------------------------------------
(***************************************************************************)
(* The initial states, stuttering, and every step together.                *)
(***************************************************************************)
LEMMA InitInv == Init => Runs /\ Reports
<1> SUFFICES ASSUME Init PROVE Runs /\ Reports
  OBVIOUS
<1>1. Len(toAgent) = 0 /\ Len(acmd) = 0 /\ Len(toCtl) = 0 /\ Len(cbatch) = 0
  BY DEF Init
<1>2. \A j \in Jobs : proc[j] = "none" /\ res[j] = "none" /\ forwarded[j] = 0
  BY DEF Init
<1> QED
  BY <1>1, <1>2 DEF Runs, Fresh, Rising, Reports, Owed, OneEach

LEMMA StutterInv == IInv /\ UNCHANGED vars => Runs' /\ Reports'
<1> SUFFICES ASSUME IInv, UNCHANGED vars PROVE Runs' /\ Reports'
  OBVIOUS
<1>1. UNCHANGED <<seq, res, toAgent, toCtl, cbatch, remote>>
  BY DEF vars, ctlVars, remote
<1>2. Suffix(toCtl', toCtl) /\ Suffix(cbatch', cbatch)
  BY <1>1, SuffixFacts DEF IInv, TypeOK
<1> QED
  BY <1>1, <1>2, InvDrop

LEMMA NextInv == IInv /\ [Next]_vars => Runs' /\ Reports'
BY InvCall, InvStep, InvAlarm, InvAgent, InvProc, StutterInv DEF Next

(***************************************************************************)
(* The inductive invariant holds throughout: no message about a job that   *)
(* is not reaped is ever under way, and no second run_job for a job.       *)
(***************************************************************************)
THEOREM JobsInvariant == Spec => []IInv
<1>1. Init => Runs /\ Reports
  BY InitInv
<1>2. Runs /\ Reports /\ TypeOK /\ [Next]_vars => (Runs /\ Reports)'
  BY NextInv DEF IInv
<1>3. Spec => []TypeOK
  BY JobsTypeOK
<1>4. IInv <=> TypeOK /\ Runs /\ Reports
  BY DEF IInv
<1> QED
  BY <1>1, <1>2, <1>3, <1>4, PTL DEF Spec

(***************************************************************************)
(* The agent passes at most one job_finished message per job on.           *)
(***************************************************************************)
THEOREM JobsReportedOnce == Spec => []ReportedOnce
<1>1. IInv => ReportedOnce
  BY DEF IInv, Reports, ReportedOnce
<1> QED
  BY <1>1, JobsInvariant, PTL

(***************************************************************************)
(* A job with a result has no process left on the agent.                   *)
(***************************************************************************)
THEOREM JobsFinishedMeansReaped == Spec => []FinishedMeansReaped
<1>1. IInv => FinishedMeansReaped
  BY DEF IInv, Reports, FinishedMeansReaped
<1> QED
  BY <1>1, JobsInvariant, PTL

(***************************************************************************)
(* What a step does to the results: nothing, or it stores the result of a  *)
(* job that has none, when the process of the job is gone.                 *)
(***************************************************************************)
LEMMA ResOf ==
  ASSUME IInv, [Next]_vars
  PROVE  \/ res' = res
         \/ job_finished
<1>1. CASE CtlCall
  BY <1>1 DEF CtlCall, ctl_start, ctl_kill, ctl_wait, ctl_cleanup,
     ctl_cleanup_skip, Rpc
<1>2. CASE CtlStep
  BY <1>2 DEF CtlStep, ctl_recv, ctl_recv_eof, ctl_result, ctl_job_finished, ctl_again,
     ctl_disconnected, ctl_return, ctl_start_wait, ctl_cleanup_bye,
     ctl_cleanup_done, ctl_wait_true, ctl_wait_false, WaitFalse, Rpc
<1>3. CASE CtlAlarm
  BY <1>3 DEF CtlAlarm, ctl_alarm_select, ctl_alarm_recv, ctl_alarm_process,
     ctl_alarm_between, ctl_alarm_processed, WaitFalse, Rpc
<1>4. CASE AgentNext
  BY <1>4 DEF AgentNext, get_messages, process_job_finished,
     process_job_finished_unknown, run_job, kill_job_unknown, kill_job_esrch,
     kill_job, kill_jobs, bye, NextCommand, ctlVars
<1>5. CASE ProcNext
  BY <1>5 DEF ProcNext, child_setpgrp, child_send, child_exit, child_die,
     ProcStep, ctlVars
<1>6. CASE UNCHANGED vars
  BY <1>6 DEF vars, ctlVars
<1> QED
  BY <1>1, <1>2, <1>3, <1>4, <1>5, <1>6 DEF Next

LEMMA ReportFacts ==
  ASSUME IInv, job_finished
  PROVE  /\ cbatch[1].job \in Jobs /\ cbatch[1].val \in Results
         /\ res[cbatch[1].job] = "none"
         /\ proc[cbatch[1].job] = "reaped"
<1>1. /\ 1 \in 1..Len(cbatch) /\ cbatch[1] \in Message
      /\ IsReport(cbatch[1])
  BY DEF job_finished, InBatch, IsReport, IInv, TypeOK
<1>2. cbatch[1].job \in Jobs /\ cbatch[1].val \in Results
  BY <1>1, MessageFields DEF IsReport
<1> QED
  BY <1>1, <1>2 DEF IInv, Reports, Owed

(***************************************************************************)
(* The result of a finished job never changes.                             *)
(***************************************************************************)
THEOREM JobsResultStable == Spec => ResultStable
<1>1. ASSUME IInv, [Next]_vars
      PROVE  [\A j \in Jobs : res[j] # "none" => res'[j] = res[j]]_vars
  <2>1. CASE res' = res
    BY <2>1
  <2>2. CASE job_finished
    <3>1. res' = [res EXCEPT ![cbatch[1].job] = cbatch[1].val]
      BY <2>2 DEF job_finished
    <3> QED
      BY <1>1, <2>2, <3>1, ReportFacts DEF IInv, TypeOK
  <2> QED
    BY <1>1, <2>1, <2>2, ResOf
<1> QED
  BY <1>1, JobsInvariant, PTL DEF Spec, ResultStable

-----------------------------------------------------------------------------
(***************************************************************************)
(* Refinement: each step is a step of JobService or a stutter of it.       *)
(***************************************************************************)
Lives == [j \in Jobs |-> Life(proc[j])]
Refines == [Service!Next]_(Service!svcVars)

LEMMA LifeFacts ==
  /\ \A p \in {"forked", "running", "sent"} : Life(p) = "alive"
  /\ Life("none") = "none" /\ Life("zombie") = "ended" /\ Life("reaped") = "gone"
BY DEF Life

LEMMA Stutters ==
  ASSUME UNCHANGED <<seq, res>>, \A j \in Jobs : Life(proc[j]) = Life(proc'[j])
  PROVE  Refines
<1>1. Lives' = Lives
  BY DEF Lives
<1> QED
  BY <1>1 DEF Refines, Lives, Service!svcVars

\* every step that changes the life of one job
LEMMA OneLife ==
  ASSUME TypeOK, NEW j \in Jobs, NEW p,
         p \in {"none", "forked", "running", "sent", "zombie", "reaped"},
         proc' = [proc EXCEPT ![j] = p]
  PROVE  /\ Lives' = [Lives EXCEPT ![j] = Life(p)]
         /\ Lives' = [k \in Service!Jobs |-> IF k \in {j} THEN Life(p) ELSE Lives[k]]
         /\ \A k \in Jobs : Lives[k] = Life(proc[k])
<1>1. \A k \in Jobs : proc'[k] = IF k = j THEN p ELSE proc[k]
  BY DEF TypeOK
<1>2. Lives' = [k \in Jobs |-> IF k = j THEN Life(p) ELSE Life(proc[k])]
  BY <1>1 DEF Lives
<1> QED
  BY <1>2 DEF Lives, Service!Jobs, Jobs

LEMMA EndsOne ==
  ASSUME TypeOK, UNCHANGED <<seq, res>>, NEW j \in Jobs,
         proc[j] \in {"forked", "running", "sent"},
         proc' = [proc EXCEPT ![j] = "zombie"]
  PROVE  Refines
<1>1. /\ \A k \in {j} : Lives[k] = "alive"
      /\ Lives' = [k \in Service!Jobs |-> IF k \in {j} THEN "ended" ELSE Lives[k]]
  BY OneLife, LifeFacts
<1>2. Service!End({j})
  BY <1>1 DEF Service!End, Lives
<1>3. {j} \in SUBSET Service!Jobs
  BY DEF Service!Jobs, Jobs
<1> QED
  BY <1>2, <1>3 DEF Refines, Service!Next

LEMMA RefineProc == IInv /\ ProcNext => Refines
<1> SUFFICES ASSUME IInv, NEW j \in Jobs,
                    child_setpgrp(j) \/ child_send(j) \/ child_exit(j) \/ child_die(j)
             PROVE  Refines
  BY DEF ProcNext
<1>1. CASE child_exit(j) \/ child_die(j)
  BY <1>1, EndsOne DEF child_exit, child_die, ProcStep, ctlVars, IInv
<1>2. CASE child_setpgrp(j) \/ child_send(j)
  <2>1. PICK p \in {"running", "sent"} :
          /\ proc' = [proc EXCEPT ![j] = p]
          /\ proc[j] \in {"forked", "running"}
          /\ UNCHANGED <<seq, res>>
    BY <1>2 DEF child_setpgrp, child_send, ProcStep, ctlVars
  <2>2. \A k \in Jobs : Life(proc[k]) = Life(proc'[k])
    BY <2>1, LifeFacts DEF IInv, TypeOK
  <2> QED
    BY <2>1, <2>2, Stutters
<1> QED
  BY <1>1, <1>2

LEMMA RefineAgent == IInv /\ AgentNext => Refines
<1> SUFFICES ASSUME IInv, AgentNext PROVE Refines
  OBVIOUS
<1>0. seq' = seq /\ res' = res
  BY DEF AgentNext, get_messages, process_job_finished,
     process_job_finished_unknown, run_job, kill_job_unknown, kill_job_esrch,
     kill_job, kill_jobs, bye, NextCommand, ctlVars
<1>1. CASE proc' = proc
  BY <1>0, <1>1, Stutters
<1>2. ASSUME NEW j \in Jobs, process_job_finished(j) PROVE Refines
  <2>1. proc[j] = "zombie" /\ proc' = [proc EXCEPT ![j] = "reaped"]
    BY <1>2 DEF process_job_finished
  <2>2. Lives[j] = "ended" /\ Lives' = [Lives EXCEPT ![j] = "gone"]
    BY <2>1, OneLife, LifeFacts DEF IInv
  <2>3. Service!Reap(j)
    BY <1>0, <2>2 DEF Service!Reap, Lives
  <2>4. j \in Service!Jobs
    BY DEF Service!Jobs, Jobs
  <2> QED
    BY <2>3, <2>4 DEF Refines, Service!Next
<1>3. CASE run_job
  <2> DEFINE j == acmd[1].job
  <2>1. /\ acmd # <<>> /\ IsRun(acmd[1])
        /\ proc' = [proc EXCEPT ![j] = "forked"]
    BY <1>3 DEF run_job, NextCommand, IsRun
  <2>2. 1 \in 1..Len(acmd)
    BY <2>1 DEF IInv, TypeOK
  <2>3. j \in Jobs /\ j < seq /\ proc[j] = "none"
    BY <2>1, <2>2, JobOf DEF IInv, Runs, Fresh
  <2> HIDE DEF j
  <2>4. Lives[j] = "none" /\ Lives' = [Lives EXCEPT ![j] = "alive"]
    BY <2>1, <2>3, OneLife, LifeFacts DEF IInv
  <2>5. Service!Spawn(j)
    BY <1>0, <2>3, <2>4 DEF Service!Spawn, Lives
  <2>6. j \in Service!Jobs
    BY <2>3 DEF Service!Jobs, Jobs
  <2> QED
    BY <2>5, <2>6 DEF Refines, Service!Next
<1>4. CASE kill_job
  <2> DEFINE j == acmd[1].job
  <2>1. PICK p \in AfterSignal(j, acmd[1].sig) : proc' = [proc EXCEPT ![j] = p]
    BY <1>4 DEF kill_job
  <2>2. proc[j] \in {"running", "sent", "zombie"}
    BY <1>4 DEF kill_job, HasGroup
  <2>3. p = "zombie" \/ p = proc[j]
    BY <2>1 DEF AfterSignal
  <2>4. j \in Jobs
    BY <1>4 DEF kill_job, IInv, TypeOK
  <2> HIDE DEF j
  <2>5. CASE p = proc[j]
    <3>1. proc' = proc
      BY <2>1, <2>4, <2>5 DEF IInv, TypeOK
    <3> QED
      BY <1>1, <3>1
  <2>6. CASE p = "zombie" /\ proc[j] # "zombie"
    BY <1>0, <2>1, <2>2, <2>4, <2>6, EndsOne DEF IInv
  <2> QED
    BY <2>3, <2>5, <2>6
<1>5. CASE kill_jobs
  <2> DEFINE hit == {j \in ctx : HasGroup(j)}
             S   == {j \in hit : proc[j] # "zombie"}
  <2>1. proc' = [j \in Jobs |-> IF j \in hit THEN "zombie" ELSE proc[j]]
    BY <1>5 DEF kill_jobs
  <2>2. S \in SUBSET Jobs /\ \A j \in S : Life(proc[j]) = "alive"
    BY LifeFacts DEF HasGroup, IInv, TypeOK
  <2>3. \A j \in Jobs : Life(proc'[j]) = IF j \in S THEN "ended" ELSE Life(proc[j])
    <3>1. \A j \in Jobs : proc'[j] = IF j \in S THEN "zombie" ELSE proc[j]
      BY <2>1
    <3> HIDE DEF S
    <3> QED
      BY <3>1, LifeFacts
  <2> HIDE DEF S, hit
  <2>4. /\ \A j \in S : Lives[j] = "alive"
        /\ Lives' = [j \in Service!Jobs |-> IF j \in S THEN "ended" ELSE Lives[j]]
    BY <2>2, <2>3 DEF Lives, Service!Jobs, Jobs
  <2>5. Service!End(S)
    BY <1>0, <2>4 DEF Service!End, Lives
  <2>6. S \in SUBSET Service!Jobs
    BY <2>2 DEF Service!Jobs, Jobs
  <2> QED
    BY <2>5, <2>6 DEF Refines, Service!Next
<1>6. CASE get_messages \/ (\E j \in Jobs : process_job_finished_unknown(j))
           \/ kill_job_unknown \/ kill_job_esrch \/ bye
  BY <1>1, <1>6 DEF get_messages, process_job_finished_unknown,
     kill_job_unknown, kill_job_esrch, bye
<1> QED
  BY <1>2, <1>3, <1>4, <1>5, <1>6 DEF AgentNext

(***************************************************************************)
(* Among the steps of the controller only the start of a job and the       *)
(* arrival of a result are visible.                                        *)
(***************************************************************************)
LEMMA RefineCtl == IInv /\ (CtlCall \/ CtlStep \/ CtlAlarm) => Refines
<1> SUFFICES ASSUME IInv, CtlCall \/ CtlStep \/ CtlAlarm PROVE Refines
  OBVIOUS
<1>1. CASE UNCHANGED <<seq, res, proc>>
  BY <1>1, Stutters
<1>2. ASSUME NEW mode \in {"bg", "fg"}, ctl_start(mode) PROVE Refines
  <2>1. seq < MaxJobs /\ seq' = seq + 1 /\ UNCHANGED <<res, proc>>
    BY <1>2 DEF ctl_start, Rpc, remote
  <2>2. Service!Start
    BY <2>1 DEF Service!Start
  <2> QED
    BY <2>2 DEF Refines, Service!Next
<1>3. CASE job_finished
  <2> DEFINE j == cbatch[1].job
             r == cbatch[1].val
  <2>1. res' = [res EXCEPT ![j] = r] /\ UNCHANGED <<seq, proc>>
    BY <1>3 DEF job_finished, remote
  <2>2. j \in Jobs /\ r \in Results /\ res[j] = "none" /\ proc[j] = "reaped"
    BY <1>3, ReportFacts
  <2> HIDE DEF j, r
  <2>3. Lives[j] = "gone"
    BY <2>2, LifeFacts DEF Lives
  <2>4. Service!Report(j)
    BY <2>1, <2>2, <2>3 DEF Service!Report, Lives
  <2>5. j \in Service!Jobs
    BY <2>2 DEF Service!Jobs, Jobs
  <2> QED
    BY <2>4, <2>5 DEF Refines, Service!Next
<1>4. CASE CtlCall
  <2>1. CASE (\E j \in Jobs, sig \in Signals : ctl_kill(j, sig))
             \/ (\E j \in Jobs, timer \in {"on", "off"} : ctl_wait(j, timer))
             \/ ctl_cleanup \/ ctl_cleanup_skip
    BY <1>1, <2>1 DEF ctl_kill, ctl_wait, ctl_cleanup, ctl_cleanup_skip, Rpc, remote
  <2> QED
    BY <1>2, <1>4, <2>1 DEF CtlCall
<1>5. CASE CtlStep
  <2>1. CASE ~ job_finished
    BY <1>1, <1>5, <2>1 DEF CtlStep, ctl_recv, ctl_recv_eof, ctl_result, ctl_job_finished,
       ctl_again,
       ctl_disconnected, ctl_return, ctl_start_wait, ctl_cleanup_bye,
       ctl_cleanup_done, ctl_wait_true, ctl_wait_false, WaitFalse, Rpc, remote
  <2> QED
    BY <1>3, <2>1
<1>6. CASE CtlAlarm
  BY <1>1, <1>3, <1>6 DEF CtlAlarm, ctl_alarm_select, ctl_alarm_recv, ctl_alarm_process,
     ctl_alarm_between, ctl_alarm_processed, WaitFalse, Rpc, remote
<1> QED
  BY <1>4, <1>5, <1>6

(***************************************************************************)
(* The job machinery implements JobService, whatever the alarm of a timed  *)
(* wait interrupts and however many messages are dropped because of it.    *)
(***************************************************************************)
THEOREM JobsImplementService == Spec => ImplementsService
<1>1. Init => Service!Init
  <2> SUFFICES ASSUME Init PROVE Service!Init
    OBVIOUS
  <2>1. seq = 0 /\ res = [j \in Jobs |-> "none"] /\ \A j \in Jobs : proc[j] = "none"
    BY DEF Init
  <2> QED
    BY <2>1, LifeFacts DEF Service!Init, Service!Jobs, Jobs
<1>2. IInv /\ [Next]_vars => Refines
  <2>1. IInv /\ UNCHANGED vars => Refines
    BY Stutters DEF vars, ctlVars
  <2> QED
    BY <2>1, RefineProc, RefineAgent, RefineCtl DEF Next
<1>3. IInv /\ [Next]_vars => [Service!Next]_(Service!svcVars)
  BY <1>2 DEF Refines
<1> QED
  BY <1>1, <1>3, JobsInvariant, PTL DEF Spec, ImplementsService, Service!Spec

-----------------------------------------------------------------------------
(***************************************************************************)
(* What is not lost                                                        *)
(*                                                                         *)
(* When the alarm of a timed wait strikes in select only, no message is    *)
(* dropped.  The controller makes one call at a time: at most one command  *)
(* or reply is on its way, and there is none between two calls.            *)
(***************************************************************************)
IsReply(m) == m.type = "result"
NoReply(s)  == \A i \in 1..Len(s) : ~IsReply(s[i])
OneReply(s) ==
  \E k \in 1..Len(s) : IsReply(s[k]) /\ \A i \in 1..Len(s) : IsReply(s[i]) => i = k

Asks(s) == Len(s) = 1 /\ s[1].cmd = cop.op

\* where the call of the controller is: on its way to the agent, read by it,
\* answered, or the answer is read
OnItsWay ==
  \/ Asks(toAgent) /\ acmd = <<>>    /\ NoReply(toCtl)  /\ NoReply(cbatch)
  \/ toAgent = <<>> /\ Asks(acmd)    /\ NoReply(toCtl)  /\ NoReply(cbatch)
  \/ toAgent = <<>> /\ acmd = <<>> /\ OneReply(toCtl) /\ NoReply(cbatch)
  \/ toAgent = <<>> /\ acmd = <<>> /\ NoReply(toCtl)  /\ OneReply(cbatch)

NoneOnItsWay == toAgent = <<>> /\ acmd = <<>> /\ NoReply(toCtl) /\ NoReply(cbatch)

Calling == cop.op \in Rpcs /\ cpc \in {"recv", "proc", "proc_eof"} /\ creply = "none"

OneCall == cpc # "error" => IF Calling THEN OnItsWay ELSE NoneOnItsWay

\* messages are read when those read before have been handled, and a closed
\* connection is noticed by then
Batches ==
  /\ cbatch = <<>> \/ cpc \in {"proc", "proc_eof"}
  /\ conn = "open" \/ cpc \in {"proc_eof", "error"}

\* a job that was killed has been reported, or will be
Killed ==
  \A j \in sigkilled :
    forwarded[j] > 0 \/ (j \in ctx /\ (pipe[j] # <<>> \/ abuf[j] # <<>>))

(***************************************************************************)
(* Whoever was killed is reported before "bye" is answered: when the agent *)
(* has read it, it has read the pipes too, and handles those messages      *)
(* first; the streams keep the order.                                      *)
(***************************************************************************)
ReportsJob(m, j) == m.type = "job_finished" /\ m.job = j

\* the report of j comes before any reply
Ahead(s, j) == \A k \in 1..Len(s) : IsReply(s[k]) => \E i \in 1..k : ReportsJob(s[i], j)

Collected ==
  cop.op = "bye" /\ cpc # "error" => \A j \in sigkilled :
    /\ acmd # <<>> => forwarded[j] > 0 \/ abuf[j] # <<>>
    /\ res[j] # "none" \/ InTransit(j, cbatch) \/ Ahead(toCtl, j)
    /\ res[j] # "none" \/ Ahead(cbatch, j)
    /\ creply # "none" => res[j] # "none"

DoneMeansBye == cpc = "done" => cop.op = "bye" /\ creply # "none"

CInv == /\ IInv /\ NothingLost
        /\ OneCall /\ Batches /\ Killed /\ Collected /\ DoneMeansBye

-----------------------------------------------------------------------------
(***************************************************************************)
(* Streams that grow at the end and are read from the front                *)
(***************************************************************************)
LEMMA StreamEmpty ==
  NoReply(<<>>) /\ \A j \in Jobs : ~InTransit(j, <<>>)
BY DEF NoReply, InTransit

LEMMA StreamQuiet ==
  ASSUME NEW s, NoReply(s), NEW j
  PROVE  Ahead(s, j)
BY DEF NoReply, Ahead

LEMMA StreamAppend ==
  ASSUME NEW s \in Seq(Message), NEW m \in Message
  PROVE  /\ NoReply(s) /\ ~IsReply(m) => NoReply(Append(s, m))
         /\ OneReply(s) /\ ~IsReply(m) => OneReply(Append(s, m))
         /\ NoReply(s) /\ IsReply(m) => OneReply(Append(s, m))
         /\ \A j \in Jobs : ReportsJob(m, j) => InTransit(j, Append(s, m))
         /\ \A j \in Jobs : InTransit(j, s) => InTransit(j, Append(s, m))
         /\ \A j \in Jobs : Ahead(s, j) /\ ~IsReply(m) => Ahead(Append(s, m), j)
         /\ \A j \in Jobs : NoReply(s) /\ InTransit(j, s) => Ahead(Append(s, m), j)
<1> DEFINE t == Append(s, m)
           n == Len(s)
<1>1. /\ n \in Nat /\ Len(t) = n + 1 /\ t[n + 1] = m
      /\ \A i \in 1..n : t[i] = s[i]
  OBVIOUS
<1>2. \A i \in 1..Len(t) : i \in 1..n \/ i = n + 1
  BY <1>1
<1>3. 1..n \subseteq 1..Len(t) /\ n + 1 \in 1..Len(t)
  BY <1>1
<1> HIDE DEF t, n
<1>4. NoReply(s) /\ ~IsReply(m) => NoReply(t)
  BY <1>1, <1>2 DEF NoReply, n
<1>5. ASSUME OneReply(s), ~IsReply(m) PROVE OneReply(t)
  <2>1. PICK k \in 1..n : IsReply(s[k]) /\ \A i \in 1..n : IsReply(s[i]) => i = k
    BY <1>5 DEF OneReply, n
  <2>2. k \in 1..Len(t) /\ IsReply(t[k])
    BY <2>1, <1>1, <1>3
  <2>3. \A i \in 1..Len(t) : IsReply(t[i]) => i = k
    BY <2>1, <1>1, <1>2, <1>5
  <2> QED  BY <2>2, <2>3 DEF OneReply
<1>6. ASSUME NoReply(s), IsReply(m) PROVE OneReply(t)
  <2>1. \A i \in 1..Len(t) : IsReply(t[i]) => i = n + 1
    BY <1>1, <1>2, <1>6 DEF NoReply, n
  <2> QED  BY <2>1, <1>1, <1>3, <1>6 DEF OneReply
<1>7. \A j \in Jobs : ReportsJob(m, j) => InTransit(j, t)
  BY <1>1, <1>3 DEF InTransit, ReportsJob
<1>8. ASSUME NEW j \in Jobs, InTransit(j, s) PROVE InTransit(j, t)
  <2>1. PICK i \in 1..n : s[i].type = "job_finished" /\ s[i].job = j
    BY <1>8 DEF InTransit, n
  <2> QED  BY <2>1, <1>1, <1>3 DEF InTransit
<1>9. ASSUME NEW j \in Jobs, Ahead(s, j), ~IsReply(m) PROVE Ahead(t, j)
  <2>1. SUFFICES ASSUME NEW k \in 1..Len(t), IsReply(t[k])
                 PROVE  \E i \in 1..k : ReportsJob(t[i], j)
    BY DEF Ahead
  <2>2. k \in 1..n
    BY <2>1, <1>1, <1>2, <1>9
  <2>3. PICK i \in 1..k : ReportsJob(s[i], j)
    BY <2>1, <2>2, <1>1, <1>9 DEF Ahead, n
  <2>4. i \in 1..n
    BY <2>2, <1>1
  <2> QED  BY <2>3, <2>4, <1>1
<1>10. ASSUME NEW j \in Jobs, NoReply(s), InTransit(j, s) PROVE Ahead(t, j)
  <2>1. PICK i \in 1..n : ReportsJob(s[i], j)
    BY <1>10 DEF InTransit, ReportsJob, n
  <2>2. SUFFICES ASSUME NEW k \in 1..Len(t), IsReply(t[k])
                 PROVE  \E p \in 1..k : ReportsJob(t[p], j)
    BY DEF Ahead
  <2>3. k = n + 1
    BY <2>2, <1>1, <1>2, <1>10 DEF NoReply, n
  <2>4. i \in 1..k /\ t[i] = s[i]
    BY <2>1, <2>3, <1>1
  <2> QED  BY <2>1, <2>4
<1> QED  BY <1>4, <1>5, <1>6, <1>7, <1>8, <1>9, <1>10 DEF t

LEMMA StreamTail ==
  ASSUME NEW s \in Seq(Message), s # <<>>
  PROVE  /\ s[1] \in Message /\ Tail(s) \in Seq(Message)
         /\ NoReply(s) => ~IsReply(s[1]) /\ NoReply(Tail(s))
         /\ OneReply(s) /\ ~IsReply(s[1]) => OneReply(Tail(s))
         /\ OneReply(s) /\ IsReply(s[1]) => NoReply(Tail(s))
         /\ \A j \in Jobs : InTransit(j, s) => ReportsJob(s[1], j) \/ InTransit(j, Tail(s))
         /\ \A j \in Jobs : Ahead(s, j) => ~IsReply(s[1])
         /\ \A j \in Jobs : Ahead(s, j) => ReportsJob(s[1], j) \/ Ahead(Tail(s), j)
<1> DEFINE t == Tail(s)
           n == Len(t)
<1>1. /\ s[1] \in Message /\ t \in Seq(Message)
      /\ n \in Nat /\ Len(s) = n + 1
      /\ \A i \in 1..n : t[i] = s[i + 1]
  OBVIOUS
<1>2. /\ 1 \in 1..Len(s)
      /\ \A i \in 1..n : i + 1 \in 1..Len(s) /\ i + 1 # 1
      /\ \A i \in 1..Len(s) : i = 1 \/ (i - 1 \in 1..n /\ s[i] = t[i - 1])
  BY <1>1
<1> HIDE DEF t, n
<1>3. NoReply(s) => ~IsReply(s[1]) /\ NoReply(t)
  BY <1>1, <1>2 DEF NoReply, n
<1>4. ASSUME OneReply(s) PROVE /\ ~IsReply(s[1]) => OneReply(t)
                               /\ IsReply(s[1]) => NoReply(t)
  <2>1. PICK k \in 1..Len(s) : IsReply(s[k]) /\ \A i \in 1..Len(s) : IsReply(s[i]) => i = k
    BY <1>4 DEF OneReply
  <2>2. ASSUME ~IsReply(s[1]) PROVE OneReply(t)
    <3>1. k - 1 \in 1..n /\ IsReply(t[k - 1])
      BY <2>1, <2>2, <1>2
    <3>2. \A i \in 1..n : IsReply(t[i]) => i = k - 1
      BY <2>1, <1>1, <1>2
    <3> QED  BY <3>1, <3>2 DEF OneReply, n
  <2>3. ASSUME IsReply(s[1]) PROVE NoReply(t)
    <3>1. k = 1
      BY <2>1, <2>3, <1>2
    <3>2. \A i \in 1..n : ~IsReply(s[i + 1])
      BY <2>1, <3>1, <1>2
    <3> QED  BY <3>2, <1>1 DEF NoReply, n
  <2> QED  BY <2>2, <2>3
<1>5. ASSUME NEW j \in Jobs, InTransit(j, s), ~ReportsJob(s[1], j) PROVE InTransit(j, t)
  <2>1. PICK i \in 1..Len(s) : s[i].type = "job_finished" /\ s[i].job = j
    BY <1>5 DEF InTransit
  <2>2. i # 1
    BY <2>1, <1>5 DEF ReportsJob
  <2> QED  BY <2>1, <2>2, <1>2 DEF InTransit, n
<1>6. ASSUME NEW j \in Jobs, Ahead(s, j) PROVE ~IsReply(s[1])
  <2> SUFFICES ASSUME IsReply(s[1]) PROVE FALSE
    OBVIOUS
  <2>1. PICK i \in 1..1 : ReportsJob(s[i], j)
    BY <1>2, <1>6 DEF Ahead
  <2> QED  BY <2>1 DEF IsReply, ReportsJob
<1>7. ASSUME NEW j \in Jobs, Ahead(s, j), ~ReportsJob(s[1], j) PROVE Ahead(t, j)
  <2>1. SUFFICES ASSUME NEW k \in 1..n, IsReply(t[k])
                 PROVE  \E i \in 1..k : ReportsJob(t[i], j)
    BY DEF Ahead, n
  <2>2. k + 1 \in 1..Len(s) /\ IsReply(s[k + 1])
    BY <2>1, <1>1, <1>2
  <2>3. PICK i \in 1..(k + 1) : ReportsJob(s[i], j)
    BY <2>2, <1>7 DEF Ahead
  <2>4. i # 1
    BY <2>3, <1>7
  <2>5. i - 1 \in 1..k /\ s[i] = t[i - 1]
    BY <2>4, <1>1, <1>2
  <2> QED  BY <2>3, <2>5
<1> QED  BY <1>1, <1>3, <1>4, <1>5, <1>6, <1>7 DEF t

-----------------------------------------------------------------------------
(***************************************************************************)
(* The processes and the agent                                             *)
(***************************************************************************)
Delivery == NothingLost /\ OneCall /\ Batches /\ Killed /\ Collected /\ DoneMeansBye

\* Nothing that the clauses but Killed speak of has changed.
Still ==
  UNCHANGED <<res, cpc, cop, creply, cbatch, conn, toAgent, toCtl, acmd, abuf,
              forwarded, sigkilled>>

LEMMA StillDelivers ==
  ASSUME CInv, Still, Killed'
  PROVE  Delivery'
BY DEF CInv, Still, Delivery, NothingLost, OneCall, Batches, Collected, DoneMeansBye,
       Calling, OnItsWay, NoneOnItsWay, Asks, NoReply, OneReply, Ahead, InTransit

LEMMA DeliverProc ==
  ASSUME CInv, ProcNext
  PROVE  Delivery'
<1>1. PICK j \in Jobs : child_setpgrp(j) \/ child_send(j) \/ child_exit(j) \/ child_die(j)
  BY DEF ProcNext
<1>2. UNCHANGED <<ctlVars, toAgent, toCtl, agentVars, forwarded, sigkilled>>
  BY <1>1 DEF child_setpgrp, child_send, child_exit, child_die, ProcStep
<1>3. \A k \in Jobs : pipe[k] # <<>> => pipe'[k] # <<>>
  <2>1. pipe \in [Jobs -> Seq(Results)]
    BY DEF CInv, IInv, TypeOK
  <2>2. pipe' = pipe \/ pipe' = [pipe EXCEPT ![j] = Append(pipe[j], "own")]
    BY <1>1 DEF child_setpgrp, child_send, child_exit, child_die
  <2>3. Append(pipe[j], "own") # <<>>
    <3>1. pipe[j] \in Seq(Results) /\ "own" \in Results
      BY <2>1 DEF Results
    <3> QED  BY <3>1
  <2> QED  BY <2>1, <2>2, <2>3
<1>4. Killed'
  <2>1. sigkilled \subseteq Jobs
    BY DEF CInv, IInv, TypeOK
  <2> QED  BY <2>1, <1>2, <1>3 DEF CInv, Killed, agentVars
<1> QED  BY <1>2, <1>4, StillDelivers DEF Still, ctlVars, agentVars

LEMMA DeliverGetMessages ==
  ASSUME CInv, get_messages
  PROVE  Delivery'
<1>1. /\ acmd = <<>> /\ (\A j \in Jobs : abuf[j] = <<>>)
      /\ abuf' = [j \in Jobs |-> IF j \in ctx THEN pipe[j] ELSE <<>>]
      /\ acmd' = toAgent /\ toAgent' = <<>>
      /\ UNCHANGED <<res, cpc, cop, creply, cbatch, conn, toCtl, ctx, forwarded, sigkilled>>
  BY DEF get_messages, Drained, ctlVars
<1>2. sigkilled \subseteq Jobs
  BY DEF CInv, IInv, TypeOK
<1>3. \A j \in sigkilled : forwarded[j] > 0 \/ (j \in ctx /\ abuf'[j] # <<>>)
  BY <1>1, <1>2 DEF CInv, Killed
<1>4. Killed'
  BY <1>1, <1>3 DEF Killed
<1>5. NothingLost' /\ Batches' /\ DoneMeansBye'
  BY <1>1 DEF CInv, NothingLost, InTransit, Batches, DoneMeansBye
<1>6. OneCall'
  <2>1. Calling' <=> Calling
    BY <1>1 DEF Calling
  <2>2. OnItsWay => OnItsWay'
    BY <1>1 DEF OnItsWay, Asks, NoReply, OneReply
  <2>3. NoneOnItsWay => NoneOnItsWay'
    BY <1>1 DEF NoneOnItsWay, NoReply
  <2> QED  BY <2>1, <2>2, <2>3, <1>1 DEF CInv, OneCall
<1>7. Collected'
  BY <1>1, <1>3 DEF CInv, Collected, Ahead, InTransit
<1> QED  BY <1>4, <1>5, <1>6, <1>7 DEF Delivery

LEMMA DeliverReport ==
  ASSUME CInv, NEW j \in Jobs, process_job_finished(j)
  PROVE  Delivery'
<1> DEFINE m == Finished(j, Head(abuf[j]))
<1>1. /\ abuf[j] # <<>>
      /\ ctx' = ctx \ {j}
      /\ pipe' = [pipe EXCEPT ![j] = <<>>]
      /\ abuf' = [abuf EXCEPT ![j] = Tail(abuf[j])]
      /\ toCtl' = Append(toCtl, m)
      /\ forwarded' = [forwarded EXCEPT ![j] = forwarded[j] + 1]
      /\ UNCHANGED <<res, cpc, cop, creply, cbatch, conn, toAgent, acmd, sigkilled>>
  BY DEF process_job_finished, ctlVars
<1>2. /\ toCtl \in Seq(Message) /\ sigkilled \subseteq Jobs
      /\ abuf \in [Jobs -> Seq(Results)] /\ pipe \in [Jobs -> Seq(Results)]
      /\ forwarded \in [Jobs -> Nat]
  BY DEF CInv, IInv, TypeOK
<1>3. m \in Message /\ ~IsReply(m) /\ ReportsJob(m, j)
  <2>1. Head(abuf[j]) \in Results
    BY <1>1, <1>2
  <2> QED  BY <2>1, MessageFacts DEF Finished, IsReply, ReportsJob
<1>4. /\ \A x \in Jobs : x # j => abuf'[x] = abuf[x] /\ pipe'[x] = pipe[x]
                                  /\ forwarded'[x] = forwarded[x]
      /\ forwarded'[j] > 0
  <2>1. forwarded[j] + 1 > 0
    BY <1>2
  <2> QED  BY <2>1, <1>1, <1>2
<1>5. /\ NoReply(toCtl) => NoReply(toCtl')
      /\ OneReply(toCtl) => OneReply(toCtl')
      /\ InTransit(j, toCtl')
      /\ \A x \in Jobs : InTransit(x, toCtl) => InTransit(x, toCtl')
      /\ \A x \in Jobs : Ahead(toCtl, x) => Ahead(toCtl', x)
  <2> HIDE DEF m
  <2> QED  BY <1>1, <1>2, <1>3, StreamAppend
<1>6. Killed'
  BY <1>1, <1>2, <1>4 DEF CInv, Killed
<1>7. NothingLost'
  <2>1. ASSUME NEW x \in Jobs, forwarded'[x] > 0
        PROVE  res[x] # "none" \/ InTransit(x, toCtl') \/ InTransit(x, cbatch)
    BY <2>1, <1>4, <1>5 DEF CInv, NothingLost
  <2> QED  BY <2>1, <1>1 DEF NothingLost, InTransit
<1>8. Batches' /\ DoneMeansBye'
  BY <1>1 DEF CInv, Batches, DoneMeansBye
<1>9. OneCall'
  <2>1. Calling' <=> Calling
    BY <1>1 DEF Calling
  <2>2. OnItsWay => OnItsWay'
    <3>1. /\ Asks(toAgent)' = Asks(toAgent) /\ Asks(acmd)' = Asks(acmd)
          /\ NoReply(cbatch)' = NoReply(cbatch) /\ OneReply(cbatch)' = OneReply(cbatch)
      BY <1>1 DEF Asks, NoReply, OneReply
    <3> QED  BY <3>1, <1>1, <1>5 DEF OnItsWay
  <2>3. NoneOnItsWay => NoneOnItsWay'
    <3>1. NoReply(cbatch)' = NoReply(cbatch)
      BY <1>1 DEF NoReply
    <3> QED  BY <3>1, <1>1, <1>5 DEF NoneOnItsWay
  <2> QED  BY <2>1, <2>2, <2>3, <1>1 DEF CInv, OneCall
<1>10. Collected'
  <2>1. SUFFICES ASSUME cop.op = "bye", cpc # "error", NEW x \in sigkilled
                 PROVE  /\ acmd' # <<>> => forwarded'[x] > 0 \/ abuf'[x] # <<>>
                        /\ \/ res'[x] # "none" \/ InTransit(x, cbatch')
                           \/ Ahead(toCtl', x)
                        /\ res'[x] # "none" \/ Ahead(cbatch', x)
                        /\ creply' # "none" => res'[x] # "none"
    BY <1>1 DEF Collected
  <2>2. /\ acmd # <<>> => forwarded[x] > 0 \/ abuf[x] # <<>>
        /\ res[x] # "none" \/ InTransit(x, cbatch) \/ Ahead(toCtl, x)
        /\ res[x] # "none" \/ Ahead(cbatch, x)
        /\ creply # "none" => res[x] # "none"
    BY <2>1 DEF CInv, Collected
  <2>3. x \in Jobs
    BY <1>2
  <2>4. acmd' # <<>> => forwarded'[x] > 0 \/ abuf'[x] # <<>>
    BY <2>2, <2>3, <1>1, <1>4
  <2> QED  BY <2>2, <2>3, <2>4, <1>1, <1>5
<1> QED  BY <1>6, <1>7, <1>8, <1>9, <1>10 DEF Delivery

\* The agent answers the command of the call; what it killed has a report in
\* its pipe.
LEMMA DeliverAnswer ==
  ASSUME CInv, NEW c, NextCommand(c), NEW v \in {"true", "false"},
         toCtl' = Append(toCtl, Reply(v)),
         ctx \subseteq ctx',
         \A j \in Jobs : pipe[j] # <<>> => pipe'[j] # <<>>,
         sigkilled \subseteq sigkilled',
         \A j \in sigkilled' \ sigkilled :
           c # "bye" /\ j \in Jobs /\ j \in ctx /\ pipe'[j] # <<>>
  PROVE  Delivery'
<1>1. /\ acmd # <<>> /\ (\A j \in Jobs : abuf[j] = <<>>)
      /\ acmd[1].cmd = c /\ acmd' = Tail(acmd)
      /\ UNCHANGED <<res, cpc, cop, creply, cbatch, conn, toAgent, abuf, forwarded>>
  BY DEF NextCommand, ctlVars
<1>2. /\ toCtl \in Seq(Message) /\ cbatch \in Seq(Message) /\ sigkilled \subseteq Jobs
      /\ acmd \in Seq(Command)
      /\ Reply(v) \in Message /\ IsReply(Reply(v))
  BY MessageFacts DEF CInv, IInv, TypeOK, IsReply, Reply
<1>3. /\ NoReply(toCtl) => OneReply(toCtl')
      /\ \A x \in Jobs : InTransit(x, toCtl) => InTransit(x, toCtl')
      /\ \A x \in Jobs : NoReply(toCtl) /\ InTransit(x, toCtl) => Ahead(toCtl', x)
  BY <1>2, StreamAppend
<1>4. Killed'
  <2>1. ASSUME NEW x \in sigkilled
        PROVE  forwarded'[x] > 0 \/ (x \in ctx' /\ (pipe'[x] # <<>> \/ abuf'[x] # <<>>))
    BY <2>1, <1>1, <1>2 DEF CInv, Killed
  <2> QED  BY <2>1 DEF Killed
<1>5. NothingLost'
  BY <1>1, <1>3 DEF CInv, NothingLost, InTransit
<1>6. Batches' /\ DoneMeansBye'
  BY <1>1 DEF CInv, Batches, DoneMeansBye
<1>7. Calling' <=> Calling
  BY <1>1 DEF Calling
<1>8. ASSUME cpc # "error"
      PROVE  /\ Calling /\ toAgent = <<>> /\ Len(acmd) = 1 /\ c = cop.op
             /\ NoReply(toCtl) /\ NoReply(cbatch)
  BY <1>1, <1>8 DEF CInv, OneCall, OnItsWay, NoneOnItsWay, Asks
<1>11. ASSUME cpc # "error" PROVE acmd' = <<>>
  <2>1. acmd \in Seq(Command) /\ Len(acmd) = 1 /\ acmd' = Tail(acmd)
    BY <1>1, <1>2, <1>8, <1>11
  <2> QED  BY ONLY <2>1
<1>9. OneCall'
  <2>1. SUFFICES ASSUME cpc # "error" PROVE Calling' /\ OnItsWay'
    BY <1>1 DEF OneCall
  <2>2. acmd' = <<>>
    BY <2>1, <1>11
  <2>3. NoReply(cbatch')
    BY <2>1, <1>1, <1>8 DEF NoReply
  <2> QED  BY <2>1, <2>2, <2>3, <1>1, <1>3, <1>7, <1>8 DEF OnItsWay
<1>10. Collected'
  <2>1. SUFFICES ASSUME cop.op = "bye", cpc # "error", NEW x \in sigkilled'
                 PROVE  /\ acmd' = <<>> /\ creply' = "none"
                        /\ \/ res'[x] # "none" \/ InTransit(x, cbatch')
                           \/ Ahead(toCtl', x)
                        /\ Ahead(cbatch', x)
    BY <1>1 DEF Collected
  <2>2. x \in sigkilled /\ x \in Jobs
    BY <2>1, <1>2, <1>8
  <2>3. forwarded[x] > 0
    BY <2>1, <2>2, <1>1 DEF CInv, Collected
  <2>4. res[x] # "none" \/ InTransit(x, toCtl) \/ InTransit(x, cbatch)
    BY <2>2, <2>3 DEF CInv, NothingLost
  <2>5. acmd' = <<>> /\ creply' = "none"
    <3>1. acmd' = <<>>
      BY <2>1, <1>11
    <3>2. Calling
      BY <2>1, <1>8
    <3>3. creply' = creply
      BY <1>1
    <3> QED  BY <3>1, <3>2, <3>3 DEF Calling
  <2>6. Ahead(cbatch, x)
    BY <2>1, <1>8, StreamQuiet
  <2> QED  BY <2>1, <2>2, <2>4, <2>5, <2>6, <1>1, <1>3, <1>8
<1> QED  BY <1>4, <1>5, <1>6, <1>9, <1>10 DEF Delivery

LEMMA DeliverAgent ==
  ASSUME CInv, AgentNext
  PROVE  Delivery'
<1>1. CASE get_messages
  BY <1>1, DeliverGetMessages
<1>2. ASSUME NEW j \in Jobs, process_job_finished(j) PROVE Delivery'
  BY <1>2, DeliverReport
<1>3. ASSUME NEW j \in Jobs, process_job_finished_unknown(j) PROVE Delivery'
  <2>1. /\ Still /\ UNCHANGED <<ctx, pipe>>
    BY <1>3 DEF process_job_finished_unknown, Still, ctlVars
  <2>2. Killed'
    BY <2>1 DEF CInv, Killed, Still
  <2> QED  BY <2>1, <2>2, StillDelivers
<1>4. CASE run_job
  <2>1. /\ NextCommand("run_job") /\ toCtl' = Append(toCtl, Reply("true"))
        /\ ctx \subseteq ctx' /\ UNCHANGED <<pipe, sigkilled>>
    BY <1>4 DEF run_job
  <2> QED  BY <2>1, DeliverAnswer
<1>5. CASE kill_job_unknown \/ kill_job_esrch
  <2>1. /\ NextCommand("kill_job") /\ toCtl' = Append(toCtl, Reply("false"))
        /\ UNCHANGED <<ctx, pipe, sigkilled>>
    BY <1>5 DEF kill_job_unknown, kill_job_esrch
  <2> QED  BY <2>1, DeliverAnswer
<1>6. CASE bye
  <2>1. /\ NextCommand("bye") /\ toCtl' = Append(toCtl, Reply("true"))
        /\ UNCHANGED <<ctx, pipe, sigkilled>>
    BY <1>6 DEF bye
  <2> QED  BY <2>1, DeliverAnswer
<1>7. \A j \in Jobs : Append(pipe[j], "killed") # <<>>
  <2> SUFFICES ASSUME NEW j \in Jobs PROVE Append(pipe[j], "killed") # <<>>
    OBVIOUS
  <2>1. pipe[j] \in Seq(Results) /\ "killed" \in Results
    BY DEF CInv, IInv, TypeOK, Results
  <2> QED  BY <2>1
<1>8. CASE kill_job
  <2> DEFINE j == acmd[1].job
  <2>1. /\ NextCommand("kill_job") /\ toCtl' = Append(toCtl, Reply("true"))
        /\ j \in ctx /\ ctx' = ctx
        /\ \/ pipe' = [pipe EXCEPT ![j] = Append(pipe[j], "killed")]
              /\ sigkilled' = sigkilled \union {j}
           \/ UNCHANGED <<pipe, sigkilled>>
    BY <1>8 DEF kill_job
  <2>2. j \in Jobs /\ pipe \in [Jobs -> Seq(Results)]
    BY <2>1 DEF CInv, IInv, TypeOK
  <2> HIDE DEF j
  <2>3. /\ \A k \in Jobs : pipe[k] # <<>> => pipe'[k] # <<>>
        /\ sigkilled \subseteq sigkilled'
        /\ \A k \in sigkilled' \ sigkilled : k \in Jobs /\ k \in ctx /\ pipe'[k] # <<>>
    BY <2>1, <2>2, <1>7
  <2> QED  BY <2>1, <2>3, DeliverAnswer
<1>9. CASE kill_jobs
  <2> DEFINE hit == {j \in ctx : HasGroup(j)}
  <2>1. /\ NextCommand("kill_jobs") /\ toCtl' = Append(toCtl, Reply("true"))
        /\ ctx' = ctx /\ sigkilled' = sigkilled \union hit
        /\ pipe' = [j \in Jobs |-> IF j \in hit THEN Append(pipe[j], "killed") ELSE pipe[j]]
    BY <1>9 DEF kill_jobs
  <2>2. hit \subseteq ctx /\ ctx \subseteq Jobs
    BY DEF CInv, IInv, TypeOK
  <2> HIDE DEF hit
  <2>3. /\ \A k \in Jobs : pipe[k] # <<>> => pipe'[k] # <<>>
        /\ sigkilled \subseteq sigkilled'
        /\ \A k \in sigkilled' \ sigkilled : k \in Jobs /\ k \in ctx /\ pipe'[k] # <<>>
    BY <2>1, <2>2, <1>7
  <2>4. ctx \subseteq ctx' /\ "kill_jobs" # "bye"
    BY <2>1
  <2> QED  BY <2>1, <2>3, <2>4, DeliverAnswer
<1> QED
  BY <1>1, <1>2, <1>3, <1>4, <1>5, <1>6, <1>8, <1>9 DEF AgentNext

-----------------------------------------------------------------------------
(***************************************************************************)
(* The controller                                                          *)
(***************************************************************************)
AgentStill == UNCHANGED <<acmd, abuf, ctx, pipe, forwarded, sigkilled>>

\* A call is made when there is none on its way.
LEMMA DeliverRpc ==
  ASSUME CInv, NEW c \in Rpcs, NEW j, NEW sig, NEW mode, Rpc(c, j, sig, mode),
         cpc \notin {"proc_eof", "error"}, cbatch = <<>>, ~Calling
  PROVE  Delivery'
<1>1. conn = "open" /\ NoneOnItsWay
  BY DEF CInv, Batches, OneCall
<1>2. /\ cop' = [op |-> c, job |-> j, mode |-> mode, timer |-> "off"]
      /\ creply' = "none" /\ cpc' = "recv"
      /\ toAgent' = Append(toAgent, [cmd |-> c, job |-> j, sig |-> sig])
      /\ UNCHANGED <<res, cbatch, conn, toCtl>> /\ AgentStill
  BY <1>1 DEF Rpc, remote, agentVars, AgentStill
<1>3. toAgent = <<>> /\ acmd = <<>> /\ NoReply(toCtl) /\ NoReply(cbatch)
  BY <1>1 DEF NoneOnItsWay
<1>4. Asks(toAgent)'
  <2>1. toAgent' = <<[cmd |-> c, job |-> j, sig |-> sig]>> /\ cop'.op = c
    BY <1>2, <1>3
  <2> QED  BY <2>1 DEF Asks
<1>5. OnItsWay'
  BY <1>2, <1>3, <1>4 DEF OnItsWay, NoReply, AgentStill
<1>6. Calling' /\ OneCall'
  BY <1>2, <1>5 DEF Calling, OneCall
<1>7. NothingLost' /\ Batches' /\ Killed' /\ DoneMeansBye'
  BY <1>1, <1>2 DEF CInv, NothingLost, InTransit, Batches, Killed, DoneMeansBye, AgentStill
<1>8. Collected'
  <2>1. \A x \in sigkilled : Ahead(toCtl, x) /\ Ahead(cbatch, x)
    BY <1>3, StreamQuiet
  <2> QED  BY <2>1, <1>2, <1>3 DEF Collected, AgentStill, Ahead
<1> QED  BY <1>6, <1>7, <1>8 DEF Delivery

\* Only the controller's place in its calls changes.
LEMMA DeliverTurn ==
  ASSUME CInv, UNCHANGED <<res, creply, cbatch, toAgent, toCtl>>, AgentStill,
         \/ cpc' = "error"
         \/ /\ cpc # "error" /\ (Calling' <=> Calling)
            /\ Calling => cop'.op = cop.op
            /\ cop'.op = "bye" => cop.op = "bye",
         Batches', DoneMeansBye'
  PROVE  Delivery'
<1>1. NothingLost' /\ Killed'
  BY DEF CInv, NothingLost, InTransit, Killed, AgentStill
<1>2. OneCall'
  <2>1. CASE cpc' = "error"
    BY <2>1 DEF OneCall
  <2>2. CASE cpc # "error" /\ (Calling' <=> Calling) /\ (Calling => cop'.op = cop.op)
    <3>1. NoneOnItsWay => NoneOnItsWay'
      BY DEF NoneOnItsWay, NoReply, AgentStill
    <3>2. OnItsWay /\ cop'.op = cop.op => OnItsWay'
      BY DEF OnItsWay, Asks, NoReply, OneReply, AgentStill
    <3> QED  BY <2>2, <3>1, <3>2 DEF CInv, OneCall
  <2> QED  BY <2>1, <2>2
<1>3. Collected'
  BY DEF CInv, Collected, Ahead, InTransit, AgentStill
<1> QED  BY <1>1, <1>2, <1>3 DEF Delivery

LEMMA DeliverCall ==
  ASSUME CInv, CtlCall
  PROVE  Delivery'
<1>1. cpc = "idle" /\ cop = NoOp /\ ~Calling /\ cbatch = <<>> /\ conn = "open"
  BY DEF CtlCall, ctl_start, ctl_kill, ctl_wait, ctl_cleanup, ctl_cleanup_skip,
         Calling, CInv, Batches
<1>2. ASSUME NEW c \in Rpcs, NEW j, NEW sig, NEW mode, Rpc(c, j, sig, mode) PROVE Delivery'
  BY <1>1, <1>2, DeliverRpc
<1>3. ASSUME NEW j \in Jobs, NEW timer, ctl_wait(j, timer) PROVE Delivery'
  <2>1. /\ cop'.op = "wait" /\ cpc' = "recv"
        /\ UNCHANGED <<res, creply, cbatch, conn, toAgent, toCtl>> /\ AgentStill
    BY <1>3 DEF ctl_wait, remote, agentVars, AgentStill
  <2>2. ~Calling' /\ Batches' /\ DoneMeansBye'
    BY <2>1, <1>1 DEF Calling, Batches, DoneMeansBye, Rpcs
  <2> QED  BY <2>1, <2>2, <1>1, DeliverTurn
<1>4. ~ctl_cleanup_skip
  BY <1>1 DEF ctl_cleanup_skip
<1>5. {"run_job", "kill_job", "kill_jobs"} \subseteq Rpcs
  BY DEF Rpcs
<1> QED  BY <1>2, <1>3, <1>4, <1>5 DEF CtlCall, ctl_start, ctl_kill, ctl_cleanup

\* the False of a wait
LEMMA DeliverWaitFalse ==
  ASSUME CInv, WaitFalse, cop.op = "wait", cpc \in {"recv", "proc"}, cbatch = <<>>
  PROVE  Delivery'
<1>1. ~Calling /\ conn = "open"
  BY DEF Calling, Rpcs, CInv, Batches
<1>2. CASE Rpc("kill_job", cop.job, "SIGKILL", "fg")
  BY <1>1, <1>2, DeliverRpc DEF Rpcs
<1>3. CASE cpc' = "idle" /\ cop' = NoOp
           /\ UNCHANGED <<res, creply, cbatch, conn, toAgent, toCtl, remote>>
  <2>1. AgentStill /\ cop'.op = "none"
    BY <1>3 DEF remote, agentVars, AgentStill, NoOp
  <2>2. ~Calling' /\ Batches' /\ DoneMeansBye'
    BY <1>1, <1>3 DEF Calling, Batches, DoneMeansBye
  <2> QED  BY <2>1, <2>2, <1>1, <1>3, DeliverTurn
<1> QED  BY <1>2, <1>3 DEF WaitFalse

LEMMA DeliverRecv ==
  ASSUME CInv, ctl_recv
  PROVE  Delivery'
<1>1. /\ cpc = "recv" /\ conn = "open" /\ cbatch' = toCtl /\ toCtl' = <<>>
      /\ cpc' = "proc_eof" \/ (cpc' = "proc" /\ conn' = conn)
      /\ UNCHANGED <<res, cop, creply, toAgent>> /\ AgentStill
  BY DEF ctl_recv, remote, agentVars, AgentStill
<1>2. cbatch = <<>>
  BY <1>1 DEF CInv, Batches
<1>3. sigkilled \subseteq Jobs
  BY DEF CInv, IInv, TypeOK
<1>4. Batches' /\ Killed' /\ DoneMeansBye'
  BY <1>1 DEF CInv, Batches, Killed, DoneMeansBye, AgentStill
<1>5. NothingLost'
  BY <1>1, <1>2, StreamEmpty DEF CInv, NothingLost, InTransit, AgentStill
<1>6. OneCall'
  <2>1. Calling' <=> Calling
    BY <1>1 DEF Calling
  <2>2. NoReply(<<>>) /\ ~OneReply(<<>>)
    BY DEF NoReply, OneReply
  <2>3. /\ NoReply(cbatch)' = NoReply(toCtl) /\ OneReply(cbatch)' = OneReply(toCtl)
        /\ NoReply(toCtl)' /\ Asks(toAgent)' = Asks(toAgent) /\ Asks(acmd)' = Asks(acmd)
    BY <1>1, <2>2 DEF NoReply, OneReply, Asks, AgentStill
  <2>4. (OnItsWay => OnItsWay') /\ (NoneOnItsWay => NoneOnItsWay')
    BY <1>1, <1>2, <2>2, <2>3 DEF OnItsWay, NoneOnItsWay, AgentStill
  <2> QED  BY <1>1, <2>1, <2>4 DEF CInv, OneCall
<1>7. Collected'
  <2>1. SUFFICES ASSUME cop.op = "bye", NEW x \in sigkilled
                 PROVE  /\ acmd # <<>> => forwarded[x] > 0 \/ abuf[x] # <<>>
                        /\ Ahead(<<>>, x)
                        /\ res[x] # "none" \/ Ahead(toCtl, x)
                        /\ creply # "none" => res[x] # "none"
    BY <1>1 DEF Collected, AgentStill, Ahead
  <2>2. ~InTransit(x, cbatch) /\ Ahead(<<>>, x)
    BY <1>2, <1>3, StreamEmpty, StreamQuiet
  <2> QED  BY <2>1, <2>2, <1>1 DEF CInv, Collected
<1> QED  BY <1>4, <1>5, <1>6, <1>7 DEF Delivery

LEMMA DeliverResult ==
  ASSUME CInv, ctl_result
  PROVE  Delivery'
<1>1. /\ cpc \in {"proc", "proc_eof"} /\ cbatch # <<>> /\ IsReply(cbatch[1])
      /\ creply' = IF cop.op = "wait" THEN creply ELSE cbatch[1].val
      /\ cbatch' = Tail(cbatch)
      /\ UNCHANGED <<res, cpc, cop, conn, toAgent, toCtl>> /\ AgentStill
  BY DEF ctl_result, InBatch, IsReply, remote, agentVars, AgentStill
<1>2. cbatch \in Seq(Message) /\ sigkilled \subseteq Jobs
  BY DEF CInv, IInv, TypeOK
<1>3. /\ cbatch[1] \in Message
      /\ ~NoReply(cbatch)
      /\ OneReply(cbatch) => NoReply(cbatch')
      /\ \A x \in Jobs : InTransit(x, cbatch) => ReportsJob(cbatch[1], x) \/ InTransit(x, cbatch')
      /\ \A x \in Jobs : ~Ahead(cbatch, x)
  BY <1>1, <1>2, StreamTail
<1>4. \A x : ~ReportsJob(cbatch[1], x)
  BY <1>1 DEF IsReply, ReportsJob
<1>5. Calling /\ OneReply(cbatch) /\ toAgent = <<>> /\ acmd = <<>> /\ NoReply(toCtl)
  BY <1>1, <1>3 DEF CInv, OneCall, OnItsWay, NoneOnItsWay
<1>6. creply' # "none"
  <2>1. cop.op # "wait"
    BY <1>5 DEF Calling, Rpcs
  <2>2. cbatch[1].val \in {"true", "false"}
    BY <1>1, <1>3, MessageFields DEF IsReply
  <2> QED  BY <2>1, <2>2, <1>1
<1>7. OneCall'
  <2>1. ~Calling'
    BY <1>6 DEF Calling
  <2>2. NoneOnItsWay'
    BY <1>1, <1>3, <1>5 DEF NoneOnItsWay, NoReply, AgentStill
  <2> QED  BY <2>1, <2>2 DEF OneCall
<1>8. NothingLost'
  <2>1. ASSUME NEW x \in Jobs, forwarded[x] > 0
        PROVE  res[x] # "none" \/ InTransit(x, toCtl) \/ InTransit(x, cbatch')
    BY <2>1, <1>3, <1>4 DEF CInv, NothingLost
  <2> QED  BY <2>1, <1>1 DEF NothingLost, InTransit, AgentStill
<1>9. Batches' /\ Killed' /\ DoneMeansBye'
  BY <1>1 DEF CInv, Batches, Killed, DoneMeansBye, AgentStill
<1>10. Collected'
  <2>1. SUFFICES ASSUME cop.op = "bye", NEW x \in sigkilled PROVE res'[x] # "none" /\ acmd' = <<>>
    BY <1>1 DEF Collected, AgentStill
  <2> QED  BY <2>1, <1>1, <1>2, <1>3, <1>5 DEF CInv, Collected, AgentStill
<1> QED  BY <1>7, <1>8, <1>9, <1>10 DEF Delivery

LEMMA DeliverFinished ==
  ASSUME CInv, job_finished, cop'.op = cop.op
  PROVE  Delivery'
<1> DEFINE j == cbatch[1].job
<1>1. /\ cpc \in {"proc", "proc_eof"} /\ cbatch # <<>>
      /\ res' = [res EXCEPT ![j] = cbatch[1].val]
      /\ cbatch' = Tail(cbatch)
      /\ UNCHANGED <<cpc, creply, conn, toAgent, toCtl>> /\ AgentStill
      /\ cbatch[1].type = "job_finished"
  BY DEF job_finished, InBatch, remote, agentVars, AgentStill
<1>2. /\ cbatch \in Seq(Message) /\ sigkilled \subseteq Jobs
      /\ res \in [Jobs -> Results \union {"none"}]
  BY DEF CInv, IInv, TypeOK
<1>3. /\ cbatch[1] \in Message
      /\ ~IsReply(cbatch[1])
      /\ NoReply(cbatch) => NoReply(cbatch')
      /\ OneReply(cbatch) => OneReply(cbatch')
      /\ \A x \in Jobs : InTransit(x, cbatch) => ReportsJob(cbatch[1], x) \/ InTransit(x, cbatch')
      /\ \A x \in Jobs : Ahead(cbatch, x) => ReportsJob(cbatch[1], x) \/ Ahead(cbatch', x)
  BY <1>1, <1>2, StreamTail DEF IsReply
<1>4. cbatch[1].val # "none"
  BY <1>1, <1>3, MessageFields DEF Results
<1>5. \A x \in Jobs : /\ ReportsJob(cbatch[1], x) => res'[x] # "none"
                      /\ res[x] # "none" => res'[x] # "none"
  BY <1>1, <1>2, <1>4 DEF ReportsJob
<1> HIDE DEF j
<1>6. OneCall'
  <2>1. Calling' <=> Calling
    BY <1>1 DEF Calling
  <2>2. OnItsWay => OnItsWay'
    <3>1. /\ Asks(toAgent)' = Asks(toAgent) /\ Asks(acmd)' = Asks(acmd)
          /\ NoReply(toCtl)' = NoReply(toCtl) /\ OneReply(toCtl)' = OneReply(toCtl)
      BY <1>1 DEF Asks, NoReply, OneReply, AgentStill
    <3> QED  BY <3>1, <1>1, <1>3 DEF OnItsWay, AgentStill
  <2>3. NoneOnItsWay => NoneOnItsWay'
    <3>1. NoReply(toCtl)' = NoReply(toCtl)
      BY <1>1 DEF NoReply
    <3> QED  BY <3>1, <1>1, <1>3 DEF NoneOnItsWay, AgentStill
  <2> QED  BY <2>1, <2>2, <2>3, <1>1 DEF CInv, OneCall
<1>7. NothingLost'
  <2>1. ASSUME NEW x \in Jobs, forwarded[x] > 0
        PROVE  res'[x] # "none" \/ InTransit(x, toCtl) \/ InTransit(x, cbatch')
    BY <2>1, <1>3, <1>5 DEF CInv, NothingLost
  <2> QED  BY <2>1, <1>1 DEF NothingLost, InTransit, AgentStill
<1>8. Batches' /\ Killed' /\ DoneMeansBye'
  BY <1>1 DEF CInv, Batches, Killed, DoneMeansBye, AgentStill
<1>9. Collected'
  <2>1. SUFFICES ASSUME cop.op = "bye", cpc # "error", NEW x \in sigkilled
                 PROVE  /\ acmd # <<>> => forwarded[x] > 0 \/ abuf[x] # <<>>
                        /\ \/ res'[x] # "none" \/ InTransit(x, cbatch')
                           \/ Ahead(toCtl, x)
                        /\ res'[x] # "none" \/ Ahead(cbatch', x)
                        /\ creply # "none" => res'[x] # "none"
    BY <1>1 DEF Collected, AgentStill, Ahead
  <2>2. /\ acmd # <<>> => forwarded[x] > 0 \/ abuf[x] # <<>>
        /\ res[x] # "none" \/ InTransit(x, cbatch) \/ Ahead(toCtl, x)
        /\ res[x] # "none" \/ Ahead(cbatch, x)
        /\ creply # "none" => res[x] # "none"
    BY <2>1 DEF CInv, Collected
  <2> QED  BY <2>1, <2>2, <1>2, <1>3, <1>5
<1> QED  BY <1>6, <1>7, <1>8, <1>9 DEF Delivery

LEMMA DeliverStep ==
  ASSUME CInv, CtlStep
  PROVE  Delivery'
<1>1. CASE ctl_recv
  BY <1>1, DeliverRecv
<1>2. CASE ctl_recv_eof \/ ctl_disconnected \/ ctl_again
  <2>1. /\ UNCHANGED <<res, cop, creply, cbatch, toAgent, toCtl>> /\ AgentStill
        /\ \/ cpc = "recv" /\ cpc' = "proc_eof"
           \/ cpc' = "error" /\ cbatch = <<>>
           \/ cpc = "proc" /\ cpc' = "recv" /\ cbatch = <<>> /\ conn' = conn
    BY <1>2 DEF ctl_recv_eof, ctl_disconnected, ctl_again, remote, agentVars, AgentStill
  <2>2. Batches' /\ DoneMeansBye'
    BY <2>1 DEF CInv, Batches, DoneMeansBye
  <2>3. cpc' = "error" \/ (cpc # "error" /\ (Calling' <=> Calling))
    BY <2>1 DEF Calling
  <2> QED  BY <2>1, <2>2, <2>3, DeliverTurn
<1>3. CASE ctl_result
  BY <1>3, DeliverResult
<1>4. CASE ctl_job_finished
  <2>1. job_finished /\ cop'.op = cop.op
    <3>1. cop' = cop \/ cop' = [cop EXCEPT !.timer = "off"]
      BY <1>4 DEF ctl_job_finished
    <3>2. [cop EXCEPT !.timer = "off"].op = cop.op
      BY DEF CInv, IInv, TypeOK
    <3> QED  BY <1>4, <3>1, <3>2 DEF ctl_job_finished
  <2> QED  BY <2>1, DeliverFinished
<1>5. CASE ctl_return \/ ctl_start_wait \/ ctl_wait_true
  <2>1. /\ cpc = "proc" /\ cbatch = <<>> /\ cpc' \in {"idle", "recv"} /\ ~Calling
        /\ UNCHANGED <<res, creply, cbatch, conn, toAgent, toCtl>> /\ AgentStill
    BY <1>5 DEF ctl_return, ctl_start_wait, ctl_wait_true, Answered, Calling, Rpcs,
                remote, agentVars, AgentStill
  <2>2. cop'.op \in {"none", "wait"}
    <3>1. \A timer : [cop EXCEPT !.op = "wait", !.timer = timer].op = "wait"
      BY DEF CInv, IInv, TypeOK
    <3>2. NoOp.op = "none"
      BY DEF NoOp
    <3> QED  BY <1>5, <3>1, <3>2 DEF ctl_return, ctl_start_wait, ctl_wait_true
  <2>3. ~Calling' /\ Batches' /\ DoneMeansBye'
    BY <2>1, <2>2 DEF CInv, Calling, Rpcs, Batches, DoneMeansBye
  <2> QED  BY <2>1, <2>2, <2>3, DeliverTurn
<1>6. CASE ctl_cleanup_bye
  <2>1. /\ cpc = "proc" /\ cbatch = <<>> /\ ~Calling
        /\ Rpc("bye", 0, "SIGKILL", "bg")
    BY <1>6 DEF ctl_cleanup_bye, Answered, Calling
  <2> QED  BY <2>1, DeliverRpc DEF Rpcs
<1>7. CASE ctl_cleanup_done
  <2>1. /\ cpc = "proc" /\ cbatch = <<>> /\ cpc' = "done" /\ cop.op = "bye" /\ creply # "none"
        /\ UNCHANGED <<res, cop, creply, cbatch, conn, toAgent, toCtl>> /\ AgentStill
    BY <1>7 DEF ctl_cleanup_done, Answered, remote, agentVars, AgentStill
  <2>2. ~Calling /\ ~Calling' /\ Batches' /\ DoneMeansBye'
    BY <2>1 DEF CInv, Calling, Batches, DoneMeansBye
  <2> QED  BY <2>1, <2>2, DeliverTurn
<1>8. CASE ctl_wait_false
  BY <1>8, DeliverWaitFalse DEF ctl_wait_false
<1> QED  BY <1>1, <1>2, <1>3, <1>4, <1>5, <1>6, <1>7, <1>8 DEF CtlStep

SelectOnly == AlarmPoints \subseteq {"select"}

LEMMA DeliverAlarm ==
  ASSUME SelectOnly, CInv, CtlAlarm
  PROVE  Delivery'
<1>1. ctl_alarm_select
  BY DEF SelectOnly, CtlAlarm, ctl_alarm_recv, ctl_alarm_process, ctl_alarm_between,
         ctl_alarm_processed
<1>2. cpc = "recv" /\ cop.op = "wait" /\ WaitFalse /\ cbatch = <<>>
  BY <1>1 DEF ctl_alarm_select, CInv, Batches
<1> QED  BY <1>2, DeliverWaitFalse

-----------------------------------------------------------------------------
LEMMA DeliveryInit == Init => Delivery
<1> SUFFICES ASSUME Init PROVE Delivery
  OBVIOUS
<1>1. NothingLost /\ Batches /\ Killed /\ Collected /\ DoneMeansBye
  BY DEF Init, NothingLost, Batches, Killed, Collected, DoneMeansBye, NoOp
<1>2. OneCall
  BY StreamEmpty DEF Init, OneCall, Calling, NoneOnItsWay
<1> QED  BY <1>1, <1>2 DEF Delivery

LEMMA DeliveryStep ==
  ASSUME SelectOnly
  PROVE  CInv /\ [Next]_vars => Delivery'
<1> SUFFICES ASSUME CInv, [Next]_vars PROVE Delivery'
  OBVIOUS
<1>1. ASSUME UNCHANGED vars PROVE Delivery'
  <2>1. Still /\ UNCHANGED <<ctx, pipe>>
    BY <1>1 DEF vars, ctlVars, agentVars, Still
  <2>2. Killed'
    BY <2>1 DEF CInv, Killed, Still
  <2> QED  BY <2>1, <2>2, StillDelivers
<1> QED
  BY <1>1, DeliverProc, DeliverAgent, DeliverCall, DeliverStep, DeliverAlarm DEF Next

LEMMA JobsDelivery ==
  ASSUME SelectOnly
  PROVE  Spec => []CInv
<1>1. CInv /\ [Next]_vars => Delivery'
  BY DeliveryStep
<1>2. CInv <=> IInv /\ Delivery
  BY DEF CInv, Delivery
<1> QED  BY <1>1, <1>2, DeliveryInit, JobsInvariant, PTL DEF Spec

(***************************************************************************)
(* For any number of jobs: while the alarm of a timed wait strikes only    *)
(* where the controller waits in select, a job_finished message the agent  *)
(* has sent is in a stream, in the batch being handled, or has updated the *)
(* Job object.                                                             *)
(***************************************************************************)
THEOREM JobsNothingLost ==
  ASSUME SelectOnly
  PROVE  Spec => []NothingLost
<1>1. CInv => NothingLost
  BY DEF CInv
<1>2. Spec => []CInv
  BY JobsDelivery
<1> QED  BY <1>1, <1>2, PTL

(***************************************************************************)
(* Under the same assumption: when Machine.cleanup has returned, the       *)
(* controller has the result of every job that was killed.                 *)
(***************************************************************************)
THEOREM JobsCollectKilled ==
  ASSUME SelectOnly
  PROVE  Spec => []CleanupCollectsKilled
<1>1. CInv => CleanupCollectsKilled
  BY DEF CInv, Collected, DoneMeansBye, CleanupCollectsKilled
<1>2. Spec => []CInv
  BY JobsDelivery
<1> QED  BY <1>1, <1>2, PTL
=============================================================================

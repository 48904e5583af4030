------------------------ MODULE AgentSessions_proofs ------------------------
(***************************************************************************)
(* For any number of controllers, jobs and calls and with any of the       *)
(* faults: the sessions of an agent stay apart, and the root agent dies    *)
(* only in the two known ways.  The inductive invariant SInv says where    *)
(* the one call of the controller, or its answer, may be; that a job       *)
(* alive is in the table under its own id, with its pipe polled, so that   *)
(* its report comes before any later command, unless machine_cleanup came  *)
(* between its fork and its setpgrp and missed it; and that the hello of a *)
(* session finds no job of an earlier one but those reported before it and *)
(* those that were missed.                                                 *)
(***************************************************************************)
EXTENDS AgentSessions, FiniteSetTheorems, SequenceTheorems, TLAPS

\* what is sent between controller, agents and jobs
RunJob(k) == [type |-> "command", name |-> "run_job", job |-> k]
Commands == {Cmd(name) : name \in {"hello", "prepare_machine", "kill_jobs", "add_namespace", "netns"}}
            \union {RunJob(k) : k \in Jobs}
Message == Commands \union {Result} \union {Finished(k) : k \in Jobs}

\* of the root agent: its state, what it has read and not processed, its table
Root   == state["root"]
Read   == buf["root"]
OfRoot == dict["root"]

IsReport(m) == m.type = "job_finished"
Reported(k) == Finished(k) \in Range(Read)
Alive(k)    == jobs[k].process \in {"forked", "runs", "zombie"}
Begun       == {k \in Jobs : jobs[k].process # "none"}

\* the types, of the bounded counters and of each stream
Typed ==
  /\ ctl \in {"away", "idle", "call"} /\ session \in 0..MaxSessions /\ greeted \in BOOLEAN
  /\ calls \in 0..MaxCalls /\ nextId \in 0..MaxJobs
  /\ mine \in [Ids -> {NoJob} \union Jobs] /\ got \subseteq Jobs
  /\ state \in [Agents -> {"down", "wait", "serve", "dead", "held"}] /\ eof \in BOOLEAN
  /\ dict \in [Agents -> [Ids -> {NoJob} \union Jobs]]
  /\ conns \in [Agents -> [Ids -> {NoJob} \union Jobs]]
  /\ buf \in [Agents -> Seq(Message)]
  /\ jobs \in [Jobs -> [session : 0..MaxSessions, id : 0..MaxJobs,
                        process : {"none", "asked", "forked", "runs", "zombie", "reaped"}]]
  /\ pipe \in [Jobs -> 0..3] /\ missed \subseteq Jobs
  /\ toAgent \in {<<>>} \union {<<c>> : c \in Commands}
  /\ toNetns \in {<<>>, <<Cmd("netns")>>} /\ fromNetns \in {<<>>, <<Result>>}
  /\ toCtl \in Seq(Message) /\ faults \in Faults

\* Of the places where a call of the controller, or its answer, may be, at most
\* one is taken, and none when the controller waits for nothing.
OnlyLast(s) == \A i \in 1..Len(s) : ~IsReport(s[i]) => i = Len(s)
OnlyOne(s)  == \A i, j \in 1..Len(s) : ~IsReport(s[i]) /\ ~IsReport(s[j]) => i = j
Asked(s)    == \E m \in Range(s) : ~IsReport(m)
InNetns     == state["netns"] = "serve" /\ Asked(buf["netns"])

OneCall ==
  /\ OnlyLast(Read) /\ (state["netns"] = "serve" => OnlyLast(buf["netns"])) /\ OnlyOne(toCtl)
  /\ toAgent # <<>> => ~Asked(Read) /\ toNetns = <<>> /\ ~InNetns /\ fromNetns = <<>> /\ ~Asked(toCtl)
  /\ Asked(Read) => toNetns = <<>> /\ ~InNetns /\ fromNetns = <<>> /\ ~Asked(toCtl)
  /\ toNetns # <<>> => ~InNetns /\ fromNetns = <<>> /\ ~Asked(toCtl)
  /\ InNetns => fromNetns = <<>> /\ ~Asked(toCtl)
  /\ fromNetns # <<>> => ~Asked(toCtl)
  /\ ctl = "idle" => /\ toAgent = <<>> /\ ~Asked(Read) /\ toNetns = <<>> /\ ~InNetns
                     /\ fromNetns = <<>> /\ ~Asked(toCtl)

Waiting ==
  /\ Root = "wait" => /\ ctl = "away" /\ ~eof /\ Read = <<>> /\ state["netns"] = "down"
                      /\ toAgent = <<>> /\ toNetns = <<>> /\ fromNetns = <<>>
  /\ eof => ctl = "away" /\ toAgent = <<>>
  /\ Root \notin {"down", "held"} /\ state["netns"] # "wait"

\* The table of the root agent has the jobs that are alive, and polls their
\* pipes; one that machine_cleanup missed may have lost its place there to a job
\* with the same id, and then its pipe is not polled either.
Listed(k) == OfRoot[jobs[k].id] = k

JobsListed ==
  /\ \A k \in Jobs : pipe[k] > 0 => jobs[k].process = "zombie"
  /\ \A k \in Jobs : Reported(k) => pipe[k] = 0 /\ jobs[k].process \in {"zombie", "reaped"}
  /\ Root # "dead" =>
       /\ \A i \in Ids : OfRoot[i] # NoJob =>
            jobs[OfRoot[i]].id = i /\ Alive(OfRoot[i]) /\ conns["root"][i] = OfRoot[i]
       /\ \A i \in Ids : conns["root"][i] # NoJob =>
            OfRoot[i] = conns["root"][i] \/ jobs[conns["root"][i]].process = "reaped"
       /\ \A k \in Jobs : Alive(k) => /\ jobs[k].id \in Ids
                                      /\ k \notin missed \/ Reported(k) => Listed(k)
                                      /\ ~Listed(k) => pipe[k] <= 1
       /\ \A k \in Jobs : Reported(k) /\ jobs[k].process = "reaped" => OfRoot[jobs[k].id] = NoJob

\* Jobs of one session have different ids, below the next one.
Numbered ==
  /\ \A k \in Begun : jobs[k].id \in Ids /\ (jobs[k].session = session => jobs[k].id < nextId)
  /\ \A k, l \in Begun : jobs[k].session = jobs[l].session /\ jobs[k].id = jobs[l].id => k = l
  /\ \A k \in Jobs : jobs[k].session <= session
  /\ nextId <= Cardinality(Begun)

\* A run_job that is on its way is of this session and has not been started.
Started ==
  \A k \in Jobs : toAgent = <<RunJob(k)>> \/ RunJob(k) \in Range(Read)
    => jobs[k].process = "asked" /\ jobs[k].session = session

\* Until its hello has been processed, a controller's agent has no job alive
\* but those whose reports are before the hello, and those that were missed.
HelloPending == toAgent = <<Cmd("hello")>> \/ Cmd("hello") \in Range(Read)

Apart ==
  /\ Root = "wait" \/ (Root # "dead" /\ toAgent = <<Cmd("hello")>>) =>
       /\ state["netns"] = "down"
       /\ \A k \in Jobs : Alive(k) => pipe[k] > 0 \/ k \in missed
  /\ Root # "dead" /\ Cmd("hello") \in Range(Read) =>
       \A k \in Jobs : Alive(k) => Reported(k) \/ k \in missed
  /\ Root = "serve" /\ ~HelloPending =>
       \A k \in Jobs : Alive(k) \/ Reported(k) => jobs[k].session = session \/ k \in missed
  /\ HelloPending => ~greeted

\* The controller hears only of jobs that began.
Sent == \A k \in Jobs : Finished(k) \in Range(toCtl) => k \in Begun

\* What may be in a pipe already while messages, or the end of the session, are
\* still to be processed, so that what comes later stays below the bound of 3.
Writes ==
  \A k \in Jobs : /\ Root = "serve" /\ Read # <<>> => pipe[k] <= 1
                  /\ Root = "serve" /\ eof => pipe[k] <= 2

\* Without the faults that kill it, the agent of the namespace has no jobs.
NoFork ==
  faults \intersect {"fork", "raise"} = {} /\ Root # "dead" =>
    /\ state["netns"] \notin {"dead", "held"} /\ dict["netns"] = NoJobs /\ conns["netns"] = NoJobs
    /\ state["netns"] = "serve" => \A m \in Range(buf["netns"]) : ~IsReport(m)
    /\ toAgent = <<Cmd("add_namespace")>> \/ Cmd("add_namespace") \in Range(Read)
       => OfRoot = NoJobs

\* the inductive invariant
SInv == /\ Typed /\ OneCall /\ Waiting /\ JobsListed /\ Numbered /\ Started
        /\ Apart /\ Sent /\ Writes /\ NoFork /\ OldResultsMeetHello /\ OnlyKnownDeaths

-----------------------------------------------------------------------------
LEMMA RangeIs ==
  ASSUME NEW S, NEW s \in Seq(S)
  PROVE  /\ DOMAIN s = 1..Len(s) /\ Len(s) \in Nat /\ Range(s) = {s[i] : i \in 1..Len(s)}
         /\ Range(s) \subseteq S
BY LenProperties, ElementOfSeq DEF Range

LEMMA EmptyRange == Range(<<>>) = {}
BY DEF Range

LEMMA OneRange ==
  ASSUME NEW m
  PROVE  Range(<<m>>) = {m}
<1>1. <<m>> \in Seq({m}) /\ Len(<<m>>) = 1 /\ <<m>>[1] = m
  OBVIOUS
<1>2. Range(<<m>>) = {<<m>>[i] : i \in 1..1}
  BY <1>1, RangeEquality
<1>3. 1..1 = {1}
  OBVIOUS
<1> QED  BY <1>1, <1>2, <1>3, Zenon

LEMMA After ==
  ASSUME NEW n \in Nat \ {0}, NEW i \in 1 .. n - 1
  PROVE  i + 1 \in 1..n /\ (i + 1 = n => i = n - 1)
OBVIOUS

LEMMA Before ==
  ASSUME NEW n \in Nat \ {0}, NEW i \in 1..n, i # 1
  PROVE  i - 1 \in 1 .. n - 1 /\ (i - 1) + 1 = i
OBVIOUS

LEMMA FirstLast ==
  ASSUME NEW n \in Nat \ {0}
  PROVE  1 \in 1..n /\ (n # 1 => 1 \in 1 .. n - 1)
OBVIOUS

LEMMA TailRange ==
  ASSUME NEW S, NEW s \in Seq(S), s # <<>>
  PROVE  /\ Tail(s) \in Seq(S) /\ Head(s) \in S /\ Range(s) = Range(Tail(s)) \union {Head(s)}
         /\ OnlyLast(s) => OnlyLast(Tail(s))
         /\ OnlyLast(s) /\ ~IsReport(Head(s)) => Tail(s) = <<>>
<1>1. /\ Len(s) \in Nat \ {0} /\ Tail(s) \in Seq(S) /\ Len(Tail(s)) = Len(s) - 1
      /\ Head(s) = s[1] /\ \A i \in 1 .. Len(s) - 1 : Tail(s)[i] = s[i + 1]
  BY EmptySeq, HeadTailProperties
<1>2. Range(s) = {s[i] : i \in 1..Len(s)} /\ Range(Tail(s)) = {Tail(s)[i] : i \in 1 .. Len(s) - 1}
  BY <1>1, RangeIs
<1>3. Head(s) \in S
  BY <1>1, ElementOfSeq
<1>4. Range(s) = Range(Tail(s)) \union {Head(s)}
  <2>1. \A i \in 1..Len(s) : i # 1 => s[i] = Tail(s)[i - 1] /\ i - 1 \in 1 .. Len(s) - 1
    BY ONLY <1>1, Before
  <2>2. \A i \in 1 .. Len(s) - 1 : Tail(s)[i] = s[i + 1] /\ i + 1 \in 1..Len(s)
    BY ONLY <1>1, After
  <2>3. 1 \in 1..Len(s)
    BY ONLY <1>1, FirstLast
  <2>4. \A x \in Range(s) : x \in Range(Tail(s)) \union {Head(s)}
    <3> TAKE x \in Range(s)
    <3>1. PICK i \in 1..Len(s) : x = s[i]
      BY ONLY <1>2, Zenon
    <3>2. CASE i = 1
      BY ONLY <1>1, <3>1, <3>2, Zenon
    <3>3. CASE i # 1
      BY ONLY <1>2, <2>1, <3>1, <3>3, Zenon
    <3> QED  BY ONLY <3>2, <3>3
  <2>5. \A x \in Range(Tail(s)) : x \in Range(s)
    BY ONLY <1>2, <2>2, Zenon
  <2>6. Head(s) \in Range(s)
    BY ONLY <1>1, <1>2, <2>3, Zenon
  <2> QED  BY ONLY <2>4, <2>5, <2>6, Zenon
<1>5. ASSUME OnlyLast(s)
      PROVE  OnlyLast(Tail(s))
  <2>1. \A i \in 1..Len(s) : ~IsReport(s[i]) => i = Len(s)
    BY ONLY <1>5 DEF OnlyLast
  <2>2. \A i \in 1 .. Len(s) - 1 : Tail(s)[i] = s[i + 1] /\ i + 1 \in 1..Len(s)
                                    /\ (i + 1 = Len(s) => i = Len(s) - 1)
    BY ONLY <1>1, After
  <2>3. \A i \in 1 .. Len(s) - 1 : ~IsReport(Tail(s)[i]) => i = Len(s) - 1
    BY ONLY <2>1, <2>2
  <2> QED  BY ONLY <1>1, <2>3 DEF OnlyLast
<1>6. ASSUME OnlyLast(s), ~IsReport(Head(s))
      PROVE  Tail(s) = <<>>
  <2>1. 1 \in 1..Len(s)
    BY ONLY <1>1, FirstLast
  <2>2. Len(s) = 1
    BY ONLY <1>1, <1>6, <2>1 DEF OnlyLast
  <2>3. Len(Tail(s)) = 0
    BY ONLY <1>1, <2>2
  <2>4. Tail(s) # <<>> => Len(Tail(s)) \in Nat \ {0}
    BY ONLY <1>1, EmptySeq, Zenon
  <2> QED  BY ONLY <2>3, <2>4
<1> QED  BY <1>1, <1>3, <1>4, <1>5, <1>6

LEMMA AppendRange ==
  ASSUME NEW S, NEW s \in Seq(S), NEW m \in S
  PROVE  /\ Append(s, m) \in Seq(S) /\ Range(Append(s, m)) = Range(s) \union {m}
         /\ Len(Append(s, m)) = Len(s) + 1 /\ Append(s, m)[Len(s) + 1] = m
         /\ \A i \in 1..Len(s) : Append(s, m)[i] = s[i]
<1>1. /\ Append(s, m) \in Seq(S) /\ Len(Append(s, m)) = Len(s) + 1 /\ Len(s) \in Nat
      /\ \A i \in 1..Len(s) : Append(s, m)[i] = s[i]
      /\ Append(s, m)[Len(s) + 1] = m
  BY AppendProperties, LenProperties
<1>2. /\ Range(s) = {s[i] : i \in 1..Len(s)}
      /\ Range(Append(s, m)) = {Append(s, m)[i] : i \in 1 .. Len(s) + 1}
  BY <1>1, RangeIs
<1>3. \A i \in 1 .. Len(s) + 1 : i \in 1..Len(s) \/ i = Len(s) + 1
  BY <1>1
<1>4. 1..Len(s) \subseteq 1 .. Len(s) + 1 /\ Len(s) + 1 \in 1 .. Len(s) + 1
  BY <1>1
<1>5. Range(Append(s, m)) = Range(s) \union {m}
  BY <1>1, <1>2, <1>3, <1>4
<1> QED  BY <1>1, <1>5

(***************************************************************************)
(* What is read: the messages of the pipes, each as often as it is there,  *)
(* and behind them at most one that is no report.                          *)
(***************************************************************************)
LEMMA PipesRead ==
  ASSUME Typed, NEW a \in Agents, NEW s \in FromPipes(a)
  PROVE  /\ s \in Seq(Message)
         /\ Range(s) = {Finished(k) : k \in {k \in Held(conns[a]) : pipe[k] > 0}}
<1> DEFINE W == InPipes(a)
           n == Cardinality(W)
<1>1. conns[a] \in [Ids -> {NoJob} \union Jobs] /\ pipe \in [Jobs -> 0..3]
  BY DEF Typed
<1>2. \A w \in W : /\ w[1] \in Ids /\ w[2] \in 1..3 /\ w = <<w[1], w[2]>>
                   /\ conns[a][w[1]] \in Held(conns[a]) /\ w[2] \in 1..pipe[conns[a][w[1]]]
  <2> SUFFICES ASSUME NEW i \in Ids, conns[a][i] # NoJob, NEW w \in {i} \X (1..pipe[conns[a][i]])
               PROVE  /\ w[1] \in Ids /\ w[2] \in 1..3 /\ w = <<w[1], w[2]>>
                      /\ conns[a][w[1]] \in Held(conns[a]) /\ w[2] \in 1..pipe[conns[a][w[1]]]
    BY DEF InPipes
  <2>1. conns[a][i] \in Jobs /\ pipe[conns[a][i]] \in 0..3
    BY <1>1
  <2>2. conns[a][i] \in Held(conns[a])
    BY DEF Held
  <2> QED  BY <2>1, <2>2
<1>3. IsFiniteSet(W)
  <2>1. IsFiniteSet(Ids) /\ IsFiniteSet(1..3)
    <3>1. MaxJobs - 1 \in Int
      BY SessionsAssumption
    <3>2. IsFiniteSet(0 .. MaxJobs - 1)
      BY ONLY <3>1, FS_Interval
    <3>3. IsFiniteSet(1..3)
      <4>1. 1 \in Int /\ 3 \in Int
        OBVIOUS
      <4> QED  BY ONLY <4>1, FS_Interval, Zenon
    <3> QED  BY <3>2, <3>3 DEF Ids
  <2>2. IsFiniteSet(Ids \X (1..3))
    BY <2>1, FS_Product
  <2>3. W \subseteq Ids \X (1..3)
    BY <1>2
  <2> QED  BY <2>2, <2>3, FS_Subset
<1>4. n \in Nat
  BY <1>3, FS_CardinalityType
<1>5. PICK f \in [1..n -> W] :
        /\ \A x, y \in DOMAIN f : x < y => \/ f[x][1] < f[y][1]
                                           \/ f[x][1] = f[y][1] /\ f[x][2] < f[y][2]
        /\ s = [x \in DOMAIN f |-> Finished(conns[a][f[x][1]])]
  BY DEF FromPipes
<1>6. \A x, y \in 1..n : f[x] = f[y] => x = y
  <2> SUFFICES ASSUME NEW x \in 1..n, NEW y \in 1..n, f[x] = f[y], x < y
               PROVE  FALSE
    BY <1>4
  <2>1. f[x][1] \in Ids /\ f[x][2] \in 1..3
    BY <1>2
  <2>2. f[x][1] < f[x][1] \/ f[x][2] < f[x][2]
    BY <1>5
  <2> QED  BY <2>1, <2>2, SessionsAssumption DEF Ids
<1>7. \A w \in W : \E x \in 1..n : f[x] = w
  <2>1. IsFiniteSet(1..n) /\ Cardinality(1..n) = n
    BY <1>4, FS_Interval
  <2>2. f \in Injection(1..n, W)
    BY <1>6 DEF Injection, IsInjective
  <2>3. f \in Surjection(1..n, W)
    BY <1>3, <2>1, <2>2, FS_Injection
  <2> QED  BY <2>3 DEF Surjection
<1>8. \A x \in 1..n : /\ s[x] = Finished(conns[a][f[x][1]])
                      /\ conns[a][f[x][1]] \in Held(conns[a]) /\ pipe[conns[a][f[x][1]]] > 0
  <2> TAKE x \in 1..n
  <2>1. f[x] \in W
    BY <1>5
  <2>2. conns[a][f[x][1]] \in Held(conns[a]) /\ f[x][2] \in 1..pipe[conns[a][f[x][1]]]
    BY <1>2, <2>1
  <2>3. conns[a][f[x][1]] \in Jobs
    BY <1>1, <2>2 DEF Held
  <2> QED  BY <1>1, <1>5, <2>2, <2>3
<1>9. s \in Seq(Message) /\ Len(s) = n
  <2>1. \A x \in 1..n : s[x] \in Message
    BY <1>1, <1>8 DEF Message, Held
  <2>2. s \in [1..n -> Message]
    BY <1>5, <2>1
  <2> QED  BY <1>4, <2>2
<1>10. Range(s) = {s[x] : x \in 1..n}
  BY <1>9, RangeIs
<1>11. ASSUME NEW k \in Held(conns[a]), pipe[k] > 0
       PROVE  \E x \in 1..n : s[x] = Finished(k)
  <2>1. PICK i \in Ids : conns[a][i] = k /\ k # NoJob
    BY DEF Held
  <2>2. pipe[k] \in 0..3
    BY <1>1, <2>1
  <2>3. <<i, 1>> \in W
    BY <1>11, <2>1, <2>2 DEF InPipes
  <2>4. PICK x \in 1..n : f[x] = <<i, 1>>
    BY <1>7, <2>3
  <2> QED  BY <1>8, <2>1, <2>4
<1> QED  BY <1>8, <1>9, <1>10, <1>11

(***************************************************************************)
(* The stream to the controller                                            *)
(***************************************************************************)
LEMMA AppendIndex ==
  ASSUME NEW n \in Nat, NEW i \in 1 .. n + 1
  PROVE  i \in 1..n \/ i = n + 1
OBVIOUS

LEMMA AskedAppend ==
  ASSUME NEW s \in Seq(Message), NEW m \in Message, OnlyOne(s), Asked(s) => IsReport(m)
  PROVE  /\ Append(s, m) \in Seq(Message) /\ OnlyOne(Append(s, m))
         /\ Asked(Append(s, m)) <=> Asked(s) \/ ~IsReport(m)
         /\ Range(Append(s, m)) = Range(s) \union {m}
<1>1. /\ Append(s, m) \in Seq(Message) /\ Range(Append(s, m)) = Range(s) \union {m}
      /\ Len(Append(s, m)) = Len(s) + 1 /\ Append(s, m)[Len(s) + 1] = m
      /\ \A i \in 1..Len(s) : Append(s, m)[i] = s[i]
  BY AppendRange
<1>2. Len(s) \in Nat /\ \A i \in 1..Len(s) : s[i] \in Range(s)
  BY RangeIs
<1>3. Asked(Append(s, m)) <=> Asked(s) \/ ~IsReport(m)
  BY ONLY <1>1, Zenon DEF Asked
<1>4. ASSUME NEW i \in 1 .. Len(s) + 1, NEW j \in 1 .. Len(s) + 1,
             ~IsReport(Append(s, m)[i]), ~IsReport(Append(s, m)[j])
      PROVE  i = j
  <2>1. i \in 1..Len(s) \/ i = Len(s) + 1
    BY ONLY <1>2, AppendIndex
  <2>2. j \in 1..Len(s) \/ j = Len(s) + 1
    BY ONLY <1>2, AppendIndex
  <2>3. CASE IsReport(m)
    <3>1. i \in 1..Len(s) /\ j \in 1..Len(s) /\ ~IsReport(s[i]) /\ ~IsReport(s[j])
      BY ONLY <1>1, <1>4, <2>1, <2>2, <2>3, Zenon
    <3> QED  BY <3>1 DEF OnlyOne
  <2>4. CASE ~IsReport(m)
    <3>1. ~Asked(s)
      BY <2>4
    <3>2. \A l \in 1..Len(s) : IsReport(Append(s, m)[l])
      BY ONLY <1>1, <1>2, <3>1, Zenon DEF Asked
    <3> QED  BY ONLY <1>4, <2>1, <2>2, <3>2, Zenon
  <2> QED  BY <2>3, <2>4
<1>5. OnlyOne(Append(s, m))
  BY ONLY <1>1, <1>4 DEF OnlyOne
<1> QED  BY <1>1, <1>3, <1>5

LEMMA AskedTail ==
  ASSUME NEW s \in Seq(Message), s # <<>>, OnlyOne(s)
  PROVE  /\ Tail(s) \in Seq(Message) /\ Head(s) \in Message /\ OnlyOne(Tail(s))
         /\ Head(s) = s[1] /\ Len(s) \in Nat \ {0} /\ Len(Tail(s)) = Len(s) - 1
         /\ \A i \in 1 .. Len(s) - 1 : Tail(s)[i] = s[i + 1] /\ i + 1 \in 1..Len(s)
         /\ Asked(s) <=> Asked(Tail(s)) \/ ~IsReport(Head(s))
         /\ ~IsReport(Head(s)) => ~Asked(Tail(s))
         /\ Range(s) = Range(Tail(s)) \union {Head(s)}
<1>1. /\ Tail(s) \in Seq(Message) /\ Head(s) \in Message
      /\ Range(s) = Range(Tail(s)) \union {Head(s)}
  BY TailRange
<1>2. Len(s) \in Nat \ {0} /\ Head(s) = s[1] /\ Len(Tail(s)) = Len(s) - 1
      /\ \A i \in 1 .. Len(s) - 1 : Tail(s)[i] = s[i + 1]
  BY EmptySeq, HeadTailProperties
<1>3. \A i \in 1 .. Len(s) - 1 : i + 1 \in 1..Len(s)
  BY ONLY <1>2, After
<1>4. Asked(s) <=> Asked(Tail(s)) \/ ~IsReport(Head(s))
  BY ONLY <1>1, Zenon DEF Asked
<1>5. ASSUME NEW i \in 1 .. Len(s) - 1, NEW j \in 1 .. Len(s) - 1,
             ~IsReport(Tail(s)[i]), ~IsReport(Tail(s)[j])
      PROVE  i = j
  <2>1. i + 1 \in 1..Len(s) /\ j + 1 \in 1..Len(s) /\ ~IsReport(s[i + 1]) /\ ~IsReport(s[j + 1])
    BY ONLY <1>2, <1>3, <1>5, Zenon
  <2>2. i + 1 = j + 1
    BY <2>1 DEF OnlyOne
  <2>3. i \in Int /\ j \in Int
    OBVIOUS
  <2> QED  BY ONLY <2>2, <2>3
<1>6. ASSUME ~IsReport(Head(s)), Asked(Tail(s))
      PROVE  FALSE
  <2>0. Range(Tail(s)) = {Tail(s)[i] : i \in 1..Len(Tail(s))}
    BY ONLY <1>1, RangeIs, Zenon
  <2>1. PICK i \in 1 .. Len(s) - 1 : ~IsReport(Tail(s)[i])
    BY ONLY <1>2, <1>6, <2>0, Zenon DEF Asked
  <2>2. i + 1 \in 1..Len(s) /\ ~IsReport(s[i + 1]) /\ 1 \in 1..Len(s) /\ ~IsReport(s[1])
    BY <1>2, <1>3, <1>6, <2>1, FirstLast
  <2>3. i + 1 = 1
    BY ONLY <2>2, OnlyOne(s) DEF OnlyOne
  <2> QED  BY ONLY <2>1, <2>3
<1>7. OnlyOne(Tail(s))
  BY ONLY <1>2, <1>5 DEF OnlyOne
<1> QED  BY <1>1, <1>2, <1>3, <1>4, <1>6, <1>7

-----------------------------------------------------------------------------
(* What steps of several kinds have in common *)

LEMMA MessageIs ==
  /\ \A x \in Message : IsReport(x) => x.job \in Jobs /\ x = Finished(x.job)
  /\ \A x \in Message : x.type = "result" => x = Result
  /\ \A x \in Message : x.type = "command" => x \in Commands
  /\ \A x \in Commands : x.type = "command" /\ (x.name = "run_job" => x.job \in Jobs /\ x = RunJob(x.job))
  /\ \A x \in Commands : x.name # "run_job" => x = Cmd(x.name)
  /\ \A k \in Jobs : Finished(k) \in Message /\ IsReport(Finished(k)) /\ RunJob(k) \in Commands
  /\ Result \in Message /\ ~IsReport(Result) /\ Commands \subseteq Message
  /\ \A name \in {"hello", "prepare_machine", "kill_jobs", "add_namespace", "netns"} : Cmd(name) \in Commands
<1>1. \A x \in Commands : \/ \E name \in {"hello", "prepare_machine", "kill_jobs", "add_namespace", "netns"} : x = Cmd(name)
                           \/ \E k \in Jobs : x = RunJob(k)
  BY DEF Commands
<1>2. \A x \in Message : x \in Commands \/ x = Result \/ \E k \in Jobs : x = Finished(k)
  BY DEF Message
<1>3. \A x \in Commands : x.type = "command" /\ (x.name = "run_job" => x.job \in Jobs /\ x = RunJob(x.job))
  BY <1>1 DEF Cmd, RunJob
<1>4. \A x \in Commands : x.name # "run_job" => x = Cmd(x.name)
  BY <1>1 DEF Cmd, RunJob
<1>5. \A k \in Jobs : Finished(k) \in Message /\ IsReport(Finished(k)) /\ RunJob(k) \in Commands
  <2> TAKE k \in Jobs
  <2>1. Finished(k) \in Message
    BY Zenon DEF Message
  <2>2. RunJob(k) \in Commands
    BY Zenon DEF Commands
  <2>3. IsReport(Finished(k))
    BY DEF Finished, IsReport
  <2> QED  BY ONLY <2>1, <2>2, <2>3
<1>6. Result \in Message /\ ~IsReport(Result) /\ Commands \subseteq Message
  <2>1. Result \in Message /\ Commands \subseteq Message
    BY Zenon DEF Message
  <2>2. ~IsReport(Result)
    BY DEF Result, IsReport
  <2> QED  BY ONLY <2>1, <2>2
<1>7. \A name \in {"hello", "prepare_machine", "kill_jobs", "add_namespace", "netns"} : Cmd(name) \in Commands
  BY Zenon DEF Commands
<1>8. /\ Result.type = "result"
      /\ \A k \in Jobs : Finished(k).type = "job_finished" /\ Finished(k).job = k
  BY DEF Finished, Result
<1> DEFINE Is(x) == /\ IsReport(x) => x.job \in Jobs /\ x = Finished(x.job)
                    /\ x.type = "result" => x = Result
                    /\ x.type = "command" => x \in Commands
<1>9. \A x \in Message : Is(x)
  <2>1. \A x \in Commands : Is(x)
    BY <1>3 DEF IsReport
  <2>2. Is(Result)
    BY ONLY <1>8 DEF IsReport
  <2>3. \A k \in Jobs : Is(Finished(k))
    BY ONLY <1>8 DEF IsReport
  <2> HIDE DEF Is
  <2> QED  BY ONLY <1>2, <2>1, <2>2, <2>3, Zenon
<1> QED  BY ONLY <1>3, <1>4, <1>5, <1>6, <1>7, <1>9, Zenon

LEMMA CtlGets ==
  ASSUME Typed, OnlyOne(toCtl), NEW m \in Message, Asked(toCtl) => IsReport(m), ToCtl(m)
  PROVE  /\ toCtl' \in Seq(Message) /\ OnlyOne(toCtl')
         /\ Asked(toCtl') => Asked(toCtl) \/ ~IsReport(m)
         /\ Range(toCtl') \subseteq Range(toCtl) \union {m}
<1>1. toCtl \in Seq(Message)
  BY DEF Typed
<1>2. toCtl' = toCtl \/ toCtl' = Append(toCtl, m)
  BY DEF ToCtl
<1> QED  BY <1>1, <1>2, AskedAppend

LEMMA OldKept ==
  ASSUME OldResultsMeetHello, toCtl' = toCtl, ctl' = ctl \/ ctl' = "away",
         session' = session, greeted' = greeted, missed \subseteq missed',
         \A i \in DOMAIN toCtl : toCtl[i].type = "job_finished" /\ jobs[toCtl[i].job].session = session
           => jobs'[toCtl[i].job].session = session
  PROVE  OldResultsMeetHello'
BY DEF OldResultsMeetHello

LEMMA OldGets ==
  ASSUME Typed, OldResultsMeetHello, NEW m \in Message, ToCtl(m), ctl' = ctl,
         session' = session, greeted' = greeted, missed \subseteq missed',
         \A k \in Jobs : jobs'[k].session = jobs[k].session,
         IsReport(m) /\ jobs[m.job].session # session /\ m.job \notin missed => ~greeted /\ ~Asked(toCtl)
  PROVE  OldResultsMeetHello'
<1>1. CASE toCtl' = toCtl
  <2>1. \A i \in DOMAIN toCtl : toCtl[i] \in Message
    BY RangeIs DEF Typed, Range
  <2>2. \A i \in DOMAIN toCtl : toCtl[i].type = "job_finished" => toCtl[i].job \in Jobs
    BY <2>1, MessageIs DEF IsReport
  <2> QED  BY <1>1, <2>2, OldKept
<1>2. CASE toCtl' = Append(toCtl, m)
  <2>1. /\ Len(toCtl) \in Nat /\ DOMAIN toCtl = 1..Len(toCtl) /\ DOMAIN toCtl' = 1 .. Len(toCtl) + 1
        /\ toCtl'[Len(toCtl) + 1] = m /\ \A i \in 1..Len(toCtl) : toCtl'[i] = toCtl[i]
    <3>1. toCtl \in Seq(Message)
      BY DEF Typed
    <3> QED  BY <1>2, <3>1, AppendRange, RangeIs
  <2>2. \A i \in 1..Len(toCtl) : toCtl[i] \in Message
    BY ElementOfSeq DEF Typed
  <2>3. \A x \in Message : IsReport(x) => x.job \in Jobs
    BY MessageIs
  <2>4. ASSUME NEW i \in DOMAIN toCtl', ctl' # "away", toCtl'[i].type = "job_finished",
               jobs'[toCtl'[i].job].session # session', toCtl'[i].job \notin missed'
        PROVE  ~greeted' /\ \A j \in 1..i : toCtl'[j].type = "job_finished"
    <3>1. CASE i \in 1..Len(toCtl)
      <4>1. ctl # "away" /\ toCtl[i].type = "job_finished" /\ jobs[toCtl[i].job].session # session
            /\ toCtl[i].job \notin missed
        BY <2>1, <2>2, <2>3, <2>4, <3>1 DEF IsReport
      <4>2. ~greeted /\ \A j \in 1..i : toCtl[j].type = "job_finished"
        BY <2>1, <3>1, <4>1 DEF OldResultsMeetHello
      <4>3. \A j \in 1..i : j \in 1..Len(toCtl)
        BY <2>1, <3>1
      <4> QED  BY <2>1, <4>2, <4>3
    <3>2. CASE i = Len(toCtl) + 1
      <4>1. IsReport(m) /\ jobs[m.job].session # session /\ m.job \notin missed
        BY <2>1, <2>3, <2>4, <3>2 DEF IsReport
      <4>2. ~greeted /\ ~Asked(toCtl)
        BY <4>1
      <4>3. \A j \in 1..Len(toCtl) : IsReport(toCtl[j])
        BY <2>1, <4>2, RangeIs DEF Asked, Typed
      <4>4. \A j \in 1..i : j \in 1..Len(toCtl) \/ j = Len(toCtl) + 1
        BY <2>1, <3>2
      <4> QED  BY <2>1, <4>1, <4>2, <4>3, <4>4 DEF IsReport
    <3> QED  BY <2>1, <2>4, <3>1, <3>2, AppendIndex
  <2> QED  BY <2>4 DEF OldResultsMeetHello
<1> QED  BY <1>1, <1>2 DEF ToCtl

LEMMA NumberedKept ==
  ASSUME Numbered, session' = session, nextId' = nextId,
         \A k \in Jobs : /\ jobs'[k].session = jobs[k].session /\ jobs'[k].id = jobs[k].id
                         /\ jobs'[k].process = "none" <=> jobs[k].process = "none"
  PROVE  Numbered'
<1>1. Begun' = Begun
  BY DEF Begun
<1>2. \A k \in Begun : k \in Jobs
  BY DEF Begun
<1> QED  BY <1>1, <1>2 DEF Numbered

\* the root agent processes a message that is no report: it is the last it has read
LEMMA LastPopped ==
  ASSUME Typed, OneCall, NEW t, t # "job_finished", Next1("root", t)
  PROVE  /\ Tail(Read) = <<>> /\ Head(Read) \in Message /\ Range(Read) = {Head(Read)}
         /\ Asked(Read) /\ ~IsReport(Head(Read)) /\ ctl # "idle" /\ Root = "serve" /\ Read # <<>>
         /\ toAgent = <<>> /\ toNetns = <<>> /\ ~InNetns /\ fromNetns = <<>> /\ ~Asked(toCtl)
<1>1. /\ Read \in Seq(Message) /\ Read # <<>> /\ OnlyLast(Read) /\ ~IsReport(Head(Read))
      /\ Root = "serve"
  BY DEF Typed, OneCall, Next1, Read, Root, Agents, IsReport
<1>2. /\ Head(Read) \in Message /\ Tail(Read) = <<>>
      /\ Range(Read) = Range(Tail(Read)) \union {Head(Read)}
  BY <1>1, TailRange
<1>3. Range(Read) = {Head(Read)}
  BY <1>2, EmptyRange
<1>4. Asked(Read)
  BY <1>1, <1>3 DEF Asked
<1> QED  BY <1>1, <1>2, <1>3, <1>4 DEF OneCall

LEMMA SentKept ==
  ASSUME Sent, Range(toCtl') \subseteq Range(toCtl) \union {Result},
         \A k \in Jobs : jobs[k].process # "none" => jobs'[k].process # "none"
  PROVE  Sent'
<1>1. \A k \in Jobs : Finished(k) # Result
  BY DEF Finished, Result
<1> QED  BY <1>1 DEF Sent, Begun

LEMMA BegunFinite ==
  ASSUME Typed
  PROVE  IsFiniteSet(Begun) /\ Cardinality(Begun) \in Nat
<1>1. IsFiniteSet(Jobs)
  <2>1. 1 \in Int /\ MaxJobs \in Int
    BY SessionsAssumption
  <2> QED  BY <2>1, FS_Interval, Zenon DEF Jobs
<1>2. Begun \subseteq Jobs
  BY DEF Begun
<1>3. IsFiniteSet(Begun)
  BY <1>1, <1>2, FS_Subset
<1> QED  BY <1>3, FS_CardinalityType

LEMMA EmptyFacts ==
  Range(<<>>) = {} /\ ~Asked(<<>>) /\ OnlyLast(<<>>) /\ OnlyOne(<<>>) /\ <<>> \in Seq(Message)
<1>1. <<>> \in Seq(Message) /\ Len(<<>>) = 0
  BY EmptySeq
<1>2. 1..0 = {}
  OBVIOUS
<1> QED  BY <1>1, <1>2, EmptyRange DEF Asked, OnlyLast, OnlyOne

\* ... and answers it, or lets it go
LEMMA OneCallAnswered ==
  ASSUME Typed, OneCall, NEW t, t # "job_finished", Next1("root", t),
         Read' = <<>>, toAgent' = <<>>, toNetns' = <<>>, fromNetns' = <<>>, ctl' = ctl,
         NEW m \in Message, ToCtl(m), ~InNetns',
         state'["netns"] = "serve" => OnlyLast(buf'["netns"])
  PROVE  OneCall'
<1>1. ctl # "idle" /\ ~Asked(toCtl) /\ OnlyOne(toCtl)
  BY LastPopped DEF OneCall
<1>2. OnlyOne(toCtl')
  BY <1>1, CtlGets
<1>3. ~Asked(Read') /\ OnlyLast(Read')
  BY EmptyFacts
<1> QED  BY <1>1, <1>2, <1>3 DEF OneCall

LEMMA JobIsNotNoJob == \A k \in Jobs : k # NoJob
BY DEF Jobs, NoJob

LEMMA PipeType ==
  ASSUME Typed
  PROVE  \A k \in Jobs : pipe[k] \in 0..3
BY DEF Typed

-----------------------------------------------------------------------------
(* The steps: sessions and the controller *)

LEMMA AcceptStep ==
  ASSUME SInv, accept_connection
  PROVE  SInv'
<1>1. /\ Typed /\ Waiting /\ JobsListed /\ Numbered /\ Apart /\ NoFork
  BY DEF SInv
<1>2. /\ Root = "wait" /\ session < MaxSessions /\ Root' = "serve"
      /\ state'["netns"] = state["netns"] /\ state' \in [Agents -> {"down", "wait", "serve", "dead", "held"}]
      /\ ctl' = "call" /\ session' = session + 1 /\ greeted' = FALSE
      /\ nextId' = 0 /\ calls' = 0 /\ mine' = NoJobs /\ got' = {}
      /\ toAgent' = <<Cmd("hello")>> /\ toCtl' = <<>>
      /\ dict' = dict /\ conns' = conns /\ buf' = buf /\ eof' = eof /\ jobs' = jobs /\ pipe' = pipe /\ missed' = missed
      /\ toNetns' = toNetns /\ fromNetns' = fromNetns /\ faults' = faults
  BY <1>1 DEF accept_connection, Typed, Root, Agents, jobVars
<1>3. /\ ctl = "away" /\ ~eof /\ Read = <<>> /\ state["netns"] = "down"
      /\ toAgent = <<>> /\ toNetns = <<>> /\ fromNetns = <<>>
  BY <1>1, <1>2 DEF Waiting
<1>4. Range(Read') = {} /\ ~Asked(Read') /\ OnlyLast(Read') /\ Read' = <<>> /\ ~InNetns'
  BY <1>2, <1>3, EmptyFacts DEF Read, InNetns
<1>5. /\ Cmd("hello") # RunJob(0) /\ \A k \in Jobs : Cmd("hello") # RunJob(k)
      /\ Cmd("hello") # Cmd("add_namespace")
  BY DEF Cmd, RunJob
<1>6. Typed'
  <2>1. NoJobs \in [Ids -> {NoJob} \union Jobs] /\ Cmd("hello") \in Commands
    BY MessageIs DEF NoJobs
  <2>2. session + 1 \in 0..MaxSessions /\ 0 \in 0..MaxCalls /\ 0 \in 0..MaxJobs
    BY <1>1, <1>2, SessionsAssumption DEF Typed
  <2> QED  BY <1>1, <1>2, <2>1, <2>2, EmptyFacts DEF Typed
<1>7. OneCall'
  <2>1. OnlyOne(toCtl') /\ ~Asked(toCtl')
    BY <1>2, EmptyFacts
  <2> QED  BY <1>2, <1>3, <1>4, <2>1 DEF OneCall
<1>8. Waiting'
  BY <1>2, <1>3 DEF Waiting
<1>9. JobsListed'
  BY <1>1, <1>2 DEF JobsListed, Listed, Reported, Alive, Read, OfRoot, Root
<1>10. Numbered'
  <2>1. Begun' = Begun /\ \A k \in Begun : k \in Jobs
    BY <1>2 DEF Begun
  <2>2. \A k \in Jobs : jobs[k].session <= session + 1 /\ jobs[k].session # session + 1
    BY <1>1 DEF Numbered, Typed
  <2>3. Cardinality(Begun) \in Nat
    BY <1>1, BegunFinite
  <2> QED  BY <1>1, <1>2, <2>1, <2>2, <2>3 DEF Numbered
<1>11. Started'
  BY <1>2, <1>4, <1>5 DEF Started
<1>12. Apart'
  BY <1>1, <1>2, <1>3, <1>4 DEF Apart, HelloPending, Alive
<1>13. Writes'
  BY <1>2, <1>3, <1>4 DEF Writes
<1>14. NoFork'
  BY <1>1, <1>2, <1>3, <1>4, <1>5 DEF NoFork
<1>15. OldResultsMeetHello' /\ OnlyKnownDeaths' /\ Sent'
  <2>1. DOMAIN toCtl' = {} /\ Range(toCtl') = {}
    BY <1>2, EmptyFacts
  <2> QED  BY <1>2, <2>1 DEF OldResultsMeetHello, OnlyKnownDeaths, Root, Sent
<1> QED  BY <1>6, <1>7, <1>8, <1>9, <1>10, <1>11, <1>12, <1>13, <1>14, <1>15 DEF SInv

LEMMA LeavesStep ==
  ASSUME SInv, ctl_leaves \/ ctl_disconnected
  PROVE  SInv'
<1>1. /\ ctl # "away" /\ ctl' = "away"
      /\ UNCHANGED <<session, greeted, nextId, calls, mine, got, agentVars, jobVars, streamVars, faults>>
  BY DEF ctl_leaves, ctl_disconnected
<1>2. /\ session' = session /\ greeted' = greeted /\ nextId' = nextId /\ calls' = calls
      /\ mine' = mine /\ got' = got /\ state' = state /\ dict' = dict /\ conns' = conns
      /\ buf' = buf /\ eof' = eof /\ jobs' = jobs /\ pipe' = pipe /\ missed' = missed
      /\ toAgent' = toAgent /\ toNetns' = toNetns /\ fromNetns' = fromNetns /\ toCtl' = toCtl
      /\ faults' = faults
  BY <1>1 DEF agentVars, jobVars, streamVars
<1>3. Typed'
  BY <1>1, <1>2 DEF SInv, Typed
<1>4. OneCall' /\ Waiting'
  BY <1>1, <1>2 DEF SInv, OneCall, Waiting, InNetns, Read, Root
<1>5. JobsListed' /\ Numbered' /\ Started' /\ Writes'
  BY <1>2 DEF SInv, JobsListed, Listed, Numbered, Started, Writes, Reported, Alive, Begun, Read, Root, OfRoot
<1>6. Apart' /\ NoFork'
  BY <1>2 DEF SInv, Apart, NoFork, HelloPending, Reported, Alive, Read, Root, OfRoot
<1>7. OldResultsMeetHello' /\ OnlyKnownDeaths' /\ Sent'
  BY <1>1, <1>2 DEF SInv, OldResultsMeetHello, OnlyKnownDeaths, Sent, Begun
<1> QED  BY <1>3, <1>4, <1>5, <1>6, <1>7 DEF SInv

LEMMA CtlRecvStep ==
  ASSUME SInv, ctl_recv
  PROVE  SInv'
<1>1. /\ Typed /\ OneCall /\ Waiting /\ Numbered /\ Apart /\ Sent /\ OldResultsMeetHello
  BY DEF SInv
<1>2. /\ ctl # "away" /\ toCtl # <<>> /\ toCtl' = Tail(toCtl)
      /\ session' = session /\ nextId' = nextId /\ calls' = calls
      /\ mine' = mine /\ state' = state /\ dict' = dict /\ conns' = conns
      /\ buf' = buf /\ eof' = eof /\ jobs' = jobs /\ pipe' = pipe /\ missed' = missed
      /\ toAgent' = toAgent /\ toNetns' = toNetns /\ fromNetns' = fromNetns /\ faults' = faults
  BY DEF ctl_recv, agentVars, jobVars
<1>3. \/ /\ Head(toCtl).type = "result" /\ ctl' = "idle" /\ greeted' = TRUE /\ got' = got
      \/ /\ Head(toCtl).type = "job_finished" /\ greeted' = greeted /\ ctl' \in {"away", ctl}
         /\ got' = got \union ({mine[jobs[Head(toCtl).job].id]} \ {NoJob})
  BY DEF ctl_recv
<1>4. /\ toCtl' \in Seq(Message) /\ Head(toCtl) \in Message /\ OnlyOne(toCtl')
      /\ Head(toCtl) = toCtl[1] /\ Len(toCtl) \in Nat \ {0} /\ Len(toCtl') = Len(toCtl) - 1
      /\ \A i \in 1 .. Len(toCtl) - 1 : toCtl'[i] = toCtl[i + 1] /\ i + 1 \in 1..Len(toCtl)
      /\ Asked(toCtl) <=> Asked(toCtl') \/ ~IsReport(Head(toCtl))
      /\ ~IsReport(Head(toCtl)) => ~Asked(toCtl')
      /\ Range(toCtl) = Range(toCtl') \union {Head(toCtl)}
  <2>1. toCtl \in Seq(Message) /\ OnlyOne(toCtl)
    BY <1>1 DEF Typed, OneCall
  <2> QED  BY ONLY <1>2, <2>1, AskedTail
<1>5. ASSUME Head(toCtl).type = "result"
      PROVE  /\ toAgent = <<>> /\ ~Asked(Read) /\ toNetns = <<>> /\ ~InNetns /\ fromNetns = <<>>
             /\ ~Asked(toCtl') /\ ~HelloPending
  <2>1. ~IsReport(Head(toCtl))
    BY <1>5 DEF IsReport
  <2>2. /\ toAgent = <<>> /\ ~Asked(Read) /\ toNetns = <<>> /\ ~InNetns /\ fromNetns = <<>>
        /\ ~Asked(toCtl')
    BY <1>1, <1>4, <2>1 DEF OneCall
  <2>3. ~IsReport(Cmd("hello")) /\ <<>> # <<Cmd("hello")>>
    BY DEF Cmd, IsReport
  <2> QED  BY <2>2, <2>3 DEF HelloPending, Asked
<1>6. Typed'
  <2>1. got' \subseteq Jobs
    <3>1. ASSUME Head(toCtl).type = "job_finished"
          PROVE  mine[jobs[Head(toCtl).job].id] \in {NoJob} \union Jobs
      <4>1. Head(toCtl).job \in Begun
        BY <1>1, <1>4, <3>1, MessageIs DEF IsReport, Sent
      <4>2. jobs[Head(toCtl).job].id \in Ids
        BY <1>1, <4>1 DEF Numbered
      <4> QED  BY <1>1, <4>2 DEF Typed
    <3> QED  BY <1>1, <1>3, <3>1 DEF Typed
  <2>2. ctl' \in {"away", "idle", "call"} /\ greeted' \in BOOLEAN
    BY <1>1, <1>3 DEF Typed
  <2> QED  BY <1>1, <1>2, <1>4, <2>1, <2>2 DEF Typed
<1>7. OneCall'
  <2>1. CASE Head(toCtl).type = "result"
    BY <1>1, <1>2, <1>4, <1>5, <2>1 DEF OneCall, InNetns, Read
  <2>2. CASE Head(toCtl).type # "result"
    BY <1>1, <1>2, <1>3, <1>4, <2>2 DEF OneCall, InNetns, Read
  <2> QED  BY <2>1, <2>2
<1>8. Waiting'
  BY <1>1, <1>2 DEF Waiting, Root, Read
<1>9. JobsListed' /\ Numbered' /\ Started' /\ Writes'
  BY <1>2 DEF SInv, JobsListed, Listed, Numbered, Started, Writes, Reported, Alive, Begun, Read, Root, OfRoot
<1>10. Apart'
  BY <1>1, <1>2, <1>3, <1>5 DEF Apart, HelloPending, Reported, Alive, Read, Root
<1>11. NoFork' /\ OnlyKnownDeaths' /\ Sent'
  BY <1>2, <1>4 DEF SInv, NoFork, OnlyKnownDeaths, Sent, Begun, Read, Root, OfRoot
<1>12. OldResultsMeetHello'
  <2> SUFFICES ASSUME NEW i \in 1 .. Len(toCtl) - 1, ctl' # "away", toCtl'[i].type = "job_finished",
                      jobs[toCtl'[i].job].session # session, toCtl'[i].job \notin missed
               PROVE  ~greeted' /\ \A j \in 1..i : toCtl'[j].type = "job_finished"
    BY <1>2, <1>4, RangeIs DEF OldResultsMeetHello
  <2>1. i + 1 \in DOMAIN toCtl /\ toCtl'[i] = toCtl[i + 1]
    BY <1>1, <1>4, RangeIs DEF Typed
  <2>2. ~greeted /\ \A j \in 1 .. i + 1 : toCtl[j].type = "job_finished"
    BY <1>1, <1>2, <2>1 DEF OldResultsMeetHello
  <2>3. 1 \in 1 .. i + 1 /\ \A j \in 1..i : j \in 1 .. Len(toCtl) - 1 /\ j + 1 \in 1 .. i + 1
    BY <1>4
  <2>4. Head(toCtl).type = "job_finished"
    BY <1>4, <2>2, <2>3
  <2>5. ~greeted'
    BY <1>3, <2>2, <2>4
  <2>6. ASSUME NEW j \in 1..i
        PROVE  toCtl'[j].type = "job_finished"
    <3>1. toCtl'[j] = toCtl[j + 1] /\ j + 1 \in 1 .. i + 1
      BY <1>4, <2>3
    <3> QED  BY <2>2, <3>1
  <2> QED  BY <2>5, <2>6
<1> QED  BY <1>6, <1>7, <1>8, <1>9, <1>10, <1>11, <1>12 DEF SInv

\* the controller waits for nothing
LEMMA IdleFacts ==
  ASSUME SInv, ctl = "idle"
  PROVE  /\ toAgent = <<>> /\ ~Asked(Read) /\ toNetns = <<>> /\ ~InNetns /\ fromNetns = <<>>
         /\ ~Asked(toCtl) /\ ~eof /\ Root # "wait" /\ ~HelloPending
         /\ \A c \in Commands : c \notin Range(Read)
<1>1. /\ toAgent = <<>> /\ ~Asked(Read) /\ toNetns = <<>> /\ ~InNetns /\ fromNetns = <<>>
      /\ ~Asked(toCtl) /\ ~eof /\ Root # "wait"
  BY DEF SInv, OneCall, Waiting
<1>2. \A c \in Commands : c \notin Range(Read)
  BY <1>1, MessageIs DEF Asked, IsReport
<1>3. Cmd("hello") \in Commands /\ <<>> # <<Cmd("hello")>>
  BY MessageIs
<1> QED  BY <1>1, <1>2, <1>3 DEF HelloPending

LEMMA RunJobStep ==
  ASSUME SInv, run_job
  PROVE  SInv'
<1> DEFINE new == CHOOSE k \in Jobs : jobs[k].process = "none"
<1>1. /\ Typed /\ OneCall /\ Waiting /\ JobsListed /\ Numbered /\ Apart /\ Sent /\ NoFork
      /\ OldResultsMeetHello /\ OnlyKnownDeaths /\ Writes
  BY DEF SInv
<1>2. /\ new \in Jobs /\ jobs[new].process = "none" /\ ctl = "idle" /\ calls < MaxCalls
      /\ ctl' = "call" /\ calls' = calls + 1 /\ nextId' = nextId + 1
      /\ toAgent' = Append(toAgent, [Cmd("run_job") EXCEPT !.job = new])
      /\ jobs' = [jobs EXCEPT ![new] = [session |-> session, id |-> nextId, process |-> "asked"]]
      /\ mine' = [mine EXCEPT ![nextId] = new]
      /\ session' = session /\ greeted' = greeted /\ got' = got
      /\ state' = state /\ dict' = dict /\ conns' = conns /\ buf' = buf /\ eof' = eof /\ pipe' = pipe /\ missed' = missed
      /\ toNetns' = toNetns /\ fromNetns' = fromNetns /\ toCtl' = toCtl /\ faults' = faults
  BY DEF run_job, Call, agentVars
<1> HIDE DEF new
<1>3. /\ toAgent = <<>> /\ ~Asked(Read) /\ toNetns = <<>> /\ ~InNetns /\ fromNetns = <<>>
      /\ ~Asked(toCtl) /\ ~eof /\ Root # "wait" /\ ~HelloPending
      /\ \A c \in Commands : c \notin Range(Read)
  BY <1>2, IdleFacts
<1>4. /\ toAgent' = <<RunJob(new)>> /\ RunJob(new) \in Commands
      /\ \A k \in Jobs : toAgent' = <<RunJob(k)>> => k = new
      /\ toAgent' # <<Cmd("hello")>> /\ toAgent' # <<Cmd("add_namespace")>>
  <2>1. [Cmd("run_job") EXCEPT !.job = new] = RunJob(new)
    BY DEF Cmd, RunJob
  <2>2. \A k \in Jobs : RunJob(k).job = k /\ RunJob(k).name = "run_job"
    BY DEF RunJob
  <2>3. Cmd("hello").name = "hello" /\ Cmd("add_namespace").name = "add_namespace"
    BY DEF Cmd
  <2>4. toAgent' = <<RunJob(new)>>
    BY <1>2, <1>3, <2>1
  <2>5. RunJob(new) \in Commands
    BY <1>2, MessageIs
  <2>6. \A c, d : <<c>> = <<d>> => c = d
    OBVIOUS
  <2>7. /\ \A k \in Jobs : RunJob(new) = RunJob(k) => k = new
        /\ RunJob(new) # Cmd("hello") /\ RunJob(new) # Cmd("add_namespace")
    BY <1>2, <2>2, <2>3
  <2> QED  BY ONLY <2>4, <2>5, <2>6, <2>7
<1>5. /\ Begun' = Begun \union {new} /\ new \notin Begun /\ Begun \subseteq Jobs
      /\ \A k \in Jobs : k # new => jobs'[k] = jobs[k]
      /\ jobs'[new].session = session /\ jobs'[new].id = nextId /\ jobs'[new].process = "asked"
  BY <1>1, <1>2 DEF Begun, Typed
<1>6. nextId \in Ids /\ nextId + 1 \in 0..MaxJobs /\ nextId + 1 <= Cardinality(Begun')
  <2>1. IsFiniteSet(Begun) /\ Cardinality(Begun) \in Nat
    BY <1>1, BegunFinite
  <2>2. Cardinality(Begun') = Cardinality(Begun) + 1
    BY <1>5, <2>1, FS_AddElement
  <2>3. 1 \in Int /\ MaxJobs \in Int
    BY SessionsAssumption
  <2>4. IsFiniteSet(Jobs) /\ Cardinality(Jobs) = MaxJobs
    BY <2>3, FS_Interval, SessionsAssumption DEF Jobs
  <2>5. Cardinality(Begun') <= Cardinality(Jobs)
    <3>1. Begun' \subseteq Jobs
      BY <1>2, <1>5
    <3> QED  BY <2>4, <3>1, FS_Subset
  <2> QED  BY <1>1, <2>1, <2>2, <2>4, <2>5, SessionsAssumption DEF Numbered, Typed, Ids
<1>7. Typed'
  <2>1. jobs' \in [Jobs -> [session : 0..MaxSessions, id : 0..MaxJobs,
                            process : {"none", "asked", "forked", "runs", "zombie", "reaped"}]]
    BY <1>1, <1>2, <1>6 DEF Typed
  <2>2. mine' \in [Ids -> {NoJob} \union Jobs]
    BY <1>1, <1>2 DEF Typed
  <2>3. calls' \in 0..MaxCalls
    BY <1>1, <1>2, SessionsAssumption DEF Typed
  <2>4. toAgent' \in {<<>>} \union {<<c>> : c \in Commands}
    BY ONLY <1>4, Zenon
  <2> QED  BY <1>1, <1>2, <1>6, <2>1, <2>2, <2>3, <2>4 DEF Typed
<1>8. OneCall' /\ Waiting'
  BY <1>1, <1>2, <1>3, <1>4 DEF OneCall, Waiting, InNetns, Read, Root
<1>9. JobsListed'
  <2>1. pipe[new] = 0 /\ ~Reported(new)
    <3>1. ~Reported(new) /\ ~(pipe[new] > 0)
      BY <1>1, <1>2 DEF JobsListed
    <3>2. pipe[new] \in 0..3
      BY <1>1, <1>2 DEF Typed
    <3> QED  BY ONLY <3>1, <3>2
  <2>2. Root # "dead" => \A i \in Ids : OfRoot[i] # new
    BY <1>1, <1>2, JobIsNotNoJob DEF JobsListed, Alive
  <2>3. \A i \in Ids : /\ OfRoot[i] # NoJob => OfRoot[i] \in Jobs
                       /\ conns["root"][i] # NoJob => conns["root"][i] \in Jobs
    BY <1>1 DEF Typed, OfRoot, Agents
  <2>4. \A k \in Jobs : Alive(k)' <=> Alive(k) /\ k # new
    BY <1>2, <1>5 DEF Alive
  <2>5. \A k \in Jobs : Reported(k)' <=> Reported(k)
    BY <1>2 DEF Reported, Read
  <2>6. Root # "dead" => \A i \in Ids : conns["root"][i] # new
    BY <1>1, <1>2, <2>2, JobIsNotNoJob DEF JobsListed
  <2> QED  BY <1>1, <1>2, <1>5, <2>1, <2>2, <2>3, <2>4, <2>5, <2>6 DEF JobsListed, Listed, OfRoot, Root
<1>10. Numbered'
  <2>1. \A k \in Begun : k \in Jobs /\ k # new /\ jobs'[k] = jobs[k]
    BY <1>5
  <2>2. \A k \in Begun : jobs[k].session = session => jobs[k].id < nextId
    BY <1>1 DEF Numbered
  <2>3. /\ \A k \in Jobs : jobs[k].session \in Nat /\ jobs[k].id \in Nat
        /\ nextId \in Nat /\ session \in Nat
    BY <1>1 DEF Typed
  <2>4. \A k \in Begun' : jobs'[k].id \in Ids /\ (jobs'[k].session = session' => jobs'[k].id < nextId')
    BY <1>1, <1>2, <1>5, <1>6, <2>1, <2>2, <2>3 DEF Numbered
  <2>5. ASSUME NEW k \in Begun', NEW l \in Begun',
               jobs'[k].session = jobs'[l].session, jobs'[k].id = jobs'[l].id
        PROVE  k = l
    <3>1. CASE k \in Begun /\ l \in Begun
      BY <1>1, <2>1, <2>5, <3>1 DEF Numbered
    <3>2. CASE k = new /\ l \in Begun
      BY <1>5, <2>1, <2>2, <2>3, <2>5, <3>2
    <3>3. CASE k \in Begun /\ l = new
      BY <1>5, <2>1, <2>2, <2>3, <2>5, <3>3
    <3> QED  BY <1>5, <3>1, <3>2, <3>3
  <2>6. \A k \in Jobs : jobs'[k].session <= session'
    BY <1>1, <1>2, <1>5, <2>3 DEF Numbered
  <2> QED  BY <1>2, <1>6, <2>4, <2>5, <2>6 DEF Numbered
<1>11. Started'
  BY <1>2, <1>3, <1>4, <1>5, MessageIs DEF Started, Read
<1>12. Apart'
  <2>1. \A k \in Jobs : Alive(k)' <=> Alive(k) /\ k # new
    BY <1>2, <1>5 DEF Alive
  <2>2. \A k \in Jobs : Reported(k)' <=> Reported(k)
    BY <1>2 DEF Reported, Read
  <2>3. ~HelloPending' /\ Cmd("hello") \notin Range(Read')
    BY <1>2, <1>3, <1>4 DEF HelloPending, Read
  <2> QED  BY <1>1, <1>2, <1>3, <1>4, <1>5, <2>1, <2>2, <2>3 DEF Apart, Root
<1>13. Writes' /\ NoFork' /\ OnlyKnownDeaths'
  <2>1. Writes'
    BY <1>1, <1>2 DEF Writes, Root, Read
  <2>2. NoFork'
    BY <1>1, <1>2, <1>4 DEF NoFork, Root, Read, OfRoot
  <2>3. OnlyKnownDeaths'
    BY <1>1, <1>2, <1>5 DEF OnlyKnownDeaths
  <2> QED  BY <2>1, <2>2, <2>3
<1>14. Sent' /\ OldResultsMeetHello'
  <2>1. Sent'
    BY <1>1, <1>2, <1>5 DEF Sent
  <2>2. \A i \in DOMAIN toCtl : toCtl[i].type = "job_finished" => toCtl[i].job \in Jobs
    <3>1. \A i \in DOMAIN toCtl : toCtl[i] \in Message
      BY <1>1, RangeIs DEF Typed, Range
    <3> QED  BY <3>1, MessageIs DEF IsReport
  <2> QED  BY <1>1, <1>2, <1>5, <2>1, <2>2 DEF OldResultsMeetHello
<1> QED  BY <1>7, <1>8, <1>9, <1>10, <1>11, <1>12, <1>13, <1>14 DEF SInv

LEMMA OtherCallStep ==
  ASSUME SInv, NEW name \in {"prepare_machine", "kill_jobs", "add_namespace", "netns"}, other_call(name)
  PROVE  SInv'
<1>1. /\ Typed /\ OneCall /\ Waiting /\ JobsListed /\ Numbered /\ Apart /\ Sent /\ NoFork
      /\ OldResultsMeetHello /\ OnlyKnownDeaths /\ Writes
  BY DEF SInv
<1>2. /\ ctl = "idle" /\ calls < MaxCalls
      /\ ctl' = "call" /\ calls' = calls + 1 /\ nextId' = nextId
      /\ toAgent' = Append(toAgent, Cmd(name))
      /\ jobs' = jobs /\ mine' = mine
      /\ session' = session /\ greeted' = greeted /\ got' = got
      /\ state' = state /\ dict' = dict /\ conns' = conns /\ buf' = buf /\ eof' = eof /\ pipe' = pipe /\ missed' = missed
      /\ toNetns' = toNetns /\ fromNetns' = fromNetns /\ toCtl' = toCtl /\ faults' = faults
      /\ name = "add_namespace" => "fork" \in faults \/ Held(OfRoot) = {}
  BY DEF other_call, Call, agentVars, jobVars, OfRoot
<1>3. /\ toAgent = <<>> /\ ~Asked(Read) /\ toNetns = <<>> /\ ~InNetns /\ fromNetns = <<>>
      /\ ~Asked(toCtl) /\ ~eof /\ Root # "wait" /\ ~HelloPending
      /\ \A c \in Commands : c \notin Range(Read)
  BY <1>2, IdleFacts
<1>4. /\ toAgent' = <<Cmd(name)>> /\ Cmd(name) \in Commands
      /\ \A k \in Jobs : toAgent' # <<RunJob(k)>>
      /\ toAgent' # <<Cmd("hello")>> /\ (toAgent' = <<Cmd("add_namespace")>> => name = "add_namespace")
  <2>1. \A k \in Jobs : RunJob(k).name = "run_job"
    BY DEF RunJob
  <2>2. /\ Cmd("hello").name = "hello" /\ Cmd("add_namespace").name = "add_namespace"
        /\ Cmd(name).name = name
    BY DEF Cmd
  <2>3. toAgent' = <<Cmd(name)>>
    BY <1>2, <1>3
  <2> QED  BY <1>2, <2>1, <2>2, <2>3, MessageIs
<1>5. Typed'
  <2>1. calls' \in 0..MaxCalls
    BY <1>1, <1>2, SessionsAssumption DEF Typed
  <2> QED  BY <1>1, <1>2, <1>4, <2>1 DEF Typed
<1>6. OneCall' /\ Waiting'
  BY <1>1, <1>2, <1>3, <1>4 DEF OneCall, Waiting, InNetns, Read, Root
<1>7. JobsListed' /\ Numbered' /\ Writes' /\ OnlyKnownDeaths' /\ OldResultsMeetHello' /\ Sent'
  BY <1>1, <1>2 DEF JobsListed, Listed, Numbered, Writes, OnlyKnownDeaths, OldResultsMeetHello,
                    Sent, Reported, Alive, Begun, Read, Root, OfRoot
<1>8. Started'
  BY <1>2, <1>3, <1>4, MessageIs DEF Started, Read
<1>9. Apart'
  BY <1>1, <1>2, <1>3, <1>4 DEF Apart, HelloPending, Reported, Alive, Read, Root
<1>10. NoFork'
  <2>1. Held(OfRoot) = {} => OfRoot = NoJobs
    <3>1. OfRoot \in [Ids -> {NoJob} \union Jobs]
      BY <1>1 DEF Typed, OfRoot, Agents
    <3> QED  BY <3>1 DEF Held, NoJobs
  <2>2. Cmd("add_namespace") \notin Range(Read)
    BY <1>3, MessageIs
  <2> QED  BY <1>1, <1>2, <1>4, <2>1, <2>2 DEF NoFork, Root, Read, OfRoot
<1> QED  BY <1>5, <1>6, <1>7, <1>8, <1>9, <1>10 DEF SInv

-----------------------------------------------------------------------------
(* The steps: cleaning up and reading *)

\* the jobs in the table that have left the agent's group are killed, and the
\* others are those a cleanup has missed or misses now
NotYet == {k \in Held(OfRoot) : jobs[k].process = "forked"}

LEMMA KillFacts ==
  ASSUME Typed, JobsListed, Root # "dead", kill_all_jobs(OfRoot), \A k \in Jobs : Alive(k) => pipe[k] <= 2
  PROVE  /\ \A k \in Jobs : /\ jobs'[k].session = jobs[k].session /\ jobs'[k].id = jobs[k].id
                            /\ jobs'[k].process = IF k \in Killed(OfRoot) THEN "zombie" ELSE jobs[k].process
                            /\ pipe'[k] = IF k \in Killed(OfRoot) THEN pipe[k] + 1 ELSE pipe[k]
         /\ \A k \in Jobs : Alive(k)' <=> Alive(k)
         /\ \A k \in Jobs : jobs'[k].process = "none" <=> jobs[k].process = "none"
         /\ \A k \in Jobs : k \in Killed(OfRoot) => Alive(k) /\ Listed(k)
         /\ \A k \in Jobs : Alive(k) => k \in Killed(OfRoot) \union missed \union NotYet
         /\ jobs' \in [Jobs -> [session : 0..MaxSessions, id : 0..MaxJobs,
                                process : {"none", "asked", "forked", "runs", "zombie", "reaped"}]]
         /\ pipe' \in [Jobs -> 0..3]
<1>1. ASSUME NEW k \in Jobs
      PROVE  /\ k \in Killed(OfRoot) => Alive(k) /\ Listed(k)
             /\ Alive(k) => k \in Killed(OfRoot) \union missed \union NotYet
  <2>1. Alive(k) /\ k \notin missed => k \in Held(OfRoot)
    BY JobIsNotNoJob DEF JobsListed, Listed, Held
  <2>2. Alive(k) /\ k \in Held(OfRoot) => k \in Killed(OfRoot) \union NotYet
    BY DEF Alive, Killed, NotYet
  <2>3. k \in Killed(OfRoot) => Alive(k) /\ k \in Held(OfRoot)
    BY DEF Alive, Killed
  <2>4. k \in Held(OfRoot) => Listed(k)
    BY DEF JobsListed, Listed, Held
  <2> QED  BY <2>1, <2>2, <2>3, <2>4
<1>2. /\ jobs' = [k \in Jobs |-> IF k \in Killed(OfRoot) THEN [jobs[k] EXCEPT !.process = "zombie"] ELSE jobs[k]]
      /\ pipe' = [k \in Jobs |-> IF k \in Killed(OfRoot) THEN pipe[k] + 1 ELSE pipe[k]]
  BY DEF kill_all_jobs
<1> DEFINE K == Killed(OfRoot)
<1>3. \A k \in Jobs : /\ jobs[k] \in [session : 0..MaxSessions, id : 0..MaxJobs,
                                      process : {"none", "asked", "forked", "runs", "zombie", "reaped"}]
                      /\ pipe[k] \in 0..3 /\ (k \in K => pipe[k] <= 2)
  BY <1>1 DEF Typed
<1> HIDE DEF K
<1>4. \A k \in Jobs : /\ jobs'[k].session = jobs[k].session /\ jobs'[k].id = jobs[k].id
                      /\ jobs'[k].process = IF k \in K THEN "zombie" ELSE jobs[k].process
                      /\ pipe'[k] = IF k \in K THEN pipe[k] + 1 ELSE pipe[k]
  BY <1>2, <1>3 DEF K
<1>5. \A k \in Jobs : /\ Alive(k)' <=> Alive(k)
                      /\ jobs'[k].process = "none" <=> jobs[k].process = "none"
  BY <1>1, <1>4 DEF Alive, K
<1>6. jobs' \in [Jobs -> [session : 0..MaxSessions, id : 0..MaxJobs,
                          process : {"none", "asked", "forked", "runs", "zombie", "reaped"}]]
  BY <1>2, <1>3 DEF K
<1>7. pipe' \in [Jobs -> 0..3]
  BY <1>2, <1>3 DEF K
<1> QED  BY <1>1, <1>4, <1>5, <1>6, <1>7 DEF K

\* ... and stay listed, if nothing else happens to the table
LEMMA KillLists ==
  ASSUME Typed, JobsListed, Root # "dead", kill_all_jobs(OfRoot), \A k \in Jobs : Alive(k) => pipe[k] <= 2,
         Read' = <<>>, OfRoot' = OfRoot, missed \subseteq missed',
         \A i \in Ids : conns'["root"][i] = IF OfRoot[i] # NoJob THEN OfRoot[i] ELSE conns["root"][i]
  PROVE  JobsListed'
<1>1. /\ \A k \in Jobs : /\ jobs'[k].session = jobs[k].session /\ jobs'[k].id = jobs[k].id
                         /\ jobs'[k].process = IF k \in Killed(OfRoot) THEN "zombie" ELSE jobs[k].process
                         /\ pipe'[k] = IF k \in Killed(OfRoot) THEN pipe[k] + 1 ELSE pipe[k]
      /\ \A k \in Jobs : Alive(k)' <=> Alive(k)
      /\ \A k \in Jobs : k \in Killed(OfRoot) => Alive(k) /\ Listed(k)
  BY KillFacts
<1>2. \A k \in Jobs : ~Reported(k)'
  BY EmptyFacts DEF Reported
<1>3. \A i \in Ids : /\ OfRoot[i] # NoJob => OfRoot[i] \in Jobs
                     /\ conns["root"][i] # NoJob => conns["root"][i] \in Jobs
  BY DEF Typed, OfRoot, Agents
<1>4. \A k \in Jobs : pipe'[k] > 0 => jobs'[k].process = "zombie"
  BY <1>1 DEF JobsListed
<1>5. \A i \in Ids : OfRoot[i] # NoJob =>
        jobs'[OfRoot[i]].id = i /\ Alive(OfRoot[i])' /\ conns'["root"][i] = OfRoot[i]
  BY <1>1, <1>3 DEF JobsListed
<1>6. \A i \in Ids : conns'["root"][i] # NoJob =>
        OfRoot[i] = conns'["root"][i] \/ jobs'[conns'["root"][i]].process = "reaped"
  BY <1>1, <1>3 DEF JobsListed, Alive
<1>7. \A k \in Jobs : Alive(k)' => /\ jobs'[k].id \in Ids
                                   /\ k \notin missed' => Listed(k)'
                                   /\ ~Listed(k)' => pipe'[k] <= 1
  BY <1>1 DEF JobsListed, Listed
<1> QED  BY <1>2, <1>4, <1>5, <1>6, <1>7 DEF JobsListed, Alive

LEMMA HandshakeFailsStep ==
  ASSUME SInv, handshake_fails
  PROVE  SInv'
<1>1. /\ Typed /\ OneCall /\ Waiting /\ JobsListed /\ Numbered /\ Started /\ Apart /\ Sent /\ NoFork
      /\ OldResultsMeetHello
  BY DEF SInv
<1>2. /\ Root = "wait" /\ \A k \in Jobs : pipe[k] < 2
      /\ kill_all_jobs(OfRoot) /\ missed' = missed \union NotYet /\ toNetns' = <<>> /\ fromNetns' = <<>>
      /\ ctl' = ctl /\ session' = session /\ greeted' = greeted /\ nextId' = nextId /\ calls' = calls
      /\ mine' = mine /\ got' = got /\ state' = state /\ dict' = dict /\ conns' = conns
      /\ buf' = buf /\ eof' = eof /\ toAgent' = toAgent /\ toCtl' = toCtl /\ faults' = faults
  BY DEF handshake_fails, machine_cleanup, NotYet, ctlVars, agentVars, Root, OfRoot
<1>3. /\ ctl = "away" /\ ~eof /\ Read = <<>> /\ state["netns"] = "down"
      /\ toAgent = <<>> /\ toNetns = <<>> /\ fromNetns = <<>>
  BY <1>1, <1>2 DEF Waiting
<1>4. /\ \A k \in Jobs : /\ jobs'[k].session = jobs[k].session /\ jobs'[k].id = jobs[k].id
                         /\ jobs'[k].process = IF k \in Killed(OfRoot) THEN "zombie" ELSE jobs[k].process
                         /\ pipe'[k] = IF k \in Killed(OfRoot) THEN pipe[k] + 1 ELSE pipe[k]
      /\ \A k \in Jobs : Alive(k)' <=> Alive(k)
      /\ \A k \in Jobs : jobs'[k].process = "none" <=> jobs[k].process = "none"
      /\ \A k \in Jobs : Alive(k) => k \in Killed(OfRoot) \union missed'
      /\ jobs' \in [Jobs -> [session : 0..MaxSessions, id : 0..MaxJobs,
                             process : {"none", "asked", "forked", "runs", "zombie", "reaped"}]]
      /\ pipe' \in [Jobs -> 0..3]
  <2>1. \A k \in Jobs : pipe[k] <= 2
    BY <1>1, <1>2, PipeType
  <2> QED  BY <1>1, <1>2, <2>1, KillFacts, Zenon
<1>5. Typed'
  <2>1. missed' \subseteq Jobs
    BY <1>1, <1>2 DEF Typed, NotYet, Held, OfRoot, Agents
  <2>2. toNetns' \in {<<>>, <<Cmd("netns")>>} /\ fromNetns' \in {<<>>, <<Result>>}
    BY <1>2
  <2> QED  BY <1>1, <1>2, <1>4, <2>1, <2>2 DEF Typed
<1>6. OneCall' /\ Waiting'
  BY <1>1, <1>2, <1>3 DEF OneCall, Waiting, InNetns, Read, Root
<1>7. JobsListed'
  <2>1. \A k \in Jobs : pipe[k] <= 2
    BY <1>1, <1>2, PipeType
  <2>2. \A i \in Ids : conns'["root"][i] = IF OfRoot[i] # NoJob THEN OfRoot[i] ELSE conns["root"][i]
    BY <1>1, <1>2 DEF JobsListed
  <2>3. Read' = <<>> /\ OfRoot' = OfRoot
    BY <1>2, <1>3 DEF Read, OfRoot
  <2> QED  BY <1>1, <1>2, <2>1, <2>2, <2>3, KillLists
<1>8. Numbered'
  BY <1>1, <1>2, <1>4, NumberedKept
<1>9. Started'
  <2>1. Range(Read') = {} /\ \A k \in Jobs : toAgent' # <<RunJob(k)>>
    BY <1>2, <1>3, EmptyFacts DEF Read
  <2> QED  BY <2>1 DEF Started
<1>10. Apart'
  <2>1. \A k \in Jobs : Alive(k)' => pipe'[k] > 0 \/ k \in missed'
    BY <1>1, <1>4, PipeType
  <2>2. ~HelloPending' /\ Range(Read') = {}
    BY <1>2, <1>3, EmptyFacts DEF HelloPending, Read
  <2>3. Root' = "wait" /\ state'["netns"] = "down"
    BY <1>2, <1>3 DEF Root
  <2> QED  BY <2>1, <2>2, <2>3 DEF Apart
<1>11. Writes' /\ NoFork' /\ OnlyKnownDeaths'
  BY <1>1, <1>2, <1>3 DEF Writes, NoFork, OnlyKnownDeaths, Root, Read, OfRoot
<1>12. Sent' /\ OldResultsMeetHello'
  BY <1>1, <1>2, <1>3, <1>4 DEF Sent, Begun, Alive, OldResultsMeetHello
<1> QED  BY <1>5, <1>6, <1>7, <1>8, <1>9, <1>10, <1>11, <1>12 DEF SInv

LEMMA LostStep ==
  ASSUME SInv, lost_connection
  PROVE  SInv'
<1>1. /\ Typed /\ OneCall /\ Waiting /\ JobsListed /\ Numbered /\ Started /\ Apart /\ Sent /\ NoFork
      /\ OldResultsMeetHello /\ Writes
  BY DEF SInv
<1>2. /\ Root = "serve" /\ Read = <<>> /\ eof /\ Root' = "wait" /\ state'["netns"] = "down"
      /\ state' \in [Agents -> {"down", "wait", "serve", "dead", "held"}] /\ eof' = FALSE /\ toAgent' = <<>>
      /\ kill_all_jobs(OfRoot) /\ missed' = missed \union NotYet /\ toNetns' = <<>> /\ fromNetns' = <<>>
      /\ ctl' = ctl /\ session' = session /\ greeted' = greeted /\ nextId' = nextId /\ calls' = calls
      /\ mine' = mine /\ got' = got /\ dict' = dict /\ conns' = conns
      /\ buf' = buf /\ toCtl' = toCtl /\ faults' = faults
  BY <1>1 DEF lost_connection, machine_cleanup, NotYet, ctlVars, Root, OfRoot, Read, DelNetns, Typed, Agents
<1>3. ctl = "away" /\ Read' = <<>> /\ ~Asked(Read') /\ OnlyLast(Read') /\ Range(Read') = {}
  BY <1>1, <1>2, EmptyFacts DEF Waiting, Read
<1>4. \A k \in Jobs : pipe[k] <= 2
  BY <1>1, <1>2 DEF Writes
<1>5. /\ \A k \in Jobs : /\ jobs'[k].session = jobs[k].session /\ jobs'[k].id = jobs[k].id
                         /\ jobs'[k].process = IF k \in Killed(OfRoot) THEN "zombie" ELSE jobs[k].process
                         /\ pipe'[k] = IF k \in Killed(OfRoot) THEN pipe[k] + 1 ELSE pipe[k]
      /\ \A k \in Jobs : Alive(k)' <=> Alive(k)
      /\ \A k \in Jobs : jobs'[k].process = "none" <=> jobs[k].process = "none"
      /\ \A k \in Jobs : Alive(k) => k \in Killed(OfRoot) \union missed'
      /\ jobs' \in [Jobs -> [session : 0..MaxSessions, id : 0..MaxJobs,
                             process : {"none", "asked", "forked", "runs", "zombie", "reaped"}]]
      /\ pipe' \in [Jobs -> 0..3]
  BY <1>1, <1>2, <1>4, KillFacts, Zenon
<1>6. Typed'
  <2>1. missed' \subseteq Jobs
    BY <1>1, <1>2 DEF Typed, NotYet, Held, OfRoot, Agents
  <2>2. toNetns' \in {<<>>, <<Cmd("netns")>>} /\ fromNetns' \in {<<>>, <<Result>>}
    BY <1>2
  <2> QED  BY <1>1, <1>2, <1>5, <2>1, <2>2 DEF Typed
<1>7. OneCall' /\ Waiting'
  BY <1>1, <1>2, <1>3 DEF OneCall, Waiting, InNetns
<1>8. JobsListed'
  <2>1. \A i \in Ids : conns'["root"][i] = IF OfRoot[i] # NoJob THEN OfRoot[i] ELSE conns["root"][i]
    BY <1>1, <1>2 DEF JobsListed
  <2>2. OfRoot' = OfRoot
    BY <1>2 DEF OfRoot
  <2> QED  BY <1>1, <1>2, <1>3, <1>4, <2>1, <2>2, KillLists
<1>9. Numbered'
  BY <1>1, <1>2, <1>5, NumberedKept
<1>10. Started'
  <2>1. \A k \in Jobs : toAgent' # <<RunJob(k)>>
    BY <1>2
  <2> QED  BY <1>3, <2>1 DEF Started
<1>11. Apart'
  <2>1. \A k \in Jobs : Alive(k)' => pipe'[k] > 0 \/ k \in missed'
    BY <1>1, <1>5, PipeType
  <2>2. ~HelloPending'
    BY <1>2, <1>3 DEF HelloPending
  <2> QED  BY <1>2, <1>3, <2>1, <2>2 DEF Apart
<1>12. Writes' /\ NoFork' /\ OnlyKnownDeaths'
  BY <1>1, <1>2, <1>3 DEF Writes, NoFork, OnlyKnownDeaths, Root
<1>13. Sent' /\ OldResultsMeetHello'
  BY <1>1, <1>2, <1>3, <1>5 DEF Sent, Begun, Alive, OldResultsMeetHello
<1> QED  BY <1>6, <1>7, <1>8, <1>9, <1>10, <1>11, <1>12, <1>13 DEF SInv

LEMMA Batch ==
  ASSUME NEW s \in Seq(Message), \A m \in Range(s) : IsReport(m),
         NEW r \in {<<>>} \union {<<c>> : c \in Message}
  PROVE  /\ s \o r \in Seq(Message) /\ Range(s \o r) = Range(s) \union Range(r) /\ OnlyLast(s \o r)
         /\ s \o <<>> = s
<1>1. r \in Seq(Message) /\ Len(r) \in {0, 1} /\ s \o <<>> = s
  <2>1. s \o <<>> = s
    BY ConcatEmptySeq
  <2>2. CASE r = <<>>
    BY <2>1, <2>2, EmptySeq
  <2>3. ASSUME NEW c \in Message, r = <<c>>
        PROVE  r \in Seq(Message) /\ Len(r) = 1
    BY <2>3
  <2> QED  BY <2>1, <2>2, <2>3
<1>2. /\ s \o r \in Seq(Message) /\ Len(s \o r) = Len(s) + Len(r) /\ Len(s) \in Nat
      /\ \A i \in 1 .. Len(s) + Len(r) : (s \o r)[i] = IF i <= Len(s) THEN s[i] ELSE r[i - Len(s)]
  BY <1>1, ConcatProperties, LenProperties
<1>3. Range(s \o r) = Range(s) \union Range(r)
  BY <1>1, RangeConcatenation
<1>4. ASSUME NEW i \in 1..Len(s \o r), ~IsReport((s \o r)[i])
      PROVE  i = Len(s \o r)
  <2>1. CASE i <= Len(s)
    <3>1. i \in 1..Len(s) /\ (s \o r)[i] = s[i]
      BY <1>1, <1>2, <2>1
    <3>2. s[i] \in Range(s)
      BY <3>1, RangeIs
    <3> QED  BY <1>4, <3>1, <3>2
  <2>2. CASE i > Len(s)
    BY <1>1, <1>2, <2>2
  <2> QED  BY <1>2, <2>1, <2>2
<1> QED  BY <1>1, <1>2, <1>3, <1>4 DEF OnlyLast

\* reading takes nothing from the jobs but what is in the pipes
LEMMA DrainedFacts ==
  ASSUME Typed, NEW a \in Agents, pipe' = Drained(a)
  PROVE  /\ \A k \in Jobs : pipe'[k] = IF k \in Held(conns[a]) THEN 0 ELSE pipe[k]
         /\ \A k \in Jobs : pipe'[k] <= pipe[k] /\ pipe'[k] \in 0..3
         /\ pipe' \in [Jobs -> 0..3]
<1>1. \A k \in Jobs : pipe[k] \in 0..3
  BY PipeType
<1> QED  BY <1>1 DEF Drained

LEMMA RootReadsStep ==
  ASSUME SInv, root_reads, ~NetnsEnds
  PROVE  SInv'
<1>1. /\ Typed /\ OneCall /\ Waiting /\ JobsListed /\ Numbered /\ Started /\ Apart /\ Sent /\ NoFork
      /\ OldResultsMeetHello
  BY DEF SInv
<1>2. PICK msgs \in FromPipes("root") :
        /\ buf' = [buf EXCEPT !["root"] = msgs \o fromNetns \o toAgent]
        /\ Root = "serve" /\ Read = <<>> /\ eof' = (ctl = "away") /\ state' = state
        /\ pipe' = Drained("root") /\ missed' = missed /\ fromNetns' = <<>> /\ toAgent' = <<>>
        /\ ctl' = ctl /\ session' = session /\ greeted' = greeted /\ nextId' = nextId /\ calls' = calls
        /\ mine' = mine /\ got' = got /\ dict' = dict /\ conns' = conns /\ jobs' = jobs
        /\ toNetns' = toNetns /\ toCtl' = toCtl /\ faults' = faults
  BY DEF root_reads, ctlVars, Root, Read
<1>3. /\ msgs \in Seq(Message) /\ \A m \in Range(msgs) : IsReport(m)
      /\ \A k \in Jobs : Finished(k) \in Range(msgs) <=> k \in Held(conns["root"]) /\ pipe[k] > 0
  <2>1. /\ msgs \in Seq(Message)
        /\ Range(msgs) = {Finished(k) : k \in {k \in Held(conns["root"]) : pipe[k] > 0}}
    BY <1>1, PipesRead DEF Agents
  <2>2. \A k, l : Finished(k) = Finished(l) => k = l
    BY DEF Finished
  <2>3. \A k : IsReport(Finished(k))
    BY DEF Finished, IsReport
  <2> QED  BY <2>1, <2>2, <2>3
<1>4. /\ Read' \in Seq(Message) /\ OnlyLast(Read')
      /\ Range(Read') = Range(msgs) \union Range(fromNetns) \union Range(toAgent)
  <2>1. /\ fromNetns \in {<<>>} \union {<<c>> : c \in Message}
        /\ toAgent \in {<<>>} \union {<<c>> : c \in Message}
    BY <1>1, MessageIs DEF Typed
  <2>2. fromNetns = <<>> \/ toAgent = <<>>
    BY <1>1 DEF OneCall
  <2>3. Read' = (msgs \o fromNetns) \o toAgent
    BY <1>1, <1>2 DEF Read, Typed, Agents
  <2>4. CASE fromNetns = <<>>
    <3>1. Read' = msgs \o toAgent
      BY <1>3, <2>1, <2>3, <2>4, Batch
    <3> QED  BY ONLY <1>3, <2>1, <2>4, <3>1, Batch, EmptyFacts
  <2>5. CASE toAgent = <<>>
    <3>1. msgs \o fromNetns \in Seq(Message)
      BY <1>3, <2>1, Batch
    <3>2. Read' = msgs \o fromNetns
      BY ONLY <2>3, <2>5, <3>1, ConcatEmptySeq
    <3> QED  BY ONLY <1>3, <2>1, <2>5, <3>2, Batch, EmptyFacts
  <2> QED  BY <2>2, <2>4, <2>5
<1>5. /\ \A c \in Commands : c \in Range(Read') <=> toAgent = <<c>>
      /\ \A k \in Jobs : Reported(k)' <=> k \in Held(conns["root"]) /\ pipe[k] > 0
      /\ Asked(Read') => toAgent # <<>> \/ fromNetns # <<>>
  <2>1. /\ fromNetns = <<>> \/ fromNetns = <<Result>>
        /\ toAgent = <<>> \/ \E c \in Commands : toAgent = <<c>>
    BY <1>1 DEF Typed
  <2>2. Range(fromNetns) \subseteq {Result} /\ (fromNetns = <<>> => Range(fromNetns) = {})
    BY <2>1, OneRange, EmptyRange
  <2>3. /\ \A c \in Commands : c \in Range(toAgent) <=> toAgent = <<c>>
        /\ Range(toAgent) \subseteq Commands /\ (toAgent = <<>> => Range(toAgent) = {})
    <3>1. CASE toAgent = <<>>
      BY <3>1, EmptyRange
    <3>2. ASSUME NEW d \in Commands, toAgent = <<d>>
          PROVE  Range(toAgent) = {d} /\ \A c : toAgent = <<c>> <=> c = d
      BY <3>2, OneRange
    <3> QED  BY <2>1, <3>1, <3>2
  <2>4. /\ \A c \in Commands : ~IsReport(c) /\ c # Result
        /\ ~IsReport(Result) /\ \A k \in Jobs : IsReport(Finished(k))
    BY MessageIs DEF IsReport, Result
  <2>5. \A c \in Commands : c \in Range(Read') <=> toAgent = <<c>>
    BY ONLY <1>3, <1>4, <2>2, <2>3, <2>4
  <2>6. \A k \in Jobs : Finished(k) \in Range(Read') <=> Finished(k) \in Range(msgs)
    BY ONLY <1>4, <2>2, <2>3, <2>4
  <2>7. Asked(Read') => toAgent # <<>> \/ fromNetns # <<>>
    BY ONLY <1>3, <1>4, <2>2, <2>3 DEF Asked
  <2> QED  BY <1>3, <2>5, <2>6, <2>7 DEF Reported
<1>6. /\ \A k \in Jobs : pipe'[k] = IF k \in Held(conns["root"]) THEN 0 ELSE pipe[k]
      /\ \A k \in Jobs : pipe'[k] <= pipe[k] /\ pipe'[k] \in 0..3
      /\ pipe' \in [Jobs -> 0..3]
  BY <1>1, <1>2, DrainedFacts DEF Agents
<1>7. /\ \A k \in Jobs : Alive(k) => (Listed(k) <=> k \in Held(conns["root"]))
      /\ \A k \in Jobs : pipe'[k] <= 1
  <2>1. \A k \in Jobs : Alive(k) /\ Listed(k) => k \in Held(conns["root"])
    BY <1>1, <1>2, JobIsNotNoJob DEF JobsListed, Listed, Held
  <2>2. ASSUME NEW k \in Jobs, Alive(k), k \in Held(conns["root"])
        PROVE  Listed(k)
    <3>1. PICK i \in Ids : conns["root"][i] = k /\ k # NoJob
      BY <2>2 DEF Held
    <3>2. OfRoot[i] = k
      BY <1>1, <1>2, <2>2, <3>1 DEF JobsListed, Alive
    <3>3. jobs[k].id = i
      BY <1>1, <1>2, <3>1, <3>2 DEF JobsListed
    <3> QED  BY <3>2, <3>3 DEF Listed
  <2>3. \A k \in Jobs : pipe[k] > 0 => Alive(k)
    BY <1>1 DEF JobsListed, Alive
  <2>4. \A k \in Jobs : Alive(k) /\ ~Listed(k) => pipe[k] <= 1
    BY <1>1, <1>2 DEF JobsListed
  <2> QED  BY <1>1, <1>6, <2>1, <2>2, <2>3, <2>4, PipeType
<1>8. /\ \A k \in Jobs : Alive(k)' <=> Alive(k)
      /\ Root' = "serve" /\ state'["netns"] = state["netns"] /\ buf'["netns"] = buf["netns"]
      /\ HelloPending' <=> HelloPending
      /\ OfRoot' = OfRoot /\ InNetns' = InNetns
  <2>1. \A k \in Jobs : Alive(k)' <=> Alive(k)
    BY <1>2 DEF Alive
  <2>2. Root' = "serve" /\ state'["netns"] = state["netns"] /\ buf'["netns"] = buf["netns"]
    BY <1>1, <1>2 DEF Root, Typed, Agents
  <2>3. HelloPending' <=> toAgent = <<Cmd("hello")>>
    BY <1>2, <1>5, MessageIs DEF HelloPending
  <2>4. HelloPending <=> toAgent = <<Cmd("hello")>>
    BY <1>2, EmptyFacts DEF HelloPending
  <2> QED  BY <1>2, <2>1, <2>2, <2>3, <2>4 DEF OfRoot, InNetns
<1>9. Typed'
  <2>1. buf' \in [Agents -> Seq(Message)]
    BY <1>1, <1>2, <1>4 DEF Typed, Read, Agents
  <2> QED  BY <1>1, <1>2, <1>6, <2>1 DEF Typed
<1>10. OneCall'
  BY <1>1, <1>2, <1>4, <1>5, <1>8 DEF OneCall
<1>11. Waiting'
  BY <1>1, <1>2, <1>8 DEF Waiting
<1>12. JobsListed'
  <2>1. \A k \in Jobs : Reported(k)' => jobs[k].process = "zombie"
    BY <1>1, <1>5 DEF JobsListed
  <2>2. \A k \in Jobs : /\ pipe'[k] > 0 => pipe[k] > 0
                        /\ Reported(k)' => pipe'[k] = 0 /\ Listed(k)
    <3>1. \A k \in Jobs : Reported(k)' => k \in Held(conns["root"]) /\ Alive(k)
      BY <1>5, <2>1 DEF Alive
    <3>2. \A k \in Jobs : pipe'[k] > 0 => pipe[k] > 0
      BY <1>1, <1>6, PipeType
    <3> QED  BY <1>6, <1>7, <3>1, <3>2
  <2>3. /\ \A i \in Ids : OfRoot[i] # NoJob => OfRoot[i] \in Jobs
        /\ Root # "dead"
    BY <1>1, <1>2 DEF Typed, OfRoot, Agents
  <2> QED  BY <1>1, <1>2, <1>7, <1>8, <2>1, <2>2, <2>3 DEF JobsListed, Listed
<1>13. Numbered' /\ Sent'
  BY <1>1, <1>2 DEF Numbered, Sent, Begun
<1>14. Started'
  BY <1>1, <1>2, <1>5, MessageIs DEF Started
<1>15. Apart'
  <2>1. \A k \in Jobs : Reported(k)' => Alive(k)
    BY <1>1, <1>5 DEF JobsListed, Alive
  <2>2. ASSUME Cmd("hello") \in Range(Read'), NEW k \in Jobs, Alive(k)
        PROVE  Reported(k)' \/ k \in missed
    <3>1. toAgent = <<Cmd("hello")>>
      BY <1>5, <2>2, MessageIs
    <3>2. pipe[k] > 0 \/ k \in missed
      BY <1>1, <1>2, <2>2, <3>1 DEF Apart
    <3>3. k \notin missed => Listed(k)
      BY <1>1, <1>2, <2>2 DEF JobsListed
    <3> QED  BY <1>5, <1>7, <2>2, <3>2, <3>3
  <2>3. toAgent' # <<Cmd("hello")>>
    BY <1>2
  <2> QED  BY <1>1, <1>2, <1>8, <2>1, <2>2, <2>3 DEF Apart
<1>16. Writes' /\ OnlyKnownDeaths'
  BY <1>6, <1>7, <1>8 DEF Writes, OnlyKnownDeaths, Root
<1>17. NoFork'
  BY <1>1, <1>2, <1>5, <1>8, MessageIs DEF NoFork
<1>18. OldResultsMeetHello'
  BY <1>1, <1>2 DEF OldResultsMeetHello
<1> QED  BY <1>9, <1>10, <1>11, <1>12, <1>13, <1>14, <1>15, <1>16, <1>17, <1>18 DEF SInv

\* the root agent dies of the end of the namespace agent's connection
LEMMA NetnsEndsStep ==
  ASSUME SInv, root_reads, NetnsEnds
  PROVE  SInv'
<1>1. /\ Typed /\ OneCall /\ Waiting /\ JobsListed /\ Numbered /\ Started /\ Apart /\ Sent /\ NoFork
      /\ OldResultsMeetHello
  BY DEF SInv
<1>2. /\ Root = "serve" /\ Read = <<>> /\ state["netns"] = "dead" /\ Dies("root")
      /\ buf' = buf /\ eof' = eof
      /\ pipe' = Drained("root") /\ missed' = missed /\ fromNetns' = <<>> /\ toAgent' = <<>>
      /\ ctl' = ctl /\ session' = session /\ greeted' = greeted /\ nextId' = nextId /\ calls' = calls
      /\ mine' = mine /\ got' = got /\ dict' = dict /\ conns' = conns /\ jobs' = jobs
      /\ toNetns' = toNetns /\ toCtl' = toCtl /\ faults' = faults
  BY DEF root_reads, NetnsEnds, ctlVars, Root, Read
<1>3. /\ Root' = "dead" /\ state'["netns"] = "dead"
      /\ state' \in [Agents -> {"down", "wait", "serve", "dead", "held"}]
  BY <1>1, <1>2 DEF Dies, Root, Typed, Agents
<1>4. Read' = <<>> /\ Range(Read') = {} /\ ~Asked(Read') /\ OnlyLast(Read') /\ ~InNetns'
  BY <1>2, <1>3, EmptyFacts DEF Read, InNetns
<1>5. pipe' \in [Jobs -> 0..3] /\ \A k \in Jobs : pipe'[k] <= pipe[k] /\ pipe'[k] \in 0..3
  BY <1>1, <1>2, DrainedFacts DEF Agents
<1>6. Typed'
  BY <1>1, <1>2, <1>3, <1>5 DEF Typed
<1>7. OneCall' /\ Waiting'
  BY <1>1, <1>2, <1>3, <1>4 DEF OneCall, Waiting
<1>8. JobsListed'
  <2>1. \A k \in Jobs : pipe'[k] > 0 => pipe[k] > 0
    BY <1>1, <1>5, PipeType
  <2>2. \A k \in Jobs : ~Reported(k)'
    BY <1>4 DEF Reported
  <2> QED  BY <1>1, <1>2, <1>3, <2>1, <2>2 DEF JobsListed
<1>9. Numbered' /\ Sent'
  BY <1>1, <1>2 DEF Numbered, Sent, Begun
<1>10. Started' /\ Apart' /\ Writes'
  <2>1. \A k \in Jobs : toAgent' # <<RunJob(k)>>
    BY <1>2
  <2>2. ~HelloPending'
    BY <1>2, <1>4 DEF HelloPending
  <2> QED  BY <1>3, <1>4, <2>1, <2>2 DEF Started, Apart, Writes
<1>11. NoFork' /\ OnlyKnownDeaths'
  <2>1. faults \intersect {"fork", "raise"} # {}
    BY <1>1, <1>2 DEF NoFork
  <2> QED  BY <1>2, <1>3, <2>1 DEF NoFork, OnlyKnownDeaths
<1>12. OldResultsMeetHello'
  BY <1>1, <1>2 DEF OldResultsMeetHello
<1> QED  BY <1>6, <1>7, <1>8, <1>9, <1>10, <1>11, <1>12 DEF SInv

LEMMA NetnsReadsStep ==
  ASSUME SInv, netns_reads
  PROVE  SInv'
<1>1. /\ Typed /\ OneCall /\ Waiting /\ JobsListed /\ Numbered /\ Started /\ Apart /\ Sent /\ NoFork
      /\ OldResultsMeetHello /\ OnlyKnownDeaths /\ Writes
  BY DEF SInv
<1>2. PICK msgs \in FromPipes("netns") :
        /\ buf' = [buf EXCEPT !["netns"] = msgs \o toNetns]
        /\ state["netns"] = "serve" /\ buf["netns"] = <<>> /\ state' = state
        /\ pipe' = Drained("netns") /\ missed' = missed /\ toNetns' = <<>>
        /\ ctl' = ctl /\ session' = session /\ greeted' = greeted /\ nextId' = nextId /\ calls' = calls
        /\ mine' = mine /\ got' = got /\ dict' = dict /\ conns' = conns /\ jobs' = jobs /\ eof' = eof
        /\ toAgent' = toAgent /\ fromNetns' = fromNetns /\ toCtl' = toCtl /\ faults' = faults
  BY DEF netns_reads, ctlVars
<1>3. /\ msgs \in Seq(Message) /\ \A m \in Range(msgs) : IsReport(m)
      /\ conns["netns"] = NoJobs => Range(msgs) = {}
  <2>1. /\ msgs \in Seq(Message)
        /\ Range(msgs) = {Finished(k) : k \in {k \in Held(conns["netns"]) : pipe[k] > 0}}
    BY <1>1, PipesRead DEF Agents
  <2>2. \A k : IsReport(Finished(k))
    BY DEF Finished, IsReport
  <2>3. conns["netns"] = NoJobs => Held(conns["netns"]) = {}
    BY DEF Held, NoJobs
  <2> QED  BY <2>1, <2>2, <2>3
<1>4. /\ buf'["netns"] = msgs \o toNetns /\ Read' = Read
      /\ buf'["netns"] \in Seq(Message) /\ OnlyLast(buf'["netns"])
      /\ Range(buf'["netns"]) = Range(msgs) \union Range(toNetns)
      /\ buf' \in [Agents -> Seq(Message)]
  <2>1. toNetns \in {<<>>} \union {<<c>> : c \in Message}
    BY <1>1, MessageIs DEF Typed
  <2>2. /\ buf'["netns"] = msgs \o toNetns /\ Read' = Read
    BY <1>1, <1>2 DEF Typed, Agents, Read
  <2>3. /\ msgs \o toNetns \in Seq(Message) /\ OnlyLast(msgs \o toNetns)
        /\ Range(msgs \o toNetns) = Range(msgs) \union Range(toNetns)
    BY ONLY <1>3, <2>1, Batch
  <2>4. buf' \in [Agents -> Seq(Message)]
    BY <1>1, <1>2, <2>3 DEF Typed, Agents
  <2> QED  BY <2>2, <2>3, <2>4
<1>5. Asked(buf'["netns"]) => toNetns # <<>>
  BY <1>3, <1>4, EmptyRange DEF Asked
<1>6. /\ \A k \in Jobs : pipe'[k] <= pipe[k] /\ pipe'[k] \in 0..3
      /\ pipe' \in [Jobs -> 0..3]
      /\ \A k \in Jobs : pipe[k] \in 0..3
  BY <1>1, <1>2, DrainedFacts, PipeType DEF Agents
<1>7. Root' = Root /\ OfRoot' = OfRoot /\ Root # "wait" /\ (Root # "dead" => toAgent # <<Cmd("hello")>>)
  BY <1>1, <1>2 DEF Root, OfRoot, Waiting, Apart
<1>8. Typed'
  BY <1>1, <1>2, <1>4, <1>6 DEF Typed
<1>9. OneCall' /\ Waiting'
  BY <1>1, <1>2, <1>4, <1>5, <1>7 DEF OneCall, Waiting, InNetns
<1>10. JobsListed'
  <2>1. \A k \in Jobs : (pipe'[k] > 0 => pipe[k] > 0) /\ (pipe[k] = 0 => pipe'[k] = 0) /\ (pipe[k] <= 1 => pipe'[k] <= 1)
    BY <1>6
  <2> QED  BY <1>1, <1>2, <1>4, <1>7, <2>1 DEF JobsListed, Listed, Reported, Alive
<1>11. Numbered' /\ Sent' /\ Started'
  BY <1>1, <1>2, <1>4 DEF Numbered, Sent, Begun, Started
<1>12. Apart'
  BY <1>1, <1>2, <1>4, <1>7 DEF Apart, Alive, Reported, HelloPending
<1>13. Writes'
  <2>1. \A k \in Jobs : (pipe[k] <= 1 => pipe'[k] <= 1) /\ (pipe[k] <= 2 => pipe'[k] <= 2)
    BY ONLY <1>6
  <2> QED  BY <1>1, <1>2, <1>4, <1>7, <2>1 DEF Writes
<1>14. NoFork'
  <2>1. ASSUME faults \intersect {"fork", "raise"} = {}, Root # "dead"
        PROVE  \A m \in Range(buf'["netns"]) : ~IsReport(m)
    <3>1. Range(msgs) = {}
      BY <1>1, <1>3, <2>1 DEF NoFork
    <3>2. toNetns = <<>> \/ toNetns = <<Cmd("netns")>>
      BY <1>1 DEF Typed
    <3>3. ~IsReport(Cmd("netns"))
      BY DEF IsReport, Cmd
    <3> QED  BY <1>4, <3>1, <3>2, <3>3, EmptyRange, OneRange
  <2> QED  BY <1>1, <1>2, <1>4, <1>7, <2>1 DEF NoFork
<1>15. OnlyKnownDeaths'
  <2>1. \A k \in Jobs : jobs[k].process = "reaped" => ~(pipe[k] > 0)
    BY <1>1 DEF JobsListed
  <2> QED  BY <1>1, <1>2, <1>4, <1>7, <2>1 DEF OnlyKnownDeaths, Root, Read
<1>16. OldResultsMeetHello'
  BY <1>1, <1>2 DEF OldResultsMeetHello
<1> QED  BY <1>8, <1>9, <1>10, <1>11, <1>12, <1>13, <1>14, <1>15, <1>16 DEF SInv

-----------------------------------------------------------------------------
(* The steps: commands of the root agent *)

LEMMA UpdateIs ==
  ASSUME NEW c \in [Ids -> {NoJob} \union Jobs], NEW d \in [Ids -> {NoJob} \union Jobs]
  PROVE  /\ Update(c, d) \in [Ids -> {NoJob} \union Jobs]
         /\ \A i \in Ids : Update(c, d)[i] = IF d[i] # NoJob THEN d[i] ELSE c[i]
         /\ c = NoJobs /\ d = NoJobs => Update(c, d) = NoJobs
BY DEF Update, NoJobs

\* a command has been processed, and the agent has the table d
LEMMA Answered ==
  ASSUME SInv, Next1("root", "command"), NEW d \in [Ids -> {NoJob} \union Jobs], Answers(d)
  PROVE  /\ Read' = <<>> /\ Range(Read') = {} /\ ~Asked(Read') /\ OnlyLast(Read')
         /\ ~HelloPending' /\ buf'["netns"] = buf["netns"] /\ buf' \in [Agents -> Seq(Message)]
         /\ OfRoot' = d /\ dict'["netns"] = dict["netns"] /\ conns'["netns"] = conns["netns"]
         /\ \A i \in Ids : conns'["root"][i] = IF d[i] # NoJob THEN d[i] ELSE conns["root"][i]
         /\ dict' \in [Agents -> [Ids -> {NoJob} \union Jobs]]
         /\ conns' \in [Agents -> [Ids -> {NoJob} \union Jobs]]
         /\ ctl' = ctl /\ session' = session /\ greeted' = greeted /\ nextId' = nextId /\ calls' = calls
         /\ mine' = mine /\ got' = got /\ eof' = eof /\ toAgent' = toAgent /\ faults' = faults
         /\ toAgent = <<>> /\ toCtl' \in Seq(Message) /\ Head(Read) \in Commands
         /\ Range(toCtl') \subseteq Range(toCtl) \union {Result}
<1>1. Typed /\ OneCall
  BY DEF SInv
<1>2. /\ Tail(Read) = <<>> /\ Head(Read) \in Message /\ toAgent = <<>> /\ ~Asked(toCtl)
  BY <1>1, LastPopped
<1>3. /\ Read' = <<>> /\ buf'["netns"] = buf["netns"] /\ buf' \in [Agents -> Seq(Message)]
  <2>1. buf' = [buf EXCEPT !["root"] = <<>>]
    BY <1>2 DEF Answers, Done, Read
  <2>2. buf \in [Agents -> Seq(Message)] /\ <<>> \in Seq(Message)
    BY <1>1, EmptyFacts DEF Typed
  <2> QED  BY <2>1, <2>2 DEF Agents, Read
<1>4. Range(Read') = {} /\ ~Asked(Read') /\ OnlyLast(Read')
  BY <1>3, EmptyFacts
<1>5. /\ dict' = [dict EXCEPT !["root"] = d] /\ conns' = [conns EXCEPT !["root"] = Update(conns["root"], d)]
      /\ ctl' = ctl /\ session' = session /\ greeted' = greeted /\ nextId' = nextId /\ calls' = calls
      /\ mine' = mine /\ got' = got /\ eof' = eof /\ toAgent' = toAgent /\ faults' = faults
      /\ ToCtl(Result)
  BY DEF Answers, ctlVars
<1>6. /\ OfRoot' = d /\ dict'["netns"] = dict["netns"] /\ conns'["netns"] = conns["netns"]
      /\ \A i \in Ids : conns'["root"][i] = IF d[i] # NoJob THEN d[i] ELSE conns["root"][i]
      /\ dict' \in [Agents -> [Ids -> {NoJob} \union Jobs]]
      /\ conns' \in [Agents -> [Ids -> {NoJob} \union Jobs]]
  <2>1. conns["root"] \in [Ids -> {NoJob} \union Jobs] /\ conns \in [Agents -> [Ids -> {NoJob} \union Jobs]]
        /\ dict \in [Agents -> [Ids -> {NoJob} \union Jobs]]
    BY <1>1 DEF Typed, Agents
  <2> HIDE DEF Update
  <2>2. /\ Update(conns["root"], d) \in [Ids -> {NoJob} \union Jobs]
        /\ \A i \in Ids : Update(conns["root"], d)[i] = IF d[i] # NoJob THEN d[i] ELSE conns["root"][i]
    BY <2>1, UpdateIs
  <2> QED  BY <1>5, <2>1, <2>2 DEF OfRoot, Agents
<1>7. toCtl' \in Seq(Message) /\ Range(toCtl') \subseteq Range(toCtl) \union {Result}
  BY <1>1, <1>2, <1>5, CtlGets, MessageIs DEF OneCall
<1>8. ~HelloPending'
  BY <1>2, <1>4, <1>5 DEF HelloPending
<1>9. Head(Read) \in Commands
  BY <1>2, MessageIs DEF Next1, Read
<1> QED  BY <1>2, <1>3, <1>4, <1>5, <1>6, <1>7, <1>8, <1>9

\* what follows whatever the command was
LEMMA AnsweredKeeps ==
  ASSUME SInv, Next1("root", "command"), NEW d \in [Ids -> {NoJob} \union Jobs], Answers(d),
         Root' = "serve", state' \in [Agents -> {"down", "wait", "serve", "dead", "held"}],
         state'["netns"] \in {state["netns"], "down"},
         toNetns' = <<>>, fromNetns' = <<>>,
         jobs' \in [Jobs -> [session : 0..MaxSessions, id : 0..MaxJobs,
                             process : {"none", "asked", "forked", "runs", "zombie", "reaped"}]],
         pipe' \in [Jobs -> 0..3], missed \subseteq missed', missed' \subseteq Jobs,
         \A k \in Jobs : /\ jobs'[k].session = jobs[k].session /\ jobs'[k].id = jobs[k].id
                         /\ jobs'[k].process = "none" <=> jobs[k].process = "none",
         \A k \in Jobs : eof => pipe'[k] <= 2,
         \A k \in Jobs : Alive(k)' => jobs'[k].session = session \/ k \in missed'
  PROVE  /\ Typed' /\ OneCall' /\ Waiting' /\ Numbered' /\ Started' /\ Apart' /\ Sent' /\ Writes'
         /\ NoFork' /\ OldResultsMeetHello' /\ OnlyKnownDeaths'
<1>1. /\ Typed /\ OneCall /\ Waiting /\ Numbered /\ Started /\ Apart /\ Sent /\ NoFork
      /\ OldResultsMeetHello
  BY DEF SInv
<1>2. /\ Read' = <<>> /\ Range(Read') = {} /\ ~Asked(Read') /\ OnlyLast(Read')
      /\ ~HelloPending' /\ buf'["netns"] = buf["netns"] /\ buf' \in [Agents -> Seq(Message)]
      /\ dict'["netns"] = dict["netns"] /\ conns'["netns"] = conns["netns"]
      /\ dict' \in [Agents -> [Ids -> {NoJob} \union Jobs]]
      /\ conns' \in [Agents -> [Ids -> {NoJob} \union Jobs]]
      /\ ctl' = ctl /\ session' = session /\ greeted' = greeted /\ nextId' = nextId /\ calls' = calls
      /\ mine' = mine /\ got' = got /\ eof' = eof /\ toAgent' = toAgent /\ faults' = faults
      /\ toAgent = <<>> /\ toCtl' \in Seq(Message)
      /\ Range(toCtl') \subseteq Range(toCtl) \union {Result}
  BY Answered
<1>3. Root = "serve" /\ ~InNetns /\ ToCtl(Result) /\ ~IsReport(Result) /\ Result \in Message
  BY <1>1, LastPopped, MessageIs DEF Answers
<1>4. Typed'
  BY <1>1, <1>2 DEF Typed
<1>5. OneCall'
  <2>1. ~InNetns'
    BY <1>2, <1>3 DEF InNetns
  <2>2. state'["netns"] = "serve" => OnlyLast(buf'["netns"])
    BY <1>1, <1>2 DEF OneCall
  <2> QED  BY <1>1, <1>2, <1>3, <2>1, <2>2, OneCallAnswered
<1>6. Waiting'
  BY <1>1, <1>2 DEF Waiting
<1>7. Numbered' /\ Sent'
  BY <1>1, <1>2, NumberedKept, SentKept
<1>8. Started' /\ Apart'
  <2>1. \A k \in Jobs : toAgent' # <<RunJob(k)>> /\ ~Reported(k)'
    BY <1>2 DEF Reported
  <2>2. toAgent' # <<Cmd("hello")>> /\ Cmd("hello") \notin Range(Read')
    BY <1>2
  <2>3. Started'
    BY <1>2, <2>1 DEF Started
  <2> QED  BY <1>2, <2>1, <2>2, <2>3 DEF Apart
<1>9. Writes' /\ OnlyKnownDeaths'
  BY <1>2 DEF Writes, OnlyKnownDeaths, Root
<1>10. NoFork'
  BY <1>1, <1>2, <1>3 DEF NoFork
<1>11. OldResultsMeetHello'
  BY <1>1, <1>2, <1>3, OldGets
<1> QED  BY <1>4, <1>5, <1>6, <1>7, <1>8, <1>9, <1>10, <1>11

\* the jobs, when the last message that has been read is a command
LEMMA AtCommand ==
  ASSUME SInv, Next1("root", "command")
  PROVE  /\ Head(Read) \in Commands /\ Range(Read) = {Head(Read)} /\ Root = "serve" /\ Read # <<>>
         /\ toAgent = <<>> /\ toNetns = <<>> /\ fromNetns = <<>> /\ ~Asked(toCtl) /\ ~InNetns
         /\ Head(Read).name = "hello" => \A k \in Jobs : Alive(k) => k \in missed
         /\ Head(Read).name # "hello" =>
              \A k \in Jobs : Alive(k) => jobs[k].session = session \/ k \in missed
         /\ \A k \in Jobs : pipe[k] <= 1 /\ ~Reported(k)
         /\ OfRoot \in [Ids -> {NoJob} \union Jobs]
<1>1. /\ Typed /\ OneCall /\ Apart /\ Writes
  BY DEF SInv
<1>2. /\ Head(Read) \in Message /\ Range(Read) = {Head(Read)} /\ Root = "serve" /\ Read # <<>>
      /\ toAgent = <<>> /\ toNetns = <<>> /\ fromNetns = <<>> /\ ~Asked(toCtl) /\ ~InNetns
      /\ ~IsReport(Head(Read))
  BY <1>1, LastPopped
<1>3. Head(Read) \in Commands
  BY <1>2, MessageIs DEF Next1, Read
<1>4. \A k \in Jobs : ~Reported(k)
  BY <1>2, MessageIs DEF Reported
<1>5. Head(Read).name = "hello" => \A k \in Jobs : Alive(k) => k \in missed
  BY <1>1, <1>2, <1>3, <1>4, MessageIs DEF Apart
<1>6. ASSUME Head(Read).name # "hello"
      PROVE  \A k \in Jobs : Alive(k) => jobs[k].session = session \/ k \in missed
  <2>1. Cmd("hello").name = "hello"
    BY DEF Cmd
  <2>2. ~HelloPending
    BY <1>2, <1>6, <2>1 DEF HelloPending
  <2> QED  BY <1>1, <1>2, <2>2 DEF Apart
<1>7. \A k \in Jobs : pipe[k] <= 1
  BY <1>1, <1>2 DEF Writes
<1>8. OfRoot \in [Ids -> {NoJob} \union Jobs]
  BY <1>1 DEF Typed, OfRoot, Agents
<1> QED  BY <1>2, <1>3, <1>4, <1>5, <1>6, <1>7, <1>8

LEMMA DoHelloStep ==
  ASSUME SInv, do_hello
  PROVE  SInv'
<1>1. Typed /\ JobsListed
  BY DEF SInv
<1>2. /\ Next1("root", "command") /\ Head(Read).name = "hello" /\ Answers(OfRoot)
      /\ state' = state /\ jobs' = jobs /\ pipe' = pipe /\ missed' = missed /\ toNetns' = toNetns /\ fromNetns' = fromNetns
  BY DEF do_hello, RootCmd, jobVars, OfRoot, Read
<1>3. /\ Root = "serve" /\ toNetns = <<>> /\ fromNetns = <<>> /\ (\A k \in Jobs : Alive(k) => k \in missed)
      /\ \A k \in Jobs : pipe[k] <= 1
      /\ OfRoot \in [Ids -> {NoJob} \union Jobs]
  BY <1>2, AtCommand
<1>4. /\ Read' = <<>> /\ Range(Read') = {} /\ OfRoot' = OfRoot
      /\ \A i \in Ids : conns'["root"][i] = IF OfRoot[i] # NoJob THEN OfRoot[i] ELSE conns["root"][i]
  BY <1>2, <1>3, Answered
<1>5. /\ Typed' /\ OneCall' /\ Waiting' /\ Numbered' /\ Started' /\ Apart' /\ Sent' /\ Writes'
      /\ NoFork' /\ OldResultsMeetHello' /\ OnlyKnownDeaths'
  <2>1. /\ Root' = "serve" /\ state' \in [Agents -> {"down", "wait", "serve", "dead", "held"}]
        /\ state'["netns"] \in {state["netns"], "down"}
        /\ toNetns' = <<>> /\ fromNetns' = <<>> /\ pipe' \in [Jobs -> 0..3]
        /\ missed \subseteq missed' /\ missed' \subseteq Jobs
        /\ jobs' \in [Jobs -> [session : 0..MaxSessions, id : 0..MaxJobs,
                               process : {"none", "asked", "forked", "runs", "zombie", "reaped"}]]
    BY <1>1, <1>2, <1>3 DEF Typed, Root
  <2>2. \A k \in Jobs : eof => pipe'[k] <= 2
    BY <1>1, <1>2, <1>3, PipeType
  <2>3. \A k \in Jobs : Alive(k)' => jobs'[k].session = session \/ k \in missed'
    BY <1>2, <1>3 DEF Alive
  <2> QED  BY <1>2, <1>3, <2>1, <2>2, <2>3, AnsweredKeeps
<1>6. JobsListed'
  <2>1. \A i \in Ids : OfRoot[i] # NoJob => OfRoot[i] \in Jobs
    BY <1>3
  <2> QED  BY <1>1, <1>2, <1>3, <1>4, <2>1 DEF JobsListed, Listed, Reported, Alive, Root
<1> QED  BY <1>5, <1>6 DEF SInv

\* kill_jobs, and prepare_machine, which also kills the agent of the namespace
LEMMA DoKillStep ==
  ASSUME SInv, do_kill_jobs \/ do_prepare_machine
  PROVE  SInv'
<1>1. Typed /\ JobsListed
  BY DEF SInv
<1>2. /\ Next1("root", "command") /\ Head(Read).name # "hello" /\ Answers(OfRoot)
      /\ kill_all_jobs(OfRoot) /\ missed' \in {missed, missed \union NotYet}
      /\ \/ state' = state /\ toNetns' = toNetns /\ fromNetns' = fromNetns
         \/ state' = DelNetns("serve") /\ toNetns' = <<>> /\ fromNetns' = <<>>
  BY DEF do_kill_jobs, do_prepare_machine, machine_cleanup, NotYet, RootCmd, OfRoot, Read
<1>3. /\ Root = "serve" /\ toNetns = <<>> /\ fromNetns = <<>>
      /\ \A k \in Jobs : Alive(k) => jobs[k].session = session \/ k \in missed
      /\ \A k \in Jobs : pipe[k] <= 1
      /\ OfRoot \in [Ids -> {NoJob} \union Jobs]
  BY <1>2, AtCommand
<1>4. /\ Read' = <<>> /\ OfRoot' = OfRoot
      /\ \A i \in Ids : conns'["root"][i] = IF OfRoot[i] # NoJob THEN OfRoot[i] ELSE conns["root"][i]
  BY <1>2, <1>3, Answered
<1>5. \A k \in Jobs : Alive(k) => pipe[k] <= 2
  BY <1>1, <1>3, PipeType
<1>6. /\ \A k \in Jobs : /\ jobs'[k].session = jobs[k].session /\ jobs'[k].id = jobs[k].id
                         /\ jobs'[k].process = IF k \in Killed(OfRoot) THEN "zombie" ELSE jobs[k].process
                         /\ pipe'[k] = IF k \in Killed(OfRoot) THEN pipe[k] + 1 ELSE pipe[k]
      /\ \A k \in Jobs : Alive(k)' <=> Alive(k)
      /\ \A k \in Jobs : jobs'[k].process = "none" <=> jobs[k].process = "none"
      /\ jobs' \in [Jobs -> [session : 0..MaxSessions, id : 0..MaxJobs,
                             process : {"none", "asked", "forked", "runs", "zombie", "reaped"}]]
      /\ pipe' \in [Jobs -> 0..3]
  BY <1>1, <1>2, <1>3, <1>5, KillFacts
<1>7. missed \subseteq missed' /\ missed' \subseteq Jobs
  BY <1>1, <1>2 DEF Typed, NotYet, Held, OfRoot, Agents
<1>8. JobsListed'
  BY <1>1, <1>2, <1>3, <1>4, <1>5, <1>7, KillLists
<1>9. /\ Typed' /\ OneCall' /\ Waiting' /\ Numbered' /\ Started' /\ Apart' /\ Sent' /\ Writes'
      /\ NoFork' /\ OldResultsMeetHello' /\ OnlyKnownDeaths'
  <2>1. /\ Root' = "serve" /\ state' \in [Agents -> {"down", "wait", "serve", "dead", "held"}]
        /\ state'["netns"] \in {state["netns"], "down"}
        /\ toNetns' = <<>> /\ fromNetns' = <<>>
    BY <1>1, <1>2, <1>3 DEF Typed, Root, DelNetns, Agents
  <2>2. \A k \in Jobs : eof => pipe'[k] <= 2
    <3>1. \A k \in Jobs : pipe[k] \in 0..3 /\ pipe[k] <= 1
      BY <1>1, <1>3, PipeType
    <3>2. \A k \in Jobs : pipe'[k] = pipe[k] + 1 \/ pipe'[k] = pipe[k]
      BY ONLY <1>6, Zenon
    <3> QED  BY ONLY <3>1, <3>2
  <2>3. \A k \in Jobs : Alive(k)' => jobs'[k].session = session \/ k \in missed'
    BY <1>3, <1>6, <1>7
  <2> QED  BY <1>2, <1>3, <1>6, <1>7, <2>1, <2>2, <2>3, AnsweredKeeps
<1> QED  BY <1>8, <1>9 DEF SInv

LEMMA DoRunJobStep ==
  ASSUME SInv, do_run_job
  PROVE  SInv'
<1> DEFINE k == Head(Read).job
           d == [OfRoot EXCEPT ![jobs[k].id] = k]
<1>1. Typed /\ JobsListed /\ Numbered /\ Started
  BY DEF SInv
<1>2. /\ Next1("root", "command") /\ Head(Read).name = "run_job" /\ Answers(d)
      /\ jobs' = [jobs EXCEPT ![k].process = "forked"]
      /\ state' = state /\ pipe' = pipe /\ missed' = missed /\ toNetns' = toNetns /\ fromNetns' = fromNetns
  BY DEF do_run_job, RootCmd, OfRoot, Read
<1>3. /\ Root = "serve" /\ toNetns = <<>> /\ fromNetns = <<>>
      /\ \A l \in Jobs : Alive(l) => jobs[l].session = session \/ l \in missed
      /\ \A l \in Jobs : pipe[l] <= 1
      /\ OfRoot \in [Ids -> {NoJob} \union Jobs]
      /\ k \in Jobs /\ Head(Read) = RunJob(k) /\ Range(Read) = {Head(Read)}
  BY <1>2, AtCommand, MessageIs
<1>4. jobs[k].process = "asked" /\ jobs[k].session = session
  BY <1>1, <1>3 DEF Started
<1>5. k \in Begun /\ jobs[k].id \in Ids
  BY <1>1, <1>3, <1>4 DEF Begun, Numbered
<1> HIDE DEF k
<1>6. d \in [Ids -> {NoJob} \union Jobs] /\ d[jobs[k].id] = k
      /\ \A i \in Ids : i # jobs[k].id => d[i] = OfRoot[i]
  BY <1>3, <1>5
<1> HIDE DEF d
<1>7. /\ Range(Read') = {} /\ OfRoot' = d
      /\ \A i \in Ids : conns'["root"][i] = IF d[i] # NoJob THEN d[i] ELSE conns["root"][i]
  BY <1>2, <1>6, Answered
<1>8. /\ \A l \in Jobs : /\ jobs'[l].session = jobs[l].session /\ jobs'[l].id = jobs[l].id
                         /\ jobs'[l].process = IF l = k THEN "forked" ELSE jobs[l].process
      /\ jobs' \in [Jobs -> [session : 0..MaxSessions, id : 0..MaxJobs,
                             process : {"none", "asked", "forked", "runs", "zombie", "reaped"}]]
      /\ \A l \in Jobs : Alive(l)' <=> Alive(l) \/ l = k
  <2>1. jobs \in [Jobs -> [session : 0..MaxSessions, id : 0..MaxJobs,
                           process : {"none", "asked", "forked", "runs", "zombie", "reaped"}]]
    BY <1>1 DEF Typed
  <2>2. \A l \in Jobs : /\ jobs'[l].session = jobs[l].session /\ jobs'[l].id = jobs[l].id
                        /\ jobs'[l].process = IF l = k THEN "forked" ELSE jobs[l].process
    BY <1>2, <1>3, <2>1
  <2> QED  BY <1>2, <1>3, <2>1, <2>2 DEF Alive
<1>9. /\ Typed' /\ OneCall' /\ Waiting' /\ Numbered' /\ Started' /\ Apart' /\ Sent' /\ Writes'
      /\ NoFork' /\ OldResultsMeetHello' /\ OnlyKnownDeaths'
  <2>1. /\ Root' = "serve" /\ state' \in [Agents -> {"down", "wait", "serve", "dead", "held"}]
        /\ state'["netns"] \in {state["netns"], "down"}
        /\ toNetns' = <<>> /\ fromNetns' = <<>> /\ pipe' \in [Jobs -> 0..3]
        /\ missed \subseteq missed' /\ missed' \subseteq Jobs
    BY <1>1, <1>2, <1>3 DEF Typed, Root
  <2>2. \A l \in Jobs : eof => pipe'[l] <= 2
    BY <1>1, <1>2, <1>3, PipeType
  <2>3. \A l \in Jobs : Alive(l)' => jobs'[l].session = session \/ l \in missed'
    BY <1>2, <1>3, <1>4, <1>8
  <2>4. \A l \in Jobs : jobs'[l].process = "none" <=> jobs[l].process = "none"
    BY <1>4, <1>8
  <2> QED  BY <1>2, <1>6, <1>8, <2>1, <2>2, <2>3, <2>4, AnsweredKeeps
<1>10. ASSUME NEW l \in Jobs, Alive(l)
       PROVE  /\ l # k /\ jobs[l].id \in Ids
              /\ l \notin missed => jobs[l].id # jobs[k].id /\ OfRoot[jobs[l].id] = l
  <2>1. jobs[l].id \in Ids /\ (l \notin missed => OfRoot[jobs[l].id] = l)
    BY <1>1, <1>3, <1>10 DEF JobsListed, Listed
  <2>2. l # k /\ l \in Begun /\ (l \notin missed => jobs[l].session = jobs[k].session)
    BY <1>3, <1>4, <1>10 DEF Alive, Begun
  <2>3. l \notin missed => jobs[l].id # jobs[k].id
    BY <1>1, <1>5, <2>2 DEF Numbered
  <2> QED  BY <2>1, <2>2, <2>3
<1>11. JobsListed'
  <2>1. \A l \in Jobs : ~Reported(l)'
    BY <1>7 DEF Reported
  <2>2. \A l \in Jobs : pipe'[l] > 0 => l # k /\ jobs'[l].process = "zombie"
    BY <1>1, <1>2, <1>4, <1>8 DEF JobsListed
  <2>3. \A l \in Jobs : Alive(l)' => /\ jobs'[l].id \in Ids /\ pipe'[l] <= 1
                                     /\ l \notin missed' => OfRoot'[jobs'[l].id] = l
    BY <1>2, <1>3, <1>5, <1>6, <1>7, <1>8, <1>10
  <2>4. ASSUME NEW i \in Ids, d[i] # NoJob
        PROVE  \E l \in Jobs : d[i] = l /\ jobs'[l].id = i /\ Alive(l)' /\ conns'["root"][i] = l
    <3>1. CASE i = jobs[k].id
      BY <1>3, <1>6, <1>7, <1>8, <2>4, <3>1
    <3>2. CASE i # jobs[k].id
      <4>1. d[i] = OfRoot[i] /\ OfRoot[i] \in Jobs
        BY <1>3, <1>6, <2>4, <3>2
      <4>2. jobs[OfRoot[i]].id = i /\ Alive(OfRoot[i])
        BY <1>1, <1>3, <2>4, <4>1 DEF JobsListed
      <4> QED  BY <1>7, <1>8, <2>4, <4>1, <4>2
    <3> QED  BY <3>1, <3>2
  <2>5. ASSUME NEW i \in Ids, conns'["root"][i] # NoJob
        PROVE  OfRoot'[i] = conns'["root"][i] \/ jobs'[conns'["root"][i]].process = "reaped"
    <3>1. CASE d[i] # NoJob
      BY <1>7, <3>1
    <3>2. CASE d[i] = NoJob
      <4>1. i # jobs[k].id /\ OfRoot[i] = NoJob /\ conns'["root"][i] = conns["root"][i]
        BY <1>3, <1>6, <1>7, <3>2, JobIsNotNoJob
      <4>2. conns["root"][i] \in Jobs /\ jobs[conns["root"][i]].process = "reaped"
        BY <1>1, <1>3, <2>5, <4>1 DEF JobsListed, Typed, Agents
      <4> QED  BY <1>4, <1>8, <4>1, <4>2
    <3> QED  BY <3>1, <3>2
  <2> QED  BY <1>7, <2>1, <2>2, <2>3, <2>4, <2>5 DEF JobsListed, Listed, Alive
<1> QED  BY <1>9, <1>11 DEF SInv

LEMMA DoAddNamespaceStep ==
  ASSUME SInv, do_add_namespace
  PROVE  SInv'
<1>1. /\ Typed /\ OneCall /\ Waiting /\ JobsListed /\ Numbered /\ Apart /\ Sent /\ NoFork /\ Writes
      /\ OldResultsMeetHello
  BY DEF SInv
<1>2. /\ Next1("root", "command") /\ Head(Read).name = "add_namespace"
      /\ state' = [state EXCEPT !["netns"] = "serve"]
      /\ buf' = [buf EXCEPT !["root"] = Tail(Read), !["netns"] = <<>>]
      /\ dict' = [dict EXCEPT !["netns"] = OfRoot]
      /\ conns' = [root |-> Update(conns["root"], OfRoot), netns |-> Update(NoJobs, OfRoot)]
      /\ ToCtl(Result)
      /\ ctl' = ctl /\ session' = session /\ greeted' = greeted /\ nextId' = nextId /\ calls' = calls
      /\ mine' = mine /\ got' = got /\ eof' = eof /\ toAgent' = toAgent /\ faults' = faults
      /\ jobs' = jobs /\ pipe' = pipe /\ missed' = missed /\ toNetns' = toNetns /\ fromNetns' = fromNetns
  BY DEF do_add_namespace, RootCmd, OfRoot, Read, ctlVars, jobVars
<1>3. /\ Range(Read) = {Head(Read)} /\ Root = "serve" /\ Tail(Read) = <<>>
      /\ toAgent = <<>> /\ toNetns = <<>> /\ fromNetns = <<>> /\ ~Asked(toCtl) /\ ~InNetns
      /\ \A k \in Jobs : Alive(k) => jobs[k].session = session \/ k \in missed
      /\ OfRoot \in [Ids -> {NoJob} \union Jobs]
      /\ Cmd("add_namespace") \in Range(Read)
  BY <1>1, <1>2, AtCommand, LastPopped, MessageIs
<1>4. /\ Read' = <<>> /\ buf'["netns"] = <<>> /\ buf' \in [Agents -> Seq(Message)]
      /\ Root' = "serve" /\ state'["netns"] = "serve"
      /\ state' \in [Agents -> {"down", "wait", "serve", "dead", "held"}]
      /\ OfRoot' = OfRoot /\ dict'["netns"] = OfRoot /\ dict' \in [Agents -> [Ids -> {NoJob} \union Jobs]]
  BY <1>1, <1>2, <1>3, EmptyFacts DEF Typed, Agents, Read, Root, OfRoot
<1>5. /\ \A i \in Ids : conns'["root"][i] = IF OfRoot[i] # NoJob THEN OfRoot[i] ELSE conns["root"][i]
      /\ OfRoot = NoJobs => conns'["netns"] = NoJobs
      /\ conns' \in [Agents -> [Ids -> {NoJob} \union Jobs]]
  <2>1. conns["root"] \in [Ids -> {NoJob} \union Jobs] /\ NoJobs \in [Ids -> {NoJob} \union Jobs]
    BY <1>1 DEF Typed, Agents, NoJobs
  <2>2. /\ Update(conns["root"], OfRoot) \in [Ids -> {NoJob} \union Jobs]
        /\ Update(NoJobs, OfRoot) \in [Ids -> {NoJob} \union Jobs]
        /\ \A i \in Ids : Update(conns["root"], OfRoot)[i] = IF OfRoot[i] # NoJob THEN OfRoot[i] ELSE conns["root"][i]
        /\ OfRoot = NoJobs => Update(NoJobs, OfRoot) = NoJobs
    BY <1>3, <2>1, UpdateIs
  <2> QED  BY <1>2, <2>2 DEF Agents
<1>6. /\ Range(Read') = {} /\ ~Asked(Read') /\ OnlyLast(Read') /\ ~InNetns' /\ Range(buf'["netns"]) = {}
      /\ OnlyLast(buf'["netns"]) /\ ~HelloPending' /\ \A k \in Jobs : ~Reported(k)'
  BY <1>2, <1>3, <1>4, EmptyFacts DEF InNetns, HelloPending, Reported
<1>7. toCtl' \in Seq(Message) /\ Range(toCtl') \subseteq Range(toCtl) \union {Result}
  BY <1>1, <1>2, <1>3, CtlGets, MessageIs DEF OneCall
<1>8. Typed'
  BY <1>1, <1>2, <1>4, <1>5, <1>7 DEF Typed
<1>9. OneCall'
  <2>1. Result \in Message /\ toAgent' = <<>> /\ toNetns' = <<>> /\ fromNetns' = <<>>
    BY <1>2, <1>3, MessageIs
  <2> QED  BY <1>1, <1>2, <1>4, <1>6, <2>1, OneCallAnswered
<1>10. Waiting'
  BY <1>1, <1>2, <1>4 DEF Waiting
<1>11. JobsListed'
  <2>1. \A i \in Ids : OfRoot[i] # NoJob => OfRoot[i] \in Jobs
    BY <1>3
  <2>2. \A k \in Jobs : ~Reported(k)
    BY <1>2, AtCommand
  <2>3. /\ OfRoot' = OfRoot /\ jobs' = jobs /\ pipe' = pipe /\ missed' = missed
        /\ \A k \in Jobs : (Alive(k)' <=> Alive(k)) /\ (Listed(k)' <=> Listed(k)) /\ ~Reported(k)'
    BY <1>2, <1>4, <1>6 DEF Alive, Listed
  <2>4. ASSUME NEW i \in Ids, OfRoot[i] # NoJob
        PROVE  jobs[OfRoot[i]].id = i /\ Alive(OfRoot[i]) /\ conns'["root"][i] = OfRoot[i]
    BY <1>1, <1>3, <1>5, <2>4 DEF JobsListed
  <2>5. ASSUME NEW i \in Ids, conns'["root"][i] # NoJob
        PROVE  OfRoot[i] = conns'["root"][i] \/ jobs[conns'["root"][i]].process = "reaped"
    BY <1>1, <1>3, <1>5, <2>5 DEF JobsListed
  <2>6. /\ \A k \in Jobs : pipe[k] > 0 => jobs[k].process = "zombie"
        /\ \A k \in Jobs : Alive(k) => /\ jobs[k].id \in Ids
                                       /\ k \notin missed => Listed(k)
                                       /\ ~Listed(k) => pipe[k] <= 1
    BY <1>1, <1>3 DEF JobsListed
  <2> QED  BY <2>1, <2>3, <2>4, <2>5, <2>6 DEF JobsListed, Alive
<1>12. Numbered' /\ Sent'
  BY <1>1, <1>2, <1>7, NumberedKept, SentKept
<1>13. Started' /\ Apart'
  <2>1. \A k \in Jobs : toAgent' # <<RunJob(k)>> /\ (Alive(k)' <=> Alive(k))
    BY <1>2, <1>3 DEF Alive
  <2>2. toAgent' # <<Cmd("hello")>>
    BY <1>2, <1>3
  <2> QED  BY <1>2, <1>3, <1>4, <1>6, <2>1, <2>2 DEF Apart, Started
<1>14. Writes' /\ OnlyKnownDeaths'
  BY <1>1, <1>2, <1>3, <1>4 DEF Writes, OnlyKnownDeaths, Root
<1>15. NoFork'
  BY <1>1, <1>2, <1>3, <1>4, <1>5, <1>6 DEF NoFork
<1>16. OldResultsMeetHello'
  BY <1>1, <1>2, OldGets, MessageIs
<1> QED  BY <1>8, <1>9, <1>10, <1>11, <1>12, <1>13, <1>14, <1>15, <1>16 DEF SInv

\* a command for the agent of the namespace, or its result, is passed on
LEMMA PassedOnStep ==
  ASSUME SInv, to_netns \/ from_netns
  PROVE  SInv'
<1>1. /\ Typed /\ OneCall /\ Waiting /\ JobsListed /\ Numbered /\ Apart /\ Sent /\ NoFork /\ Writes
      /\ OldResultsMeetHello
  BY DEF SInv
<1>2. /\ \/ /\ Next1("root", "command") /\ Head(Read).name = "netns" /\ toCtl' = toCtl
            /\ toNetns' = IF state["netns"] = "serve" THEN Append(toNetns, Cmd("netns")) ELSE toNetns
         \/ Next1("root", "result") /\ ToCtl(Result) /\ toNetns' = toNetns
      /\ buf' = [buf EXCEPT !["root"] = Tail(Read)]
      /\ ctl' = ctl /\ session' = session /\ greeted' = greeted /\ nextId' = nextId /\ calls' = calls
      /\ mine' = mine /\ got' = got /\ eof' = eof /\ toAgent' = toAgent /\ faults' = faults
      /\ state' = state /\ dict' = dict /\ conns' = conns
      /\ jobs' = jobs /\ pipe' = pipe /\ missed' = missed /\ fromNetns' = fromNetns
  BY DEF to_netns, from_netns, RootCmd, Read, ctlVars, jobVars, Done
<1>3. PICK t \in {"command", "result"} : Next1("root", t)
  BY <1>2
<1>4. /\ Range(Read) = {Head(Read)} /\ Head(Read) \in Message /\ Root = "serve" /\ Tail(Read) = <<>>
      /\ toAgent = <<>> /\ toNetns = <<>> /\ fromNetns = <<>> /\ ~Asked(toCtl) /\ ~InNetns
      /\ ctl # "idle" /\ Read # <<>> /\ ~IsReport(Head(Read))
  BY <1>1, <1>3, LastPopped
<1>5. /\ Head(Read) # Cmd("hello") /\ ~HelloPending
      /\ \A k \in Jobs : ~Reported(k)
  <2>1. Head(Read) # Cmd("hello")
    <3>1. Cmd("hello").type = "command" /\ Cmd("hello").name = "hello"
      BY DEF Cmd
    <3> QED  BY <1>2, <3>1 DEF Next1, Read
  <2>2. \A k \in Jobs : Head(Read) # Finished(k)
    BY <1>4, MessageIs
  <2>3. ~HelloPending
    BY <1>4, <2>1 DEF HelloPending
  <2> QED  BY <1>4, <2>1, <2>2, <2>3 DEF Reported
<1>6. /\ Read' = <<>> /\ buf'["netns"] = buf["netns"] /\ buf' \in [Agents -> Seq(Message)]
      /\ Root' = Root /\ OfRoot' = OfRoot
      /\ Range(Read') = {} /\ ~Asked(Read') /\ OnlyLast(Read')
      /\ ~HelloPending' /\ \A k \in Jobs : ~Reported(k)'
  <2>1. /\ Read' = <<>> /\ buf'["netns"] = buf["netns"] /\ buf' \in [Agents -> Seq(Message)]
    BY <1>1, <1>2, <1>4, EmptyFacts DEF Typed, Agents, Read
  <2>2. Root' = Root /\ OfRoot' = OfRoot
    BY <1>2 DEF Root, OfRoot
  <2> QED  BY <1>2, <1>4, <2>1, <2>2, EmptyFacts DEF HelloPending, Reported
<1>7. /\ toCtl' \in Seq(Message) /\ Range(toCtl') \subseteq Range(toCtl) \union {Result}
      /\ OnlyOne(toCtl') /\ (toNetns' # <<>> => ~Asked(toCtl'))
      /\ toNetns' \in {<<>>, <<Cmd("netns")>>} /\ ~InNetns'
  <2>1. toCtl' \in Seq(Message) /\ Range(toCtl') \subseteq Range(toCtl) \union {Result} /\ OnlyOne(toCtl')
    <3>1. CASE ToCtl(Result)
      BY <1>1, <1>4, <3>1, CtlGets, MessageIs DEF OneCall
    <3>2. CASE toCtl' = toCtl
      BY <1>1, <3>2 DEF Typed, OneCall
    <3> QED  BY <1>2, <3>1, <3>2
  <2>2. toNetns' # <<>> => ~Asked(toCtl')
    BY <1>2, <1>4
  <2>3. toNetns' \in {<<>>, <<Cmd("netns")>>}
    BY <1>2, <1>4
  <2>4. ~InNetns'
    BY <1>2, <1>4, <1>6 DEF InNetns
  <2> QED  BY <2>1, <2>2, <2>3, <2>4
<1>8. Typed'
  BY <1>1, <1>2, <1>6, <1>7 DEF Typed
<1>9. OneCall'
  BY <1>1, <1>2, <1>4, <1>6, <1>7 DEF OneCall
<1>10. Waiting'
  BY <1>1, <1>2, <1>4, <1>6 DEF Waiting
<1>11. JobsListed'
  BY <1>1, <1>2, <1>4, <1>5, <1>6 DEF JobsListed, Listed, Alive
<1>12. Numbered' /\ Sent'
  BY <1>1, <1>2, <1>7, NumberedKept, SentKept
<1>13. Started' /\ Apart'
  <2>1. \A k \in Jobs : toAgent' # <<RunJob(k)>> /\ (Alive(k)' <=> Alive(k))
    BY <1>2, <1>4 DEF Alive
  <2>2. toAgent' # <<Cmd("hello")>>
    BY <1>2, <1>4
  <2> QED  BY <1>1, <1>2, <1>4, <1>5, <1>6, <2>1, <2>2 DEF Apart, Started
<1>14. Writes' /\ OnlyKnownDeaths'
  BY <1>1, <1>2, <1>4, <1>6 DEF Writes, OnlyKnownDeaths, Root
<1>15. NoFork'
  BY <1>1, <1>2, <1>4, <1>6 DEF NoFork
<1>16. OldResultsMeetHello'
  <2>1. CASE toCtl' = toCtl
    BY <1>1, <1>2, <2>1, OldKept
  <2>2. CASE ToCtl(Result)
    BY <1>1, <1>2, <2>2, OldGets, MessageIs
  <2> QED  BY <1>2, <2>1, <2>2
<1> QED  BY <1>8, <1>9, <1>10, <1>11, <1>12, <1>13, <1>14, <1>15, <1>16 DEF SInv

-----------------------------------------------------------------------------
(* The steps: results of jobs, and the agent of the namespace *)

\* the first message the root agent has read is the report of a job
LEMMA AtReport ==
  ASSUME SInv, Next1("root", "job_finished")
  PROVE  LET k == Head(Read).job
         IN  /\ k \in Jobs /\ Head(Read) = Finished(k) /\ Reported(k) /\ Root = "serve" /\ Read # <<>>
             /\ Tail(Read) \in Seq(Message) /\ OnlyLast(Tail(Read))
             /\ Range(Read) = Range(Tail(Read)) \union {Finished(k)}
             /\ pipe[k] = 0 /\ k \in Begun /\ jobs[k].id \in Ids
             /\ jobs[k].process \in {"zombie", "reaped"}
             /\ Alive(k) => OfRoot[jobs[k].id] = k
             /\ jobs[k].process = "reaped" => OfRoot[jobs[k].id] = NoJob
<1> DEFINE k == Head(Read).job
<1>1. Typed /\ OneCall /\ JobsListed /\ Numbered
  BY DEF SInv
<1>2. /\ Read \in Seq(Message) /\ Read # <<>> /\ OnlyLast(Read) /\ Root = "serve"
      /\ IsReport(Head(Read))
  BY <1>1 DEF Typed, OneCall, Next1, Read, Root, Agents, IsReport
<1>3. /\ Head(Read) \in Message /\ Tail(Read) \in Seq(Message) /\ OnlyLast(Tail(Read))
      /\ Range(Read) = Range(Tail(Read)) \union {Head(Read)}
  BY <1>2, TailRange
<1>4. k \in Jobs /\ Head(Read) = Finished(k)
  BY <1>2, <1>3, MessageIs
<1> HIDE DEF k
<1>5. Reported(k)
  BY <1>3, <1>4 DEF Reported
<1>6. /\ pipe[k] = 0 /\ jobs[k].process \in {"zombie", "reaped"}
      /\ Alive(k) => OfRoot[jobs[k].id] = k
      /\ jobs[k].process = "reaped" => OfRoot[jobs[k].id] = NoJob
  BY <1>1, <1>2, <1>4, <1>5 DEF JobsListed, Listed
<1>7. k \in Begun /\ jobs[k].id \in Ids
  BY <1>1, <1>4, <1>6 DEF Begun, Numbered
<1> QED  BY <1>2, <1>3, <1>4, <1>5, <1>6, <1>7 DEF k

LEMMA JobFinishedStep ==
  ASSUME SInv, job_finished
  PROVE  SInv'
<1> DEFINE k == Head(Read).job
           i == jobs[k].id
<1>1. /\ Typed /\ OneCall /\ Waiting /\ JobsListed /\ Numbered /\ Started /\ Apart /\ Sent /\ NoFork
      /\ Writes /\ OldResultsMeetHello
  BY DEF SInv
<1>2. /\ Next1("root", "job_finished") /\ OfRoot[i] # NoJob
      /\ dict' = [dict EXCEPT !["root"][i] = NoJob]
      /\ conns' = [conns EXCEPT !["root"] = Update(conns["root"], dict'["root"])]
      /\ jobs' = [jobs EXCEPT ![OfRoot[i]].process = "reaped"]
      /\ ToCtl(Finished(k)) /\ buf' = [buf EXCEPT !["root"] = Tail(Read)]
      /\ ctl' = ctl /\ session' = session /\ greeted' = greeted /\ nextId' = nextId /\ calls' = calls
      /\ mine' = mine /\ got' = got /\ eof' = eof /\ toAgent' = toAgent /\ faults' = faults
      /\ state' = state /\ pipe' = pipe /\ missed' = missed /\ toNetns' = toNetns /\ fromNetns' = fromNetns
  BY DEF job_finished, Done, Read, OfRoot, ctlVars
<1>3. /\ k \in Jobs /\ Head(Read) = Finished(k) /\ Reported(k) /\ Root = "serve" /\ Read # <<>>
      /\ Tail(Read) \in Seq(Message) /\ OnlyLast(Tail(Read))
      /\ Range(Read) = Range(Tail(Read)) \union {Finished(k)}
      /\ pipe[k] = 0 /\ k \in Begun /\ i \in Ids
      /\ jobs[k].process \in {"zombie", "reaped"}
      /\ Alive(k) => OfRoot[i] = k
      /\ jobs[k].process = "reaped" => OfRoot[i] = NoJob
  BY <1>2, AtReport
<1>4. jobs[k].process = "zombie" /\ Alive(k) /\ OfRoot[i] = k
  BY <1>2, <1>3 DEF Alive
<1> HIDE DEF k, i
<1>5. /\ OfRoot' = [OfRoot EXCEPT ![i] = NoJob] /\ OfRoot \in [Ids -> {NoJob} \union Jobs]
      /\ OfRoot' \in [Ids -> {NoJob} \union Jobs]
      /\ dict'["netns"] = dict["netns"] /\ dict' \in [Agents -> [Ids -> {NoJob} \union Jobs]]
  BY <1>1, <1>2, <1>3 DEF Typed, OfRoot, Agents
<1>6. /\ \A j \in Ids : conns'["root"][j] = IF OfRoot'[j] # NoJob THEN OfRoot'[j] ELSE conns["root"][j]
      /\ conns'["netns"] = conns["netns"] /\ conns' \in [Agents -> [Ids -> {NoJob} \union Jobs]]
  <2>1. conns["root"] \in [Ids -> {NoJob} \union Jobs] /\ conns \in [Agents -> [Ids -> {NoJob} \union Jobs]]
    BY <1>1 DEF Typed, Agents
  <2>2. /\ Update(conns["root"], OfRoot') \in [Ids -> {NoJob} \union Jobs]
        /\ \A j \in Ids : Update(conns["root"], OfRoot')[j] = IF OfRoot'[j] # NoJob THEN OfRoot'[j] ELSE conns["root"][j]
    <3> DEFINE d == OfRoot'
    <3>1. d \in [Ids -> {NoJob} \union Jobs]
      BY <1>5
    <3> HIDE DEF d
    <3>2. /\ Update(conns["root"], d) \in [Ids -> {NoJob} \union Jobs]
          /\ \A j \in Ids : Update(conns["root"], d)[j] = IF d[j] # NoJob THEN d[j] ELSE conns["root"][j]
      BY <2>1, <3>1, UpdateIs
    <3> QED  BY <3>2 DEF d
  <2>3. conns' = [conns EXCEPT !["root"] = Update(conns["root"], OfRoot')]
    BY <1>2 DEF OfRoot
  <2> QED  BY <2>1, <2>2, <2>3 DEF Agents
<1>7. /\ \A l \in Jobs : /\ jobs'[l].session = jobs[l].session /\ jobs'[l].id = jobs[l].id
                         /\ jobs'[l].process = IF l = k THEN "reaped" ELSE jobs[l].process
      /\ jobs' \in [Jobs -> [session : 0..MaxSessions, id : 0..MaxJobs,
                             process : {"none", "asked", "forked", "runs", "zombie", "reaped"}]]
      /\ \A l \in Jobs : Alive(l)' <=> Alive(l) /\ l # k
  <2>1. jobs \in [Jobs -> [session : 0..MaxSessions, id : 0..MaxJobs,
                           process : {"none", "asked", "forked", "runs", "zombie", "reaped"}]]
    BY <1>1 DEF Typed
  <2>2. jobs' = [jobs EXCEPT ![k].process = "reaped"]
    BY <1>2, <1>4
  <2>3. \A l \in Jobs : /\ jobs'[l].session = jobs[l].session /\ jobs'[l].id = jobs[l].id
                        /\ jobs'[l].process = IF l = k THEN "reaped" ELSE jobs[l].process
    BY <1>3, <2>1, <2>2
  <2>4. jobs' \in [Jobs -> [session : 0..MaxSessions, id : 0..MaxJobs,
                            process : {"none", "asked", "forked", "runs", "zombie", "reaped"}]]
    BY ONLY <1>3, <2>1, <2>2
  <2>5. \A l \in Jobs : Alive(l)' <=> Alive(l) /\ l # k
    BY ONLY <2>3 DEF Alive
  <2> QED  BY <2>3, <2>4, <2>5
<1>8. /\ Read' = Tail(Read) /\ buf'["netns"] = buf["netns"] /\ buf' \in [Agents -> Seq(Message)]
      /\ Range(Read') \subseteq Range(Read) /\ Range(Read) = Range(Read') \union {Finished(k)}
      /\ Root' = "serve"
  <2>1. Read' = Tail(Read) /\ buf'["netns"] = buf["netns"] /\ buf' \in [Agents -> Seq(Message)]
    BY <1>1, <1>2, <1>3 DEF Typed, Agents, Read
  <2> QED  BY <1>2, <1>3, <2>1 DEF Root
<1>9. /\ \A c \in Commands : c \in Range(Read') <=> c \in Range(Read)
      /\ \A l \in Jobs : Reported(l)' => Reported(l)
      /\ \A l \in Jobs : Reported(l) /\ l # k => Reported(l)'
      /\ Asked(Read') <=> Asked(Read)
      /\ HelloPending' <=> HelloPending
  <2>1. /\ \A c \in Commands : c # Finished(k)
        /\ IsReport(Finished(k)) /\ Cmd("hello") \in Commands
    BY <1>3, MessageIs DEF IsReport
  <2>2. \A l \in Jobs : Finished(l) = Finished(k) => l = k
    BY DEF Finished
  <2>3. \A c \in Commands : c \in Range(Read') <=> c \in Range(Read)
    BY <1>8, <2>1
  <2>4. /\ \A l \in Jobs : Reported(l)' => Reported(l)
        /\ \A l \in Jobs : Reported(l) /\ l # k => Reported(l)'
    BY <1>8, <2>2 DEF Reported
  <2>5. Asked(Read') <=> Asked(Read)
    BY ONLY <1>8, <2>1 DEF Asked
  <2> QED  BY <1>2, <2>1, <2>3, <2>4, <2>5 DEF HelloPending
<1>10. /\ toCtl' \in Seq(Message) /\ OnlyOne(toCtl') /\ (Asked(toCtl') => Asked(toCtl))
       /\ Range(toCtl') \subseteq Range(toCtl) \union {Finished(k)}
  <2>1. Finished(k) \in Message /\ IsReport(Finished(k))
    BY <1>3, MessageIs
  <2> QED  BY <1>1, <1>2, <2>1, CtlGets DEF OneCall
<1>11. Typed'
  BY <1>1, <1>2, <1>5, <1>6, <1>7, <1>8, <1>10 DEF Typed
<1>12. OneCall'
  BY <1>1, <1>2, <1>3, <1>8, <1>9, <1>10 DEF OneCall, InNetns
<1>13. Waiting'
  BY <1>1, <1>2, <1>8 DEF Waiting
<1>14. ASSUME NEW l \in Jobs, Alive(l), l # k
       PROVE  /\ jobs[l].id \in Ids /\ (OfRoot[jobs[l].id] = l => jobs[l].id # i)
              /\ l \notin missed \/ Reported(l) => OfRoot[jobs[l].id] = l
              /\ OfRoot[jobs[l].id] # l => pipe[l] <= 1
  BY <1>1, <1>3, <1>4, <1>14 DEF JobsListed, Listed
<1>15. JobsListed'
  <2>1. \A l \in Jobs : pipe'[l] > 0 => jobs'[l].process = "zombie"
    BY <1>1, <1>2, <1>3, <1>7 DEF JobsListed
  <2>2. \A l \in Jobs : Reported(l)' => pipe'[l] = 0 /\ jobs'[l].process \in {"zombie", "reaped"}
    BY <1>1, <1>2, <1>7, <1>9 DEF JobsListed
  <2>3. \A l \in Jobs : Alive(l)' => /\ jobs'[l].id \in Ids
                                     /\ l \notin missed' \/ Reported(l)' => OfRoot'[jobs'[l].id] = l
                                     /\ OfRoot'[jobs'[l].id] # l => pipe'[l] <= 1
    BY <1>2, <1>5, <1>7, <1>9, <1>14
  <2>4. ASSUME NEW j \in Ids, OfRoot'[j] # NoJob
        PROVE  \E l \in Jobs : OfRoot'[j] = l /\ jobs'[l].id = j /\ Alive(l)' /\ conns'["root"][j] = l
    <3>1. j # i /\ OfRoot'[j] = OfRoot[j] /\ OfRoot[j] \in Jobs
      BY <1>3, <1>5, <2>4
    <3>2. jobs[OfRoot[j]].id = j /\ Alive(OfRoot[j])
      BY <1>1, <1>3, <2>4, <3>1 DEF JobsListed
    <3>3. OfRoot[j] # k
      BY <3>1, <3>2 DEF i
    <3> QED  BY <1>6, <1>7, <2>4, <3>1, <3>2, <3>3
  <2>5. ASSUME NEW l \in Jobs, Reported(l)', jobs'[l].process = "reaped"
        PROVE  OfRoot'[jobs'[l].id] = NoJob
    <3>1. CASE l = k
      BY <1>3, <1>5, <1>7, <3>1 DEF i
    <3>2. CASE l # k
      <4>1. Reported(l) /\ jobs[l].process = "reaped" /\ jobs'[l].id = jobs[l].id
        BY <1>7, <1>9, <2>5, <3>2
      <4>2. OfRoot[jobs[l].id] = NoJob /\ jobs[l].id \in Ids
        BY <1>1, <1>3, <4>1 DEF JobsListed, Numbered, Begun
      <4> QED  BY <1>5, <4>1, <4>2
    <3> QED  BY <3>1, <3>2
  <2>6. ASSUME NEW j \in Ids, conns'["root"][j] # NoJob
        PROVE  OfRoot'[j] = conns'["root"][j] \/ jobs'[conns'["root"][j]].process = "reaped"
    <3>1. CASE OfRoot'[j] # NoJob
      BY <1>6, <3>1
    <3>2. CASE OfRoot'[j] = NoJob
      <4>1. /\ conns'["root"][j] = conns["root"][j] /\ conns["root"][j] \in Jobs
            /\ OfRoot[j] = conns["root"][j] \/ jobs[conns["root"][j]].process = "reaped"
        BY <1>1, <1>3, <1>6, <2>6, <3>2 DEF JobsListed, Typed, Agents
      <4>2. OfRoot[j] = conns["root"][j] => conns["root"][j] = k
        BY <1>4, <1>5, <3>2, <4>1, JobIsNotNoJob
      <4> QED  BY <1>7, <4>1, <4>2
    <3> QED  BY <3>1, <3>2
  <2> QED  BY <2>1, <2>2, <2>3, <2>4, <2>5, <2>6 DEF JobsListed, Listed, Alive
<1>16. Numbered'
  <2>1. \A l \in Jobs : jobs'[l].process = "none" <=> jobs[l].process = "none"
    BY <1>4, <1>7
  <2> QED  BY <1>1, <1>2, <1>7, <2>1, NumberedKept
<1>17. Started'
  BY <1>1, <1>2, <1>4, <1>7, <1>9, MessageIs DEF Started
<1>18. Apart'
  BY <1>1, <1>2, <1>3, <1>7, <1>8, <1>9, MessageIs DEF Apart
<1>19. Sent'
  <2>1. \A l \in Jobs : Finished(l) = Finished(k) => l = k
    BY DEF Finished
  <2>2. \A l \in Begun : l \in Begun'
    BY <1>7 DEF Begun
  <2> QED  BY <1>1, <1>3, <1>10, <2>1, <2>2 DEF Sent
<1>20. Writes' /\ OnlyKnownDeaths'
  BY <1>1, <1>2, <1>3, <1>8 DEF Writes, OnlyKnownDeaths, Root
<1>21. NoFork'
  <2>1. Cmd("add_namespace") \in Range(Read') \/ toAgent' = <<Cmd("add_namespace")>>
        => Cmd("add_namespace") \in Range(Read) \/ toAgent = <<Cmd("add_namespace")>>
    BY <1>2, <1>8
  <2>2. OfRoot # NoJobs
    BY <1>2, <1>3 DEF NoJobs, i
  <2> QED  BY <1>1, <1>2, <1>3, <1>5, <1>6, <1>8, <2>1, <2>2 DEF NoFork
<1>22. OldResultsMeetHello'
  <2>1. Finished(k) \in Message /\ Finished(k).job = k
    BY <1>3, MessageIs DEF Finished
  <2>2. ASSUME jobs[k].session # session, k \notin missed
        PROVE  ~greeted /\ ~Asked(toCtl)
    <3>1. HelloPending
      BY <1>1, <1>3, <1>4, <2>2 DEF Apart
    <3>2. toAgent # <<>> \/ Asked(Read)
      BY <3>1, MessageIs DEF HelloPending, Asked, IsReport
    <3> QED  BY <1>1, <3>1, <3>2 DEF Apart, OneCall
  <2> QED  BY <1>1, <1>2, <1>7, <2>1, <2>2, OldGets
<1> QED  BY <1>11, <1>12, <1>13, <1>15, <1>16, <1>17, <1>18, <1>19, <1>20, <1>21, <1>22 DEF SInv

LEMMA PopFailsStep ==
  ASSUME SInv, pop_job_fails
  PROVE  SInv'
<1> DEFINE k == Head(Read).job
<1>1. /\ Typed /\ OneCall /\ Waiting /\ JobsListed /\ Numbered /\ Started /\ Apart /\ Sent
      /\ OldResultsMeetHello
  BY DEF SInv
<1>2. /\ Next1("root", "job_finished") /\ OfRoot[jobs[k].id] = NoJob /\ Dies("root")
      /\ ctl' = ctl /\ session' = session /\ greeted' = greeted /\ nextId' = nextId /\ calls' = calls
      /\ mine' = mine /\ got' = got /\ dict' = dict /\ conns' = conns /\ buf' = buf /\ eof' = eof
      /\ jobs' = jobs /\ pipe' = pipe /\ missed' = missed /\ faults' = faults
      /\ toAgent' = toAgent /\ toNetns' = toNetns /\ fromNetns' = fromNetns /\ toCtl' = toCtl
  BY DEF pop_job_fails, Read, OfRoot, ctlVars, jobVars, streamVars
<1>3. /\ k \in Jobs /\ Reported(k) /\ Root = "serve" /\ jobs[k].process \in {"zombie", "reaped"}
      /\ Alive(k) => OfRoot[jobs[k].id] = k
  BY <1>2, AtReport
<1>4. jobs[k].process = "reaped"
  BY <1>2, <1>3, JobIsNotNoJob DEF Alive
<1> HIDE DEF k
<1>5. /\ Root' = "dead" /\ state' \in [Agents -> {"down", "wait", "serve", "dead", "held"}]
      /\ state'["netns"] \in {"down", "dead"} /\ ~InNetns'
  BY <1>1, <1>2, <1>3 DEF Dies, Root, Typed, Agents, InNetns
<1>6. Read' = Read /\ (HelloPending' <=> HelloPending)
  BY <1>2 DEF Read, HelloPending
<1>7. Typed'
  BY <1>1, <1>2, <1>5 DEF Typed
<1>8. OneCall' /\ Waiting'
  BY <1>1, <1>2, <1>5, <1>6 DEF OneCall, Waiting
<1>9. JobsListed' /\ Numbered' /\ Sent' /\ Started'
  BY <1>1, <1>2, <1>5, <1>6 DEF JobsListed, Listed, Reported, Numbered, Sent, Begun, Started
<1>10. Apart' /\ Writes' /\ NoFork'
  BY <1>1, <1>2, <1>5, <1>6 DEF Apart, Writes, NoFork
<1>11. OnlyKnownDeaths'
  BY <1>2, <1>3, <1>4 DEF OnlyKnownDeaths, Reported, Read
<1>12. OldResultsMeetHello'
  BY <1>1, <1>2, OldKept
<1> QED  BY <1>7, <1>8, <1>9, <1>10, <1>11, <1>12 DEF SInv

LEMMA NetnsCommandStep ==
  ASSUME SInv, netns_command
  PROVE  SInv'
<1>1. /\ Typed /\ OneCall /\ Waiting /\ JobsListed /\ Numbered /\ Started /\ Apart /\ Sent /\ NoFork
      /\ Writes /\ OldResultsMeetHello /\ OnlyKnownDeaths
  BY DEF SInv
<1>2. /\ state["netns"] = "serve" /\ buf["netns"] # <<>> /\ Head(buf["netns"]).type = "command"
      /\ buf' = [buf EXCEPT !["netns"] = Tail(buf["netns"])]
      /\ \/ /\ fromNetns' = Append(fromNetns, Result) /\ state' = state
            /\ conns' = [conns EXCEPT !["netns"] = Update(conns["netns"], dict["netns"])]
         \/ /\ "raise" \in faults
            /\ \E s \in {"dead", "held"} : state' = [state EXCEPT !["netns"] = s]
            /\ fromNetns' = fromNetns /\ conns' = conns
      /\ ctl' = ctl /\ session' = session /\ greeted' = greeted /\ nextId' = nextId /\ calls' = calls
      /\ mine' = mine /\ got' = got /\ dict' = dict /\ eof' = eof /\ jobs' = jobs /\ pipe' = pipe /\ missed' = missed
      /\ toAgent' = toAgent /\ toNetns' = toNetns /\ toCtl' = toCtl /\ faults' = faults
  BY DEF netns_command, Next1, Done, Dies, ctlVars, jobVars
<1>3. /\ Tail(buf["netns"]) = <<>> /\ InNetns
  <2>1. buf["netns"] \in Seq(Message) /\ OnlyLast(buf["netns"]) /\ ~IsReport(Head(buf["netns"]))
    BY <1>1, <1>2 DEF Typed, OneCall, Agents, IsReport
  <2>2. Tail(buf["netns"]) = <<>> /\ Head(buf["netns"]) \in Range(buf["netns"])
    BY <1>2, <2>1, TailRange
  <2> QED  BY <1>2, <2>1, <2>2 DEF InNetns, Asked
<1>4. /\ toAgent = <<>> /\ ~Asked(Read) /\ toNetns = <<>> /\ fromNetns = <<>> /\ ~Asked(toCtl)
      /\ ctl # "idle" /\ Root # "wait"
  BY <1>1, <1>2, <1>3 DEF OneCall, Waiting
<1>5. /\ Read' = Read /\ buf'["netns"] = <<>> /\ buf' \in [Agents -> Seq(Message)]
      /\ Range(buf'["netns"]) = {} /\ OnlyLast(buf'["netns"]) /\ ~InNetns'
      /\ Root' = Root /\ OfRoot' = OfRoot /\ state' \in [Agents -> {"down", "wait", "serve", "dead", "held"}]
      /\ state'["netns"] \in {"serve", "dead", "held"}
      /\ (HelloPending' <=> HelloPending)
  <2>1. Read' = Read /\ buf'["netns"] = <<>> /\ buf' \in [Agents -> Seq(Message)]
    BY <1>1, <1>2, <1>3, EmptyFacts DEF Typed, Agents, Read
  <2>2. /\ Root' = Root /\ OfRoot' = OfRoot /\ state' \in [Agents -> {"down", "wait", "serve", "dead", "held"}]
        /\ state'["netns"] \in {"serve", "dead", "held"}
    BY <1>1, <1>2 DEF Typed, Agents, Root, OfRoot
  <2> QED  BY <1>2, <2>1, <2>2, EmptyFacts DEF InNetns, HelloPending
<1>6. /\ conns' \in [Agents -> [Ids -> {NoJob} \union Jobs]] /\ conns'["root"] = conns["root"]
      /\ conns["netns"] = NoJobs /\ dict["netns"] = NoJobs => conns'["netns"] = NoJobs
      /\ fromNetns' \in {<<>>, <<Result>>}
  <2>1. conns["netns"] \in [Ids -> {NoJob} \union Jobs] /\ dict["netns"] \in [Ids -> {NoJob} \union Jobs]
        /\ conns \in [Agents -> [Ids -> {NoJob} \union Jobs]]
    BY <1>1 DEF Typed, Agents
  <2>2. /\ Update(conns["netns"], dict["netns"]) \in [Ids -> {NoJob} \union Jobs]
        /\ conns["netns"] = NoJobs /\ dict["netns"] = NoJobs
           => Update(conns["netns"], dict["netns"]) = NoJobs
    BY <2>1, UpdateIs
  <2>3. fromNetns' \in {<<>>, <<Result>>}
    BY <1>2, <1>4
  <2> QED  BY <1>2, <2>1, <2>2, <2>3 DEF Agents
<1>7. Typed'
  BY <1>1, <1>2, <1>5, <1>6 DEF Typed
<1>8. OneCall' /\ Waiting'
  BY <1>1, <1>2, <1>4, <1>5 DEF OneCall, Waiting
<1>9. JobsListed' /\ Numbered' /\ Sent' /\ Started'
  BY <1>1, <1>2, <1>5, <1>6 DEF JobsListed, Listed, Reported, Alive, Numbered, Sent, Begun, Started
<1>10. Apart' /\ Writes'
  BY <1>1, <1>2, <1>4, <1>5 DEF Apart, Writes, Reported, Alive
<1>11. NoFork'
  BY <1>1, <1>2, <1>5, <1>6 DEF NoFork
<1>12. OnlyKnownDeaths'
  BY <1>1, <1>2, <1>5 DEF OnlyKnownDeaths, Root, Read
<1>13. OldResultsMeetHello'
  BY <1>1, <1>2, OldKept
<1> QED  BY <1>7, <1>8, <1>9, <1>10, <1>11, <1>12, <1>13 DEF SInv

LEMMA NetnsReportStep ==
  ASSUME SInv, netns_job_finished
  PROVE  SInv'
<1>1. /\ Typed /\ OneCall /\ Waiting /\ JobsListed /\ Numbered /\ Started /\ Apart /\ Sent /\ NoFork
      /\ Writes /\ OldResultsMeetHello /\ OnlyKnownDeaths
  BY DEF SInv
<1>2. /\ state["netns"] = "serve" /\ buf["netns"] # <<>> /\ Head(buf["netns"]).type = "job_finished"
      /\ \E s \in {"dead", "held"} : state' = [state EXCEPT !["netns"] = s]
      /\ ctl' = ctl /\ session' = session /\ greeted' = greeted /\ nextId' = nextId /\ calls' = calls
      /\ mine' = mine /\ got' = got /\ dict' = dict /\ conns' = conns /\ buf' = buf /\ eof' = eof
      /\ jobs' = jobs /\ pipe' = pipe /\ missed' = missed /\ faults' = faults
      /\ toAgent' = toAgent /\ toNetns' = toNetns /\ fromNetns' = fromNetns /\ toCtl' = toCtl
  BY DEF netns_job_finished, Next1, Dies, ctlVars, jobVars, streamVars
<1>3. /\ Read' = Read /\ Root' = Root /\ OfRoot' = OfRoot /\ ~InNetns' /\ state'["netns"] \in {"dead", "held"}
      /\ state' \in [Agents -> {"down", "wait", "serve", "dead", "held"}]
      /\ (HelloPending' <=> HelloPending)
  BY <1>1, <1>2 DEF Typed, Agents, Read, Root, OfRoot, InNetns, HelloPending
<1>4. faults \intersect {"fork", "raise"} = {} => Root = "dead"
  <2>1. buf["netns"] \in Seq(Message)
    BY <1>1 DEF Typed, Agents
  <2>2. Head(buf["netns"]) \in Range(buf["netns"])
    BY <1>2, <2>1, TailRange
  <2> QED  BY <1>1, <1>2, <2>2 DEF NoFork, IsReport
<1>5. Typed'
  BY <1>1, <1>2, <1>3 DEF Typed
<1>6. OneCall' /\ Waiting'
  BY <1>1, <1>2, <1>3 DEF OneCall, Waiting
<1>7. JobsListed' /\ Numbered' /\ Sent' /\ Started'
  BY <1>1, <1>2, <1>3 DEF JobsListed, Listed, Reported, Alive, Numbered, Sent, Begun, Started
<1>8. Apart' /\ Writes'
  BY <1>1, <1>2, <1>3 DEF Apart, Writes, Reported, Alive, Waiting
<1>9. NoFork' /\ OnlyKnownDeaths'
  BY <1>1, <1>2, <1>3, <1>4 DEF NoFork, OnlyKnownDeaths, Root, Read
<1>10. OldResultsMeetHello'
  BY <1>1, <1>2, OldKept
<1> QED  BY <1>5, <1>6, <1>7, <1>8, <1>9, <1>10 DEF SInv

LEMMA JobEndsStep ==
  ASSUME SInv, NEW k \in Jobs, job_ends(k)
  PROVE  SInv'
<1>1. /\ Typed /\ OneCall /\ Waiting /\ JobsListed /\ Numbered /\ Started /\ Apart /\ Sent /\ NoFork
      /\ Writes /\ OldResultsMeetHello /\ OnlyKnownDeaths
  BY DEF SInv
<1>2. /\ jobs[k].process = "runs"
      /\ jobs' = [jobs EXCEPT ![k].process = "zombie"] /\ pipe' = [pipe EXCEPT ![k] = pipe[k] + 1]
      /\ missed' = missed
      /\ ctl' = ctl /\ session' = session /\ greeted' = greeted /\ nextId' = nextId /\ calls' = calls
      /\ mine' = mine /\ got' = got /\ state' = state /\ dict' = dict /\ conns' = conns /\ buf' = buf
      /\ eof' = eof /\ faults' = faults
      /\ toAgent' = toAgent /\ toNetns' = toNetns /\ fromNetns' = fromNetns /\ toCtl' = toCtl
  BY DEF job_ends, ctlVars, agentVars, streamVars
<1>3. pipe[k] = 0 /\ ~Reported(k)
  <2>1. ~(pipe[k] > 0) /\ ~Reported(k)
    BY <1>1, <1>2 DEF JobsListed
  <2>2. pipe[k] \in 0..3
    BY <1>1, PipeType
  <2> QED  BY ONLY <2>1, <2>2
<1>4. /\ \A l \in Jobs : /\ jobs'[l].session = jobs[l].session /\ jobs'[l].id = jobs[l].id
                         /\ jobs'[l].process = IF l = k THEN "zombie" ELSE jobs[l].process
                         /\ pipe'[l] = IF l = k THEN 1 ELSE pipe[l]
      /\ jobs' \in [Jobs -> [session : 0..MaxSessions, id : 0..MaxJobs,
                             process : {"none", "asked", "forked", "runs", "zombie", "reaped"}]]
      /\ pipe' \in [Jobs -> 0..3]
      /\ \A l \in Jobs : Alive(l)' <=> Alive(l)
  <2>1. /\ jobs \in [Jobs -> [session : 0..MaxSessions, id : 0..MaxJobs,
                              process : {"none", "asked", "forked", "runs", "zombie", "reaped"}]]
        /\ pipe \in [Jobs -> 0..3]
    BY <1>1 DEF Typed
  <2>2. \A l \in Jobs : /\ jobs'[l].session = jobs[l].session /\ jobs'[l].id = jobs[l].id
                        /\ jobs'[l].process = IF l = k THEN "zombie" ELSE jobs[l].process
    BY <1>2, <2>1
  <2>3. \A l \in Jobs : pipe'[l] = IF l = k THEN 1 ELSE pipe[l]
    BY <1>2, <1>3, <2>1
  <2>4. jobs' \in [Jobs -> [session : 0..MaxSessions, id : 0..MaxJobs,
                            process : {"none", "asked", "forked", "runs", "zombie", "reaped"}]]
    BY <1>2, <2>1
  <2>5. pipe' \in [Jobs -> 0..3]
    BY <1>2, <1>3, <2>1
  <2>6. \A l \in Jobs : Alive(l)' <=> Alive(l)
    BY <1>2, <2>2 DEF Alive
  <2> QED  BY <2>2, <2>3, <2>4, <2>5, <2>6
<1>5. /\ Read' = Read /\ Root' = Root /\ OfRoot' = OfRoot /\ InNetns' = InNetns
      /\ (HelloPending' <=> HelloPending) /\ \A l \in Jobs : Reported(l)' <=> Reported(l)
  BY <1>2 DEF Read, Root, OfRoot, InNetns, HelloPending, Reported
<1>6. Typed'
  BY <1>1, <1>2, <1>4 DEF Typed
<1>7. OneCall' /\ Waiting'
  BY <1>1, <1>2, <1>5 DEF OneCall, Waiting
<1>8. JobsListed'
  <2>1. \A i \in Ids : OfRoot[i] # NoJob => OfRoot[i] \in Jobs
    BY <1>1 DEF Typed, OfRoot, Agents
  <2>2. \A l \in Jobs : pipe'[l] > 0 => jobs'[l].process = "zombie"
    BY <1>1, <1>4 DEF JobsListed
  <2>3. \A l \in Jobs : Reported(l)' => pipe'[l] = 0 /\ jobs'[l].process \in {"zombie", "reaped"}
    BY <1>1, <1>3, <1>4, <1>5 DEF JobsListed
  <2>4. \A l \in Jobs : Reported(l)' /\ jobs'[l].process = "reaped" => Reported(l) /\ jobs[l].process = "reaped"
    BY <1>3, <1>4, <1>5
  <2> QED  BY <1>1, <1>2, <1>4, <1>5, <2>1, <2>2, <2>3, <2>4 DEF JobsListed, Listed
<1>9. Numbered' /\ Sent'
  <2>1. \A l \in Jobs : jobs'[l].process = "none" <=> jobs[l].process = "none"
    BY <1>2, <1>4
  <2> QED  BY <1>1, <1>2, <1>4, <2>1, NumberedKept, SentKept
<1>10. Started'
  BY <1>1, <1>2, <1>4, <1>5 DEF Started
<1>11. Apart'
  BY <1>1, <1>2, <1>4, <1>5 DEF Apart
<1>12. Writes'
  BY <1>1, <1>2, <1>4, <1>5 DEF Writes
<1>13. NoFork'
  BY <1>1, <1>2, <1>5 DEF NoFork
<1>14. OnlyKnownDeaths'
  <2>1. \A l \in Jobs : jobs[l].process = "reaped" => l # k /\ jobs'[l].process = "reaped" /\ pipe'[l] = pipe[l]
    BY <1>2, <1>4
  <2> QED  BY <1>1, <1>2, <2>1 DEF OnlyKnownDeaths
<1>15. OldResultsMeetHello'
  <2>1. \A i \in DOMAIN toCtl : toCtl[i].type = "job_finished" => toCtl[i].job \in Jobs
    <3>1. \A i \in DOMAIN toCtl : toCtl[i] \in Message
      BY <1>1, RangeIs DEF Typed, Range
    <3> QED  BY <3>1, MessageIs DEF IsReport
  <2> QED  BY <1>1, <1>2, <1>4, <2>1, OldKept
<1> QED  BY <1>6, <1>7, <1>8, <1>9, <1>10, <1>11, <1>12, <1>13, <1>14, <1>15 DEF SInv

LEMMA ChildSetpgrpStep ==
  ASSUME SInv, NEW k \in Jobs, child_setpgrp(k)
  PROVE  SInv'
<1>1. /\ Typed /\ OneCall /\ Waiting /\ JobsListed /\ Numbered /\ Started /\ Apart /\ Sent /\ NoFork
      /\ Writes /\ OldResultsMeetHello /\ OnlyKnownDeaths
  BY DEF SInv
<1>2. /\ jobs[k].process = "forked" /\ jobs' = [jobs EXCEPT ![k].process = "runs"]
      /\ pipe' = pipe /\ missed' = missed
      /\ ctl' = ctl /\ session' = session /\ greeted' = greeted /\ nextId' = nextId /\ calls' = calls
      /\ mine' = mine /\ got' = got /\ state' = state /\ dict' = dict /\ conns' = conns /\ buf' = buf
      /\ eof' = eof /\ faults' = faults
      /\ toAgent' = toAgent /\ toNetns' = toNetns /\ fromNetns' = fromNetns /\ toCtl' = toCtl
  BY DEF child_setpgrp, ctlVars, agentVars, streamVars
<1>3. /\ \A l \in Jobs : /\ jobs'[l].session = jobs[l].session /\ jobs'[l].id = jobs[l].id
                         /\ jobs'[l].process = IF l = k THEN "runs" ELSE jobs[l].process
      /\ jobs' \in [Jobs -> [session : 0..MaxSessions, id : 0..MaxJobs,
                             process : {"none", "asked", "forked", "runs", "zombie", "reaped"}]]
      /\ \A l \in Jobs : Alive(l)' <=> Alive(l)
  <2>1. jobs \in [Jobs -> [session : 0..MaxSessions, id : 0..MaxJobs,
                           process : {"none", "asked", "forked", "runs", "zombie", "reaped"}]]
    BY <1>1 DEF Typed
  <2>2. \A l \in Jobs : /\ jobs'[l].session = jobs[l].session /\ jobs'[l].id = jobs[l].id
                        /\ jobs'[l].process = IF l = k THEN "runs" ELSE jobs[l].process
    BY <1>2, <2>1
  <2>3. jobs' \in [Jobs -> [session : 0..MaxSessions, id : 0..MaxJobs,
                            process : {"none", "asked", "forked", "runs", "zombie", "reaped"}]]
    BY <1>2, <2>1
  <2> QED  BY <1>2, <2>2, <2>3 DEF Alive
<1>4. /\ Read' = Read /\ Root' = Root /\ OfRoot' = OfRoot /\ InNetns' = InNetns
      /\ (HelloPending' <=> HelloPending) /\ \A l \in Jobs : Reported(l)' <=> Reported(l)
  BY <1>2 DEF Read, Root, OfRoot, InNetns, HelloPending, Reported
<1>5. Typed'
  BY <1>1, <1>2, <1>3 DEF Typed
<1>6. OneCall' /\ Waiting' /\ Writes' /\ NoFork'
  BY <1>1, <1>2, <1>4 DEF OneCall, Waiting, Writes, NoFork
<1>7. JobsListed'
  <2>1. \A i \in Ids : OfRoot[i] # NoJob => OfRoot[i] \in Jobs
    BY <1>1 DEF Typed, OfRoot, Agents
  <2>2. \A l \in Jobs : pipe'[l] > 0 => jobs'[l].process = "zombie"
    BY <1>1, <1>2, <1>3 DEF JobsListed
  <2>3. \A l \in Jobs : Reported(l) => l # k
    BY <1>1, <1>2 DEF JobsListed
  <2>4. \A i \in Ids : conns["root"][i] # NoJob => conns["root"][i] \in Jobs
    BY <1>1 DEF Typed, Agents
  <2> QED  BY <1>1, <1>2, <1>3, <1>4, <2>1, <2>2, <2>3, <2>4 DEF JobsListed, Listed
<1>8. Numbered' /\ Sent'
  <2>1. \A l \in Jobs : jobs'[l].process = "none" <=> jobs[l].process = "none"
    BY <1>2, <1>3
  <2> QED  BY <1>1, <1>2, <1>3, <2>1, NumberedKept, SentKept
<1>9. Started' /\ Apart'
  BY <1>1, <1>2, <1>3, <1>4 DEF Started, Apart
<1>10. OnlyKnownDeaths'
  <2>1. \A l \in Jobs : jobs[l].process = "reaped" => jobs'[l].process = "reaped"
    BY <1>2, <1>3
  <2> QED  BY <1>1, <1>2, <2>1 DEF OnlyKnownDeaths
<1>11. OldResultsMeetHello'
  <2>1. \A i \in DOMAIN toCtl : toCtl[i].type = "job_finished" => toCtl[i].job \in Jobs
    <3>1. \A i \in DOMAIN toCtl : toCtl[i] \in Message
      BY <1>1, RangeIs DEF Typed, Range
    <3> QED  BY <3>1, MessageIs DEF IsReport
  <2> QED  BY <1>1, <1>2, <1>3, <2>1, OldKept
<1> QED  BY <1>5, <1>6, <1>7, <1>8, <1>9, <1>10, <1>11 DEF SInv

\* the last job of a dead namespace agent ends
LEMMA HolderEndsStep ==
  ASSUME SInv, holder_ends
  PROVE  SInv'
<1>1. /\ Typed /\ OneCall /\ Waiting /\ JobsListed /\ Numbered /\ Started /\ Apart /\ Sent /\ NoFork
      /\ Writes /\ OldResultsMeetHello /\ OnlyKnownDeaths
  BY DEF SInv
<1>2. /\ state["netns"] = "held" /\ state' = [state EXCEPT !["netns"] = "dead"]
      /\ jobs' = jobs /\ pipe' = pipe /\ missed' = missed
      /\ ctl' = ctl /\ session' = session /\ greeted' = greeted /\ nextId' = nextId /\ calls' = calls
      /\ mine' = mine /\ got' = got /\ dict' = dict /\ conns' = conns /\ buf' = buf
      /\ eof' = eof /\ faults' = faults
      /\ toAgent' = toAgent /\ toNetns' = toNetns /\ fromNetns' = fromNetns /\ toCtl' = toCtl
  BY DEF holder_ends, ctlVars, jobVars, streamVars
<1>3. /\ Read' = Read /\ Root' = Root /\ OfRoot' = OfRoot /\ ~InNetns /\ ~InNetns'
      /\ state'["netns"] = "dead" /\ state' \in [Agents -> {"down", "wait", "serve", "dead", "held"}]
      /\ (HelloPending' <=> HelloPending)
  BY <1>1, <1>2 DEF Typed, Agents, Read, Root, OfRoot, InNetns, HelloPending
<1>4. Typed'
  BY <1>1, <1>2, <1>3 DEF Typed
<1>5. OneCall' /\ Waiting'
  BY <1>1, <1>2, <1>3 DEF OneCall, Waiting
<1>6. JobsListed' /\ Numbered' /\ Sent' /\ Started' /\ Writes'
  BY <1>1, <1>2, <1>3 DEF JobsListed, Listed, Reported, Alive, Numbered, Sent, Begun, Started, Writes
<1>7. Apart' /\ NoFork' /\ OnlyKnownDeaths'
  BY <1>1, <1>2, <1>3 DEF Apart, NoFork, OnlyKnownDeaths, Reported, Alive, Root, Read
<1>8. OldResultsMeetHello'
  BY <1>1, <1>2, OldKept
<1> QED  BY <1>4, <1>5, <1>6, <1>7, <1>8 DEF SInv

-----------------------------------------------------------------------------
(* The theorems *)

LEMMA StuttersStep ==
  ASSUME SInv, UNCHANGED vars
  PROVE  SInv'
<1>1. /\ ctl' = ctl /\ session' = session /\ greeted' = greeted /\ nextId' = nextId /\ calls' = calls
      /\ mine' = mine /\ got' = got /\ state' = state /\ dict' = dict /\ conns' = conns
      /\ buf' = buf /\ eof' = eof /\ jobs' = jobs /\ pipe' = pipe /\ missed' = missed
      /\ toAgent' = toAgent /\ toNetns' = toNetns /\ fromNetns' = fromNetns /\ toCtl' = toCtl
      /\ faults' = faults
  BY DEF vars, ctlVars, agentVars, jobVars, streamVars
<1>2. Typed' /\ OneCall' /\ Waiting'
  BY <1>1 DEF SInv, Typed, OneCall, Waiting, InNetns, Read, Root
<1>3. JobsListed' /\ Numbered' /\ Started' /\ Writes'
  BY <1>1 DEF SInv, JobsListed, Listed, Numbered, Started, Writes, Reported, Alive, Begun, Read, Root, OfRoot
<1>4. Apart' /\ NoFork' /\ Sent'
  BY <1>1 DEF SInv, Apart, NoFork, Sent, Begun, HelloPending, Reported, Alive, Read, Root, OfRoot
<1>5. OldResultsMeetHello' /\ OnlyKnownDeaths'
  BY <1>1 DEF SInv, OldResultsMeetHello, OnlyKnownDeaths
<1> QED  BY <1>2, <1>3, <1>4, <1>5 DEF SInv

LEMMA InitHolds == Init => SInv
<1> SUFFICES ASSUME Init PROVE SInv
  OBVIOUS
<1>1. /\ Read = <<>> /\ Root = "wait" /\ state["netns"] = "down" /\ buf["netns"] = <<>>
      /\ OfRoot = NoJobs /\ dict["netns"] = NoJobs /\ conns["netns"] = NoJobs
  BY DEF Init, Read, Root, OfRoot, Agents
<1>2. /\ Range(Read) = {} /\ ~Asked(Read) /\ OnlyLast(Read) /\ ~InNetns /\ ~HelloPending
      /\ ~Asked(toCtl) /\ OnlyOne(toCtl) /\ Range(toCtl) = {} /\ DOMAIN toCtl = {}
      /\ \A k \in Jobs : ~Reported(k) /\ ~Alive(k)
  BY <1>1, EmptyFacts DEF Init, InNetns, HelloPending, Reported, Alive
<1>3. Typed
  <2>1. NoJobs \in [Ids -> {NoJob} \union Jobs] /\ <<>> \in Seq(Message)
    BY EmptyFacts DEF NoJobs
  <2>2. 0 \in 0..MaxSessions /\ 0 \in 0..MaxCalls /\ 0 \in 0..MaxJobs
    BY SessionsAssumption
  <2>3. state \in [Agents -> {"down", "wait", "serve", "dead", "held"}]
    BY DEF Init, Agents
  <2>4. jobs \in [Jobs -> [session : 0..MaxSessions, id : 0..MaxJobs,
                          process : {"none", "asked", "forked", "runs", "zombie", "reaped"}]]
    BY <2>2 DEF Init
  <2>5. pipe \in [Jobs -> 0..3] /\ missed \subseteq Jobs /\ buf \in [Agents -> Seq(Message)] /\ toCtl \in Seq(Message)
    BY <2>1 DEF Init
  <2>6. /\ dict \in [Agents -> [Ids -> {NoJob} \union Jobs]]
        /\ conns \in [Agents -> [Ids -> {NoJob} \union Jobs]]
        /\ mine \in [Ids -> {NoJob} \union Jobs]
    BY <2>1 DEF Init
  <2>7. /\ ctl \in {"away", "idle", "call"} /\ session \in 0..MaxSessions /\ greeted \in BOOLEAN
        /\ calls \in 0..MaxCalls /\ nextId \in 0..MaxJobs /\ got \subseteq Jobs /\ eof \in BOOLEAN
        /\ toAgent \in {<<>>} \union {<<c>> : c \in Commands}
        /\ toNetns \in {<<>>, <<Cmd("netns")>>} /\ fromNetns \in {<<>>, <<Result>>}
        /\ faults \in Faults
    BY <2>2 DEF Init
  <2> QED  BY <2>3, <2>4, <2>5, <2>6, <2>7 DEF Typed
<1>4. OneCall /\ Waiting /\ Started /\ Apart /\ Writes /\ NoFork
  BY <1>1, <1>2 DEF Init, OneCall, Waiting, Started, Apart, Writes, NoFork
<1>5. JobsListed
  <2>1. /\ \A k \in Jobs : pipe[k] = 0
        /\ \A i \in Ids : OfRoot[i] = NoJob /\ conns["root"][i] = NoJob
    BY <1>1 DEF Init, NoJobs, Agents
  <2> QED  BY <1>2, <2>1 DEF JobsListed
<1>6. Numbered /\ Sent
  <2>1. Begun = {}
    BY DEF Init, Begun
  <2>2. Cardinality(Begun) \in Nat
    BY <1>3, BegunFinite
  <2> QED  BY <1>2, <2>1, <2>2 DEF Init, Numbered, Sent
<1>7. OldResultsMeetHello /\ OnlyKnownDeaths
  BY <1>1, <1>2 DEF OldResultsMeetHello, OnlyKnownDeaths, Root
<1> QED  BY <1>3, <1>4, <1>5, <1>6, <1>7 DEF SInv

LEMMA StepHolds == SInv /\ [Next]_vars => SInv'
<1> SUFFICES ASSUME SInv, [Next]_vars PROVE SInv'
  OBVIOUS
<1>1. CASE UNCHANGED vars
  BY <1>1, StuttersStep
<1>2. CASE RootStep
  <2>1. root_reads => SInv'
    BY RootReadsStep, NetnsEndsStep
  <2> QED  BY <1>2, <2>1, LostStep, DoHelloStep, DoRunJobStep, DoKillStep, DoAddNamespaceStep,
              PassedOnStep, JobFinishedStep, PopFailsStep DEF RootStep
<1>3. CASE NetnsStep
  BY <1>3, NetnsReadsStep, NetnsCommandStep, NetnsReportStep DEF NetnsStep
<1>4. CASE CtlStep
  BY <1>4, CtlRecvStep, LeavesStep DEF CtlStep
<1>5. CASE accept_connection \/ handshake_fails \/ ctl_leaves \/ run_job
  BY <1>5, AcceptStep, HandshakeFailsStep, LeavesStep, RunJobStep
<1>6. CASE \E name \in {"prepare_machine", "kill_jobs", "add_namespace", "netns"} : other_call(name)
  BY <1>6, OtherCallStep
<1>7. CASE (\E k \in Jobs : child_setpgrp(k) \/ job_ends(k)) \/ holder_ends
  BY <1>7, ChildSetpgrpStep, JobEndsStep, HolderEndsStep
<1> QED  BY <1>1, <1>2, <1>3, <1>4, <1>5, <1>6, <1>7 DEF Next

LEMMA SInvHolds == Spec => []SInv
BY InitHolds, StepHolds, PTL DEF Spec

(***************************************************************************)
(* Sessions are apart, for any number of controllers and jobs, and with    *)
(* all the faults: nothing of the last session runs while the agent waits  *)
(* but a job that machine_cleanup came too early for, forked but not yet a *)
(* process group of its own; and what the others reported comes to the     *)
(* next controller before the answer to its hello.                         *)
(***************************************************************************)
THEOREM SessionsStayApart == Spec => []SessionsApart
<1>1. SInv => TypeOK
  BY DEF SInv, Typed, Waiting, TypeOK, Root
<1>2. SInv => CleanWhileWaiting
  <2> SUFFICES ASSUME SInv, Root = "wait", NEW k \in Jobs, Holds(k)
               PROVE  state["netns"] = "down" /\ k \in missed
    BY DEF SInv, Waiting, CleanWhileWaiting, Root
  <2>1. Alive(k) /\ pipe[k] \in 0..3 /\ ~(pipe[k] > 0)
    BY PipeType DEF SInv, JobsListed, Holds, Alive
  <2> QED  BY <2>1 DEF SInv, Apart
<1>3. SInv => SessionsApart
  BY <1>1, <1>2 DEF SInv, SessionsApart
<1> QED  BY <1>3, SInvHolds, PTL

(***************************************************************************)
(* The root agent dies of nothing but what is known: of a job whose result *)
(* came twice, or through the agent of a namespace.                        *)
(***************************************************************************)
THEOREM DeathsAreKnown == Spec => []OnlyKnownDeaths
<1>1. SInv => OnlyKnownDeaths
  BY DEF SInv
<1> QED  BY <1>1, SInvHolds, PTL
=============================================================================

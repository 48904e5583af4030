-------------------------- MODULE RecipeRuns_proofs --------------------------
(***************************************************************************)
(* For any machines, matches and faults: no machine stays mapped, or keeps *)
(* its recipe, after a run, and a test starts with machines that are       *)
(* ready; while agents only raise, or only die, a cleanup without an       *)
(* exception leaves no namespace and none of the devices made since the    *)
(* agent was prepared, and a test finds no namespace of another recipe.    *)
(***************************************************************************)
EXTENDS RecipeRuns, SequenceTheorems, TLAPS

\* a machine that belongs to the run
Busy(m) == mapped[m] \/ recipe[m]

RunTypes ==
  /\ pc \in {"idle", "map", "test", "cleanup"}
  /\ todo \in Seq(Machines) /\ used \in Seq(Machines)
  /\ mapped \in [Machines -> BOOLEAN] /\ recipe \in [Machines -> BOOLEAN]

(***************************************************************************)
(* While a run maps and tests, its machines are in _machines; while it     *)
(* cleans up they are those the loop of _cleanup_agents still comes to,    *)
(* the one at hand included.                                               *)
(***************************************************************************)
Tracked ==
  /\ pc = "idle" => \A m \in Machines : ~Busy(m)
  /\ pc \in {"map", "test"} => \A m \in Machines : Busy(m) => m \in Range(used)
  /\ pc = "cleanup" => \A m \in Machines : Busy(m) => m \in Range(todo)

\* where a step is about a machine, there is one
AtHand ==
  /\ pc = "map" /\ step # "next" => used # <<>>
  /\ pc = "cleanup" /\ step # "next" => todo # <<>>

IInv == RunTypes /\ Tracked /\ AtHand

-----------------------------------------------------------------------------
(***************************************************************************)
(* Facts about the sequences                                               *)
(***************************************************************************)
LEMMA RangeAppend ==
  ASSUME NEW s \in Seq(Machines), NEW m \in Machines
  PROVE  /\ Append(s, m) \in Seq(Machines) /\ Append(s, m) # <<>>
         /\ m \in Range(Append(s, m))
         /\ \A x \in Range(s) : x \in Range(Append(s, m))
<1>1. Append(s, m) \in Seq(Machines) /\ Len(Append(s, m)) = Len(s) + 1
  OBVIOUS
<1>2. /\ Append(s, m)[Len(s) + 1] = m
      /\ \A i \in 1..Len(s) : Append(s, m)[i] = s[i]
  OBVIOUS
<1>3. DOMAIN s = 1..Len(s) /\ DOMAIN Append(s, m) = 1..(Len(s) + 1) /\ Len(s) \in Nat
  OBVIOUS
<1> QED  BY <1>1, <1>2, <1>3 DEF Range

LEMMA LastOfAppend ==
  ASSUME NEW s \in Seq(Machines), NEW m \in Machines
  PROVE  Append(s, m) \in Seq(Machines) /\ Last(Append(s, m)) = m
<1>1. Append(s, m) \in Seq(Machines) /\ Len(Append(s, m)) = Len(s) + 1
      /\ Append(s, m)[Len(s) + 1] = m
  OBVIOUS
<1> QED  BY <1>1 DEF Last

LEMMA RangeOfAppend ==
  ASSUME NEW s \in Seq(Machines), NEW m \in Machines, NEW x \in Range(Append(s, m))
  PROVE  x = m \/ x \in Range(s)
<1>1. PICK i \in DOMAIN Append(s, m) : x = Append(s, m)[i]
  BY DEF Range
<1>2. /\ DOMAIN s = 1..Len(s) /\ DOMAIN Append(s, m) = 1..(Len(s) + 1) /\ Len(s) \in Nat
      /\ Append(s, m)[Len(s) + 1] = m
      /\ \A j \in 1..Len(s) : Append(s, m)[j] = s[j]
  OBVIOUS
<1> QED  BY <1>1, <1>2 DEF Range

LEMMA RangeLast ==
  ASSUME NEW s \in Seq(Machines), s # <<>>
  PROVE  Last(s) \in Machines /\ Last(s) \in Range(s)
<1>1. Len(s) \in 1..Len(s) /\ DOMAIN s = 1..Len(s)
  OBVIOUS
<1> QED  BY <1>1 DEF Last, Range

LEMMA RangeTail ==
  ASSUME NEW s \in Seq(Machines), s # <<>>
  PROVE  /\ Head(s) \in Machines /\ Tail(s) \in Seq(Machines)
         /\ \A x \in Range(s) : x = Head(s) \/ x \in Range(Tail(s))
<1>1. Head(s) \in Machines /\ Tail(s) \in Seq(Machines) /\ Head(s) = s[1]
  OBVIOUS
<1>2. Len(Tail(s)) = Len(s) - 1 /\ \A i \in 1..(Len(s) - 1) : Tail(s)[i] = s[i + 1]
  OBVIOUS
<1>3. /\ DOMAIN s = 1..Len(s) /\ Len(s) \in Nat
      /\ DOMAIN Tail(s) = 1..(Len(s) - 1)
  BY <1>1, <1>2
<1>4. ASSUME NEW i \in DOMAIN s
      PROVE  s[i] = Head(s) \/ s[i] \in Range(Tail(s))
  <2>1. CASE i = 1
    BY <2>1, <1>1
  <2>2. CASE i # 1
    <3>1. i - 1 \in 1..(Len(s) - 1) /\ (i - 1) + 1 = i
      BY <2>2, <1>3
    <3>2. Tail(s)[i - 1] = s[i]
      BY <3>1, <1>2
    <3> QED  BY <3>1, <3>2, <1>3 DEF Range
  <2> QED  BY <2>1, <2>2
<1> QED  BY <1>1, <1>4 DEF Range

-----------------------------------------------------------------------------
(***************************************************************************)
(* Steps that map or unmap nothing                                         *)
(***************************************************************************)

(***************************************************************************)
(* A step of mapping or of the test stays there, or turns to the cleanup   *)
(* of the machines in _machines.                                           *)
(***************************************************************************)
LEMMA ForwardQuiet ==
  ASSUME IInv, pc \in {"map", "test"},
         UNCHANGED <<used, mapped, recipe>>,
         \/ UNCHANGED <<pc, todo>> /\ (pc = "map" /\ step' # "next" => used # <<>>)
         \/ StartCleanup
  PROVE  IInv'
<1> USE DEF IInv, RunTypes, Tracked, AtHand, Busy
<1>1. CASE UNCHANGED <<pc, todo>> /\ (pc = "map" /\ step' # "next" => used # <<>>)
  BY <1>1
<1>2. CASE StartCleanup
  BY <1>2 DEF StartCleanup
<1> QED  BY <1>1, <1>2

(***************************************************************************)
(* Whatever a call of Machine.cleanup does, the machine stays at hand.     *)
(***************************************************************************)
LEMMA CleanupQuiet ==
  ASSUME IInv, pc = "cleanup", todo # <<>>, unchangedCleanup
  PROVE  IInv'
BY DEF IInv, RunTypes, Tracked, AtHand, Busy, unchangedCleanup

LEMMA CleanupCalls ==
  ASSUME IInv,
         \/ cleanup \/ kill_jobs \/ restore_system_config
         \/ set_readonly_cache \/ destroy_devices \/ destroy_root
         \/ del_netns \/ bye
  PROVE  IInv'
<1>1. unchangedCleanup
  BY DEF cleanup, kill_jobs, restore_system_config, restore_root, call_in_netns,
         call_in_root, set_readonly_cache, destroy_devices, destroy_root, del_netns, bye
<1>2. pc = "cleanup" /\ (step # "next" \/ todo # <<>>)
  BY DEF cleanup, kill_jobs, restore_system_config, restore_root, call_in_netns,
         call_in_root, set_readonly_cache, destroy_devices, destroy_root, del_netns, bye
<1>3. todo # <<>>
  BY <1>2 DEF IInv, AtHand
<1> QED  BY <1>1, <1>2, <1>3, CleanupQuiet

-----------------------------------------------------------------------------
(***************************************************************************)
(* Steps that do                                                           *)
(***************************************************************************)
LEMMA MapTracked ==
  ASSUME IInv, map_machine
  PROVE  IInv'
<1> DEFINE h == Head(todo)
<1>1. /\ pc = "map" /\ pc' = "map" /\ todo # <<>>
      /\ used' = Append(used, h) /\ todo' = Tail(todo)
      /\ mapped' = [mapped EXCEPT ![h] = TRUE] /\ recipe' = recipe
  BY DEF map_machine, Put
<1>2. /\ todo \in Seq(Machines) /\ used \in Seq(Machines)
      /\ mapped \in [Machines -> BOOLEAN] /\ recipe \in [Machines -> BOOLEAN]
      /\ \A m \in Machines : mapped[m] \/ recipe[m] => m \in Range(used)
  BY <1>1 DEF IInv, RunTypes, Tracked, Busy
<1>3. h \in Machines /\ Tail(todo) \in Seq(Machines)
  BY <1>1, <1>2, RangeTail
<1>4. /\ used' \in Seq(Machines) /\ used' # <<>> /\ h \in Range(used')
      /\ \A x \in Range(used) : x \in Range(used')
  <2> HIDE DEF h
  <2> QED  BY <1>1, <1>2, <1>3, RangeAppend
<1>5. ASSUME NEW m \in Machines, mapped'[m] \/ recipe'[m]
      PROVE  m \in Range(used')
  <2>1. m = h \/ mapped[m] \/ recipe[m]
    BY <1>1, <1>2, <1>5
  <2> QED  BY <2>1, <1>2, <1>4
<1>6. RunTypes'
  BY <1>1, <1>2, <1>3, <1>4 DEF RunTypes
<1> QED  BY <1>1, <1>4, <1>5, <1>6 DEF IInv, Tracked, AtHand, Busy

LEMMA StartTracked ==
  ASSUME IInv, start_recipe
  PROVE  IInv'
<1>1. /\ pc = "map" /\ step = "start"
      /\ recipe' = [recipe EXCEPT ![Last(used)] = TRUE]
      /\ mapped' = mapped /\ used' = used
      /\ \/ pc' \in {"map", "test"} /\ step' = "next" /\ todo' = todo
         \/ pc' = "cleanup" /\ step' = "next" /\ todo' = used
  BY DEF start_recipe, StartCleanup, Put, New
<1>2. /\ used \in Seq(Machines) /\ todo \in Seq(Machines) /\ used # <<>>
      /\ mapped \in [Machines -> BOOLEAN] /\ recipe \in [Machines -> BOOLEAN]
      /\ \A m \in Machines : mapped[m] \/ recipe[m] => m \in Range(used)
  BY <1>1 DEF IInv, RunTypes, Tracked, AtHand, Busy
<1>3. Last(used) \in Machines /\ Last(used) \in Range(used)
  BY <1>2, RangeLast
<1>4. \A m \in Machines : mapped'[m] \/ recipe'[m] => m \in Range(used)
  BY <1>1, <1>2, <1>3
<1>5. RunTypes'
  BY <1>1, <1>2 DEF RunTypes
<1> QED  BY <1>1, <1>4, <1>5 DEF IInv, Tracked, AtHand, Busy

LEMMA StopTracked ==
  ASSUME IInv, stop_recipe
  PROVE  IInv'
<1>1. /\ pc = "cleanup" /\ pc' = "cleanup" /\ step = "finish" /\ step' = "next"
      /\ mapped' = [mapped EXCEPT ![Head(todo)] = FALSE]
      /\ recipe' = [recipe EXCEPT ![Head(todo)] = FALSE]
      /\ todo' = Tail(todo) /\ used' = used
  BY DEF stop_recipe, Put, Old
<1>2. /\ used \in Seq(Machines) /\ todo \in Seq(Machines) /\ todo # <<>>
      /\ mapped \in [Machines -> BOOLEAN] /\ recipe \in [Machines -> BOOLEAN]
      /\ \A m \in Machines : mapped[m] \/ recipe[m] => m \in Range(todo)
  BY <1>1 DEF IInv, RunTypes, Tracked, AtHand, Busy
<1>3. /\ Head(todo) \in Machines /\ Tail(todo) \in Seq(Machines)
      /\ \A x \in Range(todo) : x = Head(todo) \/ x \in Range(Tail(todo))
  BY <1>2, RangeTail
<1>4. ASSUME NEW m \in Machines, mapped'[m] \/ recipe'[m]
      PROVE  m \in Range(Tail(todo))
  <2>1. m # Head(todo) /\ (mapped[m] \/ recipe[m])
    BY <1>1, <1>2, <1>4
  <2> QED  BY <2>1, <1>2, <1>3
<1>5. RunTypes'
  BY <1>1, <1>2, <1>3 DEF RunTypes
<1> QED  BY <1>1, <1>4, <1>5 DEF IInv, Tracked, AtHand, Busy

LEMMA RunStarts ==
  ASSUME IInv, NEW match \in Matches, next_match(match)
  PROVE  IInv'
<1>1. /\ pc = "idle" /\ pc' = "map" /\ step' = "next"
      /\ todo' = match /\ used' = <<>> /\ mapped' = mapped /\ recipe' = recipe
  BY DEF next_match, objVars
<1>2. match \in Seq(Machines) /\ <<>> \in Seq(Machines)
  BY RunsAssumption
<1> QED  BY <1>1, <1>2 DEF IInv, RunTypes, Tracked, AtHand, Busy

LEMMA RunEnds ==
  ASSUME IInv, run_ends
  PROVE  IInv'
<1>1. /\ pc = "cleanup" /\ pc' = "idle" /\ todo = <<>>
      /\ todo' = todo /\ used' = <<>> /\ mapped' = mapped /\ recipe' = recipe
  BY DEF run_ends, objVars
<1>2. \A m \in Machines : m \notin Range(todo)
  BY <1>1 DEF Range
<1>3. \A m \in Machines : ~mapped[m] /\ ~recipe[m]
  BY <1>1, <1>2 DEF IInv, Tracked, Busy
<1> QED  BY <1>1, <1>3 DEF IInv, RunTypes, Tracked, AtHand, Busy

-----------------------------------------------------------------------------
LEMMA RunsInit == Init => IInv
<1>1. \A m \in Machines : [x \in Machines |-> FALSE][m] = FALSE
  OBVIOUS
<1> QED  BY <1>1 DEF Init, IInv, RunTypes, Tracked, AtHand, Busy

LEMMA RunsStep == IInv /\ [Next]_vars => IInv'
<1> SUFFICES ASSUME IInv, [Next]_vars PROVE IInv'
  OBVIOUS
<1>1. ASSUME NEW match \in Matches, next_match(match) PROVE IInv'
  BY <1>1, RunStarts
<1>2. CASE map_machine
  BY <1>2, MapTracked
<1>3. CASE prepare_machine
  <2>1. /\ pc = "map" /\ step = "prepare" /\ UNCHANGED <<used, mapped, recipe>>
        /\ UNCHANGED <<pc, todo>> \/ StartCleanup
    BY <1>3 DEF prepare_machine
  <2> QED  BY <2>1, ForwardQuiet DEF IInv, AtHand
<1>4. CASE setup_machine
  <2>1. /\ pc = "map" /\ step = "setup" /\ UNCHANGED <<used, mapped, recipe>>
        /\ UNCHANGED <<pc, todo>> \/ StartCleanup
    BY <1>4 DEF setup_machine, objVars
  <2> QED  BY <2>1, ForwardQuiet DEF IInv, AtHand
<1>5. CASE start_recipe
  BY <1>5, StartTracked
<1>6. ASSUME NEW m \in Machines, NEW n \in Names, add_netns(m, n) PROVE IInv'
  <2>1. /\ pc = "test" /\ UNCHANGED <<used, mapped, recipe>>
        /\ UNCHANGED <<pc, todo>> \/ StartCleanup
    BY <1>6 DEF add_netns, AfterCall
  <2> QED  BY <2>1, ForwardQuiet
<1>7. ASSUME NEW m \in Machines, NEW n \in Names \union {Root},
             remote_device_create(m, n)
      PROVE  IInv'
  <2>1. /\ pc = "test" /\ UNCHANGED <<used, mapped, recipe>>
        /\ UNCHANGED <<pc, todo>> \/ StartCleanup
    BY <1>7 DEF remote_device_create, AfterCall, objVars
  <2> QED  BY <2>1, ForwardQuiet
<1>8. CASE test_ends
  <2>1. pc = "test" /\ StartCleanup /\ UNCHANGED <<used, mapped, recipe>>
    BY <1>8 DEF test_ends, objVars
  <2> QED  BY <2>1, ForwardQuiet
<1>9. CASE \/ cleanup \/ kill_jobs \/ restore_system_config
           \/ set_readonly_cache \/ destroy_devices \/ destroy_root
           \/ del_netns \/ bye
  BY <1>9, CleanupCalls
<1>10. CASE stop_recipe
  BY <1>10, StopTracked
<1>11. CASE run_ends
  BY <1>11, RunEnds
<1>12. ASSUME NEW m \in Machines, agent_dies(m) PROVE IInv'
  BY <1>12 DEF agent_dies, ctlVars, objVars, IInv, RunTypes, Tracked, AtHand, Busy
<1>13. CASE UNCHANGED vars
  BY <1>13 DEF vars, ctlVars, objVars, IInv, RunTypes, Tracked, AtHand, Busy
<1> QED
  BY <1>1, <1>2, <1>3, <1>4, <1>5, <1>6, <1>7, <1>8, <1>9, <1>10, <1>11, <1>12, <1>13
     DEF Next, MapStep, TestStep, CleanupStep

(***************************************************************************)
(* However a run ends (Controller.run and _cleanup_agents, with calls that *)
(* raise and agents that are gone), none of the pool's machines is mapped  *)
(* or belongs to a recipe after it.                                        *)
(***************************************************************************)
THEOREM RunsUnmap == Spec => []NothingMappedWhenIdle
<1>1. IInv => NothingMappedWhenIdle
  BY DEF IInv, Tracked, Busy, NothingMappedWhenIdle
<1> QED  BY <1>1, RunsInit, RunsStep, PTL DEF Spec

-----------------------------------------------------------------------------
(***************************************************************************)
(* What the agents hold                                                    *)
(*                                                                         *)
(* Results that stay unread come from deaths: when agents only raise, a    *)
(* call reads all there is to read, and the agent that a command to a      *)
(* missing namespace ended is disconnected by then.  With one kind of      *)
(* fault only, a call to an agent that is there and that returns has had   *)
(* its effect, and the rest follows the steps of Machine.cleanup and       *)
(* prepare_machine.                                                        *)
(***************************************************************************)
OneKind == faults # {"raise", "death"}

Delivered ==
  "death" \notin faults =>
    \A m \in Machines : unread[m] = <<>> /\ (conn[m] = "open" => alive[m])

\* a device is in the root namespace, which has an InterfaceManager then, or in
\* a namespace the agent has
Contained ==
  \A m \in Machines : /\ dirty[m] \subseteq ans[m] \union {Root}
                      /\ Root \in dirty[m] => ifm[m]

\* the Machine object lists every namespace its agent has
Known ==
  OneKind => \A m \in Machines : alive[m] => \A n \in ans[m] : nss[m][n] # 0

\* machines of _machines that prepare_machine, that start_recipe is done with
Ready(m)   == m \in Range(used) /\ ~(pc = "map" /\ step = "prepare" /\ m = New)
Started(m) == m \in Range(used)
              /\ ~(pc = "map" /\ step \in {"prepare", "setup", "start"} /\ m = New)

Numbered == pc # "idle" => run # 0

Mapped ==
  pc = "map" => \A m \in Machines :
    /\ m \in Range(used) => mapped[m] /\ initns[m] = run
    /\ Ready(m) => conn[m] = "open" /\ db[m] = {<<Root, run>>}
    /\ Started(m) => recipe[m]

Prepared ==
  pc \in {"map", "test"} /\ OneKind => \A m \in Machines :
    Ready(m) /\ alive[m] => \A n \in ans[m] : nss[m][n] = run

(***************************************************************************)
(* del_namespaces comes to all namespaces the agent has, and when it does  *)
(* the root namespace is clean; only a cleanup without an exception gets   *)
(* there.                                                                  *)
(***************************************************************************)
Cleaned ==
  pc = "cleanup" =>
    /\ step = "del" => ~retry
    /\ ~retry /\ OneKind /\ todo # <<>> /\ alive[Old] =>
         /\ step = "del" => /\ Root \notin dirty[Old]
                           /\ \A n \in ans[Old] : \E o \in left : o[1] = n
         /\ step = "finish" /\ conn[Old] = "open" =>
              ans[Old] = {} /\ dirty[Old] = {} /\ Listed(Old) = {}

RInv == /\ IInv /\ TypeOK /\ Numbered
        /\ Delivered /\ Contained /\ Known /\ Mapped /\ Prepared /\ Cleaned

-----------------------------------------------------------------------------
(***************************************************************************)
(* What a call may do to the links, and what its outcome says              *)
(***************************************************************************)
LinkTypes ==
  /\ conn \in [Machines -> {"open", "closed"}]
  /\ alive \in [Machines -> BOOLEAN]
  /\ unread \in [Machines -> Seq({"result", "exception"})]
  /\ faults \subseteq {"raise", "death"}

\* no agent comes back, and no connection
LinkStep ==
  /\ LinkTypes' /\ Delivered' /\ faults' = faults
  /\ \A x \in Machines : /\ alive'[x] => alive[x]
                         /\ conn'[x] = "open" => conn[x] = "open"

Outcome(m, n, done, ok) ==
  /\ done => alive[m] /\ Survives(m, n)
  /\ ok => /\ conn[m] = "open"
           /\ \A x \in Machines : mapped[x] /\ conn[x] = "open" => conn'[x] = "open"
  /\ ok /\ alive'[m] /\ OneKind => done

LEMMA LinksTyped == TypeOK => LinkTypes
BY RunsAssumption DEF TypeOK, LinkTypes

Msg == {"result", "exception"}

\* Whatever it reads, a call returns without an exception only when no mapped
\* machine is gone.
LEMMA AnswersTyped ==
  ASSUME NEW m \in Machines, NEW ok \in BOOLEAN, NEW D \in SUBSET Machines,
         NEW queue \in [Machines -> Seq(Msg)],
         Answered(m, queue, D, ok)
  PROVE  /\ unread' \in [Machines -> Seq(Msg)]
         /\ ok => \A d \in D : ~mapped[d]
<1> DEFINE Rest(read, x) == SubSeq(queue[x], read[x] + 1, Len(queue[x]))
<1>1. PICK read \in [Machines -> 0..2] :
        /\ \A x \in Machines : read[x] <= Len(queue[x])
        /\ unread' = [x \in Machines |-> IF x \in D THEN <<>> ELSE Rest(read, x)]
        /\ HardDisconnect(m, D) => ~ok
  BY DEF Answered
<1>2. ASSUME NEW x \in Machines PROVE Rest(read, x) \in Seq(Msg)
  <2>1. queue[x] \in Seq(Msg) /\ read[x] \in 0..2
    OBVIOUS
  <2>2. Len(queue[x]) \in Nat /\ \A i \in 1..Len(queue[x]) : queue[x][i] \in Msg
    BY <2>1
  <2> QED  BY <2>1, <2>2
<1>3. unread' \in [Machines -> Seq(Msg)]
  BY <1>1, <1>2
<1> QED  BY <1>1, <1>3 DEF HardDisconnect

\* Without an answer it returns because a mapped machine is gone.
LEMMA NoAnswer ==
  ASSUME NEW m \in Machines, NEW ok \in BOOLEAN, NEW D \in SUBSET Machines,
         NEW queue \in [Machines -> Seq(Msg)],
         \A x \in Machines : queue[x] = <<>>,
         Answered(m, queue, D, ok)
  PROVE  ~ok /\ D # {} /\ \A x \in Machines : unread'[x] = <<>>
<1>1. PICK read \in [Machines -> 0..2] :
        /\ \A x \in Machines : read[x] <= Len(queue[x])
        /\ unread' = [x \in Machines |-> IF x \in D THEN <<>>
                                         ELSE SubSeq(queue[x], read[x] + 1, Len(queue[x]))]
        /\ IF \/ \E x \in Machines : "exception" \in Range(SubSeq(queue[x], 1, read[x]))
              \/ SubSeq(queue[m], 1, read[m]) = <<"result", "result">>
              \/ HardDisconnect(m, D)
             THEN ~ok
             ELSE ok /\ SubSeq(queue[m], 1, read[m]) = <<"result">>
  BY DEF Answered
<1>2. \A x \in Machines : read[x] = 0
  <2>1. Len(<<>>) = 0
    OBVIOUS
  <2> QED  BY <2>1, <1>1
<1>3. \A x \in Machines : /\ SubSeq(queue[x], 1, read[x]) = <<>>
                          /\ SubSeq(queue[x], read[x] + 1, Len(queue[x])) = <<>>
  <2>1. SubSeq(<<>>, 1, 0) = <<>> /\ SubSeq(<<>>, 0 + 1, Len(<<>>)) = <<>>
    OBVIOUS
  <2> QED  BY <2>1, <1>2
<1>4. Range(<<>>) = {}
  BY DEF Range
<1>5. <<>> # <<"result">> /\ <<>> # <<"result", "result">>
  OBVIOUS
<1> QED  BY <1>1, <1>3, <1>4, <1>5 DEF HardDisconnect

\* When nothing but its answer has come, it reads that.
LEMMA OneAnswer ==
  ASSUME NEW m \in Machines, NEW ok \in BOOLEAN, NEW answer \in Msg,
         NEW queue \in [Machines -> Seq(Msg)],
         queue[m] = <<answer>>,
         \A x \in Machines \ {m} : queue[x] = <<>>,
         Answered(m, queue, {}, ok)
  PROVE  /\ ok => answer = "result"
         /\ \A x \in Machines : unread'[x] = <<>>
<1>1. PICK read \in [Machines -> 0..2] :
        /\ \A x \in Machines : read[x] <= Len(queue[x])
        /\ unread' = [x \in Machines |-> SubSeq(queue[x], read[x] + 1, Len(queue[x]))]
        /\ IF \/ \E x \in Machines : "exception" \in Range(SubSeq(queue[x], 1, read[x]))
              \/ SubSeq(queue[m], 1, read[m]) = <<"result", "result">>
              \/ HardDisconnect(m, {})
             THEN ~ok
             ELSE ok /\ SubSeq(queue[m], 1, read[m]) = <<"result">>
  BY DEF Answered
<1>2. \A x \in Machines : read[x] \in 0..2 /\ read[x] <= Len(queue[x])
  BY <1>1
<1>3. \A x \in Machines \ {m} : /\ read[x] = 0
                                /\ SubSeq(queue[x], 1, read[x]) = <<>>
                                /\ SubSeq(queue[x], read[x] + 1, Len(queue[x])) = <<>>
  <2>1. Len(<<>>) = 0 /\ SubSeq(<<>>, 1, 0) = <<>> /\ SubSeq(<<>>, 0 + 1, Len(<<>>)) = <<>>
    OBVIOUS
  <2>2. \A x \in Machines \ {m} : read[x] = 0
    BY <2>1, <1>2
  <2> QED  BY <2>1, <2>2
<1>4. read[m] \in 0..1
  <2>1. Len(<<answer>>) = 1
    OBVIOUS
  <2>2. read[m] \in 0..2 /\ read[m] <= Len(<<answer>>)
    BY <1>2
  <2> QED  BY <2>1, <2>2
<1>5. read[m] # 0
  <2> SUFFICES ASSUME read[m] = 0 PROVE FALSE
    OBVIOUS
  <2>1. SubSeq(queue[m], 1, read[m]) = <<>>
    <3>1. SubSeq(<<answer>>, 1, 0) = <<>>
      OBVIOUS
    <3> QED  BY <3>1
  <2>2. Range(<<>>) = {} /\ <<>> # <<"result">> /\ <<>> # <<"result", "result">>
    BY DEF Range
  <2> QED  BY <2>1, <2>2, <1>1, <1>3 DEF HardDisconnect
<1>6. read[m] = 1
  BY <1>4, <1>5
<1>7. /\ SubSeq(queue[m], 1, read[m]) = <<answer>>
      /\ SubSeq(queue[m], read[m] + 1, Len(queue[m])) = <<>>
  <2>1. SubSeq(<<answer>>, 1, 1) = <<answer>> /\ SubSeq(<<answer>>, 1 + 1, Len(<<answer>>)) = <<>>
    <3>1. <<answer>> \in Seq(Msg) /\ Len(<<answer>>) = 1
      OBVIOUS
    <3>2. SubSeq(<<answer>>, 1, Len(<<answer>>)) = <<answer>>
      BY <3>1, SubSeqFull
    <3>3. SubSeq(<<answer>>, 1 + 1, 1) = <<>>
      BY SubSeqEmpty
    <3> QED  BY <3>1, <3>2, <3>3
  <2> QED  BY <2>1, <1>6
<1>8. ok => answer = "result"
  <2>1. (<<answer>> = <<"result">>) => answer = "result"
    OBVIOUS
  <2> QED  BY <2>1, <1>7, <1>1
<1> QED  BY <1>1, <1>3, <1>7, <1>8

LEMMA CallOutcome ==
  ASSUME LinkTypes, Delivered, NEW m \in Machines, NEW n,
         NEW done \in BOOLEAN, NEW ok \in BOOLEAN, Rpc(m, n, done, ok)
  PROVE  LinkStep /\ Outcome(m, n, done, ok)
<1>1. CASE ~done /\ ~ok /\ UNCHANGED linkVars
  BY <1>1 DEF LinkStep, LinkTypes, Delivered, Outcome, linkVars
<1>2. CASE ~(~done /\ ~ok /\ UNCHANGED linkVars)
  <2> DEFINE alone == "death" \notin faults
             queue(answer) == IF alive'[m] THEN [unread EXCEPT ![m] = Append(unread[m], answer)]
                                           ELSE unread
  <2>1. PICK answer \in {"result"} \union (IF "raise" \in faults THEN {"exception"} ELSE {}),
             D \in SUBSET {d \in Machines : conn[d] = "open" /\ ~alive'[d]} :
          /\ conn[m] = "open"
          /\ alive' = [alive EXCEPT ![m] = alive[m] /\ Survives(m, n)]
          /\ done => alive'[m]
          /\ alive'[m] /\ answer = "result" => done
          /\ conn' = [d \in Machines |-> IF d \in D THEN "closed" ELSE conn[d]]
          /\ faults' = faults
          /\ Answered(m, queue(answer), D, ok)
    BY <1>2 DEF Rpc, Put
  <2>2. answer \in Msg /\ D \in SUBSET Machines
    BY <2>1 DEF Msg
  <2>3. queue(answer) \in [Machines -> Seq(Msg)]
    <3>1. unread \in [Machines -> Seq(Msg)]
      BY DEF LinkTypes, Msg
    <3>2. Append(unread[m], answer) \in Seq(Msg)
      BY <3>1, <2>2
    <3> QED  BY <3>1, <3>2
  <2>4. unread' \in [Machines -> Seq(Msg)] /\ (ok => \A d \in D : ~mapped[d])
    <3> HIDE DEF queue
    <3> QED  BY <2>1, <2>2, <2>3, AnswersTyped
  <2>5. /\ \A x \in Machines : alive'[x] => alive[x]
        /\ alive'[m] => alive[m] /\ Survives(m, n)
        /\ alive' \in [Machines -> BOOLEAN]
    <3>1. alive \in [Machines -> BOOLEAN] /\ (alive[m] /\ Survives(m, n)) \in BOOLEAN
      BY DEF LinkTypes, Survives
    <3> QED  BY <3>1, <2>1
  <2>6. /\ conn' \in [Machines -> {"open", "closed"}]
        /\ \A x \in Machines : conn'[x] = "open" => conn[x] = "open" /\ x \notin D
        /\ \A x \in Machines : conn[x] = "open" /\ x \notin D => conn'[x] = "open"
    BY <2>1 DEF LinkTypes
  <2>7. ASSUME alone
        PROVE  /\ \A x \in Machines : unread'[x] = <<>> /\ (conn'[x] = "open" => alive'[x])
               /\ ok => answer = "result"
    <3>1. \A x \in Machines : unread[x] = <<>> /\ (conn[x] = "open" => alive[x])
      BY <2>7 DEF Delivered
    <3>2. \A x \in Machines \ {m} : conn[x] = "open" => alive'[x]
      BY <3>1, <2>1 DEF LinkTypes
    <3>3. D \subseteq {m}
      BY <3>2
    <3>4. CASE alive'[m]
      <4>1. D = {}
        BY <3>3, <3>4
      <4>2. queue(answer)[m] = <<answer>> /\ \A x \in Machines \ {m} : queue(answer)[x] = <<>>
        <5>1. Append(<<>>, answer) = <<answer>>
          OBVIOUS
        <5> QED  BY <5>1, <3>1, <3>4 DEF LinkTypes
      <4>3. (ok => answer = "result") /\ \A x \in Machines : unread'[x] = <<>>
        <5> HIDE DEF queue
        <5> QED  BY <4>1, <4>2, <2>1, <2>2, <2>3, OneAnswer
      <4> QED  BY <4>3, <3>2, <3>4, <2>6
    <3>5. CASE ~alive'[m]
      <4>1. \A x \in Machines : queue(answer)[x] = <<>>
        BY <3>1, <3>5
      <4>2. ~ok /\ D # {} /\ \A x \in Machines : unread'[x] = <<>>
        <5> HIDE DEF queue
        <5> QED  BY <4>1, <2>1, <2>2, <2>3, NoAnswer
      <4>3. m \in D
        BY <4>2, <3>3
      <4> QED  BY <4>2, <4>3, <3>2, <2>6
    <3> QED  BY <3>4, <3>5
  <2>8. LinkStep
    BY <2>1, <2>4, <2>5, <2>6, <2>7 DEF LinkStep, LinkTypes, Delivered, Msg
  <2>9. ok /\ alive'[m] /\ OneKind => done
    <3>1. CASE "death" \notin faults
      BY <3>1, <2>7, <2>1
    <3>2. CASE "death" \in faults /\ OneKind
      <4>1. "raise" \notin faults
        BY <3>2 DEF OneKind, LinkTypes
      <4> QED  BY <4>1, <2>1
    <3> QED  BY <3>1, <3>2
  <2> QED  BY <2>1, <2>4, <2>5, <2>6, <2>8, <2>9 DEF Outcome
<1> QED  BY <1>1, <1>2
-----------------------------------------------------------------------------
(***************************************************************************)
(* The clauses that a step disturbs in no other way than by its call       *)
(***************************************************************************)
LEMMA LinksOnly ==
  ASSUME RInv, LinkStep, UNCHANGED <<nss, ans, dirty>>,
         \A m \in Machines : ifm[m] => ifm'[m]
  PROVE  Contained' /\ Known'
BY DEF RInv, Contained, Known, OneKind, LinkStep

LEMMA LinksKept ==
  ASSUME RInv, UNCHANGED linkVars
  PROVE  LinkStep
BY LinksTyped DEF RInv, LinkStep, LinkTypes, Delivered, linkVars

LEMMA PreparedKept ==
  ASSUME RInv, LinkStep, UNCHANGED <<nss, ans, run, used>>,
         pc \in {"map", "test"},
         \A m \in Machines : Ready(m)' => Ready(m)
  PROVE  Prepared'
<1>1. SUFFICES ASSUME pc' \in {"map", "test"}, OneKind',
                      NEW m \in Machines, Ready(m)', alive'[m], NEW n \in ans'[m]
               PROVE  nss'[m][n] = run'
  BY DEF Prepared
<1>2. OneKind /\ alive[m] /\ Ready(m)
  BY <1>1 DEF OneKind, LinkStep
<1> QED  BY <1>1, <1>2 DEF RInv, Prepared

\* the machine that is being mapped
LEMMA NewMachine ==
  ASSUME RInv, pc = "map", step # "next"
  PROVE  New \in Machines /\ New \in Range(used) /\ mapped[New] /\ initns[New] = run
<1>1. used \in Seq(Machines) /\ used # <<>>
  BY DEF RInv, IInv, RunTypes, AtHand
<1>2. Last(used) \in Machines /\ Last(used) \in Range(used)
  BY <1>1, RangeLast
<1> QED  BY <1>2 DEF RInv, Mapped, New

LEMMA RangeTyped ==
  ASSUME RInv
  PROVE  Range(used) \subseteq Machines
BY DEF RInv, IInv, RunTypes, Range

\* Nothing is said of a machine before its cleanup starts.
LEMMA NotAtHand ==
  ASSUME pc' = "cleanup" => step' = "next"
  PROVE  Cleaned'
BY DEF Cleaned

-----------------------------------------------------------------------------
(***************************************************************************)
(* Mapping                                                                 *)
(***************************************************************************)
Content == TypeOK /\ Delivered /\ Contained /\ Known /\ Mapped /\ Prepared /\ Cleaned

LEMMA NextMatchContent ==
  ASSUME RInv, NEW match \in Matches, next_match(match)
  PROVE  Content'
<1>1. LinkStep
  BY LinksKept DEF next_match
<1>2. /\ run' = run + 1 /\ run < MaxRuns /\ pc' = "map" /\ step' = "next"
      /\ todo' = match /\ used' = <<>>
      /\ UNCHANGED <<left, retry, objVars, agentVars, linkVars>>
  BY DEF next_match
<1>3. match \in Seq(Machines) /\ <<>> \in Seq(Machines) /\ run + 1 \in 0..MaxRuns
  BY <1>2, RunsAssumption DEF RInv, TypeOK
<1>4. TypeOK'
  BY <1>1, <1>2, <1>3 DEF RInv, TypeOK, objVars, agentVars, linkVars
<1>5. Range(used') = {}
  BY <1>2 DEF Range
<1>6. Mapped' /\ Prepared'
  BY <1>5 DEF Mapped, Prepared, Ready, Started
<1>7. Contained' /\ Known'
  BY <1>1, <1>2, LinksOnly DEF objVars, agentVars
<1>8. Cleaned'
  BY <1>2, NotAtHand
<1> QED  BY <1>1, <1>4, <1>6, <1>7, <1>8 DEF Content, LinkStep

LEMMA MapMachineContent ==
  ASSUME RInv, map_machine
  PROVE  Content'
<1> DEFINE h == Head(todo)
<1>1. LinkStep
  BY LinksKept DEF map_machine
<1>2. /\ pc = "map" /\ step = "next" /\ todo # <<>>
      /\ used' = Append(used, h) /\ todo' = Tail(todo)
      /\ initns' = [initns EXCEPT ![h] = run] /\ mapped' = [mapped EXCEPT ![h] = TRUE]
      /\ step' = "prepare"
      /\ UNCHANGED <<pc, left, retry, run, recipe, nss, db, agentVars, linkVars>>
  BY DEF map_machine, Put
<1>3. todo \in Seq(Machines) /\ used \in Seq(Machines)
  BY DEF RInv, TypeOK
<1>4. h \in Machines /\ Tail(todo) \in Seq(Machines)
  BY <1>2, <1>3, RangeTail
<1>5. Append(used, h) \in Seq(Machines) /\ Last(Append(used, h)) = h
  <2> HIDE DEF h
  <2> QED  BY <1>3, <1>4, LastOfAppend
<1>6. ASSUME NEW m \in Range(used') PROVE m = h \/ m \in Range(used)
  <2> HIDE DEF h
  <2> QED  BY <1>2, <1>3, <1>4, <1>6, RangeOfAppend
<1>7. TypeOK'
  <2> HIDE DEF h
  <2> QED  BY <1>1, <1>2, <1>3, <1>4, <1>5 DEF RInv, TypeOK, agentVars, linkVars
<1>8. ASSUME NEW m \in Machines, Ready(m)' PROVE m # h /\ m \in Range(used)
  <2>1. m \in Range(used') /\ m # New'
    BY <1>2, <1>8 DEF Ready
  <2>2. New' = h
    BY <1>2, <1>5 DEF New
  <2> QED  BY <2>1, <2>2, <1>6
<1>9. Mapped'
  <2>1. SUFFICES ASSUME NEW m \in Machines
                 PROVE  /\ m \in Range(used') => mapped'[m] /\ initns'[m] = run'
                        /\ Ready(m)' => conn'[m] = "open" /\ db'[m] = {<<Root, run'>>}
                        /\ Started(m)' => recipe'[m]
    BY DEF Mapped
  <2>2. Started(m)' => Ready(m)'
    BY DEF Started, Ready
  <2>3. m \in Range(used) =>
          /\ mapped[m] /\ initns[m] = run
          /\ conn[m] = "open" /\ db[m] = {<<Root, run>>} /\ recipe[m]
    BY <1>2 DEF RInv, Mapped, Ready, Started
  <2>4. ASSUME m \in Range(used') PROVE mapped'[m] /\ initns'[m] = run'
    <3>1. mapped \in [Machines -> BOOLEAN] /\ initns \in [Machines -> 0..MaxRuns]
      BY DEF RInv, TypeOK
    <3>2. CASE m = h
      <4> HIDE DEF h
      <4> QED  BY <3>1, <3>2, <1>2
    <3>3. CASE m # h
      <4>1. mapped[m] /\ initns[m] = run
        BY <3>3, <2>3, <2>4, <1>6
      <4>2. mapped'[m] = mapped[m] /\ initns'[m] = initns[m]
        <5> HIDE DEF h
        <5> QED  BY <3>1, <3>3, <1>2
      <4> QED  BY <4>1, <4>2, <1>2
    <3> QED  BY <3>2, <3>3
  <2> QED  BY <2>2, <2>3, <2>4, <1>2, <1>8 DEF linkVars
<1>10. Prepared'
  <2>1. SUFFICES ASSUME OneKind', NEW m \in Machines, Ready(m)', alive'[m], NEW n \in ans'[m]
                 PROVE  nss'[m][n] = run'
    BY DEF Prepared
  <2>2. Ready(m)
    BY <2>1, <1>2, <1>8 DEF Ready
  <2> QED  BY <2>1, <2>2, <1>2 DEF RInv, Prepared, OneKind, linkVars, agentVars
<1>11. Contained' /\ Known'
  BY <1>1, <1>2, LinksOnly DEF agentVars
<1>12. Cleaned'
  BY <1>2, NotAtHand
<1> QED  BY <1>1, <1>7, <1>9, <1>10, <1>11, <1>12 DEF Content, LinkStep

LEMMA PrepareContent ==
  ASSUME RInv, prepare_machine
  PROVE  Content'
<1>1. PICK done \in BOOLEAN, ok \in BOOLEAN :
        /\ Rpc(New, Root, done, ok)
        /\ IF done THEN /\ ans' = [ans EXCEPT ![New] = {}]
                        /\ ifm' = [ifm EXCEPT ![New] = FALSE]
                        /\ dirty' = [dirty EXCEPT ![New] = {}]
                   ELSE UNCHANGED agentVars
        /\ IF ok THEN /\ db' = [db EXCEPT ![New] = {<<Root, initns[New]>>}]
                      /\ step' = "setup"
                      /\ UNCHANGED <<pc, todo>>
                 ELSE StartCleanup /\ UNCHANGED db
  BY DEF prepare_machine, Put
<1>2. /\ pc = "map" /\ step = "prepare"
      /\ UNCHANGED <<left, retry, run, used, mapped, recipe, initns, nss>>
  BY DEF prepare_machine
<1>3. New \in Machines /\ New \in Range(used) /\ mapped[New] /\ initns[New] = run
  BY <1>2, NewMachine
<1>4. LinkStep /\ Outcome(New, Root, done, ok)
  BY <1>1, <1>3, CallOutcome, LinksTyped DEF RInv
<1>5. /\ ans \in [Machines -> SUBSET Names]
      /\ dirty \in [Machines -> SUBSET (Names \union {Root})]
      /\ ans' \in [Machines -> SUBSET Names]
      /\ dirty' \in [Machines -> SUBSET (Names \union {Root})]
      /\ ifm' \in [Machines -> BOOLEAN]
      /\ \A m \in Machines : /\ ans'[m] = (IF done /\ m = New THEN {} ELSE ans[m])
                             /\ dirty'[m] = (IF done /\ m = New THEN {} ELSE dirty[m])
                             /\ m # New => ifm'[m] = ifm[m]
                             /\ ~done => ifm'[m] = ifm[m]
  <2>1. /\ ans \in [Machines -> SUBSET Names] /\ dirty \in [Machines -> SUBSET (Names \union {Root})]
        /\ ifm \in [Machines -> BOOLEAN]
    BY DEF RInv, TypeOK
  <2> QED  BY <2>1, <1>1, <1>3 DEF agentVars
<1>6. /\ db' \in [Machines -> SUBSET Spaces]
      /\ \A m \in Machines : db'[m] = (IF ok /\ m = New THEN {<<Root, run>>} ELSE db[m])
  <2>1. db \in [Machines -> SUBSET Spaces] /\ <<Root, run>> \in Spaces
    BY DEF RInv, TypeOK, Spaces
  <2> QED  BY <2>1, <1>1, <1>3
<1>7. TypeOK'
  BY <1>1, <1>2, <1>4, <1>5, <1>6 DEF RInv, TypeOK, LinkStep, LinkTypes, StartCleanup
<1>8. Contained'
  BY <1>5 DEF RInv, Contained
<1>9. Known'
  BY <1>2, <1>4, <1>5 DEF RInv, Known, LinkStep, OneKind
<1>10. \/ pc' = "cleanup" /\ step' = "next"
       \/ ok /\ pc' = "map" /\ step' = "setup"
  BY <1>1, <1>2 DEF StartCleanup
<1>11. ASSUME NEW m \in Machines, Ready(m)', m # New PROVE Ready(m)
  BY <1>2, <1>11 DEF Ready, New
<1>12. Mapped'
  <2>1. SUFFICES ASSUME ok, pc' = "map", step' = "setup", NEW m \in Machines
                 PROVE  /\ m \in Range(used') => mapped'[m] /\ initns'[m] = run'
                        /\ Ready(m)' => conn'[m] = "open" /\ db'[m] = {<<Root, run'>>}
                        /\ Started(m)' => recipe'[m]
    BY <1>10 DEF Mapped
  <2>2. m \in Range(used') => mapped'[m] /\ initns'[m] = run'
    BY <1>2 DEF RInv, Mapped
  <2>3. Started(m)' => Started(m)
    BY <1>2, <2>1 DEF Started, New
  <2>4. conn[New] = "open" /\ conn'[New] = "open"
    BY <1>3, <1>4, <2>1 DEF Outcome
  <2>5. ASSUME Ready(m)', m # New PROVE conn'[m] = "open" /\ db'[m] = {<<Root, run'>>}
    <3>1. conn[m] = "open" /\ db[m] = {<<Root, run>>} /\ mapped[m]
      BY <2>5, <1>2, <1>11 DEF RInv, Mapped, Ready
    <3> QED  BY <3>1, <2>1, <2>5, <1>2, <1>4, <1>6 DEF Outcome
  <2>6. recipe' = recipe /\ (Started(m) => recipe[m])
    BY <1>2 DEF RInv, Mapped
  <2> QED  BY <2>1, <2>2, <2>3, <2>4, <2>5, <2>6, <1>2, <1>3, <1>6
<1>13. Prepared'
  <2>1. SUFFICES ASSUME ok, OneKind', NEW m \in Machines, Ready(m)', alive'[m], NEW n \in ans'[m]
                 PROVE  nss'[m][n] = run'
    BY <1>10 DEF Prepared
  <2>2. OneKind /\ alive[m]
    BY <2>1, <1>4 DEF OneKind, LinkStep
  <2>3. CASE m = New
    <3>1. done
      BY <2>1, <2>2, <2>3, <1>4 DEF Outcome
    <3> QED  BY <3>1, <2>1, <2>3, <1>5
  <2>4. CASE m # New
    <3>1. Ready(m) /\ ans'[m] = ans[m]
      BY <2>1, <2>4, <1>5, <1>11
    <3> QED  BY <3>1, <2>1, <2>2, <1>2 DEF RInv, Prepared
  <2> QED  BY <2>3, <2>4
<1>14. Cleaned'
  BY <1>10, NotAtHand
<1> QED  BY <1>4, <1>7, <1>8, <1>9, <1>12, <1>13, <1>14 DEF Content, LinkStep

\* A machine that was ready stays connected when a call returns.
LEMMA StayMapped ==
  ASSUME RInv, pc = "map", UNCHANGED <<run, used, mapped, initns, db>>,
         \A m \in Machines : Ready(m) => conn'[m] = "open",
         \A m \in Machines : Ready(m)' => Ready(m),
         \A m \in Machines : Started(m)' => recipe'[m]
  PROVE  Mapped'
BY DEF RInv, Mapped

LEMMA SetupContent ==
  ASSUME RInv, setup_machine
  PROVE  Content'
<1>1. PICK done \in BOOLEAN, ok \in BOOLEAN :
        /\ Rpc(New, Root, done, ok)
        /\ ifm' = IF done THEN [ifm EXCEPT ![New] = TRUE] ELSE ifm
        /\ IF ok THEN step' = "start" /\ UNCHANGED <<pc, todo>> ELSE StartCleanup
  BY DEF setup_machine, Put
<1>2. /\ pc = "map" /\ step = "setup"
      /\ UNCHANGED <<left, retry, run, used, mapped, recipe, initns, nss, db, ans, dirty>>
  BY DEF setup_machine, objVars
<1>3. New \in Machines
  BY <1>2, NewMachine
<1>4. LinkStep /\ Outcome(New, Root, done, ok)
  BY <1>1, <1>3, CallOutcome, LinksTyped DEF RInv
<1>5. TypeOK' /\ \A m \in Machines : ifm[m] => ifm'[m]
  <2>1. ifm \in [Machines -> BOOLEAN]
    BY DEF RInv, TypeOK
  <2>2. ifm' \in [Machines -> BOOLEAN] /\ \A m \in Machines : ifm[m] => ifm'[m]
    BY <2>1, <1>1, <1>3
  <2> QED  BY <1>1, <1>2, <1>4, <2>2 DEF RInv, TypeOK, LinkStep, LinkTypes, StartCleanup
<1>6. \A m \in Machines : Ready(m)' => Ready(m)
  BY <1>2 DEF Ready
<1>7. \/ pc' = "cleanup" /\ step' = "next"
      \/ ok /\ pc' = "map" /\ step' = "start"
  BY <1>1, <1>2 DEF StartCleanup
<1>8. ASSUME ok PROVE Mapped'
  <2>1. ASSUME NEW m \in Machines, Ready(m) PROVE conn'[m] = "open"
    <3>1. mapped[m] /\ conn[m] = "open"
      BY <2>1, <1>2 DEF RInv, Mapped, Ready
    <3> QED  BY <3>1, <1>4, <1>8 DEF Outcome
  <2>2. ASSUME NEW m \in Machines, Started(m)' PROVE recipe'[m]
    <3>1. Started(m)
      BY <2>2, <1>1, <1>2, <1>8 DEF Started, New
    <3> QED  BY <3>1, <1>2 DEF RInv, Mapped
  <2> QED  BY <2>1, <2>2, <1>2, <1>6, StayMapped
<1>9. Mapped'
  BY <1>7, <1>8 DEF Mapped
<1>10. Prepared' /\ Contained' /\ Known' /\ Cleaned'
  BY <1>2, <1>4, <1>5, <1>6, <1>7, PreparedKept, LinksOnly, NotAtHand
<1> QED  BY <1>4, <1>5, <1>9, <1>10 DEF Content, LinkStep

LEMMA StartContent ==
  ASSUME RInv, start_recipe
  PROVE  Content'
<1>1. PICK done \in BOOLEAN, ok \in BOOLEAN :
        /\ Rpc(New, Root, done, ok)
        /\ IF ok THEN /\ pc' = IF todo = <<>> THEN "test" ELSE "map"
                      /\ step' = "next"
                      /\ UNCHANGED todo
                 ELSE StartCleanup
  BY DEF start_recipe
<1>2. /\ pc = "map" /\ step = "start"
      /\ recipe' = [recipe EXCEPT ![New] = TRUE]
      /\ UNCHANGED <<left, retry, run, used, mapped, initns, nss, db, ans, ifm, dirty>>
  BY DEF start_recipe, Put, agentVars
<1>3. New \in Machines
  BY <1>2, NewMachine
<1>4. LinkStep /\ Outcome(New, Root, done, ok)
  BY <1>1, <1>3, CallOutcome, LinksTyped DEF RInv
<1>5. TypeOK'
  BY <1>1, <1>2, <1>4 DEF RInv, TypeOK, LinkStep, LinkTypes, StartCleanup
<1>6. \A m \in Machines : Ready(m)' => Ready(m)
  BY <1>2 DEF Ready
<1>7. \/ pc' = "cleanup" /\ step' = "next"
      \/ ok /\ pc' \in {"map", "test"} /\ step' = "next"
  BY <1>1, <1>2 DEF StartCleanup
<1>8. ASSUME ok PROVE Mapped'
  <2>1. ASSUME NEW m \in Machines, Ready(m) PROVE conn'[m] = "open"
    <3>1. mapped[m] /\ conn[m] = "open"
      BY <2>1, <1>2 DEF RInv, Mapped, Ready
    <3> QED  BY <3>1, <1>4, <1>8 DEF Outcome
  <2>2. ASSUME NEW m \in Machines, Started(m)' PROVE recipe'[m]
    <3>1. recipe \in [Machines -> BOOLEAN]
      BY DEF RInv, TypeOK
    <3>2. CASE m = New
      BY <3>1, <3>2, <1>2
    <3>3. CASE m # New
      <4>1. Started(m)
        BY <2>2, <3>3, <1>2 DEF Started
      <4> QED  BY <4>1, <3>1, <3>3, <1>2 DEF RInv, Mapped
    <3> QED  BY <3>2, <3>3
  <2> QED  BY <2>1, <2>2, <1>2, <1>6, StayMapped
<1>9. Mapped'
  BY <1>7, <1>8 DEF Mapped
<1>10. Prepared' /\ Contained' /\ Known' /\ Cleaned'
  BY <1>2, <1>4, <1>5, <1>6, <1>7, PreparedKept, LinksOnly, NotAtHand
<1> QED  BY <1>4, <1>5, <1>9, <1>10 DEF Content, LinkStep

-----------------------------------------------------------------------------
(***************************************************************************)
(* The test                                                                *)
(***************************************************************************)
LEMMA AddNetnsContent ==
  ASSUME RInv, NEW m \in Machines, NEW n \in Names, add_netns(m, n)
  PROVE  Content'
<1>1. PICK done \in BOOLEAN, ok \in BOOLEAN :
        /\ Rpc(m, Root, done, ok)
        /\ ans' = IF done THEN [ans EXCEPT ![m] = ans[m] \union {n}] ELSE ans
        /\ AfterCall(ok)
  BY DEF add_netns, Put
<1>2. /\ pc = "test" /\ m \in Range(used) /\ nss[m][n] # run
      /\ nss' = [nss EXCEPT ![m] = [nss[m] EXCEPT ![n] = run]]
      /\ db' = [db EXCEPT ![m] = db[m] \union {<<n, run>>}]
      /\ UNCHANGED <<left, retry, run, used, mapped, recipe, initns, ifm, dirty>>
  BY DEF add_netns, Put
<1>3. \/ pc' = "test"
      \/ pc' = "cleanup" /\ step' = "next"
  BY <1>1, <1>2 DEF AfterCall, StartCleanup
<1>4. LinkStep /\ Outcome(m, Root, done, ok)
  BY <1>1, CallOutcome, LinksTyped DEF RInv
<1>5. /\ ans \in [Machines -> SUBSET Names] /\ ans' \in [Machines -> SUBSET Names]
      /\ \A x \in Machines : ans[x] \subseteq ans'[x]
      /\ \A x \in Machines : \A k \in ans'[x] : k \in ans[x] \/ (x = m /\ k = n)
  <2>1. ans \in [Machines -> SUBSET Names]
    BY DEF RInv, TypeOK
  <2>2. CASE done
    <3>1. \A x \in Machines : ans'[x] = (IF x = m THEN ans[m] \union {n} ELSE ans[x])
      BY <2>1, <2>2, <1>1
    <3> QED  BY <2>1, <2>2, <3>1, <1>1
  <2>3. CASE ~done
    BY <2>1, <2>3, <1>1
  <2> QED  BY <2>2, <2>3
<1>6. /\ nss' \in [Machines -> [Names -> 0..MaxRuns]]
      /\ \A x \in Machines, k \in Names :
           nss'[x][k] = (IF x = m /\ k = n THEN run ELSE nss[x][k])
  <2>1. nss \in [Machines -> [Names -> 0..MaxRuns]] /\ run \in 0..MaxRuns
    BY DEF RInv, TypeOK
  <2>2. [nss[m] EXCEPT ![n] = run] \in [Names -> 0..MaxRuns]
    BY <2>1
  <2>3. nss' \in [Machines -> [Names -> 0..MaxRuns]]
    BY <2>1, <2>2, <1>2
  <2>4. ASSUME NEW x \in Machines, NEW k \in Names
        PROVE  nss'[x][k] = (IF x = m /\ k = n THEN run ELSE nss[x][k])
    <3>1. CASE x = m
      <4>1. nss'[x] = [nss[m] EXCEPT ![n] = run] /\ nss[m] \in [Names -> 0..MaxRuns]
        BY <3>1, <2>1, <1>2
      <4> QED  BY <4>1, <3>1
    <3>2. CASE x # m
      BY <3>2, <2>1, <1>2
    <3> QED  BY <3>1, <3>2
  <2> QED  BY <2>3, <2>4
<1>7. db' \in [Machines -> SUBSET Spaces]
  <2>1. db \in [Machines -> SUBSET Spaces] /\ <<n, run>> \in Spaces
    BY DEF RInv, TypeOK, Spaces
  <2> QED  BY <2>1, <1>2
<1>8. run # 0
  BY <1>2 DEF RInv, Numbered
<1>9. TypeOK'
  BY <1>1, <1>2, <1>4, <1>5, <1>6, <1>7
     DEF RInv, TypeOK, LinkStep, LinkTypes, AfterCall, StartCleanup
<1>10. Contained'
  BY <1>2, <1>5 DEF RInv, Contained
<1>11. Known'
  <2>1. SUFFICES ASSUME OneKind', NEW x \in Machines, alive'[x], NEW k \in ans'[x]
                 PROVE  nss'[x][k] # 0
    BY DEF Known
  <2>2. OneKind /\ alive[x] /\ k \in Names
    BY <2>1, <1>4, <1>5 DEF OneKind, LinkStep
  <2>3. k \in ans[x] => nss[x][k] # 0
    BY <2>2 DEF RInv, Known
  <2> QED  BY <2>1, <2>2, <2>3, <1>5, <1>6, <1>8
<1>12. Mapped'
  BY <1>3 DEF Mapped
<1>13. Prepared'
  <2>1. SUFFICES ASSUME pc' = "test", OneKind', NEW x \in Machines, Ready(x)', alive'[x],
                        NEW k \in ans'[x]
                 PROVE  nss'[x][k] = run'
    BY <1>3 DEF Prepared
  <2>2. OneKind /\ alive[x] /\ Ready(x) /\ k \in Names
    BY <2>1, <1>2, <1>4, <1>5 DEF OneKind, LinkStep, Ready
  <2>3. k \in ans[x] => nss[x][k] = run
    BY <2>2, <1>2 DEF RInv, Prepared
  <2> QED  BY <2>1, <2>2, <2>3, <1>2, <1>5, <1>6
<1>14. Cleaned'
  BY <1>3, NotAtHand
<1> QED  BY <1>4, <1>9, <1>10, <1>11, <1>12, <1>13, <1>14 DEF Content, LinkStep

LEMMA CreateContent ==
  ASSUME RInv, NEW m \in Machines, NEW n \in Names \union {Root}, remote_device_create(m, n)
  PROVE  Content'
<1>1. PICK done \in BOOLEAN, ok \in BOOLEAN :
        /\ Rpc(m, n, done, ok)
        /\ done => (n = Root => ifm[m])
        /\ dirty' = IF done THEN [dirty EXCEPT ![m] = dirty[m] \union {n}] ELSE dirty
        /\ AfterCall(ok)
  BY DEF remote_device_create, Put
<1>2. /\ pc = "test"
      /\ UNCHANGED <<left, retry, run, used, mapped, recipe, initns, nss, db, ans, ifm>>
  BY DEF remote_device_create, objVars
<1>3. \/ pc' = "test"
      \/ pc' = "cleanup" /\ step' = "next"
  BY <1>1, <1>2 DEF AfterCall, StartCleanup
<1>4. LinkStep /\ Outcome(m, n, done, ok)
  BY <1>1, CallOutcome, LinksTyped DEF RInv
<1>5. /\ dirty' \in [Machines -> SUBSET (Names \union {Root})]
      /\ \A x \in Machines : \A k \in dirty'[x] : k \in dirty[x] \/ (done /\ x = m /\ k = n)
  <2>1. dirty \in [Machines -> SUBSET (Names \union {Root})]
    BY DEF RInv, TypeOK
  <2>2. CASE done
    <3>1. \A x \in Machines : dirty'[x] = (IF x = m THEN dirty[m] \union {n} ELSE dirty[x])
      BY <2>1, <2>2, <1>1
    <3> QED  BY <2>1, <2>2, <3>1, <1>1
  <2>3. CASE ~done
    BY <2>1, <2>3, <1>1
  <2> QED  BY <2>2, <2>3
<1>6. TypeOK'
  BY <1>1, <1>2, <1>4, <1>5
     DEF RInv, TypeOK, LinkStep, LinkTypes, AfterCall, StartCleanup
<1>7. Contained'
  <2>1. done => n = Root \/ n \in ans[m]
    BY <1>4 DEF Outcome, Survives
  <2> QED  BY <2>1, <1>1, <1>2, <1>5 DEF RInv, Contained
<1>8. Known'
  BY <1>2, <1>4 DEF RInv, Known, OneKind, LinkStep
<1>9. Mapped'
  BY <1>3 DEF Mapped
<1>10. \A x \in Machines : Ready(x)' => Ready(x)
  BY <1>2 DEF Ready
<1>11. Prepared' /\ Cleaned'
  BY <1>2, <1>3, <1>4, <1>10, PreparedKept, NotAtHand
<1> QED  BY <1>4, <1>6, <1>7, <1>8, <1>9, <1>11 DEF Content, LinkStep

LEMMA TestEndsContent ==
  ASSUME RInv, test_ends
  PROVE  Content'
<1>1. /\ pc' = "cleanup" /\ step' = "next" /\ todo' = used
      /\ UNCHANGED <<left, retry, run, used, objVars, agentVars, linkVars>>
  BY DEF test_ends, StartCleanup
<1>2. LinkStep
  BY <1>1, LinksKept
<1>3. TypeOK'
  BY <1>1 DEF RInv, TypeOK, objVars, agentVars, linkVars
<1>4. Contained' /\ Known' /\ Cleaned'
  BY <1>1, <1>2, LinksOnly, NotAtHand DEF objVars, agentVars
<1>5. Mapped' /\ Prepared'
  BY <1>1 DEF Mapped, Prepared
<1> QED  BY <1>2, <1>3, <1>4, <1>5 DEF Content, LinkStep

LEMMA DeathContent ==
  ASSUME RInv, NEW m \in Machines, agent_dies(m)
  PROVE  Content'
<1>1. /\ "death" \in faults /\ alive' = [alive EXCEPT ![m] = FALSE]
      /\ UNCHANGED <<ctlVars, conn, objVars, agentVars, unread, faults>>
  BY DEF agent_dies, Put
<1>2. alive' \in [Machines -> BOOLEAN] /\ \A x \in Machines : alive'[x] => alive[x]
  BY <1>1 DEF RInv, TypeOK
<1>3. TypeOK'
  BY <1>1, <1>2 DEF RInv, TypeOK, ctlVars, objVars, agentVars
<1>4. LinkStep
  BY <1>1, <1>2, <1>3, LinksTyped, RunsAssumption
     DEF LinkStep, LinkTypes, Delivered, TypeOK
<1>5. Contained' /\ Known'
  BY <1>1, <1>4, LinksOnly DEF objVars, agentVars
<1>6. Mapped'
  <2>1. /\ UNCHANGED <<pc, step, run, used, mapped, initns, conn, db, recipe>>
        /\ \A x \in Machines : (Ready(x)' => Ready(x)) /\ (Started(x)' => Started(x))
    BY <1>1 DEF ctlVars, objVars, Ready, Started, New
  <2> QED  BY <2>1 DEF RInv, Mapped
<1>7. Prepared'
  <2>1. \A x \in Machines : Ready(x)' => Ready(x)
    BY <1>1 DEF ctlVars, Ready, New
  <2>2. SUFFICES ASSUME pc' \in {"map", "test"}, OneKind', NEW x \in Machines, Ready(x)',
                        alive'[x], NEW k \in ans'[x]
                 PROVE  nss'[x][k] = run'
    BY DEF Prepared
  <2> QED  BY <2>1, <2>2, <1>1, <1>2
             DEF RInv, Prepared, OneKind, ctlVars, objVars, agentVars
<1>8. Cleaned'
  <2>1. UNCHANGED <<pc, step, todo, left, retry, ans, dirty, nss, conn, faults>>
    BY <1>1 DEF ctlVars, objVars, agentVars
  <2>2. todo # <<>> => Old \in Machines /\ Old' = Old
    BY <2>1, RangeTail DEF RInv, TypeOK, Old
  <2>3. todo # <<>> /\ alive'[Old'] => alive[Old]
    BY <2>2, <1>2
  <2>4. todo # <<>> => Listed(Old)' = Listed(Old)
    BY <2>1, <2>2 DEF Listed
  <2> QED  BY <2>1, <2>2, <2>3, <2>4 DEF RInv, Cleaned, OneKind
<1> QED  BY <1>3, <1>4, <1>5, <1>6, <1>7, <1>8 DEF Content, LinkStep

-----------------------------------------------------------------------------
(***************************************************************************)
(* The cleanup                                                             *)
(***************************************************************************)
LEMMA OldMachine ==
  ASSUME RInv, pc = "cleanup", step # "next"
  PROVE  Old \in Machines
<1>1. todo \in Seq(Machines) /\ todo # <<>>
  BY DEF RInv, IInv, RunTypes, AtHand
<1> QED  BY <1>1, RangeTail DEF Old

LEMMA ListedTyped ==
  ASSUME RInv, NEW m \in Machines
  PROVE  Listed(m) \subseteq Names \X (1..MaxRuns)
<1>1. \A n \in Names : nss[m][n] \in 0..MaxRuns
  BY DEF RInv, TypeOK
<1> QED  BY <1>1 DEF Listed

\* where a step of the cleanup goes next
Steps == {"next", "prepare", "setup", "start", "kill_jobs", "restore_root",
          "restore", "cache", "destroy", "del", "finish"}
CleanupTypes == step' \in Steps /\ left' \subseteq Names \X (1..MaxRuns) /\ retry' \in BOOLEAN

LEMMA AbortGoes ==
  ASSUME RInv, pc = "cleanup", step # "next", Abort
  PROVE  CleanupTypes /\ step' # "del" /\ (step' = "finish" => retry')
<1>1. Listed(Old) \subseteq Names \X (1..MaxRuns)
  BY OldMachine, ListedTyped
<1>2. CASE ~retry /\ Goto("cache") /\ retry' = TRUE
  BY <1>1, <1>2 DEF Goto, CleanupTypes, Steps
<1>3. CASE retry /\ step' = "finish" /\ UNCHANGED <<left, retry>>
  BY <1>3 DEF CleanupTypes, Steps, RInv, TypeOK
<1> QED  BY <1>2, <1>3 DEF Abort

\* what all calls of the cleanup keep
LEMMA CleanupKeeps ==
  ASSUME RInv, pc = "cleanup", unchangedCleanup, LinkStep, CleanupTypes,
         nss' \in [Machines -> [Names -> 0..MaxRuns]],
         ans' \in [Machines -> SUBSET Names], ifm' = ifm,
         dirty' \in [Machines -> SUBSET (Names \union {Root})]
  PROVE  TypeOK' /\ Mapped' /\ Prepared' /\ Old' = Old
<1>1. /\ UNCHANGED <<pc, run, todo, used, mapped, recipe, initns, db>>
      /\ Spaces' = Spaces
  BY DEF unchangedCleanup, Spaces
<1> QED  BY <1>1 DEF RInv, TypeOK, Mapped, Prepared, Old,
                     LinkStep, LinkTypes, CleanupTypes, Steps

\* calls that change nothing the agent holds
LEMMA QuietCall ==
  ASSUME RInv, pc = "cleanup", todo # <<>>, unchangedCleanup, LinkStep, CleanupTypes,
         UNCHANGED <<nss, ans, ifm, dirty>>,
         step' # "del",
         step' = "finish" => retry' \/ conn[Old] = "closed"
  PROVE  Content'
<1>1. TypeOK' /\ Mapped' /\ Prepared' /\ Old' = Old
  BY CleanupKeeps DEF RInv, TypeOK
<1>2. Contained' /\ Known'
  BY LinksOnly
<1>3. Old \in Machines
  BY RangeTail DEF RInv, TypeOK, Old
<1>4. conn[Old] = "closed" => conn'[Old] # "open"
  BY <1>3 DEF LinkStep
<1>5. Cleaned'
  BY <1>1, <1>4 DEF Cleaned
<1> QED  BY <1>1, <1>2, <1>5 DEF Content, LinkStep

\* what a call for the machine at hand says
LEMMA CallInCleanup ==
  ASSUME RInv, pc = "cleanup", step # "next",
         NEW n, NEW done \in BOOLEAN, NEW ok \in BOOLEAN, Rpc(Old, n, done, ok)
  PROVE  LinkStep /\ Outcome(Old, n, done, ok)
BY OldMachine, CallOutcome, LinksTyped DEF RInv

LEMMA CleanupStarts ==
  ASSUME RInv, cleanup
  PROVE  Content'
<1>1. /\ pc = "cleanup" /\ step = "next" /\ todo # <<>> /\ retry' = FALSE
      /\ unchangedCleanup /\ UNCHANGED <<nss, agentVars, linkVars>>
      /\ \/ conn[Old] = "closed" /\ step' = "finish" /\ left' = left
         \/ step' = "kill_jobs" /\ left' = Listed(Old)
  BY DEF cleanup, Goto
<1>2. Old \in Machines
  BY <1>1, RangeTail DEF RInv, TypeOK, Old
<1>3. CleanupTypes
  BY <1>1, <1>2, ListedTyped DEF CleanupTypes, Steps, RInv, TypeOK
<1>4. LinkStep
  BY <1>1, LinksKept
<1> QED  BY <1>1, <1>3, <1>4, QuietCall DEF agentVars

\* a call of a loop, or the one for the root namespace, that changes nothing
LEMMA LoopCall ==
  ASSUME RInv, pc = "cleanup", step \in {"kill_jobs", "restore_root", "restore"},
         unchangedCleanup, UNCHANGED <<nss, agentVars>>,
         NEW n, NEW done \in BOOLEAN, NEW ok \in BOOLEAN, Rpc(Old, n, done, ok),
         \/ \E o \in left : left' = left \ {o} /\ UNCHANGED <<step, retry>>
         \/ \E s \in {"restore_root", "restore"} : Goto(s) /\ UNCHANGED retry
         \/ Abort
  PROVE  Content'
<1>1. todo # <<>>
  BY DEF RInv, IInv, AtHand
<1>2. LinkStep
  BY CallInCleanup
<1>3. CleanupTypes /\ step' # "del" /\ (step' = "finish" => retry')
  <2>1. CASE \E o \in left : left' = left \ {o} /\ UNCHANGED <<step, retry>>
    BY <2>1 DEF CleanupTypes, Steps, RInv, TypeOK
  <2>2. CASE \E s \in {"restore_root", "restore"} : Goto(s) /\ UNCHANGED retry
    BY <2>2, OldMachine, ListedTyped DEF CleanupTypes, Steps, RInv, TypeOK, Goto
  <2> QED  BY <2>1, <2>2, AbortGoes
<1> QED  BY <1>1, <1>2, <1>3, QuietCall DEF agentVars

LEMMA LoopContent ==
  ASSUME RInv, kill_jobs \/ restore_system_config
  PROVE  Content'
<1>1. ASSUME NEW loop \in {"kill_jobs", "restore"}, call_in_netns(loop) PROVE Content'
  <2>1. PICK o \in left, done \in BOOLEAN, ok \in BOOLEAN :
          /\ Rpc(Old, o[1], done, ok)
          /\ IF ok THEN left' = left \ {o} /\ UNCHANGED <<step, retry>> ELSE Abort
    BY <1>1 DEF call_in_netns
  <2>2. pc = "cleanup" /\ step = loop /\ unchangedCleanup /\ UNCHANGED <<nss, agentVars>>
    BY <1>1 DEF call_in_netns
  <2> QED  BY <2>1, <2>2, LoopCall
<1>2. ASSUME call_in_root("kill_jobs", "restore_root") PROVE Content'
  <2>1. PICK done \in BOOLEAN, ok \in BOOLEAN :
          /\ Rpc(Old, Root, done, ok)
          /\ IF ok THEN Goto("restore_root") /\ UNCHANGED retry ELSE Abort
    BY <1>2 DEF call_in_root
  <2>2. pc = "cleanup" /\ step = "kill_jobs" /\ unchangedCleanup /\ UNCHANGED <<nss, agentVars>>
    BY <1>2 DEF call_in_root
  <2> QED  BY <2>1, <2>2, LoopCall
<1>3. ASSUME restore_root PROVE Content'
  <2>1. PICK done \in BOOLEAN, ok \in BOOLEAN :
          /\ Rpc(Old, Root, done, ok)
          /\ IF ok THEN Goto("restore") /\ UNCHANGED retry ELSE Abort
    BY <1>3 DEF restore_root
  <2>2. /\ pc = "cleanup" /\ step = "restore_root"
        /\ unchangedCleanup /\ UNCHANGED <<nss, agentVars>>
    BY <1>3 DEF restore_root
  <2> QED  BY <2>1, <2>2, LoopCall
<1> QED  BY <1>1, <1>2, <1>3 DEF kill_jobs, restore_system_config

LEMMA CacheContent ==
  ASSUME RInv, set_readonly_cache
  PROVE  Content'
<1>1. /\ pc = "cleanup" /\ step \in {"cache", "restore"}
      /\ (Goto("destroy") /\ UNCHANGED retry) \/ Abort
      /\ unchangedCleanup /\ UNCHANGED <<nss, agentVars, linkVars>>
  BY DEF set_readonly_cache
<1>2. todo # <<>> /\ LinkStep
  BY <1>1, LinksKept DEF RInv, IInv, AtHand
<1>3. CleanupTypes /\ step' # "del" /\ (step' = "finish" => retry')
  <2>1. CASE Goto("destroy") /\ UNCHANGED retry
    BY <1>1, <2>1, OldMachine, ListedTyped DEF CleanupTypes, Steps, RInv, TypeOK, Goto
  <2> QED  BY <1>1, <2>1, AbortGoes
<1> QED  BY <1>1, <1>2, <1>3, QuietCall DEF agentVars

\* what destroying devices in a namespace leaves
LEMMA DestroyedLeaves ==
  ASSUME RInv, Old \in Machines, NEW n, NEW done \in BOOLEAN, Destroyed(n, done)
  PROVE  /\ dirty' \in [Machines -> SUBSET (Names \union {Root})]
         /\ \A x \in Machines : dirty'[x] \subseteq dirty[x]
         /\ done => n \notin dirty'[Old]
<1>1. dirty \in [Machines -> SUBSET (Names \union {Root})]
  BY DEF RInv, TypeOK
<1>2. CASE done /\ (n = Root => ifm[Old])
  <2>1. dirty' = [dirty EXCEPT ![Old] = dirty[Old] \ {n}]
    BY <1>2 DEF Destroyed, Put
  <2> QED  BY <2>1, <1>1
<1>3. CASE ~(done /\ (n = Root => ifm[Old]))
  <2>1. dirty' = dirty
    BY <1>3 DEF Destroyed
  <2>2. done => n = Root /\ Root \notin dirty[Old]
    BY <1>3 DEF RInv, Contained
  <2> QED  BY <2>1, <2>2, <1>1
<1> QED  BY <1>2, <1>3

LEMMA DestroyContent ==
  ASSUME RInv, destroy_devices
  PROVE  Content'
<1>1. PICK o \in left, done \in BOOLEAN, ok \in BOOLEAN :
        /\ Rpc(Old, o[1], done, ok)
        /\ Destroyed(o[1], done)
        /\ IF ok THEN left' = left \ {o} /\ UNCHANGED <<step, retry>> ELSE Abort
  BY DEF destroy_devices
<1>2. pc = "cleanup" /\ step = "destroy" /\ unchangedCleanup /\ UNCHANGED <<nss, ans, ifm>>
  BY DEF destroy_devices
<1>3. Old \in Machines /\ LinkStep
  BY <1>1, <1>2, OldMachine, CallInCleanup
<1>4. CleanupTypes /\ step' # "del" /\ (step' = "finish" => retry')
  <2>1. CASE left' = left \ {o} /\ UNCHANGED <<step, retry>>
    BY <2>1, <1>2 DEF CleanupTypes, Steps, RInv, TypeOK
  <2> QED  BY <2>1, <1>1, <1>2, AbortGoes
<1>5. dirty' \in [Machines -> SUBSET (Names \union {Root})]
      /\ \A x \in Machines : dirty'[x] \subseteq dirty[x]
  BY <1>1, <1>3, DestroyedLeaves
<1>6. TypeOK' /\ Mapped' /\ Prepared'
  BY <1>2, <1>3, <1>4, <1>5, CleanupKeeps DEF RInv, TypeOK
<1>7. Contained' /\ Known'
  BY <1>2, <1>3, <1>5 DEF RInv, Contained, Known, OneKind, LinkStep
<1>8. Cleaned'
  BY <1>4 DEF Cleaned
<1> QED  BY <1>3, <1>6, <1>7, <1>8 DEF Content, LinkStep

LEMMA DestroyRootContent ==
  ASSUME RInv, destroy_root
  PROVE  Content'
<1>1. PICK done \in BOOLEAN, ok \in BOOLEAN :
        /\ Rpc(Old, Root, done, ok)
        /\ Destroyed(Root, done)
        /\ \/ ok /\ ~retry /\ Goto("del") /\ UNCHANGED retry
           \/ ok /\ retry /\ step' = "finish" /\ UNCHANGED <<left, retry>>
           \/ ~ok /\ Abort
  BY DEF destroy_root
<1>2. pc = "cleanup" /\ step = "destroy" /\ unchangedCleanup /\ UNCHANGED <<nss, ans, ifm>>
  BY DEF destroy_root
<1>3. Old \in Machines /\ LinkStep /\ Outcome(Old, Root, done, ok)
  BY <1>1, <1>2, OldMachine, CallInCleanup
<1>4. /\ CleanupTypes /\ (step' = "finish" => retry')
      /\ step' = "del" => ok /\ ~retry' /\ left' = Listed(Old)
  <2>1. CASE ok /\ ~retry /\ Goto("del") /\ UNCHANGED retry
    BY <2>1, <1>3, ListedTyped DEF Goto, CleanupTypes, Steps, RInv, TypeOK
  <2>2. CASE ok /\ retry /\ step' = "finish" /\ UNCHANGED <<left, retry>>
    BY <2>2 DEF CleanupTypes, Steps, RInv, TypeOK
  <2>3. CASE ~ok /\ Abort
    BY <2>3, <1>2, AbortGoes
  <2> QED  BY <2>1, <2>2, <2>3, <1>1
<1>5. /\ dirty' \in [Machines -> SUBSET (Names \union {Root})]
      /\ \A x \in Machines : dirty'[x] \subseteq dirty[x]
      /\ done => Root \notin dirty'[Old]
  BY <1>1, <1>3, DestroyedLeaves
<1>6. TypeOK' /\ Mapped' /\ Prepared' /\ Old' = Old
  BY <1>2, <1>3, <1>4, <1>5, CleanupKeeps DEF RInv, TypeOK
<1>7. Contained' /\ Known'
  BY <1>2, <1>3, <1>5 DEF RInv, Contained, Known, OneKind, LinkStep
<1>8. ASSUME step' = "del", OneKind', alive'[Old]
      PROVE  Root \notin dirty'[Old] /\ \A n \in ans'[Old] : \E o \in left' : o[1] = n
  <2>1. OneKind /\ alive[Old]
    BY <1>3, <1>8 DEF OneKind, LinkStep
  <2>2. done
    BY <2>1, <1>3, <1>4, <1>8 DEF Outcome
  <2>3. \A n \in ans[Old] : n \in Names /\ nss[Old][n] # 0
    BY <2>1, <1>3 DEF RInv, Known, TypeOK
  <2>4. \A n \in ans[Old] : <<n, nss[Old][n]>> \in Listed(Old)
    BY <2>3 DEF Listed
  <2>5. ASSUME NEW n \in ans'[Old] PROVE \E o \in left' : o[1] = n
    <3>1. n \in ans[Old] /\ left' = Listed(Old)
      BY <1>2, <1>4, <1>8
    <3>2. <<n, nss[Old][n]>>[1] = n
      OBVIOUS
    <3> QED  BY <2>4, <3>1, <3>2
  <2> QED  BY <2>2, <2>5, <1>5
<1>9. Cleaned'
  BY <1>4, <1>6, <1>8 DEF Cleaned
<1> QED  BY <1>3, <1>6, <1>7, <1>9 DEF Content, LinkStep

LEMMA DelContent ==
  ASSUME RInv, del_netns
  PROVE  Content'
<1>1. PICK o \in left, done \in BOOLEAN, ok \in BOOLEAN :
        /\ Rpc(Old, Root, done, ok)
        /\ IF done THEN /\ ans' = [ans EXCEPT ![Old] = ans[Old] \ {o[1]}]
                        /\ dirty' = [dirty EXCEPT ![Old] = dirty[Old] \ {o[1]}]
                   ELSE UNCHANGED <<ans, dirty>>
        /\ IF ok THEN left' = left \ {o} /\ UNCHANGED <<step, retry>> ELSE Abort
  BY DEF del_netns, Put
<1>2. pc = "cleanup" /\ step = "del" /\ unchangedCleanup /\ UNCHANGED <<nss, ifm>>
  BY DEF del_netns
<1>3. Old \in Machines /\ LinkStep /\ Outcome(Old, Root, done, ok)
  BY <1>1, <1>2, OldMachine, CallInCleanup
<1>4. /\ CleanupTypes /\ (step' = "finish" => retry')
      /\ step' = "del" => ok /\ left' = left \ {o} /\ retry' = retry
  <2>1. CASE ok
    BY <2>1, <1>1, <1>2 DEF CleanupTypes, Steps, RInv, TypeOK
  <2>2. CASE ~ok
    BY <2>2, <1>1, <1>2, AbortGoes
  <2> QED  BY <2>1, <2>2
<1>5. /\ dirty' \in [Machines -> SUBSET (Names \union {Root})]
      /\ \A x \in Machines : dirty'[x] \subseteq dirty[x]
      /\ done => dirty'[Old] = dirty[Old] \ {o[1]}
  <2>1. dirty \in [Machines -> SUBSET (Names \union {Root})]
    BY DEF RInv, TypeOK
  <2> QED  BY <2>1, <1>1, <1>3
<1>6. /\ ans \in [Machines -> SUBSET Names] /\ ans' \in [Machines -> SUBSET Names]
      /\ \A x \in Machines : ans'[x] = (IF done /\ x = Old THEN ans[x] \ {o[1]} ELSE ans[x])
  <2>1. ans \in [Machines -> SUBSET Names]
    BY DEF RInv, TypeOK
  <2> QED  BY <2>1, <1>1, <1>3
<1>7. TypeOK' /\ Mapped' /\ Prepared' /\ Old' = Old
  BY <1>2, <1>3, <1>4, <1>5, <1>6, CleanupKeeps DEF RInv, TypeOK
<1>8. Contained'
  <2>1. ASSUME NEW x \in Machines PROVE dirty'[x] \subseteq ans'[x] \union {Root}
    <3>1. dirty[x] \subseteq ans[x] \union {Root}
      BY DEF RInv, Contained
    <3>2. CASE done /\ x = Old
      BY <3>1, <3>2, <1>5, <1>6
    <3>3. CASE ~(done /\ x = Old)
      BY <3>1, <3>3, <1>5, <1>6
    <3> QED  BY <3>2, <3>3
  <2>2. \A x \in Machines : Root \in dirty'[x] => ifm'[x]
    BY <1>2, <1>5 DEF RInv, Contained
  <2> QED  BY <2>1, <2>2 DEF Contained
<1>9. Known'
  BY <1>2, <1>3, <1>6 DEF RInv, Known, OneKind, LinkStep
<1>10. ASSUME step' = "del", OneKind', alive'[Old]
       PROVE  /\ ~retry' /\ Root \notin dirty'[Old]
              /\ \A n \in ans'[Old] : \E p \in left' : p[1] = n
  <2>1. OneKind /\ alive[Old] /\ ok /\ left' = left \ {o} /\ retry' = retry
    BY <1>3, <1>4, <1>10 DEF OneKind, LinkStep
  <2>2. done
    BY <2>1, <1>3, <1>10 DEF Outcome
  <2>3. todo # <<>>
    BY <1>2 DEF RInv, IInv, AtHand
  <2>4. /\ ~retry /\ Root \notin dirty[Old]
        /\ \A n \in ans[Old] : \E p \in left : p[1] = n
    BY <2>1, <2>3, <1>2 DEF RInv, Cleaned
  <2>5. \A n \in ans'[Old] : n \in ans[Old] /\ n # o[1]
    BY <2>2, <1>3, <1>6
  <2>6. ASSUME NEW n \in ans'[Old] PROVE \E p \in left' : p[1] = n
    <3>1. PICK p \in left : p[1] = n
      BY <2>4, <2>5, <2>6
    <3>2. p # o
      BY <2>5, <3>1
    <3> QED  BY <2>1, <3>1, <3>2
  <2> QED  BY <2>1, <2>4, <2>6, <1>3, <1>5
<1>11. step' = "del" => ~retry'
  <2>1. ~retry
    BY <1>2 DEF RInv, Cleaned
  <2> QED  BY <2>1, <1>4
<1>12. Cleaned'
  BY <1>4, <1>7, <1>10, <1>11 DEF Cleaned
<1> QED  BY <1>3, <1>7, <1>8, <1>9, <1>12 DEF Content, LinkStep

LEMMA ByeContent ==
  ASSUME RInv, bye
  PROVE  Content'
<1>1. PICK done \in BOOLEAN, ok \in BOOLEAN :
        /\ Rpc(Old, Root, done, ok)
        /\ \/ ok /\ step' = "finish" /\ UNCHANGED <<left, retry>>
           \/ ~ok /\ step' = "cache" /\ left' = {} /\ retry' = TRUE
  BY DEF bye
<1>2. /\ pc = "cleanup" /\ step = "del" /\ left = {}
      /\ nss' = [nss EXCEPT ![Old] = [n \in Names |-> 0]]
      /\ unchangedCleanup /\ UNCHANGED <<ans, ifm, dirty>>
  BY DEF bye, Put, agentVars
<1>3. Old \in Machines /\ LinkStep
  BY <1>1, <1>2, OldMachine, CallInCleanup
<1>4. CleanupTypes /\ step' # "del"
  BY <1>1 DEF CleanupTypes, Steps, RInv, TypeOK
<1>5. /\ nss' \in [Machines -> [Names -> 0..MaxRuns]]
      /\ \A x \in Machines : x # Old => nss'[x] = nss[x]
      /\ \A n \in Names : nss'[Old][n] = 0
  <2>1. nss \in [Machines -> [Names -> 0..MaxRuns]] /\ 0 \in 0..MaxRuns
    BY RunsAssumption DEF RInv, TypeOK
  <2>2. [n \in Names |-> 0] \in [Names -> 0..MaxRuns]
    BY <2>1
  <2>3. nss' \in [Machines -> [Names -> 0..MaxRuns]]
    BY <2>1, <2>2, <1>2
  <2>4. nss'[Old] = [n \in Names |-> 0]
    BY <2>1, <1>2, <1>3
  <2> QED  BY <2>1, <2>3, <2>4, <1>2
<1>6. ASSUME OneKind, alive[Old] PROVE ans[Old] = {} /\ dirty[Old] = {}
  <2>1. todo # <<>> /\ ~retry
    BY <1>2 DEF RInv, IInv, AtHand, Cleaned
  <2>2. Root \notin dirty[Old] /\ \A n \in ans[Old] : \E p \in left : p[1] = n
    BY <2>1, <1>2, <1>6 DEF RInv, Cleaned
  <2>3. ans[Old] = {}
    BY <2>2, <1>2
  <2>4. dirty[Old] \subseteq ans[Old] \union {Root}
    BY <1>3 DEF RInv, Contained
  <2> QED  BY <2>2, <2>3, <2>4
<1>7. TypeOK' /\ Mapped' /\ Prepared' /\ Old' = Old
  BY <1>2, <1>3, <1>4, <1>5, CleanupKeeps DEF RInv, TypeOK
<1>8. Contained'
  BY <1>2 DEF RInv, Contained
<1>9. Known'
  <2>1. SUFFICES ASSUME OneKind', NEW x \in Machines, alive'[x], NEW n \in ans'[x]
                 PROVE  nss'[x][n] # 0
    BY DEF Known
  <2>2. OneKind /\ alive[x] /\ n \in ans[x]
    BY <2>1, <1>2, <1>3 DEF OneKind, LinkStep
  <2>3. x # Old
    BY <2>2, <1>6
  <2> QED  BY <2>2, <2>3, <1>5 DEF RInv, Known
<1>10. Listed(Old)' = {}
  BY <1>5, <1>7 DEF Listed
<1>11. Cleaned'
  <2>1. OneKind' /\ alive'[Old] => OneKind /\ alive[Old]
    BY <1>3 DEF OneKind, LinkStep
  <2> QED  BY <2>1, <1>2, <1>4, <1>6, <1>7, <1>10 DEF Cleaned
<1> QED  BY <1>3, <1>7, <1>8, <1>9, <1>11 DEF Content, LinkStep

LEMMA StopContent ==
  ASSUME RInv, stop_recipe
  PROVE  Content'
<1>1. /\ pc = "cleanup" /\ step = "finish" /\ todo' = Tail(todo) /\ step' = "next"
      /\ mapped' = [mapped EXCEPT ![Old] = FALSE] /\ recipe' = [recipe EXCEPT ![Old] = FALSE]
      /\ UNCHANGED <<pc, left, retry, run, used, initns, nss, db, agentVars, linkVars>>
  BY DEF stop_recipe, Put
<1>2. LinkStep
  BY <1>1, LinksKept
<1>3. Tail(todo) \in Seq(Machines)
  BY <1>1, RangeTail DEF RInv, IInv, RunTypes, AtHand
<1>4. TypeOK'
  BY <1>1, <1>3 DEF RInv, TypeOK, agentVars, linkVars
<1>5. Contained' /\ Known' /\ Cleaned'
  BY <1>1, <1>2, LinksOnly, NotAtHand DEF agentVars
<1>6. Mapped' /\ Prepared'
  BY <1>1 DEF Mapped, Prepared
<1> QED  BY <1>2, <1>4, <1>5, <1>6 DEF Content, LinkStep

LEMMA RunEndsContent ==
  ASSUME RInv, run_ends
  PROVE  Content'
<1>1. /\ pc' = "idle" /\ used' = <<>>
      /\ UNCHANGED <<step, left, retry, run, todo, objVars, agentVars, linkVars>>
  BY DEF run_ends
<1>2. LinkStep
  BY <1>1, LinksKept
<1>3. TypeOK'
  BY <1>1 DEF RInv, TypeOK, objVars, agentVars, linkVars
<1>4. Contained' /\ Known' /\ Cleaned'
  BY <1>1, <1>2, LinksOnly, NotAtHand DEF objVars, agentVars
<1>5. Mapped' /\ Prepared'
  BY <1>1 DEF Mapped, Prepared
<1> QED  BY <1>2, <1>3, <1>4, <1>5 DEF Content, LinkStep

-----------------------------------------------------------------------------
\* Only run_ends makes Controller.run idle, and only next_match leaves that.
LEMMA NumberedStep ==
  ASSUME RInv, [Next]_vars
  PROVE  Numbered'
<1>1. ASSUME UNCHANGED run, pc' # "idle" => pc # "idle" PROVE Numbered'
  BY <1>1 DEF RInv, Numbered
<1>2. ASSUME NEW match \in Matches, next_match(match) PROVE Numbered'
  BY <1>2 DEF next_match, Numbered, RInv, TypeOK
<1>3. MapStep => UNCHANGED run /\ pc # "idle"
  BY DEF MapStep, map_machine, prepare_machine, setup_machine, start_recipe
<1>4. TestStep => UNCHANGED run /\ pc # "idle"
  BY DEF TestStep, add_netns, remote_device_create, test_ends
<1>5. CleanupStep => UNCHANGED run /\ pc # "idle"
  BY DEF CleanupStep, cleanup, kill_jobs, restore_system_config, restore_root, call_in_netns,
         call_in_root, set_readonly_cache, destroy_devices, destroy_root, del_netns, bye,
         stop_recipe, run_ends, unchangedCleanup
<1>6. (\E m \in Machines : agent_dies(m)) \/ UNCHANGED vars => UNCHANGED <<run, pc>>
  BY DEF agent_dies, vars, ctlVars
<1> QED  BY <1>1, <1>2, <1>3, <1>4, <1>5, <1>6 DEF Next

LEMMA ContentsInit == Init => RInv
<1> SUFFICES ASSUME Init PROVE RInv
  OBVIOUS
<1>1. TypeOK
  <2>1. /\ <<>> \in Seq(Machines) /\ <<>> \in Seq({"result", "exception"})
        /\ 0 \in 0..MaxRuns /\ [n \in Names |-> 0] \in [Names -> 0..MaxRuns]
    BY RunsAssumption
  <2> QED  BY <2>1 DEF Init, TypeOK
<1>2. Numbered /\ Delivered /\ Contained /\ Known /\ Mapped /\ Prepared /\ Cleaned
  BY DEF Init, Numbered, Delivered, Contained, Known, Mapped, Prepared, Cleaned
<1> QED  BY <1>1, <1>2, RunsInit DEF RInv

LEMMA ContentsStep == RInv /\ [Next]_vars => RInv'
<1> SUFFICES ASSUME RInv, [Next]_vars PROVE RInv'
  OBVIOUS
<1>1. ASSUME NEW match \in Matches, next_match(match) PROVE Content'
  BY <1>1, NextMatchContent
<1>2. MapStep => Content'
  BY MapMachineContent, PrepareContent, SetupContent, StartContent DEF MapStep
<1>3. TestStep => Content'
  BY AddNetnsContent, CreateContent, TestEndsContent DEF TestStep
<1>4. CleanupStep => Content'
  BY CleanupStarts, LoopContent, CacheContent, DestroyContent, DestroyRootContent,
     DelContent, ByeContent, StopContent, RunEndsContent DEF CleanupStep
<1>5. ASSUME NEW m \in Machines, agent_dies(m) PROVE Content'
  BY <1>5, DeathContent
<1>6. ASSUME UNCHANGED vars PROVE Content'
  <2>1. UNCHANGED <<pc, step, left, retry, run, todo, used, mapped, recipe, initns, nss, db,
                    ans, ifm, dirty, conn, alive, unread, faults>>
    BY <1>6 DEF vars, ctlVars, objVars, agentVars, linkVars
  <2>2. TypeOK'
    BY <2>1 DEF RInv, TypeOK, Spaces
  <2>3. Delivered' /\ Contained' /\ Known'
    BY <2>1 DEF RInv, Delivered, Contained, Known, OneKind
  <2>4. Mapped' /\ Prepared'
    BY <2>1 DEF RInv, Mapped, Prepared, OneKind, Ready, Started, New
  <2>5. Cleaned'
    BY <2>1 DEF RInv, Cleaned, OneKind, Old, Listed
  <2> QED  BY <2>2, <2>3, <2>4, <2>5 DEF Content
<1>7. Content'
  BY <1>1, <1>2, <1>3, <1>4, <1>5, <1>6 DEF Next
<1>8. IInv' /\ Numbered'
  BY RunsStep, NumberedStep DEF RInv
<1> QED  BY <1>7, <1>8 DEF RInv, Content

(***************************************************************************)
(* Type correctness, whatever agents do.                                   *)
(***************************************************************************)
THEOREM RunsTypeOK == Spec => []TypeOK
<1>1. RInv => TypeOK
  BY DEF RInv
<1> QED  BY <1>1, ContentsInit, ContentsStep, PTL DEF Spec

(***************************************************************************)
(* For any pool, matches and names: a Machine.cleanup that raises no       *)
(* exception leaves its agent, if that is there, without the namespaces    *)
(* of this and all earlier recipes and without the devices its             *)
(* InterfaceManagers made since it was prepared, and the Machine object    *)
(* knows of none.                                                          *)
(***************************************************************************)
THEOREM CleanupLeavesNothing == Spec => []CleanupIsComplete
<1>1. RInv => CleanupIsComplete
  <2>1. pc = "cleanup" /\ step = "finish" /\ RInv => todo # <<>>
    BY DEF RInv, IInv, AtHand
  <2> QED  BY <2>1 DEF RInv, Cleaned, CleanupIsComplete, OneKind
<1> QED  BY <1>1, ContentsInit, ContentsStep, PTL DEF Spec

(***************************************************************************)
(* For any pool, matches and names: a test finds on its machines only      *)
(* namespaces of its own recipe, whatever the cleanups before it did.      *)
(***************************************************************************)
THEOREM OwnNamespacesOnly == Spec => []NoForeignNamespaces
<1>1. RInv => NoForeignNamespaces
  BY RangeTyped DEF RInv, Prepared, Ready, NoForeignNamespaces, OneKind
<1> QED  BY <1>1, ContentsInit, ContentsStep, PTL DEF Spec

\* Of all steps only start_recipe begins a test.
LEMMA TestStartsStep ==
  ASSUME RInv, [Next]_vars, pc = "map", pc' = "test"
  PROVE  \A m \in Range(used) : conn'[m] = "open" /\ mapped[m] /\ recipe'[m]
                                /\ db[m] = {<<Root, run>>}
<1>1. start_recipe
  <2>1. ~\E match \in Matches : next_match(match)
    BY DEF next_match
  <2>2. ~map_machine /\ ~prepare_machine /\ ~setup_machine
    BY DEF map_machine, prepare_machine, setup_machine, StartCleanup
  <2>3. ~TestStep
    BY DEF TestStep, add_netns, remote_device_create, test_ends
  <2>4. ~CleanupStep
    BY DEF CleanupStep, cleanup, kill_jobs, restore_system_config, restore_root,
           call_in_netns, call_in_root, set_readonly_cache, destroy_devices, destroy_root,
           del_netns, bye, stop_recipe, run_ends
  <2>5. (~\E m \in Machines : agent_dies(m)) /\ ~UNCHANGED vars
    BY DEF agent_dies, vars, ctlVars
  <2> QED  BY <2>1, <2>2, <2>3, <2>4, <2>5 DEF Next, MapStep
<1>2. PICK done \in BOOLEAN, ok \in BOOLEAN :
        Rpc(New, Root, done, ok) /\ (~ok => StartCleanup)
  BY <1>1 DEF start_recipe
<1>3. /\ step = "start" /\ recipe' = [recipe EXCEPT ![New] = TRUE]
      /\ ok
  BY <1>1, <1>2 DEF start_recipe, Put, StartCleanup
<1>4. New \in Machines
  BY <1>3, NewMachine
<1>5. Outcome(New, Root, done, ok)
  BY <1>2, <1>4, CallOutcome, LinksTyped DEF RInv
<1>6. SUFFICES ASSUME NEW m \in Range(used)
               PROVE  conn'[m] = "open" /\ mapped[m] /\ recipe'[m] /\ db[m] = {<<Root, run>>}
  OBVIOUS
<1>7. m \in Machines /\ recipe \in [Machines -> BOOLEAN]
  BY RangeTyped DEF RInv, TypeOK
<1>8. mapped[m] /\ conn[m] = "open" /\ db[m] = {<<Root, run>>}
  BY <1>3, <1>7 DEF RInv, Mapped, Ready
<1>9. m # New => recipe[m]
  BY <1>3, <1>7 DEF RInv, Mapped, Started
<1> QED  BY <1>3, <1>4, <1>5, <1>7, <1>8, <1>9 DEF Outcome

(***************************************************************************)
(* For any pool, matches and faults: when a test starts, every machine of  *)
(* the match is connected, mapped, part of the recipe, and prepared for    *)
(* this run.                                                               *)
(***************************************************************************)
THEOREM TestsStartReady == Spec => TestStartsConnected
<1>1. RInv /\ [Next]_vars =>
        [pc = "map" /\ pc' = "test" =>
           \A m \in Range(used) : conn'[m] = "open" /\ mapped[m] /\ recipe'[m]
                                  /\ db[m] = {<<Root, run>>}]_vars
  BY TestStartsStep
<1> QED  BY <1>1, ContentsInit, ContentsStep, PTL DEF Spec, TestStartsConnected
=============================================================================

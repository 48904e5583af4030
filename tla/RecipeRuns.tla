----------------------------- MODULE RecipeRuns -----------------------------
(***************************************************************************)
(* The life of a recipe run: Controller.run and what it calls              *)
(* (_map_match, _prepare_machine, _cleanup_agents in                       *)
(* lnst/Controller/Controller.py; prepare_machine, start_recipe, add_netns *)
(* and cleanup in lnst/Controller/Machine.py; disconnects in               *)
(* MessageDispatcher.py), and what its calls do on the agents              *)
(* (lnst/Agent/Agent.py).                                                  *)
(*                                                                         *)
(* The Machine objects of the pool outlive a run, and so do the agents:    *)
(* what a failed cleanup leaves behind is there in the next run.           *)
(***************************************************************************)
EXTENDS Integers, Sequences, SequencesExt

CONSTANTS
  Machines,  \* the machines of the pool
  Names,     \* names of network namespaces
  Root,      \* stands for the name of the root namespace
  Matches,   \* what the mapper may yield: sequences of different machines
  MaxRuns,   \* bound on the number of matches that are run
  Faults     \* what may go wrong on an agent: "raise" (a call answers with
             \* an exception), "death" (the agent is gone)

ASSUME RunsAssumption ==
  /\ Root \notin Names
  /\ Matches \subseteq {s \in Seq(Machines) : IsInjective(s)}
  /\ MaxRuns \in Nat
  /\ Faults \subseteq {"raise", "death"}

VARIABLES
  pc,       \* Controller.run: "idle" (between matches), "map", "test", "cleanup"
  step,     \* where it stands with the machine at hand
  left,     \* namespaces left in the loop over Machine._namespaces
  retry,    \* Machine.cleanup: in the except clause
  run,      \* number of the current match
  todo,     \* machines left to map, or to clean up
  used,     \* Controller._machines, in the order of insertion
  \* the Machine objects
  conn,     \* is the machine in _connection_mapping?
  mapped, recipe,  \* _mapped; _recipe is set
  initns,   \* _initns: the run whose Host it is
  nss,      \* _namespaces: by name, the run of the NetNamespace, 0 if none
  db,       \* the keys of _device_database: namespaces, <<name, run>>
  \* the agents
  alive,    \* the process is there
  ans,      \* _net_namespaces
  ifm,      \* _if_manager of the agent itself is not None
  dirty,    \* the namespaces with devices that the InterfaceManager there made;
            \* devices that are none of an InterfaceManager's are not followed
  unread,   \* their answers that the controller has not read
  faults    \* what goes wrong in this behaviour

ctlVars   == <<pc, step, left, retry, run, todo, used>>
objVars   == <<mapped, recipe, initns, nss, db>>
agentVars == <<ans, ifm, dirty>>
linkVars  == <<conn, alive, unread, faults>>
vars == <<ctlVars, objVars, agentVars, linkVars>>

\* Machine._namespaces.values()
Listed(m) == {<<n, nss[m][n]>> : n \in {n \in Names : nss[m][n] # 0}}

Put(f, m, v) == [f EXCEPT ![m] = v]

-----------------------------------------------------------------------------
(***************************************************************************)
(* rpc_call, send_message.  The agent acts on a command as soon as it is   *)
(* sent, if it is there; one that is to be passed to a namespace it does   *)
(* not have ends it (send_data_to_netns raises an Exception that nothing   *)
(* catches).  While the controller waits for the result it reads what has  *)
(* come from all agents, and notices agents D that are gone.               *)
(*                                                                         *)
(* It raises what an agent raised, and ConnectionError for two results or  *)
(* when a mapped machine is gone, whichever machine the call was made to.  *)
(* Messages read by then are lost, those not yet read meet the next call:  *)
(* a result that is left over is taken for the result of that one.         *)
(***************************************************************************)
Survives(m, n) == n = Root \/ n \in ans[m]

\* Mutant: the machine of the call only.
OwnDisconnect(m, D) == m \in D /\ mapped[m]

\* _handle_disconnects
HardDisconnect(m, D) == \E d \in D : mapped[d]

\* queue[x] is what x has sent; read[x] how much of it is read
Answered(m, queue, D, ok) ==
  \E read \in [Machines -> 0..2] :
    LET got(x) == SubSeq(queue[x], 1, read[x])
    IN  /\ \A x \in Machines : read[x] <= Len(queue[x])
        /\ unread' = [x \in Machines |-> IF x \in D THEN <<>>
                                         ELSE SubSeq(queue[x], read[x] + 1, Len(queue[x]))]
        /\ IF \/ \E x \in Machines : "exception" \in Range(got(x))
              \/ got(m) = <<"result", "result">>
              \/ HardDisconnect(m, D)
             THEN ~ok
             ELSE ok /\ got(m) = <<"result">>

\* done: the agent has done what the command says; it may still answer with an
\* exception
Rpc(m, n, done, ok) ==
  \/ /\ conn[m] = "closed" \/ ~alive[m]  \* send_data returns False
     /\ ~done /\ ~ok
     /\ UNCHANGED linkVars
  \/ /\ conn[m] = "open"
     /\ alive' = Put(alive, m, alive[m] /\ Survives(m, n))
     /\ \E answer \in {"result"} \union (IF "raise" \in faults THEN {"exception"} ELSE {}),
          D \in SUBSET {d \in Machines : conn[d] = "open" /\ ~alive'[d]} :
          /\ done => alive'[m]
          /\ alive'[m] /\ answer = "result" => done
          /\ conn' = [d \in Machines |-> IF d \in D THEN "closed" ELSE conn[d]]
          /\ UNCHANGED faults
          /\ Answered(m, IF alive'[m] THEN Put(unread, m, Append(unread[m], answer))
                                      ELSE unread, D, ok)

\* the agent of m goes away
agent_dies(m) ==
  /\ "death" \in faults
  /\ alive[m]
  /\ alive' = Put(alive, m, FALSE)
  /\ UNCHANGED <<ctlVars, conn, objVars, agentVars, unread, faults>>

-----------------------------------------------------------------------------
(***************************************************************************)
(* Controller.run takes the next match ...                                 *)
(***************************************************************************)
next_match(match) ==
  /\ pc = "idle" /\ run < MaxRuns
  /\ run' = run + 1
  /\ pc' = "map" /\ step' = "next"
  /\ todo' = match /\ used' = <<>>
  /\ UNCHANGED <<left, retry, objVars, agentVars, linkVars>>

StartCleanup == pc' = "cleanup" /\ step' = "next" /\ todo' = used

\* the machine that is being mapped
New == Last(used)

\* _map_match: the machine enters _machines, it gets a Host and is mapped
map_machine ==
  /\ pc = "map" /\ step = "next" /\ todo # <<>>
  /\ used' = Append(used, Head(todo))
  /\ todo' = Tail(todo)
  /\ initns' = Put(initns, Head(todo), run)
  /\ mapped' = Put(mapped, Head(todo), TRUE)
  /\ step' = "prepare"
  /\ UNCHANGED <<pc, left, retry, run, recipe, nss, db, agentVars, linkVars>>

\* Mutant: the agent keeps what the last recipe left.
PrepareKeeps ==
  /\ pc = "map" /\ step = "prepare"
  /\ \E done, ok \in BOOLEAN :
       /\ Rpc(New, Root, done, ok)
       /\ IF ok THEN /\ db' = Put(db, New, {<<Root, initns[New]>>})
                     /\ step' = "setup"
                     /\ UNCHANGED <<pc, todo>>
                ELSE StartCleanup /\ UNCHANGED db
  /\ UNCHANGED <<left, retry, run, used, mapped, recipe, initns, nss, agentVars>>

(***************************************************************************)
(* Machine.prepare_machine; on the agent, machine_cleanup.  What is in a   *)
(* namespace goes with it.  What is in the root namespace stays, but the   *)
(* agent forgets the InterfaceManager that made it; the next one takes a   *)
(* device it finds for a disabled Device.                                  *)
(***************************************************************************)
prepare_machine ==
  /\ pc = "map" /\ step = "prepare"
  /\ \E done, ok \in BOOLEAN :
       /\ Rpc(New, Root, done, ok)
       /\ IF done THEN /\ ans' = Put(ans, New, {})
                       /\ ifm' = Put(ifm, New, FALSE)
                       /\ dirty' = Put(dirty, New, {})
                  ELSE UNCHANGED agentVars
       /\ IF ok THEN /\ db' = Put(db, New, {<<Root, initns[New]>>})
                     /\ step' = "setup"
                     /\ UNCHANGED <<pc, todo>>
                ELSE StartCleanup /\ UNCHANGED db
  /\ UNCHANGED <<left, retry, run, used, mapped, recipe, initns, nss>>

\* the rest of prepare_machine, init_if_manager among it, and map_device
setup_machine ==
  /\ pc = "map" /\ step = "setup"
  /\ \E done, ok \in BOOLEAN :
       /\ Rpc(New, Root, done, ok)
       /\ ifm' = IF done THEN Put(ifm, New, TRUE) ELSE ifm
       /\ IF ok THEN step' = "start" /\ UNCHANGED <<pc, todo>> ELSE StartCleanup
  /\ UNCHANGED <<left, retry, run, used, objVars, ans, dirty>>

\* Machine.start_recipe; after the last machine, RecipeRun and recipe.test
start_recipe ==
  /\ pc = "map" /\ step = "start"
  /\ recipe' = Put(recipe, New, TRUE)
  /\ \E done, ok \in BOOLEAN :
       /\ Rpc(New, Root, done, ok)
       /\ IF ok THEN /\ pc' = IF todo = <<>> THEN "test" ELSE "map"
                     /\ step' = "next"
                     /\ UNCHANGED todo
                ELSE StartCleanup
  /\ UNCHANGED <<left, retry, run, used, mapped, initns, nss, db, agentVars>>

-----------------------------------------------------------------------------
(***************************************************************************)
(* The test.  It may catch the exception of a call, or end with it.        *)
(***************************************************************************)
AfterCall(ok) ==
  \/ UNCHANGED <<pc, step, todo>>
  \/ ~ok /\ StartCleanup

\* Mutant: the namespace is listed once the agent has made it.
AddNetnsLate(m, n) ==
  /\ pc = "test" /\ m \in Range(used) /\ nss[m][n] # run
  /\ \E done, ok \in BOOLEAN :
       /\ Rpc(m, Root, done, ok)
       /\ ans' = IF done THEN Put(ans, m, ans[m] \union {n}) ELSE ans
       /\ IF ok THEN /\ nss' = Put(nss, m, Put(nss[m], n, run))
                     /\ db' = Put(db, m, db[m] \union {<<n, run>>})
                ELSE UNCHANGED <<nss, db>>
       /\ AfterCall(ok)
  /\ UNCHANGED <<left, retry, run, used, mapped, recipe, initns, ifm, dirty>>

\* Machine.add_netns
add_netns(m, n) ==
  /\ pc = "test" /\ m \in Range(used) /\ nss[m][n] # run
  /\ nss' = Put(nss, m, Put(nss[m], n, run))
  /\ db' = Put(db, m, db[m] \union {<<n, run>>})
  /\ \E done, ok \in BOOLEAN :
       /\ Rpc(m, Root, done, ok)
       /\ ans' = IF done THEN Put(ans, m, ans[m] \union {n}) ELSE ans
       /\ AfterCall(ok)
  /\ UNCHANGED <<left, retry, run, used, mapped, recipe, initns, ifm, dirty>>

(***************************************************************************)
(* Machine.remote_device_create, in the root or in a namespace of this     *)
(* run.  An exception may come after the kernel has made the device but    *)
(* before the InterfaceManager has it (~done).                             *)
(***************************************************************************)
remote_device_create(m, n) ==
  /\ pc = "test" /\ m \in Range(used)
  /\ n # Root => nss[m][n] = run
  /\ n \notin dirty[m]  \* bound: one device in each
  /\ \E done, ok \in BOOLEAN :
       /\ Rpc(m, n, done, ok)
       /\ done => (n = Root => ifm[m])
       /\ dirty' = IF done THEN Put(dirty, m, dirty[m] \union {n}) ELSE dirty
       /\ AfterCall(ok)
  /\ UNCHANGED <<left, retry, run, used, objVars, ans, ifm>>

\* test returns or raises
test_ends ==
  /\ pc = "test"
  /\ StartCleanup
  /\ UNCHANGED <<left, retry, run, used, objVars, agentVars, linkVars>>

-----------------------------------------------------------------------------
(***************************************************************************)
(* _cleanup_agents, for each machine of _machines: Machine.cleanup, and    *)
(* whatever it does the machine is not mapped any more.                    *)
(***************************************************************************)
Old == Head(todo)
unchangedCleanup == UNCHANGED <<pc, run, todo, used, mapped, recipe, initns, db>>

\* a loop over the namespaces starts, or a step without one follows
Goto(s) == step' = s /\ left' = Listed(Old)

\* Mutant: an exception in the except clause starts it again.
AbortAgain == Goto("cache") /\ retry' = TRUE

\* the exception goes to the except clause, which calls cleanup_devices; an
\* exception there goes to _cleanup_agents, which logs it
Abort ==
  \/ ~retry /\ Goto("cache") /\ retry' = TRUE
  \/ retry /\ step' = "finish" /\ UNCHANGED <<left, retry>>

\* Machine.cleanup does nothing without a connection.
cleanup ==
  /\ pc = "cleanup" /\ step = "next" /\ todo # <<>>
  /\ \/ conn[Old] = "closed" /\ step' = "finish" /\ UNCHANGED left
     \/ conn[Old] = "open" /\ Goto("kill_jobs")
  /\ retry' = FALSE
  /\ unchangedCleanup
  /\ UNCHANGED <<nss, agentVars, linkVars>>

\* one call of a loop over the namespaces: kill_jobs, restore_system_config
call_in_netns(loop) ==
  /\ pc = "cleanup" /\ step = loop
  /\ \E o \in left, done, ok \in BOOLEAN :
       /\ Rpc(Old, o[1], done, ok)
       /\ IF ok THEN left' = left \ {o} /\ UNCHANGED <<step, retry>> ELSE Abort
  /\ unchangedCleanup
  /\ UNCHANGED <<nss, agentVars>>

\* the call for the root namespace, before or after the loop
call_in_root(loop, next) ==
  /\ pc = "cleanup" /\ step = loop /\ left = {}
  /\ \E done, ok \in BOOLEAN :
       /\ Rpc(Old, Root, done, ok)
       /\ IF ok THEN Goto(next) /\ UNCHANGED retry ELSE Abort
  /\ unchangedCleanup
  /\ UNCHANGED <<nss, agentVars>>

kill_jobs ==
  call_in_netns("kill_jobs") \/ call_in_root("kill_jobs", "restore_root")

restore_root ==
  /\ pc = "cleanup" /\ step = "restore_root"
  /\ \E done, ok \in BOOLEAN :
       /\ Rpc(Old, Root, done, ok)
       /\ IF ok THEN Goto("restore") /\ UNCHANGED retry ELSE Abort
  /\ unchangedCleanup
  /\ UNCHANGED <<nss, agentVars>>

restore_system_config == restore_root \/ call_in_netns("restore")

\* cleanup_devices looks up all namespaces in _device_database (KeyError) ...
set_readonly_cache ==
  /\ pc = "cleanup"
  /\ step = "cache" \/ (step = "restore" /\ left = {})
  /\ IF Listed(Old) \union {<<Root, initns[Old]>>} \subseteq db[Old]
       THEN Goto("destroy") /\ UNCHANGED retry
       ELSE Abort
  /\ unchangedCleanup
  /\ UNCHANGED <<nss, agentVars, linkVars>>

\* On the agent destroy_devices does nothing without an InterfaceManager, and
\* passes over DeviceDisabled.
Destroyed(n, done) ==
  dirty' = IF done /\ (n = Root => ifm[Old])
             THEN Put(dirty, Old, dirty[Old] \ {n})
             ELSE dirty

\* ... and destroys the devices there, ...
destroy_devices ==
  /\ pc = "cleanup" /\ step = "destroy"
  /\ \E o \in left, done, ok \in BOOLEAN :
       /\ Rpc(Old, o[1], done, ok)
       /\ Destroyed(o[1], done)
       /\ IF ok THEN left' = left \ {o} /\ UNCHANGED <<step, retry>> ELSE Abort
  /\ unchangedCleanup
  /\ UNCHANGED <<nss, ans, ifm>>

\* ... in the root namespace last; the except clause ends here
destroy_root ==
  /\ pc = "cleanup" /\ step = "destroy" /\ left = {}
  /\ \E done, ok \in BOOLEAN :
       /\ Rpc(Old, Root, done, ok)
       /\ Destroyed(Root, done)
       /\ \/ ok /\ ~retry /\ Goto("del") /\ UNCHANGED retry
          \/ ok /\ retry /\ step' = "finish" /\ UNCHANGED <<left, retry>>
          \/ ~ok /\ Abort
  /\ unchangedCleanup
  /\ UNCHANGED <<nss, ans, ifm>>

\* del_namespaces: what is in the namespace goes with it
del_netns ==
  /\ pc = "cleanup" /\ step = "del"
  /\ \E o \in left, done, ok \in BOOLEAN :
       /\ Rpc(Old, Root, done, ok)
       /\ IF done THEN /\ ans' = Put(ans, Old, ans[Old] \ {o[1]})
                       /\ dirty' = Put(dirty, Old, dirty[Old] \ {o[1]})
                  ELSE UNCHANGED <<ans, dirty>>
       /\ IF ok THEN left' = left \ {o} /\ UNCHANGED <<step, retry>> ELSE Abort
  /\ unchangedCleanup
  /\ UNCHANGED <<nss, ifm>>

bye ==
  /\ pc = "cleanup" /\ step = "del" /\ left = {}
  /\ nss' = Put(nss, Old, [n \in Names |-> 0])
  /\ \E done, ok \in BOOLEAN :
       /\ Rpc(Old, Root, done, ok)
       /\ \/ ok /\ step' = "finish" /\ UNCHANGED <<left, retry>>
          \/ ~ok /\ step' = "cache" /\ left' = {} /\ retry' = TRUE
  /\ unchangedCleanup
  /\ UNCHANGED agentVars

\* Mutant: a machine whose cleanup raised an exception stays mapped.
StopOnlyCleaned ==
  /\ pc = "cleanup" /\ step = "finish"
  /\ mapped' = IF retry THEN mapped ELSE Put(mapped, Old, FALSE)
  /\ recipe' = Put(recipe, Old, FALSE)
  /\ todo' = Tail(todo)
  /\ step' = "next"
  /\ UNCHANGED <<pc, left, retry, run, used, initns, nss, db, agentVars, linkVars>>

\* the finally clause: stop_recipe, set_mapped(False)
stop_recipe ==
  /\ pc = "cleanup" /\ step = "finish"
  /\ mapped' = Put(mapped, Old, FALSE)
  /\ recipe' = Put(recipe, Old, FALSE)
  /\ todo' = Tail(todo)
  /\ step' = "next"
  /\ UNCHANGED <<pc, left, retry, run, used, initns, nss, db, agentVars, linkVars>>

run_ends ==
  /\ pc = "cleanup" /\ step = "next" /\ todo = <<>>
  /\ pc' = "idle"
  /\ used' = <<>>
  /\ UNCHANGED <<step, left, retry, run, todo, objVars, agentVars, linkVars>>

-----------------------------------------------------------------------------
Init ==
  /\ pc = "idle" /\ step = "next" /\ left = {} /\ retry = FALSE
  /\ run = 0
  /\ todo = <<>> /\ used = <<>>
  /\ conn = [m \in Machines |-> "open"]
  /\ mapped = [m \in Machines |-> FALSE]
  /\ recipe = [m \in Machines |-> FALSE]
  /\ initns = [m \in Machines |-> 0]
  /\ nss = [m \in Machines |-> [n \in Names |-> 0]]
  /\ db = [m \in Machines |-> {}]
  /\ alive = [m \in Machines |-> TRUE]
  /\ ans = [m \in Machines |-> {}]
  /\ ifm = [m \in Machines |-> FALSE]
  /\ dirty = [m \in Machines |-> {}]
  /\ unread = [m \in Machines |-> <<>>]
  /\ faults \in SUBSET Faults

MapStep == map_machine \/ prepare_machine \/ setup_machine \/ start_recipe

TestStep ==
  \/ \E m \in Machines, n \in Names : add_netns(m, n)
  \/ \E m \in Machines, n \in Names \union {Root} : remote_device_create(m, n)
  \/ test_ends

CleanupStep ==
  \/ cleanup \/ kill_jobs \/ restore_system_config
  \/ set_readonly_cache \/ destroy_devices \/ destroy_root
  \/ del_netns \/ bye \/ stop_recipe \/ run_ends

Next ==
  \/ \E match \in Matches : next_match(match)
  \/ MapStep \/ TestStep \/ CleanupStep
  \/ \E m \in Machines : agent_dies(m)

(***************************************************************************)
(* Every call returns or raises (AgentJobs, RpcReturns), so Controller.run *)
(* goes on; nothing makes a test end or the mapper yield a match.          *)
(***************************************************************************)
Spec == Init /\ [][Next]_vars /\ WF_vars(MapStep) /\ WF_vars(CleanupStep)

-----------------------------------------------------------------------------
(***************************************************************************)
(* Properties                                                              *)
(***************************************************************************)
Spaces == (Names \union {Root}) \X (0..MaxRuns)

TypeOK ==
  /\ pc \in {"idle", "map", "test", "cleanup"}
  /\ step \in {"next", "prepare", "setup", "start", "kill_jobs", "restore_root",
               "restore", "cache", "destroy", "del", "finish"}
  /\ left \subseteq Names \X (1..MaxRuns)
  /\ retry \in BOOLEAN
  /\ run \in 0..MaxRuns
  /\ todo \in Seq(Machines) /\ used \in Seq(Machines)
  /\ conn \in [Machines -> {"open", "closed"}]
  /\ mapped \in [Machines -> BOOLEAN] /\ recipe \in [Machines -> BOOLEAN]
  /\ initns \in [Machines -> 0..MaxRuns]
  /\ nss \in [Machines -> [Names -> 0..MaxRuns]]
  /\ db \in [Machines -> SUBSET Spaces]
  /\ alive \in [Machines -> BOOLEAN]
  /\ ans \in [Machines -> SUBSET Names]
  /\ ifm \in [Machines -> BOOLEAN]
  /\ dirty \in [Machines -> SUBSET (Names \union {Root})]
  /\ unread \in [Machines -> Seq({"result", "exception"})]
  /\ faults \subseteq Faults

(***************************************************************************)
(* Between two runs no machine is mapped or belongs to a recipe, however   *)
(* the last run ended (Controller.run, _cleanup_agents): an agent that     *)
(* goes away then is a soft disconnect, and a late result is not added to  *)
(* a recipe that is over.                                                  *)
(***************************************************************************)
NothingMappedWhenIdle ==
  pc = "idle" => \A m \in Machines : ~mapped[m] /\ ~recipe[m]

(***************************************************************************)
(* A Machine.cleanup that raises no exception leaves an agent that is      *)
(* there without namespaces, those of earlier recipes and of calls that    *)
(* failed included, and without the devices that its InterfaceManagers     *)
(* made since prepare_machine (or, if that call failed, since the one      *)
(* before), and the Machine object knows of none.  It says nothing of      *)
(* devices in the root namespace that a cleanup which failed left for the  *)
(* next prepare_machine: to the InterfaceManager that follows they are     *)
(* disabled, destroy_devices passes over them (Agent.py:289-292), and they *)
(* stay for good.  This needs that agents either only raise or only die:   *)
(* with both, a result that the death of another agent left unread is      *)
(* taken for the answer of a call that raised.                             *)
(***************************************************************************)
CleanupIsComplete ==
  /\ pc = "cleanup" /\ step = "finish" /\ ~retry
  /\ conn[Old] = "open" /\ alive[Old]
  /\ faults # {"raise", "death"}
  => ans[Old] = {} /\ dirty[Old] = {} /\ Listed(Old) = {}

(***************************************************************************)
(* A test never finds a namespace of an earlier recipe on its machines:    *)
(* prepare_machine has the agent delete them, whatever the earlier cleanup *)
(* did.  As for CleanupIsComplete this needs that agents either only raise *)
(* or only die: results that deaths left unread may stand in for the       *)
(* answers of prepare_machine and start_recipe.                            *)
(***************************************************************************)
NoForeignNamespaces ==
  pc = "test" /\ faults # {"raise", "death"} =>
    \A m \in Range(used) : alive[m] => \A n \in ans[m] : nss[m][n] = run

(***************************************************************************)
(* A test starts only with machines that are all connected, prepared for   *)
(* this run and mapped: an agent that goes away while a later machine is   *)
(* prepared ends the run.                                                  *)
(***************************************************************************)
TestStartsConnected ==
  [][pc = "map" /\ pc' = "test" =>
       \A m \in Range(used) : conn'[m] = "open" /\ mapped[m] /\ recipe'[m]
                              /\ db[m] = {<<Root, run>>}]_vars

(***************************************************************************)
(* Mapping ends, and so does the cleanup, whatever goes wrong in it.       *)
(***************************************************************************)
RunReturns == pc \in {"map", "cleanup"} ~> pc \in {"idle", "test"}
=============================================================================

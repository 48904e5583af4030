---------------------------- MODULE DeviceMoves ----------------------------
(***************************************************************************)
(* Where the devices of one machine are, in four views: the kernel's, the  *)
(* InterfaceManager's of the agent of each network namespace               *)
(* (lnst/Agent/InterfaceManager.py), the controller's device database      *)
(* (lnst/Controller/Machine.py) and the handles of the tester              *)
(* (RemoteDevice).  The views are brought together by netlink messages,    *)
(* events that the agent of a namespace sends through the root agent, and  *)
(* events mixed with the answers of calls on the controller.               *)
(*                                                                         *)
(* The kernel is external: it is modelled by what the agents observe.      *)
(***************************************************************************)
EXTENDS Integers, Sequences, SequencesExt, FiniteSets

CONSTANTS
  Physical,  \* network cards
  Soft,      \* devices a test may create
  NetNs,     \* the network namespaces of a recipe
  Root,      \* the root namespace
  MaxIdx,    \* bound on interface indices
  MaxOps,    \* bound on the moves, creations and deletions of all tests
  MaxRuns,   \* bound on the number of recipe runs
  Faults     \* "timeout": a wait may time out; "overflow": a netlink socket may;
             \* "raise": a test moves a device to the root namespace, which raises

Nobody  == "none"
Other   == "other" \* a RemoteDevice object nobody has a handle of

ASSUME MovesAssumption ==
  /\ Root \notin NetNs
  /\ Physical \cap Soft = {} /\ {Nobody, Other} \cap (Physical \union Soft) = {}
  /\ MaxIdx \in Nat /\ MaxOps \in Nat /\ MaxRuns \in Nat
  /\ Faults \subseteq {"timeout", "overflow", "raise"}

Devs    == Physical \union Soft
Spaces  == NetNs \union {Root}
Indices == 1..MaxIdx
Nowhere == <<>>   \* not created, deleted, or in a namespace that is going away
NoIdx   == 0
Unmoved == [src |-> Nobody, dst |-> Nobody, old |-> NoIdx, new |-> NoIdx]

VARIABLES
  where,    \* kernel: <<namespace, ifindex>> of a device
  dying,    \* kernel: the cards in a deleted namespace
  nl,       \* netlink messages of a namespace its agent has not handled
  known,    \* InterfaceManager._devices: the indices, by namespace
  managed,  \* the namespaces whose agent has an InterfaceManager
  pipe,     \* from the agent of a namespace to the root agent
  toCtl,    \* from the root agent to the controller
  call,     \* the RPC under way
  batch,    \* number of messages at the head of toCtl that have been read
  pc,       \* where the controller stands in the recipe
  run, ops, \* number of this run; operations of the test so far
  names,    \* Machine._namespaces
  dbRun,    \* the run whose Host is a key of _device_database
  db,       \* _device_database: the object at each index, by namespace
  moved,    \* _netns_moved_devices
  handle,   \* RemoteDevice.netns and ifindex, Nowhere without a handle
  gone,     \* the devices the test has destroyed
  faults    \* what goes wrong in this behaviour

kernelVars == <<where, dying>>
agentVars  == <<nl, known, managed, pipe>>
ctlVars    == <<pc, run, ops, names, dbRun, db, moved, handle, gone>>
vars == <<kernelVars, agentVars, toCtl, call, batch, ctlVars, faults>>

NoCall == [op |-> "none", ns |-> Nobody, d |-> Nobody, idx |-> NoIdx, dst |-> Nobody,
           at |-> "none", val |-> {}]
EmptyDb == [i \in Indices |-> Nobody]

-----------------------------------------------------------------------------
(* The kernel and InterfaceManager *)

At(w, n) == {i \in Indices : \E d \in Devs : w[d] = <<n, i>>}

\* a device keeps its index when it is moved, if it can
NewIndices(n, i) == IF i \in Indices \ At(where, n) THEN {i} ELSE Indices \ At(where, n)

Link(type, i, j) == [type |-> type, idx |-> i, new |-> j]
NEWLINK(i)  == Link("NEWLINK", i, NoIdx)
DELLINK(i)  == Link("DELLINK", i, NoIdx)
CREATED(i)  == Link("CREATED", i, NoIdx)  \* of the device create_device waits for
MOVED(i, j) == Link("DELLINK", i, j)

\* request_netlink_dump: the kernel answers with the links there are
Dump(w, n) == LET links == SetToSeq(At(w, n)) IN [k \in DOMAIN links |-> NEWLINK(links[k])]

\* what is sent to the controller
Message(type, n, i, j) == [type |-> type, ns |-> n, idx |-> i, new |-> j]
Answer(type) == Message(type, Nobody, NoIdx, NoIdx)
Result    == <<Answer("result")>>
Exception == <<Answer("exception")>>

Created(n, k, m) == IF m.type = "NEWLINK" /\ m.idx \notin k
                      THEN <<Message("dev_created", n, m.idx, NoIdx)>> ELSE <<>>

\* Mutant: the notification of a move is taken for that of a deletion.
LinkEventNoMove(n, k, m) ==
  IF m.type = "DELLINK"
    THEN [known |-> k \ {m.idx},
          events |-> IF m.idx \in k THEN <<Message("dev_deleted", n, m.idx, NoIdx)>> ELSE <<>>]
    ELSE [known |-> k \union {m.idx}, events |-> Created(n, k, m)]

\* _handle_netlink_msg of the agent of n, with the devices k in _devices
LinkEvent(n, k, m) ==
  IF m.type = "DELLINK"
    THEN [known |-> k \ {m.idx},
          events |-> IF m.idx \notin k THEN <<>>
                     ELSE IF m.new = NoIdx THEN <<Message("dev_deleted", n, m.idx, NoIdx)>>
                     ELSE <<Message("dev_netns_changed", n, m.idx, m.new)>>]
    ELSE [known |-> k \union {m.idx}, events |-> Created(n, k, m)]

\* handle_netlink_msgs: what is known after the messages q, and the events sent
HandleNetlink(n, q) ==
  LET handled[k \in 0..Len(q)] ==
        IF k = 0 THEN [known |-> known[n], events |-> <<>>]
        ELSE LET s == handled[k - 1]
                 r == LinkEvent(n, s.known, q[k])
             IN  [known |-> r.known, events |-> s.events \o r.events]
  IN  handled[Len(q)]

\* send_data_to_ctl of the agent of n
Send(n, msgs) ==
  IF n = Root THEN toCtl' = toCtl \o msgs /\ UNCHANGED pipe
              ELSE pipe' = [pipe EXCEPT ![n] = @ \o msgs] /\ UNCHANGED toCtl

\* the agent of n handles the messages q and what it has not handled yet, then
\* sends the messages of after
Handles(n, q, after) ==
  LET r == HandleNetlink(n, nl[n] \o q)
  IN  /\ known' = [known EXCEPT ![n] = r.known]
      /\ Send(n, r.events \o after)

Rescans(n, after) == Handles(n, Dump(where, n), after)

-----------------------------------------------------------------------------
(* The agents between two commands *)

\* an agent executes one command at a time
Busy(n) == call.op # "none" /\ call.at = "linked" /\ call.ns = n

\* the loop of an agent comes around: check_connections
agent_polls(n) ==
  /\ n \in managed /\ nl[n] # <<>> /\ ~Busy(n)
  /\ Handles(n, <<>>, <<>>)
  /\ nl' = [nl EXCEPT ![n] = <<>>]
  /\ UNCHANGED <<kernelVars, managed, call, batch, ctlVars, faults>>

\* the root agent passes a message from_netns on; its loop has come around
from_netns(n) ==
  /\ pipe[n] # <<>> /\ ~Busy(Root)
  /\ LET r == HandleNetlink(Root, nl[Root])
     IN  /\ known' = [known EXCEPT ![Root] = r.known]
         /\ toCtl' = toCtl \o r.events \o <<Head(pipe[n])>>
  /\ nl' = [nl EXCEPT ![Root] = <<>>]
  /\ pipe' = [pipe EXCEPT ![n] = Tail(@)]
  /\ UNCHANGED <<kernelVars, managed, call, batch, ctlVars, faults>>

\* messages are lost before pull_netlink_messages_into_queue reads them:
\* reconnect_netlink asks for a dump
reconnect_netlink(n) ==
  /\ "overflow" \in faults
  /\ n \in managed /\ nl[n] # <<>> /\ ~Busy(n)
  /\ nl' = [nl EXCEPT ![n] = Dump(where, n)]
  /\ nl' # nl
  /\ UNCHANGED <<kernelVars, known, managed, pipe, toCtl, call, batch, ctlVars, faults>>

\* the kernel is done with a deleted namespace: its cards appear in the root
cleanup_net ==
  \E d \in dying : \E i \in NewIndices(Root, 1) :
    /\ dying' = dying \ {d}
    /\ where' = [where EXCEPT ![d] = <<Root, i>>]
    /\ nl' = [nl EXCEPT ![Root] = Append(@, NEWLINK(i))]
    /\ UNCHANGED <<known, managed, pipe, toCtl, call, batch, ctlVars, faults>>

-----------------------------------------------------------------------------
(* The commands, on the agent *)

Commanded(op) == call.op = op /\ call.at = "sent"
\* what the answer says is in call.val
AnsweredWith(x) == call' = [call EXCEPT !.at = "answered", !.val = x]
Answered == AnsweredWith({})

\* the device that is looked up by its index
Met == {x \in Devs : where[x] = <<call.ns, call.idx>>}

\* prepare_machine, machine_cleanup: there is no InterfaceManager any more
agent_prepare ==
  /\ Commanded("prepare")
  /\ managed' = {}
  /\ known' = [known EXCEPT ![Root] = {}]
  /\ nl' = [nl EXCEPT ![Root] = <<>>]
  /\ Send(Root, Result) /\ Answered
  /\ UNCHANGED <<kernelVars, batch, ctlVars, faults>>

\* init_if_manager, also in the agent of a new namespace
init_if_manager ==
  /\ Commanded("init") \/ Commanded("add_namespace")
  /\ managed' = managed \union {call.ns}
  /\ Rescans(call.ns, Result)
  /\ nl' = [nl EXCEPT ![call.ns] = <<>>]
  /\ Answered
  /\ UNCHANGED <<kernelVars, batch, ctlVars, faults>>

\* get_devices, and remap_device, which looks its device up
agent_rescans ==
  /\ \/ Commanded("get")
     \/ Commanded("remap") /\ Met # {}
  /\ Rescans(call.ns, Result)
  /\ nl' = [nl EXCEPT ![call.ns] = <<>>]
  /\ AnsweredWith(At(where, call.ns))
  /\ UNCHANGED <<kernelVars, managed, batch, ctlVars, faults>>

\* set_dev_netns looks the device up and runs ip(8), which knows no namespace
\* by the name of the root namespace, None
ip_link_set ==
  /\ Commanded("set_dev_netns")
  /\ \E x \in Met :
       IF call.dst = Root
         THEN /\ Rescans(call.ns, Exception)
              /\ nl' = [nl EXCEPT ![call.ns] = <<>>]
              /\ Answered /\ UNCHANGED where
         ELSE \E i \in NewIndices(call.dst, call.idx) :
              /\ Rescans(call.ns, <<>>)
              /\ nl' = [nl EXCEPT ![call.ns] = <<MOVED(call.idx, i)>>,
                                  ![call.dst] = Append(@, NEWLINK(i))]
              /\ where' = [where EXCEPT ![x] = <<call.dst, i>>]
              /\ call' = [call EXCEPT !.at = "linked"]
  /\ UNCHANGED <<dying, managed, batch, ctlVars, faults>>

\* ... and scans again
set_dev_netns ==
  /\ call.op = "set_dev_netns" /\ call.at = "linked"
  /\ Rescans(call.ns, Result)
  /\ nl' = [nl EXCEPT ![call.ns] = <<>>]
  /\ Answered
  /\ UNCHANGED <<kernelVars, managed, batch, ctlVars, faults>>

create_device ==
  /\ Commanded("create")
  /\ \E i \in NewIndices(call.ns, 0) :
       /\ where' = [where EXCEPT ![call.d] = <<call.ns, i>>]
       /\ Handles(call.ns, <<CREATED(i)>> \o Dump(where', call.ns), Result)
       /\ AnsweredWith({i})
  /\ nl' = [nl EXCEPT ![call.ns] = <<>>]
  /\ UNCHANGED <<dying, managed, batch, ctlVars, faults>>

\* dev_method: the device is looked up; its deletion is noticed later, and is
\* refused for a card
destroy ==
  /\ Commanded("destroy")
  /\ \E x \in Met :
       IF x \in Soft
         THEN /\ Rescans(call.ns, Result)
              /\ where' = [where EXCEPT ![x] = Nowhere]
              /\ nl' = [nl EXCEPT ![call.ns] = <<DELLINK(call.idx)>>]
         ELSE /\ Rescans(call.ns, Exception)
              /\ nl' = [nl EXCEPT ![call.ns] = <<>>]
              /\ UNCHANGED where
  /\ Answered
  /\ UNCHANGED <<dying, managed, batch, ctlVars, faults>>

\* destroy_devices in the root namespace; what is in another one goes with it
destroy_devices ==
  /\ Commanded("destroy_devices")
  /\ LET deleted == {d \in Soft : where[d] # Nowhere /\ where[d][1] = Root}
         links == SetToSeq({i \in Indices : \E d \in deleted : where[d] = <<Root, i>>})
         dels == [k \in DOMAIN links |-> DELLINK(links[k])]
     IN  /\ where' = [d \in Devs |-> IF d \in deleted THEN Nowhere ELSE where[d]]
         /\ Handles(Root, Dump(where, Root) \o dels, Result)
  /\ nl' = [nl EXCEPT ![Root] = <<>>]
  /\ Answered
  /\ UNCHANGED <<dying, managed, batch, ctlVars, faults>>

\* del_namespace: the agent is killed, its pipe closed, and the kernel starts
\* to take the namespace down
del_namespace ==
  /\ Commanded("del_namespace")
  /\ LET inside == {d \in Devs : where[d] # Nowhere /\ where[d][1] = call.dst}
     IN  /\ where' = [d \in Devs |-> IF d \in inside THEN Nowhere ELSE where[d]]
         /\ dying' = dying \union (inside \cap Physical)
  /\ managed' = managed \ {call.dst}
  /\ known' = [known EXCEPT ![call.dst] = {}]
  /\ nl' = [nl EXCEPT ![call.dst] = <<>>]
  /\ pipe' = [pipe EXCEPT ![call.dst] = <<>>]
  /\ toCtl' = toCtl \o Result
  /\ Answered
  /\ UNCHANGED <<batch, ctlVars, faults>>

agent_bye ==
  /\ Commanded("bye")
  /\ Send(Root, Result) /\ Answered
  /\ UNCHANGED <<kernelVars, nl, known, managed, batch, ctlVars, faults>>

-----------------------------------------------------------------------------
(* The controller handles a message *)

\* Mutant: the object of a moved device keeps its place.
CreatedKeepsHandle(n, i) ==
  LET match == {d \in Devs : moved[d] # Unmoved /\ moved[d].dst = n /\ moved[d].new = i}
  IN  IF db[n][i] # Nobody THEN UNCHANGED <<db, moved, handle>>
      ELSE \E x \in IF match = {} THEN {Other} ELSE match :
             /\ db' = [db EXCEPT ![n][i] = x]
             /\ moved' = [d \in Devs |-> IF d = x THEN Unmoved ELSE moved[d]]
             /\ UNCHANGED handle

\* Machine.device_created
device_created(n, i) ==
  LET match == {d \in Devs : moved[d] # Unmoved /\ moved[d].dst = n /\ moved[d].new = i}
  IN  IF db[n][i] # Nobody THEN UNCHANGED <<db, moved, handle>>
      ELSE \E x \in IF match = {} THEN {Other} ELSE match :
             /\ db' = [db EXCEPT ![n][i] = x]
             /\ moved' = [d \in Devs |-> IF d = x THEN Unmoved ELSE moved[d]]
             /\ handle' = [d \in Devs |-> IF d = x THEN <<n, i>> ELSE handle[d]]

\* Mutant: the entry of a deleted device is left.
DeleteKeepsEntry(n, i) ==
  /\ handle' = [d \in Devs |-> IF d = db[n][i] THEN Nowhere ELSE handle[d]]
  /\ UNCHANGED <<db, moved>>

\* Machine.device_delete
device_delete(n, i) ==
  /\ handle' = [d \in Devs |-> IF d = db[n][i] THEN Nowhere ELSE handle[d]]
  /\ db' = [db EXCEPT ![n][i] = Nobody]
  /\ UNCHANGED moved

\* Mutant: the destination is compared.
MovedTo(n, i) == {d \in Devs : moved[d] # Unmoved /\ moved[d].dst = n /\ moved[d].old = i}

\* the devices device_netns_change finds
MovedFrom(n, i) == {d \in Devs : moved[d] # Unmoved /\ moved[d].src = n /\ moved[d].old = i}

\* Machine.device_netns_change
device_netns_change(n, i, j) ==
  /\ \E d \in MovedFrom(n, i) : moved' = [moved EXCEPT ![d].new = j]
  /\ db' = [db EXCEPT ![n][i] = Nobody]
  /\ UNCHANGED handle

\* _get_netns_by_name and the look-up in _device_database succeed
HasDatabase(n) == IF n = Root THEN dbRun = run ELSE n \in names

\* check_connections
ctl_recv ==
  /\ batch = 0 /\ toCtl # <<>>
  /\ call.op # "none" /\ (call.at = "done" => call.op = "set_dev_netns")
  /\ batch' \in 1..Len(toCtl)
  /\ UNCHANGED <<kernelVars, agentVars, toCtl, call, ctlVars, faults>>

EventRaises(m) ==
  \/ ~HasDatabase(m.ns)
  \/ m.type = "dev_netns_changed" /\ MovedFrom(m.ns, m.idx) = {}

\* _process_message
ctl_event ==
  /\ batch > 0 /\ Head(toCtl).type \notin {"result", "exception"}
  /\ LET m == Head(toCtl)
     IN  /\ ~EventRaises(m)
         /\ CASE m.type = "dev_created" -> device_created(m.ns, m.idx)
              [] m.type = "dev_deleted" -> device_delete(m.ns, m.idx)
              [] OTHER -> device_netns_change(m.ns, m.idx, m.new)
  /\ toCtl' = Tail(toCtl) /\ batch' = batch - 1
  /\ UNCHANGED <<kernelVars, agentVars, call, pc, run, ops, names, dbRun, gone, faults>>

\* ... KeyError or MachineError: the run fails, and the model ends
event_fails ==
  /\ batch > 0 /\ Head(toCtl).type \notin {"result", "exception"}
  /\ EventRaises(Head(toCtl))
  /\ toCtl' = SubSeq(toCtl, batch + 1, Len(toCtl)) /\ batch' = 0
  /\ call' = NoCall
  /\ pc' = "failed"
  /\ UNCHANGED <<kernelVars, agentVars, run, ops, names, dbRun, db, moved, handle, gone, faults>>

\* send_message has its result, and goes on with the batch
ctl_result ==
  /\ batch > 0 /\ Head(toCtl).type = "result"
  /\ call' = [call EXCEPT !.at = "done"]
  /\ toCtl' = Tail(toCtl) /\ batch' = batch - 1
  /\ UNCHANGED <<kernelVars, agentVars, ctlVars, faults>>

\* an exception ends the call, and the rest of the batch is lost; the test goes on
ctl_exception ==
  /\ batch > 0 /\ Head(toCtl).type = "exception"
  /\ toCtl' = SubSeq(toCtl, batch + 1, Len(toCtl)) /\ batch' = 0
  /\ call' = NoCall
  /\ pc' = "test"
  /\ UNCHANGED <<kernelVars, agentVars, run, ops, names, dbRun, db, moved, handle, gone, faults>>

-----------------------------------------------------------------------------
(* The controller makes calls *)

CallFor(op, d, n, i, dst) ==
  call' = [op |-> op, ns |-> n, d |-> d, idx |-> i, dst |-> dst, at |-> "sent", val |-> {}]
Call(op, n) == CallFor(op, Nobody, n, NoIdx, Nobody)

Idle(at) == pc = at /\ call = NoCall /\ batch = 0
Returned(op) == call.op = op /\ call.at = "done" /\ batch = 0

\* Host, set_initns; Machine.prepare_machine.  The objects of the recipe's
\* namespaces are new ones: an entry of _netns_moved_devices that is left has
\* those of the last run, and matches no event any more.
set_initns ==
  /\ Idle("idle") /\ run < MaxRuns
  /\ run' = run + 1
  /\ handle' = [d \in Devs |-> Nowhere] /\ moved' = [d \in Devs |-> Unmoved] /\ gone' = {}
  /\ pc' = "prepare"
  /\ Call("prepare", Root)
  /\ UNCHANGED <<kernelVars, agentVars, toCtl, batch, ops, names, dbRun, db, faults>>

prepare_machine ==
  \/ /\ Returned("prepare")
     /\ dbRun' = run /\ db' = [n \in Spaces |-> EmptyDb]
     /\ Call("init", Root)
     /\ UNCHANGED <<kernelVars, agentVars, toCtl, batch, pc, run, ops, names, moved, handle, gone, faults>>
  \/ /\ Returned("init")
     /\ Call("get", Root)
     /\ UNCHANGED <<kernelVars, agentVars, toCtl, batch, ctlVars, faults>>

\* the devices of the answer enter the database, and Host.map_device finds the
\* cards the recipe asks for, if they are there
map_devices ==
  /\ Returned("get")
  /\ LET here == {d \in Physical : where[d] # Nowhere /\ where[d][1] = Root /\ where[d][2] \in call.val}
     IN  /\ db' = [db EXCEPT ![Root] = [i \in Indices |->
                     IF \E d \in here : where[d][2] = i THEN CHOOSE d \in here : where[d][2] = i
                     ELSE IF i \in call.val /\ @[i] = Nobody THEN Other ELSE @[i]]]
         /\ handle' = [d \in Devs |-> IF d \in here THEN where[d] ELSE Nowhere]
  /\ call' = NoCall
  /\ pc' = "netns"
  /\ UNCHANGED <<kernelVars, agentVars, toCtl, batch, run, ops, names, dbRun, moved, gone, faults>>

\* Machine.add_netns, for all the namespaces of the recipe
add_netns(n) ==
  /\ Idle("netns") /\ n \notin names
  /\ names' = names \union {n}
  /\ Call("add_namespace", n)
  /\ UNCHANGED <<kernelVars, agentVars, toCtl, batch, pc, run, ops, dbRun, db, moved, handle, gone, faults>>

test_starts ==
  /\ Idle("netns") /\ names = NetNs
  /\ pc' = "test"
  /\ UNCHANGED <<kernelVars, agentVars, toCtl, call, batch, run, ops, names, dbRun, db, moved, handle, gone, faults>>

\* what a tester may use: not destroyed, not deleted, not in readonly cache
Usable(d) == handle[d] # Nowhere /\ d \notin gone /\ moved[d] = Unmoved

TestOp == Idle("test") /\ ops < MaxOps /\ ops' = ops + 1

\* Machine.remote_device_set_netns, _add_device_to_netns_moved_devices
remote_device_set_netns(d, dst) ==
  /\ TestOp /\ Usable(d) /\ dst # handle[d][1]
  /\ dst = Root => "raise" \in faults
  /\ LET src == handle[d][1]
         old == handle[d][2]
     IN  /\ db' = [db EXCEPT ![src][old] = Nobody]
         /\ moved' = [moved EXCEPT ![d] = [src |-> src, dst |-> dst, old |-> old, new |-> NoIdx]]
         /\ CallFor("set_dev_netns", d, src, old, dst)
  /\ UNCHANGED <<kernelVars, agentVars, toCtl, batch, pc, run, names, dbRun, handle, gone, faults>>

AfterCall == UNCHANGED <<kernelVars, agentVars, toCtl, batch, run, ops, names, dbRun, faults>>

\* ... waits for the move, and has the agent of the new namespace remap the device
move_completed ==
  /\ Returned("set_dev_netns") /\ moved[call.d] = Unmoved
  /\ CallFor("remap", call.d, handle[call.d][1], handle[call.d][2], Nobody)
  /\ AfterCall /\ UNCHANGED <<pc, db, moved, handle, gone>>

move_timed_out ==
  /\ "timeout" \in faults
  /\ Returned("set_dev_netns") /\ moved[call.d] # Unmoved
  /\ call' = NoCall
  /\ AfterCall /\ UNCHANGED <<pc, db, moved, handle, gone>>

\* Machine.remote_device_create
remote_device_create(d, n) ==
  /\ TestOp /\ where[d] = Nowhere /\ handle[d] = Nowhere
  /\ CallFor("create", d, n, NoIdx, Nobody)
  /\ gone' = gone \ {d}
  /\ UNCHANGED <<kernelVars, agentVars, toCtl, batch, pc, run, names, dbRun, db, moved, handle, faults>>

device_is_created ==
  /\ Returned("create")
  /\ \E i \in call.val :
       /\ db' = [db EXCEPT ![call.ns][i] = call.d]
       /\ handle' = [handle EXCEPT ![call.d] = <<call.ns, i>>]
  /\ call' = NoCall
  /\ AfterCall /\ UNCHANGED <<pc, moved, gone>>

\* Machine.remote_device_method, of a device a test destroys; what it names may
\* be a card after a move that timed out
remote_device_destroy(d) ==
  /\ TestOp /\ Usable(d)
  /\ (\E x \in Soft : where[x] = handle[d]) \/ "raise" \in faults
  /\ CallFor("destroy", d, handle[d][1], handle[d][2], Nobody)
  /\ gone' = gone \union {d}
  /\ UNCHANGED <<kernelVars, agentVars, toCtl, batch, pc, run, names, dbRun, db, moved, handle, faults>>

call_returns ==
  /\ Returned("add_namespace") \/ Returned("remap") \/ Returned("destroy")
  /\ call' = NoCall
  /\ AfterCall /\ UNCHANGED <<pc, db, moved, handle, gone>>

\* Machine.cleanup: destroy_devices, del_namespaces, bye
test_ends ==
  /\ Idle("test")
  /\ pc' = "cleanup"
  /\ Call("destroy_devices", Root)
  /\ AfterCall /\ UNCHANGED <<db, moved, handle, gone>>

NextOf(m) == IF m = {} THEN Call("bye", Root)
                       ELSE \E n \in m : CallFor("del_namespace", Nobody, Root, NoIdx, n)

cleanup ==
  /\ Returned("destroy_devices") \/ Returned("del_namespace")
  /\ LET rest == IF call.op = "del_namespace" THEN managed \ {Root} ELSE names
     IN  /\ NextOf(rest)
         /\ names' = IF rest = {} THEN {} ELSE names
  /\ UNCHANGED <<kernelVars, agentVars, toCtl, batch, pc, run, ops, dbRun, db, moved, handle, gone, faults>>

cleaned_up ==
  /\ Returned("bye")
  /\ call' = NoCall
  /\ pc' = "idle"
  /\ AfterCall /\ UNCHANGED <<db, moved, handle, gone>>

-----------------------------------------------------------------------------
Init ==
  /\ where \in {w \in [Devs -> {Nowhere} \union {<<Root, i>> : i \in Indices}] :
                  /\ \A d \in Devs : w[d] = Nowhere <=> d \in Soft
                  /\ \A d, e \in Physical : w[d] = w[e] => d = e}
  /\ dying = {}
  /\ nl = [n \in Spaces |-> <<>>]
  /\ known = [n \in Spaces |-> {}]
  /\ managed = {}
  /\ pipe = [n \in NetNs |-> <<>>]
  /\ toCtl = <<>>
  /\ call = NoCall /\ batch = 0
  /\ pc = "idle" /\ run = 0 /\ ops = 0
  /\ names = {} /\ dbRun = 0
  /\ db = [n \in Spaces |-> EmptyDb]
  /\ moved = [d \in Devs |-> Unmoved]
  /\ handle = [d \in Devs |-> Nowhere] /\ gone = {}
  /\ faults \in SUBSET Faults

AgentStep ==
  \/ \E n \in Spaces : agent_polls(n)
  \/ \E n \in NetNs : from_netns(n)
  \/ cleanup_net
  \/ agent_prepare \/ init_if_manager \/ agent_rescans
  \/ ip_link_set \/ set_dev_netns \/ create_device \/ destroy
  \/ destroy_devices \/ del_namespace \/ agent_bye

ControllerStep ==
  \/ ctl_recv \/ ctl_event \/ event_fails \/ ctl_result \/ ctl_exception
  \/ prepare_machine \/ map_devices
  \/ \E n \in NetNs : add_netns(n)
  \/ test_starts \/ move_completed \/ device_is_created
  \/ call_returns \/ cleanup \/ cleaned_up

TestStep ==
  \/ \E d \in Devs, n \in Spaces : remote_device_set_netns(d, n)
  \/ \E d \in Soft, n \in Spaces : remote_device_create(d, n)
  \/ \E d \in Soft : remote_device_destroy(d)
  \/ test_ends

Next ==
  \/ AgentStep \/ ControllerStep \/ TestStep
  \/ set_initns \/ move_timed_out
  \/ \E n \in Spaces : reconnect_netlink(n)

(***************************************************************************)
(* Every agent looks at its netlink socket at least every MAX_SERVER_HANG  *)
(* seconds, and handles what it is sent; the controller's code runs.       *)
(* Nothing makes a tester do something or a wait time out.                 *)
(***************************************************************************)
Spec == Init /\ [][Next]_vars /\ WF_vars(AgentStep) /\ WF_vars(ControllerStep)

-----------------------------------------------------------------------------
(***************************************************************************)
(* Properties                                                              *)
(***************************************************************************)
Place == {Nowhere} \union (Spaces \X Indices)

TypeOK ==
  /\ where \in [Devs -> Place] /\ handle \in [Devs -> Place]
  /\ dying \subseteq Physical /\ gone \subseteq Soft
  /\ known \in [Spaces -> SUBSET Indices]
  /\ managed \subseteq Spaces /\ names \subseteq NetNs
  /\ \A n \in Spaces : \A k \in DOMAIN nl[n] : nl[n][k].type \in {"NEWLINK", "DELLINK"}
  /\ batch \in 0..Len(toCtl)
  /\ pc \in {"idle", "prepare", "netns", "test", "cleanup", "failed"}
  /\ run \in 0..MaxRuns /\ dbRun \in 0..run /\ ops \in 0..MaxOps
  /\ db \in [Spaces -> [Indices -> Devs \union {Other, Nobody}]]
  /\ \A d \in Devs : moved[d] # Unmoved => moved[d].src # moved[d].dst

\* nothing is under way, and nothing waits to be noticed
Quiet ==
  /\ Idle("test") /\ toCtl = <<>>
  /\ \A n \in Spaces : nl[n] = <<>>
  /\ \A n \in NetNs : pipe[n] = <<>>

(***************************************************************************)
(* Once all messages have been handled, the device database of the         *)
(* controller has an object for each device there is, in its namespace,    *)
(* and, unless netlink messages were lost, for no other; only a device     *)
(* whose move failed may be missing where it was.  This needs that no call *)
(* raises: an exception drops the events read with it.                     *)
(***************************************************************************)
DatabaseAgrees ==
  Quiet /\ "raise" \notin faults => \A n \in Spaces, i \in Indices :
    /\ i \in At(where, n) /\ MovedFrom(n, i) = {} => db[n][i] # Nobody
    /\ "overflow" \notin faults /\ db[n][i] # Nobody => i \in At(where, n)

(***************************************************************************)
(* A command for a device meets one on the agent, however many moves have  *)
(* timed out and messages been lost: deviceref_to_device raises            *)
(* DeviceNotFound outside of any handler, which would end the agent.  It   *)
(* is the device the tester means: the namespace and index the controller  *)
(* has for it are right when the command is handled.  After a move has     *)
(* timed out it may be another: the entry of the move stays in             *)
(* _netns_moved_devices, and a device that takes the old index and moves   *)
(* on completes it.                                                        *)
(***************************************************************************)
CommandsMeetTheirDevice ==
  \A op \in {"set_dev_netns", "remap", "destroy"} :
    Commanded(op) => \E x \in Met : "timeout" \notin faults => x = call.d

(***************************************************************************)
(* The handle of a usable device and the database agree on where it is.    *)
(***************************************************************************)
HandlesInDatabase ==
  \A d \in Devs : pc = "test" /\ Usable(d)
    => db[handle[d][1]][handle[d][2]] = d

(***************************************************************************)
(* Events that reach the controller belong to a namespace it has a         *)
(* database for, and a device that is said to have been moved is one that  *)
(* is being moved: only while a machine is prepared for a run may an event *)
(* of the last one be left, and only after a move has timed out may a      *)
(* device have been taken for another.                                     *)
(***************************************************************************)
OnlyStaleEventsFail == pc = "failed" => dbRun < run \/ "timeout" \in faults

(***************************************************************************)
(* A device that leaves the root namespace, whose agent passes all         *)
(* messages on, is reported to have left before it is reported to have     *)
(* come, so the move is completed.                                         *)
(***************************************************************************)
MovesFromRootComplete ==
  \A d \in Devs :
    call.op = "set_dev_netns" /\ call.d = d /\ call.ns = Root /\ call.dst # Root
    /\ faults = {} ~> moved[d] = Unmoved

(****************************************************************************)
(* What the controller knows of devices is consistent with itself at any    *)
(* time, and with the machine whenever nothing is under way.                *)
(****************************************************************************)
ViewConsistent == TypeOK /\ DatabaseAgrees /\ HandlesInDatabase
=============================================================================

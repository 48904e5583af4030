--------------------------- MODULE MachineMapper ---------------------------
(***************************************************************************)
(* Controller/MachineMapper.py: the backtracking search that maps the      *)
(* machines a recipe requires, with their interfaces and the labels of     *)
(* their networks, to the machines of a pool, as Controller.run drives it. *)
(*                                                                         *)
(* Names of machines and interfaces are numbers in the order in which the  *)
(* code sorts them.  A dictionary is a function.  Pools are numbered in    *)
(* the order of the configuration, so that what is left of the stack of    *)
(* pool names is their number.                                             *)
(***************************************************************************)
EXTENDS Integers, FiniteSets, SequencesExt

CONSTANTS
  PoolSets,  \* what the pool manager may have found: sequences of pools
  Calls,     \* [mreqs, multimatch, allow_virt]: what matches() is called with
  MaxCalls,  \* bound: recipes run with one mapper
  None       \* nothing matched (yet)

(***************************************************************************)
(* A machine has params and interfaces, an interface has a network and     *)
(* params; requirements have the same form, with labels for networks.      *)
(* AgentPoolManager drops the pools it finds no machine in; the one pool   *)
(* of the ContainerPoolManager may be empty.                               *)
(***************************************************************************)
IsMachines(ms) ==
  /\ DOMAIN ms \subseteq Nat
  /\ IsFiniteSet(DOMAIN ms)
  /\ \A m \in DOMAIN ms : /\ DOMAIN ms[m].interfaces \subseteq Nat
                          /\ IsFiniteSet(DOMAIN ms[m].interfaces)

ASSUME MapperAssumption ==
  /\ \A pools \in PoolSets :
       /\ pools \in Seq(Range(pools))
       /\ \A k \in DOMAIN pools :
            IsMachines(pools[k]) /\ (DOMAIN pools[k] # {} \/ Len(pools) = 1)
  /\ \A c \in Calls : /\ IsMachines(c.mreqs)
                      /\ {c.multimatch, c.allow_virt} \subseteq BOOLEAN
  /\ MaxCalls \in Nat
  /\ None \notin Nat

VARIABLES
  pools,         \* _pools
  call,          \* _mreqs and the arguments of matches
  calls,         \* bound: calls made so far
  pc,            \* where the generator stands
  tried,         \* the passes of this call: their values of _virtual_matching
  found,         \* history: the mappings this call has yielded
  virtual_matching, pool_name, pool_stack,
  unmatched_pool_machines, unmatched_req_machines,
  machine_stack, net_label_mapping

callVars == <<pools, call, calls>>
passVars == <<tried, virtual_matching>>
poolVars == <<pool_name, pool_stack>>
listVars == <<unmatched_pool_machines, unmatched_req_machines>>
vars == <<callVars, pc, passVars, found, poolVars, listVars, machine_stack,
          net_label_mapping>>

-----------------------------------------------------------------------------
(* sorted(S, reverse=True): one sequence, given as the set that holds it. *)
SortedDown(S) ==
  {s \in [1..Cardinality(S) -> S] : \A i, j \in DOMAIN s : i < j => s[i] > s[j]}

(* list.remove(e), which raises an exception unless e is there. *)
Without(s, e) == RemoveAt(s, CHOOSE i \in DOMAIN s : s[i] = e)

(* pop() from the end until a candidate is good enough stops at i. *)
IsLast(i, good) == i \in good /\ \A k \in good : k <= i

(* What was matched goes to the end of the list of what is free. *)
Release(free, e) ==
  IF e.current_match = None THEN free ELSE Append(free, e.current_match)

\* Mutant: the candidate is looked at, and stays in the list.
TakeKeeps(e, k) ==
  [e EXCEPT !.current_match = e.remaining_matches[k],
            !.remaining_matches = SubSeq(@, 1, k)]

(* The k-th candidate is taken, those tried before it are gone. *)
Take(e, k) ==
  [e EXCEPT !.current_match = e.remaining_matches[k],
            !.remaining_matches = SubSeq(@, 1, k - 1)]

NoMachines == <<>>
PoolNamed(k) == IF k = 0 THEN NoMachines ELSE pools[k]
pool == PoolNamed(pool_name)

Listed(machines, virtual) ==
  {p \in DOMAIN machines :
     virtual => "libvirt_domain" \in DOMAIN machines[p].params}

_params_compatible(req, has) ==
  \A p \in DOMAIN req :
     req[p] = "" \/ (p \in DOMAIN has /\ has[p] = req[p])

_check_machine_compatibility(req_id, pool_id) ==
  _params_compatible(call.mreqs[req_id].params, pool[pool_id].params)

\* Mutant: two labels may mean the same network.
CheckLabelsOneWay(labels, req_if, pool_if) ==
  /\ \A l \in DOMAIN labels :
        l = req_if.network => labels[l].network = pool_if.network
  /\ _params_compatible(req_if.params, pool_if.params)

_check_interface_compatibility(labels, req_if, pool_if) ==
  /\ \A l \in DOMAIN labels :
        l = req_if.network <=> labels[l].network = pool_if.network
  /\ _params_compatible(req_if.params, pool_if.params)

Top == Last(machine_stack)
SetTop(m) == machine_stack' = Append(Front(machine_stack), m)

-----------------------------------------------------------------------------
\* Mutant: the labels of the last search are kept.
ResetKeepsLabels(mreqs, virtual) ==
  /\ machine_stack' = <<>>
  /\ unmatched_req_machines' \in SortedDown(DOMAIN mreqs)
  /\ pool_name' = Len(pools)
  /\ pool_stack' = IF Len(pools) = 0 THEN 0 ELSE Len(pools) - 1
  /\ unmatched_pool_machines' \in
       SortedDown(Listed(PoolNamed(pool_name'), virtual))
  /\ pc' = IF DOMAIN PoolNamed(pool_name') # {} /\ DOMAIN mreqs # {}
             THEN "push_machine" ELSE "match"
  /\ UNCHANGED net_label_mapping

(***************************************************************************)
(* reset_match_state starts a pass with the last pool.  Without a pool the *)
(* stack of machines stays empty.                                          *)
(***************************************************************************)
reset_match_state(mreqs, virtual) ==
  /\ net_label_mapping' = <<>>
  /\ machine_stack' = <<>>
  /\ unmatched_req_machines' \in SortedDown(DOMAIN mreqs)
  /\ pool_name' = Len(pools)
  /\ pool_stack' = IF Len(pools) = 0 THEN 0 ELSE Len(pools) - 1
  /\ unmatched_pool_machines' \in SortedDown(Listed(PoolNamed(pool_name'), virtual))
  /\ pc' = IF DOMAIN PoolNamed(pool_name') # {} /\ DOMAIN mreqs # {}
             THEN "push_machine" ELSE "match"

(* Controller.run: set_requirements and the first step of matches. *)
run(c) ==
  /\ pc \in {"idle", "end", "raised"} /\ calls < MaxCalls
  /\ calls' = calls + 1
  /\ call' = c
  /\ tried' = <<virtual_matching>>
  /\ found' = {}
  /\ reset_match_state(c.mreqs, virtual_matching)
  /\ UNCHANGED <<pools, virtual_matching>>

_push_machine_stack ==
  /\ pc = "push_machine"
  /\ LET m == Last(unmatched_req_machines)
     IN  \E ifs \in SortedDown(DOMAIN call.mreqs[m].interfaces) :
           machine_stack' = Append(machine_stack,
             [m_id |-> m, current_match |-> None,
              remaining_matches |-> unmatched_pool_machines,
              if_stack |-> <<>>, unmatched_ifs |-> ifs,
              unmatched_pool_ifs |-> <<>>, virt_matched |-> FALSE])
  /\ unmatched_req_machines' = Front(unmatched_req_machines)
  /\ pc' = "match"
  /\ UNCHANGED <<callVars, passVars, found, poolVars, unmatched_pool_machines,
                 net_label_mapping>>

(* The first interface of a machine without any: pop from an empty list. *)
_push_if_stack ==
  /\ pc = "push_if"
  /\ \/ /\ Top.unmatched_ifs = <<>>
        /\ pc' = "raised"
        /\ UNCHANGED machine_stack
     \/ /\ Top.unmatched_ifs # <<>>
        /\ SetTop([Top EXCEPT
             !.unmatched_ifs = Front(@),
             !.if_stack = Append(@, [if_id |-> Last(Top.unmatched_ifs),
                                     current_match |-> None,
                                     remaining_matches |-> Top.unmatched_pool_ifs])])
        /\ pc' = "match"
  /\ UNCHANGED <<callVars, passVars, found, poolVars, listVars, net_label_mapping>>

(***************************************************************************)
(* _if_match of a pass with virtual machines: a machine that has just been *)
(* mapped is matched, one that was matched before is given up.             *)
(***************************************************************************)
AllMatched == unmatched_req_machines = <<>>
AfterMatch == IF AllMatched THEN "yield" ELSE "push_machine"

virtual_match ==
  /\ pc = "match" /\ machine_stack # <<>> /\ virtual_matching
  /\ \/ /\ ~Top.virt_matched /\ Top.current_match # None
        /\ SetTop([Top EXCEPT !.virt_matched = TRUE])
        /\ pc' = AfterMatch
        /\ UNCHANGED unmatched_pool_machines
     \/ /\ Top.virt_matched \/ Top.current_match = None
        /\ unmatched_pool_machines' = Release(unmatched_pool_machines, Top)
        /\ SetTop([Top EXCEPT !.virt_matched = FALSE, !.current_match = None])
        /\ pc' = "next_machine"
  /\ UNCHANGED <<callVars, passVars, found, poolVars, unmatched_req_machines,
                 net_label_mapping>>

\* Mutant: a label keeps the meaning a match gave it that was given up.
LabelsKept(m, i, label) == net_label_mapping

(***************************************************************************)
(* _if_match otherwise.  The interface on top gives up what it has, and    *)
(* with it the meaning of a label it was the first to use; it takes the    *)
(* next candidate, or is taken off the stack.                              *)
(***************************************************************************)
LabelsWithout(m, i, label) ==
  LET given == [network |-> pool[m.current_match].interfaces[i.current_match].network,
                m_id |-> m.m_id, if_id |-> i.if_id]
  IN  IF i.current_match # None /\ net_label_mapping[label] = given
        THEN Restrict(net_label_mapping, DOMAIN net_label_mapping \ {label})
        ELSE net_label_mapping

(* A label keeps the meaning it has already. *)
WithLabel(labels, label, given) ==
  [l \in DOMAIN labels \union {label} |->
     IF l \in DOMAIN labels THEN labels[l] ELSE given]

_pop_if_stack(m) ==
  [m EXCEPT !.if_stack = Front(@),
            !.unmatched_ifs = Append(@, Last(m.if_stack).if_id)]

_if_match ==
  LET m       == Top
      i       == Last(m.if_stack)
      req_if  == call.mreqs[m.m_id].interfaces[i.if_id]
      pool_ifs == pool[m.current_match].interfaces
      free    == Release(m.unmatched_pool_ifs, i)
      labels  == LabelsWithout(m, i, req_if.network)
      good    == {k \in DOMAIN i.remaining_matches :
                    _check_interface_compatibility(labels, req_if,
                                                   pool_ifs[i.remaining_matches[k]])}
  IN  /\ pc = "match" /\ machine_stack # <<>> /\ ~virtual_matching
      /\ m.if_stack # <<>>
      /\ \/ \E k \in DOMAIN i.remaining_matches :
              LET t == i.remaining_matches[k]
              IN  /\ IsLast(k, good)
                  /\ SetTop([m EXCEPT
                       !.if_stack = Append(Front(@), Take(i, k)),
                       !.unmatched_pool_ifs = Without(free, t)])
                  /\ net_label_mapping' =
                       WithLabel(labels, req_if.network,
                                 [network |-> pool_ifs[t].network,
                                  m_id |-> m.m_id, if_id |-> i.if_id])
                  /\ pc' = IF m.unmatched_ifs # <<>> THEN "push_if" ELSE AfterMatch
         \/ /\ good = {}
            /\ SetTop([_pop_if_stack(m) EXCEPT !.unmatched_pool_ifs = free])
            /\ net_label_mapping' = labels
            /\ pc' = "match"
      /\ UNCHANGED <<callVars, passVars, found, poolVars, listVars>>

_if_match_fails ==
  /\ pc = "match" /\ machine_stack # <<>> /\ ~virtual_matching
  /\ Top.if_stack = <<>>
  /\ pc' = "next_machine"
  /\ UNCHANGED <<callVars, passVars, found, poolVars, listVars, machine_stack,
                 net_label_mapping>>

(***************************************************************************)
(* _match after its machine on top could not be matched: the next          *)
(* compatible machine, or back to the machine below, or the next pool.     *)
(***************************************************************************)
next_machine ==
  LET free == Release(unmatched_pool_machines, Top)
      good == {k \in DOMAIN Top.remaining_matches :
                 _check_machine_compatibility(Top.m_id, Top.remaining_matches[k])}
  IN  /\ pc = "next_machine"
      /\ \/ \E k \in DOMAIN Top.remaining_matches :
              LET t == Top.remaining_matches[k]
              IN  /\ IsLast(k, good)
                  /\ \E ifs \in SortedDown(DOMAIN pool[t].interfaces) :
                       SetTop([Take(Top, k) EXCEPT !.if_stack = <<>>,
                                                   !.unmatched_pool_ifs = ifs])
                  /\ unmatched_pool_machines' = Without(free, t)
                  /\ pc' = IF virtual_matching THEN "match" ELSE "push_if"
                  /\ UNCHANGED <<poolVars, unmatched_req_machines>>
         \/ /\ good = {}
            /\ machine_stack' = Front(machine_stack)
            /\ unmatched_req_machines' = Append(unmatched_req_machines, Top.m_id)
            /\ \/ /\ Len(machine_stack) > 1 \/ pool_stack = 0
                  /\ unmatched_pool_machines' = free
                  /\ pc' = "match"
                  /\ UNCHANGED poolVars
               \/ /\ Len(machine_stack) = 1 /\ pool_stack > 0
                  /\ pool_name' = pool_stack
                  /\ pool_stack' = pool_stack - 1
                  /\ unmatched_pool_machines' \in
                       SortedDown(Listed(PoolNamed(pool_name'), virtual_matching))
                  /\ pc' = IF DOMAIN PoolNamed(pool_name') # {} THEN "push_machine" ELSE "match"
      /\ UNCHANGED <<callVars, passVars, found, net_label_mapping>>

(***************************************************************************)
(* What matches yields.                                                    *)
(***************************************************************************)
get_mapping ==
  [pool_name |-> pool_name,
   virtual   |-> virtual_matching,
   networks  |-> [l \in DOMAIN net_label_mapping |-> net_label_mapping[l].network],
   machines  |->
     [x \in {e.m_id : e \in Range(machine_stack)} |->
        LET m == CHOOSE e \in Range(machine_stack) : e.m_id = x
        IN  [target |-> m.current_match,
             interfaces |->
               [y \in {i.if_id : i \in Range(m.if_stack)} |->
                  (CHOOSE i \in Range(m.if_stack) : i.if_id = y).current_match]]]]

(* With multimatch the recipe runs again, unless it raises an exception. *)
yield_match ==
  /\ pc = "yield"
  /\ found' = found \union {get_mapping}
  /\ \/ call.multimatch /\ pc' = "match"
     \/ pc' = "idle"
  /\ UNCHANGED <<callVars, passVars, poolVars, listVars, machine_stack,
                 net_label_mapping>>

\* Mutant: the second pass is like the first.
NoMatchKeepsMode ==
  /\ pc = "match" /\ machine_stack = <<>>
  /\ \/ /\ call.allow_virt /\ Len(tried) = 1
        /\ tried' = Append(tried, TRUE)
        /\ reset_match_state(call.mreqs, TRUE)
        /\ UNCHANGED virtual_matching
     \/ /\ ~call.allow_virt \/ Len(tried) = 2
        /\ pc' = "end"
        /\ UNCHANGED <<passVars, poolVars, listVars, machine_stack, net_label_mapping>>
  /\ UNCHANGED <<callVars, found>>

(* _match returns False: a pass with virtual machines, or the end. *)
no_match ==
  /\ pc = "match" /\ machine_stack = <<>>
  /\ \/ /\ call.allow_virt /\ Len(tried) = 1
        /\ virtual_matching' = TRUE
        /\ tried' = Append(tried, TRUE)
        /\ reset_match_state(call.mreqs, TRUE)
     \/ /\ ~call.allow_virt \/ Len(tried) = 2
        /\ pc' = "end"
        /\ UNCHANGED <<passVars, poolVars, listVars, machine_stack, net_label_mapping>>
  /\ UNCHANGED <<callVars, found>>

-----------------------------------------------------------------------------
NoCall == [mreqs |-> <<>>, multimatch |-> FALSE, allow_virt |-> FALSE]

Init ==
  /\ pools \in PoolSets
  /\ call = NoCall
  /\ calls = 0
  /\ pc = "idle"
  /\ tried = <<>> /\ found = {}
  /\ virtual_matching = FALSE
  /\ pool_name = 0 /\ pool_stack = 0
  /\ unmatched_pool_machines = <<>> /\ unmatched_req_machines = <<>>
  /\ machine_stack = <<>> /\ net_label_mapping = <<>>

MapperNext == \/ _push_machine_stack \/ _push_if_stack
              \/ virtual_match \/ _if_match \/ _if_match_fails
              \/ next_machine \/ no_match

Next == (\E c \in Calls : run(c)) \/ yield_match \/ MapperNext

(* The search is a loop without waiting. *)
Spec == Init /\ [][Next]_vars /\ WF_vars(MapperNext)

-----------------------------------------------------------------------------
(***************************************************************************)
(* What a match is, whatever the order in which they are found.            *)
(***************************************************************************)
Candidates(req, machines, virtual) ==
  UNION {{[target |-> p, interfaces |-> f] :
            f \in IF virtual THEN {<<>>}
                  ELSE Injection(DOMAIN req.interfaces, DOMAIN machines[p].interfaces)} :
         p \in {p \in Listed(machines, virtual) :
                  _params_compatible(req.params, machines[p].params)}}

Ports(f) == UNION {{<<m, i>> : i \in DOMAIN f[m].interfaces} : m \in DOMAIN f}

LabelOf(q) == call.mreqs[q[1]].interfaces[q[2]].network
NetworkOf(machines, f, q) ==
  machines[f[q[1]].target].interfaces[f[q[1]].interfaces[q[2]]].network

IsMatch(machines, f, virtual) ==
  LET req == call.mreqs
  IN  /\ \A m, n \in DOMAIN req : f[m].target = f[n].target => m = n
      /\ \A q, r \in Ports(f) : LabelOf(q) = LabelOf(r) <=>
                                NetworkOf(machines, f, q) = NetworkOf(machines, f, r)
      /\ \A q \in Ports(f) :
           _params_compatible(req[q[1]].interfaces[q[2]].params,
             machines[f[q[1]].target].interfaces[f[q[1]].interfaces[q[2]]].params)

MatchesIn(k, virtual) ==
  LET req == call.mreqs
      choices == {f \in [DOMAIN req -> UNION {Candidates(req[m], pools[k], virtual) :
                                                m \in DOMAIN req}] :
                    \A m \in DOMAIN req : f[m] \in Candidates(req[m], pools[k], virtual)}
  IN  {[pool_name |-> k, virtual |-> virtual, machines |-> f,
        networks |-> [l \in {LabelOf(q) : q \in Ports(f)} |->
          NetworkOf(pools[k], f, CHOOSE q \in Ports(f) : LabelOf(q) = l)]] :
       f \in {f \in choices : IsMatch(pools[k], f, virtual)}}

(* A recipe that requires no machine is refused. *)
AllMatches(virtual) ==
  IF DOMAIN call.mreqs = {} THEN {}
  ELSE UNION {MatchesIn(k, virtual) : k \in DOMAIN pools}

-----------------------------------------------------------------------------
(* Every variable keeps its type. *)
IfMatch == [if_id : Nat, current_match : Nat \union {None},
            remaining_matches : Seq(Nat)]
MachineMatch == [m_id : Nat, current_match : Nat \union {None},
                 remaining_matches : Seq(Nat), if_stack : Seq(IfMatch),
                 unmatched_ifs : Seq(Nat), unmatched_pool_ifs : Seq(Nat),
                 virt_matched : BOOLEAN]

TypeOK ==
  /\ pools \in PoolSets
  /\ call \in Calls \union {NoCall}
  /\ calls \in 0..MaxCalls
  /\ pc \in {"idle", "push_machine", "match", "push_if", "next_machine",
             "yield", "end", "raised"}
  /\ tried \in Seq(BOOLEAN) /\ Len(tried) <= 2
  /\ virtual_matching \in BOOLEAN
  /\ pool_name \in 0..Len(pools) /\ pool_stack \in 0..Len(pools)
  /\ unmatched_pool_machines \in Seq(Nat)
  /\ unmatched_req_machines \in Seq(Nat)
  /\ machine_stack \in Seq(MachineMatch)

(***************************************************************************)
(* What matches yields is a match: no machine and no interface is used     *)
(* twice, all params agree, and labels and networks correspond one to one. *)
(***************************************************************************)
YieldsMatches == pc = "yield" => get_mapping \in AllMatches(virtual_matching)

(***************************************************************************)
(* "Repeated calls of this method will return more possible mappings until *)
(* no more are possible": when the search ends it has yielded every match  *)
(* of every pool, so MapperError is raised only if there is none.          *)
(***************************************************************************)
YieldsAll ==
  pc = "end" => found = UNION {AllMatches(v) : v \in Range(tried)}

(***************************************************************************)
(* No recipe runs twice on the same match. A mapper that fell back to the  *)
(* virtual pool once stays there (_virtual_matching is never reset), and   *)
(* then makes two passes of the same kind: those calls are excluded.       *)
(***************************************************************************)
YieldsOnce == pc = "yield" /\ IsInjective(tried) => get_mapping \notin found

(***************************************************************************)
(* The machines of the pool are the unmatched ones and those on the stack, *)
(* each once, and so are the required machines; a machine on the stack has *)
(* only candidates that are free or matched above it, so that list.remove  *)
(* finds them when they come up; and when a match is yielded every machine *)
(* on the stack has one.                                                   *)
(***************************************************************************)
MatchedAbove(k) ==
  {machine_stack[j].current_match : j \in k + 1 .. Len(machine_stack)} \ {None}

PoolPartition ==
  /\ IsInjective(unmatched_pool_machines)
  /\ \A j, k \in DOMAIN machine_stack :
       j # k /\ machine_stack[j].current_match # None =>
         machine_stack[j].current_match # machine_stack[k].current_match
  /\ Range(unmatched_pool_machines) \intersect MatchedAbove(0) = {}
  /\ Range(unmatched_pool_machines) \union MatchedAbove(0)
       = Listed(pool, virtual_matching)

ReqPartition ==
  /\ IsInjective(unmatched_req_machines)
  /\ \A j, k \in DOMAIN machine_stack :
       j # k => machine_stack[j].m_id # machine_stack[k].m_id
  /\ \A k \in DOMAIN machine_stack :
       machine_stack[k].m_id \notin Range(unmatched_req_machines)
  /\ Range(unmatched_req_machines)
       \union {machine_stack[k].m_id : k \in DOMAIN machine_stack}
       = DOMAIN call.mreqs

CandidatesLeft ==
  \A k \in DOMAIN machine_stack :
    /\ IsInjective(machine_stack[k].remaining_matches)
    /\ Range(machine_stack[k].remaining_matches) \subseteq
         Range(unmatched_pool_machines) \union MatchedAbove(k)

MatchedBelowTop ==
  \A k \in DOMAIN machine_stack :
    machine_stack[k].current_match = None =>
      k = Len(machine_stack) /\ pc \in {"match", "next_machine"}

MachinesKept ==
  PoolPartition /\ ReqPartition /\ CandidatesLeft /\ MatchedBelowTop

(***************************************************************************)
(* A label means a network exactly as long as an interface that is matched *)
(* uses it, and means the network of all of them.                          *)
(***************************************************************************)
MatchedPorts ==
  {q \in UNION {{m} \X Range(m.if_stack) : m \in Range(machine_stack)} :
     q[2].current_match # None}

LabelsMatchPorts ==
  LET label(q) == call.mreqs[q[1].m_id].interfaces[q[2].if_id].network
      network(q) == pool[q[1].current_match].interfaces[q[2].current_match].network
  IN  /\ DOMAIN net_label_mapping = {label(q) : q \in MatchedPorts}
      /\ \A q \in MatchedPorts : net_label_mapping[label(q)].network = network(q)

(***************************************************************************)
(* Only a required machine without interfaces makes the search raise an    *)
(* exception of its own: whatever was tried before, a machine that is      *)
(* mapped has all of its interfaces unmatched.                             *)
(***************************************************************************)
RaisesForBareMachines ==
  pc = "push_if" /\ Top.if_stack = <<>> =>
    /\ IsInjective(Top.unmatched_ifs)
    /\ Range(Top.unmatched_ifs) = DOMAIN call.mreqs[Top.m_id].interfaces

Searching == pc \in {"push_machine", "match", "push_if", "next_machine"}

(* The search ends, with a match or without. *)
SearchReturns == Searching ~> ~Searching

(****************************************************************************)
(* What the search relies on whenever it goes forward or back: nothing is   *)
(* lost or used twice, labels mean what the matched interfaces need, and    *)
(* no machine runs out of interfaces.                                       *)
(****************************************************************************)
SearchConsistent == TypeOK /\ MachinesKept /\ LabelsMatchPorts /\ RaisesForBareMachines
=============================================================================

------------------------ MODULE MachineMapper_proofs ------------------------
(***************************************************************************)
(* For any pools and requirements: whatever the search goes forward to or  *)
(* back to, it loses no machine, interface or label and uses none twice,   *)
(* what it yields is a match, it yields none twice and, when it ends, has  *)
(* yielded them all.                                                       *)
(***************************************************************************)
EXTENDS MachineMapper_lemmas

-----------------------------------------------------------------------------
(***************************************************************************)
(* Every action keeps the invariant.                                       *)
(***************************************************************************)
Holding(st, free, left, given) ==
  Consistent(st, free, left, given, call.mreqs, pool, virtual_matching)

LEMMA HeldNow ==
  ASSUME MInv
  PROVE  /\ machine_stack \in Seq(MachineMatch)
         /\ unmatched_pool_machines \in Seq(Nat) /\ unmatched_req_machines \in Seq(Nat)
         /\ virtual_matching \in BOOLEAN /\ IsMachines(call.mreqs) /\ IsMachines(pool)
         /\ Holding(machine_stack, unmatched_pool_machines, unmatched_req_machines,
                    net_label_mapping)
         /\ OnStack /\ Finished
<1>1. IsMachines(call.mreqs)
  BY CallMachines DEF MInv, TypeOK
<1>2. IsMachines(pool)
  BY PoolMachines DEF MInv, TypeOK, pool
<1> QED  BY <1>1, <1>2, ZenonT(30) DEF MInv, TypeOK, Holding

LEMMA StepKeeps ==
  ASSUME MInv, UNCHANGED <<callVars, passVars, poolVars>>,
         machine_stack' \in Seq(MachineMatch), unmatched_pool_machines' \in Seq(Nat),
         unmatched_req_machines' \in Seq(Nat),
         pc' \in {"idle", "push_machine", "match", "push_if", "next_machine",
                  "yield", "end", "raised"},
         Holding(machine_stack', unmatched_pool_machines', unmatched_req_machines',
                 net_label_mapping'),
         OnStack', Finished'
  PROVE  MInv'
<1>1. TypeOK'
  BY DEF MInv, TypeOK, callVars, passVars, poolVars
<1>2. call'.mreqs = call.mreqs /\ pool' = pool /\ virtual_matching' = virtual_matching
  BY DEF callVars, passVars, poolVars, pool, PoolNamed
<1>3. Consistent(machine_stack', unmatched_pool_machines', unmatched_req_machines',
                 net_label_mapping', call'.mreqs, pool', virtual_matching')
  BY <1>2 DEF Holding
<1> QED  BY <1>1, <1>3 DEF MInv

LEMMA BelowLast ==
  \A n \in Nat : \A k \in 1 .. n - 1 : k \in 1..n /\ k # n
OBVIOUS

LEMMA FinishedBelow ==
  ASSUME Finished, machine_stack \in Seq(MachineMatch),
         NEW k \in 1 .. Len(machine_stack) - 1
  PROVE  /\ machine_stack[k].current_match # None
         /\ machine_stack[k].unmatched_ifs = <<>> \/ virtual_matching
         /\ \A n \in DOMAIN machine_stack[k].if_stack :
              machine_stack[k].if_stack[n].current_match # None
<1>1. Len(machine_stack) \in Nat /\ DOMAIN machine_stack = 1..Len(machine_stack)
  BY LenProperties
<1>2. k \in DOMAIN machine_stack /\ k # Len(machine_stack)
  <2>1. k \in 1 .. Len(machine_stack) - 1
    OBVIOUS
  <2> QED  BY ONLY <1>1, <2>1, BelowLast, Zenon
<1> QED  BY <1>2 DEF Finished

\* The part of Finished that is about the machine on top
FinishedAt(m, virtual, at) ==
  /\ m.current_match = None => at \in {"match", "next_machine"}
  /\ m.unmatched_ifs # <<>> /\ ~virtual => at \in {"match", "push_if", "next_machine"}
  /\ \A n \in DOMAIN m.if_stack :
       m.if_stack[n].current_match = None => n = Len(m.if_stack) /\ at = "match"

LEMMA FinishedTop ==
  ASSUME Finished, machine_stack \in Seq(MachineMatch), machine_stack # <<>>
  PROVE  FinishedAt(Top, virtual_matching, pc)
<1>1. Len(machine_stack) \in DOMAIN machine_stack /\ Top = machine_stack[Len(machine_stack)]
  BY TopTyped DEF Top
<1> QED  BY <1>1 DEF Finished, FinishedAt

LEMMA FinishedNewTop ==
  ASSUME Finished, machine_stack \in Seq(MachineMatch), machine_stack # <<>>,
         NEW m \in MachineMatch, m.m_id = Top.m_id,
         machine_stack' = Append(Front(machine_stack), m), UNCHANGED virtual_matching,
         FinishedAt(m, virtual_matching, pc')
  PROVE  Finished'
<1>1. /\ DOMAIN machine_stack' = 1..Len(machine_stack)
      /\ Len(machine_stack') = Len(machine_stack)
      /\ machine_stack'[Len(machine_stack)] = m
      /\ \A i \in 1 .. Len(machine_stack) - 1 : machine_stack'[i] = machine_stack[i]
      /\ Len(machine_stack) \in Nat
  BY NewTop, TopTyped DEF Top
<1>2. SUFFICES ASSUME NEW k \in DOMAIN machine_stack'
      PROVE  /\ machine_stack'[k].current_match = None =>
                  k = Len(machine_stack') /\ pc' \in {"match", "next_machine"}
             /\ machine_stack'[k].unmatched_ifs # <<>> /\ ~virtual_matching' =>
                  k = Len(machine_stack') /\ pc' \in {"match", "push_if", "next_machine"}
             /\ \A n \in DOMAIN machine_stack'[k].if_stack :
                  machine_stack'[k].if_stack[n].current_match = None =>
                    /\ k = Len(machine_stack') /\ n = Len(machine_stack'[k].if_stack)
                    /\ pc' = "match"
  BY DEF Finished
<1>3. CASE k = Len(machine_stack)
  BY <1>1, <1>3 DEF FinishedAt
<1>4. CASE k # Len(machine_stack)
  <2>1. k \in 1 .. Len(machine_stack) - 1
    BY <1>1, <1>4
  <2>2. machine_stack'[k] = machine_stack[k]
    BY <1>1, <2>1
  <2> QED  BY <2>1, <2>2, FinishedBelow
<1> QED  BY <1>3, <1>4

LEMMA PushMachineKeeps ==
  ASSUME MInv, _push_machine_stack
  PROVE  MInv'
<1>1. /\ machine_stack \in Seq(MachineMatch)
      /\ unmatched_pool_machines \in Seq(Nat) /\ unmatched_req_machines \in Seq(Nat)
      /\ IsMachines(call.mreqs)
      /\ Holding(machine_stack, unmatched_pool_machines, unmatched_req_machines,
                 net_label_mapping)
      /\ OnStack /\ Finished
  BY HeldNow
<1>2. unmatched_req_machines # <<>>
  BY <1>1 DEF OnStack, _push_machine_stack
<1> DEFINE m == Last(unmatched_req_machines)
<1>3. PICK ifs \in SortedDown(DOMAIN call.mreqs[m].interfaces) :
        machine_stack' = Append(machine_stack,
             [m_id |-> m, current_match |-> None,
              remaining_matches |-> unmatched_pool_machines,
              if_stack |-> <<>>, unmatched_ifs |-> ifs,
              unmatched_pool_ifs |-> <<>>, virt_matched |-> FALSE])
  BY Zenon DEF _push_machine_stack
<1> DEFINE e == [m_id |-> m, current_match |-> None,
              remaining_matches |-> unmatched_pool_machines,
              if_stack |-> <<>>, unmatched_ifs |-> ifs,
              unmatched_pool_ifs |-> <<>>, virt_matched |-> FALSE]
<1>4. /\ Append(machine_stack, e) \in Seq(MachineMatch)
      /\ Holding(Append(machine_stack, e), unmatched_pool_machines,
                 Front(unmatched_req_machines), net_label_mapping)
  BY <1>1, <1>2, MachinePushed, Zenon DEF Holding
<1>5. /\ machine_stack' = Append(machine_stack, e)
      /\ unmatched_req_machines' = Front(unmatched_req_machines)
      /\ pc = "push_machine" /\ pc' = "match"
      /\ UNCHANGED <<callVars, passVars, poolVars, unmatched_pool_machines,
                     net_label_mapping>>
      /\ UNCHANGED virtual_matching
  BY <1>3 DEF _push_machine_stack, passVars
<1>6. e.if_stack = <<>>
  OBVIOUS
<1> HIDE DEF e, m
<1>7. Front(unmatched_req_machines) \in Seq(Nat)
  BY <1>1, <1>2, LastFront, Zenon
<1>8. OnStack'
  BY <1>5 DEF OnStack
<1>9. Finished'
  <2>1. /\ Len(machine_stack) \in Nat /\ DOMAIN machine_stack = 1..Len(machine_stack)
        /\ Len(machine_stack') = Len(machine_stack) + 1
        /\ DOMAIN machine_stack' = 1 .. Len(machine_stack) + 1
        /\ machine_stack'[Len(machine_stack) + 1] = e
        /\ \A i \in 1..Len(machine_stack) : machine_stack'[i] = machine_stack[i]
    BY <1>1, <1>4, <1>5, AppendProperties, LenProperties
  <2>2. \A k \in DOMAIN machine_stack :
          /\ machine_stack[k].current_match # None
          /\ machine_stack[k].unmatched_ifs = <<>> \/ virtual_matching
          /\ \A n \in DOMAIN machine_stack[k].if_stack :
               machine_stack[k].if_stack[n].current_match # None
    BY <1>1, <1>5 DEF Finished
  <2>3. \A k \in DOMAIN machine_stack' :
          k = Len(machine_stack') \/ (k \in DOMAIN machine_stack
                                        /\ machine_stack'[k] = machine_stack[k])
    BY <2>1
  <2>4. \A n \in DOMAIN machine_stack'[Len(machine_stack')].if_stack : FALSE
    BY <2>1, <1>6
  <2> QED  BY <2>2, <2>3, <2>4, <1>5 DEF Finished
<1> QED  BY <1>1, <1>4, <1>5, <1>7, <1>8, <1>9, StepKeeps

LEMMA PushIfKeeps ==
  ASSUME MInv, _push_if_stack
  PROVE  MInv'
<1>1. /\ machine_stack \in Seq(MachineMatch)
      /\ unmatched_pool_machines \in Seq(Nat) /\ unmatched_req_machines \in Seq(Nat)
      /\ Holding(machine_stack, unmatched_pool_machines, unmatched_req_machines,
                 net_label_mapping)
      /\ OnStack /\ Finished /\ virtual_matching \in BOOLEAN
  BY HeldNow
<1>2. /\ pc = "push_if" /\ machine_stack # <<>> /\ virtual_matching = FALSE
      /\ UNCHANGED <<callVars, passVars, poolVars, unmatched_pool_machines,
                     unmatched_req_machines, net_label_mapping>>
      /\ UNCHANGED virtual_matching
  BY <1>1 DEF OnStack, _push_if_stack, passVars, listVars
<1>3. FinishedAt(Top, virtual_matching, pc)
  BY <1>1, <1>2, FinishedTop
<1>4. /\ Top \in MachineMatch /\ Top.if_stack \in Seq(IfMatch) /\ Top = Last(machine_stack)
      /\ Top.unmatched_ifs \in Seq(Nat)
  BY <1>1, <1>2, TopTyped, Zenon DEF Top, MachineMatch
<1>5. ASSUME Top.unmatched_ifs = <<>>, pc' = "raised", UNCHANGED machine_stack
      PROVE  MInv'
  <2>1. OnStack'
    BY <1>5 DEF OnStack
  <2>2. FinishedAt(Top, virtual_matching, pc')
    BY <1>2, <1>3, <1>5 DEF FinishedAt
  <2>3. Append(Front(machine_stack), Top) = machine_stack
    BY <1>1, <1>2, FrontThenLast DEF Top
  <2>4. Finished'
    <3>1. machine_stack' = Append(Front(machine_stack), Top)
      BY <2>3, <1>5
    <3> QED  BY <3>1, <2>2, <1>1, <1>2, <1>4, FinishedNewTop
  <2>5. pc' \in {"raised"}
    BY <1>5
  <2> QED  BY <2>1, <2>4, <2>5, <1>1, <1>2, <1>5, StepKeeps
<1>6. ASSUME Top.unmatched_ifs # <<>>, pc' = "match",
             SetTop([Top EXCEPT
               !.unmatched_ifs = Front(@),
               !.if_stack = Append(@, [if_id |-> Last(Top.unmatched_ifs),
                                       current_match |-> None,
                                       remaining_matches |-> Top.unmatched_pool_ifs])])
      PROVE  MInv'
  <2> DEFINE e == [if_id |-> Last(Top.unmatched_ifs), current_match |-> None,
                   remaining_matches |-> Top.unmatched_pool_ifs]
             m == [Top EXCEPT !.unmatched_ifs = Front(@), !.if_stack = Append(@, e)]
  <2>1. InterfacesOnTop(machine_stack, unmatched_pool_machines, unmatched_req_machines,
                        net_label_mapping, call.mreqs, pool, virtual_matching)
    BY <1>1, <1>2, <1>3, <1>4 DEF InterfacesOnTop, Holding, FinishedAt
  <2>2. /\ InterfacesOnTop(Append(Front(machine_stack), m), unmatched_pool_machines,
             unmatched_req_machines, net_label_mapping, call.mreqs, pool, virtual_matching)
        /\ e \in IfMatch
    BY <2>1, <1>4, <1>6, InterfacePushed, Zenon
  <2>3. machine_stack' = Append(Front(machine_stack), m)
    BY <1>6 DEF SetTop
  <2>4. /\ m.current_match = Top.current_match /\ m.if_stack = Append(Top.if_stack, e)
        /\ m.m_id = Top.m_id
    BY <1>4 DEF MachineMatch
  <2>5. m \in MachineMatch
    <3>1. Front(Top.unmatched_ifs) \in Seq(Nat)
      BY <1>4, <1>6, LastFront
    <3>2. Append(Top.if_stack, e) \in Seq(IfMatch)
      BY <1>4, <2>2, Appended
    <3> HIDE DEF e
    <3> QED  BY <3>1, <3>2, <1>4, Zenon DEF MachineMatch
  <2> HIDE DEF e
  <2>6. FinishedAt(m, virtual_matching, pc')
    <3>1. m.current_match # None /\ pc' = "match"
      BY <2>4, <1>2, <1>3, <1>6 DEF FinishedAt
    <3>2. ASSUME NEW n \in DOMAIN m.if_stack, m.if_stack[n].current_match = None
          PROVE  n = Len(m.if_stack)
      <4>1. /\ Len(m.if_stack) = Len(Top.if_stack) + 1
            /\ DOMAIN m.if_stack = 1 .. Len(Top.if_stack) + 1
            /\ \A x \in 1..Len(Top.if_stack) : m.if_stack[x] = Top.if_stack[x]
            /\ Len(Top.if_stack) \in Nat /\ DOMAIN Top.if_stack = 1..Len(Top.if_stack)
        BY <2>2, <2>4, <1>4, AppendProperties, LenProperties
      <4>2. \A x \in 1..Len(Top.if_stack) : Top.if_stack[x].current_match # None
        BY <4>1, <1>2, <1>3 DEF FinishedAt
      <4>3. n \in 1..Len(Top.if_stack) => FALSE
        BY <4>1, <4>2, <3>2
      <4>4. n \in 1 .. Len(Top.if_stack) + 1
        BY <4>1
      <4> QED  BY ONLY <4>1, <4>3, <4>4
    <3> QED  BY <3>1, <3>2 DEF FinishedAt
  <2> HIDE DEF m
  <2>7. Finished'
    BY <2>3, <2>4, <2>5, <2>6, <1>1, <1>2, FinishedNewTop
  <2>8. OnStack'
    BY <1>6 DEF OnStack
  <2>9. /\ machine_stack' \in Seq(MachineMatch)
        /\ Holding(machine_stack', unmatched_pool_machines', unmatched_req_machines',
                   net_label_mapping')
    BY <2>2, <2>3, <1>2 DEF InterfacesOnTop, Holding
  <2>10. /\ unmatched_pool_machines' \in Seq(Nat) /\ unmatched_req_machines' \in Seq(Nat)
         /\ pc' \in {"match"}
    BY <1>1, <1>2, <1>6
  <2> QED  BY <2>7, <2>8, <2>9, <2>10, <1>2, StepKeeps
<1> QED  BY <1>5, <1>6 DEF _push_if_stack

LEMMA IfMatchFailsKeeps ==
  ASSUME MInv, _if_match_fails
  PROVE  MInv'
<1>1. /\ machine_stack \in Seq(MachineMatch)
      /\ unmatched_pool_machines \in Seq(Nat) /\ unmatched_req_machines \in Seq(Nat)
      /\ Holding(machine_stack, unmatched_pool_machines, unmatched_req_machines,
                 net_label_mapping)
      /\ OnStack /\ Finished
  BY HeldNow
<1>2. /\ pc = "match" /\ pc' = "next_machine" /\ machine_stack # <<>>
      /\ Top.if_stack = <<>> /\ virtual_matching' = virtual_matching
      /\ UNCHANGED <<callVars, passVars, poolVars, unmatched_pool_machines,
                     unmatched_req_machines, machine_stack, net_label_mapping>>
  BY DEF _if_match_fails, passVars, listVars
<1>3. OnStack'
  BY <1>2 DEF OnStack, Top
<1>4. Top \in MachineMatch /\ Append(Front(machine_stack), Top) = machine_stack
  BY <1>1, <1>2, TopTyped, FrontThenLast DEF Top
<1>5. FinishedAt(Top, virtual_matching, pc')
  <2>1. DOMAIN Top.if_stack = {}
    BY <1>2
  <2> QED  BY <2>1, <1>2 DEF FinishedAt
<1>6. Finished'
  <2>1. machine_stack' = Append(Front(machine_stack), Top)
    BY <1>2, <1>4
  <2> QED  BY <2>1, <1>1, <1>2, <1>4, <1>5, FinishedNewTop
<1>7. pc' \in {"next_machine"}
  BY <1>2
<1> QED  BY <1>1, <1>2, <1>3, <1>6, <1>7, StepKeeps

LEMMA YieldKeeps ==
  ASSUME MInv, yield_match
  PROVE  MInv'
<1>1. /\ machine_stack \in Seq(MachineMatch)
      /\ unmatched_pool_machines \in Seq(Nat) /\ unmatched_req_machines \in Seq(Nat)
      /\ Holding(machine_stack, unmatched_pool_machines, unmatched_req_machines,
                 net_label_mapping)
      /\ OnStack /\ Finished
  BY HeldNow
<1>2. /\ pc = "yield" /\ pc' \in {"match", "idle"}
      /\ UNCHANGED <<callVars, passVars, poolVars, unmatched_pool_machines,
                     unmatched_req_machines, machine_stack, net_label_mapping>>
      /\ virtual_matching' = virtual_matching
  BY DEF yield_match, passVars, listVars
<1>3. OnStack'
  BY <1>2 DEF OnStack
<1>4. Finished'
  BY <1>1, <1>2 DEF Finished
<1> QED  BY <1>1, <1>2, <1>3, <1>4, StepKeeps

LEMMA RunKeeps ==
  ASSUME MInv, NEW c \in Calls, run(c)
  PROVE  MInv'
<1>1. TypeOK /\ IsMachines(c.mreqs)
  BY CallMachines DEF MInv
<1>2. /\ UNCHANGED pools /\ reset_match_state(c.mreqs, virtual_matching)
      /\ virtual_matching' = virtual_matching /\ virtual_matching \in BOOLEAN
      /\ call' = c
  BY <1>1 DEF run, TypeOK
<1>3. calls' \in 0..MaxCalls
  BY <1>1, MapperAssumption DEF run, TypeOK
<1>4. tried' \in Seq(BOOLEAN) /\ Len(tried') <= 2
  BY <1>2 DEF run
<1> QED  BY <1>1, <1>2, <1>3, <1>4, PassStarts

LEMMA NoMatchKeeps ==
  ASSUME MInv, no_match
  PROVE  MInv'
<1>1. /\ machine_stack \in Seq(MachineMatch)
      /\ unmatched_pool_machines \in Seq(Nat) /\ unmatched_req_machines \in Seq(Nat)
      /\ Holding(machine_stack, unmatched_pool_machines, unmatched_req_machines,
                 net_label_mapping)
      /\ OnStack /\ Finished /\ TypeOK /\ IsMachines(call.mreqs)
  BY HeldNow DEF MInv
<1>2. UNCHANGED <<callVars>> /\ UNCHANGED pools /\ call' = call /\ machine_stack = <<>>
  BY DEF no_match, callVars
<1>3. ASSUME Len(tried) = 1, virtual_matching' = TRUE, tried' = Append(tried, TRUE),
             reset_match_state(call.mreqs, TRUE)
      PROVE  MInv'
  <2>1. /\ calls' \in 0..MaxCalls /\ call' \in Calls \union {NoCall}
        /\ call'.mreqs = call.mreqs /\ tried \in Seq(BOOLEAN)
    BY <1>1, <1>2 DEF TypeOK, callVars
  <2>2. tried' \in Seq(BOOLEAN) /\ Len(tried') <= 2
    <3>1. TRUE \in BOOLEAN
      OBVIOUS
    <3>2. Append(tried, TRUE) \in Seq(BOOLEAN) /\ Len(Append(tried, TRUE)) = Len(tried) + 1
      BY <2>1, <3>1, Appended, Zenon, Zenon
    <3> QED  BY <3>2, <1>3
  <2> QED  BY <2>1, <2>2, <1>1, <1>2, <1>3, PassStarts, Zenon
<1>4. ASSUME pc' = "end", UNCHANGED <<passVars, poolVars, listVars, machine_stack,
                                      net_label_mapping>>
      PROVE  MInv'
  <2>1. OnStack'
    BY <1>4 DEF OnStack
  <2>2. machine_stack' = <<>> /\ pc' \in {"end"}
    BY <1>2, <1>4
  <2>3. Finished'
    BY <2>2 DEF Finished
  <2>4. /\ UNCHANGED <<callVars, passVars, poolVars>>
        /\ machine_stack' = machine_stack /\ net_label_mapping' = net_label_mapping
        /\ unmatched_pool_machines' = unmatched_pool_machines
        /\ unmatched_req_machines' = unmatched_req_machines
    BY <1>2, <1>4 DEF listVars
  <2> QED  BY <2>1, <2>2, <2>3, <2>4, <1>1, StepKeeps
<1> QED  BY <1>3, <1>4, Zenon DEF no_match

LEMMA VirtualMatchKeeps ==
  ASSUME MInv, virtual_match
  PROVE  MInv'
<1>1. /\ machine_stack \in Seq(MachineMatch)
      /\ unmatched_pool_machines \in Seq(Nat) /\ unmatched_req_machines \in Seq(Nat)
      /\ Holding(machine_stack, unmatched_pool_machines, unmatched_req_machines,
                 net_label_mapping)
      /\ OnStack /\ Finished
  BY HeldNow
<1>2. /\ pc = "match" /\ machine_stack # <<>> /\ virtual_matching
      /\ virtual_matching' = virtual_matching
      /\ unmatched_req_machines' = unmatched_req_machines
      /\ net_label_mapping' = net_label_mapping
      /\ UNCHANGED <<callVars, passVars, poolVars>>
  BY DEF virtual_match, passVars
<1>3. /\ Top \in MachineMatch /\ Top = Last(machine_stack)
      /\ IfsKept(Top, call.mreqs, pool, virtual_matching)
      /\ Kept(unmatched_pool_machines, machine_stack, Listed(pool, virtual_matching))
      /\ LabelsGiven(machine_stack, net_label_mapping, call.mreqs, pool)
  BY <1>1, <1>2, TopTyped, Zenon DEF Top, Holding, Consistent
<1>4. Top.if_stack = <<>>
  BY <1>2, <1>3, Zenon DEF IfsKept
<1>5. ASSUME Top.current_match # None, SetTop([Top EXCEPT !.virt_matched = TRUE]),
             pc' = AfterMatch, UNCHANGED unmatched_pool_machines
      PROVE  MInv'
  <2> DEFINE m == [Top EXCEPT !.virt_matched = TRUE]
  <2>1. /\ m \in MachineMatch /\ m.m_id = Top.m_id /\ m.current_match = Top.current_match
        /\ m.remaining_matches = Top.remaining_matches /\ m.if_stack = Top.if_stack
        /\ m.unmatched_ifs = Top.unmatched_ifs
        /\ m.unmatched_pool_ifs = Top.unmatched_pool_ifs
    BY <1>3, Zenon DEF MachineMatch
  <2>2. machine_stack' = Append(Front(machine_stack), m)
    BY <1>5 DEF SetTop
  <2> HIDE DEF m
  <2>3. IfsKept(m, call.mreqs, pool, virtual_matching)
    BY <2>1, <1>3, Zenon DEF IfsKept
  <2>4. /\ Append(Front(machine_stack), m) \in Seq(MachineMatch)
        /\ Append(Front(machine_stack), m) # <<>>
        /\ Last(Append(Front(machine_stack), m)) = m
        /\ SameBelow(machine_stack, Append(Front(machine_stack), m))
    BY <2>1, <1>1, <1>2, <1>3, NewTop
  <2>5. Kept(unmatched_pool_machines, Append(Front(machine_stack), m),
             Listed(pool, virtual_matching))
    BY <2>1, <2>4, <1>1, <1>2, <1>3, KeptSame, Zenon
  <2>6. LabelsGiven(Append(Front(machine_stack), m), net_label_mapping, call.mreqs, pool)
    BY <2>1, <1>1, <1>2, <1>3, <1>4, TopPortsSame, Zenon
  <2>7. Holding(Append(Front(machine_stack), m), unmatched_pool_machines,
                unmatched_req_machines, net_label_mapping)
    BY <2>1, <2>3, <2>5, <2>6, <1>1, <1>2, <1>3, TopChanged, Zenon DEF Holding
  <2>8. FinishedAt(m, virtual_matching, pc')
    <3>1. DOMAIN m.if_stack = {}
      BY <2>1, <1>4
    <3> QED  BY <3>1, <2>1, <1>2, <1>5 DEF FinishedAt
  <2>9. Finished'
    BY <2>1, <2>2, <2>8, <1>1, <1>2, FinishedNewTop, Zenon
  <2>10. OnStack'
    BY <2>2, <2>4, <1>2, <1>5 DEF OnStack, AfterMatch, AllMatched
  <2>11. pc' \in {"yield", "push_machine"}
    BY <1>5 DEF AfterMatch
  <2>12. /\ machine_stack' \in Seq(MachineMatch)
         /\ unmatched_pool_machines' \in Seq(Nat) /\ unmatched_req_machines' \in Seq(Nat)
         /\ Holding(machine_stack', unmatched_pool_machines', unmatched_req_machines',
                    net_label_mapping')
    BY <2>2, <2>4, <2>7, <1>1, <1>2, <1>5
  <2> QED  BY <2>9, <2>10, <2>11, <2>12, <1>2, StepKeeps
<1>6. ASSUME unmatched_pool_machines' = Release(unmatched_pool_machines, Top),
             SetTop([Top EXCEPT !.virt_matched = FALSE, !.current_match = None]),
             pc' = "next_machine"
      PROVE  MInv'
  <2> DEFINE m == [Top EXCEPT !.virt_matched = FALSE, !.current_match = None]
  <2>1. /\ m \in MachineMatch /\ m.m_id = Top.m_id /\ m.current_match = None
        /\ m.remaining_matches = Top.remaining_matches /\ m.if_stack = Top.if_stack
        /\ m.unmatched_ifs = Top.unmatched_ifs
    BY <1>3, Zenon DEF MachineMatch
  <2>2. machine_stack' = Append(Front(machine_stack), m)
    BY <1>6 DEF SetTop
  <2> HIDE DEF m
  <2>3. /\ Append(Front(machine_stack), m) \in Seq(MachineMatch)
        /\ Append(Front(machine_stack), m) # <<>>
        /\ Last(Append(Front(machine_stack), m)) = m
    BY <2>1, <1>1, <1>2, <1>3, NewTop, Zenon
  <2>4. /\ Release(unmatched_pool_machines, Top) \in Seq(Nat)
        /\ Holding(Append(Front(machine_stack), m), Release(unmatched_pool_machines, Top),
                   unmatched_req_machines, net_label_mapping)
    BY <2>1, <1>1, <1>2, <1>3, <1>4, MachineReleased, Zenon DEF Holding
  <2>5. FinishedAt(m, virtual_matching, pc')
    <3>1. DOMAIN m.if_stack = {}
      BY <2>1, <1>4
    <3> QED  BY <3>1, <1>6 DEF FinishedAt
  <2>6. Finished'
    BY <2>1, <2>2, <2>5, <1>1, <1>2, FinishedNewTop, Zenon
  <2>7. OnStack'
    BY <2>1, <2>2, <2>3, <1>4, <1>6 DEF OnStack, Top
  <2>8. /\ machine_stack' \in Seq(MachineMatch)
        /\ unmatched_pool_machines' \in Seq(Nat) /\ unmatched_req_machines' \in Seq(Nat)
        /\ Holding(machine_stack', unmatched_pool_machines', unmatched_req_machines',
                   net_label_mapping')
        /\ pc' \in {"next_machine"}
    BY <2>2, <2>3, <2>4, <1>1, <1>2, <1>6
  <2> QED  BY <2>6, <2>7, <2>8, <1>2, StepKeeps
<1> QED  BY <1>5, <1>6 DEF virtual_match

(***************************************************************************)
(* What next_machine does to the machine on top first                      *)
(***************************************************************************)
LEMMA TopReleased ==
  ASSUME MInv, machine_stack # <<>>, Top.if_stack = <<>>,
         NEW m, m = [Top EXCEPT !.current_match = None],
         NEW st, st = Append(Front(machine_stack), m),
         NEW free, free = Release(unmatched_pool_machines, Top)
  PROVE  /\ st \in Seq(MachineMatch) /\ st # <<>> /\ Last(st) = m
         /\ Front(st) = Front(machine_stack)
         /\ m \in MachineMatch /\ m.m_id = Top.m_id /\ m.current_match = None
         /\ m.if_stack = <<>> /\ m.remaining_matches = Top.remaining_matches
         /\ free \in Seq(Nat)
         /\ Holding(st, free, unmatched_req_machines, net_label_mapping)
<1>1. /\ machine_stack \in Seq(MachineMatch) /\ unmatched_pool_machines \in Seq(Nat)
      /\ Holding(machine_stack, unmatched_pool_machines, unmatched_req_machines,
                 net_label_mapping)
  BY HeldNow
<1>2. Top \in MachineMatch /\ Top = Last(machine_stack)
  BY <1>1, TopTyped DEF Top
<1>3. /\ m \in MachineMatch /\ m.m_id = Top.m_id /\ m.current_match = None
      /\ m.remaining_matches = Top.remaining_matches /\ m.if_stack = <<>>
      /\ m.unmatched_ifs = Top.unmatched_ifs
  BY <1>2, Zenon DEF MachineMatch
<1>4. /\ st \in Seq(MachineMatch) /\ st # <<>> /\ Last(st) = m
      /\ Front(st) = Front(machine_stack)
  <2>1. machine_stack # <<>> /\ m.m_id = Last(machine_stack).m_id
    BY <1>2, <1>3
  <2>2. st = Append(Front(machine_stack), m)
    OBVIOUS
  <2> QED  BY ONLY <2>1, <2>2, <1>1, <1>3, NewTop, Zenon
<1>5. /\ free \in Seq(Nat)
      /\ Holding(st, free, unmatched_req_machines, net_label_mapping)
  BY <1>1, <1>2, <1>3, MachineReleased, Zenon DEF Holding
<1> QED  BY <1>3, <1>4, <1>5

LEMMA NextMachineKeeps ==
  ASSUME MInv, next_machine
  PROVE  MInv'
<1> DEFINE free == Release(unmatched_pool_machines, Top)
           good == {k \in DOMAIN Top.remaining_matches :
                      _check_machine_compatibility(Top.m_id, Top.remaining_matches[k])}
           m1   == [Top EXCEPT !.current_match = None]
           st1  == Append(Front(machine_stack), m1)
<1>1. /\ machine_stack \in Seq(MachineMatch) /\ unmatched_req_machines \in Seq(Nat)
      /\ virtual_matching \in BOOLEAN /\ IsMachines(call.mreqs) /\ IsMachines(pool)
      /\ OnStack /\ Finished /\ TypeOK
  BY HeldNow DEF MInv
<1>2. /\ pc = "next_machine" /\ machine_stack # <<>> /\ Top.if_stack = <<>>
      /\ UNCHANGED <<callVars, passVars, net_label_mapping>>
      /\ virtual_matching' = virtual_matching /\ net_label_mapping' = net_label_mapping
  BY <1>1, Zenon DEF next_machine, OnStack, passVars
<1>3. /\ st1 \in Seq(MachineMatch) /\ st1 # <<>> /\ Last(st1) = m1
      /\ Front(st1) = Front(machine_stack)
      /\ m1 \in MachineMatch /\ m1.m_id = Top.m_id /\ m1.current_match = None
      /\ m1.if_stack = <<>> /\ m1.remaining_matches = Top.remaining_matches
      /\ free \in Seq(Nat)
      /\ Holding(st1, free, unmatched_req_machines, net_label_mapping)
  BY <1>2, TopReleased, Zenon
<1>4. Top \in MachineMatch /\ Top = Last(machine_stack)
  BY <1>1, <1>2, TopTyped DEF Top
<1> HIDE DEF st1
<1>5. ASSUME NEW k \in DOMAIN Top.remaining_matches, IsLast(k, good),
             NEW ifs \in SortedDown(DOMAIN pool[Top.remaining_matches[k]].interfaces),
             SetTop([Take(Top, k) EXCEPT !.if_stack = <<>>, !.unmatched_pool_ifs = ifs]),
             unmatched_pool_machines' = Without(free, Top.remaining_matches[k]),
             pc' = (IF virtual_matching THEN "match" ELSE "push_if"),
             UNCHANGED <<poolVars, unmatched_req_machines>>
      PROVE  MInv'
  <2> DEFINE t == Top.remaining_matches[k]
             m == TakenMachine(Last(st1), k, ifs)
             new == [Take(Top, k) EXCEPT !.if_stack = <<>>, !.unmatched_pool_ifs = ifs]
  <2>1. _params_compatible(call.mreqs[Last(st1).m_id].params, pool[t].params)
    BY <1>3, <1>5 DEF IsLast, _check_machine_compatibility
  <2>2. /\ m \in MachineMatch /\ Without(free, t) \in Seq(Nat) /\ t \in Nat
        /\ Holding(Append(Front(st1), m), Without(free, t), unmatched_req_machines,
                   net_label_mapping)
    <3>1. /\ st1 \in Seq(MachineMatch) /\ free \in Seq(Nat) /\ st1 # <<>>
          /\ Last(st1).if_stack = <<>> /\ Last(st1).current_match = None
          /\ Consistent(st1, free, unmatched_req_machines, net_label_mapping,
                        call.mreqs, pool, virtual_matching)
      BY <1>3 DEF Holding
    <3>2. k \in DOMAIN Last(st1).remaining_matches /\ t = Last(st1).remaining_matches[k]
      BY <1>3
    <3>3. ifs \in SortedDown(DOMAIN pool[t].interfaces)
      BY <1>5
    <3>4. m = TakenMachine(Last(st1), k, ifs)
      OBVIOUS
    <3> HIDE DEF free, t, m, good, m1, new
    <3>5. /\ m \in MachineMatch /\ Without(free, t) \in Seq(Nat) /\ t \in Nat
          /\ Consistent(Append(Front(st1), m), Without(free, t), unmatched_req_machines,
                        net_label_mapping, call.mreqs, pool, virtual_matching)
      BY ONLY <3>1, <3>2, <3>3, <3>4, <2>1, <1>1, MachineTaken, Zenon
    <3> QED  BY <3>5 DEF Holding
  <2>3. m = new
    BY <1>3, <1>4, Zenon DEF MachineMatch, TakenMachine, Take
  <2>4. machine_stack' = Append(Front(machine_stack), m)
    BY <2>3, <1>5 DEF SetTop
  <2>5. m.current_match = t /\ m.if_stack = <<>> /\ m.m_id = Top.m_id
    BY <1>3 DEF MachineMatch, TakenMachine, Take
  <2> HIDE DEF m
  <2>6. machine_stack' \in Seq(MachineMatch) /\ machine_stack' # <<>>
    BY <2>2, <2>4, <2>5, <1>1, <1>2, <1>4, NewTop
  <2>7. FinishedAt(m, virtual_matching, pc')
    <3>1. DOMAIN m.if_stack = {} /\ m.current_match # None
      BY <2>2, <2>5, NoneIsNoNumber
    <3> QED  BY <3>1, <1>5 DEF FinishedAt
  <2>8. Finished'
    BY <2>2, <2>4, <2>5, <2>7, <1>1, <1>2, FinishedNewTop
  <2>9. OnStack'
    BY <2>6, <1>2, <1>5 DEF OnStack
  <2>10. pc' \in {"match", "push_if"}
    BY <1>5
  <2>11. /\ unmatched_pool_machines' \in Seq(Nat) /\ unmatched_req_machines' \in Seq(Nat)
         /\ Holding(machine_stack', unmatched_pool_machines', unmatched_req_machines',
                    net_label_mapping')
         /\ UNCHANGED poolVars
    BY <2>2, <2>4, <1>1, <1>2, <1>3, <1>5
  <2> QED  BY <2>6, <2>8, <2>9, <2>10, <2>11, <1>2, StepKeeps
<1>6. ASSUME machine_stack' = Front(machine_stack),
             unmatched_req_machines' = Append(unmatched_req_machines, Top.m_id)
      PROVE  /\ machine_stack' \in Seq(MachineMatch)
             /\ Len(machine_stack') = Len(machine_stack) - 1
             /\ \A k \in DOMAIN machine_stack' : /\ k \in 1 .. Len(machine_stack) - 1
                                                 /\ machine_stack'[k] = machine_stack[k]
             /\ unmatched_req_machines' \in Seq(Nat) /\ unmatched_req_machines' # <<>>
             /\ Holding(machine_stack', free, unmatched_req_machines', net_label_mapping)
             /\ Finished'
  <2>1. /\ machine_stack' \in Seq(MachineMatch)
        /\ Len(machine_stack') = Len(machine_stack) - 1
        /\ \A k \in 1 .. Len(machine_stack) - 1 : machine_stack'[k] = machine_stack[k]
    BY <1>1, <1>2, <1>6, LastFront, Zenon
  <2>2. \A k \in DOMAIN machine_stack' : /\ k \in 1 .. Len(machine_stack) - 1
                                         /\ machine_stack'[k] = machine_stack[k]
    <3>1. DOMAIN machine_stack' = 1..Len(machine_stack')
      BY <2>1, LenProperties
    <3> QED  BY <2>1, <3>1
  <2>3. Top.m_id \in Nat
    BY <1>4 DEF MachineMatch
  <2>4. unmatched_req_machines' \in Seq(Nat) /\ unmatched_req_machines' # <<>>
    BY <2>3, <1>1, <1>6, Appended
  <2>5. Holding(machine_stack', free, unmatched_req_machines', net_label_mapping)
    BY <1>1, <1>3, <1>6, MachinePopped, Zenon DEF Holding
  <2>6. \A k \in DOMAIN machine_stack' :
          /\ machine_stack'[k].current_match # None
          /\ machine_stack'[k].unmatched_ifs = <<>> \/ virtual_matching
          /\ \A n \in DOMAIN machine_stack'[k].if_stack :
               machine_stack'[k].if_stack[n].current_match # None
    BY <2>2, <1>1, FinishedBelow, Zenon
  <2>7. Finished'
    BY <2>6, <1>2 DEF Finished
  <2> QED  BY <2>1, <2>2, <2>4, <2>5, <2>7
<1>7. ASSUME machine_stack' = Front(machine_stack),
             unmatched_req_machines' = Append(unmatched_req_machines, Top.m_id),
             unmatched_pool_machines' = free, pc' = "match", UNCHANGED poolVars
      PROVE  MInv'
  <2>1. OnStack'
    BY <1>7 DEF OnStack
  <2>2. pc' \in {"match"}
    BY <1>7
  <2> QED  BY <2>1, <2>2, <1>2, <1>3, <1>6, <1>7, StepKeeps
<1>8. ASSUME machine_stack' = Front(machine_stack),
             unmatched_req_machines' = Append(unmatched_req_machines, Top.m_id),
             Len(machine_stack) = 1, pool_stack > 0, pool_name' = pool_stack,
             pool_stack' = pool_stack - 1,
             unmatched_pool_machines' \in
               SortedDown(Listed(PoolNamed(pool_name'), virtual_matching)),
             pc' = (IF DOMAIN PoolNamed(pool_name') # {} THEN "push_machine" ELSE "match")
      PROVE  MInv'
  <2>1. machine_stack' = <<>>
    <3>1. Len(machine_stack') = 0 /\ machine_stack' \in Seq(MachineMatch)
      BY <1>6, <1>8
    <3> QED  BY <3>1, EmptySeq
  <2>2. Holding(<<>>, free, unmatched_req_machines', net_label_mapping)
    BY <2>1, <1>6, <1>8
  <2>3. /\ IsInjective(unmatched_req_machines')
        /\ Range(unmatched_req_machines') = DOMAIN call.mreqs
    <3>1. Split(unmatched_req_machines', <<>>, DOMAIN call.mreqs)
      BY <2>2, NoIds DEF Holding, Consistent
    <3>2. Range(<<>>) = {}
      BY DEF Range
    <3> QED  BY <3>1, <3>2, Zenon DEF Split
  <2>4. DOMAIN net_label_mapping = {}
    <3>1. LabelsGiven(<<>>, net_label_mapping, call.mreqs, pool)
      BY <2>2 DEF Holding, Consistent
    <3>2. \A j, n \in Nat : ~Port(<<>>, j, n)
      BY DEF Port
    <3> QED  BY <3>1, <3>2, Zenon DEF LabelsGiven, First
  <2>5. /\ pool_name' \in 0..Len(pools) /\ pool_stack' \in 0..Len(pools)
        /\ pool' = PoolNamed(pool_name') /\ IsMachines(pool')
    <3>1. pool_stack \in 0..Len(pools) /\ Len(pools) \in Nat
      BY <1>1, NumberOfPools DEF TypeOK
    <3>2. pool_name' \in 0..Len(pools) /\ pool_stack' \in 0..Len(pools)
      BY <3>1, <1>8
    <3>3. pool' = PoolNamed(pool_name')
      BY <1>2 DEF pool, PoolNamed, callVars
    <3> QED  BY <3>2, <3>3, <1>1, PoolMachines
  <2>6. /\ Consistent(<<>>, unmatched_pool_machines', unmatched_req_machines',
                      net_label_mapping, call.mreqs, pool', virtual_matching)
        /\ unmatched_pool_machines' \in Seq(Nat)
    BY <2>3, <2>4, <2>5, <1>1, <1>8, ConsistentStart
  <2>7. OnStack'
    BY <1>6, <1>8 DEF OnStack
  <2>8. TypeOK'
    <3>1. /\ pools' = pools /\ call' = call /\ calls' = calls /\ tried' = tried
      BY <1>2 DEF callVars, passVars
    <3>2. pc' \in {"push_machine", "match"}
      BY <1>8
    <3>3. machine_stack' \in Seq(MachineMatch) /\ unmatched_req_machines' \in Seq(Nat)
      BY <1>6, <1>8
    <3> QED  BY <3>1, <3>2, <3>3, <2>5, <2>6, <1>1, <1>2 DEF TypeOK
  <2>9. call' = call
    BY <1>2 DEF callVars
  <2> QED  BY <2>1, <2>6, <2>7, <2>8, <2>9, <1>2, <1>6, <1>8 DEF MInv
<1> QED  BY <1>5, <1>7, <1>8, Zenon DEF next_machine

(***************************************************************************)
(* The interface on top has given up its match, and its label if need be.  *)
(***************************************************************************)
LEMMA TopInterfaceReleased ==
  ASSUME MInv, pc = "match", machine_stack # <<>>, ~virtual_matching,
         Top.if_stack # <<>>,
         NEW i, i = Last(Top.if_stack),
         NEW label, label = call.mreqs[Top.m_id].interfaces[i.if_id].network,
         NEW st, st = Append(Front(machine_stack), GivenUp(Top)),
         NEW labels, labels = LabelsWithout(Top, i, label)
  PROVE  /\ OneInterface(st, unmatched_pool_machines, unmatched_req_machines,
                         labels, call.mreqs, pool, virtual_matching)
         /\ Last(st) = GivenUp(Top) /\ Front(st) = Front(machine_stack)
         /\ Last(GivenUp(Top).if_stack) = Emptied(i)
         /\ Front(GivenUp(Top).if_stack) = Front(Top.if_stack)
         /\ Top \in MachineMatch /\ Top.if_stack \in Seq(IfMatch) /\ i \in IfMatch
         /\ Top.current_match # None
         /\ \A n \in 1 .. Len(Top.if_stack) - 1 : Top.if_stack[n].current_match # None
<1>1. /\ machine_stack \in Seq(MachineMatch) /\ Finished /\ virtual_matching \in BOOLEAN
      /\ Holding(machine_stack, unmatched_pool_machines, unmatched_req_machines,
                 net_label_mapping)
  BY HeldNow
<1>2. /\ Top \in MachineMatch /\ Top = Last(machine_stack)
      /\ Top.if_stack \in Seq(IfMatch) /\ Len(Top.if_stack) \in Nat
      /\ DOMAIN Top.if_stack = 1..Len(Top.if_stack)
      /\ IfsKept(Top, call.mreqs, pool, virtual_matching)
  BY <1>1, TopTyped, Zenon DEF Top, Holding, Consistent
<1>3. Top.current_match # None
  BY <1>2, Zenon DEF IfsKept
<1>4. OneInterface(machine_stack, unmatched_pool_machines, unmatched_req_machines,
                   net_label_mapping, call.mreqs, pool, virtual_matching)
  BY <1>1, <1>2, <1>3, Zenon DEF OneInterface, InterfacesOnTop, Holding
<1>5. i \in IfMatch
  BY <1>2, LastFront, Zenon
<1>6. labels = WithoutLabel(net_label_mapping, pool, Top, i, label)
  BY Zenon DEF LabelsWithout, WithoutLabel, GiftOf
<1>7. /\ OneInterface(st, unmatched_pool_machines, unmatched_req_machines,
                      labels, call.mreqs, pool, virtual_matching)
      /\ Last(st) = GivenUp(Top) /\ Front(st) = Front(machine_stack)
      /\ Last(GivenUp(Top).if_stack) = Emptied(i)
      /\ Front(GivenUp(Top).if_stack) = Front(Top.if_stack)
  <2>1. /\ OneInterface(Append(Front(machine_stack), GivenUp(Last(machine_stack))),
                        unmatched_pool_machines, unmatched_req_machines,
                        LabelsLeft(machine_stack, net_label_mapping, call.mreqs, pool),
                        call.mreqs, pool, virtual_matching)
        /\ Last(Append(Front(machine_stack), GivenUp(Last(machine_stack)))) =
             GivenUp(Last(machine_stack))
        /\ Front(Append(Front(machine_stack), GivenUp(Last(machine_stack)))) =
             Front(machine_stack)
        /\ Last(GivenUp(Last(machine_stack)).if_stack) = Emptied(OnTopOf(machine_stack))
        /\ Front(GivenUp(Last(machine_stack)).if_stack) =
             Front(Last(machine_stack).if_stack)
    BY ONLY <1>4, InterfaceReleased
  <2>2. labels = LabelsLeft(machine_stack, net_label_mapping, call.mreqs, pool)
    BY <1>2, <1>6, ZenonT(30) DEF LabelsLeft, OnTopOf, ReqIf
  <2> QED  BY <2>1, <2>2, <1>2 DEF OnTopOf
<1>8. ASSUME NEW n \in 1 .. Len(Top.if_stack) - 1
      PROVE  Top.if_stack[n].current_match # None
  <2>1. n \in DOMAIN Top.if_stack /\ n # Len(Top.if_stack)
    BY <1>2, BelowLast, ZenonT(30)
  <2>2. FinishedAt(Top, virtual_matching, pc)
    BY <1>1, FinishedTop
  <2> QED  BY <2>1, <2>2 DEF FinishedAt
<1> QED  BY <1>2, <1>3, <1>5, <1>7, <1>8, ZenonT(30)

LEMMA InterfaceTakenKeeps ==
  ASSUME MInv, pc = "match", machine_stack # <<>>, ~virtual_matching,
         Top.if_stack # <<>>,
         NEW i, i = Last(Top.if_stack),
         NEW req_if, req_if = call.mreqs[Top.m_id].interfaces[i.if_id],
         NEW labels, labels = LabelsWithout(Top, i, req_if.network),
         NEW k \in DOMAIN i.remaining_matches, NEW t, t = i.remaining_matches[k],
         NEW pool_if, pool_if = pool[Top.current_match].interfaces[t],
         _check_interface_compatibility(labels, req_if, pool_if),
         SetTop([Top EXCEPT
           !.if_stack = Append(Front(@), Take(i, k)),
           !.unmatched_pool_ifs = Without(Release(Top.unmatched_pool_ifs, i), t)]),
         net_label_mapping' = WithLabel(labels, req_if.network,
                                        [network |-> pool_if.network,
                                         m_id |-> Top.m_id, if_id |-> i.if_id]),
         pc' = IF Top.unmatched_ifs # <<>> THEN "push_if" ELSE AfterMatch,
         UNCHANGED <<callVars, passVars, poolVars, listVars>>
  PROVE  MInv'
<1> DEFINE m1 == GivenUp(Top)
           st1 == Append(Front(machine_stack), m1)
           i1 == Emptied(i)
           m2 == TakenInterface(m1, k)
<1>1. /\ OneInterface(st1, unmatched_pool_machines, unmatched_req_machines,
                      labels, call.mreqs, pool, virtual_matching)
      /\ Last(st1) = m1 /\ Front(st1) = Front(machine_stack)
      /\ Last(m1.if_stack) = i1 /\ Front(m1.if_stack) = Front(Top.if_stack)
      /\ Top \in MachineMatch /\ Top.if_stack \in Seq(IfMatch) /\ i \in IfMatch
      /\ Top.current_match # None
      /\ \A n \in 1 .. Len(Top.if_stack) - 1 : Top.if_stack[n].current_match # None
  BY TopInterfaceReleased, Zenon
<1>2. /\ m1.m_id = Top.m_id /\ m1.current_match = Top.current_match
      /\ m1.unmatched_ifs = Top.unmatched_ifs
      /\ m1.unmatched_pool_ifs = Release(Top.unmatched_pool_ifs, i)
  BY <1>1, Zenon DEF MachineMatch, GivenUp
<1>3. /\ i1.if_id = i.if_id /\ i1.current_match = None
      /\ i1.remaining_matches = i.remaining_matches
  BY <1>1, Zenon DEF IfMatch, Emptied
<1>4. Take(i1, k) = Take(i, k)
  BY <1>1, Zenon DEF IfMatch, Emptied, Take
<1>5. m2 = [Top EXCEPT
           !.if_stack = Append(Front(@), Take(i, k)),
           !.unmatched_pool_ifs = Without(Release(Top.unmatched_pool_ifs, i), t)]
  <2>1. m2 = [m1 EXCEPT !.if_stack = Append(Front(Top.if_stack), Take(i, k)),
                        !.unmatched_pool_ifs = Without(Release(Top.unmatched_pool_ifs, i), t)]
    BY <1>1, <1>2, <1>3, <1>4, Zenon DEF TakenInterface
  <2> QED  BY <2>1, <1>1, Zenon DEF MachineMatch, GivenUp
<1>6. net_label_mapping' = WithLabel(labels, req_if.network, GiftOf(m1, i1, pool_if))
  BY <1>2, <1>3, Zenon DEF GiftOf
<1>7. machine_stack' = Append(Front(st1), m2)
  BY <1>1, <1>5, Zenon DEF SetTop
<1> HIDE DEF m1, st1, i1, m2
<1>8. /\ OneInterface(Append(Front(st1), m2), unmatched_pool_machines,
                      unmatched_req_machines, net_label_mapping', call.mreqs, pool,
                      virtual_matching)
      /\ Last(Append(Front(st1), m2)) = m2
  <2>1. /\ i1 = OnTopOf(st1) /\ req_if = ReqIf(st1, call.mreqs)
        /\ pool_if = PoolIf(st1, pool, k)
    BY <1>1, <1>2, <1>3, Zenon DEF OnTopOf, ReqIf, PoolIf
  <2>5. /\ OnTopOf(st1).current_match = None
        /\ k \in DOMAIN OnTopOf(st1).remaining_matches
        /\ _check_interface_compatibility(labels, ReqIf(st1, call.mreqs),
                                          PoolIf(st1, pool, k))
    BY <2>1, <1>3
  <2>2. m2 = TakenInterface(Last(st1), k)
    BY <1>1, Zenon DEF m2
  <2>3. net_label_mapping' = LabelsThen(st1, labels, call.mreqs, pool, k)
    BY <2>1, <1>1, <1>6 DEF LabelsThen
  <2>4. OneInterface(st1, unmatched_pool_machines, unmatched_req_machines,
                     labels, call.mreqs, pool, virtual_matching)
    BY <1>1, Zenon
  <2>6. /\ OneInterface(Append(Front(st1), TakenInterface(Last(st1), k)),
                        unmatched_pool_machines, unmatched_req_machines,
                        LabelsThen(st1, labels, call.mreqs, pool, k), call.mreqs, pool,
                        virtual_matching)
        /\ Last(Append(Front(st1), TakenInterface(Last(st1), k))) =
             TakenInterface(Last(st1), k)
    BY ONLY <2>4, <2>5, InterfaceTaken
  <2> QED  BY ONLY <2>2, <2>3, <2>6
<1>9. /\ machine_stack' \in Seq(MachineMatch) /\ machine_stack' # <<>>
      /\ Last(machine_stack') = m2 /\ m2 \in MachineMatch
      /\ Holding(machine_stack', unmatched_pool_machines, unmatched_req_machines,
                 net_label_mapping')
      /\ virtual_matching = FALSE
  BY <1>7, <1>8, OnTop, Zenon DEF OneInterface, InterfacesOnTop, Holding
<1>10. /\ m2.m_id = Top.m_id /\ m2.current_match # None
       /\ m2.unmatched_ifs = Top.unmatched_ifs
       /\ m2.if_stack = Append(Front(Top.if_stack), Take(i, k))
  BY <1>1, <1>5, Zenon DEF MachineMatch
<1>11. /\ unmatched_pool_machines' = unmatched_pool_machines
       /\ unmatched_req_machines' = unmatched_req_machines
       /\ UNCHANGED <<callVars, passVars, poolVars>>
       /\ virtual_matching' = virtual_matching
  BY Zenon DEF listVars, passVars
<1>12. OnStack'
  BY <1>9, <1>11, Zenon DEF OnStack, AfterMatch, AllMatched
<1>13. FinishedAt(m2, virtual_matching, pc')
  <2>1. Take(i, k) \in IfMatch /\ Take(i, k).current_match # None
    <3>1. i.remaining_matches \in Seq(Nat)
      BY <1>1, Zenon DEF IfMatch
    <3>2. t \in Nat /\ k \in 1..Len(i.remaining_matches)
      <4>1. k \in DOMAIN i.remaining_matches /\ t = i.remaining_matches[k]
        OBVIOUS
      <4> QED  BY ONLY <3>1, <4>1, LenProperties, ElementOfSeq
    <3>3. SubSeq(i.remaining_matches, 1, k - 1) \in Seq(Nat)
      BY ONLY <3>1, <3>2, Prefix
    <3> QED  BY <3>2, <3>3, <1>1, NoneIsNoNumber, Zenon DEF IfMatch, Take
  <2>2. /\ Len(m2.if_stack) = Len(Top.if_stack) /\ Len(Top.if_stack) \in Nat
        /\ m2.if_stack \in Seq(IfMatch)
        /\ m2.if_stack[Len(Top.if_stack)] = Take(i, k)
        /\ \A n \in 1 .. Len(Top.if_stack) - 1 : m2.if_stack[n] = Top.if_stack[n]
    <3>1. Top.if_stack \in Seq(IfMatch) /\ Top.if_stack # <<>>
      BY <1>1, Zenon
    <3> QED  BY ONLY <3>1, <2>1, <1>10, NewLast, LastFront
  <2>3. ASSUME NEW n \in DOMAIN m2.if_stack
        PROVE  m2.if_stack[n].current_match # None
    <3>1. n \in 1..Len(Top.if_stack)
      BY <2>2, LenProperties, Zenon
    <3>2. n = Len(Top.if_stack) \/ n \in 1 .. Len(Top.if_stack) - 1
      BY ONLY <3>1, <2>2
    <3> QED  BY <3>2, <2>1, <2>2, <1>1, Zenon
  <2> QED  BY <2>3, <1>10, Zenon DEF FinishedAt
<1>14. Finished'
  <2>1. /\ Finished /\ machine_stack \in Seq(MachineMatch)
        /\ machine_stack' = Append(Front(machine_stack), m2)
    BY <1>1, <1>7, HeldNow, Zenon
  <2> QED  BY <2>1, <1>9, <1>10, <1>11, <1>13, FinishedNewTop, Zenon
<1>15. pc' \in {"push_if", "yield", "push_machine"}
  BY Zenon DEF AfterMatch
<1>16. unmatched_pool_machines' \in Seq(Nat) /\ unmatched_req_machines' \in Seq(Nat)
  BY <1>11, HeldNow, Zenon
<1>17. Holding(machine_stack', unmatched_pool_machines', unmatched_req_machines',
               net_label_mapping')
  BY <1>9, <1>11, Zenon
<1> QED  BY <1>9, <1>11, <1>12, <1>14, <1>15, <1>16, <1>17, StepKeeps, Zenon

LEMMA InterfacePoppedKeeps ==
  ASSUME MInv, pc = "match", machine_stack # <<>>, ~virtual_matching,
         Top.if_stack # <<>>,
         NEW i, i = Last(Top.if_stack),
         NEW req_if, req_if = call.mreqs[Top.m_id].interfaces[i.if_id],
         SetTop([_pop_if_stack(Top) EXCEPT
                   !.unmatched_pool_ifs = Release(Top.unmatched_pool_ifs, i)]),
         net_label_mapping' = LabelsWithout(Top, i, req_if.network),
         pc' = "match",
         UNCHANGED <<callVars, passVars, poolVars, listVars>>
  PROVE  MInv'
<1> DEFINE m1 == GivenUp(Top)
           st1 == Append(Front(machine_stack), m1)
           m2 == _pop_if_stack(m1)
<1>1. /\ OneInterface(st1, unmatched_pool_machines, unmatched_req_machines,
                      net_label_mapping', call.mreqs, pool, virtual_matching)
      /\ Last(st1) = m1 /\ Front(st1) = Front(machine_stack)
      /\ Last(m1.if_stack) = Emptied(i) /\ Front(m1.if_stack) = Front(Top.if_stack)
      /\ Top \in MachineMatch /\ Top.if_stack \in Seq(IfMatch) /\ i \in IfMatch
      /\ Top.current_match # None
      /\ \A n \in 1 .. Len(Top.if_stack) - 1 : Top.if_stack[n].current_match # None
  BY TopInterfaceReleased, Zenon
<1>2. /\ m1.m_id = Top.m_id /\ m1.current_match = Top.current_match
      /\ m1.unmatched_ifs = Top.unmatched_ifs
      /\ m1.unmatched_pool_ifs = Release(Top.unmatched_pool_ifs, i)
  BY <1>1, Zenon DEF MachineMatch, GivenUp
<1>3. Emptied(i).if_id = i.if_id /\ Emptied(i).current_match = None
  BY <1>1, Zenon DEF IfMatch, Emptied
<1>4. m2 = [_pop_if_stack(Top) EXCEPT
              !.unmatched_pool_ifs = Release(Top.unmatched_pool_ifs, i)]
  <2>1. m2 = [m1 EXCEPT !.if_stack = Front(Top.if_stack),
                        !.unmatched_ifs = Append(Top.unmatched_ifs, i.if_id)]
    BY <1>1, <1>2, <1>3, Zenon DEF _pop_if_stack
  <2> QED  BY <2>1, <1>1, Zenon DEF MachineMatch, GivenUp, _pop_if_stack
<1>5. machine_stack' = Append(Front(st1), m2)
  BY <1>1, <1>4, Zenon DEF SetTop
<1> HIDE DEF m1, st1, m2
<1>6. /\ InterfacesOnTop(Append(Front(st1), m2), unmatched_pool_machines,
                         unmatched_req_machines, net_label_mapping', call.mreqs, pool,
                         virtual_matching)
      /\ Last(Append(Front(st1), m2)) = m2
  <2>1. Last(Last(st1).if_stack).current_match = None
    BY <1>1, <1>3, Zenon
  <2>2. m2 = _pop_if_stack(Last(st1))
    BY <1>1, Zenon DEF m2
  <2>3. OneInterface(st1, unmatched_pool_machines, unmatched_req_machines,
                     net_label_mapping', call.mreqs, pool, virtual_matching)
    BY <1>1, Zenon
  <2> QED  BY ONLY <2>1, <2>2, <2>3, InterfacePopped
<1>7. /\ machine_stack' \in Seq(MachineMatch) /\ machine_stack' # <<>>
      /\ Last(machine_stack') = m2 /\ m2 \in MachineMatch
      /\ Holding(machine_stack', unmatched_pool_machines, unmatched_req_machines,
                 net_label_mapping')
  BY <1>5, <1>6, OnTop, Zenon DEF InterfacesOnTop, Holding
<1>8. /\ m2.m_id = Top.m_id /\ m2.current_match # None
      /\ m2.if_stack = Front(Top.if_stack)
  BY <1>1, <1>4, ZenonT(30) DEF MachineMatch, _pop_if_stack
<1>9. /\ unmatched_pool_machines' = unmatched_pool_machines
      /\ unmatched_req_machines' = unmatched_req_machines
      /\ UNCHANGED <<callVars, passVars, poolVars>>
      /\ virtual_matching' = virtual_matching
  BY DEF listVars, passVars
<1>10. OnStack'
  BY Zenon, ZenonT(30) DEF OnStack
<1>11. FinishedAt(m2, virtual_matching, pc')
  <2>1. /\ m2.if_stack \in Seq(IfMatch) /\ Len(m2.if_stack) = Len(Top.if_stack) - 1
        /\ \A n \in 1 .. Len(Top.if_stack) - 1 : m2.if_stack[n] = Top.if_stack[n]
    BY <1>1, <1>8, LastFront, ZenonT(30)
  <2>2. ASSUME NEW n \in DOMAIN m2.if_stack
        PROVE  m2.if_stack[n].current_match # None
    <3>1. n \in 1 .. Len(Top.if_stack) - 1
      BY <2>1, LenProperties
    <3> QED  BY <3>1, <2>1, <1>1, ZenonT(30)
  <2> QED  BY <2>2, <1>8 DEF FinishedAt
<1>12. Finished'
  <2>1. /\ Finished /\ machine_stack \in Seq(MachineMatch)
        /\ machine_stack' = Append(Front(machine_stack), m2)
    BY <1>1, <1>5, HeldNow, ZenonT(30)
  <2> QED  BY <2>1, <1>7, <1>8, <1>9, <1>11, FinishedNewTop, Zenon
<1>13. /\ unmatched_pool_machines' \in Seq(Nat) /\ unmatched_req_machines' \in Seq(Nat)
       /\ pc' \in {"match"}
  BY <1>9, HeldNow
<1>14. Holding(machine_stack', unmatched_pool_machines', unmatched_req_machines',
               net_label_mapping')
  BY <1>7, <1>9, Zenon
<1> QED  BY <1>7, <1>9, <1>10, <1>12, <1>13, <1>14, StepKeeps, Zenon

LEMMA IfMatchKeeps ==
  ASSUME MInv, _if_match
  PROVE  MInv'
<1> DEFINE i == Last(Top.if_stack)
           req_if == call.mreqs[Top.m_id].interfaces[i.if_id]
           labels == LabelsWithout(Top, i, req_if.network)
           free == Release(Top.unmatched_pool_ifs, i)
           pool_if(t) == pool[Top.current_match].interfaces[t]
           good == {k \in DOMAIN i.remaining_matches :
                      _check_interface_compatibility(labels, req_if,
                                                     pool_if(i.remaining_matches[k]))}
<1>1. /\ pc = "match" /\ machine_stack # <<>> /\ ~virtual_matching
      /\ Top.if_stack # <<>> /\ UNCHANGED <<callVars, passVars, poolVars, listVars>>
  BY Zenon DEF _if_match
<1>2. ASSUME NEW k \in DOMAIN i.remaining_matches, IsLast(k, good),
             SetTop([Top EXCEPT
               !.if_stack = Append(Front(@), Take(i, k)),
               !.unmatched_pool_ifs = Without(free, i.remaining_matches[k])]),
             net_label_mapping' =
               WithLabel(labels, req_if.network,
                         [network |-> pool_if(i.remaining_matches[k]).network,
                          m_id |-> Top.m_id, if_id |-> i.if_id]),
             pc' = IF Top.unmatched_ifs # <<>> THEN "push_if" ELSE AfterMatch
      PROVE  MInv'
  <2>1. _check_interface_compatibility(labels, req_if, pool_if(i.remaining_matches[k]))
    BY <1>2, Zenon DEF IsLast
  <2> QED  BY <2>1, <1>1, <1>2, InterfaceTakenKeeps, Zenon
<1>3. ASSUME SetTop([_pop_if_stack(Top) EXCEPT !.unmatched_pool_ifs = free]),
             net_label_mapping' = labels, pc' = "match"
      PROVE  MInv'
  BY <1>1, <1>3, InterfacePoppedKeeps, Zenon
<1> QED  BY <1>2, <1>3, Zenon DEF _if_match

LEMMA InitHolds ==
  ASSUME Init
  PROVE  MInv
<1>1. TypeOK
  <2>1. <<>> \in Seq(Nat) /\ <<>> \in Seq(MachineMatch) /\ <<>> \in Seq(BOOLEAN)
    BY EmptySeq
  <2>2. Len(pools) \in Nat
    <3>1. pools \in Seq(Range(pools))
      BY MapperAssumption DEF Init
    <3> QED  BY <3>1, LenProperties
  <2>3. calls \in 0..MaxCalls
    BY MapperAssumption DEF Init
  <2>4. Len(tried) <= 2 /\ tried \in Seq(BOOLEAN) /\ virtual_matching \in BOOLEAN
    <3>1. tried = <<>> /\ virtual_matching = FALSE
      BY DEF Init
    <3>2. Len(<<>>) <= 2
      OBVIOUS
    <3>3. tried \in Seq(BOOLEAN)
      BY ONLY <2>1, <3>1, Zenon, Zenon
    <3>4. virtual_matching \in BOOLEAN
      BY <3>1, Zenon, Zenon
    <3> QED  BY <3>1, <3>2, <3>3, <3>4
  <2>5. pool_name \in 0..Len(pools) /\ pool_stack \in 0..Len(pools)
    BY <2>2 DEF Init
  <2>6. /\ pools \in PoolSets /\ call \in Calls \union {NoCall}
        /\ pc \in {"idle"}
        /\ unmatched_pool_machines \in Seq(Nat) /\ unmatched_req_machines \in Seq(Nat)
        /\ machine_stack \in Seq(MachineMatch)
    BY <2>1 DEF Init
  <2> QED  BY <2>3, <2>4, <2>5, <2>6 DEF TypeOK
<1>2. pool = <<>> /\ call.mreqs = <<>> /\ DOMAIN <<>> = {}
  BY DEF Init, pool, PoolNamed, NoMachines, NoCall
<1>3. Consistent(<<>>, <<>>, <<>>, <<>>, <<>>, <<>>, FALSE)
  <2>1. IsInjective(<<>>) /\ Range(<<>>) = {} /\ Listed(<<>>, FALSE) = {}
    BY DEF IsInjective, Range, Listed
  <2>2. Kept(<<>>, <<>>, Listed(<<>>, FALSE))
    BY <2>1, KeptStart, Zenon
  <2>3. Split(<<>>, MIds(<<>>), DOMAIN <<>>)
    <3>1. Split(<<>>, <<>>, DOMAIN <<>>)
      <4>1. Range(<<>>) = DOMAIN <<>>
        BY <2>1
      <4> QED  BY ONLY <4>1, <2>1, SplitStart, Zenon
    <3>2. MIds(<<>>) = <<>>
      BY NoIds
    <3> QED  BY ONLY <3>1, <3>2, Zenon, Zenon
  <2>4. LabelsGiven(<<>>, <<>>, <<>>, <<>>)
    BY DEF LabelsGiven, Port
  <2>5. \A k \in DOMAIN <<>> : IfsKept(<<>>[k], <<>>, <<>>, FALSE)
    BY <1>2
  <2> QED  BY ONLY <2>2, <2>3, <2>4, <2>5, Zenon, Zenon DEF Consistent
<1>4. OnStack /\ Finished
  BY DEF Init, OnStack, Finished
<1> QED  BY <1>1, <1>2, <1>3, <1>4, Zenon DEF MInv, Init

LEMMA StepHolds ==
  ASSUME MInv, [Next]_vars
  PROVE  MInv'
<1>1. CASE UNCHANGED vars
  <2>1. /\ UNCHANGED <<callVars, passVars, poolVars, listVars>>
        /\ pc' = pc /\ machine_stack' = machine_stack
        /\ net_label_mapping' = net_label_mapping
    BY <1>1 DEF vars
  <2>2. /\ unmatched_pool_machines' = unmatched_pool_machines
        /\ unmatched_req_machines' = unmatched_req_machines
        /\ virtual_matching' = virtual_matching
        /\ UNCHANGED <<callVars, passVars, poolVars>>
    BY <2>1 DEF listVars, passVars
  <2>3. /\ machine_stack \in Seq(MachineMatch)
        /\ unmatched_pool_machines \in Seq(Nat) /\ unmatched_req_machines \in Seq(Nat)
        /\ Holding(machine_stack, unmatched_pool_machines, unmatched_req_machines,
                   net_label_mapping)
        /\ OnStack /\ Finished
    BY HeldNow
  <2>4. pc' \in {"idle", "push_machine", "match", "push_if", "next_machine",
                 "yield", "end", "raised"}
    BY <2>1 DEF MInv, TypeOK
  <2>5. OnStack'
    BY <2>1, <2>2, <2>3 DEF OnStack, Top, AllMatched
  <2>6. Finished'
    BY <2>1, <2>2, <2>3 DEF Finished
  <2> QED  BY <2>1, <2>2, <2>3, <2>4, <2>5, <2>6, StepKeeps
<1>2. ASSUME NEW c \in Calls, run(c) PROVE MInv'
  BY <1>2, RunKeeps
<1>3. CASE yield_match
  BY <1>3, YieldKeeps
<1>4. CASE _push_machine_stack
  BY <1>4, PushMachineKeeps
<1>5. CASE _push_if_stack
  BY <1>5, PushIfKeeps
<1>6. CASE virtual_match
  BY <1>6, VirtualMatchKeeps
<1>7. CASE _if_match
  BY <1>7, IfMatchKeeps
<1>8. CASE _if_match_fails
  BY <1>8, IfMatchFailsKeeps
<1>9. CASE next_machine
  BY <1>9, NextMachineKeeps
<1>10. CASE no_match
  BY <1>10, NoMatchKeeps
<1> QED
  BY <1>1, <1>2, <1>3, <1>4, <1>5, <1>6, <1>7, <1>8, <1>9, <1>10 DEF Next, MapperNext

(***************************************************************************)
(* What the invariant says of the properties the runs check                *)
(***************************************************************************)
LEMMA MatchedPlaces ==
  ASSUME machine_stack \in Seq(MachineMatch)
  PROVE  /\ \A j, n \in Nat : Port(machine_stack, j, n) =>
              <<machine_stack[j], machine_stack[j].if_stack[n]>> \in MatchedPorts
         /\ \A q \in MatchedPorts : \E j, n \in Nat :
              /\ Port(machine_stack, j, n)
              /\ q = <<machine_stack[j], machine_stack[j].if_stack[n]>>
<1> DEFINE st == machine_stack
<1>1. ASSUME NEW j \in Nat, NEW n \in Nat, Port(st, j, n)
      PROVE  <<st[j], st[j].if_stack[n]>> \in MatchedPorts
  <2>1. st[j] \in Range(st) /\ st[j].if_stack[n] \in Range(st[j].if_stack)
    BY <1>1 DEF Port, Range
  <2>2. <<st[j], st[j].if_stack[n]>> \in {st[j]} \X Range(st[j].if_stack)
    BY <2>1
  <2>3. st[j].if_stack[n].current_match # None
    BY <1>1 DEF Port
  <2> QED  BY <2>1, <2>2, <2>3 DEF MatchedPorts
<1>2. ASSUME NEW q \in MatchedPorts
      PROVE  \E j, n \in Nat : Port(st, j, n) /\ q = <<st[j], st[j].if_stack[n]>>
  <2>1. PICK m \in Range(st) : q \in {m} \X Range(m.if_stack)
    BY <1>2 DEF MatchedPorts
  <2>2. q[2].current_match # None
    BY <1>2 DEF MatchedPorts
  <2>3. PICK j \in DOMAIN st : m = st[j]
    BY DEF Range
  <2>4. PICK n \in DOMAIN st[j].if_stack : q = <<st[j], st[j].if_stack[n]>>
    BY <2>1, <2>3 DEF Range
  <2>5. j \in Nat
    BY LenProperties
  <2>6. n \in Nat
    <3>1. st[j] \in MachineMatch
      BY ElementOfSeq, LenProperties
    <3>2. st[j].if_stack \in Seq(IfMatch)
      BY <3>1 DEF MachineMatch
    <3> QED  BY <3>2, LenProperties
  <2>7. Port(st, j, n)
    BY <2>2, <2>4 DEF Port
  <2> QED  BY <2>4, <2>5, <2>6, <2>7
<1> QED  BY <1>1, <1>2, Zenon

LEMMA KeptThroughout ==
  ASSUME MInv
  PROVE  SearchConsistent
<1> DEFINE st == machine_stack
<1>1. /\ st \in Seq(MachineMatch) /\ OnStack /\ Finished /\ TypeOK
      /\ Kept(unmatched_pool_machines, st, Listed(pool, virtual_matching))
      /\ Split(unmatched_req_machines, MIds(st), DOMAIN call.mreqs)
      /\ \A k \in DOMAIN st : IfsKept(st[k], call.mreqs, pool, virtual_matching)
      /\ LabelsGiven(st, net_label_mapping, call.mreqs, pool)
  BY HeldNow DEF MInv, Consistent
<1>2. \A k : MatchedAbove(k) = Above(st, k)
  BY DEF MatchedAbove, Above
<1>3. PoolPartition /\ CandidatesLeft
  <2>1. PoolPartition
    BY <1>1, <1>2 DEF PoolPartition, Kept
  <2>2. CandidatesLeft
    BY <1>1, <1>2 DEF CandidatesLeft, Kept
  <2> QED  BY <2>1, <2>2
<1>4. ReqPartition
  <2>1. DOMAIN st = 1..Len(st) /\ DOMAIN MIds(st) = 1..Len(st)
    BY <1>1, LenProperties DEF MIds
  <2>2. \A k \in DOMAIN st : MIds(st)[k] = st[k].m_id
    BY <2>1 DEF MIds
  <2>3. Range(MIds(st)) = {st[k].m_id : k \in DOMAIN st}
    BY <2>1, <2>2 DEF Range
  <2>4. \A j, k \in DOMAIN st : j # k => st[j].m_id # st[k].m_id
    BY <1>1, <2>1, <2>2 DEF Split, IsInjective
  <2>5. \A k \in DOMAIN st : st[k].m_id \in Range(MIds(st))
    BY <2>3
  <2> QED  BY <2>3, <2>4, <2>5, <1>1 DEF ReqPartition, Split
<1>5. MatchedBelowTop
  BY <1>1 DEF MatchedBelowTop, Finished
<1>6. LabelsMatchPorts
  <2> DEFINE label(q) == call.mreqs[q[1].m_id].interfaces[q[2].if_id].network
             network(q) == pool[q[1].current_match].interfaces[q[2].current_match].network
             at(j, n) == <<st[j], st[j].if_stack[n]>>
  <2>1. \A j, n \in Nat : /\ LabelAt(st, call.mreqs, j, n) = label(at(j, n))
                          /\ NetworkAt(st, pool, j, n) = network(at(j, n))
    BY DEF LabelAt, NetworkAt
  <2>2. \A q \in MatchedPorts : \E j, n \in Nat : Port(st, j, n) /\ q = at(j, n)
    BY <1>1, MatchedPlaces
  <2>3. \A j, n \in Nat : Port(st, j, n) => at(j, n) \in MatchedPorts
    BY <1>1, MatchedPlaces
  <2> HIDE DEF label, network, at
  <2>4. ASSUME NEW q \in MatchedPorts
        PROVE  /\ label(q) \in DOMAIN net_label_mapping
               /\ net_label_mapping[label(q)].network = network(q)
    <3>1. PICK j \in Nat, n \in Nat : Port(st, j, n) /\ q = at(j, n)
      BY <2>2
    <3>2. /\ LabelAt(st, call.mreqs, j, n) \in DOMAIN net_label_mapping
          /\ net_label_mapping[LabelAt(st, call.mreqs, j, n)].network
               = NetworkAt(st, pool, j, n)
      BY <3>1, <1>1 DEF LabelsGiven
    <3> QED  BY <3>1, <3>2, <2>1
  <2>5. ASSUME NEW l \in DOMAIN net_label_mapping
        PROVE  \E q \in MatchedPorts : l = label(q)
    <3>1. PICK j \in Nat, n \in Nat : First(st, call.mreqs, l, j, n)
      BY <1>1 DEF LabelsGiven
    <3>2. Port(st, j, n) /\ LabelAt(st, call.mreqs, j, n) = l
      BY <3>1 DEF First
    <3> QED  BY <3>2, <2>1, <2>3
  <2>6. DOMAIN net_label_mapping = {label(q) : q \in MatchedPorts}
    BY <2>4, <2>5, Zenon
  <2> QED  BY <2>4, <2>6, Zenon DEF LabelsMatchPorts, label, network
<1>7. RaisesForBareMachines
  <2> SUFFICES ASSUME pc = "push_if", Top.if_stack = <<>>
               PROVE  /\ IsInjective(Top.unmatched_ifs)
                      /\ Range(Top.unmatched_ifs) = DOMAIN call.mreqs[Top.m_id].interfaces
    BY DEF RaisesForBareMachines
  <2>1. IfsKept(Top, call.mreqs, pool, virtual_matching)
    BY <1>1, TopTyped DEF OnStack, Top
  <2>2. Split(Top.unmatched_ifs, <<>>, DOMAIN call.mreqs[Top.m_id].interfaces)
    BY <2>1, NoIds DEF IfsKept
  <2>3. Range(<<>>) = {}
    BY DEF Range
  <2> QED  BY <2>2, <2>3, Zenon DEF Split
<1> QED  BY <1>1, <1>3, <1>4, <1>5, <1>6, <1>7 DEF SearchConsistent, MachinesKept

-----------------------------------------------------------------------------
(***************************************************************************)
(* Forward and back, the search loses no machine, interface or label and   *)
(* uses none twice: SearchConsistent for any pools, requirements and calls.*)
(***************************************************************************)
THEOREM SearchKeepsTrack == Spec => []SearchConsistent
<1>1. Init => MInv
  BY InitHolds
<1>2. MInv /\ [Next]_vars => MInv'
  BY StepHolds
<1>3. MInv => SearchConsistent
  BY KeptThroughout
<1> QED  BY <1>1, <1>2, <1>3, PTL DEF Spec

-----------------------------------------------------------------------------
(***************************************************************************)
(* What is yielded, read off the stack                                     *)
(***************************************************************************)
IfMapped(s) ==
  [y \in {i.if_id : i \in Range(s)} |->
     (CHOOSE i \in Range(s) : i.if_id = y).current_match]
Mapped(st) ==
  [x \in {e.m_id : e \in Range(st)} |->
     LET m == CHOOSE e \in Range(st) : e.m_id = x
     IN  [target |-> m.current_match, interfaces |-> IfMapped(m.if_stack)]]

LEMMA InterfacesMapped ==
  ASSUME NEW s \in Seq(IfMatch), IsInjective(IfIds(s))
  PROVE  /\ DOMAIN IfMapped(s) = Range(IfIds(s))
         /\ \A n \in 1..Len(s) : /\ s[n].if_id \in DOMAIN IfMapped(s)
                                 /\ IfMapped(s)[s[n].if_id] = s[n].current_match
         /\ \A y \in DOMAIN IfMapped(s) : \E n \in 1..Len(s) : y = s[n].if_id
<1>1. DOMAIN s = 1..Len(s) /\ DOMAIN IfIds(s) = 1..Len(s)
  BY LenProperties DEF IfIds
<1>2. \A n \in 1..Len(s) : IfIds(s)[n] = s[n].if_id
  BY DEF IfIds
<1>3. Range(s) = {s[n] : n \in 1..Len(s)}
  BY <1>1 DEF Range
<1>4. \A y \in {i.if_id : i \in Range(s)} : \E n \in 1..Len(s) : y = s[n].if_id
  BY <1>3
<1>5. \A n \in 1..Len(s) : s[n].if_id \in {i.if_id : i \in Range(s)}
  BY <1>3
<1>6. Range(IfIds(s)) = {i.if_id : i \in Range(s)}
  BY <1>1, <1>2, <1>4, <1>5 DEF Range
<1>7. ASSUME NEW n \in 1..Len(s)
      PROVE  (CHOOSE i \in Range(s) : i.if_id = s[n].if_id) = s[n]
  <2>1. s[n] \in Range(s)
    BY <1>3
  <2>2. \A i \in Range(s) : i.if_id = s[n].if_id => i = s[n]
    <3>1. SUFFICES ASSUME NEW k \in 1..Len(s), s[k].if_id = s[n].if_id
                   PROVE  s[k] = s[n]
      BY <1>3
    <3>2. k = n
      BY <3>1, <1>1, <1>2 DEF IsInjective
    <3> QED  BY <3>2
  <2> QED  BY <2>1, <2>2
<1> QED  BY <1>4, <1>5, <1>6, <1>7, Zenon DEF IfMapped

LEMMA MachinesMapped ==
  ASSUME NEW st \in Seq(MachineMatch), IsInjective(MIds(st))
  PROVE  /\ DOMAIN Mapped(st) = Range(MIds(st))
         /\ \A k \in 1..Len(st) :
              /\ st[k].m_id \in DOMAIN Mapped(st)
              /\ Mapped(st)[st[k].m_id] = [target |-> st[k].current_match,
                                           interfaces |-> IfMapped(st[k].if_stack)]
              /\ Mapped(st)[st[k].m_id].target = st[k].current_match
              /\ Mapped(st)[st[k].m_id].interfaces = IfMapped(st[k].if_stack)
         /\ \A x \in DOMAIN Mapped(st) : \E k \in 1..Len(st) : x = st[k].m_id
<1>1. DOMAIN st = 1..Len(st) /\ DOMAIN MIds(st) = 1..Len(st)
  BY LenProperties DEF MIds
<1>2. \A k \in 1..Len(st) : MIds(st)[k] = st[k].m_id
  BY DEF MIds
<1>3. Range(st) = {st[k] : k \in 1..Len(st)}
  BY <1>1 DEF Range
<1>4. \A x \in {e.m_id : e \in Range(st)} : \E k \in 1..Len(st) : x = st[k].m_id
  BY <1>3
<1>5. \A k \in 1..Len(st) : st[k].m_id \in {e.m_id : e \in Range(st)}
  BY <1>3
<1>6. Range(MIds(st)) = {e.m_id : e \in Range(st)}
  BY <1>1, <1>2, <1>4, <1>5 DEF Range
<1>7. ASSUME NEW k \in 1..Len(st)
      PROVE  (CHOOSE e \in Range(st) : e.m_id = st[k].m_id) = st[k]
  <2>1. st[k] \in Range(st)
    BY <1>3
  <2>2. \A e \in Range(st) : e.m_id = st[k].m_id => e = st[k]
    <3>1. SUFFICES ASSUME NEW j \in 1..Len(st), st[j].m_id = st[k].m_id
                   PROVE  st[j] = st[k]
      BY <1>3
    <3>2. j = k
      BY <3>1, <1>1, <1>2 DEF IsInjective
    <3> QED  BY <3>2
  <2> QED  BY <2>1, <2>2
<1>8. \A k \in 1..Len(st) : Mapped(st)[st[k].m_id] =
        [target |-> st[k].current_match, interfaces |-> IfMapped(st[k].if_stack)]
  BY <1>5, <1>7, Zenon DEF Mapped
<1>9. DOMAIN Mapped(st) = {e.m_id : e \in Range(st)}
  BY DEF Mapped
<1>10. \A k \in 1..Len(st) : /\ Mapped(st)[st[k].m_id].target = st[k].current_match
                             /\ Mapped(st)[st[k].m_id].interfaces = IfMapped(st[k].if_stack)
  <2> TAKE k \in 1..Len(st)
  <2>1. Mapped(st)[st[k].m_id] =
          [target |-> st[k].current_match, interfaces |-> IfMapped(st[k].if_stack)]
    BY <1>8
  <2> QED  BY <2>1
<1> QED  BY <1>4, <1>5, <1>6, <1>8, <1>9, <1>10

(***************************************************************************)
(* Every machine and every interface required has its match.               *)
(***************************************************************************)
Full(st, given, req, ms, v) ==
  /\ st \in Seq(MachineMatch) /\ st # <<>>
  /\ IsInjective(MIds(st)) /\ Range(MIds(st)) = DOMAIN req
  /\ \A j, k \in 1..Len(st) : j # k => st[j].current_match # st[k].current_match
  /\ \A k \in 1..Len(st) :
       /\ st[k].current_match \in Listed(ms, v)
       /\ st[k].current_match # None
       /\ IfsKept(st[k], req, ms, v)
       /\ st[k].unmatched_ifs = <<>> \/ v
       /\ \A n \in DOMAIN st[k].if_stack : st[k].if_stack[n].current_match # None
  /\ LabelsGiven(st, given, req, ms)

LEMMA FullWhenYielded ==
  ASSUME MInv, pc = "yield"
  PROVE  Full(machine_stack, net_label_mapping, call.mreqs, pool, virtual_matching)
<1> DEFINE st == machine_stack
<1>1. /\ st \in Seq(MachineMatch) /\ st # <<>> /\ Finished
      /\ unmatched_req_machines = <<>>
      /\ Kept(unmatched_pool_machines, st, Listed(pool, virtual_matching))
      /\ Split(unmatched_req_machines, MIds(st), DOMAIN call.mreqs)
      /\ \A k \in DOMAIN st : IfsKept(st[k], call.mreqs, pool, virtual_matching)
      /\ LabelsGiven(st, net_label_mapping, call.mreqs, pool)
  BY HeldNow DEF MInv, Consistent, OnStack, AllMatched
<1>2. DOMAIN st = 1..Len(st)
  BY <1>1, LenProperties
<1>3. IsInjective(MIds(st)) /\ Range(MIds(st)) = DOMAIN call.mreqs
  <2>1. Range(<<>>) = {}
    BY DEF Range
  <2> QED  BY <2>1, <1>1, Zenon DEF Split
<1>4. ASSUME NEW k \in 1..Len(st)
      PROVE  /\ st[k].current_match # None
             /\ st[k].unmatched_ifs = <<>> \/ virtual_matching
             /\ \A n \in DOMAIN st[k].if_stack : st[k].if_stack[n].current_match # None
  BY <1>1, <1>2 DEF Finished
<1>5. \A k \in 1..Len(st) : st[k].current_match \in Listed(pool, virtual_matching)
  <2>1. \A k \in 1..Len(st) : st[k].current_match \in Above(st, 0)
    BY <1>4, InAbove
  <2> QED  BY <2>1, <1>1 DEF Kept
<1>6. \A j, k \in 1..Len(st) : j # k => st[j].current_match # st[k].current_match
  BY <1>1, <1>2, <1>4 DEF Kept
<1> QED  BY <1>1, <1>2, <1>3, <1>4, <1>5, <1>6 DEF Full

LEMMA MachineIsCandidate ==
  ASSUME NEW st, NEW given, NEW req, NEW ms, NEW v, Full(st, given, req, ms, v),
         NEW k \in 1..Len(st)
  PROVE  [target |-> st[k].current_match, interfaces |-> IfMapped(st[k].if_stack)]
           \in Candidates(req[st[k].m_id], ms, v)
<1> DEFINE m == st[k]
           s == m.if_stack
           p == m.current_match
           has == DOMAIN ms[p].interfaces
           f == IfMapped(s)
<1>1. /\ m \in MachineMatch /\ s \in Seq(IfMatch)
      /\ DOMAIN s = 1..Len(s) /\ DOMAIN IfIds(s) = 1..Len(s)
  <2>1. m \in MachineMatch
    BY ElementOfSeq DEF Full
  <2>2. s \in Seq(IfMatch)
    BY <2>1 DEF MachineMatch
  <2> QED  BY <2>1, <2>2, LenProperties DEF IfIds
<1>2. /\ p \in Listed(ms, v) /\ p # None /\ IfsKept(m, req, ms, v)
      /\ m.unmatched_ifs = <<>> \/ v
      /\ \A n \in 1..Len(s) : s[n].current_match # None
  BY <1>1 DEF Full
<1>3. _params_compatible(req[m.m_id].params, ms[p].params)
  BY <1>2, Zenon DEF IfsKept
<1>4. /\ Split(m.unmatched_ifs, IfIds(s), DOMAIN req[m.m_id].interfaces)
      /\ Kept(m.unmatched_pool_ifs, s, has)
  BY <1>2, Zenon DEF IfsKept
<1>5. /\ DOMAIN f = Range(IfIds(s))
      /\ \A n \in 1..Len(s) : f[s[n].if_id] = s[n].current_match
      /\ \A y \in DOMAIN f : \E n \in 1..Len(s) : y = s[n].if_id
      /\ f = [y \in DOMAIN f |-> f[y]]
  <2>1. IsInjective(IfIds(s))
    BY <1>4 DEF Split
  <2>2. f = [y \in DOMAIN f |-> f[y]]
    BY DEF IfMapped
  <2> QED  BY <1>1, <2>1, <2>2, InterfacesMapped, Zenon
<1>6. f \in IF v THEN {<<>>} ELSE Injection(DOMAIN req[m.m_id].interfaces, has)
  <2>1. CASE v
    <3>1. s = <<>>
      BY <2>1, <1>2, Zenon DEF IfsKept
    <3>2. DOMAIN f = {}
      <4>1. IfIds(s) = <<>> /\ Range(<<>>) = {}
        BY <3>1, NoIds DEF Range
      <4> QED  BY <4>1, <1>5
    <3>3. f = <<>>
      BY <3>2, <1>5
    <3> QED  BY <2>1, <3>3
  <2>2. CASE ~v
    <3>1. m.unmatched_ifs = <<>>
      BY <2>2, <1>2
    <3>2. Range(<<>>) = {}
      BY DEF Range
    <3>3. DOMAIN f = DOMAIN req[m.m_id].interfaces
      BY <3>1, <3>2, <1>4, <1>5, Zenon DEF Split
    <3>4. \A n \in 1..Len(s) : s[n].current_match \in has
      <4>1. \A n \in 1..Len(s) : s[n].current_match \in Above(s, 0)
        BY <1>2, InAbove
      <4> QED  BY <4>1, <1>4 DEF Kept
    <3>5. \A y \in DOMAIN f : f[y] \in has
      BY <3>4, <1>5
    <3>6. \A j, n \in 1..Len(s) : j # n => s[j].current_match # s[n].current_match
      BY <1>1, <1>2, <1>4, Zenon DEF Kept
    <3>7. IsInjective(f)
      <4>1. SUFFICES ASSUME NEW x \in DOMAIN f, NEW y \in DOMAIN f, f[x] = f[y]
                     PROVE  x = y
        BY DEF IsInjective
      <4>2. PICK j \in 1..Len(s) : x = s[j].if_id
        BY <1>5
      <4>3. PICK n \in 1..Len(s) : y = s[n].if_id
        BY <1>5
      <4>4. s[j].current_match = s[n].current_match
        BY <4>1, <4>2, <4>3, <1>5
      <4>5. j = n
        BY <4>4, <3>6
      <4> QED  BY <4>2, <4>3, <4>5
    <3> HIDE DEF f, has
    <3>8. f \in [DOMAIN req[m.m_id].interfaces -> has]
      BY <3>3, <3>5, <1>5
    <3> QED  BY <3>7, <3>8, <2>2 DEF Injection
  <2> QED  BY <2>1, <2>2
<1> HIDE DEF f, p
<1>7. [target |-> p, interfaces |-> f] \in Candidates(req[m.m_id], ms, v)
  <2>1. f \in IF v THEN {<<>>}
                 ELSE Injection(DOMAIN req[m.m_id].interfaces, DOMAIN ms[p].interfaces)
    BY <1>6 DEF has
  <2>2. [target |-> p, interfaces |-> f] \in
          {[target |-> p, interfaces |-> g] :
             g \in IF v THEN {<<>>}
                   ELSE Injection(DOMAIN req[m.m_id].interfaces, DOMAIN ms[p].interfaces)}
    BY <2>1, Zenon
  <2>3. p \in {x \in Listed(ms, v) : _params_compatible(req[m.m_id].params, ms[x].params)}
    BY <1>2, <1>3
  <2> QED  BY ONLY <2>2, <2>3, ZenonT(30) DEF Candidates
<1> QED  BY <1>7 DEF f, p

(***************************************************************************)
(* The ports of what is yielded are the places of the stack.               *)
(***************************************************************************)
LEMMA PortsArePlaces ==
  ASSUME NEW given, NEW ms, NEW v, NEW st, Full(st, given, call.mreqs, ms, v)
  PROVE  /\ \A q \in Ports(Mapped(st)) : \E j, n \in Nat :
              /\ Port(st, j, n)
              /\ q = <<st[j].m_id, st[j].if_stack[n].if_id>>
         /\ \A j, n \in Nat : Port(st, j, n) =>
              /\ <<st[j].m_id, st[j].if_stack[n].if_id>> \in Ports(Mapped(st))
              /\ LabelOf(<<st[j].m_id, st[j].if_stack[n].if_id>>) =
                   LabelAt(st, call.mreqs, j, n)
              /\ NetworkOf(ms, Mapped(st), <<st[j].m_id, st[j].if_stack[n].if_id>>) =
                   NetworkAt(st, ms, j, n)
<1> DEFINE F == Mapped(st)
<1>1. /\ st \in Seq(MachineMatch) /\ DOMAIN st = 1..Len(st) /\ Len(st) \in Nat
      /\ IsInjective(MIds(st))
  BY LenProperties DEF Full
<1>2. /\ \A k \in 1..Len(st) :
              /\ st[k].m_id \in DOMAIN F
              /\ F[st[k].m_id].target = st[k].current_match
              /\ F[st[k].m_id].interfaces = IfMapped(st[k].if_stack)
      /\ \A x \in DOMAIN F : \E k \in 1..Len(st) : x = st[k].m_id
  BY <1>1, MachinesMapped, Zenon
<1>3. ASSUME NEW k \in 1..Len(st)
      PROVE  LET s == st[k].if_stack
             IN  /\ DOMAIN s = 1..Len(s) /\ Len(s) \in Nat
                 /\ \A n \in 1..Len(s) : /\ s[n].current_match # None
                                         /\ s[n].if_id \in DOMAIN IfMapped(s)
                                         /\ IfMapped(s)[s[n].if_id] = s[n].current_match
                 /\ \A y \in DOMAIN IfMapped(s) : \E n \in 1..Len(s) : y = s[n].if_id
  <2> DEFINE s == st[k].if_stack
  <2>1. s \in Seq(IfMatch)
    <3>1. st[k] \in MachineMatch
      BY <1>1, ElementOfSeq
    <3> QED  BY <3>1 DEF MachineMatch
  <2>2. IsInjective(IfIds(s))
    BY DEF Full, IfsKept, Split
  <2>3. DOMAIN s = 1..Len(s) /\ Len(s) \in Nat
    BY <2>1, LenProperties
  <2>4. \A n \in DOMAIN s : s[n].current_match # None
    BY DEF Full
  <2> QED  BY <2>1, <2>2, <2>3, <2>4, InterfacesMapped, Zenon
<1> HIDE DEF F
<1>4. ASSUME NEW q \in Ports(F)
      PROVE  \E j, n \in Nat : /\ Port(st, j, n)
                               /\ q = <<st[j].m_id, st[j].if_stack[n].if_id>>
  <2>1. PICK x \in DOMAIN F : \E y \in DOMAIN F[x].interfaces : q = <<x, y>>
    BY <1>4 DEF Ports
  <2>2. PICK y \in DOMAIN F[x].interfaces : q = <<x, y>>
    BY <2>1
  <2>3. PICK k \in 1..Len(st) : x = st[k].m_id
    BY <1>2
  <2>4. F[x].interfaces = IfMapped(st[k].if_stack)
    BY <2>3, <1>2
  <2>5. PICK n \in 1..Len(st[k].if_stack) : y = st[k].if_stack[n].if_id
    <3>1. y \in DOMAIN IfMapped(st[k].if_stack)
      BY <2>2, <2>4
    <3>2. \A z \in DOMAIN IfMapped(st[k].if_stack) :
            \E n \in 1..Len(st[k].if_stack) : z = st[k].if_stack[n].if_id
      BY ONLY <1>3, k \in 1..Len(st), Zenon
    <3> QED  BY ONLY <3>1, <3>2
  <2>6. st[k].if_stack[n].current_match # None /\ n \in DOMAIN st[k].if_stack
    BY <1>3
  <2>7. Port(st, k, n)
    BY <2>6, <1>1 DEF Port
  <2>8. k \in Nat /\ n \in Nat
    BY <1>1, <1>3
  <2> QED  BY <2>2, <2>3, <2>5, <2>7, <2>8
<1>5. ASSUME NEW j \in Nat, NEW n \in Nat, Port(st, j, n)
      PROVE  /\ <<st[j].m_id, st[j].if_stack[n].if_id>> \in Ports(F)
             /\ LabelOf(<<st[j].m_id, st[j].if_stack[n].if_id>>) =
                  LabelAt(st, call.mreqs, j, n)
             /\ NetworkOf(ms, F, <<st[j].m_id, st[j].if_stack[n].if_id>>) =
                  NetworkAt(st, ms, j, n)
  <2> DEFINE x == st[j].m_id
             y == st[j].if_stack[n].if_id
  <2>1. j \in 1..Len(st) /\ n \in DOMAIN st[j].if_stack
    BY <1>1, <1>5 DEF Port
  <2>2. /\ F[x].target = st[j].current_match
        /\ F[x].interfaces = IfMapped(st[j].if_stack) /\ x \in DOMAIN F
    BY <2>1, <1>2, Zenon
  <2>3. /\ y \in DOMAIN F[x].interfaces
        /\ F[x].interfaces[y] = st[j].if_stack[n].current_match
    BY <2>1, <2>2, <1>3
  <2> HIDE DEF x, y
  <2>4. <<x, y>> \in Ports(F)
    BY <2>2, <2>3 DEF Ports
  <2>5. <<x, y>>[1] = x /\ <<x, y>>[2] = y
    OBVIOUS
  <2>6. LabelOf(<<x, y>>) = LabelAt(st, call.mreqs, j, n)
    BY <2>5 DEF LabelOf, LabelAt, x, y
  <2>7. NetworkOf(ms, F, <<x, y>>) = NetworkAt(st, ms, j, n)
    BY <2>2, <2>3, <2>5, Zenon DEF NetworkOf, NetworkAt
  <2> QED  BY <2>4, <2>6, <2>7 DEF x, y
<1> QED  BY <1>4, <1>5 DEF F

NetworksGiven(given) == [l \in DOMAIN given |-> given[l].network]
NetworksMapped(ms, F) ==
  [l \in {LabelOf(q) : q \in Ports(F)} |->
     NetworkOf(ms, F, CHOOSE q \in Ports(F) : LabelOf(q) = l)]

LEMMA YieldedIsMatch ==
  ASSUME NEW given, NEW ms, NEW v, NEW st, Full(st, given, call.mreqs, ms, v)
  PROVE  /\ IsMatch(ms, Mapped(st), v)
         /\ NetworksGiven(given) = NetworksMapped(ms, Mapped(st))
<1> DEFINE F == Mapped(st)
           req == call.mreqs
           at(j, n) == <<st[j].m_id, st[j].if_stack[n].if_id>>
<1>1. /\ \A q \in Ports(F) : \E j, n \in Nat : Port(st, j, n) /\ q = at(j, n)
      /\ \A j, n \in Nat : Port(st, j, n) =>
              /\ at(j, n) \in Ports(F)
              /\ LabelOf(at(j, n)) = LabelAt(st, req, j, n)
              /\ NetworkOf(ms, F, at(j, n)) = NetworkAt(st, ms, j, n)
  BY PortsArePlaces
<1>2. st \in Seq(MachineMatch) /\ IsInjective(MIds(st)) /\ LabelsGiven(st, given, req, ms)
  BY DEF Full
<1>3. \A q \in Ports(F) : /\ LabelOf(q) \in DOMAIN given
                          /\ given[LabelOf(q)].network = NetworkOf(ms, F, q)
  BY <1>1, <1>2, SMTT(30) DEF LabelsGiven
<1>4. \A l \in DOMAIN given : \E q \in Ports(F) : LabelOf(q) = l
  <2> TAKE l \in DOMAIN given
  <2>1. PICK j \in Nat, n \in Nat : First(st, req, l, j, n)
    BY <1>2 DEF LabelsGiven
  <2>2. Port(st, j, n) /\ LabelAt(st, req, j, n) = l
    BY <2>1 DEF First
  <2> QED  BY <2>2, <1>1, Zenon
<1>5. \A k, l \in DOMAIN given : given[k].network = given[l].network => k = l
  BY <1>2 DEF LabelsGiven
<1>6. \A q, r \in Ports(F) : LabelOf(q) = LabelOf(r) <=>
                             NetworkOf(ms, F, q) = NetworkOf(ms, F, r)
  BY <1>3, <1>5
<1>7. \A x, y \in DOMAIN req : F[x].target = F[y].target => x = y
  <2>1. /\ \A k \in 1..Len(st) : F[st[k].m_id].target = st[k].current_match
        /\ \A x \in DOMAIN req : \E k \in 1..Len(st) : x = st[k].m_id
    <3>1. /\ DOMAIN F = Range(MIds(st))
          /\ \A k \in 1..Len(st) : F[st[k].m_id].target = st[k].current_match
          /\ \A x \in DOMAIN F : \E k \in 1..Len(st) : x = st[k].m_id
      BY ONLY <1>2, MachinesMapped, Zenon
    <3>2. Range(MIds(st)) = DOMAIN req
      BY DEF Full
    <3> HIDE DEF F
    <3> QED  BY <3>1, <3>2
  <2>2. \A j, k \in 1..Len(st) : j # k => st[j].current_match # st[k].current_match
    BY DEF Full
  <2> HIDE DEF F
  <2> QED  BY <2>1, <2>2
<1>8. ASSUME NEW q \in Ports(F)
      PROVE  _params_compatible(req[q[1]].interfaces[q[2]].params,
               ms[F[q[1]].target].interfaces[F[q[1]].interfaces[q[2]]].params)
  <2>1. PICK j \in Nat, n \in Nat : Port(st, j, n) /\ q = at(j, n)
    BY <1>1
  <2>2. /\ j \in 1..Len(st) /\ n \in DOMAIN st[j].if_stack
        /\ st[j].if_stack[n].current_match # None
    BY <2>1, <1>2, LenProperties DEF Port
  <2>3. st[j].if_stack \in Seq(IfMatch) /\ IsInjective(IfIds(st[j].if_stack))
    <3>1. st[j] \in MachineMatch
      BY <2>2, <1>2, ElementOfSeq, ZenonT(30)
    <3>2. IsInjective(IfIds(st[j].if_stack))
      BY <2>2 DEF Full, IfsKept, Split
    <3> QED  BY <3>1, <3>2 DEF MachineMatch
  <2>4. /\ F[q[1]].target = st[j].current_match
        /\ F[q[1]].interfaces = IfMapped(st[j].if_stack)
    BY <2>1, <2>2, <1>2, MachinesMapped, Zenon
  <2>5. F[q[1]].interfaces[q[2]] = st[j].if_stack[n].current_match
    <3>1. n \in 1..Len(st[j].if_stack) /\ q[2] = st[j].if_stack[n].if_id
      BY <2>1, <2>2, <2>3, LenProperties
    <3>2. IfMapped(st[j].if_stack)[st[j].if_stack[n].if_id] = st[j].if_stack[n].current_match
      BY ONLY <2>3, <3>1, InterfacesMapped, ZenonT(30)
    <3> QED  BY <2>4, <3>1, <3>2, Zenon
  <2>6. _params_compatible(req[st[j].m_id].interfaces[st[j].if_stack[n].if_id].params,
          ms[st[j].current_match].interfaces[st[j].if_stack[n].current_match].params)
    BY <2>2, ZenonT(30) DEF Full, IfsKept
  <2> HIDE DEF F
  <2> QED  BY <2>1, <2>4, <2>5, <2>6, Zenon
<1>9. IsMatch(ms, F, v)
  <2> HIDE DEF F
  <2> QED  BY <1>6, <1>7, <1>8 DEF IsMatch
<1>10. DOMAIN given = {LabelOf(q) : q \in Ports(F)}
  BY <1>3, <1>4, Zenon
<1>11. ASSUME NEW l \in DOMAIN given
       PROVE  given[l].network =
                NetworkOf(ms, F, CHOOSE q \in Ports(F) : LabelOf(q) = l)
  <2>1. /\ (CHOOSE q \in Ports(F) : LabelOf(q) = l) \in Ports(F)
        /\ LabelOf(CHOOSE q \in Ports(F) : LabelOf(q) = l) = l
    BY <1>4
  <2> QED  BY <2>1, <1>3
<1>12. NetworksGiven(given) = NetworksMapped(ms, F)
  <2> HIDE DEF F
  <2> QED  BY <1>10, <1>11 DEF NetworksGiven, NetworksMapped
<1> QED  BY <1>9, <1>12

LEMMA YieldedIsSearched ==
  ASSUME MInv
  PROVE  YieldsMatches
<1> SUFFICES ASSUME pc = "yield"
             PROVE  get_mapping \in AllMatches(virtual_matching)
  BY DEF YieldsMatches
<1> DEFINE st == machine_stack
           F == Mapped(st)
           v == virtual_matching
           nets == NetworksGiven(net_label_mapping)
<1>1. Full(st, net_label_mapping, call.mreqs, pool, v)
  BY FullWhenYielded
<1>2. Len(st) \in Nat \ {0} /\ 1 \in 1..Len(st)
  BY <1>1, EmptySeq DEF Full
<1>3. pool_name \in DOMAIN pools /\ pool = pools[pool_name]
  <2>1. pool_name \in 0..Len(pools) /\ TypeOK
    BY DEF MInv, TypeOK
  <2>2. pool_name # 0
    <3>1. st[1].current_match \in Listed(pool, v)
      BY <1>1, <1>2 DEF Full
    <3>2. pool_name = 0 => Listed(pool, v) = {}
      BY DEF pool, PoolNamed, NoMachines, Listed
    <3> QED  BY <3>1, <3>2
  <2>3. pool_name > 0
    BY <2>1, <2>2, NumberOfPools
  <2> QED  BY <2>1, <2>3, PoolMachines DEF pool, PoolNamed
<1>4. DOMAIN F = DOMAIN call.mreqs /\ DOMAIN call.mreqs # {}
  <2>1. DOMAIN F = Range(MIds(st)) /\ st[1].m_id \in DOMAIN F
    BY <1>1, <1>2, MachinesMapped, Zenon DEF Full
  <2> QED  BY <2>1, <1>1 DEF Full
<1>5. \A x \in DOMAIN F : F[x] \in Candidates(call.mreqs[x], pool, v)
  <2> TAKE x \in DOMAIN F
  <2>1. PICK k \in 1..Len(st) : x = st[k].m_id
    BY <1>1, MachinesMapped DEF Full
  <2>2. F[x] = [target |-> st[k].current_match, interfaces |-> IfMapped(st[k].if_stack)]
    BY <2>1, <1>1, MachinesMapped DEF Full
  <2> QED  BY <2>1, <2>2, <1>1, MachineIsCandidate
<1>6. /\ IsMatch(pool, F, v)
      /\ nets = NetworksMapped(pool, F)
  BY ONLY <1>1, YieldedIsMatch
<1>7. get_mapping = [pool_name |-> pool_name, virtual |-> v, networks |-> nets,
                     machines |-> F]
  BY DEF get_mapping, Mapped, IfMapped, NetworksGiven
<1>8. F \in [DOMAIN call.mreqs -> UNION {Candidates(call.mreqs[m], pool, v) :
                                          m \in DOMAIN call.mreqs}]
  <2>1. F = [x \in DOMAIN F |-> F[x]]
    BY DEF Mapped
  <2> HIDE DEF F
  <2> QED  BY <2>1, <1>4, <1>5
<1> HIDE DEF F, nets
<1>9. get_mapping \in MatchesIn(pool_name, v)
  <2> DEFINE req == call.mreqs
             ms == pools[pool_name]
             choices == {f \in [DOMAIN req -> UNION {Candidates(req[m], ms, v) :
                                                       m \in DOMAIN req}] :
                           \A m \in DOMAIN req : f[m] \in Candidates(req[m], ms, v)}
             result(f) == [pool_name |-> pool_name, virtual |-> v, machines |-> f,
                           networks |-> [l \in {LabelOf(q) : q \in Ports(f)} |->
                             NetworkOf(ms, f, CHOOSE q \in Ports(f) : LabelOf(q) = l)]]
  <2>1. F \in choices
    BY <1>3, <1>4, <1>5, <1>8
  <2>2. F \in {f \in choices : IsMatch(ms, f, v)}
    BY <2>1, <1>3, <1>6
  <2>3. get_mapping = result(F)
    BY <1>3, <1>6, <1>7 DEF NetworksMapped
  <2>4. get_mapping \in {result(f) : f \in {f \in choices : IsMatch(ms, f, v)}}
    <3> HIDE DEF result, choices
    <3> QED  BY <2>2, <2>3
  <2> QED  BY <2>4, Zenon DEF MatchesIn
<1> QED  BY <1>3, <1>4, <1>9 DEF AllMatches

(***************************************************************************)
(* What matches yields is a match: YieldsMatches for any pools,            *)
(* requirements and calls.                                                 *)
(***************************************************************************)
THEOREM SearchYieldsMatches == Spec => []YieldsMatches
<1>1. Init => MInv
  BY InitHolds
<1>2. MInv /\ [Next]_vars => MInv'
  BY StepHolds
<1>3. MInv => YieldsMatches
  BY YieldedIsSearched
<1> QED  BY <1>1, <1>2, <1>3, PTL DEF Spec

-----------------------------------------------------------------------------
(***************************************************************************)
(* Where a mapping g stands.  What is on the stack follows g, and g is     *)
(* ahead of the search if an entry has among its candidates what g gives   *)
(* it while all below it follow g: going back to that entry, the search    *)
(* comes to g.                                                             *)
(***************************************************************************)
IfsFollow(f, s) == \A n \in DOMAIN s : s[n].current_match = f[s[n].if_id]
IfsAhead(f, s) ==
  \E n \in DOMAIN s :
    /\ f[s[n].if_id] \in Range(s[n].remaining_matches)
    /\ \A y \in 1 .. n - 1 : s[y].current_match = f[s[y].if_id]

Follows(g, e) ==
  /\ e.current_match = g.machines[e.m_id].target
  /\ IfsFollow(g.machines[e.m_id].interfaces, e.if_stack)
AheadIn(g, e) ==
  \/ g.machines[e.m_id].target \in Range(e.remaining_matches)
  \/ /\ e.current_match = g.machines[e.m_id].target
     /\ IfsAhead(g.machines[e.m_id].interfaces, e.if_stack)

AllFollow(g, st) == \A k \in DOMAIN st : Follows(g, st[k])
AheadOn(g, st) ==
  \E k \in DOMAIN st : AheadIn(g, st[k]) /\ \A j \in 1 .. k - 1 : Follows(g, st[j])

LEMMA AppendedParts ==
  ASSUME NEW S, NEW s \in Seq(S), NEW e \in S
  PROVE  /\ DOMAIN s = 1..Len(s) /\ Len(s) \in Nat
         /\ DOMAIN Append(s, e) = 1 .. Len(s) + 1
         /\ \A n \in 1..Len(s) : Append(s, e)[n] = s[n]
         /\ Append(s, e)[Len(s) + 1] = e
         /\ \A n \in 1..Len(s) : \A y \in 1 .. n - 1 : y \in 1..Len(s)
<1>1. /\ Append(s, e) \in Seq(S) /\ Len(Append(s, e)) = Len(s) + 1
      /\ \A n \in 1..Len(s) : Append(s, e)[n] = s[n]
      /\ Append(s, e)[Len(s) + 1] = e
  BY AppendProperties
<1>2. /\ DOMAIN s = 1..Len(s) /\ Len(s) \in Nat
      /\ DOMAIN Append(s, e) = 1..Len(Append(s, e))
  BY <1>1, LenProperties
<1> QED  BY <1>1, <1>2

LEMMA IfsFollowAppended ==
  ASSUME NEW s \in Seq(IfMatch), NEW i \in IfMatch, NEW f
  PROVE  IfsFollow(f, Append(s, i)) <=>
           IfsFollow(f, s) /\ i.current_match = f[i.if_id]
<1>1. /\ DOMAIN s = 1..Len(s) /\ Len(s) \in Nat
      /\ DOMAIN Append(s, i) = 1 .. Len(s) + 1
      /\ \A n \in 1..Len(s) : Append(s, i)[n] = s[n]
      /\ Append(s, i)[Len(s) + 1] = i
  BY AppendedParts
<1>2. \A n : n \in 1 .. Len(s) + 1 <=> n \in 1..Len(s) \/ n = Len(s) + 1
  BY <1>1
<1> QED  BY ONLY <1>1, <1>2 DEF IfsFollow

LEMMA IfsAheadAppended ==
  ASSUME NEW s \in Seq(IfMatch), NEW i \in IfMatch, NEW f
  PROVE  IfsAhead(f, Append(s, i)) <=>
           IfsAhead(f, s) \/ (IfsFollow(f, s) /\ f[i.if_id] \in Range(i.remaining_matches))
<1> DEFINE t == Append(s, i)
           Here(u, n) == f[u[n].if_id] \in Range(u[n].remaining_matches)
           Below(u, n) == \A y \in 1 .. n - 1 : u[y].current_match = f[u[y].if_id]
<1>1. /\ DOMAIN s = 1..Len(s) /\ Len(s) \in Nat
      /\ DOMAIN t = 1 .. Len(s) + 1
      /\ \A n \in 1..Len(s) : t[n] = s[n]
      /\ t[Len(s) + 1] = i
      /\ \A n \in 1..Len(s) : \A y \in 1 .. n - 1 : y \in 1..Len(s)
  BY AppendedParts
<1>2. \A n : n \in 1 .. Len(s) + 1 <=> n \in 1..Len(s) \/ n = Len(s) + 1
  BY <1>1
<1>3. (Len(s) + 1) - 1 = Len(s)
  BY <1>1
<1> HIDE DEF t
<1>4. \A n \in 1..Len(s) : (Here(t, n) <=> Here(s, n)) /\ (Below(t, n) <=> Below(s, n))
  BY ONLY <1>1
<1>5. Here(t, Len(s) + 1) <=> f[i.if_id] \in Range(i.remaining_matches)
  BY ONLY <1>1
<1>6. Below(t, Len(s) + 1) <=> IfsFollow(f, s)
  BY ONLY <1>1, <1>3 DEF IfsFollow
<1>7. /\ IfsAhead(f, t) <=> \E n \in 1 .. Len(s) + 1 : Here(t, n) /\ Below(t, n)
      /\ IfsAhead(f, s) <=> \E n \in 1..Len(s) : Here(s, n) /\ Below(s, n)
  BY ONLY <1>1 DEF IfsAhead
<1> HIDE DEF Here, Below
<1> QED  BY ONLY <1>2, <1>4, <1>5, <1>6, <1>7 DEF t

LEMMA AllFollowAppended ==
  ASSUME NEW st \in Seq(MachineMatch), NEW e \in MachineMatch, NEW g
  PROVE  AllFollow(g, Append(st, e)) <=> AllFollow(g, st) /\ Follows(g, e)
<1>1. /\ DOMAIN st = 1..Len(st) /\ Len(st) \in Nat
      /\ DOMAIN Append(st, e) = 1 .. Len(st) + 1
      /\ \A n \in 1..Len(st) : Append(st, e)[n] = st[n]
      /\ Append(st, e)[Len(st) + 1] = e
  BY AppendedParts
<1>2. \A n : n \in 1 .. Len(st) + 1 <=> n \in 1..Len(st) \/ n = Len(st) + 1
  BY <1>1
<1> QED  BY ONLY <1>1, <1>2 DEF AllFollow

LEMMA AheadOnAppended ==
  ASSUME NEW st \in Seq(MachineMatch), NEW e \in MachineMatch, NEW g
  PROVE  AheadOn(g, Append(st, e)) <=>
           AheadOn(g, st) \/ (AllFollow(g, st) /\ AheadIn(g, e))
<1> DEFINE t == Append(st, e)
           Below(u, n) == \A y \in 1 .. n - 1 : Follows(g, u[y])
<1>1. /\ DOMAIN st = 1..Len(st) /\ Len(st) \in Nat
      /\ DOMAIN t = 1 .. Len(st) + 1
      /\ \A n \in 1..Len(st) : t[n] = st[n]
      /\ t[Len(st) + 1] = e
      /\ \A n \in 1..Len(st) : \A y \in 1 .. n - 1 : y \in 1..Len(st)
  BY AppendedParts
<1>2. \A n : n \in 1 .. Len(st) + 1 <=> n \in 1..Len(st) \/ n = Len(st) + 1
  BY <1>1
<1>3. (Len(st) + 1) - 1 = Len(st)
  BY <1>1
<1> HIDE DEF t
<1>4. \A n \in 1..Len(st) : Below(t, n) <=> Below(st, n)
  BY ONLY <1>1
<1>5. Below(t, Len(st) + 1) <=> AllFollow(g, st)
  BY ONLY <1>1, <1>3 DEF AllFollow
<1>6. /\ AheadOn(g, t) <=> \E n \in 1 .. Len(st) + 1 : AheadIn(g, t[n]) /\ Below(t, n)
      /\ AheadOn(g, st) <=> \E n \in 1..Len(st) : AheadIn(g, st[n]) /\ Below(st, n)
  BY ONLY <1>1 DEF AheadOn
<1> HIDE DEF Below
<1> QED  BY ONLY <1>1, <1>2, <1>4, <1>5, <1>6 DEF t

LEMMA NoneOnEmptyStacks ==
  /\ \A f : IfsFollow(f, <<>>) /\ ~IfsAhead(f, <<>>)
  /\ \A g : AllFollow(g, <<>>) /\ ~AheadOn(g, <<>>)
<1>1. \A n \in DOMAIN <<>> : FALSE
  OBVIOUS
<1> QED  BY <1>1 DEF IfsFollow, IfsAhead, AllFollow, AheadOn

(***************************************************************************)
(* What follows g has no candidate that is g's: every candidate of an      *)
(* entry is another one than its match.                                    *)
(***************************************************************************)
LEMMA NotAheadOfItself ==
  ASSUME NEW E, NEW st \in Seq(E), NEW free, NEW all, Kept(free, st, all),
         NEW k \in 1..Len(st), st[k].current_match # None
  PROVE  st[k].current_match \notin Range(st[k].remaining_matches)
<1>1. /\ DOMAIN st = 1..Len(st) /\ Len(st) \in Nat
  BY LenProperties
<1>2. st[k].current_match \in Above(st, 0)
  BY <1>1, InAbove
<1>3. st[k].current_match \notin Range(free)
  BY <1>2 DEF Kept
<1>4. st[k].current_match \notin Above(st, k)
  <2>1. SUFFICES ASSUME NEW j \in k + 1 .. Len(st),
                        st[k].current_match = st[j].current_match
                 PROVE  FALSE
    BY DEF Above
  <2>2. j \in DOMAIN st /\ j # k /\ k \in DOMAIN st
    BY <1>1
  <2> QED  BY <2>1, <2>2 DEF Kept
<1> QED  BY <1>1, <1>3, <1>4 DEF Kept

-----------------------------------------------------------------------------
(***************************************************************************)
(* MatchesIn, as a constant expression of what is required and of a pool   *)
(***************************************************************************)
LabelIn(req, q) == req[q[1]].interfaces[q[2]].network

MatchIn(req, machines, f) ==
  /\ \A m, n \in DOMAIN req : f[m].target = f[n].target => m = n
  /\ \A q, r \in Ports(f) : LabelIn(req, q) = LabelIn(req, r) <=>
                            NetworkOf(machines, f, q) = NetworkOf(machines, f, r)
  /\ \A q \in Ports(f) :
       _params_compatible(req[q[1]].interfaces[q[2]].params,
         machines[f[q[1]].target].interfaces[f[q[1]].interfaces[q[2]]].params)

MachineChoices(req, machines, v) ==
  {f \in [DOMAIN req -> UNION {Candidates(req[m], machines, v) : m \in DOMAIN req}] :
     \A m \in DOMAIN req : f[m] \in Candidates(req[m], machines, v)}

Mapping(req, machines, k, v, f) ==
  [pool_name |-> k, virtual |-> v, machines |-> f,
   networks |-> [l \in {LabelIn(req, q) : q \in Ports(f)} |->
     NetworkOf(machines, f, CHOOSE q \in Ports(f) : LabelIn(req, q) = l)]]

MatchesOf(req, machines, k, v) ==
  {Mapping(req, machines, k, v, f) :
     f \in {f \in MachineChoices(req, machines, v) : MatchIn(req, machines, f)}}

LEMMA MatchesAreConstant ==
  ASSUME NEW k, NEW v
  PROVE  MatchesIn(k, v) = MatchesOf(call.mreqs, pools[k], k, v)
BY DEF MatchesIn, MatchesOf, Mapping, MachineChoices, MatchIn, LabelIn, IsMatch, LabelOf, Ports,
       NetworkOf, Candidates, Listed

LEMMA Destructed ==
  ASSUME NEW req, NEW machines, NEW k, NEW v, NEW g \in MatchesOf(req, machines, k, v)
  PROVE  /\ g = Mapping(req, machines, k, v, g.machines)
         /\ g.machines \in MachineChoices(req, machines, v)
         /\ MatchIn(req, machines, g.machines)
         /\ g.pool_name = k /\ g.virtual = v
<1>1. PICK f \in MachineChoices(req, machines, v) :
         MatchIn(req, machines, f) /\ g = Mapping(req, machines, k, v, f)
  BY DEF MatchesOf
<1>2. g.machines = f /\ g.pool_name = k /\ g.virtual = v
  BY <1>1 DEF Mapping
<1> QED  BY <1>1, <1>2

LEMMA CandidateParts ==
  ASSUME NEW req, NEW machines, NEW v, NEW c \in Candidates(req, machines, v)
  PROVE  /\ c = [target |-> c.target, interfaces |-> c.interfaces]
         /\ c.target \in Listed(machines, v)
         /\ _params_compatible(req.params, machines[c.target].params)
         /\ v => c.interfaces = <<>>
         /\ ~v => /\ c.interfaces \in [DOMAIN req.interfaces ->
                                         DOMAIN machines[c.target].interfaces]
                  /\ \A x, y \in DOMAIN req.interfaces :
                       c.interfaces[x] = c.interfaces[y] => x = y
<1>1. PICK p \in Listed(machines, v) :
        /\ _params_compatible(req.params, machines[p].params)
        /\ \E f \in IF v THEN {<<>>}
                    ELSE Injection(DOMAIN req.interfaces, DOMAIN machines[p].interfaces) :
             c = [target |-> p, interfaces |-> f]
  BY DEF Candidates
<1>2. PICK f \in IF v THEN {<<>>}
                 ELSE Injection(DOMAIN req.interfaces, DOMAIN machines[p].interfaces) :
         c = [target |-> p, interfaces |-> f]
  BY <1>1, Zenon
<1>3. c.target = p /\ c.interfaces = f
  BY <1>2
<1>4. ~v => f \in Injection(DOMAIN req.interfaces, DOMAIN machines[p].interfaces)
  BY <1>2
<1>5. ~v => /\ f \in [DOMAIN req.interfaces -> DOMAIN machines[p].interfaces]
            /\ \A x, y \in DOMAIN req.interfaces : f[x] = f[y] => x = y
  BY <1>4 DEF Injection, IsInjective
<1> QED  BY <1>1, <1>2, <1>3, <1>5

(* What a match is, place by place *)
MachineFacts(g, req, ms, v, x) ==
  LET c == g.machines[x]
  IN  /\ c = [target |-> c.target, interfaces |-> c.interfaces]
      /\ c.target \in Listed(ms, v)
      /\ _params_compatible(req[x].params, ms[c.target].params)
      /\ v => c.interfaces = <<>>
      /\ ~v => /\ c.interfaces \in [DOMAIN req[x].interfaces ->
                                      DOMAIN ms[c.target].interfaces]
               /\ \A a, b \in DOMAIN req[x].interfaces :
                    c.interfaces[a] = c.interfaces[b] => a = b
               /\ \A a \in DOMAIN req[x].interfaces :
                    _params_compatible(req[x].interfaces[a].params,
                      ms[c.target].interfaces[c.interfaces[a]].params)

NetworkIn(g, ms, x, a) ==
  ms[g.machines[x].target].interfaces[g.machines[x].interfaces[a]].network

LEMMA MatchFacts ==
  ASSUME NEW req, NEW ms, NEW k, NEW v, NEW g \in MatchesOf(req, ms, k, v)
  PROVE  /\ DOMAIN g.machines = DOMAIN req
         /\ \A x \in DOMAIN req : MachineFacts(g, req, ms, v, x)
         /\ \A x, y \in DOMAIN req : g.machines[x].target = g.machines[y].target => x = y
         /\ ~v => \A x, y \in DOMAIN req :
                    \A a \in DOMAIN req[x].interfaces, b \in DOMAIN req[y].interfaces :
                      req[x].interfaces[a].network = req[y].interfaces[b].network
                        <=> NetworkIn(g, ms, x, a) = NetworkIn(g, ms, y, b)
<1> DEFINE f == g.machines
<1>1. f \in MachineChoices(req, ms, v) /\ MatchIn(req, ms, f)
  BY Destructed
<1>2. DOMAIN f = DOMAIN req /\ \A x \in DOMAIN req : f[x] \in Candidates(req[x], ms, v)
  BY <1>1 DEF MachineChoices
<1> HIDE DEF f
<1>3. ASSUME NEW x \in DOMAIN req
      PROVE  LET c == f[x]
             IN  /\ c = [target |-> c.target, interfaces |-> c.interfaces]
                 /\ c.target \in Listed(ms, v)
                 /\ _params_compatible(req[x].params, ms[c.target].params)
                 /\ v => c.interfaces = <<>>
                 /\ ~v => /\ c.interfaces \in [DOMAIN req[x].interfaces ->
                                                 DOMAIN ms[c.target].interfaces]
                          /\ \A a, b \in DOMAIN req[x].interfaces :
                               c.interfaces[a] = c.interfaces[b] => a = b
  <2>1. f[x] \in Candidates(req[x], ms, v)
    BY <1>2
  <2> QED  BY ONLY <2>1, CandidateParts
<1>4. ASSUME NEW x \in DOMAIN req, ~v, NEW a \in DOMAIN req[x].interfaces
      PROVE  <<x, a>> \in Ports(f) /\ <<x, a>>[1] = x /\ <<x, a>>[2] = a
  <2>1. a \in DOMAIN f[x].interfaces
    BY <1>3, <1>4, Zenon
  <2> QED  BY <2>1, <1>2 DEF Ports
<1>5. ASSUME NEW x \in DOMAIN req, ~v, NEW a \in DOMAIN req[x].interfaces
      PROVE  _params_compatible(req[x].interfaces[a].params,
               ms[f[x].target].interfaces[f[x].interfaces[a]].params)
  <2>1. <<x, a>> \in Ports(f) /\ <<x, a>>[1] = x /\ <<x, a>>[2] = a
    BY <1>4, <1>5, Zenon
  <2>2. _params_compatible(req[<<x, a>>[1]].interfaces[<<x, a>>[2]].params,
          ms[f[<<x, a>>[1]].target].interfaces[f[<<x, a>>[1]].interfaces[<<x, a>>[2]]].params)
    BY <2>1, <1>1, Zenon DEF MatchIn
  <2> QED  BY <2>1, <2>2, Zenon
<1>6. ASSUME ~v, NEW x \in DOMAIN req, NEW y \in DOMAIN req,
             NEW a \in DOMAIN req[x].interfaces, NEW b \in DOMAIN req[y].interfaces
      PROVE  req[x].interfaces[a].network = req[y].interfaces[b].network
               <=> NetworkIn(g, ms, x, a) = NetworkIn(g, ms, y, b)
  <2>1. /\ <<x, a>> \in Ports(f) /\ <<x, a>>[1] = x /\ <<x, a>>[2] = a
        /\ <<y, b>> \in Ports(f) /\ <<y, b>>[1] = y /\ <<y, b>>[2] = b
    BY <1>4, <1>6, SMTT(30)
  <2>2. LabelIn(req, <<x, a>>) = LabelIn(req, <<y, b>>)
          <=> NetworkOf(ms, f, <<x, a>>) = NetworkOf(ms, f, <<y, b>>)
    BY <2>1, <1>1 DEF MatchIn
  <2>3. /\ LabelIn(req, <<x, a>>) = req[x].interfaces[a].network
        /\ LabelIn(req, <<y, b>>) = req[y].interfaces[b].network
    BY <2>1 DEF LabelIn
  <2>4. /\ NetworkOf(ms, f, <<x, a>>) = NetworkIn(g, ms, x, a)
        /\ NetworkOf(ms, f, <<y, b>>) = NetworkIn(g, ms, y, b)
    BY <2>1, Zenon DEF NetworkOf, NetworkIn, f
  <2> QED  BY <2>2, <2>3, <2>4
<1>7. \A x, y \in DOMAIN req : f[x].target = f[y].target => x = y
  BY <1>1, ZenonT(30) DEF MatchIn
<1>8. \A x \in DOMAIN req : MachineFacts(g, req, ms, v, x)
  BY <1>3, <1>5 DEF MachineFacts, f
<1> QED  BY <1>2, <1>6, <1>7, <1>8 DEF f

LEMMA MappingsAgree ==
  ASSUME NEW req, NEW ms, NEW k, NEW v, NEW g \in MatchesOf(req, ms, k, v),
         NEW h \in MatchesOf(req, ms, k, v),
         \A x \in DOMAIN req : /\ g.machines[x].target = h.machines[x].target
                               /\ g.machines[x].interfaces = h.machines[x].interfaces
  PROVE  g = h
<1>1. /\ g = Mapping(req, ms, k, v, g.machines) /\ g.machines \in MachineChoices(req, ms, v)
      /\ h = Mapping(req, ms, k, v, h.machines) /\ h.machines \in MachineChoices(req, ms, v)
  BY Destructed
<1>2. \A x \in DOMAIN req :
        /\ MachineFacts(g, req, ms, v, x)
        /\ MachineFacts(h, req, ms, v, x)
  BY MatchFacts, Zenon
<1>3. \A x \in DOMAIN req : g.machines[x] = h.machines[x]
  BY <1>2, Zenon DEF MachineFacts
<1>4. /\ g.machines = [x \in DOMAIN req |-> g.machines[x]]
      /\ h.machines = [x \in DOMAIN req |-> h.machines[x]]
  BY <1>1 DEF MachineChoices
<1>5. g.machines = h.machines
  BY <1>3, <1>4
<1> QED  BY <1>1, <1>5

-----------------------------------------------------------------------------
(***************************************************************************)
(* The search goes forward from what is on the stack, or back.             *)
(***************************************************************************)
Open ==
  \/ pc \in {"push_machine", "push_if", "yield"}
  \/ /\ pc = "match" /\ virtual_matching /\ machine_stack # <<>>
     /\ ~Top.virt_matched /\ Top.current_match # None
Ahead(g) == AheadOn(g, machine_stack) \/ (Open /\ AllFollow(g, machine_stack))

Going == pc \in {"push_machine", "match", "push_if", "next_machine", "yield"}

AheadTop(g, st, m, open) ==
  \/ AheadOn(g, st)
  \/ AllFollow(g, st) /\ (AheadIn(g, m) \/ (open /\ Follows(g, m)))

LEMMA AheadNow ==
  ASSUME machine_stack \in Seq(MachineMatch), machine_stack # <<>>, NEW g
  PROVE  Ahead(g) <=> AheadTop(g, Front(machine_stack), Top, Open)
<1>1. /\ machine_stack = Append(Front(machine_stack), Top)
      /\ Front(machine_stack) \in Seq(MachineMatch) /\ Top \in MachineMatch
  BY FrontThenLast, LastFront DEF Top
<1>2. /\ AllFollow(g, machine_stack) <=> AllFollow(g, Front(machine_stack)) /\ Follows(g, Top)
      /\ AheadOn(g, machine_stack) <=>
           \/ AheadOn(g, Front(machine_stack))
           \/ AllFollow(g, Front(machine_stack)) /\ AheadIn(g, Top)
  <2> DEFINE st == Front(machine_stack)
             m == Top
  <2>1. st \in Seq(MachineMatch) /\ m \in MachineMatch /\ machine_stack = Append(st, m)
    BY <1>1
  <2> HIDE DEF st, m
  <2>2. /\ AllFollow(g, Append(st, m)) <=> AllFollow(g, st) /\ Follows(g, m)
        /\ AheadOn(g, Append(st, m)) <=>
             AheadOn(g, st) \/ (AllFollow(g, st) /\ AheadIn(g, m))
    BY ONLY <2>1, AllFollowAppended, AheadOnAppended
  <2> QED  BY <2>1, <2>2, Zenon DEF st, m
<1> QED  BY <1>2, Zenon, Zenon DEF Ahead, AheadTop

LEMMA AheadThen ==
  ASSUME NEW st \in Seq(MachineMatch), NEW m \in MachineMatch,
         machine_stack' = Append(st, m), NEW g
  PROVE  Ahead(g)' <=> AheadTop(g, st, m, Open')
<1>1. /\ AllFollow(g, Append(st, m)) <=> AllFollow(g, st) /\ Follows(g, m)
      /\ AheadOn(g, Append(st, m)) <=>
           AheadOn(g, st) \/ (AllFollow(g, st) /\ AheadIn(g, m))
  BY AllFollowAppended, AheadOnAppended
<1>2. Ahead(g)' <=> AheadOn(g, Append(st, m)) \/ (Open' /\ AllFollow(g, Append(st, m)))
  BY DEF Ahead
<1> QED  BY <1>1, <1>2, Zenon, Zenon DEF AheadTop

LEMMA AheadOnNothing ==
  ASSUME machine_stack = <<>>, NEW g
  PROVE  Ahead(g) <=> Open
BY NoneOnEmptyStacks DEF Ahead

(***************************************************************************)
(* Where the stack follows g, what g gives the next machine or interface   *)
(* is free.                                                                *)
(***************************************************************************)
LEMMA FreeTarget ==
  ASSUME NEW req, NEW ms, NEW k, NEW v, NEW g \in MatchesOf(req, ms, k, v),
         NEW st \in Seq(MachineMatch), NEW free, Kept(free, st, Listed(ms, v)),
         Range(MIds(st)) \subseteq DOMAIN req, AllFollow(g, st),
         NEW x \in DOMAIN req, x \notin Range(MIds(st))
  PROVE  g.machines[x].target \in Range(free)
<1> DEFINE p == g.machines[x].target
<1>1. p \in Listed(ms, v)
  BY MatchFacts, Zenon DEF MachineFacts
<1>2. \A y \in DOMAIN req : g.machines[y].target = p => y = x
  BY MatchFacts
<1> HIDE DEF p
<1>3. p \notin Above(st, 0)
  <2>1. SUFFICES ASSUME NEW j \in 0 + 1 .. Len(st), p = st[j].current_match
                 PROVE  FALSE
    BY DEF Above
  <2>2. j \in DOMAIN st /\ DOMAIN MIds(st) = 1..Len(st) /\ j \in 1..Len(st)
    BY <2>1, LenProperties DEF MIds
  <2>3. st[j].m_id \in Range(MIds(st))
    BY <2>2 DEF MIds, Range
  <2>4. g.machines[st[j].m_id].target = p
    BY <2>1, <2>2 DEF AllFollow, Follows
  <2>5. st[j].m_id = x
    BY <2>3, <2>4, <1>2
  <2> QED  BY <2>3, <2>5
<1> QED  BY <1>1, <1>3, Zenon DEF Kept, p

LEMMA FreeInterface ==
  ASSUME NEW s \in Seq(IfMatch), NEW free, NEW has, Kept(free, s, has),
         NEW D, NEW f \in [D -> has], \A a, b \in D : f[a] = f[b] => a = b,
         Range(IfIds(s)) \subseteq D, IfsFollow(f, s),
         NEW y \in D, y \notin Range(IfIds(s))
  PROVE  f[y] \in Range(free)
<1>1. f[y] \notin Above(s, 0)
  <2>1. SUFFICES ASSUME NEW j \in 0 + 1 .. Len(s), f[y] = s[j].current_match
                 PROVE  FALSE
    BY DEF Above
  <2>2. j \in DOMAIN s /\ DOMAIN IfIds(s) = 1..Len(s) /\ j \in 1..Len(s)
    BY <2>1, LenProperties DEF IfIds
  <2>3. s[j].if_id \in Range(IfIds(s))
    BY <2>2 DEF IfIds, Range
  <2>4. f[s[j].if_id] = f[y]
    BY <2>1, <2>2 DEF IfsFollow
  <2> QED  BY <2>3, <2>4
<1> QED  BY <1>1 DEF Kept

(***************************************************************************)
(* Where the matched interfaces follow g, the labels allow what g gives    *)
(* the next interface.                                                     *)
(***************************************************************************)
PortFollows(g, req, st, j, n) ==
  LET e == st[j]
      i == st[j].if_stack[n]
  IN  /\ e.m_id \in DOMAIN req /\ i.if_id \in DOMAIN req[e.m_id].interfaces
      /\ e.current_match = g.machines[e.m_id].target
      /\ i.current_match = g.machines[e.m_id].interfaces[i.if_id]

LEMMA LabelsAllow ==
  ASSUME NEW req, NEW ms, NEW k, NEW v, NEW g \in MatchesOf(req, ms, k, v), ~v,
         NEW st, NEW labels, LabelsGiven(st, labels, req, ms),
         \A j, n \in Nat : Port(st, j, n) => PortFollows(g, req, st, j, n),
         NEW x \in DOMAIN req, NEW a \in DOMAIN req[x].interfaces
  PROVE  _check_interface_compatibility(labels, req[x].interfaces[a],
           ms[g.machines[x].target].interfaces[g.machines[x].interfaces[a]])
<1>1. ASSUME NEW l \in DOMAIN labels
      PROVE  l = req[x].interfaces[a].network <=> labels[l].network = NetworkIn(g, ms, x, a)
  <2>1. PICK j \in Nat, n \in Nat : First(st, req, l, j, n)
    BY DEF LabelsGiven
  <2>2. Port(st, j, n) /\ LabelAt(st, req, j, n) = l
    BY <2>1 DEF First
  <2>3. labels[l].network = NetworkAt(st, ms, j, n)
    BY <2>2, ZenonT(30) DEF LabelsGiven
  <2> DEFINE y == st[j].m_id
             b == st[j].if_stack[n].if_id
  <2>4. /\ y \in DOMAIN req /\ b \in DOMAIN req[y].interfaces
        /\ st[j].current_match = g.machines[y].target
        /\ st[j].if_stack[n].current_match = g.machines[y].interfaces[b]
    BY <2>2 DEF PortFollows
  <2>5. l = req[y].interfaces[b].network
    BY <2>2 DEF LabelAt
  <2>6. labels[l].network = NetworkIn(g, ms, y, b)
    BY <2>3, <2>4, ZenonT(30) DEF NetworkAt, NetworkIn
  <2>7. req[y].interfaces[b].network = req[x].interfaces[a].network
          <=> NetworkIn(g, ms, y, b) = NetworkIn(g, ms, x, a)
    <3>1. \A p, q \in DOMAIN req :
            \A c \in DOMAIN req[p].interfaces, d \in DOMAIN req[q].interfaces :
              req[p].interfaces[c].network = req[q].interfaces[d].network
              <=> NetworkIn(g, ms, p, c) = NetworkIn(g, ms, q, d)
      BY MatchFacts, SMTT(60)
    <3>2. y \in DOMAIN req /\ b \in DOMAIN req[y].interfaces
      BY <2>4
    <3>3. x \in DOMAIN req /\ a \in DOMAIN req[x].interfaces
      OBVIOUS
    <3> HIDE DEF y, b
    <3> QED  BY ONLY <3>1, <3>2, <3>3
  <2> QED  BY <2>5, <2>6, <2>7, Zenon
<1>2. _params_compatible(req[x].interfaces[a].params,
        ms[g.machines[x].target].interfaces[g.machines[x].interfaces[a]].params)
  BY MatchFacts, ZenonT(30) DEF MachineFacts
<1> QED  BY <1>1, <1>2, Zenon DEF _check_interface_compatibility, NetworkIn

LEMMA PortsFollow ==
  ASSUME NEW req, NEW g, NEW st \in Seq(MachineMatch), NEW m \in MachineMatch,
         NEW s \in Seq(IfMatch), NEW i \in IfMatch, m.if_stack = Append(s, i),
         i.current_match = None, m.current_match = g.machines[m.m_id].target,
         AllFollow(g, st), IfsFollow(g.machines[m.m_id].interfaces, s),
         NEW left, Split(left, MIds(Append(st, m)), DOMAIN req),
         \A k \in DOMAIN Append(st, m) :
           LET e == Append(st, m)[k]
           IN  Split(e.unmatched_ifs, IfIds(e.if_stack), DOMAIN req[e.m_id].interfaces)
  PROVE  \A j, n \in Nat :
           Port(Append(st, m), j, n) => PortFollows(g, req, Append(st, m), j, n)
<1> DEFINE t == Append(st, m)
<1>1. /\ DOMAIN t = 1 .. Len(st) + 1 /\ Len(st) \in Nat /\ DOMAIN st = 1..Len(st)
      /\ \A n \in 1..Len(st) : t[n] = st[n]
      /\ t[Len(st) + 1] = m
      /\ t \in Seq(MachineMatch) /\ Len(t) = Len(st) + 1
  BY AppendedParts, AppendProperties
<1>2. /\ DOMAIN m.if_stack = 1 .. Len(s) + 1 /\ Len(s) \in Nat /\ DOMAIN s = 1..Len(s)
      /\ \A n \in 1..Len(s) : m.if_stack[n] = s[n]
      /\ m.if_stack[Len(s) + 1] = i
  BY AppendedParts
<1> HIDE DEF t
<1>3. SUFFICES ASSUME NEW j \in Nat, NEW n \in Nat, Port(t, j, n)
               PROVE  PortFollows(g, req, t, j, n)
  BY DEF t
<1>4. /\ j \in 1 .. Len(st) + 1 /\ n \in DOMAIN t[j].if_stack
      /\ t[j].if_stack[n].current_match # None
  BY <1>1, <1>3 DEF Port
<1>5. t[j].m_id \in DOMAIN req
  <2>1. Range(MIds(t)) \subseteq DOMAIN req
    BY DEF Split, t
  <2>2. DOMAIN MIds(t) = 1 .. Len(st) + 1 /\ MIds(t)[j] = t[j].m_id
    BY <1>1, <1>4 DEF MIds
  <2> QED  BY <2>1, <2>2, <1>4 DEF Range
<1>6. t[j].if_stack[n].if_id \in DOMAIN req[t[j].m_id].interfaces
  <2>1. Range(IfIds(t[j].if_stack)) \subseteq DOMAIN req[t[j].m_id].interfaces
    BY <1>1, <1>4, Zenon DEF Split, t
  <2>2. t[j].if_stack \in Seq(IfMatch)
    <3>1. t[j] \in MachineMatch
      BY <1>1, <1>4, ElementOfSeq
    <3> QED  BY <3>1 DEF MachineMatch
  <2>3. /\ n \in DOMAIN IfIds(t[j].if_stack)
        /\ IfIds(t[j].if_stack)[n] = t[j].if_stack[n].if_id
    BY <2>2, <1>4, LenProperties, ZenonT(30) DEF IfIds
  <2> QED  BY <2>1, <2>3 DEF Range
<1>7. /\ t[j].current_match = g.machines[t[j].m_id].target
      /\ t[j].if_stack[n].current_match =
           g.machines[t[j].m_id].interfaces[t[j].if_stack[n].if_id]
  <2>1. CASE j \in 1..Len(st)
    BY <2>1, <1>1, <1>4, SMTT(30) DEF AllFollow, Follows, IfsFollow
  <2>2. CASE j = Len(st) + 1
    <3>1. t[j] = m
      BY <2>2, <1>1
    <3>2. n \in 1..Len(s)
      BY <3>1, <1>2, <1>4
    <3>3. m.if_stack[n].current_match = g.machines[m.m_id].interfaces[m.if_stack[n].if_id]
      BY <3>2, <1>2 DEF IfsFollow
    <3> QED  BY <3>1, <3>3, Zenon
  <2>3. j \in 1..Len(st) \/ j = Len(st) + 1
    BY ONLY <1>1, <1>4
  <2> QED  BY <2>1, <2>2, <2>3, Zenon
<1> QED  BY <1>5, <1>6, <1>7 DEF PortFollows

(* What take a candidate away, and what remains *)
LEMMA CandidateTaken ==
  ASSUME NEW s \in Seq(Nat), NEW k \in DOMAIN s
  PROVE  /\ Range(SubSeq(s, 1, k - 1)) \subseteq Range(s) /\ s[k] \in Range(s)
         /\ \A e \in Range(s) : \A good :
              IsLast(k, good) /\ (\A x \in DOMAIN s : s[x] = e => x \in good)
                => e = s[k] \/ e \in Range(SubSeq(s, 1, k - 1))
<1>1. DOMAIN s = 1..Len(s) /\ Len(s) \in Nat
  BY LenProperties
<1>2. /\ DOMAIN SubSeq(s, 1, k - 1) = 1 .. k - 1
      /\ \A x \in 1 .. k - 1 : SubSeq(s, 1, k - 1)[x] = s[x] /\ x \in DOMAIN s
  BY <1>1
<1>3. ASSUME NEW e \in Range(s), NEW good, IsLast(k, good),
             \A x \in DOMAIN s : s[x] = e => x \in good
      PROVE  e = s[k] \/ e \in Range(SubSeq(s, 1, k - 1))
  <2>1. PICK x \in DOMAIN s : s[x] = e
    BY DEF Range
  <2>2. x <= k
    BY <2>1, <1>3 DEF IsLast
  <2>3. x = k \/ x \in 1 .. k - 1
    BY <2>2, <1>1
  <2> QED  BY <2>1, <2>3, <1>2, Zenon DEF Range
<1> HIDE DEF IsLast
<1> QED  BY <1>2, <1>3, Zenon DEF Range

-----------------------------------------------------------------------------
(***************************************************************************)
(* What every step leaves ahead of the search                              *)
(***************************************************************************)
MatchesNow(k, v) == MatchesOf(call.mreqs, PoolNamed(k), k, v)
Searched == MatchesNow(pool_name, virtual_matching)

\* In a pass with virtual machines, a machine below the top was matched.
VirtMatched ==
  virtual_matching =>
    /\ \A k \in DOMAIN machine_stack :
         k < Len(machine_stack) \/ pc \in {"push_machine", "yield"} =>
           machine_stack[k].virt_matched
    /\ pc = "next_machine" => ~Top.virt_matched

LEMMA SearchedIn ==
  ASSUME NEW g \in Searched
  PROVE  g \in MatchesOf(call.mreqs, pool, pool_name, virtual_matching)
BY DEF Searched, MatchesNow, pool

LEMMA RequiredOnStack ==
  ASSUME MInv
  PROVE  /\ Range(MIds(machine_stack)) \subseteq DOMAIN call.mreqs
         /\ \A k \in DOMAIN machine_stack :
              /\ machine_stack[k].m_id \in DOMAIN call.mreqs
              /\ IfsKept(machine_stack[k], call.mreqs, pool, virtual_matching)
         /\ \A x \in Range(unmatched_req_machines) :
              x \in DOMAIN call.mreqs /\ x \notin Range(MIds(machine_stack))
         /\ Kept(unmatched_pool_machines, machine_stack, Listed(pool, virtual_matching))
         /\ machine_stack \in Seq(MachineMatch) /\ DOMAIN machine_stack = 1..Len(machine_stack)
<1>1. /\ machine_stack \in Seq(MachineMatch)
      /\ Holding(machine_stack, unmatched_pool_machines, unmatched_req_machines,
                 net_label_mapping)
  BY HeldNow
<1>2. /\ Split(unmatched_req_machines, MIds(machine_stack), DOMAIN call.mreqs)
      /\ Kept(unmatched_pool_machines, machine_stack, Listed(pool, virtual_matching))
      /\ \A k \in DOMAIN machine_stack :
           IfsKept(machine_stack[k], call.mreqs, pool, virtual_matching)
  BY <1>1 DEF Holding, Consistent
<1>3. /\ Range(MIds(machine_stack)) \subseteq DOMAIN call.mreqs
      /\ \A x \in Range(unmatched_req_machines) :
              x \in DOMAIN call.mreqs /\ x \notin Range(MIds(machine_stack))
  BY <1>2 DEF Split
<1>4. DOMAIN machine_stack = 1..Len(machine_stack)
  BY <1>1, LenProperties
<1>5. \A k \in DOMAIN machine_stack : machine_stack[k].m_id \in Range(MIds(machine_stack))
  BY <1>4 DEF MIds, Range
<1> QED  BY <1>1, <1>2, <1>3, <1>4, <1>5

LEMMA LastInRange ==
  ASSUME NEW S, NEW s \in Seq(S), s # <<>>
  PROVE  Last(s) \in Range(s)
<1>1. /\ Last(s) = s[Len(s)] /\ Len(s) \in Nat \ {0} /\ DOMAIN s = 1..Len(s)
  BY LastFront, LenProperties, Zenon
<1>2. Len(s) \in DOMAIN s
  BY <1>1
<1> QED  BY <1>1, <1>2 DEF Range

LEMMA AppendedTyped ==
  ASSUME NEW S, NEW s \in Seq(S), NEW e, Append(s, e) \in Seq(S)
  PROVE  e \in S /\ Last(Append(s, e)) = e
<1>1. /\ Len(Append(s, e)) = Len(s) + 1 /\ Len(s) \in Nat
      /\ Append(s, e)[Len(s) + 1] = e
  BY AppendProperties, LenProperties
<1>2. Len(s) + 1 \in 1..Len(Append(s, e))
  BY <1>1
<1>3. Append(s, e)[Len(s) + 1] \in S
  BY ONLY <1>2, Append(s, e) \in Seq(S), ElementOfSeq
<1> QED  BY <1>1, <1>3 DEF Last

LEMMA PushMachineOn ==
  ASSUME MInv, _push_machine_stack
  PROVE  /\ \A g : Ahead(g)' => Ahead(g)
         /\ \A g \in Searched : Ahead(g) => Ahead(g)'
<1>1. machine_stack \in Seq(MachineMatch) /\ MInv'
  BY HeldNow, PushMachineKeeps
<1>2. machine_stack' \in Seq(MachineMatch) /\ unmatched_req_machines # <<>>
  BY <1>1, HeldNow DEF _push_machine_stack, OnStack, MInv, TypeOK
<1> DEFINE x == Last(unmatched_req_machines)
<1>3. PICK ifs : machine_stack' = Append(machine_stack,
             [m_id |-> x, current_match |-> None,
              remaining_matches |-> unmatched_pool_machines,
              if_stack |-> <<>>, unmatched_ifs |-> ifs,
              unmatched_pool_ifs |-> <<>>, virt_matched |-> FALSE])
  BY Zenon DEF _push_machine_stack
<1> DEFINE e == [m_id |-> x, current_match |-> None,
              remaining_matches |-> unmatched_pool_machines,
              if_stack |-> <<>>, unmatched_ifs |-> ifs,
              unmatched_pool_ifs |-> <<>>, virt_matched |-> FALSE]
<1>4. /\ machine_stack' = Append(machine_stack, e)
      /\ e.m_id = x /\ e.current_match = None /\ e.if_stack = <<>>
      /\ e.remaining_matches = unmatched_pool_machines
  BY <1>3
<1> HIDE DEF e
<1>5. e \in MachineMatch /\ Last(machine_stack') = e
  BY <1>1, <1>2, <1>4, AppendedTyped
<1>6. Open /\ ~Open'
  BY <1>4, <1>5 DEF Open, Top, _push_machine_stack
<1>7. \A g : AheadIn(g, e) <=> g.machines[x].target \in Range(unmatched_pool_machines)
  BY <1>4, NoneOnEmptyStacks DEF AheadIn
<1>8. \A g : /\ Ahead(g) <=> AheadOn(g, machine_stack) \/ AllFollow(g, machine_stack)
             /\ Ahead(g)' <=> AheadTop(g, machine_stack, e, FALSE)
  <2> TAKE g
  <2>1. Ahead(g)' <=> AheadTop(g, machine_stack, e, Open')
    BY <1>1, <1>4, <1>5, AheadThen
  <2> QED  BY <2>1, <1>6 DEF Ahead, AheadTop
<1>9. ASSUME NEW g \in Searched, AllFollow(g, machine_stack)
      PROVE  g.machines[x].target \in Range(unmatched_pool_machines)
  <2>1. x \in Range(unmatched_req_machines)
    <3>1. unmatched_req_machines \in Seq(Nat)
      BY HeldNow
    <3> QED  BY <3>1, <1>2, LastInRange
  <2> HIDE DEF x
  <2> QED  BY <2>1, <1>9, SearchedIn, RequiredOnStack, FreeTarget
<1> HIDE DEF x
<1> QED  BY <1>7, <1>8, <1>9 DEF AheadTop

LEMMA PushIfOn ==
  ASSUME MInv, _push_if_stack, pc' # "raised"
  PROVE  /\ \A g : Ahead(g)' => Ahead(g)
         /\ \A g \in Searched : Ahead(g) => Ahead(g)'
<1>1. /\ machine_stack \in Seq(MachineMatch) /\ machine_stack # <<>>
      /\ pc = "push_if" /\ ~virtual_matching /\ Finished
  BY HeldNow DEF _push_if_stack, OnStack
<1> DEFINE y == Last(Top.unmatched_ifs)
           i == [if_id |-> y, current_match |-> None,
                 remaining_matches |-> Top.unmatched_pool_ifs]
           m == [Top EXCEPT !.unmatched_ifs = Front(@), !.if_stack = Append(@, i)]
           st == Front(machine_stack)
<1>2. /\ Top.unmatched_ifs # <<>> /\ machine_stack' = Append(st, m) /\ pc' = "match"
      /\ virtual_matching' = virtual_matching
  BY DEF _push_if_stack, SetTop, passVars
<1>3. /\ Top \in MachineMatch /\ Top.if_stack \in Seq(IfMatch) /\ st \in Seq(MachineMatch)
      /\ Top.unmatched_ifs \in Seq(Nat) /\ Top.unmatched_pool_ifs \in Seq(Nat)
      /\ Top = machine_stack[Len(machine_stack)] /\ Len(machine_stack) \in DOMAIN machine_stack
  BY <1>1, LastFront, TopTyped, Zenon DEF Top, MachineMatch
<1>4. /\ y \in Nat /\ y \in Range(Top.unmatched_ifs) /\ Front(Top.unmatched_ifs) \in Seq(Nat)
  BY <1>2, <1>3, LastFront, LastInRange, Zenon
<1>5. i \in IfMatch /\ i.if_id = y /\ i.current_match = None
      /\ i.remaining_matches = Top.unmatched_pool_ifs
  BY <1>3, <1>4 DEF IfMatch
<1> HIDE DEF i, y
<1>6. /\ m \in MachineMatch /\ m.m_id = Top.m_id /\ m.current_match = Top.current_match
      /\ m.remaining_matches = Top.remaining_matches
      /\ m.if_stack = Append(Top.if_stack, i)
  <2>1. Append(Top.if_stack, i) \in Seq(IfMatch)
    BY <1>3, <1>5, Appended
  <2> QED  BY <2>1, <1>3, <1>4, Zenon DEF MachineMatch
<1> HIDE DEF m, st
<1>7. Open /\ ~Open'
  BY <1>1, <1>2 DEF Open
<1>8. ASSUME NEW g
      PROVE  /\ Ahead(g) <=> AheadTop(g, st, Top, TRUE)
             /\ Ahead(g)' <=> AheadTop(g, st, m, FALSE)
  <2>1. Ahead(g) <=> AheadTop(g, st, Top, Open)
    BY <1>1, AheadNow DEF st
  <2>2. Ahead(g)' <=> AheadTop(g, st, m, Open')
    BY <1>2, <1>3, <1>6, AheadThen, Zenon
  <2> QED  BY <2>1, <2>2, <1>7 DEF AheadTop
<1> DEFINE f(g) == g.machines[Top.m_id].interfaces
           to(g) == Top.current_match = g.machines[Top.m_id].target
           left(g) == g.machines[Top.m_id].target \in Range(Top.remaining_matches)
           next(g) == f(g)[y] \in Range(Top.unmatched_pool_ifs)
<1>9. ASSUME NEW g
      PROVE  /\ Follows(g, Top) <=> to(g) /\ IfsFollow(f(g), Top.if_stack)
             /\ AheadIn(g, Top) <=> left(g) \/ (to(g) /\ IfsAhead(f(g), Top.if_stack))
             /\ AheadIn(g, m) <=>
                  \/ left(g)
                  \/ /\ to(g)
                     /\ \/ IfsAhead(f(g), Top.if_stack)
                        \/ IfsFollow(f(g), Top.if_stack) /\ next(g)
  <2>1. IfsAhead(f(g), Append(Top.if_stack, i)) <=>
          IfsAhead(f(g), Top.if_stack) \/ (IfsFollow(f(g), Top.if_stack) /\ next(g))
    BY <1>3, <1>5, IfsAheadAppended
  <2> QED  BY <2>1, <1>6 DEF Follows, AheadIn
<1>10. ASSUME NEW g \in Searched, Follows(g, Top)
       PROVE  next(g)
  <2>1. IfsKept(Top, call.mreqs, pool, virtual_matching) /\ Top.m_id \in DOMAIN call.mreqs
    BY <1>3, RequiredOnStack
  <2>2. Top.current_match # None
    BY <1>1, <1>3, ZenonT(30) DEF Finished
  <2> DEFINE D == DOMAIN call.mreqs[Top.m_id].interfaces
             has == DOMAIN pool[Top.current_match].interfaces
  <2>3. /\ Split(Top.unmatched_ifs, IfIds(Top.if_stack), D)
        /\ Kept(Top.unmatched_pool_ifs, Top.if_stack, has)
    BY <2>1, <2>2 DEF IfsKept
  <2>4. Range(IfIds(Top.if_stack)) \subseteq D /\ y \in D /\ y \notin Range(IfIds(Top.if_stack))
    BY <2>3, <1>4 DEF Split, y
  <2>5. MachineFacts(g, call.mreqs, pool, virtual_matching, Top.m_id)
    BY <2>1, SearchedIn, MatchFacts
  <2>6. to(g) /\ IfsFollow(f(g), Top.if_stack)
    BY <1>9, <1>10
  <2>7. /\ f(g) \in [D -> has] /\ \A a, b \in D : f(g)[a] = f(g)[b] => a = b
    BY <2>5, <2>6, <1>1, ZenonT(30) DEF MachineFacts
  <2> DEFINE h == f(g)
  <2>8. /\ h \in [D -> has] /\ \A a, b \in D : h[a] = h[b] => a = b
        /\ IfsFollow(h, Top.if_stack)
    BY <2>6, <2>7
  <2> HIDE DEF D, has, h
  <2>9. h[y] \in Range(Top.unmatched_pool_ifs)
    BY ONLY <2>3, <2>4, <2>8, <1>3, FreeInterface, Zenon
  <2> QED  BY <2>9 DEF h
<1> HIDE DEF f, to, left, next
<1> QED  BY <1>8, <1>9, <1>10 DEF AheadTop

LEMMA IfMatchFailsOn ==
  ASSUME MInv, _if_match_fails
  PROVE  \A g : Ahead(g)' <=> Ahead(g)
<1>1. /\ ~Open /\ ~Open' /\ machine_stack' = machine_stack
  BY DEF Open, _if_match_fails
<1> QED  BY <1>1 DEF Ahead

LEMMA VirtualMatchOn ==
  ASSUME MInv, virtual_match
  PROVE  \A g : Ahead(g)' <=> Ahead(g)
<1>1. /\ machine_stack \in Seq(MachineMatch) /\ machine_stack # <<>>
      /\ pc = "match" /\ virtual_matching /\ virtual_matching' = virtual_matching
  BY HeldNow DEF virtual_match, passVars
<1>2. /\ Top \in MachineMatch /\ Front(machine_stack) \in Seq(MachineMatch)
      /\ Top = machine_stack[Len(machine_stack)] /\ Len(machine_stack) \in DOMAIN machine_stack
  BY <1>1, LastFront, TopTyped, ZenonT(30) DEF Top
<1>3. Top.if_stack = <<>>
  <2>1. IfsKept(Top, call.mreqs, pool, virtual_matching)
    BY <1>2, RequiredOnStack
  <2> QED  BY <2>1, <1>1 DEF IfsKept
<1>4. ASSUME NEW m \in MachineMatch, machine_stack' = Append(Front(machine_stack), m),
             m.m_id = Top.m_id, m.remaining_matches = Top.remaining_matches,
             m.if_stack = <<>>, NEW g
      PROVE  /\ Ahead(g) <=> AheadTop(g, Front(machine_stack), Top, Open)
             /\ Ahead(g)' <=> AheadTop(g, Front(machine_stack), m, Open')
             /\ AheadIn(g, Top) <=> AheadIn(g, m)
             /\ m.current_match = Top.current_match => (Follows(g, Top) <=> Follows(g, m))
  <2>1. AheadIn(g, Top) <=> AheadIn(g, m)
    BY <1>3, <1>4, NoneOnEmptyStacks DEF AheadIn
  <2>2. m.current_match = Top.current_match => (Follows(g, Top) <=> Follows(g, m))
    BY <1>3, <1>4 DEF Follows
  <2> QED  BY <2>1, <2>2, <1>1, <1>2, <1>4, AheadNow, AheadThen, Zenon
<1>5. ASSUME ~Top.virt_matched, Top.current_match # None,
             SetTop([Top EXCEPT !.virt_matched = TRUE]), pc' = AfterMatch, NEW g
      PROVE  Ahead(g)' <=> Ahead(g)
  <2> DEFINE m == [Top EXCEPT !.virt_matched = TRUE]
  <2>1. /\ m \in MachineMatch /\ m.m_id = Top.m_id /\ m.if_stack = <<>>
        /\ m.remaining_matches = Top.remaining_matches
        /\ m.current_match = Top.current_match
    BY <1>2, <1>3, Zenon DEF MachineMatch
  <2>2. machine_stack' = Append(Front(machine_stack), m)
    BY <1>5 DEF SetTop
  <2> HIDE DEF m
  <2>3. Open /\ Open'
    BY <1>1, <1>5 DEF Open, AfterMatch
  <2> QED  BY <2>1, <2>2, <2>3, <1>4 DEF AheadTop
<1>6. ASSUME Top.virt_matched \/ Top.current_match = None, pc' = "next_machine",
             SetTop([Top EXCEPT !.virt_matched = FALSE, !.current_match = None]), NEW g
      PROVE  Ahead(g)' <=> Ahead(g)
  <2> DEFINE m == [Top EXCEPT !.virt_matched = FALSE, !.current_match = None]
  <2>1. /\ m \in MachineMatch /\ m.m_id = Top.m_id /\ m.if_stack = <<>>
        /\ m.remaining_matches = Top.remaining_matches
    BY <1>2, <1>3, Zenon DEF MachineMatch
  <2>2. machine_stack' = Append(Front(machine_stack), m)
    BY <1>6 DEF SetTop
  <2> HIDE DEF m
  <2>3. ~Open /\ ~Open'
    BY <1>1, <1>6 DEF Open
  <2> QED  BY <2>1, <2>2, <2>3, <1>4 DEF AheadTop
<1> QED  BY <1>5, <1>6 DEF virtual_match

(***************************************************************************)
(* The interface on top: what it may still take, and what it takes.        *)
(***************************************************************************)
LEMMA TopInterface ==
  ASSUME MInv, pc = "match", machine_stack # <<>>, ~virtual_matching,
         Top.if_stack # <<>>, NEW i, i = Last(Top.if_stack), NEW g
  PROVE  /\ ~Open /\ i \in IfMatch /\ Front(Top.if_stack) \in Seq(IfMatch)
         /\ Front(machine_stack) \in Seq(MachineMatch) /\ Top \in MachineMatch
         /\ Top.if_stack = Append(Front(Top.if_stack), i)
         /\ Ahead(g) <=> AheadTop(g, Front(machine_stack), Top, FALSE)
         /\ AheadIn(g, Top) <=>
              \/ g.machines[Top.m_id].target \in Range(Top.remaining_matches)
              \/ /\ Top.current_match = g.machines[Top.m_id].target
                 /\ \/ IfsAhead(g.machines[Top.m_id].interfaces, Front(Top.if_stack))
                    \/ /\ IfsFollow(g.machines[Top.m_id].interfaces, Front(Top.if_stack))
                       /\ g.machines[Top.m_id].interfaces[i.if_id]
                            \in Range(i.remaining_matches)
<1>1. /\ machine_stack \in Seq(MachineMatch) /\ ~Open
  BY HeldNow DEF Open
<1>2. /\ Top \in MachineMatch /\ Front(machine_stack) \in Seq(MachineMatch)
      /\ Top.if_stack \in Seq(IfMatch)
  <2>1. Top \in MachineMatch /\ Front(machine_stack) \in Seq(MachineMatch)
    BY <1>1, LastFront DEF Top
  <2> QED  BY <2>1 DEF MachineMatch
<1>3. /\ i \in IfMatch /\ Front(Top.if_stack) \in Seq(IfMatch)
      /\ Top.if_stack = Append(Front(Top.if_stack), i)
  BY <1>2, LastFront, FrontThenLast
<1>4. Ahead(g) <=> AheadTop(g, Front(machine_stack), Top, FALSE)
  BY <1>1, AheadNow DEF AheadTop
<1> DEFINE s == Front(Top.if_stack)
           f == g.machines[Top.m_id].interfaces
<1>5. IfsAhead(f, Top.if_stack) <=>
        IfsAhead(f, s) \/ (IfsFollow(f, s) /\ f[i.if_id] \in Range(i.remaining_matches))
  <2>1. s \in Seq(IfMatch) /\ Top.if_stack = Append(s, i)
    BY <1>3
  <2> HIDE DEF s, f
  <2>2. IfsAhead(f, Append(s, i)) <=>
          IfsAhead(f, s) \/ (IfsFollow(f, s) /\ f[i.if_id] \in Range(i.remaining_matches))
    BY ONLY <2>1, <1>3, IfsAheadAppended
  <2> QED  BY <2>1, <2>2
<1> QED  BY <1>1, <1>2, <1>3, <1>4, <1>5, Zenon DEF AheadIn

LEMMA TopInterfaceFits ==
  ASSUME MInv, pc = "match", machine_stack # <<>>, ~virtual_matching,
         Top.if_stack # <<>>, NEW i, i = Last(Top.if_stack),
         NEW req_if, req_if = call.mreqs[Top.m_id].interfaces[i.if_id],
         NEW labels, labels = LabelsWithout(Top, i, req_if.network),
         NEW g \in Searched, AllFollow(g, Front(machine_stack)),
         Top.current_match = g.machines[Top.m_id].target,
         IfsFollow(g.machines[Top.m_id].interfaces, Front(Top.if_stack))
  PROVE  _check_interface_compatibility(labels, req_if,
           pool[Top.current_match].interfaces[g.machines[Top.m_id].interfaces[i.if_id]])
<1> DEFINE m == GivenUp(Top)
           st == Front(machine_stack)
           s == Front(Top.if_stack)
           req == call.mreqs
<1>1. /\ OneInterface(Append(st, m), unmatched_pool_machines, unmatched_req_machines,
                      labels, req, pool, virtual_matching)
      /\ Last(Append(st, m)) = m
      /\ Top \in MachineMatch /\ Top.if_stack \in Seq(IfMatch) /\ i \in IfMatch
  BY TopInterfaceReleased, Zenon
<1>2. /\ st \in Seq(MachineMatch) /\ s \in Seq(IfMatch)
  BY TopInterface, Zenon
<1>3. Emptied(i) \in IfMatch /\ Emptied(i).current_match = None
      /\ Emptied(i).if_id = i.if_id
  BY <1>1, Zenon DEF Emptied, IfMatch
<1>4. /\ m.m_id = Top.m_id /\ m.current_match = Top.current_match
      /\ m.if_stack = Append(s, Emptied(i))
  BY <1>1, Zenon DEF GivenUp, MachineMatch
<1>5. /\ m \in MachineMatch /\ Append(st, m) \in Seq(MachineMatch)
      /\ LabelsGiven(Append(st, m), labels, req, pool)
      /\ Split(unmatched_req_machines, MIds(Append(st, m)), DOMAIN req)
      /\ \A k \in DOMAIN Append(st, m) : IfsKept(Append(st, m)[k], req, pool, virtual_matching)
  BY <1>1, OnTop, Zenon DEF OneInterface, InterfacesOnTop, Consistent
<1>6. \A k \in DOMAIN Append(st, m) :
        LET e == Append(st, m)[k]
        IN  Split(e.unmatched_ifs, IfIds(e.if_stack), DOMAIN req[e.m_id].interfaces)
  BY <1>5, ZenonT(30) DEF IfsKept
<1> HIDE DEF m, st, s, req
<1>7. /\ m.current_match = g.machines[m.m_id].target
      /\ IfsFollow(g.machines[m.m_id].interfaces, s) /\ AllFollow(g, st)
  BY <1>4 DEF st, s
<1>8. \A j, n \in Nat :
        Port(Append(st, m), j, n) => PortFollows(g, req, Append(st, m), j, n)
  <2> DEFINE i1 == Emptied(i)
  <2>1. i1 \in IfMatch /\ i1.current_match = None /\ m.if_stack = Append(s, i1)
    BY <1>3, <1>4, ZenonT(30)
  <2> HIDE DEF i1
  <2> QED  BY ONLY <2>1, <1>2, <1>5, <1>6, <1>7, PortsFollow, Zenon
<1>9. Top.m_id \in DOMAIN req /\ i.if_id \in DOMAIN req[Top.m_id].interfaces
  <2>1. /\ Len(machine_stack) \in DOMAIN machine_stack
        /\ Top = machine_stack[Len(machine_stack)]
    BY RequiredOnStack, TopTyped, Zenon DEF Top
  <2>2. Top.m_id \in DOMAIN req /\ IfsKept(Top, req, pool, virtual_matching)
    BY <2>1, RequiredOnStack, Zenon DEF req
  <2>3. Range(IfIds(Top.if_stack)) \subseteq DOMAIN req[Top.m_id].interfaces
    BY <2>2, Zenon DEF IfsKept, Split
  <2>4. /\ Len(Top.if_stack) \in DOMAIN IfIds(Top.if_stack)
        /\ IfIds(Top.if_stack)[Len(Top.if_stack)] = i.if_id
    <3>1. Len(Top.if_stack) \in Nat \ {0} /\ i = Top.if_stack[Len(Top.if_stack)]
      BY <1>1, LastFront, Zenon
    <3>2. Len(Top.if_stack) \in 1..Len(Top.if_stack)
      BY <3>1, LastIndex, ZenonT(30)
    <3> QED  BY <3>1, <3>2, Zenon DEF IfIds
  <2> QED  BY <2>2, <2>3, <2>4 DEF Range
<1>10. g \in MatchesOf(req, pool, pool_name, virtual_matching)
  BY SearchedIn DEF req
<1>11. _check_interface_compatibility(labels, req[Top.m_id].interfaces[i.if_id],
         pool[g.machines[Top.m_id].target].interfaces[
           g.machines[Top.m_id].interfaces[i.if_id]])
  <2> DEFINE t == Append(st, m)
             x == Top.m_id
             a == i.if_id
  <2>1. /\ LabelsGiven(t, labels, req, pool)
        /\ \A j, n \in Nat : Port(t, j, n) => PortFollows(g, req, t, j, n)
        /\ x \in DOMAIN req /\ a \in DOMAIN req[x].interfaces /\ ~virtual_matching
    BY <1>5, <1>8, <1>9, ZenonT(30)
  <2> HIDE DEF t, x, a
  <2>2. _check_interface_compatibility(labels, req[x].interfaces[a],
          pool[g.machines[x].target].interfaces[g.machines[x].interfaces[a]])
    BY ONLY <2>1, <1>10, LabelsAllow
  <2> QED  BY <2>2, Zenon DEF x, a
<1> QED  BY <1>11, Zenon DEF req

LEMMA IfMatchOn ==
  ASSUME MInv, _if_match
  PROVE  /\ \A g : Ahead(g)' => Ahead(g)
         /\ \A g \in Searched : Ahead(g) => Ahead(g)'
<1> DEFINE i == Last(Top.if_stack)
           req_if == call.mreqs[Top.m_id].interfaces[i.if_id]
           pool_ifs == pool[Top.current_match].interfaces
           free == Release(Top.unmatched_pool_ifs, i)
           labels == LabelsWithout(Top, i, req_if.network)
           good == {k \in DOMAIN i.remaining_matches :
                      _check_interface_compatibility(labels, req_if,
                                                     pool_ifs[i.remaining_matches[k]])}
           st == Front(machine_stack)
           s == Front(Top.if_stack)
<1>1. /\ pc = "match" /\ machine_stack # <<>> /\ ~virtual_matching /\ Top.if_stack # <<>>
      /\ UNCHANGED <<callVars, passVars, found, poolVars, listVars>>
  BY Zenon DEF _if_match
<1>2. \/ \E k \in DOMAIN i.remaining_matches :
           /\ IsLast(k, good)
           /\ SetTop([Top EXCEPT
                !.if_stack = Append(Front(@), Take(i, k)),
                !.unmatched_pool_ifs = Without(free, i.remaining_matches[k])])
           /\ pc' = IF Top.unmatched_ifs # <<>> THEN "push_if" ELSE AfterMatch
      \/ /\ good = {}
         /\ SetTop([_pop_if_stack(Top) EXCEPT !.unmatched_pool_ifs = free])
         /\ pc' = "match"
  BY Zenon DEF _if_match
<1>3. MInv' /\ machine_stack' \in Seq(MachineMatch)
  BY IfMatchKeeps DEF MInv, TypeOK
<1> HIDE DEF good
<1> DEFINE f(g) == g.machines[Top.m_id].interfaces
           to(g) == Top.current_match = g.machines[Top.m_id].target
           left(g) == g.machines[Top.m_id].target \in Range(Top.remaining_matches)
           next(g) == f(g)[i.if_id] \in Range(i.remaining_matches)
<1>4. ASSUME NEW g
      PROVE  /\ i \in IfMatch /\ s \in Seq(IfMatch)
             /\ st \in Seq(MachineMatch) /\ Top \in MachineMatch
             /\ Ahead(g) <=> AheadTop(g, st, Top, FALSE)
             /\ AheadIn(g, Top) <=>
                  \/ left(g)
                  \/ to(g) /\ (IfsAhead(f(g), s) \/ (IfsFollow(f(g), s) /\ next(g)))
  BY <1>1, TopInterface, Zenon
<1>5. ASSUME NEW g \in Searched, AllFollow(g, st), to(g), IfsFollow(f(g), s), NEW e,
             e = f(g)[i.if_id]
      PROVE  \A k \in DOMAIN i.remaining_matches : i.remaining_matches[k] = e => k \in good
  <2>1. _check_interface_compatibility(labels, req_if, pool_ifs[f(g)[i.if_id]])
    BY <1>1, <1>5, TopInterfaceFits, Zenon
  <2> QED  BY <2>1, <1>5, Zenon DEF good
<1> HIDE DEF s, st, req_if, labels, pool_ifs, free
<1>6. ASSUME NEW k \in DOMAIN i.remaining_matches, IsLast(k, good),
             SetTop([Top EXCEPT
               !.if_stack = Append(Front(@), Take(i, k)),
               !.unmatched_pool_ifs = Without(free, i.remaining_matches[k])]),
             pc' = IF Top.unmatched_ifs # <<>> THEN "push_if" ELSE AfterMatch, NEW g
      PROVE  /\ Ahead(g)' => Ahead(g)
             /\ g \in Searched => (Ahead(g) => Ahead(g)')
  <2> DEFINE m == [Top EXCEPT
               !.if_stack = Append(Front(@), Take(i, k)),
               !.unmatched_pool_ifs = Without(free, i.remaining_matches[k])]
             rest == SubSeq(i.remaining_matches, 1, k - 1)
             took == i.remaining_matches[k]
  <2>1. machine_stack' = Append(st, m) /\ Open'
    BY <1>6 DEF SetTop, st, Open, AfterMatch
  <2>2. m \in MachineMatch
    <3> HIDE DEF m
    <3> QED  BY <2>1, <1>3, <1>4, AppendedTyped
  <2>3. /\ i.remaining_matches \in Seq(Nat)
        /\ Range(rest) \subseteq Range(i.remaining_matches)
        /\ took \in Range(i.remaining_matches)
        /\ \A e \in Range(i.remaining_matches) : \A good2 :
              IsLast(k, good2) /\ (\A x \in DOMAIN i.remaining_matches :
                                     i.remaining_matches[x] = e => x \in good2)
                => e = took \/ e \in Range(rest)
    <3>1. i.remaining_matches \in Seq(Nat)
      BY <1>4, Zenon DEF IfMatch
    <3> QED  BY <3>1, CandidateTaken
  <2>4. /\ Take(i, k).if_id = i.if_id /\ Take(i, k).current_match = took
        /\ Take(i, k).remaining_matches = rest
    BY <1>4, Zenon DEF IfMatch, Take
  <2>5. /\ m.m_id = Top.m_id /\ m.current_match = Top.current_match
        /\ m.remaining_matches = Top.remaining_matches
        /\ m.if_stack = Append(s, Take(i, k))
    BY <1>4 DEF MachineMatch, s
  <2> HIDE DEF m
  <2>6. Take(i, k) \in IfMatch
    <3>1. m.if_stack \in Seq(IfMatch)
      BY <2>2 DEF MachineMatch
    <3> QED  BY <3>1, <2>5, <1>4, AppendedTyped
  <2>7. /\ IfsAhead(f(g), m.if_stack) <=>
             IfsAhead(f(g), s) \/ (IfsFollow(f(g), s) /\ f(g)[i.if_id] \in Range(rest))
        /\ IfsFollow(f(g), m.if_stack) <=> IfsFollow(f(g), s) /\ took = f(g)[i.if_id]
    <3> DEFINE h == f(g)
               i2 == Take(i, k)
    <3>1. /\ i2 \in IfMatch /\ i2.if_id = i.if_id /\ i2.current_match = took
          /\ i2.remaining_matches = rest /\ m.if_stack = Append(s, i2) /\ s \in Seq(IfMatch)
      BY <2>4, <2>5, <2>6, <1>4, Zenon
    <3> HIDE DEF h, i2, rest, took
    <3>2. /\ IfsAhead(h, Append(s, i2)) <=>
               IfsAhead(h, s) \/ (IfsFollow(h, s) /\ h[i2.if_id] \in Range(i2.remaining_matches))
          /\ IfsFollow(h, Append(s, i2)) <=>
               IfsFollow(h, s) /\ i2.current_match = h[i2.if_id]
      BY ONLY <3>1, IfsAheadAppended, IfsFollowAppended
    <3> QED  BY <3>1, <3>2 DEF h
  <2>8. /\ AheadIn(g, m) <=>
             \/ left(g)
             \/ /\ to(g)
                /\ \/ IfsAhead(f(g), s)
                   \/ IfsFollow(f(g), s) /\ f(g)[i.if_id] \in Range(rest)
        /\ Follows(g, m) <=> to(g) /\ IfsFollow(f(g), s) /\ took = f(g)[i.if_id]
    BY <2>5, <2>7 DEF AheadIn, Follows
  <2>9. Ahead(g)' <=> AheadTop(g, st, m, TRUE)
    <3>1. Ahead(g)' <=> AheadTop(g, st, m, Open')
      BY <2>1, <2>2, <1>4, AheadThen, Zenon
    <3> QED  BY <3>1, <2>1 DEF AheadTop
  <2>10. ASSUME g \in Searched, AllFollow(g, st), to(g), IfsFollow(f(g), s), next(g)
         PROVE  took = f(g)[i.if_id] \/ f(g)[i.if_id] \in Range(rest)
    <3>1. \A x \in DOMAIN i.remaining_matches :
            i.remaining_matches[x] = f(g)[i.if_id] => x \in good
      BY <2>10, <1>5, Zenon
    <3> QED  BY <3>1, <2>3, <2>10, <1>6, Zenon
  <2>11. took = f(g)[i.if_id] \/ f(g)[i.if_id] \in Range(rest) => next(g)
    BY <2>3
  <2> HIDE DEF f, to, left, next, rest, took
  <2> QED  BY <2>8, <2>9, <2>10, <2>11, <1>4 DEF AheadTop
<1>7. ASSUME good = {}, SetTop([_pop_if_stack(Top) EXCEPT !.unmatched_pool_ifs = free]),
             pc' = "match", NEW g
      PROVE  /\ Ahead(g)' => Ahead(g)
             /\ g \in Searched => (Ahead(g) => Ahead(g)')
  <2> DEFINE m == [_pop_if_stack(Top) EXCEPT !.unmatched_pool_ifs = free]
  <2>1. machine_stack' = Append(st, m) /\ ~Open'
    BY <1>1, <1>7 DEF SetTop, st, Open, passVars
  <2>2. m \in MachineMatch
    <3> HIDE DEF m
    <3> QED  BY <2>1, <1>3, <1>4, AppendedTyped
  <2>3. /\ m.m_id = Top.m_id /\ m.current_match = Top.current_match
        /\ m.remaining_matches = Top.remaining_matches /\ m.if_stack = s
    BY <1>4 DEF MachineMatch, s, _pop_if_stack
  <2> HIDE DEF m
  <2>4. AheadIn(g, m) <=> left(g) \/ (to(g) /\ IfsAhead(f(g), s))
    BY <2>3 DEF AheadIn
  <2>5. Ahead(g)' <=> AheadTop(g, st, m, FALSE)
    <3>1. Ahead(g)' <=> AheadTop(g, st, m, Open')
      BY <2>1, <2>2, <1>4, AheadThen, Zenon
    <3> QED  BY <3>1, <2>1 DEF AheadTop
  <2>6. ASSUME g \in Searched, AllFollow(g, st), to(g), IfsFollow(f(g), s), next(g)
        PROVE  FALSE
    <3>1. \A x \in DOMAIN i.remaining_matches : i.remaining_matches[x] # f(g)[i.if_id]
      BY <2>6, <1>5, <1>7
    <3> QED  BY <3>1, <2>6, ZenonT(30) DEF Range
  <2> HIDE DEF f, to, left, next
  <2> QED  BY <2>4, <2>5, <2>6, <1>4 DEF AheadTop
<1> HIDE DEF i
<1> QED  BY <1>2, <1>6, <1>7, Zenon

LEMMA NextMachineOn ==
  ASSUME MInv, VirtMatched, next_machine
  PROVE  \/ /\ UNCHANGED poolVars /\ (machine_stack' # <<>> \/ pool_stack = 0)
            /\ \A g : Ahead(g)' => Ahead(g)
            /\ \A g \in Searched : Ahead(g) => Ahead(g)'
         \/ /\ machine_stack' = <<>> /\ pool_stack > 0
            /\ pool_name' = pool_stack /\ pool_stack' = pool_stack - 1
            /\ pc' = IF DOMAIN PoolNamed(pool_name') # {} THEN "push_machine" ELSE "match"
            /\ \A g \in Searched : ~Ahead(g)
<1> DEFINE good == {k \in DOMAIN Top.remaining_matches :
                      _check_machine_compatibility(Top.m_id, Top.remaining_matches[k])}
           free == Release(unmatched_pool_machines, Top)
           st == Front(machine_stack)
           to(g) == g.machines[Top.m_id].target
           left(g) == to(g) \in Range(Top.remaining_matches)
<1>1. /\ machine_stack \in Seq(MachineMatch) /\ machine_stack # <<>>
      /\ pc = "next_machine" /\ Top.if_stack = <<>>
      /\ virtual_matching' = virtual_matching
  BY HeldNow, Zenon DEF next_machine, OnStack, passVars
<1>2. /\ Top \in MachineMatch /\ st \in Seq(MachineMatch)
      /\ Top = machine_stack[Len(machine_stack)] /\ Len(machine_stack) \in DOMAIN machine_stack
  BY <1>1, LastFront, TopTyped DEF Top
<1>3. ASSUME NEW g
      PROVE  Ahead(g) <=> AheadOn(g, st) \/ (AllFollow(g, st) /\ left(g))
  <2>1. ~Open
    BY <1>1 DEF Open
  <2>2. AheadIn(g, Top) <=> left(g)
    BY <1>1, NoneOnEmptyStacks DEF AheadIn
  <2>3. Ahead(g) <=> AheadTop(g, st, Top, Open)
    BY <1>1, AheadNow
  <2> QED  BY <2>1, <2>2, <2>3 DEF AheadTop
<1>4. ASSUME NEW g \in Searched
      PROVE  \A k \in DOMAIN Top.remaining_matches :
               Top.remaining_matches[k] = to(g) => k \in good
  <2>1. Top.m_id \in DOMAIN call.mreqs
    BY <1>2, RequiredOnStack, Zenon
  <2>2. _params_compatible(call.mreqs[Top.m_id].params, pool[to(g)].params)
    BY <2>1, SearchedIn, MatchFacts, ZenonT(30) DEF MachineFacts
  <2>3. \A k \in DOMAIN Top.remaining_matches : Top.remaining_matches[k] = to(g) =>
          _check_machine_compatibility(Top.m_id, Top.remaining_matches[k])
    BY <2>2 DEF _check_machine_compatibility
  <2> QED  BY <2>3
<1>5. MInv' /\ machine_stack' \in Seq(MachineMatch)
  BY NextMachineKeeps DEF MInv, TypeOK
<1> HIDE DEF good, st, free
<1>6. ASSUME NEW k \in DOMAIN Top.remaining_matches, IsLast(k, good), NEW ifs,
             SetTop([Take(Top, k) EXCEPT !.if_stack = <<>>, !.unmatched_pool_ifs = ifs]),
             pc' = IF virtual_matching THEN "match" ELSE "push_if"
      PROVE  /\ machine_stack' # <<>>
             /\ \A g : Ahead(g)' => Ahead(g)
             /\ \A g \in Searched : Ahead(g) => Ahead(g)'
  <2> DEFINE m == [Take(Top, k) EXCEPT !.if_stack = <<>>, !.unmatched_pool_ifs = ifs]
             rest == SubSeq(Top.remaining_matches, 1, k - 1)
             took == Top.remaining_matches[k]
  <2>1. machine_stack' = Append(st, m)
    BY <1>6 DEF SetTop, st
  <2>2. m \in MachineMatch /\ Last(machine_stack') = m
    <3> HIDE DEF m
    <3> QED  BY <2>1, <1>2, <1>5, AppendedTyped
  <2>3. /\ Top.remaining_matches \in Seq(Nat)
        /\ Range(rest) \subseteq Range(Top.remaining_matches)
        /\ took \in Range(Top.remaining_matches)
        /\ \A e \in Range(Top.remaining_matches) : \A good2 :
              IsLast(k, good2) /\ (\A x \in DOMAIN Top.remaining_matches :
                                     Top.remaining_matches[x] = e => x \in good2)
                => e = took \/ e \in Range(rest)
    <3>1. Top.remaining_matches \in Seq(Nat)
      BY <1>2 DEF MachineMatch
    <3> QED  BY <3>1, CandidateTaken
  <2>4. took # None
    <3>1. took \in Nat
      BY <2>3, ElementOfSeq, LenProperties
    <3> QED  BY <3>1, NoneIsNoNumber
  <2>5. /\ m.m_id = Top.m_id /\ m.current_match = took /\ m.remaining_matches = rest
        /\ m.if_stack = <<>> /\ m.virt_matched = Top.virt_matched
    BY <1>2, Zenon DEF MachineMatch, Take
  <2> HIDE DEF m, took, rest
  <2>6. machine_stack' # <<>>
    BY <2>1, <2>2, <1>2, Appended
  <2>7. Open'
    BY <2>2, <2>4, <2>5, <2>6, <1>1, <1>6 DEF Open, Top, VirtMatched
  <2>8. ASSUME NEW g
        PROVE  Ahead(g)' <=>
                 AheadOn(g, st) \/ (AllFollow(g, st) /\ (to(g) \in Range(rest) \/ took = to(g)))
    <3>1. Ahead(g)' <=> AheadTop(g, st, m, Open')
      BY <2>1, <2>2, <1>2, AheadThen
    <3>2. /\ AheadIn(g, m) <=> to(g) \in Range(rest)
          /\ Follows(g, m) <=> took = to(g)
      BY <2>5, NoneOnEmptyStacks DEF AheadIn, Follows
    <3> QED  BY <3>1, <3>2, <2>7 DEF AheadTop
  <2>9. ASSUME NEW g PROVE to(g) \in Range(rest) \/ took = to(g) => left(g)
    BY <2>3
  <2>10. ASSUME NEW g \in Searched, left(g)
         PROVE  to(g) \in Range(rest) \/ took = to(g)
    BY <2>3, <2>10, <1>4, <1>6
  <2> HIDE DEF to, left
  <2> QED  BY <2>6, <2>8, <2>9, <2>10, <1>3
<1>7. ASSUME good = {}, NEW g \in Searched
      PROVE  ~left(g)
  BY <1>4, <1>7 DEF Range
<1>8. ASSUME good = {}, machine_stack' = st, pc' = "match"
      PROVE  /\ \A g : Ahead(g)' => Ahead(g)
             /\ \A g \in Searched : Ahead(g) => Ahead(g)'
  <2>1. ~Open'
    <3>1. ASSUME virtual_matching, st # <<>> PROVE Last(st).virt_matched
      <4>1. /\ Len(st) = Len(machine_stack) - 1 /\ Len(machine_stack) \in Nat
            /\ \A j \in 1 .. Len(machine_stack) - 1 : st[j] = machine_stack[j]
        BY <1>1, LastFront DEF st
      <4>2. Last(st) = st[Len(st)] /\ Len(st) \in Nat \ {0}
        BY <1>2, <3>1, LastFront, Zenon
      <4>3. /\ Len(st) \in 1 .. Len(machine_stack) - 1 /\ Len(st) < Len(machine_stack)
            /\ Len(st) \in 1..Len(machine_stack)
        BY <4>1, <4>2
      <4>4. Len(st) \in DOMAIN machine_stack
        BY <4>3, RequiredOnStack
      <4> QED  BY <4>1, <4>2, <4>3, <4>4, <3>1 DEF VirtMatched
    <3> QED  BY <3>1, <1>1, <1>8 DEF Open, Top
  <2>2. \A g : Ahead(g)' <=> AheadOn(g, st)
    BY <2>1, <1>8 DEF Ahead
  <2> HIDE DEF left
  <2> QED  BY <2>2, <1>3, <1>7, <1>8
<1>9. ASSUME good = {}, Len(machine_stack) = 1, machine_stack' = st
      PROVE  machine_stack' = <<>> /\ \A g \in Searched : ~Ahead(g)
  <2>1. st = <<>>
    <3>1. Len(st) = 0
      BY <1>1, <1>9, LastFront DEF st
    <3> QED  BY <3>1, <1>2, EmptySeq
  <2> HIDE DEF left
  <2> QED  BY <2>1, <1>3, <1>7, <1>9, NoneOnEmptyStacks
<1>10. ASSUME Len(machine_stack) > 1 \/ pool_stack = 0, machine_stack' = st
       PROVE  machine_stack' # <<>> \/ pool_stack = 0
  <2>1. ASSUME Len(machine_stack) > 1 PROVE st # <<>>
    <3>1. Len(st) = Len(machine_stack) - 1 /\ Len(machine_stack) \in Nat
      BY <1>1, LastFront DEF st
    <3>2. Len(st) # 0
      BY <3>1, <2>1
    <3> QED  BY <3>2, <1>2, EmptySeq
  <2> QED  BY <2>1, <1>10
<1> HIDE DEF to, left
<1>11. \/ \E k \in DOMAIN Top.remaining_matches :
            /\ IsLast(k, good)
            /\ \E ifs : SetTop([Take(Top, k) EXCEPT !.if_stack = <<>>,
                                                    !.unmatched_pool_ifs = ifs])
            /\ pc' = IF virtual_matching THEN "match" ELSE "push_if"
            /\ UNCHANGED poolVars
       \/ /\ good = {} /\ machine_stack' = st
          /\ \/ /\ Len(machine_stack) > 1 \/ pool_stack = 0
                /\ pc' = "match" /\ UNCHANGED poolVars
             \/ /\ Len(machine_stack) = 1 /\ pool_stack > 0
                /\ pool_name' = pool_stack /\ pool_stack' = pool_stack - 1
                /\ pc' = IF DOMAIN PoolNamed(pool_name') # {} THEN "push_machine" ELSE "match"
  BY Zenon DEF next_machine, good, st
<1> QED  BY <1>6, <1>8, <1>9, <1>10, <1>11, Zenon

(***************************************************************************)
(* At a yield, what is yielded is what the stack follows, and it is not    *)
(* ahead any more.                                                         *)
(***************************************************************************)
LEMMA YieldedFollows ==
  ASSUME MInv, pc = "yield"
  PROVE  AllFollow(get_mapping, machine_stack)
<1> DEFINE st == machine_stack
<1>1. /\ st \in Seq(MachineMatch) /\ IsInjective(MIds(st))
      /\ \A k \in 1..Len(st) : IfsKept(st[k], call.mreqs, pool, virtual_matching)
  BY FullWhenYielded DEF Full
<1>2. get_mapping.machines = Mapped(st)
  BY DEF get_mapping, Mapped, IfMapped
<1>3. SUFFICES ASSUME NEW k \in DOMAIN st
               PROVE  Follows(get_mapping, st[k])
  BY DEF AllFollow
<1>4. k \in 1..Len(st) /\ st[k] \in MachineMatch
  BY <1>1, LenProperties, ElementOfSeq
<1>5. /\ Mapped(st)[st[k].m_id].target = st[k].current_match
      /\ Mapped(st)[st[k].m_id].interfaces = IfMapped(st[k].if_stack)
  BY <1>1, <1>4, MachinesMapped, Zenon
<1>6. st[k].if_stack \in Seq(IfMatch) /\ IsInjective(IfIds(st[k].if_stack))
  BY <1>1, <1>4, Zenon DEF MachineMatch, IfsKept, Split
<1>7. IfsFollow(IfMapped(st[k].if_stack), st[k].if_stack)
  BY <1>6, InterfacesMapped, LenProperties DEF IfsFollow
<1> QED  BY <1>2, <1>5, <1>7 DEF Follows

LEMMA YieldedInSearch ==
  ASSUME MInv, pc = "yield"
  PROVE  get_mapping \in Searched
<1>1. get_mapping.pool_name = pool_name /\ get_mapping.virtual = virtual_matching
  BY DEF get_mapping
<1>2. get_mapping \in AllMatches(virtual_matching)
  BY YieldedIsSearched DEF YieldsMatches
<1>3. PICK k \in DOMAIN pools : get_mapping \in MatchesIn(k, virtual_matching)
  BY <1>2 DEF AllMatches
<1>4. get_mapping \in MatchesOf(call.mreqs, pools[k], k, virtual_matching)
  BY <1>3, MatchesAreConstant
<1>5. k = pool_name
  BY <1>1, <1>4, Destructed
<1>6. k # 0
  <2>1. pools \in Seq(Range(pools))
    BY MapperAssumption DEF MInv, TypeOK
  <2> QED  BY <2>1, <1>3, LenProperties
<1> QED  BY <1>4, <1>5, <1>6 DEF Searched, MatchesNow, PoolNamed

LEMMA FollowedIsYielded ==
  ASSUME MInv, pc = "yield", NEW g \in Searched, AllFollow(g, machine_stack)
  PROVE  g = get_mapping
<1> DEFINE st == machine_stack
           h == get_mapping
           req == call.mreqs
           v == virtual_matching
<1>1. Full(st, net_label_mapping, req, pool, v)
  BY FullWhenYielded
<1>2. /\ g \in MatchesOf(req, pool, pool_name, v)
      /\ h \in MatchesOf(req, pool, pool_name, v)
  BY YieldedInSearch, SearchedIn
<1>3. AllFollow(h, st) /\ AllFollow(g, st)
  BY YieldedFollows
<1> HIDE DEF h
<1>4. ASSUME NEW x \in DOMAIN req
      PROVE  /\ g.machines[x].target = h.machines[x].target
             /\ g.machines[x].interfaces = h.machines[x].interfaces
  <2>1. PICK k \in 1..Len(st) : x = st[k].m_id
    <3>1. x \in Range(MIds(st))
      BY <1>1 DEF Full
    <3> QED  BY <3>1 DEF Range, MIds
  <2>2. k \in DOMAIN st /\ st[k] \in MachineMatch
    BY <1>1, LenProperties, ElementOfSeq DEF Full
  <2> DEFINE s == st[k].if_stack
             F == g.machines[x].interfaces
             H == h.machines[x].interfaces
             D == DOMAIN req[x].interfaces
  <2>3. /\ g.machines[x].target = st[k].current_match
        /\ h.machines[x].target = st[k].current_match
        /\ IfsFollow(F, s) /\ IfsFollow(H, s)
    BY <2>1, <2>2, <1>3 DEF AllFollow, Follows
  <2>4. MachineFacts(g, req, pool, v, x) /\ MachineFacts(h, req, pool, v, x)
    BY <1>2, MatchFacts, ZenonT(30)
  <2>5. CASE v
    BY <2>3, <2>4, <2>5 DEF MachineFacts
  <2>6. CASE ~v
    <3>1. DOMAIN F = D /\ DOMAIN H = D /\ F = [y \in DOMAIN F |-> F[y]]
          /\ H = [y \in DOMAIN H |-> H[y]]
      BY <2>4, <2>6, Zenon DEF MachineFacts
    <3>2. Range(IfIds(s)) = D
      <4>1. st[k].unmatched_ifs = <<>> /\ IfsKept(st[k], req, pool, v)
        BY <1>1, <2>6 DEF Full
      <4>2. Split(<<>>, IfIds(s), D)
        BY <4>1, <2>1, Zenon DEF IfsKept
      <4>3. Range(<<>>) = {}
        BY Zenon, SMTT(30) DEF Range
      <4> QED  BY <4>2, <4>3, Zenon DEF Split
    <3>3. ASSUME NEW y \in D PROVE F[y] = H[y]
      <4>1. PICK n \in 1..Len(s) : y = s[n].if_id
        BY <3>2, Zenon DEF Range, IfIds
      <4>2. n \in DOMAIN s
        BY <2>2, <4>1, LenProperties DEF MachineMatch
      <4> QED  BY <4>1, <4>2, <2>3, Zenon DEF IfsFollow
    <3> HIDE DEF F, H, D
    <3>4. F = H
      BY <3>1, <3>3
    <3> QED  BY <3>4, <2>3 DEF F, H
  <2> QED  BY <2>5, <2>6
<1> QED  BY <1>2, <1>4, MappingsAgree DEF h

LEMMA YieldedNotAhead ==
  ASSUME MInv, pc = "yield"
  PROVE  ~AheadOn(get_mapping, machine_stack)
<1> DEFINE st == machine_stack
           h == get_mapping
<1>1. Full(st, net_label_mapping, call.mreqs, pool, virtual_matching)
  BY FullWhenYielded
<1>2. AllFollow(h, st)
  BY YieldedFollows
<1> HIDE DEF h
<1>3. SUFFICES ASSUME NEW k \in DOMAIN st, AheadIn(h, st[k])
               PROVE  FALSE
  BY DEF AheadOn, h
<1>4. /\ k \in 1..Len(st) /\ st \in Seq(MachineMatch) /\ st[k] \in MachineMatch
      /\ Kept(unmatched_pool_machines, st, Listed(pool, virtual_matching))
  BY RequiredOnStack, ElementOfSeq
<1>5. /\ st[k].current_match # None /\ IfsKept(st[k], call.mreqs, pool, virtual_matching)
      /\ \A n \in DOMAIN st[k].if_stack : st[k].if_stack[n].current_match # None
  BY <1>1, <1>4 DEF Full
<1>6. Follows(h, st[k])
  BY <1>2 DEF AllFollow
<1>7. h.machines[st[k].m_id].target \notin Range(st[k].remaining_matches)
  BY <1>4, <1>5, <1>6, NotAheadOfItself DEF Follows
<1> DEFINE s == st[k].if_stack
           f == h.machines[st[k].m_id].interfaces
<1>8. PICK n \in DOMAIN s : f[s[n].if_id] \in Range(s[n].remaining_matches)
  BY <1>3, <1>7, Zenon DEF AheadIn, IfsAhead
<1>9. s[n].current_match = f[s[n].if_id]
  BY <1>6 DEF Follows, IfsFollow
<1>10. Kept(st[k].unmatched_pool_ifs, s, DOMAIN pool[st[k].current_match].interfaces)
  BY <1>5, Zenon DEF IfsKept
<1>11. s \in Seq(IfMatch) /\ n \in 1..Len(s) /\ s[n].current_match # None
  <2>1. s \in Seq(IfMatch)
    BY <1>4 DEF MachineMatch
  <2> QED  BY <2>1, <1>5, LenProperties
<1> HIDE DEF s, f
<1>12. s[n].current_match \notin Range(s[n].remaining_matches)
  BY ONLY <1>10, <1>11, NotAheadOfItself
<1> QED  BY <1>8, <1>9, <1>12

-----------------------------------------------------------------------------
(***************************************************************************)
(* The invariant of the search: what has been yielded and what is ahead.   *)
(***************************************************************************)
AllFor(v) ==
  IF DOMAIN call.mreqs = {} THEN {} ELSE UNION {MatchesNow(k, v) : k \in 1..Len(pools)}

\* The pools are taken from the last to the first, once in every pass.
Passes ==
  /\ pool_stack = IF pool_name = 0 THEN 0 ELSE pool_name - 1
  /\ Going => Len(tried) \in {1, 2} /\ tried[Len(tried)] = virtual_matching
  /\ pc = "match" /\ machine_stack = <<>> => pool_stack = 0 \/ DOMAIN call.mreqs = {}

FoundWhere ==
  Going => \A g \in found :
    /\ g.virtual \in Range(tried)
    /\ IsInjective(tried) /\ g.virtual = virtual_matching => g.pool_name >= pool_name

\* What was yielded in this pass, from this pool, is not ahead any more.
NoneTwice ==
  Going /\ IsInjective(tried) => \A g \in found :
    g.pool_name = pool_name /\ g.virtual = virtual_matching => ~Ahead(g)

\* What is not ahead any more has been yielded.
NoneMissed ==
  Going /\ DOMAIN call.mreqs # {} =>
    /\ \A g \in Searched : g \in found \/ Ahead(g)
    /\ \A k \in pool_name + 1 .. Len(pools) : MatchesNow(k, virtual_matching) \subseteq found
    /\ Len(tried) = 2 => \A k \in 1..Len(pools) : MatchesNow(k, tried[1]) \subseteq found

FoundMatches == Going => found \subseteq UNION {AllFor(v) : v \in Range(tried)}

Complete == pc = "end" => found = UNION {AllFor(v) : v \in Range(tried)}

SInv ==
  /\ MInv /\ VirtMatched /\ Passes
  /\ FoundWhere /\ NoneTwice /\ NoneMissed /\ FoundMatches /\ Complete

LEMMA SearchSame ==
  ASSUME UNCHANGED <<call, pools>>
  PROVE  /\ \A k, v : MatchesNow(k, v)' = MatchesNow(k, v)
         /\ \A v : AllFor(v)' = AllFor(v)
<1>1. ASSUME NEW k, NEW v
      PROVE  MatchesNow(k, v)' = MatchesNow(k, v)
  BY DEF MatchesNow, PoolNamed
<1>2. \A k, v : MatchesNow(k, v)' = MatchesNow(k, v)
  BY <1>1
<1> HIDE DEF MatchesNow
<1>3. ASSUME NEW v
      PROVE  AllFor(v)' = AllFor(v)
  BY <1>2, Zenon DEF AllFor
<1> QED  BY <1>2, <1>3

LEMMA AllIsAll ==
  ASSUME MInv, NEW v
  PROVE  AllFor(v) = AllMatches(v)
<1>1. pools \in Seq(Range(pools))
  BY MapperAssumption DEF MInv, TypeOK
<1>2. DOMAIN pools = 1..Len(pools) /\ \A k \in 1..Len(pools) : k # 0
  BY <1>1, LenProperties
<1>3. \A k \in 1..Len(pools) : MatchesNow(k, v) = MatchesIn(k, v)
  BY <1>2, MatchesAreConstant DEF MatchesNow, PoolNamed
<1> HIDE DEF MatchesNow, MatchesIn
<1>4. UNION {MatchesNow(k, v) : k \in 1..Len(pools)} = UNION {MatchesIn(k, v) : k \in DOMAIN pools}
  BY <1>2, <1>3
<1> QED  BY <1>4, Zenon DEF AllFor, AllMatches

LEMMA LastOrBelow ==
  \A n \in Nat : \A k \in 1..n : k = n \/ (k \in 1 .. n - 1 /\ k < n)
OBVIOUS

LEMMA VirtMatchedKept ==
  ASSUME MInv, VirtMatched, [Next]_vars
  PROVE  VirtMatched'
<1>1. /\ machine_stack \in Seq(MachineMatch) /\ DOMAIN machine_stack = 1..Len(machine_stack)
      /\ Len(machine_stack) \in Nat
      /\ OnStack /\ MInv' /\ machine_stack' \in Seq(MachineMatch)
  BY HeldNow, StepHolds, LenProperties DEF MInv, TypeOK
<1>2. ASSUME machine_stack' = <<>>, pc' # "next_machine" PROVE VirtMatched'
  BY <1>2 DEF VirtMatched
<1>3. ASSUME virtual_matching' = virtual_matching, ~virtual_matching PROVE VirtMatched'
  BY <1>3 DEF VirtMatched
<1>4. CASE UNCHANGED vars
  BY <1>4 DEF VirtMatched, Top, vars, passVars
<1>5. ASSUME NEW c \in Calls, run(c) PROVE VirtMatched'
  BY <1>2, <1>5 DEF run, reset_match_state
<1>6. CASE yield_match
  <2>1. /\ machine_stack' = machine_stack /\ pc = "yield" /\ pc' \in {"match", "idle"}
        /\ virtual_matching' = virtual_matching
    BY <1>6 DEF yield_match, passVars
  <2> QED  BY <2>1 DEF VirtMatched
<1>7. CASE _push_machine_stack
  <2>1. PICK e : machine_stack' = Append(machine_stack, e)
    BY <1>7 DEF _push_machine_stack
  <2>2. /\ pc = "push_machine" /\ pc' = "match" /\ virtual_matching' = virtual_matching
    BY <1>7 DEF _push_machine_stack, passVars
  <2>3. /\ Len(machine_stack') = Len(machine_stack) + 1
        /\ \A k \in 1..Len(machine_stack) : machine_stack'[k] = machine_stack[k]
        /\ DOMAIN machine_stack' = 1..Len(machine_stack')
    <3>1. e \in MachineMatch
      BY <1>1, <2>1, AppendedTyped
    <3> QED  BY <3>1, <1>1, <2>1, AppendProperties, LenProperties
  <2>4. \A k \in DOMAIN machine_stack' :
          k < Len(machine_stack') => k \in 1..Len(machine_stack)
    BY <2>3, <1>1
  <2> QED  BY <2>2, <2>3, <2>4, <1>1 DEF VirtMatched
<1>8. CASE _push_if_stack
  BY <1>1, <1>3, <1>8 DEF _push_if_stack, OnStack, passVars
<1>9. CASE _if_match
  BY <1>3, <1>9, Zenon DEF _if_match, passVars
<1>10. CASE _if_match_fails
  BY <1>3, <1>10 DEF _if_match_fails, passVars
\* the machine on top becomes m, those below stay
<1>11. ASSUME machine_stack # <<>>, NEW m, SetTop(m), m.m_id = Top.m_id,
              virtual_matching' = virtual_matching, pc' # "next_machine" \/ ~m.virt_matched,
              pc' \in {"push_machine", "yield"} => m.virt_matched,
              pc \in {"match", "next_machine"}
       PROVE  VirtMatched'
  <2>1. machine_stack' = Append(Front(machine_stack), m)
    BY <1>11 DEF SetTop
  <2>2. m \in MachineMatch
    <3>1. Front(machine_stack) \in Seq(MachineMatch)
      BY <1>1, <1>11, LastFront
    <3> QED  BY <3>1, <2>1, <1>1, AppendedTyped
  <2>3. /\ DOMAIN machine_stack' = 1..Len(machine_stack)
        /\ Len(machine_stack') = Len(machine_stack)
        /\ machine_stack'[Len(machine_stack)] = m
        /\ Last(machine_stack') = m
        /\ \A i \in 1 .. Len(machine_stack) - 1 : machine_stack'[i] = machine_stack[i]
    <3>1. /\ machine_stack \in Seq(MachineMatch) /\ machine_stack # <<>>
          /\ m.m_id = Last(machine_stack).m_id
      BY <1>1, <1>11 DEF Top
    <3> QED  BY ONLY <3>1, <2>1, <2>2, NewTop
  <2>4. \A k \in 1..Len(machine_stack) :
          k = Len(machine_stack) \/ (k \in 1 .. Len(machine_stack) - 1 /\ k < Len(machine_stack))
    BY <1>1, LastOrBelow, Zenon
  <2>5. ASSUME virtual_matching, NEW k \in 1 .. Len(machine_stack) - 1, k < Len(machine_stack)
        PROVE  machine_stack'[k].virt_matched
    <3>1. k \in DOMAIN machine_stack
      BY <1>1, <2>5, BelowLast
    <3> QED  BY <3>1, <2>3, <2>5 DEF VirtMatched
  <2>6. Top' = m
    BY <2>3 DEF Top
  <2>7. ASSUME virtual_matching, NEW k \in DOMAIN machine_stack',
               k < Len(machine_stack') \/ pc' \in {"push_machine", "yield"}
        PROVE  machine_stack'[k].virt_matched
    <3>1. CASE k = Len(machine_stack)
      <4>1. ~(k < Len(machine_stack'))
        BY <3>1, <2>3, <1>1
      <4> QED  BY <3>1, <4>1, <2>3, <2>7, <1>11
    <3>2. CASE k # Len(machine_stack)
      BY <3>2, <2>3, <2>4, <2>5, <2>7, Zenon
    <3> QED  BY <3>1, <3>2
  <2> QED  BY <2>6, <2>7, <1>11 DEF VirtMatched
<1>12. CASE virtual_match
  <2>1. machine_stack # <<>> /\ virtual_matching' = virtual_matching /\ Top \in MachineMatch
        /\ pc = "match"
    BY <1>1, <1>12, LastFront DEF virtual_match, passVars, Top
  <2>2. ASSUME SetTop([Top EXCEPT !.virt_matched = TRUE]), pc' = AfterMatch
        PROVE  VirtMatched'
    <3> DEFINE m == [Top EXCEPT !.virt_matched = TRUE]
    <3>1. m.m_id = Top.m_id /\ m.virt_matched /\ SetTop(m)
      BY <2>1, <2>2 DEF MachineMatch
    <3>2. pc' # "next_machine"
      BY <2>2 DEF AfterMatch
    <3> HIDE DEF m
    <3> QED  BY <3>1, <3>2, <2>1, <1>11
  <2>3. ASSUME SetTop([Top EXCEPT !.virt_matched = FALSE, !.current_match = None]),
               pc' = "next_machine"
        PROVE  VirtMatched'
    <3> DEFINE m == [Top EXCEPT !.virt_matched = FALSE, !.current_match = None]
    <3>1. m.m_id = Top.m_id /\ ~m.virt_matched /\ SetTop(m)
      BY <2>1, <2>3 DEF MachineMatch
    <3> HIDE DEF m
    <3> QED  BY <3>1, <2>1, <2>3, <1>11
  <2> QED  BY <2>2, <2>3, <1>12 DEF virtual_match
<1>13. CASE next_machine
  <2>1. machine_stack # <<>> /\ virtual_matching' = virtual_matching /\ Top \in MachineMatch
        /\ pc = "next_machine"
    BY <1>1, <1>13, LastFront, Zenon DEF next_machine, passVars, Top, OnStack
  <2>2. ASSUME NEW k, NEW ifs, pc' = (IF virtual_matching THEN "match" ELSE "push_if"),
               SetTop([Take(Top, k) EXCEPT !.if_stack = <<>>, !.unmatched_pool_ifs = ifs])
        PROVE  VirtMatched'
    <3> DEFINE m == [Take(Top, k) EXCEPT !.if_stack = <<>>, !.unmatched_pool_ifs = ifs]
    <3>1. m.m_id = Top.m_id /\ SetTop(m)
      BY <2>1, <2>2 DEF MachineMatch, Take
    <3>2. pc' \in {"match", "push_if"}
      BY <2>2
    <3> HIDE DEF m
    <3> QED  BY <3>1, <3>2, <2>1, <1>11
  <2>3. ASSUME machine_stack' = Front(machine_stack), pc' \in {"match", "push_machine"},
               pc' = "push_machine" => machine_stack' = <<>>
        PROVE  VirtMatched'
    <3>1. /\ Len(machine_stack') = Len(machine_stack) - 1
          /\ DOMAIN machine_stack' = 1..Len(machine_stack')
          /\ \A k \in 1 .. Len(machine_stack) - 1 : machine_stack'[k] = machine_stack[k]
      BY <1>1, <2>1, <2>3, LastFront, LenProperties, Zenon
    <3>2. \A k \in DOMAIN machine_stack' :
            /\ k \in DOMAIN machine_stack /\ k < Len(machine_stack)
            /\ machine_stack'[k] = machine_stack[k]
      BY <3>1, <1>1
    <3> QED  BY <3>2, <2>1, <2>3 DEF VirtMatched
  <2>4. ASSUME machine_stack' = Front(machine_stack), Len(machine_stack) = 1
        PROVE  machine_stack' = <<>>
    <3>1. Len(machine_stack') = 0
      BY <1>1, <2>1, <2>4, LastFront
    <3> QED  BY <3>1, <1>1, EmptySeq
  <2> QED  BY <2>2, <2>3, <2>4, <1>13, Zenon DEF next_machine
<1>14. CASE no_match
  BY <1>2, <1>14, Zenon DEF no_match, reset_match_state
<1> QED
  BY <1>4, <1>5, <1>6, <1>7, <1>8, <1>9, <1>10, <1>12, <1>13, <1>14 DEF Next, MapperNext

LEMMA PoolNumbers ==
  ASSUME MInv
  PROVE  /\ Len(pools) \in Nat /\ pools \in PoolSets /\ DOMAIN pools = 1..Len(pools)
         /\ pool_name \in 0..Len(pools) /\ pool_stack \in 0..Len(pools)
         /\ \A k \in 1..Len(pools) : DOMAIN PoolNamed(k) # {} \/ Len(pools) = 1
<1>1. /\ pools \in PoolSets /\ pool_name \in 0..Len(pools) /\ pool_stack \in 0..Len(pools)
  BY DEF MInv, TypeOK
<1>2. /\ pools \in Seq(Range(pools))
      /\ \A k \in DOMAIN pools : DOMAIN pools[k] # {} \/ Len(pools) = 1
  BY <1>1, MapperAssumption
<1>3. DOMAIN pools = 1..Len(pools) /\ Len(pools) \in Nat
  BY <1>2, LenProperties
<1>4. \A k \in 1..Len(pools) : k # 0
  BY <1>3
<1> QED  BY <1>1, <1>2, <1>3, <1>4 DEF PoolNamed

(***************************************************************************)
(* A step that yields nothing and stays with its pool: no match comes back *)
(* to be ahead, and none that is searched for is lost.                     *)
(***************************************************************************)
LEMMA SameSearch ==
  ASSUME SInv, MInv', VirtMatched', UNCHANGED <<callVars, passVars, poolVars, found>>,
         Going, Going', \A g : Ahead(g)' => Ahead(g),
         \A g \in Searched : Ahead(g) => Ahead(g)',
         pc' = "match" /\ machine_stack' = <<>> => pool_stack = 0 \/ DOMAIN call.mreqs = {}
  PROVE  SInv'
<1>1. /\ call' = call /\ pools' = pools /\ tried' = tried /\ found' = found
      /\ virtual_matching' = virtual_matching /\ pool_name' = pool_name
      /\ pool_stack' = pool_stack
  BY DEF callVars, passVars, poolVars
<1>2. /\ \A k, v : MatchesNow(k, v)' = MatchesNow(k, v)
      /\ \A v : AllFor(v)' = AllFor(v)
  BY <1>1, SearchSame
<1>3. Searched' = Searched
  <2>1. Searched' = MatchesOf(call'.mreqs, PoolNamed(pool_name)', pool_name, virtual_matching)
    BY <1>1 DEF Searched, MatchesNow, PoolNamed
  <2> QED  BY <2>1, <1>1 DEF Searched, MatchesNow, PoolNamed
<1> HIDE DEF MatchesNow, AllFor, Searched, Ahead
<1>4. Passes'
  BY <1>1 DEF SInv, Passes
<1>5. FoundWhere'
  BY <1>1 DEF SInv, FoundWhere
<1>6. NoneTwice'
  BY <1>1 DEF SInv, NoneTwice
<1>7. NoneMissed'
  <2>1. ASSUME DOMAIN call.mreqs # {}
        PROVE  /\ \A g \in Searched' : g \in found' \/ Ahead(g)'
               /\ \A k \in pool_name + 1 .. Len(pools) :
                    MatchesNow(k, virtual_matching) \subseteq found
               /\ Len(tried) = 2 => \A k \in 1..Len(pools) :
                                      MatchesNow(k, tried[1]) \subseteq found
    BY <1>1, <1>3, <2>1 DEF SInv, NoneMissed
  <2>2. /\ \A k \in pool_name' + 1 .. Len(pools') :
             MatchesNow(k, virtual_matching)' \subseteq found'
           <=> MatchesNow(k, virtual_matching) \subseteq found
        /\ \A k \in 1..Len(pools') :
             MatchesNow(k, tried[1])' \subseteq found' <=> MatchesNow(k, tried[1]) \subseteq found
    BY <1>1, SearchSame DEF MatchesNow, PoolNamed
  <2> QED  BY <2>1, <2>2, <1>1 DEF NoneMissed
<1>8. FoundMatches'
  <2>1. UNION {AllFor(v) : v \in Range(tried)}' = UNION {AllFor(v) : v \in Range(tried)}
    BY <1>1, <1>2
  <2> QED  BY <2>1, <1>1 DEF SInv, FoundMatches
<1>9. Complete'
  BY DEF Going, Complete
<1> QED  BY <1>4, <1>5, <1>6, <1>7, <1>8, <1>9 DEF SInv

(***************************************************************************)
(* A pass starts: everything is ahead in the last pool.                    *)
(***************************************************************************)
LEMMA EmptyPool ==
  ASSUME NEW req, DOMAIN req # {}, NEW ms, DOMAIN ms = {}, NEW k, NEW v
  PROVE  MatchesOf(req, ms, k, v) = {}
<1>1. SUFFICES ASSUME NEW g \in MatchesOf(req, ms, k, v)
               PROVE  FALSE
  OBVIOUS
<1>2. PICK x : x \in DOMAIN req
  OBVIOUS
<1>3. g.machines[x].target \in Listed(ms, v)
  BY <1>2, MatchFacts, Zenon DEF MachineFacts
<1> QED  BY <1>3 DEF Listed

LEMMA PassBegins ==
  ASSUME MInv, MInv', VirtMatched', pools' = pools, NEW mreqs, call'.mreqs = mreqs,
         NEW v \in BOOLEAN, virtual_matching' = v, reset_match_state(mreqs, v),
         Len(tried') \in {1, 2}, tried'[Len(tried')] = v,
         \A g \in found' : g.virtual \in Range(tried') /\ (IsInjective(tried') => g.virtual # v),
         \A g \in found' : \E w \in Range(tried') : g \in AllFor(w)',
         DOMAIN mreqs # {} /\ Len(tried') = 2 =>
           \A k \in 1..Len(pools) : MatchesNow(k, tried[1])' \subseteq found',
         tried[1] = tried'[1] \/ Len(tried') = 1
  PROVE  SInv'
<1>1. /\ Len(pools) \in Nat /\ pool_name' = Len(pools) /\ machine_stack' = <<>>
      /\ pool_stack' = (IF Len(pools) = 0 THEN 0 ELSE Len(pools) - 1)
      /\ pc' = IF DOMAIN PoolNamed(pool_name') # {} /\ DOMAIN mreqs # {}
                 THEN "push_machine" ELSE "match"
      /\ pc' \in {"push_machine", "match"}
  BY PoolNumbers DEF reset_match_state
<1>2. Going' /\ pc' # "end"
  BY <1>1 DEF Going
<1>3. PoolNamed(pool_name') = PoolNamed(pool_name)'
  BY DEF PoolNamed
<1>4. pc' = "match" => \/ DOMAIN mreqs = {}
                       \/ Len(pools) = 0 \/ (Len(pools) = 1 /\ DOMAIN PoolNamed(1) = {})
  <2>1. Len(pools) # 0 => Len(pools) \in 1..Len(pools)
    BY <1>1
  <2> QED  BY <2>1, <1>1, PoolNumbers, Zenon
<1>5. Passes'
  BY <1>1, <1>2, <1>4 DEF Passes
<1>6. FoundWhere'
  BY DEF FoundWhere
<1>7. NoneTwice'
  BY DEF NoneTwice
<1>8. FoundMatches'
  BY <1>2 DEF FoundMatches
<1>9. Complete'
  BY <1>2 DEF Complete
<1>10. ASSUME DOMAIN mreqs # {}, NEW g \in Searched'
       PROVE  Ahead(g)'
  <2>1. CASE pc' = "push_machine"
    <3>1. Open'
      BY <2>1 DEF Open
    <3> QED  BY <3>1, <1>1, NoneOnEmptyStacks DEF Ahead
  <2>2. CASE pc' # "push_machine"
    <3>1. DOMAIN PoolNamed(pool_name)' = {}
      BY <2>2, <1>1, <1>3, <1>10, Zenon
    <3>2. Searched' = MatchesOf(mreqs, PoolNamed(pool_name)', pool_name', v)
      BY DEF Searched, MatchesNow
    <3> HIDE DEF Searched
    <3>3. Searched' = {}
      BY <3>1, <3>2, <1>10, EmptyPool
    <3> QED  BY <3>3
  <2> QED  BY <2>1, <2>2
<1>11. NoneMissed'
  <2>1. \A k \in pool_name' + 1 .. Len(pools') : FALSE
    BY <1>1
  <2>2. SUFFICES ASSUME DOMAIN mreqs # {}
                 PROVE  /\ \A g \in Searched' : g \in found' \/ Ahead(g)'
                        /\ \A k \in pool_name' + 1 .. Len(pools') :
                             MatchesNow(k, virtual_matching)' \subseteq found'
                        /\ Len(tried') = 2 =>
                             \A k \in 1..Len(pools') : MatchesNow(k, tried[1])' \subseteq found'
    BY DEF NoneMissed
  <2>3. \A g \in Searched' : Ahead(g)'
    BY <1>10, <2>2
  <2> HIDE DEF Searched, Ahead, MatchesNow
  <2> QED  BY <2>1, <2>2, <2>3
<1> QED  BY <1>5, <1>6, <1>7, <1>8, <1>9, <1>11 DEF SInv

(***************************************************************************)
(* The search ends, or stops for a match, without another pool.            *)
(***************************************************************************)
LEMMA StopsHere ==
  ASSUME SInv, MInv', VirtMatched', UNCHANGED poolVars, ~Going', Complete'
  PROVE  SInv'
<1>1. pool_name' = pool_name /\ pool_stack' = pool_stack
  BY DEF poolVars
<1>2. Passes'
  BY <1>1 DEF SInv, Passes, Going
<1>3. FoundWhere' /\ NoneTwice' /\ NoneMissed' /\ FoundMatches'
  BY DEF FoundWhere, NoneTwice, NoneMissed, FoundMatches
<1> QED  BY <1>2, <1>3 DEF SInv

LEMMA PassDone ==
  ASSUME SInv, pc = "match", machine_stack = <<>>, DOMAIN call.mreqs # {},
         NEW k \in 1..Len(pools)
  PROVE  MatchesNow(k, virtual_matching) \subseteq found
<1>1. Going /\ ~Open
  BY DEF Going, Open
<1>2. /\ \A g \in Searched : g \in found \/ Ahead(g)
      /\ \A j \in pool_name + 1 .. Len(pools) : MatchesNow(j, virtual_matching) \subseteq found
  BY <1>1 DEF SInv, NoneMissed
<1>3. \A g : ~Ahead(g)
  BY <1>1, AheadOnNothing
<1>4. k = pool_name \/ k \in pool_name + 1 .. Len(pools)
  <2>1. pool_stack = 0 /\ pool_stack = IF pool_name = 0 THEN 0 ELSE pool_name - 1
    BY DEF SInv, Passes
  <2>2. pool_name \in 0..Len(pools) /\ Len(pools) \in Nat
    BY PoolNumbers DEF SInv
  <2> QED  BY <2>1, <2>2
<1> HIDE DEF MatchesNow, Ahead
<1>5. MatchesNow(pool_name, virtual_matching) \subseteq found
  BY <1>2, <1>3 DEF Searched
<1> QED  BY <1>2, <1>4, <1>5

LEMMA PassesTried ==
  ASSUME SInv, Going
  PROVE  /\ Len(tried) \in {1, 2} /\ tried[Len(tried)] = virtual_matching
         /\ DOMAIN tried = 1..Len(tried) /\ virtual_matching \in Range(tried)
         /\ \A v \in Range(tried) : v = virtual_matching \/ (Len(tried) = 2 /\ v = tried[1])
<1>1. Len(tried) \in {1, 2} /\ tried[Len(tried)] = virtual_matching
  BY DEF SInv, Passes
<1>2. DOMAIN tried = 1..Len(tried)
  BY LenProperties DEF SInv, MInv, TypeOK
<1>3. /\ Len(tried) \in DOMAIN tried
      /\ \A j \in DOMAIN tried : j = Len(tried) \/ (Len(tried) = 2 /\ j = 1)
  BY <1>1, <1>2
<1> QED  BY <1>1, <1>2, <1>3 DEF Range

LEMMA AllForFound ==
  ASSUME SInv, pc = "match", machine_stack = <<>>, NEW v \in Range(tried)
  PROVE  AllFor(v) \subseteq found
<1>1. CASE DOMAIN call.mreqs = {}
  BY <1>1 DEF AllFor
<1>2. CASE DOMAIN call.mreqs # {}
  <2>1. Going
    BY DEF Going
  <2>2. v = virtual_matching \/ (Len(tried) = 2 /\ v = tried[1])
    BY <2>1, PassesTried
  <2>3. ASSUME NEW k \in 1..Len(pools)
        PROVE  MatchesNow(k, v) \subseteq found
    <3>1. CASE v = virtual_matching
      BY <3>1, <1>2, PassDone
    <3>2. CASE Len(tried) = 2 /\ v = tried[1]
      BY <3>2, <1>2, <2>1 DEF SInv, NoneMissed
    <3> QED  BY <2>2, <3>1, <3>2
  <2> HIDE DEF MatchesNow
  <2> QED  BY <2>3, <1>2 DEF AllFor
<1> QED  BY <1>1, <1>2

LEMMA EndOn ==
  ASSUME SInv, MInv', VirtMatched', pc = "match", machine_stack = <<>>, pc' = "end",
         UNCHANGED <<callVars, passVars, poolVars, found>>
  PROVE  SInv'
<1>1. /\ call' = call /\ pools' = pools /\ tried' = tried /\ found' = found
      /\ UNCHANGED poolVars
  BY DEF callVars, passVars
<1>2. \A v : AllFor(v)' = AllFor(v)
  BY <1>1, SearchSame
<1>3. found \subseteq UNION {AllFor(v) : v \in Range(tried)}
  BY DEF SInv, FoundMatches, Going
<1>4. \A v \in Range(tried) : AllFor(v) \subseteq found
  BY AllForFound
<1>5. Complete'
  <2>1. UNION {AllFor(v) : v \in Range(tried)}' = UNION {AllFor(v) : v \in Range(tried)}
    <3> HIDE DEF AllFor
    <3> QED  BY <1>1, <1>2
  <2> HIDE DEF AllFor
  <2>2. found = UNION {AllFor(v) : v \in Range(tried)}
    BY <1>3, <1>4
  <2> QED  BY <1>1, <2>1, <2>2 DEF Complete
<1> QED  BY <1>1, <1>5, StopsHere DEF Going

LEMMA RunOn ==
  ASSUME SInv, MInv', VirtMatched', NEW c \in Calls, run(c)
  PROVE  SInv'
<1> DEFINE v == virtual_matching
<1>1. /\ pools' = pools /\ call'.mreqs = c.mreqs /\ virtual_matching' = v
      /\ reset_match_state(c.mreqs, v) /\ found' = {} /\ tried' = <<v>>
  BY DEF run
<1>2. v \in BOOLEAN /\ MInv
  BY DEF SInv, MInv, TypeOK
<1>3. Len(tried') = 1 /\ tried'[1] = v
  BY <1>1
<1> HIDE DEF v
<1> QED  BY <1>1, <1>2, <1>3, PassBegins

LEMMA SecondPassOn ==
  ASSUME SInv, MInv', VirtMatched', pc = "match", machine_stack = <<>>,
         Len(tried) = 1, virtual_matching' = TRUE, tried' = Append(tried, TRUE),
         reset_match_state(call.mreqs, TRUE), UNCHANGED <<callVars, found>>
  PROVE  SInv'
<1>1. Going /\ pools' = pools /\ call' = call /\ found' = found /\ MInv
  BY DEF Going, callVars, SInv
<1>2. /\ Len(tried') = 2 /\ tried'[1] = tried[1] /\ tried'[2] = TRUE
      /\ DOMAIN tried' = 1..2 /\ tried[1] = virtual_matching /\ DOMAIN tried = 1..1
  <2>1. tried \in Seq(BOOLEAN) /\ tried[1] = virtual_matching /\ DOMAIN tried = 1..1
    BY <1>1, PassesTried DEF MInv, TypeOK
  <2>2. /\ Len(tried') = Len(tried) + 1 /\ tried'[1] = tried[1]
        /\ tried'[Len(tried) + 1] = TRUE /\ DOMAIN tried' = 1..Len(tried')
    <3>1. /\ DOMAIN Append(tried, TRUE) = 1 .. Len(tried) + 1 /\ Len(tried) \in Nat
          /\ \A n \in 1..Len(tried) : Append(tried, TRUE)[n] = tried[n]
          /\ Append(tried, TRUE)[Len(tried) + 1] = TRUE
      <4>1. TRUE \in BOOLEAN
        OBVIOUS
      <4> QED  BY ONLY <4>1, <2>1, AppendedParts
    <3>2. Len(Append(tried, TRUE)) = Len(tried) + 1
      BY <2>1, AppendProperties, ZenonT(60)
    <3>3. tried' = Append(tried, TRUE) /\ 1 \in 1..Len(tried)
      OBVIOUS
    <3> QED  BY ONLY <3>1, <3>2, <3>3
  <2>3. Len(tried') = 2 /\ tried'[1] = tried[1] /\ tried'[2] = TRUE /\ DOMAIN tried' = 1..2
    <3>1. Len(tried) = 1 /\ Len(tried) + 1 = 2
      OBVIOUS
    <3>2. Len(tried') = 2 /\ tried'[2] = TRUE
      BY <3>1, <2>2, Zenon, Zenon
    <3> QED  BY <2>2, <3>2, Zenon, Zenon
  <2> QED  BY <2>1, <2>3, Zenon
<1>3. Range(tried') = {virtual_matching, TRUE} /\ Range(tried) = {virtual_matching}
  <2>1. DOMAIN tried' = {1, 2} /\ DOMAIN tried = {1}
    BY <1>2
  <2>2. \A e : e \in Range(tried') <=> e = tried'[1] \/ e = tried'[2]
    BY <2>1, Zenon DEF Range
  <2>3. \A e : e \in Range(tried) <=> e = tried[1]
    BY <2>1 DEF Range
  <2>4. \A e : e \in Range(tried') <=> e \in {virtual_matching, TRUE}
    BY <1>2, <2>2, Zenon
  <2>5. \A e : e \in Range(tried) <=> e \in {virtual_matching}
    BY <1>2, <2>3
  <2> QED  BY <2>4, <2>5, Zenon
<1>4. IsInjective(tried') => virtual_matching # TRUE
  <2>1. ASSUME tried'[1] = tried'[2]
        PROVE  ~IsInjective(tried')
    <3>1. 1 \in DOMAIN tried' /\ 2 \in DOMAIN tried' /\ 1 # 2
      BY <1>2
    <3> QED  BY <3>1, <2>1, Zenon DEF IsInjective
  <2> QED  BY <1>2, <2>1, Zenon
<1>5. \A g \in found : g.virtual = virtual_matching
  BY <1>1, <1>3 DEF SInv, FoundWhere
<1>6. \A w : AllFor(w)' = AllFor(w)
  BY <1>1, SearchSame
<1>7. found \subseteq UNION {AllFor(w) : w \in Range(tried)}
  BY <1>1 DEF SInv, FoundMatches
<1>8. \A g \in found' : \E w \in Range(tried') : g \in AllFor(w)'
  <2> HIDE DEF AllFor
  <2> QED  BY <1>1, <1>3, <1>6, <1>7, Zenon
<1>9. ASSUME DOMAIN call.mreqs # {}, NEW k \in 1..Len(pools)
      PROVE  MatchesNow(k, tried[1])' \subseteq found'
  <2>1. MatchesNow(k, virtual_matching) \subseteq found
    BY <1>9, PassDone
  <2>2. MatchesNow(k, tried[1])' = MatchesNow(k, virtual_matching)
    BY <1>1, <1>2, Zenon DEF MatchesNow, PoolNamed
  <2> QED  BY <2>1, <2>2, <1>1, Zenon
<1> HIDE DEF MatchesNow, AllFor
<1>10. \A g \in found' : g.virtual \in Range(tried') /\ (IsInjective(tried') => g.virtual # TRUE)
  BY <1>1, <1>3, <1>4, <1>5, Zenon
<1> QED  BY <1>1, <1>2, <1>8, <1>9, <1>10, PassBegins, Zenon

(***************************************************************************)
(* A match is yielded: it was ahead and is the only one that is not any    *)
(* more.                                                                   *)
(***************************************************************************)
LEMMA YieldedOnly ==
  ASSUME SInv, pc = "yield"
  PROVE  /\ \A g \in Searched : Ahead(g) => AheadOn(g, machine_stack) \/ g = get_mapping
         /\ ~AheadOn(get_mapping, machine_stack) /\ Ahead(get_mapping)
         /\ \A g : AheadOn(g, machine_stack) => Ahead(g)
         /\ get_mapping \in AllFor(virtual_matching)
         /\ get_mapping.pool_name = pool_name /\ get_mapping.virtual = virtual_matching
<1>1. MInv /\ Open
  BY DEF SInv, Open
<1>2. AllFollow(get_mapping, machine_stack) /\ ~AheadOn(get_mapping, machine_stack)
  BY <1>1, YieldedFollows, YieldedNotAhead
<1>3. \A g \in Searched : AllFollow(g, machine_stack) => g = get_mapping
  BY <1>1, FollowedIsYielded
<1>4. get_mapping \in AllFor(virtual_matching)
  BY <1>1, YieldedIsSearched, AllIsAll DEF YieldsMatches
<1>5. get_mapping.pool_name = pool_name /\ get_mapping.virtual = virtual_matching
  BY DEF get_mapping
<1> HIDE DEF Searched, AllFor, AheadOn, AllFollow, get_mapping
<1> QED  BY <1>1, <1>2, <1>3, <1>4, <1>5 DEF Ahead

LEMMA GoesOnAfterYield ==
  ASSUME SInv, pc = "yield", pc' = "match", machine_stack' = machine_stack,
         virtual_matching' = virtual_matching
  PROVE  /\ ~Open' /\ \A g : Ahead(g)' <=> AheadOn(g, machine_stack)
         /\ machine_stack # <<>>
<1>1. MInv /\ VirtMatched /\ machine_stack \in Seq(MachineMatch)
  BY HeldNow DEF SInv
<1>2. virtual_matching /\ machine_stack # <<>> => Top.virt_matched
  <2>1. SUFFICES ASSUME virtual_matching, machine_stack # <<>>
                 PROVE  Top.virt_matched
    OBVIOUS
  <2>2. Top = machine_stack[Len(machine_stack)] /\ Len(machine_stack) \in DOMAIN machine_stack
    BY <1>1, <2>1, LastFront, TopTyped DEF Top
  <2> QED  BY <2>1, <2>2, <1>1 DEF VirtMatched
<1>3. Top' = Top
  BY DEF Top
<1>4. ~Open'
  BY <1>2, <1>3 DEF Open
<1>5. machine_stack # <<>>
  BY <1>1, FullWhenYielded DEF Full
<1> QED  BY <1>4, <1>5 DEF Ahead

LEMMA YieldOn ==
  ASSUME SInv, MInv', VirtMatched', yield_match
  PROVE  SInv'
<1> DEFINE h == get_mapping
<1>1. /\ pc = "yield" /\ pc' \in {"match", "idle"} /\ found' = found \union {h}
      /\ machine_stack' = machine_stack
      /\ call' = call /\ pools' = pools /\ tried' = tried
      /\ virtual_matching' = virtual_matching /\ pool_name' = pool_name
      /\ pool_stack' = pool_stack
  BY DEF yield_match, callVars, passVars, poolVars
<1>2. CASE pc' = "idle"
  BY <1>1, <1>2, StopsHere DEF Going, Complete, poolVars
<1>3. CASE pc' = "match"
  <2>1. Going /\ Going' /\ virtual_matching \in Range(tried) /\ MInv
    <3>1. Going /\ Going' /\ MInv
      BY <1>1, <1>3 DEF Going, SInv
    <3> QED  BY <3>1, PassesTried
  <2>2. /\ \A g : Ahead(g)' <=> AheadOn(g, machine_stack)
        /\ machine_stack # <<>>
    BY <1>1, <1>3, GoesOnAfterYield
  <2>3. /\ \A g \in Searched : Ahead(g) => AheadOn(g, machine_stack) \/ g = h
        /\ ~AheadOn(h, machine_stack) /\ \A g : AheadOn(g, machine_stack) => Ahead(g)
        /\ h \in AllFor(virtual_matching) /\ h.pool_name = pool_name
        /\ h.virtual = virtual_matching
    BY <1>1, YieldedOnly
  <2>4. pool_name \in Nat
    BY <2>1, PoolNumbers
  <2>5. /\ \A k, v : MatchesNow(k, v)' = MatchesNow(k, v)
        /\ \A v : AllFor(v)' = AllFor(v)
    BY <1>1, SearchSame
  <2>6. Searched' = Searched
    BY <1>1 DEF Searched, MatchesNow, PoolNamed
  <2>7. /\ \A k : MatchesNow(k, virtual_matching)' = MatchesNow(k, virtual_matching)
        /\ \A k : MatchesNow(k, tried[1])' = MatchesNow(k, tried[1])
    BY <1>1 DEF MatchesNow, PoolNamed
  <2> HIDE DEF h, MatchesNow, AllFor, Searched, Ahead, AheadOn
  <2>8. Passes'
    BY <1>1, <2>1, <2>2 DEF SInv, Passes
  <2>9. FoundWhere'
    BY <1>1, <2>1, <2>3, <2>4 DEF SInv, FoundWhere
  <2>10. NoneTwice'
    BY <1>1, <2>1, <2>2, <2>3 DEF SInv, NoneTwice
  <2>11. NoneMissed'
    <3>1. SUFFICES ASSUME DOMAIN call.mreqs # {}
                   PROVE  /\ \A g \in Searched : g \in found' \/ Ahead(g)'
                          /\ \A k \in pool_name + 1 .. Len(pools) :
                               MatchesNow(k, virtual_matching) \subseteq found'
                          /\ Len(tried) = 2 => \A k \in 1..Len(pools) :
                                                 MatchesNow(k, tried[1]) \subseteq found'
      BY <1>1, <2>6, <2>7 DEF NoneMissed
    <3>2. /\ \A g \in Searched : g \in found \/ Ahead(g)
          /\ \A k \in pool_name + 1 .. Len(pools) : MatchesNow(k, virtual_matching) \subseteq found
          /\ Len(tried) = 2 => \A k \in 1..Len(pools) : MatchesNow(k, tried[1]) \subseteq found
      BY <2>1, <3>1 DEF SInv, NoneMissed
    <3>3. \A g \in Searched : g \in found' \/ Ahead(g)'
      BY <3>2, <1>1, <2>2, <2>3
    <3>4. found \subseteq found'
      BY <1>1
    <3> QED  BY <3>2, <3>3, <3>4
  <2>12. FoundMatches'
    <3>1. UNION {AllFor(v) : v \in Range(tried)}' = UNION {AllFor(v) : v \in Range(tried)}
      BY <1>1, <2>5
    <3>2. found \subseteq UNION {AllFor(v) : v \in Range(tried)}
      BY <2>1 DEF SInv, FoundMatches
    <3>3. found' \subseteq UNION {AllFor(v) : v \in Range(tried)}
      BY <1>1, <2>1, <2>3, <3>2
    <3> QED  BY <3>1, <3>3 DEF FoundMatches
  <2>13. Complete'
    BY <1>3 DEF Complete
  <2> QED  BY <2>8, <2>9, <2>10, <2>11, <2>12, <2>13 DEF SInv
<1> QED  BY <1>1, <1>2, <1>3

(***************************************************************************)
(* The search goes to the pool before: the last one is done.               *)
(***************************************************************************)
LEMMA FoundInPools ==
  ASSUME SInv, Going, NEW g \in found
  PROVE  g.pool_name \in 1..Len(pools)
<1>1. PICK w \in Range(tried) : g \in AllFor(w)
  BY DEF SInv, FoundMatches
<1>2. PICK k \in 1..Len(pools) : g \in MatchesNow(k, w)
  BY <1>1 DEF AllFor
<1>3. g.pool_name = k
  BY <1>2, Destructed DEF MatchesNow
<1> QED  BY <1>3

LEMMA BelowPool ==
  \A n \in Nat : \A p, s \in 0..n :
    s = (IF p = 0 THEN 0 ELSE p - 1) /\ s > 0 =>
      p \in 1..n /\ p - 1 \in 1..n /\ n # 1 /\ s = p - 1
OBVIOUS

LEMMA PoolBeforeOn ==
  ASSUME SInv, MInv', VirtMatched', pc = "next_machine",
         UNCHANGED <<callVars, passVars, found>>,
         machine_stack' = <<>>, pool_stack > 0,
         pool_name' = pool_stack, pool_stack' = pool_stack - 1,
         pc' = IF DOMAIN PoolNamed(pool_name') # {} THEN "push_machine" ELSE "match",
         \A g \in Searched : ~Ahead(g)
  PROVE  SInv'
<1>1. /\ call' = call /\ pools' = pools /\ tried' = tried /\ found' = found
      /\ virtual_matching' = virtual_matching
  BY DEF callVars, passVars
<1>2. /\ Len(pools) \in Nat /\ pool_name \in 1..Len(pools)
      /\ pool_name' = pool_name - 1 /\ pool_name' \in 1..Len(pools) /\ Len(pools) # 1
      /\ pool_stack' = pool_name' - 1
  <2>1. /\ Len(pools) \in Nat /\ pool_name \in 0..Len(pools) /\ pool_stack \in 0..Len(pools)
        /\ pool_stack = IF pool_name = 0 THEN 0 ELSE pool_name - 1
    BY PoolNumbers DEF SInv, Passes
  <2>2. /\ pool_name \in 1..Len(pools) /\ pool_name - 1 \in 1..Len(pools)
        /\ Len(pools) # 1 /\ pool_stack = pool_name - 1
    BY ONLY <2>1, pool_stack > 0, BelowPool, Zenon
  <2> QED  BY <2>1, <2>2
<1>3. pc' = "push_machine"
  <2>1. DOMAIN PoolNamed(pool_name') # {}
    BY <1>2, PoolNumbers DEF SInv
  <2> QED  BY <2>1
<1>4. Going /\ Going' /\ Open'
  BY <1>3 DEF Going, Open
<1>5. \A g : Ahead(g)'
  BY <1>4, NoneOnEmptyStacks DEF Ahead
<1>6. /\ \A k, v : MatchesNow(k, v)' = MatchesNow(k, v)
      /\ \A v : AllFor(v)' = AllFor(v)
  BY <1>1, SearchSame
<1>7. /\ \A k : MatchesNow(k, virtual_matching)' = MatchesNow(k, virtual_matching)
      /\ \A k : MatchesNow(k, tried[1])' = MatchesNow(k, tried[1])
  BY <1>1 DEF MatchesNow, PoolNamed
<1>8. \A g \in found : g.pool_name \in 1..Len(pools)
  BY <1>4, FoundInPools
<1> HIDE DEF MatchesNow, AllFor, Ahead
<1>9. Passes'
  BY <1>1, <1>2, <1>3, <1>4 DEF SInv, Passes
<1>10. \A g \in found :
         /\ g.virtual \in Range(tried)
         /\ IsInjective(tried) /\ g.virtual = virtual_matching =>
              g.pool_name >= pool_name' /\ g.pool_name # pool_name'
  <2>1. SUFFICES ASSUME NEW g \in found
                 PROVE  /\ g.virtual \in Range(tried)
                        /\ IsInjective(tried) /\ g.virtual = virtual_matching =>
                             g.pool_name >= pool_name' /\ g.pool_name # pool_name'
    OBVIOUS
  <2>2. /\ g.virtual \in Range(tried)
        /\ IsInjective(tried) /\ g.virtual = virtual_matching => g.pool_name >= pool_name
    BY <1>4 DEF SInv, FoundWhere
  <2>3. g.pool_name \in 1..Len(pools)
    BY <1>8
  <2> QED  BY <2>2, <2>3, <1>2
<1>11. FoundWhere' /\ NoneTwice'
  BY <1>1, <1>10 DEF FoundWhere, NoneTwice
<1>12. NoneMissed'
  <2>1. SUFFICES ASSUME DOMAIN call.mreqs # {}
                 PROVE  /\ \A k \in pool_name' + 1 .. Len(pools) :
                             MatchesNow(k, virtual_matching) \subseteq found
                        /\ Len(tried) = 2 => \A k \in 1..Len(pools) :
                                               MatchesNow(k, tried[1]) \subseteq found
    BY <1>1, <1>5, <1>7 DEF NoneMissed
  <2>2. /\ \A g \in Searched : g \in found
        /\ \A k \in pool_name + 1 .. Len(pools) : MatchesNow(k, virtual_matching) \subseteq found
        /\ Len(tried) = 2 => \A k \in 1..Len(pools) : MatchesNow(k, tried[1]) \subseteq found
    BY <1>4, <2>1 DEF SInv, NoneMissed
  <2>3. \A k \in pool_name' + 1 .. Len(pools) : k = pool_name \/ k \in pool_name + 1 .. Len(pools)
    BY <1>2
  <2>4. MatchesNow(pool_name, virtual_matching) \subseteq found
    BY <2>2 DEF Searched
  <2> QED  BY <2>2, <2>3, <2>4
<1>13. FoundMatches'
  <2>1. UNION {AllFor(v) : v \in Range(tried)}' = UNION {AllFor(v) : v \in Range(tried)}
    BY <1>1, <1>6
  <2> QED  BY <2>1, <1>1, <1>4 DEF SInv, FoundMatches
<1>14. Complete'
  BY <1>3 DEF Complete
<1> QED  BY <1>9, <1>11, <1>12, <1>13, <1>14 DEF SInv

LEMMA NextMachineStep ==
  ASSUME SInv, MInv', VirtMatched', next_machine
  PROVE  SInv'
<1>1. /\ pc = "next_machine" /\ Going
      /\ UNCHANGED <<callVars, passVars, found>> /\ pc' # "end" /\ pc' # "idle" /\ pc' # "raised"
      /\ pc' \in {"match", "push_if", "push_machine"}
  BY Zenon DEF next_machine, Going
<1>2. MInv /\ VirtMatched
  BY DEF SInv
<1>3. CASE /\ UNCHANGED poolVars /\ (machine_stack' # <<>> \/ pool_stack = 0)
           /\ \A g : Ahead(g)' => Ahead(g)
           /\ \A g \in Searched : Ahead(g) => Ahead(g)'
  <2>1. Going' /\ (machine_stack' = <<>> => pool_stack = 0)
    BY <1>1, <1>3 DEF Going
  <2> HIDE DEF Ahead, Searched
  <2> QED  BY <1>1, <1>3, <2>1, SameSearch
<1>4. CASE /\ machine_stack' = <<>> /\ pool_stack > 0
           /\ pool_name' = pool_stack /\ pool_stack' = pool_stack - 1
           /\ pc' = IF DOMAIN PoolNamed(pool_name') # {} THEN "push_machine" ELSE "match"
           /\ \A g \in Searched : ~Ahead(g)
  BY <1>1, <1>4, PoolBeforeOn
<1> QED  BY <1>2, <1>3, <1>4, NextMachineOn

LEMMA PushMachineStep ==
  ASSUME SInv, MInv', VirtMatched', _push_machine_stack
  PROVE  SInv'
<1>1. /\ Going /\ Going' /\ MInv
      /\ UNCHANGED <<callVars, passVars, poolVars, found>>
  BY DEF _push_machine_stack, Going, SInv
<1>2. machine_stack' # <<>>
  <2>1. PICK e : machine_stack' = Append(machine_stack, e)
    BY DEF _push_machine_stack
  <2>2. machine_stack \in Seq(MachineMatch) /\ machine_stack' \in Seq(MachineMatch)
    BY <1>1, HeldNow DEF MInv, TypeOK
  <2>3. e \in MachineMatch
    BY <2>1, <2>2, AppendedTyped
  <2> QED  BY <2>1, <2>2, <2>3, AppendProperties
<1>3. /\ \A g : Ahead(g)' => Ahead(g)
      /\ \A g \in Searched : Ahead(g) => Ahead(g)'
  BY <1>1, PushMachineOn
<1> HIDE DEF Ahead, Searched
<1> QED  BY <1>1, <1>2, <1>3, SameSearch

\* A new top leaves machines on the stack.
LEMMA StillOnStack ==
  ASSUME MInv, MInv', machine_stack # <<>>, NEW m, SetTop(m)
  PROVE  machine_stack' # <<>>
<1>1. /\ machine_stack \in Seq(MachineMatch) /\ machine_stack' \in Seq(MachineMatch)
      /\ Front(machine_stack) \in Seq(MachineMatch)
      /\ machine_stack' = Append(Front(machine_stack), m)
  BY HeldNow, LastFront DEF MInv, TypeOK, SetTop
<1>2. m \in MachineMatch
  BY <1>1, AppendedTyped
<1> QED  BY <1>1, <1>2, AppendProperties

LEMMA PushIfStep ==
  ASSUME SInv, MInv', VirtMatched', _push_if_stack
  PROVE  SInv'
<1>1. /\ pc = "push_if" /\ MInv /\ UNCHANGED <<callVars, passVars, poolVars, found>>
      /\ machine_stack # <<>>
  BY HeldNow DEF _push_if_stack, SInv, OnStack
<1>2. CASE pc' = "raised"
  BY <1>1, <1>2, StopsHere DEF Going, Complete
<1>3. CASE pc' # "raised"
  <2>1. /\ Going /\ Going' /\ machine_stack' # <<>>
    BY <1>1, <1>3, StillOnStack DEF _push_if_stack, Going
  <2>2. /\ \A g : Ahead(g)' => Ahead(g)
        /\ \A g \in Searched : Ahead(g) => Ahead(g)'
    BY <1>1, <1>3, PushIfOn
  <2> HIDE DEF Ahead, Searched
  <2> QED  BY <1>1, <2>1, <2>2, SameSearch
<1> QED  BY <1>2, <1>3

LEMMA VirtualMatchStep ==
  ASSUME SInv, MInv', VirtMatched', virtual_match
  PROVE  SInv'
<1>1. MInv /\ UNCHANGED <<callVars, passVars, poolVars, found>> /\ Going /\ Going'
  BY DEF virtual_match, AfterMatch, Going, SInv
<1>2. machine_stack' # <<>>
  BY <1>1, StillOnStack DEF virtual_match
<1>3. \A g : Ahead(g)' <=> Ahead(g)
  BY <1>1, VirtualMatchOn
<1> HIDE DEF Ahead, Searched
<1> QED  BY <1>1, <1>2, <1>3, SameSearch

LEMMA IfMatchStep ==
  ASSUME SInv, MInv', VirtMatched', _if_match
  PROVE  SInv'
<1>1. MInv /\ UNCHANGED <<callVars, passVars, poolVars, found>> /\ Going /\ Going'
  BY Zenon DEF _if_match, AfterMatch, Going, SInv
<1>2. machine_stack' # <<>>
  BY <1>1, StillOnStack, Zenon DEF _if_match
<1>3. /\ \A g : Ahead(g)' => Ahead(g)
      /\ \A g \in Searched : Ahead(g) => Ahead(g)'
  BY <1>1, IfMatchOn
<1> HIDE DEF Ahead, Searched
<1> QED  BY <1>1, <1>2, <1>3, SameSearch

LEMMA IfMatchFailsStep ==
  ASSUME SInv, MInv', VirtMatched', _if_match_fails
  PROVE  SInv'
<1>1. /\ MInv /\ UNCHANGED <<callVars, passVars, poolVars, found>> /\ Going /\ Going'
      /\ machine_stack' # <<>>
  BY DEF _if_match_fails, Going, SInv
<1>2. \A g : Ahead(g)' <=> Ahead(g)
  BY <1>1, IfMatchFailsOn
<1> HIDE DEF Ahead, Searched
<1> QED  BY <1>1, <1>2, SameSearch

LEMMA NoMatchStep ==
  ASSUME SInv, MInv', VirtMatched', no_match
  PROVE  SInv'
<1>1. /\ pc = "match" /\ machine_stack = <<>> /\ UNCHANGED <<callVars, found>>
      /\ \/ /\ Len(tried) = 1 /\ virtual_matching' = TRUE /\ tried' = Append(tried, TRUE)
            /\ reset_match_state(call.mreqs, TRUE)
         \/ /\ pc' = "end" /\ UNCHANGED <<passVars, poolVars>>
  BY Zenon DEF no_match
<1> QED  BY <1>1, SecondPassOn, EndOn, Zenon

LEMMA Stutters ==
  ASSUME SInv, MInv', VirtMatched', UNCHANGED vars
  PROVE  SInv'
<1>1. /\ call' = call /\ pools' = pools /\ tried' = tried /\ found' = found
      /\ virtual_matching' = virtual_matching /\ pool_name' = pool_name
      /\ pool_stack' = pool_stack /\ pc' = pc /\ machine_stack' = machine_stack
      /\ UNCHANGED <<callVars, passVars, poolVars, found>>
  BY DEF vars, callVars, passVars, poolVars
<1>2. \A g : Ahead(g)' <=> Ahead(g)
  <2>1. Open' <=> Open
    BY <1>1 DEF Open, Top
  <2> QED  BY <1>1, <2>1 DEF Ahead
<1>3. CASE Going
  <2>1. /\ Going'
        /\ pc' = "match" /\ machine_stack' = <<>> => pool_stack = 0 \/ DOMAIN call.mreqs = {}
    BY <1>1, <1>3 DEF Going, SInv, Passes
  <2> HIDE DEF Ahead, Searched
  <2> QED  BY <1>1, <1>2, <1>3, <2>1, SameSearch
<1>4. CASE ~Going
  <2>1. ~Going'
    BY <1>1, <1>4 DEF Going
  <2>2. \A v : AllFor(v)' = AllFor(v)
    BY <1>1, SearchSame
  <2>3. UNION {AllFor(v) : v \in Range(tried)}' = UNION {AllFor(v) : v \in Range(tried)}
    <3> HIDE DEF AllFor
    <3> QED  BY <1>1, <2>2
  <2>4. Complete'
    BY <1>1, <2>3 DEF SInv, Complete
  <2> QED  BY <1>1, <2>1, <2>4, StopsHere
<1> QED  BY <1>3, <1>4

LEMMA SearchStep ==
  ASSUME SInv, [Next]_vars
  PROVE  SInv'
<1>1. MInv' /\ VirtMatched'
  BY StepHolds, VirtMatchedKept DEF SInv
<1>2. CASE UNCHANGED vars
  BY <1>1, <1>2, Stutters
<1>3. ASSUME NEW c \in Calls, run(c) PROVE SInv'
  BY <1>1, <1>3, RunOn
<1>4. CASE yield_match
  BY <1>1, <1>4, YieldOn
<1>5. CASE _push_machine_stack
  BY <1>1, <1>5, PushMachineStep
<1>6. CASE _push_if_stack
  BY <1>1, <1>6, PushIfStep
<1>7. CASE virtual_match
  BY <1>1, <1>7, VirtualMatchStep
<1>8. CASE _if_match
  BY <1>1, <1>8, IfMatchStep
<1>9. CASE _if_match_fails
  BY <1>1, <1>9, IfMatchFailsStep
<1>10. CASE next_machine
  BY <1>1, <1>10, NextMachineStep
<1>11. CASE no_match
  BY <1>1, <1>11, NoMatchStep
<1> QED
  BY <1>2, <1>3, <1>4, <1>5, <1>6, <1>7, <1>8, <1>9, <1>10, <1>11 DEF Next, MapperNext

LEMMA SearchInit ==
  ASSUME Init
  PROVE  SInv
<1>1. MInv
  BY InitHolds
<1>2. ~Going /\ VirtMatched /\ Passes
  BY DEF Init, Going, VirtMatched, Passes
<1>3. Complete
  BY DEF Init, Complete
<1> QED  BY <1>1, <1>2, <1>3 DEF SInv, FoundWhere, NoneTwice, NoneMissed, FoundMatches

LEMMA EndsComplete ==
  ASSUME SInv
  PROVE  YieldsAll
<1>1. \A v : AllFor(v) = AllMatches(v)
  BY AllIsAll DEF SInv
<1> HIDE DEF AllFor, AllMatches
<1>2. UNION {AllFor(v) : v \in Range(tried)} = UNION {AllMatches(v) : v \in Range(tried)}
  BY <1>1
<1> QED  BY <1>2 DEF SInv, Complete, YieldsAll

LEMMA YieldIsNew ==
  ASSUME SInv
  PROVE  YieldsOnce
<1>1. SUFFICES ASSUME pc = "yield", IsInjective(tried)
               PROVE  get_mapping \notin found
  BY DEF YieldsOnce
<1>2. /\ Ahead(get_mapping) /\ get_mapping.pool_name = pool_name
      /\ get_mapping.virtual = virtual_matching
  BY <1>1, YieldedOnly
<1> HIDE DEF get_mapping, Ahead
<1> QED  BY <1>1, <1>2 DEF SInv, NoneTwice, Going

(***************************************************************************)
(* When matches() ends without a mapping, which the controller takes for   *)
(* "no match", it has yielded every match of every pool, with and (if      *)
(* allowed) without virtual machines: for any pools, requirements, calls.  *)
(***************************************************************************)
THEOREM SearchYieldsAll == Spec => []YieldsAll
<1>1. Init => SInv
  BY SearchInit
<1>2. SInv /\ [Next]_vars => SInv'
  BY SearchStep
<1>3. SInv => YieldsAll
  BY EndsComplete
<1> QED  BY <1>1, <1>2, <1>3, PTL DEF Spec

(***************************************************************************)
(* With multimatch no recipe runs twice on the same match, whatever the    *)
(* order in which the search gives matches up and comes back to them.      *)
(***************************************************************************)
THEOREM SearchYieldsOnce == Spec => []YieldsOnce
<1>1. Init => SInv
  BY SearchInit
<1>2. SInv /\ [Next]_vars => SInv'
  BY SearchStep
<1>3. SInv => YieldsOnce
  BY YieldIsNew
<1> QED  BY <1>1, <1>2, <1>3, PTL DEF Spec
=============================================================================

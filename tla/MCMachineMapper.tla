-------------------------- MODULE MCMachineMapper --------------------------
(* Pools and requirements for MachineMapper. *)
EXTENDS MachineMapper

If(net, ps) == [network |-> net, params |-> ps]
Host(ps, ifs) == [params |-> ps, interfaces |-> ifs]

Plain == <<>>
Driver(d) == [driver |-> d]
Virt == [libvirt_domain |-> "d"]

(* Machines of a pool: networks that agree or differ, one interface more *)
(* than is required, and virtual machines.                                *)
IfSets == {<<If("A", Driver("e"))>>,
           <<If("A", Plain), If("B", Driver("e"))>>,
           <<If("A", Driver("e")), If("A", Plain), If("B", Plain)>>}
PoolMachines == {Host(ps, ifs) : ps \in {Plain, Virt}, ifs \in IfSets}
PlainMachines == {m \in PoolMachines : m.params = Plain}
Last2 == Host(Plain, <<If("A", Plain), If("B", Plain)>>)

(* No pool; an empty pool; two pools; a pool in which two machines are alike. *)
MCPoolSets ==
  {<<>>, << <<>> >>}
  \union {<< <<a, b>>, <<Last2>> >> : a \in PoolMachines, b \in PlainMachines}
  \union {<< <<a, Last2, a>> >> : a \in PoolMachines}

(* Requirements of one or two machines with one or two interfaces. *)
ReqIfs == {<<If("n1", Plain)>>,
           <<If("n1", Driver("")), If("n1", Driver("e"))>>,
           <<If("n1", Plain), If("n2", Plain)>>}
ReqMachines == {Host(Plain, ifs) : ifs \in ReqIfs}
               \union {Host([libvirt_domain |-> "d"], <<If("n2", Plain)>>)}
Bare == Host(Plain, <<>>)

MCMreqs == {<<>>, <<Bare>>}
           \union {<<a>> : a \in ReqMachines}
           \union {<<a, b>> : a \in ReqMachines, b \in ReqMachines \union {Bare}}

(* Every mapper is asked twice, the second time after a search that ran to *)
(* its end or that was left at its first match (Controller.run without     *)
(* multimatch, or a recipe that raised).                                   *)
MCCalls == [mreqs : MCMreqs, multimatch : {TRUE}, allow_virt : BOOLEAN]
           \union [mreqs : {<<a>> : a \in ReqMachines} \union {<<a, a>> : a \in ReqMachines},
                   multimatch : {FALSE}, allow_virt : {FALSE}]
=============================================================================

------------------------------ MODULE EnrtRuns ------------------------------
(***************************************************************************)
(* One run of BaseEnrtRecipe.test: the test wide configuration of one of   *)
(* the ENRT recipes, one sub configuration (the MTU layer of the common    *)
(* hardware mixin), the tests, and the two deconfigurations the context    *)
(* managers promise.  The kernels of the hosts are external: what a step   *)
(* does there, when it is refused, and who reaches whom as a result.       *)
(*                                                                         *)
(* Commands run with host.run() do not raise when they fail: a route that  *)
(* the kernel refuses is silently missing.                                 *)
(***************************************************************************)
EXTENDS EnrtSteps

CONSTANTS Recipes,    \* name of a recipe -> what it does (EnrtSteps!Recipe)
          MTUs,       \* values of the parameter mtu; 0 stands for "not given"
          MayFail     \* whether a step may raise although nothing forbids it

ASSUME EnrtAssumption ==
    /\ \A n \in DOMAIN Recipes :
          /\ \A p \in Recipes[n].pings \cup Recipes[n].perf : Len(p) = 2
          /\ Recipes[n].far \subseteq Recipes[n].pings
    /\ MTUs \subseteq Nat /\ MayFail \in BOOLEAN

VARIABLES
    recipe, self,       \* the name of the recipe that runs and its record
    use_vfs,            \* its parameter use_vfs
    phase, pc,          \* the method that runs, and its next step
    raised,             \* the phase whose own step raised first, "fault" or "no"
    dev,                \* the devices that exist, with their kernel state
    addrs, routes, forwarding, redirects,
    tracked, drawn,     \* EnrtConfiguration._device_ips, the address iterators
    attrs,              \* attributes set on the configuration
    mtu, hw_config,     \* the parameter mtu, the recorded original values
    vfs, vf_config      \* physical devices with a virtual function, those noted

kernel == <<addrs, routes, forwarding, redirects>>
config == <<tracked, drawn>>
fixed == <<recipe, self, use_vfs>>
virtual == <<vfs, vf_config>>
vars == <<fixed, phase, pc, raised, dev, kernel, config, attrs, mtu, hw_config, virtual>>

Nics == DOMAIN self.req
Exists(d) == d \in DOMAIN dev
Fresh(ns, kind, up) ==
    [ns |-> ns, up |-> up, kind |-> kind, on |-> NoDev, tag |-> 0, peers |-> {},
     family |-> 0, master |-> NoDev, port |-> 0, mtu |-> 1500]

Init ==
    /\ recipe \in DOMAIN Recipes /\ self = Recipes[recipe]
    /\ use_vfs \in IF self.base = "baremetal" THEN BOOLEAN ELSE {FALSE}
    /\ phase = "vfs" /\ pc = 1 /\ raised = "no"
    /\ \E up \in BOOLEAN : dev = [d \in Nics |-> Fresh(d[1], "nic", up)]
    /\ addrs = {} /\ routes = {} /\ forwarding = {} /\ redirects = {}
    /\ tracked = <<>> /\ drawn = <<>> /\ attrs = {}
    /\ mtu = 0 /\ hw_config = <<>> /\ vfs = {} /\ vf_config = {}

-----------------------------------------------------------------------------
(* UseVfsMixin.test_wide_configuration, which the recipes' own calls first:*)
(* one virtual function for each required device takes its place, and is   *)
(* noted when it has.                                                      *)

(* Mutant of create_vfs: all are created before the first is noted.        *)
CreateAllVfs ==
    /\ phase = "vfs" /\ use_vfs /\ vfs = {} /\ vfs' = Nics
    /\ UNCHANGED <<fixed, phase, pc, raised, dev, kernel, config, attrs, mtu, hw_config, vf_config>>
create_vfs ==
    /\ phase = "vfs" /\ use_vfs /\ vfs = vf_config
    /\ \E d \in Nics \ vfs : vfs' = vfs \cup {d}
    /\ UNCHANGED <<fixed, phase, pc, raised, dev, kernel, config, attrs, mtu, hw_config, vf_config>>
map_device ==
    /\ phase = "vfs" /\ vfs # vf_config
    /\ vf_config' = vfs
    /\ UNCHANGED <<fixed, phase, pc, raised, dev, kernel, config, attrs, mtu, hw_config, vfs>>
vfs_created ==
    /\ phase = "vfs" /\ (use_vfs => vf_config = Nics)
    /\ phase' = "config"
    /\ UNCHANGED <<fixed, pc, raised, dev, kernel, config, attrs, mtu, hw_config, virtual>>

-----------------------------------------------------------------------------
(* test_wide_configuration, step by step.                                  *)

Step == self.cfg[pc]
Aggregates == {"bond", "team"}
OnReal == {"vlan", "macvlan", "macsec"}
Tunnels == {"tunnel", "vxlan", "ovs_tunnel"}

(* A device `d` with an address of the family in the configuration: what   *)
(* ips_for_device(d, family)[0] needs.                                     *)
HasTracked(d, family) == d \in DOMAIN tracked /\ \E a \in tracked[d] : a.net[1] = family

(* The steps that raise: an attribute the host does not have, a device     *)
(* whose real device is down, an enslaved device that is up, a remote      *)
(* without an address.                                                     *)
Raises(s) ==
    \/ s.op # "create" /\ s.dev # NoDev /\ ~Exists(s.dev)
    \/ s.op = "create" /\ \/ Exists(s.dev)
                          \/ s.on # NoDev /\ (~Exists(s.on) \/ dev[s.on].ns # s.dev[1])
                          \/ s.family # 0 /\ \E p \in s.peers : ~HasTracked(p, s.family)
    \/ s.op = "up" /\ dev[s.dev].kind \in OnReal /\ ~dev[dev[s.dev].on].up
    \/ s.op = "slave_add" /\ \/ ~Exists(s.master)
                             \/ dev[s.master].ns # dev[s.dev].ns
                             \/ dev[s.dev].master # NoDev
                             \/ dev[s.master].kind \in Aggregates /\ dev[s.dev].up
    \/ s.op = "redirect" /\ ~Exists(s.to)

At(op) == phase = "config" /\ pc <= Len(self.cfg) /\ Step.op = op /\ ~Raises(Step)
Advance == pc' = pc + 1 /\ UNCHANGED <<fixed, phase, raised, mtu, hw_config, virtual>>
Keep(S, d) == {x \in S : x.dev # d}

create ==
    /\ At("create") /\ Advance
    /\ dev' = dev @@ (Step.dev :> [Fresh(Step.dev[1], Step.kind, Step.kind = "lo") EXCEPT
                         !.on = Step.on, !.tag = Step.tag, !.peers = Step.peers, !.family = Step.family,
                         !.mtu = IF Step.on = NoDev THEN 1500
                                 ELSE dev[Step.on].mtu - (IF Step.kind = "vxlan" THEN 50 ELSE 0)])
    /\ UNCHANGED <<kernel, config, attrs>>

(* IPv6 addresses are tentative from the moment their device is up until   *)
(* duplicate address detection ends.                                       *)
up ==
    /\ At("up") /\ Advance
    /\ dev' = [dev EXCEPT ![Step.dev].up = TRUE]
    /\ UNCHANGED <<kernel, config, attrs>>

(* A device that goes down loses its routes and IPv6 addresses, its VLANs  *)
(* go down with it.                                                        *)
down ==
    /\ At("down") /\ Advance
    /\ dev' = [d \in DOMAIN dev |->
                 IF d = Step.dev \/ (dev[d].kind = "vlan" /\ dev[d].on = Step.dev)
                 THEN [dev[d] EXCEPT !.up = FALSE] ELSE dev[d]]
    /\ addrs' = {a \in addrs : a.dev # Step.dev \/ a.net[1] = 4}
    /\ routes' = Keep(routes, Step.dev)
    /\ UNCHANGED <<forwarding, redirects, config, attrs>>

slave_add ==
    /\ At("slave_add") /\ Advance
    /\ dev' = [dev EXCEPT ![Step.dev].master = Step.master, ![Step.dev].port = Step.tag,
                          ![Step.dev].up = @ \/ dev[Step.master].kind \in Aggregates]
    /\ UNCHANGED <<kernel, config, attrs>>

Drawn(net) == IF net \in DOMAIN drawn THEN drawn[net] ELSE 0
IsTrackOf(s, t) == t @@ (s.dev :> {})
AddAddress(number) ==
    addrs' = addrs \cup {[dev |-> Step.dev, net |-> Step.net, k |-> number, tent |-> Step.net[1] = 6]}
(* Mutant of Draw: the iterator does not advance.                          *)
DrawNothing == drawn' = drawn
TheNumber == IF Step.k # 0 THEN Step.k ELSE Drawn(Step.net) + 1
Draw == drawn' = IF Step.k # 0 THEN drawn ELSE (Step.net :> TheNumber) @@ drawn

(* configure_and_track_ip, and Device.ip_add alone.                        *)
track_ip ==
    /\ At("track_ip") /\ Advance
    /\ AddAddress(TheNumber) /\ Draw
    /\ tracked' = [IsTrackOf(Step, tracked) EXCEPT ![Step.dev] = @ \cup {Addr(Step.net, TheNumber)}]
    /\ UNCHANGED <<dev, routes, forwarding, redirects, attrs>>
ip_add ==
    /\ At("ip_add") /\ Advance
    /\ AddAddress(TheNumber) /\ Draw
    /\ UNCHANGED <<dev, routes, forwarding, redirects, tracked, attrs>>
track_device ==
    /\ At("track") /\ Advance
    /\ tracked' = IsTrackOf(Step, tracked)
    /\ UNCHANGED <<dev, kernel, drawn, attrs>>

(* `ip route add`: refused, in silence, when the device is down or the     *)
(* gateway is not in a network of the device.                              *)
route ==
    /\ At("route") /\ Advance
    /\ routes' = IF dev[Step.dev].up
                    /\ \/ Step.gw = NoAddr
                       \/ \E a \in addrs : a.dev = Step.dev /\ a.net = Step.gw.net
                 THEN routes \cup {[dev |-> Step.dev, ns |-> Step.ns, dst |-> Step.dst, gw |-> Step.gw]}
                 ELSE routes
    /\ UNCHANGED <<dev, addrs, forwarding, redirects, config, attrs>>
forward ==
    /\ At("forward") /\ Advance
    /\ forwarding' = forwarding \cup {Step.ns}
    /\ UNCHANGED <<dev, addrs, routes, redirects, config, attrs>>
redirect ==
    /\ At("redirect") /\ Advance
    /\ redirects' = redirects \cup {<<Step.dev, Step.to>>}
    /\ UNCHANGED <<dev, addrs, routes, forwarding, config, attrs>>

(* A device that changes its namespace arrives down and without addresses. *)
move ==
    /\ At("move") /\ Advance
    /\ dev' = [dev EXCEPT ![Step.dev].ns = Step.ns, ![Step.dev].up = FALSE]
    /\ addrs' = Keep(addrs, Step.dev) /\ routes' = Keep(routes, Step.dev)
    /\ UNCHANGED <<forwarding, redirects, config, attrs>>

(* wait_tentative_ips(config.configured_devices): the addresses of tracked *)
(* devices that are up settle.                                             *)
wait_tentative_ips ==
    /\ At("wait") /\ Advance
    /\ addrs' = {IF a.dev \in DOMAIN tracked /\ dev[a.dev].up THEN [a EXCEPT !.tent = FALSE] ELSE a
                 : a \in addrs}
    /\ UNCHANGED <<dev, routes, forwarding, redirects, config, attrs>>
set_attribute ==
    /\ At("set") /\ Advance
    /\ attrs' = attrs \cup {Step.name}
    /\ UNCHANGED <<dev, kernel, config>>

(* A recipe without a list of devices for it takes no parameter mtu.       *)
configured ==
    /\ phase = "config" /\ pc > Len(self.cfg)
    /\ phase' = "mtu" /\ pc' = 1
    /\ mtu' \in IF self.mtu = <<>> THEN {0} ELSE MTUs
    /\ UNCHANGED <<fixed, raised, dev, kernel, config, attrs, hw_config, virtual>>

(* A step raises, or the agent fails in it: _test_wide_context goes to the *)
(* deconfiguration with the configuration as far as it got.                *)
ToUndo(why) ==
    /\ phase' = "undo" /\ pc' = 1
    /\ raised' = IF raised = "no" THEN why ELSE raised
    /\ UNCHANGED <<fixed, dev, kernel, config, attrs, mtu, hw_config, virtual>>
config_raises ==
    /\ phase \in {"vfs", "config"} /\ (phase = "config" => pc <= Len(self.cfg))
    /\ LET refused == phase = "config" /\ Raises(Step)
       IN  (MayFail \/ refused) /\ ToUndo(IF refused THEN "config" ELSE "fault")

-----------------------------------------------------------------------------
(* MTUHWConfigMixin.hw_config and hw_deconfig over mtu_hw_config_dev_list. *)

(* Most the kernel accepts on top of the real device.                      *)
Limit(d) ==
    CASE dev[d].kind \in OnReal -> dev[dev[d].on].mtu
      [] dev[d].kind = "vxlan" /\ dev[d].on # NoDev -> dev[dev[d].on].mtu - 50
      [] OTHER -> 65535

(* Setting it reaches the members of a bond or team, and lowers what is on *)
(* top of the device.                                                      *)
SetMTU(d, value) ==
    LET touched == {d} \cup {s \in DOMAIN dev : (dev[s].master = d /\ dev[d].kind \in Aggregates)}
        low == {u \in DOMAIN dev : dev[u].kind \in OnReal /\ dev[u].on \in touched /\ dev[u].mtu > value}
    IN  dev' = [x \in DOMAIN dev |-> IF x \in touched \cup low THEN [dev[x] EXCEPT !.mtu = value]
                                     ELSE dev[x]]

Applying == phase = "mtu" /\ mtu # 0 /\ pc <= Len(self.mtu)
(* Mutant of Record: the new value is recorded.                            *)
RecordTheNew(d) == hw_config' = (d :> mtu) @@ hw_config
Record(d) == hw_config' = (d :> dev[d].mtu) @@ hw_config

hw_config_mtu ==
    /\ Applying /\ mtu <= Limit(self.mtu[pc])
    /\ Record(self.mtu[pc]) /\ SetMTU(self.mtu[pc], mtu)
    /\ pc' = pc + 1
    /\ UNCHANGED <<fixed, phase, raised, kernel, config, attrs, mtu, virtual>>
(* The assignment raises; the original value is recorded by then.          *)
hw_config_raises(why) ==
    /\ Record(self.mtu[pc])
    /\ phase' = "remove" /\ pc' = 1 /\ raised' = why
    /\ UNCHANGED <<fixed, dev, kernel, config, attrs, mtu, virtual>>
hw_config_refused == Applying /\ mtu > Limit(self.mtu[pc]) /\ hw_config_raises("mtu")
hw_config_fails == MayFail /\ Applying /\ hw_config_raises("fault")
applied ==
    /\ phase = "mtu" /\ ~Applying
    /\ phase' = "test" /\ pc' = 1
    /\ UNCHANGED <<fixed, raised, dev, kernel, config, attrs, mtu, hw_config, virtual>>

do_tests ==
    /\ phase = "test"
    /\ phase' = "remove"
    /\ UNCHANGED <<fixed, pc, raised, dev, kernel, config, attrs, mtu, hw_config, virtual>>

Removing == phase = "remove" /\ mtu # 0 /\ pc <= Len(self.mtu)
hw_deconfig_mtu ==
    /\ Removing /\ self.mtu[pc] \in DOMAIN hw_config
    /\ hw_config[self.mtu[pc]] <= Limit(self.mtu[pc])
    /\ SetMTU(self.mtu[pc], hw_config[self.mtu[pc]])
    /\ hw_config' = [d \in DOMAIN hw_config \ {self.mtu[pc]} |-> hw_config[d]]
    /\ pc' = pc + 1
    /\ UNCHANGED <<fixed, phase, raised, kernel, config, attrs, mtu, virtual>>
(* A device whose original value was never recorded is a KeyError.         *)
hw_deconfig_raises ==
    /\ Removing
    /\ self.mtu[pc] \in DOMAIN hw_config => hw_config[self.mtu[pc]] > Limit(self.mtu[pc])
    /\ ToUndo("remove")
removed == phase = "remove" /\ ~Removing /\ ToUndo("no")

-----------------------------------------------------------------------------
(* test_wide_deconfiguration.                                              *)

Undoing(op) == phase = "undo" /\ pc <= Len(self.undo) /\ self.undo[pc].op = op
undo_needs ==
    /\ Undoing("needs") /\ self.undo[pc].name \in attrs
    /\ pc' = pc + 1
    /\ UNCHANGED <<fixed, phase, raised, dev, kernel, config, attrs, mtu, hw_config, virtual>>
delete_vfs ==
    /\ Undoing("super")
    /\ vfs' = vfs \ vf_config /\ vf_config' = {} /\ pc' = pc + 1
    /\ UNCHANGED <<fixed, phase, raised, dev, kernel, config, attrs, mtu, hw_config>>
(* An AttributeError of the deconfiguration: the rest of it is skipped.    *)
undo_raises ==
    /\ Undoing("needs") /\ self.undo[pc].name \notin attrs
    /\ phase' = "done" /\ raised' = IF raised = "no" THEN "undo" ELSE raised
    /\ UNCHANGED <<fixed, pc, dev, kernel, config, attrs, mtu, hw_config, virtual>>
undone ==
    /\ phase = "undo" /\ pc > Len(self.undo)
    /\ phase' = "done"
    /\ UNCHANGED <<fixed, pc, raised, dev, kernel, config, attrs, mtu, hw_config, virtual>>

Next ==
    \/ create_vfs \/ map_device \/ vfs_created
    \/ create \/ up \/ down \/ slave_add \/ track_ip \/ ip_add \/ track_device \/ route
    \/ forward \/ redirect \/ move \/ wait_tentative_ips \/ set_attribute \/ configured
    \/ config_raises
    \/ hw_config_mtu \/ hw_config_refused \/ hw_config_fails \/ applied \/ do_tests
    \/ hw_deconfig_mtu \/ hw_deconfig_raises \/ removed
    \/ undo_needs \/ delete_vfs \/ undo_raises \/ undone

Spec == Init /\ [][Next]_vars

-----------------------------------------------------------------------------
(* Who reaches whom.  A node is a device with the VLAN tag of the frames   *)
(* on it; two nodes are joined when a frame on one appears on the other.   *)

Active(d) == dev[d].up \/ dev[d].kind \in {"ovs", "ovs_tunnel"}
Ups == {d \in DOMAIN dev : Active(d)}
Tags == {0} \cup {dev[d].tag : d \in DOMAIN dev} \cup {dev[d].port : d \in DOMAIN dev}

(* Devices that carry a frame on as it is: the two ends of a cable or of a *)
(* veth pair, a virtual function and its representor, an untagged port and *)
(* its bridge, bond or team.                                               *)
Straight(d, e) ==
    \/ d \in Nics /\ e \in Nics /\ d # e /\ self.req[d] = self.req[e]
    \/ dev[d].kind \in {"veth", "vf"} /\ dev[d].on = e
    \/ dev[d].master = e /\ dev[d].port = 0
(* The device below `d` that carries its frames, with the tag they get.    *)
Below(d) ==
    IF dev[d].kind \in OnReal THEN {<<dev[d].on, dev[d].tag>>}
    ELSE IF dev[d].port # 0 THEN {<<dev[d].master, dev[d].port>>} ELSE {}
Cables ==
    LET straight == {x \in Ups \X Ups : Straight(x[1], x[2])}
        half == {<<<<x[1], t>>, <<x[2], t>>>> : x \in straight, t \in Tags}
                \cup UNION {{<<<<d, 0>>, y>> : y \in {y \in Below(d) : y[1] \in Ups}} : d \in Ups}
    IN  half \cup {<<x[2], x[1]>> : x \in half}
        \cup {<<<<r[1], t>>, <<r[2], t>>>> : r \in redirects, t \in Tags}

(* The devices where an untagged frame sent on `d` appears.                *)
Hops == 12
Segment(edges, d) ==
    LET seen[n \in 0..Hops] ==
          IF n = 0 THEN {<<d, 0>>}
          ELSE LET before == seen[n - 1] IN before \cup {e[2] : e \in {e \in edges : e[1] \in before}}
    IN  {x[1] : x \in {x \in seen[Hops] : x[2] = 0}}
Reach(edges) == UNION {{d} \X Segment(edges, d) : d \in Ups}

(* A route to the destination, and a frame that arrives where it lives.    *)
Covers(dst, a) == dst \in {Addr(a.net, a.k), Net(a.net), Default(a.net[1])}
OnLink(reach, ns, a) ==
    \E x \in reach :
        /\ dev[x[1]].ns = ns /\ dev[x[2]].ns = dev[a.dev].ns
        /\ \/ \E b \in addrs : b.dev = x[1] /\ b.net = a.net
           \/ \E r \in routes : r.dev = x[1] /\ r.gw = NoAddr /\ Covers(r.dst, a)
Delivers(reach, ns, a) ==
    \/ OnLink(reach, ns, a)
    \/ \E r \in routes, g \in addrs :
          /\ r.ns = ns /\ Covers(r.dst, a) /\ r.gw = Addr(g.net, g.k)
          /\ OnLink(reach, ns, g)
          /\ \/ dev[g.dev].ns = dev[a.dev].ns
             \/ dev[g.dev].ns \in forwarding /\ OnLink(reach, dev[g.dev].ns, a)
Talks(reach, a, b) == Delivers(reach, dev[a.dev].ns, b) /\ Delivers(reach, dev[b.dev].ns, a)

AddressesOf(d, family) == {a \in addrs : a.dev = d /\ a.net[1] = family}

(* Two tunnel devices whose endpoints reach each other are joined.         *)
Network ==
    LET cables == Cables
        reach == Reach(cables)
        T == {d \in Ups : dev[d].kind \in Tunnels}
        Far(t, u) ==
            \E p \in dev[t].peers, q \in dev[u].peers :
                /\ dev[p].ns = u[1] /\ dev[q].ns = t[1]
                /\ \E a \in addrs, b \in addrs :
                      a.dev = p /\ b.dev = q /\ a.net[1] = b.net[1] /\ Talks(reach, a, b)
        joined == {x \in T \X T : x[1] # x[2] /\ dev[x[1]].tag = dev[x[2]].tag /\ Far(x[1], x[2])}
    IN  IF joined = {} THEN reach
        ELSE Reach(cables \cup {<<<<x[1], t>>, <<x[2], t>>>> : x \in joined, t \in Tags})

(* Whether every address of one end reaches an address of the other.       *)
PairTalks(reach, pair, family) ==
    \A a \in AddressesOf(pair[1], family) :
        \E b \in AddressesOf(pair[2], family) : Talks(reach, a, b)

-----------------------------------------------------------------------------
TypeOK ==
    /\ recipe \in DOMAIN Recipes /\ use_vfs \in BOOLEAN /\ mtu \in MTUs \cup {0}
    /\ phase \in {"vfs", "config", "mtu", "test", "remove", "undo", "done"}
    /\ raised \in {"no", "fault", "config", "mtu", "remove", "undo"}
    /\ vf_config \subseteq vfs /\ vfs \subseteq Nics /\ DOMAIN hw_config \subseteq DOMAIN dev
    /\ \A a \in addrs : Exists(a.dev) /\ a.k \in Nat \ {0}
    /\ \A d \in DOMAIN dev : dev[d].mtu \in Nat

(* No step of a configuration raises by itself: devices exist when they    *)
(* are used, are down when they are enslaved and over a device that is up  *)
(* when they go up, and the far end of a tunnel has its address.           *)
Configures == raised # "config"

(* The ends of every pair to ping have as many addresses, at least one of  *)
(* a tested family, and reach each other through what was configured.      *)
PingPairsConnected ==
    phase = "test" =>
        LET reach == Network
        IN  \A p \in self.pings :
              /\ \E f \in self.vers : AddressesOf(p[1], f) # {}
              /\ \A f \in self.vers :
                    /\ Cardinality(AddressesOf(p[1], f)) = Cardinality(AddressesOf(p[2], f))
                    /\ p \notin self.far => PairTalks(reach, p, f)

(* The pairs a recipe expects not to reach each other are apart.           *)
FarPairsApart ==
    phase = "test" /\ self.far # {} =>
        LET reach == Network
        IN  \A p \in self.far : \A a \in AddressesOf(p[1], 4), b \in AddressesOf(p[2], 4) : ~Talks(reach, a, b)

(* A performance flow finds its endpoints among the tracked addresses,     *)
(* with as many on both sides.                                             *)
PerfPairsTracked ==
    phase = "test" =>
        \A p \in self.perf :
            /\ {p[1], p[2]} \subseteq DOMAIN tracked
            /\ \E f \in self.vers : HasTracked(p[1], f)
            /\ \A f \in self.vers : Cardinality({a \in tracked[p[1]] : a.net[1] = f})
                                 = Cardinality({a \in tracked[p[2]] : a.net[1] = f})

(* No two devices hold the same address.                                   *)
AddressesUnique ==
    \A a \in addrs, b \in addrs : a.net = b.net /\ a.k = b.k => a.dev = b.dev

(* No address of a tested pair is still tentative when the tests start.    *)
(* SimpleNetnsRouterRecipe is the one exception: it waits before it        *)
(* configures the devices it pings.                                        *)
NoFinalWait == {"SimpleNetnsRouter"}
AddressesSettled ==
    phase = "test" /\ recipe \notin NoFinalWait =>
        \A a \in addrs : a.dev \in UNION {{p[1], p[2]} : p \in self.pings} => ~a.tent

(* Whether mtu_hw_config_dev_list names every device after the device it   *)
(* is on.                                                                  *)
RealDevicesFirst ==
    \A i \in DOMAIN self.mtu : Exists(self.mtu[i]) /\ dev[self.mtu[i]].kind \in OnReal \cup {"vxlan"} =>
        dev[self.mtu[i]].on \in {NoDev} \cup {self.mtu[j] : j \in 1..i-1}
(* With such a list no device is refused the MTU of the parameter, and no  *)
(* removal of a sub configuration raises unless its application did.       *)
MtuAccepted == raised \in {"mtu", "remove"} => ~RealDevicesFirst

(* ... and the matched devices have their MTU back after the removal,      *)
(* wherever the application stopped.                                       *)
MtuRestored == phase \in {"undo", "done"} /\ RealDevicesFirst => \A d \in Nics : dev[d].mtu = 1500

(* The deconfiguration of a run in which nothing failed does not raise.    *)
UndoneWithoutError == raised # "undo"

(* Wherever a run fails, virtual functions outlive it only when the        *)
(* deconfiguration of its class never reaches that of UseVfsMixin          *)
(* (BondingMixin's does not); when it reads, before it does, what the      *)
(* configuration that failed had not set; or when one had just been        *)
(* created, and its device was not mapped yet.                             *)
CallsSuper == \E i \in DOMAIN self.undo : self.undo[i].op = "super"
ReadsFirst == CallsSuper /\ self.undo[1].op = "needs" /\ self.undo[1].name \notin attrs
VfsGivenBack ==
    phase = "done" /\ CallsSuper /\ vfs # {} =>
        /\ raised = "fault"
        /\ (ReadsFirst \/ Cardinality(vfs) = 1)

(* Nothing a recipe asks for is refused: neither a step of its             *)
(* configuration nor an MTU.                                               *)
StepsAccepted == Configures /\ MtuAccepted

(* The end of a run: the deconfiguration does not raise unless something   *)
(* failed before it, and wherever that was no virtual function stays but   *)
(* in the cases above.                                                     *)
RunsGiveBack == UndoneWithoutError /\ VfsGivenBack

(* The pairs to ping reach each other, or do not, as the recipe expects.   *)
PingPairsAsPromised == PingPairsConnected /\ FarPairsApart

(* The addresses a test works with are unique, settled and tracked.        *)
AddressesInOrder == TypeOK /\ AddressesUnique /\ AddressesSettled /\ PerfPairsTracked
=============================================================================

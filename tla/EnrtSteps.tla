------------------------------ MODULE EnrtSteps ------------------------------
(***************************************************************************)
(* The steps an ENRT recipe's test_wide_configuration is made of.  A       *)
(* recipe of EnrtRecipes is a sequence of them, in the order of the calls  *)
(* of its source; EnrtRuns executes them.                                  *)
(*                                                                         *)
(* A namespace is a sequence of names: <<"host1">> is the root namespace   *)
(* of a matched host, <<"host1", "newns">> a NetNamespace on it.  A device *)
(* is the namespace it is created or required in, with its name; it keeps  *)
(* that identity when it moves.                                            *)
(*                                                                         *)
(* An IP network is a pair <<family, prefix>>, an address a network and    *)
(* its number in it.  A host address (/32, /128) is a network of its own.  *)
(***************************************************************************)
EXTENDS Naturals, Sequences, FiniteSets, SequencesExt, TLC

host1 == <<"host1">>
host2 == <<"host2">>
guest(i) == <<<<"guest1">>, <<"guest2">>, <<"guest3">>, <<"guest4">>>>[i]
Dev(ns, name) == <<ns, name>>
Other(ns) == IF ns[1] = "host1" THEN <<"host2">> \o Tail(ns) ELSE <<"host1">> \o Tail(ns)

V4(prefix) == <<4, prefix>>
V6(prefix) == <<6, prefix>>
(* Destinations of routes: one address, a whole network, everything.       *)
Addr(net, k) == [net |-> net, k |-> k]
Net(net) == [net |-> net, k |-> 0]
Default(family) == [net |-> <<family, "default">>, k |-> 0]
NoAddr == Net(<<0, "none">>)
NoDev == Dev(<<>>, "none")

(* One step for every device of a sequence: `for dev in [...]: dev.up()`.  *)
PerDevice(op, ds) == [i \in DOMAIN ds |-> [op |-> op, dev |-> ds[i]]]
Up(ds) == PerDevice("up", ds)
Down(ds) == PerDevice("down", ds)
Track(ds) == PerDevice("track", ds)

(* A soft device on real device `on` (NoDev: none).  tag is a VLAN id or   *)
(* the key of a tunnel, peers the devices at the far end of a tunnel whose *)
(* addresses of the family it takes from the configuration's tracked ones. *)
Create(kind, d, on, tag, peers, family) ==
    <<[op |-> "create", dev |-> d, kind |-> kind, on |-> on, tag |-> tag,
       peers |-> peers, family |-> family]>>
New(kind, d) == Create(kind, d, NoDev, 0, {}, 0)
Vlan(d, on, id) == Create("vlan", d, on, id, {}, 0)
Over(kind, d, on) == Create(kind, d, on, 0, {}, 0)
Tunnel(d, on, remote, family) == Create("tunnel", d, on, 0, {remote}, family)
VethPair(a, b) == New("veth", a) \o Over("veth", b, a)

(* master.slave_add(dev), br.port_add(dev, tag) for each of ds in turn.    *)
Ports(master, ds, tag) ==
    [i \in DOMAIN ds |-> [op |-> "slave_add", dev |-> ds[i], master |-> master, tag |-> tag]]
Slaves(master, ds) == Ports(master, ds, 0)
(* An internal port of an OVS bridge, and a tunnel port.                   *)
Internal(br, d) == New("internal", d) \o Slaves(br, <<d>>)
TunnelPort(br, d, on, remote, family) ==
    Create("ovs_tunnel", d, on, 0, {remote}, family) \o Slaves(br, <<d>>)

(* config.configure_and_track_ip(d, next(iterator of net)) for each net.   *)
Ips(d, nets) == [i \in DOMAIN nets |-> [op |-> "track_ip", dev |-> d, net |-> nets[i], k |-> 0]]
(* The same with an address written in the recipe.                         *)
IpAt(d, net, k) == <<[op |-> "track_ip", dev |-> d, net |-> net, k |-> k]>>
(* dev.ip_add(next(iterator of net)): the configuration does not track it. *)
IpAdd(d, net) == <<[op |-> "ip_add", dev |-> d, net |-> net, k |-> 0]>>

RouteVia(ns, dst, d, gw) == <<[op |-> "route", dev |-> d, ns |-> ns, dst |-> dst, gw |-> gw]>>
Route(ns, dst, d) == RouteVia(ns, dst, d, NoAddr)
Forward(ns) == <<[op |-> "forward", dev |-> NoDev, ns |-> ns]>>
Move(d, ns) == <<[op |-> "move", dev |-> d, ns |-> ns]>>
(* A tc filter that redirects what enters `from` to `to`.                  *)
Redirect(from, to) == <<[op |-> "redirect", dev |-> from, to |-> to]>>
Wait == <<[op |-> "wait", dev |-> NoDev]>>
(* An attribute of a host or of the configuration the deconfiguration of   *)
(* the recipe reads.                                                       *)
Set(name) == <<[op |-> "set", dev |-> NoDev, name |-> name]>>

(* The same steps on host1, then on host2.                                 *)
EachHost(Steps(_)) == Steps(host1) \o Steps(host2)
Each(seq, Steps(_)) == FlattenSeq([i \in DOMAIN seq |-> Steps(seq[i])])

(* Mutant of create_bond_devices: the ports are not set down.              *)
BondOfRunningPorts(bond, ports) == Set("bonding_config") \o New("bond", bond) \o Slaves(bond, ports)
(* BondingMixin.create_bond_devices for one bond.                          *)
create_bond_devices(bond, ports) ==
    Set("bonding_config") \o New("bond", bond)
    \o Each(ports, LAMBDA d : Down(<<d>>) \o Slaves(bond, <<d>>))

(* What one step of a recipe's deconfiguration does: read an attribute set *)
(* by the configuration, or call the next class of the MRO, which is where *)
(* UseVfsMixin gives the virtual functions back.                           *)
Needs(name) == <<[op |-> "needs", name |-> name]>>
Super == <<[op |-> "super", name |-> "none"]>>

(* A recipe: the devices its requirements match, with the label of their   *)
(* network; the configuration; the pairs to ping and, among them, those    *)
(* that must not reach each other; the pairs of a performance test; the IP *)
(* versions tested; the devices whose MTU the recipe sets, in order; the   *)
(* deconfiguration; the class the common mixins come from.                 *)
Recipe(req, cfg, pings, perf) ==
    [req |-> req, cfg |-> cfg, pings |-> pings, far |-> {}, perf |-> perf,
     vers |-> {4, 6}, mtu |-> <<>>, undo |-> Super, base |-> "baremetal"]

=============================================================================

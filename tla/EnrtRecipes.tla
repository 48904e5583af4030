----------------------------- MODULE EnrtRecipes -----------------------------
(***************************************************************************)
(* The ENRT recipes: for each class its requirements, what its             *)
(* test_wide_configuration does, in order, which pairs it pings and        *)
(* measures, and what its test_wide_deconfiguration needs.                 *)
(*                                                                         *)
(* Left out: options of devices that decide no step (bonding mode, VXLAN   *)
(* ports, namespace names), commands run on a host that change nothing a   *)
(* ping depends on, and the descriptions written to the results.           *)
(***************************************************************************)
EXTENDS EnrtSteps

eth(ns, i) == Dev(ns, <<"eth0", "eth1">>[i + 1])
eth0(ns) == eth(ns, 0)
Eths == <<eth0(host1), eth0(host2)>>
Both(name) == <<Dev(host1, name), Dev(host2, name)>>
Pair(name) == {Both(name)}
Reversed(pair) == <<pair[2], pair[1]>>

-----------------------------------------------------------------------------
(* Requirements: every matched device with the label of its network.       *)

Wires(label, devs) == [d \in devs |-> label]
SimpleNetworkReq == Wires("net1", {eth0(host1), eth0(host2)})
BondOrTeamReq == Wires("tnet", {eth0(host1), eth(host1, 1), eth0(host2)})
DoubleTeamOrBondReq == BondOrTeamReq @@ Wires("tnet", {eth(host2, 1)})
Tap(host, tap, g) == Wires(guest(g)[1], {Dev(host, tap), eth0(guest(g))})
Uplinks == Wires("to_switch", {eth0(host1), eth0(host2)})
VirtualBridgeReq == Uplinks @@ Tap(host1, "tap0", 1)
VirtualBridgeMirroredReq == VirtualBridgeReq @@ Tap(host2, "tap0", 2)
VirtOvsVxlanReq ==
    Uplinks @@ Tap(host1, "tap0", 1) @@ Tap(host1, "tap1", 2)
            @@ Tap(host2, "tap0", 3) @@ Tap(host2, "tap1", 4)
VirtualBridgeOverBondReq ==
    VirtOvsVxlanReq @@ Wires("to_switch", {eth(host1, 1), eth(host2, 1)})

-----------------------------------------------------------------------------
(* Plain networks, bonds and teams.                                        *)

net101 == <<V4("192.168.101"), V6("fc00")>>
net10 == <<V4("192.168.10"), V6("fc00:0:0:1")>>

BaseSimpleNetwork(req) ==
    Recipe(req,
           EachHost(LAMBDA h : Ips(eth0(h), net101) \o Up(<<eth0(h)>>)) \o Wait,
           {Eths}, {Eths})
SimpleNetworkRecipe == [BaseSimpleNetwork(SimpleNetworkReq) EXCEPT !.mtu = Eths]

ShortLivedConnectionsRecipe ==
    [Recipe(SimpleNetworkReq,
            EachHost(LAMBDA h : Down(<<eth0(h)>>) \o Ips(eth0(h), <<net101[1]>>)
                                \o Up(<<eth0(h)>>)) \o Wait,
            {}, {Eths}) EXCEPT !.vers = {4}, !.mtu = Eths]

SimpleNetnsRouterRecipe ==
    LET inner == <<V4("192.168.102"), V6("fc00:1")>>
        ns == <<"host2", "ns">>
        pn0 == Dev(host2, "pn0")  np0 == Dev(host2, "np0")
    IN  [SimpleNetworkRecipe EXCEPT
         !.cfg = @ \o VethPair(pn0, np0) \o Move(np0, ns)
                   \o Ips(pn0, inner) \o Ips(np0, inner) \o Up(<<pn0, np0>>)
                   \o Each(inner, LAMBDA n : RouteVia(ns, Default(n[1]), np0, Addr(n, 1)))
                   \o Forward(host2)
                   \o Each(<<1, 2>>, LAMBDA i : RouteVia(host1, Addr(inner[i], 2), eth0(host1),
                                                         Addr(net101[i], 2))),
         !.pings = {<<eth0(host1), np0>>}, !.perf = {<<eth0(host1), np0>>}]

ForwardingRecipe ==
    LET inner == <<V4("192.168.102"), V6("fc00:1")>>
        ns == <<"host1", "ns">>
        egress == eth(host2, 1)  receiver == eth(host1, 1)
    IN  [SimpleNetworkRecipe EXCEPT
         !.req = Wires("net1", {eth(h, i) : h \in {host1, host2}, i \in {0, 1}}),
         !.cfg = @ \o Move(receiver, ns)
                   \o Ips(egress, inner) \o Ips(receiver, inner) \o Up(<<egress, receiver>>)
                   \o Each(inner, LAMBDA n : RouteVia(ns, Default(n[1]), receiver, Addr(n, 1)))
                   \o Forward(host2)
                   \o Each(<<1, 2>>, LAMBDA i : RouteVia(host1, Addr(inner[i], 2), eth0(host1),
                                                         Addr(net101[i], 2)))
                   \o Wait,
         !.pings = {Eths, <<egress, receiver>>, <<eth0(host1), receiver>>},
         !.perf = {<<eth0(host1), receiver>>}]

BondRecipe ==
    LET bond0 == Dev(host1, "bond0")
        ends == <<bond0, eth0(host2)>>
    IN  [Recipe(BondOrTeamReq,
                create_bond_devices(bond0, <<eth0(host1), eth(host1, 1)>>)
                \o Each(ends, LAMBDA d : Ips(d, net101))
                \o Up(<<eth0(host1), eth(host1, 1), bond0, eth0(host2)>>) \o Wait,
                {ends}, {ends}) EXCEPT !.mtu = ends, !.undo = Needs("bonding_config")]

DoubleBondRecipe ==
    [Recipe(DoubleTeamOrBondReq,
            EachHost(LAMBDA h : create_bond_devices(Dev(h, "bond0"), <<eth0(h), eth(h, 1)>>))
            \o EachHost(LAMBDA h : Ips(Dev(h, "bond0"), net101)
                                   \o Up(<<eth0(h), eth(h, 1), Dev(h, "bond0")>>)) \o Wait,
            Pair("bond0"), Pair("bond0"))
     EXCEPT !.mtu = Both("bond0"), !.undo = Needs("bonding_config")]

(* BaseLACPRecipe: two addresses of each family on each bond.              *)
BaseLACPRecipe ==
    [DoubleBondRecipe EXCEPT
     !.cfg = EachHost(LAMBDA h : create_bond_devices(Dev(h, "bond0"), <<eth0(h), eth(h, 1)>>))
             \o EachHost(LAMBDA h : Ips(Dev(h, "bond0"), <<net101[1], net101[1], net101[2], net101[2]>>)
                                    \o Up(<<eth0(h), eth(h, 1), Dev(h, "bond0")>>)) \o Wait]

team_ports(team, ports) == Each(ports, LAMBDA d : Down(<<d>>) \o Slaves(team, <<d>>))

TeamRecipe ==
    LET team0 == Dev(host1, "team0")
        ends == <<team0, eth0(host2)>>
        ports == <<eth0(host1), eth(host1, 1)>>
    IN  [Recipe(BondOrTeamReq,
                New("team", team0) \o team_ports(team0, ports)
                \o Each(ends, LAMBDA d : Ips(d, net10))
                \o Up(ports \o ends) \o Wait,
                {ends, Reversed(ends)}, {ends}) EXCEPT !.mtu = ends]

DoubleTeamRecipe ==
    LET team0(h) == Dev(h, "team0")
    IN  [Recipe(DoubleTeamOrBondReq,
                EachHost(LAMBDA h : New("team", team0(h)) \o team_ports(team0(h), <<eth0(h), eth(h, 1)>>)
                                    \o Ips(team0(h), net10)
                                    \o Up(<<eth0(h), eth(h, 1), team0(h)>>)) \o Wait,
                {Both("team0"), Reversed(Both("team0"))}, Pair("team0")) EXCEPT !.mtu = Both("team0")]

TeamVsBondRecipe ==
    LET ends == <<Dev(host1, "team0"), Dev(host2, "bond0")>>
        ports(d) == <<eth0(d[1]), eth(d[1], 1)>>
    IN  [Recipe(DoubleTeamOrBondReq,
                New("team", ends[1]) \o New("bond", ends[2])
                \o Each(ends, LAMBDA d : Down(ports(d)) \o Slaves(d, ports(d)) \o Ips(d, net10))
                \o Each(ends, LAMBDA d : Up(ports(d) \o <<d>>)) \o Wait,
                {ends, Reversed(ends)}, {ends}) EXCEPT !.mtu = ends]

MPTCPRecipe ==
    LET net2 == <<V4("192.168.102"), V6("fc01")>>
        eth1s == <<eth(host1, 1), eth(host2, 1)>>
        all == <<eth0(host1), eth1s[1], eth0(host2), eth1s[2]>>
    IN  [Recipe(DoubleTeamOrBondReq,
                EachHost(LAMBDA h : Ips(eth0(h), net101) \o Ips(eth(h, 1), net2)
                                       \o Up(<<eth0(h), eth(h, 1)>>))
                \o Each(<<1, 2>>, LAMBDA i : RouteVia(host1, Net(net101[i]), eth1s[1], Addr(net2[i], 2)))
                \o Wait,
                {Eths, eth1s}, {Eths}) EXCEPT !.mtu = all]

-----------------------------------------------------------------------------
(* VLANs and Linux bridges.                                                *)

vlan(ns, i) == Dev(ns, <<"vlan0", "vlan1", "vlan2">>[i + 1])
vlan_net(i) == <<<<V4("192.168.10"), V6("fc00:0:0:1")>>,
                 <<V4("192.168.20"), V6("fc00:0:0:2")>>,
                 <<V4("192.168.30"), V6("fc00:0:0:3")>>>>[i + 1]
vlans(ns) == [i \in 1..3 |-> vlan(ns, i - 1)]
VlanPings == {<<vlan(host1, i), vlan(host2, i)>> : i \in 0..2}
VlanPerf == Pair("vlan0")
Vlans3(ns, real) == Each(<<0, 1, 2>>, LAMBDA i : Vlan(vlan(ns, i), real, 10 * (i + 1)))
VlanIps == EachHost(LAMBDA h : Each(<<1, 2>>, LAMBDA f :
               Each(<<0, 1, 2>>, LAMBDA i : Ips(vlan(h, i), <<vlan_net(i)[f]>>))))

VlansAfterReal == EachHost(LAMBDA h : <<eth0(h)>> \o vlans(h))
VlansBeforeReal(master) == vlans(host1) \o vlans(host2) \o <<master, eth0(host2)>>

VlansRecipe ==
    [Recipe(SimpleNetworkReq,
            Down(Eths) \o EachHost(LAMBDA h : Vlans3(h, eth0(h)))
            \o EachHost(LAMBDA h :
                 Each(<<1, 2>>, LAMBDA f : Each(<<0, 1, 2>>, LAMBDA i : Ips(vlan(h, i), <<vlan_net(i)[f]>>)))
                 \o Up(<<eth0(h)>> \o vlans(h))) \o Wait,
            VlanPings, VlanPerf)
     EXCEPT !.mtu = VlansAfterReal]

VlansOver(master, prepare) ==
    [Recipe(BondOrTeamReq,
            prepare \o Vlans3(host1, master) \o Vlans3(host2, eth0(host2))
            \o Track(<<master>>) \o VlanIps
            \o Up(<<eth0(host1), eth(host1, 1), master>> \o vlans(host1)
                  \o <<eth0(host2)>> \o vlans(host2)) \o Wait,
            VlanPings, VlanPerf)
     EXCEPT !.mtu = VlansBeforeReal(master)]
VlansOverBondRecipe ==
    LET bond0 == Dev(host1, "bond0")
    IN  [VlansOver(bond0, create_bond_devices(bond0, <<eth0(host1), eth(host1, 1)>>))
         EXCEPT !.undo = Needs("bonding_config")]
VlansOverTeamRecipe ==
    LET team0 == Dev(host1, "team0")
    IN  VlansOver(team0, New("team", team0) \o team_ports(team0, <<eth0(host1), eth(host1, 1)>>))

br0(ns) == Dev(ns, "br0")

LinuxBridgeRecipe ==
    [Recipe(SimpleNetworkReq,
            EachHost(LAMBDA h : New("bridge", br0(h)) \o Down(<<eth0(h)>>) \o Slaves(br0(h), <<eth0(h)>>)
                                \o Up(<<eth0(h), br0(h)>>) \o Ips(br0(h), net101)) \o Wait,
            Pair("br0"), Pair("br0")) EXCEPT !.mtu = Eths]

LinuxBridgeOverBondRecipe ==
    LET bond0(h) == Dev(h, "bond0")
    IN  [Recipe(DoubleTeamOrBondReq,
                EachHost(LAMBDA h :
                    New("bond", bond0(h))
                    \o Each(<<eth0(h), eth(h, 1)>>, LAMBDA d : Down(<<d>>) \o Slaves(bond0(h), <<d>>))
                    \o New("bridge", br0(h)) \o Down(<<bond0(h)>>) \o Slaves(br0(h), <<bond0(h)>>)
                    \o Up(<<eth0(h), eth(h, 1), bond0(h), br0(h)>>)
                    \o Ips(br0(h), net101) \o Track(<<bond0(h)>>)) \o Wait,
                Pair("br0"), Pair("br0")) EXCEPT !.mtu = Both("bond0")]

=============================================================================

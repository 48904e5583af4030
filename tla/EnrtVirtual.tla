----------------------------- MODULE EnrtVirtual -----------------------------
(***************************************************************************)
(* The recipes with guests: virtual machines whose eth0 is wired to a tap  *)
(* device of their host, joined to the network by a Linux or an OVS bridge *)
(* with the VLAN tag put on in the guest, on the host, or over a bond.     *)
(***************************************************************************)
EXTENDS EnrtRecipes

tap(h, i) == Dev(h, <<"tap0", "tap1">>[i + 1])
vm(i) == eth0(guest(i))

VirtualRecipe(req, cfg, pings, perf, hw) ==
    [Recipe(req, cfg \o Wait, pings, perf) EXCEPT !.base = "virtual", !.mtu = hw]
OneVirtualPair(req, cfg, pair, hw) == VirtualRecipe(req, cfg, {pair}, {pair}, hw)

(* The ways a bridge takes the uplink and the tap of a host.               *)
LinuxPorts(h) == New("bridge", br0(h)) \o Each(<<eth0(h), tap(h, 0)>>, LAMBDA d : Down(<<d>>) \o Slaves(br0(h), <<d>>))
TapPort(h) == Down(<<eth0(h), tap(h, 0)>>) \o New("bridge", br0(h)) \o Slaves(br0(h), <<tap(h, 0)>>)
VlanPort(v, real, id, br) == Vlan(v, real, id) \o Slaves(br, <<v>>)
OvsPorts(h, tag) ==
    Down(<<eth0(h), tap(h, 0)>>) \o New("ovs", br0(h))
    \o Slaves(br0(h), <<eth0(h)>>) \o Ports(br0(h), <<tap(h, 0)>>, tag)

BridgeUps(h) == <<eth0(h), tap(h, 0), br0(h)>>
OnVlan(ns) == Vlan(vlan(ns, 0), eth0(ns), 10)
Addressed(devs) == Each(devs, LAMBDA d : Ips(d, net10))

-----------------------------------------------------------------------------
(* One guest behind host1, host2 itself at the other end.                  *)

VirtualBridgeVlanInGuestRecipe ==
    LET g == guest(1)
        ends == <<vlan(g, 0), vlan(host2, 0)>>
    IN  OneVirtualPair(VirtualBridgeReq,
            LinuxPorts(host1) \o Down(<<eth0(host2), vm(1)>>) \o OnVlan(host2) \o OnVlan(g)
            \o Ips(br0(host1), <<net10[1]>>) \o Addressed(Reversed(ends))
            \o Up(BridgeUps(host1) \o <<eth0(host2), vlan(host2, 0), vm(1), vlan(g, 0)>>),
            ends, BridgeUps(host1) \o <<vm(1), eth0(host2), vlan(host2, 0), vlan(g, 0)>>)

VirtualBridgeVlanInHostRecipe ==
    LET ends == <<vm(1), vlan(host2, 0)>>
        vlan0 == vlan(host1, 0)
    IN  OneVirtualPair(VirtualBridgeReq,
            TapPort(host1) \o Down(<<eth0(host2), vm(1)>>)
            \o VlanPort(vlan0, eth0(host1), 10, br0(host1)) \o OnVlan(host2)
            \o Ips(br0(host1), <<net10[1]>>) \o Addressed(Reversed(ends))
            \o Up(<<eth0(host1), tap(host1, 0), vlan0, br0(host1), eth0(host2), vlan(host2, 0), vm(1)>>),
            ends, BridgeUps(host1) \o <<eth0(host2), vm(1), vlan0, vlan(host2, 0)>>)

VirtualOvsBridgeVlanInGuestRecipe ==
    LET g == guest(1)
        ends == <<vlan(host2, 0), vlan(g, 0)>>
    IN  OneVirtualPair(VirtualBridgeReq,
            New("ovs", br0(host1))
            \o Each(<<eth0(host1), tap(host1, 0)>>, LAMBDA d : Down(<<d>>) \o Slaves(br0(host1), <<d>>))
            \o Down(<<eth0(host2), vm(1)>>) \o OnVlan(host2) \o OnVlan(g) \o Addressed(ends)
            \o Up(BridgeUps(host1) \o <<eth0(host2), vlan(host2, 0), vm(1), vlan(g, 0)>>),
            ends, BridgeUps(host1) \o <<eth0(host2), vm(1), vlan(host2, 0), vlan(g, 0)>>)

VirtualOvsBridgeVlanInHostRecipe ==
    LET ends == <<vm(1), vlan(host2, 0)>>
    IN  OneVirtualPair(VirtualBridgeReq,
            OvsPorts(host1, 10) \o Down(<<eth0(host2), vm(1)>>) \o OnVlan(host2)
            \o Addressed(Reversed(ends))
            \o Up(BridgeUps(host1) \o <<eth0(host2), vlan(host2, 0), vm(1)>>),
            ends, BridgeUps(host1) \o <<eth0(host2), vlan(host2, 0), vm(1)>>)

-----------------------------------------------------------------------------
(* The same on both hosts, between two guests.                             *)

Guests == <<vm(1), vm(2)>>
GuestVlans == <<vlan(guest(1), 0), vlan(guest(2), 0)>>
GuestVlansOn == Down(Guests) \o OnVlan(guest(1)) \o OnVlan(guest(2))
GuestVlansUp == Up(<<vm(1), vlan(guest(1), 0), vm(2), vlan(guest(2), 0)>>)
BridgeIps == Ips(br0(host1), <<net10[1]>>) \o Ips(br0(host2), <<net10[1]>>)
BridgesUp == Up(BridgeUps(host1) \o BridgeUps(host2))
MirroredMTU == BridgeUps(host1) \o BridgeUps(host2)
GuestVlansMTU == <<vm(1), vlan(guest(1), 0), vm(2), vlan(guest(2), 0)>>

VirtualBridgeVlanInGuestMirroredRecipe ==
    OneVirtualPair(VirtualBridgeMirroredReq,
        EachHost(LinuxPorts) \o GuestVlansOn \o BridgeIps \o Addressed(GuestVlans)
        \o BridgesUp \o GuestVlansUp,
        GuestVlans, MirroredMTU \o GuestVlansMTU)

VirtualBridgeVlanInHostMirroredRecipe ==
    LET vlan0(h) == vlan(h, 0)
    IN  OneVirtualPair(VirtualBridgeMirroredReq,
            EachHost(TapPort) \o Down(Guests)
            \o EachHost(LAMBDA h : VlanPort(vlan0(h), eth0(h), 10, br0(h)))
            \o BridgeIps \o Addressed(Guests)
            \o EachHost(LAMBDA h : Up(<<eth0(h), tap(h, 0), vlan0(h), br0(h)>>)) \o Up(Guests),
            Guests,
            BridgeUps(host1) \o <<vlan0(host1)>> \o BridgeUps(host2) \o <<vlan0(host2)>> \o Guests)

VirtualOvsBridgeVlanInGuestMirroredRecipe ==
    OneVirtualPair(VirtualBridgeMirroredReq,
        EachHost(LAMBDA h : OvsPorts(h, 0)) \o GuestVlansOn \o Addressed(GuestVlans)
        \o BridgesUp \o GuestVlansUp,
        GuestVlans, MirroredMTU \o GuestVlansMTU)

VirtualOvsBridgeVlanInHostMirroredRecipe ==
    OneVirtualPair(VirtualBridgeMirroredReq,
        EachHost(LAMBDA h : OvsPorts(h, 10)) \o Down(Guests) \o Addressed(Guests)
        \o BridgesUp \o Up(Guests),
        Guests, MirroredMTU \o Guests)

-----------------------------------------------------------------------------
(* Two guests on each host, in two VLANs over a bond: guests of different  *)
(* VLANs must not reach each other.                                        *)

FourGuests == <<vm(1), vm(2), vm(3), vm(4)>>
CrossPairs == {vm(1), vm(2)} \X {vm(3), vm(4)}
SameVlan == {<<vm(1), vm(3)>>, <<vm(2), vm(4)>>}
FourGuestRecipe(req, cfg, pairs, hw) ==
    [VirtualRecipe(req, cfg, pairs, {<<vm(1), vm(3)>>}, hw) EXCEPT !.far = pairs \ SameVlan]
GuestsOf(h) == IF h = host1 THEN <<vm(1), vm(2)>> ELSE <<vm(3), vm(4)>>
PortsOf(h) == <<eth0(h), eth(h, 1), tap(h, 0), tap(h, 1)>>

VirtualBridgeVlansOverBondRecipe ==
    LET bond0(h) == Dev(h, "bond0")
        br(h, i) == Dev(h, <<"br0", "br1">>[i + 1])
        nics(h) == <<bond0(h), tap(h, 0), tap(h, 1), br(h, 0), br(h, 1), vlan(h, 0), vlan(h, 1)>>
    IN  FourGuestRecipe(VirtualBridgeOverBondReq,
            EachHost(LAMBDA h :
                Down(PortsOf(h)) \o New("bond", bond0(h)) \o Slaves(bond0(h), <<eth0(h), eth(h, 1)>>)
                \o Each(<<0, 1>>, LAMBDA i : New("bridge", br(h, i)) \o Slaves(br(h, i), <<tap(h, i)>>)))
            \o Down(FourGuests)
            \o EachHost(LAMBDA h : Each(<<0, 1>>, LAMBDA i : VlanPort(vlan(h, i), bond0(h), 10 * (i + 1), br(h, i))))
            \o EachHost(LAMBDA h :
                Each(<<0, 1>>, LAMBDA i : Ips(br(h, i), <<vlan_net(i)[1]>>))
                \o Each(<<0, 1>>, LAMBDA i : Ips(GuestsOf(h)[i + 1], vlan_net(i))))
            \o EachHost(LAMBDA h : Up(PortsOf(h) \o <<bond0(h), vlan(h, 0), vlan(h, 1), br(h, 0), br(h, 1)>>))
            \o Up(FourGuests),
            CrossPairs, nics(host1) \o nics(host2) \o FourGuests)

VirtualOvsBridgeVlansOverBondRecipe ==
    LET nics(h) == PortsOf(h) \o <<br0(h)>>
    IN  FourGuestRecipe(VirtualBridgeOverBondReq,
            EachHost(LAMBDA h :
                Down(PortsOf(h)) \o New("ovs", br0(h))
                \o Ports(br0(h), <<tap(h, 0)>>, 10) \o Ports(br0(h), <<tap(h, 1)>>, 20)
                \o Slaves(br0(h), <<eth0(h), eth(h, 1)>>))
            \o Down(FourGuests)
            \o Each(<<0, 1>>, LAMBDA i : Each(<<vm(1 + i), vm(3 + i)>>, LAMBDA d : Ips(d, vlan_net(i))))
            \o EachHost(LAMBDA h : Up(nics(h))) \o Up(FourGuests),
            CrossPairs, nics(host1) \o nics(host2) \o FourGuests)

-----------------------------------------------------------------------------
(* VXLAN ports of OVS bridges.  The flows of the bridge give each port the *)
(* tunnel key (here: its tag) its frames travel with.                      *)

VirtOvsVxlanRecipe ==
    LET key == <<100, 200>>
        Remote(h) == Create("ovs_tunnel", Dev(h, "tunnel"), NoDev, 0, {eth0(Other(h))}, 0)
    IN  FourGuestRecipe(VirtOvsVxlanReq,
            EachHost(LAMBDA h : Down(<<eth0(h), tap(h, 0), tap(h, 1)>>)) \o Down(FourGuests)
            \o EachHost(LAMBDA h :
                Ips(eth0(h), <<V4("192.168.2")>>) \o New("ovs", br0(h))
                \o Each(<<0, 1>>, LAMBDA i : Ports(br0(h), <<tap(h, i)>>, key[i + 1]))
                \o Remote(h) \o Slaves(br0(h), <<Dev(h, "tunnel")>>)
                \o Up(<<eth0(h), tap(h, 0), tap(h, 1), br0(h)>>))
            \o Each(<<1, 2, 3, 4>>, LAMBDA i :
                IpAt(vm(i), V4("192.168.100"), i) \o IpAt(vm(i), V6("fc00"), i) \o Up(<<vm(i)>>)),
            {<<vm(i), vm(j)>> : <<i, j>> \in {p \in (1..4) \X (1..4) : p[1] < p[2]}}, FourGuests)

NoVirtOvsVxlanRecipe ==
    LET int0(h) == Dev(h, "int0")
        i(h) == IF h = host1 THEN 1 ELSE 2
    IN  [Recipe(SimpleNetworkReq,
            EachHost(LAMBDA h :
                Down(<<eth0(h)>>) \o IpAt(eth0(h), V4("192.168.2"), i(h))
                \o New("ovs", br0(h)) \o Internal(br0(h), int0(h))
                \o IpAt(int0(h), V4("192.168.100"), i(h)) \o IpAt(int0(h), V6("fc00"), i(h))
                \o Create("ovs_tunnel", Dev(h, "tunnel"), NoDev, 0, {eth0(Other(h))}, 0)
                \o Slaves(br0(h), <<Dev(h, "tunnel")>>)
                \o Up(<<eth0(h), int0(h), br0(h)>>)) \o Wait,
            Pair("int0"), Pair("int0")) EXCEPT !.mtu = Both("int0")]

=============================================================================

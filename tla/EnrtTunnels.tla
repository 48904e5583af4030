----------------------------- MODULE EnrtTunnels -----------------------------
(***************************************************************************)
(* The recipes of BaseTunnelRecipe: configure_underlying_network gives two *)
(* endpoints, create_tunnel a tunnel device on each side, and the ends to  *)
(* ping and measure are those devices, or the host addresses routed        *)
(* through them.  The packet assertions on the carriers are left out.      *)
(*                                                                         *)
(* A recipe with a parameter carrier_ipversion is an operator of the       *)
(* family of the carrier.                                                  *)
(***************************************************************************)
EXTENDS EnrtSteps

LOCAL eth(h, i) == Dev(h, <<"eth0", "eth1">>[i + 1])
LOCAL eths == <<eth(host1, 0), eth(host2, 0)>>
LOCAL OneWire == [d \in ToSet(eths) |-> "net1"]
LOCAL OnBoth(name) == <<Dev(host1, name), Dev(host2, name)>>

(* test_wide_configuration of the base class, which calls the two methods  *)
(* of the recipe and waits for the addresses.                              *)
BaseTunnelRecipe(underlying_network, tunnel, ends) ==
    Recipe(OneWire, underlying_network \o tunnel \o Wait, {ends}, {ends})

Carrier(family) == IF family = 4 THEN V4("192.168.101") ELSE V6("fc00")
AddressThenUp(devs, net) == Each(devs, LAMBDA d : Ips(d, <<net>>) \o Up(<<d>>))

(* Two tunnel devices over the endpoints, each with the other's address.   *)
TunnelPair(t, endpoints, family) ==
    Tunnel(t[1], NoDev, endpoints[2], family) \o Tunnel(t[2], NoDev, endpoints[1], family)

(* The usual addressing: each side in a network of its own, with a route   *)
(* to the other's network through the tunnel.                              *)
Inner(i) == <<<<V4("192.168.6"), V6("6001:db8:ac10:fe01")>>,
              <<V4("192.168.7"), V6("7001:db8:ac10:fe01")>>>>[i]
(* Mutant of RoutedInner: each side routes its own network.                *)
RoutedToItself(t, ns) ==
    Each(<<1, 2>>, LAMBDA i :
        Up(<<t[i]>>)
        \o Each(Inner(i), LAMBDA n : IpAt(t[i], n, 2) \o Route(ns[i], Net(n), t[i])))
RoutedInner(t, ns) ==
    Each(<<1, 2>>, LAMBDA i :
        Up(<<t[i]>>)
        \o Each(Inner(i), LAMBDA n : IpAt(t[i], n, 2))
        \o Each(Inner(3 - i), LAMBDA n : Route(ns[i], Net(n), t[i])))
(* The other usual one: both ends in the same network.                     *)
SharedInner(t, nets) ==
    Each(<<1, 2>>, LAMBDA i : Up(<<t[i]>>) \o Each(nets, LAMBDA n : IpAt(t[i], n, i)))

Roots == <<host1, host2>>
GreOver(underlying_network, endpoints) ==
    LET t == OnBoth("gre_tunnel")
    IN  [BaseTunnelRecipe(underlying_network, TunnelPair(t, endpoints, 4) \o RoutedInner(t, Roots), t)
         EXCEPT !.mtu = t]

GreTunnelRecipe == GreOver(AddressThenUp(eths, Carrier(4)), eths)

(* The list of devices to set up names host2.eth0 twice and host2.eth1     *)
(* never; the bond has brought both up.                                    *)
GreTunnelOverBondRecipe ==
    LET bond(h) == Dev(h, "bond")
    IN  [GreOver(New("bond", bond(host1)) \o New("bond", bond(host2))
                 \o EachHost(LAMBDA h : Each(<<eth(h, 0), eth(h, 1)>>,
                                             LAMBDA d : Down(<<d>>) \o Slaves(bond(h), <<d>>)))
                 \o Each(OnBoth("bond"), LAMBDA d : Ips(d, <<Carrier(4)>>))
                 \o Up(<<eth(host1, 0), eth(host1, 1), bond(host1),
                         eth(host2, 0), eth(host2, 0), bond(host2)>>),
                 OnBoth("bond"))
         EXCEPT !.req = [d \in {eth(h, i) : h \in {host1, host2}, i \in {0, 1}} |-> "tnet"]]

LOCAL OverReal(name, create(_, _)) ==
    GreOver(EachHost(LAMBDA h : create(Dev(h, name), eth(h, 0)))
            \o Each(OnBoth(name), LAMBDA d : Ips(d, <<Carrier(4)>>))
            \o EachHost(LAMBDA h : Up(<<eth(h, 0), Dev(h, name)>>)),
            OnBoth(name))
GreTunnelOverMacvlanRecipe == OverReal("macvlan10", LAMBDA d, real : Over("macvlan", d, real))
GreTunnelOverVlanRecipe == OverReal("vlan0", LAMBDA d, real : Vlan(d, real, 10))

(* The other point to point tunnels.                                       *)
LOCAL Plain(name, family, carrier, inner(_)) ==
    LET t == OnBoth(name)
    IN  [BaseTunnelRecipe(AddressThenUp(eths, carrier), TunnelPair(t, eths, family) \o inner(t), t)
         EXCEPT !.mtu = t]
Ip6GreTunnelRecipe == Plain("gre6_tunnel", 6, Carrier(6), LAMBDA t : RoutedInner(t, Roots))
Ip6TnlTunnelRecipe == Plain("ip6tnl", 6, Carrier(6), LAMBDA t : SharedInner(t, <<V6("3001:db8:ac10:fe01")>>))
IpIpTunnelRecipe == Plain("ipip_tunnel", 4, V4("172.16"), LAMBDA t : SharedInner(t, <<V4("192.168.200")>>))
SitTunnelRecipe == Plain("sit_tunnel", 4, Carrier(4), LAMBDA t : RoutedInner(t, Roots))
GeneveTunnelRecipe(family) ==
    Plain("gnv_tunnel", family, Carrier(family), LAMBDA t : SharedInner(t, <<V4("20"), V6("fee0")>>))

L2TPTunnelRecipe(family) ==
    LET t == OnBoth("l2tp_session1")
    IN  [BaseTunnelRecipe(AddressThenUp(eths, Carrier(family)),
                          Set("l2tp") \o Wait \o TunnelPair(t, eths, family) \o Up(t)
                          \o IpAt(t[1], V4("10"), 1) \o IpAt(t[2], V4("10"), 2), t)
         EXCEPT !.undo = Needs("l2tp") \o Super]

-----------------------------------------------------------------------------
(* Endpoints in a network namespace, behind a bridge on the host.          *)

newns(h) == Append(h, "newns")
NetnsEndpoints(net) ==
    LET veth(h, i) == Dev(h, <<"veth0", "veth1">>[i + 1])
        bridge(h) == Dev(h, "bridge")
    IN  EachHost(LAMBDA h : VethPair(veth(h, 0), veth(h, 1)))
        \o EachHost(LAMBDA h : Move(veth(h, 1), newns(h)))
        \o EachHost(LAMBDA h : New("bridge", bridge(h)) \o Slaves(bridge(h), <<veth(h, 0), eth(h, 0)>>))
        \o Each(<<veth(host1, 0), veth(host2, 0), bridge(host1), bridge(host2)>> \o eths,
                LAMBDA d : Up(<<d>>) \o Track(<<d>>))
        \o AddressThenUp(OnBoth("veth1"), net)
        \o Up(OnBoth("veth0"))
LOCAL InNetns(name) == <<Dev(newns(host1), name), Dev(newns(host2), name)>>

Ip6GreNetnsTunnelRecipe ==
    LET t == InNetns("gre6_tunnel")
    IN  [BaseTunnelRecipe(NetnsEndpoints(Carrier(6)),
                          TunnelPair(t, OnBoth("veth1"), 6) \o RoutedInner(t, <<newns(host1), newns(host2)>>), t)
         EXCEPT !.mtu = t]

(* The two ends find each other in a multicast group.                      *)
VxlanNetnsTunnelRecipe ==
    LET t == InNetns("vxlan_tunnel")
        ends == OnBoth("veth1")
    IN  BaseTunnelRecipe(NetnsEndpoints(Carrier(4)),
            Create("vxlan", t[1], ends[1], 0, {ends[2]}, 0) \o Create("vxlan", t[2], ends[2], 0, {ends[1]}, 0)
            \o RoutedInner(t, <<newns(host1), newns(host2)>>), t)

-----------------------------------------------------------------------------
(* Lightweight tunnels: host addresses routed with an encapsulation        *)
(* through one external tunnel device.                                     *)

HostNets(i) == <<<<V4("172.16.10.1/32"), V6("fc00:a::1/128")>>,
                 <<V4("172.16.20.1/32"), V6("fc00:b::1/128")>>>>[i]
HostAddresses(devs) == Each(<<1, 2>>, LAMBDA i : Each(HostNets(i), LAMBDA n : IpAt(devs[i], n, 1)))
HostRoutes(devs, ns) ==
    Each(<<1, 2>>, LAMBDA f : Each(<<1, 2>>, LAMBDA i :
        Route(ns[i], Addr(HostNets(3 - i)[f], 1), devs[i])))

LwtRecipe(name, family) ==
    LET t == OnBoth(name)  lo == OnBoth("lo")
    IN  [BaseTunnelRecipe(AddressThenUp(eths, Carrier(family)),
                          TunnelPair(t, eths, family) \o New("lo", lo[1]) \o New("lo", lo[2])
                          \o Each(<<1, 2>>, LAMBDA i :
                               Each(HostNets(i), LAMBDA n : IpAt(lo[i], n, 1)) \o Up(<<t[i]>>))
                          \o HostRoutes(t, Roots), lo)
         EXCEPT !.vers = {4}]
GreLwtTunnelRecipe(family) == LwtRecipe("gre_tunnel", family)
VxlanLwtTunnelRecipe == LwtRecipe("vxlan_tunnel", 4)
VxlanGpeTunnelRecipe == LwtRecipe("vxlan_tunnel", 4)

(* The host addresses on the tunnel device itself; one flow.               *)
GeneveLwtTunnelRecipe(family) ==
    LET t == OnBoth("gnv_tunnel")
    IN  [BaseTunnelRecipe(AddressThenUp(eths, Carrier(family)),
                          Each(<<1, 2>>, LAMBDA i : Tunnel(t[i], NoDev, eths[3 - i], family) \o Up(<<t[i]>>))
                          \o HostRoutes(t, Roots) \o HostAddresses(t), t)
         EXCEPT !.vers = {4}, !.mtu = eths]

-----------------------------------------------------------------------------
(* Tunnel ports of an OVS bridge.                                          *)

(* For each host: a bridge with an internal port that has the i-th address *)
(* of each network, and a tunnel port to the other host's endpoint.        *)
OvsTunnel(bridge, endpoints, family, nets) ==
    Each(<<1, 2>>, LAMBDA i :
        LET h == Roots[i]  int0 == Dev(h, "int0")
        IN  New("ovs", Dev(h, bridge)) \o Internal(Dev(h, bridge), int0)
            \o Each(nets, LAMBDA n : IpAt(int0, n, i))
            \o TunnelPort(Dev(h, bridge), Dev(h, "tunnel"), NoDev, endpoints[3 - i], family)
            \o Up(<<Dev(h, bridge), int0>>))
LOCAL OvsOverEth(nets) ==
    BaseTunnelRecipe(AddressThenUp(eths, Carrier(4)), OvsTunnel("br0", eths, 4, nets), OnBoth("int0"))
VxlanOvsTunnelRecipe == OvsOverEth(<<V4("192.168.200"), V6("fc00")>>)
GreOvsTunnelRecipe == OvsOverEth(<<V4("192.168.200"), V6("fc00")>>)
GeneveOvsTunnelRecipe == OvsOverEth(<<V4("192.168.200"), V6("fc00")>>)

GeneveIpsecOvsTunnelRecipe(family) ==
    LET br_ex(h) == Dev(h, "br_ex")
    IN  [BaseTunnelRecipe(
            EachHost(LAMBDA h : Up(<<eth(h, 0)>>) \o New("ovs", br_ex(h)) \o Slaves(br_ex(h), <<eth(h, 0)>>)
                                \o Ips(br_ex(h), <<Carrier(family)>>) \o Up(<<br_ex(h)>>)),
            OvsTunnel("br_in", OnBoth("br_ex"), family, <<V4("192.168.200"), V6("fc00:a")>>) \o Wait,
            OnBoth("int0"))
         EXCEPT !.mtu = eths]

(* One flow, between namespaces joined to the bridges by a veth pair.      *)
netns0(h) == Append(h, "netns0")
LOCAL ovs(h) == Dev(h, "br0")
OvsBridges(family) ==
    Each(<<1, 2>>, LAMBDA i :
        LET h == Roots[i]
        IN  New("ovs", ovs(h)) \o TunnelPort(ovs(h), Dev(h, "tunnel"), NoDev, eths[3 - i], family)
            \o Up(<<ovs(h)>>))
FlowNamespaces ==
    EachHost(LAMBDA h :
        LET veth == Dev(h, "veth0")  end == Dev(h, "veth_peer0")
        IN  VethPair(veth, end) \o Slaves(ovs(h), <<veth>>) \o Move(end, netns0(h)) \o Up(<<veth, end>>))
FlowRoutes(ends) == HostAddresses(ends) \o HostRoutes(ends, <<netns0(host1), netns0(host2)>>)
tunneled_endpoints == OnBoth("veth_peer0")

GeneveOvsNetnsTunnelRecipe(family) ==
    [BaseTunnelRecipe(
        Each(eths, LAMBDA d : Up(<<d>>) \o Ips(d, <<Carrier(family)>>)),
        OvsBridges(family) \o Set("tunneled_endpoints") \o FlowNamespaces \o FlowRoutes(tunneled_endpoints),
        tunneled_endpoints)
     EXCEPT !.vers = {4}, !.mtu = eths, !.undo = Needs("tunneled_endpoints") \o Super]

-----------------------------------------------------------------------------
(* VXLAN between plain hosts, one of them reached through a bridge.        *)

VxlanRemoteRecipe ==
    LET vxlan0 == OnBoth("vxlan0")
    IN  [Recipe(OneWire,
            Down(eths)
            \o Each(<<1, 2>>, LAMBDA i :
                 Ips(eths[i], <<V4("192.168.0")>>) \o Create("vxlan", vxlan0[i], eths[i], 1, {eths[3 - i]}, 0))
            \o Each(<<1, 2>>, LAMBDA i : IpAt(vxlan0[i], V4("192.168.100"), i) \o IpAt(vxlan0[i], V6("fc00"), i))
            \o Each(<<1, 2>>, LAMBDA i : Up(<<eths[i], vxlan0[i]>>)) \o Wait,
            {vxlan0}, {vxlan0}) EXCEPT !.mtu = vxlan0]

VxlanMulticastRecipe ==
    LET br0 == Dev(host1, "br0")  tap0 == Dev(host1, "tap0")
        guest1 == guest(1)
        real == <<br0, eth(guest1, 0), eth(host2, 0)>>
        vx(i) == Dev(<<host1, guest1, host2>>[i], "vxlan0")
        others(i) == {real[j] : j \in 1..3 \ {i}}
        all == {vx(1), vx(2), vx(3)}
        perf == <<vx(1), vx(3)>>
    IN  [Recipe([d \in ToSet(eths) |-> "to_switch"] @@ [d \in {tap0, eth(guest1, 0)} |-> "to_guest"],
            Down(<<eth(host1, 0), eth(host2, 0), eth(guest1, 0), tap0>>)
            \o New("bridge", br0) \o Slaves(br0, <<eth(host1, 0), tap0>>)
            \o Each(<<1, 2, 3>>, LAMBDA i : Create("vxlan", vx(i), real[i], 1, others(i), 0))
            \o Each(<<1, 2, 3>>, LAMBDA i :
                 Ips(real[i], <<V4("192.168.0")>>) \o IpAdd(real[i], V4("192.168.0"))
                 \o IpAt(vx(i), V4("192.168.100"), i) \o IpAt(vx(i), V6("fc00"), i))
            \o Up(<<eth(host1, 0), eth(host2, 0), eth(guest1, 0), tap0, br0, vx(1), vx(3), vx(2)>>) \o Wait,
            {p \in all \X all : p[1] # p[2]}, {perf})
         EXCEPT !.mtu = <<vx(1), vx(3), vx(2)>>, !.base = "virtual"]

=============================================================================

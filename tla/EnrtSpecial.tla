----------------------------- MODULE EnrtSpecial -----------------------------
(***************************************************************************)
(* The recipes that offload or protect the traffic of a simple network:    *)
(* virtual functions behind an eswitch, IPsec, MACsec, XDP forwarding and  *)
(* software RDMA.                                                          *)
(***************************************************************************)
EXTENDS EnrtRecipes

(* The SRIOV recipes make a virtual function of each eth0 themselves and   *)
(* do not take use_vfs as well.                                            *)
vf(h) == Dev(h, "vf_eth0")
vf_rep(h) == Dev(h, "vf_rep")
VfPair == Both("vf_eth0")
SRIOVNetnsReq == SimpleNetworkReq
SRIOVDevices(h) ==
    Up(<<eth0(h)>>) \o New("vf_rep", vf_rep(h)) \o Over("vf", vf(h), vf_rep(h))
    \o Move(vf(h), Append(h, "newns"))

(* A qdisc on each device of the way between the virtual function and the  *)
(* device `out` that leaves the host, then the filters for both directions. *)
add_tc_filter_rules(out) ==
    Set("ingress_devices")
    \o EachHost(LAMBDA h : Redirect(vf_rep(h), Dev(h, out)))
    \o EachHost(LAMBDA h : Redirect(Dev(h, out), vf_rep(h)))

(* Its subclasses add a network layer.                                     *)
BaseSRIOVNetnsTcRecipe(network_layers, out) ==
    [Recipe(SRIOVNetnsReq,
            EachHost(LAMBDA h : SRIOVDevices(h) \o Set("sriov_devices"))
            \o EachHost(LAMBDA h : Ips(vf(h), net101) \o Up(<<eth0(h), vf(h), vf_rep(h)>>)) \o Wait
            \o network_layers \o add_tc_filter_rules(out),
            {VfPair}, {VfPair})
     EXCEPT !.base = "sriov", !.undo = Needs("ingress_devices") \o Needs("sriov_devices") \o Super]
SRIOVNetnsTcRecipe == BaseSRIOVNetnsTcRecipe(<<>>, "eth0")

(* add_network_layers: a tunnel between the physical functions.            *)
tunnel_layer(name) ==
    EachHost(LAMBDA h : Ips(eth0(h), <<V4("192.168.200")>>))
    \o EachHost(LAMBDA h : Create("tunnel", Dev(h, name), eth0(h), 10, {eth0(Other(h))}, 4)
                           \o Up(<<Dev(h, name)>>))
    \o Wait
SRIOVNetnsVxlanTcRecipe == BaseSRIOVNetnsTcRecipe(tunnel_layer("vxlan10"), "vxlan10")
SRIOVNetnsGeneveTcRecipe == BaseSRIOVNetnsTcRecipe(tunnel_layer("gnv10"), "gnv10")

SRIOVNetnsOvSRecipe ==
    [Recipe(SRIOVNetnsReq,
            EachHost(LAMBDA h :
                SRIOVDevices(h) \o Set("sriov_devices")
                \o New("ovs", br0(h)) \o Slaves(br0(h), <<eth0(h), vf_rep(h)>>)
                \o Up(<<eth0(h), vf(h), vf_rep(h), br0(h)>>) \o Ips(vf(h), net101)) \o Wait,
            {VfPair}, {VfPair})
     EXCEPT !.base = "sriov", !.mtu = VfPair, !.undo = Needs("sriov_devices") \o Super]

-----------------------------------------------------------------------------
(* Each host in networks of its own, with a route to each address of the   *)
(* other; what each sub configuration adds is the IPsec state that goes    *)
(* with these addresses.  The deconfiguration calls no other class.        *)
IpsecRecipe ==
    LET nets(h) == IF h = host1 THEN <<V4("192.168.99"), V6("fc00:1")>>
                                ELSE <<V4("192.168.100"), V6("fc00:2")>>
    IN  [Recipe(SimpleNetworkReq,
                EachHost(LAMBDA h : Down(<<eth0(h)>>) \o Ips(eth0(h), nets(h)) \o Up(<<eth0(h)>>)) \o Wait
                \o EachHost(LAMBDA h : Each(nets(Other(h)), LAMBDA n : Route(h, Addr(n, 1), eth0(h)))),
                {Eths}, {Eths}) EXCEPT !.mtu = Eths, !.undo = <<>>]
IpsecEspAeadRecipe == IpsecRecipe
IpsecEspAhCompRecipe == IpsecRecipe

(* The configuration happens in apply_sub_configuration, each host waiting *)
(* for its own addresses before the other is set up.                       *)
SimpleMacsecRecipe ==
    LET msec0(h) == Dev(h, "msec0")
    IN  Recipe(SimpleNetworkReq,
               EachHost(LAMBDA h : Over("macsec", msec0(h), eth0(h)))
               \o EachHost(LAMBDA h :
                    Ips(msec0(h), <<V4("192.168.100"), V6("fc00")>>) \o Up(<<eth0(h), msec0(h)>>) \o Wait),
               Pair("msec0"), Pair("msec0"))

-----------------------------------------------------------------------------
(* Extensions of the recipes of EnrtRecipes.                               *)

(* The XDP program is unloaded after the classes above have cleaned up; it *)
(* raises when the program was never loaded.                               *)
XDPForwardingRecipe ==
    [ForwardingRecipe EXCEPT !.cfg = @ \o Set("xdp_forward"), !.undo = Super \o Needs("xdp_forward")]
SoftwareRDMARecipe == [SimpleNetworkRecipe EXCEPT !.vers = {4}]

=============================================================================

------------------------------ MODULE MCEnrtRuns ------------------------------
(***************************************************************************)
(* EnrtRuns with the recipes of the four recipe modules.                   *)
(***************************************************************************)
EXTENDS EnrtRuns, EnrtVirtual, EnrtTunnels, EnrtSpecial

PlainRecipes ==
    [SimpleNetwork |-> SimpleNetworkRecipe, ShortLivedConnections |-> ShortLivedConnectionsRecipe,
     SimpleNetnsRouter |-> SimpleNetnsRouterRecipe, Forwarding |-> ForwardingRecipe,
     Bond |-> BondRecipe, DoubleBond |-> DoubleBondRecipe, BaseLACP |-> BaseLACPRecipe,
     Team |-> TeamRecipe, DoubleTeam |-> DoubleTeamRecipe, TeamVsBond |-> TeamVsBondRecipe,
     MPTCP |-> MPTCPRecipe, Vlans |-> VlansRecipe, VlansOverBond |-> VlansOverBondRecipe,
     VlansOverTeam |-> VlansOverTeamRecipe, LinuxBridge |-> LinuxBridgeRecipe,
     LinuxBridgeOverBond |-> LinuxBridgeOverBondRecipe]
TunnelRecipes ==
    [Gre |-> GreTunnelRecipe, GreOverBond |-> GreTunnelOverBondRecipe,
     GreOverMacvlan |-> GreTunnelOverMacvlanRecipe, GreOverVlan |-> GreTunnelOverVlanRecipe,
     Ip6Gre |-> Ip6GreTunnelRecipe, Ip6Tnl |-> Ip6TnlTunnelRecipe, IpIp |-> IpIpTunnelRecipe,
     Sit |-> SitTunnelRecipe, Geneve4 |-> GeneveTunnelRecipe(4), Geneve6 |-> GeneveTunnelRecipe(6),
     L2TP4 |-> L2TPTunnelRecipe(4), L2TP6 |-> L2TPTunnelRecipe(6),
     Ip6GreNetns |-> Ip6GreNetnsTunnelRecipe, VxlanNetns |-> VxlanNetnsTunnelRecipe,
     GreLwt4 |-> GreLwtTunnelRecipe(4), GreLwt6 |-> GreLwtTunnelRecipe(6),
     VxlanLwt |-> VxlanLwtTunnelRecipe, VxlanGpe |-> VxlanGpeTunnelRecipe,
     GeneveLwt4 |-> GeneveLwtTunnelRecipe(4), GeneveLwt6 |-> GeneveLwtTunnelRecipe(6),
     VxlanOvs |-> VxlanOvsTunnelRecipe, GreOvs |-> GreOvsTunnelRecipe, GeneveOvs |-> GeneveOvsTunnelRecipe,
     GeneveIpsecOvs4 |-> GeneveIpsecOvsTunnelRecipe(4), GeneveIpsecOvs6 |-> GeneveIpsecOvsTunnelRecipe(6),
     GeneveOvsNetns4 |-> GeneveOvsNetnsTunnelRecipe(4), GeneveOvsNetns6 |-> GeneveOvsNetnsTunnelRecipe(6),
     VxlanRemote |-> VxlanRemoteRecipe, VxlanMulticast |-> VxlanMulticastRecipe]
VirtualRecipes ==
    [VlanInGuest |-> VirtualBridgeVlanInGuestRecipe, VlanInHost |-> VirtualBridgeVlanInHostRecipe,
     VlanInGuestMirrored |-> VirtualBridgeVlanInGuestMirroredRecipe,
     VlanInHostMirrored |-> VirtualBridgeVlanInHostMirroredRecipe,
     BridgeVlansOverBond |-> VirtualBridgeVlansOverBondRecipe,
     OvsVlanInGuest |-> VirtualOvsBridgeVlanInGuestRecipe, OvsVlanInHost |-> VirtualOvsBridgeVlanInHostRecipe,
     OvsVlanInGuestMirrored |-> VirtualOvsBridgeVlanInGuestMirroredRecipe,
     OvsVlanInHostMirrored |-> VirtualOvsBridgeVlanInHostMirroredRecipe,
     OvsVlansOverBond |-> VirtualOvsBridgeVlansOverBondRecipe,
     VirtOvsVxlan |-> VirtOvsVxlanRecipe, NoVirtOvsVxlan |-> NoVirtOvsVxlanRecipe]
SpecialRecipes ==
    [SRIOVNetnsTc |-> SRIOVNetnsTcRecipe, SRIOVNetnsVxlanTc |-> SRIOVNetnsVxlanTcRecipe,
     SRIOVNetnsGeneveTc |-> SRIOVNetnsGeneveTcRecipe, SRIOVNetnsOvS |-> SRIOVNetnsOvSRecipe,
     IpsecEspAead |-> IpsecEspAeadRecipe, IpsecEspAhComp |-> IpsecEspAhCompRecipe,
     SimpleMacsec |-> SimpleMacsecRecipe, XDPForwarding |-> XDPForwardingRecipe,
     SoftwareRDMA |-> SoftwareRDMARecipe]
AllRecipes == PlainRecipes @@ TunnelRecipes @@ VirtualRecipes @@ SpecialRecipes

=============================================================================

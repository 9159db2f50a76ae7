---------------------------- MODULE DeviceConfig ----------------------------
(***************************************************************************)
(* The configuration of one device while it is put together: the lists of  *)
(* src/apis/network/v1alpha1/device.go, which are updated by key and never *)
(* hold a key twice, are functions from the key to the element, and the    *)
(* Add operations of src/pkg/devbuilder/devices.go update them.  Those     *)
(* lists are sorted at every update; the interfaces of a network instance  *)
(* are not, and are a sequence, in the order in which they were added.     *)
(*                                                                         *)
(* Optional objects are sequences of at most one element.  The name of an  *)
(* IGP instance comes from the design, the same at every call: a network   *)
(* instance has at most one instance of each IGP.                          *)
(***************************************************************************)
EXTENDS Naturals, Sequences, Functions

Put(f, k, v) == [x \in DOMAIN f \cup {k} |-> IF x = k THEN v ELSE f[x]]
GetOrCreate(f, k, new) == IF k \in DOMAIN f THEN f[k] ELSE new

NewBGP ==
    [as |-> <<>>, routerID |-> <<>>, families |-> {}, peerGroups |-> <<>>,
     neighbors |-> <<>>, dynamicNeighbors |-> <<>>]

NewNetworkInstance ==
    [type |-> "", interfaces |-> <<>>, vxlan |-> <<>>, bgp |-> NewBGP,
     isis |-> <<>>, ospf |-> <<>>, evpn |-> <<>>, vpn |-> <<>>]

NewDevice ==
    [provider |-> "", bfd |-> <<>>, interfaces |-> <<>>, subInterfaces |-> <<>>,
     tunnels |-> {}, tunnelSubInterfaces |-> <<>>, instances |-> <<>>,
     policies |-> <<>>, systemBGPVPN |-> FALSE]

GetOrCreateDevice(devices, n) == GetOrCreate(devices, n, NewDevice)

AddProvider(d, provider) == [d EXCEPT !.provider = provider]

-----------------------------------------------------------------------------
(* Interfaces and sub-interfaces; the key of the latter is <<name, id>>.   *)

\* The VLAN tagging of the interface is reset.
AddInterface(d, name) == [d EXCEPT !.interfaces = Put(@, name, [vlanTagging |-> FALSE])]

AddSubInterface(d, si, x) ==
    LET itfce == GetOrCreate(d.interfaces, si[1], [vlanTagging |-> FALSE])
        tagged == [vlanTagging |-> itfce.vlanTagging \/ x.vlan # <<>>]
    IN  [d EXCEPT !.interfaces = Put(@, si[1], tagged), !.subInterfaces = Put(@, si, x)]

AddTunnelInterface(d, name) == [d EXCEPT !.tunnels = @ \cup {name}]

AddTunnelSubInterface(d, si, type) ==
    [d EXCEPT !.tunnels = @ \cup {si[1]}, !.tunnelSubInterfaces = Put(@, si, type)]

AddBFDInterface(d, si, enabled) == [d EXCEPT !.bfd = Put(@, si, enabled)]

-----------------------------------------------------------------------------
(* Network instances and their protocols.                                  *)

GetOrCreateNetworkInstance(d, name) == GetOrCreate(d.instances, name, NewNetworkInstance)
SetNetworkInstance(d, name, ni) == [d EXCEPT !.instances = Put(@, name, ni)]

GetOrCreateBGP(d, name) == GetOrCreateNetworkInstance(d, name).bgp
SetBGP(d, name, bgp) ==
    SetNetworkInstance(d, name, [GetOrCreateNetworkInstance(d, name) EXCEPT !.bgp = bgp])

AddNetworkInstance(d, name, type) ==
    SetNetworkInstance(d, name, [GetOrCreateNetworkInstance(d, name) EXCEPT !.type = type])

\* An element that is in the list keeps its place, a new one is the last.
Adjoin(s, x) == IF x \in Range(s) THEN s ELSE Append(s, x)

AddNetworkInstanceSubInterface(d, name, si) ==
    SetNetworkInstance(d, name, [GetOrCreateNetworkInstance(d, name) EXCEPT !.interfaces = Adjoin(@, si)])

AddNetworkInstanceSubInterfaceVXLAN(d, name, si) ==
    SetNetworkInstance(d, name, [GetOrCreateNetworkInstance(d, name) EXCEPT !.vxlan = <<si>>])

AddBGPAS(d, name, as) == SetBGP(d, name, [GetOrCreateBGP(d, name) EXCEPT !.as = as])
AddBGPRouterID(d, name, id) == SetBGP(d, name, [GetOrCreateBGP(d, name) EXCEPT !.routerID = id])
AddBGPAddressFamilies(d, name, afs) == SetBGP(d, name, [GetOrCreateBGP(d, name) EXCEPT !.families = afs])

\* A peer group is replaced, its route reflector and BFD included.
AddBGPPeerGroup(d, name, group, x) ==
    SetBGP(d, name, [GetOrCreateBGP(d, name) EXCEPT !.peerGroups = Put(@, group, x)])

\* A variant for the runs: the key of a neighbor is its peer group.
AddBGPNeighborByGroup(d, name, x) ==
    IF x.peer = <<>> THEN d
    ELSE SetBGP(d, name, [GetOrCreateBGP(d, name) EXCEPT !.neighbors = Put(@, <<x.group>>, x)])

\* The key of a neighbor is its address; without one nothing is added.
AddBGPNeighbor(d, name, x) ==
    IF x.peer = <<>> THEN d
    ELSE SetBGP(d, name, [GetOrCreateBGP(d, name) EXCEPT !.neighbors = Put(@, x.peer, x)])

AddBGPDynamicNeighbor(d, name, si, peerAS) ==
    SetBGP(d, name, [GetOrCreateBGP(d, name) EXCEPT !.dynamicNeighbors = Put(@, si, peerAS)])

InstanceOf(igp, new) == IF igp = <<>> THEN new ELSE igp[1]

NewISIS == [level |-> "", families |-> {}, levels |-> {}, interfaces |-> <<>>]

GetOrCreateISIS(d, name) == InstanceOf(GetOrCreateNetworkInstance(d, name).isis, NewISIS)
SetISIS(d, name, isis) ==
    SetNetworkInstance(d, name, [GetOrCreateNetworkInstance(d, name) EXCEPT !.isis = <<isis>>])

AddISISInstance(d, name, x) ==
    SetISIS(d, name, [GetOrCreateISIS(d, name) EXCEPT
        !.level = x.level, !.families = x.families, !.levels = x.levels])

\* The levels of the interface, its metrics among them, are not taken over.
AddISISInterface(d, name, si, x) ==
    LET kept == [ipv4 |-> x.ipv4, ipv6 |-> x.ipv6, passive |-> x.passive, networkType |-> x.networkType]
    IN  SetISIS(d, name, [GetOrCreateISIS(d, name) EXCEPT !.interfaces = Put(@, si, kept)])

NewOSPF == [routerID |-> <<>>, areas |-> <<>>]

GetOrCreateOSPF(d, name) == InstanceOf(GetOrCreateNetworkInstance(d, name).ospf, NewOSPF)
SetOSPF(d, name, ospf) ==
    SetNetworkInstance(d, name, [GetOrCreateNetworkInstance(d, name) EXCEPT !.ospf = <<ospf>>])

AddOSPFInstance(d, name, routerID) ==
    SetOSPF(d, name, [GetOrCreateOSPF(d, name) EXCEPT !.routerID = routerID])

AddOSPFArea(d, name, area) ==
    SetOSPF(d, name, [GetOrCreateOSPF(d, name) EXCEPT !.areas = Put(@, area, GetOrCreate(@, area, <<>>))])

AddOSPFAreaInterface(d, name, area, si, x) ==
    SetOSPF(d, name, [GetOrCreateOSPF(d, name) EXCEPT
        !.areas = Put(@, area, Put(GetOrCreate(@, area, <<>>), si, x))])

AddBGPEVPN(d, name, evi) ==
    SetNetworkInstance(d, name, [GetOrCreateNetworkInstance(d, name) EXCEPT !.evpn = <<evi>>])

AddBGPVPN(d, name, target) ==
    SetNetworkInstance(d, name, [GetOrCreateNetworkInstance(d, name) EXCEPT !.vpn = <<target>>])

-----------------------------------------------------------------------------
AddRoutingPolicy(d, name, families) == [d EXCEPT !.policies = Put(@, name, families)]
AddSystemProtocolsBGPVPN(d) == [d EXCEPT !.systemBGPVPN = TRUE]
=============================================================================

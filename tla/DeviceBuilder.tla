--------------------------- MODULE DeviceBuilder ---------------------------
(***************************************************************************)
(* The device builder (src/pkg/devbuilder): from a design, the nodes and   *)
(* links of the topology and the claims, or from the bridges and routers   *)
(* of a network, to the configuration of every device.                     *)
(*                                                                         *)
(* The builder is sequential, but it walks lists and maps whose order      *)
(* nobody fixes: the links as the cache lists them, the nodes and route    *)
(* reflectors as Go iterates over maps.  A step handles one element, and   *)
(* any order is possible.  The device controller builds again at every     *)
(* reconcile: a behaviour has two builds from the same input, and built    *)
(* keeps the first.                                                        *)
(***************************************************************************)
EXTENDS NetworkDesign, DeviceConfig

CONSTANT Inputs  \* what a build may start from

\* A timer that a link overrides has a value: NotSet is that of no timer.
ASSUME InputsAssumption ==
    \A inp \in Inputs :
        /\ inp.default \in BOOLEAN
        /\ \A l \in inp.links : l.bfd.minRx # <<>> => l.bfd.minRx[1] # NotSet

\* Bridges and routers, and the interfaces of each, are lists: their
\* positions are numbers.
ASSUME ListsAssumption ==
    \A inp \in Inputs : \A services \in {inp.bridges, inp.routers} :
        /\ DOMAIN services \subseteq Nat
        /\ \A k \in DOMAIN services : DOMAIN services[k].interfaces \subseteq Nat

VARIABLES
    input,    \* the design, the objects of the topology, the network
    pc,       \* where the build is, or how it ended
    pending,  \* the links that are not processed yet
    work,     \* the interfaces of bridges and routers that are not processed yet
    nodes,    \* the nodes gathered, with what was gathered about them
    nodeSet,  \* the nodes whose base configuration is made
    minRx,    \* the BFD timer: one cell, which the design and all BFD interfaces share
    edgeIPs,  \* the addresses of the edges, for every route reflector
    toPeer,   \* the route reflectors that are not processed yet
    devices,  \* the configurations so far
    built     \* the result of the first build, empty before

vars == <<input, pc, pending, work, nodes, nodeSet, minRx, edgeIPs, toPeer, devices, built>>

DefaultNetwork == "default"
Design == input.design

-----------------------------------------------------------------------------
(* Inputs.  A Link has two ends, the label that makes it infra, and        *)
(* overrides, each a sequence of at most one value.  ends[i].group is the  *)
(* topology the node belongs to, input.topology the one of the network.    *)

Override(given, default) == IF given = <<>> THEN default ELSE given[1]

\* Every infra link of the namespace: that an end belongs to another
\* topology ends the inner loop early and keeps the link.
GetLinks(inp) == {l \in inp.links : l.infra}

GetNodes(inp) == {n \in DOMAIN inp.nodes : inp.nodes[n].group = inp.topology}

\* What the params controller claims for a default network.
ParamClaims(inp) ==
    (UNION {GetNodeIPClaims(inp.design, n) \cup GetNodeASClaim(inp.design, n) : n \in GetNodes(inp)})
    \cup (UNION {GetLinkIPClaims(inp.design, l) : l \in GetLinks(inp)})

\* The claims that are ready when the builder asks for them.
Claims(inp) == ParamClaims(inp) \ inp.notReady

\* The interfaces of the bridges and of the routers, by their positions in
\* the two lists of lists.
AllInterfaces(inp) ==
    (UNION {{<<"bridge", k, j>> : j \in DOMAIN inp.bridges[k].interfaces} : k \in DOMAIN inp.bridges})
    \cup (UNION {{<<"router", k, j>> : j \in DOMAIN inp.routers[k].interfaces} : k \in DOMAIN inp.routers})

-----------------------------------------------------------------------------
(* A new builder, and where Build goes.                                    *)

NewBuild(inp) ==
    /\ pc' = IF inp.default THEN "links" ELSE "services"
    /\ pending' = IF inp.default THEN GetLinks(inp) ELSE {}
    /\ work' = IF inp.default THEN {} ELSE AllInterfaces(inp)
    /\ nodes' = <<>> /\ nodeSet' = {} /\ devices' = <<>>
    /\ minRx' = inp.design.minRx
    /\ edgeIPs' = <<>> /\ toPeer' = {}

Init ==
    /\ input \in Inputs
    /\ pc = "new" /\ pending = {} /\ work = {} /\ nodes = <<>> /\ nodeSet = {}
    /\ minRx = NotSet /\ edgeIPs = <<>> /\ toPeer = {} /\ devices = <<>> /\ built = <<>>

Start == pc = "new" /\ NewBuild(input) /\ UNCHANGED <<input, built>>

\* The next reconcile starts over: the first result was returned.
BuildAgain ==
    /\ pc = "done" /\ built = <<>>
    /\ built' = <<[devices |-> devices, minRx |-> minRx]>>
    /\ NewBuild(input)
    /\ UNCHANGED input

\* A build ends without result: the builder is dropped.
End(how) ==
    /\ pc' = how
    /\ UNCHANGED <<input, pending, work, nodes, nodeSet, minRx, edgeIPs, toPeer, devices, built>>

-----------------------------------------------------------------------------
(* Gathering what is known about the nodes and ends of a link.             *)

\* A variant for the runs: the loopback claim does not follow the design.
NodeClaimsAskedIPv4(n) == {<<n, "ipv4">>} \cup {c \in {<<n, "as">>} : IsEBGPEnabled(Design)}

\* The claims asked for differ from ParamClaims in the AS: the builder asks
\* for it whenever EBGP is present, with or without an AS pool.
NodeClaimsAsked(n) == GetNodeIPClaims(Design, n) \cup {c \in {<<n, "as">>} : IsEBGPEnabled(Design)}

EndClaimsAsked(e) ==
    {c \in {<<e.node, "as">>} : IsEBGPEnabled(Design)}
    \cup {<<e.node, e.ep, af>> : af \in NumberedFamilies(Design)}

\* The Node is looked up under the topology of the network, whichever the
\* link belongs to.
CanGatherNode(n) ==
    /\ n \in GetNodes(input) /\ input.nodes[n].systemID
    /\ NodeClaimsAsked(n) \subseteq Claims(input)

CanGather(l) ==
    \A i \in 1 .. 2 : CanGatherNode(l.ends[i].node) /\ EndClaimsAsked(l.ends[i]) \subseteq Claims(input)

\* A node without a device type label is gathered and not remembered.
IsLabelled(n) == input.nodes[n].type # NotSet

\* A variant for the runs: the router id is the IPv4 loopback address,
\* whether there is one or not.
GatherNodeInfoIPv4(n) ==
    [ipv4     |-> IF IsLoopbackIPv4Enabled(Design) THEN <<n, "ipv4">> ELSE <<>>,
     ipv6     |-> IF IsLoopbackIPv6Enabled(Design) THEN <<n, "ipv6">> ELSE <<>>,
     routerID |-> <<n, "ipv4">>,
     as       |-> IF IsEBGPEnabled(Design) THEN <<n, "as">> ELSE GetIBGPAS(Design),
     edge     |-> input.nodes[n].type \in {"edge", "pe"}]

GatherNodeInfo(n) ==
    [ipv4     |-> IF IsLoopbackIPv4Enabled(Design) THEN <<n, "ipv4">> ELSE <<>>,
     ipv6     |-> IF IsLoopbackIPv6Enabled(Design) THEN <<n, "ipv6">> ELSE <<>>,
     routerID |-> IF IsLoopbackIPv4Enabled(Design) THEN <<n, "ipv4">> ELSE <<n, "routerid">>,
     as       |-> IF IsEBGPEnabled(Design) THEN <<n, "as">> ELSE GetIBGPAS(Design),
     edge     |-> input.nodes[n].type \in {"edge", "pe"}]

AddressOf(e, af) == IF af \in NumberedFamilies(Design) THEN <<e.node, e.ep, af>> ELSE <<>>
ASOf(e) == IF IsEBGPEnabled(Design) THEN <<e.node, "as">> ELSE <<>>

-----------------------------------------------------------------------------
(* The base configuration of a node.                                       *)

UpdateUnderlayNetworkInstance(d) ==
    AddNetworkInstanceSubInterface(AddNetworkInstance(d, DefaultNetwork, "default"),
                                   DefaultNetwork, <<"system0", 0>>)

UpdateUnderlayOSPFNode(d, node) ==
    AddOSPFAreaInterface(
        AddOSPFArea(AddOSPFInstance(d, DefaultNetwork, node.routerID), DefaultNetwork, Design.ospfArea),
        DefaultNetwork, Design.ospfArea, <<"system0", 0>>,
        [networkType |-> "unknown", passive |-> TRUE, bfd |-> FALSE])

LevelsOf(level) == IF level = "L1L2" THEN {"L1", "L2"} ELSE {level} \cap {"L1", "L2"}

UpdateUnderlayISISNode(d) ==
    AddISISInterface(
        AddISISInstance(d, DefaultNetwork,
            [level |-> Design.isisLevel, families |-> GetIGPAddressFamilies(Design),
             levels |-> LevelsOf(Design.isisLevel)]),
        DefaultNetwork, <<"system0", 0>>,
        [ipv4 |-> <<>>, ipv6 |-> <<>>, passive |-> TRUE, networkType |-> "unknown", levels |-> <<>>])

UpdateUnderlayBGPNode(d, node) ==
    LET d1 == AddBGPRouterID(AddBGPAS(d, DefaultNetwork, node.as), DefaultNetwork, node.routerID)
        d2 == IF IsEBGPEnabled(Design)
              THEN AddRoutingPolicy(d1, "underlay", Design.loopbackPrefixes) ELSE d1
        d3 == IF IsIBGPEnabled(Design)
              THEN AddBGPAddressFamilies(AddRoutingPolicy(d2, "overlay", {}), DefaultNetwork,
                                         GetAllEnabledAddressFamilies(Design))
              ELSE d2
    IN  IF IsBGPEVPNEnabled(Design) THEN AddSystemProtocolsBGPVPN(d3) ELSE d3

OptAddress(a) == {x \in {a} : x # <<>>}

UpdateBaseDeviceConfig(d, n, node) ==
    LET d1 == AddInterface(AddInterface(AddProvider(d, input.nodes[n].provider), "irb0"), "system0")
        d2 == AddSubInterface(d1, <<"system0", 0>>,
                [peer |-> <<>>, vlan |-> <<>>, type |-> "",
                 ipv4 |-> <<OptAddress(node.ipv4)>>, ipv6 |-> <<OptAddress(node.ipv6)>>])
        d3 == IF IsVXLANEnabled(Design) THEN AddTunnelInterface(d2, "vxlan0") ELSE d2
        d4 == UpdateUnderlayNetworkInstance(d3)
        d5 == IF IsOSPFEnabled(Design) THEN UpdateUnderlayOSPFNode(d4, node) ELSE d4
        d6 == IF IsISISEnabled(Design) THEN UpdateUnderlayISISNode(d5) ELSE d5
    IN  IF IsIBGPEnabled(Design) \/ IsEBGPEnabled(Design) THEN UpdateUnderlayBGPNode(d6, node) ELSE d6

-----------------------------------------------------------------------------
(* The configuration of an end of a link; peer is the other end.           *)

UnderlaySubInterface(e, peer) ==
    [peer |-> <<peer.node, peer.ep>>, vlan |-> <<>>, type |-> "routed",
     ipv4 |-> IF IsUnderlayIPv4Numbered(Design) THEN <<{AddressOf(e, "ipv4")}>>
              ELSE IF IsUnderlayIPv4UnNumbered(Design) THEN <<{}>> ELSE <<>>,
     ipv6 |-> IF IsUnderlayIPv6Numbered(Design) THEN <<{AddressOf(e, "ipv6")}>>
              ELSE IF IsUnderlayIPv6UnNumbered(Design) THEN <<{}>> ELSE <<>>]

\* Of the BFD parameters only enabled is set anew for every link.
BFDEnabledOn(l) == Override(l.bfd.enabled, TRUE)
BFDTimerAfter(l) == Override(l.bfd.minRx, minRx)

\* An override of a timer that the design does not have.
BFDPanics(l) == IsBFDEnabled(Design) /\ l.bfd.minRx # <<>> /\ minRx = NotSet

UpdateUnderlayBFDInterface(d, e, l) ==
    IF IsBFDEnabled(Design) /\ BFDEnabledOn(l) THEN AddBFDInterface(d, <<e.ep, 0>>, TRUE) ELSE d

UpdateUnderlayOSPFInterface(d, e, l) ==
    LET area == Override(l.ospf.area, Design.ospfArea)
    IN  AddOSPFAreaInterface(AddOSPFArea(d, DefaultNetwork, area), DefaultNetwork, area, <<e.ep, 0>>,
            [networkType |-> IF l.ospf.passive THEN "unknown" ELSE Override(l.ospf.networkType, "p2p"),
             passive     |-> l.ospf.passive,
             bfd         |-> IsOSPFBFDEnabled(Design) /\ Override(l.ospf.bfd, TRUE)])

\* The levels of the design that the link disables or gives a metric.
ISISInterfaceLevels(l) ==
    LET disabled(lv) == l.isis.level \in {"L1", "L2"} \ {lv}
    IN  [lv \in {x \in LevelsOf(Design.isisLevel) : disabled(x) \/ l.isis.metric # 0} |->
            [disable |-> disabled(lv), metric |-> l.isis.metric]]

ISISInterface(l) ==
    LET bfd == IsISISBFDEnabled(Design) /\ Override(l.isis.bfd, TRUE)
    IN  [passive     |-> l.isis.passive,
         networkType |-> IF l.isis.passive THEN "unknown" ELSE Override(l.isis.networkType, "p2p"),
         levels      |-> ISISInterfaceLevels(l),
         ipv4        |-> IF IsUnderlayIPv4Enabled(Design) THEN <<bfd>> ELSE <<>>,
         ipv6        |-> IF IsUnderlayIPv6Enabled(Design) THEN <<bfd>> ELSE <<>>]

UpdateUnderlayISISInterface(d, e, l) ==
    AddISISInterface(d, DefaultNetwork, <<e.ep, 0>>, ISISInterface(l))

BGPBFD(l) == IsEBGPBFDEnabled(Design) /\ Override(l.bgpBFD, TRUE)

\* A variant for the runs: the peer is given the AS of the device itself.
EBGPNeighborOwnAS(e, peer, l, af) ==
    [local |-> AddressOf(e, af), peer |-> AddressOf(peer, af), group |-> "underlay",
     localAS |-> ASOf(e), peerAS |-> ASOf(e), bfd |-> BGPBFD(l)]

EBGPNeighbor(e, peer, l, af) ==
    [local |-> AddressOf(e, af), peer |-> AddressOf(peer, af), group |-> "underlay",
     localAS |-> ASOf(e), peerAS |-> ASOf(peer), bfd |-> BGPBFD(l)]

\* A session over the addresses of the link, or with whoever answers on it.
UpdateUnderlayEBGPSession(d, e, peer, l, af) ==
    IF af \in NumberedFamilies(Design)
    THEN AddBGPNeighbor(d, DefaultNetwork, EBGPNeighbor(e, peer, l, af))
    ELSE AddBGPDynamicNeighbor(d, DefaultNetwork, <<e.ep, 0>>, ASOf(peer))

UpdateUnderlayEBGPInterface(d, e, peer, l) ==
    LET d1 == IF IsUnderlayIPv4Enabled(Design)
              THEN UpdateUnderlayEBGPSession(d, e, peer, l, "ipv4") ELSE d
        d2 == IF IsUnderlayIPv6Enabled(Design)
              THEN UpdateUnderlayEBGPSession(d1, e, peer, l, "ipv6") ELSE d1
    IN  AddBGPPeerGroup(d2, DefaultNetwork, "underlay",
            [disabled |-> GetUnderlayAddressFamiliesToBeDisabled(Design),
             clusterID |-> <<>>, bfd |-> BGPBFD(l)])

UpdateUnderlayInterface(d, e, peer, l) ==
    LET d1 == AddSubInterface(AddInterface(d, e.ep), <<e.ep, 0>>, UnderlaySubInterface(e, peer))
        d2 == AddNetworkInstanceSubInterface(d1, DefaultNetwork, <<e.ep, 0>>)
        d3 == UpdateUnderlayBFDInterface(d2, e, l)
        d4 == IF IsOSPFEnabled(Design) THEN UpdateUnderlayOSPFInterface(d3, e, l) ELSE d3
        d5 == IF IsISISEnabled(Design) THEN UpdateUnderlayISISInterface(d4, e, l) ELSE d4
    IN  IF IsEBGPEnabled(Design) THEN UpdateUnderlayEBGPInterface(d5, e, peer, l) ELSE d5

-----------------------------------------------------------------------------
(* The loop over the links.                                                *)

NodesOf(l) == {l.ends[1].node, l.ends[2].node}

WithBaseConfig(ds, gathered, n) ==
    IF n \in nodeSet THEN ds
    ELSE Put(ds, n, UpdateBaseDeviceConfig(GetOrCreateDevice(ds, n), n, gathered[n]))

WithEnd(ds, l, i) ==
    LET d == GetOrCreateDevice(ds, l.ends[i].node)
    IN  Put(ds, l.ends[i].node, UpdateUnderlayInterface(d, l.ends[i], l.ends[3 - i], l))

ProcessLink ==
    \E l \in pending :
        /\ pc = "links" /\ CanGather(l) /\ ~BFDPanics(l)
        /\ \A n \in NodesOf(l) : IsLabelled(n)
        /\ LET gathered == [n \in NodesOf(l) \cup DOMAIN nodes |->
                               IF n \in DOMAIN nodes THEN nodes[n] ELSE GatherNodeInfo(n)]
               base == WithBaseConfig(WithBaseConfig(devices, gathered, l.ends[1].node),
                                      gathered, l.ends[2].node)
           IN  /\ nodes' = gathered
               /\ devices' = WithEnd(WithEnd(base, l, 1), l, 2)
        /\ nodeSet' = nodeSet \cup NodesOf(l)
        /\ minRx' = IF IsBFDEnabled(Design) THEN BFDTimerAfter(l) ELSE minRx
        /\ pending' = pending \ {l}
        /\ UNCHANGED <<input, pc, work, edgeIPs, toPeer, built>>

LinkFails == pc = "links" /\ (\E l \in pending : ~CanGather(l)) /\ End("failed")

\* The builder dereferences a node it did not keep, or a timer that is nil.
LinkPanics ==
    /\ pc = "links"
    /\ \E l \in pending : CanGather(l) /\ (BFDPanics(l) \/ \E n \in NodesOf(l) : ~IsLabelled(n))
    /\ End("panic")

LinksDone ==
    /\ pc = "links" /\ pending = {}
    /\ pc' = IF IsIBGPEnabled(Design) THEN "edges" ELSE "done"
    /\ UNCHANGED <<input, pending, work, nodes, nodeSet, minRx, edgeIPs, toPeer, devices, built>>

-----------------------------------------------------------------------------
(* The mesh between the edges and the route reflectors.  A reflector is    *)
(* named by the claim of one of its addresses.                             *)

ReflectorsReady == Design.reflectors \subseteq Claims(input)

Prefix(node, rr) == IF rr[2] = "ipv6" THEN node.ipv6 ELSE node.ipv4

Edges == {n \in DOMAIN nodes : nodes[n].edge}

OverlayGroup(clusterID) ==
    [disabled |-> GetOverlayAddressFamiliesToBeDisabled(Design), clusterID |-> clusterID, bfd |-> FALSE]

IBGPNeighbor(local, peer) ==
    [local |-> local, peer |-> peer, group |-> "overlay",
     localAS |-> GetIBGPAS(Design), peerAS |-> GetIBGPAS(Design), bfd |-> FALSE]

\* A device with a session from local[p] to each peer p that has an address;
\* its other sessions stay.
WithSessions(d, local, peers) ==
    LET bgp == GetOrCreateBGP(d, DefaultNetwork)
        sessions == [p \in {x \in peers : x # <<>>} |-> IBGPNeighbor(local[p], p)]
    IN  SetBGP(d, DefaultNetwork, [bgp EXCEPT !.neighbors =
            [a \in DOMAIN sessions \cup DOMAIN @ |-> IF a \in DOMAIN sessions THEN sessions[a] ELSE @[a]]])

EdgesPanic ==
    /\ pc = "edges" /\ ReflectorsReady
    /\ \E n \in Edges, rr \in Design.reflectors : Prefix(nodes[n], rr) = <<>>
    /\ End("panic")

EdgesFail == pc = "edges" /\ ~ReflectorsReady /\ End("failed")

PeerEdges ==
    /\ pc = "edges" /\ ReflectorsReady
    /\ \A n \in Edges, rr \in Design.reflectors : Prefix(nodes[n], rr) # <<>>
    /\ pc' = "reflectors" /\ toPeer' = Design.reflectors
    /\ edgeIPs' = [rr \in Design.reflectors |-> {Prefix(nodes[n], rr) : n \in Edges}]
    /\ devices' = [n \in DOMAIN devices |->
            IF n \in Edges /\ Design.reflectors # {}
            THEN WithSessions(AddBGPPeerGroup(devices[n], DefaultNetwork, "overlay", OverlayGroup(<<>>)),
                              [rr \in Design.reflectors |-> Prefix(nodes[n], rr)], Design.reflectors)
            ELSE devices[n]]
    /\ UNCHANGED <<input, pending, work, nodes, nodeSet, minRx, built>>

PeerReflector ==
    \E rr \in toPeer :
        /\ pc = "reflectors"
        /\ toPeer' = toPeer \ {rr}
        /\ devices' = IF rr[1] \in DOMAIN nodes /\ rr[2] \in {"ipv4", "ipv6"}
                      THEN LET d == AddBGPPeerGroup(GetOrCreateDevice(devices, rr[1]), DefaultNetwork,
                                                    "overlay", OverlayGroup(rr))
                           IN  Put(devices, rr[1],
                                   WithSessions(d, [p \in edgeIPs[rr] |-> Prefix(nodes[rr[1]], rr)], edgeIPs[rr]))
                      ELSE devices
        /\ UNCHANGED <<input, pc, pending, work, nodes, nodeSet, minRx, edgeIPs, built>>

ReflectorsDone ==
    /\ pc = "reflectors" /\ toPeer = {}
    /\ pc' = "done"
    /\ UNCHANGED <<input, pending, work, nodes, nodeSet, minRx, edgeIPs, toPeer, devices, built>>

-----------------------------------------------------------------------------
(* The overlay: the interfaces of all bridges, then those of all routers,  *)
(* in their order.  An interface has a bridge, an endpoint and a node,     *)
(* each NotSet when nil, at most one VLAN, and addresses: pairs of a       *)
(* family, which no address that is not valid has, and the address.        *)

Before(v, w) ==
    \/ v[1] = "bridge" /\ w[1] = "router"
    \/ v[1] = w[1] /\ (v[2] < w[2] \/ (v[2] = w[2] /\ v[3] < w[3]))

Turn(w) == pc = "services" /\ \A v \in work : ~Before(v, w)

ServiceAt(w) == IF w[1] = "bridge" THEN input.bridges[w[2]] ELSE input.routers[w[2]]
Item(w) ==
    [name |-> ServiceAt(w).name, id |-> ServiceAt(w).id, itfce |-> ServiceAt(w).interfaces[w[3]]]

Missing(x) == x = NotSet
VLANOf(item) == <<Override(item.itfce.vlan, item.id)>>

EndpointExists(itfce) == <<itfce.node, itfce.endpoint>> \in DOMAIN input.endpoints
IsBridgePresent(name) == \E k \in DOMAIN input.bridges : input.bridges[k].name = name

\* The provider: that of the endpoint, or without one that of the node.
ProviderOf(itfce) ==
    IF Missing(itfce.bridge) THEN input.endpoints[<<itfce.node, itfce.endpoint>>]
                             ELSE input.nodes[itfce.node].provider

\* The VXLAN tunnel and the VPN of a service.
WithService(d, name, id, type) ==
    LET d1 == IF IsVXLANEnabled(Design)
              THEN AddNetworkInstanceSubInterfaceVXLAN(
                       AddTunnelSubInterface(d, <<"vxlan0", id>>, type), name, <<"vxlan0", id>>)
              ELSE d
    IN  AddBGPVPN(AddBGPEVPN(d1, name, id), name, <<GetIBGPAS(Design), id>>)

CanAddBridgeInterface(itfce) ==
    ~Missing(itfce.endpoint) /\ ~Missing(itfce.node) /\ EndpointExists(itfce)

BridgeDevice(d, item) ==
    LET si == <<item.itfce.endpoint, item.id>>
        provider == input.endpoints[<<item.itfce.node, item.itfce.endpoint>>]
        d1 == AddSubInterface(AddProvider(d, provider), si,
                [peer |-> <<"customer">>, vlan |-> VLANOf(item), type |-> "bridged",
                 ipv4 |-> <<>>, ipv6 |-> <<>>])
        d2 == AddNetworkInstanceSubInterface(AddNetworkInstance(d1, item.name, "mac-vrf"), item.name, si)
    IN  WithService(d2, item.name, item.id, "bridged")

CanAddRouterInterface(itfce) ==
    /\ ~Missing(itfce.node)
    /\ IF Missing(itfce.bridge)
       THEN ~Missing(itfce.endpoint) /\ EndpointExists(itfce)
       ELSE itfce.node \in GetNodes(input) /\ IsBridgePresent(itfce.bridge)

AddressesIn(itfce, af) == {a \in itfce.addresses : a[1] = af}

RoutedSubInterface(item) ==
    [peer |-> <<"customer">>, vlan |-> VLANOf(item), type |-> "routed",
     ipv4 |-> <<AddressesIn(item.itfce, "ipv4")>>, ipv6 |-> <<AddressesIn(item.itfce, "ipv6")>>]

IRBSubInterface(item) == [RoutedSubInterface(item) EXCEPT !.vlan = <<>>, !.type = ""]

\* A variant for the runs: an IRB interface does not join its bridge.
RouterDeviceWithoutBridge(d, item) ==
    LET d1 == AddProvider(d, ProviderOf(item.itfce))
        d2 == WithService(AddNetworkInstance(d1, item.name, "ip-vrf"), item.name, item.id, "routed")
        port == <<item.itfce.endpoint, item.id>>
        irb == <<"irb0", item.id>>
    IN  IF Missing(item.itfce.bridge)
        THEN AddNetworkInstanceSubInterface(AddSubInterface(d2, port, RoutedSubInterface(item)),
                                            item.name, port)
        ELSE AddNetworkInstanceSubInterface(AddSubInterface(d2, irb, IRBSubInterface(item)),
                                            item.name, irb)

RouterDevice(d, item) ==
    LET d1 == AddProvider(d, ProviderOf(item.itfce))
        d2 == WithService(AddNetworkInstance(d1, item.name, "ip-vrf"), item.name, item.id, "routed")
        port == <<item.itfce.endpoint, item.id>>
        irb == <<"irb0", item.id>>
    IN  IF Missing(item.itfce.bridge)
        THEN AddNetworkInstanceSubInterface(AddSubInterface(d2, port, RoutedSubInterface(item)),
                                            item.name, port)
        ELSE AddNetworkInstanceSubInterface(
                 AddNetworkInstanceSubInterface(AddSubInterface(d2, irb, IRBSubInterface(item)),
                                                item.name, irb),
                 item.itfce.bridge, irb)

OverlayStep(w) ==
    /\ pc' = pc /\ work' = work \ {w}
    /\ UNCHANGED <<input, pending, nodes, nodeSet, minRx, edgeIPs, toPeer, built>>

\* Dynamic interfaces are not supported: they are passed over.
SkipDynamic ==
    \E w \in work : Turn(w) /\ Item(w).itfce.dynamic /\ OverlayStep(w) /\ UNCHANGED devices

BridgeInterface ==
    \E w \in work : LET itfce == Item(w).itfce IN
        /\ Turn(w) /\ w[1] = "bridge" /\ ~itfce.dynamic /\ CanAddBridgeInterface(itfce)
        /\ devices' = Put(devices, itfce.node, BridgeDevice(GetOrCreateDevice(devices, itfce.node), Item(w)))
        /\ OverlayStep(w)

RouterInterface ==
    \E w \in work : LET itfce == Item(w).itfce IN
        /\ Turn(w) /\ w[1] = "router" /\ ~itfce.dynamic /\ CanAddRouterInterface(itfce)
        /\ devices' = Put(devices, itfce.node, RouterDevice(GetOrCreateDevice(devices, itfce.node), Item(w)))
        /\ OverlayStep(w)

ServiceFails ==
    /\ \E w \in work :
          /\ Turn(w) /\ ~Item(w).itfce.dynamic
          /\ ~IF w[1] = "bridge" THEN CanAddBridgeInterface(Item(w).itfce)
                                 ELSE CanAddRouterInterface(Item(w).itfce)
    /\ End("failed")

ServicesDone ==
    /\ pc = "services" /\ work = {}
    /\ pc' = "done"
    /\ UNCHANGED <<input, pending, work, nodes, nodeSet, minRx, edgeIPs, toPeer, devices, built>>

-----------------------------------------------------------------------------
BuildUnderlay ==
    \/ ProcessLink \/ LinkFails \/ LinkPanics \/ LinksDone
    \/ PeerEdges \/ EdgesFail \/ EdgesPanic \/ PeerReflector \/ ReflectorsDone

BuildOverlay == SkipDynamic \/ BridgeInterface \/ RouterInterface \/ ServiceFails \/ ServicesDone

Next == Start \/ BuildUnderlay \/ BuildOverlay \/ BuildAgain

Spec == Init /\ [][Next]_vars

-----------------------------------------------------------------------------
(* Properties.                                                             *)

\* The type invariant: a node is remembered with a loopback address for
\* every family enabled, a base configuration is made for the remembered
\* nodes only, and every device with an underlay is one of them.
BuilderTypeOK ==
    /\ pc \in {"new", "links", "edges", "reflectors", "services", "done", "failed", "panic"}
    /\ pending \subseteq GetLinks(input) /\ toPeer \subseteq Design.reflectors
    /\ nodeSet = DOMAIN nodes
    /\ \A n \in DOMAIN nodes : nodes[n].routerID \in Claims(input)
    /\ input.default => nodeSet = DOMAIN devices
    /\ Len(built) \in 0 .. 1

\* The addresses a device has on its sub-interfaces.
Addresses(d) ==
    UNION {UNION {a : a \in {x.ipv4[k] : k \in DOMAIN x.ipv4} \cup {x.ipv6[k] : k \in DOMAIN x.ipv6}} :
           x \in {d.subInterfaces[si] : si \in DOMAIN d.subInterfaces}}

Neighbors(n) == devices[n].instances[DefaultNetwork].bgp.neighbors

Mirror(nb) == [nb EXCEPT !.local = nb.peer, !.peer = nb.local, !.localAS = nb.peerAS, !.peerAS = nb.localAS]

\* Links between the same two nodes that have one end in common have both,
\* no endpoint is named like the system interface, and a reflector is named
\* by a claim of a node.
WellCabled ==
    /\ \A l, k \in GetLinks(input) : \A i, j \in 1 .. 2 :
          (/\ l.ends[i].node = k.ends[j].node /\ l.ends[i].ep = k.ends[j].ep
           /\ l.ends[3 - i].node = k.ends[3 - j].node)
          => l.ends[3 - i].ep = k.ends[3 - j].ep
    /\ \A l \in GetLinks(input) : \A i \in 1 .. 2 : l.ends[i].ep # "system0"
    /\ \A rr \in Design.reflectors : rr = <<rr[1], rr[2]>>

\* The two ends of a BGP session are configured by different iterations, of
\* the loop over links or of the two loops over edges and reflectors
\* (builder.go:92-168, 546-595).  In a finished build they agree: a session
\* starts at an address of its device, and the device that has the address
\* of the peer has the mirrored session, with the ASes, the group and BFD.
SessionsAgree ==
    pc = "done" /\ input.default /\ WellCabled =>
        \A n \in DOMAIN devices : \A a \in DOMAIN Neighbors(n) :
            LET nb == Neighbors(n)[a]
            IN  /\ nb.local \in Addresses(devices[n])
                /\ \A m \in DOMAIN devices : a \in Addresses(devices[m]) =>
                       /\ nb.local \in DOMAIN Neighbors(m)
                       /\ Neighbors(m)[nb.local] = Mirror(nb)

\* What a build of the default network may count on: labelled nodes with a
\* system id, links of this topology, an AS pool for EBGP, a BFD timer in
\* the design wherever a link overrides it, and reflectors the params
\* controller claims an address for.
SoundInput ==
    /\ input.default /\ input.notReady = {}
    /\ \A n \in GetNodes(input) : IsLabelled(n) /\ input.nodes[n].systemID
    /\ \A l \in GetLinks(input) : \A i \in 1 .. 2 :
           l.ends[i].group = input.topology /\ l.ends[i].node \in GetNodes(input)
    /\ IsEBGPEnabled(Design) => Design.asPool
    /\ \A l \in GetLinks(input) : l.bfd.minRx # <<>> => Design.minRx # NotSet
    /\ Design.reflectors \subseteq {<<n, af>> : n \in GetNodes(input),
           af \in {x \in {"ipv4"} : IsLoopbackIPv4Enabled(Design)}
                  \cup {x \in {"ipv6"} : IsLoopbackIPv6Enabled(Design)}}

\* From sound input the build neither fails nor panics: the params
\* controller has created every claim the builder asks for, although the two
\* derive the names independently (networkparams/reconciler.go:208-238,
\* builder.go:191-313).
SoundInputBuilds == SoundInput => pc \notin {"failed", "panic"}

\* Where the order of the iterations matters: a node that reflects in both
\* families, links of a node that disagree on BFD for BGP, links that
\* override the shared timer differently, links that share an endpoint.
OrderMatters ==
    \/ \E r, s \in Design.reflectors : r # s /\ r[1] = s[1]
    \/ \E l, m \in GetLinks(input) : l # m /\
           \/ NodesOf(l) \cap NodesOf(m) # {} /\ BGPBFD(l) # BGPBFD(m)
           \/ l.bfd.minRx # <<>> /\ m.bfd.minRx # <<>> /\ l.bfd.minRx # m.bfd.minRx
           \/ \E i, j \in 1 .. 2 : l.ends[i].node = m.ends[j].node /\ l.ends[i].ep = m.ends[j].ep

\* A configuration but for the order of the interfaces of an instance.
Unordered(d) ==
    [d EXCEPT !.instances = [name \in DOMAIN d.instances |->
        [d.instances[name] EXCEPT !.interfaces = Range(d.instances[name].interfaces)]]]

\* Building again from the same input, at the next reconcile, gives the same
\* configurations, in whatever order the links, nodes and reflectors are
\* walked.  In the default network one thing may differ, the order of the
\* interfaces of the network instance: they are appended as the links come
\* and never sorted (devices.go:175-181), so the NetworkDevice of a node with
\* two links may be rewritten.  Another network is built exactly as before.
SameUpToOrder ==
    pc = "done" /\ built # <<>> /\ ~OrderMatters =>
        /\ built[1].minRx = minRx
        /\ [n \in DOMAIN built[1].devices |-> Unordered(built[1].devices[n])]
               = [n \in DOMAIN devices |-> Unordered(devices[n])]
        /\ ~input.default => built[1].devices = devices

\* The families that an addressing the CRD admits asks for by its name
\* (networkdesign_types.go:78).
FamiliesOf(addressing) ==
    CASE addressing = "dualstack" -> {"ipv4", "ipv6"}
      [] addressing = "ipv4only" -> {"ipv4"}
      [] addressing = "ipv6only" -> {"ipv6"}
      [] OTHER -> {}

\* A finished build of the default network gives every device a loopback
\* address of each family the design asks for, as the CRD documents the
\* addressing (networkdesign_types.go:70-80).
AddressingIsHonoured ==
    pc = "done" /\ input.default =>
        \A n \in DOMAIN devices : \A af \in FamiliesOf(Design.loopback) :
            <<n, af>> \in Addresses(devices[n])

-----------------------------------------------------------------------------
Static(service) ==
    {i \in {service.interfaces[k] : k \in DOMAIN service.interfaces} : ~i.dynamic}

Bridges == {input.bridges[k] : k \in DOMAIN input.bridges}
Routers == {input.routers[k] : k \in DOMAIN input.routers}
IRBs(r) == {i \in Static(r) : ~Missing(i.bridge)}
Ports(s) == {i \in Static(s) : Missing(i.bridge)}

\* Names and ids tell the services apart, an IRB interface is on a node
\* where its bridge has a port, a router has at most one on a node, a bridge
\* has none, and a port is used once in a service and not called irb0.
WellFormedServices ==
    /\ \A s, t \in Bridges \cup Routers : s # t => s.name # t.name /\ s.id # t.id
    /\ \A r \in Routers : \A i \in IRBs(r) :
           /\ \E b \in Bridges : b.name = i.bridge /\ \E p \in Ports(b) : p.node = i.node
           /\ \A j \in IRBs(r) : j.node = i.node => j = i
    /\ \A b \in Bridges : IRBs(b) = {}
    /\ \A s \in Bridges \cup Routers : \A p, q \in Ports(s) :
           p.endpoint # "irb0" /\ (p.node = q.node /\ p.endpoint = q.endpoint => p = q)

InstanceOn(n, name) == devices[n].instances[name]

\* Every network instance of a device is complete, has only sub-interfaces
\* that the device has, and the later interfaces of a network undo nothing
\* of the earlier ones: every port is in the instance of its service alone,
\* with its VLAN, and every IRB interface keeps its addresses and joins the
\* router with the bridge (builder.go:597-815).
OverlayComplete ==
    pc = "done" /\ ~input.default /\ WellFormedServices =>
        /\ \A n \in DOMAIN devices : \A name \in DOMAIN devices[n].instances :
               /\ InstanceOn(n, name).type # "" /\ InstanceOn(n, name).vpn # <<>>
               /\ Range(InstanceOn(n, name).interfaces) \subseteq DOMAIN devices[n].subInterfaces
        /\ \A s \in Bridges \cup Routers : \A p \in Ports(s) :
               /\ {name \in DOMAIN devices[p.node].instances :
                       <<p.endpoint, s.id>> \in Range(InstanceOn(p.node, name).interfaces)} = {s.name}
               /\ devices[p.node].subInterfaces[<<p.endpoint, s.id>>].vlan
                      = <<Override(p.vlan, s.id)>>
               /\ devices[p.node].interfaces[p.endpoint].vlanTagging
        /\ \A r \in Routers : \A i \in IRBs(r) :
               /\ devices[i.node].subInterfaces[<<"irb0", r.id>>].ipv4 = <<AddressesIn(i, "ipv4")>>
               /\ devices[i.node].subInterfaces[<<"irb0", r.id>>].ipv6 = <<AddressesIn(i, "ipv6")>>
               /\ {name \in DOMAIN devices[i.node].instances :
                       <<"irb0", r.id>> \in Range(InstanceOn(i.node, name).interfaces)} = {r.name, i.bridge}
=============================================================================

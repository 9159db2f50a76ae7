------------------------ MODULE BuilderSessionProofs ------------------------
(***************************************************************************)
(* The BGP sessions of the underlay and of the reflector mesh agree at     *)
(* their two ends, for every design and topology, and in whatever order    *)
(* the builder walks them.                                                 *)
(***************************************************************************)
EXTENDS DeviceBuilderProofs

-----------------------------------------------------------------------------
(* Devices.                                                                *)

Nbrs(d) == GetOrCreateBGP(d, DefaultNetwork).neighbors

SystemSub == <<"system0", 0>>

LoopbackFamilies ==
    {af \in {"ipv4"} : IsLoopbackIPv4Enabled(Design)} \cup {af \in {"ipv6"} : IsLoopbackIPv6Enabled(Design)}

\* The addresses of a sub-interface.
IPs(x) == UNION ({x.ipv4[k] : k \in DOMAIN x.ipv4} \cup {x.ipv6[k] : k \in DOMAIN x.ipv6})

\* A device has the fields of its type, at every level that is written to.
Shaped(d) ==
    /\ DOMAIN d = DOMAIN NewDevice
    /\ \A name \in DOMAIN d.instances :
          /\ DOMAIN d.instances[name] = DOMAIN NewNetworkInstance
          /\ DOMAIN d.instances[name].bgp = DOMAIN NewBGP

\* Its sub-interfaces have the addresses that belong to their names.
GoodSub(n, si, x) ==
    \/ si = SystemSub /\ IPs(x) = {<<n, af>> : af \in LoopbackFamilies}
    \/ /\ si = <<si[1], 0>> /\ si[1] # "system0"
       /\ IPs(x) = {<<n, si[1], af>> : af \in NumberedFamilies(Design)}

Plain(n, d) == Shaped(d) /\ \A si \in DOMAIN d.subInterfaces : GoodSub(n, si, d.subInterfaces[si])

\* It has its base configuration.
Made(n, d) == Plain(n, d) /\ DefaultNetwork \in DOMAIN d.instances /\ SystemSub \in DOMAIN d.subInterfaces

-----------------------------------------------------------------------------
(* The inductive invariant.                                                *)

\* The session that end i of a link has over it, with its key.
Over(l, i, af, n, a) == n = l.ends[i].node /\ a = <<l.ends[3 - i].node, l.ends[3 - i].ep, af>>

\* The session over a link: its peer has it too.
SessionOver(ds, l, i, af, n, a) ==
    LET e == l.ends[i]
        p == l.ends[3 - i]
    IN  /\ Over(l, i, af, n, a)
        /\ Nbrs(ds[n])[a] = EBGPNeighbor(e, p, l, af)
        /\ <<e.ep, 0>> \in DOMAIN ds[n].subInterfaces
        /\ p.node \in DOMAIN ds
        /\ <<e.node, e.ep, af>> \in DOMAIN Nbrs(ds[p.node])
        /\ Nbrs(ds[p.node])[<<e.node, e.ep, af>>] = EBGPNeighbor(p, e, l, af)

LinkSession(ds, n, a) ==
    \E l \in GetLinks(input), i \in 1 .. 2, af \in NumberedFamilies(Design) : SessionOver(ds, l, i, af, n, a)

FamilyOf(rr) == IF rr[2] = "ipv6" THEN "ipv6" ELSE "ipv4"

\* A session of the mesh: of an edge with a reflector, or the other way.
MeshSession(ds, n, a) ==
    \E rr \in Design.reflectors, x \in Edges :
        \/ /\ n = x /\ a = rr
           /\ Nbrs(ds[n])[a] = IBGPNeighbor(<<n, FamilyOf(rr)>>, rr)
        \/ /\ rr \notin toPeer /\ n = rr[1] /\ rr[2] \in {"ipv4", "ipv6"} /\ a = <<x, rr[2]>>
           /\ Nbrs(ds[n])[a] = IBGPNeighbor(rr, a)

Meshed == pc \in {"reflectors", "done"} /\ IsIBGPEnabled(Design)

\* Every edge has its sessions, and so has every reflector that was visited.
MeshInv ==
    /\ \A x \in Edges, rr \in Design.reflectors :
          FamilyOf(rr) \in LoopbackFamilies /\ rr \in DOMAIN Nbrs(devices[x])
    /\ edgeIPs = [rr \in Design.reflectors |-> {<<x, FamilyOf(rr)>> : x \in Edges}]
    /\ \A rr \in Design.reflectors \ toPeer, x \in Edges :
          rr[1] \in DOMAIN nodes /\ rr[2] \in {"ipv4", "ipv6"} =>
              <<x, rr[2]>> \in DOMAIN Nbrs(devices[rr[1]])
    /\ pc = "done" => toPeer = {}

Building == input.default /\ pc \in {"links", "edges", "reflectors", "done"}

SessionsInv ==
    Building =>
        /\ \A n \in DOMAIN devices : Made(n, devices[n])
        /\ \A n \in DOMAIN devices : \A a \in DOMAIN Nbrs(devices[n]) :
              LinkSession(devices, n, a) \/ (Meshed /\ MeshSession(devices, n, a))
        /\ Meshed => MeshInv

-----------------------------------------------------------------------------
(* What the operations on a device leave alone.                            *)

\* d2 comes from d, with the same sub-interfaces and sessions.
Same(d, d2) ==
    /\ Shaped(d2) /\ d2.subInterfaces = d.subInterfaces /\ Nbrs(d2) = Nbrs(d)
    /\ DefaultNetwork \in DOMAIN d.instances => DefaultNetwork \in DOMAIN d2.instances

LEMMA SameTwice ==
    ASSUME NEW d, NEW d2, NEW d3, Same(d, d2), Same(d2, d3)
    PROVE  Same(d, d3)
  BY DEF Same

LEMMA NewDeviceShaped == Shaped(NewDevice) /\ NewDevice.subInterfaces = <<>> /\ DOMAIN Nbrs(NewDevice) = {}
<1>1. DOMAIN NewDevice.instances = {} /\ NewDevice.subInterfaces = <<>>
  BY DEF NewDevice
<1>2. Nbrs(NewDevice) = <<>>
  BY <1>1 DEF Nbrs, GetOrCreateBGP, GetOrCreateNetworkInstance, GetOrCreate, NewNetworkInstance, NewBGP
<1>3. QED BY <1>1, <1>2 DEF Shaped

LEMMA InstanceShape ==
    ASSUME NEW d, Shaped(d)
    PROVE  LET ni == GetOrCreateNetworkInstance(d, DefaultNetwork)
           IN  DOMAIN ni = DOMAIN NewNetworkInstance /\ DOMAIN ni.bgp = DOMAIN NewBGP
  BY DEF Shaped, GetOrCreateNetworkInstance, GetOrCreate, NewNetworkInstance

LEMMA SetInstance ==
    ASSUME NEW d, Shaped(d), NEW ni,
           DOMAIN ni = DOMAIN NewNetworkInstance, DOMAIN ni.bgp = DOMAIN NewBGP
    PROVE  LET d2 == SetNetworkInstance(d, DefaultNetwork, ni)
           IN  /\ Shaped(d2) /\ d2.subInterfaces = d.subInterfaces
               /\ Nbrs(d2) = ni.bgp.neighbors
               /\ DefaultNetwork \in DOMAIN d2.instances
<1> DEFINE d2 == SetNetworkInstance(d, DefaultNetwork, ni)
           is == Put(d.instances, DefaultNetwork, ni)
<1>1. DOMAIN d2 = DOMAIN NewDevice /\ d2.subInterfaces = d.subInterfaces /\ d2.instances = is
  BY DEF SetNetworkInstance, Shaped, NewDevice
<1>2. \A name \in DOMAIN is : is[name] = ni \/ (name \in DOMAIN d.instances /\ is[name] = d.instances[name])
  BY DEF Put
<1>3. DefaultNetwork \in DOMAIN is /\ is[DefaultNetwork] = ni
  BY DEF Put
<1> HIDE DEF is
<1>4. Shaped(d2)
  BY <1>1, <1>2 DEF Shaped
<1>5. Nbrs(d2) = ni.bgp.neighbors
  BY <1>1, <1>3 DEF Nbrs, GetOrCreateBGP, GetOrCreateNetworkInstance, GetOrCreate
<1>6. QED BY <1>1, <1>3, <1>4, <1>5

\* An instance that keeps its BGP keeps the sessions.
LEMMA SetInstanceSame ==
    ASSUME NEW d, Shaped(d), NEW ni, DOMAIN ni = DOMAIN NewNetworkInstance,
           ni.bgp = GetOrCreateNetworkInstance(d, DefaultNetwork).bgp
    PROVE  Same(d, SetNetworkInstance(d, DefaultNetwork, ni))
<1>1. DOMAIN ni.bgp = DOMAIN NewBGP
  BY InstanceShape
<1>2. QED BY <1>1, SetInstance DEF Same, Nbrs, GetOrCreateBGP

LEMMA SetBGPFacts ==
    ASSUME NEW d, Shaped(d), NEW bgp, DOMAIN bgp = DOMAIN NewBGP
    PROVE  LET d2 == SetBGP(d, DefaultNetwork, bgp)
           IN  /\ Shaped(d2) /\ d2.subInterfaces = d.subInterfaces
               /\ Nbrs(d2) = bgp.neighbors
               /\ DefaultNetwork \in DOMAIN d2.instances
<1> DEFINE ni == [GetOrCreateNetworkInstance(d, DefaultNetwork) EXCEPT !.bgp = bgp]
<1>1. DOMAIN ni = DOMAIN NewNetworkInstance /\ ni.bgp = bgp
  BY InstanceShape DEF NewNetworkInstance
<1>2. SetBGP(d, DefaultNetwork, bgp) = SetNetworkInstance(d, DefaultNetwork, ni)
  BY DEF SetBGP
<1> HIDE DEF ni
<1>3. QED BY <1>1, <1>2, SetInstance

LEMMA BGPShape == ASSUME NEW d, Shaped(d) PROVE DOMAIN GetOrCreateBGP(d, DefaultNetwork) = DOMAIN NewBGP
  BY InstanceShape DEF GetOrCreateBGP

\* BGP that keeps its neighbors.
LEMMA SetBGPSame ==
    ASSUME NEW d, Shaped(d), NEW bgp, DOMAIN bgp = DOMAIN NewBGP, bgp.neighbors = Nbrs(d)
    PROVE  Same(d, SetBGP(d, DefaultNetwork, bgp))
  BY SetBGPFacts DEF Same

\* What is set on the device itself.
LEMMA DeviceSame ==
    ASSUME NEW d, Shaped(d)
    PROVE  /\ \A x : Same(d, AddProvider(d, x))
           /\ \A x : Same(d, AddInterface(d, x))
           /\ \A x : Same(d, AddTunnelInterface(d, x))
           /\ \A si, x : Same(d, AddBFDInterface(d, si, x))
           /\ \A x, y : Same(d, AddRoutingPolicy(d, x, y))
           /\ Same(d, AddSystemProtocolsBGPVPN(d))
<1>1. ASSUME NEW d2, DOMAIN d2 = DOMAIN d, d2.instances = d.instances, d2.subInterfaces = d.subInterfaces
      PROVE  Same(d, d2)
  BY <1>1 DEF Same, Shaped, Nbrs, GetOrCreateBGP, GetOrCreateNetworkInstance
<1>2. DOMAIN d = DOMAIN NewDevice
  BY DEF Shaped
<1>3. \A x : Same(d, AddProvider(d, x))
  BY <1>1, <1>2 DEF AddProvider, NewDevice
<1>4. \A x : Same(d, AddInterface(d, x))
  BY <1>1, <1>2 DEF AddInterface, NewDevice
<1>5. \A x : Same(d, AddTunnelInterface(d, x))
  BY <1>1, <1>2 DEF AddTunnelInterface, NewDevice
<1>6. \A si, x : Same(d, AddBFDInterface(d, si, x))
  BY <1>1, <1>2 DEF AddBFDInterface, NewDevice
<1>7. \A x, y : Same(d, AddRoutingPolicy(d, x, y))
  BY <1>1, <1>2 DEF AddRoutingPolicy, NewDevice
<1>8. Same(d, AddSystemProtocolsBGPVPN(d))
  BY <1>1, <1>2 DEF AddSystemProtocolsBGPVPN, NewDevice
<1>9. QED BY <1>3, <1>4, <1>5, <1>6, <1>7, <1>8

\* What is set on the network instance, its IGPs included.
LEMMA InstanceSame ==
    ASSUME NEW d, Shaped(d)
    PROVE  /\ \A x : Same(d, AddNetworkInstance(d, DefaultNetwork, x))
           /\ \A x : Same(d, AddNetworkInstanceSubInterface(d, DefaultNetwork, x))
           /\ \A x : Same(d, AddISISInstance(d, DefaultNetwork, x))
           /\ \A si, x : Same(d, AddISISInterface(d, DefaultNetwork, si, x))
           /\ \A x : Same(d, SetOSPF(d, DefaultNetwork, x))
<1> DEFINE ni == GetOrCreateNetworkInstance(d, DefaultNetwork)
<1>1. DOMAIN ni = DOMAIN NewNetworkInstance
  BY InstanceShape
<1>2. ASSUME NEW n2, DOMAIN n2 = DOMAIN ni, n2.bgp = ni.bgp
      PROVE  Same(d, SetNetworkInstance(d, DefaultNetwork, n2))
  BY <1>1, <1>2, SetInstanceSame
<1>3. \A x : Same(d, AddNetworkInstance(d, DefaultNetwork, x))
  <2> TAKE x
  <2> DEFINE n2 == [ni EXCEPT !.type = x]
  <2>1. DOMAIN n2 = DOMAIN ni /\ n2.bgp = ni.bgp
    BY <1>1 DEF NewNetworkInstance
  <2>2. AddNetworkInstance(d, DefaultNetwork, x) = SetNetworkInstance(d, DefaultNetwork, n2)
    BY DEF AddNetworkInstance
  <2> HIDE DEF n2
  <2>3. QED BY <1>2, <2>1, <2>2
<1>4. \A x : Same(d, AddNetworkInstanceSubInterface(d, DefaultNetwork, x))
  <2> TAKE x
  <2> DEFINE n2 == [ni EXCEPT !.interfaces = Adjoin(@, x)]
  <2>1. DOMAIN n2 = DOMAIN ni /\ n2.bgp = ni.bgp
    BY <1>1 DEF NewNetworkInstance
  <2>2. AddNetworkInstanceSubInterface(d, DefaultNetwork, x) = SetNetworkInstance(d, DefaultNetwork, n2)
    BY DEF AddNetworkInstanceSubInterface
  <2> HIDE DEF n2
  <2>3. QED BY <1>2, <2>1, <2>2
<1>5. \A x : Same(d, AddISISInstance(d, DefaultNetwork, x))
  <2> TAKE x
  <2>1. PICK y : AddISISInstance(d, DefaultNetwork, x) = SetNetworkInstance(d, DefaultNetwork, [ni EXCEPT !.isis = y])
    BY DEF AddISISInstance, SetISIS
  <2> DEFINE n2 == [ni EXCEPT !.isis = y]
  <2>2. DOMAIN n2 = DOMAIN ni /\ n2.bgp = ni.bgp
    BY <1>1 DEF NewNetworkInstance
  <2> HIDE DEF n2
  <2>3. QED BY <1>2, <2>1, <2>2 DEF n2
<1>6. \A si, x : Same(d, AddISISInterface(d, DefaultNetwork, si, x))
  <2> TAKE si, x
  <2>1. PICK y : AddISISInterface(d, DefaultNetwork, si, x) = SetNetworkInstance(d, DefaultNetwork, [ni EXCEPT !.isis = y])
    BY DEF AddISISInterface, SetISIS
  <2> DEFINE n2 == [ni EXCEPT !.isis = y]
  <2>2. DOMAIN n2 = DOMAIN ni /\ n2.bgp = ni.bgp
    BY <1>1 DEF NewNetworkInstance
  <2> HIDE DEF n2
  <2>3. QED BY <1>2, <2>1, <2>2 DEF n2
<1>7. \A x : Same(d, SetOSPF(d, DefaultNetwork, x))
  <2> TAKE x
  <2> DEFINE n2 == [ni EXCEPT !.ospf = <<x>>]
  <2>1. DOMAIN n2 = DOMAIN ni /\ n2.bgp = ni.bgp
    BY <1>1 DEF NewNetworkInstance
  <2>2. SetOSPF(d, DefaultNetwork, x) = SetNetworkInstance(d, DefaultNetwork, n2)
    BY DEF SetOSPF
  <2> HIDE DEF n2
  <2>3. QED BY <1>2, <2>1, <2>2
<1>8. QED BY <1>3, <1>4, <1>5, <1>6, <1>7

\* What is set on BGP besides its neighbors.
LEMMA BGPSame ==
    ASSUME NEW d, Shaped(d)
    PROVE  /\ \A x : Same(d, AddBGPAS(d, DefaultNetwork, x))
           /\ \A x : Same(d, AddBGPRouterID(d, DefaultNetwork, x))
           /\ \A x : Same(d, AddBGPAddressFamilies(d, DefaultNetwork, x))
           /\ \A g, x : Same(d, AddBGPPeerGroup(d, DefaultNetwork, g, x))
           /\ \A si, x : Same(d, AddBGPDynamicNeighbor(d, DefaultNetwork, si, x))
<1> DEFINE bgp == GetOrCreateBGP(d, DefaultNetwork)
<1>1. DOMAIN bgp = DOMAIN NewBGP /\ bgp.neighbors = Nbrs(d)
  BY BGPShape DEF Nbrs
<1>2. ASSUME NEW b2, DOMAIN b2 = DOMAIN NewBGP, b2.neighbors = bgp.neighbors
      PROVE  Same(d, SetBGP(d, DefaultNetwork, b2))
  BY <1>1, <1>2, SetBGPSame
<1> HIDE DEF bgp
<1>3. \A y : Same(d, SetBGP(d, DefaultNetwork, [bgp EXCEPT !.as = y]))
  <2> TAKE y
  <2> DEFINE b2 == [bgp EXCEPT !.as = y]
  <2>1. DOMAIN b2 = DOMAIN NewBGP /\ b2.neighbors = bgp.neighbors
    BY <1>1 DEF NewBGP
  <2> HIDE DEF b2
  <2>2. QED BY <1>2, <2>1 DEF b2
<1>4. \A y : Same(d, SetBGP(d, DefaultNetwork, [bgp EXCEPT !.routerID = y]))
  <2> TAKE y
  <2> DEFINE b2 == [bgp EXCEPT !.routerID = y]
  <2>1. DOMAIN b2 = DOMAIN NewBGP /\ b2.neighbors = bgp.neighbors
    BY <1>1 DEF NewBGP
  <2> HIDE DEF b2
  <2>2. QED BY <1>2, <2>1 DEF b2
<1>5. \A y : Same(d, SetBGP(d, DefaultNetwork, [bgp EXCEPT !.families = y]))
  <2> TAKE y
  <2> DEFINE b2 == [bgp EXCEPT !.families = y]
  <2>1. DOMAIN b2 = DOMAIN NewBGP /\ b2.neighbors = bgp.neighbors
    BY <1>1 DEF NewBGP
  <2> HIDE DEF b2
  <2>2. QED BY <1>2, <2>1 DEF b2
<1>6. \A y : Same(d, SetBGP(d, DefaultNetwork, [bgp EXCEPT !.peerGroups = y]))
  <2> TAKE y
  <2> DEFINE b2 == [bgp EXCEPT !.peerGroups = y]
  <2>1. DOMAIN b2 = DOMAIN NewBGP /\ b2.neighbors = bgp.neighbors
    BY <1>1 DEF NewBGP
  <2> HIDE DEF b2
  <2>2. QED BY <1>2, <2>1 DEF b2
<1>7. \A y : Same(d, SetBGP(d, DefaultNetwork, [bgp EXCEPT !.dynamicNeighbors = y]))
  <2> TAKE y
  <2> DEFINE b2 == [bgp EXCEPT !.dynamicNeighbors = y]
  <2>1. DOMAIN b2 = DOMAIN NewBGP /\ b2.neighbors = bgp.neighbors
    BY <1>1 DEF NewBGP
  <2> HIDE DEF b2
  <2>2. QED BY <1>2, <2>1 DEF b2
<1>8. QED
  BY <1>3, <1>4, <1>5, <1>6, <1>7
  DEF bgp, AddBGPAS, AddBGPRouterID, AddBGPAddressFamilies, AddBGPPeerGroup, AddBGPDynamicNeighbor

LEMMA OSPFSame ==
    ASSUME NEW d, Shaped(d)
    PROVE  /\ \A x : Same(d, AddOSPFInstance(d, DefaultNetwork, x))
           /\ \A x : Same(d, AddOSPFArea(d, DefaultNetwork, x))
           /\ \A x, si, y : Same(d, AddOSPFAreaInterface(d, DefaultNetwork, x, si, y))
  BY InstanceSame DEF AddOSPFInstance, AddOSPFArea, AddOSPFAreaInterface

-----------------------------------------------------------------------------
(* What the other operations add.                                          *)

LEMMA AddSubInterfaceFacts ==
    ASSUME NEW d, Shaped(d), NEW si, NEW x
    PROVE  LET d2 == AddSubInterface(d, si, x)
           IN  /\ Shaped(d2) /\ d2.instances = d.instances /\ Nbrs(d2) = Nbrs(d)
               /\ d2.subInterfaces = Put(d.subInterfaces, si, x)
<1>1. PICK y : AddSubInterface(d, si, x) = [d EXCEPT !.interfaces = y, !.subInterfaces = Put(@, si, x)]
  BY DEF AddSubInterface
<1> DEFINE d2 == AddSubInterface(d, si, x)
<1>2. DOMAIN d2 = DOMAIN d /\ d2.instances = d.instances /\ d2.subInterfaces = Put(d.subInterfaces, si, x)
  BY <1>1 DEF Shaped, NewDevice
<1> HIDE DEF d2
<1>3. QED BY <1>2 DEF d2, Shaped, Nbrs, GetOrCreateBGP, GetOrCreateNetworkInstance

LEMMA AddBGPNeighborFacts ==
    ASSUME NEW d, Shaped(d), NEW x, x.peer # <<>>
    PROVE  LET d2 == AddBGPNeighbor(d, DefaultNetwork, x)
           IN  /\ Shaped(d2) /\ d2.subInterfaces = d.subInterfaces
               /\ DefaultNetwork \in DOMAIN d2.instances
               /\ Nbrs(d2) = Put(Nbrs(d), x.peer, x)
<1> DEFINE bgp == GetOrCreateBGP(d, DefaultNetwork)
           b2 == [bgp EXCEPT !.neighbors = Put(@, x.peer, x)]
<1>1. DOMAIN bgp = DOMAIN NewBGP /\ bgp.neighbors = Nbrs(d)
  BY BGPShape DEF Nbrs
<1>2. AddBGPNeighbor(d, DefaultNetwork, x) = SetBGP(d, DefaultNetwork, b2)
  BY DEF AddBGPNeighbor
<1> HIDE DEF bgp
<1>3. DOMAIN b2 = DOMAIN NewBGP /\ b2.neighbors = Put(Nbrs(d), x.peer, x)
  BY <1>1 DEF NewBGP
<1> HIDE DEF b2
<1>4. QED BY <1>2, <1>3, SetBGPFacts

LEMMA WithSessionsFacts ==
    ASSUME NEW d, Shaped(d), NEW local, NEW peers, <<>> \notin peers
    PROVE  LET d2 == WithSessions(d, local, peers)
           IN  /\ Shaped(d2) /\ d2.subInterfaces = d.subInterfaces
               /\ DefaultNetwork \in DOMAIN d2.instances
               /\ \A a : a \in DOMAIN Nbrs(d2) <=> a \in peers \/ a \in DOMAIN Nbrs(d)
               /\ \A a \in DOMAIN Nbrs(d2) :
                     Nbrs(d2)[a] = IF a \in peers THEN IBGPNeighbor(local[a], a) ELSE Nbrs(d)[a]
<1> DEFINE bgp == GetOrCreateBGP(d, DefaultNetwork)
           sessions == [p \in {x \in peers : x # <<>>} |-> IBGPNeighbor(local[p], p)]
           all == [a \in DOMAIN sessions \cup DOMAIN bgp.neighbors |->
                      IF a \in DOMAIN sessions THEN sessions[a] ELSE bgp.neighbors[a]]
           b2 == [bgp EXCEPT !.neighbors = all]
<1>1. DOMAIN bgp = DOMAIN NewBGP /\ bgp.neighbors = Nbrs(d)
  BY BGPShape DEF Nbrs
<1>2. WithSessions(d, local, peers) = SetBGP(d, DefaultNetwork, b2)
  BY DEF WithSessions
<1>3. /\ \A a : a \in DOMAIN all <=> a \in peers \/ a \in DOMAIN Nbrs(d)
      /\ \A a \in DOMAIN all : all[a] = IF a \in peers THEN IBGPNeighbor(local[a], a) ELSE Nbrs(d)[a]
  <2> HIDE DEF bgp
  <2>1. QED BY <1>1
<1> HIDE DEF bgp, all
<1>4. DOMAIN b2 = DOMAIN NewBGP /\ b2.neighbors = all
  BY <1>1 DEF NewBGP
<1> HIDE DEF b2
<1>5. LET d2 == SetBGP(d, DefaultNetwork, b2)
      IN  /\ Shaped(d2) /\ d2.subInterfaces = d.subInterfaces
          /\ Nbrs(d2) = all /\ DefaultNetwork \in DOMAIN d2.instances
  BY <1>4, SetBGPFacts
<1>6. QED BY <1>2, <1>3, <1>5

-----------------------------------------------------------------------------
(* The base configuration.                                                 *)

LEMMA UnderlayInstanceSame ==
    ASSUME NEW d, Shaped(d)
    PROVE  /\ Same(d, UpdateUnderlayNetworkInstance(d))
           /\ DefaultNetwork \in DOMAIN UpdateUnderlayNetworkInstance(d).instances
<1> DEFINE d1 == AddNetworkInstance(d, DefaultNetwork, "default")
           d2 == AddNetworkInstanceSubInterface(d1, DefaultNetwork, <<"system0", 0>>)
<1>1. Same(d, d1)
  BY InstanceSame
<1>2. d2 = UpdateUnderlayNetworkInstance(d)
  BY DEF UpdateUnderlayNetworkInstance
<1>3. \A ni : DefaultNetwork \in DOMAIN SetNetworkInstance(d, DefaultNetwork, ni).instances
  BY DEF SetNetworkInstance, Put, Shaped, NewDevice
<1>4. DefaultNetwork \in DOMAIN d1.instances
  BY <1>3 DEF AddNetworkInstance
<1> HIDE DEF d1
<1>5. Shaped(d1)
  BY <1>1 DEF Same
<1>6. Same(d1, d2)
  BY <1>5, InstanceSame
<1> HIDE DEF d2
<1>7. Same(d, d2)
  BY <1>1, <1>6, SameTwice
<1>8. QED BY <1>2, <1>4, <1>6, <1>7 DEF Same

LEMMA OSPFNodeSame ==
    ASSUME NEW d, Shaped(d), NEW node
    PROVE  Same(d, UpdateUnderlayOSPFNode(d, node))
<1> DEFINE d1 == AddOSPFInstance(d, DefaultNetwork, node.routerID)
           d2 == AddOSPFArea(d1, DefaultNetwork, Design.ospfArea)
<1>1. Same(d, d1)
  BY OSPFSame
<1> HIDE DEF d1
<1>2. Same(d1, d2)
  BY <1>1, OSPFSame DEF Same
<1>3. \A x : Same(d2, AddOSPFAreaInterface(d2, DefaultNetwork, Design.ospfArea, <<"system0", 0>>, x))
  <2> HIDE DEF d2
  <2>1. QED BY <1>2, OSPFSame DEF Same
<1>4. PICK x : UpdateUnderlayOSPFNode(d, node)
               = AddOSPFAreaInterface(d2, DefaultNetwork, Design.ospfArea, <<"system0", 0>>, x)
  BY DEF d1, UpdateUnderlayOSPFNode
<1> HIDE DEF d2
<1>5. QED BY <1>1, <1>2, <1>3, <1>4, SameTwice

LEMMA ISISNodeSame ==
    ASSUME NEW d, Shaped(d)
    PROVE  Same(d, UpdateUnderlayISISNode(d))
<1>1. PICK x, y : UpdateUnderlayISISNode(d)
                  = AddISISInterface(AddISISInstance(d, DefaultNetwork, x), DefaultNetwork, <<"system0", 0>>, y)
  BY DEF UpdateUnderlayISISNode
<1> DEFINE d1 == AddISISInstance(d, DefaultNetwork, x)
<1>2. Same(d, d1)
  BY InstanceSame
<1> HIDE DEF d1
<1>3. Same(d1, AddISISInterface(d1, DefaultNetwork, <<"system0", 0>>, y))
  BY <1>2, InstanceSame DEF Same
<1>4. QED BY <1>1, <1>2, <1>3, SameTwice DEF d1

LEMMA BGPNodeSame ==
    ASSUME NEW d, Shaped(d), NEW node
    PROVE  Same(d, UpdateUnderlayBGPNode(d, node))
<1> DEFINE d0 == AddBGPAS(d, DefaultNetwork, node.as)
           d1 == AddBGPRouterID(d0, DefaultNetwork, node.routerID)
           d2 == IF IsEBGPEnabled(Design)
                 THEN AddRoutingPolicy(d1, "underlay", Design.loopbackPrefixes) ELSE d1
           dr == AddRoutingPolicy(d2, "overlay", {})
           d3 == IF IsIBGPEnabled(Design)
                 THEN AddBGPAddressFamilies(dr, DefaultNetwork, GetAllEnabledAddressFamilies(Design)) ELSE d2
           d4 == IF IsBGPEVPNEnabled(Design) THEN AddSystemProtocolsBGPVPN(d3) ELSE d3
<1>0. UpdateUnderlayBGPNode(d, node) = d4
  BY DEF UpdateUnderlayBGPNode
<1>s. ASSUME NEW x, Shaped(x) PROVE Same(x, x)
  BY <1>s DEF Same
<1>1. Same(d, d0)
  BY BGPSame
<1> HIDE DEF d0
<1>2. Same(d0, d1)
  BY <1>1, BGPSame DEF Same
<1>3. Same(d, d1)
  BY <1>1, <1>2, SameTwice
<1> HIDE DEF d1
<1>4. Same(d1, d2)
  BY <1>s, <1>3, DeviceSame DEF Same
<1>5. Same(d, d2)
  BY <1>3, <1>4, SameTwice
<1> HIDE DEF d2
<1>6. Same(d2, dr)
  BY <1>5, DeviceSame DEF Same
<1>7. Same(d, dr)
  BY <1>5, <1>6, SameTwice
<1> HIDE DEF dr
<1>8. Same(dr, AddBGPAddressFamilies(dr, DefaultNetwork, GetAllEnabledAddressFamilies(Design)))
  BY <1>7, BGPSame DEF Same
<1>9. Same(d, d3)
  BY <1>5, <1>7, <1>8, SameTwice
<1> HIDE DEF d3
<1>10. Same(d3, d4)
  BY <1>s, <1>9, DeviceSame DEF Same
<1>11. QED BY <1>0, <1>9, <1>10, SameTwice

LEMMA SystemAddresses ==
    ASSUME NEW n, NEW x, x.ipv4 = <<OptAddress(GatherNodeInfo(n).ipv4)>>,
           x.ipv6 = <<OptAddress(GatherNodeInfo(n).ipv6)>>
    PROVE  IPs(x) = {<<n, af>> : af \in LoopbackFamilies}
<1> DEFINE v4 == OptAddress(GatherNodeInfo(n).ipv4)
           v6 == OptAddress(GatherNodeInfo(n).ipv6)
<1>1. \A a : a \in IPs(x) <=> a \in v4 \/ a \in v6
  <2> HIDE DEF v4, v6
  <2>1. x.ipv4 = <<v4>> /\ x.ipv6 = <<v6>>
    BY DEF v4, v6
  <2>2. {x.ipv4[k] : k \in DOMAIN x.ipv4} = {v4} /\ {x.ipv6[k] : k \in DOMAIN x.ipv6} = {v6}
    BY <2>1
  <2>3. IPs(x) = UNION ({v4} \cup {v6})
    BY <2>2 DEF IPs
  <2>4. QED BY <2>3
<1>2. \A a : a \in v4 <=> a = <<n, "ipv4">> /\ IsLoopbackIPv4Enabled(Design)
  BY DEF OptAddress, GatherNodeInfo
<1>3. \A a : a \in v6 <=> a = <<n, "ipv6">> /\ IsLoopbackIPv6Enabled(Design)
  BY DEF OptAddress, GatherNodeInfo
<1> HIDE DEF v4, v6
<1>4. \A a : a \in IPs(x) <=> a \in {<<n, af>> : af \in LoopbackFamilies}
  BY <1>1, <1>2, <1>3 DEF LoopbackFamilies
<1>5. QED BY <1>4

LEMMA LinkAddresses ==
    ASSUME NEW e, NEW p
    PROVE  IPs(UnderlaySubInterface(e, p)) = {<<e.node, e.ep, af>> : af \in NumberedFamilies(Design)}
<1> DEFINE x == UnderlaySubInterface(e, p)
           v4 == IF IsUnderlayIPv4Numbered(Design) THEN {<<e.node, e.ep, "ipv4">>} ELSE {}
           v6 == IF IsUnderlayIPv6Numbered(Design) THEN {<<e.node, e.ep, "ipv6">>} ELSE {}
<1>1. /\ AddressOf(e, "ipv4") = IF IsUnderlayIPv4Numbered(Design) THEN <<e.node, e.ep, "ipv4">> ELSE <<>>
      /\ AddressOf(e, "ipv6") = IF IsUnderlayIPv6Numbered(Design) THEN <<e.node, e.ep, "ipv6">> ELSE <<>>
  BY DEF AddressOf, NumberedFamilies
<1>2. /\ (x.ipv4 = <<v4>>) \/ (x.ipv4 = <<>> /\ v4 = {})
      /\ (x.ipv6 = <<v6>>) \/ (x.ipv6 = <<>> /\ v6 = {})
  BY <1>1 DEF UnderlaySubInterface
<1>3. \A a : a \in v4 \/ a \in v6 <=> a \in {<<e.node, e.ep, af>> : af \in NumberedFamilies(Design)}
  BY DEF NumberedFamilies
<1> HIDE DEF x, v4, v6
<1>4. (UNION {x.ipv4[k] : k \in DOMAIN x.ipv4}) = v4
  <2>1. CASE x.ipv4 = <<v4>>
    <3>1. {x.ipv4[k] : k \in DOMAIN x.ipv4} = {v4}
      BY <2>1
    <3>2. QED BY <3>1
  <2>2. CASE x.ipv4 = <<>> /\ v4 = {}
    BY <2>2
  <2>3. QED BY <1>2, <2>1, <2>2
<1>5. (UNION {x.ipv6[k] : k \in DOMAIN x.ipv6}) = v6
  <2>1. CASE x.ipv6 = <<v6>>
    <3>1. {x.ipv6[k] : k \in DOMAIN x.ipv6} = {v6}
      BY <2>1
    <3>2. QED BY <3>1
  <2>2. CASE x.ipv6 = <<>> /\ v6 = {}
    BY <2>2
  <2>3. QED BY <1>2, <2>1, <2>2
<1>6. IPs(x) = v4 \cup v6
  BY <1>4, <1>5 DEF IPs
<1>7. IPs(x) = {<<e.node, e.ep, af>> : af \in NumberedFamilies(Design)}
  BY <1>3, <1>6
<1>8. QED BY <1>7 DEF x

LEMMA BaseFacts ==
    ASSUME NEW n, NEW d, Plain(n, d)
    PROVE  LET d2 == UpdateBaseDeviceConfig(d, n, GatherNodeInfo(n))
           IN  /\ Made(n, d2) /\ Nbrs(d2) = Nbrs(d)
               /\ \A si \in DOMAIN d.subInterfaces : si \in DOMAIN d2.subInterfaces
<1> DEFINE node == GatherNodeInfo(n)
           da == AddProvider(d, input.nodes[n].provider)
           db == AddInterface(da, "irb0")
           d1 == AddInterface(db, "system0")
           x == [peer |-> <<>>, vlan |-> <<>>, type |-> "",
                 ipv4 |-> <<OptAddress(node.ipv4)>>, ipv6 |-> <<OptAddress(node.ipv6)>>]
           d2 == AddSubInterface(d1, <<"system0", 0>>, x)
           d3 == IF IsVXLANEnabled(Design) THEN AddTunnelInterface(d2, "vxlan0") ELSE d2
           d4 == UpdateUnderlayNetworkInstance(d3)
           d5 == IF IsOSPFEnabled(Design) THEN UpdateUnderlayOSPFNode(d4, node) ELSE d4
           d6 == IF IsISISEnabled(Design) THEN UpdateUnderlayISISNode(d5) ELSE d5
           d7 == IF IsIBGPEnabled(Design) \/ IsEBGPEnabled(Design) THEN UpdateUnderlayBGPNode(d6, node) ELSE d6
<1>0. UpdateBaseDeviceConfig(d, n, GatherNodeInfo(n)) = d7
  BY DEF UpdateBaseDeviceConfig
<1>s. ASSUME NEW y, Shaped(y) PROVE Same(y, y)
  BY <1>s DEF Same
<1>1. Same(d, da)
  BY DeviceSame DEF Plain
<1> HIDE DEF da
<1>2. Same(da, db)
  BY <1>1, DeviceSame DEF Same
<1> HIDE DEF db
<1>3. Same(db, d1)
  BY <1>2, DeviceSame DEF Same
<1>4. Same(d, d1)
  BY <1>1, <1>2, <1>3, SameTwice
<1> HIDE DEF d1
<1>5. IPs(x) = {<<n, af>> : af \in LoopbackFamilies}
  BY SystemAddresses
<1> HIDE DEF x
<1>6. Shaped(d2) /\ Nbrs(d2) = Nbrs(d) /\ d2.subInterfaces = Put(d.subInterfaces, SystemSub, x)
  BY <1>4, AddSubInterfaceFacts DEF Same, SystemSub
<1> HIDE DEF d2
<1>7. Same(d2, d3)
  BY <1>s, <1>6, DeviceSame
<1> HIDE DEF d3
<1>8. Same(d3, d4) /\ DefaultNetwork \in DOMAIN d4.instances
  BY <1>7, UnderlayInstanceSame DEF Same
<1> HIDE DEF d4
<1>9. Same(d4, d5)
  BY <1>s, <1>8, OSPFNodeSame DEF Same
<1> HIDE DEF d5
<1>10. Same(d5, d6)
  BY <1>s, <1>9, ISISNodeSame DEF Same
<1> HIDE DEF d6
<1>11. Same(d6, d7)
  BY <1>s, <1>10, BGPNodeSame DEF Same
<1> HIDE DEF d7
<1>12. Same(d2, d7) /\ DefaultNetwork \in DOMAIN d7.instances
  BY <1>7, <1>8, <1>9, <1>10, <1>11, SameTwice DEF Same
<1>13. \A si : si \in DOMAIN d7.subInterfaces <=> si \in DOMAIN d.subInterfaces \/ si = SystemSub
  BY <1>6, <1>12, PutDomain DEF Same
<1>14. ASSUME NEW si \in DOMAIN d7.subInterfaces PROVE GoodSub(n, si, d7.subInterfaces[si])
  <2>1. d7.subInterfaces[si] = IF si = SystemSub THEN x ELSE d.subInterfaces[si]
    BY <1>6, <1>12, <1>13, PutAt DEF Same
  <2>2. QED BY <1>5, <1>13, <2>1 DEF GoodSub, Plain
<1>15. QED BY <1>0, <1>6, <1>12, <1>13, <1>14 DEF Made, Plain, Same

-----------------------------------------------------------------------------
(* The end of a link.                                                      *)

\* d2 comes from d with the sessions of end e over link l to its peer p.
Linked(d, d2, e, p, l, families) ==
    /\ Shaped(d2) /\ d2.subInterfaces = d.subInterfaces
    /\ DefaultNetwork \in DOMAIN d.instances => DefaultNetwork \in DOMAIN d2.instances
    /\ \A a : a \in DOMAIN Nbrs(d2) <=> a \in DOMAIN Nbrs(d) \/ \E af \in families : a = <<p.node, p.ep, af>>
    /\ \A a \in DOMAIN Nbrs(d) :
          Nbrs(d2)[a] = Nbrs(d)[a] \/ \E af \in families : a = <<p.node, p.ep, af>>
    /\ \A af \in families : Nbrs(d2)[<<p.node, p.ep, af>>] = EBGPNeighbor(e, p, l, af)

LinkFamilies == {af \in NumberedFamilies(Design) : IsEBGPEnabled(Design)}

LEMMA LinkedTwice ==
    ASSUME NEW d, NEW d2, NEW d3, NEW e, NEW p, NEW l, NEW A, NEW B, A \cap B = {},
           Linked(d, d2, e, p, l, A), Linked(d2, d3, e, p, l, B)
    PROVE  Linked(d, d3, e, p, l, A \cup B)
<1> USE DEF Linked
<1>1. \A a : a \in DOMAIN Nbrs(d3) <=> a \in DOMAIN Nbrs(d) \/ \E af \in A \cup B : a = <<p.node, p.ep, af>>
  OBVIOUS
<1>2. ASSUME NEW a \in DOMAIN Nbrs(d)
      PROVE  Nbrs(d3)[a] = Nbrs(d)[a] \/ \E af \in A \cup B : a = <<p.node, p.ep, af>>
  OBVIOUS
<1>3. ASSUME NEW af \in A \cup B PROVE Nbrs(d3)[<<p.node, p.ep, af>>] = EBGPNeighbor(e, p, l, af)
  <2>1. CASE af \in B
    BY <2>1
  <2>2. CASE af \in A /\ af \notin B
    <3>1. \A bf \in B : <<p.node, p.ep, af>> # <<p.node, p.ep, bf>>
      BY <2>2
    <3>2. <<p.node, p.ep, af>> \in DOMAIN Nbrs(d2)
      BY <2>2
    <3>3. QED BY <2>2, <3>1, <3>2
  <2>3. QED BY <2>1, <2>2
<1>4. QED BY <1>1, <1>2, <1>3

LEMMA SameLinked ==
    ASSUME NEW d, NEW d2, NEW d3, NEW e, NEW p, NEW l, NEW A
    PROVE  /\ Same(d, d2) => Linked(d, d2, e, p, l, {})
           /\ Same(d, d2) /\ Linked(d2, d3, e, p, l, A) => Linked(d, d3, e, p, l, A)
           /\ Linked(d, d2, e, p, l, A) /\ Same(d2, d3) => Linked(d, d3, e, p, l, A)
  BY DEF Same, Linked

LEMMA EBGPSessionLinked ==
    ASSUME NEW d, Shaped(d), NEW e, NEW p, NEW l, NEW af
    PROVE  Linked(d, UpdateUnderlayEBGPSession(d, e, p, l, af), e, p, l,
                  {x \in {af} : x \in NumberedFamilies(Design)})
<1> DEFINE d2 == UpdateUnderlayEBGPSession(d, e, p, l, af)
           x == EBGPNeighbor(e, p, l, af)
<1>1. CASE af \in NumberedFamilies(Design)
  <2>1. x.peer = <<p.node, p.ep, af>>
    BY <1>1 DEF EBGPNeighbor, AddressOf
  <2>2. x.peer # <<>>
    BY <2>1
  <2>3. d2 = AddBGPNeighbor(d, DefaultNetwork, x)
    BY <1>1 DEF UpdateUnderlayEBGPSession
  <2> HIDE DEF d2, x
  <2>4. /\ Shaped(d2) /\ d2.subInterfaces = d.subInterfaces
        /\ DefaultNetwork \in DOMAIN d2.instances /\ Nbrs(d2) = Put(Nbrs(d), x.peer, x)
    BY <2>2, <2>3, AddBGPNeighborFacts
  <2>5. \A a : a \in DOMAIN Nbrs(d2) <=> a \in DOMAIN Nbrs(d) \/ a = <<p.node, p.ep, af>>
    BY <2>1, <2>4, PutDomain
  <2>6. \A a \in DOMAIN Nbrs(d2) : Nbrs(d2)[a] = IF a = <<p.node, p.ep, af>> THEN x ELSE Nbrs(d)[a]
    BY <2>1, <2>4, <2>5, PutAt
  <2>7. {y \in {af} : y \in NumberedFamilies(Design)} = {af}
    BY <1>1
  <2>8. Linked(d, d2, e, p, l, {af})
    BY <2>4, <2>5, <2>6 DEF Linked, x
  <2>9. QED BY <2>7, <2>8 DEF d2
<1>2. CASE af \notin NumberedFamilies(Design)
  <2>1. d2 = AddBGPDynamicNeighbor(d, DefaultNetwork, <<e.ep, 0>>, ASOf(p))
    BY <1>2 DEF UpdateUnderlayEBGPSession
  <2>2. Same(d, d2)
    BY <2>1, BGPSame
  <2>3. {y \in {af} : y \in NumberedFamilies(Design)} = {}
    BY <1>2
  <2>4. QED BY <2>2, <2>3, SameLinked
<1>3. QED BY <1>1, <1>2

LEMMA EBGPInterfaceLinked ==
    ASSUME NEW d, Shaped(d), NEW e, NEW p, NEW l
    PROVE  Linked(d, UpdateUnderlayEBGPInterface(d, e, p, l), e, p, l, NumberedFamilies(Design))
<1> DEFINE d1 == IF IsUnderlayIPv4Enabled(Design) THEN UpdateUnderlayEBGPSession(d, e, p, l, "ipv4") ELSE d
           d2 == IF IsUnderlayIPv6Enabled(Design) THEN UpdateUnderlayEBGPSession(d1, e, p, l, "ipv6") ELSE d1
           A == {x \in {"ipv4"} : x \in NumberedFamilies(Design)}
           B == {x \in {"ipv6"} : x \in NumberedFamilies(Design)}
<1>1. PICK y : UpdateUnderlayEBGPInterface(d, e, p, l) = AddBGPPeerGroup(d2, DefaultNetwork, "underlay", y)
  BY DEF UpdateUnderlayEBGPInterface
<1>s. ASSUME NEW x, Shaped(x) PROVE Linked(x, x, e, p, l, {})
  BY <1>s DEF Linked
<1>2. Linked(d, d1, e, p, l, A)
  <2>1. CASE IsUnderlayIPv4Enabled(Design)
    BY <2>1, EBGPSessionLinked
  <2>2. CASE ~IsUnderlayIPv4Enabled(Design)
    <3>1. A = {} /\ d1 = d
      BY <2>2 DEF IsUnderlayIPv4Enabled, NumberedFamilies, IsUnderlayIPv4Numbered, IsUnderlayIPv6Numbered
    <3>2. QED BY <1>s, <3>1
  <2>3. QED BY <2>1, <2>2
<1> HIDE DEF d1
<1>3. Linked(d1, d2, e, p, l, B)
  <2>0. Shaped(d1)
    BY <1>2 DEF Linked
  <2>1. CASE IsUnderlayIPv6Enabled(Design)
    BY <2>0, <2>1, EBGPSessionLinked
  <2>2. CASE ~IsUnderlayIPv6Enabled(Design)
    <3>1. B = {} /\ d2 = d1
      BY <2>2 DEF IsUnderlayIPv6Enabled, NumberedFamilies, IsUnderlayIPv4Numbered, IsUnderlayIPv6Numbered
    <3>2. QED BY <1>s, <2>0, <3>1
  <2>3. QED BY <2>1, <2>2
<1> HIDE DEF d2
<1>4. A \cap B = {} /\ A \cup B = NumberedFamilies(Design)
  BY DEF NumberedFamilies
<1> HIDE DEF A, B
<1>5. Linked(d, d2, e, p, l, NumberedFamilies(Design))
  BY <1>2, <1>3, <1>4, LinkedTwice
<1>6. Same(d2, AddBGPPeerGroup(d2, DefaultNetwork, "underlay", y))
  BY <1>3, BGPSame DEF Linked
<1>7. QED BY <1>1, <1>5, <1>6, SameLinked

LEMMA EndFacts ==
    ASSUME NEW e, NEW p, NEW l, NEW d, Made(e.node, d), e.ep # "system0"
    PROVE  LET d2 == UpdateUnderlayInterface(d, e, p, l)
           IN  /\ Made(e.node, d2)
               /\ \A si : si \in DOMAIN d2.subInterfaces <=> si \in DOMAIN d.subInterfaces \/ si = <<e.ep, 0>>
               /\ \A a : a \in DOMAIN Nbrs(d2) <=>
                         a \in DOMAIN Nbrs(d) \/ \E af \in LinkFamilies : a = <<p.node, p.ep, af>>
               /\ \A a \in DOMAIN Nbrs(d) :
                     Nbrs(d2)[a] = Nbrs(d)[a] \/ \E af \in LinkFamilies : a = <<p.node, p.ep, af>>
               /\ \A af \in LinkFamilies : Nbrs(d2)[<<p.node, p.ep, af>>] = EBGPNeighbor(e, p, l, af)
<1> DEFINE si0 == <<e.ep, 0>>
           x == UnderlaySubInterface(e, p)
           d0 == AddInterface(d, e.ep)
           d1 == AddSubInterface(d0, si0, x)
           d2 == AddNetworkInstanceSubInterface(d1, DefaultNetwork, si0)
           d3 == UpdateUnderlayBFDInterface(d2, e, l)
           d4 == IF IsOSPFEnabled(Design) THEN UpdateUnderlayOSPFInterface(d3, e, l) ELSE d3
           d5 == IF IsISISEnabled(Design) THEN UpdateUnderlayISISInterface(d4, e, l) ELSE d4
           d6 == IF IsEBGPEnabled(Design) THEN UpdateUnderlayEBGPInterface(d5, e, p, l) ELSE d5
<1>0. UpdateUnderlayInterface(d, e, p, l) = d6
  BY DEF UpdateUnderlayInterface
<1>s. ASSUME NEW y, Shaped(y) PROVE Same(y, y)
  BY <1>s DEF Same
<1>1. Same(d, d0)
  BY DeviceSame DEF Made, Plain
<1> HIDE DEF d0
<1>2. IPs(x) = {<<e.node, e.ep, af>> : af \in NumberedFamilies(Design)}
  BY LinkAddresses
<1> HIDE DEF x
<1>3. /\ Shaped(d1) /\ Nbrs(d1) = Nbrs(d0) /\ d1.instances = d0.instances
      /\ d1.subInterfaces = Put(d0.subInterfaces, si0, x)
  <2> HIDE DEF si0
  <2>1. QED BY <1>1, AddSubInterfaceFacts DEF Same
<1> HIDE DEF d1
<1>4. Same(d1, d2)
  BY <1>3, InstanceSame
<1> HIDE DEF d2
<1>5. Same(d2, d3)
  <2>1. Shaped(d2)
    BY <1>4 DEF Same
  <2>2. Same(d2, AddBFDInterface(d2, si0, TRUE)) /\ Same(d2, d2)
    BY <1>s, <2>1, DeviceSame
  <2>3. QED BY <2>2 DEF UpdateUnderlayBFDInterface
<1> HIDE DEF d3
<1>6. Same(d3, d4)
  <2>1. PICK area, y : UpdateUnderlayOSPFInterface(d3, e, l) =
               AddOSPFAreaInterface(AddOSPFArea(d3, DefaultNetwork, area), DefaultNetwork, area, si0, y)
    BY DEF UpdateUnderlayOSPFInterface
  <2> DEFINE da == AddOSPFArea(d3, DefaultNetwork, area)
  <2>2. Same(d3, da)
    BY <1>5, OSPFSame DEF Same
  <2> HIDE DEF da
  <2>3. Same(da, AddOSPFAreaInterface(da, DefaultNetwork, area, si0, y))
    BY <2>2, OSPFSame DEF Same
  <2>4. Same(d3, UpdateUnderlayOSPFInterface(d3, e, l))
    BY <2>1, <2>2, <2>3, SameTwice DEF da
  <2>5. QED BY <1>s, <1>5, <2>4 DEF Same
<1> HIDE DEF d4
<1>7. Same(d4, d5)
  BY <1>s, <1>6, InstanceSame DEF Same, UpdateUnderlayISISInterface
<1> HIDE DEF d5
<1>8. Same(d1, d5)
  BY <1>4, <1>5, <1>6, <1>7, SameTwice
<1>9. Linked(d5, d6, e, p, l, LinkFamilies)
  <2>1. CASE IsEBGPEnabled(Design)
    <3>1. LinkFamilies = NumberedFamilies(Design)
      BY <2>1 DEF LinkFamilies
    <3>2. QED BY <1>8, <2>1, <3>1, EBGPInterfaceLinked DEF Same
  <2>2. CASE ~IsEBGPEnabled(Design)
    <3>1. LinkFamilies = {} /\ d6 = d5
      BY <2>2 DEF LinkFamilies
    <3>2. QED BY <1>s, <1>8, <3>1, SameLinked DEF Same
  <2>3. QED BY <2>1, <2>2
<1> HIDE DEF d6
<1>10. Linked(d1, d6, e, p, l, LinkFamilies)
  BY <1>8, <1>9, SameLinked
<1>11. d6.subInterfaces = Put(d.subInterfaces, si0, x) /\ Shaped(d6) /\ DefaultNetwork \in DOMAIN d6.instances
  BY <1>1, <1>3, <1>10 DEF Linked, Same, Made
<1>12. \A si : si \in DOMAIN d6.subInterfaces <=> si \in DOMAIN d.subInterfaces \/ si = si0
  BY <1>11, PutDomain
<1>13. ASSUME NEW si \in DOMAIN d6.subInterfaces PROVE GoodSub(e.node, si, d6.subInterfaces[si])
  <2>1. CASE si = si0
    <3>1. d6.subInterfaces[si] = x
      BY <1>11, <2>1, PutAt
    <3>2. si = <<si[1], 0>> /\ si[1] = e.ep
      BY <2>1
    <3>3. QED BY <1>2, <3>1, <3>2 DEF GoodSub
  <2>2. CASE si # si0
    <3>1. d6.subInterfaces[si] = d.subInterfaces[si] /\ si \in DOMAIN d.subInterfaces
      BY <1>11, <1>12, <2>2, PutAt
    <3>2. QED BY <3>1 DEF Made, Plain
  <2>3. QED BY <2>1, <2>2
<1>14. Made(e.node, d6)
  BY <1>11, <1>12, <1>13 DEF Made, Plain
<1>15. Nbrs(d1) = Nbrs(d)
  BY <1>1, <1>3 DEF Same
<1>16. QED BY <1>0, <1>10, <1>12, <1>14, <1>15 DEF Linked

-----------------------------------------------------------------------------
(* A link.  First its nodes get their base configuration.                  *)

LEMMA WithBaseConfigFacts ==
    ASSUME NEW ds, NEW gathered, NEW n, n \notin nodeSet, gathered[n] = GatherNodeInfo(n),
           n \in DOMAIN ds => Plain(n, ds[n])
    PROVE  LET d2 == WithBaseConfig(ds, gathered, n)
           IN  /\ Made(n, d2[n]) /\ Nbrs(d2[n]) = Nbrs(GetOrCreateDevice(ds, n))
               /\ \A m \in DOMAIN ds : m # n => d2[m] = ds[m]
<1> DEFINE d == GetOrCreateDevice(ds, n)
           dn == UpdateBaseDeviceConfig(d, n, GatherNodeInfo(n))
<1>1. WithBaseConfig(ds, gathered, n) = Put(ds, n, dn)
  BY DEF WithBaseConfig
<1>2. Plain(n, d)
  BY NewDeviceShaped DEF GetOrCreateDevice, GetOrCreate, Plain
<1> HIDE DEF d
<1>3. Made(n, dn) /\ Nbrs(dn) = Nbrs(d)
  BY <1>2, BaseFacts
<1> HIDE DEF dn
<1>4. Put(ds, n, dn)[n] = dn /\ \A m \in DOMAIN ds : m # n => Put(ds, n, dn)[m] = ds[m]
  BY PutAt
<1>5. QED BY <1>1, <1>3, <1>4 DEF d

LEMMA BasedFacts ==
    ASSUME NEW gathered, NEW l, nodeSet = DOMAIN devices,
           \A n \in NodesOf(l) : gathered[n] = GatherNodeInfo(n)
    PROVE  LET base == WithBaseConfig(WithBaseConfig(devices, gathered, l.ends[1].node),
                                      gathered, l.ends[2].node)
           IN  /\ \A n : n \in DOMAIN base <=> n \in DOMAIN devices \cup NodesOf(l)
               /\ \A n \in DOMAIN devices : base[n] = devices[n]
               /\ \A n \in NodesOf(l) \ DOMAIN devices : Made(n, base[n]) /\ DOMAIN Nbrs(base[n]) = {}
<1> DEFINE x == l.ends[1].node
           y == l.ends[2].node
           b1 == WithBaseConfig(devices, gathered, x)
           b2 == WithBaseConfig(b1, gathered, y)
<1>0. NodesOf(l) = {x, y}
  BY DEF NodesOf
<1> HIDE DEF x, y
<1>1. DOMAIN b1 = DOMAIN devices \cup ({x} \ nodeSet) /\ (x \in nodeSet => b1 = devices)
  <2>1. DOMAIN b1 = DOMAIN devices \cup ({x} \ nodeSet)
    BY WithBaseConfigNodes
  <2>2. QED BY <2>1 DEF WithBaseConfig
<1>2. x \notin nodeSet => /\ Made(x, b1[x]) /\ DOMAIN Nbrs(b1[x]) = {}
                          /\ \A m \in DOMAIN devices : b1[m] = devices[m]
  <2>1. x \notin nodeSet => GetOrCreateDevice(devices, x) = NewDevice
    BY DEF GetOrCreateDevice, GetOrCreate
  <2>2. QED BY <1>0, <2>1, WithBaseConfigFacts, NewDeviceShaped
<1> HIDE DEF b1
<1>3. DOMAIN b2 = DOMAIN b1 \cup ({y} \ nodeSet) /\ (y \in nodeSet => b2 = b1)
  <2>1. DOMAIN b2 = DOMAIN b1 \cup ({y} \ nodeSet)
    BY WithBaseConfigNodes
  <2>2. QED BY <2>1 DEF WithBaseConfig
<1>4. y \notin nodeSet => /\ Made(y, b2[y]) /\ DOMAIN Nbrs(b2[y]) = {}
                          /\ \A m \in DOMAIN b1 : m # y => b2[m] = b1[m]
  <2> SUFFICES ASSUME y \notin nodeSet
               PROVE  /\ Made(y, b2[y]) /\ DOMAIN Nbrs(b2[y]) = {}
                      /\ \A m \in DOMAIN b1 : m # y => b2[m] = b1[m]
    OBVIOUS
  <2>1. y \in DOMAIN b1 => y = x /\ x \notin nodeSet
    BY <1>1
  <2>2. y \in DOMAIN b1 => Plain(y, b1[y])
    BY <1>2, <2>1 DEF Made
  <2>3. DOMAIN Nbrs(GetOrCreateDevice(b1, y)) = {}
    BY <1>2, <2>1, NewDeviceShaped DEF GetOrCreateDevice, GetOrCreate
  <2>4. gathered[y] = GatherNodeInfo(y)
    BY <1>0
  <2>5. QED BY <2>2, <2>3, <2>4, WithBaseConfigFacts
<1> HIDE DEF b2
<1>5. \A n : n \in DOMAIN b2 <=> n \in DOMAIN devices \cup NodesOf(l)
  BY <1>0, <1>1, <1>3
<1>6. \A n \in DOMAIN devices : b2[n] = devices[n]
  BY <1>1, <1>2, <1>3, <1>4
<1>7. \A n \in NodesOf(l) \ DOMAIN devices : Made(n, b2[n]) /\ DOMAIN Nbrs(b2[n]) = {}
  BY <1>0, <1>1, <1>2, <1>3, <1>4
<1>8. QED BY <1>5, <1>6, <1>7 DEF b1, b2, x, y

(* Then one end is configured after the other.                             *)

\* d2 comes from ds by end i of the link.
Ended(ds, d2, l, i) ==
    LET e == l.ends[i]
        p == l.ends[3 - i]
    IN  /\ DOMAIN d2 = DOMAIN ds
        /\ \A n \in DOMAIN d2 : Made(n, d2[n])
        /\ \A n \in DOMAIN ds : \A si : si \in DOMAIN d2[n].subInterfaces <=>
              si \in DOMAIN ds[n].subInterfaces \/ (n = e.node /\ si = <<e.ep, 0>>)
        /\ \A n \in DOMAIN ds : \A a : a \in DOMAIN Nbrs(d2[n]) <=>
              a \in DOMAIN Nbrs(ds[n]) \/ \E af \in LinkFamilies : Over(l, i, af, n, a)
        /\ \A n \in DOMAIN ds : \A a \in DOMAIN Nbrs(ds[n]) :
              Nbrs(d2[n])[a] = Nbrs(ds[n])[a] \/ \E af \in LinkFamilies : Over(l, i, af, n, a)
        /\ \A af \in LinkFamilies :
              Nbrs(d2[e.node])[<<p.node, p.ep, af>>] = EBGPNeighbor(e, p, l, af)

\* d2 comes from ds by both: what the ends say of each other is new, and
\* everything else is as before.
BothEnded(ds, d2, l) ==
    /\ DOMAIN d2 = DOMAIN ds
    /\ \A n \in DOMAIN d2 : Made(n, d2[n])
    /\ \A n \in DOMAIN ds : \A si \in DOMAIN ds[n].subInterfaces : si \in DOMAIN d2[n].subInterfaces
    /\ \A n \in DOMAIN ds : \A a \in DOMAIN Nbrs(ds[n]) : a \in DOMAIN Nbrs(d2[n])
    /\ \A n \in DOMAIN ds : \A a \in DOMAIN Nbrs(d2[n]) :
          \/ \E i \in 1 .. 2, af \in LinkFamilies : Over(l, i, af, n, a)
          \/ a \in DOMAIN Nbrs(ds[n]) /\ Nbrs(d2[n])[a] = Nbrs(ds[n])[a]
    /\ \A i \in 1 .. 2 : <<l.ends[i].ep, 0>> \in DOMAIN d2[l.ends[i].node].subInterfaces
    /\ \A i \in 1 .. 2, n \in DOMAIN ds, af \in LinkFamilies : \A a : Over(l, i, af, n, a) =>
          /\ a \in DOMAIN Nbrs(d2[n])
          /\ Nbrs(d2[n])[a] = EBGPNeighbor(l.ends[i], l.ends[3 - i], l, af)

LEMMA WithEndFacts ==
    ASSUME NEW ds, NEW l, NEW i \in 1 .. 2, \A n \in DOMAIN ds : Made(n, ds[n]),
           l.ends[i].node \in DOMAIN ds, l.ends[i].ep # "system0"
    PROVE  Ended(ds, WithEnd(ds, l, i), l, i)
<1> DEFINE e == l.ends[i]
           p == l.ends[3 - i]
           dn == UpdateUnderlayInterface(ds[e.node], e, p, l)
           d2 == WithEnd(ds, l, i)
<1>1. d2 = Put(ds, e.node, dn)
  BY DEF WithEnd, GetOrCreateDevice, GetOrCreate
<1>2. /\ Made(e.node, dn)
      /\ \A si : si \in DOMAIN dn.subInterfaces <=> si \in DOMAIN ds[e.node].subInterfaces \/ si = <<e.ep, 0>>
      /\ \A a : a \in DOMAIN Nbrs(dn) <=>
                a \in DOMAIN Nbrs(ds[e.node]) \/ \E af \in LinkFamilies : a = <<p.node, p.ep, af>>
      /\ \A a \in DOMAIN Nbrs(ds[e.node]) :
            Nbrs(dn)[a] = Nbrs(ds[e.node])[a] \/ \E af \in LinkFamilies : a = <<p.node, p.ep, af>>
      /\ \A af \in LinkFamilies : Nbrs(dn)[<<p.node, p.ep, af>>] = EBGPNeighbor(e, p, l, af)
  <2>1. Made(e.node, ds[e.node]) /\ e.ep # "system0"
    OBVIOUS
  <2> HIDE DEF e, p
  <2>2. QED BY <2>1, EndFacts
<1> HIDE DEF dn
<1>3. DOMAIN d2 = DOMAIN ds
  <2>1. \A n : n \in DOMAIN Put(ds, e.node, dn) <=> n \in DOMAIN ds
    BY PutDomain
  <2>2. QED BY <1>1, <2>1
<1>4. d2[e.node] = dn /\ \A n \in DOMAIN ds : n # e.node => d2[n] = ds[n]
  BY <1>1, PutAt
<1> HIDE DEF d2
<1>5. \A n \in DOMAIN d2 : Made(n, d2[n])
  BY <1>2, <1>3, <1>4
<1>6. ASSUME NEW n \in DOMAIN ds
      PROVE  /\ \A si : si \in DOMAIN d2[n].subInterfaces <=>
                   si \in DOMAIN ds[n].subInterfaces \/ (n = e.node /\ si = <<e.ep, 0>>)
             /\ \A a : a \in DOMAIN Nbrs(d2[n]) <=>
                   a \in DOMAIN Nbrs(ds[n]) \/ \E af \in LinkFamilies : Over(l, i, af, n, a)
             /\ \A a \in DOMAIN Nbrs(ds[n]) :
                   Nbrs(d2[n])[a] = Nbrs(ds[n])[a] \/ \E af \in LinkFamilies : Over(l, i, af, n, a)
  <2>0. \A af, a : Over(l, i, af, n, a) <=> n = e.node /\ a = <<p.node, p.ep, af>>
    BY DEF Over
  <2>1. CASE n = e.node
    BY <1>2, <1>4, <2>0, <2>1
  <2>2. CASE n # e.node
    BY <1>4, <2>0, <2>2
  <2>3. QED BY <2>1, <2>2
<1>7. \A af \in LinkFamilies : Nbrs(d2[e.node])[<<p.node, p.ep, af>>] = EBGPNeighbor(e, p, l, af)
  BY <1>2, <1>4
<1>8. Ended(ds, d2, l, i)
  BY <1>3, <1>5, <1>6, <1>7 DEF Ended
<1>9. QED BY <1>8 DEF d2

LEMMA BothEndsFacts ==
    ASSUME NEW ds, NEW l, \A n \in DOMAIN ds : Made(n, ds[n]),
           \A i \in 1 .. 2 : l.ends[i].node \in DOMAIN ds /\ l.ends[i].ep # "system0"
    PROVE  BothEnded(ds, WithEnd(WithEnd(ds, l, 1), l, 2), l)
<1> DEFINE d1 == WithEnd(ds, l, 1)
           d2 == WithEnd(d1, l, 2)
<1>0. 3 - 1 = 2 /\ 3 - 2 = 1 /\ 1 \in 1 .. 2 /\ 2 \in 1 .. 2 /\ \A i \in 1 .. 2 : i = 1 \/ i = 2
  OBVIOUS
<1>a. Ended(ds, d1, l, 1)
  BY <1>0, WithEndFacts
<1> HIDE DEF d1
<1>b. Ended(d1, d2, l, 2)
  <2>1. /\ \A n \in DOMAIN d1 : Made(n, d1[n])
        /\ \A i \in 1 .. 2 : l.ends[i].node \in DOMAIN d1 /\ l.ends[i].ep # "system0"
    BY <1>a DEF Ended
  <2>2. QED BY <1>0, <2>1, WithEndFacts
<1> HIDE DEF d2
<1>1. /\ DOMAIN d1 = DOMAIN ds
      /\ \A n \in DOMAIN d1 : Made(n, d1[n])
      /\ \A n \in DOMAIN ds : \A si : si \in DOMAIN d1[n].subInterfaces <=>
            si \in DOMAIN ds[n].subInterfaces \/ (n = l.ends[1].node /\ si = <<l.ends[1].ep, 0>>)
      /\ \A n \in DOMAIN ds : \A a : a \in DOMAIN Nbrs(d1[n]) <=>
            a \in DOMAIN Nbrs(ds[n]) \/ \E af \in LinkFamilies : Over(l, 1, af, n, a)
      /\ \A n \in DOMAIN ds : \A a \in DOMAIN Nbrs(ds[n]) :
            Nbrs(d1[n])[a] = Nbrs(ds[n])[a] \/ \E af \in LinkFamilies : Over(l, 1, af, n, a)
      /\ \A af \in LinkFamilies :
            Nbrs(d1[l.ends[1].node])[<<l.ends[2].node, l.ends[2].ep, af>>]
                = EBGPNeighbor(l.ends[1], l.ends[2], l, af)
  BY <1>0, <1>a DEF Ended
<1>2. /\ DOMAIN d2 = DOMAIN d1
      /\ \A n \in DOMAIN d2 : Made(n, d2[n])
      /\ \A n \in DOMAIN d1 : \A si : si \in DOMAIN d2[n].subInterfaces <=>
            si \in DOMAIN d1[n].subInterfaces \/ (n = l.ends[2].node /\ si = <<l.ends[2].ep, 0>>)
      /\ \A n \in DOMAIN d1 : \A a : a \in DOMAIN Nbrs(d2[n]) <=>
            a \in DOMAIN Nbrs(d1[n]) \/ \E af \in LinkFamilies : Over(l, 2, af, n, a)
      /\ \A n \in DOMAIN d1 : \A a \in DOMAIN Nbrs(d1[n]) :
            Nbrs(d2[n])[a] = Nbrs(d1[n])[a] \/ \E af \in LinkFamilies : Over(l, 2, af, n, a)
      /\ \A af \in LinkFamilies :
            Nbrs(d2[l.ends[2].node])[<<l.ends[1].node, l.ends[1].ep, af>>]
                = EBGPNeighbor(l.ends[2], l.ends[1], l, af)
  BY <1>0, <1>b DEF Ended
<1>3. /\ \A af, n, a : Over(l, 1, af, n, a) <=>
            n = l.ends[1].node /\ a = <<l.ends[2].node, l.ends[2].ep, af>>
      /\ \A af, n, a : Over(l, 2, af, n, a) <=>
            n = l.ends[2].node /\ a = <<l.ends[1].node, l.ends[1].ep, af>>
  BY <1>0 DEF Over
<1>4. \A n \in DOMAIN ds : \A a : a \in DOMAIN Nbrs(d2[n]) <=>
         a \in DOMAIN Nbrs(ds[n]) \/ \E i \in 1 .. 2, af \in LinkFamilies : Over(l, i, af, n, a)
  BY <1>0, <1>1, <1>2
<1>5. ASSUME NEW n \in DOMAIN ds, NEW a \in DOMAIN Nbrs(d2[n])
      PROVE  \/ \E i \in 1 .. 2, af \in LinkFamilies : Over(l, i, af, n, a)
             \/ a \in DOMAIN Nbrs(ds[n]) /\ Nbrs(d2[n])[a] = Nbrs(ds[n])[a]
  BY <1>0, <1>1, <1>2
<1>6. ASSUME NEW i \in 1 .. 2, NEW n \in DOMAIN ds, NEW af \in LinkFamilies, NEW a, Over(l, i, af, n, a)
      PROVE  Nbrs(d2[n])[a] = EBGPNeighbor(l.ends[i], l.ends[3 - i], l, af)
  <2>1. CASE i = 2
    BY <1>0, <1>2, <1>3, <1>6, <2>1
  <2>2. CASE i = 1
    <3>1. n = l.ends[1].node /\ a = <<l.ends[2].node, l.ends[2].ep, af>>
      BY <1>3, <1>6, <2>2
    <3>2. a \in DOMAIN Nbrs(d1[n]) /\ Nbrs(d1[n])[a] = EBGPNeighbor(l.ends[1], l.ends[2], l, af)
      BY <1>1, <1>6, <2>2, <3>1
    <3>3. CASE \E bf \in LinkFamilies : Over(l, 2, bf, n, a)
      <4>1. PICK bf \in LinkFamilies : n = l.ends[2].node /\ a = <<l.ends[1].node, l.ends[1].ep, bf>>
        BY <1>3, <3>3
      <4>2. l.ends[1].node = l.ends[2].node /\ l.ends[1].ep = l.ends[2].ep /\ af = bf
        BY <3>1, <4>1
      <4>3. EBGPNeighbor(l.ends[1], l.ends[2], l, af) = EBGPNeighbor(l.ends[2], l.ends[1], l, af)
        BY <4>2 DEF EBGPNeighbor, AddressOf, ASOf
      <4>4. QED BY <1>0, <1>2, <2>2, <4>1, <4>2, <4>3
    <3>4. CASE ~\E bf \in LinkFamilies : Over(l, 2, bf, n, a)
      BY <1>0, <1>1, <1>2, <2>2, <3>2, <3>4
    <3>5. QED BY <3>3, <3>4
  <2>3. QED BY <1>0, <2>1, <2>2
<1>7. DOMAIN d2 = DOMAIN ds /\ \A n \in DOMAIN d2 : Made(n, d2[n])
  BY <1>1, <1>2
<1>8. /\ \A n \in DOMAIN ds : \A si \in DOMAIN ds[n].subInterfaces : si \in DOMAIN d2[n].subInterfaces
      /\ \A i \in 1 .. 2 : <<l.ends[i].ep, 0>> \in DOMAIN d2[l.ends[i].node].subInterfaces
  BY <1>0, <1>1, <1>2
<1>9. BothEnded(ds, d2, l)
  BY <1>1, <1>4, <1>5, <1>6, <1>7, <1>8 DEF BothEnded
<1>10. QED BY <1>9 DEF d1, d2

-----------------------------------------------------------------------------
(* The input never changes, nor does what is derived from it.              *)

LEMMA Frozen ==
    ASSUME input' = input
    PROVE  /\ \A n : Made(n, devices[n])' <=> Made(n, devices'[n])
           /\ \A l, i, af, n, a : SessionOver(devices, l, i, af, n, a)' <=> SessionOver(devices', l, i, af, n, a)
           /\ \A n, a : LinkSession(devices, n, a)' <=> LinkSession(devices', n, a)
           /\ LinkFamilies' = LinkFamilies /\ Design' = Design /\ (WellCabled' <=> WellCabled)
<1>1. Design' = Design
  BY DEF Design
<1>2. \A n : Made(n, devices[n])' <=> Made(n, devices'[n])
  BY <1>1 DEF Made, Plain, GoodSub, LoopbackFamilies
<1>3. \A l, i, af, n, a : SessionOver(devices, l, i, af, n, a)' <=> SessionOver(devices', l, i, af, n, a)
  BY <1>1 DEF SessionOver, EBGPNeighbor, AddressOf, ASOf, BGPBFD
<1>4. \A n, a : LinkSession(devices, n, a)' <=> LinkSession(devices', n, a)
  BY <1>1, <1>3 DEF LinkSession
<1>5. LinkFamilies' = LinkFamilies
  BY <1>1 DEF LinkFamilies
<1>6. WellCabled' <=> WellCabled
  BY <1>1 DEF WellCabled
<1>7. QED BY <1>1, <1>2, <1>3, <1>4, <1>5, <1>6

\* What a link does to the devices.
LEMMA LinkDevices ==
    ASSUME NEW ds, NEW d2, NEW l, BothEnded(ds, d2, l), WellCabled, l \in GetLinks(input),
           \A i \in 1 .. 2 : l.ends[i].node \in DOMAIN ds,
           \A n \in DOMAIN ds : \A a \in DOMAIN Nbrs(ds[n]) : LinkSession(ds, n, a),
           NEW n \in DOMAIN d2, NEW a \in DOMAIN Nbrs(d2[n])
    PROVE  LinkSession(d2, n, a)
<1> USE DEF BothEnded
<1>0. \A i \in 1 .. 2 : 3 - i \in 1 .. 2 /\ 3 - (3 - i) = i
  OBVIOUS
<1>1. CASE \E i \in 1 .. 2, af \in LinkFamilies : Over(l, i, af, n, a)
  <2>1. PICK i \in 1 .. 2, af \in LinkFamilies : Over(l, i, af, n, a)
    BY <1>1
  <2> DEFINE e == l.ends[i]
             p == l.ends[3 - i]
             b == <<e.node, e.ep, af>>
  <2>2. Over(l, 3 - i, af, p.node, b) /\ p.node \in DOMAIN ds /\ 3 - i \in 1 .. 2
    BY <1>0 DEF Over
  <2>3. Nbrs(d2[n])[a] = EBGPNeighbor(e, p, l, af) /\ <<e.ep, 0>> \in DOMAIN d2[n].subInterfaces
    BY <2>1 DEF Over
  <2>4. b \in DOMAIN Nbrs(d2[p.node]) /\ Nbrs(d2[p.node])[b] = EBGPNeighbor(p, e, l, af)
    BY <1>0, <2>2
  <2>5. SessionOver(d2, l, i, af, n, a)
    BY <2>1, <2>2, <2>3, <2>4 DEF SessionOver
  <2>6. QED BY <2>5 DEF LinkSession, LinkFamilies
<1>2. CASE ~\E i \in 1 .. 2, af \in LinkFamilies : Over(l, i, af, n, a)
  <2>1. a \in DOMAIN Nbrs(ds[n]) /\ Nbrs(d2[n])[a] = Nbrs(ds[n])[a]
    BY <1>2
  <2>2. PICK k \in GetLinks(input), j \in 1 .. 2, af \in NumberedFamilies(Design) : SessionOver(ds, k, j, af, n, a)
    BY <2>1 DEF LinkSession
  <2> DEFINE e == k.ends[j]
             p == k.ends[3 - j]
             b == <<e.node, e.ep, af>>
  <2>3. /\ n = e.node /\ a = <<p.node, p.ep, af>> /\ p.node \in DOMAIN ds
        /\ Nbrs(ds[n])[a] = EBGPNeighbor(e, p, k, af) /\ <<e.ep, 0>> \in DOMAIN ds[n].subInterfaces
        /\ b \in DOMAIN Nbrs(ds[p.node]) /\ Nbrs(ds[p.node])[b] = EBGPNeighbor(p, e, k, af)
    BY <2>2 DEF SessionOver, Over
  <2>4. ~\E i \in 1 .. 2, bf \in LinkFamilies : Over(l, i, bf, p.node, b)
    <3> SUFFICES ASSUME NEW i \in 1 .. 2, NEW bf \in LinkFamilies, Over(l, i, bf, p.node, b)
                 PROVE  FALSE
      OBVIOUS
    <3>1. /\ p.node = l.ends[i].node /\ bf = af
          /\ e.node = l.ends[3 - i].node /\ e.ep = l.ends[3 - i].ep
      BY DEF Over
    <3>2. l.ends[i].ep = p.ep
      BY <1>0, <3>1 DEF WellCabled
    <3>3. Over(l, 3 - i, af, n, a)
      BY <1>0, <2>3, <3>1, <3>2 DEF Over
    <3>4. QED BY <1>0, <1>2, <3>1, <3>3
  <2>5. b \in DOMAIN Nbrs(d2[p.node]) /\ Nbrs(d2[p.node])[b] = EBGPNeighbor(p, e, k, af)
    BY <2>3, <2>4
  <2>6. SessionOver(d2, k, j, af, n, a)
    BY <2>1, <2>2, <2>3, <2>5 DEF SessionOver
  <2>7. QED BY <2>6 DEF LinkSession
<1>3. QED BY <1>1, <1>2

LEMMA ProcessLinkSessions ==
    ASSUME BuildInv, WellCabled, SessionsInv, ProcessLink
    PROVE  SessionsInv'
<1>0. PICK l \in pending :
         /\ pc = "links"
         /\ LET gathered == [n \in NodesOf(l) \cup DOMAIN nodes |->
                               IF n \in DOMAIN nodes THEN nodes[n] ELSE GatherNodeInfo(n)]
                base == WithBaseConfig(WithBaseConfig(devices, gathered, l.ends[1].node),
                                       gathered, l.ends[2].node)
            IN  devices' = WithEnd(WithEnd(base, l, 1), l, 2)
         /\ UNCHANGED <<input, pc>>
  BY DEF ProcessLink
<1> SUFFICES ASSUME Building' PROVE /\ \A n \in DOMAIN devices' : Made(n, devices'[n])
                                    /\ \A n \in DOMAIN devices' : \A a \in DOMAIN Nbrs(devices'[n]) :
                                          LinkSession(devices', n, a)
  BY <1>0, Frozen DEF SessionsInv, Meshed
<1>1. /\ input.default /\ nodeSet = DOMAIN devices /\ l \in GetLinks(input)
      /\ \A n \in DOMAIN nodes : nodes[n] = GatherNodeInfo(n)
  BY <1>0 DEF BuildInv, BuilderTypeOK, GatherInv, Building
<1>2. /\ \A n \in DOMAIN devices : Made(n, devices[n])
      /\ \A n \in DOMAIN devices : \A a \in DOMAIN Nbrs(devices[n]) : LinkSession(devices, n, a)
  BY <1>0, <1>1 DEF SessionsInv, Building, Meshed
<1> DEFINE gathered == [n \in NodesOf(l) \cup DOMAIN nodes |->
                          IF n \in DOMAIN nodes THEN nodes[n] ELSE GatherNodeInfo(n)]
           base == WithBaseConfig(WithBaseConfig(devices, gathered, l.ends[1].node),
                                  gathered, l.ends[2].node)
<1>3. \A n \in NodesOf(l) : gathered[n] = GatherNodeInfo(n)
  BY <1>1
<1>4. devices' = WithEnd(WithEnd(base, l, 1), l, 2)
  BY <1>0
<1> HIDE DEF gathered
<1>5. /\ \A n : n \in DOMAIN base <=> n \in DOMAIN devices \cup NodesOf(l)
      /\ \A n \in DOMAIN devices : base[n] = devices[n]
      /\ \A n \in NodesOf(l) \ DOMAIN devices : Made(n, base[n]) /\ DOMAIN Nbrs(base[n]) = {}
  BY <1>1, <1>3, BasedFacts
<1> HIDE DEF base
<1>6. \A i \in 1 .. 2 : l.ends[i].node \in DOMAIN base /\ l.ends[i].ep # "system0"
  BY <1>1, <1>5 DEF NodesOf, WellCabled
<1>7. \A n \in DOMAIN base : Made(n, base[n])
  BY <1>2, <1>5
<1>8. BothEnded(base, devices', l)
  BY <1>4, <1>6, <1>7, BothEndsFacts
<1>9. \A n \in DOMAIN base : \A a \in DOMAIN Nbrs(base[n]) : LinkSession(base, n, a)
  <2> SUFFICES ASSUME NEW n \in DOMAIN base, NEW a \in DOMAIN Nbrs(base[n]) PROVE LinkSession(base, n, a)
    OBVIOUS
  <2>1. n \in DOMAIN devices /\ base[n] = devices[n]
    BY <1>5
  <2>2. PICK k \in GetLinks(input), j \in 1 .. 2, af \in NumberedFamilies(Design) :
           SessionOver(devices, k, j, af, n, a)
    BY <1>2, <2>1 DEF LinkSession
  <2>3. SessionOver(base, k, j, af, n, a)
    BY <1>5, <2>1, <2>2 DEF SessionOver
  <2>4. QED BY <2>3 DEF LinkSession
<1>10. \A n \in DOMAIN devices' : \A a \in DOMAIN Nbrs(devices'[n]) : LinkSession(devices', n, a)
  BY <1>1, <1>6, <1>8, <1>9, LinkDevices
<1>11. QED BY <1>8, <1>10 DEF BothEnded

-----------------------------------------------------------------------------
(* The mesh.                                                               *)

LEMMA PrefixFacts ==
    ASSUME NEW n, NEW rr, nodes[n] = GatherNodeInfo(n)
    PROVE  /\ Prefix(nodes[n], rr) # <<>> => FamilyOf(rr) \in LoopbackFamilies
           /\ FamilyOf(rr) \in LoopbackFamilies => Prefix(nodes[n], rr) = <<n, FamilyOf(rr)>>
  BY DEF Prefix, FamilyOf, LoopbackFamilies, GatherNodeInfo

LEMMA MeshFrozen ==
    ASSUME input' = input, nodes' = nodes
    PROVE  /\ Edges' = Edges /\ LoopbackFamilies' = LoopbackFamilies
           /\ \A n, a : MeshSession(devices, n, a)' <=>
                 \E rr \in Design.reflectors, x \in Edges :
                    \/ /\ n = x /\ a = rr
                       /\ Nbrs(devices'[n])[a] = IBGPNeighbor(<<n, FamilyOf(rr)>>, rr)
                    \/ /\ rr \notin toPeer' /\ n = rr[1] /\ rr[2] \in {"ipv4", "ipv6"} /\ a = <<x, rr[2]>>
                       /\ Nbrs(devices'[n])[a] = IBGPNeighbor(rr, a)
<1>1. Edges' = Edges
  BY DEF Edges
<1>2. LoopbackFamilies' = LoopbackFamilies
  BY DEF LoopbackFamilies, Design
<1>3. Design' = Design
  BY DEF Design
<1>4. QED BY <1>1, <1>2, <1>3 DEF MeshSession, IBGPNeighbor

LEMMA MeshSessionKept ==
    ASSUME input' = input, nodes' = nodes, toPeer' \subseteq toPeer, NEW n, NEW a,
           MeshSession(devices, n, a), Nbrs(devices'[n])[a] = Nbrs(devices[n])[a]
    PROVE  MeshSession(devices, n, a)'
<1>1. PICK rr \in Design.reflectors, x \in Edges :
         \/ /\ n = x /\ a = rr
            /\ Nbrs(devices[n])[a] = IBGPNeighbor(<<n, FamilyOf(rr)>>, rr)
         \/ /\ rr \notin toPeer /\ n = rr[1] /\ rr[2] \in {"ipv4", "ipv6"} /\ a = <<x, rr[2]>>
            /\ Nbrs(devices[n])[a] = IBGPNeighbor(rr, a)
  BY DEF MeshSession
<1>2. rr \notin toPeer => rr \notin toPeer'
  OBVIOUS
<1>3. QED BY <1>1, <1>2, MeshFrozen

LEMMA MeshDeviceFacts ==
    ASSUME NEW n, NEW d, Made(n, d), NEW x, NEW local, NEW peers, <<>> \notin peers
    PROVE  LET d2 == WithSessions(AddBGPPeerGroup(d, DefaultNetwork, "overlay", x), local, peers)
           IN  /\ Made(n, d2) /\ d2.subInterfaces = d.subInterfaces
               /\ \A a : a \in DOMAIN Nbrs(d2) <=> a \in peers \/ a \in DOMAIN Nbrs(d)
               /\ \A a \in DOMAIN Nbrs(d2) :
                     Nbrs(d2)[a] = IF a \in peers THEN IBGPNeighbor(local[a], a) ELSE Nbrs(d)[a]
<1> DEFINE d1 == AddBGPPeerGroup(d, DefaultNetwork, "overlay", x)
           d2 == WithSessions(d1, local, peers)
<1>0. Shaped(d)
  BY DEF Made, Plain
<1>1. Same(d, d1)
  BY <1>0, BGPSame
<1> HIDE DEF d1
<1>2. Shaped(d1)
  BY <1>1 DEF Same
<1>3. /\ Shaped(d2) /\ d2.subInterfaces = d1.subInterfaces
      /\ DefaultNetwork \in DOMAIN d2.instances
      /\ \A a : a \in DOMAIN Nbrs(d2) <=> a \in peers \/ a \in DOMAIN Nbrs(d1)
      /\ \A a \in DOMAIN Nbrs(d2) :
            Nbrs(d2)[a] = IF a \in peers THEN IBGPNeighbor(local[a], a) ELSE Nbrs(d1)[a]
  BY <1>2, WithSessionsFacts
<1> HIDE DEF d2
<1>4. Nbrs(d1) = Nbrs(d) /\ d1.subInterfaces = d.subInterfaces
  BY <1>1 DEF Same
<1>5. Made(n, d2)
  BY <1>3, <1>4 DEF Made, Plain
<1>6. QED BY <1>3, <1>4, <1>5 DEF d1, d2

\* The keys of the mesh are not those of links.
LEMMA LinkSessionKept ==
    ASSUME NEW ds, NEW d2, DOMAIN d2 = DOMAIN ds,
           \A n \in DOMAIN ds : d2[n].subInterfaces = ds[n].subInterfaces,
           \A n \in DOMAIN ds : \A a \in DOMAIN Nbrs(ds[n]) : a \in DOMAIN Nbrs(d2[n]),
           \A n \in DOMAIN ds : \A a \in DOMAIN Nbrs(ds[n]) :
              Nbrs(d2[n])[a] = Nbrs(ds[n])[a] \/ \E x, y : a = <<x, y>>,
           NEW n \in DOMAIN ds, NEW a \in DOMAIN Nbrs(ds[n]), LinkSession(ds, n, a)
    PROVE  LinkSession(d2, n, a)
<1>0. \A x, y, u, v, w : <<x, y>> # <<u, v, w>>
  OBVIOUS
<1>1. PICK l \in GetLinks(input), i \in 1 .. 2, af \in NumberedFamilies(Design) : SessionOver(ds, l, i, af, n, a)
  BY DEF LinkSession
<1>2. Nbrs(d2[n])[a] = Nbrs(ds[n])[a]
  BY <1>0, <1>1 DEF SessionOver, Over
<1> DEFINE e == l.ends[i]
           p == l.ends[3 - i]
           b == <<e.node, e.ep, af>>
<1>3. p.node \in DOMAIN ds /\ b \in DOMAIN Nbrs(ds[p.node])
  BY <1>1 DEF SessionOver
<1>4. b \in DOMAIN Nbrs(d2[p.node]) /\ Nbrs(d2[p.node])[b] = Nbrs(ds[p.node])[b]
  BY <1>0, <1>3
<1>5. SessionOver(d2, l, i, af, n, a)
  BY <1>1, <1>2, <1>3, <1>4 DEF SessionOver
<1>6. QED BY <1>5 DEF LinkSession

LEMMA PeerEdgesSessions ==
    ASSUME BuildInv, WellCabled, SessionsInv, PeerEdges
    PROVE  SessionsInv'
<1> DEFINE peered(n) == WithSessions(AddBGPPeerGroup(devices[n], DefaultNetwork, "overlay", OverlayGroup(<<>>)),
                                     [rr \in Design.reflectors |-> Prefix(nodes[n], rr)], Design.reflectors)
<1>0. /\ pc = "edges" /\ pc' = "reflectors" /\ toPeer' = Design.reflectors
      /\ \A n \in Edges, rr \in Design.reflectors : Prefix(nodes[n], rr) # <<>>
      /\ edgeIPs' = [rr \in Design.reflectors |-> {Prefix(nodes[n], rr) : n \in Edges}]
      /\ devices' = [n \in DOMAIN devices |->
                       IF n \in Edges /\ Design.reflectors # {} THEN peered(n) ELSE devices[n]]
      /\ UNCHANGED <<input, nodes>>
  BY DEF PeerEdges
<1> SUFFICES ASSUME Building' PROVE SessionsInv'
  BY DEF SessionsInv
<1>1. /\ Edges \subseteq DOMAIN devices /\ IsIBGPEnabled(Design)
      /\ \A n \in DOMAIN nodes : nodes[n] = GatherNodeInfo(n)
  BY <1>0 DEF BuildInv, BuilderTypeOK, GatherInv, Building, Edges
<1>2. /\ \A n \in DOMAIN devices : Made(n, devices[n])
      /\ \A n \in DOMAIN devices : \A a \in DOMAIN Nbrs(devices[n]) : LinkSession(devices, n, a)
  BY <1>0, <1>1 DEF SessionsInv, Building, Meshed
<1>3. <<>> \notin Design.reflectors /\ \A rr \in Design.reflectors : rr = <<rr[1], rr[2]>>
  BY DEF WellCabled
<1>4. \A n \in Edges, rr \in Design.reflectors :
         FamilyOf(rr) \in LoopbackFamilies /\ Prefix(nodes[n], rr) = <<n, FamilyOf(rr)>>
  BY <1>0, <1>1, PrefixFacts DEF Edges
<1>5. ASSUME NEW n \in DOMAIN devices
      PROVE  /\ Made(n, devices'[n]) /\ devices'[n].subInterfaces = devices[n].subInterfaces
             /\ \A a : a \in DOMAIN Nbrs(devices'[n]) <=>
                   a \in DOMAIN Nbrs(devices[n]) \/ (n \in Edges /\ a \in Design.reflectors)
             /\ \A a \in DOMAIN Nbrs(devices'[n]) :
                   Nbrs(devices'[n])[a] = IF n \in Edges /\ a \in Design.reflectors
                                          THEN IBGPNeighbor(<<n, FamilyOf(a)>>, a) ELSE Nbrs(devices[n])[a]
  <2>1. CASE n \in Edges /\ Design.reflectors # {}
    <3> DEFINE local == [rr \in Design.reflectors |-> Prefix(nodes[n], rr)]
               dn == peered(n)
    <3>1. devices'[n] = dn
      BY <1>0, <2>1
    <3>2. \A rr \in Design.reflectors : local[rr] = <<n, FamilyOf(rr)>>
      BY <1>4, <2>1
    <3> HIDE DEF local
    <3>3. /\ Made(n, dn) /\ dn.subInterfaces = devices[n].subInterfaces
          /\ \A a : a \in DOMAIN Nbrs(dn) <=> a \in Design.reflectors \/ a \in DOMAIN Nbrs(devices[n])
          /\ \A a \in DOMAIN Nbrs(dn) :
                Nbrs(dn)[a] = IF a \in Design.reflectors THEN IBGPNeighbor(local[a], a) ELSE Nbrs(devices[n])[a]
      BY <1>2, <1>3, MeshDeviceFacts DEF local
    <3> HIDE DEF dn
    <3>4. QED BY <2>1, <3>1, <3>2, <3>3
  <2>2. CASE ~(n \in Edges /\ Design.reflectors # {})
    BY <1>0, <1>2, <2>2
  <2>3. QED BY <2>1, <2>2
<1>6. DOMAIN devices' = DOMAIN devices
  BY <1>0
<1>7. ASSUME NEW n \in DOMAIN devices, NEW a \in DOMAIN Nbrs(devices'[n])
      PROVE  LinkSession(devices', n, a) \/ MeshSession(devices, n, a)'
  <2>1. CASE n \in Edges /\ a \in Design.reflectors
    <3>1. Nbrs(devices'[n])[a] = IBGPNeighbor(<<n, FamilyOf(a)>>, a)
      BY <1>5, <2>1
    <3>2. QED BY <1>0, <2>1, <3>1, MeshFrozen
  <2>2. CASE ~(n \in Edges /\ a \in Design.reflectors)
    <3>1. a \in DOMAIN Nbrs(devices[n])
      BY <1>5, <2>2
    <3>2. \A m \in DOMAIN devices : \A b \in DOMAIN Nbrs(devices[m]) :
             Nbrs(devices'[m])[b] = Nbrs(devices[m])[b] \/ \E x, y : b = <<x, y>>
      <4>1. ASSUME NEW m \in DOMAIN devices, NEW b \in DOMAIN Nbrs(devices[m])
            PROVE  Nbrs(devices'[m])[b] = Nbrs(devices[m])[b] \/ b \in Design.reflectors
        BY <1>5
      <4>2. \A b \in Design.reflectors : \E x, y : b = <<x, y>>
        BY <1>3
      <4>3. QED BY <4>1, <4>2
    <3>3. \A m \in DOMAIN devices :
             /\ devices'[m].subInterfaces = devices[m].subInterfaces
             /\ \A b \in DOMAIN Nbrs(devices[m]) : b \in DOMAIN Nbrs(devices'[m])
      BY <1>5
    <3>4. LinkSession(devices, n, a)
      BY <1>2, <3>1
    <3>5. LinkSession(devices', n, a)
      BY <1>6, <3>1, <3>2, <3>3, <3>4, LinkSessionKept
    <3>6. QED BY <3>5
  <2>3. QED BY <2>1, <2>2
<1>8. MeshInv'
  <2>1. Edges' = Edges /\ LoopbackFamilies' = LoopbackFamilies /\ Design' = Design
    BY <1>0, MeshFrozen DEF Design
  <2>2. \A x \in Edges, rr \in Design.reflectors :
           FamilyOf(rr) \in LoopbackFamilies /\ rr \in DOMAIN Nbrs(devices'[x])
    BY <1>1, <1>4, <1>5
  <2>3. edgeIPs' = [rr \in Design.reflectors |-> {<<x, FamilyOf(rr)>> : x \in Edges}]
    <3>1. \A rr \in Design.reflectors : {Prefix(nodes[n], rr) : n \in Edges} = {<<x, FamilyOf(rr)>> : x \in Edges}
      BY <1>4
    <3>2. QED BY <1>0, <3>1
  <2>4. QED BY <1>0, <2>1, <2>2, <2>3 DEF MeshInv
<1>9. Meshed' /\ \A n \in DOMAIN devices' : Made(n, devices[n])'
  BY <1>0, <1>1, <1>5, <1>6, Frozen DEF Meshed
<1>10. \A n \in DOMAIN devices' : \A a \in DOMAIN Nbrs(devices'[n]) :
          LinkSession(devices, n, a)' \/ MeshSession(devices, n, a)'
  BY <1>0, <1>6, <1>7, Frozen
<1>11. QED BY <1>8, <1>9, <1>10 DEF SessionsInv

LEMMA PeerReflectorSessions ==
    ASSUME BuildInv, WellCabled, SessionsInv, PeerReflector
    PROVE  SessionsInv'
<1> DEFINE peered(rr) ==
              WithSessions(AddBGPPeerGroup(GetOrCreateDevice(devices, rr[1]), DefaultNetwork,
                                           "overlay", OverlayGroup(rr)),
                           [p \in edgeIPs[rr] |-> Prefix(nodes[rr[1]], rr)], edgeIPs[rr])
<1>0. PICK rr \in toPeer :
         /\ pc = "reflectors" /\ toPeer' = toPeer \ {rr}
         /\ devices' = IF rr[1] \in DOMAIN nodes /\ rr[2] \in {"ipv4", "ipv6"}
                       THEN Put(devices, rr[1], peered(rr)) ELSE devices
         /\ UNCHANGED <<input, pc, nodes, edgeIPs>>
  BY DEF PeerReflector
<1> SUFFICES ASSUME Building' PROVE SessionsInv'
  BY DEF SessionsInv
<1>1. /\ DOMAIN nodes = DOMAIN devices /\ IsIBGPEnabled(Design) /\ rr \in Design.reflectors
      /\ \A n \in DOMAIN nodes : nodes[n] = GatherNodeInfo(n)
  BY <1>0 DEF BuildInv, BuilderTypeOK, GatherInv, Building
<1>2. /\ \A n \in DOMAIN devices : Made(n, devices[n])
      /\ \A n \in DOMAIN devices : \A a \in DOMAIN Nbrs(devices[n]) :
            LinkSession(devices, n, a) \/ MeshSession(devices, n, a)
      /\ MeshInv
  BY <1>0, <1>1 DEF SessionsInv, Building, Meshed
<1>3. rr = <<rr[1], rr[2]>>
  BY <1>1 DEF WellCabled
<1> DEFINE Peers == {<<x, FamilyOf(rr)>> : x \in Edges}
           Here(n) == n = rr[1] /\ rr[2] \in {"ipv4", "ipv6"}
<1>4. edgeIPs[rr] = Peers /\ \A x \in Edges : FamilyOf(rr) \in LoopbackFamilies
  BY <1>1, <1>2 DEF MeshInv
<1>5. <<>> \notin Peers /\ \A a \in Peers : \E x, y : a = <<x, y>>
  OBVIOUS
<1>6. ASSUME NEW n \in DOMAIN devices
      PROVE  /\ Made(n, devices'[n]) /\ devices'[n].subInterfaces = devices[n].subInterfaces
             /\ \A a : a \in DOMAIN Nbrs(devices'[n]) <=>
                   a \in DOMAIN Nbrs(devices[n]) \/ (Here(n) /\ a \in Peers)
             /\ \A a \in DOMAIN Nbrs(devices'[n]) :
                   Nbrs(devices'[n])[a] = IF Here(n) /\ a \in Peers THEN IBGPNeighbor(rr, a)
                                          ELSE Nbrs(devices[n])[a]
  <2>1. CASE Here(n)
    <3> DEFINE local == [p \in Peers |-> Prefix(nodes[rr[1]], rr)]
               dn == WithSessions(AddBGPPeerGroup(devices[n], DefaultNetwork, "overlay", OverlayGroup(rr)),
                                  local, Peers)
    <3>1. GetOrCreateDevice(devices, rr[1]) = devices[n]
      BY <2>1 DEF GetOrCreateDevice, GetOrCreate
    <3>2. devices' = Put(devices, n, dn)
      BY <1>0, <1>1, <1>4, <2>1, <3>1
    <3>3. \A a \in Peers : local[a] = rr
      <4> SUFFICES ASSUME NEW x \in Edges PROVE Prefix(nodes[rr[1]], rr) = rr
        OBVIOUS
      <4>1. Prefix(nodes[rr[1]], rr) = <<rr[1], FamilyOf(rr)>>
        BY <1>1, <1>4, <2>1, PrefixFacts
      <4>2. FamilyOf(rr) = rr[2]
        BY <2>1 DEF FamilyOf
      <4>3. QED BY <1>3, <4>1, <4>2
    <3> HIDE DEF local, Peers
    <3>4. /\ Made(n, dn) /\ dn.subInterfaces = devices[n].subInterfaces
          /\ \A a : a \in DOMAIN Nbrs(dn) <=> a \in Peers \/ a \in DOMAIN Nbrs(devices[n])
          /\ \A a \in DOMAIN Nbrs(dn) :
                Nbrs(dn)[a] = IF a \in Peers THEN IBGPNeighbor(local[a], a) ELSE Nbrs(devices[n])[a]
      BY <1>2, <1>5, MeshDeviceFacts
    <3> HIDE DEF dn
    <3>5. devices'[n] = dn
      BY <3>2, PutAt
    <3>6. QED BY <2>1, <3>3, <3>4, <3>5
  <2>2. CASE ~Here(n)
    <3>1. devices'[n] = devices[n]
      BY <1>0, <2>2, PutAt
    <3>2. QED BY <1>2, <2>2, <3>1
  <2>3. QED BY <2>1, <2>2
<1>7. DOMAIN devices' = DOMAIN devices
  <2>1. CASE rr[1] \in DOMAIN nodes /\ rr[2] \in {"ipv4", "ipv6"}
    <3>1. devices' = Put(devices, rr[1], peered(rr))
      BY <1>0, <2>1
    <3> HIDE DEF peered
    <3>2. \A x : x \in DOMAIN Put(devices, rr[1], peered(rr)) <=> x \in DOMAIN devices
      BY <1>1, <2>1, PutDomain
    <3>3. QED BY <3>1, <3>2
  <2>2. QED BY <1>0, <2>1
<1> HIDE DEF peered, Peers
<1>8. ASSUME NEW n \in DOMAIN devices, NEW a \in DOMAIN Nbrs(devices'[n])
      PROVE  LinkSession(devices', n, a) \/ MeshSession(devices, n, a)'
  <2>1. CASE Here(n) /\ a \in Peers
    <3>1. Nbrs(devices'[n])[a] = IBGPNeighbor(rr, a)
      BY <1>6, <2>1
    <3>2. PICK x \in Edges : a = <<x, rr[2]>>
      BY <2>1 DEF Peers, FamilyOf
    <3>3. rr \notin toPeer'
      BY <1>0
    <3>4. QED BY <1>0, <1>1, <2>1, <3>1, <3>2, <3>3, MeshFrozen
  <2>2. CASE ~(Here(n) /\ a \in Peers)
    <3>1. a \in DOMAIN Nbrs(devices[n]) /\ Nbrs(devices'[n])[a] = Nbrs(devices[n])[a]
      BY <1>6, <2>2
    <3>2. CASE MeshSession(devices, n, a)
      <4>1. toPeer' \subseteq toPeer
        BY <1>0
      <4>2. QED BY <1>0, <3>1, <3>2, <4>1, MeshSessionKept
    <3>3. CASE LinkSession(devices, n, a)
      <4>1. ASSUME NEW m \in DOMAIN devices, NEW b \in DOMAIN Nbrs(devices[m])
            PROVE  Nbrs(devices'[m])[b] = Nbrs(devices[m])[b] \/ \E x, y : b = <<x, y>>
        <5>1. Nbrs(devices'[m])[b] = Nbrs(devices[m])[b] \/ b \in Peers
          BY <1>6
        <5>2. QED BY <1>5, <5>1
      <4>2. \A m \in DOMAIN devices :
               /\ devices'[m].subInterfaces = devices[m].subInterfaces
               /\ \A b \in DOMAIN Nbrs(devices[m]) : b \in DOMAIN Nbrs(devices'[m])
        BY <1>6
      <4>3. QED BY <1>7, <3>1, <3>3, <4>1, <4>2, LinkSessionKept
    <3>4. QED BY <1>2, <3>1, <3>2, <3>3
  <2>3. QED BY <2>1, <2>2
<1>9. MeshInv'
  <2>1. Edges' = Edges /\ LoopbackFamilies' = LoopbackFamilies /\ Design' = Design
    BY <1>0, MeshFrozen DEF Design
  <2>2. Edges \subseteq DOMAIN devices
    BY <1>1 DEF Edges
  <2>3. \A x \in Edges, r \in Design.reflectors :
           FamilyOf(r) \in LoopbackFamilies /\ r \in DOMAIN Nbrs(devices'[x])
    BY <1>2, <1>6, <2>2 DEF MeshInv
  <2>4. ASSUME NEW r \in Design.reflectors \ toPeer', NEW x \in Edges,
               r[1] \in DOMAIN nodes, r[2] \in {"ipv4", "ipv6"}
        PROVE  <<x, r[2]>> \in DOMAIN Nbrs(devices'[r[1]])
    <3>1. CASE r = rr
      <4>1. <<x, r[2]>> \in Peers /\ Here(r[1])
        BY <2>4, <3>1 DEF Peers, FamilyOf
      <4>2. QED BY <1>1, <1>6, <2>4, <4>1
    <3>2. CASE r # rr
      <4>1. <<x, r[2]>> \in DOMAIN Nbrs(devices[r[1]])
        BY <1>0, <1>2, <2>4, <3>2 DEF MeshInv
      <4>2. QED BY <1>1, <1>6, <2>4, <4>1
    <3>3. QED BY <3>1, <3>2
  <2>5. edgeIPs' = [r \in Design.reflectors |-> {<<x, FamilyOf(r)>> : x \in Edges}] /\ pc' # "done"
    BY <1>0, <1>2 DEF MeshInv
  <2>6. QED BY <1>0, <2>1, <2>3, <2>4, <2>5 DEF MeshInv
<1>10. Meshed' /\ \A n \in DOMAIN devices' : Made(n, devices[n])'
  BY <1>0, <1>1, <1>6, <1>7, Frozen DEF Meshed
<1>11. \A n \in DOMAIN devices' : \A a \in DOMAIN Nbrs(devices'[n]) :
          LinkSession(devices, n, a)' \/ MeshSession(devices, n, a)'
  BY <1>0, <1>7, <1>8, Frozen
<1>12. QED BY <1>9, <1>10, <1>11 DEF SessionsInv

-----------------------------------------------------------------------------
(* The other steps.                                                        *)

\* A step that leaves the devices and what the mesh is made of.
LEMMA RestSessions ==
    ASSUME SessionsInv, UNCHANGED <<input, nodes, devices, edgeIPs, toPeer>>,
           Building' => Building /\ (Meshed' <=> Meshed) /\ (Meshed /\ pc' = "done" => pc = "done" \/ toPeer = {})
    PROVE  SessionsInv'
<1> SUFFICES ASSUME Building' PROVE SessionsInv'
  BY DEF SessionsInv
<1>1. /\ \A n \in DOMAIN devices : Made(n, devices[n])
      /\ \A n \in DOMAIN devices : \A a \in DOMAIN Nbrs(devices[n]) :
            LinkSession(devices, n, a) \/ (Meshed /\ MeshSession(devices, n, a))
      /\ Meshed => MeshInv
  BY DEF SessionsInv
<1>2. \A n \in DOMAIN devices' : Made(n, devices[n])'
  BY <1>1, Frozen
<1>3. \A n, a : MeshSession(devices, n, a) => MeshSession(devices, n, a)'
  BY MeshSessionKept
<1>4. \A n \in DOMAIN devices' : \A a \in DOMAIN Nbrs(devices'[n]) :
         LinkSession(devices, n, a)' \/ (Meshed' /\ MeshSession(devices, n, a)')
  BY <1>1, <1>3, Frozen
<1>5. Meshed' => MeshInv'
  <2>1. Edges' = Edges /\ LoopbackFamilies' = LoopbackFamilies /\ Design' = Design
    BY MeshFrozen DEF Design
  <2>2. QED BY <1>1, <2>1 DEF MeshInv
<1>6. QED BY <1>2, <1>4, <1>5 DEF SessionsInv

LEMMA SessionsStep ==
    BuildInv /\ (WellCabled => SessionsInv) /\ [Next]_vars => (WellCabled => SessionsInv)'
<1> SUFFICES ASSUME BuildInv, WellCabled => SessionsInv, [Next]_vars, WellCabled'
             PROVE  SessionsInv'
  OBVIOUS
<1>1. input' = input
  BY DEF Next, vars, Start, BuildAgain, BuildUnderlay, BuildOverlay, ProcessLink, LinkFails, LinkPanics,
     LinksDone, PeerEdges, EdgesFail, EdgesPanic, PeerReflector, ReflectorsDone, SkipDynamic,
     BridgeInterface, RouterInterface, OverlayStep, ServiceFails, ServicesDone, End
<1>2. WellCabled /\ SessionsInv
  BY <1>1, Frozen
<1>3. CASE Start \/ BuildAgain
  <2>1. pc' \in {"links", "services"} /\ devices' = <<>> /\ (pc' = "services" => ~input.default)
    BY <1>3 DEF Start, BuildAgain, NewBuild
  <2>2. ~Meshed' /\ DOMAIN devices' = {}
    BY <2>1 DEF Meshed
  <2>3. QED BY <1>1, <2>1, <2>2 DEF SessionsInv
<1>4. CASE LinkFails \/ LinkPanics \/ EdgesFail \/ EdgesPanic \/ ServiceFails
  BY <1>4 DEF LinkFails, LinkPanics, EdgesFail, EdgesPanic, ServiceFails, End, SessionsInv, Building
<1>5. CASE BuildOverlay
  <2>1. ~input.default
    BY <1>5 DEF BuildOverlay, Turn, SkipDynamic, BridgeInterface, RouterInterface, ServiceFails, ServicesDone,
       BuildInv, GatherInv
  <2>2. QED BY <1>1, <2>1 DEF SessionsInv, Building
<1>6. CASE LinksDone \/ ReflectorsDone \/ UNCHANGED vars
  <2>1. UNCHANGED <<input, nodes, devices, edgeIPs, toPeer>>
    BY <1>6 DEF LinksDone, ReflectorsDone, vars
  <2>2. Design' = Design
    BY <1>1, Frozen
  <2>3. Building' => Building /\ (Meshed' <=> Meshed) /\ (Meshed /\ pc' = "done" => pc = "done" \/ toPeer = {})
    BY <1>1, <1>6, <2>2 DEF LinksDone, ReflectorsDone, vars, Building, Meshed
  <2>4. QED BY <1>2, <2>1, <2>3, RestSessions
<1>7. QED
  BY <1>2, <1>3, <1>4, <1>5, <1>6, ProcessLinkSessions, PeerEdgesSessions, PeerReflectorSessions
  DEF Next, BuildUnderlay

-----------------------------------------------------------------------------
(* What the invariant says of a finished build.                            *)

\* The addresses of a device are those of its sub-interfaces.
LEMMA AddressFacts ==
    ASSUME NEW n, NEW d, Made(n, d)
    PROVE  /\ \A a : a \in Addresses(d) <=> \E si \in DOMAIN d.subInterfaces : a \in IPs(d.subInterfaces[si])
           /\ \A af \in LoopbackFamilies : <<n, af>> \in Addresses(d)
           /\ \A ep, af : af \in NumberedFamilies(Design) /\ <<ep, 0>> \in DOMAIN d.subInterfaces
                             /\ ep # "system0" => <<n, ep, af>> \in Addresses(d)
           /\ \A m, af : <<m, af>> \in Addresses(d) => m = n /\ af \in LoopbackFamilies
           /\ \A m, ep, af : <<m, ep, af>> \in Addresses(d) => m = n
<1>1. \A a : a \in Addresses(d) <=> \E si \in DOMAIN d.subInterfaces : a \in IPs(d.subInterfaces[si])
  BY DEF Addresses, IPs
<1>2. \A si \in DOMAIN d.subInterfaces : GoodSub(n, si, d.subInterfaces[si])
  BY DEF Made, Plain
<1>3. SystemSub \in DOMAIN d.subInterfaces
  BY DEF Made
<1>4. \A af \in LoopbackFamilies : <<n, af>> \in Addresses(d)
  <2>1. IPs(d.subInterfaces[SystemSub]) = {<<n, af>> : af \in LoopbackFamilies}
    <3>1. SystemSub[1] = "system0"
      BY DEF SystemSub
    <3>2. QED BY <1>2, <1>3, <3>1 DEF GoodSub
  <2>2. QED BY <1>1, <1>3, <2>1
<1>5. ASSUME NEW ep, NEW af \in NumberedFamilies(Design), <<ep, 0>> \in DOMAIN d.subInterfaces, ep # "system0"
      PROVE  <<n, ep, af>> \in Addresses(d)
  <2> DEFINE si == <<ep, 0>>
  <2>1. si # SystemSub /\ si[1] = ep
    BY <1>5 DEF SystemSub
  <2>2. IPs(d.subInterfaces[si]) = {<<n, ep, bf>> : bf \in NumberedFamilies(Design)}
    BY <1>2, <1>5, <2>1 DEF GoodSub
  <2>3. QED BY <1>1, <1>5, <2>2
<1>6. \A a \in Addresses(d) : (\E af \in LoopbackFamilies : a = <<n, af>>) \/ (\E ep, af : a = <<n, ep, af>>)
  BY <1>1, <1>2 DEF GoodSub
<1>7. /\ \A m, af, ep, bf : <<m, af>> # <<n, ep, bf>>
      /\ \A m, af, bf : <<m, af>> = <<n, bf>> => m = n /\ af = bf
      /\ \A m, ep, af, cp, bf : <<m, ep, af>> = <<n, cp, bf>> => m = n
  OBVIOUS
<1>8. QED BY <1>1, <1>4, <1>5, <1>6, <1>7

\* What the mirror of a session is.
LEMMA Extensionality ==
    ASSUME NEW r, NEW s, NEW D, DOMAIN r = D, DOMAIN s = D,
           r = [x \in D |-> r[x]], s = [x \in D |-> s[x]], \A x \in D : r[x] = s[x]
    PROVE  r = s
  OBVIOUS

LEMMA MirrorFields ==
    ASSUME NEW r PROVE Mirror(r) = [x \in DOMAIN r |-> Mirror(r)[x]] /\ DOMAIN Mirror(r) = DOMAIN r
  BY DEF Mirror

LEMMA MirrorOf ==
    ASSUME NEW a, NEW b, NEW g, NEW u, NEW v, NEW c
    PROVE  Mirror([local |-> a, peer |-> b, group |-> g, localAS |-> u, peerAS |-> v, bfd |-> c])
           = [local |-> b, peer |-> a, group |-> g, localAS |-> v, peerAS |-> u, bfd |-> c]
<1> DEFINE r == [local |-> a, peer |-> b, group |-> g, localAS |-> u, peerAS |-> v, bfd |-> c]
           s == [local |-> b, peer |-> a, group |-> g, localAS |-> v, peerAS |-> u, bfd |-> c]
           D == {"local", "peer", "group", "localAS", "peerAS", "bfd"}
<1>1. DOMAIN r = D /\ DOMAIN s = D /\ s = [x \in D |-> s[x]]
  OBVIOUS
<1>2. /\ Mirror(r).local = s.local /\ Mirror(r).peer = s.peer /\ Mirror(r).group = s.group
      /\ Mirror(r).localAS = s.localAS /\ Mirror(r).peerAS = s.peerAS /\ Mirror(r).bfd = s.bfd
  BY DEF Mirror
<1>3. \A x \in D : Mirror(r)[x] = s[x]
  <2> HIDE DEF r, s
  <2>1. QED BY <1>2
<1> HIDE DEF r, s
<1>4. Mirror(r) = s
  BY <1>1, <1>3, MirrorFields, Extensionality
<1>5. QED BY <1>4 DEF r, s

LEMMA Mirrors ==
    /\ \A e, p, l, af : Mirror(EBGPNeighbor(e, p, l, af)) = EBGPNeighbor(p, e, l, af)
    /\ \A a, b : Mirror(IBGPNeighbor(a, b)) = IBGPNeighbor(b, a)
<1>1. ASSUME NEW e, NEW p, NEW l, NEW af
      PROVE  Mirror(EBGPNeighbor(e, p, l, af)) = EBGPNeighbor(p, e, l, af)
  <2> DEFINE x == AddressOf(e, af)
             y == AddressOf(p, af)
             u == ASOf(e)
             v == ASOf(p)
             c == BGPBFD(l)
  <2> HIDE DEF x, y, u, v, c
  <2>1. Mirror([local |-> x, peer |-> y, group |-> "underlay", localAS |-> u, peerAS |-> v, bfd |-> c])
        = [local |-> y, peer |-> x, group |-> "underlay", localAS |-> v, peerAS |-> u, bfd |-> c]
    BY MirrorOf
  <2>2. /\ EBGPNeighbor(e, p, l, af) =
              [local |-> x, peer |-> y, group |-> "underlay", localAS |-> u, peerAS |-> v, bfd |-> c]
        /\ EBGPNeighbor(p, e, l, af) =
              [local |-> y, peer |-> x, group |-> "underlay", localAS |-> v, peerAS |-> u, bfd |-> c]
    BY DEF EBGPNeighbor, x, y, u, v, c
  <2>3. QED BY <2>1, <2>2
<1>2. ASSUME NEW a, NEW b PROVE Mirror(IBGPNeighbor(a, b)) = IBGPNeighbor(b, a)
  <2> DEFINE u == GetIBGPAS(Design)
             c == FALSE
  <2> HIDE DEF u, c
  <2>1. Mirror([local |-> a, peer |-> b, group |-> "overlay", localAS |-> u, peerAS |-> u, bfd |-> c])
        = [local |-> b, peer |-> a, group |-> "overlay", localAS |-> u, peerAS |-> u, bfd |-> c]
    BY MirrorOf
  <2>2. QED BY <2>1 DEF IBGPNeighbor, u, c
<1>3. QED BY <1>1, <1>2

\* What a device says in a session of the mesh with a loopback address.
LEMMA MeshValue ==
    ASSUME WellCabled, NEW n, NEW u, NEW f \in {"ipv4", "ipv6"},
           LinkSession(devices, n, <<u, f>>) \/ MeshSession(devices, n, <<u, f>>)
    PROVE  Nbrs(devices[n])[<<u, f>>] = IBGPNeighbor(<<n, f>>, <<u, f>>)
<1>1. \A x, y, z : <<u, f>> # <<x, y, z>>
  OBVIOUS
<1>2. MeshSession(devices, n, <<u, f>>)
  BY <1>1 DEF LinkSession, SessionOver, Over
<1>3. PICK rr \in Design.reflectors, x \in Edges :
         \/ /\ n = x /\ <<u, f>> = rr
            /\ Nbrs(devices[n])[<<u, f>>] = IBGPNeighbor(<<n, FamilyOf(rr)>>, rr)
         \/ /\ n = rr[1] /\ <<u, f>> = <<x, rr[2]>>
            /\ Nbrs(devices[n])[<<u, f>>] = IBGPNeighbor(rr, <<u, f>>)
  BY <1>2 DEF MeshSession
<1>4. rr = <<rr[1], rr[2]>>
  BY DEF WellCabled
<1>5. CASE <<u, f>> = rr /\ Nbrs(devices[n])[<<u, f>>] = IBGPNeighbor(<<n, FamilyOf(rr)>>, rr)
  <2>1. FamilyOf(rr) = f
    BY <1>5 DEF FamilyOf
  <2>2. QED BY <1>5, <2>1
<1>6. CASE n = rr[1] /\ <<u, f>> = <<x, rr[2]>> /\ Nbrs(devices[n])[<<u, f>>] = IBGPNeighbor(rr, <<u, f>>)
  <2>1. rr = <<n, f>>
    BY <1>4, <1>6
  <2>2. QED BY <1>6, <2>1
<1>7. QED BY <1>3, <1>5, <1>6

LEMMA SessionsGood ==
    ASSUME BuildInv, WellCabled, SessionsInv
    PROVE  SessionsAgree
<1> SUFFICES ASSUME pc = "done", input.default,
                    NEW n \in DOMAIN devices, NEW a \in DOMAIN Neighbors(n)
             PROVE  LET nb == Neighbors(n)[a]
                    IN  /\ nb.local \in Addresses(devices[n])
                        /\ \A m \in DOMAIN devices : a \in Addresses(devices[m]) =>
                               /\ nb.local \in DOMAIN Neighbors(m)
                               /\ Neighbors(m)[nb.local] = Mirror(nb)
  BY DEF SessionsAgree
<1>1. /\ \A m \in DOMAIN devices : Made(m, devices[m])
      /\ \A m \in DOMAIN devices : \A b \in DOMAIN Nbrs(devices[m]) :
            LinkSession(devices, m, b) \/ (Meshed /\ MeshSession(devices, m, b))
      /\ Meshed => MeshInv
  BY DEF SessionsInv, Building
<1>2. \A m \in DOMAIN devices : Neighbors(m) = Nbrs(devices[m])
  BY <1>1 DEF Neighbors, Nbrs, Made, GetOrCreateBGP, GetOrCreateNetworkInstance, GetOrCreate
<1> DEFINE nb == Neighbors(n)[a]
<1>3. CASE LinkSession(devices, n, a)
  <2>1. PICK l \in GetLinks(input), i \in 1 .. 2, af \in NumberedFamilies(Design) :
           SessionOver(devices, l, i, af, n, a)
    BY <1>3 DEF LinkSession
  <2> DEFINE e == l.ends[i]
             p == l.ends[3 - i]
             b == <<e.node, e.ep, af>>
  <2>2. /\ n = e.node /\ a = <<p.node, p.ep, af>> /\ p.node \in DOMAIN devices
        /\ nb = EBGPNeighbor(e, p, l, af) /\ <<e.ep, 0>> \in DOMAIN devices[n].subInterfaces
        /\ b \in DOMAIN Nbrs(devices[p.node]) /\ Nbrs(devices[p.node])[b] = EBGPNeighbor(p, e, l, af)
    BY <1>2, <2>1 DEF SessionOver, Over
  <2>3. nb.local = b
    BY <2>2 DEF EBGPNeighbor, AddressOf
  <2>4. e.ep # "system0"
    BY DEF WellCabled
  <2>5. b \in Addresses(devices[n])
    BY <1>1, <2>2, <2>4, AddressFacts
  <2>6. ASSUME NEW m \in DOMAIN devices, a \in Addresses(devices[m]) PROVE m = p.node
    <3>1. Made(m, devices[m])
      BY <1>1
    <3>2. QED BY <2>2, <2>6, <3>1, AddressFacts
  <2>7. Mirror(nb) = EBGPNeighbor(p, e, l, af)
    BY <2>2, Mirrors
  <2> HIDE DEF e, p, b, nb
  <2>8. QED BY <1>2, <2>2, <2>3, <2>5, <2>6, <2>7 DEF nb
<1>4. CASE Meshed /\ MeshSession(devices, n, a)
  <2>1. MeshInv /\ toPeer = {} /\ DOMAIN nodes = DOMAIN devices
    BY <1>1, <1>4 DEF MeshInv, BuildInv, BuilderTypeOK
  <2>2. PICK rr \in Design.reflectors, x \in Edges :
           \/ /\ n = x /\ a = rr
              /\ Nbrs(devices[n])[a] = IBGPNeighbor(<<n, FamilyOf(rr)>>, rr)
           \/ /\ n = rr[1] /\ rr[2] \in {"ipv4", "ipv6"} /\ a = <<x, rr[2]>>
              /\ Nbrs(devices[n])[a] = IBGPNeighbor(rr, a)
    BY <1>4 DEF MeshSession
  <2>3. rr = <<rr[1], rr[2]>> /\ x \in DOMAIN devices
    BY <2>1 DEF WellCabled, Edges
  <2>4. FamilyOf(rr) \in LoopbackFamilies /\ rr \in DOMAIN Nbrs(devices[x])
    BY <2>1 DEF MeshInv
  <2> DEFINE f == rr[2]
             b == <<n, f>>
  <2>5. CASE f \in {"ipv4", "ipv6"}
    <3>0. FamilyOf(rr) = f
      BY <2>5 DEF FamilyOf
    <3>1. PICK u \in DOMAIN devices \cup {rr[1]} : a = <<u, f>> /\ (u \in DOMAIN devices => b \in DOMAIN Nbrs(devices[u]))
      <4>1. CASE n = x /\ a = rr
        BY <2>1, <2>2, <2>3, <2>5, <4>1 DEF MeshInv
      <4>2. CASE n = rr[1] /\ a = <<x, rr[2]>>
        BY <2>3, <2>4, <4>2
      <4>3. QED BY <2>2, <4>1, <4>2
    <3>2. nb = IBGPNeighbor(b, a)
      <4> HIDE DEF f
      <4>1. MeshSession(devices, n, <<u, f>>)
        BY <1>4, <3>1
      <4>2. Nbrs(devices[n])[<<u, f>>] = IBGPNeighbor(<<n, f>>, <<u, f>>)
        BY <2>5, <4>1, MeshValue
      <4>3. QED BY <1>2, <3>1, <4>2
    <3>3. b \in Addresses(devices[n])
      BY <1>1, <2>4, <3>0, AddressFacts
    <3>4. ASSUME NEW m \in DOMAIN devices, a \in Addresses(devices[m])
          PROVE  b \in DOMAIN Neighbors(m) /\ Neighbors(m)[b] = Mirror(nb)
      <4>1. m = u
        <5>1. Made(m, devices[m])
          BY <1>1
        <5>2. QED BY <3>1, <3>4, <5>1, AddressFacts
      <4>2. b \in DOMAIN Nbrs(devices[m])
        BY <3>1, <4>1
      <4>3. Nbrs(devices[m])[b] = IBGPNeighbor(a, b)
        BY <1>1, <2>5, <3>1, <4>1, <4>2, MeshValue
      <4>4. Mirror(nb) = IBGPNeighbor(a, b)
        BY <3>2, Mirrors
      <4>5. QED BY <1>2, <4>2, <4>3, <4>4
    <3>5. nb.local = b
      BY <3>2 DEF IBGPNeighbor
    <3> HIDE DEF b, nb
    <3>6. QED BY <3>3, <3>4, <3>5 DEF nb
  <2>6. CASE f \notin {"ipv4", "ipv6"}
    <3>1. /\ n = x /\ a = <<rr[1], f>>
          /\ nb = IBGPNeighbor(<<n, FamilyOf(rr)>>, rr)
      BY <1>2, <2>2, <2>3, <2>6
    <3>2. nb.local = <<n, FamilyOf(rr)>>
      BY <3>1 DEF IBGPNeighbor
    <3>3. nb.local \in Addresses(devices[n])
      BY <1>1, <2>4, <3>2, AddressFacts
    <3>4. f \notin LoopbackFamilies
      BY <2>6 DEF LoopbackFamilies
    <3>5. \A m \in DOMAIN devices : a \notin Addresses(devices[m])
      <4> TAKE m \in DOMAIN devices
      <4>1. Made(m, devices[m])
        BY <1>1
      <4> HIDE DEF f
      <4>2. QED BY <3>1, <3>4, <4>1, AddressFacts
    <3>6. QED BY <3>3, <3>5
  <2>7. QED BY <2>5, <2>6
<1>5. QED BY <1>1, <1>2, <1>3, <1>4

-----------------------------------------------------------------------------
LEMMA SessionsHold == Spec => [](WellCabled => SessionsInv)
<1>1. Init => (WellCabled => SessionsInv)
  BY DEF Init, SessionsInv, Building
<1>2. QED BY <1>1, SessionsStep, BuildCorrect, PTL DEF Spec

\* In every finished build of a well cabled default network the two ends of
\* every BGP session agree, whatever the order in which the links, the edges
\* and the reflectors were walked.
THEOREM SessionsOfCablesAgree == Spec => []SessionsAgree
<1>1. BuildInv /\ (WellCabled => SessionsInv) => SessionsAgree
  BY SessionsGood DEF SessionsAgree
<1>2. QED BY <1>1, BuildCorrect, SessionsHold, PTL

=============================================================================

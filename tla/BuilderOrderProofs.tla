------------------------- MODULE BuilderOrderProofs -------------------------
(***************************************************************************)
(* Building again gives the same configurations but for the order of one   *)
(* list, for every input, in whatever order the links, nodes and           *)
(* reflectors are walked.                                                  *)
(*                                                                         *)
(* The underlay of a device is what its base configuration and the set of  *)
(* the link ends walked determine; the order of the walk shows only in the *)
(* list of the interfaces of the network instance.  An overlay has one     *)
(* order only, and the second build passes through the states of the       *)
(* first, which a history keeps.                                           *)
(***************************************************************************)
EXTENDS DeviceBuilderProofs

-----------------------------------------------------------------------------
(* Maps.                                                                   *)

IsMap(f) == f = [x \in DOMAIN f |-> f[x]]

\* g is f after the writes in W, each a key and its value.
Filled(g, f, W) ==
    /\ IsMap(g)
    /\ DOMAIN g = DOMAIN f \cup {w[1] : w \in W}
    /\ \A w \in W : g[w[1]] = w[2]
    /\ \A k \in DOMAIN f : (\A w \in W : w[1] # k) => g[k] = f[k]

\* s is r but for the fields in F.
AllBut(F, r, s) == IsMap(s) /\ DOMAIN s = DOMAIN r /\ \A f \in DOMAIN r \ F : s[f] = r[f]

-----------------------------------------------------------------------------
(* The underlay of a device, from the ends of the links on it.  An end is  *)
(* a link and the number of the end.                                       *)

DefaultInstance(d) == GetOrCreateNetworkInstance(d, DefaultNetwork)

Base(n) == UpdateBaseDeviceConfig(NewDevice, n, GatherNodeInfo(n))

EndOf(q) == q[1].ends[q[2]]
PeerOf(q) == q[1].ends[3 - q[2]]
SubOf(q) == <<EndOf(q).ep, 0>>
EndsOf(L) == L \X (1 .. 2)
EndsAt(n, S) == {q \in S : EndOf(q).node = n}

Untagged == [vlanTagging |-> FALSE]
HasBFD(l) == IsBFDEnabled(Design) /\ BFDEnabledOn(l)
AreaOf(l) == Override(l.ospf.area, Design.ospfArea)
OSPFInterface(l) ==
    [networkType |-> IF l.ospf.passive THEN "unknown" ELSE Override(l.ospf.networkType, "p2p"),
     passive     |-> l.ospf.passive,
     bfd         |-> IsOSPFBFDEnabled(Design) /\ Override(l.ospf.bfd, TRUE)]
ISISKept(x) == [ipv4 |-> x.ipv4, ipv6 |-> x.ipv6, passive |-> x.passive, networkType |-> x.networkType]
EBGPFamilies == {af \in NumberedFamilies(Design) : IsEBGPEnabled(Design)}
IsDynamic ==
    /\ IsEBGPEnabled(Design)
    /\ \/ IsUnderlayIPv4Enabled(Design) /\ "ipv4" \notin NumberedFamilies(Design)
       \/ IsUnderlayIPv6Enabled(Design) /\ "ipv6" \notin NumberedFamilies(Design)
UnderlayGroup(l) ==
    [disabled |-> GetUnderlayAddressFamiliesToBeDisabled(Design), clusterID |-> <<>>, bfd |-> BGPBFD(l)]

InterfaceWrites(T) == {<<EndOf(q).ep, Untagged>> : q \in T}
SubWrites(T) == {<<SubOf(q), UnderlaySubInterface(EndOf(q), PeerOf(q))>> : q \in T}
BFDWrites(T) == {<<SubOf(q), TRUE>> : q \in {r \in T : HasBFD(r[1])}}
AreasOf(T) == {AreaOf(q[1]) : q \in T}
AreaWrites(a, T) == {<<SubOf(q), OSPFInterface(q[1])>> : q \in {r \in T : AreaOf(r[1]) = a}}
ISISWrites(T) == {<<SubOf(q), ISISKept(ISISInterface(q[1]))>> : q \in T}
NeighborKey(q, af) == <<PeerOf(q).node, PeerOf(q).ep, af>>
NeighborWrites(T) ==
    UNION {{<<NeighborKey(q, af), EBGPNeighbor(EndOf(q), PeerOf(q), q[1], af)>> : af \in EBGPFamilies} : q \in T}
DynamicWrites(T) == {<<SubOf(q), ASOf(PeerOf(q))>> : q \in {r \in T : IsDynamic}}
GroupWrites(T) == {<<"underlay", UnderlayGroup(q[1])>> : q \in {r \in T : IsEBGPEnabled(Design)}}

\* What the ends in T make of the maps of the base configuration b.
OSPFFilled(o, b, T) ==
    IF IsOSPFEnabled(Design)
    THEN /\ o = <<o[1]>> /\ AllBut({"areas"}, b[1], o[1]) /\ IsMap(o[1].areas)
         /\ DOMAIN o[1].areas = DOMAIN b[1].areas \cup AreasOf(T)
         /\ \A a \in DOMAIN o[1].areas :
               Filled(o[1].areas[a], GetOrCreate(b[1].areas, a, <<>>), AreaWrites(a, T))
    ELSE o = b

ISISFilled(i, b, T) ==
    IF IsISISEnabled(Design)
    THEN /\ i = <<i[1]>> /\ AllBut({"interfaces"}, b[1], i[1])
         /\ Filled(i[1].interfaces, b[1].interfaces, ISISWrites(T))
    ELSE i = b

BGPFilled(g, b, T) ==
    /\ AllBut({"neighbors", "dynamicNeighbors", "peerGroups"}, b, g)
    /\ Filled(g.neighbors, b.neighbors, NeighborWrites(T))
    /\ Filled(g.dynamicNeighbors, b.dynamicNeighbors, DynamicWrites(T))
    /\ Filled(g.peerGroups, b.peerGroups, GroupWrites(T))

InstanceFilled(ni, b, T) ==
    /\ AllBut({"interfaces", "ospf", "isis", "bgp"}, b, ni)
    /\ IsList(ni.interfaces) /\ Range(ni.interfaces) = Range(b.interfaces) \cup {SubOf(q) : q \in T}
    /\ OSPFFilled(ni.ospf, b.ospf, T)
    /\ ISISFilled(ni.isis, b.isis, T)
    /\ BGPFilled(ni.bgp, b.bgp, T)

DeviceFilled(d, b, T) ==
    /\ AllBut({"interfaces", "subInterfaces", "bfd", "instances"}, b, d)
    /\ Filled(d.interfaces, b.interfaces, InterfaceWrites(T))
    /\ Filled(d.subInterfaces, b.subInterfaces, SubWrites(T))
    /\ Filled(d.bfd, b.bfd, BFDWrites(T))
    /\ IsMap(d.instances) /\ DOMAIN d.instances = {DefaultNetwork}
    /\ InstanceFilled(DefaultInstance(d), DefaultInstance(b), T)

\* The BFD timer after the links in L.
TimerAfter(rx, L) ==
    IF IsBFDEnabled(Design)
    THEN /\ \A l \in L : l.bfd.minRx # <<>> => rx = l.bfd.minRx[1]
         /\ (\A l \in L : l.bfd.minRx = <<>>) => rx = Design.minRx
    ELSE rx = Design.minRx

\* The configurations after the links in L.
UnderlayOf(ds, rx, L) ==
    /\ IsMap(ds) /\ DOMAIN ds = UNION {NodesOf(l) : l \in L}
    /\ \A n \in DOMAIN ds : DeviceFilled(ds[n], Base(n), EndsAt(n, EndsOf(L)))
    /\ TimerAfter(rx, L)

-----------------------------------------------------------------------------
(* The mesh, and the result of a build of the default network.             *)

AllNodes == UNION {NodesOf(l) : l \in GetLinks(input)}
EdgeNodes == {n \in AllNodes : GatherNodeInfo(n).edge}
EdgeAddresses(rr) == {Prefix(GatherNodeInfo(n), rr) : n \in EdgeNodes}

PeeredEdges(ds) ==
    [n \in DOMAIN ds |->
        IF n \in EdgeNodes /\ Design.reflectors # {}
        THEN WithSessions(AddBGPPeerGroup(ds[n], DefaultNetwork, "overlay", OverlayGroup(<<>>)),
                          [rr \in Design.reflectors |-> Prefix(GatherNodeInfo(n), rr)], Design.reflectors)
        ELSE ds[n]]

Reflected(d, rr) ==
    WithSessions(AddBGPPeerGroup(d, DefaultNetwork, "overlay", OverlayGroup(rr)),
                 [p \in EdgeAddresses(rr) |-> Prefix(GatherNodeInfo(rr[1]), rr)], EdgeAddresses(rr))

Reflects(n, rr) == rr[1] = n /\ rr[2] \in {"ipv4", "ipv6"}

\* ds2 is ds with the sessions of the reflectors in R.
PeeredReflectors(ds, R, ds2) ==
    /\ IsMap(ds2) /\ DOMAIN ds2 = DOMAIN ds
    /\ \A n \in DOMAIN ds :
          /\ \A rr \in R : Reflects(n, rr) => ds2[n] = Reflected(ds[n], rr)
          /\ (\A rr \in R : ~Reflects(n, rr)) => ds2[n] = ds[n]

PeeredUnderlay(ds, rx, R) ==
    \E u : UnderlayOf(u, rx, GetLinks(input)) /\ PeeredReflectors(PeeredEdges(u), R, ds)

IsResult(ds, rx) ==
    IF IsIBGPEnabled(Design) THEN PeeredUnderlay(ds, rx, Design.reflectors)
                             ELSE UnderlayOf(ds, rx, GetLinks(input))

-----------------------------------------------------------------------------
(* Lemmas about maps.                                                      *)

LEMMA MapsEqual ==
    ASSUME NEW f, NEW g, IsMap(f), IsMap(g), DOMAIN f = DOMAIN g, \A x \in DOMAIN f : f[x] = g[x]
    PROVE  f = g
  BY DEF IsMap

LEMMA EmptyMap == IsMap(<<>>) /\ DOMAIN <<>> = {}
  BY DEF IsMap

LEMMA PutMap ==
    ASSUME NEW f, NEW k, NEW v
    PROVE  /\ IsMap(Put(f, k, v)) /\ Put(f, k, v)[k] = v
           /\ \A x : x \in DOMAIN Put(f, k, v) <=> x \in DOMAIN f \/ x = k
  BY DEF IsMap, Put

\* A map that has the value already is not changed.
LEMMA PutAgain ==
    ASSUME NEW f, NEW k, NEW v, IsMap(f), k \in DOMAIN f, f[k] = v
    PROVE  Put(f, k, v) = f
  BY DEF IsMap, Put

LEMMA FilledNone ==
    ASSUME NEW f, IsMap(f), NEW W, W = {} PROVE Filled(f, f, W)
  BY DEF Filled

\* One more write, that disagrees with no other.
LEMMA FilledPut ==
    ASSUME NEW f, NEW g, NEW W, Filled(g, f, W), NEW k, NEW v, \A w \in W : w[1] = k => w[2] = v,
           NEW X, \A w : w \in X <=> w \in W \/ w = <<k, v>>
    PROVE  Filled(Put(g, k, v), f, X)
<1> DEFINE h == Put(g, k, v)
<1>1. IsMap(h) /\ \A x : x \in DOMAIN h <=> x \in DOMAIN g \/ x = k
  BY PutMap
<1>2. \A x \in DOMAIN h : h[x] = IF x = k THEN v ELSE g[x]
  BY DEF Put
<1> HIDE DEF h
<1>3. <<k, v>> \in X /\ <<k, v>>[1] = k /\ <<k, v>>[2] = v
  OBVIOUS
<1>4. DOMAIN h = DOMAIN f \cup {w[1] : w \in X}
  <2>1. \A x : x \in DOMAIN g <=> x \in DOMAIN f \/ \E w \in W : x = w[1]
    BY DEF Filled
  <2>2. \A x : x \in DOMAIN h <=> x \in DOMAIN f \/ \E w \in X : x = w[1]
    BY <1>1, <1>3, <2>1
  <2>3. QED BY <2>2
<1>5. \A w \in X : h[w[1]] = w[2]
  BY <1>1, <1>2, <1>3 DEF Filled
<1>6. \A x \in DOMAIN f : (\A w \in X : w[1] # x) => h[x] = f[x]
  BY <1>1, <1>2, <1>3 DEF Filled
<1>7. QED BY <1>1, <1>4, <1>5, <1>6 DEF Filled, h

LEMMA FilledUnique ==
    ASSUME NEW f, NEW g, NEW h, NEW W, Filled(g, f, W), Filled(h, f, W)
    PROVE  g = h
<1>1. IsMap(g) /\ IsMap(h) /\ DOMAIN g = DOMAIN h
  BY DEF Filled
<1>2. ASSUME NEW k \in DOMAIN g PROVE g[k] = h[k]
  <2>1. CASE \E w \in W : w[1] = k
    BY <2>1 DEF Filled
  <2>2. CASE \A w \in W : w[1] # k
    BY <2>2 DEF Filled
  <2>3. QED BY <2>1, <2>2
<1>3. QED BY <1>1, <1>2, MapsEqual

LEMMA AllButTwice ==
    ASSUME NEW F, NEW G, NEW H, NEW r, NEW s, NEW t, AllBut(F, r, s), AllBut(G, s, t), F \cup G \subseteq H
    PROVE  AllBut(H, r, t)
  BY DEF AllBut

LEMMA AllButUnique ==
    ASSUME NEW F, NEW r, NEW s, NEW t, AllBut(F, r, s), AllBut(F, r, t), \A f \in F : s[f] = t[f]
    PROVE  s = t
<1>1. IsMap(s) /\ IsMap(t) /\ DOMAIN s = DOMAIN t /\ \A f \in DOMAIN s : s[f] = t[f]
  BY DEF AllBut
<1>2. QED BY <1>1, MapsEqual

-----------------------------------------------------------------------------
(* The ends in T determine the device.                                     *)

LEMMA OSPFUnique ==
    ASSUME NEW b, NEW T, NEW o, NEW p, OSPFFilled(o, b, T), OSPFFilled(p, b, T)
    PROVE  o = p
<1>1. CASE ~IsOSPFEnabled(Design)
  BY <1>1 DEF OSPFFilled
<1>2. CASE IsOSPFEnabled(Design)
  <2> DEFINE x == o[1]
             y == p[1]
             c == b[1]
  <2>1. /\ o = <<x>> /\ AllBut({"areas"}, c, x) /\ IsMap(x.areas)
        /\ DOMAIN x.areas = DOMAIN c.areas \cup AreasOf(T)
        /\ \A a \in DOMAIN x.areas : Filled(x.areas[a], GetOrCreate(c.areas, a, <<>>), AreaWrites(a, T))
    BY <1>2 DEF OSPFFilled
  <2>2. /\ p = <<y>> /\ AllBut({"areas"}, c, y) /\ IsMap(y.areas)
        /\ DOMAIN y.areas = DOMAIN c.areas \cup AreasOf(T)
        /\ \A a \in DOMAIN y.areas : Filled(y.areas[a], GetOrCreate(c.areas, a, <<>>), AreaWrites(a, T))
    BY <1>2 DEF OSPFFilled
  <2> HIDE DEF x, y, c
  <2>3. \A a \in DOMAIN x.areas : x.areas[a] = y.areas[a]
    BY <2>1, <2>2, FilledUnique
  <2>4. x.areas = y.areas
    BY <2>1, <2>2, <2>3, MapsEqual
  <2>5. x = y
    BY <2>1, <2>2, <2>4, AllButUnique
  <2>6. QED BY <2>1, <2>2, <2>5
<1>3. QED BY <1>1, <1>2

LEMMA ISISUnique ==
    ASSUME NEW b, NEW T, NEW i, NEW j, ISISFilled(i, b, T), ISISFilled(j, b, T)
    PROVE  i = j
<1>1. CASE ~IsISISEnabled(Design)
  BY <1>1 DEF ISISFilled
<1>2. CASE IsISISEnabled(Design)
  <2> DEFINE x == i[1]
             y == j[1]
             c == b[1]
  <2>1. /\ i = <<x>> /\ AllBut({"interfaces"}, c, x)
        /\ Filled(x.interfaces, c.interfaces, ISISWrites(T))
    BY <1>2 DEF ISISFilled
  <2>2. /\ j = <<y>> /\ AllBut({"interfaces"}, c, y)
        /\ Filled(y.interfaces, c.interfaces, ISISWrites(T))
    BY <1>2 DEF ISISFilled
  <2> HIDE DEF x, y, c
  <2>3. x.interfaces = y.interfaces
    BY <2>1, <2>2, FilledUnique
  <2>4. x = y
    BY <2>1, <2>2, <2>3, AllButUnique
  <2>5. QED BY <2>1, <2>2, <2>4
<1>3. QED BY <1>1, <1>2

LEMMA BGPUnique ==
    ASSUME NEW b, NEW T, NEW g, NEW h, BGPFilled(g, b, T), BGPFilled(h, b, T)
    PROVE  g = h
<1>1. g.neighbors = h.neighbors /\ g.dynamicNeighbors = h.dynamicNeighbors /\ g.peerGroups = h.peerGroups
  BY FilledUnique DEF BGPFilled
<1>2. AllBut({"neighbors", "dynamicNeighbors", "peerGroups"}, b, g)
  BY DEF BGPFilled
<1>3. AllBut({"neighbors", "dynamicNeighbors", "peerGroups"}, b, h)
  BY DEF BGPFilled
<1>4. QED BY <1>1, <1>2, <1>3, AllButUnique

-----------------------------------------------------------------------------
(* What the operations on a device touch.                                  *)

FormedInstance(ni) ==
    /\ IsMap(ni) /\ DOMAIN ni = DOMAIN NewNetworkInstance
    /\ IsMap(ni.bgp) /\ DOMAIN ni.bgp = DOMAIN NewBGP

\* A device of the underlay has the fields of its type, at every level, and
\* no instance but the default one.
Formed(d) ==
    /\ IsMap(d) /\ DOMAIN d = DOMAIN NewDevice
    /\ IsMap(d.instances) /\ DOMAIN d.instances \subseteq {DefaultNetwork}
    /\ FormedInstance(DefaultInstance(d))

\* d2 is d but for the fields in F, those in G of its instance and those in
\* H of BGP.
Touched(F, G, H, d, d2) ==
    /\ Formed(d2) /\ AllBut(F, d, d2)
    /\ AllBut(G, DefaultInstance(d), DefaultInstance(d2))
    /\ AllBut(H, DefaultInstance(d).bgp, DefaultInstance(d2).bgp)
    /\ DefaultNetwork \in DOMAIN d.instances => DefaultNetwork \in DOMAIN d2.instances

LEMMA TouchedTwice ==
    ASSUME NEW d, NEW e, NEW f, NEW F, NEW G, NEW H, NEW J, NEW K, NEW L, NEW M, NEW N, NEW O,
           Touched(F, G, H, d, e), Touched(J, K, L, e, f),
           F \cup J \subseteq M, G \cup K \subseteq N, H \cup L \subseteq O
    PROVE  Touched(M, N, O, d, f)
  BY AllButTwice DEF Touched

LEMMA Untouched == ASSUME NEW d, Formed(d), NEW F, NEW G, NEW H PROVE Touched(F, G, H, d, d)
  BY DEF Touched, Formed, FormedInstance, AllBut

LEMMA DeviceTouched ==
    ASSUME NEW d, Formed(d), NEW F, NEW d2, AllBut(F, d, d2), "instances" \notin F
    PROVE  Touched(F, {}, {}, d, d2)
<1>1. IsMap(d2) /\ DOMAIN d2 = DOMAIN d /\ d2.instances = d.instances
  BY DEF AllBut, Formed, NewDevice
<1>2. DefaultInstance(d2) = DefaultInstance(d)
  BY <1>1 DEF DefaultInstance, GetOrCreateNetworkInstance
<1>3. Formed(d2)
  BY <1>1, <1>2 DEF Formed
<1>4. QED BY <1>1, <1>2, <1>3 DEF Touched, Formed, FormedInstance, AllBut

LEMMA InstanceTouched ==
    ASSUME NEW d, Formed(d), NEW G, NEW ni, AllBut(G, DefaultInstance(d), ni), "bgp" \notin G
    PROVE  LET d2 == SetNetworkInstance(d, DefaultNetwork, ni)
           IN  /\ Touched({"instances"}, G, {}, d, d2)
               /\ DefaultInstance(d2) = ni /\ DefaultNetwork \in DOMAIN d2.instances
<1> DEFINE d2 == SetNetworkInstance(d, DefaultNetwork, ni)
           is == Put(d.instances, DefaultNetwork, ni)
<1>1. d2 = [d EXCEPT !.instances = is]
  BY DEF SetNetworkInstance
<1>2. /\ IsMap(is) /\ is[DefaultNetwork] = ni
      /\ \A x : x \in DOMAIN is <=> x \in DOMAIN d.instances \/ x = DefaultNetwork
  BY PutMap
<1> HIDE DEF d2, is
<1>3. AllBut({"instances"}, d, d2) /\ d2.instances = is
  BY <1>1 DEF AllBut, Formed, NewDevice, IsMap
<1>4. DefaultInstance(d2) = ni
  BY <1>2, <1>3 DEF DefaultInstance, GetOrCreateNetworkInstance, GetOrCreate
<1>5. FormedInstance(ni) /\ ni.bgp = DefaultInstance(d).bgp
  BY DEF AllBut, Formed, FormedInstance, NewNetworkInstance
<1>6. Formed(d2)
  BY <1>2, <1>3, <1>4, <1>5 DEF Formed, AllBut
<1>7. AllBut({}, DefaultInstance(d).bgp, ni.bgp)
  BY <1>5 DEF AllBut, FormedInstance
<1>8. QED BY <1>2, <1>3, <1>4, <1>6, <1>7 DEF Touched, d2

LEMMA BGPTouched ==
    ASSUME NEW d, Formed(d), NEW H, NEW bgp, AllBut(H, DefaultInstance(d).bgp, bgp)
    PROVE  LET d2 == SetBGP(d, DefaultNetwork, bgp)
           IN  /\ Touched({"instances"}, {"bgp"}, H, d, d2)
               /\ DefaultInstance(d2).bgp = bgp /\ DefaultNetwork \in DOMAIN d2.instances
<1> DEFINE ni == [DefaultInstance(d) EXCEPT !.bgp = bgp]
           d2 == SetBGP(d, DefaultNetwork, bgp)
           is == Put(d.instances, DefaultNetwork, ni)
<1>1. d2 = [d EXCEPT !.instances = is]
  BY DEF SetNetworkInstance, SetBGP, DefaultInstance
<1>2. AllBut({"bgp"}, DefaultInstance(d), ni) /\ ni.bgp = bgp
  BY DEF AllBut, Formed, FormedInstance, NewNetworkInstance, IsMap
<1> HIDE DEF ni
<1>3. /\ IsMap(is) /\ is[DefaultNetwork] = ni
      /\ \A x : x \in DOMAIN is <=> x \in DOMAIN d.instances \/ x = DefaultNetwork
  BY PutMap
<1> HIDE DEF d2, is
<1>4. AllBut({"instances"}, d, d2) /\ d2.instances = is
  BY <1>1 DEF AllBut, Formed, NewDevice, IsMap
<1>5. DefaultInstance(d2) = ni
  BY <1>3, <1>4 DEF DefaultInstance, GetOrCreateNetworkInstance, GetOrCreate
<1>6. FormedInstance(ni)
  BY <1>2 DEF AllBut, Formed, FormedInstance
<1>7. Formed(d2)
  BY <1>3, <1>4, <1>5, <1>6 DEF Formed, AllBut
<1>8. QED BY <1>2, <1>3, <1>4, <1>5, <1>7 DEF Touched, d2

\* What is set on the device itself.
LEMMA OnDevice ==
    ASSUME NEW d, Formed(d)
    PROVE  /\ \A x : /\ Touched({"provider"}, {}, {}, d, AddProvider(d, x))
                     /\ AddProvider(d, x).provider = x
           /\ \A x : /\ Touched({"interfaces"}, {}, {}, d, AddInterface(d, x))
                     /\ AddInterface(d, x).interfaces = Put(d.interfaces, x, Untagged)
           /\ \A x : /\ Touched({"tunnels"}, {}, {}, d, AddTunnelInterface(d, x))
                     /\ AddTunnelInterface(d, x).tunnels = d.tunnels \cup {x}
           /\ \A si, x : /\ Touched({"bfd"}, {}, {}, d, AddBFDInterface(d, si, x))
                         /\ AddBFDInterface(d, si, x).bfd = Put(d.bfd, si, x)
           /\ \A x, y : /\ Touched({"policies"}, {}, {}, d, AddRoutingPolicy(d, x, y))
                        /\ AddRoutingPolicy(d, x, y).policies = Put(d.policies, x, y)
           /\ /\ Touched({"systemBGPVPN"}, {}, {}, d, AddSystemProtocolsBGPVPN(d))
              /\ AddSystemProtocolsBGPVPN(d).systemBGPVPN = TRUE
<1>1. IsMap(d) /\ DOMAIN d = DOMAIN NewDevice
  BY DEF Formed
<1>2. /\ \A x : AllBut({"provider"}, d, AddProvider(d, x)) /\ AddProvider(d, x).provider = x
  BY <1>1 DEF AllBut, IsMap, NewDevice, AddProvider
<1>3. \A x : /\ AllBut({"interfaces"}, d, AddInterface(d, x))
             /\ AddInterface(d, x).interfaces = Put(d.interfaces, x, Untagged)
  BY <1>1 DEF AllBut, IsMap, NewDevice, AddInterface, Untagged
<1>4. \A x : /\ AllBut({"tunnels"}, d, AddTunnelInterface(d, x))
             /\ AddTunnelInterface(d, x).tunnels = d.tunnels \cup {x}
  BY <1>1 DEF AllBut, IsMap, NewDevice, AddTunnelInterface
<1>5. \A si, x : /\ AllBut({"bfd"}, d, AddBFDInterface(d, si, x))
                 /\ AddBFDInterface(d, si, x).bfd = Put(d.bfd, si, x)
  BY <1>1 DEF AllBut, IsMap, NewDevice, AddBFDInterface
<1>6. \A x, y : /\ AllBut({"policies"}, d, AddRoutingPolicy(d, x, y))
                /\ AddRoutingPolicy(d, x, y).policies = Put(d.policies, x, y)
  BY <1>1 DEF AllBut, IsMap, NewDevice, AddRoutingPolicy
<1>7. /\ AllBut({"systemBGPVPN"}, d, AddSystemProtocolsBGPVPN(d))
      /\ AddSystemProtocolsBGPVPN(d).systemBGPVPN = TRUE
  BY <1>1 DEF AllBut, IsMap, NewDevice, AddSystemProtocolsBGPVPN
<1>8. QED BY <1>2, <1>3, <1>4, <1>5, <1>6, <1>7, DeviceTouched

\* What is set on the network instance.
LEMMA OnInstance ==
    ASSUME NEW d, Formed(d)
    PROVE  /\ \A x : LET d2 == AddNetworkInstance(d, DefaultNetwork, x)
                     IN  /\ Touched({"instances"}, {"type"}, {}, d, d2)
                         /\ DefaultInstance(d2).type = x /\ DefaultNetwork \in DOMAIN d2.instances
           /\ \A x : LET d2 == AddNetworkInstanceSubInterface(d, DefaultNetwork, x)
                     IN  /\ Touched({"instances"}, {"interfaces"}, {}, d, d2)
                         /\ DefaultInstance(d2).interfaces = Adjoin(DefaultInstance(d).interfaces, x)
                         /\ DefaultNetwork \in DOMAIN d2.instances
           /\ \A x : LET d2 == SetOSPF(d, DefaultNetwork, x)
                     IN  /\ Touched({"instances"}, {"ospf"}, {}, d, d2)
                         /\ DefaultInstance(d2).ospf = <<x>>
           /\ \A x : LET d2 == SetISIS(d, DefaultNetwork, x)
                     IN  /\ Touched({"instances"}, {"isis"}, {}, d, d2)
                         /\ DefaultInstance(d2).isis = <<x>>
<1> DEFINE ni == DefaultInstance(d)
<1>1. IsMap(ni) /\ DOMAIN ni = DOMAIN NewNetworkInstance
  BY DEF Formed, FormedInstance
<1> HIDE DEF ni
<1>2. \A x : AllBut({"type"}, ni, [ni EXCEPT !.type = x]) /\ [ni EXCEPT !.type = x].type = x
  BY <1>1 DEF AllBut, IsMap, NewNetworkInstance
<1>3. \A x : AllBut({"interfaces"}, ni, [ni EXCEPT !.interfaces = x]) /\ [ni EXCEPT !.interfaces = x].interfaces = x
  BY <1>1 DEF AllBut, IsMap, NewNetworkInstance
<1>4. \A x : AllBut({"ospf"}, ni, [ni EXCEPT !.ospf = x]) /\ [ni EXCEPT !.ospf = x].ospf = x
  BY <1>1 DEF AllBut, IsMap, NewNetworkInstance
<1>5. \A x : AllBut({"isis"}, ni, [ni EXCEPT !.isis = x]) /\ [ni EXCEPT !.isis = x].isis = x
  BY <1>1 DEF AllBut, IsMap, NewNetworkInstance
<1>6. ASSUME NEW x, NEW d2, d2 = AddNetworkInstance(d, DefaultNetwork, x)
      PROVE  /\ Touched({"instances"}, {"type"}, {}, d, d2)
             /\ DefaultInstance(d2).type = x /\ DefaultNetwork \in DOMAIN d2.instances
  <2>1. d2 = SetNetworkInstance(d, DefaultNetwork, [ni EXCEPT !.type = x])
    BY <1>6 DEF AddNetworkInstance, DefaultInstance, ni
  <2>2. QED BY <1>2, <2>1, InstanceTouched DEF ni
<1>7. ASSUME NEW x, NEW d2, d2 = AddNetworkInstanceSubInterface(d, DefaultNetwork, x)
      PROVE  /\ Touched({"instances"}, {"interfaces"}, {}, d, d2)
             /\ DefaultInstance(d2).interfaces = Adjoin(DefaultInstance(d).interfaces, x)
             /\ DefaultNetwork \in DOMAIN d2.instances
  <2>1. d2 = SetNetworkInstance(d, DefaultNetwork, [ni EXCEPT !.interfaces = Adjoin(ni.interfaces, x)])
    BY <1>7 DEF AddNetworkInstanceSubInterface, DefaultInstance, ni
  <2>2. QED BY <1>3, <2>1, InstanceTouched DEF ni
<1>8. ASSUME NEW x, NEW d2, d2 = SetOSPF(d, DefaultNetwork, x)
      PROVE  Touched({"instances"}, {"ospf"}, {}, d, d2) /\ DefaultInstance(d2).ospf = <<x>>
  <2>1. d2 = SetNetworkInstance(d, DefaultNetwork, [ni EXCEPT !.ospf = <<x>>])
    BY <1>8 DEF SetOSPF, DefaultInstance, ni
  <2>2. QED BY <1>4, <2>1, InstanceTouched DEF ni
<1>9. ASSUME NEW x, NEW d2, d2 = SetISIS(d, DefaultNetwork, x)
      PROVE  Touched({"instances"}, {"isis"}, {}, d, d2) /\ DefaultInstance(d2).isis = <<x>>
  <2>1. d2 = SetNetworkInstance(d, DefaultNetwork, [ni EXCEPT !.isis = <<x>>])
    BY <1>9 DEF SetISIS, DefaultInstance, ni
  <2>2. QED BY <1>5, <2>1, InstanceTouched DEF ni
<1>10. QED BY <1>6, <1>7, <1>8, <1>9 DEF ni

\* What is set on BGP.
LEMMA OnBGP ==
    ASSUME NEW d, Formed(d)
    PROVE  /\ \A x : LET d2 == AddBGPAS(d, DefaultNetwork, x)
                     IN  /\ Touched({"instances"}, {"bgp"}, {"as"}, d, d2)
                         /\ DefaultInstance(d2).bgp.as = x
           /\ \A x : LET d2 == AddBGPRouterID(d, DefaultNetwork, x)
                     IN  /\ Touched({"instances"}, {"bgp"}, {"routerID"}, d, d2)
                         /\ DefaultInstance(d2).bgp.routerID = x
           /\ \A x : LET d2 == AddBGPAddressFamilies(d, DefaultNetwork, x)
                     IN  /\ Touched({"instances"}, {"bgp"}, {"families"}, d, d2)
                         /\ DefaultInstance(d2).bgp.families = x
           /\ \A k, x : LET d2 == AddBGPPeerGroup(d, DefaultNetwork, k, x)
                        IN  /\ Touched({"instances"}, {"bgp"}, {"peerGroups"}, d, d2)
                            /\ DefaultInstance(d2).bgp.peerGroups = Put(DefaultInstance(d).bgp.peerGroups, k, x)
           /\ \A k, x : LET d2 == AddBGPDynamicNeighbor(d, DefaultNetwork, k, x)
                        IN  /\ Touched({"instances"}, {"bgp"}, {"dynamicNeighbors"}, d, d2)
                            /\ DefaultInstance(d2).bgp.dynamicNeighbors
                                  = Put(DefaultInstance(d).bgp.dynamicNeighbors, k, x)
           /\ \A x : x.peer # <<>> =>
                  LET d2 == AddBGPNeighbor(d, DefaultNetwork, x)
                  IN  /\ Touched({"instances"}, {"bgp"}, {"neighbors"}, d, d2)
                      /\ DefaultInstance(d2).bgp.neighbors = Put(DefaultInstance(d).bgp.neighbors, x.peer, x)
<1> DEFINE b == DefaultInstance(d).bgp
<1>1. IsMap(b) /\ DOMAIN b = DOMAIN NewBGP /\ GetOrCreateBGP(d, DefaultNetwork) = b
  BY DEF Formed, FormedInstance, GetOrCreateBGP, DefaultInstance
<1> HIDE DEF b
<1>2. \A x : AllBut({"as"}, b, [b EXCEPT !.as = x]) /\ [b EXCEPT !.as = x].as = x
  BY <1>1 DEF AllBut, IsMap, NewBGP
<1>3. \A x : AllBut({"routerID"}, b, [b EXCEPT !.routerID = x]) /\ [b EXCEPT !.routerID = x].routerID = x
  BY <1>1 DEF AllBut, IsMap, NewBGP
<1>4. \A x : AllBut({"families"}, b, [b EXCEPT !.families = x]) /\ [b EXCEPT !.families = x].families = x
  BY <1>1 DEF AllBut, IsMap, NewBGP
<1>5. \A x : AllBut({"peerGroups"}, b, [b EXCEPT !.peerGroups = x]) /\ [b EXCEPT !.peerGroups = x].peerGroups = x
  BY <1>1 DEF AllBut, IsMap, NewBGP
<1>6. \A x : /\ AllBut({"dynamicNeighbors"}, b, [b EXCEPT !.dynamicNeighbors = x])
             /\ [b EXCEPT !.dynamicNeighbors = x].dynamicNeighbors = x
  BY <1>1 DEF AllBut, IsMap, NewBGP
<1>7. \A x : AllBut({"neighbors"}, b, [b EXCEPT !.neighbors = x]) /\ [b EXCEPT !.neighbors = x].neighbors = x
  BY <1>1 DEF AllBut, IsMap, NewBGP
<1>8. ASSUME NEW H, NEW c, AllBut(H, b, c), NEW d2, d2 = SetBGP(d, DefaultNetwork, c)
      PROVE  Touched({"instances"}, {"bgp"}, H, d, d2) /\ DefaultInstance(d2).bgp = c
  BY <1>8, BGPTouched DEF b
<1>9. ASSUME NEW x, NEW d2, d2 = AddBGPAS(d, DefaultNetwork, x)
      PROVE  Touched({"instances"}, {"bgp"}, {"as"}, d, d2) /\ DefaultInstance(d2).bgp.as = x
  BY <1>1, <1>2, <1>8, <1>9 DEF AddBGPAS
<1>10. ASSUME NEW x, NEW d2, d2 = AddBGPRouterID(d, DefaultNetwork, x)
       PROVE  Touched({"instances"}, {"bgp"}, {"routerID"}, d, d2) /\ DefaultInstance(d2).bgp.routerID = x
  BY <1>1, <1>3, <1>8, <1>10 DEF AddBGPRouterID
<1>11. ASSUME NEW x, NEW d2, d2 = AddBGPAddressFamilies(d, DefaultNetwork, x)
       PROVE  Touched({"instances"}, {"bgp"}, {"families"}, d, d2) /\ DefaultInstance(d2).bgp.families = x
  BY <1>1, <1>4, <1>8, <1>11 DEF AddBGPAddressFamilies
<1>12. ASSUME NEW k, NEW x, NEW d2, d2 = AddBGPPeerGroup(d, DefaultNetwork, k, x)
       PROVE  /\ Touched({"instances"}, {"bgp"}, {"peerGroups"}, d, d2)
              /\ DefaultInstance(d2).bgp.peerGroups = Put(b.peerGroups, k, x)
  <2> DEFINE y == Put(b.peerGroups, k, x)
             c == [b EXCEPT !.peerGroups = y]
  <2>1. d2 = SetBGP(d, DefaultNetwork, c)
    BY <1>1, <1>12 DEF AddBGPPeerGroup
  <2>2. AllBut({"peerGroups"}, b, c) /\ c.peerGroups = y
    <3> HIDE DEF y
    <3>1. QED BY <1>5
  <2> HIDE DEF c
  <2>3. QED BY <1>8, <2>1, <2>2
<1>13. ASSUME NEW k, NEW x, NEW d2, d2 = AddBGPDynamicNeighbor(d, DefaultNetwork, k, x)
       PROVE  /\ Touched({"instances"}, {"bgp"}, {"dynamicNeighbors"}, d, d2)
              /\ DefaultInstance(d2).bgp.dynamicNeighbors = Put(b.dynamicNeighbors, k, x)
  <2> DEFINE y == Put(b.dynamicNeighbors, k, x)
             c == [b EXCEPT !.dynamicNeighbors = y]
  <2>1. d2 = SetBGP(d, DefaultNetwork, c)
    BY <1>1, <1>13 DEF AddBGPDynamicNeighbor
  <2>2. AllBut({"dynamicNeighbors"}, b, c) /\ c.dynamicNeighbors = y
    <3> HIDE DEF y
    <3>1. QED BY <1>6
  <2> HIDE DEF c
  <2>3. QED BY <1>8, <2>1, <2>2
<1>14. ASSUME NEW x, x.peer # <<>>, NEW d2, d2 = AddBGPNeighbor(d, DefaultNetwork, x)
       PROVE  /\ Touched({"instances"}, {"bgp"}, {"neighbors"}, d, d2)
              /\ DefaultInstance(d2).bgp.neighbors = Put(b.neighbors, x.peer, x)
  <2> DEFINE y == Put(b.neighbors, x.peer, x)
             c == [b EXCEPT !.neighbors = y]
  <2>1. d2 = SetBGP(d, DefaultNetwork, c)
    BY <1>1, <1>14 DEF AddBGPNeighbor
  <2>2. AllBut({"neighbors"}, b, c) /\ c.neighbors = y
    <3> HIDE DEF y
    <3>1. QED BY <1>7
  <2> HIDE DEF c
  <2>3. QED BY <1>8, <2>1, <2>2
<1>15. QED BY <1>9, <1>10, <1>11, <1>12, <1>13, <1>14 DEF b

-----------------------------------------------------------------------------
(* The interfaces of the IGPs.                                             *)

OSPFFormed(o) ==
    o = <<o[1]>> /\ IsMap(o[1]) /\ DOMAIN o[1] = {"routerID", "areas"} /\ IsMap(o[1].areas)

ISISFormed(i) ==
    /\ i = <<i[1]>> /\ IsMap(i[1]) /\ DOMAIN i[1] = {"level", "families", "levels", "interfaces"}
    /\ IsMap(i[1].interfaces)

\* o2 is o with an interface in an area.
HasAreaInterface(o, o2, area, si, x) ==
    /\ IsMap(o2) /\ DOMAIN o2 = {"routerID", "areas"} /\ o2.routerID = o.routerID /\ IsMap(o2.areas)
    /\ \A a : a \in DOMAIN o2.areas <=> a \in DOMAIN o.areas \/ a = area
    /\ \A a \in DOMAIN o.areas : a # area => o2.areas[a] = o.areas[a]
    /\ o2.areas[area] = Put(GetOrCreate(o.areas, area, <<>>), si, x)

LEMMA OneOSPF == ASSUME NEW o PROVE InstanceOf(<<o>>, NewOSPF) = o
  BY DEF InstanceOf

LEMMA OSPFInterfaceAdded ==
    ASSUME NEW d, Formed(d), OSPFFormed(DefaultInstance(d).ospf), NEW area, NEW si, NEW x
    PROVE  LET d2 == AddOSPFAreaInterface(AddOSPFArea(d, DefaultNetwork, area), DefaultNetwork, area, si, x)
           IN  /\ Touched({"instances"}, {"ospf"}, {}, d, d2)
               /\ \E o2 : /\ DefaultInstance(d2).ospf = <<o2>>
                          /\ HasAreaInterface(DefaultInstance(d).ospf[1], o2, area, si, x)
<1> DEFINE o == DefaultInstance(d).ospf[1]
           as1 == Put(o.areas, area, GetOrCreate(o.areas, area, <<>>))
           o1 == [o EXCEPT !.areas = as1]
           d1 == AddOSPFArea(d, DefaultNetwork, area)
           as2 == Put(as1, area, Put(GetOrCreate(as1, area, <<>>), si, x))
           o2 == [o1 EXCEPT !.areas = as2]
           d2 == AddOSPFAreaInterface(d1, DefaultNetwork, area, si, x)
<1>1. DefaultInstance(d).ospf = <<o>> /\ IsMap(o) /\ DOMAIN o = {"routerID", "areas"} /\ IsMap(o.areas)
  BY DEF OSPFFormed
<1> HIDE DEF o
<1>2. GetOrCreateOSPF(d, DefaultNetwork) = o
  BY <1>1, OneOSPF DEF GetOrCreateOSPF, DefaultInstance
<1>3. d1 = SetOSPF(d, DefaultNetwork, o1)
  BY <1>2 DEF AddOSPFArea
<1> HIDE DEF o1, d1
<1>4. Touched({"instances"}, {"ospf"}, {}, d, d1) /\ DefaultInstance(d1).ospf = <<o1>>
  BY <1>3, OnInstance
<1>5. GetOrCreateOSPF(d1, DefaultNetwork) = o1
  BY <1>4, OneOSPF DEF GetOrCreateOSPF, DefaultInstance
<1>6. /\ IsMap(o1) /\ DOMAIN o1 = {"routerID", "areas"} /\ o1.routerID = o.routerID /\ o1.areas = as1
  <2> HIDE DEF as1
  <2>1. QED BY <1>1 DEF o1, IsMap
<1> HIDE DEF as1
<1>7. d2 = SetOSPF(d1, DefaultNetwork, o2)
  BY <1>5, <1>6 DEF AddOSPFAreaInterface
<1> HIDE DEF o2, d2
<1>8. Touched({"instances"}, {"ospf"}, {}, d1, d2) /\ DefaultInstance(d2).ospf = <<o2>>
  BY <1>4, <1>7, OnInstance DEF Touched
<1>9. /\ IsMap(o2) /\ DOMAIN o2 = {"routerID", "areas"} /\ o2.routerID = o.routerID /\ o2.areas = as2
  <2> HIDE DEF as2
  <2>1. QED BY <1>6 DEF o2, IsMap
<1>10. /\ IsMap(as1) /\ as1[area] = GetOrCreate(o.areas, area, <<>>)
       /\ \A a : a \in DOMAIN as1 <=> a \in DOMAIN o.areas \/ a = area
       /\ \A a \in DOMAIN o.areas : a # area => as1[a] = o.areas[a]
  BY DEF as1, Put, IsMap
<1>11. GetOrCreate(as1, area, <<>>) = GetOrCreate(o.areas, area, <<>>)
  BY <1>10 DEF GetOrCreate
<1>12. /\ IsMap(as2) /\ as2[area] = Put(GetOrCreate(o.areas, area, <<>>), si, x)
       /\ \A a : a \in DOMAIN as2 <=> a \in DOMAIN as1 \/ a = area
       /\ \A a \in DOMAIN as1 : a # area => as2[a] = as1[a]
  <2> DEFINE v == Put(GetOrCreate(as1, area, <<>>), si, x)
  <2>1. v = Put(GetOrCreate(o.areas, area, <<>>), si, x)
    BY <1>11
  <2>2. as2 = Put(as1, area, v)
    OBVIOUS
  <2> HIDE DEF v, as2
  <2>3. \A a \in DOMAIN as1 : a # area => as2[a] = as1[a]
    BY <2>2, PutAt
  <2>4. QED BY <2>1, <2>2, <2>3, PutMap
<1>13. HasAreaInterface(o, o2, area, si, x)
  BY <1>9, <1>10, <1>12 DEF HasAreaInterface
<1>14. Touched({"instances"}, {"ospf"}, {}, d, d2)
  BY <1>4, <1>8, TouchedTwice
<1>15. QED BY <1>8, <1>13, <1>14 DEF o, d1, d2

LEMMA OneISIS == ASSUME NEW i PROVE InstanceOf(<<i>>, NewISIS) = i
  BY DEF InstanceOf

LEMMA ISISInterfaceAdded ==
    ASSUME NEW d, Formed(d), ISISFormed(DefaultInstance(d).isis), NEW si, NEW x
    PROVE  LET d2 == AddISISInterface(d, DefaultNetwork, si, x)
           IN  /\ Touched({"instances"}, {"isis"}, {}, d, d2)
               /\ \E i2 : /\ DefaultInstance(d2).isis = <<i2>>
                          /\ AllBut({"interfaces"}, DefaultInstance(d).isis[1], i2)
                          /\ i2.interfaces = Put(DefaultInstance(d).isis[1].interfaces, si, ISISKept(x))
<1> DEFINE i == DefaultInstance(d).isis[1]
           is2 == Put(i.interfaces, si, ISISKept(x))
           i2 == [i EXCEPT !.interfaces = is2]
           d2 == AddISISInterface(d, DefaultNetwork, si, x)
<1>1. /\ DefaultInstance(d).isis = <<i>> /\ IsMap(i)
      /\ DOMAIN i = {"level", "families", "levels", "interfaces"}
  BY DEF ISISFormed
<1> HIDE DEF i
<1>2. GetOrCreateISIS(d, DefaultNetwork) = i
  BY <1>1, OneISIS DEF GetOrCreateISIS, DefaultInstance
<1>3. d2 = SetISIS(d, DefaultNetwork, i2)
  BY <1>2 DEF AddISISInterface, ISISKept
<1>4. AllBut({"interfaces"}, i, i2) /\ i2.interfaces = is2
  <2> HIDE DEF is2
  <2>1. QED BY <1>1 DEF AllBut, IsMap
<1> HIDE DEF i2, d2
<1>5. Touched({"instances"}, {"isis"}, {}, d, d2) /\ DefaultInstance(d2).isis = <<i2>>
  BY <1>3, OnInstance
<1>6. QED BY <1>4, <1>5 DEF i, d2

-----------------------------------------------------------------------------
(* One more end.                                                           *)

\* Ends of one node: they are of one link and alike, if they or their peers
\* have the same endpoint, and their links agree on BFD for BGP.
AgreeOn(r, q) ==
    /\ EndOf(r).node = EndOf(q).node
    /\ EndOf(r).ep = EndOf(q).ep =>
           r[1] = q[1] /\ PeerOf(r).node = PeerOf(q).node /\ PeerOf(r).ep = PeerOf(q).ep
    /\ PeerOf(r).node = PeerOf(q).node /\ PeerOf(r).ep = PeerOf(q).ep =>
           r[1] = q[1] /\ EndOf(r).ep = EndOf(q).ep
    /\ BGPBFD(r[1]) = BGPBFD(q[1])

Agrees(T, q) == \A r \in T : AgreeOn(r, q)

LEMMA AlikeEnds ==
    ASSUME NEW r, NEW q, AgreeOn(r, q), EndOf(r).ep = EndOf(q).ep
    PROVE  /\ r[1] = q[1] /\ ASOf(PeerOf(r)) = ASOf(PeerOf(q))
           /\ UnderlaySubInterface(EndOf(r), PeerOf(r)) = UnderlaySubInterface(EndOf(q), PeerOf(q))
  BY DEF AgreeOn, ASOf, UnderlaySubInterface, AddressOf

LEMMA AlikePeers ==
    ASSUME NEW r, NEW q, AgreeOn(r, q), NEW af, PeerOf(r).node = PeerOf(q).node, PeerOf(r).ep = PeerOf(q).ep
    PROVE  EBGPNeighbor(EndOf(r), PeerOf(r), r[1], af) = EBGPNeighbor(EndOf(q), PeerOf(q), q[1], af)
  BY DEF AgreeOn, ASOf, EBGPNeighbor, AddressOf

LEMMA InterfacesFilled ==
    ASSUME NEW T, NEW q, Agrees(T, q), NEW f, NEW b, Filled(f, b, InterfaceWrites(T))
    PROVE  Filled(Put(Put(f, EndOf(q).ep, Untagged), EndOf(q).ep, Untagged), b, InterfaceWrites(T \cup {q}))
<1> DEFINE W == InterfaceWrites(T)
           X == InterfaceWrites(T \cup {q})
           k == EndOf(q).ep
<1>1. \A w : w \in X <=> w \in W \/ w = <<k, Untagged>>
  BY DEF InterfaceWrites
<1>2. \A w \in X : w[2] = Untagged
  BY DEF InterfaceWrites
<1> HIDE DEF W, X, k
<1>3. Filled(Put(f, k, Untagged), b, X)
  BY <1>1, <1>2, FilledPut DEF W
<1>4. Filled(Put(Put(f, k, Untagged), k, Untagged), b, X)
  BY <1>1, <1>2, <1>3, FilledPut
<1>5. QED BY <1>4 DEF X, k

LEMMA SubsFilled ==
    ASSUME NEW T, NEW q, Agrees(T, q), NEW f, NEW b, Filled(f, b, SubWrites(T))
    PROVE  Filled(Put(f, SubOf(q), UnderlaySubInterface(EndOf(q), PeerOf(q))), b, SubWrites(T \cup {q}))
<1> DEFINE W == SubWrites(T)
           X == SubWrites(T \cup {q})
           k == SubOf(q)
           v == UnderlaySubInterface(EndOf(q), PeerOf(q))
<1>1. \A w : w \in X <=> w \in W \/ w = <<k, v>>
  BY DEF SubWrites
<1>2. ASSUME NEW w \in W, w[1] = k PROVE w[2] = v
  <2>1. PICK r \in T : w = <<SubOf(r), UnderlaySubInterface(EndOf(r), PeerOf(r))>>
    BY DEF SubWrites
  <2>2. AgreeOn(r, q) /\ EndOf(r).ep = EndOf(q).ep
    BY <1>2, <2>1 DEF SubOf, Agrees
  <2>3. QED BY <2>1, <2>2, AlikeEnds
<1> HIDE DEF W, X, k, v
<1>3. Filled(Put(f, k, v), b, X)
  BY <1>1, <1>2, FilledPut DEF W
<1>4. QED BY <1>3 DEF X, k, v

LEMMA BFDFilled ==
    ASSUME NEW T, NEW q, Agrees(T, q), NEW f, NEW b, Filled(f, b, BFDWrites(T))
    PROVE  Filled(IF HasBFD(q[1]) THEN Put(f, SubOf(q), TRUE) ELSE f, b, BFDWrites(T \cup {q}))
<1> DEFINE W == BFDWrites(T)
           X == BFDWrites(T \cup {q})
           k == SubOf(q)
<1>1. CASE HasBFD(q[1])
  <2>1. \A w : w \in X <=> w \in W \/ w = <<k, TRUE>>
    BY <1>1 DEF BFDWrites
  <2>2. ASSUME NEW w \in W PROVE w[2] = TRUE
    <3>1. PICK r \in T : w = <<SubOf(r), TRUE>>
      BY DEF BFDWrites
    <3>2. QED BY <3>1
  <2> HIDE DEF W, X, k
  <2>3. Filled(Put(f, k, TRUE), b, X)
    BY <2>1, <2>2, FilledPut DEF W
  <2>4. QED BY <1>1, <2>3 DEF X, k
<1>2. CASE ~HasBFD(q[1])
  <2>1. \A w : w \in X <=> w \in W
    BY <1>2 DEF BFDWrites
  <2> HIDE DEF W, X
  <2>2. X = W
    BY <2>1
  <2>3. QED BY <1>2, <2>2 DEF X, W
<1>3. QED BY <1>1, <1>2

LEMMA ISISInterfacesFilled ==
    ASSUME NEW T, NEW q, Agrees(T, q), NEW f, NEW b, Filled(f, b, ISISWrites(T))
    PROVE  Filled(Put(f, SubOf(q), ISISKept(ISISInterface(q[1]))), b, ISISWrites(T \cup {q}))
<1> DEFINE W == ISISWrites(T)
           X == ISISWrites(T \cup {q})
           k == SubOf(q)
           v == ISISKept(ISISInterface(q[1]))
<1>1. \A w : w \in X <=> w \in W \/ w = <<k, v>>
  BY DEF ISISWrites
<1>2. ASSUME NEW w \in W, w[1] = k PROVE w[2] = v
  <2>1. PICK r \in T : w = <<SubOf(r), ISISKept(ISISInterface(r[1]))>>
    BY DEF ISISWrites
  <2>2. AgreeOn(r, q) /\ EndOf(r).ep = EndOf(q).ep
    BY <1>2, <2>1 DEF SubOf, Agrees
  <2>3. QED BY <2>1, <2>2, AlikeEnds
<1> HIDE DEF W, X, k, v
<1>3. Filled(Put(f, k, v), b, X)
  BY <1>1, <1>2, FilledPut DEF W
<1>4. QED BY <1>3 DEF X, k, v

LEMMA AreaFilled ==
    ASSUME NEW T, NEW q, Agrees(T, q), NEW f, NEW b, Filled(f, b, AreaWrites(AreaOf(q[1]), T))
    PROVE  Filled(Put(f, SubOf(q), OSPFInterface(q[1])), b, AreaWrites(AreaOf(q[1]), T \cup {q}))
<1> DEFINE W == AreaWrites(AreaOf(q[1]), T)
           X == AreaWrites(AreaOf(q[1]), T \cup {q})
           k == SubOf(q)
           v == OSPFInterface(q[1])
<1>1. \A w : w \in X <=> w \in W \/ w = <<k, v>>
  BY DEF AreaWrites
<1>2. ASSUME NEW w \in W, w[1] = k PROVE w[2] = v
  <2>1. PICK r \in T : w = <<SubOf(r), OSPFInterface(r[1])>>
    BY DEF AreaWrites
  <2>2. AgreeOn(r, q) /\ EndOf(r).ep = EndOf(q).ep
    BY <1>2, <2>1 DEF SubOf, Agrees
  <2>3. QED BY <2>1, <2>2, AlikeEnds
<1> HIDE DEF W, X, k, v
<1>3. Filled(Put(f, k, v), b, X)
  BY <1>1, <1>2, FilledPut DEF W
<1>4. QED BY <1>3 DEF X, k, v

LEMMA GroupsFilled ==
    ASSUME NEW T, NEW q, Agrees(T, q), IsEBGPEnabled(Design), NEW f, NEW b, Filled(f, b, GroupWrites(T))
    PROVE  Filled(Put(f, "underlay", UnderlayGroup(q[1])), b, GroupWrites(T \cup {q}))
<1> DEFINE W == GroupWrites(T)
           X == GroupWrites(T \cup {q})
           v == UnderlayGroup(q[1])
<1>1. \A w : w \in X <=> w \in W \/ w = <<"underlay", v>>
  BY DEF GroupWrites
<1>2. \A w \in W : w[2] = v
  BY DEF GroupWrites, Agrees, AgreeOn, UnderlayGroup
<1> HIDE DEF W, X, v
<1>3. Filled(Put(f, "underlay", v), b, X)
  BY <1>1, <1>2, FilledPut DEF W
<1>4. QED BY <1>3 DEF X, v

LEMMA FilledFormed ==
    /\ \A o, b, T : IsOSPFEnabled(Design) /\ OSPFFormed(b) /\ OSPFFilled(o, b, T) => OSPFFormed(o)
    /\ \A i, b, T : IsISISEnabled(Design) /\ ISISFormed(b) /\ ISISFilled(i, b, T) => ISISFormed(i)
<1>1. ASSUME NEW o, NEW b, NEW T, IsOSPFEnabled(Design), OSPFFormed(b), OSPFFilled(o, b, T)
      PROVE  OSPFFormed(o)
  <2> DEFINE x == o[1]
             c == b[1]
  <2>1. DOMAIN c = {"routerID", "areas"}
    BY <1>1 DEF OSPFFormed
  <2>2. o = <<x>> /\ AllBut({"areas"}, c, x) /\ IsMap(x.areas)
    BY <1>1 DEF OSPFFilled
  <2> HIDE DEF x, c
  <2>3. IsMap(x) /\ DOMAIN x = {"routerID", "areas"}
    BY <2>1, <2>2 DEF AllBut
  <2>4. QED BY <2>2, <2>3 DEF OSPFFormed, x
<1>2. ASSUME NEW i, NEW b, NEW T, IsISISEnabled(Design), ISISFormed(b), ISISFilled(i, b, T)
      PROVE  ISISFormed(i)
  <2> DEFINE x == i[1]
             c == b[1]
  <2>1. DOMAIN c = {"level", "families", "levels", "interfaces"}
    BY <1>2 DEF ISISFormed
  <2>2. i = <<x>> /\ AllBut({"interfaces"}, c, x) /\ IsMap(x.interfaces)
    BY <1>2 DEF ISISFilled, Filled
  <2> HIDE DEF x, c
  <2>3. IsMap(x) /\ DOMAIN x = {"level", "families", "levels", "interfaces"}
    BY <2>1, <2>2 DEF AllBut
  <2>4. QED BY <2>2, <2>3 DEF ISISFormed, x
<1>3. QED BY <1>1, <1>2

LEMMA OSPFEndFilled ==
    ASSUME NEW T, NEW q, Agrees(T, q), IsOSPFEnabled(Design), NEW o, NEW b, OSPFFormed(b), OSPFFilled(o, b, T),
           NEW o2, HasAreaInterface(o[1], o2, AreaOf(q[1]), SubOf(q), OSPFInterface(q[1]))
    PROVE  OSPFFilled(<<o2>>, b, T \cup {q})
<1> DEFINE x == o[1]
           c == b[1]
           area == AreaOf(q[1])
           T2 == T \cup {q}
<1>1. /\ AllBut({"areas"}, c, x)
      /\ DOMAIN x.areas = DOMAIN c.areas \cup AreasOf(T)
      /\ \A a \in DOMAIN x.areas : Filled(x.areas[a], GetOrCreate(c.areas, a, <<>>), AreaWrites(a, T))
  BY DEF OSPFFilled
<1>2. DOMAIN c = {"routerID", "areas"}
  BY DEF OSPFFormed
<1> HIDE DEF x, c
<1>3. x.routerID = c.routerID
  BY <1>1, <1>2 DEF AllBut
<1>4. AllBut({"areas"}, c, o2) /\ IsMap(o2.areas)
  BY <1>2, <1>3 DEF HasAreaInterface, AllBut, x
<1>5. /\ \A a : a \in DOMAIN o2.areas <=> a \in DOMAIN x.areas \/ a = area
      /\ \A a \in DOMAIN x.areas : a # area => o2.areas[a] = x.areas[a]
      /\ o2.areas[area] = Put(GetOrCreate(x.areas, area, <<>>), SubOf(q), OSPFInterface(q[1]))
  BY DEF HasAreaInterface, x
<1>6. \A a : a \in AreasOf(T2) <=> a \in AreasOf(T) \/ a = area
  BY DEF AreasOf
<1>7. DOMAIN o2.areas = DOMAIN c.areas \cup AreasOf(T2)
  <2>1. \A a : a \in DOMAIN o2.areas <=> a \in DOMAIN c.areas \/ a \in AreasOf(T2)
    BY <1>1, <1>5, <1>6
  <2>2. QED BY <2>1
<1>8. ASSUME NEW a \in DOMAIN o2.areas
      PROVE  Filled(o2.areas[a], GetOrCreate(c.areas, a, <<>>), AreaWrites(a, T2))
  <2>1. CASE a # area
    <3>1. \A w : w \in AreaWrites(a, T2) <=> w \in AreaWrites(a, T)
      BY <2>1 DEF AreaWrites
    <3>2. AreaWrites(a, T2) = AreaWrites(a, T)
      BY <3>1
    <3>3. QED BY <1>1, <1>5, <2>1, <3>2
  <2>2. CASE a = area
    <3> DEFINE f == GetOrCreate(x.areas, area, <<>>)
               g == GetOrCreate(c.areas, area, <<>>)
    <3>1. Filled(f, g, AreaWrites(area, T))
      <4>1. CASE area \in DOMAIN x.areas
        <5>1. f = x.areas[area]
          BY <4>1 DEF GetOrCreate
        <5>2. QED BY <1>1, <4>1, <5>1
      <4>2. CASE area \notin DOMAIN x.areas
        <5>1. f = <<>> /\ g = <<>> /\ area \notin AreasOf(T)
          BY <1>1, <4>2 DEF GetOrCreate
        <5>2. AreaWrites(area, T) = {}
          BY <5>1 DEF AreaWrites, AreasOf
        <5> HIDE DEF f, g, area
        <5>3. QED BY <5>1, <5>2, EmptyMap, FilledNone
      <4>3. QED BY <4>1, <4>2
    <3> HIDE DEF f, g
    <3>2. Filled(Put(f, SubOf(q), OSPFInterface(q[1])), g, AreaWrites(area, T2))
      BY <3>1, AreaFilled
    <3>3. QED BY <1>5, <2>2, <3>2 DEF f, g
  <2>3. QED BY <2>1, <2>2
<1>9. OSPFFilled(<<o2>>, b, T2)
  BY <1>4, <1>7, <1>8 DEF OSPFFilled, c
<1>10. QED BY <1>9

LEMMA ISISEndFilled ==
    ASSUME NEW T, NEW q, Agrees(T, q), IsISISEnabled(Design), NEW i, NEW b, ISISFilled(i, b, T),
           NEW i2, AllBut({"interfaces"}, i[1], i2),
           i2.interfaces = Put(i[1].interfaces, SubOf(q), ISISKept(ISISInterface(q[1])))
    PROVE  ISISFilled(<<i2>>, b, T \cup {q})
<1>1. AllBut({"interfaces"}, b[1], i[1]) /\ Filled(i[1].interfaces, b[1].interfaces, ISISWrites(T))
  BY DEF ISISFilled
<1>2. AllBut({"interfaces"}, b[1], i2)
  BY <1>1, AllButTwice
<1>3. Filled(i2.interfaces, b[1].interfaces, ISISWrites(T \cup {q}))
  BY <1>1, ISISInterfacesFilled
<1>4. QED BY <1>2, <1>3 DEF ISISFilled

-----------------------------------------------------------------------------
(* The EBGP sessions of an end.                                            *)

NeighborSessions(q, A) ==
    {<<NeighborKey(q, af), EBGPNeighbor(EndOf(q), PeerOf(q), q[1], af)>> : af \in A \cap NumberedFamilies(Design)}
DynamicSessions(q, A) == {<<SubOf(q), ASOf(PeerOf(q))>> : af \in A \ NumberedFamilies(Design)}

EnabledFamilies ==
    {af \in {"ipv4"} : IsUnderlayIPv4Enabled(Design)} \cup {af \in {"ipv6"} : IsUnderlayIPv6Enabled(Design)}

\* g is b with the neighbors in N and the dynamic neighbors in D.
SessionsFilled(g, b, N, D) ==
    /\ Filled(g.neighbors, b.neighbors, N)
    /\ Filled(g.dynamicNeighbors, b.dynamicNeighbors, D)

LEMMA NeighborsAgree ==
    ASSUME NEW T, NEW q, Agrees(T, q), NEW af, NEW w \in NeighborWrites(T \cup {q}), w[1] = NeighborKey(q, af)
    PROVE  w[2] = EBGPNeighbor(EndOf(q), PeerOf(q), q[1], af)
<1>1. PICK r \in T \cup {q} : \E af2 \in EBGPFamilies :
         w = <<NeighborKey(r, af2), EBGPNeighbor(EndOf(r), PeerOf(r), r[1], af2)>>
  BY DEF NeighborWrites
<1>2. PICK af2 : w = <<NeighborKey(r, af2), EBGPNeighbor(EndOf(r), PeerOf(r), r[1], af2)>>
  BY <1>1
<1>3. PeerOf(r).node = PeerOf(q).node /\ PeerOf(r).ep = PeerOf(q).ep /\ af2 = af
  BY <1>2 DEF NeighborKey
<1>4. CASE r = q
  BY <1>2, <1>3, <1>4
<1>5. CASE r \in T
  <2>1. AgreeOn(r, q)
    BY <1>5 DEF Agrees
  <2>2. QED BY <1>2, <1>3, <2>1, AlikePeers
<1>6. QED BY <1>1, <1>4, <1>5

LEMMA DynamicAgree ==
    ASSUME NEW T, NEW q, Agrees(T, q), NEW w \in DynamicWrites(T \cup {q}), w[1] = SubOf(q)
    PROVE  w[2] = ASOf(PeerOf(q))
<1>1. PICK r \in T \cup {q} : w = <<SubOf(r), ASOf(PeerOf(r))>>
  BY DEF DynamicWrites
<1>2. CASE r = q
  BY <1>1, <1>2
<1>3. CASE r \in T
  <2>1. AgreeOn(r, q) /\ EndOf(r).ep = EndOf(q).ep
    BY <1>1, <1>3 DEF Agrees, SubOf
  <2>2. QED BY <1>1, <2>1, AlikeEnds
<1>4. QED BY <1>1, <1>2, <1>3

\* One session.
LEMMA SessionFilled ==
    ASSUME NEW T, NEW q, Agrees(T, q), NEW d, Formed(d), NEW b, NEW N, NEW D, NEW af,
           N \subseteq NeighborWrites(T \cup {q}), D \subseteq DynamicWrites(T \cup {q}),
           SessionsFilled(DefaultInstance(d).bgp, b, N, D)
    PROVE  LET d2 == UpdateUnderlayEBGPSession(d, EndOf(q), PeerOf(q), q[1], af)
           IN  /\ Touched({"instances"}, {"bgp"}, {"neighbors", "dynamicNeighbors"}, d, d2)
               /\ SessionsFilled(DefaultInstance(d2).bgp, b, N \cup NeighborSessions(q, {af}),
                                 D \cup DynamicSessions(q, {af}))
<1> DEFINE d2 == UpdateUnderlayEBGPSession(d, EndOf(q), PeerOf(q), q[1], af)
           g == DefaultInstance(d).bgp
           x == EBGPNeighbor(EndOf(q), PeerOf(q), q[1], af)
           N2 == N \cup NeighborSessions(q, {af})
           D2 == D \cup DynamicSessions(q, {af})
<1>1. DOMAIN g = DOMAIN NewBGP
  BY DEF Formed, FormedInstance
<1>2. CASE af \in NumberedFamilies(Design)
  <2>1. d2 = AddBGPNeighbor(d, DefaultNetwork, x)
    BY <1>2 DEF UpdateUnderlayEBGPSession
  <2>2. x.peer = NeighborKey(q, af) /\ x.peer # <<>>
    BY <1>2 DEF EBGPNeighbor, AddressOf, NeighborKey
  <2>3. \A w : w \in N2 <=> w \in N \/ w = <<x.peer, x>>
    BY <1>2, <2>2 DEF NeighborSessions
  <2>4. D2 = D
    BY <1>2 DEF DynamicSessions
  <2>5. \A w \in N : w[1] = x.peer => w[2] = x
    BY <2>2, NeighborsAgree
  <2> HIDE DEF d2, g, x, N2, D2
  <2>6. /\ Touched({"instances"}, {"bgp"}, {"neighbors"}, d, d2)
        /\ DefaultInstance(d2).bgp.neighbors = Put(g.neighbors, x.peer, x)
    BY <2>1, <2>2, OnBGP DEF g
  <2>7. AllBut({"neighbors"}, g, DefaultInstance(d2).bgp)
    BY <2>6 DEF Touched, g
  <2>8. Filled(DefaultInstance(d2).bgp.neighbors, b.neighbors, N2)
    BY <2>3, <2>5, <2>6, FilledPut DEF SessionsFilled, g
  <2>9. DefaultInstance(d2).bgp.dynamicNeighbors = g.dynamicNeighbors
    BY <1>1, <2>7 DEF AllBut, NewBGP
  <2>10. SessionsFilled(DefaultInstance(d2).bgp, b, N2, D2)
    BY <2>4, <2>8, <2>9 DEF SessionsFilled, g
  <2>11. Touched({"instances"}, {"bgp"}, {"neighbors", "dynamicNeighbors"}, d, d2)
    BY <2>6 DEF Touched, AllBut
  <2>12. QED BY <2>10, <2>11 DEF d2, N2, D2
<1>3. CASE af \notin NumberedFamilies(Design)
  <2> DEFINE v == ASOf(PeerOf(q))
             k == SubOf(q)
  <2>1. d2 = AddBGPDynamicNeighbor(d, DefaultNetwork, k, v)
    BY <1>3 DEF UpdateUnderlayEBGPSession, SubOf
  <2>3. \A w : w \in D2 <=> w \in D \/ w = <<k, v>>
    BY <1>3 DEF DynamicSessions
  <2>4. N2 = N
    BY <1>3 DEF NeighborSessions
  <2>5. \A w \in D : w[1] = k => w[2] = v
    BY DynamicAgree
  <2> HIDE DEF d2, g, v, k, N2, D2
  <2>2. \A k2, x2 :
           LET e == AddBGPDynamicNeighbor(d, DefaultNetwork, k2, x2)
           IN  /\ Touched({"instances"}, {"bgp"}, {"dynamicNeighbors"}, d, e)
               /\ DefaultInstance(e).bgp.dynamicNeighbors = Put(DefaultInstance(d).bgp.dynamicNeighbors, k2, x2)
    BY OnBGP
  <2>6. /\ Touched({"instances"}, {"bgp"}, {"dynamicNeighbors"}, d, d2)
        /\ DefaultInstance(d2).bgp.dynamicNeighbors = Put(g.dynamicNeighbors, k, v)
    BY <2>1, <2>2 DEF g
  <2>7. AllBut({"dynamicNeighbors"}, g, DefaultInstance(d2).bgp)
    BY <2>6 DEF Touched, g
  <2>8. Filled(DefaultInstance(d2).bgp.dynamicNeighbors, b.dynamicNeighbors, D2)
    BY <2>3, <2>5, <2>6, FilledPut DEF SessionsFilled, g
  <2>9. DefaultInstance(d2).bgp.neighbors = g.neighbors
    BY <1>1, <2>7 DEF AllBut, NewBGP
  <2>10. SessionsFilled(DefaultInstance(d2).bgp, b, N2, D2)
    BY <2>4, <2>8, <2>9 DEF SessionsFilled, g
  <2>11. Touched({"instances"}, {"bgp"}, {"neighbors", "dynamicNeighbors"}, d, d2)
    BY <2>6 DEF Touched, AllBut
  <2>12. QED BY <2>10, <2>11 DEF d2, N2, D2
<1>4. QED BY <1>2, <1>3

LEMMA EndSessions ==
    ASSUME IsEBGPEnabled(Design), NEW T, NEW q
    PROVE  /\ \A w : w \in NeighborWrites(T \cup {q}) <=>
                        w \in NeighborWrites(T) \/ w \in NeighborSessions(q, EnabledFamilies)
           /\ \A w : w \in DynamicWrites(T \cup {q}) <=>
                        w \in DynamicWrites(T) \/ w \in DynamicSessions(q, EnabledFamilies)
<1>1. EBGPFamilies = EnabledFamilies \cap NumberedFamilies(Design)
  BY DEF EBGPFamilies, EnabledFamilies, NumberedFamilies, IsUnderlayIPv4Numbered, IsUnderlayIPv4Enabled,
         IsUnderlayIPv6Numbered, IsUnderlayIPv6Enabled
<1>2. IsDynamic <=> EnabledFamilies \ NumberedFamilies(Design) # {}
  BY DEF IsDynamic, EnabledFamilies
<1>3. \A w : w \in NeighborWrites(T \cup {q}) <=>
                w \in NeighborWrites(T) \/ w \in NeighborSessions(q, EnabledFamilies)
  BY <1>1 DEF NeighborWrites, NeighborSessions
<1>4. \A w : w \in DynamicWrites(T \cup {q}) <=>
                w \in DynamicWrites(T) \/ w \in DynamicSessions(q, EnabledFamilies)
  BY <1>2 DEF DynamicWrites, DynamicSessions
<1>5. QED BY <1>3, <1>4

\* The sessions of an end, and the peer group.
LEMMA EBGPEndFilled ==
    ASSUME IsEBGPEnabled(Design), NEW T, NEW q, Agrees(T, q), NEW d, Formed(d), NEW b,
           BGPFilled(DefaultInstance(d).bgp, b, T)
    PROVE  LET d2 == UpdateUnderlayEBGPInterface(d, EndOf(q), PeerOf(q), q[1])
           IN  /\ Touched({"instances"}, {"bgp"}, {"neighbors", "dynamicNeighbors", "peerGroups"}, d, d2)
               /\ BGPFilled(DefaultInstance(d2).bgp, b, T \cup {q})
<1> DEFINE d1 == IF IsUnderlayIPv4Enabled(Design)
                 THEN UpdateUnderlayEBGPSession(d, EndOf(q), PeerOf(q), q[1], "ipv4") ELSE d
           d2 == IF IsUnderlayIPv6Enabled(Design)
                 THEN UpdateUnderlayEBGPSession(d1, EndOf(q), PeerOf(q), q[1], "ipv6") ELSE d1
           d3 == AddBGPPeerGroup(d2, DefaultNetwork, "underlay", UnderlayGroup(q[1]))
           A1 == {af \in {"ipv4"} : IsUnderlayIPv4Enabled(Design)}
           N == NeighborWrites(T)
           D == DynamicWrites(T)
           N1 == N \cup NeighborSessions(q, A1)
           D1 == D \cup DynamicSessions(q, A1)
           N2 == NeighborWrites(T \cup {q})
           D2 == DynamicWrites(T \cup {q})
           S == {"neighbors", "dynamicNeighbors"}
<1>1. UpdateUnderlayEBGPInterface(d, EndOf(q), PeerOf(q), q[1]) = d3
  BY DEF UpdateUnderlayEBGPInterface, UnderlayGroup
<1>2. /\ N1 \subseteq N2 /\ D1 \subseteq D2 /\ N \subseteq N2 /\ D \subseteq D2
      /\ N2 = N1 \cup NeighborSessions(q, {af \in {"ipv6"} : IsUnderlayIPv6Enabled(Design)})
      /\ D2 = D1 \cup DynamicSessions(q, {af \in {"ipv6"} : IsUnderlayIPv6Enabled(Design)})
  <2>1. \A w : w \in NeighborSessions(q, EnabledFamilies) <=>
                  \/ w \in NeighborSessions(q, A1)
                  \/ w \in NeighborSessions(q, {af \in {"ipv6"} : IsUnderlayIPv6Enabled(Design)})
    BY DEF NeighborSessions, EnabledFamilies
  <2>2. \A w : w \in DynamicSessions(q, EnabledFamilies) <=>
                  \/ w \in DynamicSessions(q, A1)
                  \/ w \in DynamicSessions(q, {af \in {"ipv6"} : IsUnderlayIPv6Enabled(Design)})
    BY DEF DynamicSessions, EnabledFamilies
  <2> HIDE DEF A1
  <2>3. /\ \A w : w \in N2 <=> w \in N \/ w \in NeighborSessions(q, EnabledFamilies)
        /\ \A w : w \in D2 <=> w \in D \/ w \in DynamicSessions(q, EnabledFamilies)
    BY EndSessions
  <2> HIDE DEF N, D, N2, D2
  <2>4. QED BY <2>1, <2>2, <2>3
<1>3. SessionsFilled(DefaultInstance(d).bgp, b, N, D)
  BY DEF BGPFilled, SessionsFilled
<1>4. Touched({"instances"}, {"bgp"}, S, d, d1) /\ SessionsFilled(DefaultInstance(d1).bgp, b, N1, D1)
  <2>1. CASE IsUnderlayIPv4Enabled(Design)
    <3>1. A1 = {"ipv4"} /\ d1 = UpdateUnderlayEBGPSession(d, EndOf(q), PeerOf(q), q[1], "ipv4")
      BY <2>1
    <3> HIDE DEF A1, d1, N, D
    <3>2. QED BY <1>2, <1>3, <3>1, SessionFilled
  <2>2. CASE ~IsUnderlayIPv4Enabled(Design)
    <3>1. A1 = {} /\ d1 = d
      BY <2>2
    <3>2. N1 = N /\ D1 = D
      BY <3>1 DEF NeighborSessions, DynamicSessions
    <3> HIDE DEF A1, d1, N, D, N1, D1
    <3>3. QED BY <1>3, <3>1, <3>2, Untouched
  <2>3. QED BY <2>1, <2>2
<1> HIDE DEF d1
<1>5. Touched({"instances"}, {"bgp"}, S, d1, d2) /\ SessionsFilled(DefaultInstance(d2).bgp, b, N2, D2)
  <2>0. Formed(d1)
    BY <1>4 DEF Touched
  <2>1. CASE IsUnderlayIPv6Enabled(Design)
    <3>1. /\ d2 = UpdateUnderlayEBGPSession(d1, EndOf(q), PeerOf(q), q[1], "ipv6")
          /\ {af \in {"ipv6"} : IsUnderlayIPv6Enabled(Design)} = {"ipv6"}
      BY <2>1
    <3>2. N2 = N1 \cup NeighborSessions(q, {"ipv6"}) /\ D2 = D1 \cup DynamicSessions(q, {"ipv6"})
      BY <1>2, <3>1
    <3> HIDE DEF A1, d2, d3, N, D, N1, D1
    <3>3. /\ Touched({"instances"}, {"bgp"}, {"neighbors", "dynamicNeighbors"}, d1, d2)
          /\ SessionsFilled(DefaultInstance(d2).bgp, b, N1 \cup NeighborSessions(q, {"ipv6"}),
                            D1 \cup DynamicSessions(q, {"ipv6"}))
      BY <1>2, <1>4, <2>0, <3>1, SessionFilled
    <3> HIDE DEF N2, D2
    <3>4. QED BY <3>2, <3>3
  <2>2. CASE ~IsUnderlayIPv6Enabled(Design)
    <3>1. {af \in {"ipv6"} : IsUnderlayIPv6Enabled(Design)} = {} /\ d2 = d1
      BY <2>2
    <3>2. /\ NeighborSessions(q, {af \in {"ipv6"} : IsUnderlayIPv6Enabled(Design)}) = {}
          /\ DynamicSessions(q, {af \in {"ipv6"} : IsUnderlayIPv6Enabled(Design)}) = {}
      BY <3>1 DEF NeighborSessions, DynamicSessions
    <3> HIDE DEF A1, d2, N1, D1, N2, D2
    <3>3. N2 = N1 /\ D2 = D1
      BY <1>2, <3>2
    <3>4. QED BY <1>4, <2>0, <3>1, <3>3, Untouched
  <2>3. QED BY <2>1, <2>2
<1> HIDE DEF d2, N, D, N1, D1, N2, D2, A1
<1>6. \A k, x : LET e == AddBGPPeerGroup(d2, DefaultNetwork, k, x)
                IN  /\ Touched({"instances"}, {"bgp"}, {"peerGroups"}, d2, e)
                    /\ DefaultInstance(e).bgp.peerGroups = Put(DefaultInstance(d2).bgp.peerGroups, k, x)
  <2>1. Formed(d2)
    BY <1>5 DEF Touched
  <2>2. QED BY <2>1, OnBGP
<1>7. /\ Touched({"instances"}, {"bgp"}, {"peerGroups"}, d2, d3)
      /\ DefaultInstance(d3).bgp.peerGroups
            = Put(DefaultInstance(d2).bgp.peerGroups, "underlay", UnderlayGroup(q[1]))
  BY <1>6
<1> HIDE DEF d3
<1>8. Touched({"instances"}, {"bgp"}, S, d, d2)
  BY <1>4, <1>5, TouchedTwice
<1>9. Touched({"instances"}, {"bgp"}, {"neighbors", "dynamicNeighbors", "peerGroups"}, d, d3)
  BY <1>7, <1>8, TouchedTwice
<1>10. BGPFilled(DefaultInstance(d3).bgp, b, T \cup {q})
  <2> DEFINE g == DefaultInstance(d).bgp
             g2 == DefaultInstance(d2).bgp
             g3 == DefaultInstance(d3).bgp
  <2>1. DOMAIN g = DOMAIN NewBGP
    BY DEF Formed, FormedInstance
  <2>2. AllBut(S, g, g2) /\ AllBut({"peerGroups"}, g2, g3)
        /\ AllBut({"neighbors", "dynamicNeighbors", "peerGroups"}, g, g3)
    BY <1>7, <1>8, <1>9 DEF Touched
  <2>3. Filled(g2.neighbors, b.neighbors, N2) /\ Filled(g2.dynamicNeighbors, b.dynamicNeighbors, D2)
    BY <1>5 DEF SessionsFilled
  <2>4. g3.peerGroups = Put(g2.peerGroups, "underlay", UnderlayGroup(q[1]))
    BY <1>7
  <2>5. /\ AllBut({"neighbors", "dynamicNeighbors", "peerGroups"}, b, g)
        /\ Filled(g.peerGroups, b.peerGroups, GroupWrites(T))
    BY DEF BGPFilled
  <2> HIDE DEF g, g2, g3, S
  <2>6. g2.peerGroups = g.peerGroups
    BY <2>1, <2>2 DEF AllBut, NewBGP, S
  <2>7. g3.neighbors = g2.neighbors /\ g3.dynamicNeighbors = g2.dynamicNeighbors
    BY <2>1, <2>2 DEF AllBut, NewBGP
  <2>8. AllBut({"neighbors", "dynamicNeighbors", "peerGroups"}, b, g3)
    BY <2>2, <2>5, AllButTwice
  <2>9. Filled(g3.peerGroups, b.peerGroups, GroupWrites(T \cup {q}))
    BY <2>4, <2>5, <2>6, GroupsFilled
  <2>10. BGPFilled(g3, b, T \cup {q})
    BY <2>3, <2>7, <2>8, <2>9 DEF BGPFilled, N2, D2
  <2>11. QED BY <2>10 DEF g3
<1>11. QED BY <1>1, <1>9, <1>10

-----------------------------------------------------------------------------
(* An end on its device.                                                   *)

LEMMA SubInterfaceAdded ==
    ASSUME NEW d, Formed(d), NEW si, NEW x, x.vlan = <<>>, si[1] \in DOMAIN d.interfaces,
           d.interfaces[si[1]] = Untagged
    PROVE  LET d2 == AddSubInterface(d, si, x)
           IN  /\ Touched({"interfaces", "subInterfaces"}, {}, {}, d, d2)
               /\ d2.interfaces = Put(d.interfaces, si[1], Untagged)
               /\ d2.subInterfaces = Put(d.subInterfaces, si, x)
<1> DEFINE d2 == AddSubInterface(d, si, x)
           is == Put(d.interfaces, si[1], Untagged)
           ss == Put(d.subInterfaces, si, x)
<1>1. GetOrCreate(d.interfaces, si[1], [vlanTagging |-> FALSE]) = Untagged
  BY DEF GetOrCreate
<1>2. [vlanTagging |-> Untagged.vlanTagging \/ x.vlan # <<>>] = Untagged
  BY DEF Untagged
<1>3. d2 = [d EXCEPT !.interfaces = is, !.subInterfaces = ss]
  BY <1>1, <1>2 DEF AddSubInterface
<1> HIDE DEF d2, is, ss
<1>4. /\ AllBut({"interfaces", "subInterfaces"}, d, d2)
      /\ d2.interfaces = is /\ d2.subInterfaces = ss
  BY <1>3 DEF AllBut, Formed, NewDevice, IsMap
<1>5. QED BY <1>4, DeviceTouched DEF d2, is, ss

\* The IGPs of the base configuration b are there.
Ready(b) ==
    /\ Formed(b)
    /\ IsOSPFEnabled(Design) => OSPFFormed(DefaultInstance(b).ospf)
    /\ IsISISEnabled(Design) => ISISFormed(DefaultInstance(b).isis)

LEMMA OSPFStage ==
    ASSUME NEW T, NEW q, Agrees(T, q), NEW b, Ready(b), NEW d, Formed(d),
           OSPFFilled(DefaultInstance(d).ospf, DefaultInstance(b).ospf, T)
    PROVE  LET d2 == IF IsOSPFEnabled(Design) THEN UpdateUnderlayOSPFInterface(d, EndOf(q), q[1]) ELSE d
           IN  /\ Touched({"instances"}, {"ospf"}, {}, d, d2)
               /\ OSPFFilled(DefaultInstance(d2).ospf, DefaultInstance(b).ospf, T \cup {q})
<1> DEFINE d2 == IF IsOSPFEnabled(Design) THEN UpdateUnderlayOSPFInterface(d, EndOf(q), q[1]) ELSE d
<1>1. CASE IsOSPFEnabled(Design)
  <2>1. d2 = AddOSPFAreaInterface(AddOSPFArea(d, DefaultNetwork, AreaOf(q[1])), DefaultNetwork, AreaOf(q[1]),
                                  SubOf(q), OSPFInterface(q[1]))
    BY <1>1 DEF UpdateUnderlayOSPFInterface, AreaOf, SubOf, OSPFInterface
  <2> HIDE DEF d2
  <2>2. OSPFFormed(DefaultInstance(d).ospf)
    BY <1>1, FilledFormed DEF Ready
  <2>3. Touched({"instances"}, {"ospf"}, {}, d, d2)
    BY <2>1, <2>2, OSPFInterfaceAdded
  <2>4. PICK o2 : /\ DefaultInstance(d2).ospf = <<o2>>
                  /\ HasAreaInterface(DefaultInstance(d).ospf[1], o2, AreaOf(q[1]), SubOf(q),
                                      OSPFInterface(q[1]))
    BY <2>1, <2>2, OSPFInterfaceAdded
  <2>5. OSPFFilled(<<o2>>, DefaultInstance(b).ospf, T \cup {q})
    BY <1>1, <2>4, OSPFEndFilled DEF Ready
  <2>6. QED BY <2>3, <2>4, <2>5 DEF d2
<1>2. CASE ~IsOSPFEnabled(Design)
  <2>1. d2 = d
    BY <1>2
  <2>2. OSPFFilled(DefaultInstance(d).ospf, DefaultInstance(b).ospf, T \cup {q})
    BY <1>2 DEF OSPFFilled
  <2> HIDE DEF d2
  <2>3. QED BY <2>1, <2>2, Untouched DEF d2
<1>3. QED BY <1>1, <1>2

LEMMA ISISStage ==
    ASSUME NEW T, NEW q, Agrees(T, q), NEW b, Ready(b), NEW d, Formed(d),
           ISISFilled(DefaultInstance(d).isis, DefaultInstance(b).isis, T)
    PROVE  LET d2 == IF IsISISEnabled(Design) THEN UpdateUnderlayISISInterface(d, EndOf(q), q[1]) ELSE d
           IN  /\ Touched({"instances"}, {"isis"}, {}, d, d2)
               /\ ISISFilled(DefaultInstance(d2).isis, DefaultInstance(b).isis, T \cup {q})
<1> DEFINE d2 == IF IsISISEnabled(Design) THEN UpdateUnderlayISISInterface(d, EndOf(q), q[1]) ELSE d
<1>1. CASE IsISISEnabled(Design)
  <2>1. d2 = AddISISInterface(d, DefaultNetwork, SubOf(q), ISISInterface(q[1]))
    BY <1>1 DEF UpdateUnderlayISISInterface, SubOf
  <2> HIDE DEF d2
  <2>2. ISISFormed(DefaultInstance(d).isis)
    BY <1>1, FilledFormed DEF Ready
  <2>3. Touched({"instances"}, {"isis"}, {}, d, d2)
    BY <2>1, <2>2, ISISInterfaceAdded
  <2>4. PICK i2 : /\ DefaultInstance(d2).isis = <<i2>>
                  /\ AllBut({"interfaces"}, DefaultInstance(d).isis[1], i2)
                  /\ i2.interfaces = Put(DefaultInstance(d).isis[1].interfaces, SubOf(q),
                                         ISISKept(ISISInterface(q[1])))
    BY <2>1, <2>2, ISISInterfaceAdded
  <2>5. ISISFilled(<<i2>>, DefaultInstance(b).isis, T \cup {q})
    BY <1>1, <2>4, ISISEndFilled
  <2>6. QED BY <2>3, <2>4, <2>5 DEF d2
<1>2. CASE ~IsISISEnabled(Design)
  <2>1. d2 = d
    BY <1>2
  <2>2. ISISFilled(DefaultInstance(d).isis, DefaultInstance(b).isis, T \cup {q})
    BY <1>2 DEF ISISFilled
  <2> HIDE DEF d2
  <2>3. QED BY <2>1, <2>2, Untouched DEF d2
<1>3. QED BY <1>1, <1>2

LEMMA EBGPStage ==
    ASSUME NEW T, NEW q, Agrees(T, q), NEW b, NEW d, Formed(d), BGPFilled(DefaultInstance(d).bgp, b, T)
    PROVE  LET d2 == IF IsEBGPEnabled(Design)
                     THEN UpdateUnderlayEBGPInterface(d, EndOf(q), PeerOf(q), q[1]) ELSE d
           IN  /\ Touched({"instances"}, {"bgp"}, {"neighbors", "dynamicNeighbors", "peerGroups"}, d, d2)
               /\ BGPFilled(DefaultInstance(d2).bgp, b, T \cup {q})
<1> DEFINE d2 == IF IsEBGPEnabled(Design)
                 THEN UpdateUnderlayEBGPInterface(d, EndOf(q), PeerOf(q), q[1]) ELSE d
<1>1. CASE IsEBGPEnabled(Design)
  BY <1>1, EBGPEndFilled
<1>2. CASE ~IsEBGPEnabled(Design)
  <2>1. d2 = d
    BY <1>2
  <2>2. /\ \A S : NeighborWrites(S) = {}
        /\ \A S : DynamicWrites(S) = {}
        /\ \A S : GroupWrites(S) = {}
    BY <1>2 DEF NeighborWrites, DynamicWrites, GroupWrites, EBGPFamilies, IsDynamic
  <2>3. BGPFilled(DefaultInstance(d).bgp, b, T \cup {q})
    BY <2>2 DEF BGPFilled
  <2> HIDE DEF d2
  <2>4. QED BY <2>1, <2>3, Untouched DEF d2
<1>3. QED BY <1>1, <1>2

LEMMA BFDStage ==
    ASSUME NEW T, NEW q, Agrees(T, q), NEW b, NEW d, Formed(d), Filled(d.bfd, b, BFDWrites(T))
    PROVE  LET d2 == UpdateUnderlayBFDInterface(d, EndOf(q), q[1])
           IN  Touched({"bfd"}, {}, {}, d, d2) /\ Filled(d2.bfd, b, BFDWrites(T \cup {q}))
<1> DEFINE d2 == UpdateUnderlayBFDInterface(d, EndOf(q), q[1])
<1>1. d2 = IF HasBFD(q[1]) THEN AddBFDInterface(d, SubOf(q), TRUE) ELSE d
  BY DEF UpdateUnderlayBFDInterface, HasBFD, SubOf
<1> HIDE DEF d2
<1>2. Filled(IF HasBFD(q[1]) THEN Put(d.bfd, SubOf(q), TRUE) ELSE d.bfd, b, BFDWrites(T \cup {q}))
  BY BFDFilled
<1>3. CASE HasBFD(q[1])
  <2>1. d2 = AddBFDInterface(d, SubOf(q), TRUE)
    BY <1>1, <1>3
  <2>2. \A si, x : /\ Touched({"bfd"}, {}, {}, d, AddBFDInterface(d, si, x))
                   /\ AddBFDInterface(d, si, x).bfd = Put(d.bfd, si, x)
    BY OnDevice
  <2>3. Touched({"bfd"}, {}, {}, d, d2) /\ d2.bfd = Put(d.bfd, SubOf(q), TRUE)
    BY <2>1, <2>2
  <2>4. QED BY <1>2, <1>3, <2>3 DEF d2
<1>4. CASE ~HasBFD(q[1])
  BY <1>1, <1>2, <1>4, Untouched DEF d2
<1>5. QED BY <1>3, <1>4

LEMMA FilledDeviceFormed ==
    ASSUME NEW b, Formed(b), NEW T, NEW d, DeviceFilled(d, b, T) PROVE Formed(d)
<1> DEFINE c == DefaultInstance(b)
           ni == DefaultInstance(d)
<1>1. IsMap(d) /\ DOMAIN d = DOMAIN NewDevice /\ IsMap(d.instances) /\ DOMAIN d.instances = {DefaultNetwork}
  BY DEF DeviceFilled, AllBut, Formed
<1>2. DOMAIN c = DOMAIN NewNetworkInstance /\ DOMAIN c.bgp = DOMAIN NewBGP
  BY DEF Formed, FormedInstance
<1>3. InstanceFilled(ni, c, T)
  BY DEF DeviceFilled
<1> HIDE DEF c, ni
<1>4. IsMap(ni) /\ DOMAIN ni = DOMAIN c /\ IsMap(ni.bgp) /\ DOMAIN ni.bgp = DOMAIN c.bgp
  BY <1>3 DEF InstanceFilled, BGPFilled, AllBut
<1>5. FormedInstance(ni)
  BY <1>2, <1>4 DEF FormedInstance
<1>6. QED BY <1>1, <1>5 DEF Formed, ni

\* The sub-interface of an end, in its instance.
LEMMA SubStage ==
    ASSUME NEW T, NEW q, Agrees(T, q), NEW b, Ready(b), NEW d, Formed(d), DeviceFilled(d, b, T)
    PROVE  LET d0 == AddInterface(d, EndOf(q).ep)
               d1 == AddSubInterface(d0, SubOf(q), UnderlaySubInterface(EndOf(q), PeerOf(q)))
               d2 == AddNetworkInstanceSubInterface(d1, DefaultNetwork, SubOf(q))
           IN  /\ Touched({"interfaces", "subInterfaces", "instances"}, {"interfaces"}, {}, d, d2)
               /\ Filled(d2.interfaces, b.interfaces, InterfaceWrites(T \cup {q}))
               /\ Filled(d2.subInterfaces, b.subInterfaces, SubWrites(T \cup {q}))
               /\ DefaultInstance(d2).interfaces = Adjoin(DefaultInstance(d).interfaces, SubOf(q))
<1> DEFINE k == EndOf(q).ep
           si == SubOf(q)
           x == UnderlaySubInterface(EndOf(q), PeerOf(q))
           d0 == AddInterface(d, k)
           d1 == AddSubInterface(d0, si, x)
           d2 == AddNetworkInstanceSubInterface(d1, DefaultNetwork, si)
<1>1. si[1] = k /\ x.vlan = <<>>
  BY DEF SubOf, UnderlaySubInterface
<1>2. Filled(d.interfaces, b.interfaces, InterfaceWrites(T)) /\ Filled(d.subInterfaces, b.subInterfaces, SubWrites(T))
  BY DEF DeviceFilled
<1>3. /\ Filled(Put(Put(d.interfaces, k, Untagged), k, Untagged), b.interfaces, InterfaceWrites(T \cup {q}))
      /\ Filled(Put(d.subInterfaces, si, x), b.subInterfaces, SubWrites(T \cup {q}))
  BY <1>2, InterfacesFilled, SubsFilled
<1> HIDE DEF k, si, x, d0, d1, d2
<1>4. Touched({"interfaces"}, {}, {}, d, d0) /\ d0.interfaces = Put(d.interfaces, k, Untagged)
  <2>1. \A y : /\ Touched({"interfaces"}, {}, {}, d, AddInterface(d, y))
               /\ AddInterface(d, y).interfaces = Put(d.interfaces, y, Untagged)
    BY OnDevice
  <2>2. QED BY <2>1 DEF d0
<1>5. Formed(d0) /\ d0.subInterfaces = d.subInterfaces
  BY <1>4 DEF Touched, AllBut, Formed, NewDevice
<1>6. k \in DOMAIN d0.interfaces /\ d0.interfaces[k] = Untagged
  BY <1>4, PutMap
<1>7. /\ Touched({"interfaces", "subInterfaces"}, {}, {}, d0, d1)
      /\ d1.interfaces = Put(d0.interfaces, k, Untagged)
      /\ d1.subInterfaces = Put(d0.subInterfaces, si, x)
  BY <1>1, <1>5, <1>6, SubInterfaceAdded DEF d1
<1>8. Formed(d1)
  BY <1>7 DEF Touched
<1>9. /\ Touched({"instances"}, {"interfaces"}, {}, d1, d2)
      /\ DefaultInstance(d2).interfaces = Adjoin(DefaultInstance(d1).interfaces, si)
  <2>1. \A y : LET e == AddNetworkInstanceSubInterface(d1, DefaultNetwork, y)
               IN  /\ Touched({"instances"}, {"interfaces"}, {}, d1, e)
                   /\ DefaultInstance(e).interfaces = Adjoin(DefaultInstance(d1).interfaces, y)
    BY <1>8, OnInstance
  <2>2. QED BY <2>1 DEF d2
<1>10. d2.interfaces = d1.interfaces /\ d2.subInterfaces = d1.subInterfaces
  BY <1>8, <1>9 DEF Touched, AllBut, Formed, NewDevice
<1>11. Touched({"interfaces", "subInterfaces"}, {}, {}, d, d1)
  BY <1>4, <1>7, TouchedTwice
<1>12. Touched({"interfaces", "subInterfaces", "instances"}, {"interfaces"}, {}, d, d2)
  BY <1>9, <1>11, TouchedTwice
<1>13. DefaultInstance(d1).interfaces = DefaultInstance(d).interfaces
  BY <1>11 DEF Touched, AllBut, Formed, FormedInstance, NewNetworkInstance
<1>14. QED BY <1>3, <1>4, <1>5, <1>7, <1>9, <1>10, <1>12, <1>13 DEF d0, d1, d2, k, si, x

\* One more end on its device.
LEMMA EndFilled ==
    ASSUME NEW T, NEW q, Agrees(T, q), NEW b, Ready(b), NEW d, DeviceFilled(d, b, T)
    PROVE  DeviceFilled(UpdateUnderlayInterface(d, EndOf(q), PeerOf(q), q[1]), b, T \cup {q})
<1> DEFINE U == T \cup {q}
           d1 == AddSubInterface(AddInterface(d, EndOf(q).ep), SubOf(q), UnderlaySubInterface(EndOf(q), PeerOf(q)))
           d2 == AddNetworkInstanceSubInterface(d1, DefaultNetwork, SubOf(q))
           d3 == UpdateUnderlayBFDInterface(d2, EndOf(q), q[1])
           d4 == IF IsOSPFEnabled(Design) THEN UpdateUnderlayOSPFInterface(d3, EndOf(q), q[1]) ELSE d3
           d5 == IF IsISISEnabled(Design) THEN UpdateUnderlayISISInterface(d4, EndOf(q), q[1]) ELSE d4
           d6 == IF IsEBGPEnabled(Design)
                 THEN UpdateUnderlayEBGPInterface(d5, EndOf(q), PeerOf(q), q[1]) ELSE d5
           c == DefaultInstance(b)
           i0 == DefaultInstance(d)
           i2 == DefaultInstance(d2)
           i3 == DefaultInstance(d3)
           i4 == DefaultInstance(d4)
           i5 == DefaultInstance(d5)
           i6 == DefaultInstance(d6)
<1>1. UpdateUnderlayInterface(d, EndOf(q), PeerOf(q), q[1]) = d6
  BY DEF UpdateUnderlayInterface, SubOf
<1>2. Formed(b) /\ Formed(d) /\ DOMAIN i0 = DOMAIN NewNetworkInstance /\ DOMAIN d = DOMAIN NewDevice
  BY FilledDeviceFormed DEF Ready, Formed, FormedInstance
<1>3. /\ AllBut({"interfaces", "subInterfaces", "bfd", "instances"}, b, d)
      /\ Filled(d.bfd, b.bfd, BFDWrites(T)) /\ DOMAIN d.instances = {DefaultNetwork}
      /\ AllBut({"interfaces", "ospf", "isis", "bgp"}, c, i0)
      /\ IsList(i0.interfaces) /\ Range(i0.interfaces) = Range(c.interfaces) \cup {SubOf(r) : r \in T}
      /\ OSPFFilled(i0.ospf, c.ospf, T) /\ ISISFilled(i0.isis, c.isis, T) /\ BGPFilled(i0.bgp, c.bgp, T)
  BY DEF DeviceFilled, InstanceFilled
<1>4. /\ Touched({"interfaces", "subInterfaces", "instances"}, {"interfaces"}, {}, d, d2)
      /\ Filled(d2.interfaces, b.interfaces, InterfaceWrites(U))
      /\ Filled(d2.subInterfaces, b.subInterfaces, SubWrites(U))
      /\ i2.interfaces = Adjoin(i0.interfaces, SubOf(q))
  BY <1>2, SubStage
<1> HIDE DEF d1, d2
<1>5. Formed(d2) /\ d2.bfd = d.bfd
  BY <1>2, <1>4 DEF Touched, AllBut, NewDevice
<1>6. Touched({"bfd"}, {}, {}, d2, d3) /\ Filled(d3.bfd, b.bfd, BFDWrites(U))
  BY <1>3, <1>5, BFDStage
<1> HIDE DEF d3
<1>7. Touched({"interfaces", "subInterfaces", "instances", "bfd"}, {"interfaces"}, {}, d, d3)
  BY <1>4, <1>6, TouchedTwice
<1>8. Formed(d3) /\ i3.ospf = i0.ospf
  BY <1>2, <1>7 DEF Touched, AllBut, NewNetworkInstance
<1>9. Touched({"instances"}, {"ospf"}, {}, d3, d4) /\ OSPFFilled(i4.ospf, c.ospf, U)
  BY <1>3, <1>8, OSPFStage
<1> HIDE DEF d4
<1>10. Touched({"interfaces", "subInterfaces", "instances", "bfd"}, {"interfaces", "ospf"}, {}, d, d4)
  BY <1>7, <1>9, TouchedTwice
<1>11. Formed(d4) /\ i4.isis = i0.isis
  BY <1>2, <1>10 DEF Touched, AllBut, NewNetworkInstance
<1>12. Touched({"instances"}, {"isis"}, {}, d4, d5) /\ ISISFilled(i5.isis, c.isis, U)
  BY <1>3, <1>11, ISISStage
<1> HIDE DEF d5
<1>13. Touched({"interfaces", "subInterfaces", "instances", "bfd"}, {"interfaces", "ospf", "isis"}, {}, d, d5)
  BY <1>10, <1>12, TouchedTwice
<1>14. Formed(d5) /\ i5.bgp = i0.bgp
  BY <1>2, <1>13 DEF Touched, AllBut, NewNetworkInstance
<1>15. /\ Touched({"instances"}, {"bgp"}, {"neighbors", "dynamicNeighbors", "peerGroups"}, d5, d6)
       /\ BGPFilled(i6.bgp, c.bgp, U)
  BY <1>3, <1>14, EBGPStage
<1> HIDE DEF d6
<1>16. Touched({"interfaces", "subInterfaces", "instances", "bfd"}, {"interfaces", "ospf", "isis", "bgp"},
               {"neighbors", "dynamicNeighbors", "peerGroups"}, d, d6)
  BY <1>13, <1>15, TouchedTwice
<1>17. Touched({"instances"}, {"isis", "bgp"}, {"neighbors", "dynamicNeighbors", "peerGroups"}, d4, d6)
  BY <1>12, <1>15, TouchedTwice
<1>18. Touched({"instances"}, {"ospf", "isis", "bgp"}, {"neighbors", "dynamicNeighbors", "peerGroups"}, d3, d6)
  BY <1>9, <1>17, TouchedTwice
<1>19. Touched({"instances", "bfd"}, {"ospf", "isis", "bgp"}, {"neighbors", "dynamicNeighbors", "peerGroups"},
               d2, d6)
  BY <1>6, <1>18, TouchedTwice
<1>20. /\ d6.interfaces = d2.interfaces /\ d6.subInterfaces = d2.subInterfaces
       /\ i6.interfaces = i2.interfaces
  BY <1>5, <1>19 DEF Touched, AllBut, NewDevice, NewNetworkInstance, Formed, FormedInstance
<1>21. d6.bfd = d3.bfd
  BY <1>8, <1>18 DEF Touched, AllBut, NewDevice, Formed
<1>22. i6.ospf = i4.ospf
  BY <1>11, <1>17 DEF Touched, AllBut, NewNetworkInstance, Formed, FormedInstance
<1>23. i6.isis = i5.isis
  BY <1>14, <1>15 DEF Touched, AllBut, NewNetworkInstance, Formed, FormedInstance
<1>24. IsMap(d6.instances) /\ DOMAIN d6.instances = {DefaultNetwork}
  BY <1>3, <1>16 DEF Touched, Formed
<1>25. AllBut({"interfaces", "subInterfaces", "instances", "bfd"}, d, d6)
       /\ AllBut({"interfaces", "ospf", "isis", "bgp"}, i0, i6)
  BY <1>16 DEF Touched
<1>26. AllBut({"interfaces", "subInterfaces", "bfd", "instances"}, b, d6)
       /\ AllBut({"interfaces", "ospf", "isis", "bgp"}, c, i6)
  <2> HIDE DEF i0, i6, c
  <2>1. QED BY <1>3, <1>25, AllButTwice
<1>27. IsList(i6.interfaces) /\ Range(i6.interfaces) = Range(c.interfaces) \cup {SubOf(r) : r \in U}
  <2> HIDE DEF i0, i6, c, i2
  <2>1. /\ IsList(i6.interfaces)
        /\ \A y : y \in Range(i6.interfaces) <=> y \in Range(i0.interfaces) \/ y = SubOf(q)
    BY <1>3, <1>4, <1>20, AdjoinList
  <2>2. \A y : y \in Range(i6.interfaces) <=> y \in Range(c.interfaces) \cup {SubOf(r) : r \in U}
    BY <1>3, <2>1
  <2>3. QED BY <2>1, <2>2
<1>28. InstanceFilled(i6, c, U)
  <2> HIDE DEF i0, i6, c, i2, i3, i4, i5
  <2>1. QED BY <1>9, <1>12, <1>15, <1>22, <1>23, <1>26, <1>27 DEF InstanceFilled
<1>29. DeviceFilled(d6, b, U)
  BY <1>4, <1>6, <1>20, <1>21, <1>24, <1>26, <1>28 DEF DeviceFilled
<1>30. QED BY <1>1, <1>29

-----------------------------------------------------------------------------
(* The base configuration: what it makes of a device, and that it changes  *)
(* nothing when it is applied again, to both ends of a link of one node.   *)

System == <<"system0", 0>>
SystemSubInterface(node) ==
    [peer |-> <<>>, vlan |-> <<>>, type |-> "",
     ipv4 |-> <<OptAddress(node.ipv4)>>, ipv6 |-> <<OptAddress(node.ipv6)>>]
SystemOSPF == [networkType |-> "unknown", passive |-> TRUE, bfd |-> FALSE]
SystemISIS == [ipv4 |-> <<>>, ipv6 |-> <<>>, passive |-> TRUE, networkType |-> "unknown", levels |-> <<>>]
Levels == [level |-> Design.isisLevel, families |-> GetIGPAddressFamilies(Design),
           levels |-> LevelsOf(Design.isisLevel)]

MapsTo(f, k, v) == IsMap(f) /\ k \in DOMAIN f /\ f[k] = v

HardwareOn(d, n, node) ==
    LET d1 == AddInterface(AddInterface(AddProvider(d, input.nodes[n].provider), "irb0"), "system0")
        d2 == AddSubInterface(d1, System, SystemSubInterface(node))
    IN  IF IsVXLANEnabled(Design) THEN AddTunnelInterface(d2, "vxlan0") ELSE d2

HasHardware(d, n, node) ==
    /\ d.provider = input.nodes[n].provider
    /\ MapsTo(d.interfaces, "irb0", Untagged) /\ MapsTo(d.interfaces, "system0", Untagged)
    /\ MapsTo(d.subInterfaces, System, SystemSubInterface(node))
    /\ IsVXLANEnabled(Design) => "vxlan0" \in d.tunnels

HasInstance(d) ==
    /\ DefaultNetwork \in DOMAIN d.instances
    /\ DefaultInstance(d).type = "default"
    /\ IsList(DefaultInstance(d).interfaces) /\ System \in Range(DefaultInstance(d).interfaces)

HasOSPF(o, node) ==
    /\ OSPFFormed(o) /\ o[1].routerID = node.routerID
    /\ Design.ospfArea \in DOMAIN o[1].areas
    /\ MapsTo(o[1].areas[Design.ospfArea], System, SystemOSPF)
    /\ \A a \in DOMAIN o[1].areas : IsMap(o[1].areas[a])

HasISIS(i) ==
    /\ ISISFormed(i)
    /\ i[1].level = Levels.level /\ i[1].families = Levels.families /\ i[1].levels = Levels.levels
    /\ MapsTo(i[1].interfaces, System, ISISKept(SystemISIS))

HasBGP(d, node) ==
    IsIBGPEnabled(Design) \/ IsEBGPEnabled(Design) =>
        /\ DefaultInstance(d).bgp.as = node.as /\ DefaultInstance(d).bgp.routerID = node.routerID
        /\ IsEBGPEnabled(Design) => MapsTo(d.policies, "underlay", Design.loopbackPrefixes)
        /\ IsIBGPEnabled(Design) =>
              /\ MapsTo(d.policies, "overlay", {})
              /\ DefaultInstance(d).bgp.families = GetAllEnabledAddressFamilies(Design)
        /\ IsBGPEVPNEnabled(Design) => d.systemBGPVPN = TRUE

LEMMA PutMapsTo ==
    ASSUME NEW f, NEW k, NEW v
    PROVE  /\ MapsTo(Put(f, k, v), k, v)
           /\ \A x, y : MapsTo(f, x, y) /\ (x = k => y = v) => MapsTo(Put(f, k, v), x, y)
           /\ MapsTo(f, k, v) => Put(f, k, v) = f
<1>1. MapsTo(Put(f, k, v), k, v)
  BY PutMap DEF MapsTo
<1>2. ASSUME NEW x, NEW y, MapsTo(f, x, y), x = k => y = v PROVE MapsTo(Put(f, k, v), x, y)
  <2>1. Put(f, k, v)[x] = IF x = k THEN v ELSE f[x]
    BY <1>2, PutAt DEF MapsTo
  <2>2. QED BY <1>2, <2>1, PutMap DEF MapsTo
<1>3. MapsTo(f, k, v) => Put(f, k, v) = f
  BY PutAgain DEF MapsTo
<1>4. QED BY <1>1, <1>2, <1>3

LEMMA HardwareMade ==
    ASSUME NEW d, Formed(d), NEW n, NEW node
    PROVE  LET d2 == HardwareOn(d, n, node)
           IN  /\ Touched({"provider", "interfaces", "subInterfaces", "tunnels"}, {}, {}, d, d2)
               /\ HasHardware(d2, n, node)
<1> DEFINE p == input.nodes[n].provider
           x == SystemSubInterface(node)
           d1 == AddProvider(d, p)
           d2 == AddInterface(d1, "irb0")
           d3 == AddInterface(d2, "system0")
           d4 == AddSubInterface(d3, System, x)
           d5 == IF IsVXLANEnabled(Design) THEN AddTunnelInterface(d4, "vxlan0") ELSE d4
<1>1. HardwareOn(d, n, node) = d5
  BY DEF HardwareOn
<1>2. x.vlan = <<>> /\ System[1] = "system0"
  BY DEF SystemSubInterface, System
<1> HIDE DEF x
<1>3. Touched({"provider"}, {}, {}, d, d1) /\ d1.provider = p
  <2>1. \A y : Touched({"provider"}, {}, {}, d, AddProvider(d, y)) /\ AddProvider(d, y).provider = y
    BY OnDevice
  <2>2. QED BY <2>1
<1> HIDE DEF d1
<1>4. Touched({"interfaces"}, {}, {}, d1, d2) /\ d2.interfaces = Put(d1.interfaces, "irb0", Untagged)
  <2>1. Formed(d1)
    BY <1>3 DEF Touched
  <2>2. \A y : /\ Touched({"interfaces"}, {}, {}, d1, AddInterface(d1, y))
               /\ AddInterface(d1, y).interfaces = Put(d1.interfaces, y, Untagged)
    BY <2>1, OnDevice
  <2>3. QED BY <2>2
<1> HIDE DEF d2
<1>5. Touched({"interfaces"}, {}, {}, d2, d3) /\ d3.interfaces = Put(d2.interfaces, "system0", Untagged)
  <2>1. Formed(d2)
    BY <1>4 DEF Touched
  <2>2. \A y : /\ Touched({"interfaces"}, {}, {}, d2, AddInterface(d2, y))
               /\ AddInterface(d2, y).interfaces = Put(d2.interfaces, y, Untagged)
    BY <2>1, OnDevice
  <2>3. QED BY <2>2
<1> HIDE DEF d3
<1>6. MapsTo(d3.interfaces, "irb0", Untagged) /\ MapsTo(d3.interfaces, "system0", Untagged)
  BY <1>4, <1>5, PutMapsTo
<1>7. /\ Touched({"interfaces", "subInterfaces"}, {}, {}, d3, d4)
      /\ d4.interfaces = Put(d3.interfaces, "system0", Untagged)
      /\ d4.subInterfaces = Put(d3.subInterfaces, System, x)
  <2>1. Formed(d3)
    BY <1>5 DEF Touched
  <2>2. QED BY <1>2, <1>6, <2>1, SubInterfaceAdded DEF MapsTo
<1> HIDE DEF d4
<1>8. /\ Formed(d4) /\ MapsTo(d4.interfaces, "irb0", Untagged) /\ MapsTo(d4.interfaces, "system0", Untagged)
      /\ MapsTo(d4.subInterfaces, System, x)
  BY <1>6, <1>7, PutMapsTo DEF Touched
<1>9. Touched({"tunnels"}, {}, {}, d4, d5) /\ (IsVXLANEnabled(Design) => "vxlan0" \in d5.tunnels)
  <2>1. CASE IsVXLANEnabled(Design)
    <3>1. \A y : /\ Touched({"tunnels"}, {}, {}, d4, AddTunnelInterface(d4, y))
                 /\ AddTunnelInterface(d4, y).tunnels = d4.tunnels \cup {y}
      BY <1>8, OnDevice
    <3>2. d5 = AddTunnelInterface(d4, "vxlan0")
      BY <2>1
    <3> HIDE DEF d5
    <3>3. Touched({"tunnels"}, {}, {}, d4, d5) /\ d5.tunnels = d4.tunnels \cup {"vxlan0"}
      BY <3>1, <3>2
    <3>4. QED BY <3>3
  <2>2. CASE ~IsVXLANEnabled(Design)
    <3>1. d5 = d4
      BY <2>2
    <3>2. QED BY <1>8, <2>2, <3>1, Untouched
  <2>3. QED BY <2>1, <2>2
<1> HIDE DEF d5
<1>10. Touched({"provider", "interfaces"}, {}, {}, d, d2)
  BY <1>3, <1>4, TouchedTwice
<1>11. Touched({"provider", "interfaces"}, {}, {}, d, d3)
  BY <1>5, <1>10, TouchedTwice
<1>12. Touched({"provider", "interfaces", "subInterfaces"}, {}, {}, d, d4)
  BY <1>7, <1>11, TouchedTwice
<1>13. Touched({"provider", "interfaces", "subInterfaces", "tunnels"}, {}, {}, d, d5)
  BY <1>9, <1>12, TouchedTwice
<1>14. Touched({"interfaces"}, {}, {}, d1, d3)
  BY <1>4, <1>5, TouchedTwice
<1>15. Touched({"interfaces", "subInterfaces"}, {}, {}, d1, d4)
  BY <1>7, <1>14, TouchedTwice
<1>16. Touched({"interfaces", "subInterfaces", "tunnels"}, {}, {}, d1, d5)
  BY <1>9, <1>15, TouchedTwice
<1>17. d5.provider = p
  BY <1>3, <1>16 DEF Touched, AllBut, Formed, NewDevice
<1>18. d5.interfaces = d4.interfaces /\ d5.subInterfaces = d4.subInterfaces
  BY <1>8, <1>9 DEF Touched, AllBut, Formed, NewDevice
<1>19. HasHardware(d5, n, node)
  BY <1>8, <1>9, <1>17, <1>18 DEF HasHardware, x
<1>20. QED BY <1>1, <1>13, <1>19

LEMMA HardwareAgain ==
    ASSUME NEW d, Formed(d), NEW n, NEW node, HasHardware(d, n, node) PROVE HardwareOn(d, n, node) = d
<1> DEFINE x == SystemSubInterface(node)
<1>1. IsMap(d) /\ DOMAIN d = DOMAIN NewDevice
  BY DEF Formed
<1>2. AddProvider(d, input.nodes[n].provider) = d
  BY <1>1 DEF AddProvider, HasHardware, IsMap, NewDevice
<1>3. /\ Put(d.interfaces, "irb0", Untagged) = d.interfaces
      /\ Put(d.interfaces, "system0", Untagged) = d.interfaces
      /\ Put(d.subInterfaces, System, x) = d.subInterfaces
  BY PutMapsTo DEF HasHardware
<1>4. AddInterface(d, "irb0") = d /\ AddInterface(d, "system0") = d
  BY <1>1, <1>3 DEF AddInterface, IsMap, NewDevice, Untagged
<1>5. AddSubInterface(d, System, x) = d
  <2>1. System[1] = "system0" /\ x.vlan = <<>>
    BY DEF System, SystemSubInterface
  <2>2. GetOrCreate(d.interfaces, System[1], [vlanTagging |-> FALSE]) = Untagged
    BY <2>1 DEF GetOrCreate, HasHardware, MapsTo
  <2>3. [vlanTagging |-> Untagged.vlanTagging \/ x.vlan # <<>>] = Untagged
    BY <2>1 DEF Untagged
  <2> HIDE DEF x
  <2>4. AddSubInterface(d, System, x) = [d EXCEPT !.interfaces = d.interfaces, !.subInterfaces = d.subInterfaces]
    BY <1>3, <2>1, <2>2, <2>3 DEF AddSubInterface
  <2>5. QED BY <1>1, <2>4 DEF IsMap, NewDevice
<1>6. IsVXLANEnabled(Design) => AddTunnelInterface(d, "vxlan0") = d
  <2>1. IsVXLANEnabled(Design) => d.tunnels \cup {"vxlan0"} = d.tunnels
    BY DEF HasHardware
  <2>2. QED BY <1>1, <2>1 DEF AddTunnelInterface, IsMap, NewDevice
<1>7. QED BY <1>2, <1>4, <1>5, <1>6 DEF HardwareOn

LEMMA SameInstance ==
    ASSUME NEW d, Formed(d), DefaultNetwork \in DOMAIN d.instances
    PROVE  SetNetworkInstance(d, DefaultNetwork, DefaultInstance(d)) = d
<1>1. IsMap(d) /\ DOMAIN d = DOMAIN NewDevice /\ IsMap(d.instances)
  BY DEF Formed
<1>2. Put(d.instances, DefaultNetwork, DefaultInstance(d)) = d.instances
  BY <1>1, PutAgain DEF DefaultInstance, GetOrCreateNetworkInstance, GetOrCreate
<1>3. SetNetworkInstance(d, DefaultNetwork, DefaultInstance(d)) = [d EXCEPT !.instances = d.instances]
  BY <1>2 DEF SetNetworkInstance
<1>4. QED BY <1>1, <1>3 DEF IsMap, NewDevice

LEMMA InstanceMade ==
    ASSUME NEW d, Formed(d), IsList(DefaultInstance(d).interfaces)
    PROVE  LET d2 == AddNetworkInstanceSubInterface(AddNetworkInstance(d, DefaultNetwork, "default"),
                                                    DefaultNetwork, System)
           IN  Touched({"instances"}, {"type", "interfaces"}, {}, d, d2) /\ HasInstance(d2)
<1> DEFINE d1 == AddNetworkInstance(d, DefaultNetwork, "default")
           d2 == AddNetworkInstanceSubInterface(d1, DefaultNetwork, System)
<1>1. Touched({"instances"}, {"type"}, {}, d, d1) /\ DefaultInstance(d1).type = "default"
  <2>1. \A x : LET e == AddNetworkInstance(d, DefaultNetwork, x)
               IN  Touched({"instances"}, {"type"}, {}, d, e) /\ DefaultInstance(e).type = x
    BY OnInstance
  <2>2. QED BY <2>1
<1> HIDE DEF d1
<1>2. Formed(d1)
  BY <1>1 DEF Touched
<1>3. /\ Touched({"instances"}, {"interfaces"}, {}, d1, d2)
      /\ DefaultInstance(d2).interfaces = Adjoin(DefaultInstance(d1).interfaces, System)
      /\ DefaultNetwork \in DOMAIN d2.instances
  <2>1. \A x : LET e == AddNetworkInstanceSubInterface(d1, DefaultNetwork, x)
               IN  /\ Touched({"instances"}, {"interfaces"}, {}, d1, e)
                   /\ DefaultInstance(e).interfaces = Adjoin(DefaultInstance(d1).interfaces, x)
                   /\ DefaultNetwork \in DOMAIN e.instances
    BY <1>2, OnInstance
  <2>2. QED BY <2>1
<1> HIDE DEF d2
<1>4. DefaultInstance(d2).type = "default"
  BY <1>1, <1>2, <1>3 DEF Touched, AllBut, Formed, FormedInstance, NewNetworkInstance
<1>5. Touched({"instances"}, {"type", "interfaces"}, {}, d, d2)
  BY <1>1, <1>3, TouchedTwice
<1>6. HasInstance(d2)
  <2>1. DOMAIN DefaultInstance(d) = DOMAIN NewNetworkInstance
    BY DEF Formed, FormedInstance
  <2>2. DefaultInstance(d1).interfaces = DefaultInstance(d).interfaces
    BY <1>1, <2>1 DEF Touched, AllBut, NewNetworkInstance
  <2>3. IsList(DefaultInstance(d2).interfaces) /\ System \in Range(DefaultInstance(d2).interfaces)
    BY <1>3, <2>2, AdjoinList
  <2>4. QED BY <1>3, <1>4, <2>3 DEF HasInstance
<1>7. QED BY <1>5, <1>6 DEF d1, d2

LEMMA InstanceAgain ==
    ASSUME NEW d, Formed(d), HasInstance(d)
    PROVE  AddNetworkInstanceSubInterface(AddNetworkInstance(d, DefaultNetwork, "default"), DefaultNetwork, System) = d
<1> DEFINE ni == DefaultInstance(d)
<1>1. /\ IsMap(ni) /\ DOMAIN ni = DOMAIN NewNetworkInstance /\ ni.type = "default"
      /\ Adjoin(ni.interfaces, System) = ni.interfaces
  BY DEF Formed, FormedInstance, HasInstance, Adjoin
<1>2. SetNetworkInstance(d, DefaultNetwork, ni) = d
  BY SameInstance DEF HasInstance
<1> HIDE DEF ni
<1>3. [ni EXCEPT !.type = "default"] = ni /\ [ni EXCEPT !.interfaces = ni.interfaces] = ni
  BY <1>1 DEF IsMap, NewNetworkInstance
<1>4. [ni EXCEPT !.interfaces = Adjoin(@, System)] = ni
  BY <1>1, <1>3
<1>5. AddNetworkInstance(d, DefaultNetwork, "default") = d
  BY <1>2, <1>3 DEF AddNetworkInstance, ni, DefaultInstance
<1>6. AddNetworkInstanceSubInterface(d, DefaultNetwork, System) = d
  BY <1>2, <1>4 DEF AddNetworkInstanceSubInterface, ni, DefaultInstance
<1>7. QED BY <1>5, <1>6

OSPFOn(d, node) ==
    AddOSPFAreaInterface(AddOSPFArea(AddOSPFInstance(d, DefaultNetwork, node.routerID),
                                     DefaultNetwork, Design.ospfArea),
                         DefaultNetwork, Design.ospfArea, System, SystemOSPF)

LEMMA OSPFMade ==
    ASSUME NEW d, Formed(d), DefaultInstance(d).ospf = <<>>, NEW node
    PROVE  LET d2 == OSPFOn(d, node)
           IN  Touched({"instances"}, {"ospf"}, {}, d, d2) /\ HasOSPF(DefaultInstance(d2).ospf, node)
<1> DEFINE o1 == [NewOSPF EXCEPT !.routerID = node.routerID]
           d1 == AddOSPFInstance(d, DefaultNetwork, node.routerID)
           area == Design.ospfArea
           d2 == AddOSPFAreaInterface(AddOSPFArea(d1, DefaultNetwork, area), DefaultNetwork, area, System, SystemOSPF)
<1>1. GetOrCreateOSPF(d, DefaultNetwork) = NewOSPF
  BY DEF GetOrCreateOSPF, InstanceOf, DefaultInstance
<1>2. d1 = SetOSPF(d, DefaultNetwork, o1)
  BY <1>1 DEF AddOSPFInstance
<1>3. IsMap(o1) /\ DOMAIN o1 = {"routerID", "areas"} /\ o1.routerID = node.routerID /\ o1.areas = <<>>
  BY DEF NewOSPF, IsMap
<1> HIDE DEF o1, d1
<1>4. Touched({"instances"}, {"ospf"}, {}, d, d1) /\ DefaultInstance(d1).ospf = <<o1>>
  <2>1. \A x : LET e == SetOSPF(d, DefaultNetwork, x)
               IN  Touched({"instances"}, {"ospf"}, {}, d, e) /\ DefaultInstance(e).ospf = <<x>>
    BY OnInstance
  <2>2. QED BY <1>2, <2>1
<1>5. Formed(d1)
  BY <1>4 DEF Touched
<1>6. OSPFFormed(<<o1>>)
  BY <1>3, EmptyMap DEF OSPFFormed
<1> HIDE DEF area, d2
<1>7. Touched({"instances"}, {"ospf"}, {}, d1, d2)
  BY <1>4, <1>5, <1>6, OSPFInterfaceAdded DEF d2
<1>8. PICK o2 : DefaultInstance(d2).ospf = <<o2>> /\ HasAreaInterface(DefaultInstance(d1).ospf[1], o2, area, System, SystemOSPF)
  BY <1>4, <1>5, <1>6, OSPFInterfaceAdded DEF d2
<1>9. HasAreaInterface(o1, o2, area, System, SystemOSPF)
  BY <1>4, <1>8
<1>10. /\ IsMap(o2) /\ DOMAIN o2 = {"routerID", "areas"} /\ o2.routerID = node.routerID /\ IsMap(o2.areas)
       /\ \A a : a \in DOMAIN o2.areas <=> a = area
       /\ o2.areas[area] = Put(GetOrCreate(o1.areas, area, <<>>), System, SystemOSPF)
  BY <1>3, <1>9, EmptyMap DEF HasAreaInterface
<1>11. MapsTo(o2.areas[area], System, SystemOSPF)
  BY <1>10, PutMapsTo
<1>12. HasOSPF(<<o2>>, node)
  BY <1>10, <1>11 DEF HasOSPF, OSPFFormed, MapsTo, area
<1>13. Touched({"instances"}, {"ospf"}, {}, d, d2)
  BY <1>4, <1>7, TouchedTwice
<1>14. QED BY <1>8, <1>12, <1>13 DEF d1, d2, area, OSPFOn

LEMMA SameOSPF ==
    ASSUME NEW d, Formed(d), DefaultNetwork \in DOMAIN d.instances, NEW o, DefaultInstance(d).ospf = <<o>>
    PROVE  SetOSPF(d, DefaultNetwork, o) = d
<1> DEFINE ni == DefaultInstance(d)
<1>1. IsMap(ni) /\ DOMAIN ni = DOMAIN NewNetworkInstance /\ ni.ospf = <<o>>
  BY DEF Formed, FormedInstance
<1>2. SetNetworkInstance(d, DefaultNetwork, ni) = d
  BY SameInstance
<1> HIDE DEF ni
<1>3. [ni EXCEPT !.ospf = <<o>>] = ni
  BY <1>1 DEF IsMap, NewNetworkInstance
<1>4. QED BY <1>2, <1>3 DEF SetOSPF, ni, DefaultInstance

LEMMA OSPFAgain ==
    ASSUME NEW d, Formed(d), HasInstance(d), NEW node, HasOSPF(DefaultInstance(d).ospf, node)
    PROVE  OSPFOn(d, node) = d
<1> DEFINE o == DefaultInstance(d).ospf[1]
           area == Design.ospfArea
<1>1. /\ DefaultInstance(d).ospf = <<o>> /\ IsMap(o) /\ DOMAIN o = {"routerID", "areas"} /\ IsMap(o.areas)
      /\ o.routerID = node.routerID /\ area \in DOMAIN o.areas /\ MapsTo(o.areas[area], System, SystemOSPF)
  BY DEF HasOSPF, OSPFFormed
<1> HIDE DEF o, area
<1>2. GetOrCreateOSPF(d, DefaultNetwork) = o
  BY <1>1, OneOSPF DEF GetOrCreateOSPF, DefaultInstance
<1>3. SetOSPF(d, DefaultNetwork, o) = d
  BY <1>1, SameOSPF DEF HasInstance
<1>4. [o EXCEPT !.routerID = node.routerID] = o /\ [o EXCEPT !.areas = o.areas] = o
  BY <1>1 DEF IsMap
<1>5. GetOrCreate(o.areas, area, <<>>) = o.areas[area]
  BY <1>1 DEF GetOrCreate
<1>6. Put(o.areas[area], System, SystemOSPF) = o.areas[area]
  BY <1>1, PutMapsTo
<1>7. Put(o.areas, area, o.areas[area]) = o.areas
  BY <1>1, PutAgain
<1>8. AddOSPFInstance(d, DefaultNetwork, node.routerID) = d
  BY <1>2, <1>3, <1>4 DEF AddOSPFInstance
<1>9. AddOSPFArea(d, DefaultNetwork, area) = d
  <2>1. AddOSPFArea(d, DefaultNetwork, area) = SetOSPF(d, DefaultNetwork, [o EXCEPT !.areas = o.areas])
    BY <1>2, <1>5, <1>7 DEF AddOSPFArea
  <2>2. QED BY <1>3, <1>4, <2>1
<1>10. AddOSPFAreaInterface(d, DefaultNetwork, area, System, SystemOSPF) = d
  <2>1. AddOSPFAreaInterface(d, DefaultNetwork, area, System, SystemOSPF)
           = SetOSPF(d, DefaultNetwork, [o EXCEPT !.areas = o.areas])
    BY <1>2, <1>5, <1>6, <1>7 DEF AddOSPFAreaInterface
  <2>2. QED BY <1>3, <1>4, <2>1
<1>11. QED BY <1>8, <1>9, <1>10 DEF OSPFOn, area

ISISOn(d) == AddISISInterface(AddISISInstance(d, DefaultNetwork, Levels), DefaultNetwork, System, SystemISIS)

LEMMA ISISMade ==
    ASSUME NEW d, Formed(d), DefaultInstance(d).isis = <<>>
    PROVE  LET d2 == ISISOn(d)
           IN  Touched({"instances"}, {"isis"}, {}, d, d2) /\ HasISIS(DefaultInstance(d2).isis)
<1> DEFINE L == Levels
           i1 == [NewISIS EXCEPT !.level = L.level, !.families = L.families, !.levels = L.levels]
           d1 == AddISISInstance(d, DefaultNetwork, L)
           d2 == AddISISInterface(d1, DefaultNetwork, System, SystemISIS)
<1> HIDE DEF L
<1>1. GetOrCreateISIS(d, DefaultNetwork) = NewISIS
  BY DEF GetOrCreateISIS, InstanceOf, DefaultInstance
<1>2. d1 = SetISIS(d, DefaultNetwork, i1)
  BY <1>1 DEF AddISISInstance
<1>3. /\ IsMap(i1) /\ DOMAIN i1 = {"level", "families", "levels", "interfaces"}
      /\ i1.level = L.level /\ i1.families = L.families /\ i1.levels = L.levels /\ i1.interfaces = <<>>
  BY DEF NewISIS, IsMap
<1> HIDE DEF i1, d1
<1>4. Touched({"instances"}, {"isis"}, {}, d, d1) /\ DefaultInstance(d1).isis = <<i1>>
  <2>1. \A x : LET e == SetISIS(d, DefaultNetwork, x)
               IN  Touched({"instances"}, {"isis"}, {}, d, e) /\ DefaultInstance(e).isis = <<x>>
    BY OnInstance
  <2>2. QED BY <1>2, <2>1
<1>5. Formed(d1)
  BY <1>4 DEF Touched
<1>6. ISISFormed(<<i1>>)
  BY <1>3, EmptyMap DEF ISISFormed
<1> HIDE DEF d2
<1>7. Touched({"instances"}, {"isis"}, {}, d1, d2)
  BY <1>4, <1>5, <1>6, ISISInterfaceAdded DEF d2
<1>8. PICK i2 : /\ DefaultInstance(d2).isis = <<i2>>
                /\ AllBut({"interfaces"}, DefaultInstance(d1).isis[1], i2)
                /\ i2.interfaces = Put(DefaultInstance(d1).isis[1].interfaces, System, ISISKept(SystemISIS))
  BY <1>4, <1>5, <1>6, ISISInterfaceAdded DEF d2
<1>9. AllBut({"interfaces"}, i1, i2) /\ i2.interfaces = Put(i1.interfaces, System, ISISKept(SystemISIS))
  BY <1>4, <1>8
<1>10. /\ IsMap(i2) /\ DOMAIN i2 = {"level", "families", "levels", "interfaces"}
       /\ i2.level = L.level /\ i2.families = L.families /\ i2.levels = L.levels
  BY <1>3, <1>9 DEF AllBut
<1>11. MapsTo(i2.interfaces, System, ISISKept(SystemISIS))
  BY <1>9, PutMapsTo
<1>12. HasISIS(<<i2>>)
  BY <1>10, <1>11 DEF HasISIS, ISISFormed, MapsTo, L
<1>13. Touched({"instances"}, {"isis"}, {}, d, d2)
  BY <1>4, <1>7, TouchedTwice
<1>14. QED BY <1>8, <1>12, <1>13 DEF d1, d2, L, ISISOn

LEMMA ISISAgain ==
    ASSUME NEW d, Formed(d), HasInstance(d), HasISIS(DefaultInstance(d).isis)
    PROVE  ISISOn(d) = d
<1> DEFINE ni == DefaultInstance(d)
           i == ni.isis[1]
           L == Levels
<1>1. /\ ni.isis = <<i>> /\ IsMap(i) /\ DOMAIN i = {"level", "families", "levels", "interfaces"}
      /\ i.level = L.level /\ i.families = L.families /\ i.levels = L.levels
      /\ MapsTo(i.interfaces, System, ISISKept(SystemISIS))
  BY DEF HasISIS, ISISFormed
<1>2. IsMap(ni) /\ DOMAIN ni = DOMAIN NewNetworkInstance
  BY DEF Formed, FormedInstance
<1>3. SetNetworkInstance(d, DefaultNetwork, ni) = d
  BY SameInstance DEF HasInstance
<1>4. GetOrCreateNetworkInstance(d, DefaultNetwork) = ni
  BY DEF DefaultInstance
<1> HIDE DEF i, L, ni
<1>5. GetOrCreateISIS(d, DefaultNetwork) = i
  BY <1>1, <1>4, OneISIS DEF GetOrCreateISIS
<1>6. [ni EXCEPT !.isis = <<i>>] = ni
  BY <1>1, <1>2 DEF IsMap, NewNetworkInstance
<1>7. SetISIS(d, DefaultNetwork, i) = d
  BY <1>3, <1>4, <1>6 DEF SetISIS
<1>8. [i EXCEPT !.level = L.level, !.families = L.families, !.levels = L.levels] = i
  BY <1>1 DEF IsMap
<1>9. [i EXCEPT !.interfaces = i.interfaces] = i
  BY <1>1 DEF IsMap
<1>10. AddISISInstance(d, DefaultNetwork, L) = d
  BY <1>5, <1>7, <1>8 DEF AddISISInstance
<1>11. AddISISInterface(d, DefaultNetwork, System, SystemISIS) = d
  <2>1. Put(i.interfaces, System, ISISKept(SystemISIS)) = i.interfaces
    BY <1>1, PutMapsTo
  <2>2. AddISISInterface(d, DefaultNetwork, System, SystemISIS) = SetISIS(d, DefaultNetwork, [i EXCEPT !.interfaces = i.interfaces])
    BY <1>5, <2>1 DEF AddISISInterface, ISISKept
  <2>3. QED BY <1>7, <1>9, <2>2
<1>12. QED BY <1>10, <1>11 DEF ISISOn, L

LEMMA BGPMade ==
    ASSUME NEW d, Formed(d), NEW node
    PROVE  LET d2 == UpdateUnderlayBGPNode(d, node)
           IN  /\ Touched({"instances", "policies", "systemBGPVPN"}, {"bgp"}, {"as", "routerID", "families"}, d, d2)
               /\ HasBGP(d2, node)
<1> DEFINE P == Design.loopbackPrefixes
           A == GetAllEnabledAddressFamilies(Design)
           d1 == AddBGPAS(d, DefaultNetwork, node.as)
           d2 == AddBGPRouterID(d1, DefaultNetwork, node.routerID)
           d3 == IF IsEBGPEnabled(Design) THEN AddRoutingPolicy(d2, "underlay", P) ELSE d2
           d4 == IF IsIBGPEnabled(Design) THEN AddRoutingPolicy(d3, "overlay", {}) ELSE d3
           d5 == IF IsIBGPEnabled(Design) THEN AddBGPAddressFamilies(d4, DefaultNetwork, A) ELSE d4
           d6 == IF IsBGPEVPNEnabled(Design) THEN AddSystemProtocolsBGPVPN(d5) ELSE d5
<1>1. UpdateUnderlayBGPNode(d, node) = d6
  BY DEF UpdateUnderlayBGPNode
<1> HIDE DEF P, A
<1>2. Touched({"instances"}, {"bgp"}, {"as"}, d, d1) /\ DefaultInstance(d1).bgp.as = node.as
  <2>1. \A x : LET e == AddBGPAS(d, DefaultNetwork, x)
               IN  Touched({"instances"}, {"bgp"}, {"as"}, d, e) /\ DefaultInstance(e).bgp.as = x
    BY OnBGP
  <2>2. QED BY <2>1
<1> HIDE DEF d1
<1>3. Touched({"instances"}, {"bgp"}, {"routerID"}, d1, d2) /\ DefaultInstance(d2).bgp.routerID = node.routerID
  <2>1. \A x : LET e == AddBGPRouterID(d1, DefaultNetwork, x)
               IN  Touched({"instances"}, {"bgp"}, {"routerID"}, d1, e) /\ DefaultInstance(e).bgp.routerID = x
    BY <1>2, OnBGP DEF Touched
  <2>2. QED BY <2>1
<1> HIDE DEF d2
<1>4. \A e : Formed(e) =>
         /\ Touched({"policies"}, {}, {}, e, e)
         /\ \A x, y : /\ Touched({"policies"}, {}, {}, e, AddRoutingPolicy(e, x, y))
                      /\ AddRoutingPolicy(e, x, y).policies = Put(e.policies, x, y)
  BY OnDevice, Untouched
<1>5. Touched({"policies"}, {}, {}, d2, d3) /\ (IsEBGPEnabled(Design) => MapsTo(d3.policies, "underlay", P))
  <2>1. Formed(d2)
    BY <1>3 DEF Touched
  <2>2. QED BY <1>4, <2>1, PutMapsTo
<1> HIDE DEF d3
<1>6. /\ Touched({"policies"}, {}, {}, d3, d4)
      /\ IsEBGPEnabled(Design) => MapsTo(d4.policies, "underlay", P)
      /\ IsIBGPEnabled(Design) => MapsTo(d4.policies, "overlay", {})
  <2>1. Formed(d3)
    BY <1>5 DEF Touched
  <2>2. CASE IsIBGPEnabled(Design)
    <3>1. d4 = AddRoutingPolicy(d3, "overlay", {})
      BY <2>2
    <3> HIDE DEF d4
    <3>2. Touched({"policies"}, {}, {}, d3, d4) /\ d4.policies = Put(d3.policies, "overlay", {})
      BY <1>4, <2>1, <3>1
    <3>3. QED BY <1>5, <3>2, PutMapsTo
  <2>3. CASE ~IsIBGPEnabled(Design)
    BY <1>4, <1>5, <2>1, <2>3
  <2>4. QED BY <2>2, <2>3
<1> HIDE DEF d4
<1>7. /\ Touched({"instances"}, {"bgp"}, {"families"}, d4, d5)
      /\ IsIBGPEnabled(Design) => DefaultInstance(d5).bgp.families = A
  <2>1. Formed(d4)
    BY <1>6 DEF Touched
  <2>2. CASE IsIBGPEnabled(Design)
    <3>1. \A x : LET e == AddBGPAddressFamilies(d4, DefaultNetwork, x)
                 IN  /\ Touched({"instances"}, {"bgp"}, {"families"}, d4, e)
                     /\ DefaultInstance(e).bgp.families = x
      BY <2>1, OnBGP
    <3>2. QED BY <2>2, <3>1
  <2>3. CASE ~IsIBGPEnabled(Design)
    BY <2>1, <2>3, Untouched
  <2>4. QED BY <2>2, <2>3
<1> HIDE DEF d5
<1>8. Formed(d5)
  BY <1>7 DEF Touched
<1>9. /\ Touched({"systemBGPVPN"}, {}, {}, d5, d6)
      /\ IsBGPEVPNEnabled(Design) => d6.systemBGPVPN = TRUE
  <2>1. CASE IsBGPEVPNEnabled(Design)
    <3>1. /\ Touched({"systemBGPVPN"}, {}, {}, d5, AddSystemProtocolsBGPVPN(d5))
          /\ AddSystemProtocolsBGPVPN(d5).systemBGPVPN = TRUE
      BY <1>8, OnDevice
    <3>2. d6 = AddSystemProtocolsBGPVPN(d5)
      BY <2>1
    <3>3. QED BY <3>1, <3>2
  <2>2. CASE ~IsBGPEVPNEnabled(Design)
    BY <1>8, <2>2, Untouched
  <2>3. QED BY <2>1, <2>2
<1> HIDE DEF d6
<1>10. Touched({"instances"}, {"bgp"}, {"as", "routerID"}, d, d2)
  BY <1>2, <1>3, TouchedTwice
<1>11. Touched({"policies"}, {}, {}, d2, d4)
  BY <1>5, <1>6, TouchedTwice
<1>12. Touched({"instances", "policies"}, {"bgp"}, {"families"}, d2, d5)
  BY <1>7, <1>11, TouchedTwice
<1>13. Touched({"instances", "policies", "systemBGPVPN"}, {"bgp"}, {"families"}, d2, d6)
  BY <1>9, <1>12, TouchedTwice
<1>14. Touched({"instances", "policies", "systemBGPVPN"}, {"bgp"}, {"as", "routerID", "families"}, d, d6)
  BY <1>10, <1>13, TouchedTwice
<1>15. Touched({"instances", "policies", "systemBGPVPN"}, {"bgp"}, {"routerID", "families"}, d1, d6)
  BY <1>3, <1>13, TouchedTwice
<1>16. Touched({"instances", "systemBGPVPN"}, {"bgp"}, {"families"}, d4, d6)
  BY <1>7, <1>9, TouchedTwice
<1>17. DefaultInstance(d6).bgp.as = node.as
  <2>1. DOMAIN DefaultInstance(d1).bgp = DOMAIN NewBGP
    BY <1>2 DEF Touched, Formed, FormedInstance
  <2>2. AllBut({"routerID", "families"}, DefaultInstance(d1).bgp, DefaultInstance(d6).bgp)
    BY <1>15 DEF Touched
  <2>3. QED BY <1>2, <2>1, <2>2 DEF AllBut, NewBGP
<1>18. DefaultInstance(d6).bgp.routerID = node.routerID
  <2>1. DOMAIN DefaultInstance(d2).bgp = DOMAIN NewBGP
    BY <1>3 DEF Touched, Formed, FormedInstance
  <2>2. AllBut({"families"}, DefaultInstance(d2).bgp, DefaultInstance(d6).bgp)
    BY <1>13 DEF Touched
  <2>3. QED BY <1>3, <2>1, <2>2 DEF AllBut, NewBGP
<1>19. DefaultInstance(d6).bgp.families = DefaultInstance(d5).bgp.families
  <2>1. DOMAIN DefaultInstance(d5).bgp = DOMAIN NewBGP
    BY <1>8 DEF Formed, FormedInstance
  <2>2. AllBut({}, DefaultInstance(d5).bgp, DefaultInstance(d6).bgp)
    BY <1>9 DEF Touched
  <2>3. QED BY <2>1, <2>2 DEF AllBut, NewBGP
<1>20. d6.policies = d4.policies
  <2>1. DOMAIN d4 = DOMAIN NewDevice
    BY <1>6 DEF Touched, Formed
  <2>2. AllBut({"instances", "systemBGPVPN"}, d4, d6)
    BY <1>16 DEF Touched
  <2>3. QED BY <2>1, <2>2 DEF AllBut, NewDevice
<1>21. HasBGP(d6, node)
  BY <1>6, <1>7, <1>9, <1>17, <1>18, <1>19, <1>20 DEF HasBGP, P, A
<1>22. QED BY <1>1, <1>14, <1>21

LEMMA BGPAgain ==
    ASSUME NEW d, Formed(d), HasInstance(d), NEW node, HasBGP(d, node), IsIBGPEnabled(Design) \/ IsEBGPEnabled(Design)
    PROVE  UpdateUnderlayBGPNode(d, node) = d
<1> DEFINE ni == DefaultInstance(d)
           g == ni.bgp
           A == GetAllEnabledAddressFamilies(Design)
           P == Design.loopbackPrefixes
<1>1. /\ IsMap(ni) /\ DOMAIN ni = DOMAIN NewNetworkInstance /\ IsMap(g) /\ DOMAIN g = DOMAIN NewBGP
      /\ IsMap(d) /\ DOMAIN d = DOMAIN NewDevice
  BY DEF Formed, FormedInstance
<1>2. SetNetworkInstance(d, DefaultNetwork, ni) = d
  BY SameInstance DEF HasInstance
<1>3. g.as = node.as /\ g.routerID = node.routerID /\ (IsIBGPEnabled(Design) => g.families = A)
  BY DEF HasBGP
<1>4. GetOrCreateNetworkInstance(d, DefaultNetwork) = ni
  BY DEF DefaultInstance
<1> HIDE DEF ni, A, P
<1>5. [ni EXCEPT !.bgp = g] = ni
  BY <1>1 DEF IsMap, NewNetworkInstance
<1>6. GetOrCreateBGP(d, DefaultNetwork) = g /\ SetBGP(d, DefaultNetwork, g) = d
  BY <1>2, <1>4, <1>5 DEF GetOrCreateBGP, SetBGP
<1> HIDE DEF g
<1>7. /\ [g EXCEPT !.as = node.as] = g /\ [g EXCEPT !.routerID = node.routerID] = g
      /\ IsIBGPEnabled(Design) => [g EXCEPT !.families = A] = g
  BY <1>1, <1>3 DEF IsMap, NewBGP
<1>8. /\ AddBGPAS(d, DefaultNetwork, node.as) = d /\ AddBGPRouterID(d, DefaultNetwork, node.routerID) = d
      /\ IsIBGPEnabled(Design) => AddBGPAddressFamilies(d, DefaultNetwork, A) = d
  BY <1>6, <1>7 DEF AddBGPAS, AddBGPRouterID, AddBGPAddressFamilies
<1>9. /\ IsEBGPEnabled(Design) => Put(d.policies, "underlay", P) = d.policies
      /\ IsIBGPEnabled(Design) => Put(d.policies, "overlay", {}) = d.policies
  BY PutMapsTo DEF HasBGP, P
<1>10. [d EXCEPT !.policies = d.policies] = d
  BY <1>1 DEF IsMap, NewDevice
<1>11. /\ IsEBGPEnabled(Design) => AddRoutingPolicy(d, "underlay", P) = d
       /\ IsIBGPEnabled(Design) => AddRoutingPolicy(d, "overlay", {}) = d
  BY <1>9, <1>10 DEF AddRoutingPolicy
<1>12. IsBGPEVPNEnabled(Design) => AddSystemProtocolsBGPVPN(d) = d
  BY <1>1 DEF AddSystemProtocolsBGPVPN, HasBGP, IsMap, NewDevice
<1>13. QED BY <1>8, <1>11, <1>12 DEF UpdateUnderlayBGPNode, A, P

Based(d, n, node) ==
    /\ Formed(d) /\ HasHardware(d, n, node) /\ HasInstance(d)
    /\ IsOSPFEnabled(Design) => HasOSPF(DefaultInstance(d).ospf, node)
    /\ IsISISEnabled(Design) => HasISIS(DefaultInstance(d).isis)
    /\ HasBGP(d, node)
    /\ IsMap(d.bfd) /\ IsMap(DefaultInstance(d).bgp.neighbors)
    /\ IsMap(DefaultInstance(d).bgp.dynamicNeighbors) /\ IsMap(DefaultInstance(d).bgp.peerGroups)

BaseStages(d, n, node) ==
    LET d1 == HardwareOn(d, n, node)
        d2 == AddNetworkInstanceSubInterface(AddNetworkInstance(d1, DefaultNetwork, "default"),
                                             DefaultNetwork, System)
        d3 == IF IsOSPFEnabled(Design) THEN OSPFOn(d2, node) ELSE d2
        d4 == IF IsISISEnabled(Design) THEN ISISOn(d3) ELSE d3
    IN  IF IsIBGPEnabled(Design) \/ IsEBGPEnabled(Design) THEN UpdateUnderlayBGPNode(d4, node) ELSE d4

LEMMA BaseHasStages ==
    ASSUME NEW d, NEW n, NEW node PROVE UpdateBaseDeviceConfig(d, n, node) = BaseStages(d, n, node)
  BY DEF UpdateBaseDeviceConfig, UpdateUnderlayNetworkInstance, UpdateUnderlayOSPFNode, UpdateUnderlayISISNode,
         BaseStages, HardwareOn, OSPFOn, ISISOn, System, SystemSubInterface, SystemOSPF, SystemISIS, Levels

LEMMA NewDeviceFormed ==
    Formed(NewDevice) /\ DefaultInstance(NewDevice) = NewNetworkInstance /\ DOMAIN NewDevice.instances = {}
<1>1. DOMAIN NewDevice.instances = {} /\ IsMap(NewDevice) /\ IsMap(NewDevice.instances)
  BY EmptyMap DEF NewDevice, IsMap
<1>2. DefaultInstance(NewDevice) = NewNetworkInstance
  BY <1>1 DEF DefaultInstance, GetOrCreateNetworkInstance, GetOrCreate
<1>3. FormedInstance(NewNetworkInstance)
  BY DEF FormedInstance, NewNetworkInstance, NewBGP, IsMap
<1>4. QED BY <1>1, <1>2, <1>3 DEF Formed

LEMMA BaseMade ==
    ASSUME NEW n, NEW node PROVE Based(UpdateBaseDeviceConfig(NewDevice, n, node), n, node)
<1> DEFINE d == NewDevice
           d1 == HardwareOn(d, n, node)
           d2 == AddNetworkInstanceSubInterface(AddNetworkInstance(d1, DefaultNetwork, "default"),
                                                DefaultNetwork, System)
           d3 == IF IsOSPFEnabled(Design) THEN OSPFOn(d2, node) ELSE d2
           d4 == IF IsISISEnabled(Design) THEN ISISOn(d3) ELSE d3
           d5 == IF IsIBGPEnabled(Design) \/ IsEBGPEnabled(Design) THEN UpdateUnderlayBGPNode(d4, node) ELSE d4
           F == {"provider", "interfaces", "subInterfaces", "tunnels"}
<1>1. UpdateBaseDeviceConfig(NewDevice, n, node) = d5
  BY BaseHasStages DEF BaseStages
<1>2. /\ Formed(d) /\ DOMAIN d = DOMAIN NewDevice /\ d.bfd = <<>>
      /\ DOMAIN DefaultInstance(d) = DOMAIN NewNetworkInstance
      /\ DefaultInstance(d).interfaces = <<>>
      /\ DefaultInstance(d).ospf = <<>> /\ DefaultInstance(d).isis = <<>>
      /\ DOMAIN DefaultInstance(d).bgp = DOMAIN NewBGP
      /\ DefaultInstance(d).bgp.neighbors = <<>> /\ DefaultInstance(d).bgp.dynamicNeighbors = <<>>
      /\ DefaultInstance(d).bgp.peerGroups = <<>>
  <2>1. d.bfd = <<>>
    BY DEF NewDevice
  <2>2. /\ NewNetworkInstance.interfaces = <<>>
        /\ NewNetworkInstance.ospf = <<>> /\ NewNetworkInstance.isis = <<>> /\ NewNetworkInstance.bgp = NewBGP
        /\ NewBGP.neighbors = <<>> /\ NewBGP.dynamicNeighbors = <<>> /\ NewBGP.peerGroups = <<>>
    BY DEF NewNetworkInstance, NewBGP
  <2>3. QED BY <2>1, <2>2, NewDeviceFormed
<1> HIDE DEF d
<1>3. Touched(F, {}, {}, d, d1) /\ HasHardware(d1, n, node)
  BY <1>2, HardwareMade
<1> HIDE DEF d1
<1>3a. Formed(d1) /\ IsList(DefaultInstance(d1).interfaces)
  <2>1. Formed(d1) /\ DefaultInstance(d1).interfaces = DefaultInstance(d).interfaces
    BY <1>2, <1>3 DEF Touched, AllBut, NewNetworkInstance
  <2>2. QED BY <1>2, <2>1, EmptyList
<1>4. Touched({"instances"}, {"type", "interfaces"}, {}, d1, d2) /\ HasInstance(d2)
  BY <1>3a, InstanceMade
<1> HIDE DEF d2
<1>5. Touched(F \cup {"instances"}, {"type", "interfaces"}, {}, d, d2)
  BY <1>3, <1>4, TouchedTwice
<1>6. Formed(d2) /\ DefaultInstance(d2).ospf = <<>>
  BY <1>2, <1>5 DEF Touched, AllBut, NewNetworkInstance
<1>7. /\ Touched({"instances"}, {"ospf"}, {}, d2, d3)
      /\ IsOSPFEnabled(Design) => HasOSPF(DefaultInstance(d3).ospf, node)
  BY <1>6, OSPFMade, Untouched
<1> HIDE DEF d3
<1>8. Touched(F \cup {"instances"}, {"type", "interfaces", "ospf"}, {}, d, d3)
  BY <1>5, <1>7, TouchedTwice
<1>9. Formed(d3) /\ DefaultInstance(d3).isis = <<>>
  BY <1>2, <1>8 DEF Touched, AllBut, NewNetworkInstance
<1>10. /\ Touched({"instances"}, {"isis"}, {}, d3, d4)
       /\ IsISISEnabled(Design) => HasISIS(DefaultInstance(d4).isis)
  BY <1>9, ISISMade, Untouched
<1> HIDE DEF d4
<1>11. Formed(d4)
  BY <1>10 DEF Touched
<1>12. /\ Touched({"instances", "policies", "systemBGPVPN"}, {"bgp"}, {"as", "routerID", "families"}, d4, d5)
       /\ HasBGP(d5, node)
  <2>1. CASE IsIBGPEnabled(Design) \/ IsEBGPEnabled(Design)
    BY <1>11, <2>1, BGPMade
  <2>2. CASE ~(IsIBGPEnabled(Design) \/ IsEBGPEnabled(Design))
    BY <1>11, <2>2, Untouched DEF HasBGP
  <2>3. QED BY <2>1, <2>2
<1> HIDE DEF d5
<1>13. Touched({"instances", "policies", "systemBGPVPN"}, {"isis", "bgp"}, {"as", "routerID", "families"}, d3, d5)
  BY <1>10, <1>12, TouchedTwice
<1>14. Touched({"instances", "policies", "systemBGPVPN"}, {"ospf", "isis", "bgp"}, {"as", "routerID", "families"},
               d2, d5)
  BY <1>7, <1>13, TouchedTwice
<1>15. Touched({"instances", "policies", "systemBGPVPN"}, {"type", "interfaces", "ospf", "isis", "bgp"},
               {"as", "routerID", "families"}, d1, d5)
  BY <1>4, <1>14, TouchedTwice
<1>16. Touched(F \cup {"instances", "policies", "systemBGPVPN"}, {"type", "interfaces", "ospf", "isis", "bgp"},
               {"as", "routerID", "families"}, d, d5)
  BY <1>3, <1>15, TouchedTwice
<1>17. Formed(d5)
  BY <1>12 DEF Touched
<1>18. HasHardware(d5, n, node)
  <2>1. DOMAIN d1 = DOMAIN NewDevice
    BY <1>3 DEF Touched, Formed
  <2>2. /\ d5.provider = d1.provider /\ d5.interfaces = d1.interfaces
        /\ d5.subInterfaces = d1.subInterfaces /\ d5.tunnels = d1.tunnels
    BY <1>15, <2>1 DEF Touched, AllBut, NewDevice
  <2>3. QED BY <1>3, <2>2 DEF HasHardware
<1>19. HasInstance(d5)
  <2>1. DOMAIN DefaultInstance(d2) = DOMAIN NewNetworkInstance
    BY <1>6 DEF Formed, FormedInstance
  <2>2. /\ AllBut({"ospf", "isis", "bgp"}, DefaultInstance(d2), DefaultInstance(d5))
        /\ DefaultNetwork \in DOMAIN d5.instances
    BY <1>4, <1>14 DEF Touched, HasInstance
  <2>3. /\ DefaultInstance(d5).type = DefaultInstance(d2).type
        /\ DefaultInstance(d5).interfaces = DefaultInstance(d2).interfaces
    BY <2>1, <2>2 DEF AllBut, NewNetworkInstance
  <2>4. QED BY <1>4, <2>2, <2>3 DEF HasInstance
<1>20. DefaultInstance(d5).ospf = DefaultInstance(d3).ospf
  <2>1. DOMAIN DefaultInstance(d3) = DOMAIN NewNetworkInstance
    BY <1>9 DEF Formed, FormedInstance
  <2>2. AllBut({"isis", "bgp"}, DefaultInstance(d3), DefaultInstance(d5))
    BY <1>13 DEF Touched
  <2>3. QED BY <2>1, <2>2 DEF AllBut, NewNetworkInstance
<1>21. DefaultInstance(d5).isis = DefaultInstance(d4).isis
  <2>1. DOMAIN DefaultInstance(d4) = DOMAIN NewNetworkInstance
    BY <1>11 DEF Formed, FormedInstance
  <2>2. AllBut({"bgp"}, DefaultInstance(d4), DefaultInstance(d5))
    BY <1>12 DEF Touched
  <2>3. QED BY <2>1, <2>2 DEF AllBut, NewNetworkInstance
<1>22. /\ IsMap(d5.bfd) /\ IsMap(DefaultInstance(d5).bgp.neighbors)
       /\ IsMap(DefaultInstance(d5).bgp.dynamicNeighbors) /\ IsMap(DefaultInstance(d5).bgp.peerGroups)
  <2>1. d5.bfd = <<>>
    BY <1>2, <1>16 DEF Touched, AllBut, NewDevice
  <2>2. AllBut({"as", "routerID", "families"}, DefaultInstance(d).bgp, DefaultInstance(d5).bgp)
    BY <1>16 DEF Touched
  <2>3. /\ DefaultInstance(d5).bgp.neighbors = <<>> /\ DefaultInstance(d5).bgp.dynamicNeighbors = <<>>
        /\ DefaultInstance(d5).bgp.peerGroups = <<>>
    BY <1>2, <2>2 DEF AllBut, NewBGP
  <2>4. QED BY <2>1, <2>3, EmptyMap
<1>23. Based(d5, n, node)
  BY <1>7, <1>10, <1>12, <1>17, <1>18, <1>19, <1>20, <1>21, <1>22 DEF Based
<1>24. QED BY <1>1, <1>23

LEMMA BaseAgain ==
    ASSUME NEW d, NEW n, NEW node, Based(d, n, node) PROVE UpdateBaseDeviceConfig(d, n, node) = d
<1>1. HardwareOn(d, n, node) = d
  BY HardwareAgain DEF Based
<1>2. AddNetworkInstanceSubInterface(AddNetworkInstance(d, DefaultNetwork, "default"), DefaultNetwork, System) = d
  BY InstanceAgain DEF Based
<1>3. IsOSPFEnabled(Design) => OSPFOn(d, node) = d
  BY OSPFAgain DEF Based
<1>4. IsISISEnabled(Design) => ISISOn(d) = d
  BY ISISAgain DEF Based
<1>5. IsIBGPEnabled(Design) \/ IsEBGPEnabled(Design) => UpdateUnderlayBGPNode(d, node) = d
  BY BGPAgain DEF Based
<1>6. BaseStages(d, n, node) = d
  BY <1>1, <1>2, <1>3, <1>4, <1>5 DEF BaseStages
<1>7. QED BY <1>6, BaseHasStages

LEMMA BaseFilled ==
    ASSUME NEW d, NEW n, NEW node, Based(d, n, node) PROVE Ready(d) /\ DeviceFilled(d, d, {})
<1> DEFINE ni == DefaultInstance(d)
<1>1. Ready(d)
  BY DEF Based, Ready, HasOSPF, HasISIS
<1>2. /\ InterfaceWrites({}) = {} /\ SubWrites({}) = {} /\ BFDWrites({}) = {}
      /\ ISISWrites({}) = {} /\ NeighborWrites({}) = {} /\ DynamicWrites({}) = {} /\ GroupWrites({}) = {}
      /\ AreasOf({}) = {} /\ \A a : AreaWrites(a, {}) = {}
  BY DEF InterfaceWrites, SubWrites, BFDWrites, ISISWrites, NeighborWrites, DynamicWrites, GroupWrites,
         AreasOf, AreaWrites
<1>3. \A F, r : IsMap(r) => AllBut(F, r, r)
  BY DEF AllBut
<1>4. /\ IsMap(d) /\ IsMap(d.interfaces) /\ IsMap(d.subInterfaces) /\ IsMap(d.bfd)
      /\ IsMap(d.instances) /\ DOMAIN d.instances = {DefaultNetwork}
      /\ IsMap(ni) /\ IsMap(ni.bgp)
      /\ IsMap(ni.bgp.neighbors) /\ IsMap(ni.bgp.dynamicNeighbors) /\ IsMap(ni.bgp.peerGroups)
  BY DEF Based, Formed, FormedInstance, HasHardware, HasInstance, MapsTo
<1>5. OSPFFilled(ni.ospf, ni.ospf, {})
  <2>1. CASE IsOSPFEnabled(Design)
    <3> DEFINE o == ni.ospf[1]
    <3>1. ni.ospf = <<o>> /\ IsMap(o) /\ IsMap(o.areas) /\ \A a \in DOMAIN o.areas : IsMap(o.areas[a])
      BY <2>1 DEF Based, HasOSPF, OSPFFormed
    <3> HIDE DEF o
    <3>2. AllBut({"areas"}, o, o)
      BY <1>3, <3>1
    <3>3. \A a \in DOMAIN o.areas : Filled(o.areas[a], GetOrCreate(o.areas, a, <<>>), AreaWrites(a, {}))
      BY <1>2, <3>1, FilledNone DEF GetOrCreate
    <3>4. DOMAIN o.areas = DOMAIN o.areas \cup AreasOf({})
      BY <1>2
    <3>5. QED BY <2>1, <3>1, <3>2, <3>3, <3>4 DEF OSPFFilled, o
  <2>2. CASE ~IsOSPFEnabled(Design)
    BY <2>2 DEF OSPFFilled
  <2>3. QED BY <2>1, <2>2
<1>6. ISISFilled(ni.isis, ni.isis, {})
  <2>1. CASE IsISISEnabled(Design)
    <3> DEFINE i == ni.isis[1]
    <3>1. ni.isis = <<i>> /\ IsMap(i) /\ IsMap(i.interfaces)
      BY <2>1 DEF Based, HasISIS, ISISFormed
    <3> HIDE DEF i
    <3>2. AllBut({"interfaces"}, i, i) /\ Filled(i.interfaces, i.interfaces, ISISWrites({}))
      BY <1>2, <1>3, <3>1, FilledNone
    <3>3. QED BY <2>1, <3>1, <3>2 DEF ISISFilled, i
  <2>2. CASE ~IsISISEnabled(Design)
    BY <2>2 DEF ISISFilled
  <2>3. QED BY <2>1, <2>2
<1> HIDE DEF ni
<1>7. BGPFilled(ni.bgp, ni.bgp, {})
  BY <1>2, <1>3, <1>4, FilledNone DEF BGPFilled
<1>8. IsList(ni.interfaces) /\ Range(ni.interfaces) = Range(ni.interfaces) \cup {SubOf(q) : q \in {}}
  BY DEF Based, HasInstance, ni
<1>9. InstanceFilled(ni, ni, {})
  BY <1>3, <1>4, <1>5, <1>6, <1>7, <1>8 DEF InstanceFilled
<1>10. DeviceFilled(d, d, {})
  BY <1>2, <1>3, <1>4, <1>9, FilledNone DEF DeviceFilled, ni
<1>11. QED BY <1>1, <1>10

-----------------------------------------------------------------------------
(* One more link.                                                          *)

DevicesFilled(ds, S) ==
    IsMap(ds) /\ \A n \in DOMAIN ds : DeviceFilled(ds[n], Base(n), EndsAt(n, S))

LEMMA BaseReady == \A n : Based(Base(n), n, GatherNodeInfo(n)) /\ Ready(Base(n)) /\ DeviceFilled(Base(n), Base(n), {})
  BY BaseMade, BaseFilled DEF Base

LEMMA WithBaseFilled ==
    ASSUME NEW ds, NEW S, DevicesFilled(ds, S), NEW gathered, NEW m, gathered[m] = GatherNodeInfo(m),
           \A n \in DOMAIN ds : n \notin nodeSet => ds[n] = Base(n),
           nodeSet \subseteq DOMAIN ds, \A q \in S : EndOf(q).node \in nodeSet
    PROVE  LET ds2 == WithBaseConfig(ds, gathered, m)
           IN  /\ DevicesFilled(ds2, S) /\ \A n \in DOMAIN ds2 : n \notin nodeSet => ds2[n] = Base(n)
               /\ \A n : n \in DOMAIN ds2 <=> n \in DOMAIN ds \/ n = m
<1> DEFINE ds2 == WithBaseConfig(ds, gathered, m)
<1>1. CASE m \in nodeSet
  <2>1. ds2 = ds
    BY <1>1 DEF WithBaseConfig
  <2> HIDE DEF ds2
  <2>2. QED BY <1>1, <2>1 DEF ds2
<1>2. CASE m \notin nodeSet
  <2>1. ds2 = Put(ds, m, UpdateBaseDeviceConfig(GetOrCreateDevice(ds, m), m, GatherNodeInfo(m)))
    BY <1>2 DEF WithBaseConfig
  <2>2. UpdateBaseDeviceConfig(GetOrCreateDevice(ds, m), m, GatherNodeInfo(m)) = Base(m)
    <3>1. CASE m \in DOMAIN ds
      <4>1. GetOrCreateDevice(ds, m) = Base(m)
        BY <1>2, <3>1 DEF GetOrCreateDevice, GetOrCreate
      <4>2. QED BY <4>1, BaseReady, BaseAgain
    <3>2. CASE m \notin DOMAIN ds
      BY <3>2 DEF GetOrCreateDevice, GetOrCreate, Base
    <3>3. QED BY <3>1, <3>2
  <2> HIDE DEF ds2
  <2>3. ds2 = Put(ds, m, Base(m))
    BY <2>1, <2>2
  <2>4. IsMap(ds2) /\ \A n : n \in DOMAIN ds2 <=> n \in DOMAIN ds \/ n = m
    BY <2>3, PutMap
  <2>5. \A n \in DOMAIN ds2 : ds2[n] = IF n = m THEN Base(m) ELSE ds[n]
    BY <2>3, <2>4, PutAt
  <2>6. EndsAt(m, S) = {}
    BY <1>2 DEF EndsAt
  <2>7. \A n \in DOMAIN ds2 : DeviceFilled(ds2[n], Base(n), EndsAt(n, S))
    BY <2>4, <2>5, <2>6, BaseReady DEF DevicesFilled
  <2>8. \A n \in DOMAIN ds2 : n \notin nodeSet => ds2[n] = Base(n)
    BY <2>4, <2>5
  <2>9. QED BY <2>4, <2>7, <2>8 DEF DevicesFilled, ds2
<1>3. QED BY <1>1, <1>2

LEMMA WithEndFilled ==
    ASSUME NEW ds, NEW S, DevicesFilled(ds, S), NEW l, NEW i, l.ends[i].node \in DOMAIN ds,
           Agrees(EndsAt(l.ends[i].node, S), <<l, i>>)
    PROVE  LET ds2 == WithEnd(ds, l, i)
           IN  DevicesFilled(ds2, S \cup {<<l, i>>}) /\ \A n : n \in DOMAIN ds2 <=> n \in DOMAIN ds
<1> DEFINE q == <<l, i>>
           m == l.ends[i].node
           ds2 == WithEnd(ds, l, i)
           d == UpdateUnderlayInterface(ds[m], EndOf(q), PeerOf(q), q[1])
<1>1. EndOf(q) = l.ends[i] /\ PeerOf(q) = l.ends[3 - i] /\ q[1] = l
  BY DEF EndOf, PeerOf
<1>2. ds2 = Put(ds, m, d)
  BY <1>1 DEF WithEnd, GetOrCreateDevice, GetOrCreate
<1>3. DeviceFilled(d, Base(m), EndsAt(m, S) \cup {q})
  BY BaseReady, EndFilled DEF DevicesFilled
<1> HIDE DEF d, ds2
<1>4. IsMap(ds2) /\ \A n : n \in DOMAIN ds2 <=> n \in DOMAIN ds \/ n = m
  BY <1>2, PutMap
<1>5. \A n \in DOMAIN ds2 : ds2[n] = IF n = m THEN d ELSE ds[n]
  BY <1>2, <1>4, PutAt
<1>6. \A n : EndsAt(n, S \cup {q}) = IF n = m THEN EndsAt(m, S) \cup {q} ELSE EndsAt(n, S)
  BY <1>1 DEF EndsAt
<1>7. ASSUME NEW n \in DOMAIN ds2 PROVE DeviceFilled(ds2[n], Base(n), EndsAt(n, S \cup {q}))
  <2> HIDE DEF q
  <2>1. CASE n = m
    BY <1>3, <1>5, <1>6, <2>1
  <2>2. CASE n # m
    BY <1>4, <1>5, <1>6, <2>2 DEF DevicesFilled
  <2>3. QED BY <2>1, <2>2
<1>8. QED BY <1>4, <1>7 DEF DevicesFilled, ds2

LEMMA LinksAgree ==
    ASSUME ~OrderMatters, NEW L \in SUBSET GetLinks(input), NEW l \in GetLinks(input), l \notin L
    PROVE  /\ Agrees(EndsAt(l.ends[1].node, EndsOf(L)), <<l, 1>>)
           /\ Agrees(EndsAt(l.ends[2].node, EndsOf(L) \cup {<<l, 1>>}), <<l, 2>>)
<1>1. ASSUME NEW i \in 1 .. 2, NEW r \in EndsOf(L), EndOf(r).node = l.ends[i].node PROVE AgreeOn(r, <<l, i>>)
  <2>1. PICK k \in L, j \in 1 .. 2 : r = <<k, j>>
    BY DEF EndsOf
  <2>2. k \in GetLinks(input) /\ k # l /\ k.ends[j].node = l.ends[i].node
    BY <1>1, <2>1 DEF EndOf
  <2>3. NodesOf(l) \cap NodesOf(k) # {}
    <3>1. \A x \in 1 .. 2 : x = 1 \/ x = 2
      OBVIOUS
    <3>2. l.ends[i].node \in NodesOf(l) /\ k.ends[j].node \in NodesOf(k)
      BY <3>1 DEF NodesOf
    <3>3. QED BY <2>2, <3>2
  <2>4. BGPBFD(l) = BGPBFD(k)
    BY <2>2, <2>3 DEF OrderMatters
  <2>5. \A x, y \in 1 .. 2 : l.ends[x].node = k.ends[y].node => l.ends[x].ep # k.ends[y].ep
    BY <2>2 DEF OrderMatters
  <2>6. 3 - i \in 1 .. 2 /\ 3 - j \in 1 .. 2
    OBVIOUS
  <2>7. k.ends[j].ep # l.ends[i].ep
    BY <2>2, <2>5
  <2>8. ~(k.ends[3 - j].node = l.ends[3 - i].node /\ k.ends[3 - j].ep = l.ends[3 - i].ep)
    BY <2>5, <2>6
  <2>9. QED BY <2>1, <2>2, <2>4, <2>7, <2>8 DEF AgreeOn, EndOf, PeerOf
<1>2. l.ends[1].node = l.ends[2].node => AgreeOn(<<l, 1>>, <<l, 2>>)
  BY DEF AgreeOn, EndOf, PeerOf
<1>3. EndOf(<<l, 1>>) = l.ends[1]
  BY DEF EndOf
<1>4. QED BY <1>1, <1>2, <1>3 DEF Agrees, EndsAt

\* The loop over the links keeps to what the links walked determine.
LEMMA LinkFilled ==
    ASSUME ~OrderMatters, NEW L \in SUBSET GetLinks(input), NEW l \in GetLinks(input), l \notin L,
           NEW ds, NEW rx, UnderlayOf(ds, rx, L), nodeSet = DOMAIN ds,
           NEW gathered, \A n \in NodesOf(l) : gathered[n] = GatherNodeInfo(n)
    PROVE  LET base == WithBaseConfig(WithBaseConfig(ds, gathered, l.ends[1].node), gathered, l.ends[2].node)
           IN  UnderlayOf(WithEnd(WithEnd(base, l, 1), l, 2),
                          IF IsBFDEnabled(Design) THEN Override(l.bfd.minRx, rx) ELSE rx, L \cup {l})
<1> DEFINE n1 == l.ends[1].node
           n2 == l.ends[2].node
           b1 == WithBaseConfig(ds, gathered, n1)
           b2 == WithBaseConfig(b1, gathered, n2)
           e1 == WithEnd(b2, l, 1)
           e2 == WithEnd(e1, l, 2)
           S == EndsOf(L)
           S1 == S \cup {<<l, 1>>}
           S2 == S1 \cup {<<l, 2>>}
           rx2 == IF IsBFDEnabled(Design) THEN Override(l.bfd.minRx, rx) ELSE rx
<1>1. /\ NodesOf(l) = {n1, n2} /\ gathered[n1] = GatherNodeInfo(n1) /\ gathered[n2] = GatherNodeInfo(n2)
      /\ DevicesFilled(ds, S) /\ DOMAIN ds = UNION {NodesOf(k) : k \in L} /\ TimerAfter(rx, L)
  BY DEF NodesOf, UnderlayOf, DevicesFilled
<1>2. \A q \in S : EndOf(q).node \in nodeSet
  <2> SUFFICES ASSUME NEW q \in S PROVE EndOf(q).node \in nodeSet
    OBVIOUS
  <2>1. PICK k \in L, j \in 1 .. 2 : q = <<k, j>>
    BY DEF EndsOf
  <2>2. \A x \in 1 .. 2 : x = 1 \/ x = 2
    OBVIOUS
  <2>3. EndOf(q).node \in NodesOf(k)
    BY <2>1, <2>2 DEF EndOf, NodesOf
  <2>4. QED BY <1>1, <2>3
<1>3. /\ Agrees(EndsAt(n1, S), <<l, 1>>) /\ Agrees(EndsAt(n2, S1), <<l, 2>>)
  BY LinksAgree
<1> HIDE DEF S
<1>4. /\ DevicesFilled(b1, S) /\ \A n \in DOMAIN b1 : n \notin nodeSet => b1[n] = Base(n)
      /\ \A n : n \in DOMAIN b1 <=> n \in DOMAIN ds \/ n = n1
  BY <1>1, <1>2, WithBaseFilled
<1> HIDE DEF b1
<1>5. /\ DevicesFilled(b2, S) /\ \A n : n \in DOMAIN b2 <=> n \in DOMAIN b1 \/ n = n2
  BY <1>1, <1>2, <1>4, WithBaseFilled
<1> HIDE DEF b2
<1>6. DevicesFilled(e1, S1) /\ \A n : n \in DOMAIN e1 <=> n \in DOMAIN b2
  BY <1>3, <1>4, <1>5, WithEndFilled
<1> HIDE DEF e1
<1>7. DevicesFilled(e2, S2) /\ \A n : n \in DOMAIN e2 <=> n \in DOMAIN e1
  BY <1>3, <1>5, <1>6, WithEndFilled
<1> HIDE DEF e2
<1>8. DOMAIN e2 = UNION {NodesOf(k) : k \in L \cup {l}}
  <2>1. \A n : n \in DOMAIN e2 <=> n \in UNION {NodesOf(k) : k \in L} \/ n \in NodesOf(l)
    BY <1>1, <1>4, <1>5, <1>6, <1>7
  <2> HIDE DEF n1, n2
  <2>2. QED BY <2>1
<1>9. EndsOf(L \cup {l}) = S2
  BY DEF EndsOf, S
<1>10. TimerAfter(rx2, L \cup {l})
  <2>1. CASE ~IsBFDEnabled(Design)
    BY <1>1, <2>1 DEF TimerAfter
  <2>2. CASE IsBFDEnabled(Design) /\ l.bfd.minRx = <<>>
    <3>1. rx2 = rx
      BY <2>2 DEF Override
    <3> HIDE DEF rx2
    <3>2. QED BY <1>1, <2>2, <3>1 DEF TimerAfter
  <2>3. CASE IsBFDEnabled(Design) /\ l.bfd.minRx # <<>>
    <3>1. rx2 = l.bfd.minRx[1]
      BY <2>3 DEF Override
    <3>2. \A k \in L : k.bfd.minRx # <<>> => k.bfd.minRx = l.bfd.minRx
      BY <2>3 DEF OrderMatters
    <3> HIDE DEF rx2
    <3>3. QED BY <2>3, <3>1, <3>2 DEF TimerAfter
  <2>4. QED BY <2>1, <2>2, <2>3
<1>11. UnderlayOf(e2, rx2, L \cup {l})
  <2> HIDE DEF rx2, S2
  <2>1. QED BY <1>7, <1>8, <1>9, <1>10 DEF UnderlayOf, DevicesFilled
<1>12. QED BY <1>11 DEF b1, b2, e1, e2

-----------------------------------------------------------------------------
(* The links determine the devices but for the order in which the instance *)
(* lists its sub-interfaces.                                               *)

Alike(c, d) ==
    /\ Formed(c) /\ Formed(d) /\ AllBut({"instances"}, c, d)
    /\ DOMAIN c.instances = {DefaultNetwork} /\ DOMAIN d.instances = {DefaultNetwork}
    /\ AllBut({"interfaces"}, DefaultInstance(c), DefaultInstance(d))
    /\ Range(DefaultInstance(c).interfaces) = Range(DefaultInstance(d).interfaces)

AllAlike(ds, es) == DOMAIN ds = DOMAIN es /\ \A n \in DOMAIN ds : Alike(ds[n], es[n])

LEMMA InstanceUnique ==
    ASSUME NEW b, NEW T, NEW ni, NEW nj, InstanceFilled(ni, b, T), InstanceFilled(nj, b, T)
    PROVE  AllBut({"interfaces"}, ni, nj) /\ Range(ni.interfaces) = Range(nj.interfaces)
<1>1. Range(ni.interfaces) = Range(nj.interfaces) /\ ni.ospf = nj.ospf /\ ni.isis = nj.isis /\ ni.bgp = nj.bgp
  BY OSPFUnique, ISISUnique, BGPUnique DEF InstanceFilled
<1>2. AllBut({"interfaces", "ospf", "isis", "bgp"}, b, ni)
  BY DEF InstanceFilled
<1>3. AllBut({"interfaces", "ospf", "isis", "bgp"}, b, nj)
  BY DEF InstanceFilled
<1>4. QED BY <1>1, <1>2, <1>3 DEF AllBut

LEMMA DeviceUnique ==
    ASSUME NEW b, Formed(b), NEW T, NEW c, NEW d, DeviceFilled(c, b, T), DeviceFilled(d, b, T)
    PROVE  Alike(c, d)
<1>1. c.interfaces = d.interfaces /\ c.subInterfaces = d.subInterfaces /\ c.bfd = d.bfd
  BY FilledUnique DEF DeviceFilled
<1>2. /\ AllBut({"interfaces"}, DefaultInstance(c), DefaultInstance(d))
      /\ Range(DefaultInstance(c).interfaces) = Range(DefaultInstance(d).interfaces)
  BY InstanceUnique DEF DeviceFilled
<1>3. Formed(c) /\ Formed(d) /\ DOMAIN c.instances = {DefaultNetwork} /\ DOMAIN d.instances = {DefaultNetwork}
  BY FilledDeviceFormed DEF DeviceFilled
<1>4. AllBut({"interfaces", "subInterfaces", "bfd", "instances"}, b, c)
  BY DEF DeviceFilled
<1>5. AllBut({"interfaces", "subInterfaces", "bfd", "instances"}, b, d)
  BY DEF DeviceFilled
<1>6. AllBut({"instances"}, c, d)
  BY <1>1, <1>4, <1>5 DEF AllBut
<1>7. QED BY <1>2, <1>3, <1>6 DEF Alike

LEMMA UnderlayUnique ==
    ASSUME NEW L, NEW ds, NEW es, NEW rx, NEW ry, UnderlayOf(ds, rx, L), UnderlayOf(es, ry, L)
    PROVE  AllAlike(ds, es) /\ rx = ry
<1>1. AllAlike(ds, es)
  <2>1. \A n : Formed(Base(n))
    BY BaseReady DEF Ready
  <2>2. \A n \in DOMAIN ds : Alike(ds[n], es[n])
    BY <2>1, DeviceUnique DEF UnderlayOf
  <2>3. QED BY <2>2 DEF UnderlayOf, AllAlike
<1>2. rx = ry
  BY DEF UnderlayOf, TimerAfter
<1>3. QED BY <1>1, <1>2

\* The same BGP keeps devices alike.
LEMMA SetBGPAlike ==
    ASSUME NEW c, NEW d, Alike(c, d), NEW H, NEW bgp, AllBut(H, DefaultInstance(c).bgp, bgp)
    PROVE  /\ Alike(SetBGP(c, DefaultNetwork, bgp), SetBGP(d, DefaultNetwork, bgp))
           /\ DefaultInstance(SetBGP(c, DefaultNetwork, bgp)).bgp = bgp
<1> DEFINE c2 == SetBGP(c, DefaultNetwork, bgp)
           d2 == SetBGP(d, DefaultNetwork, bgp)
           i == DefaultInstance(c)
           j == DefaultInstance(d)
           i2 == DefaultInstance(c2)
           j2 == DefaultInstance(d2)
<1>1. /\ Formed(c) /\ Formed(d) /\ AllBut({"instances"}, c, d) /\ AllBut({"interfaces"}, i, j)
      /\ Range(i.interfaces) = Range(j.interfaces)
      /\ DOMAIN i = DOMAIN NewNetworkInstance /\ DOMAIN j = DOMAIN NewNetworkInstance
      /\ DOMAIN c = DOMAIN NewDevice /\ DOMAIN d = DOMAIN NewDevice
  BY DEF Alike, Formed, FormedInstance
<1>2. i.bgp = j.bgp
  BY <1>1 DEF AllBut, NewNetworkInstance
<1>3. Touched({"instances"}, {"bgp"}, H, c, c2) /\ i2.bgp = bgp /\ DefaultNetwork \in DOMAIN c2.instances
  BY <1>1, BGPTouched
<1>4. Touched({"instances"}, {"bgp"}, H, d, d2) /\ j2.bgp = bgp /\ DefaultNetwork \in DOMAIN d2.instances
  BY <1>1, <1>2, BGPTouched
<1> HIDE DEF c2, d2
<1>5. /\ Formed(c2) /\ Formed(d2) /\ AllBut({"instances"}, c, c2) /\ AllBut({"instances"}, d, d2)
      /\ AllBut({"bgp"}, i, i2) /\ AllBut({"bgp"}, j, j2)
  BY <1>3, <1>4 DEF Touched
<1>6. DOMAIN c2.instances = {DefaultNetwork} /\ DOMAIN d2.instances = {DefaultNetwork}
  BY <1>3, <1>4, <1>5 DEF Formed
<1> HIDE DEF i, j, i2, j2
<1>7. AllBut({"instances"}, c2, d2)
  BY <1>1, <1>5 DEF AllBut
<1>8. AllBut({"interfaces"}, i2, j2)
  BY <1>1, <1>3, <1>4, <1>5 DEF AllBut
<1>9. Range(i2.interfaces) = Range(j2.interfaces)
  BY <1>1, <1>5 DEF AllBut, NewNetworkInstance
<1>10. Alike(c2, d2)
  BY <1>5, <1>6, <1>7, <1>8, <1>9 DEF Alike, i2, j2
<1>11. QED BY <1>3, <1>10 DEF c2, d2, i2

LEMMA SessionsAlike ==
    ASSUME NEW c, NEW d, Alike(c, d), NEW x, NEW local, NEW peers
    PROVE  Alike(WithSessions(AddBGPPeerGroup(c, DefaultNetwork, "overlay", x), local, peers),
                 WithSessions(AddBGPPeerGroup(d, DefaultNetwork, "overlay", x), local, peers))
<1> DEFINE g == DefaultInstance(c).bgp
           g1 == [g EXCEPT !.peerGroups = Put(@, "overlay", x)]
           c1 == SetBGP(c, DefaultNetwork, g1)
           d1 == SetBGP(d, DefaultNetwork, g1)
           sessions == [p \in {y \in peers : y # <<>>} |-> IBGPNeighbor(local[p], p)]
           nbs == [a \in DOMAIN sessions \cup DOMAIN g1.neighbors |->
                      IF a \in DOMAIN sessions THEN sessions[a] ELSE g1.neighbors[a]]
           g2 == [g1 EXCEPT !.neighbors = nbs]
<1>1. \A e : GetOrCreateBGP(e, DefaultNetwork) = DefaultInstance(e).bgp
  BY DEF GetOrCreateBGP, DefaultInstance
<1>2. DefaultInstance(d).bgp = g /\ IsMap(g) /\ DOMAIN g = DOMAIN NewBGP
  BY DEF Alike, Formed, FormedInstance, AllBut, NewNetworkInstance
<1>3. /\ AddBGPPeerGroup(c, DefaultNetwork, "overlay", x) = c1
      /\ AddBGPPeerGroup(d, DefaultNetwork, "overlay", x) = d1
  BY <1>1, <1>2 DEF AddBGPPeerGroup
<1> HIDE DEF g
<1>4. AllBut({"peerGroups"}, g, g1)
  BY <1>2 DEF AllBut, NewBGP, IsMap
<1> HIDE DEF g1
<1>5. Alike(c1, d1) /\ DefaultInstance(c1).bgp = g1
  BY <1>4, SetBGPAlike DEF g
<1> HIDE DEF c1, d1
<1>6. DefaultInstance(d1).bgp = g1
  BY <1>5 DEF Alike, Formed, FormedInstance, AllBut, NewNetworkInstance
<1>7. /\ WithSessions(c1, local, peers) = SetBGP(c1, DefaultNetwork, g2)
      /\ WithSessions(d1, local, peers) = SetBGP(d1, DefaultNetwork, g2)
  BY <1>1, <1>5, <1>6 DEF WithSessions
<1> HIDE DEF nbs
<1>8. AllBut({"neighbors"}, g1, g2)
  BY <1>2, <1>4 DEF AllBut, NewBGP, IsMap
<1> HIDE DEF g2
<1>9. Alike(SetBGP(c1, DefaultNetwork, g2), SetBGP(d1, DefaultNetwork, g2))
  BY <1>5, <1>8, SetBGPAlike
<1>10. QED BY <1>3, <1>7, <1>9

LEMMA EdgesAlike ==
    ASSUME NEW ds, NEW es, AllAlike(ds, es)
    PROVE  AllAlike(PeeredEdges(ds), PeeredEdges(es))
<1>1. DOMAIN PeeredEdges(ds) = DOMAIN ds /\ DOMAIN PeeredEdges(es) = DOMAIN ds
  BY DEF PeeredEdges, AllAlike
<1>2. ASSUME NEW n \in DOMAIN ds PROVE Alike(PeeredEdges(ds)[n], PeeredEdges(es)[n])
  <2> DEFINE local == [rr \in Design.reflectors |-> Prefix(GatherNodeInfo(n), rr)]
  <2>1. Alike(ds[n], es[n]) /\ n \in DOMAIN es
    BY DEF AllAlike
  <2>2. CASE n \in EdgeNodes /\ Design.reflectors # {}
    <3>1. /\ PeeredEdges(ds)[n] = WithSessions(AddBGPPeerGroup(ds[n], DefaultNetwork, "overlay", OverlayGroup(<<>>)),
                                               local, Design.reflectors)
          /\ PeeredEdges(es)[n] = WithSessions(AddBGPPeerGroup(es[n], DefaultNetwork, "overlay", OverlayGroup(<<>>)),
                                               local, Design.reflectors)
      BY <2>1, <2>2 DEF PeeredEdges
    <3> HIDE DEF local
    <3>2. QED BY <2>1, <3>1, SessionsAlike
  <2>3. CASE ~(n \in EdgeNodes /\ Design.reflectors # {})
    BY <2>1, <2>3 DEF PeeredEdges
  <2>4. QED BY <2>2, <2>3
<1>3. QED BY <1>1, <1>2 DEF AllAlike

\* Devices alike are the same but for the order.
LEMMA AlikeUnordered ==
    ASSUME NEW c, NEW d, Alike(c, d) PROVE Unordered(c) = Unordered(d)
<1> DEFINE F(e) == [name \in DOMAIN e.instances |->
                       [e.instances[name] EXCEPT !.interfaces = Range(e.instances[name].interfaces)]]
           i == DefaultInstance(c)
           j == DefaultInstance(d)
<1>1. /\ Formed(c) /\ Formed(d) /\ AllBut({"instances"}, c, d) /\ AllBut({"interfaces"}, i, j)
      /\ Range(i.interfaces) = Range(j.interfaces)
      /\ DOMAIN i = DOMAIN NewNetworkInstance /\ IsMap(i) /\ IsMap(j)
      /\ DOMAIN c = DOMAIN NewDevice /\ IsMap(c) /\ IsMap(d)
      /\ DOMAIN c.instances = {DefaultNetwork} /\ DOMAIN d.instances = {DefaultNetwork}
  BY DEF Alike, Formed, FormedInstance
<1>2. c.instances[DefaultNetwork] = i /\ d.instances[DefaultNetwork] = j
  BY <1>1 DEF DefaultInstance, GetOrCreateNetworkInstance, GetOrCreate
<1> HIDE DEF i, j
<1>3. [i EXCEPT !.interfaces = Range(i.interfaces)] = [j EXCEPT !.interfaces = Range(j.interfaces)]
  BY <1>1 DEF AllBut
<1>4. F(c) = F(d)
  BY <1>1, <1>2, <1>3
<1>5. Unordered(c) = [c EXCEPT !.instances = F(c)] /\ Unordered(d) = [d EXCEPT !.instances = F(d)]
  BY DEF Unordered
<1> HIDE DEF F
<1>6. [c EXCEPT !.instances = F(c)] = [d EXCEPT !.instances = F(c)]
  BY <1>1 DEF AllBut
<1>7. QED BY <1>4, <1>5, <1>6

-----------------------------------------------------------------------------
(* The links, step by step.                                                *)

Walked == GetLinks(input) \ pending

LEMMA ProcessLinkFilled ==
    ASSUME BuildInv, input.default, ~OrderMatters, UnderlayOf(devices, minRx, Walked), ProcessLink
    PROVE  UnderlayOf(devices', minRx', GetLinks(input) \ pending')
<1> USE DEF BuildInv
<1>0. PICK l \in pending :
         /\ LET gathered == [n \in NodesOf(l) \cup DOMAIN nodes |->
                               IF n \in DOMAIN nodes THEN nodes[n] ELSE GatherNodeInfo(n)]
                base == WithBaseConfig(WithBaseConfig(devices, gathered, l.ends[1].node),
                                       gathered, l.ends[2].node)
            IN  devices' = WithEnd(WithEnd(base, l, 1), l, 2)
         /\ minRx' = IF IsBFDEnabled(Design) THEN BFDTimerAfter(l) ELSE minRx
         /\ pending' = pending \ {l}
  BY DEF ProcessLink
<1> DEFINE gathered == [n \in NodesOf(l) \cup DOMAIN nodes |->
                           IF n \in DOMAIN nodes THEN nodes[n] ELSE GatherNodeInfo(n)]
<1>1. \A n \in NodesOf(l) : gathered[n] = GatherNodeInfo(n)
  BY DEF GatherInv
<1>2. l \in GetLinks(input) /\ pending \subseteq GetLinks(input) /\ nodeSet = DOMAIN devices
  BY DEF BuilderTypeOK
<1>3. Walked \in SUBSET GetLinks(input) /\ l \notin Walked
  BY DEF Walked
<1>4. GetLinks(input) \ pending' = Walked \cup {l}
  <2>1. pending' = pending \ {l}
    BY <1>0
  <2>2. QED BY <1>2, <2>1 DEF Walked
<1>5. minRx' = IF IsBFDEnabled(Design) THEN Override(l.bfd.minRx, minRx) ELSE minRx
  BY <1>0 DEF BFDTimerAfter
<1>6. LET base == WithBaseConfig(WithBaseConfig(devices, gathered, l.ends[1].node), gathered, l.ends[2].node)
      IN  devices' = WithEnd(WithEnd(base, l, 1), l, 2)
  BY <1>0
<1> HIDE DEF gathered
<1>7. LET base == WithBaseConfig(WithBaseConfig(devices, gathered, l.ends[1].node), gathered, l.ends[2].node)
      IN  UnderlayOf(WithEnd(WithEnd(base, l, 1), l, 2),
                     IF IsBFDEnabled(Design) THEN Override(l.bfd.minRx, minRx) ELSE minRx, Walked \cup {l})
  BY <1>1, <1>2, <1>3, LinkFilled
<1>8. QED BY <1>4, <1>5, <1>6, <1>7

-----------------------------------------------------------------------------
(* The mesh, step by step.                                                 *)

LEMMA ReflectorAdded ==
    ASSUME NEW e, NEW R, NEW ds, PeeredReflectors(e, R, ds), NEW rr, \A r \in R : r[1] # rr[1]
    PROVE  PeeredReflectors(e, R \cup {rr},
               IF rr[1] \in DOMAIN e /\ rr[2] \in {"ipv4", "ipv6"}
               THEN Put(ds, rr[1], Reflected(ds[rr[1]], rr)) ELSE ds)
<1> DEFINE n == rr[1]
           d == Reflected(ds[n], rr)
           ds2 == Put(ds, n, d)
<1>1. CASE n \in DOMAIN e /\ rr[2] \in {"ipv4", "ipv6"}
  <2>1. IsMap(ds2) /\ \A x : x \in DOMAIN ds2 <=> x \in DOMAIN ds \/ x = n
    BY PutMap
  <2>2. \A x \in DOMAIN ds2 : ds2[x] = IF x = n THEN d ELSE ds[x]
    BY <2>1, PutAt
  <2>3. ds[n] = e[n]
    BY <1>1 DEF PeeredReflectors, Reflects
  <2>4. d = Reflected(e[n], rr)
    BY <2>3
  <2> HIDE DEF ds2, d
  <2>5. DOMAIN ds2 = DOMAIN e
    <3>1. \A x : x \in DOMAIN ds2 <=> x \in DOMAIN e
      BY <1>1, <2>1 DEF PeeredReflectors
    <3>2. QED BY <3>1
  <2>6. \A x : Reflects(x, rr) <=> x = n
    BY <1>1 DEF Reflects
  <2>7. \A r \in R : ~Reflects(n, r)
    BY DEF Reflects
  <2>8. ASSUME NEW x \in DOMAIN e
        PROVE  /\ \A r \in R \cup {rr} : Reflects(x, r) => ds2[x] = Reflected(e[x], r)
               /\ (\A r \in R \cup {rr} : ~Reflects(x, r)) => ds2[x] = e[x]
    <3>1. CASE x = n
      BY <2>2, <2>4, <2>5, <2>6, <2>7, <3>1
    <3>2. CASE x # n
      <4>1. ds2[x] = ds[x] /\ ~Reflects(x, rr)
        BY <2>2, <2>5, <2>6, <3>2
      <4>2. QED BY <4>1 DEF PeeredReflectors
    <3>3. QED BY <3>1, <3>2
  <2>9. PeeredReflectors(e, R \cup {rr}, ds2)
    BY <2>1, <2>5, <2>8 DEF PeeredReflectors
  <2>10. QED BY <1>1, <2>9 DEF ds2, d
<1>2. CASE ~(n \in DOMAIN e /\ rr[2] \in {"ipv4", "ipv6"})
  <2>1. \A x \in DOMAIN e : ~Reflects(x, rr)
    BY <1>2 DEF Reflects
  <2>2. PeeredReflectors(e, R \cup {rr}, ds)
    BY <2>1 DEF PeeredReflectors
  <2>3. QED BY <1>2, <2>2
<1>3. QED BY <1>1, <1>2

LEMMA ReflectorsUnique ==
    ASSUME NEW e, NEW f, AllAlike(e, f), NEW R, NEW ds, NEW es,
           PeeredReflectors(e, R, ds), PeeredReflectors(f, R, es)
    PROVE  AllAlike(ds, es)
<1>1. DOMAIN ds = DOMAIN e /\ DOMAIN es = DOMAIN f /\ DOMAIN e = DOMAIN f
  BY DEF PeeredReflectors, AllAlike
<1>2. ASSUME NEW n \in DOMAIN ds PROVE Alike(ds[n], es[n])
  <2>1. Alike(e[n], f[n])
    BY <1>1 DEF AllAlike
  <2>2. CASE \E rr \in R : Reflects(n, rr)
    <3>1. PICK rr \in R : Reflects(n, rr)
      BY <2>2
    <3>2. ds[n] = Reflected(e[n], rr) /\ es[n] = Reflected(f[n], rr)
      BY <1>1, <3>1 DEF PeeredReflectors
    <3>3. QED BY <2>1, <3>2, SessionsAlike DEF Reflected
  <2>3. CASE \A rr \in R : ~Reflects(n, rr)
    BY <1>1, <2>1, <2>3 DEF PeeredReflectors
  <2>4. QED BY <2>2, <2>3
<1>3. QED BY <1>1, <1>2 DEF AllAlike

LEMMA ResultUnique ==
    ASSUME NEW ds, NEW es, NEW rx, NEW ry, IsResult(ds, rx), IsResult(es, ry)
    PROVE  AllAlike(ds, es) /\ rx = ry
<1>1. CASE ~IsIBGPEnabled(Design)
  BY <1>1, UnderlayUnique DEF IsResult
<1>2. CASE IsIBGPEnabled(Design)
  <2> DEFINE L == GetLinks(input)
             R == Design.reflectors
  <2>1. PICK u : UnderlayOf(u, rx, L) /\ PeeredReflectors(PeeredEdges(u), R, ds)
    BY <1>2 DEF IsResult, PeeredUnderlay
  <2>2. PICK v : UnderlayOf(v, ry, L) /\ PeeredReflectors(PeeredEdges(v), R, es)
    BY <1>2 DEF IsResult, PeeredUnderlay
  <2> HIDE DEF L, R
  <2>3. AllAlike(u, v) /\ rx = ry
    BY <2>1, <2>2, UnderlayUnique
  <2>4. AllAlike(PeeredEdges(u), PeeredEdges(v))
    BY <2>3, EdgesAlike
  <2>5. QED BY <2>1, <2>2, <2>3, <2>4, ReflectorsUnique
<1>3. QED BY <1>1, <1>2

MeshOf(ds, rx, R, ips) ==
    /\ ips = [rr \in Design.reflectors |-> EdgeAddresses(rr)]
    /\ PeeredUnderlay(ds, rx, R)

LEMMA PeerEdgesFilled ==
    ASSUME BuildInv, UnderlayOf(devices, minRx, GetLinks(input)), PeerEdges
    PROVE  MeshOf(devices', minRx', Design.reflectors \ toPeer', edgeIPs')
<1> USE DEF BuildInv
<1>1. input.default /\ DOMAIN devices = AllNodes /\ DOMAIN nodes = AllNodes
  BY DEF PeerEdges, GatherInv, BuilderTypeOK, UnderlayOf, AllNodes
<1>2. Edges = EdgeNodes /\ \A n \in Edges : nodes[n] = GatherNodeInfo(n)
  BY <1>1 DEF Edges, EdgeNodes, GatherInv
<1>3. \A rr : {Prefix(nodes[n], rr) : n \in Edges} = EdgeAddresses(rr)
  BY <1>2 DEF EdgeAddresses
<1>4. edgeIPs' = [rr \in Design.reflectors |-> EdgeAddresses(rr)]
  BY <1>3 DEF PeerEdges
<1>5. devices' = PeeredEdges(devices)
  <2>1. \A n \in Edges : [rr \in Design.reflectors |-> Prefix(nodes[n], rr)]
                            = [rr \in Design.reflectors |-> Prefix(GatherNodeInfo(n), rr)]
    BY <1>2
  <2>2. devices' = [n \in DOMAIN devices |->
            IF n \in EdgeNodes /\ Design.reflectors # {}
            THEN WithSessions(AddBGPPeerGroup(devices[n], DefaultNetwork, "overlay", OverlayGroup(<<>>)),
                              [rr \in Design.reflectors |-> Prefix(nodes[n], rr)], Design.reflectors)
            ELSE devices[n]]
    BY <1>2 DEF PeerEdges
  <2>3. QED BY <1>2, <2>1, <2>2 DEF PeeredEdges
<1>6. PeeredReflectors(PeeredEdges(devices), {}, PeeredEdges(devices))
  BY DEF PeeredReflectors, PeeredEdges, IsMap
<1>7. Design.reflectors \ toPeer' = {} /\ minRx' = minRx
  BY DEF PeerEdges
<1>8. PeeredUnderlay(devices', minRx', Design.reflectors \ toPeer')
  BY <1>5, <1>6, <1>7 DEF PeeredUnderlay
<1>9. QED BY <1>4, <1>8 DEF MeshOf

LEMMA PeerReflectorFilled ==
    ASSUME BuildInv, ~OrderMatters, MeshOf(devices, minRx, Design.reflectors \ toPeer, edgeIPs), PeerReflector
    PROVE  MeshOf(devices', minRx', Design.reflectors \ toPeer', edgeIPs')
<1> USE DEF BuildInv
<1> DEFINE R == Design.reflectors \ toPeer
<1>1. PICK rr \in toPeer :
         /\ toPeer' = toPeer \ {rr}
         /\ devices' = IF rr[1] \in DOMAIN nodes /\ rr[2] \in {"ipv4", "ipv6"}
                       THEN LET d == AddBGPPeerGroup(GetOrCreateDevice(devices, rr[1]), DefaultNetwork,
                                                     "overlay", OverlayGroup(rr))
                            IN  Put(devices, rr[1],
                                    WithSessions(d, [p \in edgeIPs[rr] |-> Prefix(nodes[rr[1]], rr)], edgeIPs[rr]))
                       ELSE devices
         /\ edgeIPs' = edgeIPs /\ minRx' = minRx
  BY DEF PeerReflector
<1>2. pc = "reflectors" /\ input.default
  BY DEF PeerReflector, GatherInv
<1>3. PICK u : UnderlayOf(u, minRx, GetLinks(input)) /\ PeeredReflectors(PeeredEdges(u), R, devices)
  BY DEF MeshOf, PeeredUnderlay
<1>4. DOMAIN devices = DOMAIN PeeredEdges(u) /\ DOMAIN nodes = DOMAIN devices
  BY <1>2, <1>3 DEF PeeredReflectors, BuilderTypeOK
<1>5. rr \in Design.reflectors /\ \A r \in R : r[1] # rr[1]
  BY DEF BuilderTypeOK, OrderMatters
<1>6. edgeIPs[rr] = EdgeAddresses(rr)
  BY <1>5 DEF MeshOf
<1>7. devices' = IF rr[1] \in DOMAIN PeeredEdges(u) /\ rr[2] \in {"ipv4", "ipv6"}
                 THEN Put(devices, rr[1], Reflected(devices[rr[1]], rr)) ELSE devices
  <2>1. CASE rr[1] \in DOMAIN nodes /\ rr[2] \in {"ipv4", "ipv6"}
    <3>1. GetOrCreateDevice(devices, rr[1]) = devices[rr[1]] /\ nodes[rr[1]] = GatherNodeInfo(rr[1])
      BY <1>4, <2>1 DEF GetOrCreateDevice, GetOrCreate, GatherInv
    <3>2. devices' = Put(devices, rr[1],
              WithSessions(AddBGPPeerGroup(devices[rr[1]], DefaultNetwork, "overlay", OverlayGroup(rr)),
                           [p \in EdgeAddresses(rr) |-> Prefix(GatherNodeInfo(rr[1]), rr)], EdgeAddresses(rr)))
      BY <1>1, <1>6, <2>1, <3>1
    <3>3. QED BY <1>4, <2>1, <3>2 DEF Reflected
  <2>2. CASE ~(rr[1] \in DOMAIN nodes /\ rr[2] \in {"ipv4", "ipv6"})
    BY <1>1, <1>4, <2>2
  <2>3. QED BY <2>1, <2>2
<1>8. Design.reflectors \ toPeer' = R \cup {rr}
  <2>1. toPeer' = toPeer \ {rr}
    BY <1>1
  <2>2. QED BY <1>5, <2>1
<1> HIDE DEF R
<1>9. PeeredReflectors(PeeredEdges(u), R \cup {rr}, devices')
  BY <1>3, <1>5, <1>7, ReflectorAdded
<1>10. PeeredUnderlay(devices', minRx', R \cup {rr})
  <2>1. minRx' = minRx
    BY <1>1
  <2>2. QED BY <1>3, <1>9, <2>1 DEF PeeredUnderlay
<1>11. edgeIPs' = edgeIPs
  BY <1>1
<1>12. QED BY <1>8, <1>10, <1>11 DEF MeshOf

-----------------------------------------------------------------------------
(* What is said of the input stays true: the input does not change.        *)

LEMMA DesignStays ==
    ASSUME input' = input
    PROVE  /\ Design' = Design /\ GetLinks(input)' = GetLinks(input) /\ AllNodes' = AllNodes
           /\ \A n : GatherNodeInfo(n)' = GatherNodeInfo(n)
           /\ \A n : n \in EdgeNodes' <=> n \in EdgeNodes
           /\ \A e, af : AddressOf(e, af)' = AddressOf(e, af)
           /\ \A e : ASOf(e)' = ASOf(e)
           /\ \A l : BGPBFD(l)' = BGPBFD(l)
           /\ \A l : HasBFD(l)' <=> HasBFD(l)
           /\ \A l : AreaOf(l)' = AreaOf(l)
           /\ \A l : OSPFInterface(l)' = OSPFInterface(l)
           /\ EBGPFamilies' = EBGPFamilies /\ (IsDynamic' <=> IsDynamic)
<1>1. Design' = Design /\ GetLinks(input)' = GetLinks(input)
  BY DEF Design
<1>2. AllNodes' = AllNodes
  BY <1>1 DEF AllNodes
<1>3. \A n : GatherNodeInfo(n)' = GatherNodeInfo(n)
  BY <1>1 DEF GatherNodeInfo
<1>4. \A n : n \in EdgeNodes' <=> n \in EdgeNodes
  BY <1>2, <1>3 DEF EdgeNodes
<1>5. /\ \A e, af : AddressOf(e, af)' = AddressOf(e, af)
      /\ \A e : ASOf(e)' = ASOf(e)
  BY <1>1 DEF AddressOf, ASOf
<1>6. /\ \A l : BGPBFD(l)' = BGPBFD(l)
      /\ \A l : HasBFD(l)' <=> HasBFD(l)
      /\ \A l : AreaOf(l)' = AreaOf(l)
  BY <1>1 DEF BGPBFD, HasBFD, AreaOf
<1>7. \A l : OSPFInterface(l)' = OSPFInterface(l)
  BY <1>1 DEF OSPFInterface
<1>8. EBGPFamilies' = EBGPFamilies /\ (IsDynamic' <=> IsDynamic)
  BY <1>1 DEF EBGPFamilies, IsDynamic
<1>9. QED BY <1>1, <1>2, <1>3, <1>4, <1>5, <1>6, <1>7, <1>8

LEMMA WritesStay ==
    ASSUME input' = input
    PROVE  /\ \A T : SubWrites(T)' = SubWrites(T)
           /\ \A T : BFDWrites(T)' = BFDWrites(T)
           /\ \A T : AreasOf(T)' = AreasOf(T)
           /\ \A a, T : AreaWrites(a, T)' = AreaWrites(a, T)
           /\ \A T : ISISWrites(T)' = ISISWrites(T)
           /\ \A T : NeighborWrites(T)' = NeighborWrites(T)
           /\ \A T : DynamicWrites(T)' = DynamicWrites(T)
           /\ \A T : GroupWrites(T)' = GroupWrites(T)
<1>1. Design' = Design /\ EBGPFamilies' = EBGPFamilies /\ (IsDynamic' <=> IsDynamic)
  BY DesignStays
<1>2. /\ \A e, af : AddressOf(e, af)' = AddressOf(e, af)
      /\ \A e : ASOf(e)' = ASOf(e)
      /\ \A l : BGPBFD(l)' = BGPBFD(l)
  BY DesignStays
<1>3. \A e, p : UnderlaySubInterface(e, p)' = UnderlaySubInterface(e, p)
  BY <1>1, <1>2 DEF UnderlaySubInterface
<1>4. \A e, p, l, af : EBGPNeighbor(e, p, l, af)' = EBGPNeighbor(e, p, l, af)
  BY <1>2 DEF EBGPNeighbor
<1>5. \A l : UnderlayGroup(l)' = UnderlayGroup(l)
  BY <1>1, <1>2 DEF UnderlayGroup
<1>6. \A l : ISISInterfaceLevels(l)' = ISISInterfaceLevels(l)
  BY <1>1 DEF ISISInterfaceLevels
<1>7. \A l : ISISInterface(l)' = ISISInterface(l)
  BY <1>1, <1>6 DEF ISISInterface
<1>8. \A T : SubWrites(T)' = SubWrites(T)
  BY <1>3 DEF SubWrites
<1>9. \A l : (HasBFD(l)' <=> HasBFD(l)) /\ AreaOf(l)' = AreaOf(l) /\ OSPFInterface(l)' = OSPFInterface(l)
  BY DesignStays
<1>10. \A T : BFDWrites(T)' = BFDWrites(T)
  BY <1>9 DEF BFDWrites
<1>11. \A T : AreasOf(T)' = AreasOf(T)
  BY <1>9 DEF AreasOf
<1>12. \A a, T : AreaWrites(a, T)' = AreaWrites(a, T)
  BY <1>9 DEF AreaWrites
<1>13. \A T : ISISWrites(T)' = ISISWrites(T)
  BY <1>7 DEF ISISWrites
<1>14. \A T : NeighborWrites(T)' = NeighborWrites(T)
  BY <1>1, <1>4 DEF NeighborWrites
<1>15. \A T : DynamicWrites(T)' = DynamicWrites(T)
  BY <1>1, <1>2 DEF DynamicWrites
<1>16. \A T : GroupWrites(T)' = GroupWrites(T)
  BY <1>1, <1>5 DEF GroupWrites
<1>17. QED BY <1>8, <1>10, <1>11, <1>12, <1>13, <1>14, <1>15, <1>16

LEMMA FilledStays ==
    ASSUME input' = input PROVE \A d, b, T : DeviceFilled(d, b, T)' <=> DeviceFilled(d, b, T)
<1>1. Design' = Design
  BY DesignStays
<1>2. \A o, b, T : OSPFFilled(o, b, T)' <=> OSPFFilled(o, b, T)
  BY <1>1, WritesStay DEF OSPFFilled
<1>3. \A i, b, T : ISISFilled(i, b, T)' <=> ISISFilled(i, b, T)
  BY <1>1, WritesStay DEF ISISFilled
<1>4. \A g, b, T : BGPFilled(g, b, T)' <=> BGPFilled(g, b, T)
  BY WritesStay DEF BGPFilled
<1>5. \A ni, b, T : InstanceFilled(ni, b, T)' <=> InstanceFilled(ni, b, T)
  BY <1>2, <1>3, <1>4 DEF InstanceFilled
<1>6. QED BY <1>5, WritesStay DEF DeviceFilled

LEMMA BaseOfStages == \A n : Base(n) = BaseStages(NewDevice, n, GatherNodeInfo(n))
  BY BaseHasStages DEF Base

LEMMA BaseStays == ASSUME input' = input PROVE \A n : Base(n)' = Base(n)
<1>1. Design' = Design /\ \A n : GatherNodeInfo(n)' = GatherNodeInfo(n)
  BY DesignStays
<1>2. \A d, n, node : HardwareOn(d, n, node)' = HardwareOn(d, n, node)
  BY <1>1 DEF HardwareOn
<1>3. /\ \A d, node : OSPFOn(d, node)' = OSPFOn(d, node)
      /\ \A d : ISISOn(d)' = ISISOn(d)
  BY <1>1 DEF OSPFOn, ISISOn, Levels
<1>4. \A d, node : UpdateUnderlayBGPNode(d, node)' = UpdateUnderlayBGPNode(d, node)
  BY <1>1 DEF UpdateUnderlayBGPNode
<1>5. (\A n : Base(n) = BaseStages(NewDevice, n, GatherNodeInfo(n)))'
  BY BaseOfStages, PTL
<1>6. \A n : Base(n)' = BaseStages(NewDevice, n, GatherNodeInfo(n))'
  BY <1>5
<1>7. \A n : BaseStages(NewDevice, n, GatherNodeInfo(n))' = BaseStages(NewDevice, n, GatherNodeInfo(n))
  BY <1>1, <1>2, <1>3, <1>4 DEF BaseStages
<1>8. QED BY <1>6, <1>7, BaseOfStages

LEMMA UnderlayStays ==
    ASSUME input' = input PROVE \A ds, rx, L : UnderlayOf(ds, rx, L)' <=> UnderlayOf(ds, rx, L)
<1>1. Design' = Design
  BY DesignStays
<1>2. \A rx, L : TimerAfter(rx, L)' <=> TimerAfter(rx, L)
  BY <1>1 DEF TimerAfter
<1>3. QED BY <1>2, FilledStays, BaseStays DEF UnderlayOf

LEMMA ResultStays ==
    ASSUME input' = input
    PROVE  /\ \A ds, rx, R, ips : MeshOf(ds, rx, R, ips)' <=> MeshOf(ds, rx, R, ips)
           /\ \A ds, rx : IsResult(ds, rx)' <=> IsResult(ds, rx)
<1>1. Design' = Design /\ GetLinks(input)' = GetLinks(input) /\ \A n : GatherNodeInfo(n)' = GatherNodeInfo(n)
  BY DesignStays
<1>2. /\ \A id : OverlayGroup(id)' = OverlayGroup(id)
      /\ \A p, q : IBGPNeighbor(p, q)' = IBGPNeighbor(p, q)
  BY <1>1 DEF OverlayGroup, IBGPNeighbor
<1>3. \A d, local, peers : WithSessions(d, local, peers)' = WithSessions(d, local, peers)
  BY <1>2 DEF WithSessions
<1>4. \A rr : EdgeAddresses(rr)' = EdgeAddresses(rr)
  <2>1. \A n : n \in EdgeNodes' <=> n \in EdgeNodes
    BY DesignStays
  <2>2. EdgeNodes' = EdgeNodes
    BY <2>1
  <2>3. QED BY <1>1, <2>2 DEF EdgeAddresses
<1>5. \A ds : PeeredEdges(ds)' = PeeredEdges(ds)
  <2>1. \A n : n \in EdgeNodes' <=> n \in EdgeNodes
    BY DesignStays
  <2>2. QED BY <1>1, <1>2, <1>3, <2>1 DEF PeeredEdges
<1>6. \A d, rr : Reflected(d, rr)' = Reflected(d, rr)
  BY <1>1, <1>2, <1>3, <1>4 DEF Reflected
<1>7. \A ds, R, ds2 : PeeredReflectors(ds, R, ds2)' <=> PeeredReflectors(ds, R, ds2)
  BY <1>6 DEF PeeredReflectors
<1>8. \A ds, rx, L : UnderlayOf(ds, rx, L)' <=> UnderlayOf(ds, rx, L)
  BY UnderlayStays
<1>9. \A ds, rx, R : PeeredUnderlay(ds, rx, R)' <=> PeeredUnderlay(ds, rx, R)
  BY <1>1, <1>5, <1>7, <1>8 DEF PeeredUnderlay
<1>10. \A ds, rx, R, ips : MeshOf(ds, rx, R, ips)' <=> MeshOf(ds, rx, R, ips)
  BY <1>1, <1>4, <1>9 DEF MeshOf
<1>11. \A ds, rx : IsResult(ds, rx)' <=> IsResult(ds, rx)
  BY <1>1, <1>8, <1>9 DEF IsResult
<1>12. QED BY <1>10, <1>11

LEMMA OrderStays == ASSUME input' = input PROVE OrderMatters' <=> OrderMatters
  BY DesignStays DEF OrderMatters

-----------------------------------------------------------------------------
(* The overlay.  Its interfaces have one order only: a history keeps the   *)
(* configurations for what was left to do at each step.                    *)

First(X, w) == w \in X /\ \A v \in X : ~Before(v, w)

\* What the step of an interface makes of the configurations.
AfterItem(ds, w) ==
    IF Item(w).itfce.dynamic THEN ds
    ELSE Put(ds, Item(w).itfce.node,
             IF w[1] = "bridge" THEN BridgeDevice(GetOrCreateDevice(ds, Item(w).itfce.node), Item(w))
                                ELSE RouterDevice(GetOrCreateDevice(ds, Item(w).itfce.node), Item(w)))

\* h has the configurations from all that is to do down to X.
IsHistory(h, X) ==
    /\ AllInterfaces(input) \in DOMAIN h /\ h[AllInterfaces(input)] = <<>>
    /\ X \in DOMAIN h
    /\ \A Y \in DOMAIN h :
          /\ X \subseteq Y /\ Y \subseteq AllInterfaces(input)
          /\ Y # X => \E w : First(Y, w) /\ Y \ {w} \in DOMAIN h /\ h[Y \ {w}] = AfterItem(h[Y], w)

LEMMA ItemsAreNumbered ==
    ASSUME input \in Inputs, NEW w \in AllInterfaces(input)
    PROVE  w[1] \in {"bridge", "router"} /\ w = <<w[1], w[2], w[3]>> /\ w[2] \in Nat /\ w[3] \in Nat
<1>1. CASE \E k \in DOMAIN input.bridges : \E j \in DOMAIN input.bridges[k].interfaces : w = <<"bridge", k, j>>
  BY <1>1, ListsAssumption
<1>2. CASE \E k \in DOMAIN input.routers : \E j \in DOMAIN input.routers[k].interfaces : w = <<"router", k, j>>
  BY <1>2, ListsAssumption
<1>3. QED BY <1>1, <1>2 DEF AllInterfaces

LEMMA FirstUnique ==
    ASSUME input \in Inputs, NEW X, X \subseteq AllInterfaces(input), NEW v, NEW w, First(X, v), First(X, w)
    PROVE  v = w
<1>1. v \in AllInterfaces(input) /\ w \in AllInterfaces(input) /\ ~Before(v, w) /\ ~Before(w, v)
  BY DEF First
<1>2. v[1] \in {"bridge", "router"} /\ v = <<v[1], v[2], v[3]>> /\ v[2] \in Nat /\ v[3] \in Nat
  BY <1>1, ItemsAreNumbered
<1>3. w[1] \in {"bridge", "router"} /\ w = <<w[1], w[2], w[3]>> /\ w[2] \in Nat /\ w[3] \in Nat
  BY <1>1, ItemsAreNumbered
<1>4. v[1] = w[1]
  BY <1>1, <1>2, <1>3 DEF Before
<1>5. v[2] = w[2]
  BY <1>1, <1>2, <1>3, <1>4 DEF Before
<1>6. v[3] = w[3]
  BY <1>1, <1>2, <1>3, <1>4, <1>5 DEF Before
<1>7. QED BY <1>2, <1>3, <1>4, <1>5, <1>6

LEMMA HistoryStarts ==
    \E h : IsHistory(h, AllInterfaces(input)) /\ h[AllInterfaces(input)] = <<>>
<1>1. IsHistory([Y \in {AllInterfaces(input)} |-> <<>>], AllInterfaces(input))
  BY DEF IsHistory
<1>2. QED BY <1>1

\* A history of the first build goes on with the step it takes.
LEMMA HistoryGrows ==
    ASSUME NEW h, NEW X, IsHistory(h, X), NEW w, First(X, w)
    PROVE  \E g : IsHistory(g, X \ {w}) /\ g[X \ {w}] = AfterItem(h[X], w)
<1> DEFINE A == AllInterfaces(input)
           Z == X \ {w}
           g == [Y \in DOMAIN h \cup {Z} |-> IF Y \in DOMAIN h THEN h[Y] ELSE AfterItem(h[X], w)]
<1>1. /\ A \in DOMAIN h /\ h[A] = <<>> /\ X \in DOMAIN h /\ w \in X
      /\ \A Y \in DOMAIN h : X \subseteq Y /\ Y \subseteq A
      /\ \A Y \in DOMAIN h : Y # X =>
            \E x : First(Y, x) /\ Y \ {x} \in DOMAIN h /\ h[Y \ {x}] = AfterItem(h[Y], x)
  BY DEF IsHistory, First
<1>2. Z \notin DOMAIN h
  BY <1>1
<1>3. /\ DOMAIN g = DOMAIN h \cup {Z} /\ \A Y \in DOMAIN h : g[Y] = h[Y]
      /\ g[Z] = AfterItem(h[X], w)
  BY <1>2
<1> HIDE DEF g, A
<1>4. ASSUME NEW Y \in DOMAIN g
      PROVE  /\ Z \subseteq Y /\ Y \subseteq A
             /\ Y # Z => \E x : First(Y, x) /\ Y \ {x} \in DOMAIN g /\ g[Y \ {x}] = AfterItem(g[Y], x)
  <2>1. CASE Y = Z
    BY <1>1, <2>1
  <2>2. CASE Y = X
    <3>1. First(Y, w) /\ Y \ {w} \in DOMAIN g /\ g[Y \ {w}] = AfterItem(g[Y], w)
      BY <1>1, <1>3, <2>2
    <3>2. QED BY <1>1, <2>2, <3>1
  <2>3. CASE Y \in DOMAIN h /\ Y # X
    <3>1. PICK x : First(Y, x) /\ Y \ {x} \in DOMAIN h /\ h[Y \ {x}] = AfterItem(h[Y], x)
      BY <1>1, <2>3
    <3>2. First(Y, x) /\ Y \ {x} \in DOMAIN g /\ g[Y \ {x}] = AfterItem(g[Y], x)
      BY <1>3, <2>3, <3>1
    <3>3. QED BY <1>1, <2>3, <3>2
  <2>4. QED BY <1>3, <2>1, <2>2, <2>3
<1>5. A \in DOMAIN g /\ g[A] = <<>> /\ Z \in DOMAIN g
  BY <1>1, <1>3
<1>6. IsHistory(g, Z)
  BY <1>4, <1>5 DEF IsHistory, A
<1>7. QED BY <1>3, <1>6

\* The second build takes the step that the history has.
LEMMA HistoryRepeats ==
    ASSUME input \in Inputs, NEW h, IsHistory(h, {}), NEW X \in DOMAIN h, NEW w, First(X, w)
    PROVE  X \ {w} \in DOMAIN h /\ h[X \ {w}] = AfterItem(h[X], w)
<1>1. X \subseteq AllInterfaces(input) /\ X # {}
  BY DEF IsHistory, First
<1>2. PICK x : First(X, x) /\ X \ {x} \in DOMAIN h /\ h[X \ {x}] = AfterItem(h[X], x)
  BY <1>1 DEF IsHistory
<1>3. x = w
  BY <1>1, <1>2, FirstUnique
<1>4. QED BY <1>2, <1>3

LEMMA HistoryStays ==
    ASSUME input' = input
    PROVE  /\ AllInterfaces(input)' = AllInterfaces(input)
           /\ \A h, X : IsHistory(h, X)' <=> IsHistory(h, X)
<1>1. Design' = Design
  BY DesignStays
<1>2. \A w : Item(w)' = Item(w)
  BY DEF Item, ServiceAt
<1>3. \A d, name, id, type : WithService(d, name, id, type)' = WithService(d, name, id, type)
  BY <1>1 DEF WithService
<1>4. \A d, item : BridgeDevice(d, item)' = BridgeDevice(d, item)
  BY <1>3 DEF BridgeDevice, VLANOf
<1>5. \A d, item : RouterDevice(d, item)' = RouterDevice(d, item)
  <2>1. \A itfce : ProviderOf(itfce)' = ProviderOf(itfce)
    BY DEF ProviderOf
  <2>2. QED BY <1>3, <2>1 DEF RouterDevice, RoutedSubInterface, IRBSubInterface, VLANOf
<1>6. \A ds, w : AfterItem(ds, w)' = AfterItem(ds, w)
  BY <1>2, <1>4, <1>5 DEF AfterItem
<1>7. AllInterfaces(input)' = AllInterfaces(input)
  BY DEF AllInterfaces
<1>8. \A X, w : First(X, w)' <=> First(X, w)
  BY DEF First, Before
<1>9. \A h, X : IsHistory(h, X)' <=> IsHistory(h, X)
  BY <1>6, <1>7, <1>8 DEF IsHistory
<1>10. QED BY <1>7, <1>9

LEMMA ItemStep ==
    ASSUME SkipDynamic \/ BridgeInterface \/ RouterInterface
    PROVE  \E w : First(work, w) /\ work' = work \ {w} /\ devices' = AfterItem(devices, w)
<1>1. CASE SkipDynamic
  <2>1. PICK w \in work : Turn(w) /\ Item(w).itfce.dynamic /\ OverlayStep(w) /\ devices' = devices
    BY <1>1 DEF SkipDynamic
  <2>2. QED BY <2>1 DEF Turn, First, OverlayStep, AfterItem
<1>2. CASE BridgeInterface
  <2>1. PICK w \in work :
           /\ Turn(w) /\ w[1] = "bridge" /\ ~Item(w).itfce.dynamic /\ OverlayStep(w)
           /\ devices' = Put(devices, Item(w).itfce.node,
                             BridgeDevice(GetOrCreateDevice(devices, Item(w).itfce.node), Item(w)))
    BY <1>2 DEF BridgeInterface
  <2>2. QED BY <2>1 DEF Turn, First, OverlayStep, AfterItem
<1>3. CASE RouterInterface
  <2>1. PICK w \in work :
           /\ Turn(w) /\ w[1] = "router" /\ ~Item(w).itfce.dynamic /\ OverlayStep(w)
           /\ devices' = Put(devices, Item(w).itfce.node,
                             RouterDevice(GetOrCreateDevice(devices, Item(w).itfce.node), Item(w)))
    BY <1>3 DEF RouterInterface
  <2>2. QED BY <2>1 DEF Turn, First, OverlayStep, AfterItem
<1>4. QED BY <1>1, <1>2, <1>3

-----------------------------------------------------------------------------
(* The builds.                                                             *)

\* The first result of a default network is the one its input determines,
\* and the second build is on the way to it.
UnderlayInv ==
    input.default /\ ~OrderMatters =>
        /\ pc = "links" => UnderlayOf(devices, minRx, Walked)
        /\ pc = "edges" => UnderlayOf(devices, minRx, GetLinks(input))
        /\ pc = "reflectors" => MeshOf(devices, minRx, Design.reflectors \ toPeer, edgeIPs)
        /\ pc = "done" => IsResult(devices, minRx)
        /\ built # <<>> => IsResult(built[1].devices, built[1].minRx)

\* The first build of another network leaves a history, in which the second
\* build is.
HistoryInv ==
    ~input.default =>
        /\ pc \in {"services", "done"} => minRx = Design.minRx
        /\ pc = "done" => work = {}
        /\ built = <<>> /\ pc \in {"services", "done"} => \E h : IsHistory(h, work) /\ h[work] = devices
        /\ built # <<>> =>
              /\ built[1].minRx = Design.minRx
              /\ \E h : /\ IsHistory(h, {}) /\ h[{}] = built[1].devices
                        /\ pc \in {"services", "done"} => work \in DOMAIN h /\ h[work] = devices

OrderInv ==
    /\ built # <<>> => built[1] = [devices |-> built[1].devices, minRx |-> built[1].minRx]
    /\ UnderlayInv /\ HistoryInv

LEMMA InputStays == [Next]_vars => input' = input
  BY DEF Next, vars, Start, BuildAgain, BuildUnderlay, BuildOverlay, ProcessLink, LinkFails, LinkPanics,
     LinksDone, PeerEdges, EdgesFail, EdgesPanic, PeerReflector, ReflectorsDone, SkipDynamic,
     BridgeInterface, RouterInterface, OverlayStep, ServiceFails, ServicesDone, End

LEMMA NothingWalked == UnderlayOf(<<>>, Design.minRx, {})
<1>1. UNION {NodesOf(l) : l \in {}} = {}
  OBVIOUS
<1>2. TimerAfter(Design.minRx, {})
  BY DEF TimerAfter
<1>3. QED BY <1>1, <1>2, EmptyMap DEF UnderlayOf

\* A build that starts, the first or the second.
LEMMA BuildStarts ==
    ASSUME BuildInv, input' = input, NewBuild(input)
    PROVE  /\ input.default => pc' = "links" /\ UnderlayOf(devices', minRx', GetLinks(input) \ pending')
           /\ ~input.default => /\ pc' = "services" /\ minRx' = Design.minRx
                                /\ work' = AllInterfaces(input) /\ devices' = <<>>
<1>1. CASE input.default
  <2>1. pc' = "links" /\ devices' = <<>> /\ minRx' = Design.minRx /\ GetLinks(input) \ pending' = {}
    BY <1>1 DEF NewBuild, Design
  <2>2. QED BY <1>1, <2>1, NothingWalked
<1>2. CASE ~input.default
  BY <1>2 DEF NewBuild, Design
<1>3. QED BY <1>1, <1>2

LEMMA UnderlayInvStep == BuildInv /\ UnderlayInv /\ [Next]_vars => UnderlayInv'
<1> SUFFICES ASSUME BuildInv, UnderlayInv, [Next]_vars, input'.default, ~OrderMatters' PROVE
        /\ pc' = "links" => UnderlayOf(devices, minRx, Walked)'
        /\ pc' = "edges" => UnderlayOf(devices, minRx, GetLinks(input))'
        /\ pc' = "reflectors" => MeshOf(devices, minRx, Design.reflectors \ toPeer, edgeIPs)'
        /\ pc' = "done" => IsResult(devices, minRx)'
        /\ built' # <<>> => IsResult(built[1].devices, built[1].minRx)'
  BY DEF UnderlayInv
<1>1. input' = input
  BY InputStays
<1>2. /\ input.default /\ ~OrderMatters
      /\ pc = "links" => UnderlayOf(devices, minRx, Walked)
      /\ pc = "edges" => UnderlayOf(devices, minRx, GetLinks(input))
      /\ pc = "reflectors" => MeshOf(devices, minRx, Design.reflectors \ toPeer, edgeIPs)
      /\ pc = "done" => IsResult(devices, minRx)
      /\ built # <<>> => IsResult(built[1].devices, built[1].minRx)
  BY <1>1, OrderStays DEF UnderlayInv
\* What is to be shown, with the definitions of this state.
<1>3. SUFFICES /\ pc' = "links" => UnderlayOf(devices', minRx', GetLinks(input) \ pending')
               /\ pc' = "edges" => UnderlayOf(devices', minRx', GetLinks(input))
               /\ pc' = "reflectors" => MeshOf(devices', minRx', Design.reflectors \ toPeer', edgeIPs')
               /\ pc' = "done" => IsResult(devices', minRx')
               /\ built' # <<>> => IsResult(built[1]'.devices, built[1]'.minRx)
  <2>1. Design' = Design /\ GetLinks(input)' = GetLinks(input)
    BY <1>1, DesignStays
  <2>2. \A ds, rx, L : UnderlayOf(ds, rx, L)' <=> UnderlayOf(ds, rx, L)
    BY <1>1, UnderlayStays
  <2>3. /\ \A ds, rx, R, ips : MeshOf(ds, rx, R, ips)' <=> MeshOf(ds, rx, R, ips)
        /\ \A ds, rx : IsResult(ds, rx)' <=> IsResult(ds, rx)
    BY <1>1, ResultStays
  <2>4. QED BY <2>1, <2>2, <2>3 DEF Walked
<1>4. CASE Start
  <2>1. pc' = "links" /\ UnderlayOf(devices', minRx', GetLinks(input) \ pending') /\ built' = built
    BY <1>1, <1>2, <1>4, BuildStarts DEF Start
  <2>2. QED BY <1>2, <2>1
<1>5. CASE BuildAgain
  <2>1. pc' = "links" /\ UnderlayOf(devices', minRx', GetLinks(input) \ pending')
    BY <1>1, <1>2, <1>5, BuildStarts DEF BuildAgain
  <2>2. built[1]'.devices = devices /\ built[1]'.minRx = minRx /\ pc = "done"
    BY <1>5 DEF BuildAgain
  <2>3. QED BY <1>2, <2>1, <2>2
<1>6. CASE ProcessLink
  <2>1. pc = "links" /\ pc' = "links" /\ built' = built
    BY <1>6 DEF ProcessLink
  <2>2. QED BY <1>2, <1>6, <2>1, ProcessLinkFilled
<1>7. CASE LinksDone
  <2>1. /\ pc = "links" /\ Walked = GetLinks(input) /\ UNCHANGED <<devices, minRx, built>>
        /\ pc' = IF IsIBGPEnabled(Design) THEN "edges" ELSE "done"
    BY <1>7 DEF LinksDone, Walked
  <2>2. UnderlayOf(devices', minRx', GetLinks(input))
    BY <1>2, <2>1
  <2>3. QED BY <1>2, <2>1, <2>2 DEF IsResult
<1>8. CASE PeerEdges
  <2>1. pc = "edges" /\ pc' = "reflectors" /\ built' = built
    BY <1>8 DEF PeerEdges
  <2>2. QED BY <1>2, <1>8, <2>1, PeerEdgesFilled
<1>9. CASE PeerReflector
  <2>1. pc = "reflectors" /\ pc' = "reflectors" /\ built' = built
    BY <1>9 DEF PeerReflector
  <2>2. QED BY <1>2, <1>9, <2>1, PeerReflectorFilled
<1>10. CASE ReflectorsDone
  <2>1. /\ pc = "reflectors" /\ Design.reflectors \ toPeer = Design.reflectors
        /\ pc' = "done" /\ UNCHANGED <<devices, minRx, built>>
    BY <1>10 DEF ReflectorsDone
  <2>2. IsIBGPEnabled(Design) /\ PeeredUnderlay(devices, minRx, Design.reflectors)
    BY <1>2, <2>1 DEF MeshOf, BuildInv, GatherInv
  <2>3. QED BY <1>2, <2>1, <2>2 DEF IsResult
<1>11. CASE LinkFails \/ LinkPanics \/ EdgesFail \/ EdgesPanic \/ ServiceFails
  <2>1. pc' \in {"failed", "panic"} /\ built' = built
    BY <1>11 DEF LinkFails, LinkPanics, EdgesFail, EdgesPanic, ServiceFails, End
  <2>2. QED BY <1>2, <2>1
<1>12. CASE SkipDynamic \/ BridgeInterface \/ RouterInterface \/ ServicesDone
  <2>1. pc = "services"
    BY <1>12 DEF SkipDynamic, BridgeInterface, RouterInterface, ServicesDone, Turn
  <2>2. QED BY <1>2, <2>1 DEF BuildInv, GatherInv
<1>13. CASE UNCHANGED vars
  BY <1>2, <1>13 DEF vars, Walked
<1>14. QED BY <1>4, <1>5, <1>6, <1>7, <1>8, <1>9, <1>10, <1>11, <1>12, <1>13
           DEF Next, BuildUnderlay, BuildOverlay

LEMMA HistoryInvStep == BuildInv /\ HistoryInv /\ [Next]_vars => HistoryInv'
<1> SUFFICES ASSUME BuildInv, HistoryInv, [Next]_vars, ~input'.default PROVE
        /\ pc' \in {"services", "done"} => (minRx = Design.minRx)'
        /\ pc' = "done" => work' = {}
        /\ built' = <<>> /\ pc' \in {"services", "done"} => (\E h : IsHistory(h, work) /\ h[work] = devices)'
        /\ built' # <<>> =>
              /\ (built[1].minRx = Design.minRx)'
              /\ (\E h : /\ IsHistory(h, {}) /\ h[{}] = built[1].devices
                         /\ pc \in {"services", "done"} => work \in DOMAIN h /\ h[work] = devices)'
  BY DEF HistoryInv
<1>1. input' = input /\ Design' = Design
  BY InputStays, DesignStays
<1>2. /\ pc \in {"services", "done"} => minRx = Design.minRx
      /\ pc = "done" => work = {}
      /\ built = <<>> /\ pc \in {"services", "done"} => \E h : IsHistory(h, work) /\ h[work] = devices
      /\ built # <<>> =>
            /\ built[1].minRx = Design.minRx
            /\ \E h : /\ IsHistory(h, {}) /\ h[{}] = built[1].devices
                      /\ pc \in {"services", "done"} => work \in DOMAIN h /\ h[work] = devices
  BY <1>1 DEF HistoryInv
\* What is to be shown, with the definitions of this state.
<1>3. SUFFICES
        /\ pc' \in {"services", "done"} => minRx' = Design.minRx
        /\ pc' = "done" => work' = {}
        /\ built' = <<>> /\ pc' \in {"services", "done"} => \E h : IsHistory(h, work') /\ h[work'] = devices'
        /\ built' # <<>> =>
              /\ built[1]'.minRx = Design.minRx
              /\ \E h : /\ IsHistory(h, {}) /\ h[{}] = built[1]'.devices
                        /\ pc' \in {"services", "done"} => work' \in DOMAIN h /\ h[work'] = devices'
  <2>1. \A h, X : IsHistory(h, X)' <=> IsHistory(h, X)
    BY <1>1, HistoryStays
  <2>2. QED BY <1>1, <2>1
<1>4. CASE Start
  <2>1. /\ pc' = "services" /\ minRx' = Design.minRx /\ work' = AllInterfaces(input) /\ devices' = <<>>
        /\ built' = built /\ pc = "new"
    BY <1>1, <1>4, BuildStarts DEF Start
  <2>2. PICK h : IsHistory(h, AllInterfaces(input)) /\ h[AllInterfaces(input)] = <<>>
    BY HistoryStarts
  <2>3. built # <<>> => \E g : /\ IsHistory(g, {}) /\ g[{}] = built[1].devices
                               /\ work' \in DOMAIN g /\ g[work'] = devices'
    <3>1. SUFFICES ASSUME built # <<>>
                   PROVE  \E g : /\ IsHistory(g, {}) /\ g[{}] = built[1].devices
                                 /\ work' \in DOMAIN g /\ g[work'] = devices'
      OBVIOUS
    <3>2. PICK g : IsHistory(g, {}) /\ g[{}] = built[1].devices
      BY <1>2, <3>1
    <3>3. QED BY <2>1, <3>2 DEF IsHistory
  <2>4. QED BY <1>2, <2>1, <2>2, <2>3
<1>5. CASE BuildAgain
  <2>1. /\ pc' = "services" /\ minRx' = Design.minRx /\ work' = AllInterfaces(input) /\ devices' = <<>>
        /\ pc = "done" /\ built = <<>>
        /\ built' # <<>> /\ built[1]'.devices = devices /\ built[1]'.minRx = minRx
    BY <1>1, <1>5, BuildStarts DEF BuildAgain
  <2>2. PICK h : IsHistory(h, {}) /\ h[{}] = devices
    BY <1>2, <2>1
  <2>3. work' \in DOMAIN h /\ h[work'] = devices'
    BY <2>1, <2>2 DEF IsHistory
  <2>4. QED BY <1>2, <2>1, <2>2, <2>3
<1>6. CASE SkipDynamic \/ BridgeInterface \/ RouterInterface
  <2>1. PICK w : First(work, w) /\ work' = work \ {w} /\ devices' = AfterItem(devices, w)
    BY <1>6, ItemStep
  <2>2. pc = "services" /\ pc' = pc /\ minRx' = minRx /\ built' = built
    BY <1>6 DEF SkipDynamic, BridgeInterface, RouterInterface, Turn, OverlayStep
  <2>3. CASE built = <<>>
    <3>1. PICK h : IsHistory(h, work) /\ h[work] = devices
      BY <1>2, <2>2, <2>3
    <3>2. PICK g : IsHistory(g, work \ {w}) /\ g[work \ {w}] = AfterItem(h[work], w)
      BY <2>1, <3>1, HistoryGrows
    <3>3. IsHistory(g, work') /\ g[work'] = devices'
      BY <2>1, <3>1, <3>2
    <3>4. QED BY <1>2, <2>2, <2>3, <3>3
  <2>4. CASE built # <<>>
    <3>1. PICK h : /\ IsHistory(h, {}) /\ h[{}] = built[1].devices
                   /\ work \in DOMAIN h /\ h[work] = devices
      BY <1>2, <2>2, <2>4
    <3>2. work \ {w} \in DOMAIN h /\ h[work \ {w}] = AfterItem(h[work], w)
      BY <2>1, <3>1, HistoryRepeats DEF BuildInv, GatherInv
    <3>3. work' \in DOMAIN h /\ h[work'] = devices'
      BY <2>1, <3>1, <3>2
    <3>4. QED BY <1>2, <2>2, <2>4, <3>1, <3>3
  <2>5. QED BY <2>3, <2>4
<1>7. CASE ServicesDone
  <2>1. pc = "services" /\ work = {} /\ pc' = "done" /\ UNCHANGED <<work, minRx, devices, built>>
    BY <1>7 DEF ServicesDone
  <2>2. QED BY <1>2, <2>1
<1>8. CASE LinkFails \/ LinkPanics \/ EdgesFail \/ EdgesPanic \/ ServiceFails
  <2>1. pc' \in {"failed", "panic"} /\ built' = built
    BY <1>8 DEF LinkFails, LinkPanics, EdgesFail, EdgesPanic, ServiceFails, End
  <2>2. QED BY <1>2, <2>1
<1>9. CASE ProcessLink \/ LinksDone \/ PeerEdges \/ PeerReflector \/ ReflectorsDone
  <2>1. pc \in {"links", "edges", "reflectors"}
    BY <1>9 DEF ProcessLink, LinksDone, PeerEdges, PeerReflector, ReflectorsDone
  <2>2. QED BY <1>1, <2>1 DEF BuildInv, GatherInv
<1>10. CASE UNCHANGED vars
  <2>1. UNCHANGED <<pc, work, minRx, devices, built>>
    BY <1>10 DEF vars
  <2>2. QED BY <1>2, <2>1
<1>11. QED BY <1>4, <1>5, <1>6, <1>7, <1>8, <1>9, <1>10 DEF Next, BuildUnderlay, BuildOverlay

LEMMA OrderInvStep == BuildInv /\ OrderInv /\ [Next]_vars => OrderInv'
<1> SUFFICES ASSUME BuildInv, OrderInv, [Next]_vars PROVE OrderInv'
  OBVIOUS
<1>1. UnderlayInv' /\ HistoryInv'
  BY UnderlayInvStep, HistoryInvStep DEF OrderInv
<1>2. \/ built' = built
      \/ built' = <<[devices |-> devices, minRx |-> minRx]>>
  BY DEF Next, vars, Start, BuildAgain, BuildUnderlay, BuildOverlay, ProcessLink, LinkFails, LinkPanics,
     LinksDone, PeerEdges, EdgesFail, EdgesPanic, PeerReflector, ReflectorsDone, SkipDynamic,
     BridgeInterface, RouterInterface, OverlayStep, ServiceFails, ServicesDone, End
<1>3. built' # <<>> => built[1]' = [devices |-> built[1]'.devices, minRx |-> built[1]'.minRx]
  BY <1>2 DEF OrderInv
<1>4. QED BY <1>1, <1>3 DEF OrderInv

LEMMA OrderInvSuffices == BuildInv /\ OrderInv => SameUpToOrder
<1> SUFFICES ASSUME BuildInv, OrderInv, pc = "done", built # <<>>, ~OrderMatters
             PROVE  /\ built[1].minRx = minRx
                    /\ [n \in DOMAIN built[1].devices |-> Unordered(built[1].devices[n])]
                           = [n \in DOMAIN devices |-> Unordered(devices[n])]
                    /\ ~input.default => built[1].devices = devices
  BY DEF SameUpToOrder
<1>1. CASE input.default
  <2> DEFINE first == built[1].devices
  <2>1. IsResult(first, built[1].minRx) /\ IsResult(devices, minRx)
    BY <1>1 DEF OrderInv, UnderlayInv
  <2> HIDE DEF first
  <2>2. AllAlike(first, devices) /\ built[1].minRx = minRx
    BY <2>1, ResultUnique
  <2>3. DOMAIN first = DOMAIN devices /\ \A n \in DOMAIN devices : Unordered(first[n]) = Unordered(devices[n])
    BY <2>2, AlikeUnordered DEF AllAlike
  <2>4. [n \in DOMAIN first |-> Unordered(first[n])] = [n \in DOMAIN devices |-> Unordered(devices[n])]
    BY <2>3
  <2>5. QED BY <1>1, <2>2, <2>4 DEF first
<1>2. CASE ~input.default
  <2>1. built[1].devices = devices /\ built[1].minRx = minRx
    BY <1>2 DEF OrderInv, HistoryInv
  <2>2. QED BY <2>1
<1>3. QED BY <1>1, <1>2

\* Every build of a default network where the order does not matter, the
\* first and the second, is on the way to the result its input determines,
\* which leaves open only the order in which a network instance lists its
\* interfaces (devices.go:175-181); the second build of another network
\* repeats the first.
THEOREM BuildsAreDeterminedUpToOrder == Spec => []OrderInv
<1>1. Init => OrderInv
  BY DEF Init, OrderInv, UnderlayInv, HistoryInv
<1>2. QED BY <1>1, OrderInvStep, BuildCorrect, PTL DEF Spec

\* Building again, for every input where the order of the iterations does
\* not matter, gives the same BFD timer and the same configurations but for
\* the order of the interfaces of the network instance, which follows the
\* links as they were listed; another network than the default one is built
\* exactly as before (builder.go:92-168, 546-815).
THEOREM RebuildsAreTheSameUpToOrder == Spec => []SameUpToOrder
BY BuildsAreDeterminedUpToOrder, BuildCorrect, OrderInvSuffices, PTL
=============================================================================
